----------------------- MODULE PgsqlStorageRefinement -----------------------
(***************************************************************************)
(* An instance of PgsqlStorage does what TsStore promises, for any threads *)
(* that write and read any data sets at the same time, any times and       *)
(* connections: through lost connections, retries, the two statements of   *)
(* pgsql_stor_ts_utime and the shutdown.                                   *)
(***************************************************************************)
EXTENDS PgsqlStorageProofs

-----------------------------------------------------------------------------
(* What a call is going to return                                          *)

(* What pgsql_stor_ts_* and pgsql_get_ts_* will return is 0 and an empty    *)
(* list until the last statement is over.                                   *)
Unset(w) == pc[w] \notin {"idle", "release"} => stat[w] = 0 /\ list[w] = {}

Answered == \A w \in Callers : Unset(w)

LEMMA AnsweredMove ==
  ASSUME Typed, Answered, NEW w \in Threads, NEW to,
         pc' = [pc EXCEPT ![w] = to], UNCHANGED <<stat, list>>,
         w \in Callers => pc[w] \notin {"idle", "release"} \/ to \in {"idle", "release"}
  PROVE  Answered'
<1>1. pc \in [Threads -> PC] /\ Callers \subseteq Threads
  BY ThreadsApart DEF Typed, TypeOK
<1> QED BY <1>1 DEF Answered, Unset

LEMMA AnsweredStatement ==
  ASSUME Typed, Answered, NEW w \in Threads, Statement(w)
  PROVE  Answered'
<1>1. /\ pc[w] = "exec"
      /\ \A v \in Threads \ {w} : /\ pc'[v] = pc[v]
                                  /\ stat'[v] = stat[v] /\ list'[v] = list[v]
  BY Outcomes
<1>2. pc \in [Threads -> PC] /\ Callers \subseteq Threads
  BY ThreadsApart DEF Typed, TypeOK
<1>3. pc'[w] = "release" \/ UNCHANGED <<stat, list>>
  BY <1>2 DEF Statement, ExecOk, ExecError, ExecLost, Goto
<1> QED BY <1>1, <1>2, <1>3 DEF Answered, Unset

LEMMA AnsweredCaller ==
  ASSUME Typed, Answered, NEW w \in Callers,
         \/ \E o \in Abstract!Calls : Call(w, o)
         \/ Inside(w) \/ ReadySpurious(w) \/ Crash(w)
  PROVE  Answered'
<1> USE DEF Goto, locals
<1>0. w \in Threads /\ pc \in [Threads -> PC] /\ Callers \subseteq Threads
      /\ stat \in [Threads -> Int] /\ list \in [Threads -> SUBSET Times]
  BY ThreadsApart DEF Typed, TypeOK
<1>1. ASSUME NEW o \in Abstract!Calls, Call(w, o) PROVE Answered'
  <2>1. /\ pc' = [pc EXCEPT ![w] = "call"]
        /\ stat' = [stat EXCEPT ![w] = 0] /\ list' = [list EXCEPT ![w] = {}]
    BY <1>1 DEF Call
  <2> QED BY <1>0, <2>1 DEF Answered, Unset
<1>2. CASE \/ ReadyTest(w) \/ ReadyLock(w) \/ ReadyWait(w) \/ ReadyTimeout(w)
           \/ ReadyUnlock(w) \/ ReadySpurious(w) \/ Crash(w)
           \/ PoolCall(w) \/ PoolLendClosed(w) \/ (\E c \in Conns : PoolLend(w, c))
           \/ ReleaseAndRetry(w) \/ PoolNull(w) \/ ReleaseAndReturn(w)
  <2>1. \E to \in PC : /\ pc' = [pc EXCEPT ![w] = to]
                       /\ pc[w] \notin {"idle", "release"} \/ to = "idle"
    BY <1>2 DEF ReadyTest, ReadyLock, ReadyWait, ReadyTimeout, TestReady, ReadyUnlock,
       ReadySpurious, Crash, PoolCall, PoolLend, PoolLendClosed, ReleaseAndRetry, PoolNull,
       ReleaseAndReturn, PC
  <2>2. UNCHANGED <<stat, list>>
    BY <1>2 DEF ReadyTest, ReadyLock, ReadyWait, ReadyTimeout, TestReady, ReadyUnlock,
       ReadySpurious, Crash, PoolCall, PoolLend, PoolLendClosed, ReleaseAndRetry, PoolNull,
       ReleaseAndReturn, Return
  <2> QED BY <1>0, <2>1, <2>2, AnsweredMove
<1>3. CASE Statement(w)
  BY <1>0, <1>3, AnsweredStatement
<1> QED
  BY <1>1, <1>2, <1>3 DEF Inside

LEMMA AnsweredMaint ==
  ASSUME Typed, Answered, Maintenance \/ InstFree \/ ServerSwitch
  PROVE  Answered'
<1> USE DEF Goto, locals
<1>0. Maint \in Threads /\ Maint \notin Callers /\ Callers \subseteq Threads
  BY ThreadsApart
<1>1. CASE \/ PoolCall(Maint) \/ (\E c \in Conns : PoolLend(Maint, c))
           \/ ReleaseAndRetry(Maint) \/ Watch \/ ClosePool \/ Destroy \/ TableDone
  <2>1. /\ \E to \in PC : pc' = [pc EXCEPT ![Maint] = to]
        /\ UNCHANGED <<stat, list>>
    BY <1>1 DEF PoolCall, PoolLend, ReleaseAndRetry, Watch, ClosePool, Destroy, TableDone, PC
  <2> QED BY <1>0, <2>1, AnsweredMove
<1>2. CASE Statement(Maint)
  BY <1>0, <1>2, AnsweredStatement
<1>3. CASE SetReady
  <2>1. UNCHANGED <<stat, list>>
        /\ pc' = [v \in Threads |-> IF v = Maint THEN "watch"
                                    ELSE IF pc[v] = "wait" THEN "lock" ELSE pc[v]]
    BY <1>3 DEF SetReady
  <2> QED BY <1>0, <2>1 DEF Answered, Unset
<1>4. CASE InstFree \/ ServerSwitch
  BY <1>4 DEF InstFree, ServerSwitch, Answered, Unset
<1> QED
  BY <1>1, <1>2, <1>3, <1>4 DEF Maintenance

LEMMA AnsweredAlways == Spec => []Answered
<1>1. Init => Answered
  BY ThreadsApart DEF Init, Answered, Unset
<1>2. Typed /\ Answered /\ [Next]_vars => Answered'
  <2> SUFFICES ASSUME Typed, Answered, [Next]_vars PROVE Answered'
    OBVIOUS
  <2>1. CASE Next
    BY <2>1, AnsweredCaller, AnsweredMaint DEF Next
  <2>2. CASE UNCHANGED vars
    BY <2>2 DEF vars, Answered, Unset
  <2> QED BY <2>1, <2>2
<1> QED BY <1>1, <1>2, StorageTyping, PTL DEF Spec
-----------------------------------------------------------------------------
(* The state of the abstract store                                         *)

(* The call of one thread that is not answered, and its last answer. *)
Pending(w) == IF pc[w] = "release" THEN NoCall ELSE op[w]
Said(w)    == [stat |-> stat[w], list |-> list[w]]

(* The threads past the test of pool.quit that may still have an effect. *)
InService == {"inpool", "exec", "retry"}

LEMMA Images ==
  /\ unanswered = [w \in Callers |-> Pending(w)]
  /\ unanswered' = [w \in Callers |-> Pending(w)']
  /\ answers = [w \in Callers |-> Said(w)]
  /\ answers' = [w \in Callers |-> Said(w)']
  /\ cutOff = IF open THEN {} ELSE {w \in Callers : pc[w] \notin InService}
  /\ cutOff' = IF open' THEN {} ELSE {w \in Callers : pc'[w] \notin InService}
  /\ Abstract!vars = <<~open, cutOff, rows, utime, unanswered, answers>>
BY DEF unanswered, answers, cutOff, Pending, Said, InService, Abstract!vars

(* Steps the callers cannot tell from none. *)
LEMMA Silent ==
  ASSUME UNCHANGED <<open, rows, utime>>,
         \A w \in Callers : /\ Pending(w)' = Pending(w) /\ Said(w)' = Said(w)
                            /\ open \/ (pc'[w] \in InService <=> pc[w] \in InService)
  PROVE  UNCHANGED Abstract!vars
<1>1. cutOff' = cutOff
  BY Images
<1>2. unanswered' = unanswered /\ answers' = answers
  BY Images
<1> QED BY <1>1, <1>2 DEF Abstract!vars

LEMMA SilentMove ==
  ASSUME Typed, NEW w \in Threads, NEW to, pc' = [pc EXCEPT ![w] = to],
         UNCHANGED <<open, rows, utime, op, stat, list>>,
         w \in Callers => /\ to # "release" /\ pc[w] # "release"
                          /\ open \/ (to \in InService <=> pc[w] \in InService)
  PROVE  UNCHANGED Abstract!vars
<1>1. pc \in [Threads -> PC] /\ Callers \subseteq Threads
  BY ThreadsApart DEF Typed, TypeOK
<1>2. ASSUME NEW v \in Callers
      PROVE  /\ Pending(v)' = Pending(v) /\ Said(v)' = Said(v)
             /\ open \/ (pc'[v] \in InService <=> pc[v] \in InService)
  BY <1>1 DEF Pending, Said
<1> QED BY <1>2, Silent

(* Steps that concern the call of one thread. *)
LEMMA OneCall ==
  ASSUME NEW w \in Callers, open' = open,
         \A v \in Callers \ {w} : /\ pc'[v] = pc[v] /\ op'[v] = op[v]
                                  /\ stat'[v] = stat[v] /\ list'[v] = list[v]
  PROVE  /\ unanswered' = [unanswered EXCEPT ![w] = Pending(w)']
         /\ answers' = [answers EXCEPT ![w] = Said(w)']
         /\ pc'[w] \notin InService => cutOff' = IF ~open THEN cutOff \cup {w} ELSE cutOff
         /\ (pc'[w] \in InService <=> pc[w] \in InService) => cutOff' = cutOff
<1>1. \A v \in Callers \ {w} : Pending(v)' = Pending(v) /\ Said(v)' = Said(v)
  BY DEF Pending, Said
<1>2. unanswered' = [unanswered EXCEPT ![w] = Pending(w)']
  BY <1>1, Images
<1>3. answers' = [answers EXCEPT ![w] = Said(w)']
  BY <1>1, Images
<1>4. pc'[w] \notin InService => cutOff' = IF ~open THEN cutOff \cup {w} ELSE cutOff
  BY Images
<1>5. (pc'[w] \in InService <=> pc[w] \in InService) => cutOff' = cutOff
  BY Images
<1> QED BY <1>2, <1>3, <1>4, <1>5

LEMMA PoolOpen == ASSUME NEW w \in Threads, PoolRelease(w) PROVE open' = open
BY DEF PoolRelease, pool, Pool!GiveBack
-----------------------------------------------------------------------------
(* Statements                                                              *)

(* The statement of a call and its kind. *)
LEMMA CallOf ==
  ASSUME Typed, NEW w \in Callers, pc[w] = "exec"
  PROVE  /\ unanswered[w] = op[w] /\ op[w] # Abstract!NoCall /\ w \notin cutOff
         /\ op[w].kind \in Kinds \ {"none"} /\ Belongs(stmt[w], op[w].kind)
         /\ stmt[w] \in Statements
<1>1. unanswered[w] = op[w] /\ w \notin cutOff
  BY Images DEF Pending, InService
<1>2. op[w] # NoCall /\ Belongs(stmt[w], op[w].kind) /\ op[w] \in Ops
      /\ stmt[w] \in Statements
  BY ThreadsApart DEF Typed, Flow, TypeOK, Ops
<1>3. op[w].kind \in Kinds \ {"none"}
  BY <1>2, CallRecords
<1> QED BY <1>1, <1>2, <1>3 DEF NoCall, Abstract!NoCall

(* What the server does for a call. *)
LEMMA Effect ==
  ASSUME Typed, NEW w \in Callers, pc[w] = "exec", Execute(w)
  PROVE  /\ stmt[w] \in {"insert row", "insert utime", "update utime"} => Abstract!Store(w)
         /\ stmt[w] \in {"select rows", "select utime"} => UNCHANGED <<rows, utime>>
<1>1. CASE stmt[w] = "insert row"
  <2>1. op[w].kind = "add"
    BY <1>1, CallOf DEF Belongs
  <2>2. rows' = [rows EXCEPT ![op[w].d] = @ \cup {op[w].t}] /\ utime' = utime
    BY <1>1 DEF Execute
  <2> QED BY <1>1, <2>1, <2>2, CallOf DEF Abstract!Store
<1>2. CASE stmt[w] \in {"insert utime", "update utime"}
  <2>1. op[w].kind = "set"
    BY <1>2, CallOf DEF Belongs
  <2>2. utime' = [utime EXCEPT ![op[w].d] = op[w].t] /\ rows' = rows
    BY <1>2 DEF Execute
  <2> QED BY <1>2, <2>1, <2>2, CallOf DEF Abstract!Store
<1>3. CASE stmt[w] \in {"select rows", "select utime"}
  BY <1>3 DEF Execute
<1> QED BY <1>1, <1>2, <1>3

(* The answer that the last statement of a call leaves. *)
LEMMA Answering ==
  ASSUME Typed, NEW w \in Callers, Statement(w), pc'[w] = "release",
         NEW r, Said(w)' = r
  PROVE  Abstract!Answer(w, r)
<1>1. /\ UNCHANGED <<open, op>>
      /\ \A v \in Callers \ {w} : /\ pc'[v] = pc[v]
                                  /\ stat'[v] = stat[v] /\ list'[v] = list[v]
  BY Outcomes, ThreadsApart
<1>2. Pending(w)' = Abstract!NoCall
  BY DEF Pending, NoCall, Abstract!NoCall
<1>3. /\ unanswered' = [unanswered EXCEPT ![w] = Abstract!NoCall]
      /\ answers' = [answers EXCEPT ![w] = r]
      /\ cutOff' = IF ~open THEN cutOff \cup {w} ELSE cutOff
  BY <1>1, <1>2, OneCall DEF InService
<1> QED BY <1>1, <1>3 DEF Abstract!Answer

LEMMA ErrorStep ==
  ASSUME Typed, Answered, NEW w \in Callers, ExecError(w)
  PROVE  Abstract!Refused(w)
<1> USE DEF db
<1>1. /\ pc[w] = "exec" /\ pc' = [pc EXCEPT ![w] = "release"]
      /\ UNCHANGED <<rows, utime, list>>
      /\ stat' = [stat EXCEPT ![w] = IF stmt[w] = "select rows" THEN 0 ELSE -1]
  BY DEF ExecError, Goto
<1>2. pc'[w] = "release" /\ list'[w] = {}
      /\ stat'[w] = IF stmt[w] = "select rows" THEN 0 ELSE -1
  BY <1>1, ThreadsApart DEF Typed, TypeOK, Answered, Unset
<1>3. stmt[w] = "select rows" <=> op[w].kind = "list"
  BY <1>1, CallOf DEF Belongs
<1>4. Said(w)' = IF unanswered[w].kind = "list" THEN Abstract!Empty
                 ELSE Abstract!Reply(-1, {})
  BY <1>1, <1>2, <1>3, CallOf DEF Said, Abstract!Empty, Abstract!Reply
<1>5. Abstract!Answer(w, IF unanswered[w].kind = "list" THEN Abstract!Empty
                         ELSE Abstract!Reply(-1, {}))
  BY <1>2, <1>4, Answering DEF Statement
<1> QED BY <1>1, <1>5, CallOf DEF Abstract!Refused

LEMMA LostStep ==
  ASSUME Typed, Answered, NEW w \in Callers, ExecLost(w)
  PROVE  [Abstract!Next]_(Abstract!vars)
<1> USE DEF db
<1>1. /\ pc[w] = "exec" /\ UNCHANGED <<open, op, list>>
      /\ Execute(w) \/ UNCHANGED <<rows, utime>>
  BY DEF ExecLost, pool
<1>2. stmt[w] \in {"insert row", "insert utime", "update utime", "select rows",
                   "select utime"}
  BY <1>1, CallOf DEF Belongs, Statements
<1>3. stat' = stat /\ pc' = [pc EXCEPT ![w] = "retry"]
  BY <1>2 DEF ExecLost
<1>4. CASE UNCHANGED <<rows, utime>>
  BY <1>1, <1>3, <1>4, SilentMove, ThreadsApart DEF InService
<1>5. CASE ~UNCHANGED <<rows, utime>>
  <2>1. Abstract!Store(w)
    BY <1>1, <1>2, <1>5, Effect
  <2>2. /\ pc'[w] = "retry"
        /\ \A v \in Callers \ {w} : pc'[v] = pc[v]
    BY <1>3, ThreadsApart DEF Typed, TypeOK
  <2>3. cutOff' = cutOff
    BY <1>1, <1>3, <2>2, OneCall DEF InService
  <2>4. \A v \in Callers : Pending(v)' = Pending(v) /\ Said(v)' = Said(v)
    BY <1>1, <1>3, <2>2 DEF Pending, Said
  <2>5. unanswered' = unanswered /\ answers' = answers
    BY <2>4, Images
  <2>6. Abstract!Attempt(w)
    BY <1>1, <2>1, <2>3, <2>5 DEF Abstract!Attempt
  <2> QED BY <2>6 DEF Abstract!Next, Abstract!Step
<1> QED BY <1>4, <1>5

LEMMA OkStep ==
  ASSUME Typed, Answered, NEW w \in Callers, ExecOk(w)
  PROVE  [Abstract!Next]_(Abstract!vars)
<1>1. pc[w] = "exec" /\ Execute(w) /\ UNCHANGED <<open, op>>
  BY DEF ExecOk, pool
<1>2. ~MustCreate(w)
  BY <1>1, CallOf DEF Belongs, MustCreate
<1>3. CASE MustWrite(w)
  <2>1. UNCHANGED <<stat, list>> /\ pc' = [pc EXCEPT ![w] = "retry"]
    BY <1>2, <1>3 DEF ExecOk
  <2>2. UNCHANGED <<rows, utime>>
    BY <1>1, <1>3, Effect DEF MustWrite
  <2> QED BY <1>1, <2>1, <2>2, SilentMove, ThreadsApart DEF InService
<1>4. CASE ~MustWrite(w)
  <2>1. Result(w) /\ pc' = [pc EXCEPT ![w] = "release"]
    BY <1>2, <1>4 DEF ExecOk
  <2>2. pc'[w] = "release"
    BY <2>1, ThreadsApart DEF Typed, TypeOK
  <2>3. /\ stat \in [Threads -> Int] /\ list \in [Threads -> SUBSET Times] /\ w \in Threads
    BY ThreadsApart DEF Typed, TypeOK
  <2>4. /\ stat'[w] = IF stmt[w] = "select utime" THEN utime[op[w].d] ELSE 0
        /\ list'[w] = IF stmt[w] = "select rows" THEN rows[op[w].d] ELSE {}
    BY <2>1, <2>3 DEF Result
  <2>5. ASSUME NEW r, Said(w)' = r PROVE Abstract!Answer(w, r)
    BY <2>2, <2>5, Answering DEF Statement
  <2>6. CASE op[w].kind \in {"add", "set"}
    <3>1. stmt[w] \in {"insert row", "insert utime", "update utime"}
      BY <1>1, <1>4, <2>6, CallOf DEF Belongs, Statements, MustWrite
    <3>2. Said(w)' = Abstract!Empty
      BY <2>4, <3>1 DEF Said, Abstract!Empty, Abstract!Reply
    <3>3. Abstract!Store(w) /\ Abstract!Answer(w, Abstract!Empty)
      BY <1>1, <2>5, <3>1, <3>2, Effect
    <3> QED
      BY <3>3 DEF Abstract!Written, Abstract!Answered, Abstract!Step, Abstract!Next
  <2>7. CASE op[w].kind = "get"
    <3>1. stmt[w] = "select utime"
      BY <1>1, <2>7, CallOf DEF Belongs, Statements
    <3>2. Said(w)' = Abstract!Reply(utime[op[w].d], {})
      BY <2>4, <3>1 DEF Said, Abstract!Reply
    <3>3. Abstract!Answer(w, Abstract!Reply(utime[op[w].d], {}))
      BY <2>5, <3>2
    <3>4. UNCHANGED <<rows, utime>>
      BY <1>1, <3>1, Effect
    <3>5. Abstract!Read(w)
      BY <1>1, <2>7, <3>3, <3>4, CallOf DEF Abstract!Read
    <3> QED BY <3>5 DEF Abstract!Answered, Abstract!Step, Abstract!Next
  <2>8. CASE op[w].kind = "list"
    <3>1. stmt[w] = "select rows"
      BY <1>1, <2>8, CallOf DEF Belongs, Statements
    <3>2. Said(w)' = Abstract!Reply(0, rows[op[w].d])
      BY <2>4, <3>1 DEF Said, Abstract!Reply
    <3>3. Abstract!Answer(w, Abstract!Reply(0, rows[op[w].d]))
      BY <2>5, <3>2
    <3>4. UNCHANGED <<rows, utime>>
      BY <1>1, <3>1, Effect
    <3>5. Abstract!Read(w)
      BY <1>1, <2>8, <3>3, <3>4, CallOf DEF Abstract!Read
    <3> QED BY <3>5 DEF Abstract!Answered, Abstract!Step, Abstract!Next
  <2> QED BY <1>1, <2>6, <2>7, <2>8, CallOf DEF Kinds
<1> QED BY <1>3, <1>4

LEMMA StatementStep ==
  ASSUME Typed, Answered, NEW w \in Callers, Statement(w)
  PROVE  [Abstract!Next]_(Abstract!vars)
<1>1. CASE ExecError(w)
  BY <1>1, ErrorStep DEF Abstract!Answered, Abstract!Step, Abstract!Next
<1> QED BY <1>1, LostStep, OkStep DEF Statement

(* The maintenance thread's statements do not concern the data. *)
LEMMA MaintStatement ==
  ASSUME Typed, Statement(Maint)
  PROVE  UNCHANGED Abstract!vars
<1>1. /\ UNCHANGED <<open, op>>
      /\ Execute(Maint) \/ UNCHANGED db
      /\ \A v \in Threads \ {Maint} : /\ pc'[v] = pc[v]
                                      /\ stat'[v] = stat[v] /\ list'[v] = list[v]
  BY Outcomes, ThreadsApart
<1>2. UNCHANGED <<rows, utime>>
  BY <1>1 DEF Execute, db, Typed, Flow
<1>3. ASSUME NEW v \in Callers
      PROVE  /\ Pending(v)' = Pending(v) /\ Said(v)' = Said(v)
             /\ pc'[v] \in InService <=> pc[v] \in InService
  <2>1. v \in Threads \ {Maint}
    BY ThreadsApart
  <2>2. UNCHANGED <<pc[v], op[v], stat[v], list[v]>>
    BY <1>1, <2>1
  <2> QED BY <2>2 DEF Pending, Said
<1> QED BY <1>1, <1>2, <1>3, Silent
-----------------------------------------------------------------------------
(* The other steps                                                         *)

LEMMA CallStep ==
  ASSUME Typed, NEW w \in Callers, NEW o \in Abstract!Calls, Call(w, o)
  PROVE  Abstract!Call(w, o)
<1> USE DEF Goto, pool, db
<1>1. /\ pc[w] = "idle" /\ pc' = [pc EXCEPT ![w] = "call"]
      /\ op' = [op EXCEPT ![w] = o]
      /\ stat' = [stat EXCEPT ![w] = 0] /\ list' = [list EXCEPT ![w] = {}]
      /\ UNCHANGED <<open, rows, utime>>
  BY DEF Call
<1>2. /\ pc \in [Threads -> PC] /\ op \in [Callers -> Ops] /\ w \in Threads
      /\ stat \in [Threads -> Int] /\ list \in [Threads -> SUBSET Times]
      /\ Callers \subseteq Threads
  BY ThreadsApart DEF Typed, TypeOK, Ops
<1>3. /\ pc'[w] = "call" /\ op'[w] = o /\ stat'[w] = 0 /\ list'[w] = {}
      /\ \A v \in Callers \ {w} : /\ pc'[v] = pc[v] /\ op'[v] = op[v]
                                  /\ stat'[v] = stat[v] /\ list'[v] = list[v]
  BY <1>1, <1>2
<1>4. Pending(w)' = o /\ Said(w)' = Abstract!Empty
  BY <1>3 DEF Pending, Said, Abstract!Empty, Abstract!Reply
<1>5. unanswered[w] = Abstract!NoCall
  BY <1>1, Images DEF Pending, Typed, Flow, NoCall, Abstract!NoCall
<1>6. /\ unanswered' = [unanswered EXCEPT ![w] = o]
      /\ answers' = [answers EXCEPT ![w] = Abstract!Empty]
      /\ cutOff' = cutOff
  BY <1>1, <1>3, <1>4, OneCall DEF InService
<1> QED BY <1>1, <1>5, <1>6 DEF Abstract!Call

(* The pool is closed: the call returns what it was set to at its start. *)
LEMMA NullStep ==
  ASSUME Typed, Answered, NEW w \in Callers, PoolNull(w)
  PROVE  Abstract!Ignored(w)
<1> USE DEF pool, db
<1>1. /\ ~open /\ pc[w] \in {"get", "inpool"} /\ pc' = [pc EXCEPT ![w] = "idle"]
      /\ UNCHANGED <<open, rows, utime, stat, list>>
      /\ op' = [op EXCEPT ![w] = NoCall]
  BY DEF PoolNull, Return
<1>2. /\ pc \in [Threads -> PC] /\ op \in [Callers -> Ops] /\ w \in Threads
      /\ Callers \subseteq Threads
  BY ThreadsApart DEF Typed, TypeOK, Ops
<1>3. /\ pc'[w] = "idle" /\ op'[w] = NoCall
      /\ \A v \in Callers \ {w} : pc'[v] = pc[v] /\ op'[v] = op[v]
  BY <1>1, <1>2
<1>4. Pending(w)' = Abstract!NoCall
  BY <1>3 DEF Pending, NoCall, Abstract!NoCall
<1>5. Said(w)' = Abstract!Empty
  BY <1>1 DEF Said, Abstract!Empty, Abstract!Reply, Answered, Unset
<1>6. /\ unanswered' = [unanswered EXCEPT ![w] = Abstract!NoCall]
      /\ answers' = [answers EXCEPT ![w] = Abstract!Empty]
      /\ cutOff' = IF ~open THEN cutOff \cup {w} ELSE cutOff
  BY <1>1, <1>3, <1>4, <1>5, OneCall DEF InService
<1>7. unanswered[w] # Abstract!NoCall
  <2>1. op[w] # NoCall /\ unanswered[w] = op[w]
    BY <1>1, Images DEF Pending, Typed, Flow
  <2> QED BY <2>1 DEF NoCall, Abstract!NoCall
<1> QED BY <1>1, <1>6, <1>7 DEF Abstract!Ignored, Abstract!Answer

(* The answer has been given: giving the connection back is not seen. *)
LEMMA ReturnStep ==
  ASSUME Typed, NEW w \in Callers, ReleaseAndReturn(w)
  PROVE  UNCHANGED Abstract!vars
<1> USE DEF Goto, db
<1>1. /\ pc[w] = "release" /\ pc' = [pc EXCEPT ![w] = "idle"]
      /\ open' = open /\ UNCHANGED <<rows, utime, stat, list>>
      /\ op' = [op EXCEPT ![w] = NoCall]
  BY PoolOpen, ThreadsApart DEF ReleaseAndReturn, Return
<1>2. /\ pc \in [Threads -> PC] /\ op \in [Callers -> Ops] /\ w \in Threads
      /\ Callers \subseteq Threads
  BY ThreadsApart DEF Typed, TypeOK, Ops
<1>3. /\ pc'[w] = "idle" /\ op'[w] = NoCall
      /\ \A v \in Callers \ {w} : pc'[v] = pc[v] /\ op'[v] = op[v]
  BY <1>1, <1>2
<1>4. ASSUME NEW v \in Callers
      PROVE  /\ Pending(v)' = Pending(v) /\ Said(v)' = Said(v)
             /\ pc'[v] \in InService <=> pc[v] \in InService
  BY <1>1, <1>3 DEF Pending, Said, InService
<1> QED BY <1>1, <1>4, Silent

LEMMA RetryStep ==
  ASSUME Typed, NEW w \in Threads, ReleaseAndRetry(w)
  PROVE  [Abstract!Next]_(Abstract!vars)
<1>1. /\ pc[w] = "retry" /\ pc' = [pc EXCEPT ![w] = "get"] /\ open' = open
      /\ UNCHANGED <<rows, utime, op, stat, list>>
  BY PoolOpen DEF ReleaseAndRetry, Goto, db, locals
<1>2. CASE open \/ w = Maint
  BY <1>1, <1>2, SilentMove, ThreadsApart
<1>3. CASE ~open /\ w \in Callers
  <2>1. /\ pc'[w] = "get" /\ \A v \in Callers \ {w} : pc'[v] = pc[v]
    BY <1>1, ThreadsApart DEF Typed, TypeOK
  <2>2. cutOff' = cutOff \cup {w}
    BY <1>1, <1>3, <2>1, OneCall DEF InService
  <2>3. \A v \in Callers : Pending(v)' = Pending(v) /\ Said(v)' = Said(v)
    BY <1>1, <2>1 DEF Pending, Said
  <2>4. unanswered' = unanswered /\ answers' = answers
    BY <2>3, Images
  <2>5. Abstract!CutOff(w)
    BY <1>1, <1>3, <2>2, <2>4 DEF Abstract!CutOff
  <2> QED BY <1>3, <2>5 DEF Abstract!Next, Abstract!Step
<1> QED BY <1>2, <1>3 DEF Threads

LEMMA CallerStep ==
  ASSUME Typed, Answered, NEW w \in Callers,
         \/ \E o \in Abstract!Calls : Call(w, o)
         \/ Inside(w) \/ ReadySpurious(w) \/ Crash(w)
  PROVE  [Abstract!Next]_(Abstract!vars)
<1> USE DEF Goto, pool, db, flags, locals
<1>0. w \in Threads /\ w # Maint
  BY ThreadsApart
<1>1. ASSUME NEW o \in Abstract!Calls, Call(w, o) PROVE Abstract!Next
  BY <1>1, CallStep DEF Abstract!Next
<1>2. CASE \/ ReadyTest(w) \/ ReadyLock(w) \/ ReadyWait(w) \/ ReadyTimeout(w)
           \/ ReadyUnlock(w) \/ ReadySpurious(w) \/ Crash(w)
           \/ PoolCall(w) \/ PoolLendClosed(w) \/ \E c \in Conns : PoolLend(w, c)
  <2>1. \E to \in PC : /\ pc' = [pc EXCEPT ![w] = to]
                       /\ to # "release" /\ pc[w] # "release"
                       /\ open \/ (to \in InService <=> pc[w] \in InService)
    BY <1>2 DEF ReadyTest, ReadyLock, ReadyWait, ReadyTimeout, TestReady, ReadyUnlock,
       ReadySpurious, Crash, PoolCall, PoolLend, Pool!Lend, PoolLendClosed, PC, InService
  <2>2. UNCHANGED <<open, rows, utime, op, stat, list>>
    BY <1>2 DEF ReadyTest, ReadyLock, ReadyWait, ReadyTimeout, TestReady, ReadyUnlock,
       ReadySpurious, Crash, PoolCall, PoolLend, Pool!Lend, PoolLendClosed
  <2> QED BY <1>0, <2>1, <2>2, SilentMove
<1>3. CASE PoolNull(w)
  BY <1>3, NullStep DEF Abstract!Answered, Abstract!Step, Abstract!Next
<1>4. CASE ReleaseAndReturn(w)
  BY <1>4, ReturnStep
<1>5. CASE Statement(w)
  BY <1>5, StatementStep
<1>6. CASE ReleaseAndRetry(w)
  BY <1>0, <1>6, RetryStep
<1> QED
  BY <1>1, <1>2, <1>3, <1>4, <1>5, <1>6 DEF Inside

LEMMA CloseStep == ASSUME Typed, ClosePool PROVE Abstract!Close
<1>1. /\ open /\ open' = FALSE /\ pc' = [pc EXCEPT ![Maint] = "destroy"]
      /\ UNCHANGED <<rows, utime, op, stat, list>>
  BY DEF ClosePool, Pool!Close, Goto, db, locals
<1>2. \A w \in Callers : pc'[w] = pc[w]
  BY <1>1, ThreadsApart DEF Typed, TypeOK
<1>3. \A w \in Callers : Pending(w)' = Pending(w) /\ Said(w)' = Said(w)
  BY <1>1, <1>2 DEF Pending, Said
<1>4. unanswered' = unanswered /\ answers' = answers
  BY <1>3, Images
<1>5. cutOff' = {w \in Callers : pc[w] \notin InService}
  BY <1>1, <1>2, Images
<1>6. ASSUME NEW w \in Callers, unanswered[w] = Abstract!NoCall
      PROVE  w \in cutOff'
  <2>1. Pending(w) = NoCall
    BY <1>6, Images DEF NoCall, Abstract!NoCall
  <2>2. pc[w] \in {"idle", "release"}
    BY <2>1 DEF Pending, Typed, Flow
  <2> QED BY <1>5, <2>2 DEF InService
<1>7. cutOff' \in SUBSET Callers
  BY <1>5
<1>8. cutOff' = cutOff' \cup {w \in Callers : unanswered[w] = Abstract!NoCall}
  BY <1>6
<1> QED BY <1>1, <1>4, <1>7, <1>8 DEF Abstract!Close

LEMMA MaintStep ==
  ASSUME Typed, Maintenance \/ InstFree \/ ServerSwitch
  PROVE  [Abstract!Next]_(Abstract!vars)
<1> USE DEF Goto, pool, db, flags, locals
<1>0. Maint \in Threads /\ Maint \notin Callers /\ Callers \subseteq Threads
  BY ThreadsApart
<1>1. CASE \/ PoolCall(Maint) \/ (\E c \in Conns : PoolLend(Maint, c)) \/ TableDone
           \/ Watch \/ Destroy
  <2>1. /\ \E to \in PC : pc' = [pc EXCEPT ![Maint] = to]
        /\ UNCHANGED <<rows, utime, op, stat, list>>
    BY <1>1 DEF PoolCall, PoolLend, TableDone, Watch, Destroy, PC
  <2>2. open' = open
    BY <1>0, <1>1, PoolOpen DEF PoolCall, PoolLend, Pool!Lend, TableDone, Watch, Destroy
  <2> QED BY <1>0, <2>1, <2>2, SilentMove
<1>2. CASE Statement(Maint)
  BY <1>2, MaintStatement
<1>3. CASE ReleaseAndRetry(Maint)
  BY <1>0, <1>3, RetryStep
<1>4. CASE SetReady
  <2>1. /\ pc' = [v \in Threads |-> IF v = Maint THEN "watch"
                                    ELSE IF pc[v] = "wait" THEN "lock" ELSE pc[v]]
        /\ UNCHANGED <<open, rows, utime, op, stat, list>>
    BY <1>4 DEF SetReady
  <2>2. ASSUME NEW v \in Callers
        PROVE  /\ Pending(v)' = Pending(v) /\ Said(v)' = Said(v)
               /\ pc'[v] \in InService <=> pc[v] \in InService
    BY <1>0, <2>1 DEF Pending, Said, InService
  <2> QED BY <2>1, <2>2, Silent
<1>5. CASE InstFree \/ ServerSwitch
  <2>1. UNCHANGED <<open, rows, utime, op, stat, list, pc>>
    BY <1>5 DEF InstFree, ServerSwitch
  <2> QED BY <2>1, Silent DEF Pending, Said
<1>6. CASE ClosePool
  BY <1>6, CloseStep DEF Abstract!Next
<1> QED
  BY <1>1, <1>2, <1>3, <1>4, <1>5, <1>6 DEF Maintenance

(* The plugin implements the store: while threads write and read the same   *)
(* data sets at the same time, a write that returns 0 while the instance is *)
(* open has been executed during the call, a read returns what was stored   *)
(* at one moment of the call or the answer for an error, and a thread that  *)
(* the shutdown has cut off writes nothing any more.                        *)
THEOREM StorageImplementsTsStore == Spec => ImplementsTsStore
<1>1. Init => Abstract!Init
  <2> SUFFICES ASSUME Init PROVE Abstract!Init
    OBVIOUS
  <2>1. \A w \in Callers : pc[w] = "idle" /\ op[w] = NoCall /\ stat[w] = 0 /\ list[w] = {}
    BY ThreadsApart DEF Init
  <2>2. \A w \in Callers : Pending(w) = Abstract!NoCall /\ Said(w) = Abstract!Empty
    BY <2>1 DEF Pending, Said, NoCall, Abstract!NoCall, Abstract!Empty, Abstract!Reply
  <2>3. /\ unanswered = [w \in Callers |-> Abstract!NoCall]
        /\ answers = [w \in Callers |-> Abstract!Empty]
    BY <2>2, Images
  <2> QED BY <2>3, Images DEF Init, Pool!Init, Abstract!Init
<1>2. Typed /\ Answered /\ [Next]_vars => [Abstract!Next]_(Abstract!vars)
  <2> SUFFICES ASSUME Typed, Answered, [Next]_vars PROVE [Abstract!Next]_(Abstract!vars)
    OBVIOUS
  <2>1. CASE Next
    BY <2>1, CallerStep, MaintStep DEF Next
  <2>2. CASE UNCHANGED vars
    BY <2>2, Silent DEF vars, Pending, Said
  <2> QED BY <2>1, <2>2
<1> QED
  BY <1>1, <1>2, StorageTyping, AnsweredAlways, PTL
  DEF Spec, ImplementsTsStore, Abstract!Spec
=============================================================================
