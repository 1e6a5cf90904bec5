------------------------- MODULE PgsqlStorageProofs -------------------------
(***************************************************************************)
(* Proofs about PgsqlStorage, for any callers, data sets, times and        *)
(* connections.                                                            *)
(*                                                                         *)
(* Typed says where each thread may be and which statement belongs to the  *)
(* call it is in; the other invariants rest on it.                         *)
(***************************************************************************)
EXTENDS PgsqlStorage, FiniteSetTheorems, TLAPS

-----------------------------------------------------------------------------
(* Typing                                                                  *)

(* Where a caller may be, and the maintenance thread. *)
Running == {"exec", "retry", "release"}
CallPC  == {"idle", "call", "lock", "tested", "wait", "unlock", "get", "inpool", "crash"}
             \cup Running
MaintPC == {"get", "inpool", "setready", "watch", "close", "destroy", "done"} \cup Running

(* The statement belongs to the operation. *)
Belongs(s, kind) ==
  /\ s = "none" <=> kind = "none"
  /\ s = "insert row" <=> kind = "add"
  /\ s = "select rows" <=> kind = "list"
  /\ s \in {"insert utime", "update utime"} => kind = "set"
  /\ s = "select utime" => kind \in {"set", "get"}
  /\ s \notin {"exists", "create"}

Kinds == {"none", "add", "set", "get", "list"}

Ops == Abstract!Calls \cup {NoCall}

Flow ==
  /\ \A w \in Callers : /\ pc[w] \in CallPC
                        /\ op[w] = NoCall <=> pc[w] = "idle"
                        /\ Belongs(stmt[w], op[w].kind)
  /\ pc[Maint] \in MaintPC
  /\ stmt[Maint] \in {"exists", "create"}

Typed == TypeOK /\ Flow

(* What there is to know of the records that stand for calls. *)
LEMMA CallRecords ==
  /\ \A o \in Ops : o.kind \in Kinds
  /\ \A o \in Abstract!Calls : /\ o.kind # "none" /\ o # NoCall /\ o.d \in Dsets
                               /\ o.kind \in {"add", "set"} => o.t \in Times
  /\ NoCall \in Ops /\ NoCall.kind = "none"
  /\ \A o \in Ops : o # NoCall => o \in Abstract!Calls
BY DEF Ops, Kinds, Abstract!Calls, Abstract!Writes, Abstract!Reads, NoCall

LEMMA ThreadsApart ==
  /\ Maint \in Threads /\ Maint \notin Callers /\ Callers \subseteq Threads
  /\ NoOne \notin Threads
BY StorageAssumption DEF Threads

LEMMA TypedInit == Init => Typed
<1> SUFFICES ASSUME Init PROVE Typed
  OBVIOUS
<1> USE ThreadsApart, CallRecords
<1>1. Pool!TypeOK
  BY DEF Init, Pool!Init, Pool!TypeOK, Pool!Borrowers
<1>2. /\ pc \in [Threads -> PC] /\ stmt \in [Threads -> Statements]
      /\ stat \in [Threads -> Int] /\ list \in [Threads -> SUBSET Times]
      /\ op \in [Callers -> Ops]
  BY DEF Init, PC, Statements
<1>3. TypeOK
  BY <1>1, <1>2 DEF Init, TypeOK, Tables, Ops
<1>4. Flow
  BY <1>2 DEF Init, Flow, CallPC, MaintPC, Belongs, Threads
<1> QED BY <1>3, <1>4 DEF Typed

(* The steps that move a thread and change no other variable but the pool's *)
(* and those that are typed at once.                                        *)
LEMMA TypedMove ==
  ASSUME Typed, NEW w \in Threads, NEW to \in PC,
         pc' = [pc EXCEPT ![w] = to],
         w \in Callers => to \in CallPC /\ (to = "idle" <=> pc[w] = "idle"),
         w = Maint => to \in MaintPC,
         Pool!TypeOK', quit' \in BOOLEAN, freed' \in BOOLEAN, mutex' \in Callers \cup {NoOne},
         UNCHANGED <<up, tables, rows, utime, ready, table, op, stmt, stat, list>>
  PROVE  Typed'
<1>1. TypeOK'
  BY DEF Typed, TypeOK
<1>2. Flow'
  BY ThreadsApart DEF Typed, TypeOK, Flow
<1> QED BY <1>1, <1>2 DEF Typed

LEMMA PoolTyped ==
  ASSUME Typed
  PROVE  /\ UNCHANGED pool => Pool!TypeOK'
         /\ \A w \in Threads, c \in Conns :
              Pool!Lend(w, c) \/ Pool!GiveBack(w, c) => Pool!TypeOK'
         /\ \A w \in Threads : PoolRelease(w) => Pool!TypeOK'
         /\ Pool!Close => Pool!TypeOK'
<1>1. Pool!TypeOK
  BY DEF Typed, TypeOK
<1>2. UNCHANGED pool => Pool!TypeOK'
  BY <1>1 DEF pool, Pool!TypeOK
<1>3. ASSUME NEW w \in Threads, NEW c \in Conns, Pool!Lend(w, c) \/ Pool!GiveBack(w, c)
      PROVE  Pool!TypeOK'
  BY <1>1, <1>3 DEF Pool!TypeOK, Pool!Borrowers, Pool!Lend, Pool!GiveBack
<1>4. Pool!Close => Pool!TypeOK'
  BY <1>1 DEF Pool!TypeOK, Pool!Close
<1> QED BY <1>2, <1>3, <1>4 DEF PoolRelease

(* The call a statement belongs to names a data set and a time to write. *)
LEMMA DataCalls ==
  ASSUME Typed, NEW w \in Threads,
         stmt[w] \in {"insert row", "insert utime", "update utime", "select utime", "select rows"}
  PROVE  /\ w \in Callers /\ op[w] \in Abstract!Calls /\ op[w].d \in Dsets
         /\ stmt[w] \in {"insert row", "insert utime", "update utime"} => op[w].t \in Times
<1>1. w \in Callers
  BY DEF Typed, Flow, Threads
<1>2. op[w] \in Ops /\ Belongs(stmt[w], op[w].kind)
  BY <1>1 DEF Typed, TypeOK, Ops, Flow
<1>3. op[w].kind # "none"
  BY <1>2 DEF Belongs
<1>4. op[w] \in Abstract!Calls
  BY <1>2, <1>3, CallRecords
<1>5. stmt[w] \in {"insert row", "insert utime", "update utime"} => op[w].kind \in {"add", "set"}
  BY <1>2 DEF Belongs
<1> QED BY <1>1, <1>4, <1>5, CallRecords

(* What a last statement leaves is an answer. *)
LEMMA ResultTyped ==
  ASSUME Typed, NEW w \in Threads, Result(w)
  PROVE  /\ stat' \in [Threads -> Int] /\ list' \in [Threads -> SUBSET Times]
         /\ \A v \in Threads \ {w} : stat'[v] = stat[v] /\ list'[v] = list[v]
<1>1. ASSUME NEW n, NEW l, Result(w),
             n = IF stmt[w] = "select utime" THEN utime[op[w].d] ELSE 0,
             l = IF stmt[w] = "select rows" THEN rows[op[w].d] ELSE {}
      PROVE  stat' = [stat EXCEPT ![w] = n] /\ list' = [list EXCEPT ![w] = l]
  BY <1>1 DEF Result
<1>2. \E n \in Int : n = IF stmt[w] = "select utime" THEN utime[op[w].d] ELSE 0
  <2>1. CASE stmt[w] = "select utime"
    <3>1. op[w].d \in Dsets /\ utime \in [Dsets -> Times \cup {0}]
      BY <2>1, DataCalls DEF Typed, TypeOK
    <3>2. utime[op[w].d] \in Times \cup {0}
      BY <3>1
    <3>3. Times \cup {0} \subseteq Int
      BY StorageAssumption
    <3>4. utime[op[w].d] \in Int
      BY <3>2, <3>3, Zenon
    <3> QED BY <2>1, <3>4, Zenon
  <2>2. CASE stmt[w] # "select utime"
    <3>1. 0 \in Int
      OBVIOUS
    <3> QED BY <2>2, <3>1, Zenon
  <2> QED BY <2>1, <2>2
<1>3. \E l \in SUBSET Times : l = IF stmt[w] = "select rows" THEN rows[op[w].d] ELSE {}
  BY DataCalls DEF Typed, TypeOK
<1>4. PICK n \in Int, l \in SUBSET Times :
        stat' = [stat EXCEPT ![w] = n] /\ list' = [list EXCEPT ![w] = l]
  BY <1>1, <1>2, <1>3, Zenon
<1>5. stat \in [Threads -> Int] /\ list \in [Threads -> SUBSET Times]
  BY DEF Typed, TypeOK
<1> QED BY <1>4, <1>5

LEMMA Outcomes ==
  ASSUME Typed, NEW w \in Threads, Statement(w)
  PROVE  /\ pc[w] = "exec" /\ pc'[w] \in Running
         /\ UNCHANGED <<open, lent, up, ready, quit, mutex, freed, table, op>>
         /\ Execute(w) \/ UNCHANGED db
         /\ pc' \in [Threads -> PC] /\ stmt' \in [Threads -> Statements]
         /\ stat' \in [Threads -> Int] /\ list' \in [Threads -> SUBSET Times]
         /\ \A v \in Threads \ {w} : /\ pc'[v] = pc[v] /\ stmt'[v] = stmt[v]
                                     /\ stat'[v] = stat[v] /\ list'[v] = list[v]
<1> USE DEF pool, flags
<1>0. /\ pc \in [Threads -> PC] /\ stmt \in [Threads -> Statements]
      /\ stat \in [Threads -> Int] /\ list \in [Threads -> SUBSET Times]
  BY DEF Typed, TypeOK
<1>1. /\ pc[w] = "exec"
      /\ UNCHANGED <<open, lent, up, ready, quit, mutex, freed, table, op>>
      /\ Execute(w) \/ UNCHANGED db
  BY DEF Statement, ExecOk, ExecError, ExecLost, Goto
<1>2. \/ pc' = pc
      \/ pc' = [pc EXCEPT ![w] = "retry"] \/ pc' = [pc EXCEPT ![w] = "release"]
  BY DEF Statement, ExecOk, ExecError, ExecLost, Goto
<1>3. \/ stmt' = stmt
      \/ \E s \in {"create", "insert utime", "update utime"} : stmt' = [stmt EXCEPT ![w] = s]
  BY DEF Statement, ExecOk, ExecError, ExecLost
<1>4. \/ Result(w)
      \/ /\ list' = list
         /\ stat' = stat \/ \E r \in {0, -1} : stat' = [stat EXCEPT ![w] = r]
  BY DEF Statement, ExecOk, ExecError, ExecLost
<1>5. /\ pc' \in [Threads -> PC] /\ pc'[w] \in Running
      /\ \A v \in Threads \ {w} : pc'[v] = pc[v]
  BY <1>0, <1>1, <1>2 DEF PC, Running
<1>6. /\ stmt' \in [Threads -> Statements]
      /\ \A v \in Threads \ {w} : stmt'[v] = stmt[v]
  BY <1>0, <1>3 DEF Statements
<1>7. /\ stat' \in [Threads -> Int] /\ list' \in [Threads -> SUBSET Times]
      /\ \A v \in Threads \ {w} : stat'[v] = stat[v] /\ list'[v] = list[v]
  BY <1>0, <1>4, ResultTyped
<1> QED BY <1>1, <1>5, <1>6, <1>7

(* What the server stores stays well-formed. *)
LEMMA DbTyped ==
  ASSUME Typed, NEW w \in Threads, Execute(w) \/ UNCHANGED db
  PROVE  /\ tables' \subseteq Tables
         /\ rows' \in [Dsets -> SUBSET Times] /\ utime' \in [Dsets -> Times \cup {0}]
<1>0. /\ tables \subseteq Tables /\ table \in Tables
      /\ rows \in [Dsets -> SUBSET Times] /\ utime \in [Dsets -> Times \cup {0}]
  BY DEF Typed, TypeOK
<1>1. CASE UNCHANGED db
  BY <1>0, <1>1 DEF db
<1>2. CASE Execute(w)
  <2> DEFINE t == op[w].t
             x == op[w].d
  <2>1. /\ tables' = IF stmt[w] = "create" THEN tables \cup {table} ELSE tables
        /\ rows' = IF stmt[w] = "insert row"
                   THEN [rows EXCEPT ![x] = rows[x] \cup {t}] ELSE rows
        /\ utime' = IF stmt[w] \in {"insert utime", "update utime"}
                    THEN [utime EXCEPT ![x] = t] ELSE utime
    BY <1>2 DEF Execute
  <2>2. stmt[w] \in {"insert row", "insert utime", "update utime"} => x \in Dsets /\ t \in Times
    BY DataCalls
  <2> HIDE DEF t, x
  <2> QED BY <1>0, <2>1, <2>2
<1> QED BY <1>1, <1>2

LEMMA TypedStatement ==
  ASSUME Typed, NEW w \in Threads, Statement(w)
  PROVE  Typed'
<1>1. /\ pc[w] = "exec" /\ pc'[w] \in Running
      /\ UNCHANGED <<open, lent, up, ready, quit, mutex, freed, table, op>>
      /\ Execute(w) \/ UNCHANGED db
      /\ pc' \in [Threads -> PC] /\ stmt' \in [Threads -> Statements]
      /\ stat' \in [Threads -> Int] /\ list' \in [Threads -> SUBSET Times]
      /\ \A v \in Threads \ {w} : pc'[v] = pc[v] /\ stmt'[v] = stmt[v] /\ stat'[v] = stat[v]
  BY Outcomes
<1>2. /\ tables' \subseteq Tables
      /\ rows' \in [Dsets -> SUBSET Times] /\ utime' \in [Dsets -> Times \cup {0}]
  BY <1>1, DbTyped
<1>3. TypeOK'
  <2>1. Pool!TypeOK'
    BY <1>1, PoolTyped DEF pool
  <2> QED BY <1>1, <1>2, <2>1 DEF Typed, TypeOK
<1>4. \/ stmt'[w] = stmt[w]
      \/ stmt[w] = "exists" /\ stmt'[w] = "create"
      \/ /\ stmt[w] = "select utime" /\ op[w].kind = "set"
         /\ stmt'[w] \in {"insert utime", "update utime"}
  BY DEF Statement, ExecOk, ExecError, ExecLost, MustCreate, MustWrite, Typed, TypeOK
<1>5. CASE w = Maint
  <2>1. stmt'[Maint] \in {"exists", "create"} /\ pc'[Maint] \in MaintPC
    BY <1>1, <1>4, <1>5 DEF Typed, Flow, MaintPC
  <2>2. \A d \in Callers : pc'[d] = pc[d] /\ stmt'[d] = stmt[d] /\ op'[d] = op[d]
    BY <1>1, <1>5, ThreadsApart
  <2>3. Flow'
    BY <2>1, <2>2 DEF Typed, Flow
  <2> QED BY <1>3, <2>3 DEF Typed
<1>6. CASE w \in Callers
  <2>1. pc'[w] \in CallPC /\ pc'[w] # "idle" /\ op[w] # NoCall
    BY <1>1, <1>6 DEF Typed, Flow, CallPC, Running
  <2>2. Belongs(stmt'[w], op[w].kind)
    BY <1>4, <1>6 DEF Typed, Flow, Belongs
  <2>3. \A v \in Threads \ {w} : pc'[v] = pc[v] /\ stmt'[v] = stmt[v]
    BY <1>1
  <2>4. Flow'
    BY <1>1, <1>6, <2>1, <2>2, <2>3, ThreadsApart DEF Typed, Flow
  <2> QED BY <1>3, <2>4 DEF Typed
<1> QED BY <1>5, <1>6 DEF Threads

LEMMA TypedReturn ==
  ASSUME Typed, NEW w \in Callers, pc[w] # "idle",
         pc' = [pc EXCEPT ![w] = "idle"], Return(w), Pool!TypeOK',
         UNCHANGED <<up, tables, rows, utime, ready, quit, mutex, freed, table>>
  PROVE  Typed'
<1>0. w \in Threads /\ w # Maint
  BY ThreadsApart
<1>1. /\ op \in [Callers -> Ops] /\ stmt \in [Threads -> Statements] /\ pc \in [Threads -> PC]
  BY DEF Typed, TypeOK, Ops
<1>2. /\ op' = [op EXCEPT ![w] = NoCall] /\ stmt' = [stmt EXCEPT ![w] = "none"]
      /\ UNCHANGED <<stat, list>>
  BY DEF Return
<1>3. op' \in [Callers -> Ops]
  <2>1. NoCall \in Ops
    BY CallRecords
  <2> QED BY <1>1, <1>2, <2>1
<1>4. stmt' \in [Threads -> Statements] /\ pc' \in [Threads -> PC]
  BY <1>0, <1>1, <1>2 DEF Statements, PC
<1>5. TypeOK'
  BY <1>2, <1>3, <1>4 DEF Typed, TypeOK, Ops
<1>6. Flow'
  BY <1>0, <1>1, <1>2, CallRecords, ThreadsApart DEF Typed, Flow, CallPC, Belongs
<1> QED BY <1>5, <1>6 DEF Typed

(* A caller. *)
LEMMA TypedData ==
  ASSUME Typed, NEW w \in Callers,
         \/ \E o \in Abstract!Calls : Call(w, o)
         \/ Inside(w) \/ ReadySpurious(w) \/ Crash(w)
  PROVE  Typed'
<1> USE DEF Goto, pool, db, flags, locals
<1>0. w \in Threads /\ w # Maint
  BY ThreadsApart
<1>1. ASSUME NEW o \in Abstract!Calls, Call(w, o) PROVE Typed'
  <2>1. /\ op \in [Callers -> Ops] /\ stmt \in [Threads -> Statements]
        /\ pc \in [Threads -> PC]
        /\ stat \in [Threads -> Int] /\ list \in [Threads -> SUBSET Times]
    BY DEF Typed, TypeOK, Ops
  <2>2. /\ pc' = [pc EXCEPT ![w] = "call"] /\ op' = [op EXCEPT ![w] = o]
        /\ stmt' = [stmt EXCEPT ![w] = First(o)]
        /\ stat' = [stat EXCEPT ![w] = 0] /\ list' = [list EXCEPT ![w] = {}]
        /\ UNCHANGED <<open, lent, up, tables, rows, utime, ready, quit, mutex, freed, table>>
    BY <1>1 DEF Call
  <2>3. o \in Ops /\ o.kind \in Kinds \ {"none"} /\ o # NoCall
    BY CallRecords DEF Ops
  <2>4. First(o) \in Statements /\ Belongs(First(o), o.kind)
    <3>1. CASE o.kind = "add"
      <4>1. First(o) = "insert row"
        BY <3>1, Zenon DEF First
      <4> QED BY <3>1, <4>1 DEF Belongs, Statements
    <3>2. CASE o.kind = "list"
      <4>1. First(o) = "select rows"
        BY <3>2, Zenon DEF First
      <4> QED BY <3>2, <4>1 DEF Belongs, Statements
    <3>3. CASE o.kind \in {"set", "get"}
      <4>1. o.kind # "add" /\ o.kind # "list"
        BY <3>3
      <4>2. First(o) = "select utime"
        BY <4>1, Zenon DEF First
      <4> QED BY <3>3, <4>2 DEF Belongs, Statements
    <3> QED BY <2>3, <3>1, <3>2, <3>3 DEF Kinds
  <2>5. Pool!TypeOK'
    BY <2>2, PoolTyped
  <2>6. op' \in [Callers -> Ops] /\ op'[w] = o
    BY <2>1, <2>2, <2>3
  <2>7. stmt' \in [Threads -> Statements] /\ stmt'[w] = First(o)
    BY <1>0, <2>1, <2>2, <2>4
  <2>8. /\ pc' \in [Threads -> PC]
        /\ stat' \in [Threads -> Int] /\ list' \in [Threads -> SUBSET Times]
    BY <1>0, <2>1, <2>2 DEF PC
  <2>9. TypeOK'
    BY <2>2, <2>5, <2>6, <2>7, <2>8 DEF Typed, TypeOK, Ops
  <2>10. Flow'
    <3>1. /\ \A v \in Threads \ {w} : pc'[v] = pc[v] /\ stmt'[v] = stmt[v]
          /\ \A e \in Callers \ {w} : op'[e] = op[e]
          /\ pc'[w] = "call"
      BY <1>0, <2>1, <2>2
    <3> QED BY <1>0, <2>3, <2>4, <2>6, <2>7, <3>1, ThreadsApart DEF Typed, Flow, CallPC
  <2> QED BY <2>9, <2>10 DEF Typed
<1>2. CASE \/ ReadyTest(w) \/ ReadyLock(w) \/ ReadyWait(w) \/ ReadyTimeout(w) \/ ReadyUnlock(w)
           \/ ReadySpurious(w) \/ Crash(w) \/ PoolCall(w) \/ PoolLendClosed(w)
  <2>1. PICK to \in {"lock", "tested", "get", "wait", "unlock", "inpool", "exec", "crash"} :
          pc[w] # "idle" /\ pc' = [pc EXCEPT ![w] = to]
    BY <1>2 DEF ReadyTest, ReadyLock, ReadyWait, ReadyTimeout, TestReady, ReadyUnlock,
       ReadySpurious, Crash, PoolCall, PoolLendClosed
  <2>2. /\ UNCHANGED <<open, lent, up, tables, rows, utime, ready, quit, freed, table, op,
                       stmt, stat, list>>
        /\ mutex' \in {mutex, w, NoOne}
    BY <1>2 DEF ReadyTest, ReadyLock, ReadyWait, ReadyTimeout, TestReady, ReadyUnlock,
       ReadySpurious, Crash, PoolCall, PoolLendClosed
  <2>3. to \in PC /\ to \in CallPC /\ to # "idle"
    BY DEF PC, CallPC, Running
  <2>4. /\ Pool!TypeOK' /\ quit' \in BOOLEAN /\ freed' \in BOOLEAN
        /\ mutex' \in Callers \cup {NoOne}
    BY <2>2, PoolTyped DEF Typed, TypeOK
  <2> QED BY <1>0, <2>1, <2>2, <2>3, <2>4, TypedMove
<1>3. CASE (\E c \in Conns : PoolLend(w, c)) \/ ReleaseAndRetry(w)
  <2>1. PICK to \in {"exec", "get"} : pc[w] # "idle" /\ pc' = [pc EXCEPT ![w] = to]
    BY <1>3 DEF PoolLend, ReleaseAndRetry
  <2>2. UNCHANGED <<up, tables, rows, utime, ready, quit, mutex, freed, table, op, stmt, stat,
                    list>>
    BY <1>3 DEF PoolLend, ReleaseAndRetry
  <2>3. to \in PC /\ to \in CallPC /\ to # "idle"
    BY DEF PC, CallPC, Running
  <2>4. /\ Pool!TypeOK' /\ quit' \in BOOLEAN /\ freed' \in BOOLEAN
        /\ mutex' \in Callers \cup {NoOne}
    BY <1>0, <1>3, <2>2, PoolTyped DEF PoolLend, ReleaseAndRetry, Typed, TypeOK
  <2> QED BY <1>0, <2>1, <2>2, <2>3, <2>4, TypedMove
<1>4. CASE PoolNull(w) \/ ReleaseAndReturn(w)
  <2>1. /\ pc[w] # "idle" /\ pc' = [pc EXCEPT ![w] = "idle"] /\ Return(w)
        /\ UNCHANGED <<up, tables, rows, utime, ready, quit, mutex, freed, table>>
    BY <1>4 DEF PoolNull, ReleaseAndReturn
  <2>2. Pool!TypeOK'
    BY <1>0, <1>4, PoolTyped DEF PoolNull, ReleaseAndReturn
  <2> QED BY <2>1, <2>2, TypedReturn
<1>5. CASE Statement(w)
  BY <1>0, <1>5, TypedStatement
<1> QED
  BY <1>1, <1>2, <1>3, <1>4, <1>5 DEF Inside

(* The maintenance thread, the caller of pgsql_inst_free and the server. *)
LEMMA TypedMaint ==
  ASSUME Typed, Maintenance \/ InstFree \/ ServerSwitch
  PROVE  Typed'
<1> USE DEF Goto, pool, db, flags, locals
<1>0. Maint \in Threads /\ pc \in [Threads -> PC]
  BY ThreadsApart DEF Typed, TypeOK
<1>1. CASE PoolCall(Maint) \/ Watch \/ ClosePool \/ Destroy
  <2>1. PICK to \in {"inpool", "close", "destroy", "done"} :
          pc' = [pc EXCEPT ![Maint] = to]
    BY <1>1 DEF PoolCall, Watch, ClosePool, Destroy
  <2>2. /\ UNCHANGED <<up, tables, rows, utime, ready, quit, mutex, table, op, stmt, stat, list>>
        /\ freed' = freed \/ freed' = TRUE
    BY <1>1 DEF PoolCall, Watch, ClosePool, Destroy
  <2>3. to \in PC /\ to \in MaintPC
    BY DEF PC, MaintPC
  <2>4. /\ Pool!TypeOK' /\ quit' \in BOOLEAN /\ freed' \in BOOLEAN
        /\ mutex' \in Callers \cup {NoOne}
    <3>1. UNCHANGED pool \/ Pool!Close
      BY <1>1 DEF PoolCall, Watch, ClosePool, Destroy
    <3> QED BY <2>2, <3>1, PoolTyped DEF Typed, TypeOK
  <2> QED BY <1>0, <2>1, <2>2, <2>3, <2>4, ThreadsApart, TypedMove
<1>2. CASE (\E c \in Conns : PoolLend(Maint, c)) \/ ReleaseAndRetry(Maint)
  <2>1. PICK to \in {"exec", "get"} : pc' = [pc EXCEPT ![Maint] = to]
    BY <1>2 DEF PoolLend, ReleaseAndRetry
  <2>2. UNCHANGED <<up, tables, rows, utime, ready, quit, mutex, freed, table, op, stmt, stat,
                    list>>
    BY <1>2 DEF PoolLend, ReleaseAndRetry
  <2>3. to \in PC /\ to \in MaintPC
    BY DEF PC, MaintPC, Running
  <2>4. /\ Pool!TypeOK' /\ quit' \in BOOLEAN /\ freed' \in BOOLEAN
        /\ mutex' \in Callers \cup {NoOne}
    BY <1>0, <1>2, <2>2, PoolTyped DEF PoolLend, ReleaseAndRetry, Typed, TypeOK
  <2> QED BY <1>0, <2>1, <2>2, <2>3, <2>4, ThreadsApart, TypedMove
<1>3. CASE Statement(Maint)
  BY <1>0, <1>3, TypedStatement
<1>4. CASE TableDone
  <2>1. Pool!TypeOK'
    BY <1>0, <1>4, PoolTyped DEF TableDone
  <2>2. PICK to \in {"close", "get", "setready"} : pc' = [pc EXCEPT ![Maint] = to]
    BY <1>4 DEF TableDone
  <2>3. pc' \in [Threads -> PC] /\ pc'[Maint] \in MaintPC
    BY <1>0, <2>2 DEF PC, MaintPC
  <2>4. /\ stmt' = stmt \/ stmt' = [stmt EXCEPT ![Maint] = "exists"]
        /\ table' \in Tables /\ quit' \in BOOLEAN
        /\ UNCHANGED <<up, tables, rows, utime, ready, mutex, freed, op, stat, list>>
    BY <1>4 DEF TableDone, Typed, TypeOK, Tables
  <2>5. /\ stmt' \in [Threads -> Statements] /\ stmt'[Maint] \in {"exists", "create"}
        /\ \A d \in Callers : stmt'[d] = stmt[d] /\ pc'[d] = pc[d]
    BY <1>0, <2>2, <2>4, ThreadsApart DEF Typed, TypeOK, Flow, Statements
  <2>6. TypeOK'
    BY <2>1, <2>3, <2>4, <2>5 DEF Typed, TypeOK
  <2>7. Flow'
    BY <2>3, <2>4, <2>5 DEF Typed, Flow
  <2> QED BY <2>6, <2>7 DEF Typed
<1>5. CASE SetReady
  <2>1. /\ pc' = [w \in Threads |-> IF w = Maint THEN "watch"
                                    ELSE IF pc[w] = "wait" THEN "lock" ELSE pc[w]]
        /\ ready' = TRUE
        /\ UNCHANGED <<open, lent, up, tables, rows, utime, quit, mutex, freed, table, op, stmt,
                       stat, list>>
    BY <1>5 DEF SetReady
  <2>2. Pool!TypeOK'
    BY <2>1, PoolTyped
  <2>3. pc' \in [Threads -> PC]
    BY <1>0, <2>1 DEF PC
  <2>4. TypeOK'
    BY <2>1, <2>2, <2>3 DEF Typed, TypeOK
  <2>5. Flow'
    BY <1>0, <2>1, ThreadsApart DEF Typed, Flow, CallPC, MaintPC
  <2> QED BY <2>4, <2>5 DEF Typed
<1>6. CASE InstFree \/ ServerSwitch
  <2>1. UNCHANGED <<open, lent, tables, rows, utime, ready, mutex, freed, table, pc, op, stmt,
                    stat, list>>
        /\ up' \in BOOLEAN /\ quit' \in BOOLEAN
    BY <1>6 DEF InstFree, ServerSwitch, Typed, TypeOK
  <2>2. Pool!TypeOK'
    BY <2>1, PoolTyped
  <2> QED BY <2>1, <2>2 DEF Typed, TypeOK, Flow
<1> QED
  BY <1>1, <1>2, <1>3, <1>4, <1>5, <1>6 DEF Maintenance

THEOREM StorageTyping == Spec => []Typed
<1>1. Typed /\ [Next]_vars => Typed'
  <2> SUFFICES ASSUME Typed, [Next]_vars PROVE Typed'
    OBVIOUS
  <2>1. CASE Next
    BY <2>1, TypedData, TypedMaint DEF Next
  <2>2. CASE UNCHANGED vars
    <3>1. Pool!TypeOK'
      BY <2>2, PoolTyped DEF vars, pool
    <3> QED BY <2>2, <3>1 DEF vars, Typed, TypeOK, Flow
  <2> QED BY <2>1, <2>2
<1> QED BY <1>1, TypedInit, PTL DEF Spec

(* Every variable of the storage plugin and its database stays in its type. *)
THEOREM StorageTypeCorrect == Spec => []TypeOK
<1>1. Typed => TypeOK
  BY DEF Typed
<1> QED BY <1>1, StorageTyping, PTL
-----------------------------------------------------------------------------
(* Readiness                                                               *)

(* me->lock is held by who has tested ready and not begun to wait, until    *)
(* the instance closes and pgsql_get_ready() unlocks it once too often.     *)
Guarded ==
  /\ \A w \in Callers : pc[w] = "unlock" => quit
  /\ ~quit => \A w \in Callers : pc[w] = "tested" => mutex = w
  /\ NoneMissesReady

(* Steps of one thread that have nothing to do with the wait. *)
LEMMA GuardedMove ==
  ASSUME Typed, Guarded, NEW w \in Threads, pc' \in [Threads -> PC],
         \A v \in Threads \ {w} : pc'[v] = pc[v],
         pc'[w] \notin {"unlock", "tested", "wait"}, quit => quit', UNCHANGED <<ready, mutex>>
  PROVE  Guarded'
<1>1. \A v \in Callers : pc'[v] \in {"unlock", "tested", "wait"} => pc'[v] = pc[v]
  BY ThreadsApart
<1> QED BY <1>1 DEF Guarded, NoneMissesReady

LEMMA GuardedWait ==
  ASSUME Typed, Guarded, NEW w \in Callers,
         \/ ReadyLock(w) \/ ReadyWait(w) \/ ReadyTimeout(w) \/ ReadyUnlock(w)
  PROVE  Guarded'
<1> USE DEF Goto, flags
<1>0. pc \in [Threads -> PC] /\ w \in Threads /\ Callers \subseteq Threads /\ NoOne \notin Callers
  BY ThreadsApart DEF Typed, TypeOK
<1>1. CASE TestReady(w, "lock") \/ TestReady(w, "wait")
  <2>1. /\ mutex = NoOne /\ UNCHANGED <<quit, ready>>
        /\ \/ pc' = [pc EXCEPT ![w] = "get"] /\ mutex' = mutex
           \/ ~ready /\ pc' = [pc EXCEPT ![w] = "tested"] /\ mutex' = w
    BY <1>1 DEF TestReady
  <2>2. ~quit => \A v \in Callers : pc[v] # "tested"
    BY <1>0, <2>1 DEF Guarded
  <2> QED BY <1>0, <2>1, <2>2 DEF Guarded, NoneMissesReady
<1>2. CASE ReadyWait(w)
  <2>1. /\ pc[w] = "tested" /\ pc' = [pc EXCEPT ![w] = "wait"] /\ UNCHANGED <<quit, ready>>
    BY <1>2 DEF ReadyWait
  <2>2. ~quit => /\ ~ready
                 /\ \A v \in Callers : pc[v] = "tested" => v = w
    BY <2>1 DEF Guarded, NoneMissesReady
  <2> QED BY <1>0, <2>1, <2>2 DEF Guarded, NoneMissesReady
<1>3. CASE ReadyTimeout(w) /\ quit
  BY <1>0, <1>3 DEF ReadyTimeout, Guarded, NoneMissesReady
<1>4. CASE ReadyUnlock(w)
  <2>1. quit /\ quit' /\ pc' = [pc EXCEPT ![w] = "get"]
    BY <1>4 DEF ReadyUnlock, Guarded
  <2> QED BY <1>0, <2>1 DEF Guarded, NoneMissesReady
<1> QED BY <1>1, <1>2, <1>3, <1>4 DEF ReadyLock, ReadyTimeout

LEMMA GuardedStep ==
  ASSUME Typed, Guarded, [Next]_vars
  PROVE  Guarded'
<1> USE DEF Goto, pool, db, flags, locals
<1>0. pc \in [Threads -> PC] /\ Maint \in Threads /\ Callers \subseteq Threads
  BY ThreadsApart DEF Typed, TypeOK
<1>1. ASSUME NEW w \in Threads, NEW to \in PC \ {"unlock", "tested", "wait"},
             pc' = [pc EXCEPT ![w] = to], quit => quit', UNCHANGED <<ready, mutex>>
      PROVE  Guarded'
  <2>1. pc' \in [Threads -> PC] /\ pc'[w] = to /\ \A v \in Threads \ {w} : pc'[v] = pc[v]
    BY <1>0, <1>1
  <2> QED BY <1>1, <2>1, GuardedMove
<1>2. ASSUME NEW w \in Threads, Statement(w) PROVE Guarded'
  <2>1. /\ pc' \in [Threads -> PC] /\ pc'[w] \in Running /\ UNCHANGED <<ready, quit, mutex>>
        /\ \A v \in Threads \ {w} : pc'[v] = pc[v]
    BY <1>2, Outcomes
  <2> QED BY <2>1, GuardedMove DEF Running
<1>3. ASSUME NEW w \in Callers,
             \/ ReadyLock(w) \/ ReadyWait(w) \/ ReadyTimeout(w) \/ ReadyUnlock(w)
      PROVE  Guarded'
  BY <1>3, GuardedWait
<1>4. ASSUME NEW w \in Callers,
             \/ \E o \in Abstract!Calls : Call(w, o)
             \/ ReadyTest(w) \/ ReadySpurious(w) \/ Crash(w) \/ PoolNull(w)
             \/ PoolLendClosed(w) \/ ReleaseAndReturn(w)
      PROVE  Guarded'
  <2>1. \E to \in PC \ {"unlock", "tested", "wait"} : pc' = [pc EXCEPT ![w] = to]
    BY <1>4 DEF Call, ReadyTest, ReadySpurious, Crash, PoolNull, PoolLendClosed,
       ReleaseAndReturn, PC
  <2>2. UNCHANGED <<quit, ready, mutex>>
    BY <1>4 DEF Call, ReadyTest, ReadySpurious, Crash, PoolNull, PoolLendClosed,
       ReleaseAndReturn
  <2> QED BY <1>0, <1>1, <2>1, <2>2
<1>5. ASSUME NEW w \in Threads,
             PoolCall(w) \/ (\E c \in Conns : PoolLend(w, c)) \/ ReleaseAndRetry(w)
      PROVE  Guarded'
  <2>1. \E to \in PC \ {"unlock", "tested", "wait"} : pc' = [pc EXCEPT ![w] = to]
    BY <1>5 DEF PoolCall, PoolLend, ReleaseAndRetry, PC
  <2>2. UNCHANGED <<quit, ready, mutex>>
    BY <1>5 DEF PoolCall, PoolLend, ReleaseAndRetry
  <2> QED BY <1>1, <2>1, <2>2
<1>6. CASE SetReady
  <2>1. /\ mutex = NoOne /\ UNCHANGED <<quit, mutex>>
        /\ pc' = [w \in Threads |-> IF w = Maint THEN "watch"
                                    ELSE IF pc[w] = "wait" THEN "lock" ELSE pc[w]]
    BY <1>6 DEF SetReady
  <2>2. ~quit => \A w \in Callers : pc[w] # "tested"
    BY <2>1, StorageAssumption DEF Guarded
  <2> QED BY <1>0, <2>1, <2>2, ThreadsApart DEF Guarded, NoneMissesReady
<1>7. CASE TableDone \/ Watch \/ ClosePool \/ Destroy
  <2>1. \E to \in PC \ {"unlock", "tested", "wait"} : pc' = [pc EXCEPT ![Maint] = to]
    BY <1>7 DEF TableDone, Watch, ClosePool, Destroy, PC
  <2>2. (quit => quit') /\ UNCHANGED <<ready, mutex>>
    BY <1>7 DEF TableDone, Watch, ClosePool, Destroy
  <2> QED BY <1>0, <1>1, <2>1, <2>2
<1>8. CASE InstFree \/ ServerSwitch
  BY <1>8 DEF InstFree, ServerSwitch, Guarded, NoneMissesReady
<1>9. CASE UNCHANGED vars
  BY <1>9 DEF vars, Guarded, NoneMissesReady
<1> QED
  BY <1>0, <1>2, <1>3, <1>4, <1>5, <1>6, <1>7, <1>8, <1>9 DEF Next, Inside, Maintenance

(* No broadcast is missed while the instance is not closing: me->ready is   *)
(* tested under the lock that pgsql_thread holds when it sets it, the lock  *)
(* is held from the test to the wait, and all who sleep then are woken.     *)
THEOREM BroadcastReachesAll == Spec => []NoneMissesReady
<1>1. Init => Guarded
  BY ThreadsApart DEF Init, Guarded, NoneMissesReady
<1>2. Typed /\ Guarded /\ [Next]_vars => Guarded'
  BY GuardedStep
<1>3. Guarded => NoneMissesReady
  BY DEF Guarded
<1> QED BY <1>1, <1>2, <1>3, StorageTyping, PTL DEF Spec

(* What pgsql_thread has established when it gets to an announcement, and   *)
(* who has heard of it.                                                     *)
TablesMade ==
  /\ table = "nv_dsts_data" => "nv_dsts" \in tables
  /\ pc[Maint] = "release" /\ stat[Maint] >= 0 => table \in tables
  /\ pc[Maint] = "setready" \/ ready => tables = Tables
  /\ \A w \in Callers :
       /\ pc[w] = "unlock" => quit
       /\ pc[w] \in {"get", "inpool"} \cup Running => ready \/ quit

(* Steps that leave the tables alone. *)
LEMMA TablesKept ==
  ASSUME Typed, TablesMade, NEW w \in Threads, NEW to,
         pc' = [pc EXCEPT ![w] = to], quit => quit', ready' = ready,
         UNCHANGED <<tables, table>>, stat'[Maint] = stat[Maint],
         w = Maint => to \notin {"release", "setready"},
         w \in Callers => /\ to # "unlock" \/ quit
                        /\ \/ to \notin {"get", "inpool"} \cup Running
                           \/ ready \/ quit
                           \/ pc[w] \in {"get", "inpool"} \cup Running
  PROVE  TablesMade'
<1>1. pc \in [Threads -> PC] /\ Maint \in Threads /\ Callers \subseteq Threads
  BY ThreadsApart DEF Typed, TypeOK
<1>2. \A v \in Threads \ {w} : pc'[v] = pc[v]
  BY <1>1
<1>3. pc'[w] = to
  BY <1>1
<1> QED BY <1>1, <1>2, <1>3, ThreadsApart DEF TablesMade, Threads

LEMMA TablesStatement ==
  ASSUME Typed, TablesMade, NEW w \in Threads, Statement(w)
  PROVE  TablesMade'
<1>1. /\ pc[w] = "exec" /\ pc'[w] \in Running
      /\ UNCHANGED <<ready, quit, table>>
      /\ Execute(w) \/ UNCHANGED db
      /\ \A v \in Threads \ {w} : pc'[v] = pc[v] /\ stat'[v] = stat[v]
  BY Outcomes
<1>2. tables \subseteq tables' /\ tables' \subseteq Tables /\ tables \subseteq Tables
  BY <1>1, DbTyped DEF Execute, db, Typed, TypeOK
<1>3. ASSUME w = Maint, pc'[w] = "release", stat'[w] >= 0 PROVE table \in tables'
  <2>1. stmt[w] \in {"exists", "create"} /\ w \in Threads /\ stat[w] \in Int
        /\ pc \in [Threads -> PC] /\ stat \in [Threads -> Int]
    BY <1>3 DEF Typed, TypeOK, Flow
  <2>2. ~ExecError(w)
    <3>1. SUFFICES ASSUME ExecError(w) PROVE FALSE
      OBVIOUS
    <3>2. stat' = [stat EXCEPT ![w] = -1]
      BY <2>1, <3>1 DEF ExecError
    <3>3. stat'[w] = -1
      BY <2>1, <3>2
    <3> QED BY <1>3, <3>3
  <2>3. ~ExecLost(w)
    BY <1>3, <1>1, <2>1 DEF ExecLost
  <2>4. CASE ExecOk(w)
    BY <1>1, <1>3, <2>1, <2>4 DEF ExecOk, MustCreate, Execute
  <2> QED BY <2>2, <2>3, <2>4 DEF Statement
<1>4. Maint \in Threads /\ Callers \subseteq Threads /\ Maint \notin Callers
  BY ThreadsApart
<1>5. pc'[Maint] = "setready" => pc[Maint] = "setready"
  BY <1>1, <1>4 DEF Running
<1>6. pc'[Maint] = "release" /\ stat'[Maint] >= 0 => table \in tables'
  BY <1>1, <1>2, <1>3, <1>4 DEF TablesMade
<1>7. ASSUME NEW v \in Callers
      PROVE  /\ pc'[v] = "unlock" => quit'
             /\ pc'[v] \in {"get", "inpool"} \cup Running => ready' \/ quit'
  BY <1>1, <1>4 DEF TablesMade, Running
<1>8. table' = "nv_dsts_data" => "nv_dsts" \in tables'
  BY <1>1, <1>2 DEF TablesMade
<1>9. pc'[Maint] = "setready" \/ ready' => tables' = Tables
  BY <1>1, <1>2, <1>5 DEF TablesMade
<1>10. pc'[Maint] = "release" /\ stat'[Maint] >= 0 => table' \in tables'
  BY <1>1, <1>6
<1> QED BY <1>7, <1>8, <1>9, <1>10 DEF TablesMade

LEMMA TablesData ==
  ASSUME Typed, TablesMade, NEW w \in Callers,
         \/ \E o \in Abstract!Calls : Call(w, o)
         \/ Inside(w) \/ ReadySpurious(w) \/ Crash(w)
  PROVE  TablesMade'
<1> USE DEF Goto, pool, db, flags, locals
<1>0. w \in Threads /\ w # Maint /\ Maint \in Threads /\ stat \in [Threads -> Int]
  BY ThreadsApart DEF Typed, TypeOK
<1>1. CASE \/ \E o \in Abstract!Calls : Call(w, o)
           \/ ReadyTest(w) \/ ReadyLock(w) \/ ReadyWait(w) \/ ReadyTimeout(w) \/ ReadyUnlock(w)
           \/ ReadySpurious(w) \/ Crash(w) \/ PoolCall(w) \/ PoolLendClosed(w)
           \/ (\E c \in Conns : PoolLend(w, c)) \/ ReleaseAndRetry(w)
           \/ PoolNull(w) \/ ReleaseAndReturn(w)
  <2>1. \E to \in PC :
          /\ pc' = [pc EXCEPT ![w] = to]
          /\ to # "unlock" \/ quit
          /\ \/ to \notin {"get", "inpool"} \cup Running
             \/ ready \/ quit
             \/ pc[w] \in {"get", "inpool"} \cup Running
    BY <1>1 DEF Call, ReadyTest, ReadyLock, ReadyWait, ReadyTimeout, TestReady, ReadyUnlock,
       ReadySpurious, Crash, PoolCall, PoolLend, PoolLendClosed, ReleaseAndRetry, PoolNull,
       ReleaseAndReturn, PC, Running, TablesMade
  <2>2. UNCHANGED <<tables, table, quit, ready>> /\ stat'[Maint] = stat[Maint]
    BY <1>0, <1>1 DEF Call, ReadyTest, ReadyLock, ReadyWait, ReadyTimeout, TestReady,
       ReadyUnlock, ReadySpurious, Crash, PoolCall, PoolLend, PoolLendClosed, ReleaseAndRetry,
       PoolNull, ReleaseAndReturn, Return
  <2> QED BY <1>0, <2>1, <2>2, TablesKept
<1>2. CASE Statement(w)
  BY <1>0, <1>2, TablesStatement
<1> QED
  BY <1>1, <1>2 DEF Inside

LEMMA TablesMaint ==
  ASSUME Typed, TablesMade, Maintenance \/ InstFree \/ ServerSwitch
  PROVE  TablesMade'
<1> USE DEF Goto, pool, db, flags, locals
<1>0. /\ Maint \in Threads /\ Maint \notin Callers /\ pc \in [Threads -> PC]
      /\ stat \in [Threads -> Int] /\ Callers \subseteq Threads
  BY ThreadsApart DEF Typed, TypeOK
<1>1. CASE \/ PoolCall(Maint) \/ (\E c \in Conns : PoolLend(Maint, c))
           \/ ReleaseAndRetry(Maint) \/ Watch \/ ClosePool \/ Destroy
  <2>1. \E to \in PC \ {"release", "setready"} : pc' = [pc EXCEPT ![Maint] = to]
    BY <1>1 DEF PoolCall, PoolLend, ReleaseAndRetry, Watch, ClosePool, Destroy, PC
  <2>2. UNCHANGED <<tables, table, stat, quit, ready>>
    BY <1>1 DEF PoolCall, PoolLend, ReleaseAndRetry, Watch, ClosePool, Destroy
  <2> QED BY <1>0, <2>1, <2>2, TablesKept
<1>2. CASE Statement(Maint)
  BY <1>0, <1>2, TablesStatement
<1>3. CASE TableDone
  <2>1. /\ pc[Maint] = "release"
        /\ \/ stat[Maint] < 0 /\ quit' /\ pc' = [pc EXCEPT ![Maint] = "close"] /\ table' = table
           \/ /\ ~(stat[Maint] < 0) /\ table = "nv_dsts" /\ table' = "nv_dsts_data"
              /\ pc' = [pc EXCEPT ![Maint] = "get"] /\ quit' = quit
           \/ /\ ~(stat[Maint] < 0) /\ table # "nv_dsts" /\ table' = table
              /\ pc' = [pc EXCEPT ![Maint] = "setready"] /\ quit' = quit
        /\ UNCHANGED <<tables, ready, stat>>
    BY <1>3 DEF TableDone
  <2>2. ~(stat[Maint] < 0) => table \in tables
    BY <1>0, <2>1 DEF TablesMade
  <2>3. \A d \in Callers : pc'[d] = pc[d]
    BY <1>0, <2>1
  <2>4. \/ pc'[Maint] \in {"close", "get"}
        \/ pc'[Maint] = "setready" /\ table # "nv_dsts"
    BY <1>0, <2>1
  <2>5. pc'[Maint] = "setready" => tables = Tables
    <3>1. ASSUME pc'[Maint] = "setready" PROVE tables = Tables
      <4>1. ~(stat[Maint] < 0) /\ table # "nv_dsts"
        BY <1>0, <2>1, <3>1
      <4>2. table = "nv_dsts_data" /\ tables \subseteq Tables
        BY <4>1 DEF Typed, TypeOK, Tables
      <4> QED BY <2>2, <4>1, <4>2 DEF TablesMade, Tables
    <3> QED BY <3>1
  <2>6. table' = "nv_dsts_data" => "nv_dsts" \in tables
    BY <2>1, <2>2 DEF TablesMade
  <2>7. quit => quit'
    BY <2>1
  <2> QED BY <2>1, <2>3, <2>4, <2>5, <2>6, <2>7 DEF TablesMade
<1>4. CASE SetReady
  <2>1. /\ pc[Maint] = "setready" /\ ready'
        /\ pc' = [w \in Threads |-> IF w = Maint THEN "watch"
                                    ELSE IF pc[w] = "wait" THEN "lock" ELSE pc[w]]
        /\ UNCHANGED <<tables, table, stat, quit>>
    BY <1>4 DEF SetReady
  <2> QED BY <1>0, <2>1 DEF TablesMade
<1>5. CASE InstFree \/ ServerSwitch
  BY <1>5 DEF InstFree, ServerSwitch, TablesMade
<1> QED
  BY <1>1, <1>2, <1>3, <1>4, <1>5 DEF Maintenance

(* No data statement reaches the server before both tables exist, unless    *)
(* the instance is closing.                                                 *)
THEOREM TablesBeforeData == Spec => []TablesFirst
<1>1. Init => TablesMade
  BY ThreadsApart DEF Init, TablesMade, Running
<1>2. Typed /\ TablesMade /\ [Next]_vars => TablesMade'
  <2> SUFFICES ASSUME Typed, TablesMade, [Next]_vars PROVE TablesMade'
    OBVIOUS
  <2>1. CASE Next
    BY <2>1, TablesData, TablesMaint DEF Next
  <2>2. CASE UNCHANGED vars
    BY <2>2 DEF vars, TablesMade
  <2> QED BY <2>1, <2>2
<1>3. TablesMade => TablesFirst
  BY DEF TablesMade, TablesFirst, Running
<1> QED BY <1>1, <1>2, <1>3, StorageTyping, PTL DEF Spec
-----------------------------------------------------------------------------
(* Connections                                                             *)

(* A thread has one connection while it is running, and none otherwise. *)
Holds(w) ==
  IF pc[w] \in Running THEN \E c \in Conns : \A d \in Conns : lent[d] = w <=> d = c
  ELSE \A d \in Conns : lent[d] # w

Holding == open => \A w \in Threads : Holds(w)

(* Steps that borrow and give back nothing. *)
LEMMA HoldingKept ==
  ASSUME Holding, open' => open, lent' = lent,
         \A w \in Threads : pc'[w] \in Running <=> pc[w] \in Running
  PROVE  Holding'
BY DEF Holding, Holds

LEMMA HoldingLend ==
  ASSUME Typed, Holding, NEW w \in Threads, NEW c \in Conns, PoolLend(w, c)
  PROVE  Holding'
<1>1. /\ open /\ lent[c] = NoOne /\ lent' = [lent EXCEPT ![c] = w]
      /\ pc[w] = "inpool" /\ pc' = [pc EXCEPT ![w] = "exec"]
  BY DEF PoolLend, Goto, Pool!Lend
<1>2. pc \in [Threads -> PC] /\ lent \in [Conns -> Threads \cup {NoOne}]
  BY DEF Typed, TypeOK, Pool!TypeOK, Pool!Borrowers
<1>3. Holds(w)'
  <2>1. \A d \in Conns : lent[d] # w
    BY <1>1 DEF Holding, Holds, Running
  <2>2. \A d \in Conns : lent'[d] = w <=> d = c
    BY <1>1, <1>2, <2>1
  <2>3. pc'[w] \in Running
    BY <1>1, <1>2 DEF Running
  <2> QED BY <2>2, <2>3 DEF Holds
<1>4. ASSUME NEW v \in Threads \ {w} PROVE Holds(v)'
  <2>1. \A d \in Conns : lent'[d] = v <=> lent[d] = v
    BY <1>1, <1>2, ThreadsApart
  <2>2. pc'[v] = pc[v]
    BY <1>1, <1>2
  <2>3. Holds(v)
    BY <1>1 DEF Holding
  <2> QED BY <2>1, <2>2, <2>3 DEF Holds
<1> QED BY <1>3, <1>4 DEF Holding

LEMMA HoldingRelease ==
  ASSUME Typed, Holding, NEW w \in Threads, PoolRelease(w),
         pc[w] \in Running, pc'[w] \notin Running,
         \A v \in Threads \ {w} : pc'[v] = pc[v]
  PROVE  Holding'
<1>1. CASE ~open
  BY <1>1 DEF PoolRelease, pool, Holding
<1>2. CASE open
  <2>1. PICK c \in Conns : lent[c] = w /\ lent' = [lent EXCEPT ![c] = NoOne]
    BY <1>2 DEF PoolRelease, Pool!GiveBack
  <2>2. lent \in [Conns -> Threads \cup {NoOne}]
    BY DEF Typed, TypeOK, Pool!TypeOK, Pool!Borrowers
  <2>3. Holds(w)'
    <3>1. \A d \in Conns : lent[d] = w <=> d = c
      BY <1>2, <2>1 DEF Holding, Holds
    <3>2. \A d \in Conns : lent'[d] # w
      BY <2>1, <2>2, <3>1, ThreadsApart
    <3> QED BY <3>2 DEF Holds
  <2>4. ASSUME NEW v \in Threads \ {w} PROVE Holds(v)'
    <3>1. \A d \in Conns : lent'[d] = v <=> lent[d] = v
      BY <2>1, <2>2, ThreadsApart
    <3>2. Holds(v)
      BY <1>2 DEF Holding
    <3> QED BY <3>1, <3>2 DEF Holds
  <2> QED BY <2>3, <2>4 DEF Holding
<1> QED BY <1>1, <1>2

LEMMA HoldingData ==
  ASSUME Typed, Holding, NEW w \in Callers,
         \/ \E o \in Abstract!Calls : Call(w, o)
         \/ Inside(w) \/ ReadySpurious(w) \/ Crash(w)
  PROVE  Holding'
<1> USE DEF Goto, pool, db, flags, locals
<1>0. w \in Threads /\ pc \in [Threads -> PC]
  BY ThreadsApart DEF Typed, TypeOK
<1>1. CASE \/ \E o \in Abstract!Calls : Call(w, o)
           \/ ReadyTest(w) \/ ReadyLock(w) \/ ReadyWait(w) \/ ReadyTimeout(w) \/ ReadyUnlock(w)
           \/ ReadySpurious(w) \/ Crash(w) \/ PoolCall(w)
  <2>1. /\ pc[w] \notin Running
        /\ \E to \in PC \ Running : pc' = [pc EXCEPT ![w] = to]
    BY <1>1 DEF Call, ReadyTest, ReadyLock, ReadyWait, ReadyTimeout, TestReady, ReadyUnlock,
       ReadySpurious, Crash,
       PoolCall, PC, Running
  <2>2. open' = open /\ lent' = lent
    BY <1>1 DEF Call, ReadyTest, ReadyLock, ReadyWait, ReadyTimeout, TestReady, ReadyUnlock,
       ReadySpurious, Crash,
       PoolCall
  <2>3. \A v \in Threads : pc'[v] \in Running <=> pc[v] \in Running
    BY <1>0, <2>1
  <2> QED BY <2>2, <2>3, HoldingKept
<1>2. CASE PoolNull(w) \/ PoolLendClosed(w)
  BY <1>2 DEF PoolNull, PoolLendClosed, Holding
<1>3. CASE \E c \in Conns : PoolLend(w, c)
  BY <1>0, <1>3, HoldingLend
<1>4. CASE ReleaseAndRetry(w) \/ ReleaseAndReturn(w)
  <2>1. /\ pc[w] \in Running /\ PoolRelease(w)
        /\ \E to \in {"get", "idle"} : pc' = [pc EXCEPT ![w] = to]
    BY <1>4 DEF ReleaseAndRetry, ReleaseAndReturn, Running
  <2>2. pc'[w] \notin Running /\ \A v \in Threads \ {w} : pc'[v] = pc[v]
    BY <1>0, <2>1 DEF Running
  <2> QED BY <1>0, <2>1, <2>2, HoldingRelease
<1>5. CASE Statement(w)
  <2>1. /\ pc[w] \in Running /\ pc'[w] \in Running /\ open' = open /\ lent' = lent
        /\ \A v \in Threads \ {w} : pc'[v] = pc[v]
    BY <1>0, <1>5, Outcomes DEF Running
  <2> QED BY <2>1, HoldingKept
<1> QED
  BY <1>1, <1>2, <1>3, <1>4, <1>5 DEF Inside

LEMMA HoldingMaint ==
  ASSUME Typed, Holding, Maintenance \/ InstFree \/ ServerSwitch
  PROVE  Holding'
<1> USE DEF Goto, pool, db, flags, locals
<1>0. Maint \in Threads /\ pc \in [Threads -> PC]
  BY ThreadsApart DEF Typed, TypeOK
<1>1. CASE PoolCall(Maint) \/ Watch \/ Destroy
  <2>1. /\ pc[Maint] \notin Running
        /\ \E to \in PC \ Running : pc' = [pc EXCEPT ![Maint] = to]
    BY <1>1 DEF PoolCall, Watch, Destroy, PC, Running
  <2>2. open' = open /\ lent' = lent
    BY <1>1 DEF PoolCall, Watch, Destroy
  <2>3. \A w \in Threads : pc'[w] \in Running <=> pc[w] \in Running
    BY <1>0, <2>1
  <2> QED BY <2>2, <2>3, HoldingKept
<1>2. CASE ClosePool
  BY <1>2 DEF ClosePool, Pool!Close, Holding
<1>3. CASE \E c \in Conns : PoolLend(Maint, c)
  BY <1>0, <1>3, HoldingLend
<1>4. CASE ReleaseAndRetry(Maint) \/ TableDone
  <2>1. /\ pc[Maint] \in Running /\ PoolRelease(Maint)
        /\ \E to \in {"get", "close", "setready"} : pc' = [pc EXCEPT ![Maint] = to]
    BY <1>4 DEF ReleaseAndRetry, TableDone, Running
  <2>2. pc'[Maint] \notin Running /\ \A v \in Threads \ {Maint} : pc'[v] = pc[v]
    BY <1>0, <2>1 DEF Running
  <2> QED BY <1>0, <2>1, <2>2, HoldingRelease
<1>5. CASE Statement(Maint)
  <2>1. /\ pc[Maint] \in Running /\ pc'[Maint] \in Running /\ open' = open /\ lent' = lent
        /\ \A v \in Threads \ {Maint} : pc'[v] = pc[v]
    BY <1>0, <1>5, Outcomes DEF Running
  <2> QED BY <2>1, HoldingKept
<1>6. CASE SetReady
  <2>1. /\ pc[Maint] = "setready" /\ open' = open /\ lent' = lent
        /\ pc' = [w \in Threads |-> IF w = Maint THEN "watch"
                                    ELSE IF pc[w] = "wait" THEN "lock" ELSE pc[w]]
    BY <1>6 DEF SetReady
  <2>2. \A w \in Threads : pc'[w] \in Running <=> pc[w] \in Running
    BY <2>1 DEF Running
  <2> QED BY <2>1, <2>2, HoldingKept
<1>7. CASE InstFree \/ ServerSwitch
  BY <1>7, HoldingKept DEF InstFree, ServerSwitch
<1> QED
  BY <1>1, <1>2, <1>3, <1>4, <1>5, <1>6, <1>7 DEF Maintenance

(* While the pool is open a thread has exactly one connection while it runs *)
(* a statement and none at any other time: none is leaked on any path out   *)
(* of the operations, retries and errors included.                          *)
THEOREM OneConnectionPerCall == Spec => []ConnectionWhileRunning
<1>1. Init => Holding
  <2> SUFFICES ASSUME Init, NEW w \in Threads PROVE Holds(w)
    BY DEF Holding
  <2>1. pc[w] \notin Running
    BY DEF Init, Running
  <2>2. \A c \in Conns : lent[c] # w
    BY ThreadsApart DEF Init, Pool!Init
  <2> QED BY <2>1, <2>2 DEF Holds
<1>2. Typed /\ Holding /\ [Next]_vars => Holding'
  <2> SUFFICES ASSUME Typed, Holding, [Next]_vars PROVE Holding'
    OBVIOUS
  <2>1. CASE Next
    BY <2>1, HoldingData, HoldingMaint DEF Next
  <2>2. CASE UNCHANGED vars
    BY <2>2, HoldingKept DEF vars
  <2> QED BY <2>1, <2>2
<1>3. Holding => ConnectionWhileRunning
  <2> SUFFICES ASSUME Holding, open, NEW w \in Threads
               PROVE  Cardinality({c \in Conns : lent[c] = w}) =
                        IF pc[w] \in Running THEN 1 ELSE 0
    BY DEF ConnectionWhileRunning, Running
  <2>1. Holds(w)
    BY DEF Holding
  <2>2. CASE pc[w] \in Running
    <3>1. PICK c \in Conns : \A d \in Conns : lent[d] = w <=> d = c
      BY <2>1, <2>2 DEF Holds
    <3>2. {d \in Conns : lent[d] = w} = {c}
      BY <3>1
    <3> QED BY <2>2, <3>2, FS_Singleton
  <2>3. CASE pc[w] \notin Running
    <3>1. {d \in Conns : lent[d] = w} = {}
      BY <2>1, <2>3 DEF Holds
    <3> QED BY <2>3, <3>1, FS_EmptySet
  <2> QED BY <2>2, <2>3
<1> QED BY <1>1, <1>2, <1>3, StorageTyping, PTL DEF Spec
=============================================================================
