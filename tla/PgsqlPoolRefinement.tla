------------------------ MODULE PgsqlPoolRefinement ------------------------
(***************************************************************************)
(* The pool of PgsqlPool does what ConnPool promises, for any set of       *)
(* workers and any N.  A connection is lent when pgsql_pool_get appends it *)
(* to the in-use list (GetInUse) and given back when pgsql_pool_release    *)
(* unlinks it (ReleaseRemove); pgsql_pool_free closes the pool; the other  *)
(* steps of an open pool change nothing that its callers can see.          *)
(***************************************************************************)
EXTENDS PgsqlPoolProofs

-----------------------------------------------------------------------------
(* The refinement mapping, as a function of the two variables it reads. *)
Borrows(pc, h, w, c) == pc[w] \in {"use", "rel"} /\ h[w] = c

LentBy(pc, h) ==
  [c \in Conns |-> IF \E w \in Workers : Borrows(pc, h, w, c)
                   THEN CHOOSE w \in Workers : Borrows(pc, h, w, c)
                   ELSE NULL]

LEMMA Mapping == lentTo = LentBy(wpc, held) /\ lentTo' = LentBy(wpc', held')
BY DEF lentTo, LentBy, Borrows

(* It says of each connection who has it, or that nobody has. *)
LEMMA Borrower ==
  ASSUME NEW pc, NEW h
  PROVE  /\ LentBy(pc, h) \in [Conns -> Workers \cup {NULL}]
         /\ \A c \in Conns :
              IF \E w \in Workers : Borrows(pc, h, w, c)
              THEN LentBy(pc, h)[c] \in Workers /\ Borrows(pc, h, LentBy(pc, h)[c], c)
              ELSE LentBy(pc, h)[c] = NULL
<1>1. ASSUME NEW c \in Conns, \E w \in Workers : Borrows(pc, h, w, c)
      PROVE  LentBy(pc, h)[c] \in Workers /\ Borrows(pc, h, LentBy(pc, h)[c], c)
  <2>1. LentBy(pc, h)[c] = CHOOSE w \in Workers : Borrows(pc, h, w, c)
    BY <1>1 DEF LentBy
  <2> QED BY <1>1, <2>1
<1>2. ASSUME NEW c \in Conns, ~ \E w \in Workers : Borrows(pc, h, w, c)
      PROVE  LentBy(pc, h)[c] = NULL
  BY <1>2 DEF LentBy
<1>3. \A c \in Conns : LentBy(pc, h)[c] \in Workers \cup {NULL}
  BY <1>1, <1>2
<1>4. LentBy(pc, h) = [c \in Conns |-> LentBy(pc, h)[c]]
  BY DEF LentBy
<1>5. LentBy(pc, h) \in [Conns -> Workers \cup {NULL}]
  BY <1>3, <1>4
<1> QED BY <1>1, <1>2, <1>5

(* While the pool serves, nobody borrows what another one borrows. *)
LEMMA OneBorrower ==
  ASSUME Typed, Serving
  PROVE  /\ \A w \in Workers : Lent(w) => held[w] \in Conns
         /\ \A w, v \in Workers, c \in Conns :
              Borrows(wpc, held, w, c) /\ Borrows(wpc, held, v, c) => v = w
BY DEF Typed, Hands, Serving, OwnersApart, Owns, Lent, Borrows

(* Steps that neither lend a connection nor take one back. *)
LEMMA NoLending ==
  ASSUME Typed, Serving,
         \A w \in Workers : /\ Lent(w)' <=> Lent(w)
                            /\ Lent(w) => held'[w] = held[w]
  PROVE  lentTo' = lentTo
<1>1. \A w \in Workers, c \in Conns :
        Borrows(wpc', held', w, c) <=> Borrows(wpc, held, w, c)
  BY DEF Borrows, Lent
<1>2. ASSUME NEW c \in Conns PROVE LentBy(wpc', held')[c] = LentBy(wpc, held)[c]
  <2>1. CASE \E w \in Workers : Borrows(wpc, held, w, c)
    <3>1. /\ LentBy(wpc, held)[c] \in Workers
          /\ Borrows(wpc, held, LentBy(wpc, held)[c], c)
      BY <2>1, Borrower
    <3>2. \E w \in Workers : Borrows(wpc', held', w, c)
      BY <1>1, <2>1
    <3>3. /\ LentBy(wpc', held')[c] \in Workers
          /\ Borrows(wpc', held', LentBy(wpc', held')[c], c)
      BY <3>2, Borrower
    <3>4. Borrows(wpc, held, LentBy(wpc', held')[c], c)
      BY <1>1, <3>3
    <3> QED BY <3>1, <3>3, <3>4, OneBorrower
  <2>2. CASE ~ \E w \in Workers : Borrows(wpc, held, w, c)
    <3>1. ~ \E w \in Workers : Borrows(wpc', held', w, c)
      BY <1>1, <2>2
    <3> QED BY <2>2, <3>1, Borrower
  <2> QED BY <2>1, <2>2
<1>3. /\ LentBy(wpc', held') \in [Conns -> Workers \cup {NULL}]
      /\ LentBy(wpc, held) \in [Conns -> Workers \cup {NULL}]
  BY Borrower
<1> QED BY <1>2, <1>3, Mapping
-----------------------------------------------------------------------------
(* pgsql_pool_get puts the connection on the in-use list: nobody had it and *)
(* the worker had none.                                                     *)
LEMMA GetLends ==
  ASSUME Typed, Serving, ~quit, NEW w \in Workers, GetInUse(w)
  PROVE  Abstract!Lend(w, held[w]) /\ held[w] \in Conns
<1> DEFINE c == held[w]
           now == LentBy(wpc, held)
           next == LentBy(wpc', held')
<1>1. /\ wpc \in [Workers -> WorkerPC] /\ wpc[w] = "taken"
      /\ wpc' = [wpc EXCEPT ![w] = "use"] /\ held' = held /\ quit' = quit
  BY DEF GetInUse, Goto, Typed, TypeOK
<1>2. c \in Conns /\ Owns(w)
  BY <1>1 DEF Typed, Hands, Owns
<1>3. \A v \in Workers : ~Borrows(wpc, held, v, c)
  BY <1>1, <1>2 DEF Serving, OwnersApart, Owns, Borrows
<1>4. now[c] = NULL
  BY <1>2, <1>3, Borrower
<1>5. \A d \in Conns : now[d] # w
  <2>1. \A d \in Conns : ~Borrows(wpc, held, w, d)
    BY <1>1 DEF Borrows
  <2> QED BY <2>1, Borrower, WorkersAssumption
<1>6. \A v \in Workers, d \in Conns :
        Borrows(wpc', held', v, d) <=> \/ Borrows(wpc, held, v, d)
                                       \/ v = w /\ d = c
  BY <1>1 DEF Borrows
<1>7. next[c] = w
  <2>1. Borrows(wpc', held', w, c)
    BY <1>2, <1>6
  <2>2. next[c] \in Workers /\ Borrows(wpc', held', next[c], c)
    BY <1>2, <2>1, Borrower
  <2> HIDE DEF next
  <2> QED BY <1>2, <1>3, <1>6, <2>2
<1>8. ASSUME NEW d \in Conns, d # c PROVE next[d] = now[d]
  <2>1. CASE \E v \in Workers : Borrows(wpc, held, v, d)
    <3>1. \E v \in Workers : Borrows(wpc', held', v, d)
      BY <1>6, <2>1
    <3>2. /\ now[d] \in Workers /\ Borrows(wpc, held, now[d], d)
          /\ next[d] \in Workers /\ Borrows(wpc', held', next[d], d)
      BY <2>1, <3>1, Borrower
    <3> HIDE DEF next, now, c
    <3> QED BY <1>6, <1>8, <3>2, OneBorrower
  <2>2. CASE ~ \E v \in Workers : Borrows(wpc, held, v, d)
    <3>1. ~ \E v \in Workers : Borrows(wpc', held', v, d)
      BY <1>6, <1>8, <2>2
    <3> QED BY <2>2, <3>1, Borrower
  <2> QED BY <2>1, <2>2
<1>9. next = [now EXCEPT ![c] = w]
  <2>1. /\ next \in [Conns -> Workers \cup {NULL}]
        /\ now \in [Conns -> Workers \cup {NULL}]
    BY Borrower
  <2> HIDE DEF next, now, c
  <2> QED BY <1>2, <1>7, <1>8, <2>1
<1> HIDE DEF next, now
<1>10. lentTo = now /\ lentTo' = next
  BY Mapping DEF now, next
<1> QED BY <1>1, <1>2, <1>4, <1>5, <1>9, <1>10 DEF Abstract!Lend

(* pgsql_pool_release unlinks it: the worker was the one that had it. *)
LEMMA ReleaseGivesBack ==
  ASSUME Typed, Serving, ~quit, NEW w \in Workers, ReleaseRemove(w)
  PROVE  Abstract!GiveBack(w, held[w]) /\ held[w] \in Conns
<1> DEFINE c == held[w]
           now == LentBy(wpc, held)
           next == LentBy(wpc', held')
<1>1. /\ wpc \in [Workers -> WorkerPC] /\ wpc[w] = "rel"
      /\ wpc' = [wpc EXCEPT ![w] = "removed"] /\ held' = held /\ quit' = quit
  BY DEF ReleaseRemove, Goto, Typed, TypeOK
<1>2. c \in Conns /\ Borrows(wpc, held, w, c)
  BY <1>1, OneBorrower DEF Lent, Borrows
<1>3. now[c] = w
  <2>1. now[c] \in Workers /\ Borrows(wpc, held, now[c], c)
    BY <1>2, Borrower
  <2> HIDE DEF now, c
  <2> QED BY <1>2, <2>1, OneBorrower
<1>4. \A v \in Workers, d \in Conns :
        Borrows(wpc', held', v, d) <=> Borrows(wpc, held, v, d) /\ v # w
  BY <1>1 DEF Borrows
<1>5. next[c] = NULL
  <2>1. ~ \E v \in Workers : Borrows(wpc', held', v, c)
    BY <1>2, <1>4, OneBorrower
  <2> QED BY <1>2, <2>1, Borrower
<1>6. ASSUME NEW d \in Conns, d # c PROVE next[d] = now[d]
  <2>0. \A v \in Workers : Borrows(wpc', held', v, d) <=> Borrows(wpc, held, v, d)
    BY <1>4, <1>6 DEF Borrows
  <2>1. CASE \E v \in Workers : Borrows(wpc, held, v, d)
    <3>1. \E v \in Workers : Borrows(wpc', held', v, d)
      BY <2>0, <2>1
    <3>2. /\ now[d] \in Workers /\ Borrows(wpc, held, now[d], d)
          /\ next[d] \in Workers /\ Borrows(wpc', held', next[d], d)
      BY <2>1, <3>1, Borrower
    <3> HIDE DEF next, now, c
    <3> QED BY <2>0, <3>2, OneBorrower
  <2>2. CASE ~ \E v \in Workers : Borrows(wpc, held, v, d)
    <3>1. ~ \E v \in Workers : Borrows(wpc', held', v, d)
      BY <2>0, <2>2
    <3> QED BY <2>2, <3>1, Borrower
  <2> QED BY <2>1, <2>2
<1>7. next = [now EXCEPT ![c] = NULL]
  <2>1. /\ next \in [Conns -> Workers \cup {NULL}]
        /\ now \in [Conns -> Workers \cup {NULL}]
    BY Borrower
  <2> HIDE DEF next, now, c
  <2> QED BY <1>2, <1>5, <1>6, <2>1
<1> HIDE DEF next, now
<1>8. lentTo = now /\ lentTo' = next
  BY Mapping DEF now, next
<1> QED BY <1>1, <1>2, <1>3, <1>7, <1>8 DEF Abstract!GiveBack
-----------------------------------------------------------------------------
(* Any other step of an open pool. *)
LEMMA WorkerSilent ==
  ASSUME Typed, Serving, ~quit, NEW w \in Workers,
         \/ GetEnter(w) \/ GetWait(w) \/ GetTake(w) \/ GetMarkBad(w) \/ GetTimeout(w)
         \/ GetSpurious(w) \/ ReleaseEnter(w) \/ ReleaseBad(w) \/ ReleaseFree(w) \/ Crash(w)
  PROVE  lentTo' = lentTo
<1>0. /\ wpc \in [Workers -> WorkerPC] /\ held \in [Workers -> Conns \cup {NULL}]
  BY DEF Typed, TypeOK
<1>1. CASE ReleaseFree(w)
  <2> DEFINE pc == [wpc EXCEPT ![w] = "idle"]
  <2>1. /\ wpc[w] = "removed" /\ wpc' \in SignalFree(pc)
        /\ held' = [held EXCEPT ![w] = NULL]
    BY <1>1 DEF ReleaseFree
  <2>2. \A v \in Workers : \/ wpc'[v] = pc[v]
                           \/ pc[v] = "wait" /\ wpc'[v] = "lock"
    BY <1>0, <2>1, Waking DEF WorkerPC
  <2>3. \A v \in Workers : (Lent(v)' <=> Lent(v)) /\ (Lent(v) => held'[v] = held[v])
    BY <1>0, <2>1, <2>2 DEF Lent
  <2> QED BY <2>3, NoLending
<1>2. CASE \/ GetEnter(w) \/ GetWait(w) \/ GetTake(w) \/ GetMarkBad(w) \/ GetTimeout(w)
           \/ GetSpurious(w) \/ ReleaseBad(w)
  <2>1. \E to \in WorkerPC \ {"use", "rel"} :
           wpc[w] \notin {"use", "rel"} /\ wpc' = [wpc EXCEPT ![w] = to]
    BY <1>2 DEF GetEnter, GetWait, GetTake, GetMarkBad, GetTimeout, GetSpurious,
       ReleaseBad, Goto, WorkerPC
  <2>2. \A v \in Workers : v = w \/ held'[v] = held[v]
    BY <1>0, <1>2 DEF GetEnter, GetWait, GetTake, GetMarkBad, GetTimeout, GetSpurious,
       ReleaseBad
  <2>3. \A v \in Workers : (Lent(v)' <=> Lent(v)) /\ (Lent(v) => held'[v] = held[v])
    BY <1>0, <2>1, <2>2 DEF Lent
  <2> QED BY <2>3, NoLending
<1>3. CASE ReleaseEnter(w)
  <2>1. wpc[w] = "use" /\ wpc' = [wpc EXCEPT ![w] = "rel"] /\ held' = held
    BY <1>3 DEF ReleaseEnter, Goto
  <2>2. \A v \in Workers : (Lent(v)' <=> Lent(v)) /\ (Lent(v) => held'[v] = held[v])
    BY <1>0, <2>1 DEF Lent
  <2> QED BY <2>2, NoLending
<1>4. CASE Crash(w)
  <2>1. destroyed /\ ppc \in ServicePC /\ (destroyed => ppc = "done")
    BY <1>4 DEF Crash, Typed, Ended, Serving
  <2> QED BY <2>1 DEF ServicePC
<1> QED BY <1>1, <1>2, <1>3, <1>4

LEMMA OthersSilent ==
  ASSUME Typed, Serving,
         \/ Repair \/ RepairTimeout \/ RepairSpurious \/ Cleanup \/ RequestQuit
         \/ ServerSwitch \/ \E c \in Conns : ConnectionFails(c)
  PROVE  lentTo' = lentTo
<1> USE DEF lists, counters
<1>0. wpc \in [Workers -> WorkerPC]
  BY DEF Typed, TypeOK
<1>1. CASE RepairPut
  <2>1. wpc' \in SignalFree(wpc) /\ held' = held
    BY <1>1 DEF RepairPut
  <2>2. \A v \in Workers : Lent(v)' <=> Lent(v)
    BY <1>0, <2>1, Waking DEF Lent
  <2> QED BY <2>1, <2>2, NoLending
<1>2. CASE \/ PoolFill \/ RepairWait \/ RepairTake \/ RepairTry \/ RepairResult
           \/ RepairTimeout \/ RepairSpurious \/ Cleanup \/ RequestQuit
           \/ ServerSwitch \/ \E c \in Conns : ConnectionFails(c)
  <2>1. wpc' = wpc /\ held' = held
    BY <1>2 DEF PoolFill, RepairWait, RepairTake, RepairTry, RepairResult, RepairTimeout,
       RepairSpurious, Cleanup, CloseFree, CloseInUse, CloseBad, DestroyLocks, RequestQuit,
       ServerSwitch, ConnectionFails
  <2> QED BY <2>1, Mapping
<1> QED
  BY <1>1, <1>2 DEF Repair

(* While a pool is open every step of it is a step of ConnPool. *)
LEMMA OpenStep ==
  ASSUME Typed, Serving, ~quit, ~quit', Next
  PROVE  [Abstract!Next]_(Abstract!vars)
<1>1. ASSUME NEW w \in Workers, GetInUse(w) PROVE Abstract!Next
  BY <1>1, GetLends DEF Abstract!Next
<1>2. ASSUME NEW w \in Workers, ReleaseRemove(w) PROVE Abstract!Next
  BY <1>2, ReleaseGivesBack DEF Abstract!Next
<1>3. ASSUME NEW w \in Workers,
             \/ GetEnter(w) \/ GetWait(w) \/ GetTake(w) \/ GetMarkBad(w) \/ GetTimeout(w)
             \/ GetSpurious(w) \/ ReleaseEnter(w) \/ ReleaseBad(w) \/ ReleaseFree(w)
             \/ Crash(w)
      PROVE  lentTo' = lentTo
  BY <1>3, WorkerSilent
<1>4. CASE \/ Repair \/ RepairTimeout \/ RepairSpurious \/ Cleanup
           \/ ServerSwitch \/ \E c \in Conns : ConnectionFails(c)
  <2>1. lentTo' = lentTo
    BY <1>4, OthersSilent
  <2> QED BY <2>1 DEF Abstract!vars
<1>5. lentTo' = lentTo => UNCHANGED Abstract!vars
  BY DEF Abstract!vars
<1> QED
  BY <1>1, <1>2, <1>3, <1>4, <1>5, QuitSteps DEF Get, Release

(* The pool implements ConnPool: a connection is lent only when nobody has  *)
(* it and to a thread that has none, only its borrower gives it back, and   *)
(* a closed pool never opens again.                                         *)
THEOREM PoolImplementsConnPool == Spec => ImplementsConnPool
<1>1. Init => Abstract!Init
  <2> SUFFICES ASSUME Init PROVE Abstract!Init
    OBVIOUS
  <2>1. \A c \in Conns, w \in Workers : ~Borrows(wpc, held, w, c)
    BY DEF Init, Borrows
  <2>2. \A c \in Conns : LentBy(wpc, held)[c] = NULL
    BY <2>1, Borrower
  <2>3. LentBy(wpc, held) = [c \in Conns |-> NULL]
    BY <2>2, Borrower
  <2>4. lentTo = [c \in Conns |-> NULL] /\ ~quit = TRUE
    BY <2>3, Mapping DEF Init
  <2> QED BY <2>4 DEF Abstract!Init
<1>2. Typed /\ Places /\ [Next]_vars => [Abstract!Next]_(Abstract!vars)
  <2> SUFFICES ASSUME Typed, Places, [Next]_vars
               PROVE  [Abstract!Next]_(Abstract!vars)
    OBVIOUS
  <2>1. CASE UNCHANGED vars
    <3>1. wpc' = wpc /\ held' = held /\ quit' = quit
      BY <2>1 DEF vars
    <3> QED BY <3>1, Mapping DEF Abstract!vars
  <2>2. CASE Next /\ ~quit /\ ~quit'
    BY <2>2, OpenStep DEF Places
  <2>3. CASE Next /\ ~quit /\ quit'
    <3>1. RequestQuit
      <4>1. CASE ServiceNext
        BY <2>3, <4>1 DEF ServiceNext, GetEnter, Get, GetWait, GetTake, GetMarkBad, GetInUse,
           GetTimeout, GetSpurious, Release, ReleaseEnter, ReleaseRemove, ReleaseBad,
           ReleaseFree, Repair, PoolFill, RepairWait, RepairTake, RepairTry, RepairResult,
           RepairPut, RepairTimeout, RepairSpurious, ServerSwitch, ConnectionFails
      <4>2. CASE Cleanup \/ \E w \in Workers : Crash(w)
        BY <2>3, <4>2 DEF Cleanup, CloseFree, CloseInUse, CloseBad, DestroyLocks, Crash
      <4> QED BY <2>3, <4>1, <4>2 DEF Next
    <3>2. lentTo' = lentTo
      BY <2>3, <3>1, OthersSilent DEF Places
    <3>3. Abstract!Close
      BY <2>3, <3>2 DEF Abstract!Close, RequestQuit
    <3> QED BY <3>3 DEF Abstract!Next
  <2>4. CASE Next /\ quit
    <3>1. quit'
      BY <2>4, QuitSteps
    <3>2. lentTo' \in [Conns -> Workers \cup {NULL}]
      BY Mapping, Borrower
    <3>3. (~quit)' = ~quit
      BY <2>4, <3>1 DEF Typed, TypeOK
    <3>4. Abstract!AfterClose
      BY <2>4, <3>2, <3>3 DEF Abstract!AfterClose, Abstract!Borrowers
    <3> QED BY <3>4 DEF Abstract!Next
  <2> QED BY <2>1, <2>2, <2>3, <2>4
<1> QED
  BY <1>1, <1>2, Typing, OnePlace, PTL DEF Spec, ImplementsConnPool, Abstract!Spec
=============================================================================
