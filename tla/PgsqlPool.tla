------------------------------ MODULE PgsqlPool ------------------------------
(***************************************************************************)
(* The connection pool of the PostgreSQL storage plugin                    *)
(* (src/plugins/storage/pgsql_pool.c).                                     *)
(*                                                                         *)
(* Threads.  Any number of worker threads call pgsql_pool_get() and        *)
(* pgsql_pool_release(); one repair thread (pgsql_pool_thread) connects    *)
(* and reconnects; pgsql_pool_free() asks for the shutdown.                *)
(*                                                                         *)
(* Atomicity.  The three lists have a mutex each and the code never holds  *)
(* two of them, so one critical section is one step.  What the code does   *)
(* between two critical sections is where the threads interleave: a        *)
(* connection then sits in a local variable and in no list, and the flag   *)
(* pool.quit, which no mutex protects, may change.                         *)
(*                                                                         *)
(* Data.  `bad' and `free' are consumed from the front, so they are        *)
(* sequences; the order of `inuse' is never looked at, so it is a set.     *)
(* A connection is its id; its list node (c->node) is identified with it.  *)
(***************************************************************************)
EXTENDS Integers, Sequences, FiniteSets, Functions

CONSTANTS
  Workers,   \* the threads that use the pool
  N          \* pool.num, the number of connections

ASSUME PoolAssumption == N \in Nat \ {0}

Conns == 0 .. N - 1
NULL  == -1

(* A thread is not the null pointer. *)
ASSUME WorkersAssumption == NULL \notin Workers

VARIABLES
  bad, free, inuse,            \* the three lists of connections
  badNum, freeNum, inuseNum,   \* bad_num, free_num, inuse_num
  status,                      \* status[c]: what c->conn is
  held,                        \* held[w]: the variable c of pgsql_pool_get and its caller
  wpc,                         \* where each worker is
  repair,                      \* the variable c of pgsql_pool_thread
  ppc,                         \* where the repair thread is
  quit,                        \* pool.quit
  destroyed,                   \* the mutexes, conditions and lists are freed
  up                           \* the database server accepts connections

lists    == <<bad, free, inuse>>
counters == <<badNum, freeNum, inuseNum>>
vars == <<bad, free, inuse, badNum, freeNum, inuseNum, status, held, wpc,
          repair, ppc, quit, destroyed, up>>

(* c->conn: no PGconn yet, PQstatus() OK or BAD, or given to PQfinish(). *)
Statuses == {"null", "ok", "bad", "finished"}

WorkerPC == {"idle",     \* outside the pool
             "lock",     \* about to take free_lock and test free_num
             "wait",     \* in pthread_cond_timedwait(free_avail)
             "taken",    \* c unlinked from free, not yet in another list
             "use",      \* pgsql_pool_get has returned c; running a query
             "rel",      \* in pgsql_pool_release, past the test of quit
             "removed",  \* c unlinked from inuse, not yet in another list
             "crash"}    \* used a mutex that no longer exists

RepairPC == {"start",       \* thread created, pool not filled
             "scan",        \* about to take bad_lock and test bad_num
             "wait",        \* in pthread_cond_timedwait(bad_avail)
             "got",         \* at `retry', c unlinked from bad
             "connecting",  \* in PQconnectdb() or PQreset()
             "repaired",    \* c is good and in no list
             "closefree", "closeinuse", "closebad", "destroy",  \* cleanup
             "done"}

(* PQstatus(): CONNECTION_BAD for a NULL pointer too; for a connection that *)
(* was given to PQfinish() the answer is what freed memory holds.           *)
MayBeBad(c)  == status[c] \in {"null", "bad", "finished"}
MayBeGood(c) == status[c] \in {"ok", "finished"}

Waiting(pc) == {w \in Workers : pc[w] = "wait"}

(* nv_signal(free_avail): one of the waiting workers, if any, goes back to  *)
(* the test of free_num.                                                    *)
SignalFreeMissing(pc) == {pc}
SignalFree(pc) ==
  IF Waiting(pc) = {} THEN {pc}
  ELSE {[pc EXCEPT ![w] = "lock"] : w \in Waiting(pc)}

(* nv_signal(bad_avail): only the repair thread ever waits on it. *)
SignalBadMissing == ppc' = ppc
SignalBad == ppc' = IF ppc = "wait" THEN "scan" ELSE ppc

Goto(w, from, to) ==
  /\ wpc[w] = from
  /\ wpc' = [wpc EXCEPT ![w] = to]

(* The critical sections: list_append() or list_del(), and the counter. *)
AppendBadForgets(c) == UNCHANGED bad /\ badNum' = badNum + 1
AppendBad(c) == bad' = Append(bad, c) /\ badNum' = badNum + 1

AppendFreeUncounted(c) == free' = Append(free, c) /\ UNCHANGED freeNum
AppendFree(c) == free' = Append(free, c) /\ freeNum' = freeNum + 1

AppendInuse(c) == inuse' = inuse \cup {c} /\ inuseNum' = inuseNum + 1

UnlinkBad == bad' = Tail(bad) /\ badNum' = badNum - 1

UnlinkFreeKeeps == UNCHANGED free /\ freeNum' = freeNum - 1
UnlinkFree == free' = Tail(free) /\ freeNum' = freeNum - 1

UnlinkInuseKeeps(c) == UNCHANGED inuse /\ inuseNum' = inuseNum - 1
UnlinkInuse(c) == inuse' = inuse \ {c} /\ inuseNum' = inuseNum - 1

Init ==
  /\ bad = <<>> /\ free = <<>> /\ inuse = {}
  /\ badNum = 0 /\ freeNum = 0 /\ inuseNum = 0
  /\ status = [c \in Conns |-> "null"]
  /\ held = [w \in Workers |-> NULL]
  /\ wpc = [w \in Workers |-> "idle"]
  /\ repair = NULL
  /\ ppc = "start"
  /\ quit = FALSE
  /\ destroyed = FALSE
  /\ up \in BOOLEAN
-----------------------------------------------------------------------------
(* pgsql_pool_get()                                                        *)

(* The call: if the pool is shutting down the result is NULL and nothing   *)
(* changes; otherwise the worker goes on to take a connection.             *)
GetEnter(w) ==
  /\ ~quit
  /\ Goto(w, "idle", "lock")
  /\ held' = [held EXCEPT ![w] = NULL]
  /\ UNCHANGED <<lists, counters, status, repair, ppc, quit, destroyed, up>>

(* Under free_lock: no free connection, wait on free_avail... *)
GetWait(w) ==
  /\ ~destroyed
  /\ freeNum = 0
  /\ Goto(w, "lock", "wait")
  /\ UNCHANGED <<lists, counters, status, held, repair, ppc, quit, destroyed, up>>

(* ... or unlink the first one. *)
GetTake(w) ==
  /\ ~destroyed
  /\ freeNum # 0
  /\ Goto(w, "lock", "taken")
  /\ held' = [held EXCEPT ![w] = Head(free)]
  /\ UnlinkFree
  /\ UNCHANGED <<bad, inuse, badNum, inuseNum, status, repair, ppc, quit,
                 destroyed, up>>

(* The wait of one second runs out.  Only here is quit looked at again; the *)
(* call then returns the value c happens to have: NULL, or the connection   *)
(* an earlier round of the same call put on the bad list.                   *)
GetTimeout(w) ==
  /\ ~destroyed
  /\ Goto(w, "wait", IF ~quit THEN "lock"
                     ELSE IF held[w] = NULL THEN "idle" ELSE "use")
  /\ UNCHANGED <<lists, counters, status, held, repair, ppc, quit, destroyed, up>>

(* pthread_cond_timedwait() may return for no reason; quit is not tested.  A *)
(* time-out that is taken for a signal, since nv_timedwait() looks at a     *)
(* status that all threads share, is the same step.                         *)
GetSpurious(w) ==
  /\ ~destroyed
  /\ Goto(w, "wait", "lock")
  /\ UNCHANGED <<lists, counters, status, held, repair, ppc, quit, destroyed, up>>

(* PQstatus() is BAD: append to the bad list, signal the repair thread and  *)
(* retry.  The variable c keeps its value.                                  *)
GetMarkBad(w) ==
  /\ ~destroyed
  /\ Goto(w, "taken", "lock")
  /\ MayBeBad(held[w])
  /\ AppendBad(held[w])
  /\ SignalBad
  /\ UNCHANGED <<free, inuse, freeNum, inuseNum, status, held, repair, quit,
                 destroyed, up>>

(* Otherwise append to the in-use list and return the connection. *)
GetInUse(w) ==
  /\ ~destroyed
  /\ Goto(w, "taken", "use")
  /\ MayBeGood(held[w])
  /\ AppendInuse(held[w])
  /\ UNCHANGED <<bad, free, badNum, freeNum, status, held, repair, ppc, quit,
                 destroyed, up>>
-----------------------------------------------------------------------------
(* pgsql_pool_release(), called when the query is over and by              *)
(* pgsql_pool_conncheck when the query lost the connection.                *)

(* With quit set the call does nothing; the connection stays in inuse. *)
ReleaseEnter(w) ==
  /\ Goto(w, "use", IF quit THEN "idle" ELSE "rel")
  /\ held' = IF quit THEN [held EXCEPT ![w] = NULL] ELSE held
  /\ UNCHANGED <<lists, counters, status, repair, ppc, quit, destroyed, up>>

ReleaseRemove(w) ==
  /\ ~destroyed
  /\ Goto(w, "rel", "removed")
  /\ UnlinkInuse(held[w])
  /\ UNCHANGED <<bad, free, badNum, freeNum, status, held, repair, ppc, quit,
                 destroyed, up>>

ReleaseBad(w) ==
  /\ ~destroyed
  /\ Goto(w, "removed", "idle")
  /\ MayBeBad(held[w])
  /\ AppendBad(held[w])
  /\ held' = [held EXCEPT ![w] = NULL]
  /\ SignalBad
  /\ UNCHANGED <<free, inuse, freeNum, inuseNum, status, repair, quit,
                 destroyed, up>>

ReleaseFree(w) ==
  /\ ~destroyed
  /\ wpc[w] = "removed"
  /\ MayBeGood(held[w])
  /\ AppendFree(held[w])
  /\ held' = [held EXCEPT ![w] = NULL]
  /\ wpc' \in SignalFree([wpc EXCEPT ![w] = "idle"])
  /\ UNCHANGED <<bad, inuse, badNum, inuseNum, status, repair, ppc, quit,
                 destroyed, up>>

(* A worker inside the pool after its mutexes were freed: nv_lock() and     *)
(* nv_unlock() are applied to a NULL pointer and the process dies.          *)
Crash(w) ==
  /\ destroyed
  /\ wpc[w] \in {"lock", "wait", "taken", "rel", "removed"}
  /\ wpc' = [wpc EXCEPT ![w] = "crash"]
  /\ UNCHANGED <<lists, counters, status, held, repair, ppc, quit, destroyed, up>>
-----------------------------------------------------------------------------
(* pgsql_pool_thread()                                                     *)

(* Set the counters, then put every connection on the bad list. *)
PoolFillOneTooMany ==
  /\ ppc = "start"
  /\ ppc' = "scan"
  /\ bad' = [i \in 1 .. N + 1 |-> i - 1]
  /\ badNum' = N + 1
  /\ freeNum' = 0
  /\ inuseNum' = 0
  /\ UNCHANGED <<free, inuse, status, held, wpc, repair, quit, destroyed, up>>
PoolFill ==
  /\ ppc = "start"
  /\ ppc' = "scan"
  /\ bad' = [i \in 1 .. N |-> i - 1]
  /\ badNum' = N
  /\ freeNum' = 0
  /\ inuseNum' = 0
  /\ UNCHANGED <<free, inuse, status, held, wpc, repair, quit, destroyed, up>>

(* Under bad_lock: nothing to repair, wait on bad_avail... *)
RepairWait ==
  /\ ppc = "scan"
  /\ badNum = 0
  /\ ppc' = "wait"
  /\ UNCHANGED <<lists, counters, status, held, wpc, repair, quit, destroyed, up>>

(* ... or unlink the first bad connection. *)
RepairTake ==
  /\ ppc = "scan"
  /\ badNum # 0
  /\ ppc' = "got"
  /\ repair' = Head(bad)
  /\ UnlinkBad
  /\ UNCHANGED <<free, inuse, freeNum, inuseNum, status, held, wpc, quit,
                 destroyed, up>>

RepairSpurious ==
  /\ ppc = "wait"
  /\ ppc' = "scan"
  /\ UNCHANGED <<lists, counters, status, held, wpc, repair, quit, destroyed, up>>

RepairTimeoutNoQuit ==
  /\ ppc = "wait"
  /\ ppc' = "scan"
  /\ UNCHANGED <<lists, counters, status, held, wpc, repair, quit, destroyed, up>>
RepairTimeout ==
  /\ ppc = "wait"
  /\ ppc' = IF quit THEN "closefree" ELSE "scan"
  /\ UNCHANGED <<lists, counters, status, held, wpc, repair, quit, destroyed, up>>

(* `retry': give up if quit is set, else call PQconnectdb() or PQreset(). *)
RepairTry ==
  /\ ppc = "got"
  /\ ppc' = IF quit THEN "closefree" ELSE "connecting"
  /\ UNCHANGED <<lists, counters, status, held, wpc, repair, quit, destroyed, up>>

(* The call returns; quit is tested before its result. A failed attempt     *)
(* sleeps for retry_timeout and goes back to `retry'.                       *)
RepairResult ==
  /\ ppc = "connecting"
  /\ status' = [status EXCEPT ![repair] = IF up THEN "ok" ELSE "bad"]
  /\ ppc' = IF quit THEN "closefree" ELSE IF up THEN "repaired" ELSE "got"
  /\ UNCHANGED <<lists, counters, held, wpc, repair, quit, destroyed, up>>

RepairPut ==
  /\ ppc = "repaired"
  /\ ppc' = "scan"
  /\ AppendFree(repair)
  /\ wpc' \in SignalFree(wpc)
  /\ UNCHANGED <<bad, inuse, badNum, inuseNum, status, held, repair, quit,
                 destroyed, up>>

(* PQfinish() every connection of one list; the nodes stay linked. *)
Finish(members) ==
  status' = [c \in Conns |-> IF c \in members /\ status[c] # "null"
                             THEN "finished" ELSE status[c]]

CloseFree ==
  /\ ppc = "closefree"
  /\ ppc' = "closeinuse"
  /\ Finish(Range(free))
  /\ freeNum' = freeNum - Len(free)
  /\ UNCHANGED <<lists, badNum, inuseNum, held, wpc, repair, quit, destroyed, up>>

CloseInUse ==
  /\ ppc = "closeinuse"
  /\ ppc' = "closebad"
  /\ Finish(inuse)
  /\ inuseNum' = inuseNum - Cardinality(inuse)
  /\ UNCHANGED <<lists, badNum, freeNum, held, wpc, repair, quit, destroyed, up>>

CloseBad ==
  /\ ppc = "closebad"
  /\ ppc' = "destroy"
  /\ Finish(Range(bad))
  /\ badNum' = badNum - Len(bad)
  /\ UNCHANGED <<lists, freeNum, inuseNum, held, wpc, repair, quit, destroyed, up>>

DestroyLocks ==
  /\ ppc = "destroy"
  /\ ppc' = "done"
  /\ destroyed' = TRUE
  /\ UNCHANGED <<lists, counters, status, held, wpc, repair, quit, up>>
-----------------------------------------------------------------------------
(* pgsql_pool_free(), up to its pthread_join() of the repair thread. *)
RequestQuit ==
  /\ ~quit
  /\ quit' = TRUE
  /\ UNCHANGED <<lists, counters, status, held, wpc, repair, ppc, destroyed, up>>

(* The database server: it goes away and comes back, and while it is away  *)
(* an established connection may be found broken.                           *)
ServerSwitch ==
  /\ up' = ~up
  /\ UNCHANGED <<lists, counters, status, held, wpc, repair, ppc, quit, destroyed>>

ConnectionFails(c) ==
  /\ ~up
  /\ status[c] = "ok"
  /\ status' = [status EXCEPT ![c] = "bad"]
  /\ UNCHANGED <<lists, counters, held, wpc, repair, ppc, quit, destroyed, up>>
-----------------------------------------------------------------------------
Get(w) == GetWait(w) \/ GetTake(w) \/ GetMarkBad(w) \/ GetInUse(w)

Release(w) ==
  ReleaseEnter(w) \/ ReleaseRemove(w) \/ ReleaseBad(w) \/ ReleaseFree(w)

Repair ==
  PoolFill \/ RepairWait \/ RepairTake \/ RepairTry \/ RepairResult \/ RepairPut

Cleanup == CloseFree \/ CloseInUse \/ CloseBad \/ DestroyLocks

Crashed == \E w \in Workers : wpc[w] = "crash"

(* The pool in service. *)
ServiceNext ==
  \/ \E w \in Workers :
       GetEnter(w) \/ Get(w) \/ GetTimeout(w) \/ GetSpurious(w) \/ Release(w)
  \/ Repair
  \/ RepairTimeout
  \/ RepairSpurious
  \/ ServerSwitch
  \/ \E c \in Conns : ConnectionFails(c)

Next ==
  /\ ~Crashed
  /\ \/ ServiceNext
     \/ Cleanup
     \/ RequestQuit
     \/ \E w \in Workers : Crash(w)

Spec == Init /\ [][Next]_vars

(* Threads are scheduled, a query ends, and a connection attempt returns    *)
(* (connect_timeout).  Calls of pgsql_pool_get, the shutdown and the server *)
(* are free.  A wait is not counted on to time out: in service the signals  *)
(* alone must be enough.                                                    *)
FairSpec ==
  /\ Spec
  /\ WF_vars(~Crashed /\ Repair)
  /\ WF_vars(~Crashed /\ Cleanup)
  /\ \A w \in Workers : WF_vars(~Crashed /\ Get(w)) /\ WF_vars(~Crashed /\ Release(w))
-----------------------------------------------------------------------------
(* Properties                                                              *)

TypeOK ==
  /\ bad \in Seq(Conns) /\ free \in Seq(Conns) /\ inuse \subseteq Conns
  /\ badNum \in Int /\ freeNum \in Int /\ inuseNum \in Int
  /\ status \in [Conns -> Statuses]
  /\ held \in [Workers -> Conns \cup {NULL}]
  /\ wpc \in [Workers -> WorkerPC]
  /\ repair \in Conns \cup {NULL}
  /\ ppc \in RepairPC
  /\ quit \in BOOLEAN /\ destroyed \in BOOLEAN /\ up \in BOOLEAN

(* The worker has a connection in its hands, the repair thread has one. *)
Owns(w) == wpc[w] \in {"taken", "use", "rel", "removed"}
Repairing == ppc \in {"got", "connecting", "repaired"}
Filled == ppc # "start"

(* No connection is ever lost between the lists: until the shutdown each    *)
(* one is in a list, with the repair thread or in the hands of a worker     *)
(* that is moving it (pgsql_pool_get, pgsql_pool_release, `retry').         *)
NothingLost ==
  ~quit /\ Filled =>
    \A c \in Conns :
      \/ c \in Range(bad) \cup Range(free) \cup inuse
      \/ Repairing /\ repair = c
      \/ \E w \in Workers : wpc[w] \in {"taken", "removed"} /\ held[w] = c

(* Until the shutdown two threads never use the same connection, and nobody *)
(* can be given the one somebody is using: it is in neither of the lists    *)
(* that pgsql_pool_get and pgsql_pool_thread take from.                     *)
ExclusiveUse ==
  ~quit =>
    \A w \in Workers : Owns(w) =>
      /\ held[w] \in Conns
      /\ held[w] \notin Range(bad) \cup Range(free)
      /\ ~(Repairing /\ repair = held[w])
      /\ \A v \in Workers \ {w} : Owns(v) => held[v] # held[w]

(* Until the shutdown no connection is linked twice: its one node, c->node, *)
(* is in at most one list and the three counters, which the waits test in   *)
(* place of the lists, say how long the lists are.                          *)
CountersMatch ==
  ~quit =>
    /\ badNum = Cardinality(Range(bad)) /\ badNum = Len(bad)
    /\ freeNum = Cardinality(Range(free)) /\ freeNum = Len(free)
    /\ inuseNum = Cardinality(inuse)

(* pgsql_pool_release unlinks c->node without looking: until the shutdown   *)
(* the node is in the in-use list exactly while the connection is lent.     *)
LentIsInUse ==
  ~quit => inuse = {held[w] : w \in {v \in Workers : wpc[v] \in {"use", "rel"}}}

(* A worker sleeps on free_avail only if the free connections there are     *)
(* have all been promised: for each of them another worker is awake and     *)
(* about to test free_num.  (As long as free_avail exists.)                 *)
NoLostWakeup ==
  ~destroyed /\ Waiting(wpc) # {} =>
    freeNum <= Cardinality({w \in Workers : wpc[w] = "lock"})

(* The repair thread never sleeps on bad_avail while there is a connection  *)
(* to repair.                                                               *)
RepairNotAsleep == ppc = "wait" => badNum = 0

(* The pool does what the storage code expects of it.                       *)
lentTo == [c \in Conns |->
             IF \E w \in Workers : wpc[w] \in {"use", "rel"} /\ held[w] = c
             THEN CHOOSE w \in Workers : wpc[w] \in {"use", "rel"} /\ held[w] = c
             ELSE NULL]
Abstract == INSTANCE ConnPool WITH NoOne <- NULL, open <- ~quit, lent <- lentTo

(* Every step of the pool is a step of ConnPool or changes nothing there:   *)
(* while the pool is open a connection is lent only when nobody has it and  *)
(* only its borrower gives it back.                                         *)
ImplementsConnPool == Abstract!Spec

(* With the server back for good and no shutdown, every connection on the   *)
(* bad list is repaired in the end, by signals alone.                       *)
BadIsRepaired ==
  <>[]up /\ []~quit => \A c \in Conns : (c \in Range(bad)) ~> (status[c] = "ok")

(* Then threads that wait for a connection do not all wait for ever: one of *)
(* them takes one.  (Which one is not promised.)                            *)
WaitersServed ==
  <>[]up /\ []~quit => (Waiting(wpc) # {} ~> \E w \in Workers : wpc[w] = "taken")

(* pgsql_pool_free() returns: once quit is set the repair thread, which it  *)
(* joins, ends, unless a worker brought the process down.  Here the         *)
(* one-second time-out of its wait is counted on.                           *)
ShutdownEnds ==
  SF_vars(~Crashed /\ RepairTimeout) => (quit ~> (ppc = "done" \/ Crashed))

(* "check and see if we're invalid at this point" (pgsql_pool_get and       *)
(* pgsql_pool_release): no thread uses the pool's mutexes after the repair  *)
(* thread has freed them.  The test of quit does not ensure it.             *)
NoUseAfterDestroy == ~Crashed
=============================================================================
