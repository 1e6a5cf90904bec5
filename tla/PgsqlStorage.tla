---------------------------- MODULE PgsqlStorage ----------------------------
(***************************************************************************)
(* One instance of the PostgreSQL storage plugin                           *)
(* (src/plugins/storage/pgsql.c): the maintenance thread that creates the  *)
(* tables, declares the instance ready and closes it, and the threads that *)
(* call its four data operations.                                          *)
(*                                                                         *)
(* The connection pool is the abstract ConnPool, which PgsqlPool is shown  *)
(* to implement.  The server executes a statement, refuses it, or the      *)
(* connection is lost, with the statement executed or not; what it knows   *)
(* of the data is the primary keys of the two tables.                      *)
(*                                                                         *)
(* The heartbeat threads of the sensors write values and update times and  *)
(* ask for update times; the threads of the clients of the protocol ask    *)
(* for values, of the same data sets and at the same time.  A heartbeat    *)
(* thread feeds any number of data sets, and nothing in the configuration  *)
(* keeps two of them from feeding one.  pgsql_add_row repeats              *)
(* pgsql_get_ready, which its caller has just passed; the two calls are    *)
(* one here.                                                               *)
(***************************************************************************)
EXTENDS Integers, FiniteSets

CONSTANTS
  Sensors,  \* the heartbeat threads of the sensors that store here
  Clients,  \* the threads of the clients that fetch from here
  Dsets,    \* the data sets kept here
  Times,    \* times of values
  Conns,    \* the connections of the pool
  Maint,    \* the maintenance thread
  NoOne     \* no thread

Callers == Sensors \cup Clients

ASSUME StorageAssumption ==
  /\ Times \subseteq Nat \ {0}
  /\ Maint \notin Callers /\ NoOne \notin Callers \cup {Maint}

VARIABLES
  open, lent,     \* the pool (ConnPool); open: pool.quit is not set
  up,             \* the server accepts connections
  tables,         \* the tables that exist in the database
  rows, utime,    \* the contents of nv_dsts_data and nv_dsts (0: no row)
  ready, quit,    \* me->ready, me->quit
  mutex,          \* the thread that holds me->lock from one step to the next
  freed,          \* me->lock and me->readyc are freed
  table,          \* the table the maintenance thread creates
  pc,             \* where each thread is
  op,             \* the call each caller is in
  stmt,           \* the statement a thread runs next
  stat, list      \* the variables a call returns; the next call resets them

pool  == <<open, lent>>
db    == <<tables, rows, utime>>
flags == <<ready, quit, freed>>
locals == <<op, stmt, stat, list>>
vars  == <<open, lent, up, tables, rows, utime, ready, quit, mutex, freed, table, pc,
           op, stmt, stat, list>>

Threads == Callers \cup {Maint}
Pool == INSTANCE ConnPool WITH Workers <- Threads

(* The answer to a call is known when its last statement is over.  A thread *)
(* is cut off when pool.quit is set and it is not past the test of it.      *)
NoCall == [kind |-> "none"]
unanswered == [w \in Callers |-> IF pc[w] = "release" THEN NoCall ELSE op[w]]
answers    == [w \in Callers |-> [stat |-> stat[w], list |-> list[w]]]
cutOff     == {w \in Callers : ~open /\ pc[w] \notin {"inpool", "exec", "retry"}}

Abstract == INSTANCE TsStore
  WITH closed <- ~open, cut <- cutOff, pend <- unanswered, ret <- answers

Tables == {"nv_dsts", "nv_dsts_data"}
Statements == {"none", "exists", "create", "insert row", "select rows", "select utime",
               "insert utime", "update utime"}

PC == {"idle",
       "call",      \* entering pgsql_get_ready
       "lock",      \* about to take me->lock and test ready
       "tested",    \* has found ready unset, about to wait
       "wait",      \* in pthread_cond_timedwait(readyc)
       "unlock",    \* has unlocked me->lock, about to unlock it again
       "get",       \* about to call pgsql_pool_get
       "inpool",    \* in pgsql_pool_get
       "exec",      \* running a statement on the connection
       "retry",     \* the connection is lost: release it and retry
       "release",   \* the statement is over: release the connection
       "setready", "watch", "close", "destroy", "done",  \* pgsql_thread
       "crash"}

Goto(w, from, to) ==
  /\ pc[w] = from
  /\ pc' = [pc EXCEPT ![w] = to]

Init ==
  /\ Pool!Init
  /\ up \in BOOLEAN
  /\ tables \in SUBSET Tables
  /\ rows \in [Dsets -> SUBSET Times]
  /\ utime \in [Dsets -> Times \cup {0}]
  /\ "nv_dsts" \notin tables => utime = [d \in Dsets |-> 0]
  /\ "nv_dsts_data" \notin tables => rows = [d \in Dsets |-> {}]
  /\ ready = FALSE /\ quit = FALSE /\ freed = FALSE /\ mutex = NoOne
  /\ table = "nv_dsts"
  /\ pc = [w \in Threads |-> IF w = Maint THEN "get" ELSE "idle"]
  /\ op = [w \in Callers |-> NoCall]
  /\ stmt = [w \in Threads |-> IF w = Maint THEN "exists" ELSE "none"]
  /\ stat = [w \in Threads |-> 0] /\ list = [w \in Threads |-> {}]
-----------------------------------------------------------------------------
(* A call begins: stor_ts_data, stor_ts_utime, get_ts_utime by a sensor's   *)
(* thread (rrd.c), get_ts_data by a client's (net.c).                       *)
MayCall(w, o) == o.kind = "list" <=> w \in Clients

First(o) == CASE o.kind = "add"  -> "insert row"
              [] o.kind = "list" -> "select rows"
              [] OTHER           -> "select utime"

Call(w, o) ==
  /\ MayCall(w, o)
  /\ Goto(w, "idle", "call")
  /\ op' = [op EXCEPT ![w] = o]
  /\ stmt' = [stmt EXCEPT ![w] = First(o)]
  /\ stat' = [stat EXCEPT ![w] = 0] /\ list' = [list EXCEPT ![w] = {}]
  /\ UNCHANGED <<pool, up, db, flags, mutex, table>>

Return(w) ==
  /\ op' = [op EXCEPT ![w] = NoCall]
  /\ stmt' = [stmt EXCEPT ![w] = "none"]
  /\ UNCHANGED <<stat, list>>
-----------------------------------------------------------------------------
(* pgsql_get_ready()                                                        *)
ReadyTest(w) ==
  /\ Goto(w, "call", IF quit THEN "get" ELSE "lock")
  /\ UNCHANGED <<pool, up, db, flags, mutex, table, locals>>

(* With me->lock taken, or taken again after a wait: while (!me->ready)     *)
TestReady(w, from) ==
  /\ ~freed /\ mutex = NoOne
  /\ IF ready THEN Goto(w, from, "get") /\ UNCHANGED mutex
              ELSE Goto(w, from, "tested") /\ mutex' = w
  /\ UNCHANGED <<pool, up, db, flags, table, locals>>

ReadyLockNoTest(w) ==
  /\ ~freed /\ mutex = NoOne
  /\ Goto(w, "lock", "get")
  /\ UNCHANGED <<pool, up, db, flags, mutex, table, locals>>
ReadyLock(w) == TestReady(w, "lock")

(* The wait begins and unlocks me->lock, whoever holds it. *)
ReadyWait(w) ==
  /\ ~freed
  /\ Goto(w, "tested", "wait")
  /\ mutex' = NoOne
  /\ UNCHANGED <<pool, up, db, flags, table, locals>>

(* A second passes: with quit set me->lock is unlocked, in the loop ...     *)
ReadyTimeout(w) ==
  \/ ~quit /\ TestReady(w, "wait")
  \/ /\ quit /\ ~freed /\ mutex = NoOne
     /\ Goto(w, "wait", "unlock")
     /\ UNCHANGED <<pool, up, db, flags, mutex, table, locals>>

ReadySpurious(w) ==
  /\ ~freed
  /\ Goto(w, "wait", "lock")
  /\ UNCHANGED <<pool, up, db, flags, mutex, table, locals>>

(* ... and once more after it, when another thread may hold it. *)
ReadyUnlock(w) ==
  /\ ~freed
  /\ Goto(w, "unlock", "get")
  /\ mutex' = NoOne
  /\ UNCHANGED <<pool, up, db, flags, table, locals>>

(* me->lock is a NULL pointer by now. *)
Crash(w) ==
  /\ freed
  /\ pc[w] \in {"lock", "tested", "wait", "unlock"}
  /\ pc' = [pc EXCEPT ![w] = "crash"]
  /\ UNCHANGED <<pool, up, db, flags, mutex, table, locals>>
-----------------------------------------------------------------------------
(* pgsql_pool_get(): NULL once the pool is closed. *)
PoolCall(w) ==
  /\ open
  /\ Goto(w, "get", "inpool")
  /\ UNCHANGED <<pool, up, db, flags, mutex, table, locals>>

PoolLend(w, c) ==
  /\ Goto(w, "inpool", "exec")
  /\ Pool!Lend(w, c)
  /\ UNCHANGED <<up, db, flags, mutex, table, locals>>

(* The pool was closed in the meantime, but the caller takes a connection. *)
PoolLendClosed(w) ==
  /\ ~open
  /\ Goto(w, "inpool", "exec")
  /\ UNCHANGED <<pool, up, db, flags, mutex, table, locals>>

PoolNull(w) ==
  /\ ~open
  /\ pc[w] \in {"get", "inpool"}
  /\ pc' = [pc EXCEPT ![w] = "idle"]
  /\ Return(w)
  /\ UNCHANGED <<pool, up, db, flags, mutex, table>>
-----------------------------------------------------------------------------
(* PQexec()                                                                 *)

(* The server can execute the thread's statement: its table is there, and   *)
(* an INSERT does not repeat a primary key.                                 *)
Executable(w) ==
  /\ stmt[w] = "create" => table \notin tables
  /\ stmt[w] \in {"insert row", "select rows"} => "nv_dsts_data" \in tables
  /\ stmt[w] \in {"select utime", "insert utime", "update utime"} => "nv_dsts" \in tables
  /\ stmt[w] = "insert row" => op[w].t \notin rows[op[w].d]
  /\ stmt[w] = "insert utime" => utime[op[w].d] = 0

(* Its effect on the database. *)
Execute(w) ==
  /\ Executable(w)
  /\ tables' = IF stmt[w] = "create" THEN tables \cup {table} ELSE tables
  /\ rows' = IF stmt[w] = "insert row"
             THEN [rows EXCEPT ![op[w].d] = @ \cup {op[w].t}] ELSE rows
  /\ utime' = IF stmt[w] \in {"insert utime", "update utime"}
              THEN [utime EXCEPT ![op[w].d] = op[w].t] ELSE utime

(* The table is not there; pgsql_stor_ts_utime has looked for the row.      *)
MustCreate(w) == stmt[w] = "exists" /\ table \notin tables
MustWrite(w)  == stmt[w] = "select utime" /\ op[w].kind = "set"

(* The last statement of a call leaves what the call will return. *)
Result(w) ==
  /\ stat' = [stat EXCEPT ![w] = IF stmt[w] = "select utime" THEN utime[op[w].d] ELSE 0]
  /\ list' = [list EXCEPT ![w] = IF stmt[w] = "select rows" THEN rows[op[w].d] ELSE {}]

(* The statement is executed and its result arrives.                        *)
ExecOk(w) ==
  /\ pc[w] = "exec"
  /\ Execute(w)
  /\ \/ /\ MustCreate(w)
        /\ stmt' = [stmt EXCEPT ![w] = "create"]
        /\ UNCHANGED <<pc, stat, list>>
     \/ /\ MustWrite(w)
        /\ stmt' = [stmt EXCEPT ![w] =
                      IF utime[op[w].d] = 0 THEN "insert utime" ELSE "update utime"]
        /\ pc' = [pc EXCEPT ![w] = "retry"]
        /\ UNCHANGED <<stat, list>>
     \/ /\ ~MustCreate(w) /\ ~MustWrite(w)
        /\ Result(w)
        /\ pc' = [pc EXCEPT ![w] = "release"]
        /\ UNCHANGED stmt
  /\ UNCHANGED <<pool, up, flags, mutex, table, op>>

(* The server answers with an error: it could not execute the statement, or *)
(* has a reason of its own.                                                 *)
ExecError(w) ==
  /\ Goto(w, "exec", "release")
  /\ stat' = [stat EXCEPT ![w] = IF stmt[w] = "select rows" THEN 0 ELSE -1]
  /\ UNCHANGED <<pool, up, db, flags, mutex, table, op, stmt, list>>

(* The connection is lost before the result arrives.  Every statement but   *)
(* CREATE TABLE is followed by pgsql_pool_conncheck and is run again.       *)
ExecLostUnchecked(w) ==
  /\ ~up
  /\ Goto(w, "exec", "release")
  /\ Execute(w) \/ UNCHANGED db
  /\ UNCHANGED <<pool, up, flags, mutex, table, op, stmt, stat, list>>
ExecLost(w) ==
  /\ ~up
  /\ pc[w] = "exec"
  /\ Execute(w) \/ UNCHANGED db
  /\ IF stmt[w] = "create"
     THEN stat' = [stat EXCEPT ![w] = -1] /\ pc' = [pc EXCEPT ![w] = "release"]
     ELSE UNCHANGED stat /\ pc' = [pc EXCEPT ![w] = "retry"]
  /\ UNCHANGED <<pool, up, flags, mutex, table, op, stmt, list>>

(* pgsql_pool_release() *)
PoolReleaseForgotten(w) == UNCHANGED pool
PoolRelease(w) ==
  IF open THEN \E c \in Conns : Pool!GiveBack(w, c) ELSE UNCHANGED pool

ReleaseAndRetry(w) ==
  /\ Goto(w, "retry", "get")
  /\ PoolRelease(w)
  /\ UNCHANGED <<up, db, flags, mutex, table, locals>>

ReleaseAndReturn(w) ==
  /\ Goto(w, "release", "idle")
  /\ PoolRelease(w)
  /\ Return(w)
  /\ UNCHANGED <<up, db, flags, mutex, table>>
-----------------------------------------------------------------------------
(* pgsql_thread()                                                           *)

(* pgsql_init_table() returns: the next table, the announcement, or the end. *)
TableDone ==
  /\ pc[Maint] = "release"
  /\ PoolRelease(Maint)
  /\ IF stat[Maint] < 0
     THEN quit' = TRUE /\ pc' = [pc EXCEPT ![Maint] = "close"] /\ UNCHANGED <<table, stmt>>
     ELSE /\ IF table = "nv_dsts"
             THEN /\ table' = "nv_dsts_data"
                  /\ pc' = [pc EXCEPT ![Maint] = "get"]
                  /\ stmt' = [stmt EXCEPT ![Maint] = "exists"]
             ELSE pc' = [pc EXCEPT ![Maint] = "setready"] /\ UNCHANGED <<table, stmt>>
          /\ UNCHANGED quit
  /\ UNCHANGED <<up, db, ready, mutex, freed, op, stat, list>>

SetReadySilently ==
  /\ mutex = NoOne
  /\ ready' = TRUE
  /\ Goto(Maint, "setready", "watch")
  /\ UNCHANGED <<pool, up, db, quit, mutex, freed, table, locals>>
SetReadyNoUnlock ==
  /\ mutex = NoOne /\ mutex' = Maint
  /\ ready' = TRUE
  /\ pc[Maint] = "setready"
  /\ pc' = [w \in Threads |-> IF w = Maint THEN "watch"
                              ELSE IF pc[w] = "wait" THEN "lock" ELSE pc[w]]
  /\ UNCHANGED <<pool, up, db, quit, freed, table, locals>>
SetReady ==
  /\ mutex = NoOne
  /\ pc[Maint] = "setready"
  /\ ready' = TRUE
  /\ pc' = [w \in Threads |-> IF w = Maint THEN "watch"
                              ELSE IF pc[w] = "wait" THEN "lock" ELSE pc[w]]
  /\ UNCHANGED <<pool, up, db, quit, mutex, freed, table, locals>>

Watch ==
  /\ quit
  /\ Goto(Maint, "watch", "close")
  /\ UNCHANGED <<pool, up, db, flags, mutex, table, locals>>

(* pgsql_pool_free() *)
ClosePool ==
  /\ Goto(Maint, "close", "destroy")
  /\ Pool!Close
  /\ UNCHANGED <<up, db, flags, mutex, table, locals>>

Destroy ==
  /\ Goto(Maint, "destroy", "done")
  /\ freed' = TRUE
  /\ UNCHANGED <<pool, up, db, ready, quit, mutex, table, locals>>

(* pgsql_inst_free() *)
InstFree ==
  /\ ~quit
  /\ quit' = TRUE
  /\ UNCHANGED <<pool, up, db, ready, mutex, freed, table, pc, locals>>

ServerSwitch ==
  /\ up' = ~up
  /\ UNCHANGED <<pool, db, flags, mutex, table, pc, locals>>
-----------------------------------------------------------------------------
Statement(w) == ExecOk(w) \/ ExecError(w) \/ ExecLost(w)

Crashed == \E w \in Callers : pc[w] = "crash"

(* Everything a thread does on its own once it is inside a call. *)
Inside(w) ==
  \/ ReadyTest(w) \/ ReadyLock(w) \/ ReadyWait(w) \/ ReadyTimeout(w) \/ ReadyUnlock(w)
  \/ PoolCall(w) \/ PoolNull(w) \/ PoolLendClosed(w)
  \/ \E c \in Conns : PoolLend(w, c)
  \/ Statement(w) \/ ReleaseAndRetry(w) \/ ReleaseAndReturn(w)

Maintenance ==
  \/ PoolCall(Maint) \/ \E c \in Conns : PoolLend(Maint, c)
  \/ Statement(Maint) \/ ReleaseAndRetry(Maint)
  \/ TableDone \/ SetReady \/ Watch \/ ClosePool \/ Destroy

Next ==
  /\ ~Crashed
  /\ \/ \E w \in Callers :
          \/ \E o \in Abstract!Calls : Call(w, o)
          \/ Inside(w)
          \/ ReadySpurious(w)
          \/ Crash(w)
     \/ Maintenance
     \/ InstFree
     \/ ServerSwitch

Spec == Init /\ [][Next]_vars

(* Threads are scheduled, waits time out and statements come to an end.     *)
(* Threads that wait for ready hold me->lock for a moment once a second, so *)
(* the maintenance thread finds it free when it keeps trying.  Nobody is    *)
(* obliged to make a call, to close the instance or to bring the server     *)
(* back, and which of the threads that wait for a connection gets the next  *)
(* one is left open.                                                        *)
FairSpec ==
  /\ Spec
  /\ \A w \in Callers : WF_vars(~Crashed /\ (Inside(w) \/ Crash(w)))
  /\ WF_vars(~Crashed /\ Maintenance) /\ SF_vars(~Crashed /\ SetReady)
-----------------------------------------------------------------------------
(* Properties                                                              *)

TypeOK ==
  /\ Pool!TypeOK
  /\ up \in BOOLEAN /\ ready \in BOOLEAN /\ quit \in BOOLEAN /\ freed \in BOOLEAN
  /\ mutex \in Callers \cup {NoOne}
  /\ tables \subseteq Tables /\ table \in Tables
  /\ rows \in [Dsets -> SUBSET Times]
  /\ utime \in [Dsets -> Times \cup {0}]
  /\ pc \in [Threads -> PC]
  /\ op \in [Callers -> Abstract!Calls \cup {NoCall}]
  /\ stmt \in [Threads -> Statements]
  /\ stat \in [Threads -> Int] /\ list \in [Threads -> SUBSET Times]

(* The instance does what storage.h promises to any number of threads that  *)
(* write and read one data set at a time: through lost connections, retries *)
(* and the two steps of pgsql_stor_ts_utime, a write that returns 0 has     *)
(* been stored during the call, a list of values is what was stored at one  *)
(* moment of the call or the answer for an error; a pool that is shut down  *)
(* answers 0, but from then on no thread writes anything that comes later.  *)
ImplementsTsStore == Abstract!Spec

(* While the pool is open a thread has a connection exactly while it runs a *)
(* statement: every path out of the four operations and of pgsql_init_table *)
(* releases it once, and nobody asks for a second one.                      *)
ConnectionWhileRunning ==
  open => \A w \in Threads :
    Cardinality({c \in Conns : lent[c] = w}) =
      IF pc[w] \in {"exec", "retry", "release"} THEN 1 ELSE 0

(* No data statement reaches the server before both tables are there,       *)
(* unless the instance is closing (pgsql_get_ready).                        *)
TablesFirst ==
  \A w \in Callers : pc[w] = "exec" /\ ~quit => tables = Tables

(* Once the instance is ready no thread sleeps on readyc or is about to:    *)
(* the broadcast falls between no thread's test of ready and its wait.  It  *)
(* may while the instance is closing, because pgsql_get_ready() then        *)
(* unlocks me->lock twice, the second time for whoever holds it.            *)
NoneMissesReady ==
  ready /\ ~quit => \A w \in Callers : pc[w] \notin {"tested", "wait"}

(* More threads than connections: with the server back for good and the     *)
(* instance not closed, calls go on returning for as long as there are any. *)
(* No connection is kept and no thread waits for what will not come; that   *)
(* each call returns is not promised, because pgsql_pool_get() serves those *)
(* that wait in any order.                                                  *)
CallsProgress ==
  <>[]up /\ []~quit =>
    \/ []<>(\A w \in Callers : pc[w] = "idle")
    \/ []<><<\E w \in Callers : pc[w] # "idle" /\ pc'[w] = "idle">>_vars
=============================================================================
