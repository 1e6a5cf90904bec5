---------------------------- MODULE PoolLogger ----------------------------
(***************************************************************************)
(* The logging thread of the connection pool (pgsql_pool_logthread,        *)
(* src/plugins/storage/pgsql_pool.c).  It reads bad_num without bad_lock,  *)
(* several times in a round, while the threads of PgsqlPool change it: one *)
(* read is one step.                                                       *)
(***************************************************************************)
EXTENDS Integers

CONSTANTS
  N,     \* the number of connections
  Limit  \* the value of badcount at which it warns (180 in the code)

ASSUME LoggerAssumption == N \in Nat /\ Limit \in Nat \ {0}

VARIABLES
  badNum,    \* pool.bad_num
  quit,      \* pool.quit
  lastbad,   \* pool.lastbad
  badcount,
  lpc,       \* where the thread is
  reported,  \* the number of bad connections in the last status it logged
  warned     \* history: it has just logged a status as a warning

vars == <<badNum, quit, lastbad, badcount, lpc, reported, warned>>

LPC == {"start", "first", "sleep", "less", "more", "report", "copy", "long",
        "warn", "test", "final", "done"}

Init ==
  /\ badNum \in 0 .. N
  /\ quit = FALSE
  /\ lastbad = 0 /\ badcount = 0
  /\ lpc = "start"
  /\ reported = 0 /\ warned = FALSE

Goto(from, to) == lpc = from /\ lpc' = to

(* pgsql_pool_status() *)
Report(from, to) ==
  /\ Goto(from, to)
  /\ reported' = badNum
  /\ UNCHANGED <<badNum, quit, lastbad, badcount, warned>>

CopyFirst ==
  /\ Goto("first", "sleep")
  /\ lastbad' = badNum
  /\ UNCHANGED <<badNum, quit, badcount, reported, warned>>

(* sleep(5) *)
Wake ==
  /\ Goto("sleep", "less")
  /\ warned' = FALSE
  /\ UNCHANGED <<badNum, quit, lastbad, badcount, reported>>

TestLessOnly ==
  /\ Goto("less", IF badNum < lastbad THEN "report" ELSE "long")
  /\ UNCHANGED <<badNum, quit, lastbad, badcount, reported, warned>>
TestLess ==
  /\ Goto("less", IF badNum < lastbad THEN "report" ELSE "more")
  /\ UNCHANGED <<badNum, quit, lastbad, badcount, reported, warned>>

TestMore ==
  /\ Goto("more", IF badNum > lastbad THEN "report" ELSE "long")
  /\ UNCHANGED <<badNum, quit, lastbad, badcount, reported, warned>>

Copy ==
  /\ Goto("copy", "long")
  /\ lastbad' = badNum
  /\ badcount' = badcount + 1
  /\ UNCHANGED <<badNum, quit, reported, warned>>

TestZero ==
  /\ Goto("long", "warn")
  /\ badcount' = IF badNum = 0 THEN 0 ELSE badcount
  /\ UNCHANGED <<badNum, quit, lastbad, reported, warned>>

WarnKeepsCount ==
  /\ Goto("warn", "test")
  /\ IF badcount >= Limit
     THEN reported' = badNum /\ warned' = TRUE
     ELSE UNCHANGED <<reported, warned>>
  /\ UNCHANGED <<badNum, quit, lastbad, badcount>>
Warn ==
  /\ Goto("warn", "test")
  /\ IF badcount >= Limit
     THEN badcount' = 0 /\ reported' = badNum /\ warned' = TRUE
     ELSE UNCHANGED <<badcount, reported, warned>>
  /\ UNCHANGED <<badNum, quit, lastbad>>

TestQuitNever ==
  /\ Goto("test", "sleep")
  /\ UNCHANGED <<badNum, quit, lastbad, badcount, reported, warned>>
TestQuit ==
  /\ Goto("test", IF quit THEN "final" ELSE "sleep")
  /\ UNCHANGED <<badNum, quit, lastbad, badcount, reported, warned>>

Logger ==
  \/ Report("start", "first") \/ CopyFirst
  \/ Wake \/ TestLess \/ TestMore \/ Report("report", "copy") \/ Copy
  \/ TestZero \/ Warn \/ TestQuit
  \/ Report("final", "done")

(* The rest of the pool: a connection gets bad or is taken for repair, and  *)
(* pgsql_pool_free() sets quit.                                             *)
Pool ==
  /\ badNum' \in {badNum - 1, badNum + 1} \cap 0 .. N
  /\ UNCHANGED <<quit, lastbad, badcount, lpc, reported, warned>>

RequestQuit ==
  /\ ~quit /\ quit' = TRUE
  /\ UNCHANGED <<badNum, lastbad, badcount, lpc, reported, warned>>

Next == Logger \/ Pool \/ RequestQuit

Spec == Init /\ [][Next]_vars /\ WF_vars(Logger)
-----------------------------------------------------------------------------
(* Properties                                                              *)

(* badcount is reset at the latest when it reaches the limit. *)
TypeOK ==
  /\ badNum \in 0 .. N /\ lastbad \in 0 .. N /\ reported \in 0 .. N
  /\ badcount \in 0 .. Limit
  /\ quit \in BOOLEAN /\ warned \in BOOLEAN /\ lpc \in LPC

(* The thread's idea of bad_num catches up: if the number settles, lastbad  *)
(* settles on it, unless the thread ends first.  The number in the last     *)
(* message may be an older one: bad_num is read again to be recorded.       *)
CatchesUp ==
  \A k \in 0 .. N : <>[](badNum = k) => <>[](lastbad = k \/ lpc \in {"final", "done"})

(* After pool.quit is set the thread ends, so that the pthread_join() in    *)
(* pgsql_pool_free() returns.                                               *)
LoggerEnds == quit ~> lpc = "done"
=============================================================================
