-------------------------- MODULE PoolLoggerProofs --------------------------
(* Proofs about PoolLogger, for any N and any limit of badcount. *)
EXTENDS PoolLogger, TLAPS

(* badcount is at its limit only between the increment and the test for the *)
(* warning, which resets it.                                                *)
Counting ==
  /\ TypeOK
  /\ lpc \notin {"long", "warn"} => badcount < Limit

(* TypeOK: however bad_num changes between the reads of the thread, what it *)
(* keeps and reports is a number of connections, and badcount never passes  *)
(* its limit, for any value of the limit.                                   *)
THEOREM LoggerTypeCorrect == Spec => []TypeOK
<1> USE LoggerAssumption DEF Counting, TypeOK, LPC
<1>0. N \in Nat /\ Limit \in Nat /\ 0 \in 0 .. N /\ 0 \in 0 .. Limit /\ 0 < Limit
  OBVIOUS
<1>1. Init => Counting
  BY <1>0 DEF Init
<1>2. Counting /\ [Next]_vars => Counting'
  <2> SUFFICES ASSUME Counting, [Next]_vars PROVE Counting'
    OBVIOUS
  <2> USE DEF Goto
  <2>1. CASE Report("start", "first") \/ Report("report", "copy") \/ Report("final", "done")
    BY <2>1 DEF Report
  <2>2. CASE CopyFirst
    BY <2>2 DEF CopyFirst
  <2>3. CASE Wake
    BY <2>3 DEF Wake
  <2>4. CASE TestLess
    BY <2>4 DEF TestLess
  <2>5. CASE TestMore
    BY <2>5 DEF TestMore
  <2>6. CASE Copy
    BY <2>6 DEF Copy
  <2>7. CASE TestZero
    BY <2>7 DEF TestZero
  <2>8. CASE Warn
    <3>1. CASE badcount >= Limit
      BY <1>0, <2>8, <3>1 DEF Warn
    <3>2. CASE ~ (badcount >= Limit)
      <4>1. badcount \in Int /\ badcount < Limit
        BY <1>0, <3>2
      <4> QED BY <2>8, <3>2, <4>1 DEF Warn
    <3> QED BY <3>1, <3>2
  <2>9. CASE TestQuit
    BY <2>9 DEF TestQuit
  <2>10. CASE Pool
    BY <2>10 DEF Pool
  <2>11. CASE RequestQuit
    BY <2>11 DEF RequestQuit
  <2>12. CASE UNCHANGED vars
    BY <2>12 DEF vars
  <2> QED BY <2>1, <2>2, <2>3, <2>4, <2>5, <2>6, <2>7, <2>8, <2>9, <2>10, <2>11, <2>12
          DEF Next, Logger
<1> QED BY <1>1, <1>2, PTL DEF Spec
=============================================================================
