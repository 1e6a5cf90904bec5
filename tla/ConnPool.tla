------------------------------ MODULE ConnPool ------------------------------
(***************************************************************************)
(* What the storage code expects of the connection pool, without its       *)
(* threads, lists and locks: while the pool is open a connection is lent   *)
(* to at most one thread, a thread borrows at most one connection at a     *)
(* time, and only the borrower gives it back.  Once the pool is closed     *)
(* (pgsql_pool_free) the interface promises nothing about who uses what.   *)
(***************************************************************************)
CONSTANTS
  Workers,  \* the threads that call the storage plugin
  Conns,    \* the connections of one pool
  NoOne     \* the borrower of a connection that is not lent

VARIABLES
  open,     \* no shutdown has been requested
  lent      \* lent[c]: the thread that has borrowed connection c, or NoOne

vars == <<open, lent>>

Borrowers == Workers \cup {NoOne}

TypeOK ==
  /\ open \in BOOLEAN
  /\ lent \in [Conns -> Borrowers]

Init ==
  /\ open = TRUE
  /\ lent = [c \in Conns |-> NoOne]

(* pgsql_pool_get() returns: w borrows a connection nobody has. *)
Lend(w, c) ==
  /\ open
  /\ lent[c] = NoOne
  /\ \A d \in Conns : lent[d] # w
  /\ lent' = [lent EXCEPT ![c] = w]
  /\ UNCHANGED open

(* pgsql_pool_release() by the borrower. *)
GiveBack(w, c) ==
  /\ open
  /\ lent[c] = w
  /\ lent' = [lent EXCEPT ![c] = NoOne]
  /\ UNCHANGED open

Close ==
  /\ open
  /\ open' = FALSE
  /\ UNCHANGED lent

(* A closed pool: any use of its connections, and it never opens again. *)
AfterClose ==
  /\ ~open
  /\ lent' \in [Conns -> Borrowers]
  /\ UNCHANGED open

Next ==
  \/ \E w \in Workers, c \in Conns : Lend(w, c) \/ GiveBack(w, c)
  \/ Close
  \/ AfterClose

Spec == Init /\ [][Next]_vars
=============================================================================
