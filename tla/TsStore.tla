------------------------------ MODULE TsStore ------------------------------
(***************************************************************************)
(* What a storage instance promises the threads that call it (storage.h):  *)
(* it keeps the values of every data set and the time up to which each was *)
(* updated, and any number of threads may call it about any data set at a  *)
(* time.  A call is answered at one moment, with what is stored at that    *)
(* moment: a list of values is never half of one state and half of another.*)
(* A write that is answered 0 is stored at that moment; before it, and     *)
(* also if it is answered -1 later, it may be stored any number of times.  *)
(* Once the instance is closed the answer 0 means nothing, but no thread   *)
(* has an effect any more after a call that was made too late to have one. *)
(***************************************************************************)
EXTENDS Integers

CONSTANTS
  Callers,  \* the threads that call the instance
  Dsets,    \* the data sets that are stored in it
  Times     \* times of values, natural numbers

VARIABLES
  closed,  \* the instance is shut down
  cut,     \* the threads whose calls have no effect any more
  rows,    \* rows[d]: the times for which a value of d is stored
  utime,   \* utime[d]: the stored update time of d, 0 if there is none
  pend,    \* pend[w]: the call of w that is not answered, or NoCall
  ret      \* ret[w]: the last answer to w, empty during the next call

vars == <<closed, cut, rows, utime, pend, ret>>

NoCall == [kind |-> "none"]
Writes == [kind : {"add", "set"}, d : Dsets, t : Times]
Reads  == [kind : {"get", "list"}, d : Dsets]
Calls  == Writes \cup Reads

(* An answer is a number and, for a call that lists values, their times.    *)
Reply(n, l) == [stat |-> n, list |-> l]
Empty == Reply(0, {})

Init ==
  /\ closed = FALSE
  /\ cut = {}
  /\ rows \in [Dsets -> SUBSET Times]
  /\ utime \in [Dsets -> Times \cup {0}]
  /\ pend = [w \in Callers |-> NoCall]
  /\ ret = [w \in Callers |-> Empty]

Call(w, o) ==
  /\ pend[w] = NoCall
  /\ pend' = [pend EXCEPT ![w] = o]
  /\ ret' = [ret EXCEPT ![w] = Empty]
  /\ UNCHANGED <<closed, cut, rows, utime>>

(* A write is stored. *)
Store(w) ==
  /\ w \notin cut
  /\ \/ /\ pend[w].kind = "add"
        /\ rows' = [rows EXCEPT ![pend[w].d] = @ \cup {pend[w].t}]
        /\ UNCHANGED utime
     \/ /\ pend[w].kind = "set"
        /\ utime' = [utime EXCEPT ![pend[w].d] = pend[w].t]
        /\ UNCHANGED rows

(* The call of w is answered. *)
Answer(w, r) ==
  /\ pend' = [pend EXCEPT ![w] = NoCall]
  /\ ret' = [ret EXCEPT ![w] = r]
  /\ cut' = IF closed THEN cut \cup {w} ELSE cut
  /\ UNCHANGED closed

(* A write is stored, but its answer is lost: the call goes on. *)
Attempt(w) == Store(w) /\ UNCHANGED <<closed, cut, pend, ret>>

Written(w) == Store(w) /\ Answer(w, Empty)

Read(w) ==
  /\ \/ pend[w].kind = "get"  /\ Answer(w, Reply(utime[pend[w].d], {}))
     \/ pend[w].kind = "list" /\ Answer(w, Reply(0, rows[pend[w].d]))
  /\ UNCHANGED <<rows, utime>>

(* An error; for a list it cannot be told from no values. *)
Refused(w) ==
  /\ pend[w] # NoCall
  /\ Answer(w, IF pend[w].kind = "list" THEN Empty ELSE Reply(-1, {}))
  /\ UNCHANGED <<rows, utime>>

Ignored(w) ==
  /\ closed /\ pend[w] # NoCall
  /\ Answer(w, Empty)
  /\ UNCHANGED <<rows, utime>>

Answered(w) == Written(w) \/ Read(w) \/ Refused(w) \/ Ignored(w)

(* Threads that are not in a call are cut off at once, others may be. *)
Close ==
  /\ ~closed
  /\ closed' = TRUE
  /\ \E S \in SUBSET Callers : cut' = S \cup {w \in Callers : pend[w] = NoCall}
  /\ UNCHANGED <<rows, utime, pend, ret>>

CutOff(w) ==
  /\ closed
  /\ cut' = cut \cup {w}
  /\ UNCHANGED <<closed, rows, utime, pend, ret>>

Step(w) == Attempt(w) \/ Answered(w) \/ CutOff(w)

Next ==
  \/ \E w \in Callers : Step(w) \/ \E o \in Calls : Call(w, o)
  \/ Close

Spec == Init /\ [][Next]_vars
=============================================================================
