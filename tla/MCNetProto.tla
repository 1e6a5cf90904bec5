----------------------------- MODULE MCNetProto -----------------------------
(* A small instance of NetProto for TLC.  The values are powers of two, so  *)
(* that a sum tells which rows are in it; 5 minutes are more seconds than   *)
(* MaxInt.                                                                  *)
EXTENDS NetProto

MCValue == [x \in Times |-> 2 ^ ((x \div 60) - 1)]
MCResolutions == {-1, 0, 1, 2, 3, 5}
=============================================================================
