------------------------------- MODULE NvList -------------------------------
(***************************************************************************)
(* The linked list of netvizd (src/nvlist.h): a ring of nodes around a     *)
(* conventional first element, which is the list and the only node whose   *)
(* data is NULL; an empty list has NULL links.                             *)
(*                                                                         *)
(* A memory is a record: the nodes that are allocated, their two links and *)
(* the nodes whose data is not NULL.                                       *)
(***************************************************************************)
EXTENDS Integers, Sequences

CONSTANTS Node, Nil

Memories == [live : SUBSET Node, next : [Node -> Node \cup {Nil}],
             prev : [Node -> Node \cup {Nil}], full : SUBSET Node]

Cleared == [n \in Node |-> Nil]
NoMemory == [live |-> {}, next |-> Cleared, prev |-> Cleared, full |-> {}]

(* nv_list_new(), nv_node_new() with set_node_data() *)
New(m, n, hasData) ==
  [live |-> m.live \cup {n},
   next |-> [m.next EXCEPT ![n] = Nil],
   prev |-> [m.prev EXCEPT ![n] = Nil],
   full |-> IF hasData THEN m.full \cup {n} ELSE m.full \ {n}]

Free(m, n) == [m EXCEPT !.live = @ \ {n}]

(* list_insert(): n goes after p. *)
Insert(m, p, n) ==
  LET after == m.next[p]
  IN  IF after = Nil
      THEN [m EXCEPT !.next = [@ EXCEPT ![p] = n, ![n] = p],
                     !.prev = [@ EXCEPT ![p] = n, ![n] = p]]
      ELSE [m EXCEPT !.next = [@ EXCEPT ![p] = n, ![n] = after],
                     !.prev = [@ EXCEPT ![n] = p, ![after] = n]]

(* list_append() *)
AppendNode(m, l, n) == Insert(m, IF m.next[l] = Nil THEN l ELSE m.prev[l], n)

(* list_del(): the neighbours are linked to each other; when both are the   *)
(* list itself it is empty now and gets NULL links.                         *)
Unlink(m, n) ==
  LET p == m.prev[n]
      s == m.next[n]
  IN  IF p \notin m.full /\ s \notin m.full
      THEN [m EXCEPT !.next = [@ EXCEPT ![s] = Nil], !.prev = [@ EXCEPT ![s] = Nil]]
      ELSE [m EXCEPT !.next = [@ EXCEPT ![p] = s], !.prev = [@ EXCEPT ![s] = p]]

Del(m, n) == IF n \in m.full THEN Free(Unlink(m, n), n) ELSE m
-----------------------------------------------------------------------------
(* In m the list l is the sequence s: both links lead through the nodes of  *)
(* s in order and round to l, and all are allocated.                        *)
IsList(m, l, s) ==
  LET ring == <<l>> \o s
      After(k) == ring[IF k = Len(ring) THEN 1 ELSE k + 1]
  IN  /\ \A k \in 1 .. Len(ring) : ring[k] \in m.live /\ (ring[k] \in m.full <=> k # 1)
      /\ IF s = <<>> THEN m.next[l] = Nil /\ m.prev[l] = Nil
         ELSE \A k \in 1 .. Len(ring) :
                m.next[ring[k]] = After(k) /\ m.prev[After(k)] = ring[k]
=============================================================================
