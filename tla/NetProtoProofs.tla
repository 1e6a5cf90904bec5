--------------------------- MODULE NetProtoProofs ---------------------------
(***************************************************************************)
(* Proofs about NetProto and the list of NvList it walks through, for any  *)
(* values of the rows and any width of an int.                             *)
(***************************************************************************)
EXTENDS NetProto, FiniteSetTheorems, WellFoundedInduction, TLAPS

-----------------------------------------------------------------------------
(* Induction, and the functions defined by recursion                       *)

(* The least number that is not in a set is 0 or follows one that is. *)
LEMMA NatBySteps ==
  ASSUME NEW S, 0 \in S, \A n \in Nat : n \in S => n + 1 \in S
  PROVE  Nat \subseteq S
<1> DEFINE T == Nat \ S
<1> SUFFICES ASSUME T # {} PROVE FALSE
  OBVIOUS
<1>1. PICK x \in T : \A y \in T : ~ (<<y, x>> \in OpToRel(<, Nat))
  <2>1. T \subseteq Nat
    OBVIOUS
  <2> HIDE DEF T
  <2> QED BY <2>1, NatLessThanWellFounded, WFMin, Zenon
<1>2. x \in Nat /\ x # 0
  OBVIOUS
<1>3. x - 1 \in Nat /\ x - 1 < x /\ (x - 1) + 1 = x
  BY <1>2
<1>4. <<x - 1, x>> \in OpToRel(<, Nat)
  BY <1>2, <1>3, Zenon DEF OpToRel
<1>5. x - 1 \in S
  BY <1>1, <1>3, <1>4
<1> QED BY <1>3, <1>5

(* What is added to a sum or to the list with a row does not depend on the  *)
(* rows after it, so there are sums and lists for any number of rows.       *)
Begins(d) == IF d = "sum" THEN 0 ELSE List!New(mem, 0, FALSE)
Continues(d, x, k) ==
  IF d = "sum" THEN x + Value[rows[k]]
  ELSE List!AppendNode(List!New(x, k, TRUE), 0, k)
UpTo(d, n, v) == [k \in 0 .. n |-> IF k = 0 THEN Begins(d) ELSE Continues(d, v[k - 1], k)]

LEMMA RecursionEnds ==
  ASSUME NEW d, NEW m \in Nat
  PROVE  \E v : v = UpTo(d, m, v)
<1> DEFINE S == {n \in Nat : \E v : v = UpTo(d, n, v)}
<1>1. 0 \in S
  <2> DEFINE v == [k \in 0 .. 0 |-> Begins(d)]
  <2>1. v = UpTo(d, 0, v)
    BY DEF UpTo
  <2> QED BY <2>1
<1>2. ASSUME NEW n \in Nat, n \in S PROVE n + 1 \in S
  <2>1. PICK v : v = UpTo(d, n, v)
    BY <1>2
  <2> DEFINE w == [k \in 0 .. n + 1 |->
                     IF k = n + 1 THEN Continues(d, v[n], n + 1) ELSE v[k]]
  <2>2. \A k \in 0 .. n : w[k] = v[k]
    OBVIOUS
  <2>3. ASSUME NEW k \in 0 .. n + 1
        PROVE  w[k] = IF k = 0 THEN Begins(d) ELSE Continues(d, w[k - 1], k)
    <3>1. CASE k = n + 1
      <4>1. w[n] = v[n]
        BY <2>2
      <4> QED BY <3>1, <4>1
    <3>2. CASE k \in 1 .. n
      <4>1. k - 1 \in 0 .. n
        BY <3>2
      <4>2. v[k] = Continues(d, v[k - 1], k)
        BY <2>1, <3>2 DEF UpTo
      <4> HIDE DEF w
      <4> QED BY <2>2, <3>2, <4>1, <4>2
    <3>3. CASE k = 0
      <4>1. v[0] = Begins(d)
        BY <2>1 DEF UpTo
      <4> QED BY <2>2, <3>3, <4>1
    <3> QED BY <3>1, <3>2, <3>3
  <2>4. w = UpTo(d, n + 1, w)
    <3>1. w = [k \in 0 .. n + 1 |-> w[k]]
      OBVIOUS
    <3> HIDE DEF w
    <3> QED BY <2>3, <3>1 DEF UpTo
  <2>5. \E u : u = UpTo(d, n + 1, u)
    <3> HIDE DEF w
    <3> QED BY <2>4
  <2> QED BY <2>5
<1>3. Nat \subseteq S
  <2> HIDE DEF S
  <2> QED BY <1>1, <1>2, NatBySteps
<1> QED BY <1>3

LEMMA CountTimes == Cardinality(Times) \in Nat
BY ProtoAssumption, FS_CardinalityType

(* What Total and Built are defined by. *)
LEMMA TotalIs ==
  \A k \in Nodes : Total[k] = IF k = 0 THEN 0 ELSE Total[k - 1] + Value[rows[k]]
<1>1. \E v : v = UpTo("sum", Cardinality(Times), v)
  BY RecursionEnds, CountTimes
<1>2. Total = UpTo("sum", Cardinality(Times), Total)
  BY <1>1 DEF Total, UpTo, Nodes, Begins, Continues
<1> QED BY <1>2 DEF UpTo, Nodes, Begins, Continues

LEMMA BuiltIs ==
  \A k \in Nodes :
    Built[k] = IF k = 0 THEN List!New(mem, 0, FALSE)
               ELSE List!AppendNode(List!New(Built[k - 1], k, TRUE), 0, k)
<1>1. \E v : v = UpTo("list", Cardinality(Times), v)
  BY RecursionEnds, CountTimes
<1>2. Built = UpTo("list", Cardinality(Times), Built)
  BY <1>1 DEF Built, UpTo, Nodes, Begins, Continues
<1> QED BY <1>2 DEF UpTo, Nodes, Begins, Continues
-----------------------------------------------------------------------------
(* The list                                                                *)

(* Nothing is in the list; the nodes a .. b are, in their order. *)
Empty(m) == m.live = {0} /\ 0 \notin m.full /\ m.next[0] = NULL /\ m.prev[0] = NULL
Ring(m, a, b) ==
  /\ m.live = {0} \cup a .. b /\ 0 \notin m.full /\ a .. b \subseteq m.full
  /\ m.next[0] = a /\ m.prev[0] = b /\ m.next[b] = 0 /\ m.prev[a] = 0
  /\ \A k \in a .. b : k < b => m.next[k] = k + 1 /\ m.prev[k + 1] = k

LEMMA NodesAre ==
  /\ 0 \in Nodes /\ Nodes \subseteq Nat /\ NULL \notin Nodes /\ NULL = -1
  /\ \A k \in Nodes : 0 .. k \subseteq Nodes
BY CountTimes DEF Nodes, NULL

(* list_append() puts the new node behind the others. *)
LEMMA AppendMakesRing ==
  ASSUME NEW m \in List!Memories, NEW n \in Nodes \ {0},
         IF n = 1 THEN Empty(m) ELSE Ring(m, 1, n - 1),
         NEW a, a = List!AppendNode(List!New(m, n, TRUE), 0, n)
  PROVE  a \in List!Memories /\ Ring(a, 1, n)
<1> DEFINE w == List!New(m, n, TRUE)
<1>1. n \in Nat /\ n >= 1 /\ 0 \in Nodes /\ n - 1 \in Nodes /\ Nodes \subseteq Nat
  BY NodesAre
<1>2. /\ m.live \subseteq Nodes /\ m.full \subseteq Nodes
      /\ m.next \in [Nodes -> Nodes \cup {NULL}] /\ m.prev \in [Nodes -> Nodes \cup {NULL}]
  BY DEF List!Memories
<1>3. /\ w.live = m.live \cup {n} /\ w.full = m.full \cup {n}
      /\ w.next = [m.next EXCEPT ![n] = NULL] /\ w.prev = [m.prev EXCEPT ![n] = NULL]
      /\ w = [live |-> w.live, next |-> w.next, prev |-> w.prev, full |-> w.full]
      /\ a = List!AppendNode(w, 0, n)
  BY DEF List!New
<1> HIDE DEF w
<1>4. /\ w.next \in [Nodes -> Nodes \cup {NULL}] /\ w.prev \in [Nodes -> Nodes \cup {NULL}]
      /\ w.next[0] = m.next[0] /\ w.prev[0] = m.prev[0]
      /\ \A k \in Nodes \ {n} : w.next[k] = m.next[k] /\ w.prev[k] = m.prev[k]
  BY <1>1, <1>2, <1>3
<1>5. CASE n = 1
  <2>1. w.next[0] = NULL
    BY <1>4, <1>5 DEF Empty
  <2>2. a = [live |-> w.live, next |-> [w.next EXCEPT ![0] = n, ![n] = 0],
             prev |-> [w.prev EXCEPT ![0] = n, ![n] = 0], full |-> w.full]
    <3>1. a = List!Insert(w, 0, n)
      BY ONLY <1>3, <2>1 DEF List!AppendNode
    <3>2. a = [w EXCEPT !.next = [@ EXCEPT ![0] = n, ![n] = 0],
                        !.prev = [@ EXCEPT ![0] = n, ![n] = 0]]
      BY ONLY <2>1, <3>1, Zenon DEF List!Insert
    <3> QED BY ONLY <1>3, <3>2
  <2>3. a \in List!Memories
    <3>1. w.live \subseteq Nodes /\ w.full \subseteq Nodes
      BY <1>2, <1>3
    <3>2. [w.next EXCEPT ![0] = n, ![n] = 0] \in [Nodes -> Nodes \cup {NULL}]
      BY <1>1, <1>4
    <3>3. [w.prev EXCEPT ![0] = n, ![n] = 0] \in [Nodes -> Nodes \cup {NULL}]
      BY <1>1, <1>4
    <3> QED BY ONLY <2>2, <3>1, <3>2, <3>3 DEF List!Memories
  <2>4. Ring(a, 1, n)
    <3>1. a.live = {0} \cup {1} /\ 0 \notin a.full /\ 1 \in a.full
      <4>1. a.live = m.live \cup {n} /\ a.full = m.full \cup {n}
        BY ONLY <1>3, <2>2
      <4>2. m.live = {0} /\ 0 \notin m.full
        BY <1>5 DEF Empty
      <4> QED BY ONLY <1>5, <4>1, <4>2
    <3>2. a.next[0] = 1 /\ a.prev[0] = 1 /\ a.next[1] = 0 /\ a.prev[1] = 0
      BY ONLY n \in Nodes, <1>1, <1>4, <1>5, <2>2
    <3>3. 1 .. n = {1} /\ \A k \in 1 .. n : ~ (k < n)
      BY <1>5
    <3> QED BY ONLY <1>5, <3>1, <3>2, <3>3 DEF Ring
  <2> QED BY <2>3, <2>4
<1>6. CASE n # 1
  <2>1. PICK j \in Nodes : j = n - 1
    BY <1>1
  <2>2. j # 0 /\ j # n /\ n = j + 1 /\ j \in 1 .. j /\ j \in Nat /\ 0 # n /\ 1 \in Nodes
    BY <1>1, <1>6, <2>1, NodesAre
  <2>3. /\ m.live = {0} \cup 1 .. j /\ 0 \notin m.full /\ 1 .. j \subseteq m.full
        /\ m.next[0] = 1 /\ m.prev[0] = j /\ m.next[j] = 0 /\ m.prev[1] = 0
        /\ \A k \in 1 .. j : k < j => m.next[k] = k + 1 /\ m.prev[k + 1] = k
    BY <1>6, <2>1 DEF Ring
  <2>4. w.next[0] = 1 /\ w.prev[0] = j /\ w.next[j] = 0 /\ 1 # NULL /\ 0 # NULL
    BY ONLY <1>4, <2>1, <2>2, <2>3, NodesAre, j \in Nodes
  <2>5. a = [live |-> w.live, next |-> [w.next EXCEPT ![j] = n, ![n] = 0],
             prev |-> [w.prev EXCEPT ![n] = j, ![0] = n], full |-> w.full]
    <3>1. a = List!Insert(w, j, n)
      BY ONLY <1>3, <2>4, NodesAre DEF List!AppendNode
    <3>2. a = [w EXCEPT !.next = [@ EXCEPT ![j] = n, ![n] = 0],
                        !.prev = [@ EXCEPT ![n] = j, ![0] = n]]
      BY ONLY <2>4, <3>1, Zenon DEF List!Insert
    <3> QED BY ONLY <1>3, <3>2
  <2>6. a \in List!Memories
    <3>1. w.live \subseteq Nodes /\ w.full \subseteq Nodes
      BY <1>2, <1>3
    <3>2. [w.next EXCEPT ![j] = n, ![n] = 0] \in [Nodes -> Nodes \cup {NULL}]
      BY <1>1, <1>4
    <3>3. [w.prev EXCEPT ![n] = j, ![0] = n] \in [Nodes -> Nodes \cup {NULL}]
      BY <1>1, <1>4, <2>1
    <3> QED BY ONLY <2>5, <3>1, <3>2, <3>3 DEF List!Memories
  <2>7. Ring(a, 1, n)
    <3>1. a.live = {0} \cup 1 .. n /\ 0 \notin a.full /\ 1 .. n \subseteq a.full
      <4>1. 1 .. n = 1 .. j \cup {n}
        BY <2>2
      <4>2. a.live = m.live \cup {n} /\ a.full = m.full \cup {n}
        BY ONLY <1>3, <2>5
      <4> QED BY ONLY <2>2, <2>3, <4>1, <4>2
    <3>2. /\ a.next[0] = 1 /\ a.prev[0] = n /\ a.next[n] = 0 /\ a.prev[n] = j
          /\ a.next[j] = n
          /\ \A k \in Nodes \ {j, n} : a.next[k] = w.next[k]
          /\ \A k \in Nodes \ {0, n} : a.prev[k] = w.prev[k]
      BY ONLY n \in Nodes, j \in Nodes, <1>1, <1>4, <2>2, <2>4, <2>5
    <3>3. \A k \in 1 .. j : k \in Nodes \ {0, n}
      BY <2>2, NodesAre
    <3>4. \A k \in 1 .. j : a.prev[k] = m.prev[k] /\ (k # j => a.next[k] = m.next[k])
      BY ONLY <1>4, <3>2, <3>3
    <3>5. a.prev[1] = 0
      <4>1. 1 \in 1 .. j
        BY <2>2
      <4> QED BY <2>3, <3>4, <4>1
    <3>6. ASSUME NEW k \in 1 .. n, k < n PROVE a.next[k] = k + 1 /\ a.prev[k + 1] = k
      <4>1. CASE k = j
        BY ONLY <2>2, <3>2, <4>1
      <4>2. CASE k # j
        <5>1. k \in 1 .. j /\ k < j /\ k + 1 \in 1 .. j
          BY <2>2, <3>6, <4>2
        <5> QED BY ONLY <2>3, <3>4, <4>2, <5>1
      <4> QED BY <4>1, <4>2
    <3> QED BY <3>1, <3>2, <3>5, <3>6 DEF Ring
  <2> QED BY <2>6, <2>7
<1> QED BY <1>5, <1>6

(* So the list of a result is its rows in their order. *)
LEMMA BuiltMakesRing ==
  ASSUME mem \in List!Memories, mem.live = {}, NEW n \in Nodes
  PROVE  Built[n] \in List!Memories /\ IF n = 0 THEN Empty(Built[n]) ELSE Ring(Built[n], 1, n)
<1> DEFINE Is(k) == Built[k] \in List!Memories
                    /\ IF k = 0 THEN Empty(Built[k]) ELSE Ring(Built[k], 1, k)
           S == {k \in Nat : k \in Nodes => Is(k)}
<1>1. 0 \in S
  <2>1. Built[0] = List!New(mem, 0, FALSE) /\ 0 \in Nodes
    BY BuiltIs, NodesAre
  <2>2. /\ mem.full \subseteq Nodes
        /\ mem.next \in [Nodes -> Nodes \cup {NULL}] /\ mem.prev \in [Nodes -> Nodes \cup {NULL}]
    BY DEF List!Memories
  <2> DEFINE z == Built[0]
  <2>3. z = [live |-> {0}, next |-> [mem.next EXCEPT ![0] = NULL],
                    prev |-> [mem.prev EXCEPT ![0] = NULL], full |-> mem.full \ {0}]
    BY <2>1 DEF List!New
  <2> HIDE DEF z
  <2>4. z \in List!Memories
    BY <2>1, <2>2, <2>3 DEF List!Memories
  <2>5. Empty(z)
    BY <2>1, <2>2, <2>3 DEF Empty
  <2> QED BY <2>4, <2>5 DEF z
<1>2. ASSUME NEW k \in Nat, k \in S PROVE k + 1 \in S
  <2> SUFFICES ASSUME k + 1 \in Nodes PROVE Is(k + 1)
    OBVIOUS
  <2>1. k \in Nodes /\ k + 1 # 0 /\ (k + 1) - 1 = k /\ (k + 1 = 1 <=> k = 0)
    BY NodesAre
  <2>2. Is(k)
    BY <1>2, <2>1
  <2>3. Built[k + 1] = List!AppendNode(List!New(Built[k], k + 1, TRUE), 0, k + 1)
    BY <2>1, BuiltIs
  <2>4. IF k + 1 = 1 THEN Empty(Built[k]) ELSE Ring(Built[k], 1, (k + 1) - 1)
    BY <2>1, <2>2
  <2>5. Built[k + 1] \in List!Memories /\ Ring(Built[k + 1], 1, k + 1)
    <3> DEFINE j == k + 1
               m == Built[k]
               a == Built[k + 1]
    <3>1. /\ m \in List!Memories /\ j \in Nodes \ {0}
          /\ IF j = 1 THEN Empty(m) ELSE Ring(m, 1, j - 1)
          /\ a = List!AppendNode(List!New(m, j, TRUE), 0, j)
      BY <2>1, <2>2, <2>3, <2>4
    <3> HIDE DEF j, m, a
    <3>2. a \in List!Memories /\ Ring(a, 1, j)
      BY <3>1, AppendMakesRing
    <3> QED BY <3>2 DEF j, a
  <2> QED BY <2>1, <2>5
<1>3. Nat \subseteq S
  <2> HIDE DEF S
  <2> QED BY <1>1, <1>2, NatBySteps
<1> QED BY <1>3, NodesAre

(* list_del() of the first node leaves the others; of the only one, nothing. *)
LEMMA DelLeavesRing ==
  ASSUME NEW m \in List!Memories, NEW b \in Nodes, NEW f \in 1 .. b, Ring(m, f, b),
         NEW d, d = List!Del(m, f)
  PROVE  d \in List!Memories /\ IF f = b THEN Empty(d) ELSE Ring(d, f + 1, b)
<1>1. /\ b \in Nat /\ 0 \in Nodes /\ f \in Nodes /\ f # 0 /\ Nodes \subseteq Nat
      /\ f .. b \subseteq Nodes
  BY NodesAre
<1>2. /\ m.live \subseteq Nodes /\ m.full \subseteq Nodes
      /\ m.next \in [Nodes -> Nodes \cup {NULL}] /\ m.prev \in [Nodes -> Nodes \cup {NULL}]
  BY DEF List!Memories
<1>3. f \in m.full /\ m.prev[f] = 0 /\ 0 \notin m.full
  BY <1>1 DEF Ring
<1>4. CASE f = b
  <2>1. m.next[f] = 0
    BY <1>4 DEF Ring
  <2>2. d = [live |-> m.live \ {f}, next |-> [m.next EXCEPT ![0] = NULL],
             prev |-> [m.prev EXCEPT ![0] = NULL], full |-> m.full]
    BY <1>3, <2>1 DEF List!Del, List!Free, List!Unlink, List!Memories
  <2>3. d \in List!Memories
    BY <1>1, <1>2, <2>2 DEF List!Memories
  <2>4. m.live \ {f} = {0}
    BY <1>1, <1>4 DEF Ring
  <2>5. Empty(d)
    BY <1>1, <1>2, <1>3, <2>2, <2>4 DEF Empty
  <2> QED BY <1>4, <2>3, <2>5
<1>5. CASE f # b
  <2>1. f < b /\ f + 1 \in f .. b /\ f + 1 \in Nodes
    BY <1>1, <1>5
  <2>2. m.next[f] = f + 1 /\ f + 1 \in m.full
    BY <1>1, <2>1 DEF Ring
  <2>3. d = [live |-> m.live \ {f}, next |-> [m.next EXCEPT ![0] = f + 1],
             prev |-> [m.prev EXCEPT ![f + 1] = 0], full |-> m.full]
    BY <1>3, <2>2 DEF List!Del, List!Free, List!Unlink, List!Memories
  <2>4. d \in List!Memories
    BY <1>1, <1>2, <2>1, <2>3 DEF List!Memories
  <2>5. d.live = {0} \cup (f + 1) .. b /\ 0 \notin d.full /\ (f + 1) .. b \subseteq d.full
    BY <1>1, <1>3, <2>1, <2>3 DEF Ring
  <2>6. /\ d.next[0] = f + 1 /\ d.prev[f + 1] = 0
        /\ \A k \in Nodes \ {0} : d.next[k] = m.next[k]
        /\ \A k \in Nodes \ {f + 1} : d.prev[k] = m.prev[k]
    BY <1>1, <1>2, <2>1, <2>3
  <2>7. d.prev[0] = b /\ d.next[b] = 0
    BY <1>1, <2>1, <2>6 DEF Ring
  <2>8. ASSUME NEW k \in (f + 1) .. b, k < b PROVE d.next[k] = k + 1 /\ d.prev[k + 1] = k
    <3>1. k \in f .. b /\ k \in Nodes \ {0} /\ k + 1 \in Nodes \ {f + 1}
      BY <1>1, <2>8
    <3> QED BY <2>6, <2>8, <3>1 DEF Ring
  <2> QED BY <1>5, <2>4, <2>5, <2>6, <2>7, <2>8 DEF Ring
<1> QED BY <1>4, <1>5
-----------------------------------------------------------------------------
(* The arithmetic of an int                                                *)

LEMMA DivIs ==
  ASSUME NEW a \in Int, NEW b \in Nat \ {0}
  PROVE  /\ a \div b \in Int /\ b * (a \div b) <= a /\ a < b * (a \div b) + b
         /\ a = b * (a \div b) + (a % b) /\ a % b \in 0 .. b - 1
OBVIOUS

(* The multiple of b at or below a is the one that leaves less than b. *)
LEMMA DivIsUnique ==
  ASSUME NEW a \in Int, NEW b \in Nat \ {0}, NEW q \in Int, q * b <= a, a < q * b + b
  PROVE  q = a \div b
<1> DEFINE d == a \div b
<1>1. d \in Int /\ b * d <= a /\ a < b * d + b
  BY DivIs
<1> HIDE DEF d
<1>2. ~ (q >= d + 1)
  <2> SUFFICES ASSUME q >= d + 1 PROVE FALSE
    OBVIOUS
  <2>1. q * b >= (d + 1) * b
    BY <1>1
  <2> QED BY <1>1, <2>1
<1>3. ~ (d >= q + 1)
  <2> SUFFICES ASSUME d >= q + 1 PROVE FALSE
    OBVIOUS
  <2>1. d * b >= (q + 1) * b
    BY <1>1
  <2> QED BY <1>1, <2>1
<1> QED BY <1>1, <1>2, <1>3 DEF d

(* What is calculated with ints is an int, what is one stays what it is. *)
LEMMA WrapIs ==
  ASSUME NEW x \in Int
  PROVE  /\ Wrap(x) \in -MaxInt .. MaxInt - 1
         /\ x \in -MaxInt .. MaxInt - 1 => Wrap(x) = x
<1>1. MaxInt \in Nat \ {0}
  BY ProtoAssumption
<1>2. PICK w \in Nat \ {0} : w = 2 * MaxInt
  BY <1>1
<1>3. Wrap(x) = ((x + MaxInt) % w) - MaxInt /\ x + MaxInt \in Int
  BY <1>1, <1>2 DEF Wrap
<1>4. (x + MaxInt) % w \in 0 .. w - 1
  BY <1>2, <1>3, DivIs
<1>5. ASSUME x \in -MaxInt .. MaxInt - 1 PROVE (x + MaxInt) % w = x + MaxInt
  <2>1. 0 = (x + MaxInt) \div w
    BY <1>1, <1>2, <1>3, <1>5, DivIsUnique
  <2>2. x + MaxInt = w * ((x + MaxInt) \div w) + ((x + MaxInt) % w)
    BY <1>2, <1>3, DivIs
  <2> QED BY <1>2, <1>4, <2>1, <2>2
<1> QED BY <1>1, <1>2, <1>3, <1>4, <1>5

LEMMA QuotientIs ==
  ASSUME NEW a \in Nat, NEW b \in Nat \ {0}
  PROVE  Quotient(a, b) = a \div b
BY DEF Quotient

(* When the first two rows differ the division in SetGroup gives an int. *)
LEMMA QuotientFits ==
  ASSUME NEW a \in -MaxInt .. MaxInt - 1, NEW b \in Int \ {0}, a > b
  PROVE  Quotient(a, b) \in -MaxInt .. MaxInt - 1
<1>0. MaxInt \in Nat \ {0}
  BY ProtoAssumption
<1> DEFINE x == IF a < 0 THEN -a ELSE a
           y == IF b < 0 THEN -b ELSE b
           q == x \div y
<1>1. x \in Nat /\ y \in Nat \ {0} /\ (a < 0 => b < 0 /\ x < y) /\ (a >= 0 => x <= MaxInt - 1)
  BY <1>0
<1>2. Quotient(a, b) = IF (a < 0) = (b < 0) THEN q ELSE -q
  BY DEF Quotient
<1> HIDE DEF x, y
<1>3. q \in Int /\ y * q <= x /\ x < y * q + y
  BY <1>1, DivIs
<1> HIDE DEF q
<1>4. q >= 0
  <2> SUFFICES ASSUME q <= -1 PROVE FALSE
    BY <1>3
  <2>1. y * q <= -y
    BY <1>1, <1>3
  <2> QED BY <1>1, <1>3, <2>1
<1>5. q <= x
  <2>1. y * q >= q
    BY <1>1, <1>3, <1>4
  <2> QED BY <1>1, <1>3, <2>1
<1>6. CASE a >= 0
  BY <1>0, <1>1, <1>2, <1>3, <1>4, <1>5, <1>6
<1>7. CASE a < 0
  <2>1. q < 1
    <3> SUFFICES ASSUME q >= 1 PROVE FALSE
      BY <1>3
    <3>1. y * q >= y
      BY <1>1, <1>3
    <3> QED BY <1>1, <1>3, <1>7, <3>1
  <2> QED BY <1>0, <1>2, <1>3, <1>4, <2>1
<1> QED BY <1>6, <1>7
-----------------------------------------------------------------------------
(* The thread in its loop                                                  *)

(* TypeOK as far as it is inductive: that the time of a 103 line is one of  *)
(* the result follows from Sums.                                            *)
Typed ==
  /\ pc \in PC /\ sock \in Socks /\ requests \in 0 .. MaxRequests
  /\ rows \in Seq(Times) /\ res \in Resolutions \cup {0}
  /\ mem \in List!Memories
  /\ skip \in -MaxInt .. MaxInt - 1 /\ skipt \in -MaxInt .. MaxInt - 1 /\ skipCnt \in Nat
  /\ tally \in Int /\ owed \in Int /\ carried \in Int /\ midtime \in Times \cup {0}
  /\ sent \in Seq([time : Times \cup {0}, sum : Int])

(* So many rows are read; the node before the loop's is the last of them,   *)
(* and the only one of them that is still allocated.                        *)
Read == IF t = NULL THEN 0 ELSE t

Reading ==
  IF pc = "row"
  THEN /\ Len(rows) \in Nodes /\ \A j, k \in 1 .. Len(rows) : j # k => rows[j] # rows[k]
       /\ t \in {NULL} \cup 1 .. Len(rows)
       /\ i = IF Read < Len(rows) THEN Read + 1 ELSE IF t = NULL THEN NULL ELSE 0
       /\ unfreed = Read + 1 .. Len(rows)
       /\ IF Len(rows) = 0 THEN Empty(mem)
          ELSE Ring(mem, IF t = NULL THEN 1 ELSE t, Len(rows))
  ELSE /\ mem.live = {} /\ unfreed = {} /\ i = NULL /\ t = NULL
       /\ rows = <<>> /\ sent = <<>>

(* skip and skipt are the zeros of the start or what a fetch calculated,    *)
(* which was this one if its result has two rows.                           *)
GroupIs ==
  Len(rows) > 1 =>
    skip = IF Wrap(res * 60) <= rows[2] - rows[1] THEN 1
           ELSE Quotient(Wrap(res * 60), rows[2] - rows[1])

Grouped ==
  /\ \/ skip = 0 /\ skipt = 0
     \/ skipt = IF skip \in {1, 2} THEN 1 ELSE Quotient(skip, 2) + 1
  /\ pc = "row" => GroupIs

(* A step of none of the three actions of a fetch leaves its state alone. *)
Idle ==
  /\ UNCHANGED <<request, memory, group, sums, history>>
  /\ pc' \in PC /\ (pc' = "row" <=> pc = "row")
  /\ sock' \in Socks /\ requests' \in 0 .. MaxRequests

LEMMA StepsAre ==
  ASSUME Typed, [Next]_vars
  PROVE  Idle \/ Fetch \/ Row \/ EndOfFetch
<1> USE DEF Typed, PC, Socks, Idle
<1>0. MaxRequests \in Nat
  BY ProtoAssumption
<1>1. CASE Accept
  BY <1>1 DEF Accept
<1>2. CASE Other
  BY <1>0, <1>2 DEF Other, Line
<1>3. CASE Quit
  BY <1>0, <1>3 DEF Quit, Line
<1>4. CASE EndOfInput
  BY <1>4 DEF EndOfInput
<1>5. CASE ReadError
  BY <1>5 DEF ReadError
<1>6. CASE Close
  BY <1>6 DEF Close
<1>7. CASE HangUp
  BY <1>7 DEF HangUp
<1>8. CASE UNCHANGED vars
  BY <1>8 DEF vars, request, memory, group, sums, history
<1> QED BY ONLY <1>1, <1>2, <1>3, <1>4, <1>5, <1>6, <1>7, <1>8, [Next]_vars DEF Next, Step

(* A result is a sequence of different times. *)
LEMMA ResultIs ==
  ASSUME NEW S \in SUBSET Times, NEW r \in SetToSeqs(S)
  PROVE  /\ r \in Seq(Times) /\ Len(r) \in Nodes
         /\ \A j, k \in 1 .. Len(r) : j # k => r[j] # r[k]
<1>1. IsFiniteSet(S) /\ Cardinality(S) \in Nat /\ Cardinality(S) <= Cardinality(Times)
  BY ProtoAssumption, FS_Subset, FS_CardinalityType
<1>2. /\ r \in [1 .. Cardinality(S) -> S]
      /\ \A j, k \in 1 .. Cardinality(S) : j # k => r[j] # r[k]
  BY DEF SetToSeqs
<1>3. r \in Seq(Times) /\ Len(r) = Cardinality(S)
  BY <1>1, <1>2
<1> QED BY <1>1, <1>2, <1>3, CountTimes DEF Nodes

(* SetGroup gives ints: two rows of a result have different times. *)
LEMMA GroupFits ==
  ASSUME rows' \in Seq(Times), \A j, k \in 1 .. Len(rows') : j # k => rows'[j] # rows'[k],
         res' \in Resolutions, SetGroup,
         skip \in -MaxInt .. MaxInt - 1, skipt \in -MaxInt .. MaxInt - 1,
         \/ skip = 0 /\ skipt = 0
         \/ skipt = IF skip \in {1, 2} THEN 1 ELSE Quotient(skip, 2) + 1
  PROVE  /\ skip' \in -MaxInt .. MaxInt - 1 /\ skipt' \in -MaxInt .. MaxInt - 1
         /\ \/ skip' = 0 /\ skipt' = 0
            \/ skipt' = IF skip' \in {1, 2} THEN 1 ELSE Quotient(skip', 2) + 1
         /\ GroupIs'
<1>0. MaxInt \in Nat \ {0} /\ Times \subseteq 1 .. MaxInt - 1 /\ Len(rows') \in Nat
  BY ProtoAssumption
<1>1. CASE Len(rows') < 2
  <2>1. skip' = skip /\ skipt' = skipt
    BY <1>1 DEF SetGroup, group
  <2> QED BY <1>0, <1>1, <2>1 DEF GroupIs
<1>2. CASE ~ (Len(rows') < 2)
  <2> DEFINE diff == rows'[2] - rows'[1]
             w == Wrap(res' * 60)
  <2>1. /\ skip' = IF w <= diff THEN 1 ELSE Quotient(w, diff)
        /\ skipt' = IF skip' \in {1, 2} THEN 1 ELSE Quotient(skip', 2) + 1
    BY <1>2 DEF SetGroup
  <2>2. rows'[1] \in 1 .. MaxInt - 1 /\ rows'[2] \in 1 .. MaxInt - 1 /\ rows'[1] # rows'[2]
    <3>1. 1 \in 1 .. Len(rows') /\ 2 \in 1 .. Len(rows')
      BY <1>0, <1>2
    <3>2. rows'[1] \in Times /\ rows'[2] \in Times
      BY <3>1
    <3>3. rows'[1] # rows'[2]
      BY <3>1
    <3> QED BY <1>0, <3>2, <3>3
  <2>3. diff \in Int \ {0} /\ MaxInt >= 3
    BY <1>0, <2>2
  <2>4. w \in -MaxInt .. MaxInt - 1
    <3>1. res' * 60 \in Int
      BY ProtoAssumption
    <3> QED BY <3>1, WrapIs
  <2>5. GroupIs'
    BY <2>1 DEF GroupIs
  <2> HIDE DEF diff, w
  <2>6. skip' \in -MaxInt .. MaxInt - 1
    <3>1. CASE w <= diff
      BY <1>0, <2>1, <2>3, <3>1
    <3>2. CASE ~ (w <= diff)
      <4>1. w > diff
        BY <1>0, <2>3, <2>4, <3>2
      <4>2. Quotient(w, diff) \in -MaxInt .. MaxInt - 1
        BY <2>3, <2>4, <4>1, QuotientFits
      <4> QED BY <2>1, <3>2, <4>2
    <3> QED BY <3>1, <3>2
  <2>7. skipt' \in -MaxInt .. MaxInt - 1
    <3>1. CASE skip' \in {1, 2}
      BY <1>0, <2>1, <2>3, <3>1
    <3>2. CASE skip' \notin {1, 2}
      <4>1. skipt' = Quotient(skip', 2) + 1
        BY <2>1, <3>2
      <4> DEFINE x == IF skip' < 0 THEN -skip' ELSE skip'
                 h == x \div 2
      <4>2. Quotient(skip', 2) = IF skip' < 0 THEN -h ELSE h
        BY <2>6 DEF Quotient
      <4>3. x \in 0 .. MaxInt /\ (skip' >= 0 => x = skip' /\ x <= MaxInt - 1 /\ x \notin {1, 2})
        <5>1. skip' < 0 => x = -skip'
          OBVIOUS
        <5>2. skip' >= 0 => x = skip'
          <6>1. skip' >= 0 => ~ (skip' < 0)
            BY <1>0, <2>6
          <6> QED BY ONLY <6>1
        <5> HIDE DEF x
        <5> QED BY ONLY <1>0, <2>6, <3>2, <5>1, <5>2
      <4> HIDE DEF x
      <4>4. h \in Int /\ 2 * h <= x /\ x < 2 * h + 2
        BY <4>3, DivIs
      <4> HIDE DEF h
      <4> QED BY <1>0, <2>3, <2>6, <4>1, <4>2, <4>3, <4>4
    <3> QED BY <3>1, <3>2
  <2> QED BY <2>1, <2>5, <2>6, <2>7
<1> QED BY <1>1, <1>2
Shaped == Typed /\ Reading /\ Grouped

(* A fetch starts at the first node of the list of its rows. *)
LEMMA FetchStarts ==
  ASSUME Shaped, Fetch
  PROVE  Shaped' /\ pc' = "row" /\ t' = NULL /\ Read' = 0 /\ sent' = <<>>
<1>1. /\ pc = "read" /\ pc' = "row" /\ sock' = sock /\ requests' = requests - 1 /\ requests > 0
      /\ res' \in Resolutions /\ SetGroup /\ mem' = Built[Len(rows')]
      /\ unfreed' = 1 .. Len(rows') /\ i' = mem'.next[0] /\ skipCnt' = 1 /\ carried' = tally
      /\ t' = t /\ tally' = tally /\ midtime' = midtime /\ sent' = sent /\ owed' = owed
  BY DEF Fetch, Line
<1>2. PICK S \in SUBSET Times : rows' \in SetToSeqs(S)
  BY DEF Fetch
<1>3. /\ rows' \in Seq(Times) /\ Len(rows') \in Nodes
      /\ \A j, k \in 1 .. Len(rows') : j # k => rows'[j] # rows'[k]
  BY <1>2, ResultIs
<1>4. t = NULL /\ sent = <<>> /\ mem.live = {} /\ mem \in List!Memories
  BY <1>1 DEF Shaped, Typed, Reading
<1>5. /\ mem' \in List!Memories
      /\ IF Len(rows') = 0 THEN Empty(mem') ELSE Ring(mem', 1, Len(rows'))
  BY <1>1, <1>3, <1>4, BuiltMakesRing
<1>6. /\ skip' \in -MaxInt .. MaxInt - 1 /\ skipt' \in -MaxInt .. MaxInt - 1
      /\ \/ skip' = 0 /\ skipt' = 0
         \/ skipt' = IF skip' \in {1, 2} THEN 1 ELSE Quotient(skip', 2) + 1
      /\ GroupIs'
  BY <1>1, <1>3, GroupFits DEF Shaped, Typed, Grouped
<1>7. Typed'
  <2>1. requests' \in 0 .. MaxRequests
    BY <1>1, ProtoAssumption DEF Shaped, Typed
  <2>2. skipCnt' \in Nat /\ pc' \in PC
    BY <1>1 DEF PC
  <2> QED BY <1>1, <1>3, <1>5, <1>6, <2>1, <2>2 DEF Shaped, Typed
<1>8. Reading'
  <2>1. Read' = 0 /\ t' = NULL
    BY <1>1, <1>4 DEF Read
  <2>2. i' = IF 0 < Len(rows') THEN 1 ELSE NULL
    <3>1. Len(rows') \in Nat
      BY <1>3
    <3>2. CASE Len(rows') = 0
      BY <1>1, <1>5, <3>1, <3>2 DEF Empty
    <3>3. CASE Len(rows') # 0
      BY <1>1, <1>5, <3>1, <3>3 DEF Ring
    <3> QED BY <3>2, <3>3
  <2> QED BY <1>1, <1>3, <1>5, <2>1, <2>2 DEF Reading
<1>9. Grouped'
  BY <1>6 DEF Grouped
<1> QED BY <1>1, <1>4, <1>7, <1>8, <1>9 DEF Shaped, Read

(* A round reads the row of the node i and goes on to the next one. *)
LEMMA RowReadsNext ==
  ASSUME Shaped, Row
  PROVE  /\ Shaped' /\ pc = "row" /\ pc' = "row"
         /\ rows \in Seq(Times) /\ Len(rows) \in Nodes /\ Len(rows) \in Nat
         /\ i \in 1 .. Len(rows) /\ i = Read + 1 /\ Read \in Nat /\ Read' = i /\ t' = i
         /\ rows[i] \in Times /\ Value[rows[i]] \in Int
<1>1. /\ pc = "row" /\ ~AtEnd /\ UNCHANGED <<pc, sock, requests, rows, res, skip, skipt, carried>>
      /\ midtime' = (IF skipCnt = skipt THEN rows[i] ELSE midtime)
      /\ Sum(tally + Value[rows[i]])
  BY DEF Row, request, group
<1>2. /\ unfreed' = unfreed \ {i} /\ t' = i /\ i' = mem'.next[i]
      /\ mem' = IF t = NULL THEN mem ELSE List!Del(mem, mem.prev[i])
  BY DEF Row, CleanNode
<1>3. PICK n \in Nodes : n = Len(rows)
  BY <1>1 DEF Shaped, Reading
<1>4. /\ t \in {NULL} \cup 1 .. n /\ i = (IF Read < n THEN Read + 1 ELSE IF t = NULL THEN NULL ELSE 0)
      /\ unfreed = Read + 1 .. n
      /\ IF n = 0 THEN Empty(mem) ELSE Ring(mem, IF t = NULL THEN 1 ELSE t, n)
      /\ mem \in List!Memories /\ rows \in Seq(Times)
  BY <1>1, <1>3 DEF Shaped, Reading, Typed
<1>5. n \in Nat /\ Read \in Nat /\ i \notin {NULL, 0} /\ NULL = -1
  BY <1>1, <1>3, <1>4, NodesAre DEF Read, AtEnd
<1>6. i = Read + 1 /\ Read < n /\ i \in 1 .. n /\ i \in Nat /\ i # NULL
  BY ONLY <1>4, <1>5
<1>7. rows[i] \in Times /\ Value[rows[i]] \in Int
  <2>1. rows[i] \in Times
    BY ONLY <1>3, <1>4, <1>6
  <2> QED BY <2>1, ProtoAssumption
<1>8. mem' \in List!Memories /\ Ring(mem', i, n)
  <2>1. CASE t = NULL
    <3>1. Read = 0 /\ i = 1
      BY <1>6, <2>1 DEF Read
    <3>2. n # 0 /\ mem' = mem
      BY <1>2, <1>5, <1>6, <2>1
    <3> QED BY <1>4, <2>1, <3>1, <3>2
  <2>2. CASE t # NULL
    <3>1. Read = t /\ t \in 1 .. n /\ t < n /\ i = t + 1 /\ n # 0 /\ t \in t .. n
      BY <1>4, <1>5, <1>6, <2>2 DEF Read
    <3>2. Ring(mem, t, n)
      BY <1>4, <2>2, <3>1
    <3>3. mem.prev[i] = t
      BY ONLY <3>1, <3>2 DEF Ring
    <3>4. mem' = List!Del(mem, t)
      BY <1>2, <2>2, <3>3
    <3>5. mem' \in List!Memories /\ IF t = n THEN Empty(mem') ELSE Ring(mem', t + 1, n)
      BY ONLY <1>4, <3>1, <3>2, <3>4, n \in Nodes, DelLeavesRing
    <3> QED BY ONLY <1>5, <3>1, <3>5
  <2> QED BY <2>1, <2>2
<1>9. i' = IF i < n THEN i + 1 ELSE 0
  <2>1. CASE i = n
    BY ONLY <1>2, <1>5, <1>6, <1>8, <2>1 DEF Ring
  <2>2. CASE i # n
    <3>1. i < n /\ i \in i .. n
      BY <1>5, <1>6, <2>2
    <3> QED BY ONLY <1>2, <1>8, <3>1 DEF Ring
  <2> QED BY <2>1, <2>2
<1>10. Read' = i
  BY <1>2, <1>6 DEF Read
<1>11. Reading'
  <2>1. unfreed' = i + 1 .. n
    BY ONLY <1>2, <1>4, <1>5, <1>6
  <2>2. rows' = rows /\ Len(rows') = n /\ pc' = "row"
    BY <1>1, <1>3
  <2>3. \A j, k \in 1 .. n : j # k => rows[j] # rows[k]
    BY <1>1, <1>3 DEF Shaped, Reading
  <2>4. t' \in {NULL} \cup 1 .. n /\ t' # NULL /\ n # 0
    BY ONLY <1>2, <1>5, <1>6
  <2> QED BY ONLY <1>2, <1>8, <1>9, <1>10, <2>1, <2>2, <2>3, <2>4, n \in Nodes DEF Reading
<1>12. Typed'
  <2> USE DEF Typed
  <2>1. midtime' \in Times \cup {0}
    BY <1>1, <1>7 DEF Shaped
  <2>2. tally + Value[rows[i]] \in Int /\ owed + Value[rows[i]] \in Int
        /\ owed + Value[rows[i]] - (tally + Value[rows[i]]) \in Int
    <3>1. PICK v \in Int : v = Value[rows[i]]
      BY <1>7
    <3>2. tally \in Int /\ owed \in Int
      BY DEF Shaped
    <3> QED BY ONLY <3>1, <3>2
  <2>3. skipCnt' \in Nat /\ tally' \in Int /\ owed' \in Int
    BY <1>1, <2>2 DEF Sum, Shaped
  <2>4. sent' \in Seq([time : Times \cup {0}, sum : Int])
    <3>1. CASE skipCnt = skip
      <4>1. sent' = Append(sent, [time |-> midtime', sum |-> tally + Value[rows[i]]])
        BY <1>1, <3>1 DEF Sum
      <4> QED BY <2>1, <2>2, <4>1 DEF Shaped
    <3>2. CASE skipCnt # skip
      BY <1>1, <3>2 DEF Sum, Shaped
    <3> QED BY <3>1, <3>2
  <2> QED BY <1>1, <1>8, <2>1, <2>3, <2>4 DEF Shaped
<1>13. Grouped'
  BY <1>1 DEF Shaped, Grouped, GroupIs
<1> QED BY <1>1, <1>2, <1>3, <1>4, <1>5, <1>6, <1>7, <1>10, <1>11, <1>12, <1>13 DEF Shaped

(* At the end of the loop all rows are read; the last node is freed and the *)
(* list with it.                                                            *)
LEMMA AllRead ==
  ASSUME Shaped, AtEnd
  PROVE  Len(rows) \in Nat /\ Read = Len(rows) /\ t = IF Len(rows) = 0 THEN NULL ELSE Len(rows)
<1>1. /\ pc = "row" /\ i \in {NULL, 0}
  BY DEF AtEnd
<1>2. /\ Len(rows) \in Nat /\ t \in {NULL} \cup 1 .. Len(rows)
      /\ i = IF Read < Len(rows) THEN Read + 1 ELSE IF t = NULL THEN NULL ELSE 0
  BY <1>1, NodesAre DEF Shaped, Reading
<1> QED BY <1>1, <1>2, NodesAre DEF Read

LEMMA EndFrees ==
  ASSUME Shaped, EndOfFetch
  PROVE  Shaped' /\ pc = "row" /\ pc' = "read" /\ sent' = <<>>
<1>1. /\ AtEnd /\ pc = "row" /\ pc' = "read" /\ i' = NULL /\ t' = NULL
      /\ rows' = <<>> /\ res' = 0 /\ sent' = <<>> /\ carried' = 0
      /\ UNCHANGED <<sock, requests, unfreed, skip, skipt, skipCnt, tally, midtime, owed>>
      /\ mem' = List!Free(IF t = NULL THEN mem ELSE List!Del(mem, t), 0)
  BY DEF EndOfFetch, AtEnd, group, sums
<1>2. PICK n \in Nodes : n = Len(rows)
  BY <1>1 DEF Shaped, Reading
<1>3. n \in Nat /\ Read = n /\ t = IF n = 0 THEN NULL ELSE n
  BY <1>1, <1>2, AllRead
<1>4. /\ IF n = 0 THEN Empty(mem) ELSE Ring(mem, IF t = NULL THEN 1 ELSE t, n)
      /\ unfreed = Read + 1 .. n /\ mem \in List!Memories
  BY <1>1, <1>2 DEF Shaped, Reading, Typed
<1> DEFINE d == IF t = NULL THEN mem ELSE List!Del(mem, t)
<1>5. d \in List!Memories /\ Empty(d)
  <2>1. CASE n = 0
    BY <1>3, <1>4, <2>1
  <2>2. CASE n # 0
    <3>1. t = n /\ t \in 1 .. n /\ t # NULL
      BY <1>3, <2>2, NodesAre
    <3>2. Ring(mem, n, n)
      BY ONLY <1>4, <2>2, <3>1
    <3> HIDE DEF d
    <3>3. d = List!Del(mem, n)
      BY ONLY <3>1 DEF d
    <3> QED BY ONLY <1>4, <3>1, <3>2, <3>3, n \in Nodes, DelLeavesRing
  <2> QED BY <2>1, <2>2
<1>6. mem' = List!Free(d, 0)
  BY <1>1
<1> HIDE DEF d
<1>7. mem' \in List!Memories /\ mem'.live = {}
  BY <1>5, <1>6 DEF List!Free, List!Memories, Empty
<1>8. unfreed' = {}
  BY <1>1, <1>3, <1>4
<1>9. Typed'
  BY <1>1, <1>7 DEF Shaped, Typed, PC
<1>10. Reading'
  BY <1>1, <1>7, <1>8 DEF Reading
<1>11. Grouped'
  BY <1>1 DEF Shaped, Grouped
<1> QED BY <1>1, <1>9, <1>10, <1>11 DEF Shaped

(* The thread is always in a proper place of the list, and its variables    *)
(* have their types.                                                        *)
THEOREM ProtoShaped == Spec => []Shaped
<1>1. Init => Shaped
  <2> SUFFICES ASSUME Init PROVE Shaped
    OBVIOUS
  <2>1. MaxInt \in Nat \ {0} /\ MaxRequests \in Nat
    BY ProtoAssumption
  <2>2. List!NoMemory \in List!Memories /\ List!NoMemory.live = {}
    BY DEF List!NoMemory, List!Memories, List!Cleared
  <2>3. Typed
    BY <2>1, <2>2 DEF Init, Typed, PC, Socks
  <2>4. Reading /\ Grouped
    BY <2>2 DEF Init, Reading, Grouped
  <2> QED BY <2>3, <2>4 DEF Shaped
<1>2. Shaped /\ [Next]_vars => Shaped'
  <2> SUFFICES ASSUME Shaped, [Next]_vars PROVE Shaped'
    OBVIOUS
  <2>1. Idle \/ Fetch \/ Row \/ EndOfFetch
    BY StepsAre DEF Shaped
  <2>2. CASE Idle
    <3>1. UNCHANGED <<rows, res, mem, unfreed, i, t, skip, skipt, skipCnt, tally, midtime,
                      sent, carried, owed>>
      BY <2>2 DEF Idle, request, memory, group, sums, history
    <3>2. Typed'
      BY <2>2, <3>1 DEF Idle, Shaped, Typed
    <3>3. Reading' /\ Grouped'
      BY <2>2, <3>1 DEF Idle, Shaped, Reading, Grouped, GroupIs, Read
    <3> QED BY <3>2, <3>3 DEF Shaped
  <2> QED BY <2>1, <2>2, FetchStarts, RowReadsNext, EndFrees
<1> QED BY <1>1, <1>2, PTL DEF Spec
-----------------------------------------------------------------------------
(* The sums                                                                *)

LEMMA TotalIsNext ==
  (\A k \in Nodes : Total[k] = IF k = 0 THEN 0 ELSE Total[k - 1] + Value[rows[k]])'
BY TotalIs, PTL

LEMMA TotalStays ==
  ASSUME rows' = rows
  PROVE  Total' = Total
BY DEF Total

(* The sum of some rows of the result is a number. *)
LEMMA TotalFits ==
  ASSUME rows \in Seq(Times), Len(rows) \in Nodes
  PROVE  \A k \in 0 .. Len(rows) : Total[k] \in Int
<1> DEFINE S == {k \in Nat : k <= Len(rows) => Total[k] \in Int}
<1>0. 0 \in Nodes /\ Len(rows) \in Nat /\ \A k \in 0 .. Len(rows) : k \in Nodes
  BY NodesAre
<1>1. 0 \in S
  BY <1>0, TotalIs
<1>2. ASSUME NEW k \in Nat, k \in S PROVE k + 1 \in S
  <2> SUFFICES ASSUME k + 1 <= Len(rows) PROVE Total[k + 1] \in Int
    OBVIOUS
  <2>1. Total[k] \in Int /\ k + 1 \in 1 .. Len(rows) /\ k + 1 \in Nodes /\ k + 1 # 0
    BY <1>0, <1>2
  <2>2. rows[k + 1] \in Times
    BY <2>1
  <2>3. Value[rows[k + 1]] \in Int
    BY <2>2, ProtoAssumption
  <2>4. Total[k + 1] = Total[(k + 1) - 1] + Value[rows[k + 1]] /\ (k + 1) - 1 = k
    BY <2>1, TotalIs
  <2> QED BY <2>1, <2>3, <2>4
<1>3. Nat \subseteq S
  <2> HIDE DEF S
  <2> QED BY <1>1, <1>2, NatBySteps
<1> QED BY <1>0, <1>3

LEMMA TimesKeepsOrder ==
  ASSUME NEW a \in Int, NEW b \in Int, a <= b, NEW c \in Nat
  PROVE  a * c \in Int /\ b * c \in Int /\ a * c <= b * c
OBVIOUS

(* The row whose time is sent is in the middle of its group. *)
LEMMA MiddleIs ==
  Shaped /\ skip >= 1 =>
    skip \in Nat \ {0} /\ skipt \in 1 .. skip /\ 2 * skipt - skip \in 0 .. 2
<1> SUFFICES ASSUME Shaped, skip >= 1
    PROVE  skip \in Nat \ {0} /\ skipt \in 1 .. skip /\ 2 * skipt - skip \in 0 .. 2
  OBVIOUS
<1>1. MaxInt \in Nat /\ skip \in Int /\ skip >= 1
  BY ProtoAssumption DEF Shaped, Typed
<1>2. skipt = IF skip \in {1, 2} THEN 1 ELSE Quotient(skip, 2) + 1
  BY <1>1 DEF Shaped, Grouped
<1>3. CASE skip \in {1, 2}
  BY <1>1, <1>2, <1>3
<1>4. CASE skip \notin {1, 2}
  <2>1. skip \in Nat /\ skip >= 3
    BY <1>1, <1>4
  <2>2. skipt = skip \div 2 + 1
    BY <1>2, <1>4, <2>1, QuotientIs
  <2>3. skip \div 2 \in Int /\ 2 * (skip \div 2) <= skip /\ skip < 2 * (skip \div 2) + 2
    BY <2>1, DivIs
  <2> QED BY <2>1, <2>2, <2>3
<1> QED BY <1>3, <1>4

LEMMA MiddleIsNext ==
  (Shaped /\ skip >= 1 =>
     skip \in Nat \ {0} /\ skipt \in 1 .. skip /\ 2 * skipt - skip \in 0 .. 2)'
BY MiddleIs, PTL

(* What is sent so far are the complete groups of the rows read so far,     *)
(* tally is the sum of the group that is read, and midtime the time of its  *)
(* middle if that was reached.                                              *)
Sums ==
  pc = "row" =>
    IF skip < 1 THEN sent = <<>> /\ skipCnt = Read + 1
    ELSE /\ skipCnt \in 1 .. skip
         /\ Len(sent) * skip + skipCnt = Read + 1
         /\ tally = Total[Read] - Total[Len(sent) * skip]
                    + (IF Len(sent) = 0 THEN carried ELSE 0)
         /\ skipCnt > skipt => midtime = rows[Len(sent) * skip + skipt]
         /\ \A k \in 1 .. Len(sent) :
              /\ sent[k].sum = Total[k * skip] - Total[(k - 1) * skip]
                               + (IF k = 1 THEN carried ELSE 0)
              /\ sent[k].time = rows[(k - 1) * skip + skipt]

LEMMA FetchSums ==
  ASSUME Shaped, Fetch
  PROVE  Sums'
<1>1. Shaped' /\ pc' = "row" /\ t' = NULL /\ Read' = 0 /\ sent' = <<>>
  BY FetchStarts
<1>2. skipCnt' = 1 /\ carried' = tally /\ tally' = tally /\ tally \in Int
  BY DEF Fetch, Shaped, Typed
<1>3. Total'[0] = 0
  BY TotalIsNext, NodesAre
<1>4. skip' \in Int
  BY <1>1, ProtoAssumption DEF Shaped, Typed
<1>5. CASE skip' < 1
  BY <1>1, <1>2, <1>5 DEF Sums
<1>6. CASE ~ (skip' < 1)
  <2>1. skip' >= 1 /\ 0 * skip' = 0 /\ 1 \in 1 .. skip'
    <3>1. PICK x \in Int : x = skip'
      BY <1>4
    <3>2. ~ (x < 1)
      BY <1>6, <3>1
    <3>3. x >= 1
      BY ONLY <3>2, x \in Int
    <3>4. 0 * x = 0
      OBVIOUS
    <3>5. 1 \in 1 .. x
      BY <3>3
    <3> QED BY <3>1, <3>3, <3>4, <3>5
  <2>2. Len(sent') = 0
    BY <1>1
  <2>3. skipt' >= 1 /\ skipt' \in Int
    BY <1>1, <1>4, <2>1, MiddleIsNext
  <2>4. tally' = Total'[0] - Total'[0] + carried' /\ ~ (1 > skipt')
    BY <1>2, <1>3, <2>3
  <2> QED BY ONLY <1>1, <1>2, <1>6, <2>1, <2>2, <2>4 DEF Sums
<1> QED BY <1>5, <1>6
LEMMA RowSums ==
  ASSUME Shaped, Sums, Row
  PROVE  Sums'
<1>1. /\ pc = "row" /\ pc' = "row"
      /\ rows \in Seq(Times) /\ Len(rows) \in Nodes /\ Len(rows) \in Nat
      /\ i \in 1 .. Len(rows) /\ i = Read + 1 /\ Read \in Nat /\ Read' = i
      /\ rows[i] \in Times /\ Value[rows[i]] \in Int
  BY RowReadsNext
<1>2. /\ UNCHANGED <<rows, skip, skipt, carried>>
      /\ midtime' = (IF skipCnt = skipt THEN rows[i] ELSE midtime)
      /\ Sum(tally + Value[rows[i]])
  BY DEF Row, request, group
<1>3. /\ skip \in Int /\ skipCnt \in Nat /\ tally \in Int /\ carried \in Int
      /\ sent \in Seq([time : Times \cup {0}, sum : Int]) /\ Len(sent) \in Nat
  BY ProtoAssumption DEF Shaped, Typed
<1>4. CASE skip < 1
  <2>1. sent = <<>> /\ skipCnt = Read + 1
    BY <1>1, <1>4 DEF Sums
  <2>2. skipCnt # skip
    BY ONLY <1>1, <1>3, <1>4, <2>1
  <2>3. sent' = sent /\ skipCnt' = skipCnt + 1
    BY <1>2, <2>2 DEF Sum
  <2> QED BY <1>1, <1>2, <1>4, <2>1, <2>3 DEF Sums
<1>5. CASE ~ (skip < 1)
  <2> DEFINE g == Len(sent)
             v == Value[rows[i]]
             c == IF g = 0 THEN carried ELSE 0
             at(k) == (k - 1) * skip
  <2>0. skip \in Nat \ {0} /\ skipt \in 1 .. skip
    BY <1>3, <1>5, MiddleIs
  <2>1. /\ skipCnt \in 1 .. skip /\ g * skip + skipCnt = i
        /\ tally = Total[Read] - Total[g * skip] + c
        /\ skipCnt > skipt => midtime = rows[g * skip + skipt]
        /\ \A k \in 1 .. g :
             /\ sent[k].sum = Total[k * skip] - Total[at(k)] + (IF k = 1 THEN carried ELSE 0)
             /\ sent[k].time = rows[at(k) + skipt]
    BY <1>1, <1>5 DEF Sums
  <2>2. Total' = Total
    BY <1>2, TotalStays
  <2>3. g \in Nat /\ g * skip \in Nat /\ (g + 1) * skip = g * skip + skip /\ at(g + 1) = g * skip
    <3>1. g \in Nat
      BY <1>3
    <3> HIDE DEF g
    <3> QED BY <2>0, <3>1
  <2>4. /\ Total[Read] \in Int /\ Total[i] = Total[Read] + v /\ Total[i] \in Int
        /\ Total[g * skip] \in Int
    <3>1. /\ Read \in 0 .. Len(rows) /\ i \in 0 .. Len(rows) /\ i # 0 /\ i - 1 = Read
          /\ i \in Nodes
      BY <1>1, NodesAre
    <3>2. g * skip \in 0 .. Len(rows)
      <4> HIDE DEF g
      <4> QED BY <1>1, <2>1, <2>3, <2>0
    <3> QED BY <1>1, <3>1, <3>2, TotalFits, TotalIs
  <2>5. skipCnt >= skipt => midtime' = rows[g * skip + skipt]
    <3>1. CASE skipCnt = skipt
      BY <1>2, <2>1, <3>1
    <3>2. CASE skipCnt # skipt
      BY <1>2, <2>0, <2>1, <3>2
    <3> QED BY <3>1, <3>2
  <2>6. CASE skipCnt = skip
    <3>1. /\ sent' = Append(sent, [time |-> midtime', sum |-> tally + v])
          /\ skipCnt' = 1 /\ tally' = 0
      BY <1>2, <2>6 DEF Sum
    <3>2. /\ Len(sent') = g + 1 /\ \A k \in 1 .. g : sent'[k] = sent[k]
          /\ sent'[g + 1] = [time |-> midtime', sum |-> tally + v]
      BY <1>3, <3>1
    <3> HIDE DEF g, v, c
    <3>3. (g + 1) * skip = i /\ (g + 1) * skip + 1 = i + 1 /\ Len(sent') # 0 /\ 1 \in 1 .. skip
      BY <1>1, <2>0, <2>1, <2>3, <2>6, <3>2
    <3>4. tally' = Total[i] - Total[(g + 1) * skip] + 0
      BY <2>4, <3>1, <3>3
    <3>5. ~ (skipCnt' > skipt)
      BY <2>0, <3>1
    <3>6. ASSUME NEW k \in 1 .. g + 1
          PROVE  /\ sent'[k].sum = Total[k * skip] - Total[at(k)] + (IF k = 1 THEN carried ELSE 0)
                 /\ sent'[k].time = rows[at(k) + skipt]
      <4>1. CASE k = g + 1
        <5>1. midtime' = rows[at(k) + skipt]
          BY <2>0, <2>3, <2>5, <2>6, <4>1
        <5>2. c = IF k = 1 THEN carried ELSE 0
          BY <2>3, <4>1 DEF c
        <5>3. c \in Int
          BY <1>3 DEF c
        <5>4. v \in Int
          BY <1>1 DEF v
        <5>5. tally + v = Total[i] - Total[g * skip] + c
          BY ONLY <2>1, <2>4, <5>3, <5>4
        <5>6. tally + v = Total[k * skip] - Total[at(k)] + c
          BY ONLY <2>3, <3>3, <4>1, <5>5
        <5> HIDE DEF at
        <5> QED BY ONLY <3>2, <4>1, <5>1, <5>2, <5>6
      <4>2. CASE k # g + 1
        <5>1. k \in 1 .. g
          BY <2>3, <4>2
        <5> QED BY <2>1, <3>2, <5>1
      <4> QED BY <4>1, <4>2
    <3> QED BY ONLY <1>1, <1>2, <1>5, <2>2, <3>1, <3>2, <3>3, <3>4, <3>5, <3>6 DEF Sums, at
  <2>7. CASE skipCnt # skip
    <3>1. sent' = sent /\ skipCnt' = skipCnt + 1 /\ tally' = tally + v
      BY <1>2, <2>7 DEF Sum
    <3>2. Len(sent') = g
      BY <3>1
    <3>3. v \in Int /\ c \in Int
      BY <1>1, <1>3
    <3>4. c = IF Len(sent') = 0 THEN carried' ELSE 0
      BY <1>2, <3>2
    <3>5. \A k \in 1 .. Len(sent') :
            /\ sent'[k].sum = Total'[k * skip'] - Total'[(k - 1) * skip']
                              + (IF k = 1 THEN carried' ELSE 0)
            /\ sent'[k].time = rows'[(k - 1) * skip' + skipt']
      BY <1>2, <2>1, <2>2, <3>1
    <3> HIDE DEF g, v, c
    <3>6. skipCnt' \in 1 .. skip /\ g * skip + skipCnt' = i + 1
      BY <1>1, <2>0, <2>1, <2>3, <2>7, <3>1
    <3>7. tally' = Total[i] - Total[g * skip] + c
      BY ONLY <2>1, <2>4, <3>1, <3>3
    <3>8. skipCnt' > skipt => midtime' = rows[g * skip + skipt]
      BY <1>3, <2>0, <2>5, <3>1
    <3> QED BY ONLY <1>1, <1>2, <1>5, <2>2, <3>2, <3>4, <3>5, <3>6, <3>7, <3>8 DEF Sums
  <2> QED BY <2>6, <2>7
<1> QED BY <1>4, <1>5

(* The lines sent and the sum kept are always what was read, in groups. *)
THEOREM ProtoSums == Spec => []Sums
<1>1. Init => Sums
  BY DEF Init, Sums
<1>2. Shaped /\ Sums /\ [Next]_vars => Sums'
  <2> SUFFICES ASSUME Shaped, Sums, [Next]_vars PROVE Sums'
    OBVIOUS
  <2>1. Idle \/ Fetch \/ Row \/ EndOfFetch
    BY StepsAre DEF Shaped
  <2>2. CASE Idle
    <3>1. /\ UNCHANGED <<rows, t, skip, skipt, skipCnt, tally, midtime, sent, carried>>
          /\ (pc' = "row" <=> pc = "row")
      BY <2>2 DEF Idle, request, memory, group, sums, history
    <3>2. Total' = Total
      BY <3>1, TotalStays
    <3> QED BY <3>1, <3>2 DEF Sums, Read
  <2>3. CASE EndOfFetch
    BY <2>3 DEF EndOfFetch, Sums
  <2> QED BY <2>1, <2>2, <2>3, FetchSums, RowSums
<1> QED BY <1>1, <1>2, ProtoShaped, PTL DEF Spec
-----------------------------------------------------------------------------
(* The properties                                                          *)

LEMMA ElementsAre ==
  ASSUME NEW X, NEW s \in Seq(X), NEW k \in 1 .. Len(s)
  PROVE  s[k] \in X
OBVIOUS

LEMMA ElementsMake ==
  ASSUME NEW X, NEW Y, NEW s \in Seq(Y), \A k \in 1 .. Len(s) : s[k] \in X
  PROVE  s \in Seq(X)
<1>1. Len(s) \in Nat /\ s \in [1 .. Len(s) -> X]
  OBVIOUS
<1> QED BY <1>1

(* TypeOK: all variables of client_thread() have their types, also skip and *)
(* skipt, which come from a division, and the time of each line sent is     *)
(* that of a row.                                                           *)
THEOREM ProtoTypeCorrect == Spec => []TypeOK
<1>1. Shaped /\ Sums => TypeOK
  <2> SUFFICES ASSUME Shaped, Sums PROVE TypeOK
    OBVIOUS
  <2>1. Typed /\ Reading
    BY DEF Shaped
  <2>2. unfreed \subseteq Nodes /\ {i, t} \subseteq Nodes \cup {NULL}
    <3>1. CASE pc = "row"
      <4>1. /\ Len(rows) \in Nodes /\ t \in {NULL} \cup 1 .. Len(rows)
            /\ i = IF Read < Len(rows) THEN Read + 1 ELSE IF t = NULL THEN NULL ELSE 0
            /\ unfreed = Read + 1 .. Len(rows)
        BY <2>1, <3>1 DEF Reading
      <4>2. /\ Len(rows) \in Nat /\ 0 .. Len(rows) \subseteq Nodes /\ 0 \in Nodes
        BY <4>1, NodesAre
      <4>3. Read \in 0 .. Len(rows)
        BY <4>1, <4>2 DEF Read
      <4>4. t \in Nodes \cup {NULL}
        BY <4>1, <4>2
      <4>5. i \in 0 .. Len(rows) \cup {NULL}
        BY <4>1, <4>2, <4>3
      <4>6. unfreed \subseteq 0 .. Len(rows)
        BY <4>1, <4>2, <4>3
      <4> QED BY ONLY <4>2, <4>4, <4>5, <4>6
    <3>2. CASE pc # "row"
      BY <2>1, <3>2 DEF Reading
    <3> QED BY <3>1, <3>2
  <2>3. sent \in Seq([time : Times, sum : Int])
    <3>1. CASE pc = "row" /\ ~ (skip < 1)
      <4>1. skip \in Int /\ Len(sent) \in Nat /\ rows \in Seq(Times) /\ Len(rows) \in Nat
        BY <2>1, ProtoAssumption DEF Typed
      <4>2. skip \in Nat \ {0} /\ skipt \in 1 .. skip
        BY <3>1, <4>1, MiddleIs
      <4>3. Read \in 0 .. Len(rows)
        BY <2>1, <3>1, <4>1 DEF Reading, Read
      <4>4. /\ skipCnt \in 1 .. skip /\ Len(sent) * skip + skipCnt = Read + 1
            /\ \A k \in 1 .. Len(sent) : sent[k].time = rows[(k - 1) * skip + skipt]
        BY <3>1 DEF Sums
      <4>5. ASSUME NEW k \in 1 .. Len(sent) PROVE sent[k] \in [time : Times, sum : Int]
        <5>1. sent[k] \in [time : Times \cup {0}, sum : Int]
          <6>1. sent \in Seq([time : Times \cup {0}, sum : Int])
            BY <2>1 DEF Typed
          <6> QED BY ONLY <6>1, k \in 1 .. Len(sent), ElementsAre
        <5>2. (k - 1) * skip + skipt \in 1 .. Len(rows)
          <6> DEFINE g == Len(sent)
          <6>1. g \in Nat /\ k \in 1 .. g /\ g * skip + skipCnt = Read + 1
            BY <4>1, <4>4
          <6> HIDE DEF g
          <6>2. (k - 1) * skip \in Int /\ (k - 1) * skip + skip = k * skip
            BY <4>2, <6>1
          <6>3. (k - 1) * skip >= 0 /\ k * skip <= g * skip
            BY <4>2, <6>1, TimesKeepsOrder
          <6>4. g * skip \in Int /\ g * skip <= Len(rows)
            BY <4>1, <4>2, <4>3, <4>4, <6>1
          <6> QED BY <4>1, <4>2, <6>2, <6>3, <6>4
        <5>3. sent[k].time \in Times
          <6>1. \A x \in 1 .. Len(rows) : rows[x] \in Times
            BY <4>1
          <6> QED BY <4>4, <5>2, <6>1
        <5> QED BY <5>1, <5>3
      <4>6. sent \in Seq([time : Times \cup {0}, sum : Int])
        BY <2>1 DEF Typed
      <4> QED BY ONLY <4>5, <4>6, ElementsMake
    <3>2. CASE ~ (pc = "row" /\ ~ (skip < 1))
      <4>1. sent = <<>>
        <5>1. CASE pc = "row"
          BY <3>2, <5>1 DEF Sums
        <5>2. CASE pc # "row"
          BY <2>1, <5>2 DEF Reading
        <5> QED BY <5>1, <5>2
      <4> QED BY <4>1
    <3> QED BY <3>1, <3>2
  <2> QED BY <2>1, <2>2, <2>3 DEF Typed, TypeOK
<1> QED BY <1>1, ProtoShaped, ProtoSums, PTL

(* A list of the nodes from a to b is one in the sense of NvList. *)
LEMMA RingIsList ==
  ASSUME NEW m, NEW a \in Nat \ {0}, NEW b \in Nat, a <= b, Ring(m, a, b),
         NEW left, left = [k \in 1 .. b - a + 1 |-> a + k - 1]
  PROVE  List!IsList(m, 0, left)
<1> DEFINE ring == <<0>> \o left
           n == Len(ring)
           After(k) == ring[IF k = n THEN 1 ELSE k + 1]
<1>1. PICK l \in Nat : l = b - a + 1
  OBVIOUS
<1>2. left \in Seq(Nat) /\ Len(left) = l /\ l >= 1
  BY <1>1
<1>3. /\ n = l + 1 /\ ring[1] = 0 /\ \A k \in 2 .. n : ring[k] = a + k - 2
      /\ left # <<>>
  <2>1. n = l + 1 /\ ring[1] = 0 /\ \A k \in 2 .. l + 1 : ring[k] = left[k - 1]
    BY <1>2
  <2>2. \A k \in 2 .. l + 1 : left[k - 1] = a + k - 2
    BY <1>1
  <2>3. left # <<>>
    BY <1>2
  <2> QED BY <2>1, <2>2, <2>3
<1> HIDE DEF ring, n
<1>4. /\ m.live = {0} \cup a .. b /\ 0 \notin m.full /\ a .. b \subseteq m.full
      /\ m.next[0] = a /\ m.prev[0] = b /\ m.next[b] = 0 /\ m.prev[a] = 0
      /\ \A k \in a .. b : k < b => m.next[k] = k + 1 /\ m.prev[k + 1] = k
  BY DEF Ring
<1>5. ASSUME NEW k \in 1 .. n
      PROVE  /\ ring[k] \in m.live /\ (ring[k] \in m.full <=> k # 1)
             /\ m.next[ring[k]] = After(k) /\ m.prev[After(k)] = ring[k]
  <2>1. CASE k = 1
    <3>1. k # n /\ k + 1 = 2 /\ ring[2] = a
      BY <1>2, <1>3, <2>1
    <3>2. After(k) = a
      BY <2>1, <3>1
    <3> QED BY ONLY <1>3, <1>4, <2>1, <3>2
  <2>2. CASE k # 1 /\ k = n
    <3>1. ring[k] = b /\ After(k) = 0 /\ b \in a .. b
      BY <1>1, <1>2, <1>3, <2>2
    <3> QED BY ONLY <1>4, <2>2, <3>1
  <2>3. CASE k # 1 /\ k # n
    <3>1. PICK x \in a .. b : x = a + k - 2 /\ x < b
      BY <1>1, <1>2, <1>3, <2>3
    <3>2. ring[k] = x /\ After(k) = x + 1
      BY <1>2, <1>3, <2>3, <3>1
    <3>3. m.next[x] = x + 1 /\ m.prev[x + 1] = x /\ x \in m.live /\ x \in m.full
      BY <1>4, <3>1
    <3> HIDE DEF After
    <3> QED BY ONLY <2>3, <3>2, <3>3
  <2> QED BY <2>1, <2>2, <2>3
<1> QED BY <1>3, <1>5 DEF List!IsList, ring, n

(* FreesBehindItself: the loop of a fetch deletes the node it has left and  *)
(* never the one it is at, the rest stays a list, and the fetch ends with   *)
(* nothing allocated.                                                       *)
THEOREM ListIsFreed == Spec => []FreesBehindItself
<1>1. Shaped => FreesBehindItself
  <2> SUFFICES ASSUME Shaped PROVE FreesBehindItself
    OBVIOUS
  <2>1. CASE pc # "row"
    BY <2>1 DEF Shaped, Reading, FreesBehindItself
  <2>2. CASE pc = "row"
    <3> DEFINE first == IF t = NULL THEN 1 ELSE t
               left  == [k \in 1 .. Len(rows) - first + 1 |-> first + k - 1]
               rest  == IF t = NULL THEN left ELSE Tail(left)
    <3>1. PICK n \in Nodes : n = Len(rows)
      BY <2>2 DEF Shaped, Reading
    <3>2. /\ t \in {NULL} \cup 1 .. n /\ unfreed = Read + 1 .. n
          /\ i = IF Read < n THEN Read + 1 ELSE IF t = NULL THEN NULL ELSE 0
          /\ IF n = 0 THEN Empty(mem) ELSE Ring(mem, first, n)
      BY <2>2, <3>1 DEF Shaped, Reading
    <3>3. n \in Nat /\ NULL = -1
      BY <3>1, NodesAre
    <3>4. CASE n = 0
      <4>1. t = NULL /\ Read = 0 /\ unfreed = {} /\ i = NULL /\ first = 1
        BY <3>2, <3>3, <3>4 DEF Read
      <4>2. left = <<>> /\ rest = left
        BY <3>1, <3>4, <4>1
      <4>3. List!IsList(mem, 0, <<>>) /\ mem.live = {0}
        BY <3>2, <3>4 DEF List!IsList, Empty
      <4>4. ToSet(<<>>) = {} /\ first .. Len(rows) = {}
        BY <3>1, <3>4, <4>1 DEF ToSet
      <4> HIDE DEF left
      <4> QED BY ONLY <2>2, <4>1, <4>2, <4>3, <4>4 DEF FreesBehindItself, left
    <3>5. CASE n # 0
      <4>1. first \in Nat \ {0} /\ first <= n
        BY <3>2, <3>3, <3>5
      <4>2. Ring(mem, first, n)
        BY <3>2, <3>5
      <4> HIDE DEF first
      <4>3. left = [k \in 1 .. n - first + 1 |-> first + k - 1]
        BY <3>1
      <4>4. left \in Seq(Nat) /\ Len(left) = n - first + 1
        BY <3>3, <4>1, <4>3
      <4>5. \A k \in 1 .. n - first + 1 : left[k] = first + k - 1
        BY <4>3
      <4> HIDE DEF left
      <4>6. List!IsList(mem, 0, left)
        BY ONLY <3>3, <4>1, <4>2, <4>3, RingIsList
      <4>7. mem.live = {0} \cup first .. n
        BY ONLY <4>2 DEF Ring
      <4>8. /\ rest \in Seq(Nat) /\ Len(rest) = n - Read /\ Read \in 0 .. n
            /\ \A k \in 1 .. Len(rest) : rest[k] = Read + k
        <5>1. CASE t = NULL
          BY <3>3, <4>1, <4>4, <4>5, <5>1 DEF Read, first
        <5>2. CASE t # NULL
          <6>1. t \in 1 .. n /\ Read = t /\ first = t
            BY <3>2, <5>2 DEF Read, first
          <6>2. rest = Tail(left) /\ left # <<>> /\ Len(left) = n - t + 1
            BY <3>3, <4>4, <5>2, <6>1
          <6>3. rest \in Seq(Nat) /\ Len(rest) = n - t
            BY <3>3, <4>4, <6>1, <6>2
          <6>4. \A k \in 1 .. n - t : rest[k] = left[k + 1] /\ k + 1 \in 1 .. n - first + 1
            BY <3>3, <4>4, <6>1, <6>2
          <6> HIDE DEF rest
          <6> QED BY <3>3, <4>5, <6>1, <6>3, <6>4
        <5> QED BY <5>1, <5>2
      <4> HIDE DEF rest
      <4>9. unfreed = ToSet(rest)
        <5>1. ToSet(rest) = {rest[k] : k \in 1 .. n - Read}
          <6>1. DOMAIN rest = 1 .. n - Read
            BY <4>8
          <6> QED BY ONLY <6>1 DEF ToSet
        <5>2. ASSUME NEW x \in Read + 1 .. n PROVE x \in {rest[k] : k \in 1 .. n - Read}
          <6>1. x - Read \in 1 .. n - Read
            BY <3>3, <4>8
          <6>2. rest[x - Read] = x
            BY <3>3, <4>8, <6>1
          <6> QED BY <6>1, <6>2
        <5>3. ASSUME NEW k \in 1 .. n - Read PROVE rest[k] \in Read + 1 .. n
          BY <3>3, <4>8
        <5> QED BY ONLY <3>2, <5>1, <5>2, <5>3
      <4>10. i = IF rest # <<>> THEN Head(rest) ELSE IF t = NULL THEN NULL ELSE 0
        <5>1. CASE Read < n
          <6>1. Len(rest) > 0 /\ 1 \in 1 .. Len(rest) /\ rest # <<>>
            BY <3>3, <4>8, <5>1
          <6>2. Head(rest) = Read + 1
            BY <4>8, <6>1
          <6> QED BY <3>2, <5>1, <6>1, <6>2
        <5>2. CASE ~ (Read < n)
          <6>1. Len(rest) = 0
            BY <3>3, <4>8, <5>2
          <6>2. rest = <<>>
            BY <4>8, <6>1
          <6> QED BY <3>2, <5>2, <6>2
        <5> QED BY <5>1, <5>2
      <4> QED BY ONLY <2>2, <3>1, <4>6, <4>7, <4>9, <4>10 DEF FreesBehindItself, first, left, rest
    <3> QED BY <3>4, <3>5
  <2> QED BY <2>1, <2>2
<1> QED BY <1>1, ProtoShaped, PTL

(* TallyIsOwed: between two lines, two fetches or in the middle of a group  *)
(* the thread keeps in tally exactly what it has read and not sent.         *)
THEOREM NothingLostInTally == Spec => []TallyIsOwed
<1>1. Init => TallyIsOwed
  BY DEF Init, TallyIsOwed
<1>2. Shaped /\ TallyIsOwed /\ [Next]_vars => TallyIsOwed'
  <2> SUFFICES ASSUME Shaped, TallyIsOwed, [Next]_vars PROVE TallyIsOwed'
    OBVIOUS
  <2>1. Idle \/ Fetch \/ Row \/ EndOfFetch
    BY StepsAre DEF Shaped
  <2>2. CASE Idle
    BY <2>2 DEF Idle, sums, history, TallyIsOwed
  <2>3. CASE Fetch
    BY <2>3 DEF Fetch, TallyIsOwed
  <2>4. CASE Row
    <3>1. Value[rows[i]] \in Int /\ tally \in Int /\ owed \in Int /\ Sum(tally + Value[rows[i]])
      BY <2>4, RowReadsNext DEF Row, Shaped, Typed
    <3> QED BY <3>1 DEF Sum, TallyIsOwed
  <2>5. CASE EndOfFetch
    BY <2>5 DEF EndOfFetch, sums, TallyIsOwed
  <2> QED BY <2>1, <2>2, <2>3, <2>4, <2>5
<1> QED BY <1>1, <1>2, ProtoShaped, PTL DEF Spec

(* ReplyIsGroups: at the end of the loop the lines sent are the groups of   *)
(* skip rows there are in the result, each with its sum and middle.         *)
THEOREM ReplyIsComplete == Spec => []ReplyIsGroups
<1>1. Shaped /\ Sums => ReplyIsGroups
  <2> SUFFICES ASSUME Shaped, Sums, AtEnd PROVE ReplyIsGroups
    BY DEF ReplyIsGroups
  <2>1. pc = "row" /\ Len(rows) \in Nat /\ Read = Len(rows)
    BY AllRead DEF AtEnd
  <2>2. skip \in Int /\ Len(sent) \in Nat
    BY ProtoAssumption DEF Shaped, Typed
  <2>3. CASE skip < 1
    BY <2>1, <2>3 DEF Sums, ReplyIsGroups
  <2>4. CASE ~ (skip < 1)
    <3>1. skip \in Nat \ {0} /\ skipt \in 1 .. skip /\ 2 * skipt - skip \in 0 .. 2
      BY <2>2, <2>4, MiddleIs
    <3>2. /\ skipCnt \in 1 .. skip
          /\ Len(sent) * skip + skipCnt = Read + 1
          /\ \A k \in 1 .. Len(sent) :
               /\ sent[k].sum = Total[k * skip] - Total[(k - 1) * skip]
                                + (IF k = 1 THEN carried ELSE 0)
               /\ sent[k].time = rows[(k - 1) * skip + skipt]
      BY <2>1, <2>4 DEF Sums
    <3>3. Len(sent) * skip <= Len(rows) /\ Len(rows) < Len(sent) * skip + skip
      <4>1. PICK x \in Int : x = Len(sent) * skip
        BY <2>2, <3>1
      <4> QED BY <2>1, <3>1, <3>2, <4>1
    <3>4. Len(sent) = Len(rows) \div skip
      <4>1. PICK a \in Int : a = Len(rows)
        BY <2>1
      <4>2. PICK q \in Int : q = Len(sent)
        BY <2>2
      <4>3. PICK b \in Nat \ {0} : b = skip
        BY <3>1
      <4>4. q = a \div b
        BY ONLY <3>3, <4>1, <4>2, <4>3, DivIsUnique
      <4> QED BY ONLY <4>1, <4>2, <4>3, <4>4
    <3> QED BY <2>4, <3>1, <3>2, <3>4 DEF ReplyIsGroups
  <2> QED BY <2>3, <2>4
<1> QED BY <1>1, ProtoShaped, ProtoSums, PTL

(* NextHighestResolution: whatever the times of the first two rows and the  *)
(* resolution are, as long as the seconds fit in an int.                    *)
THEOREM ResolutionIsNextHighest == Spec => []NextHighestResolution
<1>1. Shaped => NextHighestResolution
  <2> DEFINE diff == rows[2] - rows[1]
             w    == res * 60
  <2> SUFFICES ASSUME Shaped, AtEnd, Len(rows) > 1, rows[1] < rows[2],
                      w \in -MaxInt .. MaxInt - 1
      PROVE  /\ skip = 1 \/ (skip > 1 /\ skip * diff <= w)
             /\ (skip + 1) * diff > w
    BY DEF NextHighestResolution
  <2>1. MaxInt \in Nat \ {0} /\ Times \subseteq Nat
    BY ProtoAssumption
  <2>2. diff \in Nat \ {0}
    <3>1. rows \in Seq(Times) /\ 1 \in 1 .. Len(rows) /\ 2 \in 1 .. Len(rows)
      BY DEF Shaped, Typed
    <3>2. rows[1] \in Times /\ rows[2] \in Times
      BY <3>1
    <3>3. rows[1] \in Nat /\ rows[2] \in Nat
      BY <2>1, <3>2
    <3> QED BY <3>3
  <2>3. w \in Int /\ Wrap(w) = w
    BY <2>1, WrapIs
  <2>4. skip = IF w <= diff THEN 1 ELSE Quotient(w, diff)
    BY <2>3 DEF Shaped, Grouped, GroupIs, AtEnd
  <2> HIDE DEF diff, w
  <2>5. CASE w <= diff
    <3>1. skip = 1
      BY <2>4, <2>5
    <3>2. (1 + 1) * diff > w
      BY <2>2, <2>3, <2>5
    <3> QED BY <3>1, <3>2
  <2>6. CASE ~ (w <= diff)
    <3>1. w \in Nat /\ w > diff
      BY <2>2, <2>3, <2>6
    <3>2. skip = w \div diff
      BY <2>2, <2>4, <2>6, <3>1, QuotientIs
    <3>3. skip \in Int /\ diff * skip <= w /\ w < diff * skip + diff
      BY <2>2, <3>1, <3>2, DivIs
    <3>4. skip >= 1
      <4> SUFFICES ASSUME skip <= 0 PROVE FALSE
        BY <3>3
      <4>1. diff * skip <= 0
        BY <2>2, <3>3
      <4> QED BY <2>2, <3>1, <3>3, <4>1
    <3>5. diff * skip = skip * diff /\ (skip + 1) * diff = skip * diff + diff
          /\ skip * diff \in Int
      BY <2>2, <3>3
    <3> QED BY <2>2, <3>1, <3>3, <3>4, <3>5
  <2> QED BY <2>5, <2>6
<1> QED BY <1>1, ProtoShaped, PTL
=============================================================================
