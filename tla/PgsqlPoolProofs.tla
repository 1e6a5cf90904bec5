-------------------------- MODULE PgsqlPoolProofs --------------------------
(***************************************************************************)
(* Proofs about PgsqlPool, for any set of workers and any N.               *)
(*                                                                         *)
(* Typing comes first: that the front of `free' and `bad' is a connection  *)
(* when it is taken rests on the counters never exceeding the lists.  The  *)
(* second invariant, Places, says that until the shutdown every connection *)
(* is in exactly one place.  Then come the two waits and the numbers they  *)
(* test: nobody sleeps beside what it waits for, and the counters that are *)
(* tested in place of the lists say how long the lists are.                *)
(*                                                                         *)
(* The workers may be infinitely many; those that are about to test        *)
(* free_num never are, so that they can be counted.                        *)
(***************************************************************************)
EXTENDS PgsqlPool, SequenceTheorems, FiniteSetTheorems, TLAPS

-----------------------------------------------------------------------------
(* Lists                                                                   *)

(* list_append() adds one element at the end. *)
LEMMA Appending ==
  ASSUME NEW S, NEW s \in Seq(S), NEW e \in S
  PROVE  /\ Append(s, e) \in Seq(S)
         /\ Len(Append(s, e)) = Len(s) + 1
         /\ Range(Append(s, e)) = Range(s) \cup {e}
         /\ IsInjective(s) /\ e \notin Range(s) => IsInjective(Append(s, e))
<1> DEFINE t == Append(s, e)
<1>1. /\ t \in Seq(S)
      /\ Len(t) = Len(s) + 1
      /\ \A i \in 1 .. Len(s) : t[i] = s[i]
      /\ t[Len(t)] = e
  BY AppendProperties
<1>2. DOMAIN s = 1 .. Len(s) /\ DOMAIN t = 1 .. Len(s) + 1 /\ Len(s) \in Nat
  BY <1>1, LenProperties
<1>3. Range(t) = Range(s) \cup {e}
  BY <1>1, <1>2 DEF Range
<1>4. IsInjective(s) /\ e \notin Range(s) => IsInjective(t)
  BY <1>1, <1>2 DEF Range, IsInjective
<1> QED BY <1>1, <1>3, <1>4

(* Unlinking the first node of a list without duplicates. *)
LEMMA Unlinking ==
  ASSUME NEW S, NEW s \in Seq(S), Len(s) # 0
  PROVE  /\ Head(s) \in S /\ Head(s) \in Range(s)
         /\ Tail(s) \in Seq(S)
         /\ Len(Tail(s)) = Len(s) - 1
         /\ IsInjective(s) =>
              IsInjective(Tail(s)) /\ Range(Tail(s)) = Range(s) \ {Head(s)}
<1> DEFINE t == Tail(s)
<1>0. s # <<>>
  BY EmptySeq
<1>1. /\ Head(s) \in S
      /\ t \in Seq(S)
      /\ Len(t) = Len(s) - 1
      /\ \A i \in 1 .. Len(t) : t[i] = s[i + 1]
  BY <1>0, HeadTailProperties
<1>2. DOMAIN s = 1 .. Len(s) /\ DOMAIN t = 1 .. Len(s) - 1 /\ Len(s) \in Nat \ {0}
  BY <1>1, LenProperties
<1>3. Head(s) = s[1]
  OBVIOUS
<1>4. Head(s) \in Range(s)
  BY <1>2, <1>3 DEF Range
<1>5. ASSUME IsInjective(s)
      PROVE  IsInjective(t) /\ Range(t) = Range(s) \ {Head(s)}
  <2> HIDE DEF t
  <2>1. IsInjective(t)
    <3>1. SUFFICES ASSUME NEW i \in 1 .. Len(s) - 1, NEW j \in 1 .. Len(s) - 1,
                          t[i] = t[j]
                   PROVE  i = j
      BY <1>2 DEF IsInjective
    <3>2. s[i + 1] = s[j + 1] /\ i + 1 \in DOMAIN s /\ j + 1 \in DOMAIN s
      BY <1>1, <1>2, <3>1
    <3>3. i + 1 = j + 1
      BY <1>5, <3>2 DEF IsInjective
    <3> QED BY <3>3
  <2>2. ASSUME NEW x \in Range(t) PROVE x \in Range(s) \ {s[1]}
    <3>1. PICK i \in 1 .. Len(s) - 1 : x = t[i]
      BY <1>2, <2>2 DEF Range
    <3>2. x = s[i + 1] /\ i + 1 \in DOMAIN s /\ 1 \in DOMAIN s /\ i + 1 # 1
      BY <1>1, <1>2, <3>1
    <3> QED BY ONLY <1>5, <3>2 DEF IsInjective, Range
  <2>3. ASSUME NEW x \in Range(s), x # s[1] PROVE x \in Range(t)
    <3>1. PICK i \in 1 .. Len(s) : x = s[i]
      BY <1>2 DEF Range
    <3>2. i - 1 \in 1 .. Len(s) - 1 /\ t[i - 1] = s[(i - 1) + 1] /\ (i - 1) + 1 = i
      BY <1>1, <1>2, <2>3, <3>1
    <3> QED BY <1>2, <3>1, <3>2 DEF Range
  <2> QED BY <1>3, <2>1, <2>2, <2>3
<1> QED BY <1>1, <1>4, <1>5

(* The empty list, and the list pgsql_pool_thread starts with. *)
LEMMA Filling ==
  /\ Range(<<>>) = {} /\ IsInjective(<<>>) /\ Len(<<>>) = 0
  /\ LET all == [i \in 1 .. N |-> i - 1] IN
       /\ all \in Seq(Conns) /\ Len(all) = N
       /\ IsInjective(all) /\ Range(all) = Conns
<1> DEFINE all == [i \in 1 .. N |-> i - 1]
<1>1. Range(<<>>) = {} /\ IsInjective(<<>>) /\ Len(<<>>) = 0
  BY DEF Range, IsInjective
<1>2. all \in [1 .. N -> Conns]
  BY PoolAssumption DEF Conns
<1>3. all \in Seq(Conns) /\ Len(all) = N
  BY <1>2, PoolAssumption
<1>4. IsInjective(all)
  BY PoolAssumption DEF IsInjective
<1>5. ASSUME NEW c \in Conns PROVE c \in Range(all)
  <2>1. c + 1 \in 1 .. N /\ (c + 1) - 1 = c
    BY PoolAssumption DEF Conns
  <2> QED BY <2>1 DEF Range
<1>6. Range(all) \subseteq Conns
  BY <1>2 DEF Range
<1> QED BY <1>1, <1>3, <1>4, <1>5, <1>6
-----------------------------------------------------------------------------
(* Typing                                                                  *)

ServicePC == {"start", "scan", "wait", "got", "connecting", "repaired"}

(* The thread that moves a connection has one. *)
Hands ==
  /\ \A w \in Workers : Owns(w) => held[w] \in Conns
  /\ Repairing => repair \in Conns

(* The counters the waits test never promise more than the lists hold.      *)
(* CloseFree resets free_num but leaves the nodes linked.                   *)
Numbers ==
  /\ freeNum \in 0 .. Len(free)
  /\ ppc \in ServicePC \cup {"closefree"} => freeNum = Len(free)
  /\ ppc \in ServicePC => badNum = Len(bad)

(* Before pgsql_pool_thread has filled the pool nobody can have a connection. *)
Unfilled ==
  ~Filled =>
    /\ bad = <<>> /\ free = <<>> /\ inuse = {}
    /\ \A w \in Workers : held[w] = NULL /\ wpc[w] \in {"idle", "lock", "wait"}

Ended == destroyed => ppc = "done"

Typed == TypeOK /\ Hands /\ Numbers /\ Unfilled /\ Ended

LEMMA TypedInit == Init => Typed
<1> SUFFICES ASSUME Init PROVE Typed
  OBVIOUS
<1> USE DEF Init
<1>1. <<>> \in Seq(Conns) /\ Len(<<>>) = 0
  BY EmptySeq
<1>2. /\ bad \in Seq(Conns) /\ free \in Seq(Conns) /\ inuse \subseteq Conns
      /\ badNum \in Int /\ freeNum \in Int /\ inuseNum \in Int
  BY <1>1
<1>3. /\ status \in [Conns -> Statuses]
      /\ held \in [Workers -> Conns \cup {NULL}]
      /\ wpc \in [Workers -> WorkerPC]
  BY DEF Statuses, WorkerPC
<1>4. /\ repair \in Conns \cup {NULL} /\ ppc \in RepairPC
      /\ quit \in BOOLEAN /\ destroyed \in BOOLEAN /\ up \in BOOLEAN
  BY DEF RepairPC
<1>5. TypeOK
  BY <1>2, <1>3, <1>4 DEF TypeOK
<1>6. Hands
  BY DEF Hands, Owns, Repairing
<1>7. Numbers /\ Unfilled /\ Ended
  BY <1>1 DEF Numbers, Unfilled, Filled, Ended
<1> QED BY <1>5, <1>6, <1>7 DEF Typed

(* Waking a worker turns a "wait" into a "lock" and nothing else. *)
LEMMA Waking ==
  ASSUME NEW pc \in [Workers -> WorkerPC], NEW next \in SignalFree(pc)
  PROVE  /\ next \in [Workers -> WorkerPC]
         /\ \A w \in Workers : \/ next[w] = pc[w]
                               \/ pc[w] = "wait" /\ next[w] = "lock"
BY DEF SignalFree, Waiting, WorkerPC

(* A worker's step inside the pool preserves Typed. *)
LEMMA TypedWorker ==
  ASSUME Typed, NEW w \in Workers,
         \/ GetEnter(w) \/ Get(w) \/ GetTimeout(w) \/ GetSpurious(w)
         \/ Release(w) \/ Crash(w)
  PROVE  Typed'
<1> USE DEF Typed, Goto, lists, counters
<1>1. CASE GetEnter(w)
  BY <1>1 DEF GetEnter, TypeOK, WorkerPC, Hands, Owns, Repairing, Numbers, Unfilled, Filled, Ended
<1>2. CASE GetWait(w)
  BY <1>2 DEF GetWait, TypeOK, WorkerPC, Hands, Owns, Repairing, Numbers, Unfilled, Filled, Ended
<1>3. CASE GetTake(w)
  <2>1. Len(free) # 0 /\ free \in Seq(Conns) /\ Len(free) \in Nat /\ Filled
    BY <1>3, EmptySeq, LenProperties DEF GetTake, TypeOK, Numbers, Unfilled
  <2>2. Head(free) \in Conns /\ Tail(free) \in Seq(Conns) /\ Len(Tail(free)) = Len(free) - 1
    BY <2>1, Unlinking
  <2>3. /\ held' = [held EXCEPT ![w] = Head(free)]
        /\ wpc' = [wpc EXCEPT ![w] = "taken"]
        /\ free' = Tail(free) /\ freeNum' = freeNum - 1 /\ freeNum # 0
        /\ UNCHANGED <<bad, inuse, badNum, inuseNum, status, repair, ppc, quit,
                       destroyed, up>>
    BY <1>3 DEF GetTake, UnlinkFree
  <2>4. TypeOK'
    BY <2>2, <2>3 DEF TypeOK, WorkerPC
  <2>5. Hands'
    BY <2>2, <2>3 DEF TypeOK, Hands, Owns, Repairing
  <2>6. /\ freeNum' \in 0 .. Len(free')
        /\ freeNum = Len(free) => freeNum' = Len(free')
    <3>1. Len(free') = Len(free) - 1 /\ freeNum' = freeNum - 1 /\ freeNum # 0
      BY <2>2, <2>3
    <3>2. freeNum \in 0 .. Len(free) /\ Len(free) \in Nat
      BY <2>1 DEF Numbers
    <3> QED BY ONLY <3>1, <3>2
  <2>7. Numbers' /\ Unfilled' /\ Ended'
    <3>1. Numbers'
      BY <2>3, <2>6 DEF Numbers
    <3>2. Unfilled'
      BY <2>1, <2>3 DEF Unfilled, Filled
    <3>3. Ended'
      BY <2>3 DEF Ended
    <3> QED BY <3>1, <3>2, <3>3
  <2> QED BY <2>4, <2>5, <2>7
<1>4. CASE GetMarkBad(w)
  <2>1. held[w] \in Conns /\ bad \in Seq(Conns) /\ Filled
    BY <1>4 DEF GetMarkBad, TypeOK, Hands, Owns, Unfilled
  <2>2. Append(bad, held[w]) \in Seq(Conns) /\ Len(Append(bad, held[w])) = Len(bad) + 1
    BY <2>1, Appending
  <2>3. /\ bad' = Append(bad, held[w]) /\ badNum' = badNum + 1
        /\ wpc' = [wpc EXCEPT ![w] = "lock"]
        /\ ppc' = IF ppc = "wait" THEN "scan" ELSE ppc
        /\ UNCHANGED <<free, inuse, freeNum, inuseNum, status, held, repair, quit,
                       destroyed, up>>
    BY <1>4 DEF GetMarkBad, AppendBad, SignalBad
  <2>4. TypeOK'
    BY <2>2, <2>3 DEF TypeOK, WorkerPC, RepairPC
  <2>5. Hands'
    BY <2>3 DEF TypeOK, Hands, Owns, Repairing
  <2>6. Numbers' /\ Unfilled' /\ Ended'
    BY <2>1, <2>2, <2>3 DEF Numbers, Unfilled, Filled, Ended, ServicePC
  <2> QED BY <2>4, <2>5, <2>6
<1>5. CASE GetInUse(w)
  BY <1>5 DEF GetInUse, AppendInuse, TypeOK, WorkerPC, Hands, Owns, Repairing, Numbers,
              Unfilled, Filled, Ended
<1>6. CASE GetTimeout(w)
  BY <1>6 DEF GetTimeout, TypeOK, WorkerPC, Hands, Owns, Repairing, Numbers, Unfilled, Filled, Ended
<1>7. CASE GetSpurious(w)
  BY <1>7 DEF GetSpurious, TypeOK, WorkerPC, Hands, Owns, Repairing, Numbers, Unfilled, Filled, Ended
<1>8. CASE ReleaseEnter(w)
  BY <1>8 DEF ReleaseEnter, TypeOK, WorkerPC, Hands, Owns, Repairing, Numbers, Unfilled, Filled, Ended
<1>9. CASE ReleaseRemove(w)
  BY <1>9 DEF ReleaseRemove, UnlinkInuse, TypeOK, WorkerPC, Hands, Owns, Repairing, Numbers,
              Unfilled, Filled, Ended
<1>10. CASE ReleaseBad(w)
  <2>1. held[w] \in Conns /\ bad \in Seq(Conns) /\ Filled
    BY <1>10 DEF ReleaseBad, TypeOK, Hands, Owns, Unfilled
  <2>2. Append(bad, held[w]) \in Seq(Conns) /\ Len(Append(bad, held[w])) = Len(bad) + 1
    BY <2>1, Appending
  <2>3. /\ bad' = Append(bad, held[w]) /\ badNum' = badNum + 1
        /\ wpc' = [wpc EXCEPT ![w] = "idle"]
        /\ held' = [held EXCEPT ![w] = NULL]
        /\ ppc' = IF ppc = "wait" THEN "scan" ELSE ppc
        /\ UNCHANGED <<free, inuse, freeNum, inuseNum, status, repair, quit, destroyed, up>>
    BY <1>10 DEF ReleaseBad, AppendBad, SignalBad
  <2>4. TypeOK'
    BY <2>2, <2>3 DEF TypeOK, WorkerPC, RepairPC
  <2>5. Hands'
    BY <2>3 DEF TypeOK, Hands, Owns, Repairing
  <2>6. Numbers' /\ Unfilled' /\ Ended'
    BY <2>1, <2>2, <2>3 DEF Numbers, Unfilled, Filled, Ended, ServicePC
  <2> QED BY <2>4, <2>5, <2>6
<1>11. CASE ReleaseFree(w)
  <2>1. held[w] \in Conns /\ free \in Seq(Conns) /\ Filled
    BY <1>11 DEF ReleaseFree, TypeOK, Hands, Owns, Unfilled
  <2>2. /\ Append(free, held[w]) \in Seq(Conns)
        /\ Len(Append(free, held[w])) = Len(free) + 1 /\ Len(free) \in Nat
    BY <2>1, Appending, LenProperties
  <2> DEFINE pc == [wpc EXCEPT ![w] = "idle"]
  <2>3. /\ free' = Append(free, held[w]) /\ freeNum' = freeNum + 1
        /\ wpc' \in SignalFree(pc)
        /\ held' = [held EXCEPT ![w] = NULL]
        /\ UNCHANGED <<bad, inuse, badNum, inuseNum, status, repair, ppc, quit,
                       destroyed, up>>
    BY <1>11 DEF ReleaseFree, AppendFree
  <2>4. pc \in [Workers -> WorkerPC]
    BY DEF TypeOK, WorkerPC
  <2>5. /\ wpc' \in [Workers -> WorkerPC]
        /\ \A v \in Workers : \/ wpc'[v] = pc[v]
                              \/ pc[v] = "wait" /\ wpc'[v] = "lock"
    BY <2>3, <2>4, Waking
  <2>6. TypeOK'
    <3>1. held' \in [Workers -> Conns \cup {NULL}] /\ freeNum' \in Int
      BY <2>3 DEF TypeOK
    <3> QED BY <2>2, <2>3, <2>5, <3>1 DEF TypeOK
  <2>7. Hands'
    <3>1. ASSUME NEW v \in Workers, Owns(v)' PROVE held'[v] \in Conns
      <4>1. v # w /\ Owns(v)
        BY <2>5, <3>1 DEF Owns, TypeOK
      <4> QED BY <2>3, <4>1 DEF Hands, TypeOK
    <3> QED BY <2>3, <3>1 DEF Hands, Repairing
  <2>8. Numbers' /\ Unfilled' /\ Ended'
    BY <2>1, <2>2, <2>3 DEF Numbers, Unfilled, Filled, Ended
  <2> QED BY <2>6, <2>7, <2>8
<1>12. CASE Crash(w)
  BY <1>12 DEF Crash, TypeOK, WorkerPC, Hands, Owns, Repairing, Numbers, Unfilled, Filled, Ended
<1> QED
  BY <1>1, <1>2, <1>3, <1>4, <1>5, <1>6, <1>7, <1>8, <1>9, <1>10, <1>11, <1>12
  DEF Get, Release

(* The set of connections is finite, so its subsets have a cardinality. *)
LEMMA InUseFinite == \A S : S \subseteq Conns => IsFiniteSet(S)
<1>1. 0 \in Int /\ N - 1 \in Int
  BY PoolAssumption
<1>2. IsFiniteSet(Conns)
  BY <1>1, FS_Interval DEF Conns
<1> QED BY <1>2, FS_Subset

(* So does a step of the repair thread, of the caller of pgsql_pool_free    *)
(* and of the server.                                                       *)
LEMMA TypedOthers ==
  ASSUME Typed,
         \/ Repair \/ RepairTimeout \/ RepairSpurious \/ Cleanup \/ RequestQuit
         \/ ServerSwitch \/ \E c \in Conns : ConnectionFails(c)
  PROVE  Typed'
<1> USE DEF Typed, lists, counters
<1>1. CASE PoolFill
  <2> DEFINE all == [i \in 1 .. N |-> i - 1]
  <2>1. all \in Seq(Conns) /\ Len(all) = N /\ N \in Nat
    BY Filling, PoolAssumption
  <2>2. /\ ppc = "start" /\ ppc' = "scan" /\ bad' = all /\ badNum' = N
        /\ freeNum' = 0 /\ inuseNum' = 0
        /\ UNCHANGED <<free, inuse, status, held, wpc, repair, quit, destroyed, up>>
    BY <1>1 DEF PoolFill
  <2>3. free' = <<>> /\ Len(free') = 0
    BY <2>2, EmptySeq DEF Unfilled, Filled
  <2> HIDE DEF all
  <2>4. TypeOK'
    <3>1. badNum' \in Int /\ freeNum' \in Int /\ inuseNum' \in Int
      BY <2>1, <2>2
    <3>2. bad' \in Seq(Conns) /\ ppc' \in RepairPC
      BY <2>1, <2>2 DEF RepairPC
    <3> QED BY <2>2, <3>1, <3>2 DEF TypeOK
  <2>5. Hands' /\ Unfilled' /\ Ended'
    BY <2>2 DEF Hands, Owns, Repairing, Unfilled, Filled, Ended
  <2>6. Numbers'
    BY <2>1, <2>2, <2>3 DEF Numbers
  <2> QED BY <2>4, <2>5, <2>6
<1>2. CASE RepairWait \/ RepairSpurious \/ RepairTimeout
  BY <1>2 DEF RepairWait, RepairSpurious, RepairTimeout, TypeOK, RepairPC, Hands, Owns,
     Repairing, Numbers, ServicePC, Unfilled, Filled, Ended
<1>3. CASE RepairTake
  <2>1. Len(bad) # 0 /\ bad \in Seq(Conns) /\ Len(bad) \in Nat
    BY <1>3, LenProperties DEF RepairTake, TypeOK, Numbers, ServicePC
  <2>2. /\ Head(bad) \in Conns /\ Tail(bad) \in Seq(Conns)
        /\ Len(Tail(bad)) = Len(bad) - 1
    BY <2>1, Unlinking
  <2>3. /\ ppc = "scan" /\ ppc' = "got"
        /\ repair' = Head(bad) /\ bad' = Tail(bad) /\ badNum' = badNum - 1
        /\ UNCHANGED <<free, inuse, freeNum, inuseNum, status, held, wpc, quit,
                       destroyed, up>>
    BY <1>3 DEF RepairTake, UnlinkBad
  <2>4. TypeOK'
    <3>1. badNum' \in Int /\ ppc' \in RepairPC
      BY <2>3 DEF TypeOK, RepairPC
    <3> QED BY <2>2, <2>3, <3>1 DEF TypeOK
  <2>5. Hands' /\ Unfilled' /\ Ended'
    BY <2>2, <2>3 DEF Hands, Owns, Repairing, Unfilled, Filled, Ended
  <2>6. Numbers'
    <3>1. badNum' = Len(bad')
      BY <2>2, <2>3 DEF Numbers, ServicePC
    <3> QED BY <2>3, <3>1 DEF Numbers, ServicePC
  <2> QED BY <2>4, <2>5, <2>6
<1>4. CASE RepairTry
  BY <1>4 DEF RepairTry, TypeOK, RepairPC, Hands, Owns, Repairing, Numbers, ServicePC,
              Unfilled, Filled, Ended
<1>5. CASE RepairResult
  BY <1>5 DEF RepairResult, TypeOK, Statuses, RepairPC, Hands, Owns, Repairing, Numbers,
              ServicePC, Unfilled, Filled, Ended
<1>6. CASE RepairPut
  <2>1. repair \in Conns /\ free \in Seq(Conns) /\ ppc = "repaired" /\ freeNum = Len(free)
    BY <1>6 DEF RepairPut, TypeOK, Hands, Repairing, Numbers, ServicePC
  <2>2. /\ Append(free, repair) \in Seq(Conns)
        /\ Len(Append(free, repair)) = Len(free) + 1 /\ Len(free) \in Nat
    BY <2>1, Appending, LenProperties
  <2>3. /\ ppc' = "scan"
        /\ free' = Append(free, repair) /\ freeNum' = freeNum + 1
        /\ wpc' \in SignalFree(wpc)
        /\ UNCHANGED <<bad, inuse, badNum, inuseNum, status, held, repair, quit,
                       destroyed, up>>
    BY <1>6 DEF RepairPut, AppendFree
  <2>4. /\ wpc' \in [Workers -> WorkerPC]
        /\ \A v \in Workers : \/ wpc'[v] = wpc[v]
                              \/ wpc[v] = "wait" /\ wpc'[v] = "lock"
    BY <2>3, Waking DEF TypeOK
  <2>5. TypeOK'
    <3>1. freeNum' \in Int /\ ppc' \in RepairPC
      BY <2>3 DEF TypeOK, RepairPC
    <3> QED BY <2>2, <2>3, <2>4, <3>1 DEF TypeOK
  <2>6. Hands' /\ Unfilled' /\ Ended'
    BY <2>1, <2>3, <2>4 DEF Hands, Owns, Repairing, Unfilled, Filled, Ended
  <2>7. Numbers'
    <3>1. freeNum' = Len(free') /\ freeNum' \in 0 .. Len(free')
      BY <2>1, <2>2, <2>3
    <3> QED BY <2>1, <2>3, <3>1 DEF Numbers, ServicePC
  <2> QED BY <2>5, <2>6, <2>7
<1>7. CASE Cleanup
  <2>1. TypeOK'
    <3>1. status' \in [Conns -> Statuses]
      BY <1>7 DEF Cleanup, CloseFree, CloseInUse, CloseBad, DestroyLocks, Finish, TypeOK,
         Statuses
    <3>2. Len(free) \in Nat /\ Len(bad) \in Nat
      BY LenProperties DEF TypeOK
    <3>3. freeNum' \in Int /\ badNum' \in Int
      BY <1>7, <3>2 DEF Cleanup, CloseFree, CloseInUse, CloseBad, DestroyLocks, TypeOK
    <3>4. inuseNum' \in Int
      BY <1>7, InUseFinite, FS_CardinalityType DEF Cleanup, CloseFree, CloseInUse,
         CloseBad, DestroyLocks, TypeOK
    <3> QED BY <1>7, <3>1, <3>3, <3>4 DEF Cleanup, CloseFree, CloseInUse, CloseBad,
         DestroyLocks, TypeOK, RepairPC
  <2>2. Hands' /\ Unfilled' /\ Ended'
    BY <1>7 DEF Cleanup, CloseFree, CloseInUse, CloseBad, DestroyLocks, Hands, Owns,
       Repairing, Unfilled, Filled, Ended
  <2>3. Numbers'
    <3>1. Len(free) \in Nat
      BY LenProperties DEF TypeOK
    <3>2. ppc \notin ServicePC /\ ppc' \notin ServicePC \cup {"closefree"}
      BY <1>7 DEF Cleanup, CloseFree, CloseInUse, CloseBad, DestroyLocks, ServicePC
    <3>3. free' = free /\ freeNum' \in 0 .. Len(free)
      BY <1>7, <3>1 DEF Cleanup, CloseFree, CloseInUse, CloseBad, DestroyLocks, Numbers
    <3> QED BY <3>2, <3>3 DEF Numbers
  <2> QED BY <2>1, <2>2, <2>3
<1>8. CASE RequestQuit \/ ServerSwitch
  <2>1. quit' \in BOOLEAN /\ up' \in BOOLEAN
    BY <1>8 DEF RequestQuit, ServerSwitch, TypeOK
  <2>2. UNCHANGED <<bad, free, inuse, badNum, freeNum, inuseNum, status, held, wpc,
                    repair, ppc, destroyed>>
    BY <1>8 DEF RequestQuit, ServerSwitch
  <2> QED BY <2>1, <2>2 DEF TypeOK, Hands, Owns, Repairing, Numbers, ServicePC,
             Unfilled, Filled, Ended
<1>9. CASE \E c \in Conns : ConnectionFails(c)
  BY <1>9 DEF ConnectionFails, TypeOK, Statuses, Hands, Owns, Repairing, Numbers,
              ServicePC, Unfilled, Filled, Ended
<1> QED
  BY <1>1, <1>2, <1>3, <1>4, <1>5, <1>6, <1>7, <1>8, <1>9 DEF Repair

(* Every reachable state of the pool is well typed; in particular no thread *)
(* ever takes the front of an empty list, before, during or after the       *)
(* shutdown.                                                                *)
THEOREM Typing == Spec => []Typed
<1>1. Init => Typed
  BY TypedInit
<1>2. Typed /\ [Next]_vars => Typed'
  <2> SUFFICES ASSUME Typed, [Next]_vars PROVE Typed'
    OBVIOUS
  <2>1. CASE Next
    BY <2>1, TypedWorker, TypedOthers DEF Next, ServiceNext
  <2>2. CASE UNCHANGED vars
    BY <2>2 DEF vars, Typed, TypeOK, Hands, Owns, Repairing, Numbers, ServicePC,
       Unfilled, Filled, Ended
  <2> QED BY <2>1, <2>2
<1> QED BY <1>1, <1>2, PTL DEF Spec

(* The type invariant of the runs, for any number of workers and            *)
(* connections.                                                             *)
THEOREM TypeCorrect == Spec => []TypeOK
BY Typing, PTL DEF Typed
-----------------------------------------------------------------------------
(* Every connection is in exactly one place until the shutdown             *)

Lent(w)  == wpc[w] \in {"use", "rel"}
Moved(w) == wpc[w] \in {"taken", "removed"}

(* The lists have no duplicates and share no connection. *)
ListsApart ==
  /\ IsInjective(bad) /\ IsInjective(free)
  /\ Range(bad) \cap Range(free) = {}
  /\ inuse \cap (Range(bad) \cup Range(free)) = {}

(* What the repair thread works on is in no list. *)
RepairApart == Repairing => repair \notin Range(bad) \cup Range(free) \cup inuse

(* What a worker has nobody else has, and it is in inuse when it is lent. *)
OwnersApart ==
  /\ \A w \in Workers : Owns(w) =>
       /\ held[w] \notin Range(bad) \cup Range(free)
       /\ ~(Repairing /\ repair = held[w])
       /\ \A v \in Workers : Owns(v) /\ held[v] = held[w] => v = w
  /\ \A w \in Workers : Lent(w) => held[w] \in inuse
  /\ \A w \in Workers : Moved(w) => held[w] \notin inuse
  /\ \A c \in inuse : \E w \in Workers : Lent(w) /\ held[w] = c

(* Every connection is somewhere. *)
SomePlace ==
  Filled => \A c \in Conns :
    \/ c \in Range(bad) \cup Range(free) \cup inuse
    \/ Repairing /\ repair = c
    \/ \E w \in Workers : Moved(w) /\ held[w] = c

Serving == ppc \in ServicePC /\ ListsApart /\ RepairApart /\ OwnersApart /\ SomePlace

Places == ~quit => Serving

LEMMA PlacesInit == Init => Places
<1> SUFFICES ASSUME Init PROVE Serving
  BY DEF Places
<1>1. ListsApart
  BY Filling DEF Init, ListsApart
<1> QED BY <1>1 DEF Init, Serving, ServicePC, RepairApart, Repairing, OwnersApart,
     Owns, Lent, Moved, SomePlace, Filled

(* A worker's step while no shutdown is requested. *)
LEMMA PlacesWorker ==
  ASSUME Typed, Serving, ~quit, NEW w \in Workers,
         \/ GetEnter(w) \/ Get(w) \/ GetTimeout(w) \/ GetSpurious(w)
         \/ Release(w) \/ Crash(w)
  PROVE  Serving'
<1> USE DEF Goto, lists, counters
<1>0. /\ wpc \in [Workers -> WorkerPC] /\ held \in [Workers -> Conns \cup {NULL}]
      /\ bad \in Seq(Conns) /\ free \in Seq(Conns)
      /\ \A v \in Workers : Owns(v) => held[v] \in Conns
  BY DEF Typed, TypeOK, Hands
<1>1. CASE GetEnter(w) \/ GetWait(w) \/ GetTimeout(w) \/ GetSpurious(w)
  <2>1. /\ wpc[w] \in {"idle", "lock", "wait"}
        /\ wpc'[w] \in {"lock", "wait"}
        /\ \A v \in Workers \ {w} : wpc'[v] = wpc[v] /\ held'[v] = held[v]
        /\ UNCHANGED <<bad, free, inuse, repair, ppc>>
    BY <1>0, <1>1 DEF GetEnter, GetWait, GetTimeout, GetSpurious
  <2> QED BY <2>1 DEF Serving, ListsApart, RepairApart, Repairing, OwnersApart, Owns,
       Lent, Moved, SomePlace, Filled
<1>2. CASE GetTake(w)
  <2> DEFINE h == Head(free)
  <2>1. /\ wpc[w] = "lock" /\ wpc' = [wpc EXCEPT ![w] = "taken"]
        /\ held' = [held EXCEPT ![w] = h]
        /\ free' = Tail(free)
        /\ UNCHANGED <<bad, inuse, repair, ppc>>
    BY <1>2 DEF GetTake, UnlinkFree
  <2>2. Len(free) # 0 /\ Filled
    BY <1>0, <1>2, EmptySeq, LenProperties DEF GetTake, Typed, Numbers, Unfilled
  <2>3. /\ h \in Conns /\ h \in Range(free)
        /\ IsInjective(free') /\ Range(free') = Range(free) \ {h}
    BY <1>0, <2>1, <2>2, Unlinking DEF Serving, ListsApart
  <2> HIDE DEF h
  <2>4. ListsApart' /\ RepairApart' /\ ppc' \in ServicePC
    BY <2>1, <2>3 DEF Serving, ListsApart, RepairApart, Repairing
  <2>5. /\ held'[w] = h /\ wpc'[w] = "taken"
        /\ \A v \in Workers \ {w} : wpc'[v] = wpc[v] /\ held'[v] = held[v]
    BY <1>0, <2>1
  <2>6. OwnersApart'
    BY <2>1, <2>3, <2>5 DEF Serving, ListsApart, RepairApart, Repairing, OwnersApart,
       Owns, Lent, Moved
  <2>7. SomePlace'
    BY <2>1, <2>3, <2>5 DEF Serving, SomePlace, Repairing, Filled, Moved
  <2> QED BY <2>4, <2>6, <2>7 DEF Serving
<1>3. CASE GetMarkBad(w) \/ ReleaseBad(w)
  <2> DEFINE h == held[w]
  <2>1. /\ Moved(w) /\ Owns(w) /\ wpc'[w] \in {"lock", "idle"}
        /\ bad' = Append(bad, h)
        /\ ppc' = IF ppc = "wait" THEN "scan" ELSE ppc
        /\ \A v \in Workers \ {w} : wpc'[v] = wpc[v] /\ held'[v] = held[v]
        /\ UNCHANGED <<free, inuse, repair>>
    BY <1>0, <1>3 DEF GetMarkBad, ReleaseBad, AppendBad, SignalBad, Moved, Owns
  <2>2. h \in Conns /\ h \notin Range(bad) \cup Range(free) \cup inuse
    BY <1>0, <2>1 DEF Serving, OwnersApart
  <2>3. IsInjective(bad') /\ Range(bad') = Range(bad) \cup {h}
    BY <1>0, <2>1, <2>2, Appending DEF Serving, ListsApart
  <2>4. ~(Repairing /\ repair = h)
    BY <2>1 DEF Serving, OwnersApart
  <2>5. (Repairing' <=> Repairing) /\ (Filled' <=> Filled) /\ ppc' \in ServicePC
    BY <2>1 DEF Repairing, Filled, Serving, ServicePC
  <2>6. ListsApart' /\ RepairApart'
    BY <2>1, <2>2, <2>3, <2>4, <2>5 DEF Serving, ListsApart, RepairApart
  <2>7. OwnersApart'
    BY <2>1, <2>2, <2>3, <2>5 DEF Serving, OwnersApart, Owns, Lent, Moved
  <2>8. SomePlace'
    BY <2>1, <2>3, <2>5 DEF Serving, SomePlace, Moved
  <2> QED BY <2>5, <2>6, <2>7, <2>8 DEF Serving
<1>4. CASE GetInUse(w)
  <2>1. /\ wpc[w] = "taken" /\ wpc'[w] = "use" /\ held' = held
        /\ inuse' = inuse \cup {held[w]}
        /\ \A v \in Workers \ {w} : wpc'[v] = wpc[v]
        /\ UNCHANGED <<bad, free, repair, ppc>>
    BY <1>0, <1>4 DEF GetInUse, AppendInuse
  <2>2. ListsApart' /\ RepairApart' /\ ppc' \in ServicePC
    BY <2>1 DEF Serving, ListsApart, RepairApart, Repairing, OwnersApart, Owns
  <2>3. OwnersApart'
    BY <2>1 DEF Serving, Repairing, OwnersApart, Owns, Lent, Moved
  <2>4. SomePlace'
    BY <2>1 DEF Serving, SomePlace, Repairing, Filled, Moved
  <2> QED BY <2>2, <2>3, <2>4 DEF Serving
<1>5. CASE ReleaseEnter(w)
  <2>1. /\ wpc[w] = "use" /\ wpc'[w] = "rel" /\ held' = held
        /\ \A v \in Workers \ {w} : wpc'[v] = wpc[v]
        /\ UNCHANGED <<bad, free, inuse, repair, ppc>>
    BY <1>0, <1>5 DEF ReleaseEnter
  <2> QED BY <2>1 DEF Serving, ListsApart, RepairApart, Repairing, OwnersApart, Owns,
       Lent, Moved, SomePlace, Filled
<1>6. CASE ReleaseRemove(w)
  <2>1. /\ wpc[w] = "rel" /\ wpc'[w] = "removed" /\ held' = held
        /\ inuse' = inuse \ {held[w]}
        /\ \A v \in Workers \ {w} : wpc'[v] = wpc[v]
        /\ UNCHANGED <<bad, free, repair, ppc>>
    BY <1>0, <1>6 DEF ReleaseRemove, UnlinkInuse
  <2>2. ListsApart' /\ RepairApart' /\ ppc' \in ServicePC
    BY <2>1 DEF Serving, ListsApart, RepairApart, Repairing
  <2>3. OwnersApart'
    BY <2>1 DEF Serving, Repairing, OwnersApart, Owns, Lent, Moved
  <2>4. SomePlace'
    BY <2>1 DEF Serving, SomePlace, Repairing, Filled, Moved
  <2> QED BY <2>2, <2>3, <2>4 DEF Serving
<1>7. CASE ReleaseFree(w)
  <2> DEFINE h == held[w]
             pc == [wpc EXCEPT ![w] = "idle"]
  <2>1. /\ Moved(w) /\ Owns(w)
        /\ free' = Append(free, h) /\ wpc' \in SignalFree(pc)
        /\ held' = [held EXCEPT ![w] = NULL]
        /\ UNCHANGED <<bad, inuse, repair, ppc>>
    BY <1>7 DEF ReleaseFree, AppendFree, Moved, Owns
  <2>2. \A v \in Workers : \/ wpc'[v] = pc[v]
                           \/ pc[v] = "wait" /\ wpc'[v] = "lock"
    BY <1>0, <2>1, Waking DEF WorkerPC
  <2>3. /\ ~Owns(w)' /\ ~Lent(w)' /\ ~Moved(w)'
        /\ \A v \in Workers \ {w} :
             /\ (Owns(v)' <=> Owns(v)) /\ (Lent(v)' <=> Lent(v)) /\ (Moved(v)' <=> Moved(v))
             /\ held'[v] = held[v]
    BY <1>0, <2>1, <2>2 DEF Owns, Lent, Moved
  <2>4. h \in Conns /\ h \notin Range(bad) \cup Range(free) \cup inuse
    BY <1>0, <2>1 DEF Serving, OwnersApart
  <2>5. IsInjective(free') /\ Range(free') = Range(free) \cup {h}
    BY <1>0, <2>1, <2>4, Appending DEF Serving, ListsApart
  <2>6. ~(Repairing /\ repair = h) /\ (Lent(w) => ~Moved(w))
    BY <2>1 DEF Serving, OwnersApart, Lent, Moved
  <2>7. (Repairing' <=> Repairing) /\ (Filled' <=> Filled) /\ ppc' \in ServicePC
    BY <2>1 DEF Repairing, Filled, Serving
  <2>8. ListsApart' /\ RepairApart'
    BY <2>1, <2>4, <2>5, <2>6, <2>7 DEF Serving, ListsApart, RepairApart
  <2> HIDE DEF pc
  <2>9. OwnersApart'
    BY <2>1, <2>3, <2>4, <2>5, <2>6, <2>7 DEF Serving, OwnersApart
  <2>10. SomePlace'
    BY <2>1, <2>3, <2>5, <2>7 DEF Serving, SomePlace
  <2> QED BY <2>7, <2>8, <2>9, <2>10 DEF Serving
<1>8. CASE Crash(w)
  BY <1>8 DEF Crash, Typed, Ended, Serving, ServicePC
<1> QED
  BY <1>1, <1>2, <1>3, <1>4, <1>5, <1>6, <1>7, <1>8 DEF Get, Release

(* A step of the repair thread, or of the server, that leaves quit alone. *)
LEMMA PlacesOthers ==
  ASSUME Typed, Serving, ~quit,
         \/ Repair \/ RepairTimeout \/ RepairSpurious \/ Cleanup
         \/ ServerSwitch \/ \E c \in Conns : ConnectionFails(c)
  PROVE  Serving'
<1> USE DEF lists, counters
<1>0. /\ bad \in Seq(Conns) /\ free \in Seq(Conns) /\ wpc \in [Workers -> WorkerPC]
  BY DEF Typed, TypeOK
<1>1. CASE PoolFill
  <2>1. /\ ppc = "start" /\ ppc' = "scan"
        /\ IsInjective(bad') /\ Range(bad') = Conns
        /\ UNCHANGED <<free, inuse, held, wpc, repair>>
    BY <1>1, Filling DEF PoolFill
  <2>2. free = <<>> /\ inuse = {} /\ \A w \in Workers : wpc[w] \in {"idle", "lock", "wait"}
    BY <2>1 DEF Typed, Unfilled, Filled
  <2>3. Range(free') = {} /\ IsInjective(free')
    BY <2>1, <2>2, Filling
  <2> QED BY <2>1, <2>2, <2>3 DEF Serving, ServicePC, ListsApart, RepairApart, Repairing,
       OwnersApart, Owns, Lent, Moved, SomePlace
<1>2. CASE RepairWait \/ RepairSpurious \/ RepairTimeout \/ RepairTry \/ RepairResult
  <2>1. /\ ppc' \in ServicePC /\ (Filled' <=> Filled) /\ (Repairing' <=> Repairing)
        /\ UNCHANGED <<bad, free, inuse, held, wpc, repair>>
    BY <1>2 DEF RepairWait, RepairSpurious, RepairTimeout, RepairTry, RepairResult,
       Filled, Repairing, ServicePC
  <2> QED BY <2>1 DEF Serving, ListsApart, RepairApart, OwnersApart, Owns, Lent, Moved,
       SomePlace
<1>3. CASE RepairTake
  <2> DEFINE h == Head(bad)
  <2>1. /\ ppc = "scan" /\ ppc' = "got"
        /\ repair' = h /\ bad' = Tail(bad)
        /\ UNCHANGED <<free, inuse, held, wpc>>
    BY <1>3 DEF RepairTake, UnlinkBad
  <2>2. Len(bad) # 0
    BY <1>3 DEF RepairTake, Typed, Numbers, ServicePC
  <2>3. /\ h \in Range(bad)
        /\ IsInjective(bad') /\ Range(bad') = Range(bad) \ {h}
    BY <1>0, <2>1, <2>2, Unlinking DEF Serving, ListsApart
  <2> HIDE DEF h
  <2>4. Repairing' /\ ~Repairing /\ Filled /\ ppc' \in ServicePC
    BY <2>1 DEF Repairing, Filled, ServicePC
  <2>5. ListsApart' /\ RepairApart'
    BY <2>1, <2>3, <2>4 DEF Serving, ListsApart, RepairApart
  <2>6. OwnersApart'
    BY <2>1, <2>3, <2>4 DEF Serving, OwnersApart, Owns, Lent, Moved
  <2>7. SomePlace'
    BY <2>1, <2>3, <2>4 DEF Serving, SomePlace, Moved
  <2> QED BY <2>4, <2>5, <2>6, <2>7 DEF Serving
<1>4. CASE RepairPut
  <2>1. /\ ppc = "repaired" /\ ppc' = "scan"
        /\ free' = Append(free, repair) /\ wpc' \in SignalFree(wpc)
        /\ UNCHANGED <<bad, inuse, held, repair>>
    BY <1>4 DEF RepairPut, AppendFree
  <2>2. Repairing /\ ~Repairing' /\ Filled /\ ppc' \in ServicePC
    BY <2>1 DEF Repairing, Filled, ServicePC
  <2>3. repair \in Conns /\ repair \notin Range(bad) \cup Range(free) \cup inuse
    BY <2>2 DEF Typed, Hands, Serving, RepairApart
  <2>4. IsInjective(free') /\ Range(free') = Range(free) \cup {repair}
    BY <1>0, <2>1, <2>3, Appending DEF Serving, ListsApart
  <2>5. \A v \in Workers :
           (Owns(v)' <=> Owns(v)) /\ (Lent(v)' <=> Lent(v)) /\ (Moved(v)' <=> Moved(v))
    BY <1>0, <2>1, Waking DEF Owns, Lent, Moved
  <2>6. ListsApart' /\ RepairApart'
    BY <2>1, <2>2, <2>3, <2>4 DEF Serving, ListsApart, RepairApart
  <2>7. OwnersApart'
    BY <2>1, <2>2, <2>4, <2>5 DEF Serving, OwnersApart
  <2>8. SomePlace'
    BY <2>1, <2>2, <2>4, <2>5 DEF Serving, SomePlace
  <2> QED BY <2>2, <2>6, <2>7, <2>8 DEF Serving
<1>5. CASE Cleanup
  BY <1>5 DEF Cleanup, CloseFree, CloseInUse, CloseBad, DestroyLocks, Serving, ServicePC
<1>6. CASE ServerSwitch \/ \E c \in Conns : ConnectionFails(c)
  BY <1>6 DEF ServerSwitch, ConnectionFails, Serving, ListsApart, RepairApart, Repairing,
     OwnersApart, Owns, Lent, Moved, SomePlace, Filled
<1> QED
  BY <1>1, <1>2, <1>3, <1>4, <1>5, <1>6 DEF Repair

(* Only pgsql_pool_free writes quit, and it is never cleared. *)
LEMMA QuitSteps ==
  ASSUME Next, ~quit'
  PROVE  /\ ~quit
         /\ \/ \E w \in Workers : \/ GetEnter(w) \/ Get(w) \/ GetTimeout(w)
                                  \/ GetSpurious(w) \/ Release(w) \/ Crash(w)
            \/ Repair \/ RepairTimeout \/ RepairSpurious \/ Cleanup
            \/ ServerSwitch \/ \E c \in Conns : ConnectionFails(c)
<1>1. ~RequestQuit
  BY DEF RequestQuit
<1>2. CASE \E w \in Workers : \/ GetEnter(w) \/ Get(w) \/ GetTimeout(w)
                              \/ GetSpurious(w) \/ Release(w) \/ Crash(w)
  <2>1. PICK w \in Workers : \/ GetEnter(w) \/ Get(w) \/ GetTimeout(w)
                              \/ GetSpurious(w) \/ Release(w) \/ Crash(w)
    BY <1>2
  <2>2. CASE GetEnter(w) \/ GetTimeout(w) \/ GetSpurious(w) \/ Crash(w)
    BY <2>2, <1>2 DEF GetEnter, GetTimeout, GetSpurious, Crash
  <2>3. CASE Get(w)
    BY <2>3, <1>2 DEF Get, GetWait, GetTake, GetMarkBad, GetInUse
  <2>4. CASE Release(w)
    <3>1. UNCHANGED quit
      BY <2>4 DEF Release, ReleaseEnter, ReleaseRemove, ReleaseBad, ReleaseFree
    <3> QED BY <3>1, <1>2
  <2> QED BY <2>1, <2>2, <2>3, <2>4
<1>3. CASE Repair \/ RepairTimeout \/ RepairSpurious
  BY <1>3 DEF Repair, PoolFill, RepairWait, RepairTake, RepairTry, RepairResult, RepairPut,
     RepairTimeout, RepairSpurious
<1>4. CASE Cleanup \/ ServerSwitch \/ \E c \in Conns : ConnectionFails(c)
  BY <1>4 DEF Cleanup, CloseFree, CloseInUse, CloseBad, DestroyLocks, ServerSwitch,
     ConnectionFails
<1> QED
  BY <1>1, <1>2, <1>3, <1>4 DEF Next, ServiceNext

(* Until a shutdown is requested every connection is in exactly one place:  *)
(* one list, the repair thread's hands or one worker's.                     *)
THEOREM OnePlace == Spec => []Places
<1>1. Init => Places
  BY PlacesInit
<1>2. Typed /\ Places /\ [Next]_vars => Places'
  <2> SUFFICES ASSUME Typed, Places, [Next]_vars, ~quit' PROVE Serving'
    BY DEF Places
  <2>1. CASE Next
    BY <2>1, QuitSteps, PlacesWorker, PlacesOthers DEF Places
  <2>2. CASE UNCHANGED vars
    BY <2>2 DEF vars, Places, Serving, ListsApart, RepairApart, Repairing, OwnersApart,
       Owns, Lent, Moved, SomePlace, Filled
  <2> QED BY <2>1, <2>2
<1> QED BY <1>1, <1>2, Typing, PTL DEF Spec

(* No two threads ever use one connection, and none that is in use can be   *)
(* handed out or repaired, for any number of workers and connections.       *)
THEOREM Exclusion == Spec => []ExclusiveUse
<1>1. Typed /\ Places => ExclusiveUse
  BY DEF Typed, Hands, Places, Serving, OwnersApart, ExclusiveUse
<1> QED BY <1>1, Typing, OnePlace, PTL

(* No connection is ever lost between the lists. *)
THEOREM Conservation == Spec => []NothingLost
<1>1. Places => NothingLost
  BY DEF Places, Serving, SomePlace, Moved, NothingLost
<1> QED BY <1>1, OnePlace, PTL

(* The node pgsql_pool_release unlinks is in the in-use list. *)
THEOREM ReleaseFindsNode == Spec => []LentIsInUse
<1>1. Places => LentIsInUse
  BY DEF Places, Serving, OwnersApart, Lent, LentIsInUse
<1> QED BY <1>1, OnePlace, PTL
-----------------------------------------------------------------------------
(* The repair thread                                                       *)

(* It does not sleep on bad_avail while bad_num says that there is work:    *)
(* every list_append to the bad list is followed by a signal, and bad_num   *)
(* is tested under the same lock before the wait.                           *)
THEOREM RepairAwake == Spec => []RepairNotAsleep
<1>1. Init => RepairNotAsleep
  BY DEF Init, RepairNotAsleep
<1>2. RepairNotAsleep /\ [Next]_vars => RepairNotAsleep'
  <2> SUFFICES ASSUME RepairNotAsleep, [Next]_vars PROVE RepairNotAsleep'
    OBVIOUS
  <2> USE DEF RepairNotAsleep
  <2>1. ASSUME NEW w \in Workers, GetMarkBad(w) \/ ReleaseBad(w)
        PROVE  RepairNotAsleep'
    BY <2>1 DEF GetMarkBad, ReleaseBad, AppendBad, SignalBad
  <2>2. ASSUME NEW w \in Workers,
               \/ GetEnter(w) \/ GetWait(w) \/ GetTake(w) \/ GetInUse(w)
               \/ GetTimeout(w) \/ GetSpurious(w) \/ Crash(w)
        PROVE  RepairNotAsleep'
    BY <2>2 DEF GetEnter, GetWait, GetTake, GetInUse, GetTimeout, GetSpurious, Crash,
       lists, counters
  <2>3. ASSUME NEW w \in Workers, ReleaseEnter(w) \/ ReleaseRemove(w) \/ ReleaseFree(w)
        PROVE  RepairNotAsleep'
    BY <2>3 DEF ReleaseEnter, ReleaseRemove, ReleaseFree, lists, counters
  <2>4. CASE Repair \/ RepairTimeout \/ RepairSpurious
    BY <2>4 DEF Repair, PoolFill, RepairWait, RepairTake, RepairTry, RepairResult,
       RepairPut, RepairTimeout, RepairSpurious, lists, counters
  <2>5. CASE Cleanup
    BY <2>5 DEF Cleanup, CloseFree, CloseInUse, CloseBad, DestroyLocks
  <2>6. CASE RequestQuit \/ ServerSwitch \/ \E c \in Conns : ConnectionFails(c)
    BY <2>6 DEF RequestQuit, ServerSwitch, ConnectionFails, lists, counters
  <2>7. CASE UNCHANGED vars
    BY <2>7 DEF vars
  <2> QED
    BY <2>1, <2>2, <2>3, <2>4, <2>5, <2>6, <2>7 DEF Next, ServiceNext, Get, Release
<1> QED BY <1>1, <1>2, PTL DEF Spec
-----------------------------------------------------------------------------
(* The workers                                                             *)

(* The workers that are about to test free_num. *)
Awake(pc) == {w \in Workers : pc[w] = "lock"}

(* There are finitely many, and at least one for each free connection if    *)
(* anybody sleeps.                                                          *)
Promised ==
  /\ IsFiniteSet(Awake(wpc))
  /\ ~destroyed /\ Waiting(wpc) # {} => freeNum <= Cardinality(Awake(wpc))

(* A worker that comes to the test is one more. *)
LEMMA OneMore ==
  ASSUME NEW pc \in [Workers -> WorkerPC], NEW w \in Workers, IsFiniteSet(Awake(pc)),
         NEW next, next = [pc EXCEPT ![w] = "lock"]
  PROVE  /\ IsFiniteSet(Awake(next))
         /\ Cardinality(Awake(pc)) \in Nat /\ Cardinality(Awake(next)) \in Nat
         /\ Cardinality(Awake(next)) =
              IF pc[w] = "lock" THEN Cardinality(Awake(pc)) ELSE Cardinality(Awake(pc)) + 1
<1>1. Awake(next) = Awake(pc) \cup {w}
  BY DEF Awake
<1>2. pc[w] = "lock" <=> w \in Awake(pc)
  BY DEF Awake
<1>3. /\ IsFiniteSet(Awake(pc) \cup {w})
      /\ Cardinality(Awake(pc) \cup {w}) =
           IF w \in Awake(pc) THEN Cardinality(Awake(pc)) ELSE Cardinality(Awake(pc)) + 1
  BY FS_AddElement
<1>4. Cardinality(Awake(pc)) \in Nat /\ Cardinality(Awake(next)) \in Nat
  BY <1>1, <1>3, FS_CardinalityType
<1> QED BY <1>1, <1>2, <1>3, <1>4

(* One that goes elsewhere is one less. *)
LEMMA OneLess ==
  ASSUME NEW pc \in [Workers -> WorkerPC], NEW w \in Workers, IsFiniteSet(Awake(pc)),
         NEW next, NEW to, to # "lock", next = [pc EXCEPT ![w] = to]
  PROVE  /\ IsFiniteSet(Awake(next))
         /\ Cardinality(Awake(pc)) \in Nat /\ Cardinality(Awake(next)) \in Nat
         /\ Cardinality(Awake(next)) =
              IF pc[w] = "lock" THEN Cardinality(Awake(pc)) - 1 ELSE Cardinality(Awake(pc))
<1>1. Awake(next) = Awake(pc) \ {w}
  BY DEF Awake
<1>2. pc[w] = "lock" <=> w \in Awake(pc)
  BY DEF Awake
<1>3. /\ IsFiniteSet(Awake(pc) \ {w})
      /\ Cardinality(Awake(pc) \ {w}) =
           IF w \in Awake(pc) THEN Cardinality(Awake(pc)) - 1 ELSE Cardinality(Awake(pc))
  BY FS_RemoveElement
<1>4. Cardinality(Awake(pc)) \in Nat /\ Cardinality(Awake(next)) \in Nat
  BY <1>1, <1>3, FS_CardinalityType
<1> QED BY <1>1, <1>2, <1>3, <1>4

(* A signal on free_avail makes up for one more free connection. *)
LEMMA SignalPromises ==
  ASSUME NEW pc \in [Workers -> WorkerPC], NEW next \in SignalFree(pc),
         IsFiniteSet(Awake(pc))
  PROVE  /\ IsFiniteSet(Awake(next))
         /\ Cardinality(Awake(pc)) \in Nat /\ Cardinality(Awake(next)) \in Nat
         /\ \/ Waiting(next) = {}
            \/ Waiting(pc) # {} /\ Cardinality(Awake(next)) = Cardinality(Awake(pc)) + 1
<1>1. CASE Waiting(pc) = {}
  BY <1>1, FS_CardinalityType DEF SignalFree
<1>2. CASE Waiting(pc) # {}
  <2>1. PICK w \in Workers : pc[w] = "wait" /\ next = [pc EXCEPT ![w] = "lock"]
    BY <1>2 DEF SignalFree, Waiting
  <2> QED BY <1>2, <2>1, OneMore
<1> QED BY <1>1, <1>2

(* A step that brings a worker to the test and adds no free connection. *)
LEMMA PromisedByTest ==
  ASSUME Typed, Promised, NEW w \in Workers, freeNum' = freeNum, destroyed' = destroyed,
         wpc' = [wpc EXCEPT ![w] = "lock"]
  PROVE  Promised'
<1>1. wpc \in [Workers -> WorkerPC] /\ IsFiniteSet(Awake(wpc)) /\ freeNum \in Int
  BY DEF Typed, TypeOK, Promised
<1>2. /\ IsFiniteSet(Awake(wpc'))
      /\ Cardinality(Awake(wpc)) \in Nat /\ Cardinality(Awake(wpc')) \in Nat
      /\ Cardinality(Awake(wpc')) =
           IF wpc[w] = "lock" THEN Cardinality(Awake(wpc)) ELSE Cardinality(Awake(wpc)) + 1
  BY <1>1, OneMore
<1>3. Waiting(wpc') \subseteq Waiting(wpc)
  BY <1>1 DEF Waiting
<1>4. Cardinality(Awake(wpc)) <= Cardinality(Awake(wpc'))
  BY ONLY <1>2
<1>5. ~destroyed' /\ Waiting(wpc') # {} => freeNum <= Cardinality(Awake(wpc))
  BY <1>3 DEF Promised
<1>6. ~destroyed' /\ Waiting(wpc') # {} => freeNum' <= Cardinality(Awake(wpc'))
  <2>1. freeNum' = freeNum /\ freeNum \in Int
    BY <1>1
  <2> QED BY ONLY <1>2, <1>4, <1>5, <2>1
<1> QED BY <1>2, <1>6 DEF Promised

(* A step that takes a worker elsewhere from where it was not about to test.*)
LEMMA PromisedElsewhere ==
  ASSUME Typed, Promised, NEW w \in Workers, NEW to, to \notin {"lock", "wait"},
         wpc[w] # "lock", freeNum' = freeNum, destroyed' = destroyed,
         wpc' = [wpc EXCEPT ![w] = to]
  PROVE  Promised'
<1>1. wpc \in [Workers -> WorkerPC] /\ IsFiniteSet(Awake(wpc)) /\ freeNum \in Int
  BY DEF Typed, TypeOK, Promised
<1>2. Awake(wpc') = Awake(wpc) /\ Waiting(wpc') \subseteq Waiting(wpc)
  BY <1>1 DEF Awake, Waiting
<1> QED BY <1>1, <1>2 DEF Promised

(* A step that leaves the workers alone and does not add a free connection. *)
LEMMA PromisedAside ==
  ASSUME Typed, Typed', Promised, freeNum' <= freeNum, destroyed => destroyed', wpc' = wpc
  PROVE  Promised'
<1>1. /\ IsFiniteSet(Awake(wpc)) /\ freeNum \in Int /\ freeNum' \in Int
      /\ Cardinality(Awake(wpc)) \in Nat
  BY FS_CardinalityType DEF Typed, TypeOK, Promised
<1> QED BY <1>1 DEF Promised

LEMMA PromisedWorker ==
  ASSUME Typed, Promised, NEW w \in Workers,
         \/ GetEnter(w) \/ Get(w) \/ GetTimeout(w) \/ GetSpurious(w)
         \/ Release(w) \/ Crash(w)
  PROVE  Promised'
<1> USE DEF Goto, lists, counters
<1>0. /\ wpc \in [Workers -> WorkerPC] /\ IsFiniteSet(Awake(wpc)) /\ freeNum \in Int
      /\ Cardinality(Awake(wpc)) \in Nat
  BY FS_CardinalityType DEF Typed, TypeOK, Promised
<1>1. CASE GetEnter(w) \/ GetSpurious(w) \/ GetMarkBad(w)
  <2>1. /\ wpc' = [wpc EXCEPT ![w] = "lock"]
        /\ freeNum' = freeNum /\ destroyed' = destroyed
    BY <1>1 DEF GetEnter, GetSpurious, GetMarkBad
  <2> QED BY <2>1, PromisedByTest
<1>2. CASE GetWait(w)
  <2>1. /\ wpc' = [wpc EXCEPT ![w] = "wait"] /\ freeNum' = 0
    BY <1>2 DEF GetWait
  <2>2. IsFiniteSet(Awake(wpc')) /\ Cardinality(Awake(wpc')) \in Nat
    BY <1>0, <2>1, OneLess
  <2> QED BY <2>1, <2>2 DEF Promised
<1>3. CASE GetTake(w)
  <2>1. /\ wpc[w] = "lock" /\ wpc' = [wpc EXCEPT ![w] = "taken"]
        /\ freeNum' = freeNum - 1 /\ destroyed' = destroyed
    BY <1>3 DEF GetTake, UnlinkFree
  <2>2. /\ IsFiniteSet(Awake(wpc')) /\ Cardinality(Awake(wpc')) \in Nat
        /\ Cardinality(Awake(wpc')) =
             IF wpc[w] = "lock" THEN Cardinality(Awake(wpc)) - 1 ELSE Cardinality(Awake(wpc))
    BY <1>0, <2>1, OneLess
  <2>3. Waiting(wpc') \subseteq Waiting(wpc)
    BY <1>0, <2>1 DEF Waiting
  <2>4. Cardinality(Awake(wpc')) = Cardinality(Awake(wpc)) - 1
    BY <2>1, <2>2
  <2>5. ~destroyed' /\ Waiting(wpc') # {} => freeNum <= Cardinality(Awake(wpc))
    BY <2>1, <2>3 DEF Promised
  <2>6. ~destroyed' /\ Waiting(wpc') # {} => freeNum' <= Cardinality(Awake(wpc'))
    <3>1. freeNum' = freeNum - 1
      BY <2>1
    <3> QED BY ONLY <1>0, <2>2, <2>4, <2>5, <3>1
  <2> QED BY <2>2, <2>6 DEF Promised
<1>4. CASE GetTimeout(w)
  <2>1. PICK to \in {"lock", "idle", "use"} :
          /\ wpc[w] = "wait" /\ wpc' = [wpc EXCEPT ![w] = to]
          /\ freeNum' = freeNum /\ destroyed' = destroyed
    BY <1>4 DEF GetTimeout
  <2> QED BY <2>1, PromisedByTest, PromisedElsewhere
<1>5. CASE GetInUse(w) \/ ReleaseEnter(w) \/ ReleaseRemove(w) \/ ReleaseBad(w)
  <2>1. PICK to \in {"idle", "use", "rel", "removed"} :
          /\ wpc[w] # "lock" /\ wpc' = [wpc EXCEPT ![w] = to]
          /\ freeNum' = freeNum /\ destroyed' = destroyed
    BY <1>5 DEF GetInUse, ReleaseEnter, ReleaseRemove, ReleaseBad
  <2> QED BY <2>1, PromisedElsewhere
<1>6. CASE ReleaseFree(w)
  <2> DEFINE pc == [wpc EXCEPT ![w] = "idle"]
  <2>1. /\ wpc[w] = "removed" /\ wpc' \in SignalFree(pc)
        /\ freeNum' = freeNum + 1 /\ destroyed' = destroyed
    BY <1>6 DEF ReleaseFree, AppendFree
  <2>2. /\ pc \in [Workers -> WorkerPC]
        /\ Awake(pc) = Awake(wpc) /\ Waiting(pc) = Waiting(wpc)
    BY <1>0, <2>1 DEF Awake, Waiting, WorkerPC
  <2> HIDE DEF pc
  <2>3. /\ IsFiniteSet(Awake(wpc'))
        /\ Cardinality(Awake(pc)) \in Nat /\ Cardinality(Awake(wpc')) \in Nat
        /\ \/ Waiting(wpc') = {}
           \/ Waiting(pc) # {} /\ Cardinality(Awake(wpc')) = Cardinality(Awake(pc)) + 1
    BY <1>0, <2>1, <2>2, SignalPromises
  <2> QED BY <1>0, <2>1, <2>2, <2>3 DEF Promised
<1>7. CASE Crash(w)
  <2>1. /\ wpc' = [wpc EXCEPT ![w] = "crash"] /\ destroyed'
    BY <1>7 DEF Crash
  <2>2. IsFiniteSet(Awake(wpc'))
    BY <1>0, <2>1, OneLess
  <2> QED BY <2>1, <2>2 DEF Promised
<1> QED
  BY <1>1, <1>2, <1>3, <1>4, <1>5, <1>6, <1>7 DEF Get, Release

LEMMA PromisedOthers ==
  ASSUME Typed, Typed', Promised,
         \/ Repair \/ RepairTimeout \/ RepairSpurious \/ Cleanup \/ RequestQuit
         \/ ServerSwitch \/ \E c \in Conns : ConnectionFails(c)
  PROVE  Promised'
<1> USE DEF lists, counters
<1>0. /\ wpc \in [Workers -> WorkerPC] /\ IsFiniteSet(Awake(wpc)) /\ freeNum \in Nat
      /\ Cardinality(Awake(wpc)) \in Nat
  BY FS_CardinalityType DEF Typed, TypeOK, Numbers, Promised
<1>1. CASE RepairPut
  <2>1. wpc' \in SignalFree(wpc) /\ freeNum' = freeNum + 1 /\ destroyed' = destroyed
    BY <1>1 DEF RepairPut, AppendFree
  <2>2. /\ IsFiniteSet(Awake(wpc')) /\ Cardinality(Awake(wpc')) \in Nat
        /\ \/ Waiting(wpc') = {}
           \/ Waiting(wpc) # {} /\ Cardinality(Awake(wpc')) = Cardinality(Awake(wpc)) + 1
    BY <1>0, <2>1, SignalPromises
  <2> QED BY <1>0, <2>1, <2>2 DEF Promised
<1>2. CASE PoolFill
  <2>1. freeNum' <= freeNum /\ destroyed' = destroyed /\ wpc' = wpc
    BY <1>0, <1>2 DEF PoolFill
  <2> QED BY <2>1, PromisedAside
<1>3. CASE CloseFree
  <2>1. freeNum' = freeNum - Len(free) /\ destroyed' = destroyed /\ wpc' = wpc
    BY <1>3 DEF CloseFree
  <2>2. Len(free) \in Nat
    BY LenProperties DEF Typed, TypeOK
  <2>3. freeNum' <= freeNum
    BY <1>0, <2>1, <2>2
  <2> QED BY <2>1, <2>3, PromisedAside
<1>4. CASE \/ RepairWait \/ RepairTake \/ RepairTry \/ RepairResult \/ RepairTimeout
           \/ RepairSpurious \/ CloseInUse \/ CloseBad \/ DestroyLocks \/ RequestQuit
           \/ ServerSwitch \/ \E c \in Conns : ConnectionFails(c)
  <2>1. freeNum' = freeNum /\ (destroyed => destroyed') /\ wpc' = wpc
    BY <1>4 DEF RepairWait, RepairTake, RepairTry, RepairResult, RepairTimeout,
       RepairSpurious, CloseInUse, CloseBad, DestroyLocks, RequestQuit, ServerSwitch,
       ConnectionFails
  <2>2. freeNum' <= freeNum
    BY <1>0, <2>1
  <2> QED BY <2>1, <2>2, PromisedAside
<1> QED
  BY <1>1, <1>2, <1>3, <1>4 DEF Repair, Cleanup

(* No wake-up is lost, for any number of workers and connections: for each  *)
(* free connection that workers sleep beside, another worker is awake and   *)
(* will take it, though every list_append is followed by one signal only    *)
(* and the workers that are woken are not those that come first.            *)
THEOREM WakeupsKept == Spec => []NoLostWakeup
<1>1. Init => Promised
  <2>1. Init => Awake(wpc) = {} /\ Waiting(wpc) = {}
    BY DEF Init, Awake, Waiting
  <2> QED BY <2>1, FS_EmptySet DEF Promised
<1>2. Typed /\ Typed' /\ Promised /\ [Next]_vars => Promised'
  <2> SUFFICES ASSUME Typed, Typed', Promised, [Next]_vars PROVE Promised'
    OBVIOUS
  <2>1. CASE Next
    BY <2>1, PromisedWorker, PromisedOthers DEF Next, ServiceNext
  <2>2. CASE UNCHANGED vars
    BY <2>2 DEF vars, Promised
  <2> QED BY <2>1, <2>2
<1>3. Promised => NoLostWakeup
  BY DEF Promised, NoLostWakeup, Awake
<1> QED BY <1>1, <1>2, <1>3, Typing, PTL DEF Spec
-----------------------------------------------------------------------------
(* The counters                                                            *)

(* A list without duplicates has as many members as its length says. *)
LEMMA ListCardinality ==
  ASSUME NEW S, NEW s \in Seq(S), IsInjective(s)
  PROVE  Cardinality(Range(s)) = Len(s)
<1>1. DOMAIN s = 1 .. Len(s) /\ Len(s) \in Nat /\ s \in [1 .. Len(s) -> S]
  BY LenProperties
<1>2. s \in [1 .. Len(s) -> Range(s)]
  BY <1>1 DEF Range
<1>3. s \in Surjection(1 .. Len(s), Range(s)) /\ s \in Injection(1 .. Len(s), Range(s))
  BY <1>1, <1>2 DEF Surjection, Injection, IsInjective, Range
<1>4. 1 \in Int /\ Len(s) \in Int
  BY <1>1
<1>5. IsFiniteSet(1 .. Len(s)) /\ Cardinality(1 .. Len(s)) = Len(s)
  <2>1. /\ IsFiniteSet(1 .. Len(s))
        /\ Cardinality(1 .. Len(s)) = IF 1 > Len(s) THEN 0 ELSE Len(s) - 1 + 1
    BY <1>4, FS_Interval
  <2> QED BY <1>1, <2>1
<1> QED BY <1>3, <1>5, FS_Surjection

(* inuse_num counts the members of the in-use list: what is appended was    *)
(* not there, what is unlinked was.                                         *)
InUseCounted == ~quit => inuseNum = Cardinality(inuse)

LEMMA InUseCountedWorker ==
  ASSUME Typed, Serving, inuseNum = Cardinality(inuse), NEW w \in Workers,
         \/ GetEnter(w) \/ Get(w) \/ GetTimeout(w) \/ GetSpurious(w)
         \/ Release(w) \/ Crash(w)
  PROVE  inuseNum' = Cardinality(inuse')
<1> USE DEF Goto, lists, counters
<1>0. IsFiniteSet(inuse)
  BY InUseFinite DEF Typed, TypeOK
<1>1. CASE GetInUse(w)
  <2>1. /\ inuse' = inuse \cup {held[w]} /\ inuseNum' = inuseNum + 1
        /\ held[w] \notin inuse
    BY <1>1 DEF GetInUse, AppendInuse, Serving, OwnersApart, Moved
  <2> QED BY <1>0, <2>1, FS_AddElement
<1>2. CASE ReleaseRemove(w)
  <2>1. /\ inuse' = inuse \ {held[w]} /\ inuseNum' = inuseNum - 1
        /\ held[w] \in inuse
    BY <1>2 DEF ReleaseRemove, UnlinkInuse, Serving, OwnersApart, Lent
  <2> QED BY <1>0, <2>1, FS_RemoveElement
<1>3. CASE \/ GetEnter(w) \/ GetWait(w) \/ GetTake(w) \/ GetMarkBad(w) \/ GetTimeout(w)
           \/ GetSpurious(w) \/ ReleaseEnter(w) \/ ReleaseBad(w) \/ ReleaseFree(w) \/ Crash(w)
  BY <1>3 DEF GetEnter, GetWait, GetTake, GetMarkBad, GetTimeout, GetSpurious,
     ReleaseEnter, ReleaseBad, ReleaseFree, Crash
<1> QED
  BY <1>1, <1>2, <1>3 DEF Get, Release

LEMMA InUseCountedOthers ==
  ASSUME Typed, Serving, inuseNum = Cardinality(inuse),
         \/ Repair \/ RepairTimeout \/ RepairSpurious \/ Cleanup
         \/ ServerSwitch \/ \E c \in Conns : ConnectionFails(c)
  PROVE  inuseNum' = Cardinality(inuse')
<1> USE DEF lists, counters
<1>1. CASE PoolFill
  <2>1. inuseNum' = 0 /\ inuse' = {}
    BY <1>1 DEF PoolFill, Typed, Unfilled, Filled
  <2> QED BY <2>1, FS_EmptySet
<1>2. CASE Cleanup
  BY <1>2 DEF Cleanup, CloseFree, CloseInUse, CloseBad, DestroyLocks, Serving, ServicePC
<1>3. CASE \/ RepairWait \/ RepairTake \/ RepairTry \/ RepairResult \/ RepairPut
           \/ RepairTimeout \/ RepairSpurious
           \/ ServerSwitch \/ \E c \in Conns : ConnectionFails(c)
  BY <1>3 DEF RepairWait, RepairTake, RepairTry, RepairResult, RepairPut, RepairTimeout,
     RepairSpurious, ServerSwitch, ConnectionFails
<1> QED
  BY <1>1, <1>2, <1>3 DEF Repair

(* Until a shutdown is requested no connection is linked twice and the      *)
(* counters the waits test are the lengths of the lists.                    *)
THEOREM CountersCount == Spec => []CountersMatch
<1>1. Init => InUseCounted
  BY FS_EmptySet DEF Init, InUseCounted
<1>2. Typed /\ Places /\ InUseCounted /\ [Next]_vars => InUseCounted'
  <2> SUFFICES ASSUME Typed, Places, InUseCounted, [Next]_vars, ~quit'
               PROVE  inuseNum' = Cardinality(inuse')
    BY DEF InUseCounted
  <2>1. CASE Next
    BY <2>1, QuitSteps, InUseCountedWorker, InUseCountedOthers DEF Places, InUseCounted
  <2>2. CASE UNCHANGED vars
    BY <2>2 DEF vars, InUseCounted
  <2> QED BY <2>1, <2>2
<1>3. Typed /\ Places /\ InUseCounted => CountersMatch
  <2> SUFFICES ASSUME Typed, Serving, ~quit, inuseNum = Cardinality(inuse)
               PROVE  CountersMatch
    BY DEF Places, InUseCounted, CountersMatch
  <2>1. badNum = Len(bad) /\ freeNum = Len(free)
    BY DEF Typed, Numbers, Serving
  <2>2. Cardinality(Range(bad)) = Len(bad) /\ Cardinality(Range(free)) = Len(free)
    BY ListCardinality DEF Typed, TypeOK, Serving, ListsApart
  <2> QED BY <2>1, <2>2 DEF CountersMatch
<1> QED BY <1>1, <1>2, <1>3, Typing, OnePlace, PTL DEF Spec
=============================================================================
