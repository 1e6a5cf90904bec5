---------------------------- MODULE DaemonProofs ----------------------------
(***************************************************************************)
(* Proofs about Daemon and the lists of FileConfig it starts with, for any *)
(* set of files and any choice of periodic instances.                      *)
(***************************************************************************)
EXTENDS Daemon, WellFoundedInduction, TLAPS

-----------------------------------------------------------------------------
(* The lists that create_conf() makes                                      *)

(* The largest of some positions: the complement to n of the least of their *)
(* complements.                                                             *)
LEMMA MaxOfPositions ==
  ASSUME NEW n \in Nat, NEW S \in SUBSET (0 .. n), S # {}
  PROVE  Max(S) \in S
<1> DEFINE T == {n - k : k \in S}
<1>0. \A k \in S : k \in Nat /\ k <= n
  OBVIOUS
<1>1. T \subseteq Nat /\ T # {}
  <2>1. \A k \in S : n - k \in Nat
    BY <1>0
  <2>2. PICK k \in S : TRUE
    OBVIOUS
  <2> QED BY <2>1, <2>2, Zenon
<1>2. PICK x \in T : \A y \in T : ~ (<<y, x>> \in OpToRel(<, Nat))
  <2> HIDE DEF T
  <2> QED BY <1>1, NatLessThanWellFounded, WFMin, Zenon
<1>3. \A y \in T : ~ (y < x)
  <2> HIDE DEF T
  <2>1. \A y \in Nat : y < x => <<y, x>> \in OpToRel(<, Nat)
    BY <1>1, Zenon DEF OpToRel
  <2> QED BY <1>1, <1>2, <2>1
<1>4. PICK k \in S : x = n - k
  BY <1>2
<1>5. \A j \in S : k >= j
  BY <1>0, <1>3, <1>4
<1> QED BY <1>5 DEF Max

(* What Find gives is an entry of the list or nothing. *)
LEMMA FindFinds ==
  ASSUME NEW list, NEW n \in Nat, DOMAIN list \subseteq 1 .. n, NEW name
  PROVE  \/ Find(list, name) = 0
         \/ Find(list, name) \in DOMAIN list /\ list[Find(list, name)].name = name
<1> DEFINE S == {0} \cup {k \in DOMAIN list : list[k].name = name}
<1>1. S \in SUBSET (0 .. n) /\ S # {}
  OBVIOUS
<1>2. Max(S) \in S
  BY <1>1, MaxOfPositions
<1> QED BY <1>2 DEF Find

(* The lists are sequences, or kept to the positions of the entries of one  *)
(* kind; two sensors that share a data set have the same name.              *)
Shaped(c) ==
  /\ IsConf(c)
  /\ \A l \in {"storP", "sensP", "protoP", "authP", "stor", "sens"} :
       DOMAIN c[l] \subseteq 1 .. MaxDefs
  /\ \A l \in {"stor", "sens", "sys", "dsts"} :
       c[l] \in Seq(ToSet(c[l])) /\ Len(c[l]) \in Nat /\ DOMAIN c[l] = 1 .. Len(c[l])
  /\ \A x, y \in DOMAIN c.sens :
       c.sens[x].dsets \cap c.sens[y].dsets # {} => c.sens[x].name = c.sens[y].name

LEMMA MadeSequence ==
  ASSUME NEW n \in Nat, NEW list, list = [k \in 1 .. n |-> list[k]]
  PROVE  list \in Seq(ToSet(list))
<1>1. list \in [1 .. n -> ToSet(list)]
  BY DEF ToSet
<1> QED BY <1>1

LEMMA NoneEmpty ==
  ASSUME NEW list, list \in Seq(ToSet(list)), list # <<>>
  PROVE  DOMAIN list # {}
<1>1. Len(list) \in Nat /\ DOMAIN list = 1 .. Len(list) /\ (Len(list) = 0 => list = <<>>)
  OBVIOUS
<1>2. 1 \in 1 .. Len(list)
  BY <1>1
<1> QED BY <1>1, <1>2

LEMMA PluginsShaped ==
  ASSUME NEW f \in Files, NEW type
  PROVE  DOMAIN Plugins(f, type) \subseteq 1 .. MaxDefs
<1>1. f.plugins \in Seq(PluginDefs) /\ Len(f.plugins) \in 0 .. MaxDefs
  BY DaemonAssumption DEF IsFile
<1>2. DOMAIN f.plugins \subseteq 1 .. MaxDefs
  BY <1>1, DaemonAssumption
<1> QED BY <1>2 DEF Plugins

LEMMA InstancesShaped ==
  ASSUME NEW defs \in Seq(InstanceDefs), Len(defs) \in 0 .. MaxDefs,
         NEW plugins, DOMAIN plugins \subseteq 1 .. MaxDefs, NEW named,
         NEW list, list = Instances(defs, plugins, named)
  PROVE  /\ list \in Seq(ToSet(list)) /\ Len(list) \in Nat /\ DOMAIN list = 1 .. Len(list)
         /\ DOMAIN list \subseteq 1 .. MaxDefs
         /\ \A k \in DOMAIN list :
              /\ list[k].plug \in {0} \cup DOMAIN plugins
              /\ list[k].dsets = {j \in DOMAIN named : named[j] = list[k].name}
<1>1. /\ Len(list) \in Nat /\ DOMAIN list = 1 .. Len(list)
      /\ DOMAIN list \subseteq 1 .. MaxDefs
  BY DaemonAssumption DEF Instances
<1>a. list \in Seq(ToSet(list))
  <2>1. list = [k \in 1 .. Len(defs) |-> list[k]]
    BY DEF Instances
  <2> QED BY <2>1, MadeSequence
<1>2. ASSUME NEW k \in DOMAIN list
      PROVE  /\ list[k].plug = Find(plugins, defs[k].plugin)
             /\ list[k].dsets = {j \in DOMAIN named : named[j] = list[k].name}
  BY <1>2 DEF Instances
<1>3. ASSUME NEW k \in DOMAIN list PROVE list[k].plug \in {0} \cup DOMAIN plugins
  BY <1>2, <1>3, FindFinds, DaemonAssumption
<1> QED BY <1>a, <1>1, <1>2, <1>3

(* create_conf() makes lists of that shape; when it returns 0 and           *)
(* nv_validate_conf() is satisfied, no link is NULL.                        *)
Linked(c) ==
  /\ \A k \in DOMAIN c.stor : c.stor[k].plug # 0
  /\ \A k \in DOMAIN c.sens : c.sens[k].plug # 0
  /\ \A d \in DOMAIN c.dsts : c.dsts[d].stor # 0 /\ c.dsts[d].sys # 0

LEMMA CreateConfIs ==
  ASSUME NEW f \in Files
  PROVE  Shaped(CreateConf(f).lists) /\ (CreateConf(f).ok => Linked(CreateConf(f).lists))
<1> DEFINE c       == CreateConf(f).lists
           forStor == [j \in DOMAIN f.dsets |-> f.dsets[j].storage]
           forSens == [j \in DOMAIN f.dsets |-> f.dsets[j].sensor]
<1>1. /\ f.plugins \in Seq(PluginDefs) /\ f.storages \in Seq(InstanceDefs)
      /\ f.sensors \in Seq(InstanceDefs) /\ f.systems \in Seq(SystemDefs)
      /\ f.dsets \in Seq(DataSetDefs)
      /\ Len(f.storages) \in 0 .. MaxDefs /\ Len(f.sensors) \in 0 .. MaxDefs
  BY DaemonAssumption DEF IsFile
<1>2. /\ c.storP = Plugins(f, "storage") /\ c.sensP = Plugins(f, "sensor")
      /\ c.protoP = Plugins(f, "proto") /\ c.authP = Plugins(f, "auth")
      /\ c.stor = Instances(f.storages, c.storP, forStor)
      /\ c.sens = Instances(f.sensors, c.sensP, forSens)
      /\ c.sys = [k \in DOMAIN f.systems |-> [name |-> Kept[f.systems[k].name]]]
      /\ c.dsts = [j \in DOMAIN f.dsets |->
                     [name |-> Kept[f.dsets[j].name],
                      sens |-> Find(c.sens, f.dsets[j].sensor),
                      stor |-> Find(c.stor, f.dsets[j].storage),
                      sys  |-> Find(c.sys, f.dsets[j].system)]]
      /\ CreateConf(f).ok = NoError(f, c)
  BY DEF CreateConf
<1> HIDE DEF c
<1>3. \A l \in {"storP", "sensP", "protoP", "authP"} : DOMAIN c[l] \subseteq 1 .. MaxDefs
  BY <1>2, PluginsShaped
<1>4. /\ c.stor \in Seq(ToSet(c.stor)) /\ Len(c.stor) \in Nat /\ DOMAIN c.stor = 1 .. Len(c.stor)
      /\ DOMAIN c.stor \subseteq 1 .. MaxDefs
      /\ \A k \in DOMAIN c.stor :
           /\ c.stor[k].plug \in {0} \cup DOMAIN c.storP
           /\ c.stor[k].dsets = {j \in DOMAIN f.dsets : f.dsets[j].storage = c.stor[k].name}
  <2>1. DOMAIN c.storP \subseteq 1 .. MaxDefs
    BY <1>3
  <2>2. DOMAIN forStor = DOMAIN f.dsets /\ \A j \in DOMAIN forStor : forStor[j] = f.dsets[j].storage
    OBVIOUS
  <2> HIDE DEF forStor
  <2>3. /\ c.stor \in Seq(ToSet(c.stor)) /\ Len(c.stor) \in Nat /\ DOMAIN c.stor = 1 .. Len(c.stor)
        /\ DOMAIN c.stor \subseteq 1 .. MaxDefs
        /\ \A k \in DOMAIN c.stor :
             /\ c.stor[k].plug \in {0} \cup DOMAIN c.storP
             /\ c.stor[k].dsets = {j \in DOMAIN forStor : forStor[j] = c.stor[k].name}
    <3>1. c.stor = Instances(f.storages, c.storP, forStor)
      BY <1>2
    <3>2. f.storages \in Seq(InstanceDefs) /\ Len(f.storages) \in 0 .. MaxDefs
      BY <1>1
    <3> QED BY ONLY <2>1, <3>1, <3>2, InstancesShaped
  <2> QED BY <2>2, <2>3
<1>5. /\ c.sens \in Seq(ToSet(c.sens)) /\ Len(c.sens) \in Nat /\ DOMAIN c.sens = 1 .. Len(c.sens)
      /\ DOMAIN c.sens \subseteq 1 .. MaxDefs
      /\ \A k \in DOMAIN c.sens :
           /\ c.sens[k].plug \in {0} \cup DOMAIN c.sensP
           /\ c.sens[k].dsets = {j \in DOMAIN f.dsets : f.dsets[j].sensor = c.sens[k].name}
  <2>1. DOMAIN c.sensP \subseteq 1 .. MaxDefs
    BY <1>3
  <2>2. DOMAIN forSens = DOMAIN f.dsets /\ \A j \in DOMAIN forSens : forSens[j] = f.dsets[j].sensor
    OBVIOUS
  <2> HIDE DEF forSens
  <2>3. /\ c.sens \in Seq(ToSet(c.sens)) /\ Len(c.sens) \in Nat /\ DOMAIN c.sens = 1 .. Len(c.sens)
        /\ DOMAIN c.sens \subseteq 1 .. MaxDefs
        /\ \A k \in DOMAIN c.sens :
             /\ c.sens[k].plug \in {0} \cup DOMAIN c.sensP
             /\ c.sens[k].dsets = {j \in DOMAIN forSens : forSens[j] = c.sens[k].name}
    <3>1. c.sens = Instances(f.sensors, c.sensP, forSens)
      BY <1>2
    <3>2. f.sensors \in Seq(InstanceDefs) /\ Len(f.sensors) \in 0 .. MaxDefs
      BY <1>1
    <3> QED BY ONLY <2>1, <3>1, <3>2, InstancesShaped
  <2> QED BY <2>2, <2>3
<1>6. /\ Len(c.sys) \in Nat /\ DOMAIN c.sys = 1 .. Len(c.sys)
      /\ Len(c.dsts) \in Nat /\ DOMAIN c.dsts = 1 .. Len(c.dsts)
      /\ DOMAIN c.dsts = DOMAIN f.dsets
  BY <1>1, <1>2
<1>7. \A d \in DOMAIN c.dsts :
        /\ c.dsts[d].sens = Find(c.sens, f.dsets[d].sensor)
        /\ c.dsts[d].stor = Find(c.stor, f.dsets[d].storage)
        /\ c.dsts[d].sys = Find(c.sys, f.dsets[d].system)
  <2>1. c.dsts = [j \in DOMAIN f.dsets |->
                    [name |-> Kept[f.dsets[j].name],
                     sens |-> Find(c.sens, f.dsets[j].sensor),
                     stor |-> Find(c.stor, f.dsets[j].storage),
                     sys  |-> Find(c.sys, f.dsets[j].system)]]
    BY ONLY <1>2
  <2>2. ASSUME NEW d \in DOMAIN f.dsets
        PROVE  /\ c.dsts[d].sens = Find(c.sens, f.dsets[d].sensor)
               /\ c.dsts[d].stor = Find(c.stor, f.dsets[d].storage)
               /\ c.dsts[d].sys = Find(c.sys, f.dsets[d].system)
    BY ONLY <2>1, d \in DOMAIN f.dsets
  <2> QED BY ONLY <1>6, <2>2
<1>8. \A d \in DOMAIN c.dsts :
        /\ c.dsts[d].sens \in {0} \cup DOMAIN c.sens
        /\ c.dsts[d].stor \in {0} \cup DOMAIN c.stor
        /\ c.dsts[d].sys \in {0} \cup DOMAIN c.sys
  <2>1. ASSUME NEW name
        PROVE  /\ Find(c.sens, name) \in {0} \cup DOMAIN c.sens
               /\ Find(c.stor, name) \in {0} \cup DOMAIN c.stor
               /\ Find(c.sys, name) \in {0} \cup DOMAIN c.sys
    <3>1. Find(c.sens, name) \in {0} \cup DOMAIN c.sens
      BY <1>5, FindFinds
    <3>2. Find(c.stor, name) \in {0} \cup DOMAIN c.stor
      BY <1>4, FindFinds
    <3>3. Find(c.sys, name) \in {0} \cup DOMAIN c.sys
      BY <1>6, FindFinds
    <3> QED BY <3>1, <3>2, <3>3
  <2> QED BY <1>7, <2>1
<1>9. \A d \in DOMAIN c.dsts, k \in DOMAIN c.stor :
        c.dsts[d].stor = k => d \in c.stor[k].dsets
  <2>1. ASSUME NEW k \in DOMAIN c.stor, NEW name, Find(c.stor, name) = k
        PROVE  c.stor[k].name = name
    <3>1. DOMAIN c.stor \subseteq 1 .. MaxDefs
      BY <1>4
    <3>2. k # 0
      BY <3>1, DaemonAssumption
    <3> QED BY <2>1, <3>1, <3>2, FindFinds, DaemonAssumption
  <2> QED BY <1>4, <1>6, <1>7, <2>1
<1>10. \A d \in DOMAIN c.dsts, k \in DOMAIN c.sens :
        c.dsts[d].sens = k => d \in c.sens[k].dsets
  <2>1. ASSUME NEW k \in DOMAIN c.sens, NEW name, Find(c.sens, name) = k
        PROVE  c.sens[k].name = name
    <3>1. DOMAIN c.sens \subseteq 1 .. MaxDefs
      BY <1>5
    <3>2. k # 0
      BY <3>1, DaemonAssumption
    <3> QED BY <2>1, <3>1, <3>2, FindFinds, DaemonAssumption
  <2> QED BY <1>5, <1>6, <1>7, <2>1
<1>11. IsConf(c)
  <2>1. \A k \in DOMAIN c.stor :
          /\ c.stor[k].plug \in {0} \cup DOMAIN c.storP
          /\ {d \in DOMAIN c.dsts : c.dsts[d].stor = k} \subseteq c.stor[k].dsets
          /\ c.stor[k].dsets \subseteq DOMAIN c.dsts
    BY <1>4, <1>6, <1>9
  <2>2. \A k \in DOMAIN c.sens :
          /\ c.sens[k].plug \in {0} \cup DOMAIN c.sensP
          /\ {d \in DOMAIN c.dsts : c.dsts[d].sens = k} \subseteq c.sens[k].dsets
          /\ c.sens[k].dsets \subseteq DOMAIN c.dsts
    BY <1>5, <1>6, <1>10
  <2> QED BY <1>8, <2>1, <2>2 DEF IsConf
<1>12. Shaped(c)
  <2>1. c.sys \in Seq(ToSet(c.sys)) /\ c.dsts \in Seq(ToSet(c.dsts))
    <3>1. c.sys = [k \in 1 .. Len(c.sys) |-> c.sys[k]]
      BY <1>2, <1>6
    <3>2. c.dsts = [k \in 1 .. Len(c.dsts) |-> c.dsts[k]]
      BY <1>2, <1>6
    <3> QED BY <1>6, <3>1, <3>2, MadeSequence
  <2> QED BY <1>3, <1>4, <1>5, <1>6, <1>11, <2>1 DEF Shaped
<1>13. NoError(f, c) => Linked(c)
  BY DEF NoError, InstancesLinked, DataSetsLinked, Linked, ToSet
<1> QED BY <1>2, <1>12, <1>13 DEF c

LEMMA NoListsShaped == Shaped(NoLists)
<1>1. /\ \A l \in {"storP", "sensP", "protoP", "authP", "stor", "sens", "sys", "dsts"} :
           NoLists[l] = <<>>
      /\ NoLists.sens = <<>> /\ NoLists.dsts = <<>>
  BY DEF NoLists
<1>2. Len(<<>>) = 0 /\ DOMAIN <<>> = {} /\ 1 .. 0 = {} /\ <<>> \in Seq(ToSet(<<>>))
  OBVIOUS
<1>3. IsConf(NoLists)
  BY <1>1, <1>2 DEF IsConf
<1>4. /\ \A l \in {"storP", "sensP", "protoP", "authP", "stor", "sens"} :
           DOMAIN NoLists[l] \subseteq 1 .. MaxDefs
      /\ \A l \in {"stor", "sens", "sys", "dsts"} :
           /\ NoLists[l] \in Seq(ToSet(NoLists[l])) /\ Len(NoLists[l]) \in Nat
           /\ DOMAIN NoLists[l] = 1 .. Len(NoLists[l])
  <2>1. ASSUME NEW list, list = <<>>
        PROVE  /\ list \in Seq(ToSet(list)) /\ Len(list) \in Nat
               /\ DOMAIN list = 1 .. Len(list) /\ DOMAIN list = {}
    BY <1>2, <2>1
  <2> HIDE DEF NoLists
  <2> QED BY <1>1, <2>1
<1>5. DOMAIN NoLists.sens = {}
  BY <1>1, <1>2
<1> HIDE DEF NoLists
<1> QED BY <1>3, <1>4, <1>5 DEF Shaped

LEMMA ConfigShaped ==
  ASSUME NEW c \in ConfigPInit
  PROVE  Shaped(c.lists) /\ c.ok \in BOOLEAN /\ (c.ok => Linked(c.lists))
<1>1. CASE c = Failed
  BY <1>1, NoListsShaped DEF Failed
<1>2. CASE \E f \in Files : c = CreateConf(f)
  <2>1. PICK f \in Files : c = CreateConf(f)
    BY <1>2
  <2>2. c.ok = NoError(f, c.lists)
    BY <2>1 DEF CreateConf
  <2> QED BY <2>1, <2>2, CreateConfIs DEF NoError, PluginsComplete, DataSetsLinked
<1> QED BY <1>1, <1>2 DEF ConfigPInit, ConfigRead

-----------------------------------------------------------------------------
(* Typing                                                                  *)

Phases == DOMAIN After \cup {"cleanup"} \cup Ended

(* The lists are made once, before anything is done with them, and what is  *)
(* left of a list belongs to it.                                            *)
Flow ==
  /\ Shaped(conf)
  /\ todo \subseteq List(conf, phase)
  /\ phase \in {"plugins", "config"} => ~built /\ \A x \in Threads : thread[x] = "none"
  /\ \A x \in Threads : thread[x] # "none" => x[2] \in DOMAIN conf[x[1]]
  /\ built => Linked(conf) /\ conf.stor # <<>> /\ conf.dsts # <<>> /\ phase # "dangling"

Typed == TypeOK /\ Flow

(* The entries that a phase goes through have the names of their list. *)
LEMMA ListIs ==
  ASSUME NEW c, Shaped(c), NEW p
  PROVE  /\ p \in Loading => List(c, p) \subseteq Plugin
         /\ p \in {"stor", "sens", "storT", "sensT", "storJ", "sensJ"} => List(c, p) \subseteq Instance
         /\ p \in {"storT", "storJ"} => List(c, p) = List(c, "stor")
         /\ p \in {"sensT", "sensJ"} => List(c, p) = List(c, "sens")
         /\ p \in Starting \cup Joining => List(c, p) \subseteq Threads
         /\ p \notin Loading \cup Initing \cup Starting \cup Joining => List(c, p) = {}
         /\ \A x \in List(c, p) : x[2] \in DOMAIN c[x[1]]
<1>1. \A l \in {"storP", "sensP", "protoP", "authP", "stor", "sens"} :
        DOMAIN c[l] \subseteq 1 .. MaxDefs
  BY DEF Shaped
<1>2. /\ p \in Loading => List(c, p) = {p} \X DOMAIN c[p]
      /\ p \in {"stor", "storT", "storJ"} => List(c, p) = {"stor"} \X DOMAIN c["stor"]
      /\ p \in {"sens", "sensT", "sensJ"} => List(c, p) = {"sens"} \X DOMAIN c["sens"]
      /\ p = "protoT" => List(c, p) = {"protoP"} \X DOMAIN c["protoP"]
      /\ p \notin Loading \cup Initing \cup Starting \cup Joining => List(c, p) = {}
  BY DEF List, Of, Loading, Initing, Starting, Joining
<1>3. \A l \in Loading : {l} \X DOMAIN c[l] \subseteq Plugin
  BY <1>1 DEF Plugin, Loading
<1>4. \A l \in Initing : {l} \X DOMAIN c[l] \subseteq Instance
  BY <1>1 DEF Instance, Initing
<1>5. p \in {"storT", "storJ"} => List(c, p) = List(c, "stor")
  BY <1>2 DEF List, Of
<1>6. p \in {"sensT", "sensJ"} => List(c, p) = List(c, "sens")
  BY <1>2 DEF List, Of
<1>7. {"protoP"} \X DOMAIN c["protoP"] \subseteq Threads
  BY <1>3 DEF Threads, Loading
<1>8. p \in Starting \cup Joining => List(c, p) \subseteq Threads
  BY <1>2, <1>4, <1>7 DEF Starting, Joining, Initing, Threads
<1>9. \A x \in List(c, p) : x[2] \in DOMAIN c[x[1]]
  BY DEF List
<1>10. /\ p \in Loading => List(c, p) \subseteq Plugin
       /\ p \in {"stor", "sens", "storT", "sensT", "storJ", "sensJ"} => List(c, p) \subseteq Instance
  BY <1>2, <1>3, <1>4 DEF Initing
<1> QED BY <1>2, <1>5, <1>6, <1>8, <1>9, <1>10

LEMMA Started ==
  /\ \A p \in DOMAIN After : After[p] \in DOMAIN After \cup {"cleanup"} /\ After[p] \notin {"plugins"}
  /\ \A p \in DOMAIN After \ {"plugins"} : After[p] \notin {"plugins", "config"}
  /\ After["plugins"] = "config" /\ After["config"] = "storP"
  /\ Loading \cup Initing \cup Starting \cup Joining \cup {"plugins", "config", "fork"} = DOMAIN After
BY DEF After, Loading, Initing, Starting, Joining

LEMMA TypedInit == Init => Typed
<1> SUFFICES ASSUME Init PROVE Typed
  OBVIOUS
<1>1. Shaped(conf) /\ List(conf, "plugins") = {}
  BY NoListsShaped DEF Init, List, Of
<1>2. TypeOK
  BY <1>1 DEF Init, TypeOK, After, ThreadState, Shaped
<1>3. Flow
  BY <1>1 DEF Init, Flow
<1> QED BY <1>2, <1>3 DEF Typed

(* A step that leaves the configuration and the threads alone: to the next  *)
(* phase, to the next entry or to an end.                                   *)
LEMMA TypedMove ==
  ASSUME Typed, UNCHANGED <<foreground, config, thread>>, phase # "config",
         phase' \in Phases, todo' \subseteq List(conf, phase'),
         phase' \in {"plugins", "config"} => phase = "plugins",
         phase' # "dangling" \/ ~built,
         loaded' \subseteq Plugin, inited' \subseteq Instance,
         bad' \in BOOLEAN, stat' \in {"success", "failure"}
  PROVE  Typed'
<1>1. todo' \subseteq Plugin \cup Instance
  <2>1. List(conf, phase') \subseteq Plugin \cup Instance
    BY ListIs DEF Typed, Flow, Threads, Loading, Initing, Starting, Joining
  <2> QED BY <2>1
<1>2. TypeOK'
  BY <1>1 DEF Typed, TypeOK, Phases, config
<1>3. Flow'
  BY DEF Typed, Flow, config
<1> QED BY <1>2, <1>3 DEF Typed

LEMMA PluginsInitTyped == Typed /\ PluginsInit => Typed'
<1> SUFFICES ASSUME Typed, PluginsInit PROVE Typed'
  OBVIOUS
<1>1. phase' \in Phases /\ todo' \subseteq List(conf, phase') /\ phase' # "dangling"
  BY Started DEF PluginsInit, Advance, Abort, Phases
<1> QED BY <1>1, TypedMove DEF PluginsInit, Advance, Abort, Typed, TypeOK

LEMMA ConfigInitTyped == Typed /\ ConfigInit => Typed'
<1> SUFFICES ASSUME Typed, ConfigInit PROVE Typed'
  OBVIOUS
<1>1. PICK c \in ConfigPInit :
        /\ conf' = c.lists
        /\ built' = (c.ok /\ Enough(c.lists))
        /\ \/ Advance(c.lists) /\ UNCHANGED stat
           \/ Abort
  BY DEF ConfigInit
<1>2. Shaped(conf') /\ built' \in BOOLEAN /\ (built' => Linked(conf'))
  BY <1>1, ConfigShaped DEF Enough
<1>3. built' => conf'.stor # <<>> /\ conf'.dsts # <<>>
  BY <1>1 DEF Enough
<1>4. /\ phase' \in {"storP", "cleanup"} /\ todo' \subseteq List(conf', phase')
      /\ stat' \in {"success", "failure"}
  BY <1>1, Started DEF ConfigInit, Advance, Abort, Typed, TypeOK
<1>5. todo' \subseteq Plugin
  BY <1>2, <1>4, ListIs DEF Loading, Initing, Starting, Joining
<1>6. TypeOK'
  BY <1>2, <1>4, <1>5 DEF ConfigInit, Typed, TypeOK, After, Shaped
<1>7. Flow'
  BY <1>2, <1>3, <1>4 DEF ConfigInit, Typed, Flow
<1> QED BY <1>6, <1>7 DEF Typed

LEMMA DangleTyped ==
  Typed /\ (ConfigDangles \/ InstanceWithoutPlugin) => Typed'
<1> SUFFICES ASSUME Typed, ConfigDangles \/ InstanceWithoutPlugin PROVE Typed'
  OBVIOUS
<1>1. phase' = "dangling" /\ todo' = {}
      /\ UNCHANGED <<foreground, config, loaded, inited, bad, stat, thread>>
  BY DEF ConfigDangles, InstanceWithoutPlugin, Dangle
<1>2. ~built
  <2>1. CASE ConfigDangles
    BY <2>1 DEF ConfigDangles, Typed, Flow
  <2>2. CASE InstanceWithoutPlugin
    <3>1. PICK x \in todo : Entry(x).plug = 0 /\ phase \in Initing
      BY <2>2 DEF InstanceWithoutPlugin
    <3>2. x[1] \in {"stor", "sens"} /\ x[2] \in DOMAIN conf[x[1]]
      BY <3>1 DEF Typed, Flow, List, Of, Initing
    <3> QED BY <3>1, <3>2 DEF Typed, Flow, Linked, Entry
  <2> QED BY <2>1, <2>2
<1>3. TypeOK'
  BY <1>1 DEF Typed, TypeOK, Ended, config
<1>4. Flow'
  BY <1>1, <1>2 DEF Typed, Flow, config
<1> QED BY <1>3, <1>4 DEF Typed

LEMMA LoadPluginTyped == Typed /\ LoadPlugin => Typed'
<1> SUFFICES ASSUME Typed, LoadPlugin PROVE Typed'
  OBVIOUS
<1>1. PICK x \in todo : todo' = todo \ {x} /\ loaded' \subseteq loaded \cup {x} /\ bad' \in {bad, TRUE}
  BY DEF LoadPlugin
<1>2. x \in Plugin
  BY ListIs DEF LoadPlugin, Typed, Flow
<1> QED BY <1>1, <1>2, TypedMove DEF LoadPlugin, Loading, Phases, Typed, TypeOK, Flow

LEMMA NextPhaseTyped ==
  ASSUME Typed, UNCHANGED <<foreground, config, thread, loaded, inited>>,
         phase \in DOMAIN After \ {"plugins", "config"},
         Abort \/ (Advance(conf) /\ UNCHANGED stat), bad' \in BOOLEAN
  PROVE  Typed'
<1>1. phase' \in DOMAIN After \cup {"cleanup"} /\ phase' \notin {"plugins", "config"}
  BY Started DEF Abort, Advance
<1>2. phase' # "dangling"
  BY <1>1 DEF After
<1>3. todo' \subseteq List(conf, phase') /\ stat' \in {"success", "failure"}
  BY DEF Abort, Advance, Typed, TypeOK
<1> QED BY <1>1, <1>2, <1>3, TypedMove DEF Phases, Typed, TypeOK

LEMMA PluginsLoadedTyped == Typed /\ PluginsLoaded => Typed'
<1> SUFFICES ASSUME Typed, PluginsLoaded PROVE Typed'
  OBVIOUS
<1>1. phase \in DOMAIN After \ {"plugins", "config"}
  BY DEF PluginsLoaded, Loading, After
<1> QED BY <1>1, NextPhaseTyped DEF PluginsLoaded

LEMMA EndPhaseTyped == Typed /\ EndPhase => Typed'
<1> SUFFICES ASSUME Typed, EndPhase PROVE Typed'
  OBVIOUS
<1>1. phase \in DOMAIN After \ {"plugins", "config"}
  BY DEF EndPhase, Initing, Starting, Joining, After
<1> QED BY <1>1, NextPhaseTyped DEF EndPhase, Typed, TypeOK

LEMMA InitInstanceTyped == Typed /\ InitInstance => Typed'
<1> SUFFICES ASSUME Typed, InitInstance PROVE Typed'
  OBVIOUS
<1>1. PICK x \in todo :
        \/ /\ inited' = inited \cup {x} /\ todo' = todo \ {x}
           /\ UNCHANGED <<phase, stat>>
        \/ Abort /\ UNCHANGED inited
  BY DEF InitInstance
<1>2. x \in Instance
  BY ListIs DEF InitInstance, Initing, Typed, Flow
<1>3. phase \in Phases /\ phase \notin {"plugins", "config", "dangling"}
  BY DEF InitInstance, Initing, Typed, TypeOK, Phases
<1>4. CASE UNCHANGED phase
  BY <1>1, <1>2, <1>3, <1>4, TypedMove DEF InitInstance, Abort, Typed, TypeOK, Flow
<1>5. CASE Abort /\ UNCHANGED inited
  BY <1>1, <1>2, <1>3, <1>5, TypedMove DEF InitInstance, Abort, Phases, Typed, TypeOK, Flow
<1> QED BY <1>1, <1>4, <1>5

LEMMA StartThreadTyped == Typed /\ StartThread => Typed'
<1> SUFFICES ASSUME Typed, StartThread PROVE Typed'
  OBVIOUS
<1>1. PICK x \in todo :
        \/ /\ thread' = [thread EXCEPT ![x] = "running"] /\ todo' = todo \ {x}
           /\ UNCHANGED <<phase, stat>>
        \/ Abort /\ UNCHANGED thread
  BY DEF StartThread
<1>2. x \in Threads /\ x[2] \in DOMAIN conf[x[1]]
  BY ListIs DEF StartThread, Typed, Flow
<1>3. phase \in Phases /\ phase \notin {"plugins", "config", "dangling"}
  BY DEF StartThread, Starting, Typed, TypeOK, Phases
<1>4. CASE /\ thread' = [thread EXCEPT ![x] = "running"] /\ todo' = todo \ {x}
           /\ UNCHANGED <<phase, stat>>
  <2>1. TypeOK'
    BY <1>2, <1>4 DEF StartThread, Typed, TypeOK, ThreadState, config
  <2>2. Flow'
    BY <1>2, <1>3, <1>4 DEF StartThread, Typed, TypeOK, Flow, config
  <2> QED BY <2>1, <2>2 DEF Typed
<1>5. CASE Abort /\ UNCHANGED thread
  BY <1>3, <1>5, TypedMove DEF StartThread, Abort, Phases, Typed, TypeOK, Flow
<1> QED BY <1>1, <1>4, <1>5

LEMMA TakeTyped == Typed /\ (StartNone \/ Join) => Typed'
<1> SUFFICES ASSUME Typed, StartNone \/ Join PROVE Typed'
  OBVIOUS
<1>1. /\ todo' \subseteq todo
      /\ UNCHANGED <<foreground, phase, config, loaded, inited, bad, stat, thread>>
  BY DEF StartNone, Join
<1> QED BY <1>1 DEF Typed, TypeOK, Flow, config

(* The steps that change only what the threads are. *)
LEMMA ThreadsTyped ==
  ASSUME Typed, UNCHANGED <<foreground, config, loaded, inited, bad>>,
         thread' \in [Threads -> ThreadState],
         \A x \in Threads : thread'[x] = "none" <=> thread[x] = "none",
         phase' \in Phases, phase' # "dangling" \/ UNCHANGED phase,
         phase' \notin {"plugins", "config"} \/ UNCHANGED phase,
         todo' \subseteq List(conf, phase'), stat' \in {"success", "failure"}
  PROVE  Typed'
<1>1. todo' \subseteq Plugin \cup Instance
  <2>1. List(conf, phase') \subseteq Plugin \cup Instance
    BY ListIs DEF Typed, Flow, Threads, Loading, Initing, Starting, Joining
  <2> QED BY <2>1
<1>2. TypeOK'
  BY <1>1 DEF Typed, TypeOK, Phases, config
<1>3. Flow'
  BY DEF Typed, Flow, config
<1> QED BY <1>2, <1>3 DEF Typed

LEMMA ForkTyped == Typed /\ Fork => Typed'
<1> SUFFICES ASSUME Typed, Fork PROVE Typed'
  OBVIOUS
<1>1. /\ thread' \in [Threads -> ThreadState]
      /\ \A x \in Threads : thread'[x] = "none" <=> thread[x] = "none"
  BY DEF Fork, Typed, TypeOK, ThreadState
<1>2. /\ phase' \in {"storJ", "exited"} /\ todo' \subseteq List(conf, phase')
      /\ stat' \in {"success", "failure"}
  BY DEF Fork, Advance, After, Typed, TypeOK
<1> QED BY <1>1, <1>2, ThreadsTyped DEF Fork, Phases, After, Ended

LEMMA CleanupTyped == Typed /\ Cleanup => Typed'
<1> SUFFICES ASSUME Typed, Cleanup PROVE Typed'
  OBVIOUS
<1>1. /\ thread' \in [Threads -> ThreadState]
      /\ \A x \in Threads : thread'[x] = "none" <=> thread[x] = "none"
  BY DEF Cleanup, Typed, TypeOK, ThreadState
<1> QED BY <1>1, ThreadsTyped DEF Cleanup, Phases, Ended, Typed, TypeOK

LEMMA ThreadEndsTyped == Typed /\ (\E x \in Threads : ThreadEnds(x)) => Typed'
<1> SUFFICES ASSUME Typed, NEW x \in Threads, ThreadEnds(x) PROVE Typed'
  OBVIOUS
<1>1. /\ thread' \in [Threads -> ThreadState]
      /\ \A y \in Threads : thread'[y] = "none" <=> thread[y] = "none"
  BY DEF ThreadEnds, Typed, TypeOK, ThreadState
<1> QED BY <1>1, ThreadsTyped DEF ThreadEnds, Phases, Typed, TypeOK, Flow

LEMMA CrashTyped == Typed /\ (CleanupCrashes \/ ErrorLogCrashes) => Typed'
<1> SUFFICES ASSUME Typed, CleanupCrashes \/ ErrorLogCrashes PROVE Typed'
  OBVIOUS
<1> QED BY ThreadsTyped DEF CleanupCrashes, ErrorLogCrashes, Phases, Ended, Typed, TypeOK

LEMMA WalksIs ==
  ASSUME NEW x
  PROVE  /\ x[1] = "sens" => Walks(x) \in {{}, Entry(x).dsets}
         /\ x[1] = "protoP" => Walks(x) = DOMAIN conf.dsts
         /\ x[1] \notin {"sens", "protoP"} => Walks(x) = {}
<1>1. x[1] = "sens" /\ Beats(x) => Walks(x) = Entry(x).dsets
  BY Zenon DEF Walks
<1>2. x[1] = "sens" /\ ~Beats(x) => Walks(x) = {}
  BY Zenon DEF Walks
<1>3. x[1] = "protoP" => Walks(x) = DOMAIN conf.dsts
  BY Zenon DEF Walks
<1>4. x[1] \notin {"sens", "protoP"} => Walks(x) = {}
  BY Zenon DEF Walks
<1> QED BY <1>1, <1>2, <1>3, <1>4

LEMMA ThreadDanglesTyped == Typed /\ (\E x \in Threads : ThreadDangles(x)) => Typed'
<1> SUFFICES ASSUME Typed, NEW x \in Threads, ThreadDangles(x) PROVE Typed'
  OBVIOUS
<1>1. x[2] \in DOMAIN conf[x[1]]
  BY DEF ThreadDangles, Typed, Flow
<1>2. Walks(x) \subseteq DOMAIN conf.dsts
  BY <1>1, WalksIs DEF Typed, TypeOK, IsConf, Entry
<1>3. ~built
  BY <1>2 DEF ThreadDangles, Typed, Flow, Linked
<1>4. TypeOK'
  BY DEF ThreadDangles, Dangle, Typed, TypeOK, Ended, config
<1>5. Flow'
  BY <1>3 DEF ThreadDangles, Dangle, Typed, Flow, config
<1> QED BY <1>4, <1>5 DEF Typed

LEMMA TypedStep == Typed /\ [Next]_vars => Typed'
<1>1. Typed /\ UNCHANGED vars => Typed'
  BY DEF vars, config, Typed, TypeOK, Flow
<1> QED BY <1>1, PluginsInitTyped, ConfigInitTyped, DangleTyped, LoadPluginTyped, PluginsLoadedTyped,
           InitInstanceTyped, StartThreadTyped, TakeTyped, ForkTyped, EndPhaseTyped, CleanupTyped,
           CrashTyped, ThreadEndsTyped, ThreadDanglesTyped DEF Next, Main

(* Every pointer of the global lists leads to an entry, through every phase *)
(* of main(), and a thread has the entry it was started for.                *)
THEOREM DaemonTyping == Spec => []Typed
BY TypedInit, TypedStep, PTL DEF Spec

(* The type invariant, with the shape of the lists create_conf() makes.     *)
THEOREM DaemonTypeCorrect == Spec => []TypeOK
<1>1. Typed => TypeOK
  BY DEF Typed
<1> QED BY <1>1, DaemonTyping, PTL

(* With a configuration for which nv_config_init() means to return 0        *)
(* neither main() nor a thread follows a NULL, and there are a storage      *)
(* plugin and a system, which nv_validate_conf() does not look for.         *)
THEOREM ValidatedIsEnough == Spec => []ValidatedSuffices
<1>1. ASSUME Typed, built PROVE conf.storP # <<>> /\ conf.sys # <<>> /\ phase # "dangling"
  <2>1. conf.stor # <<>> /\ conf.dsts # <<>> /\ Linked(conf) /\ phase # "dangling"
    BY <1>1 DEF Typed, Flow
  <2>2. DOMAIN conf.stor # {} /\ DOMAIN conf.dsts # {}
    BY <1>1, <2>1, NoneEmpty DEF Typed, Flow, Shaped
  <2>3. DOMAIN conf.storP # {} /\ DOMAIN conf.sys # {}
    BY <1>1, <2>1, <2>2 DEF Linked, Typed, TypeOK, IsConf
  <2>4. DOMAIN <<>> = {}
    OBVIOUS
  <2> QED BY <2>1, <2>3, <2>4
<1>2. Typed => ValidatedSuffices
  BY <1>1 DEF ValidatedSuffices
<1> QED BY <1>2, DaemonTyping, PTL

-----------------------------------------------------------------------------
(* The order of the phases                                                 *)

AllReady ==
  /\ \A p \in Loading : List(conf, p) \subseteq loaded
  /\ \A p \in Initing : List(conf, p) \subseteq inited

(* A thread for each instance with a heartbeat. *)
Created(list) == \A x \in list : HasHeartbeat(x) => thread[x] # "none"

(* The phases after the plugins are loaded. *)
Late == Initing \cup Starting \cup {"fork"} \cup Joining

Sequenced ==
  /\ phase \in Loading /\ ~bad => List(conf, phase) \ todo \subseteq loaded
  /\ phase \in Initing => List(conf, phase) \ todo \subseteq inited
  /\ phase \in {"sensP", "protoP", "authP"} \cup Late => List(conf, "storP") \subseteq loaded
  /\ phase \in {"protoP", "authP"} \cup Late => List(conf, "sensP") \subseteq loaded
  /\ phase \in {"authP"} \cup Late => List(conf, "protoP") \subseteq loaded
  /\ phase \in Late => List(conf, "authP") \subseteq loaded
  /\ phase \in Late \ {"stor"} => List(conf, "stor") \subseteq inited
  /\ phase \in Late \ {"stor", "sens"} => List(conf, "sens") \subseteq inited
  /\ (\E x \in Threads : thread[x] # "none") => AllReady
  /\ phase \in {"cleanup", "exited"} /\ stat = "success" => AllReady
  /\ phase = "storT" => Created(List(conf, "stor") \ todo)
  /\ phase = "sensT" => Created(List(conf, "sens") \ todo)
  /\ phase \in {"sensT", "protoT", "fork"} \cup Joining => Created(List(conf, "stor"))
  /\ phase \in {"protoT", "fork"} \cup Joining => Created(List(conf, "sens"))

LEMMA SequencedInit == Init => Sequenced
BY DEF Init, Sequenced, Loading, Initing, Starting, Joining, Late

(* Steps of main() that go on with the list of their phase. *)
LEMMA LoadSequenced == Typed /\ Sequenced /\ LoadPlugin => Sequenced'
<1> SUFFICES ASSUME Typed, Sequenced, LoadPlugin PROVE Sequenced'
  OBVIOUS
<1>1. PICK x \in todo :
        /\ todo' = todo \ {x}
        /\ \/ loaded' = loaded \cup {x} /\ UNCHANGED bad
           \/ bad' = TRUE /\ UNCHANGED loaded
  BY DEF LoadPlugin
<1>2. phase \in Loading /\ UNCHANGED <<phase, conf, inited, stat, thread>>
  BY DEF LoadPlugin, config
<1> QED BY <1>1, <1>2 DEF Sequenced, AllReady, Created, Loading, Late, Initing, Starting, Joining

LEMMA InitSequenced == Typed /\ Sequenced /\ InitInstance => Sequenced'
<1> SUFFICES ASSUME Typed, Sequenced, InitInstance PROVE Sequenced'
  OBVIOUS
<1>1. phase \in Initing /\ UNCHANGED <<conf, loaded, bad, thread>>
  BY DEF InitInstance, config
<1>2. \/ \E x \in todo : inited' = inited \cup {x} /\ todo' = todo \ {x} /\ UNCHANGED <<phase, stat>>
      \/ Abort /\ UNCHANGED inited
  BY DEF InitInstance
<1>3. CASE Abort /\ UNCHANGED inited
  BY <1>1, <1>3 DEF Abort, Sequenced, AllReady, Loading, Late, Initing, Starting, Joining
<1>4. CASE \E x \in todo : inited' = inited \cup {x} /\ todo' = todo \ {x} /\ UNCHANGED <<phase, stat>>
  BY <1>1, <1>4 DEF Sequenced, AllReady, Created, Loading, Late, Initing, Starting, Joining
<1> QED BY <1>2, <1>3, <1>4

LEMMA StartSequenced == Typed /\ Sequenced /\ StartThread => Sequenced'
<1> SUFFICES ASSUME Typed, Sequenced, StartThread PROVE Sequenced'
  OBVIOUS
<1>1. phase \in Starting /\ UNCHANGED <<conf, loaded, inited, bad>>
  BY DEF StartThread, config
<1>2. AllReady
  BY <1>1 DEF Sequenced, AllReady, Loading, Late, Initing, Starting
<1>3. CASE Abort /\ UNCHANGED thread
  BY <1>1, <1>2, <1>3 DEF Abort, Sequenced, AllReady, Loading, Late, Initing, Starting, Joining
<1>4. ASSUME NEW x \in todo, thread' = [thread EXCEPT ![x] = "running"], todo' = todo \ {x},
             UNCHANGED <<phase, stat>>
      PROVE  Sequenced'
  <2>1. thread'[x] = "running" /\ \A y \in Threads : thread[y] # "none" => thread'[y] # "none"
    BY <1>1, <1>4, ListIs DEF Typed, TypeOK, Flow
  <2>2. List(conf, "stor") \subseteq Threads /\ List(conf, "sens") \subseteq Threads
    BY ListIs DEF Typed, Flow, Joining
  <2>3. AllReady'
    BY <1>1, <1>2 DEF AllReady
  <2> QED BY <1>1, <1>4, <2>1, <2>2, <2>3 DEF Sequenced, Created, Loading, Late, Initing, Starting, Joining
<1> QED BY <1>3, <1>4 DEF StartThread

LEMMA TakeSequenced == Typed /\ Sequenced /\ (StartNone \/ Join) => Sequenced'
<1> SUFFICES ASSUME Typed, Sequenced, StartNone \/ Join PROVE Sequenced'
  OBVIOUS
<1>1. /\ UNCHANGED <<phase, conf, loaded, inited, bad, stat, thread>>
      /\ phase \in Starting \cup Joining
  BY DEF StartNone, Join, config
<1>2. phase \in {"storT", "sensT"} => \E x \in todo : ~HasHeartbeat(x) /\ todo' = todo \ {x}
  BY DEF StartNone, Join, NeedsThread, Joining
<1> QED BY <1>1, <1>2 DEF Sequenced, AllReady, Created, Loading, Late, Initing, Starting, Joining

(* Steps of main() to the next phase, with nothing left of the list. *)
LEMMA AdvanceSequenced ==
  ASSUME Typed, Sequenced, phase \in Loading \cup Late, todo = {},
         phase \in Loading => ~bad,
         Advance(conf), UNCHANGED <<conf, loaded, inited>>,
         \A x \in Threads : thread'[x] = "none" <=> thread[x] = "none"
  PROVE  Sequenced'
<1>1. phase' = After[phase]
  BY DEF Advance
<1>2. AllReady' <=> AllReady
  BY DEF AllReady
<1>3. List(conf, "stor") \subseteq Threads /\ List(conf, "sens") \subseteq Threads
  BY ListIs DEF Typed, Flow, Joining
<1>4. CASE phase \in Loading
  <2>1. phase' = IF phase = "storP" THEN "sensP" ELSE IF phase = "sensP" THEN "protoP"
                 ELSE IF phase = "protoP" THEN "authP" ELSE "stor"
    BY <1>1, <1>4 DEF After, Loading
  <2>2. todo' = List(conf, phase')
    BY <1>1 DEF Advance
  <2> QED BY <1>2, <1>4, <2>1, <2>2 DEF Sequenced, Loading, Late, Initing, Starting, Joining
<1>5. CASE phase \in Initing
  <2>1. phase' = IF phase = "stor" THEN "sens" ELSE "storT"
    BY <1>1, <1>5 DEF After, Initing
  <2>2. todo' = List(conf, phase') /\ List(conf, "storT") = List(conf, "stor")
    BY <1>1, ListIs DEF Advance, Typed, Flow
  <2> QED BY <1>2, <1>5, <2>1, <2>2
        DEF Sequenced, Created, Loading, Late, Initing, Starting, Joining
<1>6. CASE phase \in Starting
  <2>1. phase' = IF phase = "storT" THEN "sensT" ELSE IF phase = "sensT" THEN "protoT" ELSE "fork"
    BY <1>1, <1>6 DEF After, Starting
  <2>2. todo' = List(conf, phase') /\ List(conf, "sensT") = List(conf, "sens")
    BY <1>1, ListIs DEF Advance, Typed, Flow
  <2> QED BY <1>2, <1>3, <1>6, <2>1, <2>2
        DEF Sequenced, Created, Loading, Late, Initing, Starting, Joining
<1>7. CASE phase \in {"fork"} \cup Joining
  <2>1. phase' = IF phase = "fork" THEN "storJ" ELSE IF phase = "storJ" THEN "sensJ" ELSE "cleanup"
    BY <1>1, <1>7 DEF After, Joining
  <2>2. AllReady
    BY <1>7 DEF Sequenced, AllReady, Loading, Late, Initing, Joining
  <2> QED BY <1>2, <1>3, <1>7, <2>1, <2>2
        DEF Sequenced, Created, Loading, Late, Initing, Starting, Joining
<1> QED BY <1>4, <1>5, <1>6, <1>7 DEF Late

(* Steps to an end. *)
LEMMA EndSequenced ==
  ASSUME Typed, Sequenced, UNCHANGED <<conf, loaded, inited>>,
         phase' \in {"cleanup", "exited", "dangling", "crashed"},
         phase' \in {"cleanup", "exited"} => stat' = "failure" \/ (phase = "cleanup" /\ stat' = stat),
         \A x \in Threads : thread'[x] = "none" <=> thread[x] = "none"
  PROVE  Sequenced'
BY DEF Sequenced, AllReady, Loading, Late, Initing, Starting, Joining

LEMMA FirstSequenced == Typed /\ Sequenced /\ (PluginsInit \/ ConfigInit) => Sequenced'
<1> SUFFICES ASSUME Typed, Sequenced, PluginsInit \/ ConfigInit PROVE Sequenced'
  OBVIOUS
<1>1. /\ phase' \in {"config", "storP", "cleanup"}
      /\ phase' = "cleanup" => stat' = "failure"
      /\ phase' = "storP" => todo' = List(conf', "storP")
  BY DEF PluginsInit, ConfigInit, Advance, Abort, After
<1>2. \A x \in Threads : thread'[x] = "none"
  BY DEF PluginsInit, ConfigInit, Typed, Flow
<1> QED BY <1>1, <1>2 DEF Sequenced, Loading, Late, Initing, Starting, Joining

LEMMA SequencedStep == Typed /\ Sequenced /\ [Next]_vars => Sequenced'
<1> SUFFICES ASSUME Typed, Sequenced, [Next]_vars PROVE Sequenced'
  OBVIOUS
<1>1. CASE PluginsLoaded
  <2>1. phase \in Loading /\ todo = {} /\ UNCHANGED <<conf, loaded, inited, thread>>
    BY <1>1 DEF PluginsLoaded, config
  <2>2. CASE bad
    BY <1>1, <2>1, <2>2, EndSequenced DEF PluginsLoaded, Abort
  <2>3. CASE ~bad
    BY <1>1, <2>1, <2>3, AdvanceSequenced DEF PluginsLoaded
  <2> QED BY <2>2, <2>3
<1>2. CASE EndPhase
  <2>1. phase \in Late /\ phase \notin Loading
    BY <1>2 DEF EndPhase, Late, Initing, Starting, Joining, Loading
  <2> QED BY <1>2, <2>1, AdvanceSequenced DEF EndPhase, config
<1>3. CASE Fork
  <2>1. /\ \A x \in Threads : thread'[x] = "none" <=> thread[x] = "none"
        /\ UNCHANGED <<conf, loaded, inited>> /\ phase = "fork"
    BY <1>3 DEF Fork, config
  <2>2. phase \in Late /\ phase \notin Loading /\ todo = {}
    BY <2>1 DEF Late, Loading, Typed, Flow, List, Of
  <2>3. CASE Advance(conf)
    BY <2>1, <2>2, <2>3, AdvanceSequenced
  <2>4. CASE phase' = "exited" /\ stat' = "failure"
    BY <2>1, <2>4, EndSequenced
  <2> QED BY <1>3, <2>3, <2>4 DEF Fork
<1>4. CASE Cleanup
  BY <1>4, EndSequenced DEF Cleanup, config
<1>5. CASE ConfigDangles \/ InstanceWithoutPlugin \/ CleanupCrashes \/ ErrorLogCrashes
  BY <1>5, EndSequenced DEF ConfigDangles, InstanceWithoutPlugin, CleanupCrashes, ErrorLogCrashes,
                            Dangle, config
<1>6. CASE \E x \in Threads : ThreadDangles(x)
  BY <1>6, EndSequenced DEF ThreadDangles, Dangle, config
<1>7. CASE \E x \in Threads : ThreadEnds(x)
  <2>1. /\ \A x \in Threads : thread'[x] = "none" <=> thread[x] = "none"
        /\ UNCHANGED <<phase, todo, conf, loaded, inited, bad, stat>>
    BY <1>7 DEF ThreadEnds, config, Typed, TypeOK
  <2>2. List(conf, "stor") \subseteq Threads /\ List(conf, "sens") \subseteq Threads
    BY ListIs DEF Typed, Flow, Joining
  <2> QED BY <2>1, <2>2 DEF Sequenced, AllReady, Created
<1>8. CASE UNCHANGED vars
  BY <1>8 DEF vars, config, Sequenced, AllReady, Created
<1> QED BY <1>1, <1>2, <1>3, <1>4, <1>5, <1>6, <1>7, <1>8, LoadSequenced, InitSequenced, StartSequenced,
           TakeSequenced, FirstSequenced DEF Next, Main

(* main() goes through the phases in their order and jumps only to its end: *)
(* what a phase relies on has been done by those before.                    *)
THEOREM DaemonSequenced == Spec => []Sequenced
<1>1. Init => Typed /\ Sequenced
  BY TypedInit, SequencedInit
<1>2. Typed /\ Sequenced /\ [Next]_vars => (Typed /\ Sequenced)'
  BY TypedStep, SequencedStep
<1> QED BY <1>1, <1>2, PTL DEF Spec

(* A heartbeat or protocol thread, which may call every storage, runs only  *)
(* when every plugin is loaded and every instance initialised.              *)
THEOREM ThreadsComeLast == Spec => []ReadyBeforeThreads
<1>1. Sequenced => ReadyBeforeThreads
  BY DEF Sequenced, AllReady, ReadyBeforeThreads
<1> QED BY <1>1, DaemonSequenced, PTL

(* main() joins no thread that it has not created.                          *)
THEOREM JoinsWhatItCreated == Spec => []JoinsCreated
<1>1. ASSUME Typed, Sequenced, phase \in Joining, NEW x \in todo, HasHeartbeat(x)
      PROVE  thread[x] # "none"
  <2>1. x \in List(conf, "stor") \cup List(conf, "sens")
    BY <1>1, ListIs DEF Typed, Flow, Joining
  <2> QED BY <1>1, <2>1 DEF Sequenced, Created
<1>2. Typed /\ Sequenced => JoinsCreated
  BY <1>1 DEF JoinsCreated
<1> QED BY <1>2, DaemonTyping, DaemonSequenced, PTL

(* An exit status of success tells that everything was loaded and           *)
(* initialised.                                                             *)
THEOREM ExitStatusIsTrue == Spec => []ExitStatusTells
<1>1. Sequenced => ExitStatusTells
  BY DEF Sequenced, AllReady, ExitStatusTells
<1> QED BY <1>1, DaemonSequenced, PTL

-----------------------------------------------------------------------------
(* The joins                                                               *)

NoneRuns(list) == \A x \in list : thread[x] # "running"

(* How far main() is with waiting for the heartbeats. *)
Waited ==
  /\ \A x \in Instance : thread[x] # "none" => HasHeartbeat(x)
  /\ phase \in Joining => NoneRuns(List(conf, phase) \ todo)
  /\ phase = "sensJ" => NoneRuns(List(conf, "stor"))
  /\ HeartbeatsOver

(* Every thread of an instance belongs to an entry of a list. *)
LEMMA OfSomeList ==
  ASSUME Typed, NEW x \in Instance, thread[x] # "none"
  PROVE  x \in List(conf, "stor") \cup List(conf, "sens")
<1>1. x[2] \in DOMAIN conf[x[1]] /\ x \in {"stor", "sens"} \X (1 .. MaxDefs)
  BY DEF Typed, Flow, Threads, Instance
<1> QED BY <1>1 DEF List, Of

(* Steps after which no more threads run and main() joins none. *)
LEMMA WaitedEnd ==
  ASSUME Typed, Waited,
         \A x \in Threads : thread[x] = "none" => thread'[x] = "none",
         phase' \notin Joining, phase' = "cleanup" => stat' = "failure"
  PROVE  Waited'
<1>1. \A x \in Instance : x \in Threads
  BY DEF Threads
<1> QED BY <1>1 DEF Waited, HeartbeatsOver, HasHeartbeat, Joining

(* Steps that leave main() where it is in its lists. *)
LEMMA WaitedStay ==
  ASSUME Typed, Waited, UNCHANGED <<phase, todo, conf, stat>>,
         \A x \in Threads : thread'[x] = thread[x] \/ (thread[x] # "none" /\ thread'[x] # "running")
  PROVE  Waited'
<1>1. Instance \subseteq Threads /\ List(conf, "stor") \subseteq Threads
  BY ListIs DEF Threads, Typed, Flow, Starting, Joining
<1>2. phase \in Joining => List(conf, phase) \subseteq Threads
  BY ListIs DEF Typed, Flow
<1>3. \A x \in Threads : thread[x] # "running" => thread'[x] # "running"
  OBVIOUS
<1>4. \A x \in Instance : thread'[x] # "none" => thread[x] # "none"
  BY <1>1
<1> QED BY <1>1, <1>2, <1>3, <1>4 DEF Waited, NoneRuns, HeartbeatsOver, HasHeartbeat

LEMMA WaitedStart == Typed /\ Waited /\ StartThread => Waited'
<1> SUFFICES ASSUME Typed, Waited, StartThread PROVE Waited'
  OBVIOUS
<1>1. phase \in Starting /\ phase \notin Joining /\ phase # "cleanup"
  BY DEF StartThread, Starting, Joining
<1>2. CASE Abort /\ UNCHANGED thread
  BY <1>2, WaitedEnd DEF Abort, Joining
<1>3. ASSUME NEW x \in todo, NeedsThread(x), thread' = [thread EXCEPT ![x] = "running"],
             UNCHANGED phase
      PROVE  Waited'
  <2>1. x \in Instance => phase # "protoT"
    <3>1. phase = "protoT" => x \in {"protoP"} \X DOMAIN conf["protoP"]
      BY <1>3 DEF Typed, Flow, List, Of
    <3> QED BY <3>1 DEF Instance
  <2>2. x \in Instance => HasHeartbeat(x)
    BY <1>3, <2>1 DEF NeedsThread
  <2>3. \A y \in Instance : y # x => thread'[y] = thread[y]
    BY <1>3 DEF Typed, TypeOK, Threads
  <2>4. \A y \in Instance : thread'[y] # "none" => HasHeartbeat(y)
    BY <2>2, <2>3 DEF Waited
  <2>5. phase' \notin Joining /\ phase' # "cleanup" /\ phase' # "sensJ"
    BY <1>1, <1>3 DEF Joining
  <2> QED BY <2>4, <2>5 DEF Waited, HeartbeatsOver, HasHeartbeat
<1> QED BY <1>2, <1>3 DEF StartThread

LEMMA WaitedJoin == Typed /\ Waited /\ Join => Waited'
<1> SUFFICES ASSUME Typed, Waited, Join PROVE Waited'
  OBVIOUS
<1>1. PICK x \in todo : /\ todo' = todo \ {x}
                        /\ HasHeartbeat(x) => thread[x] \in {"ended", "lost"}
  BY DEF Join
<1>2. phase \in Joining /\ phase # "cleanup" /\ UNCHANGED <<phase, conf, thread, stat>>
  BY DEF Join, Joining, config
<1>3. x \in Instance
  BY <1>2, ListIs DEF Typed, Flow, Joining
<1>4. thread[x] # "running"
  BY <1>1, <1>3 DEF Waited
<1> QED BY <1>1, <1>2, <1>4 DEF Waited, NoneRuns, HeartbeatsOver, HasHeartbeat

(* To the joins, from one to the next, and from the last to the end. *)
LEMMA WaitedAdvance ==
  ASSUME Typed, Waited, todo = {}, phase \in Late \cup Loading, Advance(conf),
         UNCHANGED <<conf, stat>>,
         \A x \in Threads : thread'[x] = thread[x] \/ (thread[x] # "none" /\ thread'[x] # "running")
  PROVE  Waited'
<1>1. phase' = After[phase] /\ todo' = List(conf, phase')
  BY DEF Advance
<1>2. Instance \subseteq Threads /\ List(conf, "stor") \subseteq Threads
      /\ List(conf, "sens") \subseteq Threads
  BY ListIs DEF Threads, Typed, Flow, Starting, Joining
<1>3. \A x \in Instance : thread'[x] # "none" => HasHeartbeat(x)
  BY <1>2 DEF Waited
<1>4. /\ phase' = "sensJ" => phase = "storJ"
      /\ phase' = "cleanup" => phase = "sensJ"
  BY <1>1 DEF After, Late, Loading, Initing, Starting, Joining
<1>5. phase = "storJ" => NoneRuns(List(conf, "stor"))
  BY ListIs DEF Waited, NoneRuns, Typed, Flow, Joining
<1>6. phase = "sensJ" => NoneRuns(List(conf, "sens")) /\ NoneRuns(List(conf, "stor"))
  BY ListIs DEF Waited, NoneRuns, Typed, Flow, Joining
<1>7. phase' = "cleanup" => \A x \in Instance : thread'[x] # "running"
  BY <1>2, <1>4, <1>6, OfSomeList DEF NoneRuns
<1>8. phase' = "sensJ" => \A x \in List(conf, "stor") : thread'[x] # "running"
  BY <1>2, <1>4, <1>5 DEF NoneRuns
<1> QED BY <1>1, <1>3, <1>7, <1>8 DEF Waited, NoneRuns, HeartbeatsOver, HasHeartbeat

LEMMA WaitedStep == Typed /\ Waited /\ [Next]_vars => Waited'
<1> SUFFICES ASSUME Typed, Waited, [Next]_vars PROVE Waited'
  OBVIOUS
<1>1. CASE PluginsInit \/ ConfigInit
  <2>1. /\ phase' \in {"config", "storP", "cleanup"}
        /\ phase' = "cleanup" => stat' = "failure"
        /\ UNCHANGED thread
    BY <1>1 DEF PluginsInit, ConfigInit, Advance, Abort, After
  <2> QED BY <2>1, WaitedEnd DEF Joining
<1>2. CASE PluginsLoaded
  <2>1. phase \in Loading /\ todo = {} /\ UNCHANGED <<conf, thread>>
    BY <1>2 DEF PluginsLoaded, config
  <2> QED BY <1>2, <2>1, WaitedEnd, WaitedAdvance DEF PluginsLoaded, Abort, Joining
<1>3. CASE LoadPlugin \/ StartNone \/ InitInstance
  <2>1. /\ phase \in Loading \cup Initing \cup Starting
        /\ thread' = thread
        /\ phase' = phase \/ Abort
    BY <1>3 DEF LoadPlugin, StartNone, InitInstance
  <2>2. phase' \notin Joining /\ (phase' = "cleanup" => stat' = "failure")
    BY <2>1 DEF Abort, Loading, Initing, Starting, Joining
  <2>3. \A x \in Threads : thread[x] = "none" => thread'[x] = "none"
    BY <2>1
  <2> QED BY <2>2, <2>3, WaitedEnd
<1>4. CASE Fork
  <2>1. /\ phase = "fork" /\ UNCHANGED conf /\ todo = {}
        /\ \/ Advance(conf) /\ UNCHANGED stat
           \/ phase' = "exited"
    BY <1>4 DEF Fork, config, Typed, Flow, List, Of
  <2>2. \A x \in Threads :
          thread'[x] = thread[x] \/ (thread[x] # "none" /\ thread'[x] # "running")
    BY <1>4 DEF Fork
  <2> QED BY <2>1, <2>2, WaitedAdvance, WaitedEnd DEF Late, Joining
<1>5. CASE EndPhase
  <2>1. phase \in Late
    BY <1>5 DEF EndPhase, Late, Initing, Starting, Joining
  <2> QED BY <1>5, <2>1, WaitedAdvance DEF EndPhase, config
<1>6. CASE ConfigDangles \/ InstanceWithoutPlugin \/ CleanupCrashes \/ ErrorLogCrashes \/ Cleanup
  <2>1. phase' \in {"dangling", "crashed", "exited"}
        /\ \A x \in Threads : thread[x] = "none" => thread'[x] = "none"
    BY <1>6 DEF ConfigDangles, InstanceWithoutPlugin, CleanupCrashes, ErrorLogCrashes,
                Cleanup, Dangle
  <2> QED BY <2>1, WaitedEnd DEF Joining
<1>7. CASE \E x \in Threads : ThreadDangles(x)
  BY <1>7, WaitedEnd DEF ThreadDangles, Dangle, Joining
<1>8. CASE \E x \in Threads : ThreadEnds(x)
  <2>1. /\ UNCHANGED <<phase, todo, conf, stat>>
        /\ \A x \in Threads :
             thread'[x] = thread[x] \/ (thread[x] # "none" /\ thread'[x] # "running")
    BY <1>8 DEF ThreadEnds, config, Typed, TypeOK
  <2> QED BY <2>1, WaitedStay
<1>9. CASE UNCHANGED vars
  BY <1>9, WaitedStay DEF vars, config
<1> QED BY <1>1, <1>2, <1>3, <1>4, <1>5, <1>6, <1>7, <1>8, <1>9, WaitedStart, WaitedJoin
        DEF Next, Main

(* main() unloads the plugins, when nothing has failed, only after the end  *)
(* of every heartbeat, whichever instances have one.                        *)
THEOREM UnloadsAfterHeartbeats == Spec => []HeartbeatsOver
<1>1. Init => Typed /\ Waited
  BY TypedInit DEF Init, Waited, HeartbeatsOver, Joining, Threads
<1>2. Typed /\ Waited /\ [Next]_vars => (Typed /\ Waited)'
  BY TypedStep, WaitedStep
<1>3. Waited => HeartbeatsOver
  BY DEF Waited
<1> QED BY <1>1, <1>2, <1>3, PTL DEF Spec

-----------------------------------------------------------------------------
(* The configuration                                                       *)

(* Two sensors have a data set in common only if they have one name.        *)
THEOREM OneThreadWrites == Spec => []OneWriter
<1>1. ASSUME Typed, DistinctNames,
             NEW x \in Threads, NEW y \in Threads, x[1] = "sens", y[1] = "sens", x # y,
             thread[x] # "none", thread[y] # "none"
      PROVE  Walks(x) \cap Walks(y) = {}
  <2>1. x[2] \in DOMAIN conf.sens /\ y[2] \in DOMAIN conf.sens
    BY <1>1 DEF Typed, Flow
  <2>2. x[2] # y[2]
    BY <1>1 DEF Threads, Plugin, Instance
  <2>3. conf.sens[x[2]].name # conf.sens[y[2]].name
    BY <1>1, <2>1, <2>2 DEF DistinctNames, IsInjective
  <2>4. conf.sens[x[2]].dsets \cap conf.sens[y[2]].dsets = {}
    BY <1>1, <2>1, <2>3 DEF Typed, Flow, Shaped
  <2> QED BY <1>1, <2>4, WalksIs DEF Entry
<1>2. Typed => OneWriter
  BY <1>1 DEF OneWriter
<1> QED BY <1>2, DaemonTyping, PTL

(* What client_thread() tells of a system is what it finds for a fetch with *)
(* the two names, if they are words in lower case.                          *)
THEOREM TellsWhatItFetches == Spec => []ToldIsFetched
<1>1. ASSUME Typed, DistinctNames, NEW s \in DOMAIN conf.sys, NEW d \in Told(s),
             Asked[conf.sys[s].name] = conf.sys[s].name, Asked[conf.dsts[d].name] = conf.dsts[d].name
      PROVE  Fetched(conf.sys[s].name, conf.dsts[d].name) = d
  <2> DEFINE n     == Len(conf.dsts)
             found == {e \in DOMAIN conf.dsts :
                         /\ conf.dsts[e].name = conf.dsts[d].name
                         /\ conf.dsts[e].sys # 0
                         /\ conf.sys[conf.dsts[e].sys].name = conf.sys[s].name}
  <2>1. n \in Nat /\ DOMAIN conf.dsts = 1 .. n /\ DOMAIN conf.sys = 1 .. Len(conf.sys)
    BY <1>1 DEF Typed, Flow, Shaped
  <2>2. d \in DOMAIN conf.dsts /\ conf.dsts[d].sys = s /\ s # 0
    BY <1>1, <2>1 DEF Told
  <2>3. ASSUME NEW e \in found PROVE e = d
    <3>1. conf.dsts[e].sys \in DOMAIN conf.sys
      BY <1>1 DEF Typed, TypeOK, IsConf
    <3>2. conf.dsts[e].sys = s
      BY <1>1, <3>1 DEF DistinctNames, IsInjective
    <3> QED BY <1>1, <2>2, <3>2 DEF DistinctNames, IsInjective
  <2>4. found = {d}
    BY <2>2, <2>3
  <2>5. {n + 1} \cup found = {n + 1, d} /\ d \in 1 .. n
    BY <2>1, <2>2, <2>4
  <2> HIDE DEF n, found
  <2>6. Min({n + 1, d}) = d
    BY <2>1, <2>5 DEF Min
  <2>7. Fetched(conf.sys[s].name, conf.dsts[d].name) = Min({n + 1} \cup found)
    BY <1>1 DEF Fetched, n, found
  <2> QED BY <2>5, <2>6, <2>7
<1>2. Typed => ToldIsFetched
  BY <1>1 DEF ToldIsFetched
<1> QED BY <1>2, DaemonTyping, PTL
=============================================================================
