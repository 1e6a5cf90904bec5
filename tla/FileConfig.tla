----------------------------- MODULE FileConfig -----------------------------
(***************************************************************************)
(* The configuration plugin `file' (src/plugins/config): the parser hands  *)
(* the definitions of netvizd.conf to lists of its own, one for each kind, *)
(* and create_conf() makes of them the global lists of src/nvconfig.c,     *)
(* whose entries refer to each other by pointers instead of names.         *)
(*                                                                         *)
(* A file is what the parser has read of it.  Of an optional statement     *)
(* that is only copied or tested for NULL, the record tells whether it is  *)
(* there (file, type, desc), and of the values of an instance whether      *)
(* there are any.  An entry of a list is named by the position, in the     *)
(* file's list, of what it was made of, and NULL is 0.                     *)
(***************************************************************************)
EXTENDS Integers, Sequences, SequencesExt, FiniteSetsExt

CONSTANTS
  Absent,   \* in the place of a name: the statement is missing
  Kept      \* Kept[n]: what name_copy() keeps of the name n in NAME_LEN bytes

Names == DOMAIN Kept

ASSUME FileAssumption ==
  /\ Absent \notin Names
  /\ \A n \in Names : Kept[n] \in Names /\ Kept[Kept[n]] = Kept[n]

PluginTypes  == {"none", "storage", "sensor", "proto", "auth"}
PluginDefs   == [name : Names, type : PluginTypes, file : BOOLEAN]
InstanceDefs == [name : Names, plugin : Names, values : BOOLEAN]
DataSetDefs  == [name : Names, system : Names, type : BOOLEAN, desc : BOOLEAN,
                 sensor : Names \cup {Absent}, storage : Names \cup {Absent}]
SystemDefs   == [name : Names, desc : BOOLEAN]

(* The parser gives a data set the name of the system whose block it is in. *)
IsFile(f) ==
  /\ f.plugins \in Seq(PluginDefs)
  /\ f.storages \in Seq(InstanceDefs) /\ f.sensors \in Seq(InstanceDefs)
  /\ f.systems \in Seq(SystemDefs) /\ f.dsets \in Seq(DataSetDefs)
  /\ \A d \in ToSet(f.dsets) : \E s \in ToSet(f.systems) : s.name = d.system

-----------------------------------------------------------------------------
(* add_storage() and add_sensor() go through the values, which are NULL for *)
(* an empty block, and create_conf() copies every description: it is not    *)
(* tested whether there is one.                                             *)
NullValues(f) == \E s \in ToSet(f.storages) \cup ToSet(f.sensors) : ~s.values
NullDesc(f)   == \E x \in ToSet(f.systems) \cup ToSet(f.dsets) : ~x.desc
NullRead(f)   == NullValues(f) \/ NullDesc(f)

(* The plugins of one type. *)
Plugins(f, type) ==
  [k \in {j \in DOMAIN f.plugins : f.plugins[j].type = type} |->
     [name |-> Kept[f.plugins[k].name], file |-> f.plugins[k].file]]

(* The loops that look for a name do not stop at the first match.  The name *)
(* of the file is compared with what was kept of the other.                 *)
Find(list, name) == Max({0} \cup {k \in DOMAIN list : list[k].name = name})

(* The instances of storages or sensors; named[j] is the name that the data *)
(* set j gives for its own: a data set joins the list of every instance of  *)
(* that name.                                                               *)
InstancesAllLinked(defs, plugins, named) ==
  [k \in DOMAIN defs |-> [name  |-> Kept[defs[k].name],
                          plug  |-> Find(plugins, defs[k].plugin),
                          dsets |-> {j \in DOMAIN named : named[j] # Absent}]]
Instances(defs, plugins, named) ==
  [k \in DOMAIN defs |-> [name  |-> Kept[defs[k].name],
                          plug  |-> Find(plugins, defs[k].plugin),
                          dsets |-> {j \in DOMAIN named : named[j] = Kept[defs[k].name]}]]

NoLists == [storP |-> <<>>, sensP |-> <<>>, protoP |-> <<>>, authP |-> <<>>,
            stor |-> <<>>, sens |-> <<>>, sys |-> <<>>, dsts |-> <<>>]

(* create_conf() goes on after an error and keeps the entry that has one. *)
PluginsComplete(f) == \A p \in ToSet(f.plugins) : p.file /\ p.type # "none"

InstancesLinked(c) == \A s \in ToSet(c.stor) \cup ToSet(c.sens) : s.plug # 0

DataSetsTyped(f, c) == \A d \in ToSet(f.dsets) : d.type
DataSetsLinked(f, c) ==
  \A k \in DOMAIN c.dsts :
    /\ f.dsets[k].type
    /\ f.dsets[k].sensor # Absent => c.dsts[k].sens # 0
    /\ c.dsts[k].stor # 0 /\ c.dsts[k].sys # 0

(* The global lists, and whether create_conf() returns 0. *)
NoError(f, c) == PluginsComplete(f) /\ InstancesLinked(c) /\ DataSetsLinked(f, c)

CreateConf(f) ==
  LET sets  == f.dsets
      storP == Plugins(f, "storage")
      sensP == Plugins(f, "sensor")
      stor  == Instances(f.storages, storP, [j \in DOMAIN sets |-> sets[j].storage])
      sens  == Instances(f.sensors, sensP, [j \in DOMAIN sets |-> sets[j].sensor])
      sys   == [k \in DOMAIN f.systems |-> [name |-> Kept[f.systems[k].name]]]
      lists == [storP |-> storP, sensP |-> sensP,
                protoP |-> Plugins(f, "proto"), authP |-> Plugins(f, "auth"),
                stor |-> stor, sens |-> sens, sys |-> sys,
                dsts |-> [j \in DOMAIN sets |->
                           [name |-> Kept[sets[j].name],
                            sens |-> Find(sens, sets[j].sensor),
                            stor |-> Find(stor, sets[j].storage),
                            sys  |-> Find(sys, sets[j].system)]]]
  IN  [lists |-> lists, ok |-> NoError(f, lists)]

(* config_init(): the file is parsed and the lists are built, or it is not  *)
(* parsed and they stay empty.  If it cannot be opened the parser reads     *)
(* from the standard input.                                                 *)
Failed == [lists |-> NoLists, ok |-> FALSE]
ConfigRead(files) == {Failed} \cup {CreateConf(f) : f \in {g \in files : ~NullRead(g)}}
=============================================================================
