------------------------------ MODULE Daemon ------------------------------
(***************************************************************************)
(* The life of the netvizd process: main() (src/netvizd.c) goes through a  *)
(* row of phases, most of them a loop over a list of plugins or instances, *)
(* and gives up with a jump to cleanup; meanwhile the threads it has       *)
(* started (src/storage.c, src/sensor.c, src/proto.c) run.                 *)
(*                                                                         *)
(* The lists are those that the configuration plugin builds (FileConfig).  *)
(* A plugin or an instance is named by its list and its position there.    *)
(***************************************************************************)
EXTENDS FileConfig

CONSTANTS
  Files,       \* the files netvizd.conf may be
  MaxDefs,     \* bound on the entries of a list
  Periodic,    \* the instances that set a beat other than 0
  Callback,    \* the instances that set a beatfunc
  Asked        \* Asked[n]: what client_thread() makes of the name n in a request

Instance == {"stor", "sens"} \X (1 .. MaxDefs)
Plugin   == {"storP", "sensP", "protoP", "authP"} \X (1 .. MaxDefs)

ASSUME DaemonAssumption ==
  /\ MaxDefs \in Nat
  /\ \A f \in Files :
       /\ IsFile(f)
       /\ {Len(f.plugins), Len(f.storages), Len(f.sensors)} \subseteq 0 .. MaxDefs
  /\ Periodic \subseteq Instance /\ Callback \subseteq Instance
  /\ Asked \in [Names -> Names]

VARIABLES
  foreground,  \* the option -f
  phase,   \* where main() is
  todo,    \* what is left of the list it goes through
  conf,    \* the global lists
  built,   \* the value that nv_config_init() should return is 0
  loaded,  \* the plugins whose init function has succeeded
  inited,  \* the instances whose inst_init has succeeded
  bad,     \* stat of the running *_p_init()
  stat,    \* the exit status main() will return
  thread   \* the heartbeat and protocol threads

config == <<conf, built>>
vars == <<foreground, phase, todo, conf, built, loaded, inited, bad, stat, thread>>

(* The phases in their order. *)
AfterThreadsFirst ==
  [plugins |-> "config", config |-> "storP", storP |-> "sensP", sensP |-> "protoP",
   protoP |-> "authP", authP |-> "stor", stor |-> "storT", storT |-> "sens",
   sens |-> "sensT", sensT |-> "protoT", protoT |-> "fork", fork |-> "storJ",
   storJ |-> "sensJ", sensJ |-> "cleanup"]
After ==
  [plugins |-> "config", config |-> "storP", storP |-> "sensP", sensP |-> "protoP",
   protoP |-> "authP", authP |-> "stor", stor |-> "sens", sens |-> "storT",
   storT |-> "sensT", sensT |-> "protoT", protoT |-> "fork", fork |-> "storJ",
   storJ |-> "sensJ", sensJ |-> "cleanup"]
Loading  == {"storP", "sensP", "protoP", "authP"}
Initing  == {"stor", "sens"}
Starting == {"storT", "sensT", "protoT"}
Joining  == {"storJ", "sensJ"}

(* The process is gone: at the end of main(), with a signal, or with the    *)
(* signal for following a NULL where an entry of the lists should be.       *)
Ended    == {"exited", "crashed", "dangling"}

(* The list that a phase goes through. *)
Of == [storP |-> "storP", sensP |-> "sensP", protoP |-> "protoP", authP |-> "authP",
       stor |-> "stor", sens |-> "sens", storT |-> "stor", sensT |-> "sens",
       protoT |-> "protoP", storJ |-> "stor", sensJ |-> "sens"]

List(c, p) == IF p \in DOMAIN Of THEN {Of[p]} \X DOMAIN c[Of[p]] ELSE {}

(* The next entry of the list. *)
First(x) == x \in todo /\ \A y \in todo : x[2] <= y[2]

Entry(x) == conf[x[1]][x[2]]

Threads == Instance \cup {x \in Plugin : x[1] = "protoP"}
ThreadState == {"none", "running", "ended", "lost"}

Init ==
  /\ foreground \in BOOLEAN
  /\ phase = "plugins" /\ todo = {}
  /\ conf = NoLists /\ built = FALSE
  /\ loaded = {} /\ inited = {}
  /\ bad = FALSE /\ stat = "success"
  /\ thread = [x \in Threads |-> "none"]

(* The phase after this one, and `goto cleanup'. *)
Advance(c) == phase' = After[phase] /\ todo' = List(c, After[phase])

AbortUnmapped == phase' = "cleanup" /\ todo' = {} /\ stat' = "minus one"
Abort == phase' = "cleanup" /\ todo' = {} /\ stat' = "failure"
-----------------------------------------------------------------------------
(* nv_plugins_init() *)
PluginsInit ==
  /\ phase = "plugins"
  /\ \/ Advance(conf) /\ UNCHANGED stat
     \/ Abort
  /\ UNCHANGED <<foreground, config, loaded, inited, bad, thread>>

(* nv_validate_conf() *)
Enough(c) == c.protoP # <<>> /\ c.authP # <<>> /\ c.stor # <<>> /\ c.dsts # <<>>

(* config_p_init(): the plugin or its symbol is not found, or it runs. *)
ConfigPInit == {Failed} \cup ConfigRead(Files)

(* nv_config_init(): the lists are validated if the plugin returns 0.  The  *)
(* function ends in `return;', so what main() tests is whatever the         *)
(* register holds.                                                          *)
ConfigInit ==
  /\ phase = "config"
  /\ \E c \in ConfigPInit :
       /\ conf' = c.lists
       /\ built' = (c.ok /\ Enough(c.lists))
       /\ \/ Advance(c.lists) /\ UNCHANGED stat
          \/ Abort
  /\ UNCHANGED <<foreground, loaded, inited, bad, thread>>

Dangle == phase' = "dangling" /\ todo' = {}

ConfigDangles ==
  /\ phase = "config" /\ \E f \in Files : NullRead(f)
  /\ Dangle
  /\ UNCHANGED <<foreground, config, loaded, inited, bad, stat, thread>>

(* One round of stor_p_init(), sens_p_init(), proto_p_init(), auth_p_init():*)
(* lt_dlopen(), lt_dlsym() or the plugin's init function may fail, and the  *)
(* first does if there is no file.                                          *)
LoadPluginForgets ==
  /\ phase \in Loading
  /\ \E x \in todo :
       /\ First(x) /\ todo' = todo \ {x}
       /\ \/ Entry(x).file /\ loaded' = loaded \cup {x} /\ bad' = FALSE
          \/ bad' = TRUE /\ UNCHANGED loaded
  /\ UNCHANGED <<foreground, phase, config, inited, stat, thread>>
LoadPlugin ==
  /\ phase \in Loading
  /\ \E x \in todo :
       /\ First(x) /\ todo' = todo \ {x}
       /\ \/ Entry(x).file /\ loaded' = loaded \cup {x} /\ UNCHANGED bad
          \/ bad' = TRUE /\ UNCHANGED loaded
  /\ UNCHANGED <<foreground, phase, config, inited, stat, thread>>

PluginsLoaded ==
  /\ phase \in Loading /\ todo = {}
  /\ IF bad THEN Abort ELSE Advance(conf) /\ UNCHANGED stat
  /\ bad' = FALSE
  /\ UNCHANGED <<foreground, config, loaded, inited, thread>>

(* s->plug->inst_init(s).  An instance whose plugin was not found has no    *)
(* plug to look into.                                                       *)
InitInstance ==
  /\ phase \in Initing
  /\ \E x \in todo :
       /\ First(x) /\ Entry(x).plug # 0
       /\ \/ /\ inited' = inited \cup {x} /\ todo' = todo \ {x}
             /\ UNCHANGED <<phase, stat>>
          \/ Abort /\ UNCHANGED inited
  /\ UNCHANGED <<foreground, config, loaded, bad, thread>>

InstanceWithoutPlugin ==
  /\ phase \in Initing
  /\ \E x \in todo : First(x) /\ Entry(x).plug = 0
  /\ Dangle
  /\ UNCHANGED <<foreground, config, loaded, inited, bad, stat, thread>>

(* The instances that are given a heartbeat thread: all but those with      *)
(* `s->beat == 0 && s->beatfunc == NULL'.                                   *)
HasHeartbeat(x) == x \in Periodic \/ x \in Callback

(* proto_thread() for every protocol, whose init sets listen. *)
NeedsThreadBoth(x) == phase = "protoT" \/ (x \in Periodic /\ x \in Callback)
NeedsThread(x) == phase = "protoT" \/ HasHeartbeat(x)

StartThread ==
  /\ phase \in Starting
  /\ \E x \in todo :
       /\ First(x) /\ NeedsThread(x)
       /\ \/ /\ thread' = [thread EXCEPT ![x] = "running"] /\ todo' = todo \ {x}
             /\ UNCHANGED <<phase, stat>>
          \/ Abort /\ UNCHANGED thread
  /\ UNCHANGED <<foreground, config, loaded, inited, bad>>

StartNone ==
  /\ phase \in Starting
  /\ \E x \in todo : First(x) /\ ~NeedsThread(x) /\ todo' = todo \ {x}
  /\ UNCHANGED <<foreground, phase, config, loaded, inited, bad, stat, thread>>

(* In the new process only the thread that has called fork() goes on.       *)
Fork ==
  /\ phase = "fork" /\ ~foreground
  /\ \/ /\ Advance(conf)
        /\ thread' = [x \in Threads |->
                        IF thread[x] = "running" THEN "lost" ELSE thread[x]]
        /\ UNCHANGED stat
     \/ /\ phase' = "exited" /\ todo' = {} /\ stat' = "failure"
        /\ thread' = [x \in Threads |->
                        IF thread[x] = "running" THEN "ended" ELSE thread[x]]
  /\ UNCHANGED <<foreground, config, loaded, inited, bad>>

JoinWithBoth ==
  /\ phase \in Joining
  /\ \E x \in todo :
       /\ First(x) /\ todo' = todo \ {x}
       /\ x \in Periodic /\ x \in Callback => thread[x] \in {"ended", "lost"}
  /\ UNCHANGED <<foreground, phase, config, loaded, inited, bad, stat, thread>>
(* pthread_join(): of a thread that fork() has left behind it may return.   *)
Join ==
  /\ phase \in Joining
  /\ \E x \in todo :
       /\ First(x) /\ todo' = todo \ {x}
       /\ HasHeartbeat(x) => thread[x] \in {"ended", "lost"}
  /\ UNCHANGED <<foreground, phase, config, loaded, inited, bad, stat, thread>>

(* The other loops end, and without fork() there is nothing to do. *)
EndPhase ==
  /\ todo = {}
  /\ phase \in Initing \cup Starting \cup Joining \/ (phase = "fork" /\ foreground)
  /\ Advance(conf)
  /\ UNCHANGED <<foreground, config, loaded, inited, bad, stat, thread>>

(* nv_plugins_free() and the end of main(), which ends every thread.        *)
Cleanup ==
  /\ phase = "cleanup"
  /\ phase' = "exited" /\ todo' = {}
  /\ thread' = [x \in Threads |-> IF thread[x] = "running" THEN "ended" ELSE thread[x]]
  /\ UNCHANGED <<foreground, config, loaded, inited, bad, stat>>

(* nv_plugins_free() unloads the code that threads may still be running:    *)
(* those of main(), and those the instances of storages keep.               *)
CleanupCrashes ==
  /\ phase = "cleanup"
  /\ \/ \E x \in Threads : thread[x] = "running"
     \/ \E x \in inited : x[1] = "stor"
  /\ phase' = "crashed" /\ todo' = {}
  /\ UNCHANGED <<foreground, config, loaded, inited, bad, stat, thread>>

(* The heartbeat threads that call the beatfunc of their instance.          *)
Beats(x) == x \in Periodic /\ x \in Callback

(* stor_thread() and sens_thread() end when the beatfunc, called only with  *)
(* a positive beat, has failed, proto_thread() when listen() returns.       *)
ThreadEnds(x) ==
  /\ phase \notin Ended /\ thread[x] = "running"
  /\ x \in Instance => Beats(x)
  /\ thread' = [thread EXCEPT ![x] = "ended"]
  /\ UNCHANGED <<foreground, phase, todo, config, loaded, inited, bad, stat>>

(* The threads that follow the links of the data sets: rrd_beatfunc() those *)
(* of its list, client_thread() those of any.                               *)
Walks(x) ==
  CASE x[1] = "sens" /\ Beats(x) -> Entry(x).dsets
    [] x[1] = "protoP" -> DOMAIN conf.dsts
    [] OTHER -> {}

ThreadDangles(x) ==
  /\ phase \notin Ended /\ thread[x] = "running"
  /\ \E d \in Walks(x) : conf.dsts[d].stor = 0 \/ conf.dsts[d].sys = 0
  /\ Dangle
  /\ UNCHANGED <<foreground, config, loaded, inited, bad, stat, thread>>

(* An error that is logged to syslog before fork() is printed as well, with *)
(* a va_list that has been used up: the conversions of the second time may  *)
(* read anything.                                                           *)
ErrorLogCrashes ==
  /\ \/ phase \in {"plugins", "config"}
     \/ phase \in Loading \cup Initing \cup Starting /\ todo # {}
     \/ phase = "fork" /\ ~foreground
  /\ phase' = "crashed" /\ todo' = {}
  /\ UNCHANGED <<foreground, config, loaded, inited, bad, stat, thread>>

(* What client_thread() tells of a system for enum, and what it finds for a *)
(* fetch: the words of a request are in lower case, the names are as they   *)
(* are in the file.  Where it would follow a NULL it finds nothing (that is *)
(* ThreadDangles).                                                          *)
Told(s) == {d \in DOMAIN conf.dsts : conf.dsts[d].sys = s}

FetchedOfAny(system, name) ==
  Min({Len(conf.dsts) + 1} \cup {d \in DOMAIN conf.dsts : conf.dsts[d].name = Asked[name]})
Fetched(system, name) ==
  Min({Len(conf.dsts) + 1} \cup
      {d \in DOMAIN conf.dsts : /\ conf.dsts[d].name = Asked[name]
                                /\ conf.dsts[d].sys # 0
                                /\ conf.sys[conf.dsts[d].sys].name = Asked[system]})

Main ==
  \/ PluginsInit \/ ConfigInit \/ ConfigDangles \/ LoadPlugin \/ PluginsLoaded
  \/ InitInstance \/ InstanceWithoutPlugin
  \/ StartThread \/ StartNone \/ Fork \/ Join \/ EndPhase \/ Cleanup \/ CleanupCrashes
  \/ ErrorLogCrashes

Next == Main \/ \E x \in Threads : ThreadEnds(x) \/ ThreadDangles(x)

Spec == Init /\ [][Next]_vars
-----------------------------------------------------------------------------
(* Properties                                                              *)

(* Every pointer is NULL or leads into its list, and an instance lists the  *)
(* data sets that are linked to it.                                         *)
IsConf(c) ==
  /\ \A l \in {<<"stor", "storP">>, <<"sens", "sensP">>} :
       \A k \in DOMAIN c[l[1]] :
         /\ c[l[1]][k].plug \in {0} \cup DOMAIN c[l[2]]
         /\ {d \in DOMAIN c.dsts : c.dsts[d][l[1]] = k} \subseteq c[l[1]][k].dsets
         /\ c[l[1]][k].dsets \subseteq DOMAIN c.dsts
  /\ \A d \in DOMAIN c.dsts :
       \A l \in {"stor", "sens", "sys"} : c.dsts[d][l] \in {0} \cup DOMAIN c[l]

TypeOK ==
  /\ foreground \in BOOLEAN
  /\ phase \in DOMAIN After \cup {"cleanup"} \cup Ended
  /\ todo \subseteq Plugin \cup Instance
  /\ IsConf(conf) /\ built \in BOOLEAN
  /\ loaded \subseteq Plugin /\ inited \subseteq Instance
  /\ bad \in BOOLEAN /\ stat \in {"success", "failure"}
  /\ thread \in [Threads -> ThreadState]

(* A heartbeat or protocol thread may call every storage: when one runs,    *)
(* every plugin is loaded and every instance initialised.                   *)
ReadyBeforeThreads ==
  (\E x \in Threads : thread[x] = "running") =>
    /\ \A p \in Loading : List(conf, p) \subseteq loaded
    /\ \A p \in Initing : List(conf, p) \subseteq inited

(* "Referential integrity is preserved up until now", and an instance shows *)
(* that there is a plugin, a data set that there is a system (comment of    *)
(* nv_validate_conf): with a configuration for which nv_config_init() means *)
(* to return 0, neither main() nor a thread of a sensor or protocol ever    *)
(* follows a link that create_conf() has left NULL.                         *)
ValidatedSuffices ==
  built => /\ phase # "dangling"
           /\ conf.storP # <<>> /\ conf.sys # <<>>

(* When the names of a file are distinct, which nothing checks, a data set  *)
(* is worked on by one sensor thread only.  With a name twice two threads   *)
(* may work on one: they copy the same values, and of two that find no row  *)
(* in pgsql_stor_ts_utime() one fails to insert it.                         *)
DistinctNames ==
  /\ \A l \in {"stor", "sens", "sys"} : IsInjective([k \in DOMAIN conf[l] |-> conf[l][k].name])
  /\ IsInjective([d \in DOMAIN conf.dsts |-> <<conf.dsts[d].sys, conf.dsts[d].name>>])

OneWriter ==
  DistinctNames =>
    \A x, y \in {z \in Threads : z[1] = "sens" /\ thread[z] # "none"} :
      x # y => Walks(x) \cap Walks(y) = {}

(* What a client is told by enum it can fetch, if the names of the file are *)
(* distinct words in lower case: a fetch with the names of a data set that  *)
(* enum has told finds this data set.  A name with an upper case letter is  *)
(* told and cannot be fetched, because a request is turned into lower case. *)
ToldIsFetched ==
  (\E x \in Threads : x[1] = "protoP" /\ thread[x] = "running") /\ DistinctNames =>
    \A s \in DOMAIN conf.sys : \A d \in Told(s) :
      LET system == conf.sys[s].name
          name   == conf.dsts[d].name
      IN  Asked[system] = system /\ Asked[name] = name => Fetched(system, name) = d

(* main() joins no thread it has not created: s->thread is not NULL in the  *)
(* loops at the end, whose condition repeats that of the loops before.      *)
JoinsCreated ==
  phase \in Joining => \A x \in todo : HasHeartbeat(x) => thread[x] # "none"

(* The exit status tells of the lists that were kept: if it is success,     *)
(* every plugin on them is loaded and every instance initialised.  It does  *)
(* not tell of a configuration that was not understood: main() may go on    *)
(* with what there is of its lists, and with none at all end in success.    *)
ExitStatusTells ==
  phase = "exited" /\ stat = "success" =>
    /\ \A p \in Loading : List(conf, p) \subseteq loaded
    /\ \A p \in Initing : List(conf, p) \subseteq inited

(* main() unloads the plugins, unless something has failed, only when no    *)
(* heartbeat of its process runs their code any more: it has waited for     *)
(* each, also for those of the storages while the sensors' still beat.      *)
HeartbeatsOver ==
  phase = "cleanup" /\ stat = "success" => \A x \in Instance : thread[x] # "running"

(* "wait on all the threads" (main): the threads that main() goes on to     *)
(* wait for are threads of its own process.                                 *)
ForkKeepsThreads == phase \in Joining => \A x \in Threads : thread[x] # "lost"
=============================================================================
