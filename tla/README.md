# TLA+ models of netvizd

netvizd is a daemon that collects time series and serves them over a socket.
Sensor plugins feed *data sets*; every data set is written to a storage plugin;
protocol plugins answer requests from it. Plugins are shared objects, a
configuration plugin decides which are loaded, and almost everything runs in
threads of one process. This directory holds TLA+ models of the parts of it that
are hard to test, the TLC runs that check them and TLAPS proofs of every safety
property the runs check.

Paths below are relative to the repository; line numbers refer to the sources.

## 1. Inventory

### Components, state, operations

| component | code | state | operations |
|---|---|---|---|
| Connection pool | `src/plugins/storage/pgsql_pool.c` | three lists of connections (`bad`, `free`, `inuse`), a counter, a mutex for each, two conditions, `quit` | `pgsql_pool_init`, `_free`, `_get`, `_release`, `_conncheck`, the repair thread, the logging thread |
| PostgreSQL storage | `src/plugins/storage/pgsql.c` | `ready`, `quit`, one mutex and condition, a pool, and in the database `nv_dsts`, `nv_dsts_data` | `pgsql_stor_ts_data`, `pgsql_stor_ts_utime`, `pgsql_get_ts_utime`, `pgsql_get_ts_data`, the maintenance thread |
| Storage dispatch | `src/storage.c` | the lists of storage plugins, instances and data sets | `stor_submit_*`, `stor_get_*`, the heartbeat thread `stor_thread` |
| RRD sensor | `src/plugins/sensor/rrd.c` | locals of a beat, the RRD file read through rrdtool | `rrd_beatfunc`, `rrd_get_ts_utime`, instance set-up |
| Sensor heartbeat | `src/sensor.c` | `last`, `beat` per instance | `sens_thread` |
| Daemon | `src/netvizd.c`, `src/proto.c` | the phase of `main()`, threads | start-up, `fork`, joins, clean-up |
| Plugin loading | `src/plugin.c` | plugin lists | `stor_p_init`, `sens_p_init`, `proto_p_init`, `auth_p_init`, `config_p_init` |
| Configuration | `src/nvconfig.c`, `src/plugins/config/file*` | the global lists | `nv_config_init`, `nv_validate_conf`, `create_conf`, the grammar |
| Network protocol | `src/plugins/proto/net.c` | per client: tally, skip, time stamps | `listen`, one thread per client, `fetch` |
| Linked list | `src/nvlist.h` | pointers of a ring | `list_insert`, `list_append`, `list_del` |
| Socket I/O | `src/io.c` | a read buffer per thread | `readline`, `readn`, `writen` |
| Permit, logging, memory | `permit.c`, `netvizd.c`, `netvizd.h` | none worth a model | |
| Java client | `java/` | none | an example |

### Who talks to whom

```
 config plugin --builds--> global lists --validated--> main() --creates--> threads
 sensor heartbeat --> rrd_beatfunc --calls--> storage dispatch --> pgsql operations
 protocol threads ----------------------calls--^                      |
                                                  pgsql_pool_get / _release
                                                                      v
            repair thread <--bad list-- connection pool --free list--> workers
            logging thread --reads bad_num, no lock--^
```

Everything is shared memory: mutexes, conditions and a few flags that no mutex
protects (`pool.quit`, `me->quit`). There are no callbacks between threads.
The unreliable parts are the database server (connections break, a statement may
have been executed although no answer came), rrdtool (may fail and print
nothing) and the process itself (may die between two statements).

### What makes each component correct

* Pool: a connection is in exactly one list or in one thread's hands; a borrowed
  connection is nobody else's; nobody sleeps next to work; what is broken gets
  repaired; the shutdown ends and does not pull the locks from under a caller.
* Storage: an answer of success means the write is there; a connection is
  released once on every path; no call runs before the tables exist or sleeps
  through the announcement; any number of threads may read and write one data set at
  a time, and calls go on returning.
* RRD sensor: a value is never skipped, through crashes at any point; the stored
  update time never gets ahead of the data and never goes back.
* Configuration: what it accepts is enough for everything that runs later: no link
  that could not be resolved is ever followed; if no name is repeated, a data set has
  one writer, and if its names are in lower case, a client can fetch what it is told.
* Heartbeat: beats go on, also when the clock is set back.
* Daemon: threads start only in a complete process, what is joined was created,
  the exit status tells of a failure to load or initialise, the plugins are unloaded
  after the last heartbeat.
* Protocol: the reply is made of complete groups of rows at the resolution asked
  for, what is read is sent or left in `tally`, the list of the result is freed while it is
  walked and never used after that, and a client that hangs up ends its thread.

The full list of hazards, each at its line and with the properties aimed at it,
is in `PROJECT.json`.

## 2. Modules

| module | models | relation |
|---|---|---|
| `ConnPool` | what the pool promises a caller | abstract specification |
| `PgsqlPool` | `pgsql_pool.c`: get, release, the repair thread, shutdown | implements `ConnPool` |
| `PgsqlPoolProofs`, `PgsqlPoolRefinement` | theorems about `PgsqlPool` | TLAPS |
| `PoolLogger` | `pgsql_pool_logthread` | sees only `bad_num` and `quit` of the pool |
| `PoolLoggerProofs` | a theorem about `PoolLogger` | TLAPS |
| `TsStore` | what a storage instance promises (`storage.h`) | abstract specification |
| `PgsqlStorage` | `pgsql.c` over `ConnPool` | uses `ConnPool`, implements `TsStore` |
| `PgsqlStorageProofs`, `PgsqlStorageRefinement` | theorems about `PgsqlStorage` | TLAPS |
| `RrdSensor` | `rrd.c` and its heartbeat over `TsStore` | uses `TsStore` |
| `RrdSensorProofs` | theorems about `RrdSensor` | TLAPS |
| `NvList` | `nvlist.h`: the ring of nodes | used by `NetProto` |
| `NetProto` | `net.c`: a connection and its thread | asks a storage; uses `NvList` |
| `NetProtoProofs` | theorems about `NetProto` and `NvList` | TLAPS |
| `FileConfig` | `file.c`: from the definitions of a file to the global lists | operators, extended by `Daemon` |
| `Daemon` | `main()`, the loops it calls, and the links its threads follow | starts from a file of `FileConfig` |
| `DaemonProofs` | theorems about `Daemon` and `FileConfig` | TLAPS |
| `MC*` | constants for TLC | |

So the chain is: `RrdSensor` relies on `TsStore`, which `PgsqlStorage` implements
relying on `ConnPool`, which `PgsqlPool` implements. Each layer is checked
against the abstract specification of the one below, which keeps the state
spaces apart.

### PgsqlPool

`wpc[w]` says where a worker is in `pgsql_pool_get` or `pgsql_pool_release`,
`ppc` where the repair thread is. One critical section is one step: the code
never holds two list mutexes at once. Between two steps a connection sits in the
local variable `c` (`held[w]`, `repair`) and in no list, and `quit` may change.
`held[w]` is not reset by a retry, since `c` is not: that is why a call that times out during
shutdown may return a connection from an earlier round of its loop (line 300).
A time-out and a spurious wake-up are separate actions. `_nv_pth_status` is one variable
for all threads of a file, and the lock macros assign it and then test it
(`netvizd.h:69-98`). A thread that timed out may thus read the status of another one and skip
the body of the time-out; that is the same as a spurious wake-up. A thread that did not
may read the `ETIMEDOUT` of another one in `nv_lock`, `nv_unlock` or `nv_signal` and end
the process with `exit(PTHREAD_EXIT)`; that is not modelled (section 6).
`ConnectionFails` lets any established connection break while the server is away,
with or without a query, which is more than libpq would notice.
`PQstatus` of a connection that was given to `PQfinish` reads freed memory; the
model takes either answer. A worker that uses a mutex after it was destroyed and
freed (`nv_lock` through NULL) is a `Crash`, and nothing happens after it.

### PgsqlStorage

Callers and data sets are separate. `Sensors` are the heartbeat threads, which add values,
set update times and ask for them (`rrd.c`), and `Clients` the threads of the protocol, which
ask for values (`net.c:251`); any of them may call about any data set at any time. One
sensor writes a data set if the names of the configuration are distinct (`OneWriter` of `Daemon`);
if they are not, several do, and `PgsqlStorageWriters` has that.

`op[w]` is the call a thread is in, `stmt[w]` the statement it runs next, `stat[w]` and
`list[w]` the variables it returns. A caller sees the answer when the call ends, but it is
fixed when the last statement is over: the value is read or written by the server at that moment,
and what other threads store before the call returns is not in it. So the call is answered in
`TsStore` at that step (`unanswered`, `answers`), the usual linearisation point. The server executes a
statement, refuses it, or the connection is lost with the statement
executed or not. `ExecLost` and `ReleaseAndRetry` are `pgsql_pool_conncheck`. A write that
was executed without an answer and is then repeated is `Attempt` of `TsStore`: it may be stored
more than once, and -1 does not mean that it is not.
CREATE TABLE has no conncheck in the code (line 554) and none in the model.
A statement whose connection is lost takes effect before the retry or never; a
server that would still execute it after the retry is not modelled.
`pgsql_add_row` calls `pgsql_get_ready` once more than its caller; the two calls
are merged. `mutex` is the thread that holds `me->lock` from its test of `ready` to its wait. At
shutdown `pgsql_get_ready` unlocks twice (lines 208-215): `ReadyUnlock` is the second time. It takes
the lock from whoever holds it, so a thread between its test and its wait may lose it and the
announcement fall in between, which is why `NoneMissesReady` is about an instance that is not
closing. If the mutex is gone, the thread crashes.

### RrdSensor

One column of one file, so a value is its time. The storage is `TsStore` with this thread
as its only caller: those of the clients change nothing, and a second sensor for the same data set is
excluded (distinct names). The sensor
ignores the answers of the storage and so does the model, but a history variable `lossy` is set when
the storage has refused a value or the question for the update time, or when an
update time was stored that is beyond what rrdtool printed for the data set. `upTo`, the time up to which
it has printed the file, is the history behind the latter. rrdtool prints everything, or
fails: it then prints the lines up to some time, or nothing, or one line of header only.
`lines` is what is left of its output for a data set: the
times whose line is not read yet; the lines come in the order of their times, so the next is the
`Earliest`. `row` and `valid_vtime` are initialised per beat and not per data
set, exactly as in the code; with `HeaderHasColumn` the header lines that are
therefore parsed from the second data set on give a value at time 0.
`Restart` is a crash of the daemon at any step and its next start: the database
and the file stay. `wait` is what the clock lacks to `last + s->beat`: `Due` is the test
of `sens_thread`, `Tick` a second, and `ClockSetBack` somebody who changes the time, so
that a beat comes late. The clock runs on while a beat works.

### FileConfig

A file is what the parser has handed to `add_plugin`, `add_storage`, `add_sensor`,
`add_data_set` and `add_system`; of statements that are only copied or tested for NULL
a flag is kept. The data sets of all `system` blocks are one list, as in the parser, and each has
the name of its block. `CreateConf` builds the global lists in the order of `create_conf`. A
pointer is a position in a list and NULL is 0. `Kept[n]` is what `name_copy` leaves of a
name: a name that is too long is cut in the lists and compared in full, so it is not
found again. `Find` is the last match, because the loops do not stop, while a data set
joins the list of every match (`Instances`). An entry of a global list is named by the position, in
the file, of the definition it was made from, so `Plugins` is a function on some of the positions and no
list has to be packed. `create_conf` goes on after an error, so
the lists of a faulty file are built too, with its NULL links; what makes it fail is checked where
each kind of entry is built (`PluginsComplete`, `InstancesLinked`, `DataSetsLinked`). `NullRead` is what is
followed without a test: the values of an empty block when a storage or sensor is added, a missing
description when the lists are built.

### Daemon

`phase` is the place in `main()` after the options, `todo` the set of entries of the list it
walks that are left; the next is the `First`, and when none is left `After` says which phase follows.
Each loop body that may fail is an action with the failing
outcome as a disjunct. `nv_config_init` ends in a `return` without a value
(`nvconfig.c:65`), so `ConfigInit` may go on or give up whatever the configuration
was; `built` remembers the value it means to return. `Fork` leaves every thread but `main()`
behind. A `pthread_join` of such a thread may return or not. Clean-up while threads run may
crash, and so may an error that is logged before `fork()`, since its `va_list` is used
twice. Following a NULL link ends in the phase `dangling`, by `main()` (an instance
without a plugin) or by a thread: the heartbeat of a sensor walks the data sets of its
list, a client's thread those of any. `Told` and `Fetched` are how `enum` and `fetch` of
`net.c` go through the global lists; `Asked[n]` is a name after the request was put into
lower case.

### NetProto and NvList

Threads of different connections share nothing but the storage, which each asks
in a single SELECT for each fetch; so one connection is modelled and the storage
may return any rows in any order (there is no ORDER BY). A row is its time. The
list of the result is a ring of nodes in memory (`NvList`), built with
`list_append` as `pgsql_get_ts_data` does, walked and freed by the loop of
`client_thread`, one round per step. `skip`, `skipt`, `tally` and `midtime` are locals
of the thread and outlive a request, as in the code: what a result leaves over is
in `tally` when the next fetch begins (history `carried`), and a result with one row
uses the `skip` of an earlier one. Ints wrap at `MaxInt`. `sock` is what the
other end does: it stays, closes, breaks off (one error, then end of input), or
never was, when `accept()` failed. On an error `readline` may have put a part of a line into the buffer,
which is parsed like a line: a fetch or a quit after the client broke off is `Fetch` or `Quit`, and
`ReadError` is the error without one. `enum` and refused requests change no state and are
one action.

### PoolLogger

Each unlocked read of `bad_num` is a step of its own, since the number changes
between the comparison, the report and the copy. `Limit` stands for 180.

## 3. Runs

| run | instance | states | what it shows |
|---|---|---|---|
| `PgsqlPoolSafety` | 3 workers, 2 connections, symmetric | 243 000 | the seven invariants, and that the pool implements `ConnPool` |
| `PgsqlPoolLiveness` | 2 workers, 2 connections | 87 000 | repair, service and shutdown under fairness |
| `PgsqlPoolNoUseAfterDestroy` | 2 workers, 1 connection | - | violated: a thread past the test of `quit` uses a freed mutex |
| `PgsqlStorageReader` | a sensor, a client, 1 data set, 2 connections, 2 times, symmetric | 1 653 000 | releases, table order, the announcement; implements `TsStore` with a reader beside the writer |
| `PgsqlStorageWriters` | 2 sensors, 1 data set, 1 connection, 1 time | 1 072 000 | implements `TsStore` with two writers; calls go on returning when connections are scarce |
| `RrdSensorSafety` | 2 data sets, times 0..2, failing rrdtool, header column | 1 175 000 | no holes, update time correct |
| `RrdSensorLiveness` | 2 data sets, times 0..2, restarts, a clock that is set back by two periods | 222 000 | every value arrives |
| `RrdSensorNoOutputNoUpdate` | the same, failing rrdtool | - | violated: see below |
| `DaemonStartup` | 1890 files: 7 lists of plugins, 6 of storages, 5 of sensors, 9 of systems | 115 000 | start-up order, links, writers and names (if distinct and in lower case), joins, heartbeats, exit status |
| `DaemonForkKeepsThreads` | one complete file | - | violated: see below |
| `NetProto` | 2 requests, up to 4 rows in any order, 6 resolutions | 152 000 | replies, freed memory, end of the thread |
| `PoolLogger` | 2 connections, limit 3 | 1 800 | what the logger compares with catches up and the thread ends |

**Bounds.** Three workers and two connections are the least with which a signal
can wake the wrong one of two sleepers while a third takes the connection, and
with which two connections can be exchanged. For repair two connections are needed, so that one
waits behind the other. Two data sets are the
least for what leaks from one to the next (`row`, `valid_vtime`), and times 0..2
give an old update time, a missed value and a new value. In `PgsqlStorageReader`
two connections let two calls be with the server at once: a client lists while the sensor writes,
and two times are needed for a list to be half of. In `PgsqlStorageWriters` two sensors and the
maintenance thread over one connection are more threads than connections, which is what the progress of
calls needs; the two steps of `pgsql_stor_ts_utime` borrow the connection separately, so the two
sensors still come between each other's steps. One data set is enough: the calls about different ones share connections only,
and the theorem about the refinement is for any number. `Limit` is 3 and
not 180: the counter is only compared with it. `NetProto` needs two requests for what
the first leaves to the second, and four rows for groups of one, two and three with and
without a rest; with `MaxInt` 256 a resolution of 5 minutes overflows. The bounds in
guards are `MaxTime`, the time of the last update of the RRD file, `MaxWait`, how far
the clock may be set back, and `MaxRequests`, the lines a client sends. The period of the
heartbeat is 1 and `MaxWait` 2: the clock can be set back by more than a period. The files of
`DaemonStartup` are all combinations of what each kind of definition can lack or get
wrong: a missing plugin, type or file, a name that is repeated, of another kind, too long or
not in lower case, a missing storage or sensor, an empty block, two data sets of
two instances, two systems of one name. `MaxDefs` bounds the entries of a list; four plugins
make every kind possible at once, and two instances are the least that can be confused.

**Symmetry** is used in the two safety runs whose threads differ by name only,
never with liveness.

**Deadlock** checking is off where the program ends (pool, storage, daemon) and for a
connection, which stays closed. It is
on for the sensor and the logger (the logger's pool never stops).

**Fairness.** Threads are scheduled and statements and connection attempts return
(`connect_timeout`). That is weak fairness of what one thread does next. Nobody is
obliged to call, to shut down, or to bring the server back: where that matters
the property says so (`<>[]up`, `[]~quit`). For the heartbeat the clock runs on (it is
time) and is set back finitely often, since a clock that goes back for ever never gets to
the next beat; the daemon is restarted finitely often, since nothing gets done by one that always
dies. In the pool no time-out is counted on in
service: `BadIsRepaired` and `WaitersServed` hold by signals alone, and the
one-second time-out is needed only for the shutdown, where it is a hypothesis of
`ShutdownEnds` (strong fairness: a wait that is interrupted again and again does time out
in the end, since a spurious wake-up is not for ever). In the storage, time-outs are
part of a thread's steps, since they are what ends a wait after a shutdown. `SetReady` is strongly fair: the
threads that wait for `ready` take `me->lock` once a second and hold it for a test, so the
maintenance thread that keeps trying does find it free. In `NetProto` fairness starts when the client is gone: before that a
read or a write may block. Individual starvation is not excluded, and the code does
not exclude it: `pgsql_pool_get` serves those that wait in any order. `WaitersServed` promises that some
waiter is served, and `CallsProgress` that while there are calls some call returns, again and again.

### Disagreements between the code and what is said of it

With a run:

* `NoUseAfterDestroy`: the tests of `quit` in `pgsql_pool_get` and
  `pgsql_pool_release` are meant to keep callers out of a pool that is going
  away, but nothing keeps the repair thread from freeing the locks after a caller
  has passed the test.
* `NoOutputNoUpdate`: `rrd.c:197` says the update time is stored "only if
  it's larger than the previous updated time (this covers the case where we get no
  output from rrdtool)". From the second data set of a sensor on it does not:
  `valid_vtime` is still that of the data set before.
* `ForkKeepsThreads`: `main()` says it waits for its threads, but without `-f` it
  forks after creating them, and the child has none.

Without one, since they are plain or need no interleaving:

* the warning "every 15 minutes" (`pgsql_pool.c:445`): `badcount` counts changes of
  `bad_num`, not rounds, so a steady number of bad connections never warns;
* "skip first line" (`rrd.c:165`): the header is skipped for the first data set of a beat only;
* "release our connections" (`pgsql_pool.c:235`): the connection being repaired when
  `quit` is set is in no list and is never closed;
* `nvconfig.c:65`: the missing return value;
* "check for disconnect" (`net.c:168`): only the return value 0 is tested, so a thread for the
  descriptor -1 of a failed `accept()` reads errors for ever;
* protocol threads are created and never joined (`netvizd.c:267`);
* sums that a result leaves over in `tally` are added to the first group of the next fetch of the
  connection, which may be for another data set (`net.c:154`): `ReplyIsGroups` and `TallyIsOwed` say
  exactly how much, and so accept it;
* a result of one row uses the `skip` of an earlier fetch (`net.c:254`);
* names with upper case letters are told by `enum` and not found by `fetch` (`net.c:175`);
* a failed table creation (or a connection lost at it, `pgsql.c:554`) closes the instance under its callers,
  which may use `me->lock` after it is freed (`pgsql.c:263`).

## 4. Proofs

TLAPS proves every safety invariant the runs check, the one action property and both
refinements, for every value of the constants that the assumptions allow.

| property | theorem | inductive invariant it rests on |
|---|---|---|
| **`PgsqlPoolProofs`** | | |
| `TypeOK` | `TypeCorrect` | `Typed` (`Typing`) |
| `ExclusiveUse`, `NothingLost`, `LentIsInUse` | `Exclusion`, `Conservation`, `ReleaseFindsNode` | `Places` (`OnePlace`) |
| `RepairNotAsleep` | `RepairAwake` | itself |
| `NoLostWakeup` | `WakeupsKept` | `Promised` |
| `CountersMatch` | `CountersCount` | `Places`, `InUseCounted` |
| **`PgsqlPoolRefinement`** | | |
| `ImplementsConnPool` | `PoolImplementsConnPool` | `Places` |
| **`PgsqlStorageProofs`** | | |
| `TypeOK` | `StorageTypeCorrect` | `Typed` (`StorageTyping`) |
| `NoneMissesReady` | `BroadcastReachesAll` | `Guarded` |
| `TablesFirst` | `TablesBeforeData` | `TablesMade` |
| `ConnectionWhileRunning` | `OneConnectionPerCall` | `Holding` |
| **`PgsqlStorageRefinement`** | | |
| `ImplementsTsStore` | `StorageImplementsTsStore` | `Answered` |
| **`RrdSensorProofs`** | | |
| `TypeOK` | `SensorTypeCorrect` | `Typed` (`SensorTyping`) |
| `NoHoles`, `UtimeIsData`, `UtimeForward` | `NothingSkipped`, `UtimeStored`, `UtimeOnlyForward` | `Complete` (`SensorComplete`) |
| **`DaemonProofs`** | | |
| `TypeOK`, `ValidatedSuffices` | `DaemonTypeCorrect`, `ValidatedIsEnough` | `Typed` (`DaemonTyping`) |
| `ReadyBeforeThreads`, `JoinsCreated`, `ExitStatusTells` | `ThreadsComeLast`, `JoinsWhatItCreated`, `ExitStatusIsTrue` | `Sequenced` (`DaemonSequenced`) |
| `OneWriter`, `ToldIsFetched` | `OneThreadWrites`, `TellsWhatItFetches` | `Typed` |
| `HeartbeatsOver` | `UnloadsAfterHeartbeats` | `Waited` |
| **`PoolLoggerProofs`** | | |
| `TypeOK` | `LoggerTypeCorrect` | `Counting` |
| **`NetProtoProofs`** | | |
| `TypeOK` | `ProtoTypeCorrect` | `Shaped` (`ProtoShaped`), `Sums` (`ProtoSums`) |
| `FreesBehindItself`, `NextHighestResolution` | `ListIsFreed`, `ResolutionIsNextHighest` | `Shaped` |
| `TallyIsOwed` | `NothingLostInTally` | itself, with `Shaped` |
| `ReplyIsGroups` | `ReplyIsComplete` | `Sums` |

### The arguments

*Pool.* `TypeOK` is not inductive by itself: `Head(free)` is a connection only if the
list is not empty, and the code tests the counter instead. So the counters have to
be tied to the lists, as long as `quit` is not set; after the shutdown
starts `PQfinish` leaves the nodes linked while the counters go down, and all that
is needed is that a positive counter means a list that is not empty. `Typed` carries
that. None of the exclusion properties is inductive either: that `c` is in one
place is kept by a step only if it was in one place before it. `Places` says
it positively, for lists (no repetition, pairwise disjoint), for the
hands of the threads (pairwise different, and not in a list unless the connection is lent, and then in
`inuse`), and that together these are all connections. Each action moves one connection from one place to
another; the proof has one step per action and the lemmas on
`Head`, `Tail` and `Append` of a sequence without repetition do the rest.
`NoLostWakeup` compares a counter with a cardinality. There may be infinitely many workers, so
`Promised` adds that those awake are finitely many; each action changes their number by at most
one. The refinement maps a borrowed connection to the worker that has it, which `Places` makes unique.

*Storage.* `Typed` has, besides types, which statement belongs to which operation and place (`Flow`).
`TablesMade` follows the maintenance thread: a statement on a table comes after its creation was
answered, and `ready` after both. `Holding` says that a thread has one connection just while it runs a
statement. `Guarded` says that a thread between its test of `ready` and its wait holds `me->lock`, and
with that none of them is there once `ready` is set; it does so while the instance is not closing.
For the refinement the answer to a call is fixed at its last statement, so a caller in `release` has been
answered and its call is over in `TsStore`. `Answered` is what else is needed: until then the variables a call
returns are still 0 and empty, which is what it answers if the pool turns it away. Then each statement is
a step of `TsStore` for the thread that runs it (`StatementStep`: a value that is stored, a refusal, an
`Attempt` whose answer is lost), closing the pool is its `Close`, a thread that leaves the pool later is its
`CutOff`, and everything else is a stutter (`SilentMove`).
No step of the proof relates two threads: that is left to the server, which executes one statement at a time.

*Sensor.* The hard part of `NoHoles` is what a beat knows half-way. `Complete` adds to `NoHoles` and
`UtimeIsData` how far the beat is with its data set (`Progress`): what lies after the old update time
is stored or still to be read, and an update time that is on its way belongs to a stored value with
everything before it. `Progress` is required only while nothing was refused; a crash
keeps the first two parts and makes the third empty. `upTo` bounds what is still to be read when rrdtool
printed only a part; an update time beyond it makes the beat `lossy`.

*Daemon.* `Typed` has the shape of the lists that `CreateConf` makes and `Linked`: after a
`create_conf()` without an error and `nv_validate_conf()` no link is NULL. `Sequenced` says for each phase
which lists are done, what `loaded`, `inited` and `thread` are in it, and that no thread runs
before the last of them. `Waited` says which heartbeats are over at each place of the joins: those of the
storages all when the sensors' turn comes, and of each list those that are not left in `todo`. The proof about `Find`, the last match, is by
well-founded induction over the positions of a list.

*Protocol.* `Shaped` says that the nodes from the one before the loop's to the last are a ring in
memory. `AppendMakesRing` and `DelLeavesRing` are the lemmas about `list_append()` and
`list_del()`; `BuiltMakesRing` is the induction over the rows of a result. `skip` comes from
a division: `QuotientFits` shows that it does not leave the range of an int, since the times of two rows
differ, and `DivIs` and `WrapIs` give `NextHighestResolution`. `Sums` is the loop's invariant:
the lines sent and the rest in `tally` add up to what was read.

*Logger.* `badcount` is at its limit only between the increment and the test.

### Assumptions

| module | assumption | why the code justifies it |
|---|---|---|
| `PgsqlPool` | `N` is a positive integer; NULL is no thread | the pool is created with a size; a thread exists |
| `PgsqlStorage` | times are positive; the maintenance thread is not one that calls, and no thread is none | `time_t` after 1970; it is created by the plugin itself |
| `RrdSensor` | a list of different data sets, a period of at least 1 | an entry is added once; `heartbeat` is in seconds |
| `FileConfig` | a name that was cut is not cut again | `name_copy` |
| `Daemon` | files of at most `MaxDefs` definitions of a kind, which are well-formed | what the grammar hands over |
| `PoolLogger` | the limit is not 0 | 180 |
| `NetProto` | times are positive ints, resolutions are ints, a table has finitely many rows | `time_t` and `int` here are of one width |

Nothing is assumed about the number of threads, data sets, rows or files.

### Induction

The provers cannot instantiate the induction theorems of the library, which take an operator. Where
an induction over data is needed it is made with sets: a set that contains 0 and with each number
the next contains all numbers (`NatBySteps`, from `WFMin` for the order of the
naturals), and the set in question is that of the positions for which the claim holds. `Total` and `Built`
are recursive functions; `RecursionEnds` shows by such an induction that functions with their
equations exist.

**Only model-checked:** all liveness (`BadIsRepaired`, `WaitersServed`, `ShutdownEnds`, `CallsProgress`,
`EveryValueArrives`, `CatchesUp`, `LoggerEnds`, `HangUpEndsThread`), because fairness
and ENABLED are outside the prover (the abstract specifications state none, so the refinements are proved
in full); and the three violations, each of which is one behaviour.

## 5. Plan

The models follow the plan to its end and no safety property of a run is without a theorem. What could
still be said:

1. theorems about what no run asks, such as what `Find` and `Instances` give for lists with repeated
   names, or that the history `lossy` is the only way to a hole (the converse of `NoHoles`);
2. the safety halves of the liveness properties: for `ShutdownEnds`, that the shutdown only waits
   for threads that see `quit` at their next step;
3. `NvList` for lists in general: `list_del()` of any node, not of the first only.

## 6. Not modelled

* The lexer and grammar of the configuration file, command-line options and
  `usage()`: input parsing without state that outlives it.
* libltdl, libpq and rrdtool themselves: external, modelled by what the code
  can see of them.
* SQL text, its truncation to `NAME_LEN`, the conversion of times to and from strings, number formatting.
* `nv_malloc` and friends end the process on failure; logging is output; the
  permit plugin has no behaviour; the Java client is an example.
* `sens_submit_ts_data` has no caller.
* The buffer of `readline`. It is kept per thread and not per descriptor, but a thread
  reads one socket (`net.c`), or one pipe after the other and each to its end
  (`rrd.c`), and at the end of input the buffer is empty: nothing is left for the next
  descriptor.
* The words of a request and the text of replies. Of the words only the case of a name
  matters, for `ToldIsFetched`.
* The heartbeat of storages: `stor_thread` is `sens_thread` with another list, and no storage
  plugin sets a beat. `Daemon` has the thread, with any beat.
* The status word of the lock macros, beyond a missed time-out (section 2, `PgsqlPool`): that a thread reads the
  `ETIMEDOUT` of another one and ends the process. A build that keeps the result of the call
  in a register does not do it; one that reads the variable again may at any lock, unlock or signal. The
  step would end every behaviour, so the safety properties stand; the liveness properties are about
  behaviours without it.
* A `pthread_create()` that fails in `pgsql_pool_init` (`pgsql_pool.c:69-82`): its caller ignores the result
  (`pgsql.c:178`) and there is a pool that nobody ever fills.
* A statement that the server executes after its connection was lost and it was run again, or after the call returned.
* Which of the threads that wait for a connection gets the next one: starvation of a thread is not excluded.
* What unlocking a mutex of another thread does beyond releasing it.
* `popen()` that returns NULL: the daemon follows it and dies, which is a `Restart`. A `readline()` that returns
  -1 on the pipe of rrdtool (`rrd.c:161`) is not modelled: a pipe gives data or its end.
* A change of the configuration while the daemon runs: there is none, the file is read once.

## 7. Running

    tlc -config PgsqlPoolSafety.cfg MCPgsqlPool
    tlapm PgsqlPoolProofs.tla      # and likewise each module *Proofs and *Refinement

Each run is named after its `.cfg` and checks the `MC` module of the component
(`PoolLogger` checks itself). `PROJECT.json` lists runs, the mutants each property
rejects, and for each definition the lines it models.
