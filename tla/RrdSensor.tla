----------------------------- MODULE RrdSensor -----------------------------
(***************************************************************************)
(* The RRD sensor (src/plugins/sensor/rrd.c) and its heartbeat thread      *)
(* (src/sensor.c): every beat copies what rrdtool has recorded since the   *)
(* stored update time of each data set into the data set's storage, and    *)
(* then stores the new update time.                                        *)
(*                                                                         *)
(* The storage is the abstract TsStore, which PgsqlStorage is shown to     *)
(* implement; what its calls return is not looked at, as in the code.  The *)
(* sensor's thread is its only caller here: others only ask it for values. *)
(* rrdtool is a separate program: it prints two lines of header and the    *)
(* values after one time and up to another, or fails and prints only a     *)
(* part of that, or nothing.  One column of the file is used, so a value   *)
(* is its time; rrdtool prints them oldest first, so what is still to be   *)
(* read is a set of times.  If rrdtool cannot be started popen() is NULL   *)
(* and the daemon dies, which it may at any moment.                        *)
(***************************************************************************)
EXTENDS Integers, Sequences, Functions

CONSTANTS
  dsets,            \* the data sets the sensor feeds, in list order
  MaxTime,          \* bound on the time of the last rrd update
  Start,            \* me->start
  Period,           \* s->beat
  MaxWait,          \* bound on how long the clock may lack to the next beat
  HeaderHasColumn,  \* the header line has a word where the column is looked for
  RrdtoolFails      \* rrdtool may fail

ASSUME SensorAssumption ==
  /\ dsets \in Seq(Range(dsets)) /\ dsets # <<>> /\ IsInjective(dsets)
  /\ MaxTime \in Nat /\ Start \in Nat
  /\ Period \in Nat \ {0} /\ MaxWait \in Nat /\ MaxWait >= Period
  /\ HeaderHasColumn \in BOOLEAN /\ RrdtoolFails \in BOOLEAN

Dsets == Range(dsets)
Times == 0 .. MaxTime

VARIABLES
  closed, cut, rows, utime, pend, ret,  \* the storage (TsStore)
  rrdLast,   \* the time of the last update of the file
  known,     \* the times for which it has a value (not NaN)
  wait,      \* what the clock lacks to last + s->beat
  pc,        \* where the sensor thread is
  cur,       \* the position of the data set it works on
  rrdTime,   \* rrd_time
  dsTime,    \* ds_time
  lines,     \* the values rrdtool has printed and the thread has not read
  row,       \* a header has been read in this beat (row is not reset)
  valid,     \* valid_vtime
  upTo,      \* history: the time up to which rrdtool printed the file for the
             \* data set, ds_time if it printed nothing
  lossy      \* history: the storage refused a new value or did not answer, or
             \* a data set was given an update time beyond the output for it

store  == <<closed, cut, rows, utime, pend, ret>>
rrd    == <<rrdLast, known>>
locals == <<cur, rrdTime, dsTime, lines, row, valid>>
vars   == <<closed, cut, rows, utime, pend, ret, rrdLast, known, wait, pc, cur, rrdTime,
            dsTime, lines, row, valid, upTo, lossy>>

Me == "the sensor's thread"
Store == INSTANCE TsStore WITH Callers <- {Me}

d == dsets[cur]
Returned == pend[Me] = Store!NoCall
Result   == ret[Me].stat

PC == {"sleep", "ask", "asked", "lines", "added", "decide", "set"}

Init ==
  /\ Store!Init
  /\ rows = [x \in Dsets |-> {}] /\ utime = [x \in Dsets |-> 0]
  /\ rrdLast = 0 /\ known = {}
  /\ wait = 0
  /\ pc = "sleep" /\ cur = 1 /\ rrdTime = 0 /\ dsTime = 0
  /\ lines = {} /\ row = FALSE /\ valid = 0 /\ upTo = 0
  /\ lossy = FALSE
-----------------------------------------------------------------------------
(* sens_thread() calls rrd_beatfunc() when the clock has come to the next   *)
(* beat, the first time at once; `rrdtool last' prints -1 if there is no    *)
(* file.  rrd_beatfunc() returns 0, so the thread goes on.                  *)
Due == wait = 0 /\ wait' = Period

Beat ==
  /\ pc = "sleep" /\ Due
  /\ rrdTime' \in {rrdLast} \cup {0 : x \in {y \in {1} : RrdtoolFails}}
  /\ cur' = 1 /\ row' = FALSE /\ valid' = 0
  /\ pc' = "ask"
  /\ UNCHANGED <<store, rrd, dsTime, lines, upTo, lossy>>

(* stor_get_ts_utime() *)
AskUtime ==
  /\ pc = "ask"
  /\ Store!Call(Me, [kind |-> "get", d |-> d])
  /\ pc' = "asked"
  /\ UNCHANGED <<wait, rrd, locals, upTo, lossy>>

(* `rrdtool fetch' from ds_time to rrd_time: the values in between.  A      *)
(* negative start is relative to the end.                                   *)
Values(from, to) == {t \in known : t <= to /\ (IF from < 0 THEN t = to ELSE t > from)}

(* The two lines of header are skipped once per beat; after that the first  *)
(* is parsed like a value and gives the time 0.                             *)
Header == IF row /\ HeaderHasColumn THEN {0} ELSE {}

FetchOneLater ==
  \/ /\ upTo' = rrdTime /\ row' = TRUE
     /\ lines' = Header \cup Values(dsTime' + 1, rrdTime)
  \/ /\ RrdtoolFails
     /\ \E t \in dsTime' + 1 .. rrdTime :
          upTo' = t /\ lines' = {u \in Header \cup Values(dsTime' + 1, rrdTime) : u <= t}
     /\ row' = TRUE
  \/ /\ RrdtoolFails \/ dsTime' < 0
     /\ lines' = {} /\ upTo' = dsTime' /\ row' \in {row, TRUE}
Fetch ==
  \/ /\ upTo' = rrdTime /\ row' = TRUE
     /\ lines' = Header \cup Values(dsTime', rrdTime)
  \/ /\ RrdtoolFails
     /\ \E t \in dsTime' + 1 .. rrdTime :
          upTo' = t /\ lines' = {u \in Header \cup Values(dsTime', rrdTime) : u <= t}
     /\ row' = TRUE
  \/ /\ RrdtoolFails \/ dsTime' < 0
     /\ lines' = {} /\ upTo' = dsTime' /\ row' \in {row, TRUE}

GotUtimeOffByOne ==
  /\ pc = "asked" /\ Returned
  /\ dsTime' = IF Result = 0 THEN Start ELSE Result
  /\ lossy' = (lossy \/ Result = -1)
  /\ IF rrdTime > dsTime' + 1
     THEN pc' = "lines" /\ Fetch
     ELSE pc' = "decide" /\ upTo' = dsTime' /\ UNCHANGED <<lines, row>>
  /\ UNCHANGED <<wait, store, rrd, cur, rrdTime, valid>>
GotUtime ==
  /\ pc = "asked" /\ Returned
  /\ dsTime' = IF Result = 0 THEN Start ELSE Result
  /\ lossy' = (lossy \/ Result = -1)
  /\ IF rrdTime > dsTime'
     THEN pc' = "lines" /\ Fetch
     ELSE pc' = "decide" /\ upTo' = dsTime' /\ UNCHANGED <<lines, row>>
  /\ UNCHANGED <<wait, store, rrd, cur, rrdTime, valid>>

(* The value on the next line. *)
Earliest(t) == t \in lines /\ \A u \in lines : t <= u

(* stor_submit_ts_data() for the next value; its answer is ignored. *)
Submit ==
  /\ pc = "lines"
  /\ \E t \in lines : Earliest(t) /\ Store!Call(Me, [kind |-> "add", d |-> d, t |-> t])
  /\ pc' = "added"
  /\ UNCHANGED <<wait, rrd, locals, upTo, lossy>>

Submitted ==
  /\ pc = "added" /\ Returned
  /\ \E t \in lines :
       /\ Earliest(t)
       /\ valid' = t
       /\ lines' = lines \ {t}
       /\ lossy' = (lossy \/ (Result = -1 /\ t \notin rows[d]))
  /\ pc' = "lines"
  /\ UNCHANGED <<wait, store, rrd, cur, rrdTime, dsTime, row, upTo>>

EndOfOutput ==
  /\ pc = "lines" /\ lines = {}
  /\ pc' = "decide"
  /\ UNCHANGED <<wait, store, rrd, locals, upTo, lossy>>

NextDataSetOneTooMany ==
  IF cur > Len(dsets) THEN pc' = "sleep" /\ UNCHANGED cur
  ELSE pc' = "ask" /\ cur' = cur + 1
NextDataSet ==
  IF cur = Len(dsets) THEN pc' = "sleep" /\ UNCHANGED cur
  ELSE pc' = "ask" /\ cur' = cur + 1

(* Store the new update time, if it is later than the previous one. *)
NewUtimeRrd == IF rrdTime > dsTime THEN {rrdTime} ELSE {}
NewUtimeAlways == {valid}
NewUtime == IF valid > dsTime THEN {valid} ELSE {}

SetUtime ==
  /\ pc = "decide"
  /\ \E t \in NewUtime : Store!Call(Me, [kind |-> "set", d |-> d, t |-> t])
  /\ lossy' = (lossy \/ valid > upTo)
  /\ pc' = "set"
  /\ UNCHANGED <<wait, rrd, locals, upTo>>

KeepUtime ==
  /\ pc = "decide" /\ NewUtime = {}
  /\ NextDataSet
  /\ UNCHANGED <<wait, store, rrd, rrdTime, dsTime, lines, row, valid, upTo, lossy>>

UtimeSet ==
  /\ pc = "set" /\ Returned
  /\ NextDataSet
  /\ UNCHANGED <<wait, store, rrd, rrdTime, dsTime, lines, row, valid, upTo, lossy>>
-----------------------------------------------------------------------------
(* The rest of the world: the clock, the program that feeds the file, the  *)
(* storage.                                                                *)
Tick ==
  /\ wait > 0 /\ wait' = wait - 1
  /\ UNCHANGED <<store, rrd, pc, locals, upTo, lossy>>

(* Somebody sets the clock back. *)
ClockSetBack ==
  /\ wait < MaxWait /\ wait' = wait + 1
  /\ UNCHANGED <<store, rrd, pc, locals, upTo, lossy>>

RrdUpdate ==
  /\ rrdLast < MaxTime
  /\ rrdLast' = rrdLast + 1
  /\ known' \in {known, known \cup {rrdLast + 1}}
  /\ UNCHANGED <<wait, store, pc, locals, upTo, lossy>>

StoreAnswers ==
  /\ Store!Answered(Me)
  /\ UNCHANGED <<wait, rrd, pc, locals, upTo, lossy>>

StoreStep ==
  /\ Store!Close \/ Store!Step(Me)
  /\ UNCHANGED <<wait, rrd, pc, locals, upTo, lossy>>

(* The daemon dies at any moment and is started again. *)
Restart ==
  /\ closed' = FALSE /\ cut' = {}
  /\ wait' = 0
  /\ pend' = [w \in {Me} |-> Store!NoCall] /\ ret' = [w \in {Me} |-> Store!Empty]
  /\ pc' = "sleep" /\ cur' = 1 /\ rrdTime' = 0 /\ dsTime' = 0
  /\ lines' = {} /\ row' = FALSE /\ valid' = 0 /\ upTo' = 0
  /\ UNCHANGED <<rows, utime, rrd, lossy>>

Sensor ==
  \/ Beat \/ AskUtime \/ GotUtime \/ Submit \/ Submitted \/ EndOfOutput
  \/ SetUtime \/ KeepUtime \/ UtimeSet

Next == Sensor \/ Tick \/ ClockSetBack \/ RrdUpdate \/ StoreStep \/ Restart

Spec == Init /\ [][Next]_vars

(* The thread is scheduled, the calls of the storage return, and the clock  *)
(* runs; it is set back, and the daemon started again, only so often.       *)
FairSpec ==
  /\ Spec
  /\ WF_vars(Sensor)
  /\ WF_vars(Tick) /\ <>[][~ClockSetBack /\ ~Restart]_vars
  /\ WF_vars(StoreAnswers)
-----------------------------------------------------------------------------
(* Properties                                                              *)

TypeOK ==
  /\ rows \in [Dsets -> SUBSET Times] /\ utime \in [Dsets -> Times]
  /\ pend \in [{Me} -> Store!Calls \cup {Store!NoCall}]
  /\ closed \in BOOLEAN /\ cut \subseteq {Me}
  /\ rrdLast \in Times /\ known \subseteq Times
  /\ wait \in 0 .. MaxWait
  /\ pc \in PC /\ cur \in 1 .. Len(dsets)
  /\ rrdTime \in Times /\ dsTime \in Times \cup {-1, Start}
  /\ lines \subseteq Times /\ row \in BOOLEAN /\ valid \in Times
  /\ upTo \in Times \cup {-1, Start} /\ lossy \in BOOLEAN

(* Every value the file has up to the stored update time is stored: what    *)
(* the sensor will not ask for again has arrived.  This through restarts at *)
(* any moment, shutdowns of the storage and failures of rrdtool; it does    *)
(* not hold once the storage has refused a value or the question for the    *)
(* update time, because rrd_beatfunc does not look at the answers, nor once *)
(* NoOutputNoUpdate is violated.                                            *)
NoHoles ==
  ~lossy => \A x \in Dsets : \A t \in known : t > Start /\ t <= utime[x] => t \in rows[x]

(* The update time is the time of a stored value. *)
UtimeIsData == ~lossy => \A x \in Dsets : utime[x] # 0 => utime[x] \in rows[x]

(* The update time of a data set never goes back. *)
UtimeForward == [][~lossy' => \A x \in Dsets : utime'[x] >= utime[x]]_vars

(* A value the file has reaches every data set, unless the storage refuses  *)
(* it or is shut down, also when the clock is set back: the heartbeat       *)
(* misses beats, but it goes on.                                            *)
EveryValueArrives ==
  \A x \in Dsets : \A t \in Start + 1 .. MaxTime :
    t \in known ~> (t \in rows[x] \/ lossy \/ closed)

(* "only if it's larger than the previous updated time (this covers the     *)
(* case where we get no output from rrdtool)" (rrd_beatfunc): without       *)
(* output the update time stays.  With a second data set it does not:       *)
(* valid_vtime is then still that of the first.  (An update time that the   *)
(* storage did not tell, -1, is another matter.)                            *)
NoOutputNoUpdate == pc = "set" /\ dsTime >= 0 => upTo > dsTime
=============================================================================
