-------------------------- MODULE RrdSensorProofs --------------------------
(***************************************************************************)
(* Proofs about RrdSensor, for any data sets, times and period, whether    *)
(* rrdtool fails or not and whatever its header looks like.                *)
(***************************************************************************)
EXTENDS RrdSensor, TLAPS

-----------------------------------------------------------------------------
(* Typing                                                                  *)

(* A call in progress is the one the thread is waiting for. *)
Calling ==
  ~Returned =>
    /\ pc \in {"asked", "added", "set"} /\ pend[Me].d = d
    /\ pc = "asked" => pend[Me].kind = "get"
    /\ pc = "added" => pend[Me].kind = "add" /\ Earliest(pend[Me].t)
    /\ pc = "set" => pend[Me].kind = "set" /\ pend[Me].t = valid

(* No time is ahead of the file, and none but 0 is made up. *)
Ordered ==
  /\ known \subseteq 1 .. rrdLast /\ rrdTime <= rrdLast
  /\ lines \subseteq known \cup {0} /\ \A t \in lines : t <= rrdTime
  /\ pc \notin {"lines", "added"} => lines = {}
  /\ pc \in {"lines", "added", "decide"} => upTo = dsTime \/ upTo <= rrdTime
  /\ valid \in known \cup {0} /\ valid <= rrdTime
  /\ \A x \in Dsets : utime[x] <= rrdLast

(* What a call has returned; only a closed storage cuts the thread off. *)
Answers == [stat : Times \cup {-1}, list : SUBSET Times]
Returns == ret \in [{Me} -> Answers] /\ (~closed => cut = {})

Typed == TypeOK /\ Returns /\ Calling /\ Ordered

(* The data set being worked on is one of the list. *)
LEMMA Current == ASSUME cur \in 1 .. Len(dsets) PROVE d \in Dsets
<1>1. DOMAIN dsets = 1 .. Len(dsets)
  BY SensorAssumption
<1> QED BY <1>1 DEF d, Dsets, Range

LEMMA FirstDataSet == Len(dsets) \in Nat /\ 1 \in 1 .. Len(dsets)
<1>1. Len(dsets) \in Nat /\ (Len(dsets) = 0 => dsets = <<>>)
  BY SensorAssumption
<1> QED BY <1>1, SensorAssumption

LEMMA Numbers == Times \subseteq Int /\ 0 \in Times /\ Start \in Int
                 /\ \A t \in Times : 0 <= t /\ t <= MaxTime
BY SensorAssumption DEF Times

LEMMA Calls ==
  /\ \A o \in Store!Calls : /\ o # Store!NoCall /\ o.d \in Dsets
                            /\ o.kind \in {"add", "set"} => o.t \in Times
  /\ Store!NoCall.kind = "none"
  /\ \A x \in Dsets : [kind |-> "get", d |-> x] \in Store!Calls
  /\ \A x \in Dsets, t \in Times : /\ [kind |-> "add", d |-> x, t |-> t] \in Store!Calls
                                   /\ [kind |-> "set", d |-> x, t |-> t] \in Store!Calls
  /\ Store!Empty \in Answers /\ Store!Empty.stat = 0
  /\ \A n \in Times \cup {-1} : Store!Reply(n, {}) \in Answers /\ Store!Reply(n, {}).stat = n
BY Numbers DEF Store!Calls, Store!Writes, Store!Reads, Store!NoCall, Store!Empty, Store!Reply,
               Answers

(* What is stored is what the thread has asked to store. *)
LEMMA StoreIs ==
  ASSUME Typed, Store!Store(Me)
  PROVE  /\ ~Returned /\ Me \notin cut
         /\ \/ /\ pc = "added" /\ pend[Me].t \in Times
               /\ rows' = [rows EXCEPT ![d] = @ \cup {pend[Me].t}]
               /\ UNCHANGED utime
            \/ /\ pc = "set"
               /\ utime' = [utime EXCEPT ![d] = valid]
               /\ UNCHANGED rows
<1>1. pend[Me].kind \in {"add", "set"} /\ Me \notin cut
  BY DEF Store!Store
<1>2. ~Returned
  BY <1>1, Calls DEF Returned
<1>3. /\ pc \in {"asked", "added", "set"} /\ pend[Me].d = d
      /\ pc = "asked" => pend[Me].kind = "get"
      /\ pc = "added" => pend[Me].kind = "add"
      /\ pc = "set" => pend[Me].kind = "set" /\ pend[Me].t = valid
  BY <1>2 DEF Typed, Calling
<1>4. pend[Me].t \in Times
  BY <1>1, <1>2, Calls DEF Typed, TypeOK, Returned
<1> QED BY <1>1, <1>2, <1>3, <1>4 DEF Store!Store

(* What is answered is an error, what is stored, or 0 by a closed storage. *)
LEMMA AnswerIs ==
  ASSUME Typed, Store!Answered(Me)
  PROVE  /\ ~Returned /\ UNCHANGED closed
         /\ pend' = [pend EXCEPT ![Me] = Store!NoCall]
         /\ cut' = IF closed THEN cut \cup {Me} ELSE cut
         /\ UNCHANGED <<rows, utime>> \/ Store!Store(Me)
         /\ \E r \in Answers :
              /\ ret' = [ret EXCEPT ![Me] = r]
              /\ pc = "asked" => r.stat \in {-1, utime[d]} \/ closed
              /\ pc = "added" => r.stat = -1 \/ pend[Me].t \in rows'[d] \/ closed
<1>1. /\ d \in Dsets /\ utime \in [Dsets -> Times] /\ rows \in [Dsets -> SUBSET Times]
      /\ -1 \in Times \cup {-1} /\ \A x \in Times : x \in Times \cup {-1}
  BY Current DEF Typed, TypeOK
<1>2. ~Returned
  <2>1. pend[Me].kind \in {"add", "set", "get", "list"} \/ pend[Me] # Store!NoCall
    BY DEF Store!Answered, Store!Written, Store!Store, Store!Read, Store!Refused, Store!Ignored
  <2> QED BY <2>1, Calls DEF Returned
<1>3. /\ pc \in {"asked", "added", "set"} /\ pend[Me].d = d
      /\ pc = "asked" => pend[Me].kind = "get"
      /\ pc = "added" => pend[Me].kind = "add"
      /\ pc = "set" => pend[Me].kind = "set"
  BY <1>2 DEF Typed, Calling
<1>4. ASSUME NEW r, Store!Answer(Me, r)
      PROVE  /\ UNCHANGED closed
             /\ pend' = [pend EXCEPT ![Me] = Store!NoCall]
             /\ ret' = [ret EXCEPT ![Me] = r]
             /\ cut' = IF closed THEN cut \cup {Me} ELSE cut
  BY <1>4 DEF Store!Answer
<1>5. CASE Store!Written(Me)
  <2>1. Store!Store(Me) /\ Store!Answer(Me, Store!Empty)
    BY <1>5 DEF Store!Written
  <2>2. pc # "asked"
    BY <2>1, StoreIs
  <2>3. pc = "added" => pend[Me].t \in rows'[d]
    BY <1>1, <2>1, StoreIs
  <2> QED BY <1>2, <1>4, <2>1, <2>2, <2>3, Calls
<1>6. CASE Store!Read(Me)
  <2>1. pend[Me].kind = "get" /\ Store!Answer(Me, Store!Reply(utime[d], {}))
        /\ UNCHANGED <<rows, utime>>
    BY <1>3, <1>6 DEF Store!Read
  <2>2. utime[d] \in Times \cup {-1}
    BY <1>1
  <2>3. Store!Reply(utime[d], {}) \in Answers /\ Store!Reply(utime[d], {}).stat = utime[d]
    BY <2>2, Calls
  <2> QED BY <1>2, <1>3, <1>4, <2>1, <2>3
<1>7. CASE Store!Refused(Me)
  <2>1. Store!Answer(Me, Store!Reply(-1, {})) /\ UNCHANGED <<rows, utime>>
    BY <1>3, <1>7 DEF Store!Refused
  <2>2. Store!Reply(-1, {}) \in Answers /\ Store!Reply(-1, {}).stat = -1
    BY <1>1, Calls
  <2> QED BY <1>2, <1>4, <2>1, <2>2
<1>8. CASE Store!Ignored(Me)
  <2>1. closed /\ Store!Answer(Me, Store!Empty) /\ UNCHANGED <<rows, utime>>
    BY <1>8 DEF Store!Ignored
  <2> QED BY <1>2, <1>4, <2>1, Calls
<1> QED BY <1>5, <1>6, <1>7, <1>8 DEF Store!Answered

(* A step of the storage, seen from the sensor. *)
LEMMA StoreStepIs ==
  ASSUME Typed, StoreStep
  PROVE  /\ cut \subseteq cut' /\ cut' \subseteq {Me}
         /\ closed' \in BOOLEAN /\ (~closed' => cut' = {})
         /\ UNCHANGED <<rrdLast, known, wait, pc, cur, rrdTime, dsTime, lines, row, valid,
                        upTo, lossy, d>>
         /\ UNCHANGED <<rows, utime>> \/ Store!Store(Me)
         /\ UNCHANGED <<pend, ret>> \/ Store!Answered(Me)
<1>0. UNCHANGED <<rrdLast, known, wait, pc, cur, rrdTime, dsTime, lines, row, valid,
                  upTo, lossy, d>>
  BY DEF StoreStep, rrd, locals, d
<1>1. closed \in BOOLEAN /\ cut \subseteq {Me} /\ (~closed => cut = {})
  BY DEF Typed, TypeOK, Returns
<1>2. CASE Store!Close
  BY <1>0, <1>1, <1>2 DEF Store!Close
<1>3. CASE Store!CutOff(Me)
  BY <1>0, <1>1, <1>3 DEF Store!CutOff
<1>4. CASE Store!Attempt(Me)
  BY <1>0, <1>1, <1>4 DEF Store!Attempt
<1>5. CASE Store!Answered(Me)
  BY <1>0, <1>1, <1>5, AnswerIs
<1> QED BY <1>2, <1>3, <1>4, <1>5 DEF StoreStep, Store!Step

LEMMA TypedInit == Init => Typed
<1> SUFFICES ASSUME Init PROVE Typed
  OBVIOUS
<1>a. /\ rows \in [Dsets -> SUBSET Times] /\ utime \in [Dsets -> Times]
      /\ pend \in [{Me} -> Store!Calls \cup {Store!NoCall}]
  BY Numbers DEF Init, Store!Init
<1>b. 0 \in 0 .. MaxWait
  BY SensorAssumption
<1>1. TypeOK
  BY <1>a, <1>b, FirstDataSet, Numbers DEF Init, Store!Init, TypeOK, PC
<1>2. Returns /\ Calling /\ Ordered
  BY Numbers, Calls, FirstDataSet DEF Init, Store!Init, Returns, Calling, Returned, Ordered
<1> QED BY <1>1, <1>2 DEF Typed

(* A step of the thread while no call is in progress. *)
LEMMA NoCallsAfter ==
  ASSUME Typed, cur' \in 1 .. Len(dsets), UNCHANGED store,
         pc \in {"sleep", "lines", "decide"} \/ Returned
  PROVE  Returns' /\ Calling' /\ d' \in Dsets
<1>1. Returned /\ UNCHANGED pend
  BY DEF Typed, Calling, store
<1>2. d' \in Dsets
  <2>1. DOMAIN dsets = 1 .. Len(dsets)
    BY SensorAssumption
  <2> QED BY <2>1 DEF d, Dsets, Range
<1>3. Returns'
  BY DEF Typed, Returns, store
<1>4. Calling'
  BY <1>1 DEF Calling, Returned
<1> QED BY <1>2, <1>3, <1>4

LEMMA BeatTyped == Typed /\ Beat => Typed'
<1> SUFFICES ASSUME Typed, Beat PROVE Typed'
  OBVIOUS
<1>1. rrdTime' \in {rrdLast, 0} /\ cur' \in 1 .. Len(dsets) /\ wait' \in 0 .. MaxWait
  BY SensorAssumption, FirstDataSet DEF Beat, Due
<1>2. TypeOK'
  BY <1>1, Numbers DEF Typed, TypeOK, Beat, PC, store, rrd
<1>3. Returns' /\ Calling'
  BY <1>1, NoCallsAfter DEF Beat
<1>4. 0 <= rrdTime' /\ rrdTime' <= rrdLast
  BY <1>1, Numbers DEF Typed, TypeOK
<1>5. Ordered'
  BY <1>4 DEF Typed, Ordered, Beat, store, rrd
<1> QED BY <1>2, <1>3, <1>5 DEF Typed

(* A step of the thread that calls the storage. *)
LEMMA CallTyped ==
  ASSUME Typed, NEW o \in Store!Calls, Store!Call(Me, o), o.d = d,
         UNCHANGED <<wait, rrd, locals, upTo>>, lossy' \in BOOLEAN,
         pc \in {"ask", "lines", "decide"}, pc' \in {"asked", "added", "set"},
         pc' = "asked" => o.kind = "get" /\ lines = {},
         pc' = "added" => o.kind = "add" /\ Earliest(o.t) /\ pc = "lines",
         pc' = "set" => o.kind = "set" /\ o.t = valid /\ lines = {}
  PROVE  Typed'
<1>1. UNCHANGED d
  BY DEF locals, d
<1>3. /\ pend' = [pend EXCEPT ![Me] = o] /\ ret' = [ret EXCEPT ![Me] = Store!Empty]
      /\ UNCHANGED <<closed, cut, rows, utime, rrdLast, known, cur, rrdTime, dsTime, lines, row, valid>>
  BY DEF Store!Call, rrd, locals
<1>4. pend'[Me] = o
  BY <1>3 DEF Typed, TypeOK
<1>5. TypeOK'
  BY <1>3 DEF Typed, TypeOK, PC
<1>6. Returns'
  BY <1>3, Calls DEF Typed, Returns
<1>7. Calling'
  BY <1>1, <1>3, <1>4 DEF Calling, Earliest
<1>8. Ordered'
  BY <1>3 DEF Typed, Ordered
<1> QED BY <1>5, <1>6, <1>7, <1>8 DEF Typed

LEMMA AskUtimeTyped == Typed /\ AskUtime => Typed'
<1> SUFFICES ASSUME Typed, AskUtime PROVE Typed'
  OBVIOUS
<1>1. lines = {} /\ lossy' \in BOOLEAN /\ d \in Dsets
  BY Current DEF Typed, TypeOK, Ordered, AskUtime
<1> QED BY <1>1, CallTyped, Calls DEF AskUtime

LEMMA SubmitTyped == Typed /\ Submit => Typed'
<1> SUFFICES ASSUME Typed, Submit PROVE Typed'
  OBVIOUS
<1>1. PICK t \in lines : Earliest(t) /\ Store!Call(Me, [kind |-> "add", d |-> d, t |-> t])
  BY DEF Submit
<1>2. t \in Times /\ lossy' \in BOOLEAN /\ d \in Dsets
  BY Current DEF Typed, TypeOK, Submit
<1> QED BY <1>1, <1>2, CallTyped, Calls DEF Submit

LEMMA SetUtimeTyped == Typed /\ SetUtime => Typed'
<1> SUFFICES ASSUME Typed, SetUtime PROVE Typed'
  OBVIOUS
<1>1. Store!Call(Me, [kind |-> "set", d |-> d, t |-> valid]) /\ lines = {}
  BY DEF SetUtime, NewUtime, Typed, Ordered
<1>2. valid \in Times /\ lossy' \in BOOLEAN /\ d \in Dsets
  BY Current DEF Typed, TypeOK, SetUtime
<1> QED BY <1>1, <1>2, CallTyped, Calls DEF SetUtime

(* What rrdtool prints. *)
LEMMA Printed ==
  ASSUME Typed, NEW from \in Int
  PROVE  LET out == Header \cup Values(from, rrdTime)
         IN  out \subseteq Times /\ out \subseteq known \cup {0} /\ \A t \in out : t <= rrdTime
<1>1. 0 <= rrdTime
  BY Numbers DEF Typed, TypeOK
<1> QED BY <1>1, Numbers DEF Header, Values, Typed, TypeOK

LEMMA After ==
  \A a, b \in Int : a >= -1 /\ b <= MaxTime =>
    \A t \in a + 1 .. b : t \in Times /\ t <= b /\ a < t
BY SensorAssumption DEF Times

LEMMA GotUtimeTyped == Typed /\ GotUtime => Typed'
<1> SUFFICES ASSUME Typed, GotUtime PROVE Typed'
  OBVIOUS
<1>1. cur' \in 1 .. Len(dsets)
  BY DEF Typed, TypeOK, GotUtime
<1>2. /\ dsTime' \in Times \cup {-1, Start} /\ dsTime' \in Int /\ dsTime' >= -1
      /\ rrdTime \in Int /\ rrdTime \in Times
  <2>1. Result \in Times \cup {-1}
    BY DEF Result, Typed, Returns, Answers
  <2>2. \A t \in Times \cup {-1, Start} : t \in Int /\ t >= -1
    BY SensorAssumption DEF Times
  <2>3. dsTime' \in Times \cup {-1, Start}
    BY <2>1 DEF GotUtime
  <2> QED BY <2>2, <2>3, Numbers DEF Typed, TypeOK
<1> DEFINE out == Header \cup Values(dsTime', rrdTime)
<1>a. out \subseteq Times /\ out \subseteq known \cup {0} /\ \A t \in out : t <= rrdTime
  BY <1>2, Printed
<1>b. /\ row' \in BOOLEAN
      /\ pc' \in {"lines", "decide"} /\ (pc' = "decide" => lines' = lines)
      /\ pc' = "lines" => lines' \subseteq out
      /\ \/ upTo' = dsTime' \/ upTo' = rrdTime
         \/ \E t \in dsTime' + 1 .. rrdTime : upTo' = t
  BY DEF GotUtime, Fetch, Typed, TypeOK
<1> HIDE DEF out
<1>3. /\ lines' \subseteq Times /\ lines' \subseteq known \cup {0} /\ \A t \in lines' : t <= rrdTime
      /\ pc' = "decide" => lines' = {}
  BY <1>a, <1>b DEF GotUtime, Typed, Ordered
<1>c. upTo' \in Times \cup {-1, Start} /\ (upTo' = dsTime' \/ upTo' <= rrdTime)
  <2>1. rrdTime \in Int /\ rrdTime <= MaxTime /\ dsTime' \in Int /\ dsTime' >= -1
    BY <1>2, Numbers
  <2>2. ASSUME NEW t \in dsTime' + 1 .. rrdTime PROVE t \in Times /\ t <= rrdTime
    BY <2>1, After
  <2>3. CASE upTo' \in {dsTime', rrdTime}
    BY <1>2, <2>1, <2>3
  <2>4. CASE \E t \in dsTime' + 1 .. rrdTime : upTo' = t
    BY <2>2, <2>4
  <2> QED BY <1>b, <2>3, <2>4
<1>d. lossy' \in BOOLEAN
  BY DEF GotUtime
<1>4. TypeOK'
  BY <1>2, <1>3, <1>b, <1>c, <1>d DEF GotUtime, store, rrd, Typed, TypeOK, PC
<1>5. Returns' /\ Calling'
  BY <1>1, NoCallsAfter DEF GotUtime
<1>6. Ordered'
  BY <1>3, <1>b, <1>c DEF GotUtime, store, rrd, Typed, Ordered
<1> QED BY <1>4, <1>5, <1>6 DEF Typed

LEMMA SubmittedTyped == Typed /\ Submitted => Typed'
<1> SUFFICES ASSUME Typed, Submitted PROVE Typed'
  OBVIOUS
<1>1. PICK t \in lines : /\ valid' = t /\ lines' = lines \ {t}
                         /\ lossy' = (lossy \/ (Result = -1 /\ t \notin rows[d]))
  BY DEF Submitted
<1>2. t \in Times /\ t \in known \cup {0} /\ t <= rrdTime
  BY DEF Typed, TypeOK, Ordered
<1>3. TypeOK'
  BY <1>1, <1>2 DEF Submitted, store, rrd, Typed, TypeOK, PC
<1>4. Returns' /\ Calling'
  BY NoCallsAfter DEF Submitted, Typed, TypeOK
<1>5. Ordered'
  BY <1>1, <1>2 DEF Submitted, store, rrd, Typed, Ordered
<1> QED BY <1>3, <1>4, <1>5 DEF Typed

LEMMA EndOfOutputTyped == Typed /\ EndOfOutput => Typed'
<1> SUFFICES ASSUME Typed, EndOfOutput PROVE Typed'
  OBVIOUS
<1>1. TypeOK'
  BY DEF EndOfOutput, store, rrd, locals, Typed, TypeOK, PC
<1>2. Returns' /\ Calling'
  BY NoCallsAfter DEF EndOfOutput, locals, Typed, TypeOK
<1>3. Ordered'
  BY DEF EndOfOutput, store, rrd, locals, Typed, Ordered
<1> QED BY <1>1, <1>2, <1>3 DEF Typed

(* KeepUtime and UtimeSet: on to the next data set. *)
LEMMA NextDataSetTyped == Typed /\ (KeepUtime \/ UtimeSet) => Typed'
<1> SUFFICES ASSUME Typed, KeepUtime \/ UtimeSet PROVE Typed'
  OBVIOUS
<1>1. cur' \in 1 .. Len(dsets) /\ pc' \in {"sleep", "ask"}
  BY FirstDataSet DEF KeepUtime, UtimeSet, NextDataSet, Typed, TypeOK
<1>2. UNCHANGED <<wait, store, rrd, rrdTime, dsTime, lines, row, valid, upTo, lossy>>
  BY DEF KeepUtime, UtimeSet
<1>3. TypeOK'
  BY <1>1, <1>2 DEF store, rrd, Typed, TypeOK, PC
<1>4. Returns' /\ Calling'
  BY <1>1, <1>2, NoCallsAfter DEF KeepUtime, UtimeSet
<1>5. lines = {}
  BY DEF KeepUtime, UtimeSet, Typed, Ordered
<1>6. Ordered'
  BY <1>1, <1>2, <1>5 DEF store, rrd, Typed, Ordered
<1> QED BY <1>3, <1>4, <1>6 DEF Typed

LEMMA ClockTyped == Typed /\ (Tick \/ ClockSetBack) => Typed'
<1> SUFFICES ASSUME Typed, Tick \/ ClockSetBack PROVE Typed'
  OBVIOUS
<1>1. wait' \in 0 .. MaxWait
  BY SensorAssumption DEF Tick, ClockSetBack, Typed, TypeOK
<1>2. UNCHANGED <<store, rrd, pc, locals, upTo, lossy>>
  BY DEF Tick, ClockSetBack
<1> QED BY <1>1, <1>2
      DEF Typed, TypeOK, Returns, Returned, Calling, Ordered, Earliest, d, store, rrd, locals

LEMMA RrdUpdateTyped == Typed /\ RrdUpdate => Typed'
<1> SUFFICES ASSUME Typed, RrdUpdate PROVE Typed'
  OBVIOUS
<1>1. UNCHANGED <<wait, store, pc, locals, upTo, lossy>>
  BY DEF RrdUpdate
<1>2. /\ rrdLast \in Int /\ rrdLast' = rrdLast + 1 /\ rrdLast' \in Times
      /\ known \subseteq known' /\ known' \subseteq known \cup {rrdLast'}
  BY SensorAssumption DEF RrdUpdate, Typed, TypeOK, Times
<1>3. TypeOK'
  BY <1>1, <1>2 DEF Typed, TypeOK, store, locals
<1>4. Returns' /\ Calling'
  BY <1>1 DEF Typed, Returns, Returned, Calling, Earliest, d, store, locals
<1>5. Ordered'
  <2>1. known' \subseteq 1 .. rrdLast'
    BY <1>2 DEF Typed, TypeOK, Ordered, Times
  <2>2. rrdTime \in Int /\ valid \in Int /\ \A x \in Dsets : utime[x] \in Int
    BY Numbers DEF Typed, TypeOK
  <2> QED BY <1>1, <1>2, <2>1, <2>2 DEF Typed, Ordered, store, locals
<1> QED BY <1>3, <1>4, <1>5 DEF Typed

LEMMA StoreStepTyped == Typed /\ StoreStep => Typed'
<1> SUFFICES ASSUME Typed, StoreStep PROVE Typed'
  OBVIOUS
<1>1. d \in Dsets /\ UNCHANGED d /\ valid \in Times
  BY Current, StoreStepIs DEF Typed, TypeOK
<1>2. rows' \in [Dsets -> SUBSET Times] /\ utime' \in [Dsets -> Times]
  <2>1. CASE UNCHANGED <<rows, utime>>
    BY <2>1 DEF Typed, TypeOK
  <2>2. CASE Store!Store(Me)
    BY <1>1, <2>2, StoreIs DEF Typed, TypeOK
  <2> QED BY <2>1, <2>2, StoreStepIs
<1>3. /\ pend' \in [{Me} -> Store!Calls \cup {Store!NoCall}] /\ ret' \in [{Me} -> Answers]
      /\ pend'[Me] = Store!NoCall \/ UNCHANGED pend
  <2>1. CASE UNCHANGED <<pend, ret>>
    BY <2>1 DEF Typed, TypeOK, Returns
  <2>2. CASE Store!Answered(Me)
    <3>1. pend' = [pend EXCEPT ![Me] = Store!NoCall]
          /\ \E r \in Answers : ret' = [ret EXCEPT ![Me] = r]
      BY <2>2, AnswerIs
    <3> QED BY <3>1 DEF Typed, TypeOK, Returns
  <2> QED BY <2>1, <2>2, StoreStepIs
<1>4. TypeOK'
  BY <1>2, <1>3, StoreStepIs DEF Typed, TypeOK
<1>5. Returns'
  BY <1>3, StoreStepIs DEF Returns
<1>6. Calling'
  BY <1>3, StoreStepIs DEF Typed, Calling, Returned, Earliest
<1>7. Ordered'
  <2>1. valid <= rrdLast
    BY Numbers DEF Typed, TypeOK, Ordered
  <2>2. \A x \in Dsets : utime'[x] <= rrdLast
    <3>1. CASE UNCHANGED <<rows, utime>>
      BY <3>1 DEF Typed, Ordered
    <3>2. CASE Store!Store(Me)
      BY <1>1, <2>1, <3>2, StoreIs DEF Typed, TypeOK, Ordered
    <3> QED BY <3>1, <3>2, StoreStepIs
  <2> QED BY <2>2, StoreStepIs DEF Typed, Ordered
<1> QED BY <1>4, <1>5, <1>6, <1>7 DEF Typed

LEMMA RestartTyped == Typed /\ Restart => Typed'
<1> SUFFICES ASSUME Typed, Restart PROVE Typed'
  OBVIOUS
<1>2. TypeOK'
  <2>1. 0 \in 0 .. MaxWait
    BY SensorAssumption
  <2> QED BY <2>1, FirstDataSet, Numbers DEF Restart, rrd, Typed, TypeOK, PC
<1>3. Returns' /\ Calling'
  BY Calls DEF Restart, Returns, Calling, Returned
<1>4. Ordered'
  BY Numbers DEF Restart, rrd, Typed, TypeOK, Ordered
<1> QED BY <1>2, <1>3, <1>4 DEF Typed

LEMMA TypedStep == Typed /\ [Next]_vars => Typed'
<1> SUFFICES ASSUME Typed, [Next]_vars PROVE Typed'
  OBVIOUS
<1>1. CASE UNCHANGED vars
  BY <1>1 DEF vars, Typed, TypeOK, Returns, Returned, Calling, Ordered, Earliest, d
<1> QED BY <1>1, BeatTyped, AskUtimeTyped, GotUtimeTyped, SubmitTyped, SubmittedTyped,
           EndOfOutputTyped, SetUtimeTyped, NextDataSetTyped, ClockTyped, RrdUpdateTyped,
           StoreStepTyped, RestartTyped DEF Next, Sensor

(* The sensor thread and the call it is in are always where the invariant   *)
(* says: a call is made only for the data set being worked on               *)
(* (rrd_beatfunc waits for each answer), no update time is ahead of what    *)
(* the file has, and no line is left to read when a beat begins.            *)
THEOREM SensorTyping == Spec => []Typed
BY TypedInit, TypedStep, PTL DEF Spec

(* The type invariant. *)
THEOREM SensorTypeCorrect == Spec => []TypeOK
<1>1. Typed => TypeOK
  BY DEF Typed
<1> QED BY <1>1, SensorTyping, PTL

-----------------------------------------------------------------------------
(* No holes                                                                *)

(* Where rrd_beatfunc() starts to fetch, if the stored update time is known. *)
From == IF utime[d] = 0 THEN Start ELSE utime[d]

Stored(from, to) == \A t \in known : from < t /\ t <= to => t \in rows[d]

(* How far the beat is with the data set. *)
Progress ==
  /\ pc = "asked" /\ Returned => Result \in {-1, utime[d]}
  /\ pc \in {"lines", "added", "decide"} => dsTime = From
  /\ pc \in {"lines", "added"} =>
       \A t \in known : dsTime < t /\ t <= upTo => t \in lines \cup rows[d]
  /\ pc = "added" /\ Returned =>
       Result = -1 \/ \A t \in lines : Earliest(t) => t \in rows[d]
  /\ pc = "decide" => Stored(dsTime, upTo)
  /\ pc = "set" /\ ~Returned =>
       utime[d] <= valid /\ valid \in rows[d] /\ Stored(Start, valid)

(* Calls that have no effect any more cannot do harm. *)
Sound == ~lossy /\ Me \notin cut => Progress

Complete == NoHoles /\ UtimeIsData /\ Sound

LEMMA CompleteInit == Init => Complete
<1> SUFFICES ASSUME Init PROVE Complete
  OBVIOUS
<1>1. NoHoles /\ UtimeIsData
  BY DEF Init, Store!Init, NoHoles, UtimeIsData
<1>2. Sound
  BY DEF Init, Sound, Progress
<1> QED BY <1>1, <1>2 DEF Complete

(* A step that leaves alone what is stored and what the file has. *)
LEMMA StoreUntouched ==
  ASSUME Complete, UNCHANGED <<rows, utime, known>>, lossy => lossy'
  PROVE  NoHoles' /\ UtimeIsData'
BY DEF Complete, NoHoles, UtimeIsData

(* The steps before and after the work on a data set. *)
LEMMA BetweenComplete ==
  Typed /\ Complete /\ (Beat \/ AskUtime \/ KeepUtime \/ UtimeSet) => Complete'
<1> SUFFICES ASSUME Typed, Complete, Beat \/ AskUtime \/ KeepUtime \/ UtimeSet
             PROVE  Complete'
  OBVIOUS
<1>1. UNCHANGED <<rows, utime, known, lossy>>
  BY DEF Beat, AskUtime, KeepUtime, UtimeSet, Store!Call, store, rrd
<1>2. pc' \in {"ask", "asked", "sleep"}
  BY DEF Beat, AskUtime, KeepUtime, UtimeSet, NextDataSet
<1>3. pc' = "asked" => ~Returned'
  <2>1. SUFFICES ASSUME pc' = "asked" PROVE ~Returned'
    OBVIOUS
  <2>2. /\ pend' = [pend EXCEPT ![Me] = [kind |-> "get", d |-> d]]
        /\ d \in Dsets
    BY <2>1, Current DEF Beat, AskUtime, KeepUtime, UtimeSet, NextDataSet, Store!Call,
                         Typed, TypeOK
  <2> QED BY <2>2, Calls DEF Returned, Typed, TypeOK
<1>4. Sound'
  BY <1>2, <1>3 DEF Sound, Progress
<1> QED BY <1>1, <1>4, StoreUntouched DEF Complete

LEMMA TypedNumbers ==
  ASSUME Typed
  PROVE  /\ rrdLast \in Int /\ rrdTime \in Int /\ valid \in Int /\ known \subseteq Int
         /\ dsTime \in Int /\ upTo \in Int
         /\ \A x \in Dsets : utime[x] \in Int
<1>1. \A t \in Times \cup {-1, Start} : t \in Int
  BY Numbers
<1> QED BY <1>1, Numbers DEF Typed, TypeOK

LEMMA GotUtimeComplete == Typed /\ Complete /\ GotUtime => Complete'
<1> SUFFICES ASSUME Typed, Complete, GotUtime PROVE Complete'
  OBVIOUS
<1>1. UNCHANGED <<rows, utime, known, pend, ret, cut, rrdTime, d>> /\ (lossy => lossy')
  BY DEF GotUtime, store, rrd, d
<1>2. SUFFICES ASSUME ~lossy', Me \notin cut PROVE Progress'
  BY <1>1, StoreUntouched DEF Complete, Sound
<1>3. Result = utime[d] /\ utime[d] \in Int /\ 0 <= utime[d]
  <2>1. d \in Dsets
    BY Current DEF Typed, TypeOK
  <2>2. ~lossy /\ Result # -1
    BY <1>2 DEF GotUtime, Typed, TypeOK
  <2> QED BY <1>2, <2>1, <2>2, Numbers DEF GotUtime, Complete, Sound, Progress, Typed, TypeOK
<1>4. dsTime' = From /\ dsTime' \in Int /\ 0 <= dsTime'
  BY <1>3, SensorAssumption DEF GotUtime, From
<1>5. \A t \in known : dsTime' < t /\ t <= rrdTime => t \in Header \cup Values(dsTime', rrdTime)
  BY <1>4, Numbers DEF Values, Typed, TypeOK
<1>6. pc' = "lines" => \A t \in known : dsTime' < t /\ t <= upTo' => t \in lines'
  <2>1. known \subseteq Int /\ rrdTime \in Int
    BY Numbers DEF Typed, TypeOK
  <2>2. SUFFICES ASSUME pc' = "lines", NEW t \in known, dsTime' < t, t <= upTo'
                 PROVE  t \in lines'
    OBVIOUS
  <2>3. CASE upTo' = rrdTime /\ lines' = Header \cup Values(dsTime', rrdTime)
    BY <1>5, <2>2, <2>3
  <2>4. ASSUME NEW u \in dsTime' + 1 .. rrdTime, upTo' = u,
               lines' = {v \in Header \cup Values(dsTime', rrdTime) : v <= u}
        PROVE  t \in lines'
    <3>1. t <= u /\ t <= rrdTime
      BY <1>4, <2>1, <2>2, <2>4
    <3> QED BY <1>5, <2>2, <2>4, <3>1
  <2>5. CASE upTo' = dsTime'
    BY <1>4, <2>1, <2>2, <2>5
  <2> QED BY <2>2, <2>3, <2>4, <2>5 DEF GotUtime, Fetch
<1>7. pc' \in {"lines", "decide"} /\ (pc' = "decide" => upTo' = dsTime')
  BY DEF GotUtime
<1>8. pc' = "decide" => Stored(dsTime, upTo)'
  <2>1. known' \subseteq Int
    BY <1>1, Numbers DEF Typed, TypeOK
  <2> QED BY <1>4, <1>7, <2>1 DEF Stored
<1> QED BY <1>1, <1>4, <1>6, <1>7, <1>8 DEF Progress, From, Stored

LEMMA SubmitComplete == Typed /\ Complete /\ Submit => Complete'
<1> SUFFICES ASSUME Typed, Complete, Submit PROVE Complete'
  OBVIOUS
<1>1. UNCHANGED <<rows, utime, known, cut, rrdTime, dsTime, lines, upTo, lossy, d>>
  BY DEF Submit, Store!Call, rrd, locals, d
<1>2. ~Returned'
  <2>1. PICK t \in lines : Store!Call(Me, [kind |-> "add", d |-> d, t |-> t])
    BY DEF Submit
  <2>2. d \in Dsets /\ t \in Times
    BY Current DEF Typed, TypeOK
  <2> QED BY <1>1, <2>1, <2>2, Calls DEF Store!Call, Returned, Typed, TypeOK
<1>3. pc = "lines" /\ pc' = "added"
  BY DEF Submit
<1> QED BY <1>1, <1>2, <1>3, StoreUntouched DEF Complete, Sound, Progress, From

LEMMA SubmittedComplete == Typed /\ Complete /\ Submitted => Complete'
<1> SUFFICES ASSUME Typed, Complete, Submitted PROVE Complete'
  OBVIOUS
<1>1. UNCHANGED <<rows, utime, known, cut, rrdTime, dsTime, upTo, d>>
  BY DEF Submitted, store, rrd, d
<1>2. PICK t \in lines : /\ Earliest(t) /\ lines' = lines \ {t}
                         /\ lossy' = (lossy \/ (Result = -1 /\ t \notin rows[d]))
  BY DEF Submitted
<1>3. SUFFICES ASSUME ~lossy', Me \notin cut PROVE Progress'
  BY <1>1, <1>2, StoreUntouched DEF Complete, Sound
<1>4. t \in rows[d]
  BY <1>2, <1>3 DEF Submitted, Complete, Sound, Progress, Typed, TypeOK
<1>5. Progress
  BY <1>2, <1>3 DEF Complete, Sound, Typed, TypeOK
<1>6. pc = "added" /\ pc' = "lines"
  BY DEF Submitted
<1> QED BY <1>1, <1>2, <1>4, <1>5, <1>6 DEF Progress, From

LEMMA EndOfOutputComplete == Typed /\ Complete /\ EndOfOutput => Complete'
<1> SUFFICES ASSUME Typed, Complete, EndOfOutput PROVE Complete'
  OBVIOUS
<1>1. UNCHANGED <<rows, utime, known, cut, rrdTime, dsTime, upTo, lossy, d>>
  BY DEF EndOfOutput, store, rrd, locals, d
<1>2. pc = "lines" /\ pc' = "decide" /\ lines = {}
  BY DEF EndOfOutput
<1> QED BY <1>1, <1>2, StoreUntouched DEF Complete, Sound, Progress, From, Stored

(* The update time is stored after the values up to it. *)
LEMMA SetUtimeComplete == Typed /\ Complete /\ SetUtime => Complete'
<1> SUFFICES ASSUME Typed, Complete, SetUtime PROVE Complete'
  OBVIOUS
<1>1. UNCHANGED <<rows, utime, known, cut, valid, d>> /\ (lossy => lossy')
  BY DEF SetUtime, Store!Call, rrd, locals, d
<1>2. SUFFICES ASSUME ~lossy', Me \notin cut PROVE Progress'
  BY <1>1, StoreUntouched DEF Complete, Sound
<1>3. valid <= upTo /\ ~lossy
  <2>1. valid \in Int /\ upTo \in Int
    BY TypedNumbers
  <2>2. ~(lossy \/ valid > upTo)
    BY <1>2, Zenon DEF SetUtime
  <2> QED BY <2>1, <2>2
<1>4. d \in Dsets /\ utime[d] \in Times
  BY Current DEF Typed, TypeOK
<1>5. dsTime = From /\ Stored(dsTime, upTo)
  BY <1>2, <1>3 DEF SetUtime, Complete, Sound, Progress
<1>6. valid > dsTime /\ valid \in known \cup {0}
  BY DEF SetUtime, NewUtime, Typed, Ordered
<1>7. valid \in Int /\ upTo \in Int /\ Start \in Nat /\ utime[d] \in Nat /\ known \subseteq Int
  BY <1>4, TypedNumbers, SensorAssumption DEF Times
<1>8. utime[d] <= valid /\ valid \in rows[d]
  BY <1>3, <1>5, <1>6, <1>7 DEF From, Stored
<1>9. Stored(Start, valid)
  BY <1>3, <1>4, <1>5, <1>6, <1>7 DEF From, Stored, Complete, NoHoles
<1> QED BY <1>1, <1>8, <1>9 DEF SetUtime, Progress, Stored

LEMMA ClockComplete == Typed /\ Complete /\ (Tick \/ ClockSetBack) => Complete'
BY DEF Tick, ClockSetBack, Complete, NoHoles, UtimeIsData, Sound, Progress, Returned, Result, From, Stored,
       Earliest, d, store, rrd, locals

(* What the file gets is later than all the thread knows of. *)
LEMMA RrdUpdateComplete == Typed /\ Complete /\ RrdUpdate => Complete'
<1> SUFFICES ASSUME Typed, Complete, RrdUpdate PROVE Complete'
  OBVIOUS
<1>1. UNCHANGED <<closed, cut, rows, utime, pend, ret, pc, cur, rrdTime, dsTime, lines, row, valid,
                  upTo, lossy, d, Returned, Result>>
  BY DEF RrdUpdate, store, locals, d, Returned, Result
<1>2. d \in Dsets /\ known' \subseteq known \cup {rrdLast + 1}
  BY Current DEF RrdUpdate, Typed, TypeOK
<1>3. /\ rrdLast \in Int /\ valid \in Int /\ dsTime \in Int /\ upTo \in Int
      /\ valid <= rrdLast
      /\ pc \in {"lines", "added", "decide"} => upTo = dsTime \/ upTo <= rrdLast
      /\ \A x \in Dsets : utime[x] \in Int /\ utime[x] <= rrdLast
  <2>1. /\ rrdTime <= rrdLast /\ valid <= rrdTime /\ \A x \in Dsets : utime[x] <= rrdLast
        /\ pc \in {"lines", "added", "decide"} => upTo = dsTime \/ upTo <= rrdTime
    BY DEF Typed, Ordered
  <2> QED BY <2>1, TypedNumbers
<1>4. NoHoles'
  BY <1>1, <1>2, <1>3 DEF Complete, NoHoles
<1>5. UtimeIsData'
  BY <1>1 DEF Complete, UtimeIsData
<1>6. Sound'
  <2>1. \A to \in Int, t \in known' : to <= rrdLast /\ t <= to => t \in known
    BY <1>2, <1>3
  <2>2. SUFFICES ASSUME ~lossy, Me \notin cut, Progress PROVE Progress'
    BY <1>1 DEF Complete, Sound
  <2>3. known' \subseteq Int
    BY <1>2, <1>3, TypedNumbers
  <2>4. ASSUME pc \in {"lines", "added", "decide"}, NEW t \in known', dsTime < t, t <= upTo
        PROVE  t \in known
    BY <1>3, <2>1, <2>3, <2>4
  <2>5. \A t \in known' : t <= valid => t \in known
    BY <1>3, <2>1
  <2> QED BY <1>1, <2>2, <2>4, <2>5 DEF Progress, From, Stored, Earliest
<1> QED BY <1>4, <1>5, <1>6 DEF Complete

(* What a write leaves of the invariant. *)
LEMMA WriteComplete ==
  ASSUME Typed, Complete, Store!Store(Me), UNCHANGED <<known, lossy>>
  PROVE  /\ NoHoles' /\ UtimeIsData'
         /\ \A x \in Dsets : rows[x] \subseteq rows'[x]
         /\ pc = "set" => utime'[d] = valid
         /\ pc # "set" => UNCHANGED utime
<1>1. d \in Dsets /\ ~Returned /\ Me \notin cut
  BY Current, StoreIs DEF Typed, TypeOK
<1>2. CASE pc = "added" /\ rows' = [rows EXCEPT ![d] = @ \cup {pend[Me].t}] /\ UNCHANGED utime
  <2>1. \A x \in Dsets : rows[x] \subseteq rows'[x]
    BY <1>2 DEF Typed, TypeOK
  <2> QED BY <1>2, <2>1 DEF Complete, NoHoles, UtimeIsData
<1>3. CASE pc = "set" /\ utime' = [utime EXCEPT ![d] = valid] /\ UNCHANGED rows
  <2>1. utime'[d] = valid /\ \A x \in Dsets \ {d} : utime'[x] = utime[x]
    BY <1>1, <1>3 DEF Typed, TypeOK
  <2>2. ~lossy => valid \in rows[d] /\ Stored(Start, valid)
    BY <1>1, <1>3 DEF Complete, Sound, Progress
  <2>3. NoHoles'
    BY <1>1, <1>3, <2>1, <2>2 DEF Complete, NoHoles, Stored
  <2>4. UtimeIsData'
    BY <1>1, <1>3, <2>1, <2>2 DEF Complete, UtimeIsData
  <2> QED BY <1>3, <2>1, <2>3, <2>4
<1> QED BY <1>2, <1>3, StoreIs

LEMMA StoreStepComplete == Typed /\ Complete /\ StoreStep => Complete'
<1> SUFFICES ASSUME Typed, Complete, StoreStep PROVE Complete'
  OBVIOUS
<1>1. /\ UNCHANGED <<known, pc, rrdTime, dsTime, lines, valid, upTo, lossy, d>>
      /\ cut \subseteq cut' /\ d \in Dsets /\ valid <= valid
  BY StoreStepIs, Current, Numbers DEF Typed, TypeOK
<1>2. /\ NoHoles' /\ UtimeIsData'
      /\ \A x \in Dsets : rows[x] \subseteq rows'[x]
      /\ pc = "set" => utime'[d] \in {valid, utime[d]}
      /\ pc # "set" => UNCHANGED utime
  <2>1. CASE UNCHANGED <<rows, utime>>
    BY <1>1, <2>1, StoreUntouched
  <2>2. CASE Store!Store(Me)
    BY <1>1, <2>2, WriteComplete
  <2> QED BY <2>1, <2>2, StoreStepIs
<1>3. SUFFICES ASSUME ~lossy, Me \notin cut' PROVE Progress'
  BY <1>1, <1>2 DEF Complete, Sound
<1>4. Progress
  BY <1>1, <1>3 DEF Complete, Sound
<1>5. CASE UNCHANGED <<pend, ret>>
  BY <1>1, <1>2, <1>4, <1>5 DEF Progress, Returned, Result, From, Stored, Earliest
<1>6. CASE Store!Answered(Me)
  <2>1. ~closed /\ ~Returned /\ pend' = [pend EXCEPT ![Me] = Store!NoCall]
    BY <1>3, <1>6, AnswerIs
  <2>2. PICK r \in Answers :
          /\ ret' = [ret EXCEPT ![Me] = r]
          /\ pc = "asked" => r.stat \in {-1, utime[d]} \/ closed
          /\ pc = "added" => r.stat = -1 \/ pend[Me].t \in rows'[d] \/ closed
    BY <1>6, AnswerIs
  <2>3. Result' = r.stat /\ Returned'
    BY <2>1, <2>2 DEF Result, Returned, Typed, TypeOK, Returns
  <2>4. pc = "added" => Earliest(pend[Me].t)
    BY <2>1 DEF Typed, Calling
  <2>5. \A t, u \in lines : Earliest(t) /\ Earliest(u) => t = u
    BY Numbers DEF Earliest, Typed, TypeOK
  <2>6. pc = "added" => Result' = -1 \/ \A t \in lines : Earliest(t) => t \in rows'[d]
    BY <2>1, <2>2, <2>3, <2>4, <2>5 DEF Earliest
  <2>7. pc = "asked" => Result' \in {-1, utime'[d]}
    BY <1>2, <2>1, <2>2, <2>3
  <2> QED BY <1>1, <1>2, <1>4, <2>3, <2>6, <2>7 DEF Progress, From, Stored, Earliest
<1> QED BY <1>5, <1>6, StoreStepIs

LEMMA RestartComplete == Typed /\ Complete /\ Restart => Complete'
<1> SUFFICES ASSUME Typed, Complete, Restart PROVE Complete'
  OBVIOUS
<1>1. NoHoles' /\ UtimeIsData'
  BY StoreUntouched DEF Restart, rrd
<1>2. Sound'
  BY DEF Restart, Sound, Progress
<1> QED BY <1>1, <1>2 DEF Complete

LEMMA CompleteStep == Typed /\ Complete /\ [Next]_vars => Complete'
<1> SUFFICES ASSUME Typed, Complete, [Next]_vars PROVE Complete'
  OBVIOUS
<1>1. CASE UNCHANGED vars
  BY <1>1 DEF vars, Complete, NoHoles, UtimeIsData, Sound, Progress, Returned, Result, From, Stored, Earliest, d
<1> QED BY <1>1, BetweenComplete, GotUtimeComplete, SubmitComplete, SubmittedComplete,
           EndOfOutputComplete, SetUtimeComplete, ClockComplete, RrdUpdateComplete,
           StoreStepComplete, RestartComplete DEF Next, Sensor

(* The values up to the stored update time are stored: rrd_beatfunc()       *)
(* submits every line before it stores the update time, and asks for what   *)
(* follows that time in the next beat, also after a crash between the two.  *)
THEOREM SensorComplete == Spec => []Complete
<1>1. Init => Typed /\ Complete
  BY TypedInit, CompleteInit
<1>2. Typed /\ Complete /\ [Next]_vars => (Typed /\ Complete)'
  BY TypedStep, CompleteStep
<1> QED BY <1>1, <1>2, PTL DEF Spec

(* What the sensor will not ask for again has arrived. *)
THEOREM NothingSkipped == Spec => []NoHoles
<1>1. Complete => NoHoles
  BY DEF Complete
<1> QED BY <1>1, SensorComplete, PTL

(* The update time of a data set is the time of one of its stored values. *)
THEOREM UtimeStored == Spec => []UtimeIsData
<1>1. Complete => UtimeIsData
  BY DEF Complete
<1> QED BY <1>1, SensorComplete, PTL

(* Only the storage's step in stor_set_ts_utime() changes the update time,  *)
(* and the thread asked for a later one: no older one is stored over it.    *)
LEMMA Forward ==
  ASSUME Typed, Complete, [Next]_vars
  PROVE  ~lossy' => \A x \in Dsets : utime'[x] >= utime[x]
<1>1. \A x \in Dsets : utime[x] \in Int
  BY Numbers DEF Typed, TypeOK
<1>2. CASE StoreStep
  <2>1. SUFFICES ASSUME ~lossy', ~UNCHANGED utime
                 PROVE  \A x \in Dsets : utime'[x] >= utime[x]
    BY <1>1
  <2>2. /\ pc = "set" /\ Me \notin cut /\ ~Returned /\ ~lossy
        /\ utime' = [utime EXCEPT ![d] = valid]
    BY <1>2, <2>1, StoreStepIs, StoreIs
  <2>3. utime[d] <= valid /\ valid \in Int /\ d \in Dsets
    BY <2>2, Current, Numbers DEF Complete, Sound, Progress, Typed, TypeOK
  <2> QED BY <1>1, <2>2, <2>3 DEF Typed, TypeOK
<1>3. CASE UNCHANGED utime
  BY <1>1, <1>3
<1>4. StoreStep \/ UNCHANGED utime
  BY DEF Next, Sensor, Beat, AskUtime, GotUtime, Submit, Submitted, EndOfOutput, SetUtime,
         KeepUtime, UtimeSet, Tick, ClockSetBack, RrdUpdate, Restart, Store!Call, store, vars
<1> QED BY <1>2, <1>3, <1>4

(* The update time of a data set never goes back, whatever the clock does   *)
(* and however often the daemon is started again.                           *)
THEOREM UtimeOnlyForward == Spec => UtimeForward
<1>1. Typed /\ Complete /\ [Next]_vars => [~lossy' => \A x \in Dsets : utime'[x] >= utime[x]]_vars
  BY Forward
<1>2. Spec => []Typed /\ []Complete
  BY SensorTyping, SensorComplete, PTL
<1> QED BY <1>1, <1>2, PTL DEF Spec, UtimeForward

=============================================================================
