------------------------ MODULE StreamControl_proofs ------------------------
(***************************************************************************)
(* Proofs about StreamControl, for any streams, events and surroundings.   *)
(*                                                                         *)
(* The handlers of manager.cc call each other, so the proof goes bottom    *)
(* up: what each operator of the module changes, then what each handler    *)
(* keeps (StartKeeps for those that start something, StopKeeps and EndKeeps *)
(* for those that stop something), then one lemma for each action. The     *)
(* manager's fields are taken in groups (Sinks, Recs, Evts, Told) so that  *)
(* an operator is done with the groups it leaves alone in one step.        *)
(*                                                                         *)
(* Inv says of the manager more than the properties do: what the device    *)
(* records the manager knows to be started (RecAt), or withdrawing the last *)
(* reason would not stop it, unless another thread changed it under a      *)
(* report or a start; with one stream, a sink that stopped itself and a    *)
(* running one exclude each other (SinkOK).                                *)
(***************************************************************************)
EXTENDS StreamControl, BasicLemmas

-----------------------------------------------------------------------------
(***************************************************************************)
(* The loop of on_stream_stop() over the event states, a fold over a set:  *)
(* what one turn keeps, the loop keeps.                                    *)
(***************************************************************************)

LEMMA StatefulFinite == IsFiniteSet(Stateful)
<1>1. IsFiniteSet(Event)
    <2>1. IsFiniteSet(Event \cup Pulse) /\ Event \subseteq Event \cup Pulse
        BY StreamAssumption
    <2> QED BY <2>1, FS_Subset
<1> QED BY <1>1, FS_AddElement DEF Stateful

\* The function that FoldSet() chooses, from the sets of event states still to do,
Turn(q, s) == CHOOSE f : f = [T \in SUBSET Stateful |->
      IF T = {} THEN q
      ELSE EndEventStream(CHOOSE e \in T : TRUE, f[T \ {CHOOSE e \in T : TRUE}], s)]

LEMMA EndIsTurn == ASSUME NEW q, NEW s PROVE EndEventStreams(q, s) = Turn(q, s)[Stateful]
BY DEF EndEventStreams, FoldSet, MapThenFoldSet, Turn

\* and the equation that it solves.
Chosen(T) == CHOOSE e \in T : TRUE
Round(f, q, s) ==
    [T \in SUBSET Stateful |->
        IF T = {} THEN q ELSE EndEventStream(Chosen(T), f[T \ {Chosen(T)}], s)]

\* Each turn leaves a smaller set.
LEMMA SmallerSet ==
    ASSUME NEW T \in SUBSET Stateful
    PROVE  /\ Cardinality(T) \in Nat /\ Cardinality(T) <= Cardinality(Stateful)
           /\ Cardinality(T) = 0 => T = {}
           /\ T # {} => /\ Chosen(T) \in T /\ T \ {Chosen(T)} \in SUBSET Stateful
                        /\ Cardinality(T \ {Chosen(T)}) = Cardinality(T) - 1
<1>1. IsFiniteSet(T) /\ Cardinality(T) <= Cardinality(Stateful)
    BY StatefulFinite, FS_Subset
<1>2. Cardinality(T) \in Nat /\ (Cardinality(T) = 0 => T = {})
    BY <1>1, FS_CardinalityType, FS_EmptySet
<1>3. T # {} => Chosen(T) \in T
    BY DEF Chosen
<1>4. T # {} => Cardinality(T \ {Chosen(T)}) = Cardinality(T) - 1
    BY <1>1, <1>3, FS_RemoveElement
<1> QED BY <1>1, <1>2, <1>3, <1>4

\* FoldSet() chooses a solution if there is one: on the sets of at most n members
\* one exists for every n, since the least n without one would have one.
LEMMA TurnEquation ==
    ASSUME NEW q, NEW s
    PROVE  Turn(q, s) = Round(Turn(q, s), q, s)
<1> DEFINE S == SUBSET Stateful
           N == {n \in Nat : ~ \E f : \A T \in S : Cardinality(T) <= n => f[T] = Round(f, q, s)[T]}
<1>1. N = {}
    <2> SUFFICES ASSUME N # {} PROVE FALSE
        OBVIOUS
    <2>1. PICK n \in N : \A y \in N : n <= y
        <3> HIDE DEF N
        <3>1. N \in SUBSET Nat
            BY DEF N
        <3> QED BY <3>1, LeastNatural
    <2>2. n \in Nat
        OBVIOUS
    <2>3. n # 0
        <3> SUFFICES ASSUME n = 0 PROVE FALSE
            OBVIOUS
        <3> DEFINE f == [T \in S |-> q]
        <3>1. ASSUME NEW T \in S, Cardinality(T) <= n PROVE f[T] = Round(f, q, s)[T]
            <4>0. Cardinality(T) \in Nat /\ Cardinality(T) <= 0
                BY <3>1, SmallerSet
            <4>1. Cardinality(T) = 0
                BY <4>0
            <4>2. T = {}
                BY <4>1, SmallerSet
            <4> QED BY <4>2 DEF Round
        <3> HIDE DEF f
        <3> QED BY <3>1
    <2>4. n - 1 \in Nat /\ n - 1 \notin N
        BY <2>1, <2>2, <2>3
    <2>5. PICK f : \A T \in S : Cardinality(T) <= n - 1 => f[T] = Round(f, q, s)[T]
        BY <2>4
    <2> DEFINE g == Round(f, q, s)
    <2>6. ASSUME NEW T \in S, Cardinality(T) <= n PROVE g[T] = Round(g, q, s)[T]
        <3>1. CASE T = {}
            BY <3>1 DEF Round
        <3>2. CASE T # {}
            <4> DEFINE U == T \ {Chosen(T)}
            <4>1. U \in S /\ Cardinality(U) <= n - 1
                BY <2>2, <2>6, <3>2, SmallerSet
            <4>2. f[U] = g[U]
                BY <2>5, <4>1
            <4>3. g[T] = EndEventStream(Chosen(T), f[U], s)
                BY <3>2 DEF Round
            <4> HIDE DEF g
            <4>4. Round(g, q, s)[T] = EndEventStream(Chosen(T), g[U], s)
                BY <3>2 DEF Round
            <4> QED BY <4>2, <4>3, <4>4
        <3> QED BY <3>1, <3>2
    <2> HIDE DEF g
    <2>7. n \notin N
        BY <2>6
    <2> QED BY <2>7
<1>2. Cardinality(Stateful) \in Nat
    BY StatefulFinite, FS_CardinalityType
<1>3. PICK f : \A T \in S : Cardinality(T) <= Cardinality(Stateful) => f[T] = Round(f, q, s)[T]
    BY <1>1, <1>2
<1>4. \A T \in S : f[T] = Round(f, q, s)[T]
    BY <1>3, SmallerSet
<1> DEFINE h == Round(f, q, s)
<1>5. h = Round(h, q, s)
    BY <1>4, SmallerSet DEF Round
<1> QED BY <1>5 DEF Turn, Round, Chosen

\* What every turn keeps, the loop keeps, by induction on the size of the set.
LEMMA EndEventStreamsKeeps ==
    ASSUME NEW Q, NEW q \in Q, NEW s,
           \A e \in Stateful : \A a \in Q : EndEventStream(e, a, s) \in Q
    PROVE  EndEventStreams(q, s) \in Q
<1> DEFINE f == Turn(q, s)
           N == {n \in Nat : \E T \in SUBSET Stateful : Cardinality(T) = n /\ f[T] \notin Q}
<1>1. f = Round(f, q, s)
    BY TurnEquation
<1> HIDE DEF f
<1>2. N = {}
    <2> SUFFICES ASSUME N # {} PROVE FALSE
        OBVIOUS
    <2>1. PICK n \in N : \A y \in N : n <= y
        <3> HIDE DEF N
        <3>1. N \in SUBSET Nat
            BY DEF N
        <3> QED BY <3>1, LeastNatural
    <2>2. PICK T \in SUBSET Stateful : Cardinality(T) = n /\ f[T] \notin Q
        OBVIOUS
    <2>3. CASE T = {}
        BY <1>1, <2>2, <2>3 DEF Round
    <2>4. CASE T # {}
        <3> DEFINE U == T \ {Chosen(T)}
        <3>1. /\ n \in Nat /\ U \in SUBSET Stateful /\ Cardinality(U) = n - 1
              /\ n - 1 \in Nat /\ n - 1 < n
            BY <2>2, <2>4, SmallerSet
        <3>2. f[U] \in Q
            BY <2>1, <3>1
        <3>3. f[T] = EndEventStream(Chosen(T), f[U], s)
            BY <1>1, <2>4 DEF Round
        <3>4. Chosen(T) \in Stateful
            BY <2>4, SmallerSet
        <3> QED BY <2>2, <3>2, <3>3, <3>4
    <2> QED BY <2>3, <2>4
<1>3. Cardinality(Stateful) \in Nat
    BY StatefulFinite, FS_CardinalityType
<1>4. f[Stateful] \in Q
    BY <1>2, <1>3
<1> QED BY <1>4, EndIsTurn DEF f
-----------------------------------------------------------------------------
(***************************************************************************)
(* What the operators of the manager change. Its fields form four groups.  *)
(***************************************************************************)

Answers == [source : BOOLEAN, sink : BOOLEAN, record : BOOLEAN, info : BOOLEAN,
            known : BOOLEAN]
Status == [permanent : BOOLEAN, by_event : BOOLEAN, direct_upload : BOOLEAN,
           started : BOOLEAN]
Delivery == [active_ : BOOLEAN, delivery_mode_ : Mode, seg_provider : Stream,
             timers : Seq({"start", "stop"} \X Stream), stop_pending : BOOLEAN]
Flags == [Stream -> BOOLEAN]

\* The publishing sinks and their sources,
Sinks(q) == <<q.active_sinks_, q.sink_started_, q.source_started_, q.died>>
\* what is recorded and why,
Recs(q) == <<q.recording, q.recording_status_>>
\* event-driven recording,
Evts(q) == <<q.record_by_event_, q.stream_by_event_, q.continuos_direct_record_,
             q.record_event_depth_>>
\* and what on_stream_start() answers.
Told(q) == q.result

\* The types of the fields, one by one.
LEMMA Fields ==
    ASSUME NEW q \in ManagerType
    PROVE  /\ q.active_sinks_ \in Nat /\ q.record_event_depth_ \in Nat
           /\ q.record_stream_ \in Stream
           /\ q.record_by_event_ \in BOOLEAN /\ q.stream_by_event_ \in BOOLEAN
           /\ q.continuos_direct_record_ \in BOOLEAN /\ q.memorycard_info_ \in BOOLEAN
           /\ q.died \in BOOLEAN /\ q.result \in BOOLEAN
           /\ q.source_started_ \in Flags /\ q.sink_started_ \in Flags /\ q.recording \in Flags
           /\ q.recording_status_ \in [Stream -> Status]
           /\ q.events_states_ \in [State -> Delivery]
BY DEF ManagerType, Flags, Status, Delivery

\* Only a source that runs gets a sink; with one stream the count follows.
One == Stream = {DefaultStream}
SinkOK(q) ==
    /\ q.active_sinks_ = (IF q.sink_started_[DefaultStream] THEN 1 ELSE 0)
                         + (IF q.died THEN 1 ELSE 0)
    /\ q.sink_started_[DefaultStream] => ~q.died /\ q.source_started_[DefaultStream]

LEMMA StartChanges ==
    ASSUME NEW q \in ManagerType, NEW s \in Stream, NEW o \in Answers
    PROVE  LET r == start(q, s, o)
           IN  /\ r \in ManagerType
               /\ Recs(r) = Recs(q) /\ Evts(r) = Evts(q) /\ Told(r) = Told(q)
               /\ SinkOK(q) => SinkOK(r)
               /\ o.source => r.source_started_[s]
<1> DEFINE f == [q.source_started_ EXCEPT ![s] = @ \/ o.source]
           r == [q EXCEPT !.source_started_ = f]
<1>1. f \in Flags /\ (o.source => f[s]) /\ \A z \in Stream : q.source_started_[z] => f[z]
    BY Fields DEF Flags, Answers
<1>2. start(q, s, o) = r
    BY DEF start
<1> HIDE DEF f
<1>3. r \in ManagerType
    BY <1>1 DEF ManagerType, Flags
<1>4. /\ Recs(r) = Recs(q) /\ Evts(r) = Evts(q) /\ Told(r) = Told(q)
      /\ r.active_sinks_ = q.active_sinks_ /\ r.sink_started_ = q.sink_started_
      /\ r.died = q.died /\ r.source_started_ = f
    BY DEF ManagerType, Recs, Evts, Told
<1> HIDE DEF r
<1>5. SinkOK(q) => SinkOK(r)
    BY <1>1, <1>4, StreamAssumption DEF SinkOK
<1> QED BY <1>1, <1>2, <1>3, <1>4, <1>5

LEMMA StartSinkChanges ==
    ASSUME NEW q \in ManagerType, NEW s \in Stream, NEW o \in Answers
    PROVE  LET r == start_sink(q, s, o)
           IN  /\ r \in ManagerType
               /\ Recs(r) = Recs(q) /\ Evts(r) = Evts(q)
               /\ One /\ SinkOK(q) /\ q.source_started_[s] => SinkOK(r)
<1>1. CASE q.active_sinks_ > 0
    BY <1>1 DEF start_sink
<1>2. CASE ~(q.active_sinks_ > 0)
    <2> DEFINE b == q.sink_started_[s] \/ o.sink
               f == [q.sink_started_ EXCEPT ![s] = b]
               n == IF b THEN 1 ELSE 0
               r == [q EXCEPT !.sink_started_ = f, !.active_sinks_ = n, !.result = b]
    <2>1. b \in BOOLEAN /\ f \in Flags /\ n \in Nat
        BY Fields DEF Flags, Answers
    <2>2. start_sink(q, s, o) = r
        BY <1>2 DEF start_sink
    <2>3. f[s] = b
        BY Fields DEF Flags
    <2> HIDE DEF b, f
    <2>4. r \in ManagerType
        BY <2>1 DEF ManagerType, Flags
    <2>5. /\ Recs(r) = Recs(q) /\ Evts(r) = Evts(q)
          /\ r.active_sinks_ = n /\ r.sink_started_ = f /\ r.died = q.died
          /\ r.source_started_ = q.source_started_
        BY DEF ManagerType, Recs, Evts
    <2> HIDE DEF r
    <2>6. ASSUME One, SinkOK(q), q.source_started_[s] PROVE SinkOK(r)
        <3>1. s = DefaultStream
            BY <2>6 DEF One
        <3>2. q.active_sinks_ = 0 /\ q.died \in BOOLEAN
            BY <1>2, Fields
        <3>3. ~q.died
            BY <2>6, <3>2 DEF SinkOK
        <3> QED BY <2>1, <2>3, <2>5, <2>6, <3>1, <3>3 DEF SinkOK
    <2> QED BY <2>2, <2>4, <2>5, <2>6
<1> QED BY <1>1, <1>2

LEMMA DropSinkChanges ==
    ASSUME NEW q \in ManagerType, NEW s \in Stream
    PROVE  LET r == drop_sink(q, s)
           IN  /\ r \in ManagerType
               /\ Recs(r) = Recs(q) /\ Evts(r) = Evts(q) /\ Told(r) = Told(q)
               /\ One /\ SinkOK(q) => SinkOK(r)
<1>1. CASE q.active_sinks_ = 0
    BY <1>1 DEF drop_sink
<1>2. CASE q.active_sinks_ # 0
    <2> DEFINE n == q.active_sinks_ - 1
               f == [q.sink_started_ EXCEPT ![s] = @ /\ q.active_sinks_ > 1]
               b == q.died /\ q.active_sinks_ > 1
               r == [q EXCEPT !.active_sinks_ = n, !.sink_started_ = f, !.died = b]
    <2>1. n \in Nat
        BY <1>2, Fields
    <2>2. f \in Flags /\ b \in BOOLEAN /\ f[s] = (q.sink_started_[s] /\ q.active_sinks_ > 1)
        BY Fields DEF Flags
    <2>3. drop_sink(q, s) = r
        BY <1>2 DEF drop_sink
    <2> HIDE DEF b, f, n
    <2>4. r \in ManagerType
        BY <2>1, <2>2 DEF ManagerType, Flags
    <2>5. /\ Recs(r) = Recs(q) /\ Evts(r) = Evts(q) /\ Told(r) = Told(q)
          /\ r.active_sinks_ = n /\ r.sink_started_ = f /\ r.died = b
          /\ r.source_started_ = q.source_started_
        BY DEF ManagerType, Recs, Evts, Told
    <2> HIDE DEF r
    <2>6. ASSUME One, SinkOK(q) PROVE SinkOK(r)
        <3>1. s = DefaultStream
            BY <2>6 DEF One
        <3>2. q.active_sinks_ = 1
            BY <1>2, <2>6, Fields DEF SinkOK
        <3>3. n = 0 /\ ~b /\ ~f[DefaultStream]
            <4>1. n = 0
                BY <3>2 DEF n
            <4>2. ~b
                BY <3>2 DEF b
            <4> QED BY <2>2, <3>1, <3>2, <4>1, <4>2
        <3> QED BY <2>5, <3>3 DEF SinkOK
    <2> QED BY <2>3, <2>4, <2>5, <2>6
<1> QED BY <1>1, <1>2

LEMMA StopSourceChanges ==
    ASSUME NEW q \in ManagerType, NEW s \in Stream
    PROVE  LET r == stop_idle_source(q, s)
           IN  /\ r \in ManagerType
               /\ Recs(r) = Recs(q) /\ Evts(r) = Evts(q) /\ Told(r) = Told(q)
               /\ One /\ SinkOK(q) => SinkOK(r)
<1>1. CASE ~(q.active_sinks_ = 0 /\ (~q.record_by_event_ \/ ~NeedsSource))
    BY <1>1 DEF stop_idle_source
<1>2. CASE q.active_sinks_ = 0 /\ (~q.record_by_event_ \/ ~NeedsSource)
    <2> DEFINE f == [q.source_started_ EXCEPT ![s] = FALSE]
               r == [q EXCEPT !.source_started_ = f]
    <2>1. f \in Flags
        BY Fields DEF Flags
    <2>2. stop_idle_source(q, s) = r
        BY <1>2 DEF stop_idle_source
    <2> HIDE DEF f
    <2>3. r \in ManagerType
        BY <2>1 DEF ManagerType, Flags
    <2>4. /\ Recs(r) = Recs(q) /\ Evts(r) = Evts(q) /\ Told(r) = Told(q)
          /\ r.active_sinks_ = q.active_sinks_ /\ r.sink_started_ = q.sink_started_
          /\ r.died = q.died
        BY DEF ManagerType, Recs, Evts, Told
    <2> HIDE DEF r
    <2>5. ASSUME SinkOK(q) PROVE SinkOK(r)
        <3>1. ~q.sink_started_[DefaultStream] /\ ~q.died
            BY <1>2, <2>5 DEF SinkOK
        <3> QED BY <1>2, <2>4, <3>1 DEF SinkOK
    <2> QED BY <2>2, <2>3, <2>4, <2>5
<1> QED BY <1>1, <1>2
-----------------------------------------------------------------------------
\* What is recorded is recorded knowingly and for a reason, unless overtaken.
RecAt(q, s) ==
    s \in overtaken \/ (q.recording[s] => q.recording_status_[s].started /\ Enabled(q, s))
Knows(q, s) == s \in overtaken \/ (q.recording[s] => q.recording_status_[s].started)
RecOK(q) == \A s \in Stream : RecAt(q, s)

\* The reasons to record.
Reasons(q) == [s \in Stream |-> <<q.recording_status_[s].permanent,
                                  q.recording_status_[s].by_event,
                                  q.recording_status_[s].direct_upload>>]

LEMMA ReasonsEnable ==
    ASSUME NEW q, NEW r, Reasons(r) = Reasons(q), NEW s \in Stream
    PROVE  /\ Enabled(r, s) = Enabled(q, s)
           /\ r.recording_status_[s].by_event = q.recording_status_[s].by_event
<1>1. Reasons(r)[s] = Reasons(q)[s]
    OBVIOUS
<1>2. /\ r.recording_status_[s].permanent = q.recording_status_[s].permanent
      /\ r.recording_status_[s].by_event = q.recording_status_[s].by_event
      /\ r.recording_status_[s].direct_upload = q.recording_status_[s].direct_upload
    BY <1>1 DEF Reasons
<1> QED BY <1>2 DEF Enabled

\* A step that leaves the recording alone.
LEMMA SameRecs ==
    ASSUME NEW q, NEW r, Recs(r) = Recs(q)
    PROVE  /\ RecOK(q) => RecOK(r)
           /\ Reasons(r) = Reasons(q)
BY DEF Recs, Reasons, RecOK, RecAt, Enabled

\* The manager with another record of what it started, and another device.
Known(q, s, b) == [q EXCEPT !.recording_status_[s].started = b]
Device(q, s, b, c) == [q EXCEPT !.recording_status_[s].started = b, !.recording[s] = c]

LEMMA SetStarted ==
    ASSUME NEW q \in ManagerType, NEW s \in Stream, NEW b \in BOOLEAN, NEW c \in BOOLEAN
    PROVE  LET r == Device(q, s, b, c)
               t == Known(q, s, b)
           IN  /\ r \in ManagerType /\ t \in ManagerType
               /\ Sinks(r) = Sinks(q) /\ Evts(r) = Evts(q) /\ Told(r) = Told(q)
               /\ Sinks(t) = Sinks(q) /\ Evts(t) = Evts(q) /\ Told(t) = Told(q)
               /\ r.recording[s] = c /\ r.recording_status_[s].started = b
               /\ t.recording = q.recording /\ t.recording_status_[s].started = b
               /\ Reasons(r) = Reasons(q) /\ Reasons(t) = Reasons(q)
               /\ \A z \in Stream : z # s => /\ RecAt(q, z) => RecAt(r, z)
                                             /\ RecAt(q, z) => RecAt(t, z)
<1> DEFINE g == [q.recording_status_ EXCEPT ![s].started = b]
           f == [q.recording EXCEPT ![s] = c]
           r == [q EXCEPT !.recording_status_ = g, !.recording = f]
           t == [q EXCEPT !.recording_status_ = g]
<1>1. /\ g \in [Stream -> Status] /\ f \in Flags /\ f[s] = c /\ g[s].started = b
      /\ \A z \in Stream : z # s => f[z] = q.recording[z] /\ g[z] = q.recording_status_[z]
      /\ \A z \in Stream : /\ g[z].permanent = q.recording_status_[z].permanent
                           /\ g[z].by_event = q.recording_status_[z].by_event
                           /\ g[z].direct_upload = q.recording_status_[z].direct_upload
    BY Fields DEF Flags, Status
<1>2. Device(q, s, b, c) = r /\ Known(q, s, b) = t
    BY DEF Device, Known
<1> HIDE DEF f, g
<1>3. r \in ManagerType /\ t \in ManagerType
    BY <1>1 DEF ManagerType, Flags, Status
<1>4. /\ Sinks(r) = Sinks(q) /\ Evts(r) = Evts(q) /\ Told(r) = Told(q)
      /\ r.recording = f /\ r.recording_status_ = g
    BY DEF ManagerType, Sinks, Evts, Told
<1>5. /\ Sinks(t) = Sinks(q) /\ Evts(t) = Evts(q) /\ Told(t) = Told(q)
      /\ t.recording = q.recording /\ t.recording_status_ = g
    BY DEF ManagerType, Sinks, Evts, Told
<1> HIDE DEF r, t
<1>6. Reasons(r) = Reasons(q) /\ Reasons(t) = Reasons(q)
    BY <1>1, <1>4, <1>5 DEF Reasons
<1>7. \A z \in Stream : z # s => /\ RecAt(q, z) => RecAt(r, z)
                                 /\ RecAt(q, z) => RecAt(t, z)
    BY <1>1, <1>4, <1>5 DEF RecAt, Enabled
<1> QED BY <1>1, <1>2, <1>3, <1>4, <1>5, <1>6, <1>7

LEMMA StartRecordingChanges ==
    ASSUME NEW q \in ManagerType, NEW s \in Stream, NEW o \in Answers
    PROVE  LET r == _start_recording(q, s, o)
           IN  /\ r \in ManagerType
               /\ Sinks(r) = Sinks(q) /\ Evts(r) = Evts(q) /\ Told(r) = Told(q)
               /\ Reasons(r) = Reasons(q)
               /\ RecOK(q) => RecOK(r)
<1> DEFINE cond == NeedsStart(q, s)
<1>1. CASE ~cond
    BY <1>1 DEF _start_recording
<1>2. CASE cond
    <2> DEFINE b == q.recording_status_[s].started \/ o.record
               c == q.recording[s] \/ o.record
               r == Device(q, s, b, c)
    <2>1. b \in BOOLEAN /\ c \in BOOLEAN
        BY Fields DEF Answers, Flags, Status
    <2>2. _start_recording(q, s, o) = r
        BY <1>2 DEF _start_recording, start_record, Device
    <2>3. ASSUME RecOK(q) PROVE s \in overtaken \/ (c => b)
        BY <2>3 DEF RecOK, RecAt
    <2> HIDE DEF b, c
    <2>4. /\ r \in ManagerType
          /\ Sinks(r) = Sinks(q) /\ Evts(r) = Evts(q) /\ Told(r) = Told(q)
          /\ r.recording[s] = c /\ r.recording_status_[s].started = b
          /\ Reasons(r) = Reasons(q)
          /\ \A z \in Stream : z # s => (RecAt(q, z) => RecAt(r, z))
        BY <2>1, SetStarted
    <2> HIDE DEF r
    <2>5. Enabled(r, s)
        BY <1>2, <2>4, ReasonsEnable DEF NeedsStart
    <2>6. ASSUME RecOK(q) PROVE RecOK(r)
        BY <2>3, <2>4, <2>5, <2>6 DEF RecOK, RecAt
    <2> QED BY <2>2, <2>4, <2>6
<1> QED BY <1>1, <1>2

LEMMA StopRecordingChanges ==
    ASSUME NEW q \in ManagerType, NEW s \in Stream, NEW force \in BOOLEAN
    PROVE  LET r == _stop_recording(q, s, force)
           IN  /\ r \in ManagerType
               /\ Sinks(r) = Sinks(q) /\ Evts(r) = Evts(q) /\ Told(r) = Told(q)
               /\ Reasons(r) = Reasons(q)
               /\ /\ \A z \in Stream : z # s => RecAt(q, z)
                  /\ Knows(q, s)
                  => RecOK(r)
<1> DEFINE cond == (~Enabled(q, s) /\ q.recording_status_[s].started) \/ force
<1>1. CASE ~cond
    <2>1. _stop_recording(q, s, force) = q
        BY <1>1 DEF _stop_recording
    <2>2. ASSUME \A z \in Stream : z # s => RecAt(q, z), Knows(q, s) PROVE RecOK(q)
        BY <1>1, <2>2 DEF RecOK, RecAt, Knows
    <2> QED BY <2>1, <2>2
<1>2. CASE cond
    <2> DEFINE b == FALSE
               r == Device(q, s, b, b)
    <2>1. _stop_recording(q, s, force) = r
        BY <1>2 DEF _stop_recording, Device
    <2>0. b \in BOOLEAN /\ ~b
        OBVIOUS
    <2> HIDE DEF b
    <2>2. /\ r \in ManagerType
          /\ Sinks(r) = Sinks(q) /\ Evts(r) = Evts(q) /\ Told(r) = Told(q)
          /\ r.recording[s] = b
          /\ Reasons(r) = Reasons(q)
          /\ \A z \in Stream : z # s => (RecAt(q, z) => RecAt(r, z))
        BY <2>0, SetStarted
    <2> HIDE DEF r
    <2>3. ASSUME \A z \in Stream : z # s => RecAt(q, z) PROVE RecOK(r)
        BY <2>0, <2>2, <2>3 DEF RecOK, RecAt
    <2> QED BY <2>1, <2>2, <2>3
<1> QED BY <1>1, <1>2

LEMMA NotedChanges ==
    ASSUME NEW q \in ManagerType, NEW s \in Stream, NEW c \in BOOLEAN
    PROVE  LET r == Noted(q, s, c)
           IN  /\ r \in ManagerType
               /\ Sinks(r) = Sinks(q) /\ Evts(r) = Evts(q) /\ Told(r) = Told(q)
               /\ Reasons(r) = Reasons(q)
               /\ RecOK(q) => RecOK(r)
<1> DEFINE halted == q.recording_status_[s].started /\ ~c
           seen == Known(q, s, c)
           t == TRUE
           off == _stop_recording(seen, s, t)
<1>t. t \in BOOLEAN /\ t
    OBVIOUS
<1>1. Noted(q, s, c) = IF halted THEN off ELSE seen
    BY DEF Noted, Known
<1>2. /\ seen \in ManagerType
      /\ Sinks(seen) = Sinks(q) /\ Evts(seen) = Evts(q) /\ Told(seen) = Told(q)
      /\ seen.recording = q.recording /\ seen.recording_status_[s].started = c
      /\ Reasons(seen) = Reasons(q)
      /\ \A z \in Stream : z # s => (RecAt(q, z) => RecAt(seen, z))
    BY SetStarted
<1> HIDE DEF seen
<1>3. CASE halted
    <2> HIDE DEF t
    <2>1. /\ off \in ManagerType
          /\ Sinks(off) = Sinks(seen) /\ Evts(off) = Evts(seen) /\ Told(off) = Told(seen)
          /\ Reasons(off) = Reasons(seen)
        BY <1>t, <1>2, StopRecordingChanges
    <2>2. ASSUME RecOK(q) PROVE RecOK(off)
        <3>1. \A z \in Stream : z # s => RecAt(off, z)
            BY <1>2, <2>2 DEF RecOK, RecAt, Enabled, _stop_recording
        <3>2. ~off.recording[s]
            BY <1>t, <1>2, Fields DEF _stop_recording, Flags
        <3> QED BY <3>1, <3>2 DEF RecOK, RecAt
    <2> HIDE DEF off
    <2> QED BY <1>1, <1>2, <1>3, <2>1, <2>2
<1>4. CASE ~halted
    <2>1. ASSUME RecOK(q) PROVE RecOK(seen)
        <3>1. RecAt(q, s) /\ Enabled(seen, s) = Enabled(q, s)
            BY <1>2, <2>1, ReasonsEnable DEF RecOK
        <3>2. RecAt(seen, s)
            BY <1>2, <1>4, <3>1 DEF RecAt
        <3> QED BY <1>2, <2>1, <3>2 DEF RecOK
    <2> QED BY <1>1, <1>2, <1>4, <2>1
<1> QED BY <1>3, <1>4

LEMMA MemorycardChanges ==
    ASSUME NEW q \in ManagerType, NEW o \in Answers
    PROVE  LET r == _memorycard_event(q, o)
           IN  /\ r \in ManagerType
               /\ Sinks(r) = Sinks(q) /\ Evts(r) = Evts(q) /\ Told(r) = Told(q)
               /\ Reasons(r) = Reasons(q)
               /\ RecOK(q) => RecOK(r)
<1> DEFINE s == q.record_stream_
           c == q.recording[s]
           off == Noted(q, s, c)
           on == _start_recording(off, s, o)
<1>1. s \in Stream /\ c \in BOOLEAN
    BY Fields DEF Flags
<1>2. _memorycard_event(q, o) \in {on, q}
    BY DEF _memorycard_event
<1> HIDE DEF s, c
<1>3. /\ off \in ManagerType
      /\ Sinks(off) = Sinks(q) /\ Evts(off) = Evts(q) /\ Told(off) = Told(q)
      /\ Reasons(off) = Reasons(q)
      /\ RecOK(q) => RecOK(off)
    BY <1>1, NotedChanges
<1> HIDE DEF off
<1>4. /\ on \in ManagerType
      /\ Sinks(on) = Sinks(off) /\ Evts(on) = Evts(off) /\ Told(on) = Told(off)
      /\ Reasons(on) = Reasons(off)
      /\ RecOK(off) => RecOK(on)
    BY <1>1, <1>3, StartRecordingChanges
<1> HIDE DEF on
<1> QED BY <1>2, <1>3, <1>4

LEMMA StorageChanges ==
    ASSUME NEW q \in ManagerType, NEW o \in Answers, card \in BOOLEAN
    PROVE  LET r == _update_storage_status(q, o)
           IN  /\ r \in ManagerType
               /\ Sinks(r) = Sinks(q) /\ Evts(r) = Evts(q) /\ Told(r) = Told(q)
               /\ Reasons(r) = Reasons(q)
               /\ RecOK(q) => RecOK(r)
<1> DEFINE s == q.record_stream_
           c == IF o.known THEN q.recording[s] ELSE q.recording_status_[s].started
           w == Known(q, s, c)
           seen == [w EXCEPT !.memorycard_info_ = card]
<1>1. s \in Stream /\ c \in BOOLEAN
    BY Fields DEF Flags, Status
<1>2. [q EXCEPT !.memorycard_info_ = card, !.recording_status_[s].started = c] = seen
    BY DEF ManagerType, Known
<1>3. _update_storage_status(q, o) \in {q, _memorycard_event(seen, o), seen}
    BY <1>2 DEF _update_storage_status
<1>c. ASSUME RecOK(q) PROVE s \in overtaken \/ (q.recording[s] => c)
    BY <1>1, <1>c DEF RecOK, RecAt
<1> HIDE DEF s, c
<1>4. /\ w \in ManagerType
      /\ Sinks(w) = Sinks(q) /\ Evts(w) = Evts(q) /\ Told(w) = Told(q)
      /\ w.recording = q.recording /\ w.recording_status_[s].started = c
      /\ Reasons(w) = Reasons(q)
      /\ \A z \in Stream : z # s => (RecAt(q, z) => RecAt(w, z))
    BY <1>1, SetStarted
<1> HIDE DEF w
<1>5. ASSUME RecOK(q) PROVE RecOK(w)
    <2>1. Enabled(w, s) = Enabled(q, s)
        BY <1>1, <1>4, ReasonsEnable
    <2>2. RecAt(w, s)
        BY <1>1, <1>4, <1>5, <1>c, <2>1 DEF RecOK, RecAt
    <2> QED BY <1>4, <1>5, <2>2 DEF RecOK
<1>6. /\ seen \in ManagerType
      /\ Sinks(seen) = Sinks(w) /\ Evts(seen) = Evts(w) /\ Told(seen) = Told(w)
      /\ Recs(seen) = Recs(w)
    BY <1>4 DEF ManagerType, Sinks, Evts, Told, Recs
<1> HIDE DEF seen
<1>7. Reasons(seen) = Reasons(w) /\ (RecOK(w) => RecOK(seen))
    BY <1>6, SameRecs
<1> DEFINE e == _memorycard_event(seen, o)
<1>8. /\ e \in ManagerType
      /\ Sinks(e) = Sinks(seen) /\ Evts(e) = Evts(seen) /\ Told(e) = Told(seen)
      /\ Reasons(e) = Reasons(seen)
      /\ RecOK(seen) => RecOK(e)
    BY <1>6, MemorycardChanges
<1> HIDE DEF e
<1>9. _update_storage_status(q, o) \in {q, e, seen}
    BY <1>3 DEF e
<1> QED BY <1>4, <1>5, <1>6, <1>7, <1>8, <1>9
-----------------------------------------------------------------------------
\* The event states: only events_states_ changes.
Timer == {"start", "stop"} \X Stream

LEMMA DeliveryTypes ==
    ASSUME NEW e, NEW v \in Delivery, NEW mode \in Mode, NEW s \in Stream
    PROVE  /\ event_active(v) \in Delivery
           /\ event_start(e, v, mode, s) \in Delivery
           /\ event_stop(e, v) \in Delivery
           /\ update_delivery_mode(e, v, mode, s) \in Delivery
<1>1. ASSUME NEW x \in Delivery PROVE _start_delivery(e, x) \in Delivery
    <2>1. x.timers \in Seq(Timer) /\ <<"start", x.seg_provider>> \in Timer
        BY <1>1 DEF Delivery, Timer
    <2> DEFINE t == Append(x.timers, <<"start", x.seg_provider>>)
    <2>2. t \in Seq(Timer)
        BY <2>1
    <2> HIDE DEF t
    <2>3. [x EXCEPT !.timers = t] \in Delivery
        BY <1>1, <2>2 DEF Delivery, Timer
    <2> QED BY <1>1, <2>3 DEF _start_delivery, t
<1>2. ASSUME NEW x \in Delivery PROVE _stop_delivery(e, x) \in Delivery
    <2>1. x.timers \in Seq(Timer) /\ <<"stop", x.seg_provider>> \in Timer
        BY <1>2 DEF Delivery, Timer
    <2> DEFINE t == Append(x.timers, <<"stop", x.seg_provider>>)
    <2>2. t \in Seq(Timer)
        BY <2>1
    <2> HIDE DEF t
    <2>3. [x EXCEPT !.timers = t, !.stop_pending = TRUE] \in Delivery
        BY <1>2, <2>2 DEF Delivery, Timer
    <2> QED BY <1>2, <2>3 DEF _stop_delivery, t
<1>3. ASSUME NEW x \in Delivery PROVE CancelPendingStop(x) \in Delivery
    <2> DEFINE I == {i \in 1..Len(x.timers) : x.timers[i][1] = "stop"}
               k == IF I # {} THEN Max(I) ELSE 0
               t == RemoveAt(x.timers, k)
    <2>1. x.timers \in Seq(Timer) /\ Len(x.timers) \in Nat
        BY <1>3 DEF Delivery, Timer
    <2>2. k \in 0..Len(x.timers)
        <3>1. I \in SUBSET (1..Len(x.timers))
            OBVIOUS
        <3> HIDE DEF I
        <3>2. I # {} => Max(I) \in I
            <4>1. 1 \in Int /\ Len(x.timers) \in Int
                BY <2>1
            <4> QED BY <3>1, <4>1, MaxOfInterval
        <3>3. I # {} => Max(I) \in 1..Len(x.timers)
            BY <3>1, <3>2
        <3> QED BY <2>1, <3>3
    <2>3. SelectLastInSeq(x.timers, LAMBDA u : u[1] = "stop") = k
        BY DEF SelectLastInSeq
    <2> HIDE DEF k
    <2>4. t \in Seq(Timer)
        BY <2>1, <2>2, RemoveAtType
    <2>5. CancelPendingStop(x) \in {[x EXCEPT !.timers = t, !.stop_pending = FALSE], x}
        BY <2>3 DEF CancelPendingStop
    <2> HIDE DEF t
    <2>6. [x EXCEPT !.timers = t, !.stop_pending = FALSE] \in Delivery
        BY <1>3, <2>4 DEF Delivery, Timer
    <2> QED BY <1>3, <2>5, <2>6
<1>4. event_start(e, v, mode, s) \in Delivery
    <2>1. [v EXCEPT !.delivery_mode_ = mode, !.seg_provider = s] \in Delivery
        BY DEF Delivery
    <2> QED BY <2>1, <1>1 DEF event_start
<1>7. event_active(v) \in Delivery
    BY DEF event_active, Delivery
<1>5. event_stop(e, v) \in Delivery
    <2>1. [v EXCEPT !.active_ = FALSE] \in Delivery
        BY DEF Delivery
    <2> QED BY <2>1, <1>2 DEF event_stop
<1>6. update_delivery_mode(e, v, mode, s) \in Delivery
    <2> DEFINE a == _stop_delivery(e, v)
               b == [a EXCEPT !.delivery_mode_ = mode, !.seg_provider = s]
               c == CancelPendingStop(b)
    <2>1. a \in Delivery
        BY <1>2
    <2> HIDE DEF a
    <2>2. b \in Delivery
        BY <2>1 DEF Delivery
    <2> HIDE DEF b
    <2>3. c \in Delivery
        BY <2>2, <1>3
    <2> HIDE DEF c
    <2>4. _start_delivery(e, c) \in Delivery
        BY <2>3, <1>1
    <2> QED BY <2>4 DEF update_delivery_mode, a, b, c
<1> QED BY <1>4, <1>5, <1>6, <1>7

\* The manager with other event states.
Delivering(q, f) == [q EXCEPT !.events_states_ = f]

LEMMA DeliveringChanges ==
    ASSUME NEW q \in ManagerType, NEW f \in [State -> Delivery]
    PROVE  LET r == Delivering(q, f)
           IN  /\ r \in ManagerType
               /\ Sinks(r) = Sinks(q) /\ Recs(r) = Recs(q) /\ Evts(r) = Evts(q)
               /\ Told(r) = Told(q)
BY DEF ManagerType, Delivery, Delivering, Sinks, Recs, Evts, Told

LEMMA CurrentMode == ASSUME NEW q PROVE _current_delivery_mode(q) \in Mode
BY DEF _current_delivery_mode, Mode

LEMMA StopAllChanges ==
    ASSUME NEW q \in ManagerType
    PROVE  LET r == _stop_all_event_streams(q)
           IN  /\ r \in ManagerType
               /\ Sinks(r) = Sinks(q) /\ Recs(r) = Recs(q) /\ Evts(r) = Evts(q)
               /\ Told(r) = Told(q)
<1> DEFINE v == q.events_states_
           f == [e \in State |-> IF e \in Stateful /\ v[e].active_ THEN event_stop(e, v[e])
                                 ELSE v[e]]
<1>1. v \in [State -> Delivery] /\ q.record_stream_ \in Stream
    BY Fields
<1>2. \A e \in State : event_stop(e, v[e]) \in Delivery
    BY <1>1, CurrentMode, DeliveryTypes
<1>3. f \in [State -> Delivery]
    BY <1>1, <1>2
<1>4. _stop_all_event_streams(q) = Delivering(q, f)
    BY DEF _stop_all_event_streams, Delivering
<1> HIDE DEF f
<1> QED BY <1>3, <1>4, DeliveringChanges

\* One event state becomes v.
LEMMA OneDelivery ==
    ASSUME NEW q \in ManagerType, NEW e \in State, NEW v \in Delivery
    PROVE  LET r == [q EXCEPT !.events_states_[e] = v]
           IN  /\ r \in ManagerType
               /\ Sinks(r) = Sinks(q) /\ Recs(r) = Recs(q) /\ Evts(r) = Evts(q)
               /\ Told(r) = Told(q)
<1> DEFINE f == [q.events_states_ EXCEPT ![e] = v]
<1>1. f \in [State -> Delivery]
    BY Fields
<1>2. [q EXCEPT !.events_states_[e] = v] = Delivering(q, f)
    BY DEF Delivering
<1> HIDE DEF f
<1>3. LET r == Delivering(q, f)
      IN  /\ r \in ManagerType
          /\ Sinks(r) = Sinks(q) /\ Recs(r) = Recs(q) /\ Evts(r) = Evts(q)
          /\ Told(r) = Told(q)
    BY <1>1, DeliveringChanges
<1> QED BY <1>2, <1>3
-----------------------------------------------------------------------------
(***************************************************************************)
(* The handlers. Each keeps the recording and the sinks in order.          *)
(***************************************************************************)

\* No record event is open without event-driven streaming, and no direct upload
\* recording is under way, during which on_stream_stop() does not close one.
Open(q) == q.record_event_depth_ > 0 /\ ~q.stream_by_event_
Quiet(q) == ~Open(q) /\ ~q.continuos_direct_record_

\* Whether there is event-driven recording, and on which streams.
By(q) == [s \in Stream |-> q.recording_status_[s].by_event]
Why(q) == <<q.record_by_event_, q.stream_by_event_, By(q)>>

Keeps(q, r) ==
    /\ r \in ManagerType
    /\ RecOK(q) => RecOK(r)
    /\ One /\ SinkOK(q) => SinkOK(r)

\* A handler that starts something,
StartKeeps(q, r) == Keeps(q, r) /\ (~Open(q) => ~Open(r))

\* and one that stops something, while it leaves event-driven recording as it is.
StopKeeps(q, r) == Keeps(q, r) /\ (Quiet(q) => Quiet(r)) /\ Why(r) = Why(q) /\ Told(r) = Told(q)

LEMMA KeepsChain ==
    ASSUME NEW q, NEW r, NEW t
    PROVE  /\ Keeps(q, r) /\ Keeps(r, t) => Keeps(q, t)
           /\ StartKeeps(q, r) /\ StartKeeps(r, t) => StartKeeps(q, t)
           /\ StopKeeps(q, r) /\ StopKeeps(r, t) => StopKeeps(q, t)
BY DEF Keeps, StartKeeps, StopKeeps

\* The groups of fields on which the parts of the invariant depend.
LEMMA SameGroups ==
    ASSUME NEW q, NEW r
    PROVE  /\ Recs(r) = Recs(q) => By(r) = By(q)
           /\ Reasons(r) = Reasons(q) => By(r) = By(q)
           /\ Sinks(r) = Sinks(q) => (SinkOK(q) => SinkOK(r))
           /\ Evts(r) = Evts(q) => /\ Open(r) = Open(q) /\ Quiet(r) = Quiet(q)
                                   /\ r.record_by_event_ = q.record_by_event_
                                   /\ r.stream_by_event_ = q.stream_by_event_
                                   /\ r.record_event_depth_ = q.record_event_depth_
                                   /\ r.continuos_direct_record_ = q.continuos_direct_record_
<1>1. Recs(r) = Recs(q) => By(r) = By(q)
    BY DEF Recs, By
<1>2. ASSUME Reasons(r) = Reasons(q) PROVE By(r) = By(q)
    BY <1>2, ReasonsEnable DEF By
<1>3. Sinks(r) = Sinks(q) => (SinkOK(q) => SinkOK(r))
    BY DEF Sinks, SinkOK
<1>4. ASSUME Evts(r) = Evts(q)
      PROVE  /\ Open(r) = Open(q) /\ Quiet(r) = Quiet(q)
             /\ r.record_by_event_ = q.record_by_event_
             /\ r.stream_by_event_ = q.stream_by_event_
             /\ r.record_event_depth_ = q.record_event_depth_
             /\ r.continuos_direct_record_ = q.continuos_direct_record_
    BY <1>4 DEF Evts, Open, Quiet
<1> QED BY <1>1, <1>2, <1>3, <1>4

\* A step on one group of fields.
LEMMA GroupKeeps ==
    ASSUME NEW q \in ManagerType, NEW r \in ManagerType,
           Recs(r) = Recs(q) \/ (Reasons(r) = Reasons(q) /\ (RecOK(q) => RecOK(r))),
           Sinks(r) = Sinks(q) \/ (One /\ SinkOK(q) => SinkOK(r)),
           Evts(r) = Evts(q)
    PROVE  /\ StartKeeps(q, r) /\ Why(r) = Why(q)
           /\ Told(r) = Told(q) => StopKeeps(q, r)
<1>1. RecOK(q) => RecOK(r)
    BY SameRecs
<1>2. By(r) = By(q)
    BY SameGroups
<1>3. One /\ SinkOK(q) => SinkOK(r)
    BY SameGroups
<1>4. /\ Open(r) = Open(q) /\ Quiet(r) = Quiet(q)
      /\ r.record_by_event_ = q.record_by_event_
      /\ r.stream_by_event_ = q.stream_by_event_
    BY SameGroups
<1> QED BY <1>1, <1>2, <1>3, <1>4 DEF StartKeeps, StopKeeps, Keeps, Why

LEMMA RefusedKeeps ==
    ASSUME NEW q \in ManagerType
    PROVE  StartKeeps(q, Refused(q)) /\ Why(Refused(q)) = Why(q)
<1> DEFINE r == Refused(q)
<1>1. /\ r \in ManagerType
      /\ Recs(r) = Recs(q) /\ Sinks(r) = Sinks(q) /\ Evts(r) = Evts(q)
    BY DEF Refused, ManagerType, Recs, Sinks, Evts
<1> HIDE DEF r
<1>2. StartKeeps(q, r) /\ Why(r) = Why(q)
    BY <1>1, GroupKeeps
<1> QED BY <1>2 DEF r

LEMMA StartLiveKeeps ==
    ASSUME NEW q \in ManagerType, NEW s \in Stream, NEW o \in Answers
    PROVE  LET r == StartLive(q, s, o) IN StartKeeps(q, r) /\ Why(r) = Why(q)
<1> DEFINE a == start(q, s, o)
           b == start_sink(a, s, o)
           c == Refused(a)
<1>0. a \in ManagerType
    BY StartChanges
<1>1. StartKeeps(q, a) /\ Why(a) = Why(q)
    BY StartChanges, GroupKeeps
<1>5. StartLive(q, s, o) = IF a.source_started_[s] THEN b ELSE c
    BY DEF StartLive
<1> HIDE DEF a
<1>2. StartKeeps(a, c) /\ Why(c) = Why(a)
    BY <1>0, RefusedKeeps
<1>3. ASSUME a.source_started_[s] PROVE StartKeeps(a, b) /\ Why(b) = Why(a)
    <2>1. /\ b \in ManagerType /\ Recs(b) = Recs(a) /\ Evts(b) = Evts(a)
          /\ One /\ SinkOK(a) => SinkOK(b)
        BY <1>0, <1>3, StartSinkChanges
    <2> HIDE DEF b
    <2> QED BY <1>0, <2>1, GroupKeeps
<1> HIDE DEF b, c
<1> QED BY <1>1, <1>2, <1>3, <1>5, KeepsChain

\* The number of record events that are open.
LEMMA NotifyChanges ==
    ASSUME NEW q \in ManagerType, NEW on \in BOOLEAN
    PROVE  LET r == __notify_record_event(q, on)
           IN  /\ r \in ManagerType
               /\ Recs(r) = Recs(q) /\ Sinks(r) = Sinks(q) /\ Told(r) = Told(q)
               /\ r.record_by_event_ = q.record_by_event_
               /\ r.stream_by_event_ = q.stream_by_event_
               /\ r.continuos_direct_record_ = q.continuos_direct_record_
               /\ ~on /\ q.record_event_depth_ <= 1 => r.record_event_depth_ = 0
<1> DEFINE d == q.record_event_depth_
           n == IF on THEN d + 1 ELSE IF d = 0 THEN 0 ELSE d - 1
           r == [q EXCEPT !.record_event_depth_ = n]
<1>0. d \in Nat
    BY Fields
<1>1. n \in Nat /\ (~on /\ d <= 1 => n = 0)
    BY <1>0
<1>2. __notify_record_event(q, on) = r
    BY DEF __notify_record_event
<1> HIDE DEF n
<1>3. /\ r \in ManagerType
      /\ Recs(r) = Recs(q) /\ Sinks(r) = Sinks(q) /\ Told(r) = Told(q)
      /\ r.record_by_event_ = q.record_by_event_
      /\ r.stream_by_event_ = q.stream_by_event_
      /\ r.continuos_direct_record_ = q.continuos_direct_record_
      /\ r.record_event_depth_ = n
    BY <1>1 DEF ManagerType, Recs, Sinks, Told
<1> QED BY <1>1, <1>2, <1>3

\* A record event is counted only while events are streamed.
LEMMA NotifyKeeps ==
    ASSUME NEW q \in ManagerType, NEW on \in BOOLEAN
    PROVE  LET r == IF q.stream_by_event_ THEN __notify_record_event(q, on) ELSE q
           IN  StartKeeps(q, r) /\ StopKeeps(q, r) /\ r.source_started_ = q.source_started_
<1> DEFINE r == __notify_record_event(q, on)
<1>1. StartKeeps(q, q) /\ StopKeeps(q, q)
    BY DEF StartKeeps, StopKeeps, Keeps
<1>2. CASE q.stream_by_event_
    <2>1. /\ r \in ManagerType
          /\ Recs(r) = Recs(q) /\ Sinks(r) = Sinks(q) /\ Told(r) = Told(q)
          /\ r.record_by_event_ = q.record_by_event_
          /\ r.stream_by_event_ = q.stream_by_event_
          /\ r.continuos_direct_record_ = q.continuos_direct_record_
        BY NotifyChanges
    <2> HIDE DEF r
    <2>2. ~Open(r) /\ (Quiet(q) => Quiet(r))
        BY <1>2, <2>1 DEF Open, Quiet
    <2>3. (RecOK(q) => RecOK(r)) /\ By(r) = By(q) /\ (SinkOK(q) => SinkOK(r))
        BY <2>1, SameRecs, SameGroups
    <2>4. r.source_started_ = q.source_started_
        BY <2>1 DEF Sinks
    <2>5. StartKeeps(q, r) /\ StopKeeps(q, r)
        BY <2>1, <2>2, <2>3 DEF StartKeeps, StopKeeps, Keeps, Why
    <2> QED BY <1>2, <2>4, <2>5 DEF r
<1> QED BY <1>1, <1>2

LEMMA StartRecordKeeps ==
    ASSUME NEW q \in ManagerType, NEW s \in Stream, NEW o \in Answers
    PROVE  LET r == StartRecord(q, s, o) IN StartKeeps(q, r) /\ Why(r) = Why(q)
<1> DEFINE a == start(q, s, o)
           b == IF a.stream_by_event_ THEN __notify_record_event(a, TRUE) ELSE a
           c == start_sink(b, s, o)
           d == [c EXCEPT !.record_stream_ = s]
           x == Refused(a)
<1>0. a \in ManagerType
    BY StartChanges
<1>1. StartKeeps(q, a) /\ Why(a) = Why(q)
    BY StartChanges, GroupKeeps
<1>5. StartRecord(q, s, o) = IF ~a.source_started_[s] THEN x ELSE IF c.result THEN d ELSE c
    BY DEF StartRecord
<1> HIDE DEF a
<1>2. StartKeeps(a, x) /\ Why(x) = Why(a)
    BY <1>0, RefusedKeeps
<1>t. TRUE \in BOOLEAN
    OBVIOUS
<1>3. StartKeeps(a, b) /\ StopKeeps(a, b) /\ b.source_started_ = a.source_started_
    BY <1>0, <1>t, NotifyKeeps
<1> HIDE DEF b
<1>4. b \in ManagerType /\ Why(b) = Why(a)
    BY <1>3 DEF StartKeeps, StopKeeps, Keeps
<1>6. c \in ManagerType /\ Recs(c) = Recs(b) /\ Evts(c) = Evts(b)
    BY <1>4, StartSinkChanges
<1>7. ASSUME a.source_started_[s] PROVE StartKeeps(b, c) /\ Why(c) = Why(b)
    <2>1. One /\ SinkOK(b) => SinkOK(c)
        BY <1>3, <1>4, <1>7, StartSinkChanges
    <2> HIDE DEF c
    <2> QED BY <1>4, <1>6, <2>1, GroupKeeps
<1> HIDE DEF c
<1>8. StartKeeps(c, d) /\ Why(d) = Why(c)
    <2>1. /\ d \in ManagerType
          /\ Recs(d) = Recs(c) /\ Sinks(d) = Sinks(c) /\ Evts(d) = Evts(c)
        BY <1>6 DEF ManagerType, Recs, Sinks, Evts
    <2> HIDE DEF d
    <2> QED BY <1>6, <2>1, GroupKeeps
<1> HIDE DEF d, x
<1>9. CASE ~a.source_started_[s]
    BY <1>1, <1>2, <1>5, <1>9, KeepsChain
<1>10. CASE a.source_started_[s]
    <2>1. StartKeeps(q, b)
        BY <1>1, <1>3, KeepsChain
    <2>2. StartKeeps(q, c)
        BY <1>7, <1>10, <2>1, KeepsChain
    <2>3. StartKeeps(q, d)
        BY <1>8, <2>2, KeepsChain
    <2> QED BY <1>1, <1>4, <1>5, <1>7, <1>8, <1>10, <2>2, <2>3
<1> QED BY <1>9, <1>10
-----------------------------------------------------------------------------
\* The truth values, under a name that the provers do not take apart.
Truth == BOOLEAN

\* The reasons to record stream s become p, b and d.
Reason(q, s, p, b, d) ==
    [q EXCEPT !.recording_status_[s] = [permanent |-> p, by_event |-> b, direct_upload |-> d,
                                        started |-> q.recording_status_[s].started]]

\* A status with another reason, field by field.
LEMMA StatusExcept ==
    ASSUME NEW x \in Status, NEW b \in BOOLEAN
    PROVE  /\ [x EXCEPT !.by_event = b] =
                  [permanent |-> x.permanent, by_event |-> b,
                   direct_upload |-> x.direct_upload, started |-> x.started]
           /\ [x EXCEPT !.permanent = b] =
                  [permanent |-> b, by_event |-> x.by_event,
                   direct_upload |-> x.direct_upload, started |-> x.started]
           /\ [x EXCEPT !.direct_upload = b] =
                  [permanent |-> x.permanent, by_event |-> x.by_event,
                   direct_upload |-> b, started |-> x.started]
BY DEF Status

LEMMA SetReason ==
    ASSUME NEW q \in ManagerType, NEW s \in Stream,
           NEW p \in Truth, NEW b \in Truth, NEW d \in Truth
    PROVE  LET r == Reason(q, s, p, b, d)
           IN  /\ r \in ManagerType
               /\ Sinks(r) = Sinks(q) /\ Evts(r) = Evts(q) /\ Told(r) = Told(q)
               /\ r.record_stream_ = q.record_stream_
               /\ r.recording = q.recording
               /\ r.recording_status_[s].started = q.recording_status_[s].started
               /\ Enabled(r, s) = (p \/ b \/ d)
               /\ By(r)[s] = b /\ Reasons(r)[s] = <<p, b, d>>
               /\ (b = q.recording_status_[s].by_event) => By(r) = By(q)
               /\ \A z \in Stream : z # s => (RecAt(q, z) => RecAt(r, z))
               /\ RecOK(q) /\ (Enabled(q, s) => p \/ b \/ d) => RecOK(r)
<1> DEFINE v == [permanent |-> p, by_event |-> b, direct_upload |-> d,
                 started |-> q.recording_status_[s].started]
           g == [q.recording_status_ EXCEPT ![s] = v]
           r == [q EXCEPT !.recording_status_ = g]
<1>0. q.recording_status_ \in [Stream -> Status]
    BY Fields
<1>1. /\ v \in Status /\ v.started = q.recording_status_[s].started
      /\ v.permanent = p /\ v.by_event = b /\ v.direct_upload = d
    BY <1>0 DEF Status, Truth
<1>2. Reason(q, s, p, b, d) = r
    BY DEF Reason
<1> HIDE DEF v
<1>3. /\ g \in [Stream -> Status] /\ g[s] = v
      /\ \A z \in Stream : z # s => g[z] = q.recording_status_[z]
    BY <1>0, <1>1
<1> HIDE DEF g
<1>4. r \in ManagerType
    BY <1>3 DEF ManagerType, Status
<1>5. /\ Sinks(r) = Sinks(q) /\ Evts(r) = Evts(q) /\ Told(r) = Told(q)
      /\ r.record_stream_ = q.record_stream_
      /\ r.recording = q.recording /\ r.recording_status_ = g
    BY DEF ManagerType, Sinks, Evts, Told
<1> HIDE DEF r
<1>6. Enabled(r, s) = (p \/ b \/ d)
    BY <1>1, <1>3, <1>5 DEF Enabled, Truth
<1>7. By(r)[s] = b /\ (b = q.recording_status_[s].by_event => By(r) = By(q))
    BY <1>1, <1>3, <1>5 DEF By
<1>10. Reasons(r)[s] = <<p, b, d>>
    BY <1>1, <1>3, <1>5 DEF Reasons
<1>8. \A z \in Stream : z # s => (RecAt(q, z) => RecAt(r, z))
    BY <1>3, <1>5 DEF RecAt, Enabled
<1>9. ASSUME RecOK(q), Enabled(q, s) => p \/ b \/ d PROVE RecOK(r)
    <2>1. RecAt(r, s)
        BY <1>1, <1>3, <1>5, <1>6, <1>9 DEF RecOK, RecAt
    <2> QED BY <1>8, <1>9, <2>1 DEF RecOK
<1> QED BY <1>1, <1>2, <1>3, <1>4, <1>5, <1>6, <1>7, <1>8, <1>9, <1>10

\* What is recorded by event, streamed by event or uploaded directly, and where.
Driven(q, s, x, y, c) ==
    [q EXCEPT !.record_stream_ = s, !.record_by_event_ = x, !.stream_by_event_ = y,
              !.continuos_direct_record_ = c]

LEMMA SetDriven ==
    ASSUME NEW q \in ManagerType, NEW s \in Stream,
           NEW x \in Truth, NEW y \in Truth, NEW c \in Truth
    PROVE  LET r == Driven(q, s, x, y, c)
           IN  /\ r \in ManagerType
               /\ Sinks(r) = Sinks(q) /\ Recs(r) = Recs(q) /\ Told(r) = Told(q)
               /\ r.record_by_event_ = x /\ r.stream_by_event_ = y
               /\ r.continuos_direct_record_ = c
               /\ r.record_event_depth_ = q.record_event_depth_
               /\ Keeps(q, r) /\ By(r) = By(q)
<1> DEFINE r == Driven(q, s, x, y, c)
<1>1. /\ r \in ManagerType
      /\ Sinks(r) = Sinks(q) /\ Recs(r) = Recs(q) /\ Told(r) = Told(q)
      /\ r.record_by_event_ = x /\ r.stream_by_event_ = y
      /\ r.continuos_direct_record_ = c
      /\ r.record_event_depth_ = q.record_event_depth_
    BY DEF Driven, ManagerType, Sinks, Recs, Told, Truth
<1> HIDE DEF r
<1>2. Keeps(q, r) /\ By(r) = By(q)
    BY <1>1, SameRecs, SameGroups DEF Keeps
<1> QED BY <1>1, <1>2 DEF r

\* Event-driven recording starts: the manager answers as before and remembers it,
\* or refuses and leaves what is recorded by event as it was, or its source fails.
LEMMA StartByEventKeeps ==
    ASSUME NEW q \in ManagerType, NEW s \in Stream, NEW o \in Answers, card \in BOOLEAN
    PROVE  LET r == StartRecordByEvent(q, s, o)
           IN  /\ StartKeeps(q, r)
               /\ o.source => \/ Why(r) = Why(q)
                              \/ /\ Told(r) = Told(q)
                                 /\ r.record_by_event_ \/ r.stream_by_event_
<1> DEFINE w == _update_storage_status(q, o)
           a == [w EXCEPT !.recording_status_[s].by_event = TRUE]
           x == w.recording_status_[s]
           p == x.permanent
           d == x.direct_upload
           b == IF NeedsSource THEN start(a, s, o) ELSE a
           f == _start_recording(b, s, o)
           c == [f EXCEPT !.record_stream_ = s, !.record_by_event_ = TRUE]
           g == [a EXCEPT !.record_stream_ = s, !.stream_by_event_ = TRUE]
           t == TRUE
<1>r. \/ Event \cup Pulse = {} /\ StartRecordByEvent(q, s, o) = Refused(q)
      \/ StartRecordByEvent(q, s, o) = g
      \/ ~b.source_started_[s] /\ NeedsSource /\ StartRecordByEvent(q, s, o) = Refused(b)
      \/ StartRecordByEvent(q, s, o) = c
    BY DEF StartRecordByEvent
<1>t. t \in Truth
    BY DEF Truth
<1>u. t
    OBVIOUS
<1>1. /\ w \in ManagerType
      /\ Sinks(w) = Sinks(q) /\ Evts(w) = Evts(q) /\ Told(w) = Told(q)
      /\ Reasons(w) = Reasons(q) /\ (RecOK(q) => RecOK(w))
    BY StorageChanges
<1> HIDE DEF w
<1>2. StartKeeps(q, w) /\ Told(w) = Told(q)
    BY <1>1, GroupKeeps
<1>3. p \in Truth /\ d \in Truth /\ a = Reason(w, s, p, t, d)
    <2>1. w.recording_status_ \in [Stream -> Status] /\ x \in Status
        BY <1>1, Fields
    <2>2. [x EXCEPT !.by_event = t] = [permanent |-> p, by_event |-> t, direct_upload |-> d,
                                       started |-> x.started]
        <3> HIDE DEF x, t
        <3> QED BY <1>t, <2>1, StatusExcept DEF Truth
    <2>3. a = [w EXCEPT !.recording_status_[s] = [x EXCEPT !.by_event = t]]
        OBVIOUS
    <2>4. p \in Truth /\ d \in Truth
        BY <2>1 DEF Status, Truth
    <2> QED BY <2>2, <2>3, <2>4 DEF Reason
<1>4. /\ a \in ManagerType
      /\ Sinks(a) = Sinks(w) /\ Evts(a) = Evts(w) /\ Told(a) = Told(w)
      /\ RecOK(w) => RecOK(a)
    <2> HIDE DEF a, p, d, t
    <2> DEFINE r == Reason(w, s, p, t, d)
    <2>1. /\ r \in ManagerType
          /\ Sinks(r) = Sinks(w) /\ Evts(r) = Evts(w) /\ Told(r) = Told(w)
        BY <1>1, <1>t, <1>3, SetReason
    <2>2. RecOK(w) /\ (Enabled(w, s) => p \/ t \/ d) => RecOK(r)
        BY <1>1, <1>t, <1>3, SetReason
    <2> HIDE DEF r
    <2>3. a = r
        BY <1>3 DEF r
    <2> QED BY <1>u, <2>1, <2>2, <2>3
<1> HIDE DEF a
<1>5. StartKeeps(w, a)
    BY <1>1, <1>4, SameGroups DEF StartKeeps, Keeps
<1>6. /\ b \in ManagerType /\ StartKeeps(a, b) /\ Told(b) = Told(a)
      /\ NeedsSource /\ o.source => b.source_started_[s]
    <2> DEFINE z == start(a, s, o)
    <2>1. /\ z \in ManagerType
          /\ Recs(z) = Recs(a) /\ Evts(z) = Evts(a) /\ Told(z) = Told(a)
          /\ SinkOK(a) => SinkOK(z)
          /\ o.source => z.source_started_[s]
        BY <1>4, StartChanges
    <2> HIDE DEF z
    <2>2. StartKeeps(a, z)
        BY <1>4, <2>1, GroupKeeps
    <2>3. StartKeeps(a, a)
        BY <1>4 DEF StartKeeps, Keeps
    <2> QED BY <1>4, <2>1, <2>2, <2>3 DEF z
<1> HIDE DEF b
<1>7. f \in ManagerType /\ StartKeeps(b, f) /\ Told(f) = Told(b)
    <2>1. /\ f \in ManagerType
          /\ Sinks(f) = Sinks(b) /\ Evts(f) = Evts(b) /\ Told(f) = Told(b)
          /\ Reasons(f) = Reasons(b) /\ (RecOK(b) => RecOK(f))
        BY <1>6, StartRecordingChanges
    <2> HIDE DEF f
    <2> QED BY <1>6, <2>1, GroupKeeps
<1> HIDE DEF f
<1>8. /\ c \in ManagerType /\ StartKeeps(f, c) /\ Told(c) = Told(f) /\ c.record_by_event_
    <2> DEFINE k == f.stream_by_event_
               y == f.continuos_direct_record_
    <2>1. k \in Truth /\ y \in Truth
        BY <1>7 DEF ManagerType, Truth
    <2>3. c = Driven(f, s, t, k, y)
        BY <1>7 DEF ManagerType, Driven
    <2> DEFINE r == Driven(f, s, t, k, y)
    <2> HIDE DEF k, y, t, c
    <2>2. /\ r \in ManagerType
          /\ Told(r) = Told(f) /\ Keeps(f, r)
          /\ r.record_by_event_ = t /\ r.stream_by_event_ = k
          /\ r.record_event_depth_ = f.record_event_depth_
        BY <1>7, <1>t, <2>1, SetDriven
    <2> QED BY <1>u, <2>2, <2>3 DEF StartKeeps, Open, k
<1>9. /\ g \in ManagerType /\ StartKeeps(a, g) /\ Told(g) = Told(a) /\ g.stream_by_event_
    <2> DEFINE k == a.record_by_event_
               y == a.continuos_direct_record_
    <2>1. k \in Truth /\ y \in Truth
        BY <1>4 DEF ManagerType, Truth
    <2>3. g = Driven(a, s, k, t, y)
        BY <1>4 DEF ManagerType, Driven
    <2> DEFINE r == Driven(a, s, k, t, y)
    <2> HIDE DEF k, y, t, g
    <2>2. /\ r \in ManagerType
          /\ Told(r) = Told(a) /\ Keeps(a, r)
          /\ r.stream_by_event_ = t
        BY <1>4, <1>t, <2>1, SetDriven
    <2> QED BY <1>u, <2>2, <2>3 DEF StartKeeps, Open
<1> HIDE DEF c, g, t
<1>11. StartKeeps(q, a) /\ StartKeeps(q, b) /\ StartKeeps(q, c) /\ StartKeeps(q, g)
    <2>1. StartKeeps(q, a)
        BY <1>2, <1>5, KeepsChain
    <2>2. StartKeeps(q, b)
        BY <1>6, <2>1, KeepsChain
    <2>3. StartKeeps(q, f)
        BY <1>7, <2>2, KeepsChain
    <2>4. StartKeeps(q, c)
        BY <1>8, <2>3, KeepsChain
    <2> QED BY <1>9, <2>1, <2>2, <2>4, KeepsChain
<1> DEFINE r == StartRecordByEvent(q, s, o)
<1>12. CASE r = Refused(q)
    BY <1>12, RefusedKeeps
<1>13. CASE r = g
    BY <1>2, <1>4, <1>9, <1>11, <1>13
<1>14. CASE ~b.source_started_[s] /\ NeedsSource /\ r = Refused(b)
    <2>1. StartKeeps(b, Refused(b))
        BY <1>6, RefusedKeeps
    <2>2. StartKeeps(q, r)
        BY <1>11, <1>14, <2>1, KeepsChain
    <2>3. ~o.source
        BY <1>6, <1>14
    <2> QED BY <2>2, <2>3
<1>15. CASE r = c
    BY <1>2, <1>4, <1>6, <1>7, <1>8, <1>11, <1>15
<1> HIDE DEF r
<1> QED BY <1>r, <1>12, <1>13, <1>14, <1>15 DEF r

LEMMA StartDirectKeeps ==
    ASSUME NEW q \in ManagerType, NEW s \in Stream, NEW o \in Answers, card \in BOOLEAN
    PROVE  LET r == StartRecordDirect(q, s, o) IN StartKeeps(q, r) /\ Why(r) = Why(q)
<1> DEFINE a == _update_storage_status(q, o)
           b == [a EXCEPT !.continuos_direct_record_ = TRUE,
                          !.recording_status_[s].direct_upload = TRUE,
                          !.record_stream_ = s]
           c == _start_recording(b, s, o)
           v == event_start(Direct, event_active(c.events_states_[Direct]), "SDM_UPLOAD", s)
           d == [c EXCEPT !.events_states_[Direct] = v]
           e == StartRecord(a, s, o)
           t == TRUE
<1>0. StartRecordDirect(q, s, o) \in {d, e}
    BY DEF StartRecordDirect
<1>t. t \in Truth
    BY DEF Truth
<1>u. t
    OBVIOUS
<1>1. /\ a \in ManagerType
      /\ Sinks(a) = Sinks(q) /\ Evts(a) = Evts(q) /\ Told(a) = Told(q)
      /\ Reasons(a) = Reasons(q) /\ (RecOK(q) => RecOK(a))
    BY StorageChanges
<1> HIDE DEF a
<1>2. StartKeeps(q, a) /\ Why(a) = Why(q)
    BY <1>1, GroupKeeps
<1>3. StartKeeps(a, e) /\ Why(e) = Why(a)
    BY <1>1, StartRecordKeeps
<1> HIDE DEF e
<1>4. b \in ManagerType /\ StartKeeps(a, b) /\ Why(b) = Why(a)
    <2> DEFINE x == a.recording_status_[s]
               p == x.permanent
               y == x.by_event
               k == a.record_by_event_
               l == a.stream_by_event_
               h == Reason(a, s, p, y, t)
               g == Driven(h, s, k, l, t)
    <2>1. a.recording_status_ \in [Stream -> Status] /\ x \in Status
        BY <1>1, Fields
    <2>2. p \in Truth /\ y \in Truth
        BY <2>1 DEF Status, Truth
    <2>3. [x EXCEPT !.direct_upload = t] = [permanent |-> p, by_event |-> y, direct_upload |-> t,
                                            started |-> x.started]
        <3> HIDE DEF x, t
        <3> QED BY <1>t, <2>1, StatusExcept DEF Truth
    <2>4. h = [a EXCEPT !.recording_status_[s] = [x EXCEPT !.direct_upload = t]]
        BY <2>3 DEF Reason
    <2>5. k \in Truth /\ l \in Truth
        BY <1>1, Fields DEF Truth
    <2>6. b = g
        BY <1>1, <2>4 DEF ManagerType, Driven
    <2> HIDE DEF x, p, y, t, b, k, l
    <2>7. /\ h \in ManagerType
          /\ Sinks(h) = Sinks(a) /\ Evts(h) = Evts(a)
        BY <1>1, <1>t, <2>2, SetReason
    <2>8. (y = a.recording_status_[s].by_event) => By(h) = By(a)
        BY <1>1, <1>t, <2>2, SetReason
    <2>9. RecOK(a) /\ (Enabled(a, s) => p \/ y \/ t) => RecOK(h)
        BY <1>1, <1>t, <2>2, SetReason
    <2> HIDE DEF h
    <2>10. By(h) = By(a) /\ (RecOK(a) => RecOK(h))
        BY <1>u, <2>8, <2>9 DEF x, y
    <2>11. /\ g \in ManagerType /\ Keeps(h, g) /\ By(g) = By(h)
           /\ g.record_by_event_ = k /\ g.stream_by_event_ = l
           /\ g.record_event_depth_ = h.record_event_depth_
        BY <1>t, <2>5, <2>7, SetDriven
    <2> HIDE DEF g
    <2>12. StartKeeps(a, h) /\ h.record_event_depth_ = a.record_event_depth_
        BY <2>7, <2>10, SameGroups DEF StartKeeps, Keeps
    <2>13. Open(g) = Open(a) /\ Why(g) = Why(a)
        BY <2>10, <2>11, <2>12 DEF Open, Why, k, l
    <2> QED BY <2>6, <2>11, <2>12, <2>13, KeepsChain DEF StartKeeps
<1> HIDE DEF b
<1>5. c \in ManagerType /\ StartKeeps(b, c) /\ Why(c) = Why(b)
    <2>1. /\ c \in ManagerType
          /\ Sinks(c) = Sinks(b) /\ Evts(c) = Evts(b) /\ Told(c) = Told(b)
          /\ Reasons(c) = Reasons(b) /\ (RecOK(b) => RecOK(c))
        BY <1>4, StartRecordingChanges
    <2> HIDE DEF c
    <2> QED BY <1>4, <2>1, GroupKeeps
<1> HIDE DEF c
<1>6. StartKeeps(c, d) /\ Why(d) = Why(c)
    <2>1. v \in Delivery /\ Direct \in State
        <3>1. Direct \in State /\ "SDM_UPLOAD" \in Mode
            BY DEF State, Mode
        <3>2. c.events_states_[Direct] \in Delivery
            BY <1>5, <3>1, Fields
        <3> QED BY <3>1, <3>2, DeliveryTypes
    <2> HIDE DEF v
    <2>2. /\ d \in ManagerType
          /\ Sinks(d) = Sinks(c) /\ Recs(d) = Recs(c) /\ Evts(d) = Evts(c)
        BY <1>5, <2>1, OneDelivery
    <2> HIDE DEF d
    <2> QED BY <1>5, <2>2, GroupKeeps
<1> HIDE DEF d
<1>7. StartKeeps(q, e) /\ Why(e) = Why(q)
    BY <1>2, <1>3, KeepsChain
<1>8. StartKeeps(q, d) /\ Why(d) = Why(q)
    <2>1. StartKeeps(q, b)
        BY <1>2, <1>4, KeepsChain
    <2>2. StartKeeps(q, c)
        BY <1>5, <2>1, KeepsChain
    <2> QED BY <1>2, <1>4, <1>5, <1>6, <2>2, KeepsChain
<1> QED BY <1>0, <1>7, <1>8

LEMMA StreamStartKeeps ==
    ASSUME NEW q \in ManagerType, NEW s \in Stream, NEW reason \in ReasonKind,
           NEW o \in Answers, card \in BOOLEAN
    PROVE  LET r == on_stream_start(q, s, reason, o)
           IN  /\ StartKeeps(q, r)
               /\ reason # "RECORD_BY_EVENT" => Why(r) = Why(q)
               /\ o.source => \/ Why(r) = Why(q)
                              \/ /\ Told(r) = Told(q)
                                 /\ r.record_by_event_ \/ r.stream_by_event_
<1>1. CASE reason = "LIVE"
    BY <1>1, StartLiveKeeps DEF on_stream_start
<1>2. CASE reason = "RECORD"
    BY <1>2, StartRecordKeeps DEF on_stream_start
<1>3. CASE reason = "RECORD_BY_EVENT"
    BY <1>3, StartByEventKeeps DEF on_stream_start
<1>4. CASE reason = "RECORD_DIRECT"
    BY <1>4, StartDirectKeeps DEF on_stream_start
<1> QED BY <1>1, <1>2, <1>3, <1>4 DEF ReasonKind
-----------------------------------------------------------------------------
(* on_stream_stop() *)

LEMMA StopLiveKeeps ==
    ASSUME NEW q \in ManagerType, NEW s \in Stream
    PROVE  StopKeeps(q, StopLive(q, s)) /\ Evts(StopLive(q, s)) = Evts(q)
<1> DEFINE a == drop_sink(q, s)
           b == stop_idle_source(a, s)
<1>1. /\ a \in ManagerType
      /\ Recs(a) = Recs(q) /\ Evts(a) = Evts(q) /\ Told(a) = Told(q)
      /\ One /\ SinkOK(q) => SinkOK(a)
    BY DropSinkChanges
<1>2. b = StopLive(q, s)
    BY DEF StopLive
<1> HIDE DEF a
<1>3. /\ b \in ManagerType
      /\ Recs(b) = Recs(a) /\ Evts(b) = Evts(a) /\ Told(b) = Told(a)
      /\ One /\ SinkOK(a) => SinkOK(b)
    BY <1>1, StopSourceChanges
<1> HIDE DEF b
<1>4. StopKeeps(q, a) /\ StopKeeps(a, b)
    BY <1>1, <1>3, GroupKeeps
<1> QED BY <1>1, <1>2, <1>3, <1>4, KeepsChain

LEMMA StopServerKeeps ==
    ASSUME NEW q \in ManagerType, NEW s \in Stream
    PROVE  StopKeeps(q, StopServerByEvent(q, s))
<1> DEFINE f == FALSE
           a == IF q.stream_by_event_ THEN __notify_record_event(q, f) ELSE q
           b == StopLive(a, s)
<1>1. b = StopServerByEvent(q, s)
    BY DEF StopServerByEvent, StopLive
<1>2. f \in BOOLEAN
    OBVIOUS
<1> HIDE DEF f
<1>3. StopKeeps(q, a)
    BY <1>2, NotifyKeeps
<1> HIDE DEF a
<1>4. a \in ManagerType
    BY <1>3 DEF StopKeeps, Keeps
<1>5. StopKeeps(a, b)
    BY <1>4, StopLiveKeeps
<1> QED BY <1>1, <1>3, <1>5, KeepsChain

LEMMA StopDirectKeeps ==
    ASSUME NEW q \in ManagerType, NEW s \in Stream
    PROVE  StopKeeps(q, StopRecordDirect(q, s))
<1> DEFINE v == event_stop(Direct, q.events_states_[Direct])
           x == q.recording_status_[s]
           p == x.permanent
           b == x.by_event
           k == q.record_by_event_
           l == q.stream_by_event_
           z == q.record_stream_
           f == FALSE
           g == [q EXCEPT !.events_states_[Direct] = v]
           h == Reason(g, s, p, b, f)
           a == Driven(h, z, k, l, f)
           c == _stop_recording(a, s, f)
           d == stop_idle_source(c, s)
<1>f. f \in Truth /\ f \in BOOLEAN /\ ~f
    BY DEF Truth
<1>1. v \in Delivery /\ Direct \in State
    <2>1. Direct \in State /\ "SDM_UPLOAD" \in Mode
        BY DEF State, Mode
    <2>2. q.events_states_[Direct] \in Delivery
        BY <2>1, Fields
    <2> QED BY <2>1, <2>2, StreamAssumption, DeliveryTypes
<1>2. /\ g \in ManagerType
      /\ Sinks(g) = Sinks(q) /\ Recs(g) = Recs(q) /\ Evts(g) = Evts(q) /\ Told(g) = Told(q)
    <2> HIDE DEF v
    <2> QED BY <1>1, OneDelivery
<1>3. x \in Status /\ p \in Truth /\ b \in Truth /\ k \in Truth /\ l \in Truth /\ z \in Stream
    <2>1. x \in Status
        BY Fields
    <2>2. p \in Truth /\ b \in Truth
        BY <2>1 DEF Status, Truth
    <2> QED BY <2>1, <2>2, Fields DEF Truth
<1>4. StopRecordDirect(q, s) = d
    <2>1. g.recording_status_ = q.recording_status_
        BY <1>2 DEF Recs
    <2>2. [x EXCEPT !.direct_upload = f] = [permanent |-> p, by_event |-> b, direct_upload |-> f,
                                            started |-> x.started]
        <3> HIDE DEF x, f
        <3> QED BY <1>f, <1>3, StatusExcept
    <2>3. h = [g EXCEPT !.recording_status_[s] = [x EXCEPT !.direct_upload = f]]
        BY <2>1, <2>2 DEF Reason
    <2> DEFINE w == [q EXCEPT !.events_states_[Direct] = v,
                              !.continuos_direct_record_ = f,
                              !.recording_status_[s].direct_upload = f]
    <2>4. a = w
        <3> HIDE DEF v
        <3> QED BY <2>3 DEF ManagerType, Driven
    <2>5. StopRecordDirect(q, s) = stop_idle_source(_stop_recording(w, s, FALSE), s)
        BY DEF StopRecordDirect
    <2> QED BY <2>4, <2>5
<1>5. /\ h \in ManagerType
      /\ Sinks(h) = Sinks(g) /\ Evts(h) = Evts(g) /\ Told(h) = Told(g)
      /\ h.recording = g.recording
      /\ h.recording_status_[s].started = g.recording_status_[s].started
      /\ \A y \in Stream : y # s => (RecAt(g, y) => RecAt(h, y))
    <2> HIDE DEF g, p, b, f
    <2> QED BY <1>f, <1>2, <1>3, SetReason
<1>6. By(h) = By(g)
    <2>1. g.recording_status_ = q.recording_status_
        BY <1>2 DEF Recs
    <2>2. b = g.recording_status_[s].by_event
        BY <2>1
    <2> HIDE DEF g, p, b, f
    <2>3. g \in ManagerType /\ p \in Truth /\ b \in Truth /\ f \in Truth
        BY <1>f, <1>2, <1>3
    <2>4. (b = g.recording_status_[s].by_event) => By(h) = By(g)
        BY <2>3, SetReason
    <2> QED BY <2>2, <2>4
<1> HIDE DEF h
<1>7. /\ a \in ManagerType
      /\ Sinks(a) = Sinks(h) /\ Recs(a) = Recs(h) /\ Told(a) = Told(h)
      /\ a.record_by_event_ = k /\ a.stream_by_event_ = l
      /\ a.continuos_direct_record_ = f
      /\ a.record_event_depth_ = h.record_event_depth_
      /\ By(a) = By(h)
    <2> HIDE DEF k, l, z, f
    <2> QED BY <1>f, <1>3, <1>5, SetDriven
<1> HIDE DEF a
<1>8. ASSUME RecOK(q)
      PROVE  /\ \A y \in Stream : y # s => RecAt(a, y)
             /\ Knows(a, s)
    <2>1. RecOK(g)
        BY <1>2, <1>8, SameRecs
    <2>2. \A y \in Stream : y # s => RecAt(h, y)
        BY <1>5, <2>1 DEF RecOK
    <2>3. Knows(h, s)
        BY <1>5, <2>1 DEF RecOK, RecAt, Knows
    <2> QED BY <1>7, <2>2, <2>3 DEF Recs, RecAt, Knows, Enabled
<1> HIDE DEF g
<1>9. /\ c \in ManagerType
      /\ Sinks(c) = Sinks(a) /\ Evts(c) = Evts(a) /\ Told(c) = Told(a)
      /\ Reasons(c) = Reasons(a) /\ (RecOK(q) => RecOK(c))
    <2> HIDE DEF f
    <2> QED BY <1>f, <1>7, <1>8, StopRecordingChanges
<1> HIDE DEF c
<1>10. StopKeeps(q, c)
    <2>1. By(c) = By(q)
        BY <1>2, <1>6, <1>7, <1>9, SameGroups
    <2>2. Sinks(c) = Sinks(q) /\ Told(c) = Told(q)
        BY <1>2, <1>5, <1>7, <1>9
    <2>3. SinkOK(q) => SinkOK(c)
        BY <2>2, SameGroups
    <2>4. /\ c.record_by_event_ = k /\ c.stream_by_event_ = l
          /\ c.continuos_direct_record_ = f /\ c.record_event_depth_ = a.record_event_depth_
        BY <1>7, <1>9, SameGroups
    <2>5. a.record_event_depth_ = q.record_event_depth_
        BY <1>2, <1>5, <1>7, SameGroups
    <2>6. Why(c) = Why(q)
        BY <2>1, <2>4 DEF Why
    <2>7. Quiet(q) => Quiet(c)
        BY <1>f, <2>4, <2>5 DEF Quiet, Open
    <2> QED BY <1>9, <2>2, <2>3, <2>6, <2>7 DEF StopKeeps, Keeps
<1>11. StopKeeps(c, d)
    <2>1. /\ d \in ManagerType
          /\ Recs(d) = Recs(c) /\ Evts(d) = Evts(c) /\ Told(d) = Told(c)
          /\ One /\ SinkOK(c) => SinkOK(d)
        BY <1>9, StopSourceChanges
    <2> HIDE DEF d
    <2> QED BY <1>9, <2>1, GroupKeeps
<1> HIDE DEF d
<1> QED BY <1>4, <1>10, <1>11, KeepsChain

LEMMA StopRecordKeeps ==
    ASSUME NEW q \in ManagerType, NEW s \in Stream
    PROVE  StopKeeps(q, StopRecord(q, s))
BY StopDirectKeeps, StopServerKeeps DEF StopRecord

\* One turn of the loop over the event states, and the loop.
LEMMA EndEventStreamsKeep ==
    ASSUME NEW q \in ManagerType, NEW s \in Stream
    PROVE  StopKeeps(q, EndEventStreams(q, s))
<1> DEFINE Q == {a \in ManagerType : StopKeeps(q, a)}
<1>1. StopKeeps(q, q) /\ q \in Q
    BY DEF StopKeeps, Keeps
<1>2. ASSUME NEW e \in Stateful, NEW a \in ManagerType PROVE StopKeeps(a, EndEventStream(e, a, s))
    <2> DEFINE v == update_delivery_mode(e, a.events_states_[e], "SDM_NONE", s)
               b == [a EXCEPT !.events_states_[e] = v]
               c == StopRecord(b, s)
    <2>1. e \in State /\ "SDM_NONE" \in Mode
        BY <1>2 DEF State, Stateful, Mode
    <2>2. a.events_states_[e] \in Delivery
        BY <1>2, <2>1, Fields
    <2>3. v \in Delivery
        BY <2>1, <2>2, DeliveryTypes
    <2>4. EndEventStream(e, a, s) \in {a, c}
        BY DEF EndEventStream
    <2> HIDE DEF v
    <2>5. /\ b \in ManagerType
          /\ Sinks(b) = Sinks(a) /\ Recs(b) = Recs(a) /\ Evts(b) = Evts(a)
          /\ Told(b) = Told(a)
        BY <1>2, <2>1, <2>3, OneDelivery
    <2> HIDE DEF b
    <2>6. StopKeeps(a, b)
        BY <1>2, <2>5, GroupKeeps
    <2>7. StopKeeps(b, c)
        BY <2>5, StopRecordKeeps
    <2>8. StopKeeps(a, a)
        BY <1>2 DEF StopKeeps, Keeps
    <2> HIDE DEF c
    <2>9. StopKeeps(a, c)
        BY <2>6, <2>7, KeepsChain
    <2> QED BY <2>4, <2>8, <2>9
<1>3. \A e \in Stateful : \A a \in Q : EndEventStream(e, a, s) \in Q
    <2> SUFFICES ASSUME NEW e \in Stateful, NEW a \in Q PROVE EndEventStream(e, a, s) \in Q
        OBVIOUS
    <2> DEFINE b == EndEventStream(e, a, s)
    <2>1. StopKeeps(a, b) /\ StopKeeps(q, a)
        BY <1>2
    <2> HIDE DEF b
    <2>2. StopKeeps(q, b)
        BY <2>1, KeepsChain
    <2>3. b \in ManagerType
        BY <2>2 DEF StopKeeps, Keeps
    <2> QED BY <2>2, <2>3 DEF b
<1>4. EndEventStreams(q, s) \in Q
    <2> HIDE DEF Q
    <2> QED BY <1>1, <1>3, EndEventStreamsKeeps
<1> QED BY <1>4

\* A record event that is open is closed, unless a direct upload is recorded.
LEMMA CloseKeeps ==
    ASSUME NEW q \in ManagerType, NEW s \in Stream
    PROVE  LET r == CloseRecordEvent(q, s)
           IN  /\ Keeps(q, r) /\ Why(r) = Why(q) /\ Told(r) = Told(q)
               /\ Quiet(q) => r.record_event_depth_ = 0 /\ ~r.continuos_direct_record_
<1>0. q.record_event_depth_ \in Nat
    BY Fields
<1>1. CASE ~(q.record_event_depth_ > 0)
    <2>1. q.record_event_depth_ = 0
        BY <1>0, <1>1
    <2>2. CloseRecordEvent(q, s) = q
        BY <1>1 DEF CloseRecordEvent
    <2> QED BY <2>1, <2>2 DEF Keeps, Quiet
<1>2. CASE q.record_event_depth_ > 0
    <2> DEFINE a == [q EXCEPT !.record_event_depth_ = 1]
               r == StopRecord(a, s)
               f == FALSE
               n == __notify_record_event(a, f)
    <2>1. /\ a \in ManagerType
          /\ Sinks(a) = Sinks(q) /\ Recs(a) = Recs(q) /\ Told(a) = Told(q)
          /\ a.record_by_event_ = q.record_by_event_
          /\ a.stream_by_event_ = q.stream_by_event_
          /\ a.continuos_direct_record_ = q.continuos_direct_record_
          /\ a.record_event_depth_ = 1
        BY DEF ManagerType, Sinks, Recs, Told
    <2>2. CloseRecordEvent(q, s) = r
        BY <1>2 DEF CloseRecordEvent
    <2> HIDE DEF a
    <2>3. Keeps(q, a) /\ Why(a) = Why(q)
        BY <2>1, SameRecs, SameGroups DEF Keeps, Why
    <2>4. Keeps(a, r) /\ Why(r) = Why(a) /\ Told(r) = Told(a)
        BY <2>1, StopRecordKeeps DEF StopKeeps
    <2>5. ASSUME Quiet(q) PROVE r.record_event_depth_ = 0 /\ ~r.continuos_direct_record_
        <3>1. a.stream_by_event_ /\ ~a.continuos_direct_record_
            BY <1>2, <2>1, <2>5 DEF Quiet, Open
        <3>2. r = StopLive(n, s)
            BY <3>1 DEF StopRecord, StopServerByEvent, StopLive
        <3>3. f \in BOOLEAN /\ ~f /\ a.record_event_depth_ <= 1
            BY <2>1
        <3> HIDE DEF f
        <3>4. /\ n \in ManagerType /\ n.record_event_depth_ = 0
              /\ n.continuos_direct_record_ = a.continuos_direct_record_
            BY <2>1, <3>3, NotifyChanges
        <3> HIDE DEF n, r
        <3>5. Evts(r) = Evts(n)
            BY <3>2, <3>4, StopLiveKeeps
        <3> QED BY <3>1, <3>4, <3>5, SameGroups
    <2> HIDE DEF r
    <2>6. Keeps(q, r)
        BY <2>3, <2>4, KeepsChain
    <2> QED BY <2>1, <2>2, <2>3, <2>4, <2>5, <2>6
<1> QED BY <1>1, <1>2

\* With one stream, what is marked for event-driven recording is known to be.
ByOK(q) == By(q)[DefaultStream] => q.record_by_event_ \/ q.stream_by_event_

LEMMA StopByEventKeeps ==
    ASSUME NEW q \in ManagerType, NEW s \in Stream
    PROVE  LET r == StopRecordByEvent(q, s)
           IN  /\ Keeps(q, r) /\ Told(r) = Told(q)
               /\ Quiet(q) => Quiet(r)
               /\ One /\ ByOK(q) => ~By(r)[DefaultStream]
<1> DEFINE a == IF q.stream_by_event_ THEN EndEventStreams(q, s) ELSE q
           c == CloseRecordEvent(a, s)
           x == c.recording_status_[s]
           p == x.permanent
           d == x.direct_upload
           k == c.continuos_direct_record_
           z == c.record_stream_
           f == FALSE
           h == Reason(c, s, p, f, d)
           b == Driven(h, z, f, f, k)
           e == _stop_recording(b, s, f)
           started == q.record_by_event_ \/ q.stream_by_event_
           g == IF started /\ q.record_stream_ = s THEN e ELSE q
           r == stop_idle_source(g, s)
<1>f. f \in Truth /\ f \in BOOLEAN /\ ~f
    BY DEF Truth
<1>1. a \in ManagerType /\ StopKeeps(q, a)
    <2>1. StopKeeps(q, q) /\ StopKeeps(q, EndEventStreams(q, s))
        BY EndEventStreamsKeep DEF StopKeeps, Keeps
    <2> QED BY <2>1 DEF StopKeeps, Keeps
<1>2. /\ Keeps(a, c) /\ Why(c) = Why(a) /\ Told(c) = Told(a)
      /\ Quiet(a) => c.record_event_depth_ = 0 /\ ~c.continuos_direct_record_
    <2> HIDE DEF a
    <2> QED BY <1>1, CloseKeeps
<1>3. c \in ManagerType /\ Keeps(q, c) /\ Told(c) = Told(q)
    <2> HIDE DEF a, c
    <2> QED BY <1>1, <1>2, KeepsChain DEF StopKeeps, Keeps
<1>4. x \in Status /\ p \in Truth /\ d \in Truth /\ k \in Truth /\ z \in Stream
    <2> HIDE DEF c
    <2>1. x \in Status
        BY <1>3, Fields
    <2>2. p \in Truth /\ d \in Truth
        BY <2>1 DEF Status, Truth
    <2> QED BY <1>3, <2>1, <2>2, Fields DEF Truth
<1>5. StopRecordByEvent(q, s) = r
    <2> DEFINE w == EndByEvent(c, s)
    <2>1. StopRecordByEvent(q, s) = stop_idle_source(IF started /\ q.record_stream_ = s
                                       THEN _stop_recording(w, s, FALSE) ELSE q, s)
        BY DEF StopRecordByEvent
    <2>2. w = b
        <3> HIDE DEF c
        <3>1. [x EXCEPT !.by_event = f] = [permanent |-> p, by_event |-> f, direct_upload |-> d,
                                           started |-> x.started]
            <4> HIDE DEF x, f
            <4> QED BY <1>f, <1>4, StatusExcept
        <3>2. h = [c EXCEPT !.recording_status_[s] = [x EXCEPT !.by_event = f]]
            BY <3>1 DEF Reason
        <3> QED BY <1>3, <3>2 DEF EndByEvent, Driven, ManagerType
    <2> HIDE DEF w, b
    <2> QED BY <2>1, <2>2
<1> HIDE DEF a, c
<1>6. /\ h \in ManagerType
      /\ Sinks(h) = Sinks(c) /\ Evts(h) = Evts(c) /\ Told(h) = Told(c)
      /\ h.recording = c.recording
      /\ h.recording_status_[s].started = c.recording_status_[s].started
      /\ By(h)[s] = f
      /\ \A y \in Stream : y # s => (RecAt(c, y) => RecAt(h, y))
    <2> HIDE DEF p, d, f
    <2> QED BY <1>f, <1>3, <1>4, SetReason
<1> HIDE DEF h
<1>7. /\ b \in ManagerType
      /\ Sinks(b) = Sinks(h) /\ Recs(b) = Recs(h) /\ Told(b) = Told(h)
      /\ b.stream_by_event_ = f
      /\ b.continuos_direct_record_ = k
      /\ b.record_event_depth_ = h.record_event_depth_
      /\ By(b) = By(h)
    <2> HIDE DEF k, z, f
    <2> QED BY <1>f, <1>4, <1>6, SetDriven
<1> HIDE DEF b
<1>8. ASSUME RecOK(q)
      PROVE  /\ \A y \in Stream : y # s => RecAt(b, y)
             /\ Knows(b, s)
    <2>1. RecOK(c)
        BY <1>3, <1>8 DEF Keeps
    <2>2. \A y \in Stream : y # s => RecAt(h, y)
        BY <1>6, <2>1 DEF RecOK
    <2>3. Knows(h, s)
        BY <1>6, <2>1 DEF RecOK, RecAt, Knows
    <2> QED BY <1>7, <2>2, <2>3 DEF Recs, RecAt, Knows, Enabled
<1>9. /\ e \in ManagerType
      /\ Sinks(e) = Sinks(b) /\ Evts(e) = Evts(b) /\ Told(e) = Told(b)
      /\ Reasons(e) = Reasons(b) /\ (RecOK(q) => RecOK(e))
    <2> HIDE DEF f
    <2> QED BY <1>f, <1>7, <1>8, StopRecordingChanges
<1> HIDE DEF e
<1>10. Keeps(q, e) /\ Told(e) = Told(q) /\ (Quiet(q) => Quiet(e)) /\ ~By(e)[s]
    <2>1. By(e) = By(b) /\ ~By(b)[s]
        BY <1>f, <1>6, <1>7, <1>9, SameGroups
    <2>2. Sinks(e) = Sinks(c) /\ Told(e) = Told(q)
        BY <1>3, <1>6, <1>7, <1>9
    <2>3. One /\ SinkOK(q) => SinkOK(e)
        BY <1>3, <2>2, SameGroups DEF Keeps
    <2>4. /\ e.stream_by_event_ = f /\ e.continuos_direct_record_ = k
          /\ e.record_event_depth_ = b.record_event_depth_
        BY <1>7, <1>9, SameGroups
    <2>5. b.record_event_depth_ = c.record_event_depth_
        BY <1>6, <1>7, SameGroups
    <2>6. ASSUME Quiet(q) PROVE Quiet(e)
        <3>1. Quiet(a)
            BY <1>1, <2>6 DEF StopKeeps
        <3>2. c.record_event_depth_ = 0 /\ ~k
            BY <1>2, <3>1
        <3> QED BY <2>4, <2>5, <3>2 DEF Quiet, Open
    <2> QED BY <1>9, <2>1, <2>2, <2>3, <2>6 DEF Keeps
<1>11. /\ Keeps(q, g) /\ Told(g) = Told(q) /\ (Quiet(q) => Quiet(g))
       /\ One /\ ByOK(q) => ~By(g)[DefaultStream]
    <2>1. CASE started /\ q.record_stream_ = s
        <3>1. One => s = DefaultStream
            BY DEF One
        <3>2. g = e
            BY <2>1
        <3> QED BY <1>10, <3>1, <3>2
    <2>2. CASE ~(started /\ q.record_stream_ = s)
        <3>1. g = q
            BY <2>2
        <3>2. One => q.record_stream_ = s
            BY Fields DEF One
        <3>3. One /\ ByOK(q) => ~By(g)[DefaultStream]
            BY <2>2, <3>1, <3>2 DEF ByOK
        <3> QED BY <3>1, <3>3 DEF Keeps
    <2> QED BY <2>1, <2>2
<1> HIDE DEF g
<1>12. g \in ManagerType
    BY <1>11 DEF Keeps
<1>13. StopKeeps(g, r)
    <2>1. /\ r \in ManagerType
          /\ Recs(r) = Recs(g) /\ Evts(r) = Evts(g) /\ Told(r) = Told(g)
          /\ One /\ SinkOK(g) => SinkOK(r)
        BY <1>12, StopSourceChanges
    <2> HIDE DEF r
    <2> QED BY <1>12, <2>1, GroupKeeps
<1> HIDE DEF r
<1>14. Keeps(g, r) /\ (Quiet(g) => Quiet(r)) /\ By(r) = By(g) /\ Told(r) = Told(g)
    BY <1>13 DEF StopKeeps, Why
<1> QED BY <1>5, <1>11, <1>14, KeepsChain

\* What a handler keeps that may end event-driven recording.
EndKeeps(q, r) ==
    /\ Keeps(q, r) /\ Told(r) = Told(q)
    /\ Quiet(q) => Quiet(r)
    /\ One /\ ByOK(q) => \/ Why(r) = Why(q)
                         \/ ~By(r)[DefaultStream]

LEMMA StreamStopKeeps ==
    ASSUME NEW q \in ManagerType, NEW s \in Stream, NEW reason \in ReasonKind
    PROVE  LET r == on_stream_stop(q, s, reason)
           IN  /\ EndKeeps(q, r)
               /\ reason = "RECORD_BY_EVENT" /\ One /\ ByOK(q) => ~By(r)[DefaultStream]
<1>1. CASE reason = "LIVE"
    BY <1>1, StopLiveKeeps DEF on_stream_stop, EndKeeps, StopKeeps
<1>2. CASE reason \in {"RECORD", "RECORD_DIRECT"}
    BY <1>2, StopRecordKeeps DEF on_stream_stop, EndKeeps, StopKeeps
<1>3. CASE reason = "RECORD_BY_EVENT"
    BY <1>3, StopByEventKeeps DEF on_stream_stop, EndKeeps
<1> QED BY <1>1, <1>2, <1>3 DEF ReasonKind

LEMMA StopStreamKeeps ==
    ASSUME NEW q \in ManagerType, NEW s \in Stream
    PROVE  EndKeeps(q, _stop_stream(q, s))
<1> DEFINE a == StopLive(q, s)
           b == StopRecord(a, s)
           c == StopRecordByEvent(b, s)
           d == StopServerByEvent(c, s)
<1>0. _stop_stream(q, s) = d
    BY DEF _stop_stream
<1>1. StopKeeps(q, a) /\ a \in ManagerType
    BY StopLiveKeeps DEF StopKeeps, Keeps
<1> HIDE DEF a
<1>2. StopKeeps(q, b) /\ b \in ManagerType
    BY <1>1, StopRecordKeeps, KeepsChain DEF StopKeeps, Keeps
<1> HIDE DEF b
<1>3. /\ Keeps(b, c) /\ Told(c) = Told(b) /\ (Quiet(b) => Quiet(c))
      /\ One /\ ByOK(b) => ~By(c)[DefaultStream]
    BY <1>2, StopByEventKeeps
<1> HIDE DEF c
<1>4. c \in ManagerType
    BY <1>3 DEF Keeps
<1>5. StopKeeps(c, d)
    BY <1>4, StopServerKeeps
<1> HIDE DEF d
<1>6. Keeps(q, b) /\ Keeps(c, d)
    BY <1>2, <1>5 DEF StopKeeps
<1>7. Keeps(q, d)
    BY <1>3, <1>6, KeepsChain
<1>8. ByOK(q) => ByOK(b)
    BY <1>2 DEF StopKeeps, Why, ByOK
<1>9. By(d) = By(c) /\ Told(d) = Told(c) /\ (Quiet(c) => Quiet(d))
    BY <1>5 DEF StopKeeps, Why
<1>10. Told(b) = Told(q) /\ (Quiet(q) => Quiet(b))
    BY <1>2 DEF StopKeeps
<1> QED BY <1>0, <1>3, <1>7, <1>8, <1>9, <1>10 DEF EndKeeps
-----------------------------------------------------------------------------
(***************************************************************************)
(* The invariant, and the steps that keep it.                              *)
(***************************************************************************)

\* Everything but what is asked for: no sink is lost with one stream, and
\* what is recorded is wanted.
Inv ==
    /\ TypeOK
    /\ Told(m)
    /\ RecOK(m)
    /\ One => SinkOK(m)

\* With one stream and no failing source or new settings: a mark for
\* event-driven recording is known to the manager, wanted by the Cloud, and not
\* set by a task.
ByInv ==
    One /\ Fault \cap {"source", "config"} = {} =>
        /\ ByOK(m)
        /\ By(m)[DefaultStream] => <<DefaultStream, "RECORD_BY_EVENT">> \in wanted
        /\ \A i \in DOMAIN rx : rx[i][1] # "by_event"

Task == {"start", "stop", "stop_all", "by_event"} \X Stream

LEMMA InitCorrect == Init => Inv /\ ByInv
<1> SUFFICES ASSUME Init PROVE Inv /\ ByInv
    OBVIOUS
<1> DEFINE off == [s \in Stream |-> FALSE]
           st == [s \in Stream |-> NoStatus]
           v == [active_ |-> FALSE, delivery_mode_ |-> "SDM_NONE",
                 seg_provider |-> DefaultStream, timers |-> <<>>, stop_pending |-> FALSE]
           ev == [e \in State |-> v]
<1>1. off \in Flags /\ st \in [Stream -> Status] /\ \A s \in Stream : ~off[s] /\ st[s] = NoStatus
    BY DEF Flags, Status, NoStatus
<1>2. <<>> \in Seq({"start", "stop"} \X Stream) /\ DefaultStream \in Stream
    BY StreamAssumption
<1>3. v \in Delivery
    BY <1>2 DEF Delivery, Mode
<1> HIDE DEF v
<1>4. ev \in [State -> Delivery]
    BY <1>3
<1>5. /\ m.active_sinks_ = 0 /\ m.record_stream_ = DefaultStream
      /\ m.record_by_event_ = FALSE /\ m.stream_by_event_ = FALSE
      /\ m.continuos_direct_record_ = FALSE /\ m.record_event_depth_ = 0
      /\ m.recording_status_ = st /\ m.memorycard_info_ = FALSE
      /\ m.source_started_ = off /\ m.sink_started_ = off
      /\ m.events_states_ = ev /\ m.recording = off /\ m.died = FALSE /\ m.result = TRUE
    BY DEF Init, v
<1>6. m \in ManagerType
    <2> HIDE DEF off, st, ev
    <2>1. m = [active_sinks_ |-> 0, record_stream_ |-> DefaultStream,
               record_by_event_ |-> FALSE, stream_by_event_ |-> FALSE,
               continuos_direct_record_ |-> FALSE, record_event_depth_ |-> 0,
               recording_status_ |-> st, memorycard_info_ |-> FALSE,
               source_started_ |-> off, sink_started_ |-> off, events_states_ |-> ev,
               recording |-> off, died |-> FALSE, result |-> TRUE]
        BY DEF Init, off, st, ev, v
    <2> QED BY <1>1, <1>2, <1>4, <2>1 DEF ManagerType, Flags, Status, Delivery
<1>7. rx = <<>> /\ rx \in Seq(Task) /\ DOMAIN rx = {}
    BY DEF Init
<1>8. deciding \in [State -> Mode \cup {"idle"}]
    BY DEF Init
<1>13. /\ begun \subseteq Event /\ crossed \subseteq Event /\ overtaken \subseteq Stream
       /\ noting \in [Caller -> NoteType] /\ switching \in SwitchType
    BY <1>2 DEF Init, NoteType, NoteIdle, SwitchType, NotSwitching
<1>9. TypeOK
    BY <1>6, <1>7, <1>8, <1>13 DEF Init, TypeOK, Task
<1>10. RecOK(m)
    BY <1>1, <1>5 DEF RecOK, RecAt
<1>11. SinkOK(m)
    BY <1>1, <1>2, <1>5 DEF SinkOK
<1>12. ~By(m)[DefaultStream]
    BY <1>1, <1>2, <1>5 DEF By, NoStatus
<1> QED BY <1>5, <1>7, <1>9, <1>10, <1>11, <1>12 DEF Inv, ByInv, ByOK, Told

\* What a step of any action does to the manager.
StepKeeps(q, r) == Keeps(q, r) /\ Told(r) /\ (Quiet(q) => ~Open(r))

LEMMA EndIsStep ==
    ASSUME NEW q, NEW r
    PROVE  /\ EndKeeps(q, r) /\ Told(q) => StepKeeps(q, r)
           /\ StopKeeps(q, r) => EndKeeps(q, r)
BY DEF EndKeeps, StepKeeps, StopKeeps, Quiet

LEMMA EndChain ==
    ASSUME NEW q, NEW r, NEW t
    PROVE  StopKeeps(q, r) /\ EndKeeps(r, t) => EndKeeps(q, t)
<1> SUFFICES ASSUME StopKeeps(q, r), EndKeeps(r, t) PROVE EndKeeps(q, t)
    OBVIOUS
<1>1. Keeps(q, t)
    BY KeepsChain DEF StopKeeps, EndKeeps
<1>2. ByOK(q) => ByOK(r)
    BY DEF StopKeeps, Why, ByOK
<1> QED BY <1>1, <1>2 DEF StopKeeps, EndKeeps

\* CloudStart() and RxTask() forget the answer of on_stream_start().
LEMMA AnswerForgotten ==
    ASSUME NEW q \in ManagerType
    PROVE  LET r == [q EXCEPT !.result = TRUE]
           IN  Keeps(q, r) /\ Why(r) = Why(q) /\ Told(r) /\ Open(r) = Open(q) /\ Quiet(r) = Quiet(q)
<1> DEFINE r == [q EXCEPT !.result = TRUE]
<1>1. /\ r \in ManagerType /\ Told(r)
      /\ Sinks(r) = Sinks(q) /\ Recs(r) = Recs(q) /\ Evts(r) = Evts(q)
    BY DEF ManagerType, Sinks, Recs, Evts, Told
<1> HIDE DEF r
<1>2. Keeps(q, r)
    BY <1>1, SameRecs, SameGroups DEF Keeps
<1>3. Why(r) = Why(q) /\ Open(r) = Open(q) /\ Quiet(r) = Quiet(q)
    BY <1>1, SameGroups DEF Why
<1> QED BY <1>1, <1>2, <1>3 DEF r

LEMMA OutcomeType ==
    ASSUME NEW o \in Outcome
    PROVE  o \in Answers /\ ("source" \notin Fault => o.source)
BY DEF Outcome, Reply, Answers

LEMMA StartsType ==
    ASSUME TypeOK
    PROVE  world.starts \subseteq ReasonKind /\ world.stops \subseteq ReasonKind
BY StreamAssumption DEF TypeOK, World

LEMMA CloudStartStep ==
    ASSUME Inv, NEW s \in Stream, NEW r \in world.starts, NEW o \in Outcome, CloudStart(s, r, o)
    PROVE  StepKeeps(m, m') /\ (ByInv => ByInv')
<1> DEFINE q == on_stream_start(m, s, r, o)
<1>1. m \in ManagerType /\ card \in BOOLEAN /\ r \in ReasonKind /\ Told(m)
    BY StartsType DEF Inv, TypeOK
<1>2. /\ StartKeeps(m, q)
      /\ r # "RECORD_BY_EVENT" => Why(q) = Why(m)
      /\ o.source => \/ Why(q) = Why(m)
                     \/ /\ Told(q) = Told(m)
                        /\ q.record_by_event_ \/ q.stream_by_event_
    BY <1>1, OutcomeType, StreamStartKeeps
<1>3. /\ m' = [q EXCEPT !.result = TRUE]
      /\ wanted' = IF q.result THEN wanted \cup {<<s, r>>} ELSE wanted
      /\ rx' = rx /\ world' = world
    BY DEF CloudStart
<1> HIDE DEF q
<1>4. q \in ManagerType /\ Keeps(m, q) /\ (Quiet(m) => ~Open(q))
    BY <1>2 DEF StartKeeps, Keeps, Quiet
<1>5. Keeps(q, m') /\ Why(m') = Why(q) /\ Told(m') /\ Open(m') = Open(q)
    BY <1>3, <1>4, AnswerForgotten
<1>6. StepKeeps(m, m')
    BY <1>4, <1>5, KeepsChain DEF StepKeeps
<1>7. ASSUME ByInv, One, Fault \cap {"source", "config"} = {}
      PROVE  /\ ByOK(m')
             /\ By(m')[DefaultStream] => <<DefaultStream, "RECORD_BY_EVENT">> \in wanted'
    <2>1. o.source
        BY <1>7, OutcomeType
    <2>2. /\ ByOK(m)
          /\ By(m)[DefaultStream] => <<DefaultStream, "RECORD_BY_EVENT">> \in wanted
        BY <1>7 DEF ByInv
    <2>3. CASE Why(q) = Why(m)
        <3>1. Why(m') = Why(m) /\ wanted \subseteq wanted'
            BY <1>3, <1>5, <2>3
        <3> QED BY <2>2, <3>1 DEF Why, ByOK
    <2>4. CASE Why(q) # Why(m)
        <3>1. r = "RECORD_BY_EVENT" /\ q.result /\ (q.record_by_event_ \/ q.stream_by_event_)
            BY <1>1, <1>2, <2>1, <2>4 DEF Told
        <3>2. s = DefaultStream
            BY <1>7 DEF One
        <3>3. <<DefaultStream, "RECORD_BY_EVENT">> \in wanted'
            BY <1>3, <3>1, <3>2
        <3> QED BY <1>5, <3>1, <3>3 DEF Why, ByOK
    <2> QED BY <2>3, <2>4
<1>8. ByInv => ByInv'
    BY <1>3, <1>7 DEF ByInv, Fault
<1> QED BY <1>6, <1>8

RbeWanted == <<DefaultStream, "RECORD_BY_EVENT">> \in wanted
NoByEventTask == \A i \in DOMAIN rx : rx[i][1] # "by_event"

\* A step that ends something, or changes nothing that is asked for.
LEMMA EndStep ==
    ASSUME Inv, EndKeeps(m, m'), world' = world,
           (RbeWanted => RbeWanted') \/ (One /\ ByOK(m) => ~By(m')[DefaultStream]),
           "config" \notin Fault /\ NoByEventTask => NoByEventTask'
    PROVE  StepKeeps(m, m') /\ (ByInv => ByInv')
<1>1. StepKeeps(m, m')
    BY EndIsStep DEF Inv
<1>2. Fault' = Fault
    BY DEF Fault
<1>3. ASSUME ByInv, One, Fault \cap {"source", "config"} = {}
      PROVE  /\ ByOK(m') /\ NoByEventTask'
             /\ By(m')[DefaultStream] => RbeWanted'
    <2>1. ByOK(m) /\ NoByEventTask /\ (By(m)[DefaultStream] => RbeWanted)
        BY <1>3 DEF ByInv, NoByEventTask, RbeWanted
    <2>2. Why(m') = Why(m) \/ ~By(m')[DefaultStream]
        BY <1>3, <2>1 DEF EndKeeps
    <2>3. ByOK(m')
        BY <2>1, <2>2 DEF Why, ByOK
    <2>4. By(m')[DefaultStream] => RbeWanted'
        BY <1>3, <2>1, <2>2 DEF Why
    <2> QED BY <1>3, <2>1, <2>3, <2>4
<1>4. ByInv => ByInv'
    BY <1>2, <1>3 DEF ByInv, NoByEventTask, RbeWanted
<1> QED BY <1>1, <1>4

LEMMA CloudStopStep ==
    ASSUME Inv, NEW s \in Stream, NEW r \in world.stops, CloudStop(s, r)
    PROVE  StepKeeps(m, m') /\ (ByInv => ByInv')
<1> DEFINE q == on_stream_stop(m, s, r)
<1>1. m \in ManagerType /\ r \in ReasonKind
    BY StartsType DEF Inv, TypeOK
<1>2. EndKeeps(m, q) /\ (r = "RECORD_BY_EVENT" => (One /\ ByOK(m) => ~By(q)[DefaultStream]))
    BY <1>1, StreamStopKeeps
<1>3. m' = q /\ wanted' = wanted \ {<<s, r>>} /\ rx' = rx /\ world' = world
    BY DEF CloudStop
<1> HIDE DEF q
<1>4. r # "RECORD_BY_EVENT" => (RbeWanted => RbeWanted')
    BY <1>3 DEF RbeWanted
<1>5. NoByEventTask => NoByEventTask'
    BY <1>3 DEF NoByEventTask
<1> QED BY <1>2, <1>3, <1>4, <1>5, EndStep

\* A step on some fields of the manager that leaves the rest alone.
LEMMA QuietStep ==
    ASSUME Inv, StopKeeps(m, m'), wanted' = wanted, world' = world,
           NoByEventTask => NoByEventTask'
    PROVE  StepKeeps(m, m') /\ (ByInv => ByInv')
<1>1. EndKeeps(m, m')
    BY EndIsStep
<1>2. RbeWanted => RbeWanted'
    BY DEF RbeWanted
<1> QED BY <1>1, <1>2, EndStep

LEMMA SameTasks ==
    ASSUME rx' = rx
    PROVE  NoByEventTask => NoByEventTask'
BY DEF NoByEventTask

LEMMA RecordingStep ==
    ASSUME Inv, NEW s \in Stream, NEW b \in BOOLEAN, NEW o \in Outcome,
           on_cam_memorycard_recording(s, b, o)
    PROVE  StepKeeps(m, m') /\ (ByInv => ByInv')
<1> DEFINE x == m.recording_status_[s]
           y == x.by_event
           d == x.direct_upload
           f == FALSE
           a == Reason(m, s, b, y, d)
           p == _start_recording(a, s, o)
           q == _stop_recording(a, s, f)
<1>0. m \in ManagerType /\ o \in Answers
    BY OutcomeType DEF Inv, TypeOK
<1>1. x \in Status
    BY <1>0, Fields
<1>2. y \in Truth /\ d \in Truth /\ b \in Truth
    BY <1>1 DEF Status, Truth
<1>3. [m EXCEPT !.recording_status_[s].permanent = b] = a
    <2>1. [x EXCEPT !.permanent = b] = [permanent |-> b, by_event |-> y, direct_upload |-> d,
                                        started |-> x.started]
        <3> HIDE DEF x
        <3> QED BY <1>1, StatusExcept
    <2>2. [m EXCEPT !.recording_status_[s].permanent = b] =
              [m EXCEPT !.recording_status_[s] = [x EXCEPT !.permanent = b]]
        OBVIOUS
    <2> QED BY <2>1, <2>2 DEF Reason
<1>4. /\ m' = IF b THEN p ELSE q
      /\ wanted' = wanted /\ world' = world /\ rx' = rx
    BY <1>3 DEF on_cam_memorycard_recording
<1>5. /\ a \in ManagerType
      /\ Sinks(a) = Sinks(m) /\ Evts(a) = Evts(m) /\ Told(a) = Told(m)
      /\ a.recording = m.recording
      /\ a.recording_status_[s].started = m.recording_status_[s].started
      /\ \A z \in Stream : z # s => (RecAt(m, z) => RecAt(a, z))
    <2> HIDE DEF y, d
    <2> QED BY <1>0, <1>2, SetReason
<1>6. By(a) = By(m) /\ (b => (RecOK(m) => RecOK(a)))
    <2>1. y = m.recording_status_[s].by_event
        OBVIOUS
    <2> HIDE DEF y, d
    <2>2. (y = m.recording_status_[s].by_event) => By(a) = By(m)
        BY <1>0, <1>2, SetReason
    <2>3. RecOK(m) /\ (Enabled(m, s) => b \/ y \/ d) => RecOK(a)
        BY <1>0, <1>2, SetReason
    <2> QED BY <2>1, <2>2, <2>3
<1>7. Why(a) = Why(m)
    BY <1>5, <1>6, SameGroups DEF Why
<1> HIDE DEF a
<1>8. CASE b
    <2>1. /\ p \in ManagerType
          /\ Sinks(p) = Sinks(a) /\ Evts(p) = Evts(a) /\ Told(p) = Told(a)
          /\ Reasons(p) = Reasons(a)
          /\ RecOK(a) => RecOK(p)
        BY <1>0, <1>5, StartRecordingChanges
    <2> HIDE DEF p
    <2>2. RecOK(m) => RecOK(p)
        BY <1>6, <1>8, <2>1
    <2>3. Sinks(p) = Sinks(m) /\ Evts(p) = Evts(m) /\ Told(p) = Told(m)
        BY <1>5, <2>1
    <2>4. By(p) = By(m)
        BY <1>6, <2>1, SameGroups
    <2>5. StopKeeps(m, p)
        BY <2>1, <2>2, <2>3, <2>4, SameGroups DEF StopKeeps, Keeps, Why
    <2> QED BY <1>4, <1>8, <2>5, QuietStep, SameTasks
<1>9. CASE ~b
    <2>0. f \in BOOLEAN
        OBVIOUS
    <2> HIDE DEF f
    <2>1. /\ q \in ManagerType
          /\ Sinks(q) = Sinks(a) /\ Evts(q) = Evts(a) /\ Told(q) = Told(a)
          /\ Reasons(q) = Reasons(a)
          /\ /\ \A z \in Stream : z # s => RecAt(a, z)
             /\ Knows(a, s)
             => RecOK(q)
        BY <1>5, <2>0, StopRecordingChanges
    <2> HIDE DEF q
    <2>2. RecOK(m) => RecOK(q)
        BY <1>5, <2>1 DEF RecOK, RecAt, Knows
    <2>3. Sinks(q) = Sinks(m) /\ Evts(q) = Evts(m) /\ Told(q) = Told(m)
        BY <1>5, <2>1
    <2>4. By(q) = By(m)
        BY <1>6, <2>1, SameGroups
    <2>5. StopKeeps(m, q)
        BY <2>1, <2>2, <2>3, <2>4, SameGroups DEF StopKeeps, Keeps, Why
    <2> QED BY <1>4, <1>9, <2>5, QuietStep, SameTasks
<1> QED BY <1>8, <1>9

LEMMA ByEventStreamStep ==
    ASSUME Inv, NEW s \in Stream, on_set_stream_by_event(s)
    PROVE  StepKeeps(m, m') /\ (ByInv => ByInv')
<1> DEFINE r == [m EXCEPT !.record_stream_ = s]
<1>0. m \in ManagerType
    BY DEF Inv, TypeOK
<1>1. /\ r \in ManagerType
      /\ Sinks(r) = Sinks(m) /\ Recs(r) = Recs(m) /\ Evts(r) = Evts(m) /\ Told(r) = Told(m)
    BY <1>0 DEF ManagerType, Sinks, Recs, Evts, Told
<1>2. m' = r /\ wanted' = wanted /\ world' = world /\ rx' = rx
    BY DEF on_set_stream_by_event
<1> HIDE DEF r
<1>3. StopKeeps(m, m')
    BY <1>0, <1>1, <1>2, GroupKeeps
<1> QED BY <1>2, <1>3, QuietStep, SameTasks

LEMMA StreamConfigStep ==
    ASSUME Inv, NEW s \in Stream, NEW o \in Outcome, on_set_stream_config(s, o)
    PROVE  StepKeeps(m, m') /\ (ByInv => ByInv')
<1> DEFINE x == m.recording_status_[s]
           p == x.permanent
           d == x.direct_upload
           f == FALSE
           a == Reason(m, s, f, f, d)
           b == _stop_recording(a, s, f)
           y == b.recording_status_[s]
           k == y.by_event
           l == y.direct_upload
           c == Reason(b, s, p, k, l)
           e == _start_recording(c, s, o)
<1>0. m \in ManagerType /\ o \in Answers /\ Told(m)
    BY OutcomeType DEF Inv, TypeOK
<1>f. f \in Truth /\ f \in BOOLEAN
    BY DEF Truth
<1>1. x \in Status
    BY <1>0, Fields
<1>2. p \in Truth /\ d \in Truth
    BY <1>1 DEF Status, Truth
<1>3. [m EXCEPT !.recording_status_[s].by_event = FALSE,
                !.recording_status_[s].permanent = FALSE] = a
    <2> DEFINE z == [x EXCEPT !.by_event = f]
    <2>1. z = [permanent |-> p, by_event |-> f, direct_upload |-> d, started |-> x.started]
        <3> HIDE DEF x, f
        <3> QED BY <1>1, <1>f, StatusExcept
    <2>2. z \in Status /\ z.by_event = f /\ z.direct_upload = d /\ z.started = x.started
        BY <1>1, <2>1 DEF Status
    <2>3. [z EXCEPT !.permanent = f] = [permanent |-> f, by_event |-> f, direct_upload |-> d,
                                        started |-> x.started]
        <3> HIDE DEF x, f, z
        <3> QED BY <1>f, <2>2, StatusExcept
    <2>4. [m EXCEPT !.recording_status_[s].by_event = f,
                    !.recording_status_[s].permanent = f] =
              [m EXCEPT !.recording_status_[s] = [z EXCEPT !.permanent = f]]
        <3>1. m.recording_status_ \in [Stream -> Status]
            BY <1>0, Fields
        <3> QED BY <1>0, <3>1 DEF ManagerType
    <2> QED BY <2>3, <2>4 DEF Reason
<1>4. /\ a \in ManagerType
      /\ Sinks(a) = Sinks(m) /\ Evts(a) = Evts(m) /\ Told(a) = Told(m)
      /\ a.recording = m.recording
      /\ a.recording_status_[s].started = m.recording_status_[s].started
      /\ Reasons(a)[s] = <<f, f, d>>
      /\ \A z \in Stream : z # s => (RecAt(m, z) => RecAt(a, z))
    <2>1. f \in Truth
        BY <1>f
    <2>2. m \in ManagerType /\ d \in Truth
        BY <1>0, <1>2
    <2> HIDE DEF f, d
    <2>3. /\ a \in ManagerType
          /\ Sinks(a) = Sinks(m) /\ Evts(a) = Evts(m) /\ Told(a) = Told(m)
          /\ a.recording = m.recording
          /\ a.recording_status_[s].started = m.recording_status_[s].started
        BY <2>1, <2>2, SetReason
    <2>4. Reasons(a)[s] = <<f, f, d>>
        BY <2>1, <2>2, SetReason
    <2>5. \A z \in Stream : z # s => (RecAt(m, z) => RecAt(a, z))
        BY <2>1, <2>2, SetReason
    <2> QED BY <2>3, <2>4, <2>5
<1> HIDE DEF a
<1>5. /\ b \in ManagerType
      /\ Sinks(b) = Sinks(a) /\ Evts(b) = Evts(a) /\ Told(b) = Told(a)
      /\ RecOK(m) => RecOK(b)
      /\ Reasons(b)[s] = <<f, f, d>>
    <2> HIDE DEF f, d
    <2>1. /\ b \in ManagerType
          /\ Sinks(b) = Sinks(a) /\ Evts(b) = Evts(a) /\ Told(b) = Told(a)
          /\ Reasons(b) = Reasons(a)
          /\ /\ \A z \in Stream : z # s => RecAt(a, z)
             /\ Knows(a, s)
             => RecOK(b)
        BY <1>f, <1>4, StopRecordingChanges
    <2> HIDE DEF b
    <2> QED BY <1>4, <2>1 DEF RecOK, RecAt, Knows
<1>6. y \in Status /\ k \in Truth /\ l \in Truth
    <2> HIDE DEF b
    <2>1. y \in Status
        BY <1>5, Fields
    <2> QED BY <2>1 DEF Status, Truth
<1>7. [b EXCEPT !.recording_status_[s].permanent = p] = c
    <2> HIDE DEF b, p
    <2>1. [y EXCEPT !.permanent = p] = [permanent |-> p, by_event |-> k, direct_upload |-> l,
                                        started |-> y.started]
        <3> HIDE DEF y
        <3> QED BY <1>2, <1>6, StatusExcept DEF Truth
    <2>2. [b EXCEPT !.recording_status_[s].permanent = p] =
              [b EXCEPT !.recording_status_[s] = [y EXCEPT !.permanent = p]]
        OBVIOUS
    <2> QED BY <2>1, <2>2 DEF Reason
<1>8. m' \in {e, m} /\ "config" \in Fault /\ world' = world
    BY <1>3, <1>7 DEF on_set_stream_config
<1> HIDE DEF b
<1>9. /\ c \in ManagerType
      /\ Sinks(c) = Sinks(b) /\ Evts(c) = Evts(b) /\ Told(c) = Told(b)
      /\ RecOK(b) => RecOK(c)
    <2>1. Enabled(b, s) => l
        <3>1. Reasons(b)[s] = <<y.permanent, k, l>>
            BY DEF Reasons
        <3>2. <<y.permanent, k, l>> = <<f, f, d>>
            BY <1>5, <3>1
        <3>3. y.permanent = f /\ k = f
            <4> HIDE DEF y, d, f
            <4> QED BY <3>2
        <3> QED BY <3>3 DEF Enabled
    <2> HIDE DEF p, k, l
    <2>2. /\ c \in ManagerType
          /\ Sinks(c) = Sinks(b) /\ Evts(c) = Evts(b) /\ Told(c) = Told(b)
        BY <1>2, <1>5, <1>6, SetReason
    <2>3. RecOK(b) /\ (Enabled(b, s) => p \/ k \/ l) => RecOK(c)
        BY <1>2, <1>5, <1>6, SetReason
    <2> HIDE DEF c
    <2> QED BY <2>1, <2>2, <2>3
<1> HIDE DEF c
<1>10. /\ e \in ManagerType
       /\ Sinks(e) = Sinks(c) /\ Evts(e) = Evts(c) /\ Told(e) = Told(c)
       /\ RecOK(c) => RecOK(e)
    BY <1>0, <1>9, StartRecordingChanges
<1> HIDE DEF e
<1>11. StepKeeps(m, e)
    <2>1. Sinks(e) = Sinks(m) /\ Evts(e) = Evts(m) /\ Told(e) = Told(m)
        BY <1>4, <1>5, <1>9, <1>10
    <2>2. RecOK(m) => RecOK(e)
        BY <1>5, <1>9, <1>10
    <2> QED BY <1>0, <1>10, <2>1, <2>2, SameGroups DEF StepKeeps, Keeps, Quiet
<1>12. StepKeeps(m, m)
    BY <1>0 DEF StepKeeps, Keeps, Quiet
<1>13. ByInv'
    BY <1>8 DEF ByInv, Fault
<1> QED BY <1>8, <1>11, <1>12, <1>13

LEMMA StorageKeeps ==
    ASSUME NEW q \in ManagerType, NEW o \in Answers, card \in BOOLEAN
    PROVE  StopKeeps(q, _update_storage_status(q, o)) /\ StopKeeps(q, _memorycard_event(q, o))
<1> DEFINE r == _update_storage_status(q, o)
           t == _memorycard_event(q, o)
<1>1. /\ r \in ManagerType
      /\ Sinks(r) = Sinks(q) /\ Evts(r) = Evts(q) /\ Told(r) = Told(q)
      /\ Reasons(r) = Reasons(q) /\ (RecOK(q) => RecOK(r))
    BY StorageChanges
<1>2. /\ t \in ManagerType
      /\ Sinks(t) = Sinks(q) /\ Evts(t) = Evts(q) /\ Told(t) = Told(q)
      /\ Reasons(t) = Reasons(q) /\ (RecOK(q) => RecOK(t))
    BY MemorycardChanges
<1> HIDE DEF r, t
<1>3. StopKeeps(q, r) /\ StopKeeps(q, t)
    BY <1>1, <1>2, GroupKeeps
<1> QED BY <1>3 DEF r, t

LEMMA StopAllKeeps ==
    ASSUME NEW q \in ManagerType
    PROVE  StopKeeps(q, _stop_all_event_streams(q))
<1> DEFINE r == _stop_all_event_streams(q)
<1>1. /\ r \in ManagerType
      /\ Sinks(r) = Sinks(q) /\ Recs(r) = Recs(q) /\ Evts(r) = Evts(q) /\ Told(r) = Told(q)
    BY StopAllChanges
<1> HIDE DEF r
<1>2. StopKeeps(q, r)
    BY <1>1, GroupKeeps
<1> QED BY <1>2 DEF r

LEMMA EventsConfigStep ==
    ASSUME Inv,
           on_get_cam_events_config \/ \E o \in Outcome : on_set_cam_events_config(o)
    PROVE  StepKeeps(m, m') /\ (ByInv => ByInv')
<1>0. m \in ManagerType /\ card \in BOOLEAN
    BY DEF Inv, TypeOK
<1> DEFINE a == _stop_all_event_streams(m)
<1>a. StopKeeps(m, a) /\ a \in ManagerType
    BY <1>0, StopAllKeeps DEF StopKeeps, Keeps
<1>1. CASE on_get_cam_events_config
    <2>1. StopKeeps(m, m') /\ wanted' = wanted /\ world' = world /\ rx' = rx
        BY <1>1, <1>a DEF on_get_cam_events_config
    <2> QED BY <2>1, QuietStep, SameTasks
<1>3. ASSUME NEW o \in Outcome, on_set_cam_events_config(o)
      PROVE  StepKeeps(m, m') /\ (ByInv => ByInv')
    <2>1. m' = _update_storage_status(a, o) /\ wanted' = wanted /\ world' = world /\ rx' = rx
        BY <1>3 DEF on_set_cam_events_config
    <2> HIDE DEF a
    <2>2. StopKeeps(a, m')
        BY <1>0, <1>a, <2>1, OutcomeType, StorageKeeps
    <2>3. StopKeeps(m, m')
        BY <1>a, <2>2, KeepsChain
    <2> QED BY <2>1, <2>3, QuietStep, SameTasks
<1> QED BY <1>1, <1>3

LEMMA RxTaskStep ==
    ASSUME Inv, NEW o \in Outcome, RxTask(o)
    PROVE  StepKeeps(m, m') /\ (ByInv => ByInv')
<1> DEFINE h == Head(rx)
           s == h[2]
<1>0. m \in ManagerType /\ card \in BOOLEAN /\ o \in Answers /\ Told(m)
    BY OutcomeType DEF Inv, TypeOK
<1>1. rx \in Seq(Task) /\ rx # <<>> /\ rx' = Tail(rx) /\ wanted' = wanted /\ world' = world
    BY DEF Inv, TypeOK, Task, RxTask
<1>2. h \in Task /\ h = rx[1] /\ 1 \in DOMAIN rx
    BY <1>1
<1>3. s \in Stream /\ h[1] \in {"start", "stop", "stop_all", "by_event"}
    BY <1>2 DEF Task
<1>4. NoByEventTask => NoByEventTask'
    <2>1. \A i \in DOMAIN Tail(rx) : i + 1 \in DOMAIN rx /\ Tail(rx)[i] = rx[i + 1]
        BY <1>1
    <2> QED BY <1>1, <2>1 DEF NoByEventTask
<1>5. PICK q : /\ q = CASE h[1] = "start" -> StartRecord(m, s, o)
                        [] h[1] = "stop" -> StopRecord(m, s)
                        [] h[1] = "by_event" -> StartRecordByEvent(m, s, o)
                        [] h[1] = "stop_all" -> _stop_stream(m, s)
               /\ m' = [q EXCEPT !.result = TRUE]
    BY DEF RxTask
<1> HIDE DEF h, s
<1>6. ASSUME NEW r \in ManagerType, m' = [r EXCEPT !.result = TRUE], Keeps(m, r),
             Quiet(m) => ~Open(r)
      PROVE  StepKeeps(m, m')
    <2>1. Keeps(r, m') /\ Told(m') /\ Open(m') = Open(r)
        BY <1>6, AnswerForgotten
    <2> QED BY <1>6, <2>1, KeepsChain DEF StepKeeps
<1>7. ASSUME NEW r \in ManagerType, m' = [r EXCEPT !.result = TRUE], EndKeeps(m, r)
      PROVE  StepKeeps(m, m') /\ (ByInv => ByInv')
    <2>1. Keeps(r, m') /\ Why(m') = Why(r) /\ Told(m') /\ Quiet(m') = Quiet(r)
        BY <1>7, AnswerForgotten
    <2>2. Told(m') = Told(m)
        BY <1>0, <1>1, <2>1 DEF Told, Inv, TypeOK, ManagerType
    <2>3. Keeps(m, m')
        BY <1>7, <2>1, KeepsChain DEF EndKeeps
    <2>4. EndKeeps(m, m')
        BY <1>7, <2>1, <2>2, <2>3 DEF EndKeeps, Why
    <2>5. RbeWanted => RbeWanted'
        BY <1>1 DEF RbeWanted
    <2> QED BY <1>1, <1>4, <2>4, <2>5, EndStep
<1>8. CASE h[1] = "start"
    <2>1. q = StartRecord(m, s, o)
        BY <1>5, <1>8
    <2>2. StartKeeps(m, q) /\ Why(q) = Why(m)
        BY <1>0, <1>3, <2>1, StartRecordKeeps
    <2>3. q \in ManagerType /\ Keeps(m, q) /\ (Quiet(m) => ~Open(q))
        BY <2>2 DEF StartKeeps, Keeps, Quiet
    <2>4. StepKeeps(m, m')
        BY <1>5, <1>6, <2>3
    <2>5. Why(m') = Why(m)
        BY <1>5, <2>2, <2>3, AnswerForgotten
    <2>6. ByInv => ByInv'
        BY <1>1, <1>4, <2>5 DEF ByInv, Fault, NoByEventTask, Why, ByOK
    <2> QED BY <2>4, <2>6
<1>9. CASE h[1] = "stop"
    <2>1. EndKeeps(m, q)
        BY <1>0, <1>3, <1>5, <1>9, StopRecordKeeps, EndIsStep
    <2>2. q \in ManagerType
        BY <2>1 DEF EndKeeps, Keeps
    <2> QED BY <1>5, <1>7, <2>1, <2>2
<1>10. CASE h[1] = "stop_all"
    <2>1. EndKeeps(m, q)
        BY <1>0, <1>3, <1>5, <1>10, StopStreamKeeps
    <2>2. q \in ManagerType
        BY <2>1 DEF EndKeeps, Keeps
    <2> QED BY <1>5, <1>7, <2>1, <2>2
<1>11. CASE h[1] = "by_event"
    <2>1. q = StartRecordByEvent(m, s, o)
        BY <1>5, <1>11
    <2>2. StartKeeps(m, q)
        BY <1>0, <1>3, <2>1, StartByEventKeeps
    <2>3. q \in ManagerType /\ Keeps(m, q) /\ (Quiet(m) => ~Open(q))
        BY <2>2 DEF StartKeeps, Keeps, Quiet
    <2>4. StepKeeps(m, m')
        BY <1>5, <1>6, <2>3
    <2>5. ~NoByEventTask
        BY <1>2, <1>11 DEF NoByEventTask
    <2>6. ByInv => ByInv'
        BY <1>1, <2>5 DEF ByInv, Fault, NoByEventTask
    <2> QED BY <2>4, <2>6
<1> QED BY <1>3, <1>8, <1>9, <1>10, <1>11

LEMMA StreamTimerStep ==
    ASSUME Inv, NEW e \in Event \cup Pulse, StreamTimer(e)
    PROVE  StepKeeps(m, m') /\ (ByInv => ByInv') /\ rx' \in Seq(Task)
<1> DEFINE v == m.events_states_[e]
<1>0. m \in ManagerType /\ rx \in Seq(Task) /\ e \in State
    BY DEF Inv, TypeOK, Task, State
<1>1. v \in Delivery
    BY <1>0, Fields
<1>2. /\ v.timers \in Seq(Timer) /\ v.seg_provider \in Stream /\ v.stop_pending \in BOOLEAN
      /\ Len(v.timers) \in Nat
    BY <1>1 DEF Delivery, Timer
<1>3. PICK i \in Due(v) :
         LET stop == v.timers[i][1] = "stop"
         IN  /\ rx' = Append(rx, IF stop THEN <<"stop", v.seg_provider>> ELSE v.timers[i])
             /\ m' = [m EXCEPT !.events_states_[e].timers = RemoveAt(@, i),
                               !.events_states_[e].stop_pending = @ /\ ~stop]
             /\ wanted' = wanted /\ world' = world
    BY DEF StreamTimer
<1> DEFINE t == IF v.timers[i][1] = "stop" THEN <<"stop", v.seg_provider>> ELSE v.timers[i]
           w == RemoveAt(v.timers, i)
           b == v.stop_pending /\ ~(v.timers[i][1] = "stop")
           x == [v EXCEPT !.timers = w, !.stop_pending = b]
           r == [m EXCEPT !.events_states_[e] = x]
<1>4. i \in 1..Len(v.timers)
    BY <1>2 DEF Due
<1>5. t \in Task /\ t[1] # "by_event"
    <2>1. v.timers[i] \in Timer
        BY <1>2, <1>4
    <2> QED BY <1>2, <2>1 DEF Timer, Task
<1>6. rx' = Append(rx, t)
    BY <1>3
<1>7. rx' \in Seq(Task)
    <2> HIDE DEF t
    <2> QED BY <1>0, <1>5, <1>6
<1>8. NoByEventTask => NoByEventTask'
    <2> HIDE DEF t
    <2>1. ASSUME NoByEventTask, NEW j \in DOMAIN rx' PROVE rx'[j][1] # "by_event"
        <3>1. CASE j = Len(rx) + 1
            BY <1>0, <1>5, <1>6, <3>1
        <3>2. CASE j # Len(rx) + 1
            <4>1. j \in DOMAIN rx /\ rx'[j] = rx[j]
                BY <1>0, <1>6, <2>1, <3>2
            <4> QED BY <2>1, <4>1 DEF NoByEventTask
        <3> QED BY <3>1, <3>2
    <2> QED BY <2>1 DEF NoByEventTask
<1>9. w \in Seq(Timer) /\ b \in BOOLEAN
    <2>1. i \in 0..Len(v.timers)
        BY <1>2, <1>4
    <2> HIDE DEF v
    <2> QED BY <1>2, <2>1, RemoveAtType
<1>10. x \in Delivery
    <2> HIDE DEF v, w, b
    <2> QED BY <1>1, <1>9 DEF Delivery, Timer
<1>11. m' = r
    <2>1. m.events_states_ \in [State -> Delivery]
        BY <1>0, Fields
    <2> HIDE DEF w, b
    <2>2. m' = [m EXCEPT !.events_states_[e].timers = w, !.events_states_[e].stop_pending = b]
        BY <1>3, <1>0, <2>1 DEF w, b, ManagerType
    <2> QED BY <1>0, <2>1, <2>2 DEF ManagerType
<1> HIDE DEF x
<1>12. /\ r \in ManagerType
       /\ Sinks(r) = Sinks(m) /\ Recs(r) = Recs(m) /\ Evts(r) = Evts(m) /\ Told(r) = Told(m)
    BY <1>0, <1>10, OneDelivery
<1> HIDE DEF r
<1>13. StopKeeps(m, m')
    BY <1>0, <1>11, <1>12, GroupKeeps
<1> QED BY <1>3, <1>7, <1>8, <1>13, QuietStep

\* One event state changes.
LEMMA DeliveryStep ==
    ASSUME Inv, NEW e \in State, NEW v \in Delivery,
           m' = [m EXCEPT !.events_states_[e] = v],
           wanted' = wanted, world' = world, rx' = rx
    PROVE  StepKeeps(m, m') /\ (ByInv => ByInv')
<1> DEFINE r == [m EXCEPT !.events_states_[e] = v]
<1>0. m \in ManagerType
    BY DEF Inv, TypeOK
<1>1. /\ r \in ManagerType
      /\ Sinks(r) = Sinks(m) /\ Recs(r) = Recs(m) /\ Evts(r) = Evts(m) /\ Told(r) = Told(m)
    BY <1>0, OneDelivery
<1>2. m' = r
    OBVIOUS
<1> HIDE DEF r
<1>3. StopKeeps(m, m')
    BY <1>0, <1>1, <1>2, GroupKeeps
<1> QED BY <1>3, QuietStep, SameTasks

LEMMA SwitchStep ==
    ASSUME Inv, NEW e \in Stateful, SwitchDelivery(e)
    PROVE  StepKeeps(m, m') /\ (ByInv => ByInv')
<1> DEFINE v == update_delivery_mode(e, m.events_states_[e], _current_delivery_mode(m),
                                     m.record_stream_)
<1>0. m \in ManagerType /\ e \in State
    BY DEF Inv, TypeOK, State, Stateful
<1>1. m.events_states_[e] \in Delivery /\ m.record_stream_ \in Stream
    BY <1>0, Fields
<1>2. v \in Delivery
    BY <1>1, CurrentMode, DeliveryTypes
<1>3. /\ m' = [m EXCEPT !.events_states_[e] = v]
      /\ wanted' = wanted /\ world' = world /\ rx' = rx
    BY DEF SwitchDelivery
<1> HIDE DEF v
<1> QED BY <1>0, <1>2, <1>3, DeliveryStep

LEMMA NotifyStep ==
    ASSUME Inv, NEW e \in Event \cup Pulse, BeginStart(e) \/ NotifyStart(e) \/ NotifyStop(e)
    PROVE  StepKeeps(m, m') /\ (ByInv => ByInv')
<1>0. m \in ManagerType /\ e \in State /\ deciding \in [State -> Mode \cup {"idle"}]
    BY DEF Inv, TypeOK, State
<1>1. m.events_states_[e] \in Delivery /\ m.record_stream_ \in Stream
    BY <1>0, Fields
<1>2. PICK v \in Delivery : m' = [m EXCEPT !.events_states_[e] = v]
    <2>0. "SDM_NONE" \in Mode
        BY DEF Mode
    <2>1. CASE NotifyStart(e)
        <3>1. deciding[e] \in Mode
            BY <1>0, <2>1 DEF NotifyStart
        <3>2. event_start(e, m.events_states_[e], deciding[e], m.record_stream_) \in Delivery
            BY <1>1, <3>1, DeliveryTypes
        <3> QED BY <2>1, <3>2 DEF NotifyStart
    <2>2. CASE NotifyStop(e)
        <3>2. event_stop(e, m.events_states_[e]) \in Delivery
            BY <1>1, <2>0, DeliveryTypes
        <3> QED BY <2>2, <3>2 DEF NotifyStop
    <2>3. CASE BeginStart(e)
        <3>2. event_active(m.events_states_[e]) \in Delivery
            BY <1>1, <2>0, DeliveryTypes
        <3> QED BY <2>3, <3>2 DEF BeginStart
    <2> QED BY <2>1, <2>2, <2>3
<1>5. wanted' = wanted /\ world' = world /\ rx' = rx
    BY DEF BeginStart, NotifyStart, NotifyStop
<1> QED BY <1>0, <1>2, <1>5, DeliveryStep

\* The manager asks for the card, on the thread of the user or of the control
\* connection.
LEMMA AskStep ==
    ASSUME Inv, NEW o \in Outcome,
           RefreshStorage(o) \/ \E b \in BOOLEAN : NotifyMemorycard(b, o)
    PROVE  StepKeeps(m, m') /\ (ByInv => ByInv')
<1> DEFINE a == AskMemorycard(m)
<1>0. m \in ManagerType /\ card \in BOOLEAN
    BY DEF Inv, TypeOK
<1>1. /\ a \in ManagerType
      /\ Sinks(a) = Sinks(m) /\ Recs(a) = Recs(m) /\ Evts(a) = Evts(m) /\ Told(a) = Told(m)
    BY <1>0 DEF AskMemorycard, ManagerType, Sinks, Recs, Evts, Told
<1>2. m' \in {a, m} /\ wanted' = wanted /\ world' = world /\ rx' = rx
    BY DEF NotifyMemorycard, RefreshStorage
<1> HIDE DEF a
<1>3. StopKeeps(m, a) /\ StopKeeps(m, m)
    BY <1>0, <1>1, GroupKeeps DEF StopKeeps, Keeps
<1>4. StopKeeps(m, m')
    BY <1>2, <1>3
<1> QED BY <1>2, <1>4, QuietStep, SameTasks

\* The tasks that a closed connection posts.
LEMMA StopAllTasks ==
    LET t == SetToSeq({<<"stop_all", z>> : z \in Stream})
    IN  t \in Seq(Task) /\ \A i \in DOMAIN t : t[i][1] = "stop_all"
<1> DEFINE T == {<<"stop_all", z>> : z \in Stream}
           f == [z \in Stream |-> <<"stop_all", z>>]
           t == SetToSeq(T)
<1>1. f \in Surjection(Stream, T)
    BY DEF Surjection
<1>2. IsFiniteSet(T)
    <2> HIDE DEF f, T
    <2> QED BY <1>1, StreamAssumption, FS_Surjection
<1>3. \A x \in T : x \in Task /\ x[1] = "stop_all"
    BY DEF Task
<1> HIDE DEF T
<1>4. t \in Seq(T)
    BY <1>2, SetToSeqType
<1> HIDE DEF t
<1>5. t \in Seq(Task)
    BY <1>3, <1>4
<1>6. \A i \in DOMAIN t : t[i] \in T
    BY <1>4
<1> QED BY <1>3, <1>5, <1>6 DEF t, T

LEMMA ClosedStep ==
    ASSUME Inv, on_closed
    PROVE  StepKeeps(m, m') /\ (ByInv => ByInv') /\ rx' \in Seq(Task)
<1> DEFINE s == m.record_stream_
           x == m.recording_status_[s]
           p == x.permanent
           d == x.direct_upload
           f == FALSE
           a == Reason(m, s, p, f, d)
           b == _stop_recording(a, s, f)
           c == _stop_all_event_streams(b)
           t == SetToSeq({<<"stop_all", z>> : z \in Stream})
<1>0. m \in ManagerType /\ rx \in Seq(Task)
    BY DEF Inv, TypeOK, Task
<1>f. f \in Truth /\ f \in BOOLEAN /\ ~f
    BY DEF Truth
<1>1. s \in Stream /\ x \in Status
    BY <1>0, Fields
<1>2. p \in Truth /\ d \in Truth
    BY <1>1 DEF Status, Truth
<1>3. [m EXCEPT !.recording_status_[s].by_event = FALSE] = a
    <2>1. [x EXCEPT !.by_event = f] = [permanent |-> p, by_event |-> f, direct_upload |-> d,
                                       started |-> x.started]
        <3> HIDE DEF x, f
        <3> QED BY <1>1, <1>f, StatusExcept
    <2>2. [m EXCEPT !.recording_status_[s].by_event = f] =
              [m EXCEPT !.recording_status_[s] = [x EXCEPT !.by_event = f]]
        OBVIOUS
    <2> QED BY <2>1, <2>2 DEF Reason
<1>4. m' = c /\ rx' = rx \o t /\ world' = world
    BY <1>3 DEF on_closed
<1>5. /\ a \in ManagerType
      /\ Sinks(a) = Sinks(m) /\ Evts(a) = Evts(m) /\ Told(a) = Told(m)
      /\ a.recording = m.recording
      /\ a.recording_status_[s].started = m.recording_status_[s].started
      /\ By(a)[s] = f
      /\ \A z \in Stream : z # s => (RecAt(m, z) => RecAt(a, z))
    <2>1. f \in Truth
        BY <1>f
    <2> HIDE DEF s, p, d, f
    <2> QED BY <1>0, <1>1, <1>2, <2>1, SetReason
<1> HIDE DEF a
<1>6. /\ b \in ManagerType
      /\ Sinks(b) = Sinks(a) /\ Evts(b) = Evts(a) /\ Told(b) = Told(a)
      /\ Reasons(b) = Reasons(a)
      /\ RecOK(m) => RecOK(b)
    <2>1. f \in BOOLEAN
        BY <1>f
    <2> HIDE DEF s, f
    <2>2. /\ b \in ManagerType
          /\ Sinks(b) = Sinks(a) /\ Evts(b) = Evts(a) /\ Told(b) = Told(a)
          /\ Reasons(b) = Reasons(a)
          /\ /\ \A z \in Stream : z # s => RecAt(a, z)
             /\ Knows(a, s)
             => RecOK(b)
        BY <1>1, <1>5, <2>1, StopRecordingChanges
    <2> HIDE DEF b
    <2> QED BY <1>1, <1>5, <2>2 DEF RecOK, RecAt, Knows
<1> HIDE DEF b
<1>7. /\ c \in ManagerType
      /\ Sinks(c) = Sinks(b) /\ Recs(c) = Recs(b) /\ Evts(c) = Evts(b) /\ Told(c) = Told(b)
    BY <1>6, StopAllChanges
<1> HIDE DEF c
<1>8. EndKeeps(m, c) /\ (One => ~By(c)[DefaultStream])
    <2>1. Sinks(c) = Sinks(m) /\ Evts(c) = Evts(m) /\ Told(c) = Told(m)
        BY <1>5, <1>6, <1>7
    <2>2. RecOK(m) => RecOK(c)
        BY <1>6, <1>7, SameRecs
    <2>3. By(c) = By(a)
        BY <1>6, <1>7, SameGroups
    <2>4. One => ~By(c)[DefaultStream]
        BY <1>1, <1>5, <1>f, <2>3 DEF One
    <2> QED BY <1>7, <2>1, <2>2, <2>4, SameGroups DEF EndKeeps, Keeps
<1>9. t \in Seq(Task) /\ \A i \in DOMAIN t : t[i][1] = "stop_all"
    BY StopAllTasks
<1> HIDE DEF t
<1>10. rx' \in Seq(Task)
    BY <1>0, <1>4, <1>9
<1>11. NoByEventTask => NoByEventTask'
    <2>1. ASSUME NoByEventTask, NEW j \in DOMAIN rx' PROVE rx'[j][1] # "by_event"
        <3>1. CASE j \in DOMAIN rx
            <4>1. rx'[j] = rx[j]
                BY <1>0, <1>4, <1>9, <3>1
            <4> QED BY <2>1, <3>1, <4>1 DEF NoByEventTask
        <3>2. CASE j \notin DOMAIN rx
            <4>1. j - Len(rx) \in DOMAIN t /\ rx'[j] = t[j - Len(rx)]
                BY <1>0, <1>4, <1>9, <2>1, <3>2
            <4>2. rx'[j][1] = "stop_all"
                BY <1>9, <4>1
            <4> QED BY <4>2
        <3> QED BY <3>1, <3>2
    <2> QED BY <2>1 DEF NoByEventTask
<1> QED BY <1>4, <1>8, <1>10, <1>11, EndStep

\* What the device and the sink do by themselves.
LEMMA DeviceStep ==
    ASSUME Inv, \/ CardChanges
                \/ \E s \in Stream : RecordingHalts(s) \/ SinkDies(s)
    PROVE  StepKeeps(m, m') /\ (ByInv => ByInv')
<1>0. m \in ManagerType
    BY DEF Inv, TypeOK
<1>1. ASSUME NEW f \in Flags, \A z \in Stream : f[z] => m.recording[z],
             m' = [m EXCEPT !.recording = f], wanted' = wanted, world' = world, rx' = rx
      PROVE  StepKeeps(m, m') /\ (ByInv => ByInv')
    <2> DEFINE r == [m EXCEPT !.recording = f]
    <2>1. /\ r \in ManagerType
          /\ Sinks(r) = Sinks(m) /\ Evts(r) = Evts(m) /\ Told(r) = Told(m)
          /\ r.recording_status_ = m.recording_status_ /\ r.recording = f
        BY <1>0, <1>1 DEF ManagerType, Flags, Sinks, Evts, Told
    <2>2. m' = r
        BY <1>1
    <2> HIDE DEF r
    <2>3. Reasons(r) = Reasons(m) /\ (RecOK(m) => RecOK(r))
        BY <1>1, <2>1 DEF Reasons, RecOK, RecAt, Enabled
    <2>4. StopKeeps(m, r)
        BY <1>0, <2>1, <2>3, GroupKeeps
    <2> QED BY <1>1, <2>2, <2>4, QuietStep, SameTasks
<1>2. CASE CardChanges
    <2> DEFINE f == [s \in Stream |-> m.recording[s] /\ ~card]
    <2>1. f \in Flags /\ \A z \in Stream : f[z] => m.recording[z]
        BY DEF Flags
    <2>2. /\ m' = [m EXCEPT !.recording = f]
          /\ wanted' = wanted /\ world' = world /\ rx' = rx
        BY <1>2 DEF CardChanges
    <2> HIDE DEF f
    <2> QED BY <1>1, <2>1, <2>2
<1>3. ASSUME NEW s \in Stream, RecordingHalts(s)
      PROVE  StepKeeps(m, m') /\ (ByInv => ByInv')
    <2> DEFINE f == [m.recording EXCEPT ![s] = FALSE]
    <2>1. f \in Flags /\ \A z \in Stream : f[z] => m.recording[z]
        BY <1>0, Fields DEF Flags
    <2>2. /\ m' = [m EXCEPT !.recording = f]
          /\ wanted' = wanted /\ world' = world /\ rx' = rx
        BY <1>3 DEF RecordingHalts
    <2> HIDE DEF f
    <2> QED BY <1>1, <2>1, <2>2
<1>4. ASSUME NEW s \in Stream, SinkDies(s)
      PROVE  StepKeeps(m, m') /\ (ByInv => ByInv')
    <2> DEFINE f == [m.sink_started_ EXCEPT ![s] = FALSE]
               r == [m EXCEPT !.sink_started_ = f, !.died = TRUE]
    <2>1. f \in Flags /\ ~f[s]
        BY <1>0, Fields DEF Flags
    <2>2. /\ m' = r /\ m.sink_started_[s]
          /\ wanted' = wanted /\ world' = world /\ rx' = rx
        BY <1>4 DEF SinkDies
    <2> HIDE DEF f
    <2>3. /\ r \in ManagerType
          /\ Recs(r) = Recs(m) /\ Evts(r) = Evts(m) /\ Told(r) = Told(m)
          /\ r.active_sinks_ = m.active_sinks_ /\ r.sink_started_ = f /\ r.died = TRUE
        BY <1>0, <2>1 DEF ManagerType, Flags, Recs, Evts, Told
    <2> HIDE DEF r
    <2>4. ASSUME One, SinkOK(m) PROVE SinkOK(r)
        <3>1. s = DefaultStream
            BY <2>4 DEF One
        <3>2. m.active_sinks_ = 1
            BY <2>2, <2>4, <3>1 DEF SinkOK
        <3> QED BY <2>1, <2>3, <3>1, <3>2 DEF SinkOK
    <2>5. StopKeeps(m, r)
        BY <1>0, <2>3, <2>4, GroupKeeps
    <2> QED BY <2>2, <2>5, QuietStep, SameTasks
<1> QED BY <1>2, <1>3, <1>4

\* What a step of any action establishes, with the streams overtaken after it.
StepInv ==
    /\ m' \in ManagerType /\ Told(m')
    /\ RecOK(m)'
    /\ One => SinkOK(m')
    /\ Quiet(m) => ~Open(m')
    /\ ByInv => ByInv'

LEMMA KeptStep ==
    ASSUME Inv, StepKeeps(m, m'), ByInv => ByInv', overtaken \subseteq overtaken'
    PROVE  StepInv
<1>1. RecOK(m')
    BY DEF Inv, StepKeeps, Keeps
<1>2. RecOK(m)'
    BY <1>1 DEF RecOK, RecAt, Enabled
<1> QED BY <1>2 DEF StepInv, StepKeeps, Keeps, Inv

\* A step of a caller that handles a report of the card: it changes what is
\* recorded, not what is asked for.
LEMMA RecordStep ==
    ASSUME Inv, m' \in ManagerType,
           Sinks(m') = Sinks(m), Evts(m') = Evts(m), Told(m') = Told(m),
           Reasons(m') = Reasons(m), RecOK(m)',
           wanted' = wanted, world' = world, rx' = rx
    PROVE  StepInv
<1>1. /\ Open(m') = Open(m) /\ By(m') = By(m)
      /\ m'.record_by_event_ = m.record_by_event_
      /\ m'.stream_by_event_ = m.stream_by_event_
    BY SameGroups
<1>2. One => SinkOK(m')
    BY SameGroups DEF Inv
<1>3. ByInv => ByInv'
    BY <1>1 DEF ByInv, ByOK, Fault
<1> QED BY <1>1, <1>2, <1>3 DEF StepInv, Inv, Quiet

LEMMA UseReportStep ==
    ASSUME Inv, NEW c \in Caller, UseReport(c)
    PROVE  StepInv
<1> DEFINE s == m.record_stream_
           b == noting[c].recording
           k == Known(m, s, b)
           q == IF c = "svc" THEN k ELSE m
           r == Noted(q, s, b)
<1>0. m \in ManagerType /\ noting[c] \in NoteType
    BY DEF Inv, TypeOK
<1>1. s \in Stream /\ b \in BOOLEAN
    BY <1>0, Fields DEF NoteType
<1>2. /\ m' = r /\ wanted' = wanted /\ world' = world /\ rx' = rx
      /\ overtaken' = IF c = "svc" /\ m.recording[s] /\ ~b
                      THEN overtaken \cup {s} ELSE overtaken
    BY DEF UseReport, Known
<1> HIDE DEF s, b
<1>3. /\ k \in ManagerType
      /\ Sinks(k) = Sinks(m) /\ Evts(k) = Evts(m) /\ Told(k) = Told(m)
      /\ k.recording = m.recording /\ k.recording_status_[s].started = b
      /\ Reasons(k) = Reasons(m)
      /\ \A z \in Stream : z # s => (RecAt(m, z) => RecAt(k, z))
    BY <1>0, <1>1, SetStarted
<1> HIDE DEF k
<1>4. /\ q \in ManagerType
      /\ Sinks(q) = Sinks(m) /\ Evts(q) = Evts(m) /\ Told(q) = Told(m)
      /\ Reasons(q) = Reasons(m)
    BY <1>0, <1>3
<1> HIDE DEF q
<1>5. /\ r \in ManagerType
      /\ Sinks(r) = Sinks(q) /\ Evts(r) = Evts(q) /\ Told(r) = Told(q)
      /\ Reasons(r) = Reasons(q)
      /\ RecOK(q) => RecOK(r)
    BY <1>1, <1>4, NotedChanges
<1>6. RecOK(m)'
    <2>1. CASE c = "svc" /\ m.recording[s] /\ ~b
        <3>1. r = Known(k, s, b)
            BY <1>3, <2>1 DEF q, Noted, Known
        <3>4. \A z \in Stream : z # s => (RecAt(k, z) => RecAt(Known(k, s, b), z))
            BY <1>1, <1>3, SetStarted
        <3>2. ASSUME NEW z \in Stream, z # s PROVE RecAt(m', z)
            BY <1>2, <1>3, <3>1, <3>2, <3>4 DEF Inv, RecOK
        <3>3. overtaken' = overtaken \cup {s}
            BY <1>2, <2>1
        <3> QED BY <3>2, <3>3 DEF RecOK, RecAt, Enabled
    <2>2. CASE ~(c = "svc" /\ m.recording[s] /\ ~b)
        <3>1. RecOK(q)
            <4>1. CASE c # "svc"
                BY <4>1 DEF q, Inv
            <4>2. CASE c = "svc"
                <5>1. Enabled(k, s) = Enabled(m, s) /\ RecAt(m, s)
                    BY <1>1, <1>3, ReasonsEnable DEF Inv, RecOK
                <5>2. RecAt(k, s)
                    BY <1>3, <2>2, <4>2, <5>1 DEF RecAt
                <5> QED BY <1>3, <4>2, <5>2 DEF q, Inv, RecOK
            <4> QED BY <4>1, <4>2
        <3>2. RecOK(m') /\ overtaken' = overtaken
            BY <1>2, <1>5, <2>2, <3>1
        <3> QED BY <3>2 DEF RecOK, RecAt, Enabled
    <2> QED BY <2>1, <2>2
<1> HIDE DEF r
<1> QED BY <1>2, <1>4, <1>5, <1>6, RecordStep

LEMMA StartNotedStep ==
    ASSUME Inv, NEW c \in Caller, NEW o \in Outcome, StartNoted(c, o)
    PROVE  StepInv
<1> DEFINE s == noting[c].stream
           b == m.recording_status_[s].started \/ o.record
           x == m.recording[s] \/ o.record
           r == Device(m, s, b, x)
<1>0. m \in ManagerType /\ noting[c] \in NoteType /\ o \in Answers
    BY OutcomeType DEF Inv, TypeOK
<1>1. s \in Stream /\ b \in BOOLEAN /\ x \in BOOLEAN
    BY <1>0, Fields DEF NoteType, Answers, Flags, Status
<1>2. /\ m' = r /\ wanted' = wanted /\ world' = world /\ rx' = rx
      /\ overtaken' = IF Enabled(m, s) THEN overtaken ELSE overtaken \cup {s}
    BY DEF StartNoted, start_record, Device
<1>3. s \in overtaken \/ (Enabled(m, s) => (x => b))
    BY <1>1 DEF Inv, RecOK, RecAt
<1> HIDE DEF s, b, x
<1>4. /\ r \in ManagerType
      /\ Sinks(r) = Sinks(m) /\ Evts(r) = Evts(m) /\ Told(r) = Told(m)
      /\ r.recording[s] = x /\ r.recording_status_[s].started = b
      /\ Reasons(r) = Reasons(m)
      /\ \A z \in Stream : z # s => (RecAt(m, z) => RecAt(r, z))
    BY <1>0, <1>1, SetStarted
<1> HIDE DEF r
<1>5. Enabled(r, s) = Enabled(m, s)
    BY <1>1, <1>4, ReasonsEnable
<1>6. \A z \in Stream : z # s => RecAt(m', z)
    BY <1>2, <1>4 DEF Inv, RecOK
<1>7. s \in overtaken' \/ (m'.recording[s] => m'.recording_status_[s].started /\ Enabled(m', s))
    BY <1>2, <1>3, <1>4, <1>5
<1>8. overtaken \subseteq overtaken'
    BY <1>2
<1>9. RecOK(m)'
    BY <1>6, <1>7, <1>8 DEF RecOK, RecAt, Enabled
<1> QED BY <1>2, <1>4, <1>9, RecordStep

\* The other steps do not overtake anything.
Overtakes == \E c \in Caller : UseReport(c) \/ \E o \in Outcome : StartNoted(c, o)

LEMMA NotOvertaking ==
    ASSUME Inv, [Next]_vars, ~Overtakes
    PROVE  overtaken \subseteq overtaken'
BY DEF Overtakes, Next, vars, threads, CloudStart, TestActive, SwitchDelivery, CloudStop,
       on_cam_memorycard_recording, on_set_stream_by_event, on_set_stream_config,
       on_get_cam_events_config, RefreshStorage, on_set_cam_events_config, RxTask, StreamTimer,
       ReadDeliveryMode, BeginStart, NotifyStart, NotifyStop, NotifyMemorycard, on_closed,
       Reconnected, CardChanges, RecordingHalts, SinkDies

LEMMA NextKeeps ==
    ASSUME Inv, [Next]_vars
    PROVE  StepInv
<1>0. m \in ManagerType /\ Told(m)
    BY DEF Inv, TypeOK
<1>1. StopKeeps(m, m)
    BY <1>0 DEF StopKeeps, Keeps
<1> DEFINE Kept == StepKeeps(m, m') /\ (ByInv => ByInv')
<1>2. ASSUME m' = m, wanted' = wanted, rx' = rx, world' = world
      PROVE  Kept
    BY <1>1, <1>2, QuietStep, SameTasks
<1>3. CASE Overtakes
    BY <1>3, UseReportStep, StartNotedStep DEF Overtakes
<1>4. CASE UNCHANGED vars
    <2>1. Kept
        BY <1>2, <1>4 DEF vars
    <2>2. overtaken' = overtaken
        BY <1>4 DEF vars, threads
    <2> QED BY <2>1, <2>2, KeptStep
<1>5. ASSUME Next, ~Overtakes PROVE Kept
    <2>1. CASE \E s \in Stream, r \in world.starts, o \in Outcome : CloudStart(s, r, o)
        BY <2>1, CloudStartStep
    <2>2. CASE \E s \in Stream, r \in world.stops : CloudStop(s, r)
        BY <2>2, CloudStopStep
    <2>3. CASE \E s \in Stream, b \in BOOLEAN, o \in Outcome : on_cam_memorycard_recording(s, b, o)
        BY <2>3, RecordingStep
    <2>4. CASE \E s \in Stream : on_set_stream_by_event(s)
        BY <2>4, ByEventStreamStep
    <2>5. CASE \E s \in Stream, o \in Outcome : on_set_stream_config(s, o)
        BY <2>5, StreamConfigStep
    <2>6. CASE on_get_cam_events_config \/ \E o \in Outcome : on_set_cam_events_config(o)
        BY <2>6, EventsConfigStep
    <2>7. CASE \E o \in Outcome : RxTask(o)
        BY <2>7, RxTaskStep
    <2>8. CASE \E e \in Event \cup Pulse : StreamTimer(e)
        BY <2>8, StreamTimerStep
    <2>9. CASE \E e \in Event \cup Pulse : ReadDeliveryMode(e)
        BY <1>2, <2>9 DEF ReadDeliveryMode
    <2>10. CASE \/ \E e \in Event : BeginStart(e) \/ NotifyStop(e)
                \/ \E e \in Event \cup Pulse : NotifyStart(e)
        BY <2>10, NotifyStep
    <2>11. CASE \/ \E o \in Outcome : RefreshStorage(o)
                \/ \E b \in BOOLEAN, o \in Outcome : NotifyMemorycard(b, o)
        BY <2>11, AskStep
    <2>12. CASE on_closed
        BY <2>12, ClosedStep
    <2>13. CASE Reconnected
        BY <1>2, <2>13 DEF Reconnected
    <2>14. CASE CardChanges \/ \E s \in Stream : RecordingHalts(s) \/ SinkDies(s)
        BY <2>14, DeviceStep
    <2>15. CASE \E e \in Stateful : TestActive(e)
        BY <1>2, <2>15 DEF TestActive
    <2>16. CASE \E e \in Stateful : SwitchDelivery(e)
        BY <2>16, SwitchStep
    <2> HIDE DEF Kept
    <2> QED
        BY <1>5, <2>1, <2>2, <2>3, <2>4, <2>5, <2>6, <2>7, <2>8, <2>9, <2>10, <2>11, <2>12,
           <2>13, <2>14, <2>15, <2>16 DEF Next, Overtakes
<1>6. CASE Next /\ ~Overtakes
    <2>1. overtaken \subseteq overtaken'
        BY <1>6, NotOvertaking
    <2> QED BY <1>5, <1>6, <2>1, KeptStep
<1> QED BY <1>3, <1>4, <1>6

\* The types of the other variables.
Others ==
    /\ rx \in Seq(Task)
    /\ registered_ \in BOOLEAN /\ card \in BOOLEAN /\ refresh \in BOOLEAN
    /\ deciding \in [State -> Mode \cup {"idle"}]
    /\ wanted \subseteq Stream \X ReasonKind
    /\ world \in Worlds

\* The types of what the threads are doing.
Threads ==
    /\ begun \subseteq Event /\ crossed \subseteq Event /\ overtaken \subseteq Stream
    /\ noting \in [Caller -> NoteType]
    /\ switching \in SwitchType

LEMMA LoopType == ASSUME NEW q PROVE Loop(q) \in SwitchType /\ NotSwitching \in SwitchType
BY DEF Loop, NotSwitching, SwitchType

LEMMA NextThreads ==
    ASSUME Inv, [Next]_vars
    PROVE  Threads'
<1>0. Threads /\ m \in ManagerType /\ card \in BOOLEAN
    BY DEF Inv, TypeOK, Threads
<1>1. CASE UNCHANGED threads
    BY <1>0, <1>1 DEF threads, Threads
<1>2. ASSUME NEW s \in Stream, NEW r \in world.starts, NEW o \in Outcome, CloudStart(s, r, o)
      PROVE  Threads'
    <2>1. switching' \in SwitchType /\ UNCHANGED <<begun, noting, overtaken, crossed>>
        BY <1>2, LoopType DEF CloudStart
    <2> QED BY <1>0, <2>1 DEF Threads
<1>3. ASSUME NEW o \in Outcome, RxTask(o) PROVE Threads'
    <2>1. switching' \in SwitchType /\ UNCHANGED <<begun, noting, overtaken, crossed>>
        BY <1>3, LoopType DEF RxTask
    <2> QED BY <1>0, <2>1 DEF Threads
<1>4. ASSUME NEW e \in Stateful, TestActive(e) PROVE Threads'
    <2>1. switching.todo \subseteq Stateful /\ {e} \subseteq Stateful
        BY <1>0 DEF Threads, SwitchType
    <2>2. switching' \in SwitchType
        BY <1>4, <2>1 DEF TestActive, SwitchType
    <2>3. UNCHANGED <<begun, noting, overtaken, crossed>>
        BY <1>4 DEF TestActive
    <2> QED BY <1>0, <2>2, <2>3 DEF Threads
<1>5. ASSUME NEW e \in Stateful, SwitchDelivery(e) PROVE Threads'
    <2>1. switching' \in SwitchType
        BY <1>0, <1>5 DEF SwitchDelivery, Threads, SwitchType
    <2>2. crossed' \subseteq Event
        BY <1>0, <1>5 DEF SwitchDelivery, Threads
    <2>3. UNCHANGED <<begun, noting, overtaken>>
        BY <1>5 DEF SwitchDelivery
    <2> QED BY <1>0, <2>1, <2>2, <2>3 DEF Threads
<1>9. NoteIdle \in NoteType
    BY StreamAssumption DEF NoteIdle, NoteType
<1>6. ASSUME NEW c \in Caller, NEW b, Note(c, b) PROVE noting' \in [Caller -> NoteType]
    <2> DEFINE x == m.recording[m.record_stream_]
               n == [NoteIdle EXCEPT !.at = "report", !.card = card, !.recording = x]
    <2>1. x \in BOOLEAN
        BY <1>0, Fields DEF Flags
    <2>2. noting' = (IF b THEN [noting EXCEPT ![c] = n] ELSE noting)
        BY <1>6 DEF Note
    <2> HIDE DEF x
    <2>4. n \in NoteType
        BY <1>0, <1>9, <2>1 DEF NoteType
    <2> HIDE DEF n
    <2> QED BY <1>0, <2>2, <2>4 DEF Threads
<1>7. ASSUME NEW o \in Outcome, RefreshStorage(o) PROVE Threads'
    <2>1. "svc" \in Caller /\ \E b : Note("svc", b)
        BY <1>7 DEF RefreshStorage, Caller
    <2>2. noting' \in [Caller -> NoteType]
        BY <1>6, <2>1
    <2>3. UNCHANGED <<begun, switching, overtaken, crossed>>
        BY <1>7 DEF RefreshStorage
    <2> QED BY <1>0, <2>2, <2>3 DEF Threads
<1>8. ASSUME NEW b \in BOOLEAN, NEW o \in Outcome, NotifyMemorycard(b, o) PROVE Threads'
    <2>1. "user" \in Caller /\ \E x : Note("user", x)
        BY <1>8 DEF NotifyMemorycard, Caller
    <2>2. noting' \in [Caller -> NoteType]
        BY <1>6, <2>1
    <2>3. UNCHANGED <<begun, switching, overtaken, crossed>>
        BY <1>8 DEF NotifyMemorycard
    <2> QED BY <1>0, <2>2, <2>3 DEF Threads
<1>10. ASSUME NEW c \in Caller, UseReport(c) PROVE Threads'
    <2> DEFINE s == m.record_stream_
               n == [NoteIdle EXCEPT !.at = "start", !.stream = s]
    <2>1. s \in Stream
        BY <1>0, Fields
    <2>2. noting' \in {[noting EXCEPT ![c] = n], [noting EXCEPT ![c] = NoteIdle]}
        BY <1>10 DEF UseReport
    <2>3. overtaken' \in {overtaken \cup {s}, overtaken} /\ UNCHANGED <<begun, switching, crossed>>
        BY <1>10 DEF UseReport
    <2> HIDE DEF s
    <2>5. n \in NoteType
        BY <1>9, <2>1 DEF NoteType
    <2> HIDE DEF n
    <2>6. noting' \in [Caller -> NoteType]
        BY <1>0, <1>9, <2>2, <2>5 DEF Threads
    <2> QED BY <1>0, <2>1, <2>3, <2>6 DEF Threads
<1>11. ASSUME NEW c \in Caller, NEW o \in Outcome, StartNoted(c, o) PROVE Threads'
    <2> DEFINE s == noting[c].stream
    <2>1. s \in Stream
        BY <1>0 DEF Threads, NoteType
    <2>2. noting' = [noting EXCEPT ![c] = NoteIdle]
        BY <1>11 DEF StartNoted
    <2>3. overtaken' \in {overtaken \cup {s}, overtaken} /\ UNCHANGED <<begun, switching, crossed>>
        BY <1>11 DEF StartNoted
    <2> HIDE DEF s
    <2>4. noting' \in [Caller -> NoteType]
        BY <1>0, <1>9, <2>2 DEF Threads
    <2> QED BY <1>0, <2>1, <2>3, <2>4 DEF Threads
<1>12. ASSUME NEW e, e \in Event \cup Pulse,
              ReadDeliveryMode(e) \/ BeginStart(e) \/ NotifyStart(e)
       PROVE  Threads'
    <2>1. begun' \subseteq Event
        BY <1>0, <1>12 DEF ReadDeliveryMode, BeginStart, NotifyStart, Threads
    <2>2. UNCHANGED <<noting, switching, overtaken, crossed>>
        BY <1>12 DEF ReadDeliveryMode, BeginStart, NotifyStart
    <2> QED BY <1>0, <2>1, <2>2 DEF Threads
<1>13. ASSUME NEW e \in Event, NotifyStop(e) PROVE Threads'
    <2>1. crossed' \subseteq Event
        BY <1>0, <1>13 DEF NotifyStop, Threads
    <2>2. UNCHANGED <<begun, noting, switching, overtaken>>
        BY <1>13 DEF NotifyStop
    <2> QED BY <1>0, <2>1, <2>2 DEF Threads
<1>14. CASE \/ \E s \in Stream, r \in world.stops : CloudStop(s, r)
            \/ \E s \in Stream, b \in BOOLEAN, o \in Outcome : on_cam_memorycard_recording(s, b, o)
            \/ \E s \in Stream : on_set_stream_by_event(s)
            \/ \E s \in Stream, o \in Outcome : on_set_stream_config(s, o)
            \/ on_get_cam_events_config
            \/ \E o \in Outcome : on_set_cam_events_config(o)
            \/ \E e \in Event \cup Pulse : StreamTimer(e)
            \/ on_closed \/ Reconnected \/ CardChanges
            \/ \E s \in Stream : RecordingHalts(s) \/ SinkDies(s)
    <2>1. UNCHANGED threads
        BY <1>14 DEF CloudStop, on_cam_memorycard_recording, on_set_stream_by_event,
               on_set_stream_config, on_get_cam_events_config, on_set_cam_events_config,
               StreamTimer, on_closed, Reconnected, CardChanges, RecordingHalts, SinkDies
    <2> QED BY <1>1, <2>1
<1>15. CASE UNCHANGED vars
    BY <1>1, <1>15 DEF vars
<1> QED BY <1>2, <1>3, <1>4, <1>5, <1>7, <1>8, <1>10, <1>11, <1>12, <1>13, <1>14, <1>15 DEF Next

LEMMA NextTypes ==
    ASSUME Inv, [Next]_vars
    PROVE  Others'
<1>0. Others
    BY DEF Inv, TypeOK, Others, Task
<1>1. CASE UNCHANGED vars
    BY <1>0, <1>1 DEF vars, threads, Others
<1>2. ASSUME NEW s \in Stream, NEW r \in world.starts, NEW o \in Outcome, CloudStart(s, r, o)
      PROVE  Others'
    <2>1. <<s, r>> \in Stream \X ReasonKind
        BY StartsType DEF Inv
    <2>2. wanted' \subseteq Stream \X ReasonKind
        <3>1. wanted' = wanted \cup {<<s, r>>} \/ wanted' = wanted
            BY <1>2 DEF CloudStart
        <3> QED BY <1>0, <2>1, <3>1 DEF Others
    <2> QED BY <1>0, <1>2, <2>2 DEF CloudStart, Others
<1>3. ASSUME NEW s \in Stream, NEW r \in world.stops, CloudStop(s, r)
      PROVE  Others'
    BY <1>0, <1>3 DEF threads, CloudStop, Others
<1>4. ASSUME NEW s \in Stream, NEW b \in BOOLEAN, NEW o \in Outcome,
             on_cam_memorycard_recording(s, b, o)
      PROVE  Others'
    BY <1>0, <1>4 DEF threads, on_cam_memorycard_recording, Others
<1>5. ASSUME NEW s \in Stream, on_set_stream_by_event(s) PROVE Others'
    BY <1>0, <1>5 DEF threads, on_set_stream_by_event, Others
<1>6. ASSUME NEW s \in Stream, NEW o \in Outcome, on_set_stream_config(s, o) PROVE Others'
    <2>1. <<"stop_all", s>> \in Task /\ <<"by_event", s>> \in Task
        BY DEF Task
    <2> DEFINE t == <<"stop_all", s>>
               u == <<"by_event", s>>
    <2>2. \/ rx' = rx \o <<t>> \o <<u>>
          \/ rx' = rx \o <<t>> \o <<>>
          \/ rx' = Append(rx, t)
        BY <1>6 DEF on_set_stream_config
    <2> HIDE DEF t, u
    <2>3. t \in Task /\ u \in Task
        BY <2>1 DEF t, u
    <2>4. rx' \in Seq(Task)
        <3>1. rx \in Seq(Task) /\ <<t>> \in Seq(Task) /\ <<u>> \in Seq(Task)
            BY <1>0, <2>3 DEF Others
        <3>2. rx \o <<t>> \in Seq(Task) /\ Append(rx, t) \in Seq(Task)
            BY <2>3, <3>1
        <3>3. (rx \o <<t>>) \o <<u>> \in Seq(Task) /\ (rx \o <<t>>) \o <<>> \in Seq(Task)
            BY <3>1, <3>2
        <3> QED BY <2>2, <3>2, <3>3
    <2> QED BY <1>0, <1>6, <2>4 DEF threads, on_set_stream_config, Others
<1>7. CASE on_get_cam_events_config
    BY <1>0, <1>7 DEF threads, on_get_cam_events_config, Others
<1>8. ASSUME NEW o \in Outcome, RefreshStorage(o) \/ on_set_cam_events_config(o) PROVE Others'
    BY <1>0, <1>8 DEF threads, RefreshStorage, on_set_cam_events_config, Others
<1>9. ASSUME NEW o \in Outcome, RxTask(o) PROVE Others'
    <2>1. Tail(rx) \in Seq(Task)
        BY <1>0, <1>9 DEF RxTask, Others
    <2> QED BY <1>0, <1>9, <2>1 DEF RxTask, Others
<1>10. ASSUME NEW e \in Event \cup Pulse, StreamTimer(e) PROVE Others'
    <2>1. rx' \in Seq(Task)
        BY <1>10, StreamTimerStep
    <2>2. UNCHANGED <<registered_, card, deciding, refresh, wanted, world>>
        BY <1>10 DEF threads, StreamTimer
    <2> QED BY <1>0, <2>1, <2>2 DEF Others
<1>11. ASSUME NEW e \in Event \cup Pulse, ReadDeliveryMode(e) \/ NotifyStart(e) PROVE Others'
    <2>1. deciding' \in [State -> Mode \cup {"idle"}]
        <3>1. _current_delivery_mode(m) \in Mode
            BY CurrentMode
        <3>2. \E x \in Mode \cup {"idle"} : deciding' = [deciding EXCEPT ![e] = x]
            BY <1>11, <3>1 DEF ReadDeliveryMode, NotifyStart
        <3> QED BY <1>0, <3>2 DEF Others
    <2>2. UNCHANGED <<rx, registered_, card, refresh, wanted, world>>
        BY <1>11 DEF ReadDeliveryMode, NotifyStart
    <2> QED BY <1>0, <2>1, <2>2 DEF Others
<1>12. ASSUME NEW e \in Event, NotifyStop(e) \/ BeginStart(e) PROVE Others'
    BY <1>0, <1>12 DEF NotifyStop, BeginStart, Others
<1>13. ASSUME NEW b \in BOOLEAN, NEW o \in Outcome, NotifyMemorycard(b, o) PROVE Others'
    BY <1>0, <1>13 DEF NotifyMemorycard, Others
<1>18. ASSUME NEW e \in Stateful, TestActive(e) \/ SwitchDelivery(e) PROVE Others'
    BY <1>0, <1>18 DEF TestActive, SwitchDelivery, Others
<1>20. CASE Overtakes
    BY <1>0, <1>20 DEF Overtakes, UseReport, StartNoted, Others
<1>14. CASE on_closed
    <2>1. rx' \in Seq(Task)
        BY <1>14, ClosedStep
    <2>2. registered_' = FALSE /\ wanted' = {} /\ UNCHANGED <<card, deciding, refresh, world>>
        BY <1>14 DEF threads, on_closed
    <2> QED BY <1>0, <2>1, <2>2 DEF Others
<1>15. CASE Reconnected
    BY <1>0, <1>15 DEF threads, Reconnected, Others
<1>16. CASE CardChanges
    BY <1>0, <1>16 DEF threads, CardChanges, Others
<1>17. ASSUME NEW s \in Stream, RecordingHalts(s) \/ SinkDies(s) PROVE Others'
    BY <1>0, <1>17 DEF threads, RecordingHalts, SinkDies, Others
<1> QED BY <1>1, <1>2, <1>3, <1>4, <1>5, <1>6, <1>7, <1>8, <1>9, <1>10, <1>11, <1>12, <1>13,
           <1>14, <1>15, <1>16, <1>17, <1>18, <1>20 DEF Next, Overtakes

LEMMA NextCorrect ==
    ASSUME Inv, [Next]_vars
    PROVE  Inv' /\ (ByInv => ByInv') /\ (Quiet(m) => ~Open(m'))
<1>1. StepInv
    BY NextKeeps
<1>2. Others' /\ Threads'
    BY NextTypes, NextThreads
<1>3. /\ m' \in ManagerType /\ Told(m') /\ RecOK(m)' /\ (One => SinkOK(m'))
      /\ Quiet(m) => ~Open(m')
    BY <1>1 DEF StepInv
<1>4. TypeOK'
    BY <1>2, <1>3 DEF TypeOK, Others, Threads, Task
<1> QED BY <1>1, <1>3, <1>4 DEF Inv, StepInv
-----------------------------------------------------------------------------
(***************************************************************************)
(* The theorems.                                                           *)
(***************************************************************************)

\* Inv is an invariant of the manager, and so is ByInv.
LEMMA InvHolds == Spec => []Inv /\ []ByInv
<1>1. Init => Inv /\ ByInv
    BY InitCorrect
<1>2. Inv /\ ByInv /\ [Next]_vars => Inv' /\ ByInv'
    BY NextCorrect
<1> QED BY <1>1, <1>2, PTL DEF Spec

\* Every variable keeps its type, whatever the numbers of streams and events and
\* the surroundings; active_sinks_ in particular never becomes negative.
THEOREM TypeCorrect == Spec => []TypeOK
<1>1. Inv => TypeOK
    BY DEF Inv
<1> QED BY <1>1, InvHolds, PTL

\* The device records a stream only while somebody wants it to, for any number
\* of streams: every handler that withdraws a reason stops the recording when it
\* was the last, also after the device or the card went off and on and whichever
\* thread a report of the card comes from; what another thread had decided to
\* start before, or reports after it is no longer so, is the only exception.
THEOREM RecordingWantedCorrect == Spec => []RecordingWanted
<1>1. Inv => RecordingWanted
    BY DEF Inv, RecOK, RecAt, RecordingWanted
<1> QED BY <1>1, InvHolds, PTL

\* With one stream, active_sinks_ counts the running sink and the one that
\* stopped itself, through any mixture of starts, stops and failures.
THEOREM SinkCountedCorrect ==
    ASSUME Stream = {DefaultStream}
    PROVE  Spec => []SinkCounted
<1>1. Inv => SinkCounted
    <2> SUFFICES ASSUME Inv PROVE SinkCounted
        OBVIOUS
    <2>1. SinkOK(m)
        BY DEF Inv, One
    <2>2. CASE m.sink_started_[DefaultStream]
        <3>1. {s \in Stream : m.sink_started_[s]} = {DefaultStream}
            BY <2>2
        <3>2. Cardinality({DefaultStream}) = 1
            BY FS_Singleton
        <3> QED BY <2>1, <2>2, <3>1, <3>2 DEF SinkOK, SinkCounted
    <2>3. CASE ~m.sink_started_[DefaultStream]
        <3>1. {s \in Stream : m.sink_started_[s]} = {}
            BY <2>3
        <3>2. Cardinality({}) = 0
            BY FS_EmptySet
        <3> QED BY <2>1, <2>3, <3>1, <3>2 DEF SinkOK, SinkCounted
    <2> QED BY <2>2, <2>3
<1> QED BY <1>1, InvHolds, PTL

\* With one stream, the manager never stops the source under the sink.
THEOREM SinkFedCorrect ==
    ASSUME Stream = {DefaultStream}
    PROVE  Spec => []SinkFed
<1>1. Inv => SinkFed
    BY DEF Inv, One, SinkOK, SinkFed
<1> QED BY <1>1, InvHolds, PTL

\* Event-driven streaming ends with its record event closed, for any number of
\* streams and events, unless a direct upload recording is under way.
THEOREM RecordEventClosedCorrect == Spec => RecordEventClosed
<1>1. Inv /\ [Next]_vars
      => [~m'.stream_by_event_ /\ m'.record_event_depth_ > 0
          => \/ ~m.stream_by_event_ /\ m.record_event_depth_ > 0
             \/ m.continuos_direct_record_]_vars
    BY NextCorrect DEF Quiet, Open
<1> QED BY <1>1, InvHolds, PTL DEF Spec, RecordEventClosed

\* With one stream, it is marked for event-driven recording only if the Cloud
\* asked for that and has not taken it back.
THEOREM ByEventAskedCorrect ==
    ASSUME Stream = {DefaultStream}
    PROVE  Spec => []ByEventAsked
<1>1. ByInv => ByEventAsked
    BY DEF ByInv, One, By, ByEventAsked
<1> QED BY <1>1, InvHolds, PTL
=============================================================================
