--------------------------- MODULE StreamControl ---------------------------
(***************************************************************************)
(* What the manager (agent/manager.cc) streams and records, and why: the   *)
(* Cloud's stream_start and stream_stop with their reasons, recording to   *)
(* the memory card, and the streams that events start and stop by          *)
(* themselves when there is no card (event_state in agent/manager.h).      *)
(*                                                                         *)
(* Four kinds of threads take part, without a common lock:                 *)
(*   rx     runs the Cloud's commands and the tasks of rx_task_q_;         *)
(*   http   runs the timers of the event states, which post tasks to rx;   *)
(*   svc    the control connection: it asks for the memory card again;     *)
(*   user   calls notify_event(), at the same time for different events.   *)
(* A command may overtake queued tasks: one drain() of rx_q_ handles every *)
(* command that has arrived, tasks posted meanwhile come after it.         *)
(*                                                                         *)
(* Handlers of the rx thread are operators from the manager's state to its *)
(* next state, since they call each other. An outcome o fixes what the     *)
(* user's code answers during one handler. A handler is one step, but for  *)
(* its loop over the events whose delivery it switches; a call on another  *)
(* thread has a step for what it reads and steps for what it does with it. *)
(***************************************************************************)
EXTENDS Integers, Sequences, SequencesExt, FiniteSetsExt

CONSTANTS Stream,       \* streams_
          DefaultStream,\* streams_[0]
          Event,        \* stateful events with caps.stream
          Pulse,        \* stateless events with caps.stream
          Direct,       \* the hidden event state "direct-upload-recording"
          NeedsSource,  \* record_needs_source()
          Worlds        \* the surroundings a behaviour may have, see World

FaultKind == {"source", "sink", "record",  \* the call fails
              "info",     \* on_get_memorycard_info() fails
              "unknown",  \* the device does not report recording_status
              "card",     \* the card is removed and inserted
              "halt",     \* the device stops recording by itself
              "config",   \* set_stream_config, set_cam_events
              "dies",     \* the publishing sink stops itself on an error
              "close"}    \* the control connection is lost

ReasonKind == {"LIVE", "RECORD", "RECORD_BY_EVENT", "RECORD_DIRECT"}

\* What surrounds the manager in one behaviour: the events that occur, the
\* reasons the Cloud gives in stream_start and in stream_stop, what may go
\* wrong, and three bounds on when new work comes: the timers of one event
\* state, the tasks in rx_task_q_ and record_event_depth_.
World == [events : SUBSET (Event \cup Pulse),
          starts : SUBSET ReasonKind, stops : SUBSET ReasonKind,
          reports : BOOLEAN, faults : SUBSET FaultKind,
          MaxTimers : Nat, MaxTasks : Nat, MaxDepth : Nat]

ASSUME StreamAssumption ==
    /\ DefaultStream \in Stream /\ IsFiniteSet(Stream)
    /\ IsFiniteSet(Event \cup Pulse)
    /\ Event \cap Pulse = {} /\ Direct \notin Event \cup Pulse
    /\ NeedsSource \in BOOLEAN
    /\ \A w \in Worlds : w \in World /\ w.stops \subseteq w.starts

State == Event \cup Pulse \cup {Direct}    \* keys of events_states_
Stateful == Event \cup {Direct}

Caller == {"user", "svc"}    \* who handles a report of the memory card

AllWell == [source |-> TRUE, sink |-> TRUE, record |-> TRUE, info |-> TRUE, known |-> TRUE]

VARIABLES
    m,           \* the manager's state, see ManagerType
    rx,          \* rx_task_q_
    registered_,
    card,        \* the memory card is usable (MCS_NORMAL)
    deciding,    \* deciding[e]: delivery mode notify_event() has read
    begun,       \* events whose event_state::start() has set active_ only
    noting,      \* noting[c]: the report of the memory card a caller handles
    switching,   \* the loop of rx over the events whose delivery it switches
    refresh,     \* the timer of on_get_cam_events_config() is pending
    wanted,      \* observation: starts the Cloud asked for, <<stream, reason>>
    overtaken,   \* observation: streams whose recording another thread changed
                 \* under a report or a start
    crossed,     \* observation: events that started or stopped under the loop
    world        \* the surroundings, fixed by Init

threads == <<deciding, begun, noting, switching, overtaken, crossed>>
vars == <<m, rx, registered_, card, threads, refresh, wanted, world>>

Fault == world.faults

\* What the user's code answers to one handler.
Reply(kind) == IF kind \in Fault THEN BOOLEAN ELSE {TRUE}
Outcome == [source : Reply("source"), sink : Reply("sink"), record : Reply("record"),
            info : Reply("info"), known : Reply("unknown")]

Mode == {"SDM_NONE", "SDM_UPLOAD", "SDM_STREAM"}

ManagerType ==
    [active_sinks_ : Nat,
     record_stream_ : Stream,
     record_by_event_ : BOOLEAN,
     stream_by_event_ : BOOLEAN,
     continuos_direct_record_ : BOOLEAN,
     record_event_depth_ : Nat,
     recording_status_ : [Stream -> [permanent : BOOLEAN, by_event : BOOLEAN,
                                     direct_upload : BOOLEAN, started : BOOLEAN]],
     memorycard_info_ : BOOLEAN,
     source_started_ : [Stream -> BOOLEAN],
     sink_started_ : [Stream -> BOOLEAN],
     events_states_ : [State -> [active_ : BOOLEAN,
                                 delivery_mode_ : Mode,
                                 seg_provider : Stream,
                                 timers : Seq({"start", "stop"} \X Stream),
                                 stop_pending : BOOLEAN]],
     recording : [Stream -> BOOLEAN],  \* what the device really records
     died : BOOLEAN,                   \* observation: a counted sink stopped itself
     result : BOOLEAN]                 \* what on_stream_start() returns

\* A report of the memory card: whether it is usable and the device records.
\* When a recording is to be started, of which stream.
NoteType == [at : {"idle", "report", "start"}, card : BOOLEAN, recording : BOOLEAN,
             stream : Stream]
SwitchType == [todo : SUBSET Stateful, passed : SUBSET Stateful]
----------------------------------------------------------------------------
(* media::stream: the source and the publishing sink of a stream *)

start(q, s, o) == [q EXCEPT !.source_started_[s] = @ \/ o.source]

\* Faulty: a sink that failed to start is counted.
start_sink_counts_failure(q, s, o) ==
    IF q.active_sinks_ > 0 THEN q
    ELSE [q EXCEPT !.sink_started_[s] = @ \/ o.sink, !.active_sinks_ = 1]

\* start_sink() behind the test that no sink at all is counted.
start_sink(q, s, o) ==
    LET started == q.sink_started_[s] \/ o.sink
    IN  IF q.active_sinks_ > 0 THEN q
        ELSE [q EXCEPT !.sink_started_[s] = started,
                       !.active_sinks_ = IF started THEN 1 ELSE 0,
                       !.result = started]

\* Faulty: nothing is counted and yet one is taken off.
drop_sink_unchecked(q, s) ==
    [q EXCEPT !.active_sinks_ = @ - 1, !.sink_started_[s] = FALSE]

drop_sink(q, s) ==
    IF q.active_sinks_ = 0 THEN q
    ELSE [q EXCEPT !.active_sinks_ = @ - 1,
                   !.sink_started_[s] = @ /\ q.active_sinks_ > 1,
                   !.died = @ /\ q.active_sinks_ > 1]

\* Faulty: the source is stopped under a running sink.
stop_source_always(q, s) ==
    IF ~q.record_by_event_ THEN [q EXCEPT !.source_started_[s] = FALSE] ELSE q

\* The end of on_stream_stop().
stop_idle_source(q, s) ==
    IF q.active_sinks_ = 0 /\ (~q.record_by_event_ \/ ~NeedsSource)
    THEN [q EXCEPT !.source_started_[s] = FALSE]
    ELSE q

----------------------------------------------------------------------------
(* Recording to the memory card *)

Enabled(q, s) == LET r == q.recording_status_[s]
                 IN  r.permanent \/ r.by_event \/ r.direct_upload

\* The tests of _start_recording() and what follows them.
NeedsStart(q, s) ==
    q.memorycard_info_ /\ Enabled(q, s) /\ ~q.recording_status_[s].started

start_record(q, s, o) == [q EXCEPT !.recording_status_[s].started = @ \/ o.record,
                                   !.recording[s] = @ \/ o.record]

_start_recording(q, s, o) == IF NeedsStart(q, s) THEN start_record(q, s, o) ELSE q

_stop_recording(q, s, force) ==
    IF (~Enabled(q, s) /\ q.recording_status_[s].started) \/ force
    THEN [q EXCEPT !.recording_status_[s].started = FALSE,
                   !.recording[s] = FALSE]
    ELSE q

\* notify_event() takes over from a report whether the device records.
Noted(q, s, recording) ==
    LET halted == q.recording_status_[s].started /\ ~recording
        seen == [q EXCEPT !.recording_status_[s].started = recording]
    IN  IF halted THEN _stop_recording(seen, s, TRUE) ELSE seen

\* notify_event(ET_MEMORYCARD) on rx with a report of the card as it is.
_memorycard_event(q, o) ==
    LET s == q.record_stream_
    IN  IF card /\ o.known THEN _start_recording(Noted(q, s, q.recording[s]), s, o)
        ELSE q

_update_storage_status(q, o) ==
    LET s == q.record_stream_
        seen == [q EXCEPT !.memorycard_info_ = card,
                          !.recording_status_[s].started =
                              IF o.known THEN q.recording[s] ELSE @]
    IN  IF ~o.info THEN q
        ELSE IF registered_ THEN _memorycard_event(seen, o) ELSE seen

----------------------------------------------------------------------------
(* event_state: how the video of an event is delivered *)

\* The hidden event state has no stream callbacks.
_start_delivery(e, v) ==
    IF v.delivery_mode_ = "SDM_STREAM" /\ e # Direct
    THEN [v EXCEPT !.timers = Append(@, <<"start", v.seg_provider>>)]
    ELSE v

\* Faulty: the end of an event schedules no stop of its stream.
_stop_delivery_upload_only(e, v) == v

_stop_delivery(e, v) ==
    IF v.delivery_mode_ = "SDM_STREAM" /\ e # Direct
    THEN [v EXCEPT !.timers = Append(@, <<"stop", v.seg_provider>>),
                   !.stop_pending = TRUE]
    ELSE v

\* stream_delivery_stop_pending_timer_ is the timer scheduled last.
CancelPendingStop(v) ==
    IF v.stop_pending
    THEN [v EXCEPT !.timers =
                       RemoveAt(@, SelectLastInSeq(@, LAMBDA t : t[1] = "stop")),
                   !.stop_pending = FALSE]
    ELSE v

\* event_state::start(): first active_ is set,
event_active(v) == [v EXCEPT !.active_ = TRUE]

\* then the delivery begins.
event_start(e, v, mode, s) ==
    _start_delivery(e, [v EXCEPT !.delivery_mode_ = mode, !.seg_provider = s])

event_stop(e, v) == _stop_delivery(e, [v EXCEPT !.active_ = FALSE])

update_delivery_mode(e, v, mode, s) ==
    IF mode = v.delivery_mode_ THEN v
    ELSE _start_delivery(e, CancelPendingStop(
             [_stop_delivery(e, v) EXCEPT !.delivery_mode_ = mode,
                                          !.seg_provider = s]))

_current_delivery_mode(q) ==
    IF q.record_by_event_ THEN "SDM_UPLOAD"
    ELSE IF q.stream_by_event_ THEN "SDM_STREAM" ELSE "SDM_NONE"

_stop_all_event_streams(q) ==
    [q EXCEPT !.events_states_ = [e \in State |->
        IF e \in Stateful /\ @[e].active_ THEN event_stop(e, @[e]) ELSE @[e]]]

----------------------------------------------------------------------------
(* on_stream_start() *)

\* The 'record' event is sent when the depth leaves or reaches zero.
__notify_record_event(q, on) ==
    IF on THEN [q EXCEPT !.record_event_depth_ = @ + 1]
    ELSE [q EXCEPT !.record_event_depth_ = IF @ = 0 THEN 0 ELSE @ - 1]

Refused(q) == [q EXCEPT !.result = FALSE]

StartLive(q, s, o) ==
    LET a == start(q, s, o)
    IN  IF a.source_started_[s] THEN start_sink(a, s, o) ELSE Refused(a)

StartRecord(q, s, o) ==
    LET a == start(q, s, o)
        b == IF a.stream_by_event_ THEN __notify_record_event(a, TRUE) ELSE a
        c == start_sink(b, s, o)
    IN  IF ~a.source_started_[s] THEN Refused(a)
        ELSE IF c.result THEN [c EXCEPT !.record_stream_ = s] ELSE c

\* Its loop over the event states is SwitchDelivery(e).
StartRecordByEvent(q, s, o) ==
    LET storage_ok == o.info /\ card
        a == [_update_storage_status(q, o) EXCEPT !.recording_status_[s].by_event = TRUE]
        b == IF NeedsSource THEN start(a, s, o) ELSE a
        c == [_start_recording(b, s, o) EXCEPT !.record_stream_ = s,
                                               !.record_by_event_ = TRUE]
        d == [a EXCEPT !.record_stream_ = s, !.stream_by_event_ = TRUE]
    IN  IF Event \cup Pulse = {} THEN Refused(q)
        ELSE IF ~storage_ok THEN d
        ELSE IF NeedsSource /\ ~b.source_started_[s] THEN Refused(b)
        ELSE c

StartRecordDirect(q, s, o) ==
    LET storage_ok == o.info /\ card
        a == _update_storage_status(q, o)
        b == [a EXCEPT !.continuos_direct_record_ = TRUE,
                       !.recording_status_[s].direct_upload = TRUE,
                       !.record_stream_ = s]
        c == _start_recording(b, s, o)
    IN  IF storage_ok
        THEN [c EXCEPT !.events_states_[Direct] =
                           event_start(Direct, event_active(@), "SDM_UPLOAD", s)]
        ELSE StartRecord(a, s, o)

on_stream_start(q, s, reason, o) ==
    CASE reason = "LIVE" -> StartLive(q, s, o)
      [] reason = "RECORD" -> StartRecord(q, s, o)
      [] reason = "RECORD_BY_EVENT" -> StartRecordByEvent(q, s, o)
      [] reason = "RECORD_DIRECT" -> StartRecordDirect(q, s, o)

----------------------------------------------------------------------------
(* on_stream_stop() *)

StopLive(q, s) == stop_idle_source(drop_sink(q, s), s)

StopServerByEvent(q, s) ==
    LET a == IF q.stream_by_event_ THEN __notify_record_event(q, FALSE) ELSE q
    IN  stop_idle_source(drop_sink(a, s), s)

\* Faulty: the recording is stopped before its reason is withdrawn.
StopRecordDirectSwapped(q, s) ==
    [_stop_recording(q, s, FALSE)
        EXCEPT !.events_states_[Direct] = event_stop(Direct, @),
               !.continuos_direct_record_ = FALSE,
               !.recording_status_[s].direct_upload = FALSE]

StopRecordDirect(q, s) ==
    LET a == [q EXCEPT !.events_states_[Direct] = event_stop(Direct, @),
                       !.continuos_direct_record_ = FALSE,
                       !.recording_status_[s].direct_upload = FALSE]
    IN  stop_idle_source(_stop_recording(a, s, FALSE), s)

StopRecord(q, s) ==
    IF q.continuos_direct_record_ THEN StopRecordDirect(q, s)
    ELSE StopServerByEvent(q, s)

\* The video of an event that is active or about to stop ends here,
EndEventStream(e, q, s) ==
    IF q.events_states_[e].active_ \/ q.events_states_[e].stop_pending
    THEN StopRecord([q EXCEPT !.events_states_[e] = update_delivery_mode(e, @, "SDM_NONE", s)], s)
    ELSE q

\* for one event after the other.
EndEventStreams(q, s) == FoldSet(LAMBDA e, a : EndEventStream(e, a, s), q, Stateful)

\* Faulty: the depth is left as it is.
CloseNoEvent(q, s) == q

\* A record event still open is closed while stream_by_event_ is set.
CloseRecordEvent(q, s) ==
    IF q.record_event_depth_ > 0
    THEN StopRecord([q EXCEPT !.record_event_depth_ = 1], s)
    ELSE q

\* Faulty: the reason to record is not withdrawn.
EndByEventKeepsStatus(q, s) == [q EXCEPT !.record_by_event_ = FALSE,
                                         !.stream_by_event_ = FALSE]

EndByEvent(q, s) == [q EXCEPT !.record_by_event_ = FALSE,
                              !.stream_by_event_ = FALSE,
                              !.recording_status_[s].by_event = FALSE]

StopRecordByEvent(q, s) ==
    LET a == IF q.stream_by_event_ THEN EndEventStreams(q, s) ELSE q
        b == EndByEvent(CloseRecordEvent(a, s), s)
        started == q.record_by_event_ \/ q.stream_by_event_
    IN  stop_idle_source(IF started /\ q.record_stream_ = s
                         THEN _stop_recording(b, s, FALSE) ELSE q, s)

on_stream_stop(q, s, reason) ==
    CASE reason = "LIVE" -> StopLive(q, s)
      [] reason \in {"RECORD", "RECORD_DIRECT"} -> StopRecord(q, s)
      [] reason = "RECORD_BY_EVENT" -> StopRecordByEvent(q, s)

_stop_stream(q, s) ==
    StopServerByEvent(StopRecordByEvent(StopRecord(StopLive(q, s), s), s), s)

----------------------------------------------------------------------------
(* The steps *)

NoStatus == [permanent |-> FALSE, by_event |-> FALSE,
             direct_upload |-> FALSE, started |-> FALSE]

NoteIdle == [at |-> "idle", card |-> FALSE, recording |-> FALSE, stream |-> DefaultStream]
NotSwitching == [todo |-> {}, passed |-> {}]

Init ==
    /\ m = [active_sinks_ |-> 0,
            record_stream_ |-> DefaultStream,
            record_by_event_ |-> FALSE,
            stream_by_event_ |-> FALSE,
            continuos_direct_record_ |-> FALSE,
            record_event_depth_ |-> 0,
            recording_status_ |-> [s \in Stream |-> NoStatus],
            memorycard_info_ |-> FALSE,
            source_started_ |-> [s \in Stream |-> FALSE],
            sink_started_ |-> [s \in Stream |-> FALSE],
            events_states_ |-> [e \in State |->
                [active_ |-> FALSE, delivery_mode_ |-> "SDM_NONE",
                 seg_provider |-> DefaultStream, timers |-> <<>>,
                 stop_pending |-> FALSE]],
            recording |-> [s \in Stream |-> FALSE],
            died |-> FALSE,
            result |-> TRUE]
    /\ rx = <<>>
    /\ registered_ = TRUE
    /\ card \in BOOLEAN
    /\ deciding = [e \in State |-> "idle"]
    /\ begun = {} /\ crossed = {} /\ overtaken = {}
    /\ noting = [c \in Caller |-> NoteIdle]
    /\ switching = NotSwitching
    /\ refresh = FALSE
    /\ wanted = {}
    /\ world \in Worlds

\* Bounds: new work comes only while the queues are short.
Room == /\ Len(rx) <= world.MaxTasks
        /\ m.record_event_depth_ <= world.MaxDepth
        /\ \A e \in State : Len(m.events_states_[e].timers) <= world.MaxTimers

\* A "record" start and a "record_by_event" start of one stream exclude each
\* other, and the Cloud does not repeat one that is not a live view.
MayStart(s, reason) ==
    reason = "LIVE" \/ \A r \in ReasonKind \ {"LIVE"} : <<s, r>> \notin wanted

\* The rx thread is not in the middle of a handler.
RxFree == switching = NotSwitching

\* What on_stream_start(SR_RECORD_BY_EVENT) has still to do when it gets so far:
\* the events to look at, of those that may be active, and none found active yet.
Loop(q) ==
    LET todo == {e \in Stateful : e \in world.events \/ q.events_states_[e].active_}
    IN  IF q.result THEN [todo |-> todo, passed |-> {}] ELSE NotSwitching

\* The test of its loop,
TestActive(e) ==
    /\ switching.passed = {} /\ e \in switching.todo
    /\ switching' = [todo |-> switching.todo \ {e},
                     passed |-> IF m.events_states_[e].active_ THEN {e} ELSE {}]
    /\ UNCHANGED <<m, rx, registered_, card, deciding, begun, noting, overtaken, crossed,
                   refresh, wanted, world>>

\* and what it does to an event that was active then. The event may have stopped
\* meanwhile, or be in the middle of its start().
SwitchDelivery(e) ==
    /\ e \in switching.passed
    /\ m' = [m EXCEPT !.events_states_[e] =
                 update_delivery_mode(e, @, _current_delivery_mode(m), m.record_stream_)]
    /\ switching' = [switching EXCEPT !.passed = {}]
    /\ crossed' = IF e \in begun THEN crossed \cup {e} ELSE crossed
    /\ UNCHANGED <<rx, registered_, card, deciding, begun, noting, overtaken, refresh, wanted,
                   world>>

CloudStart(s, reason, o) ==
    LET q == on_stream_start(m, s, reason, o)
    IN  /\ RxFree /\ registered_ /\ Room
        /\ MayStart(s, reason)
        /\ m' = [q EXCEPT !.result = TRUE]
        /\ wanted' = IF q.result THEN wanted \cup {<<s, reason>>} ELSE wanted
        /\ switching' = IF reason = "RECORD_BY_EVENT" THEN Loop(q) ELSE NotSwitching
        /\ UNCHANGED <<rx, registered_, card, deciding, begun, noting, overtaken, crossed,
                       refresh, world>>

CloudStop(s, reason) ==
    /\ RxFree /\ registered_
    /\ <<s, reason>> \in wanted
    /\ m' = on_stream_stop(m, s, reason)
    /\ wanted' = wanted \ {<<s, reason>>}
    /\ UNCHANGED <<rx, registered_, card, threads, refresh, world>>

on_cam_memorycard_recording(s, enabled, o) ==
    LET a == [m EXCEPT !.recording_status_[s].permanent = enabled]
    IN  /\ RxFree /\ registered_
        /\ m' = IF enabled THEN _start_recording(a, s, o)
                ELSE _stop_recording(a, s, FALSE)
        /\ UNCHANGED <<rx, registered_, card, threads, refresh, wanted, world>>

on_set_stream_by_event(s) ==
    /\ RxFree /\ registered_
    /\ m' = [m EXCEPT !.record_stream_ = s]
    /\ UNCHANGED <<rx, registered_, card, threads, refresh, wanted, world>>

\* New settings of a stream: it is stopped, by_event recording is restarted.
on_set_stream_config(s, o) ==
    LET restart == m.record_by_event_ \/ m.stream_by_event_
        permanent == m.recording_status_[s].permanent
        a == [m EXCEPT !.recording_status_[s].by_event = FALSE,
                       !.recording_status_[s].permanent = FALSE]
        b == [_stop_recording(a, s, FALSE)
                EXCEPT !.recording_status_[s].permanent = permanent]
    IN  /\ "config" \in Fault /\ RxFree /\ registered_ /\ Room
        /\ IF s = m.record_stream_
           THEN /\ m' = _start_recording(b, s, o)
                /\ rx' = rx \o <<<<"stop_all", s>>>>
                            \o (IF restart THEN <<<<"by_event", s>>>> ELSE <<>>)
           ELSE /\ rx' = Append(rx, <<"stop_all", s>>)
                /\ UNCHANGED m
        /\ UNCHANGED <<registered_, card, threads, refresh, wanted, world>>

on_get_cam_events_config ==
    /\ "config" \in Fault /\ RxFree /\ registered_ /\ Room
    /\ m' = _stop_all_event_streams(m)
    /\ refresh' = TRUE
    /\ UNCHANGED <<rx, registered_, card, threads, wanted, world>>

\* Faulty: the answer of the user is not kept.
AskMemorycardForgets(q) == q

AskMemorycard(q) == [q EXCEPT !.memorycard_info_ = card]

\* Caller c has a report of the card as it is, to be handled unless it is useless.
Note(c, useful) ==
    noting' = IF useful
              THEN [noting EXCEPT ![c] = [NoteIdle EXCEPT
                       !.at = "report", !.card = card,
                       !.recording = m.recording[m.record_stream_]]]
              ELSE noting

\* The callback of on_get_cam_events_config(), a second later: _update_storage_status().
RefreshStorage(o) ==
    /\ refresh /\ noting["svc"] = NoteIdle
    /\ refresh' = FALSE
    /\ m' = IF o.info THEN AskMemorycard(m) ELSE m
    /\ Note("svc", o.info /\ o.known)
    /\ UNCHANGED <<rx, registered_, card, deciding, begun, switching, overtaken, crossed,
                   wanted, world>>

on_set_cam_events_config(o) ==
    /\ "config" \in Fault /\ RxFree /\ registered_ /\ Room
    /\ m' = _update_storage_status(_stop_all_event_streams(m), o)
    /\ UNCHANGED <<rx, registered_, card, threads, refresh, wanted, world>>

\* A task of rx_task_q_. The event states ignore what on_stream_start() returns.
RxTask(o) ==
    /\ RxFree /\ rx # <<>>
    /\ rx' = Tail(rx)
    /\ UNCHANGED <<registered_, card, deciding, begun, noting, overtaken, crossed, refresh,
                   wanted, world>>
    /\ LET s == Head(rx)[2]
       IN  \E q \in {CASE Head(rx)[1] = "start" -> StartRecord(m, s, o)
                       [] Head(rx)[1] = "stop" -> StopRecord(m, s)
                       [] Head(rx)[1] = "by_event" -> StartRecordByEvent(m, s, o)
                       [] Head(rx)[1] = "stop_all" -> _stop_stream(m, s)} :
               /\ m' = [q EXCEPT !.result = TRUE]
               /\ switching' = IF Head(rx)[1] = "by_event" THEN Loop(q) ELSE NotSwitching

\* A start is due at once, a stop after post_record_time_; timers run in the
\* order they are due.
Due(v) == {i \in DOMAIN v.timers :
               \/ i = 1
               \/ v.timers[i][1] = "start" /\ \A j \in 1..(i-1) : v.timers[j][1] = "stop"}

StreamTimer(e) ==
    LET v == m.events_states_[e]
    IN  \E i \in Due(v) :
            LET stop == v.timers[i][1] = "stop"
            IN  /\ rx' = Append(rx, IF stop THEN <<"stop", v.seg_provider>> ELSE v.timers[i])
                /\ m' = [m EXCEPT !.events_states_[e].timers = RemoveAt(@, i),
                                  !.events_states_[e].stop_pending = @ /\ ~stop]
                /\ UNCHANGED <<registered_, card, threads, refresh, wanted, world>>

\* notify_event() reads the delivery mode and uses it in a later step.
ReadDeliveryMode(e) ==
    /\ registered_ /\ Room
    /\ e \in world.events
    /\ deciding[e] = "idle"
    /\ ~m.events_states_[e].active_
    /\ deciding' = [deciding EXCEPT ![e] = _current_delivery_mode(m)]
    /\ UNCHANGED <<m, rx, registered_, card, begun, noting, switching, overtaken, crossed,
                   refresh, wanted, world>>

\* event_state::start() of a stateful event begins,
BeginStart(e) ==
    /\ e \in Event /\ deciding[e] # "idle" /\ e \notin begun
    /\ m' = [m EXCEPT !.events_states_[e] = event_active(@)]
    /\ begun' = begun \cup {e}
    /\ UNCHANGED <<rx, registered_, card, deciding, noting, switching, overtaken, crossed,
                   refresh, wanted, world>>

\* and start() ends.
NotifyStart(e) ==
    /\ deciding[e] # "idle" /\ (e \in Event => e \in begun)
    /\ m' = [m EXCEPT !.events_states_[e] =
                 event_start(e, @, deciding[e], m.record_stream_)]
    /\ deciding' = [deciding EXCEPT ![e] = "idle"]
    /\ begun' = begun \ {e}
    /\ UNCHANGED <<rx, registered_, card, noting, switching, overtaken, crossed, refresh,
                   wanted, world>>

NotifyStop(e) ==
    /\ registered_
    /\ m.events_states_[e].active_ /\ e \notin begun
    /\ m' = [m EXCEPT !.events_states_[e] = event_stop(e, @)]
    /\ crossed' = IF e \in switching.passed THEN crossed \cup {e} ELSE crossed
    /\ UNCHANGED <<rx, registered_, card, deciding, begun, noting, switching, overtaken,
                   refresh, wanted, world>>

\* The user reports the memory card; unless filled, the manager asks for it.
NotifyMemorycard(filled, o) ==
    /\ world.reports /\ registered_ /\ noting["user"] = NoteIdle
    /\ m' = IF filled \/ ~o.info THEN m ELSE AskMemorycard(m)
    /\ Note("user", card /\ o.known /\ (filled \/ o.info))
    /\ UNCHANGED <<rx, registered_, card, deciding, begun, switching, overtaken, crossed,
                   refresh, wanted, world>>

\* Caller c takes over what its report says and tests whether to start a recording.
\* _update_storage_status() takes it over before it calls notify_event(), which
\* then cannot tell that it is out of date and loses sight of the recording.
UseReport(c) ==
    LET n == noting[c]
        s == m.record_stream_
        q == Noted(IF c = "svc" THEN [m EXCEPT !.recording_status_[s].started = n.recording]
                   ELSE m, s, n.recording)
        start_it == NeedsStart(q, s) /\ (c = "svc" => registered_ /\ n.card)
    IN  /\ n.at = "report"
        /\ m' = q
        /\ noting' = [noting EXCEPT ![c] =
                         IF start_it THEN [NoteIdle EXCEPT !.at = "start", !.stream = s]
                         ELSE NoteIdle]
        /\ overtaken' = IF c = "svc" /\ m.recording[s] /\ ~n.recording
                        THEN overtaken \cup {s} ELSE overtaken
        /\ UNCHANGED <<rx, registered_, card, deciding, begun, switching, crossed, refresh,
                       wanted, world>>

\* The recording is started, for whatever reason it was to be.
StartNoted(c, o) ==
    LET s == noting[c].stream
    IN  /\ noting[c].at = "start"
        /\ m' = start_record(m, s, o)
        /\ noting' = [noting EXCEPT ![c] = NoteIdle]
        /\ overtaken' = IF Enabled(m, s) THEN overtaken ELSE overtaken \cup {s}
        /\ UNCHANGED <<rx, registered_, card, deciding, begun, switching, crossed, refresh,
                       wanted, world>>

on_closed ==
    LET s == m.record_stream_
        a == [m EXCEPT !.recording_status_[s].by_event = FALSE]
    IN  /\ "close" \in Fault /\ RxFree /\ registered_ /\ Room
        /\ m' = _stop_all_event_streams(_stop_recording(a, s, FALSE))
        /\ rx' = rx \o SetToSeq({<<"stop_all", z>> : z \in Stream})
        /\ registered_' = FALSE
        /\ wanted' = {}
        /\ UNCHANGED <<card, threads, refresh, world>>

Reconnected ==
    /\ RxFree /\ ~registered_
    /\ registered_' = TRUE
    /\ UNCHANGED <<m, rx, card, threads, refresh, wanted, world>>

CardChanges ==
    /\ "card" \in Fault
    /\ card' = ~card
    /\ m' = [m EXCEPT !.recording = [s \in Stream |-> @[s] /\ ~card]]
    /\ UNCHANGED <<rx, registered_, threads, refresh, wanted, world>>

\* The error callback of the rtmp sink stops it; the manager is not told.
SinkDies(s) ==
    /\ "dies" \in Fault /\ m.sink_started_[s]
    /\ m' = [m EXCEPT !.sink_started_[s] = FALSE, !.died = TRUE]
    /\ UNCHANGED <<rx, registered_, card, threads, refresh, wanted, world>>

RecordingHalts(s) ==
    /\ "halt" \in Fault
    /\ m' = [m EXCEPT !.recording[s] = FALSE]
    /\ UNCHANGED <<rx, registered_, card, threads, refresh, wanted, world>>

Next ==
    \/ \E s \in Stream, r \in world.starts, o \in Outcome : CloudStart(s, r, o)
    \/ \E e \in Stateful : TestActive(e) \/ SwitchDelivery(e)
    \/ \E s \in Stream, r \in world.stops : CloudStop(s, r)
    \/ \E s \in Stream, b \in BOOLEAN, o \in Outcome : on_cam_memorycard_recording(s, b, o)
    \/ \E s \in Stream : on_set_stream_by_event(s)
    \/ \E s \in Stream, o \in Outcome : on_set_stream_config(s, o)
    \/ on_get_cam_events_config
    \/ \E o \in Outcome : RefreshStorage(o)
    \/ \E o \in Outcome : on_set_cam_events_config(o)
    \/ \E o \in Outcome : RxTask(o)
    \/ \E e \in Event \cup Pulse : StreamTimer(e)
    \/ \E e \in Event \cup Pulse : ReadDeliveryMode(e)
    \/ \E e \in Event : BeginStart(e)
    \/ \E e \in Event \cup Pulse : NotifyStart(e)
    \/ \E e \in Event : NotifyStop(e)
    \/ \E b \in BOOLEAN, o \in Outcome : NotifyMemorycard(b, o)
    \/ \E c \in Caller : UseReport(c)
    \/ \E c \in Caller, o \in Outcome : StartNoted(c, o)
    \/ on_closed
    \/ Reconnected
    \/ CardChanges
    \/ \E s \in Stream : RecordingHalts(s) \/ SinkDies(s)

Spec == Init /\ [][Next]_vars

\* Some task is run: no other step takes one from the queue.
SomeTask == rx # <<>> /\ rx' = Tail(rx)

\* Timers and tasks run, a handler goes on with its loop, and a call of
\* notify_event() or _update_storage_status() returns.
FairSpec ==
    /\ Spec
    /\ WF_rx(SomeTask)
    /\ WF_vars(\E e \in Stateful : TestActive(e) \/ SwitchDelivery(e))
    /\ \A e \in Event \cup Pulse : WF_vars(StreamTimer(e))
    /\ \A e \in Event \cup Pulse : WF_vars(BeginStart(e) \/ NotifyStart(e))
    /\ \A c \in Caller : WF_vars(UseReport(c) \/ \E o \in Outcome : StartNoted(c, o))

----------------------------------------------------------------------------
(* Properties *)

\* Every variable has its type; in particular active_sinks_, an int that
\* on_stream_stop() decrements, never becomes negative.
TypeOK ==
    /\ m \in ManagerType
    /\ rx \in Seq({"start", "stop", "stop_all", "by_event"} \X Stream)
    /\ registered_ \in BOOLEAN /\ card \in BOOLEAN /\ refresh \in BOOLEAN
    /\ deciding \in [State -> Mode \cup {"idle"}]
    /\ begun \subseteq Event /\ crossed \subseteq Event /\ overtaken \subseteq Stream
    /\ noting \in [Caller -> NoteType]
    /\ switching \in SwitchType
    /\ wanted \subseteq Stream \X ReasonKind
    /\ world \in Worlds

\* With one stream, active_sinks_ counts the running sink: whatever mixture of
\* commands, event timers, failures and disconnections drives on_stream_start()
\* and on_stream_stop(), no sink is lost and none is counted that is not there,
\* except one that stopped itself, and that only until the next stop.
SinkCounted ==
    m.active_sinks_ = Cardinality({s \in Stream : m.sink_started_[s]})
                      + (IF m.died THEN 1 ELSE 0)

\* The manager never stops the source under a publishing sink.
SinkFed == \A s \in Stream : m.sink_started_[s] => m.source_started_[s]

\* The device records only while somebody wants it to: when the last of
\* permanent, by_event and direct_upload is withdrawn, by whichever handler, the
\* recording has been stopped, even if the device or the card went off and on.
\* Two races of the rx thread with another are the exceptions: the start of a
\* recording that passed its tests before the last reason was withdrawn, and a
\* refresh of the storage status whose report is older than the recording.
RecordingWanted == \A s \in Stream : m.recording[s] => Enabled(m, s) \/ s \in overtaken

\* When event-driven streaming ends, the Cloud has been told that the recording
\* it was told to start is over: on_stream_stop() closes the 'record' event
\* before it forgets stream_by_event_, without which it would never be sent. A
\* direct upload recording that is under way is the exception: the stop that
\* should close the event then ends that recording instead.
RecordEventClosed ==
    [][~m'.stream_by_event_ /\ m'.record_event_depth_ > 0
       => \/ ~m.stream_by_event_ /\ m.record_event_depth_ > 0
          \/ m.continuos_direct_record_]_vars

\* With one stream, it is marked for event-driven recording only if the Cloud
\* asked for that and has not taken it back, by stream_stop or by closing the
\* connection; a source that fails in the middle of that start and a restart
\* after new settings are the exceptions.
ByEventAsked ==
    Fault \cap {"source", "config"} = {} => \A s \in Stream :
        m.recording_status_[s].by_event => <<s, "RECORD_BY_EVENT">> \in wanted

\* A stream that events started by themselves (SDM_STREAM) ends: if from some
\* time on no event is active, from some time on nothing is published, however
\* the timers of starts and stops of overlapping events interleave, and though
\* the card comes and goes, unless one of them stopped or was in the middle of
\* its start when the loop of on_stream_start() switched its delivery. (The
\* Cloud asks for nothing else here.)
EventStreamEnds ==
    /\ world.starts = {"RECORD_BY_EVENT"} /\ world.stops = {}
    /\ Fault \subseteq {"card"}
    /\ <>[](crossed = {} /\ \A e \in Event :
                ~m.events_states_[e].active_ /\ deciding[e] = "idle")
    => <>[](\A s \in Stream : ~m.sink_started_[s])

\* manager.cc:985, on the memorycard event: "If recording was requested by the
\* Cloud but not started yet we are trying to start it." A recording requested
\* of a usable card runs some time, if the user keeps sending memorycard events
\* that leave it to the manager to ask on_get_memorycard_info() and now and then
\* all of the device's answers are good, when it is asked and when it is started.
CardRecords ==
    world.reports => \A s \in Stream :
        /\ <>[](card /\ registered_ /\ m.record_stream_ = s /\ Enabled(m, s))
        /\ SF_vars(NotifyMemorycard(FALSE, AllWell))
        /\ SF_vars(StartNoted("user", AllWell))
        => <>m.recording[s]

\* manager.h:186: "Stopping stream actually stop stream only if number_of_starts
\* == number_of_stops, this rule should handle intersecting pre/post time of the
\* events". record_event_depth_ is the number of starts not yet stopped.
StreamHeld == m.record_event_depth_ > 0 => \E s \in Stream : m.sink_started_[s]

\* manager.cc:2018, when event-driven recording is stopped: "Cancel post record
\* timer stop, stop here instead". Once every event, timer and task is done and
\* the Cloud wants no stream, nothing is published.
NoOrphanStream ==
    /\ rx = <<>>
    /\ \A e \in Event \cup Pulse : /\ m.events_states_[e].timers = <<>>
                                   /\ ~m.events_states_[e].active_
                                   /\ deciding[e] = "idle"
    /\ wanted \subseteq Stream \X {"RECORD_BY_EVENT"}
    => \A s \in Stream : ~m.sink_started_[s]
=============================================================================
