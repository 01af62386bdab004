------------------------------ MODULE Streamer ------------------------------
(***************************************************************************)
(* One media stream (streamer/stream.h): a source that pulls frames on its *)
(* own thread, a sink that writes them on its own thread, and the bounded  *)
(* queue between them (streamer/base_streamer.h), for the ffmpeg source    *)
(* and sink, and for the rtmp sink without an error callback. A third      *)
(* thread, the control thread, starts and stops both.                      *)
(*                                                                         *)
(* multiqueue_lock_ is held by the source thread while it pushes, waiting  *)
(* for room included; elsewhere it is held within one step. The mutex of   *)
(* the queue is held within one step, except by a sink thread between the  *)
(* test of its wait condition and its going to sleep ("checked"): set_eos()*)
(* does not take that mutex and can fall in between.                       *)
(***************************************************************************)
EXTENDS Integers, Sequences, FiniteSetsExt

CONSTANTS MaxItems,  \* max_items of a queue
          MaxFrames, \* bound: frames the source delivers
          MaxStarts  \* bound: calls of start() and of start_sink()

ASSUME StreamerAssumption == /\ MaxItems \in Nat \ {0}
                             /\ {MaxFrames, MaxStarts} \subseteq Nat

VARIABLES
    ctl,             \* where the control thread is
    source_started_, sink_started_,
    src,             \* source thread: where it is and the frame it holds
    source_running_, \* ISource::running_
    lock,            \* holder of multiqueue_lock_
    linked,          \* the sink is in sink_queue_map_
    queue,           \* the sink's queue
    droppable,       \* the sink's droppable()
    snk,             \* sink thread
    sink_running_,   \* ISink::running_
    muxer,           \* the sink's output context is allocated
    pulled,          \* frames the source has delivered
    written,         \* observation: last frame given to process() since linkSink()
    starts           \* calls of start() and start_sink() so far

source == <<src, source_running_>>
sink   == <<snk, sink_running_, muxer>>
vars == <<ctl, source_started_, sink_started_, source, lock, linked, queue, droppable,
          sink, pulled, written, starts>>

\* Data frames are treated like audio.
Frame == [n : Nat \ {0}, kind : {"key", "delta", "audio"}]
NoFrame == [n |-> 0, kind |-> "audio"]

Control == {"idle", "link", "sink_start", "sink_flush", "sink_join", "unlink",
            "source_flush", "source_join"}
SourceStep == {"none", "loop", "pull", "error", "lock", "push", "wait", "ended"}
SinkStep == {"none", "loop", "pop", "checked", "blocked", "process", "ended"}

\* Every variable has its type.
TypeOK ==
    /\ ctl \in Control
    /\ {source_started_, sink_started_, source_running_, sink_running_} \subseteq BOOLEAN
    /\ {linked, droppable, muxer} \subseteq BOOLEAN
    /\ src \in [at : SourceStep, frame : Frame \cup {NoFrame}]
    /\ lock \in {"free", "source"}
    /\ queue \in [items : Seq(Frame), flushing_ : BOOLEAN, eos_ : BOOLEAN,
                  wait_video_key_ : BOOLEAN]
    /\ Len(queue.items) <= MaxItems
    /\ snk \in [at : SinkStep, frame : Frame \cup {NoFrame}]
    /\ pulled \in 0..MaxFrames /\ written \in 0..MaxFrames
    /\ starts \in 0..MaxStarts

EmptyQueue == [items |-> <<>>, flushing_ |-> FALSE, eos_ |-> FALSE,
               wait_video_key_ |-> FALSE]
Nobody == [at |-> "none", frame |-> NoFrame]

Init ==
    /\ ctl = "idle"
    /\ source_started_ = FALSE /\ sink_started_ = FALSE
    /\ src = Nobody /\ source_running_ = FALSE
    /\ lock = "free" /\ linked = FALSE
    /\ queue = EmptyQueue
    /\ droppable \in BOOLEAN
    /\ snk = Nobody /\ sink_running_ = FALSE /\ muxer = FALSE
    /\ pulled = 0 /\ written = 0 /\ starts = 0
-----------------------------------------------------------------------------
(***************************************************************************)
(* The queue.                                                              *)
(***************************************************************************)

Full == Len(queue.items) >= MaxItems

\* The mutex of the queue can be taken.
Unlocked == snk.at # "checked"

\* The sink thread after a notification of its condition variable.
Notified(t) == IF t.at = "blocked" THEN [t EXCEPT !.at = "pop"] ELSE t

\* The queue after push(f) to a queue that may drop: when it is full the oldest
\* frame goes, of whatever kind, and once a video frame has gone so do the
\* video frames behind it, until a key frame or an audio frame is in front.
DropFront(q, f) ==
    LET first == IF Len(q.items) >= MaxItems THEN 1 ELSE 0
        wait  == q.wait_video_key_ \/ (first = 1 /\ q.items[1].kind # "audio")
        last  == IF wait
                 THEN Max({k \in first..Len(q.items) :
                               \A i \in first+1..k : q.items[i].kind = "delta"})
                 ELSE first
        rest  == SubSeq(q.items, last + 1, Len(q.items))
    IN  [q EXCEPT !.items = Append(rest, f),
                  !.wait_video_key_ = wait /\ ~(rest # <<>> /\ rest[1].kind = "key")]

\* Faulty: the newest frame is lost instead.
PushedDropsNewest(q, f) ==
    IF Len(q.items) >= MaxItems - 1 THEN q ELSE [q EXCEPT !.items = Append(@, f)]

Pushed(q, f) == IF droppable THEN DropFront(q, f) ELSE [q EXCEPT !.items = Append(@, f)]

Flushed(q) == [q EXCEPT !.items = <<>>, !.flushing_ = TRUE]
-----------------------------------------------------------------------------
(***************************************************************************)
(* The source thread.                                                      *)
(***************************************************************************)

\* The loop of _source_routine(): another pullFrame(), or the end.
SourceLoop ==
    /\ src.at = "loop"
    /\ src' = [src EXCEPT !.at = IF source_running_ THEN "pull" ELSE "ended"]
    /\ UNCHANGED <<ctl, source_started_, sink_started_, source_running_, lock, linked, queue,
                   droppable, sink, pulled, written, starts>>

\* pullFrame() returns a frame.
Pull(kind) ==
    /\ src.at = "pull"
    /\ pulled < MaxFrames
    /\ pulled' = pulled + 1
    /\ src' = [at |-> "lock", frame |-> [n |-> pulled + 1, kind |-> kind]]
    /\ UNCHANGED <<ctl, source_started_, sink_started_, source_running_, lock, linked, queue,
                   droppable, sink, written, starts>>

\* pullFrame() fails: error() copies the map of the sinks, without the lock,
PullFails ==
    /\ src.at = "pull"
    /\ src' = [src EXCEPT !.at = IF linked THEN "error" ELSE "loop"]
    /\ source_running_' = (source_running_ /\ linked)
    /\ UNCHANGED <<ctl, source_started_, sink_started_, lock, linked, queue, droppable, sink,
                   pulled, written, starts>>

\* and calls error() of the sink, which sets the end of stream of the queue the
\* sink has by then; the loop is over.
ErrorAll ==
    /\ src.at = "error"
    /\ src' = [src EXCEPT !.at = "loop"]
    /\ source_running_' = FALSE
    /\ queue' = [queue EXCEPT !.eos_ = TRUE]
    /\ snk' = Notified(snk)
    /\ UNCHANGED <<ctl, source_started_, sink_started_, lock, linked, droppable,
                   sink_running_, muxer, pulled, written, starts>>

\* _pushFrameAll() takes multiqueue_lock_
PushLock ==
    /\ src.at = "lock" /\ lock = "free"
    /\ lock' = "source"
    /\ src' = [src EXCEPT !.at = "push"]
    /\ UNCHANGED <<ctl, source_started_, sink_started_, source_running_, linked, queue,
                   droppable, sink, pulled, written, starts>>

\* and returns.
PushDone ==
    /\ src' = [at |-> "loop", frame |-> NoFrame]
    /\ lock' = "free"

\* push(): nothing is linked or the queue is being flushed, there is room, or
\* the queue may not drop and is full.
Push ==
    /\ src.at = "push" /\ Unlocked
    /\ \/ /\ ~linked \/ queue.flushing_
          /\ PushDone
          /\ UNCHANGED <<queue, snk>>
       \/ /\ linked /\ ~queue.flushing_
          /\ droppable \/ ~Full
          /\ queue' = Pushed(queue, src.frame)
          /\ snk' = Notified(snk)
          /\ PushDone
       \/ /\ linked /\ ~queue.flushing_
          /\ ~droppable /\ Full
          /\ src' = [src EXCEPT !.at = "wait"]
          /\ UNCHANGED <<lock, queue, snk>>
    /\ UNCHANGED <<ctl, source_started_, sink_started_, source_running_, linked, droppable,
                   sink_running_, muxer, pulled, written, starts>>

\* push() after its wait: flushing_ is not tested again.
PushWaited ==
    /\ src.at = "wait" /\ Unlocked
    /\ ~Full
    /\ queue' = Pushed(queue, src.frame)
    /\ snk' = Notified(snk)
    /\ PushDone
    /\ UNCHANGED <<ctl, source_started_, sink_started_, source_running_, linked, droppable,
                   sink_running_, muxer, pulled, written, starts>>
-----------------------------------------------------------------------------
(***************************************************************************)
(* The sink thread.                                                        *)
(***************************************************************************)

\* The loop of _sink_routine(): another pop(), or the end.
SinkLoop ==
    /\ snk.at = "loop"
    /\ snk' = [snk EXCEPT !.at = IF sink_running_ THEN "pop" ELSE "ended"]
    /\ UNCHANGED <<ctl, source_started_, sink_started_, source, lock, linked, queue,
                   droppable, sink_running_, muxer, pulled, written, starts>>

\* pop() of a frame, flushing or not.
Pop ==
    /\ snk.at = "pop"
    /\ queue.items # <<>>
    /\ snk' = [at |-> "process", frame |-> Head(queue.items)]
    /\ queue' = [queue EXCEPT !.items = Tail(@)]
    /\ UNCHANGED <<ctl, source_started_, sink_started_, source, lock, linked, droppable,
                   sink_running_, muxer, pulled, written, starts>>

\* pop() finds nothing to return; it still holds the mutex,
PopChecks ==
    /\ snk.at = "pop"
    /\ queue.items = <<>> /\ ~queue.flushing_ /\ ~queue.eos_
    /\ snk' = [snk EXCEPT !.at = "checked"]
    /\ UNCHANGED <<ctl, source_started_, sink_started_, source, lock, linked, queue,
                   droppable, sink_running_, muxer, pulled, written, starts>>

\* and releases it as it goes to sleep.
PopBlocks ==
    /\ snk.at = "checked"
    /\ snk' = [snk EXCEPT !.at = "blocked"]
    /\ UNCHANGED <<ctl, source_started_, sink_started_, source, lock, linked, queue,
                   droppable, sink_running_, muxer, pulled, written, starts>>

\* pop() returns null: the thread ends.
PopNull ==
    /\ snk.at = "pop"
    /\ queue.items = <<>> /\ (queue.flushing_ \/ queue.eos_)
    /\ snk' = [snk EXCEPT !.at = "ended"]
    /\ UNCHANGED <<ctl, source_started_, sink_started_, source, lock, linked, queue,
                   droppable, sink_running_, muxer, pulled, written, starts>>

\* process(); a failed write sets the end of stream.
Process(ok) ==
    /\ snk.at = "process"
    /\ snk' = [at |-> "loop", frame |-> NoFrame]
    /\ written' = snk.frame.n
    /\ queue' = [queue EXCEPT !.eos_ = @ \/ ~ok]
    /\ UNCHANGED <<ctl, source_started_, sink_started_, source, lock, linked, droppable,
                   sink_running_, muxer, pulled, starts>>
-----------------------------------------------------------------------------
(***************************************************************************)
(* The control thread: start(), start_sink(), stop_sink() and stop(). Its  *)
(* callers start the source before the sink and stop it after the sink.    *)
(***************************************************************************)

start ==
    /\ ctl = "idle" /\ ~source_started_ /\ ~source_running_
    /\ starts < MaxStarts
    /\ starts' = starts + 1
    /\ source_started_' = TRUE /\ source_running_' = TRUE
    /\ src' = [at |-> "loop", frame |-> NoFrame]
    /\ UNCHANGED <<ctl, sink_started_, lock, linked, queue, droppable, sink, pulled, written>>

\* init_sink() allocates the output.
start_sink ==
    /\ ctl = "idle" /\ source_started_ /\ ~sink_started_
    /\ starts < MaxStarts
    /\ starts' = starts + 1
    /\ muxer' = TRUE
    /\ ctl' = "link"
    /\ UNCHANGED <<source_started_, sink_started_, source, lock, linked, queue, droppable,
                   snk, sink_running_, pulled, written>>

\* linkSink() makes a new queue; when the streams are not accepted the sink
\* is deinitialised again.
linkSink(accepted) ==
    /\ ctl = "link" /\ lock = "free"
    /\ IF accepted
       THEN /\ linked' = TRUE /\ queue' = EmptyQueue /\ written' = 0
            /\ ctl' = "sink_start"
            /\ UNCHANGED muxer
       ELSE /\ muxer' = FALSE
            /\ ctl' = "idle"
            /\ UNCHANGED <<linked, queue, written>>
    /\ UNCHANGED <<source_started_, sink_started_, source, lock, droppable, snk,
                   sink_running_, pulled, starts>>

\* ISink::start()
SinkStarts ==
    /\ ctl = "sink_start"
    /\ sink_running_' = TRUE
    /\ snk' = [at |-> "loop", frame |-> NoFrame]
    /\ sink_started_' = TRUE
    /\ ctl' = "idle"
    /\ UNCHANGED <<source_started_, source, lock, linked, queue, droppable, muxer, pulled,
                   written, starts>>

\* ISink::stop(): running_, flush() and join(), of a sink that never started too.
stop_sink ==
    /\ ctl = "idle"
    /\ sink_running_' = FALSE
    /\ ctl' = "sink_flush"
    /\ UNCHANGED <<source_started_, sink_started_, source, lock, linked, queue, droppable,
                   snk, muxer, pulled, written, starts>>

\* Faulty: the sink thread is not told.
SinkFlushQuiet ==
    /\ ctl = "sink_flush" /\ Unlocked
    /\ queue' = Flushed(queue)
    /\ ctl' = "sink_join"
    /\ UNCHANGED <<source_started_, sink_started_, source, lock, linked, droppable, sink,
                   pulled, written, starts>>

SinkFlush ==
    /\ ctl = "sink_flush" /\ Unlocked
    /\ queue' = Flushed(queue)
    /\ snk' = Notified(snk)
    /\ ctl' = "sink_join"
    /\ UNCHANGED <<source_started_, sink_started_, source, lock, linked, droppable,
                   sink_running_, muxer, pulled, written, starts>>

\* Faulty: the thread is detached, not joined.
SinkDetach ==
    /\ ctl = "sink_join"
    /\ ctl' = "unlink"
    /\ UNCHANGED <<source_started_, sink_started_, source, lock, linked, queue, droppable,
                   sink, pulled, written, starts>>

SinkJoin ==
    /\ ctl = "sink_join" /\ snk.at \in {"none", "ended"}
    /\ snk' = Nobody
    /\ ctl' = "unlink"
    /\ UNCHANGED <<source_started_, sink_started_, source, lock, linked, queue, droppable,
                   sink_running_, muxer, pulled, written, starts>>

\* unlinkSink() and finit_sink()
unlinkSink ==
    /\ ctl = "unlink" /\ lock = "free"
    /\ linked' = FALSE /\ muxer' = FALSE
    /\ sink_started_' = FALSE
    /\ ctl' = "idle"
    /\ UNCHANGED <<source_started_, source, lock, queue, droppable, snk, sink_running_,
                   pulled, written, starts>>

\* ISource::stop(): running_, flush() and join().
stop ==
    /\ ctl = "idle" /\ ~sink_started_
    /\ source_running_' = FALSE
    /\ ctl' = "source_flush"
    /\ UNCHANGED <<source_started_, sink_started_, src, lock, linked, queue, droppable, sink,
                   pulled, written, starts>>

SourceFlush ==
    /\ ctl = "source_flush" /\ lock = "free" /\ Unlocked
    /\ queue' = IF linked THEN Flushed(queue) ELSE queue
    /\ snk' = IF linked THEN Notified(snk) ELSE snk
    /\ ctl' = "source_join"
    /\ UNCHANGED <<source_started_, sink_started_, source, lock, linked, droppable,
                   sink_running_, muxer, pulled, written, starts>>

SourceJoin ==
    /\ ctl = "source_join" /\ src.at \in {"none", "ended"}
    /\ src' = Nobody
    /\ source_started_' = FALSE
    /\ ctl' = "idle"
    /\ UNCHANGED <<sink_started_, source_running_, lock, linked, queue, droppable, sink,
                   pulled, written, starts>>
-----------------------------------------------------------------------------
\* stop() raises the interrupt flag of ffmpeg: pullFrame() returns.
PullInterrupted == ~source_running_ /\ PullFails
SourceNext == SourceLoop \/ PullInterrupted \/ ErrorAll \/ PushLock \/ Push \/ PushWaited
SinkNext == SinkLoop \/ Pop \/ PopChecks \/ PopBlocks \/ PopNull \/ (\E ok \in BOOLEAN : Process(ok))
ControlNext ==
    \/ \E accepted \in BOOLEAN : linkSink(accepted)
    \/ SinkStarts \/ SinkFlush \/ SinkJoin \/ unlinkSink
    \/ SourceFlush \/ SourceJoin

Next ==
    \/ \E kind \in {"key", "delta", "audio"} : Pull(kind)
    \/ PullFails
    \/ SourceNext \/ SinkNext \/ ControlNext
    \/ start \/ start_sink \/ stop_sink \/ stop

Spec == Init /\ [][Next]_vars

(***************************************************************************)
(* Fairness. The three threads run; process() returns because stop()       *)
(* raises ffmpeg's interrupt flag. The source pulls at the rate of the     *)
(* media, so multiqueue_lock_ does not starve the control thread: strong   *)
(* fairness. The source need not deliver.                                  *)
(***************************************************************************)
Fairness == WF_vars(SourceNext) /\ WF_vars(SinkNext) /\ SF_vars(ControlNext)

FairSpec == Spec /\ Fairness
-----------------------------------------------------------------------------
(***************************************************************************)
(* Properties.                                                             *)
(***************************************************************************)

\* process() is never called on an output that finit_sink() has freed, or that
\* negotiate() has not opened.
MuxerValid == snk.at = "process" => muxer /\ ctl # "link"

\* The frames on their way from the source to the sink, oldest first.
Held == (IF snk.at = "process" THEN <<snk.frame>> ELSE <<>>)
        \o queue.items
        \o (IF src.at \in {"lock", "push", "wait"} THEN <<src.frame>> ELSE <<>>)

\* Frames reach the sink in the order of the source, and a sink that may not
\* drop gets every frame from the first one on until it is stopped.
NoFrameLost ==
    linked /\ ~queue.flushing_ =>
        \A i \in 1..Len(Held) :
            LET before == IF i = 1 THEN written ELSE Held[i - 1].n
            IN  /\ Held[i].n > before
                /\ ~droppable /\ before > 0 => Held[i].n = before + 1

\* stop_sink(), stop() and start_sink() return: the control thread, which is
\* the thread that handles the Cloud's commands, is never left waiting for the
\* lock, the queue or one of the other threads.
ControlReturns == ctl # "idle" ~> ctl = "idle"
=============================================================================
