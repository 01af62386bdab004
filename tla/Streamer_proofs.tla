-------------------------- MODULE Streamer_proofs --------------------------
(***************************************************************************)
(* For every number of frames, starts and queue items: the sink thread     *)
(* only uses an output that exists, the queue never holds more items than  *)
(* it may, and no frame is lost or overtaken on its way to the sink.       *)
(***************************************************************************)
EXTENDS Streamer, BasicLemmas

\* The sink thread lives between ISink::start() and join(), the output between
\* init_sink() and finit_sink(), and the second span contains the first.
ThreadInside ==
    /\ "at" \in DOMAIN snk
    /\ snk.at # "none" => muxer /\ sink_started_
    /\ ctl \in {"link", "sink_start"} => muxer /\ ~sink_started_
    /\ ctl = "unlink" => snk.at = "none"

\* A step that leaves the control thread, the flags and the output alone, and
\* keeps or moves a living sink thread, preserves the invariant.
LEMMA ThreadMoves ==
    ASSUME ThreadInside, UNCHANGED <<ctl, sink_started_, muxer>>,
           "at" \in DOMAIN snk', snk.at = "none" => snk'.at = "none"
    PROVE  ThreadInside'
BY DEF ThreadInside

\* A notification keeps a living thread alive and wakes no other.
LEMMA NotifiedMoves ==
    ASSUME NEW t, "at" \in DOMAIN t
    PROVE  /\ "at" \in DOMAIN Notified(t)
           /\ Notified(t).at = "none" <=> t.at = "none"
BY DEF Notified

LEMMA InitInside == Init => ThreadInside
BY DEF Init, ThreadInside, Nobody

LEMMA NextInside == ThreadInside /\ [Next]_vars => ThreadInside'
<1> SUFFICES ASSUME ThreadInside, [Next]_vars PROVE ThreadInside'
    OBVIOUS
<1>at. "at" \in DOMAIN snk
    BY DEF ThreadInside
<1>1. CASE UNCHANGED vars
    BY <1>1, <1>at, ThreadMoves DEF vars, sink
<1>2. CASE \E kind \in {"key", "delta", "audio"} : Pull(kind)
    <2>1. UNCHANGED <<ctl, sink_started_, muxer, snk>>
        BY <1>2 DEF Pull, sink
    <2> QED BY <2>1, <1>at, ThreadMoves
<1>3. CASE PullFails
    BY <1>3, <1>at, ThreadMoves DEF PullFails, sink
<1>4. CASE SourceLoop \/ PushLock
    BY <1>4, <1>at, ThreadMoves DEF SourceLoop, PushLock, sink
<1>5. CASE ErrorAll \/ PushWaited \/ Push
    <2>1. UNCHANGED <<ctl, sink_started_, muxer>>
        BY <1>5 DEF ErrorAll, PushWaited, Push
    <2>2. snk' = Notified(snk) \/ snk' = snk
        BY <1>5 DEF ErrorAll, PushWaited, Push
    <2> QED BY <2>1, <2>2, <1>at, NotifiedMoves, ThreadMoves
<1>6. CASE SinkNext
    <2>1. UNCHANGED <<ctl, sink_started_, muxer>>
        BY <1>6 DEF SinkNext, SinkLoop, Pop, PopChecks, PopBlocks, PopNull, Process
    <2>2. "at" \in DOMAIN snk'
        BY <1>6, <1>at
        DEF SinkNext, SinkLoop, Pop, PopChecks, PopBlocks, PopNull, Process
    <2>3. snk.at # "none"
        BY <1>6 DEF SinkNext, SinkLoop, Pop, PopChecks, PopBlocks, PopNull, Process
    <2> QED BY <2>1, <2>2, <2>3, ThreadMoves
<1>7. CASE start
    BY <1>7, <1>at, ThreadMoves DEF start, sink
<1>8. CASE start_sink
    BY <1>8 DEF start_sink, ThreadInside
<1>9. CASE \E accepted \in BOOLEAN : linkSink(accepted)
    <2>1. PICK accepted \in BOOLEAN : linkSink(accepted)
        BY <1>9
    <2>2. snk' = snk /\ sink_started_' = sink_started_ /\ ctl = "link"
        BY <2>1 DEF linkSink
    <2>3. snk.at = "none" /\ muxer /\ ~sink_started_
        BY <2>2 DEF ThreadInside
    <2>4. CASE accepted
        <3>1. ctl' = "sink_start" /\ muxer' = muxer
            BY <2>1, <2>4 DEF linkSink
        <3> QED BY <3>1, <2>2, <2>3, <1>at DEF ThreadInside
    <2>5. CASE ~accepted
        <3>1. ctl' = "idle"
            BY <2>1, <2>5 DEF linkSink
        <3> QED BY <3>1, <2>2, <2>3, <1>at DEF ThreadInside
    <2> QED BY <2>4, <2>5
<1>10. CASE SinkStarts
    BY <1>10 DEF SinkStarts, ThreadInside
<1>11. CASE stop_sink
    BY <1>11 DEF stop_sink, ThreadInside
<1>12. CASE SinkFlush
    BY <1>12, NotifiedMoves DEF SinkFlush, ThreadInside
<1>13. CASE SinkJoin
    BY <1>13 DEF SinkJoin, Nobody, ThreadInside
<1>14. CASE unlinkSink
    BY <1>14 DEF unlinkSink, ThreadInside
<1>15. CASE stop
    BY <1>15 DEF stop, sink, ThreadInside
<1>16. CASE SourceFlush
    BY <1>16, NotifiedMoves DEF SourceFlush, ThreadInside
<1>17. CASE SourceJoin
    BY <1>17 DEF SourceJoin, sink, ThreadInside
<1> QED
    BY <1>1, <1>2, <1>3, <1>4, <1>5, <1>6, <1>7, <1>8, <1>9, <1>10, <1>11, <1>12, <1>13,
       <1>14, <1>15, <1>16, <1>17
    DEF Next, SourceNext, ControlNext, PullInterrupted

\* process() of the sink never runs on an output that finit_sink() has freed or
\* that is not open yet: stop_sink() joins the thread before it frees the
\* output, and start_sink() opens the output before it starts the thread.
THEOREM MuxerValidCorrect == Spec => []MuxerValid
<1>1. ThreadInside => MuxerValid
    BY DEF ThreadInside, MuxerValid
<1> QED
    BY <1>1, InitInside, NextInside, PTL DEF Spec
-----------------------------------------------------------------------------
\* The frames the source can have delivered.
Delivered == [n : 1..MaxFrames, kind : {"key", "delta", "audio"}]
QueueType == [items : Seq(Delivered), flushing_ : BOOLEAN, eos_ : BOOLEAN,
              wait_video_key_ : BOOLEAN]

\* push() to a queue that may drop keeps a part of the queue from some place on.
LEMMA DropFrontKeeps ==
    ASSUME NEW q \in QueueType, NEW f \in Delivered
    PROVE  /\ DropFront(q, f).flushing_ = q.flushing_
           /\ \E k \in 0..Len(q.items), w \in BOOLEAN :
                  /\ Len(q.items) >= MaxItems => k > 0
                  /\ DropFront(q, f).items = Append(SubSeq(q.items, k + 1, Len(q.items)), f)
                  /\ DropFront(q, f) = [items |-> Append(SubSeq(q.items, k + 1, Len(q.items)), f),
                                        flushing_ |-> q.flushing_, eos_ |-> q.eos_,
                                        wait_video_key_ |-> w]
<1> DEFINE first == IF Len(q.items) >= MaxItems THEN 1 ELSE 0
           wait  == q.wait_video_key_ \/ (first = 1 /\ q.items[1].kind # "audio")
           S     == {k \in first..Len(q.items) :
                         \A i \in first+1..k : q.items[i].kind = "delta"}
           last  == IF wait THEN Max(S) ELSE first
           rest  == SubSeq(q.items, last + 1, Len(q.items))
<1>0. MaxItems \in Nat \ {0} /\ q.items \in Seq(Delivered) /\ Len(q.items) \in Nat
    BY StreamerAssumption DEF QueueType
<1>1. first \in first..Len(q.items) /\ first \in 0..1
    BY <1>0
<1>2. first \in S
    BY <1>1
<1>3. S \in SUBSET (first..Len(q.items))
    OBVIOUS
<1>4. last \in first..Len(q.items)
    <2> HIDE DEF S, first
    <2>1. first \in Int /\ Len(q.items) \in Int /\ S # {}
        BY <1>0, <1>1, <1>2
    <2>2. Max(S) \in S
        BY <1>3, <2>1, MaxOfInterval
    <2> QED BY <2>1, <2>2, <1>1, <1>3
<1> HIDE DEF first, S, last, wait
<1>5. last \in 0..Len(q.items) /\ (Len(q.items) >= MaxItems => last > 0)
    <2>1. Len(q.items) >= MaxItems => first = 1
        BY DEF first
    <2> QED BY <1>0, <1>1, <1>4, <2>1
<1> DEFINE w == wait /\ ~(rest # <<>> /\ rest[1].kind = "key")
<1>6. DropFront(q, f) = [q EXCEPT !.items = Append(rest, f), !.wait_video_key_ = w]
    BY DEF DropFront, last, S, wait, first
<1>7. w \in BOOLEAN
    OBVIOUS
<1> HIDE DEF rest, w
<1>8. DropFront(q, f) = [items |-> Append(rest, f), flushing_ |-> q.flushing_,
                         eos_ |-> q.eos_, wait_video_key_ |-> w]
    BY <1>6 DEF QueueType
<1>9. DropFront(q, f).items = Append(rest, f) /\ DropFront(q, f).flushing_ = q.flushing_
    BY <1>8
<1> QED BY <1>5, <1>7, <1>8, <1>9 DEF rest

\* A frame pushed to a full queue that may drop replaces at least one other.
LEMMA DropFrontFits ==
    ASSUME NEW q \in QueueType, Len(q.items) <= MaxItems, NEW f \in Delivered
    PROVE  /\ DropFront(q, f) \in QueueType
           /\ Len(DropFront(q, f).items) <= MaxItems
<1>0. /\ MaxItems \in Nat \ {0} /\ q.items \in Seq(Delivered) /\ Len(q.items) \in Nat
      /\ q.flushing_ \in BOOLEAN /\ q.eos_ \in BOOLEAN
    BY StreamerAssumption DEF QueueType
<1>1. PICK k \in 0..Len(q.items), w \in BOOLEAN :
          /\ Len(q.items) >= MaxItems => k > 0
          /\ DropFront(q, f) = [items |-> Append(SubSeq(q.items, k + 1, Len(q.items)), f),
                                flushing_ |-> q.flushing_, eos_ |-> q.eos_,
                                wait_video_key_ |-> w]
    BY DropFrontKeeps
<1> DEFINE rest == SubSeq(q.items, k + 1, Len(q.items))
<1>2. rest \in Seq(Delivered) /\ Len(rest) = Len(q.items) - k
    BY <1>0
<1>3. Len(rest) < MaxItems
    BY <1>0, <1>1, <1>2
<1> HIDE DEF rest
<1>4. Append(rest, f) \in Seq(Delivered) /\ Len(Append(rest, f)) <= MaxItems
    BY <1>0, <1>2, <1>3
<1> QED BY <1>0, <1>1, <1>4 DEF QueueType, rest

LEMMA PushedFits ==
    ASSUME NEW q \in QueueType, Len(q.items) <= MaxItems, NEW f \in Delivered,
           droppable \/ Len(q.items) < MaxItems
    PROVE  Pushed(q, f) \in QueueType /\ Len(Pushed(q, f).items) <= MaxItems
<1>1. CASE droppable
    BY <1>1, DropFrontFits DEF Pushed
<1>2. CASE ~droppable
    <2>1. /\ q.items \in Seq(Delivered) /\ Len(q.items) < MaxItems /\ MaxItems \in Nat
          /\ q.flushing_ \in BOOLEAN /\ q.eos_ \in BOOLEAN /\ q.wait_video_key_ \in BOOLEAN
        BY <1>2, StreamerAssumption DEF QueueType
    <2>2. /\ Append(q.items, f) \in Seq(Delivered)
          /\ Len(Append(q.items, f)) = Len(q.items) + 1
        BY <2>1
    <2>3. Pushed(q, f) = [q EXCEPT !.items = Append(@, f)]
        BY <1>2 DEF Pushed
    <2> QED BY <2>1, <2>2, <2>3 DEF QueueType
<1> QED BY <1>1, <1>2

\* The inductive form of the type invariant: a thread that pushes has a frame.
Thread(steps) == [at : steps, frame : Delivered \cup {NoFrame}]
FlagsType ==
    /\ source_started_ \in BOOLEAN /\ sink_started_ \in BOOLEAN
    /\ source_running_ \in BOOLEAN /\ sink_running_ \in BOOLEAN
    /\ linked \in BOOLEAN /\ droppable \in BOOLEAN /\ muxer \in BOOLEAN
ControlType ==
    /\ ctl \in Control /\ lock \in {"free", "source"}
    /\ pulled \in 0..MaxFrames /\ starts \in 0..MaxStarts
SourceType ==
    /\ src \in Thread(SourceStep)
    /\ src.at \in {"lock", "push", "wait"} => src.frame \in Delivered
SinkType == snk \in Thread(SinkStep) /\ written \in 0..MaxFrames
QueueFits == queue \in QueueType /\ Len(queue.items) <= MaxItems
StepTypes == FlagsType /\ ControlType /\ SourceType /\ SinkType /\ QueueFits

LEMMA StepTypesInit == Init => StepTypes
<1> SUFFICES ASSUME Init PROVE StepTypes
    OBVIOUS
<1>1. FlagsType
    BY DEF Init, FlagsType
<1>2. ControlType
    BY StreamerAssumption DEF Init, ControlType, Control
<1>3. SourceType
    BY DEF Init, SourceType, Thread, Nobody, SourceStep
<1>4. SinkType
    BY StreamerAssumption DEF Init, SinkType, Thread, Nobody, SinkStep
<1>5. QueueFits
    <2>1. <<>> \in Seq(Delivered) /\ Len(<<>>) <= MaxItems
        BY StreamerAssumption
    <2>2. queue.items = <<>> /\ EmptyQueue \in QueueType
        BY <2>1 DEF Init, EmptyQueue, QueueType
    <2> QED BY <2>1, <2>2 DEF Init, QueueFits
<1> QED BY <1>1, <1>2, <1>3, <1>4, <1>5 DEF StepTypes

LEMMA FlagsStep == FlagsType /\ [Next]_vars => FlagsType'
<1> SUFFICES ASSUME FlagsType, [Next]_vars PROVE FlagsType'
    OBVIOUS
<1> USE DEF FlagsType
<1>1. CASE UNCHANGED vars
    BY <1>1 DEF vars, source, sink
<1>2. CASE (\E kind \in {"key", "delta", "audio"} : Pull(kind)) \/ PullFails
    BY <1>2 DEF Pull, PullFails, sink
<1>3. CASE SourceLoop \/ ErrorAll \/ PushLock \/ Push \/ PushWaited
    BY <1>3 DEF SourceLoop, ErrorAll, PushLock, Push, PushWaited, sink
<1>4. CASE SinkNext
    BY <1>4 DEF SinkNext, SinkLoop, Pop, PopChecks, PopBlocks, PopNull, Process, source
<1>5. CASE \E accepted \in BOOLEAN : linkSink(accepted)
    BY <1>5 DEF linkSink, source
<1>6. CASE SinkStarts \/ SinkFlush \/ SinkJoin \/ unlinkSink
    BY <1>6 DEF SinkStarts, SinkFlush, SinkJoin, unlinkSink, source
<1>7. CASE SourceFlush \/ SourceJoin
    BY <1>7 DEF SourceFlush, SourceJoin, source, sink
<1>8. CASE start \/ start_sink \/ stop_sink \/ stop
    BY <1>8 DEF start, start_sink, stop_sink, stop, source, sink
<1> QED BY <1>1, <1>2, <1>3, <1>4, <1>5, <1>6, <1>7, <1>8
        DEF Next, SourceNext, ControlNext, PullInterrupted

LEMMA ControlStep == ControlType /\ [Next]_vars => ControlType'
<1> SUFFICES ASSUME ControlType, [Next]_vars PROVE ControlType'
    OBVIOUS
<1>0. MaxFrames \in Nat /\ MaxStarts \in Nat
    BY StreamerAssumption
<1> USE DEF ControlType, Control
<1>1. CASE UNCHANGED vars
    BY <1>1 DEF vars
<1>2. CASE (\E kind \in {"key", "delta", "audio"} : Pull(kind)) \/ PullFails
    BY <1>0, <1>2 DEF Pull, PullFails
<1>3. CASE SourceLoop \/ ErrorAll \/ PushLock \/ Push \/ PushWaited
    BY <1>3 DEF SourceLoop, ErrorAll, PushLock, Push, PushWaited, PushDone
<1>4. CASE SinkNext
    BY <1>4 DEF SinkNext, SinkLoop, Pop, PopChecks, PopBlocks, PopNull, Process
<1>5. CASE \E accepted \in BOOLEAN : linkSink(accepted)
    BY <1>5 DEF linkSink
<1>6. CASE SinkStarts \/ SinkFlush \/ SinkJoin \/ unlinkSink \/ SourceFlush \/ SourceJoin
    BY <1>6 DEF SinkStarts, SinkFlush, SinkJoin, unlinkSink, SourceFlush, SourceJoin
<1>7. CASE start \/ start_sink \/ stop_sink \/ stop
    BY <1>0, <1>7 DEF start, start_sink, stop_sink, stop
<1> QED BY <1>1, <1>2, <1>3, <1>4, <1>5, <1>6, <1>7
        DEF Next, SourceNext, ControlNext, PullInterrupted

LEMMA SourceStepType == SourceType /\ ControlType /\ [Next]_vars => SourceType'
<1> SUFFICES ASSUME SourceType, ControlType, [Next]_vars PROVE SourceType'
    OBVIOUS
<1>0. MaxFrames \in Nat /\ pulled \in 0..MaxFrames
    BY StreamerAssumption DEF ControlType
<1> USE DEF SourceType, SourceStep, Thread
<1>1. CASE \E kind \in {"key", "delta", "audio"} : Pull(kind)
    <2>1. PICK kind \in {"key", "delta", "audio"} : Pull(kind)
        BY <1>1
    <2>2. [n |-> pulled + 1, kind |-> kind] \in Delivered
        BY <1>0, <2>1 DEF Pull, Delivered
    <2> QED BY <2>1, <2>2 DEF Pull
<1>2. CASE SourceLoop \/ ErrorAll \/ PushLock \/ PullFails
    BY <1>2 DEF SourceLoop, ErrorAll, PushLock, PullFails
<1>3. CASE Push \/ PushWaited
    BY <1>3 DEF Push, PushWaited, PushDone
<1>4. CASE start \/ SourceJoin
    BY <1>4 DEF start, SourceJoin, Nobody
<1>5. ASSUME \/ UNCHANGED vars \/ SinkNext \/ start_sink \/ stop_sink \/ stop
             \/ \E accepted \in BOOLEAN : linkSink(accepted)
             \/ SinkStarts \/ SinkFlush \/ SinkJoin \/ unlinkSink \/ SourceFlush
      PROVE  src' = src
    BY <1>5 DEF vars, source, SinkNext, SinkLoop, Pop, PopChecks, PopBlocks, PopNull, Process,
       start_sink, stop_sink, stop, linkSink, SinkStarts, SinkFlush, SinkJoin, unlinkSink,
       SourceFlush
<1>6. ASSUME src' = src PROVE SourceType'
    BY <1>6
<1> QED BY <1>1, <1>2, <1>3, <1>4, <1>5, <1>6
        DEF Next, SourceNext, ControlNext, PullInterrupted

LEMMA SinkStepType == SinkType /\ QueueFits /\ [Next]_vars => SinkType'
<1> SUFFICES ASSUME SinkType, QueueFits, [Next]_vars PROVE SinkType'
    OBVIOUS
<1>0. MaxFrames \in Nat /\ queue.items \in Seq(Delivered)
    BY StreamerAssumption DEF QueueFits, QueueType
<1>t. snk \in Thread(SinkStep) /\ written \in 0..MaxFrames
    BY DEF SinkType
<1>n. Notified(snk) \in Thread(SinkStep)
    BY <1>t DEF Notified, Thread, SinkStep
<1>1. CASE SinkLoop \/ PopChecks \/ PopBlocks \/ PopNull
    BY <1>1, <1>t DEF SinkLoop, PopChecks, PopBlocks, PopNull, SinkType, Thread, SinkStep
<1>2. CASE Pop
    <2>1. Head(queue.items) \in Delivered
        BY <1>0, <1>2 DEF Pop
    <2> QED BY <1>2, <1>t, <2>1 DEF Pop, SinkType, Thread, SinkStep
<1>3. CASE \E ok \in BOOLEAN : Process(ok)
    <2>1. snk.frame.n \in 0..MaxFrames
        BY <1>0, <1>t DEF Thread, Delivered, NoFrame
    <2> QED BY <1>3, <1>t, <2>1 DEF Process, SinkType, Thread, SinkStep
<1>4. CASE ErrorAll \/ Push \/ PushWaited \/ SinkFlush \/ SourceFlush
    BY <1>4, <1>t, <1>n DEF ErrorAll, Push, PushWaited, SinkFlush, SourceFlush, SinkType
<1>5. CASE SinkStarts \/ SinkJoin
    BY <1>5, <1>t DEF SinkStarts, SinkJoin, Nobody, SinkType, Thread, SinkStep
<1>6. CASE \E accepted \in BOOLEAN : linkSink(accepted)
    BY <1>0, <1>6, <1>t DEF linkSink, SinkType
<1>7. ASSUME \/ UNCHANGED vars \/ start \/ start_sink \/ stop_sink \/ stop
             \/ \E kind \in {"key", "delta", "audio"} : Pull(kind)
             \/ PullFails \/ SourceLoop \/ PushLock \/ unlinkSink \/ SourceJoin
      PROVE  snk' = snk /\ written' = written
    BY <1>7 DEF vars, sink, start, start_sink, stop_sink, stop, Pull, PullFails, SourceLoop,
       PushLock, unlinkSink, SourceJoin
<1>8. ASSUME snk' = snk, written' = written PROVE SinkType'
    BY <1>8, <1>t DEF SinkType
<1> QED BY <1>1, <1>2, <1>3, <1>4, <1>5, <1>6, <1>7, <1>8
        DEF Next, SourceNext, SinkNext, ControlNext, PullInterrupted

LEMMA QueueStep == QueueFits /\ SourceType /\ [Next]_vars => QueueFits'
<1> SUFFICES ASSUME QueueFits, SourceType, [Next]_vars PROVE QueueFits'
    OBVIOUS
<1>0. /\ MaxItems \in Nat \ {0} /\ queue \in QueueType /\ Len(queue.items) <= MaxItems
      /\ queue.items \in Seq(Delivered) /\ queue.eos_ \in BOOLEAN
    BY StreamerAssumption DEF QueueFits, QueueType
<1>1. CASE Push
    <2>1. src.frame \in Delivered
        BY <1>1 DEF Push, SourceType
    <2>2. ASSUME droppable \/ ~Full, queue' = Pushed(queue, src.frame) PROVE QueueFits'
        <3>1. droppable \/ Len(queue.items) < MaxItems
            BY <1>0, <2>2 DEF Full
        <3> QED BY <1>0, <2>1, <2>2, <3>1, PushedFits DEF QueueFits
    <2>3. ASSUME queue' = queue PROVE QueueFits'
        BY <2>3 DEF QueueFits
    <2> QED BY <1>1, <2>2, <2>3 DEF Push
<1>2. CASE PushWaited
    <2>1. src.frame \in Delivered /\ Len(queue.items) < MaxItems
        BY <1>0, <1>2 DEF PushWaited, SourceType, Full
    <2> QED BY <1>0, <1>2, <2>1, PushedFits DEF PushWaited, QueueFits
<1>3. CASE Pop
    <2>1. /\ Tail(queue.items) \in Seq(Delivered)
          /\ Len(Tail(queue.items)) = Len(queue.items) - 1
        BY <1>0, <1>3 DEF Pop
    <2>2. Len(Tail(queue.items)) <= MaxItems
        BY <1>0, <2>1
    <2> QED BY <1>0, <1>3, <2>1, <2>2 DEF Pop, QueueFits, QueueType
<1>4. CASE ErrorAll \/ \E ok \in BOOLEAN : Process(ok)
    BY <1>0, <1>4 DEF ErrorAll, Process, QueueFits, QueueType
<1>f. Flushed(queue) \in QueueType /\ Len(Flushed(queue).items) <= MaxItems
    <2>1. <<>> \in Seq(Delivered) /\ Len(<<>>) <= MaxItems
        BY <1>0
    <2>2. /\ Flushed(queue) = [queue EXCEPT !.items = <<>>, !.flushing_ = TRUE]
          /\ Flushed(queue).items = <<>>
        BY <1>0 DEF Flushed, QueueType
    <2> QED BY <1>0, <2>1, <2>2 DEF QueueType
<1>5. CASE SinkFlush \/ SourceFlush
    BY <1>0, <1>5, <1>f DEF SinkFlush, SourceFlush, QueueFits
<1>6. CASE \E accepted \in BOOLEAN : linkSink(accepted)
    <2>1. EmptyQueue \in QueueType /\ Len(EmptyQueue.items) <= MaxItems
        BY <1>0 DEF EmptyQueue, QueueType
    <2> QED BY <1>0, <1>6, <2>1 DEF linkSink, QueueFits
<1>7. ASSUME \/ UNCHANGED vars \/ start \/ start_sink \/ stop_sink \/ stop
             \/ \E kind \in {"key", "delta", "audio"} : Pull(kind)
             \/ PullFails \/ SourceLoop \/ PushLock \/ SinkLoop \/ PopChecks \/ PopBlocks
             \/ PopNull \/ SinkStarts \/ SinkJoin \/ unlinkSink \/ SourceJoin
      PROVE  queue' = queue
    BY <1>7 DEF vars, start, start_sink, stop_sink, stop, Pull, PullFails, SourceLoop,
       PushLock, SinkLoop, PopChecks, PopBlocks, PopNull, SinkStarts, SinkJoin, unlinkSink,
       SourceJoin
<1>8. ASSUME queue' = queue PROVE QueueFits'
    BY <1>0, <1>8 DEF QueueFits
<1> QED BY <1>1, <1>2, <1>3, <1>4, <1>5, <1>6, <1>7, <1>8
        DEF Next, SourceNext, SinkNext, ControlNext, PullInterrupted

LEMMA TypesImply == StepTypes => TypeOK
<1> SUFFICES ASSUME StepTypes PROVE TypeOK
    OBVIOUS
<1>1. Delivered \subseteq Frame
    BY StreamerAssumption DEF Delivered, Frame
<1>2. queue \in [items : Seq(Frame), flushing_ : BOOLEAN, eos_ : BOOLEAN,
                 wait_video_key_ : BOOLEAN]
    <2>1. queue.items \in Seq(Frame)
        BY <1>1 DEF StepTypes, QueueFits, QueueType
    <2> QED BY <2>1 DEF StepTypes, QueueFits, QueueType
<1>3. /\ src \in [at : SourceStep, frame : Frame \cup {NoFrame}]
      /\ snk \in [at : SinkStep, frame : Frame \cup {NoFrame}]
    BY <1>1 DEF StepTypes, SourceType, SinkType, Thread
<1>4. {source_started_, sink_started_, source_running_, sink_running_} \subseteq BOOLEAN
    BY DEF StepTypes, FlagsType
<1>5. {linked, droppable, muxer} \subseteq BOOLEAN
    BY DEF StepTypes, FlagsType
<1> QED BY <1>2, <1>3, <1>4, <1>5 DEF TypeOK, StepTypes, ControlType, SinkType, QueueFits

\* The queue between the threads never holds more than max_items frames and
\* every thread is where it can be: a sink that may drop loses at least one
\* frame for each one pushed to a full queue, and a source that may not waits
\* for room before it pushes.
THEOREM TypeCorrect == Spec => []TypeOK
<1>1. StepTypes /\ [Next]_vars => StepTypes'
    BY FlagsStep, ControlStep, SourceStepType, SinkStepType, QueueStep DEF StepTypes
<1> QED
    BY <1>1, StepTypesInit, TypesImply, PTL DEF Spec
-----------------------------------------------------------------------------
(***************************************************************************)
(* No frame is lost or reordered. The frames are numbered as the source    *)
(* delivers them; what counts is the run of numbers from the last frame    *)
(* the sink thread took over the queue to the one the source pushes next.  *)
(***************************************************************************)

\* The number of the last frame the sink thread took, and that of the frame
\* the source pushes next.
Holding == src.at \in {"lock", "push", "wait"}
Handled == IF snk.at = "process" THEN snk.frame.n ELSE written
Upcoming == IF Holding THEN pulled ELSE pulled + 1

\* A queue q between a frame h that was taken and a frame u still to come: its
\* numbers increase from h to u,
Increasing(h, q, u) ==
    /\ h < u
    /\ \A i \in 1..Len(q) : h < q[i].n /\ q[i].n < u
    /\ \A i \in 1..Len(q) : \A j \in 1..Len(q) : i < j => q[i].n < q[j].n

\* and without a gap, where 0 stands for no frame.
Gapless(h, q, u) ==
    /\ q = <<>> => h = 0 \/ u = h + 1
    /\ q # <<>> => (h = 0 \/ q[1].n = h + 1) /\ u = q[Len(q)].n + 1
    /\ \A i \in 1..Len(q) : i < Len(q) => q[i + 1].n = q[i].n + 1

\* What is given to process() follows what was given to it before.
Following ==
    snk.at = "process" =>
        /\ written < snk.frame.n
        /\ ~droppable => written = 0 \/ snk.frame.n = written + 1

\* The frames between the threads, from linkSink() to the next flush().
Flow ==
    linked /\ ~queue.flushing_ =>
        /\ Following
        /\ Increasing(Handled, queue.items, Upcoming)
        /\ ~droppable => Gapless(Handled, queue.items, Upcoming)

\* The inductive form of NoFrameLost: besides, the source thread holds the last
\* frame it pulled, and a thread only exists once the source was started.
FlowInv ==
    /\ Holding => src.frame.n = pulled
    /\ source_started_ \/ src.at = "none"
    /\ Flow

\* A frame pushed at the end of the run moves the next one on.
LEMMA AppendRun ==
    ASSUME NEW h \in Nat, NEW q \in Seq(Delivered), NEW u \in Nat, NEW f \in Delivered,
           f.n = u, Increasing(h, q, u)
    PROVE  /\ Increasing(h, Append(q, f), u + 1)
           /\ Gapless(h, q, u) => Gapless(h, Append(q, f), u + 1)
<1> DEFINE r == Append(q, f)
<1>1. /\ Len(q) \in Nat /\ Len(r) = Len(q) + 1 /\ r[Len(q) + 1] = f /\ r # <<>>
      /\ \A i \in 1..Len(q) : r[i] = q[i] /\ q[i] \in Delivered
    OBVIOUS
<1>2. \A i \in 1..Len(r) : i \in 1..Len(q) \/ i = Len(q) + 1
    BY <1>1
<1>n. \A d \in Delivered : d.n \in Nat /\ d.n > 0
    BY StreamerAssumption DEF Delivered
<1> HIDE DEF r
<1>3. \A i \in 1..Len(r) : h < r[i].n /\ r[i].n < u + 1
    <2> TAKE i \in 1..Len(r)
    <2>1. CASE i = Len(q) + 1
        BY <2>1, <1>1 DEF Increasing
    <2>2. CASE i \in 1..Len(q)
        <3>1. r[i] = q[i] /\ h < q[i].n /\ q[i].n < u /\ q[i].n \in Nat
            BY <2>2, <1>1, <1>n DEF Increasing
        <3> QED BY <3>1
    <2> QED BY <2>1, <2>2, <1>2
<1>4. ASSUME NEW i \in 1..Len(r), NEW j \in 1..Len(r), i < j PROVE r[i].n < r[j].n
    <2>1. i \in 1..Len(q)
        BY <1>1, <1>4
    <2>2. CASE j \in 1..Len(q)
        BY <2>1, <2>2, <1>1, <1>4 DEF Increasing
    <2>3. CASE j = Len(q) + 1
        BY <2>1, <2>3, <1>1 DEF Increasing
    <2> QED BY <2>2, <2>3, <1>2
<1>5. Increasing(h, r, u + 1)
    <2>1. h < u + 1
        BY DEF Increasing
    <2> QED BY <2>1, <1>3, <1>4 DEF Increasing
<1>6. ASSUME Gapless(h, q, u) PROVE Gapless(h, r, u + 1)
    <2>1. u + 1 = r[Len(r)].n + 1
        BY <1>1
    <2>2. h = 0 \/ r[1].n = h + 1
        <3>1. CASE q = <<>>
            <4>1. r[1] = f
                BY <3>1, <1>1
            <4> QED BY <4>1, <3>1, <1>6 DEF Gapless
        <3>2. CASE q # <<>>
            <4>1. 1 \in 1..Len(q)
                BY <3>2, <1>1
            <4> QED BY <4>1, <3>2, <1>1, <1>6 DEF Gapless
        <3> QED BY <3>1, <3>2
    <2>3. ASSUME NEW i \in 1..Len(r), i < Len(r) PROVE r[i + 1].n = r[i].n + 1
        <3>1. i \in 1..Len(q)
            BY <2>3, <1>1
        <3>2. CASE i < Len(q)
            <4>1. i + 1 \in 1..Len(q)
                BY <3>1, <3>2, <1>1
            <4> QED BY <4>1, <3>1, <3>2, <1>1, <1>6 DEF Gapless
        <3>3. CASE i = Len(q)
            <4>1. q # <<>>
                BY <3>1, <3>3
            <4> QED BY <4>1, <3>1, <3>3, <1>1, <1>6 DEF Gapless
        <3> QED BY <3>1, <3>2, <3>3, <1>1
    <2> QED BY <2>1, <2>2, <2>3, <1>1 DEF Gapless
<1> QED BY <1>5, <1>6 DEF r

\* Frames dropped in front leave the order as it is.
LEMMA DropRun ==
    ASSUME NEW h \in Nat, NEW q \in Seq(Delivered), NEW u \in Nat, NEW k \in 0..Len(q),
           Increasing(h, q, u)
    PROVE  Increasing(h, SubSeq(q, k + 1, Len(q)), u)
<1> DEFINE r == SubSeq(q, k + 1, Len(q))
<1>1. /\ Len(q) \in Nat /\ Len(r) = Len(q) - k
      /\ \A i \in 1..Len(r) : r[i] = q[i + k]
    OBVIOUS
<1>2. \A i \in 1..Len(r) : i + k \in 1..Len(q)
    BY <1>1
<1> HIDE DEF r
<1>3. \A i \in 1..Len(r) : h < r[i].n /\ r[i].n < u
    BY <1>1, <1>2 DEF Increasing
<1>4. ASSUME NEW i \in 1..Len(r), NEW j \in 1..Len(r), i < j PROVE r[i].n < r[j].n
    <2>1. i + k \in 1..Len(q) /\ j + k \in 1..Len(q) /\ i + k < j + k
        BY <1>1, <1>2, <1>4
    <2> QED BY <2>1, <1>1 DEF Increasing
<1>5. Increasing(h, r, u)
    BY <1>3, <1>4 DEF Increasing
<1> QED BY <1>5 DEF r

\* The frame in front becomes the last one taken.
LEMMA TakeRun ==
    ASSUME NEW h \in Nat, NEW q \in Seq(Delivered), NEW u \in Nat, q # <<>>,
           Increasing(h, q, u)
    PROVE  /\ Head(q) \in Delivered /\ h < Head(q).n
           /\ Increasing(Head(q).n, Tail(q), u)
           /\ Gapless(h, q, u) => /\ h = 0 \/ Head(q).n = h + 1
                                  /\ Gapless(Head(q).n, Tail(q), u)
<1> DEFINE r == Tail(q)
<1>1. /\ Len(q) \in Nat /\ Len(q) > 0 /\ Len(r) = Len(q) - 1
      /\ Head(q) = q[1] /\ q[1] \in Delivered
      /\ \A i \in 1..Len(r) : r[i] = q[i + 1]
      /\ r \in Seq(Delivered)
    OBVIOUS
<1>2. \A i \in 1..Len(r) : i + 1 \in 1..Len(q) /\ 1 < i + 1
    BY <1>1
<1>3. 1 \in 1..Len(q)
    BY <1>1
<1> HIDE DEF r
<1>e. r = <<>> <=> Len(r) = 0
    BY <1>1
<1>4. h < q[1].n /\ q[1].n < u
    BY <1>3 DEF Increasing
<1>5. \A i \in 1..Len(r) : q[1].n < r[i].n /\ r[i].n < u
    BY <1>1, <1>2, <1>3 DEF Increasing
<1>6. ASSUME NEW i \in 1..Len(r), NEW j \in 1..Len(r), i < j PROVE r[i].n < r[j].n
    <2>1. i + 1 \in 1..Len(q) /\ j + 1 \in 1..Len(q) /\ i + 1 < j + 1
        BY <1>1, <1>2, <1>6
    <2> QED BY <2>1, <1>1 DEF Increasing
<1>7. Increasing(q[1].n, r, u)
    BY <1>4, <1>5, <1>6 DEF Increasing
<1>8. ASSUME Gapless(h, q, u)
      PROVE  (h = 0 \/ q[1].n = h + 1) /\ Gapless(q[1].n, r, u)
    <2>1. h = 0 \/ q[1].n = h + 1
        BY <1>8 DEF Gapless
    <2>2. u = q[Len(q)].n + 1
        BY <1>8 DEF Gapless
    <2>3. CASE r = <<>>
        <3>1. Len(q) = 1
            BY <2>3, <1>1, <1>e
        <3>2. \A i \in 1..Len(r) : FALSE
            BY <2>3
        <3> QED BY <2>1, <2>2, <2>3, <3>1, <3>2 DEF Gapless
    <2>4. CASE r # <<>>
        <3>1. Len(r) \in 1..Len(r) /\ 1 \in 1..Len(r) /\ 1 < Len(q)
            BY <2>4, <1>1, <1>e
        <3>2. r[Len(r)] = q[Len(q)] /\ r[1] = q[2]
            BY <3>1, <1>1
        <3>3. q[2].n = q[1].n + 1
            BY <3>1, <1>3, <1>8 DEF Gapless
        <3>4. ASSUME NEW i \in 1..Len(r), i < Len(r) PROVE r[i + 1].n = r[i].n + 1
            <4>1. i + 1 \in 1..Len(r) /\ i + 1 \in 1..Len(q) /\ i + 1 < Len(q)
                BY <3>4, <1>1
            <4>2. r[i] = q[i + 1] /\ r[i + 1] = q[(i + 1) + 1]
                BY <4>1, <1>1
            <4> QED BY <4>1, <4>2, <1>8 DEF Gapless
        <3> QED BY <2>1, <2>2, <2>4, <3>2, <3>3, <3>4 DEF Gapless
    <2> QED BY <2>3, <2>4, <2>1
<1> QED BY <1>1, <1>4, <1>7, <1>8 DEF r

\* A push moves the run on, and leaves no gap when the queue may not drop.
LEMMA PushRun ==
    ASSUME NEW q \in QueueType, NEW f \in Delivered, NEW h \in Nat, NEW u \in Nat,
           f.n = u, Increasing(h, q.items, u)
    PROVE  /\ Pushed(q, f).flushing_ = q.flushing_
           /\ Increasing(h, Pushed(q, f).items, u + 1)
           /\ ~droppable /\ Gapless(h, q.items, u) => Gapless(h, Pushed(q, f).items, u + 1)
<1>0. q.items \in Seq(Delivered)
    BY DEF QueueType
<1>1. CASE droppable
    <2>1. PICK k \in 0..Len(q.items) :
              DropFront(q, f).items = Append(SubSeq(q.items, k + 1, Len(q.items)), f)
        BY DropFrontKeeps
    <2>2. SubSeq(q.items, k + 1, Len(q.items)) \in Seq(Delivered)
        BY <1>0
    <2>3. Increasing(h, SubSeq(q.items, k + 1, Len(q.items)), u)
        BY <1>0, DropRun
    <2>4. Increasing(h, DropFront(q, f).items, u + 1)
        BY <2>1, <2>2, <2>3, AppendRun
    <2> QED BY <1>1, <2>4, DropFrontKeeps DEF Pushed
<1>2. CASE ~droppable
    <2>1. Pushed(q, f).items = Append(q.items, f) /\ Pushed(q, f).flushing_ = q.flushing_
        BY <1>2 DEF Pushed, QueueType
    <2> QED BY <2>1, <1>0, AppendRun
<1> QED BY <1>1, <1>2

LEMMA FlowInit == Init => FlowInv
<1> SUFFICES ASSUME Init PROVE FlowInv
    OBVIOUS
<1>1. src.at = "none" /\ linked = FALSE
    BY DEF Init, Nobody
<1> QED BY <1>1 DEF FlowInv, Flow, Holding

\* A step that leaves the queue, its ends and the link alone, or flushes or
\* unlinks, preserves Flow.
LEMMA FlowStays ==
    ASSUME Flow, droppable' = droppable,
           linked' /\ ~queue'.flushing_ =>
               /\ linked /\ ~queue.flushing_ /\ queue'.items = queue.items
               /\ Handled' = Handled /\ Upcoming' = Upcoming
               /\ Following'
    PROVE  Flow'
<1> SUFFICES ASSUME linked', ~queue'.flushing_
             PROVE  /\ Following'
                    /\ Increasing(Handled', queue'.items, Upcoming')
                    /\ ~droppable' => Gapless(Handled', queue'.items, Upcoming')
    BY DEF Flow
<1>1. linked /\ ~queue.flushing_
    OBVIOUS
<1>2. Increasing(Handled, queue.items, Upcoming)
    BY <1>1 DEF Flow
<1>3. ~droppable => Gapless(Handled, queue.items, Upcoming)
    BY <1>1 DEF Flow
<1> QED BY <1>2, <1>3

\* What the types say of the two ends of the run.
LEMMA EndsType ==
    ASSUME StepTypes
    PROVE  /\ Handled \in Nat /\ Upcoming \in Nat
           /\ Holding => src.frame \in Delivered /\ src.frame.n > 0
           /\ queue \in QueueType /\ queue.items \in Seq(Delivered)
           /\ MaxFrames \in Nat /\ pulled \in Nat /\ written \in Nat
<1>1. MaxFrames \in Nat
    BY StreamerAssumption
<1>2. pulled \in Nat /\ written \in Nat
    BY <1>1 DEF StepTypes, ControlType, SinkType
<1>3. snk.frame.n \in Nat
    BY <1>1 DEF StepTypes, SinkType, Thread, Delivered, NoFrame
<1>4. Holding => src.frame \in Delivered /\ src.frame.n > 0
    BY <1>1 DEF StepTypes, SourceType, Holding, Delivered
<1>5. queue \in QueueType /\ queue.items \in Seq(Delivered)
    BY DEF StepTypes, QueueFits, QueueType
<1> QED BY <1>1, <1>2, <1>3, <1>4, <1>5 DEF Handled, Upcoming

\* The sink thread woken by a notification holds no frame it did not hold before.
LEMMA NotifiedHolds ==
    ASSUME snk \in Thread(SinkStep), snk' = snk \/ snk' = Notified(snk),
           UNCHANGED <<written, droppable>>
    PROVE  Handled' = Handled /\ (Following => Following')
<1>1. snk'.at = "process" <=> snk.at = "process"
    BY DEF Notified, Thread
<1>2. snk.at = "process" => snk' = snk
    BY DEF Notified
<1>3. Handled' = Handled
    BY <1>1, <1>2 DEF Handled
<1>4. Following => Following'
    BY <1>1, <1>2 DEF Following
<1> QED BY <1>3, <1>4

\* push() of the frame the source thread holds.
LEMMA PushFlow ==
    ASSUME StepTypes, FlowInv, Holding,
           queue' = Pushed(queue, src.frame), snk' = Notified(snk), PushDone,
           UNCHANGED <<linked, droppable, pulled, written>>
    PROVE  Flow'
<1>0. /\ Handled \in Nat /\ pulled \in Nat /\ queue \in QueueType
      /\ src.frame \in Delivered
    BY EndsType
<1>1. src.frame.n = pulled /\ Upcoming = pulled /\ Upcoming' = pulled + 1
    BY DEF FlowInv, Upcoming, Holding, PushDone
<1>2. Handled' = Handled /\ (Following => Following')
    BY NotifiedHolds DEF StepTypes, SinkType
<1> SUFFICES ASSUME linked', ~queue'.flushing_
             PROVE  /\ Following'
                    /\ Increasing(Handled', queue'.items, Upcoming')
                    /\ ~droppable' => Gapless(Handled', queue'.items, Upcoming')
    BY DEF Flow
<1>3. Pushed(queue, src.frame).flushing_ = queue.flushing_
    BY <1>0, DropFrontKeeps DEF Pushed, QueueType
<1>4. linked /\ ~queue.flushing_
    BY <1>3
<1>5. /\ Following
      /\ Increasing(Handled, queue.items, pulled)
      /\ ~droppable => Gapless(Handled, queue.items, pulled)
    BY <1>1, <1>4 DEF FlowInv, Flow
<1>6. /\ Increasing(Handled, queue'.items, pulled + 1)
      /\ ~droppable => Gapless(Handled, queue'.items, pulled + 1)
    BY <1>0, <1>1, <1>5, PushRun
<1> QED BY <1>1, <1>2, <1>5, <1>6

\* A new queue: it is empty, and nobody has taken a frame of it.
LEMMA LinkFlow ==
    ASSUME StepTypes, ThreadInside, FlowInv, NEW accepted \in BOOLEAN, linkSink(accepted)
    PROVE  Flow'
<1>0. /\ Upcoming \in Nat /\ pulled \in Nat
      /\ Holding => src.frame.n > 0
    BY EndsType
<1>1. snk' = snk /\ snk.at = "none" /\ UNCHANGED <<src, pulled, droppable>>
    BY DEF linkSink, ThreadInside, source
<1>2. Upcoming' = Upcoming
    BY <1>1 DEF Upcoming, Holding
<1>3. CASE accepted
    <2>1. written' = 0 /\ queue' = EmptyQueue
        BY <1>3 DEF linkSink
    <2>2. Handled' = 0 /\ queue'.items = <<>>
        BY <1>1, <2>1 DEF Handled, EmptyQueue
    <2>3. Upcoming > 0
        BY <1>0 DEF FlowInv, Upcoming
    <2>4. Len(<<>>) = 0
        OBVIOUS
    <2>5. Increasing(0, <<>>, Upcoming) /\ Gapless(0, <<>>, Upcoming)
        BY <1>0, <2>3, <2>4 DEF Increasing, Gapless
    <2>6. Following'
        BY <1>1 DEF Following
    <2> QED BY <1>2, <2>2, <2>5, <2>6 DEF Flow
<1>4. CASE ~accepted
    <2>1. UNCHANGED <<linked, queue, written>>
        BY <1>4 DEF linkSink
    <2>2. Handled' = Handled /\ Following'
        BY <1>1, <2>1 DEF Handled, Following
    <2> QED BY <1>1, <1>2, <2>1, <2>2, FlowStays DEF FlowInv
<1> QED BY <1>3, <1>4

\* pop() of a frame.
LEMMA PopFlow ==
    ASSUME StepTypes, FlowInv, Pop
    PROVE  Flow'
<1>0. /\ written \in Nat /\ Handled \in Nat /\ Upcoming \in Nat
      /\ queue.items \in Seq(Delivered) /\ queue \in QueueType
    BY EndsType
<1>1. /\ snk.at = "pop" /\ queue.items # <<>>
      /\ snk'.at = "process" /\ snk'.frame = Head(queue.items)
      /\ queue'.items = Tail(queue.items) /\ queue'.flushing_ = queue.flushing_
      /\ UNCHANGED <<src, pulled, linked, droppable, written>>
    BY <1>0 DEF Pop, source, QueueType
<1>2. Upcoming' = Upcoming /\ Handled = written /\ Handled' = Head(queue.items).n
    BY <1>1 DEF Upcoming, Holding, Handled
<1> SUFFICES ASSUME linked', ~queue'.flushing_
             PROVE  /\ Following'
                    /\ Increasing(Handled', queue'.items, Upcoming')
                    /\ ~droppable' => Gapless(Handled', queue'.items, Upcoming')
    BY DEF Flow
<1>3. /\ Increasing(written, queue.items, Upcoming)
      /\ ~droppable => Gapless(written, queue.items, Upcoming)
    BY <1>1, <1>2 DEF FlowInv, Flow
<1>4. /\ written < Head(queue.items).n
      /\ Increasing(Head(queue.items).n, Tail(queue.items), Upcoming)
      /\ ~droppable => /\ written = 0 \/ Head(queue.items).n = written + 1
                       /\ Gapless(Head(queue.items).n, Tail(queue.items), Upcoming)
    BY <1>0, <1>1, <1>3, TakeRun
<1>5. Following'
    BY <1>1, <1>4 DEF Following
<1> QED BY <1>1, <1>2, <1>4, <1>5

LEMMA NextFlow == StepTypes /\ ThreadInside /\ FlowInv /\ [Next]_vars => FlowInv'
<1> SUFFICES ASSUME StepTypes, ThreadInside, FlowInv, [Next]_vars PROVE FlowInv'
    OBVIOUS
<1>0. /\ queue \in QueueType /\ snk \in Thread(SinkStep) /\ src \in Thread(SourceStep)
      /\ droppable \in BOOLEAN
    BY DEF StepTypes, QueueFits, SinkType, SourceType, FlagsType
\* The source thread's own part.
<1>s. (Holding' => src'.frame.n = pulled') /\ (source_started_' \/ src'.at = "none")
    <2>0. (Holding => src.frame.n = pulled) /\ (source_started_ \/ src.at = "none")
        BY DEF FlowInv
    <2>1. CASE \E kind \in {"key", "delta", "audio"} : Pull(kind)
        <3>1. PICK kind \in {"key", "delta", "audio"} : Pull(kind)
            BY <2>1
        <3> QED BY <3>1, <2>0 DEF Pull
    <2>2. CASE SourceLoop \/ ErrorAll \/ PushLock \/ PullFails
        BY <2>0, <2>2, <1>0 DEF SourceLoop, ErrorAll, PushLock, PullFails, Holding, Thread
    <2>3. CASE Push \/ PushWaited
        BY <2>0, <2>3, <1>0 DEF Push, PushWaited, PushDone, Holding, Thread
    <2>4. CASE start \/ SourceJoin
        BY <2>4 DEF start, SourceJoin, Nobody, Holding
    <2>5. ASSUME \/ UNCHANGED vars \/ SinkNext \/ start_sink \/ stop_sink \/ stop
                 \/ \E accepted \in BOOLEAN : linkSink(accepted)
                 \/ SinkStarts \/ SinkFlush \/ SinkJoin \/ unlinkSink \/ SourceFlush
          PROVE  UNCHANGED <<src, pulled, source_started_>>
        BY <2>5 DEF vars, source, SinkNext, SinkLoop, Pop, PopChecks, PopBlocks, PopNull,
           Process, start_sink, stop_sink, stop, linkSink, SinkStarts, SinkFlush, SinkJoin,
           unlinkSink, SourceFlush
    <2>6. ASSUME UNCHANGED <<src, pulled, source_started_>>
          PROVE  (Holding' => src'.frame.n = pulled') /\ (source_started_' \/ src'.at = "none")
        BY <2>0, <2>6 DEF Holding
    <2> QED BY <2>1, <2>2, <2>3, <2>4, <2>5, <2>6
            DEF Next, SourceNext, ControlNext, PullInterrupted
<1>f. Flow'
    <2>0. Flow
        BY DEF FlowInv
    <2>e. droppable' = droppable
        BY DEF Next, SourceNext, SinkNext, ControlNext, PullInterrupted, Pull, PullFails,
           SourceLoop, ErrorAll, PushLock, Push, PushWaited, SinkLoop, Pop, PopChecks,
           PopBlocks, PopNull, Process, start, start_sink, stop_sink, stop, linkSink,
           SinkStarts, SinkFlush, SinkJoin, unlinkSink, SourceFlush, SourceJoin, vars
    \* Steps of the source thread.
    <2>1. CASE \E kind \in {"key", "delta", "audio"} : Pull(kind)
        <3>1. PICK kind \in {"key", "delta", "audio"} : Pull(kind)
            BY <2>1
        <3>2. /\ src.at = "pull" /\ src'.at = "lock" /\ pulled' = pulled + 1
              /\ UNCHANGED <<linked, queue, snk, written>>
            BY <3>1 DEF Pull, sink
        <3>3. Upcoming' = Upcoming
            BY <3>2 DEF Upcoming, Holding
        <3>4. Handled' = Handled /\ (Following => Following')
            BY <3>2, <2>e DEF Handled, Following
        <3> QED BY <2>0, <2>e, <3>2, <3>3, <3>4, FlowStays DEF Flow
    <2>2. CASE SourceLoop \/ PullFails \/ PushLock \/ ErrorAll
        <3>1. UNCHANGED <<linked, written, pulled>> /\ (snk' = snk \/ snk' = Notified(snk))
            BY <2>2 DEF SourceLoop, PullFails, PushLock, ErrorAll, sink
        <3>2. Handled' = Handled /\ (Following => Following')
            BY <1>0, <2>e, <3>1, NotifiedHolds
        <3>3. queue'.items = queue.items /\ queue'.flushing_ = queue.flushing_
            BY <2>2, <1>0 DEF SourceLoop, PullFails, PushLock, ErrorAll, QueueType
        <3>4. Upcoming' = Upcoming
            BY <2>2, <3>1, <1>0
            DEF SourceLoop, PullFails, PushLock, ErrorAll, Upcoming, Holding, Thread
        <3> QED BY <2>0, <2>e, <3>1, <3>2, <3>3, <3>4, FlowStays DEF Flow
    <2>3. CASE Push
        <3>0. Holding /\ UNCHANGED <<linked, droppable, pulled, written>>
            BY <2>3 DEF Push, Holding
        <3>1. CASE ~linked \/ queue.flushing_
            <4>1. queue' = queue
                BY <2>3, <3>1 DEF Push
            <4> QED BY <3>0, <3>1, <4>1 DEF Flow
        <3>2. CASE linked /\ ~queue.flushing_ /\ (droppable \/ ~Full)
            <4>1. queue' = Pushed(queue, src.frame) /\ snk' = Notified(snk) /\ PushDone
                BY <2>3, <3>2 DEF Push
            <4> QED BY <3>0, <4>1, PushFlow
        <3>3. CASE linked /\ ~queue.flushing_ /\ ~droppable /\ Full
            <4>1. /\ src' = [src EXCEPT !.at = "wait"]
                  /\ UNCHANGED <<queue, snk>>
                BY <2>3, <3>3 DEF Push
            <4>2. Upcoming' = Upcoming
                BY <3>0, <4>1, <1>0 DEF Upcoming, Holding, Thread
            <4>3. Handled' = Handled /\ (Following => Following')
                BY <3>0, <4>1 DEF Handled, Following
            <4> QED BY <2>0, <3>0, <3>3, <4>1, <4>2, <4>3, FlowStays DEF Flow
        <3> QED BY <3>1, <3>2, <3>3
    <2>4. CASE PushWaited
        <3>1. /\ Holding /\ UNCHANGED <<linked, droppable, pulled, written>>
              /\ queue' = Pushed(queue, src.frame) /\ snk' = Notified(snk) /\ PushDone
            BY <2>4 DEF PushWaited, Holding
        <3> QED BY <3>1, PushFlow
    \* Steps of the sink thread.
    <2>5. CASE SinkLoop \/ PopChecks \/ PopBlocks \/ PopNull
        <3>1. /\ UNCHANGED <<linked, written, pulled, src, queue>>
              /\ snk.at # "process" /\ snk'.at # "process"
            BY <2>5, <1>0
            DEF SinkLoop, PopChecks, PopBlocks, PopNull, source, Thread
        <3>2. Handled' = Handled /\ Following' /\ Upcoming' = Upcoming
            BY <3>1 DEF Handled, Following, Upcoming, Holding
        <3> QED BY <2>0, <2>e, <3>1, <3>2, FlowStays
    <2>6. CASE Pop
        BY <2>6, PopFlow
    <2>7. CASE \E ok \in BOOLEAN : Process(ok)
        <3>1. /\ UNCHANGED <<linked, pulled, src>>
              /\ snk.at = "process" /\ snk'.at = "loop" /\ written' = snk.frame.n
              /\ queue'.items = queue.items /\ queue'.flushing_ = queue.flushing_
            BY <2>7, <1>0 DEF Process, source, QueueType
        <3>2. Handled' = Handled /\ Following' /\ Upcoming' = Upcoming
            BY <3>1 DEF Handled, Following, Upcoming, Holding
        <3> QED BY <2>0, <2>e, <3>1, <3>2, FlowStays
    \* Steps of the control thread.
    <2>8. CASE \E accepted \in BOOLEAN : linkSink(accepted)
        BY <2>8, LinkFlow
    <2>9. CASE SinkStarts \/ SinkJoin
        <3>1. /\ UNCHANGED <<linked, written, pulled, src, queue>>
              /\ snk.at # "process" /\ snk'.at # "process"
            BY <2>9 DEF SinkStarts, SinkJoin, source, Nobody, ThreadInside
        <3>2. Handled' = Handled /\ Following' /\ Upcoming' = Upcoming
            BY <3>1 DEF Handled, Following, Upcoming, Holding
        <3> QED BY <2>0, <2>e, <3>1, <3>2, FlowStays
    <2>10. CASE SinkFlush \/ (SourceFlush /\ linked)
        <3>1. queue'.flushing_
            BY <2>10, <1>0 DEF SinkFlush, SourceFlush, Flushed, QueueType
        <3> QED BY <3>1 DEF Flow
    <2>11. CASE unlinkSink \/ (SourceFlush /\ ~linked)
        <3>1. ~linked'
            BY <2>11 DEF unlinkSink, SourceFlush
        <3> QED BY <3>1 DEF Flow
    <2>12. CASE start \/ SourceJoin
        <3>0. source_started_ \/ src.at = "none"
            BY DEF FlowInv
        <3>1. /\ UNCHANGED <<linked, written, pulled, snk, queue>>
              /\ ~Holding /\ ~Holding'
            BY <2>12, <3>0 DEF start, SourceJoin, sink, Nobody, Holding
        <3>2. Handled' = Handled /\ (Following => Following') /\ Upcoming' = Upcoming
            BY <3>1, <2>e DEF Handled, Following, Upcoming
        <3> QED BY <2>0, <2>e, <3>1, <3>2, FlowStays DEF Flow
    <2>13. CASE UNCHANGED vars \/ start_sink \/ stop_sink \/ stop
        <3>1. UNCHANGED <<linked, written, pulled, snk, src, queue>>
            BY <2>13 DEF vars, source, sink, start_sink, stop_sink, stop
        <3>2. Handled' = Handled /\ (Following => Following') /\ Upcoming' = Upcoming
            BY <3>1, <2>e DEF Handled, Following, Upcoming, Holding
        <3> QED BY <2>0, <2>e, <3>1, <3>2, FlowStays DEF Flow
    <2> QED BY <2>1, <2>2, <2>3, <2>4, <2>5, <2>6, <2>7, <2>8, <2>9, <2>10, <2>11, <2>12,
               <2>13
            DEF Next, SourceNext, SinkNext, ControlNext, PullInterrupted
<1> QED BY <1>s, <1>f DEF FlowInv

LEMMA ConcatFacts ==
    ASSUME NEW S, NEW x \in Seq(S), NEW y \in Seq(S)
    PROVE  /\ x \o y \in Seq(S) /\ Len(x \o y) = Len(x) + Len(y)
           /\ \A k \in 1..Len(x) : (x \o y)[k] = x[k]
           /\ \A k \in 1..Len(y) : (x \o y)[Len(x) + k] = y[k]
OBVIOUS

\* The run of numbers is what Held lists.
LEMMA FlowImplies == StepTypes /\ FlowInv => NoFrameLost
<1> SUFFICES ASSUME StepTypes, FlowInv, linked, ~queue.flushing_, NEW i \in 1..Len(Held)
             PROVE  LET before == IF i = 1 THEN written ELSE Held[i - 1].n
                    IN  /\ Held[i].n > before
                        /\ ~droppable /\ before > 0 => Held[i].n = before + 1
    BY DEF NoFrameLost
<1> DEFINE before == IF i = 1 THEN written ELSE Held[i - 1].n
           q == queue.items
           a == IF snk.at = "process" THEN <<snk.frame>> ELSE <<>>
           z == IF Holding THEN <<src.frame>> ELSE <<>>
           F == Delivered \cup {NoFrame}
<1>0. /\ written \in Nat /\ pulled \in Nat /\ q \in Seq(Delivered) /\ Len(q) \in Nat
      /\ Handled \in Nat /\ Upcoming \in Nat
    BY EndsType
<1>t. snk.frame \in F /\ src.frame \in F /\ q \in Seq(F)
    BY <1>0 DEF StepTypes, SinkType, SourceType, Thread
<1>n. \A d \in F : d.n \in Nat
    BY StreamerAssumption DEF Delivered, NoFrame
<1>1. /\ Following
      /\ Increasing(Handled, q, Upcoming)
      /\ ~droppable => Gapless(Handled, q, Upcoming)
      /\ Holding => src.frame.n = Upcoming
    BY DEF FlowInv, Flow, Upcoming
<1>2. Held = a \o q \o z
    BY DEF Held, Holding
<1>3. /\ a \in Seq(F) /\ Len(a) \in 0..1 /\ z \in Seq(F) /\ Len(z) \in 0..1
      /\ Len(a) = 1 => snk.at = "process" /\ a[1] = snk.frame
      /\ Len(a) = 0 => snk.at # "process"
      /\ Len(z) = 1 => Holding /\ z[1] = src.frame
    <2> HIDE DEF F
    <2>1. \A d \in F : <<d>> \in Seq(F) /\ Len(<<d>>) = 1 /\ <<d>>[1] = d
        OBVIOUS
    <2>2. <<>> \in Seq(F) /\ Len(<<>>) = 0
        OBVIOUS
    <2>3. /\ a \in Seq(F) /\ Len(a) \in 0..1
          /\ Len(a) = 1 => snk.at = "process" /\ a[1] = snk.frame
          /\ Len(a) = 0 => snk.at # "process"
        BY <2>1, <2>2, <1>t
    <2>4. /\ z \in Seq(F) /\ Len(z) \in 0..1
          /\ Len(z) = 1 => Holding /\ z[1] = src.frame
        BY <2>1, <2>2, <1>t
    <2> QED BY <2>3, <2>4
<1> HIDE DEF a, z, F
<1> DEFINE m == Len(a)
<1>4. /\ Len(Held) = m + Len(q) + Len(z)
      /\ \A k \in 1..m : Held[k] = a[k]
      /\ \A k \in 1..Len(q) : Held[m + k] = q[k]
      /\ \A k \in 1..Len(z) : Held[m + Len(q) + k] = z[k]
    <2> DEFINE b == a \o q
    <2>1. /\ b \in Seq(F) /\ Len(b) = m + Len(q)
          /\ \A k \in 1..m : b[k] = a[k]
          /\ \A k \in 1..Len(q) : b[m + k] = q[k]
        BY <1>t, <1>3, ConcatFacts
    <2>2. Held = b \o z
        BY <1>2
    <2> HIDE DEF b
    <2>3. /\ Len(Held) = Len(b) + Len(z)
          /\ \A k \in 1..Len(b) : Held[k] = b[k]
          /\ \A k \in 1..Len(z) : Held[Len(b) + k] = z[k]
        <3>1. b \in Seq(F) /\ z \in Seq(F)
            BY <2>1, <1>3
        <3> QED BY <3>1, <2>2, ConcatFacts
    <2>4. m \in Nat /\ Len(q) \in Nat
        BY <1>0, <1>3
    <2> HIDE DEF m
    <2>5. \A k \in 1..m : k \in 1..Len(b)
        BY <2>1, <2>4
    <2>6. \A k \in 1..Len(q) : m + k \in 1..Len(b)
        BY <2>1, <2>4
    <2> QED BY <2>1, <2>3, <2>5, <2>6
<1>5. /\ (i = 1 /\ m = 1) \/ i - m \in 1..Len(q) \/ (i = m + Len(q) + 1 /\ Len(z) = 1)
      /\ i \in Nat /\ i > 0 /\ m \in Nat
    BY <1>0, <1>3, <1>4
\* The last frame before the queue is the last one taken.
<1>6. /\ m = 0 => Handled = written
      /\ m = 1 => Handled = Held[1].n
    BY <1>3, <1>4 DEF Handled
<1>m. m \in 0..1
    BY <1>3
<1> HIDE DEF m, q
<1> SUFFICES before < Held[i].n /\ (~droppable /\ before > 0 => Held[i].n = before + 1)
             /\ before \in Nat /\ Held[i].n \in Nat
    OBVIOUS
<1>7. CASE i = 1 /\ m = 1
    <2>1. Held[i] = snk.frame /\ before = written /\ snk.at = "process"
        BY <1>7, <1>3, <1>4 DEF m
    <2> QED BY <2>1, <1>0, <1>1, <1>t, <1>n DEF Following
<1>8. CASE i - m \in 1..Len(q)
    <2> DEFINE k == i - m
    <2>1. k \in 1..Len(q) /\ i = m + k /\ k \in Nat
        BY <1>0, <1>5, <1>8 DEF q
    <2> HIDE DEF k
    <2>2. Held[i] = q[k] /\ q[k].n \in Nat
        BY <1>0, <1>4, <1>n, <1>t, <2>1 DEF m, q
    <2>3. CASE k = 1
        <3>1. before = Handled
            <4>1. (m = 0 /\ i = 1) \/ (m = 1 /\ i = 2)
                BY <2>1, <2>3, <1>5, <1>m
            <4> QED BY <4>1, <1>6
        <3>2. Handled < q[1].n /\ q # <<>>
            BY <1>1, <2>1, <2>3 DEF Increasing
        <3>3. ~droppable => Handled = 0 \/ q[1].n = Handled + 1
            BY <1>1, <3>2 DEF Gapless
        <3> QED BY <1>0, <2>2, <2>3, <3>1, <3>2, <3>3
    <2>4. CASE k > 1
        <3>1. i # 1 /\ k - 1 \in 1..Len(q) /\ i - 1 = m + (k - 1) /\ k - 1 < k /\ k - 1 < Len(q)
            BY <2>1, <2>4, <1>0, <1>5 DEF q
        <3>2. before = q[k - 1].n /\ q[k - 1].n \in Nat
            BY <3>1, <1>0, <1>4, <1>n, <1>t DEF m, q
        <3>3. q[k - 1].n < q[k].n
            BY <3>1, <2>1, <1>1 DEF Increasing
        <3>4. ~droppable => q[k].n = q[k - 1].n + 1
            <4>1. (k - 1) + 1 = k
                BY <2>1
            <4> QED BY <4>1, <3>1, <1>1 DEF Gapless
        <3> QED BY <2>2, <3>2, <3>3, <3>4
    <2> QED BY <2>1, <2>3, <2>4
<1>9. CASE i = m + Len(q) + 1 /\ Len(z) = 1
    <2>1. Held[i] = src.frame /\ src.frame.n = Upcoming
        BY <1>9, <1>1, <1>3, <1>4 DEF m
    <2>2. CASE Len(q) = 0
        <3>1. q = <<>>
            BY <2>2, <1>0 DEF q
        <3>2. before = Handled
            <4>1. (m = 0 /\ i = 1) \/ (m = 1 /\ i = 2)
                BY <1>9, <2>2, <1>5, <1>m
            <4> QED BY <4>1, <1>6
        <3>3. Handled < Upcoming
            BY <1>1 DEF Increasing
        <3>4. ~droppable => Handled = 0 \/ Upcoming = Handled + 1
            BY <1>1, <3>1 DEF Gapless
        <3> QED BY <1>0, <2>1, <3>2, <3>3, <3>4
    <2>3. CASE Len(q) > 0
        <3>1. i # 1 /\ Len(q) \in 1..Len(q) /\ i - 1 = m + Len(q)
            BY <1>9, <2>3, <1>0, <1>5 DEF q
        <3>2. before = Held[m + Len(q)].n
            BY <3>1
        <3>e. Held[m + Len(q)] = q[Len(q)] /\ q[Len(q)] \in F
            BY <3>1, <1>4, <1>t DEF m, q
        <3>n. before = q[Len(q)].n /\ q[Len(q)].n \in Nat
            BY <3>2, <3>e, <1>n
        <3>3. q[Len(q)].n < Upcoming /\ q # <<>>
            BY <3>1, <1>1 DEF Increasing
        <3>4. ~droppable => Upcoming = q[Len(q)].n + 1
            BY <3>3, <1>1 DEF Gapless
        <3> QED BY <1>0, <2>1, <3>n, <3>3, <3>4
    <2> QED BY <2>2, <2>3, <1>0 DEF q
<1> QED BY <1>5, <1>7, <1>8, <1>9

\* Frames reach process() in the order the source pulled them, and a sink that
\* may not drop misses none from its first frame to its stop, however the
\* source, sink and control threads interleave and for any queue length: push()
\* drops only in front, a source that may not drop keeps its frame while it
\* waits, and linkSink() starts with an empty queue and no sink thread.
THEOREM NoFrameLostCorrect == Spec => []NoFrameLost
<1> DEFINE Inv == StepTypes /\ ThreadInside /\ FlowInv
<1>1. Init => Inv
    BY StepTypesInit, InitInside, FlowInit
<1>2. Inv /\ [Next]_vars => Inv'
    BY FlagsStep, ControlStep, SourceStepType, SinkStepType, QueueStep, NextInside, NextFlow
    DEF StepTypes
<1>3. Inv => NoFrameLost
    BY FlowImplies
<1> QED
    BY <1>1, <1>2, <1>3, PTL DEF Spec
=============================================================================
