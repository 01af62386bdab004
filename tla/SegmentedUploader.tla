------------------------- MODULE SegmentedUploader -------------------------
(***************************************************************************)
(* The segmented uploader (agent/upload.h) and the timeline of what the    *)
(* Cloud already has (agent/timeline.h): how the period of an event or of  *)
(* a synchronisation request is cut into windows, which windows become     *)
(* chunks for the direct upload, and what the Cloud is told.               *)
(*                                                                         *)
(* The uploader thread runs timed callbacks: __async_loop(), and the ones  *)
(* posted by schedule_upload(), finalize_upload() and cancel_upload(). The *)
(* threads that finish a chunk run its on_finished() at the same time, and *)
(* event threads write the end of a segmenter directly. Times are small    *)
(* integers; the delays between the runs of the loop are left out, and     *)
(* each chunk is reported once: the chunks that are reported twice are in  *)
(* DirectUpload.                                                           *)
(***************************************************************************)
EXTENDS Integers, Sequences, FiniteSets, SequencesExt, FiniteSetsExt

CONSTANTS Seg,       \* segmenters
          NoSeg,     \* no segmenter
          Request,   \* the periods that may be asked for, by segmenter
          Step,      \* record_by_event_upload_step
          Far,       \* utils::time::max(), beyond every time in use
          MaxClip,   \* ten minutes: the window does not follow a longer clip
          EndTime,   \* when events may end; an open window waits at the last
          Stored,    \* periods the Cloud has from elsewhere
          Worlds,    \* cameras, what may go wrong and what is asked of them
          Gap,       \* the recordings of a camera with a gap end here
          Threads    \* threads that run on_finished() at the same time

\* utils::time::null()
Null == 0

\* What the recorder returns for a window, and what fails.
RecorderKind == {"whole", "gap", "part", "long"}
FaultKind == {"upload",   \* chunks fail
              "list",     \* the list of the Cloud's recordings is not available
              "cancel"}   \* requests are cancelled

Period == [b : 0..Far, e : 0..Far]

ASSUME SegmentAssumption ==
    /\ NoSeg \notin Seg /\ IsFiniteSet(Seg)
    /\ Step \in Nat \ {0} /\ Far \in Nat /\ MaxClip \in Nat
    /\ EndTime \subseteq 1..Far /\ EndTime # {}
    /\ Request \in [Seg -> SUBSET [at : 1..Far, begin : 1..Far, end : 0..Far, pre : 0..Far,
                                   post : 0..Far, ticket : BOOLEAN]]
    /\ \A s \in Seg : \A r \in Request[s] : r.pre < r.at /\ r.at <= r.begin
    /\ Gap \in Nat /\ Threads \in Nat \ {0}
    /\ Stored \subseteq Period
    /\ Worlds \subseteq [recorder : RecorderKind, faults : SUBSET FaultKind,
                         asked : SUBSET Seg]

VARIABLES
    world,        \* the camera in use
    seg,          \* the fields of each segmenter
    status,       \* the last cam_memorycard_synchronize_status of each
    delayed,      \* scheduled_sync_starts_
    segmenters_,  \* segmenters_, sorted by begin
    finalizing,   \* ends the scheduled __segmenter_finalize() callbacks will set
    canceling,    \* scheduled __segmenter_cancel_by_ticket() callbacks
    canceled_tickets, \* a ticket is named by the segmenter of its request
    loop,         \* where __async_loop() is, its segmenter and its clip
    chunks,       \* chunks handed to the direct upload and not finished
    reporting,    \* on_finished() calls that have read the counters
    cloud,        \* periods the Cloud has
    from,         \* observation: where the first window of each began
    planned,      \* observation: every chunk ever planned
    missing,      \* observation: times the recorder had nothing for
    endedEmpty,   \* observation: segmenters whose last window gave no chunk
    overtook,     \* observation: segmenters put before one that was under way
    unadjusted,   \* observation: segmenters whose window was not adjusted before it was cut
    cutOpen       \* observation: segmenters finalised by a slice before their end was known

account == <<seg, status, canceled_tickets>>
posted  == <<delayed, finalizing, canceling>>
traffic == <<chunks, reporting, cloud>>
observed == <<from, planned, missing, endedEmpty, overtook, unadjusted, cutOpen>>
vars == <<world, account, posted, segmenters_, loop, traffic, observed>>

LoopIdle == [at |-> "idle", s |-> NoSeg, clip |-> <<>>]
Blank == [begin |-> Null, end |-> Null, start |-> Null, stop |-> Null, pre |-> 0,
          post |-> 0, ticket |-> FALSE, processed |-> FALSE, canceled |-> FALSE,
          finished |-> FALSE, planned |-> 0, done |-> 0, failed |-> 0]

Init ==
    /\ world \in Worlds
    /\ seg = [s \in Seg |-> Blank]
    /\ status = [s \in Seg |-> "none"]
    /\ delayed = {} /\ segmenters_ = <<>>
    /\ finalizing = [s \in Seg |-> Null]
    /\ canceling = {} /\ canceled_tickets = {}
    /\ loop = LoopIdle
    /\ chunks = {} /\ reporting = {}
    /\ cloud = Stored
    /\ from = [s \in Seg |-> Null]
    /\ planned = {} /\ missing = {} /\ endedEmpty = {}
    /\ overtook = {} /\ unadjusted = {} /\ cutOpen = {}
-----------------------------------------------------------------------------
(***************************************************************************)
(* Segmenters.                                                             *)
(***************************************************************************)

Used(s)    == seg[s].begin # Null
is_open(x) == x.end = Null
\* segment->end + segment->post: a null end counts as the epoch
Border(x)  == x.end + x.post

\* Reaches(x, y): x.begin - x.pre is not beyond the end of y, an open end
\* being time::max().
Reaches(x, y) == x.begin - x.pre <= (IF is_open(y) THEN Far ELSE y.end + Step)
intersects(x, y) == Reaches(x, y) /\ Reaches(y, x)

\* The segmenter event_state::start() builds for an event at r.at. When the
\* event is under way as its uploads are asked for, update_delivery_mode()
\* moves begin and start to that time, and leaves stop.
Segmenter(r) ==
    [Blank EXCEPT !.begin = r.begin, !.end = r.end, !.pre = r.pre, !.post = r.post,
                  !.ticket = r.ticket,
                  !.start = IF r.begin = r.at THEN r.at - r.pre ELSE r.begin,
                  !.stop = IF r.end = Null \/ r.at + Step <= r.end + r.post
                           THEN r.at + Step ELSE r.end + r.post]

\* Faulty variant: the end of the planning is not waited for.
AllCountedSoFar(x) == x.planned > 0 /\ x.planned = x.done + x.failed

\* Every chunk of x has been counted.
AllCounted(x) == x.processed /\ x.planned = x.done + x.failed

\* __send_timeline_synchronization_status(): the segmenter afterwards, where
\* a cancelled ticket cancels it and a final status clears its ticket, ...
Answered(s, x) ==
    [x EXCEPT !.canceled = @ \/ s \in canceled_tickets,
              !.ticket = x.canceled \/ s \in canceled_tickets \/ ~AllCounted(x)]

\* ... and the status it sends.
Status(s, x) ==
    IF x.canceled \/ s \in canceled_tickets THEN "CANCELED"
    ELSE IF ~AllCounted(x) THEN "PENDING"
    ELSE IF x.done = 0 THEN "ERROR" ELSE "DONE"

\* Segmenter s becomes x and, when tell holds, its request is answered.
Becomes(s, x, tell) ==
    LET say == tell /\ x.ticket
    IN  /\ seg' = [seg EXCEPT ![s] = IF say THEN Answered(s, x) ELSE x]
        /\ status' = IF say THEN [status EXCEPT ![s] = Status(s, x)] ELSE status
        /\ canceled_tickets' = IF say THEN canceled_tickets \ {s} ELSE canceled_tickets
-----------------------------------------------------------------------------
(***************************************************************************)
(* Callbacks posted to the uploader thread.                                *)
(***************************************************************************)

\* event_state::start() or update_delivery_mode() in upload mode, and
\* schedule_upload()
schedule_upload(s, r) ==
    /\ s \in world.asked /\ ~Used(s)
    /\ seg' = [seg EXCEPT ![s] = Segmenter(r)]
    /\ delayed' = delayed \cup {s}
    /\ from' = [from EXCEPT ![s] = Segmenter(r).start]
    /\ UNCHANGED <<world, status, canceled_tickets, segmenters_, finalizing, canceling, loop,
                   traffic, planned, missing, endedEmpty, overtook, unadjusted, cutOpen>>

\* Faulty variant: the segmenter stays in scheduled_sync_starts_.
enqueue_keeps_start(s) ==
    /\ loop.at = "idle"
    /\ s \in delayed
    /\ segmenters_' = Append(segmenters_, s)
    /\ UNCHANGED <<world, account, posted, loop, traffic, observed>>

\* The members of list q that are in S, in their order
Only(q, S) ==
    LET upTo[i \in 0..Len(q)] ==
          IF i = 0 THEN <<>>
          ELSE IF q[i] \in S THEN Append(upTo[i - 1], q[i]) ELSE upTo[i - 1]
    IN  upTo[Len(q)]

UnderWay(o) == seg[o].planned > 0

__segmenter_enqueue(s) ==
    /\ loop.at = "idle"
    /\ s \in delayed
    /\ delayed' = delayed \ {s}
    /\ segmenters_' = Only(segmenters_, {o \in Seg : seg[o].begin <= seg[s].begin})
                        \o <<s>>
                        \o Only(segmenters_, {o \in Seg : seg[o].begin > seg[s].begin})
    /\ overtook' = IF \E o \in ToSet(segmenters_) : seg[o].begin > seg[s].begin /\ UnderWay(o)
                   THEN overtook \cup {s} ELSE overtook
    /\ UNCHANGED <<world, account, finalizing, canceling, loop, traffic, from, planned,
                   missing, endedEmpty, unadjusted, cutOpen>>

\* The end of an event at t: event_state::stop() writes the end at once,
\* the destructor leaves it to the callback of finalize_upload().
finalize_upload(s, t, now) ==
    /\ Used(s) /\ is_open(seg[s]) /\ finalizing[s] = Null
    /\ t > seg[s].begin
    /\ seg' = IF now THEN [seg EXCEPT ![s].end = t] ELSE seg
    /\ finalizing' = [finalizing EXCEPT ![s] = t]
    /\ UNCHANGED <<world, status, canceled_tickets, delayed, canceling, segmenters_, loop,
                   traffic, observed>>

__segmenter_finalize(s) ==
    /\ loop.at = "idle"
    /\ finalizing[s] # Null
    /\ seg' = [seg EXCEPT ![s].end = finalizing[s]]
    /\ finalizing' = [finalizing EXCEPT ![s] = Null]
    /\ UNCHANGED <<world, status, canceled_tickets, delayed, canceling, segmenters_, loop,
                   traffic, observed>>

cancel_upload(s) ==
    /\ "cancel" \in world.faults
    /\ seg[s].ticket /\ ~seg[s].canceled
    /\ s \notin canceling \cup canceled_tickets
    /\ canceling' = canceling \cup {s}
    /\ UNCHANGED <<world, account, delayed, finalizing, segmenters_, loop, traffic, observed>>

\* Only a segmenter already in segmenters_ is found by its ticket; the ticket
\* is remembered in any case.
__segmenter_cancel_by_ticket(s) ==
    /\ loop.at = "idle"
    /\ s \in canceling
    /\ canceling' = canceling \ {s}
    /\ \/ /\ s \in ToSet(segmenters_) /\ seg[s].ticket /\ ~seg[s].canceled
          /\ seg' = [seg EXCEPT ![s].canceled = TRUE, ![s].processed = TRUE,
                                ![s].finished = TRUE]
          /\ status' = [status EXCEPT ![s] = "CANCELED"]
       \/ /\ ~(s \in ToSet(segmenters_) /\ seg[s].ticket /\ ~seg[s].canceled)
          /\ UNCHANGED <<seg, status>>
    /\ canceled_tickets' = canceled_tickets \cup {s}
    /\ UNCHANGED <<world, delayed, finalizing, segmenters_, loop, traffic, observed>>
-----------------------------------------------------------------------------
(***************************************************************************)
(* __async_loop().                                                         *)
(***************************************************************************)

\* __get_current() leaves out the cancelled segmenters: the places of the others, ...
Kept == {i \in DOMAIN segmenters_ : ~seg[segmenters_[i]].canceled}

\* ... the first segmenter that is not processed, ...
Current ==
    LET rest == {i \in Kept : ~seg[segmenters_[i]].processed}
    IN  IF rest = {} THEN NoSeg ELSE segmenters_[Min(rest)]

\* ... and what __purge_segmenters() leaves: without the first half of the
\* finished segmenters that precede it.
Purged ==
    LET finished == {i \in Kept : seg[segmenters_[i]].finished}
        lead     == {i \in finished : \A j \in Kept : j <= i => seg[segmenters_[j]].processed}
        freed    == {i \in finished :
                       Cardinality({j \in finished : j <= i}) <= Cardinality(lead) \div 2}
    IN  Only(segmenters_, {segmenters_[i] : i \in Kept \ freed})

\* Faulty variant: the windows of processed segmenters are not looked at.
Unshifted(c, list) == [start |-> seg[c].start, stop |-> seg[c].stop, over |-> FALSE]

\* The shift of the window of c past the windows of processed segmenters, one
\* after the other; over: the window left the borders of c.
Shifted(c, list) ==
    FoldLeft(LAMBDA acc, s :
                IF acc.over \/ s = c \/ ~seg[s].processed
                     \/ ~intersects(seg[c], seg[s]) \/ acc.start >= seg[s].start
                THEN acc
                ELSE [start |-> seg[s].start, stop |-> seg[s].start + Step,
                      over |-> ~is_open(seg[c]) /\ seg[s].start >= Border(seg[c])],
             [start |-> seg[c].start, stop |-> seg[c].stop, over |-> FALSE], list)

\* One call of __adjust_segmenters_current_to_finished(), repeated while it
\* finalises a segmenter.
__adjust_segmenters_current_to_finished ==
    LET c == Current
    IN  /\ loop.at \in {"idle", "adjust"}
        /\ segmenters_ # <<>>
        /\ loop.at = "idle" /\ c # NoSeg /\ is_open(seg[c]) =>
             \E t \in EndTime : seg[c].start < t
        /\ segmenters_' = Purged
        /\ \/ /\ c = NoSeg
              /\ loop' = LoopIdle
              /\ UNCHANGED account
           \/ /\ c # NoSeg
              /\ \E w \in {Shifted(c, Purged)} :
                   /\ loop' = [LoopIdle EXCEPT !.at = IF w.over THEN "adjust" ELSE "check",
                                               !.s = c]
                   /\ Becomes(c, [seg[c] EXCEPT !.start = w.start, !.stop = w.stop,
                                                !.processed = @ \/ w.over,
                                                !.finished = @ \/ w.over], w.over)
        /\ UNCHANGED <<world, posted, traffic, observed>>

\* Periods in the order of their begin
SortedPeriods(P) ==
    LET before(p) == {q \in P : q.b < p.b \/ (q.b = p.b /\ q.e < p.e)}
    IN  [i \in 1..Cardinality(P) |-> CHOOSE p \in P : Cardinality(before(p)) = i - 1]

\* Faulty variant: the end of the later period replaces the end of the earlier.
squash_last_end(P) ==
    FoldLeft(LAMBDA acc, p :
                IF acc # <<>> /\ Last(acc).e >= p.b
                THEN Front(acc) \o <<[Last(acc) EXCEPT !.e = p.e]>>
                ELSE Append(acc, p),
             <<>>, SortedPeriods(P))

\* timeline::_squash_periods(): sorted by begin, periods that touch are merged.
_squash_periods(P) ==
    FoldLeft(LAMBDA acc, p :
                IF acc # <<>> /\ Last(acc).e >= p.b
                THEN Front(acc) \o <<[Last(acc) EXCEPT !.e = IF @ < p.e THEN p.e ELSE @]>>
                ELSE Append(acc, p),
             <<>>, SortedPeriods(P))

Meets(p, b, e) == p.b < e /\ b < p.e

\* timeline::slices(): what the Cloud lists for a window, squashed. A failed
\* request lists nothing.
slices(x, ok) ==
    IF ok THEN _squash_periods({p \in cloud : Meets(p, x.start, x.stop)}) ELSE <<>>

\* Faulty variant: what lies before a slice is given up with it.
TrimmedBehind(x, list) ==
    IF list = <<>> THEN [start |-> x.start, stop |-> x.stop, upload |-> TRUE, over |-> FALSE]
    ELSE [start |-> Last(list).e, stop |-> Last(list).e + Step,
          upload |-> FALSE, over |-> Last(list).e > Border(x)]

\* Faulty variant: a window that a slice covers is skipped but does not move.
TrimmedStays(x, list) ==
    [start |-> x.start, stop |-> x.stop, over |-> FALSE,
     upload |-> \A i \in DOMAIN list : x.start < list[i].b]

\* The window of x after each slice in turn; over: the slice reaches beyond x.
Trimmed(x, list) ==
    FoldLeft(LAMBDA acc, p :
                IF acc.over \/ ~Meets(p, acc.start, acc.stop) THEN acc
                ELSE LET start == IF acc.start >= p.b THEN p.e ELSE acc.start
                         stop  == IF acc.start >= p.b THEN acc.stop ELSE p.b
                     IN  [start |-> start,
                          stop |-> IF stop <= start THEN start + Step ELSE stop,
                          upload |-> acc.upload /\ start < stop /\ start <= Border(x),
                          over |-> start > Border(x)],
             [start |-> x.start, stop |-> x.stop, upload |-> TRUE, over |-> FALSE], list)

\* __check_clip_segment() on the current segmenter, looked up again: another
\* one than the adjusted, when on_finished() has cancelled that one.
__check_clip_segment(ok) ==
    LET c == Current
    IN  /\ loop.at = "check"
        /\ ~ok => "list" \in world.faults
        /\ segmenters_' = Purged
        /\ \/ /\ c = NoSeg
              /\ loop' = LoopIdle
              /\ UNCHANGED <<account, cutOpen, endedEmpty, unadjusted>>
           \/ /\ c # NoSeg
              /\ \E w \in {Trimmed(seg[c], slices(seg[c], ok))} :
                   /\ loop' = IF w.upload THEN [LoopIdle EXCEPT !.at = "step", !.s = c]
                              ELSE LoopIdle
                   /\ Becomes(c, [seg[c] EXCEPT !.start = w.start, !.stop = w.stop,
                                                !.processed = @ \/ w.over,
                                                !.finished = @ \/ w.over],
                              w.over /\ seg[c].planned = 0)
                   /\ cutOpen' = cutOpen \cup {s \in {c} : w.over /\ is_open(seg[c])}
                   /\ endedEmpty' = endedEmpty \cup {s \in {c} : w.over}
              /\ unadjusted' = unadjusted \cup {s \in {c} : c # loop.s}
        /\ UNCHANGED <<world, posted, traffic, from, planned, missing, overtook>>

\* record_get_list() for a window: the test recorder's whole window, nothing
\* behind the gap, a clip that starts at a key frame inside the window, or one
\* that ends behind it.
record_get_list(b, e) ==
    CASE b >= e -> <<>>
      [] b < e /\ world.recorder = "whole" -> [b |-> b, e |-> e]
      [] b < e /\ world.recorder = "gap"   -> IF b >= Gap THEN <<>> ELSE [b |-> b, e |-> e]
      [] b < e /\ world.recorder = "part"  -> IF b + 1 < e THEN [b |-> b + 1, e |-> e] ELSE <<>>
      [] b < e /\ world.recorder = "long"  -> [b |-> b, e |-> e + 1]

\* __segment_step() up to the flag of the last chunk: the window is cut at
\* the border and moves behind the clip, or behind the window without one.
__segment_step ==
    LET s    == loop.s
        x    == seg[s]
        stop == IF ~is_open(x) /\ x.stop > Border(x) THEN Border(x) ELSE x.stop
    IN  /\ loop.at = "step"
        /\ \/ /\ x.processed \/ x.canceled
              /\ loop' = LoopIdle
              /\ UNCHANGED <<account, missing, endedEmpty>>
           \/ /\ ~x.processed /\ ~x.canceled
              /\ ~is_open(x) /\ x.start >= Border(x)
              /\ loop' = LoopIdle
              /\ Becomes(s, [x EXCEPT !.stop = stop, !.processed = TRUE,
                                      !.finished = @ \/ x.planned = 0], x.planned = 0)
              /\ endedEmpty' = endedEmpty \cup {s}
              /\ UNCHANGED missing
           \/ /\ ~x.processed /\ ~x.canceled
              /\ is_open(x) \/ x.start < Border(x)
              /\ x.start = stop
              /\ loop' = LoopIdle
              /\ Becomes(s, [x EXCEPT !.stop = x.start + Step], FALSE)
              /\ UNCHANGED <<missing, endedEmpty>>
           \/ /\ ~x.processed /\ ~x.canceled
              /\ is_open(x) \/ x.start < Border(x)
              /\ x.start # stop
              /\ LET clip  == record_get_list(x.start, stop)
                     start == IF clip = <<>> \/ clip.e - clip.b > MaxClip THEN stop
                              ELSE clip.e
                     last  == ~is_open(x) /\ Border(x) <= start
                     none  == clip = <<>> /\ last
                 IN  /\ loop' = IF clip = <<>> THEN LoopIdle
                                ELSE [at |-> "plan", s |-> s, clip |-> clip]
                     /\ Becomes(s, [x EXCEPT !.start = start, !.stop = start + Step,
                                             !.processed = last,
                                             !.finished = @ \/ (none /\ x.planned = 0)],
                                none /\ x.planned = 0)
                     /\ missing' = missing \cup {t \in x.start..(start - 1) :
                                                   clip = <<>> \/ t < clip.b}
                     /\ endedEmpty' = IF none THEN endedEmpty \cup {s} ELSE endedEmpty
        /\ UNCHANGED <<world, posted, segmenters_, traffic, from, planned, overtook, unadjusted,
                       cutOpen>>

\* Faulty variant: a chunk is queued although its segmenter was cancelled.
plan_canceled ==
    LET c == [s |-> loop.s, b |-> loop.clip.b, e |-> loop.clip.e]
    IN  /\ loop.at = "plan"
        /\ loop' = LoopIdle
        /\ seg' = [seg EXCEPT ![loop.s].planned = @ + 1]
        /\ chunks' = chunks \cup {c}
        /\ planned' = planned \cup {c}
        /\ UNCHANGED <<world, status, canceled_tickets, posted, segmenters_, reporting, cloud,
                       from, missing, endedEmpty, overtook, unadjusted, cutOpen>>

\* The rest of __segment_step(): the chunk is counted and handed to
\* _schedule_direct_upload(), which drops it when the segmenter was cancelled.
plan_chunk ==
    LET c == [s |-> loop.s, b |-> loop.clip.b, e |-> loop.clip.e]
    IN  /\ loop.at = "plan"
        /\ loop' = LoopIdle
        /\ seg' = [seg EXCEPT ![loop.s].planned = @ + 1]
        /\ chunks' = IF seg[loop.s].canceled THEN chunks ELSE chunks \cup {c}
        /\ planned' = IF seg[loop.s].canceled THEN planned ELSE planned \cup {c}
        /\ UNCHANGED <<world, status, canceled_tickets, posted, segmenters_, reporting, cloud,
                       from, missing, endedEmpty, overtook, unadjusted, cutOpen>>
-----------------------------------------------------------------------------
(***************************************************************************)
(* The threads that end a chunk: on_finished(). The counters are plain     *)
(* integers: a call reads its counter, and writes it back later.           *)
(***************************************************************************)

on_finished(c, ok) ==
    /\ c \in chunks
    /\ Cardinality(reporting) < Threads
    /\ ~ok => "upload" \in world.faults
    /\ chunks' = chunks \ {c}
    /\ cloud' = IF ok THEN cloud \cup {[b |-> c.b, e |-> c.e]} ELSE cloud
    /\ reporting' = reporting \cup
          {[c |-> c, ok |-> ok, done |-> seg[c.s].done, failed |-> seg[c.s].failed]}
    /\ UNCHANGED <<world, account, posted, segmenters_, loop, observed>>

\* The segmenter with the chunk of r counted: the counter that was read, one higher
Counted(r) ==
    [seg[r.c.s] EXCEPT !.done = IF r.ok THEN r.done + 1 ELSE r.done,
                       !.failed = IF r.ok THEN r.failed ELSE r.failed + 1]

\* Faulty variant: only a successful chunk is reported.
ReportedIfDone(r) ==
    LET x == Counted(r)
    IN  /\ r \in reporting
        /\ reporting' = reporting \ {r}
        /\ Becomes(r.c.s, [x EXCEPT !.finished = AllCounted(x)], r.ok)
        /\ UNCHANGED <<world, posted, segmenters_, loop, chunks, cloud, observed>>

\* The direct upload leaves out the chunks of a cancelled segmenter that it
\* has not started.
drop_canceled(c) ==
    /\ c \in chunks
    /\ seg[c.s].canceled
    /\ chunks' = chunks \ {c}
    /\ UNCHANGED <<world, account, posted, segmenters_, loop, reporting, cloud, observed>>

\* ... the counter, the finished flag and the status
Reported(r) ==
    LET x == Counted(r)
    IN  /\ r \in reporting
        /\ reporting' = reporting \ {r}
        /\ Becomes(r.c.s, [x EXCEPT !.finished = AllCounted(x)], TRUE)
        /\ UNCHANGED <<world, posted, segmenters_, loop, chunks, cloud, observed>>
-----------------------------------------------------------------------------
EventEnds == \E s \in Seg, t \in EndTime, now \in BOOLEAN : finalize_upload(s, t, now)

Environment ==
    \/ \E s \in Seg : \E r \in Request[s] : schedule_upload(s, r)
    \/ EventEnds
    \/ \E s \in Seg : cancel_upload(s)

Callback ==
    \E s \in Seg :
        __segmenter_enqueue(s) \/ __segmenter_finalize(s) \/ __segmenter_cancel_by_ticket(s)

AsyncLoop ==
    \/ __adjust_segmenters_current_to_finished
    \/ \E ok \in BOOLEAN : __check_clip_segment(ok)
    \/ __segment_step \/ plan_chunk

Finish ==
    \/ \E c \in chunks, ok \in BOOLEAN : on_finished(c, ok)
    \/ \E c \in chunks : drop_canceled(c)
    \/ \E r \in reporting : Reported(r)

Next == Environment \/ Callback \/ AsyncLoop \/ Finish

Spec == Init /\ [][Next]_vars
(***************************************************************************)
(* Fairness. The loop reschedules itself, an event ends, and the direct    *)
(* upload ends every chunk (EveryChunkReported of DirectUpload). The loop  *)
(* and the posted callbacks are timers of one thread that run in the order *)
(* of their due times, so the loop, which is due later each time, cannot   *)
(* overtake a callback for ever: strong fairness.                          *)
(***************************************************************************)
Fairness == WF_vars(AsyncLoop) /\ SF_vars(Callback) /\ WF_vars(EventEnds) /\ WF_vars(Finish)

FairSpec == Spec /\ Fairness
-----------------------------------------------------------------------------
(***************************************************************************)
(* Properties.                                                             *)
(***************************************************************************)

Span == [b : Nat, e : Nat]
SegType ==
    [begin : Nat, end : Nat, start : Nat, stop : Nat, pre : Nat, post : Nat,
     ticket : BOOLEAN, processed : BOOLEAN, canceled : BOOLEAN, finished : BOOLEAN,
     planned : Nat, done : Nat, failed : Nat]
ChunkType == [s : Seg, b : Nat, e : Nat]
StatusKind == {"none", "PENDING", "DONE", "ERROR", "CANCELED"}
LoopAt == {"idle", "adjust", "check", "step", "plan"}

\* Types; a segmenter waits for its start or is in the list, once, and never
\* both (schedule_upload(), __segmenter_enqueue()).
TypeOK ==
    /\ world \in Worlds
    /\ seg \in [Seg -> SegType]
    /\ status \in [Seg -> StatusKind]
    /\ delayed \subseteq Seg
    /\ segmenters_ \in Seq(Seg) /\ IsInjective(segmenters_)
    /\ delayed \cap ToSet(segmenters_) = {}
    /\ finalizing \in [Seg -> Nat]
    /\ canceling \subseteq Seg /\ canceled_tickets \subseteq Seg
    /\ loop.at \in LoopAt /\ loop.s \in Seg \cup {NoSeg}
    /\ loop.at \in {"check", "step", "plan"} => loop.s \in Seg
    /\ loop.at = "plan" => loop.clip \in Span
    /\ chunks \subseteq ChunkType /\ planned \subseteq ChunkType
    /\ reporting \subseteq [c : ChunkType, ok : BOOLEAN, done : Nat, failed : Nat]
    /\ cloud \subseteq Span
    /\ from \in [Seg -> Nat]
    /\ missing \subseteq Nat
    /\ endedEmpty \subseteq Seg /\ overtook \subseteq Seg
    /\ unadjusted \subseteq Seg /\ cutOpen \subseteq Seg

Times(p) == p.b..(p.e - 1)
\* From begin - pre on, or from the begin update_delivery_mode() has set: its
\* window leaves the pre-record time out.
Wanted(s) == from[s]..(Border(seg[s]) - 1)

\* The chunk __segment_step() has yet to count.
Planning == IF loop.at = "plan"
            THEN {[s |-> loop.s, b |-> loop.clip.b, e |-> loop.clip.e]} ELSE {}

\* Times that were planned for upload, that the Cloud had before, or that the
\* recorder had nothing for.
Handled == missing \cup UNION {Times(p) : p \in Stored \cup planned \cup Planning}

Complete(s) ==
    seg[s].processed /\ ~seg[s].canceled /\ ~is_open(seg[s]) => Wanted(s) \subseteq Handled

\* When a segmenter is processed, all from its first window to end + post was planned,
\* was on the Cloud or has no recording: what the comment in
\* __adjust_segmenters_current_to_finished() says of a window that was moved,
\* and what the tests compare the chunks with.
EverythingPlanned == \A s \in Seg : Complete(s)

BeganBefore(s, o) == from[s] < from[o]

\* The same with its two exceptions: the moves of the window by
\* __adjust_segmenters_current_to_finished() leave out data only for a
\* segmenter that begins before another one, __check_clip_segment() only for an
\* event that has not ended.
NothingSkipped ==
    \A s \in Seg : \/ Complete(s)
                   \/ s \in cutOpen
                   \/ \E o \in Seg : Used(o) /\ BeganBefore(s, o)

\* The chunks of s on their way
InFlight(s) == {c \in chunks \cup {r.c : r \in reporting} \cup Planning : c.s = s}

\* When the Cloud has been told that a request is over, at most one of its
\* chunks is still on its way and no other is cut, whatever order on_finished(),
\* with its plain counters, and __segment_step() run in. (processed is set
\* before the last chunk is counted, so one may be on its way.)
FinalIsLast ==
    [][\A s \in Seg : status[s] \in {"DONE", "ERROR"} =>
          Cardinality(InFlight(s)) <= 1 /\ InFlight(s)' \subseteq InFlight(s)]_vars

\* Every chunk is counted, and nothing is left that would report the end.
Silent(s) ==
    /\ Used(s) /\ AllCounted(seg[s]) /\ InFlight(s) = {}
    /\ seg[s].ticket /\ ~seg[s].canceled

\* The final status of a request whose chunks are all counted is missed only
\* when its last window gave no chunk: the reports of __segment_step() and
\* __check_clip_segment() for that case wait for uploads_planned to be zero.
SilentOnlyWhenEmpty == \A s \in Seg : Silent(s) => s \in endedEmpty

\* Once the Cloud has been told that a request is cancelled, no further chunk
\* of it goes to the direct upload, not even one __segment_step() had cut.
CancelStops ==
    [][\A s \in Seg : status[s] = "CANCELED" =>
          {c \in chunks' : c.s = s} \subseteq chunks]_vars

Overlap(c, d) == c # d /\ Meets(c, d.b, d.e)
Odd(c) == \/ seg[c.s].canceled \/ c.e - c.b > MaxClip \/ c.s \notin ToSet(segmenters_)
          \/ c.s \in overtook \cup unadjusted

\* No time is planned twice, by one segmenter or by two whose periods meet, even
\* when the Cloud's list is not available: the tests' result_has_intersections().
\* Excepted are chunks of a cancelled request, clips longer than MaxClip, which
\* the window does not follow, and segmenters __purge_segmenters() has taken from
\* the list, that were put before one under way, or whose turn came while
\* on_finished() cancelled the one before it. (intersects() leaves post out: a
\* post longer than Step reaches into a period it keeps apart.)
PlannedOnce ==
    \A c, d \in planned :
        Overlap(c, d) /\ (c.s = d.s \/ intersects(seg[c.s], seg[d.s])) => Odd(c) \/ Odd(d)

\* slices() neither loses nor adds a time and leaves a gap between any two
\* of its periods: __check_clip_segment() moves the window slice by slice.
SquashExact ==
    LET q == _squash_periods(cloud)
    IN  /\ UNION {Times(p) : p \in ToSet(q)} = UNION {Times(p) : p \in cloud}
        /\ \A i \in 1..(Len(q) - 1) : q[i].e < q[i + 1].b

\* Every segmenter that was asked for is processed or cancelled in the end and its
\* chunks are reported: the loop never turns in place over a window. (All at once, since
\* the requests are finite.)
AllProcessed ==
    []<>(\A s \in Seg : Used(s) =>
            (seg[s].processed \/ seg[s].canceled) /\ InFlight(s) = {})
=============================================================================
