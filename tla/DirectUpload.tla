---------------------------- MODULE DirectUpload ----------------------------
(***************************************************************************)
(* The upload of recorded video to the Cloud: one segmenter of the         *)
(* segmented uploader (agent/upload.h) plans chunks; the manager           *)
(* (agent/manager.cc) queues them, exports a clip, asks the Cloud for an   *)
(* URL, waits for the answer with a timeout and uploads over HTTP. What    *)
(* became of a chunk is told to the segmenter by on_finished(ok).          *)
(*                                                                         *)
(* Five threads take part, without a common lock:                          *)
(*   uploader  plans the chunks and cancels the segmenter;                 *)
(*   sync      direct_upload_timer_: the queue and direct_upload_sync_cb;  *)
(*   svc       the websocket service thread: answer timeouts;              *)
(*   rx        the transport-rx thread: answers of the Cloud;              *)
(*   http      responses of the storage.                                   *)
(* Each of them may be inside on_finished(), which counts the chunk, makes *)
(* up a status for the Cloud and sends it, in three steps. The counter of  *)
(* running uploads is a plain size_t, so an increment is a load and a      *)
(* store; a storage whose name cannot be resolved answers an upload twice  *)
(* (see HttpClient and Completion). uploads_done and uploads_failed change *)
(* in one step here; their lost updates are in SegmentedUploader. A chunk  *)
(* is named by the msgid of its get_direct_upload_url, and msgids grow.    *)
(***************************************************************************)
EXTENDS Integers, Sequences, FiniteSets, SequencesExt

CONSTANTS Upload,     \* chunks: msgids of get_direct_upload_url commands
          None,       \* no chunk
          MaxVideo,   \* max_concurent_video_uploads
          Wrap,       \* the values of size_t, more than there are chunks
          Worlds      \* what the environment may do to how many chunks

FaultKind == {"refuse",      \* the Cloud answers with status # "OK"
              "bare",        \* the Cloud answers "OK" without url or headers
              "late",        \* the Cloud answers after the timeout
              "cancel",      \* the synchronisation is cancelled
              "disconnect",  \* the control connection is lost
              "old",         \* chunks wait too long in the queue
              "unresolved"}  \* the name of the storage is not resolved

ASSUME UploadAssumption ==
    /\ IsFiniteSet(Upload) /\ Upload \subseteq Nat
    /\ None \notin Upload
    /\ MaxVideo \in Nat \ {0}
    /\ Wrap \in Nat /\ Cardinality(Upload) + 3 < Wrap
    /\ Worlds \subseteq [faults : SUBSET FaultKind, chunks : SUBSET Upload]

Thread == {"uploader", "sync", "svc", "rx", "http"}

VARIABLES
    world,
    planned,     \* chunks planned; uploads_planned is its cardinality
    planning,    \* chunk in __segment_step() not yet counted in uploads_planned
    processed, canceled, finished,
    done, failed,           \* uploads_done, uploads_failed
    by_request,  \* the segmenter serves a memorycard synchronisation request
    ticket,      \* segmenter.ticket is not empty
    sending,     \* the status each thread is about to make up or to send
    reported,    \* the statuses of cam_memorycard_synchronize_status sent
    cancelAsked, \* cancel_upload() was called
    enqueuing,   \* chunks whose enqueue callback is scheduled
    video_q,     \* direct_upload_video_q_
    sync,        \* where the sync thread is
    exporting,   \* the chunk it exports
    records_,    \* exported clips waiting for their URL
    acks_,       \* entries of the table of awaited answers
    ackTimer,    \* their pending timeouts
    expiring,    \* chunk whose timeout callback has yet to erase its record
    asked,       \* requests the Cloud has received and not answered
    rx,          \* the answer the rx thread is handling
    uploads,     \* HTTP uploads in progress
    http,        \* the response the http thread is handling
    records_uploading,      \* counter of running uploads
    registered_,
    notified,    \* observation: calls of on_finished() of each chunk
    timedOut,    \* observation: chunks whose answer timed out
    unserved,    \* observation: chunks the Cloud refused or gave no URL for
    twice,       \* observation: uploads answered twice
    leaked,      \* observation: a cancelled upload has kept its slot
    torn         \* observation: records_uploading lost an update

segmenter == <<world, planned, planning, processed, canceled, by_request, cancelAsked>>
outcome   == <<finished, done, failed, notified>>
status    == <<ticket, sending, reported>>
queue     == <<enqueuing, video_q, sync, exporting>>
awaiting  == <<records_, acks_, ackTimer, expiring, asked, timedOut, unserved>>
slots     == <<records_uploading, torn>>
transfer  == <<uploads, http, twice, leaked>>
vars == <<segmenter, outcome, status, queue, awaiting, rx, slots, transfer, registered_>>

Final  == {"DONE", "ERROR"}
Status == {"PENDING", "CANCELED"} \cup Final
RxIdle   == [at |-> "idle", id |-> None, data |-> FALSE, slot |-> FALSE, reg |-> 0]
HttpIdle == [at |-> "idle", id |-> None, reg |-> 0, twice |-> FALSE]

SegmenterOK ==
    /\ world \in Worlds
    /\ planned \subseteq Upload
    /\ planning \in Upload \cup {None}
    /\ processed \in BOOLEAN /\ canceled \in BOOLEAN
    /\ by_request \in BOOLEAN /\ cancelAsked \in BOOLEAN
OutcomeOK ==
    /\ finished \in BOOLEAN
    /\ done \in Nat /\ failed \in Nat
    /\ notified \in [Upload -> Nat]
StatusOK ==
    /\ ticket \in BOOLEAN
    /\ sending \in [Thread -> Status \cup {"none", "due"}]
    /\ reported \subseteq Status
QueueOK ==
    /\ enqueuing \subseteq Upload
    /\ video_q \in Seq(Upload)
    /\ sync \in {"idle", "latency", "loop", "room", "export"}
    /\ exporting \in Upload \cup {None}
AwaitingOK ==
    /\ records_ \subseteq Upload /\ acks_ \subseteq Upload
    /\ ackTimer \subseteq Upload /\ asked \subseteq Upload
    /\ expiring \in Upload \cup {None}
    /\ timedOut \subseteq Upload /\ unserved \subseteq Upload
RxType == [at : {"idle", "url", "count", "erase", "start"}, id : Upload \cup {None},
           data : BOOLEAN, slot : BOOLEAN, reg : 0..Wrap - 1]
HttpType == [at : {"idle", "answered", "count", "again"}, id : Upload \cup {None},
             reg : 0..Wrap - 1, twice : BOOLEAN]
SlotsOK == records_uploading \in 0..Wrap - 1 /\ torn \in BOOLEAN
TransferOK ==
    /\ uploads \subseteq Upload
    /\ http \in HttpType
    /\ twice \subseteq Upload
    /\ leaked \in BOOLEAN

\* Every variable has its type.
TypeOK ==
    /\ SegmenterOK /\ OutcomeOK /\ StatusOK /\ QueueOK /\ AwaitingOK
    /\ rx \in RxType /\ SlotsOK /\ TransferOK
    /\ registered_ \in BOOLEAN

Init ==
    /\ world \in Worlds
    /\ planned = {} /\ planning = None
    /\ processed = FALSE /\ canceled = FALSE /\ finished = FALSE
    /\ done = 0 /\ failed = 0
    /\ by_request \in BOOLEAN
    /\ ticket = by_request
    /\ sending = [t \in Thread |-> "none"] /\ reported = {}
    /\ cancelAsked = FALSE
    /\ enqueuing = {} /\ video_q = <<>> /\ sync = "idle" /\ exporting = None
    /\ records_ = {} /\ acks_ = {} /\ ackTimer = {} /\ expiring = None /\ asked = {}
    /\ rx = RxIdle
    /\ uploads = {} /\ http = HttpIdle /\ records_uploading = 0
    /\ registered_ = TRUE
    /\ notified = [u \in Upload |-> 0]
    /\ timedOut = {} /\ unserved = {} /\ twice = {} /\ leaked = FALSE /\ torn = FALSE
-----------------------------------------------------------------------------
(***************************************************************************)
(* What a chunk's end means to the segmenter.                              *)
(***************************************************************************)

\* A thread that is not inside on_finished() or a status
Free(t) == sending[t] = "none"

\* Every planned chunk has been reported, d of them uploaded and f not.
AllReported(d, f) == processed /\ Cardinality(planned) = d + f

\* Thread t calls on_finished(ok) of chunk u: the counters, the finished flag
\* and, for a request whose ticket is still open, a status to make up.
on_finished(t, u, ok) ==
    LET d == IF ok THEN done + 1 ELSE done
        f == IF ok THEN failed ELSE failed + 1
    IN  /\ done' = d /\ failed' = f
        /\ finished' = AllReported(d, f)
        /\ notified' = [notified EXCEPT ![u] = @ + 1]
        /\ sending' = [sending EXCEPT ![t] = IF ticket THEN "due" ELSE "none"]
        /\ UNCHANGED <<ticket, reported>>

\* The status __send_timeline_synchronization_status() makes up.
SyncStatus ==
    IF canceled THEN "CANCELED"
    ELSE IF ~AllReported(done, failed) THEN "PENDING"
    ELSE IF done = 0 THEN "ERROR" ELSE "DONE"

\* Faulty variant: a final status does not clear the ticket.
ticket_stays_open(t) ==
    /\ sending[t] = "due"
    /\ sending' = [sending EXCEPT ![t] = IF ticket THEN SyncStatus ELSE "none"]
    /\ UNCHANGED <<ticket, reported, segmenter, outcome, queue, awaiting, rx, slots, transfer,
                   registered_>>

\* It does so unless the ticket is closed by now; a final status closes it.
__send_timeline_synchronization_status(t) ==
    /\ sending[t] = "due"
    /\ sending' = [sending EXCEPT ![t] = IF ticket THEN SyncStatus ELSE "none"]
    /\ ticket' = (ticket /\ SyncStatus \notin Final)
    /\ UNCHANGED <<reported, segmenter, outcome, queue, awaiting, rx, slots, transfer,
                   registered_>>

\* Its last line: send_command_cb_()
SendStatus(t) ==
    /\ sending[t] \in Status
    /\ reported' = reported \cup {sending[t]}
    /\ sending' = [sending EXCEPT ![t] = "none"]
    /\ UNCHANGED <<ticket, segmenter, outcome, queue, awaiting, rx, slots, transfer,
                   registered_>>
-----------------------------------------------------------------------------
(***************************************************************************)
(* The uploader thread.                                                    *)
(***************************************************************************)

\* __segment_step() finds a clip in the current window; processed is set on
\* the last one before the chunk is counted.
SegmentStep(u, last) ==
    /\ Free("uploader")
    /\ planning = None /\ ~processed /\ ~canceled
    /\ u \in world.chunks \ planned /\ \A v \in world.chunks : v < u => v \in planned
    /\ processed' = last
    /\ planning' = u
    /\ UNCHANGED <<world, planned, canceled, by_request, cancelAsked, outcome, status, queue,
                   awaiting, rx, slots, transfer, registered_>>

\* The last window holds no clip.
SegmentEnd ==
    /\ Free("uploader")
    /\ planning = None /\ ~processed /\ ~canceled
    /\ processed' = TRUE
    /\ finished' = (finished \/ planned = {})
    /\ sending' = [sending EXCEPT !["uploader"] =
                      IF ticket /\ planned = {} THEN "due" ELSE "none"]
    /\ UNCHANGED <<world, planned, planning, canceled, by_request, cancelAsked, done, failed,
                   notified, ticket, reported, queue, awaiting, rx, slots, transfer,
                   registered_>>

\* The rest of __segment_step(): the count and _schedule_direct_upload().
Plan ==
    /\ planning # None
    /\ planned' = planned \cup {planning}
    /\ planning' = None
    /\ enqueuing' = IF canceled THEN enqueuing ELSE enqueuing \cup {planning}
    /\ UNCHANGED <<world, processed, canceled, by_request, cancelAsked, outcome, status,
                   video_q, sync, exporting, awaiting, rx, slots, transfer, registered_>>

\* A cancel command or a canceler event.
cancel_upload ==
    /\ "cancel" \in world.faults /\ by_request
    /\ ~cancelAsked
    /\ cancelAsked' = TRUE
    /\ UNCHANGED <<world, planned, planning, processed, canceled, by_request, outcome, status,
                   queue, awaiting, rx, slots, transfer, registered_>>

\* The callback of cancel_upload(), which looks segmenters up by their ticket.
__segmenter_cancel_by_ticket ==
    /\ Free("uploader")
    /\ cancelAsked /\ planning = None
    /\ ticket /\ ~canceled
    /\ canceled' = TRUE /\ processed' = TRUE /\ finished' = TRUE
    /\ sending' = [sending EXCEPT !["uploader"] = "due"]
    /\ UNCHANGED <<world, planned, planning, by_request, cancelAsked, done, failed, notified,
                   ticket, reported, queue, awaiting, rx, slots, transfer, registered_>>
-----------------------------------------------------------------------------
(***************************************************************************)
(* The sync thread.                                                        *)
(***************************************************************************)

\* The callback scheduled by _schedule_direct_upload()
Enqueue(u) ==
    /\ Free("sync") /\ sync = "idle"
    /\ u \in enqueuing
    /\ enqueuing' = enqueuing \ {u}
    /\ video_q' = Append(video_q, u)
    /\ UNCHANGED <<segmenter, outcome, status, sync, exporting, awaiting, rx, slots, transfer,
                   registered_>>

\* The callback scheduled by _cancel_direct_uploads_by_ticket(): no
\* on_finished() for what it drops.
_cancel_direct_uploads_by_ticket ==
    /\ Free("sync") /\ sync = "idle" /\ cancelAsked
    /\ video_q # <<>>
    /\ video_q' = <<>>
    /\ UNCHANGED <<segmenter, outcome, status, enqueuing, sync, exporting, awaiting, rx, slots,
                   transfer, registered_>>

\* direct_upload_sync_cb() begins: the i-th chunk of the queue is late and
\* dropped, which spares synchronisations. Only this thread sees the queue,
\* so the order in which the scan meets the late chunks is left open.
_update_direct_upload_queue_latency(i) ==
    /\ Free("sync") /\ sync \in {"idle", "latency"}
    /\ "old" \in world.faults /\ ~by_request
    /\ video_q' = RemoveAt(video_q, i)
    /\ on_finished("sync", video_q[i], FALSE)
    /\ sync' = "latency"
    /\ UNCHANGED <<segmenter, enqueuing, exporting, awaiting, rx, slots, transfer, registered_>>

\* The end of the scan, up to the loop.
direct_upload_sync_cb ==
    /\ Free("sync") /\ sync \in {"idle", "latency"}
    /\ sync' = IF registered_ THEN "loop" ELSE "idle"
    /\ UNCHANGED <<segmenter, outcome, status, enqueuing, video_q, exporting, awaiting, rx,
                   slots, transfer, registered_>>

\* Faulty variant: clips waiting for their URL are not counted.
RoomAlways == TRUE

\* The condition of its loop: the counter first, the waiting clips last.
SlotFree == records_uploading < MaxVideo
Room == Cardinality(records_) < MaxVideo

\* One round of the loop up to the test of the waiting clips,
SyncLoop ==
    /\ Free("sync") /\ sync = "loop"
    /\ sync' = IF SlotFree /\ video_q # <<>> THEN "room" ELSE "idle"
    /\ UNCHANGED <<segmenter, outcome, status, enqueuing, video_q, exporting, awaiting, rx,
                   slots, transfer, registered_>>

\* that test, and up to the export of the clip.
SyncRoom ==
    /\ sync = "room"
    /\ \/ /\ Room
          /\ video_q' = Tail(video_q)
          /\ exporting' = IF canceled THEN None ELSE Head(video_q)
          /\ sync' = IF canceled THEN "loop" ELSE "export"
       \/ /\ ~Room
          /\ sync' = "idle"
          /\ UNCHANGED <<video_q, exporting>>
    /\ UNCHANGED <<segmenter, outcome, status, enqueuing, awaiting, rx, slots, transfer,
                   registered_>>

\* _request_direct_upload_video() when the clip cannot be exported
ExportFails ==
    /\ sync = "export"
    /\ on_finished("sync", exporting, FALSE)
    /\ sync' = "loop" /\ exporting' = None
    /\ UNCHANGED <<segmenter, enqueuing, video_q, awaiting, rx, slots, transfer, registered_>>

\* Faulty variant: no timeout is armed for the answer.
_request_without_timeout ==
    /\ sync = "export"
    /\ records_' = records_ \cup {exporting}
    /\ acks_' = acks_ \cup {exporting}
    /\ asked' = IF registered_ THEN asked \cup {exporting} ELSE asked
    /\ sync' = "idle" /\ exporting' = None
    /\ UNCHANGED <<segmenter, outcome, status, enqueuing, video_q, ackTimer, expiring, timedOut,
                   unserved, rx, slots, transfer, registered_>>

\* and when it can: the record, the timeout, the ack entry and the command
_request_direct_upload_video ==
    /\ sync = "export"
    /\ records_' = records_ \cup {exporting}
    /\ ackTimer' = ackTimer \cup {exporting}
    /\ acks_' = acks_ \cup {exporting}
    /\ asked' = IF registered_ THEN asked \cup {exporting} ELSE asked
    /\ sync' = "idle" /\ exporting' = None
    /\ UNCHANGED <<segmenter, outcome, status, enqueuing, video_q, expiring, timedOut,
                   unserved, rx, slots, transfer, registered_>>
-----------------------------------------------------------------------------
(***************************************************************************)
(* The service thread of the control connection.                           *)
(***************************************************************************)

\* Faulty variants: the timeout is not reported, or the record is kept.
AckTimeoutSilent(u) ==
    /\ Free("svc") /\ expiring = None
    /\ u \in ackTimer
    /\ ackTimer' = ackTimer \ {u}
    /\ expiring' = u
    /\ timedOut' = timedOut \cup {u}
    /\ UNCHANGED <<segmenter, outcome, status, queue, records_, acks_, asked, unserved, rx,
                   slots, transfer, registered_>>

DropNothing ==
    /\ Free("svc") /\ expiring # None
    /\ expiring' = None
    /\ UNCHANGED <<segmenter, outcome, status, queue, records_, acks_, ackTimer, asked,
                   timedOut, unserved, rx, slots, transfer, registered_>>

\* The timeout callback of a request: on_finished(false), then the record is
\* erased. The entry of acks_ stays.
AckTimeout(u) ==
    /\ Free("svc") /\ expiring = None
    /\ u \in ackTimer
    /\ ackTimer' = ackTimer \ {u}
    /\ on_finished("svc", u, FALSE)
    /\ expiring' = u
    /\ timedOut' = timedOut \cup {u}
    /\ UNCHANGED <<segmenter, queue, records_, acks_, asked, unserved, rx, slots, transfer,
                   registered_>>

DropRecord ==
    /\ Free("svc") /\ expiring # None
    /\ records_' = records_ \ {expiring}
    /\ expiring' = None
    /\ UNCHANGED <<segmenter, outcome, status, queue, acks_, ackTimer, asked, timedOut,
                   unserved, rx, slots, transfer, registered_>>

\* The registration is lost with what the Cloud had still to answer, and won back.
Disconnected ==
    /\ "disconnect" \in world.faults
    /\ registered_
    /\ registered_' = FALSE
    /\ asked' = {}
    /\ UNCHANGED <<segmenter, outcome, status, queue, records_, acks_, ackTimer, expiring,
                   timedOut, unserved, rx, slots, transfer>>

Registered ==
    /\ ~registered_
    /\ registered_' = TRUE
    /\ UNCHANGED <<segmenter, outcome, status, queue, awaiting, rx, slots, transfer>>
-----------------------------------------------------------------------------
(***************************************************************************)
(* The rx thread.                                                          *)
(***************************************************************************)

\* One more and one less, as size_t has it.
Up(n)   == IF n = Wrap - 1 THEN 0 ELSE n + 1
Down(n) == IF n = 0 THEN Wrap - 1 ELSE n - 1

\* The counter, loaded as reg, is written.
Count(reg, value) ==
    /\ records_uploading' = value
    /\ torn' = (torn \/ records_uploading # reg)

\* What the Cloud answers, and the fault it takes.
Answer == {"url", "bare", "refuse"}

Take(u, answer) ==
    /\ Free("rx") /\ rx = RxIdle
    /\ u \in asked /\ u \in acks_
    /\ u \in timedOut => "late" \in world.faults
    /\ answer # "url" => answer \in world.faults
    /\ asked' = asked \ {u}
    /\ ackTimer' = ackTimer \ {u}
    /\ acks_' = acks_ \ {u}
    /\ unserved' = IF answer = "url" THEN unserved ELSE unserved \cup {u}
    /\ UNCHANGED <<segmenter, queue, records_, expiring, timedOut, slots, transfer,
                   registered_>>

Handling(u) == [RxIdle EXCEPT !.at = "url", !.id = u]

\* Faulty variant: a refused request goes on to on_direct_upload_url().
_handle_command_ack_goes_on(u, answer) ==
    /\ Take(u, answer)
    /\ rx' = Handling(u)
    /\ \/ answer # "refuse" /\ UNCHANGED <<outcome, status>>
       \/ answer = "refuse" /\ on_finished("rx", u, FALSE)

\* _handle_command_ack() for the answer to u, and the command's handler: an
\* answer with status OK takes over on_finished(), another one is the end of
\* the chunk. Without url or headers handle_direct_upload_url() then returns,
\* and on_finished() is gone with the answer.
_handle_command_ack(u, answer) ==
    /\ Take(u, answer)
    /\ \/ /\ answer = "url"
          /\ rx' = Handling(u)
          /\ UNCHANGED <<outcome, status>>
       \/ /\ answer = "bare"
          /\ UNCHANGED <<rx, outcome, status>>
       \/ /\ answer = "refuse"
          /\ on_finished("rx", u, FALSE)
          /\ UNCHANGED rx

\* Faulty variant: a slot is taken without a clip or for a cancelled one.
url_counts_always ==
    /\ rx.at = "url"
    /\ rx' = [rx EXCEPT !.at = "count", !.data = rx.id \in records_, !.reg = records_uploading]
    /\ UNCHANGED <<segmenter, outcome, status, queue, awaiting, slots, transfer, registered_>>

\* on_direct_upload_url() up to the increment of the counter, which it loads
\* when there is a clip, not cancelled yet
on_direct_upload_url ==
    /\ rx.at = "url"
    /\ rx' = IF rx.id \in records_ /\ ~canceled
             THEN [rx EXCEPT !.at = "count", !.data = TRUE, !.reg = records_uploading]
             ELSE [rx EXCEPT !.at = "erase", !.data = rx.id \in records_]
    /\ UNCHANGED <<segmenter, outcome, status, queue, awaiting, slots, transfer, registered_>>

CountUpload ==
    /\ rx.at = "count"
    /\ Count(rx.reg, Up(rx.reg))
    /\ rx' = [rx EXCEPT !.at = "erase", !.slot = TRUE, !.reg = 0]
    /\ UNCHANGED <<segmenter, outcome, status, queue, awaiting, transfer, registered_>>

\* the record is erased,
EraseRecord ==
    /\ rx.at = "erase"
    /\ records_' = records_ \ {rx.id}
    /\ rx' = [rx EXCEPT !.at = "start"]
    /\ UNCHANGED <<segmenter, outcome, status, queue, acks_, ackTimer, expiring, asked,
                   timedOut, unserved, slots, transfer, registered_>>

\* the rest, which asks is_canceled() again
StartUpload ==
    /\ rx.at = "start"
    /\ rx' = RxIdle
    /\ \/ /\ rx.data /\ ~canceled
          /\ uploads' = uploads \cup {rx.id}
          /\ UNCHANGED <<outcome, status, leaked>>
       \/ /\ ~(rx.data /\ ~canceled)
          /\ on_finished("rx", rx.id, FALSE)
          /\ leaked' = (leaked \/ rx.slot)
          /\ UNCHANGED uploads
    /\ UNCHANGED <<segmenter, queue, awaiting, slots, http, twice, registered_>>
-----------------------------------------------------------------------------
(***************************************************************************)
(* The http thread: the response callback of an upload.                    *)
(***************************************************************************)

\* It calls on_finished(); a failed upload may be answered once more.
Response(u, ok, again) ==
    /\ http = HttpIdle
    /\ u \in uploads
    /\ again => ~ok /\ "unresolved" \in world.faults
    /\ on_finished("http", u, ok)
    /\ uploads' = uploads \ {u}
    /\ http' = [HttpIdle EXCEPT !.at = "answered", !.id = u, !.twice = again]
    /\ twice' = IF again THEN twice \cup {u} ELSE twice
    /\ UNCHANGED <<segmenter, queue, awaiting, rx, slots, leaked, registered_>>

\* It gives the slot back, a load and a store.
LoadSlots ==
    /\ Free("http")
    /\ http.at = "answered"
    /\ http' = [http EXCEPT !.at = "count", !.reg = records_uploading]
    /\ UNCHANGED <<segmenter, outcome, status, queue, awaiting, rx, slots, uploads, twice,
                   leaked, registered_>>

Uncount ==
    /\ http.at = "count"
    /\ Count(http.reg, Down(http.reg))
    /\ http' = IF http.twice THEN [http EXCEPT !.at = "again", !.reg = 0] ELSE HttpIdle
    /\ UNCHANGED <<segmenter, outcome, status, queue, awaiting, rx, uploads, twice, leaked,
                   registered_>>

\* The second answer reports the chunk again and gives back a slot that it
\* no longer has.
ResponseAgain ==
    /\ http.at = "again"
    /\ on_finished("http", http.id, FALSE)
    /\ http' = [http EXCEPT !.at = "answered", !.twice = FALSE]
    /\ UNCHANGED <<segmenter, queue, awaiting, rx, slots, uploads, twice, leaked, registered_>>
-----------------------------------------------------------------------------
UploaderNext ==
    \/ \E u \in Upload, last \in BOOLEAN : SegmentStep(u, last)
    \/ SegmentEnd \/ Plan \/ cancel_upload \/ __segmenter_cancel_by_ticket

SyncNext ==
    \/ \E u \in Upload : Enqueue(u)
    \/ _cancel_direct_uploads_by_ticket
    \/ \E i \in 1..Len(video_q) : _update_direct_upload_queue_latency(i)
    \/ direct_upload_sync_cb
    \/ SyncLoop \/ SyncRoom \/ ExportFails \/ _request_direct_upload_video

SvcNext == (\E u \in Upload : AckTimeout(u)) \/ DropRecord \/ Disconnected \/ Registered

RxNext ==
    \/ \E u \in Upload, answer \in Answer : _handle_command_ack(u, answer)
    \/ on_direct_upload_url \/ CountUpload \/ EraseRecord \/ StartUpload

HttpNext ==
    \/ \E u \in Upload, ok, again \in BOOLEAN : Response(u, ok, again)
    \/ LoadSlots \/ Uncount \/ ResponseAgain

StatusNext ==
    \E t \in Thread : __send_timeline_synchronization_status(t) \/ SendStatus(t)

Next == UploaderNext \/ SyncNext \/ SvcNext \/ RxNext \/ HttpNext \/ StatusNext

Spec == Init /\ [][Next]_vars

(***************************************************************************)
(* Fairness. Threads go on with what they are in; callbacks that are due   *)
(* run; the export and the HTTP request end; the sync callback reschedules *)
(* itself. Timers run in the order of their due times and the sync         *)
(* callback reschedules itself a second ahead, so it cannot overtake an    *)
(* enqueue callback for ever: strong fairness. Nothing is assumed of the   *)
(* Cloud: it need not answer.                                              *)
(***************************************************************************)
Fairness ==
    /\ WF_vars(Plan)
    /\ SF_vars(\E u \in Upload : Enqueue(u))
    /\ WF_vars(direct_upload_sync_cb)
    /\ WF_vars(SyncLoop \/ SyncRoom)
    /\ WF_vars(ExportFails \/ _request_direct_upload_video)
    /\ WF_vars(\E u \in Upload : AckTimeout(u))
    /\ WF_vars(DropRecord)
    /\ WF_vars(on_direct_upload_url \/ CountUpload \/ EraseRecord \/ StartUpload)
    /\ WF_vars(HttpNext)
    /\ WF_vars(StatusNext)

FairSpec == Spec /\ Fairness
-----------------------------------------------------------------------------
(***************************************************************************)
(* Properties.                                                             *)
(***************************************************************************)

\* The clips in memory: those waiting for a URL, the one on_direct_upload_url()
\* has taken, and those being uploaded.
Clips == records_ \cup uploads \cup {u \in {rx.id} : rx.data}

\* The loop of direct_upload_sync_cb() tests the running uploads, then the
\* clips waiting for a URL, before an export, and clips pass from the second
\* to the first meanwhile: together they reach twice the limit, and one more
\* for each upload answered twice, which gave back a slot nobody held. A clip
\* whose timeout met its answer is in neither for a moment and not bounded, and
\* nothing is when the counter lost an update.
ClipsBounded ==
    torn \/ Cardinality(Clips \ timedOut) <= 2 * MaxVideo + Cardinality(twice)

\* The slots that should be taken: by a running upload, by the one rx thread
\* is about to start, by each answer still to be counted, and for ever by the
\* upload whose cancellation fell between two tests of is_canceled().
One(b) == IF b THEN 1 ELSE 0
Slots ==
    Cardinality(uploads) + One(rx.slot) + One(http.at \in {"answered", "count"})
        + One(http.twice) + One(leaked)

\* Unless the counter lost an update, records_uploading is the number of slots
\* taken, less one for each upload answered twice, as size_t has it: no path
\* leaks a slot or gives it back twice but these two.
SlotsMatch ==
    /\ leaked => canceled
    /\ torn \/ \E q \in 0..Cardinality(twice) :
                  Slots + q * Wrap = records_uploading + Cardinality(twice)

\* A chunk that was never reported by on_finished() is still on its way in
\* exactly the places that lead to a report, unless a cancel was asked for or
\* an answer "OK" came without a URL and took on_finished() with it.
InPipeline(u) ==
    \/ u \in enqueuing \/ u \in ToSet(video_q) \/ u = exporting
    \/ u \in ackTimer \/ u = rx.id \/ u \in uploads
NothingLost ==
    \A u \in planned :
        notified[u] = 0 /\ ~cancelAsked => InPipeline(u) \/ u \in unserved

\* on_finished() of a chunk is called once, once more when its answer comes
\* after the timeout (acks_ keeps the entry), and once more when the storage
\* answers twice; each call counts the chunk again.
ReportsCounted ==
    \A u \in Upload : notified[u] <= 1 + One(u \in timedOut) + One(u \in twice)

\* A clip stays in records_ only while its answer is awaited or handled, or
\* for ever once the Cloud refused it or gave no URL: neither erases it.
RecordsAwaited ==
    \A u \in records_ : u \in ackTimer \/ u = rx.id \/ u = expiring \/ u \in unserved

\* "done" and "error" are final: once one of them is made up, sent or not, no
\* thread makes up another status for the request. What the Cloud may still
\* receive after it was made up before, one status by each other thread.
FinalMadeUp == \E s \in Final : s \in reported \/ \E t \in Thread : sending[t] = s
FinalStatusStays ==
    [][FinalMadeUp => \A t \in Thread : sending'[t] \in {sending[t], "none"}]_vars

\* Under fairness every planned chunk is eventually reported, whether the
\* Cloud answers or not: again and again there is none that was not, unless the
\* request is cancelled, the connection is lost, the Cloud refuses a chunk or
\* gives no URL, whose clip then keeps its place in records_, or the counter is
\* no longer that of the running uploads: then the queue may wait for ever.
EveryChunkReported ==
    []<>(\/ \A u \in planned : notified[u] > 0
         \/ cancelAsked \/ ~registered_ \/ unserved # {} \/ twice # {} \/ torn)

\* cam-memorycard.h:143: a final status assumes operation completion. When one
\* is made up every planned chunk has been reported.
FinalAfterUploads ==
    [][~FinalMadeUp /\ FinalMadeUp' => \A u \in planned : notified[u] > 0]_vars
=============================================================================
