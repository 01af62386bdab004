# VXG Cloud Agent: a TLA+ verification project

The VXG Embedded SDK (`src/src`) is the agent a camera vendor links into a
camera. It keeps a control connection (a websocket) to the VXG Cloud, executes
the Cloud's commands through callbacks the vendor implements, publishes live
video over RTMP, records to a memory card, and uploads recorded clips that the
Cloud or an event asks for.

This directory models the agent's own logic: the code that decides when to
connect, stream, record, upload and report, and that does so from several
threads that share state with few locks. Media codecs, TLS, HTTP and SSH
themselves are vendored libraries and are not modelled.

Paths below are relative to `src/src` unless they start with `src/`.

## 1. Inventory

| component | state | operations | talks to |
|---|---|---|---|
| control connection: `net/websockets.cc`, `net/transport.h`, `net/lws_common.h`, session part of `agent-proto/command-handler.cc`, `manager::on_closed` | one wsi pointer, queue of connect requests, `close_connection_`, `rx_q_`, `rx_task_q_`, `reconnect_timer_`, `hello_received_`, `registered_`, `bye_reason_`, redirect address | connect, disconnect, lws callbacks, timers, hello/register/configure/bye, `start`, `stop` | everyone through `registered_`; the rx thread runs every command |
| answer table: `acks_` in `command-handler.cc` | message id to callback and timeout | `send_command_wait_ack`, answer, timeout | direct upload |
| direct upload: `manager.cc` 454–680, 1090–1270 | `direct_upload_video_q_`, `records_`, upload counters | schedule, sync callback, export, url request, PUT, cancel by ticket | segmented uploader, answer table, HTTP client |
| segmented uploader: `agent/upload.h` | segmenters: window, planned/done/failed, processed/finished/canceled, ticket | `schedule_upload`, `__segment_step`, finalize, cancel, status reports | direct upload, timeline |
| timeline: `agent/timeline.h` | intervals the Cloud already has | slices, intersects, load/store | segmented uploader |
| stream control: `manager.cc` 1700–2064, 2194–2474, `streamer/stream.h` | `active_sinks_`, `record_stream_`, by-event flags, `recording_status_`, source and sink of each stream, cached `memorycard_info_` | `on_stream_start`/`stop` for five reasons, memory card events, configuration | user's streams, event states |
| event states: `event_state` in `agent/manager.h` | active, delivery mode, segmenter, post-record timer | start, stop, `update_delivery_mode`, timers | stream control (SDM_STREAM), uploader (SDM_UPLOAD) |
| events configuration, periodic events: `manager.cc` | merged `events_config`, `events_states_`, periodic timers | get/set configuration, `notify_event` | event states, direct upload |
| snapshots and metadata of events: `manager.cc` 754–856, 1047–1269 | `snapshots_`, `meta_files_`, the counters of running uploads | `notify_event`, timeout, `on_direct_upload_url`, response | answer table, HTTP client |
| timed callbacks: `net/lws_common.h` | `scheduled_callbacks_`, PENDING/TRIGGERED/CANCELED | schedule, cancel, fire, clean up | all of the above |
| command dispatch and protocol objects: `agent-proto/` | none beyond the session | one handler per command, JSON conversion | manager |
| HTTP client: `net/http.cc` | request queue, per-request completion | `make`, `make_blocked`, lws callbacks | direct upload, platform code |
| media streamer: `streamer/base_streamer.h` and sources/sinks | bounded frame queues, source and sink threads | push/pop/flush, start/stop, error handling | stream control |
| file recordings: `streamer/recroding_stream.h`, `multifrag_sink.*` | list of recorded files | start/stop, list, export | stream control, uploader |
| tunnels: `platform/tunnel-service.h`, `net/sshd.*` | key pairs, table of tunnels, collector thread | get key, create, delete, expire | raw messages of the Cloud |
| event sources, REST helpers, Cloud API, properties, logging | none that other parts depend on | | |

**Threads.** `svc` (websocket service loop: connection callbacks, answer
timeouts, reconnect timer), `rx` (`transport-rx`: commands and posted tasks),
`http` (HTTP service loop: responses, and the timers of event states), the
uploader's and the sync timer's service threads, a source and a sink thread
for each stream, and the user's threads that call `notify_event`.

**What is hard.** `on_error` (svc) and `on_disconnected` (rx) are the same code
on two threads, with no lock around `reconnect_timer_`, and after an unknown
host name it runs three times. Close notifications,
drained commands and event-stream starts are tasks of one queue and reach the
rx thread later than the state they were posted from. Every answer races its
timeout, and an HTTP request whose host name cannot be resolved is answered
twice. A chunk's outcome is counted, made up into a status and sent on five
threads. The manager counts users
of a stream with one integer that starts and stops treat differently. Device
calls fail in the middle of handlers. `PROJECT.json` lists these hazards with
their lines and the properties aimed at them.

**What makes each part correct.** The connection: never lost for good, never two
at once, never torn down by old news, silent after a refusal. Uploads: no chunk
forgotten, memory bounded, slots returned, a final status that is true and
final. Segments: what was asked for and recorded is uploaded, once, and the
request comes to an end. Event files: dropped or uploaded, bounded meanwhile.
HTTP: an answer for each request, and no second one that nobody expects.
Streams: what runs is what somebody wants; source before sink; the Cloud is told
when an event's recording ends; recording follows the card.

## 2. Modules

### CloudSession — the control connection

State: `conn[w]` for each wsi, `client_wsi_`, `close_connection_`,
`requests_q_`, `wake` (a pending `lws_cancel_service`), the pending timers,
`reconnect_timer_`, the two receive queues, the session flags, the address to
use next, and a program counter for each of the two threads. `on_error` and
`on_disconnected` are split at every access to shared state: reset timer and
flags, `on_closed`, `reconnect` (the test of the pointer), `schedule` (its
assignment). A timer that expires first passes its PENDING test and then calls
its callback (`TimerFires`, `TimerCalls`), so a cancellation by the other thread
falls in between. A connect that fails inside the call is reported by `on_error`
and, on the rx thread, by `on_disconnected`; when the host is unknown, lws also
makes its error callback inside the call, so `on_error` runs twice
(`ConnectFails`, `ErrorAgain`). Other callbacks are one step each, since
everything they touch is either locked or private to the service thread.

Actions follow the code's names: `ConnectStarts`/`ConnectFails`
(EVENT_WAIT_CANCELLED), `Established`, `ConnectionError`, `ErrorDone`,
`ErrorAgain`, `Closed`, `Receive`,
`TimerFires`, `TimerCalls`, `handle_hello`, `do_cam_register`, `handle_cam_hello`,
`handle_configure`, `handle_bye`, `drain_rx`, `on_disconnected`, `on_closed`,
`reconnect`, `schedule`, `start`, `stop`, `stopped`.

A *world* fixes what one behaviour may meet (which commands the Cloud sends, how
often a connect fails at once, how often the agent is restarted), so that one
run covers several small instances; StreamControl, SegmentedUploader and
EventFiles have worlds too.

Abstractions: payloads and `tx_q_` are left out (a failed send is the choice
in `do_cam_register`); `auto_reconnect_` is true, as the manager's constructor
leaves it; the reason CONN_CLOSE stands for every bye reason the code treats
like it; destroying the lws context closes the live wsi through its callback.

### DirectUpload — clips from plan to report

One segmenter plans chunks; each passes `enqueuing`, `video_q`, `exporting`,
`records_`/`acks_`/`ackTimer`, the rx thread, `uploads`, and ends in
`on_finished`. Steps are split where the code lets another thread in: between
the setting of `processed` and the count of the last chunk, between the two
tests of the loop (running uploads, waiting clips) and the end of the export,
between the timeout's report and the erasure of the record, between the two
`is_canceled` tests of `on_direct_upload_url`, between the late chunks that the
sync callback drops from its queue. `on_finished` has three steps on whatever
thread it runs: the chunk is counted (`on_finished`), a status is made up from
the counters (`__send_timeline_synchronization_status`), the status is sent
(`SendStatus`); `sending[t]` is what thread t is about to make up or send.
`records_uploading` is a plain `size_t` changed on the rx and the http thread,
so an increment or decrement is a load and a store (`reg`, then `Count`), modulo
`Wrap`. An upload whose host name is not resolved is answered twice
(`ResponseAgain`): the chunk is reported again and a slot is given back that
nobody holds. A *world* says what may go wrong for how many chunks: refusals,
answers OK without a URL, late answers, cancellation, a lost connection, chunks
too old, storage names that are not resolved. `timedOut`, `unserved`, `twice`,
`leaked` and `torn` are observations, no guard reads them (but for the guard by
which a world without late answers has none).

Abstractions: one segmenter; a status is made up in one step (upload.h 109–151
reads the flags and counters on one thread, another may change them while it
does), and `uploads_done` and `uploads_failed` change in one step (their lost
updates are SegmentedUploader's); the Cloud answers a request at most once;
`std::map` and queue operations are atomic; snapshots and metadata are
EventFiles', windows and `canceled_tickets` SegmentedUploader's.

### SegmentedUploader — from a period to chunks and a status

A segmenter is a request for a period, of an event (perhaps without an end yet)
or of the Cloud (with a ticket). The uploader thread is a loop over the
segmenters: move the window behind finished segmenters (`adjust`), compare it
with what the Cloud has (`check`), cut a clip (`step`), count and hand it over
(`plan`); scheduling, finalisation and cancellation are callbacks posted to the
same thread, `on_finished` of a chunk runs on up to `Threads` others and its
counter increments are a load and a store. The recorder's answer to a window is
whole, with a gap, cut short, or longer than asked; the list of the Cloud's
recordings may fail. `_squash_periods` of the timeline is an operator.

Abstractions: times are small integers and the period between two turns of the
loop is left out (any step may come before the next turn); an open event's
window waits for its end at `EndTime`; `update_delivery_mode` appears as a
request whose begin was moved. Each chunk that is handed over is reported once:
an answer after its timeout and a storage that answers twice report a chunk
again, which is DirectUpload's subject. So what this module says about final
statuses holds of requests without such a chunk.

### HttpClient — an answer for each request

Requests wait in `requests_q_`; one wakeup makes the service thread drain it.
The lock of the queue and the lock of each request are taken in both orders
(see the module's comment) and both are part of the state. `make_blocked` is a
thread of its own for each request: lock, `make`, wakeup, wait, timeout.
`stop` joins the thread and then runs the close callbacks of what is left.
**Completion** is the abstract specification: a set of requests made and the
number of answers of each, one, or two in a row. `AnswersInOrder` is the
refinement.

What libwebsockets does is read from its source: a connection it returned ends
with one CLIENT_CONNECTION_ERROR or one CLOSED_CLIENT_HTTP callback; when
`lws_client_connect_via_info` cannot create a connection it returns NULL,
without a callback, but for a host name that cannot be resolved it makes a
CLIENT_CONNECTION_ERROR callback first
(`src/subprojects/packagefiles/libwebsockets-v4.3.1-ssh-vxg/lib/core-net/client/connect2.c`
352–362). Then http.cc answers the request from the callback (354–355), wakes
its caller, and answers it again from the loop that started it (395–398). The
drain of the queue has a step for each of these. When ESTABLISHED finds that its
caller gave up and returns −1, lws makes a CONNECTION_ERROR of it (stage
"refused").

Abstractions: headers, bodies, redirects and the upload speed limit are left out.

### EventFiles — snapshots and metadata of events

Any number of user threads run `notify_event`, which tests for room, takes the
file, stores it under the msgid of the event's command and sends the command,
with a timeout when there is a file. The rx thread handles the answer URL by
URL: it finds the file, counts it, moves it to a request. The http thread gives
the slot back, and gives it back again when the storage's name is not resolved.
No lock protects the maps or the counters: each map operation is a step and each
increment a load and a store (`reg`), modulo `Wrap`. `kept`, `torn` and `again`
are observations: files that nothing will fetch or drop, counters that lost an
update, and second answers.

Abstractions: `std::map` operations are atomic (the torn map is undefined
behaviour of its own); an event is named by its msgid; a snapshot attached by
the user is not stored by the code and so not in the model; metadata that are
present are not empty.

### StreamControl — what is streamed and recorded, and why

The manager's fields are one record `m`, because the handlers of the rx thread
call one another (`on_stream_stop` recursively): each handler is an operator
from `m` to its next value and each action applies one; the loop of
`on_stream_stop` over the events is a fold of `EndEventStream`. `rx` is the task
queue, `card` the real card (against the cached `memorycard_info_`), `recording`
what the device really does (against `recording_status_.started`), `wanted` an
observation: what the Cloud has asked for and not taken back. An outcome fixes
what the user's callbacks answer during one handler.

No lock protects these fields, and the rx thread is not the only one that changes
them. User threads start and stop events, and report the memory card; the
service thread of the control connection asks for the card a second after
new event settings; event timers run on the http thread. What they do is split
where the rx thread can come in between:

* a start of an event reads the delivery mode (`ReadDeliveryMode`, kept in
  `deciding`), sets `active_` (`BeginStart`, kept in `begun`) and starts the
  delivery (`NotifyStart`);
* a report of the card takes what the device says (`NotifyMemorycard`,
  `RefreshStorage`), writes it to the manager's fields and tests the reasons to
  record (`UseReport`), and starts the recording it decided on (`StartNoted`);
  `noting[c]` is where each caller is;
* the loop of `on_stream_start` that switches the delivery of events tests
  `active()` (`TestActive`) and updates the event (`SwitchDelivery`), an event
  at a time; a user may start or stop events meanwhile, other handlers of the rx
  thread wait (`RxFree`).

`overtaken` and `crossed` are observations of the races the code leaves open:
streams whose recording another thread changed under a report or a start, and
events that started or stopped under the loop.

A world fixes which events occur, which reasons the Cloud gives, whether the
user reports the card, and which calls may fail.

Abstractions: any other handler of the rx thread is one step, its loops over
event states (`_stop_all_event_streams`, `EndEventStreams`) and its own
recording starts and stops included; a stop of an event and a timer are one step
each; `on_closed` runs like a task of the rx thread, which `on_error` on the
service thread is not, but then no command is being handled;
the memorycard event is configured; recording and event recording are exclusive,
as `agent-proto/objects/caps.h` 65–69 describes; a command may overtake queued
tasks; `manager::stop` with its `_stop_all_streams`, `set_trigger_recording` and
the clips of SDM_UPLOAD delivery are left out.

### Streamer — frames from a source to a sink

One stream: the source thread (`src`), the sink thread (`snk`), the control
thread that starts and stops both (`ctl`, in the agent the rx thread), the
bounded `queue` between them and `multiqueue_lock_`. The source thread keeps
the lock while it waits for room. The queue's mutex is held for one step,
except by a sink thread between the test of its wait condition and its sleep:
`set_eos` does not take it. `running_` is tested at the head of each loop and
not inside `pullFrame` or `pop`, as in the code, so a thread that is being
stopped may still deliver or process a frame. `error()` of the source copies
the sinks first and calls them later.

Abstractions: one sink of one source, PULL mode, DROP_FRONT (the default);
callers start the source before the sink and stop it after the sink, as the
manager and the recording stream do; what FFmpeg reads, writes and accepts is a
free choice. The rtmp sink (the one that may drop) is modelled without an error
callback: what the callback of `rtsp_stream` does to the stream's control is
`SinkDies` of StreamControl, what it does to the threads is in the plan.

`MCCloudSession`, `MCDirectUpload`, `MCSegmentedUploader`, `MCHttpClient`,
`MCEventFiles`, `MCStreamControl` and `MCStreamer` instantiate them for TLC.
Definitions whose comment begins "Faulty" are variants of the one that follows
them, with a plausible mistake; they are used only to see that each property can
fail.

## 3. Runs

| run | bounds | states | shows |
|---|---|---|---|
| `session` | 2 wsis, 2 timers; three worlds: every command, connects that fail at once (unknown hosts included), a restart | 1.2 M | safety of the session, `NeverStuck` when everything is reported twice and state is left over, and `KeepsTrying` under fairness |
| `session_deleted` | byes with DELETED only | – | finding: the agent reconnects after DELETED |
| `upload_faults` | 2 or 3 chunks, limit 1, `Wrap` 8; four worlds of faults | 983 k | memory bound, slots, no lost chunk, reports, statuses, and `EveryChunkReported` under fairness |
| `upload_final_early` | 3 chunks, late answers | – | finding: a final status while a chunk is outstanding |
| `segments` | 5 requests, up to 3 of them in a world, windows of 2, times up to 9, a period already on the Cloud, 2 reporting threads; seven worlds of recorders and faults | 101 k | what is planned, skipped and reported, and that the loop gets through |
| `segments_skipped` | 2 overlapping events, no faults | – | finding: the beginning of an event is never planned |
| `http` | 3 requests, 2 of them blocking | 240 k | `HttpClient` implements `Completion`; a status read is final, blocking calls return, no request is forgotten |
| `files` | limit 1, `Wrap` 8; 5 events of one thread with second answers, or 2 events of two threads with every answer, an outage and a stop | 3.2 M | the real memory bound and who is left to release a file |
| `streams` | 1 stream; four worlds: every reason with failing source and sink, new settings, card and device faults with reports of the card, two overlapping events | 468 k | sink and source accounting, the record event closed when event streaming ends, recording only while wanted, event streams end, recording resumes with the card |
| `streams_overlap` | 2 events | – | finding: overlapping events end each other's stream |
| `streams_orphan` | 1 event, by_event stop | – | finding: a posted start outlives the stop |
| `streamer` | queue of 2, 5 frames of 3 kinds, 4 starts, dropping or not | 196 k | output valid while used, order and completeness of frames, starts and stops return |

*Why the bounds are enough.* Two wsis are the old and the new connection; two
timers are the one that is firing and the one that replaced it; a second start
meets what the first one left. With 3 chunks and a limit of 1 a clip can be
uploading, another exporting and a third queued. The worlds of `upload_faults`
join the faults that meet: cancellation with answers without a URL, a lost
connection with old chunks and storages that answer twice, each with three
chunks, and all kinds of answers, late ones included, with two. `Wrap` is above
what honest counting reaches, so that only a counter that went below zero gets
there. That the bound of `ClipsBounded` grows with each upload
answered twice is the theorem's: three chunks reach 2·MaxVideo, not the rest; so
are larger limits. Three segmenters are an open event, a request that begins
before it and one that meets both; the last world has an event between two
others and cancellations, for a turn that changes hands in the middle of the
loop. With a limit of 1, five events of one thread reach the bound of
`FilesBounded` with and without second answers; larger limits and more threads
are the theorem's. Symmetry is not used, since most runs check liveness. Two
events are the smallest overlap; `MaxTimers`, `MaxTasks` and `MaxDepth` bound
only what *new* user or Cloud work may start, never a step of work already
begun, so they cannot hide a stuck queue. Five frames fill a queue of two with
one frame at each thread; four starts are a source and three lives of its sink.
`CHECK_DEADLOCK FALSE` is set where the system may really stop: after `stop()`,
once all chunks are reported, or when nobody starts another sink.

*Fairness.* HttpClient: the service thread runs; a caller that has begun goes on
and gets `requests_q_lock_` in the end; a connection ends by itself or by the
timeouts that lws and the callbacks set. SegmentedUploader: the loop and posted
callbacks run, chunks handed over are reported (which is `EveryChunkReported` of
DirectUpload). EventFiles: none, only safety. CloudSession: both threads are
loops that never wait for each other, so their steps are weakly fair; a pending
timer expires; a connect attempt ends (`connect_timeout_secs`); a close the
agent asked for happens because every callback returns −1 while
`close_connection_` is set. Nothing is assumed of the server. DirectUpload: due
callbacks, exports and HTTP requests end; the enqueue callback is strongly fair,
because lws runs timers in order of their due time and the sync callback
reschedules itself a second ahead, so it cannot overtake for ever. The Cloud
need not answer. A status that a thread is about to make up is made up and sent,
since nothing between them waits. StreamControl: posted tasks and due timers
run, the loop that switches deliveries goes on, a call of `notify_event` and a
report of the card return. `CardRecords` has the fairness of the user's
memorycard reports as a premise of the property. Streamer: both media threads
run, `process` and a `pullFrame` that is being stopped return because `stop`
raises FFmpeg's interrupt flag; the control thread is strongly fair, because the
source pulls at the rate of the media and does not take `multiqueue_lock_` back
at once for ever. The source need not deliver, and no end of stream is assumed.

## 4. Findings

* `DeletedStops`: `manager::on_closed` (manager.cc:311) schedules a reconnect
  for every reason but AUTH_FAILURE; `command/bye.h:28` says that after DELETED
  the agent must stop all attempts.
* `FinalAfterUploads`: the answer timeout (command-handler.cc:1043) leaves the
  entry in `acks_`; a late answer reports the chunk a second time, which makes
  up in the count for a chunk still under way, and "done" is made up and sent
  early.
* `StreamHeld`: `active_sinks_` grows only with the first start
  (manager.cc:1838) and shrinks with each stop; manager.h:186 promises as many
  stops as starts.
* `EverythingPlanned`: when an event is enqueued later than one that begins
  after it and overlaps it, `__adjust_segmenters_current_to_finished`
  (upload.h:638) moves its window to the end of the other one and what lies
  before is never planned; the comment there and the tests want all of it.
* `NoOrphanStream`: the stop of by_event (manager.cc:2018) cancels the pending
  stop of an event whose start is still in the task queue; the start then runs
  and nothing ends the stream.

Met while modelling, without a run of their own:

* a host name that lws cannot resolve answers an HTTP request twice (http.cc:355
  from the callback, 395–398 from the loop). The callback of an upload
  (manager.cc:1185) has no guard: the chunk is counted twice, as after a late
  answer, so a final status may come early; the slot is given back twice, and
  `records_uploading`, a `size_t`, can pass below zero to 2^64−1, after which no
  clip is exported any more (`SlotsMatch`, and the exception of
  `EveryChunkReported`). The counters of snapshots and metadata do the same. A
  blocking caller is woken with status −1, which then becomes −2
  (`StatusFinal`);
* `records_uploading` is changed on two threads without a lock (manager.cc:1150,
  1193), so an update can be lost, and the limit drifts (`torn`);
* an answer "OK" without a URL or headers counts as an answer (manager.cc:525)
  and is then refused as DS_MISSED_PARAM (command-handler.cc:296): the chunk is
  never reported, so its request never ends, and its clip stays in `records_`
  (`unserved` in `NothingLost` and `RecordsAwaited`);
* `on_finished` makes up a status from the counters (upload.h:139) and sends it
  later (upload.h:152) without a lock, so the Cloud may receive a PENDING of
  another thread after the "done" (`FinalStatusStays` bounds it: one by each
  thread, made up before);
* the start of a recording tests the reasons (manager.cc:2421) and starts later,
  on a user's or the service thread, while the rx thread withdraws the last
  reason: the device goes on recording for nobody. A refresh of the storage status
  may also write back a report older than a start or stop of the recording
  (manager.cc:1596). Both are the exception `overtaken` of `RecordingWanted`;
* an event that a user stops between the test of `active()` (manager.cc:1892) and
  `update_delivery_mode` (1896) has its stream started with nobody to stop it, and
  one that starts there may be started twice: the exception `crossed`;
* up to 2·max clips are in memory and max+1 may upload at once, where
  `utils/profile.h:127` calls the limit "Max concurent videos upload"
  (`ClipsBounded` states the bound that holds);
* `processed` is set (upload.h:316) before the last chunk is counted, so an
  earlier chunk that finishes in between sends "done" early (`FinalIsLast`
  allows this one chunk); when the last window is empty or already on the Cloud
  (upload.h:356, 434) and all earlier chunks are reported, "done" is never sent
  (`SilentOnlyWhenEmpty`); an increment lost in `on_finished` (upload.h:170)
  leaves a request unfinished;
* a period is planned twice (the exceptions of `PlannedOnce`) after a clip of
  more than ten minutes, which the window does not follow and which is uploaded
  although the log says "skipping" (upload.h:302); after finished segmenters
  were purged (upload.h:522); when a segmenter is put before one under way; and
  when `on_finished` on another thread finds that the current request is
  cancelled between the adjustment and the second `__get_current` (upload.h:535):
  the next segmenter gets its turn with a window that was not adjusted.
  `intersects` (upload.h:49) leaves `post` out, so a post-record time longer than
  a step may overlap a later event without their windows being compared;
* `update_delivery_mode` (manager.h:429) moves begin and the start of the window
  to the present and leaves its stop and `pre` alone: the time between begin −
  pre and begin is within the period of the segmenter and never planned
  (`NothingSkipped` starts from the first window, `from`, and not from begin −
  pre);
* an event without an end is finalised by any slice of the Cloud's recordings
  behind its window (upload.h:430); the cancellation of a request that waits
  for its delayed start does not reach its list entry (upload.h:566); a failing
  next page makes `cloud_storage::list` retry for ever (timeline.h:306);
* the limits of snapshots and metadata are tested with > for the waiting files
  and >= for the uploads (manager.cc:761, 837), before the file is there, so up
  to 2·max plus one for each notifying thread are in memory, where
  `utils/profile.h:134` says "Max concurent snapshots upload"; the counters are
  changed on two threads without a lock, so the limit itself can drift;
* the files of an event stay for ever when it is hidden (manager.cc:1074), when
  the answer refuses or brings an URL for only one of two files
  (command-handler.cc:309: the answer has cancelled the timeout for both), or
  when the agent is stopped first; the comment at manager.cc:1089 promises that
  they are dropped. A snapshot attached by the user is announced and never
  uploaded (`handle_event_snapshot` returns false, manager.cc:826);
* `make_blocked` that times out sets `close_connection_`, which the RECEIVE and
  WRITEABLE callbacks do not test (http.cc:289, 304, 504), so the connection
  the log says is closed goes on while the body flows; a request that times out
  in the queue is sent all the same (http.cc:111); a response cut short after
  its status line counts as its status (http.cc:336);
* a refused url request, too, leaves its clip in `records_` for ever
  (`RecordsAwaited` says exactly which ones stay);
* a memorycard event that carries the card's status itself does not refresh
  the cached `memorycard_info_` (manager.cc:2416), so recording does not
  resume on it — hence the premise of `CardRecords`;
* direct and permanent recording do not start the source, although
  `record_needs_source()` may ask for it (agent/stream.h:99);
* a live sink that stops itself on an error (agent/rtsp-stream.h:55) stays
  counted in `active_sinks_`, so the Cloud's next start succeeds without a sink
  (`SinkCounted` states the count with this one exception);
* `set_eos` notifies without the mutex (base_streamer.h:255), so a sink thread
  about to sleep misses the end of its source and sleeps until it is stopped;
  an end of stream for a sink that has been relinked meanwhile ends the new
  one (base_streamer.h:962);
* that error callback stops the sink on the sink's or the source's thread,
  while manager.cc:1722 wants streams started and stopped "in the rx thread
  only"; `pushFrame` (base_streamer.h:848) takes one mutex twice; a dropping
  queue can pass a video frame whose key frame was dropped;
* with two streams, a start of the second succeeds without a sink while the
  first has one (manager.cc:1800);
* by_event stays set in `recording_status_` when the source fails to start in
  the by_event start, because the later stop returns early (manager.cc:1995),
  and when the restart that `on_set_stream_config` posts runs after the stop;
  `ByEventAsked` names both exceptions;
* a stateless event in SDM_STREAM mode starts a stream that no timer stops;
  `update_delivery_mode` from SDM_STREAM cancels the stop it has just scheduled
  (manager.h:424–437);
* `"server_by_event"` is mapped to SR_RECORD_BY_EVENT (caps.h:72), so
  SR_SERVER_BY_EVENT cannot be received; `on_set_stream_config` combines its
  results with `|=` and always reports success;
  `handle_cam_set_current_wifi` (command-handler.cc:668) misses a `return`;
  `_flush_command_acks` (command-handler.cc:818) is unused and its loop does
  not advance.

## 5. Proofs

The `_proofs` modules are checked by TLAPS for every value of the constants
(any number of wsis, timers, requests, chunks, segmenters, streams, threads,
events, starts; any limit). `TypeCorrect`, `Spec => []TypeOK`, is proved in all
seven of them, and every safety property of a passing run is stated by a theorem.

**BasicLemmas** holds what several components need: the least-number principle,
the last element of a finite set of numbers, and folds over sets and lists. The
library's induction theorems take an operator and cannot be instantiated by the
provers here, so a fold is taken as a function over the sets of places of the
list, what one turn does is a function too, and "what each turn keeps, the fold
keeps" (`FoldKeeps`) is shown by choosing a least number of turns after which it
fails.

**CloudSession**

* **NeverStuckCorrect**: `Spec => []NeverStuck`, synchronous
  connect failures and restarts included. `NeverStuck` is not inductive: an open
  wsi leads to a new attempt only if its close will be reported, that is while
  `client_wsi_` is set and the service thread is not about to clear it; and
  `reconnect` skips scheduling when the pointer is set, so the pointer must
  imply an attempt ahead. The invariant is `StuckInv == ProgressInv /\ TimerInv
  /\ CallbackInv`: progress with that stronger notion, what a non-null
  `reconnect_timer_` promises, and what the error callback in progress is about:
  a wsi that still connects, or one that lws has given up inside the call
  (unknown host) and whose error is about to be reported again.
* **OrderlyCorrect** and from it **NotificationPrecedesReconnectCorrect**,
  **OneAttemptCorrect**, **RegisteredIsLiveCorrect**, **GaveUpIsQuietCorrect**
  and the action property **RedirectOnlyOnByeCorrect**. All five hold of an
  *orderly* life: no connect has failed at once and `start` was called once;
  each of them carries that premise, because both events leave a second timer
  or a second close notification behind. The argument is a token: the right to
  take the next step of the connection is a timer, its call, a request, a wsi,
  an error callback or a queued notification, and there is at most one of them
  (`Exclusive`, `Single`). Each step passes the token on; the rest of
  `OrderlyInv` says who waits for it (`CommandInv`: commands and `registered_`
  only with an open connection or its loss queued behind them; `RedirectInv`:
  the address chosen by `on_closed` stays until the attempt; `QuietInv`: after
  AUTH_FAILURE there is no token).

**DirectUpload**

* **UploadInvCorrect**, and from it **SlotsMatchCorrect**,
  **NothingLostCorrect**, **ReportsCountedCorrect** and
  **RecordsAwaitedCorrect**. None of them is inductive alone: which slot is
  given back, or that a chunk is not forgotten, needs that the chunk is not at
  two places. `PlacesInv` names the seven places a chunk passes (planning,
  enqueuing, queued, exporting, awaited, rx, uploading) and says that it is at
  one of them at most; a chunk may be at none, when the answer without a URL
  took it out of `acks_`, and then it is in `unserved`. `ControlInv` says what
  the sync thread holds, `HandInv` what the rx and http threads hold inside a
  call (a clip, a slot, a second answer), `CallsInv` how often `on_finished` was
  called for a chunk at each place. **SlotsMatchCorrect** does not claim that
  the counter is exact: unless an increment met a decrement (`torn`), it differs
  from the slots taken by the number of second answers, modulo the width of the
  `size_t`.
* **ClipsBoundedCorrect**: `Spec => []ClipsBounded`, with the same two
  exceptions: 2·MaxVideo, one more for each second answer, nothing when the
  counter lost an update. The loop tests the counter first ("room") and the
  waiting clips last ("export"), and clips move from the second to the first
  meanwhile; `ClipsInv` says what each passed test still guarantees at its step.
  A chunk whose timeout met its answer is not counted (`timedOut`).
* **FinalStatusStaysCorrect**: making up a final status closes the ticket in the
  same step, and no status is made up without a ticket (`FinalInv`). What may
  still be sent is what another thread made up before.

**Streamer**

* **MuxerValidCorrect**: `Spec => []MuxerValid` for any queue length
  and any number of frames and starts. The property speaks of one moment,
  `process`; the invariant `ThreadInside` of the whole life of the sink thread:
  it exists only while the sink counts as started and its output is open, the
  output is open while the control thread links and starts the sink, and no
  thread is left once it frees the output. No type invariant is needed.
* **TypeCorrect** includes the bound of the queue: whatever is
  dropped to make room, a push leaves at most `MaxItems` in it. What DROP_FRONT
  drops is a prefix up to the last of some positions, so the lemma needs that
  such a last position exists.
* **NoFrameLostCorrect**: the frames between the threads form a run: from the
  one last handed to `process`, through the queue, to the one the source holds
  or will pull next, the numbers increase, and without a gap when the sink may
  not drop (`Flow`, from `linkSink` to the next `flush`). A push appends at the
  upper end, `DROP_FRONT` and `pop` take at the lower one.

**HttpClient**

* **AnswersInOrderCorrect**: `Spec => AnswersInOrder`, that is, every step of
  the client is a step of `Completion` or changes nothing there. The invariant
  `Inv`: a request that is not over is unanswered, the queue holds each request
  once and only such requests (but for the first one while its caller is being
  notified or it is to be answered again), the one to be answered again was
  answered once (`AgainInv`), and once the context is destroyed nobody empties
  the queue.
* **StatusFinalCorrect**: `Spec => StatusFinal`, with `OverInv`: a
  blocking caller that saw `close_connection_` without having given up sees a
  request that is past its status line, and no later callback touches it, but
  for the failure −1 of an unknown host that becomes −2 (`ReplyInv`: such a
  request never had a reply's status to lose).

**EventFiles**

* **FilesBoundedCorrect**, **FilesAwaitedCorrect**:
  `Spec => []FilesBounded` and `Spec => []FilesAwaited`, from one invariant
  `IInv`. The bound is not inductive because the test and the insertion are two
  steps: `BoundInv` counts each thread that passed the test as if its file were
  there, and then the test at its own step leaves room for all threads. That a
  counter moves with the uploads, but for the second answers that `again` counts
  and modulo its width, needs that a file is in one place (`PlaceInv`). A counter
  that lost an update bounds nothing, which is the exception `torn`.
  Nothing is forgotten because an event still in `notify_event` belongs to its
  thread alone (`UserInv`, with fresh msgids by `IdInv`), and because the files
  of an answer being handled have an URL left for them (`RxInv`), which at the
  last URL of the answer says that there are none.

**StreamControl**

* **RecordingWantedCorrect** and **RecordEventClosedCorrect** for any number of
  streams and events; **SinkCountedCorrect**, **SinkFedCorrect** and
  **ByEventAskedCorrect** for one stream. With several streams these three are
  false of the code, whose `active_sinks_` is one counter for all of them
  (section 4), so the hypothesis `Stream = {DefaultStream}` is theirs and no
  weakening of the model. The handlers call each other, so the proof goes bottom
  up: which fields each operator changes, taken in groups; what a handler that
  starts something, stops something or ends an event stream keeps (`StartKeeps`,
  `StopKeeps`, `EndKeeps`, the last by induction over the event states it
  visits); then one lemma for each action of the rx thread, and one for each
  step of the others between two of its steps (`StepInv` is what any step
  establishes). `Inv` adds that whatever the device records is known to be
  started (`RecAt`) — or withdrawing the last reason would not stop it , except
  for the streams whose recording another thread changed under a report or a
  start (`overtaken`), and that a sink that stopped itself and a running one
  exclude each other (`SinkOK`). The exception grows only in a step of such a
  caller that finds the reason withdrawn or its report out of date; in a life
  without one `RecordingWanted` is the plain implication. `RecordEventClosed` is
  an action property: as a statement about states it is false, since a direct
  upload recording that starts while an event streams keeps the record event
  open after the streaming has ended.

**SegmentedUploader**

* **SquashExactCorrect**: for any finite set of periods, however they overlap,
  touch or nest, the merged list covers the same times and has gaps between its
  periods. By `FoldKeeps`: after k turns this is true of the first k periods in
  the order of their begins (`SquashTurn`).
* **SilentOnlyWhenEmptyCorrect**, with nothing but `Types` (`TypeOK`, finite
  sets, and that a segmenter in use was asked for). The
  two folds over lists that move a window need only be shown to return a window;
  then `LoopFacts` sums up the three steps of the loop: they leave begin, ticket
  and counters of a segmenter, take back no flag, and mark it processed only
  with an answer, a chunk to plan or an empty last window.
* **CancelStopsCorrect**: a cancelled status implies the flag `canceled`
  (`CancelInv`), which only a new segmenter resets, and a new one has no status
  (`BlankInv`); `plan_chunk` tests the flag.
* **FinalIsLastCorrect**. The counters are plain integers written by several
  threads, so `planned = done + failed` does not say by itself that all chunks
  ended. `CountInv` says there are D and F, the chunks that really ended well
  and badly, with D + F + waiting + reporting ≤ planned, and that the counters
  and every value a running `on_finished` has read are at most D and F: a
  lost increment can delay the final status but not hasten it. When the
  counters reach `planned`, only the chunk that is cut and not yet counted can
  be under way (`OverInv`), and `__segment_step` cuts no more for a processed
  segmenter. The members of a list that satisfy a condition are taken by a
  recursive function, `Only`, because the provers have no definition of
  `SelectSeq`.
* **NothingSkippedCorrect**. The property speaks of a segmenter that is over,
  the invariant of one that runs: everything behind its window is missing, in
  the Cloud, planned, or in the clip just cut (`BehindInv`). It says so from the
  latest first window on only: when the window of c jumps to that of a processed
  segmenter o, what lies behind it is what o wanted, and o may have wanted less.
  That is the exception "another began later" of the property, and the run
  `segments_skipped` shows it. Two more facts: a processed
  segmenter has its window past its end (`PastInv`), which stays true only
  because an end is set once (`EndInv`), and the Cloud's list, by which
  `__check_clip_segment` moves the window, holds nothing but what was stored
  or planned (`CloudInv`). What the two folds do to a window comes from
  `FoldKeeps` again (`ShiftedFacts`, `TrimmedFacts`).
* **PlannedOnceCorrect**. Two chunks can only meet when one of them is new, and
  the window of its own segmenter is past every older chunk of it (`ChunkInv`).
  For two segmenters the argument is one of turns. Segmenters get their turn in
  the order of the list, which is that of begin (`SortedInv`); all before one
  that has a chunk are over or were put there late, which `overtook` notes
  (`OrderInv`). So when c gets a chunk, any other o that meets it and has a
  chunk is over, and its window is past that chunk; and c's window is not
  before o's, because `adjust` has just moved it (`TurnInv`). This last step is
  what a cancellation by another thread can break, noted in `unadjusted`.
  `from`, `planned`, `missing`, `overtook`, `unadjusted`, `cutOpen` and
  `endedEmpty` are observations: no guard reads them.

Assumptions are those named in the modules: `SessionAssumption`,
`UploadAssumption`, `HttpAssumption`, `FilesAssumption`, `StreamerAssumption`,
`StreamAssumption` and `SegmentAssumption`: types and distinctness of the
constants, finite sets of chunks, threads, segmenters and events, limits, steps
and queue lengths of at least 1. MuxerValidCorrect uses none.

Only model-checked: liveness, which is out of the prover's reach. That the runs
and the proofs speak of the same definitions follows from the configurations,
which replace none.

## 6. Not modelled, and the plan

Left out for good: codecs and media wrappers, TLS/SSH/HTTP wire handling, JSON
field lists, URL and token helpers, logging, vendored code and examples. Most
of the repository's lines are of this kind: patched copies of libwebsockets
(twice), FFmpeg's libavformat and librtmp under `src/subprojects`, loguru, and
tables of protocol fields. The models cover the part in which threads, timers
and messages meet; a large share of the lines is not to be had without
modelling the vendored libraries, whose behaviour enters only as the free
choices named above.

Next, in this order:

1. `Tunnels`: key pairs, the table of tunnels and its collector thread against
   the delete command.
2. File recordings: the list of files of `recroding_stream`, retention and an
   export that is running while its file is removed.
3. Events configuration: merge of the user's, the event streams' and the
   Cloud's configuration, and the periodic events it arms.
4. Streamer: the error callback on the media threads with a second sink
   thread, PUSH mode, several sinks of one source, and the notification of
   `set_eos` that is lost when no one stops the sink.
5. StreamControl with two streams and `manager::stop`.

Proofs to add: two streams in StreamControl, for what still holds of them.
