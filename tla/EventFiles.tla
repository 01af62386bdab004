----------------------------- MODULE EventFiles -----------------------------
(***************************************************************************)
(* Snapshots and metadata files of events (agent/manager.cc). An event     *)
(* leaves its files in snapshots_ and meta_files_ under the msgid of its   *)
(* cam_event; the Cloud answers with the URLs of the files, each of which  *)
(* is then uploaded over HTTP, or the files are dropped after 20 seconds.  *)
(*                                                                         *)
(* The threads share the two maps, the table of awaited answers and the    *)
(* counters of running uploads, without a lock:                            *)
(*   user  any number of threads inside notify_event();                    *)
(*   svc   the websocket service thread: answer timeouts;                  *)
(*   rx    the transport-rx thread: answers of the Cloud;                  *)
(*   http  responses of the storage.                                       *)
(* The counters are plain size_t, so an increment is a load and a store. A *)
(* storage whose name cannot be resolved answers an upload twice (see      *)
(* HttpClient and Completion). An event is named by its msgid.             *)
(***************************************************************************)
EXTENDS Integers, FiniteSets

CONSTANTS Thread,    \* the threads that call notify_event()
          MaxFiles,  \* max_concurent_snapshot_uploads, max_concurent_file_meta_uploads
          MaxEvent,  \* bound: cam_event commands
          Wrap,      \* the values of size_t, more than there are msgids
          Worlds     \* what the events, the Cloud and the user do

Event == 1..MaxEvent
None  == 0      \* no event

Kind == {"snapshot", "meta"}

\* The URLs an answer brings, in its main part and in extra, in any order:
\* those with a category and how many without.
Urls == [cats : SUBSET Kind, any : Nat]

\* A world: the threads that notify, how many events there are, what they may
\* carry and whether they are hidden from the Cloud; the URLs an answer may
\* bring; whether the connection is lost, the storage's name may not be
\* resolved, and how often stop() is called.
ASSUME FilesAssumption ==
    /\ IsFiniteSet(Thread)
    /\ MaxFiles \in [Kind -> Nat \ {0}]
    /\ MaxEvent \in Nat /\ Wrap \in Nat /\ MaxEvent + 1 < Wrap
    /\ \A w \in Worlds :
          /\ DOMAIN w = {"threads", "events", "files", "hidden", "answers", "outages",
                         "unresolved", "MaxStops"}
          /\ w.threads \subseteq Thread
          /\ w.events \in 0..MaxEvent /\ w.files \subseteq SUBSET Kind
          /\ w.hidden \subseteq BOOLEAN /\ w.answers \subseteq Urls
          /\ w.outages \in BOOLEAN /\ w.unresolved \subseteq BOOLEAN
          /\ w.MaxStops \in Nat

VARIABLES
    world,
    user,        \* where each thread is in notify_event()
    stored,      \* snapshots_ and meta_files_
    acks_,       \* events whose answer is awaited, with a pending timeout
    expiring,    \* the timeout callback under way and what it has yet to erase
    asked,       \* events the Cloud has received and not answered
    rx,          \* the answer the rx thread is handling
    uploading,   \* snapshots_uploading, file_meta_uploading
    uploads,     \* HTTP uploads in progress
    http,        \* the response being handled
    running,     \* between manager::start() and stop()
    registered_,
    stops,
    __id,        \* msgid of the last command
    kept,        \* observation: files nothing will fetch or drop
    torn,        \* observation: kinds whose counter lost an update
    again        \* observation: second answers to uploads of each kind

files    == <<stored, kept>>
awaiting == <<acks_, asked>>
counters == <<uploading, torn, again>>
session  == <<world, running, registered_, stops>>
vars == <<user, files, awaiting, expiring, rx, counters, uploads, http, session, __id>>

UserIdle == [at |-> "idle", e |-> None, todo |-> {}, need |-> {}, hidden |-> FALSE]
RxIdle   == [at |-> "idle", e |-> None, cats |-> {}, any |-> 0, k |-> "meta", reg |-> 0]
HttpIdle == [at |-> "idle", e |-> None, k |-> "meta", reg |-> 0, twice |-> FALSE]
NoExpiry == [e |-> None, todo |-> {}]

\* Every variable has its type.
TypeOK ==
    /\ user \in [Thread -> [at : {"idle", "test", "store"}, e : Event \cup {None},
                            todo : SUBSET Kind, need : SUBSET Kind, hidden : BOOLEAN]]
    /\ stored \in [Kind -> SUBSET Event]
    /\ acks_ \subseteq [e : Event, need : SUBSET Kind]
    /\ asked \subseteq Event
    /\ expiring \in [e : Event \cup {None}, todo : SUBSET Kind]
    /\ rx \in [at : {"idle", "url", "count", "put"}, e : Event \cup {None},
               cats : SUBSET Kind, any : Nat, k : Kind, reg : 0..Wrap - 1]
    /\ uploading \in [Kind -> 0..Wrap - 1]
    /\ uploads \subseteq Event \X Kind
    /\ http \in [at : {"idle", "count", "again", "recount"}, e : Event \cup {None},
                 k : Kind, reg : 0..Wrap - 1, twice : BOOLEAN]
    /\ running \in BOOLEAN /\ registered_ \in BOOLEAN
    /\ world \in Worlds
    /\ stops \in Nat
    /\ __id \in 0..MaxEvent
    /\ kept \subseteq Event \X Kind
    /\ torn \subseteq Kind /\ again \in [Kind -> Nat]

Init ==
    /\ user = [t \in Thread |-> UserIdle]
    /\ stored = [k \in Kind |-> {}]
    /\ acks_ = {} /\ asked = {}
    /\ expiring = NoExpiry
    /\ rx = RxIdle
    /\ uploading = [k \in Kind |-> 0] /\ uploads = {} /\ http = HttpIdle
    /\ world \in Worlds
    /\ running = TRUE /\ registered_ = TRUE /\ stops = 0
    /\ __id = 0 /\ kept = {} /\ torn = {} /\ again = [k \in Kind |-> 0]
-----------------------------------------------------------------------------
(***************************************************************************)
(* The user's threads: notify_event().                                     *)
(***************************************************************************)

\* notify_event() of an event that carries the files in carries, up to the
\* first file. internal_hidden events are not sent to the Cloud.
notify_event(t, carries, hidden) ==
    /\ user[t] = UserIdle
    /\ registered_
    /\ __id < world.events
    /\ __id' = __id + 1
    /\ user' = [user EXCEPT ![t] = [at |-> "test", e |-> __id + 1, todo |-> carries,
                                    need |-> {}, hidden |-> hidden]]
    /\ UNCHANGED <<files, awaiting, expiring, rx, counters, uploads, http, session>>

\* Faulty variant: files waiting for their URL are not counted.
RoomForUploads(k) == uploading[k] < MaxFiles[k]

\* The first test of handle_event_snapshot() and handle_event_meta_file()
Room(k) == uploading[k] < MaxFiles[k] /\ Cardinality(stored[k]) <= MaxFiles[k]

\* The snapshot comes before the metadata.
First(kinds) == IF "snapshot" \in kinds THEN "snapshot" ELSE "meta"

\* handle_event_snapshot() or handle_event_meta_file() for the next file: the
\* test, and when there is no room the event goes on without the file.
TestRoom(t) ==
    /\ user[t].at = "test" /\ user[t].todo # {}
    /\ user' = IF Room(First(user[t].todo))
               THEN [user EXCEPT ![t].at = "store"]
               ELSE [user EXCEPT ![t].todo = @ \ {First(@)}]
    /\ UNCHANGED <<files, awaiting, expiring, rx, counters, uploads, http, session, __id>>

\* The file is there: it goes into its map.
Store(t) ==
    LET e == user[t].e
        k == First(user[t].todo)
    IN  /\ user[t].at = "store"
        /\ stored' = [stored EXCEPT ![k] = @ \cup {e}]
        /\ user' = [user EXCEPT ![t].at = "test", ![t].todo = @ \ {k},
                                ![t].need = @ \cup {k}]
        /\ UNCHANGED <<kept, awaiting, expiring, rx, counters, uploads, http, session,
                       __id>>

\* The stream has no snapshot to give.
CaptureFails(t) ==
    /\ user[t].at = "store" /\ "snapshot" \in user[t].todo
    /\ user' = [user EXCEPT ![t].at = "test", ![t].todo = @ \ {"snapshot"}]
    /\ UNCHANGED <<files, awaiting, expiring, rx, counters, uploads, http, session, __id>>

\* The rest of notify_event(). A hidden event returns here and keeps its
\* files; one without files is sent and not waited for; the others arm the
\* timeout, for which a stopped transport has no timer.
Send(t) ==
    LET e == user[t].e
        need == user[t].need
    IN  /\ user[t].at = "test" /\ user[t].todo = {}
        /\ user' = [user EXCEPT ![t] = UserIdle]
        /\ \/ /\ ~user[t].hidden /\ need # {}
              /\ acks_' = IF running THEN acks_ \cup {[e |-> e, need |-> need]} ELSE acks_
              /\ kept' = IF running THEN kept ELSE kept \cup ({e} \X need)
              /\ asked' = IF registered_ THEN asked \cup {e} ELSE asked
           \/ /\ user[t].hidden \/ need = {}
              /\ kept' = kept \cup ({e} \X need)
              /\ UNCHANGED awaiting
        /\ UNCHANGED <<stored, expiring, rx, counters, uploads, http, session, __id>>
-----------------------------------------------------------------------------
(***************************************************************************)
(* The service thread of the control connection.                           *)
(***************************************************************************)

\* Faulty variant: only the snapshot is dropped.
AckTimeoutOfSnapshot(a) ==
    /\ expiring = NoExpiry
    /\ acks_' = acks_ \ {a}
    /\ expiring' = [e |-> a.e, todo |-> {"snapshot"}]
    /\ UNCHANGED <<user, files, asked, rx, counters, uploads, http, session, __id>>

\* The timeout callback of an event starts. Its entry of the table stays, but
\* a later answer finds no timer to cancel and nothing else to do in it.
AckTimeout(a) ==
    /\ expiring = NoExpiry
    /\ acks_' = acks_ \ {a}
    /\ expiring' = [e |-> a.e, todo |-> a.need]
    /\ UNCHANGED <<user, files, asked, rx, counters, uploads, http, session, __id>>

\* It erases the snapshot, then the metadata.
DropFile(k) ==
    /\ k \in expiring.todo /\ k = First(expiring.todo)
    /\ stored' = [stored EXCEPT ![k] = @ \ {expiring.e}]
    /\ expiring' = IF expiring.todo = {k} THEN NoExpiry
                   ELSE [expiring EXCEPT !.todo = @ \ {k}]
    /\ UNCHANGED <<user, kept, awaiting, rx, counters, uploads, http, session, __id>>

\* The connection is lost with what the Cloud had still to answer, and won back.
Disconnected ==
    /\ world.outages /\ registered_
    /\ registered_' = FALSE
    /\ asked' = {}
    /\ UNCHANGED <<user, files, acks_, expiring, rx, counters, uploads, http,
                   world, running, stops, __id>>

Registered ==
    /\ running /\ ~registered_
    /\ registered_' = TRUE
    /\ UNCHANGED <<user, files, awaiting, expiring, rx, counters, uploads, http, world,
                   running, stops, __id>>

\* manager::stop(): the threads of the transport are joined and its timers
\* cancelled, the maps and the answer table stay.
stop ==
    /\ running /\ stops < world.MaxStops
    /\ rx = RxIdle /\ expiring = NoExpiry
    /\ running' = FALSE /\ registered_' = FALSE /\ stops' = stops + 1
    /\ acks_' = {} /\ asked' = {}
    /\ kept' = kept \cup UNION {{a.e} \X a.need : a \in acks_}
    /\ UNCHANGED <<user, stored, expiring, rx, counters, uploads, http, world, __id>>

start ==
    /\ ~running
    /\ running' = TRUE
    /\ UNCHANGED <<user, files, awaiting, expiring, rx, counters, uploads, http, world,
                   registered_, stops, __id>>
-----------------------------------------------------------------------------
(***************************************************************************)
(* The rx thread.                                                          *)
(***************************************************************************)

\* The files of e an answer will fetch, whatever the order of its URLs. One
\* without a category is for the snapshot when there is one.
Granted(e, urls) ==
    urls.cats \cup {k \in Kind :
                       \/ urls.any > 1
                       \/ urls.any = 1 /\ (k = "meta" => e \notin stored["snapshot"])}

\* What is left of an answer to e, or the next message.
Handling(e, cats, any) ==
    IF cats = {} /\ any = 0 THEN RxIdle
    ELSE [at |-> "url", e |-> e, cats |-> cats, any |-> any, k |-> "meta", reg |-> 0]

\* The answer to e: _handle_command_ack() cancels the timeout for both files,
\* then each URL with status "OK" is handled; none, when the status of the
\* command itself is not "OK".
direct_upload_url(e, urls) ==
    /\ rx = RxIdle
    /\ e \in asked
    /\ asked' = asked \ {e}
    /\ acks_' = {a \in acks_ : a.e # e}
    /\ rx' = Handling(e, urls.cats, urls.any)
    /\ kept' = kept \cup ({e} \X (Kind \ Granted(e, urls)))
    /\ UNCHANGED <<user, stored, expiring, counters, uploads, http, session, __id>>

\* on_direct_upload_url() for an URL that fits the file of kind k, up to the
\* increment of the counter, which it loads,
FileFound(k, cats, any) ==
    /\ rx.at = "url"
    /\ rx.e \in stored[k]
    /\ rx' = [rx EXCEPT !.at = "count", !.k = k, !.reg = uploading[k],
                        !.cats = cats, !.any = any]
    /\ UNCHANGED <<user, files, awaiting, expiring, counters, uploads, http, session, __id>>

\* and for an URL without a file, which is the end of it.
NothingFound(cats, any) ==
    /\ rx.at = "url"
    /\ rx' = Handling(rx.e, cats, any)
    /\ UNCHANGED <<user, files, awaiting, expiring, counters, uploads, http, session, __id>>

Categorised(k) ==
    /\ k \in rx.cats
    /\ \/ FileFound(k, rx.cats \ {k}, rx.any)
       \/ rx.e \notin stored[k] /\ NothingFound(rx.cats \ {k}, rx.any)

Uncategorised ==
    /\ rx.any > 0
    /\ \/ FileFound("snapshot", rx.cats, rx.any - 1)
       \/ rx.e \notin stored["snapshot"] /\ FileFound("meta", rx.cats, rx.any - 1)
       \/ rx.e \notin stored["snapshot"] \cup stored["meta"]
             /\ NothingFound(rx.cats, rx.any - 1)

\* One more and one less, as size_t has it.
Up(n)   == IF n = Wrap - 1 THEN 0 ELSE n + 1
Down(n) == IF n = 0 THEN Wrap - 1 ELSE n - 1

\* The counter of kind k, loaded as reg, is written.
Count(k, reg, value) ==
    /\ uploading' = [uploading EXCEPT ![k] = value]
    /\ torn' = IF uploading[k] = reg THEN torn ELSE torn \cup {k}

CountUpload ==
    /\ rx.at = "count"
    /\ Count(rx.k, rx.reg, Up(rx.reg))
    /\ rx' = [rx EXCEPT !.at = "put"]
    /\ UNCHANGED <<again, user, files, awaiting, expiring, uploads, http, session, __id>>

\* The rest: the file leaves its map and the request is made.
Make ==
    /\ rx.at = "put"
    /\ stored' = [stored EXCEPT ![rx.k] = @ \ {rx.e}]
    /\ uploads' = uploads \cup {<<rx.e, rx.k>>}
    /\ rx' = Handling(rx.e, rx.cats, rx.any)
    /\ UNCHANGED <<user, kept, awaiting, expiring, counters, http, session, __id>>
-----------------------------------------------------------------------------
(***************************************************************************)
(* The http thread: the response callback.                                 *)
(***************************************************************************)

\* A failed upload may be answered twice.
Response(e, k, twice) ==
    /\ http = HttpIdle
    /\ <<e, k>> \in uploads
    /\ http' = [at |-> "count", e |-> e, k |-> k, reg |-> uploading[k], twice |-> twice]
    /\ UNCHANGED <<user, files, awaiting, expiring, rx, counters, uploads, session, __id>>

\* It gives the slot back, whether the upload succeeded or not.
Uncount ==
    /\ http.at = "count"
    /\ Count(http.k, http.reg, Down(http.reg))
    /\ uploads' = uploads \ {<<http.e, http.k>>}
    /\ http' = IF http.twice THEN [http EXCEPT !.at = "again"] ELSE HttpIdle
    /\ UNCHANGED <<again, user, files, awaiting, expiring, rx, session, __id>>

\* The second answer gives back a slot that the upload no longer has.
ResponseAgain ==
    /\ http.at = "again"
    /\ http' = [http EXCEPT !.at = "recount", !.reg = uploading[http.k]]
    /\ UNCHANGED <<user, files, awaiting, expiring, rx, counters, uploads, session, __id>>

UncountAgain ==
    /\ http.at = "recount"
    /\ Count(http.k, http.reg, Down(http.reg))
    /\ again' = [again EXCEPT ![http.k] = @ + 1]
    /\ http' = HttpIdle
    /\ UNCHANGED <<user, files, awaiting, expiring, rx, uploads, session, __id>>
-----------------------------------------------------------------------------
UserNext ==
    \E t \in world.threads :
        \/ \E carries \in world.files, hidden \in world.hidden :
              notify_event(t, carries, hidden)
        \/ TestRoom(t) \/ Store(t) \/ CaptureFails(t) \/ Send(t)

SvcNext ==
    \/ \E a \in acks_ : AckTimeout(a)
    \/ \E k \in Kind : DropFile(k)
    \/ Disconnected \/ Registered \/ stop \/ start

RxNext ==
    \/ \E e \in Event, urls \in world.answers : direct_upload_url(e, urls)
    \/ \E k \in Kind : Categorised(k)
    \/ Uncategorised \/ CountUpload \/ Make

HttpNext ==
    \/ \E e \in Event, k \in Kind, twice \in world.unresolved : Response(e, k, twice)
    \/ Uncount \/ ResponseAgain \/ UncountAgain

Next == UserNext \/ SvcNext \/ RxNext \/ HttpNext

Spec == Init /\ [][Next]_vars
-----------------------------------------------------------------------------
(***************************************************************************)
(* Properties.                                                             *)
(***************************************************************************)

\* The files of a kind in memory, the one on_direct_upload_url() is moving
\* included.
Moving(k) == {e \in {rx.e} : rx.at \in {"count", "put"} /\ rx.k = k}
Uploads(k) == {e \in Event : <<e, k>> \in uploads}
Held(k) == stored[k] \cup Uploads(k) \cup Moving(k)

Running(k) ==
    Cardinality(Uploads(k)) + (IF rx.at = "put" /\ rx.k = k THEN 1 ELSE 0)

\* Unless an increment on the rx thread overlapped a decrement on the http
\* thread, snapshots_uploading and file_meta_uploading differ from the running
\* uploads by the second answers alone, modulo the width of the counter, and
\* the files in memory are bounded: the limit is tested with > for the waiting
\* ones, with >= for the uploads, before the file is there, and the timeout may
\* erase the entry of a file that is being moved, so they reach twice the limit
\* and one for each thread in notify_event(), and one more for each second
\* answer, which gave back a slot that nobody held.
SlotsMatch(k) ==
    \E q \in 0..again[k] : Running(k) + q * Wrap = uploading[k] + again[k]
FilesBounded ==
    \A k \in Kind \ torn :
        /\ SlotsMatch(k)
        /\ Cardinality(Held(k)) <= 2 * MaxFiles[k] + Cardinality(world.threads) + again[k]

\* A file waits in its map only while a thread of notify_event() has yet to
\* send its event, its answer is awaited, timing out or being handled; or for
\* ever when its event was hidden, the answer had no URL for it, or the agent
\* was stopped meanwhile.
FilesAwaited ==
    \A k \in Kind : \A e \in stored[k] :
        \/ <<e, k>> \in kept
        \/ \E a \in acks_ : a.e = e /\ k \in a.need
        \/ expiring.e = e /\ k \in expiring.todo
        \/ e = rx.e
        \/ \E t \in Thread : user[t].e = e
=============================================================================
