----------------------------- MODULE HttpClient -----------------------------
(***************************************************************************)
(* The HTTP client (net/http.cc, net/http.h) over libwebsockets: requests   *)
(* are queued by any thread with make() or, waiting for the end,           *)
(* make_blocked(), and carried out by callbacks on one service thread.     *)
(*                                                                         *)
(* Two kinds of lock are taken in both orders: make_blocked() holds the    *)
(* request's lock_ while make() takes requests_q_lock_; the service thread *)
(* holds requests_q_lock_ while notify_finish() takes the lock_ of a       *)
(* request whose connection could not be created.                          *)
(*                                                                         *)
(* Of libwebsockets (external/libwebsockets): a connection it returned     *)
(* ends with one CLIENT_CONNECTION_ERROR or one CLOSED_CLIENT_HTTP         *)
(* callback. lws_client_connect_via_info() returns NULL without a callback *)
(* when a connection cannot be created, but for a name that cannot be      *)
(* resolved it makes a CLIENT_CONNECTION_ERROR callback and then returns   *)
(* NULL (lib/core-net/client/connect2.c 352-362): the request is answered  *)
(* from the callback and again by the loop that started it. Bodies and     *)
(* headers are left out. A request is made once, as all callers do.        *)
(***************************************************************************)
EXTENDS Naturals, Sequences

CONSTANTS Request,
          Blocking,  \* the requests made with make_blocked()
          None       \* no request

ASSUME HttpAssumption == Blocking \subseteq Request /\ None \notin Request

VARIABLES
    requests_q_,
    wake,              \* lws_cancel_service() was called and not yet serviced
    stage,             \* where each request is
    close_connection_, status_,
    answers,           \* calls of response_ of each request
    caller,            \* where the thread that makes each request is
    pc,                \* where the service thread is
    cur,               \* the request its callback is about to notify
    phase              \* "running", "joining", "destroying", "stopped"

request == <<stage, close_connection_, status_, answers>>
service == <<pc, cur>>
vars == <<requests_q_, wake, request, caller, service, phase>>

Stage  == {"none", "queued", "connecting", "refused", "open", "closing", "gone"}
Status == {"none", "unsent", "replied"}    \* -1, -2 and the server's status
Caller == {"idle", "locked", "pushed", "waiting", "true", "false"}

\* The service thread empties the queue: it takes the next request, notifies
\* the caller of one whose name was not resolved, comes back to it after
\* _do_request(), or notifies the caller of one that was not sent.
Draining == {"drain", "unresolved_notify", "unresolved", "drain_notify"}

\* Every variable has its type.
FlagsOK == wake \in BOOLEAN /\ close_connection_ \in [Request -> BOOLEAN]
RequestsOK ==
    /\ requests_q_ \in Seq(Request)
    /\ stage \in [Request -> Stage]
    /\ status_ \in [Request -> Status]
    /\ answers \in [Request -> Nat]
    /\ caller \in [Request -> Caller]
ServiceOK ==
    /\ pc \in {"idle", "notify"} \cup Draining
    /\ cur \in Request \cup {None}
    /\ phase \in {"running", "joining", "destroying", "stopped"}
TypeOK == FlagsOK /\ RequestsOK /\ ServiceOK

Init ==
    /\ requests_q_ = <<>>
    /\ wake = FALSE
    /\ stage = [r \in Request |-> "none"]
    /\ close_connection_ = [r \in Request |-> FALSE]
    /\ status_ = [r \in Request |-> "none"]
    /\ answers = [r \in Request |-> 0]
    /\ caller = [r \in Request |-> "idle"]
    /\ pc = "idle"
    /\ cur = None
    /\ phase = "running"
-----------------------------------------------------------------------------
(***************************************************************************)
(* The callers.                                                            *)
(***************************************************************************)

\* lock_ of r, held by make_blocked() until it waits.
Locked(r) == r \in Blocking /\ caller[r] \in {"locked", "pushed"}

\* requests_q_lock_, held by the service thread while it empties the queue.
QueueLocked == pc \in Draining

make_blocked(r) ==
    /\ r \in Blocking
    /\ caller[r] = "idle"
    /\ caller' = [caller EXCEPT ![r] = "locked"]
    /\ UNCHANGED <<requests_q_, wake, request, service, phase>>

\* make(): the request is queued ...
make(r) ==
    /\ caller[r] = IF r \in Blocking THEN "locked" ELSE "idle"
    /\ ~QueueLocked
    /\ requests_q_' = Append(requests_q_, r)
    /\ stage' = [stage EXCEPT ![r] = "queued"]
    /\ caller' = [caller EXCEPT ![r] = "pushed"]
    /\ UNCHANGED <<wake, close_connection_, status_, answers, service, phase>>

\* Faulty: a service thread that is at work is not woken.
WakeServiceIfIdle(r) ==
    /\ caller[r] = "pushed"
    /\ wake' = (wake \/ pc = "idle")
    /\ caller' = [caller EXCEPT ![r] = IF r \in Blocking THEN "waiting" ELSE "true"]
    /\ UNCHANGED <<requests_q_, request, service, phase>>

\* ... and the service thread is woken. make() returns true; make_blocked()
\* waits, which releases lock_.
WakeService(r) ==
    /\ caller[r] = "pushed"
    /\ wake' = (wake \/ phase # "stopped")
    /\ caller' = [caller EXCEPT ![r] = IF r \in Blocking THEN "waiting" ELSE "true"]
    /\ UNCHANGED <<requests_q_, request, service, phase>>

\* Faulty: the wait has no predicate and ends with any wakeup.
WaitEndsUnchecked(r) ==
    /\ caller[r] = "waiting"
    /\ caller' = [caller EXCEPT ![r] = "true"]
    /\ UNCHANGED <<requests_q_, wake, request, service, phase>>

WaitEnds(r) ==
    /\ caller[r] = "waiting"
    /\ close_connection_[r]
    /\ caller' = [caller EXCEPT ![r] = "true"]
    /\ UNCHANGED <<requests_q_, wake, request, service, phase>>

\* Faulty: a request that took too long is made again.
TimesOutRetries(r) ==
    /\ caller[r] = "waiting"
    /\ ~close_connection_[r]
    /\ caller' = [caller EXCEPT ![r] = "locked"]
    /\ UNCHANGED <<requests_q_, wake, request, service, phase>>

\* wait_for() gives up after timeout_s_.
TimesOut(r) ==
    /\ caller[r] = "waiting"
    /\ ~close_connection_[r]
    /\ close_connection_' = [close_connection_ EXCEPT ![r] = TRUE]
    /\ caller' = [caller EXCEPT ![r] = "false"]
    /\ UNCHANGED <<requests_q_, wake, stage, status_, answers, service, phase>>
-----------------------------------------------------------------------------
(***************************************************************************)
(* The service thread: lws_callback_(). stop() runs the closing callbacks  *)
(* of what is left itself, after it has joined the thread.                 *)
(***************************************************************************)
Serving == pc = "idle" /\ phase \in {"running", "joining"}
Closing == pc = "idle" /\ phase # "stopped"

\* response_(response_body_, status_)
response_(r) == answers' = [answers EXCEPT ![r] = @ + 1]

\* A callback that ends with close_connection_ set: notify_finish(), and -1
\* is returned, which makes libwebsockets close the connection.
Finish(r) == pc' = "notify" /\ cur' = r

\* LWS_CALLBACK_EVENT_WAIT_CANCELLED: the lock is taken ...
WaitCancelled ==
    /\ Serving /\ wake
    /\ wake' = FALSE
    /\ pc' = IF requests_q_ # <<>> THEN "drain" ELSE "idle"
    /\ UNCHANGED <<requests_q_, request, caller, cur, phase>>

\* ... and every queued request started: _do_request() succeeds
DrainConnects ==
    /\ pc = "drain" /\ requests_q_ # <<>>
    /\ LET r == Head(requests_q_)
       IN  /\ close_connection_' = [close_connection_ EXCEPT ![r] = FALSE]
           /\ stage' = [stage EXCEPT ![r] = "connecting"]
    /\ requests_q_' = Tail(requests_q_)
    /\ UNCHANGED <<wake, status_, answers, caller, service, phase>>

\* or fails. A name that is not resolved ends in a callback of its own, inside
\* _do_request(), which answers the request and notifies its caller ...
DrainUnresolved ==
    /\ pc = "drain" /\ requests_q_ # <<>>
    /\ LET r == Head(requests_q_)
       IN  /\ close_connection_' = [close_connection_ EXCEPT ![r] = TRUE]
           /\ response_(r)
           /\ stage' = [stage EXCEPT ![r] = "gone"]
           /\ cur' = r
    /\ pc' = "unresolved_notify"
    /\ UNCHANGED <<requests_q_, wake, status_, caller, phase>>

UnresolvedNotifies ==
    /\ pc = "unresolved_notify" /\ ~Locked(cur)
    /\ pc' = "unresolved"
    /\ UNCHANGED <<requests_q_, wake, request, caller, cur, phase>>

\* ... and the loop answers a request that was not sent, that one again. It
\* stays in the queue until its caller has been notified.
DrainFails ==
    /\ pc \in {"drain", "unresolved"} /\ requests_q_ # <<>>
    /\ LET r == Head(requests_q_)
       IN  /\ status_' = [status_ EXCEPT ![r] = "unsent"]
           /\ close_connection_' = [close_connection_ EXCEPT ![r] = TRUE]
           /\ response_(r)
           /\ stage' = [stage EXCEPT ![r] = "gone"]
           /\ cur' = r
    /\ pc' = "drain_notify"
    /\ UNCHANGED <<requests_q_, wake, caller, phase>>

DrainNotifies ==
    /\ pc = "drain_notify" /\ ~Locked(cur)
    /\ requests_q_' = Tail(requests_q_)
    /\ pc' = "drain"
    /\ cur' = None
    /\ UNCHANGED <<wake, request, caller, phase>>

DrainEnds ==
    /\ pc = "drain" /\ requests_q_ = <<>>
    /\ pc' = "idle"
    /\ UNCHANGED <<requests_q_, wake, request, caller, cur, phase>>

\* LWS_CALLBACK_ESTABLISHED_CLIENT_HTTP: the status line has come. The -1 for a
\* caller that has given up makes libwebsockets report a connection error.
Established(r) ==
    /\ Serving
    /\ stage[r] = "connecting"
    /\ status_' = [status_ EXCEPT ![r] = "replied"]
    /\ \/ /\ close_connection_[r]
          /\ stage' = [stage EXCEPT ![r] = "refused"]
          /\ Finish(r)
       \/ /\ ~close_connection_[r]
          /\ stage' = [stage EXCEPT ![r] = "open"]
          /\ UNCHANGED service
    /\ UNCHANGED <<requests_q_, wake, close_connection_, answers, caller, phase>>

\* Faulty: the end of the body is already the answer.
CompletedAnswers(r) ==
    /\ Serving
    /\ stage[r] = "open"
    /\ response_(r)
    /\ close_connection_' = [close_connection_ EXCEPT ![r] = TRUE]
    /\ stage' = [stage EXCEPT ![r] = "closing"]
    /\ Finish(r)
    /\ UNCHANGED <<requests_q_, wake, status_, caller, phase>>

\* LWS_CALLBACK_COMPLETED_CLIENT_HTTP
Completed(r) ==
    /\ Serving
    /\ stage[r] = "open"
    /\ close_connection_' = [close_connection_ EXCEPT ![r] = TRUE]
    /\ stage' = [stage EXCEPT ![r] = "closing"]
    /\ Finish(r)
    /\ UNCHANGED <<requests_q_, wake, status_, answers, caller, phase>>

\* LWS_CALLBACK_CLOSED_CLIENT_HTTP and LWS_CALLBACK_WSI_DESTROY
Closed(r) ==
    /\ Closing
    /\ stage[r] \in {"open", "closing"}
    /\ response_(r)
    /\ close_connection_' = [close_connection_ EXCEPT ![r] = TRUE]
    /\ stage' = [stage EXCEPT ![r] = "gone"]
    /\ Finish(r)
    /\ UNCHANGED <<requests_q_, wake, status_, caller, phase>>

\* LWS_CALLBACK_CLIENT_CONNECTION_ERROR and LWS_CALLBACK_WSI_DESTROY
ConnectionError(r) ==
    /\ Closing
    /\ stage[r] \in {"connecting", "refused"}
    /\ response_(r)
    /\ close_connection_' = [close_connection_ EXCEPT ![r] = TRUE]
    /\ status_' = [status_ EXCEPT ![r] = "none"]
    /\ stage' = [stage EXCEPT ![r] = "gone"]
    /\ Finish(r)
    /\ UNCHANGED <<requests_q_, wake, caller, phase>>

notify_finish ==
    /\ pc = "notify" /\ ~Locked(cur)
    /\ pc' = "idle"
    /\ cur' = None
    /\ UNCHANGED <<requests_q_, wake, request, caller, phase>>
-----------------------------------------------------------------------------
(***************************************************************************)
(* stop(): running_ is cleared, the thread joined, the context destroyed.  *)
(***************************************************************************)
stop ==
    /\ phase = "running"
    /\ phase' = "joining"
    /\ UNCHANGED <<requests_q_, wake, request, caller, service>>

Joined ==
    /\ phase = "joining" /\ pc = "idle"
    /\ phase' = "destroying"
    /\ UNCHANGED <<requests_q_, wake, request, caller, service>>

Destroyed ==
    /\ phase = "destroying" /\ pc = "idle"
    /\ \A r \in Request : stage[r] \in {"none", "queued", "gone"}
    /\ phase' = "stopped"
    /\ wake' = FALSE
    /\ UNCHANGED <<requests_q_, request, caller, service>>
-----------------------------------------------------------------------------
CallerNext(r) == make_blocked(r) \/ make(r) \/ WakeService(r) \/ WaitEnds(r) \/ TimesOut(r)

Drain == \/ DrainConnects \/ DrainUnresolved \/ UnresolvedNotifies
         \/ DrainFails \/ DrainNotifies \/ DrainEnds

Ends(r) == \/ Established(r)
           \/ Completed(r) \/ Closed(r) \/ ConnectionError(r)

Next ==
    \/ \E r \in Request : CallerNext(r)
    \/ WaitCancelled \/ Drain \/ notify_finish
    \/ \E r \in Request : Ends(r)
    \/ stop \/ Joined \/ Destroyed

Spec == Init /\ [][Next]_vars

(***************************************************************************)
(* Fairness. The service thread runs; a caller that has begun goes on and  *)
(* gets requests_q_lock_ in the end; a connection makes progress or is     *)
(* closed by the timeouts the context and the callbacks set. When a        *)
(* request is made and whether the client is stopped is not assumed.       *)
(***************************************************************************)
FairSpec ==
    /\ Spec
    /\ WF_vars(WaitCancelled) /\ WF_vars(Drain \/ notify_finish)
    /\ WF_vars(Joined \/ Destroyed)
    /\ SF_vars(\E r \in Request : caller[r] = "locked" /\ make(r))
    /\ WF_vars(\E r \in Request : WakeService(r))
    /\ WF_vars(\E r \in Request : WaitEnds(r) \/ TimesOut(r))
    /\ SF_vars(\E r \in Request : Ends(r))
-----------------------------------------------------------------------------
(***************************************************************************)
(* Properties.                                                             *)
(***************************************************************************)

\* The request answered by the callback inside _do_request() and not yet by the
\* loop.
Again == IF pc \in {"unresolved_notify", "unresolved"} THEN {cur} ELSE {}

Answering == INSTANCE Completion
                 WITH made <- {r \in Request : stage[r] # "none"},
                      answers <- answers,
                      again <- Again,
                      over <- (phase = "stopped")

\* The client implements Completion: although response_ is called from three
\* places (a connection that is not created, one that fails, one that closes)
\* and make_blocked() closes requests behind the service thread's back, each
\* request is answered at most once, except that one whose name was not
\* resolved is answered twice in a row, before any other request, and none
\* after stop() returned.
AnswersInOrder == Answering!Spec

\* When make_blocked() has returned true the status its caller reads (code())
\* is the final one: no callback of the same request, which may still be alive
\* (it is closed only after the caller was notified), changes it. The one
\* exception is a failure, -1, that the loop turns into another, -2: a reply's
\* status is never replaced and never comes late.
StatusFinal ==
    [][\A r \in Blocking : caller[r] = "true" =>
           \/ status_'[r] = status_[r]
           \/ status_[r] = "none" /\ status_'[r] = "unsent"]_vars

\* make_blocked() returns, with the two locks taken in both orders.
CallReturns ==
    \A r \in Blocking : caller[r] = "locked" ~> caller[r] \in {"true", "false"}

\* A request is never forgotten: one that was made is answered, unless the
\* client is stopped. One wakeup may stand for many requests, and a request may
\* be queued while the service thread is busy with others.
EveryRequestAnswered ==
    \A r \in Request : stage[r] = "queued" ~> answers[r] > 0 \/ phase # "running"
=============================================================================
