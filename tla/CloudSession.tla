---------------------------- MODULE CloudSession ----------------------------
(***************************************************************************)
(* The control connection of the agent to the Cloud: the websocket         *)
(* transport (net/websockets.cc, net/transport.h, net/lws_common.h), the   *)
(* session part of the command handler (agent-proto/command-handler.cc)    *)
(* and manager::on_closed (agent/manager.cc).                              *)
(*                                                                         *)
(* Two threads share the state without a common lock:                      *)
(*   svc  the libwebsockets service thread: connection callbacks, timers,  *)
(*        on_connected() and on_error();                                   *)
(*   rx   the transport-rx thread: received commands, and the tasks posted *)
(*        by run_on_rx_thread(), which is how on_disconnected() is run.    *)
(* on_error() and on_disconnected() are the same sequence of steps on      *)
(* different threads and interleave at every access to shared state.       *)
(***************************************************************************)
EXTENDS Naturals, Sequences, FiniteSets

CONSTANTS Wsi,       \* libwebsockets connection objects
          NoWsi,     \* the null wsi
          Timer,     \* timed_cb objects that can be alive at once
          NoTimer,   \* the null timed_cb_ptr
          MaxTasks,  \* bound: tasks the rx thread may lag behind when a timer fires
          MaxReq,    \* bound: queued connect requests when a timer fires
          Worlds     \* what may happen to the agent: see World

\* CONN_CLOSE stands for every reason the code treats like it.
ByeReason == {"INVALID", "CONN_CLOSE", "RECONNECT", "AUTH_FAILURE", "DELETED"}

\* The commands that change the session; reason is the argument of a bye.
Command == [name : {"hello", "cam_hello", "configure", "bye"}, reason : ByeReason]

\* What one behaviour may meet.
World == [sent : SUBSET Command, \* the commands the Cloud sends
          MaxRx : Nat,           \* bound: commands waiting in rx_q_
          MaxStarts : Nat,       \* bound: calls of manager::start()
          MaxNulls : Nat]        \* bound: calls of __connect() that return null

ASSUME SessionAssumption ==
    /\ Worlds \subseteq World
    /\ NoWsi \notin Wsi
    /\ NoTimer \notin Timer
    /\ MaxTasks \in Nat
    /\ MaxReq \in Nat

VARIABLES
    world,             \* never changes
    phase,             \* "new", "running", "stopping", "stopped"
    starts,            \* calls of start() so far
    nulls,             \* calls of __connect() that returned null so far
    conn,              \* state of each wsi
    client_wsi_,       \* the wsi the transport believes it owns
    close_connection_, \* the next callback of any wsi returns -1
    requests_q_,       \* queued connect requests: the addresses
    wake,              \* lws_cancel_service() was called and not yet serviced
    pending,           \* timed callbacks in state PENDING
    reconnect_timer_,  \* the handler's pointer to its reconnect timer
    rx_q_,             \* received commands
    rx_task_q_,        \* tasks for the rx thread
    registered_, hello_received_, bye_reason_,
    reconnect_server_address, \* "main" when empty
    pc,                \* where each thread is
    reason,            \* argument of the on_closed() each thread is in
    failed,            \* the wsi whose error callback svc is in, or NoWsi
    gaveUp,            \* observation: on_closed() last decided not to reconnect
    lastClose          \* observation: reason of the last on_closed()

transport == <<conn, client_wsi_, close_connection_, requests_q_, wake>>
timers    == <<pending, reconnect_timer_>>
queues    == <<rx_q_, rx_task_q_>>
session   == <<registered_, hello_received_, bye_reason_, reconnect_server_address>>
control   == <<pc, reason, failed>>
observed  == <<gaveUp, lastClose>>
lifecycle == <<world, phase, starts, nulls>>
vars == <<transport, timers, queues, session, control, observed, lifecycle>>

Thread  == {"svc", "rx"}
Address == {"main", "redirect"}
Task == {"drain", "disconnected"}
Step == {"idle", "on_closed", "reconnect", "schedule", "error_done", "try_connect",
         "cam_register_sent", "cam_register_unsent"}

\* A wsi that is connecting or open, and not already reported as failed.
Live(w) == conn[w] # "free" /\ w # failed
\* The queue of tasks q holds a close notification.
Notifies(q) == \E i \in 1..Len(q) : q[i] = "disconnected"

\* Thread t is inside on_error() or on_disconnected().
Closing(t) == pc[t] \in {"on_closed", "reconnect", "schedule"}

TransportOK ==
    /\ conn \in [Wsi -> {"free", "connecting", "open"}]
    /\ client_wsi_ \in Wsi \cup {NoWsi}
    /\ close_connection_ \in BOOLEAN
    /\ requests_q_ \in Seq(Address)
    /\ wake \in BOOLEAN
TimersOK ==
    /\ pending \in SUBSET Timer
    /\ reconnect_timer_ \in Timer \cup {NoTimer}
QueuesOK ==
    /\ rx_q_ \in Seq(Command)
    /\ rx_task_q_ \in Seq(Task)
SessionOK ==
    /\ registered_ \in BOOLEAN
    /\ hello_received_ \in BOOLEAN
    /\ bye_reason_ \in ByeReason
    /\ reconnect_server_address \in Address
ControlOK ==
    /\ pc \in [Thread -> Step]
    /\ reason \in [Thread -> ByeReason]
    /\ failed \in Wsi \cup {NoWsi}
ObservedOK ==
    /\ gaveUp \in BOOLEAN
    /\ lastClose \in ByeReason
LifecycleOK ==
    /\ world \in Worlds
    /\ phase \in {"new", "running", "stopping", "stopped"}
    /\ starts \in 0..world.MaxStarts
    /\ nulls \in 0..world.MaxNulls

\* Every variable has its type: queues hold only what their readers expect.
TypeOK == /\ TransportOK /\ TimersOK /\ QueuesOK /\ SessionOK
          /\ ControlOK /\ ObservedOK /\ LifecycleOK

Init ==
    /\ world \in Worlds
    /\ phase = "new"
    /\ starts = 0 /\ nulls = 0
    /\ conn = [w \in Wsi |-> "free"]
    /\ client_wsi_ = NoWsi
    /\ close_connection_ = FALSE
    /\ requests_q_ = <<>>
    /\ wake = FALSE
    /\ pending = {}
    /\ reconnect_timer_ = NoTimer
    /\ rx_q_ = <<>>
    /\ rx_task_q_ = <<>>
    /\ registered_ = FALSE
    /\ hello_received_ = FALSE
    /\ bye_reason_ = "INVALID"
    /\ reconnect_server_address = "main"
    /\ pc = [t \in Thread |-> "idle"]
    /\ reason = [t \in Thread |-> "INVALID"]
    /\ failed = NoWsi
    /\ gaveUp = FALSE
    /\ lastClose = "INVALID"
-----------------------------------------------------------------------------
(***************************************************************************)
(* Operations shared by the handlers.                                      *)
(***************************************************************************)

\* The service thread takes callbacks until stop() has joined it.
SvcReady == phase \in {"running", "stopping"} /\ pc["svc"] = "idle"
\* The rx loop tests running_ before each command and task.
RxReady == phase = "running" /\ pc["rx"] = "idle"

\* websocket::connect(manager_config::get_address())
try_connect ==
    /\ requests_q_' = Append(requests_q_, reconnect_server_address)
    /\ wake' = TRUE


\* The pending set after cancel_timed_cb(reconnect_timer_), a no-op once
\* running_ is false.
AfterCancel == IF phase = "running" THEN pending \ {reconnect_timer_} ELSE pending

\* Faulty variant: the timer is cancelled, the pointer is kept.
ResetKeepsPointer == pending' = AfterCancel /\ UNCHANGED reconnect_timer_

_reset_reconnect_timer ==
    /\ pending' = AfterCancel
    /\ reconnect_timer_' = NoTimer

\* Faulty variant: the loss of the connection leaves registered_ set.
EnterClosedStaysRegistered(t, r) ==
    /\ _reset_reconnect_timer
    /\ hello_received_' = FALSE
    /\ UNCHANGED registered_
    /\ pc' = [pc EXCEPT ![t] = "on_closed"]
    /\ reason' = [reason EXCEPT ![t] = r]

\* Common start of on_error() and on_disconnected().
EnterClosed(t, r) ==
    /\ _reset_reconnect_timer
    /\ hello_received_' = FALSE
    /\ registered_' = FALSE
    /\ pc' = [pc EXCEPT ![t] = "on_closed"]
    /\ reason' = [reason EXCEPT ![t] = r]

\* Where on_error()/on_disconnected() return to.
Return(t) == IF t = "svc" THEN "error_done" ELSE "idle"

\* manager::on_closed(): the decision to reconnect.
WillReconnect(r) == r # "AUTH_FAILURE"

\* Faulty variant: the AUTH_FAILURE case falls through to reconnect().
on_closed_falls_through(t) ==
    /\ pc[t] = "on_closed"
    /\ lastClose' = reason[t]
    /\ gaveUp' = ~WillReconnect(reason[t])
    /\ pc' = [pc EXCEPT ![t] = "reconnect"]
    /\ UNCHANGED <<transport, timers, queues, session, reason, failed, lifecycle>>

on_closed(t) ==
    /\ pc[t] = "on_closed"
    /\ lastClose' = reason[t]
    /\ \/ /\ WillReconnect(reason[t])
          /\ reconnect_server_address' =
                IF reason[t] = "RECONNECT" THEN reconnect_server_address ELSE "main"
          /\ pc' = [pc EXCEPT ![t] = "reconnect"]
          /\ gaveUp' = FALSE
       \/ /\ ~WillReconnect(reason[t])
          /\ pc' = [pc EXCEPT ![t] = Return(t)]
          /\ gaveUp' = TRUE
          /\ UNCHANGED reconnect_server_address
    /\ UNCHANGED <<transport, timers, queues, registered_, hello_received_,
                   bye_reason_, reason, failed, lifecycle>>

\* command_handler::reconnect(), up to and including transport_->disconnect()
reconnect(t) ==
    /\ pc[t] = "reconnect"
    /\ \/ /\ reconnect_timer_ = NoTimer
          /\ close_connection_' = TRUE
          /\ pc' = [pc EXCEPT ![t] = "schedule"]
       \/ /\ reconnect_timer_ # NoTimer
          /\ pc' = [pc EXCEPT ![t] = Return(t)]
          /\ UNCHANGED close_connection_
    /\ UNCHANGED <<conn, client_wsi_, requests_q_, wake, timers, queues, session,
                   reason, failed, observed, lifecycle>>

\* schedule_timed_cb(try_connect) and the assignment of the pointer
schedule(t) ==
    /\ pc[t] = "schedule"
    /\ \E tm \in Timer \ (pending \cup {reconnect_timer_}) :
          /\ pending' = pending \cup {tm}
          /\ reconnect_timer_' = tm
    /\ pc' = [pc EXCEPT ![t] = Return(t)]
    /\ UNCHANGED <<transport, queues, session, reason, failed, observed, lifecycle>>
-----------------------------------------------------------------------------
(***************************************************************************)
(* The service thread: lws_callback_() and the timed callbacks.            *)
(***************************************************************************)

\* LWS_CALLBACK_EVENT_WAIT_CANCELLED: one request is taken, whatever the
\* number of lws_cancel_service() calls that woke the loop.
ConnectStarts(w) ==
    /\ SvcReady /\ wake /\ requests_q_ # <<>>
    /\ conn[w] = "free"
    /\ wake' = FALSE
    /\ requests_q_' = Tail(requests_q_)
    /\ close_connection_' = FALSE
    /\ conn' = [conn EXCEPT ![w] = "connecting"]
    /\ client_wsi_' = w
    /\ UNCHANGED <<timers, queues, session, control, observed, lifecycle>>

\* The same callback when __connect() returns null: the address does not parse,
\* or lws gives up and clears client_wsi_, or the host is unknown, which is
\* reported from within by a CLIENT_CONNECTION_ERROR for a wsi that is then
\* freed. error_() is called now, disconnected_() is posted when it returns
\* (ErrorDone); after an unknown host error_() is called twice (ErrorAgain).
ConnectFails ==
    /\ nulls < world.MaxNulls
    /\ nulls' = nulls + 1
    /\ SvcReady /\ wake /\ requests_q_ # <<>>
    /\ wake' = FALSE
    /\ requests_q_' = Tail(requests_q_)
    /\ \/ /\ failed' = NoWsi
          /\ UNCHANGED <<client_wsi_, close_connection_, rx_task_q_>>
       \/ /\ failed' = NoWsi
          /\ client_wsi_' = NoWsi
          /\ close_connection_' = FALSE
          /\ UNCHANGED rx_task_q_
       \/ /\ \E w \in Wsi : conn[w] = "free" /\ failed' = w
          /\ rx_task_q_' = Append(rx_task_q_, "drain")
          /\ close_connection_' = FALSE
          /\ UNCHANGED client_wsi_
    /\ EnterClosed("svc", "CONN_CLOSE")
    /\ UNCHANGED <<conn, rx_q_, bye_reason_, reconnect_server_address,
                   observed, world, phase, starts>>

\* LWS_CALLBACK_CLIENT_ESTABLISHED and on_connected()
Established(w) ==
    /\ SvcReady
    /\ conn[w] = "connecting"
    /\ conn' = [conn EXCEPT ![w] = "open"]
    /\ client_wsi_' = w
    /\ hello_received_' = FALSE
    /\ registered_' = FALSE
    /\ bye_reason_' = "INVALID"
    /\ _reset_reconnect_timer
    /\ UNCHANGED <<close_connection_, requests_q_, wake, queues,
                   reconnect_server_address, control, observed, lifecycle>>

\* Faulty variant: a failed attempt also posts disconnected_().
ConnectionErrorNotifies(w) ==
    /\ SvcReady
    /\ conn[w] = "connecting"
    /\ rx_task_q_' = rx_task_q_ \o <<"drain", "disconnected">>
    /\ failed' = w
    /\ EnterClosed("svc", "CONN_CLOSE")
    /\ UNCHANGED <<transport, rx_q_, bye_reason_, reconnect_server_address,
                   observed, lifecycle>>

\* LWS_CALLBACK_CLIENT_CONNECTION_ERROR, up to the call of error_()
ConnectionError(w) ==
    /\ SvcReady
    /\ conn[w] = "connecting"
    /\ rx_task_q_' = Append(rx_task_q_, "drain")
    /\ failed' = w
    /\ EnterClosed("svc", "CONN_CLOSE")
    /\ UNCHANGED <<transport, rx_q_, bye_reason_, reconnect_server_address,
                   observed, lifecycle>>

\* The rest of the error callback, and LWS_CALLBACK_WSI_DESTROY of the wsi.
ErrorDone ==
    /\ pc["svc"] = "error_done"
    /\ pc' = [pc EXCEPT !["svc"] = "idle"]
    /\ client_wsi_' = NoWsi
    /\ close_connection_' = TRUE
    /\ \/ /\ failed = NoWsi
          /\ rx_task_q_' = Append(rx_task_q_, "disconnected")
          /\ UNCHANGED conn
       \/ /\ failed # NoWsi /\ conn[failed] = "connecting"
          /\ conn' = [conn EXCEPT ![failed] = "free"]
          /\ UNCHANGED rx_task_q_
    /\ failed' = NoWsi
    /\ UNCHANGED <<requests_q_, wake, timers, rx_q_, session, reason, observed, lifecycle>>

\* The error callback of an unknown host has returned, and so has __connect():
\* error_() is called again.
ErrorAgain ==
    /\ pc["svc"] = "error_done"
    /\ failed # NoWsi /\ conn[failed] = "free"
    /\ client_wsi_' = NoWsi
    /\ close_connection_' = TRUE
    /\ failed' = NoWsi
    /\ EnterClosed("svc", "CONN_CLOSE")
    /\ UNCHANGED <<conn, requests_q_, wake, queues, bye_reason_, reconnect_server_address,
                   observed, lifecycle>>

\* Faulty variants: the notification before the drain, and none at all.
ClosedTasksSwapped == IF client_wsi_ # NoWsi THEN <<"disconnected", "drain">> ELSE <<"drain">>
ClosedTasksSilent  == <<"drain">>

\* What LWS_CALLBACK_CLIENT_CLOSED posts: the drain of the received commands
\* before the notification.
ClosedTasks == IF client_wsi_ # NoWsi THEN <<"drain", "disconnected">> ELSE <<"drain">>

\* LWS_CALLBACK_CLIENT_CLOSED followed by LWS_CALLBACK_WSI_DESTROY
Closed(w) ==
    /\ SvcReady
    /\ conn[w] = "open"
    /\ rx_task_q_' = rx_task_q_ \o ClosedTasks
    /\ client_wsi_' = NoWsi
    /\ close_connection_' = TRUE
    /\ conn' = [conn EXCEPT ![w] = "free"]
    /\ UNCHANGED <<requests_q_, wake, timers, rx_q_, session, control, observed, lifecycle>>

\* LWS_CALLBACK_CLIENT_RECEIVE
Receive(w, c) ==
    /\ SvcReady
    /\ conn[w] = "open"
    /\ Len(rx_q_) < world.MaxRx
    /\ rx_q_' = Append(rx_q_, c)
    /\ UNCHANGED <<transport, timers, rx_task_q_, session, control, observed, lifecycle>>

\* Faulty variant: the timer stays armed after it fired.
TimerFiresAgain(tm) ==
    /\ SvcReady
    /\ tm \in pending
    /\ Len(rx_task_q_) < MaxTasks /\ Len(requests_q_) < MaxReq
    /\ pc' = [pc EXCEPT !["svc"] = "try_connect"]
    /\ UNCHANGED <<transport, timers, queues, session, reason, failed, observed, lifecycle>>

\* _sul_cb() of a reconnect timer finds it PENDING. It takes no lock: the rx
\* thread may cancel the timer from here on, without effect on the callback.
TimerFires(tm) ==
    /\ SvcReady
    /\ tm \in pending
    /\ Len(rx_task_q_) < MaxTasks /\ Len(requests_q_) < MaxReq
    /\ pending' = pending \ {tm}
    /\ pc' = [pc EXCEPT !["svc"] = "try_connect"]
    /\ UNCHANGED <<transport, reconnect_timer_, queues, session, reason, failed,
                   observed, lifecycle>>

\* The callback: try_connect().
TimerCalls ==
    /\ pc["svc"] = "try_connect"
    /\ try_connect
    /\ pc' = [pc EXCEPT !["svc"] = "idle"]
    /\ UNCHANGED <<conn, client_wsi_, close_connection_, timers, queues, session,
                   reason, failed, observed, lifecycle>>
-----------------------------------------------------------------------------
(***************************************************************************)
(* The rx thread.                                                          *)
(***************************************************************************)

\* handleMessage(): hello. do_cam_register() sends unless registered_; whether
\* the send succeeded is decided by client_wsi_ now and stored one step later.
handle_hello ==
    /\ RxReady /\ rx_q_ # <<>> /\ Head(rx_q_).name = "hello"
    /\ rx_q_' = Tail(rx_q_)
    /\ pc' = [pc EXCEPT !["rx"] =
                IF registered_ THEN "idle"
                ELSE IF client_wsi_ # NoWsi THEN "cam_register_sent"
                ELSE "cam_register_unsent"]
    /\ UNCHANGED <<transport, timers, rx_task_q_, session, reason, failed, observed,
                   lifecycle>>

do_cam_register ==
    /\ pc["rx"] \in {"cam_register_sent", "cam_register_unsent"}
    /\ registered_' = (pc["rx"] = "cam_register_sent")
    /\ pc' = [pc EXCEPT !["rx"] = "idle"]
    /\ UNCHANGED <<transport, timers, queues, hello_received_, bye_reason_,
                   reconnect_server_address, reason, failed, observed, lifecycle>>

handle_cam_hello ==
    /\ RxReady /\ rx_q_ # <<>> /\ Head(rx_q_).name = "cam_hello"
    /\ rx_q_' = Tail(rx_q_)
    /\ hello_received_' = TRUE
    /\ UNCHANGED <<transport, timers, rx_task_q_, registered_, bye_reason_,
                   reconnect_server_address, control, observed, lifecycle>>

handle_configure ==
    /\ RxReady /\ rx_q_ # <<>> /\ Head(rx_q_).name = "configure"
    /\ rx_q_' = Tail(rx_q_)
    /\ reconnect_server_address' = "redirect"
    /\ UNCHANGED <<transport, timers, rx_task_q_, registered_, hello_received_,
                   bye_reason_, control, observed, lifecycle>>

handle_bye ==
    /\ RxReady /\ rx_q_ # <<>> /\ Head(rx_q_).name = "bye"
    /\ rx_q_' = Tail(rx_q_)
    /\ bye_reason_' = Head(rx_q_).reason
    /\ hello_received_' = FALSE
    /\ UNCHANGED <<transport, timers, rx_task_q_, registered_,
                   reconnect_server_address, control, observed, lifecycle>>

\* The drain task ends when it has handled every received command.
drain_rx ==
    /\ RxReady /\ rx_task_q_ # <<>> /\ Head(rx_task_q_) = "drain"
    /\ rx_q_ = <<>>
    /\ rx_task_q_' = Tail(rx_task_q_)
    /\ UNCHANGED <<transport, timers, rx_q_, session, control, observed, lifecycle>>

on_disconnected ==
    /\ RxReady /\ rx_task_q_ # <<>> /\ Head(rx_task_q_) = "disconnected"
    /\ rx_task_q_' = Tail(rx_task_q_)
    /\ EnterClosed("rx", IF bye_reason_ = "INVALID" THEN "CONN_CLOSE" ELSE bye_reason_)
    /\ UNCHANGED <<transport, rx_q_, bye_reason_, reconnect_server_address, failed,
                   observed, lifecycle>>
-----------------------------------------------------------------------------
(***************************************************************************)
(* The application thread.                                                 *)
(***************************************************************************)

start ==
    /\ phase \in {"new", "stopped"}
    /\ starts < world.MaxStarts
    /\ phase' = "running"
    /\ starts' = starts + 1
    /\ try_connect
    /\ gaveUp' = FALSE
    /\ UNCHANGED <<conn, client_wsi_, close_connection_, timers, queues, session,
                   control, lastClose, world, nulls>>

\* stop() up to the joins: the flags, disconnect(), running_ = false, flush
stop ==
    /\ phase = "running"
    /\ phase' = "stopping"
    /\ hello_received_' = FALSE
    /\ registered_' = FALSE
    /\ close_connection_' = TRUE
    /\ rx_q_' = <<>>
    /\ UNCHANGED <<conn, client_wsi_, requests_q_, wake, timers, rx_task_q_, bye_reason_,
                   reconnect_server_address, control, observed, world, starts, nulls>>

\* Both threads have returned: timers are cancelled and the context is
\* destroyed, which runs the closing callbacks of a live wsi but no task.
stopped ==
    /\ phase = "stopping"
    /\ \A t \in Thread : pc[t] = "idle"
    /\ phase' = "stopped"
    /\ pending' = {}
    /\ rx_task_q_' = IF \E w \in Wsi : Live(w) THEN rx_task_q_ \o ClosedTasks
                     ELSE rx_task_q_
    /\ conn' = [w \in Wsi |-> "free"]
    /\ client_wsi_' = NoWsi
    /\ close_connection_' = TRUE
    /\ wake' = FALSE
    /\ UNCHANGED <<requests_q_, reconnect_timer_, rx_q_, session, control,
                   observed, world, starts, nulls>>
-----------------------------------------------------------------------------
SvcNext ==
    \/ \E w \in Wsi : ConnectStarts(w) \/ Established(w) \/ ConnectionError(w) \/ Closed(w)
    \/ \E w \in Wsi, c \in world.sent : Receive(w, c)
    \/ ConnectFails
    \/ ErrorDone \/ ErrorAgain
    \/ \E tm \in Timer : TimerFires(tm)
    \/ TimerCalls

RxNext ==
    \/ handle_hello \/ do_cam_register \/ handle_cam_hello
    \/ handle_configure \/ handle_bye
    \/ drain_rx \/ on_disconnected

HandlerNext == \E t \in Thread : on_closed(t) \/ reconnect(t) \/ schedule(t)

Next == SvcNext \/ RxNext \/ HandlerNext \/ start \/ stop \/ stopped

Spec == Init /\ [][Next]_vars

(***************************************************************************)
(* Fairness. Both threads are loops that never block on each other, so     *)
(* each of their steps is weakly fair. A pending timer expires, a request  *)
(* is serviced once the loop is woken, and a connect attempt ends          *)
(* (connect_timeout_secs). Nothing is assumed of the server: it need not   *)
(* accept, send or close. A requested close happens because every callback *)
(* returns -1 while close_connection_ is set.                              *)
(***************************************************************************)
RequestedClose == close_connection_ /\ \E w \in Wsi : Closed(w)

Fairness ==
    /\ WF_vars(RxNext)
    /\ WF_vars(HandlerNext)
    /\ WF_vars(ErrorDone \/ ErrorAgain \/ TimerCalls)
    /\ WF_vars(\E w \in Wsi : ConnectStarts(w))
    /\ WF_vars(\E w \in Wsi : Established(w) \/ ConnectionError(w))
    /\ WF_vars(RequestedClose)
    /\ WF_vars(\E tm \in Timer : TimerFires(tm))

FairSpec == Spec /\ Fairness
-----------------------------------------------------------------------------
(***************************************************************************)
(* Properties.                                                             *)
(***************************************************************************)

\* The service thread has still to report a failed __connect().
Unreported ==
    pc["svc"] = "error_done" /\ (failed # NoWsi => conn[failed] = "free")

\* Something is under way that leads to the next connection attempt.
Recovering ==
    \/ wake /\ requests_q_ # <<>>
    \/ pending # {} \/ pc["svc"] = "try_connect"
    \/ \E w \in Wsi : Live(w)
    \/ Closing("svc") \/ Closing("rx")
    \/ Unreported
    \/ Notifies(rx_task_q_)

\* The agent is never left without a connection and without anything that
\* will start one, unless the Cloud refused its credentials or it was
\* stopped: a lost wakeup between on_error() on the service thread,
\* on_disconnected() on the rx thread and on_connected() would be final,
\* since nothing else ever calls reconnect().
NeverStuck == phase = "running" /\ ~gaveUp => Recovering

\* The inductive form of NeverStuck. An open connection only counts while
\* client_wsi_ is set, because Closed() reports nothing otherwise, and not
\* while the service thread is about to clear client_wsi_.
Connecting == \E w \in Wsi : conn[w] = "connecting" /\ w # failed
AttemptAhead ==
    \/ wake /\ requests_q_ # <<>>
    \/ pending # {} \/ pc["svc"] = "try_connect"
    \/ Connecting
    \/ Closing("svc")
    \/ Closing("rx")
    \/ Unreported
    \/ Notifies(rx_task_q_)
Reportable ==
    /\ client_wsi_ # NoWsi
    /\ pc["svc"] # "error_done"
    /\ \E w \in Wsi : conn[w] = "open"

\* Unless the agent gave up, it is connected or on its way.
ProgressInv == phase = "running" /\ ~gaveUp => AttemptAhead \/ Reportable

\* reconnect() may skip scheduling only because an attempt is ahead.
TimerInv ==
    phase = "running" /\ reconnect_timer_ # NoTimer =>
        \/ reconnect_timer_ \in pending \/ pc["svc"] = "try_connect"
        \/ wake /\ requests_q_ # <<>>
        \/ Connecting

\* What the error callback of the service thread is about.
CallbackInv ==
    /\ pc["svc"] = "on_closed" => reason["svc"] = "CONN_CLOSE"
    /\ pc["svc"] \in {"idle", "try_connect"} => failed = NoWsi
    /\ failed # NoWsi =>
          conn[failed] = "connecting" \/ (conn[failed] = "free" /\ nulls > 0)

StuckInv == ProgressInv /\ TimerInv /\ CallbackInv

\* No connect has failed at once and the agent was not restarted. Either leaves
\* more than one report of a loss, timer or request behind, and a report that
\* comes after the next connection breaks each of the properties below.
Orderly == nulls = 0 /\ starts <= 1

\* A close notification never overtakes a newer connection: while a
\* "disconnected" task is queued or on_disconnected() runs, no wsi is alive,
\* so the close_connection_ flag it raises cannot kill a healthy session.
NotificationPrecedesReconnect ==
    Orderly /\ (Notifies(rx_task_q_) \/ Closing("rx")) => \A w \in Wsi : ~Live(w)

\* There is at most one connection at a time, and at most one of everything
\* that starts one, a timer that is being called included.
OneAttempt ==
    Orderly =>
        Cardinality(pending) + (IF pc["svc"] = "try_connect" THEN 1 ELSE 0)
        + Len(requests_q_) + Cardinality({w \in Wsi : Live(w)}) <= 1

\* registered_, which lets events and uploads be sent, is never left set
\* without a connection: either one is alive or its loss is still to be
\* handled by the rx thread.
RegisteredIsLive ==
    Orderly /\ registered_ => \/ \E w \in Wsi : conn[w] = "open"
                              \/ Notifies(rx_task_q_)

\* After the Cloud said AUTH_FAILURE and closed, nothing that could connect
\* again is left behind.
GaveUpIsQuiet ==
    Orderly /\ gaveUp =>
              /\ pending = {} /\ pc["svc"] # "try_connect"
              /\ requests_q_ = <<>>
              /\ \A w \in Wsi : ~Live(w)

\* manager::on_closed: a connection attempt goes to the address of a
\* configure command only when the previous session ended with a bye asking
\* to reconnect; after any other end it goes to the main server.
RedirectOnlyOnBye ==
    [][\A w \in Wsi : Orderly /\ conn[w] = "free" /\ conn'[w] = "connecting"
          /\ Head(requests_q_) = "redirect" => lastClose = "RECONNECT"]_vars

\* bye.h: after a bye with reason DELETED "CM must stop all attempts to
\* connect to server".
DeletedStops ==
    [][lastClose = "DELETED" =>
          \A w \in Wsi : conn'[w] = "connecting" => conn[w] = "connecting"]_vars

\* Under fairness the agent keeps trying: it always comes back to having a
\* connection alive, unless it gave up or was stopped. (When connects may fail
\* at once the bounds on timers and requests can end the behaviour first.)
KeepsTrying ==
    [](phase = "running" => <>(\/ \E w \in Wsi : Live(w)
                              \/ gaveUp \/ phase # "running" \/ ~Orderly))
=============================================================================
