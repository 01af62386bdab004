------------------------ MODULE CloudSession_proofs ------------------------
(* Proofs about CloudSession, for every value of its constants. *)
EXTENDS CloudSession, FiniteSetTheorems, TLAPS

\* A group of variables that does not change keeps its type.
LEMMA Frame ==
    /\ TransportOK /\ UNCHANGED transport => TransportOK'
    /\ TimersOK /\ UNCHANGED timers => TimersOK'
    /\ QueuesOK /\ UNCHANGED queues => QueuesOK'
    /\ SessionOK /\ UNCHANGED session => SessionOK'
    /\ ControlOK /\ UNCHANGED control => ControlOK'
    /\ ObservedOK /\ UNCHANGED observed => ObservedOK'
    /\ LifecycleOK /\ UNCHANGED lifecycle => LifecycleOK'
BY DEF TransportOK, TimersOK, QueuesOK, SessionOK, ControlOK, ObservedOK, LifecycleOK,
       transport, timers, queues, session, control, observed, lifecycle

\* What the closing callbacks post are tasks.
LEMMA ClosedTasksOK == ClosedTasks \in Seq(Task)
<1>1. <<"drain">> \in Seq(Task)
  BY DEF Task
<1>2. <<"drain", "disconnected">> \in Seq(Task)
  BY DEF Task
<1> QED
  BY <1>1, <1>2 DEF ClosedTasks

LEMMA TypeInit == Init => TypeOK
<1> SUFFICES ASSUME Init PROVE TypeOK
  OBVIOUS
<1>1. TransportOK
  <2>1. conn \in [Wsi -> {"free", "connecting", "open"}] /\ requests_q_ \in Seq(Address)
    BY DEF Init
  <2>2. close_connection_ \in BOOLEAN /\ wake \in BOOLEAN
    BY DEF Init
  <2> QED
    BY <2>1, <2>2 DEF Init, TransportOK
<1>2. TimersOK
  BY DEF Init, TimersOK
<1>3. QueuesOK
  BY DEF Init, QueuesOK
<1>4. SessionOK
  BY DEF Init, SessionOK, Address, ByeReason
<1>5. ControlOK
  BY DEF Init, ControlOK, Thread, Step, ByeReason
<1>6. ObservedOK
  BY DEF Init, ObservedOK, ByeReason
<1>7. LifecycleOK
  BY SessionAssumption DEF Init, LifecycleOK, World
<1> QED
  BY <1>1, <1>2, <1>3, <1>4, <1>5, <1>6, <1>7 DEF TypeOK

\* Every variable keeps its type: nothing but addresses reaches requests_q_,
\* commands rx_q_ and tasks rx_task_q_, and client_wsi_, reconnect_timer_ and
\* the handler steps stay in their domains.
THEOREM TypeCorrect == Spec => []TypeOK
<1>1. TypeOK /\ [Next]_vars => TypeOK'
  <2> SUFFICES ASSUME TypeOK, [Next]_vars PROVE TypeOK'
    OBVIOUS
  <2>1. ASSUME NEW w \in Wsi, ConnectStarts(w) PROVE TypeOK'
    <3>1. TransportOK'
      <4>1. requests_q_' \in Seq(Address)
        BY <2>1 DEF TypeOK, ConnectStarts, TransportOK
      <4>2. close_connection_' \in BOOLEAN /\ wake' \in BOOLEAN
        BY <2>1 DEF ConnectStarts
      <4>3. conn' \in [Wsi -> {"free", "connecting", "open"}] /\ client_wsi_' \in Wsi
        BY <2>1 DEF TypeOK, ConnectStarts, TransportOK
      <4> QED
        BY <4>1, <4>2, <4>3 DEF TransportOK
    <3> QED
      BY <2>1, <3>1, Frame DEF TypeOK, ConnectStarts
  <2>2. ASSUME NEW w \in Wsi, Established(w) PROVE TypeOK'
    <3>1. TransportOK'
      BY <2>2 DEF TypeOK, Established, TransportOK
    <3>2. TimersOK'
      BY <2>2 DEF TypeOK, Established, TimersOK, _reset_reconnect_timer, AfterCancel
    <3>3. SessionOK'
      BY <2>2 DEF TypeOK, Established, SessionOK, ByeReason, Address
    <3> QED
      BY <2>2, <3>1, <3>2, <3>3, Frame DEF TypeOK, Established
  <2>3. ASSUME NEW w \in Wsi, ConnectionError(w) PROVE TypeOK'
    <3>1. TimersOK'
      BY <2>3 DEF TypeOK, ConnectionError, TimersOK, EnterClosed, _reset_reconnect_timer,
         AfterCancel
    <3>2. QueuesOK'
      BY <2>3 DEF TypeOK, ConnectionError, QueuesOK, Task
    <3>3. SessionOK'
      BY <2>3 DEF TypeOK, ConnectionError, SessionOK, EnterClosed
    <3>4. ControlOK'
      BY <2>3 DEF TypeOK, ConnectionError, ControlOK, EnterClosed, Thread, Step, ByeReason
    <3> QED
      BY <2>3, <3>1, <3>2, <3>3, <3>4, Frame DEF TypeOK, ConnectionError
  <2>4. ASSUME NEW w \in Wsi, Closed(w) PROVE TypeOK'
    <3>1. TransportOK'
      BY <2>4 DEF TypeOK, Closed, TransportOK
    <3>2. QueuesOK'
      BY <2>4, ClosedTasksOK DEF TypeOK, Closed, QueuesOK
    <3> QED
      BY <2>4, <3>1, <3>2, Frame DEF TypeOK, Closed
  <2>5. ASSUME NEW w \in Wsi, NEW c \in world.sent, Receive(w, c) PROVE TypeOK'
    <3>1. QueuesOK'
      BY SessionAssumption, <2>5 DEF TypeOK, Receive, QueuesOK, LifecycleOK, World
    <3> QED
      BY <2>5, <3>1, Frame DEF TypeOK, Receive
  <2>6. CASE ConnectFails
    <3>1. TransportOK'
      <4>1. requests_q_' \in Seq(Address)
        BY <2>6 DEF TypeOK, ConnectFails, TransportOK
      <4>2. close_connection_' \in BOOLEAN /\ wake' \in BOOLEAN
        BY <2>6 DEF TypeOK, TransportOK, ConnectFails
      <4>3. conn' = conn /\ client_wsi_' \in {client_wsi_, NoWsi}
        BY <2>6 DEF ConnectFails
      <4> QED
        BY <4>1, <4>2, <4>3 DEF TypeOK, TransportOK
    <3>2. TimersOK'
      BY <2>6 DEF TypeOK, ConnectFails, TimersOK, EnterClosed, _reset_reconnect_timer, AfterCancel
    <3>3. SessionOK'
      BY <2>6 DEF TypeOK, ConnectFails, SessionOK, EnterClosed
    <3>4. ControlOK'
      BY <2>6 DEF TypeOK, ConnectFails, ControlOK, EnterClosed, Thread, Step, ByeReason
    <3>5. LifecycleOK'
      BY SessionAssumption, <2>6 DEF TypeOK, ConnectFails, LifecycleOK, World
    <3>6. QueuesOK'
      <4>1. "drain" \in Task
        BY DEF Task
      <4>2. CASE rx_task_q_' = Append(rx_task_q_, "drain")
        BY <2>6, <4>1, <4>2 DEF TypeOK, ConnectFails, QueuesOK
      <4>3. CASE UNCHANGED rx_task_q_
        BY <2>6, <4>3 DEF TypeOK, ConnectFails, QueuesOK
      <4> QED
        BY <2>6, <4>2, <4>3 DEF ConnectFails
    <3> QED
      BY <2>6, <3>1, <3>2, <3>3, <3>4, <3>5, <3>6, Frame DEF TypeOK, ConnectFails
  <2>7. CASE ErrorDone
    <3>1. TransportOK'
      BY <2>7 DEF TypeOK, ErrorDone, TransportOK
    <3>2. QueuesOK'
      <4>1. "disconnected" \in Task
        BY DEF Task
      <4>2. CASE rx_task_q_' = Append(rx_task_q_, "disconnected")
        BY <2>7, <4>1, <4>2 DEF TypeOK, ErrorDone, QueuesOK
      <4>3. CASE UNCHANGED rx_task_q_
        BY <2>7, <4>3 DEF TypeOK, ErrorDone, QueuesOK
      <4> QED
        BY <2>7, <4>2, <4>3 DEF ErrorDone
    <3>3. ControlOK'
      BY <2>7 DEF TypeOK, ErrorDone, ControlOK, Thread, Step, ByeReason
    <3> QED
      BY <2>7, <3>1, <3>2, <3>3, Frame DEF TypeOK, ErrorDone
  <2>24. CASE ErrorAgain
    <3>1. TransportOK'
      BY <2>24 DEF TypeOK, ErrorAgain, TransportOK
    <3>2. TimersOK'
      BY <2>24 DEF TypeOK, ErrorAgain, TimersOK, EnterClosed, _reset_reconnect_timer, AfterCancel
    <3>3. SessionOK'
      BY <2>24 DEF TypeOK, ErrorAgain, SessionOK, EnterClosed
    <3>4. ControlOK'
      BY <2>24 DEF TypeOK, ErrorAgain, ControlOK, EnterClosed, Thread, Step, ByeReason
    <3> QED
      BY <2>24, <3>1, <3>2, <3>3, <3>4, Frame DEF TypeOK, ErrorAgain
  <2>8. ASSUME NEW tm \in Timer, TimerFires(tm) PROVE TypeOK'
    <3>1. TimersOK'
      BY <2>8 DEF TypeOK, TimerFires, TimersOK
    <3>2. ControlOK'
      BY <2>8 DEF TypeOK, TimerFires, ControlOK, Thread, Step, ByeReason
    <3> QED
      BY <2>8, <3>1, <3>2, Frame DEF TypeOK, TimerFires
  <2>23. CASE TimerCalls
    <3>1. TransportOK'
      BY <2>23 DEF TypeOK, TimerCalls, TransportOK, try_connect, SessionOK
    <3>2. ControlOK'
      BY <2>23 DEF TypeOK, TimerCalls, ControlOK, Thread, Step, ByeReason
    <3> QED
      BY <2>23, <3>1, <3>2, Frame DEF TypeOK, TimerCalls
  <2>9. CASE handle_hello
    <3>1. QueuesOK'
      BY <2>9 DEF TypeOK, handle_hello, QueuesOK
    <3>2. ControlOK'
      BY <2>9 DEF TypeOK, handle_hello, ControlOK, Thread, Step, ByeReason
    <3> QED
      BY <2>9, <3>1, <3>2, Frame DEF TypeOK, handle_hello
  <2>10. CASE do_cam_register
    <3>1. SessionOK'
      BY <2>10 DEF TypeOK, do_cam_register, SessionOK
    <3>2. ControlOK'
      BY <2>10 DEF TypeOK, do_cam_register, ControlOK, Thread, Step, ByeReason
    <3> QED
      BY <2>10, <3>1, <3>2, Frame DEF TypeOK, do_cam_register
  <2>11. CASE handle_cam_hello
    <3>1. QueuesOK'
      BY <2>11 DEF TypeOK, handle_cam_hello, QueuesOK
    <3>2. SessionOK'
      BY <2>11 DEF TypeOK, handle_cam_hello, SessionOK
    <3> QED
      BY <2>11, <3>1, <3>2, Frame DEF TypeOK, handle_cam_hello
  <2>12. CASE handle_configure
    <3>1. QueuesOK'
      BY <2>12 DEF TypeOK, handle_configure, QueuesOK
    <3>2. SessionOK'
      BY <2>12 DEF TypeOK, handle_configure, SessionOK, Address
    <3> QED
      BY <2>12, <3>1, <3>2, Frame DEF TypeOK, handle_configure
  <2>13. CASE handle_bye
    <3>1. QueuesOK'
      BY <2>13 DEF TypeOK, handle_bye, QueuesOK
    <3>2. SessionOK'
      <4>1. Head(rx_q_) \in Command
        BY <2>13 DEF TypeOK, handle_bye, QueuesOK
      <4>2. bye_reason_' \in ByeReason
        BY <2>13, <4>1 DEF handle_bye, Command
      <4>3. hello_received_' \in BOOLEAN
        BY <2>13 DEF handle_bye
      <4> QED
        BY <2>13, <4>2, <4>3 DEF TypeOK, handle_bye, SessionOK
    <3> QED
      BY <2>13, <3>1, <3>2, Frame DEF TypeOK, handle_bye
  <2>14. CASE drain_rx
    <3>1. QueuesOK'
      BY <2>14 DEF TypeOK, drain_rx, QueuesOK
    <3> QED
      BY <2>14, <3>1, Frame DEF TypeOK, drain_rx
  <2>15. CASE on_disconnected
    <3>1. TimersOK'
      BY <2>15 DEF TypeOK, on_disconnected, TimersOK, EnterClosed, _reset_reconnect_timer,
         AfterCancel
    <3>2. QueuesOK'
      BY <2>15 DEF TypeOK, on_disconnected, QueuesOK
    <3>3. SessionOK'
      BY <2>15 DEF TypeOK, on_disconnected, SessionOK, EnterClosed
    <3>4. ControlOK'
      BY <2>15 DEF TypeOK, on_disconnected, ControlOK, EnterClosed, SessionOK, Thread, Step,
         ByeReason
    <3> QED
      BY <2>15, <3>1, <3>2, <3>3, <3>4, Frame DEF TypeOK, on_disconnected
  <2>16. ASSUME NEW t \in Thread, on_closed(t) PROVE TypeOK'
    <3>1. SessionOK'
      BY <2>16 DEF TypeOK, on_closed, SessionOK, Address
    <3>2. ControlOK'
      BY <2>16 DEF TypeOK, on_closed, ControlOK, Return, Thread, Step, ByeReason
    <3>3. ObservedOK'
      BY <2>16 DEF TypeOK, on_closed, ObservedOK, ControlOK
    <3> QED
      BY <2>16, <3>1, <3>2, <3>3, Frame DEF TypeOK, on_closed
  <2>17. ASSUME NEW t \in Thread, reconnect(t) PROVE TypeOK'
    <3>1. TransportOK'
      BY <2>17 DEF TypeOK, reconnect, TransportOK
    <3>2. ControlOK'
      BY <2>17 DEF TypeOK, reconnect, ControlOK, Return, Thread, Step, ByeReason
    <3> QED
      BY <2>17, <3>1, <3>2, Frame DEF TypeOK, reconnect
  <2>18. ASSUME NEW t \in Thread, schedule(t) PROVE TypeOK'
    <3>1. TimersOK'
      BY <2>18 DEF TypeOK, schedule, TimersOK
    <3>2. ControlOK'
      BY <2>18 DEF TypeOK, schedule, ControlOK, Return, Thread, Step, ByeReason
    <3> QED
      BY <2>18, <3>1, <3>2, Frame DEF TypeOK, schedule
  <2>19. CASE start
    <3>1. TransportOK'
      BY <2>19 DEF TypeOK, start, TransportOK, try_connect, SessionOK
    <3>2. ObservedOK'
      BY <2>19 DEF TypeOK, start, ObservedOK
    <3>3. LifecycleOK'
      BY SessionAssumption, <2>19 DEF TypeOK, start, LifecycleOK, World
    <3> QED
      BY <2>19, <3>1, <3>2, <3>3, Frame DEF TypeOK, start
  <2>20. CASE stop
    <3>1. TransportOK'
      BY <2>20 DEF TypeOK, stop, TransportOK
    <3>2. QueuesOK'
      BY <2>20 DEF TypeOK, stop, QueuesOK
    <3>3. SessionOK'
      BY <2>20 DEF TypeOK, stop, SessionOK
    <3>4. LifecycleOK'
      BY SessionAssumption, <2>20 DEF TypeOK, stop, LifecycleOK, World
    <3> QED
      BY <2>20, <3>1, <3>2, <3>3, <3>4, Frame DEF TypeOK, stop
  <2>21. CASE stopped
    <3>1. TransportOK'
      BY <2>21 DEF TypeOK, stopped, TransportOK
    <3>2. TimersOK'
      BY <2>21 DEF TypeOK, stopped, TimersOK
    <3>3. QueuesOK'
      BY <2>21, ClosedTasksOK DEF TypeOK, stopped, QueuesOK
    <3>4. LifecycleOK'
      BY SessionAssumption, <2>21 DEF TypeOK, stopped, LifecycleOK, World
    <3> QED
      BY <2>21, <3>1, <3>2, <3>3, <3>4, Frame DEF TypeOK, stopped
  <2>22. CASE UNCHANGED vars
    BY <2>22, Frame DEF TypeOK, vars
  <2> QED
    BY <2>1, <2>2, <2>3, <2>4, <2>5, <2>6, <2>7, <2>8, <2>9, <2>10, <2>11, <2>12, <2>13, <2>14,
       <2>15, <2>16, <2>17, <2>18, <2>19, <2>20, <2>21, <2>22, <2>23, <2>24
       DEF Next, SvcNext, RxNext, HandlerNext
<1>2. QED
  BY TypeInit, <1>1, PTL DEF Spec
-----------------------------------------------------------------------------
(* Close notifications in the task queue of the rx thread. *)

\* try_connect() leaves a request that the woken service loop will take.
LEMMA TryConnectAhead ==
    ASSUME TypeOK, try_connect
    PROVE  wake' /\ requests_q_' # <<>>
<1>1. requests_q_ \in Seq(Address) /\ reconnect_server_address \in Address
  BY DEF TypeOK, TransportOK, SessionOK
<1>2. requests_q_' = Append(requests_q_, reconnect_server_address) /\ wake'
  BY DEF try_connect
<1>3. Len(requests_q_') = Len(requests_q_) + 1 /\ Len(requests_q_) \in Nat
  BY <1>1, <1>2
<1> QED
  BY <1>2, <1>3

\* Appending tasks keeps a notification, and appending one adds it.
LEMMA NotifiesAppend ==
    ASSUME NEW q \in Seq(Task), NEW x \in Task
    PROVE  /\ Notifies(q) => Notifies(Append(q, x))
           /\ Notifies(Append(q, "disconnected"))
  BY DEF Notifies, Task

LEMMA NotifiesConcat ==
    ASSUME NEW q \in Seq(Task), NEW r \in Seq(Task)
    PROVE  /\ Notifies(q) => Notifies(q \o r)
           /\ Notifies(r) => Notifies(q \o r)
<1>1. ASSUME NEW i \in 1..Len(q), q[i] = "disconnected" PROVE Notifies(q \o r)
  <2>1. i \in 1..Len(q \o r) /\ (q \o r)[i] = "disconnected"
    BY <1>1
  <2> QED
    BY <2>1 DEF Notifies
<1>2. ASSUME NEW i \in 1..Len(r), r[i] = "disconnected" PROVE Notifies(q \o r)
  <2>1. Len(q) + i \in 1..Len(q \o r) /\ (q \o r)[Len(q) + i] = "disconnected"
    BY <1>2
  <2> QED
    BY <2>1 DEF Notifies
<1> QED
  BY <1>1, <1>2 DEF Notifies

\* Taking another task off the queue keeps a notification.
LEMMA NotifiesTail ==
    ASSUME NEW q \in Seq(Task), q # <<>>, Head(q) # "disconnected", Notifies(q)
    PROVE  Notifies(Tail(q))
<1>1. PICK i \in 1..Len(q) : q[i] = "disconnected"
  BY DEF Notifies
<1>2. i # 1
  BY <1>1
<1>3. i - 1 \in 1..Len(Tail(q)) /\ Tail(q)[i - 1] = "disconnected"
  BY <1>1, <1>2
<1> QED
  BY <1>3 DEF Notifies

LEMMA ClosedTasksNotify == client_wsi_ # NoWsi => Notifies(ClosedTasks)
  BY DEF ClosedTasks, Notifies

\* The inductive step of StuckInv, one case per action.
LEMMA StuckStep == TypeOK /\ StuckInv /\ [Next]_vars => StuckInv'
<1> SUFFICES ASSUME TypeOK, ProgressInv, TimerInv, CallbackInv, [Next]_vars PROVE StuckInv'
  BY DEF StuckInv
<1> USE SessionAssumption DEF TypeOK, TransportOK, TimersOK, QueuesOK, ControlOK, LifecycleOK, ObservedOK,
        transport, timers, queues, session, control, observed, lifecycle
<1>1. ASSUME NEW w \in Wsi, ConnectStarts(w) PROVE StuckInv'
  <2>1. ProgressInv'
    <3>1. failed' = NoWsi
      BY <1>1 DEF ConnectStarts, SvcReady, CallbackInv
    <3>2. conn'[w] = "connecting" /\ w # failed'
      BY <1>1, <3>1 DEF ConnectStarts
    <3> QED
      BY <3>2 DEF ProgressInv, AttemptAhead, Unreported, Connecting
  <2>2. TimerInv'
    <3>1. failed' = NoWsi
      BY <1>1 DEF ConnectStarts, SvcReady, CallbackInv
    <3>2. conn'[w] = "connecting" /\ w # failed'
      BY <1>1, <3>1 DEF ConnectStarts
    <3> QED
      BY <3>2 DEF TimerInv, Connecting
  <2>3. CallbackInv'
    BY <1>1 DEF ConnectStarts, SvcReady, CallbackInv
  <2> QED
    BY <2>1, <2>2, <2>3 DEF StuckInv
<1>2. ASSUME NEW w \in Wsi, Established(w) PROVE StuckInv'
  <2>1. ProgressInv'
    BY <1>2 DEF Established, SvcReady, _reset_reconnect_timer, AfterCancel, ProgressInv,
       AttemptAhead, Unreported, Reportable, Connecting, Closing
  <2>2. TimerInv'
    BY <1>2 DEF Established, SvcReady, _reset_reconnect_timer, AfterCancel, TimerInv, Connecting
  <2>3. CallbackInv'
    BY <1>2 DEF Established, SvcReady, _reset_reconnect_timer, AfterCancel, CallbackInv
  <2> QED
    BY <2>1, <2>2, <2>3 DEF StuckInv
<1>3. ASSUME NEW w \in Wsi, ConnectionError(w) PROVE StuckInv'
  <2>1. ProgressInv'
    <3>1. pc'["svc"] = "on_closed"
      BY <1>3 DEF ConnectionError, EnterClosed, Thread
    <3> QED
      BY <3>1 DEF ProgressInv, AttemptAhead, Unreported, Closing
  <2>2. TimerInv'
    BY <1>3 DEF ConnectionError, SvcReady, EnterClosed, _reset_reconnect_timer, AfterCancel,
       TimerInv, Connecting
  <2>3. CallbackInv'
    <3>1. pc'["svc"] = "on_closed" /\ reason'["svc"] = "CONN_CLOSE"
      BY <1>3 DEF ConnectionError, EnterClosed, Thread
    <3>2. failed' = w /\ conn' = conn /\ conn[w] = "connecting"
      BY <1>3 DEF ConnectionError
    <3> QED
      BY <3>1, <3>2 DEF CallbackInv
  <2> QED
    BY <2>1, <2>2, <2>3 DEF StuckInv
<1>4. ASSUME NEW w \in Wsi, Closed(w) PROVE StuckInv'
  <2>1. ProgressInv'
    BY <1>4, ClosedTasksNotify, ClosedTasksOK, NotifiesConcat DEF Closed, SvcReady, ProgressInv,
       AttemptAhead, Unreported, Reportable, Connecting, Closing
  <2>2. TimerInv'
    BY <1>4 DEF Closed, SvcReady, TimerInv, Connecting
  <2>3. CallbackInv'
    BY <1>4 DEF Closed, SvcReady, CallbackInv
  <2> QED
    BY <2>1, <2>2, <2>3 DEF StuckInv
<1>5. ASSUME NEW w \in Wsi, NEW c \in world.sent, Receive(w, c) PROVE StuckInv'
  <2>1. ProgressInv'
    BY <1>5 DEF Receive, SvcReady, ProgressInv, AttemptAhead, Unreported, Reportable, Connecting, Closing
  <2>2. TimerInv'
    BY <1>5 DEF Receive, SvcReady, TimerInv, Connecting
  <2>3. CallbackInv'
    BY <1>5 DEF Receive, SvcReady, CallbackInv
  <2> QED
    BY <2>1, <2>2, <2>3 DEF StuckInv
<1>6. CASE ConnectFails
  <2>1. ProgressInv'
    <3>1. pc'["svc"] = "on_closed"
      BY <1>6 DEF ConnectFails, EnterClosed, Thread
    <3> QED
      BY <3>1 DEF ProgressInv, AttemptAhead, Unreported, Closing
  <2>2. TimerInv'
    BY <1>6 DEF ConnectFails, SvcReady, EnterClosed, _reset_reconnect_timer, AfterCancel, TimerInv,
       Connecting
  <2>3. CallbackInv'
    <3>1. pc'["svc"] = "on_closed" /\ reason'["svc"] = "CONN_CLOSE"
      BY <1>6 DEF ConnectFails, EnterClosed, Thread
    <3>2. nulls \in Nat /\ nulls' = nulls + 1 /\ conn' = conn
      BY <1>6 DEF ConnectFails, World
    <3>3. failed' # NoWsi => conn[failed'] = "free"
      BY <1>6 DEF ConnectFails
    <3> QED
      BY <3>1, <3>2, <3>3 DEF CallbackInv
  <2> QED
    BY <2>1, <2>2, <2>3 DEF StuckInv
<1>7. CASE ErrorDone
  <2>1. ProgressInv'
    <3>1. CASE failed = NoWsi
      <4>1. Notifies(rx_task_q_')
        BY <1>7, <3>1, NotifiesAppend DEF ErrorDone, Task
      <4> QED
        BY <4>1 DEF ProgressInv, AttemptAhead
    <3>2. CASE failed # NoWsi
      <4>1. /\ UNCHANGED <<phase, gaveUp, requests_q_, wake, pending, rx_task_q_>>
            /\ pc'["rx"] = pc["rx"] /\ pc["svc"] = "error_done"
            /\ failed' = NoWsi /\ conn[failed] = "connecting"
        BY <1>7, <3>2 DEF ErrorDone
      <4>2. ASSUME Connecting PROVE Connecting'
        <5>1. PICK w \in Wsi : conn[w] = "connecting" /\ w # failed
          BY <4>2 DEF Connecting
        <5>2. conn'[w] = "connecting" /\ w # failed'
          BY <1>7, <3>2, <5>1, <4>1 DEF ErrorDone
        <5> QED
          BY <5>2 DEF Connecting
      <4> QED
        BY <4>1, <4>2, <3>2 DEF ProgressInv, AttemptAhead, Unreported, Reportable, Closing
    <3> QED
      BY <3>1, <3>2
  <2>2. TimerInv'
    BY <1>7 DEF ErrorDone, TimerInv, Connecting
  <2>3. CallbackInv'
    BY <1>7 DEF ErrorDone, CallbackInv
  <2> QED
    BY <2>1, <2>2, <2>3 DEF StuckInv
<1>24. CASE ErrorAgain
  <2>1. ProgressInv'
    <3>1. pc'["svc"] = "on_closed"
      BY <1>24 DEF ErrorAgain, EnterClosed, Thread
    <3> QED
      BY <3>1 DEF ProgressInv, AttemptAhead, Unreported, Closing
  <2>2. TimerInv'
    BY <1>24 DEF ErrorAgain, EnterClosed, _reset_reconnect_timer, TimerInv
  <2>3. CallbackInv'
    BY <1>24 DEF ErrorAgain, EnterClosed, CallbackInv
  <2> QED
    BY <2>1, <2>2, <2>3 DEF StuckInv
<1>8. ASSUME NEW tm \in Timer, TimerFires(tm) PROVE StuckInv'
  <2>1. pc'["svc"] = "try_connect" /\ pc["svc"] = "idle"
    BY <1>8 DEF TimerFires, SvcReady, Thread
  <2>2. ProgressInv' /\ TimerInv'
    BY <2>1 DEF ProgressInv, AttemptAhead, Unreported, TimerInv
  <2>3. CallbackInv'
    BY <1>8, <2>1 DEF TimerFires, CallbackInv
  <2> QED
    BY <2>2, <2>3 DEF StuckInv
<1>23. CASE TimerCalls
  <2>1. wake' /\ requests_q_' # <<>>
    BY <1>23, TryConnectAhead DEF TimerCalls
  <2>2. ProgressInv' /\ TimerInv'
    BY <2>1 DEF ProgressInv, AttemptAhead, Unreported, TimerInv
  <2>3. CallbackInv'
    BY <1>23 DEF TimerCalls, CallbackInv
  <2> QED
    BY <2>2, <2>3 DEF StuckInv
<1>9. CASE handle_hello
  <2>1. ProgressInv'
    BY <1>9 DEF handle_hello, RxReady, ProgressInv, AttemptAhead, Unreported, Reportable, Connecting, Closing,
                Thread
  <2>2. TimerInv'
    BY <1>9 DEF handle_hello, TimerInv, Connecting
  <2>3. CallbackInv'
    BY <1>9 DEF handle_hello, CallbackInv
  <2> QED
    BY <2>1, <2>2, <2>3 DEF StuckInv
<1>10. CASE do_cam_register
  <2>1. ProgressInv'
    BY <1>10 DEF do_cam_register, ProgressInv, AttemptAhead, Unreported, Reportable, Connecting, Closing
  <2>2. TimerInv'
    BY <1>10 DEF do_cam_register, TimerInv, Connecting
  <2>3. CallbackInv'
    BY <1>10 DEF do_cam_register, CallbackInv
  <2> QED
    BY <2>1, <2>2, <2>3 DEF StuckInv
<1>11. CASE handle_cam_hello
  <2>1. ProgressInv'
    BY <1>11 DEF handle_cam_hello, ProgressInv, AttemptAhead, Unreported, Reportable, Connecting, Closing
  <2>2. TimerInv'
    BY <1>11 DEF handle_cam_hello, TimerInv, Connecting
  <2>3. CallbackInv'
    BY <1>11 DEF handle_cam_hello, CallbackInv
  <2> QED
    BY <2>1, <2>2, <2>3 DEF StuckInv
<1>12. CASE handle_configure
  <2>1. ProgressInv'
    BY <1>12 DEF handle_configure, ProgressInv, AttemptAhead, Unreported, Reportable, Connecting, Closing
  <2>2. TimerInv'
    BY <1>12 DEF handle_configure, TimerInv, Connecting
  <2>3. CallbackInv'
    BY <1>12 DEF handle_configure, CallbackInv
  <2> QED
    BY <2>1, <2>2, <2>3 DEF StuckInv
<1>13. CASE handle_bye
  <2>1. ProgressInv'
    BY <1>13 DEF handle_bye, ProgressInv, AttemptAhead, Unreported, Reportable, Connecting, Closing
  <2>2. TimerInv'
    BY <1>13 DEF handle_bye, TimerInv, Connecting
  <2>3. CallbackInv'
    BY <1>13 DEF handle_bye, CallbackInv
  <2> QED
    BY <2>1, <2>2, <2>3 DEF StuckInv
<1>14. CASE drain_rx
  <2>1. ProgressInv'
    BY <1>14, NotifiesTail DEF drain_rx, ProgressInv, AttemptAhead, Unreported, Reportable, Connecting, Closing
  <2>2. TimerInv'
    BY <1>14 DEF drain_rx, TimerInv, Connecting
  <2>3. CallbackInv'
    BY <1>14 DEF drain_rx, CallbackInv
  <2> QED
    BY <2>1, <2>2, <2>3 DEF StuckInv
<1>15. CASE on_disconnected
  <2>1. ProgressInv'
    <3>1. pc'["rx"] = "on_closed"
      BY <1>15 DEF on_disconnected, EnterClosed, Thread
    <3> QED
      BY <3>1 DEF ProgressInv, AttemptAhead, Unreported, Closing
  <2>2. TimerInv'
    BY <1>15 DEF on_disconnected, RxReady, EnterClosed, _reset_reconnect_timer, AfterCancel,
       TimerInv, Connecting
  <2>3. CallbackInv'
    BY <1>15 DEF on_disconnected, RxReady, EnterClosed, _reset_reconnect_timer, AfterCancel,
       CallbackInv
  <2> QED
    BY <2>1, <2>2, <2>3 DEF StuckInv
<1>16. ASSUME NEW t \in Thread, on_closed(t) PROVE StuckInv'
  <2>1. ProgressInv'
    BY <1>16 DEF on_closed, WillReconnect, Return, Thread, ProgressInv, AttemptAhead, Unreported, Reportable,
       Connecting, Closing
  <2>2. TimerInv'
    BY <1>16 DEF on_closed, WillReconnect, Return, Thread, TimerInv, Connecting
  <2>3. CallbackInv'
    BY <1>16 DEF on_closed, WillReconnect, Return, Thread, CallbackInv
  <2> QED
    BY <2>1, <2>2, <2>3 DEF StuckInv
<1>17. ASSUME NEW t \in Thread, reconnect(t) PROVE StuckInv'
  <2>1. ProgressInv'
    <3>1. CASE reconnect_timer_ = NoTimer
      <4>1. pc'[t] = "schedule"
        BY <1>17, <3>1 DEF reconnect
      <4> QED
        BY <4>1 DEF ProgressInv, AttemptAhead, Unreported, Closing, Thread
    <3>2. CASE reconnect_timer_ # NoTimer
      <4>1. UNCHANGED <<phase, conn, failed, requests_q_, wake, pending>>
        BY <1>17, <3>2 DEF reconnect
      <4>2. pc["svc"] = "try_connect" => pc'["svc"] = "try_connect"
        BY <1>17, <3>2 DEF reconnect, Thread
      <4> QED
        BY <4>1, <4>2, <3>2 DEF ProgressInv, AttemptAhead, Unreported, TimerInv, Connecting
    <3> QED
      BY <3>1, <3>2
  <2>2. TimerInv'
    BY <1>17 DEF reconnect, Return, Thread, TimerInv, Connecting
  <2>3. CallbackInv'
    BY <1>17 DEF reconnect, Return, Thread, CallbackInv
  <2> QED
    BY <2>1, <2>2, <2>3 DEF StuckInv
<1>18. ASSUME NEW t \in Thread, schedule(t) PROVE StuckInv'
  <2>1. ProgressInv'
    BY <1>18 DEF schedule, Return, Thread, ProgressInv, AttemptAhead, Unreported, Reportable, Connecting,
       Closing
  <2>2. TimerInv'
    BY <1>18 DEF schedule, Return, Thread, TimerInv, Connecting
  <2>3. CallbackInv'
    BY <1>18 DEF schedule, Return, Thread, CallbackInv
  <2> QED
    BY <2>1, <2>2, <2>3 DEF StuckInv
<1>19. CASE start
  <2>1. wake' /\ requests_q_' # <<>>
    BY <1>19, TryConnectAhead DEF start
  <2>2. ProgressInv' /\ TimerInv'
    BY <2>1 DEF ProgressInv, AttemptAhead, Unreported, TimerInv
  <2>3. CallbackInv'
    BY <1>19 DEF start, CallbackInv
  <2> QED
    BY <2>2, <2>3 DEF StuckInv
<1>20. CASE stop
  <2>1. ProgressInv'
    BY <1>20 DEF stop, ProgressInv, AttemptAhead, Unreported, Reportable, Connecting, Closing
  <2>2. TimerInv'
    BY <1>20 DEF stop, TimerInv, Connecting
  <2>3. CallbackInv'
    BY <1>20 DEF stop, CallbackInv
  <2> QED
    BY <2>1, <2>2, <2>3 DEF StuckInv
<1>21. CASE stopped
  <2>1. ProgressInv'
    BY <1>21 DEF stopped, ProgressInv, AttemptAhead, Unreported, Reportable, Connecting, Closing
  <2>2. TimerInv'
    BY <1>21 DEF stopped, TimerInv, Connecting
  <2>3. CallbackInv'
    <3>1. failed' = NoWsi /\ pc'["svc"] = "idle"
      BY <1>21 DEF stopped, CallbackInv, Thread
    <3> QED
      BY <3>1 DEF CallbackInv
  <2> QED
    BY <2>1, <2>2, <2>3 DEF StuckInv
<1>22. CASE UNCHANGED vars
  BY <1>22 DEF vars, StuckInv, ProgressInv, AttemptAhead, Unreported, Reportable, Connecting, Closing,
     TimerInv, CallbackInv
<1> QED
  BY <1>1, <1>2, <1>3, <1>4, <1>5, <1>6, <1>7, <1>8, <1>9, <1>10, <1>11, <1>12, <1>13, <1>14,
     <1>15, <1>16, <1>17, <1>18, <1>19, <1>20, <1>21, <1>22, <1>23, <1>24
     DEF Next, SvcNext, RxNext, HandlerNext

\* The agent is never left disconnected with nothing under way that leads to
\* the next attempt, however on_error(), on_disconnected(), on_connected(),
\* the timers, stop() and start() interleave.
THEOREM NeverStuckCorrect == Spec => []NeverStuck
<1>1. Init => StuckInv
  BY DEF Init, StuckInv, ProgressInv, TimerInv, CallbackInv, Thread
<1>2. StuckInv /\ TypeOK => NeverStuck
  <2> SUFFICES ASSUME StuckInv, TypeOK, phase = "running", ~gaveUp PROVE Recovering
    BY DEF NeverStuck
  <2>1. CASE Connecting
    BY <2>1 DEF Connecting, Recovering, Live
  <2>2. CASE Reportable
    <3>1. PICK w \in Wsi : conn[w] = "open"
      BY <2>2 DEF Reportable
    <3>2. w # failed
      BY <3>1, SessionAssumption DEF StuckInv, CallbackInv
    <3> QED
      BY <3>1, <3>2 DEF Recovering, Live
  <2>3. CASE AttemptAhead /\ ~Connecting
    BY <2>3 DEF AttemptAhead, Unreported, Recovering
  <2> QED
    BY <2>1, <2>2, <2>3 DEF StuckInv, ProgressInv
<1>3. QED
  BY <1>1, <1>2, StuckStep, TypeCorrect, PTL DEF Spec
-----------------------------------------------------------------------------
(***************************************************************************)
(* The orderly life. There is one thing under way that leads to the next   *)
(* attempt, and each step passes it on: a timer, its call, a request, a    *)
(* wsi, the error callback, the close notification, its handling.          *)
(***************************************************************************)
Token == {"timer", "call", "request", "wsi", "error", "notice", "close"}

Holds(k) ==
    \/ k = "timer"   /\ pending # {}
    \/ k = "call"    /\ pc["svc"] = "try_connect"
    \/ k = "request" /\ requests_q_ # <<>>
    \/ k = "wsi"     /\ \E w \in Wsi : Live(w)
    \/ k = "error"   /\ Closing("svc")
    \/ k = "notice"  /\ Notifies(rx_task_q_)
    \/ k = "close"   /\ Closing("rx")

\* Two tokens are never held at once,
Exclusive == \A j, k \in Token : Holds(j) /\ Holds(k) => j = k

\* none is held twice,
OneNotice(q) ==
    \A i, j \in 1..Len(q) : q[i] = "disconnected" /\ q[j] = "disconnected" => i = j
Single ==
    /\ \A a, b \in pending : a = b
    /\ Len(requests_q_) <= 1
    /\ \A v, w \in Wsi : Live(v) /\ Live(w) => v = w
    /\ OneNotice(rx_task_q_)

\* and none before the start or after the agent gave up.
Quiet == \A k \in Token : ~Holds(k)
QuietInv ==
    /\ gaveUp => Quiet
    /\ starts = 0 => Quiet /\ phase = "new" /\ reconnect_server_address = "main"

\* The error callback is about a wsi, its end finds no other one alive, and
\* client_wsi_ is the wsi that is alive.
CallbackOrderly ==
    /\ Closing("svc") \/ pc["svc"] = "error_done" => failed # NoWsi
    /\ pc["svc"] = "error_done" => ~Holds("wsi")
    /\ \A w \in Wsi : Live(w) => client_wsi_ = w

\* Commands wait only while their connection is open or its loss is to be
\* handled after them, and so does the registration they lead to.
Open == \E w \in Wsi : conn[w] = "open"
CommandInv ==
    /\ rx_q_ # <<>> => Open \/ (Notifies(rx_task_q_) /\ Head(rx_task_q_) = "drain")
    /\ registered_ \/ pc["rx"] = "cam_register_sent" => Open \/ Notifies(rx_task_q_)

\* Once on_closed() has chosen the address it stays until the next attempt.
Chosen(a) == a = "redirect" => lastClose = "RECONNECT"
RedirectInv ==
    /\ \/ Holds("timer") \/ Holds("call")
       \/ \E t \in Thread : pc[t] \in {"reconnect", "schedule"}
       => Chosen(reconnect_server_address)
    /\ requests_q_ # <<>> => Chosen(Head(requests_q_))

OrderlyBody == /\ Exclusive /\ Single /\ QuietInv
               /\ CallbackOrderly /\ CommandInv /\ RedirectInv
OrderlyInv == Orderly => OrderlyBody

\* The life stays orderly only if it was.
LEMMA OrderlyBefore ==
    TypeOK /\ [Next]_vars /\ Orderly' => Orderly /\ ~ConnectFails
<1> SUFFICES ASSUME TypeOK, [Next]_vars, Orderly' PROVE Orderly /\ ~ConnectFails
  OBVIOUS
<1>1. starts \in Nat /\ nulls \in Nat
  BY SessionAssumption DEF TypeOK, LifecycleOK, World
<1>2. starts' \in {starts, starts + 1} /\ nulls' \in {nulls, nulls + 1}
  BY DEF Next, SvcNext, RxNext, HandlerNext, ConnectStarts, ConnectFails, Established,
     ConnectionError, Closed, Receive, ErrorDone, ErrorAgain, TimerFires, TimerCalls, handle_hello,
     do_cam_register, handle_cam_hello, handle_configure, handle_bye, drain_rx,
     on_disconnected, on_closed, reconnect, schedule, start, stop, stopped, vars, lifecycle
<1>3. ConnectFails => nulls' = nulls + 1
  BY DEF ConnectFails
<1> QED
  BY <1>1, <1>2, <1>3 DEF Orderly

\* A step that passes the token on, and one that creates none.
LEMMA TokenPassed ==
    ASSUME Exclusive, NEW old \in Token, NEW new \in Token, Holds(old),
           \A k \in Token : Holds(k)' => Holds(k) \/ k = new,
           old = new \/ ~Holds(old)'
    PROVE  Exclusive'
  BY DEF Exclusive

LEMMA TokenKept ==
    ASSUME Exclusive, \A k \in Token : Holds(k)' => Holds(k)
    PROVE  Exclusive' /\ (Quiet => Quiet')
  BY DEF Exclusive, Quiet

\* A notification alone in the queue, when it is posted and when it is taken.
LEMMA NoticePosted ==
    ASSUME NEW q \in Seq(Task), ~Notifies(q), NEW r \in Seq(Task), OneNotice(r)
    PROVE  OneNotice(q \o r)
<1> SUFFICES ASSUME NEW i \in 1..Len(q \o r), NEW j \in 1..Len(q \o r),
                    (q \o r)[i] = "disconnected", (q \o r)[j] = "disconnected"
             PROVE  i = j
  BY DEF OneNotice
<1>1. ASSUME NEW n \in 1..Len(q \o r), (q \o r)[n] = "disconnected"
      PROVE  n - Len(q) \in 1..Len(r) /\ r[n - Len(q)] = "disconnected"
  <2>1. n \notin 1..Len(q)
    BY <1>1 DEF Notifies
  <2> QED
    BY <1>1, <2>1
<1>2. i - Len(q) = j - Len(q)
  BY <1>1 DEF OneNotice
<1> QED
  BY <1>2

LEMMA NoticeTaken ==
    ASSUME NEW q \in Seq(Task), q # <<>>, OneNotice(q)
    PROVE  /\ OneNotice(Tail(q))
           /\ Notifies(Tail(q)) => Notifies(q)
           /\ Head(q) = "disconnected" => ~Notifies(Tail(q))
<1>0. Len(q) \in Nat /\ Len(q) > 0 /\ Len(Tail(q)) = Len(q) - 1 /\ Head(q) = q[1]
  OBVIOUS
<1>1. \A i \in 1..Len(Tail(q)) : i + 1 \in 1..Len(q) /\ Tail(q)[i] = q[i + 1]
  OBVIOUS
<1>2. OneNotice(Tail(q))
  <2> SUFFICES ASSUME NEW i \in 1..Len(Tail(q)), NEW j \in 1..Len(Tail(q)),
                      Tail(q)[i] = "disconnected", Tail(q)[j] = "disconnected"
               PROVE  i = j
    BY DEF OneNotice
  <2>1. i + 1 = j + 1
    BY <1>1 DEF OneNotice
  <2> QED
    BY <1>0, <2>1
<1>3. Notifies(Tail(q)) => Notifies(q)
  BY <1>1 DEF Notifies
<1>4. ASSUME Head(q) = "disconnected", Notifies(Tail(q)) PROVE FALSE
  <2>1. PICK i \in 1..Len(Tail(q)) : Tail(q)[i] = "disconnected"
    BY <1>4 DEF Notifies
  <2>2. i + 1 = 1
    BY <1>0, <1>1, <1>4, <2>1 DEF OneNotice
  <2> QED
    BY <1>0, <2>2
<1> QED
  BY <1>2, <1>3, <1>4

\* A queue without a notification begins with a drain, whatever is appended.
LEMMA DrainFirst ==
    ASSUME NEW q \in Seq(Task), ~Notifies(q)
    PROVE  Head(q \o <<"drain", "disconnected">>) = "drain"
<1>1. CASE q = <<>>
  BY <1>1
<1>2. CASE q # <<>>
  <2>1. 1 \in 1..Len(q) /\ Head(q) = q[1] /\ q[1] \in Task
    BY <1>2
  <2>2. q[1] = "drain"
    BY <2>1 DEF Notifies, Task
  <2>3. <<"drain", "disconnected">> \in Seq(Task)
    BY DEF Task
  <2> QED
    BY <1>2, <2>1, <2>2, <2>3
<1> QED
  BY <1>1, <1>2


\* The steps of the rx thread that handle a command, and the receipt of one.
LEMMA OrderlyCommands ==
    ASSUME TypeOK, CallbackInv, OrderlyBody,
           \/ \E w \in Wsi, c \in world.sent : Receive(w, c)
           \/ handle_hello \/ do_cam_register \/ handle_cam_hello
           \/ handle_configure \/ handle_bye
    PROVE  OrderlyBody'
<1>0. /\ Exclusive /\ Single /\ QuietInv /\ CallbackOrderly /\ CommandInv /\ RedirectInv
      /\ rx_q_ \in Seq(Command) /\ pc \in [Thread -> Step] /\ "rx" \in Thread /\ "svc" \in Thread
  BY DEF OrderlyBody, TypeOK, QueuesOK, ControlOK, Thread
<1>1. /\ UNCHANGED <<pending, requests_q_, conn, failed, client_wsi_, rx_task_q_, gaveUp, starts,
                     phase, lastClose>>
      /\ pc'["svc"] = pc["svc"]
      /\ pc'["rx"] = pc["rx"] \/ (~Closing("rx") /\ ~Closing("rx")')
  BY <1>0 DEF Receive, handle_hello, do_cam_register, handle_cam_hello, handle_configure,
     handle_bye, RxReady, Closing, transport, timers, queues, observed, lifecycle, control
<1>2. /\ \A k \in Token : Holds(k)' = Holds(k)
      /\ \A w \in Wsi : Live(w)' = Live(w)
      /\ Closing("svc")' = Closing("svc") /\ Closing("rx")' = Closing("rx")
      /\ Open' = Open /\ Notifies(rx_task_q_)' = Notifies(rx_task_q_)
  BY <1>1 DEF Holds, Live, Closing, Open, Token
<1>3. Exclusive' /\ Single'
  BY <1>0, <1>1, <1>2 DEF Exclusive, Single
<1>4. rx_q_ # <<>> => Open \/ Notifies(rx_task_q_)
  BY <1>0 DEF CommandInv
<1>5. ASSUME Open \/ Notifies(rx_task_q_)
      PROVE  /\ \E k \in Token : Holds(k)
             /\ ~Holds("timer") /\ ~Holds("call") /\ ~Closing("svc") /\ ~Closing("rx")
  <2>1. Open => Holds("wsi")
    <3> SUFFICES ASSUME NEW w \in Wsi, conn[w] = "open" PROVE Live(w)
      BY DEF Open, Holds
    <3> QED
      BY SessionAssumption DEF Live, CallbackInv
  <2>2. Notifies(rx_task_q_) => Holds("notice")
    BY DEF Holds
  <2> QED
    BY <1>0, <1>5, <2>1, <2>2 DEF Exclusive, Token, Holds
<1>6. QuietInv'
  <2>1. CASE reconnect_server_address' = reconnect_server_address
    BY <1>0, <1>1, <1>2, <2>1 DEF QuietInv, Quiet
  <2>2. CASE handle_configure
    BY <1>0, <1>1, <1>2, <1>4, <1>5, <2>2 DEF QuietInv, Quiet, handle_configure
  <2> QED
    BY <2>1, <2>2 DEF Receive, handle_hello, do_cam_register, handle_cam_hello, handle_bye, session
<1>7. CallbackOrderly'
  BY <1>0, <1>1, <1>2 DEF CallbackOrderly, Token
<1>8. CommandInv'
  <2>1. rx_q_' # <<>> => Open \/ (Notifies(rx_task_q_) /\ Head(rx_task_q_) = "drain")
    <3>1. CASE \E w \in Wsi, c \in world.sent : Receive(w, c)
      BY <3>1 DEF Receive, Open
    <3>2. CASE rx_q_ # <<>>
      BY <1>0, <3>2 DEF CommandInv
    <3> QED
      BY <1>0, <3>1, <3>2 DEF handle_hello, do_cam_register, handle_cam_hello, handle_configure,
         handle_bye, queues
  <2>2. registered_' \/ pc'["rx"] = "cam_register_sent" => Open \/ Notifies(rx_task_q_)
    <3>1. CASE handle_hello
      BY <1>4, <3>1 DEF handle_hello
    <3>2. CASE do_cam_register
      BY <1>0, <3>2 DEF do_cam_register, CommandInv
    <3>3. CASE UNCHANGED <<registered_, pc>>
      BY <1>0, <3>3 DEF CommandInv
    <3> QED
      BY <3>1, <3>2, <3>3 DEF Receive, handle_cam_hello, handle_configure, handle_bye, session,
         control
  <2> QED
    BY <1>1, <1>2, <2>1, <2>2 DEF CommandInv
<1>9. RedirectInv'
  <2>1. /\ Holds("timer")' = Holds("timer") /\ Holds("call")' = Holds("call")
        /\ \A t \in Thread : pc'[t] \in {"reconnect", "schedule"} => pc[t] = pc'[t] /\ Closing(t)
    BY <1>1, <1>2 DEF Token, Thread, Closing
  <2>2. \/ reconnect_server_address' = reconnect_server_address
        \/ ~Holds("timer") /\ ~Holds("call") /\ ~Closing("svc") /\ ~Closing("rx")
    BY <1>4, <1>5 DEF Receive, handle_hello, do_cam_register, handle_cam_hello, handle_configure,
       handle_bye, session
  <2> QED
    BY <1>0, <1>1, <2>1, <2>2 DEF RedirectInv, Chosen, Thread
<1> QED
  BY <1>3, <1>6, <1>7, <1>8, <1>9 DEF OrderlyBody

\* While a token is held the agent was started and has not given up, and what
\* waits for an open connection waits only if the token is one.
LEMMA Busy ==
    ASSUME Exclusive, QuietInv, NEW k \in Token, Holds(k)
    PROVE  ~gaveUp /\ starts # 0 /\ \A j \in Token : Holds(j) => j = k
  BY DEF Exclusive, QuietInv, Quiet

LEMMA OpenIsLive == CallbackInv /\ Open => Holds("wsi")
<1> SUFFICES ASSUME CallbackInv, NEW w \in Wsi, conn[w] = "open" PROVE Live(w)
  BY DEF Open, Holds
<1> QED
  BY SessionAssumption DEF Live, CallbackInv

\* The service thread between two callbacks.
LEMMA NothingFailed ==
    ASSUME TypeOK, CallbackInv, pc["svc"] = "idle"
    PROVE  /\ failed = NoWsi /\ ~Closing("svc") /\ ~Holds("call")
           /\ \A w \in Wsi : Live(w) <=> conn[w] # "free"
<1>1. failed = NoWsi /\ ~Closing("svc") /\ ~Holds("call")
  BY DEF CallbackInv, Closing, Holds
<1> QED
  BY <1>1, SessionAssumption DEF Live

\* A request becomes a wsi.
LEMMA OrderlyConnectStarts ==
    ASSUME TypeOK, CallbackInv, OrderlyBody, NEW w \in Wsi, ConnectStarts(w)
    PROVE  OrderlyBody'
<1>0. /\ Exclusive /\ Single /\ QuietInv /\ CallbackOrderly /\ CommandInv /\ RedirectInv
      /\ requests_q_ \in Seq(Address) /\ pc["svc"] = "idle" /\ requests_q_ # <<>>
      /\ conn \in [Wsi -> {"free", "connecting", "open"}]
  BY DEF OrderlyBody, TypeOK, TransportOK, ConnectStarts, SvcReady
<1>1. /\ UNCHANGED <<pending, failed, rx_q_, rx_task_q_, gaveUp, starts, phase, lastClose,
                     registered_, reconnect_server_address, pc>>
      /\ conn' = [conn EXCEPT ![w] = "connecting"] /\ client_wsi_' = w
      /\ requests_q_' = Tail(requests_q_)
  BY DEF ConnectStarts, timers, queues, session, observed, lifecycle, control
<1>2. /\ ~gaveUp /\ starts # 0 /\ ~Holds("wsi") /\ ~Holds("notice") /\ ~Holds("timer")
      /\ Holds("request")
  BY <1>0, Busy DEF Token, Holds
<1>3. requests_q_' = <<>>
  BY <1>0, <1>1 DEF Single
<1>4. /\ failed = NoWsi /\ \A v \in Wsi : conn[v] = "free"
  BY <1>0, <1>2, NothingFailed DEF Holds
<1>5. \A v \in Wsi : Live(v)' => v = w
  BY <1>0, <1>1, <1>4 DEF Live
<1>6. Exclusive'
  <2>1. \A k \in Token : Holds(k)' => Holds(k) \/ k = "wsi"
    BY <1>1, <1>3 DEF Holds, Closing, Token
  <2>2. ~Holds("request")'
    BY <1>3 DEF Holds
  <2> QED
    BY <1>0, <1>2, <2>1, <2>2, TokenPassed DEF Token
<1>7. Single'
  BY <1>0, <1>1, <1>3, <1>5 DEF Single
<1>8. QuietInv'
  BY <1>1, <1>2 DEF QuietInv
<1>9. CallbackOrderly'
  BY <1>0, <1>1, <1>5 DEF CallbackOrderly, Closing
<1>10. CommandInv'
  <2>1. ~Open /\ ~Notifies(rx_task_q_)
    BY <1>2, <1>4 DEF Open, Holds
  <2>2. rx_q_ = <<>> /\ ~registered_ /\ pc["rx"] # "cam_register_sent"
    BY <1>0, <2>1 DEF CommandInv
  <2> QED
    BY <1>1, <2>2 DEF CommandInv
<1>11. RedirectInv'
  BY <1>0, <1>1, <1>3 DEF RedirectInv, Holds, Chosen
<1> QED
  BY <1>6, <1>7, <1>8, <1>9, <1>10, <1>11 DEF OrderlyBody

\* The wsi is established: it stays the token.
LEMMA OrderlyEstablished ==
    ASSUME TypeOK, CallbackInv, OrderlyBody, NEW w \in Wsi, Established(w)
    PROVE  OrderlyBody'
<1>0. /\ Exclusive /\ Single /\ QuietInv /\ CallbackOrderly /\ CommandInv /\ RedirectInv
      /\ pc["svc"] = "idle" /\ conn[w] = "connecting"
      /\ conn \in [Wsi -> {"free", "connecting", "open"}]
  BY DEF OrderlyBody, TypeOK, TransportOK, Established, SvcReady
<1>1. /\ UNCHANGED <<requests_q_, failed, rx_q_, rx_task_q_, gaveUp, starts, phase, lastClose,
                     reconnect_server_address, pc>>
      /\ conn' = [conn EXCEPT ![w] = "open"] /\ client_wsi_' = w /\ ~registered_'
      /\ pending' \subseteq pending
  BY DEF Established, timers, queues, session, observed, lifecycle, control,
     _reset_reconnect_timer, AfterCancel
<1>2. /\ Live(w) /\ Holds("wsi") /\ Open' /\ failed = NoWsi
      /\ \A v \in Wsi : Live(v)' <=> Live(v)
  BY <1>0, <1>1, NothingFailed DEF Live, Holds, Open
<1>3. ~gaveUp /\ starts # 0
  BY <1>0, <1>2, Busy DEF Token
<1>4. \A k \in Token : Holds(k)' => Holds(k)
  BY <1>1, <1>2 DEF Holds, Closing, Token
<1>5. Exclusive'
  BY <1>0, <1>4, TokenKept
<1>6. Single'
  BY <1>0, <1>1, <1>2 DEF Single
<1>7. QuietInv'
  BY <1>1, <1>3 DEF QuietInv
<1>8. CallbackOrderly'
  BY <1>0, <1>1, <1>2 DEF CallbackOrderly, Closing, Single
<1>9. CommandInv'
  BY <1>2 DEF CommandInv
<1>10. RedirectInv'
  BY <1>0, <1>1 DEF RedirectInv, Holds, Chosen
<1> QED
  BY <1>5, <1>6, <1>7, <1>8, <1>9, <1>10 DEF OrderlyBody

\* A failed attempt: the wsi becomes the error callback.
LEMMA OrderlyConnectionError ==
    ASSUME TypeOK, CallbackInv, OrderlyBody, NEW w \in Wsi, ConnectionError(w)
    PROVE  OrderlyBody'
<1>0. /\ Exclusive /\ Single /\ QuietInv /\ CallbackOrderly /\ CommandInv /\ RedirectInv
      /\ pc["svc"] = "idle" /\ conn[w] = "connecting"
      /\ rx_task_q_ \in Seq(Task) /\ pc \in [Thread -> Step]
  BY DEF OrderlyBody, TypeOK, ControlOK, QueuesOK, ConnectionError, SvcReady
<1>1. /\ UNCHANGED <<conn, client_wsi_, requests_q_, rx_q_, gaveUp, starts, phase, lastClose,
                     reconnect_server_address>>
      /\ failed' = w /\ ~registered_' /\ pending' \subseteq pending
      /\ pc' = [pc EXCEPT !["svc"] = "on_closed"]
      /\ rx_task_q_' = Append(rx_task_q_, "drain")
  BY DEF ConnectionError, EnterClosed, transport, timers, queues, session, observed, lifecycle,
     _reset_reconnect_timer, AfterCancel
<1>2. /\ Live(w) /\ Holds("wsi") /\ failed = NoWsi /\ w # NoWsi
      /\ \A v \in Wsi : ~Live(v)'
  BY <1>0, <1>1, NothingFailed, SessionAssumption DEF Live, Holds, Single
<1>3. ~gaveUp /\ starts # 0 /\ ~Holds("notice")
  BY <1>0, <1>2, Busy DEF Token
<1>4. /\ pc'["svc"] = "on_closed" /\ pc'["rx"] = pc["rx"] /\ Closing("rx")' = Closing("rx")
      /\ Closing("svc")'
  BY <1>0, <1>1 DEF Closing, Thread
<1>5. ~Notifies(rx_task_q_')
  <2>1. ~Notifies(rx_task_q_)
    BY <1>3 DEF Holds
  <2> QED
    BY <1>0, <1>1, <2>1 DEF Notifies
<1>6. Exclusive'
  <2>1. \A k \in Token : Holds(k)' => Holds(k) \/ k = "error"
    BY <1>1, <1>2, <1>4, <1>5 DEF Holds, Token
  <2>2. ~Holds("wsi")'
    BY <1>2 DEF Holds
  <2> QED
    BY <1>0, <1>2, <2>1, <2>2, TokenPassed DEF Token
<1>7. Single'
  BY <1>0, <1>1, <1>2, <1>5 DEF Single, OneNotice, Notifies
<1>8. QuietInv'
  BY <1>1, <1>3 DEF QuietInv
<1>9. CallbackOrderly'
  BY <1>1, <1>2, <1>4 DEF CallbackOrderly, Closing, Holds
<1>10. CommandInv'
  <2>1. Open => conn[w] = "open"
    BY <1>0, <1>2, NothingFailed DEF Open, Single
  <2>2. rx_q_ = <<>> /\ pc["rx"] # "cam_register_sent"
    BY <1>0, <1>3, <2>1 DEF CommandInv, Holds
  <2> QED
    BY <1>1, <1>4, <2>2 DEF CommandInv
<1>11. RedirectInv'
  <2>1. \A t \in Thread : pc'[t] \in {"reconnect", "schedule"} => pc[t] \in {"reconnect", "schedule"}
    BY <1>4 DEF Thread
  <2>2. (Holds("timer")' => Holds("timer")) /\ ~Holds("call")'
    BY <1>1, <1>4 DEF Holds
  <2> QED
    BY <1>0, <1>1, <2>1, <2>2 DEF RedirectInv, Chosen
<1> QED
  BY <1>6, <1>7, <1>8, <1>9, <1>10, <1>11 DEF OrderlyBody

\* The loss of an open connection: the wsi becomes the notice.
LEMMA OrderlyClosed ==
    ASSUME TypeOK, CallbackInv, OrderlyBody, NEW w \in Wsi, Closed(w)
    PROVE  OrderlyBody'
<1>0. /\ Exclusive /\ Single /\ QuietInv /\ CallbackOrderly /\ CommandInv /\ RedirectInv
      /\ pc["svc"] = "idle" /\ conn[w] = "open"
      /\ conn \in [Wsi -> {"free", "connecting", "open"}]
      /\ rx_task_q_ \in Seq(Task)
  BY DEF OrderlyBody, TypeOK, TransportOK, QueuesOK, Closed, SvcReady
<1>1. /\ UNCHANGED <<pending, requests_q_, rx_q_, gaveUp, starts, phase, lastClose, failed,
                     registered_, reconnect_server_address, pc>>
      /\ conn' = [conn EXCEPT ![w] = "free"]
      /\ rx_task_q_' = rx_task_q_ \o ClosedTasks
  BY DEF Closed, timers, session, observed, lifecycle, control
<1>2. /\ Live(w) /\ Holds("wsi") /\ failed = NoWsi /\ client_wsi_ = w
      /\ \A v \in Wsi : ~Live(v)'
  BY <1>0, <1>1, NothingFailed DEF Live, Holds, Single, CallbackOrderly
<1>3. ~gaveUp /\ starts # 0 /\ ~Holds("notice") /\ ~Notifies(rx_task_q_)
  BY <1>0, <1>2, Busy DEF Token, Holds
<1>4. /\ ClosedTasks = <<"drain", "disconnected">> /\ ClosedTasks \in Seq(Task)
  <2>1. client_wsi_ # NoWsi
    BY <1>2, SessionAssumption
  <2> QED
    BY <2>1, ClosedTasksOK DEF ClosedTasks
<1>5. /\ OneNotice(rx_task_q_') /\ Notifies(rx_task_q_') /\ Head(rx_task_q_') = "drain"
  <2>1. OneNotice(<<"drain", "disconnected">>) /\ Notifies(<<"drain", "disconnected">>)
    BY DEF OneNotice, Notifies
  <2>2. OneNotice(rx_task_q_')
    BY <1>0, <1>1, <1>3, <1>4, <2>1, NoticePosted
  <2>3. Notifies(rx_task_q_')
    BY <1>0, <1>1, <1>4, <2>1, NotifiesConcat
  <2>4. Head(rx_task_q_') = "drain"
    BY <1>0, <1>1, <1>3, <1>4, DrainFirst
  <2> QED
    BY <2>2, <2>3, <2>4
<1>6. Exclusive'
  <2>1. \A k \in Token : Holds(k)' => Holds(k) \/ k = "notice"
    BY <1>1, <1>2 DEF Holds, Closing, Token
  <2>2. ~Holds("wsi")'
    BY <1>2 DEF Holds
  <2> QED
    BY <1>0, <1>2, <2>1, <2>2, TokenPassed DEF Token
<1>7. Single'
  BY <1>0, <1>1, <1>2, <1>5 DEF Single
<1>8. QuietInv'
  BY <1>1, <1>3 DEF QuietInv
<1>9. CallbackOrderly'
  BY <1>0, <1>1, <1>2 DEF CallbackOrderly, Closing, Holds
<1>10. CommandInv'
  BY <1>5 DEF CommandInv
<1>11. RedirectInv'
  BY <1>0, <1>1 DEF RedirectInv, Holds, Chosen
<1> QED
  BY <1>6, <1>7, <1>8, <1>9, <1>10, <1>11 DEF OrderlyBody

\* The end of the error callback touches no token.
LEMMA OrderlyErrorDone ==
    ASSUME TypeOK, CallbackInv, OrderlyBody, ErrorDone, Orderly
    PROVE  OrderlyBody'
<1>0. /\ Exclusive /\ Single /\ QuietInv /\ CallbackOrderly /\ CommandInv /\ RedirectInv
      /\ pc["svc"] = "error_done" /\ failed # NoWsi /\ failed \in Wsi \cup {NoWsi}
      /\ conn \in [Wsi -> {"free", "connecting", "open"}] /\ pc \in [Thread -> Step]
      /\ conn[failed] = "connecting"
  BY DEF OrderlyBody, TypeOK, TransportOK, ControlOK, ErrorDone, CallbackOrderly, CallbackInv,
     Orderly
<1>1. /\ UNCHANGED <<pending, requests_q_, rx_q_, rx_task_q_, gaveUp, starts, phase, lastClose,
                     registered_, reconnect_server_address>>
      /\ conn' = [conn EXCEPT ![failed] = "free"] /\ failed' = NoWsi
      /\ pc' = [pc EXCEPT !["svc"] = "idle"]
  BY <1>0 DEF ErrorDone, timers, session, observed, lifecycle
<1>2. \A v \in Wsi : ~Live(v) /\ ~Live(v)'
  BY <1>0, <1>1, SessionAssumption DEF Live, Holds, CallbackOrderly
<1>3. /\ pc'["svc"] = "idle" /\ pc'["rx"] = pc["rx"] /\ Closing("rx")' = Closing("rx")
      /\ ~Closing("svc") /\ ~Closing("svc")'
  BY <1>0, <1>1 DEF Closing, Thread
<1>4. \A k \in Token : Holds(k)' => Holds(k)
  BY <1>1, <1>2, <1>3 DEF Holds, Token
<1>5. Exclusive' /\ (Quiet => Quiet')
  BY <1>0, <1>4, TokenKept
<1>6. Single'
  BY <1>0, <1>1, <1>2 DEF Single
<1>7. QuietInv'
  BY <1>0, <1>1, <1>5 DEF QuietInv
<1>8. CallbackOrderly'
  BY <1>2, <1>3 DEF CallbackOrderly
<1>9. CommandInv'
  <2>1. ~Open
    BY <1>2, OpenIsLive DEF Holds
  <2> QED
    BY <1>0, <1>1, <1>3, <2>1 DEF CommandInv
<1>10. RedirectInv'
  <2>1. \A t \in Thread : pc'[t] \in {"reconnect", "schedule"} => pc[t] = pc'[t]
    BY <1>3 DEF Thread
  <2>2. (Holds("timer")' => Holds("timer")) /\ ~Holds("call")'
    BY <1>1, <1>3 DEF Holds
  <2> QED
    BY <1>0, <1>1, <2>1, <2>2 DEF RedirectInv, Chosen
<1> QED
  BY <1>5, <1>6, <1>7, <1>8, <1>9, <1>10 DEF OrderlyBody

\* A timer becomes its call,
LEMMA OrderlyTimerFires ==
    ASSUME TypeOK, CallbackInv, OrderlyBody, NEW tm \in Timer, TimerFires(tm)
    PROVE  OrderlyBody'
<1>0. /\ Exclusive /\ Single /\ QuietInv /\ CallbackOrderly /\ CommandInv /\ RedirectInv
      /\ pc["svc"] = "idle" /\ tm \in pending /\ pc \in [Thread -> Step]
  BY DEF OrderlyBody, TypeOK, ControlOK, TimerFires, SvcReady
<1>1. /\ UNCHANGED <<conn, client_wsi_, failed, requests_q_, rx_q_, rx_task_q_, gaveUp, starts,
                     phase, lastClose, registered_, reconnect_server_address>>
      /\ pending' = pending \ {tm} /\ pc' = [pc EXCEPT !["svc"] = "try_connect"]
  BY DEF TimerFires, transport, queues, session, observed, lifecycle
<1>2. Holds("timer") /\ ~gaveUp /\ starts # 0
  BY <1>0, Busy DEF Holds, Token
<1>3. /\ pending' = {}
      /\ pc'["svc"] = "try_connect" /\ pc'["rx"] = pc["rx"] /\ Closing("rx")' = Closing("rx")
      /\ ~Closing("svc")'
  BY <1>0, <1>1 DEF Single, Closing, Thread
<1>4. Exclusive'
  <2>1. \A k \in Token : Holds(k)' => Holds(k) \/ k = "call"
    BY <1>1, <1>3 DEF Holds, Live, Token
  <2>2. ~Holds("timer")'
    BY <1>3 DEF Holds
  <2> QED
    BY <1>0, <1>2, <2>1, <2>2, TokenPassed DEF Token
<1>5. Single'
  BY <1>0, <1>1, <1>3 DEF Single, Live
<1>6. QuietInv'
  BY <1>1, <1>2 DEF QuietInv
<1>7. CallbackOrderly'
  BY <1>0, <1>1, <1>3 DEF CallbackOrderly, Live
<1>8. CommandInv'
  BY <1>0, <1>1, <1>3 DEF CommandInv, Open
<1>9. RedirectInv'
  BY <1>0, <1>1, <1>2 DEF RedirectInv, Chosen
<1> QED
  BY <1>4, <1>5, <1>6, <1>7, <1>8, <1>9 DEF OrderlyBody

\* and the call a request.
LEMMA OrderlyTimerCalls ==
    ASSUME TypeOK, CallbackInv, OrderlyBody, TimerCalls
    PROVE  OrderlyBody'
<1>0. /\ Exclusive /\ Single /\ QuietInv /\ CallbackOrderly /\ CommandInv /\ RedirectInv
      /\ pc["svc"] = "try_connect" /\ pc \in [Thread -> Step]
  BY DEF OrderlyBody, TypeOK, ControlOK, TimerCalls
<1>1. /\ UNCHANGED <<conn, client_wsi_, failed, pending, rx_q_, rx_task_q_, gaveUp, starts,
                     phase, lastClose, registered_, reconnect_server_address>>
      /\ requests_q_' = Append(requests_q_, reconnect_server_address)
      /\ pc' = [pc EXCEPT !["svc"] = "idle"]
  BY DEF TimerCalls, try_connect, timers, queues, session, observed, lifecycle
<1>2. Holds("call") /\ ~gaveUp /\ starts # 0 /\ ~Holds("request")
  BY <1>0, Busy DEF Holds, Token
<1>3. /\ requests_q_' = <<reconnect_server_address>>
      /\ pc'["svc"] = "idle" /\ pc'["rx"] = pc["rx"] /\ Closing("rx")' = Closing("rx")
      /\ ~Closing("svc")'
  BY <1>0, <1>1, <1>2 DEF Closing, Thread, Holds
<1>4. Exclusive'
  <2>1. \A k \in Token : Holds(k)' => Holds(k) \/ k = "request"
    BY <1>1, <1>3 DEF Holds, Live, Token
  <2>2. ~Holds("call")'
    BY <1>3 DEF Holds
  <2> QED
    BY <1>0, <1>2, <2>1, <2>2, TokenPassed DEF Token
<1>5. Single'
  BY <1>0, <1>1, <1>3 DEF Single, Live
<1>6. QuietInv'
  BY <1>1, <1>2 DEF QuietInv
<1>7. CallbackOrderly'
  BY <1>0, <1>1, <1>3 DEF CallbackOrderly, Live
<1>8. CommandInv'
  BY <1>0, <1>1, <1>3 DEF CommandInv, Open
<1>9. RedirectInv'
  <2>1. Chosen(reconnect_server_address)
    BY <1>0, <1>2 DEF RedirectInv
  <2>2. Head(requests_q_') = reconnect_server_address
    BY <1>3
  <2> QED
    BY <1>1, <2>1, <2>2 DEF RedirectInv, Chosen
<1> QED
  BY <1>4, <1>5, <1>6, <1>7, <1>8, <1>9 DEF OrderlyBody

\* The end of a drain: nothing waits, and a notice behind it stays.
LEMMA OrderlyDrain ==
    ASSUME TypeOK, CallbackInv, OrderlyBody, drain_rx
    PROVE  OrderlyBody'
<1>0. /\ Exclusive /\ Single /\ QuietInv /\ CallbackOrderly /\ CommandInv /\ RedirectInv
      /\ rx_task_q_ \in Seq(Task) /\ rx_task_q_ # <<>> /\ Head(rx_task_q_) = "drain"
      /\ rx_q_ = <<>>
  BY DEF OrderlyBody, TypeOK, QueuesOK, drain_rx
<1>1. /\ UNCHANGED <<conn, client_wsi_, failed, requests_q_, pending, rx_q_, gaveUp, starts, pc,
                     phase, lastClose, registered_, reconnect_server_address>>
      /\ rx_task_q_' = Tail(rx_task_q_)
  BY DEF drain_rx, transport, timers, session, observed, lifecycle, control
<1>2. OneNotice(rx_task_q_') /\ (Notifies(rx_task_q_') => Notifies(rx_task_q_))
  BY <1>0, <1>1, NoticeTaken DEF Single
<1>3. Notifies(rx_task_q_) => Notifies(rx_task_q_')
  BY <1>0, <1>1, NotifiesTail
<1>4. \A k \in Token : Holds(k)' => Holds(k)
  BY <1>1, <1>2 DEF Holds, Live, Closing, Token
<1>5. Exclusive' /\ (Quiet => Quiet')
  BY <1>0, <1>4, TokenKept
<1>6. Single'
  BY <1>0, <1>1, <1>2 DEF Single, Live
<1>7. QuietInv'
  BY <1>0, <1>1, <1>5 DEF QuietInv
<1>8. CallbackOrderly'
  BY <1>0, <1>1 DEF CallbackOrderly, Live, Closing, Holds
<1>9. CommandInv'
  BY <1>0, <1>1, <1>3 DEF CommandInv, Open
<1>10. RedirectInv'
  BY <1>0, <1>1 DEF RedirectInv, Chosen, Holds
<1> QED
  BY <1>5, <1>6, <1>7, <1>8, <1>9, <1>10 DEF OrderlyBody

\* The notice becomes on_disconnected().
LEMMA OrderlyDisconnected ==
    ASSUME TypeOK, CallbackInv, OrderlyBody, on_disconnected
    PROVE  OrderlyBody'
<1>0. /\ Exclusive /\ Single /\ QuietInv /\ CallbackOrderly /\ CommandInv /\ RedirectInv
      /\ rx_task_q_ \in Seq(Task) /\ rx_task_q_ # <<>> /\ Head(rx_task_q_) = "disconnected"
      /\ pc \in [Thread -> Step]
  BY DEF OrderlyBody, TypeOK, QueuesOK, ControlOK, on_disconnected
<1>1. /\ UNCHANGED <<conn, client_wsi_, failed, requests_q_, rx_q_, gaveUp, starts,
                     phase, lastClose, reconnect_server_address>>
      /\ rx_task_q_' = Tail(rx_task_q_) /\ pending' \subseteq pending /\ ~registered_'
      /\ pc' = [pc EXCEPT !["rx"] = "on_closed"]
  BY DEF on_disconnected, EnterClosed, transport, timers, session, observed, lifecycle,
     _reset_reconnect_timer, AfterCancel
<1>2. /\ OneNotice(rx_task_q_') /\ ~Notifies(rx_task_q_')
  BY <1>0, <1>1, NoticeTaken DEF Single
<1>3. /\ Holds("notice") /\ ~gaveUp /\ starts # 0 /\ ~Holds("wsi")
  <2>1. Notifies(rx_task_q_)
    <3>1. 1 \in 1..Len(rx_task_q_) /\ rx_task_q_[1] = "disconnected"
      BY <1>0
    <3> QED
      BY <3>1 DEF Notifies
  <2>2. Holds("notice")
    BY <2>1 DEF Holds
  <2> QED
    BY <1>0, <2>2, Busy DEF Token
<1>4. /\ pc'["svc"] = pc["svc"] /\ pc'["rx"] = "on_closed" /\ Closing("svc")' = Closing("svc")
  BY <1>0, <1>1 DEF Closing, Thread
<1>5. Exclusive'
  <2>1. \A k \in Token : Holds(k)' => Holds(k) \/ k = "close"
    BY <1>1, <1>2, <1>4 DEF Holds, Live, Token
  <2>2. ~Holds("notice")'
    BY <1>2 DEF Holds
  <2> QED
    BY <1>0, <1>3, <2>1, <2>2, TokenPassed DEF Token
<1>6. Single'
  BY <1>0, <1>1, <1>2 DEF Single, Live
<1>7. QuietInv'
  BY <1>1, <1>3 DEF QuietInv
<1>8. CallbackOrderly'
  BY <1>0, <1>1, <1>4 DEF CallbackOrderly, Live, Holds
<1>9. CommandInv'
  <2>1. ~Open
    BY <1>3, OpenIsLive
  <2>2. rx_q_ = <<>>
    BY <1>0, <2>1 DEF CommandInv
  <2> QED
    BY <1>1, <1>4, <2>2 DEF CommandInv
<1>10. RedirectInv'
  <2>1. \A t \in Thread : pc'[t] \in {"reconnect", "schedule"} => pc[t] = pc'[t]
    BY <1>4 DEF Thread
  <2>2. (Holds("timer")' => Holds("timer")) /\ (Holds("call")' => Holds("call"))
    BY <1>1, <1>4 DEF Holds
  <2> QED
    BY <1>0, <1>1, <2>1, <2>2 DEF RedirectInv, Chosen
<1> QED
  BY <1>5, <1>6, <1>7, <1>8, <1>9, <1>10 DEF OrderlyBody

\* The token of a thread that handles a loss, and what it excludes.
Handling(t) == IF t = "svc" THEN "error" ELSE "close"

LEMMA HandlingIsToken ==
    ASSUME OrderlyBody, NEW t \in Thread, Closing(t)
    PROVE  /\ Handling(t) \in Token /\ Holds(Handling(t)) /\ ~gaveUp /\ starts # 0
           /\ ~Holds("timer") /\ ~Holds("call") /\ ~Holds("request") /\ ~Holds("wsi")
           /\ ~Holds("notice") /\ \A u \in Thread : Closing(u) => u = t
<1>1. Handling(t) \in Token /\ Holds(Handling(t))
  BY DEF Handling, Token, Holds, Thread
<1>2. /\ ~gaveUp /\ starts # 0 /\ \A j \in Token : Holds(j) => j = Handling(t)
  BY <1>1, Busy DEF OrderlyBody
<1>3. \A u \in Thread : Closing(u) => u = t
  BY <1>2 DEF Handling, Token, Holds, Thread
<1> QED
  BY <1>1, <1>2, <1>3 DEF Handling, Token, Thread

\* What such a thread does to its own token, from the effect of the step on pc.
LEMMA HandlingStep ==
    ASSUME TypeOK, CallbackInv, OrderlyBody, NEW t \in Thread, Closing(t),
           UNCHANGED <<conn, client_wsi_, failed, requests_q_, pending, rx_q_, rx_task_q_,
                       starts, phase, registered_>>,
           NEW n \in Step, pc' = [pc EXCEPT ![t] = n],
           (n \in {"reconnect", "schedule"} /\ ~gaveUp') \/ n = Return(t)
    PROVE  /\ Exclusive' /\ Single' /\ QuietInv' /\ CallbackOrderly' /\ CommandInv'
           /\ requests_q_' = <<>> /\ ~Holds("timer")' /\ ~Holds("call")'
           /\ \A u \in Thread : pc'[u] \in {"reconnect", "schedule"} => u = t /\ n = pc'[t]
<1>0. /\ Exclusive /\ Single /\ QuietInv /\ CallbackOrderly /\ CommandInv /\ RedirectInv
      /\ pc \in [Thread -> Step]
  BY DEF OrderlyBody, TypeOK, ControlOK
<1>1. /\ Handling(t) \in Token /\ Holds(Handling(t)) /\ ~gaveUp /\ starts # 0
      /\ ~Holds("timer") /\ ~Holds("call") /\ ~Holds("request") /\ ~Holds("wsi")
      /\ ~Holds("notice") /\ \A u \in Thread : Closing(u) => u = t
  BY HandlingIsToken
<1>2. pc'[t] = n /\ \A u \in Thread : u # t => pc'[u] = pc[u] /\ ~Closing(u)'
  BY <1>0, <1>1 DEF Closing
<1>3. n # "try_connect" /\ (n \in {"reconnect", "schedule"} <=> Closing(t)')
  BY <1>2 DEF Return, Closing
<1>4. /\ ~Holds("timer")' /\ ~Holds("call")' /\ ~Holds("request")' /\ ~Holds("wsi")'
      /\ ~Holds("notice")'
  BY <1>1, <1>2, <1>3 DEF Holds, Live, Thread
<1>5. \A k \in Token : Holds(k)' => k = Handling(t) /\ Closing(t)'
  BY <1>2, <1>4 DEF Holds, Handling, Token, Thread
<1>6. Exclusive'
  BY <1>5 DEF Exclusive
<1>7. Single'
  BY <1>0 DEF Single, Live
<1>8. QuietInv'
  <2>1. n = Return(t) => Quiet'
    BY <1>3, <1>5 DEF Quiet, Return
  <2>2. starts' # 0
    BY <1>1
  <2> QED
    BY <2>1, <2>2 DEF QuietInv
<1>9. CallbackOrderly'
  <2>1. Closing("svc")' \/ pc'["svc"] = "error_done" => Closing("svc") \/ pc["svc"] = "error_done"
    BY <1>2 DEF Thread
  <2> QED
    BY <1>0, <1>4, <2>1 DEF CallbackOrderly, Live
<1>10. CommandInv'
  <2>1. pc'["rx"] = "cam_register_sent" => pc["rx"] = "cam_register_sent"
    BY <1>2 DEF Thread, Return
  <2> QED
    BY <1>0, <2>1 DEF CommandInv, Open
<1>11. \A u \in Thread : pc'[u] \in {"reconnect", "schedule"} => u = t /\ n = pc'[t]
  BY <1>2 DEF Closing
<1>12. requests_q_' = <<>>
  BY <1>4 DEF Holds
<1> QED
  BY <1>4, <1>6, <1>7, <1>8, <1>9, <1>10, <1>11, <1>12

\* on_closed() chooses the address of the next attempt, or gives up.
LEMMA OrderlyOnClosed ==
    ASSUME TypeOK, CallbackInv, OrderlyBody, NEW t \in Thread, on_closed(t)
    PROVE  OrderlyBody'
<1>1. /\ UNCHANGED <<conn, client_wsi_, failed, requests_q_, pending, rx_q_, rx_task_q_,
                     starts, phase, registered_>>
      /\ Closing(t) /\ lastClose' = reason[t]
      /\ reason[t] \in ByeReason
  BY DEF on_closed, transport, timers, queues, lifecycle, Closing, TypeOK, ControlOK
<1>2. CASE WillReconnect(reason[t])
  <2>1. /\ pc' = [pc EXCEPT ![t] = "reconnect"] /\ ~gaveUp' /\ "reconnect" \in Step
        /\ reconnect_server_address' =
              IF reason[t] = "RECONNECT" THEN reconnect_server_address ELSE "main"
    BY <1>2 DEF on_closed, Step
  <2>2. /\ Exclusive' /\ Single' /\ QuietInv' /\ CallbackOrderly' /\ CommandInv'
        /\ requests_q_' = <<>>
    BY <1>1, <2>1, HandlingStep
  <2>3. Chosen(reconnect_server_address)'
    BY <1>1, <2>1 DEF Chosen
  <2>4. RedirectInv'
    BY <2>2, <2>3 DEF RedirectInv
  <2> QED
    BY <2>2, <2>4 DEF OrderlyBody
<1>3. CASE ~WillReconnect(reason[t])
  <2>1. /\ pc' = [pc EXCEPT ![t] = Return(t)] /\ Return(t) \in Step
        /\ Return(t) \notin {"reconnect", "schedule"}
    BY <1>3 DEF on_closed, Step, Return
  <2>2. /\ Exclusive' /\ Single' /\ QuietInv' /\ CallbackOrderly' /\ CommandInv'
        /\ requests_q_' = <<>> /\ ~Holds("timer")' /\ ~Holds("call")'
        /\ \A u \in Thread : pc'[u] \in {"reconnect", "schedule"} => u = t /\ Return(t) = pc'[t]
    BY <1>1, <2>1, HandlingStep
  <2>3. \A u \in Thread : pc'[u] \notin {"reconnect", "schedule"}
    BY <2>1, <2>2
  <2>4. RedirectInv'
    BY <2>2, <2>3 DEF RedirectInv
  <2> QED
    BY <2>2, <2>4 DEF OrderlyBody
<1> QED
  BY <1>2, <1>3

LEMMA OrderlyReconnect ==
    ASSUME TypeOK, CallbackInv, OrderlyBody, NEW t \in Thread, reconnect(t)
    PROVE  OrderlyBody'
<1>1. /\ UNCHANGED <<conn, client_wsi_, failed, requests_q_, pending, rx_q_, rx_task_q_, gaveUp,
                     starts, phase, registered_, lastClose, reconnect_server_address>>
      /\ pc[t] = "reconnect" /\ Closing(t)
  BY DEF reconnect, timers, queues, session, observed, lifecycle, Closing
<1>2. /\ ~gaveUp' /\ Chosen(reconnect_server_address)'
  BY <1>1, HandlingIsToken DEF OrderlyBody, RedirectInv, Chosen
<1>3. PICK n \in {"schedule", Return(t)} : pc' = [pc EXCEPT ![t] = n]
  BY DEF reconnect
<1>4. n \in Step /\ ((n \in {"reconnect", "schedule"} /\ ~gaveUp') \/ n = Return(t))
  BY <1>2, <1>3 DEF Step, Return
<1>5. /\ Exclusive' /\ Single' /\ QuietInv' /\ CallbackOrderly' /\ CommandInv'
      /\ requests_q_' = <<>>
  BY <1>1, <1>3, <1>4, HandlingStep
<1>6. RedirectInv'
  BY <1>2, <1>5 DEF RedirectInv
<1> QED
  BY <1>5, <1>6 DEF OrderlyBody

\* The handling becomes a timer.
LEMMA OrderlySchedule ==
    ASSUME TypeOK, CallbackInv, OrderlyBody, NEW t \in Thread, schedule(t)
    PROVE  OrderlyBody'
<1>0. /\ Exclusive /\ Single /\ QuietInv /\ CallbackOrderly /\ CommandInv /\ RedirectInv
      /\ pc \in [Thread -> Step] /\ pc[t] = "schedule" /\ Closing(t)
  BY DEF OrderlyBody, TypeOK, ControlOK, schedule, Closing
<1>1. /\ UNCHANGED <<conn, client_wsi_, failed, requests_q_, rx_q_, rx_task_q_, gaveUp,
                     starts, phase, registered_, lastClose, reconnect_server_address>>
      /\ pc' = [pc EXCEPT ![t] = Return(t)]
  BY DEF schedule, transport, queues, session, observed, lifecycle
<1>2. PICK tm \in Timer : pending' = pending \cup {tm}
  BY DEF schedule
<1>3. /\ Handling(t) \in Token /\ Holds(Handling(t)) /\ ~gaveUp /\ starts # 0
      /\ ~Holds("timer") /\ ~Holds("call") /\ ~Holds("request") /\ ~Holds("wsi")
      /\ ~Holds("notice") /\ \A u \in Thread : Closing(u) => u = t
  BY <1>0, HandlingIsToken
<1>4. pending' = {tm}
  BY <1>2, <1>3 DEF Holds
<1>5. pc'[t] = Return(t) /\ \A u \in Thread : (u # t => pc'[u] = pc[u]) /\ ~Closing(u)'
  BY <1>0, <1>1, <1>3 DEF Closing, Return
<1>6. \A k \in Token : Holds(k)' => k = "timer"
  <2>1. ~Holds("call")' /\ ~Holds("request")' /\ ~Holds("wsi")' /\ ~Holds("notice")'
    BY <1>1, <1>3, <1>5 DEF Holds, Live, Thread, Return
  <2> QED
    BY <1>5, <2>1 DEF Holds, Token, Thread
<1>7. Exclusive'
  BY <1>6 DEF Exclusive
<1>8. Single'
  BY <1>0, <1>1, <1>4 DEF Single, Live
<1>9. QuietInv'
  BY <1>1, <1>3 DEF QuietInv
<1>10. CallbackOrderly'
  <2>1. Closing("svc")' \/ pc'["svc"] = "error_done" => Closing("svc") \/ pc["svc"] = "error_done"
    BY <1>0, <1>5 DEF Thread
  <2>2. ~Holds("wsi")'
    BY <1>6 DEF Token
  <2> QED
    BY <1>0, <1>1, <2>1, <2>2 DEF CallbackOrderly, Live
<1>11. CommandInv'
  <2>1. pc'["rx"] = "cam_register_sent" => pc["rx"] = "cam_register_sent"
    BY <1>5 DEF Thread, Return
  <2> QED
    BY <1>0, <1>1, <2>1 DEF CommandInv, Open
<1>12. RedirectInv'
  <2>1. Chosen(reconnect_server_address) /\ requests_q_ = <<>>
    BY <1>0, <1>3 DEF RedirectInv, Holds
  <2> QED
    BY <1>1, <2>1 DEF RedirectInv, Chosen
<1> QED
  BY <1>7, <1>8, <1>9, <1>10, <1>11, <1>12 DEF OrderlyBody

\* start() makes the first request,
LEMMA OrderlyStart ==
    ASSUME TypeOK, CallbackInv, OrderlyBody, start, starts' <= 1
    PROVE  OrderlyBody'
<1>0. /\ Exclusive /\ Single /\ QuietInv /\ CallbackOrderly /\ CommandInv /\ RedirectInv
  BY DEF OrderlyBody
<1>1. /\ UNCHANGED <<conn, client_wsi_, failed, pending, pc, rx_q_, rx_task_q_,
                     registered_, lastClose, reconnect_server_address>>
      /\ requests_q_' = Append(requests_q_, reconnect_server_address)
      /\ ~gaveUp' /\ starts' = starts + 1
  BY DEF start, try_connect, timers, queues, session, control
<1>2. starts = 0 /\ starts' # 0
  BY <1>1, SessionAssumption DEF TypeOK, LifecycleOK, World
<1>3. Quiet /\ reconnect_server_address = "main"
  BY <1>0, <1>2 DEF QuietInv
<1>4. requests_q_ = <<>>
  BY <1>3 DEF Quiet, Token, Holds
<1>5. requests_q_' = <<"main">>
  BY <1>1, <1>3, <1>4
<1>6. \A k \in Token : Holds(k)' => k = "request"
  BY <1>1, <1>3 DEF Quiet, Holds, Live, Closing, Token
<1>7. Exclusive'
  BY <1>6 DEF Exclusive
<1>8. Single'
  BY <1>0, <1>1, <1>5 DEF Single, Live
<1>9. QuietInv'
  BY <1>1, <1>2 DEF QuietInv
<1>10. CallbackOrderly'
  BY <1>0, <1>1 DEF CallbackOrderly, Live, Holds, Closing
<1>11. CommandInv'
  BY <1>0, <1>1 DEF CommandInv, Open
<1>12. RedirectInv'
  BY <1>1, <1>3, <1>5 DEF RedirectInv, Chosen
<1> QED
  BY <1>7, <1>8, <1>9, <1>10, <1>11, <1>12 DEF OrderlyBody

\* stop() flushes the commands,
LEMMA OrderlyStop ==
    ASSUME TypeOK, CallbackInv, OrderlyBody, stop
    PROVE  OrderlyBody'
<1>0. /\ Exclusive /\ Single /\ QuietInv /\ CallbackOrderly /\ CommandInv /\ RedirectInv
  BY DEF OrderlyBody
<1>1. /\ UNCHANGED <<conn, client_wsi_, failed, pending, pc, rx_task_q_, requests_q_, gaveUp,
                     starts, lastClose, reconnect_server_address>>
      /\ rx_q_' = <<>> /\ ~registered_' /\ phase = "running"
  BY DEF stop, timers, control, observed
<1>2. \A k \in Token : Holds(k)' => Holds(k)
  BY <1>1 DEF Holds, Live, Closing, Token
<1>3. Exclusive' /\ (Quiet => Quiet')
  BY <1>0, <1>2, TokenKept
<1>4. Single'
  BY <1>0, <1>1 DEF Single, Live
<1>5. QuietInv'
  BY <1>0, <1>1, <1>3 DEF QuietInv
<1>6. CallbackOrderly'
  BY <1>0, <1>1 DEF CallbackOrderly, Live, Holds, Closing
<1>7. CommandInv'
  BY <1>0, <1>1 DEF CommandInv, Open
<1>8. RedirectInv'
  BY <1>0, <1>1 DEF RedirectInv, Chosen, Holds
<1> QED
  BY <1>3, <1>4, <1>5, <1>6, <1>7, <1>8 DEF OrderlyBody

\* and the end of stop() turns a live wsi into a notice.
LEMMA OrderlyStopped ==
    ASSUME TypeOK, CallbackInv, OrderlyBody, stopped
    PROVE  OrderlyBody'
<1>0. /\ Exclusive /\ Single /\ QuietInv /\ CallbackOrderly /\ CommandInv /\ RedirectInv
      /\ rx_task_q_ \in Seq(Task) /\ phase = "stopping"
      /\ pc["svc"] = "idle" /\ pc["rx"] = "idle"
  BY DEF OrderlyBody, TypeOK, QueuesOK, stopped, Thread
<1>1. /\ UNCHANGED <<failed, pc, requests_q_, gaveUp, rx_q_, registered_,
                     starts, lastClose, reconnect_server_address>>
      /\ pending' = {} /\ conn' = [w \in Wsi |-> "free"]
      /\ rx_task_q_' = IF Holds("wsi") THEN rx_task_q_ \o ClosedTasks ELSE rx_task_q_
  BY DEF stopped, control, observed, session, Holds
<1>2. \A w \in Wsi : ~Live(w)'
  BY <1>1 DEF Live
<1>3. Holds("wsi") => /\ ~gaveUp /\ starts # 0 /\ ~Notifies(rx_task_q_)
                      /\ \A k \in Token : Holds(k) => k = "wsi"
  BY <1>0, Busy DEF Token, Holds
<1>4. Holds("wsi") => /\ ClosedTasks = <<"drain", "disconnected">> /\ ClosedTasks \in Seq(Task)
  <2>1. Holds("wsi") => client_wsi_ # NoWsi
    BY <1>0, SessionAssumption DEF CallbackOrderly, Holds
  <2> QED
    BY <2>1, ClosedTasksOK DEF ClosedTasks
<1>5. /\ OneNotice(rx_task_q_')
      /\ Holds("wsi") => Notifies(rx_task_q_') /\ Head(rx_task_q_') = "drain"
  <2>1. OneNotice(<<"drain", "disconnected">>) /\ Notifies(<<"drain", "disconnected">>)
    BY DEF OneNotice, Notifies
  <2>2. CASE ~Holds("wsi")
    BY <1>0, <1>1, <2>2 DEF Single
  <2>3. CASE Holds("wsi")
    <3>0. /\ rx_task_q_' = rx_task_q_ \o <<"drain", "disconnected">>
          /\ <<"drain", "disconnected">> \in Seq(Task) /\ ~Notifies(rx_task_q_)
      BY <1>1, <1>3, <1>4, <2>3
    <3>1. OneNotice(rx_task_q_')
      BY <1>0, <2>1, <3>0, NoticePosted
    <3>2. Notifies(rx_task_q_')
      BY <1>0, <2>1, <3>0, NotifiesConcat
    <3>3. Head(rx_task_q_') = "drain"
      BY <1>0, <3>0, DrainFirst
    <3> QED
      BY <3>1, <3>2, <3>3
  <2> QED
    BY <2>2, <2>3
<1>6. \A k \in Token : Holds(k)' => Holds(k) \/ (Holds("wsi") /\ k = "notice")
  BY <1>0, <1>1, <1>2 DEF Holds, Closing, Token
<1>7. ~Holds("wsi")'
  BY <1>2 DEF Holds
<1>8. Exclusive'
  BY <1>0, <1>6, <1>7 DEF Exclusive, Token
<1>9. Single'
  BY <1>0, <1>1, <1>2, <1>5 DEF Single
<1>10. QuietInv'
  <2>1. gaveUp \/ starts = 0 => ~Holds("wsi") /\ Quiet
    BY <1>0, <1>3 DEF QuietInv
  <2>2. gaveUp \/ starts = 0 => Quiet'
    BY <1>6, <2>1 DEF Quiet
  <2>3. starts # 0
    BY <1>0 DEF QuietInv
  <2> QED
    BY <1>1, <2>2, <2>3 DEF QuietInv
<1>11. CallbackOrderly'
  BY <1>0, <1>1, <1>2 DEF CallbackOrderly, Closing
<1>12. CommandInv'
  <2>1. Open => Holds("wsi")
    BY OpenIsLive
  <2>2. CASE Holds("wsi")
    BY <1>5, <2>2 DEF CommandInv
  <2>3. CASE ~Holds("wsi")
    BY <1>0, <1>1, <2>1, <2>3 DEF CommandInv
  <2> QED
    BY <2>2, <2>3
<1>13. RedirectInv'
  BY <1>0, <1>1 DEF RedirectInv, Chosen, Holds
<1> QED
  BY <1>8, <1>9, <1>10, <1>11, <1>12, <1>13 DEF OrderlyBody

LEMMA OrderlyStep ==
    TypeOK /\ CallbackInv /\ OrderlyInv /\ [Next]_vars => OrderlyInv'
<1> SUFFICES ASSUME TypeOK, CallbackInv, OrderlyInv, [Next]_vars, Orderly'
             PROVE  OrderlyBody'
  BY DEF OrderlyInv
<1>1. Orderly /\ ~ConnectFails
  BY OrderlyBefore
<1>2. OrderlyBody
  BY <1>1 DEF OrderlyInv
<1>3. CASE SvcNext
  <2>1. ASSUME NEW w \in Wsi, ConnectStarts(w) \/ Established(w) \/ ConnectionError(w) \/ Closed(w)
        PROVE  OrderlyBody'
    BY <1>2, <2>1, OrderlyConnectStarts, OrderlyEstablished, OrderlyConnectionError, OrderlyClosed
  <2>2. ASSUME NEW w \in Wsi, NEW c \in world.sent, Receive(w, c)
        PROVE  OrderlyBody'
    BY <1>2, <2>2, OrderlyCommands
  <2>3. ASSUME ErrorDone PROVE OrderlyBody'
    BY <1>1, <1>2, <2>3, OrderlyErrorDone
  <2>4. ASSUME NEW tm \in Timer, TimerFires(tm) PROVE OrderlyBody'
    BY <1>2, <2>4, OrderlyTimerFires
  <2>5. ASSUME TimerCalls PROVE OrderlyBody'
    BY <1>2, <2>5, OrderlyTimerCalls
  <2>6. ~ErrorAgain
    BY <1>1 DEF ErrorAgain, CallbackInv, Orderly
  <2> QED
    BY <1>1, <1>3, <2>1, <2>2, <2>3, <2>4, <2>5, <2>6 DEF SvcNext
<1>4. CASE RxNext
  <2>1. CASE drain_rx
    BY <1>2, <2>1, OrderlyDrain
  <2>2. CASE on_disconnected
    BY <1>2, <2>2, OrderlyDisconnected
  <2>3. CASE handle_hello \/ do_cam_register \/ handle_cam_hello \/ handle_configure \/ handle_bye
    BY <1>2, <2>3, OrderlyCommands
  <2> QED
    BY <1>4, <2>1, <2>2, <2>3 DEF RxNext
<1>5. CASE HandlerNext
  <2> SUFFICES ASSUME NEW t \in Thread, on_closed(t) \/ reconnect(t) \/ schedule(t)
               PROVE  OrderlyBody'
    BY <1>5 DEF HandlerNext
  <2> QED
    BY <1>2, OrderlyOnClosed, OrderlyReconnect, OrderlySchedule
<1>6. CASE start
  BY <1>2, <1>6, OrderlyStart DEF Orderly
<1>7. CASE stop
  BY <1>2, <1>7, OrderlyStop
<1>8. CASE stopped
  BY <1>2, <1>8, OrderlyStopped
<1>9. CASE UNCHANGED vars
  <2>1. UNCHANGED <<pending, requests_q_, conn, client_wsi_, failed, rx_q_, rx_task_q_, gaveUp,
                    starts, phase, lastClose, registered_, reconnect_server_address, pc>>
    BY <1>9 DEF vars, transport, timers, queues, session, observed, lifecycle, control
  <2>2. /\ Exclusive' = Exclusive /\ Single' = Single /\ QuietInv' = QuietInv
        /\ CallbackOrderly' = CallbackOrderly
    BY <2>1 DEF Exclusive, Single, QuietInv, Quiet, CallbackOrderly, Holds, Live, Closing
  <2>3. CommandInv' = CommandInv /\ RedirectInv' = RedirectInv
    BY <2>1 DEF CommandInv, Open, RedirectInv, Chosen, Holds
  <2> QED
    BY <1>2, <2>2, <2>3 DEF OrderlyBody
<1> QED
  BY <1>3, <1>4, <1>5, <1>6, <1>7, <1>8, <1>9 DEF Next

LEMMA OrderlyInit == Init => OrderlyInv
<1> SUFFICES ASSUME Init PROVE OrderlyBody
  BY DEF OrderlyInv
<1>1. /\ pending = {} /\ requests_q_ = <<>> /\ rx_q_ = <<>> /\ rx_task_q_ = <<>>
      /\ ~registered_ /\ phase = "new" /\ reconnect_server_address = "main"
      /\ pc["svc"] = "idle" /\ pc["rx"] = "idle"
      /\ \A w \in Wsi : conn[w] = "free"
  BY DEF Init, Thread
<1>2. Quiet
  BY <1>1 DEF Quiet, Token, Holds, Live, Closing, Notifies
<1>3. Exclusive
  BY <1>2 DEF Exclusive, Quiet
<1>4. Single
  BY <1>1 DEF Single, Live, OneNotice
<1>5. QuietInv
  BY <1>1, <1>2 DEF QuietInv
<1>6. CallbackOrderly
  BY <1>1 DEF CallbackOrderly, Live, Closing
<1>7. CommandInv
  BY <1>1 DEF CommandInv
<1>8. RedirectInv
  BY <1>1 DEF RedirectInv, Chosen
<1> QED
  BY <1>3, <1>4, <1>5, <1>6, <1>7, <1>8 DEF OrderlyBody

\* The orderly life is as OrderlyInv says: what leads to the next attempt is
\* handed on from step to step, on both threads, and is never doubled.
THEOREM OrderlyCorrect == Spec => [](CallbackInv /\ OrderlyInv)
<1>1. Init => StuckInv /\ OrderlyInv
  <2>1. Init => StuckInv
    BY DEF Init, StuckInv, ProgressInv, TimerInv, CallbackInv, Thread
  <2> QED
    BY <2>1, OrderlyInit
<1>2. TypeOK /\ StuckInv /\ OrderlyInv /\ [Next]_vars => (StuckInv /\ OrderlyInv)'
  BY StuckStep, OrderlyStep DEF StuckInv
<1>3. StuckInv /\ OrderlyInv => CallbackInv /\ OrderlyInv
  BY DEF StuckInv
<1> QED
  BY <1>1, <1>2, <1>3, TypeCorrect, PTL DEF Spec

\* A close notification never overtakes a newer connection: the "disconnected"
\* task posted by LWS_CALLBACK_CLIENT_CLOSED is handled before the next wsi.
THEOREM NotificationPrecedesReconnectCorrect == Spec => []NotificationPrecedesReconnect
<1>1. OrderlyInv => NotificationPrecedesReconnect
  BY DEF OrderlyInv, OrderlyBody, NotificationPrecedesReconnect, Exclusive, Holds, Token
<1> QED
  BY <1>1, OrderlyCorrect, PTL

\* At most one connection, request, timer call or timer exists at a time.
THEOREM OneAttemptCorrect == Spec => []OneAttempt
<1>1. TypeOK /\ OrderlyInv => OneAttempt
  <2> SUFFICES ASSUME TypeOK, Exclusive, Single
               PROVE  Cardinality(pending) + (IF pc["svc"] = "try_connect" THEN 1 ELSE 0)
                      + Len(requests_q_) + Cardinality({w \in Wsi : Live(w)}) <= 1
    BY DEF OrderlyInv, OrderlyBody, OneAttempt
  <2> DEFINE L == {w \in Wsi : Live(w)}
  <2>1. /\ Len(requests_q_) \in {0, 1} /\ (Len(requests_q_) = 1 => Holds("request"))
    <3>1. requests_q_ \in Seq(Address) /\ Len(requests_q_) <= 1
      BY DEF Single, TypeOK, TransportOK
    <3>2. Len(requests_q_) = 1 => requests_q_ # <<>>
      BY <3>1
    <3>3. Len(requests_q_) \in Nat
      BY <3>1
    <3>4. Len(requests_q_) \in {0, 1}
      <4>1. \A n \in Nat : n <= 1 => n \in {0, 1}
        OBVIOUS
      <4> QED
        BY <3>1, <3>3, <4>1
    <3> QED
      BY <3>2, <3>4 DEF Holds
  <2>2. /\ Cardinality(pending) \in {0, 1} /\ (Cardinality(pending) = 1 => Holds("timer"))
    <3>1. CASE pending = {}
      BY <3>1, FS_EmptySet
    <3>2. CASE pending # {}
      <4>1. PICK a \in pending : pending = {a}
        BY <3>2 DEF Single
      <4> QED
        BY <3>2, <4>1, FS_Singleton DEF Holds
    <3> QED
      BY <3>1, <3>2
  <2>3. /\ Cardinality(L) \in {0, 1} /\ (Cardinality(L) = 1 => Holds("wsi"))
    <3>1. CASE L = {}
      BY <3>1, FS_EmptySet
    <3>2. CASE L # {}
      <4>1. PICK a \in L : L = {a}
        BY <3>2 DEF Single
      <4> QED
        BY <3>2, <4>1, FS_Singleton DEF Holds
    <3> QED
      BY <3>1, <3>2
  <2>4. pc["svc"] = "try_connect" => Holds("call")
    BY DEF Holds
  <2>5. \A j, k \in {"timer", "call", "request", "wsi"} : Holds(j) /\ Holds(k) => j = k
    BY DEF Exclusive, Token
  <2> DEFINE p == Cardinality(pending)
             c == IF pc["svc"] = "try_connect" THEN 1 ELSE 0
             r == Len(requests_q_)
             l == Cardinality(L)
  <2>6. /\ ~(p = 1 /\ c = 1) /\ ~(p = 1 /\ r = 1) /\ ~(p = 1 /\ l = 1)
        /\ ~(c = 1 /\ r = 1) /\ ~(c = 1 /\ l = 1) /\ ~(r = 1 /\ l = 1)
    <3>1. /\ p = 1 => Holds("timer")
          /\ c = 1 => Holds("call")
          /\ r = 1 => Holds("request")
          /\ l = 1 => Holds("wsi")
      BY <2>1, <2>2, <2>3, <2>4
    <3> HIDE DEF p, c, r, l
    <3> QED
      BY <2>5, <3>1
  <2>7. p \in {0, 1} /\ c \in {0, 1} /\ r \in {0, 1} /\ l \in {0, 1}
    BY <2>1, <2>2, <2>3
  <2>8. p + c + r + l <= 1
    <3> HIDE DEF p, c, r, l
    <3> QED
      BY <2>6, <2>7
  <2> QED
    BY <2>8
<1> QED
  BY <1>1, TypeCorrect, OrderlyCorrect, PTL

\* registered_ is set only while a connection is open or its loss is still to
\* be handled by the rx thread.
THEOREM RegisteredIsLiveCorrect == Spec => []RegisteredIsLive
<1>1. OrderlyInv => RegisteredIsLive
  BY DEF OrderlyInv, OrderlyBody, RegisteredIsLive, CommandInv, Open
<1> QED
  BY <1>1, OrderlyCorrect, PTL

\* Once on_closed() has decided not to reconnect, nothing that could connect
\* again is left behind.
THEOREM GaveUpIsQuietCorrect == Spec => []GaveUpIsQuiet
<1>1. OrderlyInv => GaveUpIsQuiet
  BY DEF OrderlyInv, OrderlyBody, GaveUpIsQuiet, QuietInv, Quiet, Token, Holds
<1> QED
  BY <1>1, OrderlyCorrect, PTL

\* A connection attempt goes to the address of a configure command only when
\* the last on_closed() was told RECONNECT.
THEOREM RedirectOnlyOnByeCorrect == Spec => RedirectOnlyOnBye
<1> DEFINE Redirected(w) == Orderly /\ conn[w] = "free" /\ conn'[w] = "connecting"
                            /\ Head(requests_q_) = "redirect"
<1>1. TypeOK /\ OrderlyInv /\ [Next]_vars
      => [\A w \in Wsi : Redirected(w) => lastClose = "RECONNECT"]_vars
  <2> SUFFICES ASSUME TypeOK, OrderlyInv, [Next]_vars, NEW w \in Wsi, Redirected(w)
               PROVE  lastClose = "RECONNECT"
    OBVIOUS
  <2>1. conn \in [Wsi -> {"free", "connecting", "open"}]
    BY DEF TypeOK, TransportOK
  <2>2. requests_q_ # <<>>
    BY <2>1 DEF Next, SvcNext, RxNext, HandlerNext, ConnectStarts, ConnectFails, Established,
       ConnectionError, Closed, Receive, ErrorDone, ErrorAgain, TimerFires, TimerCalls, handle_hello,
       do_cam_register, handle_cam_hello, handle_configure, handle_bye, drain_rx,
       on_disconnected, on_closed, reconnect, schedule, start, stop, stopped, vars, transport
  <2> QED
    BY <2>2 DEF OrderlyInv, OrderlyBody, RedirectInv, Chosen
<1> QED
  BY <1>1, TypeCorrect, OrderlyCorrect, PTL DEF Spec, RedirectOnlyOnBye
=============================================================================
