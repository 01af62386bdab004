------------------------- MODULE HttpClient_proofs -------------------------
(***************************************************************************)
(* For any number of requests: the types, the refinement of Completion and  *)
(* the final status of a blocking call.                                    *)
(***************************************************************************)
EXTENDS HttpClient, TLAPS

USE HttpAssumption

\* From the first answer to a request until its caller has been notified of the
\* last one it is still in the queue.
Held == {"unresolved_notify", "unresolved", "drain_notify"}

NotifyInv == pc \in Held => requests_q_ # <<>>

LEMMA TypeInit == Init => TypeOK
<1> SUFFICES ASSUME Init PROVE TypeOK
    OBVIOUS
<1>1. FlagsOK
    BY DEF Init, FlagsOK
<1>2. RequestsOK /\ ServiceOK
    BY DEF Init, RequestsOK, ServiceOK, Stage, Status, Caller
<1> QED BY <1>1, <1>2 DEF TypeOK

\* A step of a connection's callback.
LEMMA TypeEnds ==
    ASSUME TypeOK, NEW r \in Request, Ends(r)
    PROVE  TypeOK'
<1> USE DEF TypeOK, FlagsOK, RequestsOK, ServiceOK, Stage, Status, Caller, Draining
<1>1. CASE Established(r)
    <2>1. FlagsOK'
        BY <1>1 DEF Established
    <2>2. RequestsOK'
        BY <1>1 DEF Established
    <2>3. ServiceOK'
        BY <1>1 DEF Established, Serving, Finish, service
    <2> QED BY <2>1, <2>2, <2>3
<1>2. CASE Completed(r)
    BY <1>2 DEF Completed, Serving, Finish
<1>3. CASE Closed(r)
    BY <1>3 DEF Closed, Closing, Finish, response_
<1>4. CASE ConnectionError(r)
    BY <1>4 DEF ConnectionError, Closing, Finish, response_
<1> QED BY <1>1, <1>2, <1>3, <1>4 DEF Ends

LEMMA TypeNext == TypeOK /\ NotifyInv /\ [Next]_vars => TypeOK'
<1> SUFFICES ASSUME TypeOK, NotifyInv, [Next]_vars PROVE TypeOK'
    OBVIOUS
<1> USE DEF TypeOK, FlagsOK, RequestsOK, ServiceOK, Stage, Status, Caller, Draining
<1>1. CASE UNCHANGED vars
    BY <1>1 DEF vars, request, service
<1>2. CASE \E r \in Request : CallerNext(r)
    <2>1. PICK r \in Request : CallerNext(r)
        BY <1>2
    <2>2. CASE make_blocked(r)
        BY <2>2 DEF make_blocked, request, service
    <2>3. CASE make(r)
        BY <2>3 DEF make, service
    <2>4. CASE WakeService(r)
        BY <2>4 DEF WakeService, request, service
    <2>5. CASE WaitEnds(r)
        BY <2>5 DEF WaitEnds, request, service
    <2>6. CASE TimesOut(r)
        BY <2>6 DEF TimesOut, service
    <2> QED BY <2>1, <2>2, <2>3, <2>4, <2>5, <2>6 DEF CallerNext
<1>3. CASE WaitCancelled
    BY <1>3 DEF WaitCancelled, Serving, request
<1>4. CASE DrainConnects
    BY <1>4 DEF DrainConnects, service
<1>5. CASE DrainFails
    <2>1. Head(requests_q_) \in Request
        BY <1>5 DEF DrainFails
    <2>2. FlagsOK'
        BY <1>5, <2>1 DEF DrainFails
    <2>3. RequestsOK'
        BY <1>5, <2>1 DEF DrainFails, response_
    <2>4. ServiceOK'
        BY <1>5, <2>1 DEF DrainFails
    <2> QED BY <2>2, <2>3, <2>4
<1>6. CASE DrainNotifies
    <2>1. FlagsOK' /\ ServiceOK'
        BY <1>6 DEF DrainNotifies, request
    <2>2. requests_q_' \in Seq(Request)
        BY <1>6 DEF DrainNotifies, NotifyInv, Held
    <2>3. RequestsOK'
        BY <1>6, <2>2 DEF DrainNotifies, request
    <2> QED BY <2>1, <2>3
<1>7. CASE DrainEnds
    BY <1>7 DEF DrainEnds, request
<1>8. CASE notify_finish
    BY <1>8 DEF notify_finish, request
<1>9. CASE \E r \in Request : Ends(r)
    BY <1>9, TypeEnds
<1>10. CASE stop \/ Joined
    BY <1>10 DEF stop, Joined, request, service
<1>11. CASE Destroyed
    BY <1>11 DEF Destroyed, request, service
<1>12. CASE DrainUnresolved
    <2>1. Head(requests_q_) \in Request
        BY <1>12 DEF DrainUnresolved
    <2>2. FlagsOK'
        BY <1>12, <2>1 DEF DrainUnresolved
    <2>3. RequestsOK'
        BY <1>12, <2>1 DEF DrainUnresolved, response_
    <2>4. ServiceOK'
        BY <1>12, <2>1 DEF DrainUnresolved
    <2> QED BY <2>2, <2>3, <2>4
<1>13. CASE UnresolvedNotifies
    BY <1>13 DEF UnresolvedNotifies, request
<1> QED
    BY <1>1, <1>2, <1>3, <1>4, <1>5, <1>6, <1>7, <1>8, <1>9, <1>10, <1>11, <1>12, <1>13
       DEF Next, Drain

LEMMA NotifyNext == TypeOK /\ NotifyInv /\ [Next]_vars => NotifyInv'
<1> SUFFICES ASSUME TypeOK, NotifyInv, [Next]_vars, pc' \in Held
             PROVE  requests_q_' # <<>>
    BY DEF NotifyInv
<1> USE DEF TypeOK, RequestsOK, NotifyInv, Held
<1>1. CASE \E r \in Request : CallerNext(r)
    <2>1. PICK r \in Request : CallerNext(r)
        BY <1>1
    <2>2. CASE make(r)
        BY <2>2 DEF make, service
    <2>3. CASE ~make(r)
        BY <2>1, <2>3 DEF CallerNext, make_blocked, WakeService, WaitEnds, TimesOut,
                          request, service
    <2> QED BY <2>2, <2>3
<1>2. CASE Drain
    BY <1>2 DEF Drain, DrainConnects, DrainUnresolved, UnresolvedNotifies, DrainFails,
                DrainNotifies, DrainEnds, service
<1>3. CASE \E r \in Request : Ends(r)
    BY <1>3 DEF Ends, Established, Completed, Closed, ConnectionError, Serving, Closing,
                Finish, service
<1>4. CASE WaitCancelled \/ notify_finish \/ stop \/ Joined \/ Destroyed \/ UNCHANGED vars
    BY <1>4 DEF WaitCancelled, notify_finish, stop, Joined, Destroyed, service, vars
<1> QED BY <1>1, <1>2, <1>3, <1>4 DEF Next

\* Every variable of the client keeps its type, for any set of requests and any
\* division into blocking and other calls.
THEOREM TypeCorrect == Spec => []TypeOK
<1>1. Init => NotifyInv
    BY DEF Init, NotifyInv, Held
<1> QED BY <1>1, TypeInit, TypeNext, NotifyNext, PTL DEF Spec
----------------------------------------------------------------------------
(***************************************************************************)
(* The inductive invariant. A request that is not over has not been        *)
(* answered; the queue holds each request once, and one that is over only  *)
(* as its first, until its caller has been notified; that one has been     *)
(* answered once when the loop is still to answer it; once the context is  *)
(* destroyed, no queue is being emptied.                                   *)
(***************************************************************************)
Unanswered == \A r \in Request : stage[r] # "gone" => answers[r] = 0

Waiting(i) ==
    \/ stage[requests_q_[i]] = "queued"
    \/ i = 1 /\ pc \in Held

QueueInv ==
    /\ \A i \in 1..Len(requests_q_) : Waiting(i)
    /\ \A i, j \in 1..Len(requests_q_) : requests_q_[i] = requests_q_[j] => i = j
    /\ NotifyInv

MadeInv == \A r \in Request : stage[r] = "none" <=> caller[r] \in {"idle", "locked"}

LateInv == phase \in {"destroying", "stopped"} => pc \notin Draining

AgainInv ==
    pc \in {"unresolved_notify", "unresolved"} =>
        /\ cur = Head(requests_q_) /\ cur \in Request
        /\ stage[cur] = "gone" /\ answers[cur] = 1

Inv == TypeOK /\ Unanswered /\ QueueInv /\ MadeInv /\ LateInv /\ AgainInv

\* While the queue is being emptied its first request is still unanswered.
LEMMA FirstQueued ==
    ASSUME Inv, requests_q_ # <<>>, pc \notin Held
    PROVE  /\ Head(requests_q_) \in Request
           /\ stage[Head(requests_q_)] = "queued"
           /\ answers[Head(requests_q_)] = 0
           /\ \A i \in 1..Len(requests_q_) : i # 1 => requests_q_[i] # Head(requests_q_)
<1>1. requests_q_ \in Seq(Request) /\ 1 \in 1..Len(requests_q_)
      /\ Head(requests_q_) = requests_q_[1]
    BY DEF Inv, TypeOK, RequestsOK
<1>2. Waiting(1) /\ requests_q_[1] \in Request
    BY <1>1 DEF Inv, QueueInv
<1>3. \A i \in 1..Len(requests_q_) : requests_q_[i] = requests_q_[1] => i = 1
    BY <1>1 DEF Inv, QueueInv
<1> QED BY <1>1, <1>2, <1>3 DEF Inv, Unanswered, Waiting

\* A step that leaves the queue alone, and every queued request queued.
LEMMA QueueKept ==
    ASSUME QueueInv, UNCHANGED requests_q_,
           \A i \in 1..Len(requests_q_) :
               stage[requests_q_[i]] = "queued" => stage'[requests_q_[i]] = "queued",
           pc' \in Held <=> pc \in Held
    PROVE  QueueInv'
BY DEF QueueInv, Waiting, NotifyInv

\* A connection's callback concerns a request that is in no queue.
LEMMA InvEnds ==
    ASSUME Inv, NEW r \in Request, Ends(r)
    PROVE  Inv'
<1>1. /\ stage[r] \in {"connecting", "refused", "open", "closing"} /\ pc = "idle"
      /\ UNCHANGED <<requests_q_, caller, phase>>
      /\ pc' \in {"idle", "notify"}
      /\ \E x \in {"refused", "open", "closing", "gone"} : stage' = [stage EXCEPT ![r] = x]
    BY DEF Ends, Established, Completed, Closed, ConnectionError, Serving, Closing,
           Finish, service
<1>2. TypeOK'
    BY TypeEnds DEF Inv
<1>3. Unanswered'
    <2>1. CASE Established(r) \/ Completed(r)
        BY <2>1 DEF Established, Completed, Inv, Unanswered, TypeOK, RequestsOK
    <2>2. CASE Closed(r) \/ ConnectionError(r)
        BY <2>2 DEF Closed, ConnectionError, response_, Inv, Unanswered, TypeOK, RequestsOK
    <2> QED BY <2>1, <2>2 DEF Ends
<1>4. QueueInv'
    <2>1. \A i \in 1..Len(requests_q_) :
              stage[requests_q_[i]] = "queued" => stage'[requests_q_[i]] = "queued"
        BY <1>1 DEF Inv, TypeOK, RequestsOK
    <2> QED BY <2>1, <1>1, QueueKept DEF Inv, Held
<1>5. MadeInv'
    BY <1>1 DEF Inv, MadeInv, TypeOK, RequestsOK
<1>6. LateInv' /\ AgainInv'
    BY <1>1 DEF Inv, LateInv, AgainInv, Draining
<1> QED BY <1>2, <1>3, <1>4, <1>5, <1>6 DEF Inv

\* A caller's step.
LEMMA InvCaller ==
    ASSUME Inv, Inv => TypeOK', NEW r \in Request, CallerNext(r)
    PROVE  Inv'
<1> USE DEF TypeOK, RequestsOK, Caller
<1>1. UNCHANGED <<answers, pc, cur, phase>>
    BY DEF CallerNext, make_blocked, make, WakeService, WaitEnds, TimesOut, request, service
<1>2. CASE make(r)
    <2>1. /\ stage[r] = "none" /\ pc \notin Draining
          /\ requests_q_' = Append(requests_q_, r)
          /\ stage' = [stage EXCEPT ![r] = "queued"]
          /\ caller' = [caller EXCEPT ![r] = "pushed"]
        BY <1>2 DEF make, QueueLocked, Inv, MadeInv
    <2>2. Unanswered' /\ MadeInv' /\ LateInv' /\ AgainInv'
        BY <2>1, <1>1 DEF Inv, Unanswered, MadeInv, LateInv, AgainInv, Draining, Stage
    <2>3. \A i \in 1..Len(requests_q_) : stage[requests_q_[i]] = "queued"
                                         /\ requests_q_[i] # r
        BY <2>1 DEF Inv, QueueInv, Waiting, Held, Draining
    <2>4. QueueInv'
        BY <2>1, <2>3, <1>1 DEF Inv, QueueInv, Waiting, NotifyInv, Held, Draining
    <2> QED BY <2>2, <2>4 DEF Inv
<1>3. CASE ~make(r)
    <2>1. UNCHANGED <<requests_q_, stage>>
        BY <1>3 DEF CallerNext, make_blocked, WakeService, WaitEnds, TimesOut, request
    <2>2. \E x \in Caller : /\ caller' = [caller EXCEPT ![r] = x]
                            /\ caller[r] \in {"idle", "locked"} <=> x \in {"idle", "locked"}
        BY <1>3 DEF CallerNext, make_blocked, WakeService, WaitEnds, TimesOut
    <2>3. MadeInv'
        BY <2>1, <2>2 DEF Inv, MadeInv
    <2>4. QueueInv'
        BY <2>1, <1>1, QueueKept DEF Inv
    <2> QED BY <2>1, <2>3, <2>4, <1>1 DEF Inv, Unanswered, LateInv, AgainInv
<1> QED BY <1>2, <1>3

\* The service thread empties the queue.
LEMMA InvDrain ==
    ASSUME Inv, Inv => TypeOK', Drain
    PROVE  Inv'
<1> USE DEF TypeOK, RequestsOK
<1>1. UNCHANGED <<caller, phase>> /\ phase \notin {"destroying", "stopped"}
    BY DEF Drain, DrainConnects, DrainUnresolved, UnresolvedNotifies, DrainFails,
           DrainNotifies, DrainEnds, Inv, LateInv, Draining
<1>2. LateInv'
    BY <1>1 DEF LateInv
<1>3. CASE DrainConnects
    <2> DEFINE h == Head(requests_q_)
    <2>1. /\ requests_q_' = Tail(requests_q_) /\ requests_q_ # <<>> /\ pc = "drain"
          /\ stage' = [stage EXCEPT ![h] = "connecting"]
          /\ UNCHANGED <<answers, pc>>
        BY <1>3 DEF DrainConnects, service
    <2>2. /\ h \in Request /\ stage[h] = "queued"
          /\ \A i \in 1..Len(requests_q_) : i # 1 => requests_q_[i] # h
        BY <2>1, FirstQueued DEF Held
    <2> HIDE DEF h
    <2>3. Unanswered' /\ MadeInv' /\ AgainInv'
        BY <2>1, <2>2, <1>1 DEF Inv, Unanswered, MadeInv, AgainInv
    <2>4. \A i \in 1..Len(requests_q_) : stage[requests_q_[i]] = "queued"
        BY <2>1 DEF Inv, QueueInv, Waiting, Held
    <2>5. \A i \in 1..Len(requests_q_)' : requests_q_'[i] = requests_q_[i + 1]
                                         /\ i + 1 \in 1..Len(requests_q_)
        BY <2>1 DEF Inv
    <2>6. QueueInv'
        BY <2>1, <2>2, <2>4, <2>5 DEF Inv, QueueInv, Waiting, NotifyInv, Held
    <2> QED BY <2>3, <2>6, <1>2 DEF Inv
<1>4. CASE pc = "drain" /\ (DrainFails \/ DrainUnresolved)
    <2> DEFINE h == Head(requests_q_)
    <2>1. /\ UNCHANGED requests_q_ /\ requests_q_ # <<>> /\ pc = "drain"
          /\ stage' = [stage EXCEPT ![h] = "gone"]
          /\ answers' = [answers EXCEPT ![h] = @ + 1]
          /\ pc' \in {"drain_notify", "unresolved_notify"} /\ cur' = h
        BY <1>4 DEF DrainFails, DrainUnresolved, response_
    <2>2. /\ h \in Request /\ stage[h] = "queued" /\ answers[h] = 0
          /\ \A i \in 1..Len(requests_q_) : i # 1 => requests_q_[i] # h
        BY <2>1, FirstQueued DEF Held
    <2>3. h = requests_q_'[1] /\ h = Head(requests_q_')
        BY <2>1
    <2> HIDE DEF h
    <2>4. Unanswered' /\ MadeInv'
        BY <2>1, <2>2, <1>1 DEF Inv, Unanswered, MadeInv
    <2>5. stage'[h] = "gone" /\ answers'[h] = 1
        BY <2>1, <2>2 DEF Inv
    <2>6. AgainInv'
        BY <2>1, <2>2, <2>3, <2>5 DEF AgainInv
    <2>7. \A i \in 1..Len(requests_q_) : stage[requests_q_[i]] = "queued"
        BY <2>1 DEF Inv, QueueInv, Waiting, Held
    <2>8. \A i \in 1..Len(requests_q_)' : Waiting(i)'
        BY <2>1, <2>2, <2>7 DEF Inv, Waiting, Held
    <2>9. QueueInv'
        BY <2>1, <2>8 DEF Inv, QueueInv, NotifyInv
    <2> QED BY <2>4, <2>6, <2>9, <1>2 DEF Inv
<1>5. CASE UnresolvedNotifies
    <2>1. /\ UNCHANGED <<requests_q_, stage, answers, cur>>
          /\ pc = "unresolved_notify" /\ pc' = "unresolved"
        BY <1>5 DEF UnresolvedNotifies, request
    <2>2. QueueInv'
        BY <2>1, QueueKept DEF Inv, Held
    <2> QED BY <2>1, <2>2, <1>1, <1>2 DEF Inv, Unanswered, MadeInv, AgainInv
<1>6. CASE pc # "drain" /\ DrainFails
    <2> DEFINE h == Head(requests_q_)
    <2>1. /\ UNCHANGED requests_q_ /\ requests_q_ # <<>> /\ pc = "unresolved"
          /\ stage' = [stage EXCEPT ![h] = "gone"]
          /\ answers' = [answers EXCEPT ![h] = @ + 1]
          /\ pc' = "drain_notify"
        BY <1>6 DEF DrainFails, response_
    <2>2. h \in Request /\ stage[h] = "gone"
        BY <2>1 DEF Inv, AgainInv
    <2> HIDE DEF h
    <2>3. stage' = stage
        BY <2>1, <2>2 DEF Inv
    <2>4. Unanswered' /\ MadeInv' /\ AgainInv'
        BY <2>1, <2>2, <2>3, <1>1 DEF Inv, Unanswered, MadeInv, AgainInv
    <2>5. QueueInv'
        BY <2>1, <2>3, QueueKept DEF Inv, Held
    <2> QED BY <2>4, <2>5, <1>2 DEF Inv
<1>7. CASE DrainNotifies
    <2>1. /\ requests_q_' = Tail(requests_q_) /\ pc = "drain_notify" /\ pc' = "drain"
          /\ UNCHANGED <<stage, answers>>
        BY <1>7 DEF DrainNotifies, request
    <2>2. requests_q_ # <<>>
        BY <2>1 DEF Inv, QueueInv, NotifyInv, Held
    <2>3. \A i \in 1..Len(requests_q_)' : requests_q_'[i] = requests_q_[i + 1]
                                         /\ i + 1 \in 1..Len(requests_q_)
        BY <2>1, <2>2 DEF Inv
    <2>4. QueueInv'
        BY <2>1, <2>3 DEF Inv, QueueInv, Waiting, NotifyInv, Held
    <2> QED BY <2>1, <2>4, <1>1, <1>2 DEF Inv, Unanswered, MadeInv, AgainInv
<1>8. CASE DrainEnds
    <2>1. UNCHANGED <<requests_q_, stage, answers>> /\ pc = "drain" /\ pc' = "idle"
        BY <1>8 DEF DrainEnds, request
    <2>2. QueueInv'
        BY <2>1, QueueKept DEF Inv, Held
    <2> QED BY <2>1, <2>2, <1>1, <1>2 DEF Inv, Unanswered, MadeInv, AgainInv
<1> QED BY <1>3, <1>4, <1>5, <1>6, <1>7, <1>8 DEF Drain, DrainUnresolved

LEMMA InvInit == Init => Inv
BY TypeInit DEF Init, Inv, Unanswered, QueueInv, NotifyInv, MadeInv, LateInv, AgainInv,
                Held, Draining

LEMMA InvNext == Inv /\ [Next]_vars => Inv'
<1> SUFFICES ASSUME Inv, [Next]_vars PROVE Inv'
    OBVIOUS
<1>1. TypeOK'
    BY TypeNext DEF Inv, QueueInv
<1>2. CASE \E r \in Request : CallerNext(r)
    BY <1>1, <1>2, InvCaller
<1>3. CASE Drain
    BY <1>1, <1>3, InvDrain
<1>4. CASE \E r \in Request : Ends(r)
    BY <1>4, InvEnds
<1>5. CASE WaitCancelled \/ notify_finish \/ stop \/ Joined \/ Destroyed \/ UNCHANGED vars
    <2>1. UNCHANGED <<requests_q_, stage, answers, caller>>
        BY <1>5 DEF WaitCancelled, notify_finish, stop, Joined, Destroyed, request, vars
    <2>2. /\ pc \in Held <=> pc' \in Held
          /\ pc' \in Held => UNCHANGED <<pc, cur>>
        BY <1>5 DEF WaitCancelled, notify_finish, stop, Joined, Destroyed, Serving,
                    service, vars, Held
    <2>3. LateInv'
        BY <1>5 DEF WaitCancelled, notify_finish, stop, Joined, Destroyed, Serving,
                    service, vars, Inv, LateInv, Draining
    <2>4. QueueInv'
        BY <2>1, <2>2, QueueKept DEF Inv
    <2>5. AgainInv'
        BY <2>1, <2>2 DEF Inv, AgainInv, Held
    <2> QED BY <1>1, <2>1, <2>3, <2>4, <2>5 DEF Inv, Unanswered, MadeInv
<1> QED BY <1>2, <1>3, <1>4, <1>5 DEF Next
----------------------------------------------------------------------------
(* The refinement. *)

\* Every step of the client is a step of Completion or leaves it unchanged.
LEMMA StepSimulates ==
    ASSUME Inv, [Next]_vars
    PROVE  [Answering!Next]_(Answering!vars)
<1> DEFINE made == {r \in Request : stage[r] # "none"}
           over == phase = "stopped"
<1> USE DEF Inv, TypeOK, RequestsOK
<1>1. CASE \E r \in Request : CallerNext(r)
    <2>1. PICK r \in Request : CallerNext(r)
        BY <1>1
    <2>2. CASE make(r)
        <3>1. stage[r] = "none" /\ stage' = [stage EXCEPT ![r] = "queued"]
              /\ UNCHANGED <<answers, phase, pc, cur>>
            BY <2>2 DEF make, MadeInv, service
        <3>2. r \notin made /\ made' = made \cup {r} /\ Again' = Again
            BY <3>1 DEF Again
        <3>3. Answering!Make(r)
            BY <3>1, <3>2 DEF Answering!Make
        <3> QED BY <3>3 DEF Answering!Next
    <2>3. CASE ~make(r)
        <3>1. UNCHANGED <<stage, answers, phase, pc, cur>>
            BY <2>1, <2>3 DEF CallerNext, make_blocked, WakeService, WaitEnds, TimesOut,
                              request, service
        <3>2. Again' = Again
            BY <3>1 DEF Again
        <3> QED BY <3>1, <3>2 DEF Answering!vars
    <2> QED BY <2>2, <2>3
\* The first answer of a request.
<1>2. ASSUME NEW r \in Request, stage[r] \notin {"none", "gone"}, phase # "stopped",
             answers' = [answers EXCEPT ![r] = @ + 1],
             stage' = [stage EXCEPT ![r] = "gone"], UNCHANGED phase,
             pc \notin Held, pc' = "unresolved_notify" => cur' = r, pc' # "unresolved"
      PROVE  [Answering!Next]_(Answering!vars)
    <2>1. answers[r] = 0
        BY <1>2 DEF Unanswered
    <2>2. answers' = [answers EXCEPT ![r] = 1]
        BY <1>2, <2>1
    <2>3. made' = made /\ r \in made /\ over = FALSE /\ over' = over
        BY <1>2
    <2>4. Again = {} /\ Again' \in {{}, {r}}
        BY <1>2 DEF Again, Held
    <2>5. Answering!Answer(r)
        BY <2>1, <2>2, <2>3, <2>4 DEF Answering!Answer
    <2> QED BY <2>5 DEF Answering!Next
<1>3. CASE Drain
    <2>1. CASE pc = "drain" /\ (DrainFails \/ DrainUnresolved)
        <3>1. pc = "drain" /\ requests_q_ # <<>> /\ pc \notin Held
            BY <2>1 DEF DrainFails, DrainUnresolved, Held
        <3>2. Head(requests_q_) \in Request /\ stage[Head(requests_q_)] = "queued"
            BY <3>1, FirstQueued
        <3>3. phase # "stopped" /\ UNCHANGED phase
            BY <2>1, <3>1 DEF DrainFails, DrainUnresolved, LateInv, Draining
        <3>4. /\ answers' = [answers EXCEPT ![Head(requests_q_)] = @ + 1]
              /\ stage' = [stage EXCEPT ![Head(requests_q_)] = "gone"]
              /\ cur' = Head(requests_q_) /\ pc' # "unresolved"
            BY <2>1 DEF DrainFails, DrainUnresolved, response_
        <3> QED BY <3>1, <3>2, <3>3, <3>4, <1>2
    \* The second answer of a request whose name was not resolved.
    <2>2. CASE pc # "drain" /\ DrainFails
        <3>1. pc = "unresolved" /\ pc' = "drain_notify" /\ UNCHANGED phase
              /\ answers' = [answers EXCEPT ![Head(requests_q_)] = @ + 1]
              /\ stage' = [stage EXCEPT ![Head(requests_q_)] = "gone"]
            BY <2>2 DEF DrainFails, response_
        <3>2. /\ cur = Head(requests_q_) /\ cur \in Request
              /\ stage[cur] = "gone" /\ answers[cur] = 1
            BY <3>1 DEF AgainInv
        <3>3. answers' = [answers EXCEPT ![cur] = 2] /\ stage' = stage
            BY <3>1, <3>2
        <3>4. Again = {cur} /\ Again' = {}
            BY <3>1 DEF Again
        <3>5. Answering!AnswerAgain(cur)
            BY <3>1, <3>2, <3>3, <3>4 DEF Answering!AnswerAgain
        <3> QED BY <3>2, <3>5 DEF Answering!Next
    <2>3. CASE DrainConnects
        <3>1. pc = "drain" /\ requests_q_ # <<>> /\ pc \notin Held
            BY <2>3 DEF DrainConnects, Held
        <3>2. Head(requests_q_) \in Request /\ stage[Head(requests_q_)] = "queued"
            BY <3>1, FirstQueued
        <3>3. stage' = [stage EXCEPT ![Head(requests_q_)] = "connecting"]
              /\ UNCHANGED <<answers, phase, pc, cur>>
            BY <2>3 DEF DrainConnects, service
        <3>4. made' = made /\ Again' = Again
            BY <3>2, <3>3 DEF Again
        <3> QED BY <3>3, <3>4 DEF Answering!vars
    <2>4. CASE DrainNotifies \/ DrainEnds \/ UnresolvedNotifies
        <3>1. UNCHANGED <<stage, answers, phase>>
            BY <2>4 DEF DrainNotifies, DrainEnds, UnresolvedNotifies, request
        <3>2. Again' = Again
            BY <2>4 DEF DrainNotifies, DrainEnds, UnresolvedNotifies, Again
        <3> QED BY <3>1, <3>2 DEF Answering!vars
    <2> QED BY <1>3, <2>1, <2>2, <2>3, <2>4 DEF Drain, DrainUnresolved
<1>4. CASE \E r \in Request : Ends(r)
    <2>1. PICK r \in Request : Ends(r)
        BY <1>4
    <2>2. pc = "idle" /\ pc' \in {"idle", "notify"} /\ pc \notin Held
        BY <2>1 DEF Ends, Established, Completed, Closed, ConnectionError, Serving, Closing,
                    Finish, service, Held
    <2>3. CASE Established(r) \/ Completed(r)
        <3>1. stage[r] \in {"connecting", "open"} /\ UNCHANGED <<answers, phase>>
              /\ \E x \in {"refused", "open", "closing"} : stage' = [stage EXCEPT ![r] = x]
            BY <2>3 DEF Established, Completed
        <3>2. made' = made /\ Again' = Again
            BY <3>1, <2>2 DEF Again
        <3> QED BY <3>1, <3>2 DEF Answering!vars
    <2>4. CASE Closed(r) \/ ConnectionError(r)
        <3>1. /\ stage[r] \notin {"none", "gone"} /\ phase # "stopped" /\ UNCHANGED phase
              /\ answers' = [answers EXCEPT ![r] = @ + 1]
              /\ stage' = [stage EXCEPT ![r] = "gone"]
            BY <2>4 DEF Closed, ConnectionError, Closing, response_
        <3> QED BY <3>1, <2>2, <1>2
    <2> QED BY <2>1, <2>3, <2>4 DEF Ends
<1>5. CASE Destroyed
    <2>1. over = FALSE /\ over' = TRUE /\ UNCHANGED <<stage, answers>>
        BY <1>5 DEF Destroyed, request
    <2>2. Again = {} /\ Again' = {}
        BY <1>5 DEF Destroyed, Again, service
    <2>3. Answering!Stop
        BY <2>1, <2>2 DEF Answering!Stop
    <2> QED BY <2>3 DEF Answering!Next
<1>6. CASE WaitCancelled \/ notify_finish \/ stop \/ Joined \/ UNCHANGED vars
    <2>1. UNCHANGED <<stage, answers>> /\ over' = over
        BY <1>6 DEF WaitCancelled, notify_finish, stop, Joined, request, vars
    <2>2. Again' = Again
        BY <1>6 DEF WaitCancelled, notify_finish, stop, Joined, Serving, service, vars, Again
    <2> QED BY <2>1, <2>2 DEF Answering!vars
<1> QED BY <1>1, <1>3, <1>4, <1>5, <1>6 DEF Next

\* The client implements Completion for any number of requests: whichever of its
\* three callers comes first, response_ is called once for each request, or twice
\* in a row for one whose name was not resolved, and never after stop().
THEOREM AnswersInOrderCorrect == Spec => AnswersInOrder
<1>1. Init => Answering!Init
    BY DEF Init, Answering!Init, Again
<1> QED BY <1>1, InvInit, InvNext, StepSimulates, PTL DEF Spec, AnswersInOrder, Answering!Spec
----------------------------------------------------------------------------
(* The status of a blocking call. *)

(***************************************************************************)
(* When the caller of make_blocked() did not give up and yet               *)
(* close_connection_ is set, the request is past its status line: it is    *)
(* closing or gone, and neither Closed nor a connection that ends there    *)
(* touches status_. A caller that returned true saw such a flag.           *)
(***************************************************************************)
Past(r) == stage[r] \in {"closing", "gone"}

OverInv ==
    \A r \in Blocking :
        /\ close_connection_[r] => caller[r] = "false" \/ Past(r)
        /\ caller[r] = "true" => Past(r)

\* The callbacks of a connection.
LEMMA OverEnds ==
    ASSUME Inv, OverInv, NEW r \in Request, Ends(r)
    PROVE  OverInv'
<1> USE DEF Inv, TypeOK, FlagsOK, RequestsOK, OverInv, Past
<1> SUFFICES ASSUME NEW b \in Blocking
             PROVE  /\ close_connection_'[b] => caller'[b] = "false" \/ Past(b)'
                    /\ caller'[b] = "true" => Past(b)'
    OBVIOUS
<1>1. b \in Request /\ caller' = caller
    BY DEF Ends, Established, Completed, Closed, ConnectionError
<1>2. CASE b # r
    <2>1. stage'[b] = stage[b] /\ close_connection_'[b] = close_connection_[b]
        BY <1>1, <1>2 DEF Ends, Established, Completed, Closed, ConnectionError
    <2> QED BY <1>1, <2>1
<1>3. CASE b = r
    <2>1. CASE Established(r)
        <3>1. stage[r] = "connecting" /\ close_connection_' = close_connection_
            BY <2>1 DEF Established
        <3> QED BY <1>1, <1>3, <3>1
    <2>2. CASE Completed(r) \/ Closed(r) \/ ConnectionError(r)
        BY <1>1, <1>3, <2>2 DEF Completed, Closed, ConnectionError
    <2> QED BY <2>1, <2>2 DEF Ends
<1> QED BY <1>2, <1>3

LEMMA OverCaller ==
    ASSUME Inv, OverInv, NEW r \in Request, CallerNext(r)
    PROVE  OverInv'
<1> USE DEF Inv, TypeOK, FlagsOK, RequestsOK, OverInv, Past
<1> SUFFICES ASSUME NEW b \in Blocking
             PROVE  /\ close_connection_'[b] => caller'[b] = "false" \/ Past(b)'
                    /\ caller'[b] = "true" => Past(b)'
    OBVIOUS
<1>1. b \in Request
    OBVIOUS
<1>2. CASE b # r
    <2>1. /\ stage'[b] = stage[b] /\ caller'[b] = caller[b]
          /\ close_connection_'[b] = close_connection_[b]
        BY <1>1, <1>2 DEF CallerNext, make_blocked, make, WakeService, WaitEnds, TimesOut,
                          request
    <2> QED BY <1>1, <2>1
<1>3. CASE b = r
    <2>1. CASE make(r)
        <3>1. stage[r] = "none" /\ caller[r] # "false"
            BY <2>1 DEF make, MadeInv
        <3>2. caller'[r] = "pushed" /\ close_connection_' = close_connection_
            BY <2>1 DEF make
        <3> QED BY <1>3, <3>1, <3>2
    <2>2. CASE make_blocked(r) \/ WakeService(r) \/ WaitEnds(r)
        <3>1. stage' = stage /\ close_connection_' = close_connection_ /\ caller[r] # "false"
            BY <2>2 DEF make_blocked, WakeService, WaitEnds, request
        <3>2. caller'[r] = "true" => close_connection_[r]
            BY <1>3, <2>2 DEF make_blocked, WakeService, WaitEnds
        <3> QED BY <1>3, <3>1, <3>2
    <2>3. CASE TimesOut(r)
        BY <1>3, <2>3 DEF TimesOut
    <2> QED BY <2>1, <2>2, <2>3 DEF CallerNext
<1> QED BY <1>2, <1>3

LEMMA OverDrain ==
    ASSUME Inv, OverInv, Drain
    PROVE  OverInv'
<1> USE DEF Inv, TypeOK, FlagsOK, RequestsOK, OverInv, Past
<1>1. CASE DrainConnects
    <2> DEFINE h == Head(requests_q_)
    <2>1. h \in Request /\ stage[h] = "queued"
        BY <1>1, FirstQueued DEF DrainConnects, Held
    <2>2. /\ close_connection_' = [close_connection_ EXCEPT ![h] = FALSE]
          /\ stage' = [stage EXCEPT ![h] = "connecting"] /\ caller' = caller
        BY <1>1 DEF DrainConnects
    <2> HIDE DEF h
    <2>3. ASSUME NEW b \in Blocking
          PROVE  /\ close_connection_'[b] => caller'[b] = "false" \/ Past(b)'
                 /\ caller'[b] = "true" => Past(b)'
        <3>1. CASE b = h
            BY <2>1, <2>2, <3>1
        <3>2. CASE b # h
            <4>1. stage'[b] = stage[b] /\ close_connection_'[b] = close_connection_[b]
                BY <2>2, <3>2
            <4> QED BY <2>2, <4>1
        <3> QED BY <3>1, <3>2
    <2> QED BY <2>3
<1>2. CASE DrainFails \/ DrainUnresolved
    <2> DEFINE h == Head(requests_q_)
    <2>1. h \in Request
        BY <1>2 DEF DrainFails, DrainUnresolved
    <2>2. /\ close_connection_' = [close_connection_ EXCEPT ![h] = TRUE]
          /\ stage' = [stage EXCEPT ![h] = "gone"] /\ caller' = caller
        BY <1>2 DEF DrainFails, DrainUnresolved
    <2> HIDE DEF h
    <2>3. ASSUME NEW b \in Blocking
          PROVE  /\ close_connection_'[b] => caller'[b] = "false" \/ Past(b)'
                 /\ caller'[b] = "true" => Past(b)'
        <3>1. CASE b = h
            BY <2>1, <2>2, <3>1
        <3>2. CASE b # h
            <4>1. stage'[b] = stage[b] /\ close_connection_'[b] = close_connection_[b]
                BY <2>2, <3>2
            <4> QED BY <2>2, <4>1
        <3> QED BY <3>1, <3>2
    <2> QED BY <2>3
<1>3. CASE DrainNotifies \/ DrainEnds \/ UnresolvedNotifies
    BY <1>3 DEF DrainNotifies, DrainEnds, UnresolvedNotifies, request
<1> QED BY <1>1, <1>2, <1>3 DEF Drain

LEMMA OverNext == Inv /\ OverInv /\ [Next]_vars => OverInv'
<1> SUFFICES ASSUME Inv, OverInv, [Next]_vars PROVE OverInv'
    OBVIOUS
<1>1. CASE WaitCancelled \/ notify_finish \/ stop \/ Joined \/ Destroyed \/ UNCHANGED vars
    BY <1>1 DEF WaitCancelled, notify_finish, stop, Joined, Destroyed, request, vars,
                OverInv, Past
<1> QED BY <1>1, OverCaller, OverDrain, OverEnds DEF Next

LEMMA OverInit == Init => OverInv
BY DEF Init, OverInv

(***************************************************************************)
(* A request that is still queued or connecting has no status, nor has one *)
(* the loop is still to answer again.                                      *)
(***************************************************************************)
ReplyInv ==
    /\ \A r \in Request : stage[r] \in {"none", "queued", "connecting"} => status_[r] = "none"
    /\ pc \in {"unresolved_notify", "unresolved"} => status_[Head(requests_q_)] = "none"

LEMMA ReplyInit == Init => ReplyInv
BY DEF Init, ReplyInv

LEMMA ReplyNext == Inv /\ ReplyInv /\ [Next]_vars => ReplyInv'
<1> SUFFICES ASSUME Inv, ReplyInv, [Next]_vars PROVE ReplyInv'
    OBVIOUS
<1> USE DEF Inv, TypeOK, RequestsOK, ReplyInv
<1>1. CASE \E r \in Request : CallerNext(r)
    <2>1. PICK r \in Request : CallerNext(r)
        BY <1>1
    <2>2. UNCHANGED <<status_, pc>>
        BY <2>1 DEF CallerNext, make_blocked, make, WakeService, WaitEnds, TimesOut,
                    request, service
    <2>3. CASE make(r)
        <3>1. stage[r] = "none" /\ stage' = [stage EXCEPT ![r] = "queued"]
              /\ pc \notin Draining
            BY <2>3 DEF make, MadeInv, QueueLocked
        <3> QED BY <2>2, <3>1 DEF Draining
    <2>4. CASE ~make(r)
        BY <2>1, <2>2, <2>4 DEF CallerNext, make_blocked, WakeService, WaitEnds, TimesOut,
                                request
    <2> QED BY <2>3, <2>4
<1>2. CASE DrainConnects
    <2>1. Head(requests_q_) \in Request /\ stage[Head(requests_q_)] = "queued"
        BY <1>2, FirstQueued DEF DrainConnects, Held
    <2> QED BY <1>2, <2>1 DEF DrainConnects, service
<1>3. CASE DrainUnresolved
    <2>1. Head(requests_q_) \in Request /\ stage[Head(requests_q_)] = "queued"
        BY <1>3, FirstQueued DEF DrainUnresolved, Held
    <2> QED BY <1>3, <2>1 DEF DrainUnresolved
<1>4. CASE DrainFails
    <2>1. Head(requests_q_) \in Request
        BY <1>4 DEF DrainFails
    <2> QED BY <1>4, <2>1 DEF DrainFails
<1>5. CASE \E r \in Request : Ends(r)
    <2>1. PICK r \in Request : Ends(r)
        BY <1>5
    <2>2. pc' \in {"idle", "notify"}
        BY <2>1 DEF Ends, Established, Completed, Closed, ConnectionError, Serving, Closing,
                    Finish, service
    <2>3. \E x \in {"refused", "open", "closing", "gone"} : stage' = [stage EXCEPT ![r] = x]
        BY <2>1 DEF Ends, Established, Completed, Closed, ConnectionError
    <2>4. status_' = status_ \/ \E x \in Status : status_' = [status_ EXCEPT ![r] = x]
        BY <2>1 DEF Ends, Established, Completed, Closed, ConnectionError, Status
    <2> QED BY <2>2, <2>3, <2>4
<1>6. CASE UnresolvedNotifies
    BY <1>6 DEF UnresolvedNotifies, request
<1>7. CASE DrainNotifies \/ DrainEnds \/ WaitCancelled \/ notify_finish
    BY <1>7 DEF DrainNotifies, DrainEnds, WaitCancelled, notify_finish, Serving, request
<1>8. CASE stop \/ Joined \/ Destroyed \/ UNCHANGED vars
    BY <1>8 DEF stop, Joined, Destroyed, request, service, vars
<1> QED BY <1>1, <1>2, <1>3, <1>4, <1>5, <1>6, <1>7, <1>8 DEF Next, Drain

\* A step never touches the status of a request that is past its status line, but
\* for the loop's answer to one whose name was not resolved.
LEMMA StatusKept ==
    ASSUME Inv, OverInv, ReplyInv, [Next]_vars
    PROVE  \A r \in Blocking : caller[r] = "true" =>
               \/ status_'[r] = status_[r]
               \/ status_[r] = "none" /\ status_'[r] = "unsent"
<1> SUFFICES ASSUME NEW b \in Blocking, caller[b] = "true"
             PROVE  \/ status_'[b] = status_[b]
                    \/ status_[b] = "none" /\ status_'[b] = "unsent"
    OBVIOUS
<1> USE DEF Inv, TypeOK, RequestsOK
<1>1. b \in Request /\ stage[b] \in {"closing", "gone"}
    BY DEF OverInv, Past
<1>2. CASE DrainFails
    <2> DEFINE h == Head(requests_q_)
    <2>1. h \in Request /\ status_' = [status_ EXCEPT ![h] = "unsent"]
        BY <1>2 DEF DrainFails
    <2>2. CASE pc = "drain"
        <3>1. stage[h] = "queued"
            BY <1>2, <2>2, FirstQueued DEF DrainFails, Held
        <3> HIDE DEF h
        <3> QED BY <1>1, <2>1, <3>1
    <2>3. CASE pc = "unresolved"
        <3>1. status_[h] = "none"
            BY <2>3 DEF AgainInv, ReplyInv
        <3> HIDE DEF h
        <3> QED BY <1>1, <2>1, <3>1
    <2> QED BY <1>2, <2>2, <2>3 DEF DrainFails
<1>3. CASE \E r \in Request : Ends(r)
    <2>1. PICK r \in Request : Ends(r)
        BY <1>3
    <2>2. CASE Established(r) \/ ConnectionError(r)
        <3>1. b # r
            BY <1>1, <2>2 DEF Established, ConnectionError
        <3> QED BY <1>1, <2>2, <3>1 DEF Established, ConnectionError
    <2>3. CASE Completed(r) \/ Closed(r)
        BY <2>3 DEF Completed, Closed
    <2> QED BY <2>1, <2>2, <2>3 DEF Ends
<1>4. CASE \E r \in Request : CallerNext(r)
    BY <1>4 DEF CallerNext, make_blocked, make, WakeService, WaitEnds, TimesOut, request
<1>5. CASE DrainConnects \/ DrainUnresolved \/ UnresolvedNotifies \/ DrainNotifies
           \/ DrainEnds \/ WaitCancelled \/ notify_finish
           \/ stop \/ Joined \/ Destroyed \/ UNCHANGED vars
    BY <1>5 DEF DrainConnects, DrainUnresolved, UnresolvedNotifies, DrainNotifies, DrainEnds,
                WaitCancelled, notify_finish, stop, Joined, Destroyed, request, vars
<1> QED BY <1>2, <1>3, <1>4, <1>5 DEF Next, Drain

\* For any number of requests: once make_blocked() has returned true no callback
\* changes the status its caller reads, except a failure into another.
THEOREM StatusFinalCorrect == Spec => StatusFinal
<1>1. Inv /\ OverInv /\ ReplyInv /\ [Next]_vars
      => [\A r \in Blocking : caller[r] = "true" =>
              \/ status_'[r] = status_[r]
              \/ status_[r] = "none" /\ status_'[r] = "unsent"]_vars
    BY StatusKept
<1> QED BY <1>1, InvInit, InvNext, OverInit, OverNext, ReplyInit, ReplyNext, PTL
        DEF Spec, StatusFinal
=============================================================================
