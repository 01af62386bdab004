----------------------------- MODULE Completion -----------------------------
(***************************************************************************)
(* What the agent can rely on when it hands a request to the HTTP client:  *)
(* the response callback is called for requests that were made, once for   *)
(* each, or twice in a row for one whose host name could not be resolved.  *)
(* manager::on_direct_upload_url counts upload slots and reports a chunk   *)
(* to its segmenter in that callback, and EventFiles and DirectUpload      *)
(* model what the second call does there. Once the client is stopped no    *)
(* response comes any more.                                                *)
(***************************************************************************)
EXTENDS Naturals

CONSTANT Request

VARIABLES made,    \* the requests handed over
          answers, \* answers[r]: calls of the response callback of r
          again,   \* the request that is going to be answered a second time
          over     \* the client has been stopped

vars == <<made, answers, again, over>>

Init == made = {} /\ answers = [r \in Request |-> 0] /\ again = {} /\ over = FALSE

Make(r) == /\ r \notin made
           /\ made' = made \cup {r}
           /\ UNCHANGED <<answers, again, over>>

Answer(r) == /\ r \in made /\ answers[r] = 0 /\ again = {} /\ ~over
             /\ answers' = [answers EXCEPT ![r] = 1]
             /\ again' \in {{}, {r}}
             /\ UNCHANGED <<made, over>>

AnswerAgain(r) == /\ r \in again /\ answers[r] = 1
                  /\ answers' = [answers EXCEPT ![r] = 2]
                  /\ again' = {}
                  /\ UNCHANGED <<made, over>>

Stop == ~over /\ again = {} /\ over' = TRUE /\ UNCHANGED <<made, answers, again>>

Next == (\E r \in Request : Make(r) \/ Answer(r) \/ AnswerAgain(r)) \/ Stop

Spec == Init /\ [][Next]_vars
=============================================================================
