--------------------------- MODULE MCDirectUpload ---------------------------
(* Instances of DirectUpload for TLC. *)
EXTENDS DirectUpload

World(f, n) == [faults |-> f, chunks |-> 1..n]
AllWorlds == {World({"bare", "cancel"}, 3), World({"disconnect", "old"}, 3),
              World({"unresolved"}, 3), World({"late", "refuse", "unresolved", "bare"}, 2)}
LateAnswers == {World({"late"}, 3)}
=============================================================================
