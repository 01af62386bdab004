---------------------------- MODULE MCEventFiles ----------------------------
(* Instance of EventFiles for TLC. *)
EXTENDS EventFiles

OneOfEach == [k \in Kind |-> 1]

CONSTANTS t1, t2

Url(cats, any) == [cats |-> cats, any |-> any]

\* More snapshots than there is room for, and uploads answered twice.
Crowd == [threads |-> {t1}, events |-> 5, files |-> {{"snapshot"}}, hidden |-> {FALSE},
          answers |-> {Url({"snapshot"}, 0)}, outages |-> FALSE, unresolved |-> {TRUE}, MaxStops |-> 0]
\* Both files, every answer, hidden events, a lost connection and a restart.
Trouble == [threads |-> {t1, t2}, events |-> 2, files |-> {{"snapshot"}, {"snapshot", "meta"}}, hidden |-> BOOLEAN,
            answers |-> {Url({}, 0), Url({"snapshot"}, 0), Url(Kind, 0), Url({}, 1), Url({}, 2)},
            outages |-> TRUE, unresolved |-> {FALSE}, MaxStops |-> 1]
AllWorlds == {Crowd, Trouble}
=============================================================================
