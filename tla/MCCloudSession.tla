--------------------------- MODULE MCCloudSession ---------------------------
(* Instances of CloudSession for TLC. *)
EXTENDS CloudSession

Plain(n) == [name |-> n, reason |-> "INVALID"]
Bye(r)   == [name |-> "bye", reason |-> r]

\* One command of every kind, and every kind of bye.
AllCommands == {Plain("hello"), Plain("cam_hello"), Plain("configure")}
                 \cup {Bye(r) : r \in ByeReason \ {"DELETED"}}

\* The commands that decide whether the agent reconnects.
ByesOnly == {Bye("RECONNECT"), Bye("AUTH_FAILURE")}

DeletedOnly == {Bye("DELETED")}

\* Every command; connects that fail at once; a restart.
Plainly == [sent |-> AllCommands, MaxRx |-> 2, MaxStarts |-> 1, MaxNulls |-> 0]
Failing == [sent |-> ByesOnly, MaxRx |-> 1, MaxStarts |-> 1, MaxNulls |-> 2]
Restart == [sent |-> ByesOnly, MaxRx |-> 1, MaxStarts |-> 2, MaxNulls |-> 1]
AllWorlds == {Plainly, Failing, Restart}

DeletedWorld == {[sent |-> DeletedOnly, MaxRx |-> 1, MaxStarts |-> 1, MaxNulls |-> 0]}
=============================================================================
