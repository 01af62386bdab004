-------------------------- MODULE MCStreamControl --------------------------
(* Instances of StreamControl for TLC. *)
EXTENDS StreamControl

CONSTANTS e1, e2, p1

\* Every reason, a failing source or sink, a lost connection.
Sinks == [events |-> {e1, p1}, starts |-> ReasonKind, stops |-> ReasonKind,
          reports |-> FALSE, faults |-> {"source", "sink", "close", "dies"},
          MaxTimers |-> 0, MaxTasks |-> 0, MaxDepth |-> 1]

\* New settings, and the storage status asked for again.
Settings == [events |-> {e1}, starts |-> {"RECORD_BY_EVENT", "RECORD_DIRECT"},
             stops |-> {"RECORD_BY_EVENT", "RECORD_DIRECT"},
             reports |-> FALSE, faults |-> {"config", "halt"},
             MaxTimers |-> 0, MaxTasks |-> 0, MaxDepth |-> 0]

\* The card and the device come and go, and their answers fail.
Recording == [events |-> {}, starts |-> ReasonKind \ {"RECORD"},
              stops |-> ReasonKind \ {"RECORD"}, reports |-> TRUE,
              faults |-> {"record", "info", "unknown", "card", "halt", "close"},
              MaxTimers |-> 0, MaxTasks |-> 1, MaxDepth |-> 0]

\* Two events overlap, with and without a card.
Overlap == [events |-> {e1, e2}, starts |-> {"RECORD_BY_EVENT"}, stops |-> {},
            reports |-> FALSE, faults |-> {"card"}, MaxTimers |-> 1, MaxTasks |-> 1, MaxDepth |-> 1]

\* One event, and event-driven recording is ended.
Ended == [events |-> {e1}, starts |-> {"RECORD_BY_EVENT"},
          stops |-> {"RECORD_BY_EVENT"}, reports |-> FALSE, faults |-> {},
          MaxTimers |-> 1, MaxTasks |-> 1, MaxDepth |-> 1]

AllWorlds == {Sinks, Settings, Recording, Overlap}
OverlapOnly == {Overlap}
EndedOnly == {Ended}
=============================================================================
