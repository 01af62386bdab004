------------------------ MODULE MCSegmentedUploader ------------------------
(* Instances of SegmentedUploader for TLC. *)
EXTENDS SegmentedUploader

CONSTANTS s1, s2, s3, s4, s5

Ask(b, e, r, p, k) == [at |-> b, begin |-> b, end |-> e, pre |-> r, post |-> p, ticket |-> k]
Moved(a, b, p) == [at |-> a, begin |-> b, end |-> 0, pre |-> 1, post |-> p, ticket |-> FALSE]
World(r, f, a) == [recorder |-> r, faults |-> f, asked |-> a]

\* An event whose end is not known, at once or when by_event uploads start, a
\* synchronisation request that begins before or with it, and a stateless event that
\* meets both; a request between two others, for its turn while it is cancelled.
Events == (s1 :> {Ask(3, 0, 1, 1, FALSE), Moved(2, 3, 1)}) @@ (s2 :> {Ask(2, 5, 0, 0, TRUE)})
            @@ (s3 :> {Ask(4, 4, 1, 1, FALSE)})
            @@ (s4 :> {Ask(3, 5, 0, 0, FALSE)}) @@ (s5 :> {Ask(4, 8, 0, 0, TRUE)})
CloudHas == {[b |-> 3, e |-> 4]}

Cameras == {World("whole", {}, {s1, s2, s3}),
            World("whole", {"cancel"}, {s2, s3}),
            World("gap", {"upload", "cancel"}, {s1, s2}),
            World("gap", {"list"}, {s1, s2}),
            World("part", {"list"}, {s1, s2, s3}),
            World("long", {"upload"}, {s1, s2}),
            World("whole", {"cancel"}, {s3, s4, s5})}

\* Two events that overlap, nothing on the Cloud and no faults.
Pair == (s1 :> {Ask(3, 3, 1, 1, FALSE)}) @@ (s2 :> {Ask(4, 4, 1, 1, FALSE)})
CloudEmpty == {}
Flawless == {World("whole", {}, {s1, s2})}
=============================================================================
