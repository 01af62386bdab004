------------------------ MODULE DirectUpload_proofs ------------------------
(***************************************************************************)
(* Proofs about the upload of clips, for any number of chunks, any limit,  *)
(* any width of the counter that holds the chunks and any faults. The      *)
(* inductive invariant UploadInv says where a chunk is, how often it was   *)
(* reported and what the rx and the http thread hold; from it follow the   *)
(* match of records_uploading with the slots taken, modulo its width and   *)
(* unless an update was lost, and with the match the bound on the clips.   *)
(***************************************************************************)
EXTENDS DirectUpload, FiniteSetTheorems, TLAPS

(***************************************************************************)
(* Where a chunk is. Each step moves at most one chunk on, so none is ever *)
(* in two places. on_finished() is called at the end of its way, and again *)
(* when its answer was late and when the storage answers twice.            *)
(***************************************************************************)
Place == {"planning", "enqueuing", "queued", "exporting", "awaited", "rx", "uploading"}
At(u, k) ==
    \/ k = "planning"  /\ planning = u
    \/ k = "enqueuing" /\ u \in enqueuing
    \/ k = "queued"    /\ u \in ToSet(video_q)
    \/ k = "exporting" /\ exporting = u
    \/ k = "awaited"   /\ u \in acks_
    \/ k = "rx"        /\ rx.id = u
    \/ k = "uploading" /\ u \in uploads
Early == {"planning", "enqueuing", "queued", "exporting"}
Somewhere(u) == \E k \in Place : At(u, k)

Once(q) == \A i, j \in 1..Len(q) : q[i] = q[j] => i = j
OnePlace == \A u \in Upload : \A j, k \in Place : At(u, j) /\ At(u, k) => j = k
PlacesInv ==
    /\ OnePlace
    /\ Once(video_q)
    /\ \A u \in Upload : Somewhere(u) => u \in planned \/ planning = u
    /\ ackTimer \subseteq acks_

\* What the threads hold while they are inside a call.
ControlInv ==
    /\ sync = "export" <=> exporting # None
    /\ sync = "room" => video_q # <<>>
    /\ rx.at = "idle" <=> rx.id = None
    /\ canceled => cancelAsked

\* The storage has answered u and is going to answer once more.
AnswersAgain(u) == http.twice /\ u = http.id

\* How often on_finished() has been called for a chunk on its way, and at most.
CallsOf(u) ==
    /\ notified[u] <= 1 + One(u \in timedOut) + One(u \in twice)
    /\ Somewhere(u) \/ u \notin planned => notified[u] <= One(u \in timedOut) /\ u \notin twice
    /\ u \in ackTimer => u \notin timedOut
    /\ u \in timedOut => u \in planned /\ \A k \in Early : ~At(u, k)
    /\ AnswersAgain(u) => /\ ~Somewhere(u) /\ u \in twice /\ u \in planned
                          /\ notified[u] <= 1 + One(u \in timedOut)
CallsInv == \A u \in Upload : CallsOf(u)

\* What the rx thread and the http thread hold: a clip, a slot, a second answer.
HandInv ==
    /\ rx.at \in {"idle", "url", "count"} => ~rx.slot
    /\ rx.at \in {"idle", "url"} => ~rx.data
    /\ rx.at = "count" => rx.data
    /\ rx.slot => rx.data
    /\ rx.data => rx.slot \/ canceled \/ rx.at = "count"
    /\ leaked => canceled /\ rx.at # "count" /\ ~rx.slot
    /\ http.at = "idle" => ~http.twice
    /\ http.at = "again" => http.twice
    /\ http.at # "idle" => http.id \in Upload

\* A clip waits with its answer; the one the counter is about to be raised for
\* is still in records_, or was, until its timeout erased it.
RecordsInv ==
    /\ RecordsAwaited
    /\ rx.at = "start" => rx.id \notin records_
    /\ rx.at = "count" => rx.id \in records_ \cup timedOut
    /\ expiring # None => expiring \in timedOut

UploadInv ==
    TypeOK /\ ControlInv /\ PlacesInv /\ CallsInv /\ HandInv /\ SlotsMatch /\ RecordsInv /\ NothingLost

\* The queue: an element is appended, taken from the head, or taken out.
LEMMA ToSetIs ==
    ASSUME NEW S, NEW q \in Seq(S)
    PROVE  /\ \A i \in 1..Len(q) : q[i] \in ToSet(q)
           /\ \A x \in ToSet(q) : \E i \in 1..Len(q) : q[i] = x
           /\ ToSet(q) \subseteq S
  BY DEF ToSet

LEMMA AppendFacts ==
    ASSUME NEW S, NEW q \in Seq(S), NEW u \in S, Once(q), u \notin ToSet(q)
    PROVE  /\ Once(Append(q, u))
           /\ ToSet(Append(q, u)) = ToSet(q) \cup {u}
<1> DEFINE r == Append(q, u)
<1>0. r \in Seq(S) /\ Len(r) = Len(q) + 1 /\ Len(q) \in Nat
  OBVIOUS
<1>1. \A i \in 1..Len(q) + 1 : r[i] = IF i <= Len(q) THEN q[i] ELSE u
  OBVIOUS
<1> HIDE DEF r
<1>2. \A i \in 1..Len(q) : q[i] # u
  BY ToSetIs
<1>3. Once(r)
  BY <1>0, <1>1, <1>2 DEF Once
<1>4. ToSet(q) \subseteq ToSet(r)
  <2> SUFFICES ASSUME NEW i \in 1..Len(q) PROVE q[i] \in ToSet(r)
    BY ToSetIs
  <2>1. i \in 1..Len(r) /\ r[i] = q[i]
    BY <1>0, <1>1
  <2> QED
    BY <1>0, <2>1, ToSetIs
<1>5. u \in ToSet(r)
  <2>1. Len(q) + 1 \in 1..Len(r) /\ r[Len(q) + 1] = u
    BY <1>0, <1>1
  <2>2. \A i \in 1..Len(r) : r[i] \in ToSet(r)
    BY <1>0, ToSetIs
  <2> QED
    BY <2>1, <2>2
<1>6. ToSet(r) \subseteq ToSet(q) \cup {u}
  <2> SUFFICES ASSUME NEW x \in ToSet(r) PROVE x \in ToSet(q) \cup {u}
    OBVIOUS
  <2>1. PICK i \in 1..Len(r) : r[i] = x
    BY <1>0, ToSetIs
  <2>2. CASE i <= Len(q)
    BY <1>0, <1>1, <2>1, <2>2, ToSetIs
  <2>3. CASE ~(i <= Len(q))
    BY <1>0, <1>1, <2>1, <2>3
  <2> QED
    BY <2>2, <2>3
<1> QED
  BY <1>3, <1>4, <1>5, <1>6 DEF r

LEMMA RemoveAtIs ==
    ASSUME NEW S, NEW q \in Seq(S), NEW n \in 1..Len(q)
    PROVE  /\ RemoveAt(q, n) \in Seq(S)
           /\ Len(RemoveAt(q, n)) = Len(q) - 1
           /\ \A i \in 1..Len(q) - 1 : RemoveAt(q, n)[i] = IF i < n THEN q[i] ELSE q[i + 1]
<1> DEFINE a == SubSeq(q, 1, n - 1)
           b == SubSeq(q, n + 1, Len(q))
<1>1. /\ a \in Seq(S) /\ Len(a) = n - 1 /\ \A i \in 1..n - 1 : a[i] = q[i]
  OBVIOUS
<1>2. /\ b \in Seq(S) /\ Len(b) = Len(q) - n /\ \A i \in 1..Len(q) - n : b[i] = q[i + n]
  OBVIOUS
<1>3. RemoveAt(q, n) = a \o b
  BY DEF RemoveAt
<1> HIDE DEF a, b
<1>4. /\ RemoveAt(q, n) \in Seq(S) /\ Len(RemoveAt(q, n)) = Len(q) - 1
  BY <1>1, <1>2, <1>3
<1>5. ASSUME NEW i \in 1..Len(q) - 1
      PROVE  RemoveAt(q, n)[i] = IF i < n THEN q[i] ELSE q[i + 1]
  <2>1. CASE i < n
    BY <1>1, <1>2, <1>3, <2>1
  <2>2. CASE ~(i < n)
    <3>1. (a \o b)[i] = b[i - (n - 1)]
      BY <1>1, <1>2, <2>2
    <3>2. i - (n - 1) \in 1..Len(q) - n /\ i - (n - 1) + n = i + 1
      BY <2>2
    <3> QED
      BY <1>2, <1>3, <2>2, <3>1, <3>2
  <2> QED
    BY <2>1, <2>2
<1> QED
  BY <1>4, <1>5

LEMMA RemoveAtFacts ==
    ASSUME NEW S, NEW q \in Seq(S), NEW n \in 1..Len(q), Once(q)
    PROVE  /\ Once(RemoveAt(q, n))
           /\ ToSet(RemoveAt(q, n)) = ToSet(q) \ {q[n]}
<1> DEFINE r == RemoveAt(q, n)
           from(i) == IF i < n THEN i ELSE i + 1
<1>0. Len(q) \in Nat
  OBVIOUS
<1>1. r \in Seq(S) /\ Len(r) = Len(q) - 1 /\ \A i \in 1..Len(r) : r[i] = q[from(i)]
  BY <1>0, RemoveAtIs
<1>2. \A i \in 1..Len(r) : from(i) \in 1..Len(q) /\ from(i) # n
  BY <1>0, <1>1
<1>3. \A i, j \in 1..Len(r) : from(i) = from(j) => i = j
  BY <1>0, <1>1
<1>4. \A m \in 1..Len(q) : m # n => \E i \in 1..Len(r) : from(i) = m
  <2> SUFFICES ASSUME NEW m \in 1..Len(q), m # n PROVE \E i \in 1..Len(r) : from(i) = m
    OBVIOUS
  <2>1. CASE m < n
    BY <1>0, <1>1, <2>1
  <2>2. CASE m > n
    <3>1. m - 1 \in 1..Len(r) /\ from(m - 1) = m
      BY <1>0, <1>1, <2>2
    <3> QED
      BY <3>1
  <2> QED
    BY <2>1, <2>2
<1> HIDE DEF r, from
<1>5. Once(r)
  BY <1>1, <1>2, <1>3 DEF Once
<1>6. ToSet(r) \subseteq ToSet(q) \ {q[n]}
  <2> SUFFICES ASSUME NEW i \in 1..Len(r) PROVE r[i] \in ToSet(q) /\ r[i] # q[n]
    BY <1>1, ToSetIs
  <2> QED
    BY <1>1, <1>2, ToSetIs DEF Once
<1>7. ToSet(q) \ {q[n]} \subseteq ToSet(r)
  <2> SUFFICES ASSUME NEW m \in 1..Len(q), q[m] # q[n] PROVE q[m] \in ToSet(r)
    BY ToSetIs
  <2>1. PICK i \in 1..Len(r) : from(i) = m
    BY <1>4
  <2> QED
    BY <1>1, <2>1, ToSetIs
<1> QED
  BY <1>5, <1>6, <1>7 DEF r

LEMMA TailFacts ==
    ASSUME NEW S, NEW q \in Seq(S), q # <<>>, Once(q)
    PROVE  /\ Head(q) \in S /\ Tail(q) \in Seq(S) /\ Head(q) \in ToSet(q)
           /\ Once(Tail(q))
           /\ ToSet(Tail(q)) = ToSet(q) \ {Head(q)}
<1>1. Len(q) \in Nat /\ 1 \in 1..Len(q) /\ Head(q) = q[1] /\ Head(q) \in S /\ Tail(q) \in Seq(S)
  OBVIOUS
<1>2. Tail(q) = RemoveAt(q, 1)
  <2>1. /\ RemoveAt(q, 1) \in Seq(S) /\ Len(RemoveAt(q, 1)) = Len(q) - 1
        /\ \A i \in 1..Len(q) - 1 : RemoveAt(q, 1)[i] = q[i + 1]
    BY <1>1, RemoveAtIs
  <2>2. Len(Tail(q)) = Len(q) - 1 /\ \A i \in 1..Len(q) - 1 : Tail(q)[i] = q[i + 1]
    BY <1>1
  <2> QED
    BY <1>1, <2>1, <2>2
<1>3. /\ Once(RemoveAt(q, 1)) /\ ToSet(RemoveAt(q, 1)) = ToSet(q) \ {q[1]}
  BY <1>1, RemoveAtFacts
<1>4. q[1] \in ToSet(q)
  BY <1>1, ToSetIs
<1> QED
  BY <1>1, <1>2, <1>3, <1>4

\* The parts of the type invariant whose variables do not change.
LEMMA Frame ==
    ASSUME TypeOK
    PROVE  /\ UNCHANGED segmenter => SegmenterOK'
           /\ UNCHANGED outcome => OutcomeOK'
           /\ UNCHANGED status => StatusOK'
           /\ UNCHANGED queue => QueueOK'
           /\ UNCHANGED awaiting => AwaitingOK'
           /\ UNCHANGED rx => (rx \in RxType)'
           /\ UNCHANGED slots => SlotsOK'
           /\ UNCHANGED transfer => TransferOK'
           /\ UNCHANGED registered_ => (registered_ \in BOOLEAN)'
<1>0. /\ SegmenterOK /\ OutcomeOK /\ StatusOK /\ QueueOK /\ AwaitingOK /\ rx \in RxType
      /\ SlotsOK /\ TransferOK /\ registered_ \in BOOLEAN
  BY DEF TypeOK
<1>1. UNCHANGED segmenter => SegmenterOK'
  BY <1>0 DEF segmenter, SegmenterOK
<1>2. UNCHANGED outcome => OutcomeOK'
  BY <1>0 DEF outcome, OutcomeOK
<1>3. UNCHANGED status => StatusOK'
  BY <1>0 DEF status, StatusOK
<1>4. UNCHANGED queue => QueueOK'
  BY <1>0 DEF queue, QueueOK
<1>5. UNCHANGED awaiting => AwaitingOK'
  BY <1>0 DEF awaiting, AwaitingOK
<1>6. UNCHANGED slots => SlotsOK'
  BY <1>0 DEF slots, SlotsOK
<1>7. UNCHANGED transfer => TransferOK'
  BY <1>0 DEF transfer, TransferOK
<1>8. UNCHANGED rx => (rx \in RxType)'
  BY <1>0 DEF RxType
<1>9. UNCHANGED registered_ => (registered_ \in BOOLEAN)'
  BY <1>0
<1> QED
  BY <1>1, <1>2, <1>3, <1>4, <1>5, <1>6, <1>7, <1>8, <1>9

\* What a call of on_finished() does to the counts and to the thread.
LEMMA FinishedOK ==
    ASSUME TypeOK, NEW t \in Thread, NEW u \in Upload, NEW ok \in BOOLEAN, on_finished(t, u, ok)
    PROVE  OutcomeOK' /\ StatusOK'
<1>0. OutcomeOK /\ StatusOK /\ SegmenterOK
  BY DEF TypeOK
<1>1. finished' \in BOOLEAN
  BY <1>0 DEF on_finished, AllReported, SegmenterOK
<1>2. done' \in Nat /\ failed' \in Nat
  BY <1>0 DEF on_finished, OutcomeOK
<1>3. notified' \in [Upload -> Nat]
  BY <1>0 DEF on_finished, OutcomeOK
<1>4. StatusOK'
  BY <1>0 DEF on_finished, StatusOK
<1> QED
  BY <1>1, <1>2, <1>3, <1>4 DEF OutcomeOK

\* What the rx thread and the http thread are when they are idle.
LEMMA IdleTypes == 0 \in 0..Wrap - 1 /\ RxIdle \in RxType /\ HttpIdle \in HttpType
<1>1. 0 \in 0..Wrap - 1
  <2>1. Cardinality(Upload) \in Nat
    BY UploadAssumption, FS_CardinalityType
  <2> QED
    BY <2>1, UploadAssumption
<1> QED
  BY <1>1 DEF RxIdle, RxType, HttpIdle, HttpType

\* The arithmetic of the counter stays in its range.
LEMMA RangeOfCounter ==
    ASSUME NEW n \in 0..Wrap - 1
    PROVE  Up(n) \in 0..Wrap - 1 /\ Down(n) \in 0..Wrap - 1
  BY UploadAssumption DEF Up, Down

\* Every step keeps the types.
LEMMA TypeStep ==
    ASSUME UploadInv, [Next]_vars
    PROVE  TypeOK'
<1>0. /\ SegmenterOK /\ OutcomeOK /\ StatusOK /\ QueueOK /\ AwaitingOK /\ rx \in RxType
      /\ SlotsOK /\ TransferOK /\ ControlInv /\ HandInv
  BY DEF UploadInv, TypeOK
<1>1. ASSUME NEW u \in Upload, NEW last \in BOOLEAN, SegmentStep(u, last) PROVE TypeOK'
  <2>1. SegmenterOK'
    BY <1>1, <1>0, UploadAssumption DEF SegmentStep, SegmenterOK
  <2>2. /\ OutcomeOK' /\ StatusOK' /\ QueueOK' /\ AwaitingOK'
        /\ (rx \in RxType)' /\ SlotsOK' /\ TransferOK' /\ (registered_ \in BOOLEAN)'
    BY <1>1, Frame DEF SegmentStep, UploadInv
  <2> QED
    BY <2>1, <2>2 DEF TypeOK
<1>2. ASSUME SegmentEnd PROVE TypeOK'
  <2>1. SegmenterOK'
    BY <1>2, <1>0, UploadAssumption DEF SegmentEnd, SegmenterOK
  <2>2. OutcomeOK'
    BY <1>2, <1>0, UploadAssumption DEF SegmentEnd, OutcomeOK
  <2>3. StatusOK'
    BY <1>2, <1>0, UploadAssumption DEF SegmentEnd, StatusOK
  <2>4. /\ QueueOK' /\ AwaitingOK' /\ (rx \in RxType)'
        /\ SlotsOK' /\ TransferOK' /\ (registered_ \in BOOLEAN)'
    BY <1>2, Frame DEF SegmentEnd, UploadInv
  <2> QED
    BY <2>1, <2>2, <2>3, <2>4 DEF TypeOK
<1>3. ASSUME Plan PROVE TypeOK'
  <2>1. planning \in Upload
    BY <1>3, <1>0 DEF Plan, SegmenterOK
  <2>2. SegmenterOK'
    BY <1>3, <1>0, <2>1 DEF Plan, SegmenterOK
  <2>3. QueueOK'
    BY <1>3, <1>0, <2>1 DEF Plan, QueueOK
  <2>4. /\ OutcomeOK' /\ StatusOK' /\ AwaitingOK'
        /\ (rx \in RxType)' /\ SlotsOK' /\ TransferOK' /\ (registered_ \in BOOLEAN)'
    BY <1>3, Frame DEF Plan, UploadInv
  <2> QED
    BY <2>2, <2>3, <2>4 DEF TypeOK
<1>4. ASSUME cancel_upload PROVE TypeOK'
  <2>1. SegmenterOK'
    BY <1>4, <1>0, UploadAssumption DEF cancel_upload, SegmenterOK
  <2>2. /\ OutcomeOK' /\ StatusOK' /\ QueueOK' /\ AwaitingOK'
        /\ (rx \in RxType)' /\ SlotsOK' /\ TransferOK' /\ (registered_ \in BOOLEAN)'
    BY <1>4, Frame DEF cancel_upload, UploadInv
  <2> QED
    BY <2>1, <2>2 DEF TypeOK
<1>5. ASSUME __segmenter_cancel_by_ticket PROVE TypeOK'
  <2>1. SegmenterOK'
    BY <1>5, <1>0, UploadAssumption DEF __segmenter_cancel_by_ticket, SegmenterOK
  <2>2. OutcomeOK'
    BY <1>5, <1>0, UploadAssumption DEF __segmenter_cancel_by_ticket, OutcomeOK
  <2>3. StatusOK'
    BY <1>5, <1>0, UploadAssumption DEF __segmenter_cancel_by_ticket, StatusOK
  <2>4. /\ QueueOK' /\ AwaitingOK' /\ (rx \in RxType)'
        /\ SlotsOK' /\ TransferOK' /\ (registered_ \in BOOLEAN)'
    BY <1>5, Frame DEF __segmenter_cancel_by_ticket, UploadInv
  <2> QED
    BY <2>1, <2>2, <2>3, <2>4 DEF TypeOK
<1>6. ASSUME NEW u \in Upload, Enqueue(u) PROVE TypeOK'
  <2>1. QueueOK'
    BY <1>6, <1>0, UploadAssumption DEF Enqueue, QueueOK
  <2>2. /\ SegmenterOK' /\ OutcomeOK' /\ StatusOK' /\ AwaitingOK'
        /\ (rx \in RxType)' /\ SlotsOK' /\ TransferOK' /\ (registered_ \in BOOLEAN)'
    BY <1>6, Frame DEF Enqueue, UploadInv
  <2> QED
    BY <2>1, <2>2 DEF TypeOK
<1>7. ASSUME _cancel_direct_uploads_by_ticket PROVE TypeOK'
  <2>1. QueueOK'
    BY <1>7, <1>0, UploadAssumption DEF _cancel_direct_uploads_by_ticket, QueueOK
  <2>2. /\ SegmenterOK' /\ OutcomeOK' /\ StatusOK' /\ AwaitingOK'
        /\ (rx \in RxType)' /\ SlotsOK' /\ TransferOK' /\ (registered_ \in BOOLEAN)'
    BY <1>7, Frame DEF _cancel_direct_uploads_by_ticket, UploadInv
  <2> QED
    BY <2>1, <2>2 DEF TypeOK
<1>8. ASSUME NEW i \in 1..Len(video_q), _update_direct_upload_queue_latency(i) PROVE TypeOK'
  <2>1. video_q[i] \in Upload
    BY <1>8, <1>0 DEF _update_direct_upload_queue_latency, QueueOK
  <2>2. OutcomeOK' /\ StatusOK'
    BY <1>8, <2>1, FinishedOK DEF _update_direct_upload_queue_latency, Thread, UploadInv
  <2>3. QueueOK'
    BY <1>8, <1>0, RemoveAtIs DEF _update_direct_upload_queue_latency, QueueOK
  <2>4. /\ SegmenterOK' /\ AwaitingOK' /\ (rx \in RxType)'
        /\ SlotsOK' /\ TransferOK' /\ (registered_ \in BOOLEAN)'
    BY <1>8, Frame DEF _update_direct_upload_queue_latency, UploadInv
  <2> QED
    BY <2>2, <2>3, <2>4 DEF TypeOK
<1>9. ASSUME direct_upload_sync_cb PROVE TypeOK'
  <2>1. QueueOK'
    BY <1>9, <1>0, UploadAssumption DEF direct_upload_sync_cb, QueueOK
  <2>2. /\ SegmenterOK' /\ OutcomeOK' /\ StatusOK' /\ AwaitingOK'
        /\ (rx \in RxType)' /\ SlotsOK' /\ TransferOK' /\ (registered_ \in BOOLEAN)'
    BY <1>9, Frame DEF direct_upload_sync_cb, UploadInv
  <2> QED
    BY <2>1, <2>2 DEF TypeOK
<1>10. ASSUME SyncLoop PROVE TypeOK'
  <2>1. QueueOK'
    BY <1>10, <1>0, UploadAssumption DEF SyncLoop, QueueOK
  <2>2. /\ SegmenterOK' /\ OutcomeOK' /\ StatusOK' /\ AwaitingOK'
        /\ (rx \in RxType)' /\ SlotsOK' /\ TransferOK' /\ (registered_ \in BOOLEAN)'
    BY <1>10, Frame DEF SyncLoop, UploadInv
  <2> QED
    BY <2>1, <2>2 DEF TypeOK
<1>11. ASSUME SyncRoom PROVE TypeOK'
  <2>1. sync = "room" /\ video_q # <<>>
    BY <1>11, <1>0 DEF SyncRoom, ControlInv
  <2>2. Head(video_q) \in Upload /\ Tail(video_q) \in Seq(Upload)
    BY <1>0, <2>1 DEF QueueOK
  <2>3. QueueOK'
    BY <1>11, <1>0, <2>2 DEF SyncRoom, QueueOK
  <2>4. /\ SegmenterOK' /\ OutcomeOK' /\ StatusOK' /\ AwaitingOK'
        /\ (rx \in RxType)' /\ SlotsOK' /\ TransferOK' /\ (registered_ \in BOOLEAN)'
    BY <1>11, Frame DEF SyncRoom, UploadInv
  <2> QED
    BY <2>3, <2>4 DEF TypeOK
<1>12. ASSUME ExportFails PROVE TypeOK'
  <2>1. exporting \in Upload
    BY <1>12, <1>0 DEF ExportFails, QueueOK, ControlInv
  <2>2. OutcomeOK' /\ StatusOK'
    BY <1>12, <2>1, FinishedOK DEF ExportFails, Thread, UploadInv
  <2>3. QueueOK'
    BY <1>12, <1>0, UploadAssumption DEF ExportFails, QueueOK
  <2>4. /\ SegmenterOK' /\ AwaitingOK' /\ (rx \in RxType)'
        /\ SlotsOK' /\ TransferOK' /\ (registered_ \in BOOLEAN)'
    BY <1>12, Frame DEF ExportFails, UploadInv
  <2> QED
    BY <2>2, <2>3, <2>4 DEF TypeOK
<1>13. ASSUME _request_direct_upload_video PROVE TypeOK'
  <2>1. exporting \in Upload
    BY <1>13, <1>0 DEF _request_direct_upload_video, QueueOK, ControlInv
  <2>2. QueueOK'
    BY <1>13, <1>0, UploadAssumption DEF _request_direct_upload_video, QueueOK
  <2>3. AwaitingOK'
    BY <1>13, <1>0, <2>1 DEF _request_direct_upload_video, AwaitingOK
  <2>4. /\ SegmenterOK' /\ OutcomeOK' /\ StatusOK'
        /\ (rx \in RxType)' /\ SlotsOK' /\ TransferOK' /\ (registered_ \in BOOLEAN)'
    BY <1>13, Frame DEF _request_direct_upload_video, UploadInv
  <2> QED
    BY <2>2, <2>3, <2>4 DEF TypeOK
<1>14. ASSUME NEW u \in Upload, AckTimeout(u) PROVE TypeOK'
  <2>1. OutcomeOK' /\ StatusOK'
    BY <1>14, FinishedOK DEF AckTimeout, Thread, UploadInv
  <2>2. AwaitingOK'
    BY <1>14, <1>0, UploadAssumption DEF AckTimeout, AwaitingOK
  <2>3. /\ SegmenterOK' /\ QueueOK' /\ (rx \in RxType)'
        /\ SlotsOK' /\ TransferOK' /\ (registered_ \in BOOLEAN)'
    BY <1>14, Frame DEF AckTimeout, UploadInv
  <2> QED
    BY <2>1, <2>2, <2>3 DEF TypeOK
<1>15. ASSUME DropRecord PROVE TypeOK'
  <2>1. AwaitingOK'
    BY <1>15, <1>0, UploadAssumption DEF DropRecord, AwaitingOK
  <2>2. /\ SegmenterOK' /\ OutcomeOK' /\ StatusOK' /\ QueueOK'
        /\ (rx \in RxType)' /\ SlotsOK' /\ TransferOK' /\ (registered_ \in BOOLEAN)'
    BY <1>15, Frame DEF DropRecord, UploadInv
  <2> QED
    BY <2>1, <2>2 DEF TypeOK
<1>16. ASSUME Disconnected PROVE TypeOK'
  <2>1. AwaitingOK'
    BY <1>16, <1>0, UploadAssumption DEF Disconnected, AwaitingOK
  <2>2. registered_' \in BOOLEAN
    BY <1>16 DEF Disconnected
  <2>3. /\ SegmenterOK' /\ OutcomeOK' /\ StatusOK'
        /\ QueueOK' /\ (rx \in RxType)' /\ SlotsOK' /\ TransferOK'
    BY <1>16, Frame DEF Disconnected, UploadInv
  <2> QED
    BY <2>1, <2>2, <2>3 DEF TypeOK
<1>17. ASSUME Registered PROVE TypeOK'
  <2>1. registered_' \in BOOLEAN
    BY <1>17 DEF Registered
  <2>2. /\ SegmenterOK' /\ OutcomeOK' /\ StatusOK' /\ QueueOK'
        /\ AwaitingOK' /\ (rx \in RxType)' /\ SlotsOK' /\ TransferOK'
    BY <1>17, Frame DEF Registered, UploadInv
  <2> QED
    BY <2>1, <2>2 DEF TypeOK
<1>18. ASSUME NEW u \in Upload, NEW answer \in Answer, _handle_command_ack(u, answer) PROVE TypeOK'
  <2>1. OutcomeOK' /\ StatusOK'
    BY <1>18, Frame, FinishedOK DEF _handle_command_ack, Take, Thread, UploadInv
  <2>2. AwaitingOK'
    BY <1>18, <1>0, UploadAssumption DEF _handle_command_ack, Take, AwaitingOK
  <2>3. (rx \in RxType)'
    BY <1>18, <1>0, UploadAssumption DEF _handle_command_ack, Take, Handling, RxIdle, RxType
  <2>4. SegmenterOK' /\ QueueOK' /\ SlotsOK' /\ TransferOK' /\ (registered_ \in BOOLEAN)'
    BY <1>18, Frame DEF _handle_command_ack, Take, UploadInv
  <2> QED
    BY <2>1, <2>2, <2>3, <2>4 DEF TypeOK
<1>19. ASSUME on_direct_upload_url PROVE TypeOK'
  <2>1. (rx \in RxType)'
    <3>1. CASE rx.id \in records_
      BY <1>19, <1>0, <3>1 DEF on_direct_upload_url, RxType, SlotsOK
    <3>2. CASE rx.id \notin records_
      <4>1. (rx.id \in records_) = FALSE
        BY <3>2
      <4>2. rx' = [rx EXCEPT !.at = "erase", !.data = rx.id \in records_]
        BY <1>19, <3>2, Zenon DEF on_direct_upload_url
      <4>3. rx' = [rx EXCEPT !.at = "erase", !.data = FALSE]
        BY <4>1, <4>2, Zenon
      <4> QED
        BY <1>0, <4>3 DEF RxType
    <3> QED
      BY <3>1, <3>2
  <2>2. /\ SegmenterOK' /\ OutcomeOK' /\ StatusOK' /\ QueueOK'
        /\ AwaitingOK' /\ SlotsOK' /\ TransferOK' /\ (registered_ \in BOOLEAN)'
    BY <1>19, Frame DEF on_direct_upload_url, UploadInv
  <2> QED
    BY <2>1, <2>2 DEF TypeOK
<1>20. ASSUME CountUpload PROVE TypeOK'
  <2>1. (rx \in RxType)'
    BY <1>20, <1>0, IdleTypes DEF CountUpload, RxType
  <2>2. rx.reg \in 0..Wrap - 1
    BY <1>0 DEF RxType
  <2>3. SlotsOK'
    BY <1>20, <1>0, <2>2, RangeOfCounter DEF CountUpload, Count, SlotsOK
  <2>4. /\ SegmenterOK' /\ OutcomeOK' /\ StatusOK'
        /\ QueueOK' /\ AwaitingOK' /\ TransferOK' /\ (registered_ \in BOOLEAN)'
    BY <1>20, Frame DEF CountUpload, Count, UploadInv
  <2> QED
    BY <2>1, <2>3, <2>4 DEF TypeOK
<1>21. ASSUME EraseRecord PROVE TypeOK'
  <2>1. AwaitingOK'
    BY <1>21, <1>0, UploadAssumption DEF EraseRecord, AwaitingOK
  <2>2. (rx \in RxType)'
    BY <1>21, <1>0 DEF EraseRecord, RxType
  <2>3. /\ SegmenterOK' /\ OutcomeOK' /\ StatusOK'
        /\ QueueOK' /\ SlotsOK' /\ TransferOK' /\ (registered_ \in BOOLEAN)'
    BY <1>21, Frame DEF EraseRecord, UploadInv
  <2> QED
    BY <2>1, <2>2, <2>3 DEF TypeOK
<1>22. ASSUME StartUpload PROVE TypeOK'
  <2>1. rx.id \in Upload
    BY <1>22, <1>0 DEF StartUpload, RxType, ControlInv
  <2>2. OutcomeOK' /\ StatusOK'
    BY <1>22, <2>1, Frame, FinishedOK DEF StartUpload, Thread, UploadInv
  <2>3. (rx \in RxType)'
    BY <1>22, IdleTypes DEF StartUpload
  <2>4. rx.slot \in BOOLEAN
    BY <1>0 DEF RxType
  <2>5. TransferOK'
    BY <1>22, <1>0, <2>1, <2>4 DEF StartUpload, TransferOK
  <2>6. SegmenterOK' /\ QueueOK' /\ AwaitingOK' /\ SlotsOK' /\ (registered_ \in BOOLEAN)'
    BY <1>22, Frame DEF StartUpload, UploadInv
  <2> QED
    BY <2>2, <2>3, <2>5, <2>6 DEF TypeOK
<1>23. ASSUME NEW u \in Upload, NEW ok \in BOOLEAN, NEW again \in BOOLEAN, Response(u, ok, again) PROVE TypeOK'
  <2>1. OutcomeOK' /\ StatusOK'
    BY <1>23, FinishedOK DEF Response, Thread, UploadInv
  <2>2. http' \in HttpType
    BY <1>23, IdleTypes DEF Response, HttpIdle, HttpType
  <2>3. TransferOK'
    BY <1>23, <1>0, <2>2 DEF Response, TransferOK
  <2>4. /\ SegmenterOK' /\ QueueOK' /\ AwaitingOK'
        /\ (rx \in RxType)' /\ SlotsOK' /\ (registered_ \in BOOLEAN)'
    BY <1>23, Frame DEF Response, UploadInv
  <2> QED
    BY <2>1, <2>3, <2>4 DEF TypeOK
<1>24. ASSUME LoadSlots PROVE TypeOK'
  <2>1. http' \in HttpType
    BY <1>24, <1>0 DEF LoadSlots, HttpType, TransferOK, SlotsOK
  <2>2. TransferOK'
    BY <1>24, <1>0, <2>1 DEF LoadSlots, TransferOK
  <2>3. /\ SegmenterOK' /\ OutcomeOK' /\ StatusOK' /\ QueueOK'
        /\ AwaitingOK' /\ (rx \in RxType)' /\ SlotsOK' /\ (registered_ \in BOOLEAN)'
    BY <1>24, Frame DEF LoadSlots, UploadInv
  <2> QED
    BY <2>2, <2>3 DEF TypeOK
<1>25. ASSUME Uncount PROVE TypeOK'
  <2>1. http' \in HttpType
    BY <1>25, <1>0, IdleTypes DEF Uncount, HttpType, TransferOK
  <2>2. TransferOK'
    BY <1>25, <1>0, <2>1 DEF Uncount, TransferOK
  <2>3. http.reg \in 0..Wrap - 1
    BY <1>0 DEF TransferOK, HttpType
  <2>4. SlotsOK'
    BY <1>25, <1>0, <2>3, RangeOfCounter DEF Uncount, Count, SlotsOK
  <2>5. /\ SegmenterOK' /\ OutcomeOK' /\ StatusOK'
        /\ QueueOK' /\ AwaitingOK' /\ (rx \in RxType)' /\ (registered_ \in BOOLEAN)'
    BY <1>25, Frame DEF Uncount, Count, UploadInv
  <2> QED
    BY <2>2, <2>4, <2>5 DEF TypeOK
<1>26. ASSUME ResponseAgain PROVE TypeOK'
  <2>1. http.id \in Upload
    BY <1>26, <1>0 DEF ResponseAgain, HandInv
  <2>2. OutcomeOK' /\ StatusOK'
    BY <1>26, <2>1, FinishedOK DEF ResponseAgain, Thread, UploadInv
  <2>3. http' \in HttpType
    BY <1>26, <1>0 DEF ResponseAgain, HttpType, TransferOK
  <2>4. TransferOK'
    BY <1>26, <1>0, <2>3 DEF ResponseAgain, TransferOK
  <2>5. /\ SegmenterOK' /\ QueueOK' /\ AwaitingOK'
        /\ (rx \in RxType)' /\ SlotsOK' /\ (registered_ \in BOOLEAN)'
    BY <1>26, Frame DEF ResponseAgain, UploadInv
  <2> QED
    BY <2>2, <2>4, <2>5 DEF TypeOK
<1>27. ASSUME NEW t \in Thread, __send_timeline_synchronization_status(t) PROVE TypeOK'
  <2>1. StatusOK'
    BY <1>27, <1>0
       DEF __send_timeline_synchronization_status, SyncStatus, StatusOK, Status, Final
  <2>2. /\ SegmenterOK' /\ OutcomeOK' /\ QueueOK' /\ AwaitingOK'
        /\ (rx \in RxType)' /\ SlotsOK' /\ TransferOK' /\ (registered_ \in BOOLEAN)'
    BY <1>27, Frame DEF __send_timeline_synchronization_status, UploadInv
  <2> QED
    BY <2>1, <2>2 DEF TypeOK
<1>28. ASSUME NEW t \in Thread, SendStatus(t) PROVE TypeOK'
  <2>1. StatusOK'
    BY <1>28, <1>0 DEF SendStatus, StatusOK
  <2>2. /\ SegmenterOK' /\ OutcomeOK' /\ QueueOK' /\ AwaitingOK'
        /\ (rx \in RxType)' /\ SlotsOK' /\ TransferOK' /\ (registered_ \in BOOLEAN)'
    BY <1>28, Frame DEF SendStatus, UploadInv
  <2> QED
    BY <2>1, <2>2 DEF TypeOK
<1>29. CASE UNCHANGED vars
  BY <1>29, Frame DEF vars, TypeOK, UploadInv
<1> QED
  BY <1>1, <1>2, <1>3, <1>4, <1>5, <1>6, <1>7, <1>8, <1>9, <1>10, <1>11, <1>12, <1>13, <1>14,
     <1>15, <1>16, <1>17, <1>18, <1>19, <1>20, <1>21, <1>22, <1>23, <1>24, <1>25, <1>26, <1>27,
     <1>28, <1>29
     DEF Next, UploaderNext, SyncNext, SvcNext, RxNext, HttpNext, StatusNext

\* A chunk that moves on, without a report.
LEMMA MovesOn ==
    ASSUME PlacesInv, CallsInv, NEW w \in Upload, NEW a \in Place, NEW b \in Place,
           At(w, a), ~At(w, a)', b \in Early => a \in Early,
           \A u \in Upload : \A k \in Place : At(u, k)' => At(u, k) \/ (u = w /\ k = b),
           Once(video_q'), ackTimer' \subseteq acks_',
           \A u \in ackTimer' : u \in ackTimer \/ (u = w /\ a \in Early),
           planned \subseteq planned',
           \A u \in Upload : planning = u => u \in planned' \/ planning' = u,
           UNCHANGED <<http, notified, timedOut, twice>>
    PROVE  PlacesInv' /\ CallsInv'
<1>1. \A k \in Place : At(w, k)' => k = b
  BY DEF PlacesInv, OnePlace
<1>2. OnePlace'
  BY <1>1 DEF PlacesInv, OnePlace
<1>3. \A u \in Upload : Somewhere(u)' => Somewhere(u)
  BY DEF Somewhere
<1>4. \A u \in Upload : Somewhere(u)' => u \in planned' \/ planning' = u
  BY <1>3 DEF PlacesInv
<1>5. Early \subseteq Place
  BY DEF Early, Place
<1>6. ASSUME NEW u \in Upload PROVE CallsOf(u)'
  <2>1. CallsOf(u)
    BY DEF CallsInv
  <2>2. Somewhere(u)' \/ u \notin planned' => Somewhere(u) \/ u \notin planned
    BY <1>3
  <2>3. u \in timedOut' => /\ u \in planned' /\ u \notin ackTimer'
                           /\ \A k \in Early : ~At(u, k)'
    BY <1>5, <2>1 DEF CallsOf
  <2>4. AnswersAgain(u)' => AnswersAgain(u) /\ ~Somewhere(u)' /\ u \in planned'
    BY <1>3, <2>1 DEF CallsOf, AnswersAgain
  <2> QED
    BY <2>1, <2>2, <2>3, <2>4 DEF CallsOf
<1> QED
  BY <1>2, <1>4, <1>6 DEF PlacesInv, CallsInv

\* No chunk gets anywhere, and none is reported.
LEMMA Stays ==
    ASSUME PlacesInv, CallsInv,
           \A u \in Upload : \A k \in Place : At(u, k)' => At(u, k),
           Once(video_q'), ackTimer' \subseteq acks_', ackTimer' \subseteq ackTimer,
           \A u \in Upload : AnswersAgain(u)' => AnswersAgain(u),
           UNCHANGED <<planned, planning, notified, timedOut, twice>>
    PROVE  PlacesInv' /\ CallsInv'
<1>1. OnePlace'
  BY DEF PlacesInv, OnePlace
<1>2. \A u \in Upload : Somewhere(u)' => Somewhere(u)
  BY DEF Somewhere
<1>3. \A u \in Upload : Somewhere(u)' => u \in planned' \/ planning' = u
  BY <1>2 DEF PlacesInv
<1>4. Early \subseteq Place
  BY DEF Early, Place
<1>5. ASSUME NEW u \in Upload PROVE CallsOf(u)'
  <2>1. CallsOf(u)
    BY DEF CallsInv
  <2>2. Somewhere(u)' \/ u \notin planned' => Somewhere(u) \/ u \notin planned
    BY <1>2
  <2>3. u \in timedOut' => u \in planned' /\ \A k \in Early : ~At(u, k)'
    BY <1>4, <2>1 DEF CallsOf
  <2> QED
    BY <1>2, <2>1, <2>2, <2>3 DEF CallsOf
<1> QED
  BY <1>1, <1>3, <1>5 DEF PlacesInv, CallsInv

\* Nothing of what the accounts of a chunk are about changes.
LEMMA Untouched ==
    ASSUME PlacesInv, CallsInv,
           UNCHANGED <<planned, planning, enqueuing, video_q, exporting, acks_, ackTimer, rx,
                       uploads, http, notified, timedOut, twice>>
    PROVE  PlacesInv' /\ CallsInv'
  BY Stays DEF At, AnswersAgain, PlacesInv

\* The report at the end of the way of a chunk, which a second one may follow.
LEMMA Reported ==
    ASSUME TypeOK, PlacesInv, CallsInv, NEW w \in Upload, NEW a \in Place \ {"planning"},
           At(w, a), ~At(w, a)',
           \A u \in Upload : \A k \in Place : At(u, k)' => At(u, k),
           Once(video_q'), ackTimer' \subseteq acks_', ackTimer' \subseteq ackTimer,
           twice \subseteq twice', twice' \subseteq twice \cup {w},
           \A u \in Upload : AnswersAgain(u)' => AnswersAgain(u) \/ (u = w /\ w \in twice'),
           UNCHANGED <<planned, planning, timedOut>>,
           notified' = [notified EXCEPT ![w] = @ + 1]
    PROVE  PlacesInv' /\ CallsInv'
<1>0. notified \in [Upload -> Nat]
  BY DEF TypeOK, OutcomeOK
<1>1. OnePlace'
  BY DEF PlacesInv, OnePlace
<1>2. \A u \in Upload : Somewhere(u)' => Somewhere(u)
  BY DEF Somewhere
<1>3. \A u \in Upload : Somewhere(u)' => u \in planned' \/ planning' = u
  BY <1>2 DEF PlacesInv
<1>4. Early \subseteq Place
  BY DEF Early, Place
<1>5. ~Somewhere(w)' /\ Somewhere(w) /\ w \in planned
  <2>1. \A k \in Place : At(w, k) => k = a
    BY DEF PlacesInv, OnePlace
  <2>2. Somewhere(w) /\ ~Somewhere(w)'
    BY <2>1 DEF Somewhere
  <2>3. planning # w
    BY <2>1 DEF At, Place
  <2> QED
    BY <2>2, <2>3 DEF PlacesInv
<1>6. ASSUME NEW u \in Upload PROVE CallsOf(u)'
  <2>1. CallsOf(u)
    BY DEF CallsInv
  <2>2. u \in timedOut' => u \in planned' /\ \A k \in Early : ~At(u, k)'
    BY <1>4, <2>1 DEF CallsOf
  <2>3. CASE u # w
    <3>1. notified'[u] = notified[u] /\ (u \in twice' <=> u \in twice)
      BY <1>0, <2>3
    <3>2. Somewhere(u)' \/ u \notin planned' => Somewhere(u) \/ u \notin planned
      BY <1>2
    <3>3. AnswersAgain(u)' => AnswersAgain(u) /\ ~Somewhere(u)'
      BY <1>2, <2>1, <2>3 DEF CallsOf
    <3> QED
      BY <2>1, <2>2, <3>1, <3>2, <3>3 DEF CallsOf
  <2>4. CASE u = w
    <3>1. notified'[w] = notified[w] + 1 /\ notified[w] \in Nat
      BY <1>0
    <3>2. notified[w] <= One(w \in timedOut)
      BY <1>5, <2>1, <2>4 DEF CallsOf
    <3>3. /\ notified'[w] <= 1 + One(w \in timedOut)
          /\ notified'[w] <= 1 + One(w \in timedOut) + One(w \in twice')
      BY <3>1, <3>2 DEF One
    <3>4. AnswersAgain(w)' => w \in twice'
      BY <1>5, <2>1, <2>4 DEF CallsOf
    <3>5. w \in ackTimer' => w \notin timedOut'
      BY <2>1, <2>4 DEF CallsOf
    <3> QED
      BY <1>5, <2>2, <2>4, <3>3, <3>4, <3>5 DEF CallsOf
  <2> QED
    BY <2>3, <2>4
<1> QED
  BY <1>1, <1>3, <1>6 DEF PlacesInv, CallsInv

\* Every step moves at most one chunk, to its next place or to its report.
LEMMA PlacesStep ==
    ASSUME UploadInv, [Next]_vars
    PROVE  PlacesInv' /\ CallsInv'
<1>0. /\ TypeOK /\ PlacesInv /\ CallsInv /\ ControlInv /\ HandInv
      /\ SegmenterOK /\ OutcomeOK /\ QueueOK /\ AwaitingOK /\ rx \in RxType /\ TransferOK
  BY DEF UploadInv, TypeOK
<1>1. ASSUME \/ SegmentEnd
             \/ cancel_upload
             \/ __segmenter_cancel_by_ticket
      PROVE  PlacesInv' /\ CallsInv'
  <2>1. UNCHANGED <<planned, planning, enqueuing, video_q, exporting, acks_, ackTimer, rx,
                     uploads, http, notified, timedOut, twice>>
    BY <1>1 DEF SegmentEnd, cancel_upload, __segmenter_cancel_by_ticket, segmenter, outcome,
              status, queue, awaiting, slots, transfer
  <2> QED
    BY <1>0, <2>1, Untouched
<1>2. ASSUME \/ direct_upload_sync_cb
             \/ SyncLoop
      PROVE  PlacesInv' /\ CallsInv'
  <2>1. UNCHANGED <<planned, planning, enqueuing, video_q, exporting, acks_, ackTimer, rx,
                     uploads, http, notified, timedOut, twice>>
    BY <1>2 DEF direct_upload_sync_cb, SyncLoop, segmenter, outcome, status, queue, awaiting,
              slots, transfer
  <2> QED
    BY <1>0, <2>1, Untouched
<1>3. ASSUME \/ DropRecord
             \/ Disconnected
             \/ Registered
      PROVE  PlacesInv' /\ CallsInv'
  <2>1. UNCHANGED <<planned, planning, enqueuing, video_q, exporting, acks_, ackTimer, rx,
                     uploads, http, notified, timedOut, twice>>
    BY <1>3 DEF DropRecord, Disconnected, Registered, segmenter, outcome, status, queue,
              awaiting, slots, transfer
  <2> QED
    BY <1>0, <2>1, Untouched
<1>4. ASSUME \/ \E t \in Thread : __send_timeline_synchronization_status(t)
             \/ \E t \in Thread : SendStatus(t)
      PROVE  PlacesInv' /\ CallsInv'
  <2>1. UNCHANGED <<planned, planning, enqueuing, video_q, exporting, acks_, ackTimer, rx,
                     uploads, http, notified, timedOut, twice>>
    BY <1>4 DEF __send_timeline_synchronization_status, SendStatus, segmenter, outcome, status,
              queue, awaiting, slots, transfer
  <2> QED
    BY <1>0, <2>1, Untouched
<1>5. ASSUME NEW u \in Upload, NEW last \in BOOLEAN, SegmentStep(u, last) PROVE PlacesInv' /\ CallsInv'
  <2>1. /\ UNCHANGED <<planned, enqueuing, video_q, exporting, acks_, ackTimer, rx, uploads,
                       http, notified, timedOut, twice>>
        /\ planning' = u /\ planning = None /\ u \notin planned
    BY <1>5 DEF SegmentStep, outcome, queue, awaiting, transfer
  <2>2. /\ ~Somewhere(u) /\ \A v \in Upload : planning # v
    BY <1>0, <2>1, UploadAssumption DEF PlacesInv
  <2>3. \A v \in Upload : \A k \in Place : At(v, k)' <=> (v = u /\ k = "planning") \/ At(v, k)
    BY <2>1, <2>2 DEF At, Place
  <2>4. OnePlace'
    BY <1>0, <2>2, <2>3 DEF OnePlace, PlacesInv, Somewhere
  <2>5. \A v \in Upload : Somewhere(v)' <=> v = u \/ Somewhere(v)
    BY <2>3 DEF Somewhere, Place
  <2>6. PlacesInv'
    BY <1>0, <2>1, <2>2, <2>4, <2>5 DEF PlacesInv
  <2>7. ASSUME NEW v \in Upload PROVE CallsOf(v)'
    <3>1. CallsOf(v)
      BY <1>0 DEF CallsInv
    <3>2. v \in timedOut => v # u /\ \A k \in Early : ~At(v, k)'
      BY <2>1, <2>3, <3>1 DEF CallsOf, Early, Place
    <3>3. Somewhere(v)' \/ v \notin planned' => Somewhere(v) \/ v \notin planned
      BY <2>1, <2>5
    <3>4. AnswersAgain(v)' => AnswersAgain(v) /\ ~Somewhere(v)'
      BY <2>1, <2>5, <3>1 DEF AnswersAgain, CallsOf
    <3> QED
      BY <2>1, <3>1, <3>2, <3>3, <3>4 DEF CallsOf
  <2> QED
    BY <2>6, <2>7 DEF CallsInv
<1>6. ASSUME Plan PROVE PlacesInv' /\ CallsInv'
  <2>1. /\ UNCHANGED <<video_q, exporting, acks_, ackTimer, rx, uploads, http, notified,
                       timedOut, twice>>
        /\ planned' = planned \cup {planning} /\ planning' = None /\ planning \in Upload
        /\ enqueuing' \subseteq enqueuing \cup {planning}
    BY <1>6, <1>0 DEF Plan, outcome, awaiting, transfer, SegmenterOK
  <2>0. PICK w \in Upload : w = planning
    BY <2>1
  <2>2. At(w, "planning") /\ ~At(w, "planning")'
    BY <2>1, <2>0, UploadAssumption DEF At
  <2>3. \A v \in Upload : \A k \in Place : At(v, k)' => At(v, k) \/ (v = w /\ k = "enqueuing")
    BY <2>1, <2>0, UploadAssumption DEF At, Place
  <2>4. "planning" \in Place /\ "enqueuing" \in Place /\ "planning" \in Early
    BY DEF Place, Early
  <2>5. /\ ackTimer' \subseteq acks_' /\ Once(video_q') /\ planned \subseteq planned'
        /\ \A v \in Upload : planning = v => v \in planned' \/ planning' = v
        /\ \A v \in ackTimer' : v \in ackTimer \/ (v = w /\ "planning" \in Early)
    BY <1>0, <2>1, <2>0 DEF PlacesInv
  <2> QED
    BY <1>0, <2>1, <2>2, <2>3, <2>4, <2>5, MovesOn
<1>7. ASSUME NEW u \in Upload, Enqueue(u) PROVE PlacesInv' /\ CallsInv'
  <2>1. /\ UNCHANGED <<planned, planning, exporting, acks_, ackTimer, rx, uploads, http,
                      notified, timedOut, twice>>
        /\ u \in enqueuing /\ enqueuing' = enqueuing \ {u} /\ video_q' = Append(video_q, u)
        /\ video_q \in Seq(Upload)
    BY <1>7, <1>0 DEF Enqueue, outcome, awaiting, transfer, segmenter, QueueOK
  <2>2. At(u, "enqueuing") /\ ~At(u, "enqueuing")'
    BY <2>1 DEF At
  <2>3. "queued" \in Place /\ "enqueuing" \in Place /\ "enqueuing" \in Early
    BY DEF Place, Early
  <2>4. u \notin ToSet(video_q)
    BY <1>0, <2>2, <2>3 DEF PlacesInv, OnePlace, At
  <2>5. Once(video_q') /\ ToSet(video_q') = ToSet(video_q) \cup {u}
    BY <1>0, <2>1, <2>4, AppendFacts DEF PlacesInv
  <2>6. \A v \in Upload : \A k \in Place : At(v, k)' => At(v, k) \/ (v = u /\ k = "queued")
    BY <2>1, <2>5 DEF At, Place
  <2>7. /\ ackTimer' \subseteq acks_'
        /\ \A v \in ackTimer' : v \in ackTimer \/ (v = u /\ "enqueuing" \in Early)
    BY <1>0, <2>1 DEF PlacesInv
  <2> QED
    BY <1>0, <2>1, <2>2, <2>3, <2>5, <2>6, <2>7, MovesOn
<1>8. ASSUME _cancel_direct_uploads_by_ticket PROVE PlacesInv' /\ CallsInv'
  <2>1. /\ UNCHANGED <<planned, planning, enqueuing, exporting, acks_, ackTimer, rx, uploads,
                       http, notified, timedOut, twice>>
        /\ video_q' = <<>>
    BY <1>8 DEF _cancel_direct_uploads_by_ticket, outcome, awaiting, transfer, segmenter
  <2>2. ToSet(video_q') = {} /\ Once(video_q')
    BY <2>1 DEF ToSet, Once
  <2>3. \A v \in Upload : \A k \in Place : At(v, k)' => At(v, k)
    BY <2>1, <2>2 DEF At, Place
  <2>4. \A v \in Upload : AnswersAgain(v)' => AnswersAgain(v)
    BY <2>1 DEF AnswersAgain
  <2> QED
    BY <1>0, <2>1, <2>2, <2>3, <2>4, Stays DEF PlacesInv
<1>9. ASSUME NEW i \in 1..Len(video_q), _update_direct_upload_queue_latency(i) PROVE PlacesInv' /\ CallsInv'
  <2>1. /\ UNCHANGED <<planned, planning, enqueuing, exporting, acks_, ackTimer, rx, uploads,
                      http, timedOut, twice>>
        /\ video_q' = RemoveAt(video_q, i) /\ notified' = [notified EXCEPT ![video_q[i]] = @ + 1]
        /\ video_q \in Seq(Upload) /\ video_q[i] \in Upload
    BY <1>9, <1>0 DEF _update_direct_upload_queue_latency, on_finished, awaiting, transfer,
       segmenter, QueueOK
  <2>0. PICK w \in Upload : w = video_q[i]
    BY <2>1
  <2>2. Once(video_q') /\ ToSet(video_q') = ToSet(video_q) \ {video_q[i]} /\ video_q[i] \in ToSet(video_q)
    BY <1>0, <1>9, <2>1, RemoveAtFacts, ToSetIs DEF PlacesInv
  <2>3. \A v \in Upload : \A k \in Place : At(v, k)' => At(v, k)
    BY <2>1, <2>2 DEF At, Place
  <2>4. /\ At(w, "queued") /\ ~At(w, "queued")' /\ "queued" \in Place \ {"planning"}
    BY <2>2, <2>0 DEF At, Place
  <2>5. notified' = [notified EXCEPT ![w] = @ + 1]
    BY <2>1, <2>0
  <2>6. \A v \in Upload : AnswersAgain(v)' => AnswersAgain(v)
    BY <2>1 DEF AnswersAgain
  <2> QED
    BY <1>0, <2>1, <2>2, <2>3, <2>4, <2>5, <2>6, Reported DEF PlacesInv
<1>10. ASSUME SyncRoom PROVE PlacesInv' /\ CallsInv'
  <2>1. /\ UNCHANGED <<planned, planning, enqueuing, acks_, ackTimer, rx, uploads, http,
                      notified, timedOut, twice>>
        /\ video_q \in Seq(Upload) /\ video_q # <<>> /\ exporting = None
    BY <1>10, <1>0 DEF SyncRoom, outcome, awaiting, transfer, segmenter, QueueOK, ControlInv
  <2>2. CASE UNCHANGED <<video_q, exporting>>
    BY <1>0, <2>1, <2>2, Untouched
  <2>3. CASE video_q' = Tail(video_q) /\ exporting' \in {None, Head(video_q)}
    <3>0. PICK w \in Upload : w = Head(video_q)
      BY <1>0, <2>1, <2>3, TailFacts DEF PlacesInv
    <3>1. /\ Once(video_q') /\ ToSet(video_q') = ToSet(video_q) \ {w} /\ w \in ToSet(video_q)
      BY <1>0, <2>1, <2>3, <3>0, TailFacts DEF PlacesInv
    <3>2. \A v \in Upload : \A k \in Place : At(v, k)' => At(v, k) \/ (v = w /\ k = "exporting")
      BY <2>1, <2>3, <3>0, <3>1, UploadAssumption DEF At, Place
    <3>3. /\ At(w, "queued") /\ ~At(w, "queued")'
      BY <3>1 DEF At
    <3>4. "queued" \in Place /\ "exporting" \in Place /\ "queued" \in Early
      BY DEF Place, Early
    <3>5. /\ ackTimer' \subseteq acks_'
          /\ \A v \in ackTimer' : v \in ackTimer \/ (v = w /\ "queued" \in Early)
      BY <1>0, <2>1 DEF PlacesInv
    <3> QED
      BY <1>0, <2>1, <3>1, <3>2, <3>3, <3>4, <3>5, MovesOn
  <2> QED
    BY <1>10, <2>2, <2>3 DEF SyncRoom
<1>11. ASSUME ExportFails PROVE PlacesInv' /\ CallsInv'
  <2>1. /\ UNCHANGED <<planned, planning, enqueuing, video_q, acks_, ackTimer, rx, uploads,
                      http, timedOut, twice>>
        /\ exporting' = None /\ notified' = [notified EXCEPT ![exporting] = @ + 1]
        /\ exporting \in Upload
    BY <1>11, <1>0 DEF ExportFails, on_finished, awaiting, transfer, segmenter, QueueOK, ControlInv
  <2>0. PICK w \in Upload : w = exporting
    BY <2>1
  <2>2. \A v \in Upload : \A k \in Place : At(v, k)' => At(v, k)
    BY <2>1, UploadAssumption DEF At, Place
  <2>3. /\ At(w, "exporting") /\ ~At(w, "exporting")' /\ "exporting" \in Place \ {"planning"}
    BY <2>1, <2>0, UploadAssumption DEF At, Place
  <2>4. notified' = [notified EXCEPT ![w] = @ + 1]
    BY <2>1, <2>0
  <2>5. \A v \in Upload : AnswersAgain(v)' => AnswersAgain(v)
    BY <2>1 DEF AnswersAgain
  <2> QED
    BY <1>0, <2>1, <2>2, <2>3, <2>4, <2>5, Reported DEF PlacesInv
<1>12. ASSUME _request_direct_upload_video PROVE PlacesInv' /\ CallsInv'
  <2>1. /\ UNCHANGED <<planned, planning, enqueuing, video_q, rx, uploads, http, notified,
                       timedOut, twice>>
        /\ exporting' = None /\ exporting \in Upload
        /\ acks_' = acks_ \cup {exporting} /\ ackTimer' = ackTimer \cup {exporting}
    BY <1>12, <1>0 DEF _request_direct_upload_video, outcome, transfer, segmenter, QueueOK,
       ControlInv
  <2>0. PICK w \in Upload : w = exporting
    BY <2>1
  <2>2. \A v \in Upload : \A k \in Place : At(v, k)' => At(v, k) \/ (v = w /\ k = "awaited")
    BY <2>1, <2>0, UploadAssumption DEF At, Place
  <2>3. At(w, "exporting") /\ ~At(w, "exporting")'
    BY <2>1, <2>0, UploadAssumption DEF At
  <2>4. "exporting" \in Place /\ "awaited" \in Place /\ "exporting" \in Early
    BY DEF Place, Early
  <2>5. /\ ackTimer' \subseteq acks_' /\ Once(video_q')
        /\ \A v \in ackTimer' : v \in ackTimer \/ (v = w /\ "exporting" \in Early)
    BY <1>0, <2>1, <2>0, <2>4 DEF PlacesInv
  <2> QED
    BY <1>0, <2>1, <2>2, <2>3, <2>4, <2>5, MovesOn
<1>13. ASSUME NEW u \in Upload, AckTimeout(u) PROVE PlacesInv' /\ CallsInv'
  <2>1. /\ UNCHANGED <<planned, planning, enqueuing, video_q, exporting, acks_, rx, uploads,
                       http, twice>>
        /\ u \in ackTimer /\ ackTimer' = ackTimer \ {u}
        /\ timedOut' = timedOut \cup {u} /\ notified' = [notified EXCEPT ![u] = @ + 1]
    BY <1>13 DEF AckTimeout, on_finished, queue, transfer, segmenter
  <2>2. \A v \in Upload : \A k \in Place : At(v, k)' = At(v, k)
    BY <2>1 DEF At, Place
  <2>3. PlacesInv'
    BY <1>0, <2>1, <2>2 DEF PlacesInv, OnePlace, Somewhere
  <2>4. /\ At(u, "awaited") /\ Somewhere(u) /\ u \in planned /\ \A k \in Early : ~At(u, k)
    <3>1. At(u, "awaited") /\ "awaited" \in Place /\ "planning" \in Place
      BY <1>0, <2>1 DEF At, PlacesInv, Place
    <3>2. \A k \in Place : At(u, k) => k = "awaited"
      BY <1>0, <3>1 DEF PlacesInv, OnePlace
    <3>3. planning # u
      BY <3>1, <3>2 DEF At
    <3> QED
      BY <1>0, <3>1, <3>2, <3>3 DEF PlacesInv, Somewhere, Early, Place
  <2>5. ASSUME NEW v \in Upload PROVE CallsOf(v)'
    <3>1. CallsOf(v) /\ notified[v] \in Nat
      BY <1>0 DEF CallsInv, OutcomeOK
    <3>2. Somewhere(v)' = Somewhere(v) /\ AnswersAgain(v)' = AnswersAgain(v)
      BY <2>1, <2>2 DEF Somewhere, AnswersAgain
    <3>3. v \in timedOut' => v \in planned' /\ \A k \in Early : ~At(v, k)'
      BY <2>1, <2>2, <2>4, <3>1 DEF CallsOf, Early, Place
    <3>4. CASE v = u
      <4>1. notified'[u] = notified[u] + 1 /\ u \in timedOut' /\ u \notin timedOut
        BY <1>0, <2>1, <3>1, <3>4 DEF OutcomeOK, CallsOf
      <4>2. notified[u] <= 0 /\ u \notin twice /\ ~AnswersAgain(u)
        BY <2>4, <3>1, <3>4, <4>1 DEF CallsOf, One
      <4>3. /\ notified'[u] <= One(u \in timedOut')
            /\ notified'[u] <= 1 + One(u \in timedOut') + One(u \in twice')
        BY <3>1, <3>4, <4>1, <4>2 DEF One
      <4> QED
        BY <2>1, <3>2, <3>3, <3>4, <4>2, <4>3 DEF CallsOf
    <3>5. CASE v # u
      <4>1. notified'[v] = notified[v] /\ (v \in timedOut' <=> v \in timedOut)
        BY <1>0, <2>1, <3>5 DEF OutcomeOK
      <4> QED
        BY <2>1, <3>1, <3>2, <3>3, <4>1 DEF CallsOf
    <3> QED
      BY <3>4, <3>5
  <2> QED
    BY <2>3, <2>5 DEF CallsInv
<1>14. ASSUME NEW u \in Upload, NEW answer \in Answer, _handle_command_ack(u, answer) PROVE PlacesInv' /\ CallsInv'
  <2>1. /\ UNCHANGED <<planned, planning, enqueuing, video_q, exporting, uploads, http, timedOut,
                       twice>>
        /\ u \in acks_ /\ acks_' = acks_ \ {u} /\ ackTimer' = ackTimer \ {u} /\ rx.id = None
    BY <1>14 DEF _handle_command_ack, Take, queue, transfer, segmenter, RxIdle
  <2>2. /\ ackTimer' \subseteq acks_' /\ ackTimer' \subseteq ackTimer /\ Once(video_q')
    BY <1>0, <2>1 DEF PlacesInv
  <2>3. /\ At(u, "awaited") /\ ~At(u, "awaited")'
    BY <2>1 DEF At
  <2>4. "awaited" \in Place \ {"planning"} /\ "rx" \in Place /\ "rx" \notin Early
    BY DEF Place, Early
  <2>5. \A v \in Upload : AnswersAgain(v)' => AnswersAgain(v)
    BY <2>1 DEF AnswersAgain
  <2>6. CASE rx' = Handling(u) /\ UNCHANGED <<outcome, status>>
    <3>1. rx'.id = u /\ UNCHANGED notified
      BY <2>6 DEF outcome, Handling, RxIdle
    <3>2. \A v \in Upload : \A k \in Place : At(v, k)' => At(v, k) \/ (v = u /\ k = "rx")
      BY <2>1, <3>1 DEF At, Place
    <3> QED
      BY <1>0, <2>1, <2>2, <2>3, <2>4, <3>1, <3>2, MovesOn
  <2>7. CASE UNCHANGED <<rx, outcome, status>>
    <3>1. UNCHANGED notified
      BY <2>7 DEF outcome
    <3>2. \A v \in Upload : \A k \in Place : At(v, k)' => At(v, k)
      BY <2>1, <2>7 DEF At, Place
    <3> QED
      BY <1>0, <2>1, <2>2, <2>5, <3>1, <3>2, Stays
  <2>8. CASE UNCHANGED rx /\ on_finished("rx", u, FALSE)
    <3>1. notified' = [notified EXCEPT ![u] = @ + 1]
      BY <2>8 DEF on_finished
    <3>2. \A v \in Upload : \A k \in Place : At(v, k)' => At(v, k)
      BY <2>1, <2>8 DEF At, Place
    <3> QED
      BY <1>0, <2>1, <2>2, <2>3, <2>4, <2>5, <3>1, <3>2, Reported
  <2> QED
    BY <1>14, <2>6, <2>7, <2>8 DEF _handle_command_ack
<1>15. ASSUME on_direct_upload_url PROVE PlacesInv' /\ CallsInv'
  <2>1. /\ UNCHANGED <<planned, planning, enqueuing, video_q, exporting, acks_, ackTimer, uploads,
                       http, notified, timedOut, twice>>
        /\ rx'.id = rx.id
    BY <1>15, <1>0 DEF on_direct_upload_url, segmenter, outcome, queue, awaiting, transfer, RxType
  <2>2. \A v \in Upload : \A k \in Place : At(v, k)' => At(v, k)
    BY <2>1 DEF At, Place
  <2>3. \A v \in Upload : AnswersAgain(v)' => AnswersAgain(v)
    BY <2>1 DEF AnswersAgain
  <2> QED
    BY <1>0, <2>1, <2>2, <2>3, Stays DEF PlacesInv
<1>16. ASSUME CountUpload PROVE PlacesInv' /\ CallsInv'
  <2>1. /\ UNCHANGED <<planned, planning, enqueuing, video_q, exporting, acks_, ackTimer, uploads,
                       http, notified, timedOut, twice>>
        /\ rx'.id = rx.id
    BY <1>16, <1>0 DEF CountUpload, segmenter, outcome, queue, awaiting, transfer, RxType
  <2>2. \A v \in Upload : \A k \in Place : At(v, k)' => At(v, k)
    BY <2>1 DEF At, Place
  <2>3. \A v \in Upload : AnswersAgain(v)' => AnswersAgain(v)
    BY <2>1 DEF AnswersAgain
  <2> QED
    BY <1>0, <2>1, <2>2, <2>3, Stays DEF PlacesInv
<1>17. ASSUME EraseRecord PROVE PlacesInv' /\ CallsInv'
  <2>1. /\ UNCHANGED <<planned, planning, enqueuing, video_q, exporting, acks_, ackTimer, uploads,
                       http, notified, timedOut, twice>>
        /\ rx'.id = rx.id
    BY <1>17, <1>0 DEF EraseRecord, segmenter, outcome, queue, awaiting, transfer, RxType
  <2>2. \A v \in Upload : \A k \in Place : At(v, k)' => At(v, k)
    BY <2>1 DEF At, Place
  <2>3. \A v \in Upload : AnswersAgain(v)' => AnswersAgain(v)
    BY <2>1 DEF AnswersAgain
  <2> QED
    BY <1>0, <2>1, <2>2, <2>3, Stays DEF PlacesInv
<1>18. ASSUME StartUpload PROVE PlacesInv' /\ CallsInv'
  <2>1. /\ UNCHANGED <<planned, planning, enqueuing, video_q, exporting, acks_, ackTimer, http,
                       timedOut, twice>>
        /\ rx.id \in Upload /\ rx'.id = None
    BY <1>18, <1>0 DEF StartUpload, segmenter, queue, awaiting, RxIdle, RxType, ControlInv
  <2>0. PICK w \in Upload : w = rx.id
    BY <2>1
  <2>2. At(w, "rx") /\ ~At(w, "rx")'
    BY <2>1, <2>0, UploadAssumption DEF At
  <2>3. "rx" \in Place \ {"planning"} /\ "uploading" \in Place /\ "uploading" \notin Early
    BY DEF Place, Early
  <2>4. ackTimer' \subseteq acks_' /\ ackTimer' \subseteq ackTimer /\ Once(video_q')
    BY <1>0, <2>1 DEF PlacesInv
  <2>5. \A v \in Upload : AnswersAgain(v)' => AnswersAgain(v)
    BY <2>1 DEF AnswersAgain
  <2>6. CASE uploads' = uploads \cup {rx.id} /\ UNCHANGED <<outcome, status, leaked>>
    <3>1. UNCHANGED notified
      BY <2>6 DEF outcome
    <3>2. \A v \in Upload : \A k \in Place : At(v, k)' => At(v, k) \/ (v = w /\ k = "uploading")
      BY <2>1, <2>0, <2>6, UploadAssumption DEF At, Place
    <3> QED
      BY <1>0, <2>1, <2>2, <2>3, <2>4, <3>1, <3>2, MovesOn
  <2>7. CASE UNCHANGED uploads /\ on_finished("rx", rx.id, FALSE)
    <3>1. notified' = [notified EXCEPT ![w] = @ + 1]
      BY <2>7, <2>0 DEF on_finished
    <3>2. \A v \in Upload : \A k \in Place : At(v, k)' => At(v, k)
      BY <2>1, <2>7, UploadAssumption DEF At, Place
    <3> QED
      BY <1>0, <2>1, <2>2, <2>3, <2>4, <2>5, <3>1, <3>2, Reported
  <2> QED
    BY <1>18, <2>6, <2>7 DEF StartUpload
<1>19. ASSUME NEW u \in Upload, NEW ok \in BOOLEAN, NEW again \in BOOLEAN, Response(u, ok, again) PROVE PlacesInv' /\ CallsInv'
  <2>1. /\ UNCHANGED <<planned, planning, enqueuing, video_q, exporting, acks_, ackTimer, rx,
                      timedOut>>
        /\ u \in uploads /\ uploads' = uploads \ {u} /\ notified' = [notified EXCEPT ![u] = @ + 1]
        /\ twice' = IF again THEN twice \cup {u} ELSE twice
    BY <1>19 DEF Response, on_finished, segmenter, queue, awaiting
  <2>2. \A v \in Upload : \A k \in Place : At(v, k)' => At(v, k)
    BY <2>1 DEF At, Place
  <2>3. At(u, "uploading") /\ ~At(u, "uploading")' /\ "uploading" \in Place \ {"planning"}
    BY <2>1 DEF At, Place
  <2>4. \A v \in Upload : AnswersAgain(v)' => v = u /\ u \in twice'
    <3>1. http'.id = u /\ (http'.twice <=> again)
      BY <1>19 DEF Response, HttpIdle
    <3> QED
      BY <2>1, <3>1 DEF AnswersAgain
  <2> QED
    BY <1>0, <2>1, <2>2, <2>3, <2>4, Reported DEF PlacesInv
<1>20. ASSUME LoadSlots PROVE PlacesInv' /\ CallsInv'
  <2>1. UNCHANGED <<planned, planning, enqueuing, video_q, exporting, acks_, ackTimer, rx, uploads,
                    notified, timedOut, twice>>
    BY <1>20 DEF LoadSlots, segmenter, outcome, queue, awaiting
  <2>2. (http'.id = http.id /\ http'.twice = http.twice) \/ ~http'.twice
    BY <1>20, <1>0 DEF LoadSlots, HttpType, TransferOK
  <2>3. \A v \in Upload : \A k \in Place : At(v, k)' => At(v, k)
    BY <2>1 DEF At, Place
  <2>4. \A v \in Upload : AnswersAgain(v)' => AnswersAgain(v)
    BY <2>2 DEF AnswersAgain
  <2> QED
    BY <1>0, <2>1, <2>3, <2>4, Stays DEF PlacesInv
<1>21. ASSUME Uncount PROVE PlacesInv' /\ CallsInv'
  <2>1. UNCHANGED <<planned, planning, enqueuing, video_q, exporting, acks_, ackTimer, rx, uploads,
                    notified, timedOut, twice>>
    BY <1>21 DEF Uncount, segmenter, outcome, queue, awaiting
  <2>2. (http'.id = http.id /\ http'.twice = http.twice) \/ ~http'.twice
    BY <1>21, <1>0 DEF Uncount, HttpIdle, HttpType, TransferOK
  <2>3. \A v \in Upload : \A k \in Place : At(v, k)' => At(v, k)
    BY <2>1 DEF At, Place
  <2>4. \A v \in Upload : AnswersAgain(v)' => AnswersAgain(v)
    BY <2>2 DEF AnswersAgain
  <2> QED
    BY <1>0, <2>1, <2>3, <2>4, Stays DEF PlacesInv
<1>22. ASSUME ResponseAgain PROVE PlacesInv' /\ CallsInv'
  <2>1. /\ UNCHANGED <<planned, planning, enqueuing, video_q, exporting, acks_, ackTimer, rx,
                       uploads, timedOut, twice>>
        /\ notified' = [notified EXCEPT ![http.id] = @ + 1]
    BY <1>22 DEF ResponseAgain, on_finished, segmenter, queue, awaiting
  <2>2. http.id \in Upload /\ http.twice /\ ~http'.twice
    BY <1>22, <1>0 DEF ResponseAgain, HandInv, HttpType, TransferOK
  <2>3. \A v \in Upload : \A k \in Place : At(v, k)' = At(v, k)
    BY <2>1 DEF At, Place
  <2>4. PlacesInv'
    BY <1>0, <2>1, <2>3 DEF PlacesInv, OnePlace, Somewhere
  <2>5. ASSUME NEW v \in Upload PROVE CallsOf(v)'
    <3>1. CallsOf(v) /\ notified[v] \in Nat
      BY <1>0 DEF CallsInv, OutcomeOK
    <3>2. Somewhere(v)' = Somewhere(v) /\ ~AnswersAgain(v)'
      BY <2>2, <2>3 DEF Somewhere, AnswersAgain
    <3>3. v \in timedOut' => v \in planned' /\ \A k \in Early : ~At(v, k)'
      BY <2>1, <2>3, <3>1 DEF CallsOf, Early, Place
    <3>4. CASE v = http.id
      <4>1. notified'[v] = notified[v] + 1
        BY <1>0, <2>1, <2>2, <3>4 DEF OutcomeOK
      <4>2. /\ ~Somewhere(v) /\ v \in twice /\ v \in planned
            /\ notified[v] <= 1 + One(v \in timedOut)
        BY <2>2, <3>1, <3>4 DEF CallsOf, AnswersAgain
      <4>3. notified'[v] <= 1 + One(v \in timedOut) + One(v \in twice)
        BY <3>1, <4>1, <4>2 DEF One
      <4> QED
        BY <2>1, <3>1, <3>2, <3>3, <4>2, <4>3 DEF CallsOf
    <3>5. CASE v # http.id
      <4>1. notified'[v] = notified[v]
        BY <1>0, <2>1, <3>5 DEF OutcomeOK
      <4> QED
        BY <2>1, <3>1, <3>2, <3>3, <4>1 DEF CallsOf
    <3> QED
      BY <3>4, <3>5
  <2> QED
    BY <2>4, <2>5 DEF CallsInv
<1>23. CASE UNCHANGED vars
  <2>1. UNCHANGED <<planned, planning, enqueuing, video_q, exporting, acks_, ackTimer, rx,
                     uploads, http, notified, timedOut, twice>>
    BY <1>23 DEF vars, segmenter, outcome, status, queue, awaiting, slots, transfer
  <2> QED
    BY <1>0, <2>1, Untouched
<1> QED
  BY <1>1, <1>2, <1>3, <1>4, <1>5, <1>6, <1>7, <1>8, <1>9, <1>10, <1>11, <1>12, <1>13, <1>14,
     <1>15, <1>16, <1>17, <1>18, <1>19, <1>20, <1>21, <1>22, <1>23
     DEF Next, UploaderNext, SyncNext, SvcNext, RxNext, HttpNext, StatusNext

\* What the threads are in, step by step.
LEMMA ControlStep ==
    ASSUME UploadInv, [Next]_vars
    PROVE  ControlInv'
<1>0. ControlInv /\ QueueOK /\ rx \in RxType
  BY DEF UploadInv, TypeOK
<1>1. ASSUME \/ \E u \in Upload, last \in BOOLEAN : SegmentStep(u, last)
             \/ SegmentEnd
             \/ Plan
      PROVE  ControlInv'
  <2>1. UNCHANGED <<sync, exporting, video_q, rx, canceled, cancelAsked>>
    BY <1>1 DEF SegmentStep, SegmentEnd, Plan, segmenter, outcome, status, queue, awaiting,
              slots, transfer
  <2> QED
    BY <1>0, <2>1 DEF ControlInv
<1>2. ASSUME \/ \E u \in Upload : AckTimeout(u)
             \/ DropRecord
             \/ Disconnected
             \/ Registered
      PROVE  ControlInv'
  <2>1. UNCHANGED <<sync, exporting, video_q, rx, canceled, cancelAsked>>
    BY <1>2 DEF AckTimeout, DropRecord, Disconnected, Registered, segmenter, outcome, status,
              queue, awaiting, slots, transfer
  <2> QED
    BY <1>0, <2>1 DEF ControlInv
<1>3. ASSUME \/ \E u \in Upload, ok, again \in BOOLEAN : Response(u, ok, again)
             \/ LoadSlots
             \/ Uncount
             \/ ResponseAgain
      PROVE  ControlInv'
  <2>1. UNCHANGED <<sync, exporting, video_q, rx, canceled, cancelAsked>>
    BY <1>3 DEF Response, LoadSlots, Uncount, Count, ResponseAgain, segmenter, outcome, status,
              queue, awaiting, slots, transfer
  <2> QED
    BY <1>0, <2>1 DEF ControlInv
<1>4. ASSUME \/ \E t \in Thread : __send_timeline_synchronization_status(t)
             \/ \E t \in Thread : SendStatus(t)
      PROVE  ControlInv'
  <2>1. UNCHANGED <<sync, exporting, video_q, rx, canceled, cancelAsked>>
    BY <1>4 DEF __send_timeline_synchronization_status, SendStatus, segmenter, outcome, status,
              queue, awaiting, slots, transfer
  <2> QED
    BY <1>0, <2>1 DEF ControlInv
<1>5. ASSUME cancel_upload PROVE ControlInv'
  BY <1>5, <1>0 DEF cancel_upload, ControlInv, segmenter, queue
<1>6. ASSUME __segmenter_cancel_by_ticket PROVE ControlInv'
  BY <1>6, <1>0 DEF __segmenter_cancel_by_ticket, ControlInv, segmenter, queue
<1>7. ASSUME NEW u \in Upload, Enqueue(u) PROVE ControlInv'
  BY <1>7, <1>0 DEF Enqueue, ControlInv, segmenter, queue
<1>8. ASSUME _cancel_direct_uploads_by_ticket PROVE ControlInv'
  BY <1>8, <1>0 DEF _cancel_direct_uploads_by_ticket, ControlInv, segmenter, queue
<1>9. ASSUME NEW i \in 1..Len(video_q), _update_direct_upload_queue_latency(i) PROVE ControlInv'
  BY <1>9, <1>0 DEF _update_direct_upload_queue_latency, ControlInv, segmenter, queue
<1>10. ASSUME direct_upload_sync_cb PROVE ControlInv'
  BY <1>10, <1>0 DEF direct_upload_sync_cb, ControlInv, segmenter, queue
<1>11. ASSUME SyncLoop PROVE ControlInv'
  BY <1>11, <1>0 DEF SyncLoop, ControlInv, segmenter, queue
<1>12. ASSUME SyncRoom PROVE ControlInv'
  <2>1. UNCHANGED <<rx, canceled, cancelAsked>> /\ sync = "room" /\ video_q # <<>>
    BY <1>12, <1>0 DEF SyncRoom, segmenter, ControlInv
  <2>2. CASE ~canceled /\ sync' = "export" /\ exporting' = Head(video_q)
    <3>1. Head(video_q) \in Upload
      BY <1>0, <2>1 DEF QueueOK
    <3> QED
      BY <1>0, <2>1, <2>2, <3>1, UploadAssumption DEF ControlInv
  <2>3. CASE sync' = "loop" /\ exporting' = None
    BY <1>0, <2>1, <2>3 DEF ControlInv
  <2>4. CASE sync' = "idle" /\ exporting' = exporting
    BY <1>0, <2>1, <2>4 DEF ControlInv
  <2> QED
    BY <1>12, <2>2, <2>3, <2>4 DEF SyncRoom
<1>13. ASSUME ExportFails PROVE ControlInv'
  BY <1>13, <1>0 DEF ExportFails, ControlInv, segmenter, queue
<1>14. ASSUME _request_direct_upload_video PROVE ControlInv'
  BY <1>14, <1>0 DEF _request_direct_upload_video, ControlInv, segmenter, queue
<1>15. ASSUME NEW u \in Upload, NEW answer \in Answer, _handle_command_ack(u, answer) PROVE ControlInv'
  <2>1. /\ UNCHANGED <<sync, exporting, video_q, canceled, cancelAsked>>
        /\ rx' = rx \/ rx' = Handling(u)
    BY <1>15 DEF _handle_command_ack, Take, segmenter, queue
  <2>2. Handling(u).at = "url" /\ Handling(u).id = u
    BY DEF Handling, RxIdle
  <2>3. rx'.at = "idle" <=> rx'.id = None
    BY <1>0, <2>1, <2>2, UploadAssumption DEF ControlInv
  <2> QED
    BY <1>0, <2>1, <2>3 DEF ControlInv
<1>16. ASSUME on_direct_upload_url PROVE ControlInv'
  <2>1. /\ UNCHANGED <<sync, exporting, video_q, canceled, cancelAsked>>
        /\ rx.at # "idle" /\ rx'.at # "idle" /\ rx'.id = rx.id
    BY <1>16, <1>0 DEF on_direct_upload_url, segmenter, queue, RxType
  <2> QED
    BY <1>0, <2>1 DEF ControlInv
<1>17. ASSUME CountUpload PROVE ControlInv'
  <2>1. /\ UNCHANGED <<sync, exporting, video_q, canceled, cancelAsked>>
        /\ rx.at # "idle" /\ rx'.at # "idle" /\ rx'.id = rx.id
    BY <1>17, <1>0 DEF CountUpload, segmenter, queue, RxType
  <2> QED
    BY <1>0, <2>1 DEF ControlInv
<1>18. ASSUME EraseRecord PROVE ControlInv'
  <2>1. /\ UNCHANGED <<sync, exporting, video_q, canceled, cancelAsked>>
        /\ rx.at # "idle" /\ rx'.at # "idle" /\ rx'.id = rx.id
    BY <1>18, <1>0 DEF EraseRecord, segmenter, queue, RxType
  <2> QED
    BY <1>0, <2>1 DEF ControlInv
<1>19. ASSUME StartUpload PROVE ControlInv'
  BY <1>19, <1>0 DEF StartUpload, ControlInv, segmenter, queue, RxIdle
<1>20. CASE UNCHANGED vars
  <2>1. UNCHANGED <<sync, exporting, video_q, rx, canceled, cancelAsked>>
    BY <1>20 DEF vars, segmenter, outcome, status, queue, awaiting, slots, transfer
  <2> QED
    BY <1>0, <2>1 DEF ControlInv
<1> QED
  BY <1>1, <1>2, <1>3, <1>4, <1>5, <1>6, <1>7, <1>8, <1>9, <1>10, <1>11, <1>12, <1>13, <1>14,
     <1>15, <1>16, <1>17, <1>18, <1>19, <1>20
     DEF Next, UploaderNext, SyncNext, SvcNext, RxNext, HttpNext, StatusNext

\* What the rx and the http thread hold, step by step.
LEMMA HandStep ==
    ASSUME UploadInv, [Next]_vars
    PROVE  HandInv'
<1>0. HandInv /\ rx \in RxType /\ TransferOK
  BY DEF UploadInv, TypeOK
<1>1. ASSUME \/ \E u \in Upload, last \in BOOLEAN : SegmentStep(u, last)
             \/ SegmentEnd
             \/ Plan
             \/ cancel_upload
      PROVE  HandInv'
  <2>1. UNCHANGED <<rx, http, leaked, canceled>>
    BY <1>1 DEF SegmentStep, SegmentEnd, Plan, cancel_upload, segmenter, outcome, status, queue,
              awaiting, slots, transfer
  <2> QED
    BY <1>0, <2>1 DEF HandInv
<1>2. ASSUME \/ \E u \in Upload : Enqueue(u)
             \/ _cancel_direct_uploads_by_ticket
             \/ \E i \in 1..Len(video_q) : _update_direct_upload_queue_latency(i)
             \/ direct_upload_sync_cb
             \/ SyncLoop
             \/ SyncRoom
             \/ ExportFails
             \/ _request_direct_upload_video
      PROVE  HandInv'
  <2>1. UNCHANGED <<rx, http, leaked, canceled>>
    BY <1>2 DEF Enqueue, _cancel_direct_uploads_by_ticket, _update_direct_upload_queue_latency,
              direct_upload_sync_cb, SyncLoop, SyncRoom, ExportFails,
              _request_direct_upload_video, segmenter, outcome, status, queue, awaiting, slots,
              transfer
  <2> QED
    BY <1>0, <2>1 DEF HandInv
<1>3. ASSUME \/ \E u \in Upload : AckTimeout(u)
             \/ DropRecord
             \/ Disconnected
             \/ Registered
      PROVE  HandInv'
  <2>1. UNCHANGED <<rx, http, leaked, canceled>>
    BY <1>3 DEF AckTimeout, DropRecord, Disconnected, Registered, segmenter, outcome, status,
              queue, awaiting, slots, transfer
  <2> QED
    BY <1>0, <2>1 DEF HandInv
<1>4. ASSUME \/ \E t \in Thread : __send_timeline_synchronization_status(t)
             \/ \E t \in Thread : SendStatus(t)
      PROVE  HandInv'
  <2>1. UNCHANGED <<rx, http, leaked, canceled>>
    BY <1>4 DEF __send_timeline_synchronization_status, SendStatus, segmenter, outcome, status,
              queue, awaiting, slots, transfer
  <2> QED
    BY <1>0, <2>1 DEF HandInv
<1>5. ASSUME __segmenter_cancel_by_ticket PROVE HandInv'
  <2>1. UNCHANGED <<rx, http, leaked>> /\ canceled'
    BY <1>5 DEF __segmenter_cancel_by_ticket, transfer
  <2> QED
    BY <1>0, <2>1 DEF HandInv
<1>6. ASSUME NEW u \in Upload, NEW answer \in Answer, _handle_command_ack(u, answer) PROVE HandInv'
  <2>1. UNCHANGED <<http, leaked, canceled>> /\ (rx' = rx \/ rx' = Handling(u))
    BY <1>6 DEF _handle_command_ack, Take, segmenter, transfer
  <2>2. Handling(u).at = "url" /\ ~Handling(u).data /\ ~Handling(u).slot
    BY DEF Handling, RxIdle
  <2> QED
    BY <1>0, <2>1, <2>2 DEF HandInv
<1>7. ASSUME on_direct_upload_url PROVE HandInv'
  <2>1. UNCHANGED <<http, leaked, canceled>> /\ rx.at = "url"
    BY <1>7 DEF on_direct_upload_url, segmenter, transfer
  <2>2. CASE rx.id \in records_ /\ ~canceled
    <3>1. rx'.at = "count" /\ rx'.data /\ rx'.slot = rx.slot
      BY <1>7, <1>0, <2>2 DEF on_direct_upload_url, RxType
    <3> QED
      BY <1>0, <2>1, <2>2, <3>1 DEF HandInv
  <2>3. CASE ~(rx.id \in records_ /\ ~canceled)
    <3>1. rx'.at = "erase" /\ rx'.slot = rx.slot
      BY <1>7, <1>0, <2>3 DEF on_direct_upload_url, RxType
    <3>2. rx'.data => rx.id \in records_
      BY <1>7, <1>0, <2>3 DEF on_direct_upload_url, RxType
    <3> QED
      BY <1>0, <2>1, <2>3, <3>1, <3>2 DEF HandInv
  <2> QED
    BY <2>2, <2>3
<1>8. ASSUME CountUpload PROVE HandInv'
  <2>1. /\ UNCHANGED <<http, leaked, canceled>> /\ rx.at = "count"
        /\ rx'.at = "erase" /\ rx'.data = rx.data /\ rx'.slot
    BY <1>8, <1>0 DEF CountUpload, segmenter, transfer, RxType
  <2> QED
    BY <1>0, <2>1 DEF HandInv
<1>9. ASSUME EraseRecord PROVE HandInv'
  <2>1. /\ UNCHANGED <<http, leaked, canceled>> /\ rx.at = "erase"
        /\ rx'.at = "start" /\ rx'.data = rx.data /\ rx'.slot = rx.slot
    BY <1>9, <1>0 DEF EraseRecord, segmenter, transfer, RxType
  <2> QED
    BY <1>0, <2>1 DEF HandInv
<1>10. ASSUME StartUpload PROVE HandInv'
  <2>1. UNCHANGED <<http, canceled>> /\ rx'.at = "idle" /\ ~rx'.data /\ ~rx'.slot
    BY <1>10 DEF StartUpload, segmenter, transfer, RxIdle
  <2>2. CASE UNCHANGED leaked
    BY <1>0, <2>1, <2>2 DEF HandInv
  <2>3. CASE ~(rx.data /\ ~canceled) /\ leaked' = (leaked \/ rx.slot)
    <3>1. leaked' => canceled
      BY <1>0, <2>3 DEF HandInv
    <3> QED
      BY <1>0, <2>1, <3>1 DEF HandInv
  <2> QED
    BY <1>10, <2>2, <2>3 DEF StartUpload
<1>11. ASSUME NEW u \in Upload, NEW ok \in BOOLEAN, NEW again \in BOOLEAN, Response(u, ok, again) PROVE HandInv'
  <2>1. /\ UNCHANGED <<rx, leaked, canceled>> /\ http'.at = "answered" /\ http'.id = u
    BY <1>11 DEF Response, segmenter, HttpIdle
  <2> QED
    BY <1>0, <2>1 DEF HandInv
<1>12. ASSUME LoadSlots PROVE HandInv'
  <2>1. /\ UNCHANGED <<rx, leaked, canceled>> /\ http.at = "answered" /\ http'.at = "count"
        /\ http'.id = http.id
    BY <1>12, <1>0 DEF LoadSlots, segmenter, transfer, HttpType, TransferOK
  <2> QED
    BY <1>0, <2>1 DEF HandInv
<1>13. ASSUME Uncount PROVE HandInv'
  <2>1. UNCHANGED <<rx, leaked, canceled>> /\ http.at = "count"
    BY <1>13 DEF Uncount, segmenter
  <2>2. CASE http.twice
    <3>1. http'.at = "again" /\ http'.id = http.id /\ http'.twice
      BY <1>13, <1>0, <2>2 DEF Uncount, HttpType, TransferOK
    <3> QED
      BY <1>0, <2>1, <3>1 DEF HandInv
  <2>3. CASE ~http.twice
    <3>1. http'.at = "idle" /\ ~http'.twice
      BY <1>13, <1>0, <2>3 DEF Uncount, HttpIdle, HttpType, TransferOK
    <3> QED
      BY <1>0, <2>1, <3>1 DEF HandInv
  <2> QED
    BY <2>2, <2>3
<1>14. ASSUME ResponseAgain PROVE HandInv'
  <2>1. /\ UNCHANGED <<rx, leaked, canceled>> /\ http.at = "again" /\ http'.at = "answered"
        /\ http'.id = http.id
    BY <1>14, <1>0 DEF ResponseAgain, segmenter, HttpType, TransferOK
  <2> QED
    BY <1>0, <2>1 DEF HandInv
<1>15. CASE UNCHANGED vars
  <2>1. UNCHANGED <<rx, http, leaked, canceled>>
    BY <1>15 DEF vars, segmenter, outcome, status, queue, awaiting, slots, transfer
  <2> QED
    BY <1>0, <2>1 DEF HandInv
<1> QED
  BY <1>1, <1>2, <1>3, <1>4, <1>5, <1>6, <1>7, <1>8, <1>9, <1>10, <1>11, <1>12, <1>13, <1>14,
     <1>15
     DEF Next, UploaderNext, SyncNext, SvcNext, RxNext, HttpNext, StatusNext

LEMMA UploadsCount ==
    ASSUME TypeOK
    PROVE  /\ IsFiniteSet(uploads) /\ Cardinality(uploads) \in Nat
           /\ Cardinality(uploads) <= Cardinality(Upload)
           /\ Cardinality(Upload) \in Nat /\ Cardinality(Upload) + 3 < Wrap
           /\ \A x : /\ Cardinality(uploads \ {x}) =
                           IF x \in uploads THEN Cardinality(uploads) - 1 ELSE Cardinality(uploads)
                     /\ Cardinality(uploads \cup {x}) =
                           IF x \in uploads THEN Cardinality(uploads) ELSE Cardinality(uploads) + 1
<1>1. IsFiniteSet(uploads) /\ Cardinality(uploads) <= Cardinality(Upload)
  BY UploadAssumption, FS_Subset DEF TypeOK, TransferOK
<1> QED
  BY <1>1, UploadAssumption, FS_CardinalityType, FS_AddElement, FS_RemoveElement

LEMMA TwiceCount ==
    ASSUME TypeOK
    PROVE  /\ Cardinality(twice) \in Nat
           /\ \A x \in Upload \ twice : Cardinality(twice \cup {x}) = Cardinality(twice) + 1
<1>1. IsFiniteSet(twice)
  BY UploadAssumption, FS_Subset DEF TypeOK, TransferOK
<1> QED
  BY <1>1, FS_CardinalityType, FS_AddElement

\* A multiple of the width is no less than its factor.
LEMMA Multiple == ASSUME NEW q \in Nat PROVE q * Wrap \in Nat /\ q <= q * Wrap
<1>1. Wrap \in Nat /\ Wrap >= 1
  BY UploadAssumption, FS_CardinalityType
<1>2. Wrap - 1 \in Nat /\ q * (Wrap - 1) \in Nat
  BY <1>1
<1>3. q * Wrap = q * (Wrap - 1) + q
  BY <1>1
<1> QED
  BY <1>2, <1>3

\* The counter c after one more and after one less, modulo its width: n are the
\* slots taken, x the uploads answered twice.
LEMMA MatchUp ==
    ASSUME NEW n \in Nat, n + 1 < Wrap, NEW c \in 0..Wrap - 1, NEW x \in Nat, NEW q \in 0..x,
           n + q * Wrap = c + x
    PROVE  \E p \in 0..x : (n + 1) + p * Wrap = Up(c) + x
<1>1. Wrap \in Nat /\ q * Wrap \in Nat
  BY Multiple, UploadAssumption
<1>2. CASE c # Wrap - 1
  <2>1. (n + 1) + q * Wrap = Up(c) + x
    BY <1>1, <1>2 DEF Up
  <2> QED
    BY <2>1
<1>3. CASE c = Wrap - 1
  <2>1. q # 0
    <3>1. SUFFICES ASSUME q = 0 PROVE FALSE
      OBVIOUS
    <3>2. q * Wrap = 0
      BY <1>1, <3>1
    <3> QED
      BY <1>1, <1>3, <3>2
  <2>2. q - 1 \in 0..x /\ (q - 1) * Wrap = q * Wrap - Wrap
    BY <1>1, <2>1
  <2>3. (n + 1) + (q - 1) * Wrap = Up(c) + x
    BY <1>1, <1>3, <2>2 DEF Up
  <2> QED
    BY <2>2, <2>3
<1> QED
  BY <1>2, <1>3

LEMMA MatchDown ==
    ASSUME NEW n \in Nat, n > 0, NEW c \in 0..Wrap - 1, NEW x \in Nat, NEW q \in 0..x,
           n + q * Wrap = c + x
    PROVE  \E p \in 0..x : (n - 1) + p * Wrap = Down(c) + x
<1>1. Wrap \in Nat /\ q * Wrap \in Nat /\ q <= q * Wrap
  BY Multiple, UploadAssumption
<1>2. CASE c # 0
  <2>1. (n - 1) + q * Wrap = Down(c) + x
    BY <1>1, <1>2 DEF Down
  <2> QED
    BY <2>1
<1>3. CASE c = 0
  <2>1. q + 1 \in 0..x /\ (q + 1) * Wrap = q * Wrap + Wrap
    BY <1>1, <1>3
  <2>2. (n - 1) + (q + 1) * Wrap = Down(c) + x
    BY <1>1, <1>3, <2>1 DEF Down
  <2> QED
    BY <2>1, <2>2
<1> QED
  BY <1>2, <1>3

\* The part of SlotsMatch about the counter.
Matching ==
    torn \/ \E q \in 0..Cardinality(twice) :
               Slots + q * Wrap = records_uploading + Cardinality(twice)

\* As many slots are taken as before.
LEMMA SameSlots ==
    ASSUME Matching, Slots' = Slots, UNCHANGED <<torn, twice, records_uploading>>
    PROVE  Matching'
  BY DEF Matching

\* A slot is taken and given back with its place in the counter.
LEMMA MatchStep ==
    ASSUME UploadInv, [Next]_vars
    PROVE  Matching'
<1>0. /\ Matching /\ TypeOK /\ TransferOK /\ SlotsOK /\ rx \in RxType
      /\ ControlInv /\ PlacesInv /\ CallsInv /\ HandInv
      /\ Slots \in Nat /\ Cardinality(uploads) \in Nat
      /\ Cardinality(uploads) <= Cardinality(Upload)
      /\ Cardinality(Upload) \in Nat /\ Cardinality(Upload) + 3 < Wrap /\ Wrap \in Nat
      /\ \A x : /\ Cardinality(uploads \ {x}) =
                      IF x \in uploads THEN Cardinality(uploads) - 1 ELSE Cardinality(uploads)
                /\ Cardinality(uploads \cup {x}) =
                      IF x \in uploads THEN Cardinality(uploads) ELSE Cardinality(uploads) + 1
      /\ Cardinality(twice) \in Nat
      /\ \A x \in Upload \ twice : Cardinality(twice \cup {x}) = Cardinality(twice) + 1
  <2>1. Slots \in Nat
    BY UploadsCount DEF UploadInv, Slots, One
  <2>2. Matching
    BY DEF UploadInv, SlotsMatch, Matching
  <2> QED
    BY <2>1, <2>2, UploadsCount, TwiceCount, UploadAssumption DEF UploadInv, TypeOK
<1>1. ASSUME \/ \E u \in Upload, last \in BOOLEAN : SegmentStep(u, last)
             \/ SegmentEnd
             \/ Plan
             \/ cancel_upload
             \/ __segmenter_cancel_by_ticket
      PROVE  Matching'
  <2>1. UNCHANGED <<uploads, rx, http, leaked, torn, twice, records_uploading>>
    BY <1>1 DEF SegmentStep, SegmentEnd, Plan, cancel_upload, __segmenter_cancel_by_ticket,
              segmenter, outcome, status, queue, awaiting, slots, transfer
  <2> QED
    BY <1>0, <2>1, SameSlots DEF Slots, One
<1>2. ASSUME \/ \E u \in Upload : Enqueue(u)
             \/ _cancel_direct_uploads_by_ticket
             \/ \E i \in 1..Len(video_q) : _update_direct_upload_queue_latency(i)
             \/ direct_upload_sync_cb
             \/ SyncLoop
             \/ SyncRoom
             \/ ExportFails
             \/ _request_direct_upload_video
      PROVE  Matching'
  <2>1. UNCHANGED <<uploads, rx, http, leaked, torn, twice, records_uploading>>
    BY <1>2 DEF Enqueue, _cancel_direct_uploads_by_ticket, _update_direct_upload_queue_latency,
              direct_upload_sync_cb, SyncLoop, SyncRoom, ExportFails,
              _request_direct_upload_video, segmenter, outcome, status, queue, awaiting, slots,
              transfer
  <2> QED
    BY <1>0, <2>1, SameSlots DEF Slots, One
<1>3. ASSUME \/ \E u \in Upload : AckTimeout(u)
             \/ DropRecord
             \/ Disconnected
             \/ Registered
      PROVE  Matching'
  <2>1. UNCHANGED <<uploads, rx, http, leaked, torn, twice, records_uploading>>
    BY <1>3 DEF AckTimeout, DropRecord, Disconnected, Registered, segmenter, outcome, status,
              queue, awaiting, slots, transfer
  <2> QED
    BY <1>0, <2>1, SameSlots DEF Slots, One
<1>4. ASSUME \/ \E t \in Thread : __send_timeline_synchronization_status(t)
             \/ \E t \in Thread : SendStatus(t)
      PROVE  Matching'
  <2>1. UNCHANGED <<uploads, rx, http, leaked, torn, twice, records_uploading>>
    BY <1>4 DEF __send_timeline_synchronization_status, SendStatus, segmenter, outcome, status,
              queue, awaiting, slots, transfer
  <2> QED
    BY <1>0, <2>1, SameSlots DEF Slots, One
<1>5. ASSUME NEW u \in Upload, NEW answer \in Answer, _handle_command_ack(u, answer) PROVE Matching'
  <2>1. /\ UNCHANGED <<uploads, http, leaked, torn, twice, records_uploading>>
        /\ rx = RxIdle /\ (rx' = rx \/ rx' = Handling(u))
    BY <1>5 DEF _handle_command_ack, Take, slots, transfer
  <2>2. ~rx.slot /\ ~rx'.slot
    <3>1. ~RxIdle.slot /\ ~Handling(u).slot
      BY DEF Handling, RxIdle
    <3> QED
      BY <2>1, <3>1
  <2>3. Slots' = Slots
    BY <2>1, <2>2 DEF Slots, One
  <2> QED
    BY <1>0, <2>1, <2>3, SameSlots
<1>6. ASSUME on_direct_upload_url PROVE Matching'
  <2>1. /\ UNCHANGED <<uploads, http, leaked, torn, twice, records_uploading>>
        /\ rx'.slot = rx.slot
    BY <1>6, <1>0 DEF on_direct_upload_url, slots, transfer, RxType
  <2>2. Slots' = Slots
    BY <2>1 DEF Slots, One
  <2> QED
    BY <1>0, <2>1, <2>2, SameSlots
<1>7. ASSUME CountUpload PROVE Matching'
  <2>1. /\ UNCHANGED <<uploads, http, leaked, twice>>
        /\ rx.at = "count" /\ rx'.slot /\ records_uploading' = Up(rx.reg)
        /\ torn' = (torn \/ records_uploading # rx.reg)
    BY <1>7, <1>0 DEF CountUpload, Count, transfer, RxType
  <2>2. CASE torn'
    BY <2>2 DEF Matching
  <2>3. CASE ~torn'
    <3>1. ~torn /\ records_uploading' = Up(records_uploading) /\ records_uploading \in 0..Wrap - 1
      BY <1>0, <2>1, <2>3 DEF SlotsOK
    <3>2. ~rx.slot /\ ~leaked
      BY <1>0, <2>1 DEF HandInv
    <3>3. Slots' = Slots + 1 /\ Slots + 1 < Wrap
      BY <1>0, <2>1, <3>2 DEF Slots, One
    <3>4. PICK q \in 0..Cardinality(twice) :
             Slots + q * Wrap = records_uploading + Cardinality(twice)
      BY <1>0, <3>1 DEF Matching
    <3>5. \E p \in 0..Cardinality(twice) :
             (Slots + 1) + p * Wrap = Up(records_uploading) + Cardinality(twice)
      BY <1>0, <3>1, <3>3, <3>4, MatchUp
    <3> QED
      BY <2>1, <3>1, <3>3, <3>5 DEF Matching
  <2> QED
    BY <2>2, <2>3
<1>8. ASSUME EraseRecord PROVE Matching'
  <2>1. /\ UNCHANGED <<uploads, http, leaked, torn, twice, records_uploading>>
        /\ rx'.slot = rx.slot
    BY <1>8, <1>0 DEF EraseRecord, slots, transfer, RxType
  <2>2. Slots' = Slots
    BY <2>1 DEF Slots, One
  <2> QED
    BY <1>0, <2>1, <2>2, SameSlots
<1>9. ASSUME StartUpload PROVE Matching'
  <2>1. UNCHANGED <<http, twice, torn, records_uploading>> /\ rx.at = "start" /\ ~rx'.slot
    BY <1>9 DEF StartUpload, slots, RxIdle
  <2>2. rx.id \notin uploads
    <3>1. rx.id \in Upload /\ At(rx.id, "rx") /\ "rx" \in Place /\ "uploading" \in Place
      BY <1>0, <2>1 DEF ControlInv, RxType, At, Place
    <3>2. ~At(rx.id, "uploading")
      BY <1>0, <3>1 DEF PlacesInv, OnePlace
    <3> QED
      BY <3>2 DEF At
  <2>3. CASE rx.data /\ ~canceled /\ uploads' = uploads \cup {rx.id} /\ UNCHANGED leaked
    <3>1. rx.slot
      BY <1>0, <2>1, <2>3 DEF HandInv
    <3>2. Cardinality(uploads') = Cardinality(uploads) + 1
      BY <1>0, <2>2, <2>3
    <3>3. Slots' = Slots
      BY <1>0, <2>1, <2>3, <3>1, <3>2 DEF Slots, One
    <3> QED
      BY <1>0, <2>1, <3>3, SameSlots
  <2>4. CASE /\ ~(rx.data /\ ~canceled) /\ UNCHANGED uploads
             /\ leaked' = (leaked \/ rx.slot)
    <3>1. rx.slot => ~leaked
      BY <1>0 DEF HandInv
    <3>2. CASE rx.slot
      <4>1. leaked' /\ ~leaked
        BY <2>4, <3>1, <3>2
      <4> QED
        BY <1>0, <2>1, <2>4, <3>2, <4>1, SameSlots DEF Slots, One
    <3>3. CASE ~rx.slot
      <4>1. leaked' <=> leaked
        BY <2>4, <3>3
      <4> QED
        BY <1>0, <2>1, <2>4, <3>3, <4>1, SameSlots DEF Slots, One
    <3> QED
      BY <3>2, <3>3
  <2> QED
    BY <1>9, <2>3, <2>4 DEF StartUpload
<1>10. ASSUME NEW u \in Upload, NEW ok \in BOOLEAN, NEW again \in BOOLEAN, Response(u, ok, again) PROVE Matching'
  <2>1. /\ UNCHANGED <<rx, leaked, torn, records_uploading>>
        /\ u \in uploads /\ uploads' = uploads \ {u} /\ http.at = "idle"
        /\ twice' = IF again THEN twice \cup {u} ELSE twice
        /\ http'.at = "answered" /\ (http'.twice <=> again)
    BY <1>10 DEF Response, slots, HttpIdle
  <2>2. Cardinality(uploads') = Cardinality(uploads) - 1 /\ ~http.twice
    BY <1>0, <2>1 DEF HandInv
  <2>3. u \notin twice
    <3>1. Somewhere(u)
      BY <2>1 DEF Somewhere, At, Place
    <3> QED
      BY <1>0, <3>1 DEF CallsInv, CallsOf
  <2>4. CASE again
    <3>1. Slots' = Slots + 1
      BY <1>0, <2>1, <2>2, <2>4 DEF Slots, One
    <3>2. Cardinality(twice') = Cardinality(twice) + 1
      BY <1>0, <2>1, <2>3, <2>4
    <3>3. CASE torn
      BY <2>1, <3>3 DEF Matching
    <3>4. CASE ~torn
      <4>1. PICK q \in 0..Cardinality(twice) :
               Slots + q * Wrap = records_uploading + Cardinality(twice)
        BY <1>0, <3>4 DEF Matching
      <4>2. q * Wrap \in Nat /\ records_uploading \in Nat /\ q \in 0..Cardinality(twice')
        BY <1>0, <3>2, <4>1, Multiple DEF SlotsOK
      <4>3. Slots' + q * Wrap = records_uploading' + Cardinality(twice')
        BY <1>0, <2>1, <3>1, <3>2, <4>1, <4>2
      <4> QED
        BY <4>2, <4>3 DEF Matching
    <3> QED
      BY <3>3, <3>4
  <2>5. CASE ~again
    <3>1. Slots' = Slots
      BY <1>0, <2>1, <2>2, <2>5 DEF Slots, One
    <3> QED
      BY <1>0, <2>1, <2>5, <3>1, SameSlots
  <2> QED
    BY <2>4, <2>5
<1>11. ASSUME LoadSlots PROVE Matching'
  <2>1. /\ UNCHANGED <<uploads, rx, leaked, torn, twice, records_uploading>>
        /\ http.at = "answered" /\ http'.at = "count" /\ http'.twice = http.twice
    BY <1>11, <1>0 DEF LoadSlots, slots, HttpType, TransferOK
  <2>2. Slots' = Slots
    BY <2>1 DEF Slots, One
  <2> QED
    BY <1>0, <2>1, <2>2, SameSlots
<1>12. ASSUME Uncount PROVE Matching'
  <2>1. /\ UNCHANGED <<uploads, rx, leaked, twice>>
        /\ http.at = "count" /\ records_uploading' = Down(http.reg)
        /\ torn' = (torn \/ records_uploading # http.reg)
    BY <1>12 DEF Uncount, Count
  <2>2. http'.at \notin {"answered", "count"} /\ (http'.twice <=> http.twice)
    <3>1. CASE http.twice
      BY <1>12, <1>0, <3>1 DEF Uncount, HttpType, TransferOK
    <3>2. CASE ~http.twice
      BY <1>12, <3>2 DEF Uncount, HttpIdle
    <3> QED
      BY <3>1, <3>2
  <2>3. CASE torn'
    BY <2>3 DEF Matching
  <2>4. CASE ~torn'
    <3>1. ~torn /\ records_uploading' = Down(records_uploading) /\ records_uploading \in 0..Wrap - 1
      BY <1>0, <2>1, <2>4 DEF SlotsOK
    <3>2. Slots' = Slots - 1 /\ Slots > 0
      BY <1>0, <2>1, <2>2 DEF Slots, One
    <3>3. PICK q \in 0..Cardinality(twice) :
             Slots + q * Wrap = records_uploading + Cardinality(twice)
      BY <1>0, <3>1 DEF Matching
    <3>4. \E p \in 0..Cardinality(twice) :
             (Slots - 1) + p * Wrap = Down(records_uploading) + Cardinality(twice)
      BY <1>0, <3>1, <3>2, <3>3, MatchDown
    <3> QED
      BY <2>1, <3>1, <3>2, <3>4 DEF Matching
  <2> QED
    BY <2>3, <2>4
<1>13. ASSUME ResponseAgain PROVE Matching'
  <2>1. /\ UNCHANGED <<uploads, rx, leaked, torn, twice, records_uploading>>
        /\ http.at = "again" /\ http'.at = "answered" /\ ~http'.twice
    BY <1>13, <1>0 DEF ResponseAgain, slots, HttpType, TransferOK
  <2>2. http.twice
    BY <1>0, <2>1 DEF HandInv
  <2>3. Slots' = Slots
    BY <1>0, <2>1, <2>2 DEF Slots, One
  <2> QED
    BY <1>0, <2>1, <2>3, SameSlots
<1>14. CASE UNCHANGED vars
  <2>1. UNCHANGED <<uploads, rx, http, leaked, torn, twice, records_uploading>>
    BY <1>14 DEF vars, segmenter, outcome, status, queue, awaiting, slots, transfer
  <2> QED
    BY <1>0, <2>1, SameSlots DEF Slots, One
<1> QED
  BY <1>1, <1>2, <1>3, <1>4, <1>5, <1>6, <1>7, <1>8, <1>9, <1>10, <1>11, <1>12, <1>13, <1>14
     DEF Next, UploaderNext, SyncNext, SvcNext, RxNext, HttpNext, StatusNext

\* A clip waits with its answer, and leaves with it.
LEMMA RecordsStep ==
    ASSUME UploadInv, [Next]_vars
    PROVE  RecordsInv'
<1>0. RecordsInv /\ AwaitingOK /\ QueueOK /\ ControlInv /\ PlacesInv /\ rx \in RxType
  BY DEF UploadInv, TypeOK
<1>1. ASSUME \/ \E u \in Upload, last \in BOOLEAN : SegmentStep(u, last)
             \/ SegmentEnd
             \/ Plan
             \/ cancel_upload
             \/ __segmenter_cancel_by_ticket
      PROVE  RecordsInv'
  <2>1. UNCHANGED <<records_, ackTimer, expiring, rx, unserved, timedOut>>
    BY <1>1 DEF SegmentStep, SegmentEnd, Plan, cancel_upload, __segmenter_cancel_by_ticket,
              segmenter, outcome, status, queue, awaiting, slots, transfer
  <2> QED
    BY <1>0, <2>1 DEF RecordsInv, RecordsAwaited
<1>2. ASSUME \/ \E u \in Upload : Enqueue(u)
             \/ _cancel_direct_uploads_by_ticket
             \/ \E i \in 1..Len(video_q) : _update_direct_upload_queue_latency(i)
             \/ direct_upload_sync_cb
             \/ SyncLoop
             \/ SyncRoom
             \/ ExportFails
      PROVE  RecordsInv'
  <2>1. UNCHANGED <<records_, ackTimer, expiring, rx, unserved, timedOut>>
    BY <1>2 DEF Enqueue, _cancel_direct_uploads_by_ticket, _update_direct_upload_queue_latency,
              direct_upload_sync_cb, SyncLoop, SyncRoom, ExportFails, segmenter, outcome,
              status, queue, awaiting, slots, transfer
  <2> QED
    BY <1>0, <2>1 DEF RecordsInv, RecordsAwaited
<1>3. ASSUME \/ Disconnected
             \/ Registered
      PROVE  RecordsInv'
  <2>1. UNCHANGED <<records_, ackTimer, expiring, rx, unserved, timedOut>>
    BY <1>3 DEF Disconnected, Registered, segmenter, outcome, status, queue, awaiting, slots,
              transfer
  <2> QED
    BY <1>0, <2>1 DEF RecordsInv, RecordsAwaited
<1>4. ASSUME \/ \E u \in Upload, ok, again \in BOOLEAN : Response(u, ok, again)
             \/ LoadSlots
             \/ Uncount
             \/ ResponseAgain
      PROVE  RecordsInv'
  <2>1. UNCHANGED <<records_, ackTimer, expiring, rx, unserved, timedOut>>
    BY <1>4 DEF Response, LoadSlots, Uncount, Count, ResponseAgain, segmenter, outcome, status,
              queue, awaiting, slots, transfer
  <2> QED
    BY <1>0, <2>1 DEF RecordsInv, RecordsAwaited
<1>5. ASSUME \/ \E t \in Thread : __send_timeline_synchronization_status(t)
             \/ \E t \in Thread : SendStatus(t)
      PROVE  RecordsInv'
  <2>1. UNCHANGED <<records_, ackTimer, expiring, rx, unserved, timedOut>>
    BY <1>5 DEF __send_timeline_synchronization_status, SendStatus, segmenter, outcome, status,
              queue, awaiting, slots, transfer
  <2> QED
    BY <1>0, <2>1 DEF RecordsInv, RecordsAwaited
<1>6. ASSUME _request_direct_upload_video PROVE RecordsInv'
  <2>1. /\ UNCHANGED <<expiring, rx, unserved, timedOut>> /\ exporting \in Upload
        /\ records_' = records_ \cup {exporting} /\ ackTimer' = ackTimer \cup {exporting}
    BY <1>6, <1>0 DEF _request_direct_upload_video, QueueOK, ControlInv
  <2>2. exporting # rx.id
    <3>1. At(exporting, "exporting") /\ "rx" \in Place /\ "exporting" \in Place
      BY DEF At, Place
    <3>2. ~At(exporting, "rx")
      BY <1>0, <2>1, <3>1 DEF PlacesInv, OnePlace
    <3> QED
      BY <3>2 DEF At
  <2> QED
    BY <1>0, <2>1, <2>2 DEF RecordsInv, RecordsAwaited
<1>7. ASSUME NEW u \in Upload, AckTimeout(u) PROVE RecordsInv'
  <2>1. /\ UNCHANGED <<records_, rx, unserved>> /\ expiring = None /\ expiring' = u
        /\ ackTimer' = ackTimer \ {u} /\ timedOut' = timedOut \cup {u}
    BY <1>7 DEF AckTimeout
  <2> QED
    BY <1>0, <2>1, UploadAssumption DEF RecordsInv, RecordsAwaited, AwaitingOK
<1>8. ASSUME DropRecord PROVE RecordsInv'
  <2>1. /\ UNCHANGED <<ackTimer, rx, unserved, timedOut>> /\ records_' = records_ \ {expiring}
        /\ expiring # None /\ expiring' = None
    BY <1>8 DEF DropRecord
  <2> QED
    BY <1>0, <2>1 DEF RecordsInv, RecordsAwaited
<1>9. ASSUME NEW u \in Upload, NEW answer \in Answer, _handle_command_ack(u, answer) PROVE RecordsInv'
  <2>1. /\ UNCHANGED <<records_, expiring, timedOut>> /\ rx.id = None /\ rx.at = "idle"
        /\ ackTimer' = ackTimer \ {u}
    BY <1>9 DEF _handle_command_ack, Take, RxIdle
  <2>2. CASE rx' = Handling(u) /\ answer = "url"
    <3>1. rx'.id = u /\ rx'.at = "url" /\ \A v \in records_ : v # rx.id
      BY <1>0, <2>1, <2>2, UploadAssumption DEF AwaitingOK, Handling, RxIdle
    <3>2. UNCHANGED unserved
      BY <1>9, <2>2 DEF _handle_command_ack, Take
    <3> QED
      BY <1>0, <2>1, <2>2, <3>1, <3>2 DEF RecordsInv, RecordsAwaited
  <2>3. CASE UNCHANGED rx /\ answer # "url"
    <3>1. unserved' = unserved \cup {u}
      BY <1>9, <2>3 DEF _handle_command_ack, Take
    <3> QED
      BY <1>0, <2>1, <2>3, <3>1 DEF RecordsInv, RecordsAwaited
  <2> QED
    BY <1>9, <2>2, <2>3 DEF _handle_command_ack
<1>10. ASSUME on_direct_upload_url PROVE RecordsInv'
  <2>1. /\ UNCHANGED <<records_, ackTimer, expiring, unserved, timedOut>>
        /\ rx'.id = rx.id /\ rx'.at \in {"count", "erase"}
    BY <1>10, <1>0 DEF on_direct_upload_url, awaiting, RxType
  <2>2. rx'.at = "count" => rx.id \in records_
    BY <1>10, <1>0 DEF on_direct_upload_url, RxType
  <2> QED
    BY <1>0, <2>1, <2>2 DEF RecordsInv, RecordsAwaited
<1>11. ASSUME CountUpload PROVE RecordsInv'
  <2>1. /\ UNCHANGED <<records_, ackTimer, expiring, unserved, timedOut>>
        /\ rx'.id = rx.id /\ rx'.at = "erase"
    BY <1>11, <1>0 DEF CountUpload, awaiting, RxType
  <2> QED
    BY <1>0, <2>1 DEF RecordsInv, RecordsAwaited
<1>12. ASSUME EraseRecord PROVE RecordsInv'
  <2>1. /\ UNCHANGED <<ackTimer, expiring, unserved, timedOut>>
        /\ records_' = records_ \ {rx.id} /\ rx'.id = rx.id /\ rx'.at = "start"
    BY <1>12, <1>0 DEF EraseRecord, RxType
  <2> QED
    BY <1>0, <2>1 DEF RecordsInv, RecordsAwaited
<1>13. ASSUME StartUpload PROVE RecordsInv'
  <2>1. /\ UNCHANGED <<records_, ackTimer, expiring, unserved, timedOut>>
        /\ rx.at = "start" /\ rx'.at = "idle"
    BY <1>13 DEF StartUpload, awaiting, RxIdle
  <2> QED
    BY <1>0, <2>1 DEF RecordsInv, RecordsAwaited
<1>14. CASE UNCHANGED vars
  <2>1. UNCHANGED <<records_, ackTimer, expiring, rx, unserved, timedOut>>
    BY <1>14 DEF vars, segmenter, outcome, status, queue, awaiting, slots, transfer
  <2> QED
    BY <1>0, <2>1 DEF RecordsInv, RecordsAwaited
<1> QED
  BY <1>1, <1>2, <1>3, <1>4, <1>5, <1>6, <1>7, <1>8, <1>9, <1>10, <1>11, <1>12, <1>13, <1>14
     DEF Next, UploaderNext, SyncNext, SvcNext, RxNext, HttpNext, StatusNext

\* A chunk leaves the pipeline only for its report, a cancellation or for want of a
\* URL.
LEMMA LostStep ==
    ASSUME UploadInv, [Next]_vars
    PROVE  NothingLost'
<1>0. /\ NothingLost /\ ControlInv /\ PlacesInv /\ HandInv
      /\ SegmenterOK /\ OutcomeOK /\ QueueOK /\ AwaitingOK /\ rx \in RxType
  BY DEF UploadInv, TypeOK
<1>1. ASSUME \/ \E u \in Upload, last \in BOOLEAN : SegmentStep(u, last)
             \/ SegmentEnd
             \/ __segmenter_cancel_by_ticket
      PROVE  NothingLost'
  <2>1. UNCHANGED <<planned, notified, cancelAsked, enqueuing, video_q, exporting, ackTimer,
                     rx, uploads, unserved>>
    BY <1>1 DEF SegmentStep, SegmentEnd, __segmenter_cancel_by_ticket, segmenter, outcome,
              status, queue, awaiting, slots, transfer
  <2> QED
    BY <1>0, <2>1 DEF NothingLost, InPipeline
<1>2. ASSUME \/ direct_upload_sync_cb
             \/ SyncLoop
      PROVE  NothingLost'
  <2>1. UNCHANGED <<planned, notified, cancelAsked, enqueuing, video_q, exporting, ackTimer,
                     rx, uploads, unserved>>
    BY <1>2 DEF direct_upload_sync_cb, SyncLoop, segmenter, outcome, status, queue, awaiting,
              slots, transfer
  <2> QED
    BY <1>0, <2>1 DEF NothingLost, InPipeline
<1>3. ASSUME \/ DropRecord
             \/ Disconnected
             \/ Registered
      PROVE  NothingLost'
  <2>1. UNCHANGED <<planned, notified, cancelAsked, enqueuing, video_q, exporting, ackTimer,
                     rx, uploads, unserved>>
    BY <1>3 DEF DropRecord, Disconnected, Registered, segmenter, outcome, status, queue,
              awaiting, slots, transfer
  <2> QED
    BY <1>0, <2>1 DEF NothingLost, InPipeline
<1>4. ASSUME \/ LoadSlots
             \/ Uncount
      PROVE  NothingLost'
  <2>1. UNCHANGED <<planned, notified, cancelAsked, enqueuing, video_q, exporting, ackTimer,
                     rx, uploads, unserved>>
    BY <1>4 DEF LoadSlots, Uncount, Count, segmenter, outcome, status, queue, awaiting, slots,
              transfer
  <2> QED
    BY <1>0, <2>1 DEF NothingLost, InPipeline
<1>5. ASSUME \/ \E t \in Thread : __send_timeline_synchronization_status(t)
             \/ \E t \in Thread : SendStatus(t)
      PROVE  NothingLost'
  <2>1. UNCHANGED <<planned, notified, cancelAsked, enqueuing, video_q, exporting, ackTimer,
                     rx, uploads, unserved>>
    BY <1>5 DEF __send_timeline_synchronization_status, SendStatus, segmenter, outcome, status,
              queue, awaiting, slots, transfer
  <2> QED
    BY <1>0, <2>1 DEF NothingLost, InPipeline
<1>6. ASSUME Plan PROVE NothingLost'
  <2>1. /\ UNCHANGED <<notified, cancelAsked, video_q, exporting, ackTimer, rx, uploads, unserved>>
        /\ planned' = planned \cup {planning}
        /\ enqueuing' = IF canceled THEN enqueuing ELSE enqueuing \cup {planning}
    BY <1>6 DEF Plan, outcome, awaiting, transfer
  <2>2. canceled => cancelAsked
    BY <1>0 DEF ControlInv
  <2> QED
    BY <1>0, <2>1, <2>2 DEF NothingLost, InPipeline
<1>7. ASSUME cancel_upload PROVE NothingLost'
  BY <1>7 DEF cancel_upload, NothingLost
<1>8. ASSUME NEW u \in Upload, Enqueue(u) PROVE NothingLost'
  <2>1. /\ UNCHANGED <<planned, notified, cancelAsked, exporting, ackTimer, rx, uploads, unserved>>
        /\ enqueuing' = enqueuing \ {u} /\ ToSet(video_q') = ToSet(video_q) \cup {u}
    <3>1. u \notin ToSet(video_q)
      <4>1. At(u, "enqueuing") /\ "enqueuing" \in Place /\ "queued" \in Place
        BY <1>8 DEF Enqueue, At, Place
      <4>2. ~At(u, "queued")
        BY <1>0, <4>1 DEF PlacesInv, OnePlace
      <4> QED
        BY <4>2 DEF At
    <3>2. ToSet(Append(video_q, u)) = ToSet(video_q) \cup {u}
      BY <1>0, <3>1, AppendFacts DEF PlacesInv, QueueOK
    <3> QED
      BY <1>8, <3>2 DEF Enqueue, segmenter, outcome, awaiting, transfer
  <2> QED
    BY <1>0, <2>1 DEF NothingLost, InPipeline
<1>9. ASSUME _cancel_direct_uploads_by_ticket PROVE NothingLost'
  BY <1>9 DEF _cancel_direct_uploads_by_ticket, NothingLost, segmenter
<1>10. ASSUME NEW i \in 1..Len(video_q), _update_direct_upload_queue_latency(i) PROVE NothingLost'
  <2>1. /\ UNCHANGED <<planned, cancelAsked, enqueuing, exporting, ackTimer, rx, uploads, unserved>>
        /\ ToSet(video_q') = ToSet(video_q) \ {video_q[i]} /\ video_q[i] \in Upload
        /\ notified' = [notified EXCEPT ![video_q[i]] = @ + 1]
    <3>1. ToSet(RemoveAt(video_q, i)) = ToSet(video_q) \ {video_q[i]} /\ video_q[i] \in Upload
      BY <1>0, <1>10, RemoveAtFacts DEF PlacesInv, QueueOK
    <3> QED
      BY <1>10, <3>1 DEF _update_direct_upload_queue_latency, on_finished, segmenter, awaiting,
         transfer
  <2>2. ASSUME NEW v \in planned, notified'[v] = 0, ~cancelAsked
        PROVE  InPipeline(v)' \/ v \in unserved'
    <3>1. v # video_q[i] /\ notified[v] = 0
      BY <1>0, <2>1, <2>2 DEF OutcomeOK, SegmenterOK
    <3> QED
      BY <1>0, <2>1, <2>2, <3>1 DEF NothingLost, InPipeline
  <2> QED
    BY <2>1, <2>2 DEF NothingLost
<1>11. ASSUME SyncRoom PROVE NothingLost'
  <2>1. /\ UNCHANGED <<planned, notified, cancelAsked, enqueuing, ackTimer, rx, uploads, unserved>>
        /\ exporting = None /\ video_q # <<>>
    BY <1>11, <1>0 DEF SyncRoom, segmenter, outcome, awaiting, transfer, ControlInv
  <2>2. CASE video_q' = Tail(video_q) /\ exporting' = Head(video_q)
    <3>1. ToSet(video_q') = ToSet(video_q) \ {Head(video_q)}
      BY <1>0, <2>1, <2>2, TailFacts DEF PlacesInv, QueueOK
    <3>2. \A v \in planned : v # None
      BY <1>0, UploadAssumption DEF SegmenterOK
    <3> QED
      BY <1>0, <2>1, <2>2, <3>1, <3>2 DEF NothingLost, InPipeline
  <2>3. CASE canceled
    BY <1>0, <2>1, <2>3 DEF NothingLost, ControlInv
  <2>4. CASE UNCHANGED <<video_q, exporting>>
    BY <1>0, <2>1, <2>4 DEF NothingLost, InPipeline
  <2> QED
    BY <1>11, <2>2, <2>3, <2>4 DEF SyncRoom
<1>12. ASSUME ExportFails PROVE NothingLost'
  <2>1. /\ UNCHANGED <<planned, cancelAsked, enqueuing, video_q, ackTimer, rx, uploads, unserved>>
        /\ exporting \in Upload
        /\ notified' = [notified EXCEPT ![exporting] = @ + 1]
    BY <1>12, <1>0 DEF ExportFails, on_finished, segmenter, awaiting, transfer, QueueOK, ControlInv
  <2>2. ASSUME NEW v \in planned, notified'[v] = 0, ~cancelAsked
        PROVE  InPipeline(v)' \/ v \in unserved'
    <3>1. v # exporting /\ notified[v] = 0
      BY <1>0, <2>1, <2>2 DEF OutcomeOK, SegmenterOK
    <3> QED
      BY <1>0, <2>1, <2>2, <3>1 DEF NothingLost, InPipeline
  <2> QED
    BY <2>1, <2>2 DEF NothingLost
<1>13. ASSUME _request_direct_upload_video PROVE NothingLost'
  <2>1. /\ UNCHANGED <<planned, notified, cancelAsked, enqueuing, video_q, rx, uploads, unserved>>
        /\ ackTimer' = ackTimer \cup {exporting}
    BY <1>13 DEF _request_direct_upload_video, segmenter, outcome, transfer
  <2> QED
    BY <1>0, <2>1 DEF NothingLost, InPipeline
<1>14. ASSUME NEW u \in Upload, AckTimeout(u) PROVE NothingLost'
  <2>1. /\ UNCHANGED <<planned, cancelAsked, enqueuing, video_q, exporting, rx, uploads, unserved>>
        /\ ackTimer' = ackTimer \ {u}
        /\ notified' = [notified EXCEPT ![u] = @ + 1]
    BY <1>14 DEF AckTimeout, on_finished, segmenter, queue, transfer
  <2>2. ASSUME NEW v \in planned, notified'[v] = 0, ~cancelAsked
        PROVE  InPipeline(v)' \/ v \in unserved'
    <3>1. v # u /\ notified[v] = 0
      BY <1>0, <2>1, <2>2 DEF OutcomeOK, SegmenterOK
    <3> QED
      BY <1>0, <2>1, <2>2, <3>1 DEF NothingLost, InPipeline
  <2> QED
    BY <2>1, <2>2 DEF NothingLost
<1>15. ASSUME NEW u \in Upload, NEW answer \in Answer, _handle_command_ack(u, answer) PROVE NothingLost'
  <2>1. /\ UNCHANGED <<planned, cancelAsked, enqueuing, video_q, exporting, uploads>>
        /\ ackTimer' = ackTimer \ {u} /\ rx.id = None /\ unserved \subseteq unserved'
    BY <1>15 DEF _handle_command_ack, Take, segmenter, queue, transfer, RxIdle
  <2>2. \A v \in planned : v # None
    BY <1>0, UploadAssumption DEF SegmenterOK
  <2>3. CASE rx' = Handling(u) /\ UNCHANGED <<outcome, status>>
    <3>1. rx'.id = u /\ UNCHANGED notified
      BY <2>3 DEF outcome, Handling, RxIdle
    <3> QED
      BY <1>0, <2>1, <2>2, <3>1 DEF NothingLost, InPipeline
  <2>4. CASE UNCHANGED <<rx, outcome>> /\ u \in unserved'
    <3>1. UNCHANGED notified
      BY <2>4 DEF outcome
    <3> QED
      BY <1>0, <2>1, <2>4, <3>1 DEF NothingLost, InPipeline
  <2>5. CASE UNCHANGED rx /\ u \in unserved' /\ on_finished("rx", u, FALSE)
    <3>1. notified' = [notified EXCEPT ![u] = @ + 1]
      BY <2>5 DEF on_finished
    <3>2. ASSUME NEW v \in planned, notified'[v] = 0, ~cancelAsked
          PROVE  InPipeline(v)' \/ v \in unserved'
      <4>1. v # u /\ notified[v] = 0
        BY <1>0, <3>1, <3>2 DEF OutcomeOK, SegmenterOK
      <4> QED
        BY <1>0, <2>1, <2>5, <3>2, <4>1 DEF NothingLost, InPipeline
    <3> QED
      BY <2>1, <3>2 DEF NothingLost
  <2> QED
    BY <1>15, <2>3, <2>4, <2>5 DEF _handle_command_ack, Take
<1>16. ASSUME on_direct_upload_url PROVE NothingLost'
  <2>1. /\ UNCHANGED <<planned, notified, cancelAsked, enqueuing, video_q, exporting, ackTimer,
                       uploads, unserved>>
        /\ rx'.id = rx.id
    BY <1>16, <1>0 DEF on_direct_upload_url, segmenter, outcome, queue, awaiting, transfer, RxType
  <2> QED
    BY <1>0, <2>1 DEF NothingLost, InPipeline
<1>17. ASSUME CountUpload PROVE NothingLost'
  <2>1. /\ UNCHANGED <<planned, notified, cancelAsked, enqueuing, video_q, exporting, ackTimer,
                       uploads, unserved>>
        /\ rx'.id = rx.id
    BY <1>17, <1>0 DEF CountUpload, segmenter, outcome, queue, awaiting, transfer, RxType
  <2> QED
    BY <1>0, <2>1 DEF NothingLost, InPipeline
<1>18. ASSUME EraseRecord PROVE NothingLost'
  <2>1. /\ UNCHANGED <<planned, notified, cancelAsked, enqueuing, video_q, exporting, ackTimer,
                       uploads, unserved>>
        /\ rx'.id = rx.id
    BY <1>18, <1>0 DEF EraseRecord, segmenter, outcome, queue, awaiting, transfer, RxType
  <2> QED
    BY <1>0, <2>1 DEF NothingLost, InPipeline
<1>19. ASSUME StartUpload PROVE NothingLost'
  <2>1. /\ UNCHANGED <<planned, cancelAsked, enqueuing, video_q, exporting, ackTimer, unserved>>
        /\ rx.id \in Upload
    BY <1>19, <1>0 DEF StartUpload, segmenter, queue, awaiting, RxType, ControlInv
  <2>2. CASE uploads' = uploads \cup {rx.id} /\ UNCHANGED <<outcome, status, leaked>>
    <3>1. UNCHANGED notified
      BY <2>2 DEF outcome
    <3> QED
      BY <1>0, <2>1, <2>2, <3>1 DEF NothingLost, InPipeline
  <2>3. CASE UNCHANGED uploads /\ on_finished("rx", rx.id, FALSE)
    <3>1. notified' = [notified EXCEPT ![rx.id] = @ + 1]
      BY <2>3 DEF on_finished
    <3>2. ASSUME NEW v \in planned, notified'[v] = 0, ~cancelAsked
          PROVE  InPipeline(v)' \/ v \in unserved'
      <4>1. v # rx.id /\ notified[v] = 0
        BY <1>0, <2>1, <3>1, <3>2 DEF OutcomeOK, SegmenterOK
      <4> QED
        BY <1>0, <2>1, <2>3, <3>2, <4>1 DEF NothingLost, InPipeline
    <3> QED
      BY <2>1, <3>2 DEF NothingLost
  <2> QED
    BY <1>19, <2>2, <2>3 DEF StartUpload
<1>20. ASSUME NEW u \in Upload, NEW ok \in BOOLEAN, NEW again \in BOOLEAN, Response(u, ok, again) PROVE NothingLost'
  <2>1. /\ UNCHANGED <<planned, cancelAsked, enqueuing, video_q, exporting, ackTimer, rx, unserved>>
        /\ uploads' = uploads \ {u}
        /\ notified' = [notified EXCEPT ![u] = @ + 1]
    BY <1>20 DEF Response, on_finished, segmenter, queue, awaiting
  <2>2. ASSUME NEW v \in planned, notified'[v] = 0, ~cancelAsked
        PROVE  InPipeline(v)' \/ v \in unserved'
    <3>1. v # u /\ notified[v] = 0
      BY <1>0, <2>1, <2>2 DEF OutcomeOK, SegmenterOK
    <3> QED
      BY <1>0, <2>1, <2>2, <3>1 DEF NothingLost, InPipeline
  <2> QED
    BY <2>1, <2>2 DEF NothingLost
<1>21. ASSUME ResponseAgain PROVE NothingLost'
  <2>1. /\ UNCHANGED <<planned, cancelAsked, enqueuing, video_q, exporting, ackTimer, rx, uploads, unserved>>
        /\ http.id \in Upload
        /\ notified' = [notified EXCEPT ![http.id] = @ + 1]
    BY <1>21, <1>0 DEF ResponseAgain, on_finished, segmenter, queue, awaiting, HandInv
  <2>2. ASSUME NEW v \in planned, notified'[v] = 0, ~cancelAsked
        PROVE  InPipeline(v)' \/ v \in unserved'
    <3>1. v # http.id /\ notified[v] = 0
      BY <1>0, <2>1, <2>2 DEF OutcomeOK, SegmenterOK
    <3> QED
      BY <1>0, <2>1, <2>2, <3>1 DEF NothingLost, InPipeline
  <2> QED
    BY <2>1, <2>2 DEF NothingLost
<1>22. CASE UNCHANGED vars
  <2>1. UNCHANGED <<planned, notified, cancelAsked, enqueuing, video_q, exporting, ackTimer,
                     rx, uploads, unserved>>
    BY <1>22 DEF vars, segmenter, outcome, status, queue, awaiting, slots, transfer
  <2> QED
    BY <1>0, <2>1 DEF NothingLost, InPipeline
<1> QED
  BY <1>1, <1>2, <1>3, <1>4, <1>5, <1>6, <1>7, <1>8, <1>9, <1>10, <1>11, <1>12, <1>13, <1>14,
     <1>15, <1>16, <1>17, <1>18, <1>19, <1>20, <1>21, <1>22
     DEF Next, UploaderNext, SyncNext, SvcNext, RxNext, HttpNext, StatusNext

LEMMA UploadInit == Init => UploadInv
<1> SUFFICES ASSUME Init PROVE UploadInv
  OBVIOUS
<1>1. /\ planned = {} /\ planning = None /\ enqueuing = {} /\ video_q = <<>> /\ sync = "idle"
      /\ exporting = None /\ records_ = {} /\ acks_ = {} /\ ackTimer = {} /\ expiring = None
      /\ asked = {} /\ rx = RxIdle /\ uploads = {} /\ http = HttpIdle /\ records_uploading = 0
      /\ notified = [u \in Upload |-> 0] /\ timedOut = {} /\ unserved = {} /\ twice = {}
      /\ done = 0 /\ failed = 0 /\ leaked = FALSE /\ torn = FALSE
      /\ sending = [t \in Thread |-> "none"] /\ reported = {} /\ world \in Worlds
  BY DEF Init
<1>2. /\ rx.at = "idle" /\ rx.id = None /\ ~rx.data /\ ~rx.slot
      /\ http.at = "idle" /\ ~http.twice
  BY <1>1 DEF RxIdle, HttpIdle
<1>3. TypeOK
  <2>1. /\ processed = FALSE /\ canceled = FALSE /\ finished = FALSE /\ cancelAsked = FALSE
        /\ by_request \in BOOLEAN /\ ticket \in BOOLEAN /\ registered_ = TRUE
    BY DEF Init
  <2>2. SegmenterOK
    BY <1>1, <2>1 DEF SegmenterOK
  <2>3. OutcomeOK /\ StatusOK
    BY <1>1, <2>1 DEF OutcomeOK, StatusOK
  <2>4. QueueOK
    BY <1>1 DEF QueueOK
  <2>5. AwaitingOK
    BY <1>1 DEF AwaitingOK
  <2>6. rx \in RxType /\ SlotsOK /\ TransferOK
    BY <1>1, IdleTypes DEF SlotsOK, TransferOK
  <2> QED
    BY <1>1, <2>1, <2>2, <2>3, <2>4, <2>5, <2>6 DEF TypeOK
<1>4. ControlInv
  BY <1>1, <1>2 DEF ControlInv, Init
<1>5. \A u \in Upload : ~Somewhere(u)
  <2>1. ToSet(video_q) = {}
    BY <1>1 DEF ToSet
  <2> QED
    BY <1>1, <1>2, <2>1, UploadAssumption DEF Somewhere, At, Place
<1>6. PlacesInv
  BY <1>1, <1>5 DEF PlacesInv, OnePlace, Somewhere, Once
<1>7. SlotsMatch
  <2>1. Cardinality({}) = 0
    BY FS_EmptySet
  <2>2. Slots = 0
    BY <1>1, <1>2, <2>1 DEF Slots, One
  <2>3. 0 \in 0..Cardinality(twice) /\ Slots + 0 * Wrap = records_uploading + Cardinality(twice)
    BY <1>1, <2>1, <2>2, UploadAssumption
  <2> QED
    BY <1>1, <2>3 DEF SlotsMatch
<1>8. CallsInv
  <2> SUFFICES ASSUME NEW u \in Upload PROVE CallsOf(u)
    BY DEF CallsInv
  <2>1. notified[u] = 0 /\ u \notin timedOut /\ u \notin twice /\ ~AnswersAgain(u)
    BY <1>1, <1>2 DEF AnswersAgain
  <2> QED
    BY <1>1, <2>1 DEF CallsOf, One
<1>9. RecordsInv
  BY <1>1, <1>2 DEF RecordsInv, RecordsAwaited
<1>10. NothingLost /\ HandInv
  BY <1>1, <1>2 DEF NothingLost, HandInv
<1> QED
  BY <1>3, <1>4, <1>6, <1>7, <1>8, <1>9, <1>10 DEF UploadInv

LEMMA UploadStep ==
    ASSUME UploadInv, [Next]_vars
    PROVE  UploadInv'
<1>1. TypeOK' /\ ControlInv' /\ HandInv'
  BY TypeStep, ControlStep, HandStep
<1>2. PlacesInv' /\ CallsInv'
  BY PlacesStep
<1>3. RecordsInv' /\ NothingLost'
  BY RecordsStep, LostStep
<1>4. SlotsMatch'
  BY <1>1, MatchStep DEF SlotsMatch, Matching, HandInv
<1> QED
  BY <1>1, <1>2, <1>3, <1>4 DEF UploadInv

\* The accounts of the pipeline hold in every reachable state: a chunk is in one
\* place at most, was reported no more often than its timeout and the storage
\* account for, and its slot and its clip are where its place says.
THEOREM UploadInvCorrect == Spec => []UploadInv
<1>1. UploadInv /\ [Next]_vars => UploadInv'
  BY UploadStep
<1> QED
  BY <1>1, UploadInit, PTL DEF Spec

\* Every variable has its type.
THEOREM TypeCorrect == Spec => []TypeOK
<1>1. UploadInv => TypeOK
  BY DEF UploadInv
<1> QED
  BY <1>1, UploadInvCorrect, PTL

\* While records_uploading lost no update it is the number of slots taken, less
\* one for each upload the storage answered twice, modulo its width; a slot is
\* kept for ever only by a cancellation between the two tests of is_canceled().
THEOREM SlotsMatchCorrect == Spec => []SlotsMatch
<1>1. UploadInv => SlotsMatch
  BY DEF UploadInv
<1> QED
  BY <1>1, UploadInvCorrect, PTL

\* No chunk gets lost between the queue, the export, the answer, its timeout
\* and the HTTP upload: it is on its way until on_finished() is called for it,
\* unless a cancel was asked for or an answer "OK" came without a URL.
THEOREM NothingLostCorrect == Spec => []NothingLost
<1>1. UploadInv => NothingLost
  BY DEF UploadInv
<1> QED
  BY <1>1, UploadInvCorrect, PTL

\* on_finished() is called once for a chunk, once more if the answer to it timed
\* out, and once more if the storage answered its upload twice.
THEOREM ReportsCountedCorrect == Spec => []ReportsCounted
<1>1. UploadInv => ReportsCounted
  BY DEF UploadInv, CallsInv, CallsOf, ReportsCounted
<1> QED
  BY <1>1, UploadInvCorrect, PTL

\* A clip is held in records_ only while its answer is awaited or handled, or
\* after a refusal or an answer without a URL.
THEOREM RecordsAwaitedCorrect == Spec => []RecordsAwaited
<1>1. UploadInv => RecordsAwaited
  BY DEF UploadInv, RecordsInv
<1> QED
  BY <1>1, UploadInvCorrect, PTL
-----------------------------------------------------------------------------
(***************************************************************************)
(* The bound on the clips. The loop of direct_upload_sync_cb() tests the   *)
(* counter first ("room") and the waiting clips last ("export"). Only the  *)
(* sync thread adds a clip, so what a test found stays true until the next *)
(* one; a clip that is counted already is among those the counter tells,   *)
(* by SlotsMatch, so both tests together bound the clips.                  *)
(***************************************************************************)
Held == Cardinality(Clips \ timedOut)

ClipsInv ==
    /\ Cardinality(records_) + One(sync = "export") <= MaxVideo
    /\ torn \/ Held + One(sync = "export") <= 2 * MaxVideo + Cardinality(twice)
    /\ torn \/ canceled \/ sync # "room" \/ Held + 1 <= 2 * MaxVideo + Cardinality(twice)

\* One element more in a finite set.
LEMMA OneMore ==
    ASSUME NEW S, IsFiniteSet(S), NEW x
    PROVE  /\ IsFiniteSet(S \cup {x}) /\ Cardinality(S \cup {x}) \in Nat
           /\ Cardinality(S \cup {x}) <= Cardinality(S) + 1
<1>1. Cardinality(S) \in Nat
  BY FS_CardinalityType
<1>2. /\ IsFiniteSet(S \cup {x})
      /\ Cardinality(S \cup {x}) = Cardinality(S) \/ Cardinality(S \cup {x}) = Cardinality(S) + 1
  BY FS_AddElement
<1> QED
  BY <1>1, <1>2

\* Subsets of Upload can be counted.
LEMMA UploadSubset ==
    ASSUME NEW S \in SUBSET Upload
    PROVE  IsFiniteSet(S) /\ Cardinality(S) \in Nat
  BY UploadAssumption, FS_Subset, FS_CardinalityType

LEMMA UploadOrder ==
    ASSUME NEW S \in SUBSET Upload, NEW R \in SUBSET S
    PROVE  Cardinality(R) <= Cardinality(S)
  BY UploadSubset, FS_Subset

LEMMA ClipsCount ==
    ASSUME UploadInv
    PROVE  /\ Clips \subseteq Upload
           /\ \A S \in SUBSET Upload : IsFiniteSet(S) /\ Cardinality(S) \in Nat
           /\ \A S \in SUBSET Upload : \A R \in SUBSET S : Cardinality(R) <= Cardinality(S)
           /\ records_ \subseteq Upload /\ uploads \subseteq Upload /\ twice \subseteq Upload
           /\ Held \in Nat /\ Cardinality(records_) \in Nat /\ Cardinality(twice) \in Nat
<1>1. records_ \subseteq Upload /\ uploads \subseteq Upload /\ twice \subseteq Upload
  BY DEF UploadInv, TypeOK, AwaitingOK, TransferOK
<1>2. rx.data => rx.id \in Upload
  <2>1. rx \in RxType
    BY DEF UploadInv, TypeOK
  <2>2. rx.data => rx.at # "idle"
    BY DEF UploadInv, HandInv
  <2>3. rx.at # "idle" => rx.id # None
    BY DEF UploadInv, ControlInv
  <2> QED
    BY <2>1, <2>2, <2>3 DEF RxType
<1>3. Clips \subseteq Upload
  BY <1>1, <1>2 DEF Clips
<1>4. \A S \in SUBSET Upload : IsFiniteSet(S) /\ Cardinality(S) \in Nat
  BY UploadAssumption, FS_Subset, FS_CardinalityType
<1>5. \A S \in SUBSET Upload : \A R \in SUBSET S : Cardinality(R) <= Cardinality(S)
  BY <1>4, FS_Subset
<1>6. Clips \ timedOut \in SUBSET Upload
  BY <1>3
<1> QED
  BY <1>1, <1>3, <1>4, <1>5, <1>6 DEF Held

\* A step that adds no clip and goes past no test.
LEMMA ClipsKept ==
    ASSUME UploadInv, UploadInv', ClipsInv,
           records_' \subseteq records_, Clips' \ timedOut' \subseteq Clips \ timedOut,
           twice \subseteq twice', torn => torn', canceled => canceled',
           sync' = sync \/ sync' \notin {"room", "export"}
    PROVE  ClipsInv'
<1>0. records_' \in SUBSET Upload /\ twice' \in SUBSET Upload /\ Clips' \ timedOut' \in SUBSET Upload
  <2>1. records_ \subseteq Upload /\ Clips \subseteq Upload
    BY ClipsCount
  <2>2. twice' \subseteq Upload
    BY DEF UploadInv, TypeOK, TransferOK
  <2> QED
    BY <2>1, <2>2
<1>1. /\ Held \in Nat /\ Cardinality(records_) \in Nat /\ Cardinality(twice) \in Nat
      /\ Held' \in Nat /\ Cardinality(records_') \in Nat /\ Cardinality(twice') \in Nat
  <2>1. Held \in Nat /\ Cardinality(records_) \in Nat /\ Cardinality(twice) \in Nat
    BY ClipsCount
  <2>2. Cardinality(records_') \in Nat /\ Cardinality(twice') \in Nat
    BY <1>0, UploadSubset
  <2>3. Cardinality(Clips' \ timedOut') \in Nat
    BY <1>0, UploadSubset
  <2> QED
    BY <2>1, <2>2, <2>3 DEF Held
<1>2. Cardinality(records_') <= Cardinality(records_)
  BY ClipsCount
<1>3. Held' <= Held
  <2>1. Clips \ timedOut \in SUBSET Upload
    BY ClipsCount
  <2> QED
    BY <2>1, ClipsCount DEF Held
<1>4. Cardinality(twice) <= Cardinality(twice')
  BY <1>0, UploadOrder
<1>5. One(sync' = "export") <= One(sync = "export") /\ One(sync = "export") \in Nat
      /\ One(sync' = "export") \in Nat
  BY DEF One
<1>6. Cardinality(records_') + One(sync' = "export") <= MaxVideo
  BY <1>1, <1>2, <1>5, UploadAssumption DEF ClipsInv
<1>7. torn' \/ Held' + One(sync' = "export") <= 2 * MaxVideo + Cardinality(twice')
  BY <1>1, <1>3, <1>4, <1>5, UploadAssumption DEF ClipsInv
<1>8. torn' \/ canceled' \/ sync' # "room" \/ Held' + 1 <= 2 * MaxVideo + Cardinality(twice')
  BY <1>1, <1>3, <1>4, UploadAssumption DEF ClipsInv
<1> QED
  BY <1>6, <1>7, <1>8 DEF ClipsInv

\* What the first test finds: with a free slot there is room for one more clip.
LEMMA SlotMeansRoom ==
    ASSUME UploadInv, ClipsInv, SlotFree, ~torn, ~canceled
    PROVE  Held + 1 <= 2 * MaxVideo + Cardinality(twice)
<1> DEFINE run == IF rx.slot THEN uploads \cup {rx.id} ELSE uploads
<1>1. rx \in RxType /\ uploads \subseteq Upload /\ records_ \subseteq Upload /\ HandInv /\ RecordsInv
      /\ records_uploading \in Nat
  BY UploadAssumption DEF UploadInv, TypeOK, TransferOK, AwaitingOK, SlotsOK
<1>2. Clips \ timedOut \subseteq records_ \cup run
  BY <1>1 DEF Clips, HandInv, RecordsInv
<1>3. run \subseteq Upload
  <2>1. rx.slot => rx.id \in Upload
    <3>1. rx.slot => rx.at # "idle"
      BY <1>1 DEF HandInv
    <3>2. rx.at # "idle" => rx.id # None
      BY DEF UploadInv, ControlInv
    <3> QED
      BY <1>1, <3>1, <3>2 DEF RxType
  <2> QED
    BY <1>1, <2>1
<1>4. IsFiniteSet(run) /\ Cardinality(run) \in Nat /\ Cardinality(run) <= Slots /\ Slots \in Nat
  <2>1. TypeOK
    BY DEF UploadInv
  <2>2. Cardinality(run) <= Cardinality(uploads) + One(rx.slot)
    BY <2>1, UploadsCount DEF One
  <2>3. /\ Cardinality(uploads) \in Nat /\ Slots \in Nat
        /\ Cardinality(uploads) + One(rx.slot) <= Slots
    BY <2>1, UploadsCount DEF Slots, One
  <2>4. IsFiniteSet(run) /\ Cardinality(run) \in Nat
    BY <1>3, ClipsCount
  <2>5. One(rx.slot) \in Nat
    BY DEF One
  <2> QED
    BY <2>2, <2>3, <2>4, <2>5
<1> HIDE DEF run
<1>5. Held <= Cardinality(records_) + Cardinality(run)
  <2>1. IsFiniteSet(records_) /\ Cardinality(records_) \in Nat
    BY ClipsCount
  <2>2. /\ Cardinality(records_ \cup run) =
             Cardinality(records_) + Cardinality(run) - Cardinality(records_ \cap run)
        /\ Cardinality(records_ \cap run) \in Nat
    BY <1>4, <2>1, FS_Union, FS_Intersection, FS_CardinalityType
  <2>3. Held <= Cardinality(records_ \cup run) /\ Held \in Nat
    BY <1>1, <1>2, <1>3, ClipsCount DEF Held
  <2> QED
    BY <1>4, <2>1, <2>2, <2>3
<1>6. Slots <= records_uploading + Cardinality(twice) /\ Cardinality(twice) \in Nat
  <2>1. PICK q \in 0..Cardinality(twice) :
           Slots + q * Wrap = records_uploading + Cardinality(twice)
    BY DEF UploadInv, SlotsMatch
  <2>2. Cardinality(twice) \in Nat
    BY ClipsCount
  <2>3. q * Wrap \in Nat
    BY <2>1, <2>2, Multiple
  <2> QED
    BY <1>1, <1>4, <2>1, <2>2, <2>3
<1>7. Cardinality(records_) <= MaxVideo /\ records_uploading + 1 <= MaxVideo
  <2>1. Cardinality(records_) \in Nat /\ One(sync = "export") \in Nat
    BY ClipsCount DEF One
  <2>2. records_uploading < MaxVideo
    BY DEF SlotFree
  <2> QED
    BY <1>1, <2>1, <2>2, UploadAssumption DEF ClipsInv
<1>8. Held \in Nat /\ Cardinality(records_) \in Nat /\ MaxVideo \in Nat
  BY ClipsCount, UploadAssumption
<1> QED
  BY <1>1, <1>4, <1>5, <1>6, <1>7, <1>8

\* Only a finished export adds a clip, and it was tested for.
LEMMA ClipsStep ==
    ASSUME UploadInv, UploadInv', ClipsInv, [Next]_vars
    PROVE  ClipsInv'
<1>0. UploadInv /\ UploadInv' /\ ClipsInv /\ rx \in RxType
  BY DEF UploadInv, TypeOK
<1>1. ASSUME \/ \E u \in Upload, last \in BOOLEAN : SegmentStep(u, last)
             \/ SegmentEnd
             \/ Plan
             \/ cancel_upload
      PROVE  ClipsInv'
  <2>1. UNCHANGED <<records_, uploads, rx, timedOut, twice, torn, canceled, sync>>
    BY <1>1 DEF SegmentStep, SegmentEnd, Plan, cancel_upload, segmenter, outcome, status, queue,
              awaiting, slots, transfer
  <2> QED
    BY <1>0, <2>1, ClipsKept DEF Clips
<1>2. ASSUME \/ \E u \in Upload : Enqueue(u)
             \/ _cancel_direct_uploads_by_ticket
      PROVE  ClipsInv'
  <2>1. UNCHANGED <<records_, uploads, rx, timedOut, twice, torn, canceled, sync>>
    BY <1>2 DEF Enqueue, _cancel_direct_uploads_by_ticket, segmenter, outcome, status, queue,
              awaiting, slots, transfer
  <2> QED
    BY <1>0, <2>1, ClipsKept DEF Clips
<1>3. ASSUME \/ Disconnected
             \/ Registered
      PROVE  ClipsInv'
  <2>1. UNCHANGED <<records_, uploads, rx, timedOut, twice, torn, canceled, sync>>
    BY <1>3 DEF Disconnected, Registered, segmenter, outcome, status, queue, awaiting, slots,
              transfer
  <2> QED
    BY <1>0, <2>1, ClipsKept DEF Clips
<1>4. ASSUME \/ LoadSlots
             \/ ResponseAgain
      PROVE  ClipsInv'
  <2>1. UNCHANGED <<records_, uploads, rx, timedOut, twice, torn, canceled, sync>>
    BY <1>4 DEF LoadSlots, ResponseAgain, segmenter, outcome, status, queue, awaiting, slots,
              transfer
  <2> QED
    BY <1>0, <2>1, ClipsKept DEF Clips
<1>5. ASSUME \/ \E t \in Thread : __send_timeline_synchronization_status(t)
             \/ \E t \in Thread : SendStatus(t)
      PROVE  ClipsInv'
  <2>1. UNCHANGED <<records_, uploads, rx, timedOut, twice, torn, canceled, sync>>
    BY <1>5 DEF __send_timeline_synchronization_status, SendStatus, segmenter, outcome, status,
              queue, awaiting, slots, transfer
  <2> QED
    BY <1>0, <2>1, ClipsKept DEF Clips
<1>6. ASSUME __segmenter_cancel_by_ticket PROVE ClipsInv'
  <2>1. /\ UNCHANGED <<records_, uploads, rx, timedOut, twice, torn, sync>>
        /\ canceled'
    BY <1>6 DEF __segmenter_cancel_by_ticket, queue, awaiting, slots, transfer
  <2>2. Clips' \ timedOut' \subseteq Clips \ timedOut
    BY <2>1 DEF Clips
  <2> QED
    BY <1>0, <2>1, <2>2, ClipsKept
<1>7. ASSUME NEW i \in 1..Len(video_q), _update_direct_upload_queue_latency(i) PROVE ClipsInv'
  <2>1. /\ UNCHANGED <<records_, uploads, rx, timedOut, twice, torn, canceled>>
        /\ sync' \notin {"room", "export"}
    BY <1>7 DEF _update_direct_upload_queue_latency, segmenter, awaiting, slots, transfer
  <2>2. Clips' \ timedOut' \subseteq Clips \ timedOut
    BY <2>1 DEF Clips
  <2> QED
    BY <1>0, <2>1, <2>2, ClipsKept
<1>8. ASSUME direct_upload_sync_cb PROVE ClipsInv'
  <2>1. /\ UNCHANGED <<records_, uploads, rx, timedOut, twice, torn, canceled>>
        /\ sync' \notin {"room", "export"}
    BY <1>8 DEF direct_upload_sync_cb, segmenter, awaiting, slots, transfer
  <2>2. Clips' \ timedOut' \subseteq Clips \ timedOut
    BY <2>1 DEF Clips
  <2> QED
    BY <1>0, <2>1, <2>2, ClipsKept
<1>9. ASSUME SyncLoop PROVE ClipsInv'
  <2>1. /\ UNCHANGED <<records_, uploads, rx, timedOut, twice, torn, canceled>>
        /\ sync = "loop"
    BY <1>9 DEF SyncLoop, segmenter, awaiting, slots, transfer
  <2>2. Clips' = Clips /\ Held' = Held
    BY <2>1 DEF Clips, Held
  <2>3. CASE sync' = "room" /\ SlotFree
    <3>1. torn \/ canceled \/ Held + 1 <= 2 * MaxVideo + Cardinality(twice)
      BY <1>0, <2>3, SlotMeansRoom
    <3>2. One(sync' = "export") = 0 /\ One(sync = "export") = 0
      BY <2>1, <2>3 DEF One
    <3> QED
      BY <1>0, <2>1, <2>2, <2>3, <3>1, <3>2 DEF ClipsInv
  <2>4. CASE sync' = "idle"
    BY <1>0, <2>1, <2>2, <2>4, ClipsKept
  <2> QED
    BY <1>9, <2>3, <2>4 DEF SyncLoop
<1>10. ASSUME SyncRoom PROVE ClipsInv'
  <2>1. /\ UNCHANGED <<records_, uploads, rx, timedOut, twice, torn, canceled>>
        /\ sync = "room"
    BY <1>10 DEF SyncRoom, segmenter, awaiting, slots, transfer
  <2>2. Clips' = Clips /\ Held' = Held
    BY <2>1 DEF Clips, Held
  <2>3. CASE Room /\ ~canceled /\ sync' = "export"
    <3>1. One(sync' = "export") = 1 /\ Cardinality(records_) \in Nat /\ Held \in Nat
      BY <1>0, <2>3, ClipsCount DEF One
    <3>2. Cardinality(records_) + 1 <= MaxVideo
      BY <2>3, <3>1, UploadAssumption DEF Room
    <3>3. torn \/ Held + 1 <= 2 * MaxVideo + Cardinality(twice)
      BY <1>0, <2>1, <2>3 DEF ClipsInv
    <3> QED
      BY <2>1, <2>2, <2>3, <3>1, <3>2, <3>3 DEF ClipsInv
  <2>4. CASE sync' \in {"idle", "loop"}
    BY <1>0, <2>1, <2>2, <2>4, ClipsKept
  <2> QED
    BY <1>10, <2>3, <2>4 DEF SyncRoom
<1>11. ASSUME ExportFails PROVE ClipsInv'
  <2>1. /\ UNCHANGED <<records_, uploads, rx, timedOut, twice, torn, canceled>>
        /\ sync' = "loop"
    BY <1>11 DEF ExportFails, segmenter, awaiting, slots, transfer
  <2>2. Clips' \ timedOut' \subseteq Clips \ timedOut
    BY <2>1 DEF Clips
  <2> QED
    BY <1>0, <2>1, <2>2, ClipsKept
<1>12. ASSUME _request_direct_upload_video PROVE ClipsInv'
  <2>1. /\ UNCHANGED <<uploads, rx, timedOut, twice, torn, canceled>>
        /\ records_' = records_ \cup {exporting} /\ sync = "export" /\ sync' = "idle"
    BY <1>12 DEF _request_direct_upload_video, segmenter, slots, transfer
  <2>2. /\ IsFiniteSet(records_) /\ Cardinality(records_) \in Nat /\ Held \in Nat
        /\ Cardinality(twice) \in Nat
    BY <1>0, ClipsCount
  <2>3. Cardinality(records_') <= Cardinality(records_) + 1 /\ Cardinality(records_') \in Nat
    BY <2>1, <2>2, OneMore
  <2>4. Held' <= Held + 1 /\ Held' \in Nat
    <3>1. Clips' \ timedOut' \subseteq (Clips \ timedOut) \cup {exporting}
      BY <2>1 DEF Clips
    <3>2. IsFiniteSet(Clips \ timedOut)
      BY <1>0, ClipsCount
    <3>3. /\ IsFiniteSet((Clips \ timedOut) \cup {exporting})
          /\ Cardinality((Clips \ timedOut) \cup {exporting}) <= Held + 1
          /\ Cardinality((Clips \ timedOut) \cup {exporting}) \in Nat
      BY <3>2, OneMore DEF Held
    <3>4. /\ Cardinality(Clips' \ timedOut') <= Cardinality((Clips \ timedOut) \cup {exporting})
          /\ Cardinality(Clips' \ timedOut') \in Nat
      BY <3>1, <3>3, FS_Subset, FS_CardinalityType
    <3> QED
      BY <2>2, <3>3, <3>4 DEF Held
  <2>5. One(sync = "export") = 1 /\ One(sync' = "export") = 0
    BY <2>1 DEF One
  <2> QED
    BY <1>0, <2>1, <2>2, <2>3, <2>4, <2>5, UploadAssumption DEF ClipsInv
<1>13. ASSUME NEW u \in Upload, AckTimeout(u) PROVE ClipsInv'
  <2>1. /\ UNCHANGED <<records_, uploads, rx, twice, torn, canceled, sync>>
        /\ timedOut \subseteq timedOut'
    BY <1>13 DEF AckTimeout, segmenter, queue, slots, transfer
  <2>2. Clips' \ timedOut' \subseteq Clips \ timedOut
    BY <2>1 DEF Clips
  <2> QED
    BY <1>0, <2>1, <2>2, ClipsKept
<1>14. ASSUME DropRecord PROVE ClipsInv'
  <2>1. /\ UNCHANGED <<uploads, rx, timedOut, twice, torn, canceled, sync>>
        /\ records_' \subseteq records_
    BY <1>14 DEF DropRecord, segmenter, queue, slots, transfer
  <2>2. Clips' \ timedOut' \subseteq Clips \ timedOut
    BY <2>1 DEF Clips
  <2> QED
    BY <1>0, <2>1, <2>2, ClipsKept
<1>15. ASSUME NEW u \in Upload, NEW answer \in Answer, _handle_command_ack(u, answer) PROVE ClipsInv'
  <2>1. UNCHANGED <<records_, uploads, timedOut, twice, torn, canceled, sync>>
    BY <1>15 DEF _handle_command_ack, Take, segmenter, queue, slots, transfer
  <2>2. rx' = rx \/ ~rx'.data
    <3>1. ~Handling(u).data
      BY DEF Handling, RxIdle
    <3> QED
      BY <1>15, <3>1 DEF _handle_command_ack
  <2>3. Clips' \ timedOut' \subseteq Clips \ timedOut
    BY <2>1, <2>2 DEF Clips
  <2> QED
    BY <1>0, <2>1, <2>3, ClipsKept
<1>16. ASSUME on_direct_upload_url PROVE ClipsInv'
  <2>1. UNCHANGED <<records_, uploads, timedOut, twice, torn, canceled, sync>>
    BY <1>16 DEF on_direct_upload_url, segmenter, queue, awaiting, slots, transfer
  <2>2. rx'.id = rx.id /\ (rx'.data => rx.id \in records_)
    BY <1>16, <1>0 DEF on_direct_upload_url, RxType
  <2>3. Clips' \ timedOut' \subseteq Clips \ timedOut
    BY <2>1, <2>2 DEF Clips
  <2> QED
    BY <1>0, <2>1, <2>3, ClipsKept
<1>17. ASSUME CountUpload PROVE ClipsInv'
  <2>1. /\ UNCHANGED <<records_, uploads, timedOut, twice, canceled, sync>> /\ (torn => torn')
        /\ rx'.id = rx.id /\ rx'.data = rx.data
    BY <1>17, <1>0 DEF CountUpload, Count, segmenter, queue, awaiting, transfer, RxType
  <2>2. Clips' \ timedOut' \subseteq Clips \ timedOut
    BY <2>1 DEF Clips
  <2> QED
    BY <1>0, <2>1, <2>2, ClipsKept
<1>18. ASSUME EraseRecord PROVE ClipsInv'
  <2>1. /\ UNCHANGED <<uploads, timedOut, twice, torn, canceled, sync>>
        /\ records_' \subseteq records_ /\ rx'.id = rx.id /\ rx'.data = rx.data
    BY <1>18, <1>0 DEF EraseRecord, segmenter, queue, slots, transfer, RxType
  <2>2. Clips' \ timedOut' \subseteq Clips \ timedOut
    BY <2>1 DEF Clips
  <2> QED
    BY <1>0, <2>1, <2>2, ClipsKept
<1>19. ASSUME StartUpload PROVE ClipsInv'
  <2>1. UNCHANGED <<records_, timedOut, twice, torn, canceled, sync>> /\ ~rx'.data
    BY <1>19 DEF StartUpload, segmenter, queue, awaiting, slots, RxIdle
  <2>2. UNCHANGED uploads \/ (rx.data /\ uploads' = uploads \cup {rx.id})
    BY <1>19 DEF StartUpload
  <2>3. Clips' \ timedOut' \subseteq Clips \ timedOut
    BY <2>1, <2>2 DEF Clips
  <2> QED
    BY <1>0, <2>1, <2>3, ClipsKept
<1>20. ASSUME NEW u \in Upload, NEW ok \in BOOLEAN, NEW again \in BOOLEAN, Response(u, ok, again) PROVE ClipsInv'
  <2>1. /\ UNCHANGED <<records_, rx, timedOut, torn, canceled, sync>>
        /\ uploads' \subseteq uploads /\ twice \subseteq twice'
    BY <1>20 DEF Response, segmenter, queue, awaiting, slots
  <2>2. Clips' \ timedOut' \subseteq Clips \ timedOut
    BY <2>1 DEF Clips
  <2> QED
    BY <1>0, <2>1, <2>2, ClipsKept
<1>21. ASSUME Uncount PROVE ClipsInv'
  <2>1. UNCHANGED <<records_, uploads, rx, timedOut, twice, canceled, sync>> /\ (torn => torn')
    BY <1>21 DEF Uncount, Count, segmenter, queue, awaiting
  <2>2. Clips' \ timedOut' \subseteq Clips \ timedOut
    BY <2>1 DEF Clips
  <2> QED
    BY <1>0, <2>1, <2>2, ClipsKept
<1>22. CASE UNCHANGED vars
  <2>1. UNCHANGED <<records_, uploads, rx, timedOut, twice, torn, canceled, sync>>
    BY <1>22 DEF vars, segmenter, outcome, status, queue, awaiting, slots, transfer
  <2> QED
    BY <1>0, <2>1, ClipsKept DEF Clips
<1> QED
  BY <1>1, <1>2, <1>3, <1>4, <1>5, <1>6, <1>7, <1>8, <1>9, <1>10, <1>11, <1>12, <1>13, <1>14,
     <1>15, <1>16, <1>17, <1>18, <1>19, <1>20, <1>21, <1>22
     DEF Next, UploaderNext, SyncNext, SvcNext, RxNext, HttpNext, StatusNext

\* However the export, the answers of the Cloud, their timeouts, a cancellation
\* and the HTTP responses interleave, direct_upload_sync_cb() holds no more than
\* 2 * MaxVideo clips, and one more for each upload answered twice, as long as
\* records_uploading lost no update.
THEOREM ClipsBoundedCorrect == Spec => []ClipsBounded
<1>1. Init => ClipsInv
  <2> SUFFICES ASSUME Init PROVE ClipsInv
    OBVIOUS
  <2>1. records_ = {} /\ uploads = {} /\ twice = {} /\ sync = "idle" /\ ~rx.data
    BY DEF Init, RxIdle
  <2>2. Clips \ timedOut = {}
    BY <2>1 DEF Clips
  <2>3. Cardinality({}) = 0
    BY FS_EmptySet
  <2>4. Held = 0 /\ One(sync = "export") = 0
    BY <2>1, <2>2, <2>3 DEF Held, One
  <2> QED
    BY <2>1, <2>3, <2>4, UploadAssumption DEF ClipsInv
<1>2. UploadInv /\ UploadInv' /\ ClipsInv /\ [Next]_vars => ClipsInv'
  BY ClipsStep
<1>3. UploadInv /\ ClipsInv => ClipsBounded
  <2> SUFFICES ASSUME UploadInv, ClipsInv PROVE ClipsBounded
    OBVIOUS
  <2>1. Held \in Nat /\ One(sync = "export") \in Nat /\ Cardinality(twice) \in Nat
    BY ClipsCount DEF One
  <2> QED
    BY <2>1, UploadAssumption DEF ClipsInv, ClipsBounded, Held
<1> QED
  BY <1>1, <1>2, <1>3, UploadInvCorrect, PTL DEF Spec
-----------------------------------------------------------------------------
(***************************************************************************)
(* The statuses. A final one closes the ticket in the step that makes it   *)
(* up, and without a ticket none is made up.                               *)
(***************************************************************************)
FinalInv == FinalMadeUp => ~ticket

\* What a step may do to the statuses once a final one was made up.
KeepsFinal == FinalMadeUp => \A t \in Thread : sending'[t] \in {sending[t], "none"}

LEMMA StatusKept ==
    ASSUME StatusOK, FinalInv, UNCHANGED status
    PROVE  FinalInv' /\ KeepsFinal
  BY DEF status, FinalInv, FinalMadeUp, KeepsFinal

\* A report, or the end of the segmenter, of a thread that was in none.
LEMMA StatusDue ==
    ASSUME StatusOK, FinalInv, NEW t \in Thread, NEW b \in {"due", "none"},
           sending' = [sending EXCEPT ![t] = b], ~ticket => b = "none",
           UNCHANGED <<ticket, reported>>
    PROVE  FinalInv' /\ KeepsFinal
<1>1. sending \in [Thread -> Status \cup {"none", "due"}]
  BY DEF StatusOK
<1>2. FinalMadeUp' => FinalMadeUp
  BY <1>1 DEF FinalMadeUp, Final
<1>3. KeepsFinal
  <2> SUFFICES ASSUME FinalMadeUp, NEW s \in Thread PROVE sending'[s] \in {sending[s], "none"}
    BY DEF KeepsFinal
  <2>1. b = "none"
    BY DEF FinalInv
  <2> QED
    BY <1>1, <2>1
<1> QED
  BY <1>2, <1>3 DEF FinalInv

LEMMA FinishedDue ==
    ASSUME StatusOK, FinalInv, NEW t \in Thread, NEW u, NEW ok, on_finished(t, u, ok)
    PROVE  FinalInv' /\ KeepsFinal
<1>1. /\ sending' = [sending EXCEPT ![t] = IF ticket THEN "due" ELSE "none"]
      /\ UNCHANGED <<ticket, reported>>
  BY DEF on_finished
<1>2. CASE ticket
  BY <1>1, <1>2, StatusDue
<1>3. CASE ~ticket
  BY <1>1, <1>3, StatusDue
<1> QED
  BY <1>2, <1>3

\* No step makes up a status after a final one.
LEMMA FinalStep ==
    ASSUME StatusOK, FinalInv, [Next]_vars
    PROVE  FinalInv' /\ KeepsFinal
<1>0. /\ StatusOK /\ FinalInv
      /\ "uploader" \in Thread /\ "sync" \in Thread /\ "svc" \in Thread
      /\ "rx" \in Thread /\ "http" \in Thread
  BY DEF Thread
<1>1. ASSUME \/ \E u \in Upload, last \in BOOLEAN : SegmentStep(u, last)
             \/ Plan
             \/ cancel_upload
      PROVE  FinalInv' /\ KeepsFinal
  <2>1. UNCHANGED status
    BY <1>1 DEF SegmentStep, Plan, cancel_upload, segmenter, outcome, status, queue, awaiting,
              slots, transfer
  <2> QED
    BY <1>0, <2>1, StatusKept
<1>2. ASSUME \/ \E u \in Upload : Enqueue(u)
             \/ _cancel_direct_uploads_by_ticket
             \/ direct_upload_sync_cb
             \/ SyncLoop
             \/ SyncRoom
             \/ _request_direct_upload_video
      PROVE  FinalInv' /\ KeepsFinal
  <2>1. UNCHANGED status
    BY <1>2 DEF Enqueue, _cancel_direct_uploads_by_ticket, direct_upload_sync_cb, SyncLoop,
              SyncRoom, _request_direct_upload_video, segmenter, outcome, status, queue,
              awaiting, slots, transfer
  <2> QED
    BY <1>0, <2>1, StatusKept
<1>3. ASSUME \/ DropRecord
             \/ Disconnected
             \/ Registered
      PROVE  FinalInv' /\ KeepsFinal
  <2>1. UNCHANGED status
    BY <1>3 DEF DropRecord, Disconnected, Registered, segmenter, outcome, status, queue,
              awaiting, slots, transfer
  <2> QED
    BY <1>0, <2>1, StatusKept
<1>4. ASSUME \/ on_direct_upload_url
             \/ CountUpload
             \/ EraseRecord
      PROVE  FinalInv' /\ KeepsFinal
  <2>1. UNCHANGED status
    BY <1>4 DEF on_direct_upload_url, CountUpload, Count, EraseRecord, segmenter, outcome,
              status, queue, awaiting, slots, transfer
  <2> QED
    BY <1>0, <2>1, StatusKept
<1>5. ASSUME \/ LoadSlots
             \/ Uncount
      PROVE  FinalInv' /\ KeepsFinal
  <2>1. UNCHANGED status
    BY <1>5 DEF LoadSlots, Uncount, Count, segmenter, outcome, status, queue, awaiting, slots,
              transfer
  <2> QED
    BY <1>0, <2>1, StatusKept
<1>6. ASSUME SegmentEnd PROVE FinalInv' /\ KeepsFinal
  <2>1. /\ sending' = [sending EXCEPT !["uploader"] =
                         IF ticket /\ planned = {} THEN "due" ELSE "none"]
        /\ UNCHANGED <<ticket, reported>>
    BY <1>6 DEF SegmentEnd
  <2>2. CASE ticket /\ planned = {}
    BY <1>0, <2>1, <2>2, StatusDue
  <2>3. CASE ~(ticket /\ planned = {})
    BY <1>0, <2>1, <2>3, StatusDue
  <2> QED
    BY <2>2, <2>3
<1>7. ASSUME __segmenter_cancel_by_ticket PROVE FinalInv' /\ KeepsFinal
  BY <1>7, <1>0, StatusDue DEF __segmenter_cancel_by_ticket
<1>8. ASSUME NEW i \in 1..Len(video_q), _update_direct_upload_queue_latency(i) PROVE FinalInv' /\ KeepsFinal
  BY <1>8, <1>0, FinishedDue DEF _update_direct_upload_queue_latency
<1>9. ASSUME ExportFails PROVE FinalInv' /\ KeepsFinal
  BY <1>9, <1>0, FinishedDue DEF ExportFails
<1>10. ASSUME NEW u \in Upload, AckTimeout(u) PROVE FinalInv' /\ KeepsFinal
  BY <1>10, <1>0, FinishedDue DEF AckTimeout
<1>11. ASSUME NEW u \in Upload, NEW answer \in Answer, _handle_command_ack(u, answer) PROVE FinalInv' /\ KeepsFinal
  BY <1>11, <1>0, FinishedDue, StatusKept DEF _handle_command_ack
<1>12. ASSUME StartUpload PROVE FinalInv' /\ KeepsFinal
  BY <1>12, <1>0, FinishedDue, StatusKept DEF StartUpload
<1>13. ASSUME NEW u \in Upload, NEW ok \in BOOLEAN, NEW again \in BOOLEAN, Response(u, ok, again) PROVE FinalInv' /\ KeepsFinal
  BY <1>13, <1>0, FinishedDue DEF Response
<1>14. ASSUME ResponseAgain PROVE FinalInv' /\ KeepsFinal
  BY <1>14, <1>0, FinishedDue DEF ResponseAgain
<1>15. ASSUME NEW t \in Thread, __send_timeline_synchronization_status(t) PROVE FinalInv' /\ KeepsFinal
  <2>1. /\ UNCHANGED reported /\ sending[t] = "due"
        /\ sending' = [sending EXCEPT ![t] = IF ticket THEN SyncStatus ELSE "none"]
        /\ ticket' = (ticket /\ SyncStatus \notin Final)
        /\ sending \in [Thread -> Status \cup {"none", "due"}]
    BY <1>15, <1>0 DEF __send_timeline_synchronization_status, StatusOK
  <2>2. CASE ticket
    <3>1. ~FinalMadeUp
      BY <1>0, <2>2 DEF FinalInv
    <3>2. FinalMadeUp' => SyncStatus \in Final
      BY <2>1, <2>2, <3>1 DEF FinalMadeUp
    <3> QED
      BY <2>1, <3>1, <3>2 DEF FinalInv, KeepsFinal
  <2>3. CASE ~ticket
    <3>1. \A s \in Thread : sending'[s] \in {sending[s], "none"}
      BY <2>1, <2>3
    <3> QED
      BY <2>1, <2>3, <3>1 DEF FinalInv, KeepsFinal
  <2> QED
    BY <2>2, <2>3
<1>16. ASSUME NEW t \in Thread, SendStatus(t) PROVE FinalInv' /\ KeepsFinal
  <2>1. /\ UNCHANGED ticket /\ reported' = reported \cup {sending[t]}
        /\ sending' = [sending EXCEPT ![t] = "none"]
        /\ sending \in [Thread -> Status \cup {"none", "due"}]
    BY <1>16, <1>0 DEF SendStatus, StatusOK
  <2>2. \A s \in Thread : sending'[s] \in {sending[s], "none"}
    BY <2>1
  <2>3. FinalMadeUp' => FinalMadeUp
    BY <2>1 DEF FinalMadeUp, Final
  <2> QED
    BY <1>0, <2>1, <2>2, <2>3 DEF FinalInv, KeepsFinal
<1>17. CASE UNCHANGED vars
  <2>1. UNCHANGED status
    BY <1>17 DEF vars, segmenter, outcome, status, queue, awaiting, slots, transfer
  <2> QED
    BY <1>0, <2>1, StatusKept
<1> QED
  BY <1>1, <1>2, <1>3, <1>4, <1>5, <1>6, <1>7, <1>8, <1>9, <1>10, <1>11, <1>12, <1>13, <1>14,
     <1>15, <1>16, <1>17
     DEF Next, UploaderNext, SyncNext, SvcNext, RxNext, HttpNext, StatusNext

\* Once __send_timeline_synchronization_status() has made up "done" or "error"
\* for a request it makes up no other status for it; those made up before, one
\* by each other thread, may still be sent.
THEOREM FinalStatusStaysCorrect == Spec => FinalStatusStays
<1>1. Init => FinalInv
  BY DEF Init, FinalInv, FinalMadeUp, Final
<1>2. UploadInv => StatusOK
  BY DEF UploadInv, TypeOK
<1>3. StatusOK /\ FinalInv /\ [Next]_vars => FinalInv'
  BY FinalStep
<1>4. StatusOK /\ FinalInv /\ [Next]_vars
         => [FinalMadeUp => \A t \in Thread : sending'[t] \in {sending[t], "none"}]_vars
  BY FinalStep DEF KeepsFinal
<1> QED
  BY <1>1, <1>2, <1>3, <1>4, UploadInvCorrect, PTL DEF Spec, FinalStatusStays
=============================================================================
