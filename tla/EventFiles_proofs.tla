------------------------- MODULE EventFiles_proofs -------------------------
(***************************************************************************)
(* For any number of events, threads, limits and answers: the files of     *)
(* events are bounded, and a file is left behind only in the named cases.  *)
(***************************************************************************)
EXTENDS EventFiles, FiniteSetTheorems, TLAPS

\* Events beyond the last msgid are nowhere.
Known(e) == e <= __id
IdInv ==
    /\ \A k \in Kind : \A e \in stored[k] : Known(e)
    /\ \A e \in Event, k \in Kind : <<e, k>> \in uploads => Known(e)
    /\ \A e \in asked : Known(e)
    /\ \A a \in acks_ : Known(a.e)
    /\ Known(rx.e) /\ Known(expiring.e)
    /\ \A t \in Thread : Known(user[t].e)

\* An event in notify_event() belongs to one thread and to no other part of
\* the agent yet; its files to come are nowhere, the stored ones are noted.
UserInv ==
    \A t \in Thread :
        /\ user[t].at = "idle" => user[t] = UserIdle
        /\ user[t].at = "store" => user[t].todo # {}
        /\ user[t].at # "idle" =>
             LET e == user[t].e
             IN  /\ e \in Event
                 /\ e \notin asked /\ e # rx.e /\ e # expiring.e
                 /\ \A a \in acks_ : a.e # e
                 /\ \A u \in Thread : u # t => user[u].e # e
                 /\ \A k \in user[t].todo : e \notin stored[k]
                 /\ \A k \in Kind : <<e, k>> \notin uploads
                 /\ \A k \in Kind : e \in stored[k] => k \in user[t].need

\* A file is in one place: waiting, being moved or being uploaded.
PlaceInv ==
    /\ \A k \in Kind : \A e \in stored[k] : <<e, k>> \notin uploads
    /\ rx.at = "idle" => rx = RxIdle
    /\ rx.at # "idle" => rx.e \in Event /\ rx.e \notin asked
    /\ rx.at \in {"count", "put"} => <<rx.e, rx.k>> \notin uploads
    /\ http.at = "count" => <<http.e, http.k>> \in uploads

\* The files that threads are about to store have their place already.
Storing(k) == {t \in world.threads : user[t].at = "store" /\ First(user[t].todo) = k}
BoundInv ==
    \A k \in Kind \ torn :
        /\ SlotsMatch(k)
        /\ Cardinality(Held(k)) + Cardinality(Storing(k))
             <= 2 * MaxFiles[k] + Cardinality(world.threads) + again[k]

\* The files of the answered event still to be fetched have their URL.
Left(k) == rx.e \in stored[k] /\ ~(rx.at \in {"count", "put"} /\ rx.k = k)
Coming(k) ==
    \/ k \in rx.cats
    \/ rx.any > 1
    \/ rx.any = 1 /\ (k = "meta" => ~Left("snapshot"))
RxInv ==
    rx.at # "idle" =>
        \A k \in Kind : \/ ~Left(k)
                        \/ <<rx.e, k>> \in kept
                        \/ expiring.e = rx.e /\ k \in expiring.todo
                        \/ Coming(k)

ExpiryInv == expiring.e = None => expiring = NoExpiry

IInv == TypeOK /\ IdInv /\ UserInv /\ PlaceInv /\ BoundInv /\ RxInv /\ ExpiryInv /\ FilesAwaited

-----------------------------------------------------------------------------
\* What the assumption on the constants says of the world in use.
LEMMA WorldFacts ==
    ASSUME world \in Worlds
    PROVE  /\ world.threads \subseteq Thread /\ IsFiniteSet(world.threads)
           /\ world.events \in 0..MaxEvent
           /\ world.files \subseteq SUBSET Kind
           /\ world.hidden \subseteq BOOLEAN
           /\ world.answers \subseteq Urls
           /\ world.unresolved \subseteq BOOLEAN
<1>1. world.threads \subseteq Thread
  BY FilesAssumption
<1>2. IsFiniteSet(world.threads)
  BY <1>1, FilesAssumption, FS_Subset
<1> QED
  BY <1>1, <1>2, FilesAssumption

LEMMA InitInv == Init => IInv
<1> SUFFICES ASSUME Init PROVE IInv
  OBVIOUS
<1>0. MaxEvent \in Nat /\ None \notin Event
  BY FilesAssumption DEF Event, None
<1>1. TypeOK
  BY <1>0, FilesAssumption DEF Init, TypeOK, UserIdle, RxIdle, HttpIdle, NoExpiry, Kind, None
<1>2. IdInv
  BY <1>0 DEF Init, IdInv, Known, UserIdle, RxIdle, NoExpiry, None, Kind
<1>3. UserInv /\ PlaceInv /\ RxInv /\ ExpiryInv
  BY <1>0 DEF Init, UserInv, PlaceInv, RxInv, ExpiryInv, UserIdle, RxIdle, HttpIdle, NoExpiry, Kind
<1>4. FilesAwaited
  BY DEF Init, FilesAwaited, Kind
<1>5. BoundInv
  <2> SUFFICES ASSUME NEW k \in Kind
               PROVE  /\ SlotsMatch(k)
                      /\ Cardinality(Held(k)) + Cardinality(Storing(k))
                           <= 2 * MaxFiles[k] + Cardinality(world.threads) + again[k]
    BY DEF BoundInv
  <2>1. Uploads(k) = {} /\ Held(k) = {}
    BY DEF Init, Uploads, Held, Moving, RxIdle, Kind
  <2>2. world.threads \subseteq Thread /\ IsFiniteSet(world.threads)
    BY WorldFacts DEF Init
  <2>3. Storing(k) = {}
    BY <2>2 DEF Init, Storing, UserIdle
  <2>4. Cardinality({}) = 0 /\ Cardinality(world.threads) \in Nat
    BY <2>2, FS_EmptySet, FS_CardinalityType
  <2>5. again[k] = 0 /\ uploading[k] = 0 /\ Running(k) = 0 /\ MaxFiles[k] \in Nat
    BY <2>1, <2>4, FilesAssumption DEF Init, Running, RxIdle
  <2>6. SlotsMatch(k)
    <3>1. 0 \in 0..again[k] /\ Running(k) + 0 * Wrap = uploading[k] + again[k]
      BY <2>5, FilesAssumption
    <3> QED
      BY <3>1 DEF SlotsMatch
  <2> QED
    BY <2>1, <2>3, <2>4, <2>5, <2>6
<1> QED
  BY <1>1, <1>2, <1>3, <1>4, <1>5 DEF IInv

\* The types of the threads of the user.
UserType == [Thread -> [at : {"idle", "test", "store"}, e : Event \cup {None},
                        todo : SUBSET Kind, need : SUBSET Kind, hidden : BOOLEAN]]

LEMMA UserTypeStep == IInv /\ [Next]_vars => user' \in UserType
<1> SUFFICES ASSUME IInv, [Next]_vars PROVE user' \in UserType
  OBVIOUS
<1>0. user \in UserType /\ world \in Worlds /\ __id \in 0..MaxEvent /\ MaxEvent \in Nat
  BY FilesAssumption DEF IInv, TypeOK, UserType
<1>w. /\ world.threads \subseteq Thread /\ world.events \in 0..MaxEvent
      /\ world.files \subseteq SUBSET Kind /\ world.hidden \subseteq BOOLEAN
  BY <1>0, WorldFacts
<1>1. ASSUME NEW t \in world.threads, NEW carries \in world.files, NEW hidden \in world.hidden,
             notify_event(t, carries, hidden)
      PROVE  user' \in UserType
  <2>1. __id + 1 \in Event
    BY <1>0, <1>w, <1>1 DEF notify_event, Event
  <2> QED
    BY <1>0, <1>w, <1>1, <2>1 DEF notify_event, UserType
<1>2. ASSUME NEW t \in world.threads, TestRoom(t) \/ CaptureFails(t)
      PROVE  user' \in UserType
  BY <1>0, <1>w, <1>2 DEF TestRoom, CaptureFails, UserType
<1>3. ASSUME NEW t \in world.threads, Store(t)
      PROVE  user' \in UserType
  BY <1>0, <1>w, <1>3 DEF Store, UserType, First, Kind
<1>4. ASSUME NEW t \in world.threads, Send(t)
      PROVE  user' \in UserType
  BY <1>0, <1>w, <1>4 DEF Send, UserType, UserIdle
<1>5. ASSUME SvcNext \/ RxNext \/ HttpNext \/ UNCHANGED vars
      PROVE  user' \in UserType
  BY <1>0, <1>5 DEF SvcNext, AckTimeout, DropFile, Disconnected, Registered, stop, start,
     RxNext, direct_upload_url, Categorised, Uncategorised, FileFound, NothingFound,
     CountUpload, Make, HttpNext, Response, Uncount,
     ResponseAgain, UncountAgain, vars
<1> QED
  BY <1>1, <1>2, <1>3, <1>4, <1>5 DEF Next, UserNext

MapType ==
    /\ stored \in [Kind -> SUBSET Event]
    /\ uploads \subseteq Event \X Kind
    /\ kept \subseteq Event \X Kind
    /\ uploading \in [Kind -> 0..Wrap - 1]
    /\ torn \subseteq Kind /\ again \in [Kind -> Nat]

\* The arithmetic of the counters stays in their range.
LEMMA RangeOfCounters ==
    ASSUME NEW n \in 0..Wrap - 1
    PROVE  Up(n) \in 0..Wrap - 1 /\ Down(n) \in 0..Wrap - 1
BY FilesAssumption DEF Up, Down

LEMMA MapTypeStep == IInv /\ [Next]_vars => MapType'
<1> SUFFICES ASSUME IInv, [Next]_vars PROVE MapType'
  OBVIOUS
<1>0. MapType
  BY DEF IInv, TypeOK, MapType
<1>r. /\ rx.at # "idle" => rx.e \in Event
      /\ rx.k \in Kind /\ rx.reg \in 0..Wrap - 1
      /\ http.k \in Kind /\ http.reg \in 0..Wrap - 1
  BY DEF IInv, TypeOK, PlaceInv
<1>w. world.threads \subseteq Thread
  BY WorldFacts DEF IInv, TypeOK
<1>u. \A t \in Thread : /\ user[t].at # "idle" => user[t].e \in Event
                        /\ user[t].need \subseteq Kind
  BY DEF IInv, TypeOK, UserInv
<1>1. ASSUME NEW t \in world.threads,
             \/ \E carries \in world.files, hidden \in world.hidden :
                   notify_event(t, carries, hidden)
             \/ TestRoom(t) \/ CaptureFails(t)
      PROVE  MapType'
  BY <1>0, <1>1 DEF notify_event, TestRoom, CaptureFails, MapType, files, counters
<1>2. ASSUME NEW t \in world.threads, Store(t)
      PROVE  MapType'
  <2>1. First(user[t].todo) \in Kind /\ user[t].e \in Event
    BY <1>2, <1>u, <1>w DEF First, Kind, Store
  <2>2. stored' \in [Kind -> SUBSET Event]
    BY <1>0, <1>2, <2>1 DEF Store, MapType
  <2> QED
    BY <1>0, <1>2, <2>2 DEF Store, MapType, counters
<1>3. ASSUME NEW t \in world.threads, Send(t)
      PROVE  MapType'
  <2>1. kept' \subseteq Event \X Kind
    BY <1>0, <1>3, <1>u, <1>w DEF Send, MapType
  <2> QED
    BY <1>0, <1>3, <2>1 DEF Send, MapType, counters
<1>4. ASSUME NEW k \in Kind, DropFile(k)
      PROVE  MapType'
  BY <1>0, <1>4 DEF DropFile, MapType, counters
<1>5. CASE stop
  <2>1. \A a \in acks_ : a.e \in Event /\ a.need \subseteq Kind
    BY DEF IInv, TypeOK
  <2>2. kept' \subseteq Event \X Kind
    BY <1>0, <1>5, <2>1 DEF stop, MapType
  <2> QED
    BY <1>0, <1>5, <2>2 DEF stop, MapType, counters
<1>6. ASSUME NEW e \in Event, NEW urls \in world.answers, direct_upload_url(e, urls)
      PROVE  MapType'
  BY <1>0, <1>6 DEF direct_upload_url, MapType, counters
<1>7. CASE CountUpload
  <2>1. Up(rx.reg) \in 0..Wrap - 1
    BY <1>r, RangeOfCounters
  <2> QED
    BY <1>0, <1>r, <1>7, <2>1 DEF CountUpload, Count, MapType, files
<1>8. CASE Make
  <2>1. stored' \in [Kind -> SUBSET Event] /\ uploads' \subseteq Event \X Kind
    BY <1>0, <1>r, <1>8 DEF Make, MapType
  <2> QED
    BY <1>0, <1>8, <2>1 DEF Make, MapType, counters
<1>9. CASE Uncount \/ UncountAgain
  <2>1. Down(http.reg) \in 0..Wrap - 1
    BY <1>r, RangeOfCounters
  <2>2. UNCHANGED <<stored, kept>> /\ uploads' \subseteq uploads
    BY <1>9 DEF Uncount, UncountAgain, files
  <2>3. /\ uploading' = [uploading EXCEPT ![http.k] = Down(http.reg)]
        /\ torn' \subseteq torn \cup {http.k}
    BY <1>9 DEF Uncount, UncountAgain, Count
  <2>4. again' \in [Kind -> Nat]
    BY <1>0, <1>r, <1>9 DEF Uncount, UncountAgain, MapType
  <2> QED
    BY <1>0, <1>r, <2>1, <2>2, <2>3, <2>4 DEF MapType
<1>10. ASSUME \/ \E a \in acks_ : AckTimeout(a)
              \/ Disconnected \/ Registered \/ start
              \/ \E k \in Kind : Categorised(k)
              \/ Uncategorised
              \/ \E e \in Event, k \in Kind, twice \in world.unresolved :
                    Response(e, k, twice)
              \/ ResponseAgain \/ UNCHANGED vars
       PROVE  MapType'
  BY <1>0, <1>10 DEF AckTimeout, Disconnected, Registered, start, Categorised, Uncategorised,
     FileFound, NothingFound, Response, ResponseAgain, vars, MapType, files, counters
<1> QED
  BY <1>1, <1>2, <1>3, <1>4, <1>5, <1>6, <1>7, <1>8, <1>9, <1>10
     DEF Next, UserNext, SvcNext, RxNext, HttpNext

AwaitType ==
    /\ acks_ \subseteq [e : Event, need : SUBSET Kind]
    /\ asked \subseteq Event
    /\ expiring \in [e : Event \cup {None}, todo : SUBSET Kind]

LEMMA AwaitTypeStep == IInv /\ [Next]_vars => AwaitType'
<1> SUFFICES ASSUME IInv, [Next]_vars PROVE AwaitType'
  OBVIOUS
<1>0. AwaitType
  BY DEF IInv, TypeOK, AwaitType
<1>w. world.threads \subseteq Thread
  BY WorldFacts DEF IInv, TypeOK
<1>u. \A t \in Thread : /\ user[t].at # "idle" => user[t].e \in Event
                        /\ user[t].need \subseteq Kind
  BY DEF IInv, TypeOK, UserInv
<1>1. ASSUME NEW t \in world.threads, Send(t)
      PROVE  AwaitType'
  <2>1. user[t].e \in Event /\ user[t].need \subseteq Kind
    BY <1>1, <1>u, <1>w DEF Send
  <2>2. acks_' \subseteq [e : Event, need : SUBSET Kind] /\ asked' \subseteq Event
    BY <1>0, <1>1, <2>1 DEF Send, AwaitType, awaiting
  <2> QED
    BY <1>0, <1>1, <2>2 DEF Send, AwaitType
<1>2. ASSUME NEW t \in world.threads,
             \/ \E carries \in world.files, hidden \in world.hidden :
                   notify_event(t, carries, hidden)
             \/ TestRoom(t) \/ Store(t) \/ CaptureFails(t)
      PROVE  AwaitType'
  BY <1>0, <1>2 DEF notify_event, TestRoom, Store, CaptureFails, AwaitType, awaiting
<1>3. ASSUME NEW a \in acks_, AckTimeout(a)
      PROVE  AwaitType'
  BY <1>0, <1>3 DEF AckTimeout, AwaitType
<1>4. ASSUME NEW k \in Kind, DropFile(k)
      PROVE  AwaitType'
  BY <1>0, <1>4 DEF DropFile, AwaitType, awaiting, NoExpiry
<1>5. CASE Disconnected \/ Registered \/ stop \/ start
  BY <1>0, <1>5 DEF Disconnected, Registered, stop, start, AwaitType, awaiting
<1>6. ASSUME NEW e \in Event, NEW urls \in world.answers, direct_upload_url(e, urls)
      PROVE  AwaitType'
  BY <1>0, <1>6 DEF direct_upload_url, AwaitType
<1>7. ASSUME \/ \E k \in Kind : Categorised(k)
             \/ Uncategorised \/ CountUpload \/ Make \/ HttpNext \/ UNCHANGED vars
      PROVE  AwaitType'
  BY <1>0, <1>7 DEF Categorised, Uncategorised, FileFound, NothingFound, CountUpload, Make,
     HttpNext, Response, Uncount,
     ResponseAgain, UncountAgain, vars, AwaitType, awaiting
<1> QED
  BY <1>1, <1>2, <1>3, <1>4, <1>5, <1>6, <1>7 DEF Next, UserNext, SvcNext, RxNext

RxType == [at : {"idle", "url", "count", "put"}, e : Event \cup {None},
           cats : SUBSET Kind, any : Nat, k : Kind, reg : 0..Wrap - 1]
HttpType == [at : {"idle", "count", "again", "recount"}, e : Event \cup {None}, k : Kind,
             reg : 0..Wrap - 1, twice : BOOLEAN]

LEMMA HandlingType ==
    ASSUME NEW e \in Event, NEW cats \in SUBSET Kind, NEW any \in Nat
    PROVE  Handling(e, cats, any) \in RxType
<1>0. 0 \in 0..Wrap - 1
  BY FilesAssumption
<1>1. RxIdle \in RxType
  BY <1>0 DEF RxIdle, RxType, Kind
<1>2. [at |-> "url", e |-> e, cats |-> cats, any |-> any, k |-> "meta", reg |-> 0] \in RxType
  BY <1>0 DEF RxType, Kind
<1> QED
  BY <1>1, <1>2 DEF Handling

LEMMA RxTypeStep == IInv /\ [Next]_vars => rx' \in RxType /\ http' \in HttpType
<1> SUFFICES ASSUME IInv, [Next]_vars PROVE rx' \in RxType /\ http' \in HttpType
  OBVIOUS
<1>0. /\ rx \in RxType /\ http \in HttpType /\ uploading \in [Kind -> 0..Wrap - 1]
      /\ rx.at # "idle" => rx.e \in Event
  BY DEF IInv, TypeOK, PlaceInv, RxType, HttpType
<1>w. world.answers \subseteq Urls /\ world.unresolved \subseteq BOOLEAN
  BY WorldFacts DEF IInv, TypeOK
<1>1. ASSUME NEW e \in Event, NEW urls \in world.answers, direct_upload_url(e, urls)
      PROVE  rx' \in RxType /\ http' = http
  <2>1. urls.cats \in SUBSET Kind /\ urls.any \in Nat
    BY <1>w DEF Urls
  <2> QED
    BY <1>1, <2>1, HandlingType DEF direct_upload_url
<1>f. ASSUME NEW k \in Kind, NEW cats \in SUBSET Kind, NEW any \in Nat, FileFound(k, cats, any)
      PROVE  rx' \in RxType /\ http' = http
  BY <1>0, <1>f DEF FileFound, RxType
<1>n. ASSUME NEW cats \in SUBSET Kind, NEW any \in Nat, NothingFound(cats, any)
      PROVE  rx' \in RxType /\ http' = http
  BY <1>0, <1>n, HandlingType DEF NothingFound
<1>2. ASSUME NEW k \in Kind, Categorised(k)
      PROVE  rx' \in RxType /\ http' = http
  <2>1. rx.cats \ {k} \in SUBSET Kind /\ rx.any \in Nat
    BY <1>0 DEF RxType
  <2> QED
    BY <1>2, <2>1, <1>f, <1>n DEF Categorised
<1>3. CASE Uncategorised
  <2>1. rx.cats \in SUBSET Kind /\ rx.any - 1 \in Nat
    BY <1>0, <1>3 DEF RxType, Uncategorised
  <2>2. "snapshot" \in Kind /\ "meta" \in Kind
    BY DEF Kind
  <2> QED
    BY <1>0, <1>3, <2>1, <2>2, <1>f, <1>n DEF Uncategorised
<1>4. CASE CountUpload
  BY <1>0, <1>4 DEF CountUpload, RxType
<1>5. CASE Make
  <2>1. rx.cats \in SUBSET Kind /\ rx.any \in Nat /\ rx.e \in Event
    BY <1>0, <1>5 DEF Make, RxType
  <2> QED
    BY <1>0, <1>5, <2>1, HandlingType DEF Make
<1>6. CASE HttpNext
  <2>1. ASSUME NEW e \in Event, NEW k \in Kind, NEW twice \in world.unresolved,
               Response(e, k, twice)
        PROVE  rx' \in RxType /\ http' \in HttpType
    <3>1. [at |-> "count", e |-> e, k |-> k, reg |-> uploading[k], twice |-> twice] \in HttpType
      BY <1>0, <1>w DEF HttpType
    <3> QED
      BY <1>0, <2>1, <3>1 DEF Response
  <2>2. ASSUME Uncount \/ UncountAgain PROVE rx' \in RxType /\ http' \in HttpType
    <3>1. HttpIdle \in HttpType
      BY FilesAssumption DEF HttpIdle, HttpType, Kind
    <3>2. [http EXCEPT !.at = "again"] \in HttpType
      BY <1>0 DEF HttpType
    <3> QED
      BY <1>0, <2>2, <3>1, <3>2 DEF Uncount, UncountAgain
  <2>3. ASSUME ResponseAgain PROVE rx' \in RxType /\ http' \in HttpType
    BY <1>0, <2>3 DEF ResponseAgain, HttpType
  <2> QED
    BY <1>6, <2>1, <2>2, <2>3 DEF HttpNext
<1>7. CASE UserNext
  BY <1>0, <1>7 DEF UserNext, notify_event, TestRoom, Store, CaptureFails, Send
<1>8. ASSUME SvcNext \/ UNCHANGED vars
      PROVE  rx' = rx /\ http' = http
  BY <1>8 DEF SvcNext, AckTimeout, DropFile, Disconnected, Registered, stop, start, vars
<1> QED
  BY <1>0, <1>1, <1>2, <1>3, <1>4, <1>5, <1>6, <1>7, <1>8 DEF Next, RxNext

SessionType ==
    /\ running \in BOOLEAN /\ registered_ \in BOOLEAN
    /\ world \in Worlds /\ stops \in Nat /\ __id \in 0..MaxEvent

LEMMA SessionTypeStep == IInv /\ [Next]_vars => SessionType'
<1> SUFFICES ASSUME IInv, [Next]_vars PROVE SessionType'
  OBVIOUS
<1>0. SessionType /\ MaxEvent \in Nat
  BY FilesAssumption DEF IInv, TypeOK, SessionType
<1>1. ASSUME NEW t \in world.threads, NEW carries \in world.files, NEW hidden \in world.hidden,
             notify_event(t, carries, hidden)
      PROVE  SessionType'
  <2>1. world.events \in 0..MaxEvent
    BY <1>0, WorldFacts DEF SessionType
  <2>2. __id' \in 0..MaxEvent
    BY <1>0, <1>1, <2>1 DEF notify_event, SessionType
  <2> QED
    BY <1>0, <1>1, <2>2 DEF notify_event, SessionType, session
<1>2. CASE Disconnected \/ Registered
  <2>1. registered_' \in BOOLEAN
    BY <1>2 DEF Disconnected, Registered
  <2>2. UNCHANGED <<world, running, stops, __id>>
    BY <1>2 DEF Disconnected, Registered
  <2> QED
    BY <1>0, <2>1, <2>2 DEF SessionType
<1>6. CASE start
  <2>1. running' \in BOOLEAN
    BY <1>6 DEF start
  <2>2. UNCHANGED <<world, registered_, stops, __id>>
    BY <1>6 DEF start
  <2> QED
    BY <1>0, <2>1, <2>2 DEF SessionType
<1>3. CASE stop
  <2>1. running' \in BOOLEAN /\ registered_' \in BOOLEAN
    BY <1>3 DEF stop
  <2>2. stops' \in Nat /\ UNCHANGED <<world, __id>>
    BY <1>0, <1>3 DEF stop, SessionType
  <2> QED
    BY <1>0, <2>1, <2>2 DEF SessionType
<1>4. ASSUME \/ \E t \in world.threads : TestRoom(t) \/ Store(t) \/ CaptureFails(t) \/ Send(t)
             \/ \E a \in acks_ : AckTimeout(a)
             \/ \E k \in Kind : DropFile(k)
             \/ RxNext \/ HttpNext \/ UNCHANGED vars
      PROVE  UNCHANGED <<session, __id>>
  BY <1>4 DEF TestRoom, Store, CaptureFails, Send, AckTimeout, DropFile, RxNext,
     direct_upload_url, Categorised, Uncategorised, FileFound, NothingFound, CountUpload, Make,
     HttpNext, Response, Uncount,
     ResponseAgain, UncountAgain, vars
<1>5. ASSUME UNCHANGED <<session, __id>> PROVE SessionType'
  BY <1>0, <1>5 DEF SessionType, session
<1> QED
  BY <1>1, <1>2, <1>3, <1>4, <1>5, <1>6 DEF Next, UserNext, SvcNext

LEMMA TypeStep == IInv /\ [Next]_vars => TypeOK'
BY UserTypeStep, MapTypeStep, AwaitTypeStep, RxTypeStep, SessionTypeStep
   DEF UserType, MapType, AwaitType, RxType, HttpType, SessionType, TypeOK

\* What Handling() returns.
LEMMA HandlingFields ==
    ASSUME NEW e, NEW cats, NEW any
    PROVE  \/ /\ Handling(e, cats, any) = RxIdle
              /\ cats = {} /\ any = 0
           \/ /\ Handling(e, cats, any).at = "url" /\ Handling(e, cats, any).e = e
              /\ Handling(e, cats, any).cats = cats /\ Handling(e, cats, any).any = any
BY DEF Handling

\* The steps of the rx thread that look at one URL: what becomes of it.
UrlStep(cats, any) == NothingFound(cats, any) \/ \E k \in Kind : FileFound(k, cats, any)

LEMMA UrlSteps ==
    ASSUME TypeOK, (\E k \in Kind : Categorised(k)) \/ Uncategorised
    PROVE  \E cats \in SUBSET Kind, any \in Nat : UrlStep(cats, any)
<1>0. rx.cats \in SUBSET Kind /\ rx.any \in Nat
  BY DEF TypeOK
<1>1. ASSUME NEW k \in Kind, Categorised(k)
      PROVE  UrlStep(rx.cats \ {k}, rx.any)
  BY <1>1 DEF Categorised, UrlStep
<1>2. ASSUME Uncategorised
      PROVE  UrlStep(rx.cats, rx.any - 1) /\ rx.any - 1 \in Nat
  <2>1. "snapshot" \in Kind /\ "meta" \in Kind
    BY DEF Kind
  <2>2. UrlStep(rx.cats, rx.any - 1)
    BY <1>2, <2>1 DEF Uncategorised, UrlStep
  <2> QED
    BY <1>0, <1>2, <2>2 DEF Uncategorised
<1> QED
  BY <1>0, <1>1, <1>2

LEMMA UrlFrame ==
    ASSUME TypeOK, NEW cats, NEW any, UrlStep(cats, any)
    PROVE  /\ rx.at = "url"
           /\ rx' = RxIdle \/ (rx'.at \in {"url", "count"} /\ rx'.e = rx.e)
           /\ UNCHANGED <<user, files, awaiting, expiring, counters, uploads, http, session,
                          __id>>
<1>1. CASE NothingFound(cats, any)
  BY <1>1, HandlingFields DEF NothingFound
<1>2. ASSUME NEW k \in Kind, FileFound(k, cats, any)
      PROVE  /\ rx.at = "url"
             /\ rx'.at = "count" /\ rx'.e = rx.e
             /\ UNCHANGED <<user, files, awaiting, expiring, counters, uploads, http, session,
                            __id>>
  BY <1>2 DEF FileFound, TypeOK
<1> QED
  BY <1>1, <1>2 DEF UrlStep

LEMMA ExpiryStep == IInv /\ [Next]_vars => ExpiryInv'
<1> SUFFICES ASSUME IInv, [Next]_vars PROVE ExpiryInv'
  OBVIOUS
<1>0. /\ ExpiryInv /\ None \notin Event
      /\ \A a \in acks_ : a.e \in Event
      /\ expiring \in [e : Event \cup {None}, todo : SUBSET Kind]
  BY FilesAssumption DEF IInv, TypeOK, Event, None
<1>1. ASSUME NEW a \in acks_, AckTimeout(a)
      PROVE  ExpiryInv'
  BY <1>0, <1>1 DEF AckTimeout, ExpiryInv
<1>2. ASSUME NEW k \in Kind, DropFile(k)
      PROVE  ExpiryInv'
  <2>1. expiring.e # None
    BY <1>0, <1>2 DEF DropFile, ExpiryInv, NoExpiry
  <2> QED
    BY <1>0, <1>2, <2>1 DEF DropFile, ExpiryInv, NoExpiry
<1>3. ASSUME \/ UserNext \/ Disconnected \/ Registered \/ stop \/ start \/ RxNext \/ HttpNext
             \/ UNCHANGED vars
      PROVE  expiring' = expiring
  BY <1>3 DEF UserNext, notify_event, TestRoom, Store, CaptureFails, Send, Disconnected,
     Registered, stop, start, RxNext, direct_upload_url, Categorised, Uncategorised, FileFound,
     NothingFound, CountUpload, Make, HttpNext, Response, Uncount,
     ResponseAgain, UncountAgain, vars
<1>4. ASSUME expiring' = expiring PROVE ExpiryInv'
  BY <1>0, <1>4 DEF ExpiryInv
<1> QED
  BY <1>1, <1>2, <1>3, <1>4 DEF Next, SvcNext

LEMMA IdStep == IInv /\ [Next]_vars => IdInv'
<1> SUFFICES ASSUME IInv, [Next]_vars PROVE IdInv'
  OBVIOUS
<1>0. TypeOK /\ IdInv /\ UserInv
  BY DEF IInv
<1>t. /\ __id \in Nat
      /\ stored \in [Kind -> SUBSET Event] /\ uploads \subseteq Event \X Kind
      /\ asked \subseteq Event /\ \A a \in acks_ : a.e \in Event
      /\ Event \subseteq Int /\ rx.e \in Int /\ expiring.e \in Int
      /\ \A t \in Thread : user[t].e \in Int
      /\ DOMAIN user = Thread
  BY <1>0, FilesAssumption DEF TypeOK, Event, None
<1>w. world.threads \subseteq Thread
  BY <1>0, WorldFacts DEF TypeOK
<1> USE DEF IdInv, Known
<1>1. ASSUME NEW t \in world.threads, NEW carries \in world.files, NEW hidden \in world.hidden,
             notify_event(t, carries, hidden)
      PROVE  IdInv'
  <2>1. UNCHANGED <<stored, uploads, asked, acks_, rx, expiring>> /\ __id' = __id + 1
    BY <1>1 DEF notify_event, files, awaiting
  <2>2. \A u \in Thread : user'[u].e <= __id'
    BY <1>0, <1>1, <1>t, <1>w DEF notify_event
  <2>3. \A e \in Event, k \in Kind : <<e, k>> \in uploads => e <= __id'
    BY <1>0, <1>t, <2>1
  <2>4. \A k \in Kind : \A e \in stored[k] : e <= __id'
    BY <1>0, <1>t, <2>1
  <2>a. \A e \in asked : e <= __id /\ e \in Int
    BY <1>0, <1>t
  <2>b. \A a \in acks_ : a.e <= __id /\ a.e \in Int
    BY <1>0, <1>t
  <2>5. (\A e \in asked : e <= __id') /\ (\A a \in acks_ : a.e <= __id')
    BY <1>t, <2>1, <2>a, <2>b
  <2>6. rx.e <= __id' /\ expiring.e <= __id'
    BY <1>0, <1>t, <2>1
  <2> QED
    BY <2>1, <2>2, <2>3, <2>4, <2>5, <2>6
<1>2. ASSUME NEW t \in world.threads, TestRoom(t) \/ CaptureFails(t)
      PROVE  IdInv'
  <2>1. \A u \in Thread : user'[u].e = user[u].e
    BY <1>0, <1>2, <1>w DEF TestRoom, CaptureFails, TypeOK
  <2> QED
    BY <1>0, <1>2, <2>1 DEF TestRoom, CaptureFails, files, awaiting
<1>3. ASSUME NEW t \in world.threads, Store(t)
      PROVE  IdInv'
  <2>1. \A u \in Thread : user'[u].e = user[u].e
    BY <1>0, <1>3, <1>w DEF Store, TypeOK
  <2>2. \A k \in Kind : \A e \in stored'[k] : e \in stored[k] \/ e = user[t].e
    BY <1>0, <1>3, <1>t DEF Store
  <2> QED
    BY <1>0, <1>3, <1>w, <2>1, <2>2 DEF Store, awaiting
<1>4. ASSUME NEW t \in world.threads, Send(t)
      PROVE  IdInv'
  <2>1. \A u \in Thread : user'[u].e = user[u].e \/ user'[u].e = None
    BY <1>0, <1>4, <1>w DEF Send, TypeOK, UserIdle
  <2>2. \A e \in asked' : e \in asked \/ e = user[t].e
    BY <1>4 DEF Send, awaiting
  <2>3. \A a \in acks_' : a \in acks_ \/ a.e = user[t].e
    BY <1>4 DEF Send, awaiting
  <2>4. UNCHANGED <<stored, uploads, rx, expiring, __id>>
    BY <1>4 DEF Send
  <2>5. user[t].e <= __id /\ None <= __id
    BY <1>0, <1>t, <1>w DEF None
  <2>6. (\A e \in asked' : e <= __id') /\ (\A a \in acks_' : a.e <= __id')
    BY <1>0, <2>2, <2>3, <2>4, <2>5
  <2>7. \A u \in Thread : user'[u].e <= __id'
    BY <1>0, <2>1, <2>4, <2>5
  <2> QED
    BY <1>0, <2>4, <2>6, <2>7
<1>5. ASSUME NEW a \in acks_, AckTimeout(a)
      PROVE  IdInv'
  BY <1>0, <1>5 DEF AckTimeout, files
<1>6. ASSUME NEW k \in Kind, DropFile(k)
      PROVE  IdInv'
  <2>1. \A j \in Kind : stored'[j] \subseteq stored[j]
    BY <1>6, <1>t DEF DropFile
  <2>2. expiring'.e = expiring.e \/ expiring'.e = None
    BY <1>0, <1>6 DEF DropFile, NoExpiry, TypeOK
  <2> QED
    BY <1>0, <1>6, <1>t, <2>1, <2>2 DEF DropFile, awaiting, None
<1>7. CASE Disconnected \/ Registered \/ stop \/ start
  BY <1>0, <1>7 DEF Disconnected, Registered, stop, start, files, awaiting
<1>8. ASSUME NEW e \in Event, NEW urls \in world.answers, direct_upload_url(e, urls)
      PROVE  IdInv'
  <2>1. rx'.e = e \/ rx'.e = None
    BY <1>8, HandlingFields DEF direct_upload_url, RxIdle
  <2> QED
    BY <1>0, <1>8, <1>t, <2>1 DEF direct_upload_url, None
<1>9. ASSUME NEW cats \in SUBSET Kind, NEW any \in Nat, UrlStep(cats, any)
      PROVE  IdInv'
  <2>1. /\ rx'.e = rx.e \/ rx'.e = None
        /\ UNCHANGED <<user, stored, uploads, asked, acks_, expiring, __id>>
    BY <1>0, <1>9, UrlFrame DEF files, awaiting, RxIdle
  <2>2. rx'.e <= __id'
    BY <1>0, <1>t, <2>1 DEF None
  <2> QED
    BY <1>0, <2>1, <2>2
<1>10. CASE CountUpload
  BY <1>0, <1>10 DEF CountUpload, files, awaiting, TypeOK
<1>11. CASE Make
  <2>1. rx'.e = rx.e \/ rx'.e = None
    BY <1>11, HandlingFields DEF Make, RxIdle
  <2>2. \A j \in Kind : stored'[j] \subseteq stored[j]
    BY <1>11, <1>t DEF Make
  <2>3. \A e \in Event, k \in Kind : <<e, k>> \in uploads' => <<e, k>> \in uploads \/ e = rx.e
    BY <1>11 DEF Make
  <2>4. UNCHANGED <<user, asked, acks_, expiring, __id>>
    BY <1>11 DEF Make, awaiting
  <2>5. rx'.e <= __id'
    BY <1>0, <1>t, <2>1, <2>4 DEF None
  <2>6. \A e \in Event, k \in Kind : <<e, k>> \in uploads' => e <= __id'
    BY <1>0, <2>3, <2>4
  <2> QED
    BY <1>0, <2>2, <2>4, <2>5, <2>6
<1>12. CASE HttpNext
  BY <1>0, <1>12 DEF HttpNext, Response, Uncount,
     ResponseAgain, UncountAgain, files, awaiting
<1>13. CASE UNCHANGED vars
  BY <1>0, <1>13 DEF vars, files, awaiting
<1> QED
  BY <1>0, <1>1, <1>2, <1>3, <1>4, <1>5, <1>6, <1>7, <1>8, <1>9, <1>10, <1>11, <1>12, <1>13,
     UrlSteps DEF Next, UserNext, SvcNext, RxNext

LEMMA PlaceStep == IInv /\ [Next]_vars => PlaceInv'
<1> SUFFICES ASSUME IInv, [Next]_vars PROVE PlaceInv'
  OBVIOUS
<1>0. TypeOK /\ PlaceInv /\ UserInv
  BY DEF IInv
<1>t. /\ stored \in [Kind -> SUBSET Event] /\ rx.k \in Kind
      /\ None \notin Event /\ RxIdle.at = "idle"
  BY <1>0, FilesAssumption DEF TypeOK, Event, None, RxIdle
<1>w. world.threads \subseteq Thread
  BY <1>0, WorldFacts DEF TypeOK
<1>h. http \in HttpType
  BY <1>0 DEF TypeOK, HttpType
<1> USE DEF PlaceInv
<1>1. ASSUME NEW t \in world.threads, Store(t)
      PROVE  PlaceInv'
  <2>1. user[t].at # "idle" /\ UNCHANGED <<rx, asked, uploads, http>>
    BY <1>1 DEF Store, awaiting
  <2>2. \A k \in Kind : <<user[t].e, k>> \notin uploads
    BY <1>0, <1>w, <2>1 DEF UserInv
  <2>3. \A k \in Kind : \A e \in stored'[k] : e \in stored[k] \/ e = user[t].e
    BY <1>1, <1>t DEF Store
  <2>4. \A k \in Kind : \A e \in stored'[k] : <<e, k>> \notin uploads
    BY <1>0, <2>2, <2>3
  <2> QED
    BY <1>0, <2>1, <2>4
<1>2. ASSUME NEW t \in world.threads, Send(t)
      PROVE  PlaceInv'
  <2>1. user[t].at # "idle" /\ UNCHANGED <<stored, rx, uploads, http>>
    BY <1>2 DEF Send
  <2>2. rx.e # user[t].e
    BY <1>0, <1>w, <2>1 DEF UserInv
  <2>3. \A e \in asked' : e \in asked \/ e = user[t].e
    BY <1>2 DEF Send, awaiting
  <2> QED
    BY <1>0, <2>1, <2>2, <2>3
<1>3. ASSUME NEW k \in Kind, DropFile(k)
      PROVE  PlaceInv'
  <2>1. \A j \in Kind : stored'[j] \subseteq stored[j]
    BY <1>3, <1>t DEF DropFile
  <2> QED
    BY <1>0, <1>3, <2>1 DEF DropFile, awaiting
<1>4. ASSUME NEW e \in Event, NEW urls \in world.answers, direct_upload_url(e, urls)
      PROVE  PlaceInv'
  <2>1. rx' = RxIdle \/ (rx'.at = "url" /\ rx'.e = e)
    BY <1>4, HandlingFields DEF direct_upload_url
  <2>2. asked' = asked \ {e} /\ UNCHANGED <<stored, uploads, http>>
    BY <1>4 DEF direct_upload_url
  <2> QED
    BY <1>0, <1>t, <2>1, <2>2
<1>5. ASSUME NEW k \in Kind, NEW cats \in SUBSET Kind, NEW any \in Nat, FileFound(k, cats, any)
      PROVE  PlaceInv'
  <2>1. rx.at = "url" /\ rx'.at = "count" /\ rx'.e = rx.e /\ rx'.k = k /\ rx.e \in stored[k]
    BY <1>0, <1>5 DEF FileFound, TypeOK
  <2>2. UNCHANGED <<stored, asked, uploads, http>>
    BY <1>5 DEF FileFound, files, awaiting
  <2> QED
    BY <1>0, <2>1, <2>2
<1>6. ASSUME NEW cats \in SUBSET Kind, NEW any \in Nat, NothingFound(cats, any)
      PROVE  PlaceInv'
  <2>1. rx' = RxIdle \/ (rx'.at = "url" /\ rx'.e = rx.e)
    BY <1>6, HandlingFields DEF NothingFound
  <2>2. rx.at = "url" /\ UNCHANGED <<stored, asked, uploads, http>>
    BY <1>6 DEF NothingFound, files, awaiting
  <2> QED
    BY <1>0, <1>t, <2>1, <2>2
<1>7. CASE CountUpload
  <2>1. rx.at = "count" /\ rx'.at = "put" /\ rx'.e = rx.e /\ rx'.k = rx.k
    BY <1>0, <1>7 DEF CountUpload, TypeOK
  <2>2. UNCHANGED <<stored, asked, uploads, http>>
    BY <1>7 DEF CountUpload, files, awaiting
  <2> QED
    BY <1>0, <2>1, <2>2
<1>8. CASE Make
  <2>1. rx' = RxIdle \/ (rx'.at = "url" /\ rx'.e = rx.e)
    BY <1>8, HandlingFields DEF Make
  <2>2. rx.at = "put" /\ UNCHANGED <<asked, http>> /\ uploads' = uploads \cup {<<rx.e, rx.k>>}
    BY <1>8 DEF Make, awaiting
  <2>3. \A k \in Kind : \A e \in stored'[k] : e \in stored[k] /\ ~(k = rx.k /\ e = rx.e)
    BY <1>8, <1>t DEF Make
  <2>4. \A k \in Kind : \A e \in stored'[k] : <<e, k>> \notin uploads'
    BY <1>0, <2>2, <2>3
  <2> QED
    BY <1>0, <1>t, <2>1, <2>2, <2>4
<1>9. ASSUME NEW e \in Event, NEW k \in Kind, NEW twice \in world.unresolved,
             Response(e, k, twice)
      PROVE  PlaceInv'
  BY <1>0, <1>9 DEF Response, files, awaiting
<1>10. CASE Uncount \/ ResponseAgain \/ UncountAgain
  <2>1. uploads' \subseteq uploads /\ UNCHANGED <<stored, asked, rx>>
    BY <1>10 DEF Uncount, ResponseAgain, UncountAgain, files, awaiting
  <2>2. HttpIdle.at = "idle"
    BY DEF HttpIdle
  <2>3. [http EXCEPT !.at = "again"].at = "again"
    BY <1>h DEF HttpType
  <2>4. CASE Uncount
    <3>1. http' = [http EXCEPT !.at = "again"] \/ http' = HttpIdle
      BY <2>4 DEF Uncount
    <3> QED
      BY <1>0, <2>1, <2>2, <2>3, <3>1
  <2>5. CASE ResponseAgain \/ UncountAgain
    <3>1. http'.at # "count"
      BY <1>h, <2>2, <2>5 DEF ResponseAgain, UncountAgain, HttpType
    <3> QED
      BY <1>0, <2>1, <3>1
  <2> QED
    BY <1>10, <2>4, <2>5
<1>11. ASSUME \/ \E t \in world.threads :
                    \/ \E carries \in world.files, hidden \in world.hidden :
                          notify_event(t, carries, hidden)
                    \/ TestRoom(t) \/ CaptureFails(t)
              \/ \E a \in acks_ : AckTimeout(a)
              \/ Disconnected \/ Registered \/ stop \/ start \/ UNCHANGED vars
       PROVE  asked' \subseteq asked /\ UNCHANGED <<stored, rx, uploads, http>>
  BY <1>11 DEF notify_event, TestRoom, CaptureFails, AckTimeout, Disconnected, Registered, stop,
     start, vars, files, awaiting
<1>12. ASSUME asked' \subseteq asked, UNCHANGED <<stored, rx, uploads, http>>
       PROVE  PlaceInv'
  BY <1>0, <1>12
<1>13. ASSUME NEW cats \in SUBSET Kind, NEW any \in Nat, UrlStep(cats, any)
       PROVE  PlaceInv'
  BY <1>5, <1>6, <1>13 DEF UrlStep
<1> QED
  BY <1>0, <1>1, <1>2, <1>3, <1>4, <1>7, <1>8, <1>9, <1>10, <1>11, <1>12, <1>13, UrlSteps
     DEF Next, UserNext, SvcNext, RxNext, HttpNext

\* The part of UserInv about one thread.
UserOK(t) ==
    /\ user[t].at = "idle" => user[t] = UserIdle
    /\ user[t].at = "store" => user[t].todo # {}
    /\ user[t].at # "idle" =>
         /\ user[t].e \in Event
         /\ user[t].e \notin asked /\ user[t].e # rx.e /\ user[t].e # expiring.e
         /\ \A a \in acks_ : a.e # user[t].e
         /\ \A u \in Thread : u # t => user[u].e # user[t].e
         /\ \A k \in user[t].todo : user[t].e \notin stored[k]
         /\ \A k \in Kind : <<user[t].e, k>> \notin uploads
         /\ \A k \in Kind : user[t].e \in stored[k] => k \in user[t].need

\* A step that leaves the threads alone and brings none of their events.
LEMMA UserKept ==
    ASSUME UserInv, UNCHANGED user, asked' \subseteq asked,
           \A e \in Event : e = rx'.e => e = rx.e \/ e \in asked,
           \A e \in Event : e = expiring'.e => e = expiring.e \/ \E a \in acks_ : a.e = e,
           acks_' \subseteq acks_,
           \A k \in Kind : stored'[k] \subseteq stored[k],
           \A e \in Event, k \in Kind : <<e, k>> \in uploads' => <<e, k>> \in uploads \/ e = rx.e,
           TypeOK
    PROVE  UserInv'
<1> SUFFICES ASSUME NEW t \in Thread PROVE UserOK(t)'
  BY DEF UserInv, UserOK
<1>1. UserOK(t)
  BY DEF UserInv, UserOK
<1>2. user[t].todo \subseteq Kind
  BY DEF TypeOK
<1>3. CASE user[t].at = "idle"
  BY <1>1, <1>3 DEF UserOK
<1>4. CASE user[t].at # "idle"
  <2>1. user[t].e \in Event
    BY <1>1, <1>4 DEF UserOK
  <2>2. user[t].e \notin asked' /\ user[t].e # rx'.e /\ user[t].e # expiring'.e
    BY <1>1, <1>4, <2>1 DEF UserOK
  <2>3. \A a \in acks_' : a.e # user[t].e
    BY <1>1, <1>4 DEF UserOK
  <2>4. /\ \A k \in user[t].todo : user[t].e \notin stored'[k]
        /\ \A k \in Kind : user[t].e \in stored'[k] => k \in user[t].need
    BY <1>1, <1>2, <1>4 DEF UserOK
  <2>5. \A k \in Kind : <<user[t].e, k>> \notin uploads'
    BY <1>1, <1>4, <2>1 DEF UserOK
  <2> QED
    BY <1>1, <1>4, <2>1, <2>2, <2>3, <2>4, <2>5 DEF UserOK
<1> QED
  BY <1>3, <1>4

LEMMA UserStep == IInv /\ [Next]_vars => UserInv'
<1> SUFFICES ASSUME IInv, [Next]_vars PROVE UserInv'
  OBVIOUS
<1>0. TypeOK /\ IdInv /\ UserInv /\ PlaceInv
  BY DEF IInv
<1>u. \A t \in Thread : UserOK(t)
  BY <1>0 DEF UserInv, UserOK
<1>t. /\ user \in UserType /\ stored \in [Kind -> SUBSET Event]
      /\ None \notin Event /\ __id \in Nat /\ Event \subseteq Int /\ None \in Int
      /\ expiring \in [e : Event \cup {None}, todo : SUBSET Kind] /\ rx.e \in Event \cup {None}
      /\ MaxEvent \in Nat
  BY <1>0, FilesAssumption DEF TypeOK, UserType, Event, None
<1>w. world.threads \subseteq Thread /\ world.events \in 0..MaxEvent
      /\ world.files \subseteq SUBSET Kind
  BY <1>0, WorldFacts DEF TypeOK
<1>s. ASSUME \A t \in Thread : UserOK(t)' PROVE UserInv'
  BY <1>s DEF UserInv, UserOK
<1>1. ASSUME NEW t \in world.threads, NEW carries \in world.files, NEW hidden \in world.hidden,
             notify_event(t, carries, hidden)
      PROVE  UserInv'
  <2> DEFINE n == __id + 1
  <2>1. UNCHANGED <<stored, uploads, asked, acks_, rx, expiring>>
    BY <1>1 DEF notify_event, files, awaiting
  <2>2. n \in Event
    BY <1>1, <1>t, <1>w DEF notify_event, Event
  <2>3. /\ user'[t] = [at |-> "test", e |-> n, todo |-> carries, need |-> {}, hidden |-> hidden]
        /\ \A u \in Thread : u # t => user'[u] = user[u]
    BY <1>1, <1>t, <1>w DEF notify_event, UserType
  <2>4. \A k \in Kind : n \notin stored[k]
    BY <1>0, <1>t DEF IdInv, Known
  <2>5. \A k \in Kind : <<n, k>> \notin uploads
    BY <1>0, <1>t, <2>2 DEF IdInv, Known
  <2>6. n \notin asked /\ n # rx.e /\ n # expiring.e
    BY <1>0, <1>t DEF IdInv, Known
  <2>7. \A a \in acks_ : a.e # n
    BY <1>0, <1>t DEF IdInv, Known
  <2>8. \A u \in Thread : user[u].e # n
    BY <1>0, <1>t DEF IdInv, Known
  <2> HIDE DEF n
  <2>9. UserOK(t)'
    BY <1>w, <2>1, <2>2, <2>3, <2>4, <2>5, <2>6, <2>7, <2>8 DEF UserOK
  <2>10. ASSUME NEW u \in Thread, u # t PROVE UserOK(u)'
    <3>1. UserOK(u) /\ user'[u] = user[u] /\ user'[t].e = n /\ user[u].e # n
      BY <1>u, <2>3, <2>8, <2>10
    <3>2. \A v \in Thread : v # u /\ user[u].at # "idle" => user'[v].e # user[u].e
      BY <1>u, <2>3, <3>1 DEF UserOK
    <3> QED
      BY <2>1, <3>1, <3>2 DEF UserOK
  <2> QED
    BY <1>s, <2>9, <2>10
<1>2. ASSUME NEW t \in world.threads, TestRoom(t) \/ CaptureFails(t)
      PROVE  UserInv'
  <2>1. UNCHANGED <<stored, uploads, asked, acks_, rx, expiring>>
    BY <1>2 DEF TestRoom, CaptureFails, files, awaiting
  <2>2. /\ \A u \in Thread : user'[u].e = user[u].e
        /\ \A u \in Thread : u # t => user'[u] = user[u]
    BY <1>2, <1>t, <1>w DEF TestRoom, CaptureFails, UserType
  <2>3. /\ user[t].at # "idle" /\ user'[t].at # "idle" /\ user'[t].todo \subseteq user[t].todo
        /\ user'[t].need = user[t].need
        /\ user'[t].at = "store" => user'[t].todo # {}
    BY <1>2, <1>t, <1>w DEF TestRoom, CaptureFails, UserType
  <2>4. UserOK(t)'
    BY <1>u, <1>w, <2>1, <2>2, <2>3 DEF UserOK
  <2>5. ASSUME NEW u \in Thread, u # t PROVE UserOK(u)'
    <3>1. UserOK(u) /\ user'[u] = user[u]
      BY <1>u, <2>2, <2>5
    <3> QED
      BY <2>1, <2>2, <3>1 DEF UserOK
  <2> QED
    BY <1>s, <2>4, <2>5
<1>3. ASSUME NEW t \in world.threads, Store(t)
      PROVE  UserInv'
  <2> DEFINE k == First(user[t].todo)
  <2>1. UNCHANGED <<uploads, asked, acks_, rx, expiring>>
    BY <1>3 DEF Store, awaiting
  <2>2. /\ \A u \in Thread : user'[u].e = user[u].e
        /\ \A u \in Thread : u # t => user'[u] = user[u]
    BY <1>3, <1>t, <1>w DEF Store, UserType
  <2>3. /\ user[t].at = "store" /\ user'[t].at = "test" /\ user'[t].todo = user[t].todo \ {k}
        /\ user'[t].need = user[t].need \cup {k}
    BY <1>3, <1>t, <1>w DEF Store, UserType
  <2>4. \A j \in Kind : \A e \in stored'[j] : e \in stored[j] \/ (e = user[t].e /\ j = k)
    BY <1>3, <1>t DEF Store
  <2>5. user[t].todo \subseteq Kind /\ user'[t].todo \subseteq Kind
    BY <1>t, <1>w, <2>3 DEF UserType
  <2> HIDE DEF k
  <2>6. UserOK(t)'
    <3>1. UserOK(t)
      BY <1>u, <1>w
    <3>2. \A j \in user'[t].todo : user[t].e \notin stored'[j]
      BY <2>3, <2>4, <2>5, <3>1 DEF UserOK
    <3>3. \A j \in Kind : user[t].e \in stored'[j] => j \in user'[t].need
      BY <2>3, <2>4, <3>1 DEF UserOK
    <3>4. \A v \in Thread : v # t => user'[v].e # user[t].e
      BY <2>2, <2>3, <3>1 DEF UserOK
    <3> QED
      BY <1>w, <2>1, <2>2, <2>3, <3>1, <3>2, <3>3, <3>4 DEF UserOK
  <2>7. ASSUME NEW u \in Thread, u # t PROVE UserOK(u)'
    <3>1. UserOK(u) /\ user'[u] = user[u] /\ user[u].todo \subseteq Kind
      BY <1>u, <1>t, <2>2, <2>7 DEF UserType
    <3>2. CASE user[u].at = "idle"
      BY <3>1, <3>2 DEF UserOK
    <3>3. CASE user[u].at # "idle"
      <4>1. user[t].e # user[u].e
        BY <1>w, <2>7, <3>1, <3>3 DEF UserOK
      <4>2. \A j \in Kind : user[u].e \in stored'[j] => user[u].e \in stored[j]
        BY <2>4, <4>1
      <4> QED
        BY <2>1, <2>2, <3>1, <4>2 DEF UserOK
    <3> QED
      BY <3>2, <3>3
  <2> QED
    BY <1>s, <2>6, <2>7
<1>4. ASSUME NEW t \in world.threads, Send(t)
      PROVE  UserInv'
  <2>1. UNCHANGED <<stored, uploads, rx, expiring>>
    BY <1>4 DEF Send
  <2>2. user'[t] = UserIdle /\ \A u \in Thread : u # t => user'[u] = user[u]
    BY <1>4, <1>t, <1>w DEF Send, UserType
  <2>3. \A e \in asked' : e \in asked \/ e = user[t].e
    BY <1>4 DEF Send, awaiting
  <2>4. \A a \in acks_' : a \in acks_ \/ a.e = user[t].e
    BY <1>4 DEF Send, awaiting
  <2>5. UserOK(t)'
    BY <2>2 DEF UserOK, UserIdle
  <2>6. ASSUME NEW u \in Thread, u # t PROVE UserOK(u)'
    <3>1. UserOK(u) /\ user'[u] = user[u]
      BY <1>u, <2>2, <2>6
    <3>2. CASE user[u].at = "idle"
      BY <3>1, <3>2 DEF UserOK
    <3>3. CASE user[u].at # "idle"
      <4>1. user[t].e # user[u].e
        BY <1>w, <2>6, <3>1, <3>3 DEF UserOK
      <4>2. user[u].e \notin asked' /\ \A a \in acks_' : a.e # user[u].e
        BY <2>3, <2>4, <3>1, <3>3, <4>1 DEF UserOK
      <4>3. \A v \in Thread : v # u => user'[v].e # user[u].e
        BY <1>t, <2>2, <3>1, <3>3 DEF UserOK, UserIdle
      <4> QED
        BY <2>1, <3>1, <4>2, <4>3 DEF UserOK
    <3> QED
      BY <3>2, <3>3
  <2> QED
    BY <1>s, <2>5, <2>6
<1>5. ASSUME NEW a \in acks_, AckTimeout(a)
      PROVE  UserInv'
  <2>1. UNCHANGED <<user, stored, asked, rx, uploads>> /\ acks_' \subseteq acks_
        /\ expiring'.e = a.e
    BY <1>5 DEF AckTimeout, files
  <2> QED
    BY <1>0, <2>1, UserKept
<1>6. ASSUME NEW k \in Kind, DropFile(k)
      PROVE  UserInv'
  <2>1. \A j \in Kind : stored'[j] \subseteq stored[j]
    BY <1>6, <1>t DEF DropFile
  <2>2. expiring'.e = expiring.e \/ expiring'.e = None
    BY <1>t, <1>6 DEF DropFile, NoExpiry
  <2>3. UNCHANGED <<user, asked, acks_, rx, uploads>>
    BY <1>6 DEF DropFile, awaiting
  <2> QED
    BY <1>0, <1>t, <2>1, <2>2, <2>3, UserKept
<1>7. ASSUME Disconnected \/ Registered \/ stop \/ start \/ UNCHANGED vars
      PROVE  UserInv'
  <2>1. /\ UNCHANGED <<user, stored, rx, expiring, uploads>>
        /\ asked' \subseteq asked /\ acks_' \subseteq acks_
    BY <1>7 DEF Disconnected, Registered, stop, start, vars, files, awaiting
  <2> QED
    BY <1>0, <2>1, UserKept
<1>8. ASSUME NEW e \in Event, NEW urls \in world.answers, direct_upload_url(e, urls)
      PROVE  UserInv'
  <2>1. rx'.e = e \/ rx'.e = None
    BY <1>8, HandlingFields DEF direct_upload_url, RxIdle
  <2>2. /\ UNCHANGED <<user, stored, expiring, uploads>> /\ e \in asked
        /\ asked' \subseteq asked /\ acks_' \subseteq acks_
    BY <1>8 DEF direct_upload_url
  <2> QED
    BY <1>0, <1>t, <2>1, <2>2, UserKept
<1>9. ASSUME NEW cats \in SUBSET Kind, NEW any \in Nat, UrlStep(cats, any)
      PROVE  UserInv'
  <2>1. /\ rx'.e = rx.e \/ rx'.e = None
        /\ UNCHANGED <<user, stored, uploads, asked, acks_, expiring>>
    BY <1>0, <1>9, UrlFrame DEF files, awaiting, RxIdle
  <2> QED
    BY <1>0, <1>t, <2>1, UserKept
<1>10. CASE CountUpload
  <2>1. /\ rx'.e = rx.e
        /\ UNCHANGED <<user, stored, uploads, asked, acks_, expiring>>
    BY <1>0, <1>10 DEF CountUpload, files, awaiting, TypeOK
  <2> QED
    BY <1>0, <2>1, UserKept
<1>11. CASE Make
  <2>1. rx'.e = rx.e \/ rx'.e = None
    BY <1>11, HandlingFields DEF Make, RxIdle
  <2>2. \A j \in Kind : stored'[j] \subseteq stored[j]
    BY <1>11, <1>t DEF Make
  <2>3. \A e \in Event, k \in Kind : <<e, k>> \in uploads' => <<e, k>> \in uploads \/ e = rx.e
    BY <1>11 DEF Make
  <2>4. UNCHANGED <<user, asked, acks_, expiring>>
    BY <1>11 DEF Make, awaiting
  <2> QED
    BY <1>0, <1>t, <2>1, <2>2, <2>3, <2>4, UserKept
<1>12. CASE HttpNext
  <2>1. /\ UNCHANGED <<user, stored, asked, acks_, rx, expiring>> /\ uploads' \subseteq uploads
    BY <1>12 DEF HttpNext, Response, Uncount,
     ResponseAgain, UncountAgain, files, awaiting
  <2> QED
    BY <1>0, <2>1, UserKept
<1> QED
  BY <1>0, <1>1, <1>2, <1>3, <1>4, <1>5, <1>6, <1>7, <1>8, <1>9, <1>10, <1>11, <1>12,
     UrlSteps DEF Next, UserNext, SvcNext, RxNext

\* What RxInv says of one kind of file.
Fetched(k) ==
    \/ ~Left(k)
    \/ <<rx.e, k>> \in kept
    \/ expiring.e = rx.e /\ k \in expiring.todo
    \/ Coming(k)

\* A step that leaves the answer alone, drops no claim and stores no file of it.
LEMMA RxKept ==
    ASSUME RxInv, rx' = rx, kept \subseteq kept',
           expiring' = expiring \/ expiring.todo = {},
           rx.at # "idle" => \A k \in Kind : rx.e \in stored'[k] => rx.e \in stored[k]
    PROVE  RxInv'
<1> SUFFICES ASSUME rx.at # "idle", NEW k \in Kind PROVE Fetched(k)'
  BY DEF RxInv, Fetched
<1>1. Fetched(k)
  BY DEF RxInv, Fetched
<1>2. \A j \in Kind : Left(j)' => Left(j)
  BY DEF Left
<1>3. "snapshot" \in Kind
  BY DEF Kind
<1>4. Coming(k) => Coming(k)'
  BY <1>2, <1>3 DEF Coming
<1> QED
  BY <1>1, <1>2, <1>4 DEF Fetched

LEMMA RxStep == IInv /\ [Next]_vars => RxInv'
<1> SUFFICES ASSUME IInv, [Next]_vars PROVE RxInv'
  OBVIOUS
<1>0. TypeOK /\ UserInv /\ PlaceInv /\ RxInv
  BY DEF IInv
<1>t. /\ stored \in [Kind -> SUBSET Event] /\ rx \in RxType
      /\ expiring \in [e : Event \cup {None}, todo : SUBSET Kind]
  BY <1>0 DEF TypeOK, RxType
<1>w. world.threads \subseteq Thread /\ world.answers \subseteq Urls
  BY <1>0, WorldFacts DEF TypeOK
<1>k. "snapshot" \in Kind /\ "meta" \in Kind /\ \A k \in Kind : k = "snapshot" \/ k = "meta"
  BY DEF Kind
<1>s. ASSUME rx'.at # "idle" => \A k \in Kind : Fetched(k)' PROVE RxInv'
  BY <1>s DEF RxInv, Fetched
<1>1. ASSUME NEW t \in world.threads, Store(t)
      PROVE  RxInv'
  <2>1. rx' = rx /\ kept' = kept /\ expiring' = expiring /\ user[t].at = "store"
    BY <1>1 DEF Store
  <2>2. rx.e # user[t].e
    BY <1>0, <1>w, <2>1 DEF UserInv
  <2>3. \A j \in Kind : \A e \in stored'[j] : e \in stored[j] \/ e = user[t].e
    BY <1>1, <1>t DEF Store
  <2> QED
    BY <1>0, <2>1, <2>2, <2>3, RxKept
<1>2. ASSUME NEW t \in world.threads, Send(t)
      PROVE  RxInv'
  <2>1. rx' = rx /\ kept \subseteq kept' /\ expiring' = expiring /\ stored' = stored
    BY <1>2 DEF Send
  <2> QED
    BY <1>0, <2>1, RxKept
<1>3. ASSUME NEW a \in acks_, AckTimeout(a)
      PROVE  RxInv'
  <2>1. rx' = rx /\ kept' = kept /\ expiring.todo = {} /\ stored' = stored
    BY <1>3 DEF AckTimeout, NoExpiry, files
  <2> QED
    BY <1>0, <2>1, RxKept
<1>4. ASSUME NEW k \in Kind, DropFile(k)
      PROVE  RxInv'
  <2>1. rx' = rx /\ kept' = kept
    BY <1>4 DEF DropFile
  <2>2. \A j \in Kind : stored'[j] = IF j = k THEN stored[j] \ {expiring.e} ELSE stored[j]
    BY <1>4, <1>t DEF DropFile
  <2>3. \A j \in Kind : j \in expiring.todo /\ j # k
                          => expiring'.e = expiring.e /\ j \in expiring'.todo
    BY <1>4, <1>t DEF DropFile
  <2>4. ASSUME rx.at # "idle", NEW j \in Kind PROVE Fetched(j)'
    <3>1. Fetched(j)
      BY <1>0, <2>4 DEF RxInv, Fetched
    <3>2. \A i \in Kind : Left(i)' => Left(i)
      BY <2>1, <2>2 DEF Left
    <3>3. Coming(j) => Coming(j)'
      BY <1>k, <2>1, <3>2 DEF Coming
    <3>4. CASE expiring.e = rx.e /\ j \in expiring.todo
      <4>1. CASE j = k
        BY <2>1, <2>2, <3>4, <4>1 DEF Fetched, Left
      <4>2. CASE j # k
        BY <2>1, <2>3, <3>4, <4>2 DEF Fetched
      <4> QED
        BY <4>1, <4>2
    <3> QED
      BY <2>1, <3>1, <3>2, <3>3, <3>4 DEF Fetched
  <2> QED
    BY <1>s, <2>1, <2>4
<1>5. ASSUME NEW e \in Event, NEW urls \in world.answers, direct_upload_url(e, urls)
      PROVE  RxInv'
  <2>1. \/ rx' = RxIdle
        \/ rx'.at = "url" /\ rx'.e = e /\ rx'.cats = urls.cats /\ rx'.any = urls.any
    BY <1>5, HandlingFields DEF direct_upload_url
  <2>2. kept' = kept \cup ({e} \X (Kind \ Granted(e, urls))) /\ stored' = stored
    BY <1>5 DEF direct_upload_url
  <2>3. urls.cats \subseteq Kind /\ urls.any \in Nat
    BY <1>w DEF Urls
  <2>4. ASSUME rx'.at # "idle", NEW k \in Kind PROVE Fetched(k)'
    <3>1. rx'.at = "url" /\ rx'.e = e /\ rx'.cats = urls.cats /\ rx'.any = urls.any
      BY <2>1, <2>4 DEF RxIdle
    <3>2. CASE k \notin Granted(e, urls)
      BY <2>2, <3>1, <3>2 DEF Fetched
    <3>3. CASE k \in Granted(e, urls)
      BY <2>2, <2>3, <3>1, <3>3 DEF Granted, Fetched, Coming, Left
    <3> QED
      BY <3>2, <3>3
  <2> QED
    BY <1>s, <2>4
<1>6. ASSUME NEW k \in Kind, Categorised(k)
      PROVE  RxInv'
  <2>1. /\ rx.at = "url" /\ k \in rx.cats /\ rx.any \in Nat
        /\ UNCHANGED <<stored, kept, expiring>>
    BY <1>6, <1>t DEF Categorised, FileFound, NothingFound, files, RxType
  <2>2. CASE FileFound(k, rx.cats \ {k}, rx.any)
    <3>1. /\ rx'.at = "count" /\ rx'.k = k /\ rx'.e = rx.e
          /\ rx'.cats = rx.cats \ {k} /\ rx'.any = rx.any
      BY <1>t, <2>2 DEF FileFound, RxType
    <3>2. ASSUME NEW j \in Kind PROVE Fetched(j)'
      <4>1. Fetched(j)
        BY <1>0, <2>1 DEF RxInv, Fetched
      <4>2. CASE j = k
        BY <3>1, <4>2 DEF Fetched, Left
      <4>3. CASE j # k
        BY <1>k, <2>1, <3>1, <4>1, <4>3 DEF Fetched, Left, Coming
      <4> QED
        BY <4>2, <4>3
    <3> QED
      BY <1>s, <3>2
  <2>3. CASE rx.e \notin stored[k] /\ NothingFound(rx.cats \ {k}, rx.any)
    <3>1. \/ rx' = RxIdle
          \/ /\ rx'.at = "url" /\ rx'.e = rx.e
             /\ rx'.cats = rx.cats \ {k} /\ rx'.any = rx.any
      BY <2>3, HandlingFields DEF NothingFound
    <3>2. ASSUME rx'.at # "idle", NEW j \in Kind PROVE Fetched(j)'
      <4>0. /\ rx'.at = "url" /\ rx'.e = rx.e
            /\ rx'.cats = rx.cats \ {k} /\ rx'.any = rx.any
        BY <3>1, <3>2 DEF RxIdle
      <4>1. Fetched(j)
        BY <1>0, <2>1 DEF RxInv, Fetched
      <4>2. CASE j = k
        BY <2>1, <2>3, <4>0, <4>2 DEF Fetched, Left
      <4>3. CASE j # k
        BY <1>k, <2>1, <4>0, <4>1, <4>3 DEF Fetched, Left, Coming
      <4> QED
        BY <4>2, <4>3
    <3> QED
      BY <1>s, <3>2
  <2> QED
    BY <1>6, <2>2, <2>3 DEF Categorised
<1>7. CASE Uncategorised
  <2>1. /\ rx.at = "url" /\ rx.any \in Nat /\ rx.any > 0
        /\ UNCHANGED <<stored, kept, expiring>>
    BY <1>7, <1>t DEF Uncategorised, FileFound, NothingFound, files, RxType
  <2>f. \A j \in Kind : Fetched(j)
    BY <1>0, <2>1 DEF RxInv, Fetched
  <2>2. CASE FileFound("snapshot", rx.cats, rx.any - 1)
    <3>1. /\ rx'.at = "count" /\ rx'.k = "snapshot" /\ rx'.e = rx.e
          /\ rx'.cats = rx.cats /\ rx'.any = rx.any - 1 /\ rx.e \in stored["snapshot"]
      BY <1>t, <2>2 DEF FileFound, RxType
    <3>2. Fetched("snapshot")'
      BY <3>1 DEF Fetched, Left
    <3>3. Fetched("meta")'
      BY <1>k, <2>1, <2>f, <3>1 DEF Fetched, Left, Coming
    <3> QED
      BY <1>s, <1>k, <3>2, <3>3
  <2>3. CASE rx.e \notin stored["snapshot"] /\ FileFound("meta", rx.cats, rx.any - 1)
    <3>1. rx'.at = "count" /\ rx'.k = "meta" /\ rx'.e = rx.e
      BY <1>t, <2>3 DEF FileFound, RxType
    <3>2. Fetched("snapshot")' /\ Fetched("meta")'
      BY <2>1, <2>3, <3>1 DEF Fetched, Left
    <3> QED
      BY <1>s, <1>k, <3>2
  <2>4. CASE /\ rx.e \notin stored["snapshot"] \cup stored["meta"]
             /\ NothingFound(rx.cats, rx.any - 1)
    <3>1. rx' = RxIdle \/ (rx'.at = "url" /\ rx'.e = rx.e)
      BY <2>4, HandlingFields DEF NothingFound
    <3>2. ASSUME rx'.at # "idle" PROVE Fetched("snapshot")' /\ Fetched("meta")'
      <4>1. rx'.at = "url" /\ rx'.e = rx.e
        BY <3>1, <3>2 DEF RxIdle
      <4> QED
        BY <2>1, <2>4, <4>1 DEF Fetched, Left
    <3> QED
      BY <1>s, <1>k, <3>2
  <2> QED
    BY <1>7, <2>2, <2>3, <2>4 DEF Uncategorised
<1>8. CASE CountUpload
  <2>1. /\ rx.at = "count" /\ rx'.at = "put" /\ rx'.k = rx.k /\ rx'.e = rx.e
        /\ rx'.cats = rx.cats /\ rx'.any = rx.any
    BY <1>t, <1>8 DEF CountUpload, RxType
  <2>2. UNCHANGED <<stored, kept, expiring>>
    BY <1>8 DEF CountUpload, files
  <2>3. ASSUME NEW j \in Kind PROVE Fetched(j)'
    <3>1. Fetched(j)
      BY <1>0, <2>1 DEF RxInv, Fetched
    <3> QED
      BY <2>1, <2>2, <3>1 DEF Fetched, Left, Coming
  <2> QED
    BY <1>s, <2>3
<1>9. CASE Make
  <2>1. /\ rx.at = "put" /\ rx.k \in Kind /\ UNCHANGED <<kept, expiring>>
        /\ \/ rx' = RxIdle
           \/ /\ rx'.at = "url" /\ rx'.e = rx.e
              /\ rx'.cats = rx.cats /\ rx'.any = rx.any
    BY <1>t, <1>9, HandlingFields DEF Make, RxType
  <2>2. \A j \in Kind : stored'[j] = IF j = rx.k THEN stored[j] \ {rx.e} ELSE stored[j]
    BY <1>t, <1>9 DEF Make
  <2>3. ASSUME rx'.at # "idle", NEW j \in Kind PROVE Fetched(j)'
    <3>0. /\ rx'.at = "url" /\ rx'.e = rx.e
          /\ rx'.cats = rx.cats /\ rx'.any = rx.any
      BY <2>1, <2>3 DEF RxIdle
    <3>1. Fetched(j)
      BY <1>0, <2>1 DEF RxInv, Fetched
    <3>2. \A i \in Kind : Left(i)' => Left(i)
      BY <2>1, <2>2, <3>0 DEF Left
    <3>3. Coming(j) => Coming(j)'
      BY <1>k, <3>0, <3>2 DEF Coming
    <3> QED
      BY <2>1, <3>0, <3>1, <3>2, <3>3 DEF Fetched
  <2> QED
    BY <1>s, <2>3
<1>10. CASE stop
  BY <1>10 DEF stop, RxInv, RxIdle
<1>11. ASSUME \/ \E t \in world.threads :
                    \/ \E carries \in world.files, hidden \in world.hidden :
                          notify_event(t, carries, hidden)
                    \/ TestRoom(t) \/ CaptureFails(t)
              \/ Disconnected \/ Registered \/ start \/ HttpNext \/ UNCHANGED vars
       PROVE  UNCHANGED <<rx, kept, stored, expiring>>
  BY <1>11 DEF notify_event, TestRoom, CaptureFails, Disconnected, Registered, start, HttpNext,
     Response, Uncount,
     ResponseAgain, UncountAgain, vars, files
<1>12. ASSUME UNCHANGED <<rx, kept, stored, expiring>> PROVE RxInv'
  BY <1>0, <1>12, RxKept
<1> QED
  BY <1>1, <1>2, <1>3, <1>4, <1>5, <1>6, <1>7, <1>8, <1>9, <1>10, <1>11, <1>12
     DEF Next, UserNext, SvcNext, RxNext

\* What FilesAwaited says of one file.
Awaited(e, k) ==
    \/ <<e, k>> \in kept
    \/ \E a \in acks_ : a.e = e /\ k \in a.need
    \/ expiring.e = e /\ k \in expiring.todo
    \/ e = rx.e
    \/ \E t \in Thread : user[t].e = e

LEMMA AwaitedStep == IInv /\ [Next]_vars => FilesAwaited'
<1> SUFFICES ASSUME IInv, [Next]_vars, NEW k \in Kind, NEW e \in stored'[k]
             PROVE  Awaited(e, k)'
  BY DEF FilesAwaited, Awaited
<1>0. TypeOK /\ UserInv /\ PlaceInv /\ RxInv /\ ExpiryInv
  BY DEF IInv
<1>t. /\ stored \in [Kind -> SUBSET Event] /\ rx \in RxType /\ user \in UserType
      /\ expiring \in [e : Event \cup {None}, todo : SUBSET Kind]
      /\ None \notin Event
  BY <1>0, FilesAssumption DEF TypeOK, RxType, UserType, Event, None
<1>w. world.threads \subseteq Thread /\ world.answers \subseteq Urls
  BY <1>0, WorldFacts DEF TypeOK
<1>e. e \in Event
  BY TypeStep DEF TypeOK
<1>a. e \in stored[k] => Awaited(e, k)
  BY DEF IInv, FilesAwaited, Awaited
<1>1. ASSUME NEW t \in world.threads, NEW carries, NEW hidden, notify_event(t, carries, hidden)
      PROVE  Awaited(e, k)'
  <2>1. UNCHANGED <<stored, kept, acks_, expiring, rx>> /\ user[t].e = None
    BY <1>1 DEF notify_event, files, awaiting, UserIdle
  <2>2. \A u \in Thread : u # t => user'[u] = user[u]
    BY <1>1, <1>t DEF notify_event, UserType
  <2>3. ASSUME NEW u \in Thread, user[u].e = e PROVE user'[u].e = e
    BY <1>t, <1>e, <2>1, <2>2, <2>3
  <2> QED
    BY <1>a, <2>1, <2>3 DEF Awaited
<1>2. ASSUME NEW t \in world.threads, TestRoom(t) \/ CaptureFails(t)
      PROVE  Awaited(e, k)'
  <2>1. UNCHANGED <<stored, kept, acks_, expiring, rx>>
    BY <1>2 DEF TestRoom, CaptureFails, files, awaiting
  <2>2. \A u \in Thread : user'[u].e = user[u].e
    BY <1>2, <1>t, <1>w DEF TestRoom, CaptureFails, UserType
  <2> QED
    BY <1>a, <2>1, <2>2 DEF Awaited
<1>3. ASSUME NEW t \in world.threads, Store(t)
      PROVE  Awaited(e, k)'
  <2>1. UNCHANGED <<kept, acks_, expiring, rx>>
    BY <1>3 DEF Store, awaiting
  <2>2. \A u \in Thread : user'[u].e = user[u].e
    BY <1>3, <1>t, <1>w DEF Store, UserType
  <2>3. e \in stored[k] \/ e = user[t].e
    BY <1>3, <1>t DEF Store
  <2> QED
    BY <1>a, <1>w, <2>1, <2>2, <2>3 DEF Awaited
<1>4. ASSUME NEW t \in world.threads, Send(t)
      PROVE  Awaited(e, k)'
  <2>1. UNCHANGED <<stored, expiring, rx>> /\ kept \subseteq kept' /\ acks_ \subseteq acks_'
    BY <1>4 DEF Send, awaiting
  <2>2. \A u \in Thread : u # t => user'[u] = user[u]
    BY <1>4, <1>t DEF Send, UserType
  <2>3. CASE e = user[t].e
    <3>1. k \in user[t].need
      BY <1>0, <1>4, <1>w, <2>1, <2>3 DEF UserInv, Send
    <3>2. \/ <<e, k>> \in kept'
          \/ [e |-> e, need |-> user[t].need] \in acks_'
      BY <1>4, <2>3, <3>1 DEF Send
    <3> QED
      BY <3>1, <3>2 DEF Awaited
  <2>4. CASE e # user[t].e
    BY <1>a, <2>1, <2>2, <2>4 DEF Awaited
  <2> QED
    BY <2>3, <2>4
<1>5. ASSUME NEW a \in acks_, AckTimeout(a)
      PROVE  Awaited(e, k)'
  <2>1. /\ UNCHANGED <<stored, kept, rx, user>> /\ expiring.todo = {}
        /\ acks_' = acks_ \ {a} /\ expiring'.e = a.e /\ expiring'.todo = a.need
    BY <1>5 DEF AckTimeout, NoExpiry, files
  <2> QED
    BY <1>a, <2>1 DEF Awaited
<1>6. ASSUME NEW j \in Kind, DropFile(j)
      PROVE  Awaited(e, k)'
  <2>1. UNCHANGED <<kept, acks_, rx, user>>
    BY <1>6 DEF DropFile, awaiting
  <2>2. e \in stored[k] /\ ~(k = j /\ e = expiring.e)
    BY <1>6, <1>t DEF DropFile
  <2>3. k \in expiring.todo /\ k # j => expiring'.e = expiring.e /\ k \in expiring'.todo
    BY <1>6, <1>t DEF DropFile
  <2> QED
    BY <1>a, <2>1, <2>2, <2>3 DEF Awaited
<1>7. CASE stop
  <2>1. /\ UNCHANGED <<stored, expiring, rx, user>>
        /\ kept' = kept \cup UNION {{a.e} \X a.need : a \in acks_}
    BY <1>7 DEF stop
  <2>2. \A a \in acks_ : a.e = e /\ k \in a.need => <<e, k>> \in kept'
    BY <2>1
  <2> QED
    BY <1>a, <2>1, <2>2 DEF Awaited
<1>8. ASSUME NEW f \in Event, NEW urls \in world.answers, direct_upload_url(f, urls)
      PROVE  Awaited(e, k)'
  <2>1. /\ UNCHANGED <<stored, expiring, user>> /\ rx.e = None
        /\ acks_' = {a \in acks_ : a.e # f}
        /\ kept' = kept \cup ({f} \X (Kind \ Granted(f, urls)))
        /\ rx' = Handling(f, urls.cats, urls.any)
    BY <1>8 DEF direct_upload_url, RxIdle
  <2>2. CASE e = f
    <3>1. CASE rx'.e = f
      BY <2>2, <3>1 DEF Awaited
    <3>2. CASE urls.cats = {} /\ urls.any = 0
      <4>1. Granted(f, urls) = {}
        BY <3>2 DEF Granted
      <4> QED
        BY <2>1, <2>2, <4>1 DEF Awaited
    <3> QED
      BY <2>1, <3>1, <3>2, HandlingFields
  <2>3. CASE e # f
    BY <1>a, <1>e, <1>t, <2>1, <2>3 DEF Awaited
  <2> QED
    BY <2>2, <2>3
<1>s. ASSUME UNCHANGED <<kept, acks_, expiring, user>>, e \in stored[k],
             \/ rx'.e = rx.e
             \/ e # rx.e
             \/ <<rx.e, k>> \in kept
             \/ expiring.e = rx.e /\ k \in expiring.todo
      PROVE  Awaited(e, k)'
  BY <1>a, <1>s DEF Awaited
<1>9. ASSUME NEW j \in Kind, Categorised(j)
      PROVE  Awaited(e, k)'
  <2>1. /\ rx.at = "url" /\ j \in rx.cats /\ rx.any \in Nat
        /\ UNCHANGED <<stored, kept, acks_, expiring, user>>
    BY <1>9, <1>t DEF Categorised, FileFound, NothingFound, files, awaiting, RxType
  <2>2. CASE FileFound(j, rx.cats \ {j}, rx.any)
    <3>1. rx'.e = rx.e
      BY <1>t, <2>2 DEF FileFound, RxType
    <3> QED
      BY <1>s, <2>1, <3>1
  <2>3. CASE rx.e \notin stored[j] /\ NothingFound(rx.cats \ {j}, rx.any)
    <3>1. rx'.e = rx.e \/ (rx.cats \ {j} = {} /\ rx.any = 0)
      BY <2>3, HandlingFields DEF NothingFound
    <3>2. ASSUME rx.cats \ {j} = {} /\ rx.any = 0, e = rx.e
          PROVE  <<rx.e, k>> \in kept \/ (expiring.e = rx.e /\ k \in expiring.todo)
      <4>1. k # j /\ Left(k)
        BY <2>1, <2>3, <3>2 DEF Left
      <4>2. ~Coming(k)
        BY <3>2, <4>1 DEF Coming
      <4> QED
        BY <1>0, <2>1, <4>1, <4>2 DEF RxInv
    <3> QED
      BY <1>s, <2>1, <3>1, <3>2
  <2> QED
    BY <1>9, <2>2, <2>3 DEF Categorised
<1>10. CASE Uncategorised
  <2>1. UNCHANGED <<stored, kept, acks_, expiring, user>>
    BY <1>10 DEF Uncategorised, FileFound, NothingFound, files, awaiting
  <2>2. ASSUME NEW j \in Kind, NEW cats, NEW any, FileFound(j, cats, any)
        PROVE  rx'.e = rx.e
    BY <1>t, <2>2 DEF FileFound, RxType
  <2>3. rx'.e = rx.e \/ rx.e \notin stored["snapshot"] \cup stored["meta"]
    BY <1>10, <2>2 DEF Uncategorised, Kind
  <2>4. rx'.e = rx.e \/ e # rx.e
    BY <2>1, <2>3 DEF Kind
  <2> QED
    BY <1>s, <2>1, <2>4
<1>11. CASE CountUpload
  <2>1. rx'.e = rx.e /\ UNCHANGED <<stored, kept, acks_, expiring, user>>
    BY <1>11, <1>t DEF CountUpload, RxType, files, awaiting
  <2> QED
    BY <1>s, <2>1
<1>12. CASE Make
  <2>1. rx.at = "put" /\ rx.k \in Kind /\ UNCHANGED <<kept, acks_, expiring, user>>
    BY <1>12, <1>t DEF Make, awaiting, RxType
  <2>2. e \in stored[k] /\ ~(k = rx.k /\ e = rx.e)
    BY <1>12, <1>t, <2>1 DEF Make
  <2>3. rx'.e = rx.e \/ (rx.cats = {} /\ rx.any = 0)
    BY <1>12, HandlingFields DEF Make
  <2>4. ASSUME rx.cats = {} /\ rx.any = 0, e = rx.e
        PROVE  <<rx.e, k>> \in kept \/ (expiring.e = rx.e /\ k \in expiring.todo)
    <3>1. Left(k) /\ ~Coming(k)
      BY <2>2, <2>4 DEF Left, Coming
    <3> QED
      BY <1>0, <2>1, <3>1 DEF RxInv
  <2> QED
    BY <1>s, <2>1, <2>2, <2>3, <2>4
<1>13. ASSUME Disconnected \/ Registered \/ start \/ HttpNext \/ UNCHANGED vars
       PROVE  Awaited(e, k)'
  <2>1. UNCHANGED <<rx, stored, kept, acks_, expiring, user>>
    BY <1>13 DEF Disconnected, Registered, start, HttpNext, Response, Uncount,
     ResponseAgain, UncountAgain, vars, files,
       awaiting
  <2> QED
    BY <1>s, <2>1
<1> QED
  BY <1>1, <1>2, <1>3, <1>4, <1>5, <1>6, <1>7, <1>8, <1>9, <1>10, <1>11, <1>12, <1>13
     DEF Next, UserNext, SvcNext, RxNext

-----------------------------------------------------------------------------
\* Counting events.
LEMMA EventSets ==
    ASSUME NEW S \in SUBSET Event
    PROVE  IsFiniteSet(S) /\ Cardinality(S) \in Nat
<1>1. IsFiniteSet(Event)
  BY FilesAssumption, FS_Interval DEF Event
<1> QED
  BY <1>1, FS_Subset, FS_CardinalityType

LEMMA HeldIsEvents ==
    ASSUME TypeOK, PlaceInv, NEW k \in Kind
    PROVE  /\ stored[k] \subseteq Event /\ Uploads(k) \subseteq Event
           /\ Moving(k) \subseteq Event /\ Held(k) \subseteq Event
BY DEF TypeOK, PlaceInv, Uploads, Moving, Held

LEMMA StoringThreads ==
    ASSUME TypeOK, NEW k \in Kind
    PROVE  /\ Storing(k) \subseteq world.threads
           /\ IsFiniteSet(world.threads) /\ IsFiniteSet(Storing(k))
           /\ Cardinality(world.threads) \in Nat /\ Cardinality(Storing(k)) \in Nat
           /\ Cardinality(Storing(k)) <= Cardinality(world.threads)
<1>1. IsFiniteSet(world.threads)
  BY WorldFacts DEF TypeOK
<1>2. Storing(k) \subseteq world.threads
  BY DEF Storing
<1> QED
  BY <1>1, <1>2, FS_Subset, FS_CardinalityType

\* The runs of a kind that are counted are less than the counter can hold.
LEMMA RunningFits ==
    ASSUME TypeOK, NEW k \in Kind
    PROVE  /\ IsFiniteSet(Uploads(k)) /\ Cardinality(Uploads(k)) \in 0..MaxEvent
           /\ Running(k) \in Nat /\ Running(k) <= MaxEvent + 1
<1>1. Uploads(k) \in SUBSET Event
  BY DEF Uploads
<1>2. IsFiniteSet(Event) /\ Cardinality(Event) <= MaxEvent
  <2>1. 1 \in Int /\ MaxEvent \in Int /\ MaxEvent >= 0
    BY FilesAssumption
  <2>2. /\ IsFiniteSet(1..MaxEvent)
        /\ Cardinality(1..MaxEvent) = IF 1 > MaxEvent THEN 0 ELSE MaxEvent - 1 + 1
    BY <2>1, FS_Interval
  <2> QED
    BY <2>1, <2>2 DEF Event
<1>3. IsFiniteSet(Uploads(k)) /\ Cardinality(Uploads(k)) \in Nat
      /\ Cardinality(Uploads(k)) <= Cardinality(Event) /\ Cardinality(Event) \in Nat
  BY <1>1, <1>2, FS_Subset, FS_CardinalityType
<1> QED
  BY <1>2, <1>3, FilesAssumption DEF Running

\* A multiple of the width is no less than its factor.
LEMMA Multiple == ASSUME NEW q \in Nat PROVE q * Wrap \in Nat /\ q <= q * Wrap
<1>1. Wrap \in Nat /\ Wrap >= 1
  BY FilesAssumption
<1>2. Wrap - 1 \in Nat /\ q * (Wrap - 1) \in Nat
  BY <1>1
<1>3. q * Wrap = q * (Wrap - 1) + q
  BY <1>1
<1> QED
  BY <1>2, <1>3

\* The counter after one more and after one less, modulo its width: x are the
\* second answers, n the running uploads.
LEMMA MatchUp ==
    ASSUME NEW n \in 0..MaxEvent, NEW u \in 0..Wrap - 1, NEW x \in Nat, NEW q \in 0..x,
           n + q * Wrap = u + x
    PROVE  \E p \in 0..x : (n + 1) + p * Wrap = Up(u) + x
<1>1. Wrap \in Nat /\ MaxEvent \in Nat /\ MaxEvent + 1 < Wrap /\ q * Wrap \in Nat
  BY Multiple, FilesAssumption
<1>2. CASE u # Wrap - 1
  <2>1. (n + 1) + q * Wrap = Up(u) + x
    BY <1>1, <1>2 DEF Up
  <2> QED
    BY <2>1
<1>3. CASE u = Wrap - 1
  <2>1. q # 0
    <3>1. SUFFICES ASSUME q = 0 PROVE FALSE
      OBVIOUS
    <3>2. q * Wrap = 0
      BY <1>1, <3>1
    <3> QED
      BY <1>1, <1>3, <3>2
  <2>2. q - 1 \in 0..x /\ (q - 1) * Wrap = q * Wrap - Wrap
    BY <1>1, <2>1
  <2>3. (n + 1) + (q - 1) * Wrap = Up(u) + x
    BY <1>1, <1>3, <2>2 DEF Up
  <2> QED
    BY <2>2, <2>3
<1> QED
  BY <1>2, <1>3

LEMMA MatchDown ==
    ASSUME NEW n \in 1..MaxEvent + 1, NEW u \in 0..Wrap - 1, NEW x \in Nat, NEW q \in 0..x,
           n + q * Wrap = u + x
    PROVE  \E p \in 0..x : (n - 1) + p * Wrap = Down(u) + x
<1>1. Wrap \in Nat /\ q * Wrap \in Nat /\ q <= q * Wrap
  BY Multiple, FilesAssumption
<1>2. CASE u # 0
  <2>1. (n - 1) + q * Wrap = Down(u) + x
    BY <1>1, <1>2 DEF Down
  <2> QED
    BY <2>1
<1>3. CASE u = 0
  <2>1. q + 1 \in 0..x /\ (q + 1) * Wrap = q * Wrap + Wrap
    BY <1>1, <1>3
  <2>2. (n - 1) + (q + 1) * Wrap = Down(u) + x
    BY <1>1, <1>3, <2>1 DEF Down
  <2> QED
    BY <2>1, <2>2
<1> QED
  BY <1>2, <1>3

LEMMA MatchAgain ==
    ASSUME NEW n \in Nat, NEW u \in 0..Wrap - 1, NEW x \in Nat, NEW q \in 0..x,
           n + q * Wrap = u + x
    PROVE  \E p \in 0..x + 1 : n + p * Wrap = Down(u) + (x + 1)
<1>1. Wrap \in Nat /\ q * Wrap \in Nat
  BY Multiple, FilesAssumption
<1>2. CASE u # 0
  <2>1. n + q * Wrap = Down(u) + (x + 1) /\ q \in 0..x + 1
    BY <1>1, <1>2 DEF Down
  <2> QED
    BY <2>1
<1>3. CASE u = 0
  <2>1. q + 1 \in 0..x + 1 /\ (q + 1) * Wrap = q * Wrap + Wrap
    BY <1>1, <1>3
  <2>2. n + (q + 1) * Wrap = Down(u) + (x + 1)
    BY <1>1, <1>3, <2>1 DEF Down
  <2> QED
    BY <2>1, <2>2
<1> QED
  BY <1>2, <1>3

\* The counter of a kind, step by step: it moves with the uploads, and once more
\* with a second answer.
LEMMA SlotsStep ==
    IInv /\ [Next]_vars => \A k \in Kind \ torn' : SlotsMatch(k)'
<1> SUFFICES ASSUME IInv, [Next]_vars, NEW k \in Kind \ torn' PROVE SlotsMatch(k)'
  OBVIOUS
<1>0. TypeOK /\ PlaceInv /\ BoundInv
  BY DEF IInv
<1>t. /\ rx \in RxType /\ http \in HttpType /\ uploading \in [Kind -> 0..Wrap - 1]
      /\ uploads \subseteq Event \X Kind /\ again \in [Kind -> Nat]
      /\ rx.at # "idle" => rx.e \in Event
  BY <1>0 DEF TypeOK, RxType, HttpType, PlaceInv
<1>u. /\ IsFiniteSet(Uploads(k)) /\ Cardinality(Uploads(k)) \in 0..MaxEvent
      /\ Running(k) \in Nat
  BY <1>0, RunningFits
<1>x. ASSUME k \notin torn
      PROVE  \E q \in 0..again[k] : Running(k) + q * Wrap = uploading[k] + again[k]
  BY <1>0, <1>x DEF BoundInv, SlotsMatch
<1>s. ASSUME k \notin torn, UNCHANGED <<uploading[k], again[k]>>, Running(k)' = Running(k)
      PROVE  SlotsMatch(k)'
  BY <1>s, <1>x DEF SlotsMatch
<1>r. ASSUME UNCHANGED <<torn, uploading, again, uploads>>,
             (rx'.at = "put" /\ rx'.k = k) <=> (rx.at = "put" /\ rx.k = k)
      PROVE  SlotsMatch(k)'
  <2>1. Uploads(k)' = Uploads(k)
    BY <1>r DEF Uploads
  <2> QED
    BY <1>r, <1>s, <2>1 DEF Running
<1>1. CASE CountUpload
  <2>1. /\ rx.at = "count" /\ rx'.at = "put" /\ rx'.k = rx.k /\ rx.k \in Kind
        /\ uploads' = uploads /\ uploading' = [uploading EXCEPT ![rx.k] = Up(rx.reg)]
        /\ again' = again
        /\ torn' = IF uploading[rx.k] = rx.reg THEN torn ELSE torn \cup {rx.k}
    BY <1>1, <1>t DEF CountUpload, Count, RxType
  <2>2. Uploads(k)' = Uploads(k) /\ k \notin torn
    BY <2>1 DEF Uploads
  <2>3. CASE k = rx.k
    <3>1. /\ uploading'[k] = Up(uploading[k])
          /\ Running(k) = Cardinality(Uploads(k)) /\ Running(k)' = Running(k) + 1
      BY <1>t, <1>u, <2>1, <2>2, <2>3 DEF Running
    <3>2. PICK q \in 0..again[k] : Running(k) + q * Wrap = uploading[k] + again[k]
      BY <1>x, <2>2
    <3>3. \E p \in 0..again[k] : (Running(k) + 1) + p * Wrap = Up(uploading[k]) + again[k]
      BY <1>t, <1>u, <3>1, <3>2, MatchUp
    <3> QED
      BY <2>1, <3>1, <3>3 DEF SlotsMatch
  <2>4. CASE k # rx.k
    BY <1>s, <1>t, <2>1, <2>2, <2>4 DEF Running
  <2> QED
    BY <2>3, <2>4
<1>2. CASE Make
  <2>1. /\ rx.at = "put" /\ rx.k \in Kind /\ rx.e \in Event /\ rx'.at # "put"
        /\ uploads' = uploads \cup {<<rx.e, rx.k>>}
        /\ uploading' = uploading /\ torn' = torn /\ again' = again
    BY <1>2, <1>t, HandlingFields DEF Make, RxType, RxIdle, counters
  <2>3. CASE k = rx.k
    <3>1. Uploads(k)' = Uploads(k) \cup {rx.e} /\ rx.e \notin Uploads(k)
      BY <1>0, <2>1, <2>3 DEF Uploads, PlaceInv
    <3>2. Cardinality(Uploads(k) \cup {rx.e}) = Cardinality(Uploads(k)) + 1
      BY <1>u, <3>1, FS_AddElement
    <3>3. Running(k)' = Running(k)
      BY <1>t, <1>u, <2>1, <2>3, <3>1, <3>2 DEF Running
    <3> QED
      BY <1>s, <2>1, <3>3
  <2>4. CASE k # rx.k
    <3>1. Uploads(k)' = Uploads(k)
      BY <2>1, <2>4 DEF Uploads
    <3> QED
      BY <1>s, <2>1, <2>4, <3>1 DEF Running
  <2> QED
    BY <2>3, <2>4
<1>3. CASE Uncount
  <2>1. /\ http.k \in Kind /\ <<http.e, http.k>> \in uploads
        /\ uploads' = uploads \ {<<http.e, http.k>>} /\ rx' = rx /\ again' = again
        /\ uploading' = [uploading EXCEPT ![http.k] = Down(http.reg)]
        /\ torn' = IF uploading[http.k] = http.reg THEN torn ELSE torn \cup {http.k}
    BY <1>3, <1>t, <1>0 DEF Uncount, Count, HttpType, PlaceInv
  <2>3. CASE k = http.k
    <3>1. uploading'[k] = Down(uploading[k]) /\ k \notin torn
      BY <1>t, <2>1, <2>3
    <3>2. Uploads(k)' = Uploads(k) \ {http.e} /\ http.e \in Uploads(k)
      BY <1>t, <2>1, <2>3 DEF Uploads
    <3>3. Cardinality(Uploads(k) \ {http.e}) = Cardinality(Uploads(k)) - 1
      BY <1>u, <3>2, FS_RemoveElement
    <3>4. Cardinality(Uploads(k)) # 0
      BY <1>u, <3>2, FS_EmptySet
    <3>5. PICK q \in 0..again[k] : Running(k) + q * Wrap = uploading[k] + again[k]
      BY <1>x, <3>1
    <3>6. CASE rx.at = "put" /\ rx.k = k
      <4>1. /\ Running(k) = Cardinality(Uploads(k)) + 1
            /\ Running(k)' = (Cardinality(Uploads(k)) - 1) + 1
        BY <2>1, <3>2, <3>3, <3>6 DEF Running
      <4>2. \E p \in 0..again[k] :
                (Running(k) - 1) + p * Wrap = Down(uploading[k]) + again[k]
        <5>1. Running(k) \in 1..MaxEvent + 1
          BY <1>u, <4>1, FilesAssumption
        <5> QED
          BY <1>t, <3>5, <5>1, MatchDown
      <4> QED
        BY <1>u, <2>1, <3>1, <4>1, <4>2 DEF SlotsMatch
    <3>7. CASE ~(rx.at = "put" /\ rx.k = k)
      <4>1. /\ Running(k) = Cardinality(Uploads(k))
            /\ Running(k)' = Running(k) - 1
        BY <1>u, <2>1, <3>2, <3>3, <3>7 DEF Running
      <4>2. \E p \in 0..again[k] :
                (Running(k) - 1) + p * Wrap = Down(uploading[k]) + again[k]
        <5>1. Running(k) \in 1..MaxEvent + 1
          BY <1>u, <3>4, <4>1, FilesAssumption
        <5> QED
          BY <1>t, <3>5, <5>1, MatchDown
      <4> QED
        BY <2>1, <3>1, <4>1, <4>2 DEF SlotsMatch
    <3> QED
      BY <3>6, <3>7
  <2>4. CASE k # http.k
    <3>1. Uploads(k)' = Uploads(k)
      BY <2>1, <2>4 DEF Uploads
    <3>2. uploading'[k] = uploading[k] /\ k \notin torn
      BY <1>t, <2>1, <2>4
    <3>3. Running(k)' = Running(k)
      BY <2>1, <3>1 DEF Running
    <3> QED
      BY <1>x, <2>1, <3>2, <3>3 DEF SlotsMatch
  <2> QED
    BY <2>3, <2>4
<1>7. CASE UncountAgain
  <2>1. /\ http.k \in Kind /\ uploads' = uploads /\ rx' = rx
        /\ again' = [again EXCEPT ![http.k] = @ + 1]
        /\ uploading' = [uploading EXCEPT ![http.k] = Down(http.reg)]
        /\ torn' = IF uploading[http.k] = http.reg THEN torn ELSE torn \cup {http.k}
    BY <1>7, <1>t DEF UncountAgain, Count, HttpType
  <2>2. Running(k)' = Running(k) /\ k \notin torn
    <3>1. Uploads(k)' = Uploads(k)
      BY <2>1 DEF Uploads
    <3> QED
      BY <2>1, <3>1 DEF Running
  <2>3. CASE k = http.k
    <3>1. uploading'[k] = Down(uploading[k]) /\ again'[k] = again[k] + 1
      BY <1>t, <2>1, <2>3
    <3>2. PICK q \in 0..again[k] : Running(k) + q * Wrap = uploading[k] + again[k]
      BY <1>x, <2>2
    <3>3. \E p \in 0..again[k] + 1 :
              Running(k) + p * Wrap = Down(uploading[k]) + (again[k] + 1)
      BY <1>t, <1>u, <3>2, MatchAgain
    <3> QED
      BY <2>2, <3>1, <3>3 DEF SlotsMatch
  <2>4. CASE k # http.k
    <3>1. uploading'[k] = uploading[k] /\ again'[k] = again[k]
      BY <1>t, <2>1, <2>4
    <3> QED
      BY <1>x, <2>2, <3>1 DEF SlotsMatch
  <2> QED
    BY <2>3, <2>4
<1>4. ASSUME NEW e \in Event, NEW urls \in world.answers, direct_upload_url(e, urls)
      PROVE  SlotsMatch(k)'
  <2>1. UNCHANGED <<torn, uploading, again, uploads>> /\ rx.at = "idle" /\ rx'.at # "put"
    BY <1>4, HandlingFields DEF direct_upload_url, RxIdle, counters
  <2> QED
    BY <1>r, <2>1
<1>5. ASSUME (\E j \in Kind : Categorised(j)) \/ Uncategorised
      PROVE  SlotsMatch(k)'
  <2>1. PICK cats \in SUBSET Kind, any \in Nat : UrlStep(cats, any)
    BY <1>0, <1>5, UrlSteps
  <2>2. rx.at = "url" /\ rx'.at # "put" /\ UNCHANGED <<torn, uploading, again, uploads>>
    BY <1>0, <2>1, UrlFrame DEF RxIdle, counters
  <2> QED
    BY <1>r, <2>2
<1>6. ASSUME \/ UserNext \/ SvcNext
             \/ \E e \in Event, j \in Kind, twice \in world.unresolved :
                    Response(e, j, twice)
             \/ ResponseAgain \/ UNCHANGED vars
      PROVE  SlotsMatch(k)'
  <2>1. UNCHANGED <<torn, uploading, again, uploads, rx>>
    BY <1>6 DEF UserNext, notify_event, TestRoom, Store, CaptureFails, Send, SvcNext, AckTimeout,
       DropFile, Disconnected, Registered, stop, start, Response, ResponseAgain, vars, counters
  <2> QED
    BY <1>r, <2>1
<1> QED
  BY <1>1, <1>2, <1>3, <1>4, <1>5, <1>6, <1>7 DEF Next, RxNext, HttpNext

\* A kind of which no more files are held, and none is about to be stored that
\* was not before.
Bounded(k) ==
    Cardinality(Held(k)) + Cardinality(Storing(k))
      <= 2 * MaxFiles[k] + Cardinality(world.threads) + again[k]

LEMMA BoundKept ==
    ASSUME TypeOK, PlaceInv, NEW k \in Kind, Bounded(k), world' = world,
           again[k] \in Nat, again'[k] \in Nat, again[k] <= again'[k],
           Held(k)' \subseteq Held(k), Storing(k)' \subseteq Storing(k)
    PROVE  Bounded(k)'
<1>1. IsFiniteSet(Held(k)) /\ Cardinality(Held(k)) \in Nat
  BY HeldIsEvents, EventSets
<1>2. /\ IsFiniteSet(Storing(k)) /\ Cardinality(Storing(k)) \in Nat
      /\ Cardinality(world.threads) \in Nat
  BY StoringThreads
<1>3. Cardinality(Held(k)') <= Cardinality(Held(k)) /\ Cardinality(Held(k)') \in Nat
  BY <1>1, FS_Subset, FS_CardinalityType
<1>4. Cardinality(Storing(k)') <= Cardinality(Storing(k)) /\ Cardinality(Storing(k)') \in Nat
  BY <1>2, FS_Subset, FS_CardinalityType
<1>5. MaxFiles[k] \in Nat
  BY FilesAssumption
<1> QED
  BY <1>1, <1>2, <1>3, <1>4, <1>5 DEF Bounded

\* Where the test of notify_event() passes there is room for every thread.
LEMMA RoomForAll ==
    ASSUME TypeOK, PlaceInv, NEW k \in Kind, SlotsMatch(k), Room(k)
    PROVE  Cardinality(Held(k)) <= 2 * MaxFiles[k] + again[k]
<1>1. /\ IsFiniteSet(stored[k]) /\ Cardinality(stored[k]) \in Nat
      /\ IsFiniteSet(Uploads(k)) /\ Cardinality(Uploads(k)) \in Nat
      /\ IsFiniteSet(Moving(k)) /\ Cardinality(Moving(k)) \in Nat
  BY HeldIsEvents, EventSets
<1>2. Cardinality(stored[k]) <= MaxFiles[k] /\ uploading[k] < MaxFiles[k] /\ MaxFiles[k] \in Nat
  BY FilesAssumption DEF Room
<1>3. Cardinality(Uploads(k)) <= MaxFiles[k] - 1 + again[k] /\ again[k] \in Nat
  <2>1. again[k] \in Nat /\ uploading[k] \in Nat
    BY FilesAssumption DEF TypeOK
  <2>2. PICK q \in 0..again[k] : Running(k) + q * Wrap = uploading[k] + again[k]
    BY DEF SlotsMatch
  <2>3. q * Wrap \in Nat
    BY <2>1, <2>2, Multiple
  <2>4. Cardinality(Uploads(k)) <= Running(k) /\ Running(k) \in Nat
    BY <1>1 DEF Running
  <2> QED
    BY <1>1, <1>2, <2>1, <2>2, <2>3, <2>4
<1>4. Cardinality(Moving(k)) <= 1
  <2>1. IsFiniteSet({rx.e}) /\ Cardinality({rx.e}) = 1 /\ Moving(k) \subseteq {rx.e}
    BY FS_Singleton DEF Moving
  <2> QED
    BY <2>1, FS_Subset
<1>5. ASSUME NEW S, NEW T, IsFiniteSet(S), IsFiniteSet(T)
      PROVE  /\ IsFiniteSet(S \cup T) /\ Cardinality(S \cup T) \in Nat
             /\ Cardinality(S \cup T) <= Cardinality(S) + Cardinality(T)
  <2>1. IsFiniteSet(S \cap T)
    BY <1>5, FS_Subset
  <2>2. /\ Cardinality(S) \in Nat /\ Cardinality(T) \in Nat /\ Cardinality(S \cap T) \in Nat
    BY <1>5, <2>1, FS_CardinalityType
  <2>3. /\ IsFiniteSet(S \cup T)
        /\ Cardinality(S \cup T) = Cardinality(S) + Cardinality(T) - Cardinality(S \cap T)
    BY <1>5, FS_Union
  <2>4. Cardinality(S \cup T) \in Nat
    BY <2>3, FS_CardinalityType
  <2> QED
    BY <2>2, <2>3, <2>4
<1>6. /\ IsFiniteSet(stored[k] \cup Uploads(k)) /\ Cardinality(stored[k] \cup Uploads(k)) \in Nat
      /\ Cardinality(stored[k] \cup Uploads(k))
           <= Cardinality(stored[k]) + Cardinality(Uploads(k))
  BY <1>1, <1>5
<1>7. Cardinality(Held(k)) <= Cardinality(stored[k] \cup Uploads(k)) + Cardinality(Moving(k))
  BY <1>1, <1>5, <1>6 DEF Held
<1>8. Cardinality(Held(k)) \in Nat
  BY HeldIsEvents, EventSets
<1> QED
  BY <1>1, <1>2, <1>3, <1>4, <1>6, <1>7, <1>8

LEMMA BoundStep == IInv /\ [Next]_vars => BoundInv'
<1> SUFFICES ASSUME IInv, [Next]_vars, NEW k \in Kind \ torn' PROVE Bounded(k)'
  BY SlotsStep DEF BoundInv, Bounded
<1>0. TypeOK /\ PlaceInv /\ UserInv
  BY DEF IInv
<1>t. /\ user \in UserType /\ stored \in [Kind -> SUBSET Event] /\ rx \in RxType
      /\ world' = world /\ MaxFiles[k] \in Nat
      /\ rx.at # "idle" => rx.e \in Event
      /\ again[k] \in Nat /\ again'[k] \in Nat /\ again[k] <= again'[k]
  <2>1. world' = world
    BY DEF Next, UserNext, notify_event, TestRoom, Store, CaptureFails, Send, SvcNext, AckTimeout,
       DropFile, Disconnected, Registered, stop, start, RxNext, direct_upload_url, Categorised,
       Uncategorised, FileFound, NothingFound, CountUpload, Make, HttpNext, Response, Uncount,
     ResponseAgain, UncountAgain,
       vars, session
  <2>2. \/ again' = again
        \/ http.k \in Kind /\ again' = [again EXCEPT ![http.k] = @ + 1]
    BY <1>0 DEF TypeOK, Next, UserNext, notify_event, TestRoom, Store, CaptureFails, Send,
       SvcNext, AckTimeout, DropFile, Disconnected, Registered, stop, start, RxNext,
       direct_upload_url, Categorised, Uncategorised, FileFound, NothingFound, CountUpload,
       Make, HttpNext, Response, Uncount, ResponseAgain, UncountAgain, vars, counters
  <2>3. again[k] \in Nat /\ again'[k] \in Nat /\ again[k] <= again'[k]
    BY <1>0, <2>2 DEF TypeOK
  <2> QED
    BY <1>0, <2>1, <2>3, FilesAssumption DEF TypeOK, UserType, RxType, PlaceInv
<1>w. world.threads \subseteq Thread
  BY <1>0, WorldFacts DEF TypeOK
<1>b. k \notin torn /\ SlotsMatch(k) /\ Bounded(k)
  <2>1. torn \subseteq torn'
    BY DEF Next, UserNext, notify_event, TestRoom, Store, CaptureFails, Send, SvcNext, AckTimeout,
       DropFile, Disconnected, Registered, stop, start, RxNext, direct_upload_url, Categorised,
       Uncategorised, FileFound, NothingFound, CountUpload, Make, HttpNext, Response, Uncount,
     ResponseAgain, UncountAgain,
       Count, vars, counters
  <2> QED
    BY <2>1 DEF IInv, BoundInv, Bounded
<1>c. /\ IsFiniteSet(Held(k)) /\ Cardinality(Held(k)) \in Nat
      /\ IsFiniteSet(Storing(k)) /\ Cardinality(Storing(k)) \in Nat
      /\ IsFiniteSet(world.threads) /\ Cardinality(world.threads) \in Nat
  BY <1>0, HeldIsEvents, EventSets, StoringThreads
<1>h. ASSUME UNCHANGED <<stored, uploads, rx>> PROVE Held(k)' = Held(k)
  BY <1>h DEF Held, Uploads, Moving
<1>k. ASSUME Held(k)' \subseteq Held(k), Storing(k)' \subseteq Storing(k) PROVE Bounded(k)'
  BY <1>0, <1>b, <1>k, <1>t, BoundKept
<1>1. ASSUME NEW t \in world.threads,
             \/ \E carries \in world.files, hidden \in world.hidden :
                   notify_event(t, carries, hidden)
             \/ CaptureFails(t) \/ Send(t)
      PROVE  Bounded(k)'
  <2>1. UNCHANGED <<stored, uploads, rx>>
    BY <1>1 DEF notify_event, CaptureFails, Send, files
  <2>2. user'[t].at # "store" /\ \A u \in Thread : u # t => user'[u] = user[u]
    BY <1>1, <1>t, <1>w DEF notify_event, CaptureFails, Send, UserType, UserIdle
  <2>3. Storing(k)' \subseteq Storing(k)
    BY <1>t, <1>w, <2>2 DEF Storing
  <2> QED
    BY <1>h, <1>k, <2>1, <2>3
<1>2. ASSUME NEW t \in world.threads, TestRoom(t)
      PROVE  Bounded(k)'
  <2>1. UNCHANGED <<stored, uploads, rx>>
    BY <1>2 DEF TestRoom, files
  <2>2. /\ \A u \in Thread : u # t => user'[u] = user[u]
        /\ user'[t].at = "store" => Room(First(user[t].todo)) /\ user'[t].todo = user[t].todo
    BY <1>2, <1>t, <1>w DEF TestRoom, UserType
  <2>3. CASE user'[t].at = "store" /\ First(user[t].todo) = k
    <3>1. Cardinality(Held(k)) <= 2 * MaxFiles[k] + again[k]
      BY <1>0, <1>b, <2>2, <2>3, RoomForAll
    <3>2. Storing(k)' \subseteq world.threads
      BY <1>t DEF Storing
    <3>3. Cardinality(Storing(k)') <= Cardinality(world.threads) /\ Cardinality(Storing(k)') \in Nat
      BY <1>c, <3>2, FS_Subset, FS_CardinalityType
    <3> QED
      BY <1>c, <1>h, <1>t, <2>1, <3>1, <3>3 DEF Bounded
  <2>4. CASE ~(user'[t].at = "store" /\ First(user[t].todo) = k)
    <3>1. Storing(k)' \subseteq Storing(k)
      BY <1>t, <1>w, <2>2, <2>4 DEF Storing
    <3> QED
      BY <1>h, <1>k, <2>1, <3>1
  <2> QED
    BY <2>3, <2>4
<1>3. ASSUME NEW t \in world.threads, Store(t)
      PROVE  Bounded(k)'
  <2>1. /\ UNCHANGED <<uploads, rx>> /\ user[t].at = "store" /\ user'[t].at = "test"
        /\ \A u \in Thread : u # t => user'[u] = user[u]
        /\ stored' = [stored EXCEPT ![First(user[t].todo)] = @ \cup {user[t].e}]
    BY <1>3, <1>t, <1>w DEF Store, UserType
  <2>2. Uploads(k)' = Uploads(k) /\ Moving(k)' = Moving(k)
    BY <2>1 DEF Uploads, Moving
  <2>3. CASE First(user[t].todo) = k
    <3>1. Held(k)' = Held(k) \cup {user[t].e}
      BY <1>t, <2>1, <2>2, <2>3 DEF Held
    <3>2. Cardinality(Held(k)') \in Nat /\ Cardinality(Held(k)') <= Cardinality(Held(k)) + 1
      <4>1. /\ IsFiniteSet(Held(k) \cup {user[t].e})
            /\ \/ Cardinality(Held(k) \cup {user[t].e}) = Cardinality(Held(k))
               \/ Cardinality(Held(k) \cup {user[t].e}) = Cardinality(Held(k)) + 1
        BY <1>c, FS_AddElement
      <4> QED
        BY <1>c, <3>1, <4>1
    <3>3. Storing(k)' = Storing(k) \ {t} /\ t \in Storing(k)
      BY <1>t, <1>w, <2>1, <2>3 DEF Storing
    <3>4. Cardinality(Storing(k)') = Cardinality(Storing(k)) - 1
      BY <1>c, <3>3, FS_RemoveElement
    <3> QED
      BY <1>b, <1>c, <1>t, <3>2, <3>4 DEF Bounded
  <2>4. CASE First(user[t].todo) # k
    <3>1. Held(k)' = Held(k)
      BY <1>t, <2>1, <2>2, <2>4 DEF Held
    <3>2. Storing(k)' \subseteq Storing(k)
      BY <1>t, <1>w, <2>1 DEF Storing
    <3> QED
      BY <1>k, <3>1, <3>2
  <2> QED
    BY <2>3, <2>4
<1>u. ASSUME user' = user, Held(k)' \subseteq Held(k) PROVE Bounded(k)'
  <2>1. Storing(k)' = Storing(k)
    BY <1>t, <1>u DEF Storing
  <2> QED
    BY <1>k, <1>u, <2>1
<1>4. ASSUME NEW j \in Kind, DropFile(j)
      PROVE  Bounded(k)'
  <2>1. UNCHANGED <<uploads, rx, user>> /\ stored'[k] \subseteq stored[k]
    BY <1>4, <1>t DEF DropFile
  <2>2. Held(k)' \subseteq Held(k)
    BY <2>1 DEF Held, Uploads, Moving
  <2> QED
    BY <1>u, <2>1, <2>2
<1>5. ASSUME NEW e \in Event, NEW urls \in world.answers, direct_upload_url(e, urls)
      PROVE  Bounded(k)'
  <2>1. UNCHANGED <<stored, uploads, user>> /\ rx'.at \in {"idle", "url"}
    BY <1>5, HandlingFields DEF direct_upload_url, RxIdle
  <2>2. Held(k)' \subseteq Held(k)
    BY <2>1 DEF Held, Uploads, Moving
  <2> QED
    BY <1>u, <2>1, <2>2
<1>f. ASSUME NEW j \in Kind, NEW cats, NEW any, FileFound(j, cats, any)
      PROVE  Bounded(k)'
  <2>1. UNCHANGED <<stored, uploads, user>> /\ rx'.k = j /\ rx'.e = rx.e /\ rx.e \in stored[j]
    BY <1>f, <1>t DEF FileFound, RxType, files
  <2>2. Held(k)' \subseteq Held(k)
    BY <2>1 DEF Held, Uploads, Moving
  <2> QED
    BY <1>u, <2>1, <2>2
<1>n. ASSUME NEW cats, NEW any, NothingFound(cats, any)
      PROVE  Bounded(k)'
  <2>1. UNCHANGED <<stored, uploads, user>> /\ rx'.at \in {"idle", "url"}
    BY <1>n, HandlingFields DEF NothingFound, RxIdle, files
  <2>2. Held(k)' \subseteq Held(k)
    BY <2>1 DEF Held, Uploads, Moving
  <2> QED
    BY <1>u, <2>1, <2>2
<1>6. ASSUME (\E j \in Kind : Categorised(j)) \/ Uncategorised
      PROVE  Bounded(k)'
  BY <1>6, <1>f, <1>n DEF Categorised, Uncategorised, Kind
<1>7. CASE CountUpload
  <2>1. /\ UNCHANGED <<stored, uploads, user>> /\ rx.at = "count"
        /\ rx'.k = rx.k /\ rx'.e = rx.e
    BY <1>7, <1>t DEF CountUpload, RxType, files
  <2>2. Held(k)' \subseteq Held(k)
    BY <2>1 DEF Held, Uploads, Moving
  <2> QED
    BY <1>u, <2>1, <2>2
<1>8. CASE Make
  <2>1. /\ rx.at = "put" /\ rx.k \in Kind /\ rx'.at \in {"idle", "url"} /\ user' = user
        /\ uploads' = uploads \cup {<<rx.e, rx.k>>} /\ stored'[k] \subseteq stored[k]
    BY <1>8, <1>t, HandlingFields DEF Make, RxIdle, RxType
  <2>2. Moving(k)' = {} /\ Uploads(k)' \subseteq Uploads(k) \cup Moving(k)
    BY <2>1 DEF Uploads, Moving
  <2>3. Held(k)' \subseteq Held(k)
    BY <2>1, <2>2 DEF Held
  <2> QED
    BY <1>u, <2>1, <2>3
<1>9. CASE Uncount \/ UncountAgain
  <2>1. UNCHANGED <<stored, rx, user>> /\ uploads' \subseteq uploads
    BY <1>9 DEF Uncount, UncountAgain, files
  <2>2. Held(k)' \subseteq Held(k)
    BY <2>1 DEF Held, Uploads, Moving
  <2> QED
    BY <1>u, <2>1, <2>2
<1>10. ASSUME \/ \E a \in acks_ : AckTimeout(a)
              \/ Disconnected \/ Registered \/ stop \/ start
              \/ \E e \in Event, j \in Kind, twice \in world.unresolved :
                    Response(e, j, twice)
              \/ ResponseAgain \/ UNCHANGED vars
       PROVE  Bounded(k)'
  <2>1. UNCHANGED <<stored, uploads, rx, user>>
    BY <1>10 DEF AckTimeout, Disconnected, Registered, stop, start, Response, ResponseAgain,
                 vars, files
  <2> QED
    BY <1>h, <1>u, <2>1
<1> QED
  BY <1>1, <1>2, <1>3, <1>4, <1>5, <1>6, <1>7, <1>8, <1>9, <1>10
     DEF Next, UserNext, SvcNext, RxNext, HttpNext
-----------------------------------------------------------------------------
LEMMA IInvStep == IInv /\ [Next]_vars => IInv'
BY TypeStep, IdStep, UserStep, PlaceStep, BoundStep, RxStep, ExpiryStep, AwaitedStep DEF IInv

LEMMA IInvAlways == Spec => []IInv
BY InitInv, IInvStep, PTL DEF Spec

\* The maps of files, the answer table, the counters and the threads that use
\* them keep their types, whatever the number of threads and events.
THEOREM TypeCorrect == Spec => []TypeOK
<1>1. IInv => TypeOK
  BY DEF IInv
<1> QED
  BY <1>1, IInvAlways, PTL

\* However many threads notify and however large the two limits are, a counter
\* that lost no update is the number of running uploads less that of the second
\* answers, modulo its width, and at most twice the limit and one file for each
\* thread and each second answer are in memory.
THEOREM FilesBoundedCorrect == Spec => []FilesBounded
<1>1. IInv => FilesBounded
  <2> SUFFICES ASSUME IInv, NEW k \in Kind \ torn
               PROVE  Cardinality(Held(k))
                        <= 2 * MaxFiles[k] + Cardinality(world.threads) + again[k]
    BY DEF IInv, BoundInv, FilesBounded
  <2>1. TypeOK /\ PlaceInv /\ Bounded(k)
    BY DEF IInv, BoundInv, Bounded
  <2>2. Cardinality(Held(k)) \in Nat /\ Cardinality(Storing(k)) \in Nat
        /\ Cardinality(world.threads) \in Nat /\ MaxFiles[k] \in Nat
    BY <2>1, HeldIsEvents, EventSets, StoringThreads, FilesAssumption
  <2>3. again[k] \in Nat
    BY <2>1 DEF TypeOK
  <2> QED
    BY <2>1, <2>2, <2>3 DEF Bounded
<1> QED
  BY <1>1, IInvAlways, PTL

\* Whatever the interleaving of the user's threads, the timeouts, the answers,
\* outages and stops, a file of an event that nothing will fetch or drop is one
\* of a hidden event, one without an URL or one of a stopped agent.
THEOREM FilesAwaitedCorrect == Spec => []FilesAwaited
<1>1. IInv => FilesAwaited
  BY DEF IInv
<1> QED
  BY <1>1, IInvAlways, PTL
=============================================================================
