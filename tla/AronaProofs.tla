---------------------------- MODULE AronaProofs -----------------------------
(***************************************************************************)
(* Proofs about the Go services of MCArona, for any capacities, attempts,   *)
(* page sizes, times and bounds: the watcher (Watcher), the mentions        *)
(* (MentionLink), the nightly synchronisation (SwarmSync), and all of them  *)
(* together.                                                                *)
(***************************************************************************)
EXTENDS MCArona, QueueLemmas

-----------------------------------------------------------------------------
(* The watcher.  Its invariant follows a note through the stages: the wire,  *)
(* the reader, the channel, onNote.                                         *)

\* Every stage is in order, and behind the next.
InOrder ==
  /\ Ascending(handed) /\ Ascending(queue) /\ Ascending(wire)
  /\ \A m \in Entries(handed), n \in Entries(queue) : m < n
  /\ \A m \in Entries(handed) \cup Entries(queue) :
       /\ \A n \in Entries(wire) : m < n
       /\ held # 0 => m < held
  /\ \A n \in Entries(wire) : held < n

\* Every note that was posted is in a stage, or lost as Stop and connections may.
AllThere ==
  \A n \in 1 .. posted :
    n \in lost \cup Entries(wire) \cup Entries(queue) \cup Entries(handed) \cup {held}

WatcherInv == TypeOK /\ InOrder /\ AllThere

\* The stages hold notes that were posted.
LEMMA Stages ==
  ASSUME TypeOK
  PROVE  /\ posted \in Nat /\ held \in Nat /\ held <= posted
         /\ wire \in Seq(1 .. posted) /\ queue \in Seq(1 .. posted)
         /\ handed \in Seq(1 .. posted)
         /\ wire \in Seq(Nat) /\ queue \in Seq(Nat) /\ handed \in Seq(Nat)
         /\ Entries(wire) \subseteq 1 .. posted /\ Entries(queue) \subseteq 1 .. posted
         /\ Entries(handed) \subseteq 1 .. posted
         /\ \A q : NotesIn(q) = Entries(q)
<1>1. /\ posted \in Nat /\ held \in Nat /\ held <= posted
      /\ wire \in Seq(1 .. posted) /\ queue \in Seq(1 .. posted)
      /\ handed \in Seq(1 .. posted)
  BY BoundAssumption DEF TypeOK
<1>2. 1 .. posted \subseteq Nat
  BY <1>1
<1>3. wire \in Seq(Nat) /\ queue \in Seq(Nat) /\ handed \in Seq(Nat)
  BY ONLY <1>1, <1>2, WiderQueue
<1>4. /\ Entries(wire) \subseteq 1 .. posted /\ Entries(queue) \subseteq 1 .. posted
      /\ Entries(handed) \subseteq 1 .. posted
  BY ONLY <1>1, EntriesType
<1>. QED  BY <1>1, <1>3, <1>4 DEF NotesIn, Entries

\* A connection is cut after some of the notes that came down it.
LEMMA CutType ==
  ASSUME TypeOK, NEW k \in 0 .. Len(wire), CutAfter(k)
  PROVE  /\ conn' = "cut" /\ wire' \in Seq(1 .. posted)
         /\ lost' = lost \cup Entries(SubSeq(wire, k + 1, Len(wire)))
         /\ Entries(wire) = Entries(wire') \cup Entries(SubSeq(wire, k + 1, Len(wire)))
         /\ Ascending(wire) => Ascending(wire')
BY Stages, Cut DEF CutAfter

\* Every step keeps the state well typed.
LEMMA WatcherTypeNext ==
  ASSUME TypeOK, [Next]_vars
  PROVE  TypeOK'
<1>. USE Stages DEF readerVars, ReaderSteps
<1>1. CASE Post
  <2>1. /\ posted' = posted + 1 /\ posted < MaxNote
        /\ wire' \in {wire, Append(wire, posted + 1)}
        /\ lost' \in {lost, lost \cup {posted + 1}}
        /\ UNCHANGED <<reader, conn, registered, held, queue, handling, stopped, handed>>
    BY <1>1 DEF Post
  <2>2. 1 .. posted \subseteq 1 .. posted' /\ posted + 1 \in 1 .. posted'
    BY <2>1
  <2>3. /\ wire \in Seq(1 .. posted') /\ queue \in Seq(1 .. posted')
        /\ handed \in Seq(1 .. posted')
    BY ONLY <2>2, Stages, TypeOK, WiderQueue
  <2>4. Append(wire, posted + 1) \in Seq(1 .. posted')
    BY ONLY <2>2, <2>3, Appended
  <2>5. wire' \in Seq(1 .. posted') /\ lost' \subseteq 1 .. posted'
    BY <2>1, <2>2, <2>3, <2>4 DEF TypeOK
  <2>6. posted' \in 0 .. MaxNote
    BY <2>1, BoundAssumption
  <2>7. held \in 0 .. posted' /\ handling \in 0 .. posted'
    BY <2>1 DEF TypeOK
  <2>. QED  BY <2>1, <2>3, <2>5, <2>6, <2>7 DEF TypeOK
<1>2. CASE ServerCuts \/ Stop
  <2>1. /\ UNCHANGED <<posted, reader, registered, held, queue, handling, handed>>
        /\ stopped' \in BOOLEAN
    BY <1>2 DEF ServerCuts, Stop, TypeOK
  <2>2. \/ UNCHANGED <<conn, wire, lost>>
        \/ conn = "open" /\ \E k \in 0 .. Len(wire) : CutAfter(k)
    BY <1>2 DEF ServerCuts, Stop
  <2>3. CASE UNCHANGED <<conn, wire, lost>>
    BY <2>1, <2>3 DEF TypeOK
  <2>4. ASSUME NEW k \in 0 .. Len(wire), conn = "open", CutAfter(k)
        PROVE  TypeOK'
    <3>1. conn' = "cut" /\ wire' \in Seq(1 .. posted) /\ lost' \subseteq lost \cup Entries(wire)
      BY <2>4, CutType
    <3>2. lost' \subseteq 1 .. posted
      BY <3>1 DEF TypeOK
    <3>. QED  BY <2>1, <2>4, <3>1, <3>2 DEF TypeOK
  <2>. QED  BY <2>2, <2>3, <2>4
<1>3. CASE CheckStopped \/ Dial \/ AdoptConnection \/ Recheck \/ Sleep
  BY <1>3 DEF TypeOK, CheckStopped, Dial, AdoptConnection, Recheck, Sleep, AfterSleep
<1>4. CASE Subscribe \/ ReadFails \/ PassGate
  <2>1. UNCHANGED <<posted, queue, handling, stopped, handed>>
    BY <1>4 DEF Subscribe, ReadFails, PassGate
  <2>2. CASE Return
    <3>1. held # 0 => held \in 1 .. posted
      OBVIOUS
    <3>2. /\ reader' = "recheck" /\ conn' = "none" /\ registered' = FALSE
          /\ wire' = <<>> /\ held' = 0
          /\ lost' = lost \cup Entries(wire) \cup ({held} \ {0})
      BY <2>2 DEF Return
    <3>3. lost' \subseteq 1 .. posted
      BY <3>1, <3>2 DEF TypeOK
    <3>4. wire' \in Seq(1 .. posted') /\ held' \in 0 .. posted'
      BY <2>1, <3>2, EmptySeq
    <3>. QED  BY <2>1, <3>2, <3>3, <3>4 DEF TypeOK
  <2>3. CASE UNCHANGED <<conn, registered, wire, held, lost>>
    <3>1. \/ reader = "subscribe" /\ reader' = "read"
          \/ reader = "gate" /\ reader' = "push"
          \/ reader = "read" /\ reader' = "recheck" /\ conn' = "none"
          \/ Return
      BY <1>4 DEF Subscribe, ReadFails, PassGate, Return
    <3>. QED  BY <2>1, <2>2, <2>3, <3>1 DEF TypeOK
  <2>. QED  BY <1>4, <2>2, <2>3 DEF Subscribe, ReadFails, PassGate
<1>5. CASE ReadNote
  <2>1. held' \in 1 .. posted /\ wire' \in Seq(1 .. posted)
    BY <1>5, Taken DEF ReadNote
  <2>. QED  BY <1>5, <2>1 DEF TypeOK, ReadNote
<1>6. CASE Push
  <2>1. /\ held \in 1 .. posted /\ queue' = Append(queue, held) /\ Len(queue) < Capacity
        /\ reader = "push" /\ reader' = "read" /\ held' = 0
        /\ UNCHANGED <<posted, registered, conn, wire, handling, stopped, handed, lost>>
    BY <1>6 DEF Push, Pushed, RoomToPush, TypeOK
  <2>2. queue' \in Seq(1 .. posted) /\ Len(queue') = Len(queue) + 1 /\ Len(queue) \in Nat
    BY ONLY <2>1, Stages, TypeOK, Appended, LenProperties
  <2>3. Len(queue') <= Capacity
    BY ONLY <2>1, <2>2, CapacityAssumption
  <2>. QED  BY <2>1, <2>2, <2>3 DEF TypeOK
<1>7. CASE TakeNote
  <2>1. /\ queue # <<>> /\ handling' = Head(queue) /\ queue' = Tail(queue)
        /\ handed' = Append(handed, Head(queue))
        /\ UNCHANGED <<posted, readerVars, conn, wire, stopped, lost>>
    BY <1>7 DEF TakeNote
  <2>2. /\ Head(queue) \in 1 .. posted /\ queue' \in Seq(1 .. posted)
        /\ Len(queue') = Len(queue) - 1 /\ Len(queue) \in Nat
    BY ONLY <2>1, Stages, TypeOK, Taken, LenProperties
  <2>3. handed' \in Seq(1 .. posted)
    BY ONLY <2>1, <2>2, Stages, TypeOK, Appended
  <2>4. Len(queue') <= Capacity
    BY <2>2, CapacityAssumption DEF TypeOK
  <2>. QED  BY <2>1, <2>2, <2>3, <2>4 DEF TypeOK
<1>8. CASE NoteDone
  BY <1>8 DEF TypeOK, NoteDone
<1>9. CASE UNCHANGED vars
  BY <1>9 DEF TypeOK, vars
<1>. QED
  BY <1>1, <1>2, <1>3, <1>4, <1>5, <1>6, <1>7, <1>8, <1>9
     DEF Next, ReaderStep, WorkerStep

\* Every step moves a note to the next stage, or loses it.
LEMMA WatcherInvNext ==
  ASSUME WatcherInv, [Next]_vars
  PROVE  InOrder' /\ AllThere'
<1>0. TypeOK /\ InOrder /\ AllThere
  BY DEF WatcherInv
<1>00. /\ wire \in Seq(Nat) /\ queue \in Seq(Nat) /\ handed \in Seq(Nat)
       /\ Ascending(wire) /\ Ascending(queue) /\ Ascending(handed) /\ held \in Nat
  BY <1>0, Stages DEF InOrder
<1>. USE <1>0, Stages DEF readerVars
<1>1. CASE Post
  <2>. DEFINE p == posted + 1
  <2>1. /\ posted' = p /\ p \in Nat /\ UNCHANGED <<held, queue, handed>>
        /\ \/ wire' = Append(wire, p) /\ lost' = lost
           \/ wire' = wire /\ lost' = lost \cup {p}
    BY <1>1 DEF Post
  <2>2. \A n \in Entries(wire) \cup Entries(queue) \cup Entries(handed) \cup {held} :
          n \in Nat /\ n < p
    OBVIOUS
  <2>3. \A n \in 1 .. p : n \in 1 .. posted \/ n = p
    OBVIOUS
  <2>. HIDE DEF p
  <2>4. Ascending(Append(wire, p)) /\ Entries(Append(wire, p)) = Entries(wire) \cup {p}
    BY ONLY SMTT(30), <1>00, <2>1, <2>2, Appended, AscendingAppended
  <2>5. AllThere'
    BY <2>1, <2>3, <2>4 DEF AllThere
  <2>6. InOrder'
    BY <2>1, <2>2, <2>4 DEF InOrder
  <2>. QED  BY <2>5, <2>6
<1>2. CASE ServerCuts \/ Stop
  <2>1. /\ UNCHANGED <<posted, held, queue, handed>>
        /\ \/ UNCHANGED <<conn, wire, lost>>
           \/ \E k \in 0 .. Len(wire) : CutAfter(k)
    BY <1>2 DEF ServerCuts, Stop
  <2>2. /\ Ascending(wire') /\ Entries(wire') \subseteq Entries(wire)
        /\ lost \cup Entries(wire) \subseteq lost' \cup Entries(wire')
    BY <2>1, CutType DEF InOrder
  <2>. QED  BY <2>1, <2>2 DEF InOrder, AllThere
<1>3. CASE \/ CheckStopped \/ Dial \/ AdoptConnection \/ Recheck \/ Sleep \/ NoteDone
           \/ UNCHANGED vars
  <2>1. UNCHANGED <<posted, wire, held, queue, handed, lost>>
    BY <1>3 DEF CheckStopped, Dial, AdoptConnection, Recheck, Sleep, NoteDone, vars
  <2>. QED  BY <2>1 DEF InOrder, AllThere
<1>4. CASE Subscribe \/ ReadFails \/ PassGate
  <2>1. UNCHANGED <<posted, queue, handed>> /\ (Return \/ UNCHANGED <<wire, held, lost>>)
    BY <1>4 DEF Subscribe, ReadFails, PassGate
  <2>2. CASE Return
    <3>1. /\ wire' = <<>> /\ held' = 0
          /\ lost' = lost \cup Entries(wire) \cup ({held} \ {0})
      BY <2>2 DEF Return
    <3>2. InOrder'
      BY <2>1, <3>1, EmptyQueue DEF InOrder
    <3>. QED  BY <2>1, <3>1, <3>2 DEF AllThere
  <2>3. CASE UNCHANGED <<wire, held, lost>>
    BY <2>1, <2>3 DEF InOrder, AllThere
  <2>. QED  BY <2>1, <2>2, <2>3
<1>5. CASE ReadNote
  <2>1. /\ wire # <<>> /\ held' = Head(wire) /\ wire' = Tail(wire) /\ held = 0
        /\ UNCHANGED <<posted, queue, handed, lost>>
    BY <1>5 DEF ReadNote, TypeOK
  <2>2. Entries(wire) = {held'} \cup Entries(wire')
    BY <2>1, Taken
  <2>3. Ascending(wire') /\ \A n \in Entries(wire') : held' < n
    BY <2>1, AscendingTaken DEF InOrder
  <2>. QED  BY <2>1, <2>2, <2>3 DEF InOrder, AllThere
<1>6. CASE Push
  <2>1. /\ held # 0 /\ queue' = Append(queue, held) /\ held' = 0
        /\ UNCHANGED <<posted, wire, handed, lost>>
    BY <1>6 DEF Push, Pushed, TypeOK
  <2>2. Ascending(queue') /\ Entries(queue') = Entries(queue) \cup {held}
    <3>1. \A n \in Entries(queue) : n < held
      BY <2>1 DEF InOrder
    <3>2. queue' = Append(queue, held)
      BY <2>1
    <3>3. Entries(queue') = Entries(queue) \cup {held}
      <4>1. Entries(Append(queue, held)) = Entries(queue) \cup {held}
        <5>1. queue \in Seq(Nat) /\ held \in Nat
          BY ONLY <1>00
        <5>. QED  BY ONLY <5>1, Appended
      <4>. QED  BY ONLY <3>2, <4>1
    <3>4. Ascending(queue')
      <4>1. Ascending(Append(queue, held))
        BY ONLY <1>00, <3>1, AscendingAppended
      <4>. QED  BY ONLY <3>2, <4>1
    <3>. QED  BY <3>3, <3>4
  <2>3. \A n \in Entries(wire) : 0 < n
    OBVIOUS
  <2>. QED  BY <2>1, <2>2, <2>3 DEF InOrder, AllThere
<1>7. CASE TakeNote
  <2>. DEFINE h == Head(queue)
  <2>1. /\ queue # <<>> /\ queue' = Tail(queue) /\ handed' = Append(handed, h)
        /\ UNCHANGED <<posted, wire, held, lost>>
    BY <1>7 DEF TakeNote
  <2>2. Entries(queue) = {h} \cup Entries(queue') /\ h \in Nat
    BY <2>1, Taken
  <2>3. Ascending(queue') /\ \A n \in Entries(queue') : h < n
    BY <2>1, AscendingTaken DEF InOrder
  <2>. HIDE DEF h
  <2>4. Ascending(handed') /\ Entries(handed') = Entries(handed) \cup {h}
    <3>1. \A n \in Entries(handed) : n < h
      BY <2>2 DEF InOrder
    <3>2. handed' = Append(handed, h) /\ handed \in Seq(Nat) /\ h \in Nat
      BY <2>1, <2>2
    <3>3. Ascending(Append(handed, h))
      BY ONLY <1>00, <3>1, <3>2, AscendingAppended
    <3>. QED  BY ONLY <3>2, <3>3, Appended
  <2>. QED  BY <2>1, <2>2, <2>3, <2>4 DEF InOrder, AllThere
<1>. QED
  BY <1>1, <1>2, <1>3, <1>4, <1>5, <1>6, <1>7 DEF Next, ReaderStep, WorkerStep

\* Nothing is on its way at first.
LEMMA WatcherInvInit == Init => WatcherInv
<1>. SUFFICES ASSUME Init PROVE WatcherInv
  OBVIOUS
<1>1. TypeOK
  <2>1. Len(queue) <= Capacity
    BY CapacityAssumption, EmptyQueue DEF Init
  <2>2. posted \in 0 .. MaxNote
    BY BoundAssumption DEF Init
  <2>3. /\ wire \in Seq(1 .. posted) /\ queue \in Seq(1 .. posted)
        /\ handed \in Seq(1 .. posted)
    BY EmptySeq DEF Init
  <2>4. held \in 0 .. posted /\ handling \in 0 .. posted /\ lost \subseteq 1 .. posted
    BY DEF Init
  <2>5. /\ reader \in ReaderSteps /\ conn \in {"none", "open", "cut"}
        /\ registered \in BOOLEAN /\ stopped \in BOOLEAN
        /\ conn # "none" <=> reader \in {"adopt", "subscribe", "read", "gate", "push"}
        /\ held # 0 <=> reader \in {"gate", "push"}
    BY DEF Init, ReaderSteps
  <2>. QED  BY <2>1, <2>2, <2>3, <2>4, <2>5 DEF TypeOK
<1>. QED  BY <1>1, EmptyQueue DEF Init, WatcherInv, InOrder, AllThere

\* What the invariant says of the notes handed over.
LEMMA WatcherInvDelivers == WatcherInv => TypeOK /\ DeliveredInOrder
<1>. SUFFICES ASSUME WatcherInv PROVE TypeOK /\ DeliveredInOrder
  OBVIOUS
<1>1. TypeOK
  BY DEF WatcherInv
<1>. QED  BY <1>1, Stages DEF WatcherInv, InOrder, AllThere, DeliveredInOrder, Ascending

\* One at a time and in the order they were posted, whatever becomes of the
\* connections, however small the channel and whenever Stop comes: no note is
\* handed over twice or after a newer one, and only Stop and connections lose
\* one (connectOnce, worker, Stop).
THEOREM WatcherDeliversInOrder == Spec => []DeliveredInOrder
<1>1. WatcherInv /\ [Next]_vars => WatcherInv'
  BY WatcherTypeNext, WatcherInvNext DEF WatcherInv
<1>. QED  BY <1>1, WatcherInvInit, WatcherInvDelivers, PTL DEF Spec

-----------------------------------------------------------------------------
(* The mentions.  MentionInv keeps the books of a post: which notes it may    *)
(* still get in this attempt, and that every note is recorded, about to be,   *)
(* or in doubt.                                                             *)

\* The handler is past its look-up only for a post that is to be forwarded and
\* that has no record; it holds all its attempts until it makes the first one.
HandlesUnrecorded ==
  /\ step \in {"images", "note", "record"} =>
       post \in OwnersPosts /\ post \notin recorded
  /\ step = "images" => calls = MaxCalls
  /\ step = "record" => notes[post] > 0

\* Without a doubt, a post has a note exactly when there is a record of it or
\* the handler is about to make one.
NotesAreRecorded ==
  \A p \in Posts \ doubted :
    notes[p] = IF p \in recorded \/ (p = post /\ step = "record") THEN 1 ELSE 0

\* Notes that the handler may still make of p before it takes another event.
MayMake(p) == IF p # post THEN 0
              ELSE IF step \in {"lookup", "images"} THEN MaxCalls
              ELSE IF step = "note" THEN calls ELSE 0

\* Nobody else's post gets a note, the owner's at most MaxCalls per event.
WithinAttempts ==
  \A p \in Posts :
    /\ notes[p] + MayMake(p) <= MaxCalls * taken[p]
    /\ p \notin OwnersPosts => notes[p] = 0

\* A record is of a note that exists.
RecordsAreOfNotes == \A p \in recorded : notes[p] > 0

Books == HandlesUnrecorded /\ NotesAreRecorded /\ WithinAttempts
         /\ RecordsAreOfNotes

MentionInv == MentionTypeOK /\ Books

-----------------------------------------------------------------------------

\* Each event taken up allows for another MaxCalls notes.
LEMMA AnotherEvent ==
  \A n \in Nat : /\ MaxCalls * n \in Nat
                 /\ MaxCalls * (n + 1) = MaxCalls * n + MaxCalls
                 /\ MaxCalls * 0 = 0
BY MentionAssumption

\* Nothing is forwarded or taken up at first.
LEMMA MentionInvInit == MentionInit => MentionInv
<1>. SUFFICES ASSUME MentionInit PROVE MentionInv
  OBVIOUS
<1>. USE MentionAssumption, MentionBounds DEF MentionInit
<1>1. MentionTypeOK
  BY DEF MentionTypeOK
<1>2. HandlesUnrecorded /\ NotesAreRecorded
  BY DEF HandlesUnrecorded, NotesAreRecorded
<1>3. WithinAttempts
  <2>. SUFFICES ASSUME NEW p \in Posts
                PROVE  /\ notes[p] + MayMake(p) <= MaxCalls * taken[p]
                       /\ notes[p] = 0
    BY DEF WithinAttempts
  <2>1. MayMake(p) = 0 /\ notes[p] = 0 /\ taken[p] = 0
    BY DEF MayMake
  <2>2. MaxCalls * taken[p] = 0
    BY <2>1, AnotherEvent
  <2>. QED  BY <2>1, <2>2
<1>. QED  BY <1>1, <1>2, <1>3 DEF MentionInv, Books, RecordsAreOfNotes

\* What the events on the stream or in the channel are about.
LEMMA PostsOfEvents ==
  ASSUME NEW s \in Seq(Posts)
  PROVE  PostsIn(s) \subseteq Posts
BY EntriesType DEF PostsIn, Entries

\* Every step keeps the state well typed.
LEMMA MentionTypeNext ==
  ASSUME MentionInv, [MentionStep]_mentionVars
  PROVE  MentionTypeOK'
<1>0. MentionTypeOK /\ HandlesUnrecorded
  BY DEF MentionInv, Books
<1>. USE <1>0, MentionAssumption, MentionBounds
     DEF MentionTypeOK, reading, handler, counts
<1>1. CASE SendEvent
  BY SMTT(30), <1>1 DEF SendEvent
<1>2. CASE WatchStep
  <2>1. CASE Connect
    BY <2>1 DEF Connect
  <2>2. CASE ReadEvent
    <3>1. inHand' \in Posts /\ arriving' \in Seq(Posts) /\ gone' \subseteq Posts
      BY <2>2, Taken DEF ReadEvent
    <3>. QED  BY <2>2, <3>1 DEF ReadEvent
  <2>3. CASE Enqueue
    BY SMTT(30), <2>3 DEF Enqueue
  <2>4. CASE PauseOver
    BY <2>4 DEF PauseOver, AfterPause
  <2>5. CASE WatchReturns
    <3>1. PostsIn(arriving) \subseteq Posts
      BY PostsOfEvents
    <3>2. gone' \subseteq Posts
      BY <2>5, <3>1 DEF WatchReturns
    <3>3. arriving' \in Seq(Posts) /\ backlog' = backlog
      BY <2>5 DEF WatchReturns
    <3>. QED  BY <2>5, <3>2, <3>3 DEF WatchReturns
  <2>. QED  BY <1>2, <2>1, <2>2, <2>3, <2>4, <2>5 DEF WatchStep
<1>3. CASE StreamEnds
  <2>1. PostsIn(arriving) \subseteq Posts
    BY PostsOfEvents
  <2>2. gone' \subseteq Posts
    BY <1>3, <2>1 DEF StreamEnds
  <2>3. arriving' \in Seq(Posts) /\ faults' \in 0 .. MaxFaults
    BY <1>3 DEF StreamEnds
  <2>. QED  BY <1>3, <2>2, <2>3 DEF StreamEnds
<1>4. CASE HandlerStep
  <2>. USE DEF Idle
  <2>1. CASE TakeEvent
    <3>1. post' \in Posts /\ backlog' \in Seq(Posts) /\ Len(backlog') <= QueueSize
      BY <2>1, Taken DEF TakeEvent
    <3>. QED  BY SMTT(30), <2>1, <3>1 DEF TakeEvent
  <2>2. CASE LookUp
    BY SMTT(30), <2>2 DEF LookUp
  <2>3. CASE GivesUp
    <3>1. /\ sendings' \in 0 .. MaxSendings /\ faults' \in 0 .. MaxFaults
          /\ halts' \in 0 .. MaxHalts
      BY SMTT(30), <2>3 DEF GivesUp, Fault
    <3>. QED  BY SMTT(30), <2>3, <3>1 DEF GivesUp
  <2>4. CASE ImagesUploaded
    BY <2>4 DEF ImagesUploaded, HandlesUnrecorded
  <2>5. CASE CreateNote
    BY SMTT(30), <2>5 DEF CreateNote, Created
  <2>6. CASE NoteFails
    <3>1. /\ sendings' \in 0 .. MaxSendings /\ faults' \in 0 .. MaxFaults
          /\ halts' \in 0 .. MaxHalts
      BY <2>6 DEF NoteFails, Fault
    <3>2. post \in Posts /\ calls > 0
      BY <2>6 DEF NoteFails
    <3>3. notes' \in [Posts -> Nat]
      BY <2>6, <3>2 DEF NoteFails, Created
    <3>4. doubted' \subseteq Posts /\ gone' \subseteq Posts
      BY <2>6, <3>2 DEF NoteFails
    <3>5. calls' \in 0 .. MaxCalls /\ (step' = "note" => calls' > 0)
      BY <2>6, <3>2 DEF NoteFails
    <3>6. /\ post' \in {0} \cup Posts /\ step' \in {"idle", "note"}
          /\ post' # 0 <=> step' # "idle"
      BY <2>6, <3>2 DEF NoteFails
    <3>. QED  BY <2>6, <3>1, <3>3, <3>4, <3>5, <3>6 DEF NoteFails
  <2>7. CASE RecordPost
    BY <2>7 DEF RecordPost
  <2>8. CASE RecordFault
    <3>1. /\ sendings' \in 0 .. MaxSendings /\ faults' \in 0 .. MaxFaults
          /\ halts' \in 0 .. MaxHalts
      BY SMTT(30), <2>8 DEF RecordFault, Fault
    <3>2. recorded' \subseteq Posts /\ doubted' \subseteq Posts
      BY <2>8 DEF RecordFault
    <3>. QED  BY <2>8, <3>1, <3>2 DEF RecordFault
  <2>. QED
    BY <1>4, <2>1, <2>2, <2>3, <2>4, <2>5, <2>6, <2>7, <2>8 DEF HandlerStep
<1>5. CASE Begin
  BY <1>5 DEF Begin
<1>6. CASE Signal
  BY <1>6 DEF Signal
<1>7. CASE StartAgain
  BY <1>7 DEF StartAgain
<1>8. CASE Halt
  <2>1. gone' \subseteq Posts /\ doubted' \subseteq Posts
    BY <1>8, PostsOfEvents DEF Halt
  <2>2. arriving' \in Seq(Posts) /\ backlog' \in Seq(Posts) /\ Len(backlog') = 0
    BY <1>8 DEF Halt
  <2>3. halts' \in 0 .. MaxHalts
    BY <1>8 DEF Halt
  <2>. QED  BY <1>8, <2>1, <2>2, <2>3 DEF Halt, Idle
<1>9. CASE UNCHANGED mentionVars
  BY <1>9 DEF mentionVars
<1>. QED
  BY <1>1, <1>2, <1>3, <1>4, <1>5, <1>6, <1>7, <1>8, <1>9
     DEF MentionStep, ProcessStep

-----------------------------------------------------------------------------
(* The books, one lemma per step that moves them.                          *)

\* Steps that touch neither the handler nor what it has done keep the books.
LEMMA BooksUnmoved ==
  ASSUME MentionInv,
         UNCHANGED <<post, step, calls, recorded, notes, taken, doubted>>
  PROVE  Books'
BY DEF MentionInv, Books, HandlesUnrecorded, NotesAreRecorded, WithinAttempts,
       RecordsAreOfNotes, MayMake

\* The types that the lemmas below rely on.
LEMMA BookTypes ==
  ASSUME MentionInv
  PROVE  /\ notes \in [Posts -> Nat] /\ taken \in [Posts -> Nat]
         /\ calls \in Nat /\ calls <= MaxCalls /\ MaxCalls \in Nat
         /\ recorded \subseteq Posts /\ doubted \subseteq Posts
         /\ post # 0 <=> step # "idle"
         /\ post # 0 => post \in Posts
         /\ step = "note" => calls > 0
BY MentionAssumption DEF MentionInv, MentionTypeOK

\* An event is taken up: its post may get another MaxCalls notes.
LEMMA TakeEventBooks ==
  ASSUME MentionInv, TakeEvent
  PROVE  Books'
<1>. USE BookTypes
<1>1. post' \in Posts
  BY Taken DEF TakeEvent, MentionInv, MentionTypeOK
<1>2. /\ step = "idle" /\ post = 0 /\ step' = "lookup"
      /\ taken' = [taken EXCEPT ![post'] = @ + 1]
      /\ UNCHANGED <<calls, recorded, notes, doubted>>
  BY DEF TakeEvent
<1>3. HandlesUnrecorded' /\ NotesAreRecorded' /\ RecordsAreOfNotes'
  BY <1>2 DEF MentionInv, Books, HandlesUnrecorded, NotesAreRecorded, RecordsAreOfNotes
<1>4. WithinAttempts'
  <2>. SUFFICES ASSUME NEW p \in Posts
                PROVE  /\ notes[p] + MayMake(p)' <= MaxCalls * taken'[p]
                       /\ p \notin OwnersPosts => notes[p] = 0
    BY <1>2 DEF WithinAttempts
  <2>1. /\ notes[p] <= MaxCalls * taken[p]
        /\ p \notin OwnersPosts => notes[p] = 0
    <3>1. MayMake(p) = 0
      BY <1>2 DEF MayMake
    <3>. QED  BY <3>1 DEF MentionInv, Books, WithinAttempts
  <2>2. CASE p = post'
    <3>1. taken'[p] = taken[p] + 1 /\ MayMake(p)' = MaxCalls
      BY <1>2, <2>2 DEF MayMake
    <3>2. MaxCalls * taken'[p] = MaxCalls * taken[p] + MaxCalls
      BY <3>1, AnotherEvent
    <3>3. MaxCalls * taken[p] \in Nat
      BY AnotherEvent
    <3>. QED  BY <2>1, <3>1, <3>2, <3>3
  <2>3. CASE p # post'
    <3>1. taken'[p] = taken[p] /\ MayMake(p)' = 0
      BY <1>2, <2>3 DEF MayMake
    <3>. QED  BY <2>1, <3>1
  <2>. QED  BY <2>2, <2>3
<1>. QED  BY <1>3, <1>4 DEF Books

\* What a post may still get never grows while no event is taken up.
LEMMA NoMoreNotes ==
  ASSUME MentionInv, taken' = taken, notes' \in [Posts -> Nat],
         \A p \in Posts : /\ MayMake(p)' \in Nat
                          /\ notes'[p] + MayMake(p)' <= notes[p] + MayMake(p)
                          /\ p \notin OwnersPosts => notes'[p] = notes[p]
  PROVE  WithinAttempts'
<1>. SUFFICES ASSUME NEW p \in Posts
              PROVE  /\ notes'[p] + MayMake(p)' <= MaxCalls * taken[p]
                     /\ p \notin OwnersPosts => notes'[p] = 0
  BY DEF WithinAttempts
<1>1. /\ notes[p] + MayMake(p) <= MaxCalls * taken[p]
      /\ p \notin OwnersPosts => notes[p] = 0
  BY DEF MentionInv, Books, WithinAttempts
<1>2. MaxCalls * taken[p] \in Nat /\ notes[p] \in Nat /\ notes'[p] \in Nat
  BY BookTypes, AnotherEvent
<1>3. MayMake(p) \in Nat
  BY BookTypes DEF MayMake
<1>. QED  BY <1>1, <1>2, <1>3

\* The handler gives a post up, or finds it recorded: nothing else changes.
LEMMA IdleBooks ==
  ASSUME MentionInv, Idle, step # "record",
         UNCHANGED <<recorded, notes, taken, doubted>>
  PROVE  Books'
<1>. USE BookTypes DEF Idle
<1>1. HandlesUnrecorded' /\ RecordsAreOfNotes'
  BY DEF MentionInv, Books, HandlesUnrecorded, RecordsAreOfNotes
<1>2. NotesAreRecorded'
  BY DEF MentionInv, Books, NotesAreRecorded
<1>3. WithinAttempts'
  BY NoMoreNotes DEF MayMake
<1>. QED  BY <1>1, <1>2, <1>3 DEF Books

\* The look-up lets only an unrecorded post of the owner through.
LEMMA LookUpBooks ==
  ASSUME MentionInv, LookUp
  PROVE  Books'
<1>. USE BookTypes DEF LookUp
<1>1. CASE Idle
  BY <1>1, IdleBooks
<1>2. CASE ~ Idle
  <2>1. /\ post \in OwnersPosts /\ post \notin recorded
        /\ step = "lookup" /\ step' \in {"images", "note"}
        /\ post' = post /\ calls' = MaxCalls
        /\ UNCHANGED <<recorded, notes, taken, doubted>>
    BY <1>2 DEF IsRecorded
  <2>2. HandlesUnrecorded' /\ RecordsAreOfNotes'
    BY <2>1 DEF MentionInv, Books, HandlesUnrecorded, RecordsAreOfNotes
  <2>3. NotesAreRecorded'
    BY <2>1 DEF MentionInv, Books, NotesAreRecorded
  <2>4. WithinAttempts'
    BY <2>1, NoMoreNotes DEF MayMake
  <2>. QED  BY <2>2, <2>3, <2>4 DEF Books
<1>. QED  BY <1>1, <1>2

\* The images are there: the first call of CreateNote is next.
LEMMA ImagesBooks ==
  ASSUME MentionInv, ImagesUploaded
  PROVE  Books'
<1>. USE BookTypes
<1>1. /\ step = "images" /\ calls = MaxCalls /\ step' = "note"
      /\ UNCHANGED <<post, calls, recorded, notes, taken, doubted>>
  BY DEF ImagesUploaded, MentionInv, Books, HandlesUnrecorded, handler
<1>2. HandlesUnrecorded' /\ RecordsAreOfNotes'
  BY <1>1 DEF MentionInv, Books, HandlesUnrecorded, RecordsAreOfNotes
<1>3. NotesAreRecorded'
  BY <1>1 DEF MentionInv, Books, NotesAreRecorded
<1>4. WithinAttempts'
  BY <1>1, NoMoreNotes DEF MayMake
<1>. QED  BY <1>2, <1>3, <1>4 DEF Books

\* A post that is at the point of getting a note has none, unless in doubt.
LEMMA CreateNoteBooks ==
  ASSUME MentionInv, CreateNote
  PROVE  Books'
<1>. USE BookTypes
<1>1. /\ step = "note" /\ step' = "record" /\ calls' = 0
      /\ UNCHANGED <<post, recorded, taken, doubted>>
      /\ post \in Posts /\ post \in OwnersPosts /\ post \notin recorded
  BY DEF CreateNote, MentionInv, Books, HandlesUnrecorded
<1>2. /\ notes' \in [Posts -> Nat] /\ notes'[post] = notes[post] + 1
      /\ \A p \in Posts \ {post} : notes'[p] = notes[p]
  BY <1>1 DEF CreateNote, Created
<1>3. HandlesUnrecorded' /\ RecordsAreOfNotes'
  BY <1>1, <1>2 DEF MentionInv, Books, HandlesUnrecorded, RecordsAreOfNotes
<1>4. NotesAreRecorded'
  BY <1>1, <1>2 DEF MentionInv, Books, NotesAreRecorded
<1>5. WithinAttempts'
  BY <1>1, <1>2, NoMoreNotes DEF MayMake
<1>. QED  BY <1>3, <1>4, <1>5 DEF Books

\* A call that fails may have made the note: then its post is in doubt.
LEMMA NoteFailsBooks ==
  ASSUME MentionInv, NoteFails
  PROVE  Books'
<1>. USE BookTypes
<1>1. /\ step = "note" /\ calls > 0 /\ UNCHANGED <<recorded, taken>>
      /\ post \in Posts /\ post \in OwnersPosts /\ post \notin recorded
  BY DEF NoteFails, MentionInv, Books, HandlesUnrecorded
<1>2. \/ /\ doubted' = doubted \cup {post} /\ notes' \in [Posts -> Nat]
         /\ notes'[post] = notes[post] + 1
         /\ \A p \in Posts \ {post} : notes'[p] = notes[p]
      \/ doubted' = doubted /\ notes' = notes
  BY <1>1 DEF NoteFails, Created
<1>3. \/ post' = 0 /\ step' = "idle" /\ calls' = 0
      \/ post' = post /\ step' = "note" /\ calls' = calls - 1 /\ calls' \in Nat
  BY <1>1 DEF NoteFails, Idle
<1>4. HandlesUnrecorded'
  BY <1>1, <1>3 DEF HandlesUnrecorded
<1>5. RecordsAreOfNotes'
  BY <1>1, <1>2 DEF MentionInv, Books, RecordsAreOfNotes
<1>6. NotesAreRecorded'
  BY <1>1, <1>2, <1>3 DEF MentionInv, Books, NotesAreRecorded
<1>7. WithinAttempts'
  <2>1. notes' \in [Posts -> Nat] /\ notes'[post] <= notes[post] + 1
    BY <1>1, <1>2
  <2>2. ASSUME NEW p \in Posts
        PROVE  /\ MayMake(p)' \in Nat
               /\ notes'[p] + MayMake(p)' <= notes[p] + MayMake(p)
               /\ p \notin OwnersPosts => notes'[p] = notes[p]
    <3>1. CASE p = post
      <4>1. MayMake(p) = calls /\ MayMake(p)' \in Nat /\ MayMake(p)' + 1 <= calls
        BY <1>1, <1>3, <3>1 DEF MayMake
      <4>. QED  BY <1>1, <2>1, <3>1, <4>1
    <3>2. CASE p # post
      <4>1. MayMake(p) = 0 /\ MayMake(p)' = 0
        BY <1>1, <1>3, <3>2 DEF MayMake
      <4>. QED  BY <1>2, <3>2, <4>1
    <3>. QED  BY <3>1, <3>2
  <2>. QED  BY <1>1, <2>1, <2>2, NoMoreNotes
<1>. QED  BY <1>4, <1>5, <1>6, <1>7 DEF Books

\* The record: its post has its note, and the handler is free.
LEMMA RecordPostBooks ==
  ASSUME MentionInv, RecordPost
  PROVE  Books'
<1>. USE BookTypes
<1>1. /\ step = "record" /\ step' = "idle" /\ post' = 0 /\ calls' = 0
      /\ recorded' = recorded \cup {post}
      /\ UNCHANGED <<notes, taken, doubted>> /\ post \in Posts
      /\ notes[post] > 0
  BY DEF RecordPost, Idle, MentionInv, Books, HandlesUnrecorded
<1>2. HandlesUnrecorded' /\ RecordsAreOfNotes'
  BY <1>1 DEF MentionInv, Books, HandlesUnrecorded, RecordsAreOfNotes
<1>3. NotesAreRecorded'
  BY <1>1 DEF MentionInv, Books, NotesAreRecorded
<1>4. WithinAttempts'
  BY <1>1, NoMoreNotes DEF MayMake
<1>. QED  BY <1>2, <1>3, <1>4 DEF Books

\* The record fails, or the process ends before it: the note is in doubt
\* unless the record was made after all.
LEMMA UnrecordedBooks ==
  ASSUME MentionInv, step = "record", Idle, UNCHANGED <<notes, taken>>,
         \/ recorded' = recorded \cup {post} /\ UNCHANGED doubted
         \/ doubted' = doubted \cup {post} /\ UNCHANGED recorded
  PROVE  Books'
<1>. USE BookTypes DEF Idle
<1>1. post \in Posts /\ notes[post] > 0
  BY DEF MentionInv, Books, HandlesUnrecorded
<1>2. HandlesUnrecorded' /\ RecordsAreOfNotes'
  BY <1>1 DEF MentionInv, Books, HandlesUnrecorded, RecordsAreOfNotes
<1>3. NotesAreRecorded'
  BY <1>1 DEF MentionInv, Books, NotesAreRecorded
<1>4. WithinAttempts'
  BY <1>1, NoMoreNotes DEF MayMake
<1>. QED  BY <1>2, <1>3, <1>4 DEF Books

-----------------------------------------------------------------------------
(* The theorems.                                                           *)

\* Every step keeps the books.
LEMMA BooksNext ==
  ASSUME MentionInv, [MentionStep]_mentionVars
  PROVE  Books'
<1>1. CASE SendEvent \/ WatchStep \/ StreamEnds
  BY <1>1, BooksUnmoved DEF SendEvent, StreamEnds, WatchStep, Connect, ReadEvent,
     Enqueue, PauseOver, WatchReturns, handler
<1>2. CASE HandlerStep
  <2>1. CASE GivesUp
    BY <2>1, IdleBooks DEF GivesUp
  <2>2. CASE RecordFault
    BY <2>2, UnrecordedBooks DEF RecordFault
  <2>. QED
    BY <1>2, <2>1, <2>2, TakeEventBooks, LookUpBooks, ImagesBooks, CreateNoteBooks,
       NoteFailsBooks, RecordPostBooks DEF HandlerStep
<1>3. CASE Halt
  <2>1. CASE step = "record"
    BY <1>3, <2>1, UnrecordedBooks DEF Halt
  <2>2. CASE step # "record"
    BY <1>3, <2>2, IdleBooks DEF Halt
  <2>. QED  BY <2>1, <2>2
<1>4. CASE Begin \/ Signal \/ StartAgain
  BY <1>4, BooksUnmoved DEF Begin, Signal, StartAgain, handler
<1>5. CASE UNCHANGED mentionVars
  BY <1>5, BooksUnmoved DEF mentionVars, handler
<1>. QED  BY <1>1, <1>2, <1>3, <1>4, <1>5 DEF MentionStep, ProcessStep

\* MentionInv is an invariant of the mentions.
LEMMA MentionInvariance == MentionSpec => []MentionInv
<1>1. MentionInv /\ [MentionStep]_mentionVars => MentionInv'
  BY MentionTypeNext, BooksNext DEF MentionInv
<1>. QED  BY MentionInvInit, <1>1, PTL DEF MentionSpec

\* A post of the owner gets a second note only in doubt, and at most MaxCalls
\* for each event of it that the worker took up; nobody else's post gets any; a
\* record is of a note that exists.  Whatever mixi2 sends and however often the
\* process stops (the comment of ForwardedOnce).
THEOREM MentionForwardedOnce == MentionSpec => []ForwardedOnce
<1>1. ASSUME MentionInv
      PROVE  ForwardedOnce
  <2>. SUFFICES ASSUME NEW p \in Posts
                PROVE  /\ notes[p] > 1 => p \in doubted
                       /\ notes[p] <= IF p \in OwnersPosts THEN MaxCalls * taken[p]
                                      ELSE 0
                       /\ p \in recorded => notes[p] > 0
    BY DEF ForwardedOnce
  <2>. USE <1>1, BookTypes DEF MentionInv, Books
  <2>1. notes[p] > 1 => p \in doubted
    BY DEF NotesAreRecorded
  <2>2. notes[p] <= MaxCalls * taken[p] /\ (p \notin OwnersPosts => notes[p] = 0)
    <3>1. MayMake(p) \in Nat
      BY DEF MayMake
    <3>2. MaxCalls * taken[p] \in Nat
      BY AnotherEvent
    <3>. QED  BY <3>1, <3>2 DEF WithinAttempts
  <2>3. p \in recorded => notes[p] > 0
    BY DEF RecordsAreOfNotes
  <2>. QED  BY <2>1, <2>2, <2>3
<1>. QED  BY <1>1, MentionInvariance, PTL

\* The post whose note is there and whose record is not.
ToRecord == IF step = "record" THEN {post} ELSE {}

\* Every step is one of Forwarding, or nothing of it: CreateNote is Answered, or
\* Unanswered when it fails although the note is there; a record that is never
\* made is LoseTrack.
LEMMA ForwardingNext ==
  ASSUME MentionInv, [MentionStep]_mentionVars
  PROVE  [Bridge!Next]_(Bridge!vars)
<1>. USE DEF reading, handler, counts, ToRecord
<1>0. /\ step # "idle" => post \in Posts /\ post # 0
      /\ step \in {"images", "note", "record"} => post \notin recorded
      /\ step = "note" /\ notes[post] > 0 => post \in doubted
  <2>1. step # "idle" => post \in Posts /\ post # 0
    BY DEF MentionInv, MentionTypeOK
  <2>2. step \in {"images", "note", "record"} => post \notin recorded
    BY DEF MentionInv, Books, HandlesUnrecorded
  <2>3. step = "note" /\ post \notin doubted => notes[post] = 0
    BY <2>1, <2>2 DEF MentionInv, Books, NotesAreRecorded
  <2>. QED  BY <2>1, <2>2, <2>3
<1>1. ASSUME UNCHANGED <<notes, recorded, doubted>>, ToRecord' = ToRecord
      PROVE  UNCHANGED Bridge!vars
  BY <1>1 DEF Bridge!vars
<1>2. CASE \/ SendEvent \/ WatchStep \/ StreamEnds \/ Begin \/ StartAgain \/ Signal
           \/ UNCHANGED mentionVars
  <2>1. UNCHANGED <<post, step, notes, recorded, doubted>>
    BY <1>2 DEF SendEvent, WatchStep, Connect, ReadEvent, Enqueue, PauseOver,
       WatchReturns, StreamEnds, Begin, StartAgain, Signal, mentionVars
  <2>. QED  BY <1>1, <2>1
<1>3. CASE TakeEvent \/ LookUp \/ GivesUp \/ ImagesUploaded
  <2>1. step # "record" /\ step' # "record" /\ UNCHANGED <<notes, recorded, doubted>>
    BY <1>3 DEF TakeEvent, LookUp, GivesUp, ImagesUploaded, Idle
  <2>. QED  BY <1>1, <2>1
<1>4. CASE CreateNote
  <2>1. /\ step = "note" /\ notes' = [notes EXCEPT ![post] = @ + 1]
        /\ ToRecord = {} /\ ToRecord' = {post} /\ UNCHANGED <<recorded, doubted>>
    BY <1>4 DEF CreateNote, Created
  <2>2. Bridge!Answered(post)
    BY <1>0, <2>1 DEF Bridge!Answered, Bridge!Forward
  <2>. QED  BY <1>0, <2>1, <2>2 DEF Bridge!Next
<1>5. CASE NoteFails
  <2>1. /\ step = "note" /\ ToRecord = {} /\ ToRecord' = {} /\ recorded' = recorded
    BY <1>5 DEF NoteFails, Idle
  <2>2. CASE UNCHANGED <<notes, doubted>>
    BY <1>1, <2>1, <2>2
  <2>3. CASE Created /\ doubted' = doubted \cup {post}
    <3>1. Bridge!Unanswered(post)
      BY <1>0, <2>1, <2>3 DEF Created, Bridge!Unanswered, Bridge!Forward
    <3>. QED  BY <1>0, <2>1, <3>1 DEF Bridge!Next
  <2>. QED  BY <1>5, <2>2, <2>3 DEF NoteFails
<1>6. CASE RecordPost \/ RecordFault
  <2>1. /\ step = "record" /\ ToRecord = {post} /\ ToRecord' = {} /\ notes' = notes
        /\ \/ recorded' = recorded \cup {post} /\ doubted' = doubted
           \/ doubted' = doubted \cup {post} /\ recorded' = recorded
    BY <1>6 DEF RecordPost, RecordFault, Idle
  <2>2. Bridge!Record(post) \/ Bridge!LoseTrack(post)
    BY <2>1 DEF Bridge!Record, Bridge!LoseTrack
  <2>. QED  BY <1>0, <2>1, <2>2 DEF Bridge!Next
<1>7. CASE Halt
  <2>1. /\ ToRecord' = {} /\ doubted' = doubted \cup ToRecord
        /\ UNCHANGED <<recorded, notes>>
    BY <1>7 DEF Halt, Idle
  <2>2. CASE step # "record"
    BY <1>1, <2>1, <2>2
  <2>3. CASE step = "record"
    <3>1. Bridge!LoseTrack(post)
      BY <2>1, <2>3 DEF Bridge!LoseTrack
    <3>. QED  BY <1>0, <2>3, <3>1 DEF Bridge!Next
  <2>. QED  BY <2>2, <2>3
<1>. QED
  BY <1>2, <1>3, <1>4, <1>5, <1>6, <1>7 DEF MentionStep, HandlerStep, ProcessStep

\* The events, the handler, the records and the halts together do what
\* Forwarding promises: a post of which there is a record is never posted again
\* (HandleMentionedPost, isProcessed).
THEOREM MentionKeepsPromise == MentionSpec => ForwardingSpec
<1>1. MentionInit => Bridge!Init
  BY DEF MentionInit, Bridge!Init
<1>. QED  BY <1>1, ForwardingNext, MentionInvariance, PTL
             DEF MentionSpec, ForwardingSpec, Bridge!Spec

-----------------------------------------------------------------------------
(* The nightly synchronisation.  A page is missed from only when removals    *)
(* have moved check-ins up: SwarmInv counts what the pages behind a run's    *)
(* offset no longer show, and what is left when they have all come.         *)

\* Nights are in time, and a run asks for all of the time it is for, which has
\* passed.
InTime ==
  /\ Day <= nextNight
  /\ daemon => hour <= nextNight + Lateness
  /\ \A w \in Runners : runs[w] # NotRunning =>
       /\ runs[w].until <= hour
       /\ runs[w].since <= runs[w].from
       /\ runs[w].stage = "update" => runs[w].all # <<>>

\* Check-ins of the time of a run.
Due(run) ==
  {c \in DOMAIN madeAt \ removed : run.from < madeAt[c] /\ madeAt[c] < run.until}

\* Those that the run has not got and that are before its offset by now.
Missed(w) ==
  {c \in Due(runs[w]) : /\ c \notin Entries(runs[w].all)
                        /\ Place(Found(w), c) <= runs[w].offset}

\* Those that it would leave out if it did no more than it has on its list.
Unserved(w) == {c \in LeftOut(runs[w]) : c \notin Entries(runs[w].all)}

\* There are no more of either than check-ins were removed while it paged.
FewMissed(w) ==
  /\ Fetching(w) => Cardinality(Missed(w)) <= runs[w].removals
  /\ runs[w].stage \in {"insert", "update"} =>
       Cardinality(Unserved(w)) <= runs[w].removals

MissedByRemovals == \A w \in Runners : FewMissed(w)

SwarmInv == SwarmTypeOK /\ InTime /\ MissedByRemovals /\ LeftOutOnlyByRemovals


\* A part of a finite set has no more elements.
LEMMA Fewer ==
  ASSUME NEW S, IsFiniteSet(S), NEW T, T \subseteq S
  PROVE  /\ IsFiniteSet(T) /\ Cardinality(T) \in Nat /\ Cardinality(S) \in Nat
         /\ Cardinality(T) <= Cardinality(S)
         /\ Cardinality(S) = Cardinality(T) => S = T
BY FS_Subset, FS_CardinalityType

\* Every check-in has a place of its own, and every place has a check-in.
LEMMA Places ==
  ASSUME NEW S, S \subseteq Nat, IsFiniteSet(S)
  PROVE  /\ Cardinality(S) \in Nat
         /\ \A c \in S : Place(S, c) \in 1 .. Cardinality(S)
         /\ \A c, d \in S : Place(S, c) = Place(S, d) => c = d
         /\ \A k \in 1 .. Cardinality(S) : \E c \in S : Place(S, c) = k
<1>. DEFINE From(c) == {d \in S : d >= c}
<1>1. \A c \in S : /\ IsFiniteSet(From(c)) /\ Place(S, c) = Cardinality(From(c))
                   /\ Cardinality(From(c)) \in Nat
                   /\ Cardinality(From(c)) <= Cardinality(S)
                   /\ Cardinality(S) \in Nat
                   /\ c \in From(c)
  BY Fewer DEF Place
<1>2. ASSUME NEW c \in S, NEW d \in S, c < d
      PROVE  Place(S, c) # Place(S, d)
  <2>1. From(d) \subseteq From(c) /\ c \in From(c) /\ c \notin From(d)
    <3>1. \A e \in S : e >= d => e >= c
      BY <1>2
    <3>2. c >= c /\ ~ (c >= d)
      BY <1>2
    <3>. QED  BY <3>1, <3>2
  <2>2. Cardinality(From(c)) # Cardinality(From(d))
    BY <1>1, <2>1, Fewer
  <2>. QED  BY <1>1, <2>2
<1>3. \A c, d \in S : Place(S, c) = Place(S, d) => c = d
  <2>1. \A c, d \in S : c = d \/ c < d \/ d < c
    OBVIOUS
  <2>. QED  BY <1>2, <2>1
<1>. HIDE DEF From
<1>4. \A c \in S : Cardinality(From(c)) # 0
  BY <1>1, FS_EmptySet
<1>5. Cardinality(S) \in Nat
  BY FS_CardinalityType
<1>6. \A c \in S : Place(S, c) \in 1 .. Cardinality(S)
  BY <1>1, <1>4
<1>. DEFINE n == Cardinality(S)
            f == [c \in S |-> Place(S, c)]
<1>7. IsFiniteSet(1 .. n) /\ Cardinality(1 .. n) = n
  BY <1>5, FS_Interval
<1>8. f \in Injection(S, 1 .. n)
  BY <1>3, <1>6 DEF Injection, IsInjective
<1>. HIDE DEF f
<1>9. f \in Surjection(S, 1 .. n)
  BY <1>7, <1>8, FS_Injection
<1>10. \A k \in 1 .. n : \E c \in S : f[c] = k
  BY <1>9 DEF Surjection
<1>11. \A k \in 1 .. n : \E c \in S : Place(S, c) = k
  BY <1>10 DEF f
<1>. QED  BY <1>3, <1>5, <1>6, <1>11

\* A removal moves a check-in up by one place at most.
LEMMA PlaceAfterRemoval ==
  ASSUME NEW S, S \subseteq Nat, IsFiniteSet(S), NEW x, NEW c \in S
  PROVE  Place(S, c) <= Place(S \ {x}, c) + 1
<1>. DEFINE U == {d \in S : d >= c}
            V == {d \in S \ {x} : d >= c}
<1>1. V = U \ {x}
  OBVIOUS
<1>2. IsFiniteSet(U) /\ Cardinality(U) \in Nat
  BY Fewer
<1>3. IsFiniteSet(V) /\ Cardinality(V) \in Nat
  BY <1>1, <1>2, Fewer
<1>4. Cardinality(V) = IF x \in U THEN Cardinality(U) - 1 ELSE Cardinality(U)
  BY <1>1, <1>2, FS_RemoveElement
<1>. QED  BY <1>2, <1>3, <1>4 DEF Place

\* What is added moves none up.
LEMMA PlaceAfterAddition ==
  ASSUME NEW S, NEW T, S \subseteq T, IsFiniteSet(T), NEW c
  PROVE  /\ Place(S, c) \in Nat /\ Place(T, c) \in Nat
         /\ Place(S, c) <= Place(T, c)
<1>1. {d \in S : d >= c} \subseteq {d \in T : d >= c}
  OBVIOUS
<1>2. IsFiniteSet({d \in T : d >= c})
  BY Fewer
<1>. QED  BY <1>1, <1>2, Fewer DEF Place

\* The numbers and sets of the synchronisation.
LEMMA SwarmSets ==
  ASSUME SwarmTypeOK
  PROVE  /\ hour \in Nat /\ hour <= LastTime /\ LastTime \in Nat
         /\ PageLimit \in Nat /\ PageLimit > 0
         /\ Day \in Nat /\ Day > 0 /\ Overlap \in Nat
         /\ Lateness \in Nat /\ Lateness <= Overlap
         /\ madeAt \in Seq(Nat) /\ Len(madeAt) \in Nat
         /\ DOMAIN madeAt = 1 .. Len(madeAt) /\ Len(madeAt) <= MaxCheckins
         /\ MaxCheckins \in Nat
         /\ DOMAIN madeAt \subseteq Checkins /\ Checkins \subseteq Nat
         /\ IsFiniteSet(DOMAIN madeAt)
         /\ \A c \in DOMAIN madeAt : madeAt[c] \in Nat /\ madeAt[c] <= hour
         /\ \A w \in Runners : \/ runs[w] = NotRunning
                               \/ runs[w] \in RunOf({"fetch", "insert", "update"})
<1>1. /\ hour \in Nat /\ hour <= LastTime /\ LastTime \in Nat
      /\ PageLimit \in Nat /\ PageLimit > 0
      /\ Day \in Nat /\ Day > 0 /\ Overlap \in Nat
      /\ Lateness \in Nat /\ Lateness <= Overlap
      /\ MaxCheckins \in Nat
  BY SwarmAssumption, SwarmBounds DEF SwarmTypeOK
<1>2. madeAt \in Seq(0 .. hour) /\ Len(madeAt) <= MaxCheckins
  BY DEF SwarmTypeOK
<1>3. Len(madeAt) \in Nat /\ DOMAIN madeAt = 1 .. Len(madeAt)
  BY <1>2, LenProperties
<1>4. \A c \in DOMAIN madeAt : madeAt[c] \in 0 .. hour
  BY <1>2, <1>3, ElementOfSeq
<1>5. 0 .. hour \subseteq Nat
  BY <1>1
<1>6. madeAt \in Seq(Nat)
  BY <1>2, <1>5, WiderQueue
<1>7. DOMAIN madeAt \subseteq Checkins /\ Checkins \subseteq Nat
  <2>1. 1 .. Len(madeAt) \subseteq 1 .. MaxCheckins
    BY <1>1, <1>2, <1>3
  <2>2. 1 .. MaxCheckins \subseteq Nat
    BY <1>1
  <2>. QED  BY <1>3, <2>1, <2>2 DEF Checkins
<1>8. IsFiniteSet(DOMAIN madeAt)
  BY <1>3, FS_Interval
<1>9. \A w \in Runners : \/ runs[w] = NotRunning
                         \/ runs[w] \in RunOf({"fetch", "insert", "update"})
  BY DEF SwarmTypeOK
<1>. QED  BY <1>1, <1>2, <1>3, <1>4, <1>6, <1>7, <1>8, <1>9

\* What a run knows.
LEMMA RunTypes ==
  ASSUME SwarmTypeOK, NEW w \in Runners, runs[w] # NotRunning
  PROVE  /\ runs[w].stage \in {"fetch", "insert", "update"}
         /\ runs[w].since \in Int /\ runs[w].offset \in Nat
         /\ runs[w].all \in Seq(Checkins)
         /\ runs[w].from \in Int /\ runs[w].until \in Nat
         /\ runs[w].removals \in Nat /\ runs[w].deleted \in SUBSET Checkins
         /\ DOMAIN runs[w] = {"stage", "since", "offset", "all", "from", "until",
                              "removals", "deleted"}
BY SwarmSets DEF RunOf

\* A run that is at work is not idle.
LEMMA Idleness ==
  ASSUME SwarmTypeOK, NEW w \in Runners
  PROVE  runs[w] = NotRunning <=> runs[w].stage \notin {"fetch", "insert", "update"}
<1>1. NotRunning.stage = "idle"
  BY DEF NotRunning
<1>. QED  BY <1>1, RunTypes

\* What a run would find is a set of check-ins.
LEMMA FoundSets ==
  ASSUME SwarmTypeOK, NEW w \in Runners
  PROVE  /\ Found(w) \subseteq DOMAIN madeAt /\ Found(w) \subseteq Nat
         /\ Found(w) \subseteq Checkins
         /\ IsFiniteSet(Found(w))
BY SwarmSets, Fewer DEF Found

\* A page shows the places after the offset, and is short only at the end.
LEMMA PageProperties ==
  ASSUME SwarmTypeOK, NEW w \in Runners, Fetching(w)
  PROVE  /\ Page(w) \in Seq(Checkins) /\ Len(Page(w)) \in Nat
         /\ \A c \in Found(w) :
              /\ runs[w].offset < Place(Found(w), c)
              /\ Place(Found(w), c) <= runs[w].offset + PageLimit
              => c \in Entries(Page(w))
         /\ Len(Page(w)) < PageLimit =>
              \A c \in Found(w) : Place(Found(w), c) < runs[w].offset + PageLimit
<1>. DEFINE S == Found(w)
            o == runs[w].offset
            n == Lesser(PageLimit, Cardinality(S) - o)
            k == IF n < 0 THEN 0 ELSE n
<1>1. o \in Nat
  <2>1. runs[w] # NotRunning
    BY DEF Fetching, NotRunning
  <2>. QED  BY <2>1, RunTypes
<1>2. S \subseteq Nat /\ S \subseteq Checkins /\ IsFiniteSet(S) /\ Cardinality(S) \in Nat
  BY FoundSets, FS_CardinalityType
<1>3. PageLimit \in Nat /\ PageLimit > 0
  BY SwarmSets
<1>. HIDE DEF S, o
<1>0. /\ \A c \in S : Place(S, c) \in Nat /\ Place(S, c) <= Cardinality(S)
      /\ \A c, d \in S : Place(S, c) = Place(S, d) => c = d
      /\ \A p \in 1 .. Cardinality(S) : \E c \in S : Place(S, c) = p
  <2>1. /\ \A c \in S : Place(S, c) \in 1 .. Cardinality(S)
        /\ \A c, d \in S : Place(S, c) = Place(S, d) => c = d
        /\ \A p \in 1 .. Cardinality(S) : \E c \in S : Place(S, c) = p
    BY ONLY <1>2, Places
  <2>. QED  BY <1>2, <2>1
<1>4. /\ n \in Int /\ k \in Nat /\ 1 .. n = 1 .. k
      /\ k <= PageLimit /\ (k + o <= Cardinality(S) \/ k = 0)
      /\ (k = PageLimit \/ Cardinality(S) < o + PageLimit)
      /\ \A p \in Nat : o < p /\ p <= o + PageLimit /\ p <= Cardinality(S) => p - o \in 1 .. k
  BY <1>1, <1>2, <1>3 DEF Lesser
<1>5. Page(w) = [i \in 1 .. k |-> CHOOSE c \in S : Place(S, c) = o + i]
  BY <1>4 DEF Page, S, o
<1>. HIDE DEF k
<1>6. \A i \in 1 .. k : \E c \in S : Place(S, c) = o + i
  <2>1. \A i \in 1 .. k : o + i \in 1 .. Cardinality(S)
    BY <1>1, <1>2, <1>4
  <2>. QED  BY <1>0, <2>1
<1>7. \A i \in 1 .. k : Page(w)[i] \in S /\ Place(S, Page(w)[i]) = o + i
  BY <1>5, <1>6
<1>8. Page(w) \in Seq(Checkins) /\ Len(Page(w)) = k
  <2>1. \A i \in 1 .. k : Page(w)[i] \in Checkins
    BY <1>2, <1>7
  <2>. QED  BY <1>4, <1>5, <2>1
<1>9. ASSUME NEW c \in S, o < Place(S, c), Place(S, c) <= o + PageLimit
      PROVE  c \in Entries(Page(w))
  <2>. DEFINE i == Place(S, c) - o
  <2>1. Place(S, c) \in Nat /\ Place(S, c) <= Cardinality(S)
    BY <1>0
  <2>2. i \in 1 .. k /\ o + i = Place(S, c)
    BY <1>1, <1>4, <1>9, <2>1
  <2>3. Page(w)[i] = c
    BY <1>0, <1>7, <2>2
  <2>. QED  BY <1>8, <2>2, <2>3 DEF Entries
<1>10. Len(Page(w)) < PageLimit => \A c \in S : Place(S, c) < o + PageLimit
  BY <1>0, <1>1, <1>2, <1>3, <1>4, <1>8
<1>. QED  BY <1>4, <1>8, <1>9, <1>10 DEF S, o


\* The states a run may be in.
RunStates == {NotRunning} \cup RunOf({"fetch", "insert", "update"})

\* One run changes, the other does not.
LEMMA OneRunChanges ==
  ASSUME SwarmTypeOK, NEW w \in Runners, NEW r \in RunStates,
         runs' = [runs EXCEPT ![w] = r]
  PROVE  /\ runs' \in [Runners -> RunStates]
         /\ runs'[w] = r
         /\ \A v \in Runners : v # w => runs'[v] = runs[v]
<1>1. runs \in [Runners -> RunStates]
  BY DEF SwarmTypeOK, RunStates
<1>. QED  BY <1>1

\* What a run remembers while its list changes.
SameAim(a, b) ==
  /\ a.since = b.since /\ a.from = b.from /\ a.until = b.until
  /\ a.removals = b.removals /\ a.deleted = b.deleted

\* A request brings a page.
LEMMA FetchPageEffect ==
  ASSUME SwarmTypeOK, NEW w \in Runners, FetchPage(w)
  PROVE  LET run == runs[w]
             next == runs'[w]
         IN  /\ runs' \in [Runners -> RunStates]
             /\ \A v \in Runners : v # w => runs'[v] = runs[v]
             /\ next.stage = IF Len(Page(w)) < PageLimit THEN "insert" ELSE "fetch"
             /\ next.offset = run.offset + PageLimit
             /\ Entries(next.all) = Entries(run.all) \cup Entries(Page(w))
             /\ SameAim(next, run)
<1>. DEFINE run == runs[w]
            p == Page(w)
            st == IF Len(p) < PageLimit THEN "insert" ELSE "fetch"
            next == [run EXCEPT !.all = @ \o p, !.offset = @ + PageLimit, !.stage = st]
<1>1. runs[w] # NotRunning /\ Fetching(w)
  BY DEF FetchPage, Fetching, NotRunning
<1>2. /\ run.offset \in Nat /\ run.all \in Seq(Checkins)
      /\ run \in RunOf({"fetch", "insert", "update"})
  BY <1>1, RunTypes, SwarmSets
<1>3. p \in Seq(Checkins) /\ Len(p) \in Nat
  BY <1>1, PageProperties
<1>4. run.offset + PageLimit \in Nat
  <2>1. PageLimit \in Nat
    BY SwarmSets
  <2>. QED  BY ONLY <1>2, <2>1
<1>5. runs' = [runs EXCEPT ![w] = next]
  BY DEF FetchPage
<1>6. st \in {"fetch", "insert", "update"}
  OBVIOUS
<1>. HIDE DEF p, st
<1>7. run.all \o p \in Seq(Checkins) /\ Entries(run.all \o p) = Entries(run.all) \cup Entries(p)
  <2>. DEFINE a == run.all
  <2>1. /\ a \o p \in Seq(Checkins) /\ Len(a \o p) = Len(a) + Len(p)
        /\ \A i \in 1 .. Len(a) + Len(p) :
             (a \o p)[i] = IF i <= Len(a) THEN a[i] ELSE p[i - Len(a)]
    BY ONLY <1>2, <1>3, ConcatProperties
  <2>2. Len(a) \in Nat /\ Len(p) \in Nat
    BY <1>2, <1>3, LenProperties
  <2>. HIDE DEF a
  <2>3. \A i \in 1 .. Len(a) + Len(p) : (a \o p)[i] \in Entries(a) \cup Entries(p)
    BY ONLY <2>1, <2>2 DEF Entries
  <2>4. \A i \in 1 .. Len(a) : a[i] \in Entries(a \o p)
    <3>1. \A i \in 1 .. Len(a) : i \in 1 .. Len(a) + Len(p)
      BY ONLY <2>2
    <3>. QED  BY ONLY <2>1, <2>2, <3>1 DEF Entries
  <2>5. ASSUME NEW i \in 1 .. Len(p)
        PROVE  p[i] \in Entries(a \o p)
    <3>1. Len(a) + i \in 1 .. Len(a) + Len(p) /\ ~ (Len(a) + i <= Len(a))
          /\ (Len(a) + i) - Len(a) = i
      BY ONLY <2>2
    <3>2. (a \o p)[Len(a) + i] = p[i]
      BY ONLY <2>1, <3>1
    <3>. QED  BY ONLY <2>1, <3>1, <3>2 DEF Entries
  <2>6. Entries(a \o p) \subseteq Entries(a) \cup Entries(p)
    BY ONLY <2>1, <2>3 DEF Entries
  <2>7. Entries(a) \subseteq Entries(a \o p) /\ Entries(p) \subseteq Entries(a \o p)
    BY ONLY <2>4, <2>5 DEF Entries
  <2>. QED  BY <2>1, <2>6, <2>7 DEF a
<1>8. /\ next \in RunOf({"fetch", "insert", "update"}) /\ SameAim(next, run)
      /\ next.all = run.all \o p /\ next.offset = run.offset + PageLimit
      /\ next.stage = st
  <2>1. run.all \o p \in Seq(Checkins)
    BY <1>7
  <2>. QED  BY ONLY <1>2, <1>4, <1>6, <2>1 DEF RunOf, SameAim
<1>. HIDE DEF next
<1>9. /\ runs' \in [Runners -> RunStates] /\ runs'[w] = next
      /\ \A v \in Runners : v # w => runs'[v] = runs[v]
  BY <1>5, <1>8, OneRunChanges DEF RunStates
<1>. QED  BY <1>7, <1>8, <1>9 DEF p, st

\* The first check-in on the list of a run that upserts is done.
LEMMA UpsertedEffect ==
  ASSUME SwarmTypeOK, NEW w \in Runners, Upserted(w),
         runs[w].stage \in {"insert", "update"}, runs[w].all # <<>>
  PROVE  LET run == runs[w]
             next == runs'[w]
         IN  /\ runs' \in [Runners -> RunStates]
             /\ \A v \in Runners : v # w => runs'[v] = runs[v]
             /\ next.stage = "insert"
             /\ Entries(run.all) = {Head(run.all)} \cup Entries(next.all)
             /\ Head(run.all) \in Checkins
             /\ SameAim(next, run)
<1>. DEFINE run == runs[w]
            next == [run EXCEPT !.all = Tail(@), !.stage = "insert"]
<1>1. runs[w] # NotRunning
  BY DEF NotRunning
<1>2. run.all \in Seq(Checkins) /\ run \in RunOf({"fetch", "insert", "update"})
  BY <1>1, RunTypes, SwarmSets
<1>3. runs' = [runs EXCEPT ![w] = next]
  BY DEF Upserted
<1>4. /\ Tail(run.all) \in Seq(Checkins) /\ Head(run.all) \in Checkins
      /\ Entries(run.all) = {Head(run.all)} \cup Entries(Tail(run.all))
  BY <1>2, Taken
<1>5. /\ next \in RunOf({"fetch", "insert", "update"}) /\ SameAim(next, run)
      /\ next.all = Tail(run.all) /\ next.stage = "insert"
  BY ONLY <1>2, <1>4 DEF RunOf, SameAim
<1>. HIDE DEF next
<1>6. /\ runs' \in [Runners -> RunStates] /\ runs'[w] = next
      /\ \A v \in Runners : v # w => runs'[v] = runs[v]
  BY <1>3, <1>5, OneRunChanges DEF RunStates
<1>. QED  BY <1>4, <1>5, <1>6

\* A run that begins is at its first page.
LEMMA BeginEffect ==
  ASSUME SwarmTypeOK, NEW w \in Runners, NEW from \in Int, NEW until \in Nat,
         NEW since \in Int, BeginRun(w, from, until, since)
  PROVE  LET next == runs'[w]
         IN  /\ runs' \in [Runners -> RunStates]
             /\ \A v \in Runners : v # w => runs'[v] = runs[v]
             /\ next.stage = "fetch" /\ next.offset = 0 /\ next.removals = 0
             /\ next.since = since /\ next.from = from /\ next.until = until
             /\ next # NotRunning
<1>. DEFINE next == [stage |-> "fetch", since |-> since, offset |-> 0, all |-> <<>>,
                     from |-> from, until |-> until, removals |-> 0, deleted |-> {}]
<1>1. <<>> \in Seq(Checkins) /\ 0 \in Nat /\ {} \in SUBSET Checkins
  BY EmptySeq
<1>2. next \in RunStates
  BY <1>1 DEF RunOf, RunStates
<1>3. /\ next.stage = "fetch" /\ next.offset = 0 /\ next.removals = 0
      /\ next.since = since /\ next.from = from /\ next.until = until
      /\ next # NotRunning
  BY DEF NotRunning
<1>4. runs' = [runs EXCEPT ![w] = next]
  BY DEF BeginRun
<1>. HIDE DEF next
<1>. QED  BY <1>2, <1>3, <1>4, OneRunChanges


\* A removal is noted by the runs that page.
LEMMA RemoveEffect ==
  ASSUME SwarmTypeOK, NEW c \in Checkins, RemoveCheckin(c)
  PROVE  /\ runs' \in [Runners -> RunStates]
         /\ \A w \in Runners :
              /\ runs[w] = NotRunning => runs'[w] = NotRunning
              /\ runs[w] # NotRunning =>
                   /\ runs'[w].stage = runs[w].stage /\ runs'[w].all = runs[w].all
                   /\ runs'[w].offset = runs[w].offset /\ runs'[w].since = runs[w].since
                   /\ runs'[w].from = runs[w].from /\ runs'[w].until = runs[w].until
                   /\ runs'[w].deleted = runs[w].deleted
                   /\ runs'[w].removals =
                        IF Fetching(w) THEN runs[w].removals + 1 ELSE runs[w].removals
<1>. DEFINE next(w) == IF Fetching(w) THEN [runs[w] EXCEPT !.removals = @ + 1] ELSE runs[w]
<1>1. runs' = [w \in Runners |-> next(w)]
  BY DEF RemoveCheckin
<1>2. ASSUME NEW w \in Runners, runs[w] = NotRunning
      PROVE  next(w) = NotRunning /\ next(w) \in RunStates
  BY <1>2 DEF Fetching, NotRunning, RunStates
<1>3. ASSUME NEW w \in Runners, runs[w] # NotRunning
      PROVE  /\ next(w) \in RunStates
             /\ next(w).stage = runs[w].stage /\ next(w).all = runs[w].all
             /\ next(w).offset = runs[w].offset /\ next(w).since = runs[w].since
             /\ next(w).from = runs[w].from /\ next(w).until = runs[w].until
             /\ next(w).deleted = runs[w].deleted
             /\ next(w).removals =
                  IF Fetching(w) THEN runs[w].removals + 1 ELSE runs[w].removals
  <2>1. runs[w] \in RunOf({"fetch", "insert", "update"}) /\ runs[w].removals + 1 \in Nat
    BY SMTT(30), <1>3, SwarmSets, RunTypes
  <2>2. CASE Fetching(w)
    <3>. DEFINE n == [runs[w] EXCEPT !.removals = @ + 1]
    <3>1. /\ n \in RunOf({"fetch", "insert", "update"})
          /\ n.stage = runs[w].stage /\ n.all = runs[w].all
          /\ n.offset = runs[w].offset /\ n.since = runs[w].since
          /\ n.from = runs[w].from /\ n.until = runs[w].until
          /\ n.deleted = runs[w].deleted /\ n.removals = runs[w].removals + 1
      BY ONLY <2>1 DEF RunOf
    <3>2. next(w) = n
      BY <2>2
    <3>. HIDE DEF n, next
    <3>. QED  BY <2>2, <3>1, <3>2 DEF RunStates
  <2>3. CASE ~ Fetching(w)
    BY <2>1, <2>3 DEF RunStates
  <2>. QED  BY <2>2, <2>3
<1>. HIDE DEF next
<1>. QED  BY <1>1, <1>2, <1>3

\* An event that somebody deletes is noted by the runs at work.
LEMMA DeleteEffect ==
  ASSUME SwarmTypeOK, NEW c \in Checkins, DeleteEvent(c)
  PROVE  /\ runs' \in [Runners -> RunStates]
         /\ \A w \in Runners :
              /\ runs[w] = NotRunning => runs'[w] = NotRunning
              /\ runs[w] # NotRunning =>
                   /\ runs'[w].stage = runs[w].stage /\ runs'[w].all = runs[w].all
                   /\ runs'[w].offset = runs[w].offset /\ runs'[w].since = runs[w].since
                   /\ runs'[w].from = runs[w].from /\ runs'[w].until = runs[w].until
                   /\ runs'[w].removals = runs[w].removals
                   /\ runs'[w].deleted = runs[w].deleted \cup {c}
<1>. DEFINE noted(w) == [runs[w] EXCEPT !.deleted = @ \cup {c}]
            next(w) == IF runs[w] = NotRunning THEN NotRunning ELSE noted(w)
<1>1. runs' = [w \in Runners |-> next(w)]
  BY DEF DeleteEvent
<1>2. ASSUME NEW w \in Runners, runs[w] # NotRunning
      PROVE  /\ noted(w) \in RunStates
             /\ noted(w).stage = runs[w].stage /\ noted(w).all = runs[w].all
             /\ noted(w).offset = runs[w].offset /\ noted(w).since = runs[w].since
             /\ noted(w).from = runs[w].from /\ noted(w).until = runs[w].until
             /\ noted(w).removals = runs[w].removals
             /\ noted(w).deleted = runs[w].deleted \cup {c}
  <2>1. /\ runs[w] \in RunOf({"fetch", "insert", "update"})
        /\ runs[w].deleted \cup {c} \in SUBSET Checkins
    BY <1>2, SwarmSets, RunTypes
  <2>2. /\ noted(w) \in RunOf({"fetch", "insert", "update"})
        /\ noted(w).stage = runs[w].stage /\ noted(w).all = runs[w].all
        /\ noted(w).offset = runs[w].offset /\ noted(w).since = runs[w].since
        /\ noted(w).from = runs[w].from /\ noted(w).until = runs[w].until
        /\ noted(w).removals = runs[w].removals
        /\ noted(w).deleted = runs[w].deleted \cup {c}
    BY ONLY <2>1 DEF RunOf
  <2>. HIDE DEF noted
  <2>. QED  BY <2>2 DEF RunStates
<1>3. NotRunning \in RunStates
  BY DEF RunStates
<1>. HIDE DEF noted
<1>. QED  BY <1>1, <1>2, <1>3

\* An insertion that is refused becomes an update of the same check-in.
LEMMA RefusedEffect ==
  ASSUME SwarmTypeOK, NEW w \in Runners, runs[w].stage = "insert",
         runs' = [runs EXCEPT ![w].stage = "update"]
  PROVE  LET run == runs[w]
             next == runs'[w]
         IN  /\ runs' \in [Runners -> RunStates]
             /\ \A v \in Runners : v # w => runs'[v] = runs[v]
             /\ next.stage = "update" /\ next.all = run.all
             /\ SameAim(next, run)
<1>. DEFINE run == runs[w]
            next == [run EXCEPT !.stage = "update"]
<1>1. run # NotRunning
  BY DEF NotRunning
<1>2. run \in RunOf({"fetch", "insert", "update"})
  BY <1>1, SwarmSets
<1>3. /\ next \in RunOf({"fetch", "insert", "update"})
      /\ SameAim(next, run) /\ next.all = run.all /\ next.stage = "update"
  BY ONLY <1>2 DEF RunOf, SameAim
<1>4. runs' = [runs EXCEPT ![w] = next]
  OBVIOUS
<1>. HIDE DEF next
<1>5. /\ runs' \in [Runners -> RunStates] /\ runs'[w] = next
      /\ \A v \in Runners : v # w => runs'[v] = runs[v]
  BY <1>3, <1>4, OneRunChanges DEF RunStates
<1>. QED  BY <1>3, <1>5

\* A run that ends is idle.
LEMMA EndEffect ==
  ASSUME SwarmTypeOK, NEW w \in Runners, runs' = [runs EXCEPT ![w] = NotRunning]
  PROVE  /\ runs' \in [Runners -> RunStates]
         /\ \A v \in Runners : v # w => runs'[v] = runs[v]
         /\ runs'[w] = NotRunning
BY OneRunChanges DEF RunStates

\* Midnight comes after the time, and is not the first.
LEMMA MidnightIsNext ==
  ASSUME NEW t \in Nat
  PROVE  Midnight(t) \in Nat /\ t < Midnight(t) /\ Day <= Midnight(t)
<1>1. Day \in Nat /\ Day > 0
  BY SwarmAssumption
<1>. DEFINE q == t \div Day
<1>2. q \in Nat /\ q * Day <= t /\ t < q * Day + Day
  BY <1>1
<1>. HIDE DEF q
<1>3. (q + 1) * Day = q * Day + Day /\ q * Day \in Nat
  BY <1>1, <1>2
<1>. QED  BY <1>1, <1>2, <1>3 DEF Midnight, q


\* What a step on a run leaves of the types.
LEMMA SameTypes ==
  ASSUME SwarmTypeOK, runs' \in [Runners -> RunStates],
         UNCHANGED <<hour, madeAt, removed, daemon, removals, errors, byHand>>,
         events' \in [Checkins -> {"none", "confirmed", "cancelled"}],
         nextNight' \in Nat, finished' \subseteq [left : Nat, removals : Nat]
  PROVE  SwarmTypeOK'
BY DEF SwarmTypeOK, RunStates

\* An event becomes confirmed.
LEMMA EventTypes ==
  ASSUME SwarmTypeOK, NEW c \in Checkins
  PROVE  /\ events \in [Checkins -> {"none", "confirmed", "cancelled"}]
         /\ [events EXCEPT ![c] = "confirmed"]
              \in [Checkins -> {"none", "confirmed", "cancelled"}]
         /\ [events EXCEPT ![c] = "cancelled"]
              \in [Checkins -> {"none", "confirmed", "cancelled"}]
BY DEF SwarmTypeOK

\* The parts of a run's time, what is missed and what is left are finite.
LEMMA SwarmFinite ==
  ASSUME SwarmTypeOK, NEW w \in Runners
  PROVE  /\ IsFiniteSet(Missed(w)) /\ Cardinality(Missed(w)) \in Nat
         /\ IsFiniteSet(Unserved(w)) /\ Cardinality(Unserved(w)) \in Nat
         /\ IsFiniteSet(LeftOut(runs[w])) /\ Cardinality(LeftOut(runs[w])) \in Nat
<1>1. /\ Missed(w) \subseteq DOMAIN madeAt
      /\ Unserved(w) \subseteq DOMAIN madeAt
      /\ LeftOut(runs[w]) \subseteq DOMAIN madeAt
  BY DEF Missed, Unserved, Due, LeftOut
<1>2. IsFiniteSet(DOMAIN madeAt)
  BY SwarmSets
<1>. QED  BY <1>1, <1>2, Fewer

\* Every step keeps the types.
LEMMA SwarmTypeNext ==
  ASSUME SwarmTypeOK, InTime, [SwarmStep]_swarmVars
  PROVE  SwarmTypeOK'
<1>0. /\ nextNight \in Nat /\ hour \in Nat /\ finished \subseteq [left : Nat, removals : Nat]
      /\ events \in [Checkins -> {"none", "confirmed", "cancelled"}]
      /\ runs \in [Runners -> RunStates]
  BY SwarmSets DEF SwarmTypeOK, RunStates
<1>1. CASE HourPasses
  <2>1. hour' \in 0 .. LastTime /\ hour \in Nat /\ hour' = hour + 1
    BY <1>1, SwarmBounds DEF HourPasses, SwarmTypeOK
  <2>2. madeAt' \in Seq(0 .. hour')
    <3>1. 0 .. hour \subseteq 0 .. hour'
      BY <2>1
    <3>2. madeAt \in Seq(0 .. hour) /\ madeAt' = madeAt
      BY <1>1 DEF HourPasses, SwarmTypeOK
    <3>. HIDE DEF SwarmTypeOK
    <3>. QED  BY ONLY <3>1, <3>2, WiderQueue
  <2>. QED  BY <1>1, <2>1, <2>2 DEF HourPasses, SwarmTypeOK
<1>2. CASE CheckIn
  <2>1. madeAt \in Seq(0 .. hour) /\ hour \in 0 .. hour /\ madeAt' = Append(madeAt, hour)
        /\ hour' = hour
    BY <1>2, <1>0 DEF CheckIn, SwarmTypeOK
  <2>2. /\ madeAt' \in Seq(0 .. hour) /\ Len(madeAt') = Len(madeAt) + 1
        /\ DOMAIN madeAt \subseteq DOMAIN madeAt'
    <3>1. madeAt' \in Seq(0 .. hour) /\ Len(madeAt') = Len(madeAt) + 1
      BY <2>1, AppendProperties
    <3>2. /\ DOMAIN madeAt = 1 .. Len(madeAt) /\ DOMAIN madeAt' = 1 .. Len(madeAt')
          /\ Len(madeAt) \in Nat
      BY <2>1, <3>1, LenProperties
    <3>. QED  BY <3>1, <3>2
  <2>3. Len(madeAt') <= MaxCheckins
    BY <1>2, <2>2, SwarmSets DEF CheckIn
  <2>. QED  BY <1>2, <2>1, <2>2, <2>3 DEF CheckIn, SwarmTypeOK
<1>3. ASSUME NEW c \in Checkins, RemoveCheckin(c) PROVE SwarmTypeOK'
  <2>1. runs' \in [Runners -> RunStates]
    BY <1>3, RemoveEffect
  <2>2. removals' \in 0 .. MaxRemovals
    BY SMTT(30), <1>3, SwarmBounds DEF RemoveCheckin, SwarmTypeOK
  <2>3. removed' \subseteq DOMAIN madeAt'
    BY <1>3 DEF RemoveCheckin, SwarmTypeOK
  <2>. QED  BY <1>3, <2>1, <2>2, <2>3 DEF RemoveCheckin, SwarmTypeOK, RunStates
<1>4. ASSUME NEW c \in Checkins, DeleteEvent(c) PROVE SwarmTypeOK'
  <2>1. runs' \in [Runners -> RunStates]
    BY <1>4, DeleteEffect
  <2>2. removals' \in 0 .. MaxRemovals
    BY <1>4, SwarmBounds DEF DeleteEvent, SwarmTypeOK
  <2>3. events' \in [Checkins -> {"none", "confirmed", "cancelled"}]
    BY <1>4, EventTypes DEF DeleteEvent
  <2>. QED  BY <1>4, <2>1, <2>2, <2>3 DEF DeleteEvent, SwarmTypeOK, RunStates
<1>5. CASE Night
  <2>1. nextNight - Day \in Int /\ After \in Int
    BY <1>0, SwarmSets DEF After, Lookback
  <2>2. runs' \in [Runners -> RunStates]
    BY <1>5, <1>0, <2>1, BeginEffect DEF Night, Runners
  <2>3. nextNight' \in Nat
    BY <1>5, <1>0, MidnightIsNext DEF Night
  <2>. QED  BY <1>5, <1>0, <2>2, <2>3, SameTypes DEF Night
<1>6. CASE ByHand
  <2>1. After \in Int /\ -1 \in Int
    BY <1>0, SwarmSets DEF After, Lookback
  <2>2. runs' \in [Runners -> RunStates]
    BY <1>6, <1>0, <2>1, BeginEffect DEF ByHand, Runners
  <2>3. byHand' \in 0 .. MaxByHand
    BY <1>6, SwarmBounds DEF ByHand, SwarmTypeOK
  <2>. QED  BY <1>6, <2>2, <2>3 DEF ByHand, SwarmTypeOK, RunStates
<1>7. ASSUME NEW w \in Runners, FetchPage(w) PROVE SwarmTypeOK'
  <2>1. runs' \in [Runners -> RunStates]
    BY <1>7, FetchPageEffect
  <2>. QED  BY <1>7, <1>0, <2>1, SameTypes DEF FetchPage
<1>8. ASSUME NEW w \in Runners, Insert(w) PROVE SwarmTypeOK'
  <2>1. runs[w].stage = "insert" /\ runs[w].all # <<>>
    BY <1>8 DEF Insert
  <2>2. CASE Upserted(w) /\ events' = [events EXCEPT ![Head(runs[w].all)] = "confirmed"]
    <3>1. runs' \in [Runners -> RunStates] /\ Head(runs[w].all) \in Checkins
      BY <2>1, <2>2, UpsertedEffect
    <3>. QED  BY <1>8, <1>0, <2>2, <3>1, EventTypes, SameTypes DEF Insert
  <2>3. CASE runs' = [runs EXCEPT ![w].stage = "update"] /\ UNCHANGED events
    <3>1. runs' \in [Runners -> RunStates]
      BY <2>1, <2>3, RefusedEffect
    <3>. QED  BY <1>8, <1>0, <2>3, <3>1, SameTypes DEF Insert
  <2>. QED  BY <1>8, <2>2, <2>3 DEF Insert
<1>9. ASSUME NEW w \in Runners, Update(w) PROVE SwarmTypeOK'
  <2>1. runs[w].stage = "update" /\ runs[w].all # <<>> /\ Upserted(w)
    BY <1>9 DEF Update, InTime, NotRunning
  <2>2. runs' \in [Runners -> RunStates] /\ Head(runs[w].all) \in Checkins
    BY <2>1, UpsertedEffect
  <2>. QED  BY <1>9, <1>0, <2>2, EventTypes, SameTypes DEF Update
<1>10. ASSUME NEW w \in Runners, RunDone(w) PROVE SwarmTypeOK'
  <2>1. runs' \in [Runners -> RunStates]
    BY <1>10, EndEffect DEF RunDone
  <2>2. runs[w] # NotRunning
    BY <1>10 DEF RunDone, NotRunning
  <2>3. Cardinality(LeftOut(runs[w])) \in Nat /\ runs[w].removals \in Nat
    BY <2>2, SwarmFinite, RunTypes
  <2>4. finished' \subseteq [left : Nat, removals : Nat]
    BY <1>10, <1>0, <2>3 DEF RunDone
  <2>. QED  BY <1>10, <1>0, <2>1, <2>4, SameTypes DEF RunDone
<1>11. ASSUME NEW w \in Runners, RunFails(w) PROVE SwarmTypeOK'
  <2>1. runs' \in [Runners -> RunStates]
    BY <1>11, EndEffect DEF RunFails
  <2>2. events' \in [Checkins -> {"none", "confirmed", "cancelled"}]
    <3>1. \/ events' = events
          \/ \E c \in Checkins : events' = [events EXCEPT ![c] = "confirmed"]
      BY <1>11 DEF RunFails
    <3>. QED  BY <1>0, <3>1, EventTypes
  <2>3. errors' \in 0 .. MaxErrors
    BY <1>11, SwarmBounds DEF RunFails, SwarmTypeOK
  <2>. QED  BY <1>11, <2>1, <2>2, <2>3 DEF RunFails, SwarmTypeOK, RunStates
<1>12. CASE Stopped
  <2>1. runs' \in [Runners -> RunStates]
    BY <1>12, EndEffect DEF Stopped, Runners
  <2>2. errors' \in 0 .. MaxErrors
    BY <1>12, SwarmBounds DEF Stopped, SwarmTypeOK
  <2>. QED  BY <1>12, <2>1, <2>2 DEF Stopped, SwarmTypeOK, RunStates
<1>13. CASE StartedAgain
  <2>1. nextNight' \in Nat
    BY <1>13, <1>0, MidnightIsNext DEF StartedAgain
  <2>. QED  BY <1>13, <2>1 DEF StartedAgain, SwarmTypeOK
<1>14. CASE UNCHANGED swarmVars
  BY <1>14 DEF swarmVars, SwarmTypeOK
<1>. QED
  BY <1>1, <1>2, <1>3, <1>4, <1>5, <1>6, <1>7, <1>8, <1>9, <1>10, <1>11, <1>12, <1>13,
     <1>14 DEF SwarmStep, RunStep


\* Every step keeps the runs in time.
LEMMA InTimeNext ==
  ASSUME SwarmTypeOK, InTime, [SwarmStep]_swarmVars
  PROVE  InTime'
<1>0. /\ nextNight \in Nat /\ hour \in Nat /\ Day \in Nat /\ Overlap \in Nat /\ Lateness \in Nat
      /\ Lateness <= Overlap /\ Day > 0
      /\ Day <= nextNight /\ (daemon => hour <= nextNight + Lateness)
  BY SwarmSets DEF SwarmTypeOK, InTime
<1>. DEFINE Timely(w) == runs[w] # NotRunning =>
              /\ runs[w].until <= hour
              /\ runs[w].since <= runs[w].from
              /\ runs[w].stage = "update" => runs[w].all # <<>>
<1>1. \A w \in Runners : Timely(w)
  BY DEF InTime
<1>2. SUFFICES /\ Day <= nextNight' /\ (daemon' => hour' <= nextNight' + Lateness)
               /\ \A w \in Runners : Timely(w)'
  BY DEF InTime
<1>3. ASSUME NEW w \in Runners, runs'[w] = runs[w], hour' = hour \/ hour' = hour + 1
      PROVE  Timely(w)'
  <2>1. CASE runs[w] = NotRunning
    BY <2>1, <1>3
  <2>2. CASE runs[w] # NotRunning
    <3>1. runs[w].until \in Nat
      BY <2>2, RunTypes
    <3>. QED  BY <1>0, <1>1, <1>3, <2>2, <3>1
  <2>. QED  BY <2>1, <2>2
<1>4. ASSUME NEW w \in Runners, runs'[w] = NotRunning PROVE Timely(w)'
  BY <1>4
<1>5. ASSUME NEW w \in Runners, runs[w] # NotRunning,
             SameAim(runs'[w], runs[w]), hour' = hour,
             runs'[w].stage = "update" => runs'[w].all # <<>>
      PROVE  Timely(w)'
  BY <1>1, <1>5 DEF SameAim
<1>6. CASE HourPasses
  <2>1. hour' = hour + 1 /\ UNCHANGED <<runs, nextNight, daemon>> /\ ~ IsLate
    BY <1>6 DEF HourPasses
  <2>2. daemon => hour + 1 <= nextNight + Lateness
    BY <1>0, <2>1 DEF IsLate
  <2>3. \A w \in Runners : Timely(w)'
    BY <1>3, <2>1
  <2>. QED  BY <1>0, <2>1, <2>2, <2>3
<1>7. CASE CheckIn \/ UNCHANGED swarmVars
  <2>1. UNCHANGED <<hour, runs, nextNight, daemon>>
    BY <1>7 DEF CheckIn, swarmVars
  <2>2. \A w \in Runners : Timely(w)'
    BY <1>3, <2>1
  <2>. QED  BY <1>0, <2>1, <2>2
<1>8. ASSUME NEW c \in Checkins, RemoveCheckin(c) \/ DeleteEvent(c)
      PROVE  /\ Day <= nextNight' /\ (daemon' => hour' <= nextNight' + Lateness)
             /\ \A w \in Runners : Timely(w)'
  <2>1. UNCHANGED <<hour, nextNight, daemon>>
    BY <1>8 DEF RemoveCheckin, DeleteEvent
  <2>2. ASSUME NEW w \in Runners PROVE Timely(w)'
    <3>1. CASE runs[w] = NotRunning
      BY <1>4, <1>8, <3>1, RemoveEffect, DeleteEffect
    <3>2. CASE runs[w] # NotRunning
      <4>1. /\ runs'[w].stage = runs[w].stage /\ runs'[w].all = runs[w].all
            /\ runs'[w].since = runs[w].since
            /\ runs'[w].from = runs[w].from /\ runs'[w].until = runs[w].until
        BY <1>8, <3>2, RemoveEffect, DeleteEffect
      <4>. QED  BY <1>1, <2>1, <3>2, <4>1
    <3>. QED  BY <3>1, <3>2
  <2>. QED  BY <1>0, <2>1, <2>2
<1>9. CASE Night
  <2>1. /\ hour' = hour /\ daemon' = daemon /\ nextNight' = Midnight(hour) /\ daemon
        /\ hour >= nextNight /\ BeginRun("daemon", nextNight - Day, nextNight, After)
    BY <1>9 DEF Night
  <2>2. After \in Int /\ nextNight - Day \in Int /\ After <= nextNight - Day
    BY <1>0, <2>1 DEF After, Lookback
  <2>3. Timely("daemon")'
    <3>1. "daemon" \in Runners
      BY DEF Runners
    <3>2. /\ runs'["daemon"].stage = "fetch" /\ runs'["daemon"].since = After
          /\ runs'["daemon"].from = nextNight - Day /\ runs'["daemon"].until = nextNight
      BY <1>0, <2>1, <2>2, <3>1, BeginEffect
    <3>. QED  BY <1>0, <2>1, <2>2, <3>2
  <2>4. \A w \in Runners \ {"daemon"} : Timely(w)'
    BY <1>0, <1>3, <2>1, <2>2, BeginEffect DEF Runners
  <2>5. \A w \in Runners : Timely(w)'
    BY <2>3, <2>4
  <2>6. Day <= nextNight' /\ hour' <= nextNight' + Lateness
    <3>1. Midnight(hour) \in Nat /\ hour < Midnight(hour) /\ Day <= Midnight(hour)
      BY <1>0, MidnightIsNext
    <3>. QED  BY <1>0, <2>1, <3>1
  <2>. QED  BY <2>5, <2>6
<1>10. CASE ByHand
  <2>1. PICK from \in {-1, After} : BeginRun("hand", from, hour, from)
    BY <1>10 DEF ByHand
  <2>2. from \in Int
    BY <1>0 DEF After, Lookback
  <2>3. UNCHANGED <<hour, nextNight, daemon>>
    BY <1>10 DEF ByHand
  <2>4. Timely("hand")'
    <3>1. "hand" \in Runners
      BY DEF Runners
    <3>2. /\ runs'["hand"].stage = "fetch" /\ runs'["hand"].since = from
          /\ runs'["hand"].from = from /\ runs'["hand"].until = hour
      BY <1>0, <2>1, <2>2, <3>1, BeginEffect
    <3>. QED  BY <1>0, <2>2, <2>3, <3>2
  <2>5. \A w \in Runners \ {"hand"} : Timely(w)'
    BY <1>0, <1>3, <2>1, <2>2, <2>3, BeginEffect DEF Runners
  <2>6. \A w \in Runners : Timely(w)'
    BY <2>4, <2>5
  <2>. QED  BY <1>0, <2>3, <2>6
<1>11. ASSUME NEW w \in Runners, FetchPage(w) \/ Insert(w) \/ Update(w) \/ RunDone(w)
       PROVE  /\ Day <= nextNight' /\ (daemon' => hour' <= nextNight' + Lateness)
              /\ \A v \in Runners : Timely(v)'
  <2>1. UNCHANGED <<hour, nextNight, daemon>>
    BY <1>11 DEF FetchPage, Insert, Update, RunDone
  <2>2. Timely(w)' /\ \A v \in Runners : v # w => runs'[v] = runs[v]
    <3>1. CASE FetchPage(w)
      <4>1. runs[w] # NotRunning
        BY <3>1 DEF FetchPage, Fetching, NotRunning
      <4>2. /\ SameAim(runs'[w], runs[w]) /\ runs'[w].stage # "update"
            /\ \A v \in Runners : v # w => runs'[v] = runs[v]
        BY <3>1, FetchPageEffect
      <4>. QED  BY <1>5, <2>1, <4>1, <4>2
    <3>2. CASE Insert(w) \/ Update(w)
      <4>1. runs[w] # NotRunning /\ runs[w].stage \in {"insert", "update"} /\ runs[w].all # <<>>
        BY <3>2, <1>1 DEF Insert, Update, NotRunning
      <4>2. CASE Upserted(w)
        <5>1. /\ SameAim(runs'[w], runs[w]) /\ runs'[w].stage # "update"
              /\ \A v \in Runners : v # w => runs'[v] = runs[v]
          BY <4>1, <4>2, UpsertedEffect
        <5>. QED  BY <1>5, <2>1, <4>1, <5>1
      <4>3. CASE runs[w].stage = "insert" /\ runs' = [runs EXCEPT ![w].stage = "update"]
        <5>1. /\ SameAim(runs'[w], runs[w]) /\ runs'[w].all # <<>>
              /\ \A v \in Runners : v # w => runs'[v] = runs[v]
          BY <4>1, <4>3, RefusedEffect
        <5>. QED  BY <1>5, <2>1, <4>1, <5>1
      <4>. QED  BY <3>2, <4>2, <4>3 DEF Insert, Update
    <3>3. CASE RunDone(w)
      BY <3>3, <1>4, EndEffect DEF RunDone
    <3>. QED  BY <1>11, <3>1, <3>2, <3>3
  <2>3. \A v \in Runners : Timely(v)'
    BY <1>3, <2>1, <2>2
  <2>. QED  BY <1>0, <2>1, <2>3
<1>12. ASSUME NEW w \in Runners, RunFails(w)
       PROVE  /\ Day <= nextNight' /\ (daemon' => hour' <= nextNight' + Lateness)
              /\ \A v \in Runners : Timely(v)'
  <2>1. UNCHANGED <<hour, nextNight, daemon>>
    BY <1>12 DEF RunFails
  <2>2. runs'[w] = NotRunning /\ \A v \in Runners : v # w => runs'[v] = runs[v]
    BY <1>12, EndEffect DEF RunFails
  <2>3. \A v \in Runners : Timely(v)'
    BY <1>3, <1>4, <2>1, <2>2
  <2>. QED  BY <1>0, <2>1, <2>3
<1>13. CASE Stopped
  <2>1. UNCHANGED <<hour, nextNight>> /\ ~ daemon'
    BY <1>13 DEF Stopped
  <2>2. runs'["daemon"] = NotRunning /\ \A v \in Runners : v # "daemon" => runs'[v] = runs[v]
    BY <1>13, EndEffect DEF Stopped, Runners
  <2>3. \A v \in Runners : Timely(v)'
    BY <1>3, <1>4, <2>1, <2>2
  <2>. QED  BY <1>0, <2>1, <2>3
<1>14. CASE StartedAgain
  <2>1. UNCHANGED <<hour, runs>> /\ nextNight' = Midnight(hour)
    BY <1>14 DEF StartedAgain
  <2>2. \A v \in Runners : Timely(v)'
    BY <1>3, <2>1
  <2>3. Midnight(hour) \in Nat /\ hour < Midnight(hour) /\ Day <= Midnight(hour)
    BY <1>0, MidnightIsNext
  <2>. QED  BY <1>0, <2>1, <2>2, <2>3
<1>. HIDE DEF Timely
<1>. QED
  BY <1>6, <1>7, <1>8, <1>9, <1>10, <1>11, <1>12, <1>13, <1>14 DEF SwarmStep, RunStep


\* What a step must do for a run that goes on.
LEMMA NoWorse ==
  ASSUME SwarmTypeOK, SwarmTypeOK', NEW w \in Runners, FewMissed(w),
         runs[w] # NotRunning, runs'[w] # NotRunning,
         runs[w].removals <= runs'[w].removals,
         Fetching(w)' => Fetching(w) /\ Missed(w)' \subseteq Missed(w),
         ~ Fetching(w)' =>
           \/ Fetching(w) /\ Unserved(w)' \subseteq Missed(w)
           \/ ~ Fetching(w) /\ Unserved(w)' \subseteq Unserved(w)
  PROVE  FewMissed(w)'
<1>1. /\ runs[w].removals \in Nat /\ runs'[w].removals \in Nat
      /\ runs[w].stage \in {"fetch", "insert", "update"}
      /\ runs'[w].stage \in {"fetch", "insert", "update"}
  <2>1. runs[w] \in RunOf({"fetch", "insert", "update"})
    BY SwarmSets
  <2>2. runs'[w] \in RunOf({"fetch", "insert", "update"})
    BY DEF SwarmTypeOK
  <2>. QED  BY <2>1, <2>2 DEF RunOf
<1>2. /\ IsFiniteSet(Missed(w)) /\ Cardinality(Missed(w)) \in Nat
      /\ IsFiniteSet(Unserved(w)) /\ Cardinality(Unserved(w)) \in Nat
  BY SwarmFinite
<1>3. ASSUME Fetching(w)'
      PROVE  Cardinality(Missed(w)') <= runs'[w].removals
  <2>1. /\ Cardinality(Missed(w)') \in Nat
        /\ Cardinality(Missed(w)') <= Cardinality(Missed(w))
    BY <1>2, <1>3, Fewer
  <2>2. Cardinality(Missed(w)) <= runs[w].removals
    BY <1>3 DEF FewMissed
  <2>. QED  BY <1>1, <1>2, <2>1, <2>2
<1>4. ASSUME ~ Fetching(w)'
      PROVE  Cardinality(Unserved(w)') <= runs'[w].removals
  <2>1. CASE Fetching(w) /\ Unserved(w)' \subseteq Missed(w)
    <3>1. /\ Cardinality(Unserved(w)') \in Nat
          /\ Cardinality(Unserved(w)') <= Cardinality(Missed(w))
      BY <1>2, <2>1, Fewer
    <3>2. Cardinality(Missed(w)) <= runs[w].removals
      BY <2>1 DEF FewMissed
    <3>. QED  BY <1>1, <1>2, <3>1, <3>2
  <2>2. CASE ~ Fetching(w) /\ Unserved(w)' \subseteq Unserved(w)
    <3>1. /\ Cardinality(Unserved(w)') \in Nat
          /\ Cardinality(Unserved(w)') <= Cardinality(Unserved(w))
      BY <1>2, <2>2, Fewer
    <3>2. Cardinality(Unserved(w)) <= runs[w].removals
      BY <1>1, <2>2 DEF FewMissed, Fetching
    <3>. QED  BY <1>1, <1>2, <3>1, <3>2
  <2>. QED  BY <1>4, <2>1, <2>2
<1>5. (Cardinality(Missed(w)))' = Cardinality(Missed(w)')
      /\ (Cardinality(Unserved(w)))' = Cardinality(Unserved(w)')
  OBVIOUS
<1>6. Fetching(w)' <=> runs'[w].stage = "fetch"
  BY DEF Fetching
<1>. HIDE DEF Missed, Unserved
<1>. QED  BY <1>3, <1>4, <1>6 DEF FewMissed

\* An idle run misses nothing.
LEMMA IdleMissesNothing ==
  ASSUME NEW w, runs[w] = NotRunning
  PROVE  FewMissed(w)
BY DEF FewMissed, Fetching, NotRunning

\* What is missed is of the run's time and found by it.
LEMMA DueIsFound ==
  ASSUME SwarmTypeOK, NEW w \in Runners, runs[w] # NotRunning,
         runs[w].since <= runs[w].from
  PROVE  Due(runs[w]) \subseteq Found(w)
<1>1. runs[w].since \in Int /\ runs[w].from \in Int
  BY RunTypes
<1>2. \A c \in DOMAIN madeAt : madeAt[c] \in Nat
  BY SwarmSets
<1>3. \A c \in DOMAIN madeAt : runs[w].from < madeAt[c] => madeAt[c] > runs[w].since
  BY ONLY <1>1, <1>2, runs[w].since <= runs[w].from
<1>. QED  BY <1>3 DEF Due, Found

\* What other runs do to the events helps.
LEMMA Undisturbed ==
  ASSUME SwarmTypeOK, SwarmTypeOK', NEW w \in Runners, FewMissed(w),
         runs'[w] = runs[w], UNCHANGED <<madeAt, removed>>,
         \A c \in Checkins : events[c] = "confirmed" => events'[c] = "confirmed"
  PROVE  FewMissed(w)'
<1>1. CASE runs[w] = NotRunning
  BY <1>1 DEF FewMissed, Fetching, NotRunning
<1>2. CASE runs[w] # NotRunning
  <2>1. Missed(w)' = Missed(w) /\ (Fetching(w)' <=> Fetching(w))
    BY DEF Missed, Due, Found, Place, Fetching
  <2>2. Unserved(w)' \subseteq Unserved(w)
    BY SwarmSets DEF Unserved, LeftOut
  <2>3. runs[w].removals <= runs'[w].removals
    BY <1>2, RunTypes
  <2>. QED  BY <1>2, <2>1, <2>2, <2>3, NoWorse
<1>. QED  BY <1>1, <1>2

\* A page: what it does not show is after the offset, or was missed before.
LEMMA FetchPageMisses ==
  ASSUME SwarmTypeOK, SwarmTypeOK', InTime, NEW w \in Runners, FewMissed(w), FetchPage(w)
  PROVE  FewMissed(w)'
<1>1. Fetching(w) /\ runs[w] # NotRunning /\ UNCHANGED <<madeAt, removed, events>>
  BY DEF FetchPage, Fetching, NotRunning
<1>2. /\ runs'[w].stage = IF Len(Page(w)) < PageLimit THEN "insert" ELSE "fetch"
      /\ runs'[w].offset = runs[w].offset + PageLimit
      /\ Entries(runs'[w].all) = Entries(runs[w].all) \cup Entries(Page(w))
      /\ SameAim(runs'[w], runs[w])
  BY FetchPageEffect
<1>3. Due(runs'[w]) = Due(runs[w]) /\ Due(runs[w])' = Due(runs[w]) /\ Found(w)' = Found(w)
  BY <1>1, <1>2 DEF Due, Found, SameAim
<1>4. Due(runs[w]) \subseteq Found(w)
  BY <1>1, DueIsFound DEF InTime
<1>5. /\ \A c \in Found(w) :
           /\ runs[w].offset < Place(Found(w), c)
           /\ Place(Found(w), c) <= runs[w].offset + PageLimit
           => c \in Entries(Page(w))
      /\ Len(Page(w)) < PageLimit =>
           \A c \in Found(w) : Place(Found(w), c) < runs[w].offset + PageLimit
  BY <1>1, PageProperties
<1>6. /\ runs[w].offset \in Nat /\ PageLimit \in Nat
      /\ \A c \in Found(w) : Place(Found(w), c) \in Nat
  <2>1. IsFiniteSet(Found(w))
    BY FoundSets
  <2>2. \A c : Place(Found(w), c) \in Nat
    BY <2>1, PlaceAfterAddition
  <2>. QED  BY <1>1, <2>2, RunTypes, SwarmSets
<1>7. ASSUME NEW c \in Due(runs[w]), c \notin Entries(runs'[w].all),
             Place(Found(w), c) <= runs[w].offset + PageLimit
      PROVE  c \in Missed(w)
  <2>1. c \in Found(w) /\ c \notin Entries(Page(w)) /\ c \notin Entries(runs[w].all)
    BY <1>2, <1>4, <1>7
  <2>2. Place(Found(w), c) <= runs[w].offset
    BY <1>5, <1>6, <1>7, <2>1
  <2>. QED  BY <2>1, <2>2 DEF Missed
<1>8. Missed(w)' \subseteq Missed(w)
  <2>1. \A c \in Missed(w)' : /\ c \in Due(runs[w]) /\ c \notin Entries(runs'[w].all)
                              /\ Place(Found(w), c) <= runs[w].offset + PageLimit
    BY <1>2, <1>3 DEF Missed, Place
  <2>. QED  BY <1>7, <2>1
<1>9. ASSUME ~ Fetching(w)' PROVE Unserved(w)' \subseteq Missed(w)
  <2>1. Len(Page(w)) < PageLimit
    BY <1>2, <1>9 DEF Fetching
  <2>2. \A c \in Unserved(w)' : c \in Due(runs[w]) /\ c \notin Entries(runs'[w].all)
    BY <1>3 DEF Unserved, LeftOut, Due
  <2>3. \A c \in Due(runs[w]) : Place(Found(w), c) <= runs[w].offset + PageLimit
    BY <1>4, <1>5, <1>6, <2>1
  <2>. QED  BY <1>7, <2>2, <2>3
<1>10. runs'[w] # NotRunning
  BY <1>2 DEF NotRunning
<1>11. runs[w].removals <= runs'[w].removals
  BY <1>1, <1>2, RunTypes DEF SameAim
<1>. QED  BY <1>1, <1>8, <1>9, <1>10, <1>11, NoWorse


\* A check-in that is made meanwhile is not of the time of a run, and moves the
\* others down.
LEMMA CheckInMisses ==
  ASSUME SwarmTypeOK, SwarmTypeOK', InTime, NEW w \in Runners, FewMissed(w), CheckIn
  PROVE  FewMissed(w)'
<1>1. UNCHANGED <<removed, runs, events>>
  BY DEF CheckIn
<1>2. CASE runs[w] = NotRunning
  BY <1>1, <1>2 DEF FewMissed, Fetching, NotRunning
<1>3. CASE runs[w] # NotRunning
  <2>. DEFINE n == Len(madeAt) + 1
  <2>1. runs[w].until <= hour /\ runs[w].until \in Nat /\ hour \in Nat
        /\ runs[w].removals \in Nat /\ runs[w].offset \in Nat
    BY <1>3, RunTypes, SwarmSets DEF InTime
  <2>2. /\ DOMAIN madeAt' = DOMAIN madeAt \cup {n} /\ n \notin DOMAIN madeAt
        /\ \A c \in DOMAIN madeAt : madeAt'[c] = madeAt[c]
        /\ madeAt'[n] = hour
    <3>1. madeAt \in Seq(Nat) /\ hour \in Nat /\ madeAt' = Append(madeAt, hour)
      BY SwarmSets DEF CheckIn
    <3>2. /\ DOMAIN madeAt = 1 .. Len(madeAt) /\ Len(madeAt) \in Nat
          /\ madeAt' \in Seq(Nat) /\ Len(madeAt') = Len(madeAt) + 1
          /\ \A i \in 1 .. Len(madeAt) : madeAt'[i] = madeAt[i]
          /\ madeAt'[Len(madeAt) + 1] = hour
      BY <3>1, AppendProperties, LenProperties
    <3>3. DOMAIN madeAt' = 1 .. Len(madeAt')
      BY <3>2, LenProperties
    <3>4. 1 .. Len(madeAt') = 1 .. Len(madeAt) \cup {n} /\ n \notin 1 .. Len(madeAt)
      BY <3>2
    <3>. QED  BY <3>2, <3>3, <3>4
  <2>. HIDE DEF n
  <2>3. ~ (madeAt'[n] < runs[w].until)
    BY <2>1, <2>2
  <2>4. /\ \A c \in Due(runs[w])' : c \in Due(runs[w])
        /\ Unserved(w)' \subseteq Unserved(w)
    BY <1>1, <2>2, <2>3 DEF Due, Unserved, LeftOut
  <2>5. Found(w) \subseteq Found(w)' /\ IsFiniteSet(Found(w)')
    <3>1. Found(w) \subseteq Found(w)'
      BY <1>1, <2>2 DEF Found
    <3>2. IsFiniteSet(DOMAIN madeAt) /\ DOMAIN madeAt' = DOMAIN madeAt \cup {n}
      BY <2>2, SwarmSets
    <3>3. IsFiniteSet(DOMAIN madeAt')
      BY <3>2, FS_AddElement
    <3>4. Found(w)' \subseteq DOMAIN madeAt'
      BY DEF Found
    <3>. QED  BY <3>1, <3>3, <3>4, Fewer
  <2>6. \A c : /\ Place(Found(w), c) \in Nat /\ Place(Found(w)', c) \in Nat
               /\ Place(Found(w), c) <= Place(Found(w)', c)
    BY <2>5, PlaceAfterAddition
  <2>7. \A c \in Missed(w)' : /\ c \in Due(runs[w])' /\ c \notin Entries(runs[w].all)
                              /\ Place(Found(w)', c) <= runs[w].offset
    BY <1>1 DEF Missed, Place
  <2>8. Missed(w)' \subseteq Missed(w)
    <3>1. \A c : Place(Found(w)', c) <= runs[w].offset => Place(Found(w), c) <= runs[w].offset
      BY <2>1, <2>6
    <3>. QED  BY <2>4, <2>7, <3>1 DEF Missed
  <2>9. (Fetching(w)' <=> Fetching(w)) /\ runs'[w] = runs[w]
    BY <1>1 DEF Fetching
  <2>10. runs[w].removals <= runs'[w].removals
    BY <2>1, <2>9
  <2>. QED  BY <1>3, <2>4, <2>8, <2>9, <2>10, NoWorse
<1>. QED  BY <1>2, <1>3

\* A removal moves one check-in at most from after the offset to before it.
LEMMA RemovalMisses ==
  ASSUME SwarmTypeOK, SwarmTypeOK', InTime, NEW w \in Runners, FewMissed(w),
         NEW x \in Checkins, RemoveCheckin(x)
  PROVE  FewMissed(w)'
<1>1. UNCHANGED <<madeAt, events>> /\ removed' = removed \cup {x}
  BY DEF RemoveCheckin
<1>2. CASE runs[w] = NotRunning
  <2>1. runs'[w] = NotRunning
    BY <1>2, RemoveEffect
  <2>. QED  BY <2>1 DEF FewMissed, Fetching, NotRunning
<1>3. CASE runs[w] # NotRunning
  <2>1. /\ runs'[w].stage = runs[w].stage /\ runs'[w].all = runs[w].all
        /\ runs'[w].offset = runs[w].offset /\ runs'[w].since = runs[w].since
        /\ runs'[w].from = runs[w].from /\ runs'[w].until = runs[w].until
        /\ runs'[w].deleted = runs[w].deleted
        /\ runs'[w].removals = IF Fetching(w) THEN runs[w].removals + 1 ELSE runs[w].removals
    BY <1>3, RemoveEffect
  <2>2. /\ runs[w].stage \in {"fetch", "insert", "update"}
        /\ runs[w].removals \in Nat /\ runs[w].offset \in Nat
    BY <1>3, RunTypes
  <2>3. (Fetching(w)' <=> Fetching(w)) /\ runs'[w] # NotRunning
    BY <2>1, <2>2 DEF Fetching, NotRunning
  <2>4. CASE ~ Fetching(w)
    <3>1. Unserved(w)' \subseteq Unserved(w)
      BY <1>1, <2>1 DEF Unserved, LeftOut
    <3>2. runs[w].removals <= runs'[w].removals
      BY <2>1, <2>2, <2>4
    <3>. QED  BY <1>3, <2>3, <2>4, <3>1, <3>2, NoWorse
  <2>5. CASE Fetching(w)
    <3>. DEFINE Next1 == {c \in Found(w) : Place(Found(w), c) = runs[w].offset + 1}
    <3>1. Found(w)' = Found(w) \ {x}
      BY <1>1, <2>1 DEF Found
    <3>2. Found(w) \subseteq Nat /\ IsFiniteSet(Found(w))
      BY FoundSets
    <3>3. \A c \in Found(w) : /\ Place(Found(w), c) <= Place(Found(w) \ {x}, c) + 1
                              /\ Place(Found(w), c) \in Nat
                              /\ Place(Found(w) \ {x}, c) \in Nat
      <4>1. \A c : Place(Found(w), c) \in Nat /\ Place(Found(w) \ {x}, c) \in Nat
        BY <3>2, PlaceAfterAddition
      <4>. QED  BY <3>2, <4>1, PlaceAfterRemoval
    <3>4. Due(runs[w]) \subseteq Found(w)
      BY <1>3, DueIsFound DEF InTime
    <3>5. \A c \in Missed(w)' : /\ c \in Due(runs[w]) /\ c \notin Entries(runs[w].all)
                                /\ Place(Found(w) \ {x}, c) <= runs[w].offset
      <4>1. \A c \in Missed(w)' : /\ c \in Due(runs[w])' /\ c \notin Entries(runs'[w].all)
                                  /\ Place(Found(w)', c) <= runs'[w].offset
        BY DEF Missed, Place, Due
      <4>2. \A c \in Missed(w)' : c \in Due(runs[w])
        BY <1>1, <2>1, <4>1 DEF Due
      <4>. QED  BY <2>1, <3>1, <4>1, <4>2
    <3>6. \A c \in Missed(w)' : c \in Missed(w) \/ c \in Next1
      <4>1. \A c \in Found(w) : Place(Found(w) \ {x}, c) <= runs[w].offset =>
              Place(Found(w), c) <= runs[w].offset \/ Place(Found(w), c) = runs[w].offset + 1
        BY <2>2, <3>3
      <4>. QED  BY <3>4, <3>5, <4>1 DEF Missed
    <3>7. \A c, d \in Next1 : c = d
      BY <3>2, Places
    <3>. HIDE DEF Next1
    <3>8. \E d : Missed(w)' \subseteq Missed(w) \cup {d}
      <4>1. CASE Next1 = {}
        BY <3>6, <4>1
      <4>2. ASSUME NEW d \in Next1 PROVE Missed(w)' \subseteq Missed(w) \cup {d}
        BY <3>6, <3>7
      <4>. QED  BY <4>1, <4>2
    <3>9. PICK d : Missed(w)' \subseteq Missed(w) \cup {d}
      BY <3>8
    <3>10. /\ IsFiniteSet(Missed(w)) /\ Cardinality(Missed(w)) \in Nat
      BY SwarmFinite
    <3>11. /\ IsFiniteSet(Missed(w) \cup {d}) /\ Cardinality(Missed(w) \cup {d}) \in Nat
           /\ Cardinality(Missed(w) \cup {d}) <= Cardinality(Missed(w)) + 1
      <4>. DEFINE M == Missed(w)
      <4>1. IsFiniteSet(M) /\ Cardinality(M) \in Nat
        BY <3>10
      <4>. HIDE DEF M
      <4>2. /\ IsFiniteSet(M \cup {d})
            /\ Cardinality(M \cup {d}) = IF d \in M THEN Cardinality(M) ELSE Cardinality(M) + 1
        BY ONLY <4>1, FS_AddElement
      <4>3. /\ IsFiniteSet(M \cup {d}) /\ Cardinality(M \cup {d}) \in Nat
            /\ Cardinality(M \cup {d}) <= Cardinality(M) + 1
        BY ONLY <4>1, <4>2
      <4>. QED  BY <4>3 DEF M
    <3>12. /\ Cardinality(Missed(w)') \in Nat
           /\ Cardinality(Missed(w)') <= Cardinality(Missed(w) \cup {d})
      BY <3>9, <3>11, Fewer
    <3>13. Cardinality(Missed(w)) <= runs[w].removals
      BY <2>5 DEF FewMissed
    <3>14. Cardinality(Missed(w)') <= runs'[w].removals
      BY <2>1, <2>2, <2>5, <3>10, <3>11, <3>12, <3>13
    <3>15. runs'[w].stage = "fetch"
      BY <2>1, <2>5 DEF Fetching
    <3>. HIDE DEF Missed, Unserved
    <3>. QED  BY <3>14, <3>15 DEF FewMissed
  <2>. QED  BY <2>4, <2>5
<1>. QED  BY <1>2, <1>3

\* An event that is deleted is not counted against the runs at work.
LEMMA DeletionMisses ==
  ASSUME SwarmTypeOK, SwarmTypeOK', NEW w \in Runners, FewMissed(w),
         NEW x \in Checkins, DeleteEvent(x)
  PROVE  FewMissed(w)'
<1>1. /\ UNCHANGED <<madeAt, removed>>
      /\ \A c \in Checkins : c # x => events'[c] = events[c]
  BY DEF DeleteEvent, SwarmTypeOK
<1>2. CASE runs[w] = NotRunning
  <2>1. runs'[w] = NotRunning
    BY <1>2, DeleteEffect
  <2>. QED  BY <2>1 DEF FewMissed, Fetching, NotRunning
<1>3. CASE runs[w] # NotRunning
  <2>1. /\ runs'[w].stage = runs[w].stage /\ runs'[w].all = runs[w].all
        /\ runs'[w].offset = runs[w].offset /\ runs'[w].since = runs[w].since
        /\ runs'[w].from = runs[w].from /\ runs'[w].until = runs[w].until
        /\ runs'[w].removals = runs[w].removals
        /\ runs'[w].deleted = runs[w].deleted \cup {x}
    BY <1>3, DeleteEffect
  <2>2. runs[w].stage \in {"fetch", "insert", "update"} /\ runs[w].removals \in Nat
    BY <1>3, RunTypes
  <2>3. (Fetching(w)' <=> Fetching(w)) /\ runs'[w] # NotRunning
    BY <2>1, <2>2 DEF Fetching, NotRunning
  <2>4. Missed(w)' \subseteq Missed(w)
    BY <1>1, <2>1 DEF Missed, Due, Found, Place
  <2>5. Unserved(w)' \subseteq Unserved(w)
    BY <1>1, <2>1, SwarmSets DEF Unserved, LeftOut
  <2>6. runs[w].removals <= runs'[w].removals
    BY <2>1, <2>2
  <2>. QED  BY <1>3, <2>3, <2>4, <2>5, <2>6, NoWorse
<1>. QED  BY <1>2, <1>3

\* A run that begins has missed nothing: no place is before the first.
LEMMA BeginMisses ==
  ASSUME SwarmTypeOK, SwarmTypeOK', NEW w \in Runners, runs'[w] # NotRunning,
         runs'[w].stage = "fetch", runs'[w].offset = 0, runs'[w].removals = 0,
         runs'[w].since <= runs'[w].from, UNCHANGED <<madeAt, removed>>
  PROVE  FewMissed(w)'
<1>. DEFINE F == {c \in DOMAIN madeAt \ removed : madeAt[c] > runs'[w].since}
<1>1. F \subseteq Nat /\ IsFiniteSet(F)
  BY SwarmSets, Fewer
<1>2. \A c \in F : Place(F, c) \in 1 .. Cardinality(F) /\ Cardinality(F) \in Nat
  BY <1>1, Places
<1>3. Found(w)' = F
  BY DEF Found
<1>4. Due(runs[w])' \subseteq F
  <2>1. runs'[w].since \in Int /\ runs'[w].from \in Int
    BY DEF SwarmTypeOK, RunOf
  <2>2. \A c \in DOMAIN madeAt : madeAt[c] \in Nat
    BY SwarmSets
  <2>3. \A c \in DOMAIN madeAt : runs'[w].from < madeAt[c] => madeAt[c] > runs'[w].since
    BY ONLY <2>1, <2>2, runs'[w].since <= runs'[w].from
  <2>. QED  BY <2>3 DEF Due
<1>. HIDE DEF F
<1>5. \A c \in Missed(w)' : c \in Due(runs[w])' /\ Place(F, c) <= 0
  BY <1>3 DEF Missed, Place, Due
<1>6. Missed(w)' = {}
  BY <1>2, <1>4, <1>5
<1>7. Cardinality(Missed(w)') = 0
  BY <1>6, FS_EmptySet
<1>. HIDE DEF Missed, Unserved
<1>. QED  BY <1>7 DEF FewMissed

\* The check-in that a run upserts has its event.
LEMMA UpsertMisses ==
  ASSUME SwarmTypeOK, SwarmTypeOK', NEW w \in Runners, FewMissed(w),
         runs[w].stage \in {"insert", "update"}, runs[w].all # <<>>,
         Upserted(w), events' = [events EXCEPT ![Head(runs[w].all)] = "confirmed"],
         UNCHANGED <<madeAt, removed>>
  PROVE  FewMissed(w)'
<1>1. /\ runs'[w].stage = "insert"
      /\ Entries(runs[w].all) = {Head(runs[w].all)} \cup Entries(runs'[w].all)
      /\ Head(runs[w].all) \in Checkins /\ SameAim(runs'[w], runs[w])
  BY UpsertedEffect
<1>2. \A c \in Checkins : events'[c] = IF c = Head(runs[w].all) THEN "confirmed" ELSE events[c]
  BY <1>1 DEF SwarmTypeOK
<1>3. runs[w] # NotRunning /\ runs'[w] # NotRunning /\ ~ Fetching(w) /\ ~ Fetching(w)'
  BY <1>1 DEF NotRunning, Fetching
<1>4. Unserved(w)' \subseteq Unserved(w)
  BY <1>1, <1>2, SwarmSets DEF Unserved, LeftOut, SameAim
<1>5. runs[w].removals <= runs'[w].removals
  BY <1>1, <1>3, RunTypes DEF SameAim
<1>. QED  BY <1>3, <1>4, <1>5, NoWorse


\* Every step keeps the count of what is missed.
LEMMA MissedByRemovalsNext ==
  ASSUME SwarmTypeOK, SwarmTypeOK', InTime, InTime', MissedByRemovals,
         [SwarmStep]_swarmVars
  PROVE  MissedByRemovals'
<1>0. \A w \in Runners : FewMissed(w)
  BY DEF MissedByRemovals
<1>. SUFFICES ASSUME NEW w \in Runners PROVE FewMissed(w)'
  BY DEF MissedByRemovals
<1>1. CASE HourPasses \/ StartedAgain \/ UNCHANGED swarmVars
  <2>1. UNCHANGED <<madeAt, removed, events, runs>>
    BY <1>1 DEF HourPasses, StartedAgain, swarmVars
  <2>. QED  BY <1>0, <2>1, Undisturbed
<1>2. CASE CheckIn
  BY <1>0, <1>2, CheckInMisses
<1>3. ASSUME NEW c \in Checkins, RemoveCheckin(c) PROVE FewMissed(w)'
  BY <1>0, <1>3, RemovalMisses
<1>4. ASSUME NEW c \in Checkins, DeleteEvent(c) PROVE FewMissed(w)'
  BY <1>0, <1>4, DeletionMisses
<1>5. ASSUME NEW v \in Runners, NEW from \in Int, NEW until \in Nat, NEW since \in Int,
             BeginRun(v, from, until, since), UNCHANGED <<madeAt, removed, events>>
      PROVE  FewMissed(w)'
  <2>1. /\ \A u \in Runners : u # v => runs'[u] = runs[u]
        /\ runs'[v].stage = "fetch" /\ runs'[v].offset = 0 /\ runs'[v].removals = 0
        /\ runs'[v] # NotRunning
    BY <1>5, BeginEffect
  <2>2. CASE w = v
    <3>1. runs'[w].since <= runs'[w].from
      BY <2>1, <2>2 DEF InTime
    <3>. QED  BY <1>5, <2>1, <2>2, <3>1, BeginMisses
  <2>3. CASE w # v
    BY <1>0, <1>5, <2>1, <2>3, Undisturbed
  <2>. QED  BY <2>2, <2>3
<1>6. CASE Night \/ ByHand
  <2>1. /\ nextNight \in Nat /\ hour \in Nat /\ nextNight - Day \in Int
        /\ After \in Int /\ -1 \in Int /\ "daemon" \in Runners /\ "hand" \in Runners
    <3>1. /\ nextNight \in Nat /\ hour \in Nat /\ Day \in Nat /\ Overlap \in Nat
      BY SwarmSets DEF SwarmTypeOK
    <3>2. "daemon" \in Runners /\ "hand" \in Runners
      BY DEF Runners
    <3>3. nextNight - Day \in Int /\ After \in Int /\ -1 \in Int
      BY ONLY <3>1 DEF After, Lookback
    <3>. QED  BY <3>1, <3>2, <3>3
  <2>2. UNCHANGED <<madeAt, removed, events>>
    BY <1>6 DEF Night, ByHand
  <2>3. \/ BeginRun("daemon", nextNight - Day, nextNight, After)
        \/ BeginRun("hand", -1, hour, -1)
        \/ BeginRun("hand", After, hour, After)
    BY <1>6 DEF Night, ByHand
  <2>. QED  BY <1>5, <2>1, <2>2, <2>3
<1>7. ASSUME NEW v \in Runners, v # w, FetchPage(v) \/ Insert(v) \/ Update(v) \/ RunDone(v) \/ RunFails(v)
      PROVE  FewMissed(w)'
  <2>1. UNCHANGED <<madeAt, removed>>
    BY <1>7 DEF FetchPage, Insert, Update, RunDone, RunFails
  <2>2. runs'[w] = runs[w]
    <3>1. \E r : runs' = [runs EXCEPT ![v] = r]
      BY <1>7 DEF FetchPage, Insert, Update, RunDone, RunFails, Upserted
    <3>. QED  BY <1>7, <3>1 DEF SwarmTypeOK
  <2>3. \A c \in Checkins : events[c] = "confirmed" => events'[c] = "confirmed"
    <3>1. \/ events' = events
          \/ \E d : events' = [events EXCEPT ![d] = "confirmed"]
      BY <1>7 DEF FetchPage, Insert, Update, RunDone, RunFails
    <3>. QED  BY <3>1 DEF SwarmTypeOK
  <2>. QED  BY <1>0, <2>1, <2>2, <2>3, Undisturbed
<1>8. CASE FetchPage(w)
  BY <1>0, <1>8, FetchPageMisses
<1>9. CASE Insert(w)
  <2>1. runs[w].stage = "insert" /\ runs[w].all # <<>> /\ UNCHANGED <<madeAt, removed>>
    BY <1>9 DEF Insert
  <2>2. CASE Upserted(w) /\ events' = [events EXCEPT ![Head(runs[w].all)] = "confirmed"]
    BY <1>0, <2>1, <2>2, UpsertMisses
  <2>3. CASE runs' = [runs EXCEPT ![w].stage = "update"] /\ UNCHANGED events
    <3>1. /\ runs'[w].stage = "update" /\ runs'[w].all = runs[w].all
          /\ SameAim(runs'[w], runs[w])
      BY <2>1, <2>3, RefusedEffect
    <3>2. runs[w] # NotRunning /\ runs'[w] # NotRunning /\ ~ Fetching(w) /\ ~ Fetching(w)'
      BY <2>1, <3>1 DEF NotRunning, Fetching
    <3>3. Unserved(w)' \subseteq Unserved(w)
      BY <2>1, <2>3, <3>1 DEF Unserved, LeftOut, SameAim
    <3>4. runs[w].removals <= runs'[w].removals
      BY <3>1, <3>2, RunTypes DEF SameAim
    <3>. QED  BY <1>0, <3>2, <3>3, <3>4, NoWorse
  <2>. QED  BY <1>9, <2>2, <2>3 DEF Insert
<1>10. CASE Update(w)
  <2>1. /\ runs[w].stage = "update" /\ Upserted(w) /\ UNCHANGED <<madeAt, removed>>
        /\ events' = [events EXCEPT ![Head(runs[w].all)] = "confirmed"]
    BY <1>10 DEF Update
  <2>2. runs[w].all # <<>>
    BY <2>1 DEF InTime, NotRunning
  <2>. QED  BY <1>0, <2>1, <2>2, UpsertMisses
<1>11. CASE RunDone(w) \/ RunFails(w)
  <2>1. runs' = [runs EXCEPT ![w] = NotRunning]
    BY <1>11 DEF RunDone, RunFails
  <2>2. runs'[w] = NotRunning
    BY <2>1, EndEffect
  <2>. QED  BY <2>2 DEF FewMissed, Fetching, NotRunning
<1>12. CASE Stopped
  <2>1. runs' = [runs EXCEPT !["daemon"] = NotRunning] /\ UNCHANGED <<madeAt, removed, events>>
    BY <1>12 DEF Stopped
  <2>2. runs'["daemon"] = NotRunning /\ \A v \in Runners : v # "daemon" => runs'[v] = runs[v]
    BY <2>1, EndEffect DEF Runners
  <2>3. CASE w = "daemon"
    BY <2>2, <2>3 DEF FewMissed, Fetching, NotRunning
  <2>4. CASE w # "daemon"
    BY <1>0, <2>1, <2>2, <2>4, Undisturbed
  <2>. QED  BY <2>3, <2>4
<1>. QED
  BY <1>1, <1>2, <1>3, <1>4, <1>6, <1>7, <1>8, <1>9, <1>10, <1>11, <1>12
     DEF SwarmStep, RunStep

\* A run that is done leaves out what it has missed.
LEMMA LeftOutNext ==
  ASSUME SwarmTypeOK, MissedByRemovals, LeftOutOnlyByRemovals, [SwarmStep]_swarmVars
  PROVE  LeftOutOnlyByRemovals'
<1>1. ASSUME NEW w \in Runners, RunDone(w) PROVE LeftOutOnlyByRemovals'
  <2>1. /\ runs[w].stage = "insert" /\ runs[w].all = <<>>
        /\ finished' = finished \cup
             {[left |-> Cardinality(LeftOut(runs[w])), removals |-> runs[w].removals]}
    BY <1>1 DEF RunDone
  <2>2. Unserved(w) = LeftOut(runs[w])
    BY <2>1, EmptyQueue DEF Unserved
  <2>3. Cardinality(LeftOut(runs[w])) <= runs[w].removals
    BY <2>1, <2>2 DEF MissedByRemovals, FewMissed
  <2>. QED  BY <2>1, <2>3 DEF LeftOutOnlyByRemovals
<1>2. CASE UNCHANGED finished
  BY <1>2 DEF LeftOutOnlyByRemovals
<1>3. SwarmStep => UNCHANGED finished \/ \E w \in Runners : RunDone(w)
  BY DEF SwarmStep, RunStep, HourPasses, CheckIn, RemoveCheckin, DeleteEvent, Night, ByHand,
         FetchPage, Insert, Update, RunFails, Stopped, StartedAgain
<1>. QED  BY <1>1, <1>2, <1>3 DEF swarmVars

\* Nobody runs at first.
LEMMA SwarmInvInit == SwarmInit => SwarmInv
<1>. SUFFICES ASSUME SwarmInit PROVE SwarmInv
  OBVIOUS
<1>1. \A w \in Runners : runs[w] = NotRunning
  BY DEF SwarmInit
<1>2. nextNight \in Nat /\ 0 < nextNight /\ Day <= nextNight
  <2>1. 0 \in Nat
    OBVIOUS
  <2>. QED  BY <2>1, MidnightIsNext DEF SwarmInit
<1>3. SwarmTypeOK
  <2>1. /\ hour \in 0 .. LastTime /\ removals \in 0 .. MaxRemovals
        /\ errors \in 0 .. MaxErrors /\ byHand \in 0 .. MaxByHand
    BY SwarmBounds DEF SwarmInit
  <2>2. madeAt \in Seq(0 .. hour) /\ Len(madeAt) <= MaxCheckins
    BY SwarmBounds, EmptySeq, EmptyQueue DEF SwarmInit
  <2>3. /\ removed \subseteq DOMAIN madeAt /\ daemon \in BOOLEAN
        /\ events \in [Checkins -> {"none", "confirmed", "cancelled"}]
        /\ runs \in [Runners -> {NotRunning} \cup RunOf({"fetch", "insert", "update"})]
        /\ finished \subseteq [left : Nat, removals : Nat]
    BY DEF SwarmInit
  <2>. QED  BY <1>2, <2>1, <2>2, <2>3 DEF SwarmTypeOK
<1>4. InTime
  <2>1. hour = 0 /\ Lateness \in Nat
    BY SwarmAssumption DEF SwarmInit
  <2>2. hour <= nextNight + Lateness
    BY <1>2, <2>1
  <2>. QED  BY <1>1, <1>2, <2>2 DEF InTime
<1>5. MissedByRemovals
  BY <1>1, IdleMissesNothing DEF MissedByRemovals
<1>6. LeftOutOnlyByRemovals
  BY DEF SwarmInit, LeftOutOnlyByRemovals
<1>. QED  BY <1>3, <1>4, <1>5, <1>6 DEF SwarmInv

\* Every step keeps the invariant.
LEMMA SwarmInvNext == SwarmInv /\ [SwarmStep]_swarmVars => SwarmInv'
<1>. SUFFICES ASSUME SwarmInv, [SwarmStep]_swarmVars PROVE SwarmInv'
  OBVIOUS
<1>1. SwarmTypeOK /\ InTime /\ MissedByRemovals /\ LeftOutOnlyByRemovals
  BY DEF SwarmInv
<1>2. SwarmTypeOK' /\ InTime'
  BY <1>1, SwarmTypeNext, InTimeNext
<1>3. MissedByRemovals' /\ LeftOutOnlyByRemovals'
  BY <1>1, <1>2, MissedByRemovalsNext, LeftOutNext
<1>. QED  BY <1>2, <1>3 DEF SwarmInv

\* The nightly job, a backfill and their overlap leave out no check-in of the
\* time they are for but one per removal while they paged, however large the
\* pages, however late cron is within the overlap, whatever fails and whatever
\* is made, removed or deleted meanwhile (FetchSince, FetchAll, upsertAll).
THEOREM SwarmLeavesOutOnlyRemoved == SwarmSpec => []LeftOutOnlyByRemovals
<1>1. SwarmInv => LeftOutOnlyByRemovals
  BY DEF SwarmInv
<1>. QED  BY <1>1, SwarmInvInit, SwarmInvNext, PTL DEF SwarmSpec


-----------------------------------------------------------------------------
(* The three together, as the runs have them: each keeps its invariant, for  *)
(* they share no state.                                                     *)

AllInv == WatcherInv /\ MentionInv /\ SwarmInv

\* The steps of MCNext are steps of one part.
LEMMA OnePartMoves ==
  ASSUME [MCNext]_allVars
  PROVE  [Next]_vars /\ [MentionStep]_mentionVars /\ [SwarmStep]_swarmVars
<1>1. CASE WatcherPart(Next)
  BY <1>1 DEF WatcherPart
<1>2. CASE MentionPart(MentionStep)
  BY <1>2 DEF MentionPart
<1>3. CASE part = "swarm" /\ SwarmStep /\ UNCHANGED <<part, vars, mentionVars>>
  BY <1>3
<1>4. CASE UNCHANGED allVars
  BY <1>4 DEF allVars
<1>. QED  BY <1>1, <1>2, <1>3, <1>4 DEF MCNext

\* The parts keep their invariants together.
LEMMA AllInvariance == MCSpec => []AllInv
<1>1. MCInit => AllInv
  BY WatcherInvInit, MentionInvInit, SwarmInvInit DEF MCInit, AllInv
<1>2. AllInv /\ [MCNext]_allVars => AllInv'
  <2>. SUFFICES ASSUME AllInv, [MCNext]_allVars PROVE AllInv'
    OBVIOUS
  <2>1. WatcherInv'
    <3>1. WatcherInv /\ [Next]_vars
      BY OnePartMoves DEF AllInv
    <3>. QED  BY <3>1, WatcherTypeNext, WatcherInvNext DEF WatcherInv
  <2>2. MentionInv'
    <3>1. MentionInv /\ [MentionStep]_mentionVars
      BY OnePartMoves DEF AllInv
    <3>. QED  BY <3>1, MentionTypeNext, BooksNext DEF MentionInv
  <2>3. SwarmInv'
    BY OnePartMoves, SwarmInvNext DEF AllInv
  <2>. QED  BY <2>1, <2>2, <2>3 DEF AllInv
<1>. QED  BY <1>1, <1>2, PTL DEF MCSpec

\* Types, and the watcher's delivery one at a time and in order, of every
\* behaviour of the composition.
THEOREM AronaIsSafe == MCSpec => []AronaSafe
<1>1. AllInv => AronaSafe
  BY WatcherInvDelivers DEF AllInv, MentionInv, SwarmInv, AronaSafe
<1>. QED  BY <1>1, AllInvariance, PTL
=============================================================================
