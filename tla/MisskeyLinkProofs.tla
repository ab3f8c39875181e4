------------------------- MODULE MisskeyLinkProofs --------------------------
(***************************************************************************)
(* Proofs about MisskeyLink, for any guilds, hashtags, fetch limit and      *)
(* bounds.                                                                  *)
(*                                                                         *)
(* The inductive invariant has three parts.  Waiting: the notes on their    *)
(* way to the handler are in order and newer than the cursor, so that the   *)
(* cursor never jumps over one of them.  Marked: a pair of a note and a     *)
(* guild has one message exactly when it is marked or about to be, unless   *)
(* it is in doubt.  AllAccounted: every note the cursor has passed, or will *)
(* pass, is handled, waiting or lost in a gap.                              *)
(***************************************************************************)
EXTENDS MisskeyLink, QueueLemmas

\* Only a bot that has fetched its batch handles notes, and only a subscribed
\* one has any on the stream.
Busy ==
  /\ phase \notin {"backfill", "live"} => todo = <<>> /\ note = 0
  /\ conn # "subscribed" => wire = <<>>
  /\ note = 0 => left = {} /\ dest = NoGuild
  /\ dest \notin left

\* Notes that are on their way to the handler, beside the one it is at.
Coming == NotesIn(todo) \cup NotesIn(wire)

\* They come in order, and none of them has been passed by the cursor.
Waiting ==
  /\ Ascending(todo) /\ Ascending(wire)
  /\ \A m \in NotesIn(todo), n \in NotesIn(wire) : m < n
  /\ \A n \in Coming : note < n /\ cursor < n
  /\ note # 0 => cursor < note

\* Once the bot has a cursor, or has found that there is no note to have one
\* for, nothing older than its first start can be taken up.
PastIsPast ==
  /\ initial <= posted
  /\ cursor # NoCursor \/ phase \in {"backfill", "live"} => initial <= cursor
  /\ phase = "fetching" => cursor # NoCursor

\* A pair that is not in doubt has one message if it is marked or has just been
\* posted, and none otherwise.  What is being sent was not marked.
Marked ==
  /\ \A n \in Notes, g \in Guilds :
       <<n, g>> \notin unmarked =>
         sent[n][g] = IF <<n, g>> \in forwarded \/ (n = note /\ g = dest /\ accepted)
                      THEN 1 ELSE 0
  /\ dest # NoGuild => <<note, dest>> \notin forwarded

\* The batch that is asked for holds every note that was missed.
BatchFits == phase = "fetching" => posted <= cursor + FetchLimit

\* The notes that the cursor has passed are handled or were posted in a gap, and
\* the later ones wait or were; a bot that starts will fetch them.
AllAccounted ==
  /\ \A n \in start + 1 .. cursor : n \in handled \cup gap
  /\ phase \in {"backfill", "live"} =>
       cursor + 1 .. posted \subseteq {note} \cup Coming \cup gap

LinkInv == TypeOK /\ Busy /\ Waiting /\ PastIsPast /\ Marked

-----------------------------------------------------------------------------
(* Type correctness.                                                       *)

\* A queue of notes stays one when more are posted.
LEMMA MorePosted ==
  ASSUME TypeOK, posted < MaxNote
  PROVE  /\ posted + 1 \in 0 .. MaxNote /\ posted + 1 \in 1 .. posted + 1
         /\ 1 .. posted \subseteq 1 .. posted + 1
         /\ 0 .. posted \subseteq 0 .. posted + 1
         /\ wire \in Seq(1 .. posted + 1) /\ todo \in Seq(1 .. posted + 1)
<1>1. /\ posted + 1 \in 0 .. MaxNote /\ posted + 1 \in 1 .. posted + 1
      /\ 1 .. posted \subseteq 1 .. posted + 1
      /\ 0 .. posted \subseteq 0 .. posted + 1
  BY BoundAssumption DEF TypeOK
<1>2. wire \in Seq(1 .. posted) /\ todo \in Seq(1 .. posted)
  BY DEF TypeOK
<1>. QED  BY <1>1, <1>2, WiderQueue

\* The batch is a queue of notes, the oldest first, none older than the cursor.
LEMMA BatchProperties ==
  ASSUME TypeOK
  PROVE  /\ Batch \in Seq(1 .. posted)
         /\ Ascending(Batch)
         /\ NotesIn(Batch) = Fetched
<1>. DEFINE n == Smaller(posted, cursor + FetchLimit) - cursor
<1>1. /\ posted \in Nat /\ cursor \in Nat /\ cursor <= posted
      /\ FetchLimit \in Nat /\ FetchLimit > 0
  BY LimitAssumption, BoundAssumption DEF TypeOK
<1>2. n \in Nat /\ cursor + n <= posted /\ Fetched = cursor + 1 .. cursor + n
  BY <1>1 DEF Fetched, Smaller
<1>. HIDE DEF n
<1>3. Cardinality(Fetched) = n
  BY <1>1, <1>2, FS_Interval
<1>4. Batch = [i \in 1 .. n |-> cursor + i]
  BY <1>3 DEF Batch
<1>5. \A i \in 1 .. n : cursor + i \in 1 .. posted
  BY <1>1, <1>2
<1>6. Batch \in Seq(1 .. posted) /\ Len(Batch) = n
  BY <1>2, <1>4, <1>5
<1>7. Ascending(Batch)
  BY <1>1, <1>2, <1>4, <1>6 DEF Ascending
<1>8. NotesIn(Batch) = Fetched
  <2>1. NotesIn(Batch) = {cursor + i : i \in 1 .. n}
    BY <1>4, <1>6 DEF NotesIn
  <2>2. \A m \in cursor + 1 .. cursor + n : m - cursor \in 1 .. n /\ m = cursor + (m - cursor)
    BY <1>1, <1>2
  <2>3. \A i \in 1 .. n : cursor + i \in cursor + 1 .. cursor + n
    BY <1>1, <1>2
  <2>. QED  BY <1>2, <2>1, <2>2, <2>3
<1>. QED  BY <1>6, <1>7, <1>8

\* The parts of TypeOK, which different steps change: the notes on their way,
\* what is sent and marked, and the bounds.
FlowTypes ==
  /\ posted \in 0 .. MaxNote
  /\ phase \in Phases
  /\ conn \in {"none", "connecting", "subscribed"}
  /\ wire \in Seq(1 .. posted) /\ todo \in Seq(1 .. posted)
  /\ note \in 0 .. posted /\ cursor \in 0 .. posted
  /\ initial \in 0 .. posted /\ start \in 0 .. posted
  /\ handled \subseteq 1 .. posted /\ gap \subseteq 1 .. posted
  /\ phase = "live" <=> conn # "none"

SendTypes ==
  /\ left \subseteq Guilds /\ dest \in Guilds \cup {NoGuild}
  /\ accepted \in BOOLEAN
  /\ enabled \in [Guilds -> BOOLEAN]
  /\ sent \in [Notes -> [Guilds -> Nat]]

MarkTypes ==
  /\ forwarded \subseteq (1 .. posted) \X Guilds
  /\ unmarked \subseteq (1 .. posted) \X Guilds

\* The type invariant is that of these parts.
LEMMA TypeParts ==
  TypeOK <=> /\ FlowTypes /\ SendTypes /\ MarkTypes
             /\ crashes \in 0 .. MaxCrashes /\ drops \in 0 .. MaxDrops
BY DEF TypeOK, FlowTypes, SendTypes, MarkTypes

\* The state of a first start is well typed.
LEMMA TypeInit == Init => TypeOK
<1>. SUFFICES ASSUME Init PROVE TypeOK
  OBVIOUS
<1>. USE BoundAssumption DEF Init
<1>1. FlowTypes
  BY DEF FlowTypes, Phases, NoCursor
<1>2. SendTypes
  BY DEF SendTypes
<1>3. MarkTypes /\ crashes \in 0 .. MaxCrashes /\ drops \in 0 .. MaxDrops
  BY DEF MarkTypes
<1>. QED  BY <1>1, <1>2, <1>3, TypeParts

\* What waits keeps its type.
LEMMA FlowTypesNext ==
  ASSUME TypeOK, Busy, [Next]_vars
  PROVE  FlowTypes'
<1>. USE BoundAssumption DEF Phases, bridgeVars, tables, bounds
<1>0. FlowTypes
  BY TypeParts
<1>1. CASE PostToStream \/ PostUnseen
  <2>. USE <1>0, <1>1, MorePosted DEF FlowTypes
  <2>1. CASE PostToStream
    <3>1. wire' \in Seq(1 .. posted + 1)
      BY <2>1, Appended DEF PostToStream
    <3>. QED  BY <2>1, <3>1 DEF PostToStream
  <2>2. CASE PostUnseen
    <3>1. gap' \subseteq 1 .. posted + 1
      BY <2>2 DEF PostUnseen
    <3>. QED  BY <2>2, <3>1 DEF PostUnseen
  <2>. QED  BY <2>1, <2>2
<1>2. CASE Startup
  <2>1. CASE Resolve
    BY <1>0, <2>1 DEF FlowTypes, Resolve, AfterResolve
  <2>2. CASE InitCursor
    BY <1>0, <2>2 DEF FlowTypes, InitCursor
  <2>3. CASE FetchNotes
    BY <1>0, <2>3, BatchProperties DEF FlowTypes, FetchNotes
  <2>4. CASE StartupFails
    BY <1>0, <2>4 DEF FlowTypes, StartupFails
  <2>. QED  BY <1>2, <2>1, <2>2, <2>3, <2>4 DEF Startup
<1>3. CASE StartWatcher \/ Subscribe
  BY <1>0, <1>3 DEF FlowTypes, StartWatcher, Subscribe
<1>4. CASE Receive
  <2>1. todo' \in Seq(1 .. posted) /\ wire' \in Seq(1 .. posted)
    BY <1>0, <1>4, Appended, Taken DEF Receive, FlowTypes
  <2>. QED  BY <1>0, <1>4, <2>1 DEF FlowTypes, Receive
<1>5. CASE StreamCloses
  <2>1. gap' \subseteq 1 .. posted
    BY <1>0, <1>5, EntriesType DEF StreamCloses, FlowTypes, NotesIn, Entries
  <2>. QED  BY <1>0, <1>5, <2>1 DEF FlowTypes, StreamCloses
<1>6. CASE Handling
  <2>1. CASE TakeNote
    <3>1. note' \in 1 .. posted /\ todo' \in Seq(1 .. posted)
      BY <1>0, <2>1, Taken DEF TakeNote, FlowTypes
    <3>. QED  BY <1>0, <2>1, <3>1 DEF FlowTypes, TakeNote
  <2>2. CASE FinishNote
    BY <1>0, <2>2 DEF FlowTypes, FinishNote, CursorAfter, Larger
  <2>3. CASE \E g \in left : SkipGuild(g) \/ StartSend(g)
    BY <1>0, <2>3 DEF FlowTypes, SkipGuild, StartSend
  <2>4. CASE SendSucceeds \/ SendFails
    BY <1>0, <2>4 DEF FlowTypes, SendSucceeds, SendFails
  <2>. QED  BY <1>6, <2>1, <2>2, <2>3, <2>4 DEF Handling
<1>7. CASE DiscordPosts \/ Restart \/ UNCHANGED vars
  BY <1>0, <1>7 DEF FlowTypes, DiscordPosts, Restart, vars
<1>8. CASE \E g \in Guilds, on \in BOOLEAN : SetEnabled(g, on)
  BY <1>0, <1>8 DEF FlowTypes, SetEnabled
<1>9. CASE Crash
  BY <1>0, <1>9 DEF FlowTypes, Crash
<1>. QED  BY <1>1, <1>2, <1>3, <1>4, <1>5, <1>6, <1>7, <1>8, <1>9 DEF Next

\* A message is only ever about a note that the handler is at.
LEMMA SendingType ==
  ASSUME TypeOK, Busy
  PROVE  /\ dest # NoGuild => note \in 1 .. posted /\ note \in Notes /\ dest \in Guilds
         /\ InDoubt \subseteq (1 .. posted) \X Guilds
<1>1. dest # NoGuild => note \in 1 .. posted /\ note \in Notes /\ dest \in Guilds
  BY BoundAssumption DEF TypeOK, Busy, Notes
<1>. QED  BY <1>1 DEF InDoubt

\* What is sent keeps its type.
LEMMA SendTypesNext ==
  ASSUME TypeOK, Busy, [Next]_vars
  PROVE  SendTypes'
<1>. USE DEF bridgeVars, tables, bounds
<1>0. SendTypes
  BY TypeParts
<1>1. CASE \/ PostToStream \/ PostUnseen \/ Startup \/ StartWatcher \/ Subscribe
           \/ Receive \/ StreamCloses \/ FinishNote \/ Restart \/ UNCHANGED vars
  <2>1. UNCHANGED <<left, dest, accepted, enabled, sent>>
    BY <1>1 DEF PostToStream, PostUnseen, Startup, Resolve, InitCursor, FetchNotes,
       StartupFails, StartWatcher, Subscribe, Receive, StreamCloses, FinishNote,
       Restart, vars
  <2>. QED  BY <1>0, <2>1 DEF SendTypes
<1>2. CASE TakeNote
  <2>1. left' \subseteq Guilds
    <3>1. Head(todo) \in Notes
      BY <1>2, Taken, BoundAssumption DEF TakeNote, TypeOK, Notes
    <3>. QED  BY <1>2, <3>1, TaggedAssumption DEF TakeNote
  <2>. QED  BY <1>0, <1>2, <2>1 DEF SendTypes, TakeNote
<1>3. CASE \E g \in left : SkipGuild(g) \/ StartSend(g)
  BY <1>0, <1>3 DEF SendTypes, SkipGuild, StartSend
<1>4. CASE SendSucceeds \/ SendFails
  BY <1>0, <1>4 DEF SendTypes, SendSucceeds, SendFails
<1>5. CASE DiscordPosts
  <2>1. note \in Notes /\ dest \in Guilds
    BY <1>5, SendingType DEF DiscordPosts
  <2>2. sent' \in [Notes -> [Guilds -> Nat]]
    BY <1>0, <1>5, <2>1 DEF SendTypes, DiscordPosts
  <2>. QED  BY <1>0, <1>5, <2>2 DEF SendTypes, DiscordPosts
<1>6. CASE \E g \in Guilds, on \in BOOLEAN : SetEnabled(g, on)
  BY <1>0, <1>6 DEF SendTypes, SetEnabled
<1>7. CASE Crash
  BY <1>0, <1>7 DEF SendTypes, Crash
<1>. QED  BY <1>1, <1>2, <1>3, <1>4, <1>5, <1>6, <1>7 DEF Next, Handling

\* The marks and the bounds keep their types.
LEMMA MarkTypesNext ==
  ASSUME TypeOK, Busy, [Next]_vars
  PROVE  MarkTypes' /\ crashes' \in 0 .. MaxCrashes /\ drops' \in 0 .. MaxDrops
<1>. USE BoundAssumption DEF bridgeVars, tables, bounds
<1>0. MarkTypes /\ crashes \in 0 .. MaxCrashes /\ drops \in 0 .. MaxDrops
  BY TypeParts
<1>1. CASE PostToStream \/ PostUnseen
  <2>1. posted' = posted + 1 /\ UNCHANGED <<forwarded, unmarked, crashes, drops>>
    BY <1>1 DEF PostToStream, PostUnseen
  <2>2. 1 .. posted \subseteq 1 .. posted'
    BY <1>1, <2>1, MorePosted DEF PostToStream, PostUnseen
  <2>. QED  BY <1>0, <2>1, <2>2 DEF MarkTypes
<1>2. CASE \/ Startup \/ StartWatcher \/ Subscribe \/ Receive \/ TakeNote
           \/ FinishNote \/ DiscordPosts \/ Restart \/ UNCHANGED vars
  <2>1. UNCHANGED <<posted, forwarded, unmarked, crashes, drops>>
    BY <1>2 DEF Startup, Resolve, InitCursor, FetchNotes, StartupFails, StartWatcher,
       Subscribe, Receive, TakeNote, FinishNote, DiscordPosts, Restart, vars
  <2>. QED  BY <1>0, <2>1 DEF MarkTypes
<1>3. CASE StreamCloses
  BY <1>0, <1>3 DEF MarkTypes, StreamCloses
<1>4. CASE \E g \in left : SkipGuild(g) \/ StartSend(g)
  BY <1>0, <1>4 DEF MarkTypes, SkipGuild, StartSend
<1>5. CASE SendSucceeds
  BY <1>0, <1>5, SendingType DEF MarkTypes, SendSucceeds
<1>6. CASE SendFails
  BY <1>0, <1>6, SendingType DEF MarkTypes, SendFails
<1>7. CASE \E g \in Guilds, on \in BOOLEAN : SetEnabled(g, on)
  BY <1>0, <1>7 DEF MarkTypes, SetEnabled
<1>8. CASE Crash
  BY <1>0, <1>8, SendingType DEF MarkTypes, Crash
<1>. QED  BY <1>1, <1>2, <1>3, <1>4, <1>5, <1>6, <1>7, <1>8 DEF Next, Handling

\* Every step keeps the state well typed.
LEMMA TypeNext ==
  ASSUME TypeOK, Busy, [Next]_vars
  PROVE  TypeOK'
<1>1. FlowTypes' /\ SendTypes' /\ MarkTypes'
      /\ crashes' \in 0 .. MaxCrashes /\ drops' \in 0 .. MaxDrops
  BY FlowTypesNext, SendTypesNext, MarkTypesNext
<1>. QED  BY <1>1 DEF TypeOK, FlowTypes, SendTypes, MarkTypes

-----------------------------------------------------------------------------
(* The conjuncts of the inductive invariant.                               *)

\* Every step keeps the handler and the stream within their phases.
LEMMA BusyNext ==
  ASSUME TypeOK, Busy, [Next]_vars
  PROVE  Busy'
<1>. USE DEF Busy, bridgeVars, tables, bounds
<1>0. /\ phase = "live" <=> conn # "none"
      /\ NoGuild \notin Guilds /\ left \subseteq Guilds
  BY GuildAssumption DEF TypeOK
<1>1. CASE PostToStream \/ PostUnseen
  BY <1>0, <1>1 DEF PostToStream, PostUnseen
<1>2. CASE Startup
  BY <1>0, <1>2 DEF Startup, Resolve, AfterResolve, InitCursor, FetchNotes, StartupFails
<1>3. CASE StartWatcher \/ Subscribe
  BY <1>0, <1>3 DEF StartWatcher, Subscribe
<1>4. CASE Receive
  BY <1>0, <1>4 DEF Receive
<1>5. CASE StreamCloses
  BY <1>0, <1>5 DEF StreamCloses
<1>6. CASE TakeNote
  <2>1. left' \subseteq Guilds
    <3>1. Head(todo) \in Notes
      BY <1>6, Taken, BoundAssumption DEF TakeNote, TypeOK, Notes
    <3>. QED  BY <1>6, <3>1, TaggedAssumption DEF TakeNote
  <2>2. note' # 0
    BY <1>6, Taken DEF TakeNote, TypeOK
  <2>. QED  BY <1>0, <1>6, <2>1, <2>2 DEF TakeNote
<1>7. CASE \E g \in left : SkipGuild(g) \/ StartSend(g)
  BY <1>0, <1>7 DEF SkipGuild, StartSend
<1>8. CASE SendSucceeds \/ SendFails
  BY <1>0, <1>8 DEF SendSucceeds, SendFails
<1>9. CASE FinishNote
  BY <1>0, <1>9 DEF FinishNote
<1>10. CASE DiscordPosts \/ Restart \/ UNCHANGED vars
  BY <1>0, <1>10 DEF DiscordPosts, Restart, vars
<1>11. CASE \E g \in Guilds, on \in BOOLEAN : SetEnabled(g, on)
  BY <1>0, <1>11 DEF SetEnabled
<1>12. CASE Crash
  BY <1>0, <1>12 DEF Crash
<1>. QED
  BY <1>1, <1>2, <1>3, <1>4, <1>5, <1>6, <1>7, <1>8, <1>9, <1>10, <1>11, <1>12
     DEF Next, Handling

\* The entries of the queues are notes that were posted.
LEMMA QueueTypes ==
  ASSUME TypeOK
  PROVE  /\ posted \in Nat /\ cursor \in Nat /\ note \in Nat /\ initial \in Nat
         /\ cursor <= posted /\ note <= posted
         /\ wire \in Seq(1 .. posted) /\ todo \in Seq(1 .. posted)
         /\ wire \in Seq(Nat) /\ todo \in Seq(Nat)
         /\ NotesIn(wire) \subseteq 1 .. posted /\ NotesIn(todo) \subseteq 1 .. posted
         /\ \A q : NotesIn(q) = Entries(q)
<1>1. /\ posted \in Nat /\ cursor \in Nat /\ note \in Nat /\ initial \in Nat
      /\ cursor <= posted /\ note <= posted
      /\ wire \in Seq(1 .. posted) /\ todo \in Seq(1 .. posted)
  BY BoundAssumption DEF TypeOK
<1>2. \A q : NotesIn(q) = Entries(q)
  BY DEF NotesIn, Entries
<1>3. 1 .. posted \subseteq Nat
  BY <1>1
<1>. QED  BY <1>1, <1>2, <1>3, EntriesType, WiderQueue

\* What waits stays in order and ahead of the cursor.
LEMMA WaitingNext ==
  ASSUME TypeOK, Busy, Waiting, [Next]_vars
  PROVE  Waiting'
<1>. USE QueueTypes DEF bridgeVars, tables, bounds
<1>1. CASE PostToStream
  <2>. DEFINE n == posted + 1
  <2>1. /\ wire' = Append(wire, n) /\ n \in Nat /\ posted < n
        /\ UNCHANGED <<todo, note, cursor>>
    BY <1>1 DEF PostToStream
  <2>. HIDE DEF n
  <2>2. Entries(wire') = Entries(wire) \cup {n}
    <3>1. wire \in Seq(Nat) /\ n \in Nat
      BY <2>1
    <3>2. Entries(Append(wire, n)) = Entries(wire) \cup {n}
      BY ONLY <3>1, Appended
    <3>. QED  BY <2>1, <3>2
  <2>3. Ascending(wire')
    <3>1. \A x \in Entries(wire) : x < n
      BY <2>1
    <3>2. wire \in Seq(Nat) /\ Ascending(wire)
      BY DEF Waiting
    <3>3. Ascending(Append(wire, n))
      BY <2>1, <3>1, <3>2, AscendingAppended
    <3>. QED  BY <2>1, <3>3
  <2>. QED  BY <2>1, <2>2, <2>3 DEF Waiting, Coming
<1>2. CASE InitCursor
  <2>1. /\ todo' = <<>> /\ wire' = <<>> /\ note' = 0
    BY <1>2 DEF InitCursor, Busy, TypeOK
  <2>. QED  BY <2>1, EmptyQueue DEF Waiting, Coming
<1>3. CASE FetchNotes
  <2>1. /\ todo' = Batch /\ wire' = <<>> /\ note' = 0 /\ cursor' = cursor
    BY <1>3 DEF FetchNotes, Busy, TypeOK
  <2>2. /\ Ascending(todo') /\ \A n \in NotesIn(todo') : cursor < n /\ 0 < n
    BY <2>1, BatchProperties DEF Fetched
  <2>. QED  BY <2>1, <2>2, EmptyQueue DEF Waiting, Coming
<1>4. CASE Receive
  <2>. DEFINE n == Head(wire)
  <2>1. /\ wire # <<>> /\ todo' = Append(todo, n) /\ wire' = Tail(wire)
        /\ UNCHANGED <<note, cursor>>
    BY <1>4 DEF Receive
  <2>2. /\ n \in NotesIn(wire) /\ n \in Nat /\ NotesIn(wire') \subseteq NotesIn(wire)
        /\ NotesIn(todo') = NotesIn(todo) \cup {n}
    BY <2>1, Taken, Appended
  <2>3. Ascending(wire') /\ \A m \in NotesIn(wire') : n < m
    BY <2>1, AscendingTaken DEF Waiting
  <2>4. Ascending(todo')
    BY <2>1, <2>2, AscendingAppended DEF Waiting
  <2>. HIDE DEF n
  <2>. QED  BY <2>1, <2>2, <2>3, <2>4 DEF Waiting, Coming
<1>5. CASE StreamCloses
  <2>1. wire' = <<>> /\ UNCHANGED <<todo, note, cursor>>
    BY <1>5 DEF StreamCloses
  <2>. QED  BY <2>1, EmptyQueue DEF Waiting, Coming
<1>6. CASE TakeNote
  <2>1. /\ todo # <<>> /\ note' = Head(todo) /\ todo' = Tail(todo)
        /\ UNCHANGED <<wire, cursor>>
    BY <1>6 DEF TakeNote
  <2>2. /\ note' \in NotesIn(todo) /\ NotesIn(todo') \subseteq NotesIn(todo)
    BY <2>1, Taken
  <2>3. Ascending(todo') /\ \A m \in NotesIn(todo') : note' < m
    BY <2>1, AscendingTaken DEF Waiting
  <2>. QED  BY <2>1, <2>2, <2>3 DEF Waiting, Coming
<1>7. CASE FinishNote
  <2>1. note # 0 /\ cursor' = note /\ note' = 0 /\ UNCHANGED <<todo, wire>>
    BY <1>7 DEF FinishNote, CursorAfter, Larger, Waiting
  <2>2. \A n \in Coming : 0 < n
    BY DEF Coming
  <2>. QED  BY <2>1, <2>2 DEF Waiting, Coming
<1>8. CASE Crash
  <2>1. todo' = <<>> /\ wire' = <<>> /\ note' = 0
    BY <1>8 DEF Crash
  <2>. QED  BY <2>1, EmptyQueue DEF Waiting, Coming
<1>9. CASE \/ PostUnseen \/ Resolve \/ StartupFails \/ StartWatcher \/ Subscribe
           \/ (\E g \in left : SkipGuild(g) \/ StartSend(g))
           \/ SendSucceeds \/ SendFails \/ DiscordPosts
           \/ (\E g \in Guilds, on \in BOOLEAN : SetEnabled(g, on))
           \/ Restart \/ UNCHANGED vars
  <2>1. UNCHANGED <<todo, wire, note, cursor>>
    BY <1>9 DEF PostUnseen, Resolve, StartupFails, StartWatcher, Subscribe, SkipGuild,
       StartSend, SendSucceeds, SendFails, DiscordPosts, SetEnabled, Restart, vars
  <2>. QED  BY <2>1 DEF Waiting, Coming
<1>. QED
  BY <1>1, <1>2, <1>3, <1>4, <1>5, <1>6, <1>7, <1>8, <1>9 DEF Next, Startup, Handling

\* The cursor is never behind the first start once it is used.
LEMMA PastIsPastNext ==
  ASSUME TypeOK, Busy, Waiting, PastIsPast, [Next]_vars
  PROVE  PastIsPast'
<1>. USE QueueTypes DEF PastIsPast, NoCursor, bridgeVars, tables, bounds
<1>1. CASE PostToStream \/ PostUnseen
  BY <1>1 DEF PostToStream, PostUnseen
<1>2. CASE Resolve
  BY <1>2 DEF Resolve, AfterResolve
<1>3. CASE InitCursor
  BY <1>3 DEF InitCursor
<1>4. CASE FetchNotes \/ StartupFails
  BY <1>4 DEF FetchNotes, StartupFails
<1>5. CASE StartWatcher
  BY <1>5 DEF StartWatcher
<1>6. CASE FinishNote
  <2>1. cursor < note /\ cursor' = note /\ phase \in {"backfill", "live"}
    BY <1>6 DEF FinishNote, CursorAfter, Larger, Waiting, Busy
  <2>. QED  BY <1>6, <2>1 DEF FinishNote
<1>7. CASE Crash \/ Restart
  BY <1>7 DEF Crash, Restart
<1>8. CASE \/ Subscribe \/ Receive \/ StreamCloses \/ TakeNote
           \/ (\E g \in left : SkipGuild(g) \/ StartSend(g))
           \/ SendSucceeds \/ SendFails \/ DiscordPosts
           \/ (\E g \in Guilds, on \in BOOLEAN : SetEnabled(g, on))
           \/ UNCHANGED vars
  <2>1. UNCHANGED <<posted, phase, cursor, initial>>
    BY <1>8 DEF Subscribe, Receive, StreamCloses, TakeNote, SkipGuild, StartSend,
       SendSucceeds, SendFails, DiscordPosts, SetEnabled, vars
  <2>. QED  BY <2>1
<1>. QED
  BY <1>1, <1>2, <1>3, <1>4, <1>5, <1>6, <1>7, <1>8 DEF Next, Startup, Handling

\* Messages, marks and doubts stay in step.
LEMMA MarkedNext ==
  ASSUME TypeOK, Busy, Marked, [Next]_vars
  PROVE  Marked'
<1>. USE DEF bridgeVars, tables, bounds
<1>0. /\ NoGuild \notin Guilds /\ accepted \in BOOLEAN
      /\ sent \in [Notes -> [Guilds -> Nat]]
      /\ dest # NoGuild => note \in Notes /\ dest \in Guilds
  BY SendingType, GuildAssumption DEF TypeOK
<1>1. CASE \/ PostToStream \/ PostUnseen \/ Startup \/ StartWatcher \/ Subscribe
           \/ Receive \/ StreamCloses \/ Restart
           \/ (\E g \in left : SkipGuild(g))
           \/ (\E g \in Guilds, on \in BOOLEAN : SetEnabled(g, on))
           \/ UNCHANGED vars
  <2>1. UNCHANGED <<note, dest, accepted, forwarded, sent, unmarked>>
    BY <1>1 DEF PostToStream, PostUnseen, Startup, Resolve, InitCursor, FetchNotes,
       StartupFails, StartWatcher, Subscribe, Receive, StreamCloses, Restart,
       SkipGuild, SetEnabled, vars
  <2>. QED  BY <2>1 DEF Marked
<1>2. CASE TakeNote \/ FinishNote
  <2>1. dest = NoGuild /\ UNCHANGED <<dest, forwarded, sent, unmarked>>
    BY <1>2 DEF TakeNote, FinishNote, Busy
  <2>. QED  BY <1>0, <2>1 DEF Marked
<1>3. CASE \E g \in left : StartSend(g)
  <2>1. PICK g \in left : StartSend(g)
    BY <1>3
  <2>2. /\ dest = NoGuild /\ dest' = g /\ accepted' = FALSE
        /\ <<note, g>> \notin forwarded
        /\ UNCHANGED <<note, forwarded, sent, unmarked>>
    BY <2>1 DEF StartSend, IsForwarded
  <2>. QED  BY <1>0, <2>2 DEF Marked
<1>4. CASE DiscordPosts
  <2>1. /\ dest # NoGuild /\ ~ accepted /\ accepted' = TRUE
        /\ sent' = [sent EXCEPT ![note][dest] = @ + 1]
        /\ UNCHANGED <<note, dest, forwarded, unmarked>>
    BY <1>4 DEF DiscordPosts
  <2>2. ASSUME NEW n \in Notes, NEW g \in Guilds
        PROVE  sent'[n][g] = IF n = note /\ g = dest THEN sent[n][g] + 1
                             ELSE sent[n][g]
    BY <1>0, <2>1
  <2>. QED  BY <1>0, <2>1, <2>2 DEF Marked
<1>5. CASE SendSucceeds
  <2>1. /\ dest # NoGuild /\ accepted /\ forwarded' = forwarded \cup {<<note, dest>>}
        /\ dest' = NoGuild /\ UNCHANGED <<note, accepted, sent, unmarked>>
    BY <1>5 DEF SendSucceeds
  <2>. QED  BY <1>0, <2>1 DEF Marked
<1>6. CASE SendFails \/ Crash
  <2>1. /\ dest' = NoGuild /\ unmarked' = unmarked \cup InDoubt
        /\ UNCHANGED <<forwarded, sent>>
    BY <1>6 DEF SendFails, Crash
  <2>2. ASSUME NEW n \in Notes, NEW g \in Guilds, <<n, g>> \notin unmarked'
        PROVE  sent'[n][g] = IF <<n, g>> \in forwarded' THEN 1 ELSE 0
    <3>1. <<n, g>> \notin unmarked /\ ~ (n = note /\ g = dest /\ accepted)
      BY <1>0, <2>1, <2>2 DEF InDoubt
    <3>. QED  BY <2>1, <3>1 DEF Marked
  <2>. QED  BY <1>0, <2>1, <2>2 DEF Marked
<1>. QED  BY <1>1, <1>2, <1>3, <1>4, <1>5, <1>6 DEF Next, Handling

\* No note is lost between the cursor, the queues and the gaps, as long as a
\* fetch brings everything.
LEMMA AllAccountedNext ==
  ASSUME TypeOK, Busy, Waiting, BatchFits, AllAccounted, [Next]_vars
  PROVE  AllAccounted'
<1>. USE QueueTypes DEF AllAccounted, bridgeVars, tables, bounds
<1>1. CASE PostToStream
  <2>. DEFINE n == posted + 1
  <2>1. /\ wire' = Append(wire, n) /\ posted' = n /\ n \in Nat
        /\ UNCHANGED <<phase, todo, note, cursor, start, handled, gap>>
    BY <1>1 DEF PostToStream
  <2>2. Entries(wire') = Entries(wire) \cup {n}
    <3>1. wire \in Seq(Nat)
      OBVIOUS
    <3>2. Entries(Append(wire, n)) = Entries(wire) \cup {n}
      BY ONLY <2>1, <3>1, Appended
    <3>. QED  BY <2>1, <3>2
  <2>3. cursor + 1 .. n \subseteq (cursor + 1 .. posted) \cup {n}
    OBVIOUS
  <2>. HIDE DEF n
  <2>. QED  BY <2>1, <2>2, <2>3 DEF Coming
<1>2. CASE PostUnseen
  <2>1. cursor + 1 .. posted + 1 \subseteq (cursor + 1 .. posted) \cup {posted + 1}
    OBVIOUS
  <2>2. /\ posted' = posted + 1
        /\ UNCHANGED <<phase, wire, todo, note, cursor, start, handled>>
        /\ gap' = IF phase \in {"backfill", "live"} THEN gap \cup {posted + 1} ELSE gap
    BY <1>2 DEF PostUnseen
  <2>. QED  BY <2>1, <2>2 DEF Coming
<1>3. CASE Resolve \/ StartupFails
  BY <1>3 DEF Resolve, AfterResolve, StartupFails
<1>4. CASE InitCursor
  BY <1>4 DEF InitCursor
<1>5. CASE FetchNotes
  <2>1. Fetched = cursor + 1 .. posted
    BY <1>5, LimitAssumption DEF FetchNotes, BatchFits, Fetched, Smaller
  <2>2. NotesIn(todo') = cursor + 1 .. posted
    BY <1>5, <2>1, BatchProperties DEF FetchNotes
  <2>. QED  BY <1>5, <2>2 DEF FetchNotes, Coming
<1>6. CASE StartWatcher
  BY <1>6 DEF StartWatcher, Coming
<1>7. CASE Receive
  <2>. DEFINE n == Head(wire)
  <2>1. /\ wire # <<>> /\ todo' = Append(todo, n) /\ wire' = Tail(wire)
        /\ UNCHANGED <<posted, phase, note, cursor, start, handled, gap>>
    BY <1>7 DEF Receive
  <2>2. /\ NotesIn(wire) = {n} \cup NotesIn(wire')
        /\ NotesIn(todo') = NotesIn(todo) \cup {n}
    BY <2>1, Taken, Appended
  <2>. QED  BY <2>1, <2>2 DEF Coming
<1>8. CASE StreamCloses
  <2>1. /\ gap' = gap \cup NotesIn(wire)
        /\ UNCHANGED <<posted, phase, todo, note, cursor, start, handled>>
    BY <1>8 DEF StreamCloses
  <2>. QED  BY <2>1 DEF Coming
<1>9. CASE TakeNote
  <2>1. /\ todo # <<>> /\ note = 0 /\ note' = Head(todo) /\ todo' = Tail(todo)
        /\ UNCHANGED <<posted, phase, wire, cursor, start, handled, gap>>
    BY <1>9 DEF TakeNote
  <2>2. NotesIn(todo) = {note'} \cup NotesIn(todo')
    BY <2>1, Taken
  <2>. QED  BY <2>1, <2>2 DEF Coming
<1>10. CASE FinishNote
  <2>1. /\ note # 0 /\ cursor < note /\ cursor' = note /\ note' = 0
        /\ handled' = handled \cup {note} /\ phase \in {"backfill", "live"}
        /\ UNCHANGED <<posted, phase, wire, todo, start, gap>>
    BY <1>10 DEF FinishNote, CursorAfter, Larger, Waiting, Busy
  <2>2. ASSUME NEW n \in cursor + 1 .. note
        PROVE  n \in handled' \cup gap'
    <3>1. n \in cursor + 1 .. posted /\ n <= note
      BY <2>1
    <3>2. n \in {note} \cup Coming \cup gap
      BY <2>1, <3>1
    <3>3. n \notin Coming
      BY <3>1 DEF Waiting
    <3>. QED  BY <2>1, <3>2, <3>3
  <2>3. \A n \in start' + 1 .. cursor' : n \in handled' \cup gap'
    <3>1. start \in Nat
      BY BoundAssumption DEF TypeOK
    <3>2. \A n \in start + 1 .. note : n \in start + 1 .. cursor \/ n \in cursor + 1 .. note
      BY <3>1
    <3>. QED  BY <2>1, <2>2, <3>2
  <2>4. \A n \in cursor' + 1 .. posted' : n \in cursor + 1 .. posted /\ n # note
    BY <2>1
  <2>. QED  BY <2>1, <2>3, <2>4 DEF Coming
<1>11. CASE Crash \/ Restart
  BY <1>11 DEF Crash, Restart
<1>12. CASE \/ Subscribe \/ (\E g \in left : SkipGuild(g) \/ StartSend(g))
            \/ SendSucceeds \/ SendFails \/ DiscordPosts
            \/ (\E g \in Guilds, on \in BOOLEAN : SetEnabled(g, on))
            \/ UNCHANGED vars
  <2>1. UNCHANGED <<posted, phase, wire, todo, note, cursor, start, handled, gap>>
    BY <1>12 DEF Subscribe, SkipGuild, StartSend, SendSucceeds, SendFails,
       DiscordPosts, SetEnabled, vars
  <2>. QED  BY <2>1 DEF Coming
<1>. QED
  BY <1>1, <1>2, <1>3, <1>4, <1>5, <1>6, <1>7, <1>8, <1>9, <1>10, <1>11, <1>12
     DEF Next, Startup, Handling

-----------------------------------------------------------------------------
(* The theorems.                                                           *)

\* A bot that is started for the first time.
LEMMA LinkInvInit == Init => LinkInv /\ AllAccounted
<1>. SUFFICES ASSUME Init PROVE LinkInv /\ AllAccounted
  OBVIOUS
<1>1. TypeOK
  BY TypeInit
<1>. USE <1>1, QueueTypes, EmptyQueue DEF Init, NoCursor
<1>2. Busy /\ PastIsPast /\ AllAccounted
  BY DEF Busy, PastIsPast, AllAccounted
<1>3. Waiting
  BY DEF Waiting, Coming
<1>4. Marked
  BY DEF Marked
<1>. QED  BY <1>2, <1>3, <1>4 DEF LinkInv

\* LinkInv is an invariant of the forwarding.
LEMMA LinkInvariance == Spec => []LinkInv
<1>1. Init => LinkInv
  BY LinkInvInit
<1>2. LinkInv /\ [Next]_vars => LinkInv'
  BY TypeNext, BusyNext, WaitingNext, PastIsPastNext, MarkedNext DEF LinkInv
<1>. QED  BY <1>1, <1>2, PTL DEF Spec

\* The state is well typed, and a guild gets a note twice only when its first
\* message went out and the mark was not written: for any guilds, notes, crashes
\* and lost answers (handleNote, markForwarded).
THEOREM LinkSafe == Spec => []Safe
<1>1. LinkInv => Safe
  BY DEF LinkInv, Marked, Safe, DuplicateOnlyInDoubt
<1>. QED  BY <1>1, LinkInvariance, PTL

\* No message ever goes out about a note that the cursor has passed, or that is
\* older than the first start of the bot (backfill's initialisation).
THEOREM LinkOldNotesStaySilent == Spec => OldNotesStaySilent
<1>1. ASSUME LinkInv, [Next]_vars
      PROVE  [\A n \in Notes : sent'[n] # sent[n] => n > cursor /\ n > initial]_vars
  <2>. USE <1>1, QueueTypes DEF LinkInv
  <2>1. CASE DiscordPosts
    <3>0. dest # NoGuild /\ note # 0 /\ phase \in {"backfill", "live"}
      BY <2>1 DEF DiscordPosts, Busy
    <3>1. note > cursor /\ note > initial
      BY <3>0 DEF Waiting, PastIsPast
    <3>2. \A n \in Notes : n # note => sent'[n] = sent[n]
      BY <2>1 DEF DiscordPosts, TypeOK
    <3>. QED  BY <3>1, <3>2
  <2>2. CASE ~ DiscordPosts
    <3>1. UNCHANGED sent
      BY <1>1, <2>2 DEF Next, PostToStream, PostUnseen, Startup, Resolve, InitCursor,
         FetchNotes, StartupFails, StartWatcher, Subscribe, Receive, StreamCloses,
         Handling, TakeNote, SkipGuild, StartSend, SendSucceeds, SendFails, FinishNote,
         SetEnabled, Crash, Restart, vars
    <3>. QED  BY <3>1
  <2>. QED  BY <2>1, <2>2
<1>. QED  BY <1>1, LinkInvariance, PTL DEF Spec, OldNotesStaySilent

\* As long as no more notes wait than one request returns, the cursor passes
\* only notes that were handled or posted where nobody looked, across all
\* crashes and reconnections.  Without the hypothesis it does not hold: that is
\* the run with FetchLimit = 1.
THEOREM LinkMissesOnlyInGap == Spec /\ []BatchFits => []MissedOnlyInGap
<1>1. Init => AllAccounted
  BY LinkInvInit
<1>2. LinkInv /\ BatchFits /\ AllAccounted /\ [Next]_vars => AllAccounted'
  BY AllAccountedNext DEF LinkInv
<1>3. AllAccounted => MissedOnlyInGap
  BY DEF AllAccounted, MissedOnlyInGap
<1>. QED  BY <1>1, <1>2, <1>3, LinkInvariance, PTL DEF Spec

\* In particular when a request may return all the notes there are, as in the
\* run MCMisskeyLink.
COROLLARY LinkMissesOnlyInGapIfAllFit ==
  ASSUME FetchLimit >= MaxNote
  PROVE  Spec => []MissedOnlyInGap
<1>1. ASSUME LinkInv
      PROVE  BatchFits
  BY <1>1, QueueTypes, BoundAssumption, LimitAssumption DEF LinkInv, TypeOK, BatchFits
<1>. QED  BY <1>1, LinkInvariance, LinkMissesOnlyInGap, PTL

-----------------------------------------------------------------------------
(* The refinement of Forwarding: posting is Answered, marking is Record, a  *)
(* failure or a crash in between is LoseTrack, and the cursor closes what   *)
(* it passes.                                                               *)

\* At the first start nothing is forwarded, and no note passed.
LEMMA ForwardingInit == Init => Bridge!Init
<1>. SUFFICES ASSUME Init PROVE Bridge!Init
  OBVIOUS
<1>1. Copies = [p \in Pairs |-> 0]
  BY DEF Init, Copies, Pairs
<1>2. InDoubt = {}
  BY DEF Init, InDoubt
<1>3. Passed = {}
  BY BoundAssumption DEF Init, Passed, Pairs, Notes, NoCursor
<1>. QED  BY <1>1, <1>2, <1>3 DEF Init, Bridge!Init

\* What is in flight is a pair of a note, newer than the cursor, and a guild.
LEMMA InFlight ==
  ASSUME LinkInv, dest # NoGuild
  PROVE  /\ note \in Notes /\ dest \in Guilds /\ <<note, dest>> \in Pairs
         /\ <<note, dest>> \notin forwarded /\ <<note, dest>> \notin Passed
<1>. USE DEF LinkInv
<1>1. note \in Notes /\ dest \in Guilds
  BY SendingType DEF TypeOK
<1>2. cursor < note /\ cursor \in Nat /\ note \in Nat
  BY <1>1, QueueTypes, BoundAssumption DEF Waiting, Notes, TypeOK
<1>. QED  BY <1>1, <1>2 DEF Marked, Pairs, Passed

\* The cursor only moves on, which closes the notes it comes to pass.
LEMMA Closes ==
  ASSUME LinkInv, dest = NoGuild, cursor' \in Nat, cursor <= cursor',
         UNCHANGED <<sent, dest, forwarded, unmarked>>
  PROVE  [Bridge!Next]_(Bridge!vars)
<1>1. Passed \subseteq Passed' /\ Passed' \subseteq Pairs
  <2>1. Passed' = {p \in Pairs : p[1] <= cursor'}
    BY DEF Passed, Pairs, Notes
  <2>2. \A p \in Pairs : p[1] \in Nat
    BY BoundAssumption DEF Pairs, Notes
  <2>3. cursor \in Nat
    BY BoundAssumption DEF LinkInv, TypeOK
  <2>. QED  BY <2>1, <2>2, <2>3 DEF Passed
<1>2. InDoubt = {} /\ InDoubt' = {}
  BY DEF InDoubt
<1>3. Copies' = Copies
  BY DEF Copies
<1>4. Bridge!Close(Passed')
  BY <1>1, <1>2, <1>3 DEF Bridge!Close
<1>5. Passed' \in SUBSET (Pairs \ InDoubt)
  BY <1>1, <1>2
<1>. QED  BY <1>4, <1>5 DEF Bridge!Next

\* Every step is one of Forwarding, or nothing of it.
LEMMA ForwardingNext ==
  ASSUME LinkInv, [Next]_vars
  PROVE  [Bridge!Next]_(Bridge!vars)
<1>. USE DEF bridgeVars, tables, bounds
<1>1. ASSUME UNCHANGED <<sent, cursor, forwarded, unmarked>>, InDoubt' = InDoubt
      PROVE  UNCHANGED Bridge!vars
  BY <1>1 DEF Bridge!vars, Copies, Passed
<1>2. CASE \/ PostToStream \/ PostUnseen \/ Resolve \/ FetchNotes \/ StartupFails
           \/ StartWatcher \/ Subscribe \/ Receive \/ StreamCloses \/ Restart
           \/ (\E g \in left : SkipGuild(g))
           \/ (\E g \in Guilds, on \in BOOLEAN : SetEnabled(g, on))
           \/ UNCHANGED vars
  <2>1. UNCHANGED <<note, dest, accepted, sent, cursor, forwarded, unmarked>>
    BY <1>2 DEF PostToStream, PostUnseen, Resolve, FetchNotes, StartupFails,
       StartWatcher, Subscribe, Receive, StreamCloses, Restart, SkipGuild,
       SetEnabled, vars
  <2>. QED  BY <1>1, <2>1 DEF InDoubt
<1>3. CASE TakeNote \/ (\E g \in left : StartSend(g))
  <2>1. /\ dest = NoGuild /\ (dest' = NoGuild \/ ~ accepted')
        /\ UNCHANGED <<sent, cursor, forwarded, unmarked>>
    BY <1>3 DEF TakeNote, StartSend, LinkInv, Busy
  <2>. QED  BY <1>1, <2>1 DEF InDoubt
<1>4. CASE InitCursor
  <2>1. dest = NoGuild /\ cursor <= posted /\ posted \in Nat
    BY <1>4, BoundAssumption DEF InitCursor, LinkInv, Busy, TypeOK
  <2>. QED  BY <1>4, <2>1, Closes DEF InitCursor
<1>5. CASE FinishNote
  <2>1. cursor' \in Nat /\ cursor <= cursor'
    BY <1>5, BoundAssumption DEF FinishNote, CursorAfter, Larger, LinkInv, TypeOK
  <2>. QED  BY <1>5, <2>1, Closes DEF FinishNote
<1>6. CASE DiscordPosts
  <2>. DEFINE p == <<note, dest>>
  <2>1. /\ dest # NoGuild /\ ~ accepted
        /\ sent' = [sent EXCEPT ![note][dest] = @ + 1]
        /\ InDoubt = {} /\ InDoubt' = {p}
        /\ UNCHANGED <<forwarded, unmarked, cursor>>
    BY <1>6 DEF DiscordPosts, InDoubt
  <2>2. /\ p \in Pairs /\ p \notin forwarded /\ p \notin Passed
        /\ note \in Notes /\ dest \in Guilds
    BY <2>1, InFlight
  <2>3. Copies' = [Copies EXCEPT ![p] = @ + 1]
    <3>1. sent \in [Notes -> [Guilds -> Nat]]
      BY DEF LinkInv, TypeOK
    <3>2. ASSUME NEW n \in Notes, NEW g \in Guilds
          PROVE  sent'[n][g] = IF <<n, g>> = p THEN sent[n][g] + 1 ELSE sent[n][g]
      BY <2>1, <2>2, <3>1
    <3>3. \A q \in Pairs : q[1] \in Notes /\ q[2] \in Guilds /\ q = <<q[1], q[2]>>
      BY DEF Pairs
    <3>4. \A q \in Pairs : sent'[q[1]][q[2]] = IF q = p THEN Copies[q] + 1 ELSE Copies[q]
      BY <3>2, <3>3 DEF Copies
    <3>5. Copies' = [q \in Pairs |-> IF q = p THEN Copies[q] + 1 ELSE Copies[q]]
      BY <3>4 DEF Copies
    <3>. QED  BY <3>5 DEF Copies
  <2>4. Copies[p] > 0 => p \in unmarked
    BY <2>1, <2>2 DEF LinkInv, Marked, Copies
  <2>5. Passed' = Passed
    BY <2>1 DEF Passed
  <2>6. Bridge!Answered(p)
    BY <2>1, <2>2, <2>3, <2>4, <2>5 DEF Bridge!Answered, Bridge!Forward
  <2>. QED  BY <2>2, <2>6 DEF Bridge!Next
<1>7. CASE SendSucceeds
  <2>. DEFINE p == <<note, dest>>
  <2>1. /\ dest # NoGuild /\ InDoubt = {p} /\ InDoubt' = {}
        /\ forwarded' = forwarded \cup {p}
        /\ UNCHANGED <<sent, unmarked, cursor>>
    BY <1>7 DEF SendSucceeds, InDoubt
  <2>2. Copies' = Copies /\ Passed' = Passed
    BY <2>1 DEF Copies, Passed
  <2>3. Bridge!Record(p)
    BY <2>1, <2>2 DEF Bridge!Record
  <2>. QED  BY <2>1, <2>3, InFlight DEF Bridge!Next
<1>8. CASE SendFails \/ Crash
  <2>1. /\ unmarked' = unmarked \cup InDoubt /\ InDoubt' = {}
        /\ UNCHANGED <<sent, forwarded, cursor>>
    BY <1>8 DEF SendFails, Crash, InDoubt
  <2>2. CASE InDoubt = {}
    BY <1>1, <2>1, <2>2
  <2>3. CASE InDoubt # {}
    <3>. DEFINE p == <<note, dest>>
    <3>1. dest # NoGuild /\ InDoubt = {p}
      BY <2>3 DEF InDoubt
    <3>2. Copies' = Copies /\ Passed' = Passed
      BY <2>1 DEF Copies, Passed
    <3>3. Bridge!LoseTrack(p)
      BY <2>1, <3>1, <3>2 DEF Bridge!LoseTrack
    <3>. QED  BY <3>1, <3>3, InFlight DEF Bridge!Next
  <2>. QED  BY <2>2, <2>3
<1>. QED
  BY <1>2, <1>3, <1>4, <1>5, <1>6, <1>7, <1>8 DEF Next, Startup, Handling

\* The stream, the handler, the tables and the crashes together do what
\* Forwarding promises: no marked pair and no note behind the cursor is sent
\* again, and an unmarked one only in doubt (forwardedNotes, handleNote).
THEOREM LinkKeepsPromise == Spec => ForwardingSpec
BY ForwardingInit, ForwardingNext, LinkInvariance, PTL
   DEF Spec, ForwardingSpec, Bridge!Spec
=============================================================================
