-------------------------- MODULE Mixi2LinkProofs ---------------------------
(***************************************************************************)
(* Proofs about Mixi2Link, for any notes, attempts, fetch limit and bounds. *)
(*                                                                         *)
(* The inductive invariant: Waiting and PastIsPast say what may be in the   *)
(* queue, so that a process takes each note up once and none from before    *)
(* the first start.  Books relates the posts on mixi2 to the records of     *)
(* them.  WithinAttempts counts the posts that each process may still add.  *)
(* AllAccounted says what became of every note the cursor has passed or is  *)
(* about to pass.                                                           *)
(***************************************************************************)
EXTENDS Mixi2Link, QueueLemmas

\* Only a process that has come to its backfill handles notes, and a post
\* that is about to be made has an attempt left.
Busy ==
  /\ phase \notin {"backfill", "live", "stopping"} => todo = <<>> /\ stage = "idle"
  /\ stage = "upload" => tries > 0

\* The queue is in order, and the cursor has passed none of its notes.
Waiting ==
  /\ Ascending(todo)
  /\ \A n \in NotesIn(todo) : note < n /\ cursor < n
  /\ note # 0 => cursor < note

\* Nothing from before the first start is in the queue or will be fetched.
PastIsPast ==
  /\ initial <= posted
  /\ cursor # NoCursor => initial <= cursor
  /\ phase = "fetching" => cursor # NoCursor
  /\ phase = "init" => cursor = NoCursor
  /\ \A n \in NotesIn(todo) : initial < n
  /\ note # 0 => initial < note

\* A note that is not in doubt was posted once if it is recorded or about to
\* be, and otherwise never.  Behind every record and every doubt is a post,
\* and behind every note that was dealt with, unless it failed.
Books ==
  /\ \A n \in Notes : n \notin unmarked =>
       sent[n] = IF n \in processed \/ (n = note /\ stage = "record") THEN 1 ELSE 0
  /\ stage \in {"upload", "post", "record"} => note \notin processed
  /\ stage = "record" => sent[note] > 0
  /\ \A n \in processed \cup unmarked : sent[n] > 0
  /\ \A n \in Notes : n <= initial => sent[n] = 0
  /\ stage = "advance" => note \notin Forwardable \/ sent[note] > 0 \/ note \in failed
  /\ \A n \in handled \cap Forwardable : sent[n] > 0 \/ n \in failed

\* The processes that were there before this one.
Ended == IF phase = "stopping" THEN stops - 1 ELSE stops

\* Each of them may have posted a note as often as the attempts allow; this
\* one adds nothing to a note before it takes it up, and what is left of the
\* attempts from then on.
WithinAttempts ==
  /\ phase = "stopping" => stops > 0
  /\ \A n \in Notes :
       sent[n] <= Attempts * (IF phase \in {"backfill", "live", "stopping"}
                              THEN Ended + 1 ELSE Ended)
  /\ \A n \in NotesIn(todo) : sent[n] <= Attempts * Ended
  /\ stage = "lookup" => sent[note] <= Attempts * Ended
  /\ stage \in {"upload", "post"} => sent[note] + tries <= Attempts * (Ended + 1)

BridgeInv == TypeOK /\ Busy /\ Waiting /\ PastIsPast /\ Books /\ WithinAttempts

\* The batch that is asked for holds every note that was missed.
BatchFits == phase = "fetching" => posted <= cursor + FetchLimit

\* What has become of the notes that need no handling any more.
Settled == handled \cup gap \cup failed \cup skipped

\* The cursor has passed settled notes alone, and will not pass others when it
\* moves on to a note that is handled now or later.
AllAccounted ==
  /\ MissedOnlyInGap
  /\ ~ dryRun =>
       /\ phase \in {"backfill", "live"} =>
            \A n \in cursor + 1 .. posted : n \in {note} \cup NotesIn(todo) \cup Settled
       /\ \A m \in {note} \cup NotesIn(todo) : \A n \in cursor + 1 .. m :
            n \in {note} \cup NotesIn(todo) \cup Settled

-----------------------------------------------------------------------------
(* Type correctness.                                                       *)

\* What a queue holds is what it consists of.
LEMMA SameEntries == \A q : NotesIn(q) = Entries(q)
BY DEF NotesIn, Entries

\* The batch is a queue of notes, the oldest first, all newer than the cursor.
LEMMA BatchProperties ==
  ASSUME TypeOK
  PROVE  /\ Batch \in Seq(1 .. posted)
         /\ Ascending(Batch)
         /\ NotesIn(Batch) = cursor + 1 .. cursor + Fetched
         /\ Fetched \in Nat /\ cursor + Fetched <= posted
         /\ posted <= cursor + FetchLimit => cursor + Fetched = posted
<1>1. /\ posted \in Nat /\ cursor \in Nat /\ cursor <= posted
      /\ FetchLimit \in Nat
  BY LimitAssumption, BoundAssumption DEF TypeOK
<1>2. /\ Fetched \in Nat /\ cursor + Fetched <= posted
      /\ posted <= cursor + FetchLimit => cursor + Fetched = posted
  BY <1>1 DEF Fetched, Smaller
<1>3. \A i \in 1 .. Fetched : cursor + i \in 1 .. posted
  BY <1>1, <1>2
<1>4. Batch \in Seq(1 .. posted) /\ Len(Batch) = Fetched
  BY <1>2, <1>3 DEF Batch
<1>5. Ascending(Batch)
  BY <1>1, <1>2, <1>4 DEF Ascending, Batch
<1>6. NotesIn(Batch) = {cursor + i : i \in 1 .. Fetched}
  BY <1>4 DEF NotesIn, Batch
<1>7. \A m \in cursor + 1 .. cursor + Fetched :
        m - cursor \in 1 .. Fetched /\ m = cursor + (m - cursor)
  BY <1>1, <1>2
<1>8. \A i \in 1 .. Fetched : cursor + i \in cursor + 1 .. cursor + Fetched
  BY <1>1, <1>2
<1>. QED  BY <1>2, <1>4, <1>5, <1>6, <1>7, <1>8

\* The parts of TypeOK, which different steps change: the notes on their way,
\* what the handler and the tables hold, and the bounds.
FlowTypes ==
  /\ posted \in 0 .. MaxNote
  /\ phase \in Phases
  /\ dryRun \in BOOLEAN
  /\ todo \in Seq(1 .. posted)
  /\ cursor \in 0 .. posted
  /\ initial \in 0 .. posted /\ start \in 0 .. posted

HandlerTypes ==
  /\ note \in 0 .. posted
  /\ stage \in Stages
  /\ tries \in 0 .. Attempts
  /\ note # 0 <=> stage # "idle"
  /\ stage = "post" => tries > 0

BookTypes ==
  /\ processed \subseteq 1 .. posted /\ unmarked \subseteq 1 .. posted
  /\ sent \in [Notes -> Nat]
  /\ handled \subseteq 1 .. posted /\ failed \subseteq 1 .. posted
  /\ skipped \subseteq 1 .. posted
  /\ gap \subseteq 1 .. posted /\ away \subseteq 1 .. posted

\* TypeOK is these parts and the bounds.
LEMMA TypeParts ==
  TypeOK <=> /\ FlowTypes /\ HandlerTypes /\ BookTypes
             /\ failures \in 0 .. MaxFailures /\ stops \in 0 .. MaxStops
BY DEF TypeOK, FlowTypes, HandlerTypes, BookTypes

\* The numbers and sets that the steps work with.
LEMMA Numbers ==
  ASSUME TypeOK
  PROVE  /\ posted \in Nat /\ cursor \in Nat /\ note \in Nat
         /\ initial \in Nat /\ start \in Nat /\ tries \in Nat /\ stops \in Nat
         /\ failures \in Nat
         /\ cursor <= posted /\ note <= posted /\ posted <= MaxNote
         /\ initial <= posted
         /\ MaxNote \in Nat /\ Attempts \in Nat /\ Attempts > 0
         /\ stage # "idle" => note \in 1 .. posted /\ note \in Notes
         /\ todo \in Seq(1 .. posted) /\ todo \in Seq(Nat)
         /\ NotesIn(todo) \subseteq 1 .. posted /\ NotesIn(todo) \subseteq Nat
         /\ 1 .. posted \subseteq Notes
<1>1. /\ posted \in Nat /\ cursor \in Nat /\ note \in Nat
      /\ initial \in Nat /\ start \in Nat /\ tries \in Nat /\ stops \in Nat
      /\ failures \in Nat
      /\ cursor <= posted /\ note <= posted /\ posted <= MaxNote
      /\ initial <= posted
      /\ MaxNote \in Nat /\ Attempts \in Nat /\ Attempts > 0
      /\ stage # "idle" => note # 0
      /\ todo \in Seq(1 .. posted)
  BY BoundAssumption, AttemptAssumption DEF TypeOK
<1>2. stage # "idle" => note \in 1 .. posted /\ note \in Notes
  BY <1>1 DEF Notes
<1>3. 1 .. posted \subseteq Nat /\ 1 .. posted \subseteq Notes
  BY <1>1 DEF Notes
<1>4. todo \in Seq(Nat)
  BY <1>1, <1>3, WiderQueue
<1>5. NotesIn(todo) \subseteq 1 .. posted
  BY <1>1, EntriesType, SameEntries
<1>. QED  BY <1>1, <1>2, <1>3, <1>4, <1>5

\* The state of a first start is well typed.
LEMMA TypeInit == Init => TypeOK
<1>. SUFFICES ASSUME Init PROVE TypeOK
  OBVIOUS
<1>. USE BoundAssumption, AttemptAssumption DEF Init
<1>1. FlowTypes
  BY DEF FlowTypes, Phases, NoCursor
<1>2. HandlerTypes
  BY DEF HandlerTypes, Stages
<1>3. BookTypes
  BY DEF BookTypes
<1>4. failures \in 0 .. MaxFailures /\ stops \in 0 .. MaxStops
  OBVIOUS
<1>. QED  BY <1>1, <1>2, <1>3, <1>4, TypeParts

\* The steps of the handler that leave the notes on their way alone.
LEMMA HandlerSteps ==
  ASSUME Lookup \/ UploadImages \/ UploadFails \/ CreatePost \/ CreateFails
           \/ Record \/ RecordFails
  PROVE  /\ UNCHANGED <<posted, phase, dryRun, todo, cursor, stops, handled,
                        skipped, gap, away, initial, start>>
         /\ stage # "idle"
         /\ \/ note' = note /\ stage' # "idle"
            \/ note' = 0 /\ stage' = "idle"
<1>. USE DEF tables, bounds, origins, fates, handler
<1>1. CASE Lookup
  BY <1>1 DEF Lookup, Return
<1>2. CASE UploadImages
  BY <1>2 DEF UploadImages, AfterUpload
<1>3. CASE UploadFails
  BY <1>3 DEF UploadFails, FailsInHandler, RequestFails
<1>4. CASE CreatePost
  BY <1>4 DEF CreatePost
<1>5. CASE CreateFails
  BY <1>5 DEF CreateFails, FailsInHandler, RequestFails
<1>6. CASE Record
  BY <1>6 DEF Record
<1>7. CASE RecordFails
  BY <1>7 DEF RecordFails, FailsInHandler, RequestFails
<1>. QED  BY <1>1, <1>2, <1>3, <1>4, <1>5, <1>6, <1>7

\* What waits keeps its type.
LEMMA FlowTypesNext ==
  ASSUME TypeOK, Busy, [Next]_vars
  PROVE  FlowTypes'
<1>. USE DEF Phases, handler, tables, bounds, fates, origins
<1>0. FlowTypes
  BY TypeParts
<1>. USE Numbers
<1>1. CASE PostToStream \/ PostUnseen
  <2>1. /\ posted' = posted + 1 /\ posted < MaxNote
        /\ UNCHANGED <<phase, dryRun, cursor, initial, start>>
        /\ todo' = todo \/ todo' = Append(todo, posted + 1)
    BY <1>1 DEF PostToStream, PostUnseen
  <2>2. todo \in Seq(1 .. posted') /\ posted + 1 \in 1 .. posted'
    <3>1. 1 .. posted \subseteq 1 .. posted' /\ posted + 1 \in 1 .. posted'
      BY <2>1
    <3>. QED  BY <3>1, WiderQueue
  <2>3. todo' \in Seq(1 .. posted')
    BY ONLY SMTT(30), <2>1, <2>2, Appended
  <2>. QED  BY <1>0, <2>1, <2>3 DEF FlowTypes
<1>2. CASE Startup
  <2>1. CASE Started \/ StartFails \/ GetCursor \/ BackfillDone
    BY <1>0, <2>1 DEF FlowTypes, Started, StartFails, GetCursor, AfterCursor, BackfillDone
  <2>2. CASE InitCursor \/ BackfillFails
    BY SMTT(30), <1>0, <2>2 DEF FlowTypes, InitCursor, BackfillFails, Seeded
  <2>3. CASE FetchNotes
    BY <1>0, <2>3, BatchProperties DEF FlowTypes, FetchNotes
  <2>. QED  BY <1>2, <2>1, <2>2, <2>3 DEF Startup
<1>3. CASE HandleNote
  <2>1. CASE TakeNote
    <3>1. todo' \in Seq(1 .. posted)
      BY <1>0, <2>1, Taken DEF TakeNote, FlowTypes
    <3>. QED  BY <1>0, <2>1, <3>1 DEF FlowTypes, TakeNote
  <2>2. CASE Lookup \/ UploadImages \/ UploadFails \/ CreatePost \/ CreateFails
               \/ Record \/ RecordFails
    BY <1>0, <2>2, HandlerSteps DEF FlowTypes
  <2>3. CASE LookupFails
    <3>1. /\ UNCHANGED <<posted, dryRun, cursor, initial, start>>
          /\ phase' \in {phase, "live"} /\ todo' \in {todo, <<>>}
      BY <2>3 DEF LookupFails, ReturnError
    <3>3. todo' \in Seq(1 .. posted)
      BY <3>1, EmptySeq
    <3>. QED  BY <1>0, <3>1, <3>3 DEF FlowTypes
  <2>4. CASE AdvanceCursor \/ AdvanceFails
    <3>1. cursor' \in 0 .. posted
      BY <1>0, <2>4 DEF FlowTypes, AdvanceCursor, AdvanceFails, CursorAfter, Larger
    <3>2. /\ UNCHANGED <<posted, dryRun, initial, start>>
          /\ phase' \in {phase, "live"} /\ todo' \in {todo, <<>>}
      BY <2>4 DEF AdvanceCursor, AdvanceFails, ReturnError
    <3>3. todo' \in Seq(1 .. posted)
      BY <3>2, EmptySeq
    <3>. QED  BY <1>0, <3>1, <3>2, <3>3 DEF FlowTypes
  <2>. QED  BY <1>3, <2>1, <2>2, <2>3, <2>4 DEF HandleNote
<1>4. CASE Crash \/ Shutdown \/ Exit \/ Restart \/ UNCHANGED vars
  <2>1. /\ UNCHANGED <<posted, cursor, initial, start>>
        /\ phase' \in {phase, "down", "stopping", "starting"}
        /\ dryRun' = dryRun \/ dryRun' \in BOOLEAN
        /\ todo' \in {todo, <<>>}
    BY <1>4 DEF Crash, Shutdown, Exit, StopsNow, Restart, vars
  <2>2. todo' \in Seq(1 .. posted)
    BY <2>1, EmptySeq
  <2>. QED  BY <1>0, <2>1, <2>2 DEF FlowTypes
<1>. QED  BY <1>1, <1>2, <1>3, <1>4 DEF Next

\* What the handler is at keeps its type.
LEMMA HandlerTypesNext ==
  ASSUME TypeOK, Busy, [Next]_vars
  PROVE  HandlerTypes'
<1>. USE DEF Stages, handler, tables, bounds, fates, origins
<1>0. HandlerTypes
  BY TypeParts
<1>. USE Numbers
<1>1. CASE PostToStream \/ PostUnseen
  BY SMTT(30), <1>0, <1>1 DEF HandlerTypes, PostToStream, PostUnseen
<1>2. CASE Startup \/ Shutdown \/ Restart \/ UNCHANGED vars
  <2>1. UNCHANGED <<posted, note, stage, tries>>
    BY <1>2 DEF Startup, Started, StartFails, GetCursor, InitCursor, FetchNotes,
       BackfillFails, BackfillDone, Shutdown, Restart, vars
  <2>. QED  BY <1>0, <2>1 DEF HandlerTypes
<1>3. CASE TakeNote
  <2>1. note' \in 1 .. posted /\ stage' = "lookup" /\ UNCHANGED <<posted, tries>>
    BY <1>3, Taken DEF TakeNote
  <2>. QED  BY <1>0, <2>1 DEF HandlerTypes
<1>4. CASE Lookup
  BY <1>0, <1>4 DEF HandlerTypes, Lookup, Return
<1>5. CASE LookupFails \/ AdvanceCursor \/ AdvanceFails \/ Crash \/ Exit
  <2>1. Return /\ UNCHANGED posted
    BY <1>5 DEF LookupFails, ReturnError, AdvanceCursor, AdvanceFails, Crash, Exit, StopsNow
  <2>. QED  BY <1>0, <2>1 DEF HandlerTypes, Return
<1>6. CASE UploadImages \/ UploadFails
  BY SMTT(30), <1>0, <1>6 DEF HandlerTypes, UploadImages, AfterUpload, UploadFails, Busy
<1>7. CASE CreatePost \/ CreateFails
  BY SMTT(30), <1>0, <1>7 DEF HandlerTypes, CreatePost, CreateFails, LastCall
<1>8. CASE Record \/ RecordFails
  BY <1>0, <1>8 DEF HandlerTypes, Record, RecordFails
<1>. QED
  BY <1>1, <1>2, <1>3, <1>4, <1>5, <1>6, <1>7, <1>8 DEF Next, HandleNote

\* The tables and what an observer remembers keep their types.
LEMMA BookTypesNext ==
  ASSUME TypeOK, Busy, [Next]_vars
  PROVE  BookTypes'
<1>. USE DEF handler, tables, bounds, fates, origins
<1>0. BookTypes
  BY TypeParts
<1>. USE Numbers
<1>1. CASE PostToStream \/ PostUnseen
  <2>1. /\ posted' = posted + 1
        /\ UNCHANGED <<processed, unmarked, sent, handled, failed, skipped>>
        /\ gap' \subseteq gap \cup {posted + 1} /\ away' \subseteq away \cup {posted + 1}
    BY <1>1 DEF PostToStream, PostUnseen
  <2>2. 1 .. posted \subseteq 1 .. posted' /\ posted + 1 \in 1 .. posted'
    BY <2>1
  <2>3. gap' \subseteq 1 .. posted' /\ away' \subseteq 1 .. posted'
    BY <1>0, <2>1, <2>2 DEF BookTypes
  <2>. QED  BY <1>0, <2>1, <2>2, <2>3 DEF BookTypes
<1>2. CASE \/ Started \/ StartFails \/ GetCursor \/ InitCursor \/ FetchNotes
           \/ BackfillDone \/ TakeNote \/ Lookup \/ UploadImages
           \/ Shutdown \/ Restart \/ UNCHANGED vars
  <2>1. UNCHANGED <<posted, processed, unmarked, sent, handled, failed, skipped, gap, away>>
    BY <1>2 DEF Started, StartFails, GetCursor, InitCursor, FetchNotes, BackfillDone,
       TakeNote, Lookup, UploadImages, Shutdown, Restart, vars
  <2>. QED  BY <1>0, <2>1 DEF BookTypes
<1>3. CASE BackfillFails
  <2>1. /\ UNCHANGED <<posted, processed, unmarked, sent, handled, failed, gap, away>>
        /\ skipped' = skipped \/ skipped' = skipped \cup (cursor + 1 .. posted)
    BY <1>3 DEF BackfillFails
  <2>2. cursor + 1 .. posted \subseteq 1 .. posted
    OBVIOUS
  <2>. QED  BY <1>0, <2>1, <2>2 DEF BookTypes
<1>4. CASE LookupFails \/ AdvanceFails \/ AdvanceCursor \/ UploadFails
  <2>1. /\ UNCHANGED <<posted, processed, unmarked, sent, gap, away>>
        /\ skipped' \subseteq skipped \cup NotesIn(todo)
        /\ handled' \subseteq handled \cup {note}
        /\ failed' \subseteq failed \cup {note}
        /\ stage # "idle"
    BY <1>4 DEF LookupFails, AdvanceFails, AdvanceCursor, UploadFails, ReturnError
  <2>. QED  BY <1>0, <2>1 DEF BookTypes
<1>5. CASE CreatePost \/ CreateFails
  <2>1. /\ UNCHANGED <<posted, processed, handled, skipped, gap, away>>
        /\ unmarked' \subseteq unmarked \cup {note} /\ failed' \subseteq failed \cup {note}
        /\ stage # "idle" /\ (sent' = sent \/ Accepted)
    BY <1>5 DEF CreatePost, CreateFails
  <2>2. sent' \in [Notes -> Nat]
    <3>1. CASE Accepted
      <4>1. sent \in [Notes -> Nat] /\ note \in Notes
        BY <1>0, <2>1 DEF BookTypes
      <4>. QED  BY ONLY <3>1, <4>1 DEF Accepted
    <3>. QED  BY <1>0, <2>1, <3>1 DEF BookTypes
  <2>. QED  BY <1>0, <2>1, <2>2 DEF BookTypes
<1>6. CASE Record \/ RecordFails \/ Crash \/ Exit
  <2>1. /\ UNCHANGED <<posted, sent, handled, failed, skipped, gap, away>>
        /\ stage = "idle" => UNCHANGED <<processed, unmarked>>
        /\ processed' \subseteq processed \cup {note}
        /\ unmarked' \subseteq unmarked \cup {note}
    <3>1. CASE Record \/ RecordFails
      BY <3>1 DEF Record, RecordFails
    <3>2. CASE Crash \/ Exit
      BY <3>2 DEF Crash, Exit, StopsNow, InDoubt
    <3>. QED  BY <1>6, <3>1, <3>2
  <2>. QED  BY <1>0, <2>1 DEF BookTypes
<1>. QED
  BY <1>1, <1>2, <1>3, <1>4, <1>5, <1>6 DEF Next, Startup, HandleNote

\* Every step keeps the state well typed.
LEMMA TypeNext ==
  ASSUME TypeOK, Busy, [Next]_vars
  PROVE  TypeOK'
<1>1. FlowTypes' /\ HandlerTypes' /\ BookTypes'
  BY FlowTypesNext, HandlerTypesNext, BookTypesNext
<1>2. failures' \in 0 .. MaxFailures /\ stops' \in 0 .. MaxStops
  <2>1. \/ UNCHANGED <<failures, stops>>
        \/ failures < MaxFailures /\ failures' = failures + 1 /\ UNCHANGED stops
        \/ stops < MaxStops /\ stops' = stops + 1 /\ UNCHANGED failures
    BY DEF Next, PostToStream, PostUnseen, Startup, Started, StartFails, GetCursor,
       InitCursor, FetchNotes, BackfillFails, BackfillDone, HandleNote, TakeNote,
       Lookup, LookupFails, UploadImages, UploadFails, CreatePost, CreateFails,
       Record, RecordFails, AdvanceCursor, AdvanceFails, FailsInHandler, RequestFails,
       Crash, Shutdown, Exit, StopsNow, Restart, vars, bounds
  <2>. QED  BY <2>1, BoundAssumption DEF TypeOK
<1>. QED  BY <1>1, <1>2 DEF TypeOK, FlowTypes, HandlerTypes, BookTypes

-----------------------------------------------------------------------------
(* The conjuncts of the inductive invariant.                               *)

\* Every step leaves notes to the phases that handle them.
LEMMA BusyNext ==
  ASSUME TypeOK, Busy, [Next]_vars
  PROVE  Busy'
<1>. USE DEF Busy, handler, tables, bounds, fates, origins
<1>. USE Numbers
<1>1. CASE PostToStream \/ PostUnseen
  BY <1>1 DEF PostToStream, PostUnseen
<1>2. CASE Started \/ StartFails \/ GetCursor \/ InitCursor \/ FetchNotes \/ BackfillDone
  BY <1>2 DEF Started, StartFails, GetCursor, AfterCursor, InitCursor, FetchNotes,
     BackfillDone
<1>3. CASE BackfillFails
  BY <1>3 DEF BackfillFails
<1>4. CASE TakeNote
  BY <1>4 DEF TakeNote
<1>5. CASE Lookup
  BY <1>5 DEF Lookup, Return
<1>6. CASE LookupFails \/ AdvanceCursor \/ AdvanceFails
  <2>1. Return /\ stage # "idle" /\ phase' \in {phase, "live"}
    BY <1>6 DEF LookupFails, AdvanceCursor, AdvanceFails, ReturnError
  <2>. QED  BY <2>1 DEF Return
<1>7. CASE UploadImages \/ UploadFails \/ CreatePost \/ CreateFails \/ Record \/ RecordFails
  <2>1. stage # "idle" /\ UNCHANGED <<phase, todo>> /\ stage' # "upload"
    BY <1>7 DEF UploadImages, AfterUpload, UploadFails, CreatePost, CreateFails,
       Record, RecordFails
  <2>. QED  BY <2>1
<1>8. CASE Crash \/ Exit
  BY <1>8 DEF Crash, Exit, StopsNow, Return
<1>9. CASE Shutdown \/ Restart \/ UNCHANGED vars
  BY <1>9 DEF Shutdown, Restart, vars
<1>. QED
  BY <1>1, <1>2, <1>3, <1>4, <1>5, <1>6, <1>7, <1>8, <1>9 DEF Next, Startup, HandleNote

\* The steps that neither add to the queue nor take from it leave it as it is
\* or empty it, and the handler stays at its note or leaves it.
LEMMA QueueOrNothing ==
  ASSUME TypeOK, Busy, [Next]_vars,
         ~ PostToStream, ~ FetchNotes, ~ TakeNote
  PROVE  todo' \in {todo, <<>>} /\ note' \in {note, 0}
<1>. USE DEF handler
<1>1. CASE PostUnseen \/ Startup
  BY <1>1 DEF PostUnseen, Startup, Started, StartFails, GetCursor, InitCursor,
     BackfillFails, BackfillDone
<1>2. CASE Lookup \/ LookupFails
  BY <1>2 DEF Lookup, LookupFails, ReturnError, Return
<1>3. CASE UploadImages \/ UploadFails \/ CreatePost \/ CreateFails \/ Record \/ RecordFails
  BY <1>3 DEF UploadImages, UploadFails, CreatePost, CreateFails, Record, RecordFails
<1>4. CASE AdvanceCursor \/ AdvanceFails
  BY <1>4 DEF AdvanceCursor, AdvanceFails, ReturnError, Return
<1>5. CASE Crash \/ Exit \/ Shutdown \/ Restart \/ UNCHANGED vars
  BY <1>5 DEF Crash, Exit, StopsNow, Return, Shutdown, Restart, vars
<1>. QED  BY <1>1, <1>2, <1>3, <1>4, <1>5 DEF Next, HandleNote

\* Only a seeded cursor and a note that was dealt with move the cursor.
LEMMA CursorMoves ==
  ASSUME TypeOK, Busy, Waiting, [Next]_vars
  PROVE  \/ UNCHANGED <<cursor, start>>
         \/ /\ phase = "init" /\ Seeded
            /\ UNCHANGED <<posted, todo, note, stage, handled, gap, failed, skipped>>
            /\ phase' = "live"
         \/ /\ AdvanceCursor \/ AdvanceFails
            /\ ~ dryRun /\ note # 0 /\ cursor < note /\ cursor' = note /\ note' = 0
            /\ UNCHANGED start
<1>. USE DEF handler, tables, bounds, fates, origins
<1>1. CASE PostToStream \/ PostUnseen
  BY <1>1 DEF PostToStream, PostUnseen
<1>2. CASE Started \/ StartFails \/ GetCursor \/ FetchNotes \/ BackfillDone
  BY <1>2 DEF Started, StartFails, GetCursor, FetchNotes, BackfillDone
<1>3. CASE InitCursor \/ BackfillFails
  BY <1>3 DEF InitCursor, BackfillFails
<1>4. CASE TakeNote \/ Lookup \/ LookupFails
  BY <1>4 DEF TakeNote, Lookup, LookupFails
<1>5. CASE UploadImages \/ UploadFails \/ CreatePost \/ CreateFails \/ Record \/ RecordFails
  BY <1>5 DEF UploadImages, UploadFails, CreatePost, CreateFails, Record, RecordFails
<1>6. CASE AdvanceCursor \/ AdvanceFails
  <2>1. stage = "advance" /\ note # 0 /\ cursor < note
    BY <1>6, Numbers DEF AdvanceCursor, AdvanceFails, TypeOK, Waiting
  <2>2. CursorAfter(note) = IF dryRun THEN cursor ELSE note
    BY <2>1, Numbers DEF CursorAfter, Larger
  <2>. QED  BY <1>6, <2>1, <2>2 DEF AdvanceCursor, AdvanceFails, ReturnError, Return
<1>7. CASE Crash \/ Exit \/ Shutdown \/ Restart \/ UNCHANGED vars
  BY <1>7 DEF Crash, Exit, StopsNow, Shutdown, Restart, vars
<1>. QED  BY <1>1, <1>2, <1>3, <1>4, <1>5, <1>6, <1>7 DEF Next, Startup, HandleNote

\* The queue stays in order and ahead of the cursor.
LEMMA WaitingNext ==
  ASSUME TypeOK, Busy, Waiting, [Next]_vars
  PROVE  Waiting'
<1>. USE Numbers, SameEntries
<1>1. CASE PostToStream
  <2>. DEFINE n == posted + 1
  <2>1. /\ todo' = Append(todo, n) /\ n \in Nat
        /\ note' = note /\ cursor' = cursor
    BY <1>1 DEF PostToStream, handler, tables
  <2>2. \A m \in NotesIn(todo) : m < n
    OBVIOUS
  <2>3. note < n /\ cursor < n
    OBVIOUS
  <2>. HIDE DEF n
  <2>4. Ascending(todo') /\ NotesIn(todo') = NotesIn(todo) \cup {n}
    BY <2>1, <2>2, Appended, AscendingAppended DEF Waiting
  <2>. QED  BY <2>1, <2>3, <2>4 DEF Waiting
<1>2. CASE FetchNotes
  <2>1. todo' = Batch /\ note' = note /\ note = 0 /\ cursor' = cursor
    BY <1>2 DEF FetchNotes, handler, tables, Busy, TypeOK
  <2>2. Ascending(todo') /\ \A n \in NotesIn(todo') : cursor < n /\ 0 < n
    BY SMTT(30), <2>1, BatchProperties
  <2>. QED  BY <2>1, <2>2 DEF Waiting
<1>3. CASE TakeNote
  <2>1. /\ todo # <<>> /\ note' = Head(todo) /\ todo' = Tail(todo)
        /\ cursor' = cursor
    BY <1>3 DEF TakeNote, tables
  <2>2. note' \in NotesIn(todo) /\ NotesIn(todo') \subseteq NotesIn(todo)
    BY <2>1, Taken
  <2>3. Ascending(todo') /\ \A m \in NotesIn(todo') : note' < m
    BY <2>1, AscendingTaken DEF Waiting
  <2>. QED  BY <2>1, <2>2, <2>3 DEF Waiting
<1>4. CASE ~ PostToStream /\ ~ FetchNotes /\ ~ TakeNote
  <2>1. todo' \in {todo, <<>>} /\ note' \in {note, 0}
    BY <1>4, QueueOrNothing
  <2>2. Ascending(todo') /\ NotesIn(todo') \subseteq NotesIn(todo)
    BY <2>1, EmptyQueue DEF Waiting
  <2>3. CASE UNCHANGED cursor
    BY <2>1, <2>2, <2>3 DEF Waiting
  <2>4. CASE phase = "init" /\ UNCHANGED <<todo, note>>
    <3>1. NotesIn(todo) = {} /\ note = 0
      BY <2>4, EmptyQueue DEF Busy, TypeOK
    <3>. QED  BY <2>2, <2>4, <3>1 DEF Waiting
  <2>5. CASE cursor' = note /\ note' = 0
    BY <2>2, <2>5 DEF Waiting
  <2>. QED  BY <2>3, <2>4, <2>5, CursorMoves
<1>. QED  BY <1>1, <1>2, <1>3, <1>4

\* The cursor is never behind the first start once it is used.
LEMMA PastIsPastNext ==
  ASSUME TypeOK, Busy, Waiting, PastIsPast, [Next]_vars
  PROVE  PastIsPast'
<1>. USE Numbers, SameEntries DEF NoCursor
<1>1. initial' = initial /\ posted' >= posted /\ posted' \in Nat
  BY SMTT(30) DEF Next, PostToStream, PostUnseen, Startup, Started, StartFails, GetCursor,
     InitCursor, FetchNotes, BackfillFails, BackfillDone, HandleNote, TakeNote,
     Lookup, LookupFails, UploadImages, UploadFails, CreatePost, CreateFails,
     Record, RecordFails, AdvanceCursor, AdvanceFails, Crash, Shutdown, Exit,
     StopsNow, Restart, vars, origins
<1>2. cursor' # NoCursor => initial' <= cursor'
  <2>1. CASE phase = "init" /\ Seeded
    BY <1>1, <2>1 DEF Seeded, PastIsPast
  <2>2. CASE cursor' = note /\ note # 0
    BY <1>1, <2>2 DEF PastIsPast
  <2>. QED  BY <1>1, <2>1, <2>2, CursorMoves DEF PastIsPast
<1>3. /\ phase' = "fetching" => cursor' # NoCursor
      /\ phase' = "init" => cursor' = NoCursor
  BY DEF Next, PostToStream, PostUnseen, Startup, Started, StartFails, GetCursor,
     AfterCursor, InitCursor, FetchNotes, BackfillFails, BackfillDone, HandleNote,
     TakeNote, Lookup, LookupFails, UploadImages, UploadFails, CreatePost, CreateFails,
     Record, RecordFails, AdvanceCursor, AdvanceFails, ReturnError, Crash, Shutdown,
     Exit, StopsNow, Restart, vars, tables, PastIsPast, Busy
<1>4. (\A n \in NotesIn(todo)' : initial < n) /\ (note' # 0 => initial < note')
  <2>1. CASE PostToStream
    <3>1. todo' = Append(todo, posted + 1) /\ note' = note
      BY <2>1 DEF PostToStream, handler
    <3>2. NotesIn(todo') = NotesIn(todo) \cup {posted + 1}
      <4>1. todo \in Seq(Nat) /\ posted + 1 \in Nat
        OBVIOUS
      <4>2. Entries(todo') = Entries(todo) \cup {posted + 1}
        BY ONLY <3>1, <4>1, Appended
      <4>. QED  BY <4>2
    <3>. QED  BY <3>1, <3>2 DEF PastIsPast
  <2>2. CASE FetchNotes
    <3>1. todo' = Batch /\ note' = note /\ initial <= cursor
      BY <2>2 DEF FetchNotes, handler, PastIsPast
    <3>2. \A n \in NotesIn(Batch) : initial < n
      BY SMTT(30), <3>1, BatchProperties
    <3>. QED  BY <3>1, <3>2 DEF PastIsPast
  <2>3. CASE TakeNote
    <3>1. todo # <<>> /\ note' = Head(todo) /\ todo' = Tail(todo)
      BY <2>3 DEF TakeNote
    <3>2. note' \in NotesIn(todo) /\ NotesIn(todo') \subseteq NotesIn(todo)
      BY <3>1, Taken
    <3>. QED  BY <3>1, <3>2 DEF PastIsPast
  <2>4. CASE ~ PostToStream /\ ~ FetchNotes /\ ~ TakeNote
    <3>1. todo' \in {todo, <<>>} /\ note' \in {note, 0}
      BY <2>4, QueueOrNothing
    <3>2. NotesIn(todo') \subseteq NotesIn(todo)
      BY <3>1, EmptyQueue
    <3>. QED  BY <3>1, <3>2 DEF PastIsPast
  <2>. QED  BY <2>1, <2>2, <2>3, <2>4
<1>. QED  BY <1>1, <1>2, <1>3, <1>4 DEF PastIsPast


\* The posts, the records and the doubts stay in step.
LEMMA BooksNext ==
  ASSUME TypeOK, Busy, PastIsPast, Books, [Next]_vars
  PROVE  Books'
<1>. USE DEF handler, tables, bounds, fates, origins
<1>. USE Numbers
<1>0. sent \in [Notes -> Nat] /\ \A n \in Notes : sent[n] \in Nat
  BY DEF TypeOK
<1>00. processed \cup unmarked \cup handled \subseteq Notes
  BY DEF TypeOK
<1>1. CASE \/ PostToStream \/ PostUnseen \/ Startup \/ Shutdown \/ Restart
           \/ UNCHANGED vars
  <2>1. UNCHANGED <<note, stage, processed, sent, handled, failed, unmarked, initial>>
    BY <1>1 DEF PostToStream, PostUnseen, Startup, Started, StartFails, GetCursor,
       InitCursor, FetchNotes, BackfillFails, BackfillDone, Shutdown, Restart, vars
  <2>. QED  BY <2>1 DEF Books
<1>2. CASE TakeNote
  <2>1. /\ stage = "idle" /\ stage' = "lookup"
        /\ UNCHANGED <<processed, sent, handled, failed, unmarked, initial>>
    BY <1>2 DEF TakeNote
  <2>. QED  BY <2>1 DEF Books
<1>3. CASE Lookup
  <2>1. /\ stage = "lookup" /\ stage' \in {"idle", "upload", "post", "advance"}
        /\ stage' # "idle" => note' = note
        /\ stage' = "advance" => note \in processed \/ note \notin Forwardable
        /\ stage' \in {"upload", "post"} => note \notin processed
        /\ UNCHANGED <<processed, sent, handled, failed, unmarked, initial>>
    BY <1>3 DEF Lookup, Return, IsProcessed
  <2>. QED  BY <2>1 DEF Books
<1>4. CASE LookupFails
  <2>1. /\ stage = "lookup" /\ stage' = "idle" /\ failed' = failed \cup {note}
        /\ UNCHANGED <<processed, sent, handled, unmarked, initial>>
    BY <1>4 DEF LookupFails, ReturnError, Return
  <2>. QED  BY <2>1 DEF Books
<1>5. CASE UploadImages
  <2>1. /\ stage = "upload" /\ stage' = "post"
        /\ UNCHANGED <<note, processed, sent, handled, failed, unmarked, initial>>
    BY <1>5 DEF UploadImages, AfterUpload
  <2>. QED  BY <2>1 DEF Books
<1>6. CASE UploadFails
  <2>1. /\ stage = "upload" /\ stage' = "advance" /\ failed' = failed \cup {note}
        /\ UNCHANGED <<note, processed, sent, handled, unmarked, initial>>
    BY <1>6 DEF UploadFails
  <2>. QED  BY <2>1 DEF Books
<1>7. CASE CreatePost
  <2>1. /\ stage = "post" /\ stage' = "record" /\ note \in Notes /\ note > initial
        /\ UNCHANGED <<note, processed, handled, failed, unmarked, initial>>
    BY <1>7 DEF CreatePost, PastIsPast
  <2>2. \A n \in Notes : sent'[n] = IF n = note THEN sent[n] + 1 ELSE sent[n]
    BY <1>0, <1>7 DEF CreatePost, Accepted
  <2>3. \A n \in Notes : n \notin unmarked' => sent'[n] =
          IF n \in processed' \/ (n = note' /\ stage' = "record") THEN 1 ELSE 0
    BY SMTT(30), <1>0, <2>1, <2>2 DEF Books
  <2>4. \A n \in Notes : (sent[n] > 0 => sent'[n] > 0) /\ (n <= initial => sent'[n] = sent[n])
    BY <1>0, <2>1, <2>2
  <2>5. sent'[note] > 0
    BY <1>0, <2>1, <2>2
  <2>. QED  BY <1>00, <2>1, <2>3, <2>4, <2>5 DEF Books
<1>8. CASE CreateFails
  <2>1. /\ stage = "post" /\ stage' \in {"post", "advance"}
        /\ stage' = "advance" => failed' = failed \cup {note}
        /\ failed \subseteq failed'
        /\ UNCHANGED <<note, processed, handled, initial>>
    BY <1>8 DEF CreateFails
  <2>2. CASE UNCHANGED <<sent, unmarked>>
    BY <2>1, <2>2 DEF Books
  <2>3. CASE Accepted /\ unmarked' = unmarked \cup {note}
    <3>1. \A n \in Notes : sent'[n] = IF n = note THEN sent[n] + 1 ELSE sent[n]
      BY <1>0, <2>3 DEF Accepted
    <3>2. note \in Notes /\ note > initial
      BY <2>1 DEF PastIsPast
    <3>3. \A n \in Notes : n \notin unmarked' => sent'[n] =
            IF n \in processed' \/ (n = note' /\ stage' = "record") THEN 1 ELSE 0
      BY <1>0, <2>1, <2>3, <3>1 DEF Books
    <3>4. \A n \in Notes : (sent[n] > 0 => sent'[n] > 0) /\ (n <= initial => sent'[n] = sent[n])
      BY SMTT(30), <1>0, <3>1, <3>2
    <3>5. sent'[note] > 0
      BY <1>0, <3>1, <3>2
    <3>. QED  BY <1>00, <2>1, <2>3, <3>3, <3>4, <3>5 DEF Books
  <2>. QED  BY <1>8, <2>2, <2>3 DEF CreateFails
<1>9. CASE Record \/ RecordFails
  <2>1. /\ stage = "record" /\ stage' = "advance"
        /\ UNCHANGED <<note, sent, handled, failed, initial>>
        /\ \/ processed' = processed \cup {note} /\ unmarked' = unmarked
           \/ unmarked' = unmarked \cup {note} /\ processed' = processed
    BY <1>9 DEF Record, RecordFails
  <2>. QED  BY <2>1 DEF Books
<1>10. CASE AdvanceCursor \/ AdvanceFails
  <2>1. /\ stage = "advance" /\ stage' = "idle"
        /\ handled' \subseteq handled \cup {note}
        /\ UNCHANGED <<processed, sent, failed, unmarked, initial>>
    BY <1>10 DEF AdvanceCursor, AdvanceFails, ReturnError, Return
  <2>. QED  BY <2>1 DEF Books
<1>11. CASE Crash \/ Exit
  <2>1. /\ stage' = "idle" /\ UNCHANGED <<processed, sent, handled, failed, initial>>
        /\ unmarked' = unmarked \cup (IF stage = "record" THEN {note} ELSE {})
    BY <1>11 DEF Crash, Exit, StopsNow, Return, InDoubt
  <2>. QED  BY <2>1 DEF Books
<1>. QED
  BY <1>1, <1>2, <1>3, <1>4, <1>5, <1>6, <1>7, <1>8, <1>9, <1>10, <1>11
     DEF Next, HandleNote

\* What so many processes may post of a note.
Allowed(k) == Attempts * k

\* One more process allows as many posts more as there are attempts.
LEMMA AllowedGrows ==
  ASSUME NEW k \in Nat
  PROVE  Allowed(k) \in Nat /\ Allowed(k + 1) = Allowed(k) + Attempts
BY AttemptAssumption DEF Allowed

\* No process posts a note more often than its attempts allow.
LEMMA WithinAttemptsNext ==
  ASSUME TypeOK, Busy, Waiting, PastIsPast, Books, WithinAttempts, [Next]_vars
  PROVE  WithinAttempts'
<1>. USE DEF handler, tables, bounds, fates, origins
<1>. USE Numbers
<1>. DEFINE Working == phase \in {"backfill", "live", "stopping"}
            e == Ended
<1>1. e \in Nat /\ e <= stops /\ (phase # "stopping" => e = stops)
  BY DEF Ended, WithinAttempts
<1>2. /\ Allowed(e) \in Nat /\ Allowed(e + 1) = Allowed(e) + Attempts
      /\ sent \in [Notes -> Nat]
      /\ \A n \in Notes : sent[n] \in Nat
  BY <1>1, AllowedGrows DEF TypeOK
<1>3. /\ \A n \in Notes : sent[n] <= Allowed(e + 1)
      /\ ~ Working => \A n \in Notes : sent[n] <= Allowed(e)
      /\ \A n \in NotesIn(todo) : sent[n] <= Allowed(e)
      /\ stage = "lookup" => sent[note] <= Allowed(e)
      /\ stage \in {"upload", "post"} => sent[note] + tries <= Allowed(e + 1)
  <2>1. CASE Working
    BY <2>1 DEF WithinAttempts, Allowed
  <2>2. CASE ~ Working
    <3>1. \A n \in Notes : sent[n] <= Allowed(e)
      BY <2>2 DEF WithinAttempts, Allowed
    <3>2. \A n \in Notes : sent[n] <= Allowed(e + 1)
      BY <1>2, <3>1
    <3>. QED  BY <2>2, <3>1, <3>2 DEF WithinAttempts, Allowed
  <2>. QED  BY <2>1, <2>2
<1>. DEFINE
  Bounded == /\ \A n \in Notes : sent'[n] <= Allowed(e + 1)
             /\ \A n \in NotesIn(todo') : sent'[n] <= Allowed(e)
             /\ stage' = "lookup" => sent'[note'] <= Allowed(e)
             /\ stage' \in {"upload", "post"} => sent'[note'] + tries' <= Allowed(e + 1)
<1>4. ASSUME Bounded, Ended' = e, Working', phase' = "stopping" => stops' > 0
      PROVE  WithinAttempts'
  BY <1>4 DEF WithinAttempts, Allowed
<1>5. ASSUME stage' = "idle", todo' = <<>> \/ ~ Working, NotesIn(todo') \subseteq Notes,
             phase' # "stopping", UNCHANGED sent,
             IF Working THEN stops' = e + 1 /\ ~ Working' ELSE stops' \in {e, e + 1}
      PROVE  WithinAttempts'
  <2>1. Ended' = stops'
    BY <1>5 DEF Ended
  <2>2. \A n \in Notes : sent'[n] <= Allowed(stops')
    BY <1>2, <1>3, <1>5
  <2>3. \A n \in Notes : sent'[n] <= Allowed(stops' + 1)
    <3>1. stops' \in Nat
      BY SMTT(30), <1>1, <1>5
    <3>2. Allowed(stops') \in Nat /\ Allowed(stops' + 1) = Allowed(stops') + Attempts
      BY <3>1, AllowedGrows
    <3>. QED  BY SMTT(30), <1>2, <1>5, <2>2, <3>2
  <2>4. \A n \in NotesIn(todo') : sent'[n] <= Allowed(stops')
    BY <1>5, <2>2
  <2>. QED  BY <1>5, <2>1, <2>2, <2>3, <2>4 DEF WithinAttempts, Allowed
<1>6. ASSUME UNCHANGED stops, phase' \in {phase, "live"},
             phase' # phase => phase = "backfill"
      PROVE  Ended' = e /\ (phase' = "stopping" => stops' > 0) /\ (Working => Working')
  BY <1>6 DEF Ended, WithinAttempts
<1>. HIDE DEF e
<1>7. CASE PostToStream
  <2>1. /\ todo' = Append(todo, posted + 1) /\ posted < MaxNote /\ Working
        /\ UNCHANGED <<phase, note, stage, tries, stops, sent>>
    BY <1>7 DEF PostToStream
  <2>2. NotesIn(todo') = NotesIn(todo) \cup {posted + 1}
    <3>1. todo \in Seq(Nat) /\ posted + 1 \in Nat
      OBVIOUS
    <3>2. Entries(todo') = Entries(todo) \cup {posted + 1}
      BY ONLY <2>1, <3>1, Appended
    <3>. QED  BY <3>2, SameEntries
  <2>3. sent[posted + 1] = 0
    <3>1. posted + 1 \in Notes /\ posted + 1 \notin unmarked \cup processed
      BY SMTT(30), <2>1 DEF TypeOK, Notes
    <3>. QED  BY <3>1 DEF Books
  <2>4. Bounded
    BY SMTT(30), <1>2, <1>3, <2>1, <2>2, <2>3
  <2>5. Ended' = e /\ (phase' = "stopping" => stops' > 0) /\ Working'
    BY <1>6, <2>1
  <2>. QED  BY <1>4, <2>4, <2>5
<1>8. CASE Startup \/ Restart
  <2>1. CASE BackfillDone
    <3>1. /\ phase = "backfill" /\ phase' = "live"
          /\ UNCHANGED <<todo, note, stage, tries, stops, sent>>
      BY <2>1 DEF BackfillDone
    <3>2. Bounded
      BY <1>3, <3>1
    <3>. QED  BY <1>4, <1>6, <3>1, <3>2
  <2>2. CASE ~ BackfillDone
    <3>1. /\ ~ Working /\ phase' # "stopping" /\ UNCHANGED <<stage, stops, sent>>
          /\ todo' \in {todo, Batch}
      BY <1>8, <2>2 DEF Startup, Started, StartFails, GetCursor, AfterCursor,
         InitCursor, FetchNotes, BackfillFails, RequestFails, Restart
    <3>2. NotesIn(todo') \subseteq Notes /\ stage' = "idle"
      BY <3>1, BatchProperties, SameEntries, EntriesType DEF Busy
    <3>. QED  BY <1>1, <1>5, <3>1, <3>2
  <2>. QED  BY <2>1, <2>2
<1>9. CASE Crash \/ Exit
  <2>1. /\ phase' = "down" /\ todo' = <<>> /\ stage' = "idle" /\ UNCHANGED sent
        /\ IF phase = "stopping" THEN stops' = stops ELSE stops' = stops + 1
    BY <1>9 DEF Crash, Exit, StopsNow, Return
  <2>2. stops' = e + 1
    BY <2>1 DEF e, Ended
  <2>. QED  BY <1>5, <2>1, <2>2, EmptyQueue, SameEntries
<1>10. CASE Shutdown
  <2>1. /\ phase = "live" /\ phase' = "stopping" /\ stops' = stops + 1
        /\ UNCHANGED <<todo, note, stage, tries, sent>>
    BY <1>10 DEF Shutdown
  <2>2. Ended' = e
    BY <1>1, <2>1 DEF Ended
  <2>3. Bounded
    BY <1>3, <2>1
  <2>. QED  BY <1>4, <2>1, <2>2, <2>3
<1>11. CASE PostUnseen \/ UNCHANGED vars
  <2>1. UNCHANGED <<phase, todo, note, stage, tries, stops, sent>>
    BY <1>11 DEF PostUnseen, vars
  <2>. QED  BY <2>1 DEF WithinAttempts, Ended
<1>12. CASE HandleNote
  <2>1. /\ UNCHANGED stops /\ Working
        /\ phase' \in {phase, "live"} /\ (phase' # phase => phase = "backfill")
    <3>1. CASE TakeNote \/ Lookup \/ LookupFails
      BY <3>1 DEF Busy, TakeNote, Lookup, LookupFails, ReturnError, FailsInHandler,
         RequestFails
    <3>2. CASE UploadImages \/ UploadFails \/ CreatePost \/ CreateFails
                 \/ Record \/ RecordFails
      BY <3>2, HandlerSteps DEF Busy
    <3>3. CASE AdvanceCursor \/ AdvanceFails
      BY <3>3 DEF Busy, AdvanceCursor, AdvanceFails, ReturnError, FailsInHandler,
         RequestFails
    <3>. QED  BY <1>12, <3>1, <3>2, <3>3 DEF HandleNote
  <2>2. Bounded
    <3>1. CASE TakeNote
      <4>1. /\ todo # <<>> /\ note' = Head(todo) /\ todo' = Tail(todo)
            /\ stage' = "lookup" /\ UNCHANGED sent
        BY <3>1 DEF TakeNote
      <4>2. note' \in NotesIn(todo) /\ NotesIn(todo') \subseteq NotesIn(todo)
        BY <4>1, Taken, SameEntries
      <4>. QED  BY <1>3, <4>1, <4>2
    <3>2. CASE Lookup
      <4>1. /\ stage = "lookup" /\ stage' # "lookup" /\ UNCHANGED <<todo, sent>>
            /\ stage' \in {"upload", "post"} => note' = note /\ tries' = Attempts
        BY <3>2 DEF Lookup, Return
      <4>. QED  BY <1>2, <1>3, <4>1
    <3>3. CASE LookupFails \/ AdvanceCursor \/ AdvanceFails
      <4>1. stage' = "idle" /\ todo' \in {todo, <<>>} /\ UNCHANGED sent
        BY <3>3 DEF LookupFails, AdvanceCursor, AdvanceFails, ReturnError, Return
      <4>. QED  BY <1>3, <4>1, EmptyQueue, SameEntries
    <3>4. CASE UploadImages \/ UploadFails \/ Record \/ RecordFails
      <4>1. /\ UNCHANGED <<todo, note, sent>> /\ stage' \in {"post", "advance"}
            /\ stage' = "post" => stage = "upload" /\ UNCHANGED tries
        BY <3>4 DEF UploadImages, AfterUpload, UploadFails, Record, RecordFails
      <4>. QED  BY <1>3, <4>1
    <3>5. CASE CreatePost \/ CreateFails
      <4>1. /\ stage = "post" /\ UNCHANGED <<todo, note>> /\ (sent' = sent \/ Accepted)
            /\ stage' \in {"post", "record", "advance"}
            /\ stage' = "post" => tries' = tries - 1
        BY <3>5 DEF CreatePost, CreateFails
      <4>2. tries > 0 /\ note \in Notes /\ note \notin NotesIn(todo)
        BY <4>1 DEF TypeOK, Waiting
      <4>3. \A n \in Notes : /\ sent'[n] \in Nat
                             /\ sent'[n] <= IF n = note THEN sent[n] + 1 ELSE sent[n]
        BY SMTT(30), <1>2, <4>1, <4>2 DEF Accepted
      <4>4. \A n \in NotesIn(todo') : sent'[n] <= Allowed(e)
        <5>1. ASSUME NEW n \in NotesIn(todo)
              PROVE  sent'[n] <= Allowed(e)
          <6>1. n \in Notes /\ n # note /\ sent[n] <= Allowed(e)
            BY <1>3, <4>2
          <6>. QED  BY SMTT(30), <1>2, <4>3, <6>1
        <5>. QED  BY <4>1, <5>1
      <4>6. sent'[note] <= Allowed(e + 1)
        <5>1. sent[note] \in Nat /\ sent'[note] \in Nat /\ sent'[note] <= sent[note] + 1
          BY <1>2, <4>2, <4>3
        <5>2. sent[note] + tries <= Allowed(e + 1)
          BY <1>3, <4>1
        <5>3. tries \in Nat /\ tries > 0 /\ Allowed(e + 1) \in Nat
          BY <1>2, <4>2
        <5>. QED  BY ONLY <5>1, <5>2, <5>3
      <4>5. ASSUME stage' = "post"
            PROVE  sent'[note] + tries' <= Allowed(e + 1)
        <5>1. sent[note] \in Nat /\ sent'[note] \in Nat /\ sent'[note] <= sent[note] + 1
          BY <1>2, <4>2, <4>3
        <5>2. sent[note] + tries <= Allowed(e + 1)
          BY <1>3, <4>1
        <5>3. tries \in Nat /\ tries' = tries - 1 /\ Allowed(e + 1) \in Nat
          BY SMTT(30), <1>2, <4>1, <4>5
        <5>. QED  BY ONLY <5>1, <5>2, <5>3
      <4>7. ASSUME NEW n \in Notes
            PROVE  sent'[n] <= Allowed(e + 1)
        <5>1. CASE n = note
          BY <4>6, <5>1
        <5>2. CASE n # note
          BY SMTT(30), <1>2, <1>3, <4>3, <5>2
        <5>. QED  BY <5>1, <5>2
      <4>. QED  BY <4>1, <4>4, <4>5, <4>7
    <3>. QED  BY <1>12, <3>1, <3>2, <3>3, <3>4, <3>5 DEF HandleNote
  <2>. QED  BY <1>4, <1>6, <2>1, <2>2
<1>. QED
  BY <1>7, <1>8, <1>9, <1>10, <1>11, <1>12 DEF Next


\* What is ahead of a later cursor is ahead of an earlier one, and no note is
\* ahead of a cursor that has come to the newest.
LEMMA Later ==
  ASSUME NEW a \in Nat, NEW b \in Nat, a <= b, NEW m \in Nat
  PROVE  /\ \A n \in b + 1 .. m : n \in a + 1 .. m /\ n # 0
         /\ m <= b => b + 1 .. m = {}
OBVIOUS

\* No note is lost between the cursor, the queue and the failures, as long as a
\* fetch brings everything.
LEMMA AllAccountedNext ==
  ASSUME TypeOK, Busy, Waiting, PastIsPast, BatchFits, AllAccounted, [Next]_vars
  PROVE  AllAccounted'
<1>. USE DEF handler, tables, bounds, fates, origins
<1>. USE Numbers
<1>. DEFINE Pending == {note} \cup NotesIn(todo)
            Known == Pending \cup Settled
\* What AllAccounted says beside MissedOnlyInGap.
<1>. DEFINE Ahead == ~ dryRun =>
       /\ phase \in {"backfill", "live"} => \A n \in cursor + 1 .. posted : n \in Known
       /\ \A m \in Pending : \A n \in cursor + 1 .. m : n \in Known
<1>1. MissedOnlyInGap /\ Ahead
  BY DEF AllAccounted
<1>2. SUFFICES MissedOnlyInGap' /\ Ahead'
  BY DEF AllAccounted
<1>3. Settled \subseteq Settled'
  BY DEF Settled, Next, PostToStream, PostUnseen, Startup, Started, StartFails, GetCursor,
     InitCursor, FetchNotes, BackfillFails, BackfillDone, HandleNote, TakeNote,
     Lookup, LookupFails, UploadImages, UploadFails, CreatePost, CreateFails,
     Record, RecordFails, AdvanceCursor, AdvanceFails, ReturnError, Crash, Shutdown,
     Exit, StopsNow, Restart, vars
<1>4. MissedOnlyInGap'
  <2>1. CASE UNCHANGED <<cursor, start>>
    BY <1>1, <1>3, <2>1 DEF MissedOnlyInGap, Settled
  <2>2. CASE phase = "init" /\ Seeded
    <3>1. start' = posted /\ cursor' = posted
      BY <2>2 DEF Seeded, PastIsPast
    <3>. QED  BY <3>1 DEF MissedOnlyInGap
  <2>3. CASE /\ AdvanceCursor \/ AdvanceFails
             /\ ~ dryRun /\ note # 0 /\ cursor < note /\ cursor' = note
             /\ UNCHANGED start
    <3>1. note \in handled'
      BY <2>3 DEF AdvanceCursor, AdvanceFails
    <3>2. ASSUME NEW n \in start + 1 .. note
          PROVE  n \in Settled'
      <4>1. CASE n <= cursor
        <5>1. n \in start + 1 .. cursor
          BY <4>1
        <5>. QED  BY <1>1, <1>3, <5>1 DEF MissedOnlyInGap, Settled
      <4>2. CASE n > cursor
        <5>1. n \in cursor + 1 .. note /\ n \notin NotesIn(todo)
          BY <4>2 DEF Waiting
        <5>2. n \in Settled \/ n = note
          BY <1>1, <2>3, <5>1
        <5>. QED  BY <1>3, <3>1, <5>2 DEF Settled
      <4>. QED  BY <4>1, <4>2
    <3>. QED  BY <2>3, <3>2 DEF MissedOnlyInGap, Settled
  <2>. QED  BY <2>1, <2>2, <2>3, CursorMoves
<1>5. Ahead'
  <2>1. CASE PostToStream
    <3>. DEFINE p == posted + 1
    <3>1. /\ todo' = Append(todo, p) /\ posted' = p /\ phase = "live" /\ p \in Nat
          /\ UNCHANGED <<phase, dryRun, note, cursor, handled, gap, failed, skipped>>
      BY <2>1 DEF PostToStream
    <3>2. \A m \in Nat : m \in cursor + 1 .. p => m \in cursor + 1 .. posted \/ m = p
      OBVIOUS
    <3>3. \A m \in Pending : m \in Nat /\ m <= posted
      OBVIOUS
    <3>. HIDE DEF p
    <3>4. NotesIn(todo') = NotesIn(todo) \cup {p}
      <4>1. todo \in Seq(Nat)
        OBVIOUS
      <4>2. Entries(todo') = Entries(todo) \cup {p}
        BY ONLY <3>1, <4>1, Appended
      <4>. QED  BY <4>2, SameEntries
    <3>5. ~ dryRun => \A n \in cursor + 1 .. p : n \in Known'
      BY <1>1, <3>1, <3>2, <3>4 DEF Settled
    <3>6. \A m \in Pending' : m \in Nat /\ m <= p
      BY SMTT(30), <3>1, <3>3, <3>4 DEF p
    <3>. QED  BY SMTT(30), <3>1, <3>5, <3>6
  <2>2. CASE PostUnseen
    <3>1. /\ posted' = posted + 1
          /\ phase \in {"backfill", "live"} => gap' = gap \cup {posted + 1}
          /\ UNCHANGED <<phase, dryRun, todo, note, cursor>>
      BY <2>2 DEF PostUnseen
    <3>2. \A m \in cursor + 1 .. posted + 1 : m \in cursor + 1 .. posted \/ m = posted + 1
      OBVIOUS
    <3>3. phase \in {"backfill", "live"} => posted + 1 \in Settled'
      BY <3>1 DEF Settled
    <3>. QED  BY <1>1, <1>3, <3>1, <3>2, <3>3
  <2>3. CASE Startup
    <3>1. CASE BackfillDone
      <4>1. /\ phase = "backfill"
            /\ UNCHANGED <<posted, dryRun, todo, note, cursor, handled, gap, failed, skipped>>
        BY <3>1 DEF BackfillDone
      <4>. QED  BY <1>1, <4>1 DEF Settled
    <3>2. CASE FetchNotes
      <4>1. /\ todo' = Batch /\ phase = "fetching" /\ note = 0
            /\ UNCHANGED <<posted, note, cursor>>
        BY <3>2 DEF FetchNotes, Busy, TypeOK
      <4>2. NotesIn(todo') = cursor + 1 .. posted
        BY <4>1, BatchProperties DEF BatchFits
      <4>. QED  BY <4>1, <4>2
    <3>3. CASE Started \/ StartFails \/ GetCursor \/ InitCursor \/ BackfillFails
      <4>1. /\ todo' = <<>> /\ note' = 0 /\ posted' = posted
            /\ phase' = "live" => \/ dryRun' \/ cursor' = posted
                                  \/ UNCHANGED cursor /\ cursor + 1 .. posted \subseteq skipped'
        BY <3>3 DEF Busy, TypeOK, Started, StartFails, GetCursor, AfterCursor, InitCursor,
           BackfillFails, Seeded
      <4>2. cursor' \in Nat /\ phase' # "backfill"
        BY <3>3 DEF Started, StartFails, GetCursor, AfterCursor, InitCursor,
           BackfillFails, Seeded
      <4>3. NotesIn(todo') = {}
        BY <4>1, EmptyQueue, SameEntries
      <4>4. \A m \in Pending' : \A n \in cursor' + 1 .. m : FALSE
        <5>1. cursor' + 1 .. 0 = {}
          <6>1. 0 \in Nat /\ 0 <= cursor'
            BY ONLY <4>2
          <6>. QED  BY ONLY <4>2, <6>1, Later
        <5>. QED  BY <4>1, <4>3, <5>1
      <4>5. phase' = "live" /\ ~ dryRun' =>
              \A n \in cursor' + 1 .. posted' : n \in Settled'
        <5>1. \A n \in posted + 1 .. posted : FALSE
          OBVIOUS
        <5>. QED  BY <4>1, <5>1 DEF Settled
      <4>. QED  BY <4>2, <4>4, <4>5
    <3>. QED  BY <2>3, <3>1, <3>2, <3>3 DEF Startup
  <2>4. CASE TakeNote
    <3>1. /\ todo # <<>> /\ note = 0 /\ note' = Head(todo) /\ todo' = Tail(todo)
          /\ UNCHANGED <<posted, phase, dryRun, cursor, handled, gap, failed, skipped>>
      BY <2>4 DEF TakeNote, TypeOK
    <3>2. NotesIn(todo) = {note'} \cup NotesIn(todo')
      BY <3>1, Taken, SameEntries
    <3>3. Settled' = Settled
      BY <3>1 DEF Settled
    <3>4. Known = Known' \cup {0} /\ Pending' \subseteq Pending
      BY <3>1, <3>2, <3>3
    <3>5. \A m \in Nat : \A n \in cursor + 1 .. m : n # 0
      OBVIOUS
    <3>6. \A m \in Pending : m \in Nat
      OBVIOUS
    <3>. HIDE DEF Known, Pending
    <3>. QED  BY <1>1, <3>1, <3>4, <3>5, <3>6
  <2>5. CASE Lookup \/ LookupFails \/ AdvanceCursor \/ AdvanceFails
    <3>1. /\ UNCHANGED <<posted, dryRun>> /\ note' \in {note, 0} /\ stage # "idle"
          /\ phase' \in {phase, "live"} /\ (phase' # phase => phase = "backfill")
          /\ note' = 0 => dryRun \/ note \in handled' \cup failed'
          /\ \/ UNCHANGED todo
             \/ todo' = <<>> /\ NotesIn(todo) \subseteq skipped'
      BY SMTT(30), <2>5 DEF Lookup, LookupFails, AdvanceCursor, AdvanceFails, ReturnError, Return
    <3>2. NotesIn(todo') \subseteq NotesIn(todo)
      BY <3>1, EmptyQueue, SameEntries
    <3>3. ~ dryRun => Known \subseteq Known' \cup {0}
      BY <1>3, <3>1 DEF Settled
    <3>4. cursor \in Nat /\ cursor' \in Nat /\ cursor <= cursor'
      BY SMTT(30), CursorMoves, <3>1 DEF Busy
    <3>5. \A m \in Nat : \A n \in cursor' + 1 .. m : n \in cursor + 1 .. m /\ n # 0
      BY ONLY <3>4, Later
    <3>6. \A m \in Pending' : m \in Pending \/ m = 0
      BY <3>1, <3>2
    <3>7. \A m \in Pending : m \in Nat
      OBVIOUS
    <3>8. cursor' + 1 .. 0 = {}
      <4>1. 0 \in Nat /\ 0 <= cursor'
        BY ONLY <3>4
      <4>. QED  BY ONLY <3>4, <4>1, Later
    <3>9. posted' = posted /\ posted \in Nat
      BY <3>1
    <3>10. phase' \in {"backfill", "live"} => phase \in {"backfill", "live"}
      BY <3>1
    <3>. HIDE DEF Known, Pending
    <3>. QED  BY ONLY <1>1, <3>1, <3>3, <3>5, <3>6, <3>7, <3>8, <3>9, <3>10
  <2>6. CASE UploadImages \/ UploadFails \/ CreatePost \/ CreateFails \/ Record \/ RecordFails
    <3>1. UNCHANGED <<posted, phase, dryRun, todo, note, cursor>>
      BY <2>6 DEF UploadImages, UploadFails, CreatePost, CreateFails, Record, RecordFails
    <3>. QED  BY <1>1, <1>3, <3>1
  <2>7. CASE Crash \/ Exit \/ Restart
    <3>1. /\ todo' = <<>> /\ note' = 0 /\ phase' \in {"down", "starting"}
          /\ UNCHANGED cursor
      BY <2>7 DEF Crash, Exit, StopsNow, Return, Restart, Busy, TypeOK
    <3>. QED  BY SMTT(30), <3>1, EmptyQueue, SameEntries
  <2>8. CASE Shutdown \/ UNCHANGED vars
    <3>1. /\ UNCHANGED <<posted, dryRun, todo, note, cursor>>
          /\ phase' \in {phase, "stopping"}
      BY <2>8 DEF Shutdown, vars
    <3>. QED  BY <1>1, <1>3, <3>1
  <2>. QED
    BY <2>1, <2>2, <2>3, <2>4, <2>5, <2>6, <2>7, <2>8 DEF Next, HandleNote
<1>. QED  BY <1>4, <1>5

-----------------------------------------------------------------------------
(* The theorems.                                                           *)

\* A bridge that is started for the first time.
LEMMA BridgeInvInit == Init => BridgeInv /\ AllAccounted
<1>. SUFFICES ASSUME Init PROVE BridgeInv /\ AllAccounted
  OBVIOUS
<1>1. TypeOK
  BY TypeInit
<1>2. NotesIn(todo) = {} /\ Ascending(todo)
  BY EmptyQueue, SameEntries DEF Init
<1>. USE <1>1, <1>2, Numbers DEF Init, NoCursor
<1>3. Busy /\ PastIsPast /\ Waiting
  BY DEF Busy, PastIsPast, Waiting
<1>4. Books
  BY DEF Books
<1>5. WithinAttempts
  BY DEF WithinAttempts, Ended
<1>6. AllAccounted
  BY DEF AllAccounted, MissedOnlyInGap
<1>. QED  BY <1>3, <1>4, <1>5, <1>6 DEF BridgeInv

\* BridgeInv is an invariant of the bridge.
LEMMA BridgeInvariance == Spec => []BridgeInv
<1>1. Init => BridgeInv
  BY BridgeInvInit
<1>2. BridgeInv /\ [Next]_vars => BridgeInv'
  BY TypeNext, BusyNext, WaitingNext, PastIsPastNext, BooksNext, WithinAttemptsNext
     DEF BridgeInv
<1>. QED  BY <1>1, <1>2, PTL DEF Spec

\* The state is well typed, and a note is posted twice only when one of its
\* posts has no record, whatever fails or stops in between (HandleNote,
\* forward): the batch, the queue and the restarts repeat nothing else.
THEOREM BridgeSafe == Spec => []Safe
<1>1. ASSUME TypeOK, Books, NEW n \in Notes, n \notin unmarked
      PROVE  sent[n] \in 0 .. 1
  BY ONLY <1>1, SMTT(30) DEF Books
<1>2. ASSUME TypeOK, Books
      PROVE  DuplicateOnlyInDoubt
  <2>1. \A n \in Notes : sent[n] > 1 => sent[n] \notin 0 .. 1
    BY <1>2, Numbers DEF TypeOK
  <2>. QED  BY ONLY <1>1, <1>2, <2>1, ZenonT(30) DEF DuplicateOnlyInDoubt
<1>3. BridgeInv => Safe
  BY <1>2 DEF BridgeInv, Safe
<1>. QED  BY <1>3, BridgeInvariance, PTL

\* A note is posted at most as often as retry.DoDefault allows in each process
\* there was, and never when it is older than the first start.
THEOREM BridgeRepeatsBounded == Spec => []RepeatsBounded
<1>1. ASSUME BridgeInv
      PROVE  RepeatsBounded
  <2>. USE <1>1, Numbers DEF BridgeInv
  <2>0. Attempts \in Nat /\ stops \in Nat
    OBVIOUS
  <2>1. ASSUME NEW n \in Notes
        PROVE  sent[n] <= Attempts * (1 + stops)
    <3>1. Ended \in Nat /\ Ended <= stops
      BY DEF Ended, WithinAttempts
    <3>2. /\ Attempts * Ended <= Attempts * (1 + stops)
          /\ Attempts * (Ended + 1) <= Attempts * (1 + stops)
          /\ Attempts * Ended \in Nat /\ Attempts * (Ended + 1) \in Nat
          /\ Attempts * (1 + stops) \in Nat
      BY ONLY <2>0, <3>1
    <3>3. sent[n] \in Nat
      BY DEF TypeOK
    <3>4. sent[n] <= Attempts * (Ended + 1) \/ sent[n] <= Attempts * Ended
      BY DEF WithinAttempts
    <3>. QED  BY ONLY <3>2, <3>3, <3>4
  <2>2. \A n \in Notes : n <= initial => sent[n] = 0
    BY DEF Books
  <2>. QED  BY <2>1, <2>2 DEF RepeatsBounded
<1>. QED  BY <1>1, BridgeInvariance, PTL

\* Behind every record is a post, and a forwardable note that was dealt with
\* was posted unless it failed: the cursor and bridged_posts never vouch for a
\* post that was not made.
THEOREM BridgeLosesNothingSilently == Spec => []NoSilentLoss
<1>1. BridgeInv => NoSilentLoss
  BY DEF BridgeInv, Books, NoSilentLoss
<1>. QED  BY <1>1, BridgeInvariance, PTL

\* As long as no more notes wait than one request returns, the cursor passes
\* only notes that were handled, failed, were left out by a backfill that
\* failed, or came to no stream: through dry runs, stops and restarts.
THEOREM BridgeMissesOnlyInGap == Spec /\ []BatchFits => []MissedOnlyInGap
<1>1. Init => AllAccounted
  BY BridgeInvInit
<1>2. BridgeInv /\ BatchFits /\ AllAccounted /\ [Next]_vars => AllAccounted'
  BY AllAccountedNext DEF BridgeInv
<1>3. AllAccounted => MissedOnlyInGap
  BY DEF AllAccounted
<1>. QED  BY <1>1, <1>2, <1>3, BridgeInvariance, PTL DEF Spec

\* In particular when a request may return all the notes there are, as in the
\* run MCMixi2Link.
COROLLARY BridgeMissesOnlyInGapIfAllFit ==
  ASSUME FetchLimit >= MaxNote
  PROVE  Spec => []MissedOnlyInGap
<1>1. ASSUME BridgeInv
      PROVE  BatchFits
  BY <1>1, Numbers, LimitAssumption DEF BridgeInv, BatchFits
<1>. QED  BY <1>1, BridgeInvariance, BridgeMissesOnlyInGap, PTL

-----------------------------------------------------------------------------
(* The refinement of Forwarding: CreatePost is Answered, or Unanswered when *)
(* it fails although the post is out; Record is Record; a record that fails *)
(* or is never made is LoseTrack; the cursor closes what it passes.         *)

\* At the first start nothing is forwarded, and no note passed.
LEMMA ForwardingInit == Init => Bridge!Init
<1>1. Init => InDoubt = {} /\ 1 .. cursor = {}
  BY DEF Init, InDoubt, NoCursor
<1>. QED  BY <1>1 DEF Init, Bridge!Init

\* A note for which CreatePost is called is newer than the cursor, is not
\* recorded, and was posted before only if that is in doubt.
LEMMA MayPost ==
  ASSUME BridgeInv, stage = "post"
  PROVE  /\ note \in Notes /\ InDoubt = {}
         /\ note \notin processed \cup InDoubt \cup (1 .. cursor)
         /\ sent[note] > 0 => note \in unmarked
<1>. USE Numbers DEF BridgeInv
<1>1. note \in Notes /\ note # 0 /\ note \notin processed /\ cursor < note
  BY DEF Books, Waiting, TypeOK
<1>2. note \notin unmarked => sent[note] = 0
  BY <1>1 DEF Books
<1>. QED  BY <1>1, <1>2 DEF InDoubt

\* A step that only moves the cursor on closes the notes it comes to pass.
LEMMA Closes ==
  ASSUME BridgeInv, [Next]_vars, UNCHANGED <<sent, processed, unmarked>>,
         stage # "record", stage' # "record"
  PROVE  [Bridge!Next]_(Bridge!vars)
<1>. USE Numbers DEF BridgeInv
<1>1. InDoubt = {} /\ InDoubt' = {}
  BY DEF InDoubt
<1>2. cursor' \in Nat /\ cursor <= cursor' /\ cursor' <= MaxNote
  <2>1. cursor' = cursor \/ cursor' = note \/ (Seeded /\ phase = "init")
    BY CursorMoves
  <2>2. Seeded /\ phase = "init" => cursor' = posted
    BY DEF Seeded
  <2>3. cursor' = note => cursor <= cursor' \/ note = 0
    BY DEF Waiting
  <2>4. note = 0 /\ cursor' = note => cursor' = cursor \/ cursor' = posted
    BY CursorMoves DEF Seeded
  <2>. QED  BY <2>1, <2>2, <2>3, <2>4
<1>3. 1 .. cursor \subseteq 1 .. cursor' /\ 1 .. cursor' \subseteq Notes
  BY <1>2 DEF Notes
<1>4. Bridge!Close(1 .. cursor')
  BY <1>1, <1>3 DEF Bridge!Close
<1>5. 1 .. cursor' \in SUBSET (Notes \ InDoubt)
  BY <1>1, <1>3
<1>. QED  BY <1>4, <1>5 DEF Bridge!Next

\* Every step is one of Forwarding, or nothing of it.
LEMMA ForwardingNext ==
  ASSUME BridgeInv, [Next]_vars
  PROVE  [Bridge!Next]_(Bridge!vars)
<1>. USE DEF handler, tables, bounds, fates, origins
<1>1. CASE \/ PostToStream \/ PostUnseen \/ Shutdown \/ Restart \/ UNCHANGED vars
  <2>1. UNCHANGED <<note, stage, processed, cursor, sent, unmarked>>
    BY <1>1 DEF PostToStream, PostUnseen, Shutdown, Restart, vars
  <2>. QED  BY <2>1 DEF Bridge!vars, InDoubt
<1>2. CASE Startup
  <2>1. UNCHANGED <<note, stage, processed, sent, unmarked>>
    BY <1>2 DEF Startup, Started, StartFails, GetCursor, InitCursor, FetchNotes,
       BackfillFails, BackfillDone
  <2>2. CASE stage = "record"
    <3>1. cursor' = cursor
      BY <1>2, <2>2 DEF Startup, Started, StartFails, GetCursor, InitCursor, FetchNotes,
         BackfillFails, BackfillDone, BridgeInv, Busy
    <3>. QED  BY <2>1, <3>1 DEF Bridge!vars, InDoubt
  <2>3. CASE stage # "record"
    BY <2>1, <2>3, Closes
  <2>. QED  BY <2>2, <2>3
<1>3. CASE \/ TakeNote \/ Lookup \/ LookupFails \/ UploadImages \/ UploadFails
           \/ AdvanceCursor \/ AdvanceFails
  <2>1. stage # "record" /\ stage' # "record" /\ UNCHANGED <<processed, sent, unmarked>>
    BY <1>3 DEF TakeNote, Lookup, LookupFails, UploadImages, AfterUpload, UploadFails,
       AdvanceCursor, AdvanceFails, ReturnError, Return
  <2>. QED  BY <2>1, Closes
<1>4. CASE CreatePost
  <2>1. /\ stage = "post" /\ sent' = [sent EXCEPT ![note] = @ + 1]
        /\ InDoubt' = {note} /\ UNCHANGED <<processed, cursor, unmarked>>
    BY <1>4 DEF CreatePost, Accepted, InDoubt
  <2>2. Bridge!Answered(note)
    BY <2>1, MayPost DEF Bridge!Answered, Bridge!Forward
  <2>. QED  BY <2>1, <2>2, MayPost DEF Bridge!Next
<1>5. CASE CreateFails
  <2>1. /\ stage = "post" /\ InDoubt = {} /\ InDoubt' = {}
        /\ UNCHANGED <<processed, cursor>>
    BY <1>5 DEF CreateFails, InDoubt
  <2>2. CASE UNCHANGED <<sent, unmarked>>
    BY <2>1, <2>2 DEF Bridge!vars
  <2>3. CASE Accepted /\ unmarked' = unmarked \cup {note}
    <3>1. Bridge!Unanswered(note)
      BY <2>1, <2>3, MayPost DEF Accepted, Bridge!Unanswered, Bridge!Forward
    <3>. QED  BY <2>1, <3>1, MayPost DEF Bridge!Next
  <2>. QED  BY <1>5, <2>2, <2>3 DEF CreateFails
<1>6. CASE Record \/ RecordFails
  <2>1. /\ stage = "record" /\ InDoubt = {note} /\ InDoubt' = {}
        /\ UNCHANGED <<sent, cursor>>
        /\ \/ processed' = processed \cup {note} /\ unmarked' = unmarked
           \/ unmarked' = unmarked \cup {note} /\ processed' = processed
    BY <1>6 DEF Record, RecordFails, InDoubt
  <2>2. Bridge!Record(note) \/ Bridge!LoseTrack(note)
    BY <2>1 DEF Bridge!Record, Bridge!LoseTrack
  <2>3. note \in Notes
    BY <2>1, Numbers DEF BridgeInv
  <2>. QED  BY <2>2, <2>3 DEF Bridge!Next
<1>7. CASE Crash \/ Exit
  <2>1. /\ InDoubt' = {} /\ unmarked' = unmarked \cup InDoubt
        /\ UNCHANGED <<processed, cursor, sent>>
    BY <1>7 DEF Crash, Exit, StopsNow, Return, InDoubt
  <2>2. CASE InDoubt = {}
    BY <2>1, <2>2 DEF Bridge!vars
  <2>3. CASE InDoubt # {}
    <3>1. InDoubt = {note} /\ note \in Notes
      BY <2>3, Numbers DEF InDoubt, BridgeInv
    <3>2. Bridge!LoseTrack(note)
      BY <2>1, <3>1 DEF Bridge!LoseTrack
    <3>. QED  BY <3>1, <3>2 DEF Bridge!Next
  <2>. QED  BY <2>2, <2>3
<1>. QED
  BY <1>1, <1>2, <1>3, <1>4, <1>5, <1>6, <1>7 DEF Next, HandleNote

\* The queue, the handler, the records and the cursor together do what
\* Forwarding promises, through failures, dry runs, shutdowns and crashes.
THEOREM BridgeKeepsPromise == Spec => ForwardingSpec
BY ForwardingInit, ForwardingNext, BridgeInvariance, PTL
   DEF Spec, ForwardingSpec, Bridge!Spec
=============================================================================
