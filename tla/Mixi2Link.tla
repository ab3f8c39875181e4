----------------------------- MODULE Mixi2Link -----------------------------
(***************************************************************************)
(* misskey-mixi2-link, from Misskey to mixi2: main.go, MisskeyToMixi2      *)
(* (bridge/misskey_to_mixi2.go), retry.DoDefault and the store.            *)
(*                                                                         *)
(* The store is a remote database: every request may fail, and one that    *)
(* writes may have been applied all the same.  Watcher shows what the      *)
(* stream and its channel amount to: a queue that keeps the order, into    *)
(* which a note of a live process either comes or does not.                *)
(***************************************************************************)
EXTENDS Naturals, Sequences

CONSTANTS Attempts,     \* calls that retry.DoDefault makes, 3 in the code
          FetchLimit,   \* how many notes one users/notes request returns
          Forwardable,  \* notes ShouldForwardNote lets through, not empty
          Illustrated,  \* those of them that have images
          \* Bounds of the model:
          MaxNote,      \* notes the operator posts
          MaxFailures,  \* requests that fail
          MaxStops      \* times the process stops

Notes == 1 .. MaxNote

ASSUME AttemptAssumption == Attempts \in Nat \ {0}
ASSUME LimitAssumption == FetchLimit \in Nat \ {0}
ASSUME NoteAssumption == Illustrated \subseteq Forwardable /\ Forwardable \subseteq Notes
ASSUME BoundAssumption == /\ MaxNote \in Nat
                          /\ MaxFailures \in Nat
                          /\ MaxStops \in Nat

VARIABLES posted,     \* the newest note on Misskey
          phase,      \* how far main has come
          dryRun,     \* DRY_RUN of this process, FALSE without one
          todo,       \* the batch of the backfill, then the watcher's queue
          note,       \* the note HandleNote is at, 0 for none
          stage,      \* how far HandleNote has come
          tries,      \* calls of CreatePost it has left
          processed,  \* bridged_posts of this direction
          cursor,     \* cursors table, NoCursor for nil
          failures, stops

\* What an observer remembers of the run.
VARIABLES sent,       \* note -> posts mixi2 accepted
          handled,    \* notes HandleNote was done with, but for the cursor
          failed,     \* notes it gave up after an error
          skipped,    \* notes a failed backfill left out
          gap,        \* notes posted while no fetch and no stream looks
          unmarked,   \* notes posted without a record of it
          away,       \* notes posted while the bridge was stopped
          initial,    \* the newest note when the bridge first started
          start       \* where the cursor was when it was initialised

handler == <<note, stage, tries>>
tables == <<processed, cursor>>
bounds == <<failures, stops>>
fates == <<handled, failed, skipped>>
origins == <<away, initial, start>>
vars == <<posted, phase, dryRun, todo, handler, tables, bounds, sent, fates,
          gap, unmarked, origins>>

NoCursor == 0
Phases == {"down", "starting", "cursor", "init", "fetching", "backfill", "live",
           "stopping"}
Stages == {"idle", "lookup", "upload", "post", "record", "advance"}

TypeOK ==
  /\ posted \in 0 .. MaxNote
  /\ phase \in Phases
  /\ dryRun \in BOOLEAN
  /\ todo \in Seq(1 .. posted)
  /\ note \in 0 .. posted
  /\ stage \in Stages
  /\ tries \in 0 .. Attempts
  /\ processed \subseteq 1 .. posted
  /\ cursor \in 0 .. posted
  /\ failures \in 0 .. MaxFailures
  /\ stops \in 0 .. MaxStops
  /\ sent \in [Notes -> Nat]
  /\ handled \subseteq 1 .. posted
  /\ failed \subseteq 1 .. posted
  /\ skipped \subseteq 1 .. posted
  /\ gap \subseteq 1 .. posted
  /\ unmarked \subseteq 1 .. posted
  /\ away \subseteq 1 .. posted
  /\ initial \in 0 .. posted
  /\ start \in 0 .. posted
  /\ note # 0 <=> stage # "idle"
  \* A call is always left while CreatePost is being tried.
  /\ stage = "post" => tries > 0

NotesIn(s) == {s[i] : i \in 1 .. Len(s)}
Larger(a, b) == IF a >= b THEN a ELSE b
Smaller(a, b) == IF a <= b THEN a ELSE b

-----------------------------------------------------------------------------
\* The bridge starts for the first time: there may be notes, nothing is stored.
Init ==
  /\ posted \in 0 .. MaxNote
  /\ phase = "starting"
  /\ dryRun \in BOOLEAN
  /\ todo = <<>>
  /\ note = 0
  /\ stage = "idle"
  /\ tries = 0
  /\ processed = {}
  /\ cursor = NoCursor
  /\ failures = 0
  /\ stops = 0
  /\ sent = [n \in Notes |-> 0]
  /\ handled = {}
  /\ failed = {}
  /\ skipped = {}
  /\ gap = {}
  /\ unmarked = {}
  /\ away = {}
  /\ initial = posted
  /\ start = 0

\* A request fails; how often is bounded.
RequestFails ==
  /\ failures < MaxFailures
  /\ failures' = failures + 1
  /\ UNCHANGED stops

-----------------------------------------------------------------------------
(* Misskey: the operator posts.                                            *)

PostToStream ==
  /\ posted < MaxNote
  /\ phase = "live"
  /\ posted' = posted + 1
  /\ todo' = Append(todo, posted + 1)
  /\ UNCHANGED <<phase, dryRun, handler, tables, bounds, sent, fates, gap,
                 unmarked, origins>>

\* The watcher is not started, not connected, or loses the note on its way.
\* A backfill that is still to come will find it.
PostUnseen ==
  /\ posted < MaxNote
  /\ posted' = posted + 1
  /\ gap' = IF phase \in {"backfill", "live"} THEN gap \cup {posted + 1} ELSE gap
  /\ away' = IF phase = "down" THEN away \cup {posted + 1} ELSE away
  /\ UNCHANGED <<phase, dryRun, todo, handler, tables, bounds, sent, fates,
                 unmarked, initial, start>>

-----------------------------------------------------------------------------
(* main: the clients and the user id, Backfill, then the watchers.         *)

Started ==
  /\ phase = "starting"
  /\ phase' = "cursor"
  /\ UNCHANGED <<posted, dryRun, todo, handler, tables, bounds, sent, fates,
                 gap, unmarked, origins>>

\* log.Fatal: Turso, mixi2 or Misskey does not answer.
StartFails ==
  /\ phase = "starting"
  /\ RequestFails
  /\ phase' = "down"
  /\ dryRun' = FALSE
  /\ UNCHANGED <<posted, todo, handler, tables, sent, fates, gap,
                 unmarked, origins>>

\* Faulty: every start seeds the cursor.
SeedEveryStart == IF dryRun THEN "live" ELSE "init"

AfterCursor == IF cursor # NoCursor THEN "fetching"
               ELSE IF dryRun THEN "live" ELSE "init"

GetCursor ==
  /\ phase = "cursor"
  /\ phase' = AfterCursor
  /\ UNCHANGED <<posted, dryRun, todo, handler, tables, bounds, sent, fates,
                 gap, unmarked, origins>>

\* FetchLatestNote and SetCursor.
Seeded ==
  /\ cursor' = posted
  /\ start' = IF cursor = NoCursor THEN posted ELSE start

InitCursor ==
  /\ phase = "init"
  /\ phase' = "live"
  /\ Seeded
  /\ UNCHANGED <<posted, dryRun, todo, handler, processed, bounds, sent, fates,
                 gap, unmarked, away, initial>>

\* users/notes with sinceId: the oldest FetchLimit notes after the cursor.
Fetched == Smaller(posted, cursor + FetchLimit) - cursor

\* FetchUserNotes sorts the answer by id.
Batch == [i \in 1 .. Fetched |-> cursor + i]

FetchNotes ==
  /\ phase = "fetching"
  /\ phase' = "backfill"
  /\ todo' = Batch
  /\ UNCHANGED <<posted, dryRun, handler, tables, bounds, sent, fates, gap,
                 unmarked, origins>>

\* Backfill returns an error before it has a batch: it is logged and the
\* watchers start.  SetCursor may have been applied.
BackfillFails ==
  /\ phase \in {"cursor", "init", "fetching"}
  /\ RequestFails
  /\ phase' = "live"
  /\ \/ phase = "init" /\ Seeded /\ UNCHANGED skipped
     \/ skipped' = skipped \cup (cursor + 1 .. posted) /\ UNCHANGED <<cursor, start>>
  /\ UNCHANGED <<posted, dryRun, todo, handler, processed, sent, handled, failed,
                 gap, unmarked, away, initial>>

BackfillDone ==
  /\ phase = "backfill"
  /\ todo = <<>>
  /\ stage = "idle"
  /\ phase' = "live"
  /\ UNCHANGED <<posted, dryRun, todo, handler, tables, bounds, sent, fates,
                 gap, unmarked, origins>>

-----------------------------------------------------------------------------
(* HandleNote, called by Backfill and by the watcher's worker.             *)

TakeNote ==
  /\ phase \in {"backfill", "live", "stopping"}
  /\ stage = "idle"
  /\ todo # <<>>
  /\ note' = Head(todo)
  /\ todo' = Tail(todo)
  /\ stage' = "lookup"
  /\ UNCHANGED <<posted, phase, dryRun, tries, tables, bounds, sent, fates, gap,
                 unmarked, origins>>

Return ==
  /\ note' = 0
  /\ stage' = "idle"
  /\ tries' = 0

\* HandleNote returns an error.  The worker logs it; Backfill returns it, and
\* what is left of its batch is left out.
ReturnError ==
  /\ Return
  /\ IF phase = "backfill"
     THEN /\ phase' = "live"
          /\ todo' = <<>>
          /\ skipped' = skipped \cup NotesIn(todo)
     ELSE UNCHANGED <<phase, todo, skipped>>

\* The shutdown has closed the clients: requests fail of themselves.
FailsInHandler == RequestFails \/ (phase = "stopping" /\ UNCHANGED bounds)

\* Faulty: a note is not looked up before it is forwarded.
NeverProcessed == FALSE

\* Faulty: the cursor is taken to know what was forwarded.
BehindCursor == note <= cursor

IsProcessed == note \in processed

Lookup ==
  /\ stage = "lookup"
  /\ IF IsProcessed \/ note \notin Forwardable
     THEN stage' = "advance" /\ UNCHANGED <<note, tries>>
     ELSE IF dryRun
     THEN Return
     ELSE /\ stage' = IF note \in Illustrated THEN "upload" ELSE "post"
          /\ tries' = Attempts
          /\ UNCHANGED note
  /\ UNCHANGED <<posted, phase, dryRun, todo, tables, bounds, sent, fates, gap,
                 unmarked, origins>>

\* IsProcessed fails: the note is not handled, the cursor stays.
LookupFails ==
  /\ stage = "lookup"
  /\ FailsInHandler
  /\ ReturnError
  /\ failed' = failed \cup {note}
  /\ UNCHANGED <<posted, dryRun, tables, sent, handled, gap, unmarked, origins>>

\* Faulty: the record is made before the post, to be on the safe side.
RecordFirst == "record"

AfterUpload == "post"

\* Every image is fetched and uploaded, within the attempts it has.
UploadImages ==
  /\ stage = "upload"
  /\ stage' = AfterUpload
  /\ UNCHANGED <<posted, phase, dryRun, todo, note, tries, tables, bounds, sent,
                 fates, gap, unmarked, origins>>

\* An image fails in all its attempts: the note is not forwarded.
UploadFails ==
  /\ stage = "upload"
  /\ FailsInHandler
  /\ stage' = "advance"
  /\ tries' = 0
  /\ failed' = failed \cup {note}
  /\ UNCHANGED <<posted, phase, dryRun, todo, note, tables, sent, handled,
                 skipped, gap, unmarked, origins>>

Accepted == sent' = [sent EXCEPT ![note] = @ + 1]

CreatePost ==
  /\ stage = "post"
  /\ Accepted
  /\ stage' = "record"
  /\ tries' = 0
  /\ UNCHANGED <<posted, phase, dryRun, todo, note, tables, bounds, fates, gap,
                 unmarked, origins>>

\* Faulty: one call too many.
OneMore == tries = 0

LastCall == tries = 1

\* CreatePost returns an error, although the post may be out.  It is called
\* again until the attempts are used up; then the note is skipped.
CreateFails ==
  /\ stage = "post"
  /\ FailsInHandler
  /\ \/ Accepted /\ unmarked' = unmarked \cup {note}
     \/ UNCHANGED <<sent, unmarked>>
  /\ tries' = tries - 1
  /\ IF LastCall
     THEN stage' = "advance" /\ failed' = failed \cup {note}
     ELSE UNCHANGED <<stage, failed>>
  /\ UNCHANGED <<posted, phase, dryRun, todo, note, tables, handled, skipped,
                 gap, origins>>

Record ==
  /\ stage = "record"
  /\ processed' = processed \cup {note}
  /\ stage' = "advance"
  /\ UNCHANGED <<posted, phase, dryRun, todo, note, tries, cursor, bounds, sent,
                 fates, gap, unmarked, origins>>

\* The error of forward is logged, the cursor moves all the same.
RecordFails ==
  /\ stage = "record"
  /\ FailsInHandler
  /\ \/ processed' = processed \cup {note} /\ UNCHANGED unmarked
     \/ unmarked' = unmarked \cup {note} /\ UNCHANGED processed
  /\ stage' = "advance"
  /\ UNCHANGED <<posted, phase, dryRun, todo, note, tries, cursor, sent, fates,
                 gap, origins>>

\* Faulty: a dry run moves the cursor, too.
EvenInDryRun(n) == Larger(cursor, n)

\* advanceCursor
CursorAfter(n) == IF dryRun THEN cursor ELSE Larger(cursor, n)

AdvanceCursor ==
  /\ stage = "advance"
  /\ cursor' = CursorAfter(note)
  /\ handled' = IF dryRun THEN handled ELSE handled \cup {note}
  /\ Return
  /\ UNCHANGED <<posted, phase, dryRun, todo, processed, bounds, sent, failed,
                 skipped, gap, unmarked, origins>>

AdvanceFails ==
  /\ stage = "advance"
  /\ ~dryRun
  /\ FailsInHandler
  /\ cursor' \in {cursor, CursorAfter(note)}
  /\ handled' = handled \cup {note}
  /\ ReturnError
  /\ UNCHANGED <<posted, dryRun, processed, sent, failed, gap, unmarked, origins>>

-----------------------------------------------------------------------------
(* The end of the process.                                                 *)

InDoubt == IF stage = "record" THEN {note} ELSE {}

StopsNow ==
  /\ phase' = "down"
  /\ dryRun' = FALSE
  /\ todo' = <<>>
  /\ Return
  /\ unmarked' = unmarked \cup InDoubt
  /\ UNCHANGED <<posted, tables, failures, sent, fates, gap, origins>>

Crash ==
  /\ phase \notin {"down", "stopping"}
  /\ stops < MaxStops
  /\ stops' = stops + 1
  /\ StopsNow

\* A signal, which main waits for once everything is started: the watchers,
\* the clients and the store are closed while the worker goes on.
Shutdown ==
  /\ phase = "live"
  /\ stops < MaxStops
  /\ stops' = stops + 1
  /\ phase' = "stopping"
  /\ UNCHANGED <<posted, dryRun, todo, handler, tables, failures, sent, fates,
                 gap, unmarked, origins>>

\* os.Exit
Exit ==
  /\ phase = "stopping"
  /\ StopsNow
  /\ UNCHANGED stops

\* The container starts again, perhaps with another DRY_RUN.
Restart ==
  /\ phase = "down"
  /\ phase' = "starting"
  /\ dryRun' \in BOOLEAN
  /\ UNCHANGED <<posted, todo, handler, tables, bounds, sent, fates, gap,
                 unmarked, origins>>

Startup ==
  \/ Started \/ StartFails \/ GetCursor \/ InitCursor \/ FetchNotes
  \/ BackfillFails \/ BackfillDone

HandleNote ==
  \/ TakeNote \/ Lookup \/ LookupFails \/ UploadImages \/ UploadFails
  \/ CreatePost \/ CreateFails \/ Record \/ RecordFails
  \/ AdvanceCursor \/ AdvanceFails

Next ==
  \/ PostToStream \/ PostUnseen
  \/ Startup \/ HandleNote
  \/ Crash \/ Shutdown \/ Exit \/ Restart

\* Requests are answered or fail, the process runs and ends when it was told
\* to, the container is restarted.  Nothing obliges anybody to post.
Fairness ==
  /\ WF_vars(Startup)
  /\ WF_vars(HandleNote)
  /\ WF_vars(Exit)
  /\ WF_vars(Restart)

Spec == Init /\ [][Next]_vars /\ Fairness

-----------------------------------------------------------------------------
(* Correctness.                                                            *)

\* A note is posted twice only if one of its posts has no record: its answer
\* was lost, Record failed or the process stopped in between.  The batch, the
\* queue and the restarts repeat nothing else.
DuplicateOnlyInDoubt ==
  \A n \in Notes : sent[n] > 1 => n \in unmarked

\* Every variable has its type, and nothing is sent twice but in doubt.
Safe == TypeOK /\ DuplicateOnlyInDoubt

\* "At-least-once" has a limit: a process takes a note up once and calls
\* CreatePost for it as often as retry.DoDefault allows.  History has none
\* (Backfill's comment): the first run forwards nothing older than itself,
\* whatever request fails in it and whatever follows.
RepeatsBounded ==
  \A n \in Notes : sent[n] <= IF n <= initial THEN 0 ELSE Attempts * (1 + stops)

\* What is recorded was posted, and a forwardable note that was dealt with
\* was posted or has failed in all its attempts.
NoSilentLoss ==
  /\ \A n \in processed : sent[n] > 0
  /\ \A n \in handled \cap Forwardable : sent[n] > 0 \/ n \in failed

\* The cursor passes a note that was not handled only if no stream showed it,
\* its handler failed, or a backfill that was to catch up on it failed.  A dry
\* run handles nothing and must leave the cursor to the runs after it.
MissedOnlyInGap ==
  \A n \in start + 1 .. cursor : n \in handled \cup gap \cup failed \cup skipped

\* README: what was posted while the bridge was stopped is caught up on at the
\* start.  Here, once there is a cursor to start from: it does not pass such a
\* note unhandled, unless the handler of the note itself failed.
BackfillCatchesUp ==
  start # NoCursor =>
    \A n \in away : start < n /\ n <= cursor => n \in handled \cup failed

\* The promise of Forwarding: nothing recorded, and nothing the cursor has
\* passed, is posted again, whatever fails and whenever the process stops.
Bridge == INSTANCE Forwarding WITH
  Items <- Notes,
  copies <- sent,
  awaiting <- InDoubt,
  recorded <- processed,
  doubted <- unmarked,
  closed <- 1 .. cursor

ForwardingSpec == Bridge!Spec

\* A note that reached the process is handled in the end, across stops, unless
\* a request failed for it, or the bridge is run dry, or there was no cursor
\* yet and the restart counted as the first.
ReceivedIsHandled ==
  \A n \in Notes :
    n \in NotesIn(todo) \cup {note} ~>
      n \in handled \cup failed \cup skipped \/ n <= start \/ dryRun
=============================================================================
