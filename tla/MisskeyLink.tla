---------------------------- MODULE MisskeyLink ----------------------------
(***************************************************************************)
(* The Misskey forwarding of discord-bot/connect: Bridge and               *)
(* registerMisskeyLink (server/features/misskeylink.ts), MisskeyClient and *)
(* MisskeyWatcher (server/misskey.server.ts), the cursor and the           *)
(* forwarded_notes table (server/store.server.ts).                         *)
(*                                                                         *)
(* Notes are numbered in the order the operator posts them, which is the   *)
(* order of their ids.  The cursor, the marks and the settings are in      *)
(* SQLite and survive a crash, which may fall between any two statements:  *)
(* so a handler's database writes are steps of their own.                  *)
(***************************************************************************)
EXTENDS Naturals, Sequences, FiniteSets

CONSTANTS Guilds,
          NoGuild,     \* no send is in flight
          Tagged,      \* note -> guilds whose hashtag makes it forwardable
          FetchLimit,  \* how many notes one users/notes request returns
          \* Bounds of the model:
          MaxNote,     \* notes the operator posts
          MaxCrashes,  \* times the process stops
          MaxDrops     \* times the stream is cut

Notes == 1 .. MaxNote

ASSUME GuildAssumption == NoGuild \notin Guilds
ASSUME TaggedAssumption == Tagged \in [Notes -> SUBSET Guilds]
ASSUME LimitAssumption == FetchLimit \in Nat \ {0}
ASSUME BoundAssumption == /\ MaxNote \in Nat
                          /\ MaxCrashes \in Nat
                          /\ MaxDrops \in Nat

VARIABLES posted,     \* the newest note on Misskey
          phase,      \* how far ClientReady's handler has come
          conn,       \* the stream: "none", "connecting", "subscribed"
          wire,       \* notes on their way down the stream
          todo,       \* notes to handle: the fetched batch, then the chain
          note,       \* the note handleNote is at, 0 for none
          left,       \* guilds of its listEnabled it has yet to serve
          dest,       \* the guild its send in flight goes to
          accepted,   \* Discord has accepted that send
          enabled,    \* guild -> is the link on (guild_settings)
          cursor,     \* cursors table, NoCursor for null
          forwarded,  \* forwarded_notes table
          crashes, drops

\* What an observer remembers of the run.
VARIABLES sent,       \* note -> guild -> messages Discord accepted
          handled,    \* notes handleNote has finished with
          initial,    \* the newest note when the bot first started
          start,      \* where the cursor was when it was initialised
          gap,        \* notes posted where neither the fetch nor the stream looks
          unmarked    \* pairs posted whose mark was not written

bridgeVars == <<todo, note, left, dest, accepted>>
tables == <<enabled, cursor, forwarded>>
bounds == <<crashes, drops>>
vars == <<posted, phase, conn, wire, bridgeVars, tables, bounds,
          sent, handled, initial, start, gap, unmarked>>

NoCursor == 0
Phases == {"down", "resolving", "init", "fetching", "backfill", "live", "dead"}

TypeOK ==
  /\ posted \in 0 .. MaxNote
  /\ phase \in Phases
  /\ conn \in {"none", "connecting", "subscribed"}
  /\ wire \in Seq(1 .. posted)
  /\ todo \in Seq(1 .. posted)
  /\ note \in 0 .. posted
  /\ left \subseteq Guilds
  /\ dest \in Guilds \cup {NoGuild}
  /\ accepted \in BOOLEAN
  /\ enabled \in [Guilds -> BOOLEAN]
  /\ cursor \in 0 .. posted
  /\ forwarded \subseteq (1 .. posted) \X Guilds
  /\ crashes \in 0 .. MaxCrashes
  /\ drops \in 0 .. MaxDrops
  /\ sent \in [Notes -> [Guilds -> Nat]]
  /\ handled \subseteq 1 .. posted
  /\ initial \in 0 .. posted
  /\ start \in 0 .. posted
  /\ gap \subseteq 1 .. posted
  /\ unmarked \subseteq (1 .. posted) \X Guilds
  \* A watcher exists exactly when startup went through.
  /\ phase = "live" <=> conn # "none"

NotesIn(s) == {s[i] : i \in 1 .. Len(s)}
Larger(a, b) == IF a >= b THEN a ELSE b
Smaller(a, b) == IF a <= b THEN a ELSE b

-----------------------------------------------------------------------------
\* The bot starts for the first time: some notes exist already, none was
\* forwarded, there is no cursor.
Init ==
  /\ posted \in 0 .. MaxNote
  /\ phase = "resolving"
  /\ conn = "none"
  /\ wire = <<>>
  /\ todo = <<>>
  /\ note = 0
  /\ left = {}
  /\ dest = NoGuild
  /\ accepted = FALSE
  /\ enabled \in [Guilds -> BOOLEAN]
  /\ cursor = NoCursor
  /\ forwarded = {}
  /\ crashes = 0
  /\ drops = 0
  /\ sent = [n \in Notes |-> [g \in Guilds |-> 0]]
  /\ handled = {}
  /\ initial = posted
  /\ start = 0
  /\ gap = {}
  /\ unmarked = {}

-----------------------------------------------------------------------------
(* Misskey: the operator posts; the stream carries the note to whoever is  *)
(* subscribed at that moment.                                              *)

PostToStream ==
  /\ posted < MaxNote
  /\ conn = "subscribed"
  /\ posted' = posted + 1
  /\ wire' = Append(wire, posted + 1)
  /\ UNCHANGED <<phase, conn, bridgeVars, tables, bounds, sent, handled,
                 initial, start, gap, unmarked>>

\* Nobody is subscribed.  A fetch that is still to come will find the note;
\* once the batch is fetched, only the stream could.
PostUnseen ==
  /\ posted < MaxNote
  /\ conn # "subscribed"
  /\ posted' = posted + 1
  /\ gap' = IF phase \in {"backfill", "live"} THEN gap \cup {posted + 1} ELSE gap
  /\ UNCHANGED <<phase, conn, wire, bridgeVars, tables, bounds, sent, handled,
                 initial, start, unmarked>>

-----------------------------------------------------------------------------
(* ClientReady: resolveUserId, backfill, then the watcher.                 *)

\* Faulty: with a cursor, startup ends without a batch and without a watcher.
ReturnEarly == IF cursor = NoCursor THEN "init" ELSE "live"

\* backfill begins by reading the cursor.
AfterResolve == IF cursor = NoCursor THEN "init" ELSE "fetching"

Resolve ==
  /\ phase = "resolving"
  /\ phase' = AfterResolve
  /\ UNCHANGED <<posted, conn, wire, bridgeVars, tables, bounds, sent, handled,
                 initial, start, gap, unmarked>>

\* First start: fetchLatestNote, and the cursor jumps to it if there is one.
InitCursor ==
  /\ phase = "init"
  /\ phase' = "backfill"
  /\ cursor' = posted
  /\ start' = posted
  /\ UNCHANGED <<posted, conn, wire, bridgeVars, enabled, forwarded, bounds,
                 sent, handled, initial, gap, unmarked>>

\* users/notes with sinceId: the oldest FetchLimit notes after the cursor.
Fetched == cursor + 1 .. Smaller(posted, cursor + FetchLimit)

\* Faulty: keep an answer that lists the newest note first.
NewestFirst == [i \in 1 .. Cardinality(Fetched) |->
                  cursor + Cardinality(Fetched) + 1 - i]

\* Faulty: sinceId is taken to be left out of the answer, and is not.
FromCursor == [i \in 1 .. Cardinality(Fetched) |-> cursor + i - 1]

\* fetchUserNotes sorts the answer by id.
Batch == [i \in 1 .. Cardinality(Fetched) |-> cursor + i]

FetchNotes ==
  /\ phase = "fetching"
  /\ phase' = "backfill"
  /\ todo' = Batch
  /\ UNCHANGED <<posted, conn, wire, note, left, dest, accepted, tables, bounds,
                 sent, handled, initial, start, gap, unmarked>>

\* A request to Misskey throws.  The error is logged and the watcher of this
\* process is never started.
StartupFails ==
  /\ phase \in {"resolving", "init", "fetching"}
  /\ phase' = "dead"
  /\ UNCHANGED <<posted, conn, wire, bridgeVars, tables, bounds, sent, handled,
                 initial, start, gap, unmarked>>

\* The batch is handled to its end; new MisskeyWatcher(...).start().
StartWatcher ==
  /\ phase = "backfill"
  /\ todo = <<>>
  /\ note = 0
  /\ phase' = "live"
  /\ conn' = "connecting"
  /\ UNCHANGED <<posted, wire, bridgeVars, tables, bounds, sent, handled,
                 initial, start, gap, unmarked>>

-----------------------------------------------------------------------------
(* MisskeyWatcher.                                                         *)

\* The socket opens and the subscription to homeTimeline takes effect.
Subscribe ==
  /\ conn = "connecting"
  /\ conn' = "subscribed"
  /\ UNCHANGED <<posted, phase, wire, bridgeVars, tables, bounds, sent, handled,
                 initial, start, gap, unmarked>>

\* onmessage: the note joins the chain of handlers.
Receive ==
  /\ wire # <<>>
  /\ todo' = Append(todo, Head(wire))
  /\ wire' = Tail(wire)
  /\ UNCHANGED <<posted, phase, conn, note, left, dest, accepted, tables,
                 bounds, sent, handled, initial, start, gap, unmarked>>

\* onclose: another connection 3 s later.  What was on the wire is gone.
StreamCloses ==
  /\ conn = "subscribed"
  /\ drops < MaxDrops
  /\ drops' = drops + 1
  /\ conn' = "connecting"
  /\ wire' = <<>>
  /\ gap' = gap \cup NotesIn(wire)
  /\ UNCHANGED <<posted, phase, bridgeVars, tables, crashes, sent, handled,
                 initial, start, unmarked>>

-----------------------------------------------------------------------------
(* handleNote, one note at a time.                                         *)

\* listEnabled is read once, at the start; shouldForwardNote filters it.
TakeNote ==
  /\ phase \in {"backfill", "live"}
  /\ note = 0
  /\ todo # <<>>
  /\ note' = Head(todo)
  /\ todo' = Tail(todo)
  /\ left' = {g \in Tagged[Head(todo)] : enabled[g]}
  /\ UNCHANGED <<posted, phase, conn, wire, dest, accepted, tables, bounds,
                 sent, handled, initial, start, gap, unmarked>>

\* Faulty: a note is not looked up before it is sent.
NeverForwarded(n, g) == FALSE

IsForwarded(n, g) == <<n, g>> \in forwarded

\* The guild has the note, or its channel is gone: on to the next guild.
SkipGuild(g) ==
  /\ dest = NoGuild
  /\ left' = left \ {g}
  /\ UNCHANGED <<posted, phase, conn, wire, todo, note, dest, accepted, tables,
                 bounds, sent, handled, initial, start, gap, unmarked>>

StartSend(g) ==
  /\ dest = NoGuild
  /\ ~IsForwarded(note, g)
  /\ dest' = g
  /\ accepted' = FALSE
  /\ left' = left \ {g}
  /\ UNCHANGED <<posted, phase, conn, wire, todo, note, tables, bounds, sent,
                 handled, initial, start, gap, unmarked>>

DiscordPosts ==
  /\ dest # NoGuild
  /\ ~accepted
  /\ accepted' = TRUE
  /\ sent' = [sent EXCEPT ![note][dest] = @ + 1]
  /\ UNCHANGED <<posted, phase, conn, wire, todo, note, left, dest, tables,
                 bounds, handled, initial, start, gap, unmarked>>

\* channel.send resolves and the pair is marked.
SendSucceeds ==
  /\ dest # NoGuild
  /\ accepted
  /\ forwarded' = forwarded \cup {<<note, dest>>}
  /\ dest' = NoGuild
  /\ UNCHANGED <<posted, phase, conn, wire, todo, note, left, accepted, enabled,
                 cursor, bounds, sent, handled, initial, start, gap, unmarked>>

\* The pair whose message is out and whose mark is not.
InDoubt == IF dest # NoGuild /\ accepted THEN {<<note, dest>>} ELSE {}

\* channel.send throws, although the message may be out: logged, next guild.
SendFails ==
  /\ dest # NoGuild
  /\ unmarked' = unmarked \cup InDoubt
  /\ dest' = NoGuild
  /\ UNCHANGED <<posted, phase, conn, wire, todo, note, left, accepted, tables,
                 bounds, sent, handled, initial, start, gap>>

\* Faulty: one write for all the notes received so far.
CursorToLast(n) == IF todo = <<>> THEN Larger(cursor, n)
                   ELSE Larger(cursor, todo[Len(todo)])

\* if (cursor === null || cursor < note.id) setCursor(note.id)
CursorAfter(n) == Larger(cursor, n)

\* Every guild was served, skipped or failed: the cursor moves all the same.
FinishNote ==
  /\ note # 0
  /\ left = {}
  /\ dest = NoGuild
  /\ cursor' = CursorAfter(note)
  /\ note' = 0
  /\ handled' = handled \cup {note}
  /\ UNCHANGED <<posted, phase, conn, wire, todo, left, dest, accepted, enabled,
                 forwarded, bounds, sent, initial, start, gap, unmarked>>

-----------------------------------------------------------------------------
\* An administrator switches the link of a guild on or off.
SetEnabled(g, on) ==
  /\ phase # "down"
  /\ enabled' = [enabled EXCEPT ![g] = on]
  /\ UNCHANGED <<posted, phase, conn, wire, bridgeVars, cursor, forwarded,
                 bounds, sent, handled, initial, start, gap, unmarked>>

Crash ==
  /\ phase # "down"
  /\ crashes < MaxCrashes
  /\ crashes' = crashes + 1
  /\ phase' = "down"
  /\ conn' = "none"
  /\ wire' = <<>>
  /\ todo' = <<>>
  /\ note' = 0
  /\ left' = {}
  /\ dest' = NoGuild
  /\ accepted' = FALSE
  /\ unmarked' = unmarked \cup InDoubt
  /\ UNCHANGED <<posted, tables, drops, sent, handled, initial, start, gap>>

\* The container is restarted and the bot becomes ready.
Restart ==
  /\ phase = "down"
  /\ phase' = "resolving"
  /\ UNCHANGED <<posted, conn, wire, bridgeVars, tables, bounds, sent, handled,
                 initial, start, gap, unmarked>>

Startup == Resolve \/ InitCursor \/ FetchNotes \/ StartupFails
Handling ==
  \/ TakeNote
  \/ \E g \in left : SkipGuild(g) \/ StartSend(g)
  \/ SendSucceeds
  \/ SendFails
  \/ FinishNote

Next ==
  \/ PostToStream \/ PostUnseen
  \/ Startup
  \/ StartWatcher
  \/ Subscribe \/ Receive \/ StreamCloses
  \/ Handling
  \/ DiscordPosts
  \/ \E g \in Guilds, on \in BOOLEAN : SetEnabled(g, on)
  \/ Crash
  \/ Restart

\* Requests are answered or fail, the handler runs on, the container is
\* restarted.  Nothing obliges anybody to post.
Fairness ==
  /\ WF_vars(Startup)
  /\ WF_vars(StartWatcher)
  /\ WF_vars(Handling)
  /\ WF_vars(Restart)

Spec == Init /\ [][Next]_vars /\ Fairness

-----------------------------------------------------------------------------
(* Correctness.                                                            *)

\* A guild gets a note twice only if its first message went out and the mark
\* did not: the answer was lost, or the process stopped in between.  A crash
\* anywhere else, with some guilds served and others not, repeats nothing.
DuplicateOnlyInDoubt ==
  \A n \in Notes, g \in Guilds : sent[n][g] > 1 => <<n, g>> \in unmarked

\* Every variable has its type, and nothing is sent twice but in doubt.
Safe == TypeOK /\ DuplicateOnlyInDoubt

\* No message goes out about a note the cursor has passed: what was finished,
\* in this process or an earlier one, is never taken up again.  Nor about a note
\* older than the first start (README of connect, on Misskey forwarding),
\* whatever fails and restarts afterwards.
OldNotesStaySilent ==
  [][\A n \in Notes : sent'[n] # sent[n] => n > cursor /\ n > initial]_vars

\* The cursor passes a note that was not handled only if the note was posted
\* while the bot ran and was not subscribed.  In particular every note posted
\* while the bot was stopped, or received before a crash, is handled.
MissedOnlyInGap ==
  \A n \in start + 1 .. cursor : n \in handled \cup gap

\* The promise of Forwarding for a note to a guild, whose record is its mark:
\* nothing marked, and nothing the cursor has passed, is sent again, and nothing
\* is marked without a message, whatever is cut off, restarted or posted between.
Pairs == Notes \X Guilds
Copies == [p \in Pairs |-> sent[p[1]][p[2]]]
Passed == {p \in Pairs : p[1] <= cursor}

Bridge == INSTANCE Forwarding WITH
  Items <- Pairs,
  copies <- Copies,
  awaiting <- InDoubt,
  recorded <- forwarded,
  doubted <- unmarked,
  closed <- Passed

ForwardingSpec == Bridge!Spec

\* A note that reached the bot is handled in the end, across crashes, unless
\* the link is dead because Misskey failed a request at startup, or the crash
\* came before there was a cursor and the restart counted as the first one.
ReceivedIsHandled ==
  \A n \in Notes :
    n \in NotesIn(todo) \cup {note} ~>
      n \in handled \/ phase = "dead" \/ n <= start
=============================================================================
