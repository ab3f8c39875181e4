---------------------------- MODULE MentionLink ----------------------------
(***************************************************************************)
(* misskey-mixi2-link, from mixi2 to Misskey: Client.Watch                  *)
(* (mixi2/client.go) with its reader and its worker, and Mixi2ToMisskey     *)
(* (bridge/mixi2_to_misskey.go).                                            *)
(*                                                                         *)
(* There is no cursor: mixi2 sends the event of a mention when the bridge   *)
(* listens, may send it again, and the record of what was forwarded is all  *)
(* that tells.  The posts are numbers above 0.                              *)
(***************************************************************************)
EXTENDS Naturals, Sequences

CONSTANTS Posts,       \* posts that mention the bot
          QueueSize,   \* of Watch's channel, 64 in the code
          MaxCalls,    \* calls that retry.DoDefault makes, 3 in the code
          OwnersPosts, \* posts of the owner with text or images, not deleted
          WithImages,  \* those of them that have images
          \* Bounds of the model:
          MaxSendings, \* events that mixi2 sends
          MaxFaults,   \* requests that fail
          MaxHalts     \* times the process stops

ASSUME MentionAssumption ==
  /\ Posts \subseteq Nat \ {0}
  /\ QueueSize \in Nat \ {0} /\ MaxCalls \in Nat \ {0}
  /\ WithImages \subseteq OwnersPosts /\ OwnersPosts \subseteq Posts
ASSUME MentionBounds ==
  MaxSendings \in Nat /\ MaxFaults \in Nat /\ MaxHalts \in Nat

VARIABLES process,   \* "down", "starting", "running" or "stopping"
          dry,       \* DRY_RUN of this process
          feed,      \* Watch: "connecting", "watching", "pausing" or "returned"
          arriving,  \* events on the stream
          inHand,    \* the post whose event the reader has, 0 for none
          backlog,   \* the channel
          post,      \* the post HandleMentionedPost is at, 0 for none
          step,      \* how far it has come
          calls,     \* calls of CreateNote it has left
          recorded,  \* bridged_posts of this direction
          sendings, faults, halts

\* What an observer remembers.
VARIABLES notes,     \* notes[p]: notes that Misskey accepted for p
          taken,     \* taken[p]: how often the worker took up p
          doubted,   \* posts with a note of which there is no record
          gone       \* posts whose event was given up or cut off, unless
                     \* one was read since

reading == <<feed, arriving, inHand>>
handler == <<post, step, calls>>
counts == <<sendings, faults, halts>>
mentionVars == <<process, dry, reading, backlog, handler, recorded,
                 counts, notes, taken, doubted, gone>>

MentionTypeOK ==
  /\ process \in {"down", "starting", "running", "stopping"}
  /\ dry \in BOOLEAN
  /\ feed \in {"connecting", "watching", "pausing", "returned"}
  /\ arriving \in Seq(Posts) /\ backlog \in Seq(Posts)
  /\ Len(backlog) <= QueueSize
  /\ inHand \in {0} \cup Posts /\ post \in {0} \cup Posts
  /\ step \in {"idle", "lookup", "images", "note", "record"}
  /\ calls \in 0 .. MaxCalls
  /\ recorded \subseteq Posts
  /\ sendings \in 0 .. MaxSendings
  /\ faults \in 0 .. MaxFaults /\ halts \in 0 .. MaxHalts
  /\ notes \in [Posts -> Nat] /\ taken \in [Posts -> Nat]
  /\ doubted \subseteq Posts /\ gone \subseteq Posts
  /\ post # 0 <=> step # "idle"
  /\ step = "note" => calls > 0

MentionInit ==
  /\ process = "starting" /\ dry \in BOOLEAN
  /\ feed = "connecting" /\ arriving = <<>> /\ inHand = 0
  /\ backlog = <<>>
  /\ post = 0 /\ step = "idle" /\ calls = 0
  /\ recorded = {}
  /\ sendings = 0 /\ faults = 0 /\ halts = 0
  /\ notes = [p \in Posts |-> 0] /\ taken = [p \in Posts |-> 0]
  /\ doubted = {} /\ gone = {}

PostsIn(s) == {s[i] : i \in 1 .. Len(s)}

-----------------------------------------------------------------------------
(* mixi2: events of posts that mention the bot.                             *)

\* An event is sent once, again, late, or never.
SendEvent ==
  /\ feed = "watching"
  /\ sendings < MaxSendings
  /\ sendings' = sendings + 1
  /\ \E p \in Posts : arriving' = Append(arriving, p)
  /\ UNCHANGED <<process, dry, feed, inHand, backlog, handler,
                 recorded, faults, halts, notes, taken, doubted, gone>>

-----------------------------------------------------------------------------
(* Watch.                                                                   *)

Connect ==
  /\ process = "running" /\ feed = "connecting"
  /\ feed' = "watching"
  /\ UNCHANGED <<process, dry, arriving, inHand, backlog, handler,
                 recorded, counts, notes, taken, doubted, gone>>

ReadEvent ==
  /\ process \in {"running", "stopping"} /\ feed = "watching"
  /\ inHand = 0 /\ arriving # <<>>
  /\ inHand' = Head(arriving)
  /\ arriving' = Tail(arriving)
  /\ gone' = gone \ {inHand'}
  /\ UNCHANGED <<process, dry, feed, backlog, handler, recorded,
                 counts, notes, taken, doubted>>

\* queue <- ev, which waits for room, also after the context is cancelled.
Enqueue ==
  /\ process \in {"running", "stopping"}
  /\ inHand # 0 /\ Len(backlog) < QueueSize
  /\ backlog' = Append(backlog, inHand)
  /\ inHand' = 0
  /\ UNCHANGED <<process, dry, feed, arriving, handler, recorded,
                 counts, notes, taken, doubted, gone>>

\* The SDK gives the stream up, which it notices between two events; what was
\* on its way is gone.  A failed connection comes to the same.
StreamEnds ==
  /\ process = "running" /\ feed \in {"connecting", "watching"}
  /\ inHand = 0
  /\ faults < MaxFaults /\ faults' = faults + 1
  /\ feed' = "pausing"
  /\ arriving' = <<>>
  /\ gone' = gone \cup PostsIn(arriving)
  /\ UNCHANGED <<process, dry, inHand, backlog, handler, recorded,
                 sendings, halts, notes, taken, doubted>>

\* Faulty: three attempts of the SDK are all there are.
NoMore == "returned"

\* time.After(reconnectDelay)
AfterPause == "connecting"

PauseOver ==
  /\ process = "running" /\ feed = "pausing"
  /\ feed' = AfterPause
  /\ UNCHANGED <<process, dry, arriving, inHand, backlog, handler,
                 recorded, counts, notes, taken, doubted, gone>>

\* The context is cancelled; the worker stays.
WatchReturns ==
  /\ process = "stopping" /\ feed # "returned" /\ inHand = 0
  /\ feed' = "returned"
  /\ arriving' = <<>>
  /\ gone' = gone \cup PostsIn(arriving)
  /\ UNCHANGED <<process, dry, inHand, backlog, handler, recorded,
                 counts, notes, taken, doubted>>

-----------------------------------------------------------------------------
(* HandleMentionedPost, called by the worker.                               *)

Idle == post' = 0 /\ step' = "idle" /\ calls' = 0

TakeEvent ==
  /\ process \in {"running", "stopping"}
  /\ step = "idle" /\ backlog # <<>>
  /\ post' = Head(backlog) /\ step' = "lookup"
  /\ backlog' = Tail(backlog)
  /\ taken' = [taken EXCEPT ![post'] = @ + 1]
  /\ UNCHANGED <<process, dry, reading, calls, recorded, counts, notes,
                 doubted, gone>>

\* Faulty: mixi2 is taken to send every event once.
NeverRecorded == FALSE

IsRecorded == post \in recorded

\* The owner's, not recorded, not empty, and no dry run.
LookUp ==
  /\ step = "lookup"
  /\ IF IsRecorded \/ post \notin OwnersPosts \/ dry
     THEN Idle
     ELSE /\ step' = IF post \in WithImages THEN "images" ELSE "note"
          /\ calls' = MaxCalls
          /\ UNCHANGED post
  /\ UNCHANGED <<process, dry, reading, backlog, recorded, counts,
                 notes, taken, doubted, gone>>

\* The shutdown has closed the store; Misskey's client has nothing to close.
Fault ==
  \/ /\ faults < MaxFaults /\ faults' = faults + 1
     /\ UNCHANGED <<sendings, halts>>
  \/ /\ process = "stopping" /\ step \in {"lookup", "record"}
     /\ UNCHANGED counts

\* The error is returned, and only logged: the event is gone.  For a post of
\* somebody else nothing is asked for that could fail.
GivesUp ==
  /\ step \in {"lookup", "images"} /\ post \in OwnersPosts
  /\ Fault
  /\ Idle
  /\ gone' = gone \cup {post}
  /\ UNCHANGED <<process, dry, reading, backlog, recorded, notes, taken,
                 doubted>>

\* Every image is fetched and uploaded, within the attempts it has.
ImagesUploaded ==
  /\ step = "images"
  /\ step' = "note"
  /\ UNCHANGED <<process, dry, reading, backlog, post, calls, recorded,
                 counts, notes, taken, doubted, gone>>

Created == notes' = [notes EXCEPT ![post] = @ + 1]

CreateNote ==
  /\ step = "note"
  /\ Created
  /\ step' = "record" /\ calls' = 0
  /\ UNCHANGED <<process, dry, reading, backlog, post, recorded, counts,
                 taken, doubted, gone>>

\* An error although the note may be there; the last one is returned.
NoteFails ==
  /\ step = "note"
  /\ Fault
  /\ \/ Created /\ doubted' = doubted \cup {post}
     \/ UNCHANGED <<notes, doubted>>
  /\ IF calls = 1
     THEN Idle /\ gone' = gone \cup {post}
     ELSE calls' = calls - 1 /\ UNCHANGED <<post, step, gone>>
  /\ UNCHANGED <<process, dry, reading, backlog, recorded, taken>>

RecordPost ==
  /\ step = "record"
  /\ recorded' = recorded \cup {post}
  /\ Idle
  /\ UNCHANGED <<process, dry, reading, backlog, counts, notes, taken,
                 doubted, gone>>

\* The insert may have been applied.
RecordFault ==
  /\ step = "record"
  /\ Fault
  /\ Idle
  /\ \/ recorded' = recorded \cup {post} /\ UNCHANGED doubted
     \/ doubted' = doubted \cup {post} /\ UNCHANGED recorded
  /\ UNCHANGED <<process, dry, reading, backlog, notes, taken, gone>>

-----------------------------------------------------------------------------
(* The process.                                                             *)

\* The backfill of the other direction is over: go mixi2Client.Watch.
Begin ==
  /\ process = "starting"
  /\ process' = "running"
  /\ UNCHANGED <<dry, reading, backlog, handler, recorded, counts,
                 notes, taken, doubted, gone>>

Signal ==
  /\ process = "running"
  /\ halts < MaxHalts /\ halts' = halts + 1
  /\ process' = "stopping"
  /\ UNCHANGED <<dry, reading, backlog, handler, recorded, sendings,
                 faults, notes, taken, doubted, gone>>

\* os.Exit, or a kill: nothing is drained.
Halt ==
  /\ \/ process = "stopping" /\ UNCHANGED halts
     \/ /\ process \in {"starting", "running"}
        /\ halts < MaxHalts /\ halts' = halts + 1
  /\ process' = "down"
  /\ gone' = gone \cup PostsIn(arriving) \cup PostsIn(backlog)
                  \cup ({inHand, post} \ {0})
  /\ doubted' = IF step = "record" THEN doubted \cup {post} ELSE doubted
  /\ feed' = "connecting" /\ arriving' = <<>> /\ inHand' = 0
  /\ backlog' = <<>>
  /\ Idle
  /\ UNCHANGED <<dry, recorded, sendings, faults, notes, taken>>

\* The container starts again, perhaps with another DRY_RUN.
StartAgain ==
  /\ process = "down"
  /\ process' = "starting"
  /\ dry' \in BOOLEAN
  /\ UNCHANGED <<reading, backlog, handler, recorded, counts, notes,
                 taken, doubted, gone>>

WatchStep == Connect \/ ReadEvent \/ Enqueue \/ PauseOver \/ WatchReturns
HandlerStep == TakeEvent \/ LookUp \/ GivesUp \/ ImagesUploaded \/ CreateNote
               \/ NoteFails \/ RecordPost \/ RecordFault
ProcessStep == Begin \/ (process = "stopping" /\ Halt) \/ StartAgain

MentionStep == \/ SendEvent
               \/ WatchStep \/ StreamEnds
               \/ HandlerStep
               \/ ProcessStep \/ Signal \/ Halt

\* The goroutines run, requests are answered or fail, the process comes up and
\* ends when told to.  Mixi2 has to send nothing.
MentionFairness == /\ WF_mentionVars(WatchStep)
                   /\ WF_mentionVars(HandlerStep)
                   /\ WF_mentionVars(ProcessStep)

MentionSpec == MentionInit /\ [][MentionStep]_mentionVars /\ MentionFairness

-----------------------------------------------------------------------------
(* Correctness.                                                             *)

\* README, the records prevent a second note when an event comes again or the
\* bridge restarts, "at-least-once": there is one only in doubt, at most
\* MaxCalls each time the post was taken up, and none of others' posts.  A
\* record is of a note that exists.
ForwardedOnce ==
  \A p \in Posts :
    /\ notes[p] > 1 => p \in doubted
    /\ notes[p] <= IF p \in OwnersPosts THEN MaxCalls * taken[p] ELSE 0
    /\ p \in recorded => notes[p] > 0

\* The promise of Forwarding, without a cursor: nothing recorded is ever posted
\* again, however often and however late its event comes.
Bridge == INSTANCE Forwarding WITH
  Items <- Posts,
  copies <- notes,
  awaiting <- IF step = "record" THEN {post} ELSE {},
  recorded <- recorded,
  doubted <- doubted,
  closed <- {}

ForwardingSpec == Bridge!Spec

\* Comment of HandleMentionedPost, "a failed forward is simply lost": only that.
\* An event that was read is forwarded in the end, in spite of a full channel
\* and of other posts that fail, and the bridge comes back to listen.
ReadIsForwarded ==
  /\ \A p \in OwnersPosts :
       p = inHand ~> p \in recorded \cup doubted \cup gone \/ dry
  /\ feed = "pausing" ~> feed = "watching" \/ process # "running"
=============================================================================
