------------------------------ MODULE Watcher ------------------------------
(***************************************************************************)
(* The Misskey watcher of the Go bridges (arona/shared/misskey/watcher.go): *)
(* a reader goroutine (connectLoop, connectOnce) that dials, subscribes and *)
(* pushes notes into a bounded channel, a worker goroutine that hands them  *)
(* to onNote one at a time, and Stop, called by a third.                    *)
(*                                                                         *)
(* w.mu guards `stopped` and w.conn; each critical section is one step, and *)
(* Stop may come between any two steps of the reader.  Notes are numbered   *)
(* in the order they are posted.                                            *)
(***************************************************************************)
EXTENDS Naturals, Sequences

CONSTANTS Capacity,  \* of the channel, 64 in the code
          MaxNote    \* bound: notes posted

ASSUME CapacityAssumption == Capacity \in Nat \ {0}
ASSUME BoundAssumption == MaxNote \in Nat

VARIABLES posted,      \* the newest note on Misskey
          reader,      \* where the reader is
          conn,        \* the reader's connection: "none", "open", "cut"
          registered,  \* w.conn is the reader's connection, not an old one
          wire,        \* notes that came down the connection, unread
          held,        \* the note the reader has read, 0 for none
          queue,       \* the channel
          handling,    \* the note onNote is at, 0 for none
          stopped

\* What an observer remembers of the run.
VARIABLES handed,  \* notes given to onNote, in order
          lost     \* notes posted unseen, cut with a connection or dropped

readerVars == <<reader, registered, held>>
vars == <<posted, readerVars, conn, wire, queue, handling, stopped, handed,
          lost>>

ReaderSteps == {"check", "dial", "adopt", "subscribe", "read", "gate", "push",
                "recheck", "sleep", "exited"}

\* What every field may hold; the channel never exceeds its capacity.
TypeOK ==
  /\ posted \in 0 .. MaxNote
  /\ reader \in ReaderSteps
  /\ conn \in {"none", "open", "cut"}
  /\ registered \in BOOLEAN
  /\ wire \in Seq(1 .. posted)
  /\ held \in 0 .. posted
  /\ queue \in Seq(1 .. posted)
  /\ Len(queue) <= Capacity
  /\ handling \in 0 .. posted
  /\ stopped \in BOOLEAN
  /\ handed \in Seq(1 .. posted)
  /\ lost \subseteq 1 .. posted
  \* The reader has a connection exactly between Dial and its deferred Close.
  /\ conn # "none" <=> reader \in {"adopt", "subscribe", "read", "gate", "push"}
  /\ held # 0 <=> reader \in {"gate", "push"}

NotesIn(s) == {s[i] : i \in 1 .. Len(s)}

Init ==
  /\ posted = 0
  /\ reader = "check"
  /\ conn = "none"
  /\ registered = FALSE
  /\ wire = <<>>
  /\ held = 0
  /\ queue = <<>>
  /\ handling = 0
  /\ stopped = FALSE
  /\ handed = <<>>
  /\ lost = {}

-----------------------------------------------------------------------------
(* Misskey and the network.                                                *)

Subscribed == conn = "open" /\ reader \in {"read", "gate", "push"}

Post ==
  /\ posted < MaxNote
  /\ posted' = posted + 1
  /\ IF Subscribed
     THEN wire' = Append(wire, posted + 1) /\ UNCHANGED lost
     ELSE lost' = lost \cup {posted + 1} /\ UNCHANGED wire
  /\ UNCHANGED <<readerVars, conn, queue, handling, stopped, handed>>

\* The connection ends: the reader still sees what it has buffered, the first
\* k notes, before it gets the error.
CutAfter(k) ==
  /\ conn' = "cut"
  /\ wire' = SubSeq(wire, 1, k)
  /\ lost' = lost \cup NotesIn(SubSeq(wire, k + 1, Len(wire)))

ServerCuts ==
  /\ conn = "open"
  /\ \E k \in 0 .. Len(wire) : CutAfter(k)
  /\ UNCHANGED <<posted, readerVars, queue, handling, stopped, handed>>

-----------------------------------------------------------------------------
(* connectLoop and connectOnce.                                            *)

\* for !w.isStopped()
CheckStopped ==
  /\ reader = "check"
  /\ reader' = IF stopped THEN "exited" ELSE "dial"
  /\ UNCHANGED <<posted, registered, held, conn, wire, queue, handling, stopped,
                 handed, lost>>

Dial ==
  /\ reader = "dial"
  /\ \/ reader' = "adopt" /\ conn' = "open"
     \/ reader' = "recheck" /\ UNCHANGED conn
  /\ UNCHANGED <<posted, registered, held, wire, queue, handling, stopped,
                 handed, lost>>

\* w.conn = conn, under the lock.
AdoptConnection ==
  /\ reader = "adopt"
  /\ reader' = "subscribe"
  /\ registered' = TRUE
  /\ UNCHANGED <<posted, held, conn, wire, queue, handling, stopped, handed, lost>>

\* connectOnce returns; its deferred Close takes what was not read.
Return ==
  /\ reader' = "recheck"
  /\ conn' = "none"
  /\ registered' = FALSE
  /\ wire' = <<>>
  /\ held' = 0
  /\ lost' = lost \cup NotesIn(wire) \cup ({held} \ {0})

\* WriteJSON(connectMsg): on a connection that was cut it may fail, or the
\* next read does.
Subscribe ==
  /\ reader = "subscribe"
  /\ \/ /\ reader' = "read"
        /\ UNCHANGED <<conn, registered, wire, held, lost>>
     \/ conn = "cut" /\ Return
  /\ UNCHANGED <<posted, queue, handling, stopped, handed>>

\* ReadJSON returns a note of the account's own; others are skipped.
ReadNote ==
  /\ reader = "read"
  /\ wire # <<>>
  /\ held' = Head(wire)
  /\ wire' = Tail(wire)
  /\ reader' = "gate"
  /\ UNCHANGED <<posted, registered, conn, queue, handling, stopped, handed, lost>>

ReadFails ==
  /\ reader = "read"
  /\ conn = "cut"
  /\ wire = <<>>
  /\ Return
  /\ UNCHANGED <<posted, queue, handling, stopped, handed>>

\* if w.isStopped() { return nil }
PassGate ==
  /\ reader = "gate"
  /\ IF stopped
     THEN Return
     ELSE /\ reader' = "push"
          /\ UNCHANGED <<conn, registered, wire, held, lost>>
  /\ UNCHANGED <<posted, queue, handling, stopped, handed>>

Pushed == Append(queue, held)

RoomToPush == Len(queue) < Capacity

\* Faulty: the send is a select with a default, which drops the note.
PushOrDrop ==
  /\ reader = "push"
  /\ queue' = IF Len(queue) < Capacity THEN Pushed ELSE queue
  /\ reader' = "read"
  /\ held' = 0
  /\ UNCHANGED <<posted, registered, conn, wire, handling, stopped, handed, lost>>

\* w.queue <- note blocks while the channel is full.
Push ==
  /\ reader = "push"
  /\ RoomToPush
  /\ queue' = Pushed
  /\ reader' = "read"
  /\ held' = 0
  /\ UNCHANGED <<posted, registered, conn, wire, handling, stopped, handed, lost>>

Recheck ==
  /\ reader = "recheck"
  /\ reader' = IF stopped THEN "exited" ELSE "sleep"
  /\ UNCHANGED <<posted, registered, held, conn, wire, queue, handling, stopped,
                 handed, lost>>

\* Faulty: the loop is left when a connection ends.
NoReconnect == "exited"

\* time.Sleep(reconnectDelay), then the loop's condition again.
AfterSleep == "check"

Sleep ==
  /\ reader = "sleep"
  /\ reader' = AfterSleep
  /\ UNCHANGED <<posted, registered, held, conn, wire, queue, handling, stopped,
                 handed, lost>>

-----------------------------------------------------------------------------
(* worker and Stop.                                                        *)

\* for note := range w.queue
TakeNote ==
  /\ handling = 0
  /\ queue # <<>>
  /\ handling' = Head(queue)
  /\ queue' = Tail(queue)
  /\ handed' = Append(handed, Head(queue))
  /\ UNCHANGED <<posted, readerVars, conn, wire, stopped, lost>>

\* onNote returns.  An error is only logged, so that the outcome is the same.
NoteDone ==
  /\ handling # 0
  /\ handling' = 0
  /\ UNCHANGED <<posted, readerVars, conn, wire, queue, stopped, handed,
                 lost>>

\* Stop closes the connection it knows of, which is not the one being dialled.
Stop ==
  /\ ~stopped
  /\ stopped' = TRUE
  /\ IF registered /\ conn = "open"
     THEN \E k \in 0 .. Len(wire) : CutAfter(k)
     ELSE UNCHANGED <<conn, wire, lost>>
  /\ UNCHANGED <<posted, readerVars, queue, handling, handed>>

ReaderStep ==
  \/ CheckStopped \/ Dial \/ AdoptConnection \/ Subscribe
  \/ ReadNote \/ ReadFails \/ PassGate \/ Push \/ Recheck \/ Sleep

WorkerStep == TakeNote \/ NoteDone

Next == Post \/ ServerCuts \/ ReaderStep \/ WorkerStep \/ Stop

\* The goroutines run, Dial and onNote return.  Nothing obliges anybody to
\* post, the server to cut a connection or the program to stop.
Fairness == WF_vars(ReaderStep) /\ WF_vars(WorkerStep)

Spec == Init /\ [][Next]_vars /\ Fairness

-----------------------------------------------------------------------------
(* Correctness.                                                            *)

\* Watcher's comment, "one at a time and in delivery order": no note is handed
\* over twice, nor after a newer one, across reconnections and a full channel;
\* and one is lost only when it was posted unseen, with its connection or because
\* of Stop: a full channel holds the reader back and drops nothing.
DeliveredInOrder ==
  /\ \A i, j \in 1 .. Len(handed) : i < j => handed[i] < handed[j]
  /\ 1 .. posted \subseteq
       lost \cup NotesIn(wire) \cup NotesIn(queue) \cup NotesIn(handed) \cup {held}

\* Whatever becomes of its connections, the reader goes on until Stop: after a
\* lost one it comes back to dial, and a note it has is handed over.
ReaderGoesOn ==
  /\ reader = "recheck" ~> reader = "dial" \/ stopped
  /\ \A n \in 1 .. MaxNote :
       held = n ~> n \in NotesIn(handed) \/ (stopped /\ n \in lost)
=============================================================================
