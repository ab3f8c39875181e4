----------------------------- MODULE Forwarding -----------------------------
(***************************************************************************)
(* What a bridge promises of the table in which it records what it has     *)
(* forwarded, whatever fails in it and however often it is started: at     *)
(* least once, which is a second time only when nobody can know of the     *)
(* first, and never again what is recorded or done with.  The three        *)
(* bridges (MisskeyLink, Mixi2Link, MentionLink) implement it.             *)
(***************************************************************************)
EXTENDS Naturals

CONSTANT Items  \* what is forwarded: notes, posts, or a note to a guild

VARIABLES copies,    \* item -> how often the other side has accepted it
          awaiting,  \* items whose acceptance the bridge was told of and
                     \* has not recorded yet
          recorded,  \* the table
          doubted,   \* items accepted at some time without a record of it
          closed     \* items the bridge has moved on from for good

vars == <<copies, awaiting, recorded, doubted, closed>>

Init ==
  /\ copies = [i \in Items |-> 0]
  /\ awaiting = {}
  /\ recorded = {}
  /\ doubted = {}
  /\ closed = {}

\* Only what is neither recorded, nor about to be, nor closed is forwarded,
\* and for another time only what is in doubt.
Forward(i) ==
  /\ i \notin recorded \cup awaiting \cup closed
  /\ copies[i] > 0 => i \in doubted
  /\ copies' = [copies EXCEPT ![i] = @ + 1]

Answered(i) ==
  /\ Forward(i)
  /\ awaiting' = awaiting \cup {i}
  /\ UNCHANGED <<recorded, doubted, closed>>

\* The other side has the item, but its answer is lost.
Unanswered(i) ==
  /\ Forward(i)
  /\ doubted' = doubted \cup {i}
  /\ UNCHANGED <<awaiting, recorded, closed>>

Record(i) ==
  /\ i \in awaiting
  /\ awaiting' = awaiting \ {i}
  /\ recorded' = recorded \cup {i}
  /\ UNCHANGED <<copies, doubted, closed>>

\* The record fails, or the process stops before it is made.
LoseTrack(i) ==
  /\ i \in awaiting
  /\ awaiting' = awaiting \ {i}
  /\ doubted' = doubted \cup {i}
  /\ UNCHANGED <<copies, recorded, closed>>

\* The bridge moves on, from items that were forwarded and from others, but
\* not while one of them is about to be recorded.
Close(S) ==
  /\ closed' = closed \cup S
  /\ UNCHANGED <<copies, awaiting, recorded, doubted>>

Next ==
  \/ \E i \in Items :
       Answered(i) \/ Unanswered(i) \/ Record(i) \/ LoseTrack(i)
  \/ \E S \in SUBSET (Items \ awaiting) : Close(S)

Spec == Init /\ [][Next]_vars
=============================================================================
