--------------------------- MODULE ReminderPromise ---------------------------
(***************************************************************************)
(* What the reminder feature promises its users, independent of timers,    *)
(* database rows and restarts: a reservation is open until it comes due or *)
(* an administrator withdraws it, a due reservation is posted at most      *)
(* once, and a withdrawn one never is.  A restart may forfeit only         *)
(* reservations whose posting has begun, never one still waiting.          *)
(***************************************************************************)
EXTENDS Naturals, FiniteSets

CONSTANTS Ids,        \* the names reservations are given, each used once
          Users, Guilds,
          Times,      \* the instants a reservation may be made for
          MaxPending  \* open reservations a user may have

VARIABLES clock,     \* the wall clock
          issued,    \* ids of the reservations accepted so far
          open,      \* reservations waiting: [id, guild, user, fireAt]
          posting,   \* ids of due reservations whose message is on its way
          posts,     \* id -> how many messages were posted for it
          withdrawn  \* ids an administrator was told are cancelled

vars == <<clock, issued, open, posting, posts, withdrawn>>

OpenOf(u) == {r \in open : r.user = u}

Init ==
  /\ clock = 0
  /\ issued = {}
  /\ open = {}
  /\ posting = {}
  /\ posts = [i \in Ids |-> 0]
  /\ withdrawn = {}

TimePasses ==
  /\ clock' = clock + 1
  /\ UNCHANGED <<issued, open, posting, posts, withdrawn>>

\* A user with fewer than MaxPending open reservations makes one more, for
\* now or later, under a name no reservation had before.
Reserve(i, g, u, fireAt) ==
  /\ i \notin issued
  /\ Cardinality(OpenOf(u)) < MaxPending
  /\ fireAt >= clock
  /\ issued' = issued \cup {i}
  /\ open' = open \cup
                {[id |-> i, guild |-> g, user |-> u, fireAt |-> fireAt]}
  /\ UNCHANGED <<clock, posting, posts, withdrawn>>

\* Only a reservation whose time has come leaves the list to be posted.
ComeDue(r) ==
  /\ r.fireAt <= clock
  /\ open' = open \ {r}
  /\ posting' = posting \cup {r.id}
  /\ UNCHANGED <<clock, issued, posts, withdrawn>>

\* A due reservation that has nowhere to be posted is given up.
Forfeit(r) ==
  /\ r.fireAt <= clock
  /\ open' = open \ {r}
  /\ UNCHANGED <<clock, issued, posting, posts, withdrawn>>

Post(i) ==
  /\ posts[i] = 0
  /\ posts' = [posts EXCEPT ![i] = 1]
  /\ posting' = posting \ {i}
  /\ UNCHANGED <<clock, issued, open, withdrawn>>

\* Messages are refused, or the process stops before they are posted.
Lose(S) ==
  /\ posting' = posting \ S
  /\ UNCHANGED <<clock, issued, open, posts, withdrawn>>

Withdraw(r) ==
  /\ open' = open \ {r}
  /\ withdrawn' = withdrawn \cup {r.id}
  /\ UNCHANGED <<clock, issued, posting, posts>>

Next ==
  \/ TimePasses
  \/ \E i \in Ids, g \in Guilds, u \in Users, fireAt \in Times :
       Reserve(i, g, u, fireAt)
  \/ \E r \in open : ComeDue(r) \/ Forfeit(r) \/ Withdraw(r)
  \/ \E i \in posting : Post(i)
  \/ \E S \in SUBSET posting : Lose(S)

Spec == Init /\ [][Next]_vars
=============================================================================
