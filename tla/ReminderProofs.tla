--------------------------- MODULE ReminderProofs ---------------------------
(***************************************************************************)
(* Proofs about Reminder, for any users, guilds, limits and bounds.        *)
(*                                                                         *)
(* The inductive invariant IInv says where the life of an id stands: it    *)
(* was issued, it is in at most one of the table, the sends in flight and  *)
(* the cancelled ones, and every timer that bears it was set for the very  *)
(* row that still bears it.  The last part rests on AUTOINCREMENT and is   *)
(* what keeps a timer of a cancelled row from firing a later one.          *)
(***************************************************************************)
EXTENDS Reminder, TLAPS

\* No id at large is beyond the largest one given out.
Issued ==
  /\ \A r \in reminders : r.id <= lastId
  /\ \A t \in timers : t.row.id <= lastId
  /\ \A s \in sending : s.row.id <= lastId
  /\ \A i \in cancelled : i <= lastId
  /\ \A i \in Ids : i > lastId => posts[i] = 0

\* A live id names one row, and timers and rows agree about it.
RowsUnique == \A r, q \in reminders : r.id = q.id => r = q
TimersMatch == \A t \in timers, r \in reminders : t.row.id = r.id => t.row = r

\* A timer that is to fire is not set for an instant before fireAt.
TimersNotEarly == \A t \in timers : t.then = "fire" => t.row.fireAt <= t.due

\* Taking a row is final: it is gone from the table, and it is sent once.
TakenOnce ==
  /\ \A r \in reminders : posts[r.id] = 0
  /\ \A s \in sending : RowsWith(s.row.id) = {}
  /\ \A s, z \in sending : s.row.id = z.row.id => s = z
  /\ \A s \in sending : ~s.posted => posts[s.row.id] = 0

\* Timers belong to a process that is ready; before that there are none.
TimersOfReady == phase # "ready" => timers = {} /\ sending = {}

IInv ==
  /\ TypeOK
  /\ Issued
  /\ RowsUnique
  /\ TimersMatch
  /\ TimersNotEarly
  /\ TakenOnce
  /\ TimersOfReady
  /\ AtMostOnce
  /\ NeverEarly
  /\ CancelledStaysSilent
  /\ EveryRowTimed

-----------------------------------------------------------------------------
(* Lemmas about schedule and the table's operators.                        *)

\* schedule sets a timer for the row it was given that wakes by fireAt, or at
\* once, and that does not call fire before fireAt.
LEMMA ScheduleOK ==
  ASSUME now \in Times, NEW row \in Row
  PROVE  /\ Schedule(row) \in Timer
         /\ Schedule(row).row = row
         /\ Schedule(row).due <= Larger(row.fireAt, now)
         /\ Schedule(row).then = "fire" => row.fireAt <= Schedule(row).due
<1>. USE LimitAssumption, BoundAssumption DEF Times, Timer, SetTimeout
<1>1. row.fireAt \in Times
  BY DEF Row
<1>2. CASE row.fireAt > now + MaxTimeout
  <2>1. Schedule(row) = [row |-> row, due |-> now + MaxTimeout, then |-> "schedule"]
    BY <1>2 DEF Schedule
  <2>. QED  BY <1>1, <1>2, <2>1 DEF Larger
<1>3. CASE /\ ~(row.fireAt > now + MaxTimeout)
           /\ row.fireAt > now
  <2>1. row.fireAt - now <= MaxTimeout /\ now + (row.fireAt - now) = row.fireAt
    BY <1>1, <1>3
  <2>2. Schedule(row) = [row |-> row, due |-> row.fireAt, then |-> "fire"]
    BY <1>1, <1>3, <2>1 DEF Schedule
  <2>. QED  BY <1>1, <1>3, <2>2 DEF Larger
<1>4. CASE /\ ~(row.fireAt > now + MaxTimeout)
           /\ ~(row.fireAt > now)
  <2>1. Schedule(row) = [row |-> row, due |-> now, then |-> "fire"]
    BY <1>1, <1>4 DEF Schedule
  <2>. QED  BY <1>1, <1>4, <2>1 DEF Larger
<1>. QED  BY <1>2, <1>3, <1>4

\* A new id is fresh: larger than every one given out.
LEMMA NewIdFresh ==
  ASSUME TypeOK, NewId <= MaxId
  PROVE  NewId \in Ids /\ NewId > lastId /\ Larger(lastId, NewId) = NewId
BY BoundAssumption DEF TypeOK, NewId, Ids, Larger

-----------------------------------------------------------------------------
(* Type correctness.                                                       *)

\* The state the bot is first started in is well typed.
LEMMA TypeInit == Init => TypeOK
BY BoundAssumption DEF Init, TypeOK, Times, Ids

\* Every step keeps the state well typed; in particular no timer is ever set
\* for an instant beyond the fireAt its row may have.
LEMMA TypeNext ==
  ASSUME TypeOK, [Next]_vars
  PROVE  TypeOK'
<1>. USE BoundAssumption DEF TypeOK
<1>1. CASE Tick
  BY <1>1 DEF Tick, Times
<1>2. CASE Start
  BY <1>2 DEF Start
<1>3. CASE ClientReady
  BY <1>3, ScheduleOK DEF ClientReady, ScheduledAtReady
<1>4. ASSUME NEW u \in Users, NEW g \in Guilds, NEW fireAt \in Times,
             Remind(u, g, fireAt)
      PROVE  TypeOK'
  <2>. DEFINE row == [id |-> NewId, guild |-> g, user |-> u, fireAt |-> fireAt]
  <2>1. NewId \in Ids /\ Larger(lastId, NewId) = NewId
    BY <1>4, NewIdFresh DEF Remind
  <2>2. row \in Row
    BY <2>1 DEF Row
  <2>3. Schedule(row) \in Timer
    BY <2>2, ScheduleOK
  <2>. QED  BY <1>4, <2>1, <2>2, <2>3 DEF Remind, Ids
<1>5. ASSUME NEW t \in timers, Reschedule(t)
      PROVE  TypeOK'
  <2>1. t.row \in Row
    BY DEF Timer
  <2>2. Schedule(t.row) \in Timer
    BY <2>1, ScheduleOK
  <2>. QED  BY <1>5, <2>2 DEF Reschedule
<1>6. ASSUME NEW t \in timers, Fire(t)
      PROVE  TypeOK'
  <2>1. {[row |-> r, posted |-> FALSE] : r \in TakenRow(t)} \subseteq Send
    <3>1. TakenRow(t) \subseteq Row
      BY DEF TakenRow, RowsWith
    <3>2. \A r \in Row : [row |-> r, posted |-> FALSE] \in Send
      BY DEF Send
    <3>. QED  BY <3>1, <3>2
  <2>2. LeftByTake(t.row.id) \subseteq Row
    BY DEF LeftByTake
  <2>3. sending' \subseteq Send
    BY <1>6, <2>1 DEF Fire
  <2>. QED  BY <1>6, <2>2, <2>3 DEF Fire
<1>7. ASSUME NEW s \in sending, DiscordPosts(s)
      PROVE  TypeOK'
  <2>1. s \in Send /\ s.row.id \in Ids
    BY DEF Send, Row
  <2>2. [s EXCEPT !.posted = TRUE] \in Send
    BY <2>1 DEF Send
  <2>3. posts' \in [Ids -> Nat]
    BY <1>7, <2>1 DEF DiscordPosts
  <2>. QED  BY <1>7, <2>2, <2>3 DEF DiscordPosts
<1>8. ASSUME NEW s \in sending, SendSettles(s)
      PROVE  TypeOK'
  BY <1>8 DEF SendSettles
<1>9. ASSUME NEW i \in Ids, NEW g \in Guilds, DeleteReminder(i, g)
      PROVE  TypeOK'
  BY <1>9 DEF DeleteReminder, Deleted, RowsWith, Row
<1>10. ASSUME NEW g \in Guilds, NEW on \in BOOLEAN, SetEnabled(g, on)
       PROVE  TypeOK'
  BY <1>10 DEF SetEnabled
<1>11. CASE Crash
  BY <1>11 DEF Crash
<1>12. CASE UNCHANGED vars
  BY <1>12 DEF vars
<1>. QED
  BY <1>1, <1>2, <1>3, <1>4, <1>5, <1>6, <1>7, <1>8, <1>9, <1>10, <1>11, <1>12
     DEF Next, TimerRuns, SendProgresses

-----------------------------------------------------------------------------
(* The inductive invariant, one lemma per action that moves a row.         *)

\* At the first start there is nothing to say of rows, timers and sends.
LEMMA InvInit == Init => IInv
<1>. SUFFICES ASSUME Init PROVE IInv
  OBVIOUS
<1>1. TypeOK
  BY TypeInit
<1>2. Issued /\ RowsUnique /\ TimersMatch /\ TimersNotEarly /\ TakenOnce
  BY DEF Init, Issued, RowsUnique, TimersMatch, TimersNotEarly, TakenOnce
<1>3. TimersOfReady /\ AtMostOnce /\ NeverEarly
  BY DEF Init, TimersOfReady, AtMostOnce, NeverEarly
<1>4. CancelledStaysSilent /\ EveryRowTimed
  BY DEF Init, CancelledStaysSilent, EveryRowTimed
<1>. QED  BY <1>1, <1>2, <1>3, <1>4 DEF IInv

\* What a new row and its timer leave of the invariant: its id is fresh, so
\* nothing at large bears it.
LEMMA RemindInv ==
  ASSUME IInv, TypeOK',
         NEW u \in Users, NEW g \in Guilds, NEW fireAt \in Times,
         Remind(u, g, fireAt)
  PROVE  IInv'
<1>. DEFINE row == [id |-> NewId, guild |-> g, user |-> u, fireAt |-> fireAt]
<1>. USE DEF IInv
<1>1. /\ reminders' = reminders \cup {row}
      /\ timers' = timers \cup {Schedule(row)}
      /\ UNCHANGED <<now, phase, sending, posts, cancelled>>
  BY DEF Remind
<1>2. /\ NewId \in Ids /\ NewId > lastId /\ lastId' = NewId
      /\ lastId \in Nat /\ lastId' \in Nat
  BY BoundAssumption, NewIdFresh DEF Remind, TypeOK
<1>3. row \in Row
  BY <1>2 DEF Row
<1>4. /\ Schedule(row).row = row
      /\ Schedule(row).due <= Larger(row.fireAt, now)
      /\ Schedule(row).then = "fire" => row.fireAt <= Schedule(row).due
  BY <1>3, ScheduleOK DEF TypeOK
<1>5. /\ \A r \in reminders : r.id \in Nat /\ r.id < NewId
      /\ \A t \in timers : t.row.id \in Nat /\ t.row.id < NewId
      /\ \A s \in sending : s.row.id \in Nat /\ s.row.id < NewId
      /\ \A i \in cancelled : i \in Nat /\ i < NewId
  BY <1>2 DEF TypeOK, Issued, Ids, Row, Timer, Send
<1>6. posts[NewId] = 0
  BY <1>2 DEF Issued
<1>7. Issued'
  <2>1. \A i \in Ids : i > lastId' => posts'[i] = 0
    BY <1>1, <1>2 DEF Issued, Ids
  <2>2. row.id <= lastId' /\ Schedule(row).row.id <= lastId'
    BY <1>2, <1>4
  <2>. QED  BY <1>1, <1>2, <1>5, <2>1, <2>2 DEF Issued
<1>8. RowsUnique'
  BY <1>1, <1>2, <1>5 DEF RowsUnique, Ids
<1>9. TimersMatch'
  BY <1>1, <1>2, <1>4, <1>5 DEF TimersMatch, Ids
<1>10. TimersNotEarly'
  BY <1>1, <1>4 DEF TimersNotEarly
<1>11. TakenOnce'
  <2>1. \A r \in reminders' : posts'[r.id] = 0
    BY <1>1, <1>6 DEF TakenOnce
  <2>2. \A s \in sending' : RowsWith(s.row.id)' = {}
    BY <1>1, <1>2, <1>5 DEF TakenOnce, RowsWith, Ids
  <2>. QED  BY <1>1, <2>1, <2>2 DEF TakenOnce
<1>12. TimersOfReady' /\ AtMostOnce' /\ NeverEarly'
  BY <1>1 DEF Remind, TimersOfReady, AtMostOnce, NeverEarly
<1>13. CancelledStaysSilent'
  BY <1>1, <1>2, <1>5 DEF CancelledStaysSilent, RowsWith, Ids
<1>14. EveryRowTimed'
  BY <1>1, <1>4 DEF EveryRowTimed, Larger
<1>. QED  BY <1>7, <1>8, <1>9, <1>10, <1>11, <1>12, <1>13, <1>14

\* Re-arming a timer keeps its row, so everything said of rows stands.
LEMMA RescheduleInv ==
  ASSUME IInv, TypeOK', NEW t \in timers, Reschedule(t)
  PROVE  IInv'
<1>. USE DEF IInv
<1>1. /\ timers' = (timers \ {t}) \cup {Schedule(t.row)}
      /\ UNCHANGED <<now, phase, reminders, lastId, sending, posts, cancelled>>
  BY DEF Reschedule
<1>2. t.row \in Row
  BY DEF TypeOK, Timer
<1>3. /\ Schedule(t.row).row = t.row
      /\ Schedule(t.row).due <= Larger(t.row.fireAt, now)
      /\ Schedule(t.row).then = "fire" => t.row.fireAt <= Schedule(t.row).due
  BY <1>2, ScheduleOK DEF TypeOK
<1>4. Issued' /\ RowsUnique' /\ TimersMatch' /\ TimersNotEarly'
  BY <1>1, <1>3 DEF Issued, RowsUnique, TimersMatch, TimersNotEarly
<1>5. TakenOnce' /\ AtMostOnce' /\ NeverEarly' /\ CancelledStaysSilent'
  BY <1>1 DEF TakenOnce, AtMostOnce, NeverEarly, CancelledStaysSilent, RowsWith
<1>6. TimersOfReady'
  BY <1>1 DEF TimersOfReady
<1>7. EveryRowTimed'
  <2>. SUFFICES ASSUME phase = "ready", NEW r \in reminders
                PROVE  \E x \in timers' : x.row = r /\ x.due <= Larger(r.fireAt, now)
    BY <1>1 DEF EveryRowTimed, Larger
  <2>1. PICK x \in timers : x.row = r /\ x.due <= Larger(r.fireAt, now)
    BY DEF EveryRowTimed
  <2>2. CASE x = t
    BY <1>1, <1>3, <2>1, <2>2
  <2>3. CASE x # t
    BY <1>1, <2>1, <2>3
  <2>. QED  BY <2>2, <2>3
<1>. QED  BY <1>4, <1>5, <1>6, <1>7

\* What fire takes is the row its timer was set for, it is due, and no send
\* of its id was ever made.
LEMMA FireTakes ==
  ASSUME IInv, NEW t \in timers, Fire(t), NEW r \in TakenRow(t)
  PROVE  /\ r \in reminders /\ r \in Row /\ r = t.row
         /\ r.fireAt <= now
         /\ posts[r.id] = 0
         /\ \A s \in sending : s.row.id # r.id
         /\ r.id \notin cancelled
<1>. USE DEF IInv
<1>1. r \in reminders /\ r \in Row /\ r.id = t.row.id
  BY DEF TakenRow, RowsWith, TypeOK
<1>2. r = t.row
  BY <1>1 DEF TimersMatch
<1>3. r.fireAt <= now
  <2>1. t.row.fireAt <= t.due /\ t.due <= now
    BY DEF Fire, TimersNotEarly
  <2>2. t.due \in Nat /\ now \in Nat /\ r.fireAt \in Nat
    BY <1>1, BoundAssumption DEF TypeOK, Timer, Row, Times
  <2>. QED  BY <1>2, <2>1, <2>2
<1>4. posts[r.id] = 0 /\ \A s \in sending : s.row.id # r.id
  BY <1>1 DEF TakenOnce, RowsWith
<1>5. r.id \notin cancelled
  BY <1>1 DEF CancelledStaysSilent, RowsWith
<1>. QED  BY <1>1, <1>2, <1>3, <1>4, <1>5

\* fire moves its row from the table to a send, if the row is still there: the
\* table, the other timers and the sends already out keep their promises.
LEMMA FireInv ==
  ASSUME IInv, TypeOK', NEW t \in timers, Fire(t)
  PROVE  IInv'
<1>. USE DEF IInv
<1>. DEFINE Sent == {[row |-> r, posted |-> FALSE] : r \in TakenRow(t)}
<1>1. /\ timers' = timers \ {t}
      /\ reminders' = {r \in reminders : r.id # t.row.id}
      /\ UNCHANGED <<now, phase, lastId, posts, cancelled>>
  BY DEF Fire, LeftByTake, RowsWith
<1>2. sending' \subseteq sending \cup Sent
  BY DEF Fire
<1>3. /\ \A r \in TakenRow(t) : r \in reminders /\ r = t.row /\ r.fireAt <= now
      /\ \A r \in TakenRow(t) : posts[r.id] = 0 /\ r.id \notin cancelled
      /\ \A r \in TakenRow(t), s \in sending : s.row.id # r.id
  BY FireTakes
<1>4. \A z \in Sent : /\ z.row = t.row /\ ~z.posted
                      /\ t.row \in TakenRow(t)
  BY <1>3
<1>5. Issued'
  BY <1>1, <1>2, <1>3, <1>4 DEF Issued
<1>6. RowsUnique' /\ TimersMatch' /\ TimersNotEarly'
  BY <1>1 DEF RowsUnique, TimersMatch, TimersNotEarly
<1>7. TakenOnce'
  <2>1. \A s \in sending' : RowsWith(s.row.id)' = {}
    BY <1>1, <1>2, <1>4 DEF TakenOnce, RowsWith
  <2>2. \A s, z \in sending' : s.row.id = z.row.id => s = z
    <3>1. \A s, z \in Sent : s = z
      BY <1>3
    <3>2. \A s \in sending, z \in Sent : s.row.id # z.row.id
      BY <1>3, <1>4
    <3>. QED  BY <1>2, <3>1, <3>2 DEF TakenOnce
  <2>3. \A s \in sending' : ~s.posted => posts'[s.row.id] = 0
    BY <1>1, <1>2, <1>3, <1>4 DEF TakenOnce
  <2>. QED  BY <1>1, <2>1, <2>2, <2>3 DEF TakenOnce
<1>8. TimersOfReady'
  BY <1>1, <1>2 DEF TimersOfReady
<1>9. AtMostOnce' /\ NeverEarly'
  BY <1>1, <1>2, <1>3, <1>4 DEF AtMostOnce, NeverEarly
<1>10. CancelledStaysSilent'
  BY <1>1, <1>2, <1>3, <1>4 DEF CancelledStaysSilent, RowsWith
<1>11. EveryRowTimed'
  <2>. SUFFICES ASSUME phase = "ready", NEW r \in reminders, r.id # t.row.id
                PROVE  \E x \in timers' : x.row = r /\ x.due <= Larger(r.fireAt, now)
    BY <1>1 DEF EveryRowTimed, Larger
  <2>1. PICK x \in timers : x.row = r /\ x.due <= Larger(r.fireAt, now)
    BY DEF EveryRowTimed
  <2>. QED  BY <1>1, <2>1
<1>. QED  BY <1>5, <1>6, <1>7, <1>8, <1>9, <1>10, <1>11

\* A message is accepted for a send that had none: its id goes from 0 to 1.
LEMMA DiscordPostsInv ==
  ASSUME IInv, TypeOK', NEW s \in sending, DiscordPosts(s)
  PROVE  IInv'
<1>. USE DEF IInv
<1>. DEFINE z == [s EXCEPT !.posted = TRUE]
<1>1. /\ ~s.posted
      /\ posts' = [posts EXCEPT ![s.row.id] = @ + 1]
      /\ sending' = (sending \ {s}) \cup {z}
      /\ UNCHANGED <<now, phase, reminders, lastId, timers, cancelled>>
  BY DEF DiscordPosts
<1>2. s \in Send /\ s.row.id \in Ids /\ z.row = s.row /\ z.posted
  BY DEF TypeOK, Send, Row
<1>3. posts[s.row.id] = 0
  BY <1>1 DEF TakenOnce
<1>4. /\ posts'[s.row.id] = 1
      /\ \A i \in Ids : i # s.row.id => posts'[i] = posts[i]
  BY <1>1, <1>2, <1>3 DEF TypeOK
<1>5. /\ s.row.id <= lastId
      /\ \A r \in reminders : r.id # s.row.id /\ r.id \in Ids
      /\ s.row.fireAt <= now
      /\ s.row.id \notin cancelled
  BY DEF Issued, TakenOnce, RowsWith, NeverEarly, CancelledStaysSilent,
         TypeOK, Row
<1>6. Issued'
  <2>1. \A i \in Ids : i > lastId => posts'[i] = 0
    BY <1>2, <1>4, <1>5 DEF Issued, TypeOK, Ids
  <2>. QED  BY <1>1, <1>2, <1>5, <2>1 DEF Issued
<1>7. RowsUnique' /\ TimersMatch' /\ TimersNotEarly'
  BY <1>1 DEF RowsUnique, TimersMatch, TimersNotEarly
<1>8. TakenOnce'
  <2>1. \A r \in reminders : posts'[r.id] = 0
    BY <1>4, <1>5 DEF TakenOnce
  <2>2. \A y \in sending' : RowsWith(y.row.id)' = {}
    BY ZenonT(30), <1>1, <1>2 DEF TakenOnce, RowsWith
  <2>3. \A x, y \in sending' : x.row.id = y.row.id => x = y
    <3>1. \A x, y \in sending : x.row.id = y.row.id => x = y
      BY DEF TakenOnce
    <3>2. \A x \in sending \ {s} : x.row.id # z.row.id
      BY <1>2, <3>1
    <3>. HIDE DEF z
    <3>. QED  BY <1>1, <3>1, <3>2
  <2>4. \A y \in sending' : ~y.posted => posts'[y.row.id] = 0
    <3>1. \A y \in sending \ {s} : y.row.id # s.row.id /\ y.row.id \in Ids
      BY DEF TakenOnce, TypeOK, Send, Row
    <3>. QED  BY <1>1, <1>2, <1>4, <3>1 DEF TakenOnce
  <2>. QED  BY <1>1, <2>1, <2>2, <2>3, <2>4 DEF TakenOnce
<1>9. TimersOfReady'
  BY <1>1 DEF TimersOfReady
<1>10. AtMostOnce'
  <2>. SUFFICES ASSUME NEW i \in Ids PROVE posts'[i] <= 1
    BY DEF AtMostOnce
  <2>. QED  BY <1>4 DEF AtMostOnce
<1>11. NeverEarly'
  BY <1>1, <1>2, <1>5 DEF NeverEarly
<1>12. CancelledStaysSilent'
  <2>. SUFFICES ASSUME NEW i \in cancelled
                PROVE  /\ RowsWith(i) = {}
                       /\ \A y \in sending' : y.row.id # i
                       /\ posts'[i] = 0
    BY <1>1 DEF CancelledStaysSilent, RowsWith
  <2>1. i \in Ids /\ i # s.row.id
    BY <1>5 DEF TypeOK
  <2>2. posts'[i] = 0
    BY <1>4, <2>1 DEF CancelledStaysSilent
  <2>3. \A y \in sending : y.row.id # i
    BY DEF CancelledStaysSilent
  <2>4. \A y \in sending' : y.row.id # i
    <3>. HIDE DEF z
    <3>. QED  BY <1>1, <1>2, <2>1, <2>3
  <2>. QED  BY <2>2, <2>4 DEF CancelledStaysSilent
<1>13. EveryRowTimed'
  BY <1>1 DEF EveryRowTimed, Larger
<1>. QED  BY <1>6, <1>7, <1>8, <1>9, <1>10, <1>11, <1>12, <1>13

\* A cancelled row was still in the table, so it never was on its way.
LEMMA DeleteReminderInv ==
  ASSUME IInv, TypeOK', NEW i \in Ids, NEW g \in Guilds, DeleteReminder(i, g)
  PROVE  IInv'
<1>. USE DEF IInv
<1>1. /\ reminders' = reminders \ Deleted(i, g)
      /\ cancelled' = cancelled \cup {r.id : r \in Deleted(i, g)}
      /\ UNCHANGED <<now, phase, lastId, timers, sending, posts>>
  BY DEF DeleteReminder
<1>2. \A r \in Deleted(i, g) : r \in reminders /\ r.id = i
  BY DEF Deleted, RowsWith
<1>3. \A r \in Deleted(i, g), q \in reminders' : q.id # i
  BY <1>1, <1>2 DEF RowsUnique
<1>4. Issued' /\ RowsUnique' /\ TimersMatch' /\ TimersNotEarly'
  BY <1>1, <1>2 DEF Issued, RowsUnique, TimersMatch, TimersNotEarly
<1>5. TakenOnce'
  BY <1>1 DEF TakenOnce, RowsWith
<1>6. TimersOfReady' /\ AtMostOnce' /\ NeverEarly'
  BY <1>1 DEF TimersOfReady, AtMostOnce, NeverEarly
<1>7. CancelledStaysSilent'
  <2>1. ASSUME NEW r \in Deleted(i, g)
        PROVE  /\ RowsWith(i)' = {}
               /\ \A s \in sending : s.row.id # i
               /\ posts[i] = 0
    BY <1>2, <1>3 DEF TakenOnce, RowsWith
  <2>2. \A j \in cancelled : RowsWith(j)' = {}
    BY <1>1 DEF CancelledStaysSilent, RowsWith
  <2>. QED  BY <1>1, <1>2, <2>1, <2>2 DEF CancelledStaysSilent
<1>8. EveryRowTimed'
  BY <1>1 DEF EveryRowTimed, Larger
<1>. QED  BY <1>4, <1>5, <1>6, <1>7, <1>8

\* Rows reserved before the restart each get a timer again.
LEMMA ClientReadyInv ==
  ASSUME IInv, TypeOK', ClientReady
  PROVE  IInv'
<1>. USE DEF IInv
<1>1. /\ timers' = {Schedule(r) : r \in reminders}
      /\ phase' = "ready"
      /\ UNCHANGED <<now, reminders, lastId, sending, posts, cancelled>>
  BY DEF ClientReady, ScheduledAtReady, TimersOfReady
<1>2. \A r \in reminders :
        /\ Schedule(r).row = r
        /\ Schedule(r).due <= Larger(r.fireAt, now)
        /\ Schedule(r).then = "fire" => r.fireAt <= Schedule(r).due
  BY ScheduleOK DEF TypeOK
<1>3. Issued' /\ RowsUnique' /\ TimersMatch' /\ TimersNotEarly'
  BY <1>1, <1>2 DEF Issued, RowsUnique, TimersMatch, TimersNotEarly
<1>4. TakenOnce' /\ AtMostOnce' /\ NeverEarly' /\ CancelledStaysSilent'
  BY <1>1 DEF TakenOnce, AtMostOnce, NeverEarly, CancelledStaysSilent, RowsWith
<1>5. TimersOfReady' /\ EveryRowTimed'
  BY <1>1, <1>2 DEF TimersOfReady, EveryRowTimed, Larger
<1>. QED  BY <1>3, <1>4, <1>5

\* Every step keeps the invariant.  The steps that move no row are done here,
\* the others have a lemma above.
LEMMA InvNext ==
  ASSUME IInv, [Next]_vars
  PROVE  IInv'
<1>1. TypeOK'
  BY TypeNext DEF IInv
<1>2. CASE Tick
  <2>. USE <1>2 DEF IInv, Tick
  <2>1. now \in Nat /\ now' = now + 1
    BY BoundAssumption DEF TypeOK, Times
  <2>2. NeverEarly'
    <3>1. \A s \in sending : s.row.fireAt \in Nat
      BY BoundAssumption DEF TypeOK, Send, Row, Times
    <3>. QED  BY <2>1, <3>1 DEF NeverEarly
  <2>3. EveryRowTimed'
    <3>1. \A r \in reminders, t \in timers : r.fireAt \in Nat /\ t.due \in Nat
      BY BoundAssumption DEF TypeOK, Row, Timer, Times
    <3>2. \A a \in Nat, d \in Nat : d <= Larger(a, now) => d <= Larger(a, now')
      BY <2>1 DEF Larger
    <3>. QED  BY <3>1, <3>2 DEF EveryRowTimed
  <2>. QED
    BY <1>1, <2>2, <2>3 DEF Issued, RowsUnique, TimersMatch, TimersNotEarly,
       TakenOnce, TimersOfReady, AtMostOnce, CancelledStaysSilent, RowsWith
<1>3. CASE Start
  BY <1>1, <1>3 DEF Start, IInv, Issued, RowsUnique, TimersMatch,
     TimersNotEarly, TakenOnce, TimersOfReady, AtMostOnce, NeverEarly,
     CancelledStaysSilent, EveryRowTimed, RowsWith
<1>4. CASE ClientReady
  BY <1>1, <1>4, ClientReadyInv
<1>5. ASSUME NEW u \in Users, NEW g \in Guilds, NEW fireAt \in Times,
             Remind(u, g, fireAt)
      PROVE  IInv'
  BY <1>1, <1>5, RemindInv
<1>6. ASSUME NEW t \in timers, Reschedule(t)
      PROVE  IInv'
  BY <1>1, <1>6, RescheduleInv
<1>7. ASSUME NEW t \in timers, Fire(t)
      PROVE  IInv'
  BY <1>1, <1>7, FireInv
<1>8. ASSUME NEW s \in sending, DiscordPosts(s)
      PROVE  IInv'
  BY <1>1, <1>8, DiscordPostsInv
<1>9. ASSUME NEW s \in sending, SendSettles(s)
      PROVE  IInv'
  BY <1>1, <1>9 DEF SendSettles, IInv, Issued, RowsUnique, TimersMatch,
     TimersNotEarly, TakenOnce, TimersOfReady, AtMostOnce, NeverEarly,
     CancelledStaysSilent, EveryRowTimed, RowsWith, Larger
<1>10. ASSUME NEW i \in Ids, NEW g \in Guilds, DeleteReminder(i, g)
       PROVE  IInv'
  BY <1>1, <1>10, DeleteReminderInv
<1>11. ASSUME NEW g \in Guilds, NEW on \in BOOLEAN, SetEnabled(g, on)
       PROVE  IInv'
  BY <1>1, <1>11 DEF SetEnabled, IInv, Issued, RowsUnique, TimersMatch,
     TimersNotEarly, TakenOnce, TimersOfReady, AtMostOnce, NeverEarly,
     CancelledStaysSilent, EveryRowTimed, RowsWith, Larger
<1>12. CASE Crash
  BY <1>1, <1>12 DEF Crash, IInv, Issued, RowsUnique, TimersMatch,
     TimersNotEarly, TakenOnce, TimersOfReady, AtMostOnce, NeverEarly,
     CancelledStaysSilent, EveryRowTimed, RowsWith
<1>13. CASE UNCHANGED vars
  BY <1>1, <1>13 DEF vars, IInv, Issued, RowsUnique, TimersMatch,
     TimersNotEarly, TakenOnce, TimersOfReady, AtMostOnce, NeverEarly,
     CancelledStaysSilent, EveryRowTimed, RowsWith, Larger
<1>. QED
  BY <1>2, <1>3, <1>4, <1>5, <1>6, <1>7, <1>8, <1>9, <1>10, <1>11, <1>12, <1>13
     DEF Next, TimerRuns, SendProgresses

\* The inductive invariant holds in every behaviour.
LEMMA Invariance == Spec => []IInv
BY InvInit, InvNext, PTL DEF Spec

\* Whatever the number of users, guilds, restarts and timers, and however takes
\* and sends interleave: the state is well typed, no reminder is posted twice
\* (take deletes the row), and none goes on its way before its time (fire and
\* its chunked waits).
THEOREM ReminderSafe == Spec => []Safe
<1>1. IInv => Safe
  BY DEF IInv, Safe
<1>. QED  BY Invariance, <1>1, PTL

\* A cancelled reminder is never posted, although its timer is never cleared.
THEOREM CancelledNeverPosted == Spec => []CancelledStaysSilent
<1>1. IInv => CancelledStaysSilent
  BY DEF IInv
<1>. QED  BY Invariance, <1>1, PTL

\* Every row of a ready bot has a timer that wakes in time: no restart and no
\* cut of a long wait forgets one.
THEOREM RowsAreTimed == Spec => []EveryRowTimed
<1>1. IInv => EveryRowTimed
  BY DEF IInv
<1>. QED  BY Invariance, <1>1, PTL

-----------------------------------------------------------------------------
(* The code implements the promise.                                        *)

\* A first start is a promise with nothing reserved.
LEMMA PromiseInit == Init => Promise!Init
BY DEF Init, Promise!Init

\* The sends not yet accepted, which the promise calls posting.
Unposted == {s.row.id : s \in {z \in sending : ~z.posted}}

\* Each step of the code is one of the promise or leaves it as it is: /remind
\* reserves, fire comes due or forfeits, a cancellation withdraws, a crash or
\* a failed send loses what was on its way, and timers are invisible.
LEMMA PromiseNext ==
  ASSUME IInv, IInv', [Next]_vars
  PROVE  [Promise!Next]_(Promise!vars)
<1>. USE DEF Promise!vars
<1>1. CASE Tick
  <2>1. Promise!TimePasses
    BY <1>1 DEF Tick, Promise!TimePasses
  <2>. QED  BY <2>1 DEF Promise!Next
<1>2. CASE Start
  BY <1>2 DEF Start
<1>3. CASE ClientReady
  BY <1>3 DEF ClientReady
<1>4. ASSUME NEW u \in Users, NEW g \in Guilds, NEW fireAt \in Times,
             Remind(u, g, fireAt)
      PROVE  [Promise!Next]_(Promise!vars)
  <2>1. NewId \in Ids /\ NewId > lastId /\ lastId' = lastId + 1 /\ lastId \in Nat
    BY <1>4, NewIdFresh, BoundAssumption DEF Remind, IInv, TypeOK, NewId
  <2>2. Promise!OpenOf(u) = RowsOf(u)
    BY DEF Promise!OpenOf, RowsOf
  <2>3. 1 .. lastId' = (1 .. lastId) \cup {NewId}
    BY <2>1 DEF NewId
  <2>4. /\ enabled[g] /\ fireAt >= now /\ Cardinality(RowsOf(u)) < MaxPending
        /\ reminders' = reminders \cup
             {[id |-> NewId, guild |-> g, user |-> u, fireAt |-> fireAt]}
        /\ UNCHANGED <<now, sending, posts, cancelled>>
    BY <1>4 DEF Remind
  <2>5. NewId \notin 1 .. lastId
    BY <2>1
  <2>6. Promise!Cardinality(RowsOf(u)) = Cardinality(RowsOf(u))
    BY DEF Promise!Cardinality, Cardinality
  <2>7. Promise!Reserve(NewId, g, u, fireAt)
    BY <2>2, <2>3, <2>4, <2>5, <2>6 DEF Promise!Reserve
  <2>. QED  BY <2>1, <2>7 DEF Promise!Next
<1>5. ASSUME NEW t \in timers, Reschedule(t)
      PROVE  [Promise!Next]_(Promise!vars)
  BY <1>5 DEF Reschedule
<1>6. ASSUME NEW t \in timers, Fire(t)
      PROVE  [Promise!Next]_(Promise!vars)
  <2>1. CASE TakenRow(t) = {}
    BY <1>6, <2>1 DEF Fire, LeftByTake, TakenRow
  <2>2. ASSUME NEW r \in TakenRow(t)
        PROVE  [Promise!Next]_(Promise!vars)
    <3>1. r \in reminders /\ r.fireAt <= now
      BY <1>6, FireTakes
    <3>2. TakenRow(t) = {r}
      BY DEF IInv, RowsUnique, TakenRow, RowsWith
    <3>3. reminders' = reminders \ {r}
      BY <1>6, <3>2 DEF Fire, LeftByTake, TakenRow
    <3>4. UNCHANGED <<now, lastId, posts, cancelled>>
      BY <1>6 DEF Fire
    <3>5. CASE sending' = sending
      <4>1. Promise!Forfeit(r)
        BY <3>1, <3>3, <3>4, <3>5 DEF Promise!Forfeit
      <4>. QED  BY <3>1, <4>1 DEF Promise!Next
    <3>6. CASE sending' = sending \cup {[row |-> r, posted |-> FALSE]}
      <4>. DEFINE z == [row |-> r, posted |-> FALSE]
      <4>0. z.row = r /\ ~z.posted
        OBVIOUS
      <4>1. Unposted' = Unposted \cup {r.id}
        <5>1. Unposted' = {s.row.id : s \in {y \in sending \cup {z} : ~y.posted}}
          BY <3>6 DEF Unposted
        <5>. HIDE DEF z
        <5>. QED  BY <4>0, <5>1 DEF Unposted
      <4>2. Promise!ComeDue(r)
        BY <3>1, <3>3, <3>4, <4>1 DEF Promise!ComeDue, Unposted
      <4>. QED  BY <3>1, <4>2 DEF Promise!Next
    <3>. QED  BY <1>6, <3>2, <3>5, <3>6 DEF Fire
  <2>. QED  BY <2>1, <2>2
<1>7. ASSUME NEW s \in sending, DiscordPosts(s)
      PROVE  [Promise!Next]_(Promise!vars)
  <2>1. s \in Send /\ s.row.id \in Ids /\ s.row.id \in Unposted
    BY <1>7 DEF DiscordPosts, IInv, TypeOK, Send, Row, Unposted
  <2>2. posts[s.row.id] = 0
    BY <1>7 DEF DiscordPosts, IInv, TakenOnce
  <2>3. Unposted' = Unposted \ {s.row.id}
    <3>1. sending' = (sending \ {s}) \cup {[s EXCEPT !.posted = TRUE]}
      BY <1>7 DEF DiscordPosts
    <3>2. [s EXCEPT !.posted = TRUE].posted
      BY <2>1 DEF Send
    <3>3. \A z \in sending \ {s} : z.row.id # s.row.id
      BY DEF IInv, TakenOnce
    <3>. QED  BY <3>1, <3>2, <3>3 DEF Unposted
  <2>4. posts' = [posts EXCEPT ![s.row.id] = 1]
    BY <1>7, <2>2 DEF DiscordPosts
  <2>5. Promise!Post(s.row.id)
    BY <1>7, <2>2, <2>3, <2>4 DEF DiscordPosts, Promise!Post, Unposted
  <2>. QED  BY <2>1, <2>5 DEF Promise!Next, Unposted
<1>8. ASSUME NEW s \in sending, SendSettles(s)
      PROVE  [Promise!Next]_(Promise!vars)
  <2>1. CASE s.posted
    <3>1. Unposted' = Unposted
      BY <1>8, <2>1 DEF SendSettles, Unposted
    <3>. QED  BY <1>8, <3>1 DEF SendSettles, Unposted
  <2>2. CASE ~s.posted
    <3>1. s.row.id \in Unposted
      BY <2>2 DEF Unposted
    <3>2. Unposted' = Unposted \ {s.row.id}
      BY <1>8 DEF SendSettles, Unposted, IInv, TakenOnce
    <3>3. Promise!Lose({s.row.id})
      BY <1>8, <3>2 DEF SendSettles, Promise!Lose, Unposted
    <3>. QED  BY <3>1, <3>3 DEF Promise!Next, Unposted
  <2>. QED  BY <2>1, <2>2
<1>9. ASSUME NEW i \in Ids, NEW g \in Guilds, DeleteReminder(i, g)
      PROVE  [Promise!Next]_(Promise!vars)
  <2>1. CASE Deleted(i, g) = {}
    BY <1>9, <2>1 DEF DeleteReminder
  <2>2. ASSUME NEW r \in Deleted(i, g)
        PROVE  [Promise!Next]_(Promise!vars)
    <3>1. Deleted(i, g) = {r} /\ r \in reminders
      BY DEF Deleted, RowsWith, IInv, RowsUnique
    <3>2. Promise!Withdraw(r)
      BY <1>9, <3>1 DEF DeleteReminder, Promise!Withdraw
    <3>. QED  BY <3>1, <3>2 DEF Promise!Next
  <2>. QED  BY <2>1, <2>2
<1>10. ASSUME NEW g \in Guilds, NEW on \in BOOLEAN, SetEnabled(g, on)
       PROVE  [Promise!Next]_(Promise!vars)
  BY <1>10 DEF SetEnabled
<1>11. CASE Crash
  <2>1. Unposted' = Unposted \ Unposted
    BY <1>11 DEF Crash, Unposted
  <2>2. Promise!Lose(Unposted)
    BY <1>11, <2>1 DEF Crash, Promise!Lose, Unposted
  <2>3. \E S \in SUBSET Unposted : Promise!Lose(S)
    BY <2>2 DEF Promise!Lose
  <2>. QED  BY <2>3 DEF Promise!Next, Unposted
<1>12. CASE UNCHANGED vars
  BY <1>12 DEF vars
<1>. QED
  BY <1>1, <1>2, <1>3, <1>4, <1>5, <1>6, <1>7, <1>8, <1>9, <1>10, <1>11, <1>12
     DEF Next, TimerRuns, SendProgresses

\* Timers, rows, restarts and sends together keep the promise: a waiting
\* reservation leaves only by coming due or by being withdrawn.
THEOREM ReminderKeepsPromise == Spec => PromiseSpec
BY PromiseInit, PromiseNext, Invariance, PTL DEF Spec, PromiseSpec, Promise!Spec
=============================================================================
