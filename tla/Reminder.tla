------------------------------ MODULE Reminder ------------------------------
(***************************************************************************)
(* The /remind feature of discord-bot/connect                              *)
(* (server/features/reminder.ts over the `reminders` table of              *)
(* server/store.server.ts).  One process runs the bot and the web admin;   *)
(* each handler runs to its first await without interruption, so it is one *)
(* action, and what follows an await is another.                           *)
(*                                                                         *)
(* The SQLite tables (`reminders`, `lastId`, `enabled`) survive a crash.   *)
(* Timers and sends in flight live in the process and vanish with it.      *)
(***************************************************************************)
EXTENDS Naturals, FiniteSets

CONSTANTS Users, Guilds,
          MaxPending,  \* MAX_PENDING_PER_USER
          MaxTimeout,  \* MAX_TIMEOUT_MS: the longest delay setTimeout keeps
          \* Bounds of the model:
          MaxTime,     \* instants the clock may reach
          MaxId,       \* reservations made in a behaviour
          MaxCrashes   \* times the process stops

ASSUME LimitAssumption == /\ MaxPending \in Nat \ {0}
                          /\ MaxTimeout \in Nat \ {0}
ASSUME BoundAssumption == /\ MaxTime \in Nat
                          /\ MaxId \in Nat
                          /\ MaxCrashes \in Nat

VARIABLES now,        \* Date.now()
          phase,      \* the process: "down", "starting", "ready"
          crashes,
          reminders,  \* rows of the reminders table
          lastId,     \* sqlite_sequence: the largest id ever given out
          enabled,    \* guild -> is the reminder feature on
          timers,     \* pending setTimeout calls
          sending,    \* channel.send calls not yet settled
          posts,      \* history: id -> messages Discord accepted for it
          cancelled   \* history: ids deleteReminder said it deleted

vars == <<now, phase, crashes, reminders, lastId, enabled, timers, sending,
          posts, cancelled>>

Ids == 1 .. MaxId
Times == 0 .. MaxTime

Row == [id : Ids, guild : Guilds, user : Users, fireAt : Times]

\* `then` is the callback: schedule(row) again, or fire(row.id).
Timer == [row : Row, due : Times, then : {"schedule", "fire"}]

\* A send carries the row takeReminder returned; `posted` says whether Discord
\* has accepted it although the call has not settled.
Send == [row : Row, posted : BOOLEAN]

TypeOK ==
  /\ now \in Times
  /\ phase \in {"down", "starting", "ready"}
  /\ crashes \in 0 .. MaxCrashes
  /\ reminders \subseteq Row
  /\ lastId \in 0 .. MaxId
  /\ enabled \in [Guilds -> BOOLEAN]
  /\ timers \subseteq Timer
  /\ sending \subseteq Send
  /\ posts \in [Ids -> Nat]
  /\ cancelled \subseteq Ids

Larger(a, b) == IF a >= b THEN a ELSE b

RowsOf(u) == {r \in reminders : r.user = u}
RowsWith(i) == {r \in reminders : r.id = i}

-----------------------------------------------------------------------------
(* The reminders table.                                                    *)

\* Faulty: without AUTOINCREMENT SQLite gives out one more than the largest
\* id still in the table.
ReusedId == CHOOSE i \in 1 .. MaxId + 1 :
              /\ \A r \in reminders : r.id < i
              /\ i = 1 \/ \E r \in reminders : r.id + 1 = i

\* INTEGER PRIMARY KEY AUTOINCREMENT: an id is never given out again.
NewId == lastId + 1

\* DELETE ... WHERE id = ? RETURNING *: what the table is left with.
LeftByTake(i) == reminders \ RowsWith(i)

-----------------------------------------------------------------------------
(* setTimeout and schedule.                                                *)

\* The runtime keeps a delay as a 32-bit integer; a longer one fires at once.
SetTimeout(row, delay, then) ==
  [row |-> row, due |-> IF delay > MaxTimeout THEN now ELSE now + delay,
   then |-> then]

\* Faulty: hand the whole delay to setTimeout.
UnchunkedSchedule(row) ==
  SetTimeout(row, IF row.fireAt > now THEN row.fireAt - now ELSE 0, "fire")

\* schedule: wait in chunks of MaxTimeout, then for the rest.
Schedule(row) ==
  IF row.fireAt > now + MaxTimeout
  THEN SetTimeout(row, MaxTimeout, "schedule")
  ELSE SetTimeout(row, IF row.fireAt > now THEN row.fireAt - now ELSE 0,
                  "fire")

-----------------------------------------------------------------------------
Init ==
  /\ now = 0
  /\ phase = "down"
  /\ crashes = 0
  /\ reminders = {}
  /\ lastId = 0
  /\ enabled = [g \in Guilds |-> TRUE]
  /\ timers = {}
  /\ sending = {}
  /\ posts = [i \in Ids |-> 0]
  /\ cancelled = {}

Tick ==
  /\ now < MaxTime
  /\ now' = now + 1
  /\ UNCHANGED <<phase, crashes, reminders, lastId, enabled, timers, sending,
                 posts, cancelled>>

\* The process starts and logs in (app.server.ts startBot); the guilds fill its
\* cache before ClientReady.
Start ==
  /\ phase = "down"
  /\ phase' = "starting"
  /\ UNCHANGED <<now, crashes, reminders, lastId, enabled, timers, sending,
                 posts, cancelled>>

\* Faulty: rows reserved before the restart are not scheduled again.
ForgetRows == {}

\* listAllReminders, each row given a timer anew.
ScheduledAtReady == {Schedule(r) : r \in reminders}

ClientReady ==
  /\ phase = "starting"
  /\ phase' = "ready"
  /\ timers' = timers \cup ScheduledAtReady
  /\ UNCHANGED <<now, crashes, reminders, lastId, enabled, sending, posts,
                 cancelled>>

\* /remind: every check, the insert and the scheduling happen before the
\* handler's first await.  Which channel and which message, and the two
\* permission checks on the channel, decide nothing here.
Remind(u, g, fireAt) ==
  /\ phase = "ready"
  /\ NewId <= MaxId
  /\ enabled[g]
  /\ fireAt >= now
  /\ Cardinality(RowsOf(u)) < MaxPending
  /\ LET row == [id |-> NewId, guild |-> g, user |-> u, fireAt |-> fireAt]
     IN /\ reminders' = reminders \cup {row}
        /\ timers' = timers \cup {Schedule(row)}
  /\ lastId' = Larger(lastId, NewId)
  /\ UNCHANGED <<now, phase, crashes, enabled, sending, posts, cancelled>>

\* A chunk of a long wait is over: schedule runs again for the row the timer
\* captured, whether or not that row is still in the table.
Reschedule(t) ==
  /\ t.then = "schedule"
  /\ t.due <= now
  /\ timers' = (timers \ {t}) \cup {Schedule(t.row)}
  /\ UNCHANGED <<now, phase, crashes, reminders, lastId, enabled, sending,
                 posts, cancelled>>

\* Faulty: send what the timer captured, without asking the table.
CapturedRow(t) == {t.row}

\* takeReminder(id): the row of the table, none if it was cancelled.
TakenRow(t) == RowsWith(t.row.id)

\* fire, up to its await.  The channel of a taken row may be gone.
Fire(t) ==
  /\ t.then = "fire"
  /\ t.due <= now
  /\ timers' = timers \ {t}
  /\ reminders' = LeftByTake(t.row.id)
  /\ \/ sending' = sending \cup {[row |-> r, posted |-> FALSE]
                                   : r \in TakenRow(t)}
     \/ sending' = sending
  /\ UNCHANGED <<now, phase, crashes, lastId, enabled, posts, cancelled>>

\* Discord accepts the message of a send in flight.
DiscordPosts(s) ==
  /\ ~s.posted
  /\ posts' = [posts EXCEPT ![s.row.id] = @ + 1]
  /\ sending' = (sending \ {s}) \cup {[s EXCEPT !.posted = TRUE]}
  /\ UNCHANGED <<now, phase, crashes, reminders, lastId, enabled, timers,
                 cancelled>>

\* channel.send settles: with an answer or an error, either way fire is done.
SendSettles(s) ==
  /\ sending' = sending \ {s}
  /\ UNCHANGED <<now, phase, crashes, reminders, lastId, enabled, timers,
                 posts, cancelled>>

\* The web admin's deleteReminder, after its access check.  Both the id and
\* the guild come from a list the browser loaded earlier, so the row may be
\* gone or belong elsewhere by now.
Deleted(i, g) == {r \in RowsWith(i) : r.guild = g}

DeleteReminder(i, g) ==
  /\ phase # "down"
  /\ i <= lastId
  /\ reminders' = reminders \ Deleted(i, g)
  /\ cancelled' = cancelled \cup {r.id : r \in Deleted(i, g)}
  /\ UNCHANGED <<now, phase, crashes, lastId, enabled, timers, sending, posts>>

\* An administrator switches the feature on or off.
SetEnabled(g, on) ==
  /\ phase # "down"
  /\ enabled' = [enabled EXCEPT ![g] = on]
  /\ UNCHANGED <<now, phase, crashes, reminders, lastId, timers, sending,
                 posts, cancelled>>

\* The process stops: by a deploy, a reboot or a fault.
Crash ==
  /\ phase # "down"
  /\ crashes < MaxCrashes
  /\ phase' = "down"
  /\ crashes' = crashes + 1
  /\ timers' = {}
  /\ sending' = {}
  /\ UNCHANGED <<now, reminders, lastId, enabled, posts, cancelled>>

TimerRuns(t) == Reschedule(t) \/ Fire(t)
SendProgresses(s) == DiscordPosts(s) \/ SendSettles(s)

Next ==
  \/ Tick
  \/ Start
  \/ ClientReady
  \/ \E u \in Users, g \in Guilds, fireAt \in Times : Remind(u, g, fireAt)
  \/ \E t \in timers : TimerRuns(t)
  \/ \E s \in sending : SendProgresses(s)
  \/ \E i \in Ids, g \in Guilds : DeleteReminder(i, g)
  \/ \E g \in Guilds, on \in BOOLEAN : SetEnabled(g, on)
  \/ Crash

\* Time passes, the container is restarted, login completes, due timers run
\* and HTTP calls settle.  Nothing obliges a user or an administrator to act.
Fairness ==
  /\ WF_vars(Tick)
  /\ WF_vars(Start)
  /\ WF_vars(ClientReady)
  /\ WF_vars(\E t \in timers : TimerRuns(t))
  /\ WF_vars(\E s \in sending : SendSettles(s))

Spec == Init /\ [][Next]_vars /\ Fairness

-----------------------------------------------------------------------------
(* Correctness.                                                            *)

\* A reminder is posted at most once, however the process is restarted, the
\* timer re-armed and the take raced with a cancellation: fire deletes the
\* row it posts.
AtMostOnce == \A i \in Ids : posts[i] <= 1

\* No message is on its way before its time.  A timer of a cancelled row is
\* never cleared (reminder.ts has no clearTimeout), and a chunk of a long wait
\* ends long before fireAt: neither may set off a row ahead of its fireAt.
NeverEarly == \A s \in sending : s.row.fireAt <= now

\* Every variable has its type, and no reminder is posted twice or early.
Safe == TypeOK /\ AtMostOnce /\ NeverEarly

\* Once deleteReminder has told the administrator the reminder is deleted, it
\* is not in the table, not on its way and never was posted.
CancelledStaysSilent ==
  \A i \in cancelled : /\ RowsWith(i) = {}
                       /\ \A s \in sending : s.row.id # i
                       /\ posts[i] = 0

\* While the bot is ready every row waits on a timer of its own that wakes no
\* later than fireAt (or is already due): no row is forgotten by a restart,
\* by the chunking of a long wait or by an earlier timer's end.
EveryRowTimed ==
  phase = "ready" =>
    \A r \in reminders :
      \E t \in timers : t.row = r /\ t.due <= Larger(r.fireAt, now)

\* A row leaves the table only by being taken when due or by being cancelled;
\* what a restart forfeits was already on its way.  This and more is what
\* ReminderPromise says, and the code implements it.
Promise == INSTANCE ReminderPromise WITH
  clock <- now,
  issued <- 1 .. lastId,
  open <- reminders,
  posting <- {s.row.id : s \in {z \in sending : ~z.posted}},
  withdrawn <- cancelled

PromiseSpec == Promise!Spec

\* Every reservation is eventually settled: if the process does not stop for
\* ever, no row stays in the table.
EventuallySettled ==
  \A i \in Ids : RowsWith(i) # {} ~> RowsWith(i) = {}
=============================================================================
