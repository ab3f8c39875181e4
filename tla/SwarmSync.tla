----------------------------- MODULE SwarmSync -----------------------------
(***************************************************************************)
(* swarm-gcal-sync: check-ins from Foursquare into a Google calendar, by a  *)
(* daemon every night and by an operator's -backfill or -once (main.go,     *)
(* swarm.go, UpsertCheckin of gcal.go).                                     *)
(*                                                                         *)
(* Check-ins are numbers in the order they are made.  Those that a run asks *)
(* for come newest first, page by page, while others are made and removed.  *)
(* Google keeps the id of an event that somebody deletes.                   *)
(***************************************************************************)
EXTENDS Integers, FiniteSets, Sequences

CONSTANTS Day,         \* from one night to the next
          Overlap,     \* how much longer incrementalLookback is, 1 hour
          Lateness,    \* how late cron may be
          PageLimit,   \* swarmPageLimit, 250 in the code
          \* Bounds of the model:
          LastTime, MaxCheckins, MaxRemovals, MaxErrors, MaxByHand

ASSUME SwarmAssumption ==
  /\ Day \in Nat \ {0} /\ Overlap \in Nat /\ PageLimit \in Nat \ {0}
  /\ Lateness \in Nat /\ Lateness <= Overlap /\ Lateness < Day
ASSUME SwarmBounds ==
  /\ LastTime \in Nat /\ MaxCheckins \in Nat /\ MaxRemovals \in Nat
  /\ MaxErrors \in Nat /\ MaxByHand \in Nat

VARIABLES hour,      \* the time
          madeAt,    \* madeAt[c]: when check-in c was made
          removed,   \* check-ins that are no more
          events,    \* events[c]: "none", "confirmed" or "cancelled"
          daemon,    \* the daemon runs
          nextNight, \* when cron runs the job next
          runs,      \* runs[w]: of the daemon and of one by hand
          removals, errors, byHand

\* What an observer remembers.
VARIABLE finished  \* runs without an error: check-ins left out, and removed

swarmVars == <<hour, madeAt, removed, events, daemon, nextNight, runs, removals,
               errors, byHand, finished>>

Runners == {"daemon", "hand"}
NotRunning == [stage |-> "idle"]
Checkins == 1 .. MaxCheckins

\* `since` bounds what a run asks for.  An observer also notes the time it is
\* for, the removals while it pages, and the events deleted while it runs.
RunOf(stages) ==
  [stage : stages, since : Int, offset : Nat, all : Seq(Checkins),
   from : Int, until : Nat, removals : Nat, deleted : SUBSET Checkins]

SwarmTypeOK ==
  /\ hour \in 0 .. LastTime
  /\ madeAt \in Seq(0 .. hour) /\ Len(madeAt) <= MaxCheckins
  /\ removed \subseteq DOMAIN madeAt
  /\ events \in [Checkins -> {"none", "confirmed", "cancelled"}]
  /\ daemon \in BOOLEAN /\ nextNight \in Nat
  /\ runs \in [Runners ->
       {NotRunning} \cup RunOf({"fetch", "insert", "update"})]
  /\ removals \in 0 .. MaxRemovals /\ errors \in 0 .. MaxErrors
  /\ byHand \in 0 .. MaxByHand
  /\ finished \subseteq [left : Nat, removals : Nat]

\* The next midnight, by cron's reckoning.
Midnight(t) == (t \div Day + 1) * Day

SwarmInit ==
  /\ hour = 0
  /\ madeAt = <<>> /\ removed = {}
  /\ events = [c \in Checkins |-> "none"]
  /\ daemon = TRUE /\ nextNight = Midnight(0)
  /\ runs = [w \in Runners |-> NotRunning]
  /\ removals = 0 /\ errors = 0 /\ byHand = 0
  /\ finished = {}

-----------------------------------------------------------------------------
(* The user at Swarm and in the calendar, and the time.                     *)

\* The job is due; and what a night takes is less than a day.
IsLate == daemon /\ hour >= nextNight + Lateness

HourPasses ==
  /\ hour < LastTime /\ ~ IsLate
  /\ hour' = hour + 1
  /\ UNCHANGED <<madeAt, removed, events, daemon, nextNight, runs, removals,
                 errors, byHand, finished>>

CheckIn ==
  /\ Len(madeAt) < MaxCheckins
  /\ madeAt' = Append(madeAt, hour)
  /\ UNCHANGED <<hour, removed, events, daemon, nextNight, runs, removals,
                 errors, byHand, finished>>

Fetching(w) == runs[w].stage = "fetch"

RemoveCheckin(c) ==
  /\ c \in DOMAIN madeAt \ removed
  /\ removals < MaxRemovals /\ removals' = removals + 1
  /\ removed' = removed \cup {c}
  /\ runs' = [w \in Runners |->
       IF Fetching(w) THEN [runs[w] EXCEPT !.removals = @ + 1] ELSE runs[w]]
  /\ UNCHANGED <<hour, madeAt, events, daemon, nextNight, errors, byHand,
                 finished>>

DeleteEvent(c) ==
  /\ events[c] = "confirmed"
  /\ removals < MaxRemovals /\ removals' = removals + 1
  /\ events' = [events EXCEPT ![c] = "cancelled"]
  /\ runs' = [w \in Runners |-> IF runs[w] = NotRunning THEN NotRunning
                                ELSE [runs[w] EXCEPT !.deleted = @ \cup {c}]]
  /\ UNCHANGED <<hour, madeAt, removed, daemon, nextNight, errors, byHand,
                 finished>>

-----------------------------------------------------------------------------
(* Runs.                                                                    *)

\* Faulty: the job looks back a day and no more.
JustADay == Day

Lookback == Day + Overlap

\* time.Now().Add(-incrementalLookback); nothing was made before 0.
After == IF hour >= Lookback THEN hour - Lookback ELSE -1

BeginRun(w, from, until, since) ==
  runs' = [runs EXCEPT ![w] =
    [stage |-> "fetch", since |-> since, offset |-> 0, all |-> <<>>,
     from |-> from, until |-> until, removals |-> 0, deleted |-> {}]]

\* The night's job, a little late perhaps, for the day that has ended.
Night ==
  /\ daemon /\ hour >= nextNight
  /\ runs["daemon"] = NotRunning
  /\ BeginRun("daemon", nextNight - Day, nextNight, After)
  /\ nextNight' = Midnight(hour)
  /\ UNCHANGED <<hour, madeAt, removed, events, daemon, removals, errors,
                 byHand, finished>>

\* -backfill asks for everything, -once for what a night would ask for.
ByHand ==
  /\ byHand < MaxByHand /\ byHand' = byHand + 1
  /\ runs["hand"] = NotRunning
  /\ \/ BeginRun("hand", -1, hour, -1)
     \/ BeginRun("hand", After, hour, After)
  /\ UNCHANGED <<hour, madeAt, removed, events, daemon, nextNight, removals,
                 errors, finished>>

\* What Swarm has of the run's time, and which place, the newest first, a
\* check-in has in it.
Found(w) == {c \in DOMAIN madeAt \ removed : madeAt[c] > runs[w].since}
Place(S, c) == Cardinality({d \in S : d >= c})
Lesser(a, b) == IF a <= b THEN a ELSE b

\* The answer to the next request: PageLimit of them from the offset on.
Page(w) ==
  [i \in 1 .. Lesser(PageLimit, Cardinality(Found(w)) - runs[w].offset) |->
     CHOOSE c \in Found(w) : Place(Found(w), c) = runs[w].offset + i]

\* FetchSince or FetchAll asks for a page, of what there is by then.
FetchPage(w) ==
  /\ Fetching(w)
  /\ runs' = [runs EXCEPT ![w].all = @ \o Page(w),
                          ![w].offset = @ + PageLimit,
                          ![w].stage = IF Len(Page(w)) < PageLimit THEN "insert"
                                       ELSE "fetch"]
  /\ UNCHANGED <<hour, madeAt, removed, events, daemon, nextNight, removals,
                 errors, byHand, finished>>

\* The next check-in of upsertAll.
Upserted(w) ==
  runs' = [runs EXCEPT ![w].all = Tail(@), ![w].stage = "insert"]

\* Events.Insert makes the event, or says 409 when the id has been used.
Insert(w) ==
  LET c == Head(runs[w].all) IN
  /\ runs[w].stage = "insert" /\ runs[w].all # <<>>
  /\ IF events[c] = "none"
     THEN events' = [events EXCEPT ![c] = "confirmed"] /\ Upserted(w)
     ELSE runs' = [runs EXCEPT ![w].stage = "update"] /\ UNCHANGED events
  /\ UNCHANGED <<hour, madeAt, removed, daemon, nextNight, removals, errors,
                 byHand, finished>>

\* Events.Update, with the status "confirmed".
Update(w) ==
  /\ runs[w].stage = "update"
  /\ events' = [events EXCEPT ![Head(runs[w].all)] = "confirmed"]
  /\ Upserted(w)
  /\ UNCHANGED <<hour, madeAt, removed, daemon, nextNight, removals, errors,
                 byHand, finished>>

\* A request fails, though it may have been applied: the run is over, and what
\* it had left is left.  The daemon logs it; by hand it ends the process.
RunFails(w) ==
  /\ runs[w] # NotRunning
  /\ errors < MaxErrors /\ errors' = errors + 1
  /\ runs' = [runs EXCEPT ![w] = NotRunning]
  /\ events' \in {events} \cup
       {[events EXCEPT ![c] = "confirmed"] :
          c \in {d \in Checkins :
                   /\ ~ Fetching(w) /\ runs[w].all # <<>>
                   /\ d = Head(runs[w].all)
                   /\ events[d] = "none" \/ runs[w].stage = "update"}}
  /\ UNCHANGED <<hour, madeAt, removed, daemon, nextNight, removals, byHand,
                 finished>>

\* Check-ins within the run's time that have no event, or one that was deleted
\* before the run.
LeftOut(run) ==
  {c \in DOMAIN madeAt \ removed :
     /\ run.from < madeAt[c] /\ madeAt[c] < run.until
     /\ events[c] # "confirmed" /\ c \notin run.deleted}

RunDone(w) ==
  LET run == runs[w] IN
  /\ run.stage = "insert" /\ run.all = <<>>
  /\ runs' = [runs EXCEPT ![w] = NotRunning]
  /\ finished' = finished \cup
       {[left |-> Cardinality(LeftOut(run)), removals |-> run.removals]}
  /\ UNCHANGED <<hour, madeAt, removed, events, daemon, nextNight, removals,
                 errors, byHand>>

\* The daemon is stopped, in the middle of a run or not; and started again,
\* when cron waits for the next midnight.
Stopped ==
  /\ daemon /\ errors < MaxErrors /\ errors' = errors + 1
  /\ daemon' = FALSE
  /\ runs' = [runs EXCEPT !["daemon"] = NotRunning]
  /\ UNCHANGED <<hour, madeAt, removed, events, nextNight, removals, byHand,
                 finished>>

StartedAgain ==
  /\ ~ daemon
  /\ daemon' = TRUE /\ nextNight' = Midnight(hour)
  /\ UNCHANGED <<hour, madeAt, removed, events, runs, removals, errors, byHand,
                 finished>>

RunStep ==
  \E w \in Runners : FetchPage(w) \/ Insert(w) \/ Update(w) \/ RunDone(w)

SwarmStep ==
  \/ HourPasses \/ CheckIn
  \/ \E c \in Checkins : RemoveCheckin(c) \/ DeleteEvent(c)
  \/ Night \/ ByHand \/ RunStep
  \/ \E w \in Runners : RunFails(w)
  \/ Stopped \/ StartedAgain

SwarmSpec == SwarmInit /\ [][SwarmStep]_swarmVars

-----------------------------------------------------------------------------
(* Correctness.                                                             *)

\* README, the day before is taken in every night and the whole history by a
\* backfill, with an hour of overlap "so that nothing is missed", and events
\* that were deleted come back: after a run without an error every check-in of
\* its time has its event, however late the run was, whatever was made
\* meanwhile and whatever another run did; it leaves out at most as many as
\* were removed between its pages.
LeftOutOnlyByRemovals == \A run \in finished : run.left <= run.removals
=============================================================================
