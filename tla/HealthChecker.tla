--------------------------- MODULE HealthChecker ---------------------------
(***************************************************************************)
(* The loop of status-page/health-checker (src/index.ts, src/rollup.ts)    *)
(* and the two tables it writes (src/db/index.ts): a row of `snapshots`    *)
(* per pass, and a row of `rollups_30m` per half-hour bucket, recomputed   *)
(* from the bucket's snapshots.                                            *)
(*                                                                         *)
(* One process, one loop: nothing else writes.  The database is remote, so *)
(* every request may fail, and one that writes may have been applied       *)
(* although its answer is an error.  A snapshot is known by its            *)
(* recordedAt; a rollup row, a sum over snapshots, by the set of snapshots *)
(* it sums.  All services are in every snapshot.                           *)
(***************************************************************************)
EXTENDS Integers, FiniteSets

CONSTANTS BucketSize,       \* ROLLUP_BUCKET_MS
          ChunkSize,        \* BACKFILL_CHUNK_MS
          Retention,        \* the 90 days of cleanOldRecords
          CleanupInterval,  \* CLEANUP_INTERVAL_MS
          \* Bounds of the model:
          MaxTime,          \* the clock's last instant
          MaxFailures,      \* database requests that fail
          MaxCrashes        \* times the process stops

ASSUME SizeAssumption ==
  /\ BucketSize \in Nat \ {0}
  /\ \E k \in 1 .. ChunkSize : ChunkSize = k * BucketSize
  /\ Retention \in Nat \ {0}
  /\ CleanupInterval \in Nat
ASSUME BoundAssumption ==
  /\ MaxTime \in Nat /\ CleanupInterval <= MaxTime
  /\ MaxFailures \in Nat
  /\ MaxCrashes \in Nat

VARIABLES now,
          phase,        \* where the loop is
          at,           \* tick's `now`, captured before the checks run
          watermark,    \* backfillRollups: getRollupWatermark's answer
          next, end,    \* backfillRollups: the chunk's start, the loop's end
          lastCleanup,
          snapshots,    \* instants recorded in the snapshots table
          rollups,      \* bucket -> snapshots its rollup rows sum, {} for none
          failures, crashes

\* What an observer remembers of the run.
VARIABLES taken,        \* every snapshot ever recorded
          unrolled,     \* those whose own rollup did not take place
          severed       \* those deleted while no newer bucket had a rollup

locals == <<at, watermark, next, end, lastCleanup>>
observed == <<taken, unrolled, severed>>
bounds == <<failures, crashes>>
vars == <<now, phase, locals, snapshots, rollups, bounds, observed>>

Times == 0 .. MaxTime
bucketStart(ms) == (ms \div BucketSize) * BucketSize
Buckets == {bucketStart(t) : t \in Times}
NoRollup == -1

Phases == {"init", "meta", "backfill", "chunks", "check", "insert", "rollup",
           "cleanup", "sleep", "ended", "down"}

TypeOK ==
  /\ now \in Times
  /\ phase \in Phases
  /\ at \in Times
  /\ watermark \in Buckets \cup {NoRollup}
  /\ next \in 0 .. MaxTime + ChunkSize
  /\ end \in Times
  /\ lastCleanup \in Times
  /\ snapshots \subseteq taken
  /\ rollups \in [Buckets -> SUBSET taken]
  /\ failures \in 0 .. MaxFailures
  /\ crashes \in 0 .. MaxCrashes
  /\ taken \subseteq 0 .. at
  /\ unrolled \subseteq taken
  /\ severed \subseteq taken \ snapshots

\* The last clean-up is longer ago than the interval when the process starts.
Init ==
  /\ now = CleanupInterval
  /\ phase = "init"
  /\ at = 0
  /\ watermark = NoRollup
  /\ next = 0
  /\ end = 0
  /\ lastCleanup = 0
  /\ snapshots = {}
  /\ rollups = [b \in Buckets |-> {}]
  /\ failures = 0
  /\ crashes = 0
  /\ taken = {}
  /\ unrolled = {}
  /\ severed = {}

-----------------------------------------------------------------------------
(* rollup.ts                                                               *)

InRange(start, stop) == {s \in snapshots : start <= s /\ s < stop}

\* Faulty: add to what the row has instead of computing it anew.
AddToRow(S) == [b \in Buckets |->
                  rollups[b] \cup {s \in S : bucketStart(s) = b /\ s = at}]

\* aggregateSnapshots: one new row for every bucket that has a snapshot in S.
aggregateSnapshots(S) == [b \in {bucketStart(s) : s \in S} |->
                            {s \in S : bucketStart(s) = b}]

\* upsertRollups(aggregateSnapshots(S)): these rows replace what is there.
Upserted(S) == LET rows == aggregateSnapshots(S)
               IN [b \in Buckets |-> IF b \in DOMAIN rows THEN rows[b]
                                     ELSE rollups[b]]

\* The buckets getRollupWatermark finds in the table.
BucketsWithRow == {b \in Buckets : rollups[b] # {}}

\* getRollupWatermark: max(bucket_ms).
NewestBucket ==
  IF BucketsWithRow = {} THEN NoRollup
  ELSE CHOOSE b \in BucketsWithRow : \A c \in BucketsWithRow : c <= b

\* getFirstSnapshotMs: min(recorded_at_ms).
FirstSnapshot == CHOOSE s \in snapshots : \A z \in snapshots : s <= z

\* Faulty: the newest bucket is taken to be complete.
AfterWatermark(w) == IF w = NoRollup THEN bucketStart(FirstSnapshot)
                     ELSE w + BucketSize

\* bucketStart(watermark ?? firstMs)
BackfillFrom(w) == IF w = NoRollup THEN bucketStart(FirstSnapshot)
                   ELSE bucketStart(w)

-----------------------------------------------------------------------------
\* A database request fails; how often is bounded.
RequestFails ==
  /\ failures < MaxFailures
  /\ failures' = failures + 1
  /\ UNCHANGED crashes

TimePasses ==
  /\ now < MaxTime
  /\ now' = now + 1
  /\ UNCHANGED <<phase, locals, snapshots, rollups, bounds, observed>>

\* initDb is tried every 10 s until it succeeds.
InitDb ==
  /\ phase = "init"
  /\ phase' = "meta"
  /\ UNCHANGED <<now, locals, snapshots, rollups, bounds, observed>>

\* syncServiceMeta is outside every try: if it throws, loop() ends and the
\* process lives on, answering /healthz.
SyncMeta ==
  /\ phase = "meta"
  /\ \/ phase' = "backfill" /\ UNCHANGED bounds
     \/ phase' = "ended" /\ RequestFails
  /\ UNCHANGED <<now, locals, snapshots, rollups, observed>>

\* backfillRollups up to its loop: nothing to do without snapshots.
BackfillBegins ==
  /\ phase = "backfill"
  /\ UNCHANGED <<now, at, lastCleanup, snapshots, rollups, observed>>
  /\ \/ /\ snapshots = {}
        /\ phase' = "check"
        /\ UNCHANGED <<watermark, next, end, bounds>>
     \/ /\ snapshots # {}
        /\ phase' = "chunks"
        /\ watermark' = NewestBucket
        /\ next' = BackfillFrom(NewestBucket)
        /\ end' = now
        /\ UNCHANGED bounds
     \/ /\ phase' = "check"
        /\ RequestFails
        /\ UNCHANGED <<watermark, next, end>>

\* One chunk: rollupRange(next, next + ChunkSize).
BackfillChunk ==
  /\ phase = "chunks"
  /\ next < end
  /\ rollups' = Upserted(InRange(next, next + ChunkSize))
  /\ next' = next + ChunkSize
  /\ UNCHANGED <<now, phase, at, watermark, end, lastCleanup, snapshots, bounds,
                 observed>>

\* A chunk fails, applied or not: the error is logged and the rest left out.
BackfillFails ==
  /\ phase = "chunks"
  /\ next < end
  /\ \/ rollups' = rollups
     \/ rollups' = Upserted(InRange(next, next + ChunkSize))
  /\ phase' = "check"
  /\ RequestFails
  /\ UNCHANGED <<now, locals, snapshots, observed>>

BackfillDone ==
  /\ phase = "chunks"
  /\ next >= end
  /\ phase' = "check"
  /\ UNCHANGED <<now, locals, snapshots, rollups, bounds, observed>>

-----------------------------------------------------------------------------
(* tick                                                                    *)

\* The time is taken before the checks, which may last into the next bucket.
TickBegins ==
  /\ phase = "check"
  /\ at' = now
  /\ phase' = "insert"
  /\ UNCHANGED <<now, watermark, next, end, lastCleanup, snapshots, rollups,
                 bounds, observed>>

\* The row is in the table; `heard` is whether the answer says so.
InsertSnapshot(heard) ==
  /\ phase = "insert"
  /\ snapshots' = snapshots \cup {at}
  /\ taken' = taken \cup {at}
  /\ IF heard
     THEN phase' = "rollup" /\ UNCHANGED <<unrolled, bounds>>
     ELSE phase' = "cleanup" /\ unrolled' = unrolled \cup {at} /\ RequestFails
  /\ UNCHANGED <<now, locals, rollups, severed>>

\* Faulty: the loop's catch around tick is missing.
LoopEnds == "ended"

\* tick().catch: the error is logged and the pass goes on.
AfterFailedTick == "cleanup"

InsertFails ==
  /\ phase = "insert"
  /\ phase' = AfterFailedTick
  /\ RequestFails
  /\ UNCHANGED <<now, locals, snapshots, rollups, observed>>

\* Faulty: the bucket of the moment the checks ended.
BucketOfEnd == bucketStart(now)

\* bucketStart(Date.parse(now)), with the `now` captured before the checks.
TickBucket == bucketStart(at)

RollupTick ==
  /\ phase = "rollup"
  /\ rollups' = Upserted(InRange(TickBucket, TickBucket + BucketSize))
  /\ phase' = "cleanup"
  /\ UNCHANGED <<now, locals, snapshots, bounds, observed>>

RollupFails ==
  /\ phase = "rollup"
  /\ \/ rollups' = rollups
     \/ rollups' = Upserted(InRange(TickBucket, TickBucket + BucketSize))
  /\ unrolled' = unrolled \cup {at}
  /\ phase' = AfterFailedTick
  /\ RequestFails
  /\ UNCHANGED <<now, locals, snapshots, taken, severed>>

-----------------------------------------------------------------------------
(* maybeCleanup and the pause.                                             *)

Old == {s \in snapshots : s < now - Retention}
CleanupDue == now - lastCleanup >= CleanupInterval

\* cleanOldRecords(90)
CleanOldRecords ==
  /\ snapshots' = snapshots \ Old
  /\ severed' = severed \cup {s \in Old : bucketStart(s) >= NewestBucket}
  /\ UNCHANGED <<taken, unrolled>>

NoCleanup ==
  /\ phase = "cleanup"
  /\ ~CleanupDue
  /\ phase' = "sleep"
  /\ UNCHANGED <<now, locals, snapshots, rollups, bounds, observed>>

Cleanup ==
  /\ phase = "cleanup"
  /\ CleanupDue
  /\ CleanOldRecords
  /\ lastCleanup' = now
  /\ phase' = "sleep"
  /\ UNCHANGED <<now, at, watermark, next, end, rollups, bounds>>

CleanupFails ==
  /\ phase = "cleanup"
  /\ CleanupDue
  /\ CleanOldRecords \/ UNCHANGED <<snapshots, observed>>
  /\ phase' = "sleep"
  /\ RequestFails
  /\ UNCHANGED <<now, locals, rollups>>

\* Bun.sleep(INTERVAL_MS): the next pass has another instant.
Wake ==
  /\ phase = "sleep"
  /\ now > at
  /\ phase' = "check"
  /\ UNCHANGED <<now, locals, snapshots, rollups, bounds, observed>>

Crash ==
  /\ phase # "down"
  /\ crashes < MaxCrashes
  /\ crashes' = crashes + 1
  /\ phase' = "down"
  /\ unrolled' = IF phase = "rollup" THEN unrolled \cup {at} ELSE unrolled
  /\ UNCHANGED <<now, locals, snapshots, rollups, failures, taken, severed>>

\* The container is restarted, which takes time; the process's memory is new.
Restart ==
  /\ phase = "down"
  /\ now > at
  /\ phase' = "init"
  /\ lastCleanup' = 0
  /\ UNCHANGED <<now, at, watermark, next, end, snapshots, rollups, bounds,
                 observed>>

LoopStep ==
  \/ InitDb \/ SyncMeta
  \/ BackfillBegins \/ BackfillChunk \/ BackfillFails \/ BackfillDone
  \/ TickBegins
  \/ \E heard \in BOOLEAN : InsertSnapshot(heard)
  \/ InsertFails
  \/ RollupTick \/ RollupFails
  \/ NoCleanup \/ Cleanup \/ CleanupFails
  \/ Wake
  \/ Restart

Next == TimePasses \/ LoopStep \/ Crash

\* Requests are answered or time out, sleeps end, the container is restarted.
Fairness == WF_vars(TimePasses) /\ WF_vars(LoopStep)

Spec == Init /\ [][Next]_vars /\ Fairness

-----------------------------------------------------------------------------
(* Correctness.                                                            *)

Counted(s) == s \in rollups[bucketStart(s)]

\* Every snapshot is in the rollup of its bucket from the end of its own pass
\* on, unless that pass was cut short; checks that last into the next bucket
\* do not matter.  It stays counted when the snapshot itself is deleted: only
\* a bucket that is still the newest one with a rollup when its snapshots
\* reach the end of the retention may be aggregated again, by a backfill.
CountedUnlessCutShort ==
  \A s \in taken \ (unrolled \cup severed) :
    Counted(s) \/ (phase = "rollup" /\ s = at)

\* A rollup has no hole: whatever requests failed before, it never counts a
\* snapshot of its bucket and leaves out an earlier one that is still there.
NoHole ==
  \A s \in snapshots, z \in taken :
    bucketStart(s) = bucketStart(z) /\ s < z /\ Counted(z) => Counted(s)

\* Every variable has its type, the backfill's bounds included, and no rollup
\* has a hole.
Safe == TypeOK /\ NoHole

\* When the backfill of a start ends without an error, every snapshot from
\* the newest aggregated bucket on is counted.
BackfillRepairs ==
  [][BackfillDone => \A s \in snapshots : s >= watermark => Counted(s)]_vars

\* A pass that has begun comes to its pause whatever requests fail in it.
PassEnds == phase = "insert" ~> phase \in {"sleep", "down"}

\* README of status-page: at startup the periods not yet aggregated are
\* backfilled.
BackfillCoversAll ==
  [][BackfillDone => \A s \in snapshots : Counted(s)]_vars

\* README of status-page: all services are checked every 60 seconds, so a
\* process that starts comes to check unless it stops again.
StartLeadsToChecks == phase = "init" ~> phase \in {"check", "down"}
=============================================================================
