------------------------ MODULE HealthCheckerProofs -------------------------
(***************************************************************************)
(* Proofs about HealthChecker, for any sizes of buckets and chunks, any     *)
(* retention and any bounds.                                                *)
(*                                                                         *)
(* What makes the rollups right is that a row is only ever computed from    *)
(* whole buckets, and only for buckets of which no snapshot was deleted     *)
(* unseen: RolledUpInv says so of the state between the steps.              *)
(***************************************************************************)
EXTENDS HealthChecker, QueueLemmas

-----------------------------------------------------------------------------
(* Buckets.                                                                *)

\* Starts of buckets.
Aligned(t) == \E k \in Nat : t = k * BucketSize

\* Buckets and chunks have a length.
LEMMA SizeTypes ==
  BucketSize \in Nat /\ BucketSize > 0 /\ ChunkSize \in Nat /\ ChunkSize > 0
<1>1. PICK k \in 1 .. ChunkSize : ChunkSize = k * BucketSize
  BY SizeAssumption
<1>2. k \in Nat /\ k > 0
  OBVIOUS
<1>. QED  BY <1>1, <1>2, SizeAssumption

\* A bucket starts before its snapshots and ends after them.
LEMMA BucketOf ==
  ASSUME NEW t \in Nat
  PROVE  /\ bucketStart(t) \in Nat /\ Aligned(bucketStart(t))
         /\ bucketStart(t) <= t /\ t < bucketStart(t) + BucketSize
<1>1. BucketSize \in Nat \ {0}
  BY SizeAssumption
<1>2. /\ t \div BucketSize \in Nat
      /\ (t \div BucketSize) * BucketSize \in Nat
      /\ (t \div BucketSize) * BucketSize <= t
      /\ t < (t \div BucketSize) * BucketSize + BucketSize
  BY <1>1
<1>. QED  BY <1>2 DEF bucketStart, Aligned

\* No bucket lies on both sides of the start of another.
LEMMA AlignedSplits ==
  ASSUME NEW t \in Nat, NEW a \in Nat, Aligned(a)
  PROVE  t >= a <=> bucketStart(t) >= a
<1>1. PICK k \in Nat : a = k * BucketSize
  BY DEF Aligned
<1>2. BucketSize \in Nat \ {0}
  BY SizeAssumption
<1>3. (t \div BucketSize) * BucketSize >= k * BucketSize <=> t >= k * BucketSize
  BY <1>2
<1>. QED  BY <1>1, <1>3 DEF bucketStart

\* The start of a bucket is in it.
LEMMA AlignedIsStart ==
  ASSUME NEW a \in Nat, Aligned(a)
  PROVE  bucketStart(a) = a
<1>1. PICK k \in Nat : a = k * BucketSize
  BY DEF Aligned
<1>2. BucketSize \in Nat \ {0}
  BY SizeAssumption
<1>3. ((k * BucketSize) \div BucketSize) * BucketSize = k * BucketSize
  BY <1>2
<1>. QED  BY <1>1, <1>3 DEF bucketStart

\* One bucket, or one chunk, after the start of a bucket another begins.
LEMMA AlignedAfter ==
  ASSUME NEW a \in Nat, Aligned(a)
  PROVE  Aligned(a + BucketSize) /\ Aligned(a + ChunkSize)
<1>1. PICK k \in Nat : a = k * BucketSize
  BY DEF Aligned
<1>2. PICK j \in Nat : ChunkSize = j * BucketSize
  BY SizeAssumption
<1>3. a + BucketSize = (k + 1) * BucketSize /\ a + ChunkSize = (k + j) * BucketSize
  BY <1>1, <1>2, SizeAssumption
<1>. QED  BY <1>3 DEF Aligned

\* Every instant of the model has a bucket.
LEMMA BucketTypes ==
  /\ \A t \in Times : bucketStart(t) \in Buckets
  /\ \A b \in Buckets : b \in Nat /\ b <= MaxTime /\ Aligned(b)
  /\ NoRollup \notin Buckets
<1>1. ASSUME NEW t \in Times
      PROVE  /\ bucketStart(t) \in Nat /\ bucketStart(t) <= MaxTime
             /\ Aligned(bucketStart(t))
  BY BucketOf, BoundAssumption DEF Times
<1>2. \A b \in Buckets : b \in Nat /\ b <= MaxTime /\ Aligned(b)
  BY <1>1 DEF Buckets
<1>. QED  BY <1>2 DEF Buckets, NoRollup

\* A set of instants that is not empty has a last one.
LEMMA LastOf ==
  ASSUME NEW S \in SUBSET Times, S # {}
  PROVE  \E x \in S : \A y \in S : y <= x
<1>. DEFINE T == {MaxTime - x : x \in S}
<1>1. S \subseteq 0 .. MaxTime /\ MaxTime \in Nat
  BY BoundAssumption DEF Times
<1>2. T \in SUBSET Nat /\ T # {}
  <2>1. \A x \in S : MaxTime - x \in Nat
    BY <1>1
  <2>. QED  BY <2>1
<1>3. PICK t \in T : \A y \in T : t <= y
  BY <1>2, FirstOf
<1>4. PICK x \in S : t = MaxTime - x
  BY <1>3
<1>5. ASSUME NEW y \in S
      PROVE  y <= x
  <2>1. MaxTime - y \in T
    BY <1>5
  <2>2. MaxTime - x <= MaxTime - y
    BY <1>3, <1>4, <2>1
  <2>. QED  BY <1>1, <1>4, <2>2
<1>. QED  BY <1>5

\* NewestBucket is the last bucket with a row.
LEMMA NewestBucketIsLast ==
  /\ NewestBucket \in Buckets \cup {NoRollup}
  /\ BucketsWithRow = {} => NewestBucket = NoRollup
  /\ BucketsWithRow # {} => /\ NewestBucket \in BucketsWithRow
                            /\ \A b \in BucketsWithRow : b <= NewestBucket
<1>1. CASE BucketsWithRow = {}
  BY <1>1 DEF NewestBucket
<1>2. CASE BucketsWithRow # {}
  <2>1. BucketsWithRow \in SUBSET Times /\ BucketsWithRow \subseteq Buckets
    BY BucketTypes, BoundAssumption DEF BucketsWithRow, Times
  <2>2. \E x \in BucketsWithRow : \A y \in BucketsWithRow : y <= x
    BY <1>2, <2>1, LastOf
  <2>. QED  BY <1>2, <2>1, <2>2 DEF NewestBucket
<1>. QED  BY <1>1, <1>2

-----------------------------------------------------------------------------
(* The inductive invariant.                                                *)

\* A row sums snapshots of its bucket.
RowsInBucket == \A b \in Buckets : \A s \in rollups[b] : bucketStart(s) = b

\* A pass has an instant of its own, later than every recorded one.
InTime ==
  /\ at <= now
  /\ phase \in {"init", "meta", "backfill", "chunks", "check"} =>
       \A s \in taken : s < now
  /\ phase = "insert" => \A s \in taken : s < at
  /\ phase = "rollup" => at \in snapshots

\* A deleted snapshot is in a bucket that will not be computed again, unless it
\* was severed.
DeletedForGood ==
  \A s \in taken \ snapshots : s \in severed \/ bucketStart(s) < NewestBucket

\* The backfill goes through whole buckets, from the newest one that had a row
\* on, and what it has passed is counted.
Backfilling ==
  phase = "chunks" =>
    /\ Aligned(next) /\ watermark <= next
    /\ \A s \in taken \ snapshots : s \in severed \/ bucketStart(s) < watermark
    /\ \A s \in snapshots : s < end
    /\ \A s \in snapshots : watermark <= s /\ s < next => Counted(s)

RolledUpInv == /\ TypeOK /\ RowsInBucket /\ InTime /\ DeletedForGood /\ Backfilling
               /\ CountedUnlessCutShort /\ NoHole

-----------------------------------------------------------------------------
(* Computing rows anew.                                                    *)

\* The row of a bucket after an upsert.
LEMMA UpsertedRow ==
  ASSUME NEW S, NEW b \in Buckets
  PROVE  Upserted(S)[b] = IF \E s \in S : bucketStart(s) = b
                          THEN {s \in S : bucketStart(s) = b} ELSE rollups[b]
BY DEF Upserted, aggregateSnapshots

\* The instants of snapshots and of their buckets.
LEMMA SnapshotTypes ==
  ASSUME TypeOK
  PROVE  /\ now \in Nat /\ at \in Nat /\ MaxTime \in Nat /\ now <= MaxTime
         /\ at <= MaxTime /\ Times = 0 .. MaxTime
         /\ snapshots \subseteq taken /\ taken \subseteq 0 .. at /\ taken \subseteq Times
         /\ \A s \in taken : /\ s \in Nat /\ s <= at
                             /\ bucketStart(s) \in Buckets /\ bucketStart(s) \in Nat
                             /\ Aligned(bucketStart(s))
                             /\ bucketStart(s) <= s
<1>1. /\ now \in Nat /\ at \in Nat /\ MaxTime \in Nat /\ now <= MaxTime
      /\ at <= MaxTime /\ Times = 0 .. MaxTime
      /\ snapshots \subseteq taken /\ taken \subseteq 0 .. at
  BY BoundAssumption DEF TypeOK, Times
<1>2. \A s \in taken : s \in Nat /\ s <= at /\ s \in Times
  BY <1>1
<1>. QED  BY <1>1, <1>2, BucketOf, BucketTypes

\* Whole buckets are computed anew, of which no deleted snapshot counts: the
\* snapshots that are there are counted, and whatever was counted still is.
LEMMA Recomputed ==
  ASSUME TypeOK, RowsInBucket, NoHole,
         NEW start \in Nat, NEW stop \in Nat, Aligned(start), Aligned(stop),
         rollups' = Upserted(InRange(start, stop)),
         UNCHANGED <<snapshots, taken, severed>>,
         \A s \in taken \ snapshots : s \in severed \/ bucketStart(s) < start
  PROVE  /\ rollups' \in [Buckets -> SUBSET taken]
         /\ RowsInBucket'
         /\ \A s \in snapshots : start <= s /\ s < stop => Counted(s)'
         /\ \A s \in taken \ severed : Counted(s) => Counted(s)'
         /\ NoHole'
         /\ BucketsWithRow \subseteq BucketsWithRow'
<1>. DEFINE S == InRange(start, stop)
            hit(b) == \E s \in S : bucketStart(s) = b
<1>. USE SnapshotTypes
<1>1. ASSUME NEW b \in Buckets
      PROVE  rollups'[b] = IF hit(b) THEN {s \in S : bucketStart(s) = b} ELSE rollups[b]
  BY UpsertedRow
<1>2. S \subseteq snapshots /\ \A s \in snapshots : s \in S <=> start <= s /\ s < stop
  BY DEF InRange
<1>3. rollups' = [b \in Buckets |-> rollups'[b]]
  BY DEF Upserted
<1>4. rollups' \in [Buckets -> SUBSET taken]
  <2>1. ASSUME NEW b \in Buckets
        PROVE  rollups'[b] \subseteq taken
    <3>1. rollups[b] \subseteq taken
      BY DEF TypeOK
    <3>2. {s \in S : bucketStart(s) = b} \subseteq taken
      BY <1>2
    <3>. QED  BY ZenonT(30), <1>1, <3>1, <3>2
  <2>. QED  BY <1>3, <2>1
<1>5. RowsInBucket'
  <2>1. ASSUME NEW b \in Buckets, NEW s \in rollups'[b]
        PROVE  bucketStart(s) = b
    <3>1. CASE hit(b)
      BY ONLY <1>1, <2>1, <3>1, ZenonT(30)
    <3>2. CASE ~hit(b)
      <4>1. s \in rollups[b]
        BY ONLY <1>1, <2>1, <3>2, ZenonT(30)
      <4>. QED  BY ONLY <4>1, <2>1, RowsInBucket, ZenonT(30) DEF RowsInBucket
    <3>. QED  BY ONLY <3>1, <3>2
  <2>. QED  BY ONLY <2>1 DEF RowsInBucket, Buckets
\* A bucket that is hit lies within the range.
<1>6. ASSUME NEW b \in Buckets, hit(b), NEW s \in taken, bucketStart(s) = b
      PROVE  start <= s /\ s < stop /\ start <= b
  <2>1. PICK z \in S : bucketStart(z) = b
    BY <1>6
  <2>2. z \in Nat /\ start <= z /\ z < stop
    BY <1>2, <2>1
  <2>3. b >= start /\ ~ (b >= stop)
    BY <2>1, <2>2, AlignedSplits
  <2>4. s \in Nat
    OBVIOUS
  <2>. QED  BY <1>6, <2>3, <2>4, AlignedSplits
<1>7. ASSUME NEW s \in snapshots, hit(bucketStart(s))
      PROVE  Counted(s)'
  <2>1. s \in taken /\ bucketStart(s) \in Buckets
    OBVIOUS
  <2>2. s \in S
    BY <1>2, <1>6, <1>7, <2>1
  <2>. QED  BY <1>1, <1>7, <2>1, <2>2 DEF Counted
<1>8. ASSUME NEW s \in snapshots, start <= s, s < stop
      PROVE  Counted(s)'
  BY <1>2, <1>7, <1>8
<1>9. ASSUME NEW s \in taken \ severed, Counted(s)
      PROVE  Counted(s)'
  <2>1. CASE s \in snapshots /\ hit(bucketStart(s))
    BY <1>7, <2>1
  <2>2. CASE ~ hit(bucketStart(s))
    BY <1>1, <1>9, <2>2 DEF Counted
  <2>3. CASE s \notin snapshots
    <3>1. bucketStart(s) < start
      BY <2>3
    <3>2. ~ hit(bucketStart(s))
      BY <1>6, <3>1
    <3>. QED  BY <2>2, <3>2
  <2>. QED  BY <2>1, <2>2, <2>3
<1>10. NoHole'
  <2>. SUFFICES ASSUME NEW s \in snapshots, NEW z \in taken,
                       bucketStart(s) = bucketStart(z), s < z, Counted(z)'
                PROVE  Counted(s)'
    BY DEF NoHole
  <2>1. CASE hit(bucketStart(s))
    BY <1>7, <2>1
  <2>2. CASE ~ hit(bucketStart(s))
    <3>1. bucketStart(s) \in Buckets /\ s \in taken
      OBVIOUS
    <3>2. Counted(z)
      BY <1>1, <2>2, <3>1 DEF Counted
    <3>3. Counted(s)
      BY <3>2 DEF NoHole
    <3>. QED  BY <1>1, <2>2, <3>1, <3>3 DEF Counted
  <2>. QED  BY <2>1, <2>2
<1>11. BucketsWithRow \subseteq BucketsWithRow'
  <2>. SUFFICES ASSUME NEW b \in Buckets, rollups[b] # {}
                PROVE  rollups'[b] # {}
    BY DEF BucketsWithRow
  <2>. QED  BY <1>1
<1>. QED  BY <1>4, <1>5, <1>8, <1>9, <1>10, <1>11

\* With more rows the newest one is no older.
LEMMA NewestBucketGrows ==
  ASSUME BucketsWithRow \subseteq BucketsWithRow'
  PROVE  NewestBucket <= NewestBucket'
<1>1. CASE BucketsWithRow = {}
  <2>1. NewestBucket = NoRollup /\ NewestBucket' \in Buckets \cup {NoRollup}
    <3>1. (NewestBucket \in Buckets \cup {NoRollup})'
      BY NewestBucketIsLast, PTL
    <3>2. NoRollup' = NoRollup /\ Buckets' = Buckets
      BY DEF NoRollup, Buckets, Times, bucketStart
    <3>. QED  BY <1>1, <3>1, <3>2, NewestBucketIsLast
  <2>. QED  BY <2>1, BucketTypes DEF NoRollup
<1>2. CASE BucketsWithRow # {}
  <2>1. (\A b \in BucketsWithRow : b <= NewestBucket)'
    <3>1. (BucketsWithRow # {} => \A b \in BucketsWithRow : b <= NewestBucket)'
      BY NewestBucketIsLast, PTL
    <3>. QED  BY <1>2, <3>1
  <2>. QED  BY <1>2, <2>1, NewestBucketIsLast
<1>. QED  BY <1>1, <1>2

\* So what was deleted for good stays so.
LEMMA RecountedDeleted ==
  ASSUME TypeOK, DeletedForGood, BucketsWithRow \subseteq BucketsWithRow',
         UNCHANGED <<snapshots, taken, severed>>
  PROVE  DeletedForGood'
<1>1. NewestBucket <= NewestBucket'
  BY NewestBucketGrows
<1>2. NewestBucket \in Int
  BY NewestBucketIsLast, BucketTypes DEF NoRollup
<1>3. NewestBucket' \in Int
  <2>1. (NewestBucket \in Buckets \cup {NoRollup})'
    BY NewestBucketIsLast, PTL
  <2>. QED  BY <2>1, BucketTypes DEF NoRollup, Buckets, Times, bucketStart
<1>4. \A s \in taken : bucketStart(s) \in Nat
  BY SnapshotTypes
<1>. QED  BY <1>1, <1>2, <1>3, <1>4 DEF DeletedForGood

\* What a recomputation keeps of the invariant.
Recounted ==
  /\ rollups' \in [Buckets -> SUBSET taken]
  /\ RowsInBucket' /\ NoHole' /\ DeletedForGood'
  /\ \A s \in taken \ severed : Counted(s) => Counted(s)'

\* A pass computes the row of its own bucket, the newest there is.
LEMMA TickRecounts ==
  ASSUME RolledUpInv, phase = "rollup",
         rollups' = Upserted(InRange(TickBucket, TickBucket + BucketSize)),
         UNCHANGED <<at, snapshots, taken, severed>>
  PROVE  Recounted /\ Counted(at)'
<1>. USE SnapshotTypes DEF RolledUpInv
<1>1. /\ TickBucket \in Nat /\ TickBucket + BucketSize \in Nat
      /\ Aligned(TickBucket) /\ Aligned(TickBucket + BucketSize)
      /\ TickBucket <= at /\ at < TickBucket + BucketSize
  <2>1. /\ TickBucket \in Nat /\ Aligned(TickBucket)
        /\ TickBucket <= at /\ at < TickBucket + BucketSize
    BY BucketOf DEF TickBucket
  <2>. HIDE DEF TickBucket
  <2>. QED  BY <2>1, AlignedAfter, SizeTypes
<1>2. NewestBucket <= TickBucket
  <2>1. CASE BucketsWithRow = {}
    BY <1>1, <2>1, NewestBucketIsLast DEF NoRollup
  <2>2. CASE BucketsWithRow # {}
    <3>1. NewestBucket \in Buckets /\ rollups[NewestBucket] # {}
      BY <2>2, NewestBucketIsLast DEF BucketsWithRow
    <3>2. PICK z \in rollups[NewestBucket] : TRUE
      BY <3>1
    <3>3. z \in taken /\ bucketStart(z) = NewestBucket
      BY <3>1, <3>2 DEF TypeOK, RowsInBucket
    <3>4. at >= bucketStart(z) /\ bucketStart(z) \in Nat /\ Aligned(bucketStart(z))
      BY <3>3
    <3>. QED  BY <3>3, <3>4, AlignedSplits DEF TickBucket
  <2>. QED  BY <2>1, <2>2
<1>3. \A s \in taken \ snapshots : s \in severed \/ bucketStart(s) < TickBucket
  <2>1. NewestBucket \in Int
    BY NewestBucketIsLast, BucketTypes DEF NoRollup
  <2>. QED  BY <1>1, <1>2, <2>1 DEF DeletedForGood
<1>. HIDE DEF TickBucket
<1>4. /\ rollups' \in [Buckets -> SUBSET taken]
      /\ RowsInBucket' /\ NoHole'
      /\ \A s \in snapshots : TickBucket <= s /\ s < TickBucket + BucketSize => Counted(s)'
      /\ \A s \in taken \ severed : Counted(s) => Counted(s)'
      /\ BucketsWithRow \subseteq BucketsWithRow'
  BY <1>1, <1>3, Recomputed
<1>5. DeletedForGood'
  BY <1>4, NewestBucketGrows, RecountedDeleted
<1>6. Counted(at)'
  <2>1. at \in snapshots
    BY DEF InTime
  <2>. QED  BY <1>1, <1>4, <2>1 DEF Counted
<1>. QED  BY <1>4, <1>5, <1>6 DEF Recounted

\* The backfill computes the rows of its next chunk.
LEMMA ChunkRecounts ==
  ASSUME RolledUpInv, phase = "chunks",
         rollups' = Upserted(InRange(next, next + ChunkSize)),
         UNCHANGED <<snapshots, taken, severed>>
  PROVE  /\ Recounted
         /\ Aligned(next + ChunkSize)
         /\ \A s \in snapshots :
              watermark <= s /\ s < next + ChunkSize => Counted(s)'
<1>. USE SnapshotTypes DEF RolledUpInv
<1>1. /\ next \in Nat /\ next + ChunkSize \in Nat
      /\ Aligned(next) /\ Aligned(next + ChunkSize)
  <2>1. next \in Nat /\ Aligned(next)
    BY SizeTypes DEF TypeOK, Backfilling
  <2>. QED  BY <2>1, AlignedAfter, SizeTypes
<1>2. watermark \in Int /\ watermark <= next
  BY BucketTypes DEF TypeOK, Backfilling, NoRollup
<1>3. \A s \in taken \ snapshots : s \in severed \/ bucketStart(s) < next
  BY <1>1, <1>2 DEF Backfilling
<1>4. /\ rollups' \in [Buckets -> SUBSET taken]
      /\ RowsInBucket' /\ NoHole'
      /\ \A s \in snapshots : next <= s /\ s < next + ChunkSize => Counted(s)'
      /\ \A s \in taken \ severed : Counted(s) => Counted(s)'
      /\ BucketsWithRow \subseteq BucketsWithRow'
  BY <1>1, <1>3, Recomputed
<1>5. DeletedForGood'
  BY <1>4, NewestBucketGrows, RecountedDeleted
<1>6. ASSUME NEW s \in snapshots, watermark <= s, s < next + ChunkSize
      PROVE  Counted(s)'
  <2>1. CASE next <= s
    BY <1>4, <1>6, <2>1
  <2>2. CASE ~ (next <= s)
    <3>1. s \in Nat /\ s < next
      BY <1>1, <2>2
    <3>2. Counted(s)
      BY <1>6, <3>1 DEF Backfilling
    <3>3. s \in taken \ severed
      BY DEF TypeOK
    <3>. QED  BY <1>4, <3>2, <3>3
  <2>. QED  BY <2>1, <2>2
<1>. QED  BY <1>1, <1>4, <1>5, <1>6 DEF Recounted

\* The backfill starts at the start of a bucket: the newest one with a row, or
\* else the one of the first snapshot, before which there is nothing.
LEMMA BackfillFromFits ==
  ASSUME TypeOK, snapshots # {}
  PROVE  /\ BackfillFrom(NewestBucket) \in Nat
         /\ BackfillFrom(NewestBucket) <= MaxTime
         /\ Aligned(BackfillFrom(NewestBucket))
         /\ NewestBucket <= BackfillFrom(NewestBucket)
         /\ \A s \in snapshots : NewestBucket <= s => BackfillFrom(NewestBucket) <= s
<1>. USE SnapshotTypes
<1>1. CASE NewestBucket = NoRollup
  <2>1. \E x \in snapshots : \A y \in snapshots : x <= y
    BY FirstOf
  <2>2. FirstSnapshot \in snapshots /\ \A y \in snapshots : FirstSnapshot <= y
    BY <2>1 DEF FirstSnapshot
  <2>3. BackfillFrom(NewestBucket) = bucketStart(FirstSnapshot)
    BY <1>1 DEF BackfillFrom
  <2>4. /\ FirstSnapshot \in Nat /\ FirstSnapshot <= MaxTime
        /\ bucketStart(FirstSnapshot) \in Nat /\ Aligned(bucketStart(FirstSnapshot))
        /\ bucketStart(FirstSnapshot) <= FirstSnapshot
    BY <2>2
  <2>. QED  BY <1>1, <2>2, <2>3, <2>4 DEF NoRollup
<1>2. CASE NewestBucket # NoRollup
  <2>1. NewestBucket \in Buckets
    BY <1>2, NewestBucketIsLast
  <2>2. NewestBucket \in Nat /\ NewestBucket <= MaxTime /\ Aligned(NewestBucket)
    BY <2>1, BucketTypes
  <2>3. BackfillFrom(NewestBucket) = NewestBucket
    BY <1>2, <2>2, AlignedIsStart DEF BackfillFrom
  <2>. QED  BY <2>2, <2>3
<1>. QED  BY <1>1, <1>2

-----------------------------------------------------------------------------
(* Every step keeps the invariant.                                         *)

\* A step leaves the rows alone or computes some of them anew, and then it
\* leaves the snapshots alone.
LEMMA RowSteps ==
  ASSUME RolledUpInv, [Next]_vars
  PROVE  \/ UNCHANGED rollups
         \/ UNCHANGED <<at, snapshots, taken, severed>> /\ Recounted
<1>. USE DEF locals, observed, bounds
<1>1. CASE BackfillChunk \/ BackfillFails
  <2>1. /\ phase = "chunks" /\ UNCHANGED <<at, snapshots, taken, severed>>
        /\ \/ UNCHANGED rollups
           \/ rollups' = Upserted(InRange(next, next + ChunkSize))
    BY <1>1 DEF BackfillChunk, BackfillFails
  <2>. QED  BY <2>1, ChunkRecounts
<1>2. CASE RollupTick \/ RollupFails
  <2>1. /\ phase = "rollup" /\ UNCHANGED <<at, snapshots, taken, severed>>
        /\ \/ UNCHANGED rollups
           \/ rollups' = Upserted(InRange(TickBucket, TickBucket + BucketSize))
    BY <1>2 DEF RollupTick, RollupFails
  <2>. QED  BY <2>1, TickRecounts
<1>3. CASE ~ (BackfillChunk \/ BackfillFails \/ RollupTick \/ RollupFails)
  BY <1>3 DEF Next, LoopStep, TimePasses, InitDb, SyncMeta, BackfillBegins, BackfillDone,
     TickBegins, InsertSnapshot, InsertFails, NoCleanup, Cleanup, CleanupFails, Wake,
     Restart, Crash, vars
<1>. QED  BY <1>1, <1>2, <1>3

\* The snapshots and what an observer remembers of them.
LEMMA SnapshotSteps ==
  ASSUME RolledUpInv, [Next]_vars
  PROVE  /\ taken' \subseteq 0 .. at' /\ at' \in Times /\ now' \in Times
         /\ snapshots' \subseteq taken' /\ unrolled' \subseteq taken'
         /\ severed' \subseteq taken' \ snapshots'
         /\ InTime' /\ taken \subseteq taken' /\ severed \subseteq severed'
<1>. USE SnapshotTypes DEF RolledUpInv, InTime, locals, observed, bounds
<1>0. unrolled \subseteq taken /\ severed \subseteq taken \ snapshots
  BY DEF TypeOK
<1>1. CASE TimePasses
  BY <1>0, <1>1 DEF TimePasses
<1>2. CASE \/ InitDb \/ SyncMeta \/ BackfillBegins \/ BackfillChunk \/ BackfillFails
           \/ BackfillDone \/ NoCleanup
  <2>1. /\ UNCHANGED <<now, at, snapshots, observed>>
        /\ phase' \in {"meta", "backfill", "chunks", "check", "ended", "sleep"}
        /\ phase' # "ended" /\ phase' # "sleep" =>
             phase \in {"init", "meta", "backfill", "chunks", "check"}
    BY <1>2 DEF InitDb, SyncMeta, BackfillBegins, BackfillChunk, BackfillFails,
       BackfillDone, NoCleanup
  <2>. QED  BY <1>0, <2>1
<1>3. CASE TickBegins
  BY <1>0, <1>3 DEF TickBegins
<1>4. CASE \E heard \in BOOLEAN : InsertSnapshot(heard)
  <2>1. /\ snapshots' = snapshots \cup {at} /\ taken' = taken \cup {at}
        /\ unrolled' \subseteq unrolled \cup {at}
        /\ UNCHANGED <<now, at, severed>>
        /\ phase = "insert" /\ phase' \in {"rollup", "cleanup"}
    BY <1>4 DEF InsertSnapshot
  <2>2. at \notin taken
    BY <2>1
  <2>. QED  BY <1>0, <2>1, <2>2
<1>5. CASE InsertFails \/ RollupTick \/ RollupFails
  <2>1. /\ UNCHANGED <<now, at, snapshots, taken, severed>> /\ phase' = "cleanup"
        /\ unrolled' = unrolled \/ (phase = "rollup" /\ unrolled' = unrolled \cup {at})
    BY <1>5 DEF InsertFails, RollupTick, RollupFails, AfterFailedTick
  <2>. QED  BY <1>0, <2>1
<1>6. CASE Cleanup \/ CleanupFails
  <2>1. /\ UNCHANGED <<now, at, taken, unrolled>> /\ phase' = "sleep"
        /\ \/ UNCHANGED <<snapshots, severed>>
           \/ /\ snapshots' = snapshots \ Old
              /\ severed' = severed \cup {s \in Old : bucketStart(s) >= NewestBucket}
    BY <1>6 DEF Cleanup, CleanupFails, CleanOldRecords
  <2>2. Old \subseteq snapshots
    BY DEF Old
  <2>. QED  BY <1>0, <2>1, <2>2
<1>7. CASE Wake \/ Restart
  BY <1>0, <1>7 DEF Wake, Restart
<1>8. CASE Crash
  BY <1>0, <1>8 DEF Crash
<1>9. CASE UNCHANGED vars
  BY <1>0, <1>9 DEF vars
<1>. QED
  BY <1>1, <1>2, <1>3, <1>4, <1>5, <1>6, <1>7, <1>8, <1>9 DEF Next, LoopStep

\* Every step keeps the state well typed.
LEMMA TypeNext ==
  ASSUME RolledUpInv, [Next]_vars
  PROVE  TypeOK'
<1>. USE BoundAssumption DEF locals, observed, bounds
<1>0. TypeOK
  BY DEF RolledUpInv
<1>1. rollups' \in [Buckets -> SUBSET taken']
  <2>1. taken \subseteq taken'
    BY SnapshotSteps
  <2>2. rollups' \in [Buckets -> SUBSET taken]
    BY <1>0, RowSteps DEF TypeOK, Recounted
  <2>. QED  BY <2>1, <2>2
<1>2. phase' \in Phases /\ failures' \in 0 .. MaxFailures /\ crashes' \in 0 .. MaxCrashes
  BY <1>0 DEF TypeOK, Phases, RequestFails, Next, LoopStep, TimePasses, InitDb, SyncMeta,
     BackfillBegins, BackfillChunk, BackfillFails, BackfillDone, TickBegins,
     InsertSnapshot, InsertFails, AfterFailedTick, RollupTick, RollupFails, NoCleanup,
     Cleanup, CleanupFails, Wake, Restart, Crash, vars
<1>3. /\ watermark' \in Buckets \cup {NoRollup} /\ next' \in 0 .. MaxTime + ChunkSize
      /\ end' \in Times /\ lastCleanup' \in Times
  <2>1. CASE BackfillBegins
    <3>1. NewestBucket \in Buckets \cup {NoRollup}
      BY NewestBucketIsLast
    <3>2. snapshots # {} =>
            BackfillFrom(NewestBucket) \in Nat /\ BackfillFrom(NewestBucket) <= MaxTime
      BY <1>0, BackfillFromFits
    <3>. QED  BY <1>0, <2>1, <3>1, <3>2, SizeTypes DEF BackfillBegins, TypeOK, Times
  <2>2. CASE BackfillChunk
    BY <1>0, <2>2, SizeTypes DEF BackfillChunk, TypeOK, Times
  <2>3. CASE Cleanup
    BY <1>0, <2>3 DEF Cleanup, TypeOK
  <2>4. CASE Restart
    BY <1>0, <2>4 DEF Restart, TypeOK, Times
  <2>5. CASE ~ (BackfillBegins \/ BackfillChunk \/ Cleanup \/ Restart)
    <3>1. UNCHANGED <<watermark, next, end, lastCleanup>>
      BY <2>5 DEF Next, LoopStep, TimePasses, InitDb, SyncMeta, BackfillFails,
         BackfillDone, TickBegins, InsertSnapshot, InsertFails, RollupTick, RollupFails,
         NoCleanup, CleanupFails, Wake, Crash, vars
    <3>. QED  BY <1>0, <3>1 DEF TypeOK
  <2>. QED  BY <2>1, <2>2, <2>3, <2>4, <2>5
<1>. QED  BY <1>1, <1>2, <1>3, SnapshotSteps DEF TypeOK

\* The rows keep summing snapshots of their buckets, without holes; and what is
\* deleted is deleted for good.
LEMMA TablesNext ==
  ASSUME RolledUpInv, [Next]_vars
  PROVE  RowsInBucket' /\ NoHole' /\ DeletedForGood'
<1>. USE SnapshotTypes DEF RolledUpInv, locals, observed, bounds
<1>1. CASE Recounted
  BY <1>1 DEF Recounted
<1>2. CASE UNCHANGED rollups
  <2>1. NewestBucket' = NewestBucket /\ \A s : Counted(s)' = Counted(s)
    BY <1>2 DEF NewestBucket, BucketsWithRow, Counted
  <2>2. RowsInBucket'
    BY <1>2 DEF RowsInBucket
  <2>3. CASE \E heard \in BOOLEAN : InsertSnapshot(heard)
    <3>1. /\ phase = "insert" /\ snapshots' = snapshots \cup {at}
          /\ taken' = taken \cup {at} /\ UNCHANGED severed
      BY <2>3 DEF InsertSnapshot
    <3>2. \A s \in taken : s < at
      BY <3>1 DEF InTime
    <3>3. ~ Counted(at)
      <4>1. \A b \in Buckets : rollups[b] \subseteq taken
        BY DEF TypeOK
      <4>2. bucketStart(at) \in Buckets
        BY BucketTypes DEF TypeOK
      <4>. QED  BY <3>2, <4>1, <4>2 DEF Counted
    <3>4. NoHole'
      <4>. SUFFICES ASSUME NEW s \in snapshots', NEW z \in taken',
                           bucketStart(s) = bucketStart(z), s < z, Counted(z)
                    PROVE  Counted(s)
        BY <2>1 DEF NoHole
      <4>1. z \in taken
        BY <3>1, <3>3
      <4>2. s \in snapshots
        BY <3>1, <3>2, <4>1
      <4>. QED  BY <4>1, <4>2 DEF NoHole
    <3>5. DeletedForGood'
      BY <2>1, <3>1 DEF DeletedForGood
    <3>. QED  BY <2>2, <3>4, <3>5
  <2>4. CASE Cleanup \/ CleanupFails
    <3>1. /\ UNCHANGED taken
          /\ \/ UNCHANGED <<snapshots, severed>>
             \/ /\ snapshots' = snapshots \ Old
                /\ severed' = severed \cup {s \in Old : bucketStart(s) >= NewestBucket}
      BY <2>4 DEF Cleanup, CleanupFails, CleanOldRecords
    <3>2. NoHole'
      BY <2>1, <3>1 DEF NoHole
    <3>3. DeletedForGood'
      <4>1. NewestBucket \in Int
        BY NewestBucketIsLast, BucketTypes DEF NoRollup
      <4>2. ASSUME NEW s \in taken' \ snapshots'
            PROVE  s \in severed' \/ bucketStart(s) < NewestBucket
        <5>1. CASE s \in taken \ snapshots
          BY <3>1, <5>1 DEF DeletedForGood
        <5>2. CASE s \in snapshots
          <6>1. s \in Old /\ bucketStart(s) \in Nat
            BY <3>1, <4>2, <5>2
          <6>. QED  BY <3>1, <4>1, <4>2, <5>2, <6>1
        <5>. QED  BY <3>1, <4>2, <5>1, <5>2
      <4>. QED  BY <2>1, <4>2 DEF DeletedForGood
    <3>. QED  BY <2>2, <3>2, <3>3
  <2>5. CASE ~ ((\E heard \in BOOLEAN : InsertSnapshot(heard)) \/ Cleanup \/ CleanupFails)
    <3>1. UNCHANGED <<snapshots, taken, severed>>
      BY <2>5 DEF Next, LoopStep, TimePasses, InitDb, SyncMeta, BackfillBegins,
         BackfillChunk, BackfillFails, BackfillDone, TickBegins, InsertFails, RollupTick,
         RollupFails, NoCleanup, Wake, Restart, Crash, vars
    <3>2. NoHole' /\ DeletedForGood'
      BY <2>1, <3>1 DEF NoHole, DeletedForGood
    <3>. QED  BY <2>2, <3>2
  <2>. QED  BY <2>3, <2>4, <2>5
<1>. QED  BY <1>1, <1>2, RowSteps

\* What is counted stays counted unless it is severed.
LEMMA CountedStays ==
  ASSUME RolledUpInv, [Next]_vars, NEW s \in taken \ severed', Counted(s)
  PROVE  Counted(s)'
<1>1. s \notin severed
  BY SnapshotSteps
<1>2. CASE UNCHANGED rollups
  BY <1>2 DEF Counted
<1>3. CASE Recounted
  BY <1>1, <1>3 DEF Recounted
<1>. QED  BY <1>2, <1>3, RowSteps

\* Every snapshot is counted from the end of its own pass on.
LEMMA CountedNext ==
  ASSUME RolledUpInv, [Next]_vars
  PROVE  CountedUnlessCutShort'
<1>. USE DEF locals, observed, bounds
<1>. SUFFICES ASSUME NEW s \in taken' \ (unrolled' \cup severed')
              PROVE  Counted(s)' \/ (phase' = "rollup" /\ s = at')
  BY DEF CountedUnlessCutShort
<1>1. s \notin taken =>
        /\ phase' = "rollup" /\ s = at'
  BY DEF Next, LoopStep, TimePasses, InitDb, SyncMeta, BackfillBegins,
     BackfillChunk, BackfillFails, BackfillDone, TickBegins, InsertSnapshot, InsertFails,
     RollupTick, RollupFails, NoCleanup, Cleanup, CleanupFails, CleanOldRecords, Wake,
     Restart, Crash, vars
<1>2. unrolled \subseteq unrolled'
  BY DEF Next, LoopStep, TimePasses, InitDb, SyncMeta, BackfillBegins,
     BackfillChunk, BackfillFails, BackfillDone, TickBegins, InsertSnapshot, InsertFails,
     RollupTick, RollupFails, NoCleanup, Cleanup, CleanupFails, CleanOldRecords, Wake,
     Restart, Crash, vars
<1>3. CASE s \in taken /\ Counted(s)
  BY <1>3, CountedStays
<1>4. CASE s \in taken /\ ~ Counted(s)
  <2>1. phase = "rollup" /\ s = at
    BY <1>2, <1>4, SnapshotSteps DEF RolledUpInv, CountedUnlessCutShort
  <2>2. CASE RollupTick
    <3>1. Counted(at)' /\ at' = at
      BY <2>1, <2>2, TickRecounts DEF RollupTick
    <3>. QED  BY <2>1, <3>1 DEF Counted
  <2>3. CASE ~ RollupTick
    <3>1. at \in unrolled' \/ (phase' = "rollup" /\ at' = at)
      BY <2>1, <2>3 DEF Next, LoopStep, TimePasses, InitDb, SyncMeta, BackfillBegins,
         BackfillChunk, BackfillFails, BackfillDone, TickBegins, InsertSnapshot,
         InsertFails, RollupFails, NoCleanup, Cleanup, CleanupFails, Wake, Restart,
         Crash, vars
    <3>. QED  BY <2>1, <3>1
  <2>. QED  BY <2>2, <2>3
<1>. QED  BY <1>1, <1>3, <1>4

\* The backfill keeps to whole buckets and counts what it passes.
LEMMA BackfillingNext ==
  ASSUME RolledUpInv, [Next]_vars
  PROVE  Backfilling'
<1>. USE SnapshotTypes DEF RolledUpInv, locals, observed, bounds
<1>1. CASE BackfillBegins
  <2>. SUFFICES ASSUME phase' = "chunks"
                PROVE  Backfilling'
    BY DEF Backfilling
  <2>1. /\ snapshots # {} /\ watermark' = NewestBucket
        /\ next' = BackfillFrom(NewestBucket) /\ end' = now /\ phase = "backfill"
        /\ UNCHANGED <<snapshots, rollups, taken, severed>>
    BY <1>1 DEF BackfillBegins
  <2>2. /\ next' \in Nat /\ Aligned(next') /\ watermark' <= next'
        /\ \A s \in snapshots : watermark' <= s => next' <= s
    BY <2>1, BackfillFromFits
  <2>3. \A s \in taken \ snapshots : s \in severed \/ bucketStart(s) < watermark'
    BY <2>1 DEF DeletedForGood
  <2>4. \A s \in snapshots : s < end'
    BY <2>1 DEF InTime
  <2>5. \A s \in snapshots : ~ (watermark' <= s /\ s < next')
    BY <2>2
  <2>. QED  BY <2>1, <2>2, <2>3, <2>4, <2>5 DEF Backfilling, Aligned
<1>2. CASE BackfillChunk
  <2>1. /\ phase = "chunks" /\ next' = next + ChunkSize
        /\ UNCHANGED <<watermark, end, snapshots, taken, severed>>
        /\ rollups' = Upserted(InRange(next, next + ChunkSize))
    BY <1>2 DEF BackfillChunk
  <2>2. /\ Aligned(next')
        /\ \A s \in snapshots : watermark <= s /\ s < next' => Counted(s)'
    BY <2>1, ChunkRecounts
  <2>3. watermark <= next'
    <3>1. watermark \in Int /\ next \in Nat /\ watermark <= next
      BY <2>1, BucketTypes, SizeTypes DEF TypeOK, Backfilling, NoRollup
    <3>. QED  BY <2>1, <3>1, SizeTypes
  <2>. QED  BY <2>1, <2>2, <2>3 DEF Backfilling, Aligned
<1>3. CASE TimePasses \/ UNCHANGED vars
  <2>1. UNCHANGED <<phase, watermark, next, end, snapshots, rollups, taken, severed>>
    BY <1>3 DEF TimePasses, vars
  <2>. QED  BY <2>1 DEF Backfilling, Aligned, Counted
<1>4. CASE ~ (BackfillBegins \/ BackfillChunk \/ TimePasses \/ UNCHANGED vars)
  <2>1. phase' # "chunks"
    BY <1>4 DEF Next, LoopStep, InitDb, SyncMeta, BackfillFails,
       BackfillDone, TickBegins, InsertSnapshot, InsertFails, AfterFailedTick, RollupTick,
       RollupFails, NoCleanup, Cleanup, CleanupFails, Wake, Restart, Crash
  <2>. QED  BY <2>1 DEF Backfilling
<1>. QED  BY <1>1, <1>2, <1>3, <1>4

-----------------------------------------------------------------------------
(* The theorems.                                                           *)

\* The first start of the process.
LEMMA RolledUpInit == Init => RolledUpInv
<1>. SUFFICES ASSUME Init PROVE RolledUpInv
  OBVIOUS
<1>. USE BoundAssumption, SizeAssumption, SizeTypes DEF Init
<1>1. TypeOK
  BY DEF TypeOK, Times, Phases
<1>2. RowsInBucket /\ InTime /\ DeletedForGood /\ Backfilling
  BY DEF RowsInBucket, InTime, DeletedForGood, Backfilling
<1>3. CountedUnlessCutShort /\ NoHole
  BY DEF CountedUnlessCutShort, NoHole
<1>. QED  BY <1>1, <1>2, <1>3 DEF RolledUpInv

\* RolledUpInv is an invariant of the loop.
LEMMA RolledUpInvariance == Spec => []RolledUpInv
<1>1. RolledUpInv /\ [Next]_vars => RolledUpInv'
  BY TypeNext, SnapshotSteps, TablesNext, CountedNext, BackfillingNext DEF RolledUpInv
<1>. QED  BY RolledUpInit, <1>1, PTL DEF Spec

\* Every snapshot stays counted in the rollup of its bucket from the end of its
\* pass on, unless the pass was cut short or the snapshot severed, for any
\* sizes, retention, failures and restarts.
THEOREM SnapshotsStayCounted == Spec => []CountedUnlessCutShort
<1>1. RolledUpInv => CountedUnlessCutShort
  BY DEF RolledUpInv
<1>. QED  BY <1>1, RolledUpInvariance, PTL

\* A rollup never counts a snapshot and leaves out an earlier one of its bucket
\* that is still there; and the state is well typed, so that the backfill never
\* asks for more than a chunk beyond the present.
THEOREM RollupsHaveNoHole == Spec => []Safe
<1>1. RolledUpInv => Safe
  BY DEF RolledUpInv, Safe
<1>. QED  BY <1>1, RolledUpInvariance, PTL

\* A backfill that ends without an error leaves every snapshot counted that is
\* not older than the newest bucket it found.
THEOREM BackfillCompletes == Spec => BackfillRepairs
<1>1. ASSUME RolledUpInv, [Next]_vars
      PROVE  [BackfillDone => \A s \in snapshots : s >= watermark => Counted(s)]_vars
  <2>. SUFFICES ASSUME BackfillDone, NEW s \in snapshots, s >= watermark
                PROVE  Counted(s)
    OBVIOUS
  <2>. USE <1>1 DEF RolledUpInv
  <2>1. phase = "chunks" /\ next >= end
    BY DEF BackfillDone
  <2>2. s < end /\ s \in Nat /\ end \in Nat /\ next \in Nat /\ watermark \in Int
    BY <2>1, SnapshotTypes, SizeTypes, BucketTypes
       DEF Backfilling, TypeOK, Times, NoRollup
  <2>. QED  BY <2>1, <2>2 DEF Backfilling
<1>. QED  BY <1>1, RolledUpInvariance, PTL DEF Spec, BackfillRepairs
=============================================================================
