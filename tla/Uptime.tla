------------------------------- MODULE Uptime -------------------------------
(***************************************************************************)
(* What the status page makes of the tables of the health checker (web:     *)
(* lib/uptime.ts, lib/db.ts): the bars of a service's uptime, and the gaps  *)
(* of its charts, in which nothing was checked.                             *)
(*                                                                         *)
(* One service, with the checks of its life.  Rollup rows sum the checks of *)
(* half an hour, as the module HealthChecker shows.                         *)
(***************************************************************************)
EXTENDS Integers, FiniteSets, SequencesExt

CONSTANTS Sample,     \* SAMPLE_INTERVAL_MS
          Bucket,     \* ROLLUP_BUCKET_MS
          Threshold,  \* GAP_THRESHOLD_MS
          Raw,        \* the range that is drawn from snapshots
          Ranges,     \* [count, per]: bars, and rollup buckets per bar
          LastClock   \* bound

ASSUME UptimeAssumption ==
  /\ Sample \in Nat \ {0} /\ Bucket \in Nat \ {0} /\ Threshold \in Nat
  /\ Raw \in Nat /\ LastClock \in Nat
  /\ Ranges \subseteq [count : Nat \ {0}, per : Nat \ {0}]

VARIABLES clock,
          taken,      \* checks: [at, up]
          firstEver   \* the cached answer of getFirstRollupTime

uptimeVars == <<clock, taken, firstEver>>

None == -1
Times == {c.at : c \in taken}
Least(S) == CHOOSE n \in S : \A m \in S : n <= m
Greatest(S) == CHOOSE n \in S : \A m \in S : n >= m
Smaller(a, b) == IF a <= b THEN a ELSE b
Larger(a, b) == IF a >= b THEN a ELSE b

UptimeTypeOK ==
  /\ clock \in 0 .. LastClock
  /\ taken \subseteq [at : 0 .. clock, up : BOOLEAN]
  /\ firstEver \in {None} \cup Nat

UptimeInit == clock = 0 /\ taken = {} /\ firstEver = None

BucketOf(t) == (t \div Bucket) * Bucket

\* The rows of rollups_30m.
Rows == {BucketOf(t) : t \in Times}
UpCount(b) == Cardinality({c \in taken : c.up /\ BucketOf(c.at) = b})

Passes ==
  /\ clock < LastClock
  /\ clock' = clock + 1
  /\ UNCHANGED <<taken, firstEver>>

\* The checker sleeps for a sample interval between checks, and may be down.
Check ==
  /\ \A t \in Times : clock - t >= Sample
  /\ \E up \in BOOLEAN : taken' = taken \cup {[at |-> clock, up |-> up]}
  /\ UNCHANGED <<clock, firstEver>>

\* A minute after it was asked, the first bucket is asked for again.
FirstEverExpires ==
  /\ taken # {}
  /\ firstEver' = Least(Rows)
  /\ UNCHANGED <<clock, taken>>

UptimeStep == Passes \/ Check \/ FirstEverExpires

UptimeSpec == UptimeInit /\ [][UptimeStep]_uptimeVars

-----------------------------------------------------------------------------
(* Bars.                                                                    *)

WindowEnd == BucketOf(clock + Bucket - 1)
WindowStart(r) == WindowEnd - r.count * r.per * Bucket
InWindow(r) == {b \in Rows : WindowStart(r) <= b /\ b < WindowEnd}

\* Faulty: without its CAST the division is not one of integers, and only the
\* rows at the start of a bar fall on it.
SameQuotient(r, b, i) == b - WindowStart(r) = i * r.per * Bucket

\* bucketExpr
OnBar(r, b, i) == (b - WindowStart(r)) \div (r.per * Bucket) = i

\* SUM ... GROUP BY, for the bars from 0.
Counts(r) ==
  [i \in 0 .. r.count - 1 |->
     FoldSet(LAMBDA b, n : n + UpCount(b), 0,
             {b \in InWindow(r) : OnBar(r, b, i)})]

\* A bar's ratio is up * Sample / span, at most 1; none without a span.
NoRatio == [up |-> 0, span |-> 0]
Ratio(up, span) == IF span <= 0 THEN NoRatio ELSE [up |-> up, span |-> span]

\* computeUptimeFromCounts
Bar(r, i) ==
  LET bs == WindowStart(r) + i * r.per * Bucket
      effEnd == Smaller(bs + r.per * Bucket, clock)
  IN IF firstEver = None THEN NoRatio
     ELSE IF firstEver >= effEnd THEN NoRatio
     ELSE Ratio(Counts(r)[i], effEnd - Larger(bs, firstEver))

\* A service without a row in the window gets no bars at all.
Bars(r) == [i \in {n \in 0 .. r.count - 1 : InWindow(r) # {}} |-> Bar(r, i)]

Total(r) ==
  LET shown == {i \in DOMAIN Bars(r) : Bars(r)[i] # NoRatio}
      sum(f(_)) == FoldSet(LAMBDA i, n : n + f(i), 0, shown)
  IN Ratio(sum(LAMBDA i : Bars(r)[i].up), sum(LAMBDA i : Bars(r)[i].span))

-----------------------------------------------------------------------------
(* Gaps.                                                                    *)

\* getRollupHistory: the loop over the buckets, where a gap that ends at the
\* next bucket without a row goes on.
RollupGaps(r) ==
  LET from == Larger(WindowStart(r), firstEver)
      buckets == [n \in 1 .. (clock - from + Bucket - 1) \div Bucket |->
                    from + (n - 1) * Bucket]
      add(gaps, b) ==
        LET gapEnd == Smaller(b + Bucket, clock)
        IN IF b \in InWindow(r) THEN gaps
           ELSE IF gaps # <<>> /\ Last(gaps).end = b
           THEN [gaps EXCEPT ![Len(gaps)].end = gapEnd]
           ELSE Append(gaps, [start |-> b, end |-> gapEnd])
  IN IF firstEver = None THEN <<>> ELSE FoldLeft(add, <<>>, buckets)

\* Faulty: a silence that goes on is no gap yet.
NoTrailingGap(ms) == {}

\* From the last snapshot until now.
TrailingGap(ms) ==
  IF ms # <<>> /\ clock - Last(ms) > Threshold
  THEN {[start |-> Last(ms), end |-> clock]} ELSE {}

\* ORDER BY.
Earlier(S, t) == Cardinality({u \in S : u < t})
InOrder(S) ==
  [n \in 1 .. Cardinality(S) |-> CHOOSE t \in S : Earlier(S, t) = n - 1]

\* getRawHistory24h: LAG has no predecessor for the first row.
RawGaps ==
  LET ms == InOrder({t \in Times : t >= clock - Raw})
  IN {[start |-> ms[i - 1], end |-> ms[i]] :
        i \in {j \in 2 .. Len(ms) : ms[j] - ms[j - 1] > Threshold}}
       \cup TrailingGap(ms)

-----------------------------------------------------------------------------
(* Correctness.                                                             *)

\* README, uptime is read from rollups_30m alone: regrouped into bars, they
\* show every check that was up once and on the bar of its time, against the
\* time that the bar has been watched; a bar before the first check or ahead
\* of the clock stays empty, and the figure beside the bars sums them.  Only a
\* service that was not checked in the range has no bars.
BarsCountSamples ==
  \A r \in Ranges :
    LET watched(i) == {t \in WindowStart(r) .. clock - 1 :
                         /\ firstEver # None /\ t >= firstEver
                         /\ (t - WindowStart(r)) \div (r.per * Bucket) = i}
        drawn == {c \in taken : WindowStart(r) <= c.at /\ c.at < WindowEnd}
        upOn(i) == {c \in drawn : c.up /\
                      (c.at - WindowStart(r)) \div (r.per * Bucket) = i}
        bars == Bars(r)
    IN /\ DOMAIN bars = {i \in 0 .. r.count - 1 : drawn # {}}
       /\ \A i \in DOMAIN bars :
            bars[i] = Ratio(Cardinality(upOn(i)), Cardinality(watched(i)))
       /\ firstEver # None /\ drawn # {} =>
            Total(r) = Ratio(Cardinality({c \in drawn : c.up}),
                             clock - Larger(Smaller(firstEver, clock), WindowStart(r)))

Covered(gaps) == UNION {g.start .. g.end - 1 : g \in gaps}

\* The grey areas: on a chart of rollups exactly the half hours without any
\* check, each silence in one piece; on the chart of snapshots exactly the
\* time between two of them that are more than the threshold apart, or since
\* the last one.
GapsExact ==
  /\ \A r \in Ranges :
       LET gaps == RollupGaps(r)
       IN /\ Covered(Range(gaps)) =
               {t \in WindowStart(r) .. clock - 1 :
                  firstEver # None /\ t >= firstEver /\ BucketOf(t) \notin Rows}
          /\ \A i \in 2 .. Len(gaps) : gaps[i - 1].end < gaps[i].start
  /\ LET drawn == {t \in Times : t >= clock - Raw}
         before(t) == Greatest({s \in drawn : s <= t})
         after(t) == Least({s \in drawn : s > t} \cup {clock})
     IN Covered(RawGaps) =
          {t \in 0 .. clock - 1 :
             (\E s \in drawn : s <= t) /\ after(t) - before(t) > Threshold}
=============================================================================
