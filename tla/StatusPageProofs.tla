-------------------------- MODULE StatusPageProofs --------------------------
(***************************************************************************)
(* Proofs about the status page, for any services and kinds of check, any   *)
(* intervals, ranges and bounds: a snapshot tells the truth about the pass  *)
(* it ends, the bars of a service show its checks and the grey areas of its *)
(* charts its silences, and the states of the three parts of MCStatusPage   *)
(* are of their types.                                                     *)
(***************************************************************************)
EXTENDS MCStatusPage, QueueLemmas

-----------------------------------------------------------------------------
(* A pass.                                                                  *)

\* Just the services that have answered well are "up", and a check is open as
\* long as its timer is on: what comes after the timer finds a verdict.
VerdictsAreTrue ==
  \A s \in Services : /\ check[s] = "up" <=> s \in answered
                      /\ check[s] = "pending" <=> timer[s] = "on"

\* A snapshot is of a pass in which every check has its verdict.
SnapshotIsLast ==
  snapshot # NoSnapshot =>
    \A s \in Services : check[s] # "pending" /\ snapshot[s].status = check[s]

PassInv == ChecksTypeOK /\ VerdictsAreTrue /\ SnapshotIsLast

\* s gets its verdict, in time; its timer ends in state t.
GetsVerdict(s, verdict, t) ==
  /\ timer[s] = "on"
  /\ timer' = [timer EXCEPT ![s] = t]
  /\ check' = [check EXCEPT ![s] = verdict]
  /\ answered' = IF verdict = "up" THEN answered \cup {s} ELSE answered

\* A connection or an answer gives its service a verdict, or comes too late and
\* changes none.
LEMMA VerdictOrLate ==
  ASSUME PassInv, NEW s \in Services,
         \/ TcpOpens(s) \/ TcpFails(s) \/ TimesOut(s) \/ HttpAnswers(s)
         \/ DockerAnswers(s) \/ PingExits(s) \/ RequestFails(s)
  PROVE  /\ UNCHANGED <<resource, snapshot>>
         /\ socket' \in {socket, [socket EXCEPT ![s] = "closed"]}
         /\ \/ UNCHANGED <<check, timer, answered>>
            \/ \E verdict \in Verdicts, t \in {"off", "fired"} :
                 GetsVerdict(s, verdict, t)
<1>. USE DEF Verdicts, GetsVerdict
<1>1. /\ check[s] = "pending" <=> timer[s] = "on"
      /\ timer \in [Services -> {"on", "off", "fired"}]
  BY DEF PassInv, VerdictsAreTrue, ChecksTypeOK
<1>2. CASE TcpOpens(s) \/ TcpFails(s)
  <2>1. timer[s] # "on" => timer' = timer
    BY <1>1, <1>2 DEF TcpOpens, TcpFails
  <2>. QED  BY <1>1, <1>2, <2>1 DEF TcpOpens, TcpFails, AfterOpen, Resolve, Note
<1>3. CASE TimesOut(s) \/ RequestFails(s)
  BY <1>1, <1>3 DEF TimesOut, RequestFails, Settles, Resolve
<1>4. ASSUME NEW good \in BOOLEAN, NEW same \in BOOLEAN, same = good,
             Settles(s, good), Note(s, same)
      PROVE  /\ UNCHANGED <<resource, snapshot>>
             /\ socket' = [socket EXCEPT ![s] = "closed"]
             /\ \E verdict \in Verdicts : GetsVerdict(s, verdict, "off")
  BY <1>1, <1>4 DEF Settles, Note, Resolve
<1>5. CASE HttpAnswers(s)
  <2>1. PICK status \in Statuses :
          /\ Settles(s, IsOk(s, status))
          /\ Note(s, OkStatuses[s] = {} \/ status \in OkStatuses[s])
    BY <1>5 DEF HttpAnswers
  <2>. QED  BY <1>4, <2>1 DEF IsOk
<1>6. CASE DockerAnswers(s)
  <2>1. \E good \in BOOLEAN : Settles(s, good) /\ Note(s, good)
    BY <1>6 DEF DockerAnswers
  <2>. QED  BY <1>4, <2>1
<1>7. CASE PingExits(s)
  <2>1. \E good \in BOOLEAN : Settles(s, good) /\ Note(s, good)
    BY <1>7 DEF PingExits
  <2>. QED  BY <1>4, <2>1
<1>. QED  BY <1>2, <1>3, <1>5, <1>6, <1>7

\* It holds before the first answer.
LEMMA PassInvInit == ChecksInit => PassInv
BY DEF ChecksInit, PassInv, ChecksTypeOK, VerdictsAreTrue, SnapshotIsLast, Verdicts

\* It holds whatever comes when.
LEMMA PassInvNext == PassInv /\ [ChecksStep]_checkVars => PassInv'
<1>. SUFFICES ASSUME PassInv, [ChecksStep]_checkVars  PROVE PassInv'
  OBVIOUS
<1>. USE DEF PassInv, Verdicts
<1>1. CASE UNCHANGED checkVars
  BY <1>1 DEF checkVars, ChecksTypeOK, VerdictsAreTrue, SnapshotIsLast
<1>2. ASSUME NEW s \in Services,
             \/ TcpOpens(s) \/ TcpFails(s) \/ TimesOut(s) \/ HttpAnswers(s)
             \/ DockerAnswers(s) \/ PingExits(s) \/ RequestFails(s)
      PROVE  PassInv'
  <2>1. /\ UNCHANGED <<resource, snapshot>>
        /\ socket' \in {socket, [socket EXCEPT ![s] = "closed"]}
    BY <1>2, VerdictOrLate
  <2>2. CASE UNCHANGED <<check, timer, answered>>
    BY <2>1, <2>2 DEF ChecksTypeOK, VerdictsAreTrue, SnapshotIsLast
  <2>3. ASSUME NEW verdict \in Verdicts, NEW t \in {"off", "fired"},
               GetsVerdict(s, verdict, t)
        PROVE  PassInv'
    <3>1. ChecksTypeOK'
      BY <2>1, <2>3 DEF ChecksTypeOK, GetsVerdict
    <3>2. VerdictsAreTrue'
      BY <2>3 DEF ChecksTypeOK, VerdictsAreTrue, GetsVerdict
    <3>3. snapshot = NoSnapshot
      BY <2>3 DEF VerdictsAreTrue, SnapshotIsLast, GetsVerdict
    <3>. QED  BY <2>1, <3>1, <3>2, <3>3 DEF SnapshotIsLast
  <2>. QED  BY <1>2, <2>2, <2>3, VerdictOrLate
<1>3. ASSUME NEW s \in Services, ResourcesArrive(s)
      PROVE  PassInv'
  BY <1>3 DEF ResourcesArrive, ChecksTypeOK, VerdictsAreTrue, SnapshotIsLast
<1>4. CASE WriteSnapshot
  <2>1. /\ UNCHANGED <<check, timer, socket, resource, answered>>
        /\ \A s \in Services : check[s] # "pending"
        /\ snapshot' = [s \in Services |-> Written(s)]
    BY <1>4 DEF WriteSnapshot
  <2>2. \A s \in Services : snapshot'[s].status = check[s]
    BY ONLY <2>1, Zenon DEF Written
  <2>3. SnapshotIsLast'
    BY ONLY <2>1, <2>2 DEF SnapshotIsLast
  <2>. QED  BY <2>1, <2>3 DEF ChecksTypeOK, VerdictsAreTrue
<1>. QED  BY <1>1, <1>2, <1>3, <1>4
             DEF ChecksStep, Timeouts, Connections, Answers

\* What it says of a snapshot.
LEMMA PassInvSays == PassInv => SnapshotIsTrue
BY DEF PassInv, VerdictsAreTrue, SnapshotIsLast, SnapshotIsTrue

\* A snapshot says "up" of just the services that answered well before their
\* timeout, for any services of any kind, and in whatever order answers,
\* timeouts and connections come (tcpCheck, httpCheck, dockerCheck, pingCheck,
\* tick).
THEOREM SnapshotsAreTrue == ChecksSpec => []SnapshotIsTrue
BY PassInvInit, PassInvNext, PassInvSays, PTL DEF ChecksSpec
-----------------------------------------------------------------------------
(* What is drawn.                                                           *)

\* Buckets start at natural numbers.
LEMMA BucketTypes == ASSUME NEW t \in Nat  PROVE BucketOf(t) \in Nat
<1>1. t \div Bucket \in Nat
  BY UptimeAssumption
<1>2. \A n \in Nat : n * Bucket \in Nat
  BY UptimeAssumption
<1>. QED  BY ONLY <1>1, <1>2 DEF BucketOf

\* Checks are of the past.
LEMMA TakenTimes ==
  ASSUME UptimeTypeOK
  PROVE  clock \in Nat /\ \A c \in taken : c.at \in 0 .. clock
<1>1. \A c \in taken : c.at \in 0 .. clock
  BY ONLY UptimeTypeOK, Zenon DEF UptimeTypeOK
<1>. QED  BY <1>1 DEF UptimeTypeOK

\* The first bucket is one of those there are.
LEMMA FirstBucket ==
  ASSUME UptimeTypeOK, taken # {}
  PROVE  Least(Rows) \in Nat
<1>1. \A c \in taken : c.at \in 0 .. clock
  BY TakenTimes
<1>2. Times \subseteq Nat /\ Times # {}
  <2>1. 0 .. clock \subseteq Nat
    OBVIOUS
  <2>2. PICK c \in taken : TRUE
    OBVIOUS
  <2>3. c.at \in Times
    BY <2>2 DEF Times
  <2>. QED  BY <1>1, <2>1, <2>3 DEF Times
<1>3. Rows \in SUBSET Nat /\ Rows # {}
  BY <1>2, BucketTypes DEF Rows
<1>. HIDE DEF Rows
<1>4. \E n \in Rows : \A m \in Rows : n <= m
  BY ONLY <1>3, FirstOf
<1>. QED  BY ONLY <1>3, <1>4 DEF Least

\* Nothing is drawn of a check that is still to come.
LEMMA UptimeTypeNext == UptimeTypeOK /\ [UptimeStep]_uptimeVars => UptimeTypeOK'
<1>. SUFFICES ASSUME UptimeTypeOK, [UptimeStep]_uptimeVars  PROVE UptimeTypeOK'
  OBVIOUS
<1>1. /\ clock \in 0 .. LastClock /\ firstEver \in {None} \cup Nat
      /\ taken \subseteq [at : 0 .. clock, up : BOOLEAN]
  BY DEF UptimeTypeOK
<1>2. clock' \in 0 .. LastClock /\ 0 .. clock \subseteq 0 .. clock' /\ clock \in 0 .. clock
  BY <1>1, UptimeAssumption DEF uptimeVars, UptimeStep, Passes, Check, FirstEverExpires
<1>3. firstEver' \in {None} \cup Nat
  BY <1>1, FirstBucket DEF uptimeVars, UptimeStep, Passes, Check, FirstEverExpires
<1>4. \/ taken' = taken
      \/ \E up \in BOOLEAN : taken' = taken \cup {[at |-> clock, up |-> up]}
  BY DEF uptimeVars, UptimeStep, Passes, Check, FirstEverExpires
<1>5. taken' \subseteq [at : 0 .. clock', up : BOOLEAN]
  <2>1. [at : 0 .. clock, up : BOOLEAN] \subseteq [at : 0 .. clock', up : BOOLEAN]
    BY ONLY <1>2, Zenon
  <2>2. \A up \in BOOLEAN : [at |-> clock, up |-> up] \in [at : 0 .. clock, up : BOOLEAN]
    BY ONLY <1>2, Zenon
  <2>. QED  BY ONLY <1>1, <1>4, <2>1, <2>2, Zenon
<1>. QED  BY <1>2, <1>3, <1>5 DEF UptimeTypeOK

-----------------------------------------------------------------------------
(* Sums over finite sets.                                                   *)

\* g sums w over every set of keys in T, as FoldSet does.
Sums(g, T, w) ==
  g = [s \in SUBSET T |-> IF s = {} THEN 0
                          ELSE g[s \ {CHOOSE i \in s : TRUE}] + w[CHOOSE i \in s : TRUE]]

\* The elements of X with a key in s.
OfKeys(X, key, s) == {x \in X : key[x] \in s}

\* w counts the elements of each key in T.
CountsKeys(w, T, X, key) == \A i \in T : w[i] = Cardinality(OfKeys(X, key, {i}))

\* The elements of some keys are those of one of them and those of the others.
LEMMA OneMoreKey ==
  ASSUME NEW X, IsFiniteSet(X), NEW key, NEW s, NEW i \in s
  PROVE  /\ Cardinality(OfKeys(X, key, s)) =
              Cardinality(OfKeys(X, key, s \ {i})) + Cardinality(OfKeys(X, key, {i}))
         /\ Cardinality(OfKeys(X, key, s)) \in Nat
         /\ Cardinality(OfKeys(X, key, {})) = 0
<1>. DEFINE A == OfKeys(X, key, s \ {i})
            B == OfKeys(X, key, {i})
<1>1. /\ OfKeys(X, key, s) = A \cup B /\ A \cap B = {}
      /\ A \subseteq X /\ B \subseteq X /\ OfKeys(X, key, {}) = {}
      /\ OfKeys(X, key, s) \subseteq X
  BY DEF OfKeys
<1>. HIDE DEF A, B
<1>2. IsFiniteSet(A) /\ IsFiniteSet(B) /\ IsFiniteSet(OfKeys(X, key, s))
  BY ONLY <1>1, FS_Subset, IsFiniteSet(X)
<1>3. /\ Cardinality(A \cup B) = Cardinality(A) + Cardinality(B) - Cardinality(A \cap B)
      /\ Cardinality(A \cap B) = 0 /\ Cardinality(OfKeys(X, key, {})) = 0
  BY ONLY <1>1, <1>2, FS_Union, FS_EmptySet
<1>4. /\ Cardinality(A) \in Nat /\ Cardinality(B) \in Nat
      /\ Cardinality(OfKeys(X, key, s)) \in Nat
  BY ONLY <1>2, FS_CardinalityType
<1>5. /\ Cardinality(OfKeys(X, key, s)) = Cardinality(A) + Cardinality(B)
      /\ Cardinality(OfKeys(X, key, {})) = 0
  BY ONLY <1>1, <1>3, <1>4
<1>. QED  BY ONLY <1>4, <1>5 DEF A, B

\* There is such a sum, and any such sum over all keys counts the elements once.
LEMMA SumOfKeys ==
  ASSUME NEW X, IsFiniteSet(X), NEW key, NEW T, IsFiniteSet(T), NEW w,
         CountsKeys(w, T, X, key)
  PROVE  /\ \E g : Sums(g, T, w)
         /\ \A g : Sums(g, T, w) => g[T] = Cardinality(OfKeys(X, key, T))
<1>. DEFINE n(s) == Cardinality(OfKeys(X, key, s))
            some(s) == CHOOSE i \in s : TRUE
<1>0. n({}) = 0
  <2>1. OfKeys(X, key, {}) = {}
    BY DEF OfKeys
  <2>. QED  BY <2>1, FS_EmptySet
<1>1. ASSUME NEW s \in SUBSET T, s # {}
      PROVE  /\ some(s) \in s /\ s \ {some(s)} \in SUBSET T
             /\ n(s) = n(s \ {some(s)}) + w[some(s)]
  <2>1. some(s) \in s
    BY <1>1
  <2>2. PICK i \in s : i = some(s)
    BY <2>1
  <2>3. n(s) = n(s \ {i}) + n({i})
    BY ONLY OneMoreKey, IsFiniteSet(X)
  <2>4. n({i}) = w[i]
    BY <1>1 DEF CountsKeys
  <2>. HIDE DEF n, some
  <2>. QED  BY ONLY <1>1, <2>1, <2>2, <2>3, <2>4
<1>. HIDE DEF n, some
<1>2. Sums([s \in SUBSET T |-> n(s)], T, w)
  <2>. DEFINE g == [s \in SUBSET T |-> n(s)]
  <2>1. ASSUME NEW s \in SUBSET T
        PROVE  g[s] = IF s = {} THEN 0 ELSE g[s \ {some(s)}] + w[some(s)]
    BY <1>0, <1>1, <2>1
  <2>2. g = [s \in SUBSET T |-> IF s = {} THEN 0 ELSE g[s \ {some(s)}] + w[some(s)]]
    <3>. HIDE DEF g
    <3>1. g = [s \in SUBSET T |-> g[s]]
      BY DEF g
    <3>. QED  BY ONLY <2>1, <3>1
  <2>. QED  BY ONLY <2>2 DEF Sums, some
<1>3. ASSUME NEW g, Sums(g, T, w)
      PROVE  g[T] = n(T)
  <2>1. \A s \in SUBSET T : g[s] = IF s = {} THEN 0 ELSE g[s \ {some(s)}] + w[some(s)]
    BY ONLY <1>3 DEF Sums, some
  <2>. DEFINE Bad == {k \in Nat : \E s \in SUBSET T : Cardinality(s) = k /\ g[s] # n(s)}
  <2>2. ASSUME Bad # {}  PROVE FALSE
    <3>1. PICK k \in Bad : \A j \in Bad : k <= j
      BY <2>2, FirstOf
    <3>2. PICK s \in SUBSET T : Cardinality(s) = k /\ g[s] # n(s)
      BY <3>1
    <3>3. s # {}
      BY <1>0, <2>1, <3>2
    <3>. DEFINE u == s \ {some(s)}
    <3>4. u \in SUBSET T /\ some(s) \in s /\ g[s] = g[u] + w[some(s)] /\ n(s) = n(u) + w[some(s)]
      BY <1>1, <2>1, <3>3
    <3>5. IsFiniteSet(s)
      BY FS_Subset
    <3>6. Cardinality(u) = k - 1 /\ Cardinality(u) \in Nat /\ k \in Nat
      BY <3>2, <3>4, <3>5, FS_RemoveElement, FS_CardinalityType
    <3>7. g[u] # n(u)
      BY <3>2, <3>4
    <3>8. Cardinality(u) \in Bad
      BY ONLY <3>4, <3>6, <3>7
    <3>9. k <= Cardinality(u)
      BY ONLY <3>1, <3>8
    <3>. HIDE DEF u
    <3>. QED  BY ONLY <3>6, <3>9
  <2>3. Cardinality(T) \in Nat
    BY FS_CardinalityType
  <2>. QED  BY <2>2, <2>3
<1>. QED  BY ONLY <1>2, <1>3 DEF n

-----------------------------------------------------------------------------
(* Buckets and bars.                                                        *)

\* x is a number of whole buckets.
Multiple(x) == \E n \in Int : x = n * Bucket

\* A time lies in its bucket, which starts at a whole number of buckets.
LEMMA BucketBounds ==
  ASSUME NEW t \in Nat
  PROVE  /\ BucketOf(t) \in Nat /\ BucketOf(t) <= t /\ t < BucketOf(t) + Bucket
         /\ Multiple(BucketOf(t))
<1>1. Bucket \in Nat \ {0}
  BY UptimeAssumption
<1>2. t \div Bucket \in Int
  BY <1>1, Quotient
<1>3. BucketOf(t) <= t /\ t < BucketOf(t) + Bucket
  BY ONLY <1>1, Quotient, t \in Nat DEF BucketOf
<1>. QED  BY <1>2, <1>3, BucketTypes DEF BucketOf, Multiple

\* Whole numbers of buckets add up to whole numbers of them.
LEMMA Multiples ==
  ASSUME NEW x, Multiple(x), NEW y, Multiple(y)
  PROVE  /\ x \in Int /\ Multiple(x + y) /\ Multiple(x - y)
         /\ \A k \in Int : Multiple(k * Bucket) /\ Multiple(k * x)
<1>1. Bucket \in Int
  BY UptimeAssumption
<1>2. PICK m \in Int, n \in Int : x = m * Bucket /\ y = n * Bucket
  BY DEF Multiple
<1>3. x + y = (m + n) * Bucket /\ x - y = (m - n) * Bucket
  BY ONLY <1>1, <1>2
<1>4. \A k \in Int : k * x = (k * m) * Bucket /\ k * m \in Int
  BY ONLY <1>1, <1>2
<1>5. x \in Int /\ m + n \in Int /\ m - n \in Int
  BY ONLY <1>1, <1>2
<1>6. Multiple(x + y) /\ Multiple(x - y)
  BY ONLY <1>3, <1>5 DEF Multiple
<1>7. \A k \in Int : Multiple(k * Bucket) /\ Multiple(k * x)
  BY ONLY <1>4 DEF Multiple
<1>. QED  BY ONLY <1>5, <1>6, <1>7

\* Of two whole numbers of buckets, one is at least a bucket behind the other.
LEMMA Apart ==
  ASSUME NEW x, Multiple(x), NEW y, Multiple(y), x < y
  PROVE  x + Bucket <= y
<1>1. Bucket \in Nat \ {0}
  BY UptimeAssumption
<1>2. PICK m \in Int, n \in Int : x = m * Bucket /\ y = n * Bucket
  BY DEF Multiple
<1>3. CASE m < n
  <2>1. n - m - 1 \in Nat /\ (n - m - 1) * Bucket = y - x - Bucket
    BY ONLY <1>1, <1>2, <1>3
  <2>2. \A e \in Nat : e * Bucket >= 0
    BY <1>1
  <2>3. x \in Int /\ y \in Int
    BY ONLY <1>1, <1>2
  <2>. QED  BY ONLY <1>1, <2>1, <2>2, <2>3
<1>4. CASE n <= m
  <2>1. m - n \in Nat /\ (m - n) * Bucket = x - y
    BY ONLY <1>1, <1>2, <1>4
  <2>2. \A e \in Nat : e * Bucket >= 0
    BY <1>1
  <2>3. x \in Int /\ y \in Int
    BY ONLY <1>1, <1>2
  <2>. QED  BY ONLY <1>1, <2>1, <2>2, <2>3, x < y
<1>. QED  BY <1>2, <1>3, <1>4

\* A time and the start of its bucket are on the same side of every edge between
\* buckets.
LEMMA SameSide ==
  ASSUME NEW t \in Nat, NEW x, Multiple(x)
  PROVE  x <= BucketOf(t) <=> x <= t
<1>1. /\ Bucket \in Nat /\ BucketOf(t) \in Nat /\ BucketOf(t) <= t
      /\ t < BucketOf(t) + Bucket /\ Multiple(BucketOf(t)) /\ x \in Int
  BY UptimeAssumption, BucketBounds, Multiples
<1>2. BucketOf(t) < x => BucketOf(t) + Bucket <= x
  BY ONLY <1>1, Apart, Multiple(x)
<1>. QED  BY ONLY <1>1, <1>2, t \in Nat

\* The window is one of whole bars, and the clock is in its last bucket.
LEMMA Window ==
  ASSUME NEW r \in Ranges, clock \in Nat
  PROVE  /\ r.per * Bucket \in Nat \ {0} /\ r.per * Bucket >= Bucket /\ r.count \in Nat \ {0}
         /\ WindowEnd \in Nat /\ WindowStart(r) \in Int
         /\ Multiple(WindowEnd) /\ Multiple(WindowStart(r)) /\ Multiple(r.per * Bucket)
         /\ clock <= WindowEnd /\ WindowEnd < clock + Bucket
         /\ WindowEnd = WindowStart(r) + r.count * (r.per * Bucket)
         /\ WindowStart(r) < clock
<1>1. r.count \in Nat \ {0} /\ r.per \in Nat \ {0} /\ Bucket \in Nat \ {0}
  BY UptimeAssumption
<1>. DEFINE P == r.per * Bucket
            C == r.count
<1>2. P \in Nat \ {0} /\ P >= Bucket
  <2>1. \A e \in Nat : e * Bucket \in Nat
    BY <1>1
  <2>2. (r.per - 1) * Bucket \in Nat /\ P = (r.per - 1) * Bucket + Bucket
    <3>1. r.per - 1 \in Nat
      BY ONLY <1>1
    <3>2. (r.per - 1) * Bucket \in Nat
      BY ONLY <2>1, <3>1
    <3>3. \A e \in Nat, b \in Nat : e * b = (e - 1) * b + b
      OBVIOUS
    <3>. QED  BY ONLY <1>1, <3>2, <3>3
  <2>. QED  BY ONLY <1>1, <2>2
<1>3. Multiple(P)
  BY <1>1 DEF Multiple
<1>4. clock + Bucket - 1 \in Nat
  BY <1>1
<1>5. /\ WindowEnd \in Nat /\ WindowEnd <= clock + Bucket - 1
      /\ clock + Bucket - 1 < WindowEnd + Bucket /\ Multiple(WindowEnd)
  BY ONLY <1>4, BucketBounds DEF WindowEnd
<1>6. C * r.per * Bucket = C * P
  BY ONLY <1>1
<1>. HIDE DEF P
<1>7. C * P \in Int /\ C * P >= P
  <2>1. (C - 1) * P \in Nat /\ C * P = (C - 1) * P + P
    <3>1. \A e \in Nat : e * P \in Nat
      BY <1>2
    <3>. QED  BY ONLY <1>1, <1>2, <3>1
  <2>. QED  BY ONLY <1>2, <2>1
<1>8. Multiple(C * P)
  BY <1>1, <1>3, Multiples
<1>9. WindowStart(r) = WindowEnd - C * P
  BY ONLY <1>6 DEF WindowStart
<1>10. Multiple(WindowStart(r))
  BY ONLY <1>5, <1>8, <1>9, Multiples
<1>11. /\ WindowStart(r) \in Int /\ clock <= WindowEnd /\ WindowEnd < clock + Bucket
       /\ WindowEnd = WindowStart(r) + C * P /\ WindowStart(r) < clock
  BY ONLY <1>1, <1>2, <1>5, <1>7, <1>9, clock \in Nat
<1>. QED  BY ONLY <1>1, <1>2, <1>3, <1>5, <1>10, <1>11 DEF P

\* The bar of a time, and where it starts.
BarAt(r, t) == (t - WindowStart(r)) \div (r.per * Bucket)
BarStart(r, i) == WindowStart(r) + i * r.per * Bucket

\* Bars lie side by side, in order, between buckets.
LEMMA BarBounds ==
  ASSUME NEW r \in Ranges, clock \in Nat, NEW i \in Int
  PROVE  /\ BarStart(r, i) \in Int /\ Multiple(BarStart(r, i))
         /\ BarStart(r, i) + r.per * Bucket = BarStart(r, i + 1)
         /\ \A j \in Int : i <= j => BarStart(r, i) <= BarStart(r, j)
         /\ \A t \in Int : BarAt(r, t) = i <=>
              BarStart(r, i) <= t /\ t < BarStart(r, i) + r.per * Bucket
<1>. DEFINE P == r.per * Bucket
<1>1. P \in Nat \ {0} /\ WindowStart(r) \in Int /\ Multiple(WindowStart(r)) /\ Multiple(P)
      /\ r.per \in Int /\ Bucket \in Int
  BY Window, UptimeAssumption
<1>2. \A j \in Int : BarStart(r, j) = WindowStart(r) + j * P
  BY ONLY <1>1 DEF BarStart
<1>3. \A j \in Int : Multiple(j * P)
  BY <1>1, Multiples
<1>. HIDE DEF P
<1>4. Multiple(BarStart(r, i)) /\ BarStart(r, i) \in Int
  BY ONLY <1>1, <1>2, <1>3, Multiples, i \in Int
<1>5. BarStart(r, i) + P = BarStart(r, i + 1)
  BY ONLY <1>1, <1>2, i \in Int
<1>6. ASSUME NEW j \in Int, i <= j  PROVE BarStart(r, i) <= BarStart(r, j)
  <2>1. j - i \in Nat /\ (j - i) * P = j * P - i * P /\ i * P \in Int /\ j * P \in Int
    BY ONLY <1>1, <1>6, i \in Int
  <2>2. (j - i) * P >= 0
    BY ONLY <1>1, <2>1
  <2>3. /\ BarStart(r, i) = WindowStart(r) + i * P
        /\ BarStart(r, j) = WindowStart(r) + j * P
    BY ONLY <1>2, i \in Int, j \in Int
  <2>. QED  BY ONLY <1>1, <2>1, <2>2, <2>3
<1>7. ASSUME NEW t \in Int
      PROVE  BarAt(r, t) = i <=> BarStart(r, i) <= t /\ t < BarStart(r, i) + P
  <2>1. /\ BarAt(r, t) = (t - WindowStart(r)) \div P
        /\ t - WindowStart(r) \in Int
    BY <1>1 DEF BarAt, P
  <2>2. /\ BarAt(r, t) \in Int
        /\ BarAt(r, t) * P <= t - WindowStart(r) /\ t - WindowStart(r) < BarAt(r, t) * P + P
        /\ i * P <= t - WindowStart(r) /\ t - WindowStart(r) < i * P + P => BarAt(r, t) = i
    BY ONLY <1>1, <2>1, Quotient, i \in Int
  <2>3. i * P \in Int /\ P \in Int /\ BarStart(r, i) = WindowStart(r) + i * P
    BY ONLY <1>1, <1>2, i \in Int
  <2>. QED  BY ONLY <1>1, <2>2, <2>3, t \in Int
<1>. QED  BY ONLY <1>4, <1>5, <1>6, <1>7 DEF P

\* A time is on the bar of its bucket, one of those that are drawn.
LEMMA BarOfBucket ==
  ASSUME NEW r \in Ranges, clock \in Nat, NEW t \in Nat
  PROVE  /\ BarAt(r, BucketOf(t)) = BarAt(r, t)
         /\ BarAt(r, t) \in Int
         /\ WindowStart(r) <= t /\ t < WindowEnd => BarAt(r, t) \in 0 .. r.count - 1
<1>1. /\ r.per * Bucket \in Nat \ {0} /\ WindowStart(r) \in Int /\ r.count \in Nat
      /\ WindowEnd = WindowStart(r) + r.count * (r.per * Bucket)
  BY Window
<1>2. t - WindowStart(r) \in Int /\ BucketOf(t) \in Nat
  BY <1>1, BucketBounds
<1>3. BarAt(r, t) \in Int
  BY ONLY <1>1, <1>2, Quotient DEF BarAt
<1>. DEFINE i == BarAt(r, t)
            P == r.per * Bucket
<1>. HIDE DEF i, P
<1>4. /\ BarStart(r, i) <= t /\ t < BarStart(r, i) + P /\ i \in Int
      /\ Multiple(BarStart(r, i)) /\ Multiple(BarStart(r, i) + P)
      /\ BarStart(r, i) \in Int /\ P \in Nat
  <2>1. i \in Int /\ i = BarAt(r, t) /\ t \in Int /\ P \in Nat
    BY <1>1, <1>3 DEF i, P
  <2>2. Multiple(P)
    BY Window DEF P
  <2>3. /\ BarStart(r, i) \in Int /\ Multiple(BarStart(r, i))
        /\ BarStart(r, i) <= t /\ t < BarStart(r, i) + P
    BY ONLY <2>1, BarBounds, r \in Ranges, clock \in Nat DEF P
  <2>. QED  BY ONLY <2>1, <2>2, <2>3, Multiples
<1>5. BarStart(r, i) <= BucketOf(t) /\ BucketOf(t) < BarStart(r, i) + P
  BY ONLY <1>2, <1>4, SameSide, t \in Nat
<1>6. BarAt(r, BucketOf(t)) = i
  <2>1. \A x \in Int : BarAt(r, x) = i <=> BarStart(r, i) <= x /\ x < BarStart(r, i) + P
    BY ONLY <1>4, BarBounds, r \in Ranges, clock \in Nat DEF P
  <2>. QED  BY ONLY <1>2, <1>5, <2>1
<1>7. ASSUME WindowStart(r) <= t, t < WindowEnd
      PROVE  i \in 0 .. r.count - 1
  <2>1. BarStart(r, 0) = WindowStart(r) /\ BarStart(r, r.count) = WindowEnd
    <3>1. \A x \in Int : 0 * x = 0
      OBVIOUS
    <3>2. r.per \in Int /\ Bucket \in Int
      BY UptimeAssumption
    <3>. QED  BY ONLY <1>1, <3>1, <3>2 DEF BarStart
  <2>2. i + 1 \in Int /\ BarStart(r, i) + P = BarStart(r, i + 1)
    BY ONLY <1>4, BarBounds, r \in Ranges, clock \in Nat DEF P
  <2>3. \A a, b \in Int : a <= b => BarStart(r, a) <= BarStart(r, b)
    BY ONLY BarBounds, r \in Ranges, clock \in Nat
  <2>. QED  BY ONLY <1>1, <1>4, <1>7, <2>1, <2>2, <2>3, t \in Nat
<1>. QED  BY ONLY <1>3, <1>6, <1>7 DEF i

\* A first bucket that is cached is the first one, however long ago it was asked
\* for: later checks are of later buckets.
FirstIsFirst == firstEver # None => /\ firstEver \in Rows
                                    /\ \A b \in Rows : firstEver <= b
\* The inductive invariant of what is drawn.
DrawnInv == UptimeTypeOK /\ IsFiniteSet(taken) /\ FirstIsFirst

\* The checks in the window.
Drawn(r) == {c \in taken : WindowStart(r) <= c.at /\ c.at < WindowEnd}

\* The rows in the window are those of the checks in the window.
LEMMA RowsInWindow ==
  ASSUME UptimeTypeOK, NEW r \in Ranges
  PROVE  /\ \A c \in taken : c.at \in Nat /\ c.at <= clock
         /\ \A c \in taken : WindowStart(r) <= BucketOf(c.at) /\ BucketOf(c.at) < WindowEnd
                               <=> c \in Drawn(r)
         /\ InWindow(r) = {BucketOf(c.at) : c \in Drawn(r)}
<1>1. clock \in Nat
  BY DEF UptimeTypeOK
<1>2. \A c \in taken : c.at \in 0 .. clock
  BY TakenTimes
<1>3. \A c \in taken : c.at \in Nat /\ c.at <= clock
  BY <1>1, <1>2
<1>4. ASSUME NEW c \in taken
      PROVE  WindowStart(r) <= BucketOf(c.at) /\ BucketOf(c.at) < WindowEnd
                <=> WindowStart(r) <= c.at /\ c.at < WindowEnd
  <2>1. c.at \in Nat /\ BucketOf(c.at) \in Nat
    BY <1>3, BucketBounds
  <2>2. Multiple(WindowStart(r)) /\ Multiple(WindowEnd) /\ WindowEnd \in Nat
    BY <1>1, Window
  <2>3. /\ WindowStart(r) <= BucketOf(c.at) <=> WindowStart(r) <= c.at
        /\ WindowEnd <= BucketOf(c.at) <=> WindowEnd <= c.at
    BY ONLY <2>1, <2>2, SameSide
  <2>. QED  BY ONLY <2>1, <2>2, <2>3
<1>5. Rows = {BucketOf(c.at) : c \in taken}
  BY DEF Rows, Times
<1>6. InWindow(r) = {BucketOf(c.at) : c \in Drawn(r)}
  BY ONLY <1>4, <1>5, Zenon DEF InWindow, Drawn
<1>. QED  BY <1>3, <1>4, <1>6 DEF Drawn

-----------------------------------------------------------------------------
(* Bars.                                                                    *)

\* The rows and the checks that were up, on a bar; the checks that were up.
RowsOn(r, i) == {b \in InWindow(r) : OnBar(r, b, i)}
UpOn(r, i) == {c \in Drawn(r) : c.up /\ BarAt(r, c.at) = i}
Ups == {c \in taken : c.up}

\* What every sum over the rows of a bar comes to is the bar's count.
LEMMA CountIsSum ==
  ASSUME NEW r \in Ranges, NEW i \in 0 .. r.count - 1, NEW w,
         w = [b \in RowsOn(r, i) |-> UpCount(b)], NEW n,
         \E g : Sums(g, RowsOn(r, i), w),
         \A g : Sums(g, RowsOn(r, i), w) => g[RowsOn(r, i)] = n
  PROVE  Counts(r)[i] = n
<1>. DEFINE T == RowsOn(r, i)
            Is(g) == g = [s \in SUBSET T |->
                            IF s = {} THEN 0
                            ELSE g[s \ {CHOOSE x \in s : TRUE}]
                                   + UpCount(CHOOSE x \in s : TRUE)]
<1>1. Counts(r)[i] = (CHOOSE g : Is(g))[T]
  BY DEF Counts, FoldSet, MapThenFoldSet, RowsOn
<1>2. ASSUME NEW g  PROVE Is(g) <=> Sums(g, T, w)
  <2>. DEFINE some(s) == CHOOSE x \in s : TRUE
  <2>1. \A s \in SUBSET T : s # {} => some(s) \in T
    BY ONLY Zenon
  <2>2. \A s \in SUBSET T : s # {} => w[some(s)] = UpCount(some(s))
    <3>. HIDE DEF T, some
    <3>. QED  BY <2>1 DEF T
  <2>. HIDE DEF T
  <2>3. [s \in SUBSET T |-> IF s = {} THEN 0 ELSE g[s \ {some(s)}] + UpCount(some(s))]
         = [s \in SUBSET T |-> IF s = {} THEN 0 ELSE g[s \ {some(s)}] + w[some(s)]]
    <3>. HIDE DEF some
    <3>. QED  BY ONLY <2>2
  <2>. QED  BY ONLY <2>3 DEF Sums
<1>. HIDE DEF Is
<1>3. \E g : Is(g)
  BY <1>2
<1>4. Is(CHOOSE g : Is(g))
  BY ONLY <1>3
<1>5. Sums(CHOOSE g : Is(g), T, w)
  BY ONLY <1>2, <1>4
<1>. QED  BY <1>1, <1>5

\* SUM ... GROUP BY counts the checks of each bar's time that were up.
LEMMA CountsBar ==
  ASSUME DrawnInv, NEW r \in Ranges, NEW i \in 0 .. r.count - 1
  PROVE  Counts(r)[i] = Cardinality(UpOn(r, i))
<1>. DEFINE T == RowsOn(r, i)
            key == [c \in Ups |-> BucketOf(c.at)]
            w == [b \in T |-> UpCount(b)]
<1>1. IsFiniteSet(Ups)
  BY FS_Subset DEF DrawnInv, Ups
<1>2. clock \in Nat /\ UptimeTypeOK
  BY DEF DrawnInv, UptimeTypeOK
<1>3. IsFiniteSet(T)
  <2>1. \A c \in taken : BucketOf(c.at) \in 0 .. clock
    BY <1>2, RowsInWindow, BucketBounds
  <2>2. T \subseteq 0 .. clock
    BY <2>1 DEF RowsOn, InWindow, Rows, Times
  <2>3. IsFiniteSet(0 .. clock)
    BY <1>2, FS_Interval
  <2>. QED  BY <2>2, <2>3, FS_Subset
<1>4. ASSUME NEW b  PROVE UpCount(b) = Cardinality(OfKeys(Ups, key, {b}))
  <2>1. {c \in taken : c.up /\ BucketOf(c.at) = b} = OfKeys(Ups, key, {b})
    BY ONLY Zenon DEF OfKeys, Ups
  <2>. QED  BY ONLY <2>1 DEF UpCount
<1>5. CountsKeys(w, T, Ups, key)
  BY ONLY <1>4 DEF CountsKeys
<1>6. OfKeys(Ups, key, T) = UpOn(r, i)
  <2>1. \A c \in taken : BarAt(r, BucketOf(c.at)) = BarAt(r, c.at)
    BY <1>2, RowsInWindow, BarOfBucket
  <2>2. \A b : b \in T <=> b \in Rows /\ WindowStart(r) <= b /\ b < WindowEnd
                           /\ BarAt(r, b) = i
    BY Zenon DEF RowsOn, InWindow, OnBar, BarAt
  <2>3. \A c \in taken : BucketOf(c.at) \in Rows
    BY DEF Rows, Times
  <2>4. \A c \in taken : WindowStart(r) <= BucketOf(c.at) /\ BucketOf(c.at) < WindowEnd
                               <=> c \in Drawn(r)
    BY <1>2, RowsInWindow
  <2>5. \A c \in taken : BucketOf(c.at) \in T <=> c \in Drawn(r) /\ BarAt(r, c.at) = i
    BY ONLY <2>1, <2>2, <2>3, <2>4, Zenon
  <2>. HIDE DEF T
  <2>. QED  BY ONLY <2>5, Zenon DEF OfKeys, Ups, UpOn, Drawn
<1>. HIDE DEF key
<1>7. /\ \E g : Sums(g, T, w)
      /\ \A g : Sums(g, T, w) => g[T] = Cardinality(OfKeys(Ups, key, T))
  <2>. HIDE DEF T, w
  <2>. QED  BY ONLY <1>1, <1>3, <1>5, SumOfKeys
<1>. QED  BY ONLY <1>6, <1>7, CountIsSum, r \in Ranges, i \in 0 .. r.count - 1

\* The times since the first bucket, of the window and of a bar.
Seen(r) == {t \in WindowStart(r) .. clock - 1 : firstEver # None /\ t >= firstEver}
Watched(r, i) == {t \in WindowStart(r) .. clock - 1 :
                    /\ firstEver # None /\ t >= firstEver
                    /\ BarAt(r, t) = i}

\* They are an interval in the window,
LEMMA SeenIs ==
  ASSUME DrawnInv, NEW r \in Ranges
  PROVE  /\ firstEver = None => Seen(r) = {}
         /\ firstEver # None => Seen(r) = Larger(WindowStart(r), firstEver) .. clock - 1
         /\ IsFiniteSet(Seen(r))
<1>1. clock \in Nat /\ WindowStart(r) \in Int /\ (firstEver # None => firstEver \in Nat)
  BY Window DEF DrawnInv, UptimeTypeOK
<1>2. firstEver = None => Seen(r) = {}
  BY DEF Seen
<1>3. firstEver # None => Seen(r) = Larger(WindowStart(r), firstEver) .. clock - 1
  BY <1>1 DEF Seen, Larger
<1>4. IsFiniteSet(WindowStart(r) .. clock - 1)
  BY <1>1, FS_Interval
<1>5. Seen(r) \subseteq WindowStart(r) .. clock - 1
  BY DEF Seen
<1>. QED  BY <1>2, <1>3, <1>4, <1>5, FS_Subset

\* and one on each bar, as long as computeUptimeFromCounts has it.
LEMMA WatchedIs ==
  ASSUME DrawnInv, NEW r \in Ranges, NEW i \in 0 .. r.count - 1
  PROVE  LET bs == BarStart(r, i)
             effEnd == Smaller(bs + r.per * Bucket, clock)
         IN /\ firstEver = None => Cardinality(Watched(r, i)) = 0
            /\ firstEver # None =>
                 Cardinality(Watched(r, i)) =
                   Larger(0, effEnd - Larger(bs, firstEver))
            /\ Cardinality(Watched(r, i)) \in Nat
            /\ bs \in Int /\ effEnd \in Int
<1>. DEFINE bs == BarStart(r, i)
            P == r.per * Bucket
            effEnd == Smaller(bs + P, clock)
            from == Larger(bs, firstEver)
<1>1. clock \in Nat /\ WindowStart(r) \in Int /\ (firstEver # None => firstEver \in Nat)
  BY Window DEF DrawnInv, UptimeTypeOK
<1>2. /\ bs \in Int /\ P \in Nat
      /\ \A t \in Int : BarAt(r, t) = i <=> bs <= t /\ t < bs + P
  <2>1. i \in Int
    BY Window, <1>1
  <2>2. P \in Nat
    BY Window, <1>1
  <2>. QED  BY ONLY <1>1, <2>1, <2>2, BarBounds, r \in Ranges
<1>3. WindowStart(r) <= bs
  <2>1. \A j \in Int : 0 <= j => BarStart(r, 0) <= BarStart(r, j)
    BY ONLY <1>1, BarBounds, r \in Ranges
  <2>2. BarStart(r, 0) = WindowStart(r)
    <3>1. \A x \in Int : 0 * x = 0
      OBVIOUS
    <3>2. r.per \in Int /\ Bucket \in Int
      BY UptimeAssumption
    <3>. QED  BY ONLY <1>1, <3>1, <3>2 DEF BarStart
  <2>. QED  BY <2>1, <2>2
<1>. HIDE DEF bs, P
<1>4. firstEver = None => Watched(r, i) = {}
  BY DEF Watched, Seen
<1>5. firstEver # None => Watched(r, i) = from .. effEnd - 1
  BY ONLY <1>1, <1>2, <1>3 DEF Watched, Seen, Larger, Smaller
<1>6. effEnd \in Int /\ (firstEver # None => from \in Int)
  BY ONLY <1>1, <1>2 DEF Larger, Smaller
<1>7. firstEver # None => Cardinality(Watched(r, i)) = Larger(0, effEnd - from)
  <2>. HIDE DEF effEnd, from
  <2>. SUFFICES ASSUME firstEver # None
                PROVE  Cardinality(Watched(r, i)) = Larger(0, effEnd - from)
    OBVIOUS
  <2>1. Cardinality(from .. effEnd - 1) =
          IF from > effEnd - 1 THEN 0 ELSE effEnd - 1 - from + 1
    BY <1>6, FS_Interval
  <2>. QED  BY <1>5, <1>6, <2>1 DEF Larger
<1>8. firstEver = None => Cardinality(Watched(r, i)) = 0
  BY <1>4, FS_EmptySet
<1>9. Cardinality(Watched(r, i)) \in Nat
  BY <1>6, <1>7, <1>8 DEF Larger
<1>. QED  BY ONLY <1>2, <1>6, <1>7, <1>8, <1>9 DEF bs, P

\* A bar shows its checks against the time it has been watched.
LEMMA BarIsTrue ==
  ASSUME DrawnInv, NEW r \in Ranges, NEW i \in 0 .. r.count - 1
  PROVE  Bar(r, i) = Ratio(Cardinality(UpOn(r, i)), Cardinality(Watched(r, i)))
<1>. DEFINE bs == BarStart(r, i)
            effEnd == Smaller(bs + r.per * Bucket, clock)
            up == Cardinality(UpOn(r, i))
            span == Cardinality(Watched(r, i))
            from == Larger(bs, firstEver)
<1>1. Bar(r, i) = IF firstEver = None THEN NoRatio
                  ELSE IF firstEver >= effEnd THEN NoRatio
                  ELSE Ratio(Counts(r)[i], effEnd - from)
  BY DEF Bar, BarStart
<1>2. Counts(r)[i] = up
  BY CountsBar
<1>3. /\ firstEver = None => span = 0
      /\ firstEver # None => span = Larger(0, effEnd - from)
      /\ bs \in Int /\ effEnd \in Int
  BY WatchedIs
<1>4. firstEver # None => firstEver \in Nat
  BY DEF DrawnInv, UptimeTypeOK
<1>5. firstEver # None /\ firstEver >= effEnd => span = 0
  <2>. HIDE DEF effEnd, span, bs
  <2>. QED  BY <1>3, <1>4 DEF Larger
<1>6. firstEver # None /\ firstEver < effEnd =>
        Ratio(up, effEnd - from) = Ratio(up, span)
  <2>. HIDE DEF effEnd, span, bs, up
  <2>. QED  BY ONLY <1>3, <1>4 DEF Larger, Ratio
<1>. HIDE DEF effEnd, span, bs, up, from
<1>7. span = 0 => Ratio(up, span) = NoRatio
  BY DEF Ratio
<1>8. Bar(r, i) = Ratio(up, span)
  BY ONLY <1>1, <1>2, <1>3, <1>4, <1>5, <1>6, <1>7
<1>. QED  BY <1>8 DEF up, span

\* The bars that are summed.
Shown(r) == {i \in DOMAIN Bars(r) : Bars(r)[i] # NoRatio}

\* What every sum over these bars comes to is in the figure beside them.
LEMMA TotalIsSum ==
  ASSUME NEW r \in Ranges,
         NEW up, up = [i \in Shown(r) |-> Bars(r)[i].up], NEW ups,
         \E g : Sums(g, Shown(r), up),
         \A g : Sums(g, Shown(r), up) => g[Shown(r)] = ups,
         NEW span, span = [i \in Shown(r) |-> Bars(r)[i].span], NEW spans,
         \E g : Sums(g, Shown(r), span),
         \A g : Sums(g, Shown(r), span) => g[Shown(r)] = spans
  PROVE  Total(r) = Ratio(ups, spans)
<1>. DEFINE T == Shown(r)
            some(s) == CHOOSE x \in s : TRUE
            IsUp(g) == g = [s \in SUBSET T |->
                            IF s = {} THEN 0
                            ELSE g[s \ {CHOOSE x \in s : TRUE}]
                                   + Bars(r)[CHOOSE x \in s : TRUE].up]
            IsSpan(g) == g = [s \in SUBSET T |->
                            IF s = {} THEN 0
                            ELSE g[s \ {CHOOSE x \in s : TRUE}]
                                   + Bars(r)[CHOOSE x \in s : TRUE].span]
<1>1. Total(r) = Ratio((CHOOSE g : IsUp(g))[T], (CHOOSE g : IsSpan(g))[T])
  BY DEF Total, FoldSet, MapThenFoldSet, Shown
<1>2. \A s \in SUBSET T : s # {} => some(s) \in T
  BY ONLY Zenon
<1>3. ASSUME NEW g  PROVE IsUp(g) <=> Sums(g, T, up)
  <2>2. \A s \in SUBSET T : s # {} => up[some(s)] = Bars(r)[some(s)].up
    <3>. HIDE DEF T, some
    <3>. QED  BY <1>2 DEF T
  <2>. HIDE DEF T
  <2>3. [s \in SUBSET T |-> IF s = {} THEN 0 ELSE g[s \ {some(s)}] + Bars(r)[some(s)].up]
         = [s \in SUBSET T |-> IF s = {} THEN 0 ELSE g[s \ {some(s)}] + up[some(s)]]
    <3>. HIDE DEF some
    <3>. QED  BY ONLY <2>2
  <2>. QED  BY ONLY <2>3 DEF Sums
<1>4. ASSUME NEW g  PROVE IsSpan(g) <=> Sums(g, T, span)
  <2>2. \A s \in SUBSET T : s # {} => span[some(s)] = Bars(r)[some(s)].span
    <3>. HIDE DEF T, some
    <3>. QED  BY <1>2 DEF T
  <2>. HIDE DEF T
  <2>3. [s \in SUBSET T |-> IF s = {} THEN 0 ELSE g[s \ {some(s)}] + Bars(r)[some(s)].span]
         = [s \in SUBSET T |-> IF s = {} THEN 0 ELSE g[s \ {some(s)}] + span[some(s)]]
    <3>. HIDE DEF some
    <3>. QED  BY ONLY <2>2
  <2>. QED  BY ONLY <2>3 DEF Sums
<1>. HIDE DEF IsUp, IsSpan
<1>5. (\E g : IsUp(g)) /\ (\E g : IsSpan(g))
  BY <1>3, <1>4
<1>6. IsUp(CHOOSE g : IsUp(g)) /\ IsSpan(CHOOSE g : IsSpan(g))
  BY ONLY <1>5
<1>7. Sums(CHOOSE g : IsUp(g), T, up) /\ Sums(CHOOSE g : IsSpan(g), T, span)
  BY ONLY <1>3, <1>4, <1>6
<1>. QED  BY <1>1, <1>7

\* There are bars as soon as there is a check in the window, and all are true.
LEMMA BarsAreTrue ==
  ASSUME DrawnInv, NEW r \in Ranges
  PROVE  /\ DOMAIN Bars(r) = {i \in 0 .. r.count - 1 : Drawn(r) # {}}
         /\ \A i \in DOMAIN Bars(r) :
              Bars(r)[i] = Ratio(Cardinality(UpOn(r, i)), Cardinality(Watched(r, i)))
<1>1. InWindow(r) # {} <=> Drawn(r) # {}
  BY RowsInWindow DEF DrawnInv
<1>2. DOMAIN Bars(r) = {i \in 0 .. r.count - 1 : Drawn(r) # {}}
  BY ONLY <1>1 DEF Bars
<1>3. \A i \in DOMAIN Bars(r) : Bars(r)[i] = Bar(r, i)
  BY ONLY DEF Bars
<1>. QED  BY ONLY <1>2, <1>3, BarIsTrue, DrawnInv, r \in Ranges

\* A check in the window is on a bar that has been watched: one that is taken
\* when its bucket starts at the clock is not in the window yet.
LEMMA DrawnIsWatched ==
  ASSUME DrawnInv, NEW r \in Ranges, firstEver # None, NEW c \in Drawn(r)
  PROVE  /\ BarAt(r, c.at) \in 0 .. r.count - 1
         /\ Watched(r, BarAt(r, c.at)) # {}
<1>1. clock \in Nat /\ firstEver \in Nat /\ UptimeTypeOK
  BY DEF DrawnInv, UptimeTypeOK
<1>2. /\ c \in taken /\ c.at \in Nat /\ c.at <= clock
      /\ WindowStart(r) <= c.at /\ c.at < WindowEnd
  BY <1>1, RowsInWindow DEF Drawn
<1>. DEFINE b == BucketOf(c.at)
            i == BarAt(r, c.at)
<1>3. /\ b \in Nat /\ b <= c.at /\ c.at < b + Bucket /\ Multiple(b)
      /\ BarAt(r, b) = i /\ i \in 0 .. r.count - 1
  BY <1>1, <1>2, BucketBounds, BarOfBucket
<1>4. firstEver <= b
  BY <1>2 DEF DrawnInv, FirstIsFirst, Rows, Times
<1>5. WindowStart(r) <= b
  BY <1>1, <1>2, RowsInWindow
<1>6. b < clock
  <2>1. /\ Multiple(WindowEnd) /\ clock <= WindowEnd /\ WindowEnd < clock + Bucket
        /\ WindowEnd \in Nat /\ Bucket \in Nat
    BY <1>1, Window, UptimeAssumption
  <2>2. b < WindowEnd
    BY <1>2, <1>3, <2>1
  <2>3. b + Bucket <= WindowEnd
    BY ONLY <1>3, <2>1, <2>2, Apart
  <2>. HIDE DEF b
  <2>. QED  BY ONLY <1>1, <1>3, <2>1, <2>3
<1>7. b \in Watched(r, i)
  <2>1. b \in WindowStart(r) .. clock - 1
    <3>1. WindowStart(r) \in Int
      BY <1>1, Window
    <3>. HIDE DEF b
    <3>. QED  BY ONLY <1>1, <1>3, <1>5, <1>6, <3>1
  <2>. HIDE DEF b, i
  <2>. QED  BY <1>3, <1>4, <2>1 DEF Watched, Seen
<1>. QED  BY <1>3, <1>7

\* The checks in the window that were up.
DrawnUps(r) == {c \in Drawn(r) : c.up}

\* The bars that are summed are those that have been watched.
LEMMA ShownBars ==
  ASSUME DrawnInv, NEW r \in Ranges, Drawn(r) # {}
  PROVE  /\ Shown(r) = {i \in 0 .. r.count - 1 : Cardinality(Watched(r, i)) > 0}
         /\ \A i \in Shown(r) : /\ Bars(r)[i].up = Cardinality(UpOn(r, i))
                                /\ Bars(r)[i].span = Cardinality(Watched(r, i))
<1>1. DOMAIN Bars(r) = 0 .. r.count - 1
  BY BarsAreTrue
<1>2. ASSUME NEW i \in 0 .. r.count - 1
      PROVE  /\ Bars(r)[i] # NoRatio <=> Cardinality(Watched(r, i)) > 0
             /\ Bars(r)[i] # NoRatio => /\ Bars(r)[i].up = Cardinality(UpOn(r, i))
                                        /\ Bars(r)[i].span = Cardinality(Watched(r, i))
  <2>. DEFINE up == Cardinality(UpOn(r, i))
              span == Cardinality(Watched(r, i))
  <2>1. Bars(r)[i] = Ratio(up, span)
    BY <1>1, BarsAreTrue
  <2>2. span \in Nat
    BY WatchedIs
  <2>. HIDE DEF up, span
  <2>3. /\ span > 0 => Ratio(up, span) = [up |-> up, span |-> span]
        /\ ~ (span > 0) => Ratio(up, span) = NoRatio
    BY ONLY <2>2 DEF Ratio
  <2>4. NoRatio.span = 0
    BY DEF NoRatio
  <2>5. /\ Bars(r)[i] # NoRatio <=> span > 0
        /\ Bars(r)[i] # NoRatio => Bars(r)[i].up = up /\ Bars(r)[i].span = span
    BY ONLY <2>1, <2>2, <2>3, <2>4
  <2>. QED  BY <2>5 DEF up, span
<1>. QED  BY ONLY <1>1, <1>2, Zenon DEF Shown

\* Their sums leave out no check and no time.
LEMMA TotalIsTrue ==
  ASSUME DrawnInv, NEW r \in Ranges, firstEver # None, Drawn(r) # {}
  PROVE  Total(r) = Ratio(Cardinality(DrawnUps(r)), Cardinality(Seen(r)))
<1>. DEFINE T == Shown(r)
            up == [i \in T |-> Bars(r)[i].up]
            span == [i \in T |-> Bars(r)[i].span]
            upKey == [c \in DrawnUps(r) |-> BarAt(r, c.at)]
            spanKey == [t \in Seen(r) |-> BarAt(r, t)]
<1>1. clock \in Nat /\ UptimeTypeOK /\ IsFiniteSet(taken)
  BY DEF DrawnInv, UptimeTypeOK
<1>2. IsFiniteSet(DrawnUps(r)) /\ IsFiniteSet(Seen(r))
  BY <1>1, SeenIs, FS_Subset DEF DrawnUps, Drawn
<1>3. IsFiniteSet(T)
  <2>1. T \subseteq 0 .. r.count - 1
    BY ShownBars
  <2>2. IsFiniteSet(0 .. r.count - 1)
    <3>1. r.count - 1 \in Int
      BY <1>1, Window
    <3>. QED  BY ONLY <3>1, FS_Interval
  <2>. QED  BY <2>1, <2>2, FS_Subset
<1>4. ASSUME NEW i \in T
      PROVE  /\ up[i] = Cardinality(OfKeys(DrawnUps(r), upKey, {i}))
             /\ span[i] = Cardinality(OfKeys(Seen(r), spanKey, {i}))
  <2>1. UpOn(r, i) = OfKeys(DrawnUps(r), upKey, {i})
    BY ONLY Zenon DEF UpOn, OfKeys, DrawnUps
  <2>2. Watched(r, i) = OfKeys(Seen(r), spanKey, {i})
    BY ONLY Zenon DEF Watched, Seen, OfKeys
  <2>3. up[i] = Cardinality(UpOn(r, i)) /\ span[i] = Cardinality(Watched(r, i))
    BY ShownBars
  <2>. QED  BY ONLY <2>1, <2>2, <2>3
<1>5. \A i \in 0 .. r.count - 1 : Watched(r, i) # {} => i \in T
  <2>. SUFFICES ASSUME NEW i \in 0 .. r.count - 1, Watched(r, i) # {}
                PROVE  i \in T
    OBVIOUS
  <2>1. IsFiniteSet(Watched(r, i))
    BY <1>2, FS_Subset DEF Watched, Seen
  <2>2. Cardinality(Watched(r, i)) \in Nat /\ Cardinality(Watched(r, i)) # 0
    BY <2>1, FS_CardinalityType, FS_EmptySet
  <2>. QED  BY <2>2, ShownBars
<1>6. OfKeys(DrawnUps(r), upKey, T) = DrawnUps(r)
  <2>1. \A c \in DrawnUps(r) : upKey[c] \in T
    <3>. SUFFICES ASSUME NEW c \in DrawnUps(r)  PROVE BarAt(r, c.at) \in T
      OBVIOUS
    <3>1. c \in Drawn(r)
      BY DEF DrawnUps
    <3>. QED  BY <1>5, <3>1, DrawnIsWatched
  <2>. HIDE DEF T, upKey
  <2>. QED  BY ONLY <2>1 DEF OfKeys
<1>7. OfKeys(Seen(r), spanKey, T) = Seen(r)
  <2>1. \A t \in Seen(r) : spanKey[t] \in T
    <3>. SUFFICES ASSUME NEW t \in Seen(r)  PROVE BarAt(r, t) \in T
      OBVIOUS
    <3>1. t \in Nat /\ WindowStart(r) <= t /\ t < WindowEnd
      <4>1. /\ WindowStart(r) \in Int /\ clock <= WindowEnd /\ WindowEnd \in Nat
        BY <1>1, Window
      <4>2. firstEver \in Nat
        BY DEF DrawnInv, UptimeTypeOK
      <4>. QED  BY ONLY <1>1, <4>1, <4>2, t \in Seen(r) DEF Seen
    <3>2. BarAt(r, t) \in 0 .. r.count - 1
      BY <1>1, <3>1, BarOfBucket
    <3>3. t \in Watched(r, BarAt(r, t))
      BY DEF Watched, Seen
    <3>. QED  BY <1>5, <3>2, <3>3
  <2>. HIDE DEF T, spanKey
  <2>. QED  BY ONLY <2>1 DEF OfKeys
<1>. HIDE DEF T, up, span, upKey, spanKey
<1>8. CountsKeys(up, T, DrawnUps(r), upKey) /\ CountsKeys(span, T, Seen(r), spanKey)
  BY ONLY <1>4 DEF CountsKeys
<1>9. /\ \E g : Sums(g, T, up)
      /\ \A g : Sums(g, T, up) => g[T] = Cardinality(DrawnUps(r))
      /\ \E g : Sums(g, T, span)
      /\ \A g : Sums(g, T, span) => g[T] = Cardinality(Seen(r))
  BY ONLY <1>2, <1>3, <1>6, <1>7, <1>8, SumOfKeys
<1>. QED  BY ONLY <1>9, TotalIsSum, r \in Ranges DEF T, up, span

\* How long it has been watched.
LEMMA SeenSpan ==
  ASSUME DrawnInv, NEW r \in Ranges, firstEver # None
  PROVE  Cardinality(Seen(r)) = clock - Larger(Smaller(firstEver, clock), WindowStart(r))
<1>1. /\ clock \in Nat /\ WindowStart(r) \in Int /\ firstEver \in Nat
      /\ WindowStart(r) < clock
  BY Window DEF DrawnInv, UptimeTypeOK
<1>. DEFINE from == Larger(WindowStart(r), firstEver)
<1>2. from \in Int
  BY <1>1 DEF Larger
<1>3. Seen(r) = from .. clock - 1
  BY SeenIs
<1>4. from = IF WindowStart(r) >= firstEver THEN WindowStart(r) ELSE firstEver
  BY DEF Larger
<1>. HIDE DEF from
<1>5. Cardinality(from .. clock - 1) = IF from > clock - 1 THEN 0 ELSE clock - 1 - from + 1
  BY <1>1, <1>2, FS_Interval
<1>. QED  BY ONLY <1>1, <1>2, <1>3, <1>4, <1>5 DEF Larger, Smaller

\* What it says of bars.
LEMMA DrawnInvSays == DrawnInv => BarsCountSamples
<1>. SUFFICES ASSUME DrawnInv  PROVE BarsCountSamples
  OBVIOUS
<1>1. ASSUME NEW r \in Ranges
      PROVE  /\ DOMAIN Bars(r) = {i \in 0 .. r.count - 1 : Drawn(r) # {}}
             /\ \A i \in DOMAIN Bars(r) :
                  Bars(r)[i] = Ratio(Cardinality(UpOn(r, i)), Cardinality(Watched(r, i)))
             /\ firstEver # None /\ Drawn(r) # {} =>
                  Total(r) = Ratio(Cardinality(DrawnUps(r)),
                                   clock - Larger(Smaller(firstEver, clock), WindowStart(r)))
  BY BarsAreTrue, TotalIsTrue, SeenSpan
<1>. QED  BY ONLY <1>1, Zenon DEF BarsCountSamples, Drawn, DrawnUps, UpOn, Watched, BarAt

\* It holds before the first check.
LEMMA DrawnInvInit == UptimeInit => DrawnInv
BY UptimeAssumption, FS_EmptySet DEF UptimeInit, DrawnInv, UptimeTypeOK, FirstIsFirst

\* It holds as time passes, checks are taken and the cache expires.
LEMMA DrawnInvNext == DrawnInv /\ [UptimeStep]_uptimeVars => DrawnInv'
<1>. SUFFICES ASSUME DrawnInv, [UptimeStep]_uptimeVars  PROVE DrawnInv'
  OBVIOUS
<1>1. UptimeTypeOK'
  BY UptimeTypeNext DEF DrawnInv
<1>2. CASE UNCHANGED uptimeVars \/ Passes
  <2>1. taken' = taken /\ firstEver' = firstEver
    BY <1>2 DEF uptimeVars, Passes
  <2>2. IsFiniteSet(taken)' /\ FirstIsFirst'
    BY ONLY <2>1, DrawnInv DEF DrawnInv, FirstIsFirst, Rows, Times, BucketOf
  <2>. QED  BY <1>1, <2>2 DEF DrawnInv
<1>3. CASE Check
  <2>1. PICK up \in BOOLEAN : taken' = taken \cup {[at |-> clock, up |-> up]}
    BY <1>3 DEF Check
  <2>2. firstEver' = firstEver
    BY <1>3 DEF Check
  <2>3. IsFiniteSet(taken')
    BY ONLY <2>1, DrawnInv, FS_AddElement DEF DrawnInv
  <2>4. Rows' = Rows \cup {BucketOf(clock)}
    <3>1. Times' = Times \cup {clock}
      <4>. DEFINE c == [at |-> clock, up |-> up]
      <4>1. c.at = clock /\ taken' = taken \cup {c}
        BY ONLY <2>1
      <4>. HIDE DEF c
      <4>. QED  BY ONLY <4>1, Zenon DEF Times
    <3>. QED  BY ONLY <3>1, Zenon DEF Rows, BucketOf
  <2>5. \A b \in Rows : b <= BucketOf(clock)
    <3>1. UptimeTypeOK
      BY DEF DrawnInv
    <3>2. clock \in Nat /\ \A c \in taken : c.at \in 0 .. clock
      BY <3>1, TakenTimes
    <3>3. ASSUME NEW t \in 0 .. clock  PROVE BucketOf(t) <= BucketOf(clock)
      <4>1. t \in Nat /\ t <= clock
        BY <3>2, <3>3
      <4>2. BucketOf(t) <= t /\ BucketOf(t) \in Nat /\ Multiple(BucketOf(t))
        BY <4>1, BucketBounds
      <4>3. BucketOf(t) <= clock
        BY ONLY <3>2, <4>1, <4>2
      <4>. QED  BY <3>2, <4>2, <4>3, SameSide
    <3>. QED  BY <3>2, <3>3 DEF Rows, Times
  <2>6. FirstIsFirst'
    BY ONLY <2>2, <2>4, <2>5, DrawnInv, Zenon DEF DrawnInv, FirstIsFirst, None
  <2>. QED  BY <1>1, <2>3, <2>6 DEF DrawnInv
<1>4. CASE FirstEverExpires
  <2>1. taken' = taken /\ taken # {} /\ firstEver' = Least(Rows)
    BY <1>4 DEF FirstEverExpires
  <2>2. Rows \subseteq Nat /\ Rows # {}
    <3>1. UptimeTypeOK
      BY DEF DrawnInv
    <3>2. clock \in Nat /\ \A c \in taken : c.at \in 0 .. clock
      BY <3>1, TakenTimes
    <3>3. \A c \in taken : BucketOf(c.at) \in Nat
      BY <3>2, BucketTypes
    <3>. QED  BY <2>1, <3>3 DEF Rows, Times
  <2>3. Least(Rows) \in Rows /\ \A b \in Rows : Least(Rows) <= b
    <3>. HIDE DEF Rows
    <3>1. \E n \in Rows : \A m \in Rows : n <= m
      BY ONLY <2>2, FirstOf
    <3>. QED  BY ONLY <3>1 DEF Least
  <2>4. Rows' = Rows
    BY <2>1 DEF Rows, Times, BucketOf
  <2>5. FirstIsFirst'
    BY ONLY <2>1, <2>3, <2>4 DEF FirstIsFirst
  <2>. QED  BY <1>1, <2>1, <2>5 DEF DrawnInv
<1>. QED  BY <1>2, <1>3, <1>4 DEF UptimeStep

-----------------------------------------------------------------------------
(* Gaps.                                                                    *)

\* Gaps as they are sent to the browser.
Gaps == [start : Int, end : Int]

\* RollupGaps takes one more bucket.
AddBucket(r, gaps, b) ==
  LET gapEnd == Smaller(b + Bucket, clock)
  IN IF b \in InWindow(r) THEN gaps
     ELSE IF gaps # <<>> /\ Last(gaps).end = b
     THEN [gaps EXCEPT ![Len(gaps)].end = gapEnd]
     ELSE Append(gaps, [start |-> b, end |-> gapEnd])

\* g goes through any of the buckets, in their order, as FoldLeft does.
Goes(g, D, r, bs) ==
  g = [s \in SUBSET D |->
         IF s = {} THEN <<>>
         ELSE AddBucket(r, g[s \ {Max(s)}], bs[Max(s)])]

\* The last of a set of numbers.
LEMMA LastOf ==
  ASSUME NEW n \in Nat, NEW s \in SUBSET (1 .. n), s # {}
  PROVE  Max(s) \in s /\ \A i \in s : i <= Max(s)
<1>1. {n - i : i \in s} \in SUBSET Nat /\ {n - i : i \in s} # {}
  OBVIOUS
<1>2. PICK x \in {n - i : i \in s} : \A y \in {n - i : i \in s} : x <= y
  BY ONLY <1>1, FirstOf
<1>3. PICK m \in s : x = n - m
  BY <1>2
<1>4. \A i \in s : m >= i
  <2>1. \A i \in s : n - m <= n - i
    BY <1>2, <1>3
  <2>2. \A i \in s : i \in Int
    OBVIOUS
  <2>. QED  BY ONLY <2>1, <2>2, m \in s, n \in Nat
<1>5. \E k \in s : \A i \in s : k >= i
  BY <1>4
<1>6. Max(s) \in s /\ \A i \in s : Max(s) >= i
  BY ONLY <1>5 DEF Max
<1>7. s \subseteq Int
  OBVIOUS
<1>. QED  BY ONLY <1>6, <1>7

\* There is a way to go through them: from one for sets of less than k buckets
\* comes one for sets of k.
LEMMA CanGo ==
  ASSUME NEW r, NEW n \in Nat, NEW bs
  PROVE  \E g : Goes(g, 1 .. n, r, bs)
<1>. DEFINE D == 1 .. n
            After(g, s) == IF s = {} THEN <<>>
                           ELSE AddBucket(r, g[s \ {Max(s)}], bs[Max(s)])
            \* Right for sets of less than k buckets.
            Right(g, k) == \A s \in SUBSET D : Cardinality(s) < k => g[s] = After(g, s)
            Bad == {k \in Nat : ~ \E g : Right(g, k)}
<1>1. \A s \in SUBSET D : IsFiniteSet(s) /\ Cardinality(s) \in Nat
  <2>1. IsFiniteSet(D)
    BY FS_Interval
  <2>. QED  BY <2>1, FS_Subset, FS_CardinalityType
<1>2. ASSUME NEW s \in SUBSET D, s # {}
      PROVE  /\ s \ {Max(s)} \in SUBSET D
             /\ Cardinality(s \ {Max(s)}) < Cardinality(s)
  <2>1. Max(s) \in s
    BY <1>2, LastOf
  <2>2. IsFiniteSet(s) /\ Cardinality(s) \in Nat
    BY <1>1
  <2>3. Cardinality(s \ {Max(s)}) = Cardinality(s) - 1
    BY ONLY <2>1, <2>2, FS_RemoveElement
  <2>4. s \ {Max(s)} \in SUBSET D
    OBVIOUS
  <2>. QED  BY ONLY <2>2, <2>3, <2>4
<1>3. ASSUME NEW g, NEW k \in Nat, Right(g, k)
      PROVE  Right([s \in SUBSET D |-> After(g, s)], k + 1)
  <2>. DEFINE h == [s \in SUBSET D |-> After(g, s)]
  <2>. SUFFICES ASSUME NEW s \in SUBSET D, Cardinality(s) < k + 1
                PROVE  h[s] = After(h, s)
    OBVIOUS
  <2>1. CASE s = {}
    BY <2>1
  <2>2. CASE s # {}
    <3>. DEFINE u == s \ {Max(s)}
    <3>1. u \in SUBSET D /\ Cardinality(u) < k
      <4>1. u \in SUBSET D /\ Cardinality(u) < Cardinality(s)
        BY <1>2, <2>2
      <4>2. Cardinality(u) \in Nat /\ Cardinality(s) \in Nat
        BY <1>1, <4>1
      <4>. HIDE DEF u
      <4>. QED  BY ONLY <4>1, <4>2, Cardinality(s) < k + 1, k \in Nat
    <3>2. h[u] = After(g, u) /\ g[u] = After(g, u)
      <4>. HIDE DEF After, u
      <4>. QED  BY <1>3, <3>1
    <3>3. h[s] = AddBucket(r, g[u], bs[Max(s)])
      BY <2>2
    <3>4. After(h, s) = AddBucket(r, h[u], bs[Max(s)])
      <4>. HIDE DEF h
      <4>. QED  BY <2>2
    <3>. HIDE DEF h, u, After
    <3>. QED  BY ONLY <3>2, <3>3, <3>4
  <2>. QED  BY <2>1, <2>2
<1>. HIDE DEF After
<1>4. ASSUME Bad # {}  PROVE FALSE
  <2>1. Bad \in SUBSET Nat
    OBVIOUS
  <2>2. PICK k \in Bad : \A j \in Bad : k <= j
    BY ONLY <1>4, <2>1, FirstOf
  <2>3. CASE k = 0
    <3>1. \A g : Right(g, 0)
      BY <1>1
    <3>. HIDE DEF Right
    <3>. QED  BY <2>2, <2>3, <3>1
  <2>4. CASE k # 0
    <3>1. k - 1 \in Nat /\ k - 1 \notin Bad /\ (k - 1) + 1 = k
      BY <2>2, <2>4
    <3>. HIDE DEF Right
    <3>2. PICK g : Right(g, k - 1)
      BY <3>1
    <3>3. Right([s \in SUBSET D |-> After(g, s)], k)
      BY ONLY <1>3, <3>1, <3>2
    <3>. QED  BY <2>2, <3>3
  <2>. QED  BY <2>3, <2>4
<1>5. PICK g : Right(g, n + 1)
  <2>. HIDE DEF Right
  <2>1. n + 1 \in Nat
    OBVIOUS
  <2>. QED  BY <1>4, <2>1
<1>6. \A s \in SUBSET D : Cardinality(s) < n + 1
  <2>1. IsFiniteSet(D) /\ Cardinality(D) = n
    BY FS_Interval
  <2>2. \A s \in SUBSET D : Cardinality(s) <= n
    BY <2>1, FS_Subset
  <2>. QED  BY <1>1, <2>2
<1>. DEFINE h == [s \in SUBSET D |-> g[s]]
<1>7. \A s \in SUBSET D : h[s] = After(h, s)
  <2>. SUFFICES ASSUME NEW s \in SUBSET D  PROVE h[s] = After(h, s)
    OBVIOUS
  <2>1. h[s] = After(g, s)
    BY <1>5, <1>6
  <2>2. s # {} => h[s \ {Max(s)}] = g[s \ {Max(s)}]
    BY <1>2
  <2>. HIDE DEF h
  <2>. QED  BY ONLY <2>1, <2>2 DEF After
<1>8. h = [s \in SUBSET D |-> After(h, s)]
  <2>1. h = [s \in SUBSET D |-> h[s]]
    OBVIOUS
  <2>. HIDE DEF h
  <2>. QED  BY ONLY <1>7, <2>1
<1>. HIDE DEF h
<1>. QED  BY ONLY <1>8 DEF Goes, After

\* It goes from bucket to bucket.
LEMMA GoesOn ==
  ASSUME NEW r, NEW n \in Nat, NEW bs, NEW g, Goes(g, 1 .. n, r, bs)
  PROVE  \A k \in 1 .. n : g[1 .. k] = AddBucket(r, g[1 .. k - 1], bs[k])
<1>1. \A s \in SUBSET (1 .. n) :
        g[s] = IF s = {} THEN <<>> ELSE AddBucket(r, g[s \ {Max(s)}], bs[Max(s)])
  BY DEF Goes
<1>2. ASSUME NEW k \in 1 .. n
      PROVE  g[1 .. k] = AddBucket(r, g[1 .. k - 1], bs[k])
  <2>1. 1 .. k \in SUBSET (1 .. n) /\ 1 .. k # {} /\ k \in 1 .. k
    <3>1. \A x \in 1 .. k : x \in 1 .. n
      OBVIOUS
    <3>2. k \in 1 .. k
      OBVIOUS
    <3>. QED  BY ONLY <3>1, <3>2, Zenon
  <2>2. Max(1 .. k) \in 1 .. k /\ k <= Max(1 .. k)
    BY ONLY <2>1, LastOf, n \in Nat
  <2>3. Max(1 .. k) = k
    BY <2>2
  <2>4. (1 .. k) \ {k} = 1 .. k - 1
    <3>1. k \in Int
      OBVIOUS
    <3>. QED  BY ONLY <3>1
  <2>. QED  BY ONLY <1>1, <2>1, <2>3, <2>4
<1>. QED  BY <1>2

\* A list of gaps that is right for the times from a to e: it covers the half
\* hours without a check, in pieces with a check between them.
RightGaps(gaps, a, e) ==
  /\ gaps \in Seq(Gaps)
  /\ \A i \in 1 .. Len(gaps) : gaps[i].start <= gaps[i].end /\ gaps[i].end <= e
  /\ \A t \in Int : (\E i \in 1 .. Len(gaps) : gaps[i].start <= t /\ t < gaps[i].end)
                      <=> a <= t /\ t < e /\ BucketOf(t) \notin Rows
  /\ \A i \in 2 .. Len(gaps) : gaps[i - 1].end < gaps[i].start

\* What a list of gaps covers.
LEMMA CoveredTimes ==
  ASSUME NEW gaps \in Seq(Gaps), NEW t
  PROVE  t \in Covered(Range(gaps)) <=>
           t \in Int /\ \E i \in 1 .. Len(gaps) : gaps[i].start <= t /\ t < gaps[i].end
<1>1. \A i \in 1 .. Len(gaps) : gaps[i] \in Gaps
  OBVIOUS
<1>2. \A i \in 1 .. Len(gaps) : gaps[i].start \in Int /\ gaps[i].end \in Int
  BY <1>1 DEF Gaps
<1>3. DOMAIN gaps = 1 .. Len(gaps)
  OBVIOUS
<1>4. Range(gaps) = {gaps[i] : i \in 1 .. Len(gaps)}
  BY ONLY <1>3 DEF Range
<1>5. t \in Covered(Range(gaps)) <=>
        \E i \in 1 .. Len(gaps) : t \in gaps[i].start .. gaps[i].end - 1
  BY ONLY <1>4 DEF Covered
<1>6. \A i \in 1 .. Len(gaps) : t \in gaps[i].start .. gaps[i].end - 1 <=>
          t \in Int /\ gaps[i].start <= t /\ t < gaps[i].end
  BY ONLY <1>2
<1>. QED  BY ONLY <1>5, <1>6

\* One more bucket keeps it right: it has a row, it prolongs the last gap, or it
\* starts one.
LEMMA OneMoreBucket ==
  ASSUME NEW r \in Ranges, NEW a \in Nat, NEW b \in Nat, a <= b, b < clock, clock \in Nat,
         Multiple(b), b \in InWindow(r) <=> b \in Rows,
         NEW gaps, RightGaps(gaps, a, b)
  PROVE  RightGaps(AddBucket(r, gaps, b), a, Smaller(b + Bucket, clock))
<1>. DEFINE e == Smaller(b + Bucket, clock)
            n == Len(gaps)
<1>1. /\ gaps \in Seq(Gaps) /\ n \in Nat
      /\ \A i \in 1 .. n : gaps[i] \in Gaps
      /\ \A i \in 1 .. n : gaps[i].start <= gaps[i].end /\ gaps[i].end <= b
      /\ \A i \in 2 .. n : gaps[i - 1].end < gaps[i].start
      /\ \A t \in Int : (\E i \in 1 .. n : gaps[i].start <= t /\ t < gaps[i].end)
                          <=> a <= t /\ t < b /\ BucketOf(t) \notin Rows
  <2>1. gaps \in Seq(Gaps)
    BY DEF RightGaps
  <2>2. n \in Nat /\ \A i \in 1 .. n : gaps[i] \in Gaps
    BY ONLY <2>1
  <2>. QED  BY <2>1, <2>2 DEF RightGaps
<1>2. \A i \in 1 .. n : gaps[i].start \in Int /\ gaps[i].end \in Int
  BY ONLY <1>1 DEF Gaps
<1>3. e \in Nat /\ b < e /\ e <= b + Bucket /\ e <= clock
  BY UptimeAssumption DEF Smaller
<1>4. \A t \in Int : b <= t /\ t < e => BucketOf(t) = b
  <2>. SUFFICES ASSUME NEW t \in Nat, b <= t, t < e  PROVE BucketOf(t) = b
    OBVIOUS
  <2>1. b <= BucketOf(t)
    BY SameSide
  <2>2. /\ BucketOf(t) \in Nat /\ Multiple(BucketOf(t)) /\ BucketOf(t) <= t
        /\ Bucket \in Nat
    BY BucketBounds, UptimeAssumption
  <2>3. ~ (b < BucketOf(t))
    <3>1. b < BucketOf(t) => b + Bucket <= BucketOf(t)
      BY <2>2, Apart
    <3>. HIDE DEF e
    <3>. QED  BY ONLY <1>3, <2>2, <3>1, t < e, t \in Nat, b \in Nat
  <2>. QED  BY ONLY <2>1, <2>2, <2>3, b \in Nat
<1>. HIDE DEF e, n
<1>5. \A t \in Int : a <= t /\ t < e /\ BucketOf(t) \notin Rows <=>
        \/ a <= t /\ t < b /\ BucketOf(t) \notin Rows
        \/ b <= t /\ t < e /\ b \notin Rows
  BY ONLY <1>3, <1>4, a \in Nat, b \in Nat, a <= b
<1>6. CASE b \in Rows
  <2>1. AddBucket(r, gaps, b) = gaps
    BY <1>6 DEF AddBucket
  <2>2. \A i \in 1 .. n : gaps[i].end <= e
    BY ONLY <1>1, <1>2, <1>3, b \in Nat
  <2>3. \A t \in Int : (\E i \in 1 .. n : gaps[i].start <= t /\ t < gaps[i].end)
                          <=> a <= t /\ t < e /\ BucketOf(t) \notin Rows
    BY ONLY <1>1, <1>5, <1>6
  <2>. QED  BY ONLY <1>1, <2>1, <2>2, <2>3 DEF RightGaps, e, n
<1>7. CASE b \notin Rows /\ gaps # <<>> /\ Last(gaps).end = b
  <2>. DEFINE new == [gaps EXCEPT ![n].end = e]
  <2>1. AddBucket(r, gaps, b) = new
    BY <1>7 DEF AddBucket, e, n
  <2>2. n \in 1 .. n /\ gaps[n].end = b
    <3>1. n # 0
      BY <1>1, <1>7 DEF n
    <3>. QED  BY ONLY <1>1, <1>7, <3>1 DEF Last, n
  <2>3. /\ new \in Seq(Gaps) /\ Len(new) = n
        /\ \A i \in 1 .. n : i # n => new[i] = gaps[i]
        /\ new[n].start = gaps[n].start /\ new[n].end = e
    <3>. DEFINE last == [gaps[n] EXCEPT !.end = e]
    <3>1. /\ last \in Gaps
          /\ last.start = gaps[n].start /\ last.end = e
      BY ONLY <1>1, <1>3, <2>2 DEF Gaps
    <3>2. new = [gaps EXCEPT ![n] = last]
      OBVIOUS
    <3>. HIDE DEF last, new
    <3>. QED  BY ONLY <1>1, <2>2, <3>1, <3>2 DEF n
  <2>. HIDE DEF new
  <2>4. \A i \in 1 .. n : new[i].start = gaps[i].start /\ new[i].start \in Int
    BY ONLY <1>2, <2>2, <2>3
  <2>5. \A i \in 1 .. n : new[i].start <= new[i].end /\ new[i].end <= e
    <3>1. \A i \in 1 .. n : gaps[i].start <= b /\ gaps[i].end <= e
      BY ONLY <1>1, <1>2, <1>3, b \in Nat
    <3>2. new[n].start <= e
      BY ONLY <1>2, <1>3, <2>2, <2>3, <3>1, b \in Nat
    <3>3. e <= e
      BY <1>3
    <3>. QED  BY ONLY <1>1, <2>3, <3>1, <3>2, <3>3
  <2>6. \A i \in 2 .. n : new[i - 1].end < new[i].start
    <3>. SUFFICES ASSUME NEW i \in 2 .. n  PROVE new[i - 1].end < new[i].start
      OBVIOUS
    <3>1. i \in 1 .. n /\ i - 1 \in 1 .. n /\ i - 1 # n
      BY ONLY <1>1, i \in 2 .. n
    <3>. QED  BY ONLY <1>1, <2>3, <2>4, <3>1, i \in 2 .. n
  <2>7. ASSUME NEW t \in Int
        PROVE  (\E i \in 1 .. n : new[i].start <= t /\ t < new[i].end)
                 <=> \/ \E i \in 1 .. n : gaps[i].start <= t /\ t < gaps[i].end
                     \/ b <= t /\ t < e
    <3>1. gaps[n].start \in Int /\ gaps[n].start <= b /\ gaps[n].end = b
      BY <1>1, <1>2, <2>2
    <3>2. new[n].start <= t /\ t < new[n].end <=>
            \/ gaps[n].start <= t /\ t < gaps[n].end
            \/ b <= t /\ t < e
      BY ONLY <1>3, <2>3, <3>1, b \in Nat, t \in Int
    <3>. QED  BY ONLY <2>2, <2>3, <3>2
  <2>8. \A t \in Int : (\E i \in 1 .. n : new[i].start <= t /\ t < new[i].end)
                          <=> a <= t /\ t < e /\ BucketOf(t) \notin Rows
    BY ONLY <1>1, <1>5, <1>7, <2>7
  <2>9. RightGaps(new, a, e)
    BY ONLY <2>3, <2>5, <2>6, <2>8 DEF RightGaps
  <2>. QED  BY ONLY <2>1, <2>9 DEF e
<1>8. CASE b \notin Rows /\ ~ (gaps # <<>> /\ Last(gaps).end = b)
  <2>. DEFINE gap == [start |-> b, end |-> e]
              new == Append(gaps, gap)
  <2>1. AddBucket(r, gaps, b) = new
    BY <1>8 DEF AddBucket, e, n
  <2>2. gap \in Gaps /\ gap.start = b /\ gap.end = e
    BY <1>3 DEF Gaps
  <2>. HIDE DEF gap
  <2>3. /\ new \in Seq(Gaps) /\ Len(new) = n + 1
        /\ \A i \in 1 .. n : new[i] = gaps[i]
        /\ new[n + 1] = gap
    BY ONLY <1>1, <2>2, AppendProperties DEF n
  <2>. HIDE DEF new
  <2>4. \A i \in 1 .. n + 1 : i \in 1 .. n \/ i = n + 1
    BY ONLY <1>1
  <2>5. \A i \in 1 .. n + 1 : new[i].start <= new[i].end /\ new[i].end <= e
    <3>1. \A i \in 1 .. n : gaps[i].end <= e
      BY ONLY <1>1, <1>2, <1>3, b \in Nat
    <3>2. b <= e /\ e <= e
      BY ONLY <1>3, b \in Nat
    <3>. QED  BY ONLY <1>1, <2>2, <2>3, <2>4, <3>1, <3>2
  <2>6. \A i \in 2 .. n + 1 : new[i - 1].end < new[i].start
    <3>. SUFFICES ASSUME NEW i \in 2 .. n + 1  PROVE new[i - 1].end < new[i].start
      OBVIOUS
    <3>1. i - 1 \in 1 .. n /\ n \in Nat
      BY ONLY <1>1, i \in 2 .. n + 1
    <3>2. CASE i = n + 1
      <4>1. n \in 1 .. n /\ new[n] = gaps[n]
        BY ONLY <2>3, <3>1, <3>2
      <4>2. gaps # <<>> /\ Last(gaps) = gaps[n]
        BY ONLY <1>1, <4>1 DEF Last, n
      <4>3. gaps[n].end < b
        BY ONLY <1>1, <1>2, <1>8, <4>1, <4>2, b \in Nat
      <4>. QED  BY ONLY <2>2, <2>3, <3>1, <3>2, <4>1, <4>3
    <3>3. CASE i # n + 1
      <4>1. i \in 2 .. n /\ i \in 1 .. n
        BY ONLY <3>1, <3>3, i \in 2 .. n + 1
      <4>. QED  BY ONLY <1>1, <2>3, <3>1, <4>1
    <3>. QED  BY <3>2, <3>3
  <2>7. ASSUME NEW t \in Int
        PROVE  (\E i \in 1 .. n + 1 : new[i].start <= t /\ t < new[i].end)
                 <=> \/ \E i \in 1 .. n : gaps[i].start <= t /\ t < gaps[i].end
                     \/ b <= t /\ t < e
    <3>1. \A i \in 1 .. n : i \in 1 .. n + 1
      BY <1>1
    <3>2. n + 1 \in 1 .. n + 1
      BY <1>1
    <3>. QED  BY ONLY <2>2, <2>3, <2>4, <3>1, <3>2
  <2>8. \A t \in Int : (\E i \in 1 .. n + 1 : new[i].start <= t /\ t < new[i].end)
                          <=> a <= t /\ t < e /\ BucketOf(t) \notin Rows
    BY ONLY <1>1, <1>5, <1>8, <2>7
  <2>9. RightGaps(new, a, e)
    BY ONLY <2>3, <2>5, <2>6, <2>8 DEF RightGaps
  <2>. QED  BY ONLY <2>1, <2>9 DEF e
<1>. QED  BY <1>6, <1>7, <1>8 DEF e

\* Where getRollupHistory starts, and its buckets.
Drawing(r) == Larger(WindowStart(r), firstEver)
Buckets(r) == [n \in 1 .. (clock - Drawing(r) + Bucket - 1) \div Bucket |->
                 Drawing(r) + (n - 1) * Bucket]

\* The gaps are what some way through the buckets comes to.
LEMMA GapsAreFold ==
  ASSUME NEW r, firstEver # None, \E g : Goes(g, DOMAIN Buckets(r), r, Buckets(r))
  PROVE  \E g : Goes(g, DOMAIN Buckets(r), r, Buckets(r)) /\ RollupGaps(r) = g[DOMAIN Buckets(r)]
<1>1. RollupGaps(r) = (CHOOSE g : Goes(g, DOMAIN Buckets(r), r, Buckets(r)))[DOMAIN Buckets(r)]
  BY DEF RollupGaps, FoldLeft, MapThenFoldSet, AddBucket, Goes, Buckets, Drawing
<1>2. Goes(CHOOSE g : Goes(g, DOMAIN Buckets(r), r, Buckets(r)), DOMAIN Buckets(r), r, Buckets(r))
  BY Zenon
<1>. QED  BY <1>1, <1>2

\* The buckets start in the past, and the last one reaches the clock.
LEMMA BucketsReach ==
  ASSUME DrawnInv, NEW r \in Ranges, firstEver # None
  PROVE  LET a == Drawing(r)
             n == (clock - a + Bucket - 1) \div Bucket
         IN /\ a \in Nat /\ a <= clock /\ Multiple(a)
            /\ n \in Nat /\ clock <= a + n * Bucket
            /\ \A k \in 1 .. n :
                 /\ a + (k - 1) * Bucket \in Nat /\ a <= a + (k - 1) * Bucket
                 /\ a + (k - 1) * Bucket < clock
                 /\ Multiple(a + (k - 1) * Bucket)
                 /\ a + (k - 1) * Bucket + Bucket = a + k * Bucket
<1>. DEFINE a == Drawing(r)
            n == (clock - a + Bucket - 1) \div Bucket
<1>1. /\ clock \in Nat /\ WindowStart(r) \in Int /\ firstEver \in Nat
      /\ WindowStart(r) < clock /\ Multiple(WindowStart(r)) /\ Bucket \in Nat \ {0}
  BY Window, UptimeAssumption DEF DrawnInv, UptimeTypeOK
<1>2. PICK c \in taken : firstEver = BucketOf(c.at)
  BY DEF DrawnInv, FirstIsFirst, Rows, Times
<1>3. c.at \in Nat /\ c.at <= clock
  BY RowsInWindow DEF DrawnInv
<1>4. firstEver <= clock /\ Multiple(firstEver)
  <2>1. BucketOf(c.at) <= c.at /\ BucketOf(c.at) \in Nat /\ Multiple(BucketOf(c.at))
    BY <1>3, BucketBounds
  <2>. QED  BY ONLY <1>1, <1>2, <1>3, <2>1
<1>5. a \in Nat /\ a <= clock /\ Multiple(a)
  BY ONLY <1>1, <1>4 DEF Drawing, Larger
<1>. HIDE DEF a
<1>6. clock - a + Bucket - 1 \in Nat
  BY ONLY <1>1, <1>5
<1>7. /\ n \in Int /\ n * Bucket <= clock - a + Bucket - 1
      /\ clock - a + Bucket - 1 < n * Bucket + Bucket
  <2>1. PICK x \in Nat : x = clock - a + Bucket - 1
    BY <1>6
  <2>2. n = x \div Bucket
    BY <2>1
  <2>3. /\ x \div Bucket \in Int /\ (x \div Bucket) * Bucket <= x
        /\ x < (x \div Bucket) * Bucket + Bucket
    BY ONLY <1>1, x \in Nat, Quotient
  <2>. HIDE DEF n
  <2>. QED  BY ONLY <2>1, <2>2, <2>3
<1>8. n \in Nat
  BY ONLY <1>1, <1>6
<1>. HIDE DEF n
<1>9. n * Bucket \in Nat
  BY ONLY <1>1, <1>8
<1>10. clock <= a + n * Bucket
  BY ONLY <1>1, <1>5, <1>7, <1>9
<1>11. ASSUME NEW k \in 1 .. n
       PROVE  /\ a + (k - 1) * Bucket \in Nat /\ a <= a + (k - 1) * Bucket
              /\ a + (k - 1) * Bucket < clock
              /\ Multiple(a + (k - 1) * Bucket)
              /\ a + (k - 1) * Bucket + Bucket = a + k * Bucket
  <2>1. k - 1 \in Nat /\ n - k \in Nat /\ k \in Nat
    BY ONLY <1>8, k \in 1 .. n
  <2>2. (k - 1) * Bucket \in Nat /\ (n - k) * Bucket \in Nat
    BY ONLY <1>1, <2>1
  <2>3. (k - 1) * Bucket + Bucket = k * Bucket /\ (n - k) * Bucket = n * Bucket - k * Bucket
    BY ONLY <1>1, <1>8, <2>1
  <2>4. k * Bucket \in Nat
    BY ONLY <1>1, <2>1
  <2>5. a + (k - 1) * Bucket < clock
    BY ONLY <1>1, <1>5, <1>7, <1>9, <2>2, <2>3, <2>4
  <2>6. Multiple((k - 1) * Bucket)
    BY <1>5, <2>1, Multiples
  <2>7. Multiple(a + (k - 1) * Bucket)
    BY ONLY <1>5, <2>6, Multiples
  <2>. QED  BY ONLY <1>1, <1>5, <2>2, <2>3, <2>4, <2>5, <2>7
<1>. QED  BY ONLY <1>5, <1>8, <1>10, <1>11 DEF a, n

\* The gaps are right after every bucket, so after the last one.
LEMMA RollupGapsAreRight ==
  ASSUME DrawnInv, NEW r \in Ranges, firstEver # None
  PROVE  RightGaps(RollupGaps(r), Drawing(r), clock)
<1>. DEFINE a == Drawing(r)
            n == (clock - a + Bucket - 1) \div Bucket
            bs == Buckets(r)
<1>1. /\ a \in Nat /\ a <= clock /\ Multiple(a)
      /\ n \in Nat /\ clock <= a + n * Bucket
      /\ \A k \in 1 .. n :
                 /\ a + (k - 1) * Bucket \in Nat /\ a <= a + (k - 1) * Bucket
                 /\ a + (k - 1) * Bucket < clock
                 /\ Multiple(a + (k - 1) * Bucket)
                 /\ a + (k - 1) * Bucket + Bucket = a + k * Bucket
  BY BucketsReach
<1>2. DOMAIN bs = 1 .. n /\ \A k \in 1 .. n : bs[k] = a + (k - 1) * Bucket
  BY DEF Buckets
<1>3. clock \in Nat /\ UptimeTypeOK /\ Bucket \in Nat \ {0}
  BY UptimeAssumption DEF DrawnInv, UptimeTypeOK
<1>. HIDE DEF n, bs
<1>4. ASSUME NEW k \in 1 .. n
      PROVE  bs[k] \in InWindow(r) <=> bs[k] \in Rows
  <2>1. /\ WindowStart(r) \in Int /\ clock <= WindowEnd /\ WindowEnd \in Nat
    BY <1>3, Window
  <2>2. bs[k] \in Nat /\ a <= bs[k] /\ bs[k] < clock
    BY ONLY <1>1, <1>2, k \in 1 .. n
  <2>3. WindowStart(r) <= a
    BY <1>1, <2>1 DEF Drawing, Larger, DrawnInv, UptimeTypeOK
  <2>4. WindowStart(r) <= bs[k] /\ bs[k] < WindowEnd
    BY ONLY <1>1, <1>3, <2>1, <2>2, <2>3
  <2>. QED  BY ONLY <2>4 DEF InWindow
<1>. HIDE DEF a
<1>5. ASSUME NEW g, Goes(g, 1 .. n, r, bs)
      PROVE  RightGaps(g[1 .. n], a, clock)
  <2>0. n \in Nat
    BY <1>1
  <2>1. \A k \in 1 .. n : g[1 .. k] = AddBucket(r, g[1 .. k - 1], bs[k])
    BY ONLY <1>5, <2>0, GoesOn
  <2>. DEFINE e(k) == Smaller(a + k * Bucket, clock)
              Bad == {k \in 0 .. n : ~ RightGaps(g[1 .. k], a, e(k))}
  <2>2. RightGaps(g[1 .. 0], a, e(0))
    <3>1. e(0) = a
      BY ONLY <1>1, <1>3 DEF Smaller
    <3>2. g[1 .. 0] = <<>>
      <4>1. 1 .. 0 = {} /\ {} \in SUBSET (1 .. n)
        OBVIOUS
      <4>2. g[{}] = <<>>
        BY ONLY <1>5, <4>1 DEF Goes
      <4>. QED  BY ONLY <4>1, <4>2
    <3>3. <<>> \in Seq(Gaps) /\ Len(<<>>) = 0
      OBVIOUS
    <3>4. RightGaps(<<>>, a, a)
      BY ONLY <1>1, <3>3 DEF RightGaps
    <3>. HIDE DEF e
    <3>. QED  BY ONLY <3>1, <3>2, <3>4
  <2>3. ASSUME NEW k \in 1 .. n, RightGaps(g[1 .. k - 1], a, e(k - 1))
        PROVE  RightGaps(g[1 .. k], a, e(k))
    <3>1. /\ bs[k] \in Nat /\ a <= bs[k] /\ bs[k] < clock /\ Multiple(bs[k])
          /\ bs[k] = a + (k - 1) * Bucket /\ bs[k] + Bucket = a + k * Bucket
      BY ONLY <1>1, <1>2, k \in 1 .. n
    <3>2. e(k - 1) = bs[k] /\ e(k) = Smaller(bs[k] + Bucket, clock)
      BY ONLY <1>3, <3>1 DEF Smaller
    <3>. HIDE DEF e
    <3>3. RightGaps(AddBucket(r, g[1 .. k - 1], bs[k]), a, Smaller(bs[k] + Bucket, clock))
      BY ONLY <1>1, <1>3, <1>4, <2>3, <3>1, <3>2, OneMoreBucket, r \in Ranges, k \in 1 .. n
    <3>. QED  BY ONLY <2>1, <3>2, <3>3, k \in 1 .. n
  <2>4. ASSUME Bad # {}  PROVE FALSE
    <3>1. Bad \in SUBSET Nat
      BY <1>1
    <3>2. PICK k \in Bad : \A j \in Bad : k <= j
      BY ONLY <2>4, <3>1, FirstOf
    <3>. HIDE DEF e
    <3>3. k \in 0 .. n /\ ~ RightGaps(g[1 .. k], a, e(k))
      BY <3>2
    <3>4. k # 0
      BY <2>2, <3>3
    <3>5. k \in 1 .. n /\ k - 1 \in 0 .. n /\ ~ (k <= k - 1)
      BY ONLY <1>1, <3>3, <3>4
    <3>6. k - 1 \notin Bad
      BY ONLY <3>2, <3>5
    <3>. QED  BY <2>3, <3>3, <3>5, <3>6
  <2>5. RightGaps(g[1 .. n], a, e(n))
    <3>. HIDE DEF e
    <3>1. n \in 0 .. n
      BY <1>1
    <3>. QED  BY <2>4, <3>1
  <2>6. e(n) = clock
    <3>1. n * Bucket \in Nat
      BY <1>1, <1>3
    <3>. QED  BY ONLY <1>1, <1>3, <3>1 DEF Smaller
  <2>. QED  BY <2>5, <2>6
<1>6. \E g : Goes(g, 1 .. n, r, bs)
  BY <1>1, CanGo
<1>7. PICK g : Goes(g, 1 .. n, r, bs) /\ RollupGaps(r) = g[1 .. n]
  BY <1>2, <1>6, GapsAreFold DEF bs
<1>. QED  BY <1>5, <1>7 DEF a

\* ORDER BY: every time once, the later after the earlier.
LEMMA TimesInOrder ==
  ASSUME NEW S, S \subseteq Nat, IsFiniteSet(S)
  PROVE  /\ Cardinality(S) \in Nat
         /\ InOrder(S) \in Seq(Nat) /\ Len(InOrder(S)) = Cardinality(S)
         /\ \A i \in 1 .. Cardinality(S) : InOrder(S)[i] \in S
         /\ \A i, j \in 1 .. Cardinality(S) : i < j => InOrder(S)[i] < InOrder(S)[j]
         /\ \A t \in S : \E i \in 1 .. Cardinality(S) : InOrder(S)[i] = t
<1>. DEFINE n == Cardinality(S)
            s == InOrder(S)
<1>1. /\ n \in Nat
      /\ \A l, m \in S : l < m => Below(S, l) < Below(S, m)
      /\ \A m \in S : Below(S, m) \in 0 .. n - 1
      /\ \A k \in 0 .. n - 1 : \E m \in S : Below(S, m) = k
  BY Ranks
<1>2. \A t : Earlier(S, t) = Below(S, t)
  BY DEF Earlier, Below
<1>3. s = [i \in 1 .. n |-> CHOOSE t \in S : Below(S, t) = i - 1]
  BY ONLY <1>2 DEF InOrder
<1>. HIDE DEF s, n
<1>4. ASSUME NEW i \in 1 .. n  PROVE s[i] \in S /\ Below(S, s[i]) = i - 1
  <2>1. i - 1 \in 0 .. n - 1
    BY <1>1
  <2>2. \E t \in S : Below(S, t) = i - 1
    BY <1>1, <2>1
  <2>. QED  BY <1>3, <2>2
<1>5. s \in Seq(Nat) /\ Len(s) = n
  <2>1. \A i \in 1 .. n : s[i] \in Nat
    BY <1>4
  <2>2. s = [i \in 1 .. n |-> s[i]]
    BY ONLY <1>3
  <2>3. s \in [1 .. n -> Nat]
    BY ONLY <2>1, <2>2, Zenon
  <2>4. n \in Nat
    BY <1>1
  <2>. QED  BY ONLY <2>3, <2>4
<1>6. ASSUME NEW l \in S, NEW m \in S, Below(S, l) = Below(S, m)
      PROVE  l = m
  <2>1. l \in Nat /\ m \in Nat /\ Below(S, l) \in Int /\ Below(S, m) \in Int
    BY <1>1
  <2>2. ~ (l < m) /\ ~ (m < l)
    BY ONLY <1>1, <1>6, <2>1
  <2>. QED  BY ONLY <2>1, <2>2
<1>7. ASSUME NEW i \in 1 .. n, NEW j \in 1 .. n, i < j
      PROVE  s[i] < s[j]
  <2>1. s[i] \in S /\ s[j] \in S /\ Below(S, s[i]) = i - 1 /\ Below(S, s[j]) = j - 1
    BY <1>4
  <2>2. s[i] \in Nat /\ s[j] \in Nat
    BY <2>1
  <2>3. s[i] # s[j]
    BY ONLY <1>7, <2>1, <1>1
  <2>4. ~ (s[j] < s[i])
    <3>1. s[j] < s[i] => j - 1 < i - 1
      BY <1>1, <2>1
    <3>. QED  BY ONLY <1>1, <1>7, <3>1
  <2>. QED  BY ONLY <2>2, <2>3, <2>4
<1>8. ASSUME NEW t \in S  PROVE \E i \in 1 .. n : s[i] = t
  <2>1. Below(S, t) + 1 \in 1 .. n /\ (Below(S, t) + 1) - 1 = Below(S, t)
    BY <1>1
  <2>2. s[Below(S, t) + 1] = t
    BY <1>4, <1>6, <2>1
  <2>. QED  BY <2>1, <2>2
<1>. QED  BY ONLY <1>1, <1>4, <1>5, <1>7, <1>8 DEF s, n

\* The times that are drawn from snapshots.
Recent == {t \in Times : t >= clock - Raw}

\* The snapshots drawn are finitely many, and of the past.
LEMMA RecentTimes ==
  ASSUME DrawnInv
  PROVE  /\ Recent \subseteq Nat /\ IsFiniteSet(Recent) /\ clock \in Nat
         /\ \A s \in Recent : s <= clock
<1>1. clock \in Nat /\ \A c \in taken : c.at \in 0 .. clock
  BY TakenTimes DEF DrawnInv
<1>2. Recent \subseteq 0 .. clock
  BY <1>1 DEF Recent, Times
<1>3. IsFiniteSet(0 .. clock) /\ \A s \in 0 .. clock : s \in Nat /\ s <= clock
  BY <1>1, FS_Interval
<1>4. IsFiniteSet(Recent)
  BY ONLY <1>2, <1>3, FS_Subset
<1>. QED  BY ONLY <1>1, <1>2, <1>3, <1>4

\* The gaps between neighbours, and the one after the last.
LEMMA RawGapsAre ==
  ASSUME DrawnInv
  PROVE  LET n == Cardinality(Recent)
             ms == InOrder(Recent)
         IN  \A t : t \in Covered(RawGaps) <=>
                      \/ \E i \in 2 .. n : /\ ms[i] - ms[i - 1] > Threshold
                                           /\ t \in ms[i - 1] .. ms[i] - 1
                      \/ /\ n > 0 /\ clock - ms[n] > Threshold
                         /\ t \in ms[n] .. clock - 1
<1>. DEFINE n == Cardinality(Recent)
            ms == InOrder(Recent)
            between == {[start |-> ms[i - 1], end |-> ms[i]] :
                          i \in {j \in 2 .. n : ms[j] - ms[j - 1] > Threshold}}
<1>1. Recent \subseteq Nat /\ IsFiniteSet(Recent)
  BY RecentTimes
<1>2. n \in Nat /\ ms \in Seq(Nat) /\ Len(ms) = n
  BY <1>1, TimesInOrder
<1>3. RawGaps = between \cup TrailingGap(ms)
  BY <1>2 DEF RawGaps, Recent
<1>4. TrailingGap(ms) = IF n > 0 /\ clock - ms[n] > Threshold
                        THEN {[start |-> ms[n], end |-> clock]} ELSE {}
  <2>1. ms # <<>> <=> n > 0
    BY <1>2
  <2>. QED  BY <1>2, <2>1 DEF TrailingGap, Last
<1>5. ASSUME NEW t
      PROVE  t \in Covered(between) <=>
               \E i \in 2 .. n : /\ ms[i] - ms[i - 1] > Threshold
                                 /\ t \in ms[i - 1] .. ms[i] - 1
  <2>. HIDE DEF n, ms
  <2>1. t \in Covered(between) <=> \E g \in between : t \in g.start .. g.end - 1
    BY ONLY Zenon DEF Covered
  <2>2. \A i : /\ [start |-> ms[i - 1], end |-> ms[i]].start = ms[i - 1]
               /\ [start |-> ms[i - 1], end |-> ms[i]].end = ms[i]
    OBVIOUS
  <2>. QED  BY ONLY <2>1, <2>2, Zenon DEF between
<1>6. ASSUME NEW t
      PROVE  t \in Covered(TrailingGap(ms)) <=>
               /\ n > 0 /\ clock - ms[n] > Threshold
               /\ t \in ms[n] .. clock - 1
  <2>. HIDE DEF n, ms
  <2>. DEFINE last == [start |-> ms[n], end |-> clock]
  <2>1. last.start = ms[n] /\ last.end = clock
    OBVIOUS
  <2>2. \A G : t \in Covered(G) <=> \E g \in G : t \in g.start .. g.end - 1
    BY ONLY Zenon DEF Covered
  <2>. HIDE DEF last
  <2>3. \A g : g \in TrailingGap(ms) <=> n > 0 /\ clock - ms[n] > Threshold /\ g = last
    BY ONLY <1>4, Zenon DEF last
  <2>. QED  BY ONLY <2>1, <2>2, <2>3
<1>7. \A t : t \in Covered(RawGaps) <=> t \in Covered(between) \/ t \in Covered(TrailingGap(ms))
  <2>. HIDE DEF n, ms, between
  <2>. QED  BY ONLY <1>3 DEF Covered
<1>. QED  BY ONLY <1>5, <1>6, <1>7

\* Least and Greatest are what they are called.
LEMMA Extremes ==
  ASSUME NEW S, S \subseteq Int, NEW x \in S
  PROVE  /\ (\A y \in S : x <= y) => Least(S) = x
         /\ (\A y \in S : y <= x) => Greatest(S) = x
<1>1. ASSUME \A y \in S : x <= y  PROVE Least(S) = x
  <2>1. \A z \in S : (\A y \in S : z <= y) => z = x
    <3>. SUFFICES ASSUME NEW z \in S, \A y \in S : z <= y  PROVE z = x
      OBVIOUS
    <3>1. z <= x /\ x <= z /\ z \in Int /\ x \in Int
      BY <1>1
    <3>. QED  BY ONLY <3>1
  <2>2. \E z \in S : \A y \in S : z <= y
    BY <1>1
  <2>3. Least(S) \in S /\ \A y \in S : Least(S) <= y
    BY ONLY <2>2 DEF Least
  <2>. QED  BY ONLY <2>1, <2>3
<1>2. ASSUME \A y \in S : y <= x  PROVE Greatest(S) = x
  <2>1. \A z \in S : (\A y \in S : z >= y) => z = x
    <3>. SUFFICES ASSUME NEW z \in S, \A y \in S : z >= y  PROVE z = x
      OBVIOUS
    <3>1. z >= x /\ x >= z /\ z \in Int /\ x \in Int
      BY <1>2
    <3>. QED  BY ONLY <3>1
  <2>2. \E z \in S : \A y \in S : z >= y
    <3>1. \A y \in S : x >= y
      BY <1>2
    <3>. QED  BY ONLY <3>1, x \in S
  <2>3. Greatest(S) \in S /\ \A y \in S : Greatest(S) >= y
    BY ONLY <2>2 DEF Greatest
  <2>. QED  BY ONLY <2>1, <2>3
<1>. QED  BY <1>1, <1>2

\* The snapshots around a time, or the clock after the last one.
SnapshotBefore(t) == Greatest({s \in Recent : s <= t})
SnapshotAfter(t) == Least({s \in Recent : s > t} \cup {clock})

\* Each time after the first snapshot is between two neighbours or after the
\* last one.
LEMMA Neighbours ==
  ASSUME DrawnInv, NEW t \in Nat, t < clock
  PROVE  LET n == Cardinality(Recent)
             ms == InOrder(Recent)
         IN  /\ \A i \in 2 .. n : t \in ms[i - 1] .. ms[i] - 1 =>
                  /\ \E s \in Recent : s <= t
                  /\ SnapshotBefore(t) = ms[i - 1] /\ SnapshotAfter(t) = ms[i]
             /\ n > 0 /\ t \in ms[n] .. clock - 1 =>
                  /\ \E s \in Recent : s <= t
                  /\ SnapshotBefore(t) = ms[n] /\ SnapshotAfter(t) = clock
             /\ (\E s \in Recent : s <= t) =>
                  \/ \E i \in 2 .. n : t \in ms[i - 1] .. ms[i] - 1
                  \/ n > 0 /\ t \in ms[n] .. clock - 1
<1>. DEFINE n == Cardinality(Recent)
            ms == InOrder(Recent)
            Early == {s \in Recent : s <= t}
            Late == {s \in Recent : s > t} \cup {clock}
<1>0. /\ Recent \subseteq Nat /\ IsFiniteSet(Recent) /\ clock \in Nat
      /\ \A s \in Recent : s <= clock
  BY RecentTimes
<1>1. /\ n \in Nat
      /\ \A i \in 1 .. n : ms[i] \in Recent
      /\ \A i, j \in 1 .. n : i < j => ms[i] < ms[j]
      /\ \A s \in Recent : \E i \in 1 .. n : ms[i] = s
  BY <1>0, TimesInOrder
<1>2. \A i \in 1 .. n : ms[i] \in Nat /\ ms[i] <= clock
  BY <1>0, <1>1
<1>. HIDE DEF n, ms
<1>3. Early \subseteq Int /\ Late \subseteq Int
  <2>1. Nat \subseteq Int
    OBVIOUS
  <2>2. Recent \subseteq Int /\ clock \in Int
    BY ONLY <1>0, <2>1
  <2>. QED  BY ONLY <2>2, Zenon
<1>4. SnapshotBefore(t) = Greatest(Early) /\ SnapshotAfter(t) = Least(Late)
  BY DEF SnapshotBefore, SnapshotAfter
<1>5. ASSUME NEW i \in 1 .. n, ms[i] <= t, i + 1 \in 1 .. n => t < ms[i + 1]
      PROVE  /\ \E s \in Recent : s <= t
             /\ SnapshotBefore(t) = ms[i]
             /\ SnapshotAfter(t) = IF i + 1 \in 1 .. n THEN ms[i + 1] ELSE clock
  <2>1. ms[i] \in Early
    BY <1>1, <1>5
  <2>2. ASSUME NEW j \in 1 .. n  PROVE (j <= i => ms[j] <= ms[i]) /\ (j > i => ms[i + 1] <= ms[j] /\ i + 1 \in 1 .. n)
    <3>1. j = i \/ j < i \/ j = i + 1 \/ j > i + 1
      BY ONLY <1>1, i \in 1 .. n, j \in 1 .. n
    <3>2. j > i => i + 1 \in 1 .. n
      BY ONLY <1>1, i \in 1 .. n, j \in 1 .. n
    <3>3. ms[i] \in Nat /\ ms[j] \in Nat
      BY <1>2
    <3>4. j < i => ms[j] < ms[i]
      BY <1>1
    <3>5. j > i + 1 => ms[i + 1] < ms[j] /\ ms[i + 1] \in Nat
      BY <1>1, <1>2, <3>2
    <3>. QED  BY ONLY <1>1, <3>1, <3>2, <3>3, <3>4, <3>5, i \in 1 .. n, j \in 1 .. n
  <2>3. \A s \in Early : s <= ms[i]
    <3>. SUFFICES ASSUME NEW j \in 1 .. n, ms[j] <= t  PROVE ms[j] <= ms[i]
      BY <1>1
    <3>1. j <= i
      <4>. SUFFICES ASSUME j > i  PROVE FALSE
        BY <1>1
      <4>1. i + 1 \in 1 .. n /\ ms[i + 1] <= ms[j]
        BY <2>2
      <4>. QED  BY ONLY <1>2, <1>5, <4>1, ms[j] <= t, t \in Nat, j \in 1 .. n
    <3>. QED  BY <2>2, <3>1
  <2>4. SnapshotBefore(t) = ms[i]
    <3>. HIDE DEF Early
    <3>. QED  BY ONLY <1>3, <1>4, <2>1, <2>3, Extremes
  <2>5. CASE i + 1 \in 1 .. n
    <3>1. ms[i + 1] \in Late
      BY <1>1, <1>5, <2>5
    <3>2. ASSUME NEW j \in 1 .. n, ms[j] > t  PROVE ms[i + 1] <= ms[j]
      <4>1. j > i
        <5>. SUFFICES ASSUME j <= i  PROVE FALSE
          BY <1>1
        <5>1. ms[j] <= ms[i] /\ ms[j] \in Nat /\ ms[i] \in Nat
          BY <1>2, <2>2
        <5>. QED  BY ONLY <1>5, <3>2, <5>1, t \in Nat
      <4>. QED  BY <2>2, <4>1
    <3>3. \A s \in Late : ms[i + 1] <= s
      BY <1>1, <1>2, <2>5, <3>2
    <3>4. SnapshotAfter(t) = ms[i + 1]
      <4>. HIDE DEF Late
      <4>. QED  BY ONLY <1>3, <1>4, <3>1, <3>3, Extremes
    <3>. QED  BY <2>1, <2>4, <2>5, <3>4
  <2>6. CASE i + 1 \notin 1 .. n
    <3>1. i = n
      BY ONLY <1>1, <2>6, i \in 1 .. n
    <3>2. ASSUME NEW j \in 1 .. n  PROVE ~ (ms[j] > t)
      <4>1. j <= i
        BY ONLY <1>1, <3>1, j \in 1 .. n
      <4>2. ms[j] <= ms[i] /\ ms[j] \in Nat /\ ms[i] \in Nat
        BY <1>2, <2>2, <4>1
      <4>. QED  BY ONLY <1>5, <4>2, t \in Nat
    <3>3. Late = {clock}
      BY <1>1, <3>2
    <3>4. SnapshotAfter(t) = clock
      <4>1. clock \in Late /\ \A s \in Late : clock <= s
        BY <1>0, <3>3
      <4>. HIDE DEF Late
      <4>. QED  BY ONLY <1>3, <1>4, <4>1, Extremes
    <3>. QED  BY <2>1, <2>4, <2>6, <3>4
  <2>. QED  BY <2>5, <2>6
<1>6. ASSUME NEW i \in 2 .. n, t \in ms[i - 1] .. ms[i] - 1
      PROVE  /\ \E s \in Recent : s <= t
             /\ SnapshotBefore(t) = ms[i - 1] /\ SnapshotAfter(t) = ms[i]
  <2>1. i - 1 \in 1 .. n /\ (i - 1) + 1 = i /\ i \in 1 .. n
    BY ONLY <1>1, i \in 2 .. n
  <2>2. ms[i - 1] <= t /\ t < ms[i]
    BY ONLY <1>2, <1>6, <2>1, t \in Nat
  <2>. QED  BY ONLY <1>5, <2>1, <2>2
<1>7. ASSUME n > 0, t \in ms[n] .. clock - 1
      PROVE  /\ \E s \in Recent : s <= t
             /\ SnapshotBefore(t) = ms[n] /\ SnapshotAfter(t) = clock
  <2>1. n \in 1 .. n /\ n + 1 \notin 1 .. n
    BY ONLY <1>1, n > 0
  <2>2. ms[n] <= t
    BY ONLY <1>2, <1>7, <2>1, t \in Nat
  <2>. QED  BY ONLY <1>5, <2>1, <2>2
<1>8. ASSUME NEW s \in Recent, s <= t
      PROVE  \/ \E i \in 2 .. n : t \in ms[i - 1] .. ms[i] - 1
             \/ n > 0 /\ t \in ms[n] .. clock - 1
  <2>1. PICK k \in 1 .. n : ms[k] = s
    BY <1>1
  <2>2. n > 0 /\ 1 \in 1 .. n /\ n \in 1 .. n
    BY ONLY <1>1, k \in 1 .. n
  <2>3. ms[1] <= t
    <3>1. k = 1 \/ 1 < k
      BY ONLY k \in 1 .. n
    <3>2. 1 < k => ms[1] < ms[k]
      BY <1>1, <2>2
    <3>. QED  BY ONLY <1>2, <1>8, <2>1, <2>2, <3>1, <3>2, t \in Nat, k \in 1 .. n
  <2>. DEFINE Over == {j \in 1 .. n : ms[j] > t}
  <2>4. CASE Over = {}
    <3>1. ~ (ms[n] > t) /\ ms[n] \in Nat
      BY <1>2, <2>2, <2>4
    <3>. QED  BY ONLY <1>0, <2>2, <3>1, t \in Nat, t < clock
  <2>5. CASE Over # {}
    <3>1. Over \in SUBSET Nat
      OBVIOUS
    <3>2. PICK j \in Over : \A m \in Over : j <= m
      BY ONLY <2>5, <3>1, FirstOf
    <3>3. j \in 1 .. n /\ ms[j] > t /\ ms[j] \in Nat
      BY <1>2, <3>2
    <3>4. j # 1
      BY ONLY <1>2, <2>2, <2>3, <3>3, t \in Nat
    <3>5. j \in 2 .. n /\ j - 1 \in 1 .. n /\ ~ (j <= j - 1)
      BY ONLY <1>1, <3>3, <3>4
    <3>6. ~ (ms[j - 1] > t) /\ ms[j - 1] \in Nat
      BY <1>2, <3>2, <3>5
    <3>7. t \in ms[j - 1] .. ms[j] - 1
      BY ONLY <3>3, <3>6, t \in Nat
    <3>. QED  BY <3>5, <3>7
  <2>. QED  BY <2>4, <2>5
<1>. QED  BY ONLY <1>6, <1>7, <1>8 DEF n, ms

\* The grey areas of the chart of snapshots are right.
LEMMA RawGapsAreRight ==
  DrawnInv =>
    Covered(RawGaps) =
      {t \in 0 .. clock - 1 :
         (\E s \in Recent : s <= t) /\ SnapshotAfter(t) - SnapshotBefore(t) > Threshold}
<1>. SUFFICES ASSUME DrawnInv, NEW t
              PROVE  t \in Covered(RawGaps) <=>
                       /\ t \in 0 .. clock - 1
                       /\ \E s \in Recent : s <= t
                       /\ SnapshotAfter(t) - SnapshotBefore(t) > Threshold
  BY Zenon
<1>. DEFINE n == Cardinality(Recent)
            ms == InOrder(Recent)
<1>0. /\ Recent \subseteq Nat /\ IsFiniteSet(Recent) /\ clock \in Nat
      /\ \A s \in Recent : s <= clock
  BY RecentTimes
<1>1. n \in Nat /\ \A i \in 1 .. n : ms[i] \in Nat /\ ms[i] <= clock
  <2>1. n \in Nat /\ \A i \in 1 .. n : ms[i] \in Recent
    BY <1>0, TimesInOrder
  <2>. QED  BY <1>0, <2>1
<1>2. t \in Covered(RawGaps) <=>
                      \/ \E i \in 2 .. n : /\ ms[i] - ms[i - 1] > Threshold
                                           /\ t \in ms[i - 1] .. ms[i] - 1
                      \/ /\ n > 0 /\ clock - ms[n] > Threshold
                         /\ t \in ms[n] .. clock - 1
  BY RawGapsAre
<1>3. t \in 0 .. clock - 1 =>
             /\ \A i \in 2 .. n : t \in ms[i - 1] .. ms[i] - 1 =>
                  /\ \E s \in Recent : s <= t
                  /\ SnapshotBefore(t) = ms[i - 1] /\ SnapshotAfter(t) = ms[i]
             /\ n > 0 /\ t \in ms[n] .. clock - 1 =>
                  /\ \E s \in Recent : s <= t
                  /\ SnapshotBefore(t) = ms[n] /\ SnapshotAfter(t) = clock
             /\ (\E s \in Recent : s <= t) =>
                  \/ \E i \in 2 .. n : t \in ms[i - 1] .. ms[i] - 1
                  \/ n > 0 /\ t \in ms[n] .. clock - 1
  <2>. SUFFICES ASSUME t \in Nat, t < clock
                PROVE  <1>3!2
    BY <1>0
  <2>. QED  BY Neighbours
<1>. HIDE DEF n, ms
<1>4. \A i \in 2 .. n : t \in ms[i - 1] .. ms[i] - 1 => t \in 0 .. clock - 1
  <2>. SUFFICES ASSUME NEW i \in 2 .. n, t \in ms[i - 1] .. ms[i] - 1
                PROVE  t \in 0 .. clock - 1
    OBVIOUS
  <2>1. i \in 1 .. n /\ i - 1 \in 1 .. n
    BY ONLY <1>1, i \in 2 .. n
  <2>2. ms[i] \in Nat /\ ms[i] <= clock /\ ms[i - 1] \in Nat
    BY <1>1, <2>1
  <2>. QED  BY ONLY <1>0, <2>2, t \in ms[i - 1] .. ms[i] - 1
<1>5. n > 0 /\ t \in ms[n] .. clock - 1 => t \in 0 .. clock - 1
  <2>1. n > 0 => ms[n] \in Nat
    BY <1>1
  <2>. QED  BY ONLY <1>0, <2>1
<1>. QED  BY ONLY <1>2, <1>3, <1>4, <1>5

\* The grey areas of a chart of rollups are right.
LEMMA RollupGapsSay ==
  ASSUME DrawnInv, NEW r \in Ranges
  PROVE  /\ Covered(Range(RollupGaps(r))) =
               {t \in WindowStart(r) .. clock - 1 :
                  firstEver # None /\ t >= firstEver /\ BucketOf(t) \notin Rows}
         /\ \A i \in 2 .. Len(RollupGaps(r)) :
              RollupGaps(r)[i - 1].end < RollupGaps(r)[i].start
<1>. DEFINE gaps == RollupGaps(r)
<1>1. CASE firstEver = None
  <2>1. gaps = <<>>
    BY <1>1 DEF RollupGaps
  <2>2. <<>> \in Seq(Gaps) /\ Len(<<>>) = 0
    OBVIOUS
  <2>3. \A t : t \notin Covered(Range(<<>>))
    <3>1. Range(<<>>) = {}
      BY DEF Range
    <3>. QED  BY ONLY <3>1 DEF Covered
  <2>4. 2 .. 0 = {}
    OBVIOUS
  <2>. HIDE DEF gaps
  <2>5. Covered(Range(gaps)) = {} /\ 2 .. Len(gaps) = {}
    BY ONLY <2>1, <2>2, <2>3, <2>4
  <2>. QED  BY ONLY <1>1, <2>5 DEF gaps
<1>2. CASE firstEver # None
  <2>1. RightGaps(gaps, Drawing(r), clock)
    BY <1>2, RollupGapsAreRight
  <2>2. /\ clock \in Nat /\ firstEver \in Nat /\ WindowStart(r) \in Int
    BY <1>2, Window DEF DrawnInv, UptimeTypeOK
  <2>. HIDE DEF gaps
  <2>3. gaps \in Seq(Gaps) /\ \A i \in 2 .. Len(gaps) : gaps[i - 1].end < gaps[i].start
    BY ONLY <2>1 DEF RightGaps
  <2>4. \A t \in Int : Drawing(r) <= t /\ t < clock <=>
                         WindowStart(r) <= t /\ firstEver <= t /\ t < clock
    BY ONLY <2>2 DEF Drawing, Larger
  <2>5. \A t : t \in Covered(Range(gaps)) <=>
                 t \in Int /\ Drawing(r) <= t /\ t < clock /\ BucketOf(t) \notin Rows
    BY ONLY <2>1, <2>3, CoveredTimes DEF RightGaps
  <2>6. \A t : t \in Covered(Range(gaps)) <=>
                 /\ t \in WindowStart(r) .. clock - 1 /\ t >= firstEver
                 /\ BucketOf(t) \notin Rows
    BY ONLY <2>2, <2>4, <2>5
  <2>7. Covered(Range(gaps)) =
               {t \in WindowStart(r) .. clock - 1 :
                  firstEver # None /\ t >= firstEver /\ BucketOf(t) \notin Rows}
    BY ONLY <1>2, <2>6, Zenon
  <2>. QED  BY ONLY <2>3, <2>7 DEF gaps
<1>. QED  BY <1>1, <1>2

\* What it says of gaps.
LEMMA DrawnInvSaysGaps == DrawnInv => GapsExact
<1>. SUFFICES ASSUME DrawnInv  PROVE GapsExact
  OBVIOUS
<1>1. \A r \in Ranges :
         /\ Covered(Range(RollupGaps(r))) =
               {t \in WindowStart(r) .. clock - 1 :
                  firstEver # None /\ t >= firstEver /\ BucketOf(t) \notin Rows}
         /\ \A i \in 2 .. Len(RollupGaps(r)) :
              RollupGaps(r)[i - 1].end < RollupGaps(r)[i].start
  BY RollupGapsSay
<1>2. Covered(RawGaps) =
      {t \in 0 .. clock - 1 :
         (\E s \in Recent : s <= t) /\ SnapshotAfter(t) - SnapshotBefore(t) > Threshold}
  BY RawGapsAreRight
<1>. QED  BY ONLY <1>1, <1>2, Zenon DEF GapsExact, Recent, SnapshotAfter, SnapshotBefore


\* The bars of a service, and the figure beside them, show every check in the
\* range that was up once and on the bar of its time, against the time since the
\* first check, for any intervals, ranges and silences (uptime.ts, db.ts).
THEOREM BarsAreOfChecks == UptimeSpec => []BarsCountSamples
BY DrawnInvInit, DrawnInvNext, DrawnInvSays, PTL DEF UptimeSpec

\* The grey areas of the charts are exactly the silences, each in one piece, for
\* any intervals, ranges and threshold (getRollupHistory, getRawHistory24h).
THEOREM GapsAreSilences == UptimeSpec => []GapsExact
BY DrawnInvInit, DrawnInvNext, DrawnInvSaysGaps, PTL DEF UptimeSpec

-----------------------------------------------------------------------------
(* The page in a browser.                                                   *)

\* The pages and answers that go through the caches.
LEMMA PageTypes ==
  ASSUME ViewTypeOK
  PROVE  /\ FirstPage \in Page /\ Home \in Page
         /\ newest.age \in Ages /\ newest.has \in BOOLEAN
         /\ \A age \in Ages : Older(age) \in Ages
         /\ 0 \in Ages
<1>1. \A age \in Ages : Older(age) \in Ages /\ IsStale(age) \in BOOLEAN
  BY ViewAssumption DEF Ages, Older, IsStale
<1>2. 0 \in Ages
  BY ViewAssumption DEF Ages
<1>3. /\ newest.age \in Ages /\ newest.has \in BOOLEAN
      /\ cached.age \in Ages /\ cached.has \in BOOLEAN /\ cached.disabled \in BOOLEAN
  BY ONLY ViewTypeOK, Zenon DEF ViewTypeOK
<1>4. FirstPage \in Page
  BY Zenon DEF FirstPage, Page
<1>5. Home \in Page
  BY ONLY <1>1, <1>3, Zenon DEF Home, Page
<1>. QED  BY ONLY <1>1, <1>2, <1>3, <1>4, <1>5

\* Every step of the checker, the server and the browser.
LEMMA ViewTypeNext == ViewTypeOK /\ [ViewStep]_viewVars => ViewTypeOK'
<1>. SUFFICES ASSUME ViewTypeOK, [ViewStep]_viewVars  PROVE ViewTypeOK'
  OBVIOUS
<1>. USE PageTypes DEF checker, server, shownPage, provider
<1>1. CASE UNCHANGED viewVars
  BY <1>1 DEF viewVars, ViewTypeOK
<1>2. CASE MinutePasses
  <2>1. newest' \in [age : Ages, has : BOOLEAN]
    BY <1>2, Zenon DEF MinutePasses, ViewTypeOK
  <2>2. cached' \in [age : Ages, has : BOOLEAN, disabled : BOOLEAN, entry : Ages]
    BY <1>2, Zenon DEF MinutePasses, ViewTypeOK
  <2>3. rendered' \in [page : Page, entry : Ages]
    BY <1>2, Zenon DEF MinutePasses, ViewTypeOK
  <2>. QED  BY <1>2, <2>1, <2>2, <2>3 DEF MinutePasses, ViewTypeOK
<1>3. CASE CheckerStops
  <2>1. events' \in 0 .. MaxEvents
    BY <1>3, ViewAssumption DEF CheckerStops, Event, ViewTypeOK
  <2>. QED  BY <1>3, <2>1, Zenon DEF CheckerStops, ViewTypeOK
<1>4. CASE CheckerStarts
  BY <1>4, ViewAssumption DEF CheckerStarts, Event, ViewTypeOK
<1>5. CASE Render
  <2>1. cached' \in [age : Ages, has : BOOLEAN, disabled : BOOLEAN, entry : Ages]
    BY <1>5, Zenon DEF Render, ViewTypeOK
  <2>2. rendered' \in [page : Page, entry : Ages]
    BY <1>5, Zenon DEF Render
  <2>. QED  BY <1>5, <2>1, <2>2 DEF Render, ViewTypeOK
<1>6. CASE Refresh
  <2>1. rendered.page \in Page
    BY Zenon DEF ViewTypeOK
  <2>. QED  BY <1>6, <2>1 DEF Refresh, ViewTypeOK
<1>7. ASSUME NEW r \in TimeRanges, Click(r)
      PROVE  ViewTypeOK'
  BY <1>7 DEF Click, ViewTypeOK
<1>8. CASE HistoryArrives
  BY <1>8 DEF HistoryArrives, ViewTypeOK
<1>9. CASE HistoryFails
  BY <1>9, ViewAssumption DEF HistoryFails, Event, ViewTypeOK
<1>. QED  BY <1>1, <1>2, <1>3, <1>4, <1>5, <1>6, <1>7, <1>8, <1>9 DEF ViewStep

-----------------------------------------------------------------------------
(* The three together, of which a behaviour shows one.                       *)

StatusInv == PassInv /\ DrawnInv /\ ViewTypeOK

\* Every step is one of one part, and the others stand still.
LEMMA OnePartMoves ==
  [MCNext]_allVars => /\ [ChecksStep]_checkVars
                      /\ [UptimeStep]_uptimeVars
                      /\ [ViewStep]_viewVars
BY DEF MCNext, ChecksPart, ViewPart, allVars

\* It holds at the start, when a page was opened while all was well.
LEMMA StatusInvInit == MCInit => StatusInv
<1>. SUFFICES ASSUME MCInit  PROVE StatusInv
  OBVIOUS
<1>1. DrawnInv
  BY DrawnInvInit DEF MCInit
<1>2. 0 \in Ages /\ FirstPage \in Page
  BY ViewAssumption DEF Ages, FirstPage, Page
<1>3. /\ newest \in [age : Ages, has : BOOLEAN]
      /\ cached \in [age : Ages, has : BOOLEAN, disabled : BOOLEAN, entry : Ages]
      /\ rendered \in [page : Page, entry : Ages]
  BY <1>2, Zenon DEF MCInit, ViewInit
<1>4. 0 \in 0 .. MaxEvents
  BY ViewAssumption
<1>5. ViewTypeOK
  BY <1>2, <1>3, <1>4, ViewAssumption, Zenon DEF MCInit, ViewInit, ViewTypeOK
<1>. QED  BY <1>1, <1>5, PassInvInit DEF MCInit, StatusInv

\* The states of all parts are of their types, a snapshot says what was answered
\* in time, and bars and gaps show the checks: of every behaviour of the
\* composition.
THEOREM StatusIsSafe == MCSpec => [](StatusSafe /\ BarsCountSamples /\ GapsExact)
<1>1. StatusInv /\ [MCNext]_allVars => StatusInv'
  BY OnePartMoves, PassInvNext, DrawnInvNext, ViewTypeNext DEF StatusInv
<1>2. StatusInv => StatusSafe /\ BarsCountSamples /\ GapsExact
  BY PassInvSays, DrawnInvSays, DrawnInvSaysGaps
     DEF StatusInv, StatusSafe, PassInv, DrawnInv
<1>. QED  BY <1>1, <1>2, StatusInvInit, PTL DEF MCSpec
=============================================================================
