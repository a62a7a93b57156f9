---------------------------- MODULE HistoryProofs ----------------------------
(***************************************************************************)
(* The guardian and the vault against their own past: what the rolling     *)
(* budget counts, for how long the oracle has held a route, and on which   *)
(* review, delay and notice a payout or a new oracle rests.  Each history  *)
(* variable is added to the component by OutflowHistory, HoldHistory or    *)
(* VaultHistory; the invariants relate it to what the contracts store.     *)
(***************************************************************************)
EXTENDS VaultHistory, HoldHistory, OutflowHistory, ProtectedVaultProofs, FiniteSums

-----------------------------------------------------------------------------
(* Division: where an instant lies in the ring.                            *)

\* Quotient and remainder.
LEMMA DivMod ==
  ASSUME NEW n \in Nat, NEW d \in Nat \ {0}
  PROVE  /\ n \div d \in Nat /\ n % d \in 0 .. d - 1
         /\ n = d * (n \div d) + (n % d)
  OBVIOUS

\* Multiplying keeps the order.
LEMMA ProductOrder ==
  ASSUME NEW a \in Nat, NEW x \in Nat, NEW y \in Nat, x <= y
  PROVE  a * x <= a * y
  OBVIOUS

\* Two numbers less than S * w apart whose quotients by w agree modulo S + 1
\* have the same quotient.
LEMMA SameNumber ==
  \A w \in Nat \ {0}, S \in Nat \ {0}, W \in Nat, t \in Nat, u \in Nat :
      /\ W <= w * S /\ t <= u /\ u < t + W
      /\ (t \div w) % (S + 1) = (u \div w) % (S + 1)
    => t \div w = u \div w
<1> SUFFICES ASSUME NEW w \in Nat \ {0}, NEW S \in Nat \ {0}, NEW W \in Nat,
                    NEW t \in Nat, NEW u \in Nat, W <= w * S, t <= u, u < t + W,
                    (t \div w) % (S + 1) = (u \div w) % (S + 1)
             PROVE  t \div w = u \div w
  OBVIOUS
<1> DEFINE N == S + 1
<1>0. N \in Nat \ {0} /\ N = S + 1
  OBVIOUS
<1> DEFINE q == t \div w
           p == u \div w
           k == q \div N
           l == p \div N
<1>1. /\ q \in Nat /\ w * q <= t /\ t < w * q + w
      /\ p \in Nat /\ w * p <= u /\ u < w * p + w
  BY DivMod
<1>2. /\ k \in Nat /\ l \in Nat
      /\ q = N * k + (q % N) /\ p = N * l + (p % N)
      /\ q % N = p % N /\ q % N \in 0 .. N - 1
  BY <1>0, <1>1, DivMod
<1> HIDE DEF q, p, k, l, N
<1>3. CASE p < q
  <2>1. w * (p + 1) <= w * q
    BY <1>1, <1>3, ProductOrder
  <2>2. w * (p + 1) = w * p + w
    BY <1>1
  <2> QED BY <1>1, <2>1, <2>2
<1>4. CASE q < p
  <2>1. k < l
    <3>1. l <= k => N * l <= N * k
      BY <1>0, <1>2, ProductOrder
    <3>2. N * l \in Nat /\ N * k \in Nat
      BY <1>0, <1>2
    <3> QED BY <1>0, <1>1, <1>2, <1>4, <3>1, <3>2
  <2>2. N * (k + 1) <= N * l /\ N * (k + 1) = N * k + N
    <3>1. N \in Nat /\ k + 1 \in Nat /\ l \in Nat /\ k + 1 <= l
      BY <1>0, <1>2, <2>1
    <3>2. N * (k + 1) <= N * l
      BY <3>1, ProductOrder
    <3> QED BY <1>2, <3>1, <3>2
  <2>3. q + N <= p
    <3>1. N * l \in Nat /\ N * k \in Nat
      BY <1>0, <1>2
    <3> QED BY <1>0, <1>1, <1>2, <2>2, <3>1
  <2>4. w * (q + N) <= w * p
    BY <1>0, <1>1, <2>3, ProductOrder
  <2>5. w * (q + N) = w * q + w + w * S
    BY <1>1 DEF N
  <2>6. w * S \in Nat /\ w * q \in Nat /\ w * p \in Nat
    BY <1>1
  <2> QED BY <1>1, <2>4, <2>5, <2>6
<1>5. p = q
  BY <1>1, <1>3, <1>4
<1> QED BY <1>5 DEF p, q

\* Rounded up, S parts of a window cover it, and none is longer than it.
LEMMA BucketWidthFits ==
  ASSUME NEW W \in Nat \ {0}, NEW S \in Nat \ {0}, NEW w, w = (W + S - 1) \div S
  PROVE  w \in Nat \ {0} /\ W <= w * S /\ w <= W
<1>1. /\ w \in Nat /\ W + S - 1 < S * w + S /\ S * w <= W + S - 1
  <2>1. W + S - 1 \in Nat
    OBVIOUS
  <2> QED BY <2>1, DivMod
<1>2. S * w \in Nat /\ S * w = w * S
  BY <1>1
<1>3. w # 0
  <2>1. w = 0 => S * w = 0
    OBVIOUS
  <2> QED BY <1>1, <2>1
<1>4. w <= W
  <2>1. CASE w > W
    <3>1. S * (W + 1) <= S * w
      BY <1>1, <2>1, ProductOrder
    <3>2. S * (W + 1) = S * W + S /\ S * W \in Nat
      OBVIOUS
    <3>3. W <= S * W
      <4>1. W * 1 <= W * S
        BY ProductOrder
      <4> QED BY <4>1
    <3> QED BY <1>1, <1>2, <3>1, <3>2, <3>3
  <2> QED BY <1>1, <2>1
<1> QED BY <1>1, <1>2, <1>3, <1>4

\* Numbers with the same quotient lie less than the divisor apart.
LEMMA NumberSpan ==
  ASSUME NEW w \in Nat \ {0}, NEW t \in Nat, NEW u \in Nat, t \div w = u \div w
  PROVE  u < t + w
<1>1. /\ w * (t \div w) <= t /\ u < w * (u \div w) + w /\ w * (t \div w) \in Nat
  BY DivMod
<1> QED BY <1>1

-----------------------------------------------------------------------------
(* The rolling budget.  Bucket number n stands for the instants n * width  *)
(* to (n + 1) * width - 1 and lives in slot n % (Segments + 1).            *)

Number(r, t) == t \div BucketWidth(r)
Slot(r, t) == Number(r, t) % (Segments + 1)

\* The outflows of route r that slot b now stands for: those of the bucket
\* that was written to it last.
Content(r, b) == [i \in DOMAIN paid[r] |->
    IF /\ Slot(r, paid[r][i].at) = b
       /\ Number(r, paid[r][i].at) = Number(r, ring[r][b].lastOutflow)
    THEN paid[r][i].amount ELSE 0]

\* The ring is what the outflows make of it.
BooksKept(r) ==
    /\ \A i \in DOMAIN paid[r] :
         LET b == Slot(r, paid[r][i].at)
         IN  /\ paid[r][i].at <= ring[r][b].lastOutflow
             /\ Slot(r, ring[r][b].lastOutflow) = b
    /\ \A b \in Buckets : ring[r][b].amount = SumFunction(Content(r, b))

Payment == [at: Nat, amount: Nat]

UsageInv ==
    /\ IInv
    /\ paid \in [Routes -> Seq(Payment)]
    /\ \A r \in Routes : BooksKept(r) /\ (~Configured(r) => paid[r] = <<>>)

\* Two instants less than a window apart that share a slot share its bucket,
\* since the ring has room for a window and one bucket more.
LEMMA RingGeometry ==
  ASSUME TypeOK, NEW r \in Routes, Configured(r)
  PROVE  /\ BucketWidth(r) \in Nat \ {0} /\ BucketWidth(r) <= routes[r].windowSeconds
         /\ routes[r].windowSeconds \in Nat
         /\ \A t \in Nat : Slot(r, t) \in Buckets /\ Number(r, t) \in Nat
         /\ \A t, u \in Nat :
              t <= u /\ u < t + routes[r].windowSeconds /\ Slot(r, t) = Slot(r, u)
                => Number(r, t) = Number(r, u)
         /\ \A t, u \in Nat : Number(r, t) = Number(r, u) => u < t + BucketWidth(r)
<1> DEFINE w == BucketWidth(r)
           W == routes[r].windowSeconds
           N == Segments + 1
<1>1. /\ W \in Nat \ {0} /\ Segments \in Nat \ {0} /\ N \in Nat \ {0}
      /\ N = Segments + 1 /\ Buckets = 0 .. N - 1
  BY DurationAssumption DEF TypeOK, Route, Configured, Buckets
<1>2. w \in Nat \ {0} /\ W <= w * Segments /\ w <= W
  BY <1>1, BucketWidthFits DEF BucketWidth
<1> HIDE DEF w, W, N
<1>3. ASSUME NEW t \in Nat
      PROVE  /\ t \div w \in Nat
             /\ (t \div w) % N \in Buckets
  <2>1. t \div w \in Nat
    BY <1>2, DivMod
  <2> QED BY <1>1, <2>1, DivMod
<1>4. ASSUME NEW t \in Nat, NEW u \in Nat, t <= u, u < t + W,
             (t \div w) % N = (u \div w) % N
      PROVE  t \div w = u \div w
  <2>1. W \in Nat /\ Segments \in Nat \ {0} /\ N = Segments + 1
    BY <1>1
  <2>2. w \in Nat \ {0} /\ W <= w * Segments
    BY <1>2
  <2> QED BY <1>4, <2>1, <2>2, SameNumber
<1>5. ASSUME NEW t \in Nat, NEW u \in Nat, t \div w = u \div w PROVE u < t + w
  BY <1>2, <1>5, NumberSpan
<1> QED BY <1>1, <1>2, <1>3, <1>4, <1>5 DEF Number, Slot, w, W, N

\* What the books of one route are, in terms to compute with.
LEMMA BooksMean ==
  ASSUME UsageInv, NEW r \in Routes
  PROVE  /\ TypeOK /\ now \in Nat
         /\ \A b \in Buckets : ring[r][b].amount \in Nat /\ ring[r][b].lastOutflow \in Nat
                               /\ ring[r][b].lastOutflow <= now
         /\ Len(paid[r]) \in Nat /\ DOMAIN paid[r] = 1 .. Len(paid[r])
         /\ IsFiniteSet(DOMAIN paid[r]) /\ IsFiniteSet(Buckets)
         /\ \A i \in DOMAIN paid[r] : paid[r][i].at \in Nat /\ paid[r][i].amount \in Nat
         /\ \A b \in Buckets : Content(r, b) \in [DOMAIN paid[r] -> Nat]
<1>1. paid[r] \in Seq(Payment)
  BY DEF UsageInv
<1>2. /\ Len(paid[r]) \in Nat /\ DOMAIN paid[r] = 1 .. Len(paid[r])
      /\ \A i \in DOMAIN paid[r] : paid[r][i] \in Payment
  BY <1>1
<1>3. IsFiniteSet(DOMAIN paid[r]) /\ IsFiniteSet(Buckets)
  BY <1>2, FS_Interval, DurationAssumption DEF Buckets
<1>4. \A i \in DOMAIN paid[r] : paid[r][i].at \in Nat /\ paid[r][i].amount \in Nat
  BY <1>2 DEF Payment
<1>5. /\ TypeOK /\ now \in Nat
      /\ \A b \in Buckets : ring[r][b].amount \in Nat /\ ring[r][b].lastOutflow \in Nat
                            /\ ring[r][b].lastOutflow <= now
  BY DEF UsageInv, IInv, TypeOK, Bucket, RouteInv, RingPast
<1>6. \A b \in Buckets : Content(r, b) \in [DOMAIN paid[r] -> Nat]
  BY <1>4 DEF Content
<1> QED BY <1>2, <1>3, <1>4, <1>5, <1>6

\* The outflows of a window, bucket by bucket.
Recent(r, span) == [i \in DOMAIN paid[r] |->
    IF paid[r][i].at + span > now THEN paid[r][i].amount ELSE 0]

Slots(r) == [i \in DOMAIN paid[r] |-> Slot(r, paid[r][i].at)]

RecentIn(r, span, b) == Share(Recent(r, span), Slots(r), DOMAIN paid[r], b)

Counted(r) == [b \in Buckets |-> IF CountedAt(r, b, now) THEN ring[r][b].amount ELSE 0]

\* Every outflow lies in exactly one slot.
LEMMA RecentByBucket ==
  ASSUME UsageInv, NEW r \in Routes, Configured(r), NEW span \in Nat
  PROVE  /\ SumFunction(Recent(r, span))
              = SumFunction([b \in Buckets |-> SumFunction(RecentIn(r, span, b))])
         /\ \A b \in Buckets : RecentIn(r, span, b) \in [DOMAIN paid[r] -> Nat]
                               /\ SumFunction(RecentIn(r, span, b)) \in Nat
         /\ Counted(r) \in [Buckets -> Nat]
<1> DEFINE D == DOMAIN paid[r]
<1>1. /\ IsFiniteSet(D) /\ IsFiniteSet(Buckets)
      /\ \A i \in D : paid[r][i].at \in Nat /\ paid[r][i].amount \in Nat
      /\ \A b \in Buckets : ring[r][b].amount \in Nat
      /\ \A t \in Nat : Slot(r, t) \in Buckets
  <2>1. TypeOK
    BY BooksMean
  <2> QED BY <2>1, BooksMean, RingGeometry
<1>2. Recent(r, span) \in [D -> Nat] /\ Slots(r) \in [D -> Buckets]
  BY <1>1 DEF Recent, Slots
<1>3. \A b \in Buckets : RecentIn(r, span, b) \in [D -> Nat]
  BY <1>2 DEF RecentIn, Share
<1>4. \A b \in Buckets : SumFunction(RecentIn(r, span, b)) \in Nat
  BY <1>1, <1>3, SumNat
<1>5. Counted(r) \in [Buckets -> Nat]
  BY <1>1 DEF Counted
<1>6. SumFunction(Recent(r, span))
        = SumFunction([b \in Buckets |-> SumFunction(RecentIn(r, span, b))])
  BY <1>1, <1>2, SumOfParts DEF RecentIn
<1> QED BY <1>3, <1>4, <1>5, <1>6

\* A bucket that is not counted holds nothing recent; one that is, holds it all.
LEMMA RecentCovered ==
  ASSUME UsageInv, NEW r \in Routes, Configured(r), NEW b \in Buckets
  PROVE  SumFunction(RecentIn(r, routes[r].windowSeconds, b)) <= Counted(r)[b]
<1> DEFINE W == routes[r].windowSeconds
           f == RecentIn(r, W, b)
<1>0. /\ IsFiniteSet(DOMAIN paid[r])
      /\ W \in Nat /\ now \in Nat /\ ring[r][b].lastOutflow \in Nat /\ ring[r][b].amount \in Nat
      /\ ring[r][b].lastOutflow <= now
      /\ f \in [DOMAIN paid[r] -> Nat]
      /\ Content(r, b) \in [DOMAIN paid[r] -> Nat]
      /\ ring[r][b].amount = SumFunction(Content(r, b))
  <2>1. TypeOK
    BY BooksMean
  <2> QED BY <2>1, BooksMean, RingGeometry, RecentByBucket DEF UsageInv, BooksKept
<1>1. ASSUME NEW i \in DOMAIN paid[r], f[i] # 0
      PROVE  /\ paid[r][i].at \in Nat /\ Slot(r, paid[r][i].at) = b
             /\ paid[r][i].at + W > now /\ f[i] = paid[r][i].amount
             /\ paid[r][i].at <= ring[r][b].lastOutflow /\ Slot(r, ring[r][b].lastOutflow) = b
  <2>1. /\ Slot(r, paid[r][i].at) = b /\ paid[r][i].at + W > now
        /\ f[i] = paid[r][i].amount
    BY <1>1 DEF RecentIn, Share, Recent, Slots
  <2>2. paid[r][i].at \in Nat
    BY BooksMean
  <2> QED BY <2>1, <2>2 DEF UsageInv, BooksKept
<1> HIDE DEF f, W
<1>2. CASE ~CountedAt(r, b, now)
  <2>1. \A i \in DOMAIN paid[r] : f[i] = 0
    BY <1>0, <1>1, <1>2 DEF CountedAt, W
  <2>2. SumFunction(f) = 0
    BY <1>0, <2>1, SumOfZeros
  <2> QED BY <1>2, <2>2 DEF Counted, f, W
<1>3. CASE CountedAt(r, b, now)
  <2>1. ASSUME NEW i \in DOMAIN paid[r] PROVE f[i] <= Content(r, b)[i]
    <3>1. CASE f[i] = 0
      BY <1>0, <3>1
    <3>2. CASE f[i] # 0
      <4>1. Number(r, paid[r][i].at) = Number(r, ring[r][b].lastOutflow)
        <5>1. TypeOK
          BY BooksMean
        <5> HIDE DEF Slot
        <5> QED BY <1>0, <1>1, <3>2, <5>1, RingGeometry DEF W
      <4>2. Content(r, b)[i] = paid[r][i].amount
        BY <1>1, <3>2, <4>1 DEF Content
      <4> QED BY <1>0, <1>1, <3>2, <4>2
    <3> QED BY <3>1, <3>2
  <2>2. SumFunction(f) <= SumFunction(Content(r, b))
    BY <1>0, <2>1, SumAtMost
  <2> QED BY <1>0, <1>3, <2>2 DEF Counted, f, W
<1> QED BY <1>2, <1>3

\* A counted bucket holds nothing older than a window and a bucket.
LEMMA CountedRecent ==
  ASSUME UsageInv, NEW r \in Routes, Configured(r), NEW b \in Buckets
  PROVE  Counted(r)[b]
           <= SumFunction(RecentIn(r, routes[r].windowSeconds + BucketWidth(r) - 1, b))
<1> DEFINE W == routes[r].windowSeconds
           long == W + BucketWidth(r) - 1
           f == RecentIn(r, long, b)
<1>0. /\ IsFiniteSet(DOMAIN paid[r])
      /\ W \in Nat /\ BucketWidth(r) \in Nat \ {0} /\ long \in Nat
      /\ now \in Nat /\ ring[r][b].lastOutflow \in Nat
      /\ f \in [DOMAIN paid[r] -> Nat]
      /\ SumFunction(f) \in Nat
      /\ Content(r, b) \in [DOMAIN paid[r] -> Nat]
      /\ ring[r][b].amount = SumFunction(Content(r, b))
      /\ Counted(r)[b] = IF CountedAt(r, b, now) THEN ring[r][b].amount ELSE 0
  <2>1. TypeOK
    BY BooksMean
  <2>2. W \in Nat /\ BucketWidth(r) \in Nat \ {0} /\ long \in Nat
    BY <2>1, RingGeometry
  <2> QED BY <2>2, BooksMean, RecentByBucket DEF UsageInv, BooksKept, Counted
<1>2. CASE ~CountedAt(r, b, now)
  BY <1>0, <1>2
<1>3. CASE CountedAt(r, b, now)
  <2>1. ASSUME NEW i \in DOMAIN paid[r] PROVE Content(r, b)[i] <= f[i]
    <3>0. paid[r][i].at \in Nat /\ paid[r][i].amount \in Nat
      BY BooksMean
    <3>1. CASE Content(r, b)[i] = 0
      BY <1>0, <3>1
    <3>2. CASE Content(r, b)[i] # 0
      <4>1. /\ Slot(r, paid[r][i].at) = b /\ Content(r, b)[i] = paid[r][i].amount
            /\ Number(r, paid[r][i].at) = Number(r, ring[r][b].lastOutflow)
        BY <3>2 DEF Content
      <4>2. ring[r][b].lastOutflow < paid[r][i].at + BucketWidth(r)
        <5>1. TypeOK
          BY BooksMean
        <5> QED BY <1>0, <3>0, <4>1, <5>1, RingGeometry
      <4>3. paid[r][i].at + long > now
        BY <1>0, <1>3, <3>0, <4>2 DEF CountedAt
      <4>4. f[i] = paid[r][i].amount
        <5> HIDE DEF long
        <5> QED BY <4>1, <4>3 DEF RecentIn, Share, Recent, Slots
      <4> QED BY <3>0, <4>1, <4>4
    <3> QED BY <3>1, <3>2
  <2> HIDE DEF f
  <2>2. SumFunction(Content(r, b)) <= SumFunction(f)
    BY <1>0, <2>1, SumAtMost
  <2> QED BY <1>0, <1>3, <2>2 DEF f
<1> QED BY <1>2, <1>3

\* The ring's total is between the exact totals of two windows.
LEMMA UsageMeaning == UsageInv => UsageNeverOmits /\ UsageNotStale
<1> SUFFICES ASSUME UsageInv, NEW r \in Routes
             PROVE  /\ rollingUsage(r) >= PaidWithin(r, routes[r].windowSeconds)
                    /\ Configured(r) =>
                         rollingUsage(r) <= PaidWithin(r, routes[r].windowSeconds + BucketWidth(r) - 1)
  BY DEF UsageNeverOmits, UsageNotStale
<1>1. rollingUsage(r) = SumFunction(Counted(r))
  BY DEF rollingUsage, UsageAt, Counted
<1>2. \A span : PaidWithin(r, span) = SumFunction(Recent(r, span))
  BY DEF PaidWithin, Recent
<1>3. CASE Configured(r)
  <2> DEFINE W == routes[r].windowSeconds
             long == W + BucketWidth(r) - 1
             parts(span) == [b \in Buckets |-> SumFunction(RecentIn(r, span, b))]
  <2>1. W \in Nat /\ long \in Nat /\ IsFiniteSet(Buckets)
    <3>1. TypeOK /\ IsFiniteSet(Buckets)
      BY BooksMean
    <3>2. W \in Nat /\ BucketWidth(r) \in Nat \ {0}
      BY <1>3, <3>1, RingGeometry
    <3> QED BY <3>1, <3>2
  <2>2. /\ Counted(r) \in [Buckets -> Nat]
        /\ \A span \in Nat : parts(span) \in [Buckets -> Nat]
                             /\ SumFunction(Recent(r, span)) = SumFunction(parts(span))
    BY <1>3, <2>1, RecentByBucket
  <2>3. \A b \in Buckets : parts(W)[b] <= Counted(r)[b] /\ Counted(r)[b] <= parts(long)[b]
    BY <1>3, RecentCovered, CountedRecent
  <2> HIDE DEF parts, W, long
  <2>4. SumFunction(parts(W)) <= SumFunction(Counted(r))
    BY <2>1, <2>2, <2>3, SumAtMost
  <2>5. SumFunction(Counted(r)) <= SumFunction(parts(long))
    BY <2>1, <2>2, <2>3, SumAtMost
  <2>6. SumFunction(Counted(r)) >= SumFunction(parts(W))
    <3>1. SumFunction(Counted(r)) \in Nat /\ SumFunction(parts(W)) \in Nat
      BY <2>1, <2>2, SumNat
    <3> QED BY <2>4, <3>1
  <2>7. rollingUsage(r) >= PaidWithin(r, W) /\ rollingUsage(r) <= PaidWithin(r, long)
    BY <1>1, <1>2, <2>1, <2>2, <2>5, <2>6
  <2> QED BY <2>7 DEF W, long
<1>4. CASE ~Configured(r)
  <2>1. DOMAIN paid[r] = {}
    BY <1>4 DEF UsageInv
  <2>2. \A span : Recent(r, span) \in [{} -> Nat]
    BY <2>1 DEF Recent
  <2>3. \A span : SumFunction(Recent(r, span)) = 0
    BY <2>2, SumOfZeros, FS_EmptySet
  <2>4. Counted(r) \in [Buckets -> Nat] /\ IsFiniteSet(Buckets)
    BY BooksMean DEF Counted
  <2>5. SumFunction(Counted(r)) \in Nat
    BY <2>4, SumNat
  <2> QED BY <1>1, <1>2, <1>4, <2>3, <2>5
<1> QED BY <1>3, <1>4

\* What a payment does not touch keeps its books: a window is set once, and
\* before that nothing was paid.
LEMMA BooksStay ==
  ASSUME UsageInv, NEW r \in Routes, ring'[r] = ring[r], paid'[r] = paid[r],
         Configured(r) => routes'[r].windowSeconds = routes[r].windowSeconds
  PROVE  BooksKept(r)' /\ (~Configured(r)' => paid'[r] = <<>>)
<1>0. BooksKept(r) /\ (~Configured(r) => paid[r] = <<>>)
  BY DEF UsageInv
<1>1. CASE Configured(r)
  <2>1. BucketWidth(r)' = BucketWidth(r) /\ Configured(r)'
    BY <1>1 DEF BucketWidth, Configured
  <2>2. \A t : Number(r, t)' = Number(r, t) /\ Slot(r, t)' = Slot(r, t)
    BY <2>1 DEF Number, Slot
  <2>3. \A b \in Buckets : Content(r, b)' = Content(r, b)
    BY <2>1 DEF Content, Number, Slot
  <2> QED BY <1>0, <2>1, <2>2, <2>3 DEF BooksKept, Number, Slot
<1>2. CASE ~Configured(r)
  <2>1. paid[r] = <<>> /\ DOMAIN paid[r] = {} /\ DOMAIN paid'[r] = {}
    BY <1>0, <1>2
  <2>2. \A b \in Buckets : Content(r, b)' = Content(r, b)
    BY <2>1 DEF Content
  <2> QED BY <1>0, <2>1, <2>2 DEF BooksKept
<1> QED BY <1>1, <1>2

\* The bucket that receives a payment stands for it and for what it kept:
\* nothing of another bucket is left in a slot that was not emptied, and
\* nothing of this bucket was in one that was.
LEMMA BooksOfPayment ==
  ASSUME UsageInv, NEW caller, NEW r \in Routes, NEW amount \in Amounts,
         onTokenOutflow(caller, r, amount),
         paid' = [paid EXCEPT ![r] = Append(@, [at |-> now, amount |-> amount])]
  PROVE  BooksKept(r)'
<1> DEFINE n == Len(paid[r])
           b0 == Slot(r, now)
           W == routes[r].windowSeconds
           kept == IF ring[r][b0].lastOutflow + W <= now THEN 0 ELSE ring[r][b0].amount
<1>0. /\ TypeOK /\ Configured(r) /\ now \in Nat /\ amount \in Nat /\ n \in Nat
      /\ now' = now /\ DOMAIN paid[r] = 1 .. n
      /\ \A i \in 1 .. n : paid[r][i].at \in Nat /\ paid[r][i].amount \in Nat
      /\ \A b \in Buckets : ring[r][b].amount \in Nat /\ ring[r][b].lastOutflow \in Nat
                            /\ ring[r][b].lastOutflow <= now
                            /\ ring[r][b].amount = SumFunction(Content(r, b))
      /\ \A i \in 1 .. n : LET b == Slot(r, paid[r][i].at)
                           IN  paid[r][i].at <= ring[r][b].lastOutflow
                               /\ Slot(r, ring[r][b].lastOutflow) = b
  BY BooksMean, DataAssumption DEF UsageInv, BooksKept, onTokenOutflow
<1>1. /\ BucketWidth(r) \in Nat \ {0} /\ BucketWidth(r) <= W /\ W \in Nat
      /\ \A t \in Nat : Slot(r, t) \in Buckets /\ Number(r, t) \in Nat
      /\ \A t, u \in Nat : t <= u /\ u < t + W /\ Slot(r, t) = Slot(r, u)
           => Number(r, t) = Number(r, u)
      /\ \A t, u \in Nat : Number(r, t) = Number(r, u) => u < t + BucketWidth(r)
  BY <1>0, RingGeometry
<1>2. /\ b0 \in Buckets
      /\ ring'[r][b0] = [amount |-> kept + amount, lastOutflow |-> now]
      /\ \A b \in Buckets \ {b0} : ring'[r][b] = ring[r][b]
  <2>1. b0 \in Buckets /\ CurrentBucket(r) = b0
    BY <1>0, <1>1 DEF CurrentBucket, Slot, Number
  <2>2. ring \in [Routes -> [Buckets -> Bucket]]
    BY <1>0 DEF TypeOK
  <2>3. ring' = [ring EXCEPT ![r][b0] = [amount |-> kept + amount, lastOutflow |-> now]]
    BY <2>1 DEF onTokenOutflow, RecordOutflow
  <2> HIDE DEF b0, kept
  <2> QED BY <2>1, <2>2, <2>3
<1>3. /\ DOMAIN paid'[r] = 1 .. n + 1
      /\ \A i \in 1 .. n : paid'[r][i] = paid[r][i]
      /\ paid'[r][n + 1].at = now /\ paid'[r][n + 1].amount = amount
  <2>1. paid[r] \in Seq(Payment) /\ [at |-> now, amount |-> amount] \in Payment
    BY <1>0 DEF UsageInv, Payment
  <2>2. paid'[r] = Append(paid[r], [at |-> now, amount |-> amount])
    BY DEF UsageInv
  <2> QED BY <2>1, <2>2
<1>4. /\ \A t : Number(r, t)' = Number(r, t) /\ Slot(r, t)' = Slot(r, t)
      /\ BucketWidth(r)' = BucketWidth(r)
      /\ \A i \in 1 .. n + 1 : Slot(r, paid[r][i].at)' = Slot(r, paid'[r][i].at)
      /\ \A i \in 1 .. n + 1 : Number(r, paid[r][i].at)' = Number(r, paid'[r][i].at)
      /\ \A b \in Buckets : Number(r, ring[r][b].lastOutflow)' = Number(r, ring'[r][b].lastOutflow)
      /\ \A b \in Buckets : Slot(r, ring[r][b].lastOutflow)' = Slot(r, ring'[r][b].lastOutflow)
  <2>1. routes'[r].windowSeconds = W
    BY <1>0 DEF onTokenOutflow, TypeOK, Route
  <2>2. BucketWidth(r)' = BucketWidth(r)
    BY <2>1 DEF BucketWidth
  <2> QED BY <2>2 DEF Number, Slot
<1> DEFINE New(b) == [i \in 1 .. n + 1 |->
              IF /\ Slot(r, paid'[r][i].at) = b
                 /\ Number(r, paid'[r][i].at) = Number(r, ring'[r][b].lastOutflow)
              THEN paid'[r][i].amount ELSE 0]
<1>5. \A b \in Buckets : Content(r, b)' = New(b)
  BY <1>3, <1>4 DEF Content
<1>6. \A b \in Buckets : New(b) \in [1 .. n + 1 -> Nat]
  BY <1>0, <1>3
<1>7. \A b \in Buckets : Content(r, b) \in [1 .. n -> Nat]
  BY <1>0, BooksMean
<1> HIDE DEF n, b0, W, kept
<1>8. ASSUME NEW b \in Buckets, b # b0 PROVE ring'[r][b].amount = SumFunction(New(b))
  <2>1. n + 1 \in 1 .. n + 1 /\ \A i \in 1 .. n : i \in 1 .. n + 1
    BY <1>0
  <2>2. New(b)[n + 1] = 0
    BY <1>3, <1>8, <2>1 DEF b0
  <2>3. \A i \in 1 .. n : New(b)[i] = Content(r, b)[i]
    BY <1>0, <1>2, <1>3, <1>8, <2>1 DEF Content
  <2> HIDE DEF New
  <2>4. SumFunction(New(b)) = SumFunction(Content(r, b)) + New(b)[n + 1]
    BY <1>0, <1>6, <1>7, <2>3, SumAppend
  <2> QED BY <1>0, <1>2, <1>8, <2>2, <2>4
<1>9. ring'[r][b0].amount = SumFunction(New(b0))
  <2>1. n + 1 \in 1 .. n + 1 /\ \A i \in 1 .. n : i \in 1 .. n + 1
    BY <1>0
  <2>2. New(b0)[n + 1] = amount
    BY <1>2, <1>3, <2>1 DEF b0
  <2>3. CASE ring[r][b0].lastOutflow + W <= now
    <3> DEFINE none == [i \in 1 .. n |-> 0]
    <3>1. ASSUME NEW i \in 1 .. n PROVE New(b0)[i] = 0
      <4>1. SUFFICES ASSUME Slot(r, paid[r][i].at) = b0,
                            Number(r, paid[r][i].at) = Number(r, now)
                     PROVE  FALSE
        BY <1>2, <1>3, <2>1
      <4>2. now < paid[r][i].at + BucketWidth(r)
        BY <1>0, <1>1, <4>1
      <4>3. paid[r][i].at <= ring[r][b0].lastOutflow
        BY <1>0, <4>1
      <4>4. /\ paid[r][i].at \in Nat /\ ring[r][b0].lastOutflow \in Nat /\ now \in Nat
            /\ W \in Nat /\ BucketWidth(r) \in Nat /\ BucketWidth(r) <= W
        BY <1>0, <1>1, <1>2
      <4> QED BY <2>3, <4>2, <4>3, <4>4
    <3>2. none \in [1 .. n -> Nat] /\ SumFunction(none) = 0
      <4>1. none \in [1 .. n -> Nat] /\ \A i \in 1 .. n : none[i] = 0
        OBVIOUS
      <4>2. IsFiniteSet(1 .. n)
        BY <1>0, FS_Interval
      <4> HIDE DEF none
      <4> QED BY <4>1, <4>2, SumOfZeros
    <3>3. \A i \in 1 .. n : New(b0)[i] = none[i]
      BY <3>1
    <3> HIDE DEF New, none
    <3>4. SumFunction(New(b0)) = SumFunction(none) + New(b0)[n + 1]
      BY <1>0, <1>2, <1>6, <3>2, <3>3, SumAppend
    <3> QED BY <1>0, <1>2, <2>2, <2>3, <3>2, <3>4 DEF kept
  <2>4. CASE ~(ring[r][b0].lastOutflow + W <= now)
    <3>1. ASSUME NEW i \in 1 .. n PROVE New(b0)[i] = Content(r, b0)[i]
      <4>1. CASE Slot(r, paid[r][i].at) # b0
        BY <1>0, <1>3, <2>1, <4>1 DEF Content
      <4>2. CASE Slot(r, paid[r][i].at) = b0
        <5>0. Slot(r, ring[r][b0].lastOutflow) = b0
          BY <1>0, <4>2
        <5>1. Slot(r, ring[r][b0].lastOutflow) = b0 /\ ring[r][b0].lastOutflow \in Nat
              /\ ring[r][b0].lastOutflow <= now /\ now < ring[r][b0].lastOutflow + W
          <6>1. /\ ring[r][b0].lastOutflow \in Nat /\ now \in Nat /\ W \in Nat
                /\ ring[r][b0].lastOutflow <= now
            BY <1>0, <1>1, <1>2
          <6> QED BY <2>4, <5>0, <6>1
        <5>2. Number(r, ring[r][b0].lastOutflow) = Number(r, now)
          <6>1. Slot(r, now) = b0
            BY DEF b0
          <6> QED BY <1>0, <1>1, <5>1, <6>1
        <5> QED BY <1>0, <1>2, <1>3, <2>1, <5>2 DEF Content
      <4> QED BY <4>1, <4>2
    <3> HIDE DEF New
    <3>2. SumFunction(New(b0)) = SumFunction(Content(r, b0)) + New(b0)[n + 1]
      BY <1>0, <1>2, <1>6, <1>7, <3>1, SumAppend
    <3> QED BY <1>0, <1>2, <2>2, <2>4, <3>2 DEF kept
  <2> QED BY <2>3, <2>4
<1>10. ASSUME NEW i \in 1 .. n + 1, NEW b, b = Slot(r, paid'[r][i].at)
       PROVE  paid'[r][i].at <= ring'[r][b].lastOutflow /\ Slot(r, ring'[r][b].lastOutflow) = b
  <2> HIDE DEF New
  <2>1. CASE i = n + 1
    BY <1>0, <1>2, <1>3, <1>10, <2>1 DEF b0
  <2>2. CASE i \in 1 .. n
    <3>1. paid'[r][i] = paid[r][i] /\ b \in Buckets /\ paid[r][i].at \in Nat
          /\ paid[r][i].at <= ring[r][b].lastOutflow /\ Slot(r, ring[r][b].lastOutflow) = b
          /\ ring[r][b].lastOutflow \in Nat /\ ring[r][b].lastOutflow <= now
      BY <1>0, <1>1, <1>3, <1>10, <2>2
    <3>2. CASE b = b0
      BY <1>0, <1>2, <3>1, <3>2 DEF b0
    <3>3. CASE b # b0
      BY <1>2, <3>1, <3>3
    <3> QED BY <3>2, <3>3
  <2> QED BY <1>0, <1>10, <2>1, <2>2
<1> HIDE DEF New
<1>11. \A b \in Buckets : ring'[r][b].amount = SumFunction(Content(r, b)')
  BY <1>5, <1>8, <1>9
<1>12. (\A i \in DOMAIN paid[r] :
           LET b == Slot(r, paid[r][i].at)
           IN  /\ paid[r][i].at <= ring[r][b].lastOutflow
               /\ Slot(r, ring[r][b].lastOutflow) = b)'
  BY <1>3, <1>4, <1>10 DEF Slot, Number
<1> QED BY <1>11, <1>12 DEF BooksKept

\* Every other step leaves the ring alone, and a window is set once.
LEMMA OtherStep ==
  ASSUME TypeOK, OwnerAction \/ acceptOracle \/ OracleAction \/ Tick \/ UNCHANGED vars
  PROVE  /\ ring' = ring /\ now' >= now
         /\ \A r \in Routes :
              Configured(r) => routes'[r].windowSeconds = routes[r].windowSeconds
<1>0. routes \in [Routes -> Route] /\ now \in Nat
  BY DEF TypeOK
<1>1. CASE Tick \/ UNCHANGED vars \/ disableOracle \/ cancelOracleRotation \/ acceptOracle
  BY <1>0, <1>1 DEF Tick, guardianVars, vars, disableOracle, cancelOracleRotation, acceptOracle
<1>2. ASSUME NEW next \in Candidates, proposeOracle(next)
      PROVE  ring' = ring /\ now' = now /\ routes' = routes
  BY <1>2 DEF proposeOracle
<1>3. ASSUME NEW q \in Routes, NEW cap \in Caps, NEW window \in Windows,
             configureRoute(q, cap, window)
      PROVE  /\ ring' = ring /\ now' = now
             /\ \A r \in Routes :
                  Configured(r) => routes'[r].windowSeconds = routes[r].windowSeconds
  BY <1>0, <1>3 DEF configureRoute, Route
<1>4. ASSUME NEW q \in Routes, rearmProtection(q) \/ resume(q)
      PROVE  /\ ring' = ring /\ now' = now
             /\ \A r \in Routes : routes'[r].windowSeconds = routes[r].windowSeconds
  <2>1. CASE rearmProtection(q)
    BY <1>0, <2>1 DEF rearmProtection, Route
  <2>2. CASE resume(q)
    BY <1>0, <2>2 DEF resume, Route
  <2> QED BY <1>4, <2>1, <2>2
<1>5. ASSUME NEW q \in Routes, NEW caller \in Callers, NEW allowed \in BOOLEAN,
             setProtected(caller, q, allowed)
      PROVE  ring' = ring /\ now' = now /\ routes' = routes
  BY <1>5 DEF setProtected
<1>6. ASSUME NEW q \in Routes, NEW score \in Scores, NEW nonce \in Nonces, NEW signer \in Keys,
             NEW validUntil \in now .. now + MaxAttestationTtl,
             submitAttestation(q, score, validUntil, nonce, signer)
      PROVE  /\ ring' = ring /\ now' = now
             /\ \A r \in Routes : routes'[r].windowSeconds = routes[r].windowSeconds
  <2> DEFINE until == Earlier(now + PauseDuration, protectionLimit(q))
             new == TightenedRoute(q, TierOfScore(score), until)
  <2>1. new.windowSeconds = routes[q].windowSeconds
    BY <1>0, TightenedFields
  <2>2. ring' = ring /\ now' = now /\ (routes' = routes \/ routes' = [routes EXCEPT ![q] = new])
    BY <1>6 DEF submitAttestation
  <2> HIDE DEF new
  <2> QED BY <1>0, <2>1, <2>2
<1> QED BY <1>0, <1>1, <1>2, <1>3, <1>4, <1>5, <1>6 DEF OwnerAction, OracleAction

\* UsageInv is inductive.
LEMMA UsageNext == UsageInv /\ [PNext]_pvars => UsageInv'
<1> SUFFICES ASSUME UsageInv, [PNext]_pvars PROVE UsageInv'
  OBVIOUS
<1>0. /\ TypeOK /\ now \in Nat /\ paid \in [Routes -> Seq(Payment)]
      /\ routes \in [Routes -> Route] /\ ring \in [Routes -> [Buckets -> Bucket]]
  BY DEF UsageInv, IInv, TypeOK
<1>1. IInv'
  BY NextInv DEF UsageInv, PNext, PayStep, pvars, Next, OutflowAction
<1>2. CASE PayStep
  <2>1. PICK caller \in Callers, r \in Routes, amount \in Amounts :
          /\ onTokenOutflow(caller, r, amount)
          /\ paid' = [paid EXCEPT ![r] = Append(@, [at |-> now, amount |-> amount])]
    BY <1>2 DEF PayStep
  <2>2. paid' \in [Routes -> Seq(Payment)]
    <3>1. [at |-> now, amount |-> amount] \in Payment
      BY <1>0, DataAssumption DEF Payment
    <3> QED BY <1>0, <2>1, <3>1
  <2>3. BooksKept(r)' /\ Configured(r)'
    <3>1. BooksKept(r)'
      BY <2>1, BooksOfPayment
    <3>2. Configured(r)'
      BY <1>0, <2>1 DEF onTokenOutflow, Configured, Route
    <3> QED BY <3>1, <3>2
  <2>4. ASSUME NEW q \in Routes, q # r
        PROVE  BooksKept(q)' /\ (~Configured(q)' => paid'[q] = <<>>)
    <3>1. routes'[q] = routes[q] /\ ring'[q] = ring[q] /\ paid'[q] = paid[q]
      BY <1>0, <2>1, <2>4 DEF onTokenOutflow, RecordOutflow
    <3> QED BY <3>1, BooksStay
  <2> QED BY <1>1, <2>2, <2>3, <2>4 DEF UsageInv
<1>3. CASE OwnerAction \/ acceptOracle \/ OracleAction \/ Tick \/ UNCHANGED vars
  <2>1. CASE paid' = paid
    BY <1>0, <1>1, <1>3, <2>1, OtherStep, BooksStay DEF UsageInv
  <2>2. CASE paid' # paid
    BY <1>2, <2>2 DEF PNext, pvars
  <2> QED BY <2>1, <2>2
<1> QED BY <1>2, <1>3 DEF PNext, pvars

\* Nothing has been paid from a guardian just deployed.
LEMMA UsageInit == PInit => UsageInv
<1> SUFFICES ASSUME PInit PROVE UsageInv
  OBVIOUS
<1>1. IInv
  BY InitInv DEF PInit
<1>2. ASSUME NEW r \in Routes PROVE paid[r] = <<>> /\ BooksKept(r)
  <2>1. paid[r] = <<>> /\ DOMAIN paid[r] = {}
    BY DEF PInit
  <2>2. \A b \in Buckets : ring[r][b].amount = 0
    BY DEF PInit, Init
  <2>3. \A b \in Buckets : Content(r, b) \in [{} -> Nat]
    BY <2>1 DEF Content
  <2>4. \A b \in Buckets : SumFunction(Content(r, b)) = 0
    BY <2>3, SumOfZeros, FS_EmptySet
  <2> QED BY <2>1, <2>2, <2>4 DEF BooksKept
<1> QED BY <1>1, <1>2 DEF UsageInv, PInit

\* Nothing spent in the last window is ever missing from rollingUsage, for any
\* number of outflows, routes and buckets and whatever slots were reused.
THEOREM UsageIsComplete == PSpec => []UsageNeverOmits
  BY UsageInit, UsageNext, UsageMeaning, PTL DEF PSpec

\* Nothing older than a window and a bucket stays in rollingUsage, however
\* often later outflows renewed the bucket.
THEOREM UsageIsFresh == PSpec => []UsageNotStale
  BY UsageInit, UsageNext, UsageMeaning, PTL DEF PSpec

-----------------------------------------------------------------------------
(* The ring implements a limiter that remembers everything.                *)

\* The limiter adds up as the guardian does.
LEMMA SameSum == ASSUME NEW f PROVE Exact!SumFunction(f) = SumFunction(f)
  BY DEF Exact!SumFunction, Exact!SumFunctionOnSet, Exact!FoldFunctionOnSet, Exact!MapThenFoldSet,
         SumFunction, SumFunctionOnSet, FoldFunctionOnSet, MapThenFoldSet

\* A step of the guardian is a payment of the exact limiter, or leaves its
\* log alone.
LEMMA ExactStep == UsageInv /\ UsageNeverOmits /\ [PNext]_pvars => [Exact!Step]_Exact!limitVars
<1> SUFFICES ASSUME UsageInv, UsageNeverOmits, [PNext]_pvars
             PROVE  Exact!Step \/ UNCHANGED Exact!limitVars
  OBVIOUS
<1>0. /\ TypeOK /\ now \in Nat /\ routes \in [Routes -> Route]
      /\ ring \in [Routes -> [Buckets -> Bucket]]
  BY DEF UsageInv, IInv, TypeOK
<1>1. CASE PayStep
  <2>1. PICK caller \in Callers, r \in Routes, amount \in Amounts :
          /\ onTokenOutflow(caller, r, amount)
          /\ paid' = [paid EXCEPT ![r] = Append(@, [at |-> now, amount |-> amount])]
    BY <1>1 DEF PayStep
  <2>2. amount \in Nat /\ amount > 0
    BY <2>1, DataAssumption DEF onTokenOutflow
  <2> DEFINE spent == PaidWithin(r, routes[r].windowSeconds)
  <2>3. spent \in Nat
    <3> DEFINE f == Recent(r, routes[r].windowSeconds)
    <3>1. f \in [DOMAIN paid[r] -> Nat] /\ IsFiniteSet(DOMAIN paid[r])
      BY BooksMean DEF Recent
    <3>2. SumFunction(f) \in Nat
      <4> HIDE DEF f
      <4> QED BY <3>1, SumNat
    <3> QED BY <3>2 DEF Recent, PaidWithin
  <2>4. rollingUsage(r) \in Nat /\ rollingUsage(r) >= spent
    <3>1. Counted(r) \in [Buckets -> Nat] /\ IsFiniteSet(Buckets)
      BY BooksMean DEF Counted
    <3>2. rollingUsage(r) = SumFunction(Counted(r))
      BY DEF rollingUsage, UsageAt, Counted
    <3> QED BY <3>1, <3>2, SumNat DEF UsageNeverOmits
  <2>5. CapAt(r, now) \in Nat
    BY <1>0, CapType DEF CapAt, Route
  <2>6. spent + amount <= CapAt(r, now) /\ amount \in 1 .. CapAt(r, now)
    <3>1. rollingUsage(r) + amount <= CapAt(r, now)
      BY <2>1 DEF onTokenOutflow
    <3> HIDE DEF spent
    <3> QED BY <2>2, <2>3, <2>4, <2>5, <3>1
  <2>7. UNCHANGED <<now, [q \in Routes |-> CapAt(q, now)],
                    [q \in Routes |-> routes[q].windowSeconds]>>
    <3>1. \A q \in Routes : /\ routes'[q].cap = routes[q].cap /\ routes'[q].tier = routes[q].tier
                            /\ routes'[q].tierExpiresAt = routes[q].tierExpiresAt
                            /\ routes'[q].windowSeconds = routes[q].windowSeconds
      BY <1>0, <2>1 DEF onTokenOutflow, Route
    <3>2. now' = now
      BY <2>1 DEF onTokenOutflow
    <3> QED BY <3>1, <3>2 DEF CapAt, TierAt
  <2>8. Exact!Trailing(paid[r], routes[r].windowSeconds) = spent
    BY SameSum DEF Exact!Trailing, PaidWithin
  <2>9. Exact!Pay(r, amount)
    <3> HIDE DEF spent
    <3> QED BY <2>1, <2>2, <2>6, <2>7, <2>8 DEF Exact!Pay
  <2> QED BY <2>6, <2>9 DEF Exact!Step
<1>2. CASE /\ OwnerAction \/ acceptOracle \/ OracleAction \/ Tick \/ UNCHANGED vars
           /\ UNCHANGED paid
  BY <1>0, <1>2, OtherStep DEF Exact!Step, Exact!Adjust, Configured
<1> QED BY <1>1, <1>2 DEF PNext, pvars

\* The bucketed ring under graduated tiers never pays what a limiter with full
\* memory would refuse.
THEOREM RingImplementsExactLimit == PSpec => ImplementsExactLimit
<1>1. PInit => Exact!Start
  BY DEF PInit, Exact!Start
<1>2. UsageInv => UsageNeverOmits
  BY UsageMeaning
<1> QED
  BY <1>1, <1>2, UsageInit, UsageNext, ExactStep, PTL
  DEF PSpec, ImplementsExactLimit, Exact!Limiter

-----------------------------------------------------------------------------
(* The oracle's holds.  Of a whole cycle, a span and its cooldown, only    *)
(* the instants of the last two spans can still count; those of the older  *)
(* one, moved ahead by a cycle, fall into the part of the newer span that  *)
(* has not come yet.  So together they fill one span at most.              *)

HoldInv(r) ==
    \A t \in held[r] :
        /\ t \in Nat /\ t <= now /\ now < t + Cycle
        /\ \/ routes[r].protectionSince <= t /\ t < routes[r].protectionSince + MaxOracleProtection
           \/ t + ProtectionCooldown < routes[r].protectionSince

HistoryHeldInv ==
    /\ IInv
    /\ held \in [Routes -> SUBSET Nat]
    /\ \A r \in Routes : HoldInv(r)

\* The oracle opens a span only after the cooldown; anything else that moves
\* the start of the span is the owner's.
LEMMA SinceStep ==
  ASSUME TypeOK, [Next]_vars, NEW r \in Routes, ~rearmProtection(r), ~resume(r)
  PROVE  \/ routes'[r].protectionSince = routes[r].protectionSince
         \/ NewSpanAllowed(r) /\ now' = now /\ routes'[r].protectionSince = now
<1>0. routes \in [Routes -> Route]
  BY DEF TypeOK
<1>1. CASE Tick \/ UNCHANGED vars \/ disableOracle \/ cancelOracleRotation \/ acceptOracle
  BY <1>1 DEF Tick, guardianVars, vars, disableOracle, cancelOracleRotation, acceptOracle
<1>2. ASSUME NEW next \in Candidates, proposeOracle(next)
      PROVE  routes' = routes
  BY <1>2 DEF proposeOracle
<1>3. ASSUME NEW q \in Routes, NEW cap \in Caps, NEW window \in Windows,
             configureRoute(q, cap, window)
      PROVE  routes'[r].protectionSince = routes[r].protectionSince
  BY <1>0, <1>3 DEF configureRoute, Route
<1>4. ASSUME NEW q \in Routes, rearmProtection(q) \/ resume(q)
      PROVE  routes'[r].protectionSince = routes[r].protectionSince
  <2>1. q # r
    BY <1>4
  <2> QED BY <1>0, <1>4, <2>1 DEF rearmProtection, resume
<1>5. ASSUME NEW q \in Routes, NEW caller \in Callers, NEW allowed \in BOOLEAN,
             setProtected(caller, q, allowed)
      PROVE  routes' = routes
  BY <1>5 DEF setProtected
<1>6. ASSUME NEW caller \in Callers, NEW q \in Routes, NEW amount \in Amounts,
             onTokenOutflow(caller, q, amount)
      PROVE  routes'[r].protectionSince = routes[r].protectionSince
  BY <1>0, <1>6 DEF onTokenOutflow, Route
<1>7. ASSUME NEW q \in Routes, NEW score \in Scores, NEW nonce \in Nonces, NEW signer \in Keys,
             NEW validUntil \in now .. now + MaxAttestationTtl,
             submitAttestation(q, score, validUntil, nonce, signer)
      PROVE  \/ routes'[r].protectionSince = routes[r].protectionSince
             \/ NewSpanAllowed(r) /\ now' = now /\ routes'[r].protectionSince = now
  <2> DEFINE until == Earlier(now + PauseDuration, protectionLimit(q))
             new == TightenedRoute(q, TierOfScore(score), until)
  <2>1. new.protectionSince = IF NewSpanAllowed(q) THEN now ELSE routes[q].protectionSince
    BY <1>0, TightenedFields
  <2>2. now' = now /\ (routes' = routes \/ routes' = [routes EXCEPT ![q] = new])
    BY <1>7 DEF submitAttestation
  <2> HIDE DEF new
  <2> QED BY <1>0, <2>1, <2>2
<1> QED
  BY <1>1, <1>2, <1>3, <1>4, <1>5, <1>6, <1>7 DEF Next, OwnerAction, OracleAction, OutflowAction

\* A hold in force lies within the span.
WithinSpan(r) ==
    Held(r) => /\ routes[r].protectionSince <= now
               /\ now < routes[r].protectionSince + MaxOracleProtection

LEMMA HeldWithinSpan == IInv => \A r \in Routes : WithinSpan(r)
<1> SUFFICES ASSUME IInv, NEW r \in Routes, Held(r)
             PROVE  /\ routes[r].protectionSince <= now
                    /\ now < routes[r].protectionSince + MaxOracleProtection
  BY DEF WithinSpan
<1>1. SpanBounded(r) /\ routes[r] \in Route /\ now \in Nat
  BY DEF IInv, RouteInv, TypeOK
<1>2. currentTier(r) # NONE
  BY InvMeaning DEF Held, PauseIsFreeze, NONE, FREEZE
<1>3. now < routes[r].tierExpiresAt
  BY <1>1, <1>2 DEF currentTier, TierAt, Route
<1> QED BY <1>1, <1>3, DurationAssumption DEF SpanBounded, Route

LEMMA HeldWithinSpanNext == IInv' => (\A r \in Routes : WithinSpan(r))'
  BY HeldWithinSpan, PTL

\* HistoryHeldInv is inductive.
LEMMA HeldNext == HistoryHeldInv /\ [HNext]_hvars => HistoryHeldInv'
<1> SUFFICES ASSUME HistoryHeldInv, [HNext]_hvars PROVE HistoryHeldInv'
  OBVIOUS
<1> USE DurationAssumption
<1>0. /\ IInv /\ IInv' /\ TypeOK /\ now \in Nat /\ now' \in Nat /\ now' >= now
      /\ routes \in [Routes -> Route] /\ routes' \in [Routes -> Route]
      /\ held \in [Routes -> SUBSET Nat]
  BY NextInv, ClockMonotone DEF HistoryHeldInv, IInv, TypeOK, HNext, hvars
<1>1. CASE UNCHANGED hvars
  BY <1>0, <1>1 DEF HistoryHeldInv, HoldInv, hvars, vars, guardianVars
<1>2. CASE Next /\ RecordHold
  <2>1. ASSUME NEW r \in Routes
        PROVE  held'[r] \in SUBSET Nat /\ HoldInv(r)'
    <3> DEFINE since == routes[r].protectionSince
    <3>1. /\ since \in Nat /\ routes'[r].protectionSince \in Nat
          /\ \A t \in held'[r] : \/ t = now' /\ Held(r)'
                                 \/ /\ ~rearmProtection(r) /\ ~resume(r)
                                    /\ t \in held[r] /\ now' < t + Cycle
      BY <1>0, <1>2 DEF RecordHold, Route, Cycle
    <3>2. Held(r)' => /\ routes'[r].protectionSince <= now'
                      /\ now' < routes'[r].protectionSince + MaxOracleProtection
      BY <1>0, HeldWithinSpanNext DEF WithinSpan
    <3>3. ASSUME NEW t \in held[r], ~rearmProtection(r), ~resume(r), now' < t + Cycle
          PROVE  \/ routes'[r].protectionSince <= t /\ t < routes'[r].protectionSince + MaxOracleProtection
                 \/ t + ProtectionCooldown < routes'[r].protectionSince
      <4>1. /\ t \in Nat
            /\ \/ since <= t /\ t < since + MaxOracleProtection
               \/ t + ProtectionCooldown < since
        BY <3>3 DEF HistoryHeldInv, HoldInv
      <4>2. CASE routes'[r].protectionSince = since
        BY <4>1, <4>2
      <4>3. CASE NewSpanAllowed(r) /\ routes'[r].protectionSince = now
        BY <1>0, <3>1, <4>1, <4>3 DEF NewSpanAllowed
      <4> QED BY <1>0, <1>2, <3>3, <4>2, <4>3, SinceStep
    <3>4. ASSUME NEW t \in held'[r]
          PROVE  /\ t \in Nat /\ t <= now' /\ now' < t + Cycle
                 /\ \/ /\ routes'[r].protectionSince <= t
                       /\ t < routes'[r].protectionSince + MaxOracleProtection
                    \/ t + ProtectionCooldown < routes'[r].protectionSince
      <4>1. CASE t = now' /\ Held(r)'
        BY <1>0, <3>1, <3>2, <4>1 DEF Cycle
      <4>2. CASE /\ ~rearmProtection(r) /\ ~resume(r)
                 /\ t \in held[r] /\ now' < t + Cycle
        <5>1. t \in Nat /\ t <= now
          BY <4>2 DEF HistoryHeldInv, HoldInv
        <5> QED BY <1>0, <3>3, <4>2, <5>1
      <4> QED BY <3>1, <3>4, <4>1, <4>2
    <3> QED BY <3>4 DEF HoldInv
  <2>2. held' \in [Routes -> SUBSET Nat]
    BY <1>2, <2>1 DEF RecordHold
  <2> QED BY <1>0, <2>1, <2>2 DEF HistoryHeldInv
<1> QED BY <1>1, <1>2 DEF HNext

\* The instants that count fit into one span.
LEMMA HeldMeaning == HistoryHeldInv => HoldBounded
<1> SUFFICES ASSUME HistoryHeldInv, NEW r \in Routes
             PROVE  Cardinality(held[r]) <= MaxOracleProtection
  BY DEF HoldBounded
<1> DEFINE since == routes[r].protectionSince
           span == since .. since + MaxOracleProtection - 1
           f == [t \in held[r] |-> IF t < since THEN t + Cycle ELSE t]
<1>0. since \in Nat /\ now \in Nat /\ since <= now /\ Cycle \in Nat
      /\ MaxOracleProtection \in Nat /\ ProtectionCooldown \in Nat
  BY DurationAssumption DEF HistoryHeldInv, IInv, TypeOK, RouteInv, SpanBounded, Route, Cycle
<1>1. ASSUME NEW t \in held[r]
      PROVE  /\ t \in Nat /\ t <= now /\ now < t + Cycle
             /\ f[t] \in span
             /\ t < since => f[t] = t + Cycle
             /\ ~(t < since) => f[t] = t
  BY <1>0 DEF HistoryHeldInv, HoldInv, Cycle
<1> HIDE DEF f, since
<1>2. ASSUME NEW t \in held[r], NEW u \in held[r], f[t] = f[u] PROVE t = u
  BY <1>0, <1>1, <1>2
<1>3. f \in Injection(held[r], span)
  <2>1. f \in [held[r] -> span]
    BY <1>1 DEF f
  <2> QED BY <1>2, <2>1 DEF Injection, IsInjective
<1>4. IsFiniteSet(span) /\ Cardinality(span) = MaxOracleProtection
  BY <1>0, FS_Interval
<1>5. Cardinality(held[r]) <= Cardinality(span)
  BY <1>3, <1>4, FS_Injection
<1> QED BY <1>4, <1>5

\* However it refreshes, the oracle alone holds a route for at most
\* MAX_ORACLE_PROTECTION out of any cycle.
THEOREM HoldsAreBounded == HSpec => []HoldBounded
<1>1. HInit => HistoryHeldInv
  BY InitInv DEF HInit, HistoryHeldInv, HoldInv
<1> QED BY <1>1, HeldNext, HeldMeaning, PTL DEF HSpec

-----------------------------------------------------------------------------
(* One tenure of the oracle.  A review lasts MAX_REVIEW_TTL at most and a  *)
(* new oracle takes ORACLE_ROTATION_DELAY at least, counted from after the *)
(* oracle that signed the review was removed: removal by disableOracle or  *)
(* by acceptOracle leaves no pending rotation behind.                      *)

TenureOf(m) ==
    LET r == releases[m]
    IN  /\ r.reviewedUntil <= now + MaxReviewTtl
        /\ r.state = "VERIFIED" => r.reviewer # NoAddress
        /\ r.reviewer # NoAddress /\ ~outlived[m] => r.reviewer = oracle
        /\ r.reviewer # NoAddress /\ outlived[m] =>
             /\ r.reviewer # oracle \/ now > r.reviewedUntil
             /\ pendingOracle # NoAddress => pendingOracleAt > r.reviewedUntil

TenureInv ==
    /\ VInv
    /\ outlived \in [Messages -> BOOLEAN]
    /\ \A m \in Messages : TenureOf(m)

\* What a step of the guardian can do to the oracle.
LEMMA OracleStep ==
  ASSUME TypeOK, [Next]_vars
  PROVE  \/ UNCHANGED oracleVars
         \/ /\ now' = now /\ pendingOracle' = NoAddress
            /\ \/ oracle' \in {oracle, NoAddress}
               \/ oracle' = pendingOracle /\ pendingOracle # NoAddress /\ now >= pendingOracleAt
         \/ /\ now' = now /\ oracle' = oracle /\ pendingOracleAt' = now + OracleRotationDelay
            /\ \E next \in Candidates : proposeOracle(next)
<1>1. CASE Tick \/ UNCHANGED vars
  BY <1>1 DEF Tick, guardianVars, vars
<1>2. CASE OracleAction
  BY <1>2 DEF OracleAction, submitAttestation
<1>3. ASSUME NEW r \in Routes, NEW cap \in Caps, NEW window \in Windows,
             configureRoute(r, cap, window)
      PROVE  UNCHANGED oracleVars
  BY <1>3 DEF configureRoute
<1>4. ASSUME NEW r \in Routes, rearmProtection(r) \/ resume(r) PROVE UNCHANGED oracleVars
  BY <1>4 DEF rearmProtection, resume
<1>5. ASSUME NEW r \in Routes, NEW caller \in Callers, NEW allowed \in BOOLEAN,
             setProtected(caller, r, allowed)
      PROVE  UNCHANGED oracleVars
  BY <1>5 DEF setProtected
<1>6. ASSUME disableOracle \/ cancelOracleRotation
      PROVE  now' = now /\ pendingOracle' = NoAddress /\ oracle' \in {oracle, NoAddress}
  BY <1>6 DEF disableOracle, cancelOracleRotation
<1>7. ASSUME acceptOracle
      PROVE  /\ now' = now /\ pendingOracle' = NoAddress
             /\ oracle' = pendingOracle /\ pendingOracle # NoAddress /\ now >= pendingOracleAt
  BY <1>7 DEF acceptOracle
<1>8. ASSUME NEW next \in Candidates, proposeOracle(next)
      PROVE  /\ now' = now /\ oracle' = oracle /\ pendingOracleAt' = now + OracleRotationDelay
             /\ \E proposed \in Candidates : proposeOracle(proposed)
  <2>1. now' = now /\ oracle' = oracle /\ pendingOracleAt' = now + OracleRotationDelay
    BY <1>8 DEF proposeOracle
  <2> QED BY <1>8, <2>1
<1>9. ASSUME NEW caller \in Callers, NEW r \in Routes, NEW amount \in Amounts,
             onTokenOutflow(caller, r, amount)
      PROVE  UNCHANGED oracleVars
  BY <1>9 DEF onTokenOutflow
<1> QED
  BY <1>1, <1>2, <1>3, <1>4, <1>5, <1>6, <1>7, <1>8, <1>9
  DEF Next, OwnerAction, OutflowAction

\* Nothing has been reviewed at first.
LEMMA TenureInit == VHInit => TenureInv
  BY VInitInv, VaultAssumption, ClockAssumption
  DEF VHInit, VInit, Init, VaultInit, TenureInv, TenureOf, NewRelease

\* A step of the guardian alone.
LEMMA TenureGuardianStep ==
  ASSUME TenureInv, VInv', [Next]_vars, UNCHANGED vaultVars, RecordHistory
  PROVE  TenureInv'
<1> USE VaultAssumption, DurationAssumption, RotationOutlastsReviews
<1>0. /\ TypeOK /\ now \in Nat /\ now' \in Nat /\ now' >= now
      /\ pendingOracleAt \in Nat /\ pendingOracleAt' \in Nat
      /\ releases' = releases /\ releases \in [Messages -> Release]
  BY ClockMonotone DEF TenureInv, VInv, VaultTypeOK, TypeOK, vaultVars
<1>1. /\ outlived' \in [Messages -> BOOLEAN]
      /\ \A m \in Messages : outlived'[m] <=> (outlived[m] \/ oracle' # oracle)
  BY <1>0 DEF RecordHistory, Reviewed, TenureInv
<1>2. ASSUME NEW m \in Messages PROVE TenureOf(m)'
  <2>1. TenureOf(m) /\ releases[m].reviewedUntil \in Nat
    BY <1>0 DEF TenureInv, Release
  <2>2. CASE UNCHANGED oracleVars
    BY <1>0, <1>1, <2>1, <2>2 DEF TenureOf, oracleVars
  <2>3. CASE /\ now' = now /\ pendingOracle' = NoAddress
             /\ \/ oracle' \in {oracle, NoAddress}
                \/ oracle' = pendingOracle /\ pendingOracle # NoAddress /\ now >= pendingOracleAt
    BY <1>0, <1>1, <2>1, <2>3 DEF TenureOf
  <2>4. CASE now' = now /\ oracle' = oracle /\ pendingOracleAt' = now + OracleRotationDelay
    BY <1>0, <1>1, <2>1, <2>4 DEF TenureOf
  <2> QED BY <1>0, <2>2, <2>3, <2>4, OracleStep
<1> QED BY <1>1, <1>2 DEF TenureInv

\* TenureInv is inductive.
LEMMA TenureNext == TenureInv /\ [VHNext]_vhvars => TenureInv'
<1> SUFFICES ASSUME TenureInv, [VHNext]_vhvars PROVE TenureInv'
  OBVIOUS
<1> USE VaultAssumption
<1>0. /\ VInv' /\ VaultTypeOK /\ now \in Nat /\ releases \in [Messages -> Release]
      /\ outlived \in [Messages -> BOOLEAN] /\ \A m \in Messages : TenureOf(m)
  BY VNextInv DEF TenureInv, VInv, VaultTypeOK, TypeOK, VHNext, vhvars
<1>1. CASE UNCHANGED vhvars
  BY <1>0, <1>1 DEF vhvars, vvars, vars, vaultVars, guardianVars, oracleVars, vaultHistoryVars,
     TenureInv, TenureOf
<1>2. CASE (GuardianStep \/ Tick) /\ UNCHANGED vaultVars /\ RecordHistory
  BY <1>0, <1>2, TenureGuardianStep, VaultStepIsGuardianStep DEF VNext, TenureInv
\* The vault's own steps touch neither clock nor oracle.
<1>3. ASSUME NEW m \in Messages, NEW new, RecordHistory,
             releases' = [releases EXCEPT ![m] = new],
             UNCHANGED <<now, oracleVars>>,
             TenureOf(m)'
      PROVE  TenureInv'
  <2>1. outlived' \in [Messages -> BOOLEAN]
    BY <1>0, <1>3 DEF RecordHistory
  <2>2. ASSUME NEW q \in Messages, q # m PROVE TenureOf(q)'
    BY <1>0, <1>3, <2>2 DEF RecordHistory, Reviewed, TenureOf, oracleVars
  <2> QED BY <1>0, <1>3, <2>1, <2>2 DEF TenureInv
<1>4. ASSUME NEW m \in Messages, NEW to \in Recipients, NEW amount \in Payouts,
             requestRelease(m, to, amount), RecordHistory
      PROVE  TenureInv'
  <2>1. TenureOf(m)'
    BY <1>0, <1>4 DEF requestRelease, RecordRequest, NewRelease, TenureOf, vars
  <2> QED BY <1>3, <1>4, <2>1 DEF requestRelease, RecordRequest, vars, guardianVars
<1>5. ASSUME NEW m \in Messages, NEW decision \in ReviewDecisions, NEW tier \in ReviewTiers,
             NEW nonce \in ReviewNonces, NEW signer \in Keys,
             NEW validUntil \in now .. now + MaxReviewTtl,
             reviewRelease(m, decision, tier, validUntil, nonce, signer), RecordHistory
      PROVE  TenureInv'
  <2> DEFINE new == ReviewedRelease(m, decision, tier, validUntil, nonce, signer)
  <2>1. /\ new.reviewedUntil = validUntil /\ new.reviewer = signer /\ new.reviewNonce = nonce
        /\ validUntil \in Nat
    BY <1>0, ReviewedType
  <2>2. /\ releases' = [releases EXCEPT ![m] = new] /\ UNCHANGED <<now, oracleVars>>
        /\ signer = oracle /\ nonce > releases[m].reviewNonce
    BY <1>5 DEF reviewRelease, RecordReview, NextNonce, vars, guardianVars
  <2> HIDE DEF new
  <2>3. releases'[m] = new /\ releases[m].reviewNonce \in Nat
    BY <1>0, <2>2 DEF Release, ReviewNonces
  <2>a. Reviewed(m)
    BY <2>1, <2>2, <2>3 DEF Reviewed, ReviewNonces
  <2>4. ~outlived'[m]
    BY <1>5, <2>a DEF RecordHistory
  <2>5. TenureOf(m)'
    BY <1>0, <2>1, <2>2, <2>3, <2>4, DataAssumption DEF TenureOf, oracleVars
  <2> QED BY <1>3, <1>5, <2>2, <2>5
<1>6. ASSUME NEW m \in Messages, executeRelease(m), RecordHistory
      PROVE  TenureInv'
  <2> DEFINE new == [releases[m] EXCEPT !.state = "EXECUTED"]
  <2>1. /\ new.reviewedUntil = releases[m].reviewedUntil /\ new.reviewer = releases[m].reviewer
        /\ new.reviewNonce = releases[m].reviewNonce /\ new.state = "EXECUTED"
    BY <1>0 DEF Release
  <2>2. releases' = [releases EXCEPT ![m] = new] /\ UNCHANGED <<now, oracleVars>>
    BY <1>6 DEF executeRelease, onTokenOutflow
  <2> HIDE DEF new
  <2>3. releases'[m] = new /\ (outlived'[m] <=> outlived[m])
    BY <1>0, <1>6, <2>1, <2>2 DEF RecordHistory, Reviewed, oracleVars
  <2>4. TenureOf(m)'
    BY <1>0, <2>1, <2>2, <2>3 DEF TenureOf, oracleVars
  <2> QED BY <1>3, <1>6, <2>2, <2>4
<1> QED
  BY <1>1, <1>2, <1>4, <1>5, <1>6
  DEF VHNext, VNext, RequestAction, ReviewAction, ExecuteAction

\* A payout needs a review in force, which an outlived review never is.
LEMMA TenureMeaning ==
  TenureInv /\ [VHNext]_vhvars
    => [\A m \in Messages : Executes(m) => ~outlived[m]]_vhvars
<1> SUFFICES ASSUME TenureInv, VHNext, NEW m \in Messages, Executes(m), outlived[m]
             PROVE  FALSE
  OBVIOUS
<1>0. /\ releases \in [Messages -> Release] /\ TenureOf(m) /\ now \in Nat
      /\ releases[m].state # "EXECUTED" /\ releases'[m].state = "EXECUTED"
  BY DEF TenureInv, VInv, VaultTypeOK, TypeOK, Executes
<1>1. ~UNCHANGED vaultVars
  BY <1>0 DEF vaultVars
<1>2. ASSUME NEW q \in Messages, NEW to \in Recipients, NEW amount \in Payouts,
             requestRelease(q, to, amount)
      PROVE  FALSE
  BY <1>0, <1>2 DEF requestRelease, RecordRequest, NewRelease
<1>3. ASSUME NEW q \in Messages, NEW decision \in ReviewDecisions, NEW tier \in ReviewTiers,
             NEW nonce \in ReviewNonces, NEW signer \in Keys,
             NEW validUntil \in now .. now + MaxReviewTtl,
             reviewRelease(q, decision, tier, validUntil, nonce, signer)
      PROVE  FALSE
  <2> DEFINE new == ReviewedRelease(q, decision, tier, validUntil, nonce, signer)
  <2>1. new.state = StateAfter(decision) /\ VaultTypeOK
    BY <1>0, VaultAssumption, ReviewedType DEF TenureInv, VInv
  <2>2. StateAfter(decision) # "EXECUTED"
    BY DEF StateAfter, ReviewDecisions
  <2>3. releases' = [releases EXCEPT ![q] = new]
    BY <1>3 DEF reviewRelease, RecordReview
  <2> HIDE DEF new
  <2> QED BY <1>0, <2>1, <2>2, <2>3
<1>4. ASSUME NEW q \in Messages, executeRelease(q) PROVE FALSE
  <2>1. q = m
    BY <1>0, <1>4 DEF executeRelease
  <2> QED BY <1>0, <1>4, <2>1 DEF executeRelease, Executable, ReviewInForce, TenureOf, Release
<1> QED
  BY <1>1, <1>2, <1>3, <1>4 DEF VHNext, VNext, RequestAction, ReviewAction, ExecuteAction

\* No payout ever rests on a review of an earlier tenure of the oracle, for any
\* interleaving of rotation, kill switch, reviews and payouts.
THEOREM OneTenure == VHSpec => PaidUnderOneTenure
  BY TenureInit, TenureNext, TenureMeaning, PTL DEF VHSpec, PaidUnderOneTenure

-----------------------------------------------------------------------------
(* What the history variables record: the owner's notice stands behind a   *)
(* pending rotation, the newest review is the one the release carries      *)
(* until it is paid, and its clock started at the first delayed ALLOW.     *)

NoticeInv ==
    pendingOracle # NoAddress =>
        notice.who = pendingOracle /\ pendingOracleAt = notice.at + OracleRotationDelay

RecordOf(m) ==
    /\ ~Requested(m) => releases[m].state = "PENDING" /\ releases[m].reviewNonce = 0
    /\ releases[m].state # "EXECUTED" =>
         newest[m] = [nonce |-> releases[m].reviewNonce, state |-> releases[m].state]
    /\ heldSince[m] \in Nat
    /\ releaseDelayUntil[m] = 0 <=> heldSince[m] = 0
    /\ heldSince[m] # 0 => releaseDelayUntil[m] = heldSince[m] + DelayWindow

RecordInv ==
    /\ VInv
    /\ now # 0
    /\ newest \in [Messages -> [nonce : ReviewNonces, state : ReleaseStates]]
    /\ heldSince \in [Messages -> Nat]
    /\ \A m \in Messages : RecordOf(m)

\* The notice and a pending rotation go together.
LEMMA NoticeNext == VInv /\ NoticeInv /\ [VHNext]_vhvars => NoticeInv'
<1> SUFFICES ASSUME VInv, NoticeInv, [VHNext]_vhvars, pendingOracle' # NoAddress
             PROVE  notice'.who = pendingOracle' /\ pendingOracleAt' = notice'.at + OracleRotationDelay
  BY DEF NoticeInv
<1>0. TypeOK /\ [Next]_vars
  BY VaultStepIsGuardianStep DEF VInv, VaultTypeOK, VHNext, vhvars
<1>1. CASE UNCHANGED vhvars
  BY <1>1 DEF NoticeInv, vhvars, vvars, vars, guardianVars, oracleVars, vaultHistoryVars
<1>2. CASE RecordNotice
  <2>1. ~(disableOracle \/ cancelOracleRotation)
    BY DEF disableOracle, cancelOracleRotation
  <2>2. CASE \E next \in Candidates : proposeOracle(next)
    <3>1. notice' = [who |-> pendingOracle', at |-> now]
      BY <1>2, <2>1, <2>2 DEF RecordNotice
    <3>2. pendingOracleAt' = now + OracleRotationDelay
      BY <2>2 DEF proposeOracle
    <3> QED BY <3>1, <3>2
  <2>3. CASE ~\E next \in Candidates : proposeOracle(next)
    <3>1. notice' = notice
      BY <1>2, <2>1, <2>3 DEF RecordNotice
    <3>2. UNCHANGED oracleVars
      BY <1>0, <2>3, OracleStep
    <3> QED BY <3>1, <3>2 DEF NoticeInv, oracleVars
  <2> QED BY <2>2, <2>3
<1> QED BY <1>1, <1>2 DEF VHNext

\* Installing an oracle is accepting the pending one once it matured.
LEMMA NoticeMeaning ==
  VInv /\ NoticeInv /\ [VHNext]_vhvars
    => [oracle' \notin {oracle, NoAddress} =>
          notice.who = oracle' /\ notice.at + OracleRotationDelay <= now]_vhvars
<1> SUFFICES ASSUME VInv, NoticeInv, VHNext, oracle' \notin {oracle, NoAddress}
             PROVE  notice.who = oracle' /\ notice.at + OracleRotationDelay <= now
  OBVIOUS
<1>1. TypeOK /\ [Next]_vars
  BY VaultStepIsGuardianStep DEF VInv, VaultTypeOK, VHNext
<1>2. oracle' = pendingOracle /\ pendingOracle # NoAddress /\ now >= pendingOracleAt
  BY <1>1, OracleStep DEF oracleVars
<1> QED BY <1>2 DEF NoticeInv

\* Nothing is recorded at first.
LEMMA RecordInit == VHInit => RecordInv /\ NoticeInv
  BY VInitInv, VaultAssumption, ClockAssumption
  DEF VHInit, VInit, Init, VaultInit, RecordInv, RecordOf, NoticeInv, NewRelease, Requested,
      ReviewNonces, ReleaseStates

\* RecordInv is inductive.
LEMMA RecordNext == RecordInv /\ [VHNext]_vhvars => RecordInv'
<1> SUFFICES ASSUME RecordInv, [VHNext]_vhvars PROVE RecordInv'
  OBVIOUS
<1> USE VaultAssumption
<1>0. /\ VInv' /\ VaultTypeOK /\ now \in Nat /\ now' \in Nat /\ now' # 0
      /\ releases \in [Messages -> Release] /\ releaseDelayUntil \in [Messages -> Nat]
      /\ newest \in [Messages -> [nonce : ReviewNonces, state : ReleaseStates]]
      /\ heldSince \in [Messages -> Nat]
      /\ \A m \in Messages : RecordOf(m)
  BY VNextInv, VaultStepIsGuardianStep, ClockMonotone
  DEF RecordInv, VInv, VaultTypeOK, TypeOK, VHNext, vhvars
<1>1. CASE UNCHANGED <<vaultVars, vaultHistoryVars>>
  BY <1>0, <1>1 DEF RecordInv, RecordOf, Requested, vaultVars, vaultHistoryVars
<1>2. CASE UNCHANGED vaultVars /\ RecordHistory
  <2>1. ASSUME NEW m \in Messages PROVE ~Reviewed(m)
    BY <1>2 DEF Reviewed, vaultVars
  <2>2. newest' = newest /\ heldSince' = heldSince
    BY <1>0, <1>2, <2>1 DEF RecordHistory
  <2> QED BY <1>0, <1>2, <2>2 DEF RecordInv, RecordOf, Requested, vaultVars
\* A step of the vault itself writes one release.
<1>3. ASSUME NEW m \in Messages, NEW new \in Release, RecordHistory,
             releases' = [releases EXCEPT ![m] = new],
             new.reviewNonce = releases[m].reviewNonce,
             UNCHANGED releaseDelayUntil,
             new.to # NoAddress,
             new.state # "EXECUTED" => new.state = releases[m].state /\ releases[m].state # "EXECUTED"
      PROVE  RecordInv'
  <2>1. ASSUME NEW q \in Messages PROVE ~Reviewed(q)
    BY <1>0, <1>3 DEF Reviewed
  <2>2. newest' = newest /\ heldSince' = heldSince
    BY <1>0, <1>3, <2>1 DEF RecordHistory
  <2>3. ASSUME NEW q \in Messages PROVE RecordOf(q)'
    BY <1>0, <1>3, <2>2 DEF RecordOf, Requested
  <2> QED BY <1>0, <2>2, <2>3 DEF RecordInv
<1>4. ASSUME NEW m \in Messages, NEW to \in Recipients, NEW amount \in Payouts,
             requestRelease(m, to, amount), RecordHistory
      PROVE  RecordInv'
  <2> DEFINE new == NewRelease(to, amount)
  <2>1. /\ new \in Release /\ new.reviewNonce = 0 /\ new.to = to /\ new.state = "PENDING"
        /\ to # NoAddress
    BY <1>4 DEF NewRelease, Release, ReleaseStates, ReviewNonces, Tiers, NONE, FREEZE
  <2>2. /\ releases' = [releases EXCEPT ![m] = new] /\ UNCHANGED releaseDelayUntil
        /\ ~Requested(m)
    BY <1>4 DEF requestRelease, RecordRequest
  <2> HIDE DEF new
  <2>3. releases[m].state = "PENDING" /\ releases[m].reviewNonce = 0
    BY <1>0, <2>2 DEF RecordOf
  <2> QED BY <1>3, <1>4, <2>1, <2>2, <2>3
<1>5. ASSUME NEW m \in Messages, executeRelease(m), RecordHistory
      PROVE  RecordInv'
  <2> DEFINE new == [releases[m] EXCEPT !.state = "EXECUTED"]
  <2>1. /\ new \in Release /\ new.reviewNonce = releases[m].reviewNonce
        /\ new.to = releases[m].to /\ new.state = "EXECUTED"
    BY <1>0 DEF Release, ReleaseStates
  <2>2. /\ releases' = [releases EXCEPT ![m] = new] /\ UNCHANGED releaseDelayUntil
        /\ releases[m].to # NoAddress
    BY <1>5 DEF executeRelease, Executable, Requested
  <2> HIDE DEF new
  <2> QED BY <1>3, <1>5, <2>1, <2>2
<1>6. ASSUME NEW m \in Messages, NEW decision \in ReviewDecisions, NEW tier \in ReviewTiers,
             NEW nonce \in ReviewNonces, NEW signer \in Keys,
             NEW validUntil \in now .. now + MaxReviewTtl,
             reviewRelease(m, decision, tier, validUntil, nonce, signer), RecordHistory
      PROVE  RecordInv'
  <2> DEFINE new == ReviewedRelease(m, decision, tier, validUntil, nonce, signer)
             delay == outflowDelay(VaultRoute, releases[m].amount)
  <2>1. /\ new \in Release /\ new.state = StateAfter(decision) /\ new.reviewNonce = nonce
        /\ new.to = releases[m].to /\ validUntil \in Nat
    BY <1>0, ReviewedType
  <2>2. /\ releases' = [releases EXCEPT ![m] = new]
        /\ nonce > releases[m].reviewNonce /\ releases[m].to # NoAddress
        /\ releases[m].state # "EXECUTED"
    BY <1>6 DEF reviewRelease, RecordReview, NextNonce, Requested
  <2>3. releaseDelayUntil' = [releaseDelayUntil EXCEPT ![m] =
           IF decision = "ALLOW" /\ releaseDelayUntil[m] = 0 /\ delay > 0
           THEN now + delay ELSE releaseDelayUntil[m]]
    BY <1>6 DEF reviewRelease, RecordReview, DelayClock
  <2>4. delay \in Nat /\ (delay > 0 => delay = DelayWindow)
    BY DurationAssumption DEF outflowDelay
  <2>5. /\ new.state = "VERIFIED" <=> decision = "ALLOW"
        /\ new.state \in ReleaseStates /\ new.state # "EXECUTED"
    BY <2>1 DEF StateAfter, ReviewDecisions, ReleaseStates
  <2> HIDE DEF new
  <2>6. releases'[m] = new /\ releases[m].reviewNonce \in Nat /\ nonce \in Nat
    BY <1>0, <2>2 DEF Release, ReviewNonces
  <2>7. Reviewed(m)
    BY <2>1, <2>2, <2>6 DEF Reviewed
  <2>8. newest[m].nonce = releases[m].reviewNonce
    BY <1>0, <2>2 DEF RecordOf
  <2>9. newest' = [newest EXCEPT ![m] = [nonce |-> nonce, state |-> new.state]]
    <3>1. ASSUME NEW q \in Messages, q # m PROVE ~Reviewed(q)
      BY <1>0, <2>2, <3>1 DEF Reviewed
    <3> QED BY <1>0, <1>6, <2>1, <2>2, <2>6, <2>7, <2>8, <3>1 DEF RecordHistory
  <2>a. heldSince' = [heldSince EXCEPT ![m] =
           IF decision = "ALLOW" /\ heldSince[m] = 0 /\ delay > 0 THEN now ELSE heldSince[m]]
    <3>1. ASSUME NEW q \in Messages, q # m PROVE ~Reviewed(q)
      BY <1>0, <2>2, <3>1 DEF Reviewed
    <3> QED BY <1>0, <1>6, <2>5, <2>6, <2>7, <3>1 DEF RecordHistory
  <2> HIDE DEF delay
  <2>b. RecordOf(m)'
    <3>1. /\ newest'[m] = [nonce |-> nonce, state |-> new.state]
          /\ releases'[m].to # NoAddress /\ releases'[m].reviewNonce = nonce
      BY <1>0, <2>1, <2>2, <2>6, <2>9
    <3>2. /\ heldSince[m] \in Nat /\ (releaseDelayUntil[m] = 0 <=> heldSince[m] = 0)
          /\ heldSince[m] # 0 => releaseDelayUntil[m] = heldSince[m] + DelayWindow
          /\ now # 0 /\ releaseDelayUntil[m] \in Nat
      BY <1>0 DEF RecordOf, RecordInv
    <3>3. /\ heldSince'[m] =
               IF decision = "ALLOW" /\ heldSince[m] = 0 /\ delay > 0 THEN now ELSE heldSince[m]
          /\ releaseDelayUntil'[m] =
               IF decision = "ALLOW" /\ releaseDelayUntil[m] = 0 /\ delay > 0
               THEN now + delay ELSE releaseDelayUntil[m]
      BY <1>0, <2>3, <2>a
    <3>4. CASE decision = "ALLOW" /\ heldSince[m] = 0 /\ delay > 0
      BY <1>0, <2>4, <2>6, <3>1, <3>2, <3>3, <3>4 DEF RecordOf, Requested
    <3>5. CASE ~(decision = "ALLOW" /\ heldSince[m] = 0 /\ delay > 0)
      <4>1. heldSince'[m] = heldSince[m] /\ releaseDelayUntil'[m] = releaseDelayUntil[m]
        BY <3>2, <3>3, <3>5
      <4> QED BY <2>6, <3>1, <3>2, <4>1 DEF RecordOf, Requested
    <3> QED BY <3>4, <3>5
  <2>c. ASSUME NEW q \in Messages, q # m PROVE RecordOf(q)'
    BY <1>0, <2>2, <2>3, <2>9, <2>a, <2>c DEF RecordOf, Requested
  <2> QED BY <1>0, <2>5, <2>9, <2>a, <2>b, <2>c DEF RecordInv
<1> QED
  BY <1>1, <1>2, <1>4, <1>5, <1>6
  DEF VHNext, VNext, RequestAction, ReviewAction, ExecuteAction, vhvars, vvars

\* A payout finds in the newest review, and in its clock, what it needs.
LEMMA RecordMeaning ==
  ASSUME RecordInv, VHNext, NEW m \in Messages, Executes(m)
  PROVE  /\ newest[m].state = "VERIFIED"
         /\ outflowDelay(VaultRoute, releases[m].amount) > 0
              => heldSince[m] # 0 /\ now >= heldSince[m] + DelayWindow
<1>0. /\ VaultTypeOK /\ releases \in [Messages -> Release] /\ RecordOf(m)
      /\ releases[m].state # "EXECUTED" /\ releases'[m].state = "EXECUTED"
  BY DEF RecordInv, VInv, VaultTypeOK, Executes
<1>1. executeRelease(m)
  <2>1. ~UNCHANGED vaultVars
    BY <1>0 DEF vaultVars
  <2>2. ASSUME NEW q \in Messages, NEW to \in Recipients, NEW amount \in Payouts,
               requestRelease(q, to, amount)
        PROVE  FALSE
    BY <1>0, <2>2 DEF requestRelease, RecordRequest, NewRelease
  <2>3. ASSUME NEW q \in Messages, NEW decision \in ReviewDecisions, NEW tier \in ReviewTiers,
               NEW nonce \in ReviewNonces, NEW signer \in Keys,
               NEW validUntil \in now .. now + MaxReviewTtl,
               reviewRelease(q, decision, tier, validUntil, nonce, signer)
        PROVE  FALSE
    <3> DEFINE new == ReviewedRelease(q, decision, tier, validUntil, nonce, signer)
    <3>1. new.state = StateAfter(decision)
      BY <1>0, VaultAssumption, ReviewedType DEF RecordInv, VInv, VaultTypeOK, TypeOK
    <3>2. StateAfter(decision) # "EXECUTED"
      BY DEF StateAfter, ReviewDecisions
    <3>3. releases' = [releases EXCEPT ![q] = new]
      BY <2>3 DEF reviewRelease, RecordReview
    <3> HIDE DEF new
    <3> QED BY <1>0, <3>1, <3>2, <3>3
  <2>4. ASSUME NEW q \in Messages, executeRelease(q) PROVE q = m
    BY <1>0, <2>4 DEF executeRelease
  <2> QED BY <2>1, <2>2, <2>3, <2>4 DEF VHNext, VNext, RequestAction, ReviewAction, ExecuteAction
<1>2. releases[m].state = "VERIFIED" /\ DelayServed(m)
  BY <1>1 DEF executeRelease, Executable, ReviewInForce
<1>3. newest[m].state = "VERIFIED"
  BY <1>0, <1>2 DEF RecordOf
<1>4. outflowDelay(VaultRoute, releases[m].amount) > 0
        => heldSince[m] # 0 /\ now >= heldSince[m] + DelayWindow
  BY <1>0, <1>2 DEF RecordOf, DelayServed
<1> QED BY <1>3, <1>4

-----------------------------------------------------------------------------
\* An oracle is installed only on the owner's standing proposal of that very
\* address, ORACLE_ROTATION_DELAY after it, whatever else happened in between.
THEOREM OracleInstalledOnNotice == VHSpec => OracleHadNotice
<1>1. VHInit => VInv /\ NoticeInv
  BY RecordInit DEF RecordInv
<1>2. VInv /\ [VHNext]_vhvars => VInv'
  BY VNextInv DEF VHNext, vhvars
<1> QED BY <1>1, <1>2, NoticeNext, NoticeMeaning, PTL DEF VHSpec, OracleHadNotice

\* In whatever order reviews arrive, a payout rests on the newest accepted.
THEOREM NewestReviewPays == VHSpec => NewestReviewDecides
<1>1. RecordInv /\ [VHNext]_vhvars
        => [\A m \in Messages : Executes(m) => newest[m].state = "VERIFIED"]_vhvars
  BY RecordMeaning
<1> QED BY <1>1, RecordInit, RecordNext, PTL DEF VHSpec, NewestReviewDecides

\* A payout that the guardian wants delayed has waited DELAY_WINDOW.
THEOREM DelayedPayoutsWait == VHSpec => DelayedPayoutWaited
<1>1. RecordInv /\ [VHNext]_vhvars
        => [\A m \in Messages :
              Executes(m) /\ outflowDelay(VaultRoute, releases[m].amount) > 0
                => heldSince[m] # 0 /\ now >= heldSince[m] + DelayWindow]_vhvars
  BY RecordMeaning
<1> QED BY <1>1, RecordInit, RecordNext, PTL DEF VHSpec, DelayedPayoutWaited
=============================================================================
