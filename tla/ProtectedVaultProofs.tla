------------------------ MODULE ProtectedVaultProofs ------------------------
(***************************************************************************)
(* The guardian and the vault it protects, for any routes, keys,           *)
(* durations, caps and horizon.                                            *)
(*                                                                         *)
(* First the guardian alone: its type invariant, the coupling of its       *)
(* clocks, and that nothing but the owner ever loosens a route.  Then      *)
(* ProtectedVault composed with it: the vault is one more caller of the    *)
(* guardian, so everything proved of the guardian holds of the             *)
(* composition; and a rejected release rests.                              *)
(***************************************************************************)
EXTENDS ProtectedVault, TLAPS

-----------------------------------------------------------------------------
(* The strengthening.  Each conjunct is about one route.                   *)

\* A live pause is a FREEZE that lasts at least as long.
PauseCoupled(r) ==
    routes[r].pausedUntil > now =>
        routes[r].tier = FREEZE /\ routes[r].tierExpiresAt >= routes[r].pausedUntil

\* No tier outlives its span, nor the longest pause one attestation can set.
SpanBounded(r) ==
    /\ routes[r].tierExpiresAt <= routes[r].protectionSince + MaxOracleProtection
    /\ routes[r].tierExpiresAt <= now + PauseDuration
    /\ routes[r].protectionSince <= now

\* A route nobody configured has never been attested against.
FreshIfUnconfigured(r) ==
    ~Configured(r) => routes[r].tierExpiresAt = 0 /\ routes[r].pausedUntil = 0

\* No bucket was last written in the future.
RingPast(r) == \A b \in Buckets : ring[r][b].lastOutflow <= now

RouteInv(r) ==
    PauseCoupled(r) /\ SpanBounded(r) /\ FreshIfUnconfigured(r) /\ RingPast(r)

IInv == TypeOK /\ \A r \in Routes : RouteInv(r)

-----------------------------------------------------------------------------
(* Type correctness.                                                       *)

\* The constructor leaves a well-typed guardian.
LEMMA InitType == Init => TypeOK
  BY DurationAssumption, ClockAssumption, DataAssumption
  DEF Init, TypeOK, Route, Bucket, NewRoute, Tiers, NONE, FREEZE, Buckets

\* What an accepted attestation writes is a Route.
LEMMA TightenedType ==
  ASSUME TypeOK, NEW r \in Routes, NEW incoming \in Tiers,
         NEW until, until = Earlier(now + PauseDuration, protectionLimit(r))
  PROVE  until \in Nat /\ TightenedRoute(r, incoming, until) \in Route
<1>0. routes[r] \in Route /\ now \in Nat
  BY DEF TypeOK
<1>1. until \in Nat
  BY <1>0, DurationAssumption DEF Earlier, protectionLimit, Route
<1>2. now + DelayWindow \in Nat
  BY <1>0, DurationAssumption
<1>3. TightenedRoute(r, incoming, until) \in Route
  BY <1>0, <1>1, <1>2 DEF TightenedRoute, Route
<1> QED BY <1>1, <1>3

\* Every score means a tier.
LEMMA TierOfScoreType == ASSUME NEW score \in Nat PROVE TierOfScore(score) \in Tiers
  BY DEF TierOfScore, Tiers, NONE, THROTTLE, DELAY, FREEZE, FreezeThreshold, DelayThreshold

\* Recording an outflow keeps the ring a ring.
LEMMA RecordedType ==
  ASSUME TypeOK, NEW r \in Routes, NEW amount \in Amounts
  PROVE  RecordOutflow(r, amount) \in [Routes -> [Buckets -> Bucket]]
<1> DEFINE b == CurrentBucket(r)
           kept == IF ring[r][b].lastOutflow + routes[r].windowSeconds <= now
                   THEN 0 ELSE ring[r][b].amount
           entry == [amount |-> kept + amount, lastOutflow |-> now]
<1>1. amount \in Nat /\ now \in Nat /\ ring \in [Routes -> [Buckets -> Bucket]]
  BY DataAssumption DEF TypeOK
<1>2. b \in Buckets => entry \in Bucket
  BY <1>1 DEF Bucket
<1>3. [ring[r] EXCEPT ![b] = entry] \in [Buckets -> Bucket]
  <2> HIDE DEF b, entry
  <2> QED BY <1>1, <1>2
<1>4. RecordOutflow(r, amount) = [ring EXCEPT ![r] = [ring[r] EXCEPT ![b] = entry]]
  BY DEF RecordOutflow
<1> QED BY <1>1, <1>3, <1>4

\* Every step leaves a well-typed guardian.
LEMMA NextType == TypeOK /\ [Next]_vars => TypeOK'
<1> SUFFICES ASSUME TypeOK, [Next]_vars PROVE TypeOK'
  OBVIOUS
<1> USE DurationAssumption, ClockAssumption, DataAssumption
<1>1. ASSUME NEW r \in Routes, NEW cap \in Caps, NEW window \in Windows,
             configureRoute(r, cap, window)
      PROVE  TypeOK'
  BY <1>1 DEF TypeOK, configureRoute, Route, oracleVars
<1>2. ASSUME NEW r \in Routes, NEW caller \in Callers, NEW allowed \in BOOLEAN,
             setProtected(caller, r, allowed)
      PROVE  TypeOK'
  BY <1>2 DEF TypeOK, setProtected, oracleVars
<1>3. ASSUME NEW r \in Routes, rearmProtection(r) PROVE TypeOK'
  BY <1>3 DEF TypeOK, rearmProtection, Route, oracleVars
<1>4. ASSUME NEW r \in Routes, resume(r) PROVE TypeOK'
  <2> DEFINE cleared == [routes[r] EXCEPT !.pausedUntil = 0, !.tier = NONE,
                           !.tierExpiresAt = 0, !.delayUntil = 0,
                           !.delayedOutflow = 0, !.protectionSince = 0]
  <2>1. routes[r] \in Route /\ NONE \in Tiers
    BY DEF TypeOK, Tiers, NONE, FREEZE
  <2>2. cleared \in Route
    BY <2>1 DEF Route
  <2>3. routes' = [routes EXCEPT ![r] = cleared]
    BY <1>4 DEF resume
  <2>4. routes' \in [Routes -> Route]
    BY <2>2, <2>3 DEF TypeOK
  <2> QED BY <1>4, <2>4 DEF TypeOK, resume, oracleVars
<1>5. CASE disableOracle
  BY <1>5 DEF TypeOK, disableOracle
<1>6. ASSUME NEW next \in Candidates, proposeOracle(next) PROVE TypeOK'
  BY <1>6 DEF TypeOK, proposeOracle
<1>7. CASE cancelOracleRotation
  BY <1>7 DEF TypeOK, cancelOracleRotation
<1>8. CASE acceptOracle
  BY <1>8 DEF TypeOK, acceptOracle
<1>9. ASSUME NEW r \in Routes, NEW score \in Scores, NEW nonce \in Nonces, NEW signer \in Keys,
             NEW validUntil, submitAttestation(r, score, validUntil, nonce, signer)
      PROVE  TypeOK'
  <2> DEFINE incoming == TierOfScore(score)
             until == Earlier(now + PauseDuration, protectionLimit(r))
  <2>1. incoming \in Tiers
    BY TierOfScoreType
  <2>2. until \in Nat /\ TightenedRoute(r, incoming, until) \in Route
    BY <2>1, TightenedType
  <2>3. routes' \in [Routes -> Route]
    BY <1>9, <2>2 DEF submitAttestation, TypeOK
  <2> QED BY <1>9, <2>3 DEF submitAttestation, TypeOK, oracleVars
<1>10. ASSUME NEW caller \in Callers, NEW r \in Routes, NEW amount \in Amounts,
              onTokenOutflow(caller, r, amount)
       PROVE  TypeOK'
  <2>1. routes' \in [Routes -> Route]
    BY <1>10 DEF onTokenOutflow, TypeOK, Route
  <2>2. ring' \in [Routes -> [Buckets -> Bucket]]
    BY <1>10, RecordedType DEF onTokenOutflow
  <2> QED BY <1>10, <2>1, <2>2 DEF onTokenOutflow, TypeOK, oracleVars
<1>11. CASE Tick
  BY <1>11 DEF TypeOK, Tick, guardianVars, oracleVars
<1>12. CASE UNCHANGED vars
  BY <1>12 DEF TypeOK, vars, guardianVars, oracleVars
<1> QED
  BY <1>1, <1>2, <1>3, <1>4, <1>5, <1>6, <1>7, <1>8, <1>9, <1>10, <1>11, <1>12
  DEF Next, OwnerAction, OracleAction, OutflowAction

\* The state is always well typed, whatever the calls.
THEOREM TypeCorrect == Spec => []TypeOK
  BY InitType, NextType, PTL DEF Spec

-----------------------------------------------------------------------------
(* The inductive invariant.                                                *)

\* Unconfigured routes are fresh.
LEMMA InitInv == Init => IInv
<1> SUFFICES ASSUME Init PROVE IInv
  OBVIOUS
<1> USE DurationAssumption, ClockAssumption
<1>1. TypeOK
  BY InitType
<1>2. ASSUME NEW r \in Routes PROVE RouteInv(r)
  BY <1>2, <1>1
  DEF Init, RouteInv, PauseCoupled, SpanBounded, FreshIfUnconfigured, RingPast,
      Configured, NewRoute, TypeOK
<1> QED BY <1>1, <1>2 DEF IInv

\* A step that leaves the routes and the ring alone keeps the invariant, and
\* so does the passing of time: every bound on a clock only gets slacker.
LEMMA QuietStep ==
  ASSUME IInv, TypeOK', UNCHANGED <<routes, ring>>, now' >= now
  PROVE  IInv'
<1> SUFFICES ASSUME NEW r \in Routes PROVE RouteInv(r)'
  BY DEF IInv
<1>1. RouteInv(r) /\ routes[r] \in Route /\ now \in Nat /\ now' \in Nat
      /\ \A b \in Buckets : ring[r][b] \in Bucket
  BY DEF IInv, TypeOK
<1> QED
  BY <1>1, DurationAssumption
  DEF RouteInv, PauseCoupled, SpanBounded, FreshIfUnconfigured, RingPast, Configured,
      Route, Bucket

\* A step that changes the record of one route keeps the invariant if the new
\* record is as coupled and bounded as the old.
LEMMA RouteStep ==
  ASSUME IInv, TypeOK', NEW r \in Routes, NEW new,
         routes' = [routes EXCEPT ![r] = new], UNCHANGED <<now, ring>>,
         new.pausedUntil > now =>
            new.tier = FREEZE /\ new.tierExpiresAt >= new.pausedUntil,
         new.tierExpiresAt <= new.protectionSince + MaxOracleProtection,
         new.tierExpiresAt <= now + PauseDuration,
         new.protectionSince <= now,
         new.windowSeconds = 0 => new.tierExpiresAt = 0 /\ new.pausedUntil = 0
  PROVE  IInv'
<1> SUFFICES ASSUME NEW q \in Routes PROVE RouteInv(q)'
  BY DEF IInv
<1>1. RouteInv(q) /\ routes'[q] = IF q = r THEN new ELSE routes[q]
  BY DEF IInv, TypeOK
<1> QED
  BY <1>1 DEF RouteInv, PauseCoupled, SpanBounded, FreshIfUnconfigured, RingPast, Configured

\* The fields an accepted attestation writes.
LEMMA TightenedFields ==
  ASSUME NEW r \in Routes, routes[r] \in Route, NEW incoming, NEW until
  PROVE  LET new == TightenedRoute(r, incoming, until)
         IN  /\ new.tier = incoming
             /\ new.tierExpiresAt = until
             /\ new.pausedUntil = IF incoming = FREEZE THEN until ELSE routes[r].pausedUntil
             /\ new.protectionSince = IF NewSpanAllowed(r) THEN now ELSE routes[r].protectionSince
             /\ new.cap = routes[r].cap
             /\ new.windowSeconds = routes[r].windowSeconds
             /\ incoming = DELAY /\ currentTier(r) = DELAY =>
                  /\ new.delayUntil = routes[r].delayUntil
                  /\ new.delayedOutflow = routes[r].delayedOutflow
  BY DEF TightenedRoute, Route

\* An attestation keeps every hold within its span.
LEMMA AttestationInv ==
  ASSUME IInv, TypeOK', NEW r \in Routes, NEW score \in Scores, NEW nonce, NEW validUntil,
         NEW signer, submitAttestation(r, score, validUntil, nonce, signer)
  PROVE  IInv'
<1> DEFINE incoming == TierOfScore(score)
           until == Earlier(now + PauseDuration, protectionLimit(r))
           new == TightenedRoute(r, incoming, until)
<1> USE DurationAssumption, ClockAssumption
<1>1. routes[r] \in Route /\ now \in Nat /\ TypeOK /\ RouteInv(r)
  BY DEF IInv, TypeOK
<1>2. incoming \in Tiers
  BY TierOfScoreType, DataAssumption
<1>3. CASE incoming < currentTier(r)
  <2>1. UNCHANGED <<routes, ring, now>>
    BY <1>1, <1>2, <1>3 DEF submitAttestation, currentTier, TierAt, Route, Tiers, NONE, FREEZE
  <2> QED BY <2>1, <1>1, QuietStep
<1>4. CASE incoming >= currentTier(r)
  <2>1. /\ until > now
        /\ routes' = [routes EXCEPT ![r] = new]
        /\ UNCHANGED <<now, ring>>
        /\ Configured(r)
    BY <1>1, <1>2, <1>4 DEF submitAttestation, currentTier, TierAt, Route, Tiers, NONE, FREEZE
  <2>2. until \in Nat /\ new \in Route
    BY <1>1, <1>2, TightenedType
  <2>3. /\ new.tier = incoming
        /\ new.tierExpiresAt = until
        /\ new.pausedUntil = IF incoming = FREEZE THEN until ELSE routes[r].pausedUntil
        /\ new.protectionSince = IF NewSpanAllowed(r) THEN now ELSE routes[r].protectionSince
        /\ new.windowSeconds = routes[r].windowSeconds
    <3> HIDE DEF incoming, until
    <3> QED BY <1>1, TightenedFields
  <2>4. until <= now + PauseDuration /\ until <= protectionLimit(r)
    BY <1>1 DEF Earlier, protectionLimit, Route
  <2>5. until <= new.protectionSince + MaxOracleProtection /\ new.protectionSince <= now
    <3> HIDE DEF new, until
    <3> QED BY <1>1, <2>3, <2>4 DEF protectionLimit, RouteInv, SpanBounded, Route
  <2>6. new.pausedUntil > now =>
           new.tier = FREEZE /\ new.tierExpiresAt >= new.pausedUntil
    <3>1. CASE incoming = FREEZE
      <4> HIDE DEF new, until, incoming
      <4> QED BY <3>1, <2>2, <2>3
    <3>2. CASE incoming # FREEZE
      <4> HIDE DEF new, until, incoming
      <4>1. SUFFICES ASSUME routes[r].pausedUntil > now PROVE FALSE
        BY <3>2, <2>3
      <4>2. currentTier(r) = FREEZE
        BY <4>1, <1>1 DEF RouteInv, PauseCoupled, currentTier, TierAt, Route
      <4> QED BY <4>2, <3>2, <1>2, <1>4 DEF Tiers, NONE, FREEZE
    <3> QED BY <3>1, <3>2
  <2>7. new.windowSeconds # 0
    BY <2>1, <2>3 DEF Configured
  <2> HIDE DEF new, until, incoming
  <2> QED BY <2>1, <2>3, <2>4, <2>5, <2>6, <2>7, RouteStep
<1>5. incoming \in Int /\ currentTier(r) \in Int
  BY <1>1, <1>2 DEF currentTier, TierAt, Route, Tiers, NONE, FREEZE
<1> HIDE DEF incoming
<1> QED BY <1>3, <1>4, <1>5

\* An outflow enters the ring at the present and touches no hold.
LEMMA OutflowInv ==
  ASSUME IInv, TypeOK', NEW caller, NEW r \in Routes, NEW amount \in Amounts,
         onTokenOutflow(caller, r, amount)
  PROVE  IInv'
<1> SUFFICES ASSUME NEW q \in Routes PROVE RouteInv(q)'
  BY DEF IInv
<1>1. RouteInv(q) /\ routes[q] \in Route /\ now \in Nat /\ now' = now
      /\ ring \in [Routes -> [Buckets -> Bucket]]
  BY DEF IInv, TypeOK, onTokenOutflow
<1>2. \A b \in Buckets : ring'[q][b] = ring[q][b] \/ ring'[q][b].lastOutflow = now
  BY <1>1 DEF onTokenOutflow, RecordOutflow
<1>3. /\ routes'[q].pausedUntil = routes[q].pausedUntil
      /\ routes'[q].tier = routes[q].tier
      /\ routes'[q].tierExpiresAt = routes[q].tierExpiresAt
      /\ routes'[q].protectionSince = routes[q].protectionSince
      /\ routes'[q].windowSeconds = routes[q].windowSeconds
  BY <1>1 DEF onTokenOutflow, IInv, TypeOK, Route
<1>4. RingPast(q)'
  BY <1>1, <1>2 DEF RingPast, RouteInv
<1> QED BY <1>1, <1>3, <1>4
  DEF RouteInv, PauseCoupled, SpanBounded, FreshIfUnconfigured, Configured

\* IInv is inductive.
LEMMA NextInv == IInv /\ [Next]_vars => IInv'
<1> SUFFICES ASSUME IInv, [Next]_vars PROVE IInv'
  OBVIOUS
<1> USE DurationAssumption, ClockAssumption, DataAssumption
<1>0. TypeOK /\ TypeOK' /\ now \in Nat /\ \A r \in Routes : RouteInv(r) /\ routes[r] \in Route
  BY NextType DEF IInv, TypeOK
<1>1. ASSUME NEW r \in Routes, NEW cap \in Caps, NEW window \in Windows,
             configureRoute(r, cap, window)
      PROVE  IInv'
  <2> DEFINE new == [routes[r] EXCEPT !.cap = cap, !.windowSeconds = window]
  <2>1. routes' = [routes EXCEPT ![r] = new] /\ UNCHANGED <<now, ring>> /\ window # 0
    BY <1>1 DEF configureRoute
  <2>2. /\ new.pausedUntil = routes[r].pausedUntil /\ new.tier = routes[r].tier
        /\ new.tierExpiresAt = routes[r].tierExpiresAt
        /\ new.protectionSince = routes[r].protectionSince
        /\ new.windowSeconds = window
    BY <1>0 DEF Route
  <2>3. RouteInv(r)
    BY <1>0
  <2> HIDE DEF new
  <2> QED BY <1>0, <2>1, <2>2, <2>3, RouteStep DEF RouteInv, PauseCoupled, SpanBounded
<1>2. ASSUME NEW r \in Routes, NEW caller \in Callers, NEW allowed \in BOOLEAN,
             setProtected(caller, r, allowed)
      PROVE  IInv'
  BY <1>0, <1>2, QuietStep DEF setProtected
<1>3. ASSUME NEW r \in Routes, rearmProtection(r) PROVE IInv'
  <2> DEFINE new == [routes[r] EXCEPT !.protectionSince = now]
  <2>1. routes' = [routes EXCEPT ![r] = new] /\ UNCHANGED <<now, ring>> /\ Configured(r)
    BY <1>3 DEF rearmProtection
  <2>2. /\ new.pausedUntil = routes[r].pausedUntil /\ new.tier = routes[r].tier
        /\ new.tierExpiresAt = routes[r].tierExpiresAt
        /\ new.windowSeconds = routes[r].windowSeconds
        /\ new.protectionSince = now
    BY <1>0 DEF Route
  <2>3. /\ new.pausedUntil > now =>
             new.tier = FREEZE /\ new.tierExpiresAt >= new.pausedUntil
        /\ new.tierExpiresAt <= new.protectionSince + MaxOracleProtection
        /\ new.tierExpiresAt <= now + PauseDuration
        /\ new.protectionSince <= now
        /\ new.windowSeconds # 0
    <3> HIDE DEF new
    <3> QED BY <1>0, <2>1, <2>2
      DEF RouteInv, PauseCoupled, SpanBounded, Configured, Route
  <2> HIDE DEF new
  <2> QED BY <1>0, <2>1, <2>3, RouteStep
<1>4. ASSUME NEW r \in Routes, resume(r) PROVE IInv'
  <2> DEFINE new == [routes[r] EXCEPT !.pausedUntil = 0, !.tier = NONE,
                       !.tierExpiresAt = 0, !.delayUntil = 0,
                       !.delayedOutflow = 0, !.protectionSince = 0]
  <2>1. routes' = [routes EXCEPT ![r] = new] /\ UNCHANGED <<now, ring>>
    BY <1>4 DEF resume
  <2>2. new.pausedUntil = 0 /\ new.tierExpiresAt = 0 /\ new.protectionSince = 0
    BY <1>0 DEF Route
  <2>3. /\ ~(new.pausedUntil > now)
        /\ new.tierExpiresAt <= new.protectionSince + MaxOracleProtection
        /\ new.tierExpiresAt <= now + PauseDuration
        /\ new.protectionSince <= now
    <3> HIDE DEF new
    <3> QED BY <1>0, <2>2
  <2> HIDE DEF new
  <2> QED BY <1>0, <2>1, <2>2, <2>3, RouteStep
<1>5. CASE disableOracle
  BY <1>0, <1>5, QuietStep DEF disableOracle
<1>6. ASSUME NEW next \in Candidates, proposeOracle(next) PROVE IInv'
  BY <1>0, <1>6, QuietStep DEF proposeOracle
<1>7. CASE cancelOracleRotation
  BY <1>0, <1>7, QuietStep DEF cancelOracleRotation
<1>8. CASE acceptOracle
  BY <1>0, <1>8, QuietStep DEF acceptOracle
<1>9. CASE OracleAction
  BY <1>0, <1>9, AttestationInv DEF OracleAction
<1>10. CASE OutflowAction
  BY <1>0, <1>10, OutflowInv DEF OutflowAction
<1>11. CASE Tick
  BY <1>0, <1>11, QuietStep DEF Tick, guardianVars
<1>12. CASE UNCHANGED vars
  BY <1>0, <1>12, QuietStep DEF vars, guardianVars
<1> QED
  BY <1>1, <1>2, <1>3, <1>4, <1>5, <1>6, <1>7, <1>8, <1>9, <1>10, <1>11, <1>12
  DEF Next, OwnerAction

\* What the strengthening was made for.
LEMMA InvMeaning == IInv => PauseIsFreeze /\ HoldWithinSpan
<1> SUFFICES ASSUME IInv, NEW r \in Routes
             PROVE  /\ isPaused(r) => currentTier(r) = FREEZE
                         /\ routes[r].tierExpiresAt >= routes[r].pausedUntil
                    /\ currentTier(r) # NONE =>
                         /\ routes[r].tierExpiresAt <= protectionLimit(r)
                         /\ routes[r].tierExpiresAt <= now + PauseDuration
  BY DEF PauseIsFreeze, HoldWithinSpan
<1>1. RouteInv(r) /\ routes[r] \in Route /\ now \in Nat
  BY DEF IInv, TypeOK
<1> QED BY <1>1
  DEF RouteInv, PauseCoupled, SpanBounded, isPaused, PausedAt, currentTier, TierAt,
      protectionLimit, NewSpanAllowed, Route

\* A route never stays paused beyond the FREEZE that pauses it.
THEOREM PauseCoupling == Spec => []PauseIsFreeze
  BY InitInv, NextInv, InvMeaning, PTL DEF Spec

\* The oracle never holds a route past the limit protectionLimit announces.
THEOREM HoldEnds == Spec => []HoldWithinSpan
  BY InitInv, NextInv, InvMeaning, PTL DEF Spec

-----------------------------------------------------------------------------
(* Nothing but the owner loosens a route.                                  *)

\* Division rounds down monotonically.
LEMMA QuotientMonotone ==
  ASSUME NEW a \in Nat, NEW b \in Nat, a <= b, NEW d \in Nat \ {0}
  PROVE  a \div d <= b \div d
  OBVIOUS

\* A tier never raises the cap.
LEMMA CapType ==
  ASSUME NEW cap \in Nat, NEW tier
  PROVE  EffectiveCap(cap, tier) \in Nat /\ EffectiveCap(cap, tier) <= cap
  BY DEF EffectiveCap

\* A step that changes neither what is stored about r nor its buckets.
LEMMA QuietNeverLoosens ==
  ASSUME TypeOK, NEW r \in Routes, routes'[r] = routes[r], ring'[r] = ring[r], NEW t \in Nat
  PROVE  ~LoosensAt(r, t)
<1>1. routes[r] \in Route /\ \A b \in Buckets : ring[r][b] \in Bucket
  BY DEF TypeOK
<1>2. CapAt(r, t) \in Nat
  BY <1>1, CapType DEF CapAt, Route
<1>3. DelayBudget(r) - routes[r].delayedOutflow \in Int
  BY <1>1, DurationAssumption DEF DelayBudget, Route
<1>4. /\ PausedAt(r, t)' = PausedAt(r, t)
      /\ TierAt(r, t)' = TierAt(r, t)
      /\ CapAt(r, t)' = CapAt(r, t)
      /\ HoldingAt(r, t)' = HoldingAt(r, t)
      /\ DelayBudget(r)' = DelayBudget(r)
      /\ \A b \in Buckets : CountedAt(r, b, t)' = CountedAt(r, b, t)
  BY DEF PausedAt, TierAt, CapAt, HoldingAt, DelayBudget, CountedAt
<1> QED BY <1>1, <1>2, <1>3, <1>4 DEF LoosensAt, Bucket

\* An attestation tightens at every later instant: an active tier is only
\* replaced by one at least as hard that lasts at least as long.
LEMMA AttestationTightens ==
  ASSUME IInv, NEW r \in Routes, NEW score \in Scores, NEW nonce, NEW validUntil,
         NEW signer, submitAttestation(r, score, validUntil, nonce, signer),
         NEW t \in Nat, t >= now
  PROVE  ~LoosensAt(r, t)
<1> DEFINE incoming == TierOfScore(score)
           until == Earlier(now + PauseDuration, protectionLimit(r))
           old == routes[r]
           new == TightenedRoute(r, incoming, until)
<1> USE DurationAssumption
<1>1. old \in Route /\ now \in Nat /\ TypeOK /\ RouteInv(r) /\ routes \in [Routes -> Route]
  BY DEF IInv, TypeOK
<1>2. incoming \in Tiers
  BY TierOfScoreType, DataAssumption
<1>3. CASE UNCHANGED routes
  BY <1>1, <1>3, QuietNeverLoosens DEF submitAttestation
<1>4. CASE incoming >= currentTier(r) /\ until > now /\ routes' = [routes EXCEPT ![r] = new]
  <2>1. until \in Nat /\ until <= now + PauseDuration /\ until <= protectionLimit(r)
        /\ (until = now + PauseDuration \/ until = protectionLimit(r))
    BY <1>1 DEF Earlier, protectionLimit, Route
  <2>2. routes'[r] = new /\ ring' = ring
    BY <1>1, <1>4 DEF submitAttestation
  <2> HIDE DEF until, incoming
  <2>3. /\ new.tier = incoming
        /\ new.tierExpiresAt = until
        /\ new.pausedUntil = IF incoming = FREEZE THEN until ELSE old.pausedUntil
        /\ new.cap = old.cap
        /\ new.windowSeconds = old.windowSeconds
        /\ incoming = DELAY /\ currentTier(r) = DELAY =>
             new.delayUntil = old.delayUntil /\ new.delayedOutflow = old.delayedOutflow
    BY <1>1, TightenedFields
  <2> HIDE DEF new
  \* If a tier is active then the new one outlasts it.
  <2>4. t < old.tierExpiresAt => /\ currentTier(r) = old.tier
                                 /\ until >= old.tierExpiresAt
    BY <1>1, <2>1
    DEF currentTier, TierAt, RouteInv, SpanBounded, protectionLimit, NewSpanAllowed, Route, NONE
  <2>5. t < old.tierExpiresAt /\ old.tier # NONE => until >= old.tierExpiresAt
    BY <2>4
  <2>6. PausedAt(r, t) => PausedAt(r, t)'
    <3> SUFFICES ASSUME PausedAt(r, t) PROVE PausedAt(r, t)'
      OBVIOUS
    <3>1. old.pausedUntil > now /\ old.tier = FREEZE /\ old.tierExpiresAt >= old.pausedUntil
          /\ t < old.pausedUntil
      BY <1>1 DEF PausedAt, RouteInv, PauseCoupled, Route
    <3>2. currentTier(r) = FREEZE /\ until >= old.pausedUntil
      BY <1>1, <2>1, <2>4, <3>1 DEF Route
    <3>3. incoming = FREEZE
      BY <1>2, <1>4, <3>2 DEF Tiers, NONE, FREEZE
    <3> QED BY <1>1, <2>1, <2>2, <2>3, <3>1, <3>2, <3>3 DEF PausedAt, Route
  <2>7. ~PausedAt(r, t)' /\ TierAt(r, t) # NONE =>
           /\ incoming # FREEZE
           /\ TierAt(r, t)' = incoming
           /\ incoming >= old.tier
           /\ TierAt(r, t) = old.tier
           /\ currentTier(r) = old.tier
    <3> SUFFICES ASSUME ~PausedAt(r, t)', TierAt(r, t) # NONE
                 PROVE  /\ incoming # FREEZE
                        /\ TierAt(r, t)' = incoming
                        /\ incoming >= old.tier
                        /\ TierAt(r, t) = old.tier
                        /\ currentTier(r) = old.tier
      OBVIOUS
    <3>1. t < old.tierExpiresAt /\ TierAt(r, t) = old.tier
      BY <1>1 DEF TierAt, Route
    <3>2. t < until /\ currentTier(r) = old.tier
      BY <1>1, <2>1, <2>4, <3>1 DEF Route
    <3>3. incoming # FREEZE
      BY <2>2, <2>3, <3>2 DEF PausedAt
    <3>4. TierAt(r, t)' = incoming
      BY <2>1, <2>2, <2>3, <3>2 DEF TierAt
    <3> QED BY <1>4, <3>1, <3>2, <3>3, <3>4
  <2>8. ~PausedAt(r, t)' => CapAt(r, t)' <= CapAt(r, t)
    <3> SUFFICES ASSUME ~PausedAt(r, t)' PROVE CapAt(r, t)' <= CapAt(r, t)
      OBVIOUS
    <3>1. CapAt(r, t)' = EffectiveCap(old.cap, TierAt(r, t)') /\ old.cap \in Nat
      BY <1>1, <2>2, <2>3 DEF CapAt, Route
    <3>2. CASE TierAt(r, t) \in {THROTTLE, DELAY}
      <4>1. TierAt(r, t)' \in {THROTTLE, DELAY}
        BY <1>1, <1>2, <2>7, <3>2 DEF Tiers, Route, NONE, THROTTLE, DELAY, FREEZE
      <4> QED BY <3>1, <3>2, <4>1 DEF CapAt, EffectiveCap
    <3>3. CASE TierAt(r, t) \notin {THROTTLE, DELAY}
      BY <3>1, <3>3, CapType DEF CapAt, EffectiveCap
    <3> QED BY <3>2, <3>3
  <2>9. ~PausedAt(r, t)' /\ HoldingAt(r, t) =>
           /\ HoldingAt(r, t)'
           /\ DelayBudget(r)' - routes'[r].delayedOutflow = DelayBudget(r) - routes[r].delayedOutflow
    <3> SUFFICES ASSUME ~PausedAt(r, t)', HoldingAt(r, t)
                 PROVE  /\ HoldingAt(r, t)'
                        /\ DelayBudget(r)' - routes'[r].delayedOutflow
                             = DelayBudget(r) - routes[r].delayedOutflow
      OBVIOUS
    <3>1. old.tier = DELAY /\ incoming = DELAY /\ currentTier(r) = DELAY /\ TierAt(r, t)' = DELAY
      BY <1>1, <1>2, <2>7 DEF HoldingAt, Tiers, Route, NONE, THROTTLE, DELAY, FREEZE
    <3> QED BY <2>2, <2>3, <3>1 DEF HoldingAt, DelayBudget
  <2>10. \A b \in Buckets : CountedAt(r, b, t) =>
            CountedAt(r, b, t)' /\ ring'[r][b].amount = ring[r][b].amount
    BY <2>2, <2>3 DEF CountedAt
  <2>11. /\ CapAt(r, t) \in Int /\ CapAt(r, t)' \in Int
         /\ DelayBudget(r) - routes[r].delayedOutflow \in Int
         /\ \A b \in Buckets : ring[r][b].amount \in Nat
    <3>1. CapAt(r, t)' = EffectiveCap(old.cap, TierAt(r, t)') /\ old.cap \in Nat
      BY <1>1, <2>2, <2>3 DEF CapAt, Route
    <3> QED BY <1>1, <3>1, CapType DEF CapAt, DelayBudget, Route, TypeOK, Bucket
  <2> QED BY <2>6, <2>8, <2>9, <2>10, <2>11 DEF LoosensAt
<1> QED BY <1>3, <1>4 DEF submitAttestation

\* An outflow only adds: to the bucket it falls in, whose expiry it pushes
\* back, and to what the DELAY review window has already let through.
LEMMA OutflowTightens ==
  ASSUME IInv, NEW caller, NEW r \in Routes, NEW amount \in Amounts,
         onTokenOutflow(caller, r, amount), NEW t \in Nat, t >= now
  PROVE  ~LoosensAt(r, t)
<1> USE DurationAssumption
<1>1. /\ routes[r] \in Route /\ now \in Nat /\ amount \in Nat /\ RingPast(r)
      /\ ring \in [Routes -> [Buckets -> Bucket]]
  BY DataAssumption DEF IInv, TypeOK, RouteInv
<1>2. /\ routes'[r].pausedUntil = routes[r].pausedUntil
      /\ routes'[r].tier = routes[r].tier
      /\ routes'[r].tierExpiresAt = routes[r].tierExpiresAt
      /\ routes'[r].delayUntil = routes[r].delayUntil
      /\ routes'[r].windowSeconds = routes[r].windowSeconds
      /\ routes'[r].cap = routes[r].cap
      /\ routes'[r].delayedOutflow >= routes[r].delayedOutflow
      /\ routes'[r].delayedOutflow \in Nat
  BY <1>1 DEF onTokenOutflow, IInv, TypeOK, Route
<1>3. /\ PausedAt(r, t)' = PausedAt(r, t)
      /\ CapAt(r, t)' = CapAt(r, t)
      /\ HoldingAt(r, t)' = HoldingAt(r, t)
      /\ DelayBudget(r)' = DelayBudget(r)
  BY <1>2 DEF PausedAt, CapAt, TierAt, HoldingAt, DelayBudget
<1>4. CapAt(r, t) \in Nat /\ DelayBudget(r) \in Int /\ routes[r].delayedOutflow \in Nat
  BY <1>1, CapType DEF CapAt, DelayBudget, Route
<1>5. \A b \in Buckets : CountedAt(r, b, t) =>
         /\ CountedAt(r, b, t)'
         /\ ring'[r][b].amount \in Nat /\ ring'[r][b].amount >= ring[r][b].amount
  <2> SUFFICES ASSUME NEW b \in Buckets, CountedAt(r, b, t)
               PROVE  /\ CountedAt(r, b, t)' /\ ring'[r][b].amount \in Nat
                      /\ ring'[r][b].amount >= ring[r][b].amount
    OBVIOUS
  <2>1. ring[r][b] \in Bucket /\ ring[r][b].lastOutflow <= now
        /\ ring[r][b].lastOutflow + routes[r].windowSeconds > t
    BY <1>1 DEF RingPast, CountedAt
  <2>2. CASE b = CurrentBucket(r)
    <3>1. ring'[r][b] = [amount |-> ring[r][b].amount + amount, lastOutflow |-> now]
      BY <1>1, <2>1, <2>2 DEF onTokenOutflow, RecordOutflow, Bucket, Route
    <3> QED BY <1>1, <1>2, <2>1, <3>1 DEF CountedAt, Bucket, Route
  <2>3. CASE b # CurrentBucket(r)
    <3>1. ring'[r][b] = ring[r][b]
      BY <1>1, <2>3 DEF onTokenOutflow, RecordOutflow
    <3> QED BY <1>2, <2>1, <3>1 DEF CountedAt, Bucket
  <2> QED BY <2>2, <2>3
<1>6. \A b \in Buckets : ring[r][b].amount \in Nat
  BY <1>1 DEF Bucket
<1> QED BY <1>2, <1>3, <1>4, <1>5, <1>6 DEF LoosensAt

\* Configuring loosens nothing unless it sets a first cap or raises the cap,
\* and then no protection is active.
LEMMA ConfigureLoosens ==
  ASSUME IInv, NEW r \in Routes, NEW cap \in Caps, NEW window \in Windows,
         configureRoute(r, cap, window), NEW t \in Nat, LoosensAt(r, t)
  PROVE  currentTier(r) = NONE /\ ~isPaused(r)
<1> USE DurationAssumption
<1>1. /\ routes[r] \in Route /\ now \in Nat /\ RouteInv(r) /\ cap \in Nat
      /\ routes \in [Routes -> Route] /\ ring \in [Routes -> [Buckets -> Bucket]]
  BY DataAssumption DEF IInv, TypeOK
<1>2. currentTier(r) = NONE => ~isPaused(r)
  BY <1>1 DEF RouteInv, PauseCoupled, currentTier, isPaused, PausedAt, TierAt, Route, NONE, FREEZE
<1>3. CASE ~Configured(r)
  BY <1>1, <1>2, <1>3
  DEF RouteInv, FreshIfUnconfigured, currentTier, TierAt, Route, NONE
<1>4. CASE Configured(r) /\ cap > routes[r].cap
  BY <1>2, <1>4 DEF configureRoute
<1>5. CASE Configured(r) /\ cap <= routes[r].cap
  <2>1. /\ routes'[r].pausedUntil = routes[r].pausedUntil
        /\ routes'[r].tier = routes[r].tier
        /\ routes'[r].tierExpiresAt = routes[r].tierExpiresAt
        /\ routes'[r].delayUntil = routes[r].delayUntil
        /\ routes'[r].windowSeconds = routes[r].windowSeconds
        /\ routes'[r].delayedOutflow = routes[r].delayedOutflow
        /\ routes'[r].cap = cap
        /\ ring' = ring
    BY <1>1, <1>5 DEF configureRoute, Route
  <2>2. /\ PausedAt(r, t)' = PausedAt(r, t)
        /\ TierAt(r, t)' = TierAt(r, t)
        /\ HoldingAt(r, t)' = HoldingAt(r, t)
        /\ \A b \in Buckets : CountedAt(r, b, t)' = CountedAt(r, b, t)
    BY <2>1 DEF PausedAt, TierAt, HoldingAt, CountedAt
  <2>3. routes[r].cap \in Nat /\ routes[r].delayedOutflow \in Nat
        /\ \A b \in Buckets : ring[r][b].amount \in Nat
    BY <1>1 DEF Route, Bucket
  <2>4. CapAt(r, t)' <= CapAt(r, t) /\ CapAt(r, t) \in Int /\ CapAt(r, t)' \in Int
    <3>1. CapAt(r, t)' = EffectiveCap(cap, TierAt(r, t)) /\ CapAt(r, t) = EffectiveCap(routes[r].cap, TierAt(r, t))
      BY <2>1, <2>2 DEF CapAt
    <3>2. EffectiveCap(cap, TierAt(r, t)) <= EffectiveCap(routes[r].cap, TierAt(r, t))
      BY <1>1, <1>5, <2>3 DEF EffectiveCap
    <3> QED BY <1>1, <2>3, <3>1, <3>2, CapType
  <2>5. DelayBudget(r)' <= DelayBudget(r) /\ DelayBudget(r) \in Int /\ DelayBudget(r)' \in Int
    <3>1. cap \div DelayShare <= routes[r].cap \div DelayShare
      BY <1>1, <1>5, <2>3, QuotientMonotone
    <3> QED BY <1>1, <2>1, <2>3, <3>1 DEF DelayBudget
  <2> QED BY <2>1, <2>2, <2>3, <2>4, <2>5 DEF LoosensAt
<1> QED BY <1>1, <1>3, <1>4, <1>5 DEF Route

\* "The oracle can tighten a route and nothing else", and neither can anyone
\* but the owner: every loosening step is a resume or an unprotected raise.
LEMMA StepTightens ==
  ASSUME IInv, [Next]_vars
  PROVE  [\A r \in Routes :
            (\E t \in now' .. LastInstant : LoosensAt(r, t)) =>
              \/ resume(r)
              \/ /\ \E cap \in Caps, window \in Windows : configureRoute(r, cap, window)
                 /\ currentTier(r) = NONE /\ ~isPaused(r)]_vars
<1> SUFFICES ASSUME NEW r \in Routes, NEW t \in now' .. LastInstant, LoosensAt(r, t)
             PROVE  \/ resume(r)
                    \/ /\ \E cap \in Caps, window \in Windows : configureRoute(r, cap, window)
                       /\ currentTier(r) = NONE /\ ~isPaused(r)
  OBVIOUS
<1>0. /\ TypeOK /\ IInv' /\ t \in Nat /\ t >= now'
      /\ routes \in [Routes -> Route] /\ ring \in [Routes -> [Buckets -> Bucket]]
  BY NextInv, DurationAssumption, ClockAssumption DEF IInv, TypeOK, LastInstant
<1>1. routes'[r] # routes[r] \/ ring'[r] # ring[r]
  BY <1>0, QuietNeverLoosens
<1>2. ASSUME NEW q \in Routes, NEW cap \in Caps, NEW window \in Windows,
             configureRoute(q, cap, window)
      PROVE  q = r
  BY <1>0, <1>1, <1>2 DEF configureRoute
<1>3. ASSUME NEW q \in Routes, rearmProtection(q) PROVE FALSE
  <2>1. q = r
    BY <1>0, <1>1, <1>3 DEF rearmProtection
  <2>2. /\ routes'[r].pausedUntil = routes[r].pausedUntil
        /\ routes'[r].tier = routes[r].tier
        /\ routes'[r].tierExpiresAt = routes[r].tierExpiresAt
        /\ routes'[r].delayUntil = routes[r].delayUntil
        /\ routes'[r].windowSeconds = routes[r].windowSeconds
        /\ routes'[r].delayedOutflow = routes[r].delayedOutflow
        /\ routes'[r].cap = routes[r].cap
        /\ ring' = ring
    BY <1>0, <1>3, <2>1 DEF rearmProtection, Route
  <2>3. /\ PausedAt(r, t)' = PausedAt(r, t)
        /\ CapAt(r, t)' = CapAt(r, t)
        /\ HoldingAt(r, t)' = HoldingAt(r, t)
        /\ DelayBudget(r)' = DelayBudget(r)
        /\ \A b \in Buckets : CountedAt(r, b, t)' = CountedAt(r, b, t)
    BY <2>2 DEF PausedAt, CapAt, TierAt, HoldingAt, DelayBudget, CountedAt
  <2>4. CapAt(r, t) \in Nat /\ DelayBudget(r) - routes[r].delayedOutflow \in Int
        /\ \A b \in Buckets : ring[r][b].amount \in Nat
    BY <1>0, CapType, DurationAssumption DEF CapAt, DelayBudget, Route, Bucket
  <2> QED BY <2>2, <2>3, <2>4 DEF LoosensAt
<1>4. ASSUME NEW q \in Routes, resume(q) PROVE q = r
  BY <1>0, <1>1, <1>4 DEF resume
<1>5. ASSUME NEW q \in Routes, NEW score \in Scores, NEW nonce \in Nonces, NEW signer \in Keys,
             NEW validUntil, submitAttestation(q, score, validUntil, nonce, signer)
      PROVE  FALSE
  <2>1. q = r /\ now' = now
    BY <1>0, <1>1, <1>5 DEF submitAttestation
  <2> QED BY <1>0, <1>5, <2>1, AttestationTightens
<1>6. ASSUME NEW caller \in Callers, NEW q \in Routes, NEW amount \in Amounts,
             onTokenOutflow(caller, q, amount)
      PROVE  FALSE
  <2>1. q = r /\ now' = now
    BY <1>0, <1>1, <1>6 DEF onTokenOutflow, RecordOutflow
  <2> QED BY <1>0, <1>6, <2>1, OutflowTightens
<1>7. ~disableOracle /\ ~cancelOracleRotation /\ ~acceptOracle /\ ~Tick /\ ~UNCHANGED vars
  BY <1>1 DEF disableOracle, cancelOracleRotation, acceptOracle, Tick, guardianVars, vars
<1>8. ASSUME NEW next \in Candidates, proposeOracle(next) PROVE FALSE
  BY <1>1, <1>8 DEF proposeOracle
<1>9. ASSUME NEW q \in Routes, NEW caller \in Callers, NEW allowed \in BOOLEAN,
             setProtected(caller, q, allowed)
      PROVE  FALSE
  BY <1>1, <1>9 DEF setProtected
<1> QED
  BY <1>0, <1>2, <1>3, <1>4, <1>5, <1>6, <1>7, <1>8, <1>9, ConfigureLoosens
  DEF Next, OwnerAction, OracleAction, OutflowAction

\* The guardian's central promise, for any routes, keys, caps, durations and
\* any interleaving of calls and time.
THEOREM OnlyTheOwnerLoosens == Spec => OnlyOwnerLoosens
  BY InitInv, NextInv, StepTightens, PTL DEF Spec, OnlyOwnerLoosens

-----------------------------------------------------------------------------
(* The vault: what a review writes, and its delay clock.                   *)

\* What a review writes is a Release.
LEMMA ReviewedType ==
  ASSUME VaultTypeOK, NEW m \in Messages, NEW decision \in ReviewDecisions, NEW tier \in ReviewTiers,
         NEW nonce \in ReviewNonces, NEW signer \in Keys, NEW validUntil \in Nat
  PROVE  LET new == ReviewedRelease(m, decision, tier, validUntil, nonce, signer)
         IN  /\ new \in Release
             /\ new.state = StateAfter(decision)
             /\ new.reviewedUntil = validUntil
             /\ new.reviewer = signer
             /\ new.reviewNonce = nonce
             /\ new.to = releases[m].to
<1>1. releases[m] \in Release
  BY DEF VaultTypeOK
<1>2. StateAfter(decision) \in ReleaseStates
  BY DEF StateAfter, ReviewDecisions, ReleaseStates
<1> QED BY <1>1, <1>2 DEF Release, ReviewedRelease

\* A delay clock is a time.
LEMMA DelayClockType ==
  ASSUME VaultTypeOK, NEW m \in Messages, NEW decision
  PROVE  DelayClock(m, decision) \in Nat
<1>1. releaseDelayUntil[m] \in Nat /\ now \in Nat
  BY DEF VaultTypeOK, TypeOK
<1>2. outflowDelay(VaultRoute, releases[m].amount) \in Nat
  BY DurationAssumption DEF outflowDelay
<1> QED BY <1>1, <1>2 DEF DelayClock

\* Every step of the composition is a step of the guardian or leaves it alone.
LEMMA VaultStepIsGuardianStep ==
  ASSUME VaultTypeOK, [VNext]_vvars
  PROVE  [Next]_vars
<1> USE VaultAssumption
<1>1. CASE GuardianStep
  BY <1>1 DEF GuardianStep, Next, OutflowAction
<1>2. CASE Tick
  BY <1>2 DEF Next
<1>3. CASE RequestAction
  BY <1>3 DEF RequestAction, requestRelease
<1>4. CASE ReviewAction
  BY <1>4 DEF ReviewAction, reviewRelease
<1>5. ASSUME NEW m \in Messages, executeRelease(m)
      PROVE  Next
  <2>1. releases[m].amount \in Amounts
    BY <1>5 DEF VaultTypeOK, Release, executeRelease, onTokenOutflow
  <2> QED BY <1>5, <2>1 DEF executeRelease, Next, OutflowAction
<1>6. CASE UNCHANGED vvars
  BY <1>6 DEF vvars
<1> QED BY <1>1, <1>2, <1>3, <1>4, <1>5, <1>6 DEF VNext, ExecuteAction

-----------------------------------------------------------------------------
(* Types and the rest after a rejection.                                   *)

\* A slot never requested was never rejected: the request that fills it with
\* a PENDING release cannot break the rest.
CleanUntilRequested == \A m \in Messages : ~Requested(m) => rejectedAt[m] = 0

VInv == VaultTypeOK /\ RejectionRests /\ CleanUntilRequested

\* Time never runs backwards.
LEMMA ClockMonotone ==
  ASSUME now \in Nat, [Next]_vars
  PROVE  now' >= now
<1>1. CASE Tick
  BY <1>1 DEF Tick
<1>2. CASE OracleAction
  BY <1>2 DEF OracleAction, submitAttestation
<1>3. ASSUME NEW r \in Routes, NEW cap \in Caps, NEW window \in Windows,
             configureRoute(r, cap, window)
      PROVE  now' = now
  BY <1>3 DEF configureRoute
<1>4. ASSUME NEW r \in Routes, rearmProtection(r) \/ resume(r) PROVE now' = now
  BY <1>4 DEF rearmProtection, resume
<1>5. ASSUME NEW r \in Routes, NEW caller \in Callers, NEW allowed \in BOOLEAN,
             setProtected(caller, r, allowed)
      PROVE  now' = now
  BY <1>5 DEF setProtected
<1>6. ASSUME disableOracle \/ cancelOracleRotation \/ acceptOracle \/ UNCHANGED vars
      PROVE  now' = now
  BY <1>6 DEF disableOracle, cancelOracleRotation, acceptOracle, vars
<1>7. ASSUME NEW next \in Candidates, proposeOracle(next) PROVE now' = now
  BY <1>7 DEF proposeOracle
<1>8. ASSUME NEW caller \in Callers, NEW r \in Routes, NEW amount \in Amounts,
             onTokenOutflow(caller, r, amount)
      PROVE  now' = now
  BY <1>8 DEF onTokenOutflow
<1> QED
  BY <1>1, <1>2, <1>3, <1>4, <1>5, <1>6, <1>7, <1>8 DEF Next, OwnerAction, OutflowAction

\* Nothing is requested or rejected at first.
LEMMA VInitInv == VInit => VInv
  BY InitType, VaultAssumption
  DEF VInit, VaultInit, VInv, VaultTypeOK, RejectionRests, CleanUntilRequested, NewRelease, Release,
      ReleaseStates, ReviewNonces, Tiers, NONE, FREEZE

\* VInv is inductive.
LEMMA VNextInv == VInv /\ [VNext]_vvars => VInv'
<1> SUFFICES ASSUME VInv, [VNext]_vvars PROVE VInv'
  OBVIOUS
<1> USE VaultAssumption
<1>0. /\ TypeOK' /\ now \in Nat /\ now' \in Nat
      /\ releases \in [Messages -> Release] /\ rejectedAt \in [Messages -> Nat]
      /\ releaseDelayUntil \in [Messages -> Nat] /\ vaultTokens \in Nat
  BY VaultStepIsGuardianStep, NextType DEF VInv, VaultTypeOK, TypeOK
<1>a. now' >= now
  BY <1>0, VaultStepIsGuardianStep, ClockMonotone DEF VInv
<1>1. CASE UNCHANGED vaultVars
  BY <1>0, <1>1, <1>a DEF vaultVars, VInv, VaultTypeOK, RejectionRests, CleanUntilRequested, Requested
<1>2. ASSUME NEW m \in Messages, NEW to \in Recipients, NEW amount \in Payouts,
             requestRelease(m, to, amount)
      PROVE  VInv'
  <2>1. NewRelease(to, amount) \in Release
    BY <1>2 DEF NewRelease, Release, ReleaseStates, ReviewNonces, Tiers, NONE, FREEZE
  <2>2. VaultTypeOK'
    BY <1>0, <1>2, <2>1 DEF requestRelease, RecordRequest, VaultTypeOK
  <2>3. RejectionRests'
    BY <1>0, <1>2 DEF requestRelease, RecordRequest, vars, VInv, RejectionRests, CleanUntilRequested
  <2>4. CleanUntilRequested'
    BY <1>0, <1>2 DEF requestRelease, RecordRequest, VInv, CleanUntilRequested, Requested, NewRelease
  <2> QED BY <2>2, <2>3, <2>4 DEF VInv
<1>3. ASSUME NEW m \in Messages, NEW decision \in ReviewDecisions, NEW tier \in ReviewTiers,
             NEW nonce \in ReviewNonces, NEW signer \in Keys,
             NEW validUntil \in now .. now + MaxReviewTtl,
             reviewRelease(m, decision, tier, validUntil, nonce, signer)
      PROVE  VInv'
  <2> DEFINE new == ReviewedRelease(m, decision, tier, validUntil, nonce, signer)
  <2>0. validUntil \in Nat /\ VaultTypeOK
    BY <1>0 DEF VInv
  <2>1. new \in Release /\ new.state = StateAfter(decision) /\ new.to = releases[m].to
    BY <2>0, ReviewedType
  <2>2. DelayClock(m, decision) \in Nat
    BY <2>0, DelayClockType
  <2>3. /\ releases' = [releases EXCEPT ![m] = new]
        /\ rejectedAt' = [rejectedAt EXCEPT ![m] = IF decision = "REJECT" THEN now ELSE @]
        /\ releaseDelayUntil' = [releaseDelayUntil EXCEPT ![m] = DelayClock(m, decision)]
        /\ vaultTokens' = vaultTokens /\ now' = now
        /\ NotRecentlyRejected(m) /\ Requested(m)
    BY <1>3 DEF reviewRelease, RecordReview, vars
  <2> HIDE DEF new
  <2>4. VaultTypeOK'
    BY <1>0, <2>1, <2>2, <2>3 DEF VaultTypeOK
  <2>5. RejectionRests'
    <3> SUFFICES ASSUME NEW q \in Messages, rejectedAt'[q] # 0, releases'[q].state # "REJECTED"
                 PROVE  now >= rejectedAt'[q] + RejectionCooldown
      BY <2>3 DEF RejectionRests
    <3>1. CASE q = m
      <4>1. decision # "REJECT"
        BY <1>0, <2>1, <2>3, <3>1 DEF StateAfter
      <4>2. rejectedAt'[m] = rejectedAt[m]
        BY <1>0, <2>3, <4>1
      <4> QED BY <2>3, <3>1, <4>2 DEF NotRecentlyRejected, VInv, RejectionRests
    <3>2. CASE q # m
      BY <1>0, <2>3, <3>2 DEF VInv, RejectionRests
    <3> QED BY <3>1, <3>2
  <2>6. CleanUntilRequested'
    BY <1>0, <2>1, <2>3 DEF VInv, CleanUntilRequested, Requested
  <2> QED BY <2>4, <2>5, <2>6 DEF VInv
<1>4. ASSUME NEW m \in Messages, executeRelease(m)
      PROVE  VInv'
  <2> DEFINE new == [releases[m] EXCEPT !.state = "EXECUTED"]
  <2>1. /\ releases' = [releases EXCEPT ![m] = new]
        /\ rejectedAt' = rejectedAt /\ releaseDelayUntil' = releaseDelayUntil /\ now' = now
        /\ vaultTokens >= releases[m].amount /\ vaultTokens' = vaultTokens - releases[m].amount
        /\ releases[m].state = "VERIFIED"
    BY <1>4 DEF executeRelease, onTokenOutflow, Executable, ReviewInForce
  <2>2. new \in Release /\ new.to = releases[m].to /\ releases[m].amount \in Nat
    BY <1>0, DataAssumption DEF Release, ReleaseStates
  <2> HIDE DEF new
  <2>3. VaultTypeOK'
    BY <1>0, <2>1, <2>2 DEF VaultTypeOK
  <2>4. RejectionRests'
    BY <1>0, <2>1 DEF VInv, RejectionRests
  <2>5. CleanUntilRequested'
    BY <1>0, <2>1, <2>2 DEF VInv, CleanUntilRequested, Requested
  <2> QED BY <2>3, <2>4, <2>5 DEF VInv
<1>5. CASE UNCHANGED vvars
  BY <1>1, <1>5 DEF vvars, vaultVars
<1> QED
  BY <1>1, <1>2, <1>3, <1>4, <1>5 DEF VNext, RequestAction, ReviewAction, ExecuteAction

\* The composed state is well typed.
THEOREM VaultTypeCorrect == VSpec => []VaultTypeOK
  BY VInitInv, VNextInv, PTL DEF VSpec, VInv

\* Whatever reviews follow, a rejected release rests for REJECTION_COOLDOWN.
THEOREM RejectedReleasesRest == VSpec => []RejectionRests
  BY VInitInv, VNextInv, PTL DEF VSpec, VInv

\* The vault is one caller of the guardian among others: the composition
\* implements the guardian's specification, and with it every theorem about it.
THEOREM VaultImplementsGuardian == VSpec => Spec
<1>1. VInit => Init
  BY DEF VInit
<1>2. VInv /\ [VNext]_vvars => [Next]_vars
  BY VaultStepIsGuardianStep DEF VInv
<1> QED BY <1>1, <1>2, VInitInv, VNextInv, PTL DEF VSpec, Spec

=============================================================================
