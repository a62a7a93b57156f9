-------------------------- MODULE TripwireGuardian --------------------------
(***************************************************************************)
(* The per-route circuit breaker of contracts/evm/src/TripwireGuardian.sol:*)
(* a rolling outflow cap kept in a ring of time buckets, oracle            *)
(* attestations that tighten a route for a bounded span, and the owner's   *)
(* administration of routes and of the oracle itself.                      *)
(*                                                                         *)
(* One action per external function; a call that reverts changes nothing   *)
(* and is simply not a step.  The EVM executes transactions one at a time, *)
(* so every interleaving of the callers is a behaviour of Next.  Events,   *)
(* EIP-712 hashing and ECDSA are abstracted to "who signed which fields".  *)
(***************************************************************************)
EXTENDS Integers, Functions

CONSTANTS
    Routes,              \* route identifiers
    Callers,             \* contracts that may be allowed to report outflows
    Keys,                \* addresses that can be the oracle (key or ERC-1271)
    Candidates,          \* those of them the owner proposes as a new oracle
    Rearmed,             \* routes the owner re-arms
    NoAddress,           \* address(0)
    Nonces,              \* attestation nonces
    Caps,                \* caps the owner configures
    Windows,             \* windowSeconds the owner configures
    Amounts,             \* outflow amounts that callers report
    Scores,              \* risk scores that attestations carry
    Segments,            \* 16: the window is split into this many buckets
    DelayShare,          \* 10: under DELAY, cap / 10 may leave unheld
    DelayWindow,         \* DELAY_WINDOW
    PauseDuration,       \* PAUSE_DURATION
    MaxAttestationTtl,   \* MAX_ATTESTATION_TTL
    OracleRotationDelay, \* ORACLE_ROTATION_DELAY
    MaxOracleProtection, \* MAX_ORACLE_PROTECTION
    ProtectionCooldown,  \* PROTECTION_COOLDOWN
    Genesis,             \* block.timestamp when the guardian is deployed
    Horizon              \* bound: the clock stops here

ASSUME DurationAssumption ==
    /\ DelayWindow \in Nat
    /\ PauseDuration \in Nat
    /\ MaxAttestationTtl \in Nat
    /\ OracleRotationDelay \in Nat
    /\ MaxOracleProtection \in Nat
    /\ ProtectionCooldown \in Nat
    /\ Segments \in Nat \ {0}
    /\ DelayShare \in Nat \ {0}

\* Unix time is far past 96 hours, so a route never attested before always
\* starts its first span: protectionSince = 0 lies in the distant past.
ASSUME ClockAssumption ==
    /\ Genesis \in Nat \ {0}
    /\ Horizon \in Nat
    /\ Genesis >= MaxOracleProtection + ProtectionCooldown

ASSUME DataAssumption ==
    /\ Caps \subseteq Nat
    /\ Windows \subseteq Nat
    /\ Amounts \subseteq Nat
    /\ Scores \subseteq Nat
    /\ Candidates \subseteq Keys /\ NoAddress \notin Keys
    /\ Rearmed \subseteq Routes

VARIABLES
    now,             \* block.timestamp of the block being built
    oracle,          \* the trusted attester, NoAddress once disabled
    pendingOracle,   \* proposed attester, NoAddress if none
    pendingOracleAt, \* when acceptOracle may install it
    routes,          \* route id -> Route struct
    ring,            \* route id -> buckets of the rolling window (_outflows)
    isProtected,     \* the <<caller, route>> pairs that may report outflows
    usedNonces       \* attestation nonces consumed

oracleVars == <<oracle, pendingOracle, pendingOracleAt>>
guardianVars == <<oracleVars, routes, ring, isProtected, usedNonces>>
vars == <<now, guardianVars>>

-----------------------------------------------------------------------------
(* Tiers are ordered: a harder response is a larger number.                *)

NONE     == 0
THROTTLE == 1
DELAY    == 2
FREEZE   == 3
Tiers    == NONE .. FREEZE

MaxScore          == 100
ThrottleThreshold == 65
DelayThreshold    == 85
FreezeThreshold   == 95

\* The tier that a score at or above the throttle threshold asks for.
TierOfScore(score) ==
    IF score >= FreezeThreshold THEN FREEZE
    ELSE IF score >= DelayThreshold THEN DELAY
    ELSE THROTTLE

Buckets == 0 .. Segments

\* windowStart and outflowInWindow, which no rule reads, are left out.
Route == [cap: Nat, windowSeconds: Nat, pausedUntil: Nat,
          tier: Tiers, tierExpiresAt: Nat, delayUntil: Nat,
          protectionSince: Nat, delayedOutflow: Nat]

Bucket == [amount: Nat, lastOutflow: Nat]

Configured(r) == routes[r].windowSeconds # 0

-----------------------------------------------------------------------------
(* Views.  Each takes the instant it is asked about, so that a property    *)
(* can also speak of the future a state commits to.                        *)

PausedAt(r, t) == t < routes[r].pausedUntil

TierAt(r, t) == IF t >= routes[r].tierExpiresAt THEN NONE ELSE routes[r].tier

EffectiveCap(cap, tier) == IF tier \in {THROTTLE, DELAY} THEN cap \div 2 ELSE cap

CapAt(r, t) == EffectiveCap(routes[r].cap, TierAt(r, t))

\* The review budget binds: tier DELAY and its window still open.
HoldingAt(r, t) == TierAt(r, t) = DELAY /\ t < routes[r].delayUntil

DelayBudget(r) == routes[r].cap \div DelayShare

CountedAt(r, b, t) == ring[r][b].lastOutflow + routes[r].windowSeconds > t

UsageAt(r, t) ==
    SumFunction([b \in Buckets |-> IF CountedAt(r, b, t) THEN ring[r][b].amount ELSE 0])

isPaused(r)     == PausedAt(r, now)
currentTier(r)  == TierAt(r, now)
rollingUsage(r) == UsageAt(r, now)

outflowDelay(r, amount) ==
    IF /\ currentTier(r) = DELAY
       /\ \/ amount > DelayBudget(r)
          \/ HoldingAt(r, now) /\ routes[r].delayedOutflow + amount > DelayBudget(r)
    THEN DelayWindow ELSE 0

routeStatus(r) ==
    IF isPaused(r) THEN "PAUSED"
    ELSE IF ~Configured(r) \/ rollingUsage(r) >= CapAt(r, now) THEN "RATE_LIMITED"
    ELSE "ACTIVE"

\* Seeded fault: the next span may follow without the cooldown.
NewSpanWithoutCooldown(r) ==
    currentTier(r) = NONE /\ now >= routes[r].protectionSince + MaxOracleProtection

NewSpanAllowed(r) ==
    /\ currentTier(r) = NONE
    /\ now >= routes[r].protectionSince + MaxOracleProtection + ProtectionCooldown

protectionLimit(r) ==
    (IF NewSpanAllowed(r) THEN now ELSE routes[r].protectionSince) + MaxOracleProtection

BucketWidth(r) == (routes[r].windowSeconds + Segments - 1) \div Segments

CurrentBucket(r) == (now \div BucketWidth(r)) % (Segments + 1)

Earlier(a, b) == IF a <= b THEN a ELSE b

-----------------------------------------------------------------------------
NewRoute == [cap |-> 0, windowSeconds |-> 0, pausedUntil |-> 0,
             tier |-> NONE, tierExpiresAt |-> 0, delayUntil |-> 0,
             protectionSince |-> 0, delayedOutflow |-> 0]

\* The constructor refuses a zero oracle; every mapping starts at zero.
Init ==
    /\ now = Genesis
    /\ oracle \in Keys
    /\ pendingOracle = NoAddress
    /\ pendingOracleAt = 0
    /\ routes = [r \in Routes |-> NewRoute]
    /\ ring = [r \in Routes |-> [b \in Buckets |-> [amount |-> 0, lastOutflow |-> 0]]]
    /\ isProtected = {}
    /\ usedNonces = {}

-----------------------------------------------------------------------------
(* Administration of routes (onlyOwner).                                   *)

configureRoute(r, cap, window) ==
    /\ cap # 0 /\ window # 0
    /\ Configured(r) =>
         /\ window = routes[r].windowSeconds
         /\ cap > routes[r].cap => currentTier(r) = NONE
    /\ routes' = [routes EXCEPT
         ![r].cap = cap,
         ![r].windowSeconds = window]
    /\ UNCHANGED <<now, oracleVars, ring, isProtected, usedNonces>>

setProtected(caller, r, allowed) ==
    /\ isProtected' = IF allowed THEN isProtected \union {<<caller, r>>}
                                 ELSE isProtected \ {<<caller, r>>}
    /\ UNCHANGED <<now, oracleVars, routes, ring, usedNonces>>

rearmProtection(r) ==
    /\ Configured(r)
    /\ routes' = [routes EXCEPT ![r].protectionSince = now]
    /\ UNCHANGED <<now, oracleVars, ring, isProtected, usedNonces>>

resume(r) ==
    /\ routes' = [routes EXCEPT ![r] =
         [@ EXCEPT !.pausedUntil = 0,
                   !.tier = NONE,
                   !.tierExpiresAt = 0,
                   !.delayUntil = 0,
                   !.delayedOutflow = 0,
                   !.protectionSince = 0]]
    /\ UNCHANGED <<now, oracleVars, ring, isProtected, usedNonces>>

-----------------------------------------------------------------------------
(* Administration of the oracle: removal is instant, replacement is not.   *)

\* Seeded fault: the kill switch leaves a pending rotation to be accepted.
disableOracleKeepsRotation ==
    /\ oracle' = NoAddress
    /\ UNCHANGED <<now, pendingOracle, pendingOracleAt, routes, ring, isProtected, usedNonces>>

disableOracle ==
    /\ oracle' = NoAddress
    /\ pendingOracle' = NoAddress
    /\ pendingOracleAt' = IF pendingOracle = NoAddress THEN pendingOracleAt ELSE 0
    /\ UNCHANGED <<now, routes, ring, isProtected, usedNonces>>

proposeOracle(next) ==
    /\ pendingOracle' = next
    /\ pendingOracleAt' = now + OracleRotationDelay
    /\ UNCHANGED <<now, oracle, routes, ring, isProtected, usedNonces>>

cancelOracleRotation ==
    /\ pendingOracle # NoAddress
    /\ pendingOracle' = NoAddress
    /\ pendingOracleAt' = 0
    /\ UNCHANGED <<now, oracle, routes, ring, isProtected, usedNonces>>

\* Permissionless: the owner already decided.
acceptOracle ==
    /\ pendingOracle # NoAddress
    /\ now >= pendingOracleAt
    /\ oracle' = pendingOracle
    /\ pendingOracle' = NoAddress
    /\ pendingOracleAt' = 0
    /\ UNCHANGED <<now, routes, ring, isProtected, usedNonces>>

-----------------------------------------------------------------------------
(* The outflow hook.                                                       *)

\* Seeded fault: a slot is emptied by any later spend, expired or not.
RecordOutflowForgets(r, amount) ==
    LET b == CurrentBucket(r)
        kept == IF ring[r][b].lastOutflow < now THEN 0 ELSE ring[r][b].amount
    IN  [ring EXCEPT ![r][b] = [amount |-> kept + amount, lastOutflow |-> now]]

\* Seeded fault: a reused slot is not emptied.
RecordOutflowHoards(r, amount) ==
    [ring EXCEPT ![r][CurrentBucket(r)] = [amount |-> @.amount + amount, lastOutflow |-> now]]

\* The ring after `amount' leaves route r now: the slot is emptied first if
\* everything in it has left the window.
RecordOutflow(r, amount) ==
    LET b == CurrentBucket(r)
        kept == IF ring[r][b].lastOutflow + routes[r].windowSeconds <= now
                THEN 0 ELSE ring[r][b].amount
    IN  [ring EXCEPT ![r][b] = [amount |-> kept + amount, lastOutflow |-> now]]

\* Seeded fault: the cap is compared with what was spent before this outflow.
onTokenOutflowLate(caller, r, amount) ==
    /\ Configured(r)
    /\ <<caller, r>> \in isProtected
    /\ amount # 0
    /\ ~isPaused(r)
    /\ rollingUsage(r) < CapAt(r, now)
    /\ ring' = RecordOutflow(r, amount)
    /\ UNCHANGED <<now, oracleVars, routes, isProtected, usedNonces>>

\* Seeded fault: the review budget is returned where it should be consumed.
onTokenOutflowRefunds(caller, r, amount) ==
    /\ Configured(r)
    /\ <<caller, r>> \in isProtected
    /\ amount # 0
    /\ ~isPaused(r)
    /\ rollingUsage(r) + amount <= CapAt(r, now)
    /\ routes' = [routes EXCEPT ![r].delayedOutflow = IF HoldingAt(r, now) THEN @ - amount ELSE @]
    /\ ring' = RecordOutflow(r, amount)
    /\ UNCHANGED <<now, oracleVars, isProtected, usedNonces>>

onTokenOutflow(caller, r, amount) ==
    /\ Configured(r)
    /\ <<caller, r>> \in isProtected
    /\ amount # 0
    /\ ~isPaused(r)
    /\ HoldingAt(r, now) => routes[r].delayedOutflow + amount <= DelayBudget(r)
    /\ rollingUsage(r) + amount <= CapAt(r, now)
    /\ routes' = [routes EXCEPT
         ![r].delayedOutflow = IF HoldingAt(r, now) THEN @ + amount ELSE @]
    /\ ring' = RecordOutflow(r, amount)
    /\ UNCHANGED <<now, oracleVars, isProtected, usedNonces>>

-----------------------------------------------------------------------------
(* The oracle extension.                                                   *)

\* Seeded fault: refreshing DELAY opens a new review window.
TightenedRouteRefills(r, incoming, until) ==
    [routes[r] EXCEPT
       !.protectionSince = IF NewSpanAllowed(r) THEN now ELSE @,
       !.delayUntil      = IF incoming = DELAY THEN now + DelayWindow ELSE @,
       !.delayedOutflow  = IF incoming = DELAY THEN 0 ELSE @,
       !.pausedUntil     = IF incoming = FREEZE THEN until ELSE @,
       !.tier            = incoming,
       !.tierExpiresAt   = until]

\* Seeded fault: the pause is not clamped to the span that ends the tier.
TightenedRoutePausesOn(r, incoming, until) ==
    LET entersDelay == incoming = DELAY /\ currentTier(r) # DELAY
    IN  [routes[r] EXCEPT
           !.protectionSince = IF NewSpanAllowed(r) THEN now ELSE @,
           !.delayUntil      = IF entersDelay THEN now + DelayWindow ELSE @,
           !.delayedOutflow  = IF entersDelay THEN 0 ELSE @,
           !.pausedUntil     = IF incoming = FREEZE THEN now + PauseDuration ELSE @,
           !.tier            = incoming,
           !.tierExpiresAt   = until]

\* The route once `incoming' is applied or refreshed until `until'.
TightenedRoute(r, incoming, until) ==
    LET entersDelay == incoming = DELAY /\ currentTier(r) # DELAY
    IN  [routes[r] EXCEPT
           !.protectionSince = IF NewSpanAllowed(r) THEN now ELSE @,
           !.delayUntil      = IF entersDelay THEN now + DelayWindow ELSE @,
           !.delayedOutflow  = IF entersDelay THEN 0 ELSE @,
           !.pausedUntil     = IF incoming = FREEZE THEN until ELSE @,
           !.tier            = incoming,
           !.tierExpiresAt   = until]

\* Seeded fault: the expiry is not clamped to the protection span.
submitAttestationUnclamped(r, score, validUntil, nonce, signer) ==
    LET incoming == TierOfScore(score)
    IN  /\ score >= ThrottleThreshold /\ score <= MaxScore
        /\ nonce \notin usedNonces /\ Configured(r) /\ signer = oracle
        /\ incoming >= currentTier(r) /\ protectionLimit(r) > now
        /\ usedNonces' = usedNonces \union {nonce}
        /\ routes' = [routes EXCEPT ![r] = TightenedRoute(r, incoming, now + PauseDuration)]
        /\ UNCHANGED <<now, oracleVars, ring, isProtected>>

submitAttestation(r, score, validUntil, nonce, signer) ==
    LET incoming == TierOfScore(score)
        until    == Earlier(now + PauseDuration, protectionLimit(r))
    IN  /\ score >= ThrottleThreshold /\ score <= MaxScore
        /\ now <= validUntil /\ validUntil <= now + MaxAttestationTtl
        /\ nonce \notin usedNonces
        /\ Configured(r)
        /\ signer = oracle
        /\ usedNonces' = usedNonces \union {nonce}
        /\ \/ /\ incoming >= currentTier(r)
              /\ until > now
              /\ routes' = [routes EXCEPT ![r] = TightenedRoute(r, incoming, until)]
           \/ /\ incoming < currentTier(r)
              /\ UNCHANGED routes
        /\ UNCHANGED <<now, oracleVars, ring, isProtected>>

-----------------------------------------------------------------------------
\* The clock between blocks.
Tick ==
    /\ now < Horizon
    /\ now' = now + 1
    /\ UNCHANGED guardianVars

OwnerAction ==
    \/ \E r \in Routes :
         \/ \E cap \in Caps, window \in Windows : configureRoute(r, cap, window)
         \/ \E caller \in Callers, allowed \in BOOLEAN : setProtected(caller, r, allowed)
         \/ r \in Rearmed /\ rearmProtection(r)
         \/ resume(r)
    \/ disableOracle
    \/ \E next \in Candidates : proposeOracle(next)
    \/ cancelOracleRotation

OracleAction ==
    \E r \in Routes, score \in Scores, nonce \in Nonces, signer \in Keys :
        \E validUntil \in now .. now + MaxAttestationTtl :
            submitAttestation(r, score, validUntil, nonce, signer)

OutflowAction ==
    \E caller \in Callers, r \in Routes, amount \in Amounts :
        onTokenOutflow(caller, r, amount)

Next == OwnerAction \/ acceptOracle \/ OracleAction \/ OutflowAction \/ Tick

Spec == Init /\ [][Next]_vars

-----------------------------------------------------------------------------
TypeOK ==
    /\ now \in Nat
    /\ oracle \in Keys \union {NoAddress}
    /\ pendingOracle \in Keys \union {NoAddress}
    /\ pendingOracleAt \in Nat
    /\ routes \in [Routes -> Route]
    /\ ring \in [Routes -> [Buckets -> Bucket]]
    /\ isProtected \subseteq Callers \X Routes
    /\ usedNonces \subseteq Nonces

-----------------------------------------------------------------------------
(* What the guardian promises.                                             *)

\* While all outflow is paused the route is under an unexpired FREEZE that
\* ends no earlier: currentTier, which guards cap raises and decides whether a
\* weaker attestation is ignored, can never lapse before isPaused does
\* (submitAttestation writes the two clocks separately).
PauseIsFreeze ==
    \A r \in Routes : isPaused(r) =>
        currentTier(r) = FREEZE /\ routes[r].tierExpiresAt >= routes[r].pausedUntil

\* A live tier ends within the limit that protectionLimit announces, and that
\* limit lies ahead: the span bounds every hold the oracle has refreshed, and
\* an operator that skips on `limit <= now' never leaves a live tier behind.
HoldWithinSpan ==
    \A r \in Routes : currentTier(r) # NONE =>
        /\ routes[r].tierExpiresAt <= protectionLimit(r)
        /\ routes[r].tierExpiresAt <= now + PauseDuration

LastInstant == Horizon + MaxOracleProtection

\* This step makes route r accept at instant t an outflow it would have
\* refused had nothing happened: a pause is shortened, the cap raised, the
\* DELAY review budget dropped or refilled, or a counted spend forgotten.
LoosensAt(r, t) ==
    \/ PausedAt(r, t) /\ ~PausedAt(r, t)'
    \/ /\ ~PausedAt(r, t)'
       /\ \/ CapAt(r, t)' > CapAt(r, t)
          \/ /\ HoldingAt(r, t)
             /\ \/ ~HoldingAt(r, t)'
                \/ DelayBudget(r)' - routes'[r].delayedOutflow
                     > DelayBudget(r) - routes[r].delayedOutflow
    \/ \E b \in Buckets :
         /\ CountedAt(r, b, t)
         /\ ~CountedAt(r, b, t)' \/ ring'[r][b].amount < ring[r][b].amount

\* "The oracle can tighten a route and nothing else": no attestation, outflow,
\* oracle change or passing of time ever loosens a route at any later instant.
\* Only the owner does, by resume, or by raising the cap of a route that is
\* under no protection.
OnlyOwnerLoosens ==
    [][\A r \in Routes :
        (\E t \in now' .. LastInstant : LoosensAt(r, t)) =>
            \/ resume(r)
            \/ /\ \E cap \in Caps, window \in Windows : configureRoute(r, cap, window)
               /\ currentTier(r) = NONE /\ ~isPaused(r)]_vars
=============================================================================
