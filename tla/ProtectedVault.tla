--------------------------- MODULE ProtectedVault ---------------------------
(***************************************************************************)
(* The destination vault of contracts/evm/src/TripwireDemo.sol: a release  *)
(* is requested by the bridge, reviewed off chain by the guardian's oracle *)
(* and executed by anyone while that review lasts, if the guardian agrees. *)
(*                                                                         *)
(* Signed reviews travel through no channel of their own: whoever holds    *)
(* one may submit it at any time, late, twice or out of order, so a review *)
(* of any fields signed by any key may be submitted in every state.  The   *)
(* EIP-712 hash that binds a signature to vault and payout fields is       *)
(* abstracted to the parameters of reviewRelease.                          *)
(***************************************************************************)
EXTENDS TripwireGuardian

CONSTANTS
    Vault,             \* this contract, as the guardian sees it
    VaultRoute,        \* routeId
    Messages,          \* message ids
    Recipients,        \* addresses a payout may be meant for
    Payouts,           \* amounts requested
    ReviewTiers,       \* minimum tiers that reviewers ask for
    Funds,             \* tokens the vault is funded with
    MaxReviewNonce,    \* bound on review nonces
    MaxReviewTtl,      \* MAX_REVIEW_TTL
    RejectionCooldown  \* REJECTION_COOLDOWN

ASSUME VaultAssumption ==
    /\ Vault \in Callers
    /\ VaultRoute \in Routes
    /\ Payouts \subseteq Amounts
    /\ ReviewTiers \subseteq Tiers
    /\ Funds \in Nat
    /\ MaxReviewNonce \in Nat
    /\ MaxReviewTtl \in Nat
    /\ RejectionCooldown \in Nat
    /\ NoAddress \notin Recipients

\* 10 minutes against 2 days: a review is long dead when a rotation matures.
ASSUME RotationOutlastsReviews == MaxReviewTtl < OracleRotationDelay

VARIABLES
    releases,           \* message id -> Release struct
    releaseDelayUntil,  \* message id -> its own DELAY clock, 0 if not started
    rejectedAt,         \* message id -> instant of the latest REJECT
    vaultTokens         \* token.balanceOf(vault)

vaultVars == <<releases, releaseDelayUntil, rejectedAt, vaultTokens>>
vvars == <<vars, vaultVars>>

-----------------------------------------------------------------------------
ReviewNonces == 0 .. MaxReviewNonce

ReleaseStates == {"PENDING", "VERIFIED", "HELD", "REJECTED", "EXECUTED"}

ReviewDecisions == {"ALLOW", "HOLD", "REJECT"}

StateAfter(decision) ==
    CASE decision = "ALLOW"  -> "VERIFIED"
      [] decision = "HOLD"   -> "HELD"
      [] decision = "REJECT" -> "REJECTED"

Release == [to: Recipients \union {NoAddress}, amount: Payouts \union {0}, state: ReleaseStates,
            reviewedUntil: Nat, reviewer: Keys \union {NoAddress},
            reviewNonce: ReviewNonces, minimumTier: ReviewTiers \union {NONE}]

\* A slot with `to' zero was never requested.
NewRelease(to, amount) ==
    [to |-> to, amount |-> amount, state |-> "PENDING", reviewedUntil |-> 0,
     reviewer |-> NoAddress, reviewNonce |-> 0, minimumTier |-> NONE]

Requested(m) == releases[m].to # NoAddress

VaultInit ==
    /\ releases = [m \in Messages |-> NewRelease(NoAddress, 0)]
    /\ releaseDelayUntil = [m \in Messages |-> 0]
    /\ rejectedAt = [m \in Messages |-> 0]
    /\ vaultTokens = Funds

VInit == Init /\ VaultInit

-----------------------------------------------------------------------------
(* The three entry points.  Their effects on the release tables are        *)
(* operators of their own because the escrows built on the vault wrap them.*)

RecordRequest(m, to, amount) ==
    /\ to # NoAddress /\ amount # 0
    /\ ~Requested(m)
    /\ releases' = [releases EXCEPT ![m] = NewRelease(to, amount)]

requestRelease(m, to, amount) ==
    /\ RecordRequest(m, to, amount)
    /\ UNCHANGED <<vars, releaseDelayUntil, rejectedAt, vaultTokens>>

\* When a release reviewed now may leave: the clock starts once, at the first
\* ALLOW that the guardian wants delayed.
DelayClock(m, decision) ==
    LET delay == outflowDelay(VaultRoute, releases[m].amount)
    IN  IF decision = "ALLOW" /\ releaseDelayUntil[m] = 0 /\ delay > 0
        THEN now + delay ELSE releaseDelayUntil[m]

\* Seeded fault: a rejected release may be reviewed at once.
RejectionForgiven(m) == TRUE

NotRecentlyRejected(m) ==
    releases[m].state = "REJECTED" => now >= rejectedAt[m] + RejectionCooldown

\* Seeded fault: nonces are single-use but need not increase.
NextNonceInAnyOrder(m, nonce) == nonce # releases[m].reviewNonce

NextNonce(m, nonce) == nonce > releases[m].reviewNonce

ReviewedRelease(m, decision, tier, validUntil, nonce, signer) ==
    [releases[m] EXCEPT
       !.reviewNonce = nonce, !.state = StateAfter(decision),
       !.reviewedUntil = validUntil, !.reviewer = signer, !.minimumTier = tier]

RecordReview(m, decision, tier, validUntil, nonce, signer) ==
    /\ Requested(m)
    /\ releases[m].state # "EXECUTED"
    /\ NotRecentlyRejected(m)
    /\ now <= validUntil /\ validUntil <= now + MaxReviewTtl
    /\ NextNonce(m, nonce)
    /\ signer = oracle
    /\ releases' = [releases EXCEPT ![m] =
         ReviewedRelease(m, decision, tier, validUntil, nonce, signer)]
    /\ rejectedAt' = [rejectedAt EXCEPT ![m] = IF decision = "REJECT" THEN now ELSE @]
    /\ releaseDelayUntil' = [releaseDelayUntil EXCEPT ![m] = DelayClock(m, decision)]

reviewRelease(m, decision, tier, validUntil, nonce, signer) ==
    /\ RecordReview(m, decision, tier, validUntil, nonce, signer)
    /\ UNCHANGED <<vars, vaultTokens>>

\* Seeded fault: an expired review still authorises a payout.
ReviewInForceUndated(m) ==
    releases[m].state = "VERIFIED" /\ releases[m].reviewer = oracle

ReviewInForce(m) ==
    /\ releases[m].state = "VERIFIED"
    /\ now <= releases[m].reviewedUntil
    /\ releases[m].reviewer = oracle

\* Seeded fault: a release without a clock of its own needs none.
DelayServedOrUnset(m) == now >= releaseDelayUntil[m]

DelayServed(m) ==
    /\ releaseDelayUntil[m] = 0 => outflowDelay(VaultRoute, releases[m].amount) = 0
    /\ now >= releaseDelayUntil[m]

\* Everything executeRelease demands before it asks the guardian to pay.
Executable(m) ==
    /\ Requested(m)
    /\ ReviewInForce(m)
    /\ currentTier(VaultRoute) >= releases[m].minimumTier
    /\ DelayServed(m)

\* The guardian's hook and the token transfer revert the payout with them.
executeRelease(m) ==
    /\ Executable(m)
    /\ onTokenOutflow(Vault, VaultRoute, releases[m].amount)
    /\ releases' = [releases EXCEPT ![m] = [@ EXCEPT !.state = "EXECUTED"]]
    /\ vaultTokens >= releases[m].amount
    /\ vaultTokens' = vaultTokens - releases[m].amount
    /\ UNCHANGED <<releaseDelayUntil, rejectedAt>>

-----------------------------------------------------------------------------
RequestAction ==
    \E m \in Messages, to \in Recipients, amount \in Payouts : requestRelease(m, to, amount)

ReviewAction ==
    \E m \in Messages, decision \in ReviewDecisions, tier \in ReviewTiers,
       nonce \in ReviewNonces, signer \in Keys :
        \E validUntil \in now .. now + MaxReviewTtl :
            reviewRelease(m, decision, tier, validUntil, nonce, signer)

ExecuteAction == \E m \in Messages : executeRelease(m)

\* Steps of the guardian that the vault has no part in: this vault reports an
\* outflow only from executeRelease, other contracts may share the guardian.
GuardianStep ==
    \/ OwnerAction
    \/ acceptOracle
    \/ OracleAction
    \/ \E caller \in Callers \ {Vault}, r \in Routes, amount \in Amounts :
         onTokenOutflow(caller, r, amount)

VNext ==
    \/ GuardianStep /\ UNCHANGED vaultVars
    \/ Tick /\ UNCHANGED vaultVars
    \/ RequestAction
    \/ ReviewAction
    \/ ExecuteAction

VSpec == VInit /\ [][VNext]_vvars

-----------------------------------------------------------------------------
VaultTypeOK ==
    /\ TypeOK
    /\ releases \in [Messages -> Release]
    /\ releaseDelayUntil \in [Messages -> Nat]
    /\ rejectedAt \in [Messages -> Nat]
    /\ vaultTokens \in Nat

\* A REJECT rests for REJECTION_COOLDOWN: whatever reviews follow, a release
\* that is not rejected now was last rejected at least that long ago.
RejectionRests ==
    \A m \in Messages :
        rejectedAt[m] # 0 /\ releases[m].state # "REJECTED"
            => now >= rejectedAt[m] + RejectionCooldown

\* "REJECT is terminal even after route protection expires or the owner calls
\* `resume`" (docs/plans/tripwire-hardening.md:17): no rejected release ever
\* changes state again.  CctpPaymentEscrow's review hook keeps this promise,
\* the plain vault reopens after REJECTION_COOLDOWN.
RejectIsTerminal ==
    [][\A m \in Messages :
        releases[m].state = "REJECTED" => releases'[m].state = "REJECTED"]_vvars
=============================================================================
