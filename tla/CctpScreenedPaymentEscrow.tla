---------------------- MODULE CctpScreenedPaymentEscrow ----------------------
(***************************************************************************)
(* contracts/evm/src/CctpScreenedPaymentEscrow.sol: a payment escrow whose *)
(* every ALLOW carries a screening receipt for that payment, signed by an  *)
(* independent issuer and checked on chain when the review lands and again *)
(* when the payment is made.                                               *)
(*                                                                         *)
(* Heads and receipts that issuers have signed may be relayed by anyone,   *)
(* at any time and in any order.  A digest is modelled by what it hashes:  *)
(* a profile's hash is the profile, a head's hash the head, a receipt's    *)
(* payment context the message and the policy version it was signed for.   *)
(***************************************************************************)
EXTENDS CctpPaymentEscrow

CONSTANTS
    Authority,       \* policyAuthority
    Profiles,        \* screening profiles the customer may apply
    InitialProfile,  \* the profile the escrow is deployed with
    SignedHeads,     \* list heads that issuers have signed
    SignedReceipts,  \* screening receipts that issuers have signed
    ScheduledScreening, \* screening changes the authority schedules
    NoProfile,       \* screeningProfileHash = 0: the customer revoked screening
    NoHead,          \* activeHead.hash = 0
    NotScreened      \* screened[id].receiptHash = 0

ScreeningProfile == [issuer: Keys \union {Authority}, maxObservationAgeSeconds: Nat,
                     maxSnapshotAgeSeconds: Nat]

Head == [profile: Profiles, signer: Keys, revision: Nat \ {0}, listAsOf: Nat, validUntil: Nat]

Outcomes == {"UNKNOWN", "NOT_LISTED", "MATCHED"}

ScreeningReceipt == [profile: Profiles, signer: Keys, head: SignedHeads, payment: Messages,
                     version: Nat, outcome: Outcomes, checkedAt: Nat, validUntil: Nat]

ExecutionModes == {"LEGACY_ENFORCED", "ADVISORY_V1"}

ASSUME ScreeningAssumption ==
    /\ Profiles \subseteq ScreeningProfile
    /\ InitialProfile \in Profiles
    /\ SignedHeads \subseteq Head
    /\ SignedReceipts \subseteq ScreeningReceipt
    /\ NoProfile \notin Profiles
    /\ NoHead \notin SignedHeads

VARIABLES
    screeningProfile,  \* screeningProfile and its hash, NoProfile while revoked
    executionMode,
    activeHead,
    screened           \* message id -> the evidence its last ALLOW was bound to

screeningVars == <<screeningProfile, executionMode, activeHead, screened>>
svars == <<evars, screeningVars>>

-----------------------------------------------------------------------------
\* _requireIndependentIssuer: whoever clears payments neither reviews them nor
\* sets the customer's policy.
IndependentIssuer(p) == p.issuer \notin {oracle, Authority}

\* The limits that _setProfile puts on a profile.
ValidProfile(p) ==
    /\ IndependentIssuer(p)
    /\ p.maxObservationAgeSeconds <= p.maxSnapshotAgeSeconds

\* _activeProfile
ScreeningUsable == screeningProfile # NoProfile /\ IndependentIssuer(screeningProfile)

SInit ==
    /\ VInit
    /\ EscrowDeployed
    /\ paymentsPaused = TRUE
    /\ ValidProfile(InitialProfile)
    /\ screeningProfile = InitialProfile
    /\ executionMode = "LEGACY_ENFORCED"
    /\ activeHead = NoHead
    /\ screened = [m \in Messages |-> NotScreened]

-----------------------------------------------------------------------------
(* The screening profile, the execution mode and the list head.            *)

SetProfile(p) == [profile |-> p]
SetMode(mode) == [mode |-> mode]

ScreeningActions ==
    {SetProfile(p) : p \in Profiles} \union {SetMode(mode) : mode \in ExecutionModes}

ASSUME ScreeningScheduleAssumption == ScheduledScreening \subseteq ScreeningActions

\* Tightening is immediate.
revokeScreeningProfile ==
    /\ Commit
    /\ screeningProfile' = NoProfile
    /\ activeHead' = NoHead
    /\ UNCHANGED <<policyFrame, paymentPolicy, paymentsPaused, permittedRecipients,
                   executionMode, screened>>

applyScreeningProfile(p) ==
    /\ Consume(SetProfile(p))
    /\ ValidProfile(p)
    /\ screeningProfile' = p
    /\ activeHead' = NoHead
    /\ UNCHANGED <<paymentPolicy, paymentsPaused, permittedRecipients, executionMode, screened>>

\* The contract stores the mode and screens in either.
applyExecutionMode(mode) ==
    /\ Consume(SetMode(mode))
    /\ executionMode' = mode
    /\ UNCHANGED <<paymentPolicy, paymentsPaused, permittedRecipients, screeningProfile,
                   activeHead, screened>>

\* A newer head replaces the active one; the same one again changes nothing.
Supersedes(h) ==
    activeHead # NoHead =>
        h.revision > activeHead.revision /\ h.listAsOf >= activeHead.listAsOf

registerScreeningHead(h) ==
    /\ ScreeningUsable
    /\ h.profile = screeningProfile /\ h.signer = screeningProfile.issuer
    /\ h.validUntil \in h.listAsOf .. h.listAsOf + screeningProfile.maxSnapshotAgeSeconds
    /\ now \in h.listAsOf .. h.validUntil
    /\ Supersedes(h)
    /\ activeHead' = h
    /\ UNCHANGED <<evars, screeningProfile, executionMode, screened>>

-----------------------------------------------------------------------------
(* Review and payout.                                                      *)

ReceiptInTime(receipt) ==
    /\ receipt.checkedAt >= activeHead.listAsOf
    /\ receipt.validUntil \in
         receipt.checkedAt .. receipt.checkedAt + screeningProfile.maxObservationAgeSeconds
    /\ receipt.validUntil <= activeHead.validUntil
    /\ now \in receipt.checkedAt .. receipt.validUntil

\* _acceptReceipt
Accepted(m, receipt) ==
    /\ ScreeningUsable
    /\ activeHead # NoHead /\ receipt.head = activeHead
    /\ receipt.profile = screeningProfile
    /\ receipt.payment = m /\ receipt.version = policyVersion
    /\ receipt.outcome = "NOT_LISTED"
    /\ ReceiptInTime(receipt)
    /\ receipt.signer = screeningProfile.issuer

\* ALLOW only, bound to a receipt that it does not outlive.
reviewScreenedRelease(m, tier, validUntil, nonce, signer, receipt) ==
    /\ Accepted(m, receipt)
    /\ validUntil <= receipt.validUntil
    /\ reviewPayment(m, "ALLOW", tier, validUntil, nonce, signer)
    /\ screened' = [screened EXCEPT ![m] =
         [head |-> receipt.head, validUntil |-> receipt.validUntil]]
    /\ UNCHANGED <<screeningProfile, executionMode, activeHead>>

\* HOLD and REJECT need no evidence, so an outage blocks no revocation.
reviewUnscreened(m, decision, tier, validUntil, nonce, signer) ==
    /\ decision # "ALLOW"
    /\ reviewPayment(m, decision, tier, validUntil, nonce, signer)
    /\ screened' = [screened EXCEPT ![m] = NotScreened]
    /\ UNCHANGED <<screeningProfile, executionMode, activeHead>>

\* Seeded fault: the evidence is not compared with the list that is active now.
StillScreenedByAnyHead(m) ==
    /\ screened[m] # NotScreened /\ screeningProfile # NoProfile /\ activeHead # NoHead
    /\ now <= screened[m].validUntil
    /\ IndependentIssuer(screeningProfile)

StillScreened(m) ==
    /\ screened[m] # NotScreened
    /\ screeningProfile # NoProfile
    /\ screened[m].head = activeHead
    /\ now <= screened[m].validUntil /\ now <= activeHead.validUntil
    /\ IndependentIssuer(screeningProfile)

executeScreenedPayment(m) ==
    /\ StillScreened(m)
    /\ executePayment(m)
    /\ UNCHANGED screeningVars

-----------------------------------------------------------------------------
ScreenedReview(m, receipt) ==
    \E tier \in ReviewTiers, nonce \in ReviewNonces, signer \in Keys :
        \E validUntil \in now .. now + MaxReviewTtl :
            reviewScreenedRelease(m, tier, validUntil, nonce, signer, receipt)

UnscreenedReview(m) ==
    \E decision \in ReviewDecisions, tier \in ReviewTiers, nonce \in ReviewNonces,
       signer \in Keys :
        \E validUntil \in now .. now + MaxReviewTtl :
            reviewUnscreened(m, decision, tier, validUntil, nonce, signer)

\* What evidence is judged by changes.
ScreeningMoves ==
    \/ revokeScreeningProfile
    \/ \E p \in Profiles : applyScreeningProfile(p)
    \/ \E h \in SignedHeads : registerScreeningHead(h)

\* scheduleScreeningProfile, scheduleExecutionMode
ScheduleScreening ==
    \E action \in ScheduledScreening : schedule(action) /\ UNCHANGED screeningVars

\* What screening has no part in.
InheritedAction ==
    /\ \/ (GuardianStep \/ Tick) /\ UNCHANGED <<vaultVars, escrowVars>>
       \/ FundingAction
       \/ AuthorityAction
       \/ ApplyAction
       \/ ReturnAction
    /\ UNCHANGED screeningVars

SNext ==
    \/ InheritedAction
    \/ \E m \in Messages, receipt \in SignedReceipts : ScreenedReview(m, receipt)
    \/ \E m \in Messages : UnscreenedReview(m) \/ executeScreenedPayment(m)
    \/ ScreeningMoves
    \/ ScheduleScreening
    \/ \E mode \in ExecutionModes : applyExecutionMode(mode)

SSpec == SInit /\ [][SNext]_svars
=============================================================================
