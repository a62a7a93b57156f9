------------------------- MODULE CctpPaymentEscrow --------------------------
(***************************************************************************)
(* The customer payment escrow of contracts/evm/src/CctpPaymentEscrow.sol  *)
(* and CctpEscrow.sol: a vault whose requests are CCTP v2 credits minted   *)
(* by Circle, whose payouts also obey a customer policy, and whose credits *)
(* can be recalled to a fixed return recipient.                            *)
(*                                                                         *)
(* The release id is the CCTP nonce.  policyHash is a hash chain over all  *)
(* commits, so along one history it is determined by policyVersion and is  *)
(* modelled by it; intentPolicyHash, written at the source before the      *)
(* message settles, may name any version.  Circle's transmitter is         *)
(* external: it mints exactly the attested net amount, once per nonce.     *)
(* Funds is what third parties have sent to the escrow besides; it creates *)
(* no credit, and no handler reads the balance.                            *)
(***************************************************************************)
EXTENDS ProtectedVault, FiniteSets

CONSTANTS
    Attested,          \* messages Circle has attested for this escrow
    Operations,        \* business operation ids
    Policies,          \* payment policies
    Scheduled,         \* loosenings the authority schedules
    InitialPolicy,     \* config.policy
    InitialRecipients, \* config.recipients
    RecoveryDelay,     \* config.recoveryDelay
    PolicyChangeDelay, \* POLICY_CHANGE_DELAY
    MaxVersion         \* bound on policyVersion

PaymentPolicy == [maxPayment: Nat, manualApprovalAbove: Nat, delayAbove: Nat, delaySeconds: Nat]

\* _validatePolicy
ValidPolicy(p) ==
    /\ p.maxPayment # 0
    /\ p.manualApprovalAbove <= p.maxPayment
    /\ p.delayAbove <= p.maxPayment

CctpMessage == [nonce: Messages, to: Recipients, net: Payouts \ {0}, operation: Operations,
                intent: Nat]

ASSUME EscrowAssumption ==
    /\ Attested \subseteq CctpMessage
    /\ Policies \union {InitialPolicy} \subseteq {p \in PaymentPolicy : ValidPolicy(p)}
    /\ InitialRecipients \subseteq Recipients
    /\ RecoveryDelay \in Nat \ {0}
    /\ PolicyChangeDelay \in Nat
    /\ MaxVersion \in Nat \ {0}

ASSUME EscrowClock == Genesis > 0

\* A message id is 32 bytes.
ASSUME MessagesAssumption == IsFiniteSet(Messages)

VARIABLES
    credits,               \* message id -> Credit struct
    usedCctpNonces,
    usedOperations,
    paymentPolicy,
    paymentsPaused,
    policyVersion,         \* also stands for policyHash
    queuedChange,          \* the one queued loosening, bound to a version
    queuedChangeAt,
    permittedRecipients,
    approvedPolicyVersion, \* message id -> version the customer approved it under
    reviewedPolicyVersion, \* message id -> version of its last ALLOW
    paymentDelayUntil,     \* message id -> customer delay clock
    totals                 \* totalCredited, totalPaid, totalReturned

creditVars == <<credits, usedCctpNonces, usedOperations>>
policyVars == <<paymentPolicy, paymentsPaused, policyVersion, queuedChange, queuedChangeAt,
                permittedRecipients>>
clearanceVars == <<approvedPolicyVersion, reviewedPolicyVersion, paymentDelayUntil>>
escrowVars == <<creditVars, policyVars, clearanceVars, totals>>
evars == <<vvars, escrowVars>>

-----------------------------------------------------------------------------
Credit == [operation: Operations \union {NoAddress}, intent: Nat, returnAt: Nat,
           returned: BOOLEAN]

NoCredit == [operation |-> NoAddress, intent |-> 0, returnAt |-> 0, returned |-> FALSE]

SetPolicy(p)      == [policy |-> p]
GrantRecipient(a) == [recipient |-> a]
Unpause           == [paused |-> FALSE]
NoAction          == [none |-> FALSE]

Actions == {SetPolicy(p) : p \in Policies} \union {GrantRecipient(a) : a \in Recipients}
             \union {Unpause}

ASSUME ScheduleAssumption == Scheduled \subseteq Actions

NoChange == [version |-> 0, action |-> NoAction]

\* What every payment escrow starts with; only a screened one starts paused.
EscrowDeployed ==
    /\ credits = [m \in Messages |-> NoCredit]
    /\ usedCctpNonces = {}
    /\ usedOperations = {}
    /\ paymentPolicy = InitialPolicy
    /\ policyVersion = 1
    /\ queuedChange = NoChange
    /\ queuedChangeAt = 0
    /\ permittedRecipients = InitialRecipients
    /\ approvedPolicyVersion = [m \in Messages |-> 0]
    /\ reviewedPolicyVersion = [m \in Messages |-> 0]
    /\ paymentDelayUntil = [m \in Messages |-> 0]
    /\ totals = [credited |-> 0, paid |-> 0, returned |-> 0]

EscrowInit == EscrowDeployed /\ paymentsPaused = FALSE

EInit == VInit /\ EscrowInit

-----------------------------------------------------------------------------
(* Funding.                                                                *)

\* Seeded fault: the operation id is recorded but not checked.
NewMessageOnly(c) == c.nonce \notin usedCctpNonces

NewMessage(c) == c.nonce \notin usedCctpNonces /\ c.operation \notin usedOperations

\* Circle mints and the credit is registered in one transaction; a message
\* that fails any check mints nothing.
receiveCctp(c) ==
    /\ NewMessage(c)
    /\ RecordRequest(c.nonce, c.to, c.net)
    /\ vaultTokens' = vaultTokens + c.net
    /\ usedCctpNonces' = usedCctpNonces \union {c.nonce}
    /\ usedOperations' = usedOperations \union {c.operation}
    /\ credits' = [credits EXCEPT ![c.nonce] =
         [operation |-> c.operation, intent |-> c.intent, returnAt |-> 0, returned |-> FALSE]]
    /\ totals' = [totals EXCEPT !.credited = @ + c.net]
    /\ UNCHANGED <<vars, releaseDelayUntil, rejectedAt, policyVars, clearanceVars>>

-----------------------------------------------------------------------------
(* Review and payout: the vault's handlers with the escrow's hooks.        *)

\* Seeded fault: the customer's clock starts once, whatever the policy becomes.
CustomerDelayOnce(m) ==
    IF paymentDelayUntil[m] = 0 /\ releases[m].amount > paymentPolicy.delayAbove
    THEN now + paymentPolicy.delaySeconds ELSE paymentDelayUntil[m]

\* A first ALLOW under a policy version can add a delay, never shorten one.
CustomerDelay(m) ==
    IF reviewedPolicyVersion[m] # policyVersion /\ releases[m].amount > paymentPolicy.delayAbove
    THEN LET candidate == now + paymentPolicy.delaySeconds
         IN  IF candidate > paymentDelayUntil[m] THEN candidate ELSE paymentDelayUntil[m]
    ELSE paymentDelayUntil[m]

\* Seeded fault: as in the plain vault, a rejected payout may be reviewed again.
NotRejectedForGood(m) == TRUE

NotRejected(m) == releases[m].state # "REJECTED"

\* Seeded fault: a payout may still race the return that was requested.
NoReturnCompleted(m) == ~credits[m].returned

NoReturn(m) == credits[m].returnAt = 0

BeforeReview(m, decision) ==
    /\ NotRejected(m)
    /\ NoReturn(m)
    /\ \/ /\ decision = "ALLOW"
          /\ paymentDelayUntil' = [paymentDelayUntil EXCEPT ![m] = CustomerDelay(m)]
          /\ reviewedPolicyVersion' = [reviewedPolicyVersion EXCEPT ![m] = policyVersion]
       \/ /\ decision # "ALLOW"
          /\ UNCHANGED <<paymentDelayUntil, reviewedPolicyVersion>>

reviewPayment(m, decision, tier, validUntil, nonce, signer) ==
    /\ BeforeReview(m, decision)
    /\ reviewRelease(m, decision, tier, validUntil, nonce, signer)
    /\ UNCHANGED <<creditVars, policyVars, approvedPolicyVersion, totals>>

NeedsApproval(m) ==
    \/ releases[m].amount > paymentPolicy.manualApprovalAbove
    \/ credits[m].intent # policyVersion

\* Seeded fault: an ALLOW outlives the policy it was given under.
ReviewedEver(m) == reviewedPolicyVersion[m] # 0

ReviewedNow(m) == reviewedPolicyVersion[m] = policyVersion

BeforeExecute(m) ==
    /\ NoReturn(m)
    /\ ReviewedNow(m)
    /\ ~paymentsPaused
    /\ releases[m].to \in permittedRecipients
    /\ releases[m].amount <= paymentPolicy.maxPayment
    /\ NeedsApproval(m) => approvedPolicyVersion[m] = policyVersion
    /\ now >= paymentDelayUntil[m]

executePayment(m) ==
    /\ BeforeExecute(m)
    /\ executeRelease(m)
    /\ totals' = [totals EXCEPT !.paid = @ + releases[m].amount]
    /\ UNCHANGED <<creditVars, policyVars, clearanceVars>>

approvePayment(m) ==
    /\ Requested(m)
    /\ releases[m].state # "EXECUTED" /\ NotRejected(m)
    /\ NoReturn(m)
    /\ approvedPolicyVersion' = [approvedPolicyVersion EXCEPT ![m] = policyVersion]
    /\ UNCHANGED <<vvars, creditVars, policyVars, reviewedPolicyVersion, paymentDelayUntil,
                   totals>>

-----------------------------------------------------------------------------
(* The customer's policy: tightening is immediate, loosening waits a day.  *)

policyFrame == <<vvars, creditVars, clearanceVars, totals>>

\* Every commit cancels whatever is queued.
Commit ==
    /\ policyVersion < MaxVersion
    /\ policyVersion' = policyVersion + 1
    /\ queuedChange' = NoChange
    /\ queuedChangeAt' = 0

pausePayments ==
    /\ Commit
    /\ paymentsPaused' = TRUE
    /\ UNCHANGED <<policyFrame, paymentPolicy, permittedRecipients>>

revokeRecipient(a) ==
    /\ Commit
    /\ permittedRecipients' = permittedRecipients \ {a}
    /\ UNCHANGED <<policyFrame, paymentPolicy, paymentsPaused>>

\* schedulePolicy, scheduleRecipient, scheduleUnpause
schedule(action) ==
    /\ queuedChange' = [version |-> policyVersion, action |-> action]
    /\ queuedChangeAt' = now + PolicyChangeDelay
    /\ UNCHANGED <<policyFrame, paymentPolicy, paymentsPaused, policyVersion,
                   permittedRecipients>>

\* Seeded fault: the notice of one change serves for any other.
ConsumeAny(action) ==
    /\ queuedChangeAt # 0 /\ now >= queuedChangeAt
    /\ queuedChange.version = policyVersion
    /\ Commit
    /\ UNCHANGED policyFrame

\* _consume, and the _commit that always follows it.
Consume(action) ==
    /\ queuedChangeAt # 0 /\ now >= queuedChangeAt
    /\ queuedChange = [version |-> policyVersion, action |-> action]
    /\ Commit
    /\ UNCHANGED policyFrame

applyPolicy(p) ==
    /\ Consume(SetPolicy(p))
    /\ paymentPolicy' = p
    /\ UNCHANGED <<paymentsPaused, permittedRecipients>>

applyRecipient(a) ==
    /\ Consume(GrantRecipient(a))
    /\ permittedRecipients' = permittedRecipients \union {a}
    /\ UNCHANGED <<paymentPolicy, paymentsPaused>>

applyUnpause ==
    /\ Consume(Unpause)
    /\ paymentsPaused' = FALSE
    /\ UNCHANGED <<paymentPolicy, permittedRecipients>>

-----------------------------------------------------------------------------
(* The customer's return: never cancelled, never redirected.               *)

requestReturn(m) ==
    /\ Requested(m)
    /\ releases[m].state # "EXECUTED"
    /\ ~credits[m].returned
    /\ NoReturn(m)
    /\ credits' = [credits EXCEPT ![m] = [@ EXCEPT !.returnAt = now + RecoveryDelay]]
    /\ UNCHANGED <<vvars, usedCctpNonces, usedOperations, policyVars, clearanceVars, totals>>

Matured(m) == credits[m].returnAt # 0 /\ now >= credits[m].returnAt

\* Seeded fault: a matured return may be carried out twice.
ReturnableAgain(m) == Requested(m) /\ releases[m].state # "EXECUTED" /\ Matured(m)

\* Seeded fault: the customer's pause also stops returns.
ReturnableUnlessPaused(m) ==
    /\ Requested(m) /\ releases[m].state # "EXECUTED"
    /\ ~credits[m].returned /\ Matured(m) /\ ~paymentsPaused

Returnable(m) ==
    /\ Requested(m)
    /\ releases[m].state # "EXECUTED"
    /\ ~credits[m].returned
    /\ Matured(m)

ReturnTotals(m) == [totals EXCEPT !.returned = @ + releases[m].amount]

\* Permissionless.
executeReturn(m) ==
    /\ Returnable(m)
    /\ vaultTokens >= releases[m].amount
    /\ vaultTokens' = vaultTokens - releases[m].amount
    /\ credits' = [credits EXCEPT ![m] = [@ EXCEPT !.returned = TRUE]]
    /\ releases' = [releases EXCEPT ![m] = [@ EXCEPT !.state = "REJECTED"]]
    /\ totals' = ReturnTotals(m)
    /\ UNCHANGED <<vars, releaseDelayUntil, rejectedAt, usedCctpNonces, usedOperations,
                   policyVars, clearanceVars>>

-----------------------------------------------------------------------------
PaymentReview ==
    \E m \in Messages, decision \in ReviewDecisions, tier \in ReviewTiers,
       nonce \in ReviewNonces, signer \in Keys :
        \E validUntil \in now .. now + MaxReviewTtl :
            reviewPayment(m, decision, tier, validUntil, nonce, signer)

FundingAction == \E c \in Attested : receiveCctp(c)

AuthorityAction ==
    \/ pausePayments
    \/ \E m \in Messages : approvePayment(m)
    \/ \E a \in Recipients : revokeRecipient(a)
    \/ \E action \in Scheduled : schedule(action)

ApplyAction ==
    \/ \E p \in Policies : applyPolicy(p)
    \/ \E a \in Recipients : applyRecipient(a)
    \/ applyUnpause

ReturnAction == \E m \in Messages : requestReturn(m) \/ executeReturn(m)

ENext ==
    \/ (GuardianStep \/ Tick) /\ UNCHANGED <<vaultVars, escrowVars>>
    \/ FundingAction
    \/ PaymentReview
    \/ \E m \in Messages : executePayment(m)
    \/ AuthorityAction
    \/ ApplyAction
    \/ ReturnAction

ESpec == EInit /\ [][ENext]_evars

\* Time passes, and anyone may carry out a matured return: the customer who
\* asked for it has the interest and needs nobody's permission.
ReturnFairness ==
    /\ WF_evars(Tick /\ UNCHANGED <<vaultVars, escrowVars>>)
    /\ \A m \in Messages : WF_evars(executeReturn(m))

-----------------------------------------------------------------------------
EscrowTypeOK ==
    /\ VaultTypeOK
    /\ credits \in [Messages -> Credit]
    /\ usedCctpNonces \subseteq Messages
    /\ usedOperations \subseteq Operations
    /\ paymentPolicy \in PaymentPolicy
    /\ paymentsPaused \in BOOLEAN
    /\ policyVersion \in 1 .. MaxVersion
    /\ queuedChange \in [version: 0 .. MaxVersion, action: Actions \union {NoAction}]
    /\ queuedChangeAt \in Nat
    /\ permittedRecipients \subseteq Recipients
    /\ approvedPolicyVersion \in [Messages -> 0 .. MaxVersion]
    /\ reviewedPolicyVersion \in [Messages -> 0 .. MaxVersion]
    /\ paymentDelayUntil \in [Messages -> Nat]
    /\ totals \in [credited: Nat, paid: Nat, returned: Nat]

Outstanding(m) == Requested(m) /\ releases[m].state # "EXECUTED" /\ ~credits[m].returned

outstandingCredit == totals.credited - totals.paid - totals.returned

\* Paid and returned are mutually exclusive full-credit outcomes: what the
\* totals leave outstanding is exactly the credits neither paid nor returned,
\* and the escrow holds at least that.
Solvent ==
    /\ outstandingCredit =
         SumFunction([m \in Messages |-> IF Outstanding(m) THEN releases[m].amount ELSE 0])
    /\ vaultTokens >= outstandingCredit

\* A return, once requested, excludes the payout, and a credit returned leaves
\* its release rejected.
ReturnExcludesPayout ==
    \A m \in Messages :
        /\ credits[m].returnAt # 0 => releases[m].state # "EXECUTED"
        /\ credits[m].returned => releases[m].state = "REJECTED" /\ credits[m].returnAt # 0

\* Each business operation funds at most one credit.
OneCreditPerOperation ==
    \A m, n \in Messages :
        Requested(m) /\ Requested(n) /\ credits[m].operation = credits[n].operation => m = n

\* The credits on record are well formed and each stands for its own operation.
CreditsDistinct == EscrowTypeOK /\ OneCreditPerOperation

\* A return that matures within the modelled time is carried out, whatever the
\* guardian, the oracle and the customer's policy do meanwhile.
ReturnsHappen ==
    \A m \in Messages :
        credits[m].returnAt \in 1 .. Horizon ~> credits[m].returned
=============================================================================
