----------------------------- MODULE EscrowProofs -----------------------------
(***************************************************************************)
(* The payment escrow and the screened one, for any messages, policies,    *)
(* lists, receipts, durations and bounds.  Of the escrow: what it owes is  *)
(* there, a credit is paid or returned but never both, each operation      *)
(* funds one credit, and a rejection is final.  Against its own past: the  *)
(* customer's policy binds every payout, so that what the contract         *)
(* compares (a version number, a timestamp) stands for what happened (the  *)
(* history variables).  The payments of the screened escrow rest on        *)
(* evidence that still stands, and it keeps what is proved of the payment  *)
(* escrow it extends.                                                      *)
(***************************************************************************)
EXTENDS EscrowHistory, ScreeningHistory, ProtectedVaultProofs, FiniteSums

-----------------------------------------------------------------------------
(* The strengthening.                                                      *)

\* A message that never arrived has left no trace, and one that did has used
\* up its operation.
CreditOf(m) ==
    /\ ~Requested(m) =>
         credits[m].returnAt = 0 /\ ~credits[m].returned /\ releases[m].state = "PENDING"
    /\ Requested(m) => credits[m].operation \in usedOperations

\* No clearance is of a later version than the current one.
VersionsPast ==
    \A m \in Messages :
        approvedPolicyVersion[m] <= policyVersion /\ reviewedPolicyVersion[m] <= policyVersion

CreditTypes ==
    /\ credits \in [Messages -> Credit]
    /\ usedCctpNonces \subseteq Messages
    /\ usedOperations \subseteq Operations
    /\ totals \in [credited: Nat, paid: Nat, returned: Nat]

PolicyTypes ==
    /\ paymentPolicy \in PaymentPolicy
    /\ paymentsPaused \in BOOLEAN
    /\ policyVersion \in 1 .. MaxVersion
    /\ queuedChangeAt \in Nat
    /\ permittedRecipients \subseteq Recipients

ClearanceTypes ==
    /\ approvedPolicyVersion \in [Messages -> 0 .. MaxVersion]
    /\ reviewedPolicyVersion \in [Messages -> 0 .. MaxVersion]
    /\ paymentDelayUntil \in [Messages -> Nat]

\* What an escrow keeps whatever its queue may hold: a screened escrow queues
\* changes of its own.
EscrowInv ==
    /\ VInv /\ now >= Genesis
    /\ CreditTypes /\ PolicyTypes /\ ClearanceTypes
    /\ \A m \in Messages : CreditOf(m)
    /\ ReturnExcludesPayout /\ OneCreditPerOperation
    /\ VersionsPast

QueueTyped == queuedChange \in [version: 0 .. MaxVersion, action: Actions \union {NoAction}]

\* The type invariant of a run is part of the strengthening.
LEMMA EscrowTypes == EscrowInv /\ QueueTyped => EscrowTypeOK
  BY DEF EscrowInv, VInv, QueueTyped, EscrowTypeOK, CreditTypes, PolicyTypes, ClearanceTypes

\* What a release pays is an amount.
LEMMA AmountNat ==
  ASSUME VaultTypeOK, NEW m \in Messages
  PROVE  releases[m].amount \in Nat
<1>1. releases[m] \in Release
  BY DEF VaultTypeOK
<1>2. releases[m].amount \in Payouts \/ releases[m].amount = 0
  BY <1>1 DEF Release
<1>3. \A amount \in Payouts : amount \in Nat
  BY VaultAssumption, DataAssumption
<1>4. CASE releases[m].amount \in Payouts
  BY <1>3, <1>4
<1>5. CASE releases[m].amount = 0
  BY <1>5
<1> QED BY <1>2, <1>4, <1>5

-----------------------------------------------------------------------------
\* A deployed escrow, paused or not, has no credit.
LEMMA InitEscrow == VInit /\ EscrowDeployed /\ paymentsPaused \in BOOLEAN => EscrowInv
<1> SUFFICES ASSUME VInit, EscrowDeployed, paymentsPaused \in BOOLEAN PROVE EscrowInv
  OBVIOUS
<1> USE EscrowAssumption, EscrowClock, ClockAssumption
<1>1. VInv /\ now >= Genesis
  BY VInitInv DEF VInit, Init
<1>2. CreditTypes /\ PolicyTypes /\ ClearanceTypes
  BY DEF EscrowDeployed, CreditTypes, PolicyTypes, ClearanceTypes, NoCredit, Credit
<1>3. \A m \in Messages : ~Requested(m) /\ releases[m].state = "PENDING"
  BY DEF VInit, VaultInit, Requested, NewRelease
<1>4. \A m \in Messages : credits[m].returnAt = 0 /\ ~credits[m].returned
  BY DEF EscrowDeployed, NoCredit
<1>5. (\A m \in Messages : CreditOf(m)) /\ ReturnExcludesPayout /\ OneCreditPerOperation
  BY <1>3, <1>4 DEF CreditOf, ReturnExcludesPayout, OneCreditPerOperation
<1>6. VersionsPast
  BY DEF EscrowDeployed, VersionsPast
<1> QED BY <1>1, <1>2, <1>5, <1>6 DEF EscrowInv

\* Steps of the guardian and the clock.
LEMMA GuardianEscrow ==
  ASSUME EscrowInv, [VNext]_vvars, UNCHANGED vaultVars, UNCHANGED escrowVars
  PROVE  EscrowInv'
<1> USE EscrowAssumption, ClockAssumption
<1>1. VInv' /\ now' >= now /\ now \in Nat /\ now' \in Nat
  <2>1. VInv'
    BY VNextInv DEF EscrowInv
  <2> QED BY <2>1, VaultStepIsGuardianStep, ClockMonotone DEF EscrowInv, VInv, VaultTypeOK, TypeOK
<1>2. now' >= Genesis
  BY <1>1 DEF EscrowInv
<1>3. UNCHANGED <<releases, creditVars, policyVars, clearanceVars, totals>>
  BY DEF vaultVars, escrowVars
<1> QED
  BY <1>1, <1>2, <1>3
  DEF EscrowInv, creditVars, policyVars, clearanceVars, CreditTypes, PolicyTypes, ClearanceTypes,
      CreditOf, ReturnExcludesPayout, OneCreditPerOperation, VersionsPast, Requested

\* The customer's policy and its queue touch no credit.
LEMMA PolicyEscrow ==
  ASSUME EscrowInv, UNCHANGED policyFrame, policyVersion' \in policyVersion .. MaxVersion,
         paymentPolicy' \in PaymentPolicy, paymentsPaused' \in BOOLEAN,
         queuedChangeAt' \in Nat, permittedRecipients' \subseteq Recipients
  PROVE  EscrowInv'
<1> USE EscrowAssumption
<1>0. policyVersion \in 1 .. MaxVersion
  BY DEF EscrowInv, PolicyTypes
<1>1. UNCHANGED <<vars, vaultVars, creditVars, clearanceVars, totals>>
  BY DEF policyFrame, vvars
<1>2. VInv' /\ now' >= Genesis
  <2>1. UNCHANGED vvars
    BY <1>1 DEF vvars
  <2> QED BY <2>1, <1>1, VNextInv DEF EscrowInv, vars
<1>3. PolicyTypes'
  BY <1>0 DEF PolicyTypes
<1>4. VersionsPast'
  BY <1>0, <1>1 DEF EscrowInv, VersionsPast, clearanceVars, ClearanceTypes
<1> QED
  BY <1>1, <1>2, <1>3, <1>4
  DEF EscrowInv, creditVars, clearanceVars, vaultVars, CreditTypes, ClearanceTypes,
      CreditOf, ReturnExcludesPayout, OneCreditPerOperation, Requested

\* Funding: a new credit, for a new message and a new operation.
LEMMA FundingEscrow ==
  ASSUME EscrowInv, NEW c \in Attested, receiveCctp(c)
  PROVE  EscrowInv'
<1> USE EscrowAssumption, VaultAssumption, DataAssumption
<1> DEFINE m == c.nonce
           new == NewRelease(c.to, c.net)
           credit == [operation |-> c.operation, intent |-> c.intent, returnAt |-> 0,
                      returned |-> FALSE]
<1>0. c \in CctpMessage
  OBVIOUS
<1>1. /\ m \in Messages /\ c.to \in Recipients /\ c.net \in Payouts /\ c.net \in Nat
      /\ c.operation \in Operations /\ c.intent \in Nat
  BY <1>0 DEF CctpMessage
<1>2. /\ ~Requested(m) /\ c.operation \notin usedOperations
      /\ releases' = [releases EXCEPT ![m] = new]
      /\ vaultTokens' = vaultTokens + c.net
      /\ usedCctpNonces' = usedCctpNonces \union {m}
      /\ usedOperations' = usedOperations \union {c.operation}
      /\ credits' = [credits EXCEPT ![m] = credit]
      /\ totals' = [totals EXCEPT !.credited = @ + c.net]
      /\ UNCHANGED <<vars, releaseDelayUntil, rejectedAt, policyVars, clearanceVars>>
  BY DEF receiveCctp, RecordRequest, NewMessage
<1>3. new \in Release /\ new.state = "PENDING" /\ new.to = c.to /\ c.to # NoAddress
  BY <1>1 DEF NewRelease, Release, ReleaseStates, ReviewNonces, Tiers, NONE, FREEZE
<1>4. credit \in Credit /\ credit.returnAt = 0 /\ ~credit.returned
      /\ credit.operation = c.operation
  BY <1>1 DEF Credit
<1>5. /\ VaultTypeOK /\ releases \in [Messages -> Release] /\ credits \in [Messages -> Credit]
      /\ now \in Nat /\ vaultTokens \in Nat
  BY DEF EscrowInv, VInv, VaultTypeOK, TypeOK, CreditTypes
<1> HIDE DEF m, new, credit
<1>6. VInv'
  <2>1. TypeOK'
    BY <1>2, <1>5, NextType DEF VaultTypeOK
  <2>2. VaultTypeOK'
    BY <1>1, <1>2, <1>3, <1>5, <2>1 DEF VaultTypeOK
  <2>3. RejectionRests' /\ CleanUntilRequested'
    BY <1>1, <1>2, <1>3, <1>5
    DEF EscrowInv, VInv, RejectionRests, CleanUntilRequested, Requested, vars
  <2> QED BY <2>2, <2>3 DEF VInv
<1>7. now' >= Genesis /\ PolicyTypes' /\ ClearanceTypes' /\ VersionsPast'
  BY <1>2 DEF EscrowInv, PolicyTypes, ClearanceTypes, VersionsPast, policyVars, clearanceVars, vars
<1>8. CreditTypes'
  <2>1. totals' \in [credited: Nat, paid: Nat, returned: Nat]
    BY <1>1, <1>2 DEF EscrowInv, CreditTypes
  <2> QED BY <1>1, <1>2, <1>4, <1>5, <2>1 DEF EscrowInv, CreditTypes
<1>9. \A q \in Messages : CreditOf(q)'
  BY <1>1, <1>2, <1>3, <1>4, <1>5 DEF EscrowInv, CreditOf, Requested
<1>10. ReturnExcludesPayout'
  BY <1>1, <1>2, <1>3, <1>4, <1>5 DEF EscrowInv, ReturnExcludesPayout
<1>11. OneCreditPerOperation'
  BY <1>1, <1>2, <1>3, <1>4, <1>5
  DEF EscrowInv, OneCreditPerOperation, CreditOf, Requested
<1> QED BY <1>6, <1>7, <1>8, <1>9, <1>10, <1>11 DEF EscrowInv

\* The customer's clock is a time, and a review never turns it back.
LEMMA CustomerDelayType ==
  ASSUME EscrowInv, NEW m \in Messages
  PROVE  CustomerDelay(m) \in Nat /\ CustomerDelay(m) >= paymentDelayUntil[m]
<1>1. paymentDelayUntil[m] \in Nat /\ now \in Nat /\ paymentPolicy.delaySeconds \in Nat
  BY DEF EscrowInv, VInv, VaultTypeOK, TypeOK, ClearanceTypes, PolicyTypes, PaymentPolicy
<1> QED BY <1>1 DEF CustomerDelay

\* Review: only the clearance of one requested, unrejected credit changes.
LEMMA ReviewEscrow ==
  ASSUME EscrowInv, NEW m \in Messages, NEW decision \in ReviewDecisions,
         NEW tier \in ReviewTiers, NEW nonce \in ReviewNonces, NEW signer \in Keys,
         NEW validUntil \in now .. now + MaxReviewTtl,
         reviewPayment(m, decision, tier, validUntil, nonce, signer)
  PROVE  EscrowInv'
<1> DEFINE new == ReviewedRelease(m, decision, tier, validUntil, nonce, signer)
<1>1. reviewRelease(m, decision, tier, validUntil, nonce, signer)
  BY DEF reviewPayment
<1>2. VInv'
  BY <1>1, VNextInv DEF EscrowInv, VNext, ReviewAction
<1>3. /\ VaultTypeOK /\ releases \in [Messages -> Release]
      /\ now \in Nat /\ validUntil \in Nat
  BY VaultAssumption DEF EscrowInv, VInv, VaultTypeOK, TypeOK
<1>4. new.state = StateAfter(decision) /\ new.to = releases[m].to
  BY <1>3, ReviewedType
<1>5. /\ Requested(m) /\ releases[m].state \notin {"EXECUTED", "REJECTED"}
      /\ credits[m].returnAt = 0
      /\ releases' = [releases EXCEPT ![m] = new]
      /\ UNCHANGED <<vars, creditVars, policyVars, approvedPolicyVersion, totals>>
  BY <1>1
  DEF reviewRelease, RecordReview, reviewPayment, BeforeReview, NotRejected, NoReturn, vars
<1> HIDE DEF new
<1>6. \A q \in Messages : Requested(q)' <=> Requested(q)
  BY <1>3, <1>4, <1>5 DEF Requested
<1>7. ClearanceTypes' /\ VersionsPast'
  BY CustomerDelayType, <1>5
  DEF reviewPayment, BeforeReview, EscrowInv, ClearanceTypes, PolicyTypes, VersionsPast, policyVars
<1>8. CreditTypes' /\ PolicyTypes' /\ now' >= Genesis
  BY <1>5 DEF EscrowInv, CreditTypes, PolicyTypes, creditVars, policyVars, vars
<1>9. \A q \in Messages : CreditOf(q)'
  BY <1>3, <1>5, <1>6 DEF EscrowInv, CreditOf, creditVars
<1>10. ReturnExcludesPayout' /\ OneCreditPerOperation'
  <2>1. ~credits[m].returned
    BY <1>5 DEF EscrowInv, ReturnExcludesPayout
  <2> QED BY <1>3, <1>4, <1>5, <1>6, <2>1
          DEF EscrowInv, ReturnExcludesPayout, OneCreditPerOperation, creditVars
<1> QED BY <1>2, <1>7, <1>8, <1>9, <1>10 DEF EscrowInv

\* Payout: of a credit whose return nobody asked for.
LEMMA PayoutEscrow ==
  ASSUME EscrowInv, NEW m \in Messages, executePayment(m)
  PROVE  EscrowInv'
<1> DEFINE new == [releases[m] EXCEPT !.state = "EXECUTED"]
<1>1. VInv'
  BY VNextInv DEF executePayment, EscrowInv, VNext, ExecuteAction
<1>2. /\ releases \in [Messages -> Release] /\ releases[m].amount \in Nat
  BY AmountNat DEF EscrowInv, VInv, VaultTypeOK
<1>3. /\ Requested(m) /\ credits[m].returnAt = 0
      /\ releases' = [releases EXCEPT ![m] = new] /\ now' = now
      /\ totals' = [totals EXCEPT !.paid = @ + releases[m].amount]
      /\ UNCHANGED <<creditVars, policyVars, clearanceVars>>
  BY DEF executePayment, executeRelease, Executable, onTokenOutflow, BeforeExecute, NoReturn
<1>4. new.state = "EXECUTED" /\ new.to = releases[m].to
  BY <1>2 DEF Release
<1> HIDE DEF new
<1>5. \A q \in Messages : Requested(q)' <=> Requested(q)
  BY <1>2, <1>3, <1>4 DEF Requested
<1>6. CreditTypes' /\ PolicyTypes' /\ ClearanceTypes' /\ VersionsPast' /\ now' >= Genesis
  BY <1>2, <1>3
  DEF EscrowInv, CreditTypes, PolicyTypes, ClearanceTypes, VersionsPast, creditVars, policyVars,
      clearanceVars
<1>7. \A q \in Messages : CreditOf(q)'
  BY <1>2, <1>3, <1>5 DEF EscrowInv, CreditOf, creditVars
<1>8. ReturnExcludesPayout' /\ OneCreditPerOperation'
  <2>1. ~credits[m].returned
    BY <1>3 DEF EscrowInv, ReturnExcludesPayout
  <2> QED BY <1>2, <1>3, <1>5, <2>1
          DEF EscrowInv, ReturnExcludesPayout, OneCreditPerOperation, creditVars
<1> QED BY <1>1, <1>6, <1>7, <1>8 DEF EscrowInv

\* Approval, and the request of a return.
LEMMA ApprovalEscrow ==
  ASSUME EscrowInv, NEW m \in Messages, approvePayment(m)
  PROVE  EscrowInv'
<1>1. /\ approvedPolicyVersion' = [approvedPolicyVersion EXCEPT ![m] = policyVersion]
      /\ UNCHANGED <<vvars, creditVars, policyVars, reviewedPolicyVersion, paymentDelayUntil,
                     totals>>
  BY DEF approvePayment
<1>2. VInv' /\ now' >= Genesis /\ UNCHANGED releases
  BY <1>1, VNextInv DEF EscrowInv, vvars, vars, vaultVars
<1> QED
  BY <1>1, <1>2
  DEF EscrowInv, creditVars, policyVars, CreditTypes, PolicyTypes, ClearanceTypes, CreditOf,
      ReturnExcludesPayout, OneCreditPerOperation, VersionsPast, Requested

\* The request of a return: no credit paid, and none returned yet.
LEMMA RequestReturnEscrow ==
  ASSUME EscrowInv, NEW m \in Messages, requestReturn(m)
  PROVE  EscrowInv'
<1> DEFINE credit == [credits[m] EXCEPT !.returnAt = now + RecoveryDelay]
<1>1. /\ Requested(m) /\ releases[m].state # "EXECUTED" /\ ~credits[m].returned
      /\ credits' = [credits EXCEPT ![m] = credit]
      /\ UNCHANGED <<vvars, usedCctpNonces, usedOperations, policyVars, clearanceVars, totals>>
  BY DEF requestReturn
<1>2. credits \in [Messages -> Credit] /\ now \in Nat
  BY DEF EscrowInv, CreditTypes, VInv, VaultTypeOK, TypeOK
<1>3. credit \in Credit /\ credit.operation = credits[m].operation /\ ~credit.returned
  BY <1>1, <1>2, EscrowAssumption DEF Credit
<1> HIDE DEF credit
<1>4. VInv' /\ now' >= Genesis /\ UNCHANGED releases
  BY <1>1, VNextInv DEF EscrowInv, vvars, vars, vaultVars
<1>5. CreditTypes' /\ PolicyTypes' /\ ClearanceTypes' /\ VersionsPast'
  BY <1>1, <1>2, <1>3
  DEF EscrowInv, CreditTypes, PolicyTypes, ClearanceTypes, VersionsPast, policyVars, clearanceVars
<1>6. \A q \in Messages : CreditOf(q)'
  BY <1>1, <1>2, <1>3, <1>4 DEF EscrowInv, CreditOf, Requested
<1>7. ReturnExcludesPayout' /\ OneCreditPerOperation'
  BY <1>1, <1>2, <1>3, <1>4
  DEF EscrowInv, ReturnExcludesPayout, OneCreditPerOperation, Requested
<1> QED BY <1>4, <1>5, <1>6, <1>7 DEF EscrowInv

\* A matured return: the credit is gone and its release rejected for good.
LEMMA ReturnEscrow ==
  ASSUME EscrowInv, NEW m \in Messages, executeReturn(m)
  PROVE  EscrowInv'
<1> DEFINE credit == [credits[m] EXCEPT !.returned = TRUE]
           new == [releases[m] EXCEPT !.state = "REJECTED"]
<1>1. /\ Requested(m) /\ credits[m].returnAt # 0
      /\ vaultTokens >= releases[m].amount
      /\ vaultTokens' = vaultTokens - releases[m].amount
      /\ credits' = [credits EXCEPT ![m] = credit]
      /\ releases' = [releases EXCEPT ![m] = new]
      /\ totals' = [totals EXCEPT !.returned = @ + releases[m].amount]
      /\ UNCHANGED <<vars, releaseDelayUntil, rejectedAt, usedCctpNonces, usedOperations,
                     policyVars, clearanceVars>>
  BY DEF executeReturn, Returnable, Matured, ReturnTotals
<1>2. /\ credits \in [Messages -> Credit] /\ releases \in [Messages -> Release]
      /\ releases[m].amount \in Nat /\ VaultTypeOK /\ vaultTokens \in Nat
  BY AmountNat DEF EscrowInv, CreditTypes, VInv, VaultTypeOK
<1>3. /\ credit \in Credit /\ credit.operation = credits[m].operation /\ credit.returned
      /\ credit.returnAt = credits[m].returnAt
  BY <1>2 DEF Credit
<1>4. new \in Release /\ new.state = "REJECTED" /\ new.to = releases[m].to
  BY <1>2 DEF Release, ReleaseStates
<1> HIDE DEF credit, new
<1>5. \A q \in Messages : Requested(q)' <=> Requested(q)
  BY <1>1, <1>2, <1>4 DEF Requested
<1>6. VInv' /\ now' >= Genesis
  <2>1. TypeOK'
    BY <1>1, <1>2, NextType DEF VaultTypeOK
  <2>2. VaultTypeOK'
    BY <1>1, <1>2, <1>4, <2>1 DEF VaultTypeOK
  <2>3. RejectionRests' /\ CleanUntilRequested'
    BY <1>1, <1>2, <1>4, <1>5 DEF EscrowInv, VInv, RejectionRests, CleanUntilRequested, vars
  <2> QED BY <1>1, <2>2, <2>3 DEF VInv, EscrowInv, vars
<1>7. CreditTypes' /\ PolicyTypes' /\ ClearanceTypes' /\ VersionsPast'
  BY <1>1, <1>2, <1>3
  DEF EscrowInv, CreditTypes, PolicyTypes, ClearanceTypes, VersionsPast, policyVars, clearanceVars
<1>8. \A q \in Messages : CreditOf(q)'
  BY <1>1, <1>2, <1>3, <1>5 DEF EscrowInv, CreditOf
<1>9. ReturnExcludesPayout' /\ OneCreditPerOperation'
  BY <1>1, <1>2, <1>3, <1>4, <1>5 DEF EscrowInv, ReturnExcludesPayout, OneCreditPerOperation
<1> QED BY <1>6, <1>7, <1>8, <1>9 DEF EscrowInv

-----------------------------------------------------------------------------
(* Every step.                                                             *)

\* A commit moves the version on and cancels the queue.
LEMMA CommitTypes ==
  ASSUME EscrowInv, Commit
  PROVE  /\ policyVersion' = policyVersion + 1 /\ policyVersion' \in policyVersion .. MaxVersion
         /\ queuedChangeAt' = 0 /\ queuedChange' = NoChange
<1>1. policyVersion \in 1 .. MaxVersion
  BY DEF EscrowInv, PolicyTypes
<1> QED BY <1>1, EscrowAssumption DEF Commit

\* A loosening joins the queue.
LEMMA ScheduleEscrow ==
  ASSUME EscrowInv, NEW action, schedule(action)
  PROVE  EscrowInv'
<1>1. queuedChangeAt' \in Nat
  BY EscrowAssumption DEF schedule, EscrowInv, VInv, VaultTypeOK, TypeOK
<1>2. policyVersion' \in policyVersion .. MaxVersion
  BY EscrowAssumption DEF schedule, EscrowInv, PolicyTypes
<1>3. paymentPolicy' \in PaymentPolicy /\ paymentsPaused' \in BOOLEAN
      /\ permittedRecipients' \subseteq Recipients /\ UNCHANGED policyFrame
  BY DEF schedule, EscrowInv, PolicyTypes
<1> QED BY <1>1, <1>2, <1>3, PolicyEscrow

\* What the policy authority may do.
LEMMA AuthorityEscrow ==
  ASSUME EscrowInv, AuthorityAction
  PROVE  EscrowInv'
<1>1. PolicyTypes
  BY DEF EscrowInv
<1>2. CASE pausePayments
  BY <1>1, <1>2, CommitTypes, PolicyEscrow DEF pausePayments, PolicyTypes
<1>3. ASSUME NEW m \in Messages, approvePayment(m) PROVE EscrowInv'
  BY <1>3, ApprovalEscrow
<1>4. ASSUME NEW a \in Recipients, revokeRecipient(a) PROVE EscrowInv'
  BY <1>1, <1>4, CommitTypes, PolicyEscrow DEF revokeRecipient, PolicyTypes
<1>5. ASSUME NEW action \in Scheduled, schedule(action) PROVE EscrowInv'
  BY <1>5, ScheduleEscrow
<1> QED BY <1>2, <1>3, <1>4, <1>5 DEF AuthorityAction

\* The loosenings.
LEMMA ApplyEscrow ==
  ASSUME EscrowInv, ApplyAction
  PROVE  EscrowInv'
<1>1. PolicyTypes
  BY DEF EscrowInv
<1>2. ASSUME NEW p \in Policies, applyPolicy(p) PROVE EscrowInv'
  <2>1. p \in PaymentPolicy
    BY EscrowAssumption
  <2> QED BY <1>1, <1>2, <2>1, CommitTypes, PolicyEscrow DEF applyPolicy, Consume, PolicyTypes
<1>3. ASSUME NEW a \in Recipients, applyRecipient(a) PROVE EscrowInv'
  BY <1>1, <1>3, CommitTypes, PolicyEscrow DEF applyRecipient, Consume, PolicyTypes
<1>4. CASE applyUnpause
  <2>1. /\ UNCHANGED <<policyFrame, paymentPolicy, permittedRecipients>> /\ Commit
        /\ paymentsPaused' = FALSE
    BY <1>4 DEF applyUnpause, Consume
  <2>2. policyVersion' \in policyVersion .. MaxVersion /\ queuedChangeAt' \in Nat
    BY <2>1, CommitTypes
  <2>3. paymentPolicy' \in PaymentPolicy /\ permittedRecipients' \subseteq Recipients
    BY <1>1, <2>1 DEF PolicyTypes
  <2> QED BY <2>1, <2>2, <2>3, PolicyEscrow
<1> QED BY <1>2, <1>3, <1>4 DEF ApplyAction

\* EscrowInv is inductive.
LEMMA NextEscrow == EscrowInv /\ [ENext]_evars => EscrowInv'
<1> SUFFICES ASSUME EscrowInv, [ENext]_evars PROVE EscrowInv'
  OBVIOUS
<1>1. CASE (GuardianStep \/ Tick) /\ UNCHANGED <<vaultVars, escrowVars>>
  BY <1>1, GuardianEscrow DEF VNext
<1>2. CASE FundingAction
  BY <1>2, FundingEscrow DEF FundingAction
<1>3. CASE PaymentReview
  BY <1>3, ReviewEscrow DEF PaymentReview
<1>4. CASE \E m \in Messages : executePayment(m)
  BY <1>4, PayoutEscrow
<1>5. CASE AuthorityAction
  BY <1>5, AuthorityEscrow
<1>6. CASE ApplyAction
  BY <1>6, ApplyEscrow
<1>7. CASE ReturnAction
  BY <1>7, RequestReturnEscrow, ReturnEscrow DEF ReturnAction
<1>8. CASE UNCHANGED evars
  BY <1>8, GuardianEscrow DEF evars, vvars
<1> QED BY <1>1, <1>2, <1>3, <1>4, <1>5, <1>6, <1>7, <1>8 DEF ENext

\* Only the authority and what it announced touch the queue.
LEMMA NextQueue == EscrowInv /\ QueueTyped /\ [ENext]_evars => QueueTyped'
<1> SUFFICES ASSUME EscrowInv, QueueTyped, [ENext]_evars PROVE QueueTyped'
  OBVIOUS
<1>1. CASE UNCHANGED policyVars
  BY <1>1 DEF policyVars, QueueTyped
<1>2. CASE Commit
  BY <1>2, EscrowAssumption DEF Commit, NoChange, QueueTyped
<1>3. ASSUME NEW action \in Scheduled, schedule(action) PROVE QueueTyped'
  <2>1. policyVersion \in 0 .. MaxVersion /\ action \in Actions
    BY ScheduleAssumption, EscrowAssumption DEF EscrowInv, PolicyTypes
  <2> QED BY <1>3, <2>1 DEF schedule, QueueTyped
<1>4. CASE UNCHANGED evars \/ ((GuardianStep \/ Tick) /\ UNCHANGED <<vaultVars, escrowVars>>)
  BY <1>1, <1>4 DEF evars, escrowVars
<1>5. CASE FundingAction \/ PaymentReview \/ (\E m \in Messages : executePayment(m))
  BY <1>1, <1>5 DEF FundingAction, receiveCctp, PaymentReview, reviewPayment, executePayment
<1>6. CASE ReturnAction
  BY <1>1, <1>6 DEF ReturnAction, requestReturn, executeReturn
<1>7. CASE AuthorityAction
  BY <1>1, <1>2, <1>3, <1>7 DEF AuthorityAction, pausePayments, revokeRecipient, approvePayment
<1>8. CASE ApplyAction
  BY <1>2, <1>8 DEF ApplyAction, applyPolicy, applyRecipient, applyUnpause, Consume
<1> QED BY <1>4, <1>5, <1>6, <1>7, <1>8 DEF ENext

\* The initial state of a plain payment escrow.
LEMMA InitEInv == EInit => EscrowInv /\ QueueTyped
<1> SUFFICES ASSUME EInit PROVE EscrowInv /\ QueueTyped
  OBVIOUS
<1>1. EscrowInv
  BY InitEscrow DEF EInit, EscrowInit
<1>2. QueueTyped
  BY EscrowAssumption DEF EInit, EscrowInit, EscrowDeployed, NoChange, QueueTyped
<1> QED BY <1>1, <1>2

-----------------------------------------------------------------------------
(* The escrow of a payment.                                                *)

\* Every credit on record is well formed and each business operation funds at
\* most one, however often, in whatever order and by whomever Circle's attested
\* messages are relayed.
THEOREM CreditsAreDistinct == ESpec => []CreditsDistinct
<1>1. EscrowInv /\ QueueTyped => CreditsDistinct
  BY EscrowTypes DEF EscrowInv, CreditsDistinct
<1> QED BY <1>1, InitEInv, NextEscrow, NextQueue, PTL DEF ESpec

\* A credit is paid or returned, never both, and a return that was asked for is
\* never overtaken by a payout.
THEOREM ReturnsExcludePayouts == ESpec => []ReturnExcludesPayout
<1>1. EscrowInv => ReturnExcludesPayout
  BY DEF EscrowInv
<1> QED BY <1>1, InitEInv, NextEscrow, PTL DEF ESpec

\* A step of the escrow is a step of its guardian, or leaves it alone.
LEMMA EscrowStepIsGuardianStep == EscrowInv /\ [ENext]_evars => [Next]_vars
<1> SUFFICES ASSUME EscrowInv, [ENext]_evars PROVE [Next]_vars
  OBVIOUS
<1>0. VaultTypeOK
  BY DEF EscrowInv, VInv
<1>1. CASE (GuardianStep \/ Tick) /\ UNCHANGED <<vaultVars, escrowVars>>
  BY <1>0, <1>1, VaultStepIsGuardianStep DEF VNext
<1>2. ASSUME NEW m \in Messages, executePayment(m) PROVE [Next]_vars
  BY <1>0, <1>2, VaultStepIsGuardianStep DEF executePayment, VNext, ExecuteAction
<1>3. CASE FundingAction \/ PaymentReview \/ ReturnAction
  BY <1>3
  DEF FundingAction, receiveCctp, PaymentReview, reviewPayment, reviewRelease, ReturnAction,
      requestReturn, executeReturn, vvars
<1>4. CASE AuthorityAction
  BY <1>4 DEF AuthorityAction, pausePayments, revokeRecipient, approvePayment, schedule,
     policyFrame, vvars
<1>5. CASE ApplyAction
  BY <1>5 DEF ApplyAction, applyPolicy, applyRecipient, applyUnpause, Consume, policyFrame, vvars
<1>6. CASE UNCHANGED evars
  BY <1>6 DEF evars, vvars
<1> QED BY <1>1, <1>2, <1>3, <1>4, <1>5, <1>6 DEF ENext

\* Whatever the payment escrow does, its guardian behaves as a guardian: all
\* that is proved of the guardian alone holds beneath the escrow.
THEOREM EscrowImplementsGuardian == ESpec => Spec
<1>1. EInit => Init
  BY DEF EInit, VInit
<1> QED BY <1>1, InitEInv, NextEscrow, EscrowStepIsGuardianStep, PTL DEF ESpec, Spec

\* A step that touches a rejected release leaves it rejected.
LEMMA RejectionStep ==
  EscrowInv /\ [ENext]_evars
    => [\A m \in Messages : releases[m].state = "REJECTED" => releases'[m].state = "REJECTED"]_vvars
<1> SUFFICES ASSUME EscrowInv, [ENext]_evars, NEW m \in Messages, releases[m].state = "REJECTED"
             PROVE  releases'[m].state = "REJECTED"
  OBVIOUS
<1>0. releases \in [Messages -> Release] /\ VaultTypeOK /\ now \in Nat
  BY DEF EscrowInv, VInv, VaultTypeOK, TypeOK
<1>1. CASE UNCHANGED releases
  BY <1>1
<1>2. CASE ((GuardianStep \/ Tick) /\ UNCHANGED <<vaultVars, escrowVars>>) \/ UNCHANGED evars
  BY <1>1, <1>2 DEF vaultVars, evars, vvars
<1>3. ASSUME NEW c \in Attested, receiveCctp(c) PROVE releases'[m].state = "REJECTED"
  <2>1. ~Requested(c.nonce) /\ releases' = [releases EXCEPT ![c.nonce] = NewRelease(c.to, c.net)]
    BY <1>3 DEF receiveCctp, RecordRequest
  <2>2. Requested(m)
    BY DEF EscrowInv, CreditOf
  <2> QED BY <1>0, <2>1, <2>2
<1>4. ASSUME NEW q \in Messages, NEW decision \in ReviewDecisions, NEW tier \in ReviewTiers,
             NEW nonce \in ReviewNonces, NEW signer \in Keys,
             NEW validUntil \in now .. now + MaxReviewTtl,
             reviewPayment(q, decision, tier, validUntil, nonce, signer)
      PROVE  releases'[m].state = "REJECTED"
  BY <1>0, <1>4 DEF reviewPayment, BeforeReview, NotRejected, reviewRelease, RecordReview
<1>5. ASSUME NEW q \in Messages, executePayment(q) PROVE releases'[m].state = "REJECTED"
  BY <1>0, <1>5 DEF executePayment, executeRelease, Executable, ReviewInForce
<1>6. CASE AuthorityAction
  BY <1>1, <1>6 DEF AuthorityAction, pausePayments, revokeRecipient, approvePayment, schedule,
     policyFrame, vvars, vaultVars
<1>7. CASE ApplyAction
  BY <1>1, <1>7 DEF ApplyAction, applyPolicy, applyRecipient, applyUnpause, Consume, policyFrame,
     vvars, vaultVars
<1>8. ASSUME NEW q \in Messages, requestReturn(q) PROVE releases'[m].state = "REJECTED"
  BY <1>1, <1>8 DEF requestReturn, vvars, vaultVars
<1>9. ASSUME NEW q \in Messages, executeReturn(q) PROVE releases'[m].state = "REJECTED"
  BY <1>0, <1>9 DEF executeReturn, Release
<1> QED
  BY <1>2, <1>3, <1>4, <1>5, <1>6, <1>7, <1>8, <1>9
  DEF ENext, FundingAction, PaymentReview, ReturnAction

\* In the payment escrow a rejection, and a return, is for good.
THEOREM RejectionsAreFinal == ESpec => RejectIsTerminal
  BY InitEInv, NextEscrow, RejectionStep, PTL DEF ESpec, RejectIsTerminal

-----------------------------------------------------------------------------
(* Solvency.  The contract keeps three running totals and never adds up    *)
(* its credits; each step changes what one message is owed, and the totals *)
(* and the tokens by as much.                                              *)

Owed(m) == IF Outstanding(m) THEN releases[m].amount ELSE 0

owed == [m \in Messages |-> Owed(m)]

LEMMA SolventMeans ==
    Solvent <=> outstandingCredit = SumFunction(owed) /\ vaultTokens >= outstandingCredit
  BY DEF Solvent, owed, Owed

LEMMA OwedNat ==
  ASSUME EscrowInv
  PROVE  owed \in [Messages -> Nat] /\ outstandingCredit \in Int /\ vaultTokens \in Nat
<1>1. \A m \in Messages : Owed(m) \in Nat
  BY AmountNat DEF Owed, EscrowInv, VInv
<1> QED BY <1>1 DEF owed, outstandingCredit, EscrowInv, CreditTypes, VInv, VaultTypeOK

\* A step that leaves every debt, the totals and the tokens as they are.
LEMMA SolventStays ==
  ASSUME Solvent, UNCHANGED <<totals, vaultTokens>>, \A m \in Messages : Owed(m)' = Owed(m)
  PROVE  Solvent'
<1>1. owed' = owed
  BY DEF owed
<1>2. outstandingCredit' = outstandingCredit
  BY DEF outstandingCredit
<1>3. Solvent' <=> outstandingCredit' = SumFunction(owed') /\ vaultTokens' >= outstandingCredit'
  BY DEF Solvent, owed, Owed
<1> HIDE DEF owed
<1> QED BY <1>1, <1>2, <1>3, SolventMeans

\* A step that changes one debt and the outstanding total by as much, and pays
\* out no more than the total falls.
LEMMA SolventMoves ==
  ASSUME EscrowInv, EscrowInv', Solvent, NEW a \in Messages,
         \A m \in Messages \ {a} : Owed(m)' = Owed(m),
         outstandingCredit' + Owed(a) = outstandingCredit + Owed(a)',
         vaultTokens' + outstandingCredit >= vaultTokens + outstandingCredit'
  PROVE  Solvent'
<1>1. owed \in [Messages -> Nat] /\ outstandingCredit \in Int /\ vaultTokens \in Nat
  BY OwedNat
<1>2. owed' \in [Messages -> Nat] /\ outstandingCredit' \in Int /\ vaultTokens' \in Nat
  <2>1. \A m \in Messages : Owed(m)' \in Nat
    <3>1. VaultTypeOK'
      BY DEF EscrowInv, VInv
    <3>2. \A m \in Messages : releases'[m] \in Release
      BY <3>1 DEF VaultTypeOK
    <3>3. \A amount \in Payouts : amount \in Nat
      BY VaultAssumption, DataAssumption
    <3>4. \A m \in Messages : releases'[m].amount \in Payouts \union {0}
      BY <3>2 DEF Release
    <3>5. \A m \in Messages : releases'[m].amount \in Nat
      BY <3>3, <3>4
    <3> QED BY <3>5 DEF Owed
  <2> QED BY <2>1 DEF owed, outstandingCredit, EscrowInv, CreditTypes, VInv, VaultTypeOK
<1>3. \A m \in Messages : owed[m] = Owed(m) /\ owed'[m] = Owed(m)'
  BY DEF owed
<1>4. Solvent' <=> outstandingCredit' = SumFunction(owed') /\ vaultTokens' >= outstandingCredit'
  BY DEF Solvent, owed, Owed
<1>5. SumFunction(owed') + owed[a] = SumFunction(owed) + owed'[a]
  <2> HIDE DEF owed
  <2> QED BY <1>1, <1>2, <1>3, MessagesAssumption, SumChange
<1>6. SumFunction(owed) \in Nat /\ SumFunction(owed') \in Nat
  <2> HIDE DEF owed
  <2> QED BY <1>1, <1>2, MessagesAssumption, SumNat
<1> HIDE DEF owed
<1>7. outstandingCredit = SumFunction(owed) /\ vaultTokens >= outstandingCredit
  BY SolventMeans
<1>8. owed[a] \in Nat /\ owed'[a] \in Nat
  BY <1>1, <1>2
<1>9. outstandingCredit' = SumFunction(owed')
  BY <1>1, <1>2, <1>3, <1>5, <1>6, <1>7, <1>8
<1> QED BY <1>1, <1>2, <1>4, <1>7, <1>9

LEMMA InitSolvent == VInit /\ EscrowDeployed => Solvent
<1> SUFFICES ASSUME VInit, EscrowDeployed PROVE Solvent
  OBVIOUS
<1>1. owed \in [Messages -> Nat] /\ \A m \in Messages : owed[m] = 0
  BY DEF owed, Owed, Outstanding, VInit, VaultInit, Requested, NewRelease
<1>2. SumFunction(owed) = 0
  BY <1>1, MessagesAssumption, SumOfZeros
<1>3. outstandingCredit = 0 /\ vaultTokens >= 0
  BY VaultAssumption DEF EscrowDeployed, outstandingCredit, VInit, VaultInit
<1> QED BY <1>2, <1>3, SolventMeans

\* Steps that neither fund, pay nor return.
LEMMA QuietSolvent ==
  ASSUME Solvent, UNCHANGED <<releases, credits, totals, vaultTokens>>
  PROVE  Solvent'
<1>1. \A m \in Messages : Owed(m)' = Owed(m)
  BY DEF Owed, Outstanding, Requested
<1> QED BY <1>1, SolventStays

LEMMA FundingSolvent ==
  ASSUME EscrowInv, Solvent, NEW c \in Attested, receiveCctp(c)
  PROVE  Solvent'
<1>0. EscrowInv'
  BY FundingEscrow
<1> DEFINE m == c.nonce
           new == NewRelease(c.to, c.net)
<1>1. m \in Messages /\ c.to \in Recipients /\ c.net \in Nat
  BY EscrowAssumption, VaultAssumption, DataAssumption DEF CctpMessage
<1>2. /\ ~Requested(m) /\ releases' = [releases EXCEPT ![m] = new]
      /\ vaultTokens' = vaultTokens + c.net
      /\ credits' = [credits EXCEPT ![m] = [operation |-> c.operation, intent |-> c.intent,
                                            returnAt |-> 0, returned |-> FALSE]]
      /\ totals' = [totals EXCEPT !.credited = @ + c.net]
      /\ c.to # NoAddress
  BY DEF receiveCctp, RecordRequest
<1>3. /\ releases \in [Messages -> Release] /\ credits \in [Messages -> Credit]
      /\ totals \in [credited: Nat, paid: Nat, returned: Nat] /\ vaultTokens \in Nat
  BY DEF EscrowInv, CreditTypes, VInv, VaultTypeOK
<1>4. new.to = c.to /\ new.amount = c.net /\ new.state = "PENDING"
  BY DEF NewRelease
<1> HIDE DEF m, new
<1>5. \A q \in Messages \ {m} : Owed(q)' = Owed(q)
  BY <1>1, <1>2, <1>3 DEF Owed, Outstanding, Requested
<1>6. Owed(m) = 0 /\ Owed(m)' = c.net
  BY <1>1, <1>2, <1>3, <1>4 DEF Owed, Outstanding, Requested
<1>7. outstandingCredit' = outstandingCredit + c.net /\ outstandingCredit \in Int
  BY <1>1, <1>2, <1>3 DEF outstandingCredit
<1> QED BY <1>0, <1>1, <1>2, <1>3, <1>5, <1>6, <1>7, SolventMoves

\* A review changes no debt: an executed release is not reviewed.
LEMMA ReviewSolvent ==
  ASSUME EscrowInv, Solvent, NEW m \in Messages, NEW decision \in ReviewDecisions,
         NEW tier \in ReviewTiers, NEW nonce \in ReviewNonces, NEW signer \in Keys,
         NEW validUntil \in now .. now + MaxReviewTtl,
         reviewPayment(m, decision, tier, validUntil, nonce, signer)
  PROVE  Solvent'
<1> DEFINE new == ReviewedRelease(m, decision, tier, validUntil, nonce, signer)
<1>1. /\ releases[m].state # "EXECUTED" /\ releases' = [releases EXCEPT ![m] = new]
      /\ UNCHANGED <<credits, totals, vaultTokens>>
  BY DEF reviewPayment, reviewRelease, RecordReview, creditVars
<1>2. releases \in [Messages -> Release]
  BY DEF EscrowInv, VInv, VaultTypeOK
<1>3. new.state # "EXECUTED" /\ new.to = releases[m].to /\ new.amount = releases[m].amount
  BY <1>2 DEF ReviewedRelease, Release, StateAfter, ReviewDecisions
<1> HIDE DEF new
<1>4. \A q \in Messages : Owed(q)' = Owed(q)
  BY <1>1, <1>2, <1>3 DEF Owed, Outstanding, Requested
<1> QED BY <1>1, <1>4, SolventStays

LEMMA PayoutSolvent ==
  ASSUME EscrowInv, Solvent, NEW m \in Messages, executePayment(m)
  PROVE  Solvent'
<1>0. EscrowInv'
  BY PayoutEscrow
<1> DEFINE new == [releases[m] EXCEPT !.state = "EXECUTED"]
           amount == releases[m].amount
<1>1. /\ Requested(m) /\ releases[m].state = "VERIFIED" /\ credits[m].returnAt = 0
      /\ releases' = [releases EXCEPT ![m] = new]
      /\ vaultTokens' = vaultTokens - amount
      /\ totals' = [totals EXCEPT !.paid = @ + amount]
      /\ UNCHANGED credits
  BY DEF executePayment, executeRelease, Executable, ReviewInForce, BeforeExecute, NoReturn,
         creditVars
<1>2. /\ releases \in [Messages -> Release] /\ credits \in [Messages -> Credit]
      /\ totals \in [credited: Nat, paid: Nat, returned: Nat] /\ vaultTokens \in Nat
      /\ amount \in Nat
  BY AmountNat DEF EscrowInv, CreditTypes, VInv, VaultTypeOK
<1>3. new.state = "EXECUTED"
  BY <1>2 DEF Release
<1>4. ~credits[m].returned
  BY <1>1 DEF EscrowInv, ReturnExcludesPayout
<1> HIDE DEF new
<1>5. \A q \in Messages \ {m} : Owed(q)' = Owed(q)
  BY <1>1, <1>2 DEF Owed, Outstanding, Requested
<1>6. Owed(m) = amount /\ Owed(m)' = 0
  BY <1>1, <1>2, <1>3, <1>4 DEF Owed, Outstanding, Requested
<1> HIDE DEF amount
<1>7. outstandingCredit' = outstandingCredit - amount /\ outstandingCredit \in Int
  BY <1>1, <1>2 DEF outstandingCredit
<1> QED BY <1>0, <1>1, <1>2, <1>5, <1>6, <1>7, SolventMoves

\* A return completed: once, and of a credit that was not paid.
LEMMA ReturnSolvent ==
  ASSUME EscrowInv, Solvent, NEW m \in Messages, executeReturn(m)
  PROVE  Solvent'
<1>0. EscrowInv'
  BY ReturnEscrow
<1> DEFINE new == [releases[m] EXCEPT !.state = "REJECTED"]
           credit == [credits[m] EXCEPT !.returned = TRUE]
           amount == releases[m].amount
<1>1. /\ Requested(m) /\ releases[m].state # "EXECUTED" /\ ~credits[m].returned
      /\ releases' = [releases EXCEPT ![m] = new]
      /\ credits' = [credits EXCEPT ![m] = credit]
      /\ vaultTokens' = vaultTokens - amount
      /\ totals' = [totals EXCEPT !.returned = @ + amount]
  BY DEF executeReturn, Returnable, ReturnTotals
<1>2. /\ releases \in [Messages -> Release] /\ credits \in [Messages -> Credit]
      /\ totals \in [credited: Nat, paid: Nat, returned: Nat] /\ vaultTokens \in Nat
      /\ amount \in Nat
  BY AmountNat DEF EscrowInv, CreditTypes, VInv, VaultTypeOK
<1>3. credit.returned
  BY <1>2 DEF Credit
<1> HIDE DEF new, credit
<1>5. \A q \in Messages \ {m} : Owed(q)' = Owed(q)
  BY <1>1, <1>2 DEF Owed, Outstanding, Requested
<1>6. Owed(m) = amount /\ Owed(m)' = 0
  BY <1>1, <1>2, <1>3 DEF Owed, Outstanding, Requested
<1> HIDE DEF amount
<1>7. outstandingCredit' = outstandingCredit - amount /\ outstandingCredit \in Int
  BY <1>1, <1>2 DEF outstandingCredit
<1> QED BY <1>0, <1>1, <1>2, <1>5, <1>6, <1>7, SolventMoves

\* The request of a return changes no debt yet.
LEMMA RequestReturnSolvent ==
  ASSUME EscrowInv, Solvent, NEW m \in Messages, requestReturn(m)
  PROVE  Solvent'
<1>1. /\ credits' = [credits EXCEPT ![m] = [credits[m] EXCEPT !.returnAt = now + RecoveryDelay]]
      /\ UNCHANGED <<releases, totals, vaultTokens>>
  BY DEF requestReturn, vvars, vaultVars
<1>2. credits \in [Messages -> Credit]
  BY DEF EscrowInv, CreditTypes
<1>3. \A q \in Messages : credits'[q].returned = credits[q].returned
  BY <1>1, <1>2 DEF Credit
<1>4. \A q \in Messages : Owed(q)' = Owed(q)
  BY <1>1, <1>3 DEF Owed, Outstanding, Requested
<1> QED BY <1>1, <1>4, SolventStays

\* The steps that leave credits and totals alone.
QuietEscrowStep ==
    \/ AuthorityAction \/ ApplyAction \/ UNCHANGED evars
    \/ (GuardianStep \/ Tick) /\ UNCHANGED <<vaultVars, escrowVars>>

LEMMA AuthoritySolvent ==
  ASSUME EscrowInv, Solvent, QuietEscrowStep
  PROVE  Solvent'
<1>1. UNCHANGED <<releases, credits, totals, vaultTokens>>
  BY DEF QuietEscrowStep, AuthorityAction, pausePayments, revokeRecipient, approvePayment, schedule,
         ApplyAction, applyPolicy, applyRecipient, applyUnpause, Consume, policyFrame, evars,
         vvars, vaultVars, escrowVars, creditVars
<1> QED BY <1>1, QuietSolvent

LEMMA NextSolvent == EscrowInv /\ Solvent /\ [ENext]_evars => Solvent'
<1> SUFFICES ASSUME EscrowInv, Solvent, [ENext]_evars PROVE Solvent'
  OBVIOUS
<1>1. CASE FundingAction
  BY <1>1, FundingSolvent DEF FundingAction
<1>2. CASE PaymentReview
  BY <1>2, ReviewSolvent DEF PaymentReview
<1>3. CASE \E m \in Messages : executePayment(m)
  BY <1>3, PayoutSolvent
<1>4. CASE ReturnAction
  BY <1>4, RequestReturnSolvent, ReturnSolvent DEF ReturnAction
<1>5. CASE QuietEscrowStep
  BY <1>5, AuthoritySolvent
<1> QED BY <1>1, <1>2, <1>3, <1>4, <1>5 DEF ENext, QuietEscrowStep

\* The totals leave outstanding exactly what is owed on credits neither paid nor
\* returned, and the escrow holds at least that, for any number of credits.
THEOREM EscrowIsSolvent == ESpec => []Solvent
<1>1. EInit => Solvent
  BY InitSolvent DEF EInit, EscrowInit
<1> QED BY <1>1, InitEInv, NextEscrow, NextSolvent, PTL DEF ESpec

-----------------------------------------------------------------------------
(* The customer's policy.                                                  *)

\* A version number tells whether anything was committed since a clearance.
ClearanceTold ==
    \A m \in Messages :
        /\ unreviewed[m] <=> reviewedPolicyVersion[m] # policyVersion
        /\ approvedPolicyVersion[m] = policyVersion => ~unapproved[m]

DelayTold == promised \in [Messages -> Nat] /\ \A m \in Messages : promised[m] <= paymentDelayUntil[m]

\* What is queued is what stands announced, and matures a full delay later.
QueueTold ==
    queuedChangeAt # 0 =>
        /\ announced.at # 0 /\ queuedChangeAt = announced.at + PolicyChangeDelay
        /\ announced.action = queuedChange.action

HistoryTypes == unreviewed \in [Messages -> BOOLEAN] /\ unapproved \in [Messages -> BOOLEAN]

EHInv == EscrowInv /\ HistoryTypes /\ ClearanceTold /\ DelayTold /\ QueueTold

\* The history variables start out true of a deployed escrow.
LEMMA InitEHInv == EHInit => EHInv
<1> SUFFICES ASSUME EHInit PROVE EHInv
  OBVIOUS
<1>1. EscrowInv /\ EscrowDeployed
  BY InitEInv DEF EHInit, EInit, EscrowInit
<1> QED
  BY <1>1
  DEF EHInit, EscrowDeployed, EHInv, HistoryTypes, ClearanceTold, DelayTold, QueueTold

\* A review, of whatever decision.
ReviewStep(m, decision) ==
    /\ BeforeReview(m, decision)
    /\ (decision = "ALLOW") <=> Allowed(m)
    /\ \A q \in Messages : q # m => ~Allowed(q)
    /\ UNCHANGED <<now, policyVars, approvedPolicyVersion>>

\* What a step can do to the clearances, the queue and the reviews.
StepKinds ==
    \/ \E m \in Messages, decision \in ReviewDecisions : ReviewStep(m, decision)
    \/ /\ \A m \in Messages : ~Allowed(m)
       /\ \/ Commit /\ UNCHANGED clearanceVars
          \/ /\ \E action \in Scheduled : schedule(action)
             /\ UNCHANGED <<policyVersion, clearanceVars>>
          \/ \E m \in Messages : approvePayment(m)
          \/ UNCHANGED <<policyVars, clearanceVars>>

\* Every step is one of these.
LEMMA StepIsOfAKind == EscrowInv /\ [ENext]_evars => StepKinds
<1> SUFFICES ASSUME EscrowInv, [ENext]_evars PROVE StepKinds
  OBVIOUS
<1>0. releases \in [Messages -> Release] /\ VaultTypeOK /\ now \in Nat
  BY DEF EscrowInv, VInv, VaultTypeOK, TypeOK
<1>1. UNCHANGED releases => \A m \in Messages : ~Allowed(m)
  BY DEF Allowed
<1>2. CASE ((GuardianStep \/ Tick) /\ UNCHANGED <<vaultVars, escrowVars>>) \/ UNCHANGED evars
  BY <1>1, <1>2 DEF StepKinds, vaultVars, evars, vvars, escrowVars
<1>3. ASSUME NEW c \in Attested, receiveCctp(c) PROVE StepKinds
  <2>1. releases' = [releases EXCEPT ![c.nonce] = NewRelease(c.to, c.net)]
        /\ UNCHANGED <<policyVars, clearanceVars>> /\ ~Requested(c.nonce)
    BY <1>3 DEF receiveCctp, RecordRequest
  <2>2. \A m \in Messages : ~Allowed(m)
    BY <1>0, <2>1 DEF Allowed, NewRelease
  <2> QED BY <2>1, <2>2 DEF StepKinds
<1>4. ASSUME NEW m \in Messages, NEW decision \in ReviewDecisions, NEW tier \in ReviewTiers,
             NEW nonce \in ReviewNonces, NEW signer \in Keys,
             NEW validUntil \in now .. now + MaxReviewTtl,
             reviewPayment(m, decision, tier, validUntil, nonce, signer)
      PROVE  StepKinds
  <2> DEFINE new == ReviewedRelease(m, decision, tier, validUntil, nonce, signer)
  <2>1. /\ releases' = [releases EXCEPT ![m] = new] /\ NextNonce(m, nonce)
        /\ BeforeReview(m, decision)
        /\ UNCHANGED <<now, policyVars, approvedPolicyVersion>>
    BY <1>4 DEF reviewPayment, reviewRelease, RecordReview, vars, guardianVars
  <2>2. new.state = StateAfter(decision) /\ new.reviewNonce = nonce
    BY <1>0, ReviewedType, VaultAssumption
  <2>3. StateAfter(decision) = "VERIFIED" <=> decision = "ALLOW"
    BY DEF StateAfter, ReviewDecisions
  <2>4. nonce # releases[m].reviewNonce
    <3>1. releases[m].reviewNonce \in ReviewNonces
      BY <1>0 DEF Release
    <3> QED BY <2>1, <3>1 DEF NextNonce, ReviewNonces
  <2> HIDE DEF new
  <2>5. (decision = "ALLOW") <=> Allowed(m)
    BY <1>0, <2>1, <2>2, <2>3, <2>4 DEF Allowed
  <2>6. \A q \in Messages : q # m => ~Allowed(q)
    BY <1>0, <2>1 DEF Allowed
  <2> QED BY <2>1, <2>5, <2>6 DEF StepKinds, ReviewStep
<1>5. ASSUME NEW m \in Messages, executePayment(m) PROVE StepKinds
  <2>1. releases' = [releases EXCEPT ![m] = [@ EXCEPT !.state = "EXECUTED"]]
        /\ UNCHANGED <<policyVars, clearanceVars>>
    BY <1>5 DEF executePayment, executeRelease
  <2>2. \A q \in Messages : ~Allowed(q)
    BY <1>0, <2>1 DEF Allowed, Release
  <2> QED BY <2>1, <2>2 DEF StepKinds
<1>6. CASE AuthorityAction
  BY <1>1, <1>6
  DEF AuthorityAction, pausePayments, revokeRecipient, approvePayment, schedule, policyFrame,
      vvars, vaultVars, StepKinds
<1>7. CASE ApplyAction
  BY <1>1, <1>7
  DEF ApplyAction, applyPolicy, applyRecipient, applyUnpause, Consume, policyFrame, vvars,
      vaultVars, StepKinds
<1>8. ASSUME NEW m \in Messages, requestReturn(m) PROVE StepKinds
  BY <1>1, <1>8 DEF requestReturn, vvars, vaultVars, StepKinds
<1>9. ASSUME NEW m \in Messages, executeReturn(m) PROVE StepKinds
  <2>1. releases' = [releases EXCEPT ![m] = [@ EXCEPT !.state = "REJECTED"]]
        /\ UNCHANGED <<policyVars, clearanceVars>>
    BY <1>9 DEF executeReturn
  <2>2. \A q \in Messages : ~Allowed(q)
    BY <1>0, <2>1 DEF Allowed, Release
  <2> QED BY <2>1, <2>2 DEF StepKinds
<1> QED
  BY <1>2, <1>3, <1>4, <1>5, <1>6, <1>7, <1>8, <1>9
  DEF ENext, FundingAction, PaymentReview, ReturnAction

\* The history variables keep telling the truth.
LEMMA NextEHInv == EHInv /\ [EHNext]_ehvars => EHInv'
<1> SUFFICES ASSUME EHInv, [EHNext]_ehvars PROVE EHInv'
  OBVIOUS
<1>1. EscrowInv /\ EscrowInv' /\ [ENext]_evars
  BY NextEscrow DEF EHInv, EHNext, ehvars
<1>2. CASE UNCHANGED ehvars
  BY <1>1, <1>2
  DEF ehvars, escrowHistoryVars, evars, escrowVars, policyVars, clearanceVars, EHInv, HistoryTypes,
      ClearanceTold, DelayTold, QueueTold
<1>3. CASE RecordHistory
  <2>0. /\ StepKinds /\ HistoryTypes /\ ClearanceTold /\ DelayTold /\ QueueTold
        /\ policyVersion \in Nat /\ now \in Nat /\ now > 0 /\ VersionsPast
        /\ paymentPolicy.delaySeconds \in Nat
        /\ paymentDelayUntil \in [Messages -> Nat] /\ promised \in [Messages -> Nat]
        /\ approvedPolicyVersion \in [Messages -> 0 .. MaxVersion]
        /\ reviewedPolicyVersion \in [Messages -> 0 .. MaxVersion]
    BY <1>1, StepIsOfAKind, EscrowClock, EscrowAssumption, ClockAssumption
    DEF EHInv, DelayTold, EscrowInv, PolicyTypes, ClearanceTypes, VInv, VaultTypeOK, TypeOK,
        PaymentPolicy
  <2>1. HistoryTypes'
    BY <1>3, <2>0 DEF RecordHistory, HistoryTypes, Committed
  <2>2. QueueTold'
    <3>1. CASE \E action \in Scheduled : schedule(action)
      BY <1>3, <2>0, <3>1 DEF RecordHistory, schedule, QueueTold
    <3>2. CASE Commit
      BY <3>2 DEF Commit, QueueTold
    <3>3. CASE UNCHANGED policyVars /\ ~\E action \in Scheduled : schedule(action)
      BY <1>3, <2>0, <3>3 DEF RecordHistory, Committed, policyVars, QueueTold
    <3> QED BY <2>0, <3>1, <3>2, <3>3 DEF StepKinds, ReviewStep, approvePayment
  <2>3. ClearanceTold' /\ DelayTold'
    <3>1. ASSUME NEW m \in Messages, NEW decision \in ReviewDecisions, ReviewStep(m, decision)
          PROVE  ClearanceTold' /\ DelayTold'
      <4>1. ~Committed /\ policyVersion' = policyVersion
            /\ approvedPolicyVersion' = approvedPolicyVersion
        BY <3>1 DEF ReviewStep, policyVars, Committed
      <4>2. ASSUME NEW q \in Messages
            PROVE  /\ unreviewed'[q] <=> (unreviewed[q] /\ ~Allowed(q))
                   /\ unapproved'[q] => unapproved[q]
        BY <1>3, <2>0, <4>1 DEF RecordHistory, HistoryTypes
      <4>3. CASE decision = "ALLOW"
        <5>1. /\ Allowed(m) /\ \A q \in Messages : q # m => ~Allowed(q)
              /\ paymentDelayUntil' = [paymentDelayUntil EXCEPT ![m] = CustomerDelay(m)]
              /\ reviewedPolicyVersion' = [reviewedPolicyVersion EXCEPT ![m] = policyVersion]
          BY <3>1, <4>3 DEF ReviewStep, BeforeReview
        <5>2. ClearanceTold'
          BY <2>0, <4>1, <4>2, <5>1 DEF ClearanceTold
        <5>3. CustomerDelay(m) \in Nat /\ CustomerDelay(m) >= paymentDelayUntil[m]
          BY <1>1, CustomerDelayType
        <5>4. ASSUME NEW q \in Messages
              PROVE  promised'[q] \in Nat /\ promised'[q] <= paymentDelayUntil'[q]
          <6>1. promised'[q] = IF /\ Allowed(q) /\ unreviewed[q]
                                  /\ releases[q].amount > paymentPolicy.delayAbove
                                  /\ now + paymentPolicy.delaySeconds > promised[q]
                               THEN now + paymentPolicy.delaySeconds ELSE promised[q]
            BY <1>3 DEF RecordHistory
          <6>2. CASE q # m
            BY <2>0, <5>1, <6>1, <6>2 DEF DelayTold
          <6>3. CASE q = m
            <7>1. paymentDelayUntil'[q] = CustomerDelay(m)
              BY <2>0, <5>1, <6>3
            <7>2. CASE promised'[q] = promised[q]
              BY <2>0, <5>3, <6>3, <7>1, <7>2 DEF DelayTold
            <7>3. CASE /\ unreviewed[q] /\ releases[q].amount > paymentPolicy.delayAbove
                       /\ promised'[q] = now + paymentPolicy.delaySeconds
              <8>1. reviewedPolicyVersion[m] # policyVersion
                BY <2>0, <6>3, <7>3 DEF ClearanceTold
              <8> QED BY <2>0, <6>3, <7>1, <7>3, <8>1 DEF CustomerDelay
            <7> QED BY <6>1, <7>2, <7>3
          <6> QED BY <6>2, <6>3
        <5>5. DelayTold'
          BY <1>3, <5>4 DEF DelayTold, RecordHistory
        <5> QED BY <5>2, <5>5
      <4>4. CASE decision # "ALLOW"
        <5>1. (\A q \in Messages : ~Allowed(q))
              /\ UNCHANGED <<paymentDelayUntil, reviewedPolicyVersion>>
          BY <3>1, <4>4 DEF ReviewStep, BeforeReview
        <5>2. promised' = promised
          BY <1>3, <2>0, <5>1 DEF RecordHistory
        <5> QED BY <2>0, <4>1, <4>2, <5>1, <5>2 DEF ClearanceTold, DelayTold
      <4> QED BY <4>3, <4>4
    <3>2. ASSUME \A m \in Messages : ~Allowed(m)
          PROVE  /\ promised' = promised
                 /\ \A m \in Messages :
                      /\ unreviewed'[m] <=> (Committed \/ unreviewed[m])
                      /\ unapproved'[m] <=> (Committed \/ (unapproved[m] /\ ~approvePayment(m)))
      BY <1>3, <2>0, <3>2 DEF RecordHistory, HistoryTypes
    <3>3. CASE (\A m \in Messages : ~Allowed(m)) /\ Commit /\ UNCHANGED clearanceVars
      BY <2>0, <3>2, <3>3 DEF Commit, Committed, clearanceVars, ClearanceTold, DelayTold, VersionsPast
    <3>4. CASE /\ \A m \in Messages : ~Allowed(m)
               /\ UNCHANGED <<policyVersion, clearanceVars>>
      BY <2>0, <3>2, <3>4 DEF Committed, clearanceVars, ClearanceTold, DelayTold
    <3>5. ASSUME NEW m \in Messages, \A q \in Messages : ~Allowed(q), approvePayment(m)
          PROVE  ClearanceTold' /\ DelayTold'
      <4>1. /\ approvedPolicyVersion' = [approvedPolicyVersion EXCEPT ![m] = policyVersion]
            /\ UNCHANGED <<policyVersion, reviewedPolicyVersion, paymentDelayUntil>>
        BY <3>5 DEF approvePayment, policyVars
      <4> QED BY <2>0, <3>2, <3>5, <4>1 DEF Committed, ClearanceTold, DelayTold
    <3> QED BY <2>0, <3>1, <3>3, <3>4, <3>5 DEF StepKinds, policyVars
  <2> QED BY <1>1, <2>1, <2>2, <2>3 DEF EHInv
<1> QED BY <1>2, <1>3 DEF EHNext

\* A payout is made by executePayment alone.
LEMMA PayoutStep ==
  ASSUME EscrowInv, [ENext]_evars, NEW m \in Messages, Executes(m)
  PROVE  executePayment(m)
<1>0. releases \in [Messages -> Release] /\ VaultTypeOK /\ now \in Nat
  BY DEF EscrowInv, VInv, VaultTypeOK, TypeOK
<1>1. UNCHANGED releases => FALSE
  BY DEF Executes
<1>2. CASE ((GuardianStep \/ Tick) /\ UNCHANGED <<vaultVars, escrowVars>>) \/ UNCHANGED evars
  BY <1>1, <1>2 DEF vaultVars, evars, vvars
<1>3. ASSUME NEW c \in Attested, receiveCctp(c) PROVE FALSE
  BY <1>0, <1>3 DEF receiveCctp, RecordRequest, NewRelease, Executes
<1>4. ASSUME NEW q \in Messages, NEW decision \in ReviewDecisions, NEW tier \in ReviewTiers,
             NEW nonce \in ReviewNonces, NEW signer \in Keys,
             NEW validUntil \in now .. now + MaxReviewTtl,
             reviewPayment(q, decision, tier, validUntil, nonce, signer)
      PROVE  FALSE
  <2> DEFINE new == ReviewedRelease(q, decision, tier, validUntil, nonce, signer)
  <2>1. new.state = StateAfter(decision)
    BY <1>0, VaultAssumption, ReviewedType
  <2>2. StateAfter(decision) # "EXECUTED"
    BY DEF StateAfter, ReviewDecisions
  <2>3. releases' = [releases EXCEPT ![q] = new]
    BY <1>4 DEF reviewPayment, reviewRelease, RecordReview
  <2> HIDE DEF new
  <2> QED BY <1>0, <2>1, <2>2, <2>3 DEF Executes
<1>5. ASSUME NEW q \in Messages, executePayment(q) PROVE executePayment(m)
  <2>1. q = m
    BY <1>0, <1>5 DEF executePayment, executeRelease, Executes
  <2> QED BY <1>5, <2>1
<1>6. CASE AuthorityAction
  BY <1>1, <1>6 DEF AuthorityAction, pausePayments, revokeRecipient, approvePayment, schedule,
     policyFrame, vvars, vaultVars
<1>7. CASE ApplyAction
  BY <1>1, <1>7 DEF ApplyAction, applyPolicy, applyRecipient, applyUnpause, Consume, policyFrame,
     vvars, vaultVars
<1>8. ASSUME NEW q \in Messages, requestReturn(q) PROVE FALSE
  BY <1>1, <1>8 DEF requestReturn, vvars, vaultVars
<1>9. ASSUME NEW q \in Messages, executeReturn(q) PROVE FALSE
  BY <1>0, <1>9 DEF executeReturn, Release, Executes
<1> QED
  BY <1>2, <1>3, <1>4, <1>5, <1>6, <1>7, <1>8, <1>9
  DEF ENext, FundingAction, PaymentReview, ReturnAction

\* The escrow below the history variables takes a step of its own.
LEMMA HistoryStep == EHInv /\ [EHNext]_ehvars => EscrowInv /\ [ENext]_evars
  BY DEF EHInv, EHNext, ehvars

-----------------------------------------------------------------------------
\* No payout slips past a change of the customer's policy: it was allowed, and
\* above the manual limit approved, since the last change.
THEOREM PayoutsFollowThePolicy == EHSpec => PaidUnderCurrentPolicy
<1>1. EHInv /\ [EHNext]_ehvars =>
        [\A m \in Messages : Executes(m) =>
           /\ ~unreviewed[m]
           /\ releases[m].amount > paymentPolicy.manualApprovalAbove => ~unapproved[m]]_ehvars
  <2> SUFFICES ASSUME EHInv, [EHNext]_ehvars, NEW m \in Messages, Executes(m)
               PROVE  /\ ~unreviewed[m]
                      /\ releases[m].amount > paymentPolicy.manualApprovalAbove => ~unapproved[m]
    OBVIOUS
  <2>1. executePayment(m)
    BY HistoryStep, PayoutStep
  <2> QED BY <2>1 DEF executePayment, BeforeExecute, ReviewedNow, NeedsApproval, EHInv, ClearanceTold
<1> QED BY <1>1, InitEHInv, NextEHInv, PTL DEF EHSpec, PaidUnderCurrentPolicy

\* A payout waits for every delay its reviews started.
THEOREM PayoutsServeEveryDelay == EHSpec => CustomerDelayServed
<1>1. EHInv /\ [EHNext]_ehvars => [\A m \in Messages : Executes(m) => now >= promised[m]]_ehvars
  <2> SUFFICES ASSUME EHInv, [EHNext]_ehvars, NEW m \in Messages, Executes(m)
               PROVE  now >= promised[m]
    OBVIOUS
  <2>1. executePayment(m)
    BY HistoryStep, PayoutStep
  <2>2. now >= paymentDelayUntil[m]
    BY <2>1 DEF executePayment, BeforeExecute
  <2>3. /\ now \in Nat /\ paymentDelayUntil[m] \in Nat /\ promised[m] \in Nat
        /\ promised[m] <= paymentDelayUntil[m]
    BY DEF EHInv, DelayTold, EscrowInv, ClearanceTypes, VInv, VaultTypeOK, TypeOK
  <2> QED BY <2>2, <2>3
<1> QED BY <1>1, InitEHInv, NextEHInv, PTL DEF EHSpec, CustomerDelayServed

\* Whatever loosens the customer's rules stood announced itself, for a full
\* POLICY_CHANGE_DELAY: _consume takes the very change that is queued.
THEOREM LooseningsAreAnnounced == EHSpec => LooseningAnnounced
<1> DEFINE Granted == permittedRecipients' \ permittedRecipients
           EachDue ==
             /\ paymentsPaused /\ ~paymentsPaused' => Due(Unpause)
             /\ \A a \in Granted : Due(GrantRecipient(a))
             /\ paymentPolicy' # paymentPolicy => Due(SetPolicy(paymentPolicy'))
<1>1. EHInv /\ [EHNext]_ehvars => [EachDue]_ehvars
  <2> SUFFICES ASSUME EHInv, [EHNext]_ehvars PROVE EachDue
    OBVIOUS
  <2>0. EscrowInv /\ [ENext]_evars
    BY HistoryStep
  <2>1. ASSUME NEW action, Consume(action) PROVE Due(action)
    BY <2>1 DEF Consume, EHInv, QueueTold, Due
  <2>2. ASSUME NEW p \in Policies, applyPolicy(p) PROVE EachDue
    <3>1. /\ Due(SetPolicy(p)) /\ paymentPolicy' = p
          /\ UNCHANGED <<paymentsPaused, permittedRecipients>>
      BY <2>1, <2>2 DEF applyPolicy
    <3> QED BY <3>1
  <2>3. ASSUME NEW a \in Recipients, applyRecipient(a) PROVE EachDue
    <3>1. /\ Due(GrantRecipient(a)) /\ permittedRecipients' = permittedRecipients \union {a}
          /\ UNCHANGED <<paymentPolicy, paymentsPaused>>
      BY <2>1, <2>3 DEF applyRecipient
    <3>2. Granted \subseteq {a}
      BY <3>1
    <3> QED BY <3>1, <3>2
  <2>4. CASE applyUnpause
    <3>1. Due(Unpause) /\ UNCHANGED <<paymentPolicy, permittedRecipients>>
      BY <2>1, <2>4 DEF applyUnpause
    <3> QED BY <3>1
  <2>5. CASE UNCHANGED <<paymentPolicy, paymentsPaused, permittedRecipients>>
    BY <2>5
  <2>6. CASE UNCHANGED evars \/ ((GuardianStep \/ Tick) /\ UNCHANGED <<vaultVars, escrowVars>>)
    BY <2>5, <2>6 DEF evars, escrowVars, policyVars
  <2>7. CASE FundingAction \/ PaymentReview \/ \E m \in Messages : executePayment(m)
    BY <2>5, <2>7 DEF FundingAction, receiveCctp, PaymentReview, reviewPayment, executePayment,
       policyVars
  <2>8. CASE ReturnAction
    BY <2>5, <2>8 DEF ReturnAction, requestReturn, executeReturn, policyVars
  <2>9. CASE AuthorityAction
    <3>1. CASE pausePayments
      BY <3>1 DEF pausePayments
    <3>2. ASSUME NEW a \in Recipients, revokeRecipient(a) PROVE EachDue
      <4>1. Granted = {} /\ UNCHANGED <<paymentPolicy, paymentsPaused>>
        BY <3>2 DEF revokeRecipient
      <4> QED BY <4>1
    <3> QED BY <2>5, <2>9, <3>1, <3>2 DEF AuthorityAction, approvePayment, schedule, policyVars
  <2> QED BY <2>0, <2>2, <2>3, <2>4, <2>6, <2>7, <2>8, <2>9 DEF ENext, ApplyAction
<1> QED BY <1>1, InitEHInv, NextEHInv, PTL DEF EHSpec, LooseningAnnounced

-----------------------------------------------------------------------------
(* The screening evidence.                                                 *)

ScreeningTypes ==
    /\ screeningProfile \in Profiles \union {NoProfile}
    /\ activeHead \in SignedHeads \union {NoHead}
    /\ screened \in [Messages -> [head: SignedHeads, validUntil: Nat] \union {NotScreened}]

\* The active list is one the profile in force allows.
HeadAllowed ==
    activeHead # NoHead =>
        /\ screeningProfile # NoProfile
        /\ activeHead.validUntil <= activeHead.listAsOf + screeningProfile.maxSnapshotAgeSeconds

\* The evidence that counts: bound to an ALLOW under the policy in force.
Counts(m) == reviewedPolicyVersion[m] = policyVersion /\ screened[m] # NotScreened

\* Between two policy versions lists only get newer, so a list that was
\* superseded never becomes the active one again.
ListsGetNewer ==
    \A m \in Messages :
        Counts(m) => activeHead # NoHead /\ screened[m].head.revision <= activeHead.revision

\* The receipt behind a head and an expiry that still match.
Behind(m, receipt) ==
    /\ receipt \in SignedReceipts
    /\ receipt.payment = m /\ receipt.outcome = "NOT_LISTED"
    /\ receipt.version = policyVersion
    /\ receipt.head = activeHead
    /\ receipt.validUntil = screened[m].validUntil
    /\ receipt.validUntil <= receipt.checkedAt + screeningProfile.maxObservationAgeSeconds
    /\ receipt.signer = screeningProfile.issuer

EvidenceTold ==
    \A m \in Messages :
        Counts(m) /\ screened[m].head = activeHead => Behind(m, clearance[m])

SInv == EscrowInv /\ ScreeningTypes /\ HeadAllowed

SHInv == SInv /\ clearance \in [Messages -> SignedReceipts \union {NotCleared}]
              /\ ListsGetNewer /\ EvidenceTold

\* Deployed paused, without a list.
LEMMA InitSInv == SInit => SInv
<1> SUFFICES ASSUME SInit PROVE SInv
  OBVIOUS
<1>1. EscrowInv
  BY InitEscrow DEF SInit
<1>2. ScreeningTypes /\ HeadAllowed
  BY ScreeningAssumption DEF SInit, ScreeningTypes, HeadAllowed
<1> QED BY <1>1, <1>2 DEF SInv

\* Nothing has been reviewed, so nothing counts.
LEMMA InitSHInv == SHInit => SHInv
<1> SUFFICES ASSUME SHInit PROVE SHInv
  OBVIOUS
<1>1. SInv
  BY InitSInv DEF SHInit
<1>2. \A m \in Messages : ~Counts(m)
  BY DEF SHInit, SInit, EscrowDeployed, Counts
<1>3. clearance \in [Messages -> SignedReceipts \union {NotCleared}]
  BY DEF SHInit
<1> QED BY <1>1, <1>2, <1>3 DEF SHInv, ListsGetNewer, EvidenceTold

\* A screening change that commits is, to the payment escrow, a commit.
LEMMA CommitEscrow ==
  ASSUME EscrowInv, Commit, UNCHANGED policyFrame,
         UNCHANGED <<paymentPolicy, paymentsPaused, permittedRecipients>>
  PROVE  /\ EscrowInv'
         /\ \A m \in Messages : ~Counts(m)'
<1>1. EscrowInv'
  BY CommitTypes, PolicyEscrow DEF EscrowInv, PolicyTypes
<1>2. /\ policyVersion \in Nat /\ policyVersion' = policyVersion + 1
      /\ reviewedPolicyVersion' = reviewedPolicyVersion /\ VersionsPast
      /\ reviewedPolicyVersion \in [Messages -> 0 .. MaxVersion]
  BY CommitTypes, EscrowAssumption
  DEF policyFrame, clearanceVars, EscrowInv, PolicyTypes, ClearanceTypes
<1>3. \A m \in Messages : reviewedPolicyVersion'[m] # policyVersion'
  BY <1>2 DEF VersionsPast
<1> QED BY <1>1, <1>3 DEF Counts

\* What screening has no part in: the versions under which payments were
\* reviewed stay, and the policy moves on or stays.
LEMMA InheritedStep ==
  ASSUME SInv, InheritedAction
  PROVE  /\ EscrowInv' /\ UNCHANGED <<screeningVars, reviewedPolicyVersion>>
         /\ policyVersion' # policyVersion => \A m \in Messages : ~Counts(m)'
<1>0. EscrowInv /\ UNCHANGED screeningVars
  BY DEF SInv, InheritedAction
<1>1. CASE (GuardianStep \/ Tick) /\ UNCHANGED <<vaultVars, escrowVars>>
  BY <1>0, <1>1, NextEscrow DEF ENext, escrowVars, policyVars, clearanceVars
<1>2. CASE FundingAction
  <2>1. EscrowInv'
    BY <1>0, <1>2, NextEscrow DEF ENext
  <2> QED BY <1>0, <1>2, <2>1 DEF FundingAction, receiveCctp, policyVars, clearanceVars
<1>3. CASE ReturnAction
  <2>1. EscrowInv'
    BY <1>0, <1>3, NextEscrow DEF ENext
  <2> QED BY <1>0, <1>3, <2>1 DEF ReturnAction, requestReturn, executeReturn, policyVars, clearanceVars
<1>4. CASE AuthorityAction
  <2>1. CASE pausePayments \/ \E a \in Recipients : revokeRecipient(a)
    <3>1. Commit /\ UNCHANGED policyFrame
      BY <2>1 DEF pausePayments, revokeRecipient
    <3>2. policyVersion' = policyVersion + 1 /\ policyVersion \in Nat
          /\ reviewedPolicyVersion' = reviewedPolicyVersion
          /\ reviewedPolicyVersion \in [Messages -> 0 .. MaxVersion] /\ VersionsPast
      BY <1>0, <3>1, CommitTypes, EscrowAssumption
      DEF policyFrame, clearanceVars, EscrowInv, PolicyTypes, ClearanceTypes
    <3>3. \A m \in Messages : reviewedPolicyVersion'[m] # policyVersion'
      BY <3>2 DEF VersionsPast
    <3> QED BY <1>0, <1>4, <3>2, <3>3, AuthorityEscrow DEF Counts
  <2>2. CASE \/ \E m \in Messages : approvePayment(m)
             \/ \E action \in Scheduled : schedule(action)
    <3>1. UNCHANGED <<policyVersion, reviewedPolicyVersion>>
      BY <2>2 DEF approvePayment, schedule, policyVars, policyFrame, clearanceVars
    <3> QED BY <1>0, <1>4, <3>1, AuthorityEscrow
  <2> QED BY <1>4, <2>1, <2>2 DEF AuthorityAction
<1>5. CASE ApplyAction
  <2>1. Commit /\ UNCHANGED policyFrame
    BY <1>5 DEF ApplyAction, applyPolicy, applyRecipient, applyUnpause, Consume
  <2>2. policyVersion' = policyVersion + 1 /\ policyVersion \in Nat
        /\ reviewedPolicyVersion' = reviewedPolicyVersion
        /\ reviewedPolicyVersion \in [Messages -> 0 .. MaxVersion] /\ VersionsPast
    BY <1>0, <2>1, CommitTypes, EscrowAssumption
    DEF policyFrame, clearanceVars, EscrowInv, PolicyTypes, ClearanceTypes
  <2>3. \A m \in Messages : reviewedPolicyVersion'[m] # policyVersion'
    BY <2>2 DEF VersionsPast
  <2> QED BY <1>0, <1>5, <2>2, <2>3, ApplyEscrow DEF Counts
<1> QED BY <1>1, <1>2, <1>3, <1>4, <1>5 DEF InheritedAction

\* A step that leaves evidence, lists, profile, policy and clearances alone.
LEMMA EvidenceUntouched ==
  ASSUME SHInv, EscrowInv', UNCHANGED <<screeningProfile, activeHead, screened, clearance>>,
         \/ UNCHANGED <<policyVersion, reviewedPolicyVersion>>
         \/ \A m \in Messages : ~Counts(m)'
  PROVE  SHInv'
<1>1. SInv'
  BY DEF SHInv, SInv, ScreeningTypes, HeadAllowed
<1>2. ListsGetNewer' /\ EvidenceTold'
  BY DEF SHInv, ListsGetNewer, EvidenceTold, Counts, Behind
<1> QED BY <1>1, <1>2 DEF SHInv

\* A review that carries a receipt.
LEMMA ScreenedReviewStep ==
  ASSUME SHInv, NEW m \in Messages, NEW receipt \in SignedReceipts, ScreenedReview(m, receipt),
         clearance' = [clearance EXCEPT ![m] = receipt]
  PROVE  SHInv'
<1>0. EscrowInv /\ SInv /\ receipt \in ScreeningReceipt
  BY ScreeningAssumption DEF SHInv, SInv
<1>1. PICK tier \in ReviewTiers, nonce \in ReviewNonces, signer \in Keys :
        \E validUntil \in now .. now + MaxReviewTtl :
            reviewScreenedRelease(m, tier, validUntil, nonce, signer, receipt)
  BY DEF ScreenedReview
<1>2. PICK validUntil \in now .. now + MaxReviewTtl :
        reviewScreenedRelease(m, tier, validUntil, nonce, signer, receipt)
  BY <1>1
<1> DEFINE evidence == [head |-> receipt.head, validUntil |-> receipt.validUntil]
<1>3. /\ Accepted(m, receipt)
      /\ reviewPayment(m, "ALLOW", tier, validUntil, nonce, signer)
      /\ screened' = [screened EXCEPT ![m] = evidence]
      /\ UNCHANGED <<screeningProfile, executionMode, activeHead>>
  BY <1>2 DEF reviewScreenedRelease
<1>4. EscrowInv'
  <2>1. "ALLOW" \in ReviewDecisions
    BY DEF ReviewDecisions
  <2> QED BY <1>0, <1>3, <2>1, ReviewEscrow
<1>5. /\ UNCHANGED policyVersion
      /\ reviewedPolicyVersion' = [reviewedPolicyVersion EXCEPT ![m] = policyVersion]
  BY <1>3 DEF reviewPayment, BeforeReview, policyVars
<1>6. /\ evidence \in [head: SignedHeads, validUntil: Nat]
      /\ evidence.head = activeHead /\ evidence.validUntil = receipt.validUntil
      /\ activeHead # NoHead /\ screeningProfile \in Profiles
      /\ activeHead \in SignedHeads /\ activeHead.revision \in Nat
  <2>1. receipt.head \in SignedHeads /\ receipt.validUntil \in Nat
    BY <1>0 DEF ScreeningReceipt
  <2>2. activeHead # NoHead /\ receipt.head = activeHead /\ screeningProfile # NoProfile
    BY <1>3 DEF Accepted, ScreeningUsable
  <2>3. activeHead \in Head
    BY <2>1, <2>2, ScreeningAssumption
  <2> QED BY <1>0, <2>1, <2>2, <2>3 DEF SInv, ScreeningTypes, Head
<1>7. /\ receipt.payment = m /\ receipt.version = policyVersion /\ receipt.outcome = "NOT_LISTED"
      /\ receipt.head = activeHead /\ receipt.signer = screeningProfile.issuer
      /\ receipt.validUntil <= receipt.checkedAt + screeningProfile.maxObservationAgeSeconds
  <2>1. /\ receipt.checkedAt \in Nat /\ receipt.validUntil \in Nat
        /\ screeningProfile.maxObservationAgeSeconds \in Nat
    BY <1>0, <1>6, ScreeningAssumption DEF ScreeningReceipt, ScreeningProfile
  <2> QED BY <1>3, <2>1 DEF Accepted, ReceiptInTime
<1>8. screened \in [Messages -> [head: SignedHeads, validUntil: Nat] \union {NotScreened}]
      /\ clearance \in [Messages -> SignedReceipts \union {NotCleared}]
      /\ reviewedPolicyVersion \in [Messages -> 0 .. MaxVersion]
  BY <1>0 DEF SInv, ScreeningTypes, SHInv, EscrowInv, ClearanceTypes
<1> HIDE DEF evidence
<1>9. screened'[m] = evidence /\ clearance'[m] = receipt
      /\ \A q \in Messages : q # m =>
           /\ screened'[q] = screened[q] /\ clearance'[q] = clearance[q]
           /\ reviewedPolicyVersion'[q] = reviewedPolicyVersion[q]
  BY <1>3, <1>5, <1>8
<1>10. SInv'
  BY <1>0, <1>3, <1>4, <1>6, <1>8 DEF SInv, ScreeningTypes, HeadAllowed
<1>11. clearance' \in [Messages -> SignedReceipts \union {NotCleared}]
  BY <1>8
<1>12. ListsGetNewer'
  BY <1>3, <1>5, <1>6, <1>9 DEF SHInv, ListsGetNewer, Counts
<1>13. EvidenceTold'
  BY <1>3, <1>5, <1>6, <1>7, <1>9 DEF SHInv, EvidenceTold, Counts, Behind
<1> QED BY <1>10, <1>11, <1>12, <1>13 DEF SHInv

\* A HOLD or a REJECT withdraws the evidence.
LEMMA UnscreenedReviewStep ==
  ASSUME SHInv, NEW m \in Messages, UnscreenedReview(m),
         clearance' = [clearance EXCEPT ![m] = NotCleared]
  PROVE  SHInv'
<1>0. EscrowInv /\ SInv
  BY DEF SHInv, SInv
<1>1. PICK decision \in ReviewDecisions, tier \in ReviewTiers, nonce \in ReviewNonces,
           signer \in Keys :
        \E validUntil \in now .. now + MaxReviewTtl :
            reviewUnscreened(m, decision, tier, validUntil, nonce, signer)
  BY DEF UnscreenedReview
<1>2. PICK validUntil \in now .. now + MaxReviewTtl :
        reviewUnscreened(m, decision, tier, validUntil, nonce, signer)
  BY <1>1
<1>3. /\ reviewPayment(m, decision, tier, validUntil, nonce, signer) /\ decision # "ALLOW"
      /\ screened' = [screened EXCEPT ![m] = NotScreened]
      /\ UNCHANGED <<screeningProfile, executionMode, activeHead>>
  BY <1>2 DEF reviewUnscreened
<1>4. EscrowInv'
  BY <1>0, <1>3, ReviewEscrow
<1>5. UNCHANGED <<policyVersion, reviewedPolicyVersion>>
  BY <1>3 DEF reviewPayment, BeforeReview, policyVars
<1>6. screened \in [Messages -> [head: SignedHeads, validUntil: Nat] \union {NotScreened}]
      /\ clearance \in [Messages -> SignedReceipts \union {NotCleared}]
  BY <1>0 DEF SInv, ScreeningTypes, SHInv
<1>7. screened'[m] = NotScreened
      /\ \A q \in Messages : q # m =>
           screened'[q] = screened[q] /\ clearance'[q] = clearance[q]
  BY <1>3, <1>6
<1>8. SInv'
  BY <1>0, <1>3, <1>4, <1>6 DEF SInv, ScreeningTypes, HeadAllowed
<1>9. clearance' \in [Messages -> SignedReceipts \union {NotCleared}]
  BY <1>6
<1>10. ListsGetNewer' /\ EvidenceTold'
  BY <1>3, <1>5, <1>7 DEF SHInv, ListsGetNewer, EvidenceTold, Counts, Behind
<1> QED BY <1>8, <1>9, <1>10 DEF SHInv

\* A newer list, another profile or none: nothing that was cleared still is.
LEMMA ScreeningMovesStep ==
  ASSUME SHInv, ScreeningMoves, clearance' = [m \in Messages |-> NotCleared]
  PROVE  SHInv'
<1>0. EscrowInv /\ SInv /\ ScreeningTypes
  BY DEF SHInv, SInv
<1>1. clearance' \in [Messages -> SignedReceipts \union {NotCleared}]
  OBVIOUS
<1>2. ASSUME NEW profile \in Profiles \union {NoProfile}, screeningProfile' = profile,
             activeHead' = NoHead, UNCHANGED screened, Commit, UNCHANGED policyFrame,
             UNCHANGED <<paymentPolicy, paymentsPaused, permittedRecipients>>
      PROVE  SHInv'
  <2>1. EscrowInv' /\ \A m \in Messages : ~Counts(m)'
    BY <1>0, <1>2, CommitEscrow
  <2>2. SInv'
    BY <1>0, <1>2, <2>1 DEF SInv, ScreeningTypes, HeadAllowed
  <2> QED BY <1>1, <2>1, <2>2 DEF SHInv, ListsGetNewer, EvidenceTold
<1>3. CASE revokeScreeningProfile
  BY <1>2, <1>3 DEF revokeScreeningProfile
<1>4. ASSUME NEW p \in Profiles, applyScreeningProfile(p) PROVE SHInv'
  BY <1>2, <1>4 DEF applyScreeningProfile, Consume
<1>5. ASSUME NEW h \in SignedHeads, registerScreeningHead(h) PROVE SHInv'
  <2>1. /\ ScreeningUsable /\ Supersedes(h) /\ activeHead' = h
        /\ h.validUntil \in h.listAsOf .. h.listAsOf + screeningProfile.maxSnapshotAgeSeconds
        /\ UNCHANGED <<evars, screeningProfile, executionMode, screened>>
    BY <1>5 DEF registerScreeningHead
  <2>2. EscrowInv' /\ UNCHANGED <<policyVersion, reviewedPolicyVersion>>
    BY <1>0, <2>1, NextEscrow DEF evars, escrowVars, policyVars, clearanceVars
  <2>3. h \in Head /\ h # NoHead /\ h.revision \in Nat
    BY ScreeningAssumption DEF Head
  <2>4. SInv'
    <3>1. ScreeningTypes'
      BY <1>0, <2>1 DEF ScreeningTypes
    <3>2. screeningProfile # NoProfile /\ screeningProfile \in ScreeningProfile
      BY <1>0, <2>1, ScreeningAssumption DEF ScreeningUsable, ScreeningTypes
    <3>3. HeadAllowed'
      BY <2>1, <2>3, <3>2 DEF HeadAllowed, ScreeningProfile, Head
    <3> QED BY <2>2, <3>1, <3>3 DEF SInv
  <2>5. ASSUME NEW m \in Messages, Counts(m)'
        PROVE  screened[m].head.revision < h.revision
    <3>1. Counts(m)
      BY <2>1, <2>2, <2>5 DEF Counts
    <3>2. activeHead # NoHead /\ screened[m].head.revision <= activeHead.revision
      BY <3>1 DEF SHInv, ListsGetNewer
    <3>3. activeHead.revision < h.revision
      BY <2>1, <3>2 DEF Supersedes
    <3>4. activeHead \in Head /\ screened[m].head \in Head
      BY <1>0, <3>1, <3>2, ScreeningAssumption DEF ScreeningTypes, Counts
    <3> QED BY <2>3, <3>2, <3>3, <3>4 DEF Head
  <2>6. ASSUME NEW m \in Messages, Counts(m)'
        PROVE  screened[m].head # h /\ screened[m].head.revision <= h.revision
    <3>1. screened[m].head \in Head
      BY <1>0, <2>1, <2>6, ScreeningAssumption DEF ScreeningTypes, Counts
    <3> QED BY <2>3, <2>5, <2>6, <3>1 DEF Head
  <2>7. ListsGetNewer' /\ EvidenceTold'
    BY <2>1, <2>3, <2>6 DEF ListsGetNewer, EvidenceTold
  <2> QED BY <1>1, <2>4, <2>7 DEF SHInv
<1> QED BY <1>3, <1>4, <1>5 DEF ScreeningMoves

\* SHInv is inductive.
LEMMA NextSHInv == SHInv /\ [SHNext]_shvars => SHInv'
<1> SUFFICES ASSUME SHInv, [SHNext]_shvars PROVE SHInv'
  OBVIOUS
<1>0. EscrowInv /\ SInv
  BY DEF SHInv, SInv
<1>1. CASE InheritedAction /\ UNCHANGED clearance
  BY <1>0, <1>1, InheritedStep, EvidenceUntouched DEF screeningVars
<1>2. ASSUME NEW m \in Messages, executeScreenedPayment(m), UNCHANGED clearance PROVE SHInv'
  <2>1. EscrowInv' /\ UNCHANGED <<screeningVars, policyVersion, reviewedPolicyVersion>>
    BY <1>0, <1>2, PayoutEscrow
    DEF executeScreenedPayment, executePayment, policyVars, clearanceVars
  <2> QED BY <1>2, <2>1, EvidenceUntouched DEF screeningVars
<1>3. CASE ScheduleScreening /\ UNCHANGED clearance
  <2>1. EscrowInv' /\ UNCHANGED <<screeningVars, policyVersion, reviewedPolicyVersion>>
    BY <1>0, <1>3, ScheduleEscrow DEF ScheduleScreening, schedule, policyFrame, clearanceVars
  <2> QED BY <1>3, <2>1, EvidenceUntouched DEF screeningVars
<1>4. ASSUME NEW mode \in ExecutionModes, applyExecutionMode(mode), UNCHANGED clearance
      PROVE  SHInv'
  <2>1. EscrowInv' /\ \A m \in Messages : ~Counts(m)'
    BY <1>0, <1>4, CommitEscrow DEF applyExecutionMode, Consume
  <2> QED BY <1>4, <2>1, EvidenceUntouched DEF applyExecutionMode
<1>5. CASE UNCHANGED shvars
  <2>1. EscrowInv' /\ UNCHANGED <<screeningVars, policyVersion, reviewedPolicyVersion, clearance>>
    BY <1>0, <1>5, NextEscrow DEF shvars, svars, evars, escrowVars, policyVars, clearanceVars
  <2> QED BY <2>1, EvidenceUntouched DEF screeningVars
<1> QED
  BY <1>1, <1>2, <1>3, <1>4, <1>5, ScreenedReviewStep, UnscreenedReviewStep, ScreeningMovesStep
  DEF SHNext

\* Of a screened escrow too, only the payout makes a release EXECUTED.
LEMMA ScreenedPayoutStep ==
  ASSUME SHInv, [SHNext]_shvars, NEW m \in Messages,
         releases[m].state # "EXECUTED", releases'[m].state = "EXECUTED"
  PROVE  executeScreenedPayment(m)
<1>0. EscrowInv /\ releases \in [Messages -> Release] /\ VaultTypeOK /\ now \in Nat
  BY DEF SHInv, SInv, EscrowInv, VInv, VaultTypeOK, TypeOK
<1>1. ASSUME NEW q \in Messages, NEW decision \in ReviewDecisions, NEW tier \in ReviewTiers,
             NEW nonce \in ReviewNonces, NEW signer \in Keys,
             NEW validUntil \in now .. now + MaxReviewTtl,
             reviewPayment(q, decision, tier, validUntil, nonce, signer)
      PROVE  FALSE
  <2> DEFINE new == ReviewedRelease(q, decision, tier, validUntil, nonce, signer)
  <2>1. new.state = StateAfter(decision)
    BY <1>0, VaultAssumption, ReviewedType
  <2>2. StateAfter(decision) # "EXECUTED"
    BY DEF StateAfter, ReviewDecisions
  <2>3. releases' = [releases EXCEPT ![q] = new]
    BY <1>1 DEF reviewPayment, reviewRelease, RecordReview
  <2> HIDE DEF new
  <2> QED BY <1>0, <2>1, <2>2, <2>3
<1>2. ASSUME NEW q \in Messages, NEW receipt \in SignedReceipts, ScreenedReview(q, receipt)
      PROVE  FALSE
  BY <1>1, <1>2 DEF ScreenedReview, reviewScreenedRelease, ReviewDecisions
<1>3. ASSUME NEW q \in Messages, UnscreenedReview(q) PROVE FALSE
  BY <1>1, <1>3 DEF UnscreenedReview, reviewUnscreened
<1>4. CASE UNCHANGED releases
  BY <1>4
<1>5. CASE ScreeningMoves \/ ScheduleScreening \/ \E mode \in ExecutionModes : applyExecutionMode(mode)
  BY <1>4, <1>5
  DEF ScreeningMoves, revokeScreeningProfile, applyScreeningProfile, registerScreeningHead,
      ScheduleScreening, schedule, applyExecutionMode, Consume, policyFrame, evars, vvars, vaultVars
<1>6. CASE InheritedAction
  <2>1. CASE ((GuardianStep \/ Tick) /\ UNCHANGED <<vaultVars, escrowVars>>)
    BY <1>4, <2>1 DEF vaultVars
  <2>2. CASE FundingAction
    BY <1>0, <2>2 DEF FundingAction, receiveCctp, RecordRequest, NewRelease
  <2>3. CASE AuthorityAction
    BY <1>4, <2>3 DEF AuthorityAction, pausePayments, revokeRecipient, approvePayment, schedule,
       policyFrame, vvars, vaultVars
  <2>4. CASE ApplyAction
    BY <1>4, <2>4 DEF ApplyAction, applyPolicy, applyRecipient, applyUnpause, Consume,
       policyFrame, vvars, vaultVars
  <2>5. ASSUME NEW q \in Messages, requestReturn(q) PROVE FALSE
    BY <1>4, <2>5 DEF requestReturn, vvars, vaultVars
  <2>6. ASSUME NEW q \in Messages, executeReturn(q) PROVE FALSE
    BY <1>0, <2>6 DEF executeReturn, Release
  <2> QED BY <1>6, <2>1, <2>2, <2>3, <2>4, <2>5, <2>6 DEF InheritedAction, ReturnAction
<1>7. ASSUME NEW q \in Messages, executeScreenedPayment(q) PROVE executeScreenedPayment(m)
  <2>1. q = m
    BY <1>0, <1>7 DEF executeScreenedPayment, executePayment, executeRelease
  <2> QED BY <1>7, <2>1
<1>8. CASE UNCHANGED shvars
  BY <1>4, <1>8 DEF shvars, svars, evars, vvars, vaultVars
<1> QED BY <1>2, <1>3, <1>5, <1>6, <1>7, <1>8 DEF SHNext

-----------------------------------------------------------------------------
\* A payment leaves only on evidence that still stands, whatever lists,
\* receipts, profiles, oracles and policies there are and however they change
\* between review and payout.
THEOREM PaymentsRestOnStandingEvidence == SHSpec => PaidOnStandingEvidence
<1>1. ASSUME SHInv, [SHNext]_shvars, NEW m \in Messages,
             releases[m].state # "EXECUTED" /\ releases'[m].state = "EXECUTED"
      PROVE  LET receipt == clearance[m]
             IN  /\ receipt # NotCleared
                 /\ receipt.payment = m /\ receipt.outcome = "NOT_LISTED"
                 /\ receipt.version = policyVersion
                 /\ now <= receipt.checkedAt + screeningProfile.maxObservationAgeSeconds
                 /\ now <= receipt.head.listAsOf + screeningProfile.maxSnapshotAgeSeconds
                 /\ receipt.signer \notin {oracle, Authority}
  <2>1. executeScreenedPayment(m)
    BY <1>1, ScreenedPayoutStep
  <2>2. StillScreened(m) /\ reviewedPolicyVersion[m] = policyVersion
    BY <2>1 DEF executeScreenedPayment, executePayment, BeforeExecute, ReviewedNow
  <2>3. Counts(m) /\ screened[m].head = activeHead /\ screeningProfile # NoProfile
        /\ now <= screened[m].validUntil /\ now <= activeHead.validUntil
        /\ screeningProfile.issuer \notin {oracle, Authority}
    BY <2>2 DEF StillScreened, Counts, IndependentIssuer
  <2>4. Behind(m, clearance[m]) /\ activeHead # NoHead /\ HeadAllowed
    BY <1>1, <2>3 DEF SHInv, SInv, EvidenceTold, ListsGetNewer
  <2>5. /\ clearance[m] \in ScreeningReceipt /\ clearance[m] # NotCleared
        /\ activeHead \in Head /\ screeningProfile \in ScreeningProfile /\ now \in Nat
    BY <1>1, <2>3, <2>4, ScreeningAssumption, ClearanceAssumption
    DEF Behind, SHInv, SInv, ScreeningTypes, EscrowInv, VInv, VaultTypeOK, TypeOK
  <2>6. /\ now <= clearance[m].validUntil
        /\ clearance[m].validUntil <=
             clearance[m].checkedAt + screeningProfile.maxObservationAgeSeconds
        /\ activeHead.validUntil <= activeHead.listAsOf + screeningProfile.maxSnapshotAgeSeconds
        /\ clearance[m].head = activeHead
    BY <2>3, <2>4 DEF Behind, HeadAllowed
  <2>7. now <= clearance[m].checkedAt + screeningProfile.maxObservationAgeSeconds
    BY <2>5, <2>6 DEF ScreeningReceipt, ScreeningProfile
  <2>8. now <= activeHead.listAsOf + screeningProfile.maxSnapshotAgeSeconds
    BY <2>3, <2>5, <2>6 DEF Head, ScreeningProfile
  <2> QED BY <2>3, <2>4, <2>5, <2>6, <2>7, <2>8 DEF Behind
<1>2. SHInv /\ [SHNext]_shvars =>
        [\A m \in Messages :
          releases[m].state # "EXECUTED" /\ releases'[m].state = "EXECUTED" =>
            LET receipt == clearance[m]
            IN  /\ receipt # NotCleared
                /\ receipt.payment = m /\ receipt.outcome = "NOT_LISTED"
                /\ receipt.version = policyVersion
                /\ now <= receipt.checkedAt + screeningProfile.maxObservationAgeSeconds
                /\ now <= receipt.head.listAsOf + screeningProfile.maxSnapshotAgeSeconds
                /\ receipt.signer \notin {oracle, Authority}]_shvars
  BY <1>1
<1> QED BY <1>2, InitSHInv, NextSHInv, PTL DEF SHSpec, PaidOnStandingEvidence

\* The screened escrow pays or returns each credit, never both.
THEOREM ScreenedReturnsExcludePayouts == SHSpec => []ReturnExcludesPayout
<1>1. SHInv => ReturnExcludesPayout
  BY DEF SHInv, SInv, EscrowInv
<1> QED BY <1>1, InitSHInv, NextSHInv, PTL DEF SHSpec

\* And it stays solvent: screening adds no way to move money.
THEOREM ScreenedEscrowIsSolvent == SHSpec => []Solvent
<1>1. SHInit => Solvent
  BY InitSolvent DEF SHInit, SInit
<1>2. SHInv /\ Solvent /\ [SHNext]_shvars => Solvent'
  <2> SUFFICES ASSUME SHInv, Solvent, [SHNext]_shvars PROVE Solvent'
    OBVIOUS
  <2>0. EscrowInv
    BY DEF SHInv, SInv
  <2>1. CASE InheritedAction
    BY <2>0, <2>1, NextSolvent DEF InheritedAction, ENext
  <2>2. ASSUME NEW m \in Messages, NEW receipt \in SignedReceipts, ScreenedReview(m, receipt)
        PROVE  Solvent'
    BY <2>0, <2>2, ReviewSolvent DEF ScreenedReview, reviewScreenedRelease, ReviewDecisions
  <2>3. ASSUME NEW m \in Messages, UnscreenedReview(m) PROVE Solvent'
    BY <2>0, <2>3, ReviewSolvent DEF UnscreenedReview, reviewUnscreened
  <2>4. ASSUME NEW m \in Messages, executeScreenedPayment(m) PROVE Solvent'
    BY <2>0, <2>4, PayoutSolvent DEF executeScreenedPayment
  <2>5. CASE ScreeningMoves \/ ScheduleScreening \/ UNCHANGED shvars
             \/ \E mode \in ExecutionModes : applyExecutionMode(mode)
    <3>1. UNCHANGED <<releases, credits, totals, vaultTokens>>
      BY <2>5
      DEF ScreeningMoves, revokeScreeningProfile, applyScreeningProfile, registerScreeningHead,
          ScheduleScreening, schedule, applyExecutionMode, Consume, policyFrame, shvars, svars,
          evars, vvars, vaultVars, escrowVars, creditVars
    <3> QED BY <3>1, QuietSolvent
  <2> QED BY <2>1, <2>2, <2>3, <2>4, <2>5 DEF SHNext
<1> QED BY <1>1, <1>2, InitSHInv, NextSHInv, PTL DEF SHSpec
=============================================================================
