---------------------------- MODULE EscrowHistory ---------------------------
(***************************************************************************)
(* CctpPaymentEscrow with history variables about the customer's policy:   *)
(* what each credit was last cleared under, which loosening stands         *)
(* announced and since when, and how long each credit was told to wait.    *)
(***************************************************************************)
EXTENDS CctpPaymentEscrow

VARIABLES
    unreviewed, \* message id -> no ALLOW since the customer last changed anything
    unapproved, \* message id -> no customer approval since then
    announced,  \* the customer's standing announcement: [action, at]
    promised    \* message id -> latest instant its ALLOWs told it to wait for

escrowHistoryVars == <<unreviewed, unapproved, announced, promised>>
ehvars == <<evars, escrowHistoryVars>>

NoAnnouncement == [action |-> NoAction, at |-> 0]

EHInit ==
    /\ EInit
    /\ unreviewed = [m \in Messages |-> TRUE]
    /\ unapproved = [m \in Messages |-> TRUE]
    /\ announced = NoAnnouncement
    /\ promised = [m \in Messages |-> 0]

Allowed(m) ==
    releases'[m].reviewNonce # releases[m].reviewNonce /\ releases'[m].state = "VERIFIED"

Executes(m) == releases[m].state # "EXECUTED" /\ releases'[m].state = "EXECUTED"

Committed == policyVersion' # policyVersion

RecordHistory ==
    /\ unreviewed' = [m \in Messages |-> Committed \/ (unreviewed[m] /\ ~Allowed(m))]
    /\ unapproved' = [m \in Messages |-> Committed \/ (unapproved[m] /\ ~approvePayment(m))]
    /\ announced' =
         IF \E action \in Scheduled : schedule(action)
         THEN [action |-> queuedChange'.action, at |-> now]
         ELSE IF Committed THEN NoAnnouncement ELSE announced
    /\ promised' = [m \in Messages |->
         IF /\ Allowed(m) /\ unreviewed[m]
            /\ releases[m].amount > paymentPolicy.delayAbove
            /\ now + paymentPolicy.delaySeconds > promised[m]
         THEN now + paymentPolicy.delaySeconds ELSE promised[m]]

EHNext == ENext /\ RecordHistory

EHSpec == EHInit /\ [][EHNext]_ehvars

-----------------------------------------------------------------------------
\* No payout slips past a change of the customer's policy: it was allowed, and
\* above the manual limit approved, since the last one, although reviews stay
\* in force for minutes and approvals for ever.
PaidUnderCurrentPolicy ==
    [][\A m \in Messages : Executes(m) =>
        /\ ~unreviewed[m]
        /\ releases[m].amount > paymentPolicy.manualApprovalAbove => ~unapproved[m]]_ehvars

\* The very change that stands announced, and for a full delay already.
Due(action) ==
    /\ announced.at # 0 /\ now >= announced.at + PolicyChangeDelay
    /\ announced.action = action

\* Each loosening of the customer's rules is the change that was announced, a
\* full POLICY_CHANGE_DELAY after its own notice: another one's notice excuses
\* nothing, and tightening or announcing a change in between starts over.
LooseningAnnounced ==
    [][/\ paymentsPaused /\ ~paymentsPaused' => Due(Unpause)
       /\ \A a \in permittedRecipients' \ permittedRecipients : Due(GrantRecipient(a))
       /\ paymentPolicy' # paymentPolicy => Due(SetPolicy(paymentPolicy'))]_ehvars

\* A payout waits for every delay its ALLOWs started, under each policy version
\* it was allowed in; re-review shortens nothing.
CustomerDelayServed ==
    [][\A m \in Messages : Executes(m) => now >= promised[m]]_ehvars
=============================================================================
