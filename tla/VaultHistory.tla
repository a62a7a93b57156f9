---------------------------- MODULE VaultHistory ----------------------------
(***************************************************************************)
(* ProtectedVault with history variables: whether the oracle has changed   *)
(* since a release was last reviewed, the review with the highest nonce,   *)
(* when a release was first allowed under an announced delay, and what the *)
(* owner last decided about the oracle.                                    *)
(***************************************************************************)
EXTENDS ProtectedVault

VARIABLES
    outlived,  \* message id -> the oracle changed since its last review
    newest,    \* message id -> [nonce, state] of its newest accepted review
    heldSince, \* message id -> first ALLOW under an announced delay, 0 if none
    notice     \* the owner's last decision about the oracle: [who, at]

vaultHistoryVars == <<outlived, newest, heldSince, notice>>
vhvars == <<vvars, vaultHistoryVars>>

VHInit ==
    /\ VInit
    /\ outlived = [m \in Messages |-> FALSE]
    /\ newest = [m \in Messages |-> [nonce |-> 0, state |-> "PENDING"]]
    /\ heldSince = [m \in Messages |-> 0]
    /\ notice = [who |-> NoAddress, at |-> now]

\* Accepting a review always changes the nonce.
Reviewed(m) == releases'[m].reviewNonce # releases[m].reviewNonce

Executes(m) == releases[m].state # "EXECUTED" /\ releases'[m].state = "EXECUTED"

\* A no-op administration call counts as the decision it repeats.
RecordNotice ==
    notice' = IF disableOracle \/ cancelOracleRotation THEN [who |-> NoAddress, at |-> now]
              ELSE IF \E next \in Candidates : proposeOracle(next)
                   THEN [who |-> pendingOracle', at |-> now]
              ELSE notice

RecordHistory ==
    /\ outlived' = [m \in Messages |->
         ~Reviewed(m) /\ (outlived[m] \/ oracle' # oracle)]
    /\ newest' = [m \in Messages |->
         IF Reviewed(m) /\ releases'[m].reviewNonce > newest[m].nonce
         THEN [nonce |-> releases'[m].reviewNonce, state |-> releases'[m].state]
         ELSE newest[m]]
    /\ heldSince' = [m \in Messages |->
         IF /\ Reviewed(m) /\ releases'[m].state = "VERIFIED" /\ heldSince[m] = 0
            /\ outflowDelay(VaultRoute, releases[m].amount) > 0
         THEN now ELSE heldSince[m]]

VHNext == VNext /\ RecordHistory /\ RecordNotice

VHSpec == VHInit /\ [][VHNext]_vhvars

-----------------------------------------------------------------------------
\* No payout rests on a review of an earlier tenure of the oracle: once the
\* oracle has been disabled or replaced, its reviews are dead for good, even
\* if the very same key is installed again.
PaidUnderOneTenure ==
    [][\A m \in Messages : Executes(m) => ~outlived[m]]_vhvars

\* An oracle is only ever installed on the owner's standing proposal of that
\* very address, made at least ORACLE_ROTATION_DELAY earlier and neither
\* cancelled nor followed by the kill switch.
OracleHadNotice ==
    [][oracle' \notin {oracle, NoAddress} =>
        notice.who = oracle' /\ notice.at + OracleRotationDelay <= now]_vhvars

\* Reviews may be submitted late and in any order, yet a payout is made only
\* if the newest one accepted is an ALLOW.
NewestReviewDecides ==
    [][\A m \in Messages : Executes(m) => newest[m].state = "VERIFIED"]_vhvars

\* A payout that the guardian wants delayed when it is made was allowed under
\* such a delay at least DELAY_WINDOW earlier, also when the cap or the tier
\* changed between the review and the payout.
DelayedPayoutWaited ==
    [][\A m \in Messages :
        Executes(m) /\ outflowDelay(VaultRoute, releases[m].amount) > 0
            => heldSince[m] # 0 /\ now >= heldSince[m] + DelayWindow]_vhvars
=============================================================================
