------------------------------ MODULE MCEscrow ------------------------------
(* Constants for the runs of CctpPaymentEscrow.                            *)
EXTENDS CctpPaymentEscrow, TLC

CONSTANTS m1, m2, a1, op1

\* Two messages that carry one operation.
Rivals == {[nonce |-> m, to |-> a1, net |-> 2, operation |-> op1, intent |-> 1] : m \in {m1, m2}}

MessageSymmetry == Permutations(Messages)

Open   == [maxPayment |-> 2, manualApprovalAbove |-> 2, delayAbove |-> 2, delaySeconds |-> 0]
Slow   == [maxPayment |-> 2, manualApprovalAbove |-> 1, delayAbove |-> 1, delaySeconds |-> 1]
Slower == [maxPayment |-> 2, manualApprovalAbove |-> 1, delayAbove |-> 1, delaySeconds |-> 2]

NoPolicies   == {}
SlowerPolicy == {Slower}

Reopening  == {Unpause}
Loosenings == {SetPolicy(Slower), GrantRecipient(a1), Unpause}
=============================================================================
