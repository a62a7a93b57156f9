----------------------------- MODULE MCScreening -----------------------------
(* Constants for the run of ScreeningHistory.                              *)
EXTENDS MCEscrow, ScreeningHistory

CONSTANT i1

Profile == [issuer |-> i1, maxObservationAgeSeconds |-> 1, maxSnapshotAgeSeconds |-> 2]
OneProfile == {Profile}

\* A list and the next one.
ListHead(revision) ==
    [profile |-> Profile, signer |-> i1, revision |-> revision, listAsOf |-> revision,
     validUntil |-> revision + 2]
Lists == {ListHead(1), ListHead(2)}

Receipt(head, version, outcome, checkedAt, validUntil) ==
    [profile |-> Profile, signer |-> i1, head |-> head, payment |-> m1, version |-> version,
     outcome |-> outcome, checkedAt |-> checkedAt, validUntil |-> validUntil]
\* A receipt for either list, each under a policy version of its own, one that
\* lasts too long, and one that does not clear.
Receipts ==
    {Receipt(ListHead(1), 2, "NOT_LISTED", 2, 3), Receipt(ListHead(2), 3, "NOT_LISTED", 2, 3),
     Receipt(ListHead(1), 2, "NOT_LISTED", 1, 3), Receipt(ListHead(1), 2, "MATCHED", 2, 3)}

Consents == {SetProfile(Profile), SetMode("ADVISORY_V1")}

LateCredit == {[nonce |-> m1, to |-> a1, net |-> 1, operation |-> op1, intent |-> 2]}
=============================================================================
