--------------------------- MODULE ScreeningHistory --------------------------
(***************************************************************************)
(* CctpScreenedPaymentEscrow with a history variable: the receipt that     *)
(* clears each payment as things stand, forgotten as soon as a newer list, *)
(* another profile or a tightening review puts it in doubt.  The contract  *)
(* keeps a head and an expiry only and compares them at the payout.        *)
(***************************************************************************)
EXTENDS CctpScreenedPaymentEscrow

CONSTANT NotCleared

ASSUME ClearanceAssumption == NotCleared \notin SignedReceipts

VARIABLE clearance  \* message id -> the receipt of its standing ALLOW

shvars == <<svars, clearance>>

SHInit == SInit /\ clearance = [m \in Messages |-> NotCleared]

SHNext ==
    \/ \E m \in Messages, receipt \in SignedReceipts :
         ScreenedReview(m, receipt) /\ clearance' = [clearance EXCEPT ![m] = receipt]
    \/ \E m \in Messages :
         UnscreenedReview(m) /\ clearance' = [clearance EXCEPT ![m] = NotCleared]
    \/ ScreeningMoves /\ clearance' = [m \in Messages |-> NotCleared]
    \/ /\ \/ InheritedAction
          \/ \E m \in Messages : executeScreenedPayment(m)
          \/ ScheduleScreening
          \/ \E mode \in ExecutionModes : applyExecutionMode(mode)
       /\ UNCHANGED clearance

SHSpec == SHInit /\ [][SHNext]_shvars

FairSHSpec == SHSpec /\ ReturnFairness

-----------------------------------------------------------------------------
\* A payment leaves only on evidence that still stands: an independent issuer
\* cleared that very payment since the newest list and profile were set, the
\* observation and its list are no older than the profile allows, and the
\* issuer is by now neither the oracle nor the authority, although head, profile,
\* oracle and clock may each have moved between review and payout.
PaidOnStandingEvidence ==
    [][\A m \in Messages :
        releases[m].state # "EXECUTED" /\ releases'[m].state = "EXECUTED" =>
          LET receipt == clearance[m]
          IN  /\ receipt # NotCleared
              /\ receipt.payment = m /\ receipt.outcome = "NOT_LISTED"
              /\ receipt.version = policyVersion
              /\ now <= receipt.checkedAt + screeningProfile.maxObservationAgeSeconds
              /\ now <= receipt.head.listAsOf + screeningProfile.maxSnapshotAgeSeconds
              /\ receipt.signer \notin {oracle, Authority}]_shvars
=============================================================================
