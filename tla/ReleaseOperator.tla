--------------------------- MODULE ReleaseOperator ---------------------------
(***************************************************************************)
(* The operator's tick (scripts/tripwire/operator.ts): what the watcher    *)
(* returns is verified against its source proof (cctp.ts, saveSourceProof  *)
(* in store.ts), judged (settlement.ts) and turned into an attestation     *)
(* (attest.ts), a review, a payout or the completion of a return.          *)
(*                                                                         *)
(* Every await is a step boundary: the destination chain moves, other      *)
(* parties act on it, calls fail and the process dies between any two      *)
(* steps.  All three lose the job and nothing else: the queue, the claims, *)
(* the outcomes and the journaled transactions are durable.                *)
(*                                                                         *)
(* Watcher checks how requests enter and leave the queue, DurableSender    *)
(* how a journaled transaction takes effect at most once; here a request   *)
(* is queued in one step and the journal is the sequence of transactions   *)
(* that are not final.                                                     *)
(***************************************************************************)
EXTENDS Naturals, SequencesExt, FiniteSetsExt

CONSTANTS
    Messages,     \* bridge message ids
    Burns,        \* authenticated source burns with their mint
    None,         \* no burn, no outcome, no message
    MaxReviews,   \* bound on reviews in effect, of all releases together
    MaxUnfinal    \* bound on unfinalized transactions

ASSUME OperatorAssumption ==
    /\ None \notin Burns \union Messages
    /\ {MaxReviews, MaxUnfinal} \subseteq Nat

VARIABLES
    backing,   \* message -> the burn whose proof its release would pass
    final,     \* message -> its release at the finalized head
    chain,     \* transactions mined after the finalized head, oldest first
    queue,     \* pending releases, oldest first
    claims,    \* message -> the burn it claimed (source_proofs)
    outcomes,  \* message -> acknowledged terminal state
    lane,      \* journaled transactions that are not final, in nonce order
    reverted,  \* payouts whose transaction reverted, finally
    job        \* the running tick, in memory

chainVars == <<backing, final, chain>>
diskVars == <<queue, claims, outcomes, lane, reverted>>
ovars == <<chainVars, diskVars, job>>

-----------------------------------------------------------------------------
Terminal == {"EXECUTED", "RETURNED"}
ReleaseStates == {"PENDING", "VERIFIED", "HELD", "REJECTED"} \union Terminal
Decisions == {"ALLOW", "HOLD", "REJECT"}

\* `returning' is a customer's requested return (returnAt > 0).
Release == [state: ReleaseStates, nonce: Nat, returning: BOOLEAN]

\* What the watcher says of a release: proven, or proven wrong or unknown.
Evidence == {"verified", "unproven"}

\* A transaction is its operation: review/m/nonce, execute/m/nonce, return/m.
Tx == {tx \in [kind: {"review", "execute", "return", "request"}, m: Messages,
                nonce: Nat, decision: Decisions \union {None}] :
         tx.kind = "review" => tx.decision \in Decisions}

\* A block and the releases after it, which its header commits to.
Mined == [tx: Tx, ok: BOOLEAN, own: BOOLEAN, after: [Messages -> Release]]

Phases == {"idle", "observe", "read", "protect", "review", "send", "reviewed",
           "execute", "return", "acknowledge"}

\* The tick: the releases still to observe; the observations still to handle,
\* the first of them now; whether recover() found the lane stuck; and, of the
\* release at hand, whether it was VERIFIED, the decision and the nonce.
Job == [phase: Phases, todo: Seq(Messages), observed: Seq(Messages \X Evidence),
        blocked: BOOLEAN, allowed: BOOLEAN, decision: Decisions, nonce: Nat]

NoJob == [phase |-> "idle", todo |-> <<>>, observed |-> <<>>, blocked |-> FALSE,
          allowed |-> FALSE, decision |-> "HOLD", nonce |-> 0]

Init ==
    /\ backing \in [Messages -> Burns \union {None}]
    /\ final = [m \in Messages |-> [state |-> "PENDING", nonce |-> 0, returning |-> FALSE]]
    /\ chain = <<>>
    /\ queue = <<>>
    /\ claims = [m \in Messages |-> None]
    /\ outcomes = [m \in Messages |-> None]
    /\ lane = <<>>
    /\ reverted = {}
    /\ job = NoJob

-----------------------------------------------------------------------------
(* The destination chain.                                                  *)

StateAfter(decision) ==
    CASE decision = "ALLOW"  -> "VERIFIED"
      [] decision = "HOLD"   -> "HELD"
      [] decision = "REJECT" -> "REJECTED"

\* What the vault demands of a transaction at least; a deadline, the
\* guardian or the customer's policy may still revert it.
Possible(release, tx) ==
    /\ release.state \notin Terminal
    /\ CASE tx.kind = "review"  -> tx.nonce > release.nonce /\ ~release.returning
         [] tx.kind = "execute" -> release.state = "VERIFIED" /\ ~release.returning
         [] tx.kind = "request" -> ~release.returning
         [] tx.kind = "return"  -> release.returning

Effect(release, tx) ==
    CASE tx.kind = "review"  -> [release EXCEPT !.state = StateAfter(tx.decision), !.nonce = tx.nonce]
      [] tx.kind = "execute" -> [release EXCEPT !.state = "EXECUTED"]
      [] tx.kind = "request" -> [release EXCEPT !.returning = TRUE]
      [] tx.kind = "return"  -> [release EXCEPT !.state = "RETURNED"]

Apply(releases, tx, ok) ==
    IF ok THEN [releases EXCEPT ![tx.m] = Effect(@, tx)] ELSE releases

\* The releases as read at the latest head.
latest == IF chain = <<>> THEN final ELSE Last(chain).after

OwnMined == {mined.tx : mined \in {x \in Range(chain) : x.own}}

\* The lane's transactions that no canonical block holds.
Unmined == Range(lane) \ OwnMined

Include(tx, ok, own) ==
    /\ Len(chain) < MaxUnfinal
    /\ ok => Possible(latest[tx.m], tx)
    /\ chain' = Append(chain, [tx |-> tx, ok |-> ok, own |-> own, after |-> Apply(latest, tx, ok)])
    /\ UNCHANGED <<backing, final, diskVars, job>>

\* A journaled transaction is mined, in the order of the lane's nonces.
MineOwn(ok) ==
    \E i \in DOMAIN lane :
      /\ lane[i] \in Unmined
      /\ \A j \in 1 .. i - 1 : lane[j] \notin Unmined
      /\ Include(lane[i], ok, TRUE)

\* Anyone executes an allowed release or completes a return; the customer
\* requests one.
MineOther(m, kind) ==
    Include([kind |-> kind, m |-> m, nonce |-> latest[m].nonce, decision |-> None], TRUE, FALSE)

Finalize ==
    /\ chain # <<>>
    /\ LET mined == Head(chain)
       IN  /\ final' = mined.after
           /\ lane' = IF mined.own THEN Tail(lane) ELSE lane
           /\ reverted' = IF mined.tx.kind = "execute" /\ ~mined.ok
                         THEN reverted \union {mined.tx} ELSE reverted
    /\ chain' = Tail(chain)
    /\ UNCHANGED <<backing, queue, claims, outcomes, job>>

\* A reorg drops the blocks above the finalized head or a suffix of them; the
\* lane's transactions among them are mined again later, or not.
Reorg(kept) ==
    /\ kept < Len(chain)
    /\ chain' = SubSeq(chain, 1, kept)
    /\ UNCHANGED <<backing, final, diskVars, job>>

-----------------------------------------------------------------------------
(* What the watcher returns.                                               *)

\* The watcher polls at the start of a tick.
RequestArrives(m) ==
    /\ job.phase = "idle"
    /\ m \notin Range(queue)
    /\ outcomes[m] = None
    /\ queue' = Append(queue, m)
    /\ UNCHANGED <<chainVars, claims, outcomes, lane, reverted, job>>

StartTick ==
    /\ job.phase = "idle"
    /\ queue # <<>>
    /\ job' = [NoJob EXCEPT !.phase = "observe", !.todo = queue]
    /\ UNCHANGED <<chainVars, diskVars>>

\* Seeded fault: a claim is not compared with the others'.
ClaimableAgain(m) == backing[m] # None

\* saveSourceProof: a burn backs the release that claimed it first.
Claimable(m) ==
    /\ backing[m] # None
    /\ \A other \in Messages \ {m} : claims[other] # backing[m]

\* The evidence for the next release.  Locators are hints that nobody vouches
\* for: a wrong one makes a sound release look invalid.  After the last one,
\* recover() settles the lane or finds it stuck.
Observe(evidence) ==
    /\ job.phase = "observe"
    /\ LET m == Head(job.todo)
       IN  /\ evidence = "verified" => Claimable(m)
           /\ claims' = IF evidence = "verified" THEN [claims EXCEPT ![m] = backing[m]] ELSE claims
           /\ job' = [job EXCEPT
                !.todo = Tail(@),
                !.observed = Append(@, <<m, evidence>>),
                !.phase = IF Len(job.todo) > 1 THEN "observe" ELSE "read",
                !.blocked = Len(job.todo) = 1 /\ Unmined # {}]
    /\ UNCHANGED <<chainVars, queue, outcomes, lane, reverted>>

-----------------------------------------------------------------------------
(* handle, for one release after the other.                                *)

Current == Head(job.observed)[1]
Seen == Head(job.observed)[2]

\* The job for the next observation.
Advanced ==
    IF Len(job.observed) > 1
    THEN [NoJob EXCEPT !.phase = "read", !.observed = Tail(job.observed),
                       !.blocked = job.blocked]
    ELSE NoJob

Continue(next) ==
    /\ job' = next
    /\ UNCHANGED <<chainVars, diskVars>>

\* settlementVerdict, where risk holds what is proven, and the customer's
\* policy, which only ever adds a hold.
Verdicts == IF Seen = "verified" THEN {"ALLOW", "HOLD"} ELSE {"HOLD", "REJECT"}

\* The first read: a terminal release that is not final yet, or a return that
\* is unproven, immature or blocked, waits for the next tick.
ReadAndWait ==
    /\ job.phase = "read"
    /\ \/ latest[Current].state \in Terminal /\ final[Current].state \notin Terminal
       \/ latest[Current].state \notin Terminal /\ latest[Current].returning
    /\ Continue(Advanced)

ReadReturning ==
    /\ job.phase = "read"
    /\ latest[Current].state \notin Terminal
    /\ latest[Current].returning
    /\ Seen = "verified"
    /\ ~job.blocked
    /\ Continue([job EXCEPT !.phase = "return"])

\* A rejection is reopened only by an ALLOW after its hold lapsed.
ReadAndDecide(decision, lapsed) ==
    /\ job.phase = "read"
    /\ latest[Current].state \notin Terminal
    /\ ~latest[Current].returning
    /\ decision \in Verdicts
    /\ Continue(IF latest[Current].state = "REJECTED" /\ ~(decision = "ALLOW" /\ lapsed)
                THEN Advanced
                ELSE [job EXCEPT !.phase = "protect", !.decision = decision,
                                 !.allowed = (latest[Current].state = "VERIFIED")])

\* Route protection has its own lane and its own journal; in advisory mode it
\* is skipped, as if it succeeded.  A review follows unless it failed, there
\* is nothing to sign, a per-release delay runs or the release lane is stuck.
Protect(submitted, delayed) ==
    /\ job.phase = "protect"
    /\ Continue(IF \/ ~submitted
                   \/ job.decision = "HOLD" /\ ~job.allowed
                   \/ job.decision = "ALLOW" /\ job.allowed /\ delayed
                   \/ job.blocked
                THEN Advanced
                ELSE [job EXCEPT !.phase = "review", !.allowed = FALSE])

Payout(m, nonce) == [kind |-> "execute", m |-> m, nonce |-> nonce, decision |-> None]

\* send of an operation: a journaled one is awaited, a new one is journaled
\* once every earlier transaction is mined.
Send(tx, next) ==
    /\ IF tx \in Range(lane) \union reverted THEN UNCHANGED lane
       ELSE Unmined = {} /\ lane' = Append(lane, tx)
    /\ job' = next
    /\ UNCHANGED <<chainVars, queue, claims, outcomes, reverted>>

\* Seeded fault: an attempt that reverted is done before its block is final.
OutstandingUnmined(kind, m, nonce) ==
    \E tx \in Unmined : tx.kind = kind /\ tx.m = m /\ tx.nonce = nonce

\* nextAttemptId: no second attempt while one is not final.
Outstanding(kind, m, nonce) ==
    \E tx \in Range(lane) : tx.kind = kind /\ tx.m = m /\ tx.nonce = nonce

Reviews == MapThenSumSet(LAMBDA m : latest[m].nonce, Messages)

\* The nonce is read again; the decision is the one taken before, unless the
\* screening gate, asked for an ALLOW, holds the release.  Without evidence an
\* established ALLOW is revoked and anything else stays as it is.
ReadNonce(screening) ==
    /\ job.phase = "review"
    /\ Reviews < MaxReviews
    /\ screening # "passed" => job.decision = "ALLOW"
    /\ LET nonce == latest[Current].nonce + 1
           waits  == \/ screening = "retry"
                     \/ screening = "held" /\ latest[Current].state # "VERIFIED"
       IN  Continue(IF waits \/ Outstanding("review", Current, nonce) THEN Advanced
                    ELSE [job EXCEPT !.phase = "send", !.nonce = nonce,
                                     !.decision = IF screening = "held" THEN "HOLD" ELSE @])

\* The gas estimate fails for a review that the vault would refuse.
Review ==
    /\ job.phase = "send"
    /\ LET tx == [kind |-> "review", m |-> Current, nonce |-> job.nonce, decision |-> job.decision]
       IN  /\ Possible(latest[Current], tx)
           /\ Send(tx, [job EXCEPT !.phase = "reviewed"])

\* Only an ALLOW whose review took effect goes on to a payout.
Reviewed ==
    /\ job.phase = "reviewed"
    /\ Unmined = {}
    /\ Continue(IF job.decision = "ALLOW" /\ latest[Current].nonce = job.nonce
                THEN [job EXCEPT !.phase = "execute", !.decision = "HOLD"]
                ELSE Advanced)

\* The release is read once more; its own nonce names the payout, so that a
\* payout that reverted is tried again only after a new review.
Execute(executable) ==
    /\ job.phase = "execute"
    /\ LET release == latest[Current]
       IN  IF release.state = "VERIFIED" /\ ~release.returning /\ executable
           THEN Send(Payout(Current, release.nonce),
                     [job EXCEPT !.phase = "acknowledge", !.nonce = release.nonce])
           ELSE Continue(Advanced)

ReturnCredit ==
    /\ job.phase = "return"
    /\ IF Outstanding("return", Current, 0) THEN Continue(Advanced)
       ELSE Send([kind |-> "return", m |-> Current, nonce |-> 0, decision |-> None],
                 [job EXCEPT !.phase = "acknowledge"])

\* The operator's own transaction is mined; a payout must be confirmed as well.
Settled ==
    /\ Unmined = {}
    /\ job.nonce # 0 => Payout(Current, job.nonce) \notin Range(lane) \union reverted

\* A release is queued once.
Dequeued(m) == \E i \in DOMAIN queue : queue[i] = m /\ queue' = RemoveAt(queue, i)

\* Seeded fault: the finalized head is not consulted.
AcknowledgeAtLatest ==
    /\ job.phase = "read"
    /\ latest[Current].state \in Terminal
    /\ outcomes' = [outcomes EXCEPT ![Current] = latest[Current].state]
    /\ Dequeued(Current)
    /\ job' = Advanced
    /\ UNCHANGED <<chainVars, claims, lane, reverted>>

\* acknowledge, at once or after the operator's own transaction.
Acknowledge ==
    /\ job.phase \in {"read", "acknowledge"}
    /\ job.phase = "acknowledge" => Settled
    /\ latest[Current].state \in Terminal
    /\ final[Current].state = latest[Current].state
    /\ outcomes' = [outcomes EXCEPT ![Current] = final[Current].state]
    /\ Dequeued(Current)
    /\ job' = Advanced
    /\ UNCHANGED <<chainVars, claims, lane, reverted>>

\* The transaction is mined, or known to have reverted, but the release is not
\* terminal and final.
NotYetFinal ==
    /\ job.phase = "acknowledge"
    /\ Unmined = {}
    /\ ~(Settled /\ latest[Current].state \in Terminal /\ final[Current].state = latest[Current].state)
    /\ Continue(Advanced)

\* A transaction that cannot be prepared (fees over the ceiling, no funds, a
\* failing estimate), or that is not mined in time, ends the whole tick.
SendThrows ==
    /\ job.phase \in {"review", "send", "reviewed", "execute", "return", "acknowledge"}
    /\ Continue(NoJob)

\* Any other call throws, or the process dies.
Interrupted == job.phase # "idle" /\ Continue(NoJob)

-----------------------------------------------------------------------------
Chain ==
    \/ \E ok \in BOOLEAN : MineOwn(ok)
    \/ \E m \in Messages, kind \in {"execute", "return", "request"} : MineOther(m, kind)
    \/ Finalize
    \/ \E kept \in 0 .. MaxUnfinal : Reorg(kept)

Handle ==
    \/ ReadAndWait \/ ReadReturning
    \/ \E decision \in Decisions, lapsed \in BOOLEAN : ReadAndDecide(decision, lapsed)
    \/ \E submitted, delayed \in BOOLEAN : Protect(submitted, delayed)
    \/ \E screening \in {"passed", "held", "retry"} : ReadNonce(screening)
    \/ Review
    \/ Reviewed
    \/ \E executable \in BOOLEAN : Execute(executable)
    \/ ReturnCredit \/ Acknowledge \/ NotYetFinal

Tick ==
    \/ \E m \in Messages : RequestArrives(m)
    \/ StartTick
    \/ \E evidence \in Evidence : Observe(evidence)
    \/ Handle
    \/ SendThrows

Next == Chain \/ Tick \/ Interrupted

Spec == Init /\ [][Next]_ovars

\* The process stays up, every call but the sender's is answered, and the tick
\* is scheduled again and again.
RunningSpec ==
    /\ Init /\ [][Chain \/ Tick]_ovars
    /\ WF_ovars(StartTick)
    /\ WF_ovars(\E evidence \in Evidence : Observe(evidence))
    /\ WF_ovars(Handle \/ SendThrows)

-----------------------------------------------------------------------------
(* Properties.                                                             *)

OperatorTypeOK ==
    /\ final \in [Messages -> Release]
    /\ latest \in [Messages -> Release]
    /\ chain \in Seq(Mined)
    /\ queue \in Seq(Messages)
    /\ claims \in [Messages -> Burns \union {None}]
    /\ outcomes \in [Messages -> Terminal \union {None}]
    /\ lane \in Seq(Tx)
    /\ job \in Job

Paid == {m \in Messages : latest[m].state = "EXECUTED"}

\* No two payouts, and no payout that its own burn does not back: one burn
\* pays one release, in whatever order proofs, reviews and reorgs come.
BackedOnce ==
    /\ \A m \in Paid : backing[m] # None
    /\ \A m, other \in Paid : m # other => backing[m] # backing[other]

\* An acknowledged release is terminal in a finalized block and stays so.
OutcomesFinal ==
    /\ OperatorTypeOK
    /\ \A m \in Messages : outcomes[m] \in {None, final[m].state}

\* Two decisions on one release are never signed for the same nonce while
\* either can still be mined.
OneDecisionPerNonce ==
    \A i, j \in DOMAIN lane :
      /\ lane[i].kind = "review" /\ lane[j].kind = "review"
      /\ lane[i].m = lane[j].m /\ lane[i].nonce = lane[j].nonce
      => i = j

\* A release that is observed again and again gets its turn again and again,
\* and with it its route protection, whatever becomes of the transactions of
\* the release lane (docs/07-decisions-adr.md, ADR-026: "If the release lane
\* cannot recover, reviews and payouts wait with the reason while attestations
\* run").
EveryReleaseHandled ==
    \A m \in Messages :
      []<>(\E i \in DOMAIN job.observed : job.observed[i][1] = m)
        => []<>(job.phase = "read" /\ Current = m)
=============================================================================
