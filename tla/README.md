# Tripwire: a TLA+ verification project

Chainstory contains *Tripwire*, a circuit breaker for bridge payouts: contracts that
bound and hold what leaves a route, and an operator process that proves the source of
each release, reviews it and pays it. This directory holds TLA+ models of that system,
TLC configurations that check them on small instances, and TLAPS proofs about them for
every value of their constants. Paths are relative to the repository root.

Rerun a model check with `tlc -config <Run>.cfg <Module>` (the table below names the
module of each configuration) and a proof with `tlapm <Module>.tla`.

## 1. Inventory

The repository also contains a read-only transaction explorer (`src/`, `server/`, `api/`),
training scripts (`ml/`) and a log program (`programs/story-attest`). None of them keeps
protocol state. The program's own logic with state, concurrency and money is Tripwire.

| Component | State it keeps | Operations | What makes it correct |
|---|---|---|---|
| **TripwireGuardian** `contracts/evm/src/TripwireGuardian.sol` | per route: cap, window, tier and pause with expiries, delay budget, span start; 16-bucket outflow ring; oracle and pending rotation; used nonces | outflow hook, attestation, resume, re-arm, configure, protect, rotate/disable oracle, views | the window never forgets spent budget; the oracle alone can only tighten, and only for a bounded time; the owner's kill switch is final |
| **ProtectedVault** `TripwireDemo.sol` | releases with review state, delay clocks, rejection times, tokens | request, review, execute | no payout without a live ALLOW of the current oracle; delays are served; a REJECT rests |
| **CctpPaymentEscrow** `CctpPaymentEscrow.sol`, `CctpEscrow.sol` | credits, customer policy with a one-slot queue, recipients, approvals, totals | fund by CCTP, review, execute, approve, tighten, queue and apply loosening, return | solvency; return and payout exclude each other; policy changes are respected at payout; a return always arrives |
| **CctpScreenedPaymentEscrow** `CctpScreenedPaymentEscrow.sol` | issuer's list head, screening profile, evidence per credit, execution mode | register head, screened review, execute, revoke and apply profile, consent to advisory mode | a payment leaves only on evidence that still stands |
| **TripwireQuorum** `TripwireQuorum.sol` | attestor set, threshold, epoch | verify, update signers | updates do not replay |
| **DurableSender** `scripts/tripwire/sender.ts` | SQLite journal of signed transactions; in memory, one running task | send, recover, fee bump, reopen | bytes are journaled before they are sent; no double effect; terminal means final; recovery completes |
| **OperatorStore** `store.ts` | journal, source-proof claims, outcomes, watcher and discovery snapshots, quarantine | save, load, claim, reopen | a burn is claimed once; outcomes are final |
| **Watcher** `watch.ts` | burns, pending and completed releases, two feed cursors, conflicts, quarantine | tick, acknowledge, assertCanonical | no request is lost or handled after its outcome; a conflict is not forgotten; a finality conflict stops everything, for good |
| **ReleaseOperator**, **Attestor** `operator.ts`, `attest.ts` | the running tick (memory) | observe, protect, review, execute, return, acknowledge | one burn pays one release; outcomes are final; every release gets its turn |
| **RpcQuorum** `rpcQuorum.ts` | none, but two rounds per read | agreement, finalized head | no minority decides; lag is not a conflict |
| **Source proofs** `cctp.ts` | none | verify, assertCanonical | only an authenticated burn backs a release |
| **Screening gate**, **discovery**, **observer supervision** | evidence journal; two cursors; incident files | fetch and relay; advance; restart | evidence is journaled first; cursors never skip |

How they interact. Vault and escrows call the guardian's hook inside the payout
transaction, so a payout and its accounting are one atomic step; they read its views
(`currentTier`, `outflowDelay`, `oracle`) at *review* time and again at payout, and
everything between the two is a race. The operator reads chain state through RPC, decides,
and hands transactions to DurableSender lanes (one for releases, one for attestations),
each with its own journal. The watcher's quarantine is consulted before every signature
and every publication.

Where it is hard: state read at review and used at payout; two clocks for one hold; ring
slots reused around a window edge; one queue slot for three kinds of policy change; the
chain moving between any two awaits of the sender (reorgs, lost answers, lagging nodes);
crashes between sign, journal and broadcast; recovery that must get past every row; two
cursors and a queue that must roll back together; a decision taken on one read and signed
after another; list, profile, policy and oracle that change around one payment. The
full list, line by line, is `hazards` in `PROJECT.json`.

## 2. Modules

| Module | Models | Relation |
|---|---|---|
| `TripwireGuardian` | the guardian contract; one action per external function, `Tick` for block time | base of all contracts |
| `RollingLimit` | abstract: an exact sliding-window limiter with full memory | implemented by the guardian |
| `OutflowHistory` | guardian plus every outflow it let pass | extends the guardian; refinement to `RollingLimit` |
| `HoldHistory` | guardian plus the instants the oracle really held a route | extends the guardian |
| `ProtectedVault` | releases, composed with a guardian it shares with other callers | extends the guardian |
| `VaultHistory` | vault plus oracle tenures and their notice, newest review, first delayed ALLOW | extends the vault |
| `CctpPaymentEscrow` | credits, customer policy and returns; its hooks wrap the vault's review and payout | extends the vault |
| `EscrowHistory` | escrow plus clearances since the last change, announcements, promised delays | extends the escrow |
| `CctpScreenedPaymentEscrow` | lists, receipts, profiles and execution modes on top of the escrow's review, payout and policy queue | extends the escrow |
| `ScreeningHistory` | screened escrow plus the receipt that last cleared each payment | extends the screened escrow |
| `DurableSender` | outbox, journal, chain and mempool | one lane of the operator |
| `SenderHistory` | sender plus the canonical blocks that its journal has recorded as inclusions | extends the sender |
| `ReleaseQueue` | abstract: a durable queue that a request enters once and leaves with its outcome | implemented by the watcher |
| `Watcher` | two feeds, snapshot, acknowledgement, quarantine, restart | refinement to `ReleaseQueue` |
| `ReleaseOperator` | the tick over watcher, claims, vault and lane, with other parties and a reorganising chain | composes what the others check in detail |
| `RpcQuorum` | a read through several providers | what `Watcher` and `DurableSender` take as the finalized head |
| `MCGuardian`, `MCVault`, `MCEscrow`, `MCEscrowHistory`, `MCScreening`, `MCSender`, `MCSenderHistory`, `MCWatcher`, `MCOperator`, `MCRpcQuorum` | constants and symmetry for TLC | |
| `ProtectedVaultProofs` | theorems about the guardian and the vault that shares it | |
| `FiniteSums` | lemmas about sums over finite sets, for the two modules below | |
| `HistoryProofs` | theorems about `OutflowHistory`, `HoldHistory` and `VaultHistory` | uses the two above |
| `EscrowProofs` | theorems about the escrow, `EscrowHistory` and `ScreeningHistory` | uses the vault's |
| `DurableSenderProofs`, `WatcherProofs`, `ReleaseOperatorProofs`, `RpcQuorumProofs` | theorems about the operator's parts | one per part; the sender's are about `SenderHistory` too |

**Contracts.** A call that reverts is not a step. `require`s and reverts are guards;
names are the source's. The EVM is sequential, so every interleaving of callers is a
behaviour of `Next`. Signatures are "who signed which fields": the signer is a parameter of
the action and the contract's comparison with `oracle` its guard. `validUntil`, amounts,
scores and nonces are drawn from small sets. Permissionless functions have no caller.
`Funds` are tokens that third parties sent to a vault, which it cannot refuse.
A screening digest is what it hashes: a receipt's payment context is the message and the
policy version it was signed for. Heads and receipts, once signed, may be relayed by anyone,
at any time and in any order.
History variables live in modules of their own, only observe, and let a property compare
what the contract remembers with what happened.

**Sender.** `journal` is the `transactions` table, `rows` its rowid order, `quarantined` the
watcher's persisted flag; these survive. `task` is everything a running `send` or `recover`
keeps in memory: which step it is at, what is left to settle, what it wants to sign, what
receipt it found. `Interrupt` loses exactly that and stands for a crash, a timeout or a
thrown error. Chain and watcher may move between any two actions. An action is an await, or
several of which one decides: `findReceipt`, the anchor check of an inclusion and the recheck
of a terminal row take effect at the block read that decides them. The three reads of
`receiptFinality` (the receipt's block, the finalized head, the block again) are three
actions, `readBlock`, `readHead` and `recheckBlock`. `assertSafe` is one action with
the request that it guards: what is already under way when the watcher stops is not recalled
by the code either. It throws on a quarantine, and on `diverged`, an anchor that no longer
matches, which it may be the first to notice; `FinalityConflict` then records the quarantine,
also while a task is between two of its steps. The chain holds the blocks with
this sender's transactions; mempools may lose a broadcast; receipts may be missing though
canonical; unfinalized blocks may be reorged `MaxReorgs` times, and an abandoned fork is not
built on again. Nonce and block height
coincide because only this sender's blocks are kept. Reading the nonce and journaling the
signed bytes is one step: nothing of the sender's can be mined between them that was not
pending already, and a reorg between them is the same as one just after.
`PendingNonce` is what nodes answer for the next nonce; `passOver` is a signed row in the
loop with which a new `send` rechecks inclusions: it is not settled there.
Signature and schema validation of journaled rows is left out: rows are only written by
this code. The local fixture mode (no finality port) is left out.

**Watcher.** `disk` is the row `saveWatcher` writes, `outcomes` and `sourceQuarantine` its
two companions; these survive. `memory` are the fields of the class with its feeds'
cursors, `before` the snapshot a tick began with. A feed's checkpoint holds a block
hash, and hashes are linked, so a cursor is modelled as the prefix of the chain it has read:
a reorg behind it shows as a prefix that is no longer one. Ingress, egress, persisting,
observing and the two writes of an acknowledgement are steps of their own, so failures,
crashes and chain movement come between any two. The releases' scores are left out.

**Operator.** `job` is the running tick. Each `await` of `handle` ends an action; each early
return is the disjunct that goes on to the next observation (`Advanced`). The destination
chain is the finalized releases plus the unfinalized blocks after them, each with its
transaction and the releases it leaves, as a header commits to its state; every read
sees the latest head (`latest`), acknowledgement compares it with the finalized one. What the other
modules check in detail is one step here: the watcher's queue, the journal as the lane of
transactions that are not final, the vault as the least it demands of a transaction (a
deadline, the guardian or the customer's policy may still revert it). What route protection,
the screening gate, a delay or a lapsed rejection answers is a parameter of the action that
asks; in advisory mode protection is skipped, which is the branch where it succeeds.

**RPC.** The answers to one read come back one by one; an honest provider may lag, fail or
be on another fork above its own finalized head, a faulty one answers anything, and
differently each time. Replicas of an honest provider may lag in either round; assumed is that at a
height which the provider has called finalized none of them is on a fork. Only what the quorum decides on is kept of a block: whether it is
the canonical one.

Definitions named *Seeded fault* are never used by a specification; they are what a
plausible bug would look like, kept to test that each property can fail.

## 3. Runs

Durations keep the order of the code's constants, not their size: the code
only compares and adds them.

| Run (module, cfg) | Asks | Bounds and why they suffice |
|---|---|---|
| `guardian_budget` (`OutflowHistory`, `GuardianBudget`) | does the ring count every spend of the window (`UsageNeverOmits`), forget in time (`UsageNotStale`), and implement the exact limiter (`ImplementsExactLimit`)? | window 3 in 2 segments, so buckets are wider than a second and slots are reused within the 6 seconds before the horizon; two caps, two amounts. There are no attestations: that a tier lowers the capacity or a DELAY limits the budget is `OnlyOwnerLoosens` below |
| `guardian_hold` (`MCGuardian`, `GuardianHold`) | is the oracle's hold bounded per cycle (`HoldBounded`) and within the announced limit (`HoldWithinSpan`); are pause and tier one hold (`PauseIsFreeze`); does anything but the owner's resume or unprotected raise loosen a route (`OnlyOwnerLoosens`)? type invariant | all tiers, outflows, cap changes, re-arm, resume, kill switch; pause 2, span 3, cooldown 1 and three attestations: a span can be refreshed, clamped and, after its cooldown, started again before the horizon, 4 seconds after genesis |
| `vault_reviews` (`MCVault`, `VaultReviews`) | does a REJECT rest (`RejectionRests`); is a payout made under the reviewing oracle's tenure (`PaidUnderOneTenure`), on the newest review (`NewestReviewDecides`), and after a delay is served from its own ALLOW (`DelayedPayoutWaited`); did an installed oracle have notice (`OracleHadNotice`)? | one release, three review nonces, one key that may be disabled and re-installed, a DELAY attestation, two caps around the delay share; rotation 2, review life 1, cooldown 3, over 4 seconds |
| `escrow_customer` (`MCEscrowHistory`, `EscrowCustomer`) | `Solvent`, `ReturnExcludesPayout`, `CreditsDistinct`; is a payout cleared under the current policy (`PaidUnderCurrentPolicy`), after every delay it was told (`CustomerDelayServed`) and never after a REJECT (`RejectIsTerminal`); does the policy loosen only by the one change that stands announced and is due (`LooseningAnnounced`)? | two CCTP messages that claim one operation, two tokens nobody credited, two reviews, three policy versions; a slower policy, a recipient and unpausing in the queue; over 2 seconds with delays of 1, and a vault whose rejection cooldown is 0, its weakest (0.7 million states) |
| `escrow_screened` (`MCScreening`, `EscrowScreened`) | does a payment leave only on evidence that still stands (`PaidOnStandingEvidence`); is every matured return carried out, under fairness, whatever is paused, revoked or disabled (`ReturnsHappen`)? | one credit; two lists, a receipt for either, each under a policy version of its own, one that lasts too long and one that does not clear; revocation, re-applied profile, advisory consent and unpausing in the queue; kill switch (0.66 million states). The issuer never becomes the oracle here (`Candidates` is empty); the theorem covers that |
| `sender_journal` (`MCSenderHistory`, `SenderJournal`) | is the journal ahead of the network (`JournalAhead`), true about finality (`TerminalIsFinal`), free of nonce clashes (`NonceUnshared`); does nothing happen twice (`OneEffect`), is no fee paid again for work known to be done (`KnownWorkRests`), and does nothing new reach the nodes once finalized history has changed (`QuarantineSilences`)? | two operations with two attempts each, three in all, one bump each, a reorg, a changed anchor, a conflict and a crash between any two steps (2.5 million states). Deadlock is off: a quarantine stops the system on purpose |
| `sender_recovers` (`MCSender`, `SenderRecovers`) | does everything journaled reach a final outcome (`Reconciles`)? | two operations, a bump each, a reorg after which mempools keep what it returned |
| `sender_evicted` (`MCSender`, `SenderEvicted`) | *violation*: `Reconciles` when mempools drop it | see Findings |
| `watcher_queue` (`MCWatcher`, `WatcherQueue`) | does no cursor pass a request that is neither queued nor done (`NothingLost`), is a conflict remembered (`ConflictsRemembered`), are outcomes true (`OutcomesTrue`), does a quarantine hold across restarts (`QuarantineHolds`), and is all this one durable queue (`ImplementsReleaseQueue`)? type invariant | two messages with two payloads, so that notifications repeat, differ and interleave; two blocks per chain and a reorg behind the safe head, so that a cursor may be ahead of, at or behind the fork. Deadlock is off: the chains are bounded |
| `operator_releases` (`MCOperator`, `OperatorReleases`) | does a burn pay at most one release (`BackedOnce`), is an outcome that is recorded final (`OutcomesFinal`), are two decisions never signed for one nonce while either may be mined (`OneDecisionPerNonce`)? | two releases that may claim the one burn, two reviews in all, one unfinalized transaction that may be reorged any number of times, other parties' payouts and returns, reverts and crashes (3.2 million states) |
| `operator_protection` (`MCOperator`, `OperatorProtection`) | *violation*: `EveryReleaseHandled` | see Findings |
| `rpc_quorum` (`MCRpcQuorum`, `RpcQuorum`) | is a finalized head real (`FinalizedIsReal`), and does only a lie halt the operator (`ConflictIsNotLag`)? | three honest providers and a faulty one, quorum 2, two heights: a lie needs one ally, and honest heads can differ by more than a round |

`NonceUnshared` in `sender_journal` also assumes mempools that keep what a reorg returns
(`PoolKeeps = TRUE`); the finding below is what happens otherwise.

**Fairness.** `ReturnFairness` (`escrow_screened`): time passes, and a matured return is
carried out, which needs nobody's permission (`executeReturn` has no caller check) and
which the operator also does on every tick. `SenderFairness` (`sender_recovers`): the operator runs recovery
again and again (the `--watch` loop; strong fairness since a send may hold the lock in
between), a running task goes on or fails, a pending transaction with the next nonce is
mined, blocks are finalized, finalized history stands (`SteadyNext`), and from some point on calls
are answered (`<>[][NodesAnswer]`). Without the last two, no outbox could promise anything. A task that fails
by the code's own `throw` may fail at any time (`Throws`), so recovery has to make progress
in spite of those. `RunningSpec` (`operator_protection`): the process stays up, every call but the
sender's is answered, and the tick is scheduled again and again; it grants the operator
more than it has, so what fails under it fails without it.

Every property of a passing run was seen to fail on a *Seeded fault*, a plausible bug put in
place of the definition it is about.

## 4. Proofs

For all values of the constants satisfying the named assumptions (durations are naturals;
genesis is positive and no earlier than one span plus cooldown; caps, windows, amounts, scores are naturals;
messages, a finite set since a message id is 32 bytes; policies, receipts, providers any set of
the right type):

| Theorem | States |
|---|---|
| `TypeCorrect` | `Spec => []TypeOK` (guardian) |
| `PauseCoupling` | `Spec => []PauseIsFreeze` |
| `HoldEnds` | `Spec => []HoldWithinSpan` |
| `OnlyTheOwnerLoosens` | `Spec => OnlyOwnerLoosens` |
| `VaultTypeCorrect` | `VSpec => []VaultTypeOK` |
| `RejectedReleasesRest` | `VSpec => []RejectionRests` |
| `VaultImplementsGuardian` | every vault behaviour is a guardian behaviour on the guardian's variables, so the first four hold in the vault too |
| `UsageIsComplete` | `PSpec => []UsageNeverOmits` |
| `UsageIsFresh` | `PSpec => []UsageNotStale` |
| `RingImplementsExactLimit` | `PSpec => ImplementsExactLimit`: the ring implements `RollingLimit` |
| `HoldsAreBounded` | `HSpec => []HoldBounded` |
| `OneTenure` | `VHSpec => PaidUnderOneTenure` |
| `OracleInstalledOnNotice` | `VHSpec => OracleHadNotice` |
| `NewestReviewPays` | `VHSpec => NewestReviewDecides` |
| `DelayedPayoutsWait` | `VHSpec => DelayedPayoutWaited` |
| `EscrowImplementsGuardian` | the same of the escrow |
| `CreditsAreDistinct` | `ESpec => []CreditsDistinct` |
| `EscrowIsSolvent` | `ESpec => []Solvent` |
| `ReturnsExcludePayouts` | `ESpec => []ReturnExcludesPayout` |
| `RejectionsAreFinal` | `ESpec => RejectIsTerminal` |
| `PayoutsFollowThePolicy` | `EHSpec => PaidUnderCurrentPolicy` |
| `PayoutsServeEveryDelay` | `EHSpec => CustomerDelayServed` |
| `LooseningsAreAnnounced` | `EHSpec => LooseningAnnounced` |
| `PaymentsRestOnStandingEvidence` | `SHSpec => PaidOnStandingEvidence` |
| `ScreenedReturnsExcludePayouts` | `SHSpec => []ReturnExcludesPayout` |
| `ScreenedEscrowIsSolvent` | `SHSpec => []Solvent` |
| `WatcherInvariant`, `WatcherTypeCorrect` | `Spec => []IInv`, `Spec => []WatcherTypeOK` (watcher) |
| `NoRequestLost` | `Spec => []NothingLost` |
| `NoConflictForgotten` | `Spec => []ConflictsRemembered` |
| `OutcomesAreTrue` | `Spec => []OutcomesTrue` |
| `QuarantineIsKept` | `Spec => QuarantineHolds` |
| `WatcherImplementsQueue` | `Spec => Queue!Spec`: the watcher implements `ReleaseQueue` |
| `JournalHolds` | `Spec => []IInv` (sender) |
| `JournalLeadsNetwork` | `Spec => []JournalAhead` |
| `OutcomesAreFinal` | `Spec => []TerminalIsFinal` |
| `JobsTakeEffectOnce` | `Spec => []OneEffect` |
| `KnownWorkIsLeftAlone` | `SHSpec => KnownWorkRests` (sender with its history) |
| `QuarantineStopsPublication` | `Spec => QuarantineSilences` |
| `NoncesAreUnshared` | `PoolKeeps` implies `Spec => []NonceUnshared` |
| `OperatorHolds` | `Spec => []IInv` (operator) |
| `BurnsPayOnce` | `Spec => []BackedOnce` |
| `OutcomesStay` | `Spec => []OutcomesFinal` |
| `DecisionsDoNotCompete` | `Spec => []OneDecisionPerNonce` |
| `RpcTypeCorrect` | `Spec => []RpcTypeOK` (RPC quorum) |
| `FinalizedHeadIsReal` | `Spec => []FinalizedIsReal` |
| `ConflictsAreLies` | `Spec => []ConflictIsNotLag` |
| `SumOfParts` | the sums over the parts of a finite set add up to the sum over the set |

*Guardian.* Neither `PauseIsFreeze` nor `HoldWithinSpan` is inductive: a refresh may
extend a tier whose span start or clock the invariant says nothing about. The inductive
invariant `IInv` is `TypeOK` and, per route (`RouteInv`), that a running pause is coupled to
FREEZE, that tier and pause end within `protectionSince + MaxOracleProtection`, that a
route never configured is fresh, and that no ring entry lies in the future. Each action has one step; the
attestation and the outflow have lemmas of their own. `OnlyTheOwnerLoosens` then needs, for
each step, that capacity, usage, budget and expiries move in the tightening direction.

*Sums.* What a sum is after a step takes an induction over sets, and the library's induction
theorems, which take an operator, cannot be used by these provers. `FiniteSums` gets it
from first-order facts: a set of numbers that has 0 and the successor of each member has
them all, since were k missing the successor would map its members up to k one to one into
themselves without 0, one pigeonhole too few (`FS_Injection`). From there: subsets of a finite set by size,
that the recursion behind `SumFunction` has a solution, and the laws (one value changes,
a sequence grows, a sum is split into parts).

*Usage.* The books of a route (`BooksKept`) say what each slot stands for: the outflows whose
bucket number, `at \div width`, is that of the slot's last outflow, and that no outflow is later
than the last one of its slot. They stay in order for an arithmetical reason
(`RingGeometry`): `Segments + 1` slots hold a window and one bucket more, so two instants less than a
window apart that share a slot share a bucket, and a bucket is no longer than a window. So a slot that is not
emptied receives more of the same bucket, and one that is emptied held nothing of the
new one. `UsageNeverOmits` and `UsageNotStale` then compare bucket by bucket
(`RecentCovered`, `CountedRecent`), and `UsageNeverOmits` is what makes each outflow a
payment of `RollingLimit`.

`HoldBounded` counts the held instants of the last cycle, a span and its cooldown. Its
invariant (`HoldInv`) says that such an instant lies in the span that is open or more than a cooldown before
its start; moved ahead by a cycle, those of the second kind fall into the part of the
open span that has not come yet. So all of them map one to one into one span, which is what
`FS_Injection` then counts. An owner's `rearmProtection` or `resume` starts the count anew in
`HoldHistory`, since from then on the hold is not the oracle's alone.

*Vault.* `VInv` adds to `VaultTypeOK` and `RejectionRests` that a release not yet requested
has no rejection time. `TenureInv` says that a release whose reviewer is still the oracle has not outlived
a tenure, or that its review has expired by the time the same key can be back: a rotation takes
`ORACLE_ROTATION_DELAY`, longer than `MAX_REVIEW_TTL`. That inequality is an assumption of
the module, as in the code (2 days against minutes). `NoticeInv` ties a pending rotation to
the proposal that stands behind it; the kill switch must drop both. `RecordInv` says
that until it is paid a release carries exactly the newest accepted review, and that its
delay clock is `DELAY_WINDOW` after the first ALLOW that was delayed, which is
also when the history's clock started.

*Escrow.* `EscrowInv` adds to `VInv` what each credit and its release say of each other
(`CreditOf`: a message that never arrived has left no trace, one that did has used up its
operation), that a credit is not both returned and paid, that one operation has one credit, and that
versions noted anywhere are of the past (`VersionsPast`), without which a clearance noted for a
later version would hold when that version comes. `EHInv` adds that the contract's
own bookkeeping agrees with the history: what it takes for reviewed or approved was reviewed
or approved since the last change (`ClearanceTold`), its release delay is no earlier than any
promise made (`DelayTold`), and the slot of the queue is the announcement that stands
(`QueueTold`), so that each loosening is the one that was announced, and not another that took
its place. `Solvent` is proved from what a step changes: what is owed on one message, and
the totals and the tokens by as much; that a credit is returned or paid once is where
`EscrowInv` comes in.

*Screening.* `SHInv` needs one more fact: within one policy version lists only get newer
(`ListsGetNewer`), so evidence that is still bound to the active head is bound to the newest
list seen under that version (`EvidenceTold`). A new profile removes the head, and the same step
changes the version, which makes every earlier receipt unusable.

*Watcher.* `NothingLost` is not inductive: an abort restores `before`, a crash restores
`disk`, so each snapshot must be good by itself (`Good`) and the queues of `memory`, `before`
and `disk` must agree up to the step in progress (`QueueSaved`). With `AckRecorded` (an
acknowledgement past its first write has its outcome on record) every step is a step of
`ReleaseQueue` or a stutter.

*Sender.* A receipt is read in one step and used several steps later, when the block it names
may be gone. What survives is that a hash names one block for good: `ChainInv` says that a hash
tells its height and a fork begun already, `Truthful` that what a receipt says of an
operation is so whenever a canonical block has its hash, and that no block yet to come can
have it. `TaskOk` says this of the receipt in memory and `JournalInv` of those on disk. Before
`recheckBlock` the finalized head was read and the receipt's height is not above it, which stays so
(`TaskAt`); so a block that is still canonical there is final, and that is all that is recorded.
For `KnownWorkRests`, a record whose block is canonical stands for one more step, with its
newest version (`RecordStands`): only an orphaned record is reopened, only outstanding rows
are bumped, and `JournalInv` has a record on disk exactly for rows that are not outstanding.
A canonical block once recorded is therefore recorded still (`KnownInv`), since a reorg never
brings an abandoned one back.
`Retried` (all earlier attempts of a journaled one have reverted, finally) gives
`OneEffect`. The same `IInv` carries `QuarantineSilences`. `NonceUnshared` needs
`KeptInv` besides, that some version of whatever was once included is on the chain or in the
mempool. It is the assumption `PoolKeeps` of that one theorem, and of nothing else: without it
the first finding is a counterexample.

*Operator.* `BackedOnce` speaks of the latest head only, yet the ALLOW that leads there was
decided long before, on evidence of a tick that may have died since. `IInv` follows the claim of
the burn: it stands behind what the tick takes for verified or means to allow (`JobOk`), behind every ALLOW in the
lane, and behind every release that is payable or paid at the finalized head or after any block
(`BackInv`); two releases never hold one claim (`ClaimInv`). `ChainInv` makes each block a
possible step from the one before, so that a terminal release stays terminal through
`Finalize`, and an outcome with it (`OutcomeInv`). `LaneInv` says that blocks
hold the lane's rows in order, without gaps and each once, so that `Finalize`, which drops the first
row, drops the one that was mined. `OneDecisionPerNonce` needs from `JobOk` that the nonce a
tick is about to sign was not in the lane when it was read, and only the tick adds to the lane.

TLC has checked the sender's and the operator's invariants on the instances of
`SenderJournal` and `OperatorReleases`; no property of these runs is inductive by itself.

*RPC.* A quorum of answers contains an honest provider's, since fewer than a quorum are
faulty; `IInv` says that what honest providers answered was true when they answered, and
that the providers whose blocks are compared vouched for that height.

Model-checked only, and why:

- `ReturnsHappen`, `Reconciles`: liveness under fairness, which these provers cannot do.

Every invariant and action property of the passing runs is a theorem.

## 5. Findings

1. `sender_evicted`. `sender.ts:58` takes the node's pending nonce after earlier inclusions were
   checked and does not compare it with nonces in the journal. If the block of an
   `included` row is reorged away in between and nodes drop the transaction, the next operation is signed
   for the same nonce. Once that one is mined, the older row is reopened and can never be mined;
   every later `recover()` throws at it. `docs/plans/tripwire-operator.md:73` says that
   rerunning "reconciles every journaled version of a transaction". `sender_recovers` shows
   that it does when mempools keep the transaction.
2. `operator_protection`. `operator.ts:90` handles one release after the other without a catch. A
   transaction that cannot be sent (fees above the ceiling, a failing estimate, no funds, not mined in
   time) throws through `handle` and ends the tick, so as long as that lasts the releases behind it are never
   handled and their route protection is never submitted. `docs/07-decisions-adr.md:208` says "If
   the release lane cannot recover, reviews and payouts wait with the reason while
   attestations run"; that is so only when `recover()` itself fails.

Differences between documents and code that need no run to see:

- `docs/plans/tripwire-hardening.md:17` and `docs/plans/tripwire-route-policy.md:73` call REJECT
  terminal. In the vault it rests for a cooldown (`TripwireDemo.sol:142`, ADR-025); it is
  terminal in the payment escrow (`RejectionsAreFinal`).
- `docs/07-decisions-adr.md:383` says list revisions "only increase" without rollback. Applying a
  profile, even the same one, deletes the head (`CctpScreenedPaymentEscrow.sol:114`), after which an
  older list is accepted. It does no harm: the policy version changes too, and with it every receipt's
  payment context.
- `docs/07-decisions-adr.md:405` says two different authenticated outcomes are always a retained
  incident. `screeningGate.ts:126` counts journaled *results*; evidence journaled before a
  crash, or before a head relay that stays pending, has none and is not counted.

## 6. Not modelled, and why

- *Formats and signatures.* CCTP message parsing, EIP-712 hashing, ABI, ECDSA and ERC-1271 are
  replaced by the fact they establish.
- *Source-proof keys.* Of the keys that `store.ts:213` claims for a proof only the burn's identity is
  modelled; the settlement position and the nonce follow the same insert in the same transaction.
- *EVM details.* Reentrancy: the token is USDC and the contracts change state before
  transferring; a payout is one step. Overflow of 256-bit integers: Solidity 0.8 reverts.
- *TripwireQuorum.* Every call is one atomic step over the current, only-growing epoch; a property
  would restate its check. Elsewhere the oracle is one principal.
- *Screening gate.* Its answer is an input of the operator, and the escrow checks again on chain what
  it lets through. Its memory of contradictions is left out.
- *Discovery.* It finds locators, which nobody has to trust: the operator's evidence may be
  missing or wrong at any time.
- *Observer and supervision.* They only read, report and restart; a crash is possible at
  every step anyway.
- *Risk scorer.* A pure function over floating-point features; the guardian is checked for
  every score class it can return, the operator for every verdict.
- *Gas and fee ceilings.* A fee bump either happens or the call fails.
- *Explorer, UI, server, ML scripts, deployment and audit scripts.* No protocol state.
  Together with generated contract artifacts they are most of the repository's lines, so the
  share of all lines that the models stand for stays small although the contracts and the
  operator's core are covered.

## 7. What remains

- The screening gate's journal with its head relay, composed with the operator's lane.
- Two lanes in `ReleaseOperator`, with `Attestor` and its own journal as actions.
- That `ReleaseOperator`'s lane is what `DurableSender` promises, as a refinement.
