------------------------------- MODULE Watcher -------------------------------
(***************************************************************************)
(* The operator-side watcher (scripts/tripwire/watch.ts) over its feeds    *)
(* (ContractEventFeed in testnet/sepolia.ts) and its durable snapshot      *)
(* (saveWatcher, saveOutcome and the source quarantine in store.ts).       *)
(*                                                                         *)
(* A chain is the sequence of the blocks that hold events of interest.     *)
(* Block hashes are linked, so a feed's checkpoint, its cursor with the    *)
(* hash of the block before it, is the prefix it has read.  Every await    *)
(* and every write to the database is a step boundary: the chains move,    *)
(* calls fail and the process dies between any two.                        *)
(*                                                                         *)
(* Left out: scores, the recent transfers that feed them, and the snoozing *)
(* of held work, which only skips its verification.  The operator may act  *)
(* on any release that is pending.                                         *)
(***************************************************************************)
EXTENDS Naturals, Sequences

CONSTANTS
    Messages,    \* bridge message ids
    Payloads,    \* the fields two events of one message may disagree on
    None,        \* no payload, no outcome, no snapshot
    Outcomes,    \* terminal outcomes: executed and returned
    MaxBurns,    \* bound on blocks of the source chain
    MaxRequests, \* bound on blocks of the destination chain
    MaxReorgs    \* bound on reorgs behind the safe head

ASSUME WatcherAssumption ==
    /\ None \notin Payloads
    /\ None \notin Outcomes
    /\ MaxBurns \in Nat
    /\ MaxRequests \in Nat
    /\ MaxReorgs \in Nat

VARIABLES
    source,       \* finalized burns on the source chain
    destination,  \* release requests on the destination chain, at its safe head
    terminal,     \* message -> its terminal state, finalized on chain
    reorgs,       \* reorgs so far
    disk,         \* the saved snapshot
    outcomes,     \* the saved release outcomes
    sourceQuarantine,  \* the saved source quarantine
    memory,       \* the watcher's fields and its feeds' cursors
    before,       \* the snapshot the running tick began with
    step,         \* where the running tick or acknowledgement stands
    acking        \* the acknowledgement under way

chainVars == <<source, destination, terminal, reorgs>>
diskVars == <<disk, outcomes, sourceQuarantine>>
processVars == <<memory, before, step, acking>>
wvars == <<chainVars, diskVars, processVars>>

-----------------------------------------------------------------------------
Event == [message: Messages, payload: Payloads]
Block == [event: Event, fork: 0 .. MaxReorgs]
Chain == Seq(Block)

\* WatcherState: both cursors, the events and the queue, in one row.
Snapshot ==
    [ingress: Chain, egress: Chain,
     burns: [Messages -> Payloads \union {None}],
     pending: [Messages -> Payloads \union {None}],
     completed: SUBSET Messages,
     conflictingBurns: SUBSET Messages, conflictingReleases: SUBSET Messages,
     quarantine: BOOLEAN]

Fresh ==
    [ingress |-> <<>>, egress |-> <<>>,
     burns |-> [m \in Messages |-> None], pending |-> [m \in Messages |-> None],
     completed |-> {}, conflictingBurns |-> {}, conflictingReleases |-> {},
     quarantine |-> FALSE]

ASSUME NoSnapshotAssumption == None \notin Snapshot

Pending(state) == {m \in Messages : state.pending[m] # None}

Steps == {"idle", "ingress", "egress", "persist", "observe", "acknowledge"}

Init ==
    /\ source = <<>>
    /\ destination = <<>>
    /\ terminal = [m \in Messages |-> None]
    /\ reorgs = 0
    /\ disk = None
    /\ outcomes = [m \in Messages |-> None]
    /\ sourceQuarantine = FALSE
    /\ memory = Fresh
    /\ before = None
    /\ step = "idle"
    /\ acking = None

-----------------------------------------------------------------------------
(* The chains.                                                             *)

Requested(m) == \E i \in DOMAIN destination : destination[i].event.message = m

Burn(event) ==
    /\ Len(source) < MaxBurns
    /\ source' = Append(source, [event |-> event, fork |-> 0])
    /\ UNCHANGED <<destination, terminal, reorgs, diskVars, processVars>>

Request(event) ==
    /\ Len(destination) < MaxRequests
    /\ destination' = Append(destination, [event |-> event, fork |-> reorgs])
    /\ UNCHANGED <<source, terminal, reorgs, diskVars, processVars>>

\* A release the vault paid out or returned, in a finalized block.
Terminate(m, outcome) ==
    /\ Requested(m)
    /\ terminal[m] = None
    /\ terminal' = [terminal EXCEPT ![m] = outcome]
    /\ UNCHANGED <<source, destination, reorgs, diskVars, processVars>>

\* The safe head is replaced from some unfinalized block on.
Reorg(kept, event) ==
    /\ reorgs < MaxReorgs
    /\ kept < Len(destination)
    /\ \A i \in kept + 1 .. Len(destination) : terminal[destination[i].event.message] = None
    /\ reorgs' = reorgs + 1
    /\ destination' =
         Append(SubSeq(destination, 1, kept), [event |-> event, fork |-> reorgs + 1])
    /\ UNCHANGED <<source, terminal, diskVars, processVars>>

-----------------------------------------------------------------------------
(* Feeds and snapshots.                                                    *)

Extends(chain, checkpoint) ==
    /\ Len(checkpoint) <= Len(chain)
    /\ \A i \in DOMAIN checkpoint : checkpoint[i] = chain[i]

\* checkAnchor: the block before the cursor is still canonical; a provider
\* whose head is behind it only fails the call.
Conflicts(checkpoint, chain) ==
    Len(checkpoint) <= Len(chain) /\ ~Extends(chain, checkpoint)

AnchorConflict ==
    \/ sourceQuarantine
    \/ Conflicts(memory.ingress, source)
    \/ Conflicts(memory.egress, destination)

\* Positions of a message's events among the blocks first .. last.
Events(chain, first, last, m) == {i \in first .. last : chain[i].event.message = m}

PayloadsAt(chain, positions) == {chain[i].event.payload : i \in positions}

Differ(known, payloads) ==
    \E p, q \in payloads \union ({known} \ {None}) : p # q

\* The burns up to block last: the newest of a message is kept, and a message
\* with two amounts is in conflict from then on.
WithBurns(state, last) ==
    LET new(m) == Events(source, Len(state.ingress) + 1, last, m)
    IN  [state EXCEPT
           !.ingress = SubSeq(source, 1, last),
           !.burns = [m \in Messages |->
             IF new(m) = {} THEN state.burns[m]
             ELSE source[CHOOSE i \in new(m) : \A j \in new(m) : j <= i].event.payload],
           !.conflictingBurns = @ \union
             {m \in Messages : Differ(state.burns[m], PayloadsAt(source, new(m)))}]

\* The requests up to block last: the oldest of a message that is not done is
\* queued, and later ones that differ from it are in conflict.
WithRequests(state, last) ==
    LET new(m) == IF m \in state.completed THEN {}
                  ELSE Events(destination, Len(state.egress) + 1, last, m)
    IN  [state EXCEPT
           !.egress = SubSeq(destination, 1, last),
           !.pending = [m \in Messages |->
             IF state.pending[m] # None \/ new(m) = {} THEN state.pending[m]
             ELSE destination[CHOOSE i \in new(m) : \A j \in new(m) : i <= j].event.payload],
           !.conflictingReleases = @ \union
             {m \in Messages : Differ(state.pending[m], PayloadsAt(destination, new(m)))}]

\* Seeded fault: entering quarantine drops the queue with the evidence.
QuarantinedDropsQueue(state) ==
    [state EXCEPT !.quarantine = TRUE, !.conflictingBurns = {},
                  !.burns = [m \in Messages |-> None],
                  !.pending = [m \in Messages |-> None]]

\* enterQuarantine keeps the queue and forgets the evidence.
Quarantined(state) ==
    [state EXCEPT !.quarantine = TRUE, !.conflictingBurns = {},
                  !.burns = [m \in Messages |-> None]]

Acknowledged(state, m) ==
    [state EXCEPT !.pending[m] = None, !.completed = @ \union {m}]

-----------------------------------------------------------------------------
(* tick                                                                    *)

StartTick ==
    /\ step = "idle"
    /\ before' = memory
    /\ step' = IF memory.quarantine THEN "observe" ELSE "ingress"
    /\ UNCHANGED <<chainVars, diskVars, memory, acking>>

\* The source adapter finds the anchors of its stored proofs canonical, then
\* the feed reads a range of blocks.
PollIngress(last) ==
    /\ step = "ingress"
    /\ ~sourceQuarantine
    /\ Extends(source, memory.ingress)
    /\ memory' = WithBurns(memory, last)
    /\ step' = "egress"
    /\ UNCHANGED <<chainVars, diskVars, before, acking>>

PollEgress(last) ==
    /\ step = "egress"
    /\ Extends(destination, memory.egress)
    /\ memory' = WithRequests(memory, last)
    /\ step' = "persist"
    /\ UNCHANGED <<chainVars, diskVars, before, acking>>

Persist ==
    /\ step = "persist"
    /\ disk' = memory
    /\ step' = "observe"
    /\ UNCHANGED <<chainVars, outcomes, sourceQuarantine, memory, before, acking>>

\* Seeded fault: the fields go back, the feeds' cursors do not.
AbortKeepsCursors ==
    /\ step \in {"ingress", "egress", "persist"}
    /\ memory' = [before EXCEPT !.ingress = memory.ingress, !.egress = memory.egress]
    /\ step' = "idle"
    /\ before' = None
    /\ UNCHANGED <<chainVars, diskVars, acking>>

\* Seeded fault: the fields go back to the saved snapshot, if there is one.
AbortToDisk ==
    /\ step \in {"ingress", "egress", "persist"}
    /\ memory' = disk
    /\ step' = "idle"
    /\ before' = None
    /\ UNCHANGED <<chainVars, diskVars, acking>>

\* A call or the write failed: fields and cursors go back to where they were.
Abort ==
    /\ step \in {"ingress", "egress", "persist"}
    /\ memory' = before
    /\ step' = "idle"
    /\ before' = None
    /\ UNCHANGED <<chainVars, diskVars, acking>>

\* enterQuarantine: the reason is kept even when saving it fails.
EnterQuarantine(state, next) ==
    /\ memory' = Quarantined(state)
    /\ \/ disk' = memory' /\ step' = next
       \/ UNCHANGED disk /\ step' = "idle"
    /\ before' = IF step' = "idle" THEN None ELSE before

\* A feed finds its anchor replaced.
AbortInConflict ==
    /\ \/ step = "ingress" /\ Conflicts(memory.ingress, source)
       \/ step = "egress" /\ Conflicts(memory.egress, destination)
    /\ EnterQuarantine(before, "observe")
    /\ UNCHANGED <<chainVars, outcomes, sourceQuarantine, acking>>

\* The source adapter finds, or remembers, a stored proof whose block changed.
AbortInSourceConflict ==
    /\ step = "ingress"
    /\ sourceQuarantine' = TRUE
    /\ EnterQuarantine(before, "observe")
    /\ UNCHANGED <<chainVars, outcomes, acking>>

\* Every pending release is verified and returned, with its evidence.
Observe ==
    /\ step = "observe"
    /\ disk' = memory
    /\ step' = "idle"
    /\ before' = None
    /\ UNCHANGED <<chainVars, outcomes, sourceQuarantine, memory, acking>>

\* The evidence journal, or the snapshot, cannot be written.
ObserveFails ==
    /\ step = "observe"
    /\ step' = "idle"
    /\ before' = None
    /\ UNCHANGED <<chainVars, diskVars, memory, acking>>

\* Verification finds a stored proof whose block changed.
ObserveConflict ==
    /\ step = "observe"
    /\ ~memory.quarantine
    /\ sourceQuarantine' = TRUE
    /\ EnterQuarantine(memory, "observe")
    /\ UNCHANGED <<chainVars, outcomes, acking>>

-----------------------------------------------------------------------------
(* What the operator asks of the watcher between two ticks.                *)

\* assertCanonical, before anything is signed, sent or acknowledged.
AssertCanonicalFails ==
    /\ step = "idle"
    /\ ~memory.quarantine
    /\ \/ AnchorConflict /\ UNCHANGED sourceQuarantine
       \/ sourceQuarantine' = TRUE
    /\ EnterQuarantine(memory, "idle")
    /\ UNCHANGED <<chainVars, outcomes, acking>>

\* quarantineFinality: the sender found a settled receipt replaced.
QuarantineFinality ==
    /\ step = "idle"
    /\ ~memory.quarantine
    /\ EnterQuarantine(memory, "idle")
    /\ UNCHANGED <<chainVars, outcomes, sourceQuarantine, acking>>

\* Seeded fault: an outcome is saved before it is final.
SaveOutcomeEarly(m) ==
    /\ step = "idle"
    /\ m \in Pending(memory)
    /\ ~memory.quarantine
    /\ ~AnchorConflict
    /\ outcomes' = [outcomes EXCEPT ![m] = CHOOSE outcome \in Outcomes : TRUE]
    /\ step' = "acknowledge"
    /\ acking' = m
    /\ UNCHANGED <<chainVars, disk, sourceQuarantine, memory, before>>

\* acknowledge, after the operator saw the finalized terminal state: first
\* the outcome is saved, then the queue.
SaveOutcome(m) ==
    /\ step = "idle"
    /\ m \in Pending(memory)
    /\ terminal[m] # None
    /\ ~memory.quarantine
    /\ ~AnchorConflict
    /\ outcomes[m] \in {None, terminal[m]}
    /\ outcomes' = [outcomes EXCEPT ![m] = terminal[m]]
    /\ step' = "acknowledge"
    /\ acking' = m
    /\ UNCHANGED <<chainVars, disk, sourceQuarantine, memory, before>>

FinishAcknowledge ==
    /\ step = "acknowledge"
    /\ memory' = Acknowledged(memory, acking)
    /\ disk' = memory'
    /\ step' = "idle"
    /\ acking' = None
    /\ UNCHANGED <<chainVars, outcomes, sourceQuarantine, before>>

\* The snapshot cannot be written: the queue stays as it was.
AcknowledgeFails ==
    /\ step = "acknowledge"
    /\ step' = "idle"
    /\ acking' = None
    /\ UNCHANGED <<chainVars, diskVars, memory, before>>

\* Seeded fault: conflicts are not part of the snapshot.
RestoredWithoutConflicts ==
    [(IF disk = None THEN Fresh ELSE disk) EXCEPT
       !.quarantine = @ \/ sourceQuarantine, !.conflictingBurns = {}]

\* Seeded fault: the source quarantine is not read at start.
RestoredIgnoresSource == IF disk = None THEN Fresh ELSE disk

\* The constructor of the next process: the snapshot, else the source quarantine.
Restored ==
    [(IF disk = None THEN Fresh ELSE disk) EXCEPT !.quarantine = @ \/ sourceQuarantine]

Crash ==
    /\ memory' = Restored
    /\ before' = None
    /\ step' = "idle"
    /\ acking' = None
    /\ UNCHANGED <<chainVars, diskVars>>

-----------------------------------------------------------------------------
Environment ==
    \/ \E event \in Event : Burn(event) \/ Request(event)
    \/ \E m \in Messages, outcome \in Outcomes : Terminate(m, outcome)
    \/ \E kept \in 0 .. MaxRequests, event \in Event : Reorg(kept, event)

\* A feed reads to its head, or to the end of a bounded range before it.
Poll ==
    \/ \E last \in Len(memory.ingress) .. Len(source) : PollIngress(last)
    \/ \E last \in Len(memory.egress) .. Len(destination) : PollEgress(last)

Next ==
    \/ Environment
    \/ StartTick \/ Poll \/ Persist \/ Observe
    \/ Abort \/ AbortInConflict \/ AbortInSourceConflict
    \/ ObserveFails \/ ObserveConflict
    \/ AssertCanonicalFails \/ QuarantineFinality
    \/ \E m \in Messages : SaveOutcome(m)
    \/ FinishAcknowledge \/ AcknowledgeFails
    \/ Crash

Spec == Init /\ [][Next]_wvars

-----------------------------------------------------------------------------
(* Properties.                                                             *)

WatcherTypeOK ==
    /\ {source, destination} \subseteq Chain
    /\ terminal \in [Messages -> Outcomes \union {None}]
    /\ reorgs \in 0 .. MaxReorgs
    /\ sourceQuarantine \in BOOLEAN
    /\ outcomes \in [Messages -> Outcomes \union {None}]
    /\ {disk, before} \subseteq Snapshot \union {None}
    /\ memory \in Snapshot
    /\ step \in Steps
    /\ acking \in Messages \union {None}

Snapshots == {memory, before, disk} \ {None}

ReadRequests(state) == {state.egress[i].event.message : i \in DOMAIN state.egress}

\* No cursor ever passes a release request that is neither queued nor done:
\* not when the second feed fails after the first moved, not across a failed
\* write, a crash or a quarantine.
NothingLost ==
    \A state \in Snapshots :
      /\ ReadRequests(state) = Pending(state) \union state.completed
      /\ Pending(state) \intersect state.completed = {}

Disagree(chain, m) ==
    \E i, j \in DOMAIN chain :
      /\ chain[i].event.message = m /\ chain[j].event.message = m
      /\ chain[i].event.payload # chain[j].event.payload

\* Two burns of one message that disagree are remembered as a conflict, and so
\* are two requests while the first is pending, also when the first was read
\* before a crash or before a tick that failed.
ConflictsRemembered ==
    \A state \in Snapshots, m \in Messages :
      /\ ~state.quarantine => (m \in state.conflictingBurns <=> Disagree(state.ingress, m))
      /\ m \in Pending(state) =>
           (m \in state.conflictingReleases <=> Disagree(state.egress, m))

\* A release leaves the durable queue only with its outcome on record, and
\* every recorded outcome is what the chain finalized.
OutcomesTrue ==
    /\ \A m \in Messages : outcomes[m] \in {None, terminal[m]}
    /\ disk # None => \A m \in disk.completed : outcomes[m] # None

QueueOf(m) ==
    IF disk = None THEN "unseen"
    ELSE IF m \in disk.completed THEN "done"
    ELSE IF m \in Pending(disk) THEN "pending"
    ELSE "unseen"

Queue == INSTANCE ReleaseQueue WITH
    queue <- [m \in Messages |-> QueueOf(m)], recorded <- outcomes

\* The saved queue and outcomes behave as one durable queue (ReleaseQueue):
\* a request enters once and leaves once, after its outcome.
ImplementsReleaseQueue == Queue!Spec

\* Once a quarantine is saved, by the watcher or by the source adapter, no
\* restart or retry lifts it or acts again: nothing is recorded or completed.
Halted == sourceQuarantine \/ (disk # None /\ disk.quarantine)

QuarantineHolds ==
    [][Halted => /\ Halted'
                 /\ memory'.quarantine
                 /\ UNCHANGED outcomes
                 /\ disk # None => disk'.completed = disk.completed]_wvars
=============================================================================
