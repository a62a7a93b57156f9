---------------------------- MODULE DurableSender ----------------------------
(***************************************************************************)
(* The operator's write-ahead outbox: scripts/tripwire/sender.ts over the  *)
(* SQLite journal of scripts/tripwire/store.ts, for one relayer key on one *)
(* real chain (finalityMode "finalized").                                  *)
(*                                                                         *)
(* The process runs one task at a time (exclusive); `task' is everything   *)
(* it keeps in memory, and a crash, an RPC failure or a thrown error loses *)
(* exactly that.  The chain moves between any two steps.  A step is an     *)
(* await, or several of which one decides: findReceipt, the anchor of an   *)
(* inclusion and the recheck of a terminal row take effect at the block    *)
(* read that decides them, and assertSafe is one step with the request it  *)
(* guards, which nothing recalls once it is under way.                     *)
(*                                                                         *)
(* Chain and mempool are external and answer honestly, but late, or not at *)
(* all.  A transaction is its operation id and version (0 the original,    *)
(* then each fee bump); all versions carry one nonce.                      *)
(***************************************************************************)
EXTENDS Naturals, Sequences

CONSTANTS
    Jobs,             \* operations the operator wants done, e.g. one review
    MaxAttempts,      \* bound on attempts per operation
    MaxRows,          \* bound on attempts of all operations together
    MaxReplacements,  \* MAX_REPLACEMENTS
    MaxReorgs,        \* bound on reorgs of unfinalized blocks
    PoolKeeps         \* whether nodes keep what a reorg put back in the mempool

ASSUME SenderAssumption ==
    /\ MaxAttempts \in Nat \ {0}
    /\ MaxRows \in Nat
    /\ MaxReplacements \in Nat
    /\ MaxReorgs \in Nat
    /\ PoolKeeps \in BOOLEAN

VARIABLES
    journal,      \* operation id -> TransactionState
    rows,         \* ids in the order of their insertion
    quarantined,  \* the watcher's persisted finality quarantine
    task,         \* the running send() or recover(), in memory
    chain,        \* canonical blocks holding transactions of this sender
    finalHeight,  \* how many of them are finalized
    pool,         \* signed transactions that nodes hold
    reorgs,       \* reorgs so far
    diverged      \* an anchor of the watcher's finalized history has changed

journalVars == <<journal, rows, quarantined>>
chainVars == <<chain, finalHeight, pool, reorgs, diverged>>
svars == <<journalVars, task, chainVars>>

-----------------------------------------------------------------------------
Attempts == 0 .. MaxAttempts - 1
Ids == Jobs \X Attempts
Versions == 0 .. MaxReplacements
Txs == Ids \X Versions

\* A block is known by its height and the fork it was built on.
BlockHash == (Nat \ {0}) \X (0 .. MaxReorgs)
NoBlock == <<0, 0>>

Block == [hash: BlockHash, tx: Txs, ok: BOOLEAN]

Receipt == [version: Versions, hash: BlockHash, ok: BOOLEAN]
NoReceipt == [version |-> 0, hash |-> NoBlock, ok |-> FALSE]

Statuses == {"none", "signed", "included", "confirmed", "reverted"}

TransactionState ==
    [nonce: Nat, newest: Versions, status: Statuses,
     receipt: Receipt \union {NoReceipt}]

Unsent == [nonce |-> 0, newest |-> 0, status |-> "none", receipt |-> NoReceipt]

Steps == {"idle", "allocate", "settle", "anchor", "publish", "wait", "replace",
          "republish", "finish", "head", "recheck"}

\* What the task still has to settle, and the operation it may sign after that.
Task == [step: Steps, todo: Seq(Ids), goal: Ids \union {<<>>},
         found: Receipt \union {NoReceipt}]

Idle == [step |-> "idle", todo |-> <<>>, goal |-> <<>>, found |-> NoReceipt]

Init ==
    /\ journal = [id \in Ids |-> Unsent]
    /\ rows = <<>>
    /\ quarantined = FALSE
    /\ task = Idle
    /\ chain = <<>>
    /\ finalHeight = 0
    /\ pool = {}
    /\ reorgs = 0
    /\ diverged = FALSE

-----------------------------------------------------------------------------
(* The chain.                                                              *)

Journaled(id) == journal[id].status # "none"
Terminal(id) == journal[id].status \in {"confirmed", "reverted"}
NonceOf(tx) == journal[tx[1]].nonce

ReceiptOf(block) == [version |-> block.tx[2], hash |-> block.hash, ok |-> block.ok]

\* Canonical receipts of the versions of an operation.
Receipts(id) == {ReceiptOf(chain[h]) : h \in {k \in DOMAIN chain : chain[k].tx[1] = id}}

HeightOf(receipt) == receipt.hash[1]

\* Another block is canonical at the receipt's height.  A height that a reorg
\* emptied is filled with blocks of others.
Orphaned(receipt) ==
    HeightOf(receipt) \in DOMAIN chain => chain[HeightOf(receipt)].hash # receipt.hash

Finalized(receipt) == ~Orphaned(receipt) /\ HeightOf(receipt) <= finalHeight

\* The next nonce: mined transactions, then those waiting in the mempool.
PendingNonce(n) ==
    LET waiting == {NonceOf(tx) : tx \in pool}
    IN  n \notin waiting /\ \A k \in Len(chain) .. n - 1 : k \in waiting

\* A block takes the next nonce; whatever competed for it is dropped.
Mine(tx, ok) ==
    /\ tx \in pool
    /\ NonceOf(tx) = Len(chain)
    /\ chain' = Append(chain, [hash |-> <<Len(chain) + 1, reorgs>>, tx |-> tx, ok |-> ok])
    /\ pool' = {other \in pool : NonceOf(other) # NonceOf(tx)}
    /\ UNCHANGED <<journalVars, task, finalHeight, reorgs, diverged>>

Finalize ==
    /\ finalHeight < Len(chain)
    /\ finalHeight' = finalHeight + 1
    /\ UNCHANGED <<journalVars, task, chain, pool, reorgs, diverged>>

\* Unfinalized blocks above height k are abandoned; nodes may take their
\* transactions back into the mempool.
Reorg(k) ==
    /\ reorgs < MaxReorgs
    /\ k \in finalHeight .. Len(chain) - 1
    /\ chain' = SubSeq(chain, 1, k)
    /\ reorgs' = reorgs + 1
    /\ LET returned == {chain[h].tx : h \in k + 1 .. Len(chain)}
       IN  \E kept \in IF PoolKeeps THEN {returned} ELSE SUBSET returned :
              pool' = pool \union kept
    /\ UNCHANGED <<journalVars, task, finalHeight, diverged>>

\* The anchors that assertCanonical reads change against all expectation, at
\* any moment, and may read as before again; nobody is told.
Diverge ==
    /\ diverged' = ~diverged
    /\ UNCHANGED <<journalVars, task, chain, finalHeight, pool, reorgs>>

ChainStep ==
    \/ \E tx \in pool, ok \in BOOLEAN : Mine(tx, ok)
    \/ Finalize
    \/ \E k \in finalHeight .. Len(chain) : Reorg(k)

-----------------------------------------------------------------------------
(* Starting and ending a task.                                             *)

\* Seeded fault: an included revert is taken for a final one.
RetryableEarly(id) ==
    journal[id].status = "reverted" \/ (journal[id].status = "included" /\ ~journal[id].receipt.ok)

Retryable(id) == journal[id].status = "reverted"

\* nextAttemptId: the first attempt, or one more after a finalized revert.
NextAttempt(p) ==
    {k \in Attempts : /\ ~Journaled(<<p, k>>)
                      /\ k = 0 \/ (Journaled(<<p, k - 1>>) /\ Retryable(<<p, k - 1>>))}

\* Seeded fault: recovery passes over what was included already.
recoverSigned ==
    LET signed == SelectSeq(rows, LAMBDA id : journal[id].status = "signed")
    IN  /\ task = Idle
        /\ signed # <<>>
        /\ task' = [Idle EXCEPT !.step = "settle", !.todo = signed]
        /\ UNCHANGED <<journalVars, chainVars>>

\* recover(): every row of the journal, oldest first.
recover ==
    /\ task = Idle
    /\ rows # <<>>
    /\ task' = [Idle EXCEPT !.step = "settle", !.todo = rows]
    /\ UNCHANGED <<journalVars, chainVars>>

\* assertCanonical: no quarantine stands, and the anchors read as committed.
assertSafe == ~quarantined /\ ~diverged

\* send() of a new operation: prior inclusions are checked first.
send(id) ==
    /\ task = Idle
    /\ Len(rows) < MaxRows
    /\ \E k \in NextAttempt(id[1]) : id = <<id[1], k>>
    /\ assertSafe
    /\ task' = [Idle EXCEPT !.step = IF rows = <<>> THEN "allocate" ELSE "settle",
                            !.todo = rows, !.goal = id]
    /\ UNCHANGED <<journalVars, chainVars>>

\* send() again under a journaled id settles that one.
resend(id) ==
    /\ task = Idle
    /\ Journaled(id)
    /\ task' = [Idle EXCEPT !.step = "settle", !.todo = <<id>>]
    /\ UNCHANGED <<journalVars, chainVars>>

\* A crash, a timeout or a thrown error: the next task starts from the journal.
Interrupt ==
    /\ task # Idle
    /\ task' = Idle
    /\ UNCHANGED <<journalVars, chainVars>>

Current == Head(task.todo)

\* The change is noticed: by the watcher on its own tick or in the assertCanonical
\* behind every assertSafe, by the sender in the anchor of a terminal row.  The
\* quarantine is persisted, the task fails.
FinalityConflict ==
    /\ diverged /\ ~quarantined
    /\ \/ task.step \in {"idle", "allocate", "publish", "replace", "republish"}
       \/ task.step = "settle" /\ Terminal(Current)
    /\ quarantined' = TRUE
    /\ task' = Idle
    /\ UNCHANGED <<journal, rows, chainVars>>

\* The task after the current operation is settled.
Settled ==
    LET rest == Tail(task.todo)
    IN  [task EXCEPT !.todo = rest, !.found = NoReceipt,
           !.step = IF rest # <<>> THEN "settle"
                    ELSE IF task.goal # <<>> THEN "allocate" ELSE "idle"]

-----------------------------------------------------------------------------
(* settle(), one RPC answer at a time.                                     *)

\* Terminal rows must still be final; anything else is retried by an operator.
recheckTerminal ==
    /\ task.step = "settle" /\ Terminal(Current)
    /\ Finalized(journal[Current].receipt)
    /\ task' = Settled
    /\ UNCHANGED <<journalVars, chainVars>>

\* A send() rechecks inclusions only; what is outstanding will stop it later.
Outstanding(id) == journal[id].status = "signed"

passOver ==
    /\ task.step = "settle" /\ task.goal # <<>> /\ Outstanding(Current)
    /\ task' = Settled
    /\ UNCHANGED <<journalVars, chainVars>>

\* findReceipt: a canonical receipt of any version, or none that nodes show.
findReceipt ==
    /\ task.step = "settle" /\ ~Terminal(Current)
    /\ task.goal = <<>> \/ ~Outstanding(Current)
    /\ \E found \in Receipts(Current) \union {NoReceipt} :
         task' = [task EXCEPT !.found = found,
                    !.step = IF journal[Current].status = "included" THEN "anchor"
                             ELSE IF found = NoReceipt THEN "publish" ELSE "finish"]
    /\ UNCHANGED <<journalVars, chainVars>>

\* Seeded fault: a missing receipt is taken for a reorg.
LostInclusionIfMissing(id) == task.found = NoReceipt

\* Only a block that is provably not canonical reopens an inclusion.
LostInclusion(id) == Orphaned(journal[id].receipt)

\* The recorded inclusion: still canonical and unchanged, or reopened.
checkAnchor ==
    /\ task.step = "anchor"
    /\ \/ /\ ~LostInclusion(Current)
          /\ task.found = journal[Current].receipt
          /\ UNCHANGED journal
       \/ /\ LostInclusion(Current)
          /\ journal' = [journal EXCEPT ![Current] =
               [@ EXCEPT !.status = "signed", !.receipt = NoReceipt]]
    /\ task' = [task EXCEPT !.step = IF task.found = NoReceipt THEN "publish" ELSE "finish"]
    /\ UNCHANGED <<rows, quarantined, chainVars>>

Underpriced == pool' = pool /\ task' = [task EXCEPT !.step = "replace"]

\* Nodes hold what they accept, refuse a used nonce, and may lose the request.
Broadcast(tx) ==
    \/ pool' = pool
    \/ NonceOf(tx) >= Len(chain) /\ pool' = pool \union {tx}

\* publish(): the newest version, once more.
publish ==
    /\ task.step = "publish" /\ assertSafe
    /\ \/ /\ Broadcast(<<Current, journal[Current].newest>>)
          /\ task' = [task EXCEPT !.step = "wait"]
       \/ Underpriced
    /\ UNCHANGED <<journalVars, chain, finalHeight, reorgs, diverged>>

\* waitReceipt, and after its timeout findReceipt for an earlier version.
waitReceipt ==
    /\ task.step = "wait"
    /\ \E found \in Receipts(Current) \union {NoReceipt} :
         task' = [task EXCEPT !.found = found,
                    !.step = IF found = NoReceipt THEN "replace" ELSE "finish"]
    /\ UNCHANGED <<journalVars, chainVars>>

MayReplace(id) == journal[id].newest < MaxReplacements

\* Seeded fault: the bump is broadcast first.
replaceUnjournaled ==
    /\ task.step = "replace" /\ assertSafe
    /\ MayReplace(Current)
    /\ Broadcast(<<Current, journal[Current].newest + 1>>)
    /\ task' = Idle
    /\ UNCHANGED <<journalVars, chain, finalHeight, reorgs, diverged>>

\* A fee bump is journaled before it is broadcast.
replace ==
    /\ task.step = "replace" /\ assertSafe
    /\ MayReplace(Current)
    /\ journal' = [journal EXCEPT ![Current].newest = @ + 1]
    /\ task' = [task EXCEPT !.step = "republish"]
    /\ UNCHANGED <<rows, quarantined, chainVars>>

\* Seeded fault: what was safe before the bump was signed is taken for safe still.
republishUnchecked ==
    /\ task.step = "republish"
    /\ Broadcast(<<Current, journal[Current].newest>>)
    /\ task' = Idle
    /\ UNCHANGED <<journalVars, chain, finalHeight, reorgs, diverged>>

\* One bump per call: the next recovery waits for it.
republish ==
    /\ task.step = "republish" /\ assertSafe
    /\ Broadcast(<<Current, journal[Current].newest>>)
    /\ task' = Idle
    /\ UNCHANGED <<journalVars, chain, finalHeight, reorgs, diverged>>

\* receiptFinality of what was found, one read at a time: its block,
readBlock ==
    /\ task.step = "finish"
    /\ ~Orphaned(task.found)
    /\ task' = [task EXCEPT !.step = "head"]
    /\ UNCHANGED <<journalVars, chainVars>>

\* The receipt is saved as it was read, with its finality.
Save(status) ==
    /\ journal' = [journal EXCEPT ![Current] =
         [@ EXCEPT !.status = status, !.receipt = task.found]]
    /\ task' = Settled
    /\ UNCHANGED <<rows, quarantined, chainVars>>

\* the finalized head, above which a receipt is included and nothing more,
readHead ==
    /\ task.step = "head"
    /\ \/ HeightOf(task.found) > finalHeight /\ Save("included")
       \/ /\ HeightOf(task.found) <= finalHeight
          /\ task' = [task EXCEPT !.step = "recheck"]
          /\ UNCHANGED <<journalVars, chainVars>>

Outcome(receipt) == IF receipt.ok THEN "confirmed" ELSE "reverted"

\* Seeded fault: what was canonical before the head was read is final below it.
trustFirstRead == task.step = "recheck" /\ Save(Outcome(task.found))

\* and its block once more, which may have changed before the head passed it.
recheckBlock ==
    /\ task.step = "recheck"
    /\ ~Orphaned(task.found)
    /\ Save(Outcome(task.found))

\* Seeded fault: a new nonce is taken while a transaction is outstanding.
MayAllocateAnyway == TRUE

MayAllocate == \A id \in Ids : ~Outstanding(id)

\* Sign for the next nonce and journal the bytes; the first broadcast comes later.
prepare ==
    /\ task.step = "allocate" /\ assertSafe
    /\ MayAllocate
    /\ \E n \in Len(chain) .. Len(chain) + Len(rows) :
         /\ PendingNonce(n)
         /\ journal' = [journal EXCEPT ![task.goal] =
              [Unsent EXCEPT !.nonce = n, !.status = "signed"]]
    /\ rows' = Append(rows, task.goal)
    /\ task' = [Idle EXCEPT !.step = "settle", !.todo = <<task.goal>>]
    /\ UNCHANGED <<quarantined, chainVars>>

-----------------------------------------------------------------------------
SettleStep ==
    \/ recheckTerminal
    \/ passOver
    \/ findReceipt
    \/ checkAnchor
    \/ publish
    \/ waitReceipt
    \/ replace
    \/ republish
    \/ readBlock
    \/ readHead
    \/ recheckBlock

\* As long as finalized history stands,
SteadyNext ==
    \/ ChainStep
    \/ recover
    \/ \E id \in Ids : send(id) \/ resend(id)
    \/ SettleStep
    \/ prepare
    \/ Interrupt

\* and at any time.
Next == SteadyNext \/ Diverge \/ FinalityConflict

Spec == Init /\ [][Next]_svars

\* Where the code itself gives up: the errors that settle, send and publish throw.
Throws ==
    \/ task.step = "settle" /\ Terminal(Current) /\ ~Finalized(journal[Current].receipt)
    \/ task.step = "anchor" /\ ~LostInclusion(Current) /\ task.found # journal[Current].receipt
    \/ task.step \in {"finish", "recheck"} /\ Orphaned(task.found)
    \/ task.step = "replace" /\ ~MayReplace(Current)
    \/ task.step = "allocate" /\ ~MayAllocate
    \/ ~assertSafe

\* A step in which no call fails and nodes show and take what there is.
NodesAnswer ==
    /\ Interrupt => Throws
    /\ findReceipt \/ waitReceipt => (Receipts(Current) # {} => task'.found # NoReceipt)
    /\ publish => \/ <<Current, journal[Current].newest>> \in pool'
                  \/ journal[Current].nonce < Len(chain)

\* The operator runs again and again, what pays and comes next is mined and
\* finalized, and failures of process, network and nodes come to an end.
SenderFairness ==
    /\ SF_svars(recover)
    /\ WF_svars(SettleStep \/ prepare \/ Interrupt)
    /\ WF_svars(\E tx \in pool, ok \in BOOLEAN : Mine(tx, ok))
    /\ WF_svars(Finalize)
    /\ <>[][NodesAnswer]_svars

\* Nothing is promised when finalized history changes: all stops for good.
FairSpec == Init /\ [][SteadyNext]_svars /\ SenderFairness

-----------------------------------------------------------------------------
SenderTypeOK ==
    /\ journal \in [Ids -> TransactionState]
    /\ rows \in Seq(Ids)
    /\ quarantined \in BOOLEAN
    /\ task \in Task
    /\ chain \in Seq(Block)
    /\ finalHeight \in 0 .. Len(chain)
    /\ pool \subseteq Txs
    /\ reorgs \in 0 .. MaxReorgs
    /\ diverged \in BOOLEAN

OnChain == {chain[h].tx : h \in DOMAIN chain}

\* Write-ahead: whatever nodes hold or have mined, a crash at any point leaves
\* its bytes in the journal ("no network send before this commit").
WriteAhead ==
    \A tx \in pool \union OnChain : Journaled(tx[1]) /\ tx[2] <= journal[tx[1]].newest

\* What the store holds is well formed and ahead of the network.
JournalAhead == SenderTypeOK /\ WriteAhead

\* A terminal row tells the truth for good: that version is in a finalized
\* block and had that outcome, whatever crashed, reorganised or was late.
TerminalIsFinal ==
    \A id \in Ids : Terminal(id) =>
        \E h \in 1 .. finalHeight :
            /\ chain[h].tx = <<id, journal[id].receipt.version>>
            /\ chain[h].hash = journal[id].receipt.hash
            /\ chain[h].ok <=> journal[id].status = "confirmed"

\* However often it is retried, an operation takes effect at most once.
OneEffect ==
    \A g, h \in DOMAIN chain :
        chain[g].ok /\ chain[h].ok /\ chain[g].tx[1][1] = chain[h].tx[1][1] => g = h

\* No two operations are signed for one nonce, so neither shuts out the other.
NonceUnshared ==
    \A i, j \in Ids :
        Journaled(i) /\ Journaled(j) /\ journal[i].nonce = journal[j].nonce => i = j

\* From the moment committed history has changed nothing more is published, not
\* even bytes long journaled, although the change is noticed only when somebody
\* looks; and once it was noticed, never again.
QuarantineSilences ==
    [][quarantined \/ diverged => pool' \subseteq pool \union OnChain]_svars

\* "Rerunning against the same state reconciles every journaled version of a
\* transaction" (docs/plans/tripwire-operator.md:73): whatever was journaled
\* reaches a finalized outcome.
Reconciles == \A id \in Ids : Journaled(id) ~> Terminal(id)
=============================================================================
