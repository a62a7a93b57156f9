------------------------------ MODULE RpcQuorum ------------------------------
(***************************************************************************)
(* Reads of one chain through several independent RPC providers            *)
(* (scripts/tripwire/rpcQuorum.ts).  A read asks every provider at once;   *)
(* the answers come back one by one while the providers' chains move on.   *)
(*                                                                         *)
(* An honest provider answers late, not at all, or from a replica that     *)
(* lags, and may be on another fork above its own finalized head.  A       *)
(* faulty one answers anything.                                            *)
(***************************************************************************)
EXTENDS Naturals, FiniteSets

CONSTANTS
    Providers,   \* the configured endpoints
    Faulty,      \* those that may answer anything
    Quorum,      \* minimum of answers that agree
    MaxHeight,   \* bound on block heights
    None         \* no answer

ASSUME QuorumAssumption ==
    /\ IsFiniteSet(Providers)
    /\ Faulty \subseteq Providers
    /\ Quorum \in 1 .. Cardinality(Providers)
    /\ Cardinality(Faulty) < Quorum
    /\ MaxHeight \in Nat
    /\ None \notin Nat /\ None \notin {"canonical", "fork"}

VARIABLES
    head,      \* provider -> the height it has finalized
    read,      \* the read under way
    waiting,   \* providers that have yet to settle
    heads,     \* provider -> finalized height it answered
    blocks,    \* provider -> block it answered for read.height
    result     \* what the last read returned or threw

rvars == <<head, read, waiting, heads, blocks, result>>

-----------------------------------------------------------------------------
Honest == Providers \ Faulty
Heights == 0 .. MaxHeight

\* The block at a height, as far as a source proof compares it.
Block == {"canonical", "fork"}

\* `among' are the providers whose blocks are compared.
Read == [step: {"idle", "heads", "blocks"}, finalized: BOOLEAN,
         among: SUBSET Providers, height: Heights]

Verdicts == {"none", "final", "agreed", "unavailable", "disagreement", "conflict"}
Result == [verdict: Verdicts, height: Heights, block: Block]

Idle == [step |-> "idle", finalized |-> FALSE, among |-> {}, height |-> 0]
NoAnswers == [p \in Providers |-> None]

Init ==
    /\ head = [p \in Providers |-> 0]
    /\ read = Idle
    /\ waiting = {}
    /\ heads = NoAnswers
    /\ blocks = NoAnswers
    /\ result = [verdict |-> "none", height |-> 0, block |-> "canonical"]

-----------------------------------------------------------------------------
(* The providers.                                                          *)

Advance(p) ==
    /\ head[p] < MaxHeight
    /\ head' = [head EXCEPT ![p] = @ + 1]
    /\ UNCHANGED <<read, waiting, heads, blocks, result>>

ReportableHeads(p) == IF p \in Faulty THEN Heights ELSE 0 .. head[p]

\* Assumed of an honest provider: at a height that it has once called finalized
\* all its replicas give that block or none.  A replica may lag in either round.
ReportableBlocks(p) ==
    IF p \in Honest /\ read.height <= head[p] THEN {"canonical"} ELSE Block

AnswerHead(p, h) ==
    /\ read.step = "heads"
    /\ p \in waiting
    /\ h \in ReportableHeads(p)
    /\ heads' = [heads EXCEPT ![p] = h]
    /\ waiting' = waiting \ {p}
    /\ UNCHANGED <<head, read, blocks, result>>

AnswerBlock(p, b) ==
    /\ read.step = "blocks"
    /\ p \in waiting
    /\ b \in ReportableBlocks(p)
    /\ blocks' = [blocks EXCEPT ![p] = b]
    /\ waiting' = waiting \ {p}
    /\ UNCHANGED <<head, read, heads, result>>

\* A failure or a malformed answer is no answer.
Fail(p) ==
    /\ p \in waiting
    /\ waiting' = waiting \ {p}
    /\ UNCHANGED <<head, read, heads, blocks, result>>

-----------------------------------------------------------------------------
(* The reader.                                                             *)

AskFinalized ==
    /\ read.step = "idle"
    /\ read' = [Idle EXCEPT !.step = "heads", !.finalized = TRUE]
    /\ waiting' = Providers
    /\ heads' = NoAnswers
    /\ blocks' = NoAnswers
    /\ UNCHANGED <<head, result>>

\* A block by its number; a receipt is read the same way.
AskBlock(h) ==
    /\ read.step = "idle"
    /\ read' = [step |-> "blocks", finalized |-> FALSE, among |-> Providers, height |-> h]
    /\ waiting' = Providers
    /\ heads' = NoAnswers
    /\ blocks' = NoAnswers
    /\ UNCHANGED <<head, result>>

Answered(answers) == {p \in Providers : answers[p] # None}
Reported == {heads[p] : p \in Answered(heads)}
ReportedAtLeast(h) == {p \in Answered(heads) : heads[p] >= h}

\* The highest height that a quorum reports as finalized.
IsQuorumHead(h) ==
    /\ h \in Reported
    /\ Cardinality(ReportedAtLeast(h)) >= Quorum
    /\ \A g \in Reported : Cardinality(ReportedAtLeast(g)) >= Quorum => g <= h

\* Seeded fault: laggards are compared too.
VouchingAll(h) == Answered(heads)

\* Only those who call the height final are compared at it.
Vouching(h) == ReportedAtLeast(h)

Return(verdict, block) ==
    /\ result' = [verdict |-> verdict, height |-> read.height, block |-> block]
    /\ read' = Idle
    /\ UNCHANGED <<head, waiting, heads, blocks>>

TooFewHeads ==
    /\ read.step = "heads" /\ waiting = {}
    /\ Cardinality(Answered(heads)) < Quorum
    /\ Return("unavailable", "canonical")

ReadQuorumHead(h) ==
    /\ read.step = "heads" /\ waiting = {}
    /\ Cardinality(Answered(heads)) >= Quorum
    /\ IsQuorumHead(h)
    /\ read' = [read EXCEPT !.step = "blocks", !.among = Vouching(h), !.height = h]
    /\ waiting' = Vouching(h)
    /\ UNCHANGED <<head, heads, blocks, result>>

TooFewBlocks ==
    /\ read.step = "blocks" /\ waiting = {}
    /\ Cardinality(Answered(blocks)) < Quorum
    /\ Return("unavailable", "canonical")

\* Seeded fault: the quorum is not counted again in the second round.
AgreeWithoutQuorum(b) ==
    /\ read.step = "blocks" /\ waiting = {}
    /\ Answered(blocks) # {}
    /\ \A p \in Answered(blocks) : blocks[p] = b
    /\ Return(IF read.finalized THEN "final" ELSE "agreed", b)

Agree(b) ==
    /\ read.step = "blocks" /\ waiting = {}
    /\ Cardinality(Answered(blocks)) >= Quorum
    /\ \A p \in Answered(blocks) : blocks[p] = b
    /\ Return(IF read.finalized THEN "final" ELSE "agreed", b)

Dissent ==
    /\ read.step = "blocks" /\ waiting = {}
    /\ Cardinality(Answered(blocks)) >= Quorum
    /\ \E p, q \in Answered(blocks) : blocks[p] # blocks[q]
    /\ Return(IF read.finalized THEN "conflict" ELSE "disagreement", "canonical")

-----------------------------------------------------------------------------
Provider(p) ==
    \/ Advance(p) \/ Fail(p)
    \/ \E h \in Heights : AnswerHead(p, h)
    \/ \E b \in Block : AnswerBlock(p, b)

Reader ==
    \/ AskFinalized \/ TooFewHeads \/ TooFewBlocks \/ Dissent
    \/ \E h \in Heights : AskBlock(h) \/ ReadQuorumHead(h)
    \/ \E b \in Block : Agree(b)

Next == (\E p \in Providers : Provider(p)) \/ Reader

Spec == Init /\ [][Next]_rvars

-----------------------------------------------------------------------------
(* Properties.                                                             *)

RpcTypeOK ==
    /\ head \in [Providers -> Heights]
    /\ read \in Read
    /\ waiting \subseteq Providers
    /\ heads \in [Providers -> Heights \union {None}]
    /\ blocks \in [Providers -> Block \union {None}]
    /\ result \in Result

\* A finalized head that a read returns is one: some honest provider has
\* finalized that height, and the block is the canonical one, although fewer
\* than a quorum of providers may lie, in both rounds and differently in each.
FinalizedIsReal ==
    result.verdict = "final" =>
      /\ result.block = "canonical"
      /\ \E p \in Honest : result.height <= head[p]

\* A read halts the operator for conflicting finalized history only when a
\* provider lied in it; lag and forks above the finalized heads never do
\* (rpcQuorum.ts:96: "a disagreement between them is conflicting finalized
\* history, not lag").
ConflictIsNotLag ==
    result.verdict = "conflict" /\ read.step = "idle" =>
      \E p \in Faulty : blocks[p] = "fork"
=============================================================================
