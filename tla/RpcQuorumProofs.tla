--------------------------- MODULE RpcQuorumProofs ---------------------------
(***************************************************************************)
(* Whatever the number of providers, their heads and their answers: with   *)
(* fewer than a quorum of faulty providers, a finalized head that a read   *)
(* returns is real, and a conflict is never lag.                           *)
(*                                                                         *)
(* The invariant says of a read under way what the two rounds have         *)
(* established.  Honest answers are true of their provider and stay true,  *)
(* because heads only grow; in the second round everyone asked vouched for *)
(* the height, so an honest provider answers with the canonical block; and *)
(* a quorum of answers contains an honest one.                             *)
(***************************************************************************)
EXTENDS RpcQuorum, FiniteSetTheorems, TLAPS

\* Honest providers report heads that they have.
HeadsTrue == \A p \in Honest : heads[p] # None => heads[p] <= head[p]

\* Who is asked for the block of a finalized height has vouched for it.
Vouched ==
    read.step = "blocks" /\ read.finalized =>
      \A p \in Providers :
        p \in waiting \/ blocks[p] # None => heads[p] # None /\ heads[p] >= read.height

\* Honest providers who vouched answer with the canonical block.
BlocksTrue ==
    read.step = "blocks" /\ read.finalized =>
      \A p \in Honest : blocks[p] # None => blocks[p] = "canonical"

\* No block is known before the second round.
BlocksAfterHeads == read.step = "heads" => read.finalized /\ blocks = NoAnswers

IInv ==
    /\ RpcTypeOK
    /\ HeadsTrue
    /\ Vouched
    /\ BlocksTrue
    /\ BlocksAfterHeads
    /\ FinalizedIsReal
    /\ ConflictIsNotLag

-----------------------------------------------------------------------------
\* A quorum of answers contains that of an honest provider.
LEMMA HonestAnswer ==
    ASSUME NEW S \in SUBSET Providers, Cardinality(S) >= Quorum
    PROVE  \E p \in Honest : p \in S
<1> SUFFICES ASSUME \A p \in Honest : p \notin S PROVE FALSE
    OBVIOUS
<1>1. S \subseteq Faulty
    BY DEF Honest
<1>2. IsFiniteSet(Faulty)
    BY FS_Subset, QuorumAssumption
<1>3. Cardinality(S) <= Cardinality(Faulty) /\ Cardinality(S) \in Nat /\ Cardinality(Faulty) \in Nat
    BY <1>1, <1>2, FS_Subset, FS_CardinalityType
<1> QED
    BY <1>3, QuorumAssumption

\* Before the first read there is no answer to be wrong about.
LEMMA InitIInv == Init => IInv
    BY QuorumAssumption DEF Init, IInv, RpcTypeOK, HeadsTrue, Vouched, BlocksTrue,
       BlocksAfterHeads, FinalizedIsReal, ConflictIsNotLag, Idle, NoAnswers, Heights, Read,
       Result, Verdicts, Block, Honest

\* Every step of a provider or of the reader preserves the invariant.
LEMMA NextIInv == IInv /\ [Next]_rvars => IInv'
<1> SUFFICES ASSUME IInv, [Next]_rvars PROVE IInv'
    OBVIOUS
<1> USE QuorumAssumption DEF IInv, Heights, Block
<1>types. /\ head \in [Providers -> Heights] /\ read \in Read /\ waiting \subseteq Providers
          /\ heads \in [Providers -> Heights \union {None}]
          /\ blocks \in [Providers -> Block \union {None}] /\ result \in Result
    BY DEF RpcTypeOK
<1>1. ASSUME NEW p \in Providers, Advance(p) PROVE IInv'
    <2>1. \A q \in Providers : head'[q] \in Nat /\ head[q] <= head'[q]
        BY <1>1, <1>types DEF Advance
    <2>2. RpcTypeOK'
        BY <1>1, <1>types DEF Advance, RpcTypeOK, Read, Result
    <2>3. HeadsTrue'
        BY <1>1, <2>1, <1>types DEF Advance, HeadsTrue, Honest
    <2>4. Vouched' /\ BlocksTrue' /\ BlocksAfterHeads' /\ ConflictIsNotLag'
        BY <1>1 DEF Advance, Vouched, BlocksTrue, BlocksAfterHeads, ConflictIsNotLag
    <2>5. FinalizedIsReal'
        BY <1>1, <2>1, <1>types DEF Advance, FinalizedIsReal, Honest, Result
    <2> QED
        BY <2>2, <2>3, <2>4, <2>5
<1>2. ASSUME NEW p \in Providers, Fail(p) PROVE IInv'
    BY <1>2, <1>types DEF Fail, RpcTypeOK, HeadsTrue, Vouched, BlocksTrue, BlocksAfterHeads,
       FinalizedIsReal, ConflictIsNotLag
<1>3. ASSUME NEW p \in Providers, NEW h \in Heights, AnswerHead(p, h) PROVE IInv'
    <2>1. read.step = "heads" /\ h \in Nat /\ h # None
        BY <1>3 DEF AnswerHead
    <2>2. RpcTypeOK'
        BY <1>3, <1>types DEF AnswerHead, RpcTypeOK
    <2>3. HeadsTrue'
        BY <1>3, <2>1, <1>types DEF AnswerHead, ReportableHeads, HeadsTrue, Honest
    <2>4. Vouched' /\ BlocksTrue' /\ BlocksAfterHeads'
        BY <1>3, <2>1 DEF AnswerHead, Vouched, BlocksTrue, BlocksAfterHeads
    <2>5. FinalizedIsReal' /\ ConflictIsNotLag'
        BY <1>3, <2>1 DEF AnswerHead, FinalizedIsReal, ConflictIsNotLag
    <2> QED
        BY <2>2, <2>3, <2>4, <2>5
<1>4. ASSUME NEW p \in Providers, NEW b \in Block, AnswerBlock(p, b) PROVE IInv'
    <2>1. read.step = "blocks" /\ p \in waiting /\ b # None
        BY <1>4 DEF AnswerBlock
    <2>2. RpcTypeOK'
        BY <1>4, <1>types DEF AnswerBlock, RpcTypeOK
    <2>3. HeadsTrue' /\ Vouched'
        BY <1>4, <2>1, <1>types DEF AnswerBlock, HeadsTrue, Vouched, Honest
    <2>4. p \in Honest /\ read.finalized => read.height <= head[p]
        <3>1. p \in Honest /\ read.finalized => heads[p] # None /\ heads[p] >= read.height
            BY <2>1 DEF Vouched
        <3>2. p \in Honest /\ read.finalized => heads[p] <= head[p]
            BY <3>1 DEF HeadsTrue
        <3> QED
            BY <3>1, <3>2, <1>types DEF Read
    <2>5. BlocksTrue'
        BY <1>4, <2>1, <2>4, <1>types DEF AnswerBlock, ReportableBlocks, BlocksTrue, Honest
    <2>6. BlocksAfterHeads' /\ FinalizedIsReal' /\ ConflictIsNotLag'
        BY <1>4, <2>1 DEF AnswerBlock, BlocksAfterHeads, FinalizedIsReal, ConflictIsNotLag
    <2> QED
        BY <2>2, <2>3, <2>5, <2>6
<1>5. CASE AskFinalized
    <2>1. /\ read' = [step |-> "heads", finalized |-> TRUE, among |-> {}, height |-> 0]
          /\ waiting' = Providers /\ heads' = NoAnswers /\ blocks' = NoAnswers
          /\ UNCHANGED <<head, result>>
        BY <1>5 DEF AskFinalized, Idle
    <2>2. RpcTypeOK'
        BY <2>1, <1>types DEF RpcTypeOK, NoAnswers, Read
    <2>3. HeadsTrue' /\ Vouched' /\ BlocksTrue' /\ BlocksAfterHeads'
        BY <2>1 DEF NoAnswers, HeadsTrue, Vouched, BlocksTrue, BlocksAfterHeads, Honest
    <2>4. FinalizedIsReal' /\ ConflictIsNotLag'
        BY <2>1 DEF FinalizedIsReal, ConflictIsNotLag
    <2> QED
        BY <2>2, <2>3, <2>4
<1>6. ASSUME NEW h \in Heights, AskBlock(h) PROVE IInv'
    BY <1>6, <1>types DEF AskBlock, RpcTypeOK, NoAnswers, Read, HeadsTrue, Vouched,
       BlocksTrue, BlocksAfterHeads, FinalizedIsReal, ConflictIsNotLag, Honest
<1>7. ASSUME NEW h \in Heights, ReadQuorumHead(h) PROVE IInv'
    <2>1. read.step = "heads" /\ read.finalized /\ blocks = NoAnswers
        BY <1>7 DEF ReadQuorumHead, BlocksAfterHeads
    <2>2. \A p \in Vouching(h) : p \in Providers /\ heads[p] # None /\ heads[p] >= h
        BY DEF Vouching, ReportedAtLeast, Answered
    <2>3. RpcTypeOK'
        BY <1>7, <2>2, <1>types DEF ReadQuorumHead, RpcTypeOK, Read
    <2>4. HeadsTrue' /\ BlocksTrue' /\ BlocksAfterHeads'
        BY <1>7, <2>1, <1>types
        DEF ReadQuorumHead, HeadsTrue, BlocksTrue, BlocksAfterHeads, NoAnswers, Honest, Read
    <2>5. Vouched'
        BY <1>7, <2>1, <2>2, <1>types DEF ReadQuorumHead, Vouched, NoAnswers, Read
    <2>6. FinalizedIsReal' /\ ConflictIsNotLag'
        BY <1>7, <1>types DEF ReadQuorumHead, FinalizedIsReal, ConflictIsNotLag, Read
    <2> QED
        BY <2>3, <2>4, <2>5, <2>6
<1>8. ASSUME NEW v \in Verdicts, NEW b \in Block, Return(v, b),
             v = "final" => b = "canonical" /\ \E p \in Honest : read.height <= head[p],
             v = "conflict" => \E p \in Faulty : blocks[p] = "fork"
      PROVE  IInv'
    <2>1. read' = Idle /\ UNCHANGED <<head, waiting, heads, blocks>>
          /\ result' = [verdict |-> v, height |-> read.height, block |-> b]
        BY <1>8 DEF Return
    <2>2. RpcTypeOK'
        BY <2>1, <1>types DEF RpcTypeOK, Idle, Read, Result
    <2>3. HeadsTrue' /\ Vouched' /\ BlocksTrue' /\ BlocksAfterHeads'
        BY <2>1 DEF HeadsTrue, Vouched, BlocksTrue, BlocksAfterHeads, Idle
    <2>4. FinalizedIsReal' /\ ConflictIsNotLag'
        BY <1>8, <2>1 DEF FinalizedIsReal, ConflictIsNotLag
    <2> QED
        BY <2>2, <2>3, <2>4
<1>9. CASE TooFewHeads
    BY <1>9, <1>8 DEF TooFewHeads, Verdicts
<1>10. CASE TooFewBlocks
    BY <1>10, <1>8 DEF TooFewBlocks, Verdicts
<1>11. ASSUME NEW b \in Block, Agree(b) PROVE IInv'
    <2>1. CASE read.finalized
        <3>1. PICK p \in Honest : p \in Answered(blocks)
            BY <1>11, HonestAnswer DEF Agree, Answered
        <3>2. b = "canonical"
            BY <1>11, <2>1, <3>1 DEF Agree, Answered, BlocksTrue
        <3>3. heads[p] # None /\ heads[p] >= read.height
            BY <1>11, <2>1, <3>1 DEF Agree, Answered, Vouched
        <3>4. heads[p] <= head[p]
            BY <3>3 DEF HeadsTrue
        <3>5. read.height <= head[p]
            BY <3>1, <3>3, <3>4, <1>types DEF Read, Honest
        <3> QED
            BY <1>11, <2>1, <3>2, <3>5, <1>8 DEF Agree, Verdicts
    <2>2. CASE ~read.finalized
        BY <1>11, <2>2, <1>8 DEF Agree, Verdicts
    <2> QED
        BY <2>1, <2>2
<1>12. CASE Dissent
    <2>1. CASE read.finalized
        <3>1. PICK p, q \in Answered(blocks) : blocks[p] # blocks[q]
            BY <1>12 DEF Dissent
        <3>2. \E r \in Answered(blocks) : blocks[r] = "fork"
            BY <3>1, <1>types DEF Answered
        <3>3. \E r \in Faulty : blocks[r] = "fork"
            BY <1>12, <2>1, <3>2 DEF Dissent, BlocksTrue, Honest, Answered
        <3> QED
            BY <1>12, <2>1, <3>3, <1>8 DEF Dissent, Verdicts
    <2>2. CASE ~read.finalized
        BY <1>12, <2>2, <1>8 DEF Dissent, Verdicts
    <2> QED
        BY <2>1, <2>2
<1>13. CASE UNCHANGED rvars
    BY <1>13 DEF rvars, RpcTypeOK, HeadsTrue, Vouched, BlocksTrue, BlocksAfterHeads,
       FinalizedIsReal, ConflictIsNotLag
<1> QED
    BY <1>1, <1>2, <1>3, <1>4, <1>5, <1>6, <1>7, <1>9, <1>10, <1>11, <1>12, <1>13
    DEF Next, Provider, Reader

-----------------------------------------------------------------------------
\* The invariant holds throughout.
THEOREM RpcInvariant == Spec => []IInv
    BY InitIInv, NextIInv, PTL DEF Spec

\* The reader's state is well typed, for any providers, heights and quorum.
THEOREM RpcTypeCorrect == Spec => []RpcTypeOK
<1>1. IInv => RpcTypeOK
    BY DEF IInv
<1> QED
    BY <1>1, RpcInvariant, PTL

\* A finalized head that a read returns is final and canonical.
THEOREM FinalizedHeadIsReal == Spec => []FinalizedIsReal
<1>1. IInv => FinalizedIsReal
    BY DEF IInv
<1> QED
    BY <1>1, RpcInvariant, PTL

\* A read that ends in conflict met a provider that lied.
THEOREM ConflictsAreLies == Spec => []ConflictIsNotLag
<1>1. IInv => ConflictIsNotLag
    BY DEF IInv
<1> QED
    BY <1>1, RpcInvariant, PTL
=============================================================================
