------------------------ MODULE ReleaseOperatorProofs ------------------------
(***************************************************************************)
(* The operator's tick for any releases, burns and bounds: a burn pays at  *)
(* most one release, what is acknowledged is final, and two decisions on a *)
(* release are never in the lane for one nonce.                            *)
(*                                                                         *)
(* The argument: a release can only become payable through an ALLOW, an    *)
(* ALLOW is only decided on evidence that claimed the burn, and a claim is *)
(* never given up.  So the claim of the burn stands wherever an ALLOW may  *)
(* still be: in the job, in the lane, in a mined transaction or in the     *)
(* state after it, through every crash and reorg.                          *)
(***************************************************************************)
EXTENDS ReleaseOperator, SequenceTheorems, TLAPS

-----------------------------------------------------------------------------
(* The strengthening.                                                      *)

\* The well-formed store and chain.
StoreOK ==
    /\ backing \in [Messages -> Burns \union {None}]
    /\ final \in [Messages -> Release]
    /\ chain \in Seq(Mined)
    /\ queue \in Seq(Messages)
    /\ claims \in [Messages -> Burns \union {None}]
    /\ outcomes \in [Messages -> Terminal \union {None}]
    /\ lane \in Seq(Tx)

\* The release holds the claim of the burn that backs it.
Claimed(m) == claims[m] # None /\ claims[m] = backing[m]

\* A tick in memory that may go on: it has the release it looks at, knows of a
\* claim what it calls verified or means to allow, and the nonce it has read is
\* not in the lane.
JobOk(t) ==
    /\ t \in Job
    /\ t.phase = "observe" => t.todo # <<>> /\ t.decision = "HOLD"
    /\ t.phase \notin {"idle", "observe"} => t.observed # <<>>
    /\ t.phase = "send" => ~Outstanding("review", Head(t.observed)[1], t.nonce)
    /\ \A i \in DOMAIN t.observed : t.observed[i][2] = "verified" => Claimed(t.observed[i][1])
    /\ t.decision = "ALLOW" => Claimed(Head(t.observed)[1])

JobInv == JobOk(job)

\* The releases before a block.
Before(h) == IF h = 1 THEN final ELSE chain[h - 1].after

\* Every block is a possible step from what was before it.
ChainInv ==
    \A h \in DOMAIN chain :
        /\ chain[h].after = Apply(Before(h), chain[h].tx, chain[h].ok)
        /\ chain[h].ok => Possible(Before(h)[chain[h].tx.m], chain[h].tx)

\* The block holds the transaction of that row of the lane.
Holds(h, i) == chain[h].own /\ chain[h].tx = lane[i]

\* What is mined of the lane is mined in its order, each row once and none
\* before an earlier one.
LaneInv ==
    /\ \A i, j \in DOMAIN lane : lane[i] = lane[j] => i = j
    /\ \A h \in DOMAIN chain : chain[h].own => \E i \in DOMAIN lane : Holds(h, i)
    /\ \A g, h \in DOMAIN chain, i, j \in DOMAIN lane :
         Holds(g, i) /\ Holds(h, j) /\ g < h => i < j
    /\ \A h \in DOMAIN chain, i, j \in DOMAIN lane :
         Holds(h, j) /\ i < j => \E g \in DOMAIN chain : Holds(g, i)

OutcomeInv == \A m \in Messages : outcomes[m] \in {None, final[m].state}

\* A claim is of the burn that backs the release, and of no other release.
ClaimInv ==
    /\ \A m \in Messages : claims[m] # None => claims[m] = backing[m]
    /\ \A m, other \in Messages : claims[m] # None /\ claims[m] = claims[other] => m = other

\* Whatever may be paid or is paid, in these releases, holds its claim.
PayersClaimed(releases) ==
    \A m \in Messages : releases[m].state \in {"VERIFIED", "EXECUTED"} => Claimed(m)

AllowClaimed(tx) == tx.kind = "review" /\ tx.decision = "ALLOW" => Claimed(tx.m)

BackInv ==
    /\ PayersClaimed(final)
    /\ \A h \in DOMAIN chain : PayersClaimed(chain[h].after)
    /\ \A i \in DOMAIN lane : AllowClaimed(lane[i])

StoreInv ==
    /\ StoreOK /\ ChainInv /\ LaneInv /\ OutcomeInv /\ OneDecisionPerNonce
    /\ ClaimInv /\ BackInv

IInv == StoreInv /\ JobInv

-----------------------------------------------------------------------------
(* Releases and transactions.                                              *)

LEMMA LatestType == ASSUME StoreOK PROVE latest \in [Messages -> Release]
<1>1. CASE chain = <<>>
  BY <1>1 DEF StoreOK, latest
<1>2. CASE chain # <<>>
  <2>1. chain[Len(chain)] \in Mined
    BY <1>2 DEF StoreOK
  <2> QED BY <1>2, <2>1 DEF latest, Last, Mined
<1> QED BY <1>1, <1>2

LEMMA EffectType ==
  ASSUME NEW release \in Release, NEW tx \in Tx
  PROVE  Effect(release, tx) \in Release
<1>1. CASE tx.kind = "review"
  <2>1. StateAfter(tx.decision) \in ReleaseStates
    BY <1>1 DEF Tx, Decisions, StateAfter, ReleaseStates
  <2>2. Effect(release, tx) = [release EXCEPT !.state = StateAfter(tx.decision), !.nonce = tx.nonce]
    BY <1>1 DEF Effect
  <2>3. tx.nonce \in Nat
    BY DEF Tx
  <2> QED BY <2>1, <2>2, <2>3 DEF Release
<1>2. CASE tx.kind # "review"
  BY <1>2 DEF Tx, Effect, Release, ReleaseStates, Terminal
<1> QED BY <1>1, <1>2

\* A transaction changes its own release and leaves the others.
LEMMA ApplyType ==
  ASSUME NEW releases \in [Messages -> Release], NEW tx \in Tx, NEW ok \in BOOLEAN
  PROVE  /\ Apply(releases, tx, ok) \in [Messages -> Release]
         /\ tx.m \in Messages
         /\ \A m \in Messages : Apply(releases, tx, ok)[m] =
              IF ok /\ m = tx.m THEN Effect(releases[m], tx) ELSE releases[m]
<1>1. tx.m \in Messages
  BY DEF Tx
<1>2. Effect(releases[tx.m], tx) \in Release
  BY <1>1, EffectType
<1> QED BY <1>1, <1>2 DEF Apply

\* Only an ALLOW makes a release payable, and only a payable one is paid.
LEMMA ApplyClaimed ==
  ASSUME NEW releases \in [Messages -> Release], NEW tx \in Tx, NEW ok \in BOOLEAN,
         ok => Possible(releases[tx.m], tx), PayersClaimed(releases), AllowClaimed(tx)
  PROVE  PayersClaimed(Apply(releases, tx, ok))
<1> SUFFICES ASSUME NEW m \in Messages,
                    Apply(releases, tx, ok)[m].state \in {"VERIFIED", "EXECUTED"}
             PROVE  Claimed(m)
  BY DEF PayersClaimed
<1>1. CASE ~(ok /\ m = tx.m)
  BY <1>1, ApplyType DEF PayersClaimed
<1>2. CASE ok /\ m = tx.m
  <2>1. Effect(releases[m], tx).state \in {"VERIFIED", "EXECUTED"} /\ releases[m] \in Release
    BY <1>2, ApplyType
  <2>2. CASE tx.kind = "review"
    <3>1. Effect(releases[m], tx).state = StateAfter(tx.decision)
      BY <2>1, <2>2 DEF Effect, Release
    <3>2. tx.decision = "ALLOW"
      BY <2>1, <2>2, <3>1 DEF StateAfter, Tx, Decisions
    <3> QED BY <1>2, <2>2, <3>2 DEF AllowClaimed
  <2>3. CASE tx.kind = "execute"
    BY <1>2, <2>3 DEF Possible, PayersClaimed
  <2>4. CASE tx.kind = "request"
    BY <2>1, <2>4 DEF Effect, Release, PayersClaimed
  <2>5. CASE tx.kind = "return"
    BY <2>1, <2>5 DEF Effect, Release
  <2> QED BY <2>2, <2>3, <2>4, <2>5 DEF Tx
<1> QED BY <1>1, <1>2

\* A terminal release is left as it is.
LEMMA TerminalStays ==
  ASSUME NEW releases \in [Messages -> Release], NEW tx \in Tx, NEW ok \in BOOLEAN,
         ok => Possible(releases[tx.m], tx),
         NEW m \in Messages, releases[m].state \in Terminal
  PROVE  Apply(releases, tx, ok)[m] = releases[m]
<1>1. ASSUME ok PROVE releases[tx.m].state \notin Terminal
  BY <1>1 DEF Possible
<1>2. ~(ok /\ m = tx.m)
  BY <1>1
<1> QED BY <1>2, ApplyType

LEMMA LatestClaimed == ASSUME StoreOK, BackInv PROVE PayersClaimed(latest)
  BY DEF StoreOK, BackInv, latest, Last

-----------------------------------------------------------------------------
(* The tick in memory.                                                     *)

LEMMA NoJobOk == JobOk(NoJob)
  BY DEF JobOk, NoJob, Job, Phases, Decisions

\* The release at hand.
LEMMA CurrentType ==
  ASSUME JobInv, job.phase \notin {"idle", "observe"}
  PROVE  job.observed # <<>> /\ Current \in Messages /\ Seen \in Evidence
         /\ (Seen = "verified" => Claimed(Current))
<1>1. job.observed \in Seq(Messages \X Evidence) /\ job.observed # <<>>
  BY DEF JobInv, JobOk, Job
<1>2. 1 \in DOMAIN job.observed /\ Head(job.observed) = job.observed[1]
      /\ job.observed[1] \in Messages \X Evidence
  BY <1>1
<1> QED BY <1>1, <1>2 DEF Current, Seen, JobInv, JobOk

LEMMA TailOf ==
  ASSUME NEW S, NEW s \in Seq(S), s # <<>>
  PROVE  /\ Tail(s) \in Seq(S) /\ Len(Tail(s)) = Len(s) - 1
         /\ Len(s) > 1 => Tail(s) # <<>>
         /\ \A i \in DOMAIN Tail(s) : i + 1 \in DOMAIN s /\ Tail(s)[i] = s[i + 1]
  OBVIOUS

LEMMA AdvancedOk ==
  ASSUME JobInv, job.observed # <<>>
  PROVE  JobOk(Advanced)
<1>0. job \in Job /\ job.observed \in Seq(Messages \X Evidence) /\ job.blocked \in BOOLEAN
  BY DEF JobInv, JobOk, Job
<1>1. CASE Len(job.observed) > 1
  <2> DEFINE rest == Tail(job.observed)
  <2>1. /\ rest \in Seq(Messages \X Evidence) /\ rest # <<>>
        /\ \A i \in DOMAIN rest : i + 1 \in DOMAIN job.observed /\ rest[i] = job.observed[i + 1]
    BY <1>0, <1>1, TailOf
  <2>2. Advanced = [NoJob EXCEPT !.phase = "read", !.observed = rest, !.blocked = job.blocked]
    BY <1>1 DEF Advanced
  <2> HIDE DEF rest
  <2>3. /\ Advanced \in Job /\ Advanced.phase = "read" /\ Advanced.observed = rest
        /\ Advanced.decision = "HOLD"
    <3>1. NoJob \in Job /\ "read" \in Phases
      BY NoJobOk DEF JobOk, Phases
    <3>2. Advanced \in Job
      BY <1>0, <2>1, <2>2, <3>1 DEF Job
    <3> QED BY <2>2, <3>2 DEF NoJob
  <2> HIDE DEF Advanced
  <2> QED BY <2>1, <2>3 DEF JobOk, JobInv
<1>2. CASE ~(Len(job.observed) > 1)
  BY <1>2, NoJobOk DEF Advanced
<1> QED BY <1>1, <1>2

\* A tick that goes on with t.
LEMMA ContinueStep ==
  ASSUME IInv, NEW t, JobOk(t), Continue(t)
  PROVE  IInv'
<1>0. /\ UNCHANGED <<backing, final, chain, queue, claims, outcomes, lane, reverted>> /\ job' = t
  BY DEF Continue, chainVars, diskVars
<1>1. StoreOK'
  BY <1>0 DEF IInv, StoreInv, StoreOK
<1>2. ChainInv' /\ LaneInv'
  BY <1>0 DEF IInv, StoreInv, ChainInv, Before, LaneInv, Holds
<1>3. OutcomeInv' /\ OneDecisionPerNonce' /\ ClaimInv'
  BY <1>0 DEF IInv, StoreInv, OutcomeInv, OneDecisionPerNonce, ClaimInv
<1>4. BackInv'
  BY <1>0 DEF IInv, StoreInv, BackInv, PayersClaimed, AllowClaimed, Claimed
<1>5. JobInv'
  BY <1>0 DEF JobInv, JobOk, Outstanding, Claimed
<1> QED BY <1>1, <1>2, <1>3, <1>4, <1>5 DEF IInv, StoreInv

\* A transaction journaled goes behind the lane's others.
LEMMA SendStep ==
  ASSUME IInv, NEW tx \in Tx, NEW t, JobOk(t), t.phase # "send", Send(tx, t),
         AllowClaimed(tx), tx.kind = "review" => ~Outstanding("review", tx.m, tx.nonce)
  PROVE  IInv'
<1>0. /\ UNCHANGED <<backing, final, chain, queue, claims, outcomes, reverted>> /\ job' = t
      /\ lane' = lane \/ (lane' = Append(lane, tx) /\ tx \notin Range(lane))
  BY DEF Send, chainVars
<1>1. CASE lane' = lane
  <2>1. Continue(t)
    BY <1>0, <1>1 DEF Continue, chainVars, diskVars
  <2> QED BY <2>1, ContinueStep
<1>2. CASE lane' = Append(lane, tx) /\ tx \notin Range(lane)
  <2>0. StoreOK /\ lane \in Seq(Tx) /\ Len(lane) \in Nat /\ LaneInv
    BY DEF IInv, StoreInv, StoreOK
  <2>1. /\ lane' \in Seq(Tx) /\ DOMAIN lane = 1 .. Len(lane) /\ DOMAIN lane' = 1 .. Len(lane) + 1
        /\ \A i \in DOMAIN lane : lane'[i] = lane[i] /\ lane'[i] # tx /\ i # Len(lane) + 1
        /\ lane'[Len(lane) + 1] = tx
    BY <1>2, <2>0 DEF Range
  <2>2. StoreOK'
    BY <1>0, <2>0, <2>1 DEF StoreOK
  <2>3. ChainInv' /\ OutcomeInv' /\ ClaimInv'
    BY <1>0 DEF IInv, StoreInv, ChainInv, Before, OutcomeInv, ClaimInv
  <2>4. \A h \in DOMAIN chain : chain[h].own => chain[h].tx # tx
    BY <2>0, <2>1 DEF LaneInv, Holds
  <2>5. \A h \in DOMAIN chain, i \in DOMAIN lane' : Holds(h, i)' <=> i \in DOMAIN lane /\ Holds(h, i)
    BY <1>0, <2>1, <2>4 DEF Holds
  <2>6. LaneInv'
    <3>1. ASSUME NEW i \in DOMAIN lane', NEW j \in DOMAIN lane', lane'[i] = lane'[j] PROVE i = j
      BY <2>0, <2>1, <3>1 DEF LaneInv
    <3>2. \A h \in DOMAIN chain' : chain'[h].own => \E i \in DOMAIN lane' : Holds(h, i)'
      <4> SUFFICES ASSUME NEW h \in DOMAIN chain, chain[h].own
                   PROVE  \E i \in DOMAIN lane' : Holds(h, i)'
        BY <1>0
      <4>1. PICK i \in DOMAIN lane : Holds(h, i)
        BY <2>0 DEF LaneInv
      <4>2. i \in DOMAIN lane'
        BY <2>0, <2>1
      <4> QED BY <2>5, <4>1, <4>2
    <3>3. \A g, h \in DOMAIN chain', i, j \in DOMAIN lane' :
            Holds(g, i)' /\ Holds(h, j)' /\ g < h => i < j
      BY <1>0, <2>0, <2>5 DEF LaneInv
    <3>4. \A h \in DOMAIN chain', i, j \in DOMAIN lane' :
            Holds(h, j)' /\ i < j => \E g \in DOMAIN chain' : Holds(g, i)'
      <4> SUFFICES ASSUME NEW h \in DOMAIN chain, NEW i \in DOMAIN lane', NEW j \in DOMAIN lane',
                          Holds(h, j)', i < j
                   PROVE  \E g \in DOMAIN chain : Holds(g, i)'
        BY <1>0
      <4>1. Holds(h, j) /\ j \in DOMAIN lane /\ i \in DOMAIN lane
        BY <2>0, <2>1, <2>5
      <4> QED BY <2>0, <2>5, <4>1 DEF LaneInv
    <3> QED BY <3>1, <3>2, <3>3, <3>4 DEF LaneInv
  <2>7. OneDecisionPerNonce'
    <3> SUFFICES ASSUME NEW i \in DOMAIN lane', NEW j \in DOMAIN lane',
                        lane'[i].kind = "review", lane'[j].kind = "review",
                        lane'[i].m = lane'[j].m, lane'[i].nonce = lane'[j].nonce
                 PROVE  i = j
      BY DEF OneDecisionPerNonce
    <3>1. ASSUME NEW k \in DOMAIN lane, tx.kind = "review", lane[k].kind = "review",
                 lane[k].m = tx.m, lane[k].nonce = tx.nonce
          PROVE  FALSE
      BY <3>1 DEF Outstanding, Range
    <3> QED BY <2>0, <2>1, <3>1 DEF IInv, StoreInv, OneDecisionPerNonce
  <2>8. BackInv'
    <3>1. PayersClaimed(final)' /\ \A h \in DOMAIN chain' : PayersClaimed(chain[h].after)'
      BY <1>0 DEF IInv, StoreInv, BackInv, PayersClaimed, Claimed
    <3>2. \A i \in DOMAIN lane' : AllowClaimed(lane[i])'
      BY <1>0, <2>1 DEF IInv, StoreInv, BackInv, AllowClaimed, Claimed
    <3> QED BY <3>1, <3>2 DEF BackInv
  <2>9. JobInv'
    BY <1>0 DEF JobInv, JobOk, Claimed
  <2> QED BY <2>2, <2>3, <2>6, <2>7, <2>8, <2>9 DEF IInv, StoreInv
<1> QED BY <1>0, <1>1, <1>2

\* What a chain step does to the tick in memory, the claims and the queue: nothing.
LEMMA ChainKeeps ==
  ASSUME IInv, UNCHANGED <<backing, queue, claims, outcomes, job>>,
         \A tx \in Range(lane') : tx \in Range(lane)
  PROVE  JobInv' /\ ClaimInv' /\ \A m \in Messages : Claimed(m)' <=> Claimed(m)
<1>1. JobInv'
  BY DEF IInv, JobInv, JobOk, Outstanding, Claimed
<1> QED BY <1>1 DEF IInv, StoreInv, ClaimInv, Claimed

\* A block on top of the chain, whoever sent its transaction.
LEMMA IncludeStep ==
  ASSUME IInv, NEW tx \in Tx, NEW ok \in BOOLEAN, NEW own \in BOOLEAN,
         Include(tx, ok, own), AllowClaimed(tx), LaneInv'
  PROVE  IInv'
<1> DEFINE block == [tx |-> tx, ok |-> ok, own |-> own, after |-> Apply(latest, tx, ok)]
<1>0. /\ UNCHANGED <<backing, final, queue, claims, outcomes, lane, reverted, job>>
      /\ chain' = Append(chain, block)
      /\ ok => Possible(latest[tx.m], tx)
  BY DEF Include, diskVars
<1>1. /\ StoreOK /\ BackInv /\ ChainInv /\ chain \in Seq(Mined) /\ Len(chain) \in Nat
      /\ latest \in [Messages -> Release] /\ PayersClaimed(latest)
  BY LatestType, LatestClaimed DEF IInv, StoreInv, StoreOK
<1>2. /\ block \in Mined /\ block.tx = tx /\ block.ok = ok /\ block.after = Apply(latest, tx, ok)
  BY <1>1, ApplyType DEF Mined
<1> HIDE DEF block
<1>t. PICK top \in Nat : top = Len(chain) + 1
  BY <1>1
<1>3. /\ chain' \in Seq(Mined) /\ DOMAIN chain = 1 .. Len(chain) /\ DOMAIN chain' = 1 .. top
      /\ \A h \in DOMAIN chain : chain'[h] = chain[h] /\ h # top
      /\ chain'[top] = block
  BY <1>0, <1>1, <1>t, <1>2
<1>4. StoreOK'
  BY <1>0, <1>1, <1>3 DEF StoreOK
<1>5. \A h \in DOMAIN chain : Before(h)' = Before(h)
  BY <1>0, <1>1, <1>3 DEF Before
<1>6. Before(top)' = latest
  <2>1. CASE Len(chain) = 0
    BY <1>0, <1>1, <1>t, <2>1 DEF Before, latest
  <2>2. CASE Len(chain) # 0
    <3>1. Len(chain) \in DOMAIN chain /\ chain # <<>> /\ top # 1 /\ top - 1 = Len(chain)
      BY <1>1, <1>t, <2>2
    <3> QED BY <1>3, <3>1 DEF Before, latest, Last
  <2> QED BY <2>1, <2>2
<1>7. ChainInv'
  <2> SUFFICES ASSUME NEW h \in DOMAIN chain'
               PROVE  /\ chain'[h].after = Apply(Before(h)', chain'[h].tx, chain'[h].ok)
                      /\ chain'[h].ok => Possible(Before(h)'[chain'[h].tx.m], chain'[h].tx)
    BY DEF ChainInv, Apply, Possible, Effect
  <2>1. CASE h \in DOMAIN chain
    BY <1>1, <1>3, <1>5, <2>1 DEF ChainInv
  <2>2. CASE h = top
    BY <1>0, <1>2, <1>3, <1>6, <2>2
  <2> QED BY <1>1, <1>t, <1>3, <2>1, <2>2
<1>8. JobInv' /\ ClaimInv' /\ \A m \in Messages : Claimed(m)' <=> Claimed(m)
  BY <1>0, ChainKeeps
<1>9. OutcomeInv' /\ OneDecisionPerNonce'
  BY <1>0 DEF IInv, StoreInv, OutcomeInv, OneDecisionPerNonce
<1>10. BackInv'
  <2>1. PayersClaimed(block.after)
    BY <1>0, <1>1, <1>2, ApplyClaimed
  <2>2. \A h \in DOMAIN chain' : PayersClaimed(chain[h].after)'
    <3> SUFFICES ASSUME NEW h \in DOMAIN chain' PROVE PayersClaimed(chain'[h].after)
      BY <1>8 DEF PayersClaimed
    <3> QED BY <1>1, <1>t, <1>3, <2>1 DEF BackInv
  <2>3. PayersClaimed(final)'
    BY <1>0, <1>1, <1>8 DEF BackInv, PayersClaimed
  <2>4. \A i \in DOMAIN lane' : AllowClaimed(lane[i])'
    BY <1>0, <1>1 DEF BackInv, AllowClaimed, Claimed
  <2> QED BY <2>2, <2>3, <2>4 DEF BackInv
<1> QED BY <1>4, <1>7, <1>8, <1>9, <1>10 DEF IInv, StoreInv

\* What is not mined of the lane.
LEMMA UnminedRows ==
  ASSUME NEW i \in DOMAIN lane
  PROVE  lane[i] \in Unmined <=> ~\E h \in DOMAIN chain : Holds(h, i)
  BY DEF Unmined, OwnMined, Holds, Range

\* The first unmined row of the lane is mined.
LEMMA MineOwnNext == ASSUME IInv, NEW ok \in BOOLEAN, MineOwn(ok) PROVE IInv'
<1>1. PICK i \in DOMAIN lane :
        /\ lane[i] \in Unmined
        /\ \A j \in 1 .. i - 1 : lane[j] \notin Unmined
        /\ Include(lane[i], ok, TRUE)
  BY DEF MineOwn
<1>2. /\ lane \in Seq(Tx) /\ lane[i] \in Tx /\ AllowClaimed(lane[i]) /\ LaneInv
      /\ chain \in Seq(Mined) /\ Len(chain) \in Nat /\ DOMAIN lane = 1 .. Len(lane) /\ Len(lane) \in Nat
  BY DEF IInv, StoreInv, StoreOK, BackInv
<1>3. LaneInv'
  <2>t. PICK top \in Nat : top = Len(chain) + 1
    BY <1>2
  <2>1. /\ lane' = lane /\ DOMAIN chain = 1 .. top - 1 /\ DOMAIN chain' = 1 .. top
        /\ \A h \in DOMAIN chain : chain'[h] = chain[h] /\ h < top
        /\ chain'[top].own /\ chain'[top].tx = lane[i]
    BY <1>1, <1>2, <2>t DEF Include, diskVars
  <2>2. /\ \A h \in DOMAIN chain, j \in DOMAIN lane : Holds(h, j)' <=> Holds(h, j)
        /\ \A j \in DOMAIN lane : Holds(top, j)' <=> j = i
    BY <1>2, <2>1 DEF Holds, LaneInv
  <2>3. \A h \in DOMAIN chain : ~Holds(h, i)
    BY <1>1, UnminedRows
  <2>4. \A j \in DOMAIN lane : j < i => \E h \in DOMAIN chain : Holds(h, j)
    BY <1>1, <1>2, UnminedRows
  <2>5. \A h \in DOMAIN chain, j \in DOMAIN lane : Holds(h, j) => j < i
    <3> SUFFICES ASSUME NEW h \in DOMAIN chain, NEW j \in DOMAIN lane, Holds(h, j), ~(j < i) PROVE FALSE
      OBVIOUS
    <3>1. i < j
      BY <1>2, <2>3
    <3> QED BY <1>2, <2>3, <3>1 DEF LaneInv
  <2>6. \A h \in DOMAIN chain' : chain'[h].own => \E j \in DOMAIN lane : Holds(h, j)'
    <3> SUFFICES ASSUME NEW h \in DOMAIN chain', chain'[h].own PROVE \E j \in DOMAIN lane : Holds(h, j)'
      OBVIOUS
    <3>1. CASE h \in DOMAIN chain
      BY <1>2, <2>1, <2>2, <3>1 DEF LaneInv
    <3>2. CASE h = top
      BY <2>2, <3>2
    <3> QED BY <2>1, <3>1, <3>2
  <2>7. \A g, h \in DOMAIN chain', j, k \in DOMAIN lane :
          Holds(g, j)' /\ Holds(h, k)' /\ g < h => j < k
    <3> SUFFICES ASSUME NEW g \in DOMAIN chain', NEW h \in DOMAIN chain', NEW j \in DOMAIN lane,
                        NEW k \in DOMAIN lane, Holds(g, j)', Holds(h, k)', g < h
                 PROVE  j < k
      OBVIOUS
    <3>1. g \in DOMAIN chain /\ (h \in DOMAIN chain \/ h = top)
      BY <1>2, <2>1
    <3>2. CASE h \in DOMAIN chain
      BY <1>2, <2>2, <3>1, <3>2 DEF LaneInv
    <3>3. CASE h = top
      BY <2>2, <2>5, <3>1, <3>3
    <3> QED BY <3>1, <3>2, <3>3
  <2>8. \A h \in DOMAIN chain', j, k \in DOMAIN lane :
          Holds(h, k)' /\ j < k => \E g \in DOMAIN chain' : Holds(g, j)'
    <3> SUFFICES ASSUME NEW h \in DOMAIN chain', NEW j \in DOMAIN lane, NEW k \in DOMAIN lane,
                        Holds(h, k)', j < k
                 PROVE  \E g \in DOMAIN chain' : Holds(g, j)'
      OBVIOUS
    <3>1. \E g \in DOMAIN chain : Holds(g, j)
      <4>1. CASE h \in DOMAIN chain
        BY <1>2, <2>2, <4>1 DEF LaneInv
      <4>2. CASE h = top
        BY <2>2, <2>4, <4>2
      <4> QED BY <2>1, <4>1, <4>2
    <3>2. PICK g \in DOMAIN chain : Holds(g, j)
      BY <3>1
    <3>3. g \in DOMAIN chain'
      BY <1>2, <2>1
    <3> QED BY <2>2, <3>2, <3>3
  <2> QED BY <1>2, <2>1, <2>6, <2>7, <2>8 DEF LaneInv
<1> QED BY <1>1, <1>2, <1>3, IncludeStep

\* Another party's transaction.
LEMMA MineOtherNext ==
  ASSUME IInv, NEW m \in Messages, NEW kind \in {"execute", "return", "request"}, MineOther(m, kind)
  PROVE  IInv'
<1> DEFINE tx == [kind |-> kind, m |-> m, nonce |-> latest[m].nonce, decision |-> None]
<1>1. latest[m].nonce \in Nat
  BY LatestType DEF IInv, StoreInv, Release
<1>2. tx \in Tx /\ tx.kind = kind
  BY <1>1 DEF Tx
<1>3. PICK ok, own \in BOOLEAN : Include(tx, ok, own) /\ ~own
  BY Zenon DEF MineOther
<1> HIDE DEF tx
<1>4. LaneInv'
  <2>0. /\ chain \in Seq(Mined) /\ Len(chain) \in Nat /\ LaneInv
    BY DEF IInv, StoreInv, StoreOK
  <2>t. PICK top \in Nat : top = Len(chain) + 1
    BY <2>0
  <2>1. /\ lane' = lane /\ DOMAIN chain = 1 .. top - 1 /\ DOMAIN chain' = 1 .. top
        /\ \A h \in DOMAIN chain : chain'[h] = chain[h] /\ h # top
        /\ ~chain'[top].own
    BY <1>3, <2>0, <2>t DEF Include, diskVars
  <2>2. \A h \in DOMAIN chain', j \in DOMAIN lane :
          /\ Holds(h, j)' <=> h \in DOMAIN chain /\ Holds(h, j)
          /\ chain'[h].own <=> h \in DOMAIN chain /\ chain[h].own
    BY <2>1 DEF Holds
  <2>3. \A h \in DOMAIN chain : h \in DOMAIN chain'
    BY <2>1
  <2>4. \A h \in DOMAIN chain' : chain'[h].own => \E j \in DOMAIN lane : Holds(h, j)'
    <3> SUFFICES ASSUME NEW h \in DOMAIN chain', chain'[h].own PROVE \E j \in DOMAIN lane : Holds(h, j)'
      OBVIOUS
    <3>1. h \in DOMAIN chain /\ chain[h].own
      BY <2>1
    <3> QED BY <2>0, <2>1, <2>2, <3>1 DEF LaneInv
  <2>5. \A h \in DOMAIN chain', j, k \in DOMAIN lane :
          Holds(h, k)' /\ j < k => \E g \in DOMAIN chain' : Holds(g, j)'
    <3> SUFFICES ASSUME NEW h \in DOMAIN chain', NEW j \in DOMAIN lane, NEW k \in DOMAIN lane,
                        Holds(h, k)', j < k
                 PROVE  \E g \in DOMAIN chain' : Holds(g, j)'
      OBVIOUS
    <3>1. PICK g \in DOMAIN chain : Holds(g, j)
      BY <2>0, <2>1, <2>2 DEF LaneInv
    <3> QED BY <2>2, <2>3, <3>1
  <2> QED BY <2>0, <2>1, <2>2, <2>4, <2>5 DEF LaneInv
<1>5. AllowClaimed(tx)
  BY <1>2 DEF AllowClaimed
<1> QED BY <1>2, <1>3, <1>4, <1>5, IncludeStep

\* The first block becomes final; its row, the first of the lane, is settled.
LEMMA FinalizeNext == ASSUME IInv, Finalize PROVE IInv'
<1>0. /\ StoreOK /\ BackInv /\ ChainInv /\ LaneInv /\ OutcomeInv /\ chain \in Seq(Mined)
      /\ chain # <<>> /\ Len(chain) \in Nat /\ lane \in Seq(Tx) /\ Len(lane) \in Nat
      /\ final \in [Messages -> Release]
  BY DEF IInv, StoreInv, StoreOK, Finalize
<1> PICK mined \in Mined : mined = chain[1]
  BY <1>0
<1>1. /\ UNCHANGED <<backing, queue, claims, outcomes, job>>
      /\ chain' = Tail(chain) /\ final' = mined.after
      /\ lane' = IF mined.own THEN Tail(lane) ELSE lane
  BY <1>0 DEF Finalize
<1>2. /\ 1 \in DOMAIN chain /\ chain' \in Seq(Mined) /\ DOMAIN chain = 1 .. Len(chain)
      /\ DOMAIN chain' = 1 .. Len(chain) - 1
      /\ \A h \in DOMAIN chain' : h + 1 \in DOMAIN chain /\ chain'[h] = chain[h + 1] /\ h \in Nat
      /\ \A h \in DOMAIN chain : h # 1 => h - 1 \in DOMAIN chain' /\ chain'[h - 1] = chain[h]
  BY <1>0, <1>1
<1>3. /\ mined.after \in [Messages -> Release] /\ mined.tx \in Tx /\ mined.ok \in BOOLEAN
      /\ mined.after = Apply(final, mined.tx, mined.ok)
      /\ mined.ok => Possible(final[mined.tx.m], mined.tx)
  BY <1>0, <1>2 DEF Mined, ChainInv, Before
<1>4. mined.own => 1 \in DOMAIN lane /\ Holds(1, 1)
  <2> SUFFICES ASSUME mined.own PROVE 1 \in DOMAIN lane /\ Holds(1, 1)
    OBVIOUS
  <2>1. PICK i \in DOMAIN lane : Holds(1, i)
    BY <1>0, <1>2 DEF LaneInv
  <2>2. DOMAIN lane = 1 .. Len(lane) /\ 1 \in DOMAIN lane
    BY <1>0, <2>1
  <2>3. CASE i # 1
    <3>1. 1 < i
      BY <2>2, <2>3
    <3>2. PICK g \in DOMAIN chain : Holds(g, 1)
      BY <1>0, <1>2, <2>1, <2>2, <3>1 DEF LaneInv
    <3>3. g # 1
      <4> SUFFICES ASSUME g = 1 PROVE FALSE
        OBVIOUS
      <4>1. lane[1] = lane[i]
        BY <2>1, <3>2 DEF Holds
      <4> QED BY <1>0, <2>2, <2>3, <4>1 DEF LaneInv
    <3>4. 1 < g
      BY <1>2, <3>3
    <3>5. i < 1
      BY <1>0, <1>2, <2>1, <2>2, <3>2, <3>4 DEF LaneInv
    <3> QED BY <1>0, <2>2, <3>1, <3>5
  <2> QED BY <2>1, <2>2, <2>3
<1>5. PICK gone \in {0, 1} :
        /\ gone = IF mined.own THEN 1 ELSE 0
        /\ lane' \in Seq(Tx) /\ DOMAIN lane = 1 .. Len(lane) /\ DOMAIN lane' = 1 .. Len(lane) - gone
        /\ \A i \in DOMAIN lane' : i + gone \in DOMAIN lane /\ lane'[i] = lane[i + gone] /\ i \in Nat
        /\ \A i \in DOMAIN lane : i - gone \in 1 .. Len(lane) - gone =>
             i - gone \in DOMAIN lane' /\ lane'[i - gone] = lane[i]
  <2>1. CASE mined.own
    <3>1. lane # <<>> /\ lane' = Tail(lane)
      BY <1>0, <1>1, <1>4, <2>1
    <3> QED BY <1>0, <2>1, <3>1
  <2>2. CASE ~mined.own
    BY <1>0, <1>1, <2>2
  <2> QED BY <2>1, <2>2
<1>6. StoreOK'
  BY <1>0, <1>1, <1>2, <1>3, <1>5 DEF StoreOK
<1>7. \A h \in DOMAIN chain' : Before(h)' = Before(h + 1)
  <2> SUFFICES ASSUME NEW h \in DOMAIN chain' PROVE Before(h)' = Before(h + 1)
    OBVIOUS
  <2>1. CASE h = 1
    BY <1>1, <2>1 DEF Before
  <2>2. CASE h # 1
    <3>1. h - 1 \in DOMAIN chain' /\ (h - 1) + 1 = h /\ h + 1 # 1 /\ (h + 1) - 1 = h
      BY <1>2, <2>2
    <3> QED BY <1>2, <2>2, <3>1 DEF Before
  <2> QED BY <2>1, <2>2
<1>8. ChainInv'
  <2> SUFFICES ASSUME NEW h \in DOMAIN chain'
               PROVE  /\ chain'[h].after = Apply(Before(h)', chain'[h].tx, chain'[h].ok)
                      /\ chain'[h].ok => Possible(Before(h)'[chain'[h].tx.m], chain'[h].tx)
    BY DEF ChainInv, Apply, Possible, Effect
  <2> QED BY <1>0, <1>2, <1>7 DEF ChainInv
<1>9. LaneInv'
  <2>1. \A h \in DOMAIN chain', i \in DOMAIN lane' : Holds(h, i)' <=> Holds(h + 1, i + gone)
    BY <1>2, <1>5 DEF Holds
  <2>2. ASSUME NEW h \in DOMAIN chain', NEW j \in DOMAIN lane, Holds(h + 1, j)
        PROVE  j - gone \in DOMAIN lane' /\ Holds(h, j - gone)'
    <3>1. gone < j
      <4>1. CASE mined.own
        <5>1. Holds(1, 1) /\ 1 < h + 1
          BY <1>2, <1>4, <4>1
        <5>2. 1 < j
          BY <1>0, <1>2, <1>4, <2>2, <4>1, <5>1 DEF LaneInv
        <5> QED BY <1>5, <4>1, <5>2
      <4>2. CASE ~mined.own
        BY <1>0, <1>5, <4>2
      <4> QED BY <4>1, <4>2
    <3>2. j - gone \in DOMAIN lane' /\ lane'[j - gone] = lane[j]
      BY <1>0, <1>5, <3>1
    <3> QED BY <1>2, <2>2, <3>2 DEF Holds
  <2>3. \A i, j \in DOMAIN lane' : lane'[i] = lane'[j] => i = j
    <3> SUFFICES ASSUME NEW i \in DOMAIN lane', NEW j \in DOMAIN lane', lane'[i] = lane'[j] PROVE i = j
      OBVIOUS
    <3>1. i + gone = j + gone
      BY <1>0, <1>5 DEF LaneInv
    <3> QED BY <1>5, <3>1
  <2>4. \A h \in DOMAIN chain' : chain'[h].own => \E i \in DOMAIN lane' : Holds(h, i)'
    <3> SUFFICES ASSUME NEW h \in DOMAIN chain', chain'[h].own PROVE \E i \in DOMAIN lane' : Holds(h, i)'
      OBVIOUS
    <3>1. PICK j \in DOMAIN lane : Holds(h + 1, j)
      BY <1>0, <1>2 DEF LaneInv
    <3> QED BY <2>2, <3>1
  <2>5. \A g, h \in DOMAIN chain', i, j \in DOMAIN lane' :
          Holds(g, i)' /\ Holds(h, j)' /\ g < h => i < j
    <3> SUFFICES ASSUME NEW g \in DOMAIN chain', NEW h \in DOMAIN chain', NEW i \in DOMAIN lane',
                        NEW j \in DOMAIN lane', Holds(g, i)', Holds(h, j)', g < h
                 PROVE  i < j
      OBVIOUS
    <3>1. /\ Holds(g + 1, i + gone) /\ Holds(h + 1, j + gone) /\ g + 1 < h + 1
          /\ g + 1 \in DOMAIN chain /\ h + 1 \in DOMAIN chain
          /\ i + gone \in DOMAIN lane /\ j + gone \in DOMAIN lane
      BY <1>2, <1>5, <2>1
    <3>2. i + gone < j + gone
      BY <1>0, <3>1 DEF LaneInv
    <3> QED BY <1>5, <3>2
  <2>6. \A h \in DOMAIN chain', i, j \in DOMAIN lane' :
          Holds(h, j)' /\ i < j => \E g \in DOMAIN chain' : Holds(g, i)'
    <3> SUFFICES ASSUME NEW h \in DOMAIN chain', NEW i \in DOMAIN lane', NEW j \in DOMAIN lane',
                        Holds(h, j)', i < j
                 PROVE  \E g \in DOMAIN chain' : Holds(g, i)'
      OBVIOUS
    <3>1. Holds(h + 1, j + gone) /\ i + gone < j + gone
      BY <1>5, <2>1
    <3>2. PICK g \in DOMAIN chain : Holds(g, i + gone)
      BY <1>0, <1>2, <1>5, <3>1 DEF LaneInv
    <3>3. g # 1
      <4> SUFFICES ASSUME g = 1 PROVE FALSE
        OBVIOUS
      <4>1. mined.own /\ lane[1] = lane[i + gone] /\ 1 \in DOMAIN lane /\ gone = 1
        BY <1>4, <1>5, <3>2 DEF Holds
      <4>2. i + gone = 1
        BY <1>0, <1>5, <4>1 DEF LaneInv
      <4> QED BY <1>5, <4>1, <4>2
    <3>4. g - 1 \in DOMAIN chain' /\ (g - 1) + 1 = g
      BY <1>2, <3>3
    <3> QED BY <2>1, <3>2, <3>4
  <2> QED BY <2>3, <2>4, <2>5, <2>6 DEF LaneInv
<1>10. JobInv' /\ ClaimInv' /\ \A m \in Messages : Claimed(m)' <=> Claimed(m)
  <2>1. \A tx \in Range(lane') : tx \in Range(lane)
    BY <1>5 DEF Range
  <2> QED BY <1>1, <2>1, ChainKeeps
<1>11. OutcomeInv'
  <2> SUFFICES ASSUME NEW m \in Messages, outcomes[m] # None, outcomes[m] = final[m].state
               PROVE  final'[m] = final[m]
    BY <1>0, <1>1 DEF OutcomeInv
  <2>1. final[m].state \in Terminal
    BY <1>0 DEF StoreOK
  <2> QED BY <1>0, <1>1, <1>3, <2>1, TerminalStays
<1>12. OneDecisionPerNonce'
  <2> SUFFICES ASSUME NEW i \in DOMAIN lane', NEW j \in DOMAIN lane',
                      lane'[i].kind = "review", lane'[j].kind = "review",
                      lane'[i].m = lane'[j].m, lane'[i].nonce = lane'[j].nonce
               PROVE  i = j
    BY DEF OneDecisionPerNonce
  <2>1. i + gone = j + gone
    BY <1>5 DEF IInv, StoreInv, OneDecisionPerNonce
  <2> QED BY <1>5, <2>1
<1>13. BackInv'
  <2>1. PayersClaimed(final)' /\ \A h \in DOMAIN chain' : PayersClaimed(chain[h].after)'
    <3> SUFFICES PayersClaimed(final') /\ \A h \in DOMAIN chain' : PayersClaimed(chain'[h].after)
      BY <1>10 DEF PayersClaimed
    <3> QED BY <1>0, <1>1, <1>2 DEF BackInv
  <2>2. \A i \in DOMAIN lane' : AllowClaimed(lane[i])'
    <3> SUFFICES ASSUME NEW i \in DOMAIN lane' PROVE AllowClaimed(lane'[i])
      BY <1>1 DEF AllowClaimed, Claimed
    <3> QED BY <1>0, <1>5 DEF BackInv
  <2> QED BY <2>1, <2>2 DEF BackInv
<1> QED BY <1>6, <1>8, <1>9, <1>10, <1>11, <1>12, <1>13 DEF IInv, StoreInv

\* Rows whose blocks are gone are those mined last.
LEMMA ReorgNext == ASSUME IInv, NEW kept \in 0 .. MaxUnfinal, Reorg(kept) PROVE IInv'
<1>0. /\ StoreOK /\ BackInv /\ ChainInv /\ LaneInv /\ OutcomeInv /\ chain \in Seq(Mined)
      /\ Len(chain) \in Nat /\ lane \in Seq(Tx) /\ kept \in Nat /\ kept < Len(chain)
  BY OperatorAssumption DEF IInv, StoreInv, StoreOK, Reorg
<1>1. /\ UNCHANGED <<backing, final, queue, claims, outcomes, lane, job>>
      /\ chain' = SubSeq(chain, 1, kept)
  BY DEF Reorg, diskVars
<1>2. /\ chain' \in Seq(Mined) /\ DOMAIN chain = 1 .. Len(chain) /\ DOMAIN chain' = 1 .. kept
      /\ \A h \in DOMAIN chain' : h \in DOMAIN chain /\ chain'[h] = chain[h] /\ h \in Nat
  <2>1. /\ chain' \in Seq(Mined) /\ DOMAIN chain = 1 .. Len(chain) /\ DOMAIN chain' = 1 .. kept
        /\ \A h \in 1 .. kept : chain'[h] = chain[h]
    BY <1>0, <1>1
  <2>2. \A h \in 1 .. kept : h \in 1 .. Len(chain) /\ h \in Nat
    BY <1>0
  <2> QED BY <2>1, <2>2
<1>3. StoreOK'
  BY <1>0, <1>1, <1>2 DEF StoreOK
<1>4. ChainInv'
  <2>1. \A h \in DOMAIN chain' : Before(h)' = Before(h)
    BY <1>1, <1>2 DEF Before
  <2> SUFFICES ASSUME NEW h \in DOMAIN chain'
               PROVE  /\ chain'[h].after = Apply(Before(h)', chain'[h].tx, chain'[h].ok)
                      /\ chain'[h].ok => Possible(Before(h)'[chain'[h].tx.m], chain'[h].tx)
    BY DEF ChainInv, Apply, Possible, Effect
  <2> QED BY <1>0, <1>2, <2>1 DEF ChainInv
<1>5. LaneInv'
  <2>1. \A h \in DOMAIN chain', i \in DOMAIN lane : Holds(h, i)' <=> Holds(h, i)
    BY <1>1, <1>2 DEF Holds
  <2>2. \A h \in DOMAIN chain', i, j \in DOMAIN lane :
          Holds(h, j)' /\ i < j => \E g \in DOMAIN chain' : Holds(g, i)'
    <3> SUFFICES ASSUME NEW h \in DOMAIN chain', NEW i \in DOMAIN lane, NEW j \in DOMAIN lane,
                        Holds(h, j)', i < j
                 PROVE  \E g \in DOMAIN chain' : Holds(g, i)'
      OBVIOUS
    <3>1. h \in DOMAIN chain /\ Holds(h, j)
      BY <1>2, <2>1
    <3>2. PICK g \in DOMAIN chain : Holds(g, i)
      BY <1>0, <3>1 DEF LaneInv
    <3>3. ~(h < g)
      <4> SUFFICES ASSUME h < g PROVE FALSE
        OBVIOUS
      <4>1. j < i
        BY <1>0, <3>1, <3>2 DEF LaneInv
      <4> QED BY <1>0, <4>1
    <3>4. g \in DOMAIN chain'
      BY <1>0, <1>2, <3>3
    <3> QED BY <2>1, <3>2, <3>4
  <2> QED BY <1>0, <1>1, <1>2, <2>1, <2>2 DEF LaneInv
<1>6. JobInv' /\ ClaimInv' /\ \A m \in Messages : Claimed(m)' <=> Claimed(m)
  BY <1>1, ChainKeeps
<1>7. OutcomeInv' /\ OneDecisionPerNonce'
  BY <1>1 DEF IInv, StoreInv, OutcomeInv, OneDecisionPerNonce
<1>8. BackInv'
  <2>1. PayersClaimed(final)' /\ \A h \in DOMAIN chain' : PayersClaimed(chain[h].after)'
    <3> SUFFICES PayersClaimed(final') /\ \A h \in DOMAIN chain' : PayersClaimed(chain'[h].after)
      BY <1>6 DEF PayersClaimed
    <3> QED BY <1>0, <1>1, <1>2 DEF BackInv
  <2>2. \A i \in DOMAIN lane' : AllowClaimed(lane[i])'
    BY <1>0, <1>1 DEF BackInv, AllowClaimed, Claimed
  <2> QED BY <2>1, <2>2 DEF BackInv
<1> QED BY <1>3, <1>4, <1>5, <1>6, <1>7, <1>8 DEF IInv, StoreInv

\* A request joins the queue.
LEMMA RequestNext == ASSUME IInv, NEW m \in Messages, RequestArrives(m) PROVE IInv'
<1>1. /\ UNCHANGED <<backing, final, chain, claims, outcomes, lane, reverted, job>>
      /\ queue' = Append(queue, m) /\ queue \in Seq(Messages)
  BY DEF RequestArrives, chainVars, IInv, StoreInv, StoreOK
<1>2. queue' \in Seq(Messages)
  BY <1>1
<1>3. StoreOK'
  BY <1>1, <1>2 DEF IInv, StoreInv, StoreOK
<1>4. ChainInv' /\ LaneInv'
  BY <1>1 DEF IInv, StoreInv, ChainInv, Before, LaneInv, Holds
<1>5. OutcomeInv' /\ OneDecisionPerNonce' /\ ClaimInv'
  BY <1>1 DEF IInv, StoreInv, OutcomeInv, OneDecisionPerNonce, ClaimInv
<1>6. BackInv'
  BY <1>1 DEF IInv, StoreInv, BackInv, PayersClaimed, AllowClaimed, Claimed
<1>7. JobInv'
  BY <1>1 DEF IInv, JobInv, JobOk, Outstanding, Claimed
<1> QED BY <1>3, <1>4, <1>5, <1>6, <1>7 DEF IInv, StoreInv

LEMMA StartNext == ASSUME IInv, StartTick PROVE IInv'
<1> DEFINE t == [NoJob EXCEPT !.phase = "observe", !.todo = queue]
<1>1. queue \in Seq(Messages) /\ queue # <<>> /\ Continue(t)
  BY DEF StartTick, Continue, IInv, StoreInv, StoreOK
<1>2. NoJob \in Job /\ "observe" \in Phases
  BY NoJobOk DEF JobOk, Phases
<1>3. t \in Job /\ t.phase = "observe" /\ t.todo = queue /\ t.decision = "HOLD" /\ t.observed = <<>>
  <2>1. t \in Job
    BY <1>1, <1>2 DEF Job
  <2> QED BY <2>1 DEF NoJob
<1> HIDE DEF t
<1>4. JobOk(t)
  BY <1>1, <1>3 DEF JobOk
<1> QED BY <1>1, <1>4, ContinueStep

\* Evidence that verifies a release claims its burn, and only if nobody has.
LEMMA ObserveNext == ASSUME IInv, NEW evidence \in Evidence, Observe(evidence) PROVE IInv'
<1>1. /\ job \in Job /\ JobOk(job) /\ job.phase = "observe" /\ job.todo # <<>>
      /\ job.todo \in Seq(Messages) /\ job.observed \in Seq(Messages \X Evidence)
      /\ StoreOK /\ ClaimInv /\ BackInv
  BY DEF IInv, StoreInv, JobInv, JobOk, Job, Observe
<1>2. PICK m \in Messages : m = Head(job.todo)
  BY <1>1
<1>3. PICK phase \in Phases, b \in BOOLEAN :
        /\ job' = [job EXCEPT !.todo = Tail(@), !.observed = Append(@, <<m, evidence>>),
                              !.phase = phase, !.blocked = b]
        /\ phase = IF Len(job.todo) > 1 THEN "observe" ELSE "read"
  <2>1. (IF Len(job.todo) > 1 THEN "observe" ELSE "read") \in Phases
    BY DEF Phases
  <2>2. (Len(job.todo) = 1 /\ Unmined # {}) \in BOOLEAN
    BY Zenon
  <2> QED BY <1>2, <2>1, <2>2, Zenon DEF Observe
<1>4. /\ evidence = "verified" => Claimable(m)
      /\ claims' = IF evidence = "verified" THEN [claims EXCEPT ![m] = backing[m]] ELSE claims
      /\ UNCHANGED <<backing, final, chain, queue, outcomes, lane, reverted>>
  BY <1>2 DEF Observe, chainVars
<1>5. StoreOK'
  BY <1>1, <1>4 DEF StoreOK
<1>6. ClaimInv' /\ \A x \in Messages : Claimed(x) => Claimed(x)'
  BY <1>1, <1>4 DEF ClaimInv, Claimed, Claimable, StoreOK
<1>7. evidence = "verified" => Claimed(m)'
  BY <1>1, <1>4 DEF Claimed, Claimable, StoreOK
<1>8. ChainInv' /\ LaneInv'
  BY <1>4 DEF IInv, StoreInv, ChainInv, Before, LaneInv, Holds
<1>9. OutcomeInv' /\ OneDecisionPerNonce'
  BY <1>4 DEF IInv, StoreInv, OutcomeInv, OneDecisionPerNonce
<1>10. BackInv'
  <2>1. PayersClaimed(final)' /\ \A h \in DOMAIN chain' : PayersClaimed(chain[h].after)'
    BY <1>1, <1>4, <1>6 DEF BackInv, PayersClaimed
  <2>2. \A i \in DOMAIN lane' : AllowClaimed(lane[i])'
    <3> SUFFICES ASSUME NEW i \in DOMAIN lane PROVE AllowClaimed(lane[i])'
      BY <1>4
    <3>1. lane[i] \in Tx /\ lane[i].m \in Messages
      BY <1>1 DEF StoreOK, Tx
    <3> QED BY <1>1, <1>4, <1>6, <3>1 DEF BackInv, AllowClaimed
  <2> QED BY <2>1, <2>2 DEF BackInv
<1>11. JobInv'
  <2>0. PICK seen : seen = Append(job.observed, <<m, evidence>>)
    OBVIOUS
  <2>1. /\ seen \in Seq(Messages \X Evidence) /\ seen # <<>>
        /\ \A i \in DOMAIN seen : seen[i] = <<m, evidence>> \/ (i \in DOMAIN job.observed /\ seen[i] = job.observed[i])
    BY <1>1, <2>0
  <2>2. /\ Tail(job.todo) \in Seq(Messages) /\ (phase = "observe" => Tail(job.todo) # <<>>)
        /\ phase \in {"observe", "read"}
    BY <1>1, <1>3, TailOf
  <2>3. job' = [job EXCEPT !.todo = Tail(job.todo), !.observed = seen, !.phase = phase, !.blocked = b]
    BY <1>3, <2>0
  <2>4. /\ job' \in Job /\ job'.phase = phase /\ job'.todo = Tail(job.todo) /\ job'.observed = seen
        /\ job'.decision = "HOLD"
    BY <1>1, <2>1, <2>2, <2>3 DEF Job, JobOk
  <2>5. \A i \in DOMAIN seen : seen[i][2] = "verified" => Claimed(seen[i][1])'
    <3> SUFFICES ASSUME NEW i \in DOMAIN seen, seen[i][2] = "verified" PROVE Claimed(seen[i][1])'
      BY <2>4
    <3>1. CASE seen[i] = <<m, evidence>>
      BY <1>7, <2>4, <3>1 DEF Claimed
    <3>2. CASE i \in DOMAIN job.observed /\ seen[i] = job.observed[i]
      <4>1. job.observed[i] \in Messages \X Evidence /\ Claimed(job.observed[i][1])
        BY <1>1, <3>2 DEF JobOk
      <4>2. job.observed[i][1] \in Messages
        BY <4>1
      <4> QED BY <1>6, <3>2, <4>1, <4>2 DEF Claimed
    <3> QED BY <2>1, <3>1, <3>2
  <2> QED BY <2>1, <2>2, <2>4, <2>5 DEF JobInv, JobOk
<1> QED BY <1>5, <1>6, <1>8, <1>9, <1>10, <1>11 DEF IInv, StoreInv

\* What is acknowledged is terminal in the finalized block.
LEMMA AcknowledgeNext == ASSUME IInv, Acknowledge PROVE IInv'
<1>1. /\ job.phase \notin {"idle", "observe"}
      /\ latest[Current].state \in Terminal /\ final[Current].state = latest[Current].state
      /\ outcomes' = [outcomes EXCEPT ![Current] = final[Current].state]
      /\ Dequeued(Current) /\ job' = Advanced
      /\ UNCHANGED <<backing, final, chain, claims, lane, reverted>>
  BY DEF Acknowledge, chainVars
<1>2. Current \in Messages /\ JobOk(Advanced) /\ StoreOK
  BY <1>1, CurrentType, AdvancedOk DEF IInv, StoreInv
<1>3. queue' \in Seq(Messages)
  <2>1. PICK i \in DOMAIN queue : queue' = RemoveAt(queue, i)
    BY <1>1 DEF Dequeued
  <2>2. queue \in Seq(Messages) /\ i \in 1 .. Len(queue) /\ Len(queue) \in Nat
    BY <1>2, <2>1 DEF StoreOK
  <2>3. SubSeq(queue, 1, i - 1) \in Seq(Messages) /\ SubSeq(queue, i + 1, Len(queue)) \in Seq(Messages)
    BY <2>2
  <2> QED BY <2>1, <2>3 DEF RemoveAt
<1>4. StoreOK'
  BY <1>1, <1>2, <1>3 DEF StoreOK
<1>5. OutcomeInv'
  BY <1>1, <1>2 DEF IInv, StoreInv, StoreOK, OutcomeInv
<1>6. ChainInv' /\ LaneInv'
  BY <1>1 DEF IInv, StoreInv, ChainInv, Before, LaneInv, Holds
<1>7. OneDecisionPerNonce' /\ ClaimInv'
  BY <1>1 DEF IInv, StoreInv, OneDecisionPerNonce, ClaimInv
<1>8. BackInv'
  BY <1>1 DEF IInv, StoreInv, BackInv, PayersClaimed, AllowClaimed, Claimed
<1>9. JobInv'
  BY <1>1, <1>2 DEF JobInv, JobOk, Outstanding, Claimed
<1> QED BY <1>4, <1>5, <1>6, <1>7, <1>8, <1>9 DEF IInv, StoreInv

-----------------------------------------------------------------------------
(* handle.                                                                 *)

\* Further with the release at hand: a decision taken before, or one that the
\* evidence allows.
LEMMA GoesOn ==
  ASSUME JobInv, job.phase \notin {"idle", "observe"}, NEW t \in Job, t.observed = job.observed,
         t.phase \notin {"observe", "idle"},
         t.phase = "send" => ~Outstanding("review", Current, t.nonce),
         t.decision = "ALLOW" => job.decision = "ALLOW" \/ Seen = "verified"
  PROVE  JobOk(t)
<1>1. job.observed # <<>> /\ (Seen = "verified" => Claimed(Current))
  BY CurrentType
<1>2. t.decision = "ALLOW" => Claimed(Head(t.observed)[1])
  BY <1>1 DEF JobInv, JobOk, Current
<1> QED BY <1>1, <1>2 DEF JobInv, JobOk, Current

\* Reading a release: it is left for later, returned, or judged.
LEMMA ReadNext ==
  ASSUME IInv,
         \/ ReadAndWait \/ ReadReturning \/ NotYetFinal
         \/ \E decision \in Decisions, lapsed \in BOOLEAN : ReadAndDecide(decision, lapsed)
  PROVE  IInv'
<1>0. /\ JobInv /\ job \in Job /\ job.phase \notin {"idle", "observe"} /\ JobOk(Advanced)
      /\ Seen \in Evidence
  <2>1. JobInv /\ job.phase \notin {"idle", "observe"}
    BY DEF IInv, ReadAndWait, ReadReturning, NotYetFinal, ReadAndDecide
  <2> QED BY <2>1, CurrentType, AdvancedOk DEF JobInv, JobOk
<1>1. CASE ReadAndWait \/ NotYetFinal
  BY <1>0, <1>1, ContinueStep DEF ReadAndWait, NotYetFinal
<1>2. CASE ReadReturning
  <2> DEFINE t == [job EXCEPT !.phase = "return"]
  <2>1. t \in Job /\ t.phase = "return" /\ t.observed = job.observed /\ t.decision = job.decision
    BY <1>0 DEF Job, Phases
  <2>2. Continue(t)
    BY <1>2 DEF ReadReturning
  <2> HIDE DEF t
  <2>3. JobOk(t)
    BY <1>0, <2>1, GoesOn
  <2> QED BY <2>2, <2>3, ContinueStep
<1>3. ASSUME NEW decision \in Decisions, NEW lapsed \in BOOLEAN, ReadAndDecide(decision, lapsed)
      PROVE  IInv'
  <2>1. PICK allowed \in BOOLEAN :
          Continue(IF latest[Current].state = "REJECTED" /\ ~(decision = "ALLOW" /\ lapsed)
                   THEN Advanced
                   ELSE [job EXCEPT !.phase = "protect", !.decision = decision, !.allowed = allowed])
    <3>1. (latest[Current].state = "VERIFIED") \in BOOLEAN
      BY Zenon
    <3> QED BY <1>3, <3>1, Zenon DEF ReadAndDecide
  <2> DEFINE t == [job EXCEPT !.phase = "protect", !.decision = decision, !.allowed = allowed]
  <2>2. t \in Job /\ t.phase = "protect" /\ t.observed = job.observed /\ t.decision = decision
    BY <1>0 DEF Job, Phases
  <2>3. Continue(Advanced) \/ Continue(t)
    BY <2>1
  <2> HIDE DEF t
  <2>4. decision = "ALLOW" => Seen = "verified"
    BY <1>3 DEF ReadAndDecide, Verdicts
  <2>5. JobOk(t)
    BY <1>0, <2>2, <2>4, GoesOn
  <2> QED BY <1>0, <2>3, <2>5, ContinueStep
<1> QED BY <1>1, <1>2, <1>3

\* Between the verdict and the review: the decision stays or becomes a hold,
\* and the nonce is one that no review in the lane has.
LEMMA DecideNext ==
  ASSUME IInv,
         \/ \E submitted, delayed \in BOOLEAN : Protect(submitted, delayed)
         \/ \E screening \in {"passed", "held", "retry"} : ReadNonce(screening)
         \/ Reviewed
  PROVE  IInv'
<1>0. /\ JobInv /\ job \in Job /\ job.phase \notin {"idle", "observe"} /\ JobOk(Advanced)
      /\ Current \in Messages /\ job.decision \in Decisions
  <2>1. JobInv /\ job.phase \notin {"idle", "observe"}
    BY DEF IInv, Protect, ReadNonce, Reviewed
  <2> QED BY <2>1, CurrentType, AdvancedOk DEF JobInv, JobOk, Job
<1>1. ASSUME NEW submitted \in BOOLEAN, NEW delayed \in BOOLEAN, Protect(submitted, delayed)
      PROVE  IInv'
  <2>1. PICK allowed \in BOOLEAN :
          Continue(Advanced) \/ Continue([job EXCEPT !.phase = "review", !.allowed = allowed])
    <3>1. FALSE \in BOOLEAN
      OBVIOUS
    <3> QED BY <1>1, <3>1, Zenon DEF Protect
  <2> DEFINE t == [job EXCEPT !.phase = "review", !.allowed = allowed]
  <2>2. t \in Job /\ t.phase = "review" /\ t.observed = job.observed /\ t.decision = job.decision
    BY <1>0 DEF Job, Phases
  <2>3. Continue(Advanced) \/ Continue(t)
    BY <2>1
  <2> HIDE DEF t
  <2>4. JobOk(t)
    BY <1>0, <2>2, GoesOn
  <2> QED BY <1>0, <2>3, <2>4, ContinueStep
<1>2. ASSUME NEW screening \in {"passed", "held", "retry"}, ReadNonce(screening)
      PROVE  IInv'
  <2>1. PICK nonce : nonce = latest[Current].nonce + 1
    OBVIOUS
  <2>2. nonce \in Nat
    BY <1>0, <2>1, LatestType DEF IInv, StoreInv, Release
  <2>3. PICK decision \in {"HOLD", job.decision} :
          \/ Continue(Advanced)
          \/ /\ ~Outstanding("review", Current, nonce)
             /\ Continue([job EXCEPT !.phase = "send", !.nonce = nonce, !.decision = decision])
    BY <1>2, <2>1 DEF ReadNonce
  <2> DEFINE t == [job EXCEPT !.phase = "send", !.nonce = nonce, !.decision = decision]
  <2>4. /\ t \in Job /\ t.phase = "send" /\ t.observed = job.observed /\ t.decision = decision
        /\ t.nonce = nonce
    BY <1>0, <2>2 DEF Job, Phases, Decisions
  <2>5. Continue(Advanced) \/ (~Outstanding("review", Current, nonce) /\ Continue(t))
    BY <2>3
  <2> HIDE DEF t
  <2>6. CASE Continue(Advanced)
    BY <1>0, <2>6, ContinueStep
  <2>7. CASE ~Outstanding("review", Current, nonce) /\ Continue(t)
    <3>1. JobOk(t)
      BY <1>0, <2>4, <2>7, GoesOn
    <3> QED BY <2>7, <3>1, ContinueStep
  <2> QED BY <2>5, <2>6, <2>7
<1>3. CASE Reviewed
  <2> DEFINE t == [job EXCEPT !.phase = "execute", !.decision = "HOLD"]
  <2>1. t \in Job /\ t.phase = "execute" /\ t.observed = job.observed /\ t.decision = "HOLD"
    BY <1>0 DEF Job, Phases, Decisions
  <2>2. Continue(Advanced) \/ Continue(t)
    BY <1>3 DEF Reviewed
  <2> HIDE DEF t
  <2>3. JobOk(t)
    BY <1>0, <2>1, GoesOn
  <2> QED BY <1>0, <2>2, <2>3, ContinueStep
<1> QED BY <1>1, <1>2, <1>3

\* A review, a payout or a return is journaled or awaited.
LEMMA SendNext ==
  ASSUME IInv, Review \/ ReturnCredit \/ \E executable \in BOOLEAN : Execute(executable)
  PROVE  IInv'
<1>0. /\ JobInv /\ JobOk(job) /\ job \in Job /\ job.phase \notin {"idle", "observe"} /\ JobOk(Advanced)
      /\ Current \in Messages /\ job.decision \in Decisions /\ job.nonce \in Nat
  <2>1. JobInv /\ job.phase \notin {"idle", "observe"}
    BY DEF IInv, Review, ReturnCredit, Execute
  <2> QED BY <2>1, CurrentType, AdvancedOk DEF JobInv, JobOk, Job
<1>1. CASE Review
  <2> DEFINE t == [job EXCEPT !.phase = "reviewed"]
  <2> DEFINE tx == [kind |-> "review", m |-> Current, nonce |-> job.nonce, decision |-> job.decision]
  <2>1. t \in Job /\ t.phase = "reviewed" /\ t.observed = job.observed /\ t.decision = job.decision
    BY <1>0 DEF Job, Phases
  <2>2. tx \in Tx /\ tx.m = Current /\ tx.nonce = job.nonce /\ tx.decision = job.decision
    BY <1>0 DEF Tx
  <2>3. Send(tx, t) /\ job.phase = "send"
    BY <1>1 DEF Review
  <2> HIDE DEF t, tx
  <2>4. JobOk(t) /\ t.phase # "send"
    BY <1>0, <2>1, GoesOn
  <2>5. ~Outstanding("review", tx.m, tx.nonce) /\ AllowClaimed(tx)
    BY <1>0, <2>2, <2>3 DEF JobOk, Current, AllowClaimed
  <2> QED BY <2>2, <2>3, <2>4, <2>5, SendStep
<1>2. ASSUME NEW tx \in Tx, tx.kind # "review",
             NEW t \in Job, t.observed = job.observed, t.phase = "acknowledge",
             t.decision = job.decision, Send(tx, t)
      PROVE  IInv'
  <2>1. JobOk(t)
    BY <1>0, <1>2, GoesOn
  <2>2. AllowClaimed(tx)
    BY <1>2 DEF AllowClaimed
  <2> QED BY <1>2, <2>1, <2>2, SendStep
<1>3. CASE ReturnCredit
  <2> DEFINE t == [job EXCEPT !.phase = "acknowledge"]
  <2> DEFINE tx == [kind |-> "return", m |-> Current, nonce |-> 0, decision |-> None]
  <2>1. t \in Job /\ t.phase = "acknowledge" /\ t.observed = job.observed /\ t.decision = job.decision
    BY <1>0 DEF Job, Phases
  <2>2. tx \in Tx /\ tx.kind = "return"
    BY <1>0 DEF Tx
  <2>3. Continue(Advanced) \/ Send(tx, t)
    BY <1>3 DEF ReturnCredit
  <2> HIDE DEF t, tx
  <2> QED BY <1>0, <1>2, <2>1, <2>2, <2>3, ContinueStep
<1>4. ASSUME NEW executable \in BOOLEAN, Execute(executable)
      PROVE  IInv'
  <2>1. PICK nonce : nonce = latest[Current].nonce
    OBVIOUS
  <2>2. nonce \in Nat
    BY <1>0, <2>1, LatestType DEF IInv, StoreInv, Release
  <2> DEFINE t == [job EXCEPT !.phase = "acknowledge", !.nonce = nonce]
  <2> DEFINE tx == Payout(Current, nonce)
  <2>3. t \in Job /\ t.phase = "acknowledge" /\ t.observed = job.observed /\ t.decision = job.decision
    BY <1>0, <2>2 DEF Job, Phases
  <2>4. tx \in Tx /\ tx.kind = "execute"
    BY <1>0, <2>2 DEF Tx, Payout
  <2>5. Continue(Advanced) \/ Send(tx, t)
    BY <1>4, <2>1 DEF Execute
  <2> HIDE DEF t, tx
  <2> QED BY <1>0, <1>2, <2>3, <2>4, <2>5, ContinueStep
<1> QED BY <1>1, <1>3, <1>4

-----------------------------------------------------------------------------
(* The theorems.                                                           *)

LEMMA InitHolds == Init => IInv
<1> SUFFICES ASSUME Init PROVE IInv
  OBVIOUS
<1>1. /\ backing \in [Messages -> Burns \union {None}] /\ chain = <<>> /\ queue = <<>> /\ lane = <<>>
      /\ final = [m \in Messages |-> [state |-> "PENDING", nonce |-> 0, returning |-> FALSE]]
      /\ claims = [m \in Messages |-> None] /\ outcomes = [m \in Messages |-> None]
      /\ job = NoJob
  BY DEF Init
<1>2. final \in [Messages -> Release] /\ \A m \in Messages : final[m].state = "PENDING"
  BY <1>1 DEF Release, ReleaseStates
<1>3. /\ claims \in [Messages -> Burns \union {None}] /\ outcomes \in [Messages -> Terminal \union {None}]
      /\ \A m \in Messages : claims[m] = None /\ outcomes[m] = None
  BY <1>1
<1>4. StoreOK
  BY <1>1, <1>2, <1>3 DEF StoreOK
<1>5. ChainInv /\ LaneInv /\ OneDecisionPerNonce
  BY <1>1 DEF ChainInv, LaneInv, OneDecisionPerNonce
<1>6. OutcomeInv /\ ClaimInv
  BY <1>3 DEF OutcomeInv, ClaimInv
<1>7. BackInv
  BY <1>1, <1>2 DEF BackInv, PayersClaimed
<1>8. JobInv
  BY <1>1, NoJobOk DEF JobInv
<1> QED BY <1>4, <1>5, <1>6, <1>7, <1>8 DEF IInv, StoreInv

LEMMA StepHolds == IInv /\ [Next]_ovars => IInv'
<1> SUFFICES ASSUME IInv, [Next]_ovars PROVE IInv'
  OBVIOUS
<1>1. CASE \E ok \in BOOLEAN : MineOwn(ok)
  BY <1>1, MineOwnNext
<1>2. CASE \E m \in Messages, kind \in {"execute", "return", "request"} : MineOther(m, kind)
  BY <1>2, MineOtherNext
<1>3. CASE Finalize
  BY <1>3, FinalizeNext
<1>4. CASE \E kept \in 0 .. MaxUnfinal : Reorg(kept)
  BY <1>4, ReorgNext
<1>5. CASE \E m \in Messages : RequestArrives(m)
  BY <1>5, RequestNext
<1>6. CASE StartTick
  BY <1>6, StartNext
<1>7. CASE \E evidence \in Evidence : Observe(evidence)
  BY <1>7, ObserveNext
<1>8. CASE \/ ReadAndWait \/ ReadReturning \/ NotYetFinal
           \/ \E decision \in Decisions, lapsed \in BOOLEAN : ReadAndDecide(decision, lapsed)
  BY <1>8, ReadNext
<1>9. CASE \/ \E submitted, delayed \in BOOLEAN : Protect(submitted, delayed)
           \/ \E screening \in {"passed", "held", "retry"} : ReadNonce(screening)
           \/ Reviewed
  BY <1>9, DecideNext
<1>10. CASE Review \/ ReturnCredit \/ \E executable \in BOOLEAN : Execute(executable)
  BY <1>10, SendNext
<1>11. CASE Acknowledge
  BY <1>11, AcknowledgeNext
<1>12. CASE SendThrows \/ Interrupted
  BY <1>12, NoJobOk, ContinueStep DEF SendThrows, Interrupted
<1>13. CASE UNCHANGED ovars
  <2>1. Continue(job) /\ JobOk(job)
    BY <1>13 DEF ovars, Continue, IInv, JobInv
  <2> QED BY <2>1, ContinueStep
<1> QED
  BY <1>1, <1>2, <1>3, <1>4, <1>5, <1>6, <1>7, <1>8, <1>9, <1>10, <1>11, <1>12, <1>13
  DEF Next, Chain, Tick, Handle

THEOREM OperatorHolds == Spec => []IInv
  BY InitHolds, StepHolds, PTL DEF Spec

\* One burn pays one release and nothing is paid without one: saveSourceProof
\* refuses a claimed burn, and no ALLOW survives in job, lane or block whose
\* release has not the claim.
THEOREM BurnsPayOnce == Spec => []BackedOnce
<1>1. IInv => BackedOnce
  <2> SUFFICES ASSUME IInv PROVE BackedOnce
    OBVIOUS
  <2>1. StoreOK /\ ClaimInv /\ PayersClaimed(latest)
    BY LatestClaimed DEF IInv, StoreInv
  <2>2. ASSUME NEW m \in Paid PROVE m \in Messages /\ claims[m] # None /\ claims[m] = backing[m]
    BY <2>1 DEF Paid, PayersClaimed, Claimed
  <2> QED BY <2>1, <2>2 DEF BackedOnce, ClaimInv
<1> QED BY <1>1, OperatorHolds, PTL

\* An outcome on record is that of the finalized block, and no block to come
\* changes it: the vault refuses every step of a terminal release.
THEOREM OutcomesStay == Spec => []OutcomesFinal
<1>1. IInv => OutcomesFinal
  BY LatestType DEF IInv, StoreInv, StoreOK, OutcomeInv, JobInv, JobOk, OutcomesFinal, OperatorTypeOK
<1> QED BY <1>1, OperatorHolds, PTL

\* No two reviews of a release stand in the lane for one nonce, although the
\* nonce was read at a head that a reorg may have taken back since.
THEOREM DecisionsDoNotCompete == Spec => []OneDecisionPerNonce
<1>1. IInv => OneDecisionPerNonce
  BY DEF IInv, StoreInv
<1> QED BY <1>1, OperatorHolds, PTL
==============================================================================
