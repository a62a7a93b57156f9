------------------------- MODULE DurableSenderProofs -------------------------
(***************************************************************************)
(* The sender for any operations, bounds, forks and crashes: its journal   *)
(* is ahead of the network, what it calls final is final, an operation     *)
(* takes effect once, and with nodes that keep what a reorg returned no    *)
(* nonce is signed twice.                                                  *)
(*                                                                         *)
(* The argument: a hash is one block for good (a fork is built on once),   *)
(* so a receipt that was true when it was read is still true of whatever   *)
(* canonical block has its hash when it is used, however much later; and   *)
(* the task only ever writes what such a receipt and the chain of that     *)
(* moment say.                                                             *)
(***************************************************************************)
EXTENDS SenderHistory, SequenceTheorems, TLAPS

\* A block's hash tells its height and a fork begun already, and its
\* transaction has the nonce of that height.
BlockOf(h) ==
    /\ chain[h].hash[1] = h
    /\ chain[h].hash[2] <= reorgs
    /\ NonceOf(chain[h].tx) = h - 1

ChainInv == \A h \in DOMAIN chain : BlockOf(h)

\* What the receipt says of operation id is so if its block is canonical, and
\* no block yet to come can have its hash.
Truthful(id, receipt) ==
    /\ \A h \in DOMAIN chain : chain[h].hash = receipt.hash =>
         chain[h].tx = <<id, receipt.version>> /\ chain[h].ok = receipt.ok
    /\ receipt.hash[2] <= reorgs
    /\ receipt.hash[2] = reorgs => receipt.hash[1] <= Len(chain)

\* Every earlier attempt of the operation has reverted, finally.
Retried(id) == \A j \in Attempts : j < id[2] => journal[<<id[1], j>>].status = "reverted"

JournalInv ==
    /\ \A id \in Ids : Truthful(id, journal[id].receipt)
    /\ \A id \in Ids : Journaled(id) => Retried(id)
    /\ \A i \in DOMAIN rows : Journaled(rows[i])
    /\ \A id \in Ids : journal[id].receipt # NoReceipt <=> Journaled(id) /\ ~Outstanding(id)

\* What a task holds in memory is so in this state:
\* what it has to do,
TaskHolds(t) ==
    /\ t.step \notin {"idle", "allocate"} => t.todo # <<>>
    /\ t.step = "allocate" => t.goal # <<>>
    /\ \A i \in DOMAIN t.todo : Journaled(t.todo[i])
    /\ t.goal # <<>> => ~Journaled(t.goal) /\ Retried(t.goal)
    /\ t.todo # <<>> => Truthful(Head(t.todo), t.found)

\* and how far it is with the first of it: a row known as included is settled
\* by the very receipt it was recorded with, or is outstanding again.
TaskAt(t) ==
    /\ t.step = "anchor" => journal[Head(t.todo)].status = "included"
    /\ t.step \in {"publish", "wait", "replace", "republish"} => Outstanding(Head(t.todo))
    /\ t.step \in {"finish", "head", "recheck"} =>
         /\ t.found # NoReceipt
         /\ \/ Outstanding(Head(t.todo))
            \/ /\ journal[Head(t.todo)].status = "included"
               /\ journal[Head(t.todo)].receipt = t.found
    /\ t.step = "recheck" => HeightOf(t.found) <= finalHeight

TaskOk(t) == TaskHolds(t) /\ TaskAt(t)

TaskInv == TaskOk(task)

IInv == JournalAhead /\ ChainInv /\ JournalInv /\ TaskInv /\ TerminalIsFinal

\* Nodes hold some version of an operation.
Held(id) == \E v \in Versions : <<id, v>> \in pool \union OnChain

\* That is so of whatever was included once, or is about to be saved as that.
KeptInv ==
    /\ \A id \in Ids : Journaled(id) /\ ~Outstanding(id) => Held(id)
    /\ task.step \in {"head", "recheck"} => Held(Current)

NonceInv == IInv /\ NonceUnshared /\ KeptInv

-----------------------------------------------------------------------------
(* Tasks.                                                                  *)

LEMMA NoJobIsEmpty == <<>> \notin Ids
  BY DEF Ids

\* The bounds of an attempt and of a bump are numbers.
LEMMA Bounds == MaxAttempts \in Nat \ {0} /\ MaxReplacements \in Nat /\ MaxReorgs \in Nat
  BY SenderAssumption

\* No block has NoReceipt's hash.
LEMMA NothingReadIsTruthful ==
  ASSUME SenderTypeOK, ChainInv, NEW id
  PROVE  Truthful(id, NoReceipt)
<1>1. NoReceipt.hash[1] = 0 /\ NoReceipt.hash[2] = 0
  BY DEF NoReceipt, NoBlock
<1>2. reorgs \in Nat /\ Len(chain) \in Nat /\ chain \in Seq(Block)
  BY Bounds DEF SenderTypeOK
<1>3. ASSUME NEW h \in DOMAIN chain, chain[h].hash = NoReceipt.hash PROVE FALSE
  BY <1>1, <1>2, <1>3 DEF ChainInv, BlockOf
<1> QED BY <1>1, <1>2, <1>3 DEF Truthful

LEMMA IdleOk == Idle \in Task /\ TaskOk(Idle)
  BY DEF Idle, Task, TaskOk, TaskHolds, TaskAt, Steps

\* What is read of a canonical block is truthful.
LEMMA ReadIsTruthful ==
  ASSUME SenderTypeOK, ChainInv, NEW id \in Ids, NEW found \in Receipts(id) \union {NoReceipt}
  PROVE  found \in Receipt \union {NoReceipt} /\ Truthful(id, found)
<1>1. CASE found = NoReceipt
  BY <1>1, NothingReadIsTruthful
<1>2. CASE found \in Receipts(id)
  <2>1. PICK k \in DOMAIN chain : chain[k].tx[1] = id /\ found = ReceiptOf(chain[k])
    BY <1>2 DEF Receipts
  <2>2. chain \in Seq(Block) /\ chain[k] \in Block /\ k \in 1 .. Len(chain)
    BY DEF SenderTypeOK
  <2>3. /\ found.version = chain[k].tx[2] /\ found.hash = chain[k].hash /\ found.ok = chain[k].ok
        /\ found \in Receipt
    BY <2>1, <2>2 DEF ReceiptOf, Block, Txs, Receipt
  <2>4. chain[k].tx = <<id, found.version>>
    BY <2>1, <2>2, <2>3 DEF Block, Txs
  <2>5. BlockOf(k) /\ \A h \in DOMAIN chain : BlockOf(h)
    BY DEF ChainInv
  <2>6. ASSUME NEW h \in DOMAIN chain, chain[h].hash = found.hash PROVE h = k
    BY <2>3, <2>5, <2>6 DEF BlockOf
  <2>7. \A h \in DOMAIN chain : chain[h].hash = found.hash =>
          chain[h].tx = <<id, found.version>> /\ chain[h].ok = found.ok
    BY <2>3, <2>4, <2>6
  <2>8. found.hash[2] <= reorgs /\ found.hash[1] = k /\ k <= Len(chain)
    BY <2>2, <2>3, <2>5 DEF BlockOf
  <2> QED BY <2>3, <2>7, <2>8 DEF Truthful
<1> QED BY <1>1, <1>2

\* The task once its first operation is settled.
LEMMA SettledOk ==
  ASSUME IInv, task.todo # <<>>
  PROVE  Settled \in Task /\ TaskOk(Settled)
<1>1. /\ task \in Task /\ TaskOk(task) /\ SenderTypeOK /\ ChainInv
      /\ Tail(task.todo) \in Seq(Ids)
      /\ \A i \in DOMAIN Tail(task.todo) : Tail(task.todo)[i] = task.todo[i + 1] /\ i + 1 \in DOMAIN task.todo
  BY DEF IInv, TaskInv, JournalAhead, SenderTypeOK, Task
<1>2. /\ Settled \in Task /\ Settled.todo = Tail(task.todo) /\ Settled.goal = task.goal
      /\ Settled.found = NoReceipt
      /\ Settled.step = IF Tail(task.todo) # <<>> THEN "settle"
                        ELSE IF task.goal # <<>> THEN "allocate" ELSE "idle"
  BY <1>1 DEF Settled, Task, Steps
<1> HIDE DEF Settled
<1>3. \A i \in DOMAIN Settled.todo : Journaled(Settled.todo[i])
  BY <1>1, <1>2 DEF TaskOk, TaskHolds, TaskAt
<1>4. Truthful(Head(Settled.todo), Settled.found)
  BY <1>1, <1>2, NothingReadIsTruthful
<1>5. Settled.goal # <<>> => ~Journaled(Settled.goal) /\ Retried(Settled.goal)
  BY <1>1, <1>2 DEF TaskOk, TaskHolds, TaskAt
<1> QED BY <1>2, <1>3, <1>4, <1>5 DEF TaskOk, TaskHolds, TaskAt

\* A step of the task that writes nothing.
LEMMA TaskStep ==
  ASSUME IInv, UNCHANGED <<journal, rows, chainVars>>, quarantined' \in BOOLEAN,
         NEW t \in Task, TaskOk(t), task' = t
  PROVE  IInv'
<1>1. JournalAhead'
  BY DEF IInv, JournalAhead, SenderTypeOK, WriteAhead, chainVars, OnChain, Journaled
<1>2. ChainInv'
  BY DEF IInv, ChainInv, BlockOf, NonceOf, chainVars
<1>3. JournalInv'
  BY DEF IInv, JournalInv, Truthful, Journaled, Outstanding, Retried, chainVars
<1>4. TaskInv'
  BY DEF TaskInv, TaskOk, TaskHolds, TaskAt, Truthful, Journaled, Outstanding, Retried, chainVars
<1>5. TerminalIsFinal'
  BY DEF IInv, TerminalIsFinal, Terminal, chainVars
<1> QED BY <1>1, <1>2, <1>3, <1>4, <1>5 DEF IInv

\* The operation at hand is one of the journal.
LEMMA CurrentIsJournaled ==
  ASSUME IInv, task.step \notin {"idle", "allocate"}
  PROVE  /\ task.todo # <<>> /\ Current \in Ids /\ Journaled(Current)
         /\ journal[Current] \in TransactionState
         /\ Truthful(Current, task.found)
<1>1. /\ task \in Task /\ TaskOk(task) /\ journal \in [Ids -> TransactionState]
  BY DEF IInv, TaskInv, JournalAhead, SenderTypeOK
<1>2. task.todo # <<>> /\ task.todo \in Seq(Ids) /\ 1 \in DOMAIN task.todo /\ Current = task.todo[1]
  BY <1>1 DEF TaskOk, TaskHolds, TaskAt, Task, Current
<1> QED BY <1>1, <1>2 DEF TaskOk, TaskHolds, TaskAt, Current

\* A task begins with the journal's rows or one of them.
LEMMA BeginNext ==
  ASSUME IInv, recover \/ Interrupt \/ FinalityConflict \/ \E id \in Ids : send(id) \/ resend(id)
  PROVE  IInv'
<1>0. /\ task \in Task /\ TaskOk(task) /\ SenderTypeOK /\ JournalInv /\ ChainInv
      /\ rows \in Seq(Ids) /\ journal \in [Ids -> TransactionState] /\ quarantined \in BOOLEAN
  BY DEF IInv, TaskInv, JournalAhead, SenderTypeOK
<1>1. CASE Interrupt
  BY <1>0, <1>1, IdleOk, TaskStep DEF Interrupt, journalVars
<1>2. CASE FinalityConflict
  BY <1>0, <1>2, IdleOk, TaskStep DEF FinalityConflict
<1>3. CASE recover
  <2> DEFINE t == [Idle EXCEPT !.step = "settle", !.todo = rows]
  <2>1. /\ t \in Task /\ t.step = "settle" /\ t.todo = rows /\ t.goal = <<>> /\ t.found = NoReceipt
        /\ rows # <<>>
    BY <1>0, <1>3 DEF recover, Idle, Task, Steps
  <2>2. task' = t /\ UNCHANGED <<journalVars, chainVars>>
    BY <1>3 DEF recover
  <2> HIDE DEF t
  <2>3. TaskOk(t)
    BY <1>0, <2>1, NothingReadIsTruthful DEF TaskOk, TaskHolds, TaskAt, JournalInv
  <2> QED BY <1>0, <2>1, <2>2, <2>3, TaskStep DEF journalVars
<1>4. ASSUME NEW id \in Ids, resend(id)
      PROVE  IInv'
  <2> DEFINE one == <<id>>
  <2> DEFINE t == [Idle EXCEPT !.step = "settle", !.todo = one]
  <2>0. one \in Seq(Ids) /\ one # <<>> /\ Head(one) = id /\ \A i \in DOMAIN one : one[i] = id
    OBVIOUS
  <2> HIDE DEF one
  <2>1. /\ t \in Task /\ t.step = "settle" /\ t.todo = one /\ t.goal = <<>> /\ t.found = NoReceipt
    BY <2>0 DEF Idle, Task, Steps
  <2>2. task' = t /\ UNCHANGED <<journalVars, chainVars>> /\ Journaled(id)
    BY <1>4 DEF resend, one
  <2> HIDE DEF t
  <2>3. TaskOk(t)
    BY <1>0, <2>0, <2>1, <2>2, NothingReadIsTruthful DEF TaskOk, TaskHolds, TaskAt
  <2> QED BY <1>0, <2>1, <2>2, <2>3, TaskStep DEF journalVars
<1>5. ASSUME NEW id \in Ids, send(id)
      PROVE  IInv'
  <2> DEFINE t == [Idle EXCEPT !.step = IF rows = <<>> THEN "allocate" ELSE "settle",
                               !.todo = rows, !.goal = id]
  <2>1. /\ t \in Task /\ t.step = IF rows = <<>> THEN "allocate" ELSE "settle"
        /\ t.todo = rows /\ t.goal = id /\ t.found = NoReceipt
    BY <1>0, <1>5 DEF Idle, Task, Steps
  <2>2. task' = t /\ UNCHANGED <<journalVars, chainVars>>
    BY <1>5 DEF send
  <2>3. PICK k \in NextAttempt(id[1]) : id = <<id[1], k>>
    BY <1>5 DEF send
  <2>4. /\ k \in Attempts /\ k \in Nat /\ id[1] \in Jobs /\ id[2] = k /\ ~Journaled(id)
        /\ k = 0 \/ (Journaled(<<id[1], k - 1>>) /\ Retryable(<<id[1], k - 1>>))
    BY <2>3 DEF NextAttempt, Ids, Attempts
  <2>5. Retried(id)
    <3> SUFFICES ASSUME NEW j \in Attempts, j < k
                 PROVE  journal[<<id[1], j>>].status = "reverted"
      BY <2>4 DEF Retried
    <3>1. CASE j = k - 1
      BY <2>4, <3>1 DEF Retryable, Attempts
    <3>2. CASE j # k - 1
      <4>1. k - 1 \in Attempts /\ j < k - 1 /\ k # 0
        BY <2>4, <3>2, Bounds DEF Attempts
      <4>2. <<id[1], k - 1>> \in Ids /\ Journaled(<<id[1], k - 1>>)
        BY <2>4, <4>1 DEF Ids
      <4>3. Retried(<<id[1], k - 1>>)
        BY <1>0, <4>2 DEF JournalInv
      <4> QED BY <4>1, <4>3 DEF Retried
    <3> QED BY <3>1, <3>2
  <2> HIDE DEF t
  <2>6. TaskOk(t)
    BY <1>0, <2>1, <2>4, <2>5, NothingReadIsTruthful, NoJobIsEmpty DEF TaskOk, TaskHolds, TaskAt, JournalInv
  <2> QED BY <1>0, <2>1, <2>2, <2>6, TaskStep DEF journalVars
<1> QED BY <1>1, <1>2, <1>3, <1>4, <1>5

\* Steps of settle that read the chain and write nothing.
LEMMA ReadNext ==
  ASSUME IInv, recheckTerminal \/ passOver \/ findReceipt \/ waitReceipt
  PROVE  IInv'
<1>0. /\ task \in Task /\ TaskOk(task) /\ SenderTypeOK /\ ChainInv /\ quarantined \in BOOLEAN
      /\ journal \in [Ids -> TransactionState]
  BY DEF IInv, TaskInv, JournalAhead, SenderTypeOK
<1>1. CASE recheckTerminal \/ passOver
  <2>1. task' = Settled /\ UNCHANGED <<journalVars, chainVars>> /\ task.todo # <<>>
    BY <1>0, <1>1 DEF recheckTerminal, passOver, TaskOk, TaskHolds, TaskAt
  <2> QED BY <1>0, <2>1, SettledOk, TaskStep DEF journalVars
<1>2. CASE findReceipt \/ waitReceipt
  <2>1. PICK found \in Receipts(Current) \union {NoReceipt}, step \in Steps :
          /\ task' = [task EXCEPT !.found = found, !.step = step]
          /\ step \in {"anchor", "publish", "replace", "finish"}
          /\ step = "anchor" => journal[Current].status = "included"
          /\ step # "anchor" => journal[Current].status # "included" /\ ~Terminal(Current)
          /\ step = "finish" => found # NoReceipt
          /\ task.step \notin {"idle", "allocate"}
    BY <1>0, <1>2 DEF findReceipt, waitReceipt, TaskOk, TaskAt, Current, Steps, Outstanding, Terminal
  <2>2. task.todo # <<>> /\ Current \in Ids /\ (step # "anchor" => Outstanding(Current))
    BY <2>1, CurrentIsJournaled DEF Journaled, Terminal, Outstanding, TransactionState, Statuses
  <2>3. found \in Receipt \union {NoReceipt} /\ Truthful(Current, found)
    BY <1>0, <2>2, ReadIsTruthful
  <2> DEFINE t == [task EXCEPT !.found = found, !.step = step]
  <2>4. /\ t \in Task /\ t.step = step /\ t.todo = task.todo /\ t.goal = task.goal /\ t.found = found
    BY <1>0, <2>3 DEF Task
  <2>5. task' = t
    BY <2>1
  <2> HIDE DEF t
  <2>6. TaskOk(t)
    BY <1>0, <2>1, <2>2, <2>3, <2>4 DEF TaskOk, TaskHolds, TaskAt, Current
  <2> QED BY <1>0, <1>2, <2>4, <2>5, <2>6, TaskStep DEF findReceipt, waitReceipt, journalVars
<1> QED BY <1>1, <1>2

\* The block and the head of a receipt are read, and nothing is saved yet.
LEMMA FinalityNext ==
  ASSUME IInv, NEW step \in {"head", "recheck"}, task.step \in {"finish", "head"},
         step = "recheck" => HeightOf(task.found) <= finalHeight,
         task' = [task EXCEPT !.step = step], UNCHANGED <<journalVars, chainVars>>
  PROVE  IInv'
<1>1. /\ task \in Task /\ TaskOk(task) /\ quarantined \in BOOLEAN
  BY DEF IInv, TaskInv, JournalAhead, SenderTypeOK
<1> DEFINE t == [task EXCEPT !.step = step]
<1>2. /\ t \in Task /\ t.step = step /\ t.todo = task.todo /\ t.goal = task.goal
      /\ t.found = task.found /\ task' = t
  BY <1>1 DEF Task, Steps
<1> HIDE DEF t
<1>3. TaskOk(t)
  BY <1>1, <1>2 DEF TaskOk, TaskHolds, TaskAt
<1> QED BY <1>1, <1>2, <1>3, TaskStep DEF journalVars

-----------------------------------------------------------------------------
(* The network.                                                            *)

\* Publication: only what the journal holds of the operation at hand.
LEMMA PublishNext ==
  ASSUME IInv, publish \/ republish
  PROVE  IInv'
<1> DEFINE tx == <<Current, journal[Current].newest>>
<1>a. task.step \in {"publish", "republish"}
  BY DEF publish, republish
<1>0. /\ task \in Task /\ TaskOk(task) /\ SenderTypeOK /\ WriteAhead
      /\ task.step \in {"publish", "republish"}
      /\ task.todo # <<>> /\ Current \in Ids /\ Journaled(Current)
      /\ journal[Current] \in TransactionState
  BY <1>a, CurrentIsJournaled DEF IInv, TaskInv, JournalAhead, SenderTypeOK
<1>1. /\ UNCHANGED <<journalVars, chain, finalHeight, reorgs, diverged>>
      /\ pool' = pool \/ pool' = pool \union {tx}
      /\ task' = Idle \/ \E step \in {"wait", "replace"} : task' = [task EXCEPT !.step = step]
  BY DEF publish, republish, Broadcast, Underpriced
<1>2. tx \in Txs /\ tx[1] = Current /\ tx[2] = journal[Current].newest
  BY <1>0 DEF Txs, TransactionState
<1>3. task' \in Task /\ TaskOk(task')
  <2>1. CASE task' = Idle
    BY <2>1, IdleOk
  <2>2. ASSUME NEW step \in {"wait", "replace"}, task' = [task EXCEPT !.step = step]
        PROVE  task' \in Task /\ TaskOk(task')
    <3>1. /\ task' \in Task /\ task'.step = step /\ task'.todo = task.todo
          /\ task'.goal = task.goal /\ task'.found = task.found
      BY <1>0, <2>2 DEF Task, Steps
    <3> QED BY <1>0, <2>2, <3>1 DEF TaskOk, TaskHolds, TaskAt
  <2> QED BY <1>1, <2>1, <2>2
<1> HIDE DEF tx
<1>4. SenderTypeOK'
  BY <1>0, <1>1, <1>2, <1>3 DEF SenderTypeOK, journalVars
<1>5. WriteAhead'
  <2>1. journal[Current].newest \in Nat
    BY <1>0, Bounds DEF TransactionState, Versions
  <2> QED BY <1>0, <1>1, <1>2, <2>1 DEF WriteAhead, OnChain, Journaled, journalVars
<1>6. ChainInv'
  BY <1>1 DEF IInv, ChainInv, BlockOf, NonceOf, journalVars
<1>7. JournalInv'
  BY <1>1 DEF IInv, JournalInv, Truthful, Journaled, Outstanding, Retried, journalVars
<1>8. TaskInv'
  BY <1>1, <1>3 DEF TaskInv, TaskOk, TaskHolds, TaskAt, Truthful, Journaled, Outstanding, Retried, journalVars
<1>9. TerminalIsFinal'
  BY <1>1 DEF IInv, TerminalIsFinal, Terminal, journalVars
<1> QED BY <1>4, <1>5, <1>6, <1>7, <1>8, <1>9 DEF IInv, JournalAhead

\* A step of the chain that keeps every finalized block and reuses no hash.
LEMMA ChainKeeps ==
  ASSUME IInv, SenderTypeOK', WriteAhead', ChainInv', UNCHANGED <<journalVars, task>>,
         finalHeight' >= finalHeight,
         \A h \in 1 .. finalHeight : chain'[h] = chain[h],
         \A id \in Ids, receipt \in Receipt \union {NoReceipt} :
            Truthful(id, receipt) => Truthful(id, receipt)'
  PROVE  IInv'
<1>1. /\ journal \in [Ids -> TransactionState] /\ task \in Task
      /\ finalHeight \in Nat /\ finalHeight' \in Nat
  BY DEF IInv, JournalAhead, SenderTypeOK
<1>2. JournalInv'
  <2>1. ASSUME NEW id \in Ids PROVE Truthful(id, journal[id].receipt)'
    <3>1. journal[id].receipt \in Receipt \union {NoReceipt} /\ journal' = journal
      BY <1>1 DEF TransactionState, journalVars
    <3>2. Truthful(id, journal[id].receipt)
      BY DEF IInv, JournalInv
    <3> DEFINE receipt == journal[id].receipt
    <3>3. receipt' = receipt
      BY <3>1
    <3> QED BY <3>1, <3>2, <3>3 DEF Truthful
  <2> QED BY <2>1 DEF IInv, JournalInv, Journaled, Outstanding, Retried, journalVars
<1>3. TaskInv'
  <2>1. task.todo # <<>> => Truthful(Head(task.todo), task.found)'
    <3>1. CASE task.todo # <<>>
      <4>1. Head(task.todo) \in Ids /\ task.found \in Receipt \union {NoReceipt} /\ task' = task
        BY <1>1, <3>1 DEF Task
      <4>2. Truthful(Head(task.todo), task.found)
        BY <3>1 DEF IInv, TaskInv, TaskOk, TaskHolds, TaskAt
      <4> QED BY <4>1, <4>2 DEF Truthful
    <3> QED BY <3>1
  <2>2. HeightOf(task.found) \in Nat
    BY <1>1, Bounds DEF Task, Receipt, BlockHash, NoReceipt, NoBlock, HeightOf
  <2>3. HeightOf(task.found) <= finalHeight => HeightOf(task.found) <= finalHeight'
    BY <1>1, <2>2
  <2> QED BY <2>1, <2>3 DEF IInv, TaskInv, TaskOk, TaskHolds, TaskAt, Journaled, Outstanding, Retried,
          HeightOf, journalVars
<1>4. TerminalIsFinal'
  <2> SUFFICES ASSUME NEW id \in Ids, Terminal(id)'
               PROVE  \E h \in 1 .. finalHeight' :
                        /\ chain'[h].tx = <<id, journal'[id].receipt.version>>
                        /\ chain'[h].hash = journal'[id].receipt.hash
                        /\ chain'[h].ok <=> journal'[id].status = "confirmed"
    BY DEF TerminalIsFinal
  <2>1. Terminal(id) /\ journal' = journal
    BY DEF Terminal, journalVars
  <2>2. PICK h \in 1 .. finalHeight :
          /\ chain[h].tx = <<id, journal[id].receipt.version>>
          /\ chain[h].hash = journal[id].receipt.hash
          /\ chain[h].ok <=> journal[id].status = "confirmed"
    BY <2>1 DEF IInv, TerminalIsFinal
  <2>3. h \in 1 .. finalHeight' /\ chain'[h] = chain[h]
    BY <1>1
  <2> QED BY <2>1, <2>2, <2>3
<1> QED BY <1>2, <1>3, <1>4 DEF IInv, JournalAhead

\* A block is added on the fork being built.
LEMMA MineNext ==
  ASSUME IInv, NEW tx \in pool, NEW ok \in BOOLEAN, Mine(tx, ok)
  PROVE  IInv'
<1> DEFINE block == [hash |-> <<Len(chain) + 1, reorgs>>, tx |-> tx, ok |-> ok]
<1>0. /\ SenderTypeOK /\ WriteAhead /\ ChainInv /\ chain \in Seq(Block) /\ pool \subseteq Txs
      /\ reorgs \in 0 .. MaxReorgs /\ finalHeight \in 0 .. Len(chain) /\ Len(chain) \in Nat
      /\ MaxReorgs \in Nat
  BY Bounds DEF IInv, JournalAhead, SenderTypeOK
<1>1. /\ UNCHANGED <<journalVars, task, finalHeight, reorgs, diverged>>
      /\ chain' = Append(chain, block) /\ pool' \subseteq pool
      /\ NonceOf(tx) = Len(chain)
  BY DEF Mine
<1>2. /\ block \in Block /\ block.hash[1] = Len(chain) + 1 /\ block.hash[2] = reorgs /\ block.tx = tx
  BY <1>0 DEF Block, BlockHash
<1> HIDE DEF block
<1>3. /\ chain' \in Seq(Block) /\ Len(chain') = Len(chain) + 1
      /\ DOMAIN chain = 1 .. Len(chain) /\ DOMAIN chain' = 1 .. Len(chain) + 1
      /\ \A h \in 1 .. Len(chain) : chain'[h] = chain[h]
      /\ chain'[Len(chain) + 1] = block
  BY <1>0, <1>1, <1>2
<1>4. SenderTypeOK'
  BY <1>0, <1>1, <1>3 DEF SenderTypeOK, journalVars
<1>5. WriteAhead'
  <2> SUFFICES ASSUME NEW t \in pool' \union OnChain'
               PROVE  Journaled(t[1])' /\ t[2] <= journal'[t[1]].newest
    BY DEF WriteAhead
  <2>1. t \in pool \union OnChain
    BY <1>1, <1>2, <1>3 DEF OnChain
  <2> QED BY <1>0, <1>1, <2>1 DEF WriteAhead, Journaled, journalVars
<1>6. ChainInv'
  <2> SUFFICES ASSUME NEW h \in DOMAIN chain' PROVE BlockOf(h)'
    BY DEF ChainInv
  <2>1. CASE h \in 1 .. Len(chain)
    BY <1>0, <1>1, <1>3, <2>1 DEF ChainInv, BlockOf, NonceOf, journalVars
  <2>2. CASE h = Len(chain) + 1
    BY <1>0, <1>1, <1>2, <1>3, <2>2 DEF BlockOf, NonceOf, journalVars
  <2> QED BY <1>3, <2>1, <2>2
<1>7. ASSUME NEW id \in Ids, NEW receipt \in Receipt \union {NoReceipt}, Truthful(id, receipt)
      PROVE  Truthful(id, receipt)'
  <2>1. block.hash # receipt.hash
    BY <1>0, <1>2, <1>7 DEF Truthful
  <2>2. receipt.hash[1] \in Nat
    BY DEF Receipt, BlockHash, NoReceipt, NoBlock
  <2>3. \A h \in DOMAIN chain' : chain'[h].hash = receipt.hash =>
          chain'[h].tx = <<id, receipt.version>> /\ chain'[h].ok = receipt.ok
    BY <1>0, <1>3, <1>7, <2>1 DEF Truthful
  <2>4. /\ receipt.hash[2] <= reorgs'
        /\ receipt.hash[2] = reorgs' => receipt.hash[1] <= Len(chain')
    BY <1>0, <1>1, <1>3, <1>7, <2>2 DEF Truthful
  <2> QED BY <2>3, <2>4 DEF Truthful
<1> QED BY <1>0, <1>1, <1>3, <1>4, <1>5, <1>6, <1>7, ChainKeeps

\* Whether the watcher's anchors read as committed concerns no row.
LEMMA DivergeNext == ASSUME IInv, Diverge PROVE IInv'
<1>1. SenderTypeOK /\ UNCHANGED <<journalVars, task, chain, finalHeight, pool, reorgs>>
  BY DEF IInv, JournalAhead, Diverge
<1>2. diverged' \in BOOLEAN
  BY Zenon DEF Diverge
<1>3. SenderTypeOK' /\ WriteAhead' /\ ChainInv'
  BY <1>1, <1>2 DEF IInv, JournalAhead, SenderTypeOK, WriteAhead, OnChain, Journaled, ChainInv,
     BlockOf, NonceOf, journalVars
<1>4. JournalInv' /\ TerminalIsFinal'
  BY <1>1 DEF IInv, JournalInv, Truthful, Journaled, Outstanding, Retried, TerminalIsFinal, Terminal,
     journalVars
<1>5. TaskInv'
  BY <1>1 DEF IInv, TaskInv, TaskOk, TaskHolds, TaskAt, Truthful, Journaled, Outstanding, Retried,
     journalVars
<1> QED BY <1>3, <1>4, <1>5 DEF IInv, JournalAhead

LEMMA FinalizeNext == ASSUME IInv, Finalize PROVE IInv'
<1>0. /\ SenderTypeOK /\ WriteAhead /\ ChainInv /\ finalHeight \in 0 .. Len(chain)
      /\ Len(chain) \in Nat
  BY DEF IInv, JournalAhead, SenderTypeOK
<1>1. UNCHANGED <<journalVars, task, chain, pool, reorgs, diverged>> /\ finalHeight' = finalHeight + 1
      /\ finalHeight < Len(chain)
  BY DEF Finalize
<1>2. SenderTypeOK' /\ WriteAhead' /\ ChainInv'
  BY <1>0, <1>1 DEF SenderTypeOK, WriteAhead, OnChain, Journaled, ChainInv, BlockOf, NonceOf, journalVars
<1>3. \A id \in Ids, receipt \in Receipt \union {NoReceipt} :
        Truthful(id, receipt) => Truthful(id, receipt)'
  BY <1>1 DEF Truthful
<1> QED BY <1>0, <1>1, <1>2, <1>3, ChainKeeps

\* A reorg begins a fork of its own above the finalized blocks.
LEMMA ReorgNext ==
  ASSUME IInv, NEW k \in finalHeight .. Len(chain), Reorg(k)
  PROVE  IInv'
<1> DEFINE returned == {chain[h].tx : h \in k + 1 .. Len(chain)}
<1>0. /\ SenderTypeOK /\ WriteAhead /\ ChainInv /\ chain \in Seq(Block) /\ pool \subseteq Txs
      /\ reorgs \in 0 .. MaxReorgs /\ finalHeight \in 0 .. Len(chain) /\ Len(chain) \in Nat
      /\ MaxReorgs \in Nat /\ k \in Nat /\ k < Len(chain)
  BY Bounds DEF IInv, JournalAhead, SenderTypeOK, Reorg
<1>1. /\ UNCHANGED <<journalVars, task, finalHeight, diverged>>
      /\ chain' = SubSeq(chain, 1, k) /\ reorgs' = reorgs + 1 /\ reorgs < MaxReorgs
      /\ pool' \subseteq pool \union returned
  BY DEF Reorg
<1>2. returned \subseteq OnChain
  BY <1>0 DEF OnChain
<1> HIDE DEF returned
<1>3. /\ chain' \in Seq(Block) /\ Len(chain') = k
      /\ DOMAIN chain = 1 .. Len(chain) /\ DOMAIN chain' = 1 .. k
      /\ \A h \in 1 .. k : chain'[h] = chain[h]
  BY <1>0, <1>1
<1>a. \A h \in 1 .. k : h \in DOMAIN chain /\ chain'[h] = chain[h]
  BY <1>0, <1>3
<1>4. OnChain \subseteq Txs /\ OnChain' \subseteq OnChain
  <2>1. ASSUME NEW h \in DOMAIN chain PROVE chain[h].tx \in Txs
    <3>1. chain[h] \in Block
      BY <1>0
    <3> QED BY <3>1 DEF Block
  <2>2. OnChain' \subseteq OnChain
    BY <1>3, <1>a DEF OnChain
  <2> QED BY <2>1, <2>2 DEF OnChain
<1>5. SenderTypeOK'
  BY <1>0, <1>1, <1>2, <1>3, <1>4 DEF SenderTypeOK, journalVars
<1>6. WriteAhead'
  BY <1>0, <1>1, <1>2, <1>4 DEF WriteAhead, Journaled, journalVars
<1>7. ChainInv'
  <2> SUFFICES ASSUME NEW h \in 1 .. k PROVE BlockOf(h)'
    BY <1>3 DEF ChainInv
  <2>1. BlockOf(h) /\ chain'[h] = chain[h] /\ chain[h] \in Block
    BY <1>0, <1>a DEF ChainInv
  <2>2. chain[h].hash[2] \in Nat /\ reorgs \in Nat
    BY <1>0, <2>1 DEF Block, BlockHash
  <2>3. NonceOf(chain[h].tx)' = NonceOf(chain[h].tx)
    BY <1>1, <2>1 DEF NonceOf, journalVars
  <2> QED BY <1>1, <2>1, <2>2, <2>3 DEF BlockOf
<1>8. ASSUME NEW id \in Ids, NEW receipt \in Receipt \union {NoReceipt}, Truthful(id, receipt)
      PROVE  Truthful(id, receipt)'
  <2>1. receipt.hash[2] \in Nat
    BY <1>0 DEF Receipt, BlockHash, NoReceipt, NoBlock
  <2> QED BY <1>0, <1>1, <1>3, <1>8, <2>1 DEF Truthful
<1> QED BY <1>0, <1>1, <1>3, <1>5, <1>6, <1>7, <1>8, ChainKeeps

-----------------------------------------------------------------------------
(* The journal.                                                            *)

\* A terminal record that is true for good.
Final(id, record) ==
    \E h \in 1 .. finalHeight :
        /\ chain[h].tx = <<id, record.receipt.version>>
        /\ chain[h].hash = record.receipt.hash
        /\ chain[h].ok <=> record.status = "confirmed"

\* The journal takes a record for an operation.
Recorded(id, record) == journal' = [journal EXCEPT ![id] = record]

\* A journaled operation that is not terminal gets a newer record.
LEMMA RecordStep ==
  ASSUME IInv, NEW id \in Ids, Journaled(id), ~Terminal(id),
         NEW new \in TransactionState,
         Recorded(id, new), UNCHANGED <<rows, quarantined, chainVars>>,
         new.nonce = journal[id].nonce, new.newest >= journal[id].newest,
         new.status # "none", Truthful(id, new.receipt),
         new.status = "signed" <=> new.receipt = NoReceipt,
         new.status \in {"confirmed", "reverted"} => Final(id, new),
         NEW t \in Task, TaskHolds(t), task' = t, TaskAt(task)'
  PROVE  IInv'
<1>0. /\ SenderTypeOK /\ WriteAhead /\ ChainInv /\ JournalInv /\ TerminalIsFinal
      /\ journal \in [Ids -> TransactionState] /\ pool \subseteq Txs /\ chain \in Seq(Block)
      /\ UNCHANGED <<rows, quarantined, chain, finalHeight, pool, reorgs, diverged>>
  BY DEF IInv, JournalAhead, SenderTypeOK, chainVars
<1>1. /\ journal' \in [Ids -> TransactionState]
      /\ \A x \in Ids : journal'[x] = IF x = id THEN new ELSE journal[x]
  BY <1>0 DEF Recorded
<1>2. /\ \A x \in Ids : Journaled(x)' <=> Journaled(x)
      /\ \A x \in Ids : journal[x].status = "reverted" => journal'[x].status = "reverted"
  BY <1>1 DEF Journaled, Terminal
<1>r. \A x \in Ids : journal'[x].receipt # NoReceipt <=> (Journaled(x) /\ ~Outstanding(x))'
  BY <1>0, <1>1 DEF JournalInv, Journaled, Outstanding
<1>3. ASSUME NEW x \in Ids, Retried(x) PROVE Retried(x)'
  <2>1. ASSUME NEW j \in Attempts PROVE <<x[1], j>> \in Ids
    BY DEF Ids
  <2> QED BY <1>2, <1>3, <2>1 DEF Retried
<1>4. SenderTypeOK'
  BY <1>0, <1>1 DEF SenderTypeOK
<1>5. OnChain \subseteq Txs /\ \A h \in DOMAIN chain : chain[h].tx[1] \in Ids
  <2>1. ASSUME NEW h \in DOMAIN chain PROVE chain[h].tx \in Txs
    <3>1. chain[h] \in Block
      BY <1>0
    <3> QED BY <3>1 DEF Block
  <2> QED BY <2>1 DEF OnChain, Txs
<1>6. WriteAhead'
  <2> SUFFICES ASSUME NEW tx \in pool \union OnChain
               PROVE  Journaled(tx[1])' /\ tx[2] <= journal'[tx[1]].newest
    BY <1>0 DEF WriteAhead, OnChain
  <2>1. tx[1] \in Ids /\ tx[2] \in Versions /\ Journaled(tx[1]) /\ tx[2] <= journal[tx[1]].newest
    BY <1>0, <1>5 DEF WriteAhead, Txs
  <2>2. tx[2] \in Nat /\ new.newest \in Nat /\ journal[tx[1]].newest \in Nat
    BY <1>0, <2>1, Bounds DEF Versions, TransactionState
  <2> QED BY <1>1, <1>2, <2>1, <2>2
<1>7. ChainInv'
  BY <1>0, <1>1, <1>5 DEF ChainInv, BlockOf, NonceOf
<1>8. JournalInv'
  <2>1. \A x \in Ids : Truthful(x, journal'[x].receipt)
    BY <1>0, <1>1 DEF JournalInv
  <2>2. \A x \in Ids : Truthful(x, journal[x].receipt)'
    BY <1>0, <2>1 DEF Truthful
  <2>3. \A i \in DOMAIN rows : rows[i] \in Ids
    BY <1>0 DEF SenderTypeOK
  <2> QED BY <1>0, <1>2, <1>3, <1>r, <2>2, <2>3 DEF JournalInv
<1>9. TaskInv'
  <2>1. \A i \in DOMAIN t.todo : t.todo[i] \in Ids
    BY DEF Task
  <2>2. t.todo # <<>> => Truthful(Head(t.todo), t.found)'
    BY <1>0 DEF TaskOk, TaskHolds, TaskAt, Truthful
  <2>3. t.goal # <<>> => ~Journaled(t.goal)' /\ Retried(t.goal)'
    BY <1>2, <1>3 DEF TaskOk, TaskHolds, TaskAt, Task
  <2> QED BY <1>2, <2>1, <2>2, <2>3 DEF TaskInv, TaskOk, TaskHolds
<1>10. TerminalIsFinal'
  <2> SUFFICES ASSUME NEW x \in Ids, Terminal(x)' PROVE Final(x, journal'[x])
    BY <1>0 DEF TerminalIsFinal, Final
  <2>1. CASE x = id
    BY <1>1, <2>1 DEF Terminal
  <2>2. CASE x # id
    BY <1>0, <1>1, <2>2 DEF Terminal, TerminalIsFinal, Final
  <2> QED BY <2>1, <2>2
<1> QED BY <1>4, <1>6, <1>7, <1>8, <1>9, <1>10 DEF IInv, JournalAhead

\* An inclusion is confirmed once more or reopened.
LEMMA AnchorNext == ASSUME IInv, checkAnchor PROVE IInv'
<1>a. task.step = "anchor"
  BY DEF checkAnchor
<1>0. /\ task \in Task /\ TaskHolds(task) /\ SenderTypeOK /\ ChainInv /\ quarantined \in BOOLEAN
      /\ task.todo # <<>> /\ Current \in Ids /\ Journaled(Current) /\ Truthful(Current, task.found)
      /\ journal \in [Ids -> TransactionState]
      /\ journal[Current] \in TransactionState /\ journal[Current].status = "included"
      /\ journal[Current].receipt # NoReceipt
      /\ Current = Head(task.todo)
  BY <1>a, CurrentIsJournaled
     DEF IInv, TaskInv, JournalAhead, SenderTypeOK, JournalInv, Outstanding, TaskOk, TaskAt, Current
<1> DEFINE step == IF task.found = NoReceipt THEN "publish" ELSE "finish"
<1> DEFINE t == [task EXCEPT !.step = step]
<1>1. /\ t \in Task /\ t.step = step /\ t.todo = task.todo
      /\ t.goal = task.goal /\ t.found = task.found
  BY <1>0 DEF Task, Steps
<1>2. task' = t /\ UNCHANGED <<rows, quarantined, chainVars>>
  BY DEF checkAnchor
<1> HIDE DEF t
<1>3. ~Terminal(Current)
  BY <1>0 DEF Terminal
<1>4. TaskHolds(t)
  BY <1>0, <1>1 DEF TaskHolds
<1>5. CASE journal' = journal
  <2>1. task.found = journal[Current].receipt
    <3>1. CASE ~LostInclusion(Current)
      BY <3>1 DEF checkAnchor
    <3>2. CASE LostInclusion(Current)
      <4>1. journal' = [journal EXCEPT ![Current] =
              [@ EXCEPT !.status = "signed", !.receipt = NoReceipt]]
        BY <3>2 DEF checkAnchor
      <4>2. journal'[Current].status = "signed"
        BY <1>0, <4>1 DEF TransactionState
      <4> QED BY <1>0, <1>5, <4>2
    <3> QED BY <3>1, <3>2
  <2>2. TaskOk(t)
    BY <1>0, <1>1, <1>4, <2>1 DEF TaskOk, TaskAt
  <2> QED BY <1>0, <1>1, <1>2, <1>5, <2>2, TaskStep
<1>6. CASE journal' # journal
  <2> DEFINE new == [journal[Current] EXCEPT !.status = "signed", !.receipt = NoReceipt]
  <2>1. Recorded(Current, new)
    BY <1>6 DEF checkAnchor, Recorded
  <2>2. /\ new \in TransactionState /\ new.nonce = journal[Current].nonce
        /\ new.newest = journal[Current].newest /\ new.status = "signed" /\ new.receipt = NoReceipt
    BY <1>0 DEF TransactionState, Statuses
  <2> HIDE DEF new
  <2>3. Truthful(Current, new.receipt) /\ new.newest \in Nat
    BY <1>0, <2>2, NothingReadIsTruthful, Bounds DEF TransactionState, Versions
  <2>4. TaskAt(task)'
    <3>1. journal'[Current].status = "signed"
      BY <1>0, <2>1, <2>2 DEF Recorded
    <3> QED BY <1>0, <1>1, <1>2, <3>1 DEF TaskAt, Outstanding
  <2> QED BY <1>0, <1>1, <1>2, <1>3, <1>4, <2>1, <2>2, <2>3, <2>4, RecordStep
<1> QED BY <1>5, <1>6

\* A bump takes the next version of the same nonce.
LEMMA ReplaceNext == ASSUME IInv, replace PROVE IInv'
<1>a. task.step = "replace"
  BY DEF replace
<1>0. /\ task \in Task /\ TaskOk(task) /\ SenderTypeOK /\ JournalInv /\ quarantined \in BOOLEAN
      /\ task.todo # <<>> /\ Current \in Ids /\ Journaled(Current)
      /\ journal[Current] \in TransactionState /\ journal[Current].status = "signed"
      /\ journal[Current].receipt = NoReceipt
      /\ Current = Head(task.todo) /\ journal \in [Ids -> TransactionState]
  BY <1>a, CurrentIsJournaled
     DEF IInv, TaskInv, JournalAhead, JournalInv, SenderTypeOK, Outstanding, TaskOk, TaskAt, Current
<1> DEFINE t == [task EXCEPT !.step = "republish"]
<1>1. /\ t \in Task /\ t.step = "republish" /\ t.todo = task.todo
      /\ t.goal = task.goal /\ t.found = task.found
  BY <1>0 DEF Task, Steps
<1> DEFINE new == [journal[Current] EXCEPT !.newest = @ + 1]
<1>2. /\ Recorded(Current, new) /\ task' = t /\ UNCHANGED <<rows, quarantined, chainVars>>
      /\ journal[Current].newest < MaxReplacements
  BY <1>0 DEF replace, MayReplace, Recorded
<1>3. journal[Current].newest \in Versions /\ journal[Current].newest + 1 \in Versions
  BY <1>0, <1>2, Bounds DEF TransactionState, Versions
<1>4. /\ new \in TransactionState /\ new.nonce = journal[Current].nonce
      /\ new.newest = journal[Current].newest + 1 /\ new.status = journal[Current].status
      /\ new.receipt = journal[Current].receipt
  BY <1>0, <1>3 DEF TransactionState
<1> HIDE DEF t, new
<1>5. /\ TaskHolds(t) /\ Truthful(Current, new.receipt) /\ new.newest >= journal[Current].newest
      /\ ~Terminal(Current)
  BY <1>0, <1>1, <1>3, <1>4, Bounds DEF TaskOk, TaskHolds, JournalInv, Versions, Terminal
<1>6. TaskAt(task)'
  <2>1. journal'[Current].status = "signed"
    BY <1>0, <1>2, <1>4 DEF Recorded
  <2> QED BY <1>0, <1>1, <1>2, <2>1 DEF TaskAt, Outstanding
<1> QED BY <1>0, <1>1, <1>2, <1>4, <1>5, <1>6, RecordStep

\* A receipt is saved with what is true of it as it is saved.
LEMMA SaveNext ==
  ASSUME IInv, task.step \in {"head", "recheck"},
         NEW status \in {"included", "confirmed", "reverted"}, Save(status),
         status # "included" =>
            Finalized(task.found) /\ (task.found.ok <=> status = "confirmed")
  PROVE  IInv'
<1>0. /\ task \in Task /\ TaskOk(task) /\ SenderTypeOK /\ ChainInv /\ quarantined \in BOOLEAN
      /\ task.todo # <<>> /\ Current \in Ids /\ Journaled(Current) /\ Truthful(Current, task.found)
      /\ journal[Current] \in TransactionState /\ ~Terminal(Current)
      /\ task.found \in Receipt \union {NoReceipt} /\ task.found # NoReceipt
      /\ finalHeight \in Nat /\ DOMAIN chain = 1 .. Len(chain)
  BY CurrentIsJournaled
     DEF IInv, TaskInv, JournalAhead, SenderTypeOK, TaskOk, TaskAt, Outstanding, Terminal, Current, Task
<1> DEFINE new == [journal[Current] EXCEPT !.status = status, !.receipt = task.found]
<1>1. /\ Recorded(Current, new) /\ task' = Settled
      /\ UNCHANGED <<rows, quarantined, chainVars>>
  BY DEF Save, Recorded
<1>3. /\ new \in TransactionState /\ new.nonce = journal[Current].nonce
      /\ new.newest = journal[Current].newest /\ new.status = status
      /\ new.receipt = task.found
  BY <1>0 DEF TransactionState, Statuses
<1> HIDE DEF new
<1>b. new.newest \in Nat
  BY <1>3, Bounds DEF TransactionState, Versions
<1>4. ASSUME new.status \in {"confirmed", "reverted"} PROVE Final(Current, new)
  <2> DEFINE h == task.found.hash[1]
  <2>1. Finalized(task.found) /\ (new.status = "confirmed" <=> task.found.ok)
    BY <1>3, <1>4
  <2>2. h \in DOMAIN chain /\ chain[h].hash = task.found.hash /\ h <= finalHeight
    BY <1>0, <2>1 DEF Finalized, Orphaned, HeightOf
  <2>3. chain[h].tx = <<Current, task.found.version>> /\ chain[h].ok = task.found.ok
    BY <1>0, <2>2 DEF Truthful
  <2>4. h \in 1 .. finalHeight
    BY <1>0, <2>2
  <2> QED BY <1>3, <2>1, <2>2, <2>3, <2>4 DEF Final
<1>5. Settled \in Task /\ TaskHolds(Settled) /\ TaskAt(task)'
  <2>1. Settled.step \in {"settle", "allocate", "idle"}
    BY <1>0 DEF Settled, Task
  <2> HIDE DEF Settled
  <2> QED BY <1>0, <1>1, <2>1, SettledOk DEF TaskOk, TaskAt
<1> QED BY <1>0, <1>1, <1>b, <1>3, <1>4, <1>5, RecordStep

\* Each read of receiptFinality.
LEMMA ReadFinalityNext == ASSUME IInv, readBlock \/ readHead \/ recheckBlock PROVE IInv'
<1>1. CASE readBlock
  BY <1>1, FinalityNext DEF readBlock
<1>2. CASE readHead
  BY <1>2, FinalityNext, SaveNext DEF readHead
<1>3. CASE recheckBlock
  <2>1. HeightOf(task.found) <= finalHeight /\ task.step = "recheck" /\ ~Orphaned(task.found)
    BY <1>3 DEF recheckBlock, IInv, TaskInv, TaskOk, TaskAt
  <2>2. Finalized(task.found)
    BY <2>1 DEF Finalized
  <2> QED BY <1>3, <2>1, <2>2, SaveNext DEF recheckBlock, Outcome
<1> QED BY <1>1, <1>2, <1>3

\* A new operation is signed; none of its versions is out yet.
LEMMA PrepareNext == ASSUME IInv, prepare PROVE IInv'
<1>1. PICK n \in Len(chain) .. Len(chain) + Len(rows) :
        journal' = [journal EXCEPT ![task.goal] = [Unsent EXCEPT !.nonce = n, !.status = "signed"]]
  BY DEF prepare
<1>g. PICK id \in Ids : id = task.goal
  BY DEF IInv, TaskInv, JournalAhead, SenderTypeOK, TaskOk, TaskHolds, TaskAt, Task, prepare
<1> DEFINE new == [Unsent EXCEPT !.nonce = n, !.status = "signed"]
<1>2. /\ SenderTypeOK /\ WriteAhead /\ ChainInv /\ JournalInv /\ TerminalIsFinal
      /\ journal \in [Ids -> TransactionState] /\ pool \subseteq Txs /\ chain \in Seq(Block)
      /\ rows \in Seq(Ids) /\ task.step = "allocate" /\ n \in Nat
      /\ ~Journaled(id) /\ Retried(id)
      /\ rows' = Append(rows, id)
      /\ UNCHANGED <<quarantined, chain, finalHeight, pool, reorgs, diverged>>
  BY <1>g, NoJobIsEmpty DEF IInv, TaskInv, JournalAhead, SenderTypeOK, TaskOk, TaskHolds, TaskAt, Task, prepare, chainVars
<1>3. task' = [Idle EXCEPT !.step = "settle", !.todo = <<id>>]
  BY <1>g DEF prepare
<1>4. /\ new \in TransactionState /\ new.nonce = n /\ new.newest = 0 /\ new.status = "signed"
      /\ new.receipt = NoReceipt
  <2>1. 0 \in Versions
    BY Bounds DEF Versions
  <2> QED BY <1>2, <2>1 DEF Unsent, TransactionState, Statuses
<1>5. /\ journal' \in [Ids -> TransactionState]
      /\ journal'[id] = new /\ \A x \in Ids : x # id => journal'[x] = journal[x]
  BY <1>1, <1>g, <1>2, <1>4
<1> HIDE DEF new
<1>6. /\ Journaled(id)' /\ ~Terminal(id)'
      /\ \A x \in Ids : Journaled(x) => x # id /\ Journaled(x)'
      /\ \A x \in Ids : journal[x].status = "reverted" => journal'[x].status = "reverted"
  BY <1>2, <1>4, <1>5 DEF Journaled, Terminal
<1>7. ASSUME NEW x \in Ids, Retried(x) PROVE Retried(x)'
  <2>1. ASSUME NEW j \in Attempts PROVE <<x[1], j>> \in Ids
    BY DEF Ids
  <2> QED BY <1>6, <1>7, <2>1 DEF Retried
<1>8. task' \in Task /\ TaskOk(task)'
  <2> DEFINE one == <<id>>
  <2>1. one \in Seq(Ids) /\ one # <<>> /\ Head(one) = id /\ \A i \in DOMAIN one : one[i] = id
    BY <1>2
  <2>2. task' = [Idle EXCEPT !.step = "settle", !.todo = one]
    BY <1>3
  <2> HIDE DEF one
  <2>3. /\ task' \in Task /\ task'.step = "settle" /\ task'.todo = one /\ task'.goal = <<>>
        /\ task'.found = NoReceipt
    BY <2>1, <2>2 DEF Idle, Task, Steps
  <2>4. Truthful(id, NoReceipt)'
    BY <1>2, NothingReadIsTruthful DEF Truthful
  <2>5. TaskOk(task)'
    BY <1>6, <2>1, <2>3, <2>4 DEF TaskOk, TaskHolds, TaskAt
  <2> QED BY <2>3, <2>5
<1>9. \A h \in DOMAIN chain : chain[h].tx \in OnChain /\ chain[h].tx \in Txs
  <2>1. ASSUME NEW h \in DOMAIN chain PROVE chain[h].tx \in OnChain /\ chain[h].tx \in Txs
    <3>1. chain[h] \in Block
      BY <1>2
    <3> QED BY <3>1 DEF Block, OnChain
  <2> QED BY <2>1
<1>10. ASSUME NEW tx \in pool \union OnChain
       PROVE  /\ tx[1] \in Ids /\ tx[1] # id /\ Journaled(tx[1])'
              /\ tx[2] <= journal'[tx[1]].newest /\ NonceOf(tx)' = NonceOf(tx)
  <2>1. tx \in Txs /\ tx[1] \in Ids
    BY <1>2, <1>9 DEF OnChain, Txs
  <2>2. Journaled(tx[1]) /\ tx[2] <= journal[tx[1]].newest
    BY <1>2 DEF WriteAhead
  <2> QED BY <1>5, <1>6, <2>1, <2>2 DEF NonceOf
<1>11. SenderTypeOK'
  BY <1>2, <1>5, <1>8 DEF SenderTypeOK
<1>12. WriteAhead'
  BY <1>2, <1>10 DEF WriteAhead, OnChain
<1>13. ChainInv'
  BY <1>2, <1>9, <1>10 DEF ChainInv, BlockOf
<1>14. JournalInv'
  <2>1. ASSUME NEW x \in Ids PROVE Truthful(x, journal'[x].receipt)
    BY <1>2, <1>4, <1>5, NothingReadIsTruthful DEF JournalInv
  <2>2. ASSUME NEW x \in Ids PROVE Truthful(x, journal[x].receipt)'
    BY <1>2, <2>1 DEF Truthful
  <2>3. ASSUME NEW x \in Ids, Journaled(x)' PROVE Retried(x)'
    <3>1. Journaled(x) \/ x = id
      BY <1>5, <2>3 DEF Journaled
    <3> QED BY <1>2, <1>7, <3>1 DEF JournalInv
  <2>4. ASSUME NEW i \in DOMAIN rows' PROVE Journaled(rows[i])'
    <3>1. rows'[i] = id \/ (i \in DOMAIN rows /\ rows'[i] = rows[i] /\ rows[i] \in Ids)
      BY <1>2
    <3> QED BY <1>2, <1>6, <3>1 DEF JournalInv, Journaled
  <2>5. ASSUME NEW x \in Ids
        PROVE  (journal[x].receipt # NoReceipt <=> Journaled(x) /\ ~Outstanding(x))'
    BY <1>2, <1>4, <1>5 DEF JournalInv, Journaled, Outstanding
  <2> QED BY <2>2, <2>3, <2>4, <2>5 DEF JournalInv
<1>15. TaskInv'
  BY <1>8 DEF TaskInv
<1>16. TerminalIsFinal'
  <2> SUFFICES ASSUME NEW x \in Ids, Terminal(x)'
               PROVE  \E h \in 1 .. finalHeight :
                        /\ chain[h].tx = <<x, journal'[x].receipt.version>>
                        /\ chain[h].hash = journal'[x].receipt.hash
                        /\ chain[h].ok <=> journal'[x].status = "confirmed"
    BY <1>2 DEF TerminalIsFinal
  <2>1. x # id /\ journal'[x] = journal[x] /\ Terminal(x)
    BY <1>5, <1>6 DEF Terminal
  <2> QED BY <1>2, <2>1 DEF TerminalIsFinal
<1> QED BY <1>11, <1>12, <1>13, <1>14, <1>15, <1>16 DEF IInv, JournalAhead

\* What changes the journal.
LEMMA JournalChanges ==
  ASSUME [Next]_svars, journal' # journal
  PROVE  \/ checkAnchor \/ replace \/ prepare
         \/ /\ task.step \in {"head", "recheck"}
            /\ \E status \in {"included", "confirmed", "reverted"} : Save(status)
<1>1. CASE readHead
  BY <1>1 DEF readHead, journalVars
<1>2. CASE recheckBlock
  BY <1>2 DEF recheckBlock, Outcome
<1> QED
  BY <1>1, <1>2
  DEF Next, SteadyNext, ChainStep, SettleStep, Mine, Finalize, Reorg, Diverge, recover, send, resend,
      recheckTerminal, passOver, findReceipt, publish, waitReceipt, republish, readBlock, Interrupt,
      FinalityConflict, svars, journalVars

-----------------------------------------------------------------------------
(* The theorems.                                                           *)

LEMMA InitHolds == Init => IInv
<1> SUFFICES ASSUME Init PROVE IInv
  OBVIOUS
<1>1. /\ journal = [id \in Ids |-> Unsent] /\ rows = <<>> /\ quarantined = FALSE /\ task = Idle
      /\ chain = <<>> /\ finalHeight = 0 /\ pool = {} /\ reorgs = 0 /\ diverged = FALSE
  BY DEF Init
<1>2. /\ Unsent \in TransactionState /\ Unsent.status = "none" /\ Unsent.receipt = NoReceipt
  BY Bounds DEF Unsent, TransactionState, Statuses, Versions
<1>3. SenderTypeOK
  <2>1. journal \in [Ids -> TransactionState]
    BY <1>1, <1>2
  <2>2. rows \in Seq(Ids) /\ chain \in Seq(Block) /\ finalHeight \in 0 .. Len(chain)
    BY <1>1
  <2>3. pool \subseteq Txs /\ reorgs \in 0 .. MaxReorgs
    BY <1>1, Bounds
  <2>4. quarantined \in BOOLEAN /\ diverged \in BOOLEAN
    BY <1>1, Zenon
  <2>5. task \in Task
    BY <1>1, IdleOk
  <2> QED BY <2>1, <2>2, <2>3, <2>4, <2>5 DEF SenderTypeOK
<1>4. WriteAhead /\ ChainInv
  BY <1>1 DEF WriteAhead, OnChain, ChainInv
<1>5. JournalInv /\ TerminalIsFinal
  BY <1>1, <1>2, <1>3, <1>4, NothingReadIsTruthful
     DEF JournalInv, Journaled, Outstanding, TerminalIsFinal, Terminal
<1> QED BY <1>1, <1>3, <1>4, <1>5, IdleOk DEF IInv, JournalAhead, TaskInv

LEMMA StepHolds == IInv /\ [Next]_svars => IInv'
<1> SUFFICES ASSUME IInv, [Next]_svars PROVE IInv'
  OBVIOUS
<1>1. CASE \E tx \in pool, ok \in BOOLEAN : Mine(tx, ok)
  BY <1>1, MineNext
<1>2. CASE Finalize
  BY <1>2, FinalizeNext
<1>3. CASE \E k \in finalHeight .. Len(chain) : Reorg(k)
  BY <1>3, ReorgNext
<1>4. CASE recover \/ Interrupt \/ FinalityConflict \/ \E id \in Ids : send(id) \/ resend(id)
  BY <1>4, BeginNext
<1>5. CASE recheckTerminal \/ passOver \/ findReceipt \/ waitReceipt
  BY <1>5, ReadNext
<1>6. CASE publish \/ republish
  BY <1>6, PublishNext
<1>7. CASE checkAnchor
  BY <1>7, AnchorNext
<1>8. CASE replace
  BY <1>8, ReplaceNext
<1>9. CASE readBlock \/ readHead \/ recheckBlock
  BY <1>9, ReadFinalityNext
<1>d. CASE Diverge
  BY <1>d, DivergeNext
<1>10. CASE prepare
  BY <1>10, PrepareNext
<1>11. CASE UNCHANGED svars
  <2>1. task \in Task /\ TaskOk(task) /\ quarantined \in BOOLEAN
    BY DEF IInv, TaskInv, JournalAhead, SenderTypeOK
  <2> QED BY <1>11, <2>1, TaskStep DEF svars, journalVars
<1> QED BY <1>1, <1>2, <1>3, <1>4, <1>5, <1>6, <1>7, <1>8, <1>9, <1>d, <1>10, <1>11
      DEF Next, SteadyNext, ChainStep, SettleStep

THEOREM JournalHolds == Spec => []IInv
  BY InitHolds, StepHolds, PTL DEF Spec

\* Whatever nodes hold or have mined, its bytes were journaled before
\* (prepare and replace commit before publish and republish).
THEOREM JournalLeadsNetwork == Spec => []JournalAhead
<1>1. IInv => JournalAhead
  BY DEF IInv
<1> QED BY <1>1, JournalHolds, PTL

\* A row that finish has called confirmed or reverted is in a finalized block
\* with that outcome, after any crash, reorg or late answer.
THEOREM OutcomesAreFinal == Spec => []TerminalIsFinal
<1>1. IInv => TerminalIsFinal
  BY DEF IInv
<1> QED BY <1>1, JournalHolds, PTL

\* Attempts of one job follow each other only over a finalized revert, and
\* versions of an attempt share a nonce: so a job takes effect once.
THEOREM JobsTakeEffectOnce == Spec => []OneEffect
<1>1. IInv => OneEffect
  <2> SUFFICES ASSUME IInv, NEW g \in DOMAIN chain, NEW h \in DOMAIN chain,
                      chain[g].ok, chain[h].ok, chain[g].tx[1][1] = chain[h].tx[1][1]
               PROVE  g = h
    BY DEF OneEffect
  <2>1. /\ ChainInv /\ JournalInv /\ TerminalIsFinal /\ WriteAhead /\ chain \in Seq(Block)
        /\ finalHeight \in 0 .. Len(chain) /\ DOMAIN chain = 1 .. Len(chain) /\ Len(chain) \in Nat
    BY DEF IInv, JournalAhead, SenderTypeOK
  <2>2. ASSUME NEW k \in DOMAIN chain
        PROVE  /\ chain[k].tx \in Txs /\ chain[k].tx[1] \in Ids /\ Journaled(chain[k].tx[1])
               /\ chain[k].tx[1] = <<chain[k].tx[1][1], chain[k].tx[1][2]>>
               /\ chain[k].tx[1][2] \in Attempts
               /\ k = journal[chain[k].tx[1]].nonce + 1
    <3>1. chain[k] \in Block /\ chain[k].tx \in OnChain /\ BlockOf(k)
      BY <2>1 DEF OnChain, ChainInv
    <3>2. chain[k].tx \in Txs /\ Journaled(chain[k].tx[1])
      BY <2>1, <3>1 DEF Block, WriteAhead
    <3>3. journal[chain[k].tx[1]].nonce \in Nat
      BY <3>2 DEF IInv, JournalAhead, SenderTypeOK, TransactionState, Txs
    <3> QED BY <2>1, <3>1, <3>2, <3>3 DEF BlockOf, NonceOf, Txs, Ids
  <2>3. ASSUME NEW i \in DOMAIN chain, NEW j \in DOMAIN chain,
               chain[i].tx[1][1] = chain[j].tx[1][1], chain[i].ok
        PROVE  ~(chain[i].tx[1][2] < chain[j].tx[1][2])
    <3> SUFFICES ASSUME chain[i].tx[1][2] < chain[j].tx[1][2] PROVE FALSE
      OBVIOUS
    <3>1. Retried(chain[j].tx[1]) /\ chain[i].tx[1] = <<chain[j].tx[1][1], chain[i].tx[1][2]>>
      BY <2>1, <2>2, <2>3 DEF JournalInv
    <3>2. journal[chain[i].tx[1]].status = "reverted"
      BY <2>2, <3>1 DEF Retried
    <3>3. PICK k \in 1 .. finalHeight :
            /\ chain[k].tx = <<chain[i].tx[1], journal[chain[i].tx[1]].receipt.version>>
            /\ chain[k].ok <=> journal[chain[i].tx[1]].status = "confirmed"
      BY <2>1, <2>2, <3>2 DEF TerminalIsFinal, Terminal
    <3>4. k \in DOMAIN chain /\ chain[k].tx[1] = chain[i].tx[1]
      BY <2>1, <3>3
    <3>5. k = i
      BY <2>2, <3>4
    <3> QED BY <2>3, <3>2, <3>3, <3>5
  <2>4. chain[g].tx[1][2] = chain[h].tx[1][2]
    BY <2>2, <2>3, Bounds DEF Attempts
  <2>5. chain[g].tx[1] = chain[h].tx[1]
    BY <2>2, <2>4
  <2> QED BY <2>2, <2>5
<1> QED BY <1>1, JournalHolds, PTL

\* Over changed history, noticed or not, nothing reaches nodes but what a reorg
\* gives back: assertSafe stands before every broadcast.
THEOREM QuarantineStopsPublication == Spec => QuarantineSilences
<1>1. ASSUME IInv, [Next]_svars, quarantined \/ diverged
      PROVE  pool' \subseteq pool \union OnChain
  <2>1. chain \in Seq(Block) /\ finalHeight \in Nat
    BY <1>1 DEF IInv, JournalAhead, SenderTypeOK
  <2>2. CASE \E tx \in pool, ok \in BOOLEAN : Mine(tx, ok)
    BY <2>2 DEF Mine
  <2>3. CASE \E k \in finalHeight .. Len(chain) : Reorg(k)
    <3>1. PICK k \in Nat : Reorg(k)
      BY <2>1, <2>3
    <3>2. pool' \subseteq pool \union {chain[h].tx : h \in k + 1 .. Len(chain)}
      BY <3>1 DEF Reorg
    <3>3. k + 1 .. Len(chain) \subseteq DOMAIN chain
      BY <2>1
    <3> QED BY <3>2, <3>3 DEF OnChain
  <2>4. CASE UNCHANGED pool
    BY <2>4
  <2> QED
    BY <1>1, <2>2, <2>3, <2>4
    DEF Next, SteadyNext, ChainStep, SettleStep, Finalize, Diverge, recover, send, resend,
        recheckTerminal, passOver, findReceipt, checkAnchor, publish, waitReceipt, replace, republish,
        readBlock, readHead, recheckBlock, Save, prepare, Interrupt, FinalityConflict, assertSafe, svars, chainVars
<1>2. IInv /\ [Next]_svars => [quarantined \/ diverged => pool' \subseteq pool \union OnChain]_svars
  BY <1>1
<1> QED BY <1>2, JournalHolds, PTL DEF Spec, QuarantineSilences

-----------------------------------------------------------------------------
(* Known work.                                                             *)

\* Known blocks are canonical, and their rows stand as they were recorded.
KnownInv ==
    /\ known \subseteq {chain[h].hash : h \in DOMAIN chain}
    /\ \A h \in DOMAIN chain : chain[h].hash \in known =>
          /\ chain[h].tx[1] \in Ids
          /\ journal[chain[h].tx[1]].receipt.hash = chain[h].hash

\* A block changes only by leaving the chain.
LEMMA BlocksStay ==
  ASSUME IInv, [Next]_svars, NEW h \in DOMAIN chain, h \in DOMAIN chain'
  PROVE  chain'[h] = chain[h]
<1>0. chain \in Seq(Block) /\ finalHeight \in Nat
  BY DEF IInv, JournalAhead, SenderTypeOK
<1>1. CASE \E tx \in pool, ok \in BOOLEAN : Mine(tx, ok)
  BY <1>0, <1>1 DEF Mine
<1>2. CASE \E k \in finalHeight .. Len(chain) : Reorg(k)
  <2>1. PICK k \in Nat : chain' = SubSeq(chain, 1, k) /\ k <= Len(chain)
    BY <1>0, <1>2 DEF Reorg
  <2>2. DOMAIN chain' = 1 .. k /\ \A i \in 1 .. k : chain'[i] = chain[i]
    BY <1>0, <2>1
  <2> QED BY <2>2
<1> QED
  BY <1>1, <1>2
  DEF Next, SteadyNext, ChainStep, SettleStep, Finalize, Diverge, recover, send, resend,
      recheckTerminal, passOver, findReceipt, checkAnchor, publish, waitReceipt, replace, republish,
      readBlock, readHead, recheckBlock, Save, prepare, Interrupt, FinalityConflict, svars, chainVars

\* A row that is recorded in a canonical block keeps that receipt and its newest
\* version: checkAnchor finds the block, what a task saves is that receipt,
\* and a bump is signed for an outstanding row only.
LEMMA RecordStands ==
  ASSUME IInv, [Next]_svars, NEW h \in DOMAIN chain, NEW id \in Ids,
         journal[id].receipt.hash = chain[h].hash
  PROVE  journal'[id].receipt = journal[id].receipt /\ journal'[id].newest = journal[id].newest
<1>0. /\ journal \in [Ids -> TransactionState] /\ journal[id] \in TransactionState
      /\ chain \in Seq(Block) /\ h \in 1 .. Len(chain) /\ chain[h].hash[1] = h
      /\ task \in Task /\ TaskOk(task)
  BY DEF IInv, JournalAhead, SenderTypeOK, ChainInv, BlockOf, TaskInv
<1>1. journal[id].receipt # NoReceipt /\ Journaled(id) /\ ~Outstanding(id)
  <2>1. journal[id].receipt # NoReceipt
    BY <1>0 DEF NoReceipt, NoBlock
  <2> QED BY <2>1 DEF IInv, JournalInv
<1>2. CASE checkAnchor /\ journal' # journal
  <2>1. /\ journal' = [journal EXCEPT ![Current] = [@ EXCEPT !.status = "signed", !.receipt = NoReceipt]]
        /\ Orphaned(journal[Current].receipt)
    BY <1>2 DEF checkAnchor, LostInclusion
  <2>2. ~Orphaned(journal[id].receipt)
    BY <1>0 DEF Orphaned, HeightOf
  <2> QED BY <1>0, <2>1, <2>2
<1>3. CASE replace
  <2>1. Outstanding(Current) /\ journal' = [journal EXCEPT ![Current].newest = @ + 1]
    BY <1>0, <1>3 DEF replace, TaskOk, TaskAt, Current
  <2> QED BY <1>0, <1>1, <2>1
<1>4. CASE prepare
  <2>1. PICK n : journal' = [journal EXCEPT ![task.goal] = [Unsent EXCEPT !.nonce = n, !.status = "signed"]]
    BY <1>4 DEF prepare
  <2>2. ~Journaled(task.goal)
    BY <1>0, <1>4 DEF prepare, TaskOk, TaskHolds
  <2>3. id # task.goal
    BY <1>1, <2>2
  <2> QED BY <1>0, <2>1, <2>3
<1>5. ASSUME task.step \in {"head", "recheck"}, NEW status, Save(status)
      PROVE  journal'[id].receipt = journal[id].receipt /\ journal'[id].newest = journal[id].newest
  <2>1. /\ journal' = [journal EXCEPT ![Current] =
             [@ EXCEPT !.status = status, !.receipt = task.found]]
        /\ Outstanding(Current) \/ journal[Current].receipt = task.found
    BY <1>0, <1>5 DEF Save, TaskOk, TaskAt, Current
  <2>2. CASE id # Current
    BY <1>0, <2>1, <2>2
  <2>3. CASE id = Current
    <3>1. journal[id].receipt = task.found
      BY <1>1, <2>1, <2>3
    <3>2. journal'[id] = [journal[id] EXCEPT !.status = status, !.receipt = task.found]
      BY <1>0, <2>1, <2>3
    <3> QED BY <1>0, <3>1, <3>2 DEF TransactionState
  <2> QED BY <2>2, <2>3
<1> QED BY <1>2, <1>3, <1>4, <1>5, JournalChanges

\* What is known stays known of the same row, and what is recorded of a
\* canonical block is true of it.
LEMMA KnownNext ==
  ASSUME IInv, IInv', KnownInv, [SHNext]_shvars
  PROVE  KnownInv'
<1>0. /\ [Next]_svars /\ chain \in Seq(Block) /\ chain' \in Seq(Block)
      /\ journal' \in [Ids -> TransactionState]
      /\ ChainInv /\ ChainInv' /\ JournalInv'
  BY DEF SHNext, shvars, IInv, JournalAhead, SenderTypeOK
<1>1. CASE UNCHANGED shvars
  BY <1>1 DEF KnownInv, shvars, svars, journalVars, chainVars
<1>2. CASE RecordKnown
  <2>1. known' \subseteq {chain'[h].hash : h \in DOMAIN chain'}
    BY <1>2 DEF RecordKnown
  <2>2. ASSUME NEW h \in DOMAIN chain', chain'[h].hash \in known'
        PROVE  /\ chain'[h].tx[1] \in Ids
               /\ journal'[chain'[h].tx[1]].receipt.hash = chain'[h].hash
    <3>1. chain'[h].hash \in known \/ \E id \in Ids : chain'[h].hash = journal'[id].receipt.hash
      BY <1>2, <2>2 DEF RecordKnown
    <3>2. CASE \E id \in Ids : chain'[h].hash = journal'[id].receipt.hash
      <4>1. PICK id \in Ids : chain'[h].hash = journal'[id].receipt.hash
        BY <3>2
      <4>2. Truthful(id, journal[id].receipt)'
        BY <1>0 DEF JournalInv
      <4>3. chain'[h].tx = <<id, journal'[id].receipt.version>>
        BY <4>1, <4>2 DEF Truthful
      <4> QED BY <4>1, <4>3
    <3>3. CASE chain'[h].hash \in known
      <4>1. PICK g \in DOMAIN chain : chain[g].hash = chain'[h].hash
        BY <3>3 DEF KnownInv
      <4>2. BlockOf(g) /\ BlockOf(h)'
        BY <1>0, <2>2 DEF ChainInv
      <4>3. g = h
        BY <4>1, <4>2 DEF BlockOf
      <4>4. chain'[h] = chain[h]
        BY <1>0, <2>2, <4>3, BlocksStay
      <4>5. /\ chain[h].tx[1] \in Ids
            /\ journal[chain[h].tx[1]].receipt.hash = chain[h].hash
        BY <3>3, <4>1, <4>3 DEF KnownInv
      <4> QED BY <1>0, <4>3, <4>4, <4>5, RecordStands
    <3> QED BY <3>1, <3>2, <3>3
  <2> QED BY <2>1, <2>2 DEF KnownInv
<1> QED BY <1>1, <1>2 DEF SHNext

\* While a block that the journal has recorded stays canonical, no fee bump is
\* signed for its operation: a missing receipt reopens nothing.
THEOREM KnownWorkIsLeftAlone == SHSpec => KnownWorkRests
<1>1. SHInit => IInv /\ KnownInv
  <2>1. SHInit => KnownInv
    BY DEF SHInit, KnownInv
  <2> QED BY <2>1, InitHolds DEF SHInit
<1>2. IInv /\ KnownInv /\ [SHNext]_shvars => (IInv /\ KnownInv)'
  <2> SUFFICES ASSUME IInv, KnownInv, [SHNext]_shvars PROVE IInv' /\ KnownInv'
    OBVIOUS
  <2>1. IInv'
    BY StepHolds DEF SHNext, shvars
  <2> QED BY <2>1, KnownNext
<1>3. IInv /\ KnownInv /\ [SHNext]_shvars =>
        [\A h \in DOMAIN chain : chain[h].hash \in known =>
           journal'[chain[h].tx[1]].newest = journal[chain[h].tx[1]].newest]_shvars
  <2> SUFFICES ASSUME IInv, KnownInv, [SHNext]_shvars, NEW h \in DOMAIN chain,
                      chain[h].hash \in known
               PROVE  journal'[chain[h].tx[1]].newest = journal[chain[h].tx[1]].newest
    OBVIOUS
  <2>1. [Next]_svars
    BY DEF SHNext, shvars
  <2>2. /\ chain[h].tx[1] \in Ids
        /\ journal[chain[h].tx[1]].receipt.hash = chain[h].hash
    BY DEF KnownInv
  <2> QED BY <2>1, <2>2, RecordStands
<1> QED BY <1>1, <1>2, <1>3, PTL DEF SHSpec, KnownWorkRests

-----------------------------------------------------------------------------
(* Nonces.                                                                 *)

\* Every step but prepare leaves the nonces of the journal and what is
\* journaled of it.
LEMMA NoncesStay ==
  ASSUME IInv, [Next]_svars, ~prepare, NEW id \in Ids
  PROVE  (Journaled(id)' <=> Journaled(id)) /\ journal'[id].nonce = journal[id].nonce
<1>1. journal \in [Ids -> TransactionState] /\ journal[id] \in TransactionState
  BY DEF IInv, JournalAhead, SenderTypeOK
<1>2. CASE journal' = journal
  BY <1>2 DEF Journaled
<1>3. CASE checkAnchor /\ journal' # journal
  <2>1. journal' = [journal EXCEPT ![Current] = [@ EXCEPT !.status = "signed", !.receipt = NoReceipt]]
    BY <1>3 DEF checkAnchor
  <2>2. journal[Current].status = "included"
    BY <1>3 DEF checkAnchor, IInv, TaskInv, TaskOk, TaskAt, Current
  <2>3. CASE id = Current
    <3>1. journal'[id] = [journal[id] EXCEPT !.status = "signed", !.receipt = NoReceipt]
      BY <1>1, <2>1, <2>3
    <3> QED BY <1>1, <2>2, <2>3, <3>1 DEF Journaled, TransactionState
  <2>4. CASE id # Current
    BY <1>1, <2>1, <2>4 DEF Journaled
  <2> QED BY <2>3, <2>4
<1>4. CASE replace
  <2>1. /\ journal'[id].status = journal[id].status
        /\ journal'[id].nonce = journal[id].nonce
    BY <1>1, <1>4 DEF replace, TransactionState
  <2> QED BY <2>1 DEF Journaled
<1>5. ASSUME NEW status \in {"included", "confirmed", "reverted"}, Save(status),
             task.step \in {"head", "recheck"}
      PROVE  (Journaled(id)' <=> Journaled(id)) /\ journal'[id].nonce = journal[id].nonce
  <2>1. /\ journal' = [journal EXCEPT ![Current] =
             [@ EXCEPT !.status = status, !.receipt = task.found]]
        /\ Journaled(Current)
    BY <1>5, CurrentIsJournaled DEF Save
  <2>2. CASE id = Current
    <3>1. journal'[id] = [journal[id] EXCEPT !.status = status, !.receipt = task.found]
      BY <1>1, <2>1, <2>2
    <3>2. status # "none" /\ journal'[id].status = status /\ journal'[id].nonce = journal[id].nonce
      BY <1>1, <3>1 DEF TransactionState
    <3> QED BY <2>1, <2>2, <3>2 DEF Journaled
  <2>3. CASE id # Current
    BY <1>1, <2>1, <2>3 DEF Journaled
  <2> QED BY <2>2, <2>3
<1> QED
  BY <1>2, <1>3, <1>4, <1>5, JournalChanges

\* What nodes hold or have mined, of an operation.
LEMMA HeldIsJournaled ==
  ASSUME IInv, NEW tx \in pool \union OnChain
  PROVE  tx \in Txs /\ tx[1] \in Ids /\ tx[2] \in Versions /\ tx = <<tx[1], tx[2]>> /\ Journaled(tx[1])
<1>1. pool \subseteq Txs /\ chain \in Seq(Block) /\ WriteAhead
  BY DEF IInv, JournalAhead, SenderTypeOK
<1>2. tx \in Txs
  <2>1. CASE tx \in pool
    BY <1>1, <2>1
  <2>2. CASE tx \in OnChain
    <3>1. PICK h \in DOMAIN chain : tx = chain[h].tx
      BY <2>2 DEF OnChain
    <3>2. chain[h] \in Block
      BY <1>1
    <3> QED BY <3>1, <3>2 DEF Block
  <2> QED BY <2>1, <2>2
<1> QED BY <1>1, <1>2 DEF WriteAhead, Txs

\* The next nonce is none that the journal has, if nothing is outstanding.
LEMMA NewNonceIsNew ==
  ASSUME NonceInv, MayAllocate, NEW n \in Len(chain) .. Len(chain) + Len(rows), PendingNonce(n),
         NEW id \in Ids, Journaled(id)
  PROVE  journal[id].nonce # n
<1>1. PICK v \in Versions : <<id, v>> \in pool \union OnChain
  BY DEF NonceInv, KeptInv, Held, MayAllocate
<1>2. CASE <<id, v>> \in pool
  BY <1>2 DEF PendingNonce, NonceOf
<1>3. CASE <<id, v>> \in OnChain
  <2>1. PICK h \in DOMAIN chain : chain[h].tx = <<id, v>>
    BY <1>3 DEF OnChain
  <2>2. NonceOf(chain[h].tx) = h - 1 /\ chain \in Seq(Block)
    BY DEF NonceInv, IInv, ChainInv, BlockOf, JournalAhead, SenderTypeOK
  <2>3. journal[id].nonce < Len(chain) /\ Len(chain) \in Nat
    BY <2>1, <2>2 DEF NonceOf
  <2> QED BY <2>2, <2>3
<1> QED BY <1>1, <1>2, <1>3

LEMMA NonceUnsharedNext == ASSUME NonceInv, [Next]_svars PROVE NonceUnshared'
<1>1. CASE ~prepare
  <2> SUFFICES ASSUME NEW i \in Ids, NEW j \in Ids, Journaled(i)', Journaled(j)',
                      journal'[i].nonce = journal'[j].nonce
               PROVE  i = j
    BY DEF NonceUnshared
  <2> QED BY <1>1, NoncesStay DEF NonceInv, NonceUnshared
<1>2. CASE prepare
  <2>1. PICK n \in Len(chain) .. Len(chain) + Len(rows) :
          /\ PendingNonce(n)
          /\ journal' = [journal EXCEPT ![task.goal] = [Unsent EXCEPT !.nonce = n, !.status = "signed"]]
    BY <1>2 DEF prepare
  <2>2. /\ journal \in [Ids -> TransactionState] /\ MayAllocate
    BY <1>2 DEF NonceInv, IInv, JournalAhead, SenderTypeOK, prepare
  <2>3. journal'[task.goal].nonce = n \/ task.goal \notin Ids
    BY <2>1, <2>2 DEF Unsent
  <2>4. \A i \in Ids : i # task.goal => journal'[i] = journal[i]
    BY <2>1, <2>2
  <2>5. \A i \in Ids : Journaled(i) => journal[i].nonce # n
    BY <2>1, <2>2, NewNonceIsNew
  <2> SUFFICES ASSUME NEW i \in Ids, NEW j \in Ids, Journaled(i)', Journaled(j)',
                      journal'[i].nonce = journal'[j].nonce
               PROVE  i = j
    BY DEF NonceUnshared
  <2>6. ASSUME NEW k \in Ids, Journaled(k)', k # task.goal
        PROVE  Journaled(k) /\ journal'[k].nonce = journal[k].nonce /\ journal[k].nonce # n
    BY <2>4, <2>5, <2>6 DEF Journaled
  <2> QED BY <2>3, <2>6 DEF NonceInv, NonceUnshared
<1> QED BY <1>1, <1>2

\* What a step of the chain takes from nodes is in a block or shut out for good
\* by another transaction of the nonce, of which there is none.
LEMMA HeldStays ==
  ASSUME NonceInv, [Next]_svars, PoolKeeps, NEW id \in Ids, Journaled(id), Held(id)
  PROVE  Held(id)'
<1>0. /\ IInv /\ journal \in [Ids -> TransactionState] /\ chain \in Seq(Block)
      /\ finalHeight \in Nat /\ Len(chain) \in Nat /\ DOMAIN chain = 1 .. Len(chain)
  BY DEF NonceInv, IInv, JournalAhead, SenderTypeOK
<1>1. PICK v \in Versions : <<id, v>> \in pool \union OnChain
  BY DEF Held
<1>a. SUFFICES <<id, v>> \in pool' \union OnChain' \/ Held(id)'
  BY DEF Held
<1>2. CASE \E tx \in pool, ok \in BOOLEAN : Mine(tx, ok)
  <2>1. PICK tx \in pool, ok \in BOOLEAN : Mine(tx, ok)
    BY <1>2
  <2>2. /\ journal' = journal /\ pool' = {other \in pool : NonceOf(other) # NonceOf(tx)}
        /\ chain' = Append(chain, [hash |-> <<Len(chain) + 1, reorgs>>, tx |-> tx, ok |-> ok])
    BY <2>1 DEF Mine, journalVars
  <2>3. OnChain \subseteq OnChain' /\ tx \in OnChain'
    <3>1. /\ DOMAIN chain' = 1 .. Len(chain) + 1 /\ chain'[Len(chain) + 1].tx = tx
          /\ \A h \in DOMAIN chain : chain'[h] = chain[h]
      BY <1>0, <2>2
    <3> QED BY <1>0, <3>1 DEF OnChain
  <2>5. CASE <<id, v>> \in OnChain
    BY <2>3, <2>5
  <2>6. CASE <<id, v>> \in pool /\ NonceOf(<<id, v>>) # NonceOf(tx)
    BY <2>2, <2>6
  <2>7. CASE <<id, v>> \in pool /\ NonceOf(<<id, v>>) = NonceOf(tx)
    <3>1. /\ tx[1] \in Ids /\ tx[2] \in Versions /\ tx = <<tx[1], tx[2]>> /\ Journaled(tx[1])
      BY <1>0, HeldIsJournaled
    <3>2. journal[id].nonce = journal[tx[1]].nonce
      BY <2>7 DEF NonceOf
    <3>3. id = tx[1]
      BY <3>1, <3>2 DEF NonceInv, NonceUnshared
    <3> QED BY <2>3, <3>1, <3>3 DEF Held
  <2> QED BY <1>1, <2>5, <2>6, <2>7
<1>3. CASE \E k \in finalHeight .. Len(chain) : Reorg(k)
  <2>1. PICK k \in finalHeight .. Len(chain) : Reorg(k)
    BY <1>3
  <2>2. /\ k \in Nat /\ k < Len(chain)
        /\ chain' = SubSeq(chain, 1, k)
        /\ pool' = pool \union {chain[h].tx : h \in k + 1 .. Len(chain)}
    BY <1>0, <2>1 DEF Reorg
  <2>4. CASE <<id, v>> \in pool
    BY <2>2, <2>4
  <2>5. CASE <<id, v>> \in OnChain
    <3>1. PICK h \in DOMAIN chain : chain[h].tx = <<id, v>>
      BY <2>5 DEF OnChain
    <3>2. CASE h > k
      BY <1>0, <2>2, <3>1, <3>2
    <3>3. CASE h <= k
      <4>1. DOMAIN chain' = 1 .. k /\ h \in 1 .. k /\ chain'[h] = chain[h]
        BY <1>0, <2>2, <3>3
      <4> QED BY <3>1, <4>1 DEF OnChain
    <3>4. h > k \/ h <= k
      BY <1>0, <2>2
    <3> QED BY <3>2, <3>3, <3>4, Zenon
  <2> QED BY <1>1, <2>4, <2>5
<1>4. CASE pool \subseteq pool' /\ chain' = chain
  BY <1>1, <1>4 DEF OnChain
<1> QED
  BY <1>2, <1>3, <1>4
  DEF Next, SteadyNext, ChainStep, SettleStep, Finalize, Diverge, recover, send, resend,
      recheckTerminal, passOver, findReceipt, checkAnchor, publish, Underpriced, Broadcast,
      waitReceipt, replace, republish, readBlock, readHead, recheckBlock, Save, prepare,
      Interrupt, FinalityConflict, svars, chainVars

\* An operation that was not included before and is now was just saved.
LEMMA NewlyIncluded ==
  ASSUME IInv, [Next]_svars, NEW id \in Ids, Journaled(id)', ~Outstanding(id)',
         ~(Journaled(id) /\ ~Outstanding(id))
  PROVE  task.step \in {"head", "recheck"} /\ id = Current
<1>0. /\ journal \in [Ids -> TransactionState] /\ journal[id] \in TransactionState
      /\ journal' # journal /\ journal'[id].status # journal[id].status
      /\ journal'[id].status # "signed"
  BY DEF IInv, JournalAhead, SenderTypeOK, Journaled, Outstanding
<1>1. CASE checkAnchor
  <2>1. journal' = [journal EXCEPT ![Current] = [@ EXCEPT !.status = "signed", !.receipt = NoReceipt]]
    BY <1>0, <1>1 DEF checkAnchor
  <2> QED BY <1>0, <2>1 DEF TransactionState
<1>2. CASE replace
  BY <1>0, <1>2 DEF replace, TransactionState
<1>3. CASE prepare
  <2>1. PICK n : journal' = [journal EXCEPT ![task.goal] = [Unsent EXCEPT !.nonce = n, !.status = "signed"]]
    BY <1>3 DEF prepare
  <2> QED BY <1>0, <2>1 DEF Unsent
<1>4. ASSUME NEW status, Save(status) PROVE id = Current
  BY <1>0, <1>4 DEF Save
<1> QED BY <1>0, <1>1, <1>2, <1>3, <1>4, JournalChanges

\* A receipt is saved only after its block was read as canonical.
LEMMA SavingStep ==
  ASSUME IInv, [Next]_svars, task'.step \in {"head", "recheck"}
  PROVE  /\ Current' = Current
         /\ \/ task.step \in {"head", "recheck"}
            \/ task.step = "finish" /\ ~Orphaned(task.found)
<1>0. task \in Task
  BY DEF IInv, JournalAhead, SenderTypeOK
<1>1. CASE UNCHANGED task
  BY <1>1 DEF Current
<1>2. CASE readBlock
  BY <1>0, <1>2 DEF readBlock, Current, Task
<1>3. ASSUME task' = Settled PROVE FALSE
  BY <1>0, <1>3 DEF Settled, Task
<1>4. CASE readHead
  BY <1>0, <1>3, <1>4 DEF readHead, Save, Current, Task
<1>5. ASSUME task' = Idle PROVE FALSE
  BY <1>5 DEF Idle
<1>6. ASSUME NEW step \in {"anchor", "publish", "wait", "replace", "republish", "finish"},
             NEW found, task' = [task EXCEPT !.found = found, !.step = step]
                          \/ task' = [task EXCEPT !.step = step]
      PROVE  FALSE
  BY <1>0, <1>6 DEF Task
<1>7. CASE findReceipt
  <2>1. PICK found : task' = [task EXCEPT !.found = found,
                    !.step = IF journal[Current].status = "included" THEN "anchor"
                             ELSE IF found = NoReceipt THEN "publish" ELSE "finish"]
    BY <1>7 DEF findReceipt
  <2> QED BY <1>0, <2>1 DEF Task
<1>8. CASE waitReceipt
  <2>1. PICK found : task' = [task EXCEPT !.found = found,
                    !.step = IF found = NoReceipt THEN "replace" ELSE "finish"]
    BY <1>8 DEF waitReceipt
  <2> QED BY <1>0, <2>1 DEF Task
<1>9. CASE checkAnchor
  BY <1>0, <1>9 DEF checkAnchor, Task
<1>10. CASE publish \/ replace
  BY <1>0, <1>10 DEF publish, Underpriced, replace, Task
<1>11. CASE prepare \/ recover \/ \E id \in Ids : send(id) \/ resend(id)
  BY <1>11 DEF prepare, recover, send, resend, Idle
<1>12. CASE recheckTerminal \/ passOver \/ recheckBlock
  BY <1>3, <1>12 DEF recheckTerminal, passOver, recheckBlock, Save
<1>13. CASE republish \/ Interrupt \/ FinalityConflict
  BY <1>5, <1>13 DEF republish, Interrupt, FinalityConflict
<1>14. CASE ChainStep \/ Diverge
  BY <1>1, <1>14 DEF ChainStep, Mine, Finalize, Reorg, Diverge
<1> QED
  BY <1>1, <1>2, <1>4, <1>7, <1>8, <1>9, <1>10, <1>11, <1>12, <1>13, <1>14
  DEF Next, SteadyNext, SettleStep, svars

\* What a receipt that was just read shows is on the chain.
LEMMA ReadIsHeld ==
  ASSUME IInv, task.step = "finish", ~Orphaned(task.found)
  PROVE  Held(Current)
<1>1. /\ Truthful(Current, task.found) /\ task.found \in Receipt /\ task.found # NoReceipt
  BY CurrentIsJournaled DEF IInv, JournalAhead, SenderTypeOK, Task, TaskInv, TaskOk, TaskAt
<1>2. task.found.hash[1] \in DOMAIN chain /\ chain[task.found.hash[1]].hash = task.found.hash
  BY <1>1 DEF Orphaned, HeightOf
<1>3. chain[task.found.hash[1]].tx = <<Current, task.found.version>>
  BY <1>1, <1>2 DEF Truthful
<1>4. task.found.version \in Versions
  BY <1>1 DEF Receipt
<1> QED BY <1>2, <1>3, <1>4 DEF OnChain, Held

LEMMA KeptNext ==
  ASSUME NonceInv, [Next]_svars, PoolKeeps
  PROVE  KeptInv'
<1>0. IInv /\ KeptInv
  BY DEF NonceInv
<1>c. task.step \in {"finish", "head", "recheck"} => Current \in Ids /\ Journaled(Current)
  BY <1>0, CurrentIsJournaled
<1>1. ASSUME NEW id \in Ids, Journaled(id)', ~Outstanding(id)' PROVE Held(id)'
  <2>1. CASE Journaled(id) /\ ~Outstanding(id)
    BY <1>0, <2>1, HeldStays DEF KeptInv
  <2>2. CASE ~(Journaled(id) /\ ~Outstanding(id))
    <3>1. task.step \in {"head", "recheck"} /\ id = Current
      BY <1>0, <1>1, <2>2, NewlyIncluded
    <3> QED BY <1>0, <1>c, <3>1, HeldStays DEF KeptInv
  <2> QED BY <2>1, <2>2
<1>2. ASSUME task'.step \in {"head", "recheck"} PROVE Held(Current)'
  <2>1. /\ Current' = Current
        /\ task.step \in {"head", "recheck"} \/ (task.step = "finish" /\ ~Orphaned(task.found))
    BY <1>0, <1>2, SavingStep
  <2>2. PICK id \in Ids : id = Current /\ Journaled(id) /\ Held(id)
    BY <1>0, <1>c, <2>1, ReadIsHeld DEF KeptInv
  <2>3. Held(id)'
    BY <2>2, HeldStays
  <2> QED BY <2>1, <2>2, <2>3 DEF Held
<1> QED BY <1>1, <1>2 DEF KeptInv

\* While nodes keep what a reorg gives back to them, no nonce is signed for two
\* operations: prepare signs only when every earlier one was included, and what
\* was included is on the chain or waits in the mempool it asks for its nonce.
THEOREM NoncesAreUnshared == ASSUME PoolKeeps PROVE Spec => []NonceUnshared
<1>1. Init => NonceInv
  <2>1. Init => NonceUnshared /\ KeptInv
    BY DEF Init, NonceUnshared, KeptInv, Journaled, Unsent, Idle
  <2> QED BY <2>1, InitHolds DEF NonceInv
<1>2. NonceInv /\ [Next]_svars => NonceInv'
  BY StepHolds, NonceUnsharedNext, KeptNext DEF NonceInv
<1>3. NonceInv => NonceUnshared
  BY DEF NonceInv
<1> QED BY <1>1, <1>2, <1>3, PTL DEF Spec
=============================================================================
