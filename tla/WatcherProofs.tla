---------------------------- MODULE WatcherProofs ----------------------------
(***************************************************************************)
(* For any messages, payloads and chains: the watcher loses no request and *)
(* forgets no conflict, records only true outcomes, never leaves a         *)
(* quarantine by itself, and its saved state implements ReleaseQueue.      *)
(*                                                                         *)
(* The argument has two halves.  Good(state) says of one snapshot that its *)
(* queue, burns and conflicts are what the blocks before its cursors tell; *)
(* each operation on snapshots keeps it.  QueueSaved and its neighbours    *)
(* say how the snapshots in memory, in the running tick and on disk relate *)
(* at every step boundary.                                                 *)
(***************************************************************************)
EXTENDS Watcher, WellFoundedInduction, SequenceTheorems, TLAPS

\* What the blocks of a chain say of a message.
Told(chain, m) ==
    {chain[i].event.payload : i \in {j \in DOMAIN chain : chain[j].event.message = m}}

Known(payload, told) == IF told = {} THEN payload = None ELSE payload \in told

Good(state) ==
    /\ state \in Snapshot
    /\ \A m \in Messages :
         /\ Told(state.egress, m) # {} <=> m \in Pending(state) \/ m \in state.completed
         /\ ~(m \in Pending(state) /\ m \in state.completed)
         /\ m \in Pending(state) => state.pending[m] \in Told(state.egress, m)
         /\ m \in state.conflictingReleases => Told(state.egress, m) # {}
         /\ m \in Pending(state) =>
              (m \in state.conflictingReleases <=> \E p, q \in Told(state.egress, m) : p # q)
         /\ ~state.quarantine => Known(state.burns[m], Told(state.ingress, m))
         /\ ~state.quarantine =>
              (m \in state.conflictingBurns <=> \E p, q \in Told(state.ingress, m) : p # q)

Saved == IF disk = None THEN Fresh ELSE disk

SameQueue(state, other) ==
    state.pending = other.pending /\ state.completed = other.completed

\* Where the queue in memory may be ahead of the saved one, and what an abort
\* goes back to.
QueueSaved ==
    /\ step \in {"idle", "ingress", "observe", "acknowledge"} => SameQueue(memory, Saved)
    /\ step \in {"ingress", "egress", "persist"} =>
         /\ before # None
         /\ SameQueue(before, Saved)
         /\ ~memory.quarantine /\ ~before.quarantine
    /\ step \in {"egress", "persist"} =>
         /\ memory.completed = before.completed
         /\ Pending(before) \subseteq Pending(memory)

AckRecorded ==
    step = "acknowledge" =>
      acking \in Pending(memory) /\ outcomes[acking] # None /\ ~memory.quarantine

HaltedInMemory == Halted => memory.quarantine

IInv ==
    /\ WatcherTypeOK
    /\ Good(memory)
    /\ before # None => Good(before)
    /\ disk # None => Good(disk)
    /\ QueueSaved
    /\ AckRecorded
    /\ HaltedInMemory
    /\ OutcomesTrue

-----------------------------------------------------------------------------
(* Chains.                                                                 *)

\* The first of a set of positions, which WithRequests chooses.
LEMMA FirstOne ==
    ASSUME NEW T \in SUBSET Nat, T # {}
    PROVE  \E x \in T : \A y \in T : x <= y
<1>1. PICK x \in T : \A y \in T : ~(<<y, x>> \in OpToRel(<, Nat))
    BY WFMin, NatLessThanWellFounded
<1>2. ASSUME NEW y \in T, NEW z \in T, z < y
      PROVE  <<z, y>> \in OpToRel(<, Nat)
    <2>1. <<z, y>> \in Nat \X Nat /\ <<z, y>>[1] < <<z, y>>[2]
        BY <1>2
    <2> QED
        BY <2>1 DEF OpToRel
<1>3. \A y \in T : ~(y < x)
    BY <1>1, <1>2
<1> QED
    BY <1>3

\* The last of a bounded set of positions, which WithBurns chooses.
LEMMA LastOne ==
    ASSUME NEW T \in SUBSET Nat, T # {}, NEW n \in Nat, \A y \in T : y <= n
    PROVE  \E x \in T : \A y \in T : y <= x
<1> DEFINE U == {n - y : y \in T}
<1>1. \A y \in T : y \in Nat /\ n - y \in Nat
    OBVIOUS
<1>2. U \in SUBSET Nat /\ U # {}
    BY <1>1
<1>3. PICK u \in U : \A v \in U : u <= v
    BY <1>2, FirstOne
<1>4. PICK x \in T : u = n - x
    BY <1>3
<1>5. \A y \in T : n - x <= n - y
    BY <1>3, <1>4
<1> QED
    BY <1>1, <1>5

\* What a checkpoint was told, and what a longer read of the chain adds.
LEMMA ToldMore ==
    ASSUME NEW chain \in Chain, NEW checkpoint \in Chain, Extends(chain, checkpoint),
           NEW last \in Len(checkpoint) .. Len(chain), NEW m \in Messages
    PROVE  /\ SubSeq(chain, 1, last) \in Chain
           /\ Told(SubSeq(chain, 1, last), m) =
                Told(checkpoint, m)
                \union PayloadsAt(chain, Events(chain, Len(checkpoint) + 1, last, m))
<1> DEFINE read == SubSeq(chain, 1, last)
<1>1. Len(checkpoint) \in Nat /\ Len(chain) \in Nat /\ last \in Nat /\ last <= Len(chain)
    BY DEF Chain
<1>2. read \in Chain /\ Len(read) = last /\ \A i \in 1 .. last : read[i] = chain[i]
    BY <1>1, SubSeqProperties, ElementOfSeq DEF Chain
<1>3. DOMAIN read = 1 .. last /\ DOMAIN checkpoint = 1 .. Len(checkpoint)
    BY <1>2 DEF Chain
<1>4. \A i \in 1 .. Len(checkpoint) : checkpoint[i] = chain[i]
    BY <1>3 DEF Extends
<1>5. {j \in DOMAIN read : read[j].event.message = m} =
        {j \in DOMAIN checkpoint : checkpoint[j].event.message = m}
        \union Events(chain, Len(checkpoint) + 1, last, m)
    BY <1>1, <1>2, <1>3, <1>4 DEF Events
<1> DEFINE old == {j \in DOMAIN checkpoint : checkpoint[j].event.message = m}
           new == Events(chain, Len(checkpoint) + 1, last, m)
<1>6. \A j \in old : checkpoint[j] = chain[j] /\ read[j] = chain[j]
    BY <1>1, <1>2, <1>3, <1>4
<1>7. \A j \in new : read[j] = chain[j]
    BY <1>1, <1>2 DEF Events
<1>8. Told(read, m) = {read[j].event.payload : j \in old \union new}
    BY <1>5 DEF Told
<1>9. Told(checkpoint, m) = {checkpoint[j].event.payload : j \in old}
    BY DEF Told
<1>10. PayloadsAt(chain, new) = {chain[j].event.payload : j \in new}
    BY DEF PayloadsAt
<1>11. Told(read, m) = Told(checkpoint, m) \union PayloadsAt(chain, new)
    <2> HIDE DEF old, new, read
    <2> QED
        BY <1>6, <1>7, <1>8, <1>9, <1>10
<1> QED
    BY <1>2, <1>11

\* What a chain tells of a message is a set of payloads.
LEMMA ToldPayloads ==
    ASSUME NEW chain \in Chain, NEW m \in Messages
    PROVE  Told(chain, m) \subseteq Payloads
<1>1. \A i \in DOMAIN chain : chain[i] \in Block
    BY ElementOfSeq DEF Chain
<1>2. \A i \in DOMAIN chain : chain[i].event.payload \in Payloads
    BY <1>1 DEF Block, Event
<1> QED
    BY <1>2 DEF Told

\* Payloads of events are payloads, and empty sets of positions have none.
LEMMA EventPayloads ==
    ASSUME NEW chain \in Chain, NEW first \in Nat \ {0}, NEW last \in Nat, last <= Len(chain),
           NEW m \in Messages
    PROVE  LET new == Events(chain, first, last, m)
           IN  /\ new \in SUBSET Nat /\ \A i \in new : i <= last
               /\ PayloadsAt(chain, new) \subseteq Payloads
               /\ new = {} <=> PayloadsAt(chain, new) = {}
               /\ \A i \in new : chain[i].event.payload \in PayloadsAt(chain, new)
<1> DEFINE new == Events(chain, first, last, m)
<1>1. \A i \in new : i \in 1 .. Len(chain) /\ i <= last
    BY DEF Events, Chain
<1>2. \A i \in new : chain[i] \in Block
    BY <1>1, ElementOfSeq DEF Chain
<1>3. \A i \in new : chain[i].event.payload \in Payloads
    BY <1>2 DEF Block, Event
<1>4. Len(chain) \in Nat
    BY DEF Chain
<1>5. new \in SUBSET Nat /\ \A i \in new : i <= last
    BY <1>1, <1>4
<1>6. /\ PayloadsAt(chain, new) \subseteq Payloads
      /\ new = {} <=> PayloadsAt(chain, new) = {}
      /\ \A i \in new : chain[i].event.payload \in PayloadsAt(chain, new)
    <2> HIDE DEF new
    <2> QED
        BY <1>3 DEF PayloadsAt
<1> QED
    BY <1>5, <1>6

-----------------------------------------------------------------------------
(* Operations on snapshots.                                                *)

\* A watcher that starts without a snapshot has told and queued nothing.
LEMMA GoodFresh == Good(Fresh) /\ Pending(Fresh) = {}
<1>1. Fresh \in Snapshot
    BY DEF Fresh, Snapshot, Chain
<1>2. \A m \in Messages : Told(<<>>, m) = {}
    BY DEF Told
<1> QED
    BY <1>1, <1>2 DEF Good, Fresh, Pending, Known

\* A range of the ingress feed.
LEMMA GoodWithBurns ==
    ASSUME NEW state, Good(state), source \in Chain, Extends(source, state.ingress),
           NEW last \in Len(state.ingress) .. Len(source)
    PROVE  /\ Good(WithBurns(state, last))
           /\ SameQueue(WithBurns(state, last), state)
           /\ WithBurns(state, last).quarantine = state.quarantine
<1> DEFINE new(m) == Events(source, Len(state.ingress) + 1, last, m)
           told(m) == PayloadsAt(source, new(m))
           next == WithBurns(state, last)
           burns == [m \in Messages |->
             IF new(m) = {} THEN state.burns[m]
             ELSE source[CHOOSE i \in new(m) : \A j \in new(m) : j <= i].event.payload]
           conflicts == state.conflictingBurns \union
             {m \in Messages : Differ(state.burns[m], told(m))}
<1>1. state \in Snapshot /\ state.ingress \in Chain
    BY DEF Good, Snapshot
<1>2. /\ next.ingress = SubSeq(source, 1, last) /\ next.burns = burns
      /\ next.conflictingBurns = conflicts
      /\ next.egress = state.egress /\ next.pending = state.pending
      /\ next.completed = state.completed /\ next.quarantine = state.quarantine
      /\ next.conflictingReleases = state.conflictingReleases
    BY <1>1 DEF WithBurns, Snapshot
<1>3. Len(state.ingress) \in Nat /\ last \in Nat /\ last <= Len(source)
    BY <1>1 DEF Chain
<1>4. ASSUME NEW m \in Messages
      PROVE  /\ Told(next.ingress, m) = Told(state.ingress, m) \union told(m)
             /\ told(m) \subseteq Payloads
             /\ IF told(m) = {} THEN burns[m] = state.burns[m] ELSE burns[m] \in told(m)
    <2>1. Told(next.ingress, m) = Told(state.ingress, m) \union told(m)
        BY <1>1, <1>2, ToldMore
    <2>2. /\ new(m) \in SUBSET Nat /\ \A i \in new(m) : i <= last
          /\ told(m) \subseteq Payloads /\ (new(m) = {} <=> told(m) = {})
          /\ \A i \in new(m) : source[i].event.payload \in told(m)
        BY <1>3, EventPayloads
    <2>3. CASE new(m) = {}
        BY <2>1, <2>2, <2>3
    <2>4. CASE new(m) # {}
        <3> HIDE DEF new
        <3>1. \E i \in new(m) : \A j \in new(m) : j <= i
            BY <1>3, <2>2, <2>4, LastOne
        <3>2. (CHOOSE i \in new(m) : \A j \in new(m) : j <= i) \in new(m)
            BY <3>1
        <3>3. burns[m] \in told(m)
            BY <2>2, <2>4, <3>2
        <3> QED
            BY <2>1, <2>2, <2>4, <3>3
    <2> QED
        BY <2>3, <2>4
<1>5. next \in Snapshot
    <2>1. SubSeq(source, 1, last) \in Chain
        BY <1>1, <1>3, SubSeqProperties, ElementOfSeq DEF Chain
    <2>2. burns \in [Messages -> Payloads \union {None}]
        <3>1. \A m \in Messages : burns[m] \in Payloads \union {None}
            BY <1>1, <1>4 DEF Snapshot
        <3> QED
            BY <3>1
    <2>3. conflicts \subseteq Messages
        BY <1>1 DEF Snapshot
    <2> HIDE DEF burns, conflicts
    <2>4. next = [state EXCEPT !.ingress = SubSeq(source, 1, last), !.burns = burns,
                               !.conflictingBurns = conflicts]
        BY <1>1 DEF WithBurns, Snapshot, burns, conflicts
    <2> QED
        BY <1>1, <2>1, <2>2, <2>3, <2>4 DEF Snapshot
<1>6. ASSUME NEW m \in Messages, ~state.quarantine
      PROVE  /\ Known(next.burns[m], Told(next.ingress, m))
             /\ m \in next.conflictingBurns <=> \E p, q \in Told(next.ingress, m) : p # q
    <2>1. /\ Known(state.burns[m], Told(state.ingress, m))
          /\ m \in state.conflictingBurns <=> \E p, q \in Told(state.ingress, m) : p # q
        BY <1>6 DEF Good
    <2>2. m \in conflicts <=> m \in state.conflictingBurns \/ Differ(state.burns[m], told(m))
        OBVIOUS
    <2>3. None \notin Told(state.ingress, m)
        BY <1>1, ToldPayloads, WatcherAssumption
    <2> HIDE DEF told, burns, conflicts, next, new
    <2> QED
        BY <1>2, <1>4, <2>1, <2>2, <2>3, WatcherAssumption DEF Known, Differ
<1> HIDE DEF next
<1>7. Good(next)
    BY <1>2, <1>5, <1>6 DEF Good, Pending
<1> QED
    BY <1>2, <1>7 DEF next, SameQueue

\* A range of the egress feed: nothing is dequeued, and what is new is queued.
LEMMA GoodWithRequests ==
    ASSUME NEW state, Good(state), destination \in Chain, Extends(destination, state.egress),
           NEW last \in Len(state.egress) .. Len(destination)
    PROVE  /\ Good(WithRequests(state, last))
           /\ WithRequests(state, last).completed = state.completed
           /\ Pending(state) \subseteq Pending(WithRequests(state, last))
           /\ WithRequests(state, last).quarantine = state.quarantine
<1> DEFINE all(m) == Events(destination, Len(state.egress) + 1, last, m)
           new(m) == IF m \in state.completed THEN {} ELSE all(m)
           told(m) == PayloadsAt(destination, new(m))
           next == WithRequests(state, last)
           pending == [m \in Messages |->
             IF state.pending[m] # None \/ new(m) = {} THEN state.pending[m]
             ELSE destination[CHOOSE i \in new(m) : \A j \in new(m) : i <= j].event.payload]
           conflicts == state.conflictingReleases \union
             {m \in Messages : Differ(state.pending[m], told(m))}
<1>1. state \in Snapshot /\ state.egress \in Chain
    BY DEF Good, Snapshot
<1>2. /\ next.egress = SubSeq(destination, 1, last) /\ next.pending = pending
      /\ next.conflictingReleases = conflicts
      /\ next.ingress = state.ingress /\ next.burns = state.burns
      /\ next.completed = state.completed /\ next.quarantine = state.quarantine
      /\ next.conflictingBurns = state.conflictingBurns
    BY <1>1 DEF WithRequests, Snapshot
<1>3. Len(state.egress) \in Nat /\ last \in Nat /\ last <= Len(destination)
    BY <1>1 DEF Chain
<1>4. ASSUME NEW m \in Messages
      PROVE  /\ Told(next.egress, m) =
                  Told(state.egress, m) \union PayloadsAt(destination, all(m))
             /\ told(m) \subseteq Payloads
             /\ told(m) = IF m \in state.completed THEN {} ELSE PayloadsAt(destination, all(m))
             /\ IF state.pending[m] # None \/ told(m) = {} THEN pending[m] = state.pending[m]
                ELSE pending[m] \in told(m)
    <2>1. Told(next.egress, m) = Told(state.egress, m) \union PayloadsAt(destination, all(m))
        BY <1>1, <1>2, ToldMore
    <2>2. /\ all(m) \in SUBSET Nat
          /\ PayloadsAt(destination, all(m)) \subseteq Payloads
          /\ (all(m) = {} <=> PayloadsAt(destination, all(m)) = {})
          /\ \A i \in all(m) : destination[i].event.payload \in PayloadsAt(destination, all(m))
        BY <1>3, EventPayloads
    <2>3. CASE new(m) = {}
        <3>1. told(m) = {}
            BY <2>3 DEF PayloadsAt
        <3> QED
            BY <2>1, <2>2, <2>3, <3>1
    <2>4. CASE new(m) # {}
        <3>1. new(m) = all(m) /\ m \notin state.completed
            BY <2>4
        <3> HIDE DEF new, all
        <3>2. \E i \in new(m) : \A j \in new(m) : i <= j
            BY <2>2, <2>4, <3>1, FirstOne
        <3>3. (CHOOSE i \in new(m) : \A j \in new(m) : i <= j) \in new(m)
            BY <3>2
        <3>4. state.pending[m] = None => pending[m] \in told(m)
            BY <2>2, <2>4, <3>1, <3>3
        <3> QED
            BY <2>1, <2>2, <2>4, <3>1, <3>4
    <2> QED
        BY <2>3, <2>4
<1>5. next \in Snapshot
    <2>1. SubSeq(destination, 1, last) \in Chain
        BY <1>1, <1>3, SubSeqProperties, ElementOfSeq DEF Chain
    <2>2. pending \in [Messages -> Payloads \union {None}]
        <3>1. \A m \in Messages : pending[m] \in Payloads \union {None}
            BY <1>1, <1>4 DEF Snapshot
        <3> QED
            BY <3>1
    <2>3. conflicts \subseteq Messages
        BY <1>1 DEF Snapshot
    <2> HIDE DEF pending, conflicts
    <2>4. next = [state EXCEPT !.egress = SubSeq(destination, 1, last), !.pending = pending,
                               !.conflictingReleases = conflicts]
        BY <1>1 DEF WithRequests, Snapshot, pending, conflicts
    <2> QED
        BY <1>1, <2>1, <2>2, <2>3, <2>4 DEF Snapshot
<1>6. ASSUME NEW m \in Messages
      PROVE  /\ Told(next.egress, m) # {} <=> m \in Pending(next) \/ m \in next.completed
             /\ ~(m \in Pending(next) /\ m \in next.completed)
             /\ m \in Pending(next) => next.pending[m] \in Told(next.egress, m)
             /\ m \in next.conflictingReleases => Told(next.egress, m) # {}
             /\ m \in Pending(next) =>
                  (m \in next.conflictingReleases <=> \E p, q \in Told(next.egress, m) : p # q)
             /\ m \in Pending(state) => m \in Pending(next)
    <2>1. /\ Told(state.egress, m) # {} <=> state.pending[m] # None \/ m \in state.completed
          /\ ~(state.pending[m] # None /\ m \in state.completed)
          /\ state.pending[m] # None => state.pending[m] \in Told(state.egress, m)
          /\ m \in state.conflictingReleases => Told(state.egress, m) # {}
          /\ state.pending[m] # None =>
               (m \in state.conflictingReleases <=> \E p, q \in Told(state.egress, m) : p # q)
        BY DEF Good, Pending
    <2>2. m \in conflicts <=> m \in state.conflictingReleases \/ Differ(state.pending[m], told(m))
        OBVIOUS
    <2>3. m \in Pending(next) <=> pending[m] # None
        BY <1>2 DEF Pending
    <2>4. m \in Pending(state) <=> state.pending[m] # None
        BY DEF Pending
    <2>5. None \notin Told(state.egress, m)
        BY <1>1, ToldPayloads, WatcherAssumption
    <2> DEFINE added == PayloadsAt(destination, all(m))
    <2>6. /\ Told(next.egress, m) = Told(state.egress, m) \union added
          /\ told(m) = (IF m \in state.completed THEN {} ELSE added)
          /\ added = {} \/ None \notin told(m)
          /\ IF state.pending[m] # None \/ told(m) = {} THEN pending[m] = state.pending[m]
             ELSE pending[m] \in told(m)
          /\ next.completed = state.completed /\ next.conflictingReleases = conflicts
          /\ next.pending = pending
        BY <1>2, <1>4, WatcherAssumption
    <2> HIDE DEF added, told, pending, conflicts, next, new, all
    <2>7. CASE m \in state.completed
        BY <2>1, <2>2, <2>3, <2>4, <2>6, <2>7 DEF Differ
    <2>8. CASE state.pending[m] # None
        BY <2>1, <2>2, <2>3, <2>4, <2>6, <2>8 DEF Differ
    <2>9. CASE state.pending[m] = None /\ m \notin state.completed
        <3>1. Told(next.egress, m) = added /\ told(m) = added /\ m \notin state.conflictingReleases
            BY <2>1, <2>6, <2>9
        <3>2. m \in Pending(next) <=> added # {}
            BY <2>3, <2>5, <2>6, <2>9, <3>1, <1>4, WatcherAssumption
        <3> QED
            BY <2>1, <2>2, <2>3, <2>4, <2>6, <2>9, <3>1, <3>2 DEF Differ
    <2> QED
        BY <2>1, <2>7, <2>8, <2>9
<1> HIDE DEF next, all, new, told, pending, conflicts
<1>7. Good(next)
    <2>1. \A m \in Messages :
            /\ ~state.quarantine => Known(state.burns[m], Told(state.ingress, m))
            /\ ~state.quarantine =>
                 (m \in state.conflictingBurns <=> \E p, q \in Told(state.ingress, m) : p # q)
        BY DEF Good
    <2> QED
        BY <1>2, <1>5, <1>6, <2>1 DEF Good
<1>8. Pending(state) \subseteq Pending(next)
    BY <1>6 DEF Pending
<1> QED
    BY <1>2, <1>7, <1>8 DEF next

\* A quarantine sets the flag and touches nothing else.
LEMMA GoodQuarantined ==
    ASSUME NEW state, Good(state)
    PROVE  /\ Good(Quarantined(state))
           /\ SameQueue(Quarantined(state), state)
           /\ Quarantined(state).quarantine
<1> DEFINE next == Quarantined(state)
<1>1. state \in Snapshot
    BY DEF Good
<1>2. /\ next \in Snapshot
      /\ next.quarantine
      /\ next.egress = state.egress /\ next.pending = state.pending
      /\ next.completed = state.completed
      /\ next.conflictingReleases = state.conflictingReleases
    BY <1>1 DEF Quarantined, Snapshot
<1> HIDE DEF next
<1>3. Good(next)
    BY <1>2 DEF Good, Pending
<1> QED
    BY <1>2, <1>3 DEF next, SameQueue

\* An acknowledgement moves one release from the pending to the completed.
LEMMA GoodAcknowledged ==
    ASSUME NEW state, Good(state), NEW m \in Pending(state)
    PROVE  /\ Good(Acknowledged(state, m))
           /\ Acknowledged(state, m).completed = state.completed \union {m}
           /\ Acknowledged(state, m).pending = [state.pending EXCEPT ![m] = None]
           /\ Acknowledged(state, m).quarantine = state.quarantine
<1> DEFINE next == Acknowledged(state, m)
<1>1. state \in Snapshot /\ m \in Messages
    BY DEF Good, Pending
<1>2. /\ next \in Snapshot
      /\ next.pending = [state.pending EXCEPT ![m] = None]
      /\ next.completed = state.completed \union {m}
      /\ next.egress = state.egress /\ next.ingress = state.ingress
      /\ next.burns = state.burns /\ next.conflictingBurns = state.conflictingBurns
      /\ next.conflictingReleases = state.conflictingReleases
      /\ next.quarantine = state.quarantine
    BY <1>1 DEF Acknowledged, Snapshot
<1> HIDE DEF next
<1>3. ASSUME NEW n \in Messages
      PROVE  /\ n \in Pending(next) <=> n # m /\ n \in Pending(state)
             /\ n \in Pending(next) => next.pending[n] = state.pending[n]
    BY <1>1, <1>2 DEF Pending, Snapshot
<1>4. Good(next)
    BY <1>1, <1>2, <1>3 DEF Good
<1> QED
    BY <1>2, <1>4 DEF next

\* A restart takes up the saved queue and any saved quarantine.
LEMMA GoodRestored ==
    ASSUME disk # None => Good(disk), sourceQuarantine \in BOOLEAN
    PROVE  /\ Good(Restored)
           /\ SameQueue(Restored, Saved)
           /\ Halted => Restored.quarantine
<1>1. Good(Saved) /\ Saved \in Snapshot
    BY GoodFresh DEF Saved, Good
<1>2. Restored = [Saved EXCEPT !.quarantine = @ \/ sourceQuarantine]
    BY DEF Restored, Saved
<1>3. disk # None => Saved = disk
    BY DEF Saved
<1> HIDE DEF Restored, Saved
<1>4. /\ Restored \in Snapshot
      /\ Restored.quarantine <=> Saved.quarantine \/ sourceQuarantine
      /\ Restored.ingress = Saved.ingress /\ Restored.egress = Saved.egress
      /\ Restored.burns = Saved.burns /\ Restored.pending = Saved.pending
      /\ Restored.completed = Saved.completed
      /\ Restored.conflictingBurns = Saved.conflictingBurns
      /\ Restored.conflictingReleases = Saved.conflictingReleases
    BY <1>1, <1>2 DEF Snapshot
<1>5. Good(Restored)
    BY <1>1, <1>4 DEF Good, Pending
<1>6. Halted => Restored.quarantine
    BY <1>3, <1>4 DEF Halted
<1> QED
    BY <1>4, <1>5, <1>6 DEF SameQueue

\* Entering quarantine keeps the queue, saved or not.
LEMMA GoodEnterQuarantine ==
    ASSUME NEW state, Good(state), SameQueue(state, Saved), disk # None => Good(disk),
           NEW next \in {"idle", "observe"}, EnterQuarantine(state, next)
    PROVE  /\ Good(memory') /\ memory'.quarantine /\ memory' # None
           /\ disk' # None => Good(disk')
           /\ SameQueue(memory', Saved') /\ SameQueue(Saved', Saved)
           /\ disk # None => disk' # None /\ disk'.completed = disk.completed
           /\ disk # None /\ disk.quarantine => disk'.quarantine
           /\ disk' # None => \A m \in disk'.completed : m \in Saved.completed
           /\ step' \in {"idle", "observe"}
           /\ before' \in {None, before}
<1>1. Good(memory') /\ SameQueue(memory', state) /\ memory'.quarantine /\ memory' # None
    BY GoodQuarantined, NoSnapshotAssumption DEF EnterQuarantine, Good
<1>2. step' \in {"idle", "observe"} /\ before' \in {None, before}
    BY DEF EnterQuarantine
<1>3. CASE disk' = memory'
    BY <1>1, <1>2, <1>3 DEF SameQueue, Saved
<1>4. CASE disk' = disk
    BY <1>1, <1>2, <1>4 DEF SameQueue, Saved
<1> QED
    BY <1>3, <1>4 DEF EnterQuarantine

-----------------------------------------------------------------------------
\* The invariant holds of a new deployment.
LEMMA InitIInv == Init => IInv
<1> SUFFICES ASSUME Init PROVE IInv
    OBVIOUS
<1>1. Good(memory) /\ memory \in Snapshot
    BY GoodFresh DEF Init, Good
<1>2. <<>> \in Chain
    BY DEF Chain
<1>3. WatcherTypeOK
    <2>1. terminal \in [Messages -> Outcomes \union {None}] /\ outcomes = terminal
        BY DEF Init
    <2>2. reorgs \in 0 .. MaxReorgs
        BY WatcherAssumption DEF Init
    <2>3. sourceQuarantine \in BOOLEAN
        BY Zenon DEF Init
    <2> QED
        BY <1>1, <1>2, <2>1, <2>2, <2>3 DEF Init, WatcherTypeOK, Steps
<1>4. QueueSaved
    BY DEF Init, QueueSaved, Saved, SameQueue
<1>5. AckRecorded /\ HaltedInMemory /\ OutcomesTrue
    BY DEF Init, AckRecorded, HaltedInMemory, Halted, OutcomesTrue
<1>6. before = None /\ disk = None
    BY DEF Init
<1> QED
    BY <1>1, <1>3, <1>4, <1>5, <1>6 DEF IInv

\* What the chains do touches none of the watcher's state.
LEMMA EnvironmentIInv ==
    ASSUME IInv, Environment
    PROVE  IInv'
<1>types. WatcherTypeOK
    BY DEF IInv
<1>1. UNCHANGED <<diskVars, processVars>>
    BY DEF Environment, Burn, Request, Terminate, Reorg
<1>2. \A m \in Messages : terminal[m] # None => terminal'[m] = terminal[m]
    BY <1>types DEF Environment, Burn, Request, Terminate, Reorg, WatcherTypeOK
<1>3. {source', destination'} \subseteq Chain
    <2>1. ASSUME NEW event \in Event PROVE Burn(event) => source' \in Chain /\ destination' = destination
        BY <1>types, WatcherAssumption DEF Burn, WatcherTypeOK, Chain, Block
    <2>2. ASSUME NEW event \in Event PROVE Request(event) => destination' \in Chain /\ source' = source
        BY <1>types DEF Request, WatcherTypeOK, Chain, Block
    <2>3. ASSUME NEW kept \in 0 .. MaxRequests, NEW event \in Event, Reorg(kept, event)
          PROVE  destination' \in Chain /\ source' = source
        <3>1. kept \in Nat /\ kept <= Len(destination) /\ destination \in Chain
            BY <1>types, <2>3, WatcherAssumption DEF Reorg, WatcherTypeOK, Chain
        <3>2. SubSeq(destination, 1, kept) \in Chain
            BY <3>1, SubSeqProperties, ElementOfSeq DEF Chain
        <3>3. [event |-> event, fork |-> reorgs + 1] \in Block
            BY <1>types, <2>3, WatcherAssumption DEF Reorg, WatcherTypeOK, Block
        <3> QED
            BY <2>3, <3>2, <3>3 DEF Reorg, Chain
    <2> QED
        BY <1>types, <2>1, <2>2, <2>3 DEF Environment, Terminate, WatcherTypeOK
<1>4. terminal' \in [Messages -> Outcomes \union {None}] /\ reorgs' \in 0 .. MaxReorgs
    <2>1. ASSUME NEW event \in Event, Burn(event) \/ Request(event)
          PROVE  UNCHANGED <<terminal, reorgs>>
        BY <2>1 DEF Burn, Request
    <2>2. ASSUME NEW m \in Messages, NEW outcome \in Outcomes, Terminate(m, outcome)
          PROVE  terminal' \in [Messages -> Outcomes \union {None}] /\ reorgs' = reorgs
        BY <1>types, <2>2 DEF Terminate, WatcherTypeOK
    <2>3. ASSUME NEW kept \in 0 .. MaxRequests, NEW event \in Event, Reorg(kept, event)
          PROVE  reorgs' \in 0 .. MaxReorgs /\ terminal' = terminal
        BY <1>types, <2>3, WatcherAssumption DEF Reorg, WatcherTypeOK
    <2> QED
        BY <1>types, <2>1, <2>2, <2>3 DEF Environment, WatcherTypeOK
<1>5. WatcherTypeOK'
    BY <1>types, <1>1, <1>3, <1>4 DEF WatcherTypeOK, diskVars, processVars
<1>6. OutcomesTrue'
    BY <1>types, <1>1, <1>2, WatcherAssumption DEF IInv, OutcomesTrue, diskVars, WatcherTypeOK
<1> QED
    BY <1>1, <1>5, <1>6 DEF IInv, QueueSaved, Saved, AckRecorded, HaltedInMemory, Halted, Pending,
       diskVars, processVars

\* The steps of a tick.
LEMMA TickIInv ==
    ASSUME IInv, StartTick \/ Poll \/ Persist \/ Abort
    PROVE  IInv'
<1>types. WatcherTypeOK /\ Good(memory)
    BY DEF IInv
<1> USE NoSnapshotAssumption
<1>1. CASE StartTick
    <2>1. /\ step = "idle" /\ before' = memory /\ UNCHANGED <<chainVars, diskVars, memory, acking>>
          /\ step' = IF memory.quarantine THEN "observe" ELSE "ingress"
        BY <1>1 DEF StartTick
    <2>2. WatcherTypeOK' /\ before' # None
        BY <1>types, <2>1 DEF WatcherTypeOK, chainVars, diskVars, Steps
    <2>3. QueueSaved'
        BY <2>1, <2>2 DEF IInv, QueueSaved, Saved, SameQueue, diskVars
    <2> QED
        BY <2>1, <2>2, <2>3 DEF IInv, AckRecorded, HaltedInMemory, Halted, OutcomesTrue,
           chainVars, diskVars
<1>2. ASSUME NEW last \in Len(memory.ingress) .. Len(source), PollIngress(last)
      PROVE  IInv'
    <2>1. /\ step = "ingress" /\ memory' = WithBurns(memory, last) /\ step' = "egress"
          /\ UNCHANGED <<chainVars, diskVars, before, acking>> /\ Extends(source, memory.ingress)
        BY <1>2 DEF PollIngress
    <2>2. Good(memory') /\ SameQueue(memory', memory) /\ memory'.quarantine = memory.quarantine
        BY <1>types, <2>1, GoodWithBurns DEF WatcherTypeOK
    <2>3. WatcherTypeOK'
        BY <1>types, <2>1, <2>2 DEF WatcherTypeOK, chainVars, diskVars, Steps, Good
    <2>4. QueueSaved'
        BY <2>1, <2>2 DEF IInv, QueueSaved, Saved, SameQueue, diskVars, Pending
    <2> QED
        BY <2>1, <2>2, <2>3, <2>4 DEF IInv, AckRecorded, HaltedInMemory, Halted, OutcomesTrue,
           chainVars, diskVars
<1>3. ASSUME NEW last \in Len(memory.egress) .. Len(destination), PollEgress(last)
      PROVE  IInv'
    <2>1. /\ step = "egress" /\ memory' = WithRequests(memory, last) /\ step' = "persist"
          /\ UNCHANGED <<chainVars, diskVars, before, acking>> /\ Extends(destination, memory.egress)
        BY <1>3 DEF PollEgress
    <2>2. /\ Good(memory') /\ memory'.completed = memory.completed
          /\ Pending(memory) \subseteq Pending(memory')
          /\ memory'.quarantine = memory.quarantine
        BY <1>types, <2>1, GoodWithRequests DEF WatcherTypeOK
    <2>3. WatcherTypeOK'
        BY <1>types, <2>1, <2>2 DEF WatcherTypeOK, chainVars, diskVars, Steps, Good
    <2>4. QueueSaved'
        <3>1. UNCHANGED <<before, disk>>
            BY <2>1 DEF diskVars
        <3> QED
            BY <2>1, <2>2, <3>1 DEF IInv, QueueSaved, Saved, SameQueue, Pending
    <2> QED
        BY <2>1, <2>2, <2>3, <2>4 DEF IInv, AckRecorded, HaltedInMemory, Halted, OutcomesTrue,
           chainVars, diskVars
<1>4. CASE Persist
    <2>1. /\ step = "persist" /\ disk' = memory /\ step' = "observe"
          /\ UNCHANGED <<chainVars, outcomes, sourceQuarantine, memory, before, acking>>
        BY <1>4 DEF Persist
    <2>2. WatcherTypeOK' /\ disk' # None
        BY <1>types, <2>1 DEF WatcherTypeOK, chainVars, Steps
    <2>3. memory.completed = Saved.completed
        BY <2>1 DEF IInv, QueueSaved, SameQueue
    <2>4. \A m \in Saved.completed : outcomes[m] # None
        BY DEF IInv, OutcomesTrue, Saved, Fresh
    <2>5. QueueSaved' /\ HaltedInMemory'
        BY <2>1, <2>2 DEF IInv, QueueSaved, Saved, SameQueue, HaltedInMemory, Halted
    <2>6. OutcomesTrue'
        BY <2>1, <2>3, <2>4 DEF IInv, OutcomesTrue, chainVars
    <2> QED
        BY <2>1, <2>2, <2>5, <2>6 DEF IInv, AckRecorded
<1>5. CASE Abort
    <2>1. /\ step \in {"ingress", "egress", "persist"} /\ memory' = before /\ step' = "idle"
          /\ before' = None /\ UNCHANGED <<chainVars, diskVars, acking>>
        BY <1>5 DEF Abort
    <2>2. Good(memory') /\ SameQueue(memory', Saved) /\ ~memory.quarantine
        BY <2>1 DEF IInv, QueueSaved
    <2>3. WatcherTypeOK'
        BY <1>types, <2>1, <2>2 DEF WatcherTypeOK, chainVars, diskVars, Steps, Good
    <2>4. QueueSaved'
        BY <2>1, <2>2 DEF QueueSaved, Saved, diskVars, SameQueue
    <2> QED
        BY <2>1, <2>2, <2>3, <2>4 DEF IInv, AckRecorded, HaltedInMemory, Halted, OutcomesTrue,
           chainVars, diskVars
<1> QED
    BY <1>1, <1>2, <1>3, <1>4, <1>5 DEF Poll

\* Whatever enters quarantine, from a step boundary where the queue is saved.
LEMMA QuarantineIInv ==
    ASSUME IInv, NEW state, Good(state), SameQueue(state, Saved),
           NEW next \in {"idle", "observe"}, EnterQuarantine(state, next),
           UNCHANGED <<chainVars, outcomes, acking>>, sourceQuarantine' \in BOOLEAN
    PROVE  IInv'
<1>1. /\ Good(memory') /\ memory'.quarantine
      /\ disk' # None => Good(disk')
      /\ SameQueue(memory', Saved')
      /\ disk' # None => \A m \in disk'.completed : m \in Saved.completed
      /\ step' \in {"idle", "observe"}
      /\ before' \in {None, before}
    BY GoodEnterQuarantine DEF IInv
<1>2. \A m \in Saved.completed : outcomes[m] # None
    BY DEF IInv, OutcomesTrue, Saved, Fresh
<1>3. WatcherTypeOK'
    BY <1>1 DEF IInv, WatcherTypeOK, chainVars, Steps, Good
<1>4. OutcomesTrue'
    BY <1>1, <1>2 DEF IInv, OutcomesTrue, chainVars
<1>5. QueueSaved' /\ AckRecorded' /\ HaltedInMemory'
    BY <1>1 DEF QueueSaved, AckRecorded, HaltedInMemory
<1> QED
    BY <1>1, <1>3, <1>4, <1>5 DEF IInv

EntersQuarantine ==
    \/ AbortInConflict \/ AbortInSourceConflict \/ ObserveConflict
    \/ AssertCanonicalFails \/ QuarantineFinality

\* Every way into a quarantine keeps the invariant.
LEMMA EntersQuarantineIInv ==
    ASSUME IInv, EntersQuarantine
    PROVE  IInv'
<1>1. sourceQuarantine \in BOOLEAN
    BY DEF IInv, WatcherTypeOK
<1>2. CASE AbortInConflict \/ AbortInSourceConflict
    <2>1. Good(before) /\ SameQueue(before, Saved)
        BY <1>2 DEF AbortInConflict, AbortInSourceConflict, IInv, QueueSaved
    <2>2. /\ EnterQuarantine(before, "observe") /\ UNCHANGED <<chainVars, outcomes, acking>>
          /\ sourceQuarantine' \in BOOLEAN
        BY <1>1, <1>2 DEF AbortInConflict, AbortInSourceConflict
    <2> QED
        BY <2>1, <2>2, QuarantineIInv
<1>3. CASE ObserveConflict
    <2>1. Good(memory) /\ SameQueue(memory, Saved)
        BY <1>3 DEF ObserveConflict, IInv, QueueSaved
    <2>2. /\ EnterQuarantine(memory, "observe") /\ UNCHANGED <<chainVars, outcomes, acking>>
          /\ sourceQuarantine' \in BOOLEAN
        BY <1>3 DEF ObserveConflict
    <2> QED
        BY <2>1, <2>2, QuarantineIInv
<1>4. CASE AssertCanonicalFails \/ QuarantineFinality
    <2>1. Good(memory) /\ SameQueue(memory, Saved)
        BY <1>4 DEF AssertCanonicalFails, QuarantineFinality, IInv, QueueSaved
    <2>2. /\ EnterQuarantine(memory, "idle") /\ UNCHANGED <<chainVars, outcomes, acking>>
          /\ sourceQuarantine' \in BOOLEAN
        BY <1>1, <1>4 DEF AssertCanonicalFails, QuarantineFinality
    <2> QED
        BY <2>1, <2>2, QuarantineIInv
<1> QED
    BY <1>2, <1>3, <1>4 DEF EntersQuarantine

\* Observation, acknowledgement and restart.
LEMMA OtherIInv ==
    ASSUME IInv,
           Observe \/ ObserveFails \/ (\E m \in Messages : SaveOutcome(m))
             \/ FinishAcknowledge \/ AcknowledgeFails \/ Crash
    PROVE  IInv'
<1>types. WatcherTypeOK /\ Good(memory)
    BY DEF IInv
<1>saved. \A m \in Saved.completed : outcomes[m] # None
    BY DEF IInv, OutcomesTrue, Saved, Fresh
<1> USE NoSnapshotAssumption
<1>1. CASE Observe
    <2>1. /\ step = "observe" /\ disk' = memory /\ step' = "idle" /\ before' = None
          /\ UNCHANGED <<chainVars, outcomes, sourceQuarantine, memory, acking>>
        BY <1>1 DEF Observe
    <2>2. WatcherTypeOK' /\ disk' # None
        BY <1>types, <2>1 DEF WatcherTypeOK, chainVars, Steps
    <2>3. memory.completed = Saved.completed
        BY <2>1 DEF IInv, QueueSaved, SameQueue
    <2>4. QueueSaved' /\ HaltedInMemory'
        BY <2>1, <2>2 DEF IInv, QueueSaved, Saved, SameQueue, HaltedInMemory, Halted
    <2>5. OutcomesTrue'
        BY <1>saved, <2>1, <2>3 DEF IInv, OutcomesTrue, chainVars
    <2> QED
        BY <2>1, <2>2, <2>4, <2>5 DEF IInv, AckRecorded
<1>2. CASE ObserveFails \/ AcknowledgeFails
    <2>1. /\ step \in {"observe", "acknowledge"} /\ step' = "idle" /\ before' \in {None, before}
          /\ acking' \in {None, acking} /\ UNCHANGED <<chainVars, diskVars, memory>>
        BY <1>2 DEF ObserveFails, AcknowledgeFails
    <2>2. WatcherTypeOK'
        BY <1>types, <2>1 DEF WatcherTypeOK, chainVars, diskVars, Steps
    <2>3. QueueSaved'
        BY <2>1 DEF IInv, QueueSaved, Saved, SameQueue, diskVars
    <2> QED
        BY <2>1, <2>2, <2>3 DEF IInv, AckRecorded, HaltedInMemory, Halted, OutcomesTrue,
           chainVars, diskVars
<1>3. ASSUME NEW m \in Messages, SaveOutcome(m) PROVE IInv'
    <2>1. /\ step = "idle" /\ step' = "acknowledge" /\ acking' = m /\ m \in Pending(memory)
          /\ terminal[m] # None /\ ~memory.quarantine
          /\ outcomes' = [outcomes EXCEPT ![m] = terminal[m]]
          /\ UNCHANGED <<chainVars, disk, sourceQuarantine, memory, before>>
        BY <1>3 DEF SaveOutcome
    <2>2. /\ outcomes'[m] = terminal[m]
          /\ \A n \in Messages : outcomes[n] # None => outcomes'[n] # None
          /\ \A n \in Messages : outcomes'[n] \in {outcomes[n], terminal[n]}
        BY <1>types, <2>1 DEF WatcherTypeOK
    <2>3. WatcherTypeOK'
        BY <1>types, <2>1 DEF WatcherTypeOK, chainVars, Steps
    <2>4. QueueSaved' /\ AckRecorded' /\ HaltedInMemory'
        BY <2>1, <2>2
        DEF IInv, QueueSaved, Saved, SameQueue, AckRecorded, HaltedInMemory, Halted, Pending
    <2>5. disk # None => disk.completed \subseteq Messages
        BY DEF IInv, Good, Snapshot
    <2>6. OutcomesTrue'
        BY <2>1, <2>2, <2>5 DEF IInv, OutcomesTrue, chainVars
    <2> QED
        BY <2>1, <2>3, <2>4, <2>6 DEF IInv
<1>4. CASE FinishAcknowledge
    <2>1. /\ step = "acknowledge" /\ memory' = Acknowledged(memory, acking) /\ disk' = memory'
          /\ step' = "idle" /\ acking' = None
          /\ UNCHANGED <<chainVars, outcomes, sourceQuarantine, before>>
        BY <1>4 DEF FinishAcknowledge
    <2>2. /\ acking \in Pending(memory) /\ outcomes[acking] # None /\ ~memory.quarantine
          /\ memory.completed = Saved.completed
        BY <2>1 DEF IInv, AckRecorded, QueueSaved, SameQueue
    <2>3. /\ Good(memory') /\ memory'.completed = memory.completed \union {acking}
          /\ memory'.quarantine = memory.quarantine /\ memory' # None
        <3> DEFINE next == Acknowledged(memory, acking)
        <3>1. /\ Good(next) /\ next.completed = memory.completed \union {acking}
              /\ next.quarantine = memory.quarantine
            BY <1>types, <2>2, GoodAcknowledged
        <3>2. next # None
            BY <3>1 DEF Good
        <3> HIDE DEF next
        <3> QED
            BY <2>1, <3>1, <3>2 DEF next
    <2>4. WatcherTypeOK'
        BY <1>types, <2>1, <2>3 DEF WatcherTypeOK, chainVars, Steps, Good
    <2>5. QueueSaved' /\ AckRecorded' /\ HaltedInMemory'
        BY <2>1, <2>2, <2>3
        DEF IInv, QueueSaved, Saved, SameQueue, AckRecorded, HaltedInMemory, Halted
    <2>6. OutcomesTrue'
        BY <1>saved, <2>1, <2>2, <2>3 DEF IInv, OutcomesTrue, chainVars
    <2> QED
        BY <2>1, <2>3, <2>4, <2>5, <2>6 DEF IInv
<1>5. CASE Crash
    <2>1. /\ memory' = Restored /\ before' = None /\ step' = "idle" /\ acking' = None
          /\ UNCHANGED <<chainVars, diskVars>>
        BY <1>5 DEF Crash
    <2>2. Good(memory') /\ SameQueue(memory', Saved) /\ (Halted => memory'.quarantine)
        BY <1>types, <2>1, GoodRestored DEF IInv, WatcherTypeOK
    <2>3. WatcherTypeOK'
        BY <1>types, <2>1, <2>2 DEF WatcherTypeOK, chainVars, diskVars, Steps, Good
    <2>4. QueueSaved' /\ AckRecorded' /\ HaltedInMemory'
        BY <2>1, <2>2 DEF QueueSaved, Saved, SameQueue, AckRecorded, HaltedInMemory, Halted, diskVars
    <2> QED
        BY <2>1, <2>2, <2>3, <2>4 DEF IInv, OutcomesTrue, chainVars, diskVars
<1> QED
    BY <1>1, <1>2, <1>3, <1>4, <1>5

\* IInv is inductive.
LEMMA NextIInv == IInv /\ [Next]_wvars => IInv'
<1> SUFFICES ASSUME IInv, [Next]_wvars PROVE IInv'
    OBVIOUS
<1>1. CASE Environment
    BY <1>1, EnvironmentIInv
<1>2. CASE StartTick \/ Poll \/ Persist \/ Abort
    BY <1>2, TickIInv
<1>3. CASE EntersQuarantine
    BY <1>3, EntersQuarantineIInv
<1>4. CASE Observe \/ ObserveFails \/ (\E m \in Messages : SaveOutcome(m))
             \/ FinishAcknowledge \/ AcknowledgeFails \/ Crash
    BY <1>4, OtherIInv
<1>5. CASE UNCHANGED wvars
    BY <1>5 DEF IInv, wvars, chainVars, diskVars, processVars, WatcherTypeOK, QueueSaved, Saved,
       AckRecorded, HaltedInMemory, Halted, OutcomesTrue
<1> QED
    BY <1>1, <1>2, <1>3, <1>4, <1>5 DEF Next, EntersQuarantine

-----------------------------------------------------------------------------
(* What the invariant says.                                                *)

\* A snapshot's queue is what its cursor has read, and so are its conflicts.
LEMMA GoodSnapshot ==
    ASSUME NEW state, Good(state)
    PROVE  /\ ReadRequests(state) = Pending(state) \union state.completed
           /\ Pending(state) \intersect state.completed = {}
           /\ \A m \in Messages :
                /\ ~state.quarantine =>
                     (m \in state.conflictingBurns <=> Disagree(state.ingress, m))
                /\ m \in Pending(state) =>
                     (m \in state.conflictingReleases <=> Disagree(state.egress, m))
<1>1. state \in Snapshot /\ state.ingress \in Chain /\ state.egress \in Chain
      /\ state.completed \subseteq Messages /\ Pending(state) \subseteq Messages
    BY DEF Good, Snapshot, Pending
<1>2. ASSUME NEW chain \in Chain, NEW m \in Messages
      PROVE  Disagree(chain, m) <=> \E p, q \in Told(chain, m) : p # q
    BY DEF Disagree, Told
<1>3. \A i \in DOMAIN state.egress : state.egress[i].event.message \in Messages
    <2>1. \A i \in DOMAIN state.egress : state.egress[i] \in Block
        BY <1>1, ElementOfSeq DEF Chain
    <2> QED
        BY <2>1 DEF Block, Event
<1>4. ReadRequests(state) \subseteq Messages
    BY <1>3 DEF ReadRequests
<1>5. \A m \in Messages : m \in ReadRequests(state) <=> Told(state.egress, m) # {}
    BY DEF ReadRequests, Told
<1> QED
    BY <1>1, <1>2, <1>4, <1>5 DEF Good

\* What the invariant says of every snapshot at once.
LEMMA Consequences == IInv => NothingLost /\ ConflictsRemembered
<1> SUFFICES ASSUME IInv PROVE NothingLost /\ ConflictsRemembered
    OBVIOUS
<1>1. \A state \in Snapshots : Good(state)
    BY DEF IInv, Snapshots
<1> QED
    BY <1>1, GoodSnapshot DEF NothingLost, ConflictsRemembered

\* The invariant holds throughout.
THEOREM WatcherInvariant == Spec => []IInv
    BY InitIInv, NextIInv, PTL DEF Spec

\* Chains, snapshots and the watcher's steps are well typed, for any bounds.
THEOREM WatcherTypeCorrect == Spec => []WatcherTypeOK
<1>1. IInv => WatcherTypeOK
    BY DEF IInv
<1> QED
    BY <1>1, WatcherInvariant, PTL

\* No cursor passes a request that is neither queued nor done.
THEOREM NoRequestLost == Spec => []NothingLost
    BY Consequences, WatcherInvariant, PTL

\* Conflicting burns and requests are remembered across failures and crashes.
THEOREM NoConflictForgotten == Spec => []ConflictsRemembered
    BY Consequences, WatcherInvariant, PTL

\* Recorded outcomes are the finalized ones, and precede leaving the queue.
THEOREM OutcomesAreTrue == Spec => []OutcomesTrue
<1>1. IInv => OutcomesTrue
    BY DEF IInv
<1> QED
    BY <1>1, WatcherInvariant, PTL

-----------------------------------------------------------------------------
(* Quarantine.                                                             *)

StaysHalted ==
    Halted => /\ Halted'
              /\ memory'.quarantine
              /\ UNCHANGED outcomes
              /\ disk # None => disk'.completed = disk.completed

\* No step of a halted watcher records, completes or forgets anything.
LEMMA QuarantineStep == IInv /\ [Next]_wvars => StaysHalted
<1> SUFFICES ASSUME IInv, [Next]_wvars, Halted PROVE StaysHalted
    BY DEF StaysHalted
<1>1. memory.quarantine
    BY DEF IInv, HaltedInMemory
<1>2. step \notin {"ingress", "egress", "persist", "acknowledge"}
    BY <1>1 DEF IInv, QueueSaved, AckRecorded
<1>3. CASE Environment \/ StartTick \/ ObserveFails \/ UNCHANGED wvars
    <2>1. UNCHANGED <<diskVars, memory>>
        BY <1>3 DEF Environment, Burn, Request, Terminate, Reorg, StartTick, ObserveFails, wvars,
           processVars
    <2> QED
        BY <1>1, <2>1 DEF StaysHalted, Halted, diskVars
<1>4. CASE Observe
    <2>1. disk # None => memory.completed = disk.completed
        BY <1>4 DEF Observe, IInv, QueueSaved, SameQueue, Saved
    <2>2. memory # None
        BY NoSnapshotAssumption DEF IInv, Good
    <2> QED
        BY <1>1, <1>4, <2>1, <2>2 DEF Observe, StaysHalted, Halted
<1>5. CASE Crash
    BY <1>5, GoodRestored DEF Crash, IInv, WatcherTypeOK, StaysHalted, Halted, diskVars
<1>7. CASE EntersQuarantine
    BY <1>1, <1>2, <1>7 DEF EntersQuarantine, AbortInConflict, AbortInSourceConflict,
       ObserveConflict, AssertCanonicalFails, QuarantineFinality
<1>8. CASE Poll \/ Persist \/ Abort \/ (\E m \in Messages : SaveOutcome(m))
             \/ FinishAcknowledge \/ AcknowledgeFails
    BY <1>1, <1>2, <1>8 DEF Poll, PollIngress, PollEgress, Persist, Abort, SaveOutcome,
       FinishAcknowledge, AcknowledgeFails
<1> QED
    BY <1>3, <1>4, <1>5, <1>7, <1>8 DEF Next, EntersQuarantine

\* A saved quarantine survives every restart and retry, and stops all outcomes.
THEOREM QuarantineIsKept == Spec => QuarantineHolds
<1>1. Spec => [][StaysHalted]_wvars
    BY WatcherInvariant, QuarantineStep, PTL DEF Spec
<1> QED
    BY <1>1, PTL DEF QuarantineHolds, StaysHalted

-----------------------------------------------------------------------------
(* The saved queue and outcomes implement ReleaseQueue.                    *)

\* The abstract queue, read off what is saved or, before that, a fresh start.
LEMMA SavedQueue ==
    ASSUME NEW m \in Messages
    PROVE  QueueOf(m) = IF m \in Saved.completed THEN "done"
                        ELSE IF Saved.pending[m] # None THEN "pending" ELSE "unseen"
    BY DEF QueueOf, Saved, Fresh, Pending

\* The same of the next state.
LEMMA SavedQueueNext ==
    ASSUME NEW m \in Messages
    PROVE  QueueOf(m)' = IF m \in Saved'.completed THEN "done"
                         ELSE IF Saved'.pending[m] # None THEN "pending" ELSE "unseen"
    BY DEF QueueOf, Saved, Fresh, Pending

\* The saved queue starts empty.
LEMMA InitQueue == Init => Queue!Init
    BY DEF Init, Queue!Init, QueueOf

\* The queue does not change where the saved one does not.
LEMMA SameQueueStutters ==
    ASSUME SameQueue(Saved', Saved), UNCHANGED outcomes
    PROVE  UNCHANGED Queue!qvars
<1>1. \A m \in Messages : QueueOf(m)' = QueueOf(m)
    BY SavedQueue, SavedQueueNext DEF SameQueue
<1> QED
    BY <1>1 DEF Queue!qvars

\* Every step of the watcher is one of the durable queue, or changes nothing saved.
LEMMA QueueStep == IInv /\ [Next]_wvars => [Queue!Next]_(Queue!qvars)
<1> SUFFICES ASSUME IInv, [Next]_wvars PROVE [Queue!Next]_(Queue!qvars)
    OBVIOUS
<1> USE NoSnapshotAssumption
<1>good. Good(memory) /\ memory \in Snapshot /\ memory # None
    BY DEF IInv, Good
<1>1. CASE UNCHANGED <<disk, outcomes>>
    BY <1>1, SameQueueStutters DEF Saved, SameQueue
<1>2. CASE EntersQuarantine
    <2>1. CASE AbortInConflict \/ AbortInSourceConflict
        <3>1. Good(before) /\ SameQueue(before, Saved)
            BY <2>1 DEF AbortInConflict, AbortInSourceConflict, IInv, QueueSaved
        <3>2. EnterQuarantine(before, "observe") /\ UNCHANGED outcomes
            BY <2>1 DEF AbortInConflict, AbortInSourceConflict
        <3> QED
            BY <3>1, <3>2, GoodEnterQuarantine, SameQueueStutters DEF IInv
    <2>2. CASE ObserveConflict \/ AssertCanonicalFails \/ QuarantineFinality
        <3>1. SameQueue(memory, Saved)
            BY <2>2 DEF ObserveConflict, AssertCanonicalFails, QuarantineFinality, IInv, QueueSaved
        <3>2. PICK next \in {"idle", "observe"} : EnterQuarantine(memory, next)
            BY <2>2 DEF ObserveConflict, AssertCanonicalFails, QuarantineFinality
        <3>3. UNCHANGED outcomes
            BY <2>2 DEF ObserveConflict, AssertCanonicalFails, QuarantineFinality
        <3> QED
            BY <1>good, <3>1, <3>2, <3>3, GoodEnterQuarantine, SameQueueStutters DEF IInv
    <2> QED
        BY <1>2, <2>1, <2>2 DEF EntersQuarantine
<1>3. CASE Persist
    <2>1. /\ step = "persist" /\ disk' = memory /\ outcomes' = outcomes /\ Saved' = memory
        BY <1>3, <1>good DEF Persist, Saved
    <2>2. /\ memory.completed = Saved.completed
          /\ \A m \in Messages : Saved.pending[m] # None => memory.pending[m] # None
        BY <2>1 DEF IInv, QueueSaved, SameQueue, Pending
    <2> DEFINE new == {m \in Messages : Saved.pending[m] = None /\ memory.pending[m] # None}
    <2>3. ASSUME NEW m \in Messages
          PROVE  /\ m \in new => QueueOf(m) = "unseen"
                 /\ QueueOf(m)' = IF m \in new THEN "pending" ELSE QueueOf(m)
        <3>1. ~(memory.pending[m] # None /\ m \in memory.completed)
            BY <1>good DEF Good, Pending
        <3> QED
            BY <2>1, <2>2, <3>1, SavedQueue, SavedQueueNext
    <2>4. new \in SUBSET Messages
        OBVIOUS
    <2> HIDE DEF new
    <2>5. Queue!Enqueue(new)
        BY <2>1, <2>3, <2>4 DEF Queue!Enqueue
    <2> QED
        BY <2>4, <2>5 DEF Queue!Next
<1>4. CASE Observe
    <2>1. Saved' = memory /\ SameQueue(memory, Saved) /\ outcomes' = outcomes
        BY <1>4, <1>good DEF Observe, Saved, IInv, QueueSaved
    <2> QED
        BY <2>1, SameQueueStutters
<1>5. ASSUME NEW m \in Messages, SaveOutcome(m) PROVE [Queue!Next]_(Queue!qvars)
    <2>1. /\ step = "idle" /\ m \in Pending(memory) /\ terminal[m] # None /\ UNCHANGED disk
          /\ outcomes[m] \in {None, terminal[m]}
          /\ outcomes' = [outcomes EXCEPT ![m] = terminal[m]]
        BY <1>5 DEF SaveOutcome
    <2>2. terminal[m] \in Outcomes /\ outcomes \in [Messages -> Outcomes \union {None}]
        BY <2>1 DEF IInv, WatcherTypeOK
    <2>3. QueueOf(m) = "pending"
        <3>1. Saved.pending[m] # None /\ m \notin Saved.completed
            BY <1>good, <2>1 DEF IInv, QueueSaved, SameQueue, Good, Pending
        <3> QED
            BY <3>1, SavedQueue
    <2>4. \A n \in Messages : QueueOf(n)' = QueueOf(n)
        BY <2>1 DEF QueueOf
    <2>5. CASE outcomes[m] = None
        <3>1. Queue!Record(m, terminal[m])
            BY <2>1, <2>3, <2>4, <2>5 DEF Queue!Record
        <3> QED
            BY <2>2, <3>1 DEF Queue!Next
    <2>6. CASE outcomes[m] = terminal[m]
        <3>1. outcomes' = outcomes
            BY <2>1, <2>2, <2>6
        <3> QED
            BY <2>4, <3>1 DEF Queue!qvars
    <2> QED
        BY <2>1, <2>5, <2>6
<1>6. CASE FinishAcknowledge
    <2> DEFINE m == acking
    <2>1. /\ m \in Pending(memory) /\ outcomes[m] # None /\ SameQueue(memory, Saved)
          /\ outcomes' = outcomes
        BY <1>6 DEF FinishAcknowledge, IInv, AckRecorded, QueueSaved
    <2>2. m \in Messages /\ memory.pending[m] # None /\ m \notin memory.completed
        BY <1>good, <2>1 DEF Good, Pending
    <2>3. /\ Good(Acknowledged(memory, m))
          /\ Acknowledged(memory, m).completed = memory.completed \union {m}
          /\ Acknowledged(memory, m).pending = [memory.pending EXCEPT ![m] = None]
        BY <1>good, <2>1, GoodAcknowledged
    <2>4. Saved' = Acknowledged(memory, m)
        <3>1. Acknowledged(memory, m) # None /\ disk' = Acknowledged(memory, m)
            BY <1>6, <2>3 DEF FinishAcknowledge, Good
        <3> QED
            BY <3>1 DEF Saved
    <2>5. memory.pending \in [Messages -> Payloads \union {None}]
        BY <1>good DEF Snapshot
    <2>6. ASSUME NEW n \in Messages
          PROVE  QueueOf(n)' = IF n = m THEN "done" ELSE QueueOf(n)
        <3>1. Saved'.completed = Saved.completed \union {m}
            BY <2>1, <2>3, <2>4 DEF SameQueue
        <3>2. n # m => Saved'.pending[n] = Saved.pending[n]
            BY <2>1, <2>3, <2>4, <2>5 DEF SameQueue
        <3> QED
            BY <3>1, <3>2, SavedQueue, SavedQueueNext
    <2>7. QueueOf(m) = "pending"
        BY <2>1, <2>2, SavedQueue DEF SameQueue
    <2> HIDE DEF m
    <2>8. Queue!Finish(m)
        BY <2>1, <2>2, <2>6, <2>7 DEF Queue!Finish
    <2> QED
        BY <2>2, <2>8 DEF Queue!Next
<1>7. CASE \/ Environment \/ StartTick \/ Poll \/ Abort \/ ObserveFails \/ AcknowledgeFails \/ Crash
           \/ UNCHANGED wvars
    BY <1>1, <1>7 DEF Environment, Burn, Request, Terminate, Reorg, StartTick, Poll, PollIngress,
       PollEgress, Abort, ObserveFails, AcknowledgeFails, Crash, wvars, diskVars
<1> QED
    BY <1>2, <1>3, <1>4, <1>5, <1>6, <1>7 DEF Next, EntersQuarantine

\* The saved state behaves as one durable queue, for any chains and failures.
THEOREM WatcherImplementsQueue == Spec => ImplementsReleaseQueue
    BY InitQueue, QueueStep, WatcherInvariant, PTL DEF Spec, Queue!Spec, ImplementsReleaseQueue
=============================================================================
