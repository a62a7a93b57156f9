---------------------------- MODULE SenderHistory ---------------------------
(***************************************************************************)
(* DurableSender with a history variable: which blocks of the canonical    *)
(* chain the journal has recorded as the inclusion of a row, then or since.*)
(* A block that a reorg abandons stays abandoned, and is forgotten.        *)
(***************************************************************************)
EXTENDS DurableSender

VARIABLE known  \* hashes of canonical blocks that a row has recorded

shvars == <<svars, known>>

SHInit == Init /\ known = {}

RecordKnown ==
    known' = {chain'[h].hash : h \in DOMAIN chain'}
               \intersect (known \union {journal'[id].receipt.hash : id \in Ids})

SHNext == Next /\ RecordKnown

SHSpec == SHInit /\ [][SHNext]_shvars

-----------------------------------------------------------------------------
\* Work known to be done is not paid for again: while a block that the journal
\* has recorded stays canonical, no fee bump is signed for its operation, whatever
\* receipts nodes fail to show from then on and wherever a task is interrupted
\* ("Only a journaled transaction with no known inclusion can be replaced").
KnownWorkRests ==
    [][\A h \in DOMAIN chain : chain[h].hash \in known =>
          journal'[chain[h].tx[1]].newest = journal[chain[h].tx[1]].newest]_shvars
=============================================================================
