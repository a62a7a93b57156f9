---------------------------- MODULE ReleaseQueue ----------------------------
(***************************************************************************)
(* What the watcher promises the release operator, whatever crashes,       *)
(* fails or reorganises: a request enters the queue once, stays there      *)
(* until its terminal outcome is on record, and never comes back.          *)
(***************************************************************************)
CONSTANTS
    Messages,  \* bridge message ids
    Outcomes,  \* terminal outcomes of a release
    None       \* no outcome yet

VARIABLES
    queue,     \* message -> "unseen", "pending" or "done"
    recorded   \* message -> its journaled outcome

qvars == <<queue, recorded>>

Init ==
    /\ queue = [m \in Messages |-> "unseen"]
    /\ recorded = [m \in Messages |-> None]

Enqueue(new) ==
    /\ \A m \in new : queue[m] = "unseen"
    /\ queue' = [m \in Messages |-> IF m \in new THEN "pending" ELSE queue[m]]
    /\ UNCHANGED recorded

Record(m, outcome) ==
    /\ queue[m] = "pending"
    /\ recorded[m] = None
    /\ recorded' = [recorded EXCEPT ![m] = outcome]
    /\ UNCHANGED queue

Finish(m) ==
    /\ queue[m] = "pending"
    /\ recorded[m] # None
    /\ queue' = [queue EXCEPT ![m] = "done"]
    /\ UNCHANGED recorded

Next ==
    \/ \E new \in SUBSET Messages : Enqueue(new)
    \/ \E m \in Messages, outcome \in Outcomes : Record(m, outcome)
    \/ \E m \in Messages : Finish(m)

Spec == Init /\ [][Next]_qvars
=============================================================================
