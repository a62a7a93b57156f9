---------------------------- MODULE RollingLimit ----------------------------
(***************************************************************************)
(* What the rolling outflow cap promises, with no buckets and no tiers: a  *)
(* limiter that remembers every payment.  A payment is made only while the *)
(* total of the trailing window, this payment included, stays within the   *)
(* limit in force.  Limits and windows may change between payments.        *)
(***************************************************************************)
EXTENDS Integers, Sequences, Functions

CONSTANT Routes

VARIABLES
    clock,   \* the current instant
    limit,   \* route -> most that may be paid in one trailing window, now
    span,    \* route -> length of its window
    log      \* route -> sequence of [at, amount]

limitVars == <<clock, limit, span, log>>

\* The total of the entries in the window of length `length' that ends now.
Trailing(entries, length) ==
    SumFunction([i \in DOMAIN entries |->
        IF entries[i].at + length > clock THEN entries[i].amount ELSE 0])

Start == log = [r \in Routes |-> <<>>]

Pay(r, amount) ==
    /\ amount > 0
    /\ Trailing(log[r], span[r]) + amount <= limit[r]
    /\ log' = [log EXCEPT ![r] = Append(@, [at |-> clock, amount |-> amount])]
    /\ UNCHANGED <<clock, limit, span>>

\* Anything else: time passes, limits change, a window is set once.
Adjust ==
    /\ clock' >= clock
    /\ \A r \in Routes : span[r] # 0 => span'[r] = span[r]
    /\ UNCHANGED log

Step == Adjust \/ \E r \in Routes : \E amount \in 1 .. limit[r] : Pay(r, amount)

Limiter == Start /\ [][Step]_limitVars
=============================================================================
