--------------------------- MODULE OutflowHistory ---------------------------
(***************************************************************************)
(* TripwireGuardian with a history variable: every outflow it let pass.    *)
(* The contract keeps a summary of it in a ring of buckets, and the        *)
(* properties below compare the two.                                       *)
(***************************************************************************)
EXTENDS TripwireGuardian, Sequences, FiniteSets

VARIABLE paid  \* route id -> sequence of [at, amount], every outflow recorded

pvars == <<vars, paid>>

PInit == Init /\ paid = [r \in Routes |-> <<>>]

\* An outflow is the only step that pays.
PayStep ==
    \E caller \in Callers, r \in Routes, amount \in Amounts :
        /\ onTokenOutflow(caller, r, amount)
        /\ paid' = [paid EXCEPT ![r] = Append(@, [at |-> now, amount |-> amount])]

PNext ==
    \/ PayStep
    \/ (OwnerAction \/ acceptOracle \/ OracleAction \/ Tick) /\ UNCHANGED paid

PSpec == PInit /\ [][PNext]_pvars

-----------------------------------------------------------------------------
\* What route r paid at instants t with t + span > now.
PaidWithin(r, span) ==
    SumFunction([i \in DOMAIN paid[r] |->
        IF paid[r][i].at + span > now THEN paid[r][i].amount ELSE 0])

\* Nothing spent in the last window is omitted from rollingUsage, whatever
\* ring slots have been reused since.
UsageNeverOmits ==
    \A r \in Routes : rollingUsage(r) >= PaidWithin(r, routes[r].windowSeconds)

\* Older spends stay counted for at most ceil(window / 16) - 1 extra seconds,
\* however often their bucket's expiry is pushed back by later spends.
UsageNotStale ==
    \A r \in Routes : Configured(r) =>
        rollingUsage(r) <= PaidWithin(r, routes[r].windowSeconds + BucketWidth(r) - 1)

\* The bucketed ring under graduated tiers implements the exact limiter: it
\* never pays what a limiter with full memory would refuse.
Exact == INSTANCE RollingLimit WITH
    clock <- now,
    limit <- [r \in Routes |-> CapAt(r, now)],
    span <- [r \in Routes |-> routes[r].windowSeconds],
    log <- paid

ImplementsExactLimit == Exact!Limiter
=============================================================================
