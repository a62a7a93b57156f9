---------------------------- MODULE HoldHistory -----------------------------
(***************************************************************************)
(* TripwireGuardian with a history variable: for how long the oracle       *)
(* really held each route.  The contract keeps the start of the current    *)
(* span only (protectionSince); the property below compares the two.       *)
(***************************************************************************)
EXTENDS TripwireGuardian, FiniteSets

VARIABLE held  \* route id -> instants of the last cycle under an oracle hold,
               \* since the owner last re-armed or resumed the route

hvars == <<vars, held>>

HInit == Init /\ held = [r \in Routes |-> {}]

Held(r) == currentTier(r) # NONE \/ isPaused(r)

\* One span and the cooldown after it: 96 hours.
Cycle == MaxOracleProtection + ProtectionCooldown

RecordHold ==
    held' = [r \in Routes |->
        (IF rearmProtection(r) \/ resume(r) THEN {} ELSE {t \in held[r] : t + Cycle > now'})
        \union (IF Held(r)' THEN {now'} ELSE {})]

HNext == Next /\ RecordHold

HSpec == HInit /\ [][HNext]_hvars

-----------------------------------------------------------------------------
\* However it refreshes, the oracle alone holds a route for at most
\* MAX_ORACLE_PROTECTION out of any MAX_ORACLE_PROTECTION + PROTECTION_COOLDOWN.
HoldBounded ==
    \A r \in Routes : Cardinality(held[r]) <= MaxOracleProtection
=============================================================================
