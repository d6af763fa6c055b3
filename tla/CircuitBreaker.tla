--------------------------- MODULE CircuitBreaker ---------------------------
(***************************************************************************)
(* The per-domain circuit breaker of engine/resilience.py.  Every method   *)
(* runs under one lock, so each is one operator on the table of circuits:  *)
(* it takes a table and returns the next one, or the set of the tables it  *)
(* may return.  A probe is the generation it was granted for, 0 for None;  *)
(* it is only ever presented for the domain it was granted for.            *)
(***************************************************************************)
EXTENDS Sites

CONSTANTS
    MaxFailures,   \* max_consecutive_failures
    MaxCircuits    \* max_domains

ASSUME FailuresAssumption == MaxFailures \in Nat \ {0}
ASSUME CircuitsAssumption == MaxCircuits \in Nat \ {0}

VARIABLE circuits   \* _circuits; NoCircuit for a domain without an entry

NoCircuit == [state |-> "none", failures |-> 0, cooled |-> FALSE, generation |-> 0]

\* _DomainCircuit(): a first failure creates the entry, closed.
NewCircuit == [NoCircuit EXCEPT !.state = "closed"]

CircuitType ==
    [state : {"none", "closed", "open", "half_open"}, failures : 0 .. MaxFailures,
     cooled : BOOLEAN, generation : Nat]

Remembered(table) == {d \in Domains : table[d].state # "none"}

(* Mutant: any result decides for a half-open circuit.                     *)
ProbeMatchesAny(c, probe) == c.state = "half_open"

ProbeMatches(c, probe) == c.state = "half_open" /\ probe # 0 /\ probe = c.generation

(* check: what a caller is admitted with.                                  *)
MayProbe(d) == circuits[d].state = "open" /\ circuits[d].cooled
Refused(d) == circuits[d].state \in {"open", "half_open"} /\ ~ MayProbe(d)
Granted(d) == IF MayProbe(d) THEN circuits[d].generation + 1 ELSE 0
Check(d) ==
    IF MayProbe(d)
    THEN [circuits EXCEPT ![d].state = "half_open", ![d].generation = @ + 1]
    ELSE circuits

(* record_success: a closed circuit is forgotten, a half-open one by its   *)
(* probe only; an open one stays.                                          *)
RecordSuccess(table, d, probe) ==
    IF table[d].state = "closed" \/ ProbeMatches(table[d], probe)
    THEN [table EXCEPT ![d] = NoCircuit]
    ELSE table

(* _make_room_for_closed_state: at capacity one sub-threshold entry goes,  *)
(* the least recently used in the code, any of them here.                  *)
MakeRoom(table) ==
    LET closed == {d \in Domains : table[d].state = "closed"}
    IN  IF Cardinality(Remembered(table)) < MaxCircuits \/ closed = {}
        THEN {table}
        ELSE {[table EXCEPT ![d] = NoCircuit] : d \in closed}

Reopened(c) == [c EXCEPT !.state = "open", !.failures = MaxFailures, !.cooled = FALSE]

Counted(c) ==
    IF c.failures + 1 >= MaxFailures THEN Reopened(c) ELSE [c EXCEPT !.failures = @ + 1]

(* record_failure: a table saturated with open and half-open circuits does *)
(* not remember a new failure.                                             *)
RecordFailure(table, d, probe) ==
    CASE table[d].state = "none" ->
            {IF Cardinality(Remembered(roomy)) < MaxCircuits
             THEN [roomy EXCEPT ![d] = Counted(NewCircuit)]
             ELSE roomy : roomy \in MakeRoom(table)}
      [] table[d].state = "half_open" ->
            {IF ProbeMatches(table[d], probe)
             THEN [table EXCEPT ![d] = Reopened(@)] ELSE table}
      [] table[d].state = "open" -> {table}
      [] table[d].state = "closed" -> {[table EXCEPT ![d] = Counted(@)]}

(* abort_probe: open again with the cooldown it had already served.        *)
AbortProbe(table, d, probe) ==
    IF ProbeMatches(table[d], probe)
    THEN [table EXCEPT ![d].state = "open", ![d].cooled = TRUE]
    ELSE table

(* Time: a cooldown ends; an abandoned sub-threshold history expires       *)
(* (_prune_inactive_closed, which every method runs first).                *)
CoolsDown(d) ==
    /\ circuits[d].state = "open"
    /\ ~ circuits[d].cooled
    /\ circuits' = [circuits EXCEPT ![d].cooled = TRUE]

PruneInactiveClosed(d) ==
    /\ circuits[d].state = "closed"
    /\ circuits' = [circuits EXCEPT ![d] = NoCircuit]
=============================================================================
