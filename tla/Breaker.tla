------------------------------ MODULE Breaker ------------------------------
(***************************************************************************)
(* What a circuit breaker promises to its callers: it takes note of every  *)
(* outcome in one step.  With one process CircuitBreaker implements it,    *)
(* however the calls overlap, until something goes wrong with Redis or     *)
(* the process dies.                                                       *)
(***************************************************************************)
EXTENDS Naturals

CONSTANTS
    Call,       \* the calls that may be under way at once
    Threshold   \* failures that open the circuit

VARIABLES
    state,      \* "closed", "open" or "half_open"
    count,      \* failures since the circuit was last closed, up to Threshold
    hot,        \* the last failure is at most recovery_timeout ago
    running,    \* the calls whose function has been let run
    returned,   \* the calls whose function succeeded, not yet taken note of
    raised,     \* the calls whose function failed, not yet taken note of
    broken      \* a Redis command has raised, or the process has died

circuitVars == <<state, count, hot>>
breakerVars == <<circuitVars, running, returned, raised, broken>>

Init ==
    /\ state = "closed"
    /\ count = 0
    /\ hot = FALSE
    /\ running = {}
    /\ returned = {}
    /\ raised = {}
    /\ broken = FALSE

Admit(c) ==
    /\ state # "open"
    /\ running' = running \cup {c}
    /\ UNCHANGED <<circuitVars, returned, raised, broken>>

Probe(c) ==
    /\ state = "open"
    /\ ~hot
    /\ state' = "half_open"
    /\ running' = running \cup {c}
    /\ UNCHANGED <<count, hot, returned, raised, broken>>

\* The function of a call ends; a cancelled one ends here.
End(c) ==
    /\ c \in running
    /\ running' = running \ {c}
    /\ \/ returned' = returned \cup {c} /\ UNCHANGED raised
       \/ raised' = raised \cup {c} /\ UNCHANGED returned
       \/ UNCHANGED <<returned, raised>>
    /\ UNCHANGED <<circuitVars, broken>>

Success(c) ==
    /\ c \in returned
    /\ IF state = "half_open"
       THEN state' = "closed" /\ count' = 0
       ELSE UNCHANGED <<state, count>>
    /\ returned' = returned \ {c}
    /\ UNCHANGED <<hot, running, raised, broken>>

Failure(c) ==
    /\ c \in raised
    /\ count' = IF count < Threshold THEN count + 1 ELSE Threshold
    /\ state' = IF count' = Threshold THEN "open" ELSE state
    /\ hot' = TRUE
    /\ raised' = raised \ {c}
    /\ UNCHANGED <<running, returned, broken>>

Cool ==
    /\ hot' = FALSE
    /\ UNCHANGED <<state, count, running, returned, raised, broken>>

\* From here on nothing is promised.
Break == broken' = TRUE

Next ==
    \/ \E c \in Call : Admit(c) \/ Probe(c) \/ End(c) \/ Success(c) \/ Failure(c)
    \/ Cool
    \/ Break

Spec == Init /\ [][Next]_breakerVars

=============================================================================
