---------------------------- MODULE CallContract ----------------------------
(***************************************************************************)
(* What one operation of an SDK client promises its caller, whatever       *)
(* tickets, locks, refreshes and retries it takes: the runtime carries it  *)
(* out at most once, and every outcome but "other" (an unknown one, as     *)
(* after a deadline) tells the caller whether it did.                      *)
(***************************************************************************)
EXTENDS Naturals

CONSTANTS Callers, None

\* The refusals that say the operation was not carried out.
Refusals == {"unauthenticated", "unavailable"}
Outcomes == {"ok", "other"} \cup Refusals

VARIABLES
    phase,    \* caller -> "idle", "pending" or "returned"
    effect,   \* caller -> times the runtime has carried the operation out
    outcome   \* caller -> what the call returned or raised, None before that

vars == <<phase, effect, outcome>>

Init ==
    /\ phase = [c \in Callers |-> "idle"]
    /\ effect = [c \in Callers |-> 0]
    /\ outcome = [c \in Callers |-> None]

\* A new operation.
Invoke(c) ==
    /\ phase[c] = "idle"
    /\ phase' = [phase EXCEPT ![c] = "pending"]
    /\ UNCHANGED <<effect, outcome>>

\* The runtime carries the operation out.
Apply(c) ==
    /\ phase[c] = "pending"
    /\ effect[c] = 0
    /\ effect' = [effect EXCEPT ![c] = 1]
    /\ UNCHANGED <<phase, outcome>>

\* The call returns, perhaps in the very step that carries the operation out.
Return(c) ==
    /\ phase[c] = "pending"
    /\ \E o \in Outcomes, e \in {effect[c], 1} :
        /\ o = "ok" => e = 1
        /\ o \in Refusals => e = 0
        /\ effect' = [effect EXCEPT ![c] = e]
        /\ outcome' = [outcome EXCEPT ![c] = o]
    /\ phase' = [phase EXCEPT ![c] = "returned"]

\* A refusal that is_retryable names is followed by another attempt.
Reattempt(c) ==
    /\ phase[c] = "returned"
    /\ outcome[c] = "unavailable"
    /\ phase' = [phase EXCEPT ![c] = "pending"]
    /\ outcome' = [outcome EXCEPT ![c] = None]
    /\ UNCHANGED effect

\* The caller takes the outcome.
Finish(c) ==
    /\ phase[c] = "returned"
    /\ phase' = [phase EXCEPT ![c] = "idle"]
    /\ effect' = [effect EXCEPT ![c] = 0]
    /\ outcome' = [outcome EXCEPT ![c] = None]

Next ==
    \E c \in Callers : Invoke(c) \/ Apply(c) \/ Return(c) \/ Reattempt(c) \/ Finish(c)

Spec == Init /\ [][Next]_vars
=============================================================================
