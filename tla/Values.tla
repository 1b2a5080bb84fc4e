------------------------------- MODULE Values -------------------------------
(***************************************************************************)
(* The two values every pure component of the SDK shares, and how its      *)
(* checks refuse: an ordered list of checks, of which the first that fails *)
(* raises.                                                                 *)
(***************************************************************************)
EXTENDS Integers, Sequences, FiniteSets, FiniteSetsExt

CONSTANTS None,     \* Python's None, or an unset field
          Odd       \* a value of a type, or of a form, the code does not take

\* A refusal is the exception raised; an answer is TRUE or FALSE, or what a
\* computation that was not refused returns.
Raise(error) == [raised |-> error, field |-> None]
RaiseFor(error, field) == [raised |-> error, field |-> field]
Answer(b) == [answer |-> b]
IsRefusal(x) == "raised" \in DOMAIN x

\* The first refusal of a sequence of checks (each None or a refusal), or ok.
FirstRefusal(checks, ok) ==
    LET refused == {i \in 1 .. Len(checks) : checks[i] # None} IN
    IF refused = {} THEN ok ELSE checks[Min(refused)]

Check(bad, refusal) == IF bad THEN refusal ELSE None
=============================================================================
