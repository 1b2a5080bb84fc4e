------------------------------- MODULE Probes -------------------------------
(***************************************************************************)
(* How the pure components are exercised.  An input is made by its         *)
(* producer, may then be damaged on its way (a field lost, changed or      *)
(* relabelled, a buffer cut, an event dropped, moved or repeated), and is  *)
(* held against what the SDK concludes from it.                            *)
(*                                                                         *)
(* probe is what is being looked at: `of` names the component, `x` is the  *)
(* input as it now is and `was` the input as it was produced.              *)
(***************************************************************************)
EXTENDS Values

CONSTANT MaxDamage    \* the damage steps an artefact suffers at most

VARIABLE probe

Probe(of, x, was) == [of |-> of, x |-> x, was |-> was, damage |-> 0]
Unprobed == probe = [of |-> "nothing"]
Fresh == probe.of = "nothing"
Of(name) == probe.of = name

\* One more step of damage: y takes the place of x.
Damaged(y) ==
    /\ probe.damage < MaxDamage /\ y # probe.x
    /\ probe' = [probe EXCEPT !.x = y, !.damage = @ + 1]

\* The sequences over S of at most n elements.
UpTo(S, n) == UNION {[1 .. k -> S] : k \in 0 .. n}
=============================================================================
