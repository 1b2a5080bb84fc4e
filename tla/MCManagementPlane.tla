------------------------- MODULE MCManagementPlane -------------------------
EXTENDS ManagementPlane

\* A bound token with its key and without, for the runtime's audience and for
\* another one; a token that is not bound.
BoundToken == [visible |-> TRUE, claims |-> [cnf |-> "k1", aud |-> "cell-7"]]
OtherToken == [visible |-> TRUE, claims |-> [aud |-> "cell-8"]]
MCPairings ==
    {[token |-> BoundToken, key |-> "k1", aud |-> None, clock |-> None],
     [token |-> BoundToken, key |-> "k1", aud |-> "cell-8", clock |-> None],
     [token |-> BoundToken, key |-> None, aud |-> None, clock |-> None],
     [token |-> OtherToken, key |-> None, aud |-> None, clock |-> None]}
=============================================================================
