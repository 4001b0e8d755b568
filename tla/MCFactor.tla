------------------------------- MODULE MCFactor -------------------------------
EXTENDS Factor, TLC

\* Every property of this run is about a single state or step, and none names a
\* call: the calls are interchangeable.
Calls == Permutations(Client)
=============================================================================
