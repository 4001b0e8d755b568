---------------------------- MODULE MCAttemptGuard ----------------------------
EXTENDS AttemptGuard, TLC

\* No property names a call: the calls are interchangeable.
Calls == Permutations(Caller)
=============================================================================
