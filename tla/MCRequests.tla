------------------------------- MODULE MCRequests -------------------------------
EXTENDS Requests, TLC

\* In units of an access token's life.  An administrator's limits are tighter
\* than an internal member's, and every idle limit is longer than the token's.
IdleLimits == "sa" :> 2 @@ "internal" :> 2
AbsoluteLimits == "sa" :> 2 @@ "internal" :> 3

WhoMay == {<<"sa", "revoke">>, <<"sa", "invite">>, <<"internal", "invite">>}

\* Rows are interchangeable, so they are inserted in the order of their numbers.
InOrder == \A r \in issued' \ issued : \A q \in Row : q < r => q \in issued

\* Bound: the clocks and rotations are explored with one request and without
\* elevations, elevations and the pool with two requests of one session.
Explored ==
  \/ Cardinality(Underway) <= 1 /\ elevated = {}
  \/ issued \subseteq {1} /\ now <= 1 /\ active

Symmetric == Permutations(Request)
=============================================================================
