------------------------------- MODULE Onboarding ------------------------------
(***************************************************************************)
(* What invitations promise, with every operation in one step: a reference *)
(* is good once, for the person it names, until it is revoked or lapses,   *)
(* and being let in is the only way to become a member.                    *)
(***************************************************************************)
CONSTANTS Person, Invitation, None

VARIABLES offered,  \* offered[i]: the person and state of an invitation, or None
          admitted  \* the people who are members

vars == <<offered, admitted>>

States == {"open", "used", "revoked"}

\* A firm begins with the members it has and no invitation.
Init == offered = [i \in Invitation |-> None] /\ admitted \subseteq Person

Offer(i, p) ==
  /\ offered[i] = None
  /\ offered' = [offered EXCEPT ![i] = [to |-> p, state |-> "open"]]
  /\ UNCHANGED admitted

\* Using an invitation and becoming a member are one thing.
Admit(i) ==
  /\ offered[i] # None /\ offered[i].state = "open" /\ offered[i].to \notin admitted
  /\ offered' = [offered EXCEPT ![i].state = "used"]
  /\ admitted' = admitted \cup {offered[i].to}

Revoke(i) ==
  /\ offered[i] # None /\ offered[i].state = "open"
  /\ offered' = [offered EXCEPT ![i].state = "revoked"]
  /\ UNCHANGED admitted

Leave(p) == p \in admitted /\ admitted' = admitted \ {p} /\ UNCHANGED offered

Next ==
  \/ \E i \in Invitation : Admit(i) \/ Revoke(i) \/ (\E p \in Person : Offer(i, p))
  \/ \E p \in Person : Leave(p)

Spec == Init /\ [][Next]_vars
=============================================================================
