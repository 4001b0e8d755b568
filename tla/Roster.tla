-------------------------------- MODULE Roster --------------------------------
(***************************************************************************)
(* What the roster of one firm promises, with every call atomic: who is a  *)
(* member and as what, and who is on which case team.                      *)
(***************************************************************************)
CONSTANTS Member,    \* identities that may hold the firm's membership rows
          Founder,   \* the member the seeded invitation made administrator
          Archetype, \* membership.archetype
          SA,        \* the administrators' archetype
          Case       \* cases of the firm

\* The two roles that are not an archetype: no row yet, and status 'revoked'.
Absent == "absent"
Revoked == "revoked"

ASSUME RosterAssumption ==
  /\ Founder \in Member
  /\ SA \in Archetype
  /\ Absent \notin Archetype /\ Revoked \notin Archetype

VARIABLES role,     \* role[m]: an archetype while the row is live
          assigned  \* <<k, m>>: a case_assignment row with unassigned_at NULL

rosterVars == <<role, assigned>>

RosterType ==
  /\ role \in [Member -> Archetype \cup {Absent, Revoked}]
  /\ assigned \subseteq Case \X Member
  /\ \A p \in assigned : role[p[2]] # Absent

Live(m) == role[m] \in Archetype

\* Somebody other than m administers the firm.
AnotherSA(m) == \E s \in Member \ {m} : role[s] = SA

\* The seeded invitation has been accepted.
RosterInit ==
  /\ role = [m \in Member |-> IF m = Founder THEN SA ELSE Absent]
  /\ assigned = {}

\* accept_invitation() inserts the membership, once per person and firm.
Accept(m, a) ==
  /\ role[m] = Absent
  /\ role' = [role EXCEPT ![m] = a]
  /\ UNCHANGED assigned

\* What the members on no team are left with when m goes.
WithoutTeams(m) == {p \in assigned : p[2] # m}

\* A live row is revoked or gets another archetype; the last administrator
\* keeps both, and a revocation takes the member off every team.
Update(m, r) ==
  /\ Live(m)
  /\ role[m] = SA /\ r # SA => AnotherSA(m)
  /\ role' = [role EXCEPT ![m] = r]
  /\ assigned' = IF r = Revoked THEN WithoutTeams(m) ELSE assigned

\* Onto a team.  The member was live when the call looked; a revocation may
\* have come between (Membership says how), so only absence is excluded.
Assign(k, m) ==
  /\ role[m] # Absent
  /\ assigned' = assigned \cup {<<k, m>>}
  /\ UNCHANGED role

Unassign(k, m) ==
  /\ <<k, m>> \in assigned
  /\ assigned' = assigned \ {<<k, m>>}
  /\ UNCHANGED role

RosterNext ==
  \E m \in Member :
    \/ \E a \in Archetype : Accept(m, a)
    \/ \E r \in Archetype \cup {Revoked} : Update(m, r)
    \/ \E k \in Case : Assign(k, m) \/ Unassign(k, m)

RosterSpec == RosterInit /\ [][RosterNext]_rosterVars
=============================================================================
