--------------------------- MODULE Membership_proofs ---------------------------
(***************************************************************************)
(* The roster invariants of Membership for every set of members, cases and *)
(* requests, and that its statements implement Roster.                     *)
(*                                                                         *)
(* The argument: a request past its UPDATE's row lock holds the row it     *)
(* writes (Rows), and one past the trigger holds, besides, a row that is   *)
(* an administrator's (Siblings).  Only the holder of a row changes it, so *)
(* that administrator is still there when the request commits.             *)
(*                                                                         *)
(* Then the memberships as the browser shows them: the firm that is        *)
(* entered, the controls drawn for it, and the answers after a switch.     *)
(***************************************************************************)
EXTENDS Membership, Browser, FiniteSetTheorems, TLAPS

Holding == {"trigger", "siblings", "write"}

Rows ==
  \A c \in Client :
    /\ pc[c] \in Holding => holder[target[c]] = c /\ Live(target[c])
    /\ pc[c] = "insert" => role[target[c]] # Absent

Siblings ==
  \A c \in Client :
    /\ pc[c] \notin Holding => \A m \in Member : holder[m] # c
    /\ pc[c] = "trigger" => Found(c) = {}
    /\ pc[c] = "siblings" => \A m \in Found(c) : role[m] = SA
    /\ pc[c] = "write" /\ GivesUpSA(c) => \E m \in Found(c) : role[m] = SA

IInv == TypeOK /\ Rows /\ Siblings /\ AdministratorRetained

\* What a refusal, a deadlock's victim and a failure have in common.
Quit(c) == Finish(c) /\ UNCHANGED rosterVars

(* The two roles that are no archetype differ.                               *)
LEMMA AbsentIsNotRevoked == Absent # Revoked
  BY DEF Absent, Revoked

-----------------------------------------------------------------------------
(* A step of the system is one of these, or leaves every variable alone.     *)
LEMMA StepCases ==
  ASSUME NEW P,
         ASSUME NEW m \in Member, NEW a \in Archetype, Join(m, a) PROVE P,
         ASSUME NEW m \in Member, NEW k \in Case, TakeOff(k, m) PROVE P,
         ASSUME NEW c \in Client, NEW m \in Member,
                NEW r \in Archetype \cup {Revoked}, UpdateBegin(c, m, r) PROVE P,
         ASSUME NEW c \in Client, NEW m \in Member, NEW k \in Case,
                AssignBegin(c, k, m) PROVE P,
         ASSUME NEW c \in Client, LockOwn(c) PROVE P,
         ASSUME NEW c \in Client, TriggerPasses(c) PROVE P,
         ASSUME NEW c \in Client, TriggerScans(c) PROVE P,
         ASSUME NEW c \in Client, LockSibling(c) PROVE P,
         ASSUME NEW c \in Client, TriggerFinds(c) PROVE P,
         ASSUME NEW c \in Client, UpdateCommit(c) PROVE P,
         ASSUME NEW c \in Client, AssignInsert(c) PROVE P,
         ASSUME NEW c \in Client, Quit(c) PROVE P,
         UNCHANGED vars => P,
         [Next]_vars
  PROVE  P
<1>1. ASSUME NEW c \in Client,
             TriggerRaises(c) \/ LockOwnMisses(c) \/ DeadlockVictim(c) \/ Abort(c)
      PROVE  Quit(c)
  BY <1>1 DEF TriggerRaises, LockOwnMisses, DeadlockVictim, Abort, Quit
<1>2. QED
  BY <1>1 DEF Next, Begin, Step, AcquireLock

(* The initial roster satisfies the invariant: the founder administers.      *)
LEMMA InitIInv == Init => IInv
<1> SUFFICES ASSUME Init PROVE IInv
  OBVIOUS
<1> USE RosterAssumption, NoClientAssumption DEF Init, RosterInit
<1>1. TypeOK
  BY DEF TypeOK, RosterType, Phase
<1>2. Rows /\ Siblings /\ AdministratorRetained
  BY DEF Rows, Siblings, Holding, AdministratorRetained
<1>3. QED
  BY <1>1, <1>2 DEF IInv

(* Every variable keeps its type; a team row refers to a membership.         *)
LEMMA TypeStep == IInv /\ [Next]_vars => TypeOK'
<1> SUFFICES ASSUME IInv, [Next]_vars PROVE TypeOK'
  OBVIOUS
<1> USE RosterAssumption, NoClientAssumption
    DEF IInv, TypeOK, RosterType, Rows, Phase
<1>1. ASSUME NEW m \in Member, NEW a \in Archetype, Join(m, a) PROVE TypeOK'
  BY <1>1 DEF Join, Accept
<1>2. ASSUME NEW m \in Member, NEW k \in Case, TakeOff(k, m) PROVE TypeOK'
  BY <1>2 DEF TakeOff, Unassign
<1>3. ASSUME NEW c \in Client, NEW m \in Member,
             NEW r \in Archetype \cup {Revoked}, UpdateBegin(c, m, r)
      PROVE  TypeOK'
  BY <1>3 DEF UpdateBegin, LooksLive, rosterVars
<1>4. ASSUME NEW c \in Client, NEW m \in Member, NEW k \in Case,
             AssignBegin(c, k, m)
      PROVE  TypeOK'
  BY <1>4 DEF AssignBegin, LooksLive, rosterVars
<1>5. ASSUME NEW c \in Client, LockOwn(c) PROVE TypeOK'
  BY <1>5 DEF LockOwn, Free, StillMatches, rosterVars
<1>6. ASSUME NEW c \in Client, TriggerPasses(c) PROVE TypeOK'
  BY <1>6 DEF TriggerPasses, rosterVars
<1>7. ASSUME NEW c \in Client, TriggerScans(c) PROVE TypeOK'
  BY <1>7 DEF TriggerScans, rosterVars
<1>8. ASSUME NEW c \in Client, LockSibling(c) PROVE TypeOK'
  BY <1>8 DEF LockSibling, KeepSibling, Free, rosterVars
<1>9. ASSUME NEW c \in Client, TriggerFinds(c) PROVE TypeOK'
  BY <1>9 DEF TriggerFinds, rosterVars
<1>10. ASSUME NEW c \in Client, UpdateCommit(c) PROVE TypeOK'
  BY <1>10 DEF UpdateCommit, TeamsAfter, WithoutTeams, Finish
<1>11. ASSUME NEW c \in Client, AssignInsert(c) PROVE TypeOK'
  BY <1>11 DEF AssignInsert, Finish
<1>12. ASSUME NEW c \in Client, Quit(c) PROVE TypeOK'
  BY <1>12 DEF Quit, Finish, rosterVars
<1>13. UNCHANGED vars => TypeOK'
  BY DEF vars, rosterVars
<1>14. QED
  BY <1>1, <1>2, <1>3, <1>4, <1>5, <1>6, <1>7, <1>8, <1>9, <1>10, <1>11, <1>12, <1>13, StepCases

(* The row a request is about to write stays locked and live.                *)
LEMMA RowsStep == IInv /\ [Next]_vars => Rows'
<1> SUFFICES ASSUME IInv, [Next]_vars PROVE Rows'
  OBVIOUS
<1> USE RosterAssumption, NoClientAssumption
    DEF IInv, TypeOK, RosterType, Rows, Siblings, Holding, Phase, Live
<1>1. ASSUME NEW m \in Member, NEW a \in Archetype, Join(m, a) PROVE Rows'
  BY <1>1 DEF Join, Accept
<1>2. ASSUME NEW m \in Member, NEW k \in Case, TakeOff(k, m) PROVE Rows'
  BY <1>2 DEF TakeOff, Unassign
<1>3. ASSUME NEW c \in Client, NEW m \in Member,
             NEW r \in Archetype \cup {Revoked}, UpdateBegin(c, m, r)
      PROVE  Rows'
  BY <1>3 DEF UpdateBegin, LooksLive, rosterVars
<1>4. ASSUME NEW c \in Client, NEW m \in Member, NEW k \in Case,
             AssignBegin(c, k, m)
      PROVE  Rows'
  BY <1>4 DEF AssignBegin, LooksLive, rosterVars
<1>5. ASSUME NEW c \in Client, LockOwn(c) PROVE Rows'
  BY <1>5 DEF LockOwn, Free, StillMatches, rosterVars
<1>6. ASSUME NEW c \in Client, TriggerPasses(c) PROVE Rows'
  BY <1>6 DEF TriggerPasses, rosterVars
<1>7. ASSUME NEW c \in Client, TriggerScans(c) PROVE Rows'
  BY <1>7 DEF TriggerScans, rosterVars
<1>8. ASSUME NEW c \in Client, LockSibling(c) PROVE Rows'
  BY <1>8 DEF LockSibling, KeepSibling, Free, rosterVars
<1>9. ASSUME NEW c \in Client, TriggerFinds(c) PROVE Rows'
  BY <1>9 DEF TriggerFinds, rosterVars
<1>10. ASSUME NEW c \in Client, UpdateCommit(c) PROVE Rows'
  BY <1>10, AbsentIsNotRevoked DEF UpdateCommit, Finish
<1>11. ASSUME NEW c \in Client, AssignInsert(c) PROVE Rows'
  BY <1>11 DEF AssignInsert, Finish
<1>12. ASSUME NEW c \in Client, Quit(c) PROVE Rows'
  BY <1>12 DEF Quit, Finish, rosterVars
<1>13. UNCHANGED vars => Rows'
  BY DEF vars, rosterVars
<1>14. QED
  BY <1>1, <1>2, <1>3, <1>4, <1>5, <1>6, <1>7, <1>8, <1>9, <1>10, <1>11, <1>12, <1>13, StepCases

(* An administrator another request has found and locked stays one.          *)
LEMMA SiblingsStep == IInv /\ [Next]_vars => Siblings'
<1> SUFFICES ASSUME IInv, [Next]_vars PROVE Siblings'
  OBVIOUS
<1> USE RosterAssumption, NoClientAssumption
    DEF IInv, TypeOK, RosterType, Rows, Siblings, Holding, Phase, Found, GivesUpSA, Live
<1>1. ASSUME NEW m \in Member, NEW a \in Archetype, Join(m, a) PROVE Siblings'
  BY <1>1 DEF Join, Accept
<1>2. ASSUME NEW m \in Member, NEW k \in Case, TakeOff(k, m) PROVE Siblings'
  BY <1>2 DEF TakeOff, Unassign
<1>3. ASSUME NEW c \in Client, NEW m \in Member,
             NEW r \in Archetype \cup {Revoked}, UpdateBegin(c, m, r)
      PROVE  Siblings'
  BY <1>3 DEF UpdateBegin, LooksLive, rosterVars
<1>4. ASSUME NEW c \in Client, NEW m \in Member, NEW k \in Case,
             AssignBegin(c, k, m)
      PROVE  Siblings'
  BY <1>4 DEF AssignBegin, LooksLive, rosterVars
<1>5. ASSUME NEW c \in Client, LockOwn(c) PROVE Siblings'
  BY <1>5 DEF LockOwn, Free, StillMatches, rosterVars
<1>6. ASSUME NEW c \in Client, TriggerPasses(c) PROVE Siblings'
  BY <1>6 DEF TriggerPasses, rosterVars
<1>7. ASSUME NEW c \in Client, TriggerScans(c) PROVE Siblings'
  BY <1>7 DEF TriggerScans, rosterVars
<1>8. ASSUME NEW c \in Client, LockSibling(c) PROVE Siblings'
  BY <1>8 DEF LockSibling, KeepSibling, Free, rosterVars
<1>9. ASSUME NEW c \in Client, TriggerFinds(c) PROVE Siblings'
  BY <1>9 DEF TriggerFinds, rosterVars
<1>10. ASSUME NEW c \in Client, UpdateCommit(c) PROVE Siblings'
  BY <1>10 DEF UpdateCommit, TeamsAfter, WithoutTeams, Finish
<1>11. ASSUME NEW c \in Client, AssignInsert(c) PROVE Siblings'
  BY <1>11 DEF AssignInsert, Finish
<1>12. ASSUME NEW c \in Client, Quit(c) PROVE Siblings'
  BY <1>12 DEF Quit, Finish, rosterVars
<1>13. UNCHANGED vars => Siblings'
  BY DEF vars, rosterVars
<1>14. QED
  BY <1>1, <1>2, <1>3, <1>4, <1>5, <1>6, <1>7, <1>8, <1>9, <1>10, <1>11, <1>12, <1>13, StepCases

(* A step takes one administrator away only while another one is held.       *)
LEMMA RetainedStep == IInv /\ [Next]_vars => AdministratorRetained'
<1> SUFFICES ASSUME IInv, [Next]_vars PROVE AdministratorRetained'
  OBVIOUS
<1> USE RosterAssumption, NoClientAssumption
    DEF IInv, TypeOK, RosterType, Rows, Siblings, Holding, Found, GivesUpSA,
        AdministratorRetained, Live
<1>1. ASSUME NEW m \in Member, NEW a \in Archetype, Join(m, a) PROVE AdministratorRetained'
  BY <1>1 DEF Join, Accept
<1>2. ASSUME NEW m \in Member, NEW k \in Case, TakeOff(k, m) PROVE AdministratorRetained'
  BY <1>2 DEF TakeOff, Unassign
<1>3. ASSUME NEW c \in Client, NEW m \in Member,
             NEW r \in Archetype \cup {Revoked}, UpdateBegin(c, m, r)
      PROVE  AdministratorRetained'
  BY <1>3 DEF UpdateBegin, LooksLive, rosterVars
<1>4. ASSUME NEW c \in Client, NEW m \in Member, NEW k \in Case,
             AssignBegin(c, k, m)
      PROVE  AdministratorRetained'
  BY <1>4 DEF AssignBegin, LooksLive, rosterVars
<1>5. ASSUME NEW c \in Client, LockOwn(c) PROVE AdministratorRetained'
  BY <1>5 DEF LockOwn, Free, StillMatches, rosterVars
<1>6. ASSUME NEW c \in Client, TriggerPasses(c) PROVE AdministratorRetained'
  BY <1>6 DEF TriggerPasses, rosterVars
<1>7. ASSUME NEW c \in Client, TriggerScans(c) PROVE AdministratorRetained'
  BY <1>7 DEF TriggerScans, rosterVars
<1>8. ASSUME NEW c \in Client, LockSibling(c) PROVE AdministratorRetained'
  BY <1>8 DEF LockSibling, KeepSibling, Free, rosterVars
<1>9. ASSUME NEW c \in Client, TriggerFinds(c) PROVE AdministratorRetained'
  BY <1>9 DEF TriggerFinds, rosterVars
<1>10. ASSUME NEW c \in Client, UpdateCommit(c) PROVE AdministratorRetained'
  BY <1>10 DEF UpdateCommit, TeamsAfter, WithoutTeams, Finish
<1>11. ASSUME NEW c \in Client, AssignInsert(c) PROVE AdministratorRetained'
  BY <1>11 DEF AssignInsert, Finish
<1>12. ASSUME NEW c \in Client, Quit(c) PROVE AdministratorRetained'
  BY <1>12 DEF Quit, Finish, rosterVars
<1>13. UNCHANGED vars => AdministratorRetained'
  BY DEF vars, rosterVars
<1>14. QED
  BY <1>1, <1>2, <1>3, <1>4, <1>5, <1>6, <1>7, <1>8, <1>9, <1>10, <1>11, <1>12, <1>13, StepCases

(* IInv is inductive.                                                        *)
LEMMA Inductive == Spec => []IInv
<1>1. IInv /\ [Next]_vars => IInv'
  BY TypeStep, RowsStep, SiblingsStep, RetainedStep DEF IInv
<1>2. QED
  BY InitIInv, <1>1, PTL DEF Spec

-----------------------------------------------------------------------------
(* Type correctness of the members, teams, locks and requests.               *)
THEOREM TypeCorrect == Spec => []TypeOK
<1>1. IInv => TypeOK
  BY DEF IInv
<1>2. QED
  BY Inductive, <1>1, PTL

(* However many requests revoke or demote administrators at once, the        *)
(* membership_retain_one_sa trigger leaves the firm one.                     *)
THEOREM LastAdministrator == Spec => []AdministratorRetained
<1>1. IInv => AdministratorRetained
  BY DEF IInv
<1>2. QED
  BY Inductive, <1>1, PTL

NobodyReturns == \A s \in Member : role[s] = Revoked => role'[s] = Revoked

(* The UPDATE writes live rows alone.                                        *)
LEMMA RevokedStep == IInv /\ [Next]_vars => NobodyReturns
<1> SUFFICES ASSUME IInv, [Next]_vars PROVE NobodyReturns
  OBVIOUS
<1> USE RosterAssumption, NoClientAssumption
    DEF IInv, TypeOK, RosterType, Rows, Holding, Live, NobodyReturns
<1>1. ASSUME NEW m \in Member, NEW a \in Archetype, Join(m, a) PROVE NobodyReturns
  BY <1>1, AbsentIsNotRevoked DEF Join, Accept
<1>2. ASSUME NEW m \in Member, NEW k \in Case, TakeOff(k, m) PROVE NobodyReturns
  BY <1>2 DEF TakeOff, Unassign
<1>3. ASSUME NEW c \in Client, NEW m \in Member,
             NEW r \in Archetype \cup {Revoked}, UpdateBegin(c, m, r)
      PROVE  NobodyReturns
  BY <1>3 DEF UpdateBegin, LooksLive, rosterVars
<1>4. ASSUME NEW c \in Client, NEW m \in Member, NEW k \in Case,
             AssignBegin(c, k, m)
      PROVE  NobodyReturns
  BY <1>4 DEF AssignBegin, LooksLive, rosterVars
<1>5. ASSUME NEW c \in Client, LockOwn(c) PROVE NobodyReturns
  BY <1>5 DEF LockOwn, Free, StillMatches, rosterVars
<1>6. ASSUME NEW c \in Client, TriggerPasses(c) PROVE NobodyReturns
  BY <1>6 DEF TriggerPasses, rosterVars
<1>7. ASSUME NEW c \in Client, TriggerScans(c) PROVE NobodyReturns
  BY <1>7 DEF TriggerScans, rosterVars
<1>8. ASSUME NEW c \in Client, LockSibling(c) PROVE NobodyReturns
  BY <1>8 DEF LockSibling, KeepSibling, Free, rosterVars
<1>9. ASSUME NEW c \in Client, TriggerFinds(c) PROVE NobodyReturns
  BY <1>9 DEF TriggerFinds, rosterVars
<1>10. ASSUME NEW c \in Client, UpdateCommit(c) PROVE NobodyReturns
  BY <1>10 DEF UpdateCommit, TeamsAfter, WithoutTeams, Finish
<1>11. ASSUME NEW c \in Client, AssignInsert(c) PROVE NobodyReturns
  BY <1>11 DEF AssignInsert, Finish
<1>12. ASSUME NEW c \in Client, Quit(c) PROVE NobodyReturns
  BY <1>12 DEF Quit, Finish, rosterVars
<1>13. UNCHANGED vars => NobodyReturns
  BY DEF vars, rosterVars
<1>14. QED
  BY <1>1, <1>2, <1>3, <1>4, <1>5, <1>6, <1>7, <1>8, <1>9, <1>10, <1>11, <1>12, <1>13, StepCases

(* No change of archetype, however late it writes, revives a revoked row.    *)
THEOREM RevocationIsOneWay == Spec => RevokedStaysRevoked
<1>1. Spec => [][IInv /\ [Next]_vars]_vars
  BY Inductive, PTL DEF Spec
<1>2. [IInv /\ [Next]_vars]_vars
        => [\A m \in Member : role[m] = Revoked => role'[m] = Revoked]_vars
  BY RevokedStep DEF NobodyReturns
<1>3. QED
  BY <1>1, <1>2, PTL DEF RevokedStaysRevoked

(* Each statement is an atomic operation of Roster or changes nothing there. *)
LEMMA StepImplements == IInv /\ [Next]_vars => [RosterNext]_rosterVars
<1> SUFFICES ASSUME IInv, [Next]_vars PROVE [RosterNext]_rosterVars
  OBVIOUS
<1> USE RosterAssumption, NoClientAssumption
    DEF IInv, TypeOK, RosterType, Rows, Siblings, Holding, Found, GivesUpSA, Live,
        RosterNext
<1>1. ASSUME NEW m \in Member, NEW a \in Archetype, Join(m, a) PROVE [RosterNext]_rosterVars
  BY <1>1 DEF Join, Accept
<1>2. ASSUME NEW m \in Member, NEW k \in Case, TakeOff(k, m) PROVE [RosterNext]_rosterVars
  BY <1>2 DEF TakeOff, Unassign
<1>3. ASSUME NEW c \in Client, NEW m \in Member,
             NEW r \in Archetype \cup {Revoked}, UpdateBegin(c, m, r)
      PROVE  [RosterNext]_rosterVars
  BY <1>3 DEF UpdateBegin, LooksLive, rosterVars
<1>4. ASSUME NEW c \in Client, NEW m \in Member, NEW k \in Case,
             AssignBegin(c, k, m)
      PROVE  [RosterNext]_rosterVars
  BY <1>4 DEF AssignBegin, LooksLive, rosterVars
<1>5. ASSUME NEW c \in Client, LockOwn(c) PROVE [RosterNext]_rosterVars
  BY <1>5 DEF LockOwn, Free, StillMatches, rosterVars
<1>6. ASSUME NEW c \in Client, TriggerPasses(c) PROVE [RosterNext]_rosterVars
  BY <1>6 DEF TriggerPasses, rosterVars
<1>7. ASSUME NEW c \in Client, TriggerScans(c) PROVE [RosterNext]_rosterVars
  BY <1>7 DEF TriggerScans, rosterVars
<1>8. ASSUME NEW c \in Client, LockSibling(c) PROVE [RosterNext]_rosterVars
  BY <1>8 DEF LockSibling, KeepSibling, Free, rosterVars
<1>9. ASSUME NEW c \in Client, TriggerFinds(c) PROVE [RosterNext]_rosterVars
  BY <1>9 DEF TriggerFinds, rosterVars
<1>10. ASSUME NEW c \in Client, UpdateCommit(c) PROVE [RosterNext]_rosterVars
  <2> DEFINE t == target[c]
  <2>1. Live(t) /\ becomes[c] \in Archetype \cup {Revoked} /\ t \in Member
    BY <1>10 DEF UpdateCommit
  <2>2. role[t] = SA /\ becomes[c] # SA => AnotherSA(t)
    BY <1>10 DEF UpdateCommit, AnotherSA
  <2>3. Update(t, becomes[c])
    BY <1>10, <2>1, <2>2 DEF UpdateCommit, Update, TeamsAfter
  <2>4. QED
    BY <2>1, <2>3
<1>11. ASSUME NEW c \in Client, AssignInsert(c) PROVE [RosterNext]_rosterVars
  BY <1>11 DEF AssignInsert, Assign
<1>12. ASSUME NEW c \in Client, Quit(c) PROVE [RosterNext]_rosterVars
  BY <1>12 DEF Quit, Finish, rosterVars
<1>13. UNCHANGED vars => [RosterNext]_rosterVars
  BY DEF vars, rosterVars
<1>14. QED
  BY <1>1, <1>2, <1>3, <1>4, <1>5, <1>6, <1>7, <1>8, <1>9, <1>10, <1>11, <1>12, <1>13, StepCases

(* The statements of Membership do no more than Roster's operations.         *)
THEOREM Implementation == Spec => ImplementsRoster
<1>1. Init => RosterInit
  BY DEF Init
<1>2. QED
  BY <1>1, Inductive, StepImplements, PTL DEF Spec, ImplementsRoster, RosterSpec

-----------------------------------------------------------------------------
\* The browser: what a mounted shell keeps.
Chosen == Firm \cup {None}
Standings == [Firm -> Roles \cup {None}]
Shells ==
  [at : {"shell"}, roles : Standings, raw : Chosen, stale : BOOLEAN, open : BOOLEAN, page : Archetypes \cup {None}]
Lists == [shown : Chosen, asked : Chosen]

ShellInv ==
  /\ standing \in Standings /\ choice \in Chosen /\ chooser \in Tab \cup {None}
  /\ tab = [t \in Tab |-> tab[t]] /\ cache \in [Tab -> Lists]
  /\ \A t \in Tab : InShell(t) => tab[t] \in Shells

\* Who switched with the list on the screen has begun it again, so it waits for no other firm.
AsksInv ==
  \A t \in Tab : chooser = t /\ cache[t].shown # None => cache[t].asked \in {None, choice}

BrowserInv == ShellInv /\ AsksInv

(* Whatever is remembered, the firm resolved is one the person is in, and it *)
(* is one if there is one only.                                              *)
LEMMA ResolvedIsHeld ==
  ASSUME NEW remembered, NEW held
  PROVE  /\ Resolved(remembered, held) \in held \cup {None}
         /\ Cardinality(held) = 1 => Resolved(remembered, held) \in held
<1>1. Cardinality(held) = 1 => held # {}
  BY FS_EmptySet
<1>2. Cardinality(held) = 1 => (CHOOSE f \in held : TRUE) \in held
  BY <1>1
<1>3. QED
  BY <1>2 DEF Resolved

(* A page is drawn for an archetype, or not at all.                          *)
LEMMA PageIsOfARole ==
  ASSUME ShellInv PROVE PageOf(Resolved(choice, Memberships), standing) \in Archetypes \cup {None}
<1> DEFINE f == Resolved(choice, Memberships)
<1>1. f \in Memberships \cup {None}
  BY ResolvedIsHeld
<1> HIDE DEF f
<1>2. f \in Memberships => standing[f] \in Archetypes
  BY BrowserAssumption DEF ShellInv, Standings, Memberships
<1>3. PageOf(f, standing) \in Archetypes \cup {None}
  BY <1>1, <1>2 DEF PageOf
<1>4. QED
  BY <1>3 DEF f

(* The shell's own correction writes a firm the person is in.                *)
LEMMA CorrectionIsHeld ==
  ASSUME NEW raw, NEW held \in SUBSET Firm, Corrects(raw, held)
  PROVE  UNCHANGED Choosing \/ (choice' \in Chosen /\ chooser' = None)
<1>1. Resolved(raw, held) \in Chosen
  BY ResolvedIsHeld DEF Chosen
<1>2. QED
  BY <1>1 DEF Corrects, Choosing

LEMMA InitBrowserInv == BrowserInit => BrowserInv
<1> SUFFICES ASSUME BrowserInit PROVE BrowserInv
  OBVIOUS
<1>1. Unread \in Lists /\ Unread.shown = None
  BY DEF Unread, Lists, Chosen
<1>2. \A t \in Tab : ~InShell(t)
  BY DEF BrowserInit, InShell, At, Form
<1>3. cache \in [Tab -> Lists]
  BY <1>1 DEF BrowserInit
<1>4. ShellInv
  BY <1>2, <1>3, BrowserAssumption DEF BrowserInit, ShellInv, Chosen, Standings
<1>5. AsksInv
  BY <1>1 DEF BrowserInit, AsksInv
<1>6. QED
  BY <1>4, <1>5 DEF BrowserInv

(* What one tab may do: go elsewhere, go on in the shell, and change what    *)
(* its list has, if a switch of its own begins the list again.               *)
LEMMA OneTabGoesOn ==
  ASSUME BrowserInv, NEW t \in Tab, NEW r, r.at # "shell" \/ r \in Shells, Goes(t, r) \/ UNCHANGED tab,
         NEW data \in Lists, Queries(t, data), UNCHANGED standing,
         UNCHANGED Choosing \/ (choice' \in Chosen /\ chooser' \in {t, None}),
         chooser' = t /\ data.shown # None => data.asked \in {None, choice'}
  PROVE  BrowserInv'
<1>1. tab = [x \in Tab |-> tab[x]] /\ cache \in [Tab -> Lists]
  BY DEF BrowserInv, ShellInv
<1>2. tab' = [x \in Tab |-> tab'[x]] /\ \A x \in Tab : tab'[x] = tab[x] \/ tab'[x] = r
  BY <1>1 DEF Goes
<1>3. cache' \in [Tab -> Lists] /\ \A x \in Tab : cache'[x] = IF x = t THEN data ELSE cache[x]
  BY <1>1 DEF Queries
<1>4. \A x \in Tab : InShell(x)' => tab'[x] \in Shells
  BY <1>2 DEF BrowserInv, ShellInv, InShell, At
<1>5. choice' \in Chosen /\ chooser' \in Tab \cup {None}
  BY DEF BrowserInv, ShellInv, Choosing
<1>6. ShellInv'
  BY <1>2, <1>3, <1>4, <1>5 DEF BrowserInv, ShellInv
<1>7. ASSUME NEW x \in Tab, chooser' = x, cache'[x].shown # None PROVE cache'[x].asked \in {None, choice'}
  <2>1. CASE x = t
    BY <1>3, <1>7, <2>1
  <2>2. CASE x # t
    <3>1. UNCHANGED Choosing
      BY <1>7, <2>2, BrowserAssumption
    <3>2. QED
      BY <1>3, <1>7, <2>2, <3>1 DEF BrowserInv, AsksInv, Choosing
  <2>3. QED
    BY <2>1, <2>2
<1>8. QED
  BY <1>6, <1>7 DEF BrowserInv, AsksInv

(* A tab moves and its list is as it was, or is gone with the document.      *)
LEMMA TabMoves ==
  ASSUME BrowserInv, NEW t \in Tab, NEW r, r.at # "shell" \/ r \in Shells, Goes(t, r) \/ UNCHANGED tab,
         cache' = Forgotten(t) \/ UNCHANGED cache, UNCHANGED standing,
         UNCHANGED Choosing \/ (choice' \in Chosen /\ chooser' = None)
  PROVE  BrowserInv'
<1>1. cache \in [Tab -> Lists] /\ (chooser = t /\ cache[t].shown # None => cache[t].asked \in {None, choice})
  BY DEF BrowserInv, ShellInv, AsksInv
<1>2. chooser' = t => UNCHANGED Choosing
  BY BrowserAssumption
<1>3. CASE cache' = Forgotten(t)
  <2>1. Unread \in Lists /\ Unread.shown = None
    BY DEF Unread, Lists, Chosen
  <2>2. Queries(t, Unread)
    BY <1>3 DEF Forgotten, Queries
  <2>3. QED
    BY <2>1, <2>2, OneTabGoesOn
<1>4. CASE UNCHANGED cache
  <2>1. Queries(t, cache[t]) /\ cache[t] \in Lists
    BY <1>1, <1>4 DEF Queries
  <2>2. chooser' = t /\ cache[t].shown # None => cache[t].asked \in {None, choice'}
    BY <1>1, <1>2 DEF Choosing
  <2>3. QED
    BY <2>1, <2>2, OneTabGoesOn
<1>5. QED
  BY <1>3, <1>4

(* A request is redirected, gets a form, or mounts the shell.                *)
LEMMA RequestBrowserInv == ASSUME BrowserInv, NEW t \in Tab, Request(t) PROVE BrowserInv'
<1>1. UNCHANGED standing
  BY DEF Request, Api
<1>2. CASE Mounts(t)
  <2>1. PICK open \in BOOLEAN :
          Goes(t, [at |-> "shell", roles |-> standing, raw |-> choice, stale |-> FALSE, open |-> open,
                   page |-> PageOf(Resolved(choice, Memberships), standing)])
    BY <1>2 DEF Mounts
  <2> DEFINE r == [at |-> "shell", roles |-> standing, raw |-> choice, stale |-> FALSE, open |-> open,
                   page |-> PageOf(Resolved(choice, Memberships), standing)]
  <2>2. r \in Shells
    BY PageIsOfARole DEF BrowserInv, ShellInv, Shells
  <2>3. Goes(t, r) /\ Corrects(choice, Memberships) /\ UNCHANGED cache
    BY <1>2, <2>1 DEF Mounts
  <2> HIDE DEF r
  <2>4. UNCHANGED Choosing \/ (choice' \in Chosen /\ chooser' = None)
    BY <2>3, CorrectionIsHeld DEF Memberships
  <2>5. QED
    BY <1>1, <2>2, <2>3, <2>4, TabMoves
<1>3. CASE \E path : Redirects(t, path)
  BY <1>1, <1>3, TabMoves DEF Redirects, Going
<1>4. CASE \E path \in Public : Goes(t, Form(path)) /\ UNCHANGED <<cookie, Choosing, cache>>
  BY <1>1, <1>4, TabMoves DEF Form, Public
<1>5. CASE cookie' = None /\ Goes(t, Going("ingresar")) /\ cache' = Forgotten(t) /\ UNCHANGED Choosing
  BY <1>1, <1>5, TabMoves DEF Going
<1>6. QED
  BY <1>2, <1>3, <1>4, <1>5 DEF Request

(* What goes on in a mounted shell.                                          *)
LEMMA SwitchBrowserInv == ASSUME BrowserInv, NEW t \in Tab, Switch(t) PROVE BrowserInv'
<1>1. PICK f \in Held(t) \ {FirmShown(t)} :
        /\ choice' = f
        /\ tab' = [tab EXCEPT ![t].raw = f, ![t].stale = TRUE]
        /\ Queries(t, IF Open(t) THEN Invalidated(cache[t], f) ELSE cache[t])
  BY DEF Switch
<1> DEFINE data == IF Open(t) THEN Invalidated(cache[t], f) ELSE cache[t]
           r == [tab[t] EXCEPT !.raw = f, !.stale = TRUE]
<1>2. tab[t] \in Shells /\ cache[t] \in Lists /\ f \in Firm
  BY DEF Switch, InShell, BrowserInv, ShellInv, Held
<1>3. data \in Lists
  BY <1>2 DEF Lists, Invalidated, Chosen
<1>4. Open(t) /\ data.shown # None => data.asked = f
  BY <1>2 DEF Lists, Invalidated
<1>5. Queries(t, data)
  BY <1>1
<1> HIDE DEF data
<1>6. r \in Shells
  BY <1>2 DEF Shells, Chosen
<1>7. Goes(t, r)
  BY <1>1 DEF Goes
<1> HIDE DEF r
<1>8. chooser' = (IF Open(t) THEN t ELSE None) /\ choice' = f /\ UNCHANGED standing
  BY <1>1 DEF Switch, Api
<1>9. chooser' = t /\ data.shown # None => data.asked \in {None, choice'}
  BY <1>4, <1>8, BrowserAssumption
<1>10. choice' \in Chosen /\ chooser' \in {t, None}
  BY <1>2, <1>8 DEF Chosen
<1>11. QED
  BY <1>3, <1>5, <1>6, <1>7, <1>8, <1>9, <1>10, OneTabGoesOn

LEMMA RefreshBrowserInv == ASSUME BrowserInv, NEW t \in Tab, Refresh(t) PROVE BrowserInv'
<1> DEFINE page == PageOf(Resolved(choice, Memberships), standing)
           r == [tab[t] EXCEPT !.stale = FALSE, !.roles = standing, !.page = page]
<1>1. tab[t] \in Shells /\ UNCHANGED <<standing, cache>>
  BY DEF Refresh, InShell, BrowserInv, ShellInv, Api
<1>2. CASE Goes(t, Going(DeadSessionGoes)) /\ UNCHANGED Choosing
  BY <1>1, <1>2, TabMoves DEF Going
<1>3. CASE Goes(t, r) /\ Corrects(tab[t].raw, Memberships)
  <2>1. page \in Archetypes \cup {None} /\ standing \in Standings
    BY PageIsOfARole DEF BrowserInv, ShellInv
  <2> HIDE DEF page
  <2>2. r \in Shells
    BY <1>1, <2>1 DEF Shells
  <2>3. UNCHANGED Choosing \/ (choice' \in Chosen /\ chooser' = None)
    BY <1>3, CorrectionIsHeld DEF Memberships
  <2> HIDE DEF r
  <2>4. QED
    BY <1>1, <1>3, <2>2, <2>3, TabMoves
<1>4. tab' = [tab EXCEPT ![t].stale = FALSE, ![t].roles = standing, ![t].page = page] => Goes(t, r)
  BY DEF Goes
<1>5. QED
  BY <1>2, <1>3, <1>4 DEF Refresh

LEMMA RenderBrowserInv == ASSUME BrowserInv, NEW t \in Tab, Render(t) PROVE BrowserInv'
<1>1. UNCHANGED Choosing \/ (choice' \in Chosen /\ chooser' = None)
  BY CorrectionIsHeld DEF Render, Held
<1>2. UNCHANGED <<tab, cache, standing>>
  BY DEF Render, Api
<1>3. Going("home").at # "shell"
  BY DEF Going
<1>4. QED
  BY <1>1, <1>2, <1>3, TabMoves

LEMMA FollowBrowserInv == ASSUME BrowserInv, NEW t \in Tab, Follow(t) PROVE BrowserInv'
<1> DEFINE firm == IF Authenticated THEN Resolved(choice, Memberships) ELSE None
<1>1. PICK open \in BOOLEAN : tab' = [tab EXCEPT ![t].page = PageOf(firm, standing), ![t].open = open]
  BY DEF Follow
<1>2. PageOf(firm, standing) \in Archetypes \cup {None}
  BY PageIsOfARole DEF BrowserInv, PageOf
<1> HIDE DEF firm
<1> DEFINE r == [tab[t] EXCEPT !.page = PageOf(firm, standing), !.open = open]
<1>3. tab[t] \in Shells /\ UNCHANGED <<standing, Choosing, cache>>
  BY DEF Follow, InShell, BrowserInv, ShellInv, Api
<1>4. r \in Shells
  BY <1>2, <1>3 DEF Shells
<1>5. Goes(t, r)
  BY <1>1 DEF Goes
<1> HIDE DEF r
<1>6. QED
  BY <1>3, <1>4, <1>5, TabMoves

(* The list asks, is answered, or is dropped, wherever the tab has got to.   *)
LEMMA ReadsBrowserInv ==
  ASSUME BrowserInv, NEW t \in Tab, Ask(t) \/ Answer(t) \/ Forget(t) PROVE BrowserInv'
<1>1. UNCHANGED <<tab, standing, Choosing>>
  BY DEF Ask, Answer, Forget, Api
<1>2. cache[t] \in Lists /\ None \in Chosen /\ choice \in Chosen
  BY DEF BrowserInv, ShellInv, Chosen
<1>3. Going("home").at # "shell"
  BY DEF Going
<1>4. ASSUME NEW data \in Lists, Queries(t, data), data.asked \in {None, choice} PROVE BrowserInv'
  BY <1>1, <1>3, <1>4, OneTabGoesOn DEF Choosing
<1>5. CASE Ask(t)
  <2>1. [cache[t] EXCEPT !.asked = choice] \in Lists /\ [cache[t] EXCEPT !.asked = choice].asked = choice
    BY <1>2 DEF Lists
  <2>2. QED
    BY <1>4, <1>5, <2>1 DEF Ask
<1>6. CASE Answer(t)
  <2>1. [shown |-> cache[t].asked, asked |-> None] \in Lists /\ [shown |-> cache[t].asked, asked |-> None].asked = None
    BY <1>2 DEF Lists
  <2>2. [cache[t] EXCEPT !.asked = None] \in Lists /\ [cache[t] EXCEPT !.asked = None].asked = None
    BY <1>2 DEF Lists
  <2>3. QED
    BY <1>4, <1>6, <2>1, <2>2 DEF Answer
<1>7. CASE Forget(t)
  BY <1>1, <1>3, <1>7, TabMoves DEF Forget
<1>8. QED
  BY <1>5, <1>6, <1>7

LEMMA NextBrowserInv == BrowserInv /\ [BrowserNext]_browserVars => BrowserInv'
<1> SUFFICES ASSUME BrowserInv, [BrowserNext]_browserVars PROVE BrowserInv'
  OBVIOUS
<1>1. ASSUME NEW t \in Tab,
             \/ SubmitCredentials(t) \/ SubmitCode(t) \/ SubmitRecovery(t) \/ BeginEnrollment(t)
             \/ ConfirmEnrollment(t) \/ Acknowledge(t) \/ Arrive(t) \/ RequestUnanswered(t) \/ Load(t)
             \/ SignOut(t) \/ CallSignOut(t)
      PROVE  BrowserInv'
  <2>1. PICK r : r.at # "shell" /\ (Goes(t, r) \/ UNCHANGED tab)
    BY <1>1
    DEF SubmitCredentials, SubmitCode, SubmitRecovery, BeginEnrollment, ConfirmEnrollment, Acknowledge, Arrive,
        RequestUnanswered, Load, SignOut, CallSignOut, Redirects, Going, Form
  <2>2. UNCHANGED <<standing, Choosing>> /\ (cache' = Forgotten(t) \/ UNCHANGED cache)
    BY <1>1
    DEF SubmitCredentials, SubmitCode, SubmitRecovery, BeginEnrollment, ConfirmEnrollment, Acknowledge, Arrive,
        RequestUnanswered, Load, SignOut, CallSignOut, Redirects, Api
  <2>3. QED
    BY <2>1, <2>2, TabMoves
<1>2. ASSUME NEW t \in Tab, Request(t) PROVE BrowserInv'
  BY <1>2, RequestBrowserInv
<1>3. ASSUME NEW t \in Tab, Switch(t) PROVE BrowserInv'
  BY <1>3, SwitchBrowserInv
<1>4. ASSUME NEW t \in Tab, Refresh(t) \/ Render(t) \/ Follow(t) PROVE BrowserInv'
  BY <1>4, RefreshBrowserInv, RenderBrowserInv, FollowBrowserInv
<1>5. ASSUME NEW t \in Tab, Ask(t) \/ Answer(t) \/ Forget(t) PROVE BrowserInv'
  BY <1>5, ReadsBrowserInv
<1>6. CASE SessionEnds \/ UNCHANGED browserVars
  <2>1. UNCHANGED <<standing, Choosing, tab, cache>>
    BY <1>6 DEF SessionEnds, browserVars, Api
  <2>2. QED
    BY <2>1 DEF BrowserInv, ShellInv, AsksInv, InShell, At, Choosing
<1>7. CASE MembershipChanges
  <2>1. standing' \in Standings
    BY <1>7 DEF MembershipChanges, BrowserInv, ShellInv, Standings
  <2>2. UNCHANGED <<Choosing, tab, cache>>
    BY <1>7 DEF MembershipChanges
  <2>3. QED
    BY <2>1, <2>2 DEF BrowserInv, ShellInv, AsksInv, InShell, At, Choosing
<1>8. QED
  BY <1>1, <1>2, <1>3, <1>4, <1>5, <1>6, <1>7 DEF BrowserNext, Acts

LEMMA AlwaysBrowserInv == BrowserSpec => []BrowserInv
  BY InitBrowserInv, NextBrowserInv, PTL DEF BrowserSpec

(* Whatever an earlier visit left in the browser, the firm a mounted shell   *)
(* shows is one of the person's, and the only one when there is one          *)
(* (resolve-active-tenant.ts).                                               *)
THEOREM TheOnlyFirmIsEntered == BrowserSpec => []OneFirmIsEntered
<1>1. OneFirmIsEntered
  BY ResolvedIsHeld DEF OneFirmIsEntered, FirmShown
<1>2. QED
  BY <1>1, PTL

-----------------------------------------------------------------------------
(* The front end's copy of the matrix, row by row, is the server's.          *)
LEMMA MirrorIsMatrix ==
  ASSUME NEW c \in Controls, NEW r \in Archetypes PROVE r \in Mirror(c) <=> r \in Matrix(c)
  BY SMTT(60) DEF Controls, Archetypes, Internal, Mirror, Matrix, SelfScoped

LEMMA ScreensReadTheirs ==
  ASSUME NEW s \in Screens, NEW r \in Shown(s) PROVE r \in Matrix(Reads[s])
  BY SMTT(60) DEF Screens, Reads, Shown, Internal, Matrix, SelfScoped

(* The caller permitted is the one the matrix has in the row; none of the    *)
(* controls is about the caller alone.                                       *)
LEMMA PermittedIsInTheRow ==
  ASSUME NEW c, NEW r PROVE r \in Matrix(c) => Decision(c, r, TRUE) = "permitted"
  BY DEF Decision

LEMMA RefusedIsNotInTheRow ==
  ASSUME NEW c \in Controls, NEW r, r \notin Matrix(c) PROVE Status(c, Decision(c, r, TRUE)) = "403"
<1>1. ScopeOf(c) # "self"
  BY DEF Controls, ScopeOf, SelfScoped
<1>2. Decision(c, r, TRUE) = "permission"
  BY <1>1 DEF Decision
<1>3. QED
  BY <1>2 DEF Status

(* A page is drawn with the controls and the screens the API serves its      *)
(* role, for every role and every control (capability-matrix.ts,             *)
(* navigation-items.ts against matrix.ts).                                   *)
THEOREM ControlsDrawnAreAdmitted == BrowserSpec => []DrawnIsAdmitted
<1>1. BrowserInv => DrawnIsAdmitted
  <2> SUFFICES ASSUME BrowserInv, NEW t \in Tab, InShell(t), tab[t].page # None
               PROVE  LET r == tab[t].page
                      IN  /\ \A c \in Controls : Can(c, r) <=> Status(c, Decision(c, r, TRUE)) = "200"
                          /\ \A s \in Screens : r \in Shown(s) => Decision(Reads[s], r, TRUE) = "permitted"
    BY DEF DrawnIsAdmitted
  <2> DEFINE r == tab[t].page
  <2>1. r \in Archetypes
    BY DEF BrowserInv, ShellInv, Shells
  <2> HIDE DEF r
  <2>2. ASSUME NEW c \in Controls PROVE Can(c, r) <=> Status(c, Decision(c, r, TRUE)) = "200"
    <3>1. CASE r \in Matrix(c)
      <4>1. Status(c, Decision(c, r, TRUE)) = "200"
        BY <3>1, PermittedIsInTheRow DEF Status
      <4>2. QED
        BY <2>1, <3>1, <4>1, MirrorIsMatrix DEF Can
    <3>2. CASE r \notin Matrix(c)
      <4>1. Status(c, Decision(c, r, TRUE)) = "403"
        BY <3>2, RefusedIsNotInTheRow
      <4>2. QED
        BY <2>1, <3>2, <4>1, MirrorIsMatrix DEF Can
    <3>3. QED
      BY <3>1, <3>2
  <2>3. ASSUME NEW s \in Screens, r \in Shown(s) PROVE Decision(Reads[s], r, TRUE) = "permitted"
    BY <2>3, ScreensReadTheirs, PermittedIsInTheRow
  <2>4. QED
    BY <2>2, <2>3 DEF r
<1>2. QED
  BY <1>1, AlwaysBrowserInv, PTL

AnswersAreOfTheChoice ==
  \A t \in Tab :
    chooser = t /\ chooser' = t /\ cache[t].shown # None /\ cache'[t].shown \notin {None, cache[t].shown}
    => cache'[t].shown = choice

(* What a tab has changes by an answer only, to the firm that was asked.     *)
LEMMA NextAnswers == BrowserInv /\ [BrowserNext]_browserVars => AnswersAreOfTheChoice
<1> SUFFICES ASSUME BrowserInv, [BrowserNext]_browserVars, NEW t \in Tab, chooser = t,
                    cache[t].shown # None, cache'[t].shown \notin {None, cache[t].shown}
             PROVE  cache'[t].shown = choice
  BY DEF AnswersAreOfTheChoice
<1>1. cache \in [Tab -> Lists] /\ cache[t].asked \in {None, choice}
  BY DEF BrowserInv, ShellInv, AsksInv
<1>2. ASSUME NEW x \in Tab, NEW data, Queries(x, data) PROVE x = t /\ cache'[t] = data
  BY <1>1, <1>2 DEF Queries
<1>3. ASSUME NEW x \in Tab, NEW asked, Queries(x, [cache[x] EXCEPT !.asked = asked]) PROVE FALSE
  <2>1. [cache[t] EXCEPT !.asked = asked].shown = cache[t].shown
    BY <1>1 DEF Lists
  <2>2. QED
    BY <1>2, <1>3, <2>1
<1>4. ASSUME NEW x \in Tab, Answer(x) PROVE cache'[t].shown = choice
  <2>1. Queries(x, [shown |-> cache[x].asked, asked |-> None])
    BY <1>3, <1>4 DEF Answer
  <2>2. QED
    BY <1>1, <1>2, <2>1
<1>5. ASSUME NEW x \in Tab, Ask(x) PROVE FALSE
  BY <1>3, <1>5 DEF Ask
<1>6. ASSUME NEW x \in Tab, Switch(x) PROVE FALSE
  <2>1. PICK f : Queries(x, IF Open(x) THEN Invalidated(cache[x], f) ELSE cache[x])
    BY <1>6 DEF Switch
  <2>2. Invalidated(cache[t], f).shown = cache[t].shown
    BY <1>1 DEF Lists, Invalidated
  <2>3. QED
    BY <1>2, <2>1, <2>2
<1>7. ASSUME NEW x \in Tab, cache' = Forgotten(x) PROVE FALSE
  <2>1. Unread.shown = None
    BY DEF Unread
  <2>2. QED
    BY <1>1, <1>7, <2>1 DEF Forgotten
<1>8. ~UNCHANGED cache
  OBVIOUS
<1>9. ASSUME NEW x \in Tab,
             \/ SubmitCredentials(x) \/ SubmitCode(x) \/ SubmitRecovery(x) \/ BeginEnrollment(x)
             \/ ConfirmEnrollment(x) \/ Acknowledge(x) \/ Arrive(x) \/ Request(x) \/ RequestUnanswered(x)
             \/ Load(x) \/ Refresh(x) \/ Render(x) \/ Follow(x) \/ Forget(x) \/ SignOut(x) \/ CallSignOut(x)
      PROVE  FALSE
  <2>1. cache' = Forgotten(x) \/ UNCHANGED cache
    BY <1>9
    DEF SubmitCredentials, SubmitCode, SubmitRecovery, BeginEnrollment, ConfirmEnrollment, Acknowledge, Arrive,
        Request, Mounts, Redirects, RequestUnanswered, Load, Refresh, Render, Follow, Forget, SignOut, CallSignOut
  <2>2. QED
    BY <1>7, <1>8, <2>1
<1>10. CASE SessionEnds \/ MembershipChanges \/ UNCHANGED browserVars
  BY <1>8, <1>10 DEF SessionEnds, MembershipChanges, browserVars
<1>11. QED
  BY <1>4, <1>5, <1>6, <1>9, <1>10 DEF BrowserNext, Acts

(* Who switched with the list on the screen has no answer for the firm that  *)
(* was left take the place of what the tab has, however late it comes and    *)
(* wherever the tab goes before (Shell.tsx, handleSwitchTenant).             *)
THEOREM NoLateAnswers == BrowserSpec => NoLateAnswerOfTheFirmLeft
<1>1. BrowserSpec => [][AnswersAreOfTheChoice]_browserVars
  BY InitBrowserInv, NextBrowserInv, NextAnswers, PTL DEF BrowserSpec
<1>2. QED
  BY <1>1 DEF NoLateAnswerOfTheFirmLeft, AnswersAreOfTheChoice
=============================================================================
