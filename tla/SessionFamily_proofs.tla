-------------------------- MODULE SessionFamily_proofs --------------------------
(***************************************************************************)
(* The family invariants of SessionFamily for every set of rows and of     *)
(* transactions, and that its statements implement TokenLineage.           *)
(*                                                                         *)
(* The argument: whoever has passed FOR UPDATE holds the lock of the       *)
(* family's first row, so at most one transaction per family is between    *)
(* its locking statement and its commit (Locks).  What it re-read is       *)
(* therefore still true when it writes (Copies), and what it is about to   *)
(* revoke is the whole family (Scans).  Locks are of one family and are    *)
(* held by whoever has had all it asked for, so waits are short (Holders). *)
(***************************************************************************)
EXTENDS SessionFamily, TLAPS

\* c has passed PERFORM ... FOR UPDATE and has neither committed nor aborted.
HasLocked(c) ==
  \/ pc[c] \in {"rotate_reread", "rotate_decide"}
  \/ pc[c] \in RevokePhase /\ copy[c] = "used"

Control ==
  \A c \in Client :
    /\ pc[c] # "idle" => arg[c] \in issued
    /\ pc[c] \in {"idle", "rotate_lock", "rotate_reread"} => copy[c] = "none"
    /\ pc[c] = "rotate_decide" => copy[c] \in {"fresh", "used", "revoked"}
    /\ pc[c] \in RevokePhase => copy[c] \in {"none", "used"}
    /\ pc[c] = "rotate_lock" => {arg[c], family[arg[c]]} \subseteq seen[c]

Locks ==
  \A c \in Client :
    /\ HasLocked(c) => holder[arg[c]] = c /\ holder[family[arg[c]]] = c
    /\ pc[c] = "revoke_commit" => \A r \in seen[c] : holder[r] = c

Copies ==
  \A c \in Client :
    /\ copy[c] = "fresh" => arg[c] \notin used \cup revoked
    /\ copy[c] = "used" => arg[c] \in used \ revoked

Scans ==
  \A c \in Client : pc[c] \in {"revoke_wait", "revoke_commit"} =>
    /\ seen[c] \subseteq Members(arg[c])
    /\ arg[c] \in seen[c] \cup revoked
    /\ \A r \in seen[c] : parent[r] \in seen[c] \cup revoked \cup {NoRow}
    /\ copy[c] = "used" => Members(arg[c]) \subseteq seen[c] \cup revoked

Lineages ==
  /\ \A r \in Row \ issued : parent[r] = NoRow
  /\ \A r \in issued : parent[r] # NoRow => family[parent[r]] = family[r]
  /\ reported \subseteq issued

Safety == LinearLineage /\ SpentHasSuccessor /\ ReuseKillsFamily /\ RevokedTokenEndedSession

IInv == TypeOK /\ Control /\ Locks /\ Copies /\ Scans /\ Lineages /\ Safety

-----------------------------------------------------------------------------
(* A step of the system is one of these, or leaves every variable alone.     *)
LEMMA StepCases ==
  ASSUME NEW P,
         ASSUME NEW r \in Row, SignIn(r) PROVE P,
         ASSUME NEW c \in Client, NEW p \in Row, RotateBegin(c, p) PROVE P,
         ASSUME NEW c \in Client, NEW p \in Row, SignOut(c, p) PROVE P,
         ASSUME NEW c \in Client, RotateLock(c) PROVE P,
         ASSUME NEW c \in Client, RotateReread(c) PROVE P,
         ASSUME NEW c \in Client, RotateRefuse(c) PROVE P,
         ASSUME NEW c \in Client, RotateReuse(c) PROVE P,
         ASSUME NEW c \in Client, RotateMint(c) PROVE P,
         ASSUME NEW c \in Client, RevokeScan(c) PROVE P,
         ASSUME NEW c \in Client, RevokeTokens(c) PROVE P,
         ASSUME NEW c \in Client, RevokeCommit(c) PROVE P,
         ASSUME NEW c \in Client, Abort(c) PROVE P,
         RevokeAllSessions => P,
         UNCHANGED vars => P,
         [Next]_vars
  PROVE  P
  BY DEF Next, Begin, Step, AcquireLocks

(* Every variable keeps its type, and every row its family.                  *)
LEMMA TypeInit == Init => TypeOK
  BY NoRowAssumption DEF Init, TypeOK, LineageInit, LineageType, Copy

LEMMA TypeStep == TypeOK /\ Control /\ [Next]_vars => TypeOK'
<1> SUFFICES ASSUME TypeOK, Control, [Next]_vars PROVE TypeOK'
  OBVIOUS
<1> USE NoRowAssumption DEF TypeOK, LineageType
<1>1. ASSUME NEW r \in Row, SignIn(r) PROVE TypeOK'
  BY <1>1 DEF SignIn, Mint
<1>2. ASSUME NEW c \in Client, NEW p \in Row, RotateBegin(c, p) PROVE TypeOK'
  BY <1>2 DEF RotateBegin, lineageVars, Members, RotatePhase
<1>3. ASSUME NEW c \in Client, NEW p \in Row, SignOut(c, p) PROVE TypeOK'
  BY <1>3 DEF SignOut, lineageVars, RevokePhase
<1>4. ASSUME NEW c \in Client, RotateLock(c) PROVE TypeOK'
  BY <1>4 DEF RotateLock, lineageVars, RotatePhase
<1>5. ASSUME NEW c \in Client, RotateReread(c) PROVE TypeOK'
  BY <1>5 DEF RotateReread, Status, lineageVars, RotatePhase, Copy
<1>6. ASSUME NEW c \in Client, RotateRefuse(c) PROVE TypeOK'
  BY <1>6 DEF RotateRefuse, Finish, lineageVars, Copy
<1>7. ASSUME NEW c \in Client, RotateReuse(c) PROVE TypeOK'
  BY <1>7 DEF RotateReuse, lineageVars, RevokePhase
<1>8. ASSUME NEW c \in Client, RotateMint(c) PROVE TypeOK'
  <2>1. arg[c] \in issued
    BY <1>8 DEF Control, RotateMint
  <2>2. PICK r \in Row \ issued : /\ issued' = issued \cup {r}
                                 /\ family' = [family EXCEPT ![r] = family[arg[c]]]
                                 /\ parent' = [parent EXCEPT ![r] = arg[c]]
    BY <1>8 DEF RotateMint
  <2>3. LineageType'
    BY <2>1, <2>2, <1>8 DEF RotateMint
  <2>4. QED
    BY <2>2, <2>3, <1>8 DEF RotateMint, Finish, Copy
<1>9. ASSUME NEW c \in Client, RevokeScan(c) PROVE TypeOK'
  BY <1>9 DEF RevokeScan, TokensToRevoke, Members, lineageVars, RevokePhase
<1>10. ASSUME NEW c \in Client, RevokeTokens(c) PROVE TypeOK'
  BY <1>10 DEF RevokeTokens, lineageVars, RevokePhase
<1>11. ASSUME NEW c \in Client, RevokeCommit(c) PROVE TypeOK'
  BY <1>11 DEF RevokeCommit, SessionsToEnd, Members, Finish, Control, Copy, RevokePhase
<1>12. ASSUME NEW c \in Client, Abort(c) PROVE TypeOK'
  BY <1>12 DEF Abort, Finish, lineageVars, Copy
<1>13. RevokeAllSessions => TypeOK'
  BY DEF RevokeAllSessions, EndAll
<1>14. UNCHANGED vars => TypeOK'
  BY DEF vars, lineageVars
<1>15. QED
  BY <1>1, <1>2, <1>3, <1>4, <1>5, <1>6, <1>7, <1>8, <1>9, <1>10, <1>11, <1>12, <1>13,
     <1>14, StepCases

(* The locals of a transaction fit the statement it runs next.              *)
LEMMA ControlStep == IInv /\ [Next]_vars => Control'
<1> SUFFICES ASSUME IInv, [Next]_vars PROVE Control'
  OBVIOUS
<1> USE NoRowAssumption, NoClientAssumption DEF IInv, TypeOK, LineageType, Control
<1>1. ASSUME NEW r \in Row, SignIn(r) PROVE Control'
  BY <1>1 DEF SignIn, Mint, RotatePhase, RevokePhase
<1>2. ASSUME NEW c \in Client, NEW p \in Row, RotateBegin(c, p) PROVE Control'
  BY <1>2 DEF RotateBegin, lineageVars, Members, RotatePhase, RevokePhase
<1>3. ASSUME NEW c \in Client, NEW p \in Row, SignOut(c, p) PROVE Control'
  BY <1>3 DEF SignOut, lineageVars, RotatePhase, RevokePhase
<1>4. ASSUME NEW c \in Client, RotateLock(c) PROVE Control'
  BY <1>4 DEF RotateLock, lineageVars, RowsToLock, RotatePhase, RevokePhase
<1>5. ASSUME NEW c \in Client, RotateReread(c) PROVE Control'
  BY <1>5 DEF RotateReread, lineageVars, Status, RotatePhase, RevokePhase
<1>6. ASSUME NEW c \in Client, RotateRefuse(c) PROVE Control'
  BY <1>6 DEF RotateRefuse, Finish, lineageVars, RotatePhase, RevokePhase
<1>7. ASSUME NEW c \in Client, RotateReuse(c) PROVE Control'
  BY <1>7 DEF RotateReuse, lineageVars, RotatePhase, RevokePhase
<1>8. ASSUME NEW c \in Client, RotateMint(c) PROVE Control'
  BY <1>8 DEF RotateMint, Finish, RotatePhase, RevokePhase
<1>9. ASSUME NEW c \in Client, RevokeScan(c) PROVE Control'
  BY <1>9 DEF RevokeScan, lineageVars, RotatePhase, RevokePhase
<1>10. ASSUME NEW c \in Client, RevokeTokens(c) PROVE Control'
  BY <1>10 DEF RevokeTokens, lineageVars, RotatePhase, RevokePhase
<1>11. ASSUME NEW c \in Client, RevokeCommit(c) PROVE Control'
  BY <1>11 DEF RevokeCommit, Finish, RotatePhase, RevokePhase
<1>12. ASSUME NEW c \in Client, Abort(c) PROVE Control'
  BY <1>12 DEF Abort, Finish, lineageVars, RotatePhase, RevokePhase
<1>13. RevokeAllSessions => Control'
  BY DEF RevokeAllSessions, EndAll, RotatePhase, RevokePhase
<1>14. UNCHANGED vars => Control'
  BY DEF vars, lineageVars, RotatePhase, RevokePhase
<1>15. QED
  BY <1>1, <1>2, <1>3, <1>4, <1>5, <1>6, <1>7, <1>8, <1>9, <1>10, <1>11, <1>12, <1>13,
     <1>14, StepCases

(* Nobody takes a lock that is held.                                        *)
LEMMA LocksStep == IInv /\ [Next]_vars => Locks'
<1> SUFFICES ASSUME IInv, [Next]_vars PROVE Locks'
  OBVIOUS
<1> USE NoRowAssumption, NoClientAssumption DEF IInv, TypeOK, LineageType, Control, Locks, HasLocked, RotatePhase, RevokePhase
<1>1. ASSUME NEW r \in Row, SignIn(r) PROVE Locks'
  BY <1>1 DEF SignIn, Mint
<1>2. ASSUME NEW c \in Client, NEW p \in Row, RotateBegin(c, p) PROVE Locks'
  BY <1>2 DEF RotateBegin, lineageVars
<1>3. ASSUME NEW c \in Client, NEW p \in Row, SignOut(c, p) PROVE Locks'
  BY <1>3 DEF SignOut, lineageVars
<1>4. ASSUME NEW c \in Client, RotateLock(c) PROVE Locks'
  BY <1>4 DEF RotateLock, lineageVars, RowsToLock, Free
<1>5. ASSUME NEW c \in Client, RotateReread(c) PROVE Locks'
  BY <1>5 DEF RotateReread, lineageVars, Status
<1>6. ASSUME NEW c \in Client, RotateRefuse(c) PROVE Locks'
  BY <1>6 DEF RotateRefuse, Finish, lineageVars
<1>7. ASSUME NEW c \in Client, RotateReuse(c) PROVE Locks'
  BY <1>7 DEF RotateReuse, lineageVars
<1>8. ASSUME NEW c \in Client, RotateMint(c) PROVE Locks'
  BY <1>8 DEF RotateMint, Finish
<1>9. ASSUME NEW c \in Client, RevokeScan(c) PROVE Locks'
  BY <1>9 DEF RevokeScan, lineageVars, TokensToRevoke, Members
<1>10. ASSUME NEW c \in Client, RevokeTokens(c) PROVE Locks'
  BY <1>10 DEF RevokeTokens, lineageVars, Free
<1>11. ASSUME NEW c \in Client, RevokeCommit(c) PROVE Locks'
  BY <1>11 DEF RevokeCommit, Finish
<1>12. ASSUME NEW c \in Client, Abort(c) PROVE Locks'
  BY <1>12 DEF Abort, Finish, lineageVars
<1>13. RevokeAllSessions => Locks'
  BY DEF RevokeAllSessions, EndAll
<1>14. UNCHANGED vars => Locks'
  BY DEF vars, lineageVars
<1>15. QED
  BY <1>1, <1>2, <1>3, <1>4, <1>5, <1>6, <1>7, <1>8, <1>9, <1>10, <1>11, <1>12, <1>13,
     <1>14, StepCases

(* Children stay in their parent's family.                                   *)
LEMMA LineagesStep == IInv /\ [Next]_vars => Lineages'
<1> SUFFICES ASSUME IInv, [Next]_vars PROVE Lineages'
  OBVIOUS
<1> USE NoRowAssumption, NoClientAssumption DEF IInv, TypeOK, LineageType, Control, Lineages, RotatePhase, RevokePhase
<1>1. ASSUME NEW r \in Row, SignIn(r) PROVE Lineages'
  BY <1>1 DEF SignIn, Mint
<1>2. ASSUME NEW c \in Client, NEW p \in Row, RotateBegin(c, p) PROVE Lineages'
  BY <1>2 DEF RotateBegin, lineageVars
<1>3. ASSUME NEW c \in Client, NEW p \in Row, SignOut(c, p) PROVE Lineages'
  BY <1>3 DEF SignOut, lineageVars
<1>4. ASSUME NEW c \in Client, RotateLock(c) PROVE Lineages'
  BY <1>4 DEF RotateLock, lineageVars
<1>5. ASSUME NEW c \in Client, RotateReread(c) PROVE Lineages'
  BY <1>5 DEF RotateReread, lineageVars
<1>6. ASSUME NEW c \in Client, RotateRefuse(c) PROVE Lineages'
  BY <1>6 DEF RotateRefuse, Finish, lineageVars
<1>7. ASSUME NEW c \in Client, RotateReuse(c) PROVE Lineages'
  BY <1>7 DEF RotateReuse, lineageVars
<1>8. ASSUME NEW c \in Client, RotateMint(c) PROVE Lineages'
  BY <1>8 DEF RotateMint, Finish
<1>9. ASSUME NEW c \in Client, RevokeScan(c) PROVE Lineages'
  BY <1>9 DEF RevokeScan, lineageVars
<1>10. ASSUME NEW c \in Client, RevokeTokens(c) PROVE Lineages'
  BY <1>10 DEF RevokeTokens, lineageVars
<1>11. ASSUME NEW c \in Client, RevokeCommit(c) PROVE Lineages'
  BY <1>11 DEF RevokeCommit, Finish
<1>12. ASSUME NEW c \in Client, Abort(c) PROVE Lineages'
  BY <1>12 DEF Abort, Finish, lineageVars
<1>13. RevokeAllSessions => Lineages'
  BY DEF RevokeAllSessions, EndAll
<1>14. UNCHANGED vars => Lineages'
  BY DEF vars, lineageVars
<1>15. QED
  BY <1>1, <1>2, <1>3, <1>4, <1>5, <1>6, <1>7, <1>8, <1>9, <1>10, <1>11, <1>12, <1>13,
     <1>14, StepCases

(* What a transaction re-read under the lock is still true.                  *)
LEMMA CopiesStep == IInv /\ [Next]_vars => Copies'
<1> SUFFICES ASSUME IInv, [Next]_vars PROVE Copies'
  OBVIOUS
<1> USE NoRowAssumption, NoClientAssumption DEF IInv, TypeOK, LineageType, Control, Locks, Copies, Scans, HasLocked, RotatePhase, RevokePhase
<1>1. ASSUME NEW r \in Row, SignIn(r) PROVE Copies'
  BY <1>1 DEF SignIn, Mint
<1>2. ASSUME NEW c \in Client, NEW p \in Row, RotateBegin(c, p) PROVE Copies'
  BY <1>2 DEF RotateBegin, lineageVars
<1>3. ASSUME NEW c \in Client, NEW p \in Row, SignOut(c, p) PROVE Copies'
  BY <1>3 DEF SignOut, lineageVars
<1>4. ASSUME NEW c \in Client, RotateLock(c) PROVE Copies'
  BY <1>4 DEF RotateLock, lineageVars
<1>5. ASSUME NEW c \in Client, RotateReread(c) PROVE Copies'
  BY <1>5 DEF RotateReread, lineageVars, Status
<1>6. ASSUME NEW c \in Client, RotateRefuse(c) PROVE Copies'
  BY <1>6 DEF RotateRefuse, Finish, lineageVars
<1>7. ASSUME NEW c \in Client, RotateReuse(c) PROVE Copies'
  BY <1>7 DEF RotateReuse, lineageVars
<1>8. ASSUME NEW c \in Client, RotateMint(c) PROVE Copies'
  <2> DEFINE p == arg[c]
  <2>1. pc[c] = "rotate_decide" /\ copy[c] = "fresh" /\ holder[p] = c /\ used' = used \cup {p}
    BY <1>8 DEF RotateMint
  <2>2. ASSUME NEW d \in Client, copy'[d] = "fresh" PROVE arg'[d] \notin used' \cup revoked'
    <3>1. d # c /\ copy[d] = "fresh" /\ pc[d] = "rotate_decide" /\ arg'[d] = arg[d]
      BY <1>8, <2>2 DEF RotateMint, Finish
    <3>2. holder[arg[d]] = d
      BY <3>1
    <3>3. QED
      BY <2>1, <3>1, <3>2, <1>8 DEF RotateMint
  <2>3. ASSUME NEW d \in Client, copy'[d] = "used" PROVE arg'[d] \in used' \ revoked'
    BY <1>8, <2>3 DEF RotateMint, Finish
  <2>4. QED
    BY <2>2, <2>3
<1>9. ASSUME NEW c \in Client, RevokeScan(c) PROVE Copies'
  BY <1>9 DEF RevokeScan, lineageVars
<1>10. ASSUME NEW c \in Client, RevokeTokens(c) PROVE Copies'
  BY <1>10 DEF RevokeTokens, lineageVars
<1>11. ASSUME NEW c \in Client, RevokeCommit(c) PROVE Copies'
  <2>1. pc[c] = "revoke_commit" /\ revoked' = revoked \cup seen[c] /\ used' = used
    BY <1>11 DEF RevokeCommit
  <2>2. ASSUME NEW d \in Client, copy'[d] \in {"fresh", "used"}
        PROVE  /\ d # c /\ copy'[d] = copy[d] /\ arg'[d] = arg[d]
               /\ arg[d] \notin seen[c]
    <3>1. d # c /\ copy'[d] = copy[d] /\ arg'[d] = arg[d]
      BY <1>11, <2>2 DEF RevokeCommit, Finish
    <3>2. holder[arg[d]] = d
      BY <2>2, <3>1
    <3>3. QED
      BY <2>1, <3>1, <3>2
  <2>3. QED
    BY <2>1, <2>2
<1>12. ASSUME NEW c \in Client, Abort(c) PROVE Copies'
  BY <1>12 DEF Abort, Finish, lineageVars
<1>13. RevokeAllSessions => Copies'
  BY DEF RevokeAllSessions, EndAll
<1>14. UNCHANGED vars => Copies'
  BY DEF vars, lineageVars
<1>15. QED
  BY <1>1, <1>2, <1>3, <1>4, <1>5, <1>6, <1>7, <1>8, <1>9, <1>10, <1>11, <1>12, <1>13,
     <1>14, StepCases

(* While a family's rows are locked nobody adds a row to it.                 *)
LEMMA ScansStep == IInv /\ [Next]_vars => Scans'
<1> SUFFICES ASSUME IInv, [Next]_vars PROVE Scans'
  OBVIOUS
<1> USE NoRowAssumption, NoClientAssumption DEF IInv, TypeOK, LineageType, Control, Locks, Copies, Scans, Lineages, HasLocked, RotatePhase, RevokePhase, Members
<1>1. ASSUME NEW r \in Row, SignIn(r) PROVE Scans'
  BY <1>1 DEF SignIn, Mint
<1>2. ASSUME NEW c \in Client, NEW p \in Row, RotateBegin(c, p) PROVE Scans'
  BY <1>2 DEF RotateBegin, lineageVars
<1>3. ASSUME NEW c \in Client, NEW p \in Row, SignOut(c, p) PROVE Scans'
  BY <1>3 DEF SignOut, lineageVars
<1>4. ASSUME NEW c \in Client, RotateLock(c) PROVE Scans'
  BY <1>4 DEF RotateLock, lineageVars
<1>5. ASSUME NEW c \in Client, RotateReread(c) PROVE Scans'
  BY <1>5 DEF RotateReread, lineageVars, Status
<1>6. ASSUME NEW c \in Client, RotateRefuse(c) PROVE Scans'
  BY <1>6 DEF RotateRefuse, Finish, lineageVars
<1>7. ASSUME NEW c \in Client, RotateReuse(c) PROVE Scans'
  BY <1>7 DEF RotateReuse, lineageVars
<1>8. ASSUME NEW c \in Client, RotateMint(c) PROVE Scans'
  <2> DEFINE p == arg[c]
  <2>1. PICK r \in Row \ issued : /\ issued' = issued \cup {r}
                                 /\ family' = [family EXCEPT ![r] = family[p]]
                                 /\ parent' = [parent EXCEPT ![r] = p]
    BY <1>8 DEF RotateMint
  <2>2. p \in issued /\ holder[family[p]] = c /\ revoked' = revoked
    BY <1>8 DEF RotateMint
  <2> SUFFICES ASSUME NEW d \in Client, pc'[d] \in {"revoke_wait", "revoke_commit"}
               PROVE  /\ seen'[d] \subseteq Members(arg[d])'
                      /\ arg'[d] \in seen'[d] \cup revoked'
                      /\ \A q \in seen'[d] : parent'[q] \in seen'[d] \cup revoked' \cup {NoRow}
                      /\ copy'[d] = "used" => Members(arg[d])' \subseteq seen'[d] \cup revoked'
    BY DEF Members
  <2>3. /\ d # c /\ pc[d] \in {"revoke_wait", "revoke_commit"} /\ arg'[d] = arg[d]
        /\ copy'[d] = copy[d] /\ seen'[d] = seen[d] /\ arg[d] \in issued
    BY <1>8 DEF RotateMint, Finish
  <2>4. Members(arg[d]) \subseteq Members(arg[d])'
    BY <2>1, <2>2, <2>3
  <2>5. \A q \in seen[d] : parent'[q] = parent[q]
    BY <2>1, <2>3
  <2>6. ASSUME copy[d] = "used" PROVE Members(arg[d])' = Members(arg[d])
    <3>1. holder[family[arg[d]]] = d
      BY <2>3, <2>6
    <3>2. family[arg[d]] # family[p]
      BY <3>1, <2>2, <2>3
    <3>3. QED
      BY <3>2, <2>1, <2>2, <2>3
  <2>7. QED
    BY <2>2, <2>3, <2>4, <2>5, <2>6
<1>9. ASSUME NEW c \in Client, RevokeScan(c) PROVE Scans'
  BY <1>9 DEF RevokeScan, lineageVars, TokensToRevoke
<1>10. ASSUME NEW c \in Client, RevokeTokens(c) PROVE Scans'
  BY <1>10 DEF RevokeTokens, lineageVars
<1>11. ASSUME NEW c \in Client, RevokeCommit(c) PROVE Scans'
  BY <1>11 DEF RevokeCommit, Finish
<1>12. ASSUME NEW c \in Client, Abort(c) PROVE Scans'
  BY <1>12 DEF Abort, Finish, lineageVars
<1>13. RevokeAllSessions => Scans'
  BY DEF RevokeAllSessions, EndAll
<1>14. UNCHANGED vars => Scans'
  BY DEF vars, lineageVars
<1>15. QED
  BY <1>1, <1>2, <1>3, <1>4, <1>5, <1>6, <1>7, <1>8, <1>9, <1>10, <1>11, <1>12, <1>13,
     <1>14, StepCases

(* The family invariants themselves.                                         *)
LEMMA SafetyStep == IInv /\ [Next]_vars => Safety'
<1> SUFFICES ASSUME IInv, [Next]_vars PROVE Safety'
  OBVIOUS
<1> USE NoRowAssumption, NoClientAssumption DEF IInv, TypeOK, LineageType, Control, Locks, Copies, Scans, Lineages, HasLocked, RotatePhase, RevokePhase, Safety, LinearLineage, SpentHasSuccessor, ReuseKillsFamily, RevokedTokenEndedSession
<1>1. ASSUME NEW r \in Row, SignIn(r) PROVE Safety'
  BY <1>1 DEF SignIn, Mint
<1>2. ASSUME NEW c \in Client, NEW p \in Row, RotateBegin(c, p) PROVE Safety'
  BY <1>2 DEF RotateBegin, lineageVars
<1>3. ASSUME NEW c \in Client, NEW p \in Row, SignOut(c, p) PROVE Safety'
  BY <1>3 DEF SignOut, lineageVars
<1>4. ASSUME NEW c \in Client, RotateLock(c) PROVE Safety'
  BY <1>4 DEF RotateLock, lineageVars
<1>5. ASSUME NEW c \in Client, RotateReread(c) PROVE Safety'
  BY <1>5 DEF RotateReread, lineageVars
<1>6. ASSUME NEW c \in Client, RotateRefuse(c) PROVE Safety'
  BY <1>6 DEF RotateRefuse, Finish, lineageVars
<1>7. ASSUME NEW c \in Client, RotateReuse(c) PROVE Safety'
  BY <1>7 DEF RotateReuse, lineageVars
<1>8. ASSUME NEW c \in Client, RotateMint(c) PROVE Safety'
  <2> DEFINE p == arg[c]
  <2>1. PICK r \in Row \ issued : /\ issued' = issued \cup {r}
                                 /\ family' = [family EXCEPT ![r] = family[p]]
                                 /\ parent' = [parent EXCEPT ![r] = p]
    BY <1>8 DEF RotateMint
  <2>2. p \in issued \ (used \cup revoked)
    BY <1>8 DEF RotateMint
  <2>3. used' = used \cup {p} /\ UNCHANGED <<revoked, ended, reported>>
    BY <1>8 DEF RotateMint
  <2>4. \A q \in issued : parent[q] # p
    BY <2>2
  <2>5. LinearLineage'
    BY <2>1, <2>2, <2>3, <2>4
  <2>6. SpentHasSuccessor'
    BY <2>1, <2>2, <2>3
  <2>7. ReuseKillsFamily'
    BY <2>1, <2>2, <2>3
  <2>8. QED
    BY <2>3, <2>5, <2>6, <2>7
<1>9. ASSUME NEW c \in Client, RevokeScan(c) PROVE Safety'
  BY <1>9 DEF RevokeScan, lineageVars
<1>10. ASSUME NEW c \in Client, RevokeTokens(c) PROVE Safety'
  BY <1>10 DEF RevokeTokens, lineageVars
<1>11. ASSUME NEW c \in Client, RevokeCommit(c) PROVE Safety'
  <2>1. seen[c] \subseteq Members(arg[c]) /\ SessionsToEnd(c) = Members(arg[c])
    BY <1>11 DEF RevokeCommit, SessionsToEnd
  <2>2. ASSUME copy[c] = "used" PROVE Members(arg[c]) \subseteq revoked'
    BY <1>11, <2>2 DEF RevokeCommit
  <2>3. LinearLineage' /\ SpentHasSuccessor'
    BY <1>11 DEF RevokeCommit
  <2>4. ReuseKillsFamily'
    BY <1>11, <2>1, <2>2 DEF RevokeCommit, Members
  <2>5. RevokedTokenEndedSession'
    BY <1>11, <2>1 DEF RevokeCommit
  <2>6. QED
    BY <2>3, <2>4, <2>5
<1>12. ASSUME NEW c \in Client, Abort(c) PROVE Safety'
  BY <1>12 DEF Abort, Finish, lineageVars
<1>13. RevokeAllSessions => Safety'
  BY DEF RevokeAllSessions, EndAll
<1>14. UNCHANGED vars => Safety'
  BY DEF vars, lineageVars
<1>15. QED
  BY <1>1, <1>2, <1>3, <1>4, <1>5, <1>6, <1>7, <1>8, <1>9, <1>10, <1>11, <1>12, <1>13,
     <1>14, StepCases

-----------------------------------------------------------------------------
LEMMA InitIInv == Init => IInv
<1> SUFFICES ASSUME Init PROVE IInv
  OBVIOUS
<1>1. TypeOK
  BY TypeInit
<1>2. QED
  BY <1>1, NoRowAssumption DEF Init, LineageInit, IInv, Control, Locks, HasLocked, Copies,
     Scans, Lineages, Safety, LinearLineage, SpentHasSuccessor, ReuseKillsFamily,
     RevokedTokenEndedSession, RotatePhase, RevokePhase

LEMMA Inductive == Spec => []IInv
<1>1. IInv /\ [Next]_vars => IInv'
  BY TypeStep, ControlStep, LocksStep, CopiesStep, ScansStep, LineagesStep, SafetyStep
     DEF IInv
<1>2. QED
  BY <1>1, InitIInv, PTL DEF Spec

(* Every variable of the model keeps its type under every call.              *)
THEOREM TypeCorrect == Spec => []TypeOK
<1>1. IInv => TypeOK
  BY DEF IInv
<1>2. QED
  BY <1>1, Inductive, PTL

(* However many calls present a token at once, it has at most one child, and *)
(* a family has at most one token left to rotate.                            *)
THEOREM LineagesAreLinear == Spec => []LinearLineage
<1>1. IInv => LinearLineage
  BY DEF IInv, Safety
<1>2. QED
  BY <1>1, Inductive, PTL

(* A token is marked used exactly when its successor exists.                 *)
THEOREM SpentTokensHaveSuccessors == Spec => []SpentHasSuccessor
<1>1. IInv => SpentHasSuccessor
  BY DEF IInv, Safety
<1>2. QED
  BY <1>1, Inductive, PTL

(* After a reported reuse no token and no session of the family is alive,    *)
(* nor will be.                                                              *)
THEOREM ReuseDetectionKills == Spec => []ReuseKillsFamily
<1>1. IInv => ReuseKillsFamily
  BY DEF IInv, Safety
<1>2. QED
  BY <1>1, Inductive, PTL

(* A revoked token has an ended session.                                     *)
THEOREM RevocationReachesSessions == Spec => []RevokedTokenEndedSession
<1>1. IInv => RevokedTokenEndedSession
  BY DEF IInv, Safety
<1>2. QED
  BY <1>1, Inductive, PTL

-----------------------------------------------------------------------------
(* Each statement is an atomic operation of TokenLineage or leaves the rows  *)
(* alone.                                                                    *)
LEMMA StepImplements == IInv /\ [Next]_vars => [LineageNext]_lineageVars
<1> SUFFICES ASSUME IInv, [Next]_vars PROVE [LineageNext]_lineageVars
  OBVIOUS
<1> USE DEF IInv, TypeOK, LineageType
<1>1. ASSUME NEW r \in Row, SignIn(r) PROVE [LineageNext]_lineageVars
  BY <1>1 DEF SignIn, LineageNext
<1>2. ASSUME NEW c \in Client, NEW p \in Row, RotateBegin(c, p)
      PROVE  [LineageNext]_lineageVars
  BY <1>2 DEF RotateBegin
<1>3. ASSUME NEW c \in Client, NEW p \in Row, SignOut(c, p)
      PROVE  [LineageNext]_lineageVars
  BY <1>3 DEF SignOut
<1>4. ASSUME NEW c \in Client, RotateLock(c) PROVE [LineageNext]_lineageVars
  BY <1>4 DEF RotateLock
<1>5. ASSUME NEW c \in Client, RotateReread(c) PROVE [LineageNext]_lineageVars
  BY <1>5 DEF RotateReread
<1>6. ASSUME NEW c \in Client, RotateRefuse(c) PROVE [LineageNext]_lineageVars
  BY <1>6 DEF RotateRefuse
<1>7. ASSUME NEW c \in Client, RotateReuse(c) PROVE [LineageNext]_lineageVars
  BY <1>7 DEF RotateReuse
<1>8. ASSUME NEW c \in Client, RotateMint(c) PROVE [LineageNext]_lineageVars
  <2>1. arg[c] \in issued \ (used \cup revoked)
    BY <1>8 DEF RotateMint, Control, Copies
  <2>2. PICK r \in Row \ issued : /\ issued' = issued \cup {r}
                                 /\ family' = [family EXCEPT ![r] = family[arg[c]]]
                                 /\ parent' = [parent EXCEPT ![r] = arg[c]]
    BY <1>8 DEF RotateMint
  <2>3. Rotate(arg[c], r)
    BY <2>1, <2>2, <1>8 DEF RotateMint, Rotate
  <2>4. QED
    BY <2>1, <2>2, <2>3 DEF LineageNext
<1>9. ASSUME NEW c \in Client, RevokeScan(c) PROVE [LineageNext]_lineageVars
  BY <1>9 DEF RevokeScan
<1>10. ASSUME NEW c \in Client, RevokeTokens(c) PROVE [LineageNext]_lineageVars
  BY <1>10 DEF RevokeTokens
<1>11. ASSUME NEW c \in Client, RevokeCommit(c) PROVE [LineageNext]_lineageVars
  <2>1. /\ seen[c] \subseteq Members(arg[c])
        /\ arg[c] \in revoked \cup seen[c]
        /\ \A r \in seen[c] : parent[r] \in revoked \cup seen[c] \cup {NoRow}
    BY <1>11 DEF RevokeCommit, Scans
  <2>2. arg[c] \in issued
    BY <1>11 DEF RevokeCommit, Control
  <2>3. /\ revoked' = revoked \cup seen[c] /\ ended' = ended \cup Members(arg[c])
        /\ UNCHANGED <<issued, family, parent, used>>
    BY <1>11 DEF RevokeCommit, SessionsToEnd
  <2>4. Cut(arg[c])
    BY <2>1, <2>2, <2>3 DEF Cut
  <2>5. QED
    BY <2>2, <2>4 DEF LineageNext
<1>12. ASSUME NEW c \in Client, Abort(c) PROVE [LineageNext]_lineageVars
  BY <1>12 DEF Abort
<1>13. RevokeAllSessions => [LineageNext]_lineageVars
  BY DEF RevokeAllSessions, LineageNext
<1>14. UNCHANGED vars => [LineageNext]_lineageVars
  BY DEF vars
<1>15. QED
  BY <1>1, <1>2, <1>3, <1>4, <1>5, <1>6, <1>7, <1>8, <1>9, <1>10, <1>11, <1>12, <1>13,
     <1>14, StepCases

(* The statements of rotate_refresh(), sign_out() and mintSession, in any    *)
(* interleaving, implement the atomic token lineage.                         *)
THEOREM Implementation == Spec => ImplementsLineage
<1>1. Init => LineageInit
  BY DEF Init
<1>2. QED
  BY <1>1, StepImplements, Inductive, PTL DEF Spec, LineageSpec, ImplementsLineage
(* A family whose tokens are all revoked gets no other: whoever would rotate *)
(* has seen, under the family's locks, a token that is not (0034).           *)
THEOREM DeadFamiliesStayDead == Spec => DeadFamilyStaysDead
<1>1. ASSUME IInv, [LineageNext]_lineageVars, NEW p \in issued, Members(p) \subseteq revoked
      PROVE  Members(p)' \subseteq revoked'
  <2> USE <1>1 DEF IInv, TypeOK, LineageType, Members
  <2>1. CASE UNCHANGED lineageVars
    BY <2>1 DEF lineageVars
  <2>2. ASSUME NEW r \in Row, Mint(r) PROVE Members(p)' \subseteq revoked'
    BY <2>2 DEF Mint
  <2>3. ASSUME NEW q \in Row, NEW r \in Row, Rotate(q, r) PROVE Members(p)' \subseteq revoked'
    BY <2>3 DEF Rotate
  <2>4. ASSUME NEW q \in Row, Kill(q) \/ Cut(q) PROVE Members(p)' \subseteq revoked'
    BY <2>4 DEF Kill, Cut
  <2>5. CASE EndAll
    BY <2>5 DEF EndAll
  <2>6. QED
    BY <2>1, <2>2, <2>3, <2>4, <2>5 DEF LineageNext
<1>2. IInv /\ [Next]_vars => \A p \in issued : Members(p) \subseteq revoked => Members(p)' \subseteq revoked'
  BY <1>1, StepImplements
<1>3. QED
  BY <1>2, Inductive, PTL DEF Spec, DeadFamilyStaysDead

-----------------------------------------------------------------------------
\* A statement of c waits for a lock of d.
WaitsFor(c, d) ==
  /\ c # d /\ pc[c] \in {"rotate_lock", "revoke_wait"}
  /\ \E r \in seen[c] : holder[r] = d

\* A wait ends at somebody who does not wait, at the latest with the second.
WaitsAreShort ==
  \A c, d, e, f \in Client : ~(WaitsFor(c, d) /\ WaitsFor(d, e) /\ WaitsFor(e, f))

\* Locks are of one family, and are held from a statement that has had them all.
Holders ==
  /\ \A c \in Client : pc[c] = "rotate_lock" => seen[c] \subseteq Members(arg[c])
  /\ \A r \in Row, d \in Client : holder[r] = d =>
       (HasLocked(d) \/ pc[d] = "revoke_commit") /\ r \in Members(arg[d])

(* Nobody takes a lock beyond its family, or keeps one after its end.        *)
LEMMA HoldersStep == IInv /\ Holders /\ [Next]_vars => Holders'
<1> SUFFICES ASSUME IInv, Holders, [Next]_vars PROVE Holders'
  OBVIOUS
<1> USE NoRowAssumption, NoClientAssumption
    DEF IInv, TypeOK, LineageType, Control, Holders, HasLocked, Members, RotatePhase, RevokePhase
<1>1. ASSUME NEW r \in Row, SignIn(r) PROVE Holders'
  BY <1>1 DEF SignIn, Mint
<1>2. ASSUME NEW c \in Client, NEW p \in Row, RotateBegin(c, p) PROVE Holders'
  BY <1>2 DEF RotateBegin, lineageVars
<1>3. ASSUME NEW c \in Client, NEW p \in Row, SignOut(c, p) PROVE Holders'
  BY <1>3 DEF SignOut, lineageVars
<1>4. ASSUME NEW c \in Client, RotateLock(c) PROVE Holders'
  BY <1>4 DEF RotateLock, lineageVars, RowsToLock, Free
<1>5. ASSUME NEW c \in Client, RotateReread(c) PROVE Holders'
  BY <1>5 DEF RotateReread, lineageVars, Status
<1>6. ASSUME NEW c \in Client, RotateRefuse(c) PROVE Holders'
  BY <1>6 DEF RotateRefuse, Finish, lineageVars
<1>7. ASSUME NEW c \in Client, RotateReuse(c) PROVE Holders'
  BY <1>7 DEF RotateReuse, lineageVars
<1>8. ASSUME NEW c \in Client, RotateMint(c) PROVE Holders'
  BY <1>8 DEF RotateMint, Finish
<1>9. ASSUME NEW c \in Client, RevokeScan(c) PROVE Holders'
  BY <1>9 DEF RevokeScan, lineageVars, TokensToRevoke
<1>10. ASSUME NEW c \in Client, RevokeTokens(c) PROVE Holders'
  BY <1>10 DEF RevokeTokens, lineageVars, Free, Scans
<1>11. ASSUME NEW c \in Client, RevokeCommit(c) PROVE Holders'
  BY <1>11 DEF RevokeCommit, Finish
<1>12. ASSUME NEW c \in Client, Abort(c) PROVE Holders'
  BY <1>12 DEF Abort, Finish, lineageVars
<1>13. RevokeAllSessions => Holders'
  BY DEF RevokeAllSessions, EndAll
<1>14. UNCHANGED vars => Holders'
  BY DEF vars, lineageVars
<1>15. QED
  BY <1>1, <1>2, <1>3, <1>4, <1>5, <1>6, <1>7, <1>8, <1>9, <1>10, <1>11, <1>12, <1>13,
     <1>14, StepCases

(* Only a rotation that detected reuse waits with locks in its hands, and    *)
(* it waits for sign-outs, whose one wait is over.  So no transactions wait  *)
(* for each other between statements, however many there are: what           *)
(* EveryCallAnswers takes from fairness is the queue of one row's waiters    *)
(* (0040 rotate_refresh and sign_out).                                       *)
THEOREM NobodyWaitsForEver == Spec => []WaitsAreShort
<1>1. Init => Holders
  BY NoClientAssumption DEF Init, Holders
<1>2. ASSUME IInv, Holders, NEW c \in Client, NEW d \in Client, WaitsFor(c, d)
      PROVE  HasLocked(d) \/ pc[d] = "revoke_commit"
  BY <1>2 DEF WaitsFor, Holders, IInv, TypeOK, LineageType
<1>3. ASSUME IInv, Holders, NEW d \in Client, NEW e \in Client, WaitsFor(d, e), HasLocked(d)
      PROVE  pc[e] = "revoke_commit"
  <2>1. PICK r \in seen[d] : holder[r] = e
    BY <1>3 DEF WaitsFor
  <2>2. pc[d] = "revoke_wait" /\ d # e
    BY <1>3 DEF WaitsFor, HasLocked, RevokePhase
  <2>3. r \in Members(arg[d]) /\ r \in Row
    BY <1>3, <2>1, <2>2 DEF IInv, Scans, TypeOK, LineageType
  <2>4. (HasLocked(e) \/ pc[e] = "revoke_commit") /\ r \in Members(arg[e])
    BY <1>3, <2>1, <2>3 DEF Holders
  <2>5. family[arg[d]] = family[arg[e]]
    BY <2>3, <2>4 DEF Members
  <2>6. ~HasLocked(e)
    BY <1>3, <2>2, <2>5 DEF IInv, Locks
  <2>7. QED
    BY <2>4, <2>6
<1>4. IInv /\ Holders => WaitsAreShort
  BY <1>2, <1>3 DEF WaitsAreShort, WaitsFor
<1>5. QED
  BY <1>1, <1>4, InitIInv, Inductive, HoldersStep, PTL DEF Spec
=============================================================================
