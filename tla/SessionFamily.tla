----------------------------- MODULE SessionFamily -----------------------------
(***************************************************************************)
(* Rotation, reuse detection, sign-out and recovery over the refresh-token *)
(* families of one identity, statement by statement.                       *)
(*                                                                         *)
(* PostgreSQL runs these calls at READ COMMITTED: every statement reads    *)
(* what was committed when the statement began, a row another transaction  *)
(* has locked is waited for and its WHERE is evaluated again on the        *)
(* version that transaction left, and a row that transaction inserted is   *)
(* not seen by the statement that waited.  A client is one transaction;    *)
(* what it wrote becomes visible in the action that commits it.            *)
(***************************************************************************)
EXTENDS TokenLineage, Naturals, FiniteSets

CONSTANTS Client,   \* concurrent transactions on lc_auth's connections
          NoClient  \* holder of an unlocked row

ASSUME NoClientAssumption == NoClient \notin Client

VARIABLES holder,    \* holder[r]: the transaction whose lock on row r is in force
          pc,        \* pc[c]: the statement transaction c runs next
          arg,       \* arg[c]: the row whose token (or session) was presented
          seen,      \* seen[c]: the rows the running statement's snapshot matched
          copy,      \* copy[c]: what a SELECT into a local variable returned
          reported   \* history: families for which reuse_detected was returned

vars == <<lineageVars, holder, pc, arg, seen, copy, reported>>

RotatePhase  == {"rotate_lock", "rotate_reread", "rotate_decide"}
RevokePhase  == {"revoke_scan", "revoke_wait", "revoke_commit"}
Copy         == {"none", "fresh", "used", "revoked"}

TypeOK ==
  /\ LineageType
  /\ holder \in [Row -> Client \cup {NoClient}]
  /\ pc \in [Client -> {"idle"} \cup RotatePhase \cup RevokePhase]
  /\ arg \in [Client -> Row \cup {NoRow}]
  /\ seen \in [Client -> SUBSET issued]
  /\ copy \in [Client -> Copy]
  /\ reported \subseteq Row

Init ==
  /\ LineageInit
  /\ holder = [r \in Row |-> NoClient]
  /\ pc = [c \in Client |-> "idle"]
  /\ arg = [c \in Client |-> NoRow]
  /\ seen = [c \in Client |-> {}]
  /\ copy = [c \in Client |-> "none"]
  /\ reported = {}

\* Mutant: a statement that does not wait for the rows' locks.
FreeWithoutWaiting(c, S) == TRUE

\* No transaction but c holds a lock on any row of S.
Free(c, S) == \A r \in S : holder[r] \in {c, NoClient}

\* Commit and rollback alike release every lock and forget the locals.
Finish(c) ==
  /\ pc' = [pc EXCEPT ![c] = "idle"]
  /\ arg' = [arg EXCEPT ![c] = NoRow]
  /\ seen' = [seen EXCEPT ![c] = {}]
  /\ copy' = [copy EXCEPT ![c] = "none"]
  /\ holder' = [r \in Row |-> IF holder[r] = c THEN NoClient ELSE holder[r]]

\* Bound: a rotation starts only while an unused row is left for its child.
Room == Cardinality(Row \ issued) > Cardinality({c \in Client : pc[c] \in RotatePhase})

-----------------------------------------------------------------------------
(* mintSession, at the end of a challenge or of an enrollment. *)
SignIn(r) ==
  /\ Room
  /\ Mint(r)
  /\ UNCHANGED <<holder, pc, arg, seen, copy, reported>>

(* rotate_refresh().  A row's family never changes, so the first SELECT is   *)
(* joined to the snapshot of the locking one.  An unknown digest is refused  *)
(* without a write and is not a step.                                        *)
RotateBegin(c, p) ==
  /\ pc[c] = "idle" /\ p \in issued /\ Room
  /\ pc' = [pc EXCEPT ![c] = "rotate_lock"]
  /\ arg' = [arg EXCEPT ![c] = p]
  /\ seen' = [seen EXCEPT ![c] = Members(p)]
  /\ UNCHANGED <<lineageVars, holder, copy, reported>>

\* Mutant: FOR UPDATE on the presented row alone.
PresentedRowOnly(c) == {arg[c]}

\* FOR UPDATE covers every row of the family the snapshot holds.
RowsToLock(c) == seen[c]

\* PERFORM 1 ... WHERE family_id = ... FOR UPDATE.
RotateLock(c) ==
  /\ pc[c] = "rotate_lock"
  /\ Free(c, RowsToLock(c))
  /\ holder' = [r \in Row |-> IF r \in RowsToLock(c) THEN c ELSE holder[r]]
  /\ pc' = [pc EXCEPT ![c] = "rotate_reread"]
  /\ UNCHANGED <<lineageVars, arg, seen, copy, reported>>

\* Mutant: revoked_at is not looked at.
StatusIgnoringRevocation(p) == IF p \in used THEN "used" ELSE "fresh"

\* The branch a row takes: revoked_at is tested before used_at.
Status(p) ==
  IF p \in revoked THEN "revoked" ELSE IF p \in used THEN "used" ELSE "fresh"

\* The presented row is read again, under the lock.
RotateReread(c) ==
  /\ pc[c] = "rotate_reread"
  /\ copy' = [copy EXCEPT ![c] = Status(arg[c])]
  /\ pc' = [pc EXCEPT ![c] = "rotate_decide"]
  /\ UNCHANGED <<lineageVars, holder, arg, seen, reported>>

\* Mutant: the refusal returns without ending the transaction.
RefuseKeepingLocks(c) ==
  /\ pc[c] = "rotate_decide" /\ copy[c] = "revoked"
  /\ pc' = [pc EXCEPT ![c] = "idle"]
  /\ UNCHANGED <<lineageVars, holder, arg, seen, copy, reported>>

RotateRefuse(c) ==
  /\ pc[c] = "rotate_decide" /\ copy[c] = "revoked"
  /\ Finish(c)
  /\ UNCHANGED <<lineageVars, reported>>

\* The reuse branch revokes the family and commits although the caller is
\* refused; it still holds the locks the rotation took.
RotateReuse(c) ==
  /\ pc[c] = "rotate_decide" /\ copy[c] = "used"
  /\ pc' = [pc EXCEPT ![c] = "revoke_scan"]
  /\ UNCHANGED <<lineageVars, holder, arg, seen, copy, reported>>

\* Mutant: the child's family_id is the presented row's id.
MintInParentsOwnFamily(c) ==
  /\ pc[c] = "rotate_decide" /\ copy[c] = "fresh"
  /\ \E r \in Row \ issued :
       /\ issued' = issued \cup {r}
       /\ family' = [family EXCEPT ![r] = arg[c]]
       /\ parent' = [parent EXCEPT ![r] = arg[c]]
  /\ used' = used \cup {arg[c]}
  /\ Finish(c)
  /\ UNCHANGED <<revoked, ended, reported>>

\* The ordinary path: mark used, insert the session and the child token.
RotateMint(c) ==
  /\ pc[c] = "rotate_decide" /\ copy[c] = "fresh"
  /\ \E r \in Row \ issued :
       /\ issued' = issued \cup {r}
       /\ family' = [family EXCEPT ![r] = family[arg[c]]]
       /\ parent' = [parent EXCEPT ![r] = arg[c]]
  /\ used' = used \cup {arg[c]}
  /\ Finish(c)
  /\ UNCHANGED <<revoked, ended, reported>>

-----------------------------------------------------------------------------
(* SignOutService.signOut looks the session up by its digest, in whatever    *)
(* state it is, and calls sign_out(), which takes no lock on the family.     *)
SignOut(c, p) ==
  /\ pc[c] = "idle" /\ p \in issued
  /\ pc' = [pc EXCEPT ![c] = "revoke_scan"]
  /\ arg' = [arg EXCEPT ![c] = p]
  /\ UNCHANGED <<lineageVars, holder, seen, copy, reported>>

-----------------------------------------------------------------------------
(* The two UPDATEs that revoke a family, the same text in rotate_refresh()   *)
(* and sign_out().                                                           *)

\* Mutant: only the presented row's token.
PresentedTokenOnly(c) == {arg[c]} \ revoked

\* WHERE family_id = ... AND revoked_at IS NULL.
TokensToRevoke(c) == Members(arg[c]) \ revoked

\* UPDATE refresh_token begins: its snapshot fixes the rows it will visit.
RevokeScan(c) ==
  /\ pc[c] = "revoke_scan"
  /\ seen' = [seen EXCEPT ![c] = TokensToRevoke(c)]
  /\ pc' = [pc EXCEPT ![c] = "revoke_wait"]
  /\ UNCHANGED <<lineageVars, holder, arg, copy, reported>>

\* The UPDATE has waited for the rows' locks; rows revoked meanwhile no longer
\* satisfy revoked_at IS NULL and drop out.
RevokeTokens(c) ==
  /\ pc[c] = "revoke_wait"
  /\ Free(c, seen[c])
  /\ seen' = [seen EXCEPT ![c] = @ \ revoked]
  /\ holder' = [r \in Row |-> IF r \in seen[c] \ revoked THEN c ELSE holder[r]]
  /\ pc' = [pc EXCEPT ![c] = "revoke_commit"]
  /\ UNCHANGED <<lineageVars, arg, copy, reported>>

\* Mutant: only the presented row's session.
PresentedSessionOnly(c) == {arg[c]}

\* WHERE id IN (SELECT session_id FROM refresh_token of the family).
SessionsToEnd(c) == Members(arg[c])

\* UPDATE session, a statement of its own with a snapshot of its own; commit.
RevokeCommit(c) ==
  /\ pc[c] = "revoke_commit"
  /\ revoked' = revoked \cup seen[c]
  /\ ended' = ended \cup SessionsToEnd(c)
  /\ reported' = IF copy[c] = "used" THEN reported \cup {family[arg[c]]} ELSE reported
  /\ Finish(c)
  /\ UNCHANGED <<issued, family, parent, used>>

-----------------------------------------------------------------------------
(* revokeAllSessionsFor, in prepareReenrollment's transaction. *)
RevokeAllSessions ==
  /\ EndAll
  /\ UNCHANGED <<holder, pc, arg, seen, copy, reported>>

\* Mutant: used_at was committed by itself before the child was inserted.
AbortAfterSpending(c) ==
  /\ pc[c] # "idle"
  /\ used' = IF copy[c] = "fresh" THEN used \cup {arg[c]} ELSE used
  /\ Finish(c)
  /\ UNCHANGED <<issued, family, parent, revoked, ended, reported>>

(* The connection is lost, the process dies, a statement fails or the        *)
(* transaction is a deadlock's victim: nothing it wrote was ever visible.    *)
Abort(c) ==
  /\ pc[c] # "idle"
  /\ Finish(c)
  /\ UNCHANGED <<lineageVars, reported>>

Begin(c) == \E p \in Row : RotateBegin(c, p) \/ SignOut(c, p)

Step(c) ==
  \/ RotateReread(c) \/ RotateRefuse(c) \/ RotateReuse(c) \/ RotateMint(c)
  \/ RevokeScan(c) \/ RevokeCommit(c)

AcquireLocks(c) == RotateLock(c) \/ RevokeTokens(c)

Next ==
  \/ \E r \in Row : SignIn(r)
  \/ \E c \in Client : Begin(c) \/ Step(c) \/ AcquireLocks(c) \/ Abort(c)
  \/ RevokeAllSessions

Spec == Init /\ [][Next]_vars

\* A running transaction is scheduled; a waiter whose rows come free again and
\* again obtains them at last, PostgreSQL queueing waiters per row.  Nobody is
\* obliged to call, and no transaction is obliged to abort.
Fairness == \A c \in Client : WF_vars(Step(c)) /\ SF_vars(AcquireLocks(c))

FairSpec == Spec /\ Fairness

-----------------------------------------------------------------------------
(* Rotation never forks a lineage: a token has at most one child however     *)
(* many calls present it at once, and a family never holds two tokens that   *)
(* could still be rotated (rotate_refresh, FR-035).                          *)
LinearLineage ==
  /\ \A a, b \in issued : parent[a] = parent[b] /\ parent[a] # NoRow => a = b
  /\ \A a, b \in issued \ (used \cup revoked) : family[a] = family[b] => a = b

(* A token is spent exactly when a successor exists, also when a transaction *)
(* dies half way (0040: "a token can never be spent without a successor").   *)
SpentHasSuccessor == used = {parent[r] : r \in issued} \ {NoRow}

(* Once reuse was reported for a family, every token and every session it    *)
(* has or ever gets is dead: no rotation in flight escapes (FR-036).         *)
ReuseKillsFamily ==
  \A r \in issued : family[r] \in reported => r \in revoked \cap ended

(* A revoked token never leaves its session alive, in whichever order the    *)
(* revoking statements of several calls interleave.                          *)
RevokedTokenEndedSession == revoked \subseteq ended

(* A family whose tokens are all revoked never gets a live one again, also   *)
(* not from a rotation that began before the revocation.                     *)
DeadFamilyStaysDead ==
  [][\A p \in issued : Members(p) \subseteq revoked => Members(p)' \subseteq revoked']_vars

(* Statement by statement, the calls do no more than the atomic operations.  *)
ImplementsLineage == LineageSpec

(* Every call is answered: no set of transactions waits for each other for   *)
(* ever, and none leaves a lock behind.                                      *)
EveryCallAnswers == \A c \in Client : pc[c] # "idle" ~> pc[c] = "idle"

(* 0040's comment on sign_out(): "Revokes the WHOLE refresh-token family".   *)
(* When sign-out commits, no token of the family can be rotated any more.    *)
SignOutKillsFamily ==
  [][\A c \in Client :
       RevokeCommit(c) /\ copy[c] = "none" => Members(arg[c]) \subseteq revoked']_vars

(* recovery.service.ts: "Every session dies with the factor."  A session     *)
(* that was ended has no live session descending from it.                    *)
EndedSessionHasNoLiveHeir ==
  \A r \in issued : parent[r] \in ended => r \in ended
=============================================================================
