------------------------------ MODULE Membership ------------------------------
(***************************************************************************)
(* Revocation, change of archetype and case-team assignment in one firm,   *)
(* statement by statement, with the row locks of the UPDATE and of the     *)
(* membership_retain_one_sa trigger.                                       *)
(*                                                                         *)
(* A request is one transaction at READ COMMITTED (runInTenantContext).    *)
(* BEFORE UPDATE FOR EACH ROW fires with the updated row already locked;   *)
(* the trigger then locks the other administrators' rows one after the     *)
(* other.  What a transaction wrote becomes visible in the action that     *)
(* commits it.                                                             *)
(***************************************************************************)
EXTENDS Roster

CONSTANTS Client,   \* concurrent requests
          NoClient  \* holder of an unlocked row

ASSUME NoClientAssumption == NoClient \notin Client

VARIABLES holder,   \* holder[m]: the request holding m's membership row lock
          pc,       \* pc[c]: the statement request c runs next
          target,   \* target[c]: the membership the request names
          becomes,  \* becomes[c]: the role the UPDATE writes
          onCase,   \* onCase[c]: the case an assignment names
          todo      \* todo[c]: administrators the trigger has still to lock

vars == <<rosterVars, holder, pc, target, becomes, onCase, todo>>

Phase == {"idle", "lock_own", "trigger", "siblings", "write", "insert"}

TypeOK ==
  /\ RosterType
  /\ holder \in [Member -> Client \cup {NoClient}]
  /\ pc \in [Client -> Phase]
  /\ target \in [Client -> Member]
  /\ becomes \in [Client -> Archetype \cup {Revoked}]
  /\ onCase \in [Client -> Case]
  /\ todo \in [Client -> SUBSET Member]

Init ==
  /\ RosterInit
  /\ holder = [m \in Member |-> NoClient]
  /\ pc = [c \in Client |-> "idle"]
  /\ target = [c \in Client |-> Founder]
  /\ becomes = [c \in Client |-> Revoked]
  /\ onCase \in {[c \in Client |-> k] : k \in Case}
  /\ todo = [c \in Client |-> {}]

Free(c, m) == holder[m] \in {c, NoClient}

\* Commit and rollback alike release every lock and forget the request.
Finish(c) ==
  /\ pc' = [pc EXCEPT ![c] = "idle"]
  /\ target' = [target EXCEPT ![c] = Founder]
  /\ becomes' = [becomes EXCEPT ![c] = Revoked]
  /\ todo' = [todo EXCEPT ![c] = {}]
  /\ holder' = [m \in Member |-> IF holder[m] = c THEN NoClient ELSE holder[m]]
  /\ UNCHANGED onCase

-----------------------------------------------------------------------------
(* accept_invitation(): one statement, no lock shared with the calls below.  *)
(* A revoked member's second invitation fails on the unique row it still has.*)
Join(m, a) ==
  /\ Accept(m, a)
  /\ UNCHANGED <<holder, pc, target, becomes, onCase, todo>>

\* Mutant: AND status = 'live' is missing.
AnyRow(m) == TRUE

\* SELECT ... WHERE id = m AND status = 'live', without a lock.
LooksLive(m) == Live(m)

(* MembershipService.revoke and changeArchetype differ in the value written. *)
(* Both look for a live row first and refuse if there is none.               *)
UpdateBegin(c, m, r) ==
  /\ pc[c] = "idle" /\ LooksLive(m)
  /\ pc' = [pc EXCEPT ![c] = "lock_own"]
  /\ target' = [target EXCEPT ![c] = m]
  /\ becomes' = [becomes EXCEPT ![c] = r]
  /\ UNCHANGED <<rosterVars, holder, onCase, todo>>

\* The UPDATE's WHERE, evaluated again on the version the lock was granted on.
StillMatches(m) == Live(m)

LockOwn(c) ==
  /\ pc[c] = "lock_own"
  /\ Free(c, target[c])
  /\ StillMatches(target[c])
  /\ holder' = [holder EXCEPT ![target[c]] = c]
  /\ pc' = [pc EXCEPT ![c] = "trigger"]
  /\ UNCHANGED <<rosterVars, target, becomes, onCase, todo>>

\* No row updated: the service throws ResourceNotFound.
LockOwnMisses(c) ==
  /\ pc[c] = "lock_own"
  /\ Free(c, target[c])
  /\ ~StillMatches(target[c])
  /\ Finish(c)
  /\ UNCHANGED rosterVars

\* Mutant: the trigger covers archetype changes only.
DemotesOnly(c) == role[target[c]] = SA /\ becomes[c] \in Archetype \ {SA}

\* The trigger's IF: OLD is a live SA and NEW is not.
GivesUpSA(c) == role[target[c]] = SA /\ becomes[c] # SA

\* The trigger does nothing for any other UPDATE.
TriggerPasses(c) ==
  /\ pc[c] = "trigger" /\ ~GivesUpSA(c)
  /\ pc' = [pc EXCEPT ![c] = "write"]
  /\ UNCHANGED <<rosterVars, holder, target, becomes, onCase, todo>>

\* PERFORM begins: its snapshot fixes the rows FOR UPDATE will visit.
TriggerScans(c) ==
  /\ pc[c] = "trigger" /\ GivesUpSA(c)
  /\ todo' = [todo EXCEPT ![c] = {m \in Member \ {target[c]} : role[m] = SA}]
  /\ pc' = [pc EXCEPT ![c] = "siblings"]
  /\ UNCHANGED <<rosterVars, holder, target, becomes, onCase>>

\* A sibling that is no SA any more when its lock is granted drops out.
KeepSibling(c, m) ==
  /\ Free(c, m)
  /\ holder' = IF role[m] = SA THEN [holder EXCEPT ![m] = c] ELSE holder

LockSibling(c) ==
  /\ pc[c] = "siblings"
  /\ \E m \in todo[c] :
       /\ KeepSibling(c, m)
       /\ todo' = [todo EXCEPT ![c] = @ \ {m}]
  /\ UNCHANGED <<rosterVars, pc, target, becomes, onCase>>

\* The administrators the trigger found and holds.
Found(c) == {m \in Member \ {target[c]} : holder[m] = c}

TriggerFinds(c) ==
  /\ pc[c] = "siblings" /\ todo[c] = {} /\ Found(c) # {}
  /\ pc' = [pc EXCEPT ![c] = "write"]
  /\ UNCHANGED <<rosterVars, holder, target, becomes, onCase, todo>>

\* Mutant: the refusal returns without ending the transaction.
RefuseKeepingLocks(c) ==
  /\ pc[c] = "siblings" /\ todo[c] = {} /\ Found(c) = {}
  /\ pc' = [pc EXCEPT ![c] = "idle"]
  /\ UNCHANGED <<rosterVars, holder, target, becomes, onCase, todo>>

\* RAISE last_sa_protected, answered as LastAdministratorProtected.
TriggerRaises(c) ==
  /\ pc[c] = "siblings" /\ todo[c] = {} /\ Found(c) = {}
  /\ Finish(c)
  /\ UNCHANGED rosterVars

\* Mutant: the teams are left to a job that runs later.
TeamsLeftForLater(c) == assigned

\* closeAssignmentsForMembership, in the revocation's own transaction.
TeamsAfter(c) == IF becomes[c] = Revoked THEN WithoutTeams(target[c]) ELSE assigned

UpdateCommit(c) ==
  /\ pc[c] = "write"
  /\ role' = [role EXCEPT ![target[c]] = becomes[c]]
  /\ assigned' = TeamsAfter(c)
  /\ Finish(c)

-----------------------------------------------------------------------------
(* CaseAssignmentService.assign: findLiveMembership, then the INSERT.        *)
AssignBegin(c, k, m) ==
  /\ pc[c] = "idle" /\ LooksLive(m)
  /\ pc' = [pc EXCEPT ![c] = "insert"]
  /\ target' = [target EXCEPT ![c] = m]
  /\ onCase' = [onCase EXCEPT ![c] = k]
  /\ UNCHANGED <<rosterVars, holder, becomes, todo>>

\* The foreign key takes FOR KEY SHARE on the membership row, which waits for
\* the trigger's FOR UPDATE but not for an UPDATE of the row itself.
KeyShareFree(m) ==
  \/ holder[m] = NoClient
  \/ \E d \in Client : holder[m] = d /\ target[d] = m

\* A live pair that is already there is the unique index's violation.
AssignInsert(c) ==
  /\ pc[c] = "insert"
  /\ KeyShareFree(target[c])
  /\ assigned' = assigned \cup {<<onCase[c], target[c]>>}
  /\ Finish(c)
  /\ UNCHANGED role

\* CaseAssignmentService.unassign: one UPDATE decides.
TakeOff(k, m) ==
  /\ Unassign(k, m)
  /\ UNCHANGED <<holder, pc, target, becomes, onCase, todo>>

-----------------------------------------------------------------------------
\* What c waits for is held by d.
WaitsFor(c, d) ==
  \/ pc[c] = "lock_own" /\ holder[target[c]] = d /\ d # c
  \/ /\ pc[c] = "siblings" /\ todo[c] # {}
     /\ \A m \in todo[c] : ~Free(c, m)
     /\ \E s \in todo[c] : holder[s] = d

\* Requests that wait for each other in a circle.
Deadlocked(c) ==
  \E S \in SUBSET Client :
    /\ c \in S
    /\ \A d \in S : (\E e \in S : WaitsFor(d, e)) /\ (\E e \in S : WaitsFor(e, d))

\* After deadlock_timeout PostgreSQL fails one request of the circle.
DeadlockVictim(c) ==
  /\ Deadlocked(c)
  /\ Finish(c)
  /\ UNCHANGED rosterVars

\* The connection, the process or a later statement of the request fails.
Abort(c) ==
  /\ pc[c] # "idle"
  /\ Finish(c)
  /\ UNCHANGED rosterVars

Begin(c) ==
  \E m \in Member :
    \/ \E r \in Archetype \cup {Revoked} : UpdateBegin(c, m, r)
    \/ \E k \in Case : AssignBegin(c, k, m)

Step(c) ==
  \/ TriggerPasses(c) \/ TriggerScans(c) \/ TriggerFinds(c) \/ TriggerRaises(c)
  \/ UpdateCommit(c)

AcquireLock(c) ==
  LockOwn(c) \/ LockOwnMisses(c) \/ LockSibling(c) \/ AssignInsert(c)

Next ==
  \/ \E m \in Member : \E a \in Archetype : Join(m, a)
  \/ \E m \in Member : \E k \in Case : TakeOff(k, m)
  \/ \E c \in Client :
       Begin(c) \/ Step(c) \/ AcquireLock(c) \/ DeadlockVictim(c) \/ Abort(c)

Spec == Init /\ [][Next]_vars

\* Running requests are scheduled, waiters queue per row, and the deadlock
\* detector runs.  Nobody is obliged to call or to abort.
Fairness ==
  \A c \in Client :
    WF_vars(Step(c)) /\ SF_vars(AcquireLock(c)) /\ WF_vars(DeadlockVictim(c))

FairSpec == Spec /\ Fairness

-----------------------------------------------------------------------------
(* The firm is never left without a live administrator, however many calls   *)
(* revoke or demote administrators at once (0019, SC-009).                   *)
AdministratorRetained == \E m \in Member : role[m] = SA

(* Revocation is one way: a change of archetype that looked before it and    *)
(* writes after it brings nobody back (FR-009).                              *)
RevokedStaysRevoked ==
  [][\A m \in Member : role[m] = Revoked => role'[m] = Revoked]_vars

(* Statement by statement, the calls do no more than the atomic operations.  *)
ImplementsRoster == RosterSpec

(* Every request is answered, also when administrators revoke each other.    *)
EveryRequestAnswers == \A c \in Client : pc[c] # "idle" ~> pc[c] = "idle"

(* case-assignment.repository.ts: "a revoked member holds no live row".      *)
RevokedHoldsNoAssignment == \A p \in assigned : role[p[2]] # Revoked

(* 0019: "the second transaction blocks until the first commits and then     *)
(* re-reads the true count".  Then no two of them ever wait for each other;  *)
(* the code does not keep this, and leaves it to the deadlock detector.      *)
NoCircularWait == \A c \in Client : ~Deadlocked(c)
=============================================================================
