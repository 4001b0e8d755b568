------------------------------- MODULE Settings --------------------------------
(***************************************************************************)
(* The settings of a firm.  Its administrators invite people, revoke       *)
(* invitations and members from dialogs that ask for a second factor, keep *)
(* the catalogs, and give members a position; the platform seeds the first *)
(* administrator; whoever holds a link accepts it.  Each is a transaction  *)
(* whose statements interleave with the others'.  The case statuses have a *)
(* module of their own, and so have the administrators' locks.             *)
(***************************************************************************)
EXTENDS Naturals, FiniteSets

CONSTANTS Person,      \* people, by their e-mail
          Administrators,  \* those of them who may have been somewhere before
          Visitor,     \* browsers with the acceptance page open
          Platform,    \* the operator's console
          Watched,     \* the administrators whose dialogs are followed (bound)
          Invitation,  \* bound: invitations issued
          Entry,       \* entries of the firm's catalogs
          Position,    \* those of the catalog of positions
          NameOf,      \* the catalog and the name of each
          Seeded,      \* the entries a firm is provisioned with
          HourlyCap,   \* invitations a firm issues in an hour: 50
          MaxFailed,   \* refused attempts an invitation survives: 10
          MaxRequests, \* bound: requests begun
          None

\* A row of invitation.
Row == [to : Person, status : {"pending", "accepted", "revoked"}, failed : Nat]

ASSUME SettingsAssumption ==
  /\ Administrators \cup Watched \subseteq Person /\ Seeded \subseteq Entry
  /\ Position \subseteq Entry /\ DOMAIN NameOf = Entry
  /\ \A d, e \in Seeded : NameOf[d] = NameOf[e] => d = e
  /\ {HourlyCap, MaxFailed, MaxRequests} \subseteq Nat
  /\ None \notin Person \cup Entry \cup Invitation \cup Row \cup {"active", "live", "revoked"}
  /\ None \notin [to : Person, state : {"open", "used", "revoked"}]

VARIABLES firm,         \* tenant: None, "active" or "deactivated"
          invitations,  \* invitation: the row, or None
          recent,       \* the invitations issued within the hour
          identities,   \* identity: the people with an account, with their credential
          members,      \* membership: members[p] is None, "live" or "revoked"
          shelf,        \* the catalogs: shelf[e] is None, "active" or "retired"
          holds,        \* directory_entry: the position of each person, or None
          req,          \* the request of each actor
          dialog,       \* the dialog of each watched administrator
          sent          \* requests begun

People == <<firm, identities, members>>
Mail == <<invitations, recent>>
Catalogs == <<shelf, holds>>
vars == <<People, Mail, Catalogs, req, dialog, sent>>

Actor == Person \cup Visitor \cup {Platform}
Live == {p \in Person : members[p] = "live"}
Active == {e \in Entry : shelf[e] = "active"}
Assignable == (Active \cap Position) \cup {None}

\* The position the dialog shows of a member: a retired one is not in its list.
Shown(p) == IF holds[p] \in Assignable THEN holds[p] ELSE None

Idle == [phase |-> "idle"]
NoDialog == [stage |-> "closed", verifying |-> FALSE]

Unissued == {i \in Invitation : invitations[i] = None}
At(x, phase) == req[x].phase = phase
Goes(x, r) == req' = [req EXCEPT ![x] = r]
Answered(x) == Goes(x, Idle)

\* The entries of a new firm, which are its first; the others are created.
FirstShelf == [e \in Entry |-> IF e \in Seeded THEN "active" ELSE None]
EmptyShelf == [e \in Entry |-> None]

\* No firm yet, or one with administrators already; whoever is in another firm has an account
\* before being invited to this one.
Init ==
  /\ invitations = [i \in Invitation |-> None] /\ recent = {}
  /\ \E founders \in {{}, Administrators} :
       /\ firm = IF founders = {} THEN None ELSE "active"
       /\ shelf = IF founders = {} THEN EmptyShelf ELSE FirstShelf
       /\ identities \in {founders, Administrators}
       /\ members = [p \in Person |-> IF p \in founders THEN "live" ELSE None]
  /\ holds = [p \in Person |-> None]
  /\ req = [x \in Actor |-> Idle]
  /\ dialog = [m \in Watched |-> NoDialog]
  /\ sent = 0

\* A request of somebody who is not a member is refused, and left out.
Begins(x, r) ==
  /\ x \in Person => x \in Live
  /\ At(x, "idle") /\ Goes(x, r)
  /\ sent < MaxRequests /\ sent' = sent + 1

\* The request of a member passes when the member is one and the firm is active.
Passes(m) == m \in Live /\ firm = "active"

-----------------------------------------------------------------------------
\* The dialogs.  Confirm, then the code, then the request: what the act is, is chosen from
\* lists that may be old, and it is named where it is sent.

\* No dialog once the requests are spent (bound).
Awaited == sent < MaxRequests

Dialog(m, stage, verifying) ==
  dialog' = [dialog EXCEPT ![m] = [stage |-> stage, verifying |-> verifying]]

OpenDialog(m) ==
  /\ Awaited
  /\ m \in Watched /\ At(m, "idle") /\ dialog[m].stage = "closed"
  /\ Dialog(m, "confirm", dialog[m].verifying)
  /\ UNCHANGED <<People, Mail, Catalogs, req, sent>>

AskCode(m) ==
  /\ Awaited
  /\ m \in Watched /\ dialog[m].stage = "confirm" /\ At(m, "idle")
  /\ Dialog(m, "code", dialog[m].verifying)
  /\ UNCHANGED <<People, Mail, Catalogs, req, sent>>

\* The code goes to the server; the dialog stays, and can be left, while it is verified.
SubmitCode(m) ==
  /\ Awaited
  /\ m \in Watched /\ dialog[m] = [stage |-> "code", verifying |-> FALSE]
  /\ Dialog(m, "code", TRUE)
  /\ UNCHANGED <<People, Mail, Catalogs, req, sent>>

\* "Cancelar" goes back to the confirmation.
CancelCode(m) ==
  /\ m \in Watched /\ dialog[m].stage = "code"
  /\ Dialog(m, "confirm", dialog[m].verifying)
  /\ UNCHANGED <<People, Mail, Catalogs, req, sent>>

CloseDialog(m) ==
  /\ m \in Watched /\ dialog[m].stage = "confirm"
  /\ Dialog(m, "closed", dialog[m].verifying)
  /\ UNCHANGED <<People, Mail, Catalogs, req, sent>>

\* Each insertion that was asked for finds an invitation left (bound).
MayIssue ==
  Cardinality({x \in Actor : req[x].phase \in {"issue", "seed", "insert"}}) < Cardinality(Unissued)

Sends(m) ==
  \/ MayIssue /\ \E p \in Person : Begins(m, [phase |-> "issue", on |-> p])
  \/ \E p \in Person : members[p] # None /\ Begins(m, [phase |-> "deactivate", on |-> p])
  \/ \E i \in Invitation \ Unissued : Begins(m, [phase |-> "revoke", on |-> i])

Gated == {"issue", "deactivate", "revoke"}

\* Whatever the dialog shows by then, a verified code sends the act.
Verified(m) ==
  /\ m \in Watched /\ dialog[m].verifying /\ Sends(m)
  /\ Dialog(m, IF dialog[m].stage = "closed" THEN "closed" ELSE "confirm", FALSE)
  /\ UNCHANGED <<People, Mail, Catalogs>>

CodeRefused(m) ==
  /\ m \in Watched /\ dialog[m].verifying
  /\ Dialog(m, dialog[m].stage, FALSE)
  /\ UNCHANGED <<People, Mail, Catalogs, req, sent>>

\* The acts of an administrator who is not followed, and what asks for no code.
SubmitAct(m) == m \notin Watched /\ Sends(m) /\ UNCHANGED <<People, Mail, Catalogs, dialog>>

SubmitEntry(m) ==
  /\ \E e \in Entry : Begins(m, [phase |-> IF shelf[e] = None THEN "create" ELSE "retire", on |-> e])
  /\ UNCHANGED <<People, Mail, Catalogs, dialog>>

\* The dialog of a position offers the active ones and shows the member's own, if active;
\* "Guardar" sends what is shown, chosen or not.
SubmitPosition(m) ==
  /\ \E p \in Live, e \in Assignable :
       Begins(m, [phase |-> "assign", on |-> p, to |-> e, chosen |-> e # Shown(p)])
  /\ UNCHANGED <<People, Mail, Catalogs, dialog>>

\* The acceptance page: whoever has the link gives an e-mail and a password, within
\* the seven days of the invitation or after them.
SubmitAcceptance(v) ==
  /\ \E i \in Invitation \ Unissued, p \in Person, inTime \in BOOLEAN :
       /\ inTime \/ p = invitations[i].to
       /\ Begins(v, [phase |-> "accept", on |-> i, as |-> p, inTime |-> inTime])
  /\ UNCHANGED <<People, Mail, Catalogs, dialog>>

\* For a firm that looks empty.
SubmitSeed ==
  /\ firm = "active" /\ MayIssue /\ Live = {}
  /\ \E p \in Person : Begins(Platform, [phase |-> "seed", on |-> p])
  /\ UNCHANGED <<People, Mail, Catalogs, dialog>>

-----------------------------------------------------------------------------
\* Issuing and revoking.

Refuses(x) == Answered(x) /\ UNCHANGED <<People, Mail, Catalogs>>
Continues(x, r) == Goes(x, r) /\ UNCHANGED <<People, Mail, Catalogs>>
Fresh(p) == [to |-> p, status |-> "pending", failed |-> 0]

\* The rate is counted, without a lock, before the row is inserted.
IssueCount(m) ==
  /\ At(m, "issue")
  /\ IF Passes(m) /\ Cardinality(recent) < HourlyCap
     THEN Continues(m, [req[m] EXCEPT !.phase = "insert"])
     ELSE Refuses(m)
  /\ UNCHANGED <<dialog, sent>>

SeedCount ==
  /\ At(Platform, "seed")
  /\ IF firm = "active" /\ Live = {}
     THEN Continues(Platform, [req[Platform] EXCEPT !.phase = "insert"])
     ELSE Refuses(Platform)
  /\ UNCHANGED <<dialog, sent>>

Insert(x) ==
  /\ At(x, "insert")
  /\ \E i \in Unissued :
       invitations' = [invitations EXCEPT ![i] = Fresh(req[x].on)] /\ recent' = recent \cup {i}
  /\ Answered(x)
  /\ UNCHANGED <<People, Catalogs, dialog, sent>>

\* An acceptance holds its invitation from its first statement to its end.
Locked(i) == \E v \in Visitor : req[v].phase \in {"look", "identity", "member"} /\ req[v].on = i

\* Mutant: the revocation does not look at the status again.
RevocableIssued(row) == TRUE

Revocable(row) == row.status = "pending"

Revoke(m) ==
  /\ At(m, "revoke")
  /\ LET i == req[m].on
     IN  IF ~Passes(m) \/ invitations[i] = None THEN Refuses(m)
         ELSE /\ ~Locked(i)
              /\ IF Revocable(invitations[i])
                 THEN invitations' = [invitations EXCEPT ![i].status = "revoked"] /\ Answered(m)
                      /\ UNCHANGED <<People, recent, Catalogs>>
                 ELSE Refuses(m)
  /\ UNCHANGED <<dialog, sent>>

\* The deactivation of a member is in the module Membership: here it is one step.
Deactivate(m) ==
  /\ At(m, "deactivate")
  /\ LET p == req[m].on
     IN  IF Passes(m) /\ p \in Live /\ p # m
         THEN members' = [members EXCEPT ![p] = "revoked"] /\ Answered(m)
              /\ UNCHANGED <<firm, identities, Mail, Catalogs>>
         ELSE Refuses(m)
  /\ UNCHANGED <<dialog, sent>>

-----------------------------------------------------------------------------
\* accept_invitation().

\* A refusal is an outcome, not an error: it is committed, and counted.
Counted(v, i) ==
  /\ invitations' = [invitations EXCEPT ![i].failed = @ + 1]
  /\ Answered(v) /\ UNCHANGED <<People, recent, Catalogs>>

Acceptable(row, r) ==
  row.status = "pending" /\ r.inTime /\ row.failed < MaxFailed /\ row.to = r.as /\ firm = "active"

AcceptOpen(v) ==
  /\ At(v, "accept")
  /\ LET i == req[v].on
     IN  /\ ~Locked(i)
         /\ IF Acceptable(invitations[i], req[v])
            THEN Continues(v, [req[v] EXCEPT !.phase = "look"])
            ELSE Counted(v, i)
  /\ UNCHANGED <<dialog, sent>>

AcceptLook(v) ==
  /\ At(v, "look")
  /\ LET r == req[v]
     IN  IF r.as \notin identities THEN Continues(v, [r EXCEPT !.phase = "identity"])
         ELSE IF r.as \in Live THEN Counted(v, r.on)
         ELSE Continues(v, [r EXCEPT !.phase = "member"])
  /\ UNCHANGED <<dialog, sent>>

\* Mutant: the look-up locks the e-mail, and the insertion waits for every look-up.
WaitsForLooks(v) ==
  \A w \in Visitor \ {v} : req[w].phase \in {"identity", "member"} => req[w].as # req[v].as

Unrivalled(v) == \A w \in Visitor \ {v} : At(w, "member") => req[w].as # req[v].as

\* The unique index on the e-mail: another's row that is not committed yet is waited for,
\* and one that is makes the statement fail, and the transaction with it.
AcceptIdentity(v) ==
  /\ At(v, "identity")
  /\ LET r == req[v]
     IN  /\ Unrivalled(v)
         /\ IF r.as \in identities THEN Refuses(v) ELSE Continues(v, [r EXCEPT !.phase = "member"])
  /\ UNCHANGED <<dialog, sent>>

\* Mutant: the one membership of a person in a firm is not a constraint.
MayJoinAgain(p) == members[p] # "live" \/ TRUE

\* membership_identity_tenant_unique holds of revoked memberships too.
MayJoin(p) == members[p] = None

\* The membership and the end of the transaction, which commits all of it.
AcceptMember(v) ==
  /\ At(v, "member")
  /\ LET r == req[v]
     IN  IF MayJoin(r.as)
         THEN /\ identities' = identities \cup {r.as}
              /\ members' = [members EXCEPT ![r.as] = "live"]
              /\ invitations' = [invitations EXCEPT ![r.on].status = "accepted"]
              /\ Answered(v) /\ UNCHANGED <<firm, recent, Catalogs>>
         ELSE Refuses(v)
  /\ UNCHANGED <<dialog, sent>>

-----------------------------------------------------------------------------
\* The catalogs and the positions.

Taken(e) == \E d \in Active : NameOf[d] = NameOf[e]

\* The names are read and compared.
CreateRead(m) ==
  /\ At(m, "create")
  /\ LET e == req[m].on
     IN  IF Passes(m) /\ shelf[e] = None /\ ~Taken(e)
         THEN Continues(m, [req[m] EXCEPT !.phase = "createWrite"]) ELSE Refuses(m)
  /\ UNCHANGED <<dialog, sent>>

\* Mutant: no unique index.
InsertableAsRead(e) == TRUE

\* The unique index compares again: the catalog of categories answers that the name is
\* taken, the others fail.
Insertable(e) == ~Taken(e)

CreateWrite(m) ==
  /\ At(m, "createWrite")
  /\ LET e == req[m].on
     IN  IF Insertable(e) /\ shelf[e] = None
         THEN shelf' = [shelf EXCEPT ![e] = "active"] /\ Answered(m) /\ UNCHANGED <<People, Mail, holds>>
         ELSE Refuses(m)
  /\ UNCHANGED <<dialog, sent>>

\* Found and active, and retired if it is active still.
Retire(m) ==
  /\ At(m, "retire")
  /\ LET e == req[m].on
     IN  IF Passes(m) /\ shelf[e] = "active"
         THEN shelf' = [shelf EXCEPT ![e] = "retired"] /\ Answered(m) /\ UNCHANGED <<People, Mail, holds>>
         ELSE Refuses(m)
  /\ UNCHANGED <<dialog, sent>>

\* The member is live and the position active; then the entry is written.
AssignRead(m) ==
  /\ At(m, "assign")
  /\ LET r == req[m]
     IN  IF Passes(m) /\ r.on \in Live /\ r.to \in Assignable
         THEN Continues(m, [r EXCEPT !.phase = "assignWrite"]) ELSE Refuses(m)
  /\ UNCHANGED <<dialog, sent>>

AssignWrite(m) ==
  /\ At(m, "assignWrite")
  /\ holds' = [holds EXCEPT ![req[m].on] = req[m].to]
  /\ Answered(m)
  /\ UNCHANGED <<People, Mail, shelf, dialog, sent>>

-----------------------------------------------------------------------------
\* Time, and the operator.

HourPasses == recent # {} /\ recent' = {} /\ UNCHANGED <<People, invitations, Catalogs, req, dialog, sent>>

\* One transaction: the firm, its positions, its case catalogs and its categories.
ProvisionFirm ==
  /\ firm = None /\ firm' = "active" /\ shelf' = FirstShelf
  /\ UNCHANGED <<identities, members, Mail, holds, req, dialog, sent>>

DeactivateFirm ==
  /\ firm = "active" /\ firm' = "deactivated"
  /\ UNCHANGED <<identities, members, Mail, Catalogs, req, dialog, sent>>

Serves(x) ==
  \/ x \in Person /\ \/ IssueCount(x) \/ Revoke(x) \/ Deactivate(x)
                     \/ CreateRead(x) \/ CreateWrite(x) \/ Retire(x) \/ AssignRead(x) \/ AssignWrite(x)
  \/ x \in Visitor /\ (AcceptOpen(x) \/ AcceptLook(x) \/ AcceptIdentity(x) \/ AcceptMember(x))
  \/ x = Platform /\ SeedCount
  \/ x \notin Visitor /\ Insert(x)

Next ==
  \/ \E m \in Person :
       \/ OpenDialog(m) \/ AskCode(m) \/ SubmitCode(m) \/ CancelCode(m) \/ CloseDialog(m)
       \/ Verified(m) \/ CodeRefused(m) \/ SubmitAct(m) \/ SubmitEntry(m) \/ SubmitPosition(m)
  \/ \E v \in Visitor : SubmitAcceptance(v)
  \/ SubmitSeed
  \/ \E x \in Actor : Serves(x)
  \/ HourPasses \/ ProvisionFirm \/ DeactivateFirm

\* The database goes on with an acceptance whose statements it was sent.
Fairness == \A v \in Visitor : WF_vars(Serves(v))

Spec == Init /\ [][Next]_vars /\ Fairness

-----------------------------------------------------------------------------
Offers ==
  [i \in Invitation |->
     IF invitations[i] = None THEN None
     ELSE [to |-> invitations[i].to,
           state |-> CASE invitations[i].status = "pending" -> "open"
                       [] invitations[i].status = "accepted" -> "used"
                       [] invitations[i].status = "revoked" -> "revoked"]]

Promise == INSTANCE Onboarding WITH offered <- Offers, admitted <- Live

\* Every interleaving of acceptances, revocations and deactivations amounts to operations
\* of one step each: an invitation lets its person in once or not at all.  (0037.)
ImplementsOnboarding == Promise!Spec

\* A member has an account, an account of the firm was let in, and a catalog has no two
\* active entries of one name.  (0037, 0020, 0024, 0026.)
RecordsAgree ==
  /\ \A p \in Person : members[p] # None => p \in identities
  /\ \A p \in Person : holds[p] # None => members[p] # None
  /\ \A d, e \in Active : NameOf[d] = NameOf[e] => d = e

\* Every attempt is answered: no acceptance waits for another that waits for it, nor for a
\* revocation that does not come to its end.  (0037 FOR UPDATE and the unique indexes.)
AttemptsEnd == \A v \in Visitor : ~At(v, "idle") ~> At(v, "idle")

\* GatedConfirmDialog.tsx says that nothing is one click away: an act is sent from the
\* prompt for the code, not after it was cancelled.
CancelledIsNotSent ==
  [][\A m \in Watched : dialog[m].stage # "code" => ~At(m, "idle") \/ req'[m].phase \notin Gated]_vars

\* PositionCatalogTable.tsx says that a retired position can be given to nobody.
RetiredIsGivenToNobody ==
  [][\A p \in Person : holds'[p] # holds[p] /\ holds'[p] # None => shelf[holds'[p]] = "active"]_vars

\* PositionCatalogTable.tsx says that those who have a retired position keep it.
HoldersKeepIt ==
  [][\A m \in Person : At(m, "assignWrite") /\ ~At(m, "assignWrite")' /\ ~req[m].chosen
       => holds' = holds]_vars

\* specs/002 FR-035: seeding ends the moment the firm has a live membership.
SeedingEnds ==
  [][At(Platform, "insert") /\ ~At(Platform, "insert")' => Live = {}]_vars

\* specs/017 research: a person who was revoked and is invited again is let in.
ReinvitedGetIn ==
  [][\A v \in Visitor : At(v, "member") /\ ~At(v, "member")' => req[v].as \in Live']_vars
=============================================================================
