# A verification development for LegalConnect

LegalConnect is a multi-tenant practice-management service for law firms: a NestJS back end over
PostgreSQL, an object store for documents, and a Next.js front end. This directory holds TLA+
modules of the parts whose correctness depends on the order in which requests, statements, answers
and crashes happen; TLC configurations that check them on small instances; and proofs, checked by
TLAPS, of what matters most for instances of every size. Paths without a prefix are below the
repository's `backend/src/`, `drizzle/` is `backend/drizzle/`, and `web/` is `frontend/src/`.

## The system

All durable state is in PostgreSQL, at READ COMMITTED. A request of the tenant surface runs its
handler in one transaction (`common/tenant/middleware.ts`); the principal it acts as, and the plan
limits that come with it, were read in an earlier one. The authentication surface runs on another
role's connection, one transaction per service call, and keeps its rules in SQL functions. The front
end keeps a session cookie, a cookie with the chosen firm, and cached copies of what it has read.

What is hard is therefore always of the same kinds. Two statements of a transaction read different
snapshots. A SELECT without a lock is acted upon later. An UPDATE that waited sees a row as it has
become, but not the rows that were inserted meanwhile. A trigger or a foreign key takes locks nobody
wrote down. One request is two transactions. The process may die between any two steps. A dialog
sends what was true when it was opened. An answer is lost, or arrives after the screen has moved on.

| Part | State | Operations | Correct when |
|---|---|---|---|
| Refresh-token families (`drizzle/0034`, `0040`) | `session`, `refresh_token` | mint, rotate, reuse detection, sign-out, end all sessions | a reused family is dead for good; a family is one line of descent; every call answers |
| Second factor (`modules/auth`, `drizzle/0032`, `0033`, `0038`) | `identity_factor`, `backup_code`, `mfa_enrolled_at` | begin, confirm, sign-in, complete, recover, prepare | confirmed, enrolled and codes agree; a challenge buys one session, a code one recovery |
| Attempt guard (`claim_attempt()`, `common/auth/totp.ts`) | counter, lockout, recent codes | claim | guesses are bounded per time, lockouts run their time, codes are not replayed |
| Membership (`modules/membership`, `drizzle/0013`, `0019`) and case teams | `membership`, `case_assignment` | revoke, change archetype, assign, unassign | an administrator remains; revocation is final |
| Session guard, expiry, step-up, pool (`common/authz`, `drizzle/0041`) | `session.last_seen_at`, `step_up_elevation`, the pool's connections | resolve, touch, expire, verify, consume | nobody is served unentitled or too late; an elevation serves once; the pool does not wedge |
| Permission matrix (`common/authz`, `web/authz`) | none | decide | what the front end draws is what the API admits |
| Documents, plans, audit (`modules/documents`, `modules/plan`, `common/audit`) | `document`, the storage counter, the object store, `audit_event` | upload, withdraw, restore, change category; change plan, configure limits | counter, rows, objects, trail and lists agree |
| Invitations, directory, catalogs, provisioning (`modules/invitation`, `modules/tenant`, `drizzle/0037`) | `invitation`, `identity`, `membership`, catalogs, `directory_entry` | issue, revoke, accept; create, retire, assign; provision, seed, deactivate | an invitation lets its person in once or not at all; every acceptance ends |
| Matters and KPIs (`modules/case-core`, `modules/kpi`) | `case_file`, `case_status` | create, move, declare; retire, redefine; read | dates and outcomes follow the status; the figures agree |
| Clients (`modules/case-core/client.*`) | `client` | register, edit, withdraw, restore, read in pages | pages miss nobody; a withdrawn client is not edited |
| Time entries (`modules/time-entries`) | `time_entry` | start, stop, discard, log, correct, void | one timer per member; final entries stay; tabs catch up |
| Calendar (`modules/calendar`) | `calendar_event` | create, edit, cancel, remind | overlapping edits stay valid; reminders arrive; the grid shows its range |
| Browser shell (`web/proxy.ts`, `web/shell`, `web/app/(auth)`) | cookies, pages, cached data | sign in, enroll, recover, switch firm, sign out | redirects end; no late answer of the firm that was left in a list it was left from |

How they interact. A revocation closes assignments in its own transaction. A recovery ends the
sessions of the session families. The attempt guard is asked by the challenge and by recovery.
Uploads take the plan's limit from the principal. Every mutation appends to the audit log in its own
transaction. An acceptance makes a membership. What a member reaches of matters, hours and events is
decided by the team of the matter, which changes at any time. The browser's requests pass the session
guard with the firm in the cookie. `PROJECT.json` lists every component with its status, every hazard
with its line, and the properties that would catch it.

## The modules

| Module | Models |
|---|---|
| `TokenLineage` | abstract: what a token family promises, every call atomic |
| `SessionFamily`, `SessionFamily_proofs` | the calls on families, statement by statement with row locks and aborts |
| `Roster` | abstract: who is a member, and on which team |
| `Membership`, `Membership_proofs` | revoke, change of archetype and assign, with the UPDATE's and the trigger's locks |
| `Factor`, `Factor_proofs` | enrollment, challenge and recovery of one identity |
| `AttemptGuard`; proofs in `Factor_proofs` | lockout and replay guard over time |
| `Requests`, `Requests_proofs` | a request from its token to its handler, and the connection pool; on top of `TokenLineage` |
| `Authorization` | the matrix, the decision, and the front end's copy of the matrix and its navigation, as operators |
| `Documents`, `Documents_proofs` | uploads and changes, limits, categories, the object store, the trail, the screens' lists |
| `Onboarding` | abstract: invitations that let their person in once, each operation atomic |
| `Settings`, `Settings_proofs` | invitations, acceptance, members, catalogs, positions and provisioning, statement by statement, with the dialogs |
| `CaseFiles`, `CaseFiles_proofs` | matters and statuses with the panel and its dialogs; the KPIs as functions of them |
| `Clients`; proofs in `CaseFiles_proofs` | the directory read by cursor while clients change |
| `CachedView` | abstract: what a screen with cached copies promises |
| `TimeEntries`, `TimeEntries_proofs` | the timer and the entries, from a tab with its copies and from other devices |
| `Calendar`; proofs in `TimeEntries_proofs` | events, the month grid and the reminders panel |
| `Browser`; proofs in `Membership_proofs` | tabs, cookies and screens of one person; on top of `Authorization` |
| `MC...` | one per module with a run, for TLC |

Conventions. An action is one statement that waits or takes a snapshot, or the rest of a transaction
up to its commit; what a transaction wrote becomes visible in the action that commits it. A request is
a record with its `phase`; a request that writes after a look is two actions, with every other
request's actions between them. `Abort` and the actions named `...Fails` and `Lose` stand for lost
connections, dead processes and lost answers. Variables marked *history* are read by properties only.
Definitions marked *Mutant* are faults the code does not have; they show that a property would notice
them. Definitions at the end of a module that no configuration checks are sentences of the
repository that the code does not keep (see *Findings*).

**`SessionFamily`.** A row is a `refresh_token` with the `session` inserted beside it. The scan of
sign-out's UPDATE is separate from its wait, because the set of rows is fixed when it begins: that is
how sign-out can miss a child.

**`Membership`.** The unlocked look, the UPDATE obtaining its row, the trigger scanning and locking
the siblings with the updated row already locked, and PostgreSQL's deadlock detector, which this code
depends on.

**`Factor`**, **`AttemptGuard`.** One identity. Each unlocked SELECT is an action, and so is what
follows the factor row's lock; recovery is two transactions with a possible crash between them. In
`AttemptGuard` time is counted in 30-second steps and a call knows two instants, its transaction's
`now()` and the moment its code is verified.

**`Requests`.** One action per stage in the order of guard and interceptors, with an action for each
refusal; `spare` is what the pool has left. A request keeps a connection from `Open` to `Answer`. What
a later stage cannot read any more is dropped. The clocks of the application and of the database are
taken to agree.

**`Documents`.** `Resolve`, `Reserve` (leaves the tenant row locked), the put and its failures,
`CommitUpload`; for a change `Look`, `Update` (takes the document's row), `Append` and `CommitChange`.
The order of the trail is that of its time stamps, taken at `Append`. A screen fetches its
lists, and an answer invalidates those its dialog names; the copy of one of the three is followed.
`Showing` says which lists show a change and `Overlooks` which of them no dialog names: the firm-wide
list after everything but an upload begun from it, and the list of withdrawn documents after a change
of category. `copy` tells whether what it lacks was heard of, or was heard of and overlooked so.

**`Settings`.** `accept_invitation()` is four actions: FOR UPDATE on the invitation, the identity's
lookup, the identity's INSERT, which waits for a rival on the unique index, and the membership's
INSERT. The identities are a set: that the index keeps a second one of an email out is PostgreSQL's to
see to, and the module has the wait for it. Catalog entries are created after a look for the active
name, and the partial unique index has the last word. A dialog asks for the second factor before its act is sent.

**`CaseFiles`.** `CreateInsert`, `MoveRead`/`MoveStatus`/`MoveWrite` and `DeclareRead`/`DeclareWrite`
are the statements of `case.service.ts`; the case statuses are retired and redefined between them.
`Dashboard` puts tiles, bars and trend together from the definitions of `kpi.repository.ts`, with the
calendar counted in months. Which KPI queries run is a function of the state, so nothing of it is an
action.

**`Clients`.** A client is named by the order of `created_at`, the instant its transaction began, so
that a client with an earlier one may appear after a page was read. Pages are read one by one with the
cursor that the one before returned.

**`TimeEntries`.** `Begin` takes the transaction's clock and asks the scope resolver, `Commit` is the
statements under their row lock, `Hear` the answer. Each copy of a tab (timer and one range of days) is
read at a version. A tab turns to another range, to another page and back (`Turn`); a copy is fetched
when it comes to the screen, and what no screen shows is dropped (`Forget`). `Invalidate` does what the
query library does: it drops and repeats the fetch of a copy that is on the screen and has data, joins
a first fetch, which has none, and leaves alone the fetch of a copy off the screen. `missed` (history)
are the copies whose fetch so went on and had read before the write.

**`Calendar`.** `UpdateRead` and `UpdateWrite` are the two halves of `update`, which merges a patch and
writes every field back; `CancelRead` and `CancelWrite` those of `cancel`. `Poll` is what one refetch of
the reminders panel shows: of the events that are due, the page of `PageSize` (50 in the code) that
start first.

**`Browser`.** `Request` is what proxy, page and layout do with a navigation; the session and chosen
firm are in cookies that tabs share, the shell a tab has mounted is its own. `cache` is what a tab has
of one list, and the firm that a fetch of it under way was sent for; it outlives the links of the
navigation (`Follow`), as the QueryClient is in the root layout and no key names the firm, and is lost
with the document (`Forgotten`) or after a while off the screen (`Forget`). `Ask` and `Answer` are the
fetch of the list, which the screen begins and joins and which is taken wherever the tab has got to;
`Switch` begins it again only if the list is on the screen and has data or no fetch.

## The runs

| Run | Bounds | Shows |
|---|---|---|
| `session_family` | 4 rows, 2 transactions | reuse kills a family; refinement of `TokenLineage`; every call answers |
| `membership` | 3 members, 2 archetypes, 1 matter, 2 requests | an administrator remains; refinement of `Roster`; every request answers |
| `factor` | 3 calls, 2 secrets, 2 challenges, 2 code sets of 2 | confirmed factors have codes; one session per challenge; a code per recovery |
| `attempt_guard` | 2 calls, threshold 2, lockout of 3 of 5 steps, a code and a backup code | guess rate, replay, length of a lockout |
| `requests` | 2 requests, 2 sessions, 1 elevation, 3 capabilities, 2 classes, 3 connections, time to 3 | single use, entitlement, absolute limit, no wedged pool |
| `documents` | 2 members, one of them with a screen, 2 documents, limit 1 or none, 2 categories, 2 entries | counter, objects, limit, trail, lists |
| `settings` | 2 people, both administrators, 2 visitors, 2 invitations, 2 entries of one name, 4 requests | records agree; refinement of `Onboarding`; every acceptance ends |
| `case_files` | 2 members, one with a panel, 1 matter, 2 statuses, 2 outcomes, December to January, openings today or three months ago | dates tell statuses; ends are kept; KPIs agree |
| `clients` | 2 members, one with a screen, 2 names, 3 filters, 4 clients, pages of 1, 3 changes, at most 5 of both | pages miss nothing; withdrawn clients are not edited |
| `time_entries` | a tab and another device, 1 matter, a window of 1, days of 2, 3 instants, 2 changes, 1 fetch under way | one timer; final entries stay; refinement of `CachedView` |
| `calendar` | 2 members, 2 events of 3 shapes, a page of 1 reminder, 1 matter, 3 instants, 2 months | valid events; final cancellations; the grid; reminders |
| `browser` | 2 tabs, one of them with a list, 2 firms, 2 roles, 2 sessions, 2 turns | one firm entered; redirects end; no late answers; what is drawn is admitted |

Why these bounds reach the interesting cases. Four rows are a family with a grandchild, so that a
rotation is in flight while its parent is reused, or two families. Three members are two
administrators updating each other and one more for the trigger's set to have a choice. Three calls
are a recovery, a sign-in and an enrollment at once. Five steps are a code's window, the guard's
window after it, and a lockout with a step on each side. Three connections are one more than the
requests, the case in which the pool must not wedge. Two documents of size 1 under a limit of 1 fit
alone and not together. Two invitations are two for one person or one each; an hourly cap and a limit of failed
attempts of 1 are reached at once; two entries share a name. Status, date and outcome of one matter
are written by two members, whose requests are two or three statements. Pages of one client make every
change fall before, on or after a cursor; three clients allow one on each side, and a fourth one that
appears after both are read. A window and a duration of one instant and a day of two, with three
instants, put a write on either side of each boundary. Three
shapes of event are a timed one with a reminder, an open one and one of two days; two events compete for
the one place of a page of reminders, as the 51st does for the fiftieth; two months have a border
between them. Two sessions are one that ended and the next; two turns a switch and a change of
the memberships, or two switches.

Bounds that leave something out, each named in its module: `Explored` (`MCRequests`) keeps one request
with all rotations and instants, or two requests of one session over two instants, and leaves the
product out; a request sees the others only through elevations and the pool. `Either` (`MCDocuments`)
keeps several members' requests without a screen, or one member's with the screen; that of `MCCalendar`
edits of one event, or two events created and cancelled while both panels poll; that of
`MCTimeEntries` the tab at its range with copies of both lists and everything else happening, or the
tab without copies at first that turns between screens while no time passes and no other device sends;
that of `MCBrowser` no tab that comes to the list, or one, with one session and no enrollment.
`OneFlight` (`MCTimeEntries`) has one fetch under way at a time; those of different copies have nothing
in common. `Bounded` (`MCClients`)
keeps three clients with two changes, two with three, or four with one. `Watched` and `Reader`
restrict whose screens are followed (the others send whatever the API accepts). `MaxChanges`,
`MaxRequests`, `MaxTurns`, `MaxEntries`, `MaxRedefined` count what is begun. `Remembered` is what an
earlier visit may have left in the browser, `Entered` the months of opening that the form of a matter,
which takes any date, is given besides today's (eight, three months before the run's first). `InOrder` takes interchangeable rows and documents in
order, which is sound for liveness too, as an insertion possible in any order is possible in this one;
`SYMMETRY` is used only where a run has no liveness. `CHECK_DEADLOCK` is off where the numbers of
things begun are bounded and all may have been used.

### Fairness

Nobody has to call, press or fail; fairness is about what was begun.

- `SessionFamily`, `Membership`: a running transaction is scheduled (weak fairness of its statements)
  and obtains a lock that comes free again and again (strong fairness: PostgreSQL queues the waiters
  of a row); the deadlock detector runs.
- `Requests`: a stage that can go on does; the pool serves its waiters in order (strong fairness of
  the stages that need a connection).
- `Settings`: the database goes on with an acceptance whose statements it was sent (weak fairness of
  its next statement). That suffices for `AttemptsEnd` because no chain of waits is circular.
- `TimeEntries`: a stale copy is fetched and a fetch ends, well or badly (the query library does the
  one, HTTP the other). The refinement's `CaughtUp` rests on it.
- `Calendar`: the reminders panel polls (`refetchInterval`). A reminder whose window is over before
  the next poll, or that a page of earlier ones keeps out, is not promised; `RemindersArrive` says what
  is.
- `Browser`: a browser follows redirects; nothing else.

### Refinements

`ImplementsLineage`, `ImplementsRoster`, `ImplementsOnboarding` and `ImplementsCachedView` say that the
detailed modules implement `TokenLineage`, `Roster`, `Onboarding` and `CachedView`. The mappings are
small because the abstract state is what a commit makes visible: in `Settings` an invitation is open,
used or revoked by its `status`, and the admitted are the live members; in `TimeEntries` the version
counts the committed changes, `seen` is the version a copy was read at, and a write is owed to the
copies that are asked for it, which are those that have no older fetch under way which goes on. Locks, looks, requests and
dialogs map to nothing, and their steps stutter. `Requests` uses `TokenLineage` in place of
`SessionFamily`, which is what that refinement is for.

## What is proved

TLAPS checks the following for all values of the constants under each module's named assumption
(`NoRowAssumption`, `NoClientAssumption`, `RosterAssumption`, `BoundsAssumption`, `GuardAssumption`,
`RequestsAssumption`, `DocumentsAssumption`, `CaseAssumption`, `ClientAssumption`, `TimeAssumption`,
`CalendarAssumption`, `SettingsAssumption`, `BrowserAssumption`): sets of any size, "none" values that
are no members of them, bounds that are numbers. Every invariant and every action property that a run
checks is the statement of a theorem. None of them is inductive as it stands; what makes them so is in
the definition `IInv` of the proof module, or in those named below.

- `SessionFamily_proofs`: types, linear lineages, `ReuseDetectionKills`, `DeadFamiliesStayDead`,
  `NobodyWaitsForEver`, and `Implementation` (of `TokenLineage`). The invariant says what each waiting statement knows: the rows a rotation has locked
  and read again are all its family had to offer, and locked rows stay until the commit.
  `NobodyWaitsForEver` is the safety half of `EveryCallAnswers`: only a rotation that detected reuse
  waits with locks in its hands, and those it waits for do not wait (`Holders`). It speaks of waits
  between statements; the rows of one statement are taken at once in the model.
- `Membership_proofs`: types, `LastAdministrator`, `RevocationIsOneWay`, `Implementation` (of
  `Roster`). A request past the trigger that takes an administrator's row away holds another
  administrator's row, which nobody else can then take away. Of `Browser`: `TheOnlyFirmIsEntered`,
  `ControlsDrawnAreAdmitted` and `NoLateAnswers`. A page is drawn for one of the
  archetypes, and the two matrices agree for each of them; a tab that switched with its list on the screen waits for no firm but the one it switched to, unless
  the list has nothing yet that an answer could replace (`AsksInv`).
- `Factor_proofs`: types, `EnrolledIdentityHasCodes`, `ChallengeBuysOneSession`,
  `RecoveryCostsACode`. A pending challenge has bought nothing; a spent code that still has a row is
  marked consumed. Of `AttemptGuard`: types, `GuessesAreFew`, `CodesServeOnce`,
  `LockoutsRunTheirTime`. From the threshold on a guess waits for the lockout of the one before, so a
  stretch as long as a lockout holds one of those at most and all the earlier ones (`Spaced`); the uses
  of a code are remembered for as long as the code can be valid (`UsesInv`).
- `Requests_proofs`: types, `OneRequestPerElevation`, `ServedEntitled`, `AbsoluteLimit`,
  `ClockFresh`, `PoolSuffices`. A session and every copy taken of it carry the sign-in of their family;
  an unconsumed elevation let nobody through; the connections are those left and those kept.
- `Documents_proofs`: `RowsHaveObjects`, `CounterWithinLimits`, `TrailInOrder`. Whoever has reserved
  holds the tenant row, so that what was compared with the limit is what is added; whoever has
  stamped an entry holds the document's row, so that no younger stamp overtakes it.
  `CounterCountsTheBytes`: the sum is a cardinality, that of the set of bytes of the stored documents,
  to which a commit adds as many as to the counter. `ListsAtRestOweNothing`: a list that lacks a change
  its screen has heard of, and whose dialog names that list, is being fetched, and a fetch in flight
  that the list did not join brings all that was heard so (`ScreenInv`). It leaves out the changes that
  `Overlooks` names; of those the code keeps no promise (see *Findings*).
- `CaseFiles_proofs`: types, `DatesTellStatuses`, `EndsAreKept`, `TheFiguresAgree`. A status read
  earlier still closes what it closed, unless it was redefined; a request past its look is about a
  matter there is. The figures count the same matters because their conditions partition them. Of
  `Clients`: types, `PagesLeaveOutNothing`, `PagesComeFull`, `WithdrawnKeepTheirName`. The pages are
  consecutive, each strictly older than the one before, and whatever has matched since before the first
  was read and is not listed is older than the last cursor (`Reads`); that a page has a first and a
  last client at all is the well-foundedness of finite sets of numbers.
- `TimeEntries_proofs`: types, `OneTimer`, `FinalEntriesStay`, and `Implementation`, the safety half of
  `ImplementsCachedView`. Hearing of a change drops the older fetches or owes nothing to a copy whose
  older fetch goes on, so that a copy on its way is as new as all it is owed; a change not heard of yet
  is younger than that. The types include that a
  recorded entry is not empty, not longer than a day and not about a day to come: a stop looks at the
  elapsed time under the row's lock, and a transaction's clock is not ahead of the others' (`SoundInv`).
  Of `Calendar`: types, `NoConstraintFires`, `CancellationIsFinal`, `AttachedWithinReach`,
  `TheGridShowsItsRange`. What is stored is valid, and what an edit past its look is about to write
  was validated with what it read, which it writes back whole (`CalendarInv`); both readings of an
  instant agree on which side of midnight it is.
- `Settings_proofs`: `RecordsAgreeAlways`, `AcceptancesHoldAlways` and `Implementation` (of
  `Onboarding`). An acceptance past its first statement holds its invitation, so what it found pending
  is pending when it commits; the other requests' looks are outlived by the unique indexes.

Two properties had been true only within their run's bounds, and the attempts to prove them showed it.
The history of `PagesMissNothing` had what the pages shown owe and what the pages being fetched will
owe in one set, which a "more" that cancels a refetch confuses; it takes a fourth client.
`NoLateAnswerOfTheFirmLeft` left out that the shell corrects a remembered firm by itself, and that the
picker writes one too, which takes a third turn. The modules now have both, and the properties say what
the code then does.

Only model-checked: liveness, which is beyond this prover (`EveryCallAnswers`, `EveryRequestAnswers`,
`AttemptsEnd`, `RemindersArrive`, `NavigationEnds`, and `CaughtUp`, the fairness half of
`ImplementsCachedView`). The types of `Documents`, `Settings` and `Browser` are proved as a part of their
invariants (`TypeInv`, `ShellInv`).

## Findings

`PROJECT.json` has each with its line and the quoted text. They are sentences of the repository that
the code does not keep. Where a name is given, the sentence is a definition of the module: adding it to
the module's `MC` configuration (as INVARIANT, or as PROPERTY if it is temporal) has TLC print the
steps that contradict it; no run is kept for them.

| Module | Definition | In short |
|---|---|---|
| `SessionFamily` | `SignOutKillsFamily` | sign-out may leave a refresh token of the family good |
| `SessionFamily` | `EndedSessionHasNoLiveHeir` | recovery ends sessions, not the tokens that renew them |
| `Membership` | `RevokedHoldsNoAssignment` | an assignment racing a revocation leaves a revoked member on a team |
| `Membership` | `NoCircularWait` | the last-administrator trigger deadlocks rather than queues |
| `Factor` | `EnrolledIffConfirmed` | beginning an enrollment separates `confirmed_at` from `mfa_enrolled_at` |
| `Factor` | `UnconfirmedSatisfiesNothing` | a challenge issued between a recovery's transactions survives it |
| `AttemptGuard` | `CodeAcceptedOnce` | the replay guard's clock and the code's differ |
| `Requests` | `PoolNeverWedges`, with as many requests as connections | requests that wait for a second connection stand still |
| `Requests` | `ClockReadIsFresh` (proved) | the idle limit never fires |
| `CaseFiles` | `ClosedTheSameDay` | the closing date is UTC's, not the firm's |
| `CaseFiles` | `CountedOnce` | a redefined status makes a matter both active and resolved |
| `CaseFiles` | `EveryOpenIsAudited` | a panel opened on a kept copy leaves no entry |
| `CaseFiles` | `NoMoveIsNoOp` | two moves to one status, of which the second changes nothing |
| `Clients` | `TrailTellsChanges` | the previous value in the trail is one the client did not have |
| `Clients` | `NoNewMatterOfWithdrawn` | a matter is opened for a client withdrawn meanwhile |
| `Clients` | `SavesAreShown` | a first fetch in flight is not asked again after a save |
| `Documents` | `FirmListFollows` | the firm-wide list is not fetched again after changes made from a matter |
| `TimeEntries` | `EndsWhatIsShown` | a stop ends whichever timer is running when it arrives |
| `TimeEntries` | `WritesAreShown` | a first fetch, or one of a list off the screen, shows an answer older than the write |
| `Calendar` | `ChangesWhatItNames` | an edit undoes a concurrent one, and the trail does not say so |
| `Calendar` | `PanelShowsWhatIsDue` | the fifty-first reminder waits for the others to go |
| `Settings` | `CancelledIsNotSent` | a code under verification sends the act after it was cancelled |
| `Settings` | `RetiredIsGivenToNobody`, `HoldersKeepIt` | retired positions are given, and taken away by an unchanged save |
| `Settings` | `SeedingEnds`, `ReinvitedGetIn` | a late seeding invitation; a revoked member cannot come back |
| `Browser` | `NothingOfTheFirmLeft`, `WhatReplacesIsOfTheChoice`, `HeaderNamesTheFirmAsked` | answers and header of another firm after a switch |
| `Browser` | `OnlyTheDeadAreExpired`, `DeadSessionLeaves` | a failure of the API ends a living session; a dead one stays on screen |
| `Browser` | `EnrolledHasSeenCodes` | a lost answer loses the recovery codes |

Seen while reading, without a definition: `rollbackReservation` runs in the transaction it claims to
undo; the limits compare the clocks of two machines; step-up looks at neither limit of its session; a
negative elapsed time is clamped for the minutes and refused by the table; a category's previous value
in the trail may be one the document did not have; no code of the front end renews a session.

## Not modelled

- Row-level security and the tenant boundary: each module speaks of one firm, one identity or one
  browser, and takes from the policies that no statement reaches another's rows.
- Cryptography and formats: tokens, codes and references are names; argon2, TOTP and AES are choices
  between right and wrong.
- What changes no state: paged lists other than the directory's, the preview and download of
  documents, entitlements. `web/components/ui` is vendored; wording and layout are left out.
- The origin throttle: in the memory of one process, and best effort by its own comment.
- Migrations as such, seeds, demo data, scripts and CI: run once by one operator. The tables,
  constraints, triggers and functions the migrations define are in the modules above.
- Partitions and retention of the audit log: DDL by an operator.

## Plan

The modules planned first are all written. What would add most from here:

1. A composition of `SessionFamily` with `Factor`'s recovery (today each has its own half of it), and of
   `AttemptGuard` with the codes of step-up, which it does not count.
2. The safety half of `EveryRequestAnswers` as an invariant: that every circle of waits of `Membership`
   is one the deadlock detector breaks.
3. An abstract elevation, good for one request, implemented by `Requests`.
4. `CachedView` of all the lists of `Documents` at once, which follows one copy at a time.
