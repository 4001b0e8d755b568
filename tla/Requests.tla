-------------------------------- MODULE Requests --------------------------------
(***************************************************************************)
(* The way of a request from its bearer token to its handler: the session  *)
(* guard, the resolution of the principal, the transaction of the request, *)
(* the idle and absolute limits, the decision and the step-up elevation.   *)
(*                                                                         *)
(* Each stage awaits the database, so the stages of several requests mix   *)
(* with each other, with rotations and sign-outs, with changes of the      *)
(* membership and with time.  All stages draw on one pool of connections:  *)
(* a short one borrows a connection and gives it back in the same action,  *)
(* the transaction of a tenant request keeps one until the answer.         *)
(*                                                                         *)
(* The sessions are those of one identity, with their families as          *)
(* TokenLineage describes them; the membership is that identity's in the   *)
(* one firm the requests name.  The clocks of the application and of the   *)
(* database are taken to agree.                                            *)
(***************************************************************************)
EXTENDS TokenLineage, Integers, FiniteSets

CONSTANTS Request,             \* requests in flight
          PoolSize,            \* connections of appDb()'s pool
          Class,               \* role classes
          IdentityClass,       \* the class of a request without a tenant
          NoClass,             \* the membership is revoked; nothing resolved yet
          Idle, Absolute,      \* SESSION_LIMITS, per class
          AccessTTL,           \* ACCESS_TTL_MINUTES
          Capability,          \* capabilities of the routes
          NoCapability,        \* of a request that is not under way
          IdentityCapability,  \* those of the identity surface
          Gated,               \* those with stepUp: true
          Matrix,              \* who may do what: pairs of class and capability
          Elevation,           \* identities of step_up_elevation rows
          NoElevation,         \* no x-step-up-token header
          ElevationTTL,        \* ELEVATION_TTL_MINUTES
          MaxTime              \* bound: the last instant

ASSUME RequestsAssumption ==
  /\ IsFiniteSet(Request) /\ PoolSize \in Nat /\ MaxTime \in Nat
  /\ NoClass \notin Class /\ IdentityClass \in Class
  /\ Idle \in [Class -> Nat] /\ Absolute \in [Class -> Nat]
  /\ AccessTTL \in Nat \ {0} /\ ElevationTTL \in Nat
  /\ NoCapability \notin Capability
  /\ IdentityCapability \subseteq Capability
  /\ Gated \subseteq Capability \ IdentityCapability
  /\ Matrix \subseteq Class \X Capability
  /\ NoElevation \notin Elevation

VARIABLES now,       \* the time
          minted,    \* minted[r]: when session r was inserted
          lastSeen,  \* session.last_seen_at
          origin,    \* session.family_created_at
          member,    \* class of the membership's archetype, NoClass: revoked
          enrolled,  \* identity.mfa_enrolled_at IS NOT NULL
          active,    \* tenant.status = 'active'
          elevated,  \* step_up_elevation rows
          grant,     \* grant[e]: the capability e was verified for
          lapse,     \* step_up_elevation.expires_at
          consumed,  \* step_up_elevation.consumed_at IS NOT NULL
          spare,     \* connections of the pool nobody holds
          phase,     \* phase[q]: the stage request q is in
          ask,       \* ask[q]: session, capability and elevation q presents
          copy,      \* copy[q]: the clocks SessionGuard read, and mfa_enrolled_at with find
          class,     \* class[q]: the class of the principal q acts as
          held,      \* history: what member was from q's arrival until q found it
          live,      \* history: q's session was good when q arrived
          bought     \* history: bought[e]: requests that e let through

clockVars == <<now, minted, lastSeen, origin>>
firmVars == <<member, enrolled, active>>
stepUpVars == <<elevated, grant, lapse, consumed>>
callVars  == <<spare, phase, ask, copy, class>>
pastVars  == <<held, live, bought>>
vars == <<lineageVars, clockVars, firmVars, stepUpVars, callVars, pastVars>>

\* The stages whose request has a transaction of its own open.
InTransaction == {"limits", "touch", "decide", "consume", "handle"}
Phase == {"idle", "guard", "member", "tenant", "report", "open"} \cup InTransaction

NoAsk  == [session |-> NoRow, capability |-> NoCapability, elevation |-> NoElevation]
NoCopy == [seen |-> 0, origin |-> 0, mfa |-> FALSE]
Ask    == [session: Row \cup {NoRow}, capability: Capability \cup {NoCapability},
           elevation: Elevation \cup {NoElevation}]

TypeOK ==
  /\ LineageType
  /\ now \in Nat
  /\ minted \in [Row -> Nat] /\ lastSeen \in [Row -> Nat] /\ origin \in [Row -> Nat]
  /\ member \in Class \cup {NoClass} /\ enrolled \in BOOLEAN /\ active \in BOOLEAN
  /\ elevated \subseteq Elevation /\ consumed \subseteq elevated
  /\ grant \in [Elevation -> Capability \cup {NoCapability}]
  /\ lapse \in [Elevation -> Nat]
  /\ spare \in 0..PoolSize
  /\ phase \in [Request -> Phase] /\ ask \in [Request -> Ask]
  /\ copy \in [Request -> [seen: Nat, origin: Nat, mfa: BOOLEAN]]
  /\ class \in [Request -> Class \cup {NoClass}]
  /\ held \in [Request -> SUBSET (Class \cup {NoClass})]
  /\ live \in [Request -> BOOLEAN]
  /\ bought \in [Elevation -> Nat]

Init ==
  /\ LineageInit
  /\ now = 0
  /\ minted = [r \in Row |-> 0] /\ lastSeen = [r \in Row |-> 0]
  /\ origin = [r \in Row |-> 0]
  /\ member \in Class /\ enrolled = FALSE /\ active = TRUE
  /\ elevated = {} /\ consumed = {}
  /\ grant = [e \in Elevation |-> NoCapability] /\ lapse = [e \in Elevation |-> 0]
  /\ spare = PoolSize
  /\ phase = [q \in Request |-> "idle"] /\ ask = [q \in Request |-> NoAsk]
  /\ copy = [q \in Request |-> NoCopy] /\ class = [q \in Request |-> NoClass]
  /\ held = [q \in Request |-> {}] /\ live = [q \in Request |-> FALSE]
  /\ bought = [e \in Elevation |-> 0]

-----------------------------------------------------------------------------
(* Sessions come, are renewed and end on the authentication surface, whose   *)
(* connections are of another pool.                                          *)

\* resolve_session(): a row that is not revoked and has not expired.
Resolves(r) == r \in issued \ ended /\ now < minted[r] + AccessTTL

\* The columns of a new session row.
Stamp(r, seen, since) ==
  /\ minted' = [minted EXCEPT ![r] = now]
  /\ lastSeen' = [lastSeen EXCEPT ![r] = seen]
  /\ origin' = [origin EXCEPT ![r] = since]

\* A completed challenge, of an enrolled identity, or a confirmed enrollment.
SignIn(r) ==
  /\ Mint(r)
  /\ Stamp(r, now, now)
  /\ enrolled' = TRUE
  /\ UNCHANGED <<now, member, active, stepUpVars, callVars, pastVars>>

\* Mutant: the absolute clock starts again at every rotation.
RenewResettingOrigin(p, r) ==
  /\ Rotate(p, r)
  /\ Stamp(r, now, now)
  /\ UNCHANGED <<now, firmVars, stepUpVars, callVars, pastVars>>

\* Mutant: the idle clock is copied forward as well.
RenewCopyingLastSeen(p, r) ==
  /\ Rotate(p, r)
  /\ Stamp(r, lastSeen[p], origin[p])
  /\ UNCHANGED <<now, firmVars, stepUpVars, callVars, pastVars>>

\* rotate_refresh() copies family_created_at; last_seen_at is the default, now().
Renew(p, r) ==
  /\ Rotate(p, r)
  /\ Stamp(r, now, origin[p])
  /\ UNCHANGED <<now, firmVars, stepUpVars, callVars, pastVars>>

\* Reuse detection and sign-out.
EndFamily ==
  /\ \E p \in Row : Kill(p) \/ Cut(p)
  /\ UNCHANGED <<clockVars, firmVars, stepUpVars, callVars, pastVars>>

\* prepareReenrollment: every session ends and the identity must enroll again.
Recover ==
  /\ EndAll
  /\ enrolled' = FALSE
  /\ UNCHANGED <<clockVars, member, active, stepUpVars, callVars, pastVars>>

(* StepUpService.verify, with a code that is right; a wrong one changes      *)
(* nothing here.  It asks of the session what resolve_session() asks.        *)
StepUp(r, e, k) ==
  /\ Resolves(r)
  /\ e \in Elevation \ elevated /\ k \in Gated
  /\ elevated' = elevated \cup {e}
  /\ grant' = [grant EXCEPT ![e] = k]
  /\ lapse' = [lapse EXCEPT ![e] = now + ElevationTTL]
  /\ UNCHANGED <<lineageVars, clockVars, firmVars, consumed, callVars, pastVars>>

-----------------------------------------------------------------------------
(* The firm's administrators change, revoke, deactivate; time passes.        *)

Underway == {q \in Request : phase[q] # "idle"}

SetMember(k) ==
  /\ member # NoClass /\ k # member
  /\ member' = k
  /\ held' = [q \in Request |-> IF phase[q] \in {"guard", "member"} THEN held[q] \cup {k}
                                ELSE held[q]]
  /\ UNCHANGED <<lineageVars, clockVars, enrolled, active, stepUpVars, callVars,
                 live, bought>>

DeactivateTenant ==
  /\ active /\ active' = FALSE
  /\ UNCHANGED <<lineageVars, clockVars, member, enrolled, stepUpVars, callVars, pastVars>>

Tick ==
  /\ now < MaxTime
  /\ now' = now + 1
  /\ UNCHANGED <<lineageVars, minted, lastSeen, origin, firmVars, stepUpVars, callVars,
                 pastVars>>

-----------------------------------------------------------------------------
(* The stages of a request.                                                  *)

OnIdentitySurface(q) == ask[q].capability \in IdentityCapability

\* Request q is at stage p and goes on to stage next.
Advance(q, p, next) ==
  /\ phase[q] = p
  /\ phase' = [phase EXCEPT ![q] = next]
  /\ UNCHANGED <<lineageVars, firmVars, ask, live, bought>>

\* A statement or short transaction: a connection is borrowed and given back.
Borrow == spare > 0 /\ UNCHANGED spare

\* A tenant request past open has a transaction, and a connection with it.
Holds(q) == phase[q] \in InTransaction /\ ~OnIdentitySurface(q)

\* Mutant: the transaction of a refused request is never rolled back.
ReleaseOnSuccess(q) ==
  spare' = IF Holds(q) /\ phase[q] = "handle" THEN spare + 1 ELSE spare

\* Mutant: a connection is given back whether or not there was a transaction.
ReleaseAlways(q) == spare' = spare + 1

\* Commit or rollback of q's transaction, if it has one.
Release(q) == spare' = IF Holds(q) THEN spare + 1 ELSE spare

\* q is answered, and what was put on the request is gone.
Answer(q) ==
  /\ Release(q)
  /\ phase' = [phase EXCEPT ![q] = "idle"]
  /\ ask' = [ask EXCEPT ![q] = NoAsk]
  /\ copy' = [copy EXCEPT ![q] = NoCopy]
  /\ class' = [class EXCEPT ![q] = NoClass]
  /\ held' = [held EXCEPT ![q] = {}]
  /\ live' = [live EXCEPT ![q] = FALSE]
  /\ UNCHANGED <<lineageVars, clockVars, firmVars, stepUpVars, bought>>

\* A route that is not gated does not read x-step-up-token.
Arrive(q, r, k, e) ==
  /\ phase[q] = "idle" /\ r \in issued
  /\ e \in (IF k \in Gated THEN elevated ELSE {}) \cup {NoElevation}
  /\ phase' = [phase EXCEPT ![q] = "guard"]
  /\ ask' = [ask EXCEPT ![q] = [session |-> r, capability |-> k, elevation |-> e]]
  /\ held' = [held EXCEPT ![q] = {member}]
  /\ live' = [live EXCEPT ![q] = Resolves(r)]
  /\ UNCHANGED <<lineageVars, clockVars, firmVars, stepUpVars, spare, copy, class,
                 bought>>

\* SessionGuard puts the session and its two clocks on the request.  A request
\* of the identity surface has no principal: roleClassFor(null).
Guard(q) ==
  /\ Borrow
  /\ Resolves(ask[q].session)
  /\ copy' = [copy EXCEPT ![q] = [seen |-> lastSeen[ask[q].session],
                                  origin |-> origin[ask[q].session], mfa |-> FALSE]]
  /\ IF OnIdentitySurface(q)
       THEN class' = [class EXCEPT ![q] = IdentityClass] /\ Advance(q, "guard", "limits")
       ELSE UNCHANGED class /\ Advance(q, "guard", "member")
  /\ UNCHANGED <<clockVars, stepUpVars, held>>

\* "No autenticado.", for every reason there is.
GuardRefuses(q) ==
  /\ phase[q] = "guard" /\ spare > 0
  /\ ~Resolves(ask[q].session)
  /\ Answer(q)

\* Mutant: the principal comes from a cache, of whatever age.
FindCachedMember(q) ==
  /\ Advance(q, "member", "tenant")
  /\ Borrow
  /\ \E k \in Class : class' = [class EXCEPT ![q] = k]
  /\ held' = [held EXCEPT ![q] = {}]
  /\ copy' = [copy EXCEPT ![q].mfa = enrolled]
  /\ UNCHANGED <<clockVars, stepUpVars>>

\* DbMembershipPort.find: the membership as it is now, no cache.
FindMember(q) ==
  /\ Advance(q, "member", "tenant")
  /\ Borrow
  /\ member # NoClass
  /\ class' = [class EXCEPT ![q] = member]
  /\ held' = [held EXCEPT ![q] = {}]
  /\ copy' = [copy EXCEPT ![q].mfa = enrolled]
  /\ UNCHANGED <<clockVars, stepUpVars>>

FindsNoMember(q) ==
  /\ Advance(q, "member", "report")
  /\ Borrow
  /\ member = NoClass
  /\ UNCHANGED <<clockVars, stepUpVars, copy, class, held>>

\* recordCrossTenantAttempt, a transaction of its own, and the refusal.
Report(q) ==
  /\ phase[q] = "report" /\ spare > 0
  /\ Answer(q)

\* tenantIsActive, another transaction; an identity that was not enrolled when
\* its membership was read is refused after it.
FindTenant(q) ==
  /\ Advance(q, "tenant", "open")
  /\ Borrow
  /\ active /\ copy[q].mfa
  /\ UNCHANGED <<clockVars, stepUpVars, copy, class, held>>

TenantRefuses(q) ==
  /\ phase[q] = "tenant" /\ spare > 0
  /\ ~(active /\ copy[q].mfa)
  /\ Answer(q)

\* runInTenantContext: the connection is kept until the answer.
Open(q) ==
  /\ Advance(q, "open", "limits")
  /\ spare > 0 /\ spare' = spare - 1
  /\ UNCHANGED <<clockVars, stepUpVars, copy, class, held>>

\* The limits of the class q acts in, by the clocks as the guard read them; no
\* later stage looks at these.
WithinLimits(q) ==
  /\ now - copy[q].seen <= Idle[class[q]]
  /\ now - copy[q].origin <= Absolute[class[q]]

CheckLimits(q) ==
  /\ Advance(q, "limits", "touch")
  /\ WithinLimits(q)
  /\ copy' = [copy EXCEPT ![q] = NoCopy]
  /\ UNCHANGED <<clockVars, stepUpVars, spare, class, held>>

LimitsRefuse(q) ==
  /\ phase[q] = "limits"
  /\ ~WithinLimits(q)
  /\ Answer(q)

\* touch_session(), on another connection; a session revoked since is left alone.
Touch(q) ==
  /\ Advance(q, "touch", "decide")
  /\ Borrow
  /\ lastSeen' = IF ask[q].session \in ended THEN lastSeen
                 ELSE [lastSeen EXCEPT ![ask[q].session] = now]
  /\ UNCHANGED <<now, minted, origin, stepUpVars, copy, class, held>>

\* decide(): self scope asks the matrix nothing.
Permitted(q) ==
  OnIdentitySurface(q) \/ <<class[q], ask[q].capability>> \in Matrix

Decide(q) ==
  /\ Advance(q, "decide", IF ask[q].capability \in Gated THEN "consume" ELSE "handle")
  /\ Permitted(q)
  /\ UNCHANGED <<clockVars, stepUpVars, spare, copy, class, held>>

DecideRefuses(q) ==
  /\ phase[q] = "decide"
  /\ ~Permitted(q)
  /\ Answer(q)

\* Mutant: consumed_at is not looked at.
UsableAgain(e, k) ==
  e \in elevated /\ grant[e] = k /\ now < lapse[e]

\* The WHERE of consume_step_up().
Usable(e, k) ==
  e \in elevated \ consumed /\ grant[e] = k /\ now < lapse[e]

\* consume_step_up(), on another connection and committed at once: whatever the
\* handler does, the elevation is spent.
Consume(q) ==
  /\ phase[q] = "consume" /\ Borrow
  /\ Usable(ask[q].elevation, ask[q].capability)
  /\ consumed' = consumed \cup {ask[q].elevation}
  /\ bought' = [bought EXCEPT ![ask[q].elevation] = @ + 1]
  /\ phase' = [phase EXCEPT ![q] = "handle"]
  /\ UNCHANGED <<lineageVars, clockVars, firmVars, elevated, grant, lapse, ask, copy, class,
                 held, live>>

\* Without a token no connection is asked for.
StepUpRequired(q) ==
  /\ phase[q] = "consume"
  /\ \/ ask[q].elevation = NoElevation
     \/ spare > 0 /\ ~Usable(ask[q].elevation, ask[q].capability)
  /\ Answer(q)

\* The handler ends, in the request's transaction or, on the identity surface,
\* in one it opens (IdentityContextInterceptor).
Handle(q) ==
  /\ phase[q] = "handle"
  /\ OnIdentitySurface(q) => spare > 0
  /\ Answer(q)

\* A statement or the handler fails, or the connection is lost.
Fail(q) ==
  /\ q \in Underway
  /\ Answer(q)

\* The stages that wait for nothing, and those that wait for a connection.
Compute(q) ==
  CheckLimits(q) \/ LimitsRefuse(q) \/ Decide(q) \/ DecideRefuses(q)

Connect(q) ==
  \/ Guard(q) \/ GuardRefuses(q)
  \/ FindMember(q) \/ FindsNoMember(q) \/ Report(q)
  \/ FindTenant(q) \/ TenantRefuses(q)
  \/ Open(q) \/ Touch(q)
  \/ Consume(q) \/ StepUpRequired(q) \/ Handle(q)

Environment ==
  \/ \E r \in Row : SignIn(r) \/ \E p \in Row : Renew(p, r)
  \/ EndFamily \/ Recover
  \/ \E r \in Row, e \in Elevation, k \in Gated : StepUp(r, e, k)
  \/ \E k \in Class \cup {NoClass} : SetMember(k)
  \/ DeactivateTenant \/ Tick

Next ==
  \/ Environment
  \/ \E q \in Request :
       \/ \E r \in Row, k \in Capability, e \in Elevation \cup {NoElevation} :
            Arrive(q, r, k, e)
       \/ Compute(q) \/ Connect(q) \/ Fail(q)

Spec == Init /\ [][Next]_vars

\* A request that could go on does; pg's pool serves those who wait for a
\* connection in turn, without a timeout.
Fairness == \A q \in Request : WF_vars(Compute(q)) /\ SF_vars(Connect(q))

FairSpec == Spec /\ Fairness

-----------------------------------------------------------------------------
\* q passes the limits in this step.
Admits(q) == phase[q] = "limits" /\ phase'[q] = "touch"

(* FR-008: no request passes the limits later than its class's absolute      *)
(* limit after the sign-in its session descends from, however often the      *)
(* family was rotated, whatever the class was before, and though the guard   *)
(* read the clocks in an earlier stage.                                      *)
AbsoluteLimitHolds ==
  [][\A q \in Request : Admits(q) =>
       now - minted[family[ask[q].session]] <= Absolute[class[q]]]_vars

(* The idle clock the limits look at is never older than an access token:    *)
(* resolve_session() gives only sessions younger than that, and a session is *)
(* born seen.  The time a request itself has spent waiting comes on top.     *)
ClockReadIsFresh ==
  [][\A q \in Request : phase[q] = "guard" /\ phase'[q] \in {"member", "limits"} =>
       now - copy'[q].seen < AccessTTL]_vars

(* 005/spec.md:203, FR-012, 004/FR-010: a request goes on only with a session *)
(* that was good when it arrived, and in a class that its membership had in  *)
(* fact after it arrived: no earlier sign-out, recovery, revocation or       *)
(* change of archetype is missed.                                            *)
ServedWasEntitled ==
  [][\A q \in Request :
       /\ phase[q] = "guard" /\ phase'[q] \in {"member", "limits"} => live[q]
       /\ phase[q] = "member" /\ phase'[q] = "tenant" => class'[q] \in held[q]]_vars

(* FR-016, FR-019: one verification lets one request through, of the         *)
(* capability it was made for, however many present it at once.              *)
ElevationServesOnce ==
  /\ \A e \in Elevation : bought[e] <= 1
  /\ \A q \in Request : phase[q] = "handle" /\ ask[q].capability \in Gated =>
       ask[q].elevation \in consumed /\ grant[ask[q].elevation] = ask[q].capability

(* With more connections than requests, the pool is never in the state that  *)
(* every connection is kept by a request waiting for another one.            *)
PoolNeverWedges == Underway # {} => spare > 0

(* 004/spec.md:287: "The request that already resolved a live membership     *)
(* completes".                                                               *)
ResolvedRequestCompletes == \A q \in Request : phase[q] = "open" ~> phase[q] = "idle"

\* Session r continues a family of which some earlier session had been seen
\* within the idle limit of class k when r was inserted.
RenewedInTime(r, k) ==
  parent[r] # NoRow =>
    \E m \in Members(r) \ {r} : minted[r] - lastSeen[m] <= Idle[k]

(* FR-007, and 0040:78-80 of the limit that "silently never fires": a family *)
(* that has been idle longer than the limit is never admitted again.         *)
IdleFamilyStaysOut ==
  [][\A q \in Request : Admits(q) => RenewedInTime(ask[q].session, class[q])]_vars
=============================================================================
