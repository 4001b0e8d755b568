---------------------------- MODULE Requests_proofs ----------------------------
(***************************************************************************)
(* The properties of Requests for any number of requests, sessions and     *)
(* elevations, any pool, limits, lifetimes and matrix.                     *)
(*                                                                         *)
(* What the properties need besides the types: the origin of a session is  *)
(* the sign-in of its family, also in the copy a request took (Anchored);  *)
(* a request at the guard saw its session good if it still is, and one     *)
(* that has no principal yet has seen the present membership (Witnessed);  *)
(* an elevation nobody consumed let nobody through (Sold); and the pool's  *)
(* connections are those it has left and those kept (Accounted).           *)
(***************************************************************************)
EXTENDS Requests, FiniteSetTheorems, TLAPS

\* TypeOK in parts.
ClockType ==
  /\ now \in Nat
  /\ minted \in [Row -> Nat] /\ lastSeen \in [Row -> Nat] /\ origin \in [Row -> Nat]

FirmType == member \in Class \cup {NoClass} /\ enrolled \in BOOLEAN /\ active \in
   BOOLEAN

StepUpType ==
  /\ elevated \subseteq Elevation /\ consumed \subseteq elevated
  /\ grant \in [Elevation -> Capability \cup {NoCapability}]
  /\ lapse \in [Elevation -> Nat]
  /\ bought \in [Elevation -> Nat]

CallType ==
  /\ phase \in [Request -> Phase] /\ ask \in [Request -> Ask]
  /\ copy \in [Request -> [seen: Nat, origin: Nat, mfa: BOOLEAN]]
  /\ class \in [Request -> Class \cup {NoClass}]

PastType ==
  /\ held \in [Request -> SUBSET (Class \cup {NoClass})]
  /\ live \in [Request -> BOOLEAN]

\* A session's clocks, and the family's origin in every row.
Born ==
  \A r \in issued :
    /\ minted[r] <= lastSeen[r] /\ minted[r] <= now
    /\ origin[r] = minted[family[r]]

\* A request under way presented a session there is; until the limits it has
\* that session's origin, until the decision it is still at the gate.
Anchored ==
  \A q \in Request :
    /\ phase[q] # "idle" => ask[q].session \in issued /\ ask[q].capability \in
       Capability
    /\ phase[q] \in {"member", "tenant", "open", "limits"} =>
         copy[q].origin = origin[ask[q].session]
    /\ phase[q] \in {"member", "tenant", "report", "open"} => ~OnIdentitySurface(q)

Witnessed ==
  \A q \in Request :
    /\ phase[q] = "guard" /\ Resolves(ask[q].session) => live[q]
    /\ phase[q] \in {"guard", "member"} => member \in held[q]

Sold ==
  /\ \A e \in Elevation : bought[e] <= 1 /\ (e \notin consumed => bought[e] = 0)
  /\ \A q \in Request : phase[q] = "handle" /\ ask[q].capability \in Gated =>
       ask[q].elevation \in consumed /\ grant[ask[q].elevation] = ask[q].capability
  /\ \A q \in Request : phase[q] # "idle" => ask[q].elevation \in elevated \cup
     {NoElevation}

Holders == {q \in Request : Holds(q)}

Accounted == spare \in Nat /\ spare + Cardinality(Holders) = PoolSize

Types == LineageType /\ ClockType /\ FirmType /\ StepUpType /\ CallType /\ PastType

IInv == Types /\ Born /\ Anchored /\ Witnessed /\ Sold /\ Accounted

\* The three action properties, of one step.
Entitled ==
  \A q \in Request :
    /\ phase[q] = "guard" /\ phase'[q] \in {"member", "limits"} => live[q]
    /\ phase[q] = "member" /\ phase'[q] = "tenant" => class'[q] \in held[q]

Timely ==
  \A q \in Request : Admits(q) =>
    now - minted[family[ask[q].session]] <= Absolute[class[q]]

Fresh ==
  \A q \in Request : phase[q] = "guard" /\ phase'[q] \in {"member", "limits"} =>
    now - copy'[q].seen < AccessTTL

\* What every answer has in common.
Quit(q) == q \in Underway /\ Answer(q)

\* What an action leaves alone is said with these everywhere.
USE DEF vars, lineageVars, clockVars, firmVars, stepUpVars, callVars, pastVars

-----------------------------------------------------------------------------
(* A step of the system is one of these, or leaves every variable alone.     *)
LEMMA StepCases ==
  ASSUME NEW ACTION P,
         ASSUME NEW r \in Row, SignIn(r) PROVE P,
         ASSUME NEW p \in Row, NEW r \in Row, Renew(p, r) PROVE P,
         ASSUME EndFamily PROVE P,
         ASSUME Recover PROVE P,
         ASSUME NEW r \in Row, NEW e \in Elevation, NEW k \in Gated, StepUp(r, e, k)
            PROVE P,
         ASSUME NEW k \in Class \cup {NoClass}, SetMember(k) PROVE P,
         ASSUME DeactivateTenant PROVE P,
         ASSUME Tick PROVE P,
         ASSUME NEW q \in Request, NEW r \in Row, NEW k \in Capability, NEW e \in
            Elevation \cup {NoElevation}, Arrive(q, r, k, e) PROVE P,
         ASSUME NEW q \in Request, Guard(q) PROVE P,
         ASSUME NEW q \in Request, FindMember(q) PROVE P,
         ASSUME NEW q \in Request, FindsNoMember(q) PROVE P,
         ASSUME NEW q \in Request, FindTenant(q) PROVE P,
         ASSUME NEW q \in Request, Open(q) PROVE P,
         ASSUME NEW q \in Request, CheckLimits(q) PROVE P,
         ASSUME NEW q \in Request, Touch(q) PROVE P,
         ASSUME NEW q \in Request, Decide(q) PROVE P,
         ASSUME NEW q \in Request, Consume(q) PROVE P,
         ASSUME NEW q \in Request, Quit(q) PROVE P,
         UNCHANGED vars => P,
         [Next]_vars
  PROVE  P
<1>1. ASSUME NEW q \in Request, Compute(q) PROVE P
  BY <1>1 DEF Compute, LimitsRefuse, DecideRefuses, Quit, Underway
<1>2. ASSUME NEW q \in Request, Connect(q) PROVE P
  BY <1>2 DEF Connect, GuardRefuses, Report, TenantRefuses, StepUpRequired, Handle,
     Quit, Underway
<1>3. ASSUME NEW q \in Request, Fail(q) PROVE P
  BY <1>3 DEF Fail, Quit
<1>4. ASSUME Environment PROVE P
  BY <1>4 DEF Environment
<1>5. QED
  BY <1>1, <1>2, <1>3, <1>4 DEF Next

(* The first state: no session, no request.                                   *)
LEMMA InitIInv == Init => IInv
<1> SUFFICES ASSUME Init PROVE IInv
  OBVIOUS
<1> USE RequestsAssumption DEF Init
<1>1. LineageType
  BY DEF LineageInit, LineageType
<1>2. ClockType /\ FirmType /\ StepUpType
  BY DEF ClockType, FirmType, StepUpType
<1>3. CallType /\ PastType
  BY DEF CallType, PastType, Phase, Ask, NoAsk, NoCopy
<1>4. Born /\ Anchored /\ Witnessed /\ Sold
  BY DEF LineageInit, Born, Anchored, Witnessed, Sold
<1>5. Accounted
  <2>1. Holders = {}
    BY DEF Holders, Holds, InTransaction
  <2>2. QED
    BY <2>1, FS_EmptySet DEF Accounted
<1>6. QED
  BY <1>1, <1>2, <1>3, <1>4, <1>5 DEF IInv, Types

(* The families stay well formed.                                            *)
LEMMA LineageStep ==
  ASSUME LineageType,
         \/ \E p, r \in Row : Mint(r) \/ Rotate(p, r) \/ Kill(p) \/ Cut(p)
         \/ EndAll
  PROVE  LineageType'
<1> USE NoRowAssumption DEF LineageType
<1>1. ASSUME NEW r \in Row, Mint(r) PROVE LineageType'
  BY <1>1 DEF Mint
<1>2. ASSUME NEW p \in Row, NEW r \in Row, Rotate(p, r) PROVE LineageType'
  BY <1>2 DEF Rotate
<1>3. ASSUME NEW p \in Row, Kill(p) PROVE LineageType'
  BY <1>3 DEF Kill, Members
<1>4. ASSUME NEW p \in Row, Cut(p) PROVE LineageType'
  BY <1>4 DEF Cut, Members
<1>5. ASSUME EndAll PROVE LineageType'
  BY <1>5 DEF EndAll
<1>6. QED
  BY <1>1, <1>2, <1>3, <1>4, <1>5

(* So do they in every step.                                                 *)
LEMMA LineageTypeStep == LineageType /\ [Next]_vars => LineageType'
<1> SUFFICES ASSUME LineageType, [Next]_vars PROVE LineageType'
  OBVIOUS
<1>1. ASSUME NEW r \in Row, SignIn(r) PROVE LineageType'
  BY <1>1, LineageStep DEF SignIn
<1>2. ASSUME NEW p \in Row, NEW r \in Row, Renew(p, r) PROVE LineageType'
  BY <1>2, LineageStep DEF Renew
<1>3. ASSUME EndFamily PROVE LineageType'
  BY <1>3, LineageStep DEF EndFamily
<1>4. ASSUME Recover PROVE LineageType'
  BY <1>4, LineageStep DEF Recover
<1>5. ASSUME
       \/ (\E r \in Row, e \in Elevation, k \in Gated : StepUp(r, e, k))
       \/ (\E k \in Class \cup {NoClass} : SetMember(k)) \/ DeactivateTenant \/ Tick
       \/ (\E q \in Request, r \in Row, k \in Capability, e \in Elevation \cup
          {NoElevation} : Arrive(q, r, k, e))
     PROVE LineageType'
  BY <1>5 DEF StepUp, SetMember, DeactivateTenant, Tick, Arrive, LineageType
<1>6. ASSUME NEW q \in Request,
       \/ Guard(q) \/ FindMember(q) \/ FindsNoMember(q) \/ FindTenant(q) \/ Open(q)
       \/ CheckLimits(q) \/ Touch(q) \/ Decide(q) \/ Consume(q) \/ Quit(q)
     PROVE LineageType'
  BY <1>6 DEF Guard, Advance, Borrow, FindMember, FindsNoMember, FindTenant, Open,
     CheckLimits, Touch, Decide, Consume, Quit, Answer, Release, Underway, LineageType
<1>7. UNCHANGED vars => LineageType'
  BY DEF LineageType
<1>8. QED
  BY <1>1, <1>2, <1>3, <1>4, <1>5, <1>6, <1>7, StepCases

(* The clocks are instants.                                                  *)
LEMMA ClockTypeStep == ClockType /\ [Next]_vars => ClockType'
<1> SUFFICES ASSUME ClockType, [Next]_vars PROVE ClockType'
  OBVIOUS
<1> USE RequestsAssumption DEF ClockType
<1>1. ASSUME NEW r \in Row, SignIn(r) PROVE ClockType'
  BY <1>1 DEF SignIn, Mint, Stamp
<1>2. ASSUME NEW p \in Row, NEW r \in Row, Renew(p, r) PROVE ClockType'
  BY <1>2 DEF Renew, Rotate, Stamp
<1>3. ASSUME Tick PROVE ClockType'
  BY <1>3 DEF Tick
<1>4. ASSUME NEW q \in Request, Touch(q) PROVE ClockType'
  BY <1>4 DEF Touch, Advance, Borrow
<1>5. ASSUME
       \/ EndFamily \/ Recover
       \/ (\E r \in Row, e \in Elevation, k \in Gated : StepUp(r, e, k))
       \/ (\E k \in Class \cup {NoClass} : SetMember(k)) \/ DeactivateTenant
       \/ (\E q \in Request, r \in Row, k \in Capability, e \in Elevation \cup
          {NoElevation} : Arrive(q, r, k, e))
     PROVE ClockType'
  BY <1>5 DEF EndFamily, Kill, Cut, Recover, EndAll, StepUp, SetMember,
     DeactivateTenant, Arrive
<1>6. ASSUME NEW q \in Request,
       \/ Guard(q) \/ FindMember(q) \/ FindsNoMember(q) \/ FindTenant(q) \/ Open(q)
       \/ CheckLimits(q) \/ Decide(q) \/ Consume(q) \/ Quit(q)
     PROVE ClockType'
  BY <1>6 DEF Guard, Advance, Borrow, FindMember, FindsNoMember, FindTenant, Open,
     CheckLimits, Decide, Consume, Quit, Answer, Release, Underway
<1>7. UNCHANGED vars => ClockType'
  OBVIOUS
<1>8. QED
  BY <1>1, <1>2, <1>3, <1>4, <1>5, <1>6, <1>7, StepCases

(* What the firm's administrators change keeps its type.                     *)
LEMMA FirmTypeStep == FirmType /\ [Next]_vars => FirmType'
<1> SUFFICES ASSUME FirmType, [Next]_vars PROVE FirmType'
  OBVIOUS
<1> USE DEF FirmType
<1>1. ASSUME NEW r \in Row, SignIn(r) PROVE FirmType'
  BY <1>1 DEF SignIn, Mint, Stamp
<1>2. ASSUME Recover PROVE FirmType'
  BY <1>2 DEF Recover, EndAll
<1>3. ASSUME NEW k \in Class \cup {NoClass}, SetMember(k) PROVE FirmType'
  BY <1>3 DEF SetMember
<1>4. ASSUME DeactivateTenant PROVE FirmType'
  BY <1>4 DEF DeactivateTenant
<1>5. ASSUME
       \/ (\E p \in Row, r \in Row : Renew(p, r)) \/ EndFamily
       \/ (\E r \in Row, e \in Elevation, k \in Gated : StepUp(r, e, k)) \/ Tick
       \/ (\E q \in Request, r \in Row, k \in Capability, e \in Elevation \cup
          {NoElevation} : Arrive(q, r, k, e))
     PROVE FirmType'
  BY <1>5 DEF Renew, Rotate, Stamp, EndFamily, Kill, Cut, StepUp, Tick, Arrive
<1>6. ASSUME NEW q \in Request,
       \/ Guard(q) \/ FindMember(q) \/ FindsNoMember(q) \/ FindTenant(q) \/ Open(q)
       \/ CheckLimits(q) \/ Touch(q) \/ Decide(q) \/ Consume(q) \/ Quit(q)
     PROVE FirmType'
  BY <1>6 DEF Guard, Advance, Borrow, FindMember, FindsNoMember, FindTenant, Open,
     CheckLimits, Touch, Decide, Consume, Quit, Answer, Release, Underway
<1>7. UNCHANGED vars => FirmType'
  OBVIOUS
<1>8. QED
  BY <1>1, <1>2, <1>3, <1>4, <1>5, <1>6, <1>7, StepCases

(* Elevations are inserted unconsumed, and consumed ones are of the table.   *)
LEMMA StepUpTypeStep == StepUpType /\ ClockType /\ [Next]_vars => StepUpType'
<1> SUFFICES ASSUME StepUpType, ClockType, [Next]_vars PROVE StepUpType'
  OBVIOUS
<1> USE RequestsAssumption DEF StepUpType, ClockType
<1>1. ASSUME NEW r \in Row, NEW e \in Elevation, NEW k \in Gated, StepUp(r, e, k) PROVE
   StepUpType'
  BY <1>1 DEF StepUp
<1>2. ASSUME NEW q \in Request, Consume(q) PROVE StepUpType'
  BY <1>2 DEF Consume, Borrow, Usable
<1>3. ASSUME
       \/ (\E r \in Row : SignIn(r)) \/ (\E p \in Row, r \in Row : Renew(p, r))
       \/ EndFamily \/ Recover \/ (\E k \in Class \cup {NoClass} : SetMember(k))
       \/ DeactivateTenant \/ Tick
       \/ (\E q \in Request, r \in Row, k \in Capability, e \in Elevation \cup
          {NoElevation} : Arrive(q, r, k, e))
     PROVE StepUpType'
  BY <1>3 DEF SignIn, Mint, Stamp, Renew, Rotate, EndFamily, Kill, Cut, Recover, EndAll,
     SetMember, DeactivateTenant, Tick, Arrive
<1>4. ASSUME NEW q \in Request,
       \/ Guard(q) \/ FindMember(q) \/ FindsNoMember(q) \/ FindTenant(q) \/ Open(q)
       \/ CheckLimits(q) \/ Touch(q) \/ Decide(q) \/ Quit(q)
     PROVE StepUpType'
  BY <1>4 DEF Guard, Advance, Borrow, FindMember, FindsNoMember, FindTenant, Open,
     CheckLimits, Touch, Decide, Quit, Answer, Release, Underway
<1>5. UNCHANGED vars => StepUpType'
  OBVIOUS
<1>6. QED
  BY <1>1, <1>2, <1>3, <1>4, <1>5, StepCases

(* What is put on a request keeps its type.                                  *)
LEMMA CallTypeStep == Types /\ Born /\ [Next]_vars => CallType'
<1> SUFFICES ASSUME Types, Born, [Next]_vars PROVE CallType'
  OBVIOUS
<1> USE RequestsAssumption DEF Types, ClockType, FirmType, StepUpType, CallType,
   LineageType, Phase, InTransaction, Ask, NoAsk, NoCopy, Resolves
<1>1. ASSUME NEW q \in Request, NEW r \in Row, NEW k \in Capability, NEW e \in Elevation
   \cup {NoElevation}, Arrive(q, r, k, e) PROVE CallType'
  BY <1>1 DEF Arrive
<1>2. ASSUME NEW q \in Request, Guard(q) PROVE CallType'
  <2>1. phase' \in [Request -> Phase]
    <3>1. phase' = [phase EXCEPT ![q] = "limits"] \/ phase' = [phase EXCEPT ![q] =
       "member"]
      BY <1>2 DEF Guard, Advance
    <3>2. QED
      BY <3>1
  <2>2. ask' \in [Request -> Ask]
    BY <1>2 DEF Guard, Advance, Borrow
  <2>3. copy' \in [Request -> [seen: Nat, origin: Nat, mfa: BOOLEAN]]
    BY <1>2 DEF Guard, Advance, Borrow
  <2>4. class' \in [Request -> Class \cup {NoClass}]
    BY <1>2 DEF Guard, Advance, Borrow
  <2>5. QED
    BY <2>1, <2>2, <2>3, <2>4
<1>3. ASSUME NEW q \in Request, FindMember(q) PROVE CallType'
  BY <1>3 DEF FindMember, Advance, Borrow
<1>4. ASSUME NEW q \in Request, FindsNoMember(q) PROVE CallType'
  BY <1>4 DEF FindsNoMember, Advance, Borrow
<1>5. ASSUME NEW q \in Request, FindTenant(q) PROVE CallType'
  BY <1>5 DEF FindTenant, Advance, Borrow
<1>6. ASSUME NEW q \in Request, Open(q) PROVE CallType'
  <2>1. phase' \in [Request -> Phase]
    BY <1>6 DEF Open, Advance
  <2>2. ask' \in [Request -> Ask]
    BY <1>6 DEF Open, Advance
  <2>3. copy' \in [Request -> [seen: Nat, origin: Nat, mfa: BOOLEAN]]
    BY <1>6 DEF Open, Advance
  <2>4. class' \in [Request -> Class \cup {NoClass}]
    BY <1>6 DEF Open, Advance
  <2>5. QED
    BY <2>1, <2>2, <2>3, <2>4
<1>7. ASSUME NEW q \in Request, CheckLimits(q) PROVE CallType'
  <2>1. phase' \in [Request -> Phase]
    BY <1>7 DEF CheckLimits, Advance
  <2>2. ask' \in [Request -> Ask]
    BY <1>7 DEF CheckLimits, Advance
  <2>3. copy' \in [Request -> [seen: Nat, origin: Nat, mfa: BOOLEAN]]
    BY <1>7 DEF CheckLimits, Advance
  <2>4. class' \in [Request -> Class \cup {NoClass}]
    BY <1>7 DEF CheckLimits, Advance
  <2>5. QED
    BY <2>1, <2>2, <2>3, <2>4
<1>8. ASSUME NEW q \in Request, Touch(q) PROVE CallType'
  <2>1. phase' \in [Request -> Phase]
    BY <1>8 DEF Touch, Advance, Borrow
  <2>2. ask' \in [Request -> Ask]
    BY <1>8 DEF Touch, Advance, Borrow
  <2>3. copy' \in [Request -> [seen: Nat, origin: Nat, mfa: BOOLEAN]]
    BY <1>8 DEF Touch, Advance, Borrow
  <2>4. class' \in [Request -> Class \cup {NoClass}]
    BY <1>8 DEF Touch, Advance, Borrow
  <2>5. QED
    BY <2>1, <2>2, <2>3, <2>4
<1>9. ASSUME NEW q \in Request, Decide(q) PROVE CallType'
  <2>1. phase' \in [Request -> Phase]
    BY <1>9 DEF Decide, Advance
  <2>2. ask' \in [Request -> Ask]
    BY <1>9 DEF Decide, Advance
  <2>3. copy' \in [Request -> [seen: Nat, origin: Nat, mfa: BOOLEAN]]
    BY <1>9 DEF Decide, Advance
  <2>4. class' \in [Request -> Class \cup {NoClass}]
    BY <1>9 DEF Decide, Advance
  <2>5. QED
    BY <2>1, <2>2, <2>3, <2>4
<1>10. ASSUME NEW q \in Request, Consume(q) PROVE CallType'
  <2>1. phase' \in [Request -> Phase]
    BY <1>10 DEF Consume, Borrow
  <2>2. ask' \in [Request -> Ask]
    BY <1>10 DEF Consume, Borrow
  <2>3. copy' \in [Request -> [seen: Nat, origin: Nat, mfa: BOOLEAN]]
    BY <1>10 DEF Consume, Borrow
  <2>4. class' \in [Request -> Class \cup {NoClass}]
    BY <1>10 DEF Consume, Borrow
  <2>5. QED
    BY <2>1, <2>2, <2>3, <2>4
<1>11. ASSUME NEW q \in Request, Quit(q) PROVE CallType'
  BY <1>11 DEF Quit, Answer, Release, Underway
<1>12. ASSUME
       \/ (\E r \in Row : SignIn(r)) \/ (\E p \in Row, r \in Row : Renew(p, r))
       \/ EndFamily \/ Recover
       \/ (\E r \in Row, e \in Elevation, k \in Gated : StepUp(r, e, k))
       \/ (\E k \in Class \cup {NoClass} : SetMember(k)) \/ DeactivateTenant \/ Tick
     PROVE CallType'
  BY <1>12 DEF SignIn, Mint, Stamp, Renew, Rotate, EndFamily, Kill, Cut, Recover,
     EndAll, StepUp, SetMember, DeactivateTenant, Tick
<1>13. UNCHANGED vars => CallType'
  OBVIOUS
<1>14. QED
  BY <1>1, <1>2, <1>3, <1>4, <1>5, <1>6, <1>7, <1>8, <1>9, <1>10, <1>11, <1>12, <1>13,
     StepCases

(* So does the history.                                                      *)
LEMMA PastTypeStep == PastType /\ FirmType /\ [Next]_vars => PastType'
<1> SUFFICES ASSUME PastType, FirmType, [Next]_vars PROVE PastType'
  OBVIOUS
<1> USE DEF PastType, FirmType
<1>1. ASSUME NEW k \in Class \cup {NoClass}, SetMember(k) PROVE PastType'
  BY <1>1 DEF SetMember
<1>2. ASSUME NEW q \in Request, NEW r \in Row, NEW k \in Capability, NEW e \in Elevation
   \cup {NoElevation}, Arrive(q, r, k, e) PROVE PastType'
  <2>1. Resolves(r) \in BOOLEAN
    BY DEF Resolves
  <2>2. QED
    BY <1>2, <2>1 DEF Arrive
<1>3. ASSUME NEW q \in Request, FindMember(q) PROVE PastType'
  BY <1>3 DEF FindMember, Advance, Borrow
<1>4. ASSUME NEW q \in Request, Quit(q) PROVE PastType'
  BY <1>4 DEF Quit, Answer, Release, Underway
<1>5. ASSUME
       \/ (\E r \in Row : SignIn(r)) \/ (\E p \in Row, r \in Row : Renew(p, r))
       \/ EndFamily \/ Recover
       \/ (\E r \in Row, e \in Elevation, k \in Gated : StepUp(r, e, k))
       \/ DeactivateTenant \/ Tick
     PROVE PastType'
  BY <1>5 DEF SignIn, Mint, Stamp, Renew, Rotate, EndFamily, Kill, Cut, Recover, EndAll,
     StepUp, DeactivateTenant, Tick
<1>6. ASSUME NEW q \in Request,
       \/ Guard(q) \/ FindsNoMember(q) \/ FindTenant(q) \/ Open(q) \/ CheckLimits(q)
       \/ Touch(q) \/ Decide(q) \/ Consume(q)
     PROVE PastType'
  BY <1>6 DEF Guard, Advance, Borrow, FindsNoMember, FindTenant, Open, CheckLimits,
     Touch, Decide, Consume
<1>7. UNCHANGED vars => PastType'
  OBVIOUS
<1>8. QED
  BY <1>1, <1>2, <1>3, <1>4, <1>5, <1>6, <1>7, StepCases

(* A session is born seen, and carries its family's origin.                  *)
LEMMA BornStep == Types /\ Born /\ [Next]_vars => Born'
<1> SUFFICES ASSUME Types, Born, [Next]_vars PROVE Born'
  OBVIOUS
<1> USE NoRowAssumption, RequestsAssumption DEF Types, Born, LineageType, ClockType
<1>1. ASSUME NEW r \in Row, SignIn(r) PROVE Born'
  BY <1>1 DEF SignIn, Mint, Stamp
<1>2. ASSUME NEW p \in Row, NEW r \in Row, Renew(p, r) PROVE Born'
  BY <1>2 DEF Renew, Rotate, Stamp
<1>3. ASSUME EndFamily PROVE Born'
  BY <1>3 DEF EndFamily, Kill, Cut
<1>4. ASSUME Recover PROVE Born'
  BY <1>4 DEF Recover, EndAll
<1>5. ASSUME Tick PROVE Born'
  BY <1>5 DEF Tick
<1>6. ASSUME NEW q \in Request, Touch(q) PROVE Born'
  BY <1>6 DEF Touch, Advance, Borrow
<1>7. ASSUME
       \/ (\E r \in Row, e \in Elevation, k \in Gated : StepUp(r, e, k))
       \/ (\E k \in Class \cup {NoClass} : SetMember(k)) \/ DeactivateTenant
       \/ (\E q \in Request, r \in Row, k \in Capability, e \in Elevation \cup
          {NoElevation} : Arrive(q, r, k, e))
     PROVE Born'
  BY <1>7 DEF StepUp, SetMember, DeactivateTenant, Arrive
<1>8. ASSUME NEW q \in Request,
       \/ Guard(q) \/ FindMember(q) \/ FindsNoMember(q) \/ FindTenant(q) \/ Open(q)
       \/ CheckLimits(q) \/ Decide(q) \/ Consume(q) \/ Quit(q)
     PROVE Born'
  BY <1>8 DEF Guard, Advance, Borrow, FindMember, FindsNoMember, FindTenant, Open,
     CheckLimits, Decide, Consume, Quit, Answer, Release, Underway
<1>9. UNCHANGED vars => Born'
  OBVIOUS
<1>10. QED
  BY <1>1, <1>2, <1>3, <1>4, <1>5, <1>6, <1>7, <1>8, <1>9, StepCases

(* What a request knows of its session does not change under it.             *)
LEMMA AnchoredStep == Types /\ Anchored /\ [Next]_vars => Anchored'
<1> SUFFICES ASSUME Types, Anchored, [Next]_vars PROVE Anchored'
  OBVIOUS
<1> USE DEF Types, Anchored, OnIdentitySurface, CallType, LineageType, ClockType, NoAsk,
   NoCopy
<1>1. ASSUME NEW r \in Row, SignIn(r) PROVE Anchored'
  BY <1>1 DEF SignIn, Mint, Stamp
<1>2. ASSUME NEW p \in Row, NEW r \in Row, Renew(p, r) PROVE Anchored'
  BY <1>2 DEF Renew, Rotate, Stamp
<1>3. ASSUME EndFamily PROVE Anchored'
  BY <1>3 DEF EndFamily, Kill, Cut
<1>4. ASSUME Recover PROVE Anchored'
  BY <1>4 DEF Recover, EndAll
<1>5. ASSUME NEW q \in Request, NEW r \in Row, NEW k \in Capability, NEW e \in Elevation
   \cup {NoElevation}, Arrive(q, r, k, e) PROVE Anchored'
  BY <1>5 DEF Arrive
<1>6. ASSUME NEW q \in Request, Guard(q) PROVE Anchored'
  BY <1>6 DEF Guard, Advance, Borrow
<1>7. ASSUME NEW q \in Request, FindMember(q) PROVE Anchored'
  BY <1>7 DEF FindMember, Advance, Borrow
<1>8. ASSUME NEW q \in Request, FindsNoMember(q) PROVE Anchored'
  BY <1>8 DEF FindsNoMember, Advance, Borrow
<1>9. ASSUME NEW q \in Request, FindTenant(q) PROVE Anchored'
  BY <1>9 DEF FindTenant, Advance, Borrow
<1>10. ASSUME NEW q \in Request, Open(q) PROVE Anchored'
  BY <1>10 DEF Open, Advance
<1>11. ASSUME NEW q \in Request, CheckLimits(q) PROVE Anchored'
  BY <1>11 DEF CheckLimits, Advance
<1>12. ASSUME NEW q \in Request, Touch(q) PROVE Anchored'
  BY <1>12 DEF Touch, Advance, Borrow
<1>13. ASSUME NEW q \in Request, Decide(q) PROVE Anchored'
  BY <1>13 DEF Decide, Advance
<1>14. ASSUME NEW q \in Request, Consume(q) PROVE Anchored'
  BY <1>14 DEF Consume, Borrow
<1>15. ASSUME NEW q \in Request, Quit(q) PROVE Anchored'
  BY <1>15 DEF Quit, Answer, Release, Underway
<1>16. ASSUME
       \/ (\E r \in Row, e \in Elevation, k \in Gated : StepUp(r, e, k))
       \/ (\E k \in Class \cup {NoClass} : SetMember(k)) \/ DeactivateTenant \/ Tick
     PROVE Anchored'
  BY <1>16 DEF StepUp, SetMember, DeactivateTenant, Tick
<1>17. UNCHANGED vars => Anchored'
  OBVIOUS
<1>18. QED
  BY <1>1, <1>2, <1>3, <1>4, <1>5, <1>6, <1>7, <1>8, <1>9, <1>10, <1>11, <1>12, <1>13,
     <1>14, <1>15, <1>16, <1>17, StepCases

(* A good session was good before; the membership found is one it had.       *)
LEMMA WitnessedStep == Types /\ Anchored /\ Witnessed /\ [Next]_vars => Witnessed'
<1> SUFFICES ASSUME Types, Anchored, Witnessed, [Next]_vars PROVE Witnessed'
  OBVIOUS
<1> USE RequestsAssumption DEF Types, Anchored, Witnessed, CallType, PastType, FirmType,
   Resolves, LineageType, ClockType
<1>1. ASSUME NEW r \in Row, SignIn(r) PROVE Witnessed'
  BY <1>1 DEF SignIn, Mint, Stamp
<1>2. ASSUME NEW p \in Row, NEW r \in Row, Renew(p, r) PROVE Witnessed'
  BY <1>2 DEF Renew, Rotate, Stamp
<1>3. ASSUME EndFamily PROVE Witnessed'
  BY <1>3 DEF EndFamily, Kill, Cut
<1>4. ASSUME Recover PROVE Witnessed'
  BY <1>4 DEF Recover, EndAll
<1>5. ASSUME NEW k \in Class \cup {NoClass}, SetMember(k) PROVE Witnessed'
  BY <1>5 DEF SetMember
<1>6. ASSUME Tick PROVE Witnessed'
  BY <1>6 DEF Tick
<1>7. ASSUME NEW q \in Request, NEW r \in Row, NEW k \in Capability, NEW e \in Elevation
   \cup {NoElevation}, Arrive(q, r, k, e) PROVE Witnessed'
  BY <1>7 DEF Arrive
<1>8. ASSUME NEW q \in Request, Guard(q) PROVE Witnessed'
  BY <1>8 DEF Guard, Advance, Borrow
<1>9. ASSUME NEW q \in Request, FindMember(q) PROVE Witnessed'
  BY <1>9 DEF FindMember, Advance, Borrow
<1>10. ASSUME NEW q \in Request, FindsNoMember(q) PROVE Witnessed'
  BY <1>10 DEF FindsNoMember, Advance, Borrow
<1>11. ASSUME NEW q \in Request, FindTenant(q) PROVE Witnessed'
  BY <1>11 DEF FindTenant, Advance, Borrow
<1>12. ASSUME NEW q \in Request, Open(q) PROVE Witnessed'
  BY <1>12 DEF Open, Advance
<1>13. ASSUME NEW q \in Request, CheckLimits(q) PROVE Witnessed'
  BY <1>13 DEF CheckLimits, Advance
<1>14. ASSUME NEW q \in Request, Touch(q) PROVE Witnessed'
  BY <1>14 DEF Touch, Advance, Borrow
<1>15. ASSUME NEW q \in Request, Decide(q) PROVE Witnessed'
  BY <1>15 DEF Decide, Advance
<1>16. ASSUME NEW q \in Request, Consume(q) PROVE Witnessed'
  BY <1>16 DEF Consume, Borrow
<1>17. ASSUME NEW q \in Request, Quit(q) PROVE Witnessed'
  BY <1>17 DEF Quit, Answer, Release, Underway
<1>18. ASSUME
       \/ (\E r \in Row, e \in Elevation, k \in Gated : StepUp(r, e, k))
       \/ DeactivateTenant
     PROVE Witnessed'
  BY <1>18 DEF StepUp, DeactivateTenant
<1>19. UNCHANGED vars => Witnessed'
  OBVIOUS
<1>20. QED
  BY <1>1, <1>2, <1>3, <1>4, <1>5, <1>6, <1>7, <1>8, <1>9, <1>10, <1>11, <1>12, <1>13,
     <1>14, <1>15, <1>16, <1>17, <1>18, <1>19, StepCases

(* Consumption is a test and a mark in one.                                  *)
LEMMA SoldStep == Types /\ Sold /\ [Next]_vars => Sold'
<1> SUFFICES ASSUME Types, Sold, [Next]_vars PROVE Sold'
  OBVIOUS
<1> USE RequestsAssumption DEF Types, Sold, CallType, StepUpType, Usable, NoAsk
<1>1. ASSUME NEW r \in Row, NEW e \in Elevation, NEW k \in Gated, StepUp(r, e, k) PROVE
   Sold'
  BY <1>1 DEF StepUp
<1>2. ASSUME NEW q \in Request, NEW r \in Row, NEW k \in Capability, NEW e \in Elevation
   \cup {NoElevation}, Arrive(q, r, k, e) PROVE Sold'
  BY <1>2 DEF Arrive
<1>3. ASSUME NEW q \in Request, Guard(q) PROVE Sold'
  BY <1>3 DEF Guard, Advance, Borrow
<1>4. ASSUME NEW q \in Request, FindMember(q) PROVE Sold'
  BY <1>4 DEF FindMember, Advance, Borrow
<1>5. ASSUME NEW q \in Request, FindsNoMember(q) PROVE Sold'
  BY <1>5 DEF FindsNoMember, Advance, Borrow
<1>6. ASSUME NEW q \in Request, FindTenant(q) PROVE Sold'
  BY <1>6 DEF FindTenant, Advance, Borrow
<1>7. ASSUME NEW q \in Request, Open(q) PROVE Sold'
  BY <1>7 DEF Open, Advance
<1>8. ASSUME NEW q \in Request, CheckLimits(q) PROVE Sold'
  BY <1>8 DEF CheckLimits, Advance
<1>9. ASSUME NEW q \in Request, Touch(q) PROVE Sold'
  BY <1>9 DEF Touch, Advance, Borrow
<1>10. ASSUME NEW q \in Request, Decide(q) PROVE Sold'
  BY <1>10 DEF Decide, Advance
<1>11. ASSUME NEW q \in Request, Consume(q) PROVE Sold'
  BY <1>11 DEF Consume, Borrow
<1>12. ASSUME NEW q \in Request, Quit(q) PROVE Sold'
  BY <1>12 DEF Quit, Answer, Release, Underway
<1>13. ASSUME
       \/ (\E r \in Row : SignIn(r)) \/ (\E p \in Row, r \in Row : Renew(p, r))
       \/ EndFamily \/ Recover \/ (\E k \in Class \cup {NoClass} : SetMember(k))
       \/ DeactivateTenant \/ Tick
     PROVE Sold'
  BY <1>13 DEF SignIn, Mint, Stamp, Renew, Rotate, EndFamily, Kill, Cut, Recover,
     EndAll, SetMember, DeactivateTenant, Tick
<1>14. UNCHANGED vars => Sold'
  OBVIOUS
<1>15. QED
  BY <1>1, <1>2, <1>3, <1>4, <1>5, <1>6, <1>7, <1>8, <1>9, <1>10, <1>11, <1>12, <1>13,
     <1>14, StepCases

(* Holders are requests, of which there are finitely many.                   *)
LEMMA HoldersFinite ==
  /\ IsFiniteSet(Holders) /\ Cardinality(Holders) \in Nat
  /\ Cardinality(Holders) <= Cardinality(Request)
<1>1. Holders \in SUBSET Request
  BY DEF Holders
<1>2. QED
  BY <1>1, RequestsAssumption, FS_Subset, FS_CardinalityType

(* A connection that is taken is kept by one more request, and one that is   *)
(* given back by one fewer.                                                  *)
LEMMA AccountedStep == Types /\ Anchored /\ Accounted /\ [Next]_vars => Accounted'
<1> SUFFICES ASSUME Types, Anchored, Accounted, [Next]_vars PROVE Accounted'
  OBVIOUS
<1>1. ASSUME NEW q \in Request, NEW r \in Row, NEW k \in Capability, NEW e \in Elevation
   \cup {NoElevation}, Arrive(q, r, k, e) PROVE Accounted'
  <2>1. Holders' = Holders /\ spare' = spare
    BY <1>1 DEF Arrive, Types, CallType, Anchored, Holders, Holds, OnIdentitySurface,
       InTransaction
  <2>2. QED
    BY <2>1 DEF Accounted
<1>2. ASSUME NEW q \in Request, Guard(q) PROVE Accounted'
  <2>1. Holders' = Holders /\ spare' = spare
    BY <1>2 DEF Guard, Advance, Borrow, Types, CallType, Anchored, Holders, Holds,
       OnIdentitySurface, InTransaction
  <2>2. QED
    BY <2>1 DEF Accounted
<1>3. ASSUME NEW q \in Request, FindMember(q) PROVE Accounted'
  <2>1. Holders' = Holders /\ spare' = spare
    BY <1>3 DEF FindMember, Advance, Borrow, Types, CallType, Anchored, Holders, Holds,
       OnIdentitySurface, InTransaction
  <2>2. QED
    BY <2>1 DEF Accounted
<1>4. ASSUME NEW q \in Request, FindsNoMember(q) PROVE Accounted'
  <2>1. Holders' = Holders /\ spare' = spare
    BY <1>4 DEF FindsNoMember, Advance, Borrow, Types, CallType, Anchored, Holders,
       Holds, OnIdentitySurface, InTransaction
  <2>2. QED
    BY <2>1 DEF Accounted
<1>5. ASSUME NEW q \in Request, FindTenant(q) PROVE Accounted'
  <2>1. Holders' = Holders /\ spare' = spare
    BY <1>5 DEF FindTenant, Advance, Borrow, Types, CallType, Anchored, Holders, Holds,
       OnIdentitySurface, InTransaction
  <2>2. QED
    BY <2>1 DEF Accounted
<1>6. ASSUME NEW q \in Request, Open(q) PROVE Accounted'
  <2>1. Holders' = Holders \cup {q} /\ q \notin Holders
    BY <1>6 DEF Open, Advance, Types, CallType, Anchored, Holders, Holds,
       OnIdentitySurface, InTransaction
  <2>2. Cardinality(Holders') = Cardinality(Holders) + 1
    BY <2>1, HoldersFinite, FS_AddElement
  <2>3. spare > 0 /\ spare' = spare - 1
    BY <1>6 DEF Open
  <2>4. QED
    BY <2>2, <2>3, HoldersFinite DEF Accounted
<1>7. ASSUME NEW q \in Request, CheckLimits(q) PROVE Accounted'
  <2>1. Holders' = Holders /\ spare' = spare
    BY <1>7 DEF CheckLimits, Advance, Types, CallType, Anchored, Holders, Holds,
       OnIdentitySurface, InTransaction
  <2>2. QED
    BY <2>1 DEF Accounted
<1>8. ASSUME NEW q \in Request, Touch(q) PROVE Accounted'
  <2>1. Holders' = Holders /\ spare' = spare
    BY <1>8 DEF Touch, Advance, Borrow, Types, CallType, Anchored, Holders, Holds,
       OnIdentitySurface, InTransaction
  <2>2. QED
    BY <2>1 DEF Accounted
<1>9. ASSUME NEW q \in Request, Decide(q) PROVE Accounted'
  <2>1. Holders' = Holders /\ spare' = spare
    BY <1>9 DEF Decide, Advance, Types, CallType, Anchored, Holders, Holds,
       OnIdentitySurface, InTransaction
  <2>2. QED
    BY <2>1 DEF Accounted
<1>10. ASSUME NEW q \in Request, Consume(q) PROVE Accounted'
  <2>1. Holders' = Holders /\ spare' = spare
    BY <1>10 DEF Consume, Borrow, Types, CallType, Anchored, Holders, Holds,
       OnIdentitySurface, InTransaction
  <2>2. QED
    BY <2>1 DEF Accounted
<1>11. ASSUME NEW q \in Request, Quit(q) PROVE Accounted'
  <2>1. Holders' = Holders \ {q} /\ (q \in Holders <=> Holds(q))
    BY <1>11 DEF Quit, Answer, Types, CallType, Holders, Holds, OnIdentitySurface,
       InTransaction
  <2>2. Cardinality(Holders') =
          IF Holds(q) THEN Cardinality(Holders) - 1 ELSE Cardinality(Holders)
    BY <2>1, HoldersFinite, FS_RemoveElement
  <2>3. spare' = IF Holds(q) THEN spare + 1 ELSE spare
    BY <1>11 DEF Quit, Answer, Release
  <2>4. QED
    BY <2>2, <2>3, HoldersFinite DEF Accounted
<1>12. ASSUME
       \/ (\E r \in Row : SignIn(r)) \/ (\E p \in Row, r \in Row : Renew(p, r))
       \/ EndFamily \/ Recover
       \/ (\E r \in Row, e \in Elevation, k \in Gated : StepUp(r, e, k))
       \/ (\E k \in Class \cup {NoClass} : SetMember(k)) \/ DeactivateTenant \/ Tick
     PROVE Accounted'
  BY <1>12 DEF SignIn, Mint, Stamp, Renew, Rotate, EndFamily, Kill, Cut, Recover,
     EndAll, StepUp, SetMember, DeactivateTenant, Tick, Accounted, Holders, Holds,
     OnIdentitySurface, InTransaction
<1>13. UNCHANGED vars => Accounted'
  BY DEF Accounted, Holders, Holds, OnIdentitySurface, InTransaction
<1>14. QED
  BY <1>1, <1>2, <1>3, <1>4, <1>5, <1>6, <1>7, <1>8, <1>9, <1>10, <1>11, <1>12, <1>13,
     StepCases

(* The inductive invariant.                                                  *)
LEMMA Inductive == Spec => []IInv
<1>1. Init => IInv
  BY InitIInv
<1>2. IInv /\ [Next]_vars => IInv'
  BY LineageTypeStep, ClockTypeStep, FirmTypeStep, StepUpTypeStep, CallTypeStep,
     PastTypeStep, BornStep, AnchoredStep, WitnessedStep, SoldStep, AccountedStep
     DEF IInv, Types
<1>3. QED
  BY <1>1, <1>2, PTL DEF Spec

-----------------------------------------------------------------------------
(* The state of the requests, the sessions they present, the elevations and  *)
(* the pool keep their types; no connection is lost or given back twice.     *)
THEOREM TypeCorrect == Spec => []TypeOK
<1>1. IInv => TypeOK
  <2> SUFFICES ASSUME IInv PROVE TypeOK
    OBVIOUS
  <2>1. spare \in 0..PoolSize
    BY HoldersFinite, RequestsAssumption DEF IInv, Accounted
  <2>2. QED
    BY <2>1 DEF IInv, Types, ClockType, FirmType, StepUpType, CallType, PastType, TypeOK
<1>2. QED
  BY <1>1, Inductive, PTL

(* One verification with the second factor lets one gated request through:   *)
(* consume_step_up() tests and marks in one statement.                       *)
THEOREM OneRequestPerElevation == Spec => []ElevationServesOnce
<1>1. IInv => ElevationServesOnce
  BY DEF IInv, Sold, ElevationServesOnce
<1>2. QED
  BY <1>1, Inductive, PTL

(* Only the guard and FindMember let a request on from where it is watched.   *)
LEMMA EntitledStep == IInv /\ [Next]_vars => Entitled
<1> SUFFICES ASSUME IInv, [Next]_vars PROVE Entitled
  OBVIOUS
<1> USE DEF Entitled, IInv, Types, CallType, Witnessed
<1>1. ASSUME NEW q \in Request, NEW r \in Row, NEW k \in Capability, NEW e \in Elevation
   \cup {NoElevation}, Arrive(q, r, k, e) PROVE Entitled
  BY <1>1 DEF Arrive
<1>2. ASSUME NEW q \in Request, Guard(q) PROVE Entitled
  BY <1>2 DEF Guard, Advance, Borrow
<1>3. ASSUME NEW q \in Request, FindMember(q) PROVE Entitled
  BY <1>3 DEF FindMember, Advance, Borrow
<1>4. ASSUME NEW q \in Request, FindsNoMember(q) PROVE Entitled
  BY <1>4 DEF FindsNoMember, Advance, Borrow
<1>5. ASSUME NEW q \in Request, FindTenant(q) PROVE Entitled
  BY <1>5 DEF FindTenant, Advance, Borrow
<1>6. ASSUME NEW q \in Request, Open(q) PROVE Entitled
  BY <1>6 DEF Open, Advance
<1>7. ASSUME NEW q \in Request, CheckLimits(q) PROVE Entitled
  BY <1>7 DEF CheckLimits, Advance
<1>8. ASSUME NEW q \in Request, Touch(q) PROVE Entitled
  BY <1>8 DEF Touch, Advance, Borrow
<1>9. ASSUME NEW q \in Request, Decide(q) PROVE Entitled
  BY <1>9 DEF Decide, Advance
<1>10. ASSUME NEW q \in Request, Consume(q) PROVE Entitled
  BY <1>10 DEF Consume, Borrow
<1>11. ASSUME NEW q \in Request, Quit(q) PROVE Entitled
  BY <1>11 DEF Quit, Answer, Release, Underway
<1>12. ASSUME
       \/ (\E r \in Row : SignIn(r)) \/ (\E p \in Row, r \in Row : Renew(p, r))
       \/ EndFamily \/ Recover
       \/ (\E r \in Row, e \in Elevation, k \in Gated : StepUp(r, e, k))
       \/ (\E k \in Class \cup {NoClass} : SetMember(k)) \/ DeactivateTenant \/ Tick
     PROVE Entitled
  BY <1>12 DEF SignIn, Mint, Stamp, Renew, Rotate, EndFamily, Kill, Cut, Recover,
     EndAll, StepUp, SetMember, DeactivateTenant, Tick
<1>13. UNCHANGED vars => Entitled
  OBVIOUS
<1>14. QED
  BY <1>1, <1>2, <1>3, <1>4, <1>5, <1>6, <1>7, <1>8, <1>9, <1>10, <1>11, <1>12, <1>13,
     StepCases

(* Sign-outs, recoveries, revocations and changes of archetype that were     *)
(* done before a request arrived are noticed by it.                          *)
THEOREM ServedEntitled == Spec => ServedWasEntitled
<1>1. IInv /\ [Next]_vars => Entitled
  BY EntitledStep
<1>2. QED
  BY <1>1, Inductive, PTL DEF Spec, ServedWasEntitled, Entitled

(* The origin a request copied is the sign-in of its session's family.        *)
LEMMA TimelyStep == IInv /\ [Next]_vars => Timely
<1> SUFFICES ASSUME IInv, [Next]_vars PROVE Timely
  OBVIOUS
<1> USE DEF Timely, Admits, IInv, Types, CallType, LineageType, ClockType, Born,
   Anchored
<1>1. ASSUME NEW q \in Request, NEW r \in Row, NEW k \in Capability, NEW e \in Elevation
   \cup {NoElevation}, Arrive(q, r, k, e) PROVE Timely
  BY <1>1 DEF Arrive
<1>2. ASSUME NEW q \in Request, Guard(q) PROVE Timely
  BY <1>2 DEF Guard, Advance, Borrow
<1>3. ASSUME NEW q \in Request, FindMember(q) PROVE Timely
  BY <1>3 DEF FindMember, Advance, Borrow
<1>4. ASSUME NEW q \in Request, FindsNoMember(q) PROVE Timely
  BY <1>4 DEF FindsNoMember, Advance, Borrow
<1>5. ASSUME NEW q \in Request, FindTenant(q) PROVE Timely
  BY <1>5 DEF FindTenant, Advance, Borrow
<1>6. ASSUME NEW q \in Request, Open(q) PROVE Timely
  BY <1>6 DEF Open, Advance
<1>7. ASSUME NEW q \in Request, CheckLimits(q) PROVE Timely
  BY <1>7, RequestsAssumption DEF CheckLimits, Advance, WithinLimits
<1>8. ASSUME NEW q \in Request, Touch(q) PROVE Timely
  BY <1>8 DEF Touch, Advance, Borrow
<1>9. ASSUME NEW q \in Request, Decide(q) PROVE Timely
  BY <1>9 DEF Decide, Advance
<1>10. ASSUME NEW q \in Request, Consume(q) PROVE Timely
  BY <1>10 DEF Consume, Borrow
<1>11. ASSUME NEW q \in Request, Quit(q) PROVE Timely
  BY <1>11 DEF Quit, Answer, Release, Underway
<1>12. ASSUME
       \/ (\E r \in Row : SignIn(r)) \/ (\E p \in Row, r \in Row : Renew(p, r))
       \/ EndFamily \/ Recover
       \/ (\E r \in Row, e \in Elevation, k \in Gated : StepUp(r, e, k))
       \/ (\E k \in Class \cup {NoClass} : SetMember(k)) \/ DeactivateTenant \/ Tick
     PROVE Timely
  BY <1>12 DEF SignIn, Mint, Stamp, Renew, Rotate, EndFamily, Kill, Cut, Recover,
     EndAll, StepUp, SetMember, DeactivateTenant, Tick
<1>13. UNCHANGED vars => Timely
  OBVIOUS
<1>14. QED
  BY <1>1, <1>2, <1>3, <1>4, <1>5, <1>6, <1>7, <1>8, <1>9, <1>10, <1>11, <1>12, <1>13,
     StepCases

(* No number of rotations, and no change of class, lets a request pass later *)
(* than the absolute limit of its class after the sign-in.                   *)
THEOREM AbsoluteLimit == Spec => AbsoluteLimitHolds
<1>1. IInv /\ [Next]_vars => Timely
  BY TimelyStep
<1>2. QED
  BY <1>1, Inductive, PTL DEF Spec, AbsoluteLimitHolds, Timely, Admits

(* A session that resolves was inserted less than a token's life ago.         *)
LEMMA FreshStep == IInv /\ [Next]_vars => Fresh
<1> SUFFICES ASSUME IInv, [Next]_vars PROVE Fresh
  OBVIOUS
<1> USE DEF Fresh, IInv, Types, CallType, LineageType, ClockType, Born, Anchored
<1>1. ASSUME NEW q \in Request, NEW r \in Row, NEW k \in Capability, NEW e \in Elevation
   \cup {NoElevation}, Arrive(q, r, k, e) PROVE Fresh
  BY <1>1 DEF Arrive
<1>2. ASSUME NEW q \in Request, Guard(q) PROVE Fresh
  BY <1>2, RequestsAssumption DEF Guard, Advance, Borrow, Resolves
<1>3. ASSUME NEW q \in Request, FindMember(q) PROVE Fresh
  BY <1>3 DEF FindMember, Advance, Borrow
<1>4. ASSUME NEW q \in Request, FindsNoMember(q) PROVE Fresh
  BY <1>4 DEF FindsNoMember, Advance, Borrow
<1>5. ASSUME NEW q \in Request, FindTenant(q) PROVE Fresh
  BY <1>5 DEF FindTenant, Advance, Borrow
<1>6. ASSUME NEW q \in Request, Open(q) PROVE Fresh
  BY <1>6 DEF Open, Advance
<1>7. ASSUME NEW q \in Request, CheckLimits(q) PROVE Fresh
  BY <1>7 DEF CheckLimits, Advance
<1>8. ASSUME NEW q \in Request, Touch(q) PROVE Fresh
  BY <1>8 DEF Touch, Advance, Borrow
<1>9. ASSUME NEW q \in Request, Decide(q) PROVE Fresh
  BY <1>9 DEF Decide, Advance
<1>10. ASSUME NEW q \in Request, Consume(q) PROVE Fresh
  BY <1>10 DEF Consume, Borrow
<1>11. ASSUME NEW q \in Request, Quit(q) PROVE Fresh
  BY <1>11 DEF Quit, Answer, Release, Underway
<1>12. ASSUME
       \/ (\E r \in Row : SignIn(r)) \/ (\E p \in Row, r \in Row : Renew(p, r))
       \/ EndFamily \/ Recover
       \/ (\E r \in Row, e \in Elevation, k \in Gated : StepUp(r, e, k))
       \/ (\E k \in Class \cup {NoClass} : SetMember(k)) \/ DeactivateTenant \/ Tick
     PROVE Fresh
  BY <1>12 DEF SignIn, Mint, Stamp, Renew, Rotate, EndFamily, Kill, Cut, Recover,
     EndAll, StepUp, SetMember, DeactivateTenant, Tick
<1>13. UNCHANGED vars => Fresh
  OBVIOUS
<1>14. QED
  BY <1>1, <1>2, <1>3, <1>4, <1>5, <1>6, <1>7, <1>8, <1>9, <1>10, <1>11, <1>12, <1>13,
     StepCases

(* The guard never reads an idle clock older than an access token's life.    *)
THEOREM ClockFresh == Spec => ClockReadIsFresh
<1>1. IInv /\ [Next]_vars => Fresh
  BY FreshStep
<1>2. QED
  BY <1>1, Inductive, PTL DEF Spec, ClockReadIsFresh, Fresh

(* What would rule the deadlock of the pool out: more connections than       *)
(* requests under way.  The code bounds the connections, and not the         *)
(* requests.                                                                 *)
THEOREM PoolSuffices ==
  ASSUME Cardinality(Request) < PoolSize
  PROVE  Spec => []PoolNeverWedges
<1>1. IInv => PoolNeverWedges
  BY HoldersFinite, RequestsAssumption, FS_CardinalityType
     DEF IInv, Accounted, PoolNeverWedges
<1>2. QED
  BY <1>1, Inductive, PTL

=============================================================================
