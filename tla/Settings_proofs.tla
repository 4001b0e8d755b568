---------------------------- MODULE Settings_proofs -----------------------------
(***************************************************************************)
(* That the statements of invitations amount to what Onboarding promises,  *)
(* and that the firm's records agree, for any number of people, requests   *)
(* and entries.  An acceptance holds its invitation from its first look to *)
(* its end, so that what it found is still so when it commits; the looks   *)
(* of the other requests are outlived by the unique indexes.               *)
(***************************************************************************)
EXTENDS Settings, TLAPS

\* What the actors may have under way.
Requests ==
  [phase : {"issue", "seed", "insert", "deactivate"}, on : Person]
    \cup [phase : {"revoke"}, on : Invitation]
    \cup [phase : {"create", "createWrite", "retire"}, on : Entry]
    \cup [phase : {"assign", "assignWrite"}, on : Person, to : Position \cup {None}, chosen : BOOLEAN]
    \cup [phase : {"accept", "look", "identity", "member"}, on : Invitation, as : Person, inTime : BOOLEAN]

Typed ==
  /\ invitations \in [Invitation -> Row \cup {None}]
  /\ identities \subseteq Person /\ members \in [Person -> {None, "live", "revoked"}]
  /\ shelf \in [Entry -> {None, "active", "retired"}] /\ holds \in [Person -> Position \cup {None}]

TypeInv == Typed /\ req \in [Actor -> {Idle} \cup Requests]

\* An acceptance past its first statement.
Holding == {"look", "identity", "member"}

\* It has found its invitation pending and its own, and nobody else has it.
Found(x, r) ==
  r.phase \in Holding =>
    /\ x \in Visitor /\ invitations[r.on] \in Row
    /\ invitations[r.on].status = "pending" /\ invitations[r.on].to = r.as
    /\ \A y \in Actor \ {x} : req[y].phase \in Holding => req[y].on # r.on

\* A position is given to somebody who has been a member; what is accepted was issued.
Known(r) ==
  /\ r.phase \in {"assign", "assignWrite"} => members[r.on] # None
  /\ r.phase = "accept" => invitations[r.on] \in Row

IInv == TypeInv /\ (\A x \in Actor : Found(x, req[x]) /\ Known(req[x])) /\ RecordsAgree

-----------------------------------------------------------------------------
(* A firm's founders have accounts, and the seeded names differ.             *)
LEMMA InitIInv == Init => IInv
<1> SUFFICES ASSUME Init PROVE IInv
  OBVIOUS
<1> USE SettingsAssumption DEF Init
<1>1. PICK founders \in {{}, Administrators} :
        /\ shelf = IF founders = {} THEN EmptyShelf ELSE FirstShelf
        /\ identities \in {founders, Administrators}
        /\ members = [p \in Person |-> IF p \in founders THEN "live" ELSE None]
  OBVIOUS
<1>2. Typed
  BY <1>1 DEF Typed, EmptyShelf, FirstShelf
<1>3. TypeInv
  BY <1>2 DEF TypeInv, Idle
<1>4. \A x \in Actor : Found(x, req[x]) /\ Known(req[x])
  BY DEF Found, Known, Idle, Holding
<1>5. RecordsAgree
  <2>1. \A p \in Person : members[p] # None => p \in identities
    BY <1>1
  <2>2. \A p \in Person : holds[p] = None
    OBVIOUS
  <2>3. Active \subseteq Seeded
    BY <1>1 DEF Active, EmptyShelf, FirstShelf
  <2>4. QED
    BY <2>1, <2>2, <2>3 DEF RecordsAgree
<1>6. QED
  BY <1>3, <1>4, <1>5 DEF IInv

-----------------------------------------------------------------------------
(* A request goes on, and nothing is written.                                *)
LEMMA GoesIInv ==
  ASSUME IInv, NEW x \in Actor, NEW r \in {Idle} \cup Requests, Goes(x, r),
         Found(x, r), Known(r), UNCHANGED <<People, Mail, Catalogs>>
  PROVE  IInv'
<1> USE DEF IInv, Goes, People, Mail, Catalogs
<1>1. TypeInv' /\ req' = [req EXCEPT ![x] = r] /\ req \in [Actor -> {Idle} \cup Requests]
  BY DEF TypeInv, Typed
<1>2. ASSUME NEW y \in Actor PROVE Found(y, req[y])' /\ Known(req[y])'
  <2>1. CASE y = x
    BY <1>1, <2>1 DEF Found, Known
  <2>2. CASE y # x
    <3>1. req'[y] = req[y] /\ Found(y, req[y]) /\ Known(req[y])
      BY <1>1, <2>2
    <3>2. \A z \in Actor \ {y} : req[y].phase \in Holding /\ req'[z].phase \in Holding => req'[z].on # req[y].on
      BY <1>1, <2>2, <3>1 DEF Found
    <3>3. QED
      BY <3>1, <3>2 DEF Found, Known
  <2>3. QED
    BY <2>1, <2>2
<1>3. RecordsAgree'
  BY DEF RecordsAgree, Active
<1>4. QED
  BY <1>1, <1>2, <1>3

(* A request that ends holds nothing.                                        *)
LEMMA EndIInv == ASSUME IInv, NEW x \in Actor, Answered(x), UNCHANGED <<People, Mail, Catalogs>> PROVE IInv'
<1>1. Found(x, Idle) /\ Known(Idle)
  BY DEF Found, Known, Idle, Holding
<1>2. QED
  BY <1>1, GoesIInv DEF Answered

(* A write, by a request that ends with it: what the others hold is left.    *)
LEMMA WriteIInv ==
  ASSUME IInv, NEW x \in Actor, Answered(x), Typed', RecordsAgree',
         \A p \in Person : members[p] # None => members'[p] # None,
         \A i \in Invitation : invitations[i] \in Row => invitations'[i] \in Row,
         \A y \in Actor \ {x} : req[y].phase \in Holding => invitations'[req[y].on] = invitations[req[y].on]
  PROVE  IInv'
<1> USE DEF IInv, Answered, Goes
<1>1. TypeInv' /\ req' = [req EXCEPT ![x] = Idle] /\ req \in [Actor -> {Idle} \cup Requests]
  BY DEF TypeInv
<1>2. ASSUME NEW y \in Actor PROVE Found(y, req[y])' /\ Known(req[y])'
  <2>1. CASE y = x
    BY <1>1, <2>1 DEF Found, Known, Idle, Holding
  <2>2. CASE y # x
    <3>1. req'[y] = req[y] /\ Found(y, req[y]) /\ Known(req[y]) /\ req[y] \in {Idle} \cup Requests
      BY <1>1, <2>2
    <3>2. \A z \in Actor \ {y} : req'[z].phase \in Holding => req'[z] = req[z]
      BY <1>1 DEF Idle, Holding
    <3>3. Found(y, req[y])'
      BY <2>2, <3>1, <3>2 DEF Found
    <3>4. /\ req[y].phase \in {"assign", "assignWrite"} => req[y].on \in Person
          /\ req[y].phase = "accept" => req[y].on \in Invitation
      BY <3>1 DEF Requests, Idle
    <3>5. Known(req[y])'
      BY <3>1, <3>4 DEF Known
    <3>6. QED
      BY <3>3, <3>5
  <2>3. QED
    BY <2>1, <2>2
<1>3. QED
  BY <1>1, <1>2

-----------------------------------------------------------------------------
(* What is sent holds nothing yet.                                           *)
LEMMA BeginsIInv ==
  ASSUME IInv, NEW x \in Actor, NEW r \in Requests, Begins(x, r), r.phase \notin Holding,
         Known(r), UNCHANGED <<People, Mail, Catalogs>>
  PROVE  IInv'
  BY GoesIInv DEF Begins, Found

LEMMA SendsIInv == ASSUME IInv, NEW m \in Person, Sends(m), UNCHANGED <<People, Mail, Catalogs>> PROVE IInv'
<1>1. m \in Actor
  BY DEF Actor
<1>2. ASSUME NEW p \in Person, NEW phase \in {"issue", "deactivate"}, Begins(m, [phase |-> phase, on |-> p]) PROVE IInv'
  <2> DEFINE r == [phase |-> phase, on |-> p]
  <2>1. r \in Requests /\ r.phase \notin Holding /\ Known(r)
    BY DEF Requests, Holding, Known
  <2> HIDE DEF r
  <2>2. Begins(m, r)
    BY <1>2 DEF r
  <2>3. QED
    BY <1>1, <2>1, <2>2, BeginsIInv
<1>3. ASSUME NEW i \in Invitation, Begins(m, [phase |-> "revoke", on |-> i]) PROVE IInv'
  <2> DEFINE r == [phase |-> "revoke", on |-> i]
  <2>1. r \in Requests /\ r.phase \notin Holding /\ Known(r)
    BY DEF Requests, Holding, Known
  <2> HIDE DEF r
  <2>2. Begins(m, r)
    BY <1>3 DEF r
  <2>3. QED
    BY <1>1, <2>1, <2>2, BeginsIInv
<1>4. QED
  BY <1>2, <1>3 DEF Sends

LEMMA SubmitIInv ==
  ASSUME IInv, NEW m \in Person, Verified(m) \/ SubmitAct(m) \/ SubmitEntry(m) \/ SubmitPosition(m)
  PROVE  IInv'
<1>1. m \in Actor
  BY DEF Actor
<1>2. CASE Verified(m) \/ SubmitAct(m)
  BY <1>2, SendsIInv DEF Verified, SubmitAct
<1>3. CASE SubmitEntry(m)
  <2>1. PICK e \in Entry : Begins(m, [phase |-> IF shelf[e] = None THEN "create" ELSE "retire", on |-> e])
    BY <1>3 DEF SubmitEntry
  <2> DEFINE r == [phase |-> IF shelf[e] = None THEN "create" ELSE "retire", on |-> e]
  <2>2. r \in Requests /\ r.phase \notin Holding /\ Known(r)
    BY DEF Requests, Holding, Known
  <2> HIDE DEF r
  <2>3. Begins(m, r)
    BY <2>1 DEF r
  <2>4. QED
    BY <1>1, <1>3, <2>2, <2>3, BeginsIInv DEF SubmitEntry
<1>4. CASE SubmitPosition(m)
  <2>1. PICK p \in Live, e \in Assignable :
          Begins(m, [phase |-> "assign", on |-> p, to |-> e, chosen |-> e # Shown(p)])
    BY <1>4 DEF SubmitPosition
  <2> DEFINE r == [phase |-> "assign", on |-> p, to |-> e, chosen |-> e # Shown(p)]
  <2>2. p \in Person /\ members[p] # None /\ e \in Position \cup {None}
    BY SettingsAssumption DEF Live, Assignable
  <2>3. r \in Requests /\ r.phase \notin Holding /\ Known(r)
    BY <2>2 DEF Requests, Holding, Known
  <2> HIDE DEF r
  <2>4. Begins(m, r)
    BY <2>1 DEF r
  <2>5. QED
    BY <1>1, <1>4, <2>3, <2>4, BeginsIInv DEF SubmitPosition
<1>5. QED
  BY <1>2, <1>3, <1>4

LEMMA VisitIInv == ASSUME IInv, NEW v \in Visitor, SubmitAcceptance(v) PROVE IInv'
<1>1. PICK i \in Invitation \ Unissued, p \in Person, inTime \in BOOLEAN :
        Begins(v, [phase |-> "accept", on |-> i, as |-> p, inTime |-> inTime])
  BY DEF SubmitAcceptance
<1> DEFINE r == [phase |-> "accept", on |-> i, as |-> p, inTime |-> inTime]
<1>2. r \in Requests /\ r.phase \notin Holding /\ v \in Actor
  BY DEF Requests, Holding, Actor
<1>3. invitations[i] \in Row
  BY <1>1 DEF Unissued, IInv, TypeInv, Typed
<1>4. Known(r)
  BY <1>3 DEF Known
<1> HIDE DEF r
<1>5. Begins(v, r)
  BY <1>1 DEF r
<1>6. QED
  BY <1>2, <1>4, <1>5, BeginsIInv DEF SubmitAcceptance

LEMMA SeedIInv == ASSUME IInv, SubmitSeed PROVE IInv'
<1>1. PICK p \in Person : Begins(Platform, [phase |-> "seed", on |-> p])
  BY DEF SubmitSeed
<1> DEFINE r == [phase |-> "seed", on |-> p]
<1>2. r \in Requests /\ r.phase \notin Holding /\ Known(r) /\ Platform \in Actor
  BY DEF Requests, Holding, Known, Actor
<1> HIDE DEF r
<1>3. Begins(Platform, r)
  BY <1>1 DEF r
<1>4. QED
  BY <1>2, <1>3, BeginsIInv DEF SubmitSeed

-----------------------------------------------------------------------------
(* The first looks.                                                          *)
LEMMA LookIInv ==
  ASSUME IInv, NEW x \in Actor,
         \/ x \in Person /\ (IssueCount(x) \/ CreateRead(x) \/ AssignRead(x))
         \/ x = Platform /\ SeedCount
  PROVE  IInv'
<1>1. req[x] \in {Idle} \cup Requests
  BY DEF IInv, TypeInv
<1>2. Known(req[x])
  BY DEF IInv
<1>3. CASE x \in Person /\ IssueCount(x)
  <2> DEFINE r == [req[x] EXCEPT !.phase = "insert"]
  <2>1. r \in Requests /\ r.phase \notin Holding /\ Known(r)
    BY <1>1, <1>3 DEF Requests, Holding, Known, IssueCount, At, Idle
  <2>2. Continues(x, r) \/ Refuses(x)
    BY <1>3 DEF IssueCount
  <2> HIDE DEF r
  <2>3. QED
    BY <2>1, <2>2, GoesIInv, EndIInv DEF Continues, Refuses, Found
<1>4. CASE x \in Person /\ CreateRead(x)
  <2> DEFINE r == [req[x] EXCEPT !.phase = "createWrite"]
  <2>1. r \in Requests /\ r.phase \notin Holding /\ Known(r)
    BY <1>1, <1>4 DEF Requests, Holding, Known, CreateRead, At, Idle
  <2>2. Continues(x, r) \/ Refuses(x)
    BY <1>4 DEF CreateRead
  <2> HIDE DEF r
  <2>3. QED
    BY <2>1, <2>2, GoesIInv, EndIInv DEF Continues, Refuses, Found
<1>5. CASE x \in Person /\ AssignRead(x)
  <2> DEFINE r == [req[x] EXCEPT !.phase = "assignWrite"]
  <2>1. r \in Requests /\ r.phase \notin Holding /\ Known(r)
    BY <1>1, <1>2, <1>5 DEF Requests, Holding, Known, AssignRead, At, Idle
  <2>2. Continues(x, r) \/ Refuses(x)
    BY <1>5 DEF AssignRead
  <2> HIDE DEF r
  <2>3. QED
    BY <2>1, <2>2, GoesIInv, EndIInv DEF Continues, Refuses, Found
<1>6. CASE x = Platform /\ SeedCount
  <2> DEFINE r == [req[x] EXCEPT !.phase = "insert"]
  <2>1. r \in Requests /\ r.phase \notin Holding /\ Known(r)
    BY <1>1, <1>6 DEF Requests, Holding, Known, SeedCount, At, Idle
  <2>2. Continues(x, r) \/ Refuses(x)
    BY <1>6 DEF SeedCount
  <2> HIDE DEF r
  <2>3. QED
    BY <2>1, <2>2, GoesIInv, EndIInv DEF Continues, Refuses, Found
<1>7. QED
  BY <1>3, <1>4, <1>5, <1>6

(* The statements of an acceptance before the last.                          *)
LEMMA OpenIInv == ASSUME IInv, NEW v \in Visitor, AcceptOpen(v) PROVE IInv'
<1> DEFINE i == req[v].on
           r == [req[v] EXCEPT !.phase = "look"]
<1>1. v \in Actor /\ req[v] \in {Idle} \cup Requests /\ req[v].phase = "accept"
  BY DEF IInv, TypeInv, Actor, AcceptOpen, At
<1>2. /\ r \in Requests /\ r.phase = "look" /\ r.on = i /\ r.as = req[v].as
      /\ i \in Invitation
  BY <1>1 DEF Requests, Idle
<1>3. invitations[i] \in Row /\ ~Locked(i)
  BY <1>1 DEF IInv, Known, AcceptOpen
<1>4. \A y \in Actor \ {v} : req[y].phase \in Holding => req[y].on # i
  BY <1>3 DEF IInv, Found, Locked, Holding
<1>5. CASE Acceptable(invitations[i], req[v]) /\ Continues(v, r)
  <2>1. Found(v, r) /\ Known(r)
    BY <1>2, <1>3, <1>4, <1>5 DEF Found, Known, Acceptable
  <2> HIDE DEF r
  <2>2. QED
    BY <1>1, <1>2, <1>5, <2>1, GoesIInv DEF Continues
<1>6. CASE Counted(v, i)
  <2>1. /\ invitations' = [invitations EXCEPT ![i].failed = @ + 1] /\ UNCHANGED <<People, Catalogs>>
        /\ Answered(v)
    BY <1>6 DEF Counted
  <2>2. invitations'[i] \in Row /\ \A j \in Invitation \ {i} : invitations'[j] = invitations[j]
    BY <1>2, <1>3, <2>1 DEF IInv, TypeInv, Typed, Row
  <2>3. Typed' /\ RecordsAgree'
    BY <1>2, <2>1, <2>2 DEF IInv, TypeInv, Typed, RecordsAgree, Active, People, Catalogs
  <2>4. \A y \in Actor \ {v} : req[y].phase \in Holding => invitations'[req[y].on] = invitations[req[y].on]
    BY <1>4, <2>1 DEF IInv, TypeInv, Typed, Found
  <2>5. QED
    BY <1>1, <2>1, <2>2, <2>3, <2>4, WriteIInv DEF People
<1>7. QED
  BY <1>5, <1>6 DEF AcceptOpen

(* A refusal at the second look is counted too.                              *)
LEMMA NextLookIInv == ASSUME IInv, NEW v \in Visitor, AcceptLook(v) \/ AcceptIdentity(v) PROVE IInv'
<1> DEFINE i == req[v].on
           r == [req[v] EXCEPT !.phase = "member"]
           q == [req[v] EXCEPT !.phase = "identity"]
<1>1. v \in Actor /\ req[v] \in {Idle} \cup Requests /\ req[v].phase \in {"look", "identity"}
  BY DEF IInv, TypeInv, Actor, AcceptLook, AcceptIdentity, At
<1>2. /\ r \in Requests /\ q \in Requests /\ i \in Invitation
      /\ r.phase = "member" /\ q.phase = "identity" /\ r.on = i /\ q.on = i
      /\ r.as = req[v].as /\ q.as = req[v].as
  BY <1>1 DEF Requests, Idle
<1>3. Found(v, req[v])
  BY <1>1 DEF IInv
<1>4. Found(v, r) /\ Found(v, q) /\ Known(r) /\ Known(q)
  BY <1>1, <1>2, <1>3 DEF Found, Known, Holding
<1>5. CASE Counted(v, i)
  <2>1. /\ invitations' = [invitations EXCEPT ![i].failed = @ + 1] /\ UNCHANGED <<People, Catalogs>>
        /\ Answered(v)
    BY <1>5 DEF Counted
  <2>2. invitations'[i] \in Row /\ \A j \in Invitation \ {i} : invitations'[j] = invitations[j]
    BY <1>1, <1>2, <1>3, <2>1 DEF IInv, TypeInv, Typed, Row, Found, Holding
  <2>3. Typed' /\ RecordsAgree'
    BY <1>2, <2>1, <2>2 DEF IInv, TypeInv, Typed, RecordsAgree, Active, People, Catalogs
  <2>4. \A y \in Actor \ {v} : req[y].phase \in Holding => invitations'[req[y].on] = invitations[req[y].on]
    BY <1>1, <1>3, <2>1 DEF IInv, TypeInv, Typed, Found, Holding
  <2>5. QED
    BY <1>1, <2>1, <2>2, <2>3, <2>4, WriteIInv DEF People
<1>6. Continues(v, r) \/ Continues(v, q) \/ Refuses(v) \/ Counted(v, i)
  BY DEF AcceptLook, AcceptIdentity
<1> HIDE DEF r, q
<1>7. QED
  BY <1>1, <1>2, <1>4, <1>5, <1>6, GoesIInv, EndIInv DEF Continues, Refuses

(* The membership is the last statement, and commits all.                    *)
LEMMA MemberIInv == ASSUME IInv, NEW v \in Visitor, AcceptMember(v) PROVE IInv'
<1> DEFINE r == req[v]
<1>1. v \in Actor /\ r \in {Idle} \cup Requests /\ r.phase = "member"
  BY DEF IInv, TypeInv, Actor, AcceptMember, At
<1>2. r.on \in Invitation /\ r.as \in Person
  BY <1>1 DEF Requests, Idle
<1>3. invitations[r.on] \in Row /\ \A y \in Actor \ {v} : req[y].phase \in Holding => req[y].on # r.on
  BY <1>1 DEF IInv, Found, Holding
<1>4. CASE /\ identities' = identities \cup {r.as} /\ members' = [members EXCEPT ![r.as] = "live"]
           /\ invitations' = [invitations EXCEPT ![r.on].status = "accepted"] /\ Answered(v)
           /\ UNCHANGED Catalogs
  <2>1. invitations'[r.on] \in Row /\ \A j \in Invitation \ {r.on} : invitations'[j] = invitations[j]
    BY <1>2, <1>3, <1>4 DEF IInv, TypeInv, Typed, Row
  <2>2. \A p \in Person : members'[p] = IF p = r.as THEN "live" ELSE members[p]
    BY <1>4 DEF IInv, TypeInv, Typed
  <2>3. Typed'
    BY <1>2, <1>4, <2>1 DEF IInv, TypeInv, Typed, Catalogs
  <2>4. RecordsAgree'
    BY <1>4, <2>2, SettingsAssumption DEF IInv, RecordsAgree, Active, Catalogs
  <2>5. \A y \in Actor \ {v} : req[y].phase \in Holding => invitations'[req[y].on] = invitations[req[y].on]
    BY <1>3, <1>4 DEF IInv, TypeInv, Typed, Found
  <2>6. \A p \in Person : members[p] # None => members'[p] # None
    BY <2>2, SettingsAssumption
  <2>7. QED
    BY <1>1, <1>4, <2>1, <2>3, <2>4, <2>5, <2>6, WriteIInv
<1>5. QED
  BY <1>1, <1>4, EndIInv DEF AcceptMember, Refuses

-----------------------------------------------------------------------------
(* Issuing: the row was nobody's.                                            *)
LEMMA InsertIInv == ASSUME IInv, NEW x \in Actor, Insert(x) PROVE IInv'
<1>1. PICK i \in Unissued : invitations' = [invitations EXCEPT ![i] = Fresh(req[x].on)]
  BY DEF Insert
<1>2. req[x] \in {Idle} \cup Requests /\ req[x].phase = "insert"
  BY DEF IInv, TypeInv, Insert, At
<1>3. Fresh(req[x].on) \in Row
  BY <1>2 DEF Requests, Idle, Fresh, Row
<1>4. i \in Invitation /\ invitations[i] \notin Row
  BY SettingsAssumption DEF Unissued
<1>5. UNCHANGED <<People, Catalogs>> /\ Answered(x)
  BY DEF Insert
<1>6. Typed' /\ RecordsAgree' /\ UNCHANGED members
  BY <1>1, <1>3, <1>5 DEF IInv, TypeInv, Typed, RecordsAgree, Active, People, Catalogs
<1>7. \A y \in Actor \ {x} : req[y].phase \in Holding => invitations'[req[y].on] = invitations[req[y].on]
  BY <1>1, <1>4 DEF IInv, TypeInv, Typed, Found
<1>8. \A j \in Invitation : invitations[j] \in Row => invitations'[j] \in Row
  BY <1>1, <1>4 DEF IInv, TypeInv, Typed
<1>9. QED
  BY <1>5, <1>6, <1>7, <1>8, WriteIInv

(* Revoking: nobody holds the row.                                           *)
LEMMA RevokeIInv == ASSUME IInv, NEW m \in Person, Revoke(m) PROVE IInv'
<1> DEFINE i == req[m].on
<1>1. m \in Actor /\ req[m] \in {Idle} \cup Requests /\ req[m].phase = "revoke"
  BY DEF IInv, TypeInv, Actor, Revoke, At
<1>2. i \in Invitation
  BY <1>1 DEF Requests, Idle
<1>3. CASE /\ ~Locked(i) /\ invitations[i] # None /\ Answered(m) /\ UNCHANGED <<People, Catalogs>>
           /\ invitations' = [invitations EXCEPT ![i].status = "revoked"]
  <2>1. invitations[i] \in Row
    BY <1>2, <1>3 DEF IInv, TypeInv, Typed
  <2>2. invitations'[i] \in Row /\ \A j \in Invitation \ {i} : invitations'[j] = invitations[j]
    BY <1>2, <1>3, <2>1 DEF IInv, TypeInv, Typed, Row
  <2>3. Typed' /\ RecordsAgree' /\ UNCHANGED members
    BY <1>2, <1>3, <2>2 DEF IInv, TypeInv, Typed, RecordsAgree, Active, People, Catalogs
  <2>4. \A y \in Actor \ {m} : req[y].phase \in Holding => invitations'[req[y].on] = invitations[req[y].on]
    BY <1>3 DEF IInv, TypeInv, Typed, Found, Locked, Holding
  <2>5. QED
    BY <1>1, <1>3, <2>2, <2>3, <2>4, WriteIInv
<1>4. Refuses(m) \/ (/\ ~Locked(i) /\ invitations[i] # None /\ Answered(m) /\ UNCHANGED <<People, Catalogs>>
                     /\ invitations' = [invitations EXCEPT ![i].status = "revoked"])
  BY DEF Revoke
<1>5. QED
  BY <1>1, <1>3, <1>4, EndIInv DEF Refuses

(* The writes that touch no invitation.                                      *)
LEMMA OtherIInv ==
  ASSUME IInv, NEW m \in Person, Answered(m), UNCHANGED <<identities, Mail>>, Typed', RecordsAgree',
         \A p \in Person : members[p] # None => members'[p] # None
  PROVE  IInv'
<1>1. m \in Actor /\ UNCHANGED invitations
  BY DEF Actor, Mail
<1>2. QED
  BY <1>1, WriteIInv

LEMMA DeactivateIInv == ASSUME IInv, NEW m \in Person, Deactivate(m) PROVE IInv'
<1> DEFINE p == req[m].on
<1>1. m \in Actor
  BY DEF Actor
<1>2. CASE /\ p \in Live /\ members' = [members EXCEPT ![p] = "revoked"] /\ Answered(m)
           /\ UNCHANGED <<firm, identities, Mail, Catalogs>>
  <2>1. \A x \in Person : members'[x] = IF x = p THEN "revoked" ELSE members[x]
    BY <1>2 DEF IInv, TypeInv, Typed
  <2>2. Typed'
    BY <1>2 DEF IInv, TypeInv, Typed, Live, Mail, Catalogs
  <2>3. p \in identities /\ p \in Person
    BY <1>2, SettingsAssumption DEF Live, IInv, RecordsAgree
  <2>4. RecordsAgree'
    BY <1>2, <2>1, <2>3, SettingsAssumption DEF IInv, RecordsAgree, Active, Catalogs
  <2>5. QED
    BY <1>2, <2>1, <2>2, <2>4, OtherIInv, SettingsAssumption
<1>3. QED
  BY <1>1, <1>2, EndIInv DEF Deactivate, Refuses

(* The unique index, not the look before it, keeps the names apart.          *)
LEMMA CatalogIInv == ASSUME IInv, NEW m \in Person, CreateWrite(m) \/ Retire(m) PROVE IInv'
<1> DEFINE e == req[m].on
<1>1. m \in Actor /\ req[m] \in {Idle} \cup Requests /\ req[m].phase \in {"createWrite", "retire"}
  BY DEF IInv, TypeInv, Actor, CreateWrite, Retire, At
<1>2. e \in Entry
  BY <1>1 DEF Requests, Idle
<1>3. CASE Insertable(e) /\ shelf' = [shelf EXCEPT ![e] = "active"] /\ Answered(m) /\ UNCHANGED <<People, Mail, holds>>
  <2>1. Typed' /\ \A d \in Entry : shelf'[d] = IF d = e THEN "active" ELSE shelf[d]
    BY <1>3 DEF IInv, TypeInv, Typed, People, Mail
  <2>2. RecordsAgree'
    BY <1>3, <2>1 DEF IInv, RecordsAgree, Active, Insertable, Taken, People
  <2>3. QED
    BY <1>3, <2>1, <2>2, OtherIInv DEF People
<1>4. CASE shelf' = [shelf EXCEPT ![e] = "retired"] /\ Answered(m) /\ UNCHANGED <<People, Mail, holds>>
  <2>1. Typed' /\ \A d \in Entry : shelf'[d] = IF d = e THEN "retired" ELSE shelf[d]
    BY <1>4 DEF IInv, TypeInv, Typed, People, Mail
  <2>2. RecordsAgree'
    BY <1>4, <2>1 DEF IInv, RecordsAgree, Active, People
  <2>3. QED
    BY <1>4, <2>1, <2>2, OtherIInv DEF People
<1>5. QED
  BY <1>1, <1>3, <1>4, EndIInv DEF CreateWrite, Retire, Refuses

LEMMA AssignIInv == ASSUME IInv, NEW m \in Person, AssignWrite(m) PROVE IInv'
<1> DEFINE r == req[m]
<1>1. m \in Actor /\ r \in {Idle} \cup Requests /\ r.phase = "assignWrite" /\ Known(r)
  BY DEF IInv, TypeInv, Actor, AssignWrite, At
<1>2. r.on \in Person /\ r.to \in Position \cup {None} /\ members[r.on] # None
  BY <1>1 DEF Requests, Idle, Known
<1>3. holds' = [holds EXCEPT ![r.on] = r.to] /\ Answered(m) /\ UNCHANGED <<People, Mail, shelf>>
  BY DEF AssignWrite
<1>4. Typed' /\ \A p \in Person : holds'[p] = IF p = r.on THEN r.to ELSE holds[p]
  BY <1>2, <1>3 DEF IInv, TypeInv, Typed, People, Mail
<1>5. RecordsAgree'
  BY <1>2, <1>3, <1>4 DEF IInv, RecordsAgree, Active, People
<1>6. QED
  BY <1>3, <1>4, <1>5, OtherIInv DEF People

(* The operator, time and the dialogs.                                       *)
LEMMA AsideIInv ==
  ASSUME IInv, UNCHANGED <<identities, members, invitations, holds, req>>, shelf' = shelf \/ shelf' = FirstShelf
  PROVE  IInv'
<1>1. TypeInv'
  BY SettingsAssumption DEF IInv, TypeInv, Typed, FirstShelf
<1>2. RecordsAgree'
  BY SettingsAssumption DEF IInv, RecordsAgree, Active, FirstShelf
<1>3. QED
  BY <1>1, <1>2 DEF IInv, Found, Known

-----------------------------------------------------------------------------
(* Every step keeps the invariant.                                           *)
LEMMA NextIInv == IInv /\ [Next]_vars => IInv'
<1> SUFFICES ASSUME IInv, [Next]_vars PROVE IInv'
  OBVIOUS
<1>1. ASSUME NEW m \in Person, OpenDialog(m) \/ AskCode(m) \/ SubmitCode(m) \/ CancelCode(m) \/ CloseDialog(m)
                                 \/ CodeRefused(m)
      PROVE  IInv'
  BY <1>1, AsideIInv DEF OpenDialog, AskCode, SubmitCode, CancelCode, CloseDialog, CodeRefused, People, Mail, Catalogs
<1>2. ASSUME NEW m \in Person, Verified(m) \/ SubmitAct(m) \/ SubmitEntry(m) \/ SubmitPosition(m) PROVE IInv'
  BY <1>2, SubmitIInv
<1>3. ASSUME NEW v \in Visitor, SubmitAcceptance(v) PROVE IInv'
  BY <1>3, VisitIInv
<1>4. CASE SubmitSeed
  BY <1>4, SeedIInv
<1>5. ASSUME NEW x \in Actor, Serves(x) PROVE IInv'
  BY <1>5, LookIInv, RevokeIInv, DeactivateIInv, CatalogIInv, AssignIInv, OpenIInv, NextLookIInv, MemberIInv, InsertIInv
  DEF Serves
<1>6. CASE HourPasses \/ ProvisionFirm \/ DeactivateFirm \/ UNCHANGED vars
  BY <1>6, AsideIInv DEF HourPasses, ProvisionFirm, DeactivateFirm, vars, People, Mail, Catalogs
<1>7. QED
  BY <1>1, <1>2, <1>3, <1>4, <1>5, <1>6 DEF Next

\* An acceptance past its first statement has its invitation pending, its own and alone.
AcceptancesHold == \A v \in Visitor : Found(v, req[v])

(* What an acceptance found under its row lock is so until it commits, in    *)
(* whatever order the other statements come (0037 accept_invitation).        *)
THEOREM AcceptancesHoldAlways == Spec => []AcceptancesHold
<1>1. IInv => AcceptancesHold
  BY DEF IInv, AcceptancesHold, Actor
<1>2. QED
  BY <1>1, InitIInv, NextIInv, PTL DEF Spec

(* A member has an account, a position is a member's, and no catalog has a   *)
(* name twice (0037 accept_invitation, 0020, 0024, 0026).                    *)
THEOREM RecordsAgreeAlways == Spec => []RecordsAgree
<1>1. IInv => RecordsAgree
  BY DEF IInv
<1>2. QED
  BY <1>1, InitIInv, NextIInv, PTL DEF Spec

-----------------------------------------------------------------------------
\* What Offers says of one row.
OfferOf(row) ==
  IF row = None THEN None
  ELSE [to |-> row.to,
        state |-> CASE row.status = "pending" -> "open"
                    [] row.status = "accepted" -> "used"
                    [] row.status = "revoked" -> "revoked"]

(* Offers row by row.                                                        *)
LEMMA OffersAre ==
  /\ Offers = [i \in Invitation |-> OfferOf(invitations[i])]
  /\ Offers' = [i \in Invitation |-> OfferOf(invitations'[i])]
  BY DEF Offers, OfferOf

(* A row as it is offered.                                                   *)
LEMMA OfferOfRow ==
  ASSUME NEW row \in Row
  PROVE  /\ row # None /\ OfferOf(row) # None /\ OfferOf(row).to = row.to
         /\ row.status = "pending" => OfferOf(row) = [to |-> row.to, state |-> "open"]
         /\ row.status = "accepted" => OfferOf(row) = [to |-> row.to, state |-> "used"]
         /\ row.status = "revoked" => OfferOf(row) = [to |-> row.to, state |-> "revoked"]
<1>1. row # None /\ row.to \in Person /\ row.status \in {"pending", "accepted", "revoked"}
  BY SettingsAssumption DEF Row
<1>2. /\ row.status = "pending" => OfferOf(row) = [to |-> row.to, state |-> "open"]
      /\ row.status = "accepted" => OfferOf(row) = [to |-> row.to, state |-> "used"]
      /\ row.status = "revoked" => OfferOf(row) = [to |-> row.to, state |-> "revoked"]
  BY <1>1 DEF OfferOf
<1>3. \A s \in {"open", "used", "revoked"} : [to |-> row.to, state |-> s] # None
  BY <1>1, SettingsAssumption
<1>4. QED
  BY <1>1, <1>2, <1>3

(* One row changes, and so one offer.                                        *)
LEMMA OfferChanges ==
  ASSUME NEW i \in Invitation, NEW row, invitations \in [Invitation -> Row \cup {None}],
         invitations' = [invitations EXCEPT ![i] = row]
  PROVE  Offers' = [Offers EXCEPT ![i] = OfferOf(row)] /\ Offers[i] = OfferOf(invitations[i])
<1>1. \A j \in Invitation : invitations'[j] = IF j = i THEN row ELSE invitations[j]
  OBVIOUS
<1>2. QED
  BY <1>1, OffersAre

(* Statement by statement: what is not an operation of Onboarding changes    *)
(* nothing it speaks of.                                                     *)
LEMMA InsertOffers ==
  ASSUME IInv, NEW x \in Actor, Insert(x)
  PROVE  \E i \in Invitation, p \in Person : Promise!Offer(i, p)
<1>1. PICK i \in Unissued : invitations' = [invitations EXCEPT ![i] = Fresh(req[x].on)]
  BY DEF Insert
<1> DEFINE p == req[x].on
<1>2. req[x] \in {Idle} \cup Requests /\ req[x].phase = "insert"
  BY DEF IInv, TypeInv, Insert, At
<1>3. p \in Person
  BY <1>2 DEF Requests, Idle
<1>4. Fresh(p) \in Row /\ Fresh(p).status = "pending" /\ Fresh(p).to = p
  BY <1>3 DEF Fresh, Row
<1>5. OfferOf(Fresh(p)) = [to |-> p, state |-> "open"]
  BY <1>4, OfferOfRow
<1>6. i \in Invitation /\ invitations[i] = None /\ invitations \in [Invitation -> Row \cup {None}]
  BY DEF Unissued, IInv, TypeInv, Typed
<1>7. Offers' = [Offers EXCEPT ![i] = OfferOf(Fresh(p))] /\ Offers[i] = OfferOf(invitations[i])
  BY <1>1, <1>6, OfferChanges
<1>8. Offers[i] = None
  BY <1>6, <1>7 DEF OfferOf
<1>9. Live' = Live
  BY DEF Insert, People, Live
<1>10. Promise!Offer(i, p)
  BY <1>5, <1>7, <1>8, <1>9 DEF Promise!Offer
<1>11. QED
  BY <1>3, <1>6, <1>10

LEMMA RevokeOffers ==
  ASSUME IInv, NEW m \in Person, Revoke(m)
  PROVE  (\E i \in Invitation : Promise!Revoke(i)) \/ UNCHANGED <<Offers, Live>>
<1> DEFINE i == req[m].on
           row == [invitations[i] EXCEPT !.status = "revoked"]
<1>1. m \in Actor /\ req[m] \in {Idle} \cup Requests /\ req[m].phase = "revoke"
  BY DEF IInv, TypeInv, Actor, Revoke, At
<1>2. i \in Invitation /\ invitations \in [Invitation -> Row \cup {None}]
  BY <1>1 DEF Requests, Idle, IInv, TypeInv, Typed
<1>3. CASE /\ invitations[i] # None /\ Revocable(invitations[i]) /\ UNCHANGED People
           /\ invitations' = [invitations EXCEPT ![i].status = "revoked"]
  <2>1. invitations[i] \in Row /\ invitations[i].status = "pending"
    BY <1>2, <1>3 DEF Revocable
  <2>2. row \in Row /\ row.status = "revoked" /\ row.to = invitations[i].to
    BY <2>1 DEF Row
  <2>3. invitations' = [invitations EXCEPT ![i] = row]
    BY <1>3
  <2> HIDE DEF row
  <2>4. Offers' = [Offers EXCEPT ![i] = OfferOf(row)] /\ Offers[i] = OfferOf(invitations[i])
    BY <1>2, <2>3, OfferChanges
  <2>5. /\ OfferOf(row) = [to |-> invitations[i].to, state |-> "revoked"]
        /\ OfferOf(invitations[i]) = [to |-> invitations[i].to, state |-> "open"]
        /\ OfferOf(invitations[i]) # None
    BY <2>1, <2>2, OfferOfRow
  <2>6. [Offers[i] EXCEPT !.state = "revoked"] = OfferOf(row)
    BY <2>4, <2>5
  <2>7. Live' = Live
    BY <1>3 DEF People, Live
  <2>8. Offers[i] # None /\ Offers[i].state = "open"
    BY <2>4, <2>5
  <2>9. Offers' = [Offers EXCEPT ![i].state = "revoked"]
    BY <2>4, <2>6
  <2>10. Promise!Revoke(i)
    BY <2>7, <2>8, <2>9 DEF Promise!Revoke
  <2>11. QED
    BY <1>2, <2>10
<1>4. CASE Refuses(m)
  BY <1>4 DEF Refuses, People, Mail, Offers, Live
<1>5. QED
  BY <1>3, <1>4 DEF Revoke

LEMMA DeactivateOffers ==
  ASSUME IInv, NEW m \in Person, Deactivate(m)
  PROVE  (\E p \in Person : Promise!Leave(p)) \/ UNCHANGED <<Offers, Live>>
<1> DEFINE p == req[m].on
<1>1. CASE /\ p \in Live /\ members' = [members EXCEPT ![p] = "revoked"] /\ UNCHANGED Mail
  <2>1. Offers' = Offers /\ p \in Person
    BY <1>1 DEF Mail, Offers, Live
  <2>2. Live' = Live \ {p}
    BY <1>1 DEF Live, IInv, TypeInv, Typed
  <2>3. QED
    BY <1>1, <2>1, <2>2 DEF Promise!Leave
<1>2. CASE Refuses(m)
  BY <1>2 DEF Refuses, People, Mail, Offers, Live
<1>3. QED
  BY <1>1, <1>2 DEF Deactivate

(* A counted refusal changes nothing that is promised.                       *)
LEMMA CountedOffers ==
  ASSUME IInv, NEW v \in Visitor, NEW i \in Invitation, invitations[i] \in Row, Counted(v, i)
  PROVE  UNCHANGED <<Offers, Live>>
<1> DEFINE row == [invitations[i] EXCEPT !.failed = @ + 1]
<1>1. row \in Row /\ row.status = invitations[i].status /\ row.to = invitations[i].to
  BY DEF Row
<1>2. invitations' = [invitations EXCEPT ![i] = row] /\ invitations \in [Invitation -> Row \cup {None}]
  BY DEF Counted, IInv, TypeInv, Typed
<1> HIDE DEF row
<1>3. Offers' = [Offers EXCEPT ![i] = OfferOf(row)] /\ Offers[i] = OfferOf(invitations[i])
  BY <1>2, OfferChanges
<1>4. OfferOf(row) = OfferOf(invitations[i])
  BY <1>1, OfferOfRow DEF Row
<1>5. Offers' = Offers
  BY <1>3, <1>4, OffersAre
<1>6. QED
  BY <1>5 DEF Counted, People, Live

LEMMA AcceptOffers ==
  ASSUME IInv, NEW v \in Visitor, AcceptOpen(v) \/ AcceptLook(v) \/ AcceptIdentity(v)
  PROVE  UNCHANGED <<Offers, Live>>
<1>1. v \in Actor /\ req[v] \in {Idle} \cup Requests /\ req[v].phase \in {"accept", "look", "identity"}
  BY DEF IInv, TypeInv, Actor, AcceptOpen, AcceptLook, AcceptIdentity, At
<1>2. req[v].on \in Invitation /\ invitations[req[v].on] \in Row
  BY <1>1 DEF Requests, Idle, IInv, Found, Known, Holding
<1>3. CASE Counted(v, req[v].on)
  BY <1>2, <1>3, CountedOffers
<1>4. CASE UNCHANGED <<People, Mail>>
  BY <1>4 DEF People, Mail, Offers, Live
<1>5. QED
  BY <1>3, <1>4 DEF AcceptOpen, AcceptLook, AcceptIdentity, Continues, Refuses

LEMMA MemberOffers ==
  ASSUME IInv, NEW v \in Visitor, AcceptMember(v)
  PROVE  (\E i \in Invitation : Promise!Admit(i)) \/ UNCHANGED <<Offers, Live>>
<1> DEFINE r == req[v]
           i == r.on
           row == [invitations[i] EXCEPT !.status = "accepted"]
<1>1. v \in Actor /\ r \in {Idle} \cup Requests /\ r.phase = "member"
  BY DEF IInv, TypeInv, Actor, AcceptMember, At
<1>2. i \in Invitation /\ r.as \in Person /\ invitations \in [Invitation -> Row \cup {None}]
  BY <1>1 DEF Requests, Idle, IInv, TypeInv, Typed
<1>3. invitations[i] \in Row /\ invitations[i].status = "pending" /\ invitations[i].to = r.as
  BY <1>1 DEF IInv, Found, Holding
<1>4. CASE /\ MayJoin(r.as) /\ members' = [members EXCEPT ![r.as] = "live"]
           /\ invitations' = [invitations EXCEPT ![i].status = "accepted"]
  <2>1. row \in Row /\ row.status = "accepted" /\ row.to = r.as
    BY <1>3 DEF Row
  <2>2. invitations' = [invitations EXCEPT ![i] = row]
    BY <1>4
  <2> HIDE DEF row
  <2>3. Offers' = [Offers EXCEPT ![i] = OfferOf(row)] /\ Offers[i] = OfferOf(invitations[i])
    BY <1>2, <2>2, OfferChanges
  <2>4. /\ OfferOf(row) = [to |-> r.as, state |-> "used"]
        /\ OfferOf(invitations[i]) = [to |-> r.as, state |-> "open"]
        /\ OfferOf(invitations[i]) # None
    BY <1>3, <2>1, OfferOfRow
  <2>5. [Offers[i] EXCEPT !.state = "used"] = OfferOf(row)
    BY <2>3, <2>4
  <2>6. r.as \notin Live
    BY <1>4, SettingsAssumption DEF MayJoin, Live
  <2>7. Live' = Live \cup {r.as}
    BY <1>2, <1>4 DEF Live, IInv, TypeInv, Typed
  <2>8. Offers[i].state = "open" /\ Offers[i].to = r.as /\ Offers[i] # None
    BY <2>3, <2>4
  <2>9. Promise!Admit(i)
    BY <2>3, <2>5, <2>6, <2>7, <2>8 DEF Promise!Admit
  <2>10. QED
    BY <1>2, <2>9
<1>5. CASE Refuses(v)
  BY <1>5 DEF Refuses, People, Mail, Offers, Live
<1>6. QED
  BY <1>4, <1>5 DEF AcceptMember

(* The statements implement Onboarding: an invitation lets its person in     *)
(* once or not at all (0037 accept_invitation).                              *)
THEOREM Implementation == Spec => ImplementsOnboarding
<1>1. Init => Promise!Init
  BY DEF Init, Promise!Init, Offers, Live
<1>2. IInv /\ [Next]_vars => [Promise!Next]_(Promise!vars)
  <2> SUFFICES ASSUME IInv, [Next]_vars PROVE [Promise!Next]_(Promise!vars)
    OBVIOUS
  <2>1. ASSUME UNCHANGED <<members, invitations>> PROVE UNCHANGED <<Offers, Live>>
    BY <2>1 DEF Offers, Live
  <2>2. ASSUME UNCHANGED <<Offers, Live>> PROVE UNCHANGED Promise!vars
    BY <2>2 DEF Promise!vars
  <2>3. ASSUME NEW x \in Actor, Serves(x) PROVE Promise!Next \/ UNCHANGED <<Offers, Live>>
    <3>1. CASE x \in Person /\ (Revoke(x) \/ Deactivate(x))
      BY <3>1, RevokeOffers, DeactivateOffers DEF Promise!Next
    <3>2. CASE x \in Visitor /\ (AcceptOpen(x) \/ AcceptLook(x) \/ AcceptIdentity(x) \/ AcceptMember(x))
      BY <3>2, AcceptOffers, MemberOffers DEF Promise!Next
    <3>3. CASE Insert(x)
      BY <3>3, InsertOffers DEF Promise!Next
    <3>4. CASE UNCHANGED <<members, invitations>>
      BY <2>1, <3>4
    <3>5. QED
      BY <2>3, <3>1, <3>2, <3>3, <3>4
      DEF Serves, IssueCount, SeedCount, CreateRead, CreateWrite, Retire, AssignRead, AssignWrite,
          Continues, Refuses, People, Mail
  <2>4. CASE UNCHANGED <<members, invitations>>
    BY <2>1, <2>2, <2>4
  <2>5. ASSUME NEW m \in Person,
               \/ OpenDialog(m) \/ AskCode(m) \/ SubmitCode(m) \/ CancelCode(m) \/ CloseDialog(m)
               \/ Verified(m) \/ CodeRefused(m) \/ SubmitAct(m) \/ SubmitEntry(m) \/ SubmitPosition(m)
        PROVE  UNCHANGED <<members, invitations>>
    BY <2>5 DEF OpenDialog, AskCode, SubmitCode, CancelCode, CloseDialog, Verified, CodeRefused, SubmitAct,
                SubmitEntry, SubmitPosition, People, Mail
  <2>6. QED
    BY <2>2, <2>3, <2>4, <2>5
    DEF Next, SubmitAcceptance, SubmitSeed, HourPasses, ProvisionFirm, DeactivateFirm, vars, People, Mail
<1>3. QED
  BY <1>1, <1>2, InitIInv, NextIInv, PTL DEF Spec, ImplementsOnboarding, Promise!Spec
=============================================================================
