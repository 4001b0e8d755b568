---------------------------- MODULE Factor_proofs ----------------------------
(***************************************************************************)
(* The invariants of Factor for every number of calls, codes in a set,     *)
(* secrets, challenges and sets.                                           *)
(*                                                                         *)
(* Two of them need more than they say.  A challenge buys one session      *)
(* because a pending one has bought none (Unsold).  A recovery costs a     *)
(* code of its own because a code ever spent that still has a row is       *)
(* marked consumed (SpentStaysSpent), and because sets are numbered, so    *)
(* that a new one revives no old code.                                     *)
(*                                                                         *)
(* Those of AttemptGuard follow, whose names are its own, for every number *)
(* of callers and codes, every threshold and every lockout.                *)
(***************************************************************************)
EXTENDS Factor, AttemptGuard, FiniteSetTheorems, TLAPS

\* TypeOK in five parts.
FlagType == confirmed \in BOOLEAN /\ enrolled \in BOOLEAN /\ lapsed \in BOOLEAN

FactorType == secret \in 0..MaxSecret

ChallengeType ==
  /\ issued \in 0..MaxChallenge /\ nonce \in 0..issued
  /\ sessionsOf \in [1..MaxChallenge -> Nat]

CodeType ==
  /\ sets \in 0..MaxSet
  /\ codes \subseteq (1..sets) \X Position /\ consumed \subseteq codes
  /\ spent \subseteq (1..sets) \X Position /\ recoveries \in Nat

CallType ==
  /\ pc \in [Client -> Phase]
  /\ challenge \in [Client -> 0..issued]
  /\ read \in [Client -> 0..secret]
  /\ matched \in [Client -> Code \cup {NoCode}]

Unsold ==
  \A h \in 1..MaxChallenge :
    /\ sessionsOf[h] <= 1
    /\ h = nonce \/ h > issued => sessionsOf[h] = 0

SpentStaysSpent == spent \cap codes \subseteq consumed

Counted == IsFiniteSet(spent) /\ recoveries = Cardinality(spent)

IInv == TypeOK /\ ConfirmedHasCodes /\ Unsold /\ SpentStaysSpent /\ Counted

\* What a refusal and a failure have in common.
Quit(c) == Answer(c) /\ UNCHANGED <<factorVars, challengeVars, codeVars>>

\* What the calls' own SELECTs have in common: they change no row.
Looking(c) == BeginRead(c) \/ ConfirmRead(c) \/ Peek(c) \/ ReadSecret(c) \/ ReadCodes(c)

-----------------------------------------------------------------------------
(* A step of the system is one of these, or leaves every variable alone.     *)
LEMMA StepCases ==
  ASSUME NEW P,
         IssueChallenge => P,
         Lapse => P,
         ASSUME NEW c \in Client, BeginCommit(c) PROVE P,
         ASSUME NEW c \in Client, ConfirmCommit(c) PROVE P,
         ASSUME NEW c \in Client, CompleteCommit(c) PROVE P,
         ASSUME NEW c \in Client, RecoverCommit(c) PROVE P,
         ASSUME NEW c \in Client, Prepare(c) PROVE P,
         ASSUME NEW c \in Client, Looking(c) PROVE P,
         ASSUME NEW c \in Client, Quit(c) PROVE P,
         UNCHANGED vars => P,
         [Next]_vars
  PROVE  P
<1>1. ASSUME NEW c \in Client, Refused(c) \/ Abort(c) PROVE Quit(c)
  BY <1>1 DEF Refused, Abort, Quit
<1>2. QED
  BY <1>1 DEF Next, Enrollment, SecondStep, Recovery, Looking


(* Nothing enrolled, issued or spent: the invariant holds.                   *)
LEMMA InitIInv == Init => IInv
<1> SUFFICES ASSUME Init PROVE IInv
  OBVIOUS
<1> USE BoundsAssumption DEF Init
<1>1. TypeOK
  <2>1. FlagType
    BY DEF FlagType
  <2>2. FactorType /\ ChallengeType /\ CodeType
    BY DEF FactorType, ChallengeType, CodeType
  <2>3. CallType
    BY DEF CallType, Phase
  <2>4. QED
    BY <2>1, <2>2, <2>3 DEF TypeOK, FlagType, FactorType, ChallengeType, CodeType, CallType
<1>2. ConfirmedHasCodes /\ Unsold /\ SpentStaysSpent
  BY DEF ConfirmedHasCodes, Unsold, SpentStaysSpent
<1>3. Counted
  BY FS_EmptySet DEF Counted
<1>4. QED
  BY <1>1, <1>2, <1>3 DEF IInv

(* Every variable keeps its type.                                            *)
LEMMA TypeStep == IInv /\ [Next]_vars => TypeOK'
<1> SUFFICES ASSUME IInv, [Next]_vars PROVE TypeOK'
  OBVIOUS
<1> USE BoundsAssumption DEF IInv, TypeOK, Phase
<1>1. IssueChallenge => TypeOK'
  <2> SUFFICES ASSUME IssueChallenge PROVE TypeOK'
    OBVIOUS
  <2>1. FactorType'
    BY DEF FactorType, IssueChallenge, factorVars, codeVars, callVars
  <2>2. ChallengeType'
    BY DEF ChallengeType, IssueChallenge, factorVars, codeVars, callVars
  <2>3. CodeType'
    BY DEF CodeType, IssueChallenge, factorVars, codeVars, callVars
  <2>4. CallType'
    BY DEF CallType, IssueChallenge, factorVars, codeVars, callVars
  <2>5. FlagType'
    BY DEF FlagType, IssueChallenge, factorVars, codeVars, callVars
  <2>6. QED
    BY <2>1, <2>2, <2>3, <2>4, <2>5 DEF FlagType, FactorType, ChallengeType, CodeType, CallType
<1>2. Lapse => TypeOK'
  BY DEF Lapse, factorVars, codeVars, callVars
<1>3. ASSUME NEW c \in Client, BeginCommit(c) PROVE TypeOK'
  <2>1. FactorType'
    BY <1>3 DEF FactorType, BeginCommit, Answer, GoOn, challengeVars, codeVars
  <2>2. ChallengeType'
    BY <1>3 DEF ChallengeType, BeginCommit, Answer, GoOn, challengeVars, codeVars
  <2>3. CodeType'
    BY <1>3 DEF CodeType, BeginCommit, Answer, GoOn, challengeVars, codeVars
  <2>4. CallType'
    BY <1>3 DEF CallType, BeginCommit, Answer, GoOn, challengeVars, codeVars
  <2>5. FlagType'
    BY <1>3 DEF FlagType, BeginCommit, Answer, GoOn, challengeVars, codeVars
  <2>6. QED
    BY <2>1, <2>2, <2>3, <2>4, <2>5 DEF FlagType, FactorType, ChallengeType, CodeType, CallType
<1>4. ASSUME NEW c \in Client, ConfirmCommit(c) PROVE TypeOK'
  BY <1>4 DEF ConfirmCommit, WithNewSet, Answer, GoOn, challengeVars
<1>5. ASSUME NEW c \in Client, CompleteCommit(c) PROVE TypeOK'
  <2>1. FactorType'
    BY <1>5 DEF FactorType, CompleteCommit, StillPending, Answer, GoOn, factorVars, codeVars
  <2>2. ChallengeType'
    <3>1. sessionsOf' = [h \in 1..MaxChallenge |->
                           IF h = challenge[c] THEN sessionsOf[h] + 1 ELSE sessionsOf[h]]
      BY <1>5 DEF CompleteCommit
    <3>2. sessionsOf' \in [1..MaxChallenge -> Nat]
      BY <3>1
    <3>3. QED
      BY <1>5, <3>2 DEF ChallengeType, CompleteCommit
  <2>3. CodeType'
    BY <1>5 DEF CodeType, CompleteCommit, StillPending, Answer, GoOn, factorVars, codeVars
  <2>4. CallType'
    BY <1>5 DEF CallType, CompleteCommit, StillPending, Answer, GoOn, factorVars, codeVars
  <2>5. FlagType'
    BY <1>5 DEF FlagType, CompleteCommit, StillPending, Answer, GoOn, factorVars, codeVars
  <2>6. QED
    BY <2>1, <2>2, <2>3, <2>4, <2>5 DEF FlagType, FactorType, ChallengeType, CodeType, CallType
<1>6. ASSUME NEW c \in Client, RecoverCommit(c) PROVE TypeOK'
  BY <1>6 DEF RecoverCommit, StillUnconsumed, GoOn, factorVars
<1>7. ASSUME NEW c \in Client, Prepare(c) PROVE TypeOK'
  <2>1. FactorType'
    BY <1>7 DEF FactorType, Prepare, Answer, GoOn, challengeVars
  <2>2. ChallengeType'
    BY <1>7 DEF ChallengeType, Prepare, Answer, GoOn, challengeVars
  <2>3. CodeType'
    BY <1>7 DEF CodeType, Prepare, Answer, GoOn, challengeVars
  <2>4. CallType'
    BY <1>7 DEF CallType, Prepare, Answer, GoOn, challengeVars
  <2>5. FlagType'
    BY <1>7 DEF FlagType, Prepare, Answer, GoOn, challengeVars
  <2>6. QED
    BY <2>1, <2>2, <2>3, <2>4, <2>5 DEF FlagType, FactorType, ChallengeType, CodeType, CallType
<1>8. ASSUME NEW c \in Client, Looking(c) PROVE TypeOK'
  <2>1. ReadCodes(c) => TypeOK'
    <3>1. codes \subseteq Code
      <4>1. 1..sets \subseteq 1..MaxSet
        OBVIOUS
      <4>2. QED
        BY <4>1 DEF Code
    <3>2. QED
      BY <3>1 DEF ReadCodes, factorVars, challengeVars, codeVars
  <2>2. BeginRead(c) \/ Peek(c) => TypeOK'
    BY DEF BeginRead, Peek, factorVars, challengeVars, codeVars
  <2>3. ConfirmRead(c) \/ ReadSecret(c) => TypeOK'
    <3>1. secret \in 0..secret
      OBVIOUS
    <3>2. QED
      BY <3>1 DEF ConfirmRead, ReadSecret, factorVars, challengeVars, codeVars
  <2>4. QED
    BY <1>8, <2>1, <2>2, <2>3 DEF Looking
<1>9. ASSUME NEW c \in Client, Quit(c) PROVE TypeOK'
  BY <1>9 DEF Quit, Answer, GoOn, factorVars, challengeVars, codeVars
<1>10. UNCHANGED vars => TypeOK'
  BY DEF vars, factorVars, challengeVars, codeVars, callVars
<1>11. QED
  BY <1>1, <1>2, <1>3, <1>4, <1>5, <1>6, <1>7, <1>8, <1>9, <1>10, StepCases

(* The codes come and go with the enrollment.                                *)
LEMMA EnrolledStep == IInv /\ [Next]_vars => ConfirmedHasCodes'
<1> SUFFICES ASSUME IInv, [Next]_vars PROVE ConfirmedHasCodes'
  OBVIOUS
<1> USE BoundsAssumption DEF IInv, TypeOK, ConfirmedHasCodes
<1>1. IssueChallenge => ConfirmedHasCodes'
  BY DEF IssueChallenge, factorVars, codeVars, callVars
<1>2. Lapse => ConfirmedHasCodes'
  BY DEF Lapse, factorVars, codeVars, callVars
<1>3. ASSUME NEW c \in Client, BeginCommit(c) PROVE ConfirmedHasCodes'
  BY <1>3 DEF BeginCommit, Answer, GoOn, challengeVars, codeVars
<1>4. ASSUME NEW c \in Client, ConfirmCommit(c) PROVE ConfirmedHasCodes'
  <2>1. PICK i \in Position : TRUE
    OBVIOUS
  <2>2. <<sets + 1, i>> \in codes'
    BY <1>4, <2>1 DEF ConfirmCommit, WithNewSet
  <2>3. QED
    BY <1>4, <2>2 DEF ConfirmCommit
<1>5. ASSUME NEW c \in Client, CompleteCommit(c) PROVE ConfirmedHasCodes'
  BY <1>5 DEF CompleteCommit, StillPending, Answer, GoOn, factorVars, codeVars
<1>6. ASSUME NEW c \in Client, RecoverCommit(c) PROVE ConfirmedHasCodes'
  BY <1>6 DEF RecoverCommit, StillUnconsumed, GoOn, factorVars
<1>7. ASSUME NEW c \in Client, Prepare(c) PROVE ConfirmedHasCodes'
  BY <1>7 DEF Prepare, Answer, GoOn, challengeVars
<1>8. ASSUME NEW c \in Client, Looking(c) PROVE ConfirmedHasCodes'
  BY <1>8 DEF Looking, BeginRead, ConfirmRead, Peek, ReadSecret, ReadCodes, factorVars, challengeVars, codeVars
<1>9. ASSUME NEW c \in Client, Quit(c) PROVE ConfirmedHasCodes'
  BY <1>9 DEF Quit, Answer, GoOn, factorVars, challengeVars, codeVars
<1>10. UNCHANGED vars => ConfirmedHasCodes'
  BY DEF vars, factorVars, challengeVars, codeVars, callVars
<1>11. QED
  BY <1>1, <1>2, <1>3, <1>4, <1>5, <1>6, <1>7, <1>8, <1>9, <1>10, StepCases

(* A session is minted for the pending challenge alone, which it uses up.    *)
LEMMA UnsoldStep == IInv /\ [Next]_vars => Unsold'
<1> SUFFICES ASSUME IInv, [Next]_vars PROVE Unsold'
  OBVIOUS
<1> USE BoundsAssumption DEF IInv, TypeOK, Unsold
<1>1. IssueChallenge => Unsold'
  BY DEF IssueChallenge, factorVars, codeVars, callVars
<1>2. Lapse => Unsold'
  BY DEF Lapse, factorVars, codeVars, callVars
<1>3. ASSUME NEW c \in Client, BeginCommit(c) PROVE Unsold'
  BY <1>3 DEF BeginCommit, Answer, GoOn, challengeVars, codeVars
<1>4. ASSUME NEW c \in Client, ConfirmCommit(c) PROVE Unsold'
  BY <1>4 DEF ConfirmCommit, WithNewSet, Answer, GoOn, challengeVars
<1>5. ASSUME NEW c \in Client, CompleteCommit(c) PROVE Unsold'
  BY <1>5 DEF CompleteCommit, StillPending, Answer, GoOn, factorVars, codeVars
<1>6. ASSUME NEW c \in Client, RecoverCommit(c) PROVE Unsold'
  BY <1>6 DEF RecoverCommit, StillUnconsumed, GoOn, factorVars
<1>7. ASSUME NEW c \in Client, Prepare(c) PROVE Unsold'
  BY <1>7 DEF Prepare, Answer, GoOn, challengeVars
<1>8. ASSUME NEW c \in Client, Looking(c) PROVE Unsold'
  BY <1>8 DEF Looking, BeginRead, ConfirmRead, Peek, ReadSecret, ReadCodes, factorVars, challengeVars, codeVars
<1>9. ASSUME NEW c \in Client, Quit(c) PROVE Unsold'
  BY <1>9 DEF Quit, Answer, GoOn, factorVars, challengeVars, codeVars
<1>10. UNCHANGED vars => Unsold'
  BY DEF vars, factorVars, challengeVars, codeVars, callVars
<1>11. QED
  BY <1>1, <1>2, <1>3, <1>4, <1>5, <1>6, <1>7, <1>8, <1>9, <1>10, StepCases

(* A consumed code stays consumed as long as it has a row.                   *)
LEMMA SpentStep == IInv /\ [Next]_vars => SpentStaysSpent'
<1> SUFFICES ASSUME IInv, [Next]_vars PROVE SpentStaysSpent'
  OBVIOUS
<1> USE BoundsAssumption DEF IInv, TypeOK, SpentStaysSpent
<1>1. IssueChallenge => SpentStaysSpent'
  BY DEF IssueChallenge, factorVars, codeVars, callVars
<1>2. Lapse => SpentStaysSpent'
  BY DEF Lapse, factorVars, codeVars, callVars
<1>3. ASSUME NEW c \in Client, BeginCommit(c) PROVE SpentStaysSpent'
  BY <1>3 DEF BeginCommit, Answer, GoOn, challengeVars, codeVars
<1>4. ASSUME NEW c \in Client, ConfirmCommit(c) PROVE SpentStaysSpent'
  BY <1>4 DEF ConfirmCommit, WithNewSet, Answer, GoOn, challengeVars
<1>5. ASSUME NEW c \in Client, CompleteCommit(c) PROVE SpentStaysSpent'
  BY <1>5 DEF CompleteCommit, StillPending, Answer, GoOn, factorVars, codeVars
<1>6. ASSUME NEW c \in Client, RecoverCommit(c) PROVE SpentStaysSpent'
  BY <1>6 DEF RecoverCommit, StillUnconsumed, GoOn, factorVars
<1>7. ASSUME NEW c \in Client, Prepare(c) PROVE SpentStaysSpent'
  BY <1>7 DEF Prepare, Answer, GoOn, challengeVars
<1>8. ASSUME NEW c \in Client, Looking(c) PROVE SpentStaysSpent'
  BY <1>8 DEF Looking, BeginRead, ConfirmRead, Peek, ReadSecret, ReadCodes, factorVars, challengeVars, codeVars
<1>9. ASSUME NEW c \in Client, Quit(c) PROVE SpentStaysSpent'
  BY <1>9 DEF Quit, Answer, GoOn, factorVars, challengeVars, codeVars
<1>10. UNCHANGED vars => SpentStaysSpent'
  BY DEF vars, factorVars, challengeVars, codeVars, callVars
<1>11. QED
  BY <1>1, <1>2, <1>3, <1>4, <1>5, <1>6, <1>7, <1>8, <1>9, <1>10, StepCases

(* The code a recovery consumes was not spent before.                        *)
LEMMA CountedStep == IInv /\ [Next]_vars => Counted'
<1> SUFFICES ASSUME IInv, [Next]_vars PROVE Counted'
  OBVIOUS
<1> USE BoundsAssumption DEF IInv, Counted
<1>1. IssueChallenge => Counted'
  BY DEF IssueChallenge, factorVars, codeVars, callVars
<1>2. Lapse => Counted'
  BY DEF Lapse, factorVars, codeVars, callVars
<1>3. ASSUME NEW c \in Client, BeginCommit(c) PROVE Counted'
  BY <1>3 DEF BeginCommit, Answer, GoOn, challengeVars, codeVars
<1>4. ASSUME NEW c \in Client, ConfirmCommit(c) PROVE Counted'
  BY <1>4 DEF ConfirmCommit, WithNewSet, Answer, GoOn, challengeVars
<1>5. ASSUME NEW c \in Client, CompleteCommit(c) PROVE Counted'
  BY <1>5 DEF CompleteCommit, StillPending, Answer, GoOn, factorVars, codeVars
<1>6. ASSUME NEW c \in Client, RecoverCommit(c) PROVE Counted'
  <2>1. matched[c] \notin spent
    BY <1>6 DEF RecoverCommit, StillUnconsumed, SpentStaysSpent
  <2>2. IsFiniteSet(spent \cup {matched[c]})
        /\ Cardinality(spent \cup {matched[c]}) = Cardinality(spent) + 1
    BY <2>1, FS_AddElement
  <2>3. spent' = spent \cup {matched[c]} /\ recoveries' = recoveries + 1
    BY <1>6 DEF RecoverCommit
  <2>4. QED
    BY <2>2, <2>3
<1>7. ASSUME NEW c \in Client, Prepare(c) PROVE Counted'
  BY <1>7 DEF Prepare, Answer, GoOn, challengeVars
<1>8. ASSUME NEW c \in Client, Looking(c) PROVE Counted'
  BY <1>8 DEF Looking, BeginRead, ConfirmRead, Peek, ReadSecret, ReadCodes, factorVars, challengeVars, codeVars
<1>9. ASSUME NEW c \in Client, Quit(c) PROVE Counted'
  BY <1>9 DEF Quit, Answer, GoOn, factorVars, challengeVars, codeVars
<1>10. UNCHANGED vars => Counted'
  BY DEF vars, factorVars, challengeVars, codeVars, callVars
<1>11. QED
  BY <1>1, <1>2, <1>3, <1>4, <1>5, <1>6, <1>7, <1>8, <1>9, <1>10, StepCases

(* IInv is inductive.                                                        *)
LEMMA Inductive == Spec => []IInv
<1>1. IInv /\ [Next]_vars => IInv'
  BY TypeStep, EnrolledStep, UnsoldStep, SpentStep, CountedStep DEF IInv
<1>2. QED
  BY InitIInv, <1>1, PTL DEF Spec

-----------------------------------------------------------------------------
(* Type correctness of the factor, its codes, challenges and calls.          *)
THEOREM TypeCorrect == Spec => []TypeOK
<1>1. IInv => TypeOK
  BY DEF IInv
<1>2. QED
  BY Inductive, <1>1, PTL

(* However enrollments and recoveries interleave, an enrolled identity holds *)
(* codes and a confirmed factor is an enrolled one (EnrollmentService).      *)
THEOREM EnrolledIdentityHasCodes == Spec => []ConfirmedHasCodes
<1>1. IInv => ConfirmedHasCodes
  BY DEF IInv
<1>2. QED
  BY Inductive, <1>1, PTL

(* However many calls present a challenge at once, consume_challenge() lets  *)
(* one of them mint a session.                                               *)
THEOREM ChallengeBuysOneSession == Spec => []OneSessionPerChallenge
<1>1. IInv => OneSessionPerChallenge
  BY DEF IInv, Unsold, OneSessionPerChallenge
<1>2. QED
  BY Inductive, <1>1, PTL

(* However recoveries race and sets are replaced, consume_backup_code()      *)
(* admits no code twice.                                                     *)
THEOREM RecoveryCostsACode == Spec => []RecoveriesCostCodes
<1>1. IInv => RecoveriesCostCodes
  BY DEF IInv, Counted, RecoveriesCostCodes
<1>2. QED
  BY Inductive, <1>1, PTL

-----------------------------------------------------------------------------
(* AttemptGuard.  The guesses are few because a guess beyond the threshold   *)
(* waits for the lockout of the one before (Spaced).  Codes serve once       *)
(* because what a prompt call leaves is remembered for as long as its code   *)
(* is good (UsesInv).                                                        *)

(* A code a call found good while it is still the step it began in is good   *)
(* in that step.                                                             *)
Verified ==
  \A c \in Caller :
    stage[c] = "claim" /\ ok[c] /\ code[c] \in Totp /\ began[c] = now => code[c] \in now - 1 .. now + 1

\* What a use leaves: a prompt one is remembered until its code has gone out of date.
Remembered(k, u, memory, today) ==
  /\ u[1] <= u[2] /\ u[2] <= today
  /\ u[1] = u[2] => /\ k \in u[2] - 1 .. u[2] + 1
                    /\ today < u[2] + Window => <<k, u[2]>> \in memory

UsesInv ==
  \A k \in Totp : \A i, j \in DOMAIN uses[k] :
    /\ Remembered(k, uses[k][i], recent, now)
    /\ i # j => uses[k][i][1] < uses[k][i][2] \/ uses[k][j][1] < uses[k][j][2]

\* From the threshold on, a guess waits for the lockout of the one before.
Spaced ==
  /\ failed = Len(guesses)
  /\ lockedUntil = IF Exceeds(failed) THEN guesses[failed] + LockFor ELSE 0
  /\ \A i, j \in DOMAIN guesses : Threshold <= i /\ i < j => guesses[i] + LockFor <= guesses[j]

GuardInv == GuardTypeOK /\ Verified /\ UsesInv /\ Spaced

-----------------------------------------------------------------------------
LEMMA InitGuardInv == GuardInit => GuardInv
<1> SUFFICES ASSUME GuardInit PROVE GuardInv
  OBVIOUS
<1> USE GuardAssumption DEF GuardInit, Time
<1>1. GuardTypeOK
  BY DEF GuardTypeOK, Digest, Presented
<1>2. Verified /\ UsesInv
  BY DEF Verified, UsesInv
<1>3. Spaced
  BY DEF Spaced, Exceeds
<1>4. QED
  BY <1>1, <1>2, <1>3 DEF GuardInv

(* A call that answers leaves nothing behind it.                             *)
LEMMA AnswerKeeps ==
  ASSUME GuardTypeOK, Verified, NEW c \in Caller, Done(c), now' = now
  PROVE  /\ stage' \in [Caller -> {"idle", "verify", "claim"}]
         /\ began' \in [Caller -> Time] /\ \A d \in Caller : began'[d] <= now
         /\ code' \in [Caller -> Digest] /\ ok' \in [Caller -> BOOLEAN]
         /\ Verified'
<1> USE GuardAssumption DEF GuardTypeOK, Done
<1>1. 1 \in Time /\ Wrong \in Digest /\ 1 <= now
  BY DEF Time, Digest, Presented
<1>2. Verified'
  BY DEF Verified
<1>3. QED
  BY <1>1, <1>2

(* The histories depend on the guard's memory and the clock alone.           *)
LEMMA GuardKept ==
  ASSUME GuardInv, UNCHANGED <<attemptVars, history>>, now' = now
  PROVE  UsesInv' /\ Spaced'
BY DEF GuardInv, UsesInv, Remembered, Spaced, Exceeds, attemptVars, history

-----------------------------------------------------------------------------
(* Time passes: nobody's transaction begins in the new step yet, and what is *)
(* forgotten is out of date.                                                 *)
LEMMA TickGuardInv == ASSUME GuardInv, Tick PROVE GuardInv'
<1> USE DEF GuardInv, Tick
<1>1. GuardTypeOK'
  BY GuardAssumption DEF GuardTypeOK, Time, attemptVars, callerVars, history
<1>2. Verified'
  BY DEF Verified, GuardTypeOK, Time, callerVars
<1>3. UsesInv'
  <2> SUFFICES ASSUME NEW k \in Totp, NEW i \in DOMAIN uses[k] PROVE Remembered(k, uses[k][i], recent, now')
    BY DEF UsesInv, history, attemptVars
  <2>1. Remembered(k, uses[k][i], recent, now) /\ uses[k][i] \in Time \X Time
    BY DEF UsesInv, GuardTypeOK
  <2>2. QED
    BY <2>1 DEF Remembered, Window, Time, GuardTypeOK, attemptVars, history
<1>4. Spaced'
  BY DEF Spaced, Exceeds, attemptVars, history
<1>5. QED
  BY <1>1, <1>2, <1>3, <1>4

LEMMA BeginGuardInv == ASSUME GuardInv, NEW c \in Caller, Begin(c) PROVE GuardInv'
<1> USE DEF GuardInv, Begin
<1>1. GuardTypeOK'
  BY DEF GuardTypeOK, attemptVars, history, Time
<1>2. Verified'
  BY DEF Verified, GuardTypeOK
<1>3. QED
  BY <1>1, <1>2, GuardKept

LEMMA VerifyGuardInv == ASSUME GuardInv, NEW c \in Caller, NEW k \in Presented, Verify(c, k) PROVE GuardInv'
<1> USE DEF GuardInv, Verify
<1>1. PICK v \in Verdicts(k) : ok' = [ok EXCEPT ![c] = v]
  OBVIOUS
<1>2. v \in BOOLEAN /\ (k \in Totp => v = Valid(k))
  BY <1>1, GuardAssumption DEF Verdicts, Valid
<1>3. GuardTypeOK'
  BY <1>1, <1>2 DEF GuardTypeOK, attemptVars, history, Digest
<1>4. Verified'
  BY <1>1, <1>2 DEF Verified, GuardTypeOK, Valid
<1>5. QED
  BY <1>3, <1>4, GuardKept

(* A refusal under the lockout, and a call that dies.                        *)
LEMMA AnsweredGuardInv ==
  ASSUME GuardInv, NEW c \in Caller, Done(c), UNCHANGED <<now, attemptVars, history>>
  PROVE  GuardInv'
<1>1. GuardTypeOK'
  BY AnswerKeeps DEF GuardInv, GuardTypeOK, attemptVars, history
<1>2. QED
  BY <1>1, AnswerKeeps, GuardKept DEF GuardInv

-----------------------------------------------------------------------------
(* What a claim prunes is out of date, as its transaction has begun already. *)
LEMMA PrunedKeeps ==
  ASSUME GuardInv, NEW c \in Caller, NEW k \in Totp, NEW i \in DOMAIN uses[k],
         uses[k][i][1] = uses[k][i][2], now < uses[k][i][2] + Window
  PROVE  <<k, uses[k][i][2]>> \in Pruned(c)
<1>1. uses[k][i] \in Time \X Time /\ <<k, uses[k][i][2]>> \in recent
  BY DEF GuardInv, UsesInv, Remembered, GuardTypeOK
<1>2. began[c] <= now /\ began[c] \in Time /\ now \in Time
  BY DEF GuardInv, GuardTypeOK
<1>3. QED
  BY <1>1, <1>2, GuardAssumption DEF Pruned, Window, Time

(* A code that is used promptly was not used promptly before: its earlier    *)
(* use would be remembered still.                                            *)
LEMMA AdmitGuardInv == ASSUME GuardInv, NEW c \in Caller, Admit(c) PROVE GuardInv'
<1> USE DEF GuardInv
<1>1. now \in Time /\ began[c] \in Time /\ began[c] <= now /\ code[c] \in Digest /\ recent \subseteq Digest \X Time
  BY DEF GuardTypeOK
<1>2. recent' = Pruned(c) \cup {<<code[c], began[c]>>} /\ now' = now /\ failed' = 0 /\ lockedUntil' = 0 /\ guesses' = <<>>
  BY DEF Admit
<1>3. recent' \subseteq Digest \X Time
  BY <1>1, <1>2 DEF Pruned
<1>4. uses' \in [Totp -> Seq(Time \X Time)]
  BY <1>1 DEF Admit, Used, GuardTypeOK
<1>5. GuardTypeOK'
  BY <1>1, <1>2, <1>3, <1>4, AnswerKeeps, GuardAssumption DEF Admit, GuardTypeOK
<1>6. Verified'
  BY AnswerKeeps DEF Admit
<1>7. Spaced'
  BY <1>2, GuardAssumption DEF Spaced, Exceeds
<1>8. ASSUME NEW k \in Totp, NEW i \in DOMAIN uses[k] PROVE Remembered(k, uses[k][i], recent', now)
  <2>1. Remembered(k, uses[k][i], recent, now)
    BY DEF UsesInv
  <2>2. uses[k][i][1] = uses[k][i][2] /\ now < uses[k][i][2] + Window => <<k, uses[k][i][2]>> \in recent'
    BY <1>2, PrunedKeeps
  <2>3. QED
    BY <2>1, <2>2 DEF Remembered
<1>9. UsesInv'
  <2>1. CASE code[c] \notin Totp
    <3>1. uses' = uses
      BY <2>1 DEF Admit, Used
    <3>2. QED
      BY <1>2, <1>8, <3>1 DEF UsesInv
  <2>2. CASE code[c] \in Totp
    <3> DEFINE k == code[c]
               u == <<began[c], now>>
               n == Len(uses[k])
    <3>1. uses' = [uses EXCEPT ![k] = Append(@, u)] /\ uses[k] \in Seq(Time \X Time)
      BY <2>2 DEF Admit, Used, GuardTypeOK
    <3>2. /\ n \in Nat /\ DOMAIN uses[k] = 1 .. n
          /\ DOMAIN uses'[k] = 1 .. n + 1 /\ uses'[k][n + 1] = u
          /\ \A i \in 1 .. n : uses'[k][i] = uses[k][i]
      BY <2>2, <3>1 DEF GuardTypeOK
    <3>3. Remembered(k, u, recent', now)
      <4>1. stage[c] = "claim" /\ ok[c]
        BY DEF Admit
      <4>2. u[1] = u[2] => k \in now - 1 .. now + 1
        BY <2>2, <4>1 DEF Verified
      <4>3. u[1] = u[2] => <<k, u[2]>> \in recent'
        BY <1>2
      <4>4. u[1] <= u[2] /\ u[2] = now
        BY <1>1
      <4> HIDE DEF u
      <4>5. QED
        BY <1>1, <4>2, <4>3, <4>4 DEF Remembered, Time
    <3>4. ASSUME NEW i \in 1 .. n PROVE uses[k][i][1] < uses[k][i][2] \/ u[1] < u[2]
      <4>1. Remembered(k, uses[k][i], recent, now) /\ uses[k][i] \in Time \X Time
        BY <2>2, <3>2 DEF UsesInv, GuardTypeOK
      <4>2. SUFFICES ASSUME uses[k][i][1] = uses[k][i][2], u[1] = u[2] PROVE FALSE
        BY <1>1, <4>1 DEF Remembered, Time
      <4>3. k \in uses[k][i][2] - 1 .. uses[k][i][2] + 1 /\ k \in now - 1 .. now + 1
        BY <2>2, <3>3, <4>1, <4>2 DEF Remembered
      <4>4. now < uses[k][i][2] + Window
        BY <1>1, <4>1, <4>3, GuardAssumption DEF Window, Time
      <4>5. <<k, uses[k][i][2]>> \in Pruned(c)
        BY <2>2, <3>2, <4>2, <4>4, PrunedKeeps
      <4>6. Replayed(c)
        BY <4>5 DEF Replayed
      <4>7. QED
        BY <4>6 DEF Admit
    <3>5. ASSUME NEW l \in Totp \ {k} PROVE uses'[l] = uses[l]
      BY <3>1 DEF GuardTypeOK
    <3> HIDE DEF k, u, n
    <3>6. ASSUME NEW i \in 1 .. n + 1, NEW j \in 1 .. n + 1
          PROVE  /\ Remembered(k, uses'[k][i], recent', now)
                 /\ i # j => uses'[k][i][1] < uses'[k][i][2] \/ uses'[k][j][1] < uses'[k][j][2]
      <4>1. i \in 1 .. n \/ i = n + 1
        BY <3>2
      <4>2. j \in 1 .. n \/ j = n + 1
        BY <3>2
      <4>3. k \in Totp
        BY <2>2 DEF k
      <4>4. QED
        BY <1>8, <3>2, <3>3, <3>4, <4>1, <4>2, <4>3 DEF UsesInv
    <3>7. ASSUME NEW l \in Totp, NEW i \in DOMAIN uses'[l], NEW j \in DOMAIN uses'[l]
          PROVE  /\ Remembered(l, uses'[l][i], recent', now)
                 /\ i # j => uses'[l][i][1] < uses'[l][i][2] \/ uses'[l][j][1] < uses'[l][j][2]
      <4>1. CASE l = k
        BY <3>2, <3>6, <4>1
      <4>2. CASE l # k
        BY <1>8, <3>5, <4>2 DEF UsesInv
      <4>3. QED
        BY <4>1, <4>2
    <3>8. QED
      BY <1>2, <3>7 DEF UsesInv
  <2>3. QED
    BY <2>1, <2>2
<1>10. QED
  BY <1>5, <1>6, <1>7, <1>9

(* A failure forgets what is out of date and counts; beyond the threshold it *)
(* waited for the lockout of the one before.                                 *)
LEMMA FailGuardInv == ASSUME GuardInv, NEW c \in Caller, Fail(c) PROVE GuardInv'
<1> USE DEF GuardInv
<1>1. now \in Time /\ began[c] \in Time /\ began[c] <= now /\ recent \subseteq Digest \X Time
  BY DEF GuardTypeOK
<1>2. /\ recent' = Pruned(c) /\ now' = now /\ uses' = uses /\ failed' = failed + 1
      /\ lockedUntil' = IF Exceeds(failed + 1) THEN began[c] + LockFor ELSE 0
      /\ guesses' = Append(guesses, began[c]) /\ ~(lockedUntil > began[c])
  BY DEF Fail, LockoutAfter, Locked
<1>3. recent' \subseteq Digest \X Time
  BY <1>1, <1>2 DEF Pruned
<1>4. lockedUntil' \in 0 .. MaxTime + LockFor
  BY <1>1, <1>2, GuardAssumption DEF Time
<1>5. guesses' \in Seq(Time) /\ failed' \in Nat
  BY <1>1, <1>2 DEF GuardTypeOK
<1>6. GuardTypeOK'
  BY <1>1, <1>2, <1>3, <1>4, <1>5, AnswerKeeps DEF Fail, GuardTypeOK
<1>7. Verified'
  BY AnswerKeeps DEF Fail
<1>8. UsesInv'
  <2> SUFFICES ASSUME NEW k \in Totp, NEW i \in DOMAIN uses[k] PROVE Remembered(k, uses[k][i], recent', now)
    BY <1>2 DEF UsesInv
  <2>1. Remembered(k, uses[k][i], recent, now)
    BY DEF UsesInv
  <2>2. uses[k][i][1] = uses[k][i][2] /\ now < uses[k][i][2] + Window => <<k, uses[k][i][2]>> \in recent'
    BY <1>2, PrunedKeeps
  <2>3. QED
    BY <2>1, <2>2 DEF Remembered
<1>9. Spaced'
  <2> DEFINE n == Len(guesses)
  <2>1. /\ n \in Nat /\ failed = n /\ DOMAIN guesses = 1 .. n /\ DOMAIN guesses' = 1 .. n + 1
        /\ guesses'[n + 1] = began[c] /\ \A i \in 1 .. n : guesses'[i] = guesses[i] /\ guesses[i] \in Time
        /\ Len(guesses') = n + 1
    BY <1>1, <1>2 DEF Spaced, GuardTypeOK
  <2> HIDE DEF n
  <2>2. lockedUntil' = IF Exceeds(failed') THEN guesses'[failed'] + LockFor ELSE 0
    BY <1>2, <2>1 DEF Exceeds
  <2>3. ASSUME NEW i \in 1 .. n, Threshold <= i PROVE guesses[i] + LockFor <= began[c]
    <3>1. Exceeds(failed) /\ lockedUntil = guesses[n] + LockFor
      BY <2>1, <2>3, GuardAssumption DEF Exceeds, Spaced
    <3>2. n \in 1 .. n /\ guesses[n] \in Nat /\ guesses[i] \in Nat
      BY <2>1, <2>3 DEF Time
    <3>3. guesses[n] + LockFor <= began[c]
      BY <1>1, <1>2, <3>1, <3>2, GuardAssumption DEF Time
    <3>4. i = n \/ guesses[i] + LockFor <= guesses[n]
      BY <2>1, <2>3, <3>2 DEF Spaced
    <3>5. QED
      BY <1>1, <3>2, <3>3, <3>4, GuardAssumption DEF Time
  <2>4. ASSUME NEW i \in 1 .. n + 1, NEW j \in 1 .. n + 1, Threshold <= i, i < j
        PROVE  guesses'[i] + LockFor <= guesses'[j]
    <3>1. i \in 1 .. n
      BY <2>1, <2>4
    <3>2. CASE j = n + 1
      BY <2>1, <2>3, <2>4, <3>1, <3>2
    <3>3. CASE j \in 1 .. n
      BY <2>1, <2>4, <3>1, <3>3 DEF Spaced
    <3>4. QED
      BY <2>1, <3>2, <3>3
  <2>5. QED
    BY <1>2, <2>1, <2>2, <2>4 DEF Spaced
<1>10. QED
  BY <1>6, <1>7, <1>8, <1>9

-----------------------------------------------------------------------------
(* The secret is replaced, or the factor reset: the histories start again,   *)
(* and a code verified before is none of the new secret's.                   *)
LEMMA ClearedGuardInv == ASSUME GuardInv, Replace \/ Reset PROVE GuardInv'
<1> USE DEF GuardInv
<1>1. /\ failed' = 0 /\ lockedUntil' = 0 /\ recent' = {} /\ uses' = [k \in Totp |-> <<>>] /\ guesses' = <<>>
      /\ UNCHANGED <<now, stage, began, ok>>
  BY DEF Replace, Reset, GuardCleared, callerVars
<1>2. code' = code \/ code' = [c \in Caller |-> IF code[c] \in Totp THEN -code[c] ELSE code[c]]
  BY DEF Replace, Reset, callerVars
<1>3. code' \in [Caller -> Digest] /\ \A c \in Caller : code'[c] \in Totp => code'[c] = code[c]
  <2>1. \A k \in Totp : -k \in Digest /\ -k \notin Totp
    BY GuardAssumption DEF Digest, Stale, Wrong
  <2>2. QED
    BY <1>2, <2>1 DEF GuardTypeOK
<1>4. GuardTypeOK'
  BY <1>1, <1>3, GuardAssumption DEF GuardTypeOK
<1>5. Verified'
  BY <1>1, <1>3 DEF Verified
<1>6. UsesInv' /\ Spaced'
  BY <1>1, GuardAssumption DEF UsesInv, Spaced, Exceeds
<1>7. QED
  BY <1>4, <1>5, <1>6

LEMMA NextGuardInv == GuardInv /\ [GuardNext]_guardVars => GuardInv'
<1> SUFFICES ASSUME GuardInv, [GuardNext]_guardVars PROVE GuardInv'
  OBVIOUS
<1>1. CASE Tick
  BY <1>1, TickGuardInv
<1>2. CASE Replace \/ Reset
  BY <1>2, ClearedGuardInv
<1>3. ASSUME NEW c \in Caller, Begin(c) PROVE GuardInv'
  BY <1>3, BeginGuardInv
<1>4. ASSUME NEW c \in Caller, NEW k \in Presented, Verify(c, k) PROVE GuardInv'
  BY <1>4, VerifyGuardInv
<1>5. ASSUME NEW c \in Caller, ClaimLocked(c) \/ HangUp(c) PROVE GuardInv'
  BY <1>5, AnsweredGuardInv DEF ClaimLocked, HangUp
<1>6. ASSUME NEW c \in Caller, Admit(c) PROVE GuardInv'
  BY <1>6, AdmitGuardInv
<1>7. ASSUME NEW c \in Caller, Fail(c) PROVE GuardInv'
  BY <1>7, FailGuardInv
<1>8. CASE UNCHANGED guardVars
  <2>1. UsesInv' /\ Spaced'
    BY <1>8, GuardKept DEF guardVars
  <2>2. QED
    BY <1>8, <2>1 DEF GuardInv, guardVars, attemptVars, callerVars, history, GuardTypeOK, Verified
<1>9. QED
  BY <1>1, <1>2, <1>3, <1>4, <1>5, <1>6, <1>7, <1>8 DEF GuardNext

LEMMA GuardInvariant == GuardSpec => []GuardInv
BY InitGuardInv, NextGuardInv, PTL DEF GuardSpec

(* The attempt row and the calls on it are well formed, and no call began in *)
(* the future (0039 claim_attempt).                                          *)
THEOREM GuardTypeCorrect == GuardSpec => []GuardTypeOK
<1>1. GuardInv => GuardTypeOK
  BY DEF GuardInv
<1>2. QED
  BY <1>1, GuardInvariant, PTL

-----------------------------------------------------------------------------
(* A window as long as a lockout holds at most one guess from the threshold  *)
(* on, and no more than the threshold less one before it.                    *)
LEMMA SpacedGuessesAreFew == GuardTypeOK /\ Spaced => GuessRateBounded
<1> SUFFICES ASSUME GuardTypeOK, Spaced, NEW t \in Time PROVE Cardinality(GuessesFrom(t)) <= Threshold
  BY DEF GuessRateBounded
<1> USE GuardAssumption
<1> DEFINE early == 1 .. Threshold - 1
           late == {i \in GuessesFrom(t) : Threshold <= i}
<1>1. /\ GuessesFrom(t) \subseteq Nat \ {0}
      /\ \A i \in GuessesFrom(t) : i \in DOMAIN guesses /\ guesses[i] \in Nat /\ guesses[i] \in t .. t + LockFor - 1
  BY DEF GuessesFrom, GuardTypeOK, Time
<1>2. \A i, j \in late : i = j
  <2> SUFFICES ASSUME NEW i \in late, NEW j \in late, i < j PROVE FALSE
    BY <1>1
  <2>1. guesses[i] + LockFor <= guesses[j]
    BY <1>1 DEF Spaced
  <2>2. QED
    BY <1>1, <2>1 DEF Time
<1>3. PICK x : late \subseteq {x}
  BY <1>2
<1>4. GuessesFrom(t) \subseteq early \cup {x}
  BY <1>1, <1>3
<1>5. IsFiniteSet(early) /\ Cardinality(early) = Threshold - 1
  BY FS_Interval
<1>6. IsFiniteSet(early \cup {x}) /\ Cardinality(early \cup {x}) <= Threshold
  <2> HIDE DEF early
  <2>1. /\ IsFiniteSet(early \cup {x})
        /\ Cardinality(early \cup {x}) = IF x \in early THEN Cardinality(early) ELSE Cardinality(early) + 1
    BY <1>5, FS_AddElement
  <2>2. QED
    BY <1>5, <2>1
<1>7. /\ IsFiniteSet(GuessesFrom(t)) /\ Cardinality(GuessesFrom(t)) <= Cardinality(early \cup {x})
      /\ Cardinality(GuessesFrom(t)) \in Nat /\ Cardinality(early \cup {x}) \in Nat
  BY <1>4, <1>6, FS_Subset, FS_CardinalityType
<1>8. QED
  BY <1>6, <1>7

(* No stretch as long as a lockout sees more wrong codes looked at than the  *)
(* threshold allows, whatever calls overlap (0032, claim_attempt).           *)
THEOREM GuessesAreFew == GuardSpec => []GuessRateBounded
<1>1. GuardInv => GuessRateBounded
  BY SpacedGuessesAreFew DEF GuardInv
<1>2. QED
  BY <1>1, GuardInvariant, PTL

(* Two prompt calls never both pass with one code (0032, claim_attempt).     *)
THEOREM CodesServeOnce == GuardSpec => []PromptCallsAcceptOnce
<1>1. GuardInv => PromptCallsAcceptOnce
  BY DEF GuardInv, UsesInv, PromptCallsAcceptOnce
<1>2. QED
  BY <1>1, GuardInvariant, PTL

(* A lockout in force is neither lifted nor prolonged by a call, as every    *)
(* call began before it or during it (0032, claim_attempt).                  *)
THEOREM LockoutsRunTheirTime == GuardSpec => LockoutRunsItsTime
<1> DEFINE Runs == lockedUntil > now => lockedUntil' = lockedUntil \/ Replace \/ Reset
<1>1. GuardInv /\ [GuardNext]_guardVars => Runs
  <2> SUFFICES ASSUME GuardInv, [GuardNext]_guardVars, lockedUntil > now PROVE lockedUntil' = lockedUntil \/ Replace \/ Reset
    OBVIOUS
  <2>1. ASSUME NEW c \in Caller PROVE ~Admit(c) /\ ~Fail(c)
    BY GuardAssumption DEF GuardInv, GuardTypeOK, Time, Admit, Fail, Locked
  <2>2. QED
    BY <2>1 DEF GuardNext, guardVars, Tick, Begin, Verify, ClaimLocked, HangUp, attemptVars
<1>2. QED
  BY <1>1, GuardInvariant, PTL DEF GuardSpec, LockoutRunsItsTime
=============================================================================
