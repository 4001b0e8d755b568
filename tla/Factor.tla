-------------------------------- MODULE Factor --------------------------------
(***************************************************************************)
(* One identity's second factor: enrollment, the pending challenge, backup *)
(* codes and recovery, call against call.                                  *)
(*                                                                         *)
(* Every call reads without a lock and then writes under the identity's    *)
(* identity_factor row, which each of them locks first and holds until it  *)
(* commits: a call is one action per unlocked SELECT and one for what      *)
(* follows the lock.  now() is the transaction's start, so a challenge     *)
(* that was still good when a call peeked is good for the rest of it.      *)
(*                                                                         *)
(* Left out: the credential, which signIn verifies and nothing changes;    *)
(* the enrollment token, which is not stored, so that begin and confirm    *)
(* can be called whenever an identity holds one; when claim_attempt()      *)
(* refuses, which AttemptGuard says.  A refusal that writes nothing but    *)
(* its audit entry is no step.                                             *)
(***************************************************************************)
EXTENDS Naturals, FiniteSets

CONSTANTS Client,       \* concurrent calls
          Position,     \* places of the codes in a set: 1..BACKUP_CODE_COUNT
          MaxSecret,    \* bound: secrets generated
          MaxChallenge, \* bound: challenges issued
          MaxSet        \* bound: code sets issued

ASSUME BoundsAssumption ==
  /\ Position # {} /\ IsFiniteSet(Position)
  /\ MaxSecret \in Nat /\ MaxChallenge \in Nat /\ MaxSet \in Nat

VARIABLES secret,     \* the row's secret by its generation, 0: no row
          confirmed,  \* identity_factor.confirmed_at IS NOT NULL
          enrolled,   \* identity.mfa_enrolled_at IS NOT NULL
          issued,     \* challenges issued so far
          nonce,      \* challenge_nonce_digest: a challenge, 0: NULL
          lapsed,     \* challenge_expires_at is past
          sets,       \* code sets issued so far
          codes,      \* backup_code rows, each <<set_id, position>>
          consumed,   \* the rows with consumed_at set
          spent,      \* history: every code ever consumed
          recoveries, \* history: calls a backup code admitted
          sessionsOf, \* history: sessions minted for each challenge
          pc,         \* pc[c]: what call c does next
          challenge,  \* challenge[c]: the challenge it presents
          read,       \* read[c]: the secret its SELECT returned
          matched     \* matched[c]: the backup code it presents

factorVars == <<secret, confirmed, enrolled>>
challengeVars == <<issued, nonce, lapsed, sessionsOf>>
codeVars == <<sets, codes, consumed, spent, recoveries>>
callVars == <<pc, challenge, read, matched>>
vars == <<factorVars, challengeVars, codeVars, callVars>>

Code == (1..MaxSet) \X Position
NoCode == <<0, 0>>
Phase == {"idle", "begin", "confirm", "peeked", "claim", "recover", "prepare"}

TypeOK ==
  /\ secret \in 0..MaxSecret
  /\ confirmed \in BOOLEAN /\ enrolled \in BOOLEAN
  /\ issued \in 0..MaxChallenge /\ nonce \in 0..issued /\ lapsed \in BOOLEAN
  /\ sets \in 0..MaxSet
  /\ codes \subseteq (1..sets) \X Position /\ consumed \subseteq codes
  /\ spent \subseteq (1..sets) \X Position /\ recoveries \in Nat
  /\ sessionsOf \in [1..MaxChallenge -> Nat]
  /\ pc \in [Client -> Phase]
  /\ challenge \in [Client -> 0..issued]
  /\ read \in [Client -> 0..secret]
  /\ matched \in [Client -> Code \cup {NoCode}]

Init ==
  /\ secret = 0 /\ confirmed = FALSE /\ enrolled = FALSE
  /\ issued = 0 /\ nonce = 0 /\ lapsed = FALSE
  /\ sets = 0 /\ codes = {} /\ consumed = {} /\ spent = {} /\ recoveries = 0
  /\ sessionsOf = [h \in 1..MaxChallenge |-> 0]
  /\ pc = [c \in Client |-> "idle"]
  /\ challenge = [c \in Client |-> 0]
  /\ read = [c \in Client |-> 0]
  /\ matched = [c \in Client |-> NoCode]

\* The transaction is over, its locals gone, and the call goes on at p.
GoOn(c, p) ==
  /\ pc' = [pc EXCEPT ![c] = p]
  /\ challenge' = [challenge EXCEPT ![c] = 0]
  /\ read' = [read EXCEPT ![c] = 0]
  /\ matched' = [matched EXCEPT ![c] = NoCode]

Answer(c) == GoOn(c, "idle")

-----------------------------------------------------------------------------
(* signIn, for an identity the SELECT finds confirmed; issue_challenge()     *)
(* asks again in its UPDATE, so the two are one.  Any other identity is sent *)
(* to enrollment and nothing changes.                                        *)
IssueChallenge ==
  /\ issued < MaxChallenge
  /\ confirmed
  /\ issued' = issued + 1
  /\ nonce' = issued + 1
  /\ lapsed' = FALSE
  /\ UNCHANGED <<factorVars, sessionsOf, codeVars, callVars>>

\* The five minutes pass.
Lapse ==
  /\ nonce # 0 /\ ~lapsed
  /\ lapsed' = TRUE
  /\ UNCHANGED <<factorVars, issued, nonce, sessionsOf, codeVars, callVars>>

-----------------------------------------------------------------------------
(* EnrollmentService.begin refuses an identity it reads as enrolled. *)
BeginRead(c) ==
  /\ pc[c] = "idle" /\ ~confirmed
  /\ pc' = [pc EXCEPT ![c] = "begin"]
  /\ UNCHANGED <<factorVars, challengeVars, codeVars, challenge, read, matched>>

\* The upsert writes a fresh secret and clears confirmed_at, whatever it was.
BeginCommit(c) ==
  /\ pc[c] = "begin"
  /\ secret < MaxSecret
  /\ secret' = secret + 1
  /\ confirmed' = FALSE
  /\ Answer(c)
  /\ UNCHANGED <<enrolled, challengeVars, codeVars>>

\* EnrollmentService.confirm, given a code of the secret it reads.
ConfirmRead(c) ==
  /\ pc[c] = "idle" /\ secret # 0 /\ ~confirmed
  /\ pc' = [pc EXCEPT ![c] = "confirm"]
  /\ read' = [read EXCEPT ![c] = secret]
  /\ UNCHANGED <<factorVars, challengeVars, codeVars, challenge, matched>>

\* Mutant: the codes are issued in a transaction of their own, afterwards.
CodesAfterwards == codes

\* Mutant: the codes go under the set_id of the set before.
UnderOldSet == codes \cup {<<sets, i>> : i \in Position}

\* The codes there are once a set has been inserted beside what there was.
WithNewSet == codes \cup {<<sets + 1, i>> : i \in Position}

\* Both facts, the codes and a session (SessionFamily), in one transaction.
ConfirmCommit(c) ==
  /\ pc[c] = "confirm"
  /\ sets < MaxSet
  /\ confirmed' = TRUE
  /\ enrolled' = TRUE
  /\ sets' = sets + 1
  /\ codes' = WithNewSet
  /\ Answer(c)
  /\ UNCHANGED <<secret, challengeVars, consumed, spent, recoveries>>

-----------------------------------------------------------------------------
(* peek_challenge(), the first statement of completeChallenge and of         *)
(* satisfyWithBackupCode.                                                    *)
Peek(c) ==
  /\ pc[c] = "idle" /\ nonce # 0 /\ ~lapsed
  /\ pc' = [pc EXCEPT ![c] = "peeked"]
  /\ challenge' = [challenge EXCEPT ![c] = nonce]
  /\ UNCHANGED <<factorVars, challengeVars, codeVars, read, matched>>

\* completeChallenge reads the secret and verifies a code of it.
ReadSecret(c) ==
  /\ pc[c] = "peeked"
  /\ pc' = [pc EXCEPT ![c] = "claim"]
  /\ read' = [read EXCEPT ![c] = secret]
  /\ UNCHANGED <<factorVars, challengeVars, codeVars, challenge, matched>>

\* The code is wrong, claim_attempt() does not admit it, or the challenge or the
\* backup code was spent meanwhile.  Neither call touches the challenge then.
Refused(c) ==
  /\ pc[c] \in {"peeked", "claim", "recover"}
  /\ Answer(c)
  /\ UNCHANGED <<factorVars, challengeVars, codeVars>>

\* Mutant: the token is not compared again once the row is locked.
AnyChallenge(c) == TRUE

\* consume_challenge()'s WHERE.
StillPending(c) == nonce = challenge[c]

\* claim_attempt() admits, consume_challenge() clears, mintSession mints.
CompleteCommit(c) ==
  /\ pc[c] = "claim"
  /\ StillPending(c)
  /\ nonce' = 0
  /\ sessionsOf' = [sessionsOf EXCEPT ![challenge[c]] = @ + 1]
  /\ Answer(c)
  /\ UNCHANGED <<factorVars, issued, lapsed, codeVars>>

-----------------------------------------------------------------------------
(* satisfyWithBackupCode: one of the codes its SELECT returned matches.      *)
ReadCodes(c) ==
  /\ pc[c] = "peeked"
  /\ \E k \in codes \ consumed : matched' = [matched EXCEPT ![c] = k]
  /\ pc' = [pc EXCEPT ![c] = "recover"]
  /\ UNCHANGED <<factorVars, challengeVars, codeVars, challenge, read>>

\* Mutant: consume_backup_code() does not look at consumed_at.
AnyCode(c) == TRUE

\* consume_backup_code()'s WHERE.
StillUnconsumed(c) == matched[c] \in codes \ consumed

\* claim_attempt() admits, the code is consumed and the challenge, if it is
\* still the pending one, cleared; the controller goes on to the next call.
RecoverCommit(c) ==
  /\ pc[c] = "recover"
  /\ StillUnconsumed(c)
  /\ consumed' = consumed \cup (codes \cap {matched[c]})
  /\ spent' = spent \cup {matched[c]}
  /\ recoveries' = recoveries + 1
  /\ nonce' = IF nonce = challenge[c] THEN 0 ELSE nonce
  /\ GoOn(c, "prepare")
  /\ UNCHANGED <<factorVars, issued, lapsed, sessionsOf, sets, codes>>

\* prepareReenrollment, a transaction of its own in the same request; it also
\* ends every session (RevokeAllSessions of SessionFamily).
Prepare(c) ==
  /\ pc[c] = "prepare"
  /\ confirmed' = FALSE
  /\ enrolled' = FALSE
  /\ codes' = {}
  /\ consumed' = {}
  /\ Answer(c)
  /\ UNCHANGED <<secret, challengeVars, sets, spent, recoveries>>

\* The connection or the process dies, before a commit or between the two
\* transactions of a recovery.
Abort(c) ==
  /\ pc[c] # "idle"
  /\ Answer(c)
  /\ UNCHANGED <<factorVars, challengeVars, codeVars>>

Enrollment(c) == BeginRead(c) \/ BeginCommit(c) \/ ConfirmRead(c) \/ ConfirmCommit(c)
SecondStep(c) == Peek(c) \/ ReadSecret(c) \/ CompleteCommit(c) \/ Refused(c)
Recovery(c) == ReadCodes(c) \/ RecoverCommit(c) \/ Prepare(c)

Next ==
  \/ IssueChallenge \/ Lapse
  \/ \E c \in Client : Enrollment(c) \/ SecondStep(c) \/ Recovery(c) \/ Abort(c)

Spec == Init /\ [][Next]_vars

-----------------------------------------------------------------------------
(* Whoever counts as enrolled holds a code set, and a confirmed factor never *)
(* goes without the other two, in whatever order enrollments and recoveries  *)
(* commit (enrollment.service.ts: "There is no state in which a confirmed    *)
(* factor exists and no codes do").                                          *)
ConfirmedHasCodes ==
  /\ confirmed => enrolled
  /\ enrolled => codes # {}

(* However many calls present one challenge at once, it buys one session     *)
(* (0038: "two simultaneous presentations of one token").                    *)
OneSessionPerChallenge == \A h \in 1..MaxChallenge : sessionsOf[h] <= 1

(* Every recovery cost a code of its own: no code admits twice, not even one *)
(* whose set was replaced while the call was on its way (FR-026, FR-028).    *)
RecoveriesCostCodes == recoveries = Cardinality(spent)

(* enrollment.service.ts: "THE TWO MUST NOT DIVERGE".                        *)
EnrolledIffConfirmed == enrolled <=> confirmed

(* 0032: "An unconfirmed row never satisfies a challenge (FR-010)".  The     *)
(* code does not keep this between the two transactions of a recovery.       *)
UnconfirmedSatisfiesNothing ==
  [][\A h \in 1..MaxChallenge : sessionsOf'[h] # sessionsOf[h] => confirmed]_vars
=============================================================================
