----------------------------- MODULE AttemptGuard -----------------------------
(***************************************************************************)
(* claim_attempt(): the lockout, and the guard that a one-time code is not *)
(* accepted again within its window, under calls that overlap in time.     *)
(* completeChallenge and satisfyWithBackupCode share it (FR-021).          *)
(*                                                                         *)
(* Time is counted in TOTP steps of STEP_SECONDS.  The code of step k is   *)
(* good in the steps k - 1, k and k + 1 (verifyCode).  A call's now() is   *)
(* the step its transaction began in; it verifies its code later, by the   *)
(* application's clock, and claims the attempt later still, when the       *)
(* identity_factor row's lock is granted.                                  *)
(***************************************************************************)
EXTENDS Integers, Sequences, FiniteSets

CONSTANTS Caller,    \* concurrent calls for the identity
          Totp,      \* codes of the current secret, each named by its step
          Backup,    \* backup codes, numbers of their own
          Threshold, \* v_threshold
          LockFor,   \* v_lockout_minutes, in steps
          MaxTime    \* bound: the last step

Window == 3          \* interval '90 seconds' = WINDOW_SECONDS, in steps
Wrong == 0           \* any other string
Stale == {-k : k \in Totp}  \* codes of a secret that has been replaced
Presented == Totp \cup Backup \cup {Wrong}
Digest == Presented \cup Stale

ASSUME GuardAssumption ==
  /\ Totp \cup Backup \subseteq Nat \ {Wrong} /\ Totp \cap Backup = {}
  /\ Threshold \in Nat \ {0} /\ LockFor \in Nat \ {0} /\ MaxTime \in Nat \ {0}

VARIABLES now,         \* the current step
          failed,      \* failed_attempt_count
          lockedUntil, \* locked_until, 0: NULL
          recent,      \* recent_code_digests, each <<code, v_now>>
          stage,       \* stage[c]: what call c does next
          began,       \* began[c]: its transaction's now()
          code,        \* code[c]: the code presented
          ok,          \* ok[c]: verifyCode's answer
          uses,        \* history: uses[k]: the calls admitted with k since a reset
          guesses      \* history: v_now of each failure that was looked at, since the
                       \* last admission or reset

attemptVars == <<failed, lockedUntil, recent>>
callerVars == <<stage, began, code, ok>>
history == <<uses, guesses>>
guardVars == <<now, attemptVars, callerVars, history>>

Time == 1..MaxTime

GuardTypeOK ==
  /\ now \in Time
  /\ failed \in Nat
  /\ lockedUntil \in 0..(MaxTime + LockFor)
  /\ recent \subseteq Digest \X Time
  /\ stage \in [Caller -> {"idle", "verify", "claim"}]
  /\ began \in [Caller -> Time] /\ \A c \in Caller : began[c] <= now
  /\ code \in [Caller -> Digest]
  /\ ok \in [Caller -> BOOLEAN]
  /\ uses \in [Totp -> Seq(Time \X Time)]
  /\ guesses \in Seq(Time)

GuardInit ==
  /\ now = 1
  /\ failed = 0 /\ lockedUntil = 0 /\ recent = {}
  /\ stage = [c \in Caller |-> "idle"]
  /\ began = [c \in Caller |-> 1]
  /\ code = [c \in Caller |-> Wrong]
  /\ ok = [c \in Caller |-> FALSE]
  /\ uses = [k \in Totp |-> <<>>]
  /\ guesses = <<>>

Done(c) ==
  /\ stage' = [stage EXCEPT ![c] = "idle"]
  /\ began' = [began EXCEPT ![c] = 1]
  /\ code' = [code EXCEPT ![c] = Wrong]
  /\ ok' = [ok EXCEPT ![c] = FALSE]

-----------------------------------------------------------------------------
Tick ==
  /\ now < MaxTime
  /\ now' = now + 1
  /\ UNCHANGED <<attemptVars, callerVars, history>>

\* The transaction begins with peek_challenge().
Begin(c) ==
  /\ stage[c] = "idle"
  /\ stage' = [stage EXCEPT ![c] = "verify"]
  /\ began' = [began EXCEPT ![c] = now]
  /\ UNCHANGED <<now, attemptVars, code, ok, history>>

\* verifyCode, with one step of tolerance either side.
Valid(k) == k \in Totp /\ k \in now - 1 .. now + 1

\* completeChallenge asks verifyCode; satisfyWithBackupCode asks verifyAgainstSet,
\* which knows a backup code until it has been consumed.
Verdicts(k) == IF k \in Backup THEN BOOLEAN ELSE {Valid(k)}

Verify(c, k) ==
  /\ stage[c] = "verify"
  /\ stage' = [stage EXCEPT ![c] = "claim"]
  /\ code' = [code EXCEPT ![c] = k]
  /\ \E v \in Verdicts(k) : ok' = [ok EXCEPT ![c] = v]
  /\ UNCHANGED <<now, attemptVars, began, history>>

-----------------------------------------------------------------------------
\* Mutant: signIn's look at the lockout is relied on.
NotLocked(c) == FALSE

Locked(c) == lockedUntil > began[c]

\* The lockout refuses, writing nothing.
ClaimLocked(c) ==
  /\ stage[c] = "claim" /\ Locked(c)
  /\ Done(c)
  /\ UNCHANGED <<now, attemptVars, history>>

\* Mutant: the guard remembers for the code's own step.
CurrentStepOnly(c) == {e \in recent : e[2] > began[c] - 1}

\* v_pruned.
Pruned(c) == {e \in recent : e[2] > began[c] - Window}

Replayed(c) == \E e \in Pruned(c) : e[1] = code[c]

\* The history Admit leaves: the step the call began in and the current one.
Used(c) ==
  IF code[c] \in Totp THEN [uses EXCEPT ![code[c]] = Append(@, <<began[c], now>>)]
  ELSE uses

\* A code that is good and was not used: the counter starts again.
Admit(c) ==
  /\ stage[c] = "claim" /\ ~Locked(c)
  /\ ok[c] /\ ~Replayed(c)
  /\ failed' = 0
  /\ lockedUntil' = 0
  /\ recent' = Pruned(c) \cup {<<code[c], began[c]>>}
  /\ uses' = Used(c)
  /\ guesses' = <<>>
  /\ Done(c)
  /\ UNCHANGED now

\* Mutant: the lockout is set when the threshold is met, not beyond it.
AtThreshold(n) == n = Threshold

Exceeds(n) == n >= Threshold

\* Mutant: the sign is wrong.
LockoutBefore(c) == began[c] - LockFor

LockoutAfter(c) == began[c] + LockFor

\* Every other outcome is a failure and counts.  After a lockout has expired
\* the count goes on from where it was.
Fail(c) ==
  /\ stage[c] = "claim" /\ ~Locked(c)
  /\ ~ok[c] \/ Replayed(c)
  /\ failed' = failed + 1
  /\ lockedUntil' = IF Exceeds(failed + 1) THEN LockoutAfter(c) ELSE 0
  /\ recent' = Pruned(c)
  /\ guesses' = Append(guesses, began[c])
  /\ Done(c)
  /\ UNCHANGED <<now, uses>>

\* The counter, the lockout, the guard and the histories start again.
GuardCleared ==
  /\ failed' = 0 /\ lockedUntil' = 0 /\ recent' = {}
  /\ uses' = [k \in Totp |-> <<>>]
  /\ guesses' = <<>>

\* BeginCommit of Factor: a code verified before is none of the new secret's.
Replace ==
  /\ GuardCleared
  /\ code' = [c \in Caller |-> IF code[c] \in Totp THEN -code[c] ELSE code[c]]
  /\ UNCHANGED <<now, stage, began, ok>>

\* Prepare of Factor: the secret stays until an enrollment begins.
Reset ==
  /\ GuardCleared
  /\ UNCHANGED <<now, callerVars>>

HangUp(c) ==
  /\ stage[c] # "idle"
  /\ Done(c)
  /\ UNCHANGED <<now, attemptVars, history>>

GuardNext ==
  \/ Tick \/ Replace \/ Reset
  \/ \E c \in Caller :
       \/ Begin(c) \/ ClaimLocked(c) \/ Admit(c) \/ Fail(c) \/ HangUp(c)
       \/ \E k \in Presented : Verify(c, k)

GuardSpec == GuardInit /\ [][GuardNext]_guardVars

-----------------------------------------------------------------------------
\* The guesses with v_now in the LockFor steps from t on.
GuessesFrom(t) == {i \in DOMAIN guesses : guesses[i] \in t .. t + LockFor - 1}

(* However many calls guess at once, and however often a lockout expires, no *)
(* stretch as long as a lockout sees more wrong codes looked at than the     *)
(* threshold allows (FR-021).                                                *)
GuessRateBounded == \A t \in Time : Cardinality(GuessesFrom(t)) <= Threshold

(* A lockout in force is neither lifted nor prolonged by any call, also not  *)
(* by one that began before it (FR-055): it ends by itself or with the       *)
(* factor.                                                                   *)
LockoutRunsItsTime ==
  [][lockedUntil > now => lockedUntil' = lockedUntil \/ Replace \/ Reset]_guardVars

(* A code is accepted once between two resets of the factor (FR-020), unless *)
(* one of the calls it served began in an earlier step than it was admitted. *)
PromptCallsAcceptOnce ==
  \A k \in Totp : \A i, j \in DOMAIN uses[k] :
    i # j => \E m \in {i, j} : uses[k][m][1] < uses[k][m][2]

(* 0032: "A successfully used code MUST NOT be accepted again anywhere       *)
(* within the full acceptance window of FR-056".  The code does not keep     *)
(* this: see PromptCallsAcceptOnce for what it does keep.                    *)
CodeAcceptedOnce == \A k \in Totp : Len(uses[k]) <= 1
=============================================================================
