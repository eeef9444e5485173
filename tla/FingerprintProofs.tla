-------------------------- MODULE FingerprintProofs --------------------------
(***************************************************************************)
(* Proofs about the two models of the fingerprint engine: first its        *)
(* lockout, then its operations.                                           *)
(***************************************************************************)
EXTENDS FingerprintLockout, FingerprintSession, SequenceTheorems, TLAPS

-----------------------------------------------------------------------------
(***************************************************************************)
(* Proofs about FingerprintLockout, for every threshold, duration, bound   *)
(* and set of freedoms.                                                    *)
(*                                                                         *)
(* ToldIsMode and AttemptLeft are not inductive: getMode ends a timed      *)
(* lockout silently and keeps its count, which is harmless only because an *)
(* authentication that runs was started outside a lockout and nothing can  *)
(* begin one behind its back.  That is what Unlocked adds.  LockoutLasts   *)
(* and the count of the permanent lockout need to know what a timer is     *)
(* there for: TimerInv.                                                    *)
(***************************************************************************)
Respectful == world \cap {"insists", "dirtyHeap"} = {}

(* While an authentication runs the framework has not been told of a       *)
(* lockout.                                                                *)
Unlocked == Respectful /\ worker = "authenticating" => told = "none"

(* Outside a lockout the count of the current round is below its           *)
(* threshold.                                                              *)
TimedCountLow ==
    Respectful /\ mCurrentMode = "none" => mFailedCountTimed < TimedThreshold

(* The part of the invariant about the flags ...                           *)
FlagInv ==
    /\ isLockoutTimerStarted \in BOOLEAN
    /\ isLockoutTimerAborted \in BOOLEAN
    /\ mCb \in BOOLEAN
    /\ late \in BOOLEAN
    /\ aborted \in BOOLEAN
    /\ timer \in {"none", "sleeping", "clearing", "leaving"}
    /\ OneTimer

(* ... and the part about the tracker, the worker and the framework.       *)
LockInv ==
    /\ world \subseteq MayBe
    /\ mFailedCount \in Nat
    /\ mFailedCountTimed \in 0..mFailedCount
    /\ mCurrentMode \in Modes
    /\ elapsed \in 0..Duration
    /\ worker \in {"idle", "authenticating", "joining", "resetting", "aborting"}
    /\ left \in 0..Duration
    /\ told \in {"none", "timed", "permanent"}
    /\ ToldIsMode
    /\ Unlocked
    /\ TimedCountLow

(* Nobody but a timer ends a lockout.                                      *)
TimerEnds == Respectful /\ "resets" \notin world

(* A timer that may still clear does so for the lockout in force, and is   *)
(* not done before it; short of a permanent lockout an attempt is left.    *)
TimerInv ==
    TimerEnds =>
        /\ timer \in {"sleeping", "clearing"} => told = "timed"
        /\ timer = "sleeping" => left + elapsed = Duration
        /\ timer = "clearing" => elapsed = Duration
        /\ mCurrentMode # "permanent" => mFailedCount < PermanentThreshold

LockoutInv == FlagInv /\ LockInv /\ TimerInv

-----------------------------------------------------------------------------
LEMMA InitFlags == LockoutInit => FlagInv
  BY Zenon DEF LockoutInit, FlagInv, OneTimer

LEMMA InitLock == LockoutInit => LockInv
<1> SUFFICES ASSUME LockoutInit PROVE LockInv
  OBVIOUS
<1>1. /\ world \in SUBSET MayBe
      /\ mFailedCount = 0 /\ mFailedCountTimed = 0
      /\ worker = "idle" /\ left = 0 /\ told = "none"
  BY DEF LockoutInit
<1>2. \/ mCurrentMode = "none" /\ elapsed = 0
      \/ "dirtyHeap" \in world /\ mCurrentMode \in Modes /\ elapsed \in 0..Duration
  BY Zenon DEF LockoutInit
<1> QED BY <1>1, <1>2, LockoutAssumption, SMT DEF LockInv, ToldIsMode, Unlocked, TimedCountLow,
    Respectful, Modes

(* Every step keeps the flags.  Only EnterLockout and TimerResetsStarted   *)
(* change the started flag, and both change the thread with it.            *)
LEMMA NextFlags == ASSUME FlagInv, [LockoutNext]_lockoutVars PROVE FlagInv'
<1> USE DEF FlagInv, OneTimer, Alive
<1>1. CASE AuthenticateBegin BY <1>1, Zenon DEF AuthenticateBegin, flags, thread
<1>2. CASE AuthenticateSucceeded BY <1>2, Zenon DEF AuthenticateSucceeded, flags, thread
<1>3. CASE AuthenticateFailed
  <2>1. CASE EnterLockout(ModeAfterAttempt)
    <3>0. UNCHANGED <<world, mCb, aborted>> BY <1>3 DEF AuthenticateFailed
    <3>1. CASE UNCHANGED <<isLockoutTimerStarted, thread>> /\ isLockoutTimerAborted' = TRUE
      BY <3>0, <3>1, Zenon DEF thread
    <3>2. CASE UNCHANGED <<flags, thread>> BY <3>0, <3>2, Zenon DEF flags, thread
    <3>3. CASE /\ isLockoutTimerStarted' = TRUE /\ timer' = "sleeping"
               /\ UNCHANGED <<isLockoutTimerAborted, late>>
      BY <3>0, <3>3, Zenon
    <3> QED BY <2>1, <3>1, <3>2, <3>3, Zenon DEF EnterLockout
  <2>2. CASE UNCHANGED <<told, worker, flags, thread>>
    BY <1>3, <2>2, Zenon DEF AuthenticateFailed, flags, thread
  <2> QED BY <1>3, <2>1, <2>2, Zenon DEF AuthenticateFailed
<1>4. CASE AuthenticateEnded BY <1>4, Zenon DEF AuthenticateEnded, flags, thread
<1>5. CASE AuthenticateLeft BY <1>5, Zenon DEF AuthenticateLeft, flags, thread
<1>6. CASE ResetLockout BY <1>6, Zenon DEF ResetLockout, clearLockout, flags, thread
<1>7. CASE ResetLockoutLook BY <1>7, Zenon DEF ResetLockoutLook, flags, thread
<1>8. CASE ResetLockoutAbort BY <1>8, Zenon DEF ResetLockoutAbort, thread
<1>9. CASE TimerExpired BY <1>9, Zenon DEF TimerExpired, flags
<1>10. CASE TimerClear BY <1>10, Zenon DEF TimerClear, clearLockout, flags
<1>11. CASE TimerResetsStarted BY <1>11, Zenon DEF TimerResetsStarted
<1>12. CASE TimerResetsAborted BY <1>12, Zenon DEF TimerResetsAborted
<1>13. ASSUME NEW cb \in BOOLEAN, CallbackChanges(cb) PROVE FlagInv'
  BY <1>13, Zenon DEF CallbackChanges, flags, thread
<1>14. CASE Tick BY <1>14, Zenon DEF Tick, flags
<1>15. CASE UNCHANGED lockoutVars BY <1>15, Zenon DEF lockoutVars, flags, thread
<1> QED BY <1>1, <1>2, <1>3, <1>4, <1>5, <1>6, <1>7, <1>8, <1>9, <1>10, <1>11, <1>12, <1>13,
    <1>14, <1>15, Zenon DEF LockoutNext, WorkerStep, TimerStep

-----------------------------------------------------------------------------
(* Steps that leave tracker, worker and framework alone, or only move the  *)
(* worker where no lockout was told.                                       *)
LEMMA LockUntouched ==
    ASSUME LockInv, UNCHANGED <<world, tracker, left, told>>,
           worker' \in {"idle", "authenticating", "joining", "resetting", "aborting"},
           worker' = "authenticating" =>
               worker = worker' \/ told = "none" \/ "insists" \in world
    PROVE  LockInv'
  BY SMT DEF LockInv, ToldIsMode, Unlocked, TimedCountLow, Respectful, tracker

(* clearLockout leaves a clean tracker and a framework that was told, or a *)
(* dead service and nothing changed.                                       *)
LEMMA LockCleared ==
    ASSUME LockInv, NEW b \in BOOLEAN, clearLockout(b), UNCHANGED <<world, left>>,
           worker' \in {"idle", "joining", "resetting", "aborting"}
    PROVE  LockInv'
<1>1. CASE reset(b) /\ told' = "none"
  <2>1. /\ mFailedCount' \in {mFailedCount, 0}
        /\ mFailedCountTimed' = 0 /\ mCurrentMode' = "none" /\ elapsed' = 0
    BY <1>1, Zenon DEF reset
  <2> QED BY <1>1, <2>1, LockoutAssumption, SMT DEF LockInv, ToldIsMode, Unlocked,
      TimedCountLow, Respectful, Modes
<1>2. CASE UNCHANGED <<tracker, told>>
  BY <1>2, SMT DEF LockInv, ToldIsMode, Unlocked, TimedCountLow, Respectful, tracker
<1> QED BY <1>1, <1>2, Zenon DEF clearLockout

(* A failed attempt that ends in a lockout                                 *)
LEMMA LockEntered ==
    ASSUME LockInv, addFailedAttempt, UNCHANGED world,
           ModeAfterAttempt \in {"timed", "permanent"}, EnterLockout(ModeAfterAttempt)
    PROVE  LockInv'
<1>1. /\ told' = ModeAfterAttempt /\ worker' = "joining"
      /\ left' \in {left, getLockoutTimeLeft}
  BY Zenon DEF EnterLockout, thread
<1>2. getLockoutTimeLeft \in 0..Duration
  BY LockoutAssumption, SMT DEF getLockoutTimeLeft, ElapsedAfterAttempt, LockInv
<1> QED BY <1>1, <1>2, LockoutAssumption, SMT DEF addFailedAttempt, ElapsedAfterAttempt,
    LockInv, ToldIsMode, Unlocked, TimedCountLow, Respectful, Modes

(* One that does not: a framework that respects lockouts is in none, so    *)
(* the count is not at its threshold yet.                                  *)
LEMMA LockNotYet ==
    ASSUME LockInv, worker = "authenticating", addFailedAttempt,
           ModeAfterAttempt \notin {"timed", "permanent"},
           UNCHANGED <<world, told, worker, left>>
    PROVE  LockInv'
<1>1. Respectful => /\ mCurrentMode = "none" /\ told = "none"
                    /\ ModeAfterAttempt = "none"
                    /\ mFailedCountTimed + 1 < TimedThreshold
  BY LockoutAssumption, SMT DEF LockInv, Unlocked, ToldIsMode, Respectful, ModeAfterAttempt
<1>2. ModeAfterAttempt \in Modes /\ ElapsedAfterAttempt \in 0..Duration
  BY LockoutAssumption, SMT DEF LockInv, Modes, ModeAfterAttempt, ElapsedAfterAttempt
<1>3. Respectful' => Respectful BY DEF Respectful
<1> QED BY <1>1, <1>2, <1>3, SMT DEF addFailedAttempt, LockInv, ToldIsMode, Unlocked,
    TimedCountLow, Respectful

LEMMA NextLock == ASSUME LockInv, [LockoutNext]_lockoutVars PROVE LockInv'
<1> DEFINE Places == {"idle", "authenticating", "joining", "resetting", "aborting"}
<1>0. worker \in Places BY DEF LockInv
<1>1. CASE AuthenticateBegin
  <2>1. /\ UNCHANGED <<world, tracker, left, told>>
        /\ worker' \in {"authenticating", worker}
        /\ worker' = "authenticating" =>
              worker = worker' \/ told = "none" \/ "insists" \in world
    BY <1>1, Zenon DEF AuthenticateBegin, Alive, thread
  <2> QED BY <2>1, <1>0, LockUntouched
<1>2. CASE AuthenticateSucceeded
  <2>1. /\ mFailedCount' \in {mFailedCount, 0}
        /\ mFailedCountTimed' = 0 /\ mCurrentMode' = "none" /\ elapsed' = 0
        /\ UNCHANGED <<world, left, told>>
        /\ worker = "authenticating" /\ worker' = "joining"
    BY <1>2, Zenon DEF AuthenticateSucceeded, reset, Alive, thread
  <2> QED BY <2>1, LockoutAssumption, SMT DEF LockInv, ToldIsMode, Unlocked, TimedCountLow,
      Respectful, Modes
<1>3. CASE AuthenticateFailed
  <2>1. CASE ModeAfterAttempt \in {"timed", "permanent"}
    BY <1>3, <2>1, LockEntered, Zenon DEF AuthenticateFailed, Alive
  <2>2. CASE ModeAfterAttempt \notin {"timed", "permanent"}
    BY <1>3, <2>2, LockNotYet, Zenon DEF AuthenticateFailed, Alive, thread
  <2> QED BY <2>1, <2>2
<1>4. CASE AuthenticateEnded BY <1>4, LockUntouched, Zenon DEF AuthenticateEnded, Alive, thread
<1>5. CASE AuthenticateLeft BY <1>5, LockUntouched, Zenon DEF AuthenticateLeft, Alive, thread
<1>6. CASE ResetLockout BY <1>6, LockCleared, Zenon DEF ResetLockout, Alive, thread
<1>7. CASE ResetLockoutLook
  <2>1. UNCHANGED <<world, tracker, left, told>> /\ worker' \in {"aborting", "idle"}
    BY <1>7, Zenon DEF ResetLockoutLook, Alive, thread
  <2> QED BY <2>1, LockUntouched
<1>8. CASE ResetLockoutAbort BY <1>8, LockUntouched, Zenon DEF ResetLockoutAbort, Alive, thread
<1>9. CASE TimerExpired BY <1>9, <1>0, LockUntouched, Zenon DEF TimerExpired, Alive
<1>10. CASE TimerClear
  <2>1. /\ clearLockout(TRUE) /\ UNCHANGED <<world, left>>
        /\ worker' \in Places \ {"authenticating"}
    BY <1>10, <1>0, Zenon DEF TimerClear, MutexFree, Alive
  <2> QED BY <2>1, LockCleared
<1>11. CASE TimerResetsStarted
  BY <1>11, <1>0, LockUntouched, Zenon DEF TimerResetsStarted, Alive
<1>12. CASE TimerResetsAborted
  BY <1>12, <1>0, LockUntouched, Zenon DEF TimerResetsAborted, Alive
<1>13. ASSUME NEW cb \in BOOLEAN, CallbackChanges(cb) PROVE LockInv'
  BY <1>13, <1>0, LockUntouched, Zenon DEF CallbackChanges, Alive, thread
<1>14. CASE Tick
  <2>1. /\ elapsed' = IF mCurrentMode = "timed" /\ elapsed < Duration
                      THEN elapsed + 1 ELSE elapsed
        /\ left' = left \/ (left > 0 /\ left' = left - 1)
        /\ UNCHANGED <<world, mFailedCount, mFailedCountTimed, mCurrentMode, worker, told>>
    BY <1>14, Zenon DEF Tick, Alive
  <2> QED BY <2>1, LockoutAssumption, SMT DEF LockInv, ToldIsMode, Unlocked, TimedCountLow,
      Respectful
<1>15. CASE UNCHANGED lockoutVars BY <1>15, <1>0, LockUntouched, Zenon DEF lockoutVars, thread
<1> QED BY <1>1, <1>2, <1>3, <1>4, <1>5, <1>6, <1>7, <1>8, <1>9, <1>10, <1>11, <1>12, <1>13,
    <1>14, <1>15, Zenon DEF LockoutNext, WorkerStep, TimerStep

-----------------------------------------------------------------------------
LEMMA InitTimer == LockoutInit => TimerInv
<1> SUFFICES ASSUME LockoutInit, Respectful PROVE TimerInv BY DEF TimerInv, TimerEnds
<1>1. mFailedCount = 0 /\ timer = "none" BY DEF LockoutInit
<1> QED BY <1>1, LockoutAssumption, SMT DEF TimerInv

(* Steps that leave tracker, timer and framework alone, or end the timer   *)
LEMMA TimerUntouched ==
    ASSUME TimerInv, UNCHANGED <<world, tracker, left, told>>,
           timer' = timer \/ timer' \notin {"sleeping", "clearing"}
    PROVE  TimerInv'
BY DEF TimerInv, TimerEnds, Respectful, tracker

(* An authentication runs only where no lockout was told, so no timer that *)
(* may still clear does.                                                   *)
LEMMA NoTimer ==
    ASSUME LockInv, TimerInv, TimerEnds, worker = "authenticating"
    PROVE  timer \notin {"sleeping", "clearing"} /\ told = "none" /\ mCurrentMode = "none"
BY DEF LockInv, TimerInv, TimerEnds, Unlocked, ToldIsMode, Respectful

(* A timer that is started sleeps for what is left of the lockout.         *)
LEMMA TimerStarted ==
    ASSUME LockInv, TimerInv, AuthenticateFailed
    PROVE  TimerInv'
<1> SUFFICES ASSUME TimerEnds PROVE TimerInv'
  BY DEF AuthenticateFailed, Alive, TimerInv, TimerEnds, Respectful
<1>1. /\ timer \notin {"sleeping", "clearing"} /\ mCurrentMode = "none"
      /\ mFailedCount \in Nat /\ elapsed \in 0..Duration
  BY NoTimer DEF AuthenticateFailed, LockInv
<1>2. mFailedCount' = mFailedCount + 1 /\ mCurrentMode' = ModeAfterAttempt
      /\ elapsed' = ElapsedAfterAttempt
  BY Zenon DEF AuthenticateFailed, addFailedAttempt
<1>3. mCurrentMode' # "permanent" => mFailedCount' < PermanentThreshold
  BY <1>1, <1>2, LockoutAssumption, SMT DEF ModeAfterAttempt
<1>4. \/ timer' = timer
      \/ /\ timer' = "sleeping" /\ told' = "timed"
         /\ left' = getLockoutTimeLeft
  BY Zenon DEF AuthenticateFailed, EnterLockout, thread
<1>5. timer' = "sleeping" => told' = "timed" /\ left' + elapsed' = Duration
  <2>1. getLockoutTimeLeft + ElapsedAfterAttempt = Duration
    BY <1>1, LockoutAssumption, SMT DEF getLockoutTimeLeft, ElapsedAfterAttempt
  <2> QED BY <1>1, <1>2, <1>4, <2>1
<1> QED BY <1>1, <1>3, <1>4, <1>5, Zenon DEF TimerInv

LEMMA NextTimer == ASSUME LockInv, TimerInv, [LockoutNext]_lockoutVars PROVE TimerInv'
<1>1. CASE AuthenticateBegin
  BY <1>1, TimerUntouched, Zenon DEF AuthenticateBegin, Alive, thread
<1>2. CASE AuthenticateSucceeded
  <2> SUFFICES ASSUME TimerEnds PROVE TimerInv'
    BY <1>2 DEF AuthenticateSucceeded, Alive, TimerInv, TimerEnds, Respectful
  <2>1. timer \notin {"sleeping", "clearing"} /\ mCurrentMode = "none"
    BY <1>2, NoTimer DEF AuthenticateSucceeded
  <2>2. mFailedCount' = mFailedCount /\ timer' = timer
    BY <1>2, Zenon DEF AuthenticateSucceeded, reset, thread
  <2> QED BY <2>1, <2>2, Zenon DEF TimerInv
<1>3. CASE AuthenticateFailed BY <1>3, TimerStarted
<1>4. CASE AuthenticateEnded
  BY <1>4, TimerUntouched, Zenon DEF AuthenticateEnded, Alive, thread
<1>5. CASE AuthenticateLeft BY <1>5, TimerUntouched, Zenon DEF AuthenticateLeft, Alive, thread
<1>6. CASE ResetLockout BY <1>6, Zenon DEF ResetLockout, Alive, TimerInv, TimerEnds
<1>7. CASE ResetLockoutLook BY <1>7, TimerUntouched, Zenon DEF ResetLockoutLook, Alive, thread
<1>8. CASE ResetLockoutAbort
  BY <1>8, TimerUntouched, Zenon DEF ResetLockoutAbort, Alive, thread
<1>9. CASE TimerExpired
  <2> SUFFICES ASSUME TimerEnds PROVE TimerInv'
    BY <1>9 DEF TimerExpired, Alive, TimerInv, TimerEnds, Respectful
  <2>1. /\ timer = "sleeping" /\ left = 0 /\ timer' \in {"leaving", "clearing"}
        /\ UNCHANGED <<world, mFailedCount, mCurrentMode, elapsed, told>>
    BY <1>9, Zenon DEF TimerExpired, Alive, tracker
  <2>2. told = "timed" /\ elapsed = Duration BY <2>1, SMT DEF TimerInv, LockInv
  <2> QED BY <2>1, <2>2 DEF TimerInv
<1>10. CASE TimerClear
  <2> SUFFICES ASSUME TimerEnds PROVE TimerInv'
    BY <1>10 DEF TimerClear, Alive, TimerInv, TimerEnds, Respectful
  <2>1. /\ timer = "clearing" /\ timer' = "leaving"
        /\ mFailedCount' = mFailedCount
    BY <1>10, Zenon DEF TimerClear, clearLockout, reset, tracker
  <2>2. mFailedCount < PermanentThreshold
    BY <2>1 DEF TimerInv, LockInv, ToldIsMode, TimerEnds, Respectful
  <2> QED BY <2>1, <2>2, Zenon DEF TimerInv
<1>11. CASE TimerResetsStarted BY <1>11, TimerUntouched, Zenon DEF TimerResetsStarted, Alive
<1>12. CASE TimerResetsAborted BY <1>12, TimerUntouched, Zenon DEF TimerResetsAborted, Alive
<1>13. ASSUME NEW cb \in BOOLEAN, CallbackChanges(cb) PROVE TimerInv'
  BY <1>13, TimerUntouched, Zenon DEF CallbackChanges, Alive, thread
<1>14. CASE Tick
  <2> SUFFICES ASSUME TimerEnds PROVE TimerInv'
    BY <1>14 DEF Tick, Alive, TimerInv, TimerEnds, Respectful
  <2>1. /\ elapsed' = IF mCurrentMode = "timed" /\ elapsed < Duration
                      THEN elapsed + 1 ELSE elapsed
        /\ left' = IF timer = "sleeping" /\ left > 0 THEN left - 1 ELSE left
        /\ UNCHANGED <<world, mFailedCount, mCurrentMode, timer, told>>
    BY <1>14, Zenon DEF Tick, Alive
  <2>2. timer \in {"sleeping", "clearing"} => mCurrentMode = "timed"
    BY DEF TimerInv, LockInv, ToldIsMode, TimerEnds, Respectful
  <2> QED BY <2>1, <2>2, LockoutAssumption, SMT DEF TimerInv, LockInv
<1>15. CASE UNCHANGED lockoutVars BY <1>15, TimerUntouched, Zenon DEF lockoutVars, thread
<1> QED BY <1>1, <1>2, <1>3, <1>4, <1>5, <1>6, <1>7, <1>8, <1>9, <1>10, <1>11, <1>12, <1>13,
    <1>14, <1>15, Zenon DEF LockoutNext, WorkerStep, TimerStep

-----------------------------------------------------------------------------
(* LockoutInv holds in every reachable state.                                    *)
THEOREM Inductive == LockoutSpec => []LockoutInv
<1>1. LockoutInit => LockoutInv BY InitFlags, InitLock, InitTimer DEF LockoutInv
<1>2. LockoutInv /\ [LockoutNext]_lockoutVars => LockoutInv'
  BY NextFlags, NextLock, NextTimer DEF LockoutInv
<1> QED BY <1>1, <1>2, PTL DEF LockoutSpec

(* Every variable keeps its type.                                          *)
THEOREM TypeCorrect == LockoutSpec => []LockoutTypeOK
<1>1. LockoutInv => LockoutTypeOK BY Zenon DEF LockoutInv, FlagInv, LockInv, LockoutTypeOK
<1> QED BY <1>1, Inductive, PTL

(* The started flag tells whether a timer thread exists, whatever resets,  *)
(* lockouts and late flag writes do.                                       *)
THEOREM TimerIsOne == LockoutSpec => []OneTimer
<1>1. LockoutInv => OneTimer BY DEF LockoutInv, FlagInv
<1> QED BY <1>1, Inductive, PTL

(* A framework that respects lockouts was told what the tracker enforces.  *)
THEOREM ToldMode == LockoutSpec => []ToldIsMode
<1>1. LockoutInv => ToldIsMode BY DEF LockoutInv, LockInv
<1> QED BY <1>1, Inductive, PTL

(* Outside a lockout an attempt is left, whichever counters reset, the     *)
(* timer and getMode clear.                                                *)
THEOREM AttemptRemains == LockoutSpec => []AttemptLeft
<1>1. LockoutInv => AttemptLeft
  BY Zenon DEF LockoutInv, LockInv, TimerInv, TimerEnds, TimedCountLow, AttemptLeft, Respectful
<1> QED BY <1>1, Inductive, PTL

(* The framework is told of the end of a lockout only by a timer that      *)
(* slept for all of it (lockoutTimerExpired), of a permanent one never.    *)
LEMMA EndsInTime ==
    ASSUME LockoutInv, [LockoutNext]_lockoutVars, TimerEnds
    PROVE  /\ told = "timed" /\ told' = "none" => elapsed = Duration
           /\ told = "permanent" => told' = told
<1>1. CASE UNCHANGED told BY <1>1
<1>2. CASE AuthenticateFailed BY <1>2, NoTimer DEF AuthenticateFailed, LockoutInv
<1>3. CASE ResetLockout BY <1>3, Zenon DEF ResetLockout, TimerEnds
<1>4. CASE TimerClear BY <1>4, Zenon DEF TimerClear, LockoutInv, TimerInv
<1>5. UNCHANGED told \/ AuthenticateFailed \/ ResetLockout \/ TimerClear
  BY Zenon DEF LockoutNext, WorkerStep, TimerStep, AuthenticateBegin, AuthenticateSucceeded,
    AuthenticateEnded, AuthenticateLeft, ResetLockoutLook, ResetLockoutAbort, TimerExpired,
    TimerResetsStarted, TimerResetsAborted, CallbackChanges, Tick, lockoutVars
<1> QED BY <1>1, <1>2, <1>3, <1>4, <1>5

(* A lockout lasts as long as it should, whatever sessions, attempts and   *)
(* late flag writes come in between.                                       *)
THEOREM LockoutsLast == LockoutSpec => LockoutLasts
<1> DEFINE InTime ==
      world \cap {"insists", "dirtyHeap", "resets"} = {}
        /\ told = "timed" /\ told' = "none" => elapsed = Duration
           Stays ==
      world \cap {"insists", "dirtyHeap", "resets"} = {} /\ told = "permanent" => told' = told
<1>1. LockoutInv /\ [LockoutNext]_lockoutVars => InTime /\ Stays
  <2> SUFFICES ASSUME LockoutInv, [LockoutNext]_lockoutVars, world \cap {"insists", "dirtyHeap", "resets"} = {}
               PROVE  /\ told = "timed" /\ told' = "none" => elapsed = Duration
                      /\ told = "permanent" => told' = told
    OBVIOUS
  <2>1. TimerEnds BY DEF TimerEnds, Respectful
  <2> QED BY <2>1, EndsInTime
<1> HIDE DEF InTime, Stays
<1>2. LockoutSpec => [][InTime]_lockoutVars /\ [][Stays]_lockoutVars
  BY <1>1, Inductive, PTL DEF LockoutSpec
<1> QED BY <1>2 DEF LockoutLasts, NotCutShort, PermanentStays, InTime, Stays

-----------------------------------------------------------------------------
(***************************************************************************)
(* Proofs about FingerprintSession, for every set of operations, every     *)
(* bound and every framework.                                              *)
(*                                                                         *)
(* NothingLeft speaks of the moments between operations.  What makes it    *)
(* inductive is what the queue holds while one runs, as long as all before *)
(* it were harmless: nothing but its own messages, its last one at the     *)
(* end, at most one cancellation and at most one confirmation.             *)
(***************************************************************************)

Running == {"waiting", "canceling"}
Open == {"queued", "running"}

(* Tasks run in the order in which they were scheduled, one at a time.     *)
OneRunning == \A i \in Ids : tasks[i].st = "running" <=> i = current /\ pc \in Running
InOrder == \A i, j \in Ids : j < i /\ tasks[i].st \notin {"queued", "dropped"}
                                 => tasks[j].st \notin Open
WorkerInv ==
    /\ pc # "idle" => tasks[current].st \notin {"queued", "dropped"}
    /\ pc # "idle" => Operation \in DeviceOps
    /\ pc \in {"canceling", "joining"} => Operation \in Cancelable
    /\ cancelThread => pc # "idle" /\ Operation \in Cancelable
DeviceInv == device # 0 => tasks[device].op \in DeviceOps

OrderInv == OneRunning /\ InOrder /\ WorkerInv /\ DeviceInv

(* The task left nothing behind, or has not begun.                         *)
Harmless(i) == tasks[i].st \in {"queued", "dropped"} \/ ~Disturbs(i)
Before(n) == \A i \in Ids : i < n => Harmless(i)

AtRest == mMessageQueue = <<>> /\ device = 0 /\ deviceCancels = 0

Place == DOMAIN mMessageQueue
Type(k) == mMessageQueue[k].type

(* The one message of an operation with one reply                          *)
ReplyInv ==
    /\ device = current => mMessageQueue = <<>>
    /\ device # current => Len(mMessageQueue) = 1 /\ Type(1) \in LastMessages(Operation)

(* The messages of an authentication or an enrolment                       *)
CancelableInv ==
    /\ \A k \in Place : Type(k) = "canceled" =>
           /\ current \in cancelled /\ ~cancelThread
           /\ \A l \in Place : Type(l) = "canceled" => l = k
    /\ \A k \in Place : Type(k) \in {"error", Last} =>
           /\ device = 0
           /\ \A l \in Place : l > k => Type(l) = "canceled"

WaitingInv ==
    /\ deviceCancels = 0 /\ device \in {0, current}
    /\ \A k \in Place : mMessageQueue[k].of = current
    /\ Operation \in DOMAIN Replies => ReplyInv
    /\ Operation \in Cancelable => CancelableInv

CancelingInv ==
    /\ current \in cancelled /\ ~cancelThread /\ device = 0
    /\ deviceCancels \in {0, 1}
    /\ \A k \in Place : Type(k) = "canceled" => k = Len(mMessageQueue) /\ deviceCancels = 0

JoiningInv == AtRest /\ (tasks[current].st = "canceled" => ~cancelThread)

QueueInv ==
    ~aborted =>
        /\ pc = "idle" /\ (\A i \in Ids : Harmless(i)) => AtRest
        /\ pc = "waiting" /\ Before(current) => WaitingInv
        /\ pc = "canceling" /\ Before(current) => CancelingInv
        /\ pc = "joining" /\ Before(current + 1) => JoiningInv

IInv == TypeOK /\ OrderInv /\ QueueInv /\ AnswersKnown

-----------------------------------------------------------------------------
(* Tasks and messages                                                      *)

States == Ended \cup {"queued", "running"}
Tasks == [op : Ops, st : States]

(* One task changes its state, and nothing else of the tasks changes.      *)
LEMMA TaskSet ==
    ASSUME tasks \in Seq(Tasks), NEW i \in Ids, NEW st \in States,
           tasks' = [tasks EXCEPT ![i].st = st]
    PROVE  /\ tasks' \in Seq(Tasks) /\ Len(tasks') = Len(tasks) /\ Ids' = Ids
           /\ \A j \in Ids : /\ tasks'[j].op = tasks[j].op
                             /\ tasks'[j].st = IF j = i THEN st ELSE tasks[j].st
<1>1. Len(tasks) \in Nat /\ Ids = 1..Len(tasks) /\ \A j \in Ids : tasks[j] \in Tasks
  BY LenProperties, ElementOfSeq DEF Ids
<1>2. DOMAIN tasks' = Ids BY DEF Ids
<1>3. \A j \in Ids : tasks'[j] = IF j = i THEN [tasks[j] EXCEPT !.st = st] ELSE tasks[j]
  BY DEF Ids
<1>4. \A j \in Ids : tasks'[j] \in Tasks BY <1>1, <1>3 DEF Tasks
<1>5. tasks' \in [1..Len(tasks) -> Tasks]
  <2>1. tasks' = [j \in DOMAIN tasks |-> tasks'[j]]  OBVIOUS
  <2> HIDE DEF Tasks
  <2> QED BY <1>1, <1>4, <2>1 DEF Ids
<1>6. tasks' \in Seq(Tasks) /\ Len(tasks') = Len(tasks)
  <2> HIDE DEF Tasks
  <2>1. tasks' \in Seq(Tasks) BY <1>1, <1>5, SeqDef
  <2> QED BY <1>1, <1>2, <2>1, LenProperties
<1> QED BY <1>1, <1>2, <1>3, <1>4, <1>6 DEF Ids, Tasks

LEMMA TaskAdded ==
    ASSUME tasks \in Seq(Tasks), NEW task \in Tasks, tasks' = Append(tasks, task)
    PROVE  /\ tasks' \in Seq(Tasks) /\ Len(tasks) \in Nat
           /\ Ids = 1..Len(tasks) /\ Ids' = 1..(Len(tasks) + 1)
           /\ Len(tasks') = Len(tasks) + 1
           /\ \A j \in Ids : tasks'[j] = tasks[j]
           /\ tasks'[Len(tasks) + 1] = task
<1> HIDE DEF Tasks
<1>1. /\ tasks' \in Seq(Tasks) /\ Len(tasks') = Len(tasks) + 1
      /\ \A j \in 1..Len(tasks) : tasks'[j] = tasks[j]
      /\ tasks'[Len(tasks) + 1] = task
  BY AppendProperties
<1> QED BY <1>1, LenProperties DEF Ids

LEMMA Pushed ==
    ASSUME mMessageQueue \in Seq(Messages), NEW msg \in Messages,
           mMessageQueue' = Append(mMessageQueue, msg)
    PROVE  /\ mMessageQueue' \in Seq(Messages) /\ Len(mMessageQueue) \in Nat
           /\ Place = 1..Len(mMessageQueue) /\ Place' = 1..(Len(mMessageQueue) + 1)
           /\ Len(mMessageQueue') = Len(mMessageQueue) + 1
           /\ \A k \in Place : mMessageQueue'[k] = mMessageQueue[k]
           /\ mMessageQueue'[Len(mMessageQueue) + 1] = msg
<1> HIDE DEF Messages
<1>1. /\ mMessageQueue' \in Seq(Messages) /\ Len(mMessageQueue') = Len(mMessageQueue) + 1
      /\ \A k \in 1..Len(mMessageQueue) : mMessageQueue'[k] = mMessageQueue[k]
      /\ mMessageQueue'[Len(mMessageQueue) + 1] = msg
  BY AppendProperties
<1> QED BY <1>1, LenProperties DEF Place

LEMMA Popped ==
    ASSUME mMessageQueue \in Seq(Messages), mMessageQueue # <<>>,
           mMessageQueue' = Tail(mMessageQueue)
    PROVE  /\ mMessageQueue' \in Seq(Messages) /\ Len(mMessageQueue) \in Nat \ {0}
           /\ Place = 1..Len(mMessageQueue) /\ Place' = 1..(Len(mMessageQueue) - 1)
           /\ Len(mMessageQueue') = Len(mMessageQueue) - 1
           /\ Head(mMessageQueue) = mMessageQueue[1] /\ mMessageQueue[1] \in Messages
           /\ \A k \in Place' : mMessageQueue'[k] = mMessageQueue[k + 1]
           /\ Place' = {} => mMessageQueue' = <<>>
<1>1. Len(mMessageQueue) \in Nat \ {0} /\ Place = 1..Len(mMessageQueue)
  BY EmptySeq, LenProperties DEF Place
<1>2. Head(mMessageQueue) = mMessageQueue[1]  OBVIOUS
<1>3. /\ Head(mMessageQueue) \in Messages /\ mMessageQueue' \in Seq(Messages)
      /\ Len(mMessageQueue') = Len(mMessageQueue) - 1
      /\ \A k \in 1..Len(mMessageQueue') : mMessageQueue'[k] = mMessageQueue[k + 1]
  BY HeadTailProperties
<1> HIDE DEF Messages
<1>4. Place' = 1..(Len(mMessageQueue) - 1) BY <1>3, LenProperties DEF Place
<1>5. ASSUME Place' = {} PROVE mMessageQueue' = <<>>
  <2>1. Len(mMessageQueue') = 0 BY <1>1, <1>3, <1>4, <1>5
  <2> QED BY <1>3, <2>1, EmptySeq
<1> QED BY <1>1, <1>2, <1>3, <1>4, <1>5

-----------------------------------------------------------------------------
(* What a step does to the tasks                                           *)

LEMMA TasksTyped ==
    ASSUME TypeOK
    PROVE  /\ tasks \in Seq(Tasks)
           /\ Len(tasks) \in Nat /\ Ids = 1..Len(tasks)
           /\ \A j \in Ids : tasks[j].op \in Ops /\ tasks[j].st \in States
<1>1. tasks \in Seq(Tasks) BY DEF TypeOK, Tasks, States
<1>2. Len(tasks) \in Nat /\ Ids = 1..Len(tasks) /\ \A j \in Ids : tasks[j] \in Tasks
  <2> HIDE DEF Tasks
  <2> QED BY <1>1, LenProperties, ElementOfSeq DEF Ids
<1> QED BY <1>1, <1>2 DEF Tasks

LEMMA CurrentKnown ==
    ASSUME TypeOK, pc # "idle"
    PROVE  /\ current \in Ids /\ current # 0 /\ current \in Nat
           /\ Operation \in Ops
  BY TasksTyped DEF TypeOK, Operation

(* The end of an operation on the device                                   *)
LEMMA FinishEffect ==
    ASSUME TypeOK, OrderInv, pc \in Running, NEW st \in Ended, Finish(st)
    PROVE  /\ tasks' \in Seq(Tasks) /\ Len(tasks') = Len(tasks) /\ Ids' = Ids
           /\ current \in Ids /\ tasks[current].st = "running"
           /\ \A j \in Ids : /\ tasks'[j].op = tasks[j].op
                             /\ tasks'[j].st = IF j = current THEN st ELSE tasks[j].st
           /\ Operation \in Cancelable => pc' = "joining" /\ current' = current
           /\ Operation \in DOMAIN Replies => pc' = "idle" /\ current' = 0
           /\ Operation \in DeviceOps
<1>1. current \in Ids /\ tasks \in Seq(Tasks) BY CurrentKnown, TasksTyped DEF Running
<1>2. tasks[current].st = "running" /\ Operation \in DeviceOps
  BY <1>1 DEF OrderInv, OneRunning, InOrder, WorkerInv, DeviceInv, Running
<1>3. st \in States BY DEF States
<1>4. /\ tasks' \in Seq(Tasks) /\ Len(tasks') = Len(tasks) /\ Ids' = Ids
      /\ \A j \in Ids : /\ tasks'[j].op = tasks[j].op
                        /\ tasks'[j].st = IF j = current THEN st ELSE tasks[j].st
  BY <1>1, <1>3, TaskSet DEF Finish
<1> QED BY <1>1, <1>2, <1>4 DEF Finish, Cancelable, Replies

Assign(i, st) == tasks' = [tasks EXCEPT ![i].st = st]

(* Whatever begins is queued, and the first to be.                         *)
LEMMA BeginEffect ==
    ASSUME TypeOK, OrderInv, NEW i \in Ids, pc = "idle", EarliestQueued(i), NEW st \in States,
           Assign(i, st)
    PROVE  /\ tasks' \in Seq(Tasks) /\ Len(tasks') = Len(tasks) /\ Ids' = Ids
           /\ tasks[i].st = "queued" /\ i # current /\ current = 0 /\ i # 0
           /\ tasks[i].op \in Ops
           /\ \A j \in Ids : /\ tasks'[j].op = tasks[j].op
                             /\ tasks'[j].st = IF j = i THEN st ELSE tasks[j].st
           /\ \A j \in Ids : j < i => tasks[j].st \notin Open
           /\ \A j \in Ids : j > i => tasks[j].st \in {"queued", "dropped"}
<1>1. /\ tasks \in Seq(Tasks) /\ current = 0 /\ i # 0
      /\ Ids = 1..Len(tasks) /\ Len(tasks) \in Nat /\ tasks[i].op \in Ops
  BY TasksTyped DEF TypeOK
<1>2. /\ tasks' \in Seq(Tasks) /\ Len(tasks') = Len(tasks) /\ Ids' = Ids
      /\ \A j \in Ids : /\ tasks'[j].op = tasks[j].op
                        /\ tasks'[j].st = IF j = i THEN st ELSE tasks[j].st
  BY <1>1, TaskSet DEF Assign
<1>3. tasks[i].st = "queued" /\ \A j \in Ids : tasks[j].st = "queued" => i <= j
  BY DEF EarliestQueued, Queued
<1>4. \A j \in Ids : tasks[j].st # "running" BY DEF OrderInv, OneRunning, Running
<1>5. \A j \in Ids : j < i => tasks[j].st \notin Open BY <1>1, <1>3, <1>4 DEF Open
<1>6. \A j \in Ids : j > i => tasks[j].st \in {"queued", "dropped"}
  BY <1>1, <1>3 DEF OrderInv, InOrder, Open
<1> QED BY <1>1, <1>2, <1>3, <1>5, <1>6

LEMMA MessageTypes ==
    ASSUME NEW n \in Nat
    PROVE  /\ \A op \in DeviceOps : \A type \in LastMessages(op) \cup OtherMessages(op) :
                  [type |-> type, of |-> n] \in Messages
           /\ [type |-> "canceled", of |-> n] \in Messages
  BY DEF Messages, DeviceOps, Cancelable, LastMessages, OtherMessages, Replies

(* The steps by which the worker ends its operation                        *)
LEMMA EndingSteps ==
    ASSUME TypeOK, OrderInv, ReceiveReply \/ ReceiveConfirmation \/ ReceiveError
                                 \/ ReceiveLast \/ ReceiveLockout
    PROVE  /\ pc \in Running /\ pc # "idle"
           /\ (\E st \in Ended : Finish(st)) \/ Continue
           /\ UNCHANGED <<cancelled, mCb, cancelThread, hal>>
           /\ mMessageQueue # <<>> /\ mMessageQueue' = Tail(mMessageQueue)
           /\ aborted' \in BOOLEAN
  BY DEF ReceiveReply, ReceiveConfirmation, ReceiveError, ReceiveLast, ReceiveLockout, Receive,
    Running, Ended, TypeOK

LEMMA TypeStep ==
    ASSUME TypeOK, OrderInv, [Next]_vars
    PROVE  TypeOK'
<1> DEFINE T == /\ tasks \in Seq(Tasks)
                /\ cancelled \subseteq Ids /\ mCb \in BOOLEAN
                /\ current \in 0..Len(tasks)
                /\ pc \in {"idle", "waiting", "canceling", "joining"}
                /\ (pc = "idle") <=> (current = 0)
                /\ cancelThread \in BOOLEAN
                /\ mMessageQueue \in Seq(Messages)
                /\ device \in 0..Len(tasks)
                /\ deviceCancels \in Nat
                /\ aborted \in BOOLEAN
<1>t. T' => TypeOK' BY DEF TypeOK, Tasks, States
<1>q. T /\ Len(tasks) \in Nat /\ Ids = 1..Len(tasks) BY TasksTyped DEF TypeOK
<1> HIDE DEF Tasks, Messages
<1>p. ASSUME NEW type, NEW id, Push(type, id), [type |-> type, of |-> id] \in Messages
      PROVE  mMessageQueue' \in Seq(Messages)
  BY <1>q, <1>p, Pushed DEF Push
<1>1. ASSUME NEW op \in Ops, schedule(op)
      PROVE  TypeOK'
  <2>1. [op |-> op, st |-> IF Cardinality(Queued) < QueueSize THEN "queued" ELSE "dropped"] \in Tasks
    BY DEF Tasks, States, Ended
  <2>2. tasks' \in Seq(Tasks) /\ Len(tasks') = Len(tasks) + 1 /\ Ids' = 1..(Len(tasks) + 1)
    BY <1>1, <1>q, <2>1, TaskAdded DEF schedule
  <2> QED BY <1>t, <1>q, <1>1, <2>2 DEF schedule, engine, hal
<1>2. ASSUME NEW i \in Ids, cancel(i) \/ StartWithoutSession(i)
      PROVE  TypeOK'
  BY <1>t, <1>q, <1>2 DEF cancel, StartWithoutSession, engine, hal, Ids
<1>3. ASSUME NEW cb \in BOOLEAN, setSessionCallback(cb)
      PROVE  TypeOK'
  BY <1>t, <1>q, <1>3 DEF setSessionCallback, engine, hal, Ids
<1>4. ASSUME NEW i \in Ids, NEW st \in States, pc = "idle" /\ EarliestQueued(i),
             Assign(i, st),
             UNCHANGED <<cancelled, mCb, engine, mMessageQueue, hal, aborted>>
      PROVE  TypeOK'
  <2>1. tasks' \in Seq(Tasks) /\ Len(tasks') = Len(tasks) /\ Ids' = Ids BY <1>4, BeginEffect
  <2> QED BY <1>t, <1>q, <1>4, <2>1 DEF engine, hal
<1>5. ASSUME NEW i \in Ids, StartCanceled(i) \/ detectInteractionImpl(i)
                                \/ resetLockoutImpl(i) \/ RefusedByDevice(i)
      PROVE  TypeOK'
  BY <1>4, <1>5 DEF StartCanceled, detectInteractionImpl, resetLockoutImpl, RefusedByDevice,
    Start, Refused, States, Ended, Assign
<1>6. ASSUME NEW i \in Ids, StartOnDevice(i)
      PROVE  TypeOK'
  <2>1. tasks' \in Seq(Tasks) /\ Len(tasks') = Len(tasks) /\ Ids' = Ids /\ i # 0
    BY <1>6, BeginEffect DEF StartOnDevice, Start, States, Assign
  <2> QED BY <1>t, <1>q, <1>6, <2>1 DEF StartOnDevice
<1>7. ASSUME ReceiveReply \/ ReceiveConfirmation \/ ReceiveError \/ ReceiveLast \/ ReceiveLockout
      PROVE  TypeOK'
  <2>1. mMessageQueue' \in Seq(Messages) BY <1>q, <1>7, EndingSteps, Popped
  <2>2. CASE Continue BY <1>t, <1>q, <1>7, <2>1, <2>2, EndingSteps DEF Continue, hal, Ids
  <2>3. ASSUME NEW st \in Ended, Finish(st) PROVE TypeOK'
    <3>1. /\ tasks' \in Seq(Tasks) /\ Len(tasks') = Len(tasks) /\ Ids' = Ids
          /\ \/ pc' = "joining" /\ current' = current
             \/ pc' = "idle" /\ current' = 0
      BY <1>7, <2>3, EndingSteps, FinishEffect DEF DeviceOps
    <3>2. current # 0 BY <1>7, EndingSteps, CurrentKnown
    <3>3. UNCHANGED <<cancelled, mCb, cancelThread, device, deviceCancels>> /\ aborted' \in BOOLEAN
      BY <1>7, EndingSteps DEF hal
    <3> QED BY <1>t, <1>q, <2>1, <3>1, <3>2, <3>3
  <2> QED BY <1>7, <2>2, <2>3, EndingSteps
<1>8. ASSUME ReceiveCanceled \/ ReceiveOther
      PROVE  TypeOK'
  <2>1. mMessageQueue' \in Seq(Messages)
    BY <1>q, <1>8, Popped DEF ReceiveCanceled, ReceiveOther, Receive
  <2> QED BY <1>t, <1>q, <1>8, <2>1 DEF ReceiveCanceled, ReceiveOther, Receive, Continue, hal, Ids
<1>9. CASE Join
  <2>1. /\ UNCHANGED <<tasks, cancelled, mCb, mMessageQueue, device, deviceCancels, aborted>>
        /\ current' = 0 /\ pc' = "idle" /\ cancelThread' = FALSE /\ Ids' = Ids
    BY <1>9 DEF Join, hal, Ids
  <2>2. cancelThread' \in BOOLEAN BY <2>1, Zenon
  <2>3. current' \in 0..Len(tasks') BY <1>q, <2>1
  <2>4. (pc' = "idle") <=> (current' = 0) BY <2>1
  <2>5. T' BY <1>q, <2>1, <2>2, <2>3, <2>4
  <2> QED BY <1>t, <2>5
<1>10. CASE FindCancel
  <2>1. mMessageQueue' \in Seq(Messages)
    <3>1. current \in Nat BY <1>q
    <3>2. Push("canceled", current) BY <1>10 DEF FindCancel
    <3> QED BY <1>p, <3>1, <3>2, MessageTypes
  <2> QED BY <1>t, <1>q, <1>10, <2>1 DEF FindCancel, hal, Ids
<1>11. CASE DeviceLast \/ DeviceOther
  <2>1. device \in Nat /\ tasks[device].op \in DeviceOps
    BY <1>11 DEF DeviceLast, DeviceOther, TypeOK, OrderInv, DeviceInv
  <2>2. mMessageQueue' \in Seq(Messages)
    BY <1>p, <1>11, <2>1, MessageTypes DEF DeviceLast, DeviceOther
  <2> QED BY <1>t, <1>q, <1>11, <2>2 DEF DeviceLast, DeviceOther, engine, hal, Ids
<1>12. CASE DeviceConfirmsCancel
  <2>1. mMessageQueue' \in Seq(Messages) BY <1>p, <1>12, MessageTypes DEF DeviceConfirmsCancel
  <2> QED BY <1>t, <1>q, <1>12, <2>1 DEF DeviceConfirmsCancel, engine, Ids
<1>13. CASE UNCHANGED vars BY <1>t, <1>q, <1>13 DEF vars, engine, hal, Ids
<1> QED BY <1>1, <1>2, <1>3, <1>5, <1>6, <1>7, <1>8, <1>9, <1>10, <1>11, <1>12, <1>13 DEF Next,
    Framework, Worker, Begin, Device

-----------------------------------------------------------------------------
(* Tasks keep their operations, and an ended one its end.                  *)

TasksKept ==
    /\ Ids \subseteq Ids' /\ cancelled \subseteq cancelled'
    /\ \A i \in Ids : /\ tasks'[i].op = tasks[i].op
                      /\ tasks[i].st \notin Open => tasks'[i].st = tasks[i].st
    /\ \A i \in Ids' : i \notin Ids => tasks'[i].st \in {"queued", "dropped"}

LEMMA Scheduled ==
    ASSUME TypeOK, NEW op \in Ops, schedule(op)
    PROVE  /\ Ids' = 1..(Len(tasks) + 1) /\ Len(tasks') = Len(tasks) + 1
           /\ \A j \in Ids : tasks'[j] = tasks[j]
           /\ tasks'[Len(tasks) + 1].st \in {"queued", "dropped"}
           /\ UNCHANGED <<cancelled, mCb, current, pc, cancelThread, mMessageQueue,
                          device, deviceCancels, aborted>>
<1> DEFINE task == [op |-> op, st |-> IF Cardinality(Queued) < QueueSize
                                      THEN "queued" ELSE "dropped"]
<1>1. task \in Tasks BY DEF Tasks, States, Ended
<1>2. task.st \in {"queued", "dropped"}  OBVIOUS
<1>3. tasks' = Append(tasks, task) BY DEF schedule
<1> HIDE DEF task, Tasks
<1>4. /\ Ids' = 1..(Len(tasks) + 1) /\ Len(tasks') = Len(tasks) + 1
      /\ \A j \in Ids : tasks'[j] = tasks[j]
      /\ tasks'[Len(tasks) + 1] = task
  BY <1>1, <1>3, TasksTyped, TaskAdded
<1> QED BY <1>2, <1>4 DEF schedule, engine, hal

(* The steps that begin an operation and end it at once                    *)
LEMMA BeginsAndEnds ==
    ASSUME TypeOK, OrderInv, NEW i \in Ids,
           StartCanceled(i) \/ detectInteractionImpl(i)
               \/ resetLockoutImpl(i) \/ RefusedByDevice(i)
    PROVE  \E st \in Ended \ {"dropped"} :
               /\ pc = "idle" /\ EarliestQueued(i)
               /\ Assign(i, st)
               /\ st \notin {"lockedOut", "gaveUp"} /\ (st = "canceled" => i \in cancelled)
               /\ UNCHANGED <<cancelled, mCb, current, pc, cancelThread, mMessageQueue,
                              device, deviceCancels, aborted>>
  BY DEF StartCanceled, detectInteractionImpl, resetLockoutImpl, RefusedByDevice, Start,
    Refused, Ended, engine, hal, Assign

LEMMA Starts ==
    ASSUME TypeOK, OrderInv, NEW i \in Ids, StartOnDevice(i)
    PROVE  /\ pc = "idle" /\ EarliestQueued(i) /\ ~aborted
           /\ Assign(i, "running")
           /\ tasks[i].op \in DeviceOps
           /\ current' = i /\ pc' = "waiting"
           /\ cancelThread' = (tasks[i].op \in Cancelable)
           /\ device' = i
           /\ UNCHANGED <<cancelled, mCb, mMessageQueue, deviceCancels, aborted>>
  BY DEF StartOnDevice, Start, Assign

LEMMA TaskStep ==
    ASSUME TypeOK, OrderInv, [Next]_vars
    PROVE  TasksKept
<1> USE TasksTyped
<1>1. ASSUME NEW op \in Ops, schedule(op)
      PROVE  TasksKept
  <2>1. Ids' = Ids \cup {Len(tasks) + 1} BY <1>1, Scheduled
  <2> QED BY <1>1, <2>1, Scheduled DEF TasksKept
<1>2. ASSUME UNCHANGED tasks, cancelled \subseteq cancelled'
      PROVE  TasksKept
  BY <1>2 DEF TasksKept, Ids
<1>3. ASSUME NEW i \in Ids, NEW st \in States, pc = "idle" /\ EarliestQueued(i),
             Assign(i, st), UNCHANGED cancelled
      PROVE  TasksKept
  BY <1>3, BeginEffect DEF TasksKept, Open
<1>4. ASSUME NEW i \in Ids, Begin(i)
      PROVE  TasksKept
  <2>1. CASE StartWithoutSession(i) BY <1>2, <2>1 DEF StartWithoutSession
  <2>2. CASE StartOnDevice(i) BY <1>3, <2>2, Starts DEF States
  <2>3. CASE StartCanceled(i) \/ detectInteractionImpl(i)
                 \/ resetLockoutImpl(i) \/ RefusedByDevice(i)
    BY <1>3, <2>3, BeginsAndEnds DEF States
  <2> QED BY <1>4, <2>1, <2>2, <2>3 DEF Begin
<1>5. CASE ReceiveReply \/ ReceiveConfirmation \/ ReceiveError \/ ReceiveLast \/ ReceiveLockout
  <2>1. CASE Continue BY <1>2, <1>5, <2>1, EndingSteps DEF Continue
  <2>2. ASSUME NEW st \in Ended, Finish(st) PROVE TasksKept
    BY <1>5, <2>2, EndingSteps, FinishEffect DEF TasksKept, Open
  <2> QED BY <1>5, <2>1, <2>2, EndingSteps
<1>6. CASE ReceiveCanceled \/ ReceiveOther \/ Join \/ FindCancel \/ Device \/ UNCHANGED vars
           \/ (\E i \in Ids : cancel(i)) \/ (\E cb \in BOOLEAN : setSessionCallback(cb))
  BY <1>2, <1>6 DEF ReceiveCanceled, ReceiveOther, Receive, Continue, Join, FindCancel, Device,
    DeviceLast, DeviceOther, DeviceConfirmsCancel, cancel, setSessionCallback, vars
<1> QED BY <1>1, <1>4, <1>5, <1>6 DEF Next, Framework, Worker

LEMMA OrderStep ==
    ASSUME TypeOK, OrderInv, [Next]_vars
    PROVE  OrderInv'
<1> USE TasksTyped
<1>t. Ids = 1..Len(tasks) /\ Len(tasks) \in Nat /\ current \in 0..Len(tasks)
      /\ device \in 0..Len(tasks) /\ (pc = "idle" <=> current = 0)
  BY DEF TypeOK
<1>1. ASSUME NEW op \in Ops, schedule(op)
      PROVE  OrderInv'
  BY <1>t, <1>1, Scheduled DEF OrderInv, OneRunning, InOrder, WorkerInv, DeviceInv, Operation,
    Running, Open
<1>2. ASSUME UNCHANGED <<tasks, current, pc>>, device' \in {device, 0},
             cancelThread' \in {cancelThread, FALSE}
      PROVE  OrderInv'
  <2>1. OneRunning' /\ InOrder' BY <1>2 DEF OrderInv, OneRunning, InOrder, Ids
  <2>2. DeviceInv' BY <1>2 DEF OrderInv, DeviceInv
  <2>3. WorkerInv'
    <3>1. cancelThread' => cancelThread BY <1>2, Zenon
    <3> QED BY <1>2, <3>1 DEF OrderInv, WorkerInv, Operation
  <2> QED BY <2>1, <2>2, <2>3 DEF OrderInv
<1>3. ASSUME NEW i \in Ids, Begin(i)
      PROVE  OrderInv'
  <2>1. CASE StartWithoutSession(i) BY <1>2, <2>1 DEF StartWithoutSession, engine, hal
  <2>2. CASE StartOnDevice(i)
    <3>1. /\ Ids' = Ids /\ current' = i /\ pc' = "waiting" /\ device' = i
          /\ tasks[i].op \in DeviceOps /\ pc = "idle"
          /\ \A j \in Ids : /\ tasks'[j].op = tasks[j].op
                            /\ tasks'[j].st = IF j = i THEN "running" ELSE tasks[j].st
          /\ \A j \in Ids : j < i => tasks[j].st \notin Open
          /\ \A j \in Ids : j > i => tasks[j].st \in {"queued", "dropped"}
      BY <2>2, Starts, BeginEffect DEF States
    <3>2. OneRunning' BY <3>1 DEF OrderInv, OneRunning, Running
    <3>3. InOrder' BY <1>t, <3>1 DEF OrderInv, InOrder, Open
    <3>4. cancelThread' => tasks[i].op \in Cancelable BY <2>2, Starts, Zenon
    <3>5. WorkerInv' /\ DeviceInv' BY <3>1, <3>4 DEF WorkerInv, DeviceInv, Operation
    <3> QED BY <3>2, <3>3, <3>5 DEF OrderInv
  <2>3. ASSUME NEW st \in States, st \notin {"queued", "running", "dropped"},
               pc = "idle" /\ EarliestQueued(i),
               Assign(i, st),
               UNCHANGED <<current, pc, cancelThread, device>>
        PROVE  OrderInv'
    <3>u. pc' = "idle" /\ device' = device /\ cancelThread' = cancelThread BY <2>3
    <3>1. /\ Ids' = Ids
          /\ \A j \in Ids : /\ tasks'[j].op = tasks[j].op
                            /\ tasks'[j].st = IF j = i THEN st ELSE tasks[j].st
          /\ \A j \in Ids : j < i => tasks[j].st \notin Open
          /\ \A j \in Ids : j > i => tasks[j].st \in {"queued", "dropped"}
      BY <2>3, BeginEffect
    <3>2. OneRunning' BY <2>3, <3>u, <3>1 DEF OrderInv, OneRunning, Running, Ended
    <3>3. InOrder' BY <1>t, <3>1 DEF OrderInv, InOrder, Open, Ended
    <3>4. ~cancelThread' BY <2>3, <3>u DEF OrderInv, WorkerInv
    <3>5. WorkerInv' /\ DeviceInv' BY <1>t, <3>u, <3>1, <3>4 DEF OrderInv, WorkerInv, DeviceInv
    <3> QED BY <3>2, <3>3, <3>5 DEF OrderInv
  <2> QED BY <1>3, <2>1, <2>2, <2>3, BeginsAndEnds DEF Begin, States, Ended
<1>4. CASE ReceiveReply \/ ReceiveConfirmation \/ ReceiveError \/ ReceiveLast \/ ReceiveLockout
  <2>1. CASE Continue BY <1>2, <1>4, <2>1, EndingSteps DEF Continue, hal
  <2>2. ASSUME NEW st \in Ended \ {"dropped"}, Finish(st) PROVE OrderInv'
    <3>1. /\ Ids' = Ids /\ current \in Ids /\ tasks[current].st = "running"
          /\ \A j \in Ids : /\ tasks'[j].op = tasks[j].op
                            /\ tasks'[j].st = IF j = current THEN st ELSE tasks[j].st
      BY <1>4, <2>2, EndingSteps, FinishEffect
    <3>2. /\ \/ Operation \in Cancelable /\ pc' = "joining" /\ current' = current
             \/ Operation \notin Cancelable /\ pc' = "idle" /\ current' = 0
          /\ Operation \in DeviceOps /\ pc # "idle" /\ device' = device
      <4>1. Operation \in DeviceOps /\ pc # "idle" BY <1>4, <2>2, EndingSteps, FinishEffect
      <4>2. device' = device BY <1>4, EndingSteps DEF hal
      <4> QED BY <2>2, <4>1, <4>2 DEF Finish
    <3>3. OneRunning' BY <1>t, <3>1, <3>2 DEF OrderInv, OneRunning, Running, Ended
    <3>4. InOrder' BY <1>t, <3>1 DEF OrderInv, InOrder, Open, Ended
    <3>5. Operation \in Cancelable => Operation' = Operation BY <3>1, <3>2 DEF Operation
    <3>6. cancelThread' => cancelThread BY <1>4, EndingSteps, Zenon
    <3>7. WorkerInv' BY <1>t, <3>1, <3>2, <3>5, <3>6 DEF OrderInv, WorkerInv, Ended
    <3>8. DeviceInv' BY <1>t, <3>1, <3>2 DEF OrderInv, DeviceInv
    <3> QED BY <3>3, <3>4, <3>7, <3>8 DEF OrderInv
  <2> QED BY <1>4, <2>1, <2>2 DEF ReceiveReply, ReceiveConfirmation, ReceiveError, ReceiveLast,
      ReceiveLockout, Ended
<1>5. CASE ReceiveCanceled
  <2>1. /\ UNCHANGED <<tasks, current, cancelThread>> /\ Ids' = Ids
        /\ pc = "waiting" /\ pc' = "canceling" /\ device' = 0 /\ Operation \in Cancelable
    BY <1>5 DEF ReceiveCanceled, Receive, Ids
  <2>2. OneRunning' /\ InOrder' /\ DeviceInv'
    BY <2>1 DEF OrderInv, OneRunning, InOrder, DeviceInv, Running
  <2>3. WorkerInv' BY <2>1 DEF OrderInv, WorkerInv, Operation
  <2> QED BY <2>2, <2>3 DEF OrderInv
<1>6. CASE Join
  <2>1. /\ UNCHANGED <<tasks, device>> /\ Ids' = Ids
        /\ pc = "joining" /\ pc' = "idle" /\ current' = 0
    BY <1>6 DEF Join, Ids, hal
  <2>2. ~cancelThread' BY <1>6 DEF Join
  <2>3. OneRunning' /\ InOrder' /\ DeviceInv'
    BY <1>t, <2>1 DEF OrderInv, OneRunning, InOrder, DeviceInv, Running
  <2>4. WorkerInv' BY <2>1, <2>2 DEF OrderInv, WorkerInv, Operation
  <2> QED BY <2>3, <2>4 DEF OrderInv
<1>7. CASE ReceiveOther \/ FindCancel \/ Device \/ UNCHANGED vars
           \/ (\E i \in Ids : cancel(i)) \/ (\E cb \in BOOLEAN : setSessionCallback(cb))
  BY <1>2, <1>7 DEF ReceiveOther, Receive, Continue, FindCancel, Device, DeviceLast,
    DeviceOther, DeviceConfirmsCancel, cancel, setSessionCallback, vars, engine, hal
<1> QED BY <1>1, <1>3, <1>4, <1>5, <1>6, <1>7 DEF Next, Framework, Worker

-----------------------------------------------------------------------------
(* What the queue holds                                                    *)

(* A task that is harmless after a step was so before it.                  *)
LEMMA HarmlessBefore ==
    ASSUME TypeOK, OrderInv, TasksKept
    PROVE  \A i \in Ids : tasks[i].st # "running" /\ Harmless(i)' => Harmless(i)
<1> SUFFICES ASSUME NEW i \in Ids, tasks[i].st # "running", Harmless(i)'
             PROVE  Harmless(i)
  OBVIOUS
<1>1. CASE tasks[i].st \in {"queued", "dropped"} BY <1>1 DEF Harmless
<1>2. CASE tasks[i].st \notin {"queued", "dropped"}
  <2>1. tasks'[i].st = tasks[i].st /\ cancelled \subseteq cancelled'
    BY <1>2 DEF TasksKept, Open
  <2> QED BY <1>2, <2>1 DEF Harmless, Disturbs
<1> QED BY <1>1, <1>2

LEMMA EarlierHarmless ==
    ASSUME TypeOK, OrderInv, TasksKept, pc # "idle",
           \A i \in Ids : i < current => Harmless(i)'
    PROVE  Before(current)
<1>1. \A i \in Ids : i < current => tasks[i].st # "running"
  BY CurrentKnown, TasksTyped DEF OrderInv, OneRunning
<1> QED BY <1>1, HarmlessBefore DEF Before

LEMMA IdleStep ==
    ASSUME TypeOK, OrderInv, TasksKept, QueueInv, [Next]_vars, ~aborted, ~aborted', pc = "idle"
    PROVE  QueueInv'
<1>1. ASSUME \A i \in Ids : Harmless(i)'
      PROVE  AtRest
  <2>1. \A i \in Ids : tasks[i].st # "running" BY DEF OrderInv, OneRunning, Running
  <2>2. \A i \in Ids : Harmless(i) BY <1>1, <2>1, HarmlessBefore
  <2> QED BY <2>2 DEF QueueInv
<1>2. ASSUME pc' = "idle", UNCHANGED <<mMessageQueue, device, deviceCancels>>
      PROVE  QueueInv'
  <2>1. ASSUME \A i \in Ids' : Harmless(i)' PROVE AtRest'
    <3>1. \A i \in Ids : Harmless(i)' BY <2>1 DEF TasksKept
    <3> QED BY <1>1, <1>2, <3>1 DEF AtRest
  <2> QED BY <1>2, <2>1 DEF QueueInv
<1>3. ASSUME NEW i \in Ids, StartOnDevice(i)
      PROVE  QueueInv'
  <2>1. /\ pc' = "waiting" /\ current' = i /\ device' = i
        /\ UNCHANGED <<mMessageQueue, deviceCancels>>
    BY <1>3, Starts
  <2>2. \A j \in Ids : j > i => tasks[j].st \in {"queued", "dropped"}
    BY <1>3, Starts, BeginEffect DEF States
  <2>3. tasks[i].st = "queued" /\ Ids = 1..Len(tasks) /\ Len(tasks) \in Nat
    BY <1>3, Starts, TasksTyped DEF EarliestQueued, Queued
  <2>4. ASSUME Before(current)' PROVE AtRest
    <3>1. \A j \in Ids : j < i => Harmless(j)' BY <2>1, <2>4 DEF Before, TasksKept
    <3>2. \A j \in Ids : tasks[j].st # "running" BY DEF OrderInv, OneRunning, Running
    <3>3. \A j \in Ids : j < i => Harmless(j) BY <3>1, <3>2, HarmlessBefore
    <3>4. \A j \in Ids : j >= i => Harmless(j) BY <2>2, <2>3 DEF Harmless
    <3>5. \A j \in Ids : Harmless(j) BY <2>3, <3>3, <3>4
    <3> QED BY <3>5 DEF QueueInv
  <2>5. ASSUME Before(current)' PROVE WaitingInv'
    <3>1. mMessageQueue' = <<>> /\ deviceCancels' = 0 /\ device' = current' /\ Place' = {}
      BY <2>1, <2>4, <2>5 DEF AtRest, Place
    <3> QED BY <3>1 DEF WaitingInv, ReplyInv, CancelableInv
  <2> QED BY <2>1, <2>5 DEF QueueInv
<1>4. CASE Device
  <2>1. UNCHANGED <<tasks, cancelled, pc>> /\ Ids' = Ids
    BY <1>4 DEF Device, DeviceLast, DeviceOther, DeviceConfirmsCancel, engine, Ids
  <2>2. ~AtRest BY <1>4 DEF Device, DeviceLast, DeviceOther, DeviceConfirmsCancel, AtRest
  <2> QED BY <1>1, <2>1, <2>2 DEF QueueInv
<1>5. ~cancelThread BY DEF OrderInv, WorkerInv
<1>6. ASSUME NEW i \in Ids, Begin(i)
      PROVE  QueueInv'
  BY <1>2, <1>3, <1>6, BeginsAndEnds DEF Begin, StartWithoutSession
<1>7. CASE Framework
  BY <1>2, <1>7 DEF Framework, schedule, cancel, setSessionCallback, engine, hal
<1>8. CASE UNCHANGED vars BY <1>2, <1>8 DEF vars, engine, hal
<1> QED BY <1>4, <1>5, <1>6, <1>7, <1>8 DEF Next, Worker, FindCancel, Join, ReceiveReply,
    ReceiveCanceled, ReceiveConfirmation, ReceiveError, ReceiveLast, ReceiveLockout,
    ReceiveOther, Receive

(* While the worker waits, a step that is not its own                      *)
LEMMA WaitingOthers ==
    ASSUME TypeOK, OrderInv, TasksKept, pc = "waiting", WaitingInv, ~aborted, current' = current,
           \/ Framework
           \/ UNCHANGED vars
           \/ FindCancel
           \/ Device
    PROVE  WaitingInv'
<1>q. /\ current \in Ids /\ current # 0 /\ mMessageQueue \in Seq(Messages)
      /\ Operation' = Operation /\ Last' = Last /\ cancelled \subseteq cancelled'
  BY CurrentKnown DEF TypeOK, TasksKept, Operation, Last
<1>1. ASSUME UNCHANGED <<mMessageQueue, device, deviceCancels, cancelThread>>
      PROVE  WaitingInv'
  BY <1>q, <1>1 DEF WaitingInv, ReplyInv, CancelableInv, Place, Type
<1>2. CASE Framework \/ UNCHANGED vars
  BY <1>1, <1>2 DEF Framework, schedule, cancel, setSessionCallback, vars, engine, hal
<1>p. ASSUME NEW msg \in Messages, mMessageQueue' = Append(mMessageQueue, msg)
      PROVE  /\ Len(mMessageQueue) \in Nat
             /\ Place = 1..Len(mMessageQueue) /\ Place' = 1..(Len(mMessageQueue) + 1)
             /\ Len(mMessageQueue') = Len(mMessageQueue) + 1
             /\ \A k \in Place : mMessageQueue'[k] = mMessageQueue[k]
             /\ mMessageQueue'[Len(mMessageQueue) + 1] = msg
  BY <1>q, <1>p, Pushed
<1>3. CASE FindCancel
  <2>1. /\ UNCHANGED <<device, deviceCancels>> /\ current \in cancelled'
        /\ Operation \in Cancelable
    BY <1>3, <1>q DEF FindCancel, hal, OrderInv, WorkerInv
  <2>2. cancelThread /\ ~cancelThread' BY <1>3 DEF FindCancel
  <2>3. \A k \in Place : Type(k) # "canceled" BY <2>1, <2>2 DEF WaitingInv, CancelableInv, Type
  <2>4. Operation \notin DOMAIN Replies BY <2>1 DEF Cancelable, Replies
  <2> DEFINE msg == [type |-> "canceled", of |-> current]
  <2>5. /\ mMessageQueue' = Append(mMessageQueue, msg) /\ msg \in Messages
        /\ msg.type = "canceled" /\ msg.of = current
    BY <1>3, MessageTypes DEF FindCancel, Push, TypeOK
  <2> HIDE DEF msg
  <2>6. \A k \in Place' : mMessageQueue'[k].of = current BY <1>p, <2>5 DEF WaitingInv
  <2>7. Last # "canceled" BY DEF Last
  <2>8. CancelableInv'
    BY <1>p, <1>q, <2>1, <2>2, <2>3, <2>5, <2>7 DEF WaitingInv, CancelableInv, Type
  <2> QED BY <1>q, <2>1, <2>4, <2>6, <2>8 DEF WaitingInv
<1>4. CASE Device
  <2>1. deviceCancels = 0 /\ device \in {0, current} /\ current \in Nat
    BY DEF WaitingInv, TypeOK
  <2>2. DeviceLast \/ DeviceOther BY <1>4, <2>1 DEF Device, DeviceConfirmsCancel
  <2>3. device = current /\ deviceCancels' = 0 /\ UNCHANGED <<cancelled, cancelThread>>
    BY <2>1, <2>2 DEF DeviceLast, DeviceOther, hal, engine
  <2>4. Operation \in DeviceOps BY DEF OrderInv, WorkerInv
  <2>5. CASE DeviceLast
    <3>1. PICK type \in LastMessages(Operation) : Push(type, current)
      BY <2>3, <2>5 DEF DeviceLast, Operation
    <3> DEFINE msg == [type |-> type, of |-> current]
    <3>2. /\ mMessageQueue' = Append(mMessageQueue, msg) /\ msg \in Messages
          /\ msg.type = type /\ msg.of = current
      BY <2>1, <2>4, <3>1, MessageTypes DEF Push
    <3> HIDE DEF msg
    <3>3. device' = 0 BY <2>5 DEF DeviceLast
    <3>4. \A k \in Place' : mMessageQueue'[k].of = current BY <1>p, <3>2 DEF WaitingInv
    <3>5. Operation \in DOMAIN Replies => ReplyInv'
      <4> SUFFICES ASSUME Operation \in DOMAIN Replies PROVE ReplyInv'
        OBVIOUS
      <4>1. Len(mMessageQueue) = 0 BY <2>3, EmptySeq, <1>q DEF WaitingInv, ReplyInv
      <4> QED BY <1>p, <1>q, <3>1, <3>2, <3>3, <4>1 DEF ReplyInv, Type
    <3>6. Operation \in Cancelable => CancelableInv'
      <4> SUFFICES ASSUME Operation \in Cancelable PROVE CancelableInv'
        OBVIOUS
      <4>1. type # "canceled" BY DEF LastMessages, Cancelable
      <4>2. \A k \in Place : Type(k) \notin {"error", Last}
        BY <1>q, <2>3 DEF WaitingInv, CancelableInv, Type
      <4> QED BY <1>p, <1>q, <2>3, <3>2, <3>3, <4>1, <4>2 DEF WaitingInv, CancelableInv, Type
    <3> QED BY <1>q, <2>3, <3>3, <3>4, <3>5, <3>6 DEF WaitingInv
  <2>6. CASE DeviceOther
    <3>1. PICK type \in OtherMessages(Operation) : Push(type, current)
      BY <2>3, <2>6 DEF DeviceOther, Operation
    <3> DEFINE msg == [type |-> type, of |-> current]
    <3>2. /\ mMessageQueue' = Append(mMessageQueue, msg) /\ msg \in Messages
          /\ msg.type = type /\ msg.of = current
      BY <2>1, <2>4, <3>1, MessageTypes DEF Push
    <3> HIDE DEF msg
    <3>3. device' = device BY <2>6 DEF DeviceOther, hal
    <3>4. \A k \in Place' : mMessageQueue'[k].of = current BY <1>p, <3>2 DEF WaitingInv
    <3>5. /\ Operation \in Cancelable /\ Operation \notin DOMAIN Replies
          /\ type \notin {"canceled", "error", Last}
      BY <3>1 DEF OtherMessages, Cancelable, Replies, Last
    <3>6. \A k \in Place : Type(k) \notin {"error", Last}
      BY <1>q, <2>3, <3>5 DEF WaitingInv, CancelableInv, Type
    <3>7. CancelableInv'
      BY <1>p, <1>q, <2>3, <3>2, <3>5, <3>6 DEF WaitingInv, CancelableInv, Type
    <3> QED BY <1>q, <2>3, <3>3, <3>4, <3>5, <3>7 DEF WaitingInv
  <2> QED BY <2>2, <2>5, <2>6
<1> QED BY <1>2, <1>3, <1>4

LEMMA WaitingStep ==
    ASSUME TypeOK, OrderInv, TasksKept, QueueInv, [Next]_vars, ~aborted, ~aborted', pc = "waiting"
    PROVE  QueueInv'
<1>q. /\ current \in Ids /\ current # 0 /\ current \in Nat /\ Ids \subseteq Nat
      /\ mMessageQueue \in Seq(Messages)
  BY CurrentKnown, TasksTyped DEF TypeOK
<1>h. ASSUME \A i \in Ids : i < current => Harmless(i)'
      PROVE  WaitingInv
  BY <1>h, EarlierHarmless DEF QueueInv
<1>p. ASSUME mMessageQueue # <<>>, mMessageQueue' = Tail(mMessageQueue)
      PROVE  /\ Len(mMessageQueue) \in Nat \ {0}
             /\ Place = 1..Len(mMessageQueue) /\ Place' = 1..(Len(mMessageQueue) - 1)
             /\ Len(mMessageQueue') = Len(mMessageQueue) - 1
             /\ Head(mMessageQueue) = mMessageQueue[1]
             /\ \A k \in Place' : mMessageQueue'[k] = mMessageQueue[k + 1]
             /\ Place' = {} => mMessageQueue' = <<>>
  BY <1>q, <1>p, Popped
<1>1. CASE Framework \/ UNCHANGED vars \/ FindCancel \/ Device
  <2>1. pc' = "waiting" /\ current' = current
    BY <1>1 DEF Framework, schedule, cancel, setSessionCallback, vars, engine, FindCancel,
      Device, DeviceLast, DeviceOther, DeviceConfirmsCancel
  <2>2. ASSUME Before(current)' PROVE WaitingInv'
    <3>1. WaitingInv BY <1>h, <2>1, <2>2 DEF Before, TasksKept
    <3> QED BY <1>1, <2>1, <3>1, WaitingOthers
  <2> QED BY <2>1, <2>2 DEF QueueInv
<1>2. CASE ReceiveReply
  <2>1. /\ Operation \in DOMAIN Replies /\ mMessageQueue # <<>>
        /\ mMessageQueue' = Tail(mMessageQueue)
        /\ UNCHANGED <<cancelled, device, deviceCancels>>
    BY <1>2 DEF ReceiveReply, Receive, hal
  <2>2. ASSUME WaitingInv
        PROVE  AtRest' /\ Received \in LastMessages(Operation)
    <3>1. device = 0 /\ deviceCancels = 0 /\ Len(mMessageQueue) = 1 /\ Type(1) \in LastMessages(Operation)
      BY <2>1, <2>2 DEF WaitingInv, ReplyInv
    <3>2. mMessageQueue' = <<>> /\ Received = Type(1) BY <1>p, <2>1, <3>1 DEF Received, Type
    <3> QED BY <2>1, <3>1, <3>2 DEF AtRest
  <2>3. ASSUME NEW st \in Ended, Finish(st) PROVE QueueInv'
    <3>1. pc' = "idle" /\ Ids' = Ids BY <2>1, <2>3, FinishEffect DEF Running
    <3>2. ASSUME \A i \in Ids' : Harmless(i)' PROVE AtRest' BY <1>h, <2>2, <3>1, <3>2
    <3> QED BY <3>1, <3>2 DEF QueueInv
  <2>4. CASE Continue /\ Received # Replies[Operation] /\ Operation \notin OneMessage
    <3>1. pc' = "waiting" /\ current' = current /\ Ids' = Ids BY <2>4 DEF Continue, Ids
    <3>2. Received \notin LastMessages(Operation)
      BY <2>1, <2>4 DEF OneMessage, LastMessages, Replies
    <3>3. ~Before(current)' BY <1>h, <2>2, <3>1, <3>2 DEF Before
    <3> QED BY <3>1, <3>3 DEF QueueInv
  <2> QED BY <1>2, <2>3, <2>4 DEF ReceiveReply, Ended
<1>3. CASE ReceiveCanceled
  <2>1. /\ pc' = "canceling" /\ current' = current /\ Ids' = Ids
        /\ device' = 0 /\ deviceCancels' = deviceCancels + 1
        /\ Operation \in Cancelable /\ Received = "canceled"
        /\ mMessageQueue # <<>> /\ mMessageQueue' = Tail(mMessageQueue)
        /\ UNCHANGED <<cancelled, cancelThread>>
    BY <1>3 DEF ReceiveCanceled, Receive, Ids
  <2>2. ASSUME Before(current)' PROVE CancelingInv'
    <3>1. WaitingInv BY <1>h, <2>1, <2>2 DEF Before
    <3>2. 1 \in Place /\ Type(1) = "canceled" BY <1>p, <2>1 DEF Received, Type
    <3>3. current \in cancelled /\ ~cancelThread /\ \A l \in Place : Type(l) = "canceled" => l = 1
      BY <2>1, <3>1, <3>2 DEF WaitingInv, CancelableInv
    <3>4. \A k \in Place' : mMessageQueue'[k].type # "canceled" BY <1>p, <2>1, <3>3 DEF Type
    <3>5. deviceCancels' = 1 BY <2>1, <3>1 DEF WaitingInv
    <3>6. ~cancelThread' BY <2>1, <3>3
    <3> QED BY <2>1, <3>3, <3>4, <3>5, <3>6 DEF CancelingInv, Type
  <2> QED BY <2>1, <2>2 DEF QueueInv
<1>4. CASE ReceiveError \/ ReceiveLast
  <2>1. PICK st \in {"error", "result"} : Finish(st) BY <1>4 DEF ReceiveError, ReceiveLast
  <2>2. /\ Operation \in Cancelable /\ Received \in {"error", Last}
        /\ mMessageQueue # <<>> /\ mMessageQueue' = Tail(mMessageQueue)
        /\ UNCHANGED <<cancelled, device, deviceCancels>>
    BY <1>4 DEF ReceiveError, ReceiveLast, Receive, hal
  <2>3. pc' = "joining" /\ current' = current /\ Ids' = Ids /\ tasks'[current].st = st
    BY <2>1, <2>2, FinishEffect DEF Running, Ended
  <2>4. ASSUME Before(current + 1)' PROVE JoiningInv'
    <3>1. WaitingInv BY <1>h, <1>q, <2>3, <2>4 DEF Before
    <3>2. Harmless(current)' BY <1>q, <2>3, <2>4 DEF Before
    <3>3. current \notin cancelled BY <2>2, <2>3, <3>2 DEF Harmless, Disturbs
    <3>4. 1 \in Place /\ Type(1) \in {"error", Last} BY <1>p, <2>2 DEF Received, Type
    <3>5. device = 0 /\ \A l \in Place : l > 1 => Type(l) = "canceled"
      BY <2>2, <3>1, <3>4 DEF WaitingInv, CancelableInv
    <3>6. \A l \in Place : Type(l) # "canceled"
      BY <2>2, <3>1, <3>3 DEF WaitingInv, CancelableInv
    <3>7. Place' = {} BY <1>p, <2>2, <3>5, <3>6
    <3>8. mMessageQueue' = <<>> BY <1>p, <2>2, <3>7
    <3> QED BY <2>2, <2>3, <3>1, <3>5, <3>8 DEF JoiningInv, AtRest, WaitingInv
  <2> QED BY <2>3, <2>4 DEF QueueInv
<1>5. CASE ReceiveLockout
  <2>1. /\ pc' = "joining" /\ current' = current /\ Ids' = Ids /\ tasks'[current].st = "lockedOut"
    BY <1>5, FinishEffect DEF ReceiveLockout, Receive, Running, Ended, Cancelable
  <2>2. ~Harmless(current)' BY <2>1 DEF Harmless, Disturbs
  <2>3. ~Before(current + 1)' BY <1>q, <2>1, <2>2 DEF Before
  <2> QED BY <2>1, <2>3 DEF QueueInv
<1>6. CASE ReceiveOther
  <2>1. /\ pc' = "waiting" /\ current' = current /\ Ids' = Ids
        /\ Operation \in Cancelable /\ Operation' = Operation /\ Last' = Last
        /\ Received \notin {"canceled", "error", Last}
        /\ mMessageQueue # <<>> /\ mMessageQueue' = Tail(mMessageQueue)
        /\ UNCHANGED <<cancelled, cancelThread, device, deviceCancels>>
    BY <1>6 DEF ReceiveOther, Receive, Continue, Ids, Operation, Last, hal
  <2>2. ASSUME Before(current)' PROVE WaitingInv'
    <3>1. WaitingInv BY <1>h, <2>1, <2>2 DEF Before
    <3>2. \A k \in Place' : k + 1 \in Place /\ mMessageQueue'[k] = mMessageQueue[k + 1]
      BY <1>p, <2>1
    <3>3. \A k \in Place' : mMessageQueue'[k].of = current BY <3>1, <3>2 DEF WaitingInv
    <3>4. Place' \subseteq Nat /\ Place \subseteq Nat BY <1>p, <2>1
    <3>5. CancelableInv'
      <4>1. ASSUME NEW k \in Place', mMessageQueue'[k].type = "canceled"
            PROVE  /\ current' \in cancelled' /\ ~cancelThread'
                   /\ \A l \in Place' : mMessageQueue'[l].type = "canceled" => l = k
        <5>1. CancelableInv /\ k + 1 \in Place /\ Type(k + 1) = "canceled"
          BY <2>1, <3>1, <3>2, <4>1 DEF WaitingInv, Type
        <5>2. /\ current \in cancelled /\ ~cancelThread
              /\ \A l \in Place : Type(l) = "canceled" => l = k + 1
          BY <5>1 DEF CancelableInv
        <5>3. \A l \in Place' : mMessageQueue'[l].type = "canceled" => l = k
          BY <3>2, <3>4, <5>2 DEF Type
        <5> QED BY <2>1, <5>2, <5>3
      <4>2. ASSUME NEW k \in Place', mMessageQueue'[k].type \in {"error", Last}
            PROVE  /\ device' = 0
                   /\ \A l \in Place' : l > k => mMessageQueue'[l].type = "canceled"
        <5>1. CancelableInv /\ k + 1 \in Place /\ Type(k + 1) \in {"error", Last}
          BY <2>1, <3>1, <3>2, <4>2 DEF WaitingInv, Type
        <5>2. device = 0 /\ \A l \in Place : l > k + 1 => Type(l) = "canceled"
          BY <5>1 DEF CancelableInv
        <5>3. \A l \in Place' : l > k => mMessageQueue'[l].type = "canceled"
          BY <3>2, <3>4, <5>2 DEF Type
        <5> QED BY <2>1, <5>2, <5>3
      <4> QED BY <2>1, <4>1, <4>2 DEF CancelableInv, Type
    <3>6. Operation \notin DOMAIN Replies BY <2>1 DEF Cancelable, Replies
    <3> QED BY <2>1, <3>1, <3>3, <3>5, <3>6 DEF WaitingInv
  <2> QED BY <2>1, <2>2 DEF QueueInv
<1> QED
  BY <1>1, <1>2, <1>3, <1>4, <1>5, <1>6 DEF Next, Worker, Join, ReceiveConfirmation, Begin,
    StartCanceled, StartWithoutSession, detectInteractionImpl, resetLockoutImpl, StartOnDevice,
    RefusedByDevice, Start

LEMMA CancelingStep ==
    ASSUME TypeOK, OrderInv, TasksKept, QueueInv, [Next]_vars, ~aborted, ~aborted', pc = "canceling"
    PROVE  QueueInv'
<1>q. /\ current \in Ids /\ current # 0 /\ current \in Nat /\ Ids \subseteq Nat
      /\ mMessageQueue \in Seq(Messages) /\ cancelled \subseteq cancelled'
  BY CurrentKnown, TasksTyped DEF TypeOK, TasksKept
<1>h. ASSUME \A i \in Ids : i < current => Harmless(i)'
      PROVE  CancelingInv
  BY <1>h, EarlierHarmless DEF QueueInv
<1>o. Operation \in Cancelable BY DEF OrderInv, WorkerInv
<1>1. CASE Framework \/ UNCHANGED vars
  <2>1. pc' = "canceling" /\ UNCHANGED <<current, mMessageQueue, device, deviceCancels, cancelThread>>
    BY <1>1 DEF Framework, schedule, cancel, setSessionCallback, vars, engine, hal
  <2>2. ASSUME Before(current)' PROVE CancelingInv'
    <3>1. CancelingInv BY <1>h, <2>1, <2>2 DEF Before, TasksKept
    <3> QED BY <1>q, <2>1, <3>1 DEF CancelingInv, Place, Type
  <2> QED BY <2>1, <2>2 DEF QueueInv
<1>2. CASE FindCancel \/ Device
  <2>1. /\ pc' = "canceling" /\ current' = current /\ Ids' = Ids
        /\ UNCHANGED <<cancelled>> /\ (cancelThread \/ ~cancelThread')
    BY <1>2 DEF FindCancel, Device, DeviceLast, DeviceOther, DeviceConfirmsCancel, engine, Ids
  <2>2. ASSUME Before(current)' PROVE CancelingInv'
    <3>1. CancelingInv BY <1>h, <2>1, <2>2 DEF Before
    <3>2. DeviceConfirmsCancel
      BY <1>2, <3>1 DEF FindCancel, Device, DeviceLast, DeviceOther, CancelingInv
    <3>3. deviceCancels = 1 /\ deviceCancels' = 0 /\ device' = device
      BY <3>1, <3>2 DEF CancelingInv, DeviceConfirmsCancel
    <3> DEFINE msg == [type |-> "canceled", of |-> 0]
    <3>4. mMessageQueue' = Append(mMessageQueue, msg) /\ msg \in Messages
      BY <3>2, MessageTypes DEF DeviceConfirmsCancel, Push
    <3> HIDE DEF msg
    <3>5. /\ Len(mMessageQueue) \in Nat
          /\ Place = 1..Len(mMessageQueue) /\ Place' = 1..(Len(mMessageQueue) + 1)
          /\ Len(mMessageQueue') = Len(mMessageQueue) + 1
          /\ \A k \in Place : mMessageQueue'[k] = mMessageQueue[k]
      BY <1>q, <3>4, Pushed
    <3>6. \A k \in Place : mMessageQueue[k].type # "canceled"
      BY <3>1, <3>3 DEF CancelingInv, Type
    <3>7. \A k \in Place' : mMessageQueue'[k].type = "canceled" => k = Len(mMessageQueue')
      BY <3>5, <3>6
    <3>8. ~cancelThread' BY <2>1, <3>1 DEF CancelingInv
    <3> QED BY <2>1, <3>1, <3>3, <3>7, <3>8 DEF CancelingInv, Type
  <2> QED BY <2>1, <2>2 DEF QueueInv
<1>3. CASE ReceiveConfirmation
  <2>1. /\ Finish("canceled") /\ Received = "canceled"
        /\ mMessageQueue # <<>> /\ mMessageQueue' = Tail(mMessageQueue)
        /\ UNCHANGED <<cancelled, cancelThread, device, deviceCancels>>
    BY <1>3 DEF ReceiveConfirmation, hal
  <2>2. pc' = "joining" /\ current' = current /\ Ids' = Ids
    BY <1>o, <2>1, FinishEffect DEF Running, Ended
  <2>3. ASSUME Before(current + 1)' PROVE JoiningInv'
    <3>1. CancelingInv BY <1>h, <1>q, <2>2, <2>3 DEF Before
    <3>2. /\ Len(mMessageQueue) \in Nat \ {0}
          /\ Place = 1..Len(mMessageQueue) /\ Place' = 1..(Len(mMessageQueue) - 1)
          /\ Head(mMessageQueue) = mMessageQueue[1]
          /\ Place' = {} => mMessageQueue' = <<>>
      BY <1>q, <2>1, Popped
    <3>3. 1 \in Place /\ Type(1) = "canceled" BY <2>1, <3>2 DEF Received, Type
    <3>4. Len(mMessageQueue) = 1 /\ deviceCancels = 0 BY <3>1, <3>3 DEF CancelingInv
    <3>5. mMessageQueue' = <<>> BY <3>2, <3>4
    <3>6. ~cancelThread' BY <2>1, <3>1 DEF CancelingInv
    <3> QED BY <2>1, <3>1, <3>4, <3>5, <3>6 DEF JoiningInv, AtRest, CancelingInv
  <2> QED BY <2>2, <2>3 DEF QueueInv
<1> QED
  BY <1>1, <1>2, <1>3 DEF Next, Worker, Join, ReceiveReply, ReceiveCanceled, ReceiveError,
    ReceiveLast, ReceiveLockout, ReceiveOther, Receive, Begin, StartCanceled,
    StartWithoutSession, detectInteractionImpl, resetLockoutImpl, StartOnDevice,
    RefusedByDevice, Start

LEMMA JoiningStep ==
    ASSUME TypeOK, OrderInv, TasksKept, QueueInv, [Next]_vars, ~aborted, ~aborted', pc = "joining"
    PROVE  QueueInv'
<1>q. /\ current \in Ids /\ current # 0 /\ current \in Nat /\ Ids \subseteq Nat
      /\ tasks[current].st \notin Open /\ tasks[current].st \notin {"queued", "dropped"}
      /\ tasks'[current].st = tasks[current].st
  BY CurrentKnown, TasksTyped DEF TypeOK, OrderInv, WorkerInv, OneRunning, Running, Open, TasksKept
<1>h. ASSUME \A i \in Ids : i < current + 1 => Harmless(i)'
      PROVE  JoiningInv
  <2>1. \A i \in Ids : tasks[i].st # "running" BY DEF OrderInv, OneRunning, Running
  <2>2. Before(current + 1) BY <1>h, <2>1, HarmlessBefore DEF Before
  <2> QED BY <2>2 DEF QueueInv
<1>1. CASE Framework \/ UNCHANGED vars
  <2>1. pc' = "joining" /\ UNCHANGED <<current, mMessageQueue, device, deviceCancels, cancelThread>>
    BY <1>1 DEF Framework, schedule, cancel, setSessionCallback, vars, engine, hal
  <2>2. ASSUME Before(current + 1)' PROVE JoiningInv'
    <3>1. JoiningInv BY <1>h, <2>1, <2>2 DEF Before, TasksKept
    <3> QED BY <1>q, <2>1, <3>1 DEF JoiningInv, AtRest
  <2> QED BY <2>1, <2>2 DEF QueueInv
<1>2. CASE FindCancel \/ Device
  <2>1. pc' = "joining" /\ current' = current /\ Ids' = Ids /\ UNCHANGED <<tasks, cancelled>>
    BY <1>2 DEF FindCancel, Device, DeviceLast, DeviceOther, DeviceConfirmsCancel, engine, Ids
  <2>2. ASSUME Before(current + 1)' PROVE FALSE
    <3>0. \A i \in Ids : i < current + 1 => Harmless(i)' BY <2>1, <2>2 DEF Before
    <3>1. JoiningInv /\ Harmless(current)' BY <1>h, <1>q, <2>1, <3>0 DEF Harmless, Disturbs
    <3>2. FindCancel
      BY <1>2, <3>1 DEF Device, DeviceLast, DeviceOther, DeviceConfirmsCancel, JoiningInv, AtRest
    <3>3. cancelThread /\ current \in cancelled' BY <2>1, <3>2 DEF FindCancel
    <3>4. tasks[current].st = "canceled" BY <1>q, <2>1, <3>1, <3>3 DEF Harmless, Disturbs
    <3> QED BY <3>1, <3>3, <3>4 DEF JoiningInv
  <2> QED BY <2>1, <2>2 DEF QueueInv
<1>3. CASE Join
  <2>1. pc' = "idle" /\ Ids' = Ids /\ UNCHANGED <<mMessageQueue, device, deviceCancels>>
    BY <1>3 DEF Join, Ids, hal
  <2>2. ASSUME \A i \in Ids' : Harmless(i)' PROVE AtRest'
    BY <1>h, <2>1, <2>2 DEF JoiningInv, AtRest
  <2> QED BY <2>1, <2>2 DEF QueueInv
<1> QED
  BY <1>1, <1>2, <1>3 DEF Next, Worker, ReceiveReply, ReceiveCanceled, ReceiveConfirmation,
    ReceiveError, ReceiveLast, ReceiveLockout, ReceiveOther, Receive, Begin, StartCanceled,
    StartWithoutSession, detectInteractionImpl, resetLockoutImpl, StartOnDevice,
    RefusedByDevice, Start

LEMMA QueueStep ==
    ASSUME TypeOK, OrderInv, TasksKept, QueueInv, [Next]_vars
    PROVE  QueueInv'
<1>1. CASE aborted' BY <1>1 DEF QueueInv
<1>2. ASSUME ~aborted' PROVE ~aborted
  BY <1>2 DEF Next, Framework, schedule, cancel, setSessionCallback, Worker, Begin,
    StartCanceled, StartWithoutSession, detectInteractionImpl, resetLockoutImpl, StartOnDevice,
    RefusedByDevice, Start, Receive, ReceiveReply, ReceiveCanceled, ReceiveConfirmation,
    ReceiveError, ReceiveLast, ReceiveLockout, ReceiveOther, Join, FindCancel, Device,
    DeviceLast, DeviceOther, DeviceConfirmsCancel, vars
<1>3. pc \in {"idle", "waiting", "canceling", "joining"} BY DEF TypeOK
<1> QED BY <1>1, <1>2, <1>3, IdleStep, WaitingStep, CancelingStep, JoiningStep

-----------------------------------------------------------------------------
(* What the framework hears                                                *)

(* Whoever disturbed the queue before a task that has begun did so for     *)
(* good.                                                                   *)
LEMMA DisturbsKept ==
    ASSUME TypeOK, OrderInv, TasksKept,
           NEW i \in Ids, tasks[i].st \notin {"queued", "dropped"},
           NEW j \in 1..(i - 1), Disturbs(j)
    PROVE  Disturbs(j)'
<1>1. j \in Ids /\ j < i BY TasksTyped
<1>2. tasks'[j].st = tasks[j].st /\ cancelled \subseteq cancelled'
  BY <1>1 DEF OrderInv, InOrder, TasksKept
<1> QED BY <1>2 DEF Disturbs

LEMMA NotBefore ==
    ASSUME TypeOK, pc # "idle", ~Before(current)
    PROVE  \E j \in 1..(current - 1) : Disturbs(j)
  BY CurrentKnown, TasksTyped DEF Before, Harmless

LEMMA AnswersStep ==
    ASSUME TypeOK, OrderInv, TasksKept, QueueInv, AnswersKnown, [Next]_vars
    PROVE  AnswersKnown'
<1> DEFINE Known(i) ==
               /\ tasks[i].st = "canceled" =>
                      i \in cancelled \/ \E j \in 1..(i - 1) : Disturbs(j)
               /\ tasks[i].st = "gaveUp" =>
                      tasks[i].op = "removeEnrollments" \/ \E j \in 1..(i - 1) : Disturbs(j)
<1>k. (\A i \in Ids' : Known(i)') => AnswersKnown'
  BY DEF AnswersKnown, CanceledOnRequest, GivenUpKnown
<1>1. ASSUME NEW i \in Ids, tasks'[i].st = tasks[i].st
      PROVE  Known(i)'
  <2>1. CASE tasks[i].st \in {"canceled", "gaveUp"}
    <3>1. \A j \in 1..(i - 1) : Disturbs(j) => Disturbs(j)' BY <2>1, DisturbsKept
    <3>2. Known(i) BY DEF AnswersKnown, CanceledOnRequest, GivenUpKnown
    <3>3. tasks'[i].op = tasks[i].op /\ cancelled \subseteq cancelled' BY DEF TasksKept
    <3> QED BY <1>1, <3>1, <3>2, <3>3
  <2> QED BY <1>1, <2>1
<1>2. ASSUME NEW i \in Ids', i \notin Ids
      PROVE  Known(i)'
  BY <1>2 DEF TasksKept
<1>3. ASSUME \A i \in Ids : tasks'[i].st # tasks[i].st => Known(i)'
      PROVE  AnswersKnown'
  BY <1>k, <1>1, <1>2, <1>3
<1> HIDE DEF Known
<1>4. ASSUME \A i \in Ids : tasks'[i].st = tasks[i].st
      PROVE  AnswersKnown'
  BY <1>3, <1>4
<1>5. ASSUME NEW i \in Ids, Begin(i)
      PROVE  AnswersKnown'
  <2>1. CASE StartWithoutSession(i) BY <1>4, <2>1 DEF StartWithoutSession
  <2>2. CASE StartOnDevice(i)
    <3>1. \A j \in Ids : tasks'[j].st = IF j = i THEN "running" ELSE tasks[j].st
      BY <2>2, Starts, BeginEffect DEF States
    <3>2. Known(i)' BY <3>1 DEF Known
    <3> QED BY <1>3, <3>1, <3>2
  <2>3. ASSUME NEW st \in States, st # "gaveUp", st = "canceled" => i \in cancelled,
               pc = "idle" /\ EarliestQueued(i),
               Assign(i, st)
        PROVE  AnswersKnown'
    <3>1. \A j \in Ids : tasks'[j].st = IF j = i THEN st ELSE tasks[j].st BY <2>3, BeginEffect
    <3>2. Known(i)' BY <2>3, <3>1 DEF Known, TasksKept
    <3> QED BY <1>3, <3>1, <3>2
  <2> QED BY <1>5, <2>1, <2>2, <2>3, BeginsAndEnds DEF Begin, States
<1>6. CASE ReceiveReply \/ ReceiveConfirmation \/ ReceiveError \/ ReceiveLast \/ ReceiveLockout
  <2>1. CASE Continue BY <1>4, <2>1 DEF Continue
  <2>q. /\ current \in Ids /\ pc \in Running /\ pc # "idle" /\ ~aborted
        /\ tasks[current].st \notin {"queued", "dropped"}
    BY <1>6, EndingSteps, CurrentKnown DEF OrderInv, WorkerInv, ReceiveReply,
      ReceiveConfirmation, ReceiveError, ReceiveLast, ReceiveLockout, Receive
  <2>c. PICK i \in Ids : i = current BY <2>q
  <2>2. ASSUME NEW st \in Ended, Finish(st), Known(i)'
        PROVE  AnswersKnown'
    <3>1. \A j \in Ids : j # i => tasks'[j].st = tasks[j].st BY <2>q, <2>c, <2>2, FinishEffect
    <3> QED BY <1>3, <2>2, <3>1
  <2>3. ASSUME NEW st \in Ended, Finish(st), ~Before(current)
        PROVE  AnswersKnown'
    <3>1. \E j \in 1..(i - 1) : Disturbs(j)' BY <2>q, <2>c, <2>3, NotBefore, DisturbsKept
    <3>2. Known(i)' BY <3>1 DEF Known
    <3> QED BY <2>2, <2>3, <3>2
  <2>4. ASSUME NEW st \in Ended \ {"canceled", "gaveUp"}, Finish(st)
        PROVE  AnswersKnown'
    <3>1. tasks'[i].st = st BY <2>q, <2>c, <2>4, FinishEffect
    <3>2. Known(i)' BY <3>1 DEF Known
    <3> QED BY <2>2, <2>4, <3>2
  <2>5. CASE ReceiveConfirmation /\ Finish("canceled") /\ Before(current)
    <3>1. i \in cancelled /\ tasks'[i].st = "canceled"
      BY <2>q, <2>c, <2>5, FinishEffect DEF ReceiveConfirmation, QueueInv, CancelingInv, Ended
    <3>2. Known(i)' BY <3>1 DEF Known, TasksKept
    <3> QED BY <2>2, <2>5, <3>2 DEF Ended
  <2>6. CASE ReceiveReply /\ Finish("gaveUp") /\ Before(current)
    <3>1. /\ WaitingInv /\ Operation \in DOMAIN Replies /\ mMessageQueue # <<>>
          /\ Received # Replies[Operation] /\ Operation \in OneMessage
          /\ tasks'[i].st = "gaveUp" /\ tasks'[i].op = Operation
      <4>1. /\ pc = "waiting" /\ Operation \in DOMAIN Replies /\ mMessageQueue # <<>>
            /\ tasks'[i].st = "gaveUp" /\ tasks'[i].op = Operation
        BY <2>q, <2>c, <2>6, FinishEffect DEF ReceiveReply, Receive, Ended, Operation
      <4>2. Received # Replies[Operation] /\ Operation \in OneMessage
        <5>1. ~Finish("result") BY <2>q, <2>c, <4>1, FinishEffect DEF Ended
        <5>2. tasks[i].st = "running" BY <2>q, <2>c DEF OrderInv, OneRunning
        <5>3. ~Continue BY <4>1, <5>2 DEF Continue
        <5> QED BY <2>6, <5>1, <5>3 DEF ReceiveReply
      <4> QED BY <2>6, <2>q, <4>1, <4>2 DEF QueueInv
    <3>2. Received \in LastMessages(Operation)
      <4>1. Len(mMessageQueue) = 1 /\ mMessageQueue[1].type \in LastMessages(Operation)
        BY <3>1 DEF WaitingInv, ReplyInv, Type
      <4> QED BY <4>1 DEF Received
    <3>3. Operation = "removeEnrollments" BY <3>1, <3>2 DEF OneMessage, LastMessages, Replies
    <3>4. Known(i)' BY <3>1, <3>3 DEF Known
    <3> QED BY <2>2, <2>6, <3>4 DEF Ended
  <2>7. \/ \E st \in Ended \ {"canceled", "gaveUp"} : Finish(st)
        \/ Continue
        \/ ReceiveConfirmation /\ Finish("canceled")
        \/ ReceiveReply /\ Finish("gaveUp")
    BY <1>6 DEF ReceiveReply, ReceiveConfirmation, ReceiveError, ReceiveLast, ReceiveLockout,
      Ended
  <2> QED BY <2>1, <2>3, <2>4, <2>5, <2>6, <2>7 DEF Ended
<1>7. ASSUME NEW op \in Ops, schedule(op)
      PROVE  AnswersKnown'
  BY <1>4, <1>7, Scheduled
<1>8. CASE ReceiveCanceled \/ ReceiveOther \/ Join \/ FindCancel \/ Device \/ UNCHANGED vars
           \/ (\E i \in Ids : cancel(i)) \/ (\E cb \in BOOLEAN : setSessionCallback(cb))
  <2>1. UNCHANGED tasks
    BY <1>8 DEF ReceiveCanceled, ReceiveOther, Receive, Continue, Join, FindCancel, Device,
      DeviceLast, DeviceOther, DeviceConfirmsCancel, cancel, setSessionCallback, vars
  <2> QED BY <1>4, <2>1
<1> QED BY <1>5, <1>6, <1>7, <1>8 DEF Next, Framework, Worker

LEMMA OwnResultStep ==
    ASSUME TypeOK, OrderInv, QueueInv, [Next]_vars
    PROVE  OwnResult
<1> SUFFICES ASSUME NEW i \in Ids, i = current, tasks[i].st = "running", tasks'[i].st = "result",
                    Before(current)
             PROVE  Head(mMessageQueue).of = i
  <2>1. ASSUME NEW i \in Ids, i = current, tasks[i].st = "running", ~Before(current)
        PROVE  \E j \in 1..(i - 1) : Disturbs(j)
    BY <2>1, NotBefore DEF OrderInv, OneRunning, Running
  <2> QED BY <2>1 DEF OwnResult
<1>1. pc \in Running /\ pc # "idle" /\ current \in Ids BY DEF OrderInv, OneRunning, Running
<1>2. ASSUME pc = "waiting", ~aborted, mMessageQueue # <<>>
      PROVE  Head(mMessageQueue).of = i
  <2>1. WaitingInv BY <1>2 DEF QueueInv
  <2>2. Len(mMessageQueue) \in Nat \ {0} /\ Place = 1..Len(mMessageQueue)
    BY <1>2, EmptySeq, LenProperties DEF TypeOK, Place
  <2>3. mMessageQueue[1].of = current BY <2>1, <2>2 DEF WaitingInv
  <2> QED BY <2>3
<1>3. tasks' # tasks  OBVIOUS
<1>4. ~ReceiveConfirmation
  <2>1. ASSUME Finish("canceled") PROVE FALSE BY <1>1, <2>1, FinishEffect DEF Ended
  <2> QED BY <1>3, <2>1 DEF ReceiveConfirmation, Continue
<1>5. ~(\E op \in Ops : schedule(op)) BY Scheduled
<1>6. CASE ReceiveReply \/ ReceiveError \/ ReceiveLast \/ ReceiveLockout
  BY <1>2, <1>6 DEF ReceiveReply, ReceiveError, ReceiveLast, ReceiveLockout, Receive
<1>7. CASE ReceiveCanceled \/ ReceiveOther \/ Join \/ FindCancel \/ Device \/ UNCHANGED vars
           \/ (\E k \in Ids : cancel(k)) \/ (\E cb \in BOOLEAN : setSessionCallback(cb))
           \/ (\E k \in Ids : Begin(k))
  BY <1>1, <1>3, <1>7 DEF ReceiveCanceled, ReceiveOther, Receive, Continue, Join, FindCancel,
    Device, DeviceLast, DeviceOther, DeviceConfirmsCancel, cancel, setSessionCallback, vars,
    Begin, StartCanceled, StartWithoutSession, detectInteractionImpl, resetLockoutImpl,
    StartOnDevice, RefusedByDevice, Start
<1> QED BY <1>4, <1>5, <1>6, <1>7 DEF Next, Framework, Worker

-----------------------------------------------------------------------------
(* The theorems                                                            *)

LEMMA InitInv == Init => IInv
<1> SUFFICES ASSUME Init PROVE IInv
  OBVIOUS
<1>1. tasks = <<>> /\ Ids = {} /\ Len(tasks) = 0 BY DEF Init, Ids
<1>2. TypeOK
  <2>1. tasks \in Seq([op : Ops, st : Ended \cup {"queued", "running"}]) BY <1>1
  <2>2. mMessageQueue \in Seq(Messages) BY DEF Init
  <2>3. mCb \in BOOLEAN /\ cancelThread \in BOOLEAN /\ aborted \in BOOLEAN BY Zenon DEF Init
  <2>4. /\ cancelled \subseteq Ids /\ current \in 0..Len(tasks) /\ device \in 0..Len(tasks)
        /\ deviceCancels \in Nat
        /\ pc \in {"idle", "waiting", "canceling", "joining"} /\ (pc = "idle" <=> current = 0)
    BY <1>1 DEF Init
  <2> QED BY <2>1, <2>2, <2>3, <2>4 DEF TypeOK
<1>3. OrderInv BY <1>1 DEF Init, OrderInv, OneRunning, InOrder, WorkerInv, DeviceInv
<1>4. QueueInv BY DEF Init, QueueInv, AtRest
<1>5. AnswersKnown BY <1>1 DEF AnswersKnown, CanceledOnRequest, GivenUpKnown
<1> QED BY <1>2, <1>3, <1>4, <1>5 DEF IInv

LEMMA StepInv == IInv /\ [Next]_vars => IInv'
<1> SUFFICES ASSUME IInv, [Next]_vars PROVE IInv'
  OBVIOUS
<1>1. TypeOK /\ OrderInv /\ QueueInv /\ AnswersKnown BY DEF IInv
<1>2. TasksKept BY <1>1, TaskStep
<1> QED BY <1>1, <1>2, TypeStep, OrderStep, QueueStep, AnswersStep DEF IInv

LEMMA Invariance == Spec => []IInv
<1>1. Init => IInv BY InitInv
<1>2. IInv /\ [Next]_vars => IInv' BY StepInv
<1> QED BY <1>1, <1>2, PTL DEF Spec

LEMMA InvNothingLeft == IInv => NothingLeft
  BY DEF IInv, QueueInv, NothingLeft, Harmless, AtRest

LEMMA InvOwnAnswers == IInv /\ IInv' /\ [Next]_vars => OwnResult /\ AnswersKnown'
  BY OwnResultStep DEF IInv

(* As long as no operation disturbed the queue, no operation leaves a      *)
(* message or a working device behind: what FingerprintEngine relies on in *)
(* never clearing mMessageQueue, for every set of operations, any number   *)
(* of them, any size of the worker's queue and every order of              *)
(* cancellations, sessions and messages.                                   *)
THEOREM NoneLeft == Spec => []NothingLeft
<1>1. IInv => NothingLeft BY InvNothingLeft
<1> QED BY <1>1, Invariance, PTL

(* The results of FingerprintEngine's unlabelled messages go to the        *)
(* operation they belong to, and whoever hears CANCELED or nothing can be  *)
(* told why, for every set of operations and every bound.                  *)
THEOREM AnswersOwned == Spec => OwnAnswers
<1>1. IInv /\ IInv' /\ [Next]_vars => OwnResult /\ AnswersKnown' BY InvOwnAnswers
<1>2. Spec => []IInv BY Invariance
<1>3. []IInv /\ [][Next]_vars => [][OwnResult /\ AnswersKnown']_vars BY <1>1, PTL
<1> QED BY <1>2, <1>3, PTL DEF Spec, OwnAnswers
=============================================================================
