------------------------- MODULE FingerprintLockout -------------------------
(***************************************************************************)
(* Lockout of the fingerprint HAL: LockoutTracker, the lockout timer       *)
(* thread of FingerprintEngine and the operations that reach them.         *)
(*                                                                         *)
(* The worker thread runs authenticateImpl, holding mMutex from its first  *)
(* line until it has joined its cancel thread, and resetLockoutImpl, which *)
(* holds it only inside clearLockout.  The timer thread sleeps, reads the  *)
(* aborted flag without the mutex, may wait for the mutex in clearLockout, *)
(* and then resets the two flags one by one, again without the mutex.      *)
(*                                                                         *)
(* Time is relative: the age of the timed lockout and what is left of the  *)
(* timer's sleep, both in ticks; nothing in the code reads more than that. *)
(* Definitions named Bug... are what-if variants of the definition that    *)
(* follows them.                                                           *)
(***************************************************************************)
EXTENDS Naturals, FingerprintEngine

CONSTANTS
    TimedThreshold,      \* LOCKOUT_TIMED_THRESHOLD (5)
    PermanentThreshold,  \* LOCKOUT_PERMANENT_THRESHOLD (20)
    Duration,            \* LOCKOUT_TIMED_DURATION, in ticks
    MaxFailures,         \* bound on mFailedCount
    MayBe                \* which of the Freedoms the surroundings may take

(* What a framework, a scheduler or an allocator may do or not do:         *)
(* call resetLockout; close and open sessions; authenticate although it    *)
(* was told of a lockout or has closed the session; let the sensor be      *)
(* touched again while a timer thread that has cleared its lockout has yet *)
(* to reset the flags; hand out memory that is not zero.                   *)
Freedoms == {"resets", "closes", "insists", "hurries", "dirtyHeap"}

ASSUME LockoutAssumption ==
    /\ TimedThreshold \in Nat \ {0}
    /\ PermanentThreshold \in Nat \ {0}
    /\ Duration \in Nat \ {0}
    /\ MaxFailures \in Nat
    /\ MayBe \subseteq Freedoms

VARIABLES
    world,                  \* the freedoms taken in this behaviour
    mFailedCount,
    mFailedCountTimed,
    mCurrentMode,
    elapsed,                \* since mLockoutTimedStart, at most Duration
    isLockoutTimerStarted,
    isLockoutTimerAborted,
    worker,                 \* what the worker thread is doing
    timer,                  \* the timer thread
    left,                   \* what is left of its sleep
    late,                   \* the last write of a timer thread is to come
    told                    \* last lockout state the framework was told

tracker == <<mFailedCount, mFailedCountTimed, mCurrentMode, elapsed>>
flags   == <<isLockoutTimerStarted, isLockoutTimerAborted>>
thread  == <<timer, left, late>>
lockoutVars == <<world, tracker, flags, thread, mCb, worker, told, aborted>>

(* "other" is a value of the enum that no statement of the code assigns.   *)
Modes == {"none", "timed", "permanent", "other"}

LockoutTypeOK ==
    /\ world \subseteq MayBe
    /\ mFailedCount \in Nat
    /\ mFailedCountTimed \in 0..mFailedCount
    /\ mCurrentMode \in Modes
    /\ elapsed \in 0..Duration
    /\ isLockoutTimerStarted \in BOOLEAN
    /\ isLockoutTimerAborted \in BOOLEAN
    /\ mCb \in BOOLEAN
    /\ worker \in {"idle", "authenticating", "joining", "resetting", "aborting"}
    /\ timer \in {"none", "sleeping", "clearing", "leaving"}
    /\ left \in 0..Duration
    /\ late \in BOOLEAN
    /\ told \in {"none", "timed", "permanent"}
    /\ aborted \in BOOLEAN

(* The constructors leave mCurrentMode, mLockoutTimedStart and the two     *)
(* flags uninitialised.                                                    *)
LockoutInit ==
    /\ world \in SUBSET MayBe
    /\ mFailedCount = 0 /\ mFailedCountTimed = 0
    /\ \/ /\ mCurrentMode = "none" /\ elapsed = 0
          /\ isLockoutTimerStarted = FALSE /\ isLockoutTimerAborted = FALSE
       \/ /\ "dirtyHeap" \in world
          /\ mCurrentMode \in Modes /\ elapsed \in 0..Duration
          /\ isLockoutTimerStarted \in BOOLEAN
          /\ isLockoutTimerAborted \in BOOLEAN
    /\ mCb = TRUE
    /\ worker = "idle"
    /\ timer = "none" /\ left = 0 /\ late = FALSE
    /\ told = "none"
    /\ aborted = FALSE

(* Every step: no CHECK has failed, and the surroundings keep their ways.  *)
Alive == ~aborted /\ UNCHANGED world

MutexFree == worker \notin {"authenticating", "joining"}

-----------------------------------------------------------------------------
(* LockoutTracker                                                          *)

BugResetKeepsTimed(dueToTimeout) ==
    /\ mFailedCount' = IF dueToTimeout THEN mFailedCount ELSE 0
    /\ UNCHANGED mFailedCountTimed
    /\ mCurrentMode' = "none"
    /\ elapsed' = 0

BugResetKeepsMode(dueToTimeout) ==
    /\ mFailedCount' = IF dueToTimeout THEN mFailedCount ELSE 0
    /\ mFailedCountTimed' = 0
    /\ UNCHANGED <<mCurrentMode, elapsed>>

reset(dueToTimeout) ==
    /\ mFailedCount' = IF dueToTimeout THEN mFailedCount ELSE 0
    /\ mFailedCountTimed' = 0
    /\ mCurrentMode' = "none"
    /\ elapsed' = 0

(* addFailedAttempt, then the getMode of checkSensorLockout, which also    *)
(* ends a timed lockout whose time has passed.                             *)
ModeAfterAttempt ==
    IF mFailedCount + 1 >= PermanentThreshold THEN "permanent"
    ELSE IF mFailedCountTimed + 1 >= TimedThreshold /\ mCurrentMode = "none"
         THEN "timed"
    ELSE IF mCurrentMode = "timed" /\ elapsed >= Duration THEN "none"
    ELSE mCurrentMode

(* How long the lockout lasts when the failed attempt is reported: it      *)
(* starts with this attempt or was on before.                              *)
ElapsedAfterAttempt ==
    IF ModeAfterAttempt = mCurrentMode THEN elapsed ELSE 0

addFailedAttempt ==
    /\ mFailedCount' = mFailedCount + 1
    /\ mFailedCountTimed' = mFailedCountTimed + 1
    /\ mCurrentMode' = ModeAfterAttempt
    /\ elapsed' = ElapsedAfterAttempt

BugTimeLeftIsElapsed == ElapsedAfterAttempt

getLockoutTimeLeft == Duration - ElapsedAfterAttempt

-----------------------------------------------------------------------------
(* The worker thread                                                       *)

(* authenticateImpl takes the mutex and starts the sensor; it does not     *)
(* look at the lockout state.                                              *)
AuthenticateBegin ==
    /\ Alive
    /\ worker = "idle"
    /\ "insists" \in world \/ (told = "none" /\ mCb)
    /\ IF mCb THEN worker' = "authenticating" /\ UNCHANGED aborted
              ELSE aborted' = TRUE /\ UNCHANGED worker
    /\ UNCHANGED <<tracker, flags, thread, mCb, told>>

AuthenticateSucceeded ==
    /\ Alive
    /\ worker = "authenticating"
    /\ reset(TRUE)
    /\ worker' = "joining"
    /\ UNCHANGED <<flags, thread, mCb, told, aborted>>

(* checkSensorLockout when there is a lockout.  A timed one starts the     *)
(* timer unless one is running.                                            *)
EnterLockout(mode) ==
    /\ told' = mode
    /\ worker' = "joining"
    /\ \/ /\ mode = "permanent"
          /\ isLockoutTimerAborted' = TRUE
          /\ UNCHANGED <<isLockoutTimerStarted, thread>>
       \/ /\ mode = "timed" /\ isLockoutTimerStarted
          /\ UNCHANGED <<flags, thread>>
       \/ /\ mode = "timed" /\ ~isLockoutTimerStarted
          /\ isLockoutTimerStarted' = TRUE
          /\ timer' = "sleeping"
          /\ left' = getLockoutTimeLeft
          /\ UNCHANGED <<isLockoutTimerAborted, late>>

AuthenticateFailed ==
    /\ Alive
    /\ worker = "authenticating"
    /\ mFailedCount < MaxFailures
    /\ "hurries" \in world \/ (timer # "leaving" /\ ~late)
    /\ addFailedAttempt
    /\ IF ModeAfterAttempt \in {"timed", "permanent"}
       THEN EnterLockout(ModeAfterAttempt)
       ELSE UNCHANGED <<told, worker, flags, thread>>
    /\ UNCHANGED <<mCb, aborted>>

(* The operation ends for another reason: cancelled, or a sensor error.    *)
AuthenticateEnded ==
    /\ Alive
    /\ worker = "authenticating"
    /\ worker' = "joining"
    /\ UNCHANGED <<tracker, flags, thread, mCb, told, aborted>>

(* The cancel thread is joined, at the latest when its one-second wait is  *)
(* over, and the mutex goes.                                               *)
AuthenticateLeft ==
    /\ Alive
    /\ worker = "joining"
    /\ worker' = "idle"
    /\ UNCHANGED <<tracker, flags, thread, mCb, told, aborted>>

(* clearLockout, shared by resetLockoutImpl and the timer thread           *)
clearLockout(dueToTimeout) ==
    IF mCb
    THEN /\ reset(dueToTimeout)
         /\ told' = "none"
         /\ UNCHANGED aborted
    ELSE /\ aborted' = TRUE
         /\ UNCHANGED <<tracker, told>>

(* resetLockoutImpl: clearLockout under the mutex, then, without it, a     *)
(* look at the started flag and the write of the aborted flag.             *)
ResetLockout ==
    /\ Alive
    /\ "resets" \in world /\ worker = "idle"
    /\ "insists" \in world \/ mCb
    /\ clearLockout(FALSE)
    /\ worker' = "resetting"
    /\ UNCHANGED <<flags, thread, mCb>>

ResetLockoutLook ==
    /\ Alive
    /\ worker = "resetting"
    /\ worker' = IF isLockoutTimerStarted THEN "aborting" ELSE "idle"
    /\ UNCHANGED <<tracker, flags, thread, mCb, told, aborted>>

ResetLockoutAbort ==
    /\ Alive
    /\ worker = "aborting"
    /\ isLockoutTimerAborted' = TRUE
    /\ worker' = "idle"
    /\ UNCHANGED <<tracker, isLockoutTimerStarted, thread, mCb, told, aborted>>

-----------------------------------------------------------------------------
(* The timer thread: lockoutTimerExpired                                   *)

TimerExpired ==
    /\ Alive
    /\ timer = "sleeping" /\ left = 0
    /\ timer' = IF isLockoutTimerAborted THEN "leaving" ELSE "clearing"
    /\ UNCHANGED <<tracker, flags, left, late, mCb, worker, told, aborted>>

TimerClear ==
    /\ Alive
    /\ timer = "clearing" /\ MutexFree
    /\ clearLockout(TRUE)
    /\ timer' = "leaving"
    /\ UNCHANGED <<flags, left, late, mCb, worker>>

BugTimerStaysStarted ==
    /\ Alive
    /\ timer = "leaving" /\ ~late
    /\ isLockoutTimerStarted' = isLockoutTimerAborted
    /\ timer' = "none" /\ late' = TRUE
    /\ UNCHANGED <<tracker, isLockoutTimerAborted, left, mCb, worker, told, aborted>>

BugTimerNeverReset ==
    /\ Alive
    /\ timer = "leaving" /\ ~late
    /\ timer' = "none" /\ late' = TRUE
    /\ UNCHANGED <<tracker, flags, left, mCb, worker, told, aborted>>

TimerResetsStarted ==
    /\ Alive
    /\ timer = "leaving" /\ ~late
    /\ isLockoutTimerStarted' = FALSE
    /\ timer' = "none" /\ late' = TRUE
    /\ UNCHANGED <<tracker, isLockoutTimerAborted, left, mCb, worker, told, aborted>>

(* The thread's last write; another timer may be running by now, but not   *)
(* be done: TimerResetsStarted waits.                                      *)
TimerResetsAborted ==
    /\ Alive
    /\ late
    /\ isLockoutTimerAborted' = FALSE
    /\ late' = FALSE
    /\ UNCHANGED <<tracker, isLockoutTimerStarted, timer, left, mCb, worker, told, aborted>>

-----------------------------------------------------------------------------
(* The session                                                             *)

(* Session::close and onClientDeath take the callback away, the            *)
(* constructor of the next session sets its own; both take the mutex.      *)
CallbackChanges(cb) ==
    /\ Alive
    /\ "closes" \in world /\ MutexFree
    /\ mCb = ~cb
    /\ mCb' = cb
    /\ UNCHANGED <<tracker, flags, thread, worker, told, aborted>>

Tick ==
    /\ Alive
    /\ elapsed' = IF mCurrentMode = "timed" /\ elapsed < Duration
                  THEN elapsed + 1 ELSE elapsed
    /\ left' = IF timer = "sleeping" /\ left > 0 THEN left - 1 ELSE left
    /\ UNCHANGED <<mFailedCount, mFailedCountTimed, mCurrentMode, flags, timer,
                   late, mCb, worker, told, aborted>>

WorkerStep ==
    \/ AuthenticateBegin \/ AuthenticateSucceeded \/ AuthenticateFailed
    \/ AuthenticateEnded \/ AuthenticateLeft
    \/ ResetLockout \/ ResetLockoutLook \/ ResetLockoutAbort
TimerStep ==
    TimerExpired \/ TimerClear \/ TimerResetsStarted \/ TimerResetsAborted

LockoutNext ==
    \/ WorkerStep
    \/ TimerStep
    \/ \E cb \in BOOLEAN : CallbackChanges(cb)
    \/ Tick

LockoutSpec == LockoutInit /\ [][LockoutNext]_lockoutVars

(* Time passes, the threads of the engine are scheduled, and an            *)
(* authentication that is over gives the mutex back.  Nothing is assumed   *)
(* of the framework or of the sensor.                                      *)
LockoutFairSpec ==
    /\ LockoutSpec
    /\ WF_lockoutVars(Tick)
    /\ WF_lockoutVars(TimerStep)
    /\ WF_lockoutVars(AuthenticateLeft)

-----------------------------------------------------------------------------
(* Properties                                                              *)

(* The started flag, which decides whether checkSensorLockout starts a     *)
(* timer, says whether a timer thread exists that may still clear: there   *)
(* are never two, and a lockout is never left without one because of a     *)
(* flag that was not reset.  (In zeroed memory.)                           *)
OneTimer == "dirtyHeap" \notin world => (isLockoutTimerStarted <=> timer # "none")

(* What a framework that respects lockouts was told last and what the      *)
(* tracker enforces agree, however resets, late timers, sessions and       *)
(* attempts interleave, although getMode may end a lockout silently.       *)
ToldIsMode ==
    world \cap {"insists", "dirtyHeap"} = {} => told = mCurrentMode

(* While there is no lockout there is an attempt left before the next: no  *)
(* path back to "none" leaves a count at its threshold.  (resetLockout and *)
(* a timer that waits for the mutex may meet, which clears a permanent     *)
(* lockout and keeps its count.)                                           *)
AttemptLeft ==
    world \cap {"insists", "dirtyHeap"} = {} /\ mCurrentMode = "none" =>
        /\ mFailedCountTimed < TimedThreshold
        /\ "resets" \notin world => mFailedCount < PermanentThreshold

(* A timed lockout that nobody resets lasts its full time: the timer of an *)
(* earlier lockout never ends a later one.                                 *)
NotCutShort ==
    [][world \cap {"insists", "dirtyHeap", "resets"} = {}
          /\ told = "timed" /\ told' = "none" => elapsed = Duration]_lockoutVars

(* No timer ends a permanent lockout: only resetLockout does.              *)
PermanentStays ==
    [][world \cap {"insists", "dirtyHeap", "resets"} = {}
          /\ told = "permanent" => told' = told]_lockoutVars

(* A lockout lasts as long as it should.                                   *)
LockoutLasts == NotCutShort /\ PermanentStays

(* A framework that was told of a timed lockout is told of its end.        *)
TimedEnds ==
    (told = "timed" /\ world \subseteq {"closes"}) ~> (told # "timed" \/ aborted)
=============================================================================
