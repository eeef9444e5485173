------------------------- MODULE FingerprintSession -------------------------
(***************************************************************************)
(* The fingerprint HAL's operations: a Session schedules them as tasks of  *)
(* one worker thread, FingerprintEngine starts them on the vendor device   *)
(* and waits for the messages the device pushes into mMessageQueue from a  *)
(* thread of its own.  authenticate and enroll are accompanied by a thread *)
(* that turns a cancellation into a message of the same queue.             *)
(*                                                                         *)
(* A message does not say which operation it belongs to.  The field "of"   *)
(* is what the model knows of it; the code sees the type alone.            *)
(* Definitions named Bug... are what-if variants of the definition that    *)
(* follows them.                                                           *)
(***************************************************************************)
EXTENDS Naturals, Sequences, FiniteSets, FingerprintEngine

CONSTANTS
    Ops,            \* the operations the framework uses
    MaxTasks,       \* bound on the operations of a behaviour
    QueueSize,      \* MAX_WORKER_QUEUE_SIZE (5)
    MaxMessages,    \* bound on mMessageQueue, for the device's messages
    MayCancel,      \* the framework cancels operations
    MayClose        \* the framework closes and opens sessions

Replies == [generateChallenge         |-> "challenge",
            revokeChallenge           |-> "revoked",
            getAuthenticatorId        |-> "authenticatorId",
            invalidateAuthenticatorId |-> "authenticatorId",
            enumerateEnrollments      |-> "enumerating",
            removeEnrollments         |-> "removed"]

Cancelable == {"authenticate", "enroll"}
OneMessage == {"enumerateEnrollments", "removeEnrollments"}
AllOps     == DOMAIN Replies \cup Cancelable \cup {"detectInteraction", "resetLockout"}

ASSUME SessionAssumption ==
    /\ Ops \subseteq AllOps
    /\ {MaxTasks, QueueSize, MaxMessages} \subseteq Nat \ {0}
    /\ {MayCancel, MayClose} \subseteq BOOLEAN

VARIABLES
    tasks,          \* every operation scheduled so far: [op, st]
    cancelled,      \* those whose cancellation signal was given
    current,        \* the operation the worker thread is in, or 0
    pc,             \* where it is
    cancelThread,   \* is the current operation's cancel thread running
    mMessageQueue,
    device,         \* the operation the device works on, or 0
    deviceCancels   \* cancel() calls the device has yet to confirm

engine  == <<current, pc, cancelThread>>
hal     == <<device, deviceCancels>>
vars    == <<tasks, cancelled, mCb, engine, mMessageQueue, hal, aborted>>

Ids == DOMAIN tasks

(* How an operation ends: with its result, an error, "canceled", a lockout *)
(* callback, or nothing the framework hears of: refused by the device, or  *)
(* given up because of an unexpected message.                              *)
Ended    == {"result", "error", "canceled", "lockedOut", "ignored", "gaveUp", "dropped"}
Messages == [type : {Replies[o] : o \in DOMAIN Replies}
                        \cup {"acquired", "match", "noMatch", "progress", "enrolled",
                              "error", "canceled"},
             of : Nat]

TypeOK ==
    /\ tasks \in Seq([op : Ops, st : Ended \cup {"queued", "running"}])
    /\ cancelled \subseteq Ids
    /\ mCb \in BOOLEAN
    /\ current \in 0..Len(tasks)
    /\ pc \in {"idle", "waiting", "canceling", "joining"}
    /\ pc = "idle" <=> current = 0
    /\ cancelThread \in BOOLEAN
    /\ mMessageQueue \in Seq(Messages)
    /\ device \in 0..Len(tasks)
    /\ deviceCancels \in Nat
    /\ aborted \in BOOLEAN

Init ==
    /\ tasks = <<>> /\ cancelled = {}
    /\ mCb = TRUE
    /\ current = 0 /\ pc = "idle" /\ cancelThread = FALSE
    /\ mMessageQueue = <<>>
    /\ device = 0 /\ deviceCancels = 0
    /\ aborted = FALSE

Queued == {i \in Ids : tasks[i].st = "queued"}
EarliestQueued(i) == i \in Queued /\ \A j \in Queued : i <= j
Operation == tasks[current].op

Push(type, id) == mMessageQueue' = Append(mMessageQueue, [type |-> type, of |-> id])

-----------------------------------------------------------------------------
(* The binder threads                                                      *)

(* Session::schedule: a full queue refuses the task and the caller is not  *)
(* told.                                                                   *)
schedule(op) ==
    /\ ~aborted
    /\ mCb /\ Len(tasks) < MaxTasks
    /\ tasks' = Append(tasks, [op |-> op,
                               st |-> IF Cardinality(Queued) < QueueSize
                                      THEN "queued" ELSE "dropped"])
    /\ UNCHANGED <<cancelled, mCb, engine, mMessageQueue, hal, aborted>>

(* ICancellationSignal::cancel, before or after the operation's end        *)
cancel(i) ==
    /\ ~aborted
    /\ MayCancel /\ tasks[i].op \in Cancelable \cup {"detectInteraction"}
    /\ i \notin cancelled
    /\ cancelled' = cancelled \cup {i}
    /\ UNCHANGED <<tasks, mCb, engine, mMessageQueue, hal, aborted>>

(* Session::close and the constructor of the next session.  An operation   *)
(* in the engine holds the mutex.                                          *)
setSessionCallback(cb) ==
    /\ ~aborted
    /\ MayClose /\ pc = "idle"
    /\ mCb = ~cb
    /\ mCb' = cb
    /\ UNCHANGED <<tasks, cancelled, engine, mMessageQueue, hal, aborted>>

-----------------------------------------------------------------------------
(* The worker thread                                                       *)

(* What the framework hears when the device refuses an operation           *)
Refused(op) ==
    CASE op = "removeEnrollments" -> "ignored"
      [] op \in {"enumerateEnrollments", "getAuthenticatorId",
                 "invalidateAuthenticatorId"} -> "result"
      [] OTHER -> "error"

(* The lambda of the task up to the engine                                 *)
StartCanceled(i) ==
    /\ ~aborted
    /\ pc = "idle" /\ EarliestQueued(i)
    /\ i \in cancelled
    /\ tasks' = [tasks EXCEPT ![i].st = "canceled"]
    /\ UNCHANGED <<cancelled, mCb, engine, mMessageQueue, hal, aborted>>

Start(i) ==
    /\ ~aborted
    /\ pc = "idle" /\ EarliestQueued(i)
    /\ i \notin cancelled
    /\ tasks[i].op # "detectInteraction" => mCb

detectInteractionImpl(i) ==
    /\ Start(i)
    /\ tasks[i].op = "detectInteraction"
    /\ tasks' = [tasks EXCEPT ![i].st = "ignored"]
    /\ UNCHANGED <<cancelled, mCb, engine, mMessageQueue, hal, aborted>>

resetLockoutImpl(i) ==
    /\ Start(i)
    /\ tasks[i].op = "resetLockout"
    /\ tasks' = [tasks EXCEPT ![i].st = "result"]
    /\ UNCHANGED <<cancelled, mCb, engine, mMessageQueue, hal, aborted>>

DeviceOps == DOMAIN Replies \cup Cancelable

StartOnDevice(i) ==
    /\ Start(i)
    /\ tasks[i].op \in DeviceOps
    /\ tasks' = [tasks EXCEPT ![i].st = "running"]
    /\ current' = i /\ pc' = "waiting"
    /\ cancelThread' = (tasks[i].op \in Cancelable)
    /\ device' = i
    /\ UNCHANGED <<cancelled, mCb, mMessageQueue, deviceCancels, aborted>>

RefusedByDevice(i) ==
    /\ Start(i)
    /\ tasks[i].op \in DeviceOps
    /\ tasks' = [tasks EXCEPT ![i].st = Refused(tasks[i].op)]
    /\ UNCHANGED <<cancelled, mCb, engine, mMessageQueue, hal, aborted>>

(* CHECK(mCb != nullptr) at the head of every operation                    *)
StartWithoutSession(i) ==
    /\ ~aborted
    /\ pc = "idle" /\ EarliestQueued(i)
    /\ i \notin cancelled
    /\ tasks[i].op # "detectInteraction" /\ ~mCb
    /\ aborted' = TRUE
    /\ UNCHANGED <<tasks, cancelled, mCb, engine, mMessageQueue, hal>>

BugFinishForgetsJoin(st) ==
    /\ tasks' = [tasks EXCEPT ![current].st = st]
    /\ pc' = IF Operation \in Cancelable THEN "joining" ELSE "idle"
    /\ current' = 0

(* An operation with a cancel thread joins it before it leaves.            *)
Finish(st) ==
    /\ tasks' = [tasks EXCEPT ![current].st = st]
    /\ pc' = IF Operation \in Cancelable THEN "joining" ELSE "idle"
    /\ current' = IF Operation \in Cancelable THEN current ELSE 0

Continue == UNCHANGED <<tasks, current, pc>>

(* waitForMessage                                                          *)
Receive(ops) ==
    /\ ~aborted
    /\ pc = "waiting" /\ Operation \in ops
    /\ mMessageQueue # <<>>
    /\ mMessageQueue' = Tail(mMessageQueue)
    /\ UNCHANGED <<cancelled, mCb, cancelThread, aborted>>

Received == Head(mMessageQueue).type

(* The operations with one reply.  Most skip other messages; enumerate and *)
(* remove give up.                                                         *)
ReceiveReply ==
    /\ Receive(DOMAIN Replies)
    /\ IF Received = Replies[Operation] THEN Finish("result")
       ELSE IF Operation \in OneMessage THEN Finish("gaveUp")
       ELSE Continue
    /\ UNCHANGED hal

BugDeviceNotCanceled ==
    /\ Receive(Cancelable)
    /\ Received = "canceled"
    /\ pc' = "canceling"
    /\ UNCHANGED <<tasks, current, hal>>

(* handleAcquiredOrErrorMessage: a cancellation stops the device ...       *)
ReceiveCanceled ==
    /\ Receive(Cancelable)
    /\ Received = "canceled"
    /\ pc' = "canceling"
    /\ device' = 0 /\ deviceCancels' = deviceCancels + 1
    /\ UNCHANGED <<tasks, current>>

(* ... and waits for its confirmation, which must come next.               *)
ReceiveConfirmation ==
    /\ ~aborted
    /\ pc = "canceling"
    /\ mMessageQueue # <<>>
    /\ mMessageQueue' = Tail(mMessageQueue)
    /\ IF Received = "canceled"
       THEN Finish("canceled") /\ UNCHANGED aborted
       ELSE aborted' = TRUE /\ Continue
    /\ UNCHANGED <<cancelled, mCb, cancelThread, hal>>

ReceiveError ==
    /\ Receive(Cancelable)
    /\ Received = "error"
    /\ Finish("error")
    /\ UNCHANGED hal

(* The last message of an enrolment or an authentication                   *)
Last == IF Operation = "enroll" THEN "enrolled" ELSE "match"

ReceiveLast ==
    /\ Receive(Cancelable)
    /\ Received = Last
    /\ Finish("result")
    /\ UNCHANGED hal

(* A failed attempt that checkSensorLockout finds to be one too many.  The *)
(* device is not told that the authentication is over.                     *)
ReceiveLockout ==
    /\ Receive({"authenticate"})
    /\ Received = "noMatch"
    /\ Finish("lockedOut")
    /\ UNCHANGED hal

BugProgressEnds ==
    /\ Receive(Cancelable)
    /\ Received \notin {"canceled", "error", Last}
    /\ Finish("error")
    /\ UNCHANGED hal

(* Progress, and messages that are not expected                            *)
ReceiveOther ==
    /\ Receive(Cancelable)
    /\ Received \notin {"canceled", "error", Last}
    /\ Continue
    /\ UNCHANGED hal

(* stop.store(true); cancelThread.join()                                   *)
Join ==
    /\ ~aborted
    /\ pc = "joining"
    /\ current' = 0 /\ pc' = "idle"
    /\ cancelThread' = FALSE
    /\ UNCHANGED <<tasks, cancelled, mCb, mMessageQueue, hal, aborted>>

(* waitForCancel: the cancel thread looks at stop only between its waits,  *)
(* so it may find the cancellation when the operation has ended.           *)
FindCancel ==
    /\ ~aborted
    /\ cancelThread /\ current \in cancelled
    /\ Push("canceled", current)
    /\ cancelThread' = FALSE
    /\ UNCHANGED <<tasks, cancelled, mCb, current, pc, hal, aborted>>

-----------------------------------------------------------------------------
(* The vendor device: messages of the operation it works on, the last of   *)
(* which ends it, and one ERROR_CANCELED for every cancel().               *)

LastMessages(op) ==
    CASE op = "authenticate"      -> {"match", "error"}
      [] op = "enroll"            -> {"enrolled", "error"}
      [] op = "removeEnrollments" -> {"removed", "error"}
      [] OTHER                    -> {Replies[op]}

OtherMessages(op) ==
    CASE op = "authenticate" -> {"acquired", "noMatch"}
      [] op = "enroll"       -> {"acquired", "progress"}
      [] OTHER               -> {}

DeviceLast ==
    /\ ~aborted
    /\ device # 0
    /\ \E type \in LastMessages(tasks[device].op) : Push(type, device)
    /\ device' = 0
    /\ UNCHANGED <<tasks, cancelled, mCb, engine, deviceCancels, aborted>>

DeviceOther ==
    /\ ~aborted
    /\ device # 0 /\ Len(mMessageQueue) < MaxMessages
    /\ \E type \in OtherMessages(tasks[device].op) : Push(type, device)
    /\ UNCHANGED <<tasks, cancelled, mCb, engine, hal, aborted>>

DeviceConfirmsCancel ==
    /\ ~aborted
    /\ deviceCancels > 0
    /\ Push("canceled", 0)
    /\ deviceCancels' = deviceCancels - 1
    /\ UNCHANGED <<tasks, cancelled, mCb, engine, device, aborted>>

-----------------------------------------------------------------------------
Framework ==
    \/ \E op \in Ops : schedule(op)
    \/ \E i \in Ids : cancel(i)
    \/ \E cb \in BOOLEAN : setSessionCallback(cb)

Begin(i) ==
    \/ StartCanceled(i) \/ StartWithoutSession(i)
    \/ detectInteractionImpl(i) \/ resetLockoutImpl(i)
    \/ StartOnDevice(i) \/ RefusedByDevice(i)

Worker ==
    \/ \E i \in Ids : Begin(i)
    \/ ReceiveReply \/ ReceiveCanceled \/ ReceiveConfirmation
    \/ ReceiveError \/ ReceiveLast \/ ReceiveLockout \/ ReceiveOther
    \/ Join

Device == DeviceLast \/ DeviceOther \/ DeviceConfirmsCancel

Next == Framework \/ Worker \/ FindCancel \/ Device

Spec == Init /\ [][Next]_vars

(* The worker and the cancel thread run, the device confirms cancellations *)
(* and ends the operations that end by themselves.  An authentication or   *)
(* an enrolment may last for ever, and DeviceOther is never required.      *)
FairSpec ==
    /\ Spec
    /\ WF_vars(Worker)
    /\ WF_vars(FindCancel)
    /\ WF_vars(DeviceConfirmsCancel)
    /\ WF_vars(DeviceLast /\ tasks[device].op \in DOMAIN Replies)

-----------------------------------------------------------------------------
(* Properties                                                              *)

(* Operations that may leave a message or a working device behind: ended   *)
(* by a lockout, given up, or cancelled when it was too late.              *)
Disturbs(i) ==
    \/ tasks[i].st \in {"lockedOut", "gaveUp"}
    \/ i \in cancelled /\ tasks[i].st # "canceled"

(* As long as no operation disturbed the queue, cancelled ones included,   *)
(* the engine leaves nothing behind: between two operations the message    *)
(* queue is empty and the device at rest, although no operation clears it. *)
NothingLeft ==
    /\ TypeOK
    /\ pc = "idle" /\ ~aborted
          /\ (\A i \in Ids : tasks[i].st \in {"queued", "dropped"} \/ ~Disturbs(i))
       => mMessageQueue = <<>> /\ device = 0 /\ deviceCancels = 0

(* An operation never takes the result of another, although messages carry *)
(* no name, unless an earlier operation disturbed the queue.               *)
OwnResult ==
    \A i \in Ids :
        i = current /\ tasks[i].st = "running" /\ tasks'[i].st = "result"
        => \/ Head(mMessageQueue).of = i
           \/ \E j \in 1..(i - 1) : Disturbs(j)

(* Nobody hears CANCELED of an operation he did not cancel, unless a       *)
(* message of an earlier one stayed.                                       *)
CanceledOnRequest ==
    \A i \in Ids : tasks[i].st = "canceled" =>
        i \in cancelled \/ \E j \in 1..(i - 1) : Disturbs(j)

(* A reply is given up only by remove, which may report an error, or when  *)
(* an earlier operation left messages: every accepted call gets an answer. *)
GivenUpKnown ==
    \A i \in Ids : tasks[i].st = "gaveUp" =>
        tasks[i].op = "removeEnrollments" \/ \E j \in 1..(i - 1) : Disturbs(j)

(* Whoever hears CANCELED or nothing at all has himself, or an operation   *)
(* that left messages behind, to blame.                                    *)
AnswersKnown == CanceledOnRequest /\ GivenUpKnown

(* What an operation hears is its own result, cancellation or failure.     *)
OwnAnswers == [][OwnResult /\ AnswersKnown']_vars

(* Every wait ends: that of a cancelled operation, and that of an operation *)
(* with one reply, whatever messages it finds in the queue.                *)
WaitEnds ==
    \A i \in 1..MaxTasks :
        (i = current /\ \/ i \in cancelled /\ pc = "waiting"
                        \/ Operation \in DOMAIN Replies)
        ~> (aborted \/ i # current)

(* CHECK(msg.type == FINGERPRINT_ERROR) after cancel(): never fails.       *)
ConfirmationNext == ~(aborted /\ pc = "canceling")
=============================================================================
