----------------------------- MODULE LocTimers -----------------------------
(* The timers of gps/utils/LocTimer.cpp and the delayed messages of          *)
(* MsgTask.cpp. Clients start and stop timers on threads of their own; a     *)
(* message thread keeps the heap of what runs and calls the clients back; a  *)
(* poll thread waits for the one timer of the kernel.                        *)
EXTENDS LocHeap, Sequences, TLC

CONSTANTS
    Clients,      \* the LocTimer objects
    Posts,        \* those that are MsgTask::MsgTimer: one delayed message each
    None,         \* model value
    Delays,       \* what timers are started for
    MaxNow,       \* the clock ends here
    MaxStarts,    \* timers that are started
    Worlds        \* sets of what the surroundings may do

ASSUME TimersAssumption ==
    /\ Posts \subseteq Clients /\ None \notin Clients
    /\ Delays \subseteq Nat /\ MaxNow \in Nat /\ MaxStarts \in Nat
    /\ \A w \in Worlds : w \subseteq {"stops", "slow", "deletes"}

VARIABLES
    world,      \* what the surroundings may do, chosen once
    now,        \* CLOCK_BOOTTIME
    alive,      \* the clients that exist
    mTimer,     \* of each client: the delegate that runs, or 0
    delegates,  \* the LocTimerDelegates, in the order of their creation
    queue,      \* messages of the message thread
    mTree,      \* the heap of the container
    fd,         \* timerfd: what it is set to (0: disarmed), and whether it is polled
    poll,       \* where the poll thread is in LocTimerContainer::expire
    task,       \* where the message thread is
    client,     \* whom LocTimerDelegate::expire has read as its client, or None
    expiry      \* the delegate that expires, when its client was due, and the time read

vars == <<world, now, alive, mTimer, delegates, queue, mTree, fd, poll, task, client, expiry>>

-----------------------------------------------------------------------------
Delegates == 1..MaxStarts
Ranked(d) == [id |-> d, due |-> delegates[d].due]
NoExpiry == [delegate |-> 0, due |-> 0, asOf |-> 0]

Init ==
    /\ world \in Worlds
    /\ now = 1
    /\ alive = Clients \ Posts
    /\ mTimer = [t \in Clients |-> 0]
    /\ delegates = <<>>
    /\ queue = <<>> /\ mTree = NoHeap
    /\ fd = [set |-> 0, polled |-> FALSE]
    /\ poll = "wait"
    /\ task = "rest" /\ client = None /\ expiry = NoExpiry

-----------------------------------------------------------------------------
(* The clients, under the lock that LocTimer shares with its delegate        *)

Send(msgs) == queue' = queue \o msgs

(* A new delegate puts itself into the container.                            *)
start(t, delay) ==
    /\ Len(delegates) < MaxStarts /\ now + delay <= MaxNow
    /\ t \in alive \ Posts /\ mTimer[t] = 0
    /\ LET d == Len(delegates) + 1 IN
       /\ mTimer' = [mTimer EXCEPT ![t] = d]
       /\ delegates' = Append(delegates, [client |-> t, due |-> now + delay])
       /\ Send(<<[type |-> "push", d |-> d]>>)
    /\ UNCHANGED <<world, now, alive, mTree, fd, poll, task, client, expiry>>

BugUnlink(t) ==    \* the timer keeps its delegate
    LET d == mTimer[t] IN
    /\ UNCHANGED mTimer
    /\ delegates' = [delegates EXCEPT ![d].client = None]
    /\ Send(<<[type |-> "remove", d |-> d]>>)

(* destroyLocked: the delegate forgets its client and asks to be removed and *)
(* deleted.                                                                  *)
Unlink(t) ==
    LET d == mTimer[t] IN
    /\ mTimer' = [mTimer EXCEPT ![t] = 0]
    /\ delegates' = [delegates EXCEPT ![d].client = None]
    /\ Send(<<[type |-> "remove", d |-> d]>>)

stop(t) ==
    /\ "stops" \in world
    /\ t \in alive \ Posts /\ mTimer[t] # 0
    /\ Unlink(t)
    /\ UNCHANGED <<world, now, alive, mTree, fd, poll, task, client, expiry>>

(* ~LocTimer                                                                 *)
delete(t) ==
    /\ "deletes" \in world
    /\ t \in alive \ Posts
    /\ alive' = alive \ {t}
    /\ IF mTimer[t] # 0 THEN Unlink(t) ELSE UNCHANGED <<mTimer, delegates, queue>>
    /\ UNCHANGED <<world, now, mTree, fd, poll, task, client, expiry>>

(* MsgTask::sendMsg with a delay: a MsgTimer that starts itself              *)
sendMsg(t, delay) ==
    /\ Len(delegates) < MaxStarts /\ now + delay <= MaxNow
    /\ t \in Posts \ alive
    /\ LET d == Len(delegates) + 1 IN
       /\ mTimer' = [mTimer EXCEPT ![t] = d]
       /\ delegates' = Append(delegates, [client |-> t, due |-> now + delay])
       /\ Send(<<[type |-> "push", d |-> d]>>)
    /\ alive' = alive \cup {t}
    /\ UNCHANGED <<world, now, mTree, fd, poll, task, client, expiry>>

-----------------------------------------------------------------------------
(* The poll thread: LocTimerContainer::expire                                *)

Readable == fd.polled /\ fd.set # 0 /\ fd.set <= now

PollWakes ==
    /\ poll = "wait" /\ Readable
    /\ poll' = "disarm"
    /\ UNCHANGED <<world, now, alive, mTimer, delegates, queue, mTree, fd, task, client, expiry>>

PollDisarms ==
    /\ poll = "disarm"
    /\ fd' = [fd EXCEPT !.set = 0]
    /\ poll' = "unpoll"
    /\ UNCHANGED <<world, now, alive, mTimer, delegates, queue, mTree, task, client, expiry>>

PollRemoves ==
    /\ poll = "unpoll"
    /\ fd' = [fd EXCEPT !.polled = FALSE]
    /\ poll' = "send"
    /\ UNCHANGED <<world, now, alive, mTimer, delegates, queue, mTree, task, client, expiry>>

PollSends ==
    /\ poll = "send"
    /\ Send(<<[type |-> "expire", d |-> 0]>>)
    /\ poll' = "wait"
    /\ UNCHANGED <<world, now, alive, mTimer, delegates, mTree, fd, task, client, expiry>>

-----------------------------------------------------------------------------
(* The message thread                                                        *)

Soonest(h) == IF h = NoHeap THEN 0 ELSE h[1].id

(* updateSoonestTime: the kernel's timer is set anew if the heap has another *)
(* top than before and that is sooner, polled first, armed next. The branch  *)
(* for an empty heap is never taken: whoever may have emptied it says that   *)
(* there was no top before.                                                  *)
Update(priorTop, h) ==
    IF Soonest(h) # priorTop /\ (priorTop = 0 \/ outRanks(h[1], Ranked(priorTop)))
    THEN "addPoll"
    ELSE "rest"

Take(type) ==
    /\ task = "rest"
    /\ queue # <<>> /\ Head(queue).type = type
    /\ queue' = Tail(queue)

MsgTimerPush ==
    /\ Take("push")
    /\ mTree' = push(mTree, Ranked(Head(queue).d))
    /\ task' = Update(Soonest(mTree), mTree')
    /\ UNCHANGED <<world, now, alive, mTimer, delegates, fd, poll, client, expiry>>

MsgTimerRemove ==
    /\ Take("remove")
    /\ LET d == Head(queue).d IN
       /\ mTree' = remove(mTree, Ranked(d))
       /\ task' = IF Soonest(mTree) = d THEN Update(0, mTree') ELSE "rest"
    /\ UNCHANGED <<world, now, alive, mTimer, delegates, fd, poll, client, expiry>>

(* The top is popped whether it is due or not.                               *)
MsgTimerExpire ==
    /\ Take("expire")
    /\ mTree' = pop(mTree)
    /\ task' = IF mTree = NoHeap THEN Update(0, mTree') ELSE "expire"
    /\ expiry' = [delegate |-> Soonest(mTree), due |-> 0, asOf |-> now]
    /\ UNCHANGED <<world, now, alive, mTimer, delegates, fd, poll, client>>

BugPopNext ==    \* the loop goes on with what is not due
    /\ task = "next"
    /\ IF mTree # NoHeap
       THEN /\ mTree' = pop(mTree)
            /\ task' = "expire"
            /\ expiry' = [expiry EXCEPT !.delegate = Soonest(mTree)]
       ELSE /\ task' = Update(0, mTree)
            /\ expiry' = NoExpiry
            /\ UNCHANGED mTree
    /\ UNCHANGED <<world, now, alive, mTimer, delegates, queue, fd, poll, client>>

(* popIfOutRanks and the end of the loop                                     *)
PopNext ==
    /\ task = "next"
    /\ IF mTree # NoHeap /\ mTree[1].due <= expiry.asOf
       THEN /\ mTree' = pop(mTree)
            /\ task' = "expire"
            /\ expiry' = [expiry EXCEPT !.delegate = Soonest(mTree)]
       ELSE /\ task' = Update(0, mTree)
            /\ expiry' = NoExpiry
            /\ UNCHANGED mTree
    /\ UNCHANGED <<world, now, alive, mTimer, delegates, queue, fd, poll, client>>

(* LocTimerDelegate::expire reads its client without the lock ...            *)
ReadClient ==
    /\ task = "expire"
    /\ client' = delegates[expiry.delegate].client
    /\ task' = IF client' = None THEN "next" ELSE "stop"
    /\ UNCHANGED <<world, now, alive, mTimer, delegates, queue, mTree, fd, poll, expiry>>

BugStopClient ==    \* the result of stop is not looked at
    /\ task = "stop" /\ client \in alive
    /\ IF mTimer[client] # 0
       THEN /\ Unlink(client)
            /\ task' = "call"
            /\ expiry' = [expiry EXCEPT !.due = delegates[mTimer[client]].due]
            /\ UNCHANGED client
       ELSE /\ task' = "call"
            /\ UNCHANGED <<mTimer, delegates, queue, expiry, client>>
    /\ UNCHANGED <<world, now, alive, mTree, fd, poll>>

(* ... stops whatever that client runs by now ...                            *)
StopClient ==
    /\ task = "stop" /\ client \in alive
    /\ IF mTimer[client] # 0
       THEN /\ Unlink(client)
            /\ task' = "call"
            /\ expiry' = [expiry EXCEPT !.due = delegates[mTimer[client]].due]
            /\ UNCHANGED client
       ELSE /\ task' = "next" /\ client' = None
            /\ UNCHANGED <<mTimer, delegates, queue, expiry>>
    /\ UNCHANGED <<world, now, alive, mTree, fd, poll>>

(* ... and calls it back. A MsgTimer passes its message on and is gone.      *)
timeOutCallback ==
    /\ task = "call" /\ client \in alive
    /\ alive' = alive \ (Posts \cap {client})
    /\ task' = "next" /\ client' = None
    /\ UNCHANGED <<world, now, mTimer, delegates, queue, mTree, fd, poll, expiry>>

(* What a call of a client that is gone does is undefined; here: nothing.    *)
CallOfTheDead ==
    /\ task \in {"stop", "call"} /\ client \notin alive
    /\ task' = "next" /\ client' = None
    /\ UNCHANGED <<world, now, alive, mTimer, delegates, queue, mTree, fd, poll, expiry>>

addPoll ==
    /\ task = "addPoll"
    /\ fd' = [fd EXCEPT !.polled = TRUE]
    /\ task' = "setTime"
    /\ UNCHANGED <<world, now, alive, mTimer, delegates, queue, mTree, poll, client, expiry>>

SetTime ==
    /\ task = "setTime"
    /\ fd' = [fd EXCEPT !.set = mTree[1].due]
    /\ task' = "rest"
    /\ UNCHANGED <<world, now, alive, mTimer, delegates, queue, mTree, poll, client, expiry>>

-----------------------------------------------------------------------------
AtRest == queue = <<>> /\ task = "rest" /\ poll = "wait" /\ ~Readable

(* Unless the threads may be slow, they are done before time passes.         *)
Tick ==
    /\ now < MaxNow
    /\ "slow" \in world \/ AtRest
    /\ now' = now + 1
    /\ UNCHANGED <<world, alive, mTimer, delegates, queue, mTree, fd, poll, task, client, expiry>>

Next ==
    \/ \E t \in Clients, delay \in Delays : start(t, delay)
    \/ \E t \in Posts, delay \in Delays : sendMsg(t, delay)
    \/ \E t \in Clients : stop(t)
    \/ \E t \in Clients : delete(t)
    \/ PollWakes \/ PollDisarms \/ PollRemoves \/ PollSends
    \/ MsgTimerPush \/ MsgTimerRemove \/ MsgTimerExpire \/ PopNext
    \/ ReadClient \/ StopClient \/ timeOutCallback \/ CallOfTheDead
    \/ addPoll \/ SetTime
    \/ Tick

PollThread == PollWakes \/ PollDisarms \/ PollRemoves \/ PollSends
MsgThread ==
    \/ MsgTimerPush \/ MsgTimerRemove \/ MsgTimerExpire \/ PopNext
    \/ ReadClient \/ StopClient \/ timeOutCallback \/ CallOfTheDead
    \/ addPoll \/ SetTime

(* Both threads run on, and so does time.                                    *)
Spec == Init /\ [][Next]_vars /\ WF_vars(PollThread) /\ WF_vars(MsgThread) /\ WF_vars(Tick)

-----------------------------------------------------------------------------
Exposed(freedoms) == world \cap freedoms # {}

(* The locks keep timers and delegates in agreement: what a timer holds      *)
(* knows that timer as its client, nothing else does, and a timer that is    *)
(* gone holds nothing (LocTimer::start, stop, ~LocTimer).                    *)
TypeOK ==
    /\ now \in Int /\ alive \subseteq Clients
    /\ delegates \in Seq([client : Clients \cup {None}, due : Int])
    /\ mTimer \in [Clients -> 0..Len(delegates)]
    /\ \A t \in Clients : mTimer[t] # 0 => t \in alive /\ delegates[mTimer[t]].client = t
    /\ \A d \in DOMAIN delegates :
          delegates[d].client # None => mTimer[delegates[d].client] = d
    /\ poll \in {"wait", "disarm", "unpoll", "send"}
    /\ task \in {"rest", "addPoll", "setTime", "expire", "stop", "call", "next"}

(* LocHeap stays in order, and whenever both threads rest, what runs is in   *)
(* the heap and timerfd is set to wake the poll thread for its top           *)
(* (LocTimerContainer::updateSoonestTime against expire).                    *)
HeapServed ==
    /\ checkNodes(mTree)
    /\ AtRest =>
        /\ Within(mTree) = {Ranked(mTimer[t]) : t \in {u \in Clients : mTimer[u] # 0}}
        /\ mTree # NoHeap => fd = [set |-> mTree[1].due, polled |-> TRUE]

(* No client is called back before its time (MsgTimerExpire::proc), as long  *)
(* as no timer is stopped and the threads keep up with the clock.            *)
NotEarly ==
    Exposed({"stops", "deletes", "slow"}) \/ (task = "call" => expiry.due <= now)

(* Every timer that runs expires in its time and not before.                 *)
InTime == HeapServed /\ NotEarly

(* The promise of LocTimer.h, for whatever start, stop and the destructor of *)
(* LocTimer and both threads do to one another.                              *)
Alarm == INSTANCE AlarmService WITH
    running <- {t \in Clients : mTimer[t] # 0},
    called <- IF task = "call" THEN client ELSE None
ServesAlarms == Alarm!Spec
=============================================================================
