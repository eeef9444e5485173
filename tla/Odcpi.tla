------------------------------- MODULE Odcpi -------------------------------
(* On-demand position requests (ODCPI) of gnss/GnssAdapter.cpp: the modem    *)
(* asks for a position, the adapter passes the request on to whoever has     *)
(* registered, again and again by a timer, and injects what it gets.  The    *)
(* adapter's thread takes one message after the other; the timer is a client *)
(* of AlarmService, which is what LocTimers implements.                      *)
EXTENDS Naturals, Sequences, FiniteSetsExt

CONSTANTS
    Timer,          \* mOdcpiTimer
    None,           \* model value
    MaxRequests,    \* requests of the modem
    MaxEvents,      \* restarts, registrations and what else happens around
    MaxBacklog,     \* messages that wait when the surroundings add another
    Worlds          \* sets of what the surroundings may do

ASSUME OdcpiAssumption ==
    /\ Timer # None /\ None \notin {"plain", "emergency"}
    /\ MaxRequests \in Nat /\ MaxEvents \in Nat /\ MaxBacklog \in Nat
    /\ \A w \in Worlds : w \subseteq {"hasty", "crashes", "power", "locks", "registers", "dies"}

Modes == {"plain", "emergency"}     \* isEmergencyMode

Masks == {"plain", "all"}           \* NON_EMERGENCY_ODCPI, with EMERGENCY_ODCPI

(* Who answers: the framework (Gnss.cpp), and a provider that registers for  *)
(* requests that are no emergency, by their priorities.                      *)
Framework == 1
Provider == 3
Handlers == {Framework, Provider}

VARIABLES
    world,          \* what the surroundings may do, chosen once
    requests,       \* how many requests the modem made
    events,         \* how many of the bounded events happened
    need,           \* the modem's request that is not stopped, or None
    got,            \* whether the modem has the position it asked for
    queue,          \* messages of the adapter's thread
    mOdcpiStateMask,
    mOdcpiRequest,  \* the mode of the last request
    mActive,        \* the flag of OdcpiTimer
    running,        \* AlarmService: {Timer} while it runs
    called,         \* AlarmService: Timer when it is to be called back
    odcpiReqCb,     \* who is asked in an emergency; his priority
    mNonEsOdcpiReqCbMap,    \* the priorities that have a callback
    esStatus,       \* what mEsStatusCb was told last
    power,          \* mSystemPowerState: "suspend" or "resume"
    unlocked,       \* the engine is not locked
    present,        \* the framework's client has a callback
    asked           \* handlers that look for a position

alarm == <<running, called>>
modem == <<requests, need, got>>
handlers == <<odcpiReqCb, mNonEsOdcpiReqCbMap, present, asked>>
adapter == <<mOdcpiStateMask, mOdcpiRequest, mActive, esStatus, power>>
vars == <<world, events, queue, modem, adapter, alarm, handlers, unlocked>>

Alarm == INSTANCE AlarmService WITH Clients <- {Timer}

Msg(type, arg) == [type |-> type, arg |-> arg, handler |-> 0]
Registration(type, mask, h) == [type |-> type, arg |-> mask, handler |-> h]

Init ==
    /\ world \in Worlds
    /\ requests = 0 /\ events = 0
    /\ need = None /\ got = FALSE
    /\ queue = <<>>
    /\ mOdcpiStateMask = {} /\ mOdcpiRequest = "plain"
    /\ mActive = FALSE
    /\ Alarm!Init
    /\ odcpiReqCb = Framework /\ mNonEsOdcpiReqCbMap = {Framework}
    /\ esStatus = FALSE
    /\ power = "resume" /\ unlocked = TRUE
    /\ present = TRUE /\ asked = {}

-----------------------------------------------------------------------------
(* The modem                                                                 *)

Send(msg) == queue' = Append(queue, msg)
Room == Len(queue) < MaxBacklog

(* A request begins, is repeated, or becomes an emergency; unless it is      *)
(* hasty, the modem begins another only when the timer of the last one ran   *)
(* out.                                                                      *)
ModemStarts(mode) ==
    /\ Room /\ requests < MaxRequests
    /\ need = "emergency" => mode = "emergency"
    /\ need = None /\ "hasty" \notin world => ~mActive /\ queue = <<>>
    /\ requests' = requests + 1
    /\ need' = mode
    /\ got' = (got /\ need = mode)
    /\ Send(Msg("start", mode))
    /\ UNCHANGED <<world, events, adapter, alarm, handlers, unlocked>>

ModemStops ==
    /\ Room /\ need # None
    /\ need' = None /\ got' = FALSE
    /\ Send(Msg("stop", need))
    /\ UNCHANGED <<world, events, requests, adapter, alarm, handlers, unlocked>>

(* The position it has is too old by now.                                    *)
ModemAges ==
    /\ got
    /\ got' = FALSE
    /\ UNCHANGED <<world, events, requests, need, queue, adapter, alarm, handlers, unlocked>>

Happens(freedom) == freedom \in world /\ events < MaxEvents /\ events' = events + 1

(* The modem restarts; LocApi opens it again and reports the engine up.      *)
ModemRestarts ==
    /\ Happens("crashes") /\ Room
    /\ need' = None /\ got' = FALSE
    /\ Send(Msg("engineUp", None))
    /\ UNCHANGED <<world, requests, adapter, alarm, handlers, unlocked>>

EngineLocks ==
    /\ Happens("locks")
    /\ unlocked' = ~unlocked
    /\ UNCHANGED <<world, queue, modem, adapter, alarm, handlers>>

PowerChanges(state) ==
    /\ Happens("power") /\ Room
    /\ Send(Msg("power", state))
    /\ UNCHANGED <<world, modem, adapter, alarm, handlers, unlocked>>

-----------------------------------------------------------------------------
(* The handlers                                                              *)

(* initOdcpiCommand, deRegisterOdcpiCommand                                  *)
Registers(h, mask) ==
    /\ Happens("registers") /\ Room
    /\ h = Provider => mask = "plain"
    /\ Send(Registration("register", mask, h))
    /\ UNCHANGED <<world, modem, adapter, alarm, handlers, unlocked>>

Deregisters ==
    /\ Happens("registers") /\ Room
    /\ Send(Registration("deregister", "plain", Provider))
    /\ UNCHANGED <<world, modem, adapter, alarm, handlers, unlocked>>

(* The framework's process dies and comes back (Gnss::handleAidlClientSsr).  *)
FrameworkDies ==
    /\ Happens("dies") /\ present
    /\ present' = FALSE /\ asked' = asked \ {Framework}
    /\ UNCHANGED <<world, queue, modem, adapter, alarm, odcpiReqCb, mNonEsOdcpiReqCbMap, unlocked>>

FrameworkReturns ==
    /\ ~present
    /\ present' = TRUE
    /\ UNCHANGED <<world, events, queue, modem, adapter, alarm, odcpiReqCb, mNonEsOdcpiReqCbMap,
                   asked, unlocked>>

(* injectLocationCommand reads the state on the caller's thread.             *)
OnDemand == IF "active" \in mOdcpiStateMask THEN "onDemand" ELSE "spare"

(* Who was asked gives a position, by injectBestLocation or injectLocation.  *)
Answers(h, how) ==
    /\ h \in asked /\ Room
    /\ asked' = asked \ {h}
    /\ Send(Msg("inject", how))
    /\ UNCHANGED <<world, events, modem, adapter, alarm, odcpiReqCb, mNonEsOdcpiReqCbMap, present,
                   unlocked>>

(* He finds none.                                                            *)
Fails(h) ==
    /\ h \in asked
    /\ asked' = asked \ {h}
    /\ UNCHANGED <<world, events, queue, modem, adapter, alarm, odcpiReqCb, mNonEsOdcpiReqCbMap,
                   present, unlocked>>

-----------------------------------------------------------------------------
(* The timer's thread                                                        *)

TimerExpires ==
    /\ Alarm!Expire(Timer)
    /\ UNCHANGED <<world, events, queue, modem, adapter, handlers, unlocked>>

(* OdcpiTimer::timeOutCallback                                               *)
odcpiTimerExpireEvent ==
    /\ Alarm!CallBack
    /\ Send(Msg("expire", None))
    /\ UNCHANGED <<world, events, modem, adapter, handlers, unlocked>>

-----------------------------------------------------------------------------
(* The adapter's thread                                                      *)

Take(type) ==
    /\ queue # <<>> /\ Head(queue).type = type
    /\ queue' = Tail(queue)

Active == "active" \in mOdcpiStateMask

BugReceivers(mode) ==    \* only the highest priority is looked up
    IF mode = "emergency" THEN {odcpiReqCb} ELSE {Provider} \cap mNonEsOdcpiReqCbMap

(* An emergency has a callback of its own, the rest the one with the highest *)
(* priority.  The framework's is of no use while its client is away.         *)
Receivers(mode) ==
    LET callback == IF mode = "emergency" THEN {odcpiReqCb}
                    ELSE {h \in mNonEsOdcpiReqCbMap : h = Max(mNonEsOdcpiReqCbMap)}
    IN {h \in callback : h = Framework => present}

(* Handlers take no notice of a request's end, so only starts are passed on. *)
fireOdcpiRequest(mode) ==
    /\ asked' = asked \cup Receivers(mode)
    /\ UNCHANGED <<odcpiReqCb, mNonEsOdcpiReqCbMap, present>>

(* LocTimer::start on a timer that runs does nothing, and restart stops it   *)
(* first: either way it runs.                                                *)
StartTimer == mActive' = TRUE /\ running' = {Timer} /\ UNCHANGED called
StopTimer == mActive' = FALSE /\ running' = {} /\ UNCHANGED called

(* The request comes while nothing is active and no timer runs, or turns a   *)
(* plain one into an emergency.                                              *)
PassedOn(mode) ==
    \/ ~Active /\ ~mActive
    \/ mOdcpiRequest = "plain" /\ mode = "emergency"

BugRequestOdcpi ==    \* the kept request is that of the first start
    /\ Take("start")
    /\ LET mode == Head(queue).arg IN
       /\ mOdcpiStateMask' = {"active"}
       /\ IF PassedOn(mode)
          THEN /\ fireOdcpiRequest(mode)
               /\ esStatus' = (mode = "emergency")
               /\ StartTimer /\ mOdcpiRequest' = mode
          ELSE UNCHANGED <<esStatus, mActive, alarm, handlers, mOdcpiRequest>>
    /\ UNCHANGED <<world, events, modem, power, unlocked>>

(* requestOdcpi with a START; one that is not passed on waits for the timer. *)
requestOdcpi ==
    /\ Take("start")
    /\ LET mode == Head(queue).arg IN
       /\ mOdcpiStateMask' = {"active"}
       /\ IF PassedOn(mode)
          THEN /\ fireOdcpiRequest(mode)
               /\ esStatus' = (mode = "emergency")
               /\ StartTimer
          ELSE UNCHANGED <<esStatus, mActive, alarm, handlers>>
       /\ mOdcpiRequest' = mode
    /\ UNCHANGED <<world, events, modem, power, unlocked>>

(* requestOdcpi with a STOP: the timer runs on.                              *)
stopOdcpi ==
    /\ Take("stop")
    /\ mOdcpiStateMask' = {} /\ esStatus' = FALSE
    /\ UNCHANGED <<world, events, modem, mOdcpiRequest, mActive, power, alarm, handlers, unlocked>>

BugTimerExpire ==    \* the timer is not started again
    /\ Take("expire")
    /\ IF Active THEN fireOdcpiRequest(mOdcpiRequest) /\ UNCHANGED <<mActive, alarm>>
                 ELSE StopTimer /\ UNCHANGED handlers
    /\ UNCHANGED <<world, events, modem, mOdcpiStateMask, mOdcpiRequest, esStatus, power, unlocked>>

odcpiTimerExpire ==
    /\ Take("expire")
    /\ IF Active THEN fireOdcpiRequest(mOdcpiRequest) /\ StartTimer
                 ELSE StopTimer /\ UNCHANGED handlers
    /\ UNCHANGED <<world, events, modem, mOdcpiStateMask, mOdcpiRequest, esStatus, power, unlocked>>

(* injectOdcpi tells the modem that it asked for the position as long as the *)
(* timer runs, the position of injectLocationCommand brings that along.      *)
inject ==
    /\ Take("inject")
    /\ LET how == Head(queue).arg IN
       got' = \/ got
              \/ need # None /\ how = "onDemand"
              \/ need # None /\ how = "odcpi" /\ mActive
    /\ UNCHANGED <<world, events, requests, need, adapter, alarm, handlers, unlocked>>

(* restartSessions(true), which a suspended system and a locked engine skip  *)
handleEngineUpEvent ==
    /\ Take("engineUp")
    /\ mOdcpiStateMask' = IF unlocked /\ power = "resume" THEN {} ELSE mOdcpiStateMask
    /\ UNCHANGED <<world, events, modem, mOdcpiRequest, mActive, esStatus, power, alarm, handlers,
                   unlocked>>

updateSystemPowerState ==
    /\ Take("power")
    /\ power' = Head(queue).arg
    /\ UNCHANGED <<world, events, modem, mOdcpiStateMask, mOdcpiRequest, mActive, esStatus, alarm,
                   handlers, unlocked>>

(* An emergency callback is replaced by one of no lower priority.            *)
initOdcpi ==
    /\ Take("register")
    /\ LET msg == Head(queue) IN
       /\ odcpiReqCb' = IF msg.arg = "all" /\ msg.handler >= odcpiReqCb THEN msg.handler
                        ELSE odcpiReqCb
       /\ mNonEsOdcpiReqCbMap' = mNonEsOdcpiReqCbMap \cup {msg.handler}
    /\ UNCHANGED <<world, events, modem, adapter, alarm, present, asked, unlocked>>

deRegisterOdcpi ==
    /\ Take("deregister")
    /\ mNonEsOdcpiReqCbMap' = mNonEsOdcpiReqCbMap \ {Head(queue).handler}
    /\ UNCHANGED <<world, events, modem, adapter, alarm, odcpiReqCb, present, asked, unlocked>>

-----------------------------------------------------------------------------
Adapter ==
    \/ requestOdcpi \/ stopOdcpi \/ odcpiTimerExpire \/ inject
    \/ handleEngineUpEvent \/ updateSystemPowerState \/ initOdcpi \/ deRegisterOdcpi

Next ==
    \/ \E mode \in Modes : ModemStarts(mode)
    \/ ModemStops \/ ModemAges \/ ModemRestarts \/ EngineLocks
    \/ \E state \in {"suspend", "resume"} : PowerChanges(state)
    \/ \E h \in Handlers, mask \in Masks : Registers(h, mask)
    \/ Deregisters \/ FrameworkDies \/ FrameworkReturns
    \/ \E h \in Handlers : Answers(h, "odcpi") \/ Answers(h, OnDemand) \/ Fails(h)
    \/ TimerExpires \/ odcpiTimerExpireEvent
    \/ Adapter

Spec == Init /\ [][Next]_vars

(* The threads run on, AlarmService keeps its promise, a framework that died *)
(* is started again, and who is asked again and again answers at last.       *)
FairSpec ==
    /\ Spec
    /\ WF_vars(Adapter)
    /\ WF_vars(TimerExpires) /\ WF_vars(odcpiTimerExpireEvent)
    /\ WF_vars(FrameworkReturns)
    /\ \A h \in Handlers : SF_vars(Answers(h, "odcpi"))

-----------------------------------------------------------------------------
Exposed(freedoms) == world \cap freedoms # {}

Messages ==
    [type : {"start", "stop"}, arg : Modes, handler : {0}]
    \cup [type : {"expire", "engineUp"}, arg : {None}, handler : {0}]
    \cup [type : {"inject"}, arg : {"odcpi", "onDemand", "spare"}, handler : {0}]
    \cup [type : {"power"}, arg : {"suspend", "resume"}, handler : {0}]
    \cup [type : {"register", "deregister"}, arg : Masks, handler : Handlers]

TypeOK ==
    /\ need \in {None} \cup Modes /\ got \in BOOLEAN
    /\ queue \in Seq(Messages)
    /\ mOdcpiStateMask \in SUBSET {"active"} /\ mOdcpiRequest \in Modes
    /\ mActive \in BOOLEAN /\ esStatus \in BOOLEAN /\ power \in {"suspend", "resume"}
    /\ running \in SUBSET {Timer} /\ called \in {None, Timer}
    /\ odcpiReqCb \in Handlers /\ mNonEsOdcpiReqCbMap \in SUBSET Handlers
    /\ asked \in SUBSET Handlers

(* An active request is always renewed: its timer's flag is up, and while    *)
(* that is up the timer runs, or its expiry is on the way to the adapter.    *)
(* Nothing else keeps a request going once it was passed on, and requests    *)
(* that come meanwhile rely on it (requestOdcpi against timeOutCallback).    *)
Renewed ==
    /\ Active => mActive
    /\ mActive => \/ Timer \in running \/ called = Timer
                  \/ \E i \in DOMAIN queue : queue[i].type = "expire"
    /\ Timer \in running => mActive

Quiet == queue = <<>> /\ called = None

(* Whenever all messages are handled, the adapter keeps the modem's request  *)
(* going, in its mode, and no other; so also after a restart of the modem,   *)
(* unless the engine is locked or the system suspended by then, where the    *)
(* old modem's request goes on for ever (restartSessions).                   *)
ModemAgrees ==
    Quiet /\ ~({"crashes"} \subseteq world /\ Exposed({"power", "locks"})) =>
        /\ Active <=> need # None
        /\ Active => mOdcpiRequest = need

(* mEsStatusCb knows whether there is an emergency.  Not so when an          *)
(* emergency follows the last one before its timer ran out, and when the     *)
(* modem restarts in one.                                                    *)
StatusTold ==
    Quiet /\ ~Exposed({"hasty", "crashes"}) => (esStatus <=> need = "emergency")

AdapterAgrees == ModemAgrees /\ StatusTold

(* A modem that goes on asking gets a position, and a new one when that is   *)
(* too old, although handlers fail, die and change.                          *)
Served == (need # None) ~> (got \/ need = None)
=============================================================================
