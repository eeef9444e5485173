---------------------------- MODULE GnssTracking ----------------------------
(***************************************************************************)
(* Tracking sessions of GnssAdapter.  Clients of LocationAPI start, update *)
(* and stop sessions; every command is a message of the adapter's thread.  *)
(* The adapter multiplexes the time-based sessions into the one request    *)
(* the modem can run, and asks for it through LocApi, whose thread works   *)
(* requests off in order and sends each answer back as a message of the    *)
(* adapter's thread (LocApiResponse).  Distance-based sessions are asked   *)
(* for one by one.  The modem may refuse, crash and come back, GNSS may be *)
(* locked, and the system may suspend.                                     *)
(*                                                                         *)
(* minInterval stands for the three options that are multiplexed by their  *)
(* minimum (interval, power mode, tbm); a map entry 0 is no session.       *)
(* Definitions named Bug... are what-if variants of the definition that    *)
(* follows them.                                                           *)
(***************************************************************************)
EXTENDS Integers, SequencesExt

CONSTANTS
    Clients,        \* LocationAPI objects
    NoClient,       \* no client: the owner of an id not generated yet
    MaxSessions,    \* bound on the sessions of a behaviour
    MaxCommands,    \* bound on updates and stops
    MaxEvents,      \* bound on crashes, lock and power changes
    MaxBacklog,     \* commands and events wait while this many messages do
    Asked,          \* the values clients ask for as minInterval
    MinInterval,    \* MIN_TRACKING_INTERVAL
    Worlds          \* combinations of Freedoms to explore

(* What a behaviour may be exposed to.                                     *)
Freedoms == {"cold",        \* commands may come before the engine is up
             "bare",        \* clients have no callback that allows tracking
             "fails",       \* the modem refuses requests
             "updates",     \* clients update the options of sessions
             "power",       \* the system suspends and resumes
             "crashes",     \* the modem restarts
             "locks",       \* GNSS is locked and unlocked
             "timeOnly"}    \* the modem does not support distance-based tracking

ASSUME TrackingAssumption ==
    /\ NoClient \notin Clients
    /\ MaxSessions \in Nat \ {0}
    /\ {MaxCommands, MaxEvents, MaxBacklog} \subseteq Nat
    /\ MinInterval \in Nat \ {0}
    /\ Asked \subseteq Nat
    /\ Worlds \subseteq SUBSET Freedoms

VARIABLES
    world,
    clients,        \* LocationAPI: gData.clientData
    owner,          \* the client a session id was generated for
    stopped,        \* sessions whose client has stopped them or is destroyed
    commands,       \* updates and stops so far
    events,         \* crashes, lock and power changes so far
    unanswered,     \* commands minus responses, for each session
    told,           \* was the last response of each session a success
    queue,          \* messages of the adapter's thread
    callbacks,      \* GnssAdapter: mClientData
    timeBased,      \* mTimeBasedTrackingSessions
    distanceBased,  \* mDistanceBasedTrackingSessions
    pending,        \* mPendingMsgs
    known,          \* mIsEngineCapabilitiesKnown
    power,          \* mSystemPowerState
    requests,       \* messages of the LocApi thread
    engineLock,     \* LocApiBase: mEngineLockState
    modemUp,
    running,        \* the interval of the modem's time-based session, or 0
    runningDistance \* the modem's distance-based sessions

users    == <<clients, owner, stopped, commands, events>>
sessions == <<timeBased, distanceBased>>
modem    == <<engineLock, modemUp, running, runningDistance>>
answers  == <<unanswered, told>>
vars     == <<world, users, answers, queue, callbacks, sessions, pending, known, power,
              requests, modem>>

Ids       == 1..MaxSessions
Clamp(i)  == IF i < MinInterval THEN MinInterval ELSE i
Intervals == {Clamp(i) : i \in Asked}

Started == {id \in Ids : owner[id] # NoClient}
Time    == {id \in Ids : timeBased[id] # 0}
Distance == {id \in Ids : distanceBased[id] # 0}

(* A message of the adapter: a command, an event or an answer of LocApi.   *)
(* "flag" is what its sort needs to know: minDistance > 0 for a start or   *)
(* an update, success for an answer, enabled for the engine lock, and      *)
(* resumed for the power state.                                            *)
Commands == {"start", "update", "stop"}
Answers  == {"started", "updated", "stopped", "distanceStopped", "goneStopped", "toTime",
             "restart", "restarted"}
Message(what, id, interval, flag) ==
    [what |-> what, id |-> id, interval |-> interval, flag |-> flag]
Messages == [what : Commands \cup Answers, id : Ids,
             interval : {0} \cup Asked \cup Intervals, flag : BOOLEAN]
            \cup [what : {"up", "lock", "power"}, id : {0}, interval : {0}, flag : BOOLEAN]
            \cup [what : {"remove"}, client : Clients]

(* A request to LocApi and the answer the adapter expects; "then" says     *)
(* what the callback of the LocApiResponse does, "opts" is what it has     *)
(* captured.  "none": no callback, or one that does nothing.               *)
Ask(do, id, interval, then, opts) ==
    [do |-> do, id |-> id, interval |-> interval, then |-> then, opts |-> opts]
Requests == [do : {"open", "timeStart", "timeStop", "distanceStart", "distanceStop"},
             id : {0} \cup Ids, interval : {0} \cup Intervals,
             then : {"none"} \cup Answers, opts : {0} \cup Intervals]

TypeOK ==
    /\ world \in Worlds
    /\ callbacks \subseteq Clients /\ clients \subseteq Clients
    /\ owner \in [Ids -> Clients \cup {NoClient}]
    /\ stopped \subseteq Started
    /\ commands \in 0..MaxCommands /\ events \in 0..MaxEvents
    /\ unanswered \in [Ids -> Int] /\ told \in [Ids -> BOOLEAN]
    /\ queue \in Seq(Messages)
    /\ pending \in Seq({m \in Messages : m.what \in {"start", "update"} /\ m.flag})
    /\ timeBased \in [Ids -> {0} \cup Intervals]
    /\ distanceBased \in [Ids -> {0} \cup Intervals]
    /\ known \in BOOLEAN /\ modemUp \in BOOLEAN
    /\ power \in {"unknown", "suspend", "resume"}
    /\ requests \in Seq(Requests)
    /\ engineLock \in {"enabled", "disabled"}
    /\ running \in {0} \cup Intervals
    /\ runningDistance \subseteq Ids

(* The adapter's constructor has asked LocApi to open; the lock counts as  *)
(* locked until then.  Unless the start is cold the engine is up by the    *)
(* time clients use it.                                                    *)
Init ==
    /\ world \in Worlds
    /\ clients = Clients /\ callbacks = Clients
    /\ owner = [id \in Ids |-> NoClient] /\ stopped = {}
    /\ commands = 0 /\ events = 0
    /\ unanswered = [id \in Ids |-> 0] /\ told = [id \in Ids |-> FALSE]
    /\ queue = <<>> /\ pending = <<>>
    /\ timeBased = [id \in Ids |-> 0] /\ distanceBased = [id \in Ids |-> 0]
    /\ known = ("cold" \notin world)
    /\ modemUp = ("cold" \notin world)
    /\ requests = IF "cold" \in world THEN <<Ask("open", 0, 0, "none", 0)>> ELSE <<>>
    /\ engineLock = IF "cold" \in world THEN "disabled" ELSE "enabled"
    /\ power = "unknown"
    /\ running = 0 /\ runningDistance = {}

-----------------------------------------------------------------------------
(* LocationAPI, on the clients' threads                                    *)

Room == Len(queue) + Len(requests) < MaxBacklog

Command(what, id, interval, flag) ==
    /\ Room
    /\ queue' = Append(queue, Message(what, id, interval, flag))
    /\ unanswered' = [unanswered EXCEPT ![id] = @ + 1]
    /\ UNCHANGED <<world, clients, events, told, callbacks, sessions, pending, known, power, requests,
                   modem>>

(* startTracking: generateSessionId and a message.                         *)
startTracking(c, interval, far) ==
    /\ c \in clients
    /\ \E id \in Ids \ Started :
          /\ \A other \in Ids \ Started : id <= other
          /\ owner' = [owner EXCEPT ![id] = c]
          /\ Command("start", id, interval, far)
    /\ UNCHANGED <<stopped, commands>>

updateTrackingOptions(id, interval, far) ==
    /\ "updates" \in world
    /\ owner[id] \in clients
    /\ commands < MaxCommands /\ commands' = commands + 1
    /\ Command("update", id, interval, far)
    /\ UNCHANGED <<owner, stopped>>

stopTracking(id) ==
    /\ owner[id] \in clients
    /\ commands < MaxCommands /\ commands' = commands + 1
    /\ stopped' = stopped \cup {id}
    /\ Command("stop", id, 0, FALSE)
    /\ UNCHANGED owner

destroy(c) ==
    /\ c \in clients /\ Room
    /\ clients' = clients \ {c}
    /\ stopped' = stopped \cup {id \in Ids : owner[id] = c}
    /\ queue' = Append(queue, [what |-> "remove", client |-> c])
    /\ UNCHANGED <<world, owner, commands, events, answers, callbacks, sessions, pending,
                   known, power, requests, modem>>

-----------------------------------------------------------------------------
(* GnssAdapter, on its thread: what the message handlers are made of       *)

(* multiplexWithForTimeBasedRequest over the sessions of a set, 0 for none *)
Mux(ids) == IF ids = {} THEN 0 ELSE CHOOSE i \in {timeBased[id] : id \in ids} :
                                        \A id \in ids : i <= timeBased[id]
MuxWith(i, interval) == IF i = 0 \/ interval < i THEN interval ELSE i

Save(id, interval, far) ==
    IF far /\ "timeOnly" \notin world
    THEN distanceBased' = [distanceBased EXCEPT ![id] = interval] /\ UNCHANGED timeBased
    ELSE timeBased' = [timeBased EXCEPT ![id] = interval] /\ UNCHANGED distanceBased

Erase(id) ==
    IF id \in Time
    THEN timeBased' = [timeBased EXCEPT ![id] = 0] /\ UNCHANGED distanceBased
    ELSE distanceBased' = [distanceBased EXCEPT ![id] = 0] /\ UNCHANGED timeBased

(* reportResponse: a client that is gone hears nothing.                    *)
Report(id, success) ==
    IF owner[id] \in callbacks
    THEN unanswered' = [unanswered EXCEPT ![id] = @ - 1] /\ told' = [told EXCEPT ![id] = success]
    ELSE UNCHANGED answers

(* The requests of startTimeBasedTrackingMultiplex, of which there is none *)
(* when the modem runs the interval already: the client is then answered   *)
(* at once.                                                                *)
StartMultiplex(id, interval) ==
    IF Mux(Time) = MuxWith(Mux(Time), interval) THEN <<>>
    ELSE <<Ask("timeStart", id, MuxWith(Mux(Time), interval), "started", 0)>>

(* stopTimeBasedTrackingMultiplex: the last session stops the modem.       *)
BugStopKeepsInterval(id) ==
    IF Time = {id} THEN <<Ask("timeStop", id, 0, "stopped", 0)>> ELSE <<>>

StopMultiplex(id) ==
    LET others == Time \ {id}
    IN IF Time = {id} THEN <<Ask("timeStop", id, 0, "stopped", 0)>>
       ELSE IF Mux(others) = Mux(Time) THEN <<>>
       ELSE <<Ask("timeStart", id, Mux(others), "started", 0)>>

(* updateTrackingMultiplex                                                 *)
UpdateMultiplex(id, interval) ==
    LET others == Time \ {id}
        new    == MuxWith(Mux(others), interval)
    IN IF Mux(Time) = new THEN <<>>
       ELSE <<Ask("timeStart", id, new, "updated", timeBased[id])>>

(* The ids of a set as the map holds them: each at the place of its rank.  *)
Ascending(ids) ==
    [k \in 1..Cardinality(ids) |->
        CHOOSE id \in ids : Cardinality({other \in ids : other <= id}) = k]

DistanceRequests(do, ids, then) ==
    LET order == Ascending(ids)
    IN [k \in DOMAIN order |-> Ask(do, order[k], distanceBased[order[k]], then, 0)]

(* restartSessions                                                         *)
Restart ==
    (IF Time = {} THEN <<>> ELSE <<Ask("timeStart", 0, Mux(Time), "none", 0)>>)
        \o DistanceRequests("distanceStart", Distance, "none")

(* suspendSessions                                                         *)
Suspend == IF Time = {} THEN <<>> ELSE <<Ask("timeStop", 0, 0, "none", 0)>>

(* The handlers of an adapter message: what the first message of the queue *)
(* is, and what no handler of commands and answers changes.                *)
Receives(what) == queue # <<>> /\ Head(queue).what = what
Handled     == /\ queue' = Tail(queue)
               /\ UNCHANGED <<world, users, callbacks, known, power, modem>>
Send(reqs)  == requests' = requests \o reqs

(* Send the requests; without any, answer the command now.                 *)
SendOrReport(id, reqs) ==
    /\ Send(reqs)
    /\ IF reqs = <<>> THEN Report(id, TRUE) ELSE UNCHANGED answers

(* Distance-based tracking has to know the engine's capabilities.          *)
BugPostponesAll(m) == ~known /\ m.what \in {"start", "update"}
Postpone(m) == ~known /\ m.flag /\ m.what \in {"start", "update"}

ProcPostponed ==
    /\ \E what \in {"start", "update"} : Receives(what)
    /\ Postpone(Head(queue))
    /\ pending' = Append(pending, Head(queue))
    /\ Handled
    /\ UNCHANGED <<answers, sessions, requests>>

-----------------------------------------------------------------------------
(* The commands                                                            *)

(* A client without a callback for positions gets no session and no answer *)
ProcStart ==
    LET m == Head(queue)
        i == Clamp(m.interval)
    IN /\ Receives("start") /\ ~Postpone(m)
       /\ Handled
       /\ UNCHANGED pending
       /\ IF owner[m.id] \notin callbacks \/ "bare" \in world
          THEN UNCHANGED <<answers, sessions, requests>>
          ELSE /\ Save(m.id, i, m.flag)
               /\ IF m.flag /\ "timeOnly" \notin world
                  THEN /\ Send(<<Ask("distanceStart", m.id, i, "started", 0)>>)
                       /\ UNCHANGED answers
                  ELSE SendOrReport(m.id, StartMultiplex(m.id, i))

(* From time-based to distance-based, whatever the modem supports.         *)
SwitchToDistance(id, i) ==
    LET stop == StopMultiplex(id)
    IN /\ requests' = requests \o stop \o <<Ask("distanceStart", id, i, "none", 0)>>
       /\ IF stop = <<>> THEN Report(id, TRUE) ELSE UNCHANGED answers
       /\ IF "timeOnly" \in world
          THEN timeBased' = [timeBased EXCEPT ![id] = i] /\ UNCHANGED distanceBased
          ELSE /\ timeBased' = [timeBased EXCEPT ![id] = 0]
               /\ distanceBased' = [distanceBased EXCEPT ![id] = i]

ProcUpdate ==
    LET m  == Head(queue)
        id == m.id
        i  == Clamp(m.interval)
    IN /\ Receives("update") /\ ~Postpone(m)
       /\ Handled
       /\ UNCHANGED pending
       /\ \/ /\ id \notin Time \cup Distance
             /\ Report(id, FALSE) /\ UNCHANGED <<sessions, requests>>
          \/ /\ id \in Time /\ m.flag
             /\ SwitchToDistance(id, i)
          \/ /\ id \in Distance /\ ~m.flag
             /\ Send(<<Ask("distanceStop", id, 0, "toTime", i)>>)
             /\ Erase(id) /\ UNCHANGED answers
          \/ /\ id \in Time \ Distance /\ ~m.flag
             /\ SendOrReport(id, UpdateMultiplex(id, i))
             /\ Save(id, i, FALSE)
          \/ /\ id \in Distance \ Time /\ m.flag
             /\ Send(<<Ask("distanceStop", id, 0, "restart", i)>>)
             /\ UNCHANGED <<sessions, answers>>

ProcStop ==
    LET id == Head(queue).id
    IN /\ Receives("stop")
       /\ Handled
       /\ UNCHANGED pending
       /\ \/ /\ id \in Time
             /\ SendOrReport(id, StopMultiplex(id))
             /\ Erase(id)
          \/ /\ id \in Distance \ Time
             /\ Send(<<Ask("distanceStop", id, 0, "distanceStopped", 0)>>)
             /\ UNCHANGED <<sessions, answers>>
          \/ /\ id \notin Time \cup Distance
             /\ Report(id, FALSE) /\ UNCHANGED <<sessions, requests>>

(* removeClientCommand: stopClientSessions stops the time-based sessions   *)
(* one after the other, then asks for the end of the distance-based ones,  *)
(* and the client is forgotten.  The loop is one message of the adapter.   *)
ProcRemoveSession ==
    LET mine == {id \in Time : owner[id] = Head(queue).client}
    IN /\ Receives("remove") /\ mine # {}
       /\ \E id \in mine :
             /\ \A other \in mine : id <= other
             /\ Send(StopMultiplex(id))
             /\ Erase(id)
       /\ UNCHANGED <<world, users, answers, queue, callbacks, pending, known, power, modem>>

BugForgetsDistance(c) == {}
OwnDistance(c) == {id \in Distance : owner[id] = c}

ProcRemoveClient ==
    LET c == Head(queue).client
    IN /\ Receives("remove") /\ ~\E id \in Time : owner[id] = c
       /\ Send(DistanceRequests("distanceStop", OwnDistance(c), "goneStopped"))
       /\ callbacks' = callbacks \ {c}
       /\ queue' = Tail(queue)
       /\ UNCHANGED <<world, users, answers, sessions, pending, known, power, modem>>

-----------------------------------------------------------------------------
(* The answers.  Errors count only while GNSS is not locked.               *)

Failed  == ~Head(queue).flag /\ engineLock # "disabled"
Answered(what) == Receives(what) /\ Handled /\ UNCHANGED pending

(* The callbacks of startTimeBasedTracking and startDistanceBasedTracking  *)
ProcStarted ==
    /\ Answered("started")
    /\ IF Failed THEN Erase(Head(queue).id) ELSE UNCHANGED sessions
    /\ Report(Head(queue).id, Head(queue).flag)
    /\ UNCHANGED requests

(* updateTracking: the old options come back.                              *)
ProcUpdated ==
    /\ Answered("updated")
    /\ IF Failed THEN Save(Head(queue).id, Head(queue).interval, FALSE) ELSE UNCHANGED sessions
    /\ Report(Head(queue).id, Head(queue).flag)
    /\ UNCHANGED requests

ProcStopped ==
    /\ Answered("stopped")
    /\ Report(Head(queue).id, Head(queue).flag)
    /\ UNCHANGED <<sessions, requests>>

ProcDistanceStopped ==
    /\ Answered("distanceStopped")
    /\ IF Failed THEN UNCHANGED sessions ELSE Erase(Head(queue).id)
    /\ Report(Head(queue).id, Head(queue).flag)
    /\ UNCHANGED requests

ProcGoneStopped ==
    /\ Answered("goneStopped")
    /\ IF Head(queue).flag THEN Erase(Head(queue).id) ELSE UNCHANGED sessions
    /\ UNCHANGED <<answers, requests>>

(* The second half of the change from distance-based to time-based         *)
ProcToTime ==
    LET m == Head(queue)
    IN /\ Answered("toTime")
       /\ SendOrReport(m.id, StartMultiplex(m.id, m.interval))
       /\ Save(m.id, m.interval, FALSE)

(* New options of a distance-based session: stop, then start.              *)
ProcRestart ==
    LET m == Head(queue)
    IN /\ Answered("restart")
       /\ Send(IF m.flag THEN <<Ask("distanceStart", m.id, m.interval, "restarted", m.interval)>>
               ELSE <<>>)
       /\ UNCHANGED <<sessions, answers>>

ProcRestarted ==
    LET m == Head(queue)
    IN /\ Answered("restarted")
       /\ IF Failed THEN UNCHANGED sessions ELSE Save(m.id, m.interval, TRUE)
       /\ Report(m.id, m.flag)
       /\ UNCHANGED requests

-----------------------------------------------------------------------------
(* The events                                                              *)

Unlocked == engineLock # "disabled"
Resend   == /\ queue' = Tail(queue) \o pending
            /\ pending' = <<>>

(* MsgHandleEngineUpEvent: updateSystemPowerState of the state it has,     *)
(* then pending messages and sessions unless GNSS is locked.               *)
BugUpKeepsPending ==
    /\ Receives("up") /\ known' = TRUE
    /\ requests' = requests \o (IF Unlocked /\ power # "suspend" THEN Restart ELSE <<>>)
    /\ queue' = Tail(queue)
    /\ UNCHANGED <<world, users, answers, callbacks, sessions, pending, power, modem>>
ProcEngineUp ==
    /\ Receives("up")
    /\ known' = TRUE
    /\ requests' = requests
          \o (CASE power = "suspend" -> Suspend [] power = "resume" -> Restart [] OTHER -> <<>>)
          \o (IF Unlocked /\ power # "suspend" THEN Restart ELSE <<>>)
    /\ IF Unlocked THEN Resend ELSE queue' = Tail(queue) /\ UNCHANGED pending
    /\ UNCHANGED <<world, users, answers, callbacks, sessions, power, modem>>

handleEngineLockStatus ==
    /\ Receives("lock")
    /\ IF Head(queue).flag
       THEN Resend /\ Send(IF power # "suspend" THEN Restart ELSE <<>>)
       ELSE queue' = Tail(queue) /\ UNCHANGED <<pending, requests>>
    /\ UNCHANGED <<world, users, answers, callbacks, sessions, known, power, modem>>

updateSystemPowerState ==
    /\ Receives("power")
    /\ power' = IF Head(queue).flag THEN "resume" ELSE "suspend"
    /\ Send(IF Head(queue).flag THEN Restart ELSE Suspend)
    /\ queue' = Tail(queue)
    /\ UNCHANGED <<world, users, answers, callbacks, sessions, pending, known, modem>>

-----------------------------------------------------------------------------
(* LocApi and the modem                                                    *)

(* How the modem takes a request                                           *)
Outcomes(r) ==
    IF ~modemUp \/ (r.do = "distanceStart" /\ "timeOnly" \in world) THEN {FALSE}
    ELSE IF engineLock = "disabled"
         THEN IF r.do \in {"timeStart", "distanceStart"} THEN {FALSE} ELSE BOOLEAN
    ELSE IF "fails" \in world THEN BOOLEAN ELSE {TRUE}

LocApiRequest ==
    /\ requests # <<>>
    /\ LET r == Head(requests)
       IN /\ r.do # "open"
          /\ \E ok \in Outcomes(r) :
                /\ running' = IF ~ok THEN running
                              ELSE CASE r.do = "timeStart" -> r.interval
                                     [] r.do = "timeStop"  -> 0
                                     [] OTHER              -> running
                /\ runningDistance' = IF ~ok THEN runningDistance
                              ELSE CASE r.do = "distanceStart" -> runningDistance \cup {r.id}
                                     [] r.do = "distanceStop"  -> runningDistance \ {r.id}
                                     [] OTHER                  -> runningDistance
                /\ queue' = IF r.then = "none" THEN queue
                            ELSE Append(queue, Message(r.then, r.id, r.opts, ok))
    /\ requests' = Tail(requests)
    /\ UNCHANGED <<world, users, answers, callbacks, sessions, pending, known, power,
                   engineLock, modemUp>>

(* LocOpenMsg and LocSsrMsg: the modem is asked for its lock and the       *)
(* adapters are told.                                                      *)
LocApiOpen ==
    /\ requests # <<>> /\ Head(requests).do = "open"
    /\ requests' = Tail(requests)
    /\ modemUp' = TRUE
    /\ engineLock' \in IF "locks" \in world THEN {"enabled", "disabled"} ELSE {"enabled"}
    /\ queue' = Append(queue, Message("up", 0, 0, FALSE))
    /\ UNCHANGED <<world, users, answers, callbacks, sessions, pending, known, power,
                   running, runningDistance>>

Event == /\ Room
         /\ events < MaxEvents /\ events' = events + 1
         /\ UNCHANGED <<world, clients, owner, stopped, commands, answers, callbacks, sessions,
                        pending, known, power>>

(* handleEngineDownEvent                                                   *)
ModemCrashes ==
    /\ "crashes" \in world /\ modemUp
    /\ modemUp' = FALSE /\ running' = 0 /\ runningDistance' = {}
    /\ requests' = Append(requests, Ask("open", 0, 0, "none", 0))
    /\ Event
    /\ UNCHANGED <<queue, engineLock>>

(* The lock as the modem reports it.  A locked engine runs nothing.        *)
EngineLockChanges ==
    /\ "locks" \in world /\ modemUp
    /\ engineLock' = IF engineLock = "enabled" THEN "disabled" ELSE "enabled"
    /\ IF engineLock = "enabled" THEN running' = 0 /\ runningDistance' = {}
                                 ELSE UNCHANGED <<running, runningDistance>>
    /\ queue' = Append(queue, Message("lock", 0, 0, engineLock = "disabled"))
    /\ Event
    /\ UNCHANGED <<requests, modemUp>>

PowerChanges ==
    /\ "power" \in world
    /\ \E resumed \in BOOLEAN : queue' = Append(queue, Message("power", 0, 0, resumed))
    /\ Event
    /\ UNCHANGED <<requests, modem>>

-----------------------------------------------------------------------------

Client ==
    \/ \E c \in Clients, i \in Asked, far \in BOOLEAN : startTracking(c, i, far)
    \/ \E id \in Ids, i \in Asked, far \in BOOLEAN : updateTrackingOptions(id, i, far)
    \/ \E id \in Ids : stopTracking(id)
    \/ \E c \in Clients : destroy(c)

Adapter ==
    \/ ProcPostponed \/ ProcStart \/ ProcUpdate \/ ProcStop
    \/ ProcRemoveSession \/ ProcRemoveClient
    \/ ProcStarted \/ ProcUpdated \/ ProcStopped
    \/ ProcDistanceStopped \/ ProcGoneStopped
    \/ ProcToTime \/ ProcRestart \/ ProcRestarted
    \/ ProcEngineUp \/ handleEngineLockStatus \/ updateSystemPowerState

LocApi == LocApiRequest \/ LocApiOpen

Next == Client \/ Adapter \/ LocApi \/ ModemCrashes \/ EngineLockChanges \/ PowerChanges

Spec == Init /\ [][Next]_vars

(* Both threads go on as long as they have messages.                       *)
FairSpec == Spec /\ WF_vars(Adapter) /\ WF_vars(LocApi)

-----------------------------------------------------------------------------

(* Properties.  Each names, by Exposed, the freedoms under which the code  *)
(* does not keep it: those races are listed in the README.                 *)

Quiet   == queue = <<>> /\ requests = <<>>
Settled == Quiet /\ modemUp /\ Unlocked /\ power # "suspend"
Exposed(freedoms) == freedoms \cap world # {}

(* The modem can refuse a request that the adapter's maps are built on.    *)
Refusals == Exposed({"fails", "crashes"}) \/ {"cold", "locks"} \subseteq world

(* reportResponse: no command of a client is answered twice, however its   *)
(* sessions change kind, restart or fail.                                  *)
AnsweredOnce == \A id \in Ids : unanswered[id] >= 0

(* When both threads have come to rest every command of a client that is   *)
(* still there has been answered, also those that waited for the engine    *)
(* once it is up and unlocked.  Not so without a tracking callback         *)
(* (MsgStartTracking drops the error) and when the stop of a distance      *)
(* session that is to be restarted with new options fails.                 *)
AllAnswered ==
    Quiet /\ (pending = <<>> \/ (known /\ Unlocked)) /\ ~Exposed({"bare"})
      /\ (Exposed({"updates"}) => ~Exposed({"fails", "crashes", "locks"}))
        => \A id \in Started : owner[id] \in clients => unanswered[id] = 0

(* Every command is answered, and once.                                    *)
EachAnswered == TypeOK /\ AnsweredOnce /\ AllAnswered

(* At rest the modem runs the multiplex of the time-based sessions, after  *)
(* any order of starts, stops, lock and power changes: the requests, which *)
(* are computed from the maps before earlier ones are answered, add up.    *)
(* When the last session of the map was one that the modem refused for the *)
(* lock, its answer after the unlock erases it and the restart of another, *)
(* whose stop found the map not empty, goes on for nobody.                 *)
TimeAgrees ==
    Settled /\ ~Refusals /\ ~Exposed({"updates"})
        => running = Mux(Time) \/ ("locks" \in world /\ Time = {})

(* Also where sessions are updated and the modem restarts, no time-based   *)
(* session is served less often than it asked for.                         *)
TimeServed ==
    Settled /\ Time # {} /\ ~Exposed({"fails"}) /\ ~({"updates", "timeOnly"} \subseteq world)
        => running \in 1..Mux(Time)

(* At rest the modem runs the distance-based sessions of the map: stops    *)
(* erase their session only when answered, failed starts erase theirs.     *)
(* Not so when updates or a restart of all sessions overtake a stop that   *)
(* is under way.                                                           *)
DistanceAgrees ==
    Settled /\ ~Exposed({"updates", "crashes", "locks", "power"})
        => runningDistance = Distance

(* Lock, power and modem restarts lose no distance-based session, unless   *)
(* the modem refuses the restart, whose answer nobody looks at.            *)
DistanceServed ==
    Settled /\ ~Exposed({"updates"}) /\ (Exposed({"fails"}) => ~Exposed({"crashes", "locks"}))
        => Distance \subseteq runningDistance

(* At rest the modem runs what the maps hold, and updates, locks, restarts *)
(* and power changes lose no session of them.                              *)
ModemAgrees == TimeAgrees /\ DistanceAgrees /\ TimeServed /\ DistanceServed

(* A client that was last told SUCCESS about a session it has not stopped  *)
(* has the session, and the modem is running for it.                       *)
StartedIsServed ==
    Settled => \A id \in Started \ stopped :
        told[id] /\ unanswered[id] = 0
            => \/ id \in Time /\ running # 0
               \/ id \in runningDistance

(* The same where the modem refuses nothing a client was promised.         *)
ToldServed ==
    ~Exposed({"fails"}) /\ ~({"updates", "timeOnly"} \subseteq world)
      /\ (Exposed({"updates"}) => ~Exposed({"crashes", "locks"}))
        => StartedIsServed

(* Clients, maps and modem agree at rest about the sessions that run.      *)
SessionsServed == ModemAgrees /\ ToldServed

(* A session whose stop was answered with SUCCESS does not come back: no   *)
(* answer that was under way, pending message or restart revives it.  Not  *)
(* so with updates, and with starts that wait for the engine: these are    *)
(* unknown to the stop that overtakes them.                                *)
StoppedStays ==
    Quiet /\ pending = <<>> /\ modemUp /\ ~Exposed({"cold", "updates"})
        => \A id \in stopped : owner[id] \in clients /\ told[id] => id \notin Time \cup Distance

(* At rest no session is left of a client that was destroyed, although     *)
(* its distance-based sessions are still being stopped when it is removed. *)
(* A stop that fails leaves the session for ever.                          *)
GoneStays ==
    Quiet /\ modemUp /\ ~Exposed({"fails", "updates", "crashes", "locks"})
        => \A id \in Time \cup Distance : owner[id] \in clients

(* Nothing revives a session that has ended.                               *)
EndedStays == StoppedStays /\ GoneStays
=============================================================================
