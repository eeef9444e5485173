------------------------------ MODULE Geofence ------------------------------
(***************************************************************************)
(* Geofences, from the framework's commands down to the modem.  The AIDL   *)
(* client names a geofence by an id of the framework; LocationAPIClientBase*)
(* gives it a session id, remembers both in a BiDict and queues a request  *)
(* object for the response; GeofenceAdapter knows the modem's hwId of each *)
(* session.  A command makes two round trips through LocApi's thread: one  *)
(* through its call queue, whose answer looks the hwId up, and one to the  *)
(* modem.  The modem refuses requests, restarts with other hwIds, and the  *)
(* system suspends.                                                        *)
(*                                                                         *)
(* What a geofence looks like (place, radius, breach mask) is left out.    *)
(* The framework does not add an id that it knows to be there.             *)
(* A GNSS lock makes the modem refuse, and keep what it has.               *)
(* Definitions named Bug... are what-if variants of the definition that    *)
(* follows them.                                                           *)
(***************************************************************************)
EXTENDS Integers, SequencesExt

CONSTANTS
    Ids,            \* geofence ids of the framework
    NoId,           \* not an id
    MaxSessions,    \* bound on the geofences added in a behaviour
    MaxCommands,    \* bound on the framework's commands
    MaxEvents,      \* bound on crashes, power and lock changes
    MaxBreaches,    \* bound on the breaches the modem reports
    NoFence,        \* no geofence
    Worlds          \* combinations of Freedoms to explore

(* What a behaviour may be exposed to.                                     *)
Freedoms == {"hasty",       \* commands do not wait for the response of the last one on the id
             "refuses",     \* the modem refuses requests
             "crashes",     \* the modem restarts when nothing is under way
             "untimely",    \* it restarts at any time
             "power",       \* the system suspends and resumes
             "locks",       \* GNSS is disabled and enabled
             "modifies",    \* the client modifies geofences (no AIDL client does)
             "destroys"}    \* the client may be destroyed

ASSUME GeofenceAssumption ==
    /\ NoId \notin Ids
    /\ NoFence \notin [session : Nat, paused : BOOLEAN]
    /\ MaxSessions \in Nat \ {0}
    /\ {MaxCommands, MaxEvents, MaxBreaches} \subseteq Nat
    /\ Worlds \subseteq SUBSET Freedoms

VARIABLES
    world,
    \* framework and LocationAPIClientBase
    known,          \* what the framework was told of each id
    forward,        \* mGeofenceBiDict: id to session, 0 for none
    backward,       \* mGeofenceBiDict: session to id
    requestQueue,   \* mRequestQueues[REQUEST_GEOFENCE]
    commands,       \* the commands of the behaviour and how they were answered
    events,         \* crashes, power and lock changes so far
    breaches,       \* breaches so far
    \* GeofenceAdapter
    queue,          \* messages of its thread
    client,         \* is the client in mClientData
    fences,         \* mGeofences: hwId to geofence
    hwIds,          \* mGeofenceIds: session to hwId
    power,          \* mSystemPowerState
    \* LocApi and the modem
    requests,       \* messages of the LocApi thread
    engineLock,     \* mEngineLockState
    modemUp,
    modem           \* the modem's geofences by hwId

user    == <<known, forward, backward, requestQueue, commands>>
adapter == <<client, fences, hwIds, power>>
engine  == <<engineLock, modemUp, modem>>
vars    == <<world, user, events, breaches, queue, adapter, requests, engine>>

Sessions == 1..MaxSessions
ModemIds == 1..MaxSessions
HwIds    == 0..MaxSessions      \* 0: what an add that failed has in its answer
Fence    == [session : Sessions, paused : BOOLEAN]
NoHw     == -1

(* A set of numbers in their order, as the maps of the adapter are walked  *)
Ascending(S) ==
    [i \in 1..Cardinality(S) |-> CHOOSE x \in S : Cardinality({y \in S : y <= x}) = i]

(* Commands are numbered; "n" is the number a message belongs to, "flag"   *)
(* marks the last item of a command's array or, for a restart, whether the *)
(* geofence was paused.                                                    *)
Kinds == {"add", "remove", "pause", "resume", "modify"}
Then  == Kinds \cup {"restart", "gone", "suspend", "wake", "nothing"}
Ask(do, then, n, session, hw, flag) ==
    [do |-> do, then |-> then, n |-> n, session |-> session, hw |-> hw, flag |-> flag]
Requests == [do : Kinds \cup {"call", "open"}, then : Then, n : 0..MaxCommands,
             session : 0..MaxSessions, hw : HwIds, flag : BOOLEAN]
Event(what, hw, session, flag) ==
    [what |-> what, hw |-> hw, session |-> session, flag |-> flag]
Messages == [what : {"command"}, do : Kinds, n : 1..MaxCommands, ids : Seq(Sessions)]
            \cup [what : {"answer"}, ok : BOOLEAN, to : Requests]
            \cup [what : {"up", "power", "breach", "destroy"}, hw : HwIds,
                  session : 0..MaxSessions, flag : BOOLEAN]

(* Every message is of a known shape, every map within its range.          *)
TypeOK ==
    /\ world \in Worlds
    /\ known \in [Ids -> {"absent", "adding", "active", "paused"}]
    /\ forward \in [Ids -> 0..MaxSessions]
    /\ backward \in [Sessions -> Ids \cup {NoId}]
    /\ requestQueue \in Seq([do : Kinds, n : 1..MaxCommands, ids : SUBSET Ids])
    /\ commands \in Seq([do : Kinds, sessions : Seq(Sessions), failed : BOOLEAN,
                         refused : BOOLEAN, sent : Nat, got : 0..MaxCommands])
    /\ Len(commands) <= MaxCommands
    /\ events \in 0..MaxEvents /\ breaches \in 0..MaxBreaches
    /\ queue \in Seq(Messages)
    /\ client \in BOOLEAN
    /\ fences \in [HwIds -> Fence \cup {NoFence}]
    /\ hwIds \in [Sessions -> HwIds \cup {NoHw}]
    /\ power \in {"unknown", "suspend", "resume"}
    /\ requests \in Seq(Requests)
    /\ engineLock \in {"enabled", "disabled"} /\ modemUp \in BOOLEAN
    /\ modem \in [ModemIds -> Fence \cup {NoFence}]

(* The adapter is up before the framework sets its callback.               *)
Init ==
    /\ world \in Worlds
    /\ known = [id \in Ids |-> "absent"]
    /\ forward = [id \in Ids |-> 0] /\ backward = [s \in Sessions |-> NoId]
    /\ requestQueue = <<>> /\ commands = <<>>
    /\ events = 0 /\ breaches = 0
    /\ queue = <<>> /\ client = TRUE
    /\ fences = [h \in HwIds |-> NoFence] /\ hwIds = [s \in Sessions |-> NoHw]
    /\ power = "unknown"
    /\ requests = <<>> /\ engineLock = "enabled" /\ modemUp = TRUE
    /\ modem = [h \in ModemIds |-> NoFence]

-----------------------------------------------------------------------------
(* LocationAPIClientBase, on the framework's threads under mMutex          *)

Destroyed == ~client \/ \E k \in DOMAIN queue : queue[k].what = "destroy"

Waiting(id) == \E k \in DOMAIN requestQueue : id \in requestQueue[k].ids

(* The request object goes into the queue and the command to the adapter.  *)
Send(do, ids, sessions) ==
    LET n == Len(commands) + 1
    IN /\ n <= MaxCommands /\ ~Destroyed
       /\ requestQueue' = Append(requestQueue, [do |-> do, n |-> n, ids |-> ids])
       /\ queue' = Append(queue, [what |-> "command", do |-> do, n |-> n, ids |-> sessions])
       /\ commands' = Append(commands, [do |-> do, sessions |-> sessions, failed |-> FALSE,
                                        refused |-> FALSE, sent |-> 0, got |-> 0])
       /\ UNCHANGED <<world, events, breaches, adapter, requests, engine>>

NewSession == Cardinality({n \in DOMAIN commands : commands[n].do = "add"}) + 1

locAPIAddGeofences(id) ==
    /\ known[id] = "absent" /\ NewSession \in Sessions
    /\ "hasty" \in world \/ ~Waiting(id)
    /\ forward' = [forward EXCEPT ![id] = NewSession]
    /\ backward' = [backward EXCEPT ![NewSession] = id]
    /\ known' = [known EXCEPT ![id] = "adding"]
    /\ Send("add", {id}, <<NewSession>>)

Added == {id \in Ids : forward[id] # 0}

(* The ids of the sessions are forgotten before the response.              *)
RemoveGeofences(ids) ==
    /\ ids # {}
    /\ forward' = [id \in Ids |-> IF id \in ids THEN 0 ELSE forward[id]]
    /\ backward' = [s \in Sessions |-> IF \E id \in ids : forward[id] = s THEN NoId
                                                                          ELSE backward[s]]
    /\ known' = [id \in Ids |-> IF id \in ids THEN "absent" ELSE known[id]]
    /\ Send("remove", ids, Ascending({forward[id] : id \in ids}))

(* Without haste a command is about an id that the framework was told is   *)
(* there.                                                                  *)
MayName(id) == "hasty" \in world \/ (known[id] \in {"active", "paused"} /\ ~Waiting(id))

locAPIRemoveGeofences(id) == MayName(id) /\ RemoveGeofences({id} \cap Added)

(* geofenceRemoveAll, when the framework's service dies: also of ids whose *)
(* add failed                                                              *)
locAPIRemoveAllGeofences ==
    /\ Cardinality(Added) > 1 /\ \A id \in Added : "hasty" \in world \/ ~Waiting(id)
    /\ RemoveGeofences(Added)

Change(do, id) ==
    /\ id \in Added /\ MayName(id)
    /\ Send(do, {id}, <<forward[id]>>)
    /\ UNCHANGED <<known, forward, backward>>

locAPIPauseGeofences(id)  == Change("pause", id)
locAPIResumeGeofences(id) == Change("resume", id)
locAPIModifyGeofences(id) == "modifies" \in world /\ Change("modify", id)

(* LocationAPIClientBase::destroy: the outstanding requests are deleted.   *)
destroy ==
    /\ "destroys" \in world /\ ~Destroyed
    /\ requestQueue' = <<>>
    /\ queue' = Append(queue, Event("destroy", 0, 0, FALSE))
    /\ UNCHANGED <<world, known, forward, backward, commands, events, breaches, adapter, requests,
                   engine>>

-----------------------------------------------------------------------------
(* Responses: reportResponse and, on the same thread, the client's         *)
(* onCollectiveResponseCb, which takes the oldest request for the one that *)
(* is answered and finds the ids of the answer in the BiDict.              *)

Heard(do, ok, id) ==
    CASE known[id] = "absent"        -> "absent"
      [] do = "add"                  -> IF ok THEN "active" ELSE "absent"
      [] do = "pause" /\ ok          -> "paused"
      [] do = "resume" /\ ok         -> "active"
      [] OTHER                       -> known[id]

(* The position in the request queue of the request that a response is for *)
AnsweredRequest == 1

(* The response of command n goes by the oldest request; s is the session  *)
(* of its last item.                                                       *)
onCollectiveResponseCb(n, s, c) ==
    LET r == requestQueue[AnsweredRequest]
        done == [commands EXCEPT ![n] = [c EXCEPT !.sent = @ + 1]]
    IN IF requestQueue = <<>>
       THEN commands' = done /\ UNCHANGED <<known, requestQueue>>
       ELSE /\ commands' = [done EXCEPT ![r.n].got = n]
            /\ requestQueue' = RemoveAt(requestQueue, AnsweredRequest)
            /\ known' = [id \in Ids |-> IF id = backward[s] THEN Heard(r.do, ~c.failed, id)
                                                            ELSE known[id]]

(* c is the record of command n with what its items came to.               *)
reportResponse(n, s, c) ==
    IF client THEN onCollectiveResponseCb(n, s, c)
    ELSE commands' = [commands EXCEPT ![n] = c] /\ UNCHANGED <<known, requestQueue>>

(* An item of command n has its result: "ok" is what the modem said, "err" *)
(* what goes into errs[i].  With the last item all go out.                 *)
BugLastErrorOnly(r, ok, err) ==
    LET c == [commands[r.n] EXCEPT !.failed = err, !.refused = @ \/ ~ok]
    IN IF r.flag THEN reportResponse(r.n, r.session, c)
       ELSE commands' = [commands EXCEPT ![r.n] = c] /\ UNCHANGED <<known, requestQueue>>
ItemDone(r, ok, err) ==
    LET c == [commands[r.n] EXCEPT !.failed = @ \/ err, !.refused = @ \/ ~ok]
    IN IF r.flag THEN reportResponse(r.n, r.session, c)
       ELSE commands' = [commands EXCEPT ![r.n] = c] /\ UNCHANGED <<known, requestQueue>>

NobodyHears == UNCHANGED <<known, requestQueue, commands>>

-----------------------------------------------------------------------------
(* GeofenceAdapter: its thread takes the messages in order.                *)

Turn(what) == queue # <<>> /\ Head(queue).what = what /\ queue' = Tail(queue)
Asks(rs) == requests' = requests \o rs

(* Each item first goes through LocApi's call queue; the last one will     *)
(* send the response.                                                      *)
IsLast(i, m)         == i = Len(m.ids)

ProcCommand ==
    LET m == Head(queue)
    IN /\ Turn("command")
       /\ Asks([i \in DOMAIN m.ids |-> Ask("call", m.do, m.n, m.ids[i], 0, IsLast(i, m))])
       /\ UNCHANGED <<world, user, events, breaches, adapter, engine>>

(* An item has come through the call queue: all but an add look up the     *)
(* hwId, and one that is unknown ends there.                               *)
BugTrustsLookup(r) == TRUE
Found(r) == hwIds[r.session] # NoHw

ProcCalled ==
    LET r == Head(queue).to
    IN /\ Turn("answer") /\ r.do = "call"
       /\ CASE r.then = "add" -> Asks(<<[r EXCEPT !.do = "add"]>>) /\ NobodyHears
            [] r.then # "add" /\ Found(r) ->
                  Asks(<<[r EXCEPT !.do = r.then, !.hw = hwIds[r.session]]>>) /\ NobodyHears
            [] OTHER -> UNCHANGED requests /\ ItemDone(r, TRUE, TRUE)
       /\ UNCHANGED <<world, forward, backward, events, breaches, adapter, engine>>

(* saveGeofenceItem                                                        *)
Save(session, hw) ==
    /\ fences' = [fences EXCEPT ![hw] = [session |-> session, paused |-> FALSE]]
    /\ hwIds' = [hwIds EXCEPT ![session] = hw]

(* removeGeofenceItem finds the session by the hwId.                       *)
Forget(hw) ==
    IF fences[hw] # NoFence /\ hwIds[fences[hw].session] # NoHw
    THEN /\ hwIds' = [hwIds EXCEPT ![fences[hw].session] = NoHw]
         /\ fences' = [fences EXCEPT ![hw] = NoFence]
    ELSE UNCHANGED <<fences, hwIds>>

(* pauseGeofenceItem, resumeGeofenceItem                                   *)
SetPaused(hw, paused) ==
    /\ fences' = IF fences[hw] = NoFence THEN fences ELSE [fences EXCEPT ![hw].paused = paused]
    /\ UNCHANGED hwIds

Keep == UNCHANGED <<fences, hwIds>>

Unlocked == engineLock = "enabled"

(* The modem's answer to what was asked for "then".                        *)
Answered(then) == Turn("answer") /\ Head(queue).to.do # "call" /\ Head(queue).to.then = then
Others == UNCHANGED <<world, forward, backward, events, breaches, client, power, engine>>

ProcAdded ==
    LET r == Head(queue).to  ok == Head(queue).ok
    IN /\ Answered("add")
       /\ IF ok \/ ~Unlocked THEN Save(r.session, r.hw) ELSE Keep
       /\ ItemDone(r, ok, ~ok)
       /\ UNCHANGED requests /\ Others

BugForgetsFirst(r, ok) == Forget(r.hw)
AfterRemove(r, ok) == IF ok \/ ~Unlocked THEN Forget(r.hw) ELSE Keep

ProcRemoved ==
    LET r == Head(queue).to  ok == Head(queue).ok
    IN /\ Answered("remove")
       /\ AfterRemove(r, ok)
       /\ ItemDone(r, ok, ~ok)
       /\ UNCHANGED requests /\ Others

ProcPaused ==
    LET r == Head(queue).to  ok == Head(queue).ok
    IN /\ Answered("pause")
       /\ IF ok THEN SetPaused(r.hw, TRUE) ELSE Keep
       /\ ItemDone(r, ok, ~ok)
       /\ UNCHANGED requests /\ Others

(* A resume that fails is not answered at all.                             *)
ProcResumed ==
    LET r == Head(queue).to  ok == Head(queue).ok
    IN /\ Answered("resume")
       /\ IF ok THEN SetPaused(r.hw, FALSE) /\ ItemDone(r, TRUE, FALSE)
                ELSE Keep /\ commands' = [commands EXCEPT ![r.n].refused = TRUE]
                          /\ UNCHANGED <<known, requestQueue>>
       /\ UNCHANGED requests /\ Others

(* Unless GNSS is locked errs[i] keeps the SUCCESS of the lookup.          *)
ProcModified ==
    LET r == Head(queue).to  ok == Head(queue).ok
    IN /\ Answered("modify")
       /\ ItemDone(r, ok, ~ok /\ ~Unlocked)
       /\ UNCHANGED requests /\ Keep /\ Others

(* restartGeofences, its answer: pausing once more is not noted.           *)
BugRestartsRunning(r, ok) == FALSE
MustPause(r, ok) == ok /\ r.flag

ProcRestored ==
    LET r == Head(queue).to  ok == Head(queue).ok
    IN /\ Answered("restart")
       /\ Asks(IF MustPause(r, ok) THEN <<Ask("pause", "nothing", 0, r.session, r.hw, FALSE)>>
                                   ELSE <<>>)
       /\ IF ok THEN Save(r.session, r.hw) ELSE Keep
       /\ NobodyHears /\ Others

(* stopClientSessions, its answer                                          *)
ProcGone ==
    LET r == Head(queue).to
    IN /\ Answered("gone")
       /\ fences' = IF Head(queue).ok THEN [fences EXCEPT ![r.hw] = NoFence] ELSE fences
       /\ UNCHANGED <<hwIds, requests>> /\ NobodyHears /\ Others

(* pauseOrResumeGeofences, its answer                                      *)
ProcSlept ==
    LET r == Head(queue).to
    IN /\ Answered("suspend") \/ Answered("wake")
       /\ IF Head(queue).ok THEN SetPaused(r.hw, r.then = "suspend") ELSE Keep
       /\ UNCHANGED requests /\ NobodyHears /\ Others

ProcNothing ==
    /\ Answered("nothing")
    /\ UNCHANGED requests /\ Keep /\ NobodyHears /\ Others

(* restartGeofences, in the order of the hwIds                             *)
ToRestart == {h \in HwIds : fences[h] # NoFence}

Restart ==
    LET old == Ascending(ToRestart)
    IN IF old = <<>> THEN Keep /\ UNCHANGED requests
       ELSE /\ fences' = [h \in HwIds |-> NoFence]
            /\ hwIds' = [s \in Sessions |-> NoHw]
            /\ Asks([i \in DOMAIN old |-> Ask("add", "restart", 0, fences[old[i]].session, 0,
                                              fences[old[i]].paused)])

(* handleEngineUpEvent                                                     *)
ProcEngineUp ==
    /\ Turn("up")
    /\ IF Unlocked /\ power # "suspend" THEN Restart ELSE Keep /\ UNCHANGED requests
    /\ NobodyHears /\ Others

Held == Ascending({s \in Sessions : hwIds[s] # NoHw})

(* updateSystemPowerState: pauses or resumes every geofence.               *)
ProcPower ==
    LET resumed == Head(queue).flag
        do == IF resumed THEN "resume" ELSE "pause"
        then == IF resumed THEN "wake" ELSE "suspend"
    IN /\ Turn("power")
       /\ power' = IF resumed THEN "resume" ELSE "suspend"
       /\ Asks([i \in DOMAIN Held |-> Ask(do, then, 0, Held[i], hwIds[Held[i]], FALSE)])
       /\ UNCHANGED <<world, user, events, breaches, client, fences, hwIds, engine>>

(* removeClientCommand: stopClientSessions, then eraseClient.              *)
StopSessions == [i \in DOMAIN Held |-> Ask("remove", "gone", 0, Held[i], hwIds[Held[i]], FALSE)]

ProcDestroy ==
    /\ Turn("destroy")
    /\ hwIds' = [s \in Sessions |-> NoHw]
    /\ Asks(StopSessions)
    /\ client' = FALSE
    /\ UNCHANGED <<world, user, events, breaches, fences, power, engine>>

(* geofenceBreach only calls back.                                         *)
ProcBreach ==
    /\ Turn("breach")
    /\ UNCHANGED <<world, user, events, breaches, adapter, requests, engine>>

-----------------------------------------------------------------------------
(* LocApi's thread and the modem                                           *)

Free == {h \in ModemIds : modem[h] = NoFence}

Doable(r) ==
    /\ modemUp /\ Unlocked
    /\ IF r.do = "add" THEN Free # {} ELSE r.hw \in ModemIds /\ modem[r.hw] # NoFence

Done(r, hw) ==
    modem' = CASE r.do = "add"    -> [modem EXCEPT ![hw] = [session |-> r.session, paused |-> FALSE]]
               [] r.do = "remove" -> [modem EXCEPT ![hw] = NoFence]
               [] r.do = "pause"  -> [modem EXCEPT ![hw].paused = TRUE]
               [] r.do = "resume" -> [modem EXCEPT ![hw].paused = FALSE]
               [] r.do = "modify" -> modem

(* The smallest free hwId                                                  *)
NextHwId == CHOOSE h \in Free : \A g \in Free : h <= g

Reply(ok, r) == queue' = Append(queue, [what |-> "answer", ok |-> ok, to |-> r])

LocApiCall ==
    /\ requests # <<>> /\ Head(requests).do = "call"
    /\ requests' = Tail(requests)
    /\ Reply(TRUE, Head(requests))
    /\ UNCHANGED <<world, user, events, breaches, adapter, engine>>

LocApiRequest ==
    LET r  == Head(requests)
        hw == IF r.do = "add" THEN NextHwId ELSE r.hw
    IN /\ requests # <<>> /\ r.do \notin {"call", "open"}
       /\ requests' = Tail(requests)
       /\ \/ Doable(r) /\ Done(r, hw) /\ Reply(TRUE, [r EXCEPT !.hw = hw])
          \/ /\ ~Doable(r) \/ "refuses" \in world
             /\ UNCHANGED modem /\ Reply(FALSE, r)
       /\ UNCHANGED <<world, user, events, breaches, adapter, engineLock, modemUp>>

(* LocOpenMsg after the modem is back                                      *)
LocApiOpen ==
    /\ requests # <<>> /\ Head(requests).do = "open"
    /\ requests' = Tail(requests)
    /\ modemUp' = TRUE
    /\ queue' = Append(queue, Event("up", 0, 0, FALSE))
    /\ UNCHANGED <<world, user, events, breaches, adapter, engineLock, modem>>

Happens == events < MaxEvents /\ events' = events + 1

Quiet == queue = <<>> /\ requests = <<>>

ModemCrashes ==
    /\ ("crashes" \in world /\ Quiet) \/ "untimely" \in world
    /\ modemUp /\ Happens
    /\ modemUp' = FALSE
    /\ modem' = [h \in ModemIds |-> NoFence]
    /\ requests' = Append(requests, Ask("open", "nothing", 0, 0, 0, FALSE))
    /\ UNCHANGED <<world, user, breaches, queue, adapter, engineLock>>

EngineLockChanges ==
    /\ "locks" \in world /\ Happens
    /\ engineLock' = IF Unlocked THEN "disabled" ELSE "enabled"
    /\ UNCHANGED <<world, user, breaches, queue, adapter, requests, modemUp, modem>>

PowerChanges ==
    /\ "power" \in world /\ Happens
    /\ \E resumed \in BOOLEAN : queue' = Append(queue, Event("power", 0, 0, resumed))
    /\ UNCHANGED <<world, user, breaches, adapter, requests, engine>>

(* The message carries, for the properties, whose geofence it is.          *)
Breach(hw) ==
    /\ breaches < MaxBreaches /\ breaches' = breaches + 1
    /\ modem[hw] # NoFence /\ ~modem[hw].paused
    /\ queue' = Append(queue, Event("breach", hw, modem[hw].session, FALSE))
    /\ UNCHANGED <<world, user, events, adapter, requests, engine>>

-----------------------------------------------------------------------------

Framework ==
    \/ \E id \in Ids : locAPIAddGeofences(id)
    \/ \E id \in Ids : locAPIRemoveGeofences(id)
    \/ locAPIRemoveAllGeofences
    \/ \E id \in Ids : locAPIPauseGeofences(id)
    \/ \E id \in Ids : locAPIResumeGeofences(id)
    \/ \E id \in Ids : locAPIModifyGeofences(id)
    \/ destroy

Adapter ==
    \/ ProcCommand \/ ProcCalled \/ ProcAdded \/ ProcRemoved \/ ProcPaused \/ ProcResumed
    \/ ProcModified \/ ProcRestored \/ ProcGone \/ ProcSlept \/ ProcNothing \/ ProcEngineUp
    \/ ProcPower \/ ProcDestroy \/ ProcBreach

LocApi == LocApiCall \/ LocApiRequest \/ LocApiOpen

Environment == ModemCrashes \/ EngineLockChanges \/ PowerChanges \/ \E hw \in ModemIds : Breach(hw)

Next == Framework \/ Adapter \/ LocApi \/ Environment

Spec == Init /\ [][Next]_vars

-----------------------------------------------------------------------------
(* Properties.  Each names, by Exposed, the freedoms under which the code  *)
(* does not keep it: those races are listed in the README.                 *)

Exposed(freedoms) == freedoms \cap world # {}
Restarts == Exposed({"crashes", "untimely"})
Slept    == "power" \in world /\ Restarts
Settled  == Quiet /\ modemUp

(* No command is answered twice (the deletion of errs and ids after        *)
(* reportResponse), and when nothing is under way each has been answered,  *)
(* but for resumes that the modem refused.                                 *)
AnsweredOnce ==
    \A n \in DOMAIN commands :
        /\ commands[n].sent <= 1
        /\ Quiet /\ client /\ commands[n].sent = 0
             => commands[n].do = "resume" /\ commands[n].refused

(* Every response is taken for the one of its own command, as              *)
(* ILocationAPI.h says of addGeofences (... "to match command with         *)
(* response"): onCollectiveResponseCb goes by the order of the requests.   *)
ResponsesMatch == \A n \in DOMAIN commands : commands[n].got \in {0, n}

(* They do match as long as no command fails, in whatever order commands   *)
(* on several ids, suspends and the end of the client meet.  A failed      *)
(* lookup is answered before earlier commands that wait for the modem, and *)
(* a refused resume never.                                                 *)
OwnAnswer == ~Exposed({"hasty", "refuses", "locks"}) /\ ~Restarts => ResponsesMatch

(* A command of which the modem refused an item is not reported as a       *)
(* success; modifyGeofences is.                                            *)
TruthTold ==
    \A n \in DOMAIN commands :
        commands[n].sent = 1 /\ commands[n].refused /\ commands[n].do # "modify"
            => commands[n].failed

Pending(n) ==
    \/ \E k \in DOMAIN requests : requests[k].do # "open" /\ requests[k].n = n
    \/ \E k \in DOMAIN queue : queue[k].what = "answer" /\ queue[k].to.n = n

(* The aggregated response is sent and errs and ids deleted when no item   *)
(* of the command is under way any more: its callback would write to errs. *)
NotAfterReport ==
    ~Exposed({"hasty", "refuses", "locks"}) /\ ~Restarts =>
        \A n \in DOMAIN commands : commands[n].sent > 0 => ~Pending(n)

(* Every command is answered, once, truly, and not before it is done, and  *)
(* its response is not taken for that of another.                          *)
EachAnswered == TypeOK /\ AnsweredOnce /\ TruthTold /\ NotAfterReport /\ OwnAnswer

(* mGeofences and mGeofenceIds name the same pairs after every message,    *)
(* also while geofences are added again after a restart.                   *)
MapsInverse ==
    client /\ ~Exposed({"locks"}) /\ ~Slept =>
        /\ \A s \in Sessions : hwIds[s] # NoHw =>
               fences[hwIds[s]] # NoFence /\ fences[hwIds[s]].session = s
        /\ \A h \in HwIds : fences[h] # NoFence => hwIds[fences[h].session] = h

(* At rest the modem has the geofences of mGeofences under the same        *)
(* hwIds: none is left behind, none is lost, whatever restarts and         *)
(* refusals came between.                                                  *)
FencesAgree ==
    Settled /\ client /\ ~Exposed({"locks"}) /\ ~Slept =>
        \A h \in ModemIds :
            IF modem[h] = NoFence THEN fences[h] = NoFence
            ELSE fences[h] # NoFence /\ fences[h].session = modem[h].session

(* At rest the pause flag is what the modem does, through suspends and     *)
(* resumes of the system; a restart loses it (saveGeofenceItem).           *)
PausedAgrees ==
    Settled /\ client /\ ~Restarts =>
        \A h \in ModemIds :
            modem[h] # NoFence /\ fences[h] # NoFence => fences[h].paused = modem[h].paused

Running(id) == {h \in ModemIds : modem[h] # NoFence /\ modem[h].session = forward[id]}

(* A geofence that the framework was told is there is in the modem, also   *)
(* after restarts of the modem between commands.  A geofence whose second  *)
(* addition is refused is lost without a word.                             *)
ToldThere ==
    /\ Settled /\ client /\ ResponsesMatch
    /\ ~(Exposed({"refuses", "locks"}) /\ Restarts) /\ ~Slept /\ ~Exposed({"untimely"})
    => \A id \in Ids : known[id] \in {"active", "paused"} => Running(id) # {}

(* What the framework paused is paused in the modem and what it resumed    *)
(* runs: ILocationAPI.h, pauseGeofences: "similar to removeGeofences, only *)
(* that they can be resumed".  After a second restart, and after a resume  *)
(* of the system, paused geofences run.                                    *)
ToldPaused ==
    /\ Settled /\ client /\ ResponsesMatch
    /\ ~(Exposed({"refuses", "locks"}) /\ Restarts) /\ ~Exposed({"untimely", "power"})
    /\ Restarts => events < 2
    => \A id \in Ids : known[id] \in {"active", "paused"} =>
           \A h \in Running(id) : modem[h].paused = (known[id] = "paused")

(* A geofence whose removal was reported as a success does not come back,  *)
(* not even when restartGeofences adds all again.                          *)
RemovedGone ==
    Settled /\ ~Exposed({"untimely"}) =>
        \A n \in DOMAIN commands :
            commands[n].do = "remove" /\ commands[n].sent = 1 /\ ~commands[n].failed =>
                \A h \in ModemIds :
                    modem[h] # NoFence => modem[h].session \notin Range(commands[n].sessions)

(* A breach that is delivered is one of the geofence under whose key it is *)
(* delivered: geofenceBreach finds the key by the hwId when its message is *)
(* taken, and the modem gives the hwIds of removed geofences to others.    *)
BreachIsOwn ==
    queue # <<>> /\ Head(queue).what = "breach" =>
        LET m == Head(queue)
        IN fences[m.hw] # NoFence => fences[m.hw].session = m.session

(* The two maps agree, and say what the modem does and means.              *)
ModemAgrees == MapsInverse /\ FencesAgree /\ PausedAgrees /\ BreachIsOwn

(* Nothing runs for a destroyed client, but for geofences whose addition   *)
(* was under way: saveGeofenceItem does not ask whether the client is      *)
(* still there.                                                            *)
DestroyedGone ==
    Settled /\ ~client /\ ~Exposed({"refuses", "locks"}) /\ ~Restarts =>
        \A h \in ModemIds : modem[h] # NoFence =>
            \E n \in DOMAIN commands : /\ commands[n].do = "add" /\ commands[n].sent = 0
                                       /\ modem[h].session \in Range(commands[n].sessions)

(* What the framework was told of a geofence is so, and nothing is left of *)
(* those that were removed or whose client is gone.                        *)
ToldServed == ToldThere /\ ToldPaused /\ RemovedGone /\ DestroyedGone
=============================================================================
