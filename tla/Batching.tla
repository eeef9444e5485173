------------------------------ MODULE Batching ------------------------------
(* The batching adapter (gps/batching/BatchingAdapter.cpp) between a client  *)
(* of LocationAPIClientBase, whose session requests wait in one queue, and   *)
(* the modem behind LocApi.                                                  *)
EXTENDS Integers, Sequences, FiniteSets, SequencesExt, TLC

CONSTANTS
    Ids,            \* what the client calls its sessions
    NoSession,      \* model value
    MaxSessions,    \* sessions that are started
    MaxCommands,    \* commands of the client
    MaxEvents,      \* crashes, suspends, locks and the like
    Distances,      \* distances of trips
    Intervals,      \* intervals between the fixes of a trip
    MaxWalk,        \* distance that is covered during a trip
    Width,          \* distances are unsigned: they wrap at 2^32, here at Width
    Worlds          \* sets of what the surroundings may do

ASSUME BatchingAssumption ==
    /\ MaxSessions \in Nat \ {0} /\ MaxCommands \in Nat /\ MaxEvents \in Nat
    /\ Distances \subseteq 1..(Width - 1) /\ Intervals \subseteq Nat \ {0}
    /\ \A w \in Worlds :
          w \subseteq {"trips", "updates", "hasty", "refuses", "crashes",
                       "locks", "power", "destroys", "cold", "unsupported", "moving"}

VARIABLES
    world,     \* what the surroundings may do, chosen once
    client,    \* LocationAPIClientBase: dict, request queue, ids told completed
    adapter,   \* BatchingAdapter
    queue,     \* messages of the adapter's thread
    requests,  \* requests to LocApi that are not done yet
    modem,
    commands,  \* what was asked, how often it was answered, and by which response
    events,    \* disturbances so far
    ended,     \* trips that were reported as completed
    walked     \* distance since each trip session was taken up

vars == <<world, client, adapter, queue, requests, modem, commands, events, ended, walked>>

-----------------------------------------------------------------------------
Sessions == 1..MaxSessions
Plain == {[mode |-> m, dist |-> 0, tbf |-> 0] : m \in {"routine", "noReport"}}
Trip  == {[mode |-> "trip", dist |-> d, tbf |-> t] : d \in Distances, t \in Intervals}
Options == Plain \cup (IF "trips" \in world THEN Trip ELSE {})

(* BatchingOptions as its constructor leaves it, and the options that        *)
(* locAPIUpdateSessionOptions fills in for a batching session: only the mode *)
Default == [mode |-> "routine", dist |-> 0, tbf |-> 0]
UpdateOptions == Plain \cup
    (IF "trips" \in world THEN {[mode |-> "trip", dist |-> 0, tbf |-> 0]} ELSE {})

NoTrip == [dist |-> 0, tbf |-> 0, acc |-> 0, on |-> FALSE]
Wrap(n) == n % Width

Init ==
    /\ world \in Worlds
    /\ client = [session |-> [i \in Ids |-> NoSession], mode |-> [i \in Ids |-> "routine"],
                 asked |-> <<>>, gone |-> FALSE]
    /\ adapter = [sessions |-> [s \in Sessions |-> NoSession], trips |-> <<>>,
                  dist |-> 0, tbf |-> 0, tbfDropped |-> FALSE, distDropped |-> FALSE,
                  full |-> FALSE, known |-> "cold" \notin world, pending |-> <<>>,
                  suspended |-> FALSE, locked |-> FALSE, here |-> TRUE]
    /\ queue = <<>>
    /\ requests = IF "cold" \in world THEN <<[op |-> "open"]>> ELSE <<>>
    /\ modem = [up |-> "cold" \notin world, runs |-> {}, trip |-> NoTrip]
    /\ commands = <<>> /\ events = 0
    /\ ended = {} /\ walked = [s \in Sessions |-> 0]

-----------------------------------------------------------------------------
(* The client: LocationAPIClientBase with its session queue                  *)

Started == Cardinality({n \in DOMAIN commands : commands[n].kind = "start"})
Unanswered == \E n \in DOMAIN commands : commands[n].heard = 0

(* A command asks for something new unless the client is in a hurry: then it *)
(* may come before the one before it was answered.                           *)
MayAsk ==
    /\ ~client.gone
    /\ Len(commands) < MaxCommands
    /\ "hasty" \in world \/ ~Unanswered

(* The request object goes on the session queue, the call to the adapter.    *)
Ask(kind, s, opts) ==
    LET n == Len(commands) + 1 IN
    /\ commands' = Append(commands, [kind |-> kind, s |-> s, sent |-> 0, heard |-> 0])
    /\ queue' = Append(queue, [type |-> kind, s |-> s, opts |-> opts, n |-> n])
    /\ UNCHANGED <<world, adapter, requests, modem, events, ended, walked>>

locAPIStartSession(i, opts) ==
    /\ MayAsk
    /\ client.session[i] = NoSession
    /\ Started < MaxSessions
    /\ LET s == Started + 1 IN
       /\ Ask("start", s, opts)
       /\ client' = [client EXCEPT !.session[i] = s, !.mode[i] = opts.mode,
                                   !.asked = Append(@, Len(commands) + 1)]

locAPIUpdateSessionOptions(i, opts) ==
    /\ MayAsk /\ "updates" \in world
    /\ client.session[i] # NoSession
    /\ Ask("update", client.session[i], opts)
    /\ client' = [client EXCEPT !.mode[i] = opts.mode,
                                !.asked = Append(@, Len(commands) + 1)]

locAPIStopSession(i) ==
    /\ MayAsk
    /\ client.session[i] # NoSession
    /\ Ask("stop", client.session[i], Default)
    /\ client' = [client EXCEPT !.asked = Append(@, Len(commands) + 1)]

locAPIGetBatchedLocations(i) ==
    /\ MayAsk
    /\ client.session[i] # NoSession
    /\ Ask("get", client.session[i], Default)
    /\ client' = [client EXCEPT !.asked = Append(@, Len(commands) + 1)]

(* destroy(): the queues are emptied, LocationAPI::destroy removes the       *)
(* client from the adapter.                                                  *)
destroy ==
    /\ "destroys" \in world /\ ~client.gone
    /\ client' = [client EXCEPT !.gone = TRUE, !.asked = <<>>]
    /\ queue' = Append(queue, [type |-> "remove"])
    /\ UNCHANGED <<world, adapter, requests, modem, commands, events, ended, walked>>

(* BUG: the entry is cleared, not removed.                                   *)
BugClears(c, s) ==
    [c EXCEPT !.session = [i \in Ids |-> IF @[i] = s THEN 0 ELSE @[i]]]

Forget(c, s) ==
    [c EXCEPT !.session = [i \in Ids |-> IF @[i] = s THEN NoSession ELSE @[i]]]

(* The request that is popped handles the response: onResponse of            *)
(* StartBatchingRequest and StopBatchingRequest.                             *)
Handle(c, kind, r) ==
    IF \/ kind = "start" /\ r.err = "refused"
       \/ kind = "stop" /\ r.err = "ok"
    THEN Forget(c, r.s) ELSE c

(* onResponseCb: a response of a session that is known takes the oldest      *)
(* request of the queue.  r.n is the command it really answers (0: none).    *)
Hear(both, r) ==
    LET c == both.client
        told == IF r.n = 0 THEN both.commands
                ELSE [both.commands EXCEPT ![r.n].sent = @ + 1]
    IN  IF c.asked = <<>> \/ \A i \in Ids : c.session[i] # r.s
        THEN [client |-> c, commands |-> told]
        ELSE LET k == Head(c.asked) IN
             [client |-> Handle([c EXCEPT !.asked = Tail(@)], told[k].kind, r),
              commands |-> [told EXCEPT ![k].heard = IF r.n = k THEN k ELSE -1]]

(* The responses of one handler; reportResponse finds no callback of a       *)
(* client that is gone.                                                      *)
Told(said) ==
    IF ~adapter.here THEN UNCHANGED <<client, commands>>
    ELSE LET after == FoldLeft(Hear, [client |-> client, commands |-> commands], said)
         IN  client' = after.client /\ commands' = after.commands

-----------------------------------------------------------------------------
(* The adapter.  The operators map its state, extended by the requests it    *)
(* sends (out) and the responses it reports (said), to the next.             *)

Open(a) == [state |-> a, out |-> <<>>, said |-> <<>>]
Send(x, r) == [x EXCEPT !.out = Append(@, r)]
reportResponse(x, s, err, n) == [x EXCEPT !.said = Append(@, [s |-> s, err |-> err, n |-> n])]

autoReportBatchingSessionsCount(a) ==
    Cardinality({s \in Sessions : a.sessions[s] # NoSession
                                  /\ a.sessions[s].mode # "noReport"})
    + Cardinality(DOMAIN a.trips)

saveBatchingSession(x, s, opts) == [x EXCEPT !.state.sessions[s] = opts]
eraseBatchingSession(x, s) == [x EXCEPT !.state.sessions[s] = NoSession]
eraseTrip(x, S) ==
    [x EXCEPT !.state.trips = [t \in DOMAIN @ \ S |-> @[t]]]

(* updateEvtMask for LOC_API_ADAPTER_BIT_BATCH_FULL                          *)
Register(x) ==
    IF autoReportBatchingSessionsCount(x.state) = 0
    THEN [x EXCEPT !.state.full = TRUE] ELSE x
Unregister(x, count) ==
    IF autoReportBatchingSessionsCount(x.state) = count
    THEN [x EXCEPT !.state.full = FALSE] ELSE x

startBatching(x, s, opts, n) ==
    LET r == IF opts.mode # "noReport" THEN Register(x) ELSE x
    IN  Send(saveBatchingSession(r, s, opts),
             [op |-> "start", s |-> s, opts |-> opts, n |-> n])

(* BUG: a start that fails is not reported.                                  *)
BugSilentStart(x, r, err) ==
    IF err = "ok" THEN reportResponse(x, r.s, err, r.n)
    ELSE IF x.state.locked THEN x ELSE eraseBatchingSession(x, r.s)

OnStarted(x, r, err) ==
    LET e == IF ~x.state.locked /\ err # "ok" THEN eraseBatchingSession(x, r.s) ELSE x
        u == IF err # "ok" /\ r.opts.mode # "noReport" THEN Unregister(e, 0) ELSE e
    IN  reportResponse(u, r.s, err, r.n)

startTripBatchingMultiplex(x, s, opts, n) ==
    IF DOMAIN x.state.trips = {}
    THEN LET t == [ongoing |-> 0, this |-> 0, onRestart |-> 0,
                   dist |-> opts.dist, tbf |-> opts.tbf]
             y == saveBatchingSession(Register(x), s, opts)
         IN  Send([y EXCEPT !.state.trips = (s :> t)],
                  [op |-> "startTrip", dist |-> opts.dist, tbf |-> opts.tbf,
                   s |-> s, opts |-> opts, n |-> n])
    ELSE Send(x, [op |-> "query", then |-> "new", s |-> s, opts |-> opts, n |-> n])

OnTripStarted(x, r, err) ==
    reportResponse(
        IF x.state.locked \/ err = "ok"
        THEN [x EXCEPT !.state.dist = r.opts.dist, !.state.tbf = r.opts.tbf]
        ELSE Unregister(eraseTrip(eraseBatchingSession(x, r.s), {r.s}), 0),
        r.s, err, r.n)

(* A new trip beside others, when the modem told how far it is               *)
OnQueriedForNew(x, r, err, acc) ==
    LET a == x.state
        shorter == r.opts.tbf < a.tbf
        remaining == IF err = "ok" THEN Wrap(a.dist - acc) ELSE a.dist
        nearer == r.opts.dist < remaining
        dist == IF nearer THEN r.opts.dist
                ELSE IF err = "ok" THEN remaining ELSE a.dist
        new == [ongoing |-> acc, this |-> 0, onRestart |-> 0,
                dist |-> r.opts.dist, tbf |-> r.opts.tbf]
        taken == IF err = "ok" THEN (r.s :> new) @@ a.trips ELSE a.trips
        y == [x EXCEPT !.state.trips = taken]
    IN  IF shorter \/ nearer
        THEN Send([y EXCEPT !.state.dist = dist,
                            !.state.tbf = IF shorter THEN r.opts.tbf ELSE @,
                            !.state.trips = [t \in DOMAIN taken |->
                                [taken[t] EXCEPT !.ongoing = 0, !.onRestart = taken[t].this]]],
                  [op |-> "restartTrip", then |-> "new", dist |-> dist,
                   tbf |-> IF shorter THEN r.opts.tbf ELSE a.tbf, s |-> r.s, n |-> r.n])
        ELSE reportResponse(y, r.s, "ok", r.n)

(* BUG: what was covered before the trip joined counts.                      *)
BugWholeBatch(t, acc) == Wrap(t.onRestart + acc)
(* What a trip covered when the batch of the modem stands at acc             *)
ThisTrip(t, acc) == Wrap(t.onRestart + (acc - t.ongoing))

(* The smallest of what remains of the trips, and of their intervals; a 0    *)
(* counts as not set.                                                        *)
LeastOf(f) ==
    FoldLeft(LAMBDA least, s : IF least = 0 \/ least > f[s] THEN f[s] ELSE least,
             0, SetToSortSeq(DOMAIN f, <))
Remaining(a) == LeastOf([s \in DOMAIN a.trips |-> Wrap(a.trips[s].dist - a.trips[s].this)])
LeastInterval(a) == LeastOf([s \in DOMAIN a.trips |-> a.trips[s].tbf])

restartTripBatching(x, asks, acc) ==
    IF DOMAIN x.state.trips = {}
    THEN Unregister([Send(x, [op |-> "stopTrip", then |-> "nothing"])
                        EXCEPT !.state.dist = 0, !.state.tbf = 0], 0)
    ELSE Send(x, [op |-> "query", then |-> "restart", asks |-> asks, acc |-> acc,
                  dist |-> Remaining(x.state), tbf |-> LeastInterval(x.state)])

OnQueriedForRestart(x, r, data) ==
    LET a == x.state
        acc == IF r.asks THEN data ELSE r.acc
        left == Wrap(a.dist - acc)
        nearer == IF ~a.distDropped /\ left # 0 THEN r.dist < left ELSE r.dist # 0
        shorter == r.tbf < a.tbf \/ (r.tbf # a.tbf /\ a.tbfDropped)
    IN  IF nearer \/ shorter
        THEN Send(x, [op |-> "restartTrip", then |-> "restart", acc |-> acc,
                      dist |-> IF nearer THEN r.dist ELSE a.dist,
                      tbf |-> IF shorter THEN r.tbf ELSE a.tbf])
        ELSE x

OnTripRestarted(x, r, err) ==
    IF r.then = "new" THEN reportResponse(x, r.s, err, r.n)
    ELSE IF err # "ok" THEN x
    ELSE [x EXCEPT
            !.state.trips = [s \in DOMAIN @ |->
                LET this == ThisTrip(@[s], r.acc)
                IN  [@[s] EXCEPT !.this = this, !.ongoing = 0, !.onRestart = this]],
            !.state.dist = r.dist, !.state.tbf = r.tbf]

start(x, s, opts, n) ==
    IF opts.mode = "trip" THEN startTripBatchingMultiplex(x, s, opts, n)
    ELSE startBatching(x, s, opts, n)

stopBatching(x, s, restart, opts, erase, n) ==
    IF x.state.sessions[s] = NoSession THEN x
    ELSE Send(IF erase THEN eraseBatchingSession(x, s) ELSE x,
              [op |-> "stop", s |-> s, restart |-> restart, opts |-> opts,
               erase |-> erase, was |-> x.state.sessions[s].mode, n |-> n])

(* BUG: the last session leaves the event registered.                        *)
BugStaysRegistered(x, r, err) ==
    LET y == IF ~x.state.locked /\ err # "ok"
             THEN IF r.erase THEN saveBatchingSession(x, r.s, r.opts) ELSE x
             ELSE IF r.restart THEN start(x, r.s, r.opts, r.n) ELSE x
    IN  reportResponse(y, r.s, err, r.n)

OnStopped(x, r, err) ==
    LET y == IF ~x.state.locked /\ err # "ok"
             THEN IF r.erase THEN saveBatchingSession(x, r.s, r.opts) ELSE x
             ELSE LET u == IF r.was # "noReport" THEN Unregister(x, 0) ELSE x
                  IN  IF r.restart THEN start(u, r.s, r.opts, r.n) ELSE u
    IN  reportResponse(y, r.s, err, r.n)

(* The trip of s is looked up without a test: garbage is what is read when   *)
(* there is none.                                                            *)
stopTripBatchingMultiplexCommon(x, err, s, restart, opts, erase, n, garbage) ==
    LET a == x.state
        found == s \in DOMAIN a.trips
        tbfGone == IF found THEN a.trips[s].tbf = a.tbf ELSE garbage[1]
        distGone == IF found THEN a.trips[s].dist = a.dist ELSE garbage[2]
        d == [x EXCEPT !.state.tbfDropped = @ \/ tbfGone,
                       !.state.distDropped = @ \/ distGone]
        e == IF erase THEN eraseTrip(d, {s}) ELSE d
        t == IF DOMAIN e.state.trips = {}
             THEN [e EXCEPT !.state.dist = 0, !.state.tbf = 0]
             ELSE restartTripBatching(e, TRUE, 0)
        again == IF restart THEN start(eraseBatchingSession(t, s), s, opts, n) ELSE t
    IN  reportResponse(again, s, err, n)

stopTripBatchingMultiplex(x, s, restart, opts, erase, n, garbage) ==
    IF Cardinality(DOMAIN x.state.trips) = 1
    THEN Send(x, [op |-> "stopTrip", then |-> "common", s |-> s, restart |-> restart,
                  opts |-> opts, erase |-> erase, n |-> n])
    ELSE stopTripBatchingMultiplexCommon(x, "ok", s, restart, opts, erase, n, garbage)

OnTripStopped(x, r, err, garbage) ==
    IF r.then = "nothing" THEN x
    ELSE stopTripBatchingMultiplexCommon(
            IF err = "ok" THEN Unregister(x, 1) ELSE x,
            err, r.s, r.restart, r.opts, r.erase, r.n, garbage)

stop(x, s, isTrip, restart, opts, erase, n, garbage) ==
    IF isTrip THEN stopTripBatchingMultiplex(x, s, restart, opts, erase, n, garbage)
    ELSE stopBatching(x, s, restart, opts, erase, n)

Held(a) == {s \in Sessions : a.sessions[s] # NoSession}

(* stopClientSessions goes by the mode the sessions were saved with.         *)
stopClientSessions(x, erase, garbage) ==
    FoldLeft(LAMBDA y, s : stop(y, s, x.state.sessions[s].mode = "trip",
                                FALSE, Default, erase, 0, garbage),
             x, SetToSortSeq(Held(x.state), <))

(* Sessions are started again without a response, trips as one batch.        *)
restartSessions(x) ==
    LET f == IF autoReportBatchingSessionsCount(x.state) > 0
             THEN [x EXCEPT !.state.full = TRUE] ELSE x
        p == FoldLeft(LAMBDA y, s :
                        Send(y, [op |-> "restart", s |-> s, opts |-> y.state.sessions[s]]),
                      f, SetToSortSeq({s \in Held(x.state) :
                                          x.state.sessions[s].mode # "trip"}, <))
    IN  IF DOMAIN x.state.trips = {} THEN p
        ELSE Send([p EXCEPT !.state.dist = Remaining(x.state),
                            !.state.tbf = LeastInterval(x.state)],
                  [op |-> "startTrip", dist |-> Remaining(x.state),
                   tbf |-> LeastInterval(x.state), s |-> NoSession])

-----------------------------------------------------------------------------
(* The messages of the adapter's thread                                      *)

Garbage == BOOLEAN \X BOOLEAN

Message(type) == queue # <<>> /\ Head(queue).type = type

Done(x) ==
    /\ adapter' = x.state
    /\ requests' = requests \o x.out
    /\ Told(x.said)
    /\ queue' = Tail(queue)
    /\ UNCHANGED <<world, modem, events, walked>>

Commands == {"start", "update", "stop", "get"}

(* Until the engine is known commands wait.                                  *)
ProcEarly ==
    /\ queue # <<>> /\ Head(queue).type \in Commands
    /\ ~adapter.known
    /\ Done(Open([adapter EXCEPT !.pending = Append(@, Head(queue))]))
    /\ UNCHANGED ended

Command(type) == Message(type) /\ adapter.known /\ UNCHANGED ended

(* An error is found, but not reported.                                      *)
ProcStart ==
    /\ Command("start")
    /\ LET m == Head(queue) IN
       Done(IF adapter.here /\ "unsupported" \notin world
            THEN start(Open(adapter), m.s, m.opts, m.n) ELSE Open(adapter))

ProcUpdate ==
    /\ Command("update")
    /\ LET m == Head(queue) IN
       \E garbage \in Garbage :
          Done(IF adapter.sessions[m.s] # NoSession
               THEN stop(Open(adapter), m.s, m.s \in DOMAIN adapter.trips,
                         TRUE, m.opts, TRUE, m.n, garbage)
               ELSE Open(adapter))

ProcStop ==
    /\ Command("stop")
    /\ LET m == Head(queue) IN
       \E garbage \in Garbage :
          Done(IF adapter.sessions[m.s] # NoSession
               THEN stop(Open(adapter), m.s, m.s \in DOMAIN adapter.trips,
                         FALSE, Default, TRUE, m.n, garbage)
               ELSE Open(adapter))

ProcGet ==
    /\ Command("get")
    /\ LET m == Head(queue) IN
       Done(IF adapter.sessions[m.s] = NoSession
            THEN reportResponse(Open(adapter), m.s, "unknown", m.n)
            ELSE Send(Open(adapter), [op |-> "get", s |-> m.s, n |-> m.n]))

(* MsgRemoveClient: stopClientSessions, eraseClient                          *)
ProcRemove ==
    /\ Message("remove")
    /\ \E garbage \in Garbage :
          LET x == stopClientSessions(Open(adapter), TRUE, garbage)
          IN  Done([x EXCEPT
                !.state.here = FALSE,
                !.state.full = autoReportBatchingSessionsCount(x.state) > 0])
    /\ UNCHANGED ended

(* The callbacks that LocApiResponse brings back                             *)
ProcResponse ==
    /\ Message("response")
    /\ LET m == Head(queue)
           r == m.request
           x == Open(adapter)
       IN  \E garbage \in Garbage :
           Done(CASE r.op = "start" -> OnStarted(x, r, m.err)
                  [] r.op = "stop"  -> OnStopped(x, r, m.err)
                  [] r.op = "get"   -> reportResponse(x, r.s, m.err, r.n)
                  [] r.op = "startTrip" ->
                        IF r.s # NoSession THEN OnTripStarted(x, r, m.err)
                        ELSE IF m.err = "ok" THEN x
                        ELSE [x EXCEPT !.state.dist = 0, !.state.tbf = 0]
                  [] r.op = "stopTrip"  -> OnTripStopped(x, r, m.err, garbage)
                  [] r.op = "query"     ->
                        IF r.then = "new" THEN OnQueriedForNew(x, r, m.err, m.acc)
                        ELSE OnQueriedForRestart(x, r, m.acc)
                  [] r.op = "restartTrip" -> OnTripRestarted(x, r, m.err)
                  [] OTHER -> x)
    /\ UNCHANGED ended

(* MsgReportCompletedTrips.  What is compared with the ongoing trip is read  *)
(* after it was erased.  beforeBatchingStatusCb forgets the ended sessions.  *)
ProcCompleted ==
    /\ Message("completed")
    /\ LET acc == Head(queue).acc
           a == adapter
           counted == [s \in DOMAIN a.trips |->
               [a.trips[s] EXCEPT !.this = ThisTrip(a.trips[s], acc)]]
           over == {s \in DOMAIN counted : counted[s].dist <= counted[s].this}
       IN  \E garbage \in Garbage :
           LET x == Open([a EXCEPT
                        !.trips = [s \in DOMAIN counted \ over |-> counted[s]],
                        !.tbfDropped = @ \/ (over # {} /\ garbage[1]),
                        !.distDropped = @ \/ (over # {} /\ garbage[2])])
               y == IF over = {} THEN x ELSE restartTripBatching(x, FALSE, acc)
           IN  /\ adapter' = y.state
               /\ requests' = requests \o y.out
               /\ ended' = ended \cup {[s |-> s, dist |-> counted[s].dist] : s \in over}
               /\ client' = IF ~a.here THEN client
                    ELSE [client EXCEPT !.session = [i \in Ids |->
                            IF @[i] \in over /\ client.mode[i] = "trip"
                            THEN NoSession ELSE @[i]]]
    /\ queue' = Tail(queue)
    /\ UNCHANGED <<world, modem, commands, events, walked>>

(* Pending messages go back on the queue, sessions are restarted.            *)
Resumed(x) ==
    IF x.state.suspended THEN x ELSE restartSessions(x)
Revive(x) ==
    /\ adapter' = [x.state EXCEPT !.pending = <<>>]
    /\ requests' = requests \o x.out
    /\ queue' = Tail(queue) \o adapter.pending
    /\ UNCHANGED <<world, client, modem, commands, events, ended, walked>>

ProcEngineUp ==
    /\ Message("up")
    /\ LET x == Open([adapter EXCEPT !.known = TRUE])
       IN  IF adapter.locked THEN Done(x) /\ UNCHANGED ended ELSE Revive(Resumed(x))

(* handleEngineLockStatus                                                    *)
ProcLock ==
    /\ Message("lock")
    /\ IF Head(queue).on THEN Done(Open(adapter)) /\ UNCHANGED ended
       ELSE Revive(Resumed(Open(adapter)))

(* updateSystemPowerState; suspendBatchingSessions stops the sessions of     *)
(* every session's client.                                                   *)
ProcPower ==
    /\ Message("power")
    /\ LET on == Head(queue).on
           x == Open([adapter EXCEPT !.suspended = ~on])
       IN  \E garbage \in Garbage :
           Done(IF on THEN restartSessions(x)
                ELSE FoldLeft(LAMBDA y, s : stopClientSessions(y, FALSE, garbage),
                              x, SetToSeq(Held(adapter))))
    /\ UNCHANGED ended

-----------------------------------------------------------------------------
(* LocApi and the modem                                                      *)

Quiet == queue = <<>> /\ requests = <<>>

(* What the modem does with a request it accepts                             *)
After(r) ==
    CASE r.op \in {"start", "restart"} -> [modem EXCEPT !.runs = @ \cup {r.s}]
      [] r.op = "stop" -> [modem EXCEPT !.runs = @ \ {r.s}]
      [] r.op \in {"startTrip", "restartTrip"} ->
            [modem EXCEPT !.trip = [dist |-> r.dist, tbf |-> r.tbf, acc |-> 0, on |-> TRUE]]
      [] r.op = "stopTrip" -> [modem EXCEPT !.trip = NoTrip]
      [] OTHER -> modem

Errors(r) ==
    IF ~modem.up THEN {"refused"}
    ELSE IF adapter.locked THEN {"locked"}
    ELSE {"ok"} \cup (IF "refuses" \in world THEN {"refused"} ELSE {})

(* The answer of a restarted session is not looked at.                       *)
LocApiRequest ==
    /\ requests # <<>> /\ Head(requests).op # "open"
    /\ LET r == Head(requests) IN
       \E err \in Errors(r) :
          /\ modem' = IF err = "ok" THEN After(r) ELSE modem
          /\ queue' = IF r.op = "restart" THEN queue
                      ELSE Append(queue, [type |-> "response", request |-> r, err |-> err,
                                          acc |-> IF err = "ok" THEN modem.trip.acc ELSE 0])
    /\ requests' = Tail(requests)
    /\ UNCHANGED <<world, client, adapter, commands, events, ended, walked>>

LocApiOpen ==
    /\ requests # <<>> /\ Head(requests).op = "open"
    /\ requests' = Tail(requests)
    /\ modem' = [modem EXCEPT !.up = TRUE]
    /\ queue' = Append(queue, [type |-> "up"])
    /\ UNCHANGED <<world, client, adapter, commands, events, ended, walked>>

(* Somebody moves on: the modem counts, and reports the distance it was      *)
(* asked for.  Between two messages of an exchange nobody moves, unless      *)
(* "moving".                                                                 *)
Walk ==
    /\ "moving" \in world \/ Quiet
    /\ modem.trip.on /\ modem.trip.acc < modem.trip.dist
    /\ \A s \in Sessions : walked[s] < MaxWalk
    /\ walked' = [s \in Sessions |->
                    IF s \in DOMAIN adapter.trips THEN walked[s] + 1 ELSE walked[s]]
    /\ modem' = [modem EXCEPT !.trip.acc = @ + 1]
    /\ queue' = IF modem'.trip.acc = modem.trip.dist
                THEN Append(queue, [type |-> "completed", acc |-> modem.trip.dist]) ELSE queue
    /\ UNCHANGED <<world, client, adapter, requests, commands, events, ended>>

Event(freedom) ==
    /\ freedom \in world
    /\ events < MaxEvents /\ events' = events + 1
    /\ UNCHANGED <<world, client, commands, ended, walked>>

ModemCrashes ==
    /\ Event("crashes") /\ modem.up
    /\ modem' = [up |-> FALSE, runs |-> {}, trip |-> NoTrip]
    /\ requests' = Append(requests, [op |-> "open"])
    /\ UNCHANGED <<adapter, queue>>

(* A locked engine runs nothing.                                             *)
EngineLockChanges ==
    /\ Event("locks") /\ modem.up
    /\ adapter' = [adapter EXCEPT !.locked = ~@]
    /\ modem' = IF adapter.locked THEN modem ELSE [modem EXCEPT !.runs = {}, !.trip = NoTrip]
    /\ queue' = Append(queue, [type |-> "lock", on |-> adapter'.locked])
    /\ UNCHANGED requests

PowerChanges ==
    /\ Event("power")
    /\ \E on \in BOOLEAN : queue' = Append(queue, [type |-> "power", on |-> on])
    /\ UNCHANGED <<adapter, requests, modem>>

-----------------------------------------------------------------------------
Client ==
    \/ \E i \in Ids, o \in Options : locAPIStartSession(i, o)
    \/ \E i \in Ids, o \in UpdateOptions : locAPIUpdateSessionOptions(i, o)
    \/ \E i \in Ids : locAPIStopSession(i)
    \/ \E i \in Ids : locAPIGetBatchedLocations(i)
    \/ destroy

Adapter ==
    \/ ProcEarly \/ ProcStart \/ ProcUpdate \/ ProcStop \/ ProcGet \/ ProcRemove
    \/ ProcResponse \/ ProcCompleted \/ ProcEngineUp \/ ProcLock \/ ProcPower

LocApi == LocApiRequest \/ LocApiOpen

Next ==
    \/ Client \/ Adapter \/ LocApi
    \/ Walk \/ ModemCrashes \/ EngineLockChanges \/ PowerChanges

Spec == Init /\ [][Next]_vars

-----------------------------------------------------------------------------
(* Properties                                                                *)

Exposed(freedoms) == freedoms \cap world # {}

TypeOK ==
    /\ world \in Worlds
    /\ client.session \in [Ids -> Sessions \cup {NoSession}]
    /\ \A k \in DOMAIN client.asked : client.asked[k] \in DOMAIN commands
    /\ DOMAIN adapter.trips \subseteq Sessions
    /\ \A t \in DOMAIN adapter.trips :
          /\ DOMAIN adapter.trips[t] = {"ongoing", "this", "onRestart", "dist", "tbf"}
          /\ \A f \in DOMAIN adapter.trips[t] : adapter.trips[t][f] \in Nat
    /\ adapter.dist \in 0..(Width - 1) /\ adapter.tbf \in Nat
    /\ modem.runs \subseteq Sessions
    /\ ended \subseteq [s : Sessions, dist : Nat]
    /\ \A n \in DOMAIN commands :
          /\ commands[n].kind \in Commands /\ commands[n].sent \in 0..2
          /\ commands[n].heard \in {-1, 0, n}

(* Every start and every query for locations has exactly one response once   *)
(* the adapter is at rest, and so has every stop of a plain session that     *)
(* waited for the response before it.  startBatchingCommand,                 *)
(* stopBatchingCommand and getBatchedLocationsCommand together with their    *)
(* callbacks.  Without a response stay: a start the modem does not support,  *)
(* a second stop, a stop of a trip that was not saved, and of a session the  *)
(* adapter erased while the engine was locked or suspended.                  *)
AnsweredOnce ==
    /\ ~Exposed({"updates"}) => \A n \in DOMAIN commands : commands[n].sent <= 1
    /\ Quiet /\ ~client.gone /\ ~Exposed({"updates", "unsupported"}) =>
       \A n \in DOMAIN commands :
          \/ commands[n].sent = 1
          \/ commands[n].kind = "stop" /\ Exposed({"hasty", "trips", "locks", "power"})

(* The response the client takes for a request is the one of that request:   *)
(* onResponseCb pops the oldest of the queue, whatever it asked.  It is so   *)
(* for a client that waits for each response, as long as its sessions are    *)
(* not suspended or updated, both of which send responses nobody asked for.  *)
OwnAnswer ==
    ~Exposed({"hasty", "updates", "power"})
    => \A n \in DOMAIN commands : commands[n].heard # -1

(* Requests and responses keep in step.                                      *)
EachAnswered == TypeOK /\ AnsweredOnce /\ OwnAnswer

(* At rest the modem batches for every session the adapter holds, across     *)
(* crashes, locks and suspends (handleEngineUpEvent, handleEngineLockStatus  *)
(* and restartSessions), runs nothing the adapter does not hold, and a trip  *)
(* batch whenever there are trips.                                           *)
ModemAgrees ==
    Quiet /\ modem.up /\ ~adapter.locked /\ ~adapter.suspended =>
    /\ {s \in Held(adapter) : adapter.sessions[s].mode # "trip"} \subseteq modem.runs
    /\ ~Exposed({"crashes"}) => modem.runs \subseteq Held(adapter)
    /\ DOMAIN adapter.trips # {} => modem.trip.on

(* The client knows the sessions the adapter holds, and no other: its        *)
(* dictionary and mBatchingSessions agree at rest.                           *)
ClientAgrees ==
    Quiet /\ ~client.gone
          /\ ~Exposed({"hasty", "updates", "power", "locks", "trips", "unsupported"})
    => {client.session[i] : i \in Ids} \ {NoSession} = Held(adapter)

(* Nobody is told that a trip is completed before its distance was covered,  *)
(* however many trips share the one batch of the modem: the accounting of    *)
(* reportCompletedTripsEvent, restartTripBatching and the start of a trip    *)
(* beside others.                                                            *)
NotEarly ==
    "moving" \notin world
    => \A e \in ended : walked[e.s] >= e.dist

(* The event of a full batch is registered while a session asks for it       *)
(* (startBatching and startTripBatchingMultiplex), and only then.            *)
FullAsked ==
    Quiet =>
    /\ autoReportBatchingSessionsCount(adapter) > 0
          => adapter.full \/ Exposed({"refuses", "moving"})
    /\ ~Exposed({"updates"}) =>
       (adapter.full => autoReportBatchingSessionsCount(adapter) > 0)

(* What client, adapter and modem hold is the same.                          *)
SessionsAgree == ModemAgrees /\ ClientAgrees /\ FullAsked
=============================================================================
