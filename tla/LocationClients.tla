--------------------------- MODULE LocationClients ---------------------------
(* The client objects of gps/location/LocationAPI.cpp and what the adapters  *)
(* know of them. LocationAPI runs on the callers' threads under gDataMutex;  *)
(* the adapters share one message thread (LocContext); LocApiBase opens the  *)
(* modem for the events the adapters ask for, on a thread of its own.        *)
(* libgnss, libbatching and libgeofencing are taken to load.                 *)
EXTENDS Naturals, Sequences, FiniteSets

CONSTANTS
    Clients,        \* places in memory of LocationAPI objects
    CallbackSets,   \* which callbacks of LocationCallbacks may be given
    None,           \* model value
    MaxCalls,       \* creations, updates and restarts of the modem
    Worlds          \* sets of what the surroundings may do

Callbacks == {"trackingCb", "gnssNmeaCb", "batchingCb", "geofenceBreachCb", "geofenceStatusCb"}
Adapters == {"gnss", "batching", "geofence"}

ASSUME ClientsAssumption ==
    /\ CallbackSets \subseteq SUBSET Callbacks
    /\ MaxCalls \in Nat
    /\ None \notin Adapters /\ \A callbacks \in SUBSET Callbacks : callbacks # None
    /\ \A w \in Worlds : w \subseteq {"modemNmea", "agps", "restarts", "locked", "slow", "deserts"}

VARIABLES
    world,          \* what the surroundings do, chosen once
    calls,          \* how many of the bounded calls were made
    life,           \* of each client object: free, live, leaving (waits), left
    clientData,     \* gData.clientData: its callbacks, or None
    waitMask,       \* gData.destroyClientData: the adapters it waits for
    loaded,         \* the adapters, in the order they were loaded (mLocAdapters)
    queue,          \* messages of the adapters' thread
    mClientData,    \* of each adapter: the callbacks of each client, or None
    mEvtMask,       \* of each adapter: the events it asks for
    known,          \* of each adapter: mIsEngineCapabilitiesKnown
    mPendingMsgs,   \* of each adapter: who asked before they were known
    features,       \* of the GnssAdapter: "nmea" (mNmeaMask is set), "agps" (registered)
    apiQueue,       \* messages of the LocApi thread
    modem,          \* the events the modem reports, and whether it was ever open
    unlocked,       \* the engine is not locked
    told            \* clients that were told capabilities since they exist

gData == <<life, clientData, waitMask>>
adapters == <<mClientData, mEvtMask, known, mPendingMsgs, features>>
surroundings == <<world, unlocked>>
vars == <<gData, adapters, surroundings, calls, loaded, queue, apiQueue, modem, told>>

-----------------------------------------------------------------------------
AdapterOf == [trackingCb |-> "gnss", gnssNmeaCb |-> "gnss", batchingCb |-> "batching",
              geofenceBreachCb |-> "geofence", geofenceStatusCb |-> "geofence"]
Bits == [trackingCb |-> {"position"}, gnssNmeaCb |-> {"position", "satellite"},
         batchingCb |-> {"batch status"}, geofenceBreachCb |-> {"breach", "dwell"},
         geofenceStatusCb |-> {"alert"}]

(* isGnssClient, isBatchingClient, isGeofenceClient                          *)
Kinds(callbacks) == {AdapterOf[cb] : cb \in callbacks}

Loaded == {loaded[i] : i \in DOMAIN loaded}
Callers(data) == {c \in Clients : data[c] # None}
Given(data) == UNION {data[c] : c \in Callers(data)}

Open(a) == [type |-> "open", adapter |-> a]
Msg(t, a, c) == [type |-> t, adapter |-> a, client |-> c]
Add(a, c, callbacks) == [type |-> "add", adapter |-> a, client |-> c, callbacks |-> callbacks]
Remove(a, c, cb) == [type |-> "remove", adapter |-> a, client |-> c, complete |-> cb]

Init ==
    /\ world \in Worlds
    /\ calls = 0
    /\ life = [c \in Clients |-> "free"]
    /\ clientData = [c \in Clients |-> None]
    /\ waitMask = [c \in Clients |-> {}]
    /\ loaded = <<>> /\ queue = <<>> /\ apiQueue = <<>>
    /\ mClientData = [a \in Adapters |-> [c \in Clients |-> None]]
    /\ mEvtMask = [a \in Adapters |-> {}]
    /\ known = [a \in Adapters |-> FALSE]
    /\ mPendingMsgs = [a \in Adapters |-> <<>>]
    /\ features = {}
    /\ modem = [events |-> {}, opened |-> FALSE]
    /\ unlocked = ("locked" \notin world)
    /\ told = {}

-----------------------------------------------------------------------------
(* The callers of LocationAPI                                                *)

(* Unless the modem is slow, LocApi is done before anybody goes on.          *)
Prompt == "slow" \in world \/ apiQueue = <<>>

InOrder(A) ==
    LET If(a) == IF a \in A THEN <<a>> ELSE <<>>
    IN If("gnss") \o If("batching") \o If("geofence")

(* loadLibGnss and its like: the adapter made by initialize() adds itself to *)
(* LocApiBase, which opens the modem for it.                                 *)
loadLib(A) ==
    LET new == InOrder(A \ Loaded) IN
    /\ loaded' = loaded \o new
    /\ apiQueue' = apiQueue \o [i \in DOMAIN new |-> Open(new[i])]
    /\ known' = [a \in Adapters |-> IF a \in A \ Loaded THEN modem.opened ELSE known[a]]
    /\ UNCHANGED <<mClientData, mEvtMask, mPendingMsgs, features>>

(* A client without callbacks of any kind goes to the GnssAdapter; the first *)
(* adapter is asked for the capabilities.                                    *)
createInstance(c, callbacks) ==
    /\ Prompt /\ life[c] = "free" /\ calls < MaxCalls
    /\ LET A == IF callbacks = {} THEN {"gnss"} ELSE Kinds(callbacks)
           s == InOrder(A)
           adds == [i \in DOMAIN s |-> Add(s[i], c, callbacks)]
       IN /\ loadLib(A)
          /\ queue' = queue \o (<<adds[1], Msg("capabilities", s[1], c)>> \o Tail(adds))
    /\ life' = [life EXCEPT ![c] = "live"]
    /\ clientData' = [clientData EXCEPT ![c] = callbacks]
    /\ told' = told \ {c}
    /\ calls' = calls + 1
    /\ UNCHANGED <<surroundings, waitMask, modem>>

updateCallbacks(c, callbacks) ==
    /\ Prompt /\ life[c] = "live" /\ calls < MaxCalls
    /\ LET added == Kinds(callbacks)
           dropped == (Kinds(clientData[c]) \ added) \cap Loaded
           s == InOrder(added \cup dropped)
       IN /\ loadLib(added)
          /\ queue' = queue \o [i \in DOMAIN s |->
                IF s[i] \in added THEN Add(s[i], c, callbacks) ELSE Remove(s[i], c, FALSE)]
    /\ clientData' = [clientData EXCEPT ![c] = callbacks]
    /\ calls' = calls + 1
    /\ UNCHANGED <<surroundings, life, waitMask, modem, told>>

BugWaitFor(c) == Kinds(clientData[c])    \* only those it gave callbacks for

(* Every adapter there is is asked to remove the client, so all must answer. *)
WaitFor(c) == Loaded

BugLeave(c, l) ==    \* the callbacks are not erased
    /\ life' = [life EXCEPT ![c] = l]
    /\ UNCHANGED clientData

Leave(c, l) ==
    /\ life' = [life EXCEPT ![c] = l]
    /\ clientData' = [clientData EXCEPT ![c] = None]

(* With a callback the object is deleted when all have answered; without one *)
(* nothing is waited for, and nobody deletes it.                             *)
destroy(c, callback) ==
    /\ callback \/ "deserts" \in world
    /\ Prompt /\ life[c] = "live"
    /\ LET s == InOrder(Loaded)
       IN queue' = queue \o [i \in DOMAIN s |-> Remove(s[i], c, TRUE)]
    /\ IF callback
       THEN waitMask' = [waitMask EXCEPT ![c] = WaitFor(c)] /\ Leave(c, "leaving")
       ELSE UNCHANGED waitMask /\ Leave(c, "left")
    /\ UNCHANGED <<surroundings, adapters, calls, loaded, apiQueue, modem, told>>

(* agpsInit of the GNSS interface                                            *)
initAgpsCommand ==
    /\ Prompt /\ "agps" \in world \ features /\ "gnss" \in Loaded
    /\ \A i \in DOMAIN queue : queue[i].type # "agps"
    /\ queue' = Append(queue, Msg("agps", "gnss", None))
    /\ UNCHANGED <<gData, adapters, surroundings, calls, loaded, apiQueue, modem, told>>

-----------------------------------------------------------------------------
(* The adapters' thread                                                      *)

Handle(type) == Prompt /\ queue # <<>> /\ Head(queue).type = type

BugOwnMask(data) ==    \* the AGPS registration is not kept
    {"system"}
    \cup (IF "nmea" \in features /\ "gnssNmeaCb" \in Given(data) THEN {"nmea 1Hz"} ELSE {})

(* What the GnssAdapter asks for on its own account                          *)
OwnMask(data) ==
    {"system"}
    \cup (IF "nmea" \in features /\ "gnssNmeaCb" \in Given(data) THEN {"nmea 1Hz"} ELSE {})
    \cup (IF "agps" \in features THEN {"server request"} ELSE {})

(* updateClientsEventMask of each adapter                                    *)
EventMask(a, data) ==
    (UNION {Bits[cb] : cb \in {x \in Given(data) : AdapterOf[x] = a}})
    \cup (IF a = "gnss" THEN OwnMask(data) ELSE {})

updateEvtMask(a, mask) ==
    /\ mEvtMask' = [mEvtMask EXCEPT ![a] = mask]
    /\ apiQueue' = Append(apiQueue, Open(None))

SaveData(a, data) ==
    /\ mClientData' = [mClientData EXCEPT ![a] = data]
    /\ updateEvtMask(a, EventMask(a, data))

MsgAddClient ==
    /\ Handle("add")
    /\ LET m == Head(queue)
       IN SaveData(m.adapter, [mClientData[m.adapter] EXCEPT ![m.client] = m.callbacks])
    /\ queue' = Tail(queue)
    /\ UNCHANGED <<gData, surroundings, known, mPendingMsgs, features, calls, loaded, modem, told>>

(* onRemoveClientCompleteCb: the last answer deletes the object (and does    *)
(* not call destroyCompleteCb, whose test is the wrong way round).           *)
onRemoveClientCompleteCb(c, a) ==
    LET left == waitMask[c] \ {a} IN
    /\ waitMask' = [waitMask EXCEPT ![c] = left]
    /\ life' = IF waitMask[c] # {} /\ left = {} THEN [life EXCEPT ![c] = "free"] ELSE life

MsgRemoveClient ==
    /\ Handle("remove")
    /\ LET m == Head(queue) IN
       /\ SaveData(m.adapter, [mClientData[m.adapter] EXCEPT ![m.client] = None])
       /\ IF m.complete THEN onRemoveClientCompleteCb(m.client, m.adapter)
          ELSE UNCHANGED <<life, waitMask>>
    /\ queue' = Tail(queue)
    /\ UNCHANGED <<clientData, surroundings, known, mPendingMsgs, features,
                   calls, loaded, modem, told>>

MsgRequestCapabilities ==
    /\ Handle("capabilities")
    /\ LET a == Head(queue).adapter
           c == Head(queue).client
       IN IF known[a]
          THEN /\ told' = IF mClientData[a][c] # None THEN told \cup {c} ELSE told
               /\ UNCHANGED mPendingMsgs
          ELSE /\ mPendingMsgs' = [mPendingMsgs EXCEPT ![a] = Append(@, Head(queue))]
               /\ UNCHANGED told
    /\ queue' = Tail(queue)
    /\ UNCHANGED <<gData, surroundings, mClientData, mEvtMask, known, features,
                   calls, loaded, apiQueue, modem>>

Bugbroadcast(a) == UNCHANGED told    \* only those who asked are told

broadcast(a) == told' = told \cup Callers(mClientData[a])

(* Messages that waited are sent again, unless the engine is locked.         *)
Flush(a) ==
    IF unlocked
    THEN /\ queue' = Tail(queue) \o mPendingMsgs[a]
         /\ mPendingMsgs' = [mPendingMsgs EXCEPT ![a] = <<>>]
    ELSE queue' = Tail(queue) /\ UNCHANGED mPendingMsgs

(* setConfig: where the modem makes NMEA, the GnssAdapter asks for it from   *)
(* now on, with an update of its own if a client wants it.                   *)
setConfig(data) ==
    LET on == "modemNmea" \in world /\ "nmea" \notin features
        also == IF on /\ "gnssNmeaCb" \in Given(data) THEN {"nmea 1Hz"} ELSE {}
    IN /\ features' = IF on THEN features \cup {"nmea"} ELSE features
       /\ mEvtMask' = [mEvtMask EXCEPT !["gnss"] = EventMask("gnss", data) \cup also]
       /\ apiQueue' = apiQueue \o (IF also = {} THEN <<Open(None)>> ELSE <<Open(None), Open(None)>>)

MsgHandleEngineUp ==
    /\ Handle("engine up")
    /\ LET a == Head(queue).adapter IN
       /\ known' = [known EXCEPT ![a] = TRUE]
       /\ broadcast(a)
       /\ Flush(a)
       /\ IF a = "gnss" THEN setConfig(mClientData[a])
          ELSE UNCHANGED <<mEvtMask, features, apiQueue>>
    /\ UNCHANGED <<gData, surroundings, mClientData, calls, loaded, modem>>

MsgEngineLockState ==
    /\ Handle("lock state")
    /\ Flush(Head(queue).adapter)
    /\ UNCHANGED <<gData, surroundings, mClientData, mEvtMask, known, features,
                   calls, loaded, apiQueue, modem, told>>

AgpsMsgInit ==
    /\ Handle("agps")
    /\ features' = features \cup {"agps"}
    /\ updateEvtMask("gnss", mEvtMask["gnss"] \cup {"server request"})
    /\ queue' = Tail(queue)
    /\ UNCHANGED <<gData, surroundings, mClientData, known, mPendingMsgs,
                   calls, loaded, modem, told>>

-----------------------------------------------------------------------------
(* The LocApi thread and the modem                                           *)

getEvtMask == UNION {mEvtMask[a] : a \in Loaded}
EngineUp(s) == queue' = queue \o [i \in DOMAIN s |-> Msg("engine up", s[i], None)]
open == modem' = [events |-> getEvtMask, opened |-> TRUE]

(* A modem that is down need not let itself be opened.                       *)
LocOpenMsg ==
    /\ apiQueue # <<>> /\ Head(apiQueue).type = "open"
    /\ LET a == Head(apiQueue).adapter IN
       \/ open /\ EngineUp(IF a = None THEN <<>> ELSE <<a>>)
       \/ /\ \E i \in DOMAIN apiQueue : apiQueue[i].type = "restart"
          /\ UNCHANGED <<modem, queue>>
    /\ apiQueue' = Tail(apiQueue)
    /\ UNCHANGED <<gData, adapters, surroundings, calls, loaded, told>>

LocSsrMsg ==
    /\ apiQueue # <<>> /\ Head(apiQueue).type = "restart"
    /\ open /\ EngineUp(loaded)
    /\ apiQueue' = Tail(apiQueue)
    /\ UNCHANGED <<gData, adapters, surroundings, calls, loaded, told>>

(* handleEngineDownEvent: the modem has forgotten what it was asked for.     *)
EngineDown ==
    /\ "restarts" \in world /\ modem.opened /\ calls < MaxCalls
    /\ modem' = [modem EXCEPT !.events = {}]
    /\ apiQueue' = Append(apiQueue, [type |-> "restart"])
    /\ calls' = calls + 1
    /\ UNCHANGED <<gData, adapters, surroundings, loaded, queue, told>>

(* reportEngineLockStatus: the GeofenceAdapter does not listen.              *)
EngineUnlocks ==
    /\ Prompt /\ ~unlocked
    /\ unlocked' = TRUE
    /\ LET Tell(i) == IF i \in DOMAIN loaded /\ loaded[i] # "geofence"
                      THEN <<Msg("lock state", loaded[i], None)>> ELSE <<>>
       IN queue' = queue \o (Tell(1) \o Tell(2) \o Tell(3))
    /\ UNCHANGED <<gData, adapters, world, calls, loaded, apiQueue, modem, told>>

-----------------------------------------------------------------------------
AdapterThread ==
    \/ MsgAddClient \/ MsgRemoveClient \/ MsgRequestCapabilities
    \/ MsgHandleEngineUp \/ MsgEngineLockState \/ AgpsMsgInit
LocApiThread == LocOpenMsg \/ LocSsrMsg

Next ==
    \/ \E c \in Clients, callbacks \in CallbackSets : createInstance(c, callbacks)
    \/ \E c \in Clients, callbacks \in CallbackSets : updateCallbacks(c, callbacks)
    \/ \E c \in Clients, callback \in BOOLEAN : destroy(c, callback)
    \/ initAgpsCommand
    \/ MsgAddClient \/ MsgRemoveClient \/ MsgRequestCapabilities
    \/ MsgHandleEngineUp \/ MsgEngineLockState \/ AgpsMsgInit
    \/ LocOpenMsg \/ LocSsrMsg
    \/ EngineDown \/ EngineUnlocks

(* Both threads run on; nobody else need ever do anything.                   *)
Spec == Init /\ [][Next]_vars /\ WF_vars(AdapterThread) /\ WF_vars(LocApiThread)

-----------------------------------------------------------------------------
(* Who is in gData.clientData is live, who is in destroyClientData is        *)
(* leaving, and it waits only for adapters that are yet to answer            *)
(* (LocationAPI::destroy, onRemoveClientCompleteCb).                         *)
TypeOK ==
    /\ life \in [Clients -> {"free", "live", "leaving", "left"}]
    /\ clientData \in [Clients -> {None} \cup SUBSET Callbacks]
    /\ waitMask \in [Clients -> SUBSET Loaded]
    /\ mClientData \in [Adapters -> [Clients -> {None} \cup SUBSET Callbacks]]
    /\ features \subseteq {"nmea", "agps"}
    /\ \A c \in Clients :
        /\ life[c] = "live" <=> clientData[c] # None
        /\ life[c] = "leaving" <=> waitMask[c] # {}

Exposed(freedoms) == world \cap freedoms # {}
Settled == queue = <<>> /\ apiQueue = <<>>

(* Whenever the threads have nothing left to do, the modem reports exactly   *)
(* what the clients of LocationAPI gave callbacks for and what the           *)
(* GnssAdapter needs for itself: across loading, updates, removal, AGPS      *)
(* registration and restarts of the modem (updateClientsEventMask,           *)
(* updateEvtMask, LocSsrMsg).                                                *)
MaskServes ==
    Settled => modem.events =
        (UNION {Bits[cb] : cb \in Given(clientData)})
        \cup (IF "gnss" \in Loaded THEN {"system"} ELSE {})
        \cup (IF "modemNmea" \in world /\ "gnssNmeaCb" \in Given(clientData)
              THEN {"nmea 1Hz"} ELSE {})
        \cup (IF "agps" \in features THEN {"server request"} ELSE {})

(* The adapters that hold a client, or are about to                          *)
Holders(c) == {a \in Adapters :
    \/ mClientData[a][c] # None
    \/ \E i \in DOMAIN queue :
        /\ queue[i].adapter = a /\ queue[i].client = c
        /\ queue[i].type = "add" \/ (queue[i].type = "remove" /\ queue[i].complete)}

(* Whoever has a client object at an adapter is told the capabilities,       *)
(* unless it withdraws it first: whether it asks before or after the engine  *)
(* is known, and even while the engine is locked (MsgRequestCapabilities,    *)
(* broadcastCapabilities).                                                   *)
CapabilitiesTold ==
    \A c \in Clients :
        Holders(c) # {} ~> (c \in told \/ life[c] # "live" \/ Holders(c) = {})

(* An object is deleted when the last adapter lets go of it, never earlier   *)
(* and never twice, and if it was destroyed with a callback it is deleted    *)
(* indeed (LocationAPI::destroy, onRemoveClientCompleteCb).                  *)
Life == INSTANCE ClientLife WITH holders <- [c \in Clients |-> Holders(c)]
ServesLife == Life!Spec
=============================================================================
