--------------------------- MODULE StatusObserver ---------------------------
(* SystemStatusOsObserver (core/SystemStatusOsObserver.cpp) between those    *)
(* who report items of the system's state and those who subscribe to them,   *)
(* with the two maps of LocUnorderedSetMap that index the subscriptions by   *)
(* client and by item.  Everything runs on one message task, and so does     *)
(* the second hop of one client: XtraSystemStatusObserver posts what it is   *)
(* told to itself and passes it on to the XTRA daemon, a process of its own. *)
(* The network item comes from the framework through updateNetworkState and  *)
(* is collated by NetworkInfo; the others come from a subscription object,   *)
(* which is set late and reports what it was asked for.                      *)
EXTENDS NetworkInfo, FiniteSets

CONSTANTS
    Clients,        \* NativeAgpsHandler and users of getOsObserver()
    Xtra,           \* XtraSystemStatusObserver
    Plain,          \* items that are one value
    Tac,            \* the one of them that Xtra requests
    Networks, NetworkTypes,
    None,           \* model value
    Offers,         \* sets of items clients ask for
    MaxCalls,       \* calls of the clients
    MaxEvents,      \* changes of the framework's state, restarts of the daemon
    MaxBacklog,     \* messages that wait when somebody posts another
    Worlds          \* sets of what may happen

Network == "network"
Items == Plain \cup {Network}
Observers == Clients \cup {Xtra}

(* What SystemStatus may hold of the networks                                *)
NetworkEntry == [handle : Networks, type : NetworkTypes]
NetworkItem ==
    [mConnected : BOOLEAN, entry : NetworkEntry, mAllTypes : SUBSET NetworkTypes,
     handles : Seq(NetworkEntry)]

ASSUME ObserverAssumption ==
    /\ Xtra \notin Clients /\ Tac \in Plain /\ Network \notin Plain
    /\ None \notin NetworkTypes /\ None \notin {0, 1} /\ None \notin NetworkItem
    /\ IsFiniteSet(Networks) /\ MaxHandles \in Nat /\ Cardinality(Networks) <= MaxHandles
    /\ \A S \in Offers : S # {} /\ S \subseteq Items
    /\ MaxCalls \in Nat /\ MaxEvents \in Nat /\ MaxBacklog \in Nat
    /\ \A w \in Worlds : w \subseteq {"changes", "networks", "twins", "meters", "daemon", "requests", "updates"}

VARIABLES
    world,          \* what may happen, chosen once
    calls, events,  \* how many did
    queue,          \* messages of the task
    mSubscriptionObj,       \* whether it is set
    mClientToDataItems,     \* the items of every observer; no entry is {}
    mDataItemToClients,     \* the observers of every item
    mDataItemCache, \* per item, what SystemStatus recorded last, or None
    told,           \* per observer and item, what notify brought last
    osSubscribed,   \* items the subscription object reports on change
    due,            \* items it is about to report
    value,          \* per plain item, what it is
    up,             \* per network, its type, or None while it is down
    mReqStatusReceived,
    daemon          \* the XTRA daemon: what it knows per item, has it asked

maps == <<mClientToDataItems, mDataItemToClients>>
framework == <<osSubscribed, due>>
state == <<value, up>>
xtra == <<mReqStatusReceived, daemon>>
observerVars ==
    <<world, calls, events, queue, mSubscriptionObj, maps, mDataItemCache, told, framework, state, xtra>>

Nothing == [i \in Items |-> None]

(* A call of a client, and a set of items with their values                  *)
Call(type, c, S) == [type |-> type, client |-> c, items |-> S, values |-> Nothing]
Data(type, S, values) == [type |-> type, client |-> None, items |-> S, values |-> values]

(* XtraSystemStatusObserver subscribes when the GnssAdapter is made.         *)
ObserverInit ==
    /\ world \in Worlds
    /\ calls = 0 /\ events = 0
    /\ queue = <<Call("subscribe", Xtra, {Network}), Call("requestData", Xtra, {Tac})>>
    /\ mSubscriptionObj = FALSE
    /\ mClientToDataItems = [c \in Observers |-> {}]
    /\ mDataItemToClients = [i \in Items |-> {}]
    /\ mDataItemCache = Nothing
    /\ told = [c \in Observers |-> Nothing]
    /\ osSubscribed = {} /\ due = {}
    /\ value = [i \in Plain |-> 0]
    /\ up = [n \in Networks |-> None]
    /\ mReqStatusReceived = FALSE
    /\ daemon = [asked |-> FALSE, known |-> Nothing]

-----------------------------------------------------------------------------
(* Clients, the framework and the daemon: each call posts a message          *)

Post(msg) == Len(queue) < MaxBacklog /\ queue' = Append(queue, msg)
Happens(freedom) == freedom \in world /\ events < MaxEvents /\ events' = events + 1

Calls(type, c, S) ==
    /\ calls < MaxCalls
    /\ type = "requestData" => "requests" \in world
    /\ type = "updateSubscription" => "updates" \in world
    /\ calls' = calls + 1
    /\ Post(Call(type, c, S))
    /\ UNCHANGED <<world, events, mSubscriptionObj, maps, mDataItemCache, told, framework, state,
                   xtra>>

Subscribe(c, S) == Calls("subscribe", c, S)
RequestData(c, S) == Calls("requestData", c, S)
UpdateSubscription(c, S) == Calls("updateSubscription", c, S)
Unsubscribe(c, S) == Calls("unsubscribe", c, S)
UnsubscribeAll(c) == Calls("unsubscribeAll", c, {})

(* setSubscriptionObj is called once, by a library of the framework.         *)
SetSubscriptionObj ==
    /\ ~mSubscriptionObj /\ \A k \in DOMAIN queue : queue[k].type # "setSubscriptionObj"
    /\ Post(Data("setSubscriptionObj", {}, Nothing))
    /\ UNCHANGED <<world, calls, events, mSubscriptionObj, maps, mDataItemCache, told, framework,
                   state, xtra>>

(* AGnssRil::updateNetworkState.  A second network of a type takes "twins".  *)
NetworkReported(connected, n, t) ==
    /\ Post(Data("notify", {Network}, [Nothing EXCEPT ![Network] = Report(connected, n, t)]))
    /\ UNCHANGED <<world, calls, mSubscriptionObj, maps, mDataItemCache, told, framework, value,
                   xtra>>

Connects(n, t) ==
    /\ Happens("networks") /\ up[n] = None
    /\ (\E m \in Networks : up[m] = t) => "twins" \in world
    /\ up' = [up EXCEPT ![n] = t]
    /\ NetworkReported(TRUE, n, t)

(* A network that becomes metered, or unmetered, is reported with the other  *)
(* type.                                                                     *)
Turns(n, t) ==
    /\ Happens("networks") /\ "meters" \in world /\ up[n] \notin {None, t}
    /\ up' = [up EXCEPT ![n] = t]
    /\ NetworkReported(TRUE, n, t)

Disconnects(n) ==
    /\ Happens("networks") /\ up[n] # None
    /\ up' = [up EXCEPT ![n] = None]
    /\ NetworkReported(FALSE, n, up[n])

Changes(i) ==
    /\ Happens("changes")
    /\ value' = [value EXCEPT ![i] = 1 - @]
    /\ due' = IF i \in osSubscribed THEN due \cup {i} ELSE due
    /\ UNCHANGED <<world, calls, queue, mSubscriptionObj, maps, mDataItemCache, told,
                   osSubscribed, up, xtra>>

FrameworkReports ==
    /\ due # {}
    /\ Post(Data("notify", due, [i \in Items |-> IF i \in due THEN value[i] ELSE None]))
    /\ due' = {}
    /\ UNCHANGED <<world, calls, events, mSubscriptionObj, maps, mDataItemCache, told,
                   osSubscribed, state, xtra>>

(* The daemon starts, again perhaps, and asks for the status.                *)
DaemonRestarts ==
    /\ Happens("daemon")
    /\ daemon' = [asked |-> FALSE, known |-> Nothing]
    /\ UNCHANGED <<world, calls, queue, mSubscriptionObj, maps, mDataItemCache, told, framework,
                   state, mReqStatusReceived>>

DaemonAsks ==
    /\ ~daemon.asked
    /\ daemon' = [daemon EXCEPT !.asked = TRUE]
    /\ Post(Data("requestStatus", {}, Nothing))
    /\ UNCHANGED <<world, calls, events, mSubscriptionObj, maps, mDataItemCache, told, framework,
                   state, mReqStatusReceived>>

-----------------------------------------------------------------------------
(* The message task                                                          *)

Taking(type) == queue # <<>> /\ Head(queue).type = type
Keys(clientsOf) == {i \in Items : clientsOf[i] # {}}

(* LocUnorderedSetMap::add and trimOrRemove, with the client as the value    *)
Added(clientsOf, S, c) == [i \in Items |-> IF i \in S THEN clientsOf[i] \cup {c} ELSE clientsOf[i]]
Trimmed(clientsOf, S, c) == [i \in Items |-> IF i \in S THEN clientsOf[i] \ {c} ELSE clientsOf[i]]

(* sendCachedDataItems: every observer is notified of the wanted items that  *)
(* are in the cache, Xtra by a message to itself.                            *)
Deliver(cache, wanted) ==
    LET sent(c) == {i \in wanted[c] : cache[i] # None}
    IN /\ told' = [c \in Observers |-> [i \in Items |->
                      IF c # Xtra /\ i \in sent(c) THEN cache[i] ELSE told[c][i]]]
       /\ queue' = IF sent(Xtra) = {} THEN Tail(queue)
                   ELSE Append(Tail(queue), Data("xtra", sent(Xtra), cache))

Only(c, S) == [o \in Observers |-> IF o = c THEN S ELSE {}]

(* Where the subscription object is set it is told what is new and what      *)
(* nobody wants any more.                                                    *)
AskFramework(subscribed, requested, unsubscribed) ==
    IF mSubscriptionObj
    THEN /\ osSubscribed' = (osSubscribed \cup subscribed) \ unsubscribed
         /\ due' = due \cup ((subscribed \cup requested) \cap Plain)
    ELSE UNCHANGED framework

SetSubsObj ==
    /\ Taking("setSubscriptionObj")
    /\ mSubscriptionObj' = TRUE
    /\ osSubscribed' = osSubscribed \cup Keys(mDataItemToClients)
    /\ due' = due \cup (Keys(mDataItemToClients) \cap Plain)
    /\ queue' = Tail(queue)
    /\ UNCHANGED <<world, calls, events, maps, mDataItemCache, told, state, xtra>>

(* An item that is new to all is asked for in the way of its first client.   *)
BugSubscribeReq(type) ==
    /\ Taking(type)
    /\ LET c == Head(queue).client
           S == Head(queue).items
           new == S \ Keys(mDataItemToClients)
       IN /\ mDataItemToClients' = Added(mDataItemToClients, S, c)
          /\ mClientToDataItems' = [mClientToDataItems EXCEPT ![c] = @ \cup S]
          /\ Deliver(mDataItemCache, Only(c, new))
          /\ IF type = "subscribe" THEN AskFramework(new, {}, {}) ELSE AskFramework({}, new, {})
    /\ UNCHANGED <<world, calls, events, mSubscriptionObj, mDataItemCache, state, xtra>>

HandleSubscribeReq(type) ==
    /\ Taking(type)
    /\ LET c == Head(queue).client
           S == Head(queue).items
           new == S \ Keys(mDataItemToClients)
       IN /\ mDataItemToClients' = Added(mDataItemToClients, S, c)
          /\ mClientToDataItems' = [mClientToDataItems EXCEPT ![c] = @ \cup S]
          /\ Deliver(mDataItemCache, Only(c, S))
          /\ IF type = "subscribe" THEN AskFramework(new, {}, {}) ELSE AskFramework({}, new, {})
    /\ UNCHANGED <<world, calls, events, mSubscriptionObj, mDataItemCache, state, xtra>>

(* LocUnorderedSetMap::update returns what the old and the new set have in   *)
(* common, not what is removed.  Its loop goes on from an element it erased, *)
(* and may end after the first.                                              *)
HandleUpdateSubscriptionReq ==
    /\ Taking("updateSubscription")
    /\ LET c == Head(queue).client
           S == Head(queue).items
           common == mClientToDataItems[c] \cap S
       IN \E gone \in SUBSET common :
          LET trimmed == Trimmed(mDataItemToClients, gone, c)
              fresh == S \ gone
          IN /\ gone = {} => common = {}
             /\ mClientToDataItems' = [mClientToDataItems EXCEPT ![c] = S]
             /\ mDataItemToClients' = Added(trimmed, fresh, c)
             /\ Deliver(mDataItemCache, Only(c, fresh))
             /\ AskFramework(fresh \ Keys(trimmed), {}, Keys(mDataItemToClients) \ Keys(trimmed))
    /\ UNCHANGED <<world, calls, events, mSubscriptionObj, mDataItemCache, state, xtra>>

(* Only items the client has are taken from the second map; for              *)
(* unsubscribeAll these are all.                                             *)
BugUnsubscribeReq(type) ==
    /\ Taking(type)
    /\ LET c == Head(queue).client
           S == IF type = "unsubscribe" THEN Head(queue).items ELSE Items
           unused == mClientToDataItems[c] \cap S
           trimmed == Trimmed(mDataItemToClients, unused, c)
       IN /\ mClientToDataItems' = [mClientToDataItems EXCEPT ![c] = @ \ unused]
          /\ mDataItemToClients' = trimmed
          /\ AskFramework({}, {}, unused)
    /\ queue' = Tail(queue)
    /\ UNCHANGED <<world, calls, events, mSubscriptionObj, mDataItemCache, told, state, xtra>>

HandleUnsubscribeReq(type) ==
    /\ Taking(type)
    /\ LET c == Head(queue).client
           S == IF type = "unsubscribe" THEN Head(queue).items ELSE Items
           unused == mClientToDataItems[c] \cap S
           trimmed == Trimmed(mDataItemToClients, unused, c)
       IN /\ mClientToDataItems' = [mClientToDataItems EXCEPT ![c] = @ \ unused]
          /\ mDataItemToClients' = trimmed
          /\ AskFramework({}, {}, Keys(mDataItemToClients) \ Keys(trimmed))
    /\ queue' = Tail(queue)
    /\ UNCHANGED <<world, calls, events, mSubscriptionObj, mDataItemCache, told, state, xtra>>

(* setIteminReport: what SystemStatus keeps of a report                      *)
Recorded(i, v) ==
    IF i = Network /\ mDataItemCache[i] # None THEN collate(v, mDataItemCache[i]) ELSE v

Updated(i, v) ==
    \/ mDataItemCache[i] = None
    \/ i = Network /\ ~equals(mDataItemCache[i], Recorded(i, v))
    \/ i # Network /\ mDataItemCache[i] # v

(* updateCache for each item; then whoever subscribed to one that changed    *)
(* gets those he has of them.                                                *)
HandleNotify ==
    /\ Taking("notify")
    /\ LET values == Head(queue).values
           changed == {i \in Head(queue).items : Updated(i, values[i])}
           cache == [i \in Items |-> IF i \in changed THEN Recorded(i, values[i])
                                     ELSE mDataItemCache[i]]
           concerned == UNION {mDataItemToClients[i] : i \in changed}
       IN /\ mDataItemCache' = cache
          /\ Deliver(cache, [c \in Observers |->
                 IF c \in concerned THEN mClientToDataItems[c] \cap changed ELSE {}])
    /\ UNCHANGED <<world, calls, events, mSubscriptionObj, maps, framework, state, xtra>>

(* HandleOsObserverUpdateMsg: updateConnections, updateTac, updateMccMnc     *)
HandleOsObserverUpdate ==
    /\ Taking("xtra")
    /\ LET values == Head(queue).values
           S == Head(queue).items
       IN /\ told' = [told EXCEPT ![Xtra] =
                        [i \in Items |-> IF i \in S THEN values[i] ELSE @[i]]]
          /\ daemon' = IF mReqStatusReceived
                       THEN [daemon EXCEPT !.known =
                                [i \in Items |-> IF i \in S THEN values[i] ELSE @[i]]]
                       ELSE daemon
    /\ queue' = Tail(queue)
    /\ UNCHANGED <<world, calls, events, mSubscriptionObj, maps, mDataItemCache, framework, state,
                   mReqStatusReceived>>

onStatusRequested ==
    /\ Taking("requestStatus")
    /\ mReqStatusReceived' = TRUE
    /\ daemon' = [daemon EXCEPT !.known = told[Xtra]]
    /\ queue' = Tail(queue)
    /\ UNCHANGED <<world, calls, events, mSubscriptionObj, maps, mDataItemCache, told, framework,
                   state>>

ObserverNext ==
    \/ \E c \in Clients, S \in Offers :
        Subscribe(c, S) \/ RequestData(c, S) \/ UpdateSubscription(c, S) \/ Unsubscribe(c, S)
    \/ \E c \in Clients : UnsubscribeAll(c)
    \/ SetSubscriptionObj
    \/ \E n \in Networks, t \in NetworkTypes : Connects(n, t) \/ Turns(n, t)
    \/ \E n \in Networks : Disconnects(n)
    \/ \E i \in Plain : Changes(i)
    \/ FrameworkReports
    \/ DaemonRestarts \/ DaemonAsks
    \/ SetSubsObj
    \/ HandleSubscribeReq("subscribe") \/ HandleSubscribeReq("requestData")
    \/ HandleUpdateSubscriptionReq
    \/ HandleUnsubscribeReq("unsubscribe") \/ HandleUnsubscribeReq("unsubscribeAll")
    \/ HandleNotify
    \/ HandleOsObserverUpdate
    \/ onStatusRequested

ObserverSpec == ObserverInit /\ [][ObserverNext]_observerVars

-----------------------------------------------------------------------------
(* Properties                                                                *)

Exposed(freedoms) == world \cap freedoms # {}
Settled == queue = <<>> /\ due = {}

(* The two maps say the same, and the framework reports exactly what         *)
(* somebody is subscribed to, whoever subscribes and unsubscribes what, before *)
(* or after the subscription object is set.  An item that was only requested *)
(* at first is not subscribed later.  Not so with updateSubscription.        *)
SubscriptionsAgree ==
    ~Exposed({"updates"}) =>
        /\ \A c \in Observers, i \in Items :
               i \in mClientToDataItems[c] <=> c \in mDataItemToClients[i]
        /\ mSubscriptionObj =>
               /\ osSubscribed \subseteq Keys(mDataItemToClients)
               /\ ~Exposed({"requests"}) => Keys(mDataItemToClients) \subseteq osSubscribed

(* When all is quiet every subscriber was told the value an item has, the    *)
(* first time and after any change, and so was the XTRA daemon, whenever it  *)
(* was started (sendCachedDataItems, HandleNotify, onStatusRequested).       *)
Newest ==
    Settled /\ ~Exposed({"updates"}) =>
        /\ \A c \in Observers : \A i \in mClientToDataItems[c] : told[c][i] = mDataItemCache[i]
        /\ \A i \in Plain \cap osSubscribed : mDataItemCache[i] = value[i]
        /\ daemon.asked => daemon.known = told[Xtra]

Table == IF mDataItemCache[Network] = None THEN <<>> ELSE mDataItemCache[Network].handles
Mask == IF mDataItemCache[Network] = None THEN {} ELSE mDataItemCache[Network].mAllTypes

(* The table holds the networks that are up, each once and with its type,    *)
(* and no type without a network; while no type has two networks it has all  *)
(* the types.  A network that changes its type stays in the table for ever   *)
(* (collate).                                                                *)
ConnectionsKnown ==
    Settled /\ ~Exposed({"meters"}) =>
        /\ Len(Table) = Cardinality({n \in Networks : up[n] # None})
        /\ ToSet(Table) = {Entry(n, up[n]) : n \in {m \in Networks : up[m] # None}}
        /\ Mask \subseteq TypesOf(Table)
        /\ ~Exposed({"twins"}) => TypesOf(Table) \subseteq Mask
=============================================================================
