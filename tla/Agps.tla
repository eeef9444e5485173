-------------------------------- MODULE Agps --------------------------------
(***************************************************************************)
(* The AGPS data-connection manager of the GNSS HAL (gps/gnss/Agps.cpp),   *)
(* together with everything that talks to it:                              *)
(*                                                                         *)
(*   modem (QMI thread)  -- requestATL / releaseATL -->  adapter queue     *)
(*   adapter thread      -- proc() of one message at a time                *)
(*   AGNSS nif           -- REQUEST / RELEASE commands --> IAGnss client   *)
(*   IAGnss client       -- dataConnOpen/Failed/Closed --> adapter queue   *)
(*   INTERNET nif        -- answered at once by NativeAgpsHandler          *)
(*   WDS library         -- asynchronous PDN query between "open" and      *)
(*                          reportAtlOpenSuccess                           *)
(*                                                                         *)
(* A subscriber is its connection handle: equals() compares nothing else,  *)
(* and requestATL creates every subscriber with mWaitForCloseComplete set, *)
(* so that the list is a set of handles and a set of inactive handles.     *)
(***************************************************************************)
EXTENDS Naturals, Sequences, FiniteSets

CONSTANTS
    Handles,          \* connection handles the modem uses
    UseEmergencyPdn,  \* gps.conf USE_EMERGENCY_PDN_FOR_EMERGENCY_SUPL
    HasWds,           \* libloc_api_wds.so can be loaded
    Apns,             \* what an opened connection may report: see ApnKinds
    ClientMayBeAway,  \* the IAGnss client may die, or register late
    AckIdleRelease,   \* the client answers a RELEASE that finds nothing open
    MaxQ,             \* nobody starts anything while this many messages wait,
    MaxOut            \* or this many commands or PDN queries are unanswered

Nifs     == {"AGNSS", "INTERNET"}
Types    == {"SUPL", "SUPL_ES", "WWAN_ANY"}
States   == {"RELEASED", "PENDING", "ACQUIRED", "RELEASING"}
ApnKinds == {"named", "empty", "bad"}   \* bad: longer than MAX_APN_LEN
NoHandle == "none"

ASSUME ConstantsAssumption ==
    /\ NoHandle \notin Handles
    /\ UseEmergencyPdn \in BOOLEAN
    /\ HasWds \in BOOLEAN
    /\ ClientMayBeAway \in BOOLEAN
    /\ AckIdleRelease \in BOOLEAN
    /\ Apns \subseteq ApnKinds
    /\ MaxQ \in Nat
    /\ MaxOut \in Nat

VARIABLES
    created,          \* nifs whose AgpsStateMachine exists
    mState,           \* per nif
    mSubscriberList,  \* per nif, the handles in the list
    mIsInactive,      \* per nif, the handles marked inactive
    mAgpsType,        \* per nif, overwritten by every requestATL
    msgQ,             \* the adapter's message queue
    mConnected,       \* NativeAgpsHandler: mobile data is up
    mAGnssCb,         \* AGnss::mAGnssCbIface is set
    cmdQ,             \* commands on their way to the IAGnss client
    conn,             \* the client's data connection
    wds,              \* PDN queries in flight, per nif
    atl               \* the modem's view of every handle

smVars  == <<created, mState, mSubscriberList, mIsInactive, mAgpsType>>
envVars == <<mConnected, mAGnssCb, conn>>
vars    == <<smVars, msgQ, cmdQ, wds, atl, envVars>>

Msg(m, h, t) == [m |-> m, h |-> h, t |-> t]

ModemKinds  == {"request", "release"}
ReportKinds == {"init", "open_named", "open_empty", "pdn", "failed", "closed"}
Messages == [m : ModemKinds, h : Handles, t : Types]
            \cup [m : ReportKinds, h : {NoHandle}, t : Types]
Commands == [c : {"REQUEST", "RELEASE"}, t : Types]

TypeOK ==
    /\ created \subseteq Nifs
    /\ mState \in [Nifs -> States]
    /\ mSubscriberList \in [Nifs -> SUBSET Handles]
    /\ mIsInactive \in [Nifs -> SUBSET Handles]
    /\ mAgpsType \in [Nifs -> Types]
    /\ msgQ \in Seq(Messages)
    /\ mConnected \in BOOLEAN
    /\ mAGnssCb \in BOOLEAN
    /\ cmdQ \in Seq(Commands)
    /\ conn \in {"down", "opening", "up"}
    /\ wds \in [Nifs -> Nat]
    /\ atl \in [Handles -> {"closed", "opening", "open", "closing"}]

(* The constructor of GnssAdapter queues initDefaultAgpsCommand.           *)
Init ==
    /\ created = {}
    /\ mState = [n \in Nifs |-> "RELEASED"]
    /\ mSubscriberList = [n \in Nifs |-> {}]
    /\ mIsInactive = [n \in Nifs |-> {}]
    /\ mAgpsType = [n \in Nifs |-> IF n = "AGNSS" THEN "SUPL" ELSE "WWAN_ANY"]
    /\ msgQ = <<Msg("init", NoHandle, "WWAN_ANY")>>
    /\ mConnected = FALSE
    /\ mAGnssCb = FALSE
    /\ cmdQ = <<>>
    /\ conn = "down"
    /\ wds = [n \in Nifs |-> 0]
    /\ atl = [h \in Handles |-> "closed"]

-----------------------------------------------------------------------------
(* Helpers of the state machine                                            *)

getAgpsStateMachine(t) == IF t = "WWAN_ANY" THEN "INTERNET" ELSE "AGNSS"

(* requestATL turns an emergency request into a plain one when the         *)
(* emergency PDN is not to be used.                                        *)
EffectiveType(t) ==
    IF t = "SUPL_ES" /\ ~UseEmergencyPdn THEN "SUPL" ELSE t

Active(n) == mSubscriberList[n] \ mIsInactive[n]

(* What the modem makes of mAtlOpenStatusCb(handle, ok) and                *)
(* mAtlCloseStatusCb(handle, 1).  A handle it has already released stays   *)
(* released when a late success arrives.                                   *)
AtlOpened(hs) ==
    [h \in Handles |-> IF h \in hs /\ atl[h] = "opening" THEN "open" ELSE atl[h]]
AtlDown(hs) ==
    [h \in Handles |-> IF h \in hs THEN "closed" ELSE atl[h]]

OpenKind(apn) == IF apn = "named" THEN "open_named" ELSE "open_empty"

(* NativeAgpsHandler::processATLRequestRelease answers the command before  *)
(* requestOrReleaseDataConn returns, by queueing a message; an APN that    *)
(* dataConnOpenCommand rejects leaves no message (see OpenRejected).       *)
NativeAnswer(c, apn, q) ==
    IF c = "RELEASE" THEN Append(q, Msg("closed", NoHandle, "WWAN_ANY"))
    ELSE IF ~mConnected THEN Append(q, Msg("failed", NoHandle, "WWAN_ANY"))
    ELSE IF apn = "bad" THEN q
    ELSE Append(q, Msg(OpenKind(apn), NoHandle, "WWAN_ANY"))

(* requestOrReleaseDataConn(c) of nif n of type t; q is what is left of    *)
(* the adapter queue.  AGnss::statusCb drops the command when no callback  *)
(* is set.                                                                 *)
requestOrReleaseDataConn(n, t, c, q) ==
    \/ /\ n = "INTERNET"
       /\ \E apn \in Apns : msgQ' = NativeAnswer(c, apn, q)
       /\ UNCHANGED cmdQ
    \/ /\ n = "AGNSS"
       /\ cmdQ' = IF mAGnssCb THEN Append(cmdQ, [c |-> c, t |-> t]) ELSE cmdQ
       /\ msgQ' = q

NoDataConnCommand(q) == msgQ' = q /\ UNCHANGED cmdQ
-----------------------------------------------------------------------------
(* The five events of processAgpsEvent, each for one nif.  q is the rest   *)
(* of the adapter queue; the caller says what happens to the variables     *)
(* that no event touches.                                                  *)

processAgpsEventSubscribe(n, h, t, q) ==
    /\ mSubscriberList' = [mSubscriberList EXCEPT ![n] = @ \cup {h}]
    /\ mAgpsType' = [mAgpsType EXCEPT ![n] = t]
    /\ UNCHANGED mIsInactive
    /\ \/ /\ mState[n] = "RELEASED"
          /\ requestOrReleaseDataConn(n, t, "REQUEST", q)
          /\ mState' = [mState EXCEPT ![n] = "PENDING"]
          /\ UNCHANGED atl
       \/ /\ mState[n] \in {"PENDING", "RELEASING"}
          /\ NoDataConnCommand(q)
          /\ UNCHANGED <<mState, atl>>
       \/ /\ mState[n] = "ACQUIRED"
          /\ NoDataConnCommand(q)
          /\ atl' = AtlOpened({h})
          /\ UNCHANGED mState

(* Definitions named Bug... are what-if variants of the definition that    *)
(* follows them, used to see that a property notices the slip.             *)
BugReleaseOnAnyUnsubscribe(n, h, q) ==
    /\ mIsInactive' = [mIsInactive EXCEPT ![n] = @ \cup {h}]
    /\ UNCHANGED <<mSubscriberList, mAgpsType, atl>>
    /\ IF mState[n] \in {"PENDING", "ACQUIRED"}
       THEN /\ mState' = [mState EXCEPT ![n] = "RELEASING"]
            /\ requestOrReleaseDataConn(n, mAgpsType[n], "RELEASE", q)
       ELSE NoDataConnCommand(q) /\ UNCHANGED mState
(* h is in the list.  A subscriber that waits for the close stays in the   *)
(* list, inactive; the last one to leave releases the data connection.     *)
processAgpsEventUnsubscribe(n, h, q) ==
    LET inactive == IF mState[n] = "RELEASED" THEN mIsInactive[n]
                                              ELSE mIsInactive[n] \cup {h}
        release  == /\ mState[n] \in {"PENDING", "ACQUIRED"}
                    /\ mSubscriberList[n] \subseteq inactive
    IN  /\ mIsInactive' = [mIsInactive EXCEPT ![n] = inactive]
        /\ atl' = IF mState[n] = "RELEASED" THEN AtlDown({h}) ELSE atl
        /\ UNCHANGED <<mSubscriberList, mAgpsType>>
        /\ \/ /\ release
              /\ mState' = [mState EXCEPT ![n] = "RELEASING"]
              /\ requestOrReleaseDataConn(n, mAgpsType[n], "RELEASE", q)
           \/ /\ ~release
              /\ NoDataConnCommand(q)
              /\ UNCHANGED mState

processAgpsEventGranted(n, q) ==
    /\ NoDataConnCommand(q)
    /\ UNCHANGED <<mSubscriberList, mIsInactive, mAgpsType>>
    /\ \/ /\ mState[n] = "PENDING"
          /\ mState' = [mState EXCEPT ![n] = "ACQUIRED"]
          /\ atl' = AtlOpened(Active(n))
       \/ /\ mState[n] # "PENDING"
          /\ UNCHANGED <<mState, atl>>

BugFinishForgetsRequest(n, q) ==
    /\ atl' = AtlDown(mIsInactive[n])
    /\ mSubscriberList' = [mSubscriberList EXCEPT ![n] = Active(n)]
    /\ mIsInactive' = [mIsInactive EXCEPT ![n] = {}]
    /\ UNCHANGED mAgpsType
    /\ mState' = [mState EXCEPT ![n] =
                     IF Active(n) # {} THEN "PENDING" ELSE "RELEASED"]
    /\ NoDataConnCommand(q)
BugFinishChecksWholeList(n, q) ==
    /\ atl' = AtlDown(mIsInactive[n])
    /\ mSubscriberList' = [mSubscriberList EXCEPT ![n] = Active(n)]
    /\ mIsInactive' = [mIsInactive EXCEPT ![n] = {}]
    /\ UNCHANGED mAgpsType
    /\ mState' = [mState EXCEPT ![n] = "PENDING"]
    /\ requestOrReleaseDataConn(n, mAgpsType[n], "REQUEST", q)

(* RELEASED or DENIED while RELEASING: tell and drop the inactive          *)
(* subscribers, and ask again for the ones that came in the meantime.      *)
FinishReleasing(n, q) ==
    /\ atl' = AtlDown(mIsInactive[n])
    /\ mSubscriberList' = [mSubscriberList EXCEPT ![n] = Active(n)]
    /\ mIsInactive' = [mIsInactive EXCEPT ![n] = {}]
    /\ UNCHANGED mAgpsType
    /\ \/ /\ Active(n) # {}
          /\ mState' = [mState EXCEPT ![n] = "PENDING"]
          /\ requestOrReleaseDataConn(n, mAgpsType[n], "REQUEST", q)
       \/ /\ Active(n) = {}
          /\ mState' = [mState EXCEPT ![n] = "RELEASED"]
          /\ NoDataConnCommand(q)

(* A forced release (ACQUIRED) or a denial (PENDING): tell and drop all.   *)
DropAll(n, q) ==
    /\ mState' = [mState EXCEPT ![n] = "RELEASED"]
    /\ atl' = AtlDown(mSubscriberList[n])
    /\ mSubscriberList' = [mSubscriberList EXCEPT ![n] = {}]
    /\ mIsInactive' = [mIsInactive EXCEPT ![n] = {}]
    /\ UNCHANGED mAgpsType
    /\ NoDataConnCommand(q)

Ignore(q) ==
    /\ NoDataConnCommand(q)
    /\ UNCHANGED <<mState, mSubscriberList, mIsInactive, mAgpsType, atl>>

processAgpsEventReleased(n, q) ==
    \/ mState[n] \in {"RELEASED", "PENDING"} /\ Ignore(q)
    \/ mState[n] = "ACQUIRED" /\ DropAll(n, q)
    \/ mState[n] = "RELEASING" /\ FinishReleasing(n, q)

BugDenialIgnoredPending(n, q) ==
    \/ mState[n] # "RELEASING" /\ Ignore(q)
    \/ mState[n] = "RELEASING" /\ FinishReleasing(n, q)
processAgpsEventDenied(n, q) ==
    \/ mState[n] \in {"RELEASED", "ACQUIRED"} /\ Ignore(q)
    \/ mState[n] = "PENDING" /\ DropAll(n, q)
    \/ mState[n] = "RELEASING" /\ FinishReleasing(n, q)
-----------------------------------------------------------------------------
(* The adapter thread: proc() of the message at the head of the queue.     *)

Received(kind) == msgQ # <<>> /\ Head(msgQ).m = kind

(* initAgps / createAgpsStateMachines, on a build with MSA or MSB.         *)
ProcInit ==
    /\ Received("init")
    /\ created' = created \cup {getAgpsStateMachine(Head(msgQ).t)}
    /\ msgQ' = Tail(msgQ)
    /\ UNCHANGED <<mState, mSubscriberList, mIsInactive, mAgpsType, cmdQ, wds,
                   atl, envVars>>

BugNoReplyWithoutNif ==
    /\ Received("request")
    /\ LET h == Head(msgQ).h
           t == EffectiveType(Head(msgQ).t)
           n == getAgpsStateMachine(t)
       IN  IF n \in created THEN processAgpsEventSubscribe(n, h, t, Tail(msgQ))
                            ELSE Ignore(Tail(msgQ))
    /\ UNCHANGED <<created, wds, envVars>>

(* AgpsManager::requestATL *)
requestATL ==
    /\ Received("request")
    /\ LET h == Head(msgQ).h
           t == EffectiveType(Head(msgQ).t)
           n == getAgpsStateMachine(t)
       IN  \/ /\ n \in created
              /\ processAgpsEventSubscribe(n, h, t, Tail(msgQ))
           \/ /\ n \notin created
              /\ atl' = AtlDown({h})
              /\ NoDataConnCommand(Tail(msgQ))
              /\ UNCHANGED <<mState, mSubscriberList, mIsInactive, mAgpsType>>
    /\ UNCHANGED <<created, wds, envVars>>

(* AgpsManager::releaseATL: the AGNSS list is searched first.              *)
releaseATL ==
    /\ Received("release")
    /\ LET h == Head(msgQ).h
       IN  \/ /\ h \in mSubscriberList["AGNSS"]
              /\ processAgpsEventUnsubscribe("AGNSS", h, Tail(msgQ))
           \/ /\ h \notin mSubscriberList["AGNSS"]
              /\ h \in mSubscriberList["INTERNET"]
              /\ processAgpsEventUnsubscribe("INTERNET", h, Tail(msgQ))
           \/ /\ \A n \in Nifs : h \notin mSubscriberList[n]
              /\ Ignore(Tail(msgQ))
    /\ UNCHANGED <<created, wds, envVars>>

(* An event of the framework for a nif that does not exist is dropped.     *)
reportAtlOpenSuccess(n, q) ==
    IF n \in created THEN processAgpsEventGranted(n, q) ELSE Ignore(q)
reportAtlOpenFailed(n, q) ==
    IF n \in created THEN processAgpsEventDenied(n, q) ELSE Ignore(q)
reportAtlClosed(n, q) ==
    IF n \in created THEN processAgpsEventReleased(n, q) ELSE Ignore(q)

(* AgpsMsgAtlOpenSuccess::proc: with the WDS library present a named APN   *)
(* is looked up first, and the report waits for the answer.                *)
ProcOpenSuccess ==
    /\ \E k \in {"open_named", "open_empty"} : Received(k)
    /\ LET n == getAgpsStateMachine(Head(msgQ).t)
       IN  \/ /\ HasWds /\ Head(msgQ).m = "open_named"
              /\ wds' = [wds EXCEPT ![n] = @ + 1]
              /\ Ignore(Tail(msgQ))
           \/ /\ ~HasWds \/ Head(msgQ).m = "open_empty"
              /\ reportAtlOpenSuccess(n, Tail(msgQ))
              /\ UNCHANGED wds
    /\ UNCHANGED <<created, envVars>>

(* MsgReportAtlPdn::proc, AgpsMsgAtlOpenFailed::proc, AgpsMsgAtlClosed::proc *)
ProcAtlPdn ==
    /\ Received("pdn")
    /\ reportAtlOpenSuccess(getAgpsStateMachine(Head(msgQ).t), Tail(msgQ))
    /\ UNCHANGED <<created, wds, envVars>>

ProcOpenFailed ==
    /\ Received("failed")
    /\ reportAtlOpenFailed(getAgpsStateMachine(Head(msgQ).t), Tail(msgQ))
    /\ UNCHANGED <<created, wds, envVars>>

ProcClosed ==
    /\ Received("closed")
    /\ reportAtlClosed(getAgpsStateMachine(Head(msgQ).t), Tail(msgQ))
    /\ UNCHANGED <<created, wds, envVars>>

AdapterStep ==
    \/ ProcInit \/ requestATL \/ releaseATL
    \/ ProcOpenSuccess \/ ProcAtlPdn \/ ProcOpenFailed \/ ProcClosed

-----------------------------------------------------------------------------
(* Everyone else only queues messages.                                     *)

sendMsg(m, h, t) == msgQ' = Append(msgQ, Msg(m, h, t))
HasRoom == Len(msgQ) < MaxQ

(* The AGnss constructor calls updateCallbacks, hence agpsInit.            *)
AGnssCreated ==
    \/ "AGNSS" \in created
    \/ \E i \in 1..Len(msgQ) : msgQ[i] = Msg("init", NoHandle, "SUPL")

(* The modem: server requests are enabled by the first initAgps.  A handle *)
(* is requested when it is closed and released once, at any later time.    *)
(* Unless the client may be away, no request falls between the creation of *)
(* AGnss and its setCallback.                                              *)
ModemRequest(h, t) ==
    /\ created # {}
    /\ atl[h] = "closed"
    /\ wds[getAgpsStateMachine(t)] < MaxOut
    /\ Len(cmdQ) < MaxOut
    /\ HasRoom
    /\ AGnssCreated => mAGnssCb \/ ClientMayBeAway
    /\ sendMsg("request", h, t)
    /\ atl' = [atl EXCEPT ![h] = "opening"]
    /\ UNCHANGED <<smVars, cmdQ, wds, envVars>>

ModemRelease(h) ==
    /\ atl[h] \in {"opening", "open"}
    /\ HasRoom
    /\ sendMsg("release", h, "SUPL")
    /\ atl' = [atl EXCEPT ![h] = "closing"]
    /\ UNCHANGED <<smVars, cmdQ, wds, envVars>>

BugUnsolicitedPdn(n) ==
    /\ wds' = [wds EXCEPT ![n] = @ - 1]
    /\ sendMsg("pdn", NoHandle, IF n = "AGNSS" THEN "SUPL" ELSE "WWAN_ANY")
    /\ UNCHANGED <<smVars, cmdQ, atl, envVars>>

(* GnssAdapter::reportPdnTypeFromWds, called back by the WDS library.      *)
reportPdnTypeFromWds(n) ==
    /\ wds[n] > 0
    /\ wds' = [wds EXCEPT ![n] = @ - 1]
    /\ sendMsg("pdn", NoHandle, IF n = "AGNSS" THEN "SUPL" ELSE "WWAN_ANY")
    /\ UNCHANGED <<smVars, cmdQ, atl, envVars>>

(* NativeAgpsHandler::notify *)
NotifyNetworkInfo ==
    /\ mConnected' = ~mConnected
    /\ UNCHANGED <<smVars, msgQ, cmdQ, wds, atl, mAGnssCb, conn>>

(* The AGnss constructor; its client then calls setCallback.               *)
AGnssCreate ==
    /\ ~AGnssCreated
    /\ sendMsg("init", NoHandle, "SUPL")
    /\ UNCHANGED <<smVars, cmdQ, wds, atl, envVars>>

setCallback ==
    /\ AGnssCreated /\ ~mAGnssCb
    /\ mAGnssCb' = TRUE
    /\ UNCHANGED <<smVars, msgQ, cmdQ, wds, atl, mConnected, conn>>

(* agnssServiceDied: setCallback(nullptr); the client's connection and     *)
(* the commands it had not read are gone with it.                          *)
agnssServiceDied ==
    /\ ClientMayBeAway /\ mAGnssCb
    /\ mAGnssCb' = FALSE
    /\ conn' = "down"
    /\ cmdQ' = <<>>
    /\ UNCHANGED <<smVars, msgQ, wds, atl, mConnected>>

-----------------------------------------------------------------------------
(* The IAGnss client, in another process.                                  *)

ClientTakeRequest ==
    /\ cmdQ # <<>> /\ Head(cmdQ).c = "REQUEST"
    /\ cmdQ' = Tail(cmdQ)
    /\ conn' = "opening"
    /\ UNCHANGED <<smVars, msgQ, wds, atl, mConnected, mAGnssCb>>

dataConnOpen ==
    /\ conn = "opening"
    /\ conn' = "up"
    /\ \E apn \in Apns \ {"bad"} : sendMsg(OpenKind(apn), NoHandle, "SUPL")
    /\ UNCHANGED <<smVars, cmdQ, wds, atl, mConnected, mAGnssCb>>

(* dataConnOpenCommand finds the APN too long: it runs reportAtlClosed on  *)
(* the caller's thread and queues nothing.                                 *)
OpenRejected ==
    /\ conn = "opening" /\ "bad" \in Apns
    /\ conn' = "up"
    /\ reportAtlClosed("AGNSS", msgQ)
    /\ UNCHANGED <<created, wds, mConnected, mAGnssCb>>

dataConnFailed ==
    /\ conn = "opening"
    /\ conn' = "down"
    /\ sendMsg("failed", NoHandle, "SUPL")
    /\ UNCHANGED <<smVars, cmdQ, wds, atl, mConnected, mAGnssCb>>

(* The network is lost while the connection is up.                         *)
dataConnClosed ==
    /\ conn = "up"
    /\ HasRoom
    /\ conn' = "down"
    /\ sendMsg("closed", NoHandle, "SUPL")
    /\ UNCHANGED <<smVars, cmdQ, wds, atl, mConnected, mAGnssCb>>

ClientTakeRelease ==
    /\ cmdQ # <<>> /\ Head(cmdQ).c = "RELEASE"
    /\ cmdQ' = Tail(cmdQ)
    /\ conn' = "down"
    /\ IF conn # "down" \/ AckIdleRelease
       THEN sendMsg("closed", NoHandle, "SUPL")
       ELSE UNCHANGED msgQ
    /\ UNCHANGED <<smVars, wds, atl, mConnected, mAGnssCb>>

ClientStep ==
    \/ ClientTakeRequest \/ dataConnOpen \/ dataConnFailed \/ ClientTakeRelease

Next ==
    \/ AdapterStep
    \/ \E h \in Handles : (\E t \in Types : ModemRequest(h, t)) \/ ModemRelease(h)
    \/ \E n \in Nifs : reportPdnTypeFromWds(n)
    \/ NotifyNetworkInfo
    \/ AGnssCreate \/ setCallback \/ agnssServiceDied
    \/ ClientStep \/ OpenRejected \/ dataConnClosed

Spec == Init /\ [][Next]_vars
(* The adapter thread always runs on, the client serves every command it   *)
(* is given and the WDS library answers every query.                       *)
Fairness ==
    /\ WF_vars(AdapterStep)
    /\ WF_vars(ClientStep)
    /\ \A n \in Nifs : WF_vars(reportPdnTypeFromWds(n))

-----------------------------------------------------------------------------
(* Properties                                                              *)

(* The comment in processAgpsEventReleased: the list is empty in RELEASED. *)
ReleasedIsEmpty ==
    \A n \in Nifs : mState[n] = "RELEASED" => mSubscriberList[n] = {}

(* A nif that asks for or holds a connection does it for somebody active;  *)
(* one that is tearing down has somebody to tell.                          *)
BusyHasSubscribers ==
    \A n \in Nifs :
        /\ mState[n] \in {"PENDING", "ACQUIRED"} => Active(n) # {}
        /\ mState[n] = "RELEASING" => mIsInactive[n] # {}

(* The list of a nif fits its state on every path, with one user or with   *)
(* several, also when the client dies or refuses.                          *)
ListFitsState == ReleasedIsEmpty /\ BusyHasSubscribers

MsgsOf(h) == {i \in 1..Len(msgQ) : msgQ[i].h = h}
LastOf(h) == msgQ[CHOOSE i \in MsgsOf(h) : \A j \in MsgsOf(h) : j <= i].m

(* No request or release of the modem is ever lost or answered twice: what *)
(* the modem believes of a handle is what the lists and the messages still *)
(* on their way say of it.                                                 *)
ModemAgrees ==
    \A h \in Handles :
        LET queued == MsgsOf(h) # {}
        IN  CASE atl[h] = "opening" ->
                    IF queued THEN LastOf(h) = "request"
                    ELSE \E n \in Nifs : /\ h \in Active(n)
                                         /\ mState[n] \in {"PENDING", "RELEASING"}
              [] atl[h] = "open" ->
                    /\ ~queued
                    /\ \E n \in Nifs : h \in Active(n) /\ mState[n] = "ACQUIRED"
              [] atl[h] = "closing" ->
                    IF queued THEN LastOf(h) = "release"
                    ELSE \E n \in Nifs : h \in mIsInactive[n]
              [] atl[h] = "closed" ->
                    /\ \A i \in MsgsOf(h) : msgQ[i].m = "release"
                    /\ \A n \in Nifs : h \notin mSubscriberList[n]

(* A handle is in one list at most, so the order in which releaseATL       *)
(* searches the lists does not matter.                                     *)
OneNifPerHandle ==
    mSubscriberList["AGNSS"] \cap mSubscriberList["INTERNET"] = {}

(* The lists are what the modem asked for.                                 *)
ModemServed == ModemAgrees /\ OneNifPerHandle

Queued(kinds, n) ==
    \E i \in 1..Len(msgQ) : /\ msgQ[i].m \in kinds
                            /\ getAgpsStateMachine(msgQ[i].t) = n
Ordered(c) == \E i \in 1..Len(cmdQ) : cmdQ[i].c = c

(* "We already have the data connection setup" (processAgpsEventSubscribe  *)
(* in ACQUIRED): it is up, or the news that it is not is on its way.       *)
AcquiredIsConnected ==
    mState["AGNSS"] = "ACQUIRED" => conn = "up" \/ Queued({"closed"}, "AGNSS")

(* Whoever waits in PENDING waits for something: the client has still to   *)
(* act on a request, or its answer is on its way.                          *)
PendingAwaitsAnswer ==
    mState["AGNSS"] = "PENDING" =>
        \/ Ordered("REQUEST") \/ conn = "opening" \/ wds["AGNSS"] > 0
        \/ Queued({"open_named", "open_empty", "pdn", "failed"}, "AGNSS")

(* A nif back in RELEASED has left no connection behind, up or on order.   *)
NoLeakedConnection ==
    mState["AGNSS"] = "RELEASED" => conn = "down" /\ ~Ordered("REQUEST")

(* A connection is closed under its users only by the network: the nif     *)
(* orders a release only when no subscriber is active any more.            *)
ReleaseOnlyIdle ==
    [][\A n \in Nifs : mState[n] # "RELEASING" /\ mState'[n] = "RELEASING"
                        => Active(n)' = {}]_vars

(* Without the emergency PDN no command ever asks for one.                 *)
NoEmergencyPdn ==
    ~UseEmergencyPdn => \A i \in 1..Len(cmdQ) : cmdQ[i].t # "SUPL_ES"
=============================================================================
