-------------------------- MODULE ConnectionProofs --------------------------
(***************************************************************************)
(* Proofs about the data connections: about Agps, which brings them up and *)
(* down, for any set of handles, any client behaviour and any bound, and   *)
(* about StatusObserver, which knows and tells what networks there are,    *)
(* for any clients, items, networks and worlds.                            *)
(*                                                                         *)
(* Of Agps: the type invariant, the shape of the subscriber lists in every *)
(* state of the machine, when a connection may be given back, that the     *)
(* modem is served, and that the connection is known (AgpsLink), with the  *)
(* WDS library that the device ships and without it.  The inductive        *)
(* invariant adds to the checked properties that an inactive handle is in  *)
(* the list: without it a new subscriber of a RELEASED nif could be        *)
(* inactive already, and PENDING would have no active one.                 *)
(*                                                                         *)
(* Of StatusObserver: the subscriptions agree, whoever subscribed is told  *)
(* the newest, and the table holds the networks that are up.               *)
(***************************************************************************)
EXTENDS AgpsLink, StatusObserver, SequenceTheorems, FiniteSetTheorems, TLAPS


SmType ==
    /\ mState \in [Nifs -> States]
    /\ mSubscriberList \in [Nifs -> SUBSET Handles]
    /\ mIsInactive \in [Nifs -> SUBSET Handles]
    /\ mAgpsType \in [Nifs -> Types]
    /\ msgQ \in Seq(Messages)
    /\ cmdQ \in Seq(Commands)
    /\ atl \in [Handles -> {"closed", "opening", "open", "closing"}]

EnvType ==
    /\ created \subseteq Nifs
    /\ mConnected \in BOOLEAN
    /\ mAGnssCb \in BOOLEAN
    /\ conn \in {"down", "opening", "up"}
    /\ wds \in [Nifs -> Nat]

InactiveListed == \A n \in Nifs : mIsInactive[n] \subseteq mSubscriberList[n]

SmInv == SmType /\ InactiveListed /\ ReleasedIsEmpty /\ BusyHasSubscribers

IInv == SmInv /\ EnvType

-----------------------------------------------------------------------------
(* What the threads queue are messages.                                    *)
LEMMA MsgType ==
    ASSUME NEW t \in Types
    PROVE  /\ \A m \in ReportKinds : Msg(m, NoHandle, t) \in Messages
           /\ \A m \in ModemKinds, h \in Handles : Msg(m, h, t) \in Messages
BY DEF Msg, Messages

(* Ordering a command (or not) leaves both queues well typed.              *)
LEMMA CommandType ==
    ASSUME NEW n \in Nifs, NEW t \in Types, NEW c \in {"REQUEST", "RELEASE"},
           NEW q \in Seq(Messages), cmdQ \in Seq(Commands),
           requestOrReleaseDataConn(n, t, c, q)
    PROVE  msgQ' \in Seq(Messages) /\ cmdQ' \in Seq(Commands)
<1>1. CASE n = "INTERNET"
  <2>1. PICK apn \in Apns : msgQ' = NativeAnswer(c, apn, q)
    BY <1>1 DEF requestOrReleaseDataConn
  <2>2. \A k \in ReportKinds : Msg(k, NoHandle, "WWAN_ANY") \in Messages BY MsgType DEF Types
  <2>3. OpenKind(apn) \in ReportKinds /\ "closed" \in ReportKinds /\ "failed" \in ReportKinds
    BY DEF OpenKind, ReportKinds
  <2>4. NativeAnswer(c, apn, q) \in Seq(Messages) BY <2>2, <2>3 DEF NativeAnswer
  <2>5. UNCHANGED cmdQ BY <1>1 DEF requestOrReleaseDataConn
  <2> QED BY <2>1, <2>4, <2>5
<1>2. CASE n = "AGNSS"
  <2>1. [c |-> c, t |-> t] \in Commands BY DEF Commands
  <2> QED BY <1>2, <2>1 DEF requestOrReleaseDataConn
<1> QED BY <1>1, <1>2 DEF Nifs

LEMMA NoCommandType ==
    ASSUME NEW q \in Seq(Messages), cmdQ \in Seq(Commands), NoDataConnCommand(q)
    PROVE  msgQ' \in Seq(Messages) /\ cmdQ' \in Seq(Commands)
BY DEF NoDataConnCommand

(* What a notification makes of the modem's view is a view again.          *)
LEMMA NotifyType ==
    ASSUME SmType, NEW hs
    PROVE  /\ AtlOpened(hs) \in [Handles -> {"closed", "opening", "open", "closing"}]
           /\ AtlDown(hs) \in [Handles -> {"closed", "opening", "open", "closing"}]
BY DEF SmType, AtlOpened, AtlDown

-----------------------------------------------------------------------------
(* Each event keeps the invariant of the state machines.                   *)

LEMMA SubscribeKeeps ==
    ASSUME SmInv, NEW n \in Nifs, NEW h \in Handles, NEW t \in Types,
           NEW q \in Seq(Messages), processAgpsEventSubscribe(n, h, t, q)
    PROVE  SmInv'
<1> USE DEF SmInv
<1>1. /\ mSubscriberList' = [mSubscriberList EXCEPT ![n] = @ \cup {h}]
      /\ mAgpsType' = [mAgpsType EXCEPT ![n] = t]
      /\ mIsInactive' = mIsInactive
  BY DEF processAgpsEventSubscribe
<1>2. CASE mState[n] = "RELEASED"
  <2>1. /\ requestOrReleaseDataConn(n, t, "REQUEST", q)
        /\ mState' = [mState EXCEPT ![n] = "PENDING"]
        /\ atl' = atl
    BY <1>2 DEF processAgpsEventSubscribe
  <2>2. SmType' BY <1>1, <2>1, CommandType DEF SmType, States
  <2> QED BY <1>1, <1>2, <2>1, <2>2 DEF SmType, InactiveListed, ReleasedIsEmpty,
      BusyHasSubscribers, Active, States
<1>3. CASE mState[n] # "RELEASED"
  <2>1. NoDataConnCommand(q) /\ mState' = mState BY <1>3 DEF processAgpsEventSubscribe
  <2>2. atl' = atl \/ atl' = AtlOpened({h}) BY <1>3 DEF processAgpsEventSubscribe
  <2>3. SmType' BY <1>1, <2>1, <2>2, NoCommandType, NotifyType DEF SmType
  <2> QED BY <1>1, <1>3, <2>1, <2>3 DEF SmType, InactiveListed, ReleasedIsEmpty,
      BusyHasSubscribers, Active
<1> QED BY <1>2, <1>3

LEMMA UnsubscribeKeeps ==
    ASSUME SmInv, NEW n \in Nifs, NEW h \in mSubscriberList[n],
           NEW q \in Seq(Messages), processAgpsEventUnsubscribe(n, h, q)
    PROVE  SmInv'
<1> USE DEF SmInv
<1>1. mState[n] # "RELEASED" /\ h \in Handles BY DEF ReleasedIsEmpty, SmType
<1>2. /\ mIsInactive' = [mIsInactive EXCEPT ![n] = @ \cup {h}]
      /\ mSubscriberList' = mSubscriberList
      /\ mAgpsType' = mAgpsType
      /\ atl' = atl
  BY <1>1 DEF processAgpsEventUnsubscribe, SmType
<1>3. CASE /\ mState[n] \in {"PENDING", "ACQUIRED"}
           /\ mSubscriberList[n] \subseteq mIsInactive[n] \cup {h}
  <2>1. /\ mState' = [mState EXCEPT ![n] = "RELEASING"]
        /\ requestOrReleaseDataConn(n, mAgpsType[n], "RELEASE", q)
    BY <1>1, <1>3 DEF processAgpsEventUnsubscribe
  <2>2. SmType' BY <1>1, <1>2, <2>1, CommandType DEF SmType, States
  <2> QED BY <1>1, <1>2, <2>1, <2>2 DEF SmType, InactiveListed, ReleasedIsEmpty,
      BusyHasSubscribers, Active, States
<1>4. CASE ~ (/\ mState[n] \in {"PENDING", "ACQUIRED"}
              /\ mSubscriberList[n] \subseteq mIsInactive[n] \cup {h})
  <2>1. mState' = mState /\ NoDataConnCommand(q) BY <1>1, <1>4 DEF processAgpsEventUnsubscribe
  <2>2. SmType' BY <1>1, <1>2, <2>1, NoCommandType DEF SmType
  <2> QED BY <1>1, <1>2, <1>4, <2>1, <2>2 DEF SmType, InactiveListed, ReleasedIsEmpty,
      BusyHasSubscribers, Active
<1> QED BY <1>3, <1>4

LEMMA IgnoreKeeps ==
    ASSUME SmInv, NEW q \in Seq(Messages), Ignore(q)
    PROVE  SmInv'
<1>1. SmType' BY NoCommandType DEF Ignore, SmInv, SmType
<1> QED BY <1>1 DEF Ignore, SmInv, InactiveListed, ReleasedIsEmpty, BusyHasSubscribers, Active

LEMMA GrantedKeeps ==
    ASSUME SmInv, NEW n \in Nifs, NEW q \in Seq(Messages),
           processAgpsEventGranted(n, q)
    PROVE  SmInv'
<1> USE DEF SmInv
<1>1. /\ NoDataConnCommand(q)
      /\ UNCHANGED <<mSubscriberList, mIsInactive, mAgpsType>>
  BY DEF processAgpsEventGranted
<1>2. CASE mState[n] = "PENDING"
  <2>1. mState' = [mState EXCEPT ![n] = "ACQUIRED"] /\ atl' = AtlOpened(Active(n))
    BY <1>2 DEF processAgpsEventGranted
  <2>2. SmType' BY <1>1, <2>1, NoCommandType, NotifyType DEF SmType, States
  <2> QED BY <1>1, <1>2, <2>1, <2>2 DEF SmType, InactiveListed, ReleasedIsEmpty,
      BusyHasSubscribers, Active
<1>3. CASE mState[n] # "PENDING"
  <2>1. Ignore(q) BY <1>1, <1>3 DEF processAgpsEventGranted, Ignore
  <2> QED BY <2>1, IgnoreKeeps
<1> QED BY <1>2, <1>3

LEMMA FinishReleasingKeeps ==
    ASSUME SmInv, NEW n \in Nifs, NEW q \in Seq(Messages), FinishReleasing(n, q)
    PROVE  SmInv'
<1> USE DEF SmInv
<1>1. /\ atl' = AtlDown(mIsInactive[n])
      /\ mSubscriberList' = [mSubscriberList EXCEPT ![n] = Active(n)]
      /\ mIsInactive' = [mIsInactive EXCEPT ![n] = {}]
      /\ mAgpsType' = mAgpsType
  BY DEF FinishReleasing
<1>2. Active(n) \subseteq Handles BY DEF Active, SmType
<1>3. CASE Active(n) # {}
  <2>1. /\ mState' = [mState EXCEPT ![n] = "PENDING"]
        /\ requestOrReleaseDataConn(n, mAgpsType[n], "REQUEST", q)
    BY <1>3 DEF FinishReleasing
  <2>2. SmType' BY <1>1, <1>2, <2>1, CommandType, NotifyType DEF SmType, States
  <2>3. mSubscriberList'[n] = Active(n) /\ mIsInactive'[n] = {} BY <1>1 DEF SmType
  <2> QED BY <1>1, <1>3, <2>1, <2>2, <2>3 DEF SmType, InactiveListed, ReleasedIsEmpty,
      BusyHasSubscribers, Active
<1>4. CASE Active(n) = {}
  <2>1. mState' = [mState EXCEPT ![n] = "RELEASED"] /\ NoDataConnCommand(q)
    BY <1>4 DEF FinishReleasing
  <2>2. SmType' BY <1>1, <1>2, <2>1, NoCommandType, NotifyType DEF SmType, States
  <2> QED BY <1>1, <1>4, <2>1, <2>2 DEF SmType, InactiveListed, ReleasedIsEmpty,
      BusyHasSubscribers, Active
<1> QED BY <1>3, <1>4

LEMMA DropAllKeeps ==
    ASSUME SmInv, NEW n \in Nifs, NEW q \in Seq(Messages), DropAll(n, q)
    PROVE  SmInv'
<1> USE DEF SmInv, DropAll
<1>1. SmType' BY NoCommandType, NotifyType DEF SmType, States
<1> QED BY <1>1 DEF SmType, InactiveListed, ReleasedIsEmpty, BusyHasSubscribers, Active

(* What the framework reports keeps the invariant, whichever the state.    *)
LEMMA ReportKeeps ==
    ASSUME SmInv, NEW n \in Nifs, NEW q \in Seq(Messages),
           \/ reportAtlOpenSuccess(n, q)
           \/ reportAtlOpenFailed(n, q)
           \/ reportAtlClosed(n, q)
    PROVE  SmInv'
<1>1. \/ processAgpsEventGranted(n, q) \/ Ignore(q)
      \/ FinishReleasing(n, q) \/ DropAll(n, q)
  BY DEF reportAtlOpenSuccess, reportAtlOpenFailed, reportAtlClosed, processAgpsEventReleased,
    processAgpsEventDenied
<1> QED BY <1>1, GrantedKeeps, IgnoreKeeps, FinishReleasingKeeps, DropAllKeeps

-----------------------------------------------------------------------------
(* Every step keeps the invariant.                                         *)

LEMMA InitIInv == Init => IInv
<1> SUFFICES ASSUME Init PROVE IInv
  OBVIOUS
<1>1. msgQ \in Seq(Messages) /\ cmdQ \in Seq(Commands)
  <2>1. Msg("init", NoHandle, "WWAN_ANY") \in Messages BY MsgType DEF ReportKinds, Types
  <2> QED BY <2>1 DEF Init
<1>2. SmType /\ EnvType BY <1>1 DEF Init, SmType, EnvType, Nifs, States, Types
<1>3. InactiveListed /\ ReleasedIsEmpty /\ BusyHasSubscribers
  BY DEF Init, InactiveListed, ReleasedIsEmpty, BusyHasSubscribers
<1> QED BY <1>2, <1>3 DEF IInv, SmInv

(* The message at the head is a message, and so is what follows.           *)
LEMMA HeadType ==
    ASSUME msgQ \in Seq(Messages), msgQ # <<>>
    PROVE  /\ Head(msgQ).m \in ModemKinds => Head(msgQ).h \in Handles
           /\ Tail(msgQ) \in Seq(Messages)
           /\ getAgpsStateMachine(Head(msgQ).t) \in Nifs
           /\ EffectiveType(Head(msgQ).t) \in Types
           /\ getAgpsStateMachine(EffectiveType(Head(msgQ).t)) \in Nifs
<1>1. Head(msgQ) \in Messages /\ Tail(msgQ) \in Seq(Messages)  OBVIOUS
<1>2. \A t \in Types : getAgpsStateMachine(t) \in Nifs /\ EffectiveType(t) \in Types
  BY DEF getAgpsStateMachine, EffectiveType, Nifs, Types
<1>3. Head(msgQ).t \in Types /\ (Head(msgQ).m \in ModemKinds => Head(msgQ).h \in Handles)
  BY <1>1 DEF Messages, ModemKinds, ReportKinds
<1> QED BY <1>1, <1>2, <1>3

(* A queue, the command queue and the modem's view may change freely as    *)
(* long as they keep their types.                                          *)
LEMMA OthersKeep ==
    ASSUME SmInv, msgQ' \in Seq(Messages), cmdQ' \in Seq(Commands),
           atl' \in [Handles -> {"closed", "opening", "open", "closing"}],
           UNCHANGED <<mState, mSubscriberList, mIsInactive, mAgpsType>>
    PROVE  SmInv'
BY DEF SmInv, SmType, InactiveListed, ReleasedIsEmpty, BusyHasSubscribers, Active

LEMMA AdapterKeeps ==
    ASSUME SmInv, AdapterStep
    PROVE  SmInv'
<1>1. msgQ \in Seq(Messages) /\ msgQ # <<>>
  BY DEF SmInv, SmType, AdapterStep, Received, ProcInit, requestATL, releaseATL,
    ProcOpenSuccess, ProcAtlPdn, ProcOpenFailed, ProcClosed
<1>2. Tail(msgQ) \in Seq(Messages) /\ getAgpsStateMachine(Head(msgQ).t) \in Nifs
  BY <1>1, HeadType
<1>3. CASE ProcInit BY <1>2, <1>3, OthersKeep DEF ProcInit, SmInv, SmType
<1>4. CASE requestATL
  <2> DEFINE h == Head(msgQ).h
             t == EffectiveType(Head(msgQ).t)
             n == getAgpsStateMachine(t)
  <2>1. h \in Handles /\ t \in Types /\ n \in Nifs
    BY <1>1, <1>4, HeadType DEF requestATL, Received, ModemKinds
  <2>2. CASE n \in created
    <3>1. processAgpsEventSubscribe(n, h, t, Tail(msgQ)) BY <1>4, <2>2 DEF requestATL
    <3> QED BY <1>2, <2>1, <3>1, SubscribeKeeps
  <2>3. CASE n \notin created
    <3>1. /\ atl' = AtlDown({h})
          /\ NoDataConnCommand(Tail(msgQ))
          /\ UNCHANGED <<mState, mSubscriberList, mIsInactive, mAgpsType>>
      BY <1>4, <2>3 DEF requestATL
    <3> QED BY <1>2, <3>1, NotifyType, NoCommandType, OthersKeep DEF SmInv, SmType
  <2> QED BY <2>2, <2>3
<1>5. CASE releaseATL
  <2> DEFINE h == Head(msgQ).h
  <2>1. \/ \E n \in Nifs : /\ h \in mSubscriberList[n]
                           /\ processAgpsEventUnsubscribe(n, h, Tail(msgQ))
        \/ Ignore(Tail(msgQ))
    BY <1>5 DEF releaseATL, Nifs
  <2> QED BY <1>2, <2>1, UnsubscribeKeeps, IgnoreKeeps
<1>6. CASE ProcOpenSuccess BY <1>2, <1>6, IgnoreKeeps, ReportKeeps DEF ProcOpenSuccess
<1>7. CASE ProcAtlPdn BY <1>2, <1>7, ReportKeeps DEF ProcAtlPdn
<1>8. CASE ProcOpenFailed BY <1>2, <1>8, ReportKeeps DEF ProcOpenFailed
<1>9. CASE ProcClosed BY <1>2, <1>9, ReportKeeps DEF ProcClosed
<1> QED BY <1>3, <1>4, <1>5, <1>6, <1>7, <1>8, <1>9 DEF AdapterStep

LEMMA SendType ==
    ASSUME NEW m, NEW h, NEW t, msgQ \in Seq(Messages), Msg(m, h, t) \in Messages,
           sendMsg(m, h, t)
    PROVE  msgQ' \in Seq(Messages)
BY DEF sendMsg

(* Steps of everyone but the adapter thread.                               *)
LEMMA OthersStepKeeps ==
    ASSUME SmInv,
           \/ \E h \in Handles : \/ \E t \in Types : ModemRequest(h, t)
                                \/ ModemRelease(h)
           \/ \E n \in Nifs : reportPdnTypeFromWds(n)
           \/ NotifyNetworkInfo \/ AGnssCreate \/ setCallback \/ agnssServiceDied
           \/ ClientStep \/ dataConnClosed
    PROVE  SmInv'
<1> DEFINE Queues == msgQ' \in Seq(Messages) /\ cmdQ' \in Seq(Commands)
           View   == atl' \in [Handles -> {"closed", "opening", "open", "closing"}]
           Same   == UNCHANGED <<mState, mSubscriberList, mIsInactive, mAgpsType>>
<1> SUFFICES Queues /\ View /\ Same BY OthersKeep
<1>1. Same
  BY DEF ModemRequest, ModemRelease, reportPdnTypeFromWds, NotifyNetworkInfo, AGnssCreate,
    setCallback, agnssServiceDied, ClientStep, ClientTakeRequest, dataConnOpen, dataConnFailed,
    ClientTakeRelease, dataConnClosed, smVars
<1>2. View
  BY DEF SmInv, SmType, ModemRequest, ModemRelease, reportPdnTypeFromWds, NotifyNetworkInfo,
    AGnssCreate, setCallback, agnssServiceDied, ClientStep, ClientTakeRequest, dataConnOpen,
    dataConnFailed, ClientTakeRelease, dataConnClosed
<1>3. Queues
  <2> USE DEF SmInv, SmType
  <2>1. ASSUME NEW h \in Handles, NEW t \in Types,
               ModemRequest(h, t) \/ ModemRelease(h)
        PROVE  Queues
    <3>1. Msg("request", h, t) \in Messages /\ Msg("release", h, "SUPL") \in Messages
      BY MsgType DEF ModemKinds, Types
    <3>2. cmdQ' = cmdQ /\ (sendMsg("request", h, t) \/ sendMsg("release", h, "SUPL"))
      BY <2>1 DEF ModemRequest, ModemRelease
    <3> QED BY <3>1, <3>2, SendType
  <2>2. \A k \in ReportKinds, t \in Types : Msg(k, NoHandle, t) \in Messages BY MsgType
  <2>3. ASSUME NEW n \in Nifs, reportPdnTypeFromWds(n) PROVE Queues
    BY <2>2, <2>3 DEF reportPdnTypeFromWds, sendMsg, ReportKinds, Types
  <2>4. CASE NotifyNetworkInfo \/ setCallback BY <2>4 DEF NotifyNetworkInfo, setCallback
  <2>5. CASE AGnssCreate BY <2>2, <2>5 DEF AGnssCreate, sendMsg, ReportKinds, Types
  <2>6. CASE agnssServiceDied BY <2>6 DEF agnssServiceDied
  <2>7. CASE ClientTakeRequest BY <2>7 DEF ClientTakeRequest
  <2>8. CASE ClientTakeRelease
    <3>1. cmdQ # <<>> /\ cmdQ' = Tail(cmdQ) BY <2>8 DEF ClientTakeRelease
    <3>2. msgQ' = msgQ \/ sendMsg("closed", NoHandle, "SUPL") BY <2>8 DEF ClientTakeRelease
    <3>3. Msg("closed", NoHandle, "SUPL") \in Messages BY <2>2 DEF ReportKinds, Types
    <3> QED BY <3>1, <3>2, <3>3, SendType
  <2>9. CASE dataConnOpen
    <3>1. PICK apn : sendMsg(OpenKind(apn), NoHandle, "SUPL") BY <2>9 DEF dataConnOpen
    <3>2. OpenKind(apn) \in ReportKinds BY DEF OpenKind, ReportKinds
    <3>3. Msg(OpenKind(apn), NoHandle, "SUPL") \in Messages /\ cmdQ' = cmdQ
      BY <2>2, <2>9, <3>2 DEF dataConnOpen, Types
    <3> QED BY <3>1, <3>3, SendType
  <2>10. CASE dataConnFailed \/ dataConnClosed
    <3>1. \/ sendMsg("failed", NoHandle, "SUPL")
          \/ sendMsg("closed", NoHandle, "SUPL")
      BY <2>10 DEF dataConnFailed, dataConnClosed
    <3>2. cmdQ' = cmdQ BY <2>10 DEF dataConnFailed, dataConnClosed
    <3> QED BY <2>2, <3>1, <3>2, SendType DEF ReportKinds, Types
  <2> QED BY <2>1, <2>3, <2>4, <2>5, <2>6, <2>7, <2>8, <2>9, <2>10 DEF ClientStep, Types
<1> QED BY <1>1, <1>2, <1>3

LEMMA RejectedKeeps ==
    ASSUME SmInv, OpenRejected
    PROVE  SmInv'
BY ReportKeeps DEF OpenRejected, SmInv, SmType, Nifs

LEMMA StutterKeeps ==
    ASSUME IInv, UNCHANGED vars
    PROVE  IInv'
<1> USE DEF vars, smVars, envVars
<1>1. SmInv' BY OthersKeep DEF IInv, SmInv, SmType
<1>2. EnvType' BY DEF IInv, EnvType
<1> QED BY <1>1, <1>2 DEF IInv

LEMMA EnvTypeKeeps ==
    ASSUME IInv, Next
    PROVE  EnvType'
<1> USE DEF IInv, SmInv, SmType, EnvType, envVars, smVars
<1>1. CASE AdapterStep
  <2>1. CASE ProcInit
    <3>1. msgQ # <<>> BY <2>1 DEF ProcInit, Received
    <3> QED BY <2>1, <3>1, HeadType DEF ProcInit
  <2>2. CASE ProcOpenSuccess BY <2>2 DEF ProcOpenSuccess
  <2>3. CASE requestATL \/ releaseATL \/ ProcAtlPdn \/ ProcOpenFailed \/ ProcClosed
    BY <2>3 DEF requestATL, releaseATL, ProcAtlPdn, ProcOpenFailed, ProcClosed
  <2> QED BY <1>1, <2>1, <2>2, <2>3 DEF AdapterStep
<1>2. ASSUME NEW h \in Handles, NEW t \in Types, ModemRequest(h, t) \/ ModemRelease(h)
      PROVE  EnvType'
  BY <1>2 DEF ModemRequest, ModemRelease
<1>3. ASSUME NEW n \in Nifs, reportPdnTypeFromWds(n) PROVE EnvType'
  BY <1>3 DEF reportPdnTypeFromWds
<1>4. CASE NotifyNetworkInfo \/ AGnssCreate \/ setCallback \/ agnssServiceDied
  BY <1>4 DEF NotifyNetworkInfo, AGnssCreate, setCallback, agnssServiceDied
<1>5. CASE ClientStep \/ OpenRejected \/ dataConnClosed
  BY <1>5 DEF ClientStep, ClientTakeRequest, dataConnOpen, dataConnFailed, ClientTakeRelease,
    OpenRejected, dataConnClosed
<1> QED BY <1>1, <1>2, <1>3, <1>4, <1>5 DEF Next, Types

LEMMA NextIInv == IInv /\ [Next]_vars => IInv'
<1> SUFFICES ASSUME IInv, [Next]_vars PROVE IInv'
  OBVIOUS
<1>1. CASE Next
  <2>1. SmInv' BY <1>1, AdapterKeeps, OthersStepKeeps, RejectedKeeps DEF Next, IInv
  <2> QED BY <1>1, <2>1, EnvTypeKeeps DEF IInv
<1>2. CASE UNCHANGED vars BY <1>2, StutterKeeps
<1> QED BY <1>1, <1>2

-----------------------------------------------------------------------------
(* The results.                                                            *)

(* The invariant holds in every reachable state.                           *)
THEOREM Inductive == Spec => []IInv
BY InitIInv, NextIInv, PTL DEF Spec

(* Type correctness of the whole system, whatever client and modem do.     *)
THEOREM TypeCorrect == Spec => []TypeOK
<1>1. IInv => TypeOK BY DEF IInv, SmInv, SmType, EnvType, TypeOK
<1> QED BY <1>1, Inductive, PTL

(* The claim of the comment in processAgpsEventReleased, a RELEASED state  *)
(* machine has no subscribers, and that nobody is forgotten: a busy nif    *)
(* has an active subscriber, a releasing one an inactive one to tell.      *)
THEOREM ListsFitStates == Spec => []ListFitsState
<1>1. IInv => ListFitsState BY DEF IInv, SmInv, ListFitsState
<1> QED BY <1>1, Inductive, PTL

-----------------------------------------------------------------------------
(* When a connection is given back.                                        *)

(* An event moves its nif only, and to RELEASING only on an unsubscription *)
(* that leaves nobody active.                                              *)
LEMMA ReportNeverReleases ==
    ASSUME IInv, NEW k \in Nifs, NEW q, NEW n \in Nifs,
           reportAtlOpenSuccess(k, q) \/ reportAtlOpenFailed(k, q) \/ reportAtlClosed(k, q),
           mState[n] # "RELEASING"
    PROVE  mState'[n] # "RELEASING"
<1>1. \/ processAgpsEventGranted(k, q) \/ Ignore(q)
      \/ FinishReleasing(k, q) \/ DropAll(k, q)
  BY DEF reportAtlOpenSuccess, reportAtlOpenFailed, reportAtlClosed, processAgpsEventReleased,
    processAgpsEventDenied
<1>2. \/ mState' = mState
      \/ \E st \in {"ACQUIRED", "PENDING", "RELEASED"} :
            mState' = [mState EXCEPT ![k] = st]
  BY <1>1 DEF processAgpsEventGranted, Ignore, FinishReleasing, DropAll
<1> QED BY <1>2 DEF IInv, SmInv, SmType

LEMMA UnsubscribeReleasesIdle ==
    ASSUME IInv, NEW k \in Nifs, NEW h \in mSubscriberList[k], NEW q, NEW n \in Nifs,
           processAgpsEventUnsubscribe(k, h, q),
           mState[n] # "RELEASING", mState'[n] = "RELEASING"
    PROVE  Active(n)' = {}
<1> USE DEF IInv, SmInv, SmType
<1>1. /\ mState' # mState
      /\ mState[k] # "RELEASED"
  BY DEF ReleasedIsEmpty
<1>2. /\ mState' = [mState EXCEPT ![k] = "RELEASING"]
      /\ mSubscriberList[k] \subseteq mIsInactive[k] \cup {h}
      /\ mSubscriberList' = mSubscriberList
      /\ mIsInactive' = [mIsInactive EXCEPT ![k] = @ \cup {h}]
  BY <1>1 DEF processAgpsEventUnsubscribe
<1>3. n = k BY <1>2
<1> QED BY <1>2, <1>3 DEF Active

LEMMA ReleaseStep ==
    ASSUME IInv, [Next]_vars, NEW n \in Nifs,
           mState[n] # "RELEASING", mState'[n] = "RELEASING"
    PROVE  Active(n)' = {}
<1>1. CASE AdapterStep
  <2>1. msgQ \in Seq(Messages) /\ msgQ # <<>>
    BY <1>1 DEF IInv, SmInv, SmType, AdapterStep, Received, ProcInit, requestATL, releaseATL,
      ProcOpenSuccess, ProcAtlPdn, ProcOpenFailed, ProcClosed
  <2>2. getAgpsStateMachine(Head(msgQ).t) \in Nifs BY <2>1, HeadType
  <2>3. CASE requestATL
    <3>1. \/ mState' = mState
          \/ \E k \in Nifs : mState' = [mState EXCEPT ![k] = "PENDING"]
      BY <2>1, <2>3, HeadType DEF requestATL, processAgpsEventSubscribe
    <3> QED BY <3>1 DEF IInv, SmInv, SmType
  <2>4. CASE releaseATL
    <3>1. \/ \E k \in Nifs : /\ Head(msgQ).h \in mSubscriberList[k]
                             /\ processAgpsEventUnsubscribe(k, Head(msgQ).h, Tail(msgQ))
          \/ mState' = mState
      BY <2>4 DEF releaseATL, Nifs, Ignore
    <3> QED BY <3>1, UnsubscribeReleasesIdle
  <2>5. CASE ProcInit BY <2>5 DEF ProcInit
  <2>6. CASE ProcOpenSuccess BY <2>2, <2>6, ReportNeverReleases DEF ProcOpenSuccess, Ignore
  <2>7. CASE ProcAtlPdn \/ ProcOpenFailed \/ ProcClosed
    BY <2>2, <2>7, ReportNeverReleases DEF ProcAtlPdn, ProcOpenFailed, ProcClosed
  <2> QED BY <1>1, <2>3, <2>4, <2>5, <2>6, <2>7 DEF AdapterStep
<1>2. CASE OpenRejected BY <1>2, ReportNeverReleases DEF OpenRejected, Nifs
<1>3. CASE UNCHANGED mState BY <1>3
<1>4. AdapterStep \/ OpenRejected \/ UNCHANGED mState
  BY DEF Next, ModemRequest, ModemRelease, reportPdnTypeFromWds, NotifyNetworkInfo, AGnssCreate,
    setCallback, agnssServiceDied, ClientStep, ClientTakeRequest, dataConnOpen, dataConnFailed,
    ClientTakeRelease, dataConnClosed, smVars, vars
<1> QED BY <1>1, <1>2, <1>3, <1>4

(* processAgpsEventUnsubscribe gives the connection back only when no      *)
(* active subscriber is left.                                              *)
THEOREM ReleasesOnlyWhenIdle == Spec => ReleaseOnlyIdle
<1>1. IInv /\ [Next]_vars =>
        [\A n \in Nifs : mState[n] # "RELEASING" /\ mState'[n] = "RELEASING"
                         => Active(n)' = {}]_vars
  BY ReleaseStep
<1> QED BY <1>1, Inductive, PTL DEF Spec, ReleaseOnlyIdle

-----------------------------------------------------------------------------
(* Emergency requests where the emergency PDN is not to be used.           *)

PlainTypes ==
    ~UseEmergencyPdn =>
        /\ \A n \in Nifs : mAgpsType[n] # "SUPL_ES"
        /\ \A i \in 1..Len(cmdQ) : cmdQ[i].t # "SUPL_ES"

LEMMA CommandPlain ==
    ASSUME cmdQ \in Seq(Commands), PlainTypes, NEW n, NEW t \in Types, NEW c, NEW q,
           c \in {"REQUEST", "RELEASE"},
           ~UseEmergencyPdn => t # "SUPL_ES",
           requestOrReleaseDataConn(n, t, c, q)
    PROVE  ~UseEmergencyPdn => \A i \in 1..Len(cmdQ') : cmdQ'[i].t # "SUPL_ES"
<1>1. CASE cmdQ' = cmdQ BY <1>1 DEF PlainTypes
<1>2. CASE cmdQ' = Append(cmdQ, [c |-> c, t |-> t])
  <2>1. [c |-> c, t |-> t] \in Commands BY DEF Commands
  <2>2. /\ Len(cmdQ') = Len(cmdQ) + 1
        /\ \A i \in 1..Len(cmdQ) : cmdQ'[i] = cmdQ[i]
        /\ cmdQ'[Len(cmdQ) + 1] = [c |-> c, t |-> t]
    BY <1>2, <2>1
  <2>3. Len(cmdQ) \in Nat  OBVIOUS
  <2>4. \A i \in 1..Len(cmdQ') : i \in 1..Len(cmdQ) \/ i = Len(cmdQ) + 1 BY <2>2, <2>3
  <2> QED BY <2>2, <2>4 DEF PlainTypes
<1> QED BY <1>1, <1>2 DEF requestOrReleaseDataConn

LEMMA PlainStep ==
    ASSUME IInv, PlainTypes, [Next]_vars
    PROVE  PlainTypes'
<1> USE DEF IInv, SmInv, SmType
<1> DEFINE Cmds == ~UseEmergencyPdn => \A i \in 1..Len(cmdQ') : cmdQ'[i].t # "SUPL_ES"
           Nif  == ~UseEmergencyPdn => \A n \in Nifs : mAgpsType'[n] # "SUPL_ES"
<1> SUFFICES Cmds /\ Nif BY DEF PlainTypes
<1>1. ASSUME UNCHANGED <<cmdQ, mAgpsType>> PROVE Cmds /\ Nif BY <1>1 DEF PlainTypes
<1>2. ASSUME NEW n \in Nifs, NEW q, processAgpsEventUnsubscribe(n, Head(msgQ).h, q)
      PROVE  Cmds /\ Nif
  <2>1. mAgpsType' = mAgpsType BY <1>2 DEF processAgpsEventUnsubscribe
  <2>2. cmdQ' = cmdQ \/ requestOrReleaseDataConn(n, mAgpsType[n], "RELEASE", q)
    BY <1>2 DEF processAgpsEventUnsubscribe, NoDataConnCommand
  <2> QED BY <2>1, <2>2, CommandPlain DEF PlainTypes
<1>3. ASSUME NEW n \in Nifs, NEW q,
             reportAtlOpenSuccess(n, q) \/ reportAtlOpenFailed(n, q) \/ reportAtlClosed(n, q)
      PROVE  Cmds /\ Nif
  <2>1. \/ processAgpsEventGranted(n, q) \/ Ignore(q)
        \/ FinishReleasing(n, q) \/ DropAll(n, q)
    BY <1>3 DEF reportAtlOpenSuccess, reportAtlOpenFailed, reportAtlClosed,
      processAgpsEventReleased, processAgpsEventDenied
  <2>2. mAgpsType' = mAgpsType
    BY <2>1 DEF processAgpsEventGranted, Ignore, FinishReleasing, DropAll
  <2>3. cmdQ' = cmdQ \/ requestOrReleaseDataConn(n, mAgpsType[n], "REQUEST", q)
    BY <2>1 DEF processAgpsEventGranted, Ignore, FinishReleasing, DropAll, NoDataConnCommand
  <2> QED BY <2>2, <2>3, CommandPlain DEF PlainTypes
<1>4. CASE requestATL
  <2> DEFINE t == EffectiveType(Head(msgQ).t)
             n == getAgpsStateMachine(t)
  <2>1. t \in Types /\ n \in Nifs /\ (~UseEmergencyPdn => t # "SUPL_ES")
    BY <1>4, HeadType DEF requestATL, Received, EffectiveType
  <2>2. \/ UNCHANGED <<cmdQ, mAgpsType>>
        \/ processAgpsEventSubscribe(n, Head(msgQ).h, t, Tail(msgQ))
    BY <1>4 DEF requestATL, NoDataConnCommand
  <2>3. ASSUME processAgpsEventSubscribe(n, Head(msgQ).h, t, Tail(msgQ))
        PROVE  Cmds /\ Nif
    <3>1. mAgpsType' = [mAgpsType EXCEPT ![n] = t] BY <2>3 DEF processAgpsEventSubscribe
    <3>2. cmdQ' = cmdQ \/ requestOrReleaseDataConn(n, t, "REQUEST", Tail(msgQ))
      BY <2>3 DEF processAgpsEventSubscribe, NoDataConnCommand
    <3>3. Cmds BY <2>1, <3>2, CommandPlain DEF PlainTypes
    <3> QED BY <2>1, <3>1, <3>3 DEF PlainTypes
  <2> QED BY <1>1, <2>2, <2>3
<1>5. CASE releaseATL BY <1>1, <1>2, <1>5 DEF releaseATL, Nifs, Ignore, NoDataConnCommand
<1>6. CASE ProcOpenSuccess \/ ProcAtlPdn \/ ProcOpenFailed \/ ProcClosed
  <2>1. getAgpsStateMachine(Head(msgQ).t) \in Nifs
    BY <1>6, HeadType DEF ProcOpenSuccess, ProcAtlPdn, ProcOpenFailed, ProcClosed, Received
  <2> QED BY <1>1, <1>3, <1>6, <2>1 DEF ProcOpenSuccess, ProcAtlPdn, ProcOpenFailed, ProcClosed,
      Ignore, NoDataConnCommand
<1>7. CASE OpenRejected BY <1>3, <1>7 DEF OpenRejected, Nifs
<1>8. CASE /\ mAgpsType' = mAgpsType
           /\ cmdQ # <<>> /\ cmdQ' = Tail(cmdQ)
  <2>1. Len(cmdQ') = Len(cmdQ) - 1 /\ Len(cmdQ) \in Nat \ {0}
        /\ \A i \in 1..(Len(cmdQ) - 1) : cmdQ'[i] = cmdQ[i + 1]
    BY <1>8
  <2> QED BY <1>8, <2>1 DEF PlainTypes
<1>9. CASE mAgpsType' = mAgpsType /\ cmdQ' = <<>> BY <1>9 DEF PlainTypes
<1>10. \/ requestATL \/ releaseATL \/ OpenRejected
       \/ ProcOpenSuccess \/ ProcAtlPdn \/ ProcOpenFailed \/ ProcClosed
       \/ UNCHANGED <<cmdQ, mAgpsType>>
       \/ mAgpsType' = mAgpsType /\ cmdQ # <<>> /\ cmdQ' = Tail(cmdQ)
       \/ mAgpsType' = mAgpsType /\ cmdQ' = <<>>
  BY DEF Next, AdapterStep, ProcInit, ModemRequest, ModemRelease, reportPdnTypeFromWds,
    NotifyNetworkInfo, AGnssCreate, setCallback, agnssServiceDied, ClientStep,
    ClientTakeRequest, dataConnOpen, dataConnFailed, ClientTakeRelease, dataConnClosed, smVars,
    vars
<1> QED BY <1>1, <1>4, <1>5, <1>6, <1>7, <1>8, <1>9, <1>10

(* With USE_EMERGENCY_PDN_FOR_EMERGENCY_SUPL off, requestATL's rewriting   *)
(* keeps the emergency type out of every command to the framework.         *)
THEOREM EmergencyPdnNeverOrdered == Spec => []NoEmergencyPdn
<1>1. Init => PlainTypes BY DEF Init, PlainTypes, Nifs
<1>2. IInv /\ PlainTypes /\ [Next]_vars => PlainTypes' BY PlainStep
<1>3. PlainTypes => NoEmergencyPdn BY DEF PlainTypes, NoEmergencyPdn
<1> QED BY <1>1, <1>2, <1>3, Inductive, PTL DEF Spec
-----------------------------------------------------------------------------
(* The modem's handles.  ModemServed is not inductive: it looks only at    *)
(* the last message about a handle, and what the earlier ones do decides   *)
(* whether the last still finds the handle where it expects it.  HandlesFit*)
(* adds the whole history that is queued: a handle goes from closed to a   *)
(* queued request, to a list, to a queued release, to the inactive ones    *)
(* and back, and may be released while its request is still queued.        *)

(* What a queue q says of a handle h: nothing, only releases, exactly one  *)
(* release; a request, after releases of earlier uses of the handle; such  *)
(* a request and the release that follows it.                              *)
Quiet(q, h) == \A i \in 1..Len(q) : q[i].h # h
OnlyReleases(q, h) == \A i \in 1..Len(q) : q[i].h = h => q[i].m = "release"
OneRelease(q, h) ==
    \E k \in 1..Len(q) :
        /\ q[k].h = h /\ q[k].m = "release"
        /\ \A i \in 1..Len(q) : q[i].h = h => i = k
RequestLast(q, h) ==
    \E k \in 1..Len(q) :
        /\ q[k].h = h /\ q[k].m = "request"
        /\ \A i \in 1..Len(q) : q[i].h = h => i = k \/ (i < k /\ q[i].m = "release")
RequestThenRelease(q, h) ==
    \E j, k \in 1..Len(q) :
        /\ j < k
        /\ q[j].h = h /\ q[j].m = "request"
        /\ q[k].h = h /\ q[k].m = "release"
        /\ \A i \in 1..Len(q) :
              q[i].h = h => i \in {j, k} \/ (i < j /\ q[i].m = "release")

(* Where a handle stands in the lists.                                     *)
Unlisted(h) == \A n \in Nifs : h \notin mSubscriberList[n]
Waiting(h) == \E n \in Nifs : h \in Active(n) /\ mState[n] \in {"PENDING", "RELEASING"}
Served(h) == \E n \in Nifs : h \in Active(n) /\ mState[n] = "ACQUIRED"
Listed(h) == \E n \in Nifs : h \in Active(n)
Inactive(h) == \E n \in Nifs : h \in mIsInactive[n]

(* The life of a handle: what the modem believes, what the lists hold and  *)
(* what is still queued fit together.                                      *)
HandleFits(q, h) ==
    \/ atl[h] = "closed" /\ Unlisted(h) /\ OnlyReleases(q, h)
    \/ atl[h] = "opening" /\ Unlisted(h) /\ RequestLast(q, h)
    \/ atl[h] = "opening" /\ Waiting(h) /\ Quiet(q, h)
    \/ atl[h] = "open" /\ Served(h) /\ Quiet(q, h)
    \/ atl[h] = "closing" /\ Unlisted(h) /\ RequestThenRelease(q, h)
    \/ atl[h] = "closing" /\ Listed(h) /\ OneRelease(q, h)
    \/ atl[h] = "closing" /\ Inactive(h) /\ Quiet(q, h)

HandlesFit == \A h \in Handles : HandleFits(msgQ, h)

(* The queue r says of h at least what q says.                             *)
SaysAsMuch(q, r, h) ==
    /\ Quiet(q, h) => Quiet(r, h)
    /\ OnlyReleases(q, h) => OnlyReleases(r, h)
    /\ OneRelease(q, h) => OneRelease(r, h)
    /\ RequestLast(q, h) => RequestLast(r, h)
    /\ RequestThenRelease(q, h) => RequestThenRelease(r, h)

(* A message about somebody else, queued behind, changes none of it.       *)
LEMMA AppendOther ==
    ASSUME NEW q \in Seq(Messages), NEW m \in Messages, NEW h, m.h # h
    PROVE  /\ Quiet(q, h) => Quiet(Append(q, m), h)
           /\ OnlyReleases(q, h) => OnlyReleases(Append(q, m), h)
           /\ OneRelease(q, h) => OneRelease(Append(q, m), h)
           /\ RequestLast(q, h) => RequestLast(Append(q, m), h)
           /\ RequestThenRelease(q, h) => RequestThenRelease(Append(q, m), h)
<1> DEFINE r == Append(q, m)
<1>1. /\ Len(q) \in Nat /\ Len(r) = Len(q) + 1
      /\ r[Len(q) + 1] = m
      /\ \A i \in 1..Len(q) : r[i] = q[i]
  OBVIOUS
<1> HIDE DEF r
<1>2. \A i \in 1..Len(q) : i \in 1..Len(r) /\ r[i] = q[i] BY <1>1
<1>3. \A i \in 1..Len(r) : r[i].h = h => i \in 1..Len(q) /\ r[i] = q[i]
  <2>1. \A i \in 1..Len(r) : i \in 1..Len(q) \/ i = Len(q) + 1 BY <1>1
  <2> QED BY <1>1, <2>1
<1>4. Quiet(q, h) => Quiet(r, h) BY <1>3 DEF Quiet
<1>5. OnlyReleases(q, h) => OnlyReleases(r, h) BY <1>3 DEF OnlyReleases
<1>6. OneRelease(q, h) => OneRelease(r, h) BY <1>2, <1>3 DEF OneRelease
<1>7. RequestLast(q, h) => RequestLast(r, h) BY <1>2, <1>3 DEF RequestLast
<1>8. RequestThenRelease(q, h) => RequestThenRelease(r, h)
  <2> SUFFICES ASSUME NEW j \in 1..Len(q), NEW k \in 1..Len(q), j < k,
                      q[j].h = h, q[j].m = "request", q[k].h = h, q[k].m = "release",
                      \A i \in 1..Len(q) :
                          q[i].h = h => i \in {j, k} \/ (i < j /\ q[i].m = "release")
               PROVE  RequestThenRelease(r, h)
    BY DEF RequestThenRelease
  <2>1. /\ j \in 1..Len(r) /\ r[j] = q[j]
        /\ k \in 1..Len(r) /\ r[k] = q[k]
    BY <1>2
  <2>2. \A i \in 1..Len(r) : r[i].h = h => i \in {j, k} \/ (i < j /\ r[i].m = "release")
    BY <1>3
  <2> QED BY <2>1, <2>2 DEF RequestThenRelease
<1> QED BY <1>4, <1>5, <1>6, <1>7, <1>8 DEF r

(* What the modem's own messages add to what is queued about a handle.     *)
LEMMA AppendRequest ==
    ASSUME NEW q \in Seq(Messages), NEW m \in Messages, m.m = "request",
           OnlyReleases(q, m.h)
    PROVE  RequestLast(Append(q, m), m.h)
<1> DEFINE r == Append(q, m)
<1>1. /\ Len(q) \in Nat /\ Len(r) = Len(q) + 1
      /\ r[Len(q) + 1] = m
      /\ \A i \in 1..Len(q) : r[i] = q[i]
  OBVIOUS
<1> HIDE DEF r
<1>2. Len(r) \in 1..Len(r) /\ r[Len(r)] = m BY <1>1
<1>3. \A i \in 1..Len(r) : i = Len(r) \/ (i < Len(r) /\ i \in 1..Len(q) /\ r[i] = q[i]) BY <1>1
<1>4. \A i \in 1..Len(r) : r[i].h = m.h => i = Len(r) \/ (i < Len(r) /\ r[i].m = "release")
  BY <1>3 DEF OnlyReleases
<1>5. RequestLast(r, m.h) BY <1>2, <1>4 DEF RequestLast
<1> QED BY <1>5 DEF r

LEMMA AppendRelease ==
    ASSUME NEW q \in Seq(Messages), NEW m \in Messages, m.m = "release"
    PROVE  /\ Quiet(q, m.h) => OneRelease(Append(q, m), m.h)
           /\ RequestLast(q, m.h) => RequestThenRelease(Append(q, m), m.h)
<1> DEFINE r == Append(q, m)
<1>1. /\ Len(q) \in Nat /\ Len(r) = Len(q) + 1
      /\ r[Len(q) + 1] = m
      /\ \A i \in 1..Len(q) : r[i] = q[i]
  OBVIOUS
<1> HIDE DEF r
<1>2. Len(r) \in 1..Len(r) /\ r[Len(r)] = m BY <1>1
<1>3. \A i \in 1..Len(r) : i = Len(r) \/ (i \in 1..Len(q) /\ r[i] = q[i]) BY <1>1
<1>4. \A i \in 1..Len(q) : i \in 1..Len(r) /\ r[i] = q[i] /\ i < Len(r) BY <1>1
<1>5. Quiet(q, m.h) => OneRelease(r, m.h) BY <1>2, <1>3 DEF Quiet, OneRelease
<1>6. ASSUME NEW j \in 1..Len(q), q[j].h = m.h, q[j].m = "request",
             \A i \in 1..Len(q) : q[i].h = m.h => i = j \/ (i < j /\ q[i].m = "release")
      PROVE  RequestThenRelease(r, m.h)
  <2>1. j \in 1..Len(r) /\ r[j] = q[j] /\ j < Len(r) BY <1>4
  <2>2. \A i \in 1..Len(r) :
            r[i].h = m.h => i \in {j, Len(r)} \/ (i < j /\ r[i].m = "release")
    BY <1>3, <1>6
  <2> QED BY <1>2, <1>6, <2>1, <2>2 DEF RequestThenRelease
<1> QED BY <1>5, <1>6 DEF RequestLast, r

(* What is left when the adapter has taken the first message.              *)
LEMMA TailIndex ==
    ASSUME NEW q \in Seq(Messages), q # <<>>
    PROVE  /\ Len(q) \in Nat \ {0} /\ Len(Tail(q)) = Len(q) - 1
           /\ 1 \in 1..Len(q) /\ Head(q) = q[1]
           /\ \A i \in 1..Len(Tail(q)) : i + 1 \in 1..Len(q) /\ Tail(q)[i] = q[i + 1]
           /\ \A i \in 1..Len(q) :
                 i = 1 \/ (i - 1 \in 1..Len(Tail(q)) /\ Tail(q)[i - 1] = q[i])
<1>1. Len(q) \in Nat \ {0} /\ Len(Tail(q)) = Len(q) - 1 /\ Head(q) = q[1]  OBVIOUS
<1>2. \A i \in 1..(Len(q) - 1) : Tail(q)[i] = q[i + 1]  OBVIOUS
<1>3. ASSUME NEW i \in 1..Len(q), i # 1
      PROVE  i - 1 \in 1..(Len(q) - 1) /\ (i - 1) + 1 = i
  BY <1>1, <1>3
<1> QED BY <1>1, <1>2, <1>3

LEMMA TailOther ==
    ASSUME NEW q \in Seq(Messages), q # <<>>, NEW h, Head(q).h # h
    PROVE  /\ Quiet(q, h) => Quiet(Tail(q), h)
           /\ OnlyReleases(q, h) => OnlyReleases(Tail(q), h)
           /\ OneRelease(q, h) => OneRelease(Tail(q), h)
           /\ RequestLast(q, h) => RequestLast(Tail(q), h)
           /\ RequestThenRelease(q, h) => RequestThenRelease(Tail(q), h)
<1> DEFINE r == Tail(q)
<1>1. /\ \A i \in 1..Len(r) : i \in Nat /\ i + 1 \in 1..Len(q) /\ r[i] = q[i + 1]
      /\ \A i \in 1..Len(q) : i \in Nat
      /\ \A i \in 1..Len(q) : q[i].h = h => i - 1 \in 1..Len(r) /\ r[i - 1] = q[i]
  BY TailIndex
<1> HIDE DEF r
<1>2. Quiet(q, h) => Quiet(r, h) BY <1>1 DEF Quiet
<1>3. OnlyReleases(q, h) => OnlyReleases(r, h) BY <1>1 DEF OnlyReleases
<1>4. ASSUME NEW k \in 1..Len(q), q[k].h = h, q[k].m = "release",
             \A i \in 1..Len(q) : q[i].h = h => i = k
      PROVE  OneRelease(r, h)
  <2>1. k - 1 \in 1..Len(r) /\ r[k - 1] = q[k] BY <1>1, <1>4
  <2>2. \A i \in 1..Len(r) : r[i].h = h => i = k - 1 BY <1>1, <1>4
  <2> QED BY <1>4, <2>1, <2>2 DEF OneRelease
<1>5. ASSUME NEW k \in 1..Len(q), q[k].h = h, q[k].m = "request",
             \A i \in 1..Len(q) : q[i].h = h => i = k \/ (i < k /\ q[i].m = "release")
      PROVE  RequestLast(r, h)
  <2>1. k - 1 \in 1..Len(r) /\ r[k - 1] = q[k] BY <1>1, <1>5
  <2>2. \A i \in 1..Len(r) : r[i].h = h => i = k - 1 \/ (i < k - 1 /\ r[i].m = "release")
    BY <1>1, <1>5
  <2> QED BY <1>5, <2>1, <2>2 DEF RequestLast
<1>6. ASSUME NEW j \in 1..Len(q), NEW k \in 1..Len(q), j < k,
             q[j].h = h, q[j].m = "request", q[k].h = h, q[k].m = "release",
             \A i \in 1..Len(q) :
                 q[i].h = h => i \in {j, k} \/ (i < j /\ q[i].m = "release")
      PROVE  RequestThenRelease(r, h)
  <2>1. /\ j - 1 \in 1..Len(r) /\ r[j - 1] = q[j]
        /\ k - 1 \in 1..Len(r) /\ r[k - 1] = q[k]
        /\ j - 1 < k - 1
    BY <1>1, <1>6
  <2>2. ASSUME NEW i \in 1..Len(r), r[i].h = h
        PROVE  i \in {j - 1, k - 1} \/ (i < j - 1 /\ r[i].m = "release")
    <3>1. i + 1 \in 1..Len(q) /\ r[i] = q[i + 1] BY <1>1
    <3>2. i + 1 \in {j, k} \/ (i + 1 < j /\ r[i].m = "release") BY <1>6, <2>2, <3>1
    <3> QED BY <1>1, <3>2
  <2> QED BY <1>6, <2>1, <2>2 DEF RequestThenRelease
<1>7. (OneRelease(q, h) => OneRelease(r, h)) /\ (RequestLast(q, h) => RequestLast(r, h))
  BY <1>4, <1>5 DEF OneRelease, RequestLast
<1>8. RequestThenRelease(q, h) => RequestThenRelease(r, h) BY <1>6 DEF RequestThenRelease
<1> QED BY <1>2, <1>3, <1>7, <1>8 DEF r

LEMMA TailOwn ==
    ASSUME NEW q \in Seq(Messages), q # <<>>, NEW h, Head(q).h = h
    PROVE  /\ ~Quiet(q, h)
           /\ OnlyReleases(q, h) => /\ Head(q).m = "release"
                                    /\ OnlyReleases(Tail(q), h)
           /\ OneRelease(q, h) => Head(q).m = "release" /\ Quiet(Tail(q), h)
           /\ RequestLast(q, h) =>
                 \/ Head(q).m = "request" /\ Quiet(Tail(q), h)
                 \/ Head(q).m = "release" /\ RequestLast(Tail(q), h)
           /\ RequestThenRelease(q, h) =>
                 \/ Head(q).m = "request" /\ OneRelease(Tail(q), h)
                 \/ Head(q).m = "release" /\ RequestThenRelease(Tail(q), h)
<1> DEFINE r == Tail(q)
<1>1. /\ 1 \in 1..Len(q) /\ q[1] = Head(q)
      /\ \A i \in 1..Len(r) : i \in Nat \ {0} /\ i + 1 \in 1..Len(q) /\ r[i] = q[i + 1]
      /\ \A i \in 1..Len(q) : i \in Nat \ {0}
      /\ \A i \in 1..Len(q) : i # 1 => i - 1 \in 1..Len(r) /\ r[i - 1] = q[i]
  BY TailIndex
<1> HIDE DEF r
<1>2. ~Quiet(q, h) BY <1>1 DEF Quiet
<1>3. OnlyReleases(q, h) => Head(q).m = "release" /\ OnlyReleases(r, h)
  BY <1>1 DEF OnlyReleases
<1>4. ASSUME NEW k \in 1..Len(q), q[k].h = h, q[k].m = "release",
             \A i \in 1..Len(q) : q[i].h = h => i = k
      PROVE  Head(q).m = "release" /\ Quiet(r, h)
  <2>1. k = 1 BY <1>1, <1>4
  <2>2. \A i \in 1..Len(r) : i + 1 # 1 BY <1>1
  <2> QED BY <1>1, <1>4, <2>1, <2>2 DEF Quiet
<1>5. ASSUME NEW k \in 1..Len(q), q[k].h = h, q[k].m = "request",
             \A i \in 1..Len(q) : q[i].h = h => i = k \/ (i < k /\ q[i].m = "release")
      PROVE  \/ Head(q).m = "request" /\ Quiet(r, h)
             \/ Head(q).m = "release" /\ RequestLast(r, h)
  <2>1. CASE k = 1
    <3>1. \A i \in 1..Len(r) : i + 1 # 1 /\ ~(i + 1 < 1) BY <1>1
    <3> QED BY <1>1, <1>5, <2>1, <3>1 DEF Quiet
  <2>2. CASE k # 1
    <3>1. Head(q).m = "release" BY <1>1, <1>5, <2>2
    <3>2. k - 1 \in 1..Len(r) /\ r[k - 1] = q[k] BY <1>1, <2>2
    <3>3. ASSUME NEW i \in 1..Len(r), r[i].h = h
          PROVE  i = k - 1 \/ (i < k - 1 /\ r[i].m = "release")
      <4>1. i + 1 \in 1..Len(q) /\ r[i] = q[i + 1] BY <1>1
      <4>2. i + 1 = k \/ (i + 1 < k /\ r[i].m = "release") BY <1>5, <3>3, <4>1
      <4> QED BY <1>1, <4>2
    <3> QED BY <1>5, <3>1, <3>2, <3>3 DEF RequestLast
  <2> QED BY <2>1, <2>2
<1>6. ASSUME NEW j \in 1..Len(q), NEW k \in 1..Len(q), j < k,
             q[j].h = h, q[j].m = "request", q[k].h = h, q[k].m = "release",
             \A i \in 1..Len(q) :
                 q[i].h = h => i \in {j, k} \/ (i < j /\ q[i].m = "release")
      PROVE  \/ Head(q).m = "request" /\ OneRelease(r, h)
             \/ Head(q).m = "release" /\ RequestThenRelease(r, h)
  <2>1. k - 1 \in 1..Len(r) /\ r[k - 1] = q[k] BY <1>1, <1>6
  <2>2. CASE j = 1
    <3>1. \A i \in 1..Len(r) : r[i].h = h => i = k - 1
      <4>1. \A i \in 1..Len(r) : i + 1 # 1 /\ ~(i + 1 < 1) /\ (i + 1 = k => i = k - 1) BY <1>1
      <4>2. \A i \in 1..Len(r) : i + 1 \in 1..Len(q) /\ r[i] = q[i + 1] BY <1>1
      <4> QED BY <1>6, <2>2, <4>1, <4>2
    <3>2. OneRelease(r, h) BY <1>6, <2>1, <3>1 DEF OneRelease
    <3>3. Head(q).m = "request" BY <1>1, <1>6, <2>2
    <3> QED BY <3>2, <3>3
  <2>3. CASE j # 1
    <3>1. Head(q).m = "release"
      <4>1. ~(1 \in {j, k}) BY <1>1, <1>6, <2>3
      <4> QED BY <1>1, <1>6, <4>1
    <3>2. j - 1 \in 1..Len(r) /\ r[j - 1] = q[j] /\ j - 1 < k - 1 BY <1>1, <1>6, <2>3
    <3>3. ASSUME NEW i \in 1..Len(r), r[i].h = h
          PROVE  i \in {j - 1, k - 1} \/ (i < j - 1 /\ r[i].m = "release")
      <4>1. i + 1 \in 1..Len(q) /\ r[i] = q[i + 1] BY <1>1
      <4>2. i + 1 \in {j, k} \/ (i + 1 < j /\ r[i].m = "release") BY <1>6, <3>3, <4>1
      <4> QED BY <1>1, <4>2
    <3> QED BY <1>6, <2>1, <3>1, <3>2, <3>3 DEF RequestThenRelease
  <2> QED BY <2>2, <2>3
<1>7. OneRelease(q, h) => Head(q).m = "release" /\ Quiet(r, h) BY <1>4 DEF OneRelease
<1>8. RequestLast(q, h) => \/ Head(q).m = "request" /\ Quiet(r, h)
                           \/ Head(q).m = "release" /\ RequestLast(r, h)
  BY <1>5 DEF RequestLast
<1>9. RequestThenRelease(q, h) => \/ Head(q).m = "request" /\ OneRelease(r, h)
                                  \/ Head(q).m = "release" /\ RequestThenRelease(r, h)
  BY <1>6 DEF RequestThenRelease
<1> QED BY <1>2, <1>3, <1>7, <1>8, <1>9 DEF r

LEMMA SaysWeaker ==
    ASSUME NEW q, NEW h
    PROVE  Quiet(q, h) \/ OneRelease(q, h) => OnlyReleases(q, h)
BY DEF Quiet, OneRelease, OnlyReleases

(* What requestOrReleaseDataConn queues is about no handle.                *)
LEMMA CommandSays ==
    ASSUME NEW n \in Nifs, NEW t, NEW c, NEW q \in Seq(Messages), NEW h \in Handles,
           requestOrReleaseDataConn(n, t, c, q) \/ NoDataConnCommand(q)
    PROVE  SaysAsMuch(q, msgQ', h)
<1>1. \A k \in ReportKinds : /\ Msg(k, NoHandle, "WWAN_ANY") \in Messages
                             /\ Msg(k, NoHandle, "WWAN_ANY").h # h
  BY MsgType, ConstantsAssumption DEF Types, Msg
<1>2. msgQ' = q \/ \E apn : msgQ' = NativeAnswer(c, apn, q)
  BY DEF requestOrReleaseDataConn, NoDataConnCommand
<1>3. \A apn : OpenKind(apn) \in ReportKinds BY DEF OpenKind, ReportKinds
<1>4. "closed" \in ReportKinds /\ "failed" \in ReportKinds BY DEF ReportKinds
<1>5. msgQ' = q \/ \E k \in ReportKinds : msgQ' = Append(q, Msg(k, NoHandle, "WWAN_ANY"))
  BY <1>2, <1>3, <1>4 DEF NativeAnswer
<1>6. CASE msgQ' = q BY <1>6 DEF SaysAsMuch
<1>7. ASSUME NEW k \in ReportKinds, msgQ' = Append(q, Msg(k, NoHandle, "WWAN_ANY"))
      PROVE  SaysAsMuch(q, msgQ', h)
  <2>1. SaysAsMuch(q, Append(q, Msg(k, NoHandle, "WWAN_ANY")), h)
    BY <1>1, AppendOther DEF SaysAsMuch
  <2> QED BY <1>7, <2>1
<1> QED BY <1>5, <1>6, <1>7

(* A handle untouched by a step still fits if the queue says as much of it. *)
LEMMA UntouchedFits ==
    ASSUME NEW q, NEW h \in Handles, HandleFits(q, h), SaysAsMuch(q, msgQ', h),
           atl'[h] = atl[h],
           UNCHANGED <<mState, mSubscriberList, mIsInactive>>
    PROVE  HandleFits(msgQ, h)'
BY DEF HandleFits, SaysAsMuch, Unlisted, Waiting, Served, Listed, Inactive, Active

-----------------------------------------------------------------------------
(* Each event, with q what is left of the queue.                           *)

LEMMA IgnoreFits ==
    ASSUME NEW q \in Seq(Messages), NEW h \in Handles, HandleFits(q, h),
           OneNifPerHandle, Ignore(q)
    PROVE  HandleFits(msgQ, h)' /\ OneNifPerHandle'
<1>1. SaysAsMuch(q, msgQ', h) BY CommandSays DEF Ignore, Nifs
<1> QED BY <1>1, UntouchedFits DEF Ignore, OneNifPerHandle

LEMMA GrantedFits ==
    ASSUME SmInv, OneNifPerHandle, NEW n \in Nifs, NEW q \in Seq(Messages),
           NEW h \in Handles, HandleFits(q, h), processAgpsEventGranted(n, q)
    PROVE  HandleFits(msgQ, h)' /\ OneNifPerHandle'
<1> USE DEF SmInv, SmType
<1>1. SaysAsMuch(q, msgQ', h) BY CommandSays DEF processAgpsEventGranted
<1>2. CASE mState[n] # "PENDING"
  <2>1. Ignore(q) BY <1>2 DEF processAgpsEventGranted, Ignore
  <2> QED BY <2>1, IgnoreFits
<1>3. CASE mState[n] = "PENDING"
  <2>1. /\ mState' = [mState EXCEPT ![n] = "ACQUIRED"]
        /\ atl' = AtlOpened(Active(n))
        /\ mSubscriberList' = mSubscriberList
        /\ mIsInactive' = mIsInactive
    BY <1>3 DEF processAgpsEventGranted
  <2>2. \A k \in Nifs : mState'[k] = IF k = n THEN "ACQUIRED" ELSE mState[k] BY <2>1
  <2>3. atl'[h] = IF h \in Active(n) /\ atl[h] = "opening" THEN "open" ELSE atl[h]
    BY <2>1 DEF AtlOpened
  <2>4. CASE h \in Active(n) /\ atl[h] = "opening"
    <3>1. Quiet(q, h) BY <2>4 DEF HandleFits, Unlisted, Active
    <3> QED BY <1>1, <2>1, <2>2, <2>3, <2>4, <3>1 DEF HandleFits, SaysAsMuch, Served, Active,
        OneNifPerHandle
  <2>5. CASE ~(h \in Active(n) /\ atl[h] = "opening")
    <3>1. UNCHANGED <<Unlisted(h), Listed(h), Inactive(h)>>
      BY <2>1 DEF Unlisted, Listed, Inactive, Active
    <3>2. atl[h] = "opening" /\ Waiting(h) => Waiting(h)'
      BY <2>1, <2>2, <2>5 DEF Waiting, Active
    <3>3. Served(h) => Served(h)' BY <2>1, <2>2 DEF Served, Active
    <3> QED BY <1>1, <2>1, <2>3, <2>5, <3>1, <3>2, <3>3 DEF HandleFits, SaysAsMuch,
        OneNifPerHandle
  <2> QED BY <2>4, <2>5
<1> QED BY <1>2, <1>3

(* A forced release or a denial: whoever was in the list is closed.        *)
LEMMA DropAllFits ==
    ASSUME SmInv, OneNifPerHandle, NEW n \in Nifs, NEW q \in Seq(Messages),
           NEW h \in Handles, HandleFits(q, h), DropAll(n, q)
    PROVE  HandleFits(msgQ, h)' /\ OneNifPerHandle'
<1> USE DEF SmInv, SmType
<1>1. SaysAsMuch(q, msgQ', h) BY CommandSays DEF DropAll
<1>2. /\ \A k \in Nifs : mState'[k] = IF k = n THEN "RELEASED" ELSE mState[k]
      /\ \A k \in Nifs :
            /\ mSubscriberList'[k] = IF k = n THEN {} ELSE mSubscriberList[k]
            /\ mIsInactive'[k] = IF k = n THEN {} ELSE mIsInactive[k]
      /\ atl'[h] = IF h \in mSubscriberList[n] THEN "closed" ELSE atl[h]
  BY DEF DropAll, AtlDown
<1>3. OneNifPerHandle' BY <1>2 DEF OneNifPerHandle, Nifs
<1>4. CASE h \in mSubscriberList[n]
  <2>1. Unlisted(h)' BY <1>2, <1>4 DEF Unlisted, OneNifPerHandle, Nifs
  <2>2. Quiet(q, h) \/ OneRelease(q, h) BY <1>4 DEF HandleFits, Unlisted
  <2> QED BY <1>1, <1>2, <1>3, <1>4, <2>1, <2>2, SaysWeaker DEF HandleFits, SaysAsMuch
<1>5. CASE h \notin mSubscriberList[n]
  <2>1. Unlisted(h) => Unlisted(h)' BY <1>2 DEF Unlisted
  <2>2. /\ Waiting(h) => Waiting(h)'
        /\ Served(h) => Served(h)'
        /\ Listed(h) => Listed(h)'
    BY <1>2, <1>5 DEF Waiting, Served, Listed, Active
  <2>3. Inactive(h) => Inactive(h)' BY <1>2, <1>5 DEF Inactive, InactiveListed
  <2> QED BY <1>1, <1>2, <1>3, <1>5, <2>1, <2>2, <2>3 DEF HandleFits, SaysAsMuch
<1> QED BY <1>4, <1>5

(* The end of a release: the inactive handles are closed, the others wait  *)
(* for the connection that is asked for again.                             *)
LEMMA FinishReleasingFits ==
    ASSUME SmInv, OneNifPerHandle, NEW n \in Nifs, NEW q \in Seq(Messages),
           NEW h \in Handles, HandleFits(q, h), mState[n] = "RELEASING",
           FinishReleasing(n, q)
    PROVE  HandleFits(msgQ, h)' /\ OneNifPerHandle'
<1> USE DEF SmInv, SmType
<1>1. SaysAsMuch(q, msgQ', h) BY CommandSays DEF FinishReleasing
<1>2. /\ \A k \in Nifs : k # n => mState'[k] = mState[k]
      /\ Active(n) # {} => mState'[n] = "PENDING"
      /\ \A k \in Nifs :
            /\ mSubscriberList'[k] = IF k = n THEN Active(n) ELSE mSubscriberList[k]
            /\ mIsInactive'[k] = IF k = n THEN {} ELSE mIsInactive[k]
      /\ atl'[h] = IF h \in mIsInactive[n] THEN "closed" ELSE atl[h]
  BY DEF FinishReleasing, AtlDown
<1>3. OneNifPerHandle' BY <1>2 DEF OneNifPerHandle, Nifs, Active
<1>4. \A k \in Nifs : Active(k)' = Active(k) BY <1>2 DEF Active
<1>5. CASE h \in mIsInactive[n]
  <2>1. h \in mSubscriberList[n] /\ h \notin Active(n) BY <1>5 DEF InactiveListed, Active
  <2>2. Unlisted(h)' BY <1>2, <2>1 DEF Unlisted, OneNifPerHandle, Nifs
  <2>3. Quiet(q, h)
    BY <1>5, <2>1 DEF HandleFits, Unlisted, Listed, Active, OneNifPerHandle, Nifs
  <2> QED BY <1>1, <1>2, <1>3, <1>5, <2>2, <2>3, SaysWeaker DEF HandleFits, SaysAsMuch
<1>6. CASE h \notin mIsInactive[n]
  <2>1. Unlisted(h) => Unlisted(h)' BY <1>2 DEF Unlisted, Active
  <2>2. Waiting(h) => Waiting(h)' BY <1>2, <1>4 DEF Waiting
  <2>3. Served(h) => Served(h)' BY <1>2, <1>4 DEF Served
  <2>4. Listed(h) => Listed(h)' BY <1>4 DEF Listed
  <2>5. Inactive(h) => Inactive(h)' BY <1>2, <1>6 DEF Inactive
  <2> QED BY <1>1, <1>2, <1>3, <1>6, <2>1, <2>2, <2>3, <2>4, <2>5 DEF HandleFits, SaysAsMuch
<1> QED BY <1>5, <1>6

LEMMA ReportFits ==
    ASSUME SmInv, OneNifPerHandle, NEW n \in Nifs, NEW q \in Seq(Messages),
           NEW h \in Handles, HandleFits(q, h),
           \/ reportAtlOpenSuccess(n, q)
           \/ reportAtlOpenFailed(n, q)
           \/ reportAtlClosed(n, q)
    PROVE  HandleFits(msgQ, h)' /\ OneNifPerHandle'
<1>1. \/ processAgpsEventGranted(n, q) \/ Ignore(q)
      \/ mState[n] = "RELEASING" /\ FinishReleasing(n, q)
      \/ DropAll(n, q)
  BY DEF reportAtlOpenSuccess, reportAtlOpenFailed, reportAtlClosed, processAgpsEventReleased,
    processAgpsEventDenied
<1> QED BY <1>1, GrantedFits, IgnoreFits, FinishReleasingFits, DropAllFits

(* A request taken from the queue: its handle is in no list, and waits     *)
(* for the answer, or has been released again meanwhile.                   *)
LEMMA SubscribeFits ==
    ASSUME SmInv, OneNifPerHandle, NEW n \in Nifs, NEW q \in Seq(Messages),
           NEW g \in Handles, NEW t, processAgpsEventSubscribe(n, g, t, q),
           Unlisted(g),
           \/ atl[g] = "opening" /\ Quiet(q, g)
           \/ atl[g] = "closing" /\ OneRelease(q, g),
           NEW h \in Handles, h # g => HandleFits(q, h)
    PROVE  HandleFits(msgQ, h)' /\ OneNifPerHandle'
<1> USE DEF SmInv, SmType
<1>1. SaysAsMuch(q, msgQ', h) BY CommandSays DEF processAgpsEventSubscribe
<1>2. /\ \A k \in Nifs :
            mSubscriberList'[k] = IF k = n THEN mSubscriberList[n] \cup {g}
                                           ELSE mSubscriberList[k]
      /\ mIsInactive' = mIsInactive
      /\ \A k \in Nifs : k # n => mState'[k] = mState[k]
  BY DEF processAgpsEventSubscribe
<1>3. /\ mState[n] # "RELEASED" => mState'[n] = mState[n]
      /\ mState[n] = "RELEASED" => mState'[n] = "PENDING"
      /\ atl'[h] = IF mState[n] = "ACQUIRED" /\ h = g /\ atl[g] = "opening"
                   THEN "open" ELSE atl[h]
  BY DEF processAgpsEventSubscribe, AtlOpened
<1>4. OneNifPerHandle' BY <1>2 DEF OneNifPerHandle, Unlisted, Nifs
<1>5. CASE h = g
  <2>1. g \in Active(n)' BY <1>2 DEF Active, Unlisted, InactiveListed
  <2>2. Listed(g)' BY <2>1 DEF Listed
  <2>3. mState[n] = "ACQUIRED" => Served(g)' BY <1>3, <2>1 DEF Served
  <2>4. mState[n] # "ACQUIRED" => Waiting(g)' BY <1>3, <2>1 DEF Waiting, States
  <2> QED BY <1>1, <1>3, <1>4, <1>5, <2>2, <2>3, <2>4 DEF HandleFits, SaysAsMuch
<1>6. CASE h # g
  <2>1. Unlisted(h) => Unlisted(h)' BY <1>2, <1>6 DEF Unlisted
  <2>2. \A k \in Nifs : h \in Active(k) => h \in Active(k)' BY <1>2 DEF Active
  <2>3. Waiting(h) => Waiting(h)' BY <1>2, <1>3, <2>2 DEF Waiting
  <2>4. Served(h) => Served(h)' BY <1>2, <1>3, <2>2 DEF Served
  <2>5. Listed(h) => Listed(h)' BY <2>2 DEF Listed
  <2>6. Inactive(h) => Inactive(h)' BY <1>2 DEF Inactive
  <2> QED BY <1>1, <1>3, <1>4, <1>6, <2>1, <2>3, <2>4, <2>5, <2>6 DEF HandleFits, SaysAsMuch
<1> QED BY <1>5, <1>6

(* A release taken from the queue, its handle listed and active.           *)
LEMMA UnsubscribeFits ==
    ASSUME SmInv, OneNifPerHandle, NEW n \in Nifs, NEW q \in Seq(Messages),
           NEW g \in Handles, g \in mSubscriberList[n],
           processAgpsEventUnsubscribe(n, g, q), atl[g] = "closing", Quiet(q, g),
           NEW h \in Handles, h # g => HandleFits(q, h)
    PROVE  HandleFits(msgQ, h)' /\ OneNifPerHandle'
<1> USE DEF SmInv, SmType
<1>1. mState[n] # "RELEASED" BY DEF ReleasedIsEmpty
<1>2. SaysAsMuch(q, msgQ', h) BY CommandSays DEF processAgpsEventUnsubscribe
<1>3. /\ \A k \in Nifs :
            mIsInactive'[k] = IF k = n THEN mIsInactive[n] \cup {g} ELSE mIsInactive[k]
      /\ mSubscriberList' = mSubscriberList
      /\ atl' = atl
      /\ \A k \in Nifs : k # n => mState'[k] = mState[k]
  BY <1>1 DEF processAgpsEventUnsubscribe
<1>4. \/ mState'[n] = mState[n]
      \/ mState'[n] = "RELEASING" /\ mSubscriberList[n] \subseteq mIsInactive'[n]
  BY <1>1, <1>3 DEF processAgpsEventUnsubscribe
<1>5. OneNifPerHandle' BY <1>3 DEF OneNifPerHandle
<1>6. CASE h = g
  <2>1. Inactive(g)' BY <1>3 DEF Inactive
  <2> QED BY <1>2, <1>3, <1>5, <1>6, <2>1 DEF HandleFits, SaysAsMuch
<1>7. CASE h # g
  <2>1. Unlisted(h) => Unlisted(h)' BY <1>3 DEF Unlisted
  <2>2. \A k \in Nifs : h \in Active(k) => h \in Active(k)' /\ mState'[k] = mState[k]
    BY <1>3, <1>4, <1>7 DEF Active
  <2>3. Waiting(h) => Waiting(h)' BY <2>2 DEF Waiting
  <2>4. Served(h) => Served(h)' BY <2>2 DEF Served
  <2>5. Listed(h) => Listed(h)' BY <2>2 DEF Listed
  <2>6. Inactive(h) => Inactive(h)' BY <1>3 DEF Inactive
  <2> QED BY <1>2, <1>3, <1>5, <1>7, <2>1, <2>3, <2>4, <2>5, <2>6 DEF HandleFits, SaysAsMuch
<1> QED BY <1>6, <1>7

-----------------------------------------------------------------------------
(* Every step keeps the handles fitting.                                   *)

HandleInv == SmInv /\ OneNifPerHandle /\ HandlesFit

(* Once the adapter has taken a message about another handle, or a report, *)
(* the rest of the queue says as much as before.                           *)
LEMMA PoppedFits ==
    ASSUME HandlesFit, msgQ \in Seq(Messages), msgQ # <<>>, NEW h \in Handles,
           Head(msgQ).h # h
    PROVE  HandleFits(Tail(msgQ), h)
<1>1. HandleFits(msgQ, h) BY DEF HandlesFit
<1> QED BY <1>1, TailOther DEF HandleFits

(* A request at the head is of an unlisted handle, a release of one that   *)
(* is unlisted or that the modem is closing.                               *)
LEMMA HeadRequest ==
    ASSUME HandlesFit, msgQ \in Seq(Messages), Received("request"),
           Head(msgQ).h \in Handles
    PROVE  LET g == Head(msgQ).h IN
           /\ Unlisted(g)
           /\ \/ atl[g] = "opening" /\ Quiet(Tail(msgQ), g)
              \/ atl[g] = "closing" /\ OneRelease(Tail(msgQ), g)
<1>1. HandleFits(msgQ, Head(msgQ).h) BY DEF HandlesFit
<1>2. msgQ # <<>> /\ Head(msgQ).m = "request" BY DEF Received
<1> QED BY <1>1, <1>2, TailOwn DEF HandleFits

LEMMA HeadRelease ==
    ASSUME HandlesFit, msgQ \in Seq(Messages), Received("release"),
           Head(msgQ).h \in Handles
    PROVE  LET g == Head(msgQ).h IN
           \/ Unlisted(g) /\ HandleFits(Tail(msgQ), g)
           \/ Listed(g) /\ atl[g] = "closing" /\ Quiet(Tail(msgQ), g)
<1>1. HandleFits(msgQ, Head(msgQ).h) BY DEF HandlesFit
<1>2. msgQ # <<>> /\ Head(msgQ).m = "release" BY DEF Received
<1> QED BY <1>1, <1>2, TailOwn DEF HandleFits

LEMMA AdapterFits ==
    ASSUME HandleInv, AdapterStep, NEW h \in Handles
    PROVE  HandleFits(msgQ, h)' /\ OneNifPerHandle'
<1> DEFINE g == Head(msgQ).h
           q == Tail(msgQ)
<1>1. msgQ \in Seq(Messages) /\ msgQ # <<>>
  BY DEF HandleInv, SmInv, SmType, AdapterStep, Received, ProcInit, requestATL, releaseATL,
    ProcOpenSuccess, ProcAtlPdn, ProcOpenFailed, ProcClosed
<1>2. q \in Seq(Messages) /\ getAgpsStateMachine(Head(msgQ).t) \in Nifs BY <1>1, HeadType
<1>3. h # g => HandleFits(q, h) BY <1>1, PoppedFits DEF HandleInv
<1>4. Head(msgQ).m \notin ModemKinds => h # g
  <2>1. Head(msgQ) \in Messages BY <1>1
  <2> QED BY <2>1, ConstantsAssumption DEF Messages
<1>5. CASE ProcInit
  <2>1. HandleFits(q, h) BY <1>3, <1>4, <1>5 DEF ProcInit, Received, ModemKinds
  <2>2. SaysAsMuch(q, msgQ', h) /\ OneNifPerHandle'
    BY <1>5 DEF ProcInit, SaysAsMuch, HandleInv, OneNifPerHandle
  <2> QED BY <1>5, <2>1, <2>2, UntouchedFits DEF ProcInit
<1>6. CASE requestATL
  <2> DEFINE t == EffectiveType(Head(msgQ).t)
             n == getAgpsStateMachine(t)
  <2>1. g \in Handles /\ n \in Nifs /\ Received("request")
    BY <1>1, <1>6, HeadType DEF requestATL, Received, ModemKinds
  <2>2. /\ Unlisted(g)
        /\ \/ atl[g] = "opening" /\ Quiet(q, g)
           \/ atl[g] = "closing" /\ OneRelease(q, g)
    BY <1>1, <2>1, HeadRequest DEF HandleInv
  <2>3. CASE n \in created
    <3>1. processAgpsEventSubscribe(n, g, t, q) BY <1>6, <2>3 DEF requestATL
    <3> QED BY <1>2, <1>3, <2>1, <2>2, <3>1, SubscribeFits DEF HandleInv
  <2>4. CASE n \notin created
    <3>1. /\ atl' = AtlDown({g})
          /\ NoDataConnCommand(q)
          /\ UNCHANGED <<mState, mSubscriberList, mIsInactive>>
      BY <1>6, <2>4 DEF requestATL
    <3>2. SaysAsMuch(q, msgQ', h) /\ OneNifPerHandle'
      BY <3>1 DEF NoDataConnCommand, SaysAsMuch, HandleInv, OneNifPerHandle
    <3>3. CASE h # g BY <1>3, <3>1, <3>2, <3>3, UntouchedFits DEF AtlDown
    <3>4. CASE h = g
      <4>1. atl'[h] = "closed" /\ Unlisted(h)' BY <2>2, <3>1, <3>4 DEF AtlDown, Unlisted
      <4>2. OnlyReleases(msgQ, h)' BY <2>2, <3>1, <3>4, SaysWeaker DEF NoDataConnCommand
      <4> QED BY <3>2, <4>1, <4>2 DEF HandleFits
    <3> QED BY <3>2, <3>3, <3>4
  <2> QED BY <2>3, <2>4
<1>7. CASE releaseATL
  <2>1. g \in Handles /\ Received("release")
    BY <1>1, <1>7, HeadType DEF releaseATL, Received, ModemKinds
  <2>2. \/ Unlisted(g) /\ HandleFits(q, g)
        \/ Listed(g) /\ atl[g] = "closing" /\ Quiet(q, g)
    BY <1>1, <2>1, HeadRelease DEF HandleInv, SmInv
  <2>3. CASE Unlisted(g)
    <3>1. Ignore(q) BY <1>7, <2>3 DEF releaseATL, Unlisted, Nifs
    <3>2. HandleFits(q, h) BY <1>3, <2>2, <2>3 DEF Listed, Unlisted, Active
    <3> QED BY <1>2, <3>1, <3>2, IgnoreFits DEF HandleInv
  <2>4. CASE ~Unlisted(g)
    <3>1. PICK n \in Nifs : /\ g \in mSubscriberList[n]
                            /\ processAgpsEventUnsubscribe(n, g, q)
      BY <1>7, <2>4 DEF releaseATL, Unlisted, Nifs
    <3> QED BY <1>2, <1>3, <2>1, <2>2, <2>4, <3>1, UnsubscribeFits DEF HandleInv
  <2> QED BY <2>3, <2>4
<1>8. CASE ProcOpenSuccess \/ ProcAtlPdn \/ ProcOpenFailed \/ ProcClosed
  <2>1. HandleFits(q, h)
    BY <1>3, <1>4, <1>8 DEF ProcOpenSuccess, ProcAtlPdn, ProcOpenFailed, ProcClosed, Received,
      ModemKinds
  <2>2. \/ Ignore(q)
        \/ \E n \in Nifs : \/ reportAtlOpenSuccess(n, q)
                           \/ reportAtlOpenFailed(n, q)
                           \/ reportAtlClosed(n, q)
    BY <1>2, <1>8 DEF ProcOpenSuccess, ProcAtlPdn, ProcOpenFailed, ProcClosed
  <2> QED BY <1>2, <2>1, <2>2, IgnoreFits, ReportFits DEF HandleInv
<1> QED BY <1>5, <1>6, <1>7, <1>8 DEF AdapterStep

(* The modem's own messages.                                               *)
LEMMA ModemFits ==
    ASSUME HandleInv, NEW g \in Handles, NEW t \in Types,
           ModemRequest(g, t) \/ ModemRelease(g), NEW h \in Handles
    PROVE  HandleFits(msgQ, h)' /\ OneNifPerHandle'
<1> USE DEF HandleInv, SmInv, SmType
<1>1. UNCHANGED <<mState, mSubscriberList, mIsInactive>>
  BY DEF ModemRequest, ModemRelease, smVars
<1>2. OneNifPerHandle' BY <1>1 DEF OneNifPerHandle
<1>3. HandleFits(msgQ, h) /\ HandleFits(msgQ, g) BY DEF HandlesFit
<1>4. PICK m \in {Msg("request", g, t), Msg("release", g, "SUPL")} :
          msgQ' = Append(msgQ, m)
  BY DEF ModemRequest, ModemRelease, sendMsg
<1>5. m \in Messages /\ m.h = g BY <1>4, MsgType DEF ModemKinds, Types, Msg
<1>6. CASE h # g
  <2>1. atl'[h] = atl[h] BY <1>6 DEF ModemRequest, ModemRelease
  <2>2. SaysAsMuch(msgQ, msgQ', h) BY <1>4, <1>5, <1>6, AppendOther DEF SaysAsMuch
  <2> QED BY <1>1, <1>2, <1>3, <2>1, <2>2, UntouchedFits
<1>7. CASE h = g /\ ModemRequest(g, t)
  <2>1. /\ msgQ' = Append(msgQ, Msg("request", g, t))
        /\ Msg("request", g, t) \in Messages
        /\ Msg("request", g, t).m = "request" /\ Msg("request", g, t).h = g
    BY <1>7, MsgType DEF ModemRequest, sendMsg, Msg, ModemKinds
  <2>2. atl[g] = "closed" /\ atl'[g] = "opening" BY <1>7 DEF ModemRequest
  <2>3. Unlisted(g) /\ OnlyReleases(msgQ, g) BY <1>3, <2>2 DEF HandleFits
  <2>4. RequestLast(msgQ, g)' BY <2>1, <2>3, AppendRequest
  <2> QED BY <1>1, <1>2, <1>7, <2>2, <2>3, <2>4 DEF HandleFits, Unlisted
<1>8. CASE h = g /\ ModemRelease(g)
  <2>1. /\ msgQ' = Append(msgQ, Msg("release", g, "SUPL"))
        /\ Msg("release", g, "SUPL") \in Messages
        /\ Msg("release", g, "SUPL").m = "release" /\ Msg("release", g, "SUPL").h = g
    BY <1>8, MsgType DEF ModemRelease, sendMsg, Msg, ModemKinds, Types
  <2>2. atl[g] \in {"opening", "open"} /\ atl'[g] = "closing" BY <1>8 DEF ModemRelease
  <2>3. \/ Unlisted(g) /\ RequestLast(msgQ, g)
        \/ Listed(g) /\ Quiet(msgQ, g)
    BY <1>3, <2>2 DEF HandleFits, Waiting, Served, Listed
  <2>4. \/ Unlisted(g) /\ RequestThenRelease(msgQ, g)'
        \/ Listed(g) /\ OneRelease(msgQ, g)'
    BY <2>1, <2>3, AppendRelease
  <2>5. Unlisted(g)' = Unlisted(g) /\ Listed(g)' = Listed(g)
    BY <1>1 DEF Unlisted, Listed, Active
  <2> QED BY <1>2, <1>8, <2>2, <2>4, <2>5 DEF HandleFits
<1> QED BY <1>6, <1>7, <1>8

(* Whatever else is queued is a report, about no handle.                   *)
LEMMA ReportsFit ==
    ASSUME HandleInv, NEW h \in Handles,
           UNCHANGED <<mState, mSubscriberList, mIsInactive, atl>>,
           \/ msgQ' = msgQ
           \/ \E k \in ReportKinds, t \in Types : sendMsg(k, NoHandle, t)
    PROVE  HandleFits(msgQ, h)' /\ OneNifPerHandle'
<1>1. OneNifPerHandle' BY DEF HandleInv, OneNifPerHandle
<1>2. HandleFits(msgQ, h) /\ msgQ \in Seq(Messages) BY DEF HandleInv, HandlesFit, SmInv, SmType
<1>3. \A k \in ReportKinds, t \in Types : /\ Msg(k, NoHandle, t) \in Messages
                                          /\ Msg(k, NoHandle, t).h # h
  BY MsgType, ConstantsAssumption DEF Msg
<1>4. SaysAsMuch(msgQ, msgQ', h) BY <1>2, <1>3, AppendOther DEF sendMsg, SaysAsMuch
<1> QED BY <1>1, <1>2, <1>4, UntouchedFits

LEMMA OthersReport ==
    ASSUME NEW n \in Nifs,
           \/ reportPdnTypeFromWds(n) \/ NotifyNetworkInfo
           \/ AGnssCreate \/ setCallback \/ agnssServiceDied
           \/ ClientStep \/ dataConnClosed
    PROVE  /\ UNCHANGED <<mState, mSubscriberList, mIsInactive, atl>>
           /\ \/ msgQ' = msgQ
              \/ \E k \in ReportKinds, t \in Types : sendMsg(k, NoHandle, t)
<1>1. UNCHANGED <<mState, mSubscriberList, mIsInactive, atl>>
  BY DEF reportPdnTypeFromWds, NotifyNetworkInfo, AGnssCreate, setCallback, agnssServiceDied,
    ClientStep, ClientTakeRequest, dataConnOpen, dataConnFailed, ClientTakeRelease,
    dataConnClosed, smVars
<1>2. \/ msgQ' = msgQ
      \/ \E k \in ReportKinds, t \in Types : sendMsg(k, NoHandle, t)
  <2>1. "SUPL" \in Types /\ "WWAN_ANY" \in Types BY DEF Types
  <2>2. \A apn : OpenKind(apn) \in ReportKinds BY DEF OpenKind, ReportKinds
  <2>3. {"pdn", "init", "failed", "closed"} \subseteq ReportKinds BY DEF ReportKinds
  <2>4. CASE reportPdnTypeFromWds(n) \/ AGnssCreate
    BY <2>1, <2>3, <2>4 DEF reportPdnTypeFromWds, AGnssCreate
  <2>5. CASE NotifyNetworkInfo \/ setCallback \/ agnssServiceDied \/ ClientTakeRequest
    BY <2>5 DEF NotifyNetworkInfo, setCallback, agnssServiceDied, ClientTakeRequest
  <2>6. CASE dataConnOpen BY <2>1, <2>2, <2>6 DEF dataConnOpen
  <2>7. CASE dataConnFailed \/ dataConnClosed \/ ClientTakeRelease
    BY <2>1, <2>3, <2>7 DEF dataConnFailed, dataConnClosed, ClientTakeRelease
  <2> QED BY <2>4, <2>5, <2>6, <2>7 DEF ClientStep
<1> QED BY <1>1, <1>2

LEMMA StepFits ==
    ASSUME IInv, OneNifPerHandle, HandlesFit, [Next]_vars
    PROVE  HandlesFit' /\ OneNifPerHandle'
<1>1. HandleInv /\ InactiveListed /\ msgQ \in Seq(Messages)
  BY DEF HandleInv, IInv, SmInv, SmType
<1>2. ASSUME NEW h \in Handles PROVE HandleFits(msgQ, h)' /\ OneNifPerHandle'
  <2>1. CASE AdapterStep BY <1>1, <2>1, AdapterFits
  <2>2. ASSUME NEW g \in Handles, NEW t \in Types, ModemRequest(g, t) \/ ModemRelease(g)
        PROVE  HandleFits(msgQ, h)' /\ OneNifPerHandle'
    BY <1>1, <2>2, ModemFits
  <2>3. ASSUME NEW n \in Nifs,
               \/ reportPdnTypeFromWds(n) \/ NotifyNetworkInfo
               \/ AGnssCreate \/ setCallback \/ agnssServiceDied
               \/ ClientStep \/ dataConnClosed
        PROVE  HandleFits(msgQ, h)' /\ OneNifPerHandle'
    BY <1>1, <2>3, OthersReport, ReportsFit
  <2>4. CASE OpenRejected
    <3>1. HandleFits(msgQ, h) BY DEF HandlesFit
    <3> QED BY <1>1, <2>4, <3>1, ReportFits DEF OpenRejected, HandleInv, Nifs
  <2>5. CASE UNCHANGED vars BY <1>1, <2>5, ReportsFit DEF vars, smVars
  <2> QED BY <2>1, <2>2, <2>3, <2>4, <2>5 DEF Next, Nifs, Types
<1>3. HandlesFit' BY <1>2 DEF HandlesFit
<1>4. OneNifPerHandle'
  <2>1. mSubscriberList' \in [Nifs -> SUBSET Handles] BY NextIInv DEF IInv, SmInv, SmType
  <2>2. CASE Handles # {} BY <1>2, <2>2
  <2>3. CASE Handles = {} BY <2>1, <2>3 DEF OneNifPerHandle, Nifs
  <2> QED BY <2>2, <2>3
<1> QED BY <1>3, <1>4

(* The phases say what the modem's view must be.                           *)
LEMMA FitAgrees ==
    ASSUME IInv, HandlesFit
    PROVE  ModemAgrees
<1> SUFFICES ASSUME NEW h \in Handles
             PROVE  LET queued == MsgsOf(h) # {}
                    IN  CASE atl[h] = "opening" ->
                                IF queued THEN LastOf(h) = "request"
                                ELSE \E n \in Nifs : /\ h \in Active(n)
                                                     /\ mState[n] \in {"PENDING", "RELEASING"}
                          [] atl[h] = "open" ->
                                /\ ~queued
                                /\ \E n \in Nifs : h \in Active(n) /\ mState[n] = "ACQUIRED"
                          [] atl[h] = "closing" ->
                                IF queued THEN LastOf(h) = "release"
                                ELSE \E n \in Nifs : h \in mIsInactive[n]
                          [] atl[h] = "closed" ->
                                /\ \A i \in MsgsOf(h) : msgQ[i].m = "release"
                                /\ \A n \in Nifs : h \notin mSubscriberList[n]
  BY DEF ModemAgrees
<1>1. HandleFits(msgQ, h) /\ Len(msgQ) \in Nat BY DEF HandlesFit, IInv, SmInv, SmType
<1>2. ASSUME NEW k \in MsgsOf(h), \A i \in MsgsOf(h) : i <= k
      PROVE  LastOf(h) = msgQ[k].m /\ MsgsOf(h) # {}
  <2>1. \A i \in MsgsOf(h) : (\A j \in MsgsOf(h) : j <= i) => i = k BY <1>2 DEF MsgsOf
  <2> QED BY <1>2, <2>1 DEF LastOf
<1>3. Quiet(msgQ, h) => MsgsOf(h) = {} BY DEF Quiet, MsgsOf
<1>4. OnlyReleases(msgQ, h) => \A i \in MsgsOf(h) : msgQ[i].m = "release"
  BY DEF OnlyReleases, MsgsOf
<1>5. OneRelease(msgQ, h) => LastOf(h) = "release" /\ MsgsOf(h) # {}
  <2>1. \A i, k \in 1..Len(msgQ) : i = k => i <= k BY <1>1
  <2> QED BY <1>2, <2>1 DEF OneRelease, MsgsOf
<1>6. RequestLast(msgQ, h) => LastOf(h) = "request" /\ MsgsOf(h) # {}
  <2>1. \A i, k \in 1..Len(msgQ) : i = k \/ i < k => i <= k BY <1>1
  <2> QED BY <1>2, <2>1 DEF RequestLast, MsgsOf
<1>7. RequestThenRelease(msgQ, h) => LastOf(h) = "release" /\ MsgsOf(h) # {}
  <2>1. \A i, j, k \in 1..Len(msgQ) : j < k /\ (i \in {j, k} \/ i < j) => i <= k BY <1>1
  <2> QED BY <1>2, <2>1 DEF RequestThenRelease, MsgsOf
<1>8. CASE atl[h] = "opening" BY <1>1, <1>3, <1>6, <1>8 DEF HandleFits, Waiting
<1>9. CASE atl[h] = "open" BY <1>1, <1>3, <1>9 DEF HandleFits, Served
<1>10. CASE atl[h] = "closing" BY <1>1, <1>3, <1>5, <1>7, <1>10 DEF HandleFits, Inactive
<1>11. CASE atl[h] = "closed" BY <1>1, <1>4, <1>11 DEF HandleFits, Unlisted
<1> QED BY <1>1, <1>8, <1>9, <1>10, <1>11 DEF HandleFits

(* No request or release of the modem is lost or answered twice, in        *)
(* whatever order requestATL, releaseATL, the framework's answers and the  *)
(* death of the client meet: the lists are what the modem asked for.       *)
THEOREM ModemIsServed == Spec => []ModemServed
<1>1. Init => OneNifPerHandle /\ HandlesFit
  <2> SUFFICES ASSUME Init PROVE OneNifPerHandle /\ HandlesFit
    OBVIOUS
  <2>1. OneNifPerHandle BY DEF Init, OneNifPerHandle, Nifs
  <2>2. ASSUME NEW h \in Handles PROVE HandleFits(msgQ, h)
    <3>1. Msg("init", NoHandle, "WWAN_ANY").h # h BY ConstantsAssumption DEF Msg
    <3>2. OnlyReleases(msgQ, h) BY <3>1 DEF Init, OnlyReleases
    <3> QED BY <3>2 DEF Init, HandleFits, Unlisted
  <2> QED BY <2>1, <2>2 DEF HandlesFit
<1>2. IInv /\ OneNifPerHandle /\ HandlesFit /\ [Next]_vars => HandlesFit' /\ OneNifPerHandle'
  BY StepFits
<1>3. IInv /\ OneNifPerHandle /\ HandlesFit => ModemServed BY FitAgrees DEF ModemServed
<1> QED BY <1>1, <1>2, <1>3, Inductive, PTL DEF Spec

-----------------------------------------------------------------------------
(* The one connection of the framework.  ConnectionKnown looks at the      *)
(* nif's state alone; what makes it inductive is the whole link: the       *)
(* commands the client has not read, its connection, and the reports that  *)
(* the adapter has not read, each in their order.                          *)

(* What a queue q says about that connection: nothing, one report of one   *)
(* of these kinds, or that it was opened and then lost.                    *)
IsReport(m) == /\ m.m \in {"open_named", "open_empty", "failed", "closed"}
               /\ getAgpsStateMachine(m.t) = "AGNSS"
OpenReport == {"open_named", "open_empty"}

NoReport(q) == \A i \in 1..Len(q) : ~IsReport(q[i])
OneReport(q, kinds) ==
    \E k \in 1..Len(q) :
        /\ IsReport(q[k]) /\ q[k].m \in kinds
        /\ \A i \in 1..Len(q) : IsReport(q[i]) => i = k
OpenThenClosed(q) ==
    \E j, k \in 1..Len(q) :
        /\ j < k
        /\ IsReport(q[j]) /\ q[j].m \in OpenReport
        /\ IsReport(q[k]) /\ q[k].m = "closed"
        /\ \A i \in 1..Len(q) : IsReport(q[i]) => i \in {j, k}

(* The answers of the WDS library are no reports of the client: they come  *)
(* in between, and may come late.                                          *)
IsPdn(m) == m.m = "pdn" /\ getAgpsStateMachine(m.t) = "AGNSS"
NoPdn(q) == \A i \in 1..Len(q) : ~IsPdn(q[i])
OnePdn(q) == \A i, j \in 1..Len(q) : IsPdn(q[i]) /\ IsPdn(q[j]) => i = j

QueryingIn(q) == wds["AGNSS"] > 0 \/ ~NoPdn(q)
OneQuery(q) == \/ wds["AGNSS"] = 1 /\ NoPdn(q)
               \/ wds["AGNSS"] = 0 /\ OnePdn(q)

(* The commands that the client has not read, in their order.              *)
Ordered0 == cmdQ = <<>>
Ordered1(a) == Len(cmdQ) = 1 /\ cmdQ[1].c = a
Ordered2(a, b) == Len(cmdQ) = 2 /\ cmdQ[1].c = a /\ cmdQ[2].c = b
Ordered3(a, b, c) ==
    Len(cmdQ) = 3 /\ cmdQ[1].c = a /\ cmdQ[2].c = b /\ cmdQ[3].c = c

(* The client has read the request, and has not been told to release:      *)
(* it is opening, or its answer is under way.                              *)
Answering(q) ==
    \/ conn = "opening" /\ NoReport(q)
    \/ conn = "down" /\ OneReport(q, {"failed"})
    \/ conn = "up" /\ OneReport(q, OpenReport)
    \/ conn = "down" /\ OpenThenClosed(q)
(* The answer has been read too.                                           *)
Established(q) ==
    \/ conn = "up" /\ NoReport(q)
    \/ conn = "down" /\ OneReport(q, {"closed"})

(* Nothing is open and nothing is reported.                                *)
Quiescent(q) == conn = "down" /\ NoReport(q)

(* The link, end to end: the nif's state is what its commands, the         *)
(* client's connection and the reports under way will make of it.          *)
LinkFits(q) ==
    LET st == mState["AGNSS"] IN
    \/ Quiescent(q) /\ Ordered0 /\ (st = "PENDING" => QueryingIn(q))
    \/ st \in {"RELEASED", "RELEASING"} /\ Quiescent(q) /\ Ordered1("RELEASE")
    \/ st \in {"PENDING", "ACQUIRED"} /\ Quiescent(q)
         /\ (Ordered1("REQUEST") \/ Ordered2("RELEASE", "REQUEST"))
    \/ st \in {"PENDING", "ACQUIRED"} /\ Answering(q) /\ Ordered0
    \/ st \in {"PENDING", "ACQUIRED"} /\ Established(q) /\ Ordered0
         /\ (st = "PENDING" => QueryingIn(q))
    \/ st = "RELEASING" /\ Quiescent(q)
         /\ (Ordered2("REQUEST", "RELEASE") \/ Ordered3("RELEASE", "REQUEST", "RELEASE"))
    \/ st = "RELEASING" /\ (Answering(q) \/ Established(q)) /\ Ordered1("RELEASE")
    \/ st = "RELEASING" /\ conn = "down" /\ Ordered0
         /\ (OneReport(q, {"failed"}) \/ OneReport(q, {"closed"}) \/ OpenThenClosed(q))

(* No answer of the library can come too late: none is outstanding, or one *)
(* about the connection that there is.  A nif that is ACQUIRED meanwhile   *)
(* has its connection.                                                     *)
Fresh(q) ==
    \/ ~QueryingIn(q) /\ (mState["AGNSS"] = "ACQUIRED" => Established(q) /\ Ordered0)
    \/ OneQuery(q) /\ mState["AGNSS"] \in {"PENDING", "RELEASING"} /\ Established(q)

(* Nothing has been asked of a client that has not registered, and nothing *)
(* will be by a request that is already queued.                            *)
IsInit(m) == m.m = "init" /\ getAgpsStateMachine(m.t) = "AGNSS"
Registered ==
    /\ "AGNSS" \notin created \/ ~mAGnssCb => mState["AGNSS"] = "RELEASED" /\ Ordered0
    /\ ~mAGnssCb /\ "AGNSS" \in created =>
          \A i \in 1..Len(msgQ) : msgQ[i].m # "request"
    /\ ~mAGnssCb =>
          \A i, j \in 1..Len(msgQ) : IsInit(msgQ[i]) /\ msgQ[j].m = "request" => j < i
    /\ \A i \in 1..Len(msgQ) : msgQ[i].m = "init" => msgQ[i].t # "SUPL_ES"

LinkInv == LinkFits(msgQ) /\ Registered /\ (overtaken \/ Fresh(msgQ))

(* A step of which q is what was there before, or what is left of it.      *)
Keeps(q) == LinkFits(msgQ)' /\ (Fresh(q) => Fresh(msgQ)')

(* The queue r says of the connection at least what q says.                *)
SameReports(q, r) ==
    /\ NoReport(q) => NoReport(r)
    /\ \A kinds : OneReport(q, kinds) => OneReport(r, kinds)
    /\ OpenThenClosed(q) => OpenThenClosed(r)
TellsAsMuch(q, r) ==
    /\ SameReports(q, r)
    /\ NoPdn(q) <=> NoPdn(r)
    /\ OnePdn(q) => OnePdn(r)

LEMMA AppendNoReport ==
    ASSUME NEW q \in Seq(Messages), NEW m \in Messages, ~IsReport(m)
    PROVE  /\ SameReports(q, Append(q, m))
           /\ ~IsPdn(m) => TellsAsMuch(q, Append(q, m))
<1> DEFINE r == Append(q, m)
<1>1. /\ Len(q) \in Nat /\ Len(r) = Len(q) + 1
      /\ r[Len(q) + 1] = m
      /\ \A i \in 1..Len(q) : r[i] = q[i]
  OBVIOUS
<1> HIDE DEF r
<1>2. \A i \in 1..Len(q) : i \in 1..Len(r) /\ r[i] = q[i] BY <1>1
<1>3. \A i \in 1..Len(r) : IsReport(r[i]) => i \in 1..Len(q) /\ r[i] = q[i]
  <2>1. \A i \in 1..Len(r) : i \in 1..Len(q) \/ i = Len(q) + 1 BY <1>1
  <2> QED BY <1>1, <2>1
<1>4. NoReport(q) => NoReport(r) BY <1>3 DEF NoReport
<1>5. ASSUME NEW kinds PROVE OneReport(q, kinds) => OneReport(r, kinds)
  BY <1>2, <1>3 DEF OneReport
<1>6. OpenThenClosed(q) => OpenThenClosed(r) BY <1>2, <1>3 DEF OpenThenClosed
<1>7. ASSUME ~IsPdn(m) PROVE (NoPdn(q) <=> NoPdn(r)) /\ (OnePdn(q) => OnePdn(r))
  <2>1. \A i \in 1..Len(r) : IsPdn(r[i]) => i \in 1..Len(q) /\ r[i] = q[i]
    <3>1. \A i \in 1..Len(r) : i \in 1..Len(q) \/ i = Len(q) + 1 BY <1>1
    <3> QED BY <1>1, <1>7, <3>1
  <2> QED BY <1>2, <2>1 DEF NoPdn, OnePdn
<1> QED BY <1>4, <1>5, <1>6, <1>7 DEF TellsAsMuch, SameReports, r

LEMMA AppendReport ==
    ASSUME NEW q \in Seq(Messages), NEW m \in Messages, IsReport(m)
    PROVE  /\ NoReport(q) => OneReport(Append(q, m), {m.m})
           /\ OneReport(q, OpenReport) /\ m.m = "closed" => OpenThenClosed(Append(q, m))
           /\ (NoPdn(q) <=> NoPdn(Append(q, m))) /\ (OnePdn(q) => OnePdn(Append(q, m)))
<1> DEFINE r == Append(q, m)
<1>1. /\ Len(q) \in Nat /\ Len(r) = Len(q) + 1
      /\ r[Len(q) + 1] = m
      /\ \A i \in 1..Len(q) : r[i] = q[i]
  OBVIOUS
<1> HIDE DEF r
<1>2. Len(r) \in 1..Len(r) /\ r[Len(r)] = m BY <1>1
<1>3. \A i \in 1..Len(r) : i = Len(r) \/ (i \in 1..Len(q) /\ r[i] = q[i]) BY <1>1
<1>4. \A i \in 1..Len(q) : i \in 1..Len(r) /\ r[i] = q[i] /\ i < Len(r) BY <1>1
<1>5. NoReport(q) => OneReport(r, {m.m}) BY <1>2, <1>3 DEF NoReport, OneReport
<1>6. ASSUME OneReport(q, OpenReport), m.m = "closed"
      PROVE  OpenThenClosed(r)
  <2>1. PICK j \in 1..Len(q) : /\ IsReport(q[j]) /\ q[j].m \in OpenReport
                               /\ \A i \in 1..Len(q) : IsReport(q[i]) => i = j
    BY <1>6 DEF OneReport
  <2>2. j \in 1..Len(r) /\ r[j] = q[j] /\ j < Len(r) BY <1>4
  <2>3. \A i \in 1..Len(r) : IsReport(r[i]) => i \in {j, Len(r)} BY <1>3, <2>1
  <2> QED BY <1>2, <1>6, <2>1, <2>2, <2>3 DEF OpenThenClosed
<1>7. \A i \in 1..Len(r) : IsPdn(r[i]) => i \in 1..Len(q) /\ r[i] = q[i]
  BY <1>2, <1>3 DEF IsPdn, IsReport
<1>8. (NoPdn(q) <=> NoPdn(r)) /\ (OnePdn(q) => OnePdn(r)) BY <1>4, <1>7 DEF NoPdn, OnePdn
<1> QED BY <1>5, <1>6, <1>8 DEF r

LEMMA AppendPdn ==
    ASSUME NEW q \in Seq(Messages), NEW m \in Messages, IsPdn(m)
    PROVE  /\ ~NoPdn(Append(q, m))
           /\ NoPdn(q) => OnePdn(Append(q, m))
<1> DEFINE r == Append(q, m)
<1>1. /\ Len(q) \in Nat /\ Len(r) = Len(q) + 1
      /\ r[Len(q) + 1] = m
      /\ \A i \in 1..Len(q) : r[i] = q[i]
  OBVIOUS
<1> HIDE DEF r
<1>2. Len(r) \in 1..Len(r) /\ r[Len(r)] = m BY <1>1
<1>3. \A i \in 1..Len(r) : i = Len(r) \/ (i \in 1..Len(q) /\ r[i] = q[i]) BY <1>1
<1> QED BY <1>2, <1>3 DEF NoPdn, OnePdn, r

LEMMA TailPdn ==
    ASSUME NEW q \in Seq(Messages), q # <<>>
    PROVE  /\ ~IsPdn(Head(q)) => (NoPdn(q) <=> NoPdn(Tail(q))) /\ (OnePdn(q) => OnePdn(Tail(q)))
           /\ IsPdn(Head(q)) => ~NoPdn(q) /\ (OnePdn(q) => NoPdn(Tail(q)))
<1> DEFINE r == Tail(q)
<1>1. /\ 1 \in 1..Len(q) /\ q[1] = Head(q)
      /\ \A i \in 1..Len(r) : i \in Nat \ {0} /\ i + 1 \in 1..Len(q) /\ r[i] = q[i + 1]
      /\ \A i \in 1..Len(q) : i # 1 => i - 1 \in 1..Len(r) /\ r[i - 1] = q[i]
  BY TailIndex
<1> HIDE DEF r
<1>2. \A i \in 1..Len(r) : i + 1 # 1 BY <1>1
<1>3. OnePdn(q) => OnePdn(r)
  <2>1. ASSUME OnePdn(q), NEW i \in 1..Len(r), NEW j \in 1..Len(r), IsPdn(r[i]), IsPdn(r[j])
        PROVE  i = j
    <3>1. i + 1 = j + 1 BY <1>1, <2>1 DEF OnePdn
    <3> QED BY <1>1, <3>1
  <2> QED BY <2>1 DEF OnePdn
<1>4. NoPdn(q) => NoPdn(r) BY <1>1 DEF NoPdn
<1>5. ~IsPdn(Head(q)) /\ NoPdn(r) => NoPdn(q)
  <2>1. ASSUME ~IsPdn(Head(q)), NoPdn(r), NEW i \in 1..Len(q) PROVE ~IsPdn(q[i])
    <3>1. CASE i = 1 BY <1>1, <2>1, <3>1
    <3>2. CASE i # 1 BY <1>1, <2>1, <3>2 DEF NoPdn
    <3> QED BY <3>1, <3>2
  <2> QED BY <2>1 DEF NoPdn
<1>6. IsPdn(Head(q)) => ~NoPdn(q) /\ (OnePdn(q) => NoPdn(r)) BY <1>1, <1>2 DEF NoPdn, OnePdn
<1> QED BY <1>3, <1>4, <1>5, <1>6 DEF r

LEMMA TailNoReport ==
    ASSUME NEW q \in Seq(Messages), q # <<>>, ~IsReport(Head(q))
    PROVE  /\ SameReports(q, Tail(q))
           /\ ~IsPdn(Head(q)) => TellsAsMuch(q, Tail(q))
<1> DEFINE r == Tail(q)
<1>1. /\ \A i \in 1..Len(r) : i \in Nat /\ i + 1 \in 1..Len(q) /\ r[i] = q[i + 1]
      /\ \A i \in 1..Len(q) : i \in Nat
      /\ \A i \in 1..Len(q) : IsReport(q[i]) => i - 1 \in 1..Len(r) /\ r[i - 1] = q[i]
  BY TailIndex
<1> HIDE DEF r
<1>2. NoReport(q) => NoReport(r) BY <1>1 DEF NoReport
<1>3. ASSUME NEW kinds, NEW k \in 1..Len(q), IsReport(q[k]), q[k].m \in kinds,
             \A i \in 1..Len(q) : IsReport(q[i]) => i = k
      PROVE  OneReport(r, kinds)
  <2>1. k - 1 \in 1..Len(r) /\ r[k - 1] = q[k] BY <1>1, <1>3
  <2>2. \A i \in 1..Len(r) : IsReport(r[i]) => i = k - 1 BY <1>1, <1>3
  <2> QED BY <1>3, <2>1, <2>2 DEF OneReport
<1>4. ASSUME NEW j \in 1..Len(q), NEW k \in 1..Len(q), j < k,
             IsReport(q[j]), q[j].m \in OpenReport, IsReport(q[k]), q[k].m = "closed",
             \A i \in 1..Len(q) : IsReport(q[i]) => i \in {j, k}
      PROVE  OpenThenClosed(r)
  <2>1. /\ j - 1 \in 1..Len(r) /\ r[j - 1] = q[j]
        /\ k - 1 \in 1..Len(r) /\ r[k - 1] = q[k]
        /\ j - 1 < k - 1
    BY <1>1, <1>4
  <2>2. ASSUME NEW i \in 1..Len(r), IsReport(r[i])
        PROVE  i \in {j - 1, k - 1}
    <3>1. i + 1 \in {j, k} BY <1>1, <1>4, <2>2
    <3> QED BY <1>1, <3>1
  <2> QED BY <1>4, <2>1, <2>2 DEF OpenThenClosed
<1>5. \A kinds : OneReport(q, kinds) => OneReport(r, kinds) BY <1>3 DEF OneReport
<1>6. OpenThenClosed(q) => OpenThenClosed(r) BY <1>4 DEF OpenThenClosed
<1>7. ASSUME ~IsPdn(Head(q)) PROVE (NoPdn(q) <=> NoPdn(r)) /\ (OnePdn(q) => OnePdn(r))
  BY <1>7, TailPdn DEF r
<1> QED BY <1>2, <1>5, <1>6, <1>7 DEF TellsAsMuch, SameReports, r

LEMMA TailReport ==
    ASSUME NEW q \in Seq(Messages), q # <<>>, IsReport(Head(q))
    PROVE  /\ ~NoReport(q)
           /\ \A kinds : OneReport(q, kinds) => Head(q).m \in kinds /\ NoReport(Tail(q))
           /\ OpenThenClosed(q) => /\ Head(q).m \in OpenReport
                                   /\ OneReport(Tail(q), {"closed"})
<1> DEFINE r == Tail(q)
<1>1. /\ 1 \in 1..Len(q) /\ q[1] = Head(q)
      /\ \A i \in 1..Len(r) : i \in Nat \ {0} /\ i + 1 \in 1..Len(q) /\ r[i] = q[i + 1]
      /\ \A i \in 1..Len(q) : i \in Nat \ {0}
      /\ \A i \in 1..Len(q) : i # 1 => i - 1 \in 1..Len(r) /\ r[i - 1] = q[i]
  BY TailIndex
<1> HIDE DEF r
<1>2. ~NoReport(q) BY <1>1 DEF NoReport
<1>3. ASSUME NEW kinds, NEW k \in 1..Len(q), IsReport(q[k]), q[k].m \in kinds,
             \A i \in 1..Len(q) : IsReport(q[i]) => i = k
      PROVE  Head(q).m \in kinds /\ NoReport(r)
  <2>1. k = 1 BY <1>1, <1>3
  <2>2. \A i \in 1..Len(r) : i + 1 # 1 BY <1>1
  <2> QED BY <1>1, <1>3, <2>1, <2>2 DEF NoReport
<1>4. ASSUME NEW j \in 1..Len(q), NEW k \in 1..Len(q), j < k,
             IsReport(q[j]), q[j].m \in OpenReport, IsReport(q[k]), q[k].m = "closed",
             \A i \in 1..Len(q) : IsReport(q[i]) => i \in {j, k}
      PROVE  Head(q).m \in OpenReport /\ OneReport(r, {"closed"})
  <2>1. j = 1 /\ k # 1 BY <1>1, <1>4
  <2>2. k - 1 \in 1..Len(r) /\ r[k - 1] = q[k] BY <1>1, <2>1
  <2>3. ASSUME NEW i \in 1..Len(r), IsReport(r[i]) PROVE i = k - 1
    <3>1. i + 1 \in {j, k} /\ i + 1 # 1 BY <1>1, <1>4, <2>3
    <3> QED BY <1>1, <2>1, <3>1
  <2> QED BY <1>1, <1>4, <2>1, <2>2, <2>3 DEF OneReport
<1>5. \A kinds : OneReport(q, kinds) => Head(q).m \in kinds /\ NoReport(r)
  BY <1>3 DEF OneReport
<1>6. OpenThenClosed(q) => Head(q).m \in OpenReport /\ OneReport(r, {"closed"})
  BY <1>4 DEF OpenThenClosed
<1> QED BY <1>2, <1>5, <1>6 DEF r

-----------------------------------------------------------------------------
(* The commands that the client has not read.                              *)

LEMMA AppendCommand ==
    ASSUME cmdQ \in Seq(Commands), NEW c, NEW t, [c |-> c, t |-> t] \in Commands,
           cmdQ' = Append(cmdQ, [c |-> c, t |-> t])
    PROVE  /\ Ordered0 => Ordered1(c)'
           /\ \A a : Ordered1(a) => Ordered2(a, c)'
           /\ \A a, b : Ordered2(a, b) => Ordered3(a, b, c)'
<1>1. /\ Len(cmdQ) \in Nat /\ Len(cmdQ') = Len(cmdQ) + 1
      /\ \A i \in 1..Len(cmdQ) : cmdQ'[i] = cmdQ[i]
      /\ cmdQ'[Len(cmdQ) + 1].c = c
  OBVIOUS
<1>2. Ordered0 => Len(cmdQ) = 0 BY DEF Ordered0
<1> QED BY <1>1, <1>2 DEF Ordered1, Ordered2, Ordered3

LEMMA TakeCommand ==
    ASSUME cmdQ \in Seq(Commands), cmdQ # <<>>, cmdQ' = Tail(cmdQ)
    PROVE  /\ ~Ordered0
           /\ \A a : Ordered1(a) => Head(cmdQ).c = a /\ Ordered0'
           /\ \A a, b : Ordered2(a, b) => Head(cmdQ).c = a /\ Ordered1(b)'
           /\ \A a, b, c : Ordered3(a, b, c) => Head(cmdQ).c = a /\ Ordered2(b, c)'
<1>1. /\ Len(cmdQ) \in Nat \ {0} /\ Len(cmdQ') = Len(cmdQ) - 1
      /\ \A i \in 1..(Len(cmdQ) - 1) : cmdQ'[i] = cmdQ[i + 1]
      /\ Head(cmdQ) = cmdQ[1]
      /\ cmdQ' \in Seq(Commands)
  OBVIOUS
<1>2. Len(cmdQ') = 0 => cmdQ' = <<>> BY <1>1
<1> QED BY <1>1, <1>2 DEF Ordered0, Ordered1, Ordered2, Ordered3

(* A command of the AGNSS nif reaches a registered client; one of the      *)
(* INTERNET nif leaves the client and what is reported to AGNSS alone.     *)
LEMMA AgnssCommand ==
    ASSUME SmType, mAGnssCb, NEW t \in Types, NEW c \in {"REQUEST", "RELEASE"}, NEW q,
           requestOrReleaseDataConn("AGNSS", t, c, q)
    PROVE  /\ msgQ' = q
           /\ Ordered0 => Ordered1(c)'
           /\ \A a : Ordered1(a) => Ordered2(a, c)'
           /\ \A a, b : Ordered2(a, b) => Ordered3(a, b, c)'
<1>1. msgQ' = q /\ cmdQ' = Append(cmdQ, [c |-> c, t |-> t]) BY DEF requestOrReleaseDataConn
<1>2. [c |-> c, t |-> t] \in Commands BY DEF Commands
<1> QED BY <1>1, <1>2, AppendCommand DEF SmType

LEMMA InternetCommand ==
    ASSUME NEW t, NEW c, NEW q \in Seq(Messages),
           requestOrReleaseDataConn("INTERNET", t, c, q) \/ NoDataConnCommand(q)
    PROVE  cmdQ' = cmdQ /\ TellsAsMuch(q, msgQ')
<1>1. \A k \in ReportKinds : /\ Msg(k, NoHandle, "WWAN_ANY") \in Messages
                             /\ ~IsReport(Msg(k, NoHandle, "WWAN_ANY"))
                             /\ ~IsPdn(Msg(k, NoHandle, "WWAN_ANY"))
  BY MsgType DEF Types, Msg, IsReport, IsPdn, getAgpsStateMachine
<1>2. cmdQ' = cmdQ /\ (msgQ' = q \/ \E apn : msgQ' = NativeAnswer(c, apn, q))
  BY DEF requestOrReleaseDataConn, NoDataConnCommand
<1>3. \A apn : OpenKind(apn) \in ReportKinds BY DEF OpenKind, ReportKinds
<1>4. "closed" \in ReportKinds /\ "failed" \in ReportKinds BY DEF ReportKinds
<1>5. msgQ' = q \/ \E k \in ReportKinds : msgQ' = Append(q, Msg(k, NoHandle, "WWAN_ANY"))
  BY <1>2, <1>3, <1>4 DEF NativeAnswer
<1>6. CASE msgQ' = q BY <1>2, <1>6 DEF TellsAsMuch, SameReports
<1>7. ASSUME NEW k \in ReportKinds, msgQ' = Append(q, Msg(k, NoHandle, "WWAN_ANY"))
      PROVE  TellsAsMuch(q, msgQ')
  <2>1. TellsAsMuch(q, Append(q, Msg(k, NoHandle, "WWAN_ANY"))) BY <1>1, AppendNoReport
  <2> QED BY <1>7, <2>1
<1> QED BY <1>2, <1>5, <1>6, <1>7

-----------------------------------------------------------------------------
(* Each event, with q what is left of the queue.                           *)

LEMMA SaidStill ==
    ASSUME NEW q, SameReports(q, msgQ'), UNCHANGED <<cmdQ, conn>>
    PROVE  /\ Quiescent(q) => Quiescent(msgQ)'
           /\ Answering(q) => Answering(msgQ)'
           /\ Established(q) => Established(msgQ)'
           /\ Ordered0' = Ordered0
           /\ \A a : Ordered1(a)' = Ordered1(a)
           /\ \A a, b : Ordered2(a, b)' = Ordered2(a, b)
           /\ \A a, b, c : Ordered3(a, b, c)' = Ordered3(a, b, c)
           /\ OneReport(q, {"failed"}) => OneReport(msgQ, {"failed"})'
           /\ OneReport(q, {"closed"}) => OneReport(msgQ, {"closed"})'
           /\ OpenThenClosed(q) => OpenThenClosed(msgQ)'
BY DEF SameReports, Quiescent, Answering, Established, Ordered0, Ordered1, Ordered2, Ordered3

(* What touches neither the nif, nor the client, nor the reports.          *)
LEMMA UntouchedLink ==
    ASSUME NEW q, LinkFits(q), TellsAsMuch(q, msgQ'), mState'["AGNSS"] = mState["AGNSS"],
           UNCHANGED <<cmdQ, conn>>, wds'["AGNSS"] = wds["AGNSS"]
    PROVE  Keeps(q)
<1>1. (QueryingIn(q) <=> QueryingIn(msgQ)') /\ (OneQuery(q) => OneQuery(msgQ)')
  BY DEF TellsAsMuch, QueryingIn, OneQuery
<1>2. LinkFits(msgQ)' BY <1>1, SaidStill DEF LinkFits, TellsAsMuch
<1> QED BY <1>1, <1>2, SaidStill DEF Fresh, Keeps, TellsAsMuch

(* No event of the INTERNET nif reaches the client.                        *)
LEMMA InternetEvent ==
    ASSUME SmType, NEW q \in Seq(Messages), NEW h, NEW t,
           \/ processAgpsEventSubscribe("INTERNET", h, t, q)
           \/ processAgpsEventUnsubscribe("INTERNET", h, q)
           \/ reportAtlOpenSuccess("INTERNET", q)
           \/ reportAtlOpenFailed("INTERNET", q)
           \/ reportAtlClosed("INTERNET", q)
           \/ Ignore(q)
    PROVE  cmdQ' = cmdQ /\ mState'["AGNSS"] = mState["AGNSS"] /\ TellsAsMuch(q, msgQ')
<1>1. \/ \E x, c : requestOrReleaseDataConn("INTERNET", x, c, q)
      \/ NoDataConnCommand(q)
  BY DEF processAgpsEventSubscribe, processAgpsEventUnsubscribe, reportAtlOpenSuccess,
    reportAtlOpenFailed, reportAtlClosed, processAgpsEventGranted, processAgpsEventDenied,
    processAgpsEventReleased, Ignore, DropAll, FinishReleasing
<1>2. \/ mState' = mState
      \/ \E st : mState' = [mState EXCEPT !["INTERNET"] = st]
  BY DEF processAgpsEventSubscribe, processAgpsEventUnsubscribe, reportAtlOpenSuccess,
    reportAtlOpenFailed, reportAtlClosed, processAgpsEventGranted, processAgpsEventDenied,
    processAgpsEventReleased, Ignore, DropAll, FinishReleasing
<1>3. mState'["AGNSS"] = mState["AGNSS"] BY <1>2 DEF SmType, Nifs
<1> QED BY <1>1, <1>3, InternetCommand

LEMMA AgnssSubscribe ==
    ASSUME SmType, UNCHANGED <<conn, wds>>, NEW q \in Seq(Messages), NEW h, NEW t \in Types,
           mAGnssCb, LinkFits(q), processAgpsEventSubscribe("AGNSS", h, t, q)
    PROVE  Keeps(q)
<1>1. CASE mState["AGNSS"] = "RELEASED"
  <2>1. /\ requestOrReleaseDataConn("AGNSS", t, "REQUEST", q)
        /\ mState' = [mState EXCEPT !["AGNSS"] = "PENDING"]
    BY <1>1 DEF processAgpsEventSubscribe
  <2>2. mState'["AGNSS"] = "PENDING" BY <2>1 DEF SmType, Nifs
  <2>3. Quiescent(q) /\ (Ordered0 \/ Ordered1("RELEASE")) BY <1>1 DEF LinkFits
  <2>4. /\ msgQ' = q
        /\ Ordered1("REQUEST")' \/ Ordered2("RELEASE", "REQUEST")'
    BY <2>1, <2>3, AgnssCommand
  <2>5. Quiescent(msgQ)' BY <2>3, <2>4 DEF Quiescent
  <2>6. Fresh(q) => Fresh(msgQ)' BY <1>1, <2>2, <2>4 DEF Fresh, QueryingIn
  <2> QED BY <2>2, <2>4, <2>5, <2>6 DEF LinkFits, Keeps
<1>2. CASE mState["AGNSS"] # "RELEASED"
  <2>1. NoDataConnCommand(q) /\ mState' = mState BY <1>2 DEF processAgpsEventSubscribe
  <2>2. cmdQ' = cmdQ /\ TellsAsMuch(q, msgQ') BY <2>1, InternetCommand
  <2> QED BY <2>1, <2>2, UntouchedLink
<1> QED BY <1>1, <1>2

LEMMA AgnssUnsubscribe ==
    ASSUME SmInv, UNCHANGED <<conn, wds>>, NEW q \in Seq(Messages), mAGnssCb, LinkFits(q),
           NEW h \in mSubscriberList["AGNSS"], processAgpsEventUnsubscribe("AGNSS", h, q)
    PROVE  Keeps(q)
<1> USE DEF SmInv, SmType
<1>1. mState["AGNSS"] # "RELEASED" /\ mAgpsType["AGNSS"] \in Types BY DEF ReleasedIsEmpty, Nifs
<1>2. CASE mState' = mState /\ NoDataConnCommand(q)
  <2>1. cmdQ' = cmdQ /\ TellsAsMuch(q, msgQ') BY <1>2, InternetCommand
  <2> QED BY <1>2, <2>1, UntouchedLink
<1>3. CASE /\ mState["AGNSS"] \in {"PENDING", "ACQUIRED"}
           /\ mState' = [mState EXCEPT !["AGNSS"] = "RELEASING"]
           /\ requestOrReleaseDataConn("AGNSS", mAgpsType["AGNSS"], "RELEASE", q)
  <2>1. mState'["AGNSS"] = "RELEASING" BY <1>3 DEF Nifs
  <2>2. /\ msgQ' = q
        /\ Ordered0 => Ordered1("RELEASE")'
        /\ Ordered1("REQUEST") => Ordered2("REQUEST", "RELEASE")'
        /\ Ordered2("RELEASE", "REQUEST") => Ordered3("RELEASE", "REQUEST", "RELEASE")'
    BY <1>1, <1>3, AgnssCommand
  <2>3. /\ Quiescent(msgQ)' = Quiescent(q)
        /\ Answering(msgQ)' = Answering(q)
        /\ Established(msgQ)' = Established(q)
    BY <2>2 DEF Quiescent, Answering, Established
  <2>4. LinkFits(msgQ)' BY <1>3, <2>1, <2>2, <2>3 DEF LinkFits
  <2>5. QueryingIn(msgQ)' = QueryingIn(q) /\ OneQuery(msgQ)' = OneQuery(q)
    BY <2>2 DEF QueryingIn, OneQuery
  <2> QED BY <1>3, <2>1, <2>3, <2>4, <2>5 DEF Fresh, Keeps
<1>4. \/ mState' = mState /\ NoDataConnCommand(q)
      \/ /\ mState["AGNSS"] \in {"PENDING", "ACQUIRED"}
         /\ mState' = [mState EXCEPT !["AGNSS"] = "RELEASING"]
         /\ requestOrReleaseDataConn("AGNSS", mAgpsType["AGNSS"], "RELEASE", q)
  BY DEF processAgpsEventUnsubscribe
<1> QED BY <1>2, <1>3, <1>4

(* What the first report about the connection finds.                       *)
LEMMA HeadOpen ==
    ASSUME msgQ \in Seq(Messages), msgQ # <<>>, IsReport(Head(msgQ)), LinkFits(msgQ),
           Head(msgQ).m \in OpenReport
    PROVE  LET q == Tail(msgQ) IN
           /\ \/ mState["AGNSS"] \in {"PENDING", "ACQUIRED"} /\ Established(q) /\ Ordered0
              \/ mState["AGNSS"] = "RELEASING" /\ Established(q) /\ Ordered1("RELEASE")
              \/ mState["AGNSS"] = "RELEASING" /\ conn = "down" /\ OneReport(q, {"closed"}) /\ Ordered0
           /\ Fresh(msgQ) => ~QueryingIn(msgQ) /\ mState["AGNSS"] # "ACQUIRED"
<1>1. ~Established(msgQ) BY TailReport DEF Established, OpenReport
<1>2. Fresh(msgQ) => ~QueryingIn(msgQ) /\ mState["AGNSS"] # "ACQUIRED" BY <1>1 DEF Fresh
<1> QED BY <1>1, <1>2, TailReport DEF LinkFits, Quiescent, Answering, Established, OpenReport

LEMMA HeadEnd ==
    ASSUME msgQ \in Seq(Messages), msgQ # <<>>, IsReport(Head(msgQ)), LinkFits(msgQ),
           Head(msgQ).m \notin OpenReport
    PROVE  /\ Quiescent(Tail(msgQ))
           /\ \/ mState["AGNSS"] = "RELEASING" /\ (Ordered0 \/ Ordered1("RELEASE"))
              \/ /\ mState["AGNSS"] \in {"PENDING", "ACQUIRED"} /\ Ordered0
                 /\ mState["AGNSS"] = "PENDING" /\ Head(msgQ).m = "closed" => QueryingIn(msgQ)
           /\ Fresh(msgQ) /\ Head(msgQ).m = "failed" =>
                  ~QueryingIn(msgQ) /\ mState["AGNSS"] # "ACQUIRED"
<1>1. Head(msgQ).m = "failed" => ~Established(msgQ) BY TailReport DEF Established
<1>2. Fresh(msgQ) /\ Head(msgQ).m = "failed" => ~QueryingIn(msgQ) /\ mState["AGNSS"] # "ACQUIRED"
  BY <1>1 DEF Fresh
<1> QED BY <1>2, TailReport DEF LinkFits, Quiescent, Answering, Established, OpenReport

(* The open is granted at once.                                            *)
LEMMA AgnssGranted ==
    ASSUME SmType, UNCHANGED <<conn, wds>>, msgQ # <<>>, IsReport(Head(msgQ)), LinkFits(msgQ),
           Head(msgQ).m \in OpenReport, processAgpsEventGranted("AGNSS", Tail(msgQ))
    PROVE  Keeps(msgQ)
<1> DEFINE q == Tail(msgQ)
<1>1. /\ msgQ' = q /\ cmdQ' = cmdQ
      /\ \/ mState["AGNSS"] = "PENDING" /\ mState' = [mState EXCEPT !["AGNSS"] = "ACQUIRED"]
         \/ mState["AGNSS"] # "PENDING" /\ mState' = mState
  BY DEF processAgpsEventGranted, NoDataConnCommand
<1>2. IF mState["AGNSS"] = "PENDING" THEN mState'["AGNSS"] = "ACQUIRED"
                                     ELSE mState'["AGNSS"] = mState["AGNSS"]
  BY <1>1 DEF SmType, Nifs
<1>3. /\ Ordered0' = Ordered0
      /\ Ordered1("RELEASE")' = Ordered1("RELEASE")
      /\ Established(msgQ)' = Established(q)
      /\ OneReport(msgQ, {"closed"})' = OneReport(q, {"closed"})
      /\ QueryingIn(msgQ)' = QueryingIn(q)
  BY <1>1 DEF Ordered0, Ordered1, Established, QueryingIn
<1>4. /\ \/ mState["AGNSS"] \in {"PENDING", "ACQUIRED"} /\ Established(q) /\ Ordered0
         \/ mState["AGNSS"] = "RELEASING" /\ Established(q) /\ Ordered1("RELEASE")
         \/ mState["AGNSS"] = "RELEASING" /\ conn = "down" /\ OneReport(q, {"closed"}) /\ Ordered0
      /\ Fresh(msgQ) => ~QueryingIn(msgQ) /\ mState["AGNSS"] # "ACQUIRED"
  BY HeadOpen DEF SmType
<1>5. ~QueryingIn(msgQ) => ~QueryingIn(q) BY TailPdn DEF SmType, IsPdn, OpenReport, QueryingIn
<1>6. LinkFits(msgQ)' BY <1>2, <1>3, <1>4 DEF LinkFits
<1> QED BY <1>2, <1>3, <1>4, <1>5, <1>6 DEF Fresh, Keeps

(* The WDS library is asked about the open.                                *)
LEMMA AgnssQueried ==
    ASSUME SmType, EnvType, msgQ # <<>>, IsReport(Head(msgQ)), LinkFits(msgQ), conn' = conn,
           Head(msgQ).m \in OpenReport, Ignore(Tail(msgQ)),
           wds' = [wds EXCEPT !["AGNSS"] = @ + 1]
    PROVE  Keeps(msgQ)
<1> DEFINE q == Tail(msgQ)
<1>1. msgQ' = q /\ UNCHANGED <<cmdQ, mState>> BY DEF Ignore, NoDataConnCommand
<1>2. wds["AGNSS"] \in Nat /\ wds'["AGNSS"] = wds["AGNSS"] + 1 BY DEF EnvType, Nifs
<1>3. /\ Ordered0' = Ordered0
      /\ Ordered1("RELEASE")' = Ordered1("RELEASE")
      /\ Established(msgQ)' = Established(q)
      /\ OneReport(msgQ, {"closed"})' = OneReport(q, {"closed"})
  BY <1>1 DEF Ordered0, Ordered1, Established
<1>4. /\ \/ mState["AGNSS"] \in {"PENDING", "ACQUIRED"} /\ Established(q) /\ Ordered0
         \/ mState["AGNSS"] = "RELEASING" /\ Established(q) /\ Ordered1("RELEASE")
         \/ mState["AGNSS"] = "RELEASING" /\ conn = "down" /\ OneReport(q, {"closed"}) /\ Ordered0
      /\ Fresh(msgQ) => ~QueryingIn(msgQ) /\ mState["AGNSS"] # "ACQUIRED"
  BY HeadOpen DEF SmType
<1>5. QueryingIn(msgQ)' BY <1>2 DEF QueryingIn
<1>6. ~QueryingIn(msgQ) => OneQuery(msgQ)'
  <2>1. NoPdn(msgQ) => NoPdn(q) BY TailPdn DEF SmType, IsPdn, OpenReport
  <2> QED BY <1>1, <1>2, <2>1 DEF QueryingIn, OneQuery
<1>7. LinkFits(msgQ)' BY <1>1, <1>3, <1>4, <1>5 DEF LinkFits
<1>8. Established(q) BY <1>4 DEF Established
<1> QED BY <1>1, <1>3, <1>4, <1>6, <1>7, <1>8 DEF Fresh, Keeps

(* The library answers, in time or late.                                   *)
LEMMA AgnssAnswered ==
    ASSUME SmType, EnvType, UNCHANGED <<conn, wds>>, msgQ # <<>>, IsPdn(Head(msgQ)),
           LinkFits(msgQ), processAgpsEventGranted("AGNSS", Tail(msgQ))
    PROVE  Keeps(msgQ)
<1> DEFINE q == Tail(msgQ)
<1>1. /\ msgQ' = q /\ cmdQ' = cmdQ
      /\ \/ mState["AGNSS"] = "PENDING" /\ mState' = [mState EXCEPT !["AGNSS"] = "ACQUIRED"]
         \/ mState["AGNSS"] # "PENDING" /\ mState' = mState
  BY DEF processAgpsEventGranted, NoDataConnCommand
<1>2. IF mState["AGNSS"] = "PENDING" THEN mState'["AGNSS"] = "ACQUIRED"
                                     ELSE mState'["AGNSS"] = mState["AGNSS"]
  BY <1>1 DEF SmType, Nifs
<1>3. ~IsReport(Head(msgQ)) BY DEF IsReport, IsPdn
<1>4. SameReports(msgQ, msgQ') BY <1>1, <1>3, TailNoReport DEF SmType
<1>5. LinkFits(msgQ)' BY <1>1, <1>2, <1>4, SaidStill DEF LinkFits
<1>6. ASSUME Fresh(msgQ) PROVE Fresh(msgQ)'
  <2>1. ~NoPdn(msgQ) /\ (OnePdn(msgQ) => NoPdn(q)) BY TailPdn DEF SmType
  <2>2. /\ wds["AGNSS"] = 0 /\ OnePdn(msgQ) /\ Established(msgQ)
        /\ mState["AGNSS"] \in {"PENDING", "RELEASING"}
    BY <1>6, <2>1 DEF Fresh, QueryingIn, OneQuery
  <2>3. ~QueryingIn(msgQ)' BY <1>1, <2>1, <2>2 DEF QueryingIn
  <2>4. mState["AGNSS"] = "PENDING" => Ordered0
    BY <2>2 DEF LinkFits, Quiescent, Established, NoReport, OneReport
  <2> QED BY <1>1, <1>2, <1>4, <2>2, <2>3, <2>4, SaidStill DEF Fresh
<1> QED BY <1>5, <1>6 DEF Keeps

LEMMA AgnssEnded ==
    ASSUME SmType, UNCHANGED <<conn, wds>>, mState["AGNSS"] # "RELEASED" => mAGnssCb,
           msgQ # <<>>, IsReport(Head(msgQ)), LinkFits(msgQ),
           \/ Head(msgQ).m = "failed" /\ processAgpsEventDenied("AGNSS", Tail(msgQ))
           \/ Head(msgQ).m = "closed" /\ processAgpsEventReleased("AGNSS", Tail(msgQ))
    PROVE  LinkFits(msgQ)' /\ (Fresh(msgQ) /\ ~Overtakes => Fresh(msgQ)')
<1> DEFINE q == Tail(msgQ)
<1> USE DEF SmType
<1>1. /\ Quiescent(q)
      /\ \/ mState["AGNSS"] = "RELEASING" /\ (Ordered0 \/ Ordered1("RELEASE"))
         \/ /\ mState["AGNSS"] \in {"PENDING", "ACQUIRED"} /\ Ordered0
            /\ mState["AGNSS"] = "PENDING" /\ Head(msgQ).m = "closed" => QueryingIn(msgQ)
      /\ Fresh(msgQ) /\ Head(msgQ).m = "failed" =>
             ~QueryingIn(msgQ) /\ mState["AGNSS"] # "ACQUIRED"
  BY HeadEnd DEF OpenReport
<1>2. \/ mState["AGNSS"] = "RELEASING" /\ FinishReleasing("AGNSS", q)
      \/ DropAll("AGNSS", q) /\ Ordered0
      \/ Ignore(q) /\ mState["AGNSS"] = "ACQUIRED" /\ Head(msgQ).m = "failed" /\ Ordered0
      \/ Ignore(q) /\ mState["AGNSS"] = "PENDING" /\ Head(msgQ).m = "closed" /\ Ordered0
  BY <1>1 DEF processAgpsEventDenied, processAgpsEventReleased
<1>3. NoPdn(msgQ) <=> NoPdn(q) BY TailPdn DEF IsPdn, IsReport
<1>4. msgQ' = q BY <1>2 DEF FinishReleasing, DropAll, Ignore, NoDataConnCommand,
    requestOrReleaseDataConn
<1>5. Quiescent(msgQ)' /\ QueryingIn(msgQ)' = QueryingIn(msgQ)
  BY <1>1, <1>3, <1>4 DEF Quiescent, QueryingIn
<1>6. ASSUME Fresh(msgQ), ~Overtakes PROVE ~QueryingIn(msgQ)'
  <2>1. Head(msgQ).m = "closed" => ~Querying BY <1>4, <1>6 DEF Overtakes, IsReport
  <2>2. QueryingIn(msgQ) => Querying BY DEF QueryingIn, Querying, NoPdn, IsPdn, Queued
  <2> QED BY <1>1, <1>5, <1>6, <2>1, <2>2
<1>7. CASE NoDataConnCommand(q) /\ mState' = [mState EXCEPT !["AGNSS"] = "RELEASED"]
  <2>1. mState'["AGNSS"] = "RELEASED" /\ cmdQ' = cmdQ BY <1>7 DEF NoDataConnCommand, Nifs
  <2>2. Ordered0' \/ Ordered1("RELEASE")' BY <1>1, <2>1 DEF Ordered0, Ordered1
  <2> QED BY <1>5, <1>6, <2>1, <2>2 DEF LinkFits, Fresh
<1>8. CASE /\ mState["AGNSS"] = "RELEASING"
           /\ mState' = [mState EXCEPT !["AGNSS"] = "PENDING"]
           /\ requestOrReleaseDataConn("AGNSS", mAgpsType["AGNSS"], "REQUEST", q)
  <2>1. mState'["AGNSS"] = "PENDING" /\ mAgpsType["AGNSS"] \in Types /\ mAGnssCb
    BY <1>8 DEF Nifs
  <2>2. Ordered1("REQUEST")' \/ Ordered2("RELEASE", "REQUEST")'
    BY <1>1, <1>8, <2>1, AgnssCommand
  <2> QED BY <1>5, <1>6, <2>1, <2>2 DEF LinkFits, Fresh
<1>9. CASE /\ Ignore(q) /\ Ordered0
           /\ \/ mState["AGNSS"] = "ACQUIRED" /\ Head(msgQ).m = "failed"
              \/ mState["AGNSS"] = "PENDING" /\ Head(msgQ).m = "closed"
  <2>1. mState' = mState /\ Ordered0' BY <1>9 DEF Ignore, NoDataConnCommand, Ordered0
  <2>2. LinkFits(msgQ)' BY <1>1, <1>5, <1>9, <2>1 DEF LinkFits
  <2>3. Fresh(msgQ) => mState["AGNSS"] # "ACQUIRED" BY <1>1, <1>9
  <2> QED BY <1>6, <2>1, <2>2, <2>3 DEF Fresh
<1> QED BY <1>2, <1>7, <1>8, <1>9 DEF FinishReleasing, DropAll

-----------------------------------------------------------------------------
(* Every step keeps the link.                                              *)

OneSteadyClient == ~ClientMayBeAway /\ ~AckIdleRelease /\ "bad" \notin Apns

LEMMA PoppedLink ==
    ASSUME msgQ \in Seq(Messages), msgQ # <<>>, LinkFits(msgQ), ~IsReport(Head(msgQ)),
           ~IsPdn(Head(msgQ))
    PROVE  LinkFits(Tail(msgQ)) /\ (Fresh(msgQ) => Fresh(Tail(msgQ)))
<1>1. TellsAsMuch(msgQ, Tail(msgQ)) BY TailNoReport
<1>2. LinkFits(Tail(msgQ))
  BY <1>1 DEF LinkFits, Quiescent, Answering, Established, TellsAsMuch, SameReports, QueryingIn
<1>3. Fresh(msgQ) => Fresh(Tail(msgQ))
  BY <1>1 DEF Fresh, Established, TellsAsMuch, SameReports, QueryingIn, OneQuery
<1> QED BY <1>2, <1>3

LEMMA AdapterLink ==
    ASSUME IInv, LinkInv, OneSteadyClient, AdapterStep
    PROVE  /\ LinkFits(msgQ)'
           /\ Fresh(msgQ) /\ ~Overtakes => Fresh(msgQ)'
           /\ \/ mState'["AGNSS"] = mState["AGNSS"] /\ cmdQ' = cmdQ
              \/ mAGnssCb /\ "AGNSS" \in created
<1> USE DEF IInv, SmInv
<1> DEFINE q == Tail(msgQ)
           n == getAgpsStateMachine(Head(msgQ).t)
           Kept == LinkFits(msgQ)' /\ (Fresh(msgQ) /\ ~Overtakes => Fresh(msgQ)')
           There == \/ mState'["AGNSS"] = mState["AGNSS"] /\ cmdQ' = cmdQ
                    \/ mAGnssCb /\ "AGNSS" \in created
<1>1. /\ msgQ \in Seq(Messages) /\ msgQ # <<>> /\ LinkFits(msgQ) /\ Registered
      /\ SmType /\ EnvType
  BY DEF LinkInv, SmType, AdapterStep, Received, ProcInit, requestATL, releaseATL,
    ProcOpenSuccess, ProcAtlPdn, ProcOpenFailed, ProcClosed
<1>2. q \in Seq(Messages) /\ n \in Nifs BY <1>1, HeadType
<1>3. ~IsReport(Head(msgQ)) /\ ~IsPdn(Head(msgQ)) => LinkFits(q) /\ (Fresh(msgQ) => Fresh(q))
  BY <1>1, PoppedLink
<1>4. conn' = conn
  BY DEF AdapterStep, ProcInit, requestATL, releaseATL, ProcOpenSuccess, ProcAtlPdn,
    ProcOpenFailed, ProcClosed, envVars
<1>5. mState["AGNSS"] # "RELEASED" => mAGnssCb /\ "AGNSS" \in created BY <1>1 DEF Registered
<1>6. ASSUME ~IsReport(Head(msgQ)), ~IsPdn(Head(msgQ)), wds'["AGNSS"] = wds["AGNSS"],
             \/ Ignore(q)
             \/ \E h, t : processAgpsEventSubscribe("INTERNET", h, t, q)
             \/ \E h : processAgpsEventUnsubscribe("INTERNET", h, q)
             \/ reportAtlOpenSuccess("INTERNET", q)
             \/ reportAtlOpenFailed("INTERNET", q)
             \/ reportAtlClosed("INTERNET", q)
      PROVE  Kept /\ There
  <2>1. cmdQ' = cmdQ /\ mState'["AGNSS"] = mState["AGNSS"] /\ TellsAsMuch(q, msgQ')
    BY <1>1, <1>2, <1>6, InternetEvent
  <2>2. Keeps(q) BY <1>3, <1>4, <1>6, <2>1, UntouchedLink
  <2> QED BY <1>3, <1>6, <2>1, <2>2 DEF Keeps
<1>7. CASE ProcInit
  <2>1. ~IsReport(Head(msgQ)) /\ ~IsPdn(Head(msgQ))
    BY <1>7 DEF ProcInit, Received, IsReport, IsPdn
  <2>2. UNCHANGED <<mState, cmdQ, wds>> /\ TellsAsMuch(q, msgQ')
    BY <1>7 DEF ProcInit, TellsAsMuch, SameReports
  <2>3. Keeps(q) BY <1>3, <1>4, <2>1, <2>2, UntouchedLink
  <2> QED BY <1>3, <2>1, <2>2, <2>3 DEF Keeps
<1>8. CASE requestATL
  <2> DEFINE t == EffectiveType(Head(msgQ).t)
             m == getAgpsStateMachine(t)
  <2>1. ~IsReport(Head(msgQ)) /\ ~IsPdn(Head(msgQ)) /\ wds' = wds
    BY <1>8 DEF requestATL, Received, IsReport, IsPdn
  <2>2. t \in Types /\ m \in Nifs BY <1>1, HeadType
  <2>3. CASE m = "AGNSS" /\ m \in created
    <3>1. mAGnssCb
      <4>1. 1 \in 1..Len(msgQ) /\ msgQ[1].m = "request" BY <1>1, <1>8 DEF requestATL, Received
      <4> QED BY <1>1, <2>3, <4>1 DEF Registered
    <3>2. processAgpsEventSubscribe("AGNSS", Head(msgQ).h, t, q) BY <1>8, <2>3 DEF requestATL
    <3>3. Keeps(q) BY <1>1, <1>2, <1>3, <1>4, <2>1, <2>2, <3>1, <3>2, AgnssSubscribe
    <3> QED BY <1>3, <2>1, <2>3, <3>1, <3>3 DEF Keeps
  <2>4. CASE m = "INTERNET" /\ m \in created BY <1>6, <1>8, <2>1, <2>4 DEF requestATL
  <2>5. CASE m \notin created
    <3>1. UNCHANGED <<mState, cmdQ>> /\ TellsAsMuch(q, msgQ')
      BY <1>8, <2>5 DEF requestATL, NoDataConnCommand, TellsAsMuch, SameReports
    <3>2. Keeps(q) BY <1>3, <1>4, <2>1, <3>1, UntouchedLink
    <3> QED BY <1>3, <2>1, <3>1, <3>2 DEF Keeps
  <2> QED BY <2>2, <2>3, <2>4, <2>5 DEF Nifs
<1>9. CASE releaseATL
  <2> DEFINE h == Head(msgQ).h
  <2>1. ~IsReport(Head(msgQ)) /\ ~IsPdn(Head(msgQ)) /\ wds' = wds
    BY <1>9 DEF releaseATL, Received, IsReport, IsPdn
  <2>2. CASE h \in mSubscriberList["AGNSS"]
    <3>1. processAgpsEventUnsubscribe("AGNSS", h, q) BY <1>9, <2>2 DEF releaseATL, Nifs
    <3>2. mState["AGNSS"] # "RELEASED" BY <2>2 DEF ReleasedIsEmpty, Nifs
    <3>3. Keeps(q) BY <1>2, <1>3, <1>4, <1>5, <2>1, <2>2, <3>1, <3>2, AgnssUnsubscribe
    <3> QED BY <1>3, <1>5, <2>1, <3>2, <3>3 DEF Keeps
  <2>3. CASE h \notin mSubscriberList["AGNSS"] BY <1>6, <1>9, <2>1, <2>3 DEF releaseATL
  <2> QED BY <2>2, <2>3
<1>10. CASE ProcOpenSuccess
  <2>1. /\ Head(msgQ).m \in OpenReport
        /\ \/ wds' = [wds EXCEPT ![n] = @ + 1] /\ Ignore(q)
           \/ wds' = wds /\ reportAtlOpenSuccess(n, q)
    BY <1>10 DEF ProcOpenSuccess, Received, OpenReport
  <2>2. CASE n = "AGNSS"
    <3>1. IsReport(Head(msgQ)) BY <2>1, <2>2 DEF IsReport, OpenReport
    <3>2. mState["AGNSS"] # "RELEASED" BY <1>1, <2>1, <3>1, HeadOpen
    <3>3. Keeps(msgQ) BY <1>1, <1>4, <1>5, <2>1, <2>2, <3>1, <3>2, AgnssGranted, AgnssQueried
        DEF reportAtlOpenSuccess
    <3> QED BY <1>5, <3>2, <3>3 DEF Keeps
  <2>3. CASE n = "INTERNET"
    <3>1. ~IsReport(Head(msgQ)) /\ ~IsPdn(Head(msgQ)) BY <2>3 DEF IsReport, IsPdn
    <3>2. wds'["AGNSS"] = wds["AGNSS"] BY <1>1, <2>1, <2>3 DEF EnvType, Nifs
    <3> QED BY <1>6, <2>1, <2>3, <3>1, <3>2
  <2> QED BY <1>2, <2>2, <2>3 DEF Nifs
<1>11. CASE ProcAtlPdn
  <2>1. Head(msgQ).m = "pdn" /\ reportAtlOpenSuccess(n, q) /\ wds' = wds
    BY <1>11 DEF ProcAtlPdn, Received
  <2>2. ~IsReport(Head(msgQ)) BY <2>1 DEF IsReport
  <2>3. CASE n = "AGNSS" /\ n \in created
    <3>1. IsPdn(Head(msgQ)) /\ processAgpsEventGranted("AGNSS", q)
      BY <2>1, <2>3 DEF IsPdn, reportAtlOpenSuccess
    <3>2. Keeps(msgQ) BY <1>1, <1>4, <2>1, <3>1, AgnssAnswered
    <3>3. cmdQ' = cmdQ /\ (mState["AGNSS"] = "RELEASED" => mState' = mState)
      BY <3>1 DEF processAgpsEventGranted, NoDataConnCommand
    <3> QED BY <1>5, <3>2, <3>3 DEF Keeps
  <2>4. CASE n = "AGNSS" /\ n \notin created
    <3>1. IsPdn(Head(msgQ)) /\ Ignore(q) /\ mState["AGNSS"] = "RELEASED"
      BY <1>5, <2>1, <2>4 DEF IsPdn, reportAtlOpenSuccess
    <3>2. processAgpsEventGranted("AGNSS", q) BY <3>1 DEF Ignore, processAgpsEventGranted
    <3>3. Keeps(msgQ) BY <1>1, <1>4, <2>1, <3>1, <3>2, AgnssAnswered
    <3> QED BY <3>1, <3>3 DEF Keeps, Ignore, NoDataConnCommand
  <2>5. CASE n = "INTERNET" BY <1>6, <2>1, <2>2, <2>5 DEF IsPdn
  <2> QED BY <1>2, <2>3, <2>4, <2>5 DEF Nifs
<1>12. CASE ProcOpenFailed \/ ProcClosed
  <2>1. /\ \/ Head(msgQ).m = "failed" /\ reportAtlOpenFailed(n, q)
           \/ Head(msgQ).m = "closed" /\ reportAtlClosed(n, q)
        /\ wds' = wds
    BY <1>12 DEF ProcOpenFailed, ProcClosed, Received
  <2>2. CASE n = "AGNSS"
    <3>1. IsReport(Head(msgQ)) BY <2>1, <2>2 DEF IsReport
    <3>2. mState["AGNSS"] # "RELEASED" BY <1>1, <2>1, <3>1, HeadEnd DEF OpenReport
    <3>3. Kept BY <1>1, <1>4, <1>5, <2>1, <2>2, <3>1, <3>2, AgnssEnded DEF reportAtlOpenFailed,
        reportAtlClosed
    <3> QED BY <1>5, <3>2, <3>3
  <2>3. CASE n = "INTERNET" BY <1>6, <2>1, <2>3 DEF IsReport, IsPdn
  <2> QED BY <1>2, <2>2, <2>3 DEF Nifs
<1> QED BY <1>7, <1>8, <1>9, <1>10, <1>11, <1>12 DEF AdapterStep

(* The client's steps: it reads a command, or reports on its connection.   *)
LEMMA ClientReports ==
    ASSUME msgQ \in Seq(Messages), NEW k \in {"open_named", "open_empty", "failed", "closed"},
           sendMsg(k, NoHandle, "SUPL")
    PROVE  /\ NoReport(msgQ) => OneReport(msgQ, {k})'
           /\ NoReport(msgQ) /\ k \in OpenReport => OneReport(msgQ, OpenReport)'
           /\ OneReport(msgQ, OpenReport) /\ k = "closed" => OpenThenClosed(msgQ)'
           /\ (NoPdn(msgQ) <=> NoPdn(msgQ)') /\ (OnePdn(msgQ) => OnePdn(msgQ)')
<1> DEFINE m == Msg(k, NoHandle, "SUPL")
<1>1. m \in Messages /\ IsReport(m) /\ m.m = k
  BY MsgType DEF ReportKinds, Types, Msg, IsReport, getAgpsStateMachine
<1>2. msgQ' = Append(msgQ, m) BY DEF sendMsg
<1> HIDE DEF m
<1>3. \A r : OneReport(r, {k}) /\ k \in OpenReport => OneReport(r, OpenReport) BY DEF OneReport
<1> QED BY <1>1, <1>2, <1>3, AppendReport

LEMMA ClientLink ==
    ASSUME IInv, LinkFits(msgQ), OneSteadyClient, ClientStep \/ dataConnClosed
    PROVE  Keeps(msgQ)
<1> USE DEF IInv, SmInv, SmType
<1>1. /\ (QueryingIn(msgQ) <=> QueryingIn(msgQ)') /\ (OneQuery(msgQ) => OneQuery(msgQ)')
      /\ mState' = mState /\ wds' = wds
  <2>1. msgQ' = msgQ \/ \E k \in {"open_named", "open_empty", "failed", "closed"} :
                            sendMsg(k, NoHandle, "SUPL")
    BY DEF ClientStep, ClientTakeRequest, ClientTakeRelease, dataConnOpen, dataConnFailed,
      dataConnClosed, OpenKind
  <2>2. UNCHANGED <<mState, wds>>
    BY DEF ClientStep, ClientTakeRequest, ClientTakeRelease, dataConnOpen, dataConnFailed,
      dataConnClosed, smVars
  <2>3. (NoPdn(msgQ) <=> NoPdn(msgQ)') /\ (OnePdn(msgQ) => OnePdn(msgQ)')
    BY <2>1, ClientReports
  <2> QED BY <2>2, <2>3 DEF QueryingIn, OneQuery
<1>2. CASE ClientTakeRequest
  <2>1. /\ cmdQ # <<>> /\ Head(cmdQ).c = "REQUEST" /\ cmdQ' = Tail(cmdQ)
        /\ conn' = "opening" /\ msgQ' = msgQ
    BY <1>2 DEF ClientTakeRequest
  <2>2. /\ \/ mState["AGNSS"] \in {"PENDING", "ACQUIRED"} /\ Ordered0'
           \/ mState["AGNSS"] = "RELEASING" /\ Ordered1("RELEASE")'
        /\ Quiescent(msgQ) /\ ~Ordered0
    BY <2>1, TakeCommand DEF LinkFits
  <2>3. ~Established(msgQ) BY <2>2 DEF Quiescent, Established, NoReport, OneReport
  <2>4. LinkFits(msgQ)' BY <1>1, <2>1, <2>2 DEF LinkFits, Answering, Quiescent
  <2> QED BY <1>1, <2>2, <2>3, <2>4 DEF Fresh, Keeps
<1>3. CASE ClientTakeRelease
  <2>1. /\ cmdQ # <<>> /\ Head(cmdQ).c = "RELEASE" /\ cmdQ' = Tail(cmdQ)
        /\ conn' = "down"
        /\ IF conn # "down" THEN sendMsg("closed", NoHandle, "SUPL") ELSE msgQ' = msgQ
    BY <1>3 DEF ClientTakeRelease, OneSteadyClient
  <2>2. /\ \/ mState["AGNSS"] \in {"RELEASED", "RELEASING"} /\ Quiescent(msgQ) /\ Ordered0'
           \/ /\ mState["AGNSS"] \in {"PENDING", "ACQUIRED"} /\ Quiescent(msgQ)
              /\ Ordered1("REQUEST")'
           \/ mState["AGNSS"] = "RELEASING" /\ Quiescent(msgQ)
                /\ Ordered2("REQUEST", "RELEASE")'
           \/ mState["AGNSS"] = "RELEASING" /\ (Answering(msgQ) \/ Established(msgQ)) /\ Ordered0'
        /\ ~Ordered0
    BY <2>1, TakeCommand DEF LinkFits
  <2>3. Quiescent(msgQ) => Quiescent(msgQ)' BY <2>1 DEF Quiescent
  <2>4. ASSUME Answering(msgQ) \/ Established(msgQ)
        PROVE  OneReport(msgQ, {"failed"})' \/ OneReport(msgQ, {"closed"})' \/ OpenThenClosed(msgQ)'
    <3>1. CASE conn = "down" BY <2>1, <2>4, <3>1 DEF Answering, Established
    <3>2. CASE conn # "down"
      <4>1. NoReport(msgQ) \/ OneReport(msgQ, OpenReport)
        BY <2>4, <3>2 DEF Answering, Established
      <4> QED BY <2>1, <3>2, <4>1, ClientReports
    <3> QED BY <3>1, <3>2
  <2>5. LinkFits(msgQ)' BY <1>1, <2>1, <2>2, <2>3, <2>4 DEF LinkFits
  <2>6. Established(msgQ) => Established(msgQ)' BY <2>1, ClientReports DEF Established
  <2> QED BY <1>1, <2>2, <2>5, <2>6 DEF Fresh, Keeps
<1>4. CASE dataConnOpen \/ dataConnFailed
  <2>1. /\ conn = "opening" /\ cmdQ' = cmdQ
        /\ \/ /\ conn' = "up"
              /\ \E k \in OpenReport : sendMsg(k, NoHandle, "SUPL")
           \/ conn' = "down" /\ sendMsg("failed", NoHandle, "SUPL")
    BY <1>4 DEF dataConnOpen, dataConnFailed, OpenKind, OpenReport
  <2>2. /\ \/ mState["AGNSS"] \in {"PENDING", "ACQUIRED"} /\ Ordered0
           \/ mState["AGNSS"] = "RELEASING" /\ Ordered1("RELEASE")
        /\ NoReport(msgQ) /\ ~Established(msgQ)
    BY <2>1 DEF LinkFits, Quiescent, Answering, Established
  <2>3. Answering(msgQ)' BY <2>1, <2>2, ClientReports DEF OpenReport, Answering
  <2>4. LinkFits(msgQ)' BY <1>1, <2>1, <2>2, <2>3 DEF LinkFits, Ordered0, Ordered1
  <2> QED BY <1>1, <2>2, <2>4 DEF Fresh, Keeps
<1>5. CASE dataConnClosed
  <2>1. /\ conn = "up" /\ conn' = "down" /\ sendMsg("closed", NoHandle, "SUPL")
        /\ cmdQ' = cmdQ
    BY <1>5 DEF dataConnClosed
  <2>2. \/ /\ mState["AGNSS"] \in {"PENDING", "ACQUIRED"} /\ Ordered0
           /\ OneReport(msgQ, OpenReport)
        \/ /\ mState["AGNSS"] \in {"PENDING", "ACQUIRED"} /\ Ordered0 /\ NoReport(msgQ)
           /\ mState["AGNSS"] = "PENDING" => QueryingIn(msgQ)
        \/ /\ mState["AGNSS"] = "RELEASING" /\ Ordered1("RELEASE")
           /\ NoReport(msgQ) \/ OneReport(msgQ, OpenReport)
    BY <2>1 DEF LinkFits, Quiescent, Answering, Established
  <2>3. /\ NoReport(msgQ) => Established(msgQ)'
        /\ OneReport(msgQ, OpenReport) => Answering(msgQ)'
    BY <2>1, ClientReports DEF Answering, Established
  <2>4. /\ Ordered0' = Ordered0 /\ Ordered1("RELEASE")' = Ordered1("RELEASE")
    BY <2>1 DEF Ordered0, Ordered1
  <2>5. LinkFits(msgQ)' BY <1>1, <2>2, <2>3, <2>4 DEF LinkFits
  <2>6. Established(msgQ) => Established(msgQ)' BY <2>1, <2>3 DEF Established
  <2> QED BY <1>1, <2>4, <2>5, <2>6 DEF Fresh, Keeps
<1> QED BY <1>2, <1>3, <1>4, <1>5 DEF ClientStep

(* Everyone else leaves the nif and the client's connection alone.         *)
LEMMA OthersLink ==
    ASSUME IInv, LinkInv, OneSteadyClient,
           \/ \E h \in Handles : (\E t \in Types : ModemRequest(h, t)) \/ ModemRelease(h)
           \/ NotifyNetworkInfo \/ AGnssCreate \/ setCallback
    PROVE  Keeps(msgQ)
<1>1. LinkFits(msgQ) /\ msgQ \in Seq(Messages) BY DEF LinkInv, IInv, SmInv, SmType
<1>2. UNCHANGED <<mState, cmdQ, conn, wds>>
  BY DEF ModemRequest, ModemRelease, NotifyNetworkInfo, AGnssCreate, setCallback, smVars,
    envVars
<1>3. \/ msgQ' = msgQ
      \/ \E m \in Messages : ~IsReport(m) /\ ~IsPdn(m) /\ msgQ' = Append(msgQ, m)
  <2>1. CASE NotifyNetworkInfo \/ setCallback BY <2>1 DEF NotifyNetworkInfo, setCallback
  <2>2. CASE AGnssCreate
    <3>1. /\ Msg("init", NoHandle, "SUPL") \in Messages
          /\ ~IsReport(Msg("init", NoHandle, "SUPL")) /\ ~IsPdn(Msg("init", NoHandle, "SUPL"))
      BY MsgType DEF ReportKinds, Types, Msg, IsReport, IsPdn
    <3> QED BY <2>2, <3>1 DEF AGnssCreate, sendMsg
  <2>3. ASSUME NEW h \in Handles, NEW t \in Types, ModemRequest(h, t) \/ ModemRelease(h)
        PROVE  \E m \in Messages : ~IsReport(m) /\ ~IsPdn(m) /\ msgQ' = Append(msgQ, m)
    <3>1. \A k \in ModemKinds, x \in Types :
              Msg(k, h, x) \in Messages /\ ~IsReport(Msg(k, h, x)) /\ ~IsPdn(Msg(k, h, x))
      BY MsgType DEF ModemKinds, Msg, IsReport, IsPdn
    <3> QED BY <2>3, <3>1 DEF ModemRequest, ModemRelease, sendMsg, ModemKinds, Types
  <2> QED BY <2>1, <2>2, <2>3 DEF Types
<1>4. TellsAsMuch(msgQ, msgQ') BY <1>1, <1>3, AppendNoReport DEF TellsAsMuch, SameReports
<1> QED BY <1>1, <1>2, <1>4, UntouchedLink

(* The library answers: one query less, one message more.                  *)
LEMMA WdsLink ==
    ASSUME IInv, LinkInv, NEW n \in Nifs, reportPdnTypeFromWds(n)
    PROVE  Keeps(msgQ)
<1> DEFINE m == Msg("pdn", NoHandle, IF n = "AGNSS" THEN "SUPL" ELSE "WWAN_ANY")
<1>1. LinkFits(msgQ) /\ msgQ \in Seq(Messages) /\ wds \in [Nifs -> Nat]
  BY DEF LinkInv, IInv, SmInv, SmType, EnvType
<1>2. /\ wds[n] > 0 /\ wds' = [wds EXCEPT ![n] = @ - 1] /\ msgQ' = Append(msgQ, m)
      /\ UNCHANGED <<mState, cmdQ, conn>>
  BY DEF reportPdnTypeFromWds, sendMsg, smVars, envVars
<1>3. m \in Messages /\ ~IsReport(m) /\ (IsPdn(m) <=> n = "AGNSS")
  BY MsgType DEF ReportKinds, Types, Msg, IsReport, IsPdn, getAgpsStateMachine, Nifs
<1> HIDE DEF m
<1>4. CASE n = "INTERNET"
  <2>1. TellsAsMuch(msgQ, msgQ') BY <1>1, <1>2, <1>3, <1>4, AppendNoReport
  <2> QED BY <1>1, <1>2, <1>4, <2>1, UntouchedLink DEF Nifs
<1>5. CASE n = "AGNSS"
  <2>1. SameReports(msgQ, msgQ') BY <1>1, <1>2, <1>3, AppendNoReport
  <2>2. ~NoPdn(msgQ)' /\ (NoPdn(msgQ) => OnePdn(msgQ)') BY <1>1, <1>2, <1>3, <1>5, AppendPdn
  <2>3. wds["AGNSS"] \in Nat \ {0} /\ wds'["AGNSS"] = wds["AGNSS"] - 1
    BY <1>1, <1>2, <1>5 DEF Nifs
  <2>4. QueryingIn(msgQ)' /\ QueryingIn(msgQ) BY <2>2, <2>3 DEF QueryingIn
  <2>5. OneQuery(msgQ) => OneQuery(msgQ)' BY <2>2, <2>3 DEF OneQuery
  <2>6. LinkFits(msgQ)' BY <1>1, <1>2, <2>1, <2>4, SaidStill DEF LinkFits
  <2> QED BY <1>2, <2>1, <2>4, <2>5, <2>6, SaidStill DEF Fresh, Keeps
<1> QED BY <1>4, <1>5 DEF Nifs

(* The requests and the creations of a nif that are queued after a step    *)
(* were queued before it, further back by at most one.                     *)
NoneNew ==
    \E d \in {0, 1} : \A i \in 1..Len(msgQ') :
        msgQ'[i].m \in {"request", "init"} =>
            i + d \in 1..Len(msgQ) /\ msgQ'[i] = msgQ[i + d]

LEMMA AppendNoneNew ==
    ASSUME msgQ \in Seq(Messages), NEW q \in Seq(Messages), NEW d \in {0, 1},
           \A i \in 1..Len(q) : i + d \in 1..Len(msgQ) /\ q[i] = msgQ[i + d],
           \/ msgQ' = q
           \/ \E m : m.m \notin {"request", "init"} /\ msgQ' = Append(q, m)
    PROVE  NoneNew
<1>1. CASE msgQ' = q BY <1>1 DEF NoneNew
<1>2. ASSUME NEW m, m.m \notin {"request", "init"}, msgQ' = Append(q, m)
      PROVE  NoneNew
  <2>1. /\ Len(q) \in Nat /\ Len(msgQ') = Len(q) + 1
        /\ msgQ'[Len(q) + 1] = m
        /\ \A i \in 1..Len(q) : msgQ'[i] = q[i]
    BY <1>2
  <2>2. \A i \in 1..Len(msgQ') : i \in 1..Len(q) \/ i = Len(q) + 1 BY <2>1
  <2>3. \A i \in 1..Len(msgQ') :
            msgQ'[i].m \in {"request", "init"} =>
                i + d \in 1..Len(msgQ) /\ msgQ'[i] = msgQ[i + d]
    BY <1>2, <2>1, <2>2
  <2> QED BY <2>3 DEF NoneNew
<1> QED BY <1>1, <1>2

LEMMA EventQueues ==
    ASSUME NEW n, NEW h, NEW t, NEW q,
           \/ processAgpsEventSubscribe(n, h, t, q)
           \/ processAgpsEventUnsubscribe(n, h, q)
           \/ reportAtlOpenSuccess(n, q)
           \/ reportAtlOpenFailed(n, q)
           \/ reportAtlClosed(n, q)
           \/ NoDataConnCommand(q)
    PROVE  msgQ' = q \/ \E m : m.m \notin {"request", "init"} /\ msgQ' = Append(q, m)
<1>1. \/ \E k, x, c : requestOrReleaseDataConn(k, x, c, q)
      \/ NoDataConnCommand(q)
  BY DEF processAgpsEventSubscribe, processAgpsEventUnsubscribe, reportAtlOpenSuccess,
    reportAtlOpenFailed, reportAtlClosed, processAgpsEventGranted, processAgpsEventDenied,
    processAgpsEventReleased, Ignore, DropAll, FinishReleasing
<1>2. msgQ' = q \/ \E c, apn : msgQ' = NativeAnswer(c, apn, q)
  BY <1>1 DEF requestOrReleaseDataConn, NoDataConnCommand
<1>3. \A k \in {"closed", "failed", "open_named", "open_empty"} :
          Msg(k, NoHandle, "WWAN_ANY").m \notin {"request", "init"}
  BY DEF Msg
<1>4. \A apn : OpenKind(apn) \in {"open_named", "open_empty"} BY DEF OpenKind
<1> QED BY <1>2, <1>3, <1>4 DEF NativeAnswer

LEMMA AdapterNoneNew ==
    ASSUME msgQ \in Seq(Messages), AdapterStep
    PROVE  NoneNew
<1> DEFINE q == Tail(msgQ)
<1>1. msgQ # <<>>
  BY DEF AdapterStep, Received, ProcInit, requestATL, releaseATL, ProcOpenSuccess, ProcAtlPdn,
    ProcOpenFailed, ProcClosed
<1>2. \E n, h, t :
          \/ processAgpsEventSubscribe(n, h, t, q)
          \/ processAgpsEventUnsubscribe(n, h, q)
          \/ reportAtlOpenSuccess(n, q)
          \/ reportAtlOpenFailed(n, q)
          \/ reportAtlClosed(n, q)
          \/ NoDataConnCommand(q)
          \/ msgQ' = q
  <2>1. CASE ProcInit BY <2>1 DEF ProcInit
  <2>2. CASE requestATL BY <2>2 DEF requestATL
  <2>3. CASE releaseATL BY <2>3 DEF releaseATL, Ignore
  <2>4. CASE ProcOpenSuccess \/ ProcAtlPdn \/ ProcOpenFailed \/ ProcClosed
    BY <2>4 DEF ProcOpenSuccess, ProcAtlPdn, ProcOpenFailed, ProcClosed, Ignore
  <2> QED BY <2>1, <2>2, <2>3, <2>4 DEF AdapterStep
<1>3. \/ msgQ' = q
      \/ \E m : m.m \notin {"request", "init"} /\ msgQ' = Append(q, m)
  BY <1>2, EventQueues
<1>4. q \in Seq(Messages) /\ \A i \in 1..Len(q) : i + 1 \in 1..Len(msgQ) /\ q[i] = msgQ[i + 1]
  BY <1>1, TailIndex, HeadType
<1> QED BY <1>3, <1>4, AppendNoneNew

(* The client's side of Registered.                                        *)
LEMMA NoneNewRegistered ==
    ASSUME Registered, NoneNew, UNCHANGED <<created, mAGnssCb>>, Len(msgQ') \in Nat,
           \/ mState'["AGNSS"] = mState["AGNSS"] /\ (Ordered0 => Ordered0')
           \/ mAGnssCb /\ "AGNSS" \in created
    PROVE  Registered'
<1>1. PICK d \in {0, 1} : \A i \in 1..Len(msgQ') :
          msgQ'[i].m \in {"request", "init"} =>
              i + d \in 1..Len(msgQ) /\ msgQ'[i] = msgQ[i + d]
  BY DEF NoneNew
<1>2. "AGNSS" \notin created \/ ~mAGnssCb => mState'["AGNSS"] = "RELEASED" /\ Ordered0'
  BY DEF Registered
<1>3. ~mAGnssCb /\ "AGNSS" \in created => \A i \in 1..Len(msgQ') : msgQ'[i].m # "request"
  BY <1>1 DEF Registered
<1>4. ASSUME ~mAGnssCb, NEW i \in 1..Len(msgQ'), NEW j \in 1..Len(msgQ'),
             IsInit(msgQ'[i]), msgQ'[j].m = "request"
      PROVE  j < i
  <2>1. /\ i + d \in 1..Len(msgQ) /\ IsInit(msgQ[i + d])
        /\ j + d \in 1..Len(msgQ) /\ msgQ[j + d].m = "request"
    BY <1>1, <1>4 DEF IsInit
  <2>2. j + d < i + d BY <1>4, <2>1 DEF Registered
  <2> QED BY <2>2
<1>5. \A i \in 1..Len(msgQ') : msgQ'[i].m = "init" => msgQ'[i].t # "SUPL_ES"
  BY <1>1 DEF Registered
<1> QED BY <1>2, <1>3, <1>4, <1>5 DEF Registered

(* A nif is created while the client is away only before anyone asks it.   *)
LEMMA InitRegistered ==
    ASSUME IInv, Registered, ProcInit
    PROVE  Registered'
<1> USE DEF IInv, SmInv, SmType
<1>1. /\ msgQ # <<>> /\ Head(msgQ).m = "init" /\ msgQ' = Tail(msgQ)
      /\ created' = created \cup {getAgpsStateMachine(Head(msgQ).t)}
      /\ UNCHANGED <<mState, cmdQ, mAGnssCb>>
  BY DEF ProcInit, Received, envVars
<1>2. /\ 1 \in 1..Len(msgQ) /\ Head(msgQ) = msgQ[1]
      /\ \A i \in 1..Len(msgQ') : i \in Nat \ {0} /\ i + 1 \in 1..Len(msgQ) /\ msgQ'[i] = msgQ[i + 1]
  BY <1>1, TailIndex
<1>3. "AGNSS" \notin created' \/ ~mAGnssCb => mState["AGNSS"] = "RELEASED" /\ Ordered0'
  BY <1>1 DEF Registered, Ordered0
<1>4. ASSUME ~mAGnssCb, "AGNSS" \in created', NEW i \in 1..Len(msgQ')
      PROVE  msgQ'[i].m # "request"
  <2>1. CASE "AGNSS" \in created BY <1>2, <1>4, <2>1 DEF Registered
  <2>2. CASE "AGNSS" \notin created
    <3>1. IsInit(msgQ[1]) BY <1>1, <1>2, <1>4, <2>2 DEF IsInit
    <3>2. ~(i + 1 < 1) BY <1>2
    <3> QED BY <1>2, <1>4, <3>1, <3>2 DEF Registered
  <2> QED BY <2>1, <2>2
<1>5. ASSUME ~mAGnssCb, NEW i \in 1..Len(msgQ'), NEW j \in 1..Len(msgQ'),
             IsInit(msgQ'[i]), msgQ'[j].m = "request"
      PROVE  j < i
  <2>1. j + 1 < i + 1 BY <1>2, <1>5 DEF Registered
  <2> QED BY <1>2, <2>1
<1>6. \A i \in 1..Len(msgQ') : msgQ'[i].m = "init" => msgQ'[i].t # "SUPL_ES"
  BY <1>2 DEF Registered
<1> QED BY <1>1, <1>3, <1>4, <1>5, <1>6 DEF Registered

(* The creation of AGnss is queued behind every request there is.          *)
LEMMA CreateRegistered ==
    ASSUME IInv, Registered, AGnssCreate
    PROVE  Registered'
<1> USE DEF IInv, SmInv, SmType
<1> DEFINE m == Msg("init", NoHandle, "SUPL")
<1>1. /\ ~AGnssCreated /\ msgQ' = Append(msgQ, m)
      /\ UNCHANGED <<created, mState, cmdQ, mAGnssCb>>
  BY DEF AGnssCreate, sendMsg, smVars, envVars
<1>2. m.m = "init" /\ m.t = "SUPL" BY DEF Msg
<1> HIDE DEF m
<1>3. /\ Len(msgQ) \in Nat /\ Len(msgQ') = Len(msgQ) + 1
      /\ msgQ'[Len(msgQ) + 1] = m
      /\ \A i \in 1..Len(msgQ) : msgQ'[i] = msgQ[i]
  BY <1>1
<1>4. \A i \in 1..Len(msgQ') :
          \/ i \in 1..Len(msgQ) /\ msgQ'[i] = msgQ[i] /\ i < Len(msgQ')
          \/ i = Len(msgQ') /\ msgQ'[i] = m
  BY <1>3
<1>5. "AGNSS" \notin created BY <1>1 DEF AGnssCreated
<1>6. mState["AGNSS"] = "RELEASED" /\ Ordered0' BY <1>1, <1>5 DEF Registered, Ordered0
<1>7. ASSUME ~mAGnssCb, NEW i \in 1..Len(msgQ'), NEW j \in 1..Len(msgQ'),
             IsInit(msgQ'[i]), msgQ'[j].m = "request"
      PROVE  j < i
  <2>1. j \in 1..Len(msgQ) /\ msgQ'[j] = msgQ[j] /\ j < Len(msgQ') BY <1>2, <1>4, <1>7
  <2>2. CASE i = Len(msgQ') BY <2>1, <2>2
  <2>3. CASE i \in 1..Len(msgQ) /\ msgQ'[i] = msgQ[i] BY <1>7, <2>1, <2>3 DEF Registered
  <2> QED BY <1>4, <2>2, <2>3
<1>8. \A i \in 1..Len(msgQ') : msgQ'[i].m = "init" => msgQ'[i].t # "SUPL_ES"
  BY <1>2, <1>4 DEF Registered
<1> QED BY <1>1, <1>5, <1>6, <1>7, <1>8 DEF Registered

(* No request comes in between the creation of AGnss and its setCallback.  *)
LEMMA RequestRegistered ==
    ASSUME IInv, Registered, OneSteadyClient, NEW h \in Handles, NEW t \in Types,
           ModemRequest(h, t)
    PROVE  Registered'
<1> USE DEF IInv, SmInv, SmType
<1> DEFINE m == Msg("request", h, t)
<1>1. /\ AGnssCreated => mAGnssCb
      /\ msgQ' = Append(msgQ, m)
      /\ UNCHANGED <<created, mState, cmdQ, mAGnssCb>>
  BY DEF ModemRequest, sendMsg, smVars, envVars, OneSteadyClient
<1>2. m.m = "request" BY DEF Msg
<1> HIDE DEF m
<1>3. /\ Len(msgQ) \in Nat /\ Len(msgQ') = Len(msgQ) + 1
      /\ msgQ'[Len(msgQ) + 1] = m
      /\ \A i \in 1..Len(msgQ) : msgQ'[i] = msgQ[i]
  BY <1>1
<1>4. \A i \in 1..Len(msgQ') :
          \/ i \in 1..Len(msgQ) /\ msgQ'[i] = msgQ[i]
          \/ i = Len(msgQ') /\ msgQ'[i] = m
  BY <1>3
<1>5. "AGNSS" \notin created \/ ~mAGnssCb => mState["AGNSS"] = "RELEASED" /\ Ordered0'
  BY <1>1 DEF Registered, Ordered0
<1>6. \A i \in 1..Len(msgQ') : msgQ'[i].m = "init" => msgQ'[i].t # "SUPL_ES"
  BY <1>2, <1>4 DEF Registered
<1>7. ASSUME ~mAGnssCb PROVE "AGNSS" \notin created /\ \A i \in 1..Len(msgQ') : ~IsInit(msgQ'[i])
  <2>1. ~AGnssCreated BY <1>1, <1>7
  <2>2. ASSUME NEW i \in 1..Len(msgQ') PROVE ~IsInit(msgQ'[i])
    <3>1. SUFFICES ASSUME IsInit(msgQ'[i]) PROVE FALSE
      OBVIOUS
    <3>2. i \in 1..Len(msgQ) /\ msgQ'[i] = msgQ[i] BY <1>2, <1>4, <3>1 DEF IsInit
    <3>3. msgQ[i] \in Messages /\ msgQ[i].m = "init" /\ msgQ[i].t = "SUPL"
      BY <3>1, <3>2 DEF IsInit, Registered, Messages, ModemKinds, Types, getAgpsStateMachine
    <3>4. msgQ[i] = Msg("init", NoHandle, "SUPL") BY <3>3 DEF Messages, ModemKinds, Msg
    <3> QED BY <2>1, <3>2, <3>4 DEF AGnssCreated
  <2> QED BY <2>1, <2>2 DEF AGnssCreated
<1> QED BY <1>1, <1>5, <1>6, <1>7 DEF Registered

LEMMA OthersNoneNew ==
    ASSUME IInv, NEW n, NEW h,
           \/ ModemRelease(h) \/ reportPdnTypeFromWds(n) \/ NotifyNetworkInfo
           \/ setCallback \/ ClientStep \/ OpenRejected \/ dataConnClosed
           \/ UNCHANGED vars
    PROVE  NoneNew
<1> USE DEF IInv, SmInv, SmType
<1>1. \/ msgQ' = msgQ
      \/ \E m : m.m \notin {"request", "init"} /\ msgQ' = Append(msgQ, m)
  <2>1. \A k, g, t : Msg(k, g, t).m = k BY DEF Msg
  <2>2. CASE ModemRelease(h) \/ reportPdnTypeFromWds(n)
    BY <2>1, <2>2 DEF ModemRelease, reportPdnTypeFromWds, sendMsg
  <2>3. CASE NotifyNetworkInfo \/ setCallback \/ UNCHANGED vars
    BY <2>3 DEF NotifyNetworkInfo, setCallback, vars
  <2>4. CASE ClientStep \/ dataConnClosed
    BY <2>1, <2>4 DEF ClientStep, ClientTakeRequest, ClientTakeRelease, dataConnOpen,
      dataConnFailed, dataConnClosed, sendMsg, OpenKind
  <2>5. CASE OpenRejected BY <2>5, EventQueues DEF OpenRejected
  <2> QED BY <2>2, <2>3, <2>4, <2>5
<1>2. \A i \in 1..Len(msgQ) : i + 0 \in 1..Len(msgQ) /\ msgQ[i] = msgQ[i + 0]  OBVIOUS
<1> QED BY <1>1, <1>2, AppendNoneNew

LEMMA LinkStep ==
    ASSUME IInv, LinkInv, OneSteadyClient, [Next]_vars
    PROVE  /\ LinkFits(msgQ)' /\ Registered'
           /\ Fresh(msgQ) /\ ~Overtakes => Fresh(msgQ)'
<1> DEFINE Kept == /\ LinkFits(msgQ)' /\ Registered'
                   /\ Fresh(msgQ) /\ ~Overtakes => Fresh(msgQ)'
<1>1. Registered /\ LinkFits(msgQ) /\ msgQ \in Seq(Messages)
  BY DEF LinkInv, IInv, SmInv, SmType
<1>2. Len(msgQ') \in Nat BY NextIInv DEF IInv, SmInv, SmType
<1>3. CASE AdapterStep
  <2>1. /\ LinkFits(msgQ)' /\ (Fresh(msgQ) /\ ~Overtakes => Fresh(msgQ)')
        /\ \/ mState'["AGNSS"] = mState["AGNSS"] /\ cmdQ' = cmdQ
           \/ mAGnssCb /\ "AGNSS" \in created
    BY <1>3, AdapterLink
  <2>2. Registered'
    <3>1. CASE ProcInit BY <1>1, <3>1, InitRegistered
    <3>2. CASE ~ProcInit
      <4>1. UNCHANGED <<created, mAGnssCb>>
        BY <1>3, <3>2 DEF AdapterStep, requestATL, releaseATL, ProcOpenSuccess, ProcAtlPdn,
          ProcOpenFailed, ProcClosed, envVars
      <4>2. Ordered0 /\ cmdQ' = cmdQ => Ordered0' BY DEF Ordered0
      <4> QED BY <1>1, <1>2, <1>3, <2>1, <4>1, <4>2, AdapterNoneNew, NoneNewRegistered
    <3> QED BY <3>1, <3>2
  <2> QED BY <2>1, <2>2
<1>4. ASSUME NEW h \in Handles, NEW t \in Types, ModemRequest(h, t)
      PROVE  Kept
  BY <1>1, <1>4, OthersLink, RequestRegistered DEF Keeps
<1>5. CASE AGnssCreate BY <1>1, <1>5, OthersLink, CreateRegistered DEF Keeps
<1>6. CASE setCallback
  <2>1. mAGnssCb' = TRUE /\ msgQ' = msgQ /\ UNCHANGED <<mState, cmdQ, created>>
    BY <1>6 DEF setCallback, smVars
  <2>2. Registered' BY <1>1, <2>1 DEF Registered, Ordered0
  <2> QED BY <1>6, <2>2, OthersLink DEF Keeps
<1>7. ASSUME NEW h \in Handles, ModemRelease(h) PROVE Kept
  <2>1. NoneNew /\ UNCHANGED <<created, mAGnssCb, mState, cmdQ>>
    BY <1>7, OthersNoneNew DEF ModemRelease, smVars, envVars
  <2>2. Registered' BY <1>1, <1>2, <2>1, NoneNewRegistered DEF Ordered0
  <2> QED BY <1>7, <2>2, OthersLink DEF Keeps
<1>8. CASE NotifyNetworkInfo \/ UNCHANGED vars
  <2>1. NoneNew /\ UNCHANGED <<created, mAGnssCb, mState, cmdQ, conn, wds, msgQ>>
    BY <1>8, OthersNoneNew DEF NotifyNetworkInfo, vars, smVars, envVars
  <2>2. Keeps(msgQ) BY <1>1, <2>1, UntouchedLink DEF TellsAsMuch, SameReports
  <2>3. Registered' BY <1>1, <1>2, <2>1, NoneNewRegistered DEF Ordered0
  <2> QED BY <2>2, <2>3 DEF Keeps
<1>9. CASE ClientStep \/ dataConnClosed
  <2>1. Keeps(msgQ) /\ NoneNew BY <1>1, <1>9, ClientLink, OthersNoneNew
  <2>2. /\ UNCHANGED <<created, mAGnssCb, mState>>
        /\ Ordered0 => Ordered0'
    BY <1>9 DEF ClientStep, ClientTakeRequest, ClientTakeRelease, dataConnOpen, dataConnFailed,
      dataConnClosed, smVars, Ordered0
  <2>3. Registered' BY <1>1, <1>2, <2>1, <2>2, NoneNewRegistered
  <2> QED BY <2>1, <2>3 DEF Keeps
<1>10. ASSUME NEW n \in Nifs, reportPdnTypeFromWds(n) PROVE Kept
  <2>1. NoneNew /\ UNCHANGED <<created, mAGnssCb, mState, cmdQ>>
    BY <1>10, OthersNoneNew DEF reportPdnTypeFromWds, smVars, envVars
  <2>2. Registered' BY <1>1, <1>2, <2>1, NoneNewRegistered DEF Ordered0
  <2> QED BY <1>10, <2>2, WdsLink DEF Keeps
<1>11. ~agnssServiceDied /\ ~OpenRejected
  BY DEF agnssServiceDied, OpenRejected, OneSteadyClient
<1> QED BY <1>3, <1>4, <1>5, <1>6, <1>7, <1>8, <1>9, <1>10, <1>11 DEF Next

LEMMA LinkNextInv ==
    ASSUME IInv, LinkInv, OneSteadyClient, [LinkNext]_linkVars
    PROVE  LinkInv'
<1>1. [Next]_vars BY DEF LinkNext, linkVars
<1>2. LinkFits(msgQ)' /\ Registered' /\ (Fresh(msgQ) /\ ~Overtakes => Fresh(msgQ)')
  BY <1>1, LinkStep
<1>3. CASE overtaken' = ((overtaken \/ Overtakes) /\ ~LinkIdle')
  <2>1. QueryingIn(msgQ)' => Querying' BY DEF QueryingIn, Querying, NoPdn, IsPdn, Queued
  <2>2. LinkIdle' => Fresh(msgQ)' BY <2>1 DEF LinkIdle, Fresh
  <2>3. overtaken' \/ Fresh(msgQ)'
    <3>1. CASE overtaken \/ Overtakes
      <4>1. CASE LinkIdle' BY <2>2, <4>1
      <4>2. CASE ~LinkIdle' BY <1>3, <3>1, <4>2, Zenon
      <4> QED BY <4>1, <4>2
    <3>2. CASE Fresh(msgQ) /\ ~Overtakes BY <1>2, <3>2
    <3> QED BY <3>1, <3>2 DEF LinkInv
  <2> QED BY <1>2, <2>3 DEF LinkInv
<1>4. CASE UNCHANGED linkVars
  BY <1>2, <1>4 DEF LinkInv, linkVars, vars, smVars, envVars, Fresh, QueryingIn, OneQuery,
    Established, Ordered0
<1> QED BY <1>3, <1>4 DEF LinkNext

LEMMA InitLink == Init => LinkFits(msgQ) /\ Registered /\ Fresh(msgQ)
<1> SUFFICES ASSUME Init PROVE LinkFits(msgQ) /\ Registered /\ Fresh(msgQ)
  OBVIOUS
<1> DEFINE m == Msg("init", NoHandle, "WWAN_ANY")
<1>1. msgQ = <<m>> /\ m.m = "init" /\ m.t = "WWAN_ANY" BY DEF Init, Msg
<1>2. ~IsReport(m) /\ ~IsInit(m) /\ ~IsPdn(m)
  BY <1>1 DEF IsReport, IsInit, IsPdn, getAgpsStateMachine
<1> HIDE DEF m
<1>3. \A i \in 1..Len(msgQ) : msgQ[i] = m BY <1>1
<1>4. mState["AGNSS"] = "RELEASED" /\ wds["AGNSS"] = 0 BY DEF Init, Nifs
<1>5. LinkFits(msgQ) BY <1>2, <1>3, <1>4 DEF Init, LinkFits, Quiescent, NoReport, Ordered0
<1>6. Registered BY <1>1, <1>2, <1>3, <1>4 DEF Init, Registered, Ordered0
<1>7. Fresh(msgQ) BY <1>2, <1>3, <1>4 DEF Fresh, QueryingIn, NoPdn
<1> QED BY <1>5, <1>6, <1>7

LEMMA LinkKnown ==
    ASSUME IInv, LinkInv
    PROVE  ConnectionKnown
<1> USE DEF IInv, SmInv, SmType
<1>1. /\ LinkFits(msgQ) /\ (overtaken \/ Fresh(msgQ))
      /\ Len(msgQ) \in Nat /\ Len(cmdQ) \in Nat
  BY DEF LinkInv
<1>2. \A kinds, c : /\ OneReport(msgQ, {c}) => Queued({c}, "AGNSS")
                    /\ OneReport(msgQ, OpenReport) \/ OpenThenClosed(msgQ)
                          => Queued(OpenReport, "AGNSS")
  BY DEF OneReport, OpenThenClosed, Queued, IsReport
<1>3. /\ Ordered1("REQUEST") \/ Ordered2("RELEASE", "REQUEST") => Ordered("REQUEST")
      /\ Ordered0 \/ Ordered1("RELEASE") => ~Ordered("REQUEST")
  BY DEF Ordered0, Ordered1, Ordered2, Ordered
<1>4. Fresh(msgQ) => AcquiredIsConnected BY <1>2 DEF AcquiredIsConnected, Fresh, Established
<1>5. PendingAwaitsAnswer
  <2>1. Queued({"failed"}, "AGNSS") \/ Queued(OpenReport, "AGNSS") \/ Queued({"pdn"}, "AGNSS") =>
            Queued({"open_named", "open_empty", "pdn", "failed"}, "AGNSS")
    BY DEF Queued, OpenReport
  <2>2. QueryingIn(msgQ) => wds["AGNSS"] > 0 \/ Queued({"pdn"}, "AGNSS")
    BY DEF QueryingIn, NoPdn, IsPdn, Queued
  <2> QED BY <1>1, <1>2, <1>3, <2>1, <2>2 DEF PendingAwaitsAnswer, LinkFits, Answering
<1>6. NoLeakedConnection BY <1>1, <1>3 DEF NoLeakedConnection, LinkFits, Quiescent
<1> QED BY <1>1, <1>4, <1>5, <1>6 DEF ConnectionKnown

(* The AGNSS nif and the framework's one connection stay in step, with the *)
(* WDS library that delays its answers and without it, whatever the order  *)
(* of requests, releases, answers and losses of the network, as long as    *)
(* the client registers before it is needed and lives on, answers only a   *)
(* release that closes something, and names an APN that fits.  None of     *)
(* these conditions can be dropped.                                        *)
THEOREM ConnectionIsKnown ==
    ASSUME OneSteadyClient
    PROVE  LinkSpec => []ConnectionKnown
<1>1. IInv /\ LinkInv /\ [LinkNext]_linkVars => LinkInv' BY LinkNextInv
<1>2. IInv /\ LinkInv => ConnectionKnown BY LinkKnown
<1>3. LinkInit => Init /\ LinkInv BY InitLink DEF LinkInit, LinkInv
<1>4. [LinkNext]_linkVars => [Next]_vars BY DEF LinkNext, linkVars
<1>5. LinkSpec => Spec BY <1>3, <1>4, PTL DEF LinkSpec, Spec
<1> QED BY <1>1, <1>2, <1>3, <1>5, Inductive, PTL DEF LinkSpec

-----------------------------------------------------------------------------
(* StatusObserver                                                            *)

ClientCalls ==
    {"subscribe", "requestData", "updateSubscription", "unsubscribe", "unsubscribeAll"}

(* What waits in the queue: calls of observers, of the kinds the world has   *)
FromObserver(msg) ==
    msg.type \in ClientCalls => msg.client \in Observers /\ msg.items \subseteq Items

OfThisWorld(msg) ==
    msg.type = "updateSubscription" => Exposed({"updates"})

IsSeq(s) == s \in Seq({s[k] : k \in DOMAIN s})

(* The request that Xtra makes in its constructor comes before the           *)
(* subscription object.                                                      *)
Early(q, k) ==
    k <= 2 /\ \A j \in 1..(k - 1) : q[j].type # "setSubscriptionObj"

Fine(q, set) ==
    /\ IsSeq(q)
    /\ \A k \in DOMAIN q :
          /\ FromObserver(q[k]) /\ OfThisWorld(q[k])
          /\ q[k].type = "requestData" /\ ~Exposed({"requests"}) => ~set /\ Early(q, k)

QueueInv == Fine(queue, mSubscriptionObj)

MapsInv ==
    /\ mClientToDataItems \in [Observers -> SUBSET Items]
    /\ mDataItemToClients \in [Items -> SUBSET Observers]
    /\ osSubscribed \subseteq Items
    /\ mSubscriptionObj \in BOOLEAN
    /\ ~mSubscriptionObj => osSubscribed = {}

ObserverInv == QueueInv /\ MapsInv /\ SubscriptionsAgree

-----------------------------------------------------------------------------
(* The queue                                                                 *)

LEMMA SeqOfItsElements ==
    ASSUME NEW S, NEW s \in Seq(S)
    PROVE  /\ IsSeq(s)
           /\ Len(s) \in Nat /\ DOMAIN s = 1..Len(s)
           /\ s # <<>> => Len(s) >= 1
<1>1. Len(s) \in Nat /\ DOMAIN s = 1..Len(s) /\ s \in [1..Len(s) -> S] BY LenProperties
<1>2. s # <<>> => Len(s) >= 1 BY <1>1, EmptySeq
<1>3. s \in [1..Len(s) -> {s[k] : k \in DOMAIN s}] BY <1>1
<1>4. s \in Seq({s[k] : k \in DOMAIN s}) BY <1>1, <1>3
<1> QED BY <1>1, <1>2, <1>4 DEF IsSeq

(* What is appended is last, behind all that waited.                         *)
LEMMA Appended ==
    ASSUME NEW q, IsSeq(q), NEW msg
    PROVE  /\ IsSeq(Append(q, msg))
           /\ Len(q) \in Nat /\ DOMAIN q = 1..Len(q)
           /\ DOMAIN Append(q, msg) = 1..(Len(q) + 1)
           /\ \A k \in DOMAIN q : Append(q, msg)[k] = q[k]
           /\ Append(q, msg)[Len(q) + 1] = msg
<1> DEFINE E == {q[k] : k \in DOMAIN q}
           S == E \cup {msg}
<1>1. q \in Seq(E) BY DEF IsSeq
<1>2. Len(q) \in Nat /\ DOMAIN q = 1..Len(q) /\ q \in [1..Len(q) -> E] BY <1>1, LenProperties
<1> HIDE DEF E
<1>3. q \in [1..Len(q) -> S] BY <1>2
<1>4. q \in Seq(S) /\ msg \in S BY <1>2, <1>3
<1> HIDE DEF S
<1>5. /\ Append(q, msg) \in Seq(S)
      /\ Len(Append(q, msg)) = Len(q) + 1
      /\ \A k \in 1..Len(q) : Append(q, msg)[k] = q[k]
      /\ Append(q, msg)[Len(q) + 1] = msg
  BY <1>4, AppendProperties
<1>6. IsSeq(Append(q, msg)) /\ DOMAIN Append(q, msg) = 1..Len(Append(q, msg))
  BY <1>5, SeqOfItsElements
<1> QED BY <1>2, <1>5, <1>6

(* What is left when the first is taken                                      *)
LEMMA Taken ==
    ASSUME NEW q, IsSeq(q), q # <<>>
    PROVE  /\ IsSeq(Tail(q))
           /\ Len(q) \in Nat \ {0} /\ DOMAIN q = 1..Len(q)
           /\ DOMAIN Tail(q) = 1..(Len(q) - 1)
           /\ \A k \in DOMAIN Tail(q) : Tail(q)[k] = q[k + 1]
           /\ Head(q) = q[1]
<1> DEFINE S == {q[k] : k \in DOMAIN q}
<1>1. q \in Seq(S) BY DEF IsSeq
<1> HIDE DEF S
<1>2. Len(q) \in Nat /\ DOMAIN q = 1..Len(q) /\ Len(q) >= 1 BY <1>1, SeqOfItsElements
<1>3. /\ Tail(q) \in Seq(S) /\ Len(Tail(q)) = Len(q) - 1
      /\ \A k \in 1..Len(Tail(q)) : Tail(q)[k] = q[k + 1]
  BY <1>1, HeadTailProperties
<1>4. IsSeq(Tail(q)) /\ DOMAIN Tail(q) = 1..Len(Tail(q)) BY <1>3, SeqOfItsElements
<1>5. Head(q) = q[1] BY <1>1
<1> QED BY <1>2, <1>3, <1>4, <1>5

(* Posting keeps what holds of the queue,                                    *)
LEMMA PostKeeps ==
    ASSUME NEW q, NEW set, Fine(q, set), NEW msg, FromObserver(msg), OfThisWorld(msg),
           msg.type = "requestData" => Exposed({"requests"})
    PROVE  Fine(Append(q, msg), set)
<1> DEFINE r == Append(q, msg)
<1>1. /\ IsSeq(r)
      /\ Len(q) \in Nat /\ DOMAIN q = 1..Len(q)
      /\ DOMAIN r = 1..(Len(q) + 1)
      /\ \A k \in DOMAIN q : r[k] = q[k]
      /\ r[Len(q) + 1] = msg
  BY Appended DEF Fine
<1> HIDE DEF r
<1>2. ASSUME NEW k \in DOMAIN r
      PROVE  /\ FromObserver(r[k]) /\ OfThisWorld(r[k])
             /\ r[k].type = "requestData" /\ ~Exposed({"requests"}) => ~set /\ Early(r, k)
  <2>1. CASE k = Len(q) + 1 BY <1>1, <2>1
  <2>2. CASE k # Len(q) + 1
    <3>1. k \in DOMAIN q /\ 1..(k - 1) \subseteq DOMAIN q BY <1>1, <2>2
    <3> QED BY <1>1, <3>1 DEF Fine, Early
  <2> QED BY <2>1, <2>2
<1>3. Fine(r, set) BY <1>1, <1>2 DEF Fine
<1> QED BY <1>3 DEF r

(* and so does taking the first message.                                     *)
LEMMA TakeKeeps ==
    ASSUME NEW q, NEW set, NEW newSet, Fine(q, set), q # <<>>,
           newSet = set \/ Head(q).type = "setSubscriptionObj"
    PROVE  Fine(Tail(q), newSet)
<1> DEFINE r == Tail(q)
<1>1. /\ IsSeq(r)
      /\ Len(q) \in Nat \ {0} /\ DOMAIN q = 1..Len(q)
      /\ DOMAIN r = 1..(Len(q) - 1)
      /\ \A k \in DOMAIN r : r[k] = q[k + 1]
      /\ Head(q) = q[1]
  BY Taken DEF Fine
<1> HIDE DEF r
<1>2. ASSUME NEW k \in DOMAIN r
      PROVE  /\ FromObserver(r[k]) /\ OfThisWorld(r[k])
             /\ r[k].type = "requestData" /\ ~Exposed({"requests"}) => ~newSet /\ Early(r, k)
  <2>1. k \in Nat \ {0} /\ k + 1 \in DOMAIN q /\ r[k] = q[k + 1] BY <1>1
  <2>2. ASSUME r[k].type = "requestData", ~Exposed({"requests"})
        PROVE  ~newSet /\ Early(r, k)
    <3>1. ~set /\ k + 1 <= 2 /\ \A j \in 1..k : q[j].type # "setSubscriptionObj"
      BY <2>1, <2>2 DEF Fine, Early
    <3>2. ~newSet BY <1>1, <2>1, <3>1
    <3>3. \A j \in 1..(k - 1) : j \in DOMAIN r /\ j + 1 \in 1..k BY <1>1, <2>1
    <3> QED BY <1>1, <2>1, <3>1, <3>2, <3>3 DEF Early
  <2> QED BY <2>1, <2>2 DEF Fine
<1>3. Fine(r, newSet) BY <1>1, <1>2 DEF Fine
<1> QED BY <1>3 DEF r

LEMMA QueueNext ==
    ASSUME world' = world, Fine(queue', mSubscriptionObj')
    PROVE  QueueInv'
BY DEF QueueInv, Fine, FromObserver, OfThisWorld, Exposed, Early

(* Delivering takes the first message, and may post one to Xtra.             *)
LEMMA DeliverKeeps ==
    ASSUME QueueInv, queue # <<>>, NEW cache, NEW wanted, Deliver(cache, wanted),
           UNCHANGED <<world, mSubscriptionObj>>
    PROVE  QueueInv'
<1>1. Fine(Tail(queue), mSubscriptionObj) BY TakeKeeps DEF QueueInv
<1>2. \A S : /\ FromObserver(Data("xtra", S, cache)) /\ OfThisWorld(Data("xtra", S, cache))
             /\ Data("xtra", S, cache).type # "requestData"
  BY DEF FromObserver, OfThisWorld, Data, ClientCalls
<1>3. \/ queue' = Tail(queue)
      \/ \E S : queue' = Append(Tail(queue), Data("xtra", S, cache))
  BY DEF Deliver
<1>4. Fine(queue', mSubscriptionObj) BY <1>1, <1>2, <1>3, PostKeeps
<1> QED BY <1>4, QueueNext

(* What the message task finds first                                         *)
LEMMA HeadFacts ==
    ASSUME QueueInv, NEW type, Taking(type)
    PROVE  /\ queue # <<>>
           /\ Head(queue).type = type
           /\ FromObserver(Head(queue)) /\ OfThisWorld(Head(queue))
           /\ type = "requestData" /\ ~Exposed({"requests"}) => ~mSubscriptionObj
<1>1. queue # <<>> /\ Head(queue).type = type BY DEF Taking
<1>2. 1 \in DOMAIN queue /\ Head(queue) = queue[1] BY <1>1, Taken DEF QueueInv, Fine
<1> QED BY <1>1, <1>2 DEF QueueInv, Fine

-----------------------------------------------------------------------------
(* The maps                                                                  *)

LEMMA MapsStay ==
    ASSUME MapsInv, SubscriptionsAgree,
           UNCHANGED <<world, maps, mSubscriptionObj, osSubscribed>>
    PROVE  MapsInv' /\ SubscriptionsAgree'
BY DEF MapsInv, SubscriptionsAgree, maps, Exposed, Keys

LEMMA SubscriptionKeeps ==
    ASSUME ObserverInv, NEW type \in {"subscribe", "requestData"}, HandleSubscribeReq(type)
    PROVE  ObserverInv'
<1> DEFINE c == Head(queue).client
           S == Head(queue).items
           new == S \ Keys(mDataItemToClients)
<1>1. QueueInv /\ MapsInv /\ SubscriptionsAgree BY DEF ObserverInv
<1>2. /\ Taking(type)
      /\ mDataItemToClients' = Added(mDataItemToClients, S, c)
      /\ mClientToDataItems' = [mClientToDataItems EXCEPT ![c] = @ \cup S]
      /\ Deliver(mDataItemCache, Only(c, S))
      /\ IF type = "subscribe" THEN AskFramework(new, {}, {}) ELSE AskFramework({}, new, {})
      /\ UNCHANGED <<world, mSubscriptionObj>>
  BY DEF HandleSubscribeReq
<1>3. /\ queue # <<>> /\ c \in Observers /\ S \subseteq Items
      /\ type = "requestData" /\ ~Exposed({"requests"}) => ~mSubscriptionObj
  BY <1>1, <1>2, HeadFacts DEF FromObserver, ClientCalls
<1>4. QueueInv' BY <1>1, <1>2, <1>3, DeliverKeeps
<1>5. new \in SUBSET Items BY <1>3
<1> HIDE DEF c, S
<1>6. /\ osSubscribed' \subseteq Items
      /\ ~mSubscriptionObj => osSubscribed' = {}
      /\ mSubscriptionObj => osSubscribed' = IF type = "subscribe" THEN osSubscribed \cup new
                                             ELSE osSubscribed
  <2>1. osSubscribed \subseteq Items /\ (~mSubscriptionObj => osSubscribed = {})
    BY <1>1 DEF MapsInv
  <2>2. CASE type = "subscribe" BY <1>2, <1>5, <2>1, <2>2 DEF AskFramework, framework
  <2>3. CASE type # "subscribe"
    <3>1. AskFramework({}, new, {}) BY <1>2, <2>3
    <3>2. osSubscribed' = osSubscribed BY <3>1 DEF AskFramework, framework
    <3> QED BY <2>1, <2>3, <3>2
  <2> QED BY <2>2, <2>3
<1>7. /\ mClientToDataItems' \in [Observers -> SUBSET Items]
      /\ mDataItemToClients' \in [Items -> SUBSET Observers]
      /\ \A o \in Observers : mClientToDataItems'[o] =
             IF o = c THEN mClientToDataItems[o] \cup S ELSE mClientToDataItems[o]
      /\ \A i \in Items : mDataItemToClients'[i] =
             IF i \in S THEN mDataItemToClients[i] \cup {c} ELSE mDataItemToClients[i]
  BY <1>1, <1>2, <1>3 DEF MapsInv, Added
<1>8. Keys(mDataItemToClients)' = Keys(mDataItemToClients) \cup S BY <1>3, <1>7 DEF Keys
<1>9. MapsInv' BY <1>1, <1>2, <1>6, <1>7 DEF MapsInv
<1>10. SubscriptionsAgree'
  <2> SUFFICES ASSUME ~Exposed({"updates"})
               PROVE  /\ \A o \in Observers, i \in Items :
                             i \in mClientToDataItems'[o] <=> o \in mDataItemToClients'[i]
                      /\ mSubscriptionObj =>
                             /\ osSubscribed' \subseteq Keys(mDataItemToClients)'
                             /\ ~Exposed({"requests"}) =>
                                    Keys(mDataItemToClients)' \subseteq osSubscribed'
    BY <1>2 DEF SubscriptionsAgree, Exposed
  <2>1. \A o \in Observers, i \in Items :
            i \in mClientToDataItems[o] <=> o \in mDataItemToClients[i]
    BY <1>1 DEF SubscriptionsAgree
  <2>2. \A o \in Observers, i \in Items :
            i \in mClientToDataItems'[o] <=> o \in mDataItemToClients'[i]
    BY <1>7, <2>1
  <2>3. ASSUME mSubscriptionObj
        PROVE  /\ osSubscribed' \subseteq Keys(mDataItemToClients)'
               /\ ~Exposed({"requests"}) => Keys(mDataItemToClients)' \subseteq osSubscribed'
    <3>1. /\ osSubscribed \subseteq Keys(mDataItemToClients)
          /\ ~Exposed({"requests"}) => Keys(mDataItemToClients) \subseteq osSubscribed
      BY <1>1, <2>3 DEF SubscriptionsAgree
    <3>2. ~Exposed({"requests"}) => type = "subscribe" BY <1>3, <2>3
    <3> QED BY <1>6, <1>8, <2>3, <3>1, <3>2
  <2> QED BY <2>2, <2>3
<1> QED BY <1>4, <1>9, <1>10 DEF ObserverInv

LEMMA UnsubscriptionKeeps ==
    ASSUME ObserverInv, NEW type \in {"unsubscribe", "unsubscribeAll"}, HandleUnsubscribeReq(type)
    PROVE  ObserverInv'
<1> DEFINE c == Head(queue).client
           S == IF type = "unsubscribe" THEN Head(queue).items ELSE Items
           unused == mClientToDataItems[c] \cap S
           trimmed == Trimmed(mDataItemToClients, unused, c)
           gone == Keys(mDataItemToClients) \ Keys(trimmed)
<1>1. QueueInv /\ MapsInv /\ SubscriptionsAgree BY DEF ObserverInv
<1>2. /\ Taking(type)
      /\ mClientToDataItems' = [mClientToDataItems EXCEPT ![c] = @ \ unused]
      /\ mDataItemToClients' = trimmed
      /\ AskFramework({}, {}, gone)
      /\ queue' = Tail(queue)
      /\ UNCHANGED <<world, mSubscriptionObj>>
  BY DEF HandleUnsubscribeReq
<1>3. queue # <<>> /\ c \in Observers BY <1>1, <1>2, HeadFacts DEF FromObserver, ClientCalls
<1>4. QueueInv' BY <1>1, <1>2, <1>3, TakeKeeps, QueueNext DEF QueueInv
<1>5. unused \subseteq Items BY <1>1, <1>3 DEF MapsInv
<1> HIDE DEF c, unused
<1>6. /\ mClientToDataItems' \in [Observers -> SUBSET Items]
      /\ mDataItemToClients' \in [Items -> SUBSET Observers]
      /\ \A o \in Observers : mClientToDataItems'[o] =
             IF o = c THEN mClientToDataItems[o] \ unused ELSE mClientToDataItems[o]
      /\ \A i \in Items : mDataItemToClients'[i] =
             IF i \in unused THEN mDataItemToClients[i] \ {c} ELSE mDataItemToClients[i]
  BY <1>1, <1>2, <1>3 DEF MapsInv, Trimmed
<1>7. Keys(trimmed) = Keys(mDataItemToClients)' /\ Keys(trimmed) \subseteq Keys(mDataItemToClients)
  BY <1>2, <1>6 DEF Keys
<1> HIDE DEF trimmed
<1>8. /\ osSubscribed' \subseteq Items
      /\ ~mSubscriptionObj => osSubscribed' = {}
      /\ mSubscriptionObj => osSubscribed' = osSubscribed \ gone
  BY <1>1, <1>2 DEF MapsInv, AskFramework, framework
<1>9. MapsInv' BY <1>1, <1>2, <1>6, <1>8 DEF MapsInv
<1>10. SubscriptionsAgree'
  <2> SUFFICES ASSUME ~Exposed({"updates"})
               PROVE  /\ \A o \in Observers, i \in Items :
                             i \in mClientToDataItems'[o] <=> o \in mDataItemToClients'[i]
                      /\ mSubscriptionObj =>
                             /\ osSubscribed' \subseteq Keys(mDataItemToClients)'
                             /\ ~Exposed({"requests"}) =>
                                    Keys(mDataItemToClients)' \subseteq osSubscribed'
    BY <1>2 DEF SubscriptionsAgree, Exposed
  <2>1. \A o \in Observers, i \in Items :
            i \in mClientToDataItems[o] <=> o \in mDataItemToClients[i]
    BY <1>1 DEF SubscriptionsAgree
  <2>2. \A o \in Observers, i \in Items :
            i \in mClientToDataItems'[o] <=> o \in mDataItemToClients'[i]
    BY <1>6, <2>1
  <2>3. ASSUME mSubscriptionObj
        PROVE  /\ osSubscribed' \subseteq Keys(mDataItemToClients)'
               /\ ~Exposed({"requests"}) => Keys(mDataItemToClients)' \subseteq osSubscribed'
    BY <1>1, <1>7, <1>8, <2>3 DEF SubscriptionsAgree
  <2> QED BY <2>2, <2>3
<1> QED BY <1>4, <1>9, <1>10 DEF ObserverInv

(* Where updateSubscription is used the maps keep their types, no more.      *)
LEMMA UpdateKeeps ==
    ASSUME ObserverInv, HandleUpdateSubscriptionReq
    PROVE  ObserverInv'
<1> DEFINE c == Head(queue).client
           S == Head(queue).items
           common == mClientToDataItems[c] \cap S
<1>1. QueueInv /\ MapsInv BY DEF ObserverInv
<1>2. Taking("updateSubscription") /\ UNCHANGED <<world, mSubscriptionObj>>
  BY DEF HandleUpdateSubscriptionReq
<1>3. /\ queue # <<>> /\ c \in Observers /\ S \subseteq Items
      /\ Exposed({"updates"})
  BY <1>1, <1>2, HeadFacts DEF FromObserver, OfThisWorld, ClientCalls
<1>4. PICK gone \in SUBSET common :
         LET trimmed == Trimmed(mDataItemToClients, gone, c)
             fresh == S \ gone
         IN /\ mClientToDataItems' = [mClientToDataItems EXCEPT ![c] = S]
            /\ mDataItemToClients' = Added(trimmed, fresh, c)
            /\ Deliver(mDataItemCache, Only(c, fresh))
            /\ AskFramework(fresh \ Keys(trimmed), {}, Keys(mDataItemToClients) \ Keys(trimmed))
  BY DEF HandleUpdateSubscriptionReq
<1>5. QueueInv'
  <2>1. Deliver(mDataItemCache, Only(c, S \ gone)) BY <1>4
  <2> QED BY <1>1, <1>2, <1>3, <2>1, DeliverKeeps
<1> HIDE DEF c, S
<1>6. /\ mClientToDataItems' \in [Observers -> SUBSET Items]
      /\ mDataItemToClients' \in [Items -> SUBSET Observers]
  BY <1>1, <1>3, <1>4 DEF MapsInv, Added, Trimmed
<1>7. osSubscribed' \subseteq Items /\ (~mSubscriptionObj => osSubscribed' = {})
  <2>1. osSubscribed \subseteq Items /\ (~mSubscriptionObj => osSubscribed = {})
    BY <1>1 DEF MapsInv
  <2>2. S \ gone \subseteq Items BY <1>3
  <2> QED BY <1>4, <2>1, <2>2 DEF AskFramework, framework
<1>8. MapsInv' BY <1>1, <1>2, <1>6, <1>7 DEF MapsInv
<1>9. SubscriptionsAgree' BY <1>2, <1>3 DEF SubscriptionsAgree, Exposed
<1> QED BY <1>5, <1>8, <1>9 DEF ObserverInv

LEMMA SetSubsObjKeeps ==
    ASSUME ObserverInv, SetSubsObj
    PROVE  ObserverInv'
<1>1. QueueInv /\ MapsInv /\ SubscriptionsAgree BY DEF ObserverInv
<1>2. /\ Taking("setSubscriptionObj")
      /\ mSubscriptionObj' = TRUE
      /\ osSubscribed' = osSubscribed \cup Keys(mDataItemToClients)
      /\ queue' = Tail(queue)
      /\ UNCHANGED <<world, maps>>
  BY DEF SetSubsObj
<1>3. queue # <<>> /\ Head(queue).type = "setSubscriptionObj" BY <1>2 DEF Taking
<1>4. QueueInv' BY <1>1, <1>2, <1>3, TakeKeeps, QueueNext DEF QueueInv
<1>5. MapsInv' BY <1>1, <1>2 DEF MapsInv, maps, Keys
<1>6. SubscriptionsAgree' BY <1>1, <1>2 DEF SubscriptionsAgree, MapsInv, maps, Exposed, Keys
<1> QED BY <1>4, <1>5, <1>6 DEF ObserverInv

-----------------------------------------------------------------------------
(* The remaining actions only post a message or take one.                    *)

(* What anybody but the message task does                                    *)
LEMMA PostedKeeps ==
    ASSUME ObserverInv, NEW msg, FromObserver(msg), OfThisWorld(msg),
           msg.type = "requestData" => Exposed({"requests"}),
           queue' = Append(queue, msg),
           UNCHANGED <<world, maps, mSubscriptionObj, osSubscribed>>
    PROVE  ObserverInv'
<1>1. Fine(queue', mSubscriptionObj') BY PostKeeps DEF ObserverInv, QueueInv
<1> QED BY <1>1, QueueNext, MapsStay DEF ObserverInv

LEMMA CallKeeps ==
    ASSUME ObserverInv, NEW c \in Observers, NEW S, S \subseteq Items, NEW type \in ClientCalls,
           Calls(type, c, S)
    PROVE  ObserverInv'
<1> DEFINE msg == Call(type, c, S)
<1>1. /\ queue' = Append(queue, msg)
      /\ type = "requestData" => Exposed({"requests"})
      /\ type = "updateSubscription" => Exposed({"updates"})
      /\ UNCHANGED <<world, maps, mSubscriptionObj, osSubscribed>>
  BY DEF Calls, Post, Exposed, framework
<1>2. msg.type = type /\ msg.client = c /\ msg.items = S BY DEF Call
<1> HIDE DEF msg
<1>3. FromObserver(msg) /\ OfThisWorld(msg) BY <1>1, <1>2 DEF FromObserver, OfThisWorld
<1> QED BY <1>1, <1>2, <1>3, PostedKeeps

LEMMA DataKeeps ==
    ASSUME ObserverInv, NEW type \in {"setSubscriptionObj", "notify", "requestStatus"}, NEW S, NEW values,
           queue' = Append(queue, Data(type, S, values)),
           UNCHANGED <<world, maps, mSubscriptionObj, osSubscribed>>
    PROVE  ObserverInv'
<1> DEFINE msg == Data(type, S, values)
<1>1. msg.type = type BY DEF Data
<1>2. FromObserver(msg) /\ OfThisWorld(msg) /\ msg.type # "requestData"
  BY <1>1 DEF FromObserver, OfThisWorld, ClientCalls
<1> HIDE DEF msg
<1>3. queue' = Append(queue, msg) BY DEF msg
<1> QED BY <1>2, <1>3, PostedKeeps

LEMMA TakenKeeps ==
    ASSUME ObserverInv, NEW type, type # "setSubscriptionObj", Taking(type), queue' = Tail(queue),
           UNCHANGED <<world, maps, mSubscriptionObj, osSubscribed>>
    PROVE  ObserverInv'
<1>1. queue # <<>> /\ Head(queue).type = type BY DEF Taking
<1>2. Fine(queue', mSubscriptionObj') BY <1>1, TakeKeeps DEF ObserverInv, QueueInv
<1> QED BY <1>2, QueueNext, MapsStay DEF ObserverInv

LEMMA NotifyKeeps ==
    ASSUME ObserverInv, HandleNotify
    PROVE  ObserverInv'
<1>1. /\ Taking("notify")
      /\ \E cache, wanted : Deliver(cache, wanted)
      /\ UNCHANGED <<world, maps, mSubscriptionObj, osSubscribed>>
  BY DEF HandleNotify, framework
<1>2. queue # <<>> BY <1>1 DEF Taking
<1>3. QueueInv' BY <1>1, <1>2, DeliverKeeps DEF ObserverInv
<1> QED BY <1>1, <1>3, MapsStay DEF ObserverInv

LEMMA InitKeeps == ObserverInit => ObserverInv
<1> SUFFICES ASSUME ObserverInit
             PROVE  ObserverInv
  OBVIOUS
<1> DEFINE first == Call("subscribe", Xtra, {Network})
           second == Call("requestData", Xtra, {Tac})
<1>1. queue = <<first, second>> /\ ~mSubscriptionObj BY DEF ObserverInit
<1>2. /\ FromObserver(first) /\ FromObserver(second)
      /\ OfThisWorld(first) /\ OfThisWorld(second)
      /\ first.type = "subscribe"
  BY ObserverAssumption DEF Call, FromObserver, OfThisWorld, Items, Observers
<1> HIDE DEF first, second
<1>3. /\ queue \in Seq({first, second}) /\ DOMAIN queue = {1, 2}
      /\ queue[1] = first /\ queue[2] = second
  BY <1>1
<1>4. IsSeq(queue) BY <1>3, SeqOfItsElements
<1>5. QueueInv BY <1>1, <1>2, <1>3, <1>4 DEF QueueInv, Fine, Early
<1>6. MapsInv /\ SubscriptionsAgree BY DEF ObserverInit, MapsInv, SubscriptionsAgree
<1> QED BY <1>5, <1>6 DEF ObserverInv

LEMMA NextKeeps == ObserverInv /\ [ObserverNext]_observerVars => ObserverInv'
<1> SUFFICES ASSUME ObserverInv, [ObserverNext]_observerVars
             PROVE  ObserverInv'
  OBVIOUS
<1>1. CASE UNCHANGED observerVars
  <2>1. UNCHANGED <<world, maps, mSubscriptionObj, osSubscribed, queue>>
    BY <1>1 DEF observerVars, framework
  <2>2. Fine(queue', mSubscriptionObj') BY <2>1 DEF ObserverInv, QueueInv
  <2> QED BY <2>1, <2>2, QueueNext, MapsStay DEF ObserverInv
<1>2. ASSUME NEW c \in Clients, NEW S \in Offers,
             \/ Subscribe(c, S) \/ RequestData(c, S) \/ UpdateSubscription(c, S)
             \/ Unsubscribe(c, S)
      PROVE  ObserverInv'
  <2>1. c \in Observers /\ S \subseteq Items BY ObserverAssumption DEF Observers
  <2>2. PICK type \in ClientCalls : Calls(type, c, S)
    BY <1>2 DEF Subscribe, RequestData, UpdateSubscription, Unsubscribe, ClientCalls
  <2> QED BY <2>1, <2>2, CallKeeps
<1>3. ASSUME NEW c \in Clients, UnsubscribeAll(c)
      PROVE  ObserverInv'
  <2>1. c \in Observers /\ Calls("unsubscribeAll", c, {}) /\ "unsubscribeAll" \in ClientCalls
    BY <1>3 DEF Observers, UnsubscribeAll, ClientCalls
  <2> QED BY <2>1, CallKeeps
<1>4. CASE SetSubscriptionObj BY <1>4, DataKeeps DEF SetSubscriptionObj, Post, framework
<1>5. ASSUME NEW n \in Networks, NEW t \in NetworkTypes, Connects(n, t) \/ Turns(n, t)
      PROVE  ObserverInv'
  BY <1>5, DataKeeps DEF Connects, Turns, NetworkReported, Post, framework
<1>6. ASSUME NEW n \in Networks, Disconnects(n)
      PROVE  ObserverInv'
  BY <1>6, DataKeeps DEF Disconnects, NetworkReported, Post, framework
<1>7. CASE FrameworkReports BY <1>7, DataKeeps DEF FrameworkReports, Post
<1>8. CASE DaemonAsks BY <1>8, DataKeeps DEF DaemonAsks, Post, framework
<1>9. ASSUME (\E i \in Plain : Changes(i)) \/ DaemonRestarts
      PROVE  ObserverInv'
  <2>1. UNCHANGED <<world, maps, mSubscriptionObj, osSubscribed, queue>>
    BY <1>9 DEF Changes, DaemonRestarts, framework
  <2>2. Fine(queue', mSubscriptionObj') BY <2>1 DEF ObserverInv, QueueInv
  <2> QED BY <2>1, <2>2, QueueNext, MapsStay DEF ObserverInv
<1>10. CASE HandleOsObserverUpdate BY <1>10, TakenKeeps DEF HandleOsObserverUpdate, framework
<1>11. CASE onStatusRequested BY <1>11, TakenKeeps DEF onStatusRequested, framework
<1> QED BY <1>1, <1>2, <1>3, <1>4, <1>5, <1>6, <1>7, <1>8, <1>9, <1>10, <1>11, SetSubsObjKeeps,
    SubscriptionKeeps, UpdateKeeps, UnsubscriptionKeeps, NotifyKeeps DEF ObserverNext

(* The two maps of LocUnorderedSetMap say the same and the framework reports *)
(* what somebody is subscribed to, for any clients and items, calls and      *)
(* worlds (SystemStatusOsObserver).                                          *)
THEOREM SubscriptionsStayAgreed == ObserverSpec => []SubscriptionsAgree
<1>1. ObserverInv => SubscriptionsAgree BY DEF ObserverInv
<1> QED BY <1>1, InitKeeps, NextKeeps, PTL DEF ObserverSpec

-----------------------------------------------------------------------------
(* What is told                                                              *)
(* What a queue still brings of an item: the last message of a kind that has *)
(* it has a value, or there is none and the value is there already.          *)
Carries(msg, type, i) == msg.type = type /\ i \in msg.items
Absent(q, type, i) == \A k \in DOMAIN q : ~Carries(q[k], type, i)
Comes(q, type, i, v) ==
    \E k \in DOMAIN q :
        /\ Carries(q[k], type, i) /\ q[k].values[i] = v
        /\ \A j \in DOMAIN q : j > k => ~Carries(q[j], type, i)
Brings(q, type, i, now, v) == Comes(q, type, i, v) \/ (Absent(q, type, i) /\ now = v)

LEMMA PostedComes ==
    ASSUME NEW q, IsSeq(q), NEW msg, NEW type, NEW i, NEW now, Carries(msg, type, i)
    PROVE  Brings(Append(q, msg), type, i, now, msg.values[i])
<1> DEFINE r == Append(q, msg)
<1>1. /\ Len(q) \in Nat
      /\ DOMAIN r = 1..(Len(q) + 1)
      /\ r[Len(q) + 1] = msg
  BY Appended
<1> HIDE DEF r
<1>2. \A j \in DOMAIN r : ~(j > Len(q) + 1) BY <1>1
<1>3. Comes(r, type, i, msg.values[i]) BY <1>1, <1>2 DEF Comes
<1> QED BY <1>3 DEF Brings, r

LEMMA PostBrings ==
    ASSUME NEW q, IsSeq(q), NEW msg, NEW type, NEW i, NEW now, NEW v,
           Brings(q, type, i, now, v), ~Carries(msg, type, i)
    PROVE  Brings(Append(q, msg), type, i, now, v)
<1> DEFINE r == Append(q, msg)
<1>1. /\ Len(q) \in Nat /\ DOMAIN q = 1..Len(q)
      /\ DOMAIN r = 1..(Len(q) + 1)
      /\ \A k \in DOMAIN q : r[k] = q[k]
      /\ r[Len(q) + 1] = msg
  BY Appended
<1> HIDE DEF r
<1>2. \A j \in DOMAIN r : j \in DOMAIN q \/ r[j] = msg BY <1>1
<1>3. CASE Absent(q, type, i) /\ now = v
  <2>1. Absent(r, type, i) BY <1>1, <1>2, <1>3 DEF Absent
  <2> QED BY <1>3, <2>1 DEF Brings, r
<1>4. CASE Comes(q, type, i, v)
  <2>1. PICK k \in DOMAIN q :
           /\ Carries(q[k], type, i) /\ q[k].values[i] = v
           /\ \A j \in DOMAIN q : j > k => ~Carries(q[j], type, i)
    BY <1>4 DEF Comes
  <2>2. \A j \in DOMAIN r : j > k => ~Carries(r[j], type, i) BY <1>1, <1>2, <2>1
  <2>3. k \in DOMAIN r /\ r[k] = q[k] BY <1>1
  <2>4. Comes(r, type, i, v) BY <2>1, <2>2, <2>3 DEF Comes
  <2> QED BY <2>4 DEF Brings, r
<1> QED BY <1>3, <1>4 DEF Brings

LEMMA PostAbsent ==
    ASSUME NEW q, IsSeq(q), NEW msg, NEW type, NEW i, Absent(q, type, i), ~Carries(msg, type, i)
    PROVE  Absent(Append(q, msg), type, i)
<1> DEFINE r == Append(q, msg)
<1>1. /\ Len(q) \in Nat /\ DOMAIN q = 1..Len(q)
      /\ DOMAIN r = 1..(Len(q) + 1)
      /\ \A k \in DOMAIN q : r[k] = q[k]
      /\ r[Len(q) + 1] = msg
  BY Appended
<1> HIDE DEF r
<1>2. \A j \in DOMAIN r : j \in DOMAIN q \/ r[j] = msg BY <1>1
<1>3. Absent(r, type, i) BY <1>1, <1>2 DEF Absent
<1> QED BY <1>3 DEF r

LEMMA TakeAbsent ==
    ASSUME NEW q, IsSeq(q), q # <<>>, NEW type, NEW i, Absent(q, type, i)
    PROVE  Absent(Tail(q), type, i)
<1> DEFINE r == Tail(q)
<1>1. /\ Len(q) \in Nat \ {0} /\ DOMAIN q = 1..Len(q)
      /\ DOMAIN r = 1..(Len(q) - 1)
      /\ \A k \in DOMAIN r : r[k] = q[k + 1]
  BY Taken
<1> HIDE DEF r
<1>2. \A j \in DOMAIN r : j + 1 \in DOMAIN q BY <1>1
<1>3. Absent(r, type, i) BY <1>1, <1>2 DEF Absent
<1> QED BY <1>3 DEF r

(* Who takes a message has the value it carries.                             *)
LEMMA TakeBrings ==
    ASSUME NEW q, IsSeq(q), q # <<>>, NEW type, NEW i, NEW now, NEW v, NEW then,
           Brings(q, type, i, now, v),
           then = IF Carries(Head(q), type, i) THEN Head(q).values[i] ELSE now
    PROVE  Brings(Tail(q), type, i, then, v)
<1> DEFINE r == Tail(q)
<1>1. /\ Len(q) \in Nat \ {0} /\ DOMAIN q = 1..Len(q)
      /\ DOMAIN r = 1..(Len(q) - 1)
      /\ \A k \in DOMAIN r : r[k] = q[k + 1]
      /\ Head(q) = q[1]
  BY Taken
<1>2. 1 \in DOMAIN q BY <1>1
<1>3. CASE Absent(q, type, i) /\ now = v
  <2>1. Absent(r, type, i) BY <1>3, TakeAbsent
  <2>2. ~Carries(Head(q), type, i) BY <1>1, <1>2, <1>3 DEF Absent
  <2> QED BY <1>3, <2>1, <2>2 DEF Brings
<1>4. CASE Comes(q, type, i, v)
  <2>1. PICK k \in DOMAIN q :
           /\ Carries(q[k], type, i) /\ q[k].values[i] = v
           /\ \A j \in DOMAIN q : j > k => ~Carries(q[j], type, i)
    BY <1>4 DEF Comes
  <2> HIDE DEF r
  <2>2. \A j \in DOMAIN r : j \in Int /\ j + 1 \in DOMAIN q /\ r[j] = q[j + 1] BY <1>1
  <2>3. k \in Int /\ k >= 1 BY <1>1
  <2>4. CASE k = 1
    <3>1. \A j \in DOMAIN r : j + 1 > k BY <1>1, <2>4
    <3>2. Absent(r, type, i) BY <2>1, <2>2, <3>1 DEF Absent
    <3>3. then = v BY <1>1, <2>1, <2>4
    <3> QED BY <3>2, <3>3 DEF Brings, r
  <2>5. CASE k # 1
    <3>1. k - 1 \in DOMAIN r /\ r[k - 1] = q[k] BY <1>1, <2>3, <2>5
    <3>2. \A j \in DOMAIN r : j > k - 1 => j + 1 > k BY <2>2, <2>3
    <3>3. \A j \in DOMAIN r : j > k - 1 => ~Carries(r[j], type, i) BY <2>1, <2>2, <3>2
    <3>4. Comes(r, type, i, v) BY <2>1, <3>1, <3>3 DEF Comes
    <3> QED BY <3>4 DEF Brings, r
  <2> QED BY <2>4, <2>5
<1> QED BY <1>3, <1>4 DEF Brings

(* Delivering takes the first message of the queue, and what Xtra wants and  *)
(* the cache has is posted to it.                                            *)
LEMMA DeliverBrings ==
    ASSUME QueueInv, queue # <<>>, NEW cache, NEW wanted, Deliver(cache, wanted),
           NEW type, NEW i, NEW now, NEW v, Brings(queue, type, i, now, v),
           ~Carries(Head(queue), type, i),
           type = "xtra" => i \notin wanted[Xtra] \/ cache[i] = None
    PROVE  Brings(queue', type, i, now, v)
<1> DEFINE sent == {j \in wanted[Xtra] : cache[j] # None}
           msg == Data("xtra", sent, cache)
<1>1. queue' = IF sent = {} THEN Tail(queue) ELSE Append(Tail(queue), msg) BY DEF Deliver
<1>2. IsSeq(queue) BY DEF QueueInv, Fine
<1>3. IsSeq(Tail(queue)) /\ Brings(Tail(queue), type, i, now, v) BY <1>2, Taken, TakeBrings
<1>4. ~Carries(msg, type, i) BY DEF Carries, Data
<1> HIDE DEF msg, sent
<1>5. Brings(Append(Tail(queue), msg), type, i, now, v) BY <1>3, <1>4, PostBrings
<1> QED BY <1>1, <1>3, <1>5

LEMMA DeliverAbsent ==
    ASSUME QueueInv, queue # <<>>, NEW cache, NEW wanted, Deliver(cache, wanted),
           NEW i, Absent(queue, "xtra", i), i \notin wanted[Xtra] \/ cache[i] = None
    PROVE  Absent(queue', "xtra", i)
<1> DEFINE sent == {j \in wanted[Xtra] : cache[j] # None}
           msg == Data("xtra", sent, cache)
<1>1. queue' = IF sent = {} THEN Tail(queue) ELSE Append(Tail(queue), msg) BY DEF Deliver
<1>2. IsSeq(queue) BY DEF QueueInv, Fine
<1>3. IsSeq(Tail(queue)) /\ Absent(Tail(queue), "xtra", i) BY <1>2, Taken, TakeAbsent
<1>4. ~Carries(msg, "xtra", i) BY DEF Carries, Data
<1> HIDE DEF msg, sent
<1>5. Absent(Append(Tail(queue), msg), "xtra", i) BY <1>3, <1>4, PostAbsent
<1> QED BY <1>1, <1>3, <1>5

LEMMA DeliverTells ==
    ASSUME QueueInv, queue # <<>>, NEW cache, NEW wanted, Deliver(cache, wanted),
           NEW i \in wanted[Xtra], cache[i] # None, NEW now
    PROVE  Brings(queue', "xtra", i, now, cache[i])
<1> DEFINE sent == {j \in wanted[Xtra] : cache[j] # None}
           msg == Data("xtra", sent, cache)
<1>1. queue' = Append(Tail(queue), msg) BY DEF Deliver
<1>2. IsSeq(Tail(queue)) BY Taken DEF QueueInv, Fine
<1>3. Carries(msg, "xtra", i) /\ msg.values[i] = cache[i] BY DEF Carries, Data
<1> HIDE DEF msg, sent
<1> QED BY <1>1, <1>2, <1>3, PostedComes

-----------------------------------------------------------------------------
(* What was told                                                             *)

Value(i) == IF i = Network THEN NetworkItem ELSE {0, 1}

MessageFits(msg) ==
    /\ msg.type = "notify" =>
           msg.items \subseteq Items /\ \A i \in msg.items : msg.values[i] \in Value(i)
    /\ msg.type = "xtra" => msg.items \subseteq Items

MessagesFit(q) == \A k \in DOMAIN q : MessageFits(q[k])

DataFit ==
    /\ told = [c \in Observers |-> [i \in Items |-> told[c][i]]]
    /\ mDataItemCache = [i \in Items |-> mDataItemCache[i]]
    /\ \A i \in Items : mDataItemCache[i] \in Value(i) \cup {None}
    /\ value \in [Plain -> {0, 1}]
    /\ due \subseteq Plain
    /\ daemon = [asked |-> daemon.asked, known |-> daemon.known]

(* A client was told what the cache has of the items it subscribed to; what  *)
(* Xtra was not told of them yet is under way; of an item the cache has not  *)
(* nobody was told.                                                          *)
ClientsTold ==
    \A c \in Clients : \A i \in mClientToDataItems[c] : told[c][i] = mDataItemCache[i]
XtraTold(q) ==
    \A i \in mClientToDataItems[Xtra] : Brings(q, "xtra", i, told[Xtra][i], mDataItemCache[i])
UnknownUntold(q) ==
    \A i \in Items : mDataItemCache[i] = None =>
        Absent(q, "xtra", i) /\ \A c \in Observers : told[c][i] = None

ObserversTold ==
    ~Exposed({"updates"}) => ClientsTold /\ XtraTold(queue) /\ UnknownUntold(queue)

(* The framework has still to report a value, has reported it, or it is      *)
(* known.                                                                    *)
FrameworkTold ==
    \A i \in Plain \cap osSubscribed :
        i \in due \/ Brings(queue, "notify", i, mDataItemCache[i], value[i])

(* A daemon that asked is answered, or knows what Xtra was told.             *)
Requested(q) == \E k \in DOMAIN q : q[k].type = "requestStatus"
DaemonTold ==
    daemon.asked => Requested(queue) \/ (mReqStatusReceived /\ daemon.known = told[Xtra])

TellInv ==
    /\ MessagesFit(queue) /\ DataFit
    /\ ObserversTold /\ FrameworkTold /\ DaemonTold

LEMMA TellInvServes == TellInv => Newest
<1> SUFFICES ASSUME TellInv, Settled, ~Exposed({"updates"})
             PROVE  /\ \A c \in Observers : \A i \in mClientToDataItems[c] :
                           told[c][i] = mDataItemCache[i]
                    /\ \A i \in Plain \cap osSubscribed : mDataItemCache[i] = value[i]
                    /\ daemon.asked => daemon.known = told[Xtra]
  BY DEF Newest
<1>1. DOMAIN queue = {} /\ due = {} BY DEF Settled
<1>2. \A type, i, now, v : Brings(queue, type, i, now, v) => now = v BY <1>1 DEF Brings, Comes
<1> QED
  BY <1>1, <1>2 DEF TellInv, ObserversTold, ClientsTold, XtraTold, FrameworkTold, DaemonTold,
    Requested, Observers

LEMMA PostFits ==
    ASSUME NEW q, IsSeq(q), MessagesFit(q), NEW msg, MessageFits(msg)
    PROVE  MessagesFit(Append(q, msg))
<1> DEFINE r == Append(q, msg)
<1>1. /\ Len(q) \in Nat /\ DOMAIN q = 1..Len(q)
      /\ DOMAIN r = 1..(Len(q) + 1)
      /\ \A k \in DOMAIN q : r[k] = q[k]
      /\ r[Len(q) + 1] = msg
  BY Appended
<1> HIDE DEF r
<1>2. \A j \in DOMAIN r : j \in DOMAIN q \/ r[j] = msg BY <1>1
<1>3. MessagesFit(r) BY <1>1, <1>2 DEF MessagesFit
<1> QED BY <1>3 DEF r

LEMMA TakeFits ==
    ASSUME NEW q, IsSeq(q), q # <<>>, MessagesFit(q)
    PROVE  MessagesFit(Tail(q)) /\ MessageFits(Head(q))
<1> DEFINE r == Tail(q)
<1>1. /\ Len(q) \in Nat \ {0} /\ DOMAIN q = 1..Len(q)
      /\ DOMAIN r = 1..(Len(q) - 1)
      /\ \A k \in DOMAIN r : r[k] = q[k + 1]
      /\ Head(q) = q[1]
  BY Taken
<1> HIDE DEF r
<1>2. 1 \in DOMAIN q /\ \A j \in DOMAIN r : j + 1 \in DOMAIN q BY <1>1
<1>3. MessagesFit(r) /\ MessageFits(Head(q)) BY <1>1, <1>2 DEF MessagesFit
<1> QED BY <1>3 DEF r

LEMMA DeliverFits ==
    ASSUME QueueInv, queue # <<>>, MessagesFit(queue), NEW cache, NEW wanted, Deliver(cache, wanted),
           wanted[Xtra] \subseteq Items
    PROVE  MessagesFit(queue')
<1> DEFINE sent == {j \in wanted[Xtra] : cache[j] # None}
           msg == Data("xtra", sent, cache)
<1>1. queue' = IF sent = {} THEN Tail(queue) ELSE Append(Tail(queue), msg) BY DEF Deliver
<1>2. IsSeq(queue) BY DEF QueueInv, Fine
<1>3. IsSeq(Tail(queue)) /\ MessagesFit(Tail(queue)) BY <1>2, Taken, TakeFits
<1>4. MessageFits(msg) BY DEF MessageFits, Data
<1> HIDE DEF msg, sent
<1>5. MessagesFit(Append(Tail(queue), msg)) BY <1>3, <1>4, PostFits
<1> QED BY <1>1, <1>3, <1>5

(* A request that waits still does when another message is posted or taken.  *)
LEMMA PostRequested ==
    ASSUME NEW q, IsSeq(q), NEW msg, Requested(q) \/ msg.type = "requestStatus"
    PROVE  Requested(Append(q, msg))
<1> DEFINE r == Append(q, msg)
<1>1. /\ Len(q) \in Nat /\ DOMAIN q = 1..Len(q)
      /\ DOMAIN r = 1..(Len(q) + 1)
      /\ \A k \in DOMAIN q : r[k] = q[k]
      /\ r[Len(q) + 1] = msg
  BY Appended
<1> HIDE DEF r
<1>2. Len(q) + 1 \in DOMAIN r /\ \A j \in DOMAIN q : j \in DOMAIN r BY <1>1
<1>3. Requested(r) BY <1>1, <1>2 DEF Requested
<1> QED BY <1>3 DEF r

LEMMA TakeRequested ==
    ASSUME NEW q, IsSeq(q), q # <<>>, Requested(q), Head(q).type # "requestStatus"
    PROVE  Requested(Tail(q))
<1> DEFINE r == Tail(q)
<1>1. /\ Len(q) \in Nat \ {0} /\ DOMAIN q = 1..Len(q)
      /\ DOMAIN r = 1..(Len(q) - 1)
      /\ \A k \in DOMAIN r : r[k] = q[k + 1]
      /\ Head(q) = q[1]
  BY Taken
<1> HIDE DEF r
<1>2. PICK k \in DOMAIN q : q[k].type = "requestStatus" BY DEF Requested
<1>3. k # 1 BY <1>1, <1>2
<1>4. k - 1 \in DOMAIN r /\ r[k - 1] = q[k] BY <1>1, <1>3
<1>5. Requested(r) BY <1>2, <1>4 DEF Requested
<1> QED BY <1>5 DEF r

LEMMA DeliverRequested ==
    ASSUME QueueInv, queue # <<>>, Requested(queue), Head(queue).type # "requestStatus",
           NEW cache, NEW wanted, Deliver(cache, wanted)
    PROVE  Requested(queue')
<1> DEFINE msg == Data("xtra", {j \in wanted[Xtra] : cache[j] # None}, cache)
<1>1. queue' = Tail(queue) \/ queue' = Append(Tail(queue), msg) BY DEF Deliver
<1> HIDE DEF msg
<1>2. IsSeq(queue) BY DEF QueueInv, Fine
<1>3. IsSeq(Tail(queue)) /\ Requested(Tail(queue)) BY <1>2, Taken, TakeRequested
<1> QED BY <1>1, <1>3, PostRequested

(* What is told to whom depends on nothing else.                             *)
LEMMA TellsNothing ==
    ASSUME ObserversTold, DaemonTold,
           UNCHANGED <<world, mClientToDataItems, mDataItemCache, told, mReqStatusReceived>>,
           daemon' = daemon \/ Requested(queue') \/ daemon'.asked = FALSE,
           Requested(queue) => Requested(queue'),
           \A i, now, v : Brings(queue, "xtra", i, now, v) => Brings(queue', "xtra", i, now, v),
           \A i : Absent(queue, "xtra", i) => Absent(queue', "xtra", i)
    PROVE  ObserversTold' /\ DaemonTold'
<1>1. DaemonTold' BY DEF DaemonTold
<1>2. ObserversTold'
  <2> SUFFICES ASSUME ~Exposed({"updates"})
               PROVE  ClientsTold' /\ XtraTold(queue)' /\ UnknownUntold(queue)'
    BY DEF ObserversTold, Exposed
  <2>1. ClientsTold /\ XtraTold(queue) /\ UnknownUntold(queue) BY DEF ObserversTold
  <2>2. ClientsTold' BY <2>1 DEF ClientsTold
  <2>3. XtraTold(queue)' BY <2>1 DEF XtraTold
  <2>4. UnknownUntold(queue)' BY <2>1 DEF UnknownUntold
  <2> QED BY <2>2, <2>3, <2>4
<1> QED BY <1>1, <1>2

(* Somebody posts a message that brings no plain item.                       *)
LEMMA PostedTells ==
    ASSUME ObserverInv, TellInv, NEW msg, MessageFits(msg), msg.type # "xtra",
           msg.type = "notify" => msg.items \cap Plain = {},
           queue' = Append(queue, msg),
           UNCHANGED <<world, mClientToDataItems, mDataItemCache, told, framework, value,
                       mReqStatusReceived>>,
           \/ daemon' = daemon
           \/ msg.type = "requestStatus" /\ daemon' = [daemon EXCEPT !.asked = TRUE]
    PROVE  TellInv'
<1>1. IsSeq(queue) BY DEF ObserverInv, QueueInv, Fine
<1>2. TellInv  OBVIOUS
<1>3. MessagesFit(queue)'
  <2>1. MessagesFit(queue') BY <1>1, PostFits DEF TellInv
  <2> QED BY <2>1
<1>4. DataFit' BY DEF TellInv, DataFit, framework
<1>5. \A i : ~Carries(msg, "xtra", i) /\ (i \in Plain => ~Carries(msg, "notify", i))
  BY DEF Carries
<1>6. /\ \A i, now, v : Brings(queue, "xtra", i, now, v) => Brings(queue', "xtra", i, now, v)
      /\ \A i : Absent(queue, "xtra", i) => Absent(queue', "xtra", i)
      /\ \A i \in Plain : \A now, v :
            Brings(queue, "notify", i, now, v) => Brings(queue', "notify", i, now, v)
  BY <1>1, <1>5, PostBrings, PostAbsent
<1>7. /\ Requested(queue) => Requested(queue')
      /\ msg.type = "requestStatus" => Requested(queue')
  BY <1>1, PostRequested
<1>8. ObserversTold' /\ DaemonTold' BY <1>2, <1>6, <1>7, TellsNothing DEF TellInv
<1>9. FrameworkTold' BY <1>2, <1>6 DEF TellInv, FrameworkTold, framework
<1> QED BY <1>3, <1>4, <1>8, <1>9 DEF TellInv

(* The framework reports the values of what is due.                          *)
LEMMA ReportTells ==
    ASSUME ObserverInv, TellInv, FrameworkReports
    PROVE  TellInv'
<1> DEFINE values == [i \in Items |-> IF i \in due THEN value[i] ELSE None]
           msg == Data("notify", due, values)
<1>1. /\ queue' = Append(queue, msg) /\ due' = {}
      /\ UNCHANGED <<world, mClientToDataItems, mDataItemCache, told, osSubscribed, value,
                     mReqStatusReceived, daemon>>
  BY DEF FrameworkReports, Post, maps, state, xtra
<1>2. IsSeq(queue) BY DEF ObserverInv, QueueInv, Fine
<1>3. due \subseteq Plain /\ value \in [Plain -> {0, 1}] BY DEF TellInv, DataFit
<1>4. \A i \in due : i \in Items /\ i # Network /\ values[i] = value[i] /\ value[i] \in {0, 1}
  BY <1>3, ObserverAssumption DEF Items
<1>5. msg.type = "notify" /\ msg.items = due /\ \A i \in due : msg.values[i] = value[i]
  BY <1>4 DEF Data
<1> HIDE DEF values, msg
<1>6. MessageFits(msg) BY <1>4, <1>5 DEF MessageFits, Value
<1>7. MessagesFit(queue') BY <1>1, <1>2, <1>6, PostFits DEF TellInv
<1>8. DataFit' BY <1>1 DEF TellInv, DataFit
<1>9. \A i : ~Carries(msg, "xtra", i) /\ (Carries(msg, "notify", i) <=> i \in due)
  BY <1>5 DEF Carries
<1>10. /\ \A i, now, v : Brings(queue, "xtra", i, now, v) => Brings(queue', "xtra", i, now, v)
       /\ \A i : Absent(queue, "xtra", i) => Absent(queue', "xtra", i)
       /\ Requested(queue) => Requested(queue')
  BY <1>1, <1>2, <1>9, PostBrings, PostAbsent, PostRequested
<1>11. ObserversTold' /\ DaemonTold' BY <1>1, <1>10, TellsNothing DEF TellInv
<1>12. FrameworkTold'
  <2> SUFFICES ASSUME NEW i \in Plain \cap osSubscribed
               PROVE  Brings(queue', "notify", i, mDataItemCache[i], value[i])
    BY <1>1 DEF FrameworkTold
  <2>1. CASE i \in due BY <1>1, <1>2, <1>5, <1>9, <2>1, PostedComes
  <2>2. CASE i \notin due
    <3>1. Brings(queue, "notify", i, mDataItemCache[i], value[i])
      BY <2>2 DEF TellInv, FrameworkTold
    <3> QED BY <1>1, <1>2, <1>9, <2>2, <3>1, PostBrings
  <2> QED BY <2>1, <2>2
<1> QED BY <1>7, <1>8, <1>11, <1>12 DEF TellInv

(* A value changes; the framework will report it if it is asked to.          *)
LEMMA ChangeTells ==
    ASSUME ObserverInv, TellInv, NEW n \in Plain, Changes(n)
    PROVE  TellInv'
<1>1. /\ value' = [value EXCEPT ![n] = 1 - @]
      /\ due' = IF n \in osSubscribed THEN due \cup {n} ELSE due
      /\ UNCHANGED <<world, queue, mClientToDataItems, mDataItemCache, told, osSubscribed,
                     mReqStatusReceived, daemon>>
  BY DEF Changes, maps, xtra
<1>2. DataFit /\ FrameworkTold BY DEF TellInv
<1>3. /\ value' \in [Plain -> {0, 1}] /\ due' \subseteq Plain
      /\ \A i \in Plain : i # n => value'[i] = value[i]
  BY <1>1, <1>2 DEF DataFit
<1>4. DataFit' BY <1>1, <1>2, <1>3 DEF DataFit
<1>5. FrameworkTold' BY <1>1, <1>2, <1>3 DEF FrameworkTold
<1>6. ObserversTold' /\ DaemonTold' BY <1>1, TellsNothing DEF TellInv
<1> QED BY <1>1, <1>4, <1>5, <1>6 DEF TellInv

LEMMA RestartTells ==
    ASSUME ObserverInv, TellInv, DaemonRestarts
    PROVE  TellInv'
<1>1. /\ daemon' = [asked |-> FALSE, known |-> Nothing]
      /\ UNCHANGED <<world, queue, mClientToDataItems, mDataItemCache, told, framework, value,
                     mReqStatusReceived>>
  BY DEF DaemonRestarts, maps, state
<1>2. ObserversTold' /\ DaemonTold' BY <1>1, TellsNothing DEF TellInv
<1>3. DataFit' /\ FrameworkTold' BY <1>1 DEF TellInv, DataFit, FrameworkTold, framework
<1> QED BY <1>1, <1>2, <1>3 DEF TellInv

-----------------------------------------------------------------------------
(* The message task                                                          *)

(* What the framework is told to report it reports at once.                  *)
LEMMA AskFits ==
    ASSUME DataFit, NEW S, NEW T, NEW U, AskFramework(S, T, U)
    PROVE  /\ due' \subseteq Plain /\ due \subseteq due'
           /\ osSubscribed' \cap Plain \subseteq osSubscribed \cup due'
BY DEF AskFramework, framework, DataFit

LEMMA FrameworkStays ==
    ASSUME FrameworkTold, due \subseteq due', osSubscribed' \cap Plain \subseteq osSubscribed \cup due',
           UNCHANGED <<mDataItemCache, value>>,
           \A i \in Plain : \A now, v :
               Brings(queue, "notify", i, now, v) => Brings(queue', "notify", i, now, v)
    PROVE  FrameworkTold'
BY DEF FrameworkTold

(* A message that brings nothing is taken and nothing posted.                *)
LEMMA TakenTells ==
    ASSUME ObserverInv, queue # <<>>, Head(queue).type \notin {"xtra", "notify", "requestStatus"},
           queue' = Tail(queue), MessagesFit(queue)
    PROVE  /\ \A type \in {"xtra", "notify"} : \A i, now, v :
                  Brings(queue, type, i, now, v) => Brings(queue', type, i, now, v)
           /\ \A i : Absent(queue, "xtra", i) => Absent(queue', "xtra", i)
           /\ Requested(queue) => Requested(queue')
           /\ MessagesFit(queue')
<1>1. IsSeq(queue) BY DEF ObserverInv, QueueInv, Fine
<1>2. \A type \in {"xtra", "notify"} : \A i : ~Carries(Head(queue), type, i) BY DEF Carries
<1> QED BY <1>1, <1>2, TakeBrings, TakeAbsent, TakeRequested, TakeFits

LEMMA SetSubsObjTells ==
    ASSUME ObserverInv, TellInv, SetSubsObj
    PROVE  TellInv'
<1>1. /\ queue # <<>> /\ Head(queue).type = "setSubscriptionObj" /\ queue' = Tail(queue)
      /\ osSubscribed' = osSubscribed \cup Keys(mDataItemToClients)
      /\ due' = due \cup (Keys(mDataItemToClients) \cap Plain)
      /\ UNCHANGED <<world, mClientToDataItems, mDataItemCache, told, value,
                     mReqStatusReceived, daemon>>
  BY DEF SetSubsObj, Taking, maps, state, xtra
<1>2. /\ \A type \in {"xtra", "notify"} : \A i, now, v :
             Brings(queue, type, i, now, v) => Brings(queue', type, i, now, v)
      /\ \A i : Absent(queue, "xtra", i) => Absent(queue', "xtra", i)
      /\ Requested(queue) => Requested(queue')
      /\ MessagesFit(queue')
  BY <1>1, TakenTells DEF TellInv
<1>3. DataFit' /\ due \subseteq due' /\ osSubscribed' \cap Plain \subseteq osSubscribed \cup due'
  BY <1>1 DEF TellInv, DataFit
<1>4. FrameworkTold' BY <1>1, <1>2, <1>3, FrameworkStays DEF TellInv
<1>5. ObserversTold' /\ DaemonTold' BY <1>1, <1>2, TellsNothing DEF TellInv
<1> QED BY <1>2, <1>3, <1>4, <1>5 DEF TellInv

LEMMA UnsubscribeTells ==
    ASSUME ObserverInv, TellInv, NEW type \in {"unsubscribe", "unsubscribeAll"}, HandleUnsubscribeReq(type)
    PROVE  TellInv'
<1> DEFINE c == Head(queue).client
           S == IF type = "unsubscribe" THEN Head(queue).items ELSE Items
           unused == mClientToDataItems[c] \cap S
           gone == Keys(mDataItemToClients) \ Keys(Trimmed(mDataItemToClients, unused, c))
<1>1. /\ queue # <<>> /\ Head(queue).type = type /\ queue' = Tail(queue)
      /\ mClientToDataItems' = [mClientToDataItems EXCEPT ![c] = @ \ unused]
      /\ AskFramework({}, {}, gone)
      /\ UNCHANGED <<world, mDataItemCache, told, value, mReqStatusReceived, daemon>>
  BY DEF HandleUnsubscribeReq, Taking, state, xtra
<1> HIDE DEF unused, gone
<1>2. /\ \A t \in {"xtra", "notify"} : \A i, now, v :
             Brings(queue, t, i, now, v) => Brings(queue', t, i, now, v)
      /\ \A i : Absent(queue, "xtra", i) => Absent(queue', "xtra", i)
      /\ Requested(queue) => Requested(queue')
      /\ MessagesFit(queue')
  BY <1>1, TakenTells DEF TellInv
<1>3. /\ due' \subseteq Plain /\ due \subseteq due'
      /\ osSubscribed' \cap Plain \subseteq osSubscribed \cup due'
  BY <1>1, AskFits DEF TellInv
<1>4. DataFit' BY <1>1, <1>3 DEF TellInv, DataFit
<1>5. FrameworkTold' BY <1>1, <1>2, <1>3, FrameworkStays DEF TellInv
<1>6. \A o \in Observers : mClientToDataItems'[o] \subseteq mClientToDataItems[o]
  BY <1>1 DEF ObserverInv, MapsInv
<1>7. DaemonTold' BY <1>1, <1>2 DEF TellInv, DaemonTold
<1>8. ObserversTold'
  <2> SUFFICES ASSUME ~Exposed({"updates"})
               PROVE  ClientsTold' /\ XtraTold(queue)' /\ UnknownUntold(queue)'
    BY <1>1 DEF ObserversTold, Exposed
  <2>1. ClientsTold /\ XtraTold(queue) /\ UnknownUntold(queue) BY DEF TellInv, ObserversTold
  <2>2. ClientsTold' BY <1>1, <1>6, <2>1 DEF ClientsTold, Observers
  <2>3. XtraTold(queue)' BY <1>1, <1>2, <1>6, <2>1 DEF XtraTold, Observers
  <2>4. UnknownUntold(queue)' BY <1>1, <1>2, <2>1 DEF UnknownUntold
  <2> QED BY <2>2, <2>3, <2>4
<1> QED BY <1>2, <1>4, <1>5, <1>7, <1>8 DEF TellInv

(* A call takes its message and delivers from the cache as it is.            *)
LEMMA AnsweredFits ==
    ASSUME ObserverInv, TellInv, queue # <<>>, Head(queue).type \in ClientCalls,
           NEW wanted, wanted[Xtra] \subseteq Items, Deliver(mDataItemCache, wanted),
           NEW S, NEW T, NEW U, AskFramework(S, T, U),
           UNCHANGED <<world, mDataItemCache, value, mReqStatusReceived, daemon>>
    PROVE  /\ MessagesFit(queue)' /\ DataFit' /\ FrameworkTold'
           /\ told'[Xtra] = told[Xtra] => DaemonTold'
<1>1. QueueInv /\ MessagesFit(queue) /\ DataFit /\ FrameworkTold /\ DaemonTold
  BY DEF ObserverInv, TellInv
<1>2. Head(queue).type \notin {"xtra", "notify", "requestStatus"} BY DEF ClientCalls
<1>3. MessagesFit(queue') BY <1>1, DeliverFits
<1>4. /\ due' \subseteq Plain /\ due \subseteq due'
      /\ osSubscribed' \cap Plain \subseteq osSubscribed \cup due'
  BY <1>1, AskFits
<1>5. told' = [c \in Observers |-> [i \in Items |->
                   IF c # Xtra /\ i \in {j \in wanted[c] : mDataItemCache[j] # None}
                   THEN mDataItemCache[i] ELSE told[c][i]]]
  BY DEF Deliver
<1>6. told' = [c \in Observers |-> [i \in Items |-> told'[c][i]]] BY <1>5
<1>7. DataFit' BY <1>1, <1>4, <1>6 DEF DataFit
<1>8. \A i : ~Carries(Head(queue), "notify", i) BY <1>2 DEF Carries
<1>9. \A i \in Plain : \A now, v :
          Brings(queue, "notify", i, now, v) => Brings(queue', "notify", i, now, v)
  BY <1>1, <1>8, DeliverBrings
<1>10. FrameworkTold' BY <1>1, <1>4, <1>9, FrameworkStays
<1>11. Requested(queue) => Requested(queue') BY <1>1, <1>2, DeliverRequested
<1>12. told'[Xtra] = told[Xtra] => DaemonTold' BY <1>1, <1>11 DEF DaemonTold
<1> QED BY <1>3, <1>7, <1>10, <1>12

LEMMA ToldByDelivery ==
    ASSUME DataFit, NEW cache, NEW wanted, Deliver(cache, wanted)
    PROVE  /\ told'[Xtra] = told[Xtra]
           /\ told' = [c \in Observers |-> [i \in Items |-> told'[c][i]]]
           /\ \A c \in Observers, i \in Items : told'[c][i] =
                 IF c # Xtra /\ i \in wanted[c] /\ cache[i] # None THEN cache[i] ELSE told[c][i]
<1>1. told' = [c \in Observers |-> [i \in Items |->
                   IF c # Xtra /\ i \in {j \in wanted[c] : cache[j] # None}
                   THEN cache[i] ELSE told[c][i]]]
  BY DEF Deliver
<1>2. told = [c \in Observers |-> [i \in Items |-> told[c][i]]] BY DEF DataFit
<1>3. Xtra \in Observers BY DEF Observers
<1>4. told'[Xtra] = [i \in Items |-> told[Xtra][i]] BY <1>1, <1>3
<1>5. told[Xtra] = [i \in Items |-> told[Xtra][i]] BY <1>2, <1>3
<1>6. told' = [c \in Observers |-> [i \in Items |-> told'[c][i]]] BY <1>1
<1>7. \A c \in Observers, i \in Items : told'[c][i] =
          IF c # Xtra /\ i \in wanted[c] /\ cache[i] # None THEN cache[i] ELSE told[c][i]
  BY <1>1
<1> QED BY <1>4, <1>5, <1>6, <1>7

LEMMA SubscribeTells ==
    ASSUME ObserverInv, TellInv, NEW type \in {"subscribe", "requestData"}, HandleSubscribeReq(type)
    PROVE  TellInv'
<1> DEFINE c == Head(queue).client
           S == Head(queue).items
           new == S \ Keys(mDataItemToClients)
           wanted == Only(c, S)
<1>1. /\ Taking(type)
      /\ mClientToDataItems' = [mClientToDataItems EXCEPT ![c] = @ \cup S]
      /\ Deliver(mDataItemCache, wanted)
      /\ IF type = "subscribe" THEN AskFramework(new, {}, {}) ELSE AskFramework({}, new, {})
      /\ UNCHANGED <<world, mDataItemCache, value, mReqStatusReceived, daemon>>
  BY DEF HandleSubscribeReq, state, xtra
<1>2. QueueInv /\ MapsInv /\ DataFit BY DEF ObserverInv, TellInv
<1>3. /\ queue # <<>> /\ Head(queue).type = type /\ type \in ClientCalls
      /\ c \in Observers /\ S \subseteq Items
  BY <1>1, <1>2, HeadFacts DEF FromObserver, ClientCalls
<1>4. \A o \in Observers : wanted[o] = IF o = c THEN S ELSE {} BY DEF Only
<1>5. Xtra \in Observers /\ Clients \subseteq Observers /\ Xtra \notin Clients
  BY ObserverAssumption DEF Observers
<1>6. wanted[Xtra] \subseteq Items BY <1>3, <1>4, <1>5
<1> HIDE DEF c, S, wanted, new
<1>7. \A o \in Observers : mClientToDataItems'[o] =
          IF o = c THEN mClientToDataItems[o] \cup S ELSE mClientToDataItems[o]
  BY <1>1, <1>2 DEF MapsInv
<1>8. PICK A, B : AskFramework(A, B, {}) BY <1>1
<1>9. /\ told'[Xtra] = told[Xtra]
      /\ \A o \in Observers, i \in Items : told'[o][i] =
            IF o # Xtra /\ i \in wanted[o] /\ mDataItemCache[i] # None
            THEN mDataItemCache[i] ELSE told[o][i]
  BY <1>1, <1>2, ToldByDelivery
<1>10. MessagesFit(queue)' /\ DataFit' /\ FrameworkTold' /\ DaemonTold'
  BY <1>1, <1>3, <1>6, <1>8, <1>9, AnsweredFits
<1>11. ObserversTold'
  <2> SUFFICES ASSUME ~Exposed({"updates"})
               PROVE  ClientsTold' /\ XtraTold(queue)' /\ UnknownUntold(queue)'
    BY <1>1 DEF ObserversTold, Exposed
  <2>1. ClientsTold /\ XtraTold(queue) /\ UnknownUntold(queue) BY DEF TellInv, ObserversTold
  <2>2. \A i : ~Carries(Head(queue), "xtra", i) BY <1>3 DEF Carries, ClientCalls
  <2>3. \A o \in Observers : mClientToDataItems[o] \subseteq Items BY <1>2 DEF MapsInv
  <2>4. ClientsTold'
    <3> SUFFICES ASSUME NEW o \in Clients, NEW i \in mClientToDataItems'[o]
                 PROVE  told'[o][i] = mDataItemCache[i]
      BY <1>1 DEF ClientsTold
    <3>1. o \in Observers /\ o # Xtra /\ i \in Items BY <1>3, <1>5, <1>7, <2>3
    <3>2. CASE mDataItemCache[i] = None
      <4>1. told[o][i] = None BY <2>1, <3>1, <3>2 DEF UnknownUntold
      <4> QED BY <1>9, <3>1, <3>2, <4>1
    <3>3. CASE mDataItemCache[i] # None /\ i \in wanted[o] BY <1>9, <3>1, <3>3
    <3>4. CASE i \notin wanted[o]
      <4>1. i \in mClientToDataItems[o] BY <1>4, <1>7, <3>1, <3>4
      <4>2. told[o][i] = mDataItemCache[i] BY <2>1, <4>1 DEF ClientsTold
      <4> QED BY <1>9, <3>1, <3>4, <4>2
    <3> QED BY <3>2, <3>3, <3>4
  <2>5. XtraTold(queue)'
    <3> SUFFICES ASSUME NEW i \in mClientToDataItems'[Xtra]
                 PROVE  Brings(queue', "xtra", i, told[Xtra][i], mDataItemCache[i])
      BY <1>1, <1>9 DEF XtraTold
    <3>1. i \in Items BY <1>3, <1>5, <1>7, <2>3
    <3>2. CASE mDataItemCache[i] = None
      <4>1. Absent(queue, "xtra", i) /\ told[Xtra][i] = None
        BY <1>5, <2>1, <3>1, <3>2 DEF UnknownUntold
      <4>2. Absent(queue', "xtra", i) BY <1>1, <1>2, <1>3, <3>2, <4>1, DeliverAbsent
      <4> QED BY <3>2, <4>1, <4>2 DEF Brings
    <3>3. CASE mDataItemCache[i] # None /\ i \in wanted[Xtra]
      BY <1>1, <1>2, <1>3, <3>3, DeliverTells
    <3>4. CASE i \notin wanted[Xtra]
      <4>1. i \in mClientToDataItems[Xtra] BY <1>4, <1>5, <1>7, <3>4
      <4>2. Brings(queue, "xtra", i, told[Xtra][i], mDataItemCache[i])
        BY <2>1, <4>1 DEF XtraTold
      <4> QED BY <1>1, <1>2, <1>3, <2>2, <3>4, <4>2, DeliverBrings
    <3> QED BY <3>2, <3>3, <3>4
  <2>6. UnknownUntold(queue)'
    <3> SUFFICES ASSUME NEW i \in Items, mDataItemCache[i] = None
                 PROVE  Absent(queue', "xtra", i) /\ \A o \in Observers : told'[o][i] = None
      BY <1>1 DEF UnknownUntold
    <3>1. Absent(queue, "xtra", i) /\ \A o \in Observers : told[o][i] = None
      BY <2>1 DEF UnknownUntold
    <3>2. Absent(queue', "xtra", i) BY <1>1, <1>2, <1>3, <3>1, DeliverAbsent
    <3> QED BY <1>9, <3>1, <3>2
  <2> QED BY <2>4, <2>5, <2>6
<1> QED BY <1>10, <1>11 DEF TellInv

LEMMA UpdateTells ==
    ASSUME ObserverInv, TellInv, HandleUpdateSubscriptionReq
    PROVE  TellInv'
<1> DEFINE c == Head(queue).client
           S == Head(queue).items
           common == mClientToDataItems[c] \cap S
<1>1. /\ Taking("updateSubscription")
      /\ UNCHANGED <<world, mDataItemCache, value, mReqStatusReceived, daemon>>
  BY DEF HandleUpdateSubscriptionReq, state, xtra
<1>2. QueueInv /\ DataFit BY DEF ObserverInv, TellInv
<1>3. /\ queue # <<>> /\ Head(queue).type \in ClientCalls
      /\ S \subseteq Items /\ Exposed({"updates"})
  BY <1>1, <1>2, HeadFacts DEF FromObserver, OfThisWorld, ClientCalls
<1>4. PICK fresh \in SUBSET S :
         /\ Deliver(mDataItemCache, Only(c, fresh))
         /\ \E A, B : AskFramework(A, {}, B)
  BY DEF HandleUpdateSubscriptionReq
<1>5. Only(c, fresh)[Xtra] \subseteq Items BY <1>3 DEF Only, Observers
<1>6. told'[Xtra] = told[Xtra] BY <1>2, <1>4, ToldByDelivery
<1> HIDE DEF c, S
<1>7. PICK A, B : AskFramework(A, {}, B) BY <1>4
<1>8. MessagesFit(queue)' /\ DataFit' /\ FrameworkTold' /\ DaemonTold'
  BY <1>1, <1>3, <1>4, <1>5, <1>6, <1>7, AnsweredFits
<1>9. ObserversTold' BY <1>1, <1>3 DEF ObserversTold, Exposed
<1> QED BY <1>8, <1>9 DEF TellInv

-----------------------------------------------------------------------------
(* Reports, and what is recorded of them                                     *)

LEMMA NetworkReportFits ==
    ASSUME NEW n \in Networks, NEW t \in NetworkTypes, NEW u \in BOOLEAN
    PROVE  Report(u, n, t) \in NetworkItem
<1>1. Entry(n, t) \in NetworkEntry BY DEF Entry, NetworkEntry
<1> HIDE DEF NetworkEntry
<1>2. <<Entry(n, t)>> \in Seq(NetworkEntry) BY <1>1
<1> QED BY <1>1, <1>2 DEF Report, NetworkItem

LEMMA FrontFits ==
    ASSUME NEW S, NEW s \in Seq(S), s # <<>>
    PROVE  Front(s) \in Seq(S)
BY DEF Front

LEMMA LeaveFits ==
    ASSUME NEW v \in NetworkItem, NEW cur \in NetworkItem
    PROVE  Leave(v, cur) \in NetworkItem
<1> DEFINE others == {i \in DOMAIN cur.handles :
                         /\ cur.handles[i].type = v.entry.type
                         /\ cur.handles[i].handle # v.entry.handle}
           left == {i \in DOMAIN cur.handles : cur.handles[i] = v.entry}
           moved == [cur.handles EXCEPT ![Max(left)] = Last(cur.handles)]
           handles == IF left = {} THEN cur.handles ELSE Front(moved)
           mask == IF others = {} THEN cur.mAllTypes \ v.mAllTypes ELSE v.mAllTypes
<1>1. /\ cur.handles \in Seq(NetworkEntry)
      /\ cur.mAllTypes \subseteq NetworkTypes /\ v.mAllTypes \subseteq NetworkTypes
  BY DEF NetworkItem
<1>2. mask \in SUBSET NetworkTypes BY <1>1
<1>3. handles \in Seq(NetworkEntry)
  <2>1. ASSUME left # {}
        PROVE  Front(moved) \in Seq(NetworkEntry)
    <3> HIDE DEF left
    <3> DEFINE s == cur.handles
    <3>0. s \in Seq(NetworkEntry) /\ s # <<>> BY <1>1, <2>1 DEF left
    <3>1. Len(s) \in Nat /\ Len(s) >= 1 /\ s \in [1..Len(s) -> NetworkEntry]
      BY <3>0, LenProperties, EmptySeq
    <3>2. Last(s) \in NetworkEntry BY <3>1 DEF Last
    <3>3. moved \in [1..Len(s) -> NetworkEntry] BY <3>1, <3>2
    <3>4. moved \in Seq(NetworkEntry) BY <3>1, <3>3
    <3>5. Len(moved) = Len(s) BY <3>1, <3>3, <3>4, LenProperties
    <3>6. moved # <<>> BY <3>1, <3>5
    <3> HIDE DEF moved
    <3> QED BY <3>4, <3>6, FrontFits
  <2> QED BY <1>1, <2>1
<1>4. Leave(v, cur) = [v EXCEPT !.mAllTypes = mask, !.handles = handles] BY DEF Leave
<1> HIDE DEF mask, handles
<1> QED BY <1>2, <1>3, <1>4 DEF NetworkItem

LEMMA EnterFits ==
    ASSUME NEW v \in NetworkItem, NEW cur \in NetworkItem
    PROVE  Enter(v, cur) \in NetworkItem
<1> DEFINE handles == IF Known(cur.handles, v.entry.handle) \/ Len(cur.handles) = MaxHandles
                      THEN cur.handles ELSE Append(cur.handles, v.entry)
           mask == v.mAllTypes \cup cur.mAllTypes
<1>1. /\ cur.handles \in Seq(NetworkEntry) /\ v.entry \in NetworkEntry
      /\ cur.mAllTypes \subseteq NetworkTypes /\ v.mAllTypes \subseteq NetworkTypes
  BY DEF NetworkItem
<1>2. Append(cur.handles, v.entry) \in Seq(NetworkEntry) BY <1>1, AppendProperties
<1>3. handles \in Seq(NetworkEntry) /\ mask \subseteq NetworkTypes BY <1>1, <1>2
<1>4. Enter(v, cur) = [v EXCEPT !.mAllTypes = mask, !.handles = handles] BY DEF Enter
<1> HIDE DEF mask, handles
<1> QED BY <1>3, <1>4 DEF NetworkItem

LEMMA RecordedFits ==
    ASSUME NEW i \in Items, mDataItemCache[i] \in Value(i) \cup {None}, NEW v \in Value(i)
    PROVE  Recorded(i, v) \in Value(i) /\ (i # Network => Recorded(i, v) = v)
BY LeaveFits, EnterFits DEF Recorded, collate, Value

LEMMA NoneIsNoValue == \A i \in Items : None \notin Value(i)
BY ObserverAssumption DEF Value

LEMMA NotifyTells ==
    ASSUME ObserverInv, TellInv, HandleNotify
    PROVE  TellInv'
<1> DEFINE S == Head(queue).items
           values == Head(queue).values
           changed == {i \in S : Updated(i, values[i])}
           cache == [i \in Items |-> IF i \in changed THEN Recorded(i, values[i])
                                     ELSE mDataItemCache[i]]
           concerned == UNION {mDataItemToClients[i] : i \in changed}
           wanted == [c \in Observers |->
                         IF c \in concerned THEN mClientToDataItems[c] \cap changed ELSE {}]
<1>1. /\ queue # <<>> /\ Head(queue).type = "notify"
      /\ mDataItemCache' = cache
      /\ Deliver(cache, wanted)
      /\ UNCHANGED <<world, mSubscriptionObj, mClientToDataItems, mDataItemToClients, osSubscribed,
                     due, value, mReqStatusReceived, daemon>>
  BY DEF HandleNotify, Taking, maps, framework, state, xtra
<1>2. QueueInv /\ MapsInv /\ SubscriptionsAgree /\ MessagesFit(queue) /\ DataFit
  BY DEF ObserverInv, TellInv
<1>3. IsSeq(queue) BY <1>2 DEF QueueInv, Fine
<1>4. S \subseteq Items /\ \A i \in S : values[i] \in Value(i)
  BY <1>1, <1>2, <1>3, TakeFits DEF MessageFits
<1>5. \A i \in Items : mDataItemCache[i] \in Value(i) \cup {None} BY <1>2 DEF DataFit
<1>6. \A i \in changed : /\ i \in Items /\ cache[i] = Recorded(i, values[i])
                         /\ cache[i] \in Value(i) /\ cache[i] # None
                         /\ i # Network => cache[i] = values[i]
  BY <1>4, <1>5, RecordedFits, NoneIsNoValue
<1>7. \A i \in Items : i \notin changed => cache[i] = mDataItemCache[i]  OBVIOUS
<1>8. \A i \in S : i # Network => cache[i] = values[i]
  <2> SUFFICES ASSUME NEW i \in S, i # Network, i \notin changed
               PROVE  cache[i] = values[i]
    BY <1>6
  <2>1. ~Updated(i, values[i])  OBVIOUS
  <2>2. mDataItemCache[i] = values[i] BY <2>1 DEF Updated
  <2> QED BY <1>4, <1>7, <2>2
<1>9. DOMAIN cache = Items  OBVIOUS
<1> HIDE DEF S, values, cache, changed
<1>10. \A c \in Observers : wanted[c] \subseteq changed \cap Items BY <1>2, <1>6 DEF MapsInv
<1>11. Xtra \in Observers /\ Clients \subseteq Observers /\ Xtra \notin Clients
  BY ObserverAssumption DEF Observers
<1>12. ~Exposed({"updates"}) =>
           \A c \in Observers : \A i \in mClientToDataItems[c] : i \in wanted[c] <=> i \in changed
  <2> SUFFICES ASSUME ~Exposed({"updates"}), NEW c \in Observers, NEW i \in mClientToDataItems[c],
                      i \in changed
               PROVE  i \in wanted[c]
    BY <1>10
  <2>1. c \in mDataItemToClients[i] BY <1>2, <1>6 DEF SubscriptionsAgree
  <2>2. c \in concerned BY <2>1
  <2> HIDE DEF concerned
  <2> QED BY <2>2
<1> HIDE DEF wanted
<1>13. /\ told'[Xtra] = told[Xtra]
       /\ told' = [c \in Observers |-> [i \in Items |-> told'[c][i]]]
       /\ \A o \in Observers, i \in Items : told'[o][i] =
             IF o # Xtra /\ i \in wanted[o] /\ cache[i] # None THEN cache[i] ELSE told[o][i]
  BY <1>1, <1>2, ToldByDelivery
<1>14. MessagesFit(queue') BY <1>1, <1>2, <1>10, <1>11, DeliverFits
<1>15. DataFit'
  <2>1. \A i \in Items : cache[i] \in Value(i) \cup {None} BY <1>5, <1>6, <1>7
  <2>2. cache = [i \in Items |-> cache[i]] BY DEF cache
  <2> QED BY <1>1, <1>2, <1>13, <2>1, <2>2 DEF DataFit
<1>16. DaemonTold'
  <2>1. Requested(queue) => Requested(queue') BY <1>1, <1>2, DeliverRequested
  <2> QED BY <1>1, <1>13, <2>1 DEF TellInv, DaemonTold
<1>17. FrameworkTold'
  <2> SUFFICES ASSUME NEW i \in Plain \cap osSubscribed, i \notin due
               PROVE  Brings(queue', "notify", i, cache[i], value[i])
    BY <1>1 DEF FrameworkTold
  <2>1. Brings(queue, "notify", i, mDataItemCache[i], value[i]) BY DEF TellInv, FrameworkTold
  <2>2. i # Network /\ i \in Items BY ObserverAssumption DEF Items
  <2>3. cache[i] = IF Carries(Head(queue), "notify", i) THEN Head(queue).values[i]
                   ELSE mDataItemCache[i]
    <3>1. Carries(Head(queue), "notify", i) <=> i \in S BY <1>1 DEF Carries, S
    <3>2. i \notin S => i \notin changed BY DEF changed
    <3> QED BY <1>7, <1>8, <2>2, <3>1, <3>2 DEF values
  <2>4. IsSeq(Tail(queue)) /\ Brings(Tail(queue), "notify", i, cache[i], value[i])
    BY <1>1, <1>3, <2>1, <2>3, Taken, TakeBrings
  <2>5. queue' = Tail(queue) \/ \E T : queue' = Append(Tail(queue), Data("xtra", T, cache))
    BY <1>1 DEF Deliver
  <2>6. \A T : ~Carries(Data("xtra", T, cache), "notify", i) BY DEF Carries, Data
  <2> QED BY <2>4, <2>5, <2>6, PostBrings
<1>18. ObserversTold'
  <2> SUFFICES ASSUME ~Exposed({"updates"})
               PROVE  ClientsTold' /\ XtraTold(queue)' /\ UnknownUntold(queue)'
    BY <1>1 DEF ObserversTold, Exposed
  <2>1. ClientsTold /\ XtraTold(queue) /\ UnknownUntold(queue) BY DEF TellInv, ObserversTold
  <2>2. \A i : ~Carries(Head(queue), "xtra", i) BY <1>1 DEF Carries
  <2>3. \A o \in Observers : mClientToDataItems[o] \subseteq Items BY <1>2 DEF MapsInv
  <2>4. ClientsTold'
    <3> SUFFICES ASSUME NEW o \in Clients, NEW i \in mClientToDataItems[o]
                 PROVE  told'[o][i] = cache[i]
      BY <1>1 DEF ClientsTold
    <3>1. o \in Observers /\ o # Xtra /\ i \in Items BY <1>11, <2>3
    <3>2. CASE i \in changed BY <1>6, <1>12, <1>13, <3>1, <3>2
    <3>3. CASE i \notin changed
      <4>1. told[o][i] = mDataItemCache[i] BY <2>1 DEF ClientsTold
      <4> QED BY <1>7, <1>12, <1>13, <3>1, <3>3, <4>1
    <3> QED BY <3>2, <3>3
  <2>5. XtraTold(queue)'
    <3> SUFFICES ASSUME NEW i \in mClientToDataItems[Xtra]
                 PROVE  Brings(queue', "xtra", i, told[Xtra][i], cache[i])
      BY <1>1, <1>13 DEF XtraTold
    <3>1. i \in Items BY <1>11, <2>3
    <3>2. CASE i \in changed
      <4>1. i \in wanted[Xtra] /\ cache[i] # None BY <1>6, <1>11, <1>12, <3>2
      <4> QED BY <1>1, <1>2, <4>1, DeliverTells
    <3>3. CASE i \notin changed
      <4>1. Brings(queue, "xtra", i, told[Xtra][i], cache[i])
        BY <1>7, <2>1, <3>1, <3>3 DEF XtraTold
      <4>2. i \notin wanted[Xtra] BY <1>11, <1>12, <3>3
      <4> QED BY <1>1, <1>2, <2>2, <4>1, <4>2, DeliverBrings
    <3> QED BY <3>2, <3>3
  <2>6. UnknownUntold(queue)'
    <3> SUFFICES ASSUME NEW i \in Items, cache[i] = None
                 PROVE  Absent(queue', "xtra", i) /\ \A o \in Observers : told'[o][i] = None
      BY <1>1 DEF UnknownUntold
    <3>1. mDataItemCache[i] = None BY <1>6, <1>7
    <3>2. Absent(queue, "xtra", i) /\ \A o \in Observers : told[o][i] = None
      BY <2>1, <3>1 DEF UnknownUntold
    <3>3. Absent(queue', "xtra", i) BY <1>1, <1>2, <3>2, DeliverAbsent
    <3> QED BY <1>13, <3>2, <3>3
  <2> QED BY <2>4, <2>5, <2>6
<1> QED BY <1>14, <1>15, <1>16, <1>17, <1>18 DEF TellInv

(* Xtra is told what waited for it, and tells the daemon.                    *)
LEMMA XtraTells ==
    ASSUME ObserverInv, TellInv, HandleOsObserverUpdate
    PROVE  TellInv'
<1> DEFINE S == Head(queue).items
           values == Head(queue).values
           next == [i \in Items |-> IF i \in S THEN values[i] ELSE told[Xtra][i]]
<1>1. /\ queue # <<>> /\ Head(queue).type = "xtra" /\ queue' = Tail(queue)
      /\ told' = [told EXCEPT ![Xtra] = next]
      /\ daemon' = IF mReqStatusReceived
                   THEN [daemon EXCEPT !.known =
                            [i \in Items |-> IF i \in S THEN values[i] ELSE @[i]]]
                   ELSE daemon
      /\ UNCHANGED <<world, mClientToDataItems, mDataItemCache, framework, value,
                     mReqStatusReceived>>
  BY DEF HandleOsObserverUpdate, Taking, maps, state
<1>2. IsSeq(queue) /\ MessagesFit(queue) /\ DataFit BY DEF ObserverInv, QueueInv, Fine, TellInv
<1>3. Xtra \in Observers /\ Clients \subseteq Observers /\ Xtra \notin Clients
  BY ObserverAssumption DEF Observers
<1>4. MessagesFit(queue') BY <1>1, <1>2, TakeFits
<1>5. /\ told' = [c \in Observers |-> [i \in Items |-> told'[c][i]]]
      /\ told'[Xtra] = next
      /\ \A c \in Clients : told'[c] = told[c]
  <2>1. told = [c \in Observers |-> [i \in Items |-> told[c][i]]] BY <1>2 DEF DataFit
  <2>2. told' = [c \in Observers |-> IF c = Xtra THEN next ELSE told[c]] BY <1>1, <2>1
  <2>3. \A c \in Observers : told[c] = [i \in Items |-> told[c][i]] BY <2>1
  <2>4. \A c \in Observers : told'[c] = [i \in Items |-> told'[c][i]] BY <2>2, <2>3
  <2> QED BY <1>3, <2>2, <2>4
<1>6. /\ daemon' = [asked |-> daemon'.asked, known |-> daemon'.known]
      /\ daemon'.asked = daemon.asked
      /\ mReqStatusReceived => daemon'.known =
             [i \in Items |-> IF i \in S THEN values[i] ELSE daemon.known[i]]
  BY <1>1, <1>2 DEF DataFit
<1>7. DataFit' BY <1>1, <1>2, <1>5, <1>6 DEF DataFit, framework
<1>8. \A i \in Plain : \A now, v :
          Brings(queue, "notify", i, now, v) => Brings(queue', "notify", i, now, v)
  <2>1. \A i : ~Carries(Head(queue), "notify", i) BY <1>1 DEF Carries
  <2> QED BY <1>1, <1>2, <2>1, TakeBrings
<1>9. FrameworkTold' BY <1>1, <1>8, FrameworkStays DEF TellInv, framework
<1>10. DaemonTold'
  <2>1. Requested(queue) => Requested(queue') BY <1>1, <1>2, TakeRequested
  <2>2. ASSUME mReqStatusReceived, daemon.known = told[Xtra]
        PROVE  daemon'.known = told'[Xtra]
    BY <1>5, <1>6, <2>2
  <2> QED BY <1>1, <1>6, <2>1, <2>2 DEF TellInv, DaemonTold
<1> HIDE DEF S, values
<1>11. \A i \in Items : told'[Xtra][i] = IF Carries(Head(queue), "xtra", i)
                                         THEN Head(queue).values[i] ELSE told[Xtra][i]
  BY <1>1, <1>5 DEF Carries, S, values
<1>12. ObserversTold'
  <2> SUFFICES ASSUME ~Exposed({"updates"})
               PROVE  ClientsTold' /\ XtraTold(queue)' /\ UnknownUntold(queue)'
    BY <1>1 DEF ObserversTold, Exposed
  <2>1. ClientsTold /\ XtraTold(queue) /\ UnknownUntold(queue) BY DEF TellInv, ObserversTold
  <2>2. ClientsTold' BY <1>1, <1>5, <2>1 DEF ClientsTold
  <2>3. XtraTold(queue)'
    <3> SUFFICES ASSUME NEW i \in mClientToDataItems[Xtra]
                 PROVE  Brings(queue', "xtra", i, told'[Xtra][i], mDataItemCache[i])
      BY <1>1 DEF XtraTold
    <3>1. i \in Items BY <1>3 DEF ObserverInv, MapsInv
    <3>2. Brings(queue, "xtra", i, told[Xtra][i], mDataItemCache[i]) BY <2>1 DEF XtraTold
    <3> QED BY <1>1, <1>2, <1>11, <3>1, <3>2, TakeBrings
  <2>4. UnknownUntold(queue)'
    <3> SUFFICES ASSUME NEW i \in Items, mDataItemCache[i] = None
                 PROVE  Absent(queue', "xtra", i) /\ \A o \in Observers : told'[o][i] = None
      BY <1>1 DEF UnknownUntold
    <3>1. Absent(queue, "xtra", i) /\ \A o \in Observers : told[o][i] = None
      BY <2>1 DEF UnknownUntold
    <3>2. Absent(queue', "xtra", i) BY <1>1, <1>2, <3>1, TakeAbsent
    <3>3. ~Carries(Head(queue), "xtra", i) BY <1>1, <1>2, <3>1, Taken DEF Absent
    <3> QED BY <1>3, <1>5, <1>11, <3>1, <3>2, <3>3 DEF Observers
  <2> QED BY <2>2, <2>3, <2>4
<1> QED BY <1>4, <1>7, <1>9, <1>10, <1>12 DEF TellInv

(* The daemon is answered with what Xtra was told.                           *)
LEMMA StatusTells ==
    ASSUME ObserverInv, TellInv, onStatusRequested
    PROVE  TellInv'
<1>1. /\ queue # <<>> /\ Head(queue).type = "requestStatus" /\ queue' = Tail(queue)
      /\ mReqStatusReceived' = TRUE
      /\ daemon' = [daemon EXCEPT !.known = told[Xtra]]
      /\ UNCHANGED <<world, mClientToDataItems, mDataItemCache, told, framework, value>>
  BY DEF onStatusRequested, Taking, maps, state
<1>2. IsSeq(queue) /\ MessagesFit(queue) /\ DataFit BY DEF ObserverInv, QueueInv, Fine, TellInv
<1>3. MessagesFit(queue') BY <1>1, <1>2, TakeFits
<1>4. daemon' = [asked |-> daemon.asked, known |-> told[Xtra]] BY <1>1, <1>2 DEF DataFit
<1>5. DataFit' BY <1>1, <1>2, <1>4 DEF DataFit, framework
<1>6. DaemonTold' BY <1>1, <1>4 DEF DaemonTold
<1>7. \A type \in {"xtra", "notify"} : \A i : ~Carries(Head(queue), type, i)
  BY <1>1 DEF Carries
<1>8. /\ \A type \in {"xtra", "notify"} : \A i, now, v :
             Brings(queue, type, i, now, v) => Brings(queue', type, i, now, v)
      /\ \A i : Absent(queue, "xtra", i) => Absent(queue', "xtra", i)
  BY <1>1, <1>2, <1>7, TakeBrings, TakeAbsent
<1>9. FrameworkTold' BY <1>1, <1>8, FrameworkStays DEF TellInv, framework
<1>10. ObserversTold'
  <2> SUFFICES ASSUME ~Exposed({"updates"})
               PROVE  ClientsTold' /\ XtraTold(queue)' /\ UnknownUntold(queue)'
    BY <1>1 DEF ObserversTold, Exposed
  <2>1. ClientsTold /\ XtraTold(queue) /\ UnknownUntold(queue) BY DEF TellInv, ObserversTold
  <2>2. ClientsTold' BY <1>1, <2>1 DEF ClientsTold
  <2>3. XtraTold(queue)' BY <1>1, <1>8, <2>1 DEF XtraTold
  <2>4. UnknownUntold(queue)' BY <1>1, <1>8, <2>1 DEF UnknownUntold
  <2> QED BY <2>2, <2>3, <2>4
<1> QED BY <1>3, <1>5, <1>6, <1>9, <1>10 DEF TellInv

LEMMA InitTells == ObserverInit => TellInv
<1> SUFFICES ASSUME ObserverInit
             PROVE  TellInv
  OBVIOUS
<1> DEFINE first == Call("subscribe", Xtra, {Network})
           second == Call("requestData", Xtra, {Tac})
<1>1. queue = <<first, second>> BY DEF ObserverInit
<1>2. first.type = "subscribe" /\ second.type = "requestData" BY DEF Call
<1> HIDE DEF first, second
<1>3. DOMAIN queue = {1, 2} /\ queue[1] = first /\ queue[2] = second BY <1>1
<1>4. MessagesFit(queue) /\ \A i : Absent(queue, "xtra", i)
  BY <1>2, <1>3 DEF MessagesFit, MessageFits, Absent, Carries
<1>5. DataFit BY DEF ObserverInit, DataFit, Nothing
<1>6. ObserversTold
  <2>1. ClientsTold /\ XtraTold(queue) BY DEF ObserverInit, ClientsTold, XtraTold, Observers
  <2>2. UnknownUntold(queue) BY <1>4 DEF ObserverInit, UnknownUntold, Nothing
  <2> QED BY <2>1, <2>2 DEF ObserversTold
<1>7. FrameworkTold /\ DaemonTold BY DEF ObserverInit, FrameworkTold, DaemonTold
<1> QED BY <1>4, <1>5, <1>6, <1>7 DEF TellInv

(* A report of a network                                                     *)
LEMMA NetworkTells ==
    ASSUME ObserverInv, TellInv, NEW n \in Networks, NEW t \in NetworkTypes, NEW u \in BOOLEAN,
           NetworkReported(u, n, t), world' = world
    PROVE  TellInv'
<1> DEFINE values == [Nothing EXCEPT ![Network] = Report(u, n, t)]
           msg == Data("notify", {Network}, values)
<1>1. /\ queue' = Append(queue, msg)
      /\ UNCHANGED <<world, mClientToDataItems, mDataItemCache, told, framework, value,
                     mReqStatusReceived, daemon>>
  BY DEF NetworkReported, Post, maps, xtra
<1>2. Network \in Items /\ Network \notin Plain BY ObserverAssumption DEF Items
<1>3. values[Network] \in NetworkItem BY <1>2, NetworkReportFits DEF Nothing
<1>4. msg.type = "notify" /\ msg.items = {Network} /\ msg.values = values BY DEF Data
<1> HIDE DEF msg, values
<1>5. MessageFits(msg) BY <1>2, <1>3, <1>4 DEF MessageFits, Value
<1> QED BY <1>1, <1>2, <1>4, <1>5, PostedTells

LEMMA CallTells ==
    ASSUME ObserverInv, TellInv, NEW c, NEW S, NEW type \in ClientCalls, Calls(type, c, S)
    PROVE  TellInv'
<1> DEFINE msg == Call(type, c, S)
<1>1. /\ queue' = Append(queue, msg)
      /\ UNCHANGED <<world, mClientToDataItems, mDataItemCache, told, framework, value,
                     mReqStatusReceived, daemon>>
  BY DEF Calls, Post, maps, state, xtra
<1>2. msg.type = type /\ type \notin {"xtra", "notify", "requestStatus"}
  BY DEF Call, ClientCalls
<1> HIDE DEF msg
<1>3. MessageFits(msg) BY <1>2 DEF MessageFits
<1> QED BY <1>1, <1>2, <1>3, PostedTells

LEMMA DataTells ==
    ASSUME ObserverInv, TellInv, NEW type \in {"setSubscriptionObj", "requestStatus"},
           queue' = Append(queue, Data(type, {}, Nothing)),
           UNCHANGED <<world, mClientToDataItems, mDataItemCache, told, framework, value,
                       mReqStatusReceived>>,
           \/ daemon' = daemon
           \/ type = "requestStatus" /\ daemon' = [daemon EXCEPT !.asked = TRUE]
    PROVE  TellInv'
<1> DEFINE msg == Data(type, {}, Nothing)
<1>1. msg.type = type BY DEF Data
<1>2. queue' = Append(queue, msg)  OBVIOUS
<1> HIDE DEF msg
<1>3. MessageFits(msg) BY <1>1 DEF MessageFits
<1> QED BY <1>1, <1>2, <1>3, PostedTells

(* The networks that are up                                                  *)
UpFits == up \in [Networks -> NetworkTypes \cup {None}]

LEMMA UpStays == UpFits /\ [ObserverNext]_observerVars => UpFits'
<1> SUFFICES ASSUME UpFits, [ObserverNext]_observerVars
             PROVE  UpFits'
  OBVIOUS
<1>1. CASE UNCHANGED observerVars BY <1>1 DEF observerVars, state, UpFits
<1>2. ASSUME NEW c, NEW S, NEW type, Calls(type, c, S)
      PROVE  UpFits'
  BY <1>2 DEF Calls, state, UpFits
<1>3. ASSUME NEW n \in Networks, NEW t \in NetworkTypes, Connects(n, t) \/ Turns(n, t)
      PROVE  UpFits'
  BY <1>3 DEF Connects, Turns, UpFits
<1>4. ASSUME NEW n \in Networks, Disconnects(n)
      PROVE  UpFits'
  BY <1>4 DEF Disconnects, UpFits
<1>5. CASE SetSubscriptionObj \/ (\E i \in Plain : Changes(i)) \/ FrameworkReports \/ DaemonRestarts
           \/ DaemonAsks
  BY <1>5 DEF SetSubscriptionObj, Changes, FrameworkReports, DaemonRestarts, DaemonAsks, state, UpFits
<1>6. CASE \/ SetSubsObj
           \/ HandleSubscribeReq("subscribe") \/ HandleSubscribeReq("requestData")
           \/ HandleUpdateSubscriptionReq
           \/ HandleUnsubscribeReq("unsubscribe") \/ HandleUnsubscribeReq("unsubscribeAll")
           \/ HandleNotify \/ HandleOsObserverUpdate \/ onStatusRequested
  BY <1>6 DEF SetSubsObj, HandleSubscribeReq, HandleUpdateSubscriptionReq, HandleUnsubscribeReq,
    HandleNotify, HandleOsObserverUpdate, onStatusRequested, state, UpFits
<1> QED BY <1>1, <1>2, <1>3, <1>4, <1>5, <1>6 DEF ObserverNext, Subscribe, RequestData,
    UpdateSubscription, Unsubscribe, UnsubscribeAll

LEMMA NextTells == ObserverInv /\ UpFits /\ TellInv /\ [ObserverNext]_observerVars => TellInv'
<1> SUFFICES ASSUME ObserverInv, UpFits, TellInv, [ObserverNext]_observerVars
             PROVE  TellInv'
  OBVIOUS
<1>1. CASE UNCHANGED observerVars
  <2>1. UNCHANGED <<world, queue, mClientToDataItems, mDataItemCache, told, framework, value,
                    mReqStatusReceived, daemon>>
    BY <1>1 DEF observerVars, maps, state, xtra
  <2>2. ObserversTold' /\ DaemonTold' BY <2>1, TellsNothing DEF TellInv
  <2>3. DataFit' /\ FrameworkTold' BY <2>1 DEF TellInv, DataFit, FrameworkTold, framework
  <2> QED BY <2>1, <2>2, <2>3 DEF TellInv
<1>2. ASSUME NEW c \in Clients, NEW S \in Offers,
             \/ Subscribe(c, S) \/ RequestData(c, S) \/ UpdateSubscription(c, S)
             \/ Unsubscribe(c, S)
      PROVE  TellInv'
  <2>1. PICK type \in ClientCalls : Calls(type, c, S)
    BY <1>2 DEF Subscribe, RequestData, UpdateSubscription, Unsubscribe, ClientCalls
  <2> QED BY <2>1, CallTells
<1>3. ASSUME NEW c \in Clients, UnsubscribeAll(c)
      PROVE  TellInv'
  <2>1. Calls("unsubscribeAll", c, {}) /\ "unsubscribeAll" \in ClientCalls
    BY <1>3 DEF UnsubscribeAll, ClientCalls
  <2> QED BY <2>1, CallTells
<1>4. CASE SetSubscriptionObj
  BY <1>4, DataTells DEF SetSubscriptionObj, Post, maps, state, xtra
<1>5. CASE DaemonAsks BY <1>5, DataTells DEF DaemonAsks, Post, maps, state
<1>6. ASSUME NEW n \in Networks, NEW t \in NetworkTypes, Connects(n, t) \/ Turns(n, t)
      PROVE  TellInv'
  <2>1. NetworkReported(TRUE, n, t) /\ world' = world
    BY <1>6 DEF Connects, Turns, NetworkReported
  <2> QED BY <2>1, NetworkTells
<1>7. ASSUME NEW n \in Networks, Disconnects(n)
      PROVE  TellInv'
  <2>1. up[n] \in NetworkTypes /\ NetworkReported(FALSE, n, up[n]) /\ world' = world
    BY <1>7 DEF Disconnects, NetworkReported, UpFits
  <2> QED BY <2>1, NetworkTells
<1> QED BY <1>1, <1>2, <1>3, <1>4, <1>5, <1>6, <1>7, ReportTells, ChangeTells, RestartTells,
    SetSubsObjTells, SubscribeTells, UpdateTells, UnsubscribeTells, NotifyTells, XtraTells,
    StatusTells DEF ObserverNext

(* Once all is quiet everybody was told the newest value of what he          *)
(* subscribed to, and so was the daemon whenever it started, for any clients,*)
(* items, calls, changes and restarts (sendCachedDataItems, HandleNotify,    *)
(* onStatusRequested).                                                       *)
THEOREM NewestIsTold == ObserverSpec => []Newest
<1>1. ObserverInit => UpFits BY DEF ObserverInit, UpFits
<1>2. TellInv => Newest BY TellInvServes
<1> QED BY <1>1, <1>2, InitKeeps, NextKeeps, UpStays, InitTells, NextTells, PTL DEF ObserverSpec

-----------------------------------------------------------------------------
(* The table of networks                                                     *)

NetState == [Networks -> NetworkTypes \cup {None}]
Upset(a) == {n \in Networks : a[n] # None}

(* The table says which networks are up, each once; the mask has no type     *)
(* more and, where no type has two networks, all of them.                    *)
TableFits(v, twins, a) ==
    IF v = None THEN Upset(a) = {}
    ELSE /\ \A i, j \in DOMAIN v.handles : v.handles[i].handle = v.handles[j].handle => i = j
         /\ \A i \in DOMAIN v.handles : a[v.handles[i].handle] = v.handles[i].type
         /\ \A n \in Upset(a) : \E i \in DOMAIN v.handles : v.handles[i] = Entry(n, a[n])
         /\ \A t \in v.mAllTypes : \E n \in Networks : a[n] = t
         /\ ~twins => \A n \in Upset(a) :
                /\ a[n] \in v.mAllTypes
                /\ \A m \in Networks : a[m] = a[n] => m = n

LEMMA EntryFields ==
    \A n, t : Entry(n, t).handle = n /\ Entry(n, t).type = t
BY DEF Entry

LEMMA HandlesFacts ==
    ASSUME NEW v \in NetworkItem
    PROVE  /\ v.handles \in Seq(NetworkEntry)
           /\ Len(v.handles) \in Nat /\ DOMAIN v.handles = 1..Len(v.handles)
           /\ \A i \in DOMAIN v.handles :
                 /\ v.handles[i] \in NetworkEntry
                 /\ v.handles[i].handle \in Networks /\ v.handles[i].type \in NetworkTypes
                 /\ v.handles[i] = Entry(v.handles[i].handle, v.handles[i].type)
           /\ v.mAllTypes \subseteq NetworkTypes
<1>1. v.handles \in Seq(NetworkEntry) /\ v.mAllTypes \subseteq NetworkTypes BY DEF NetworkItem
<1>2. /\ Len(v.handles) \in Nat /\ DOMAIN v.handles = 1..Len(v.handles)
      /\ v.handles \in [1..Len(v.handles) -> NetworkEntry]
  BY <1>1, LenProperties
<1>3. \A e \in NetworkEntry : /\ e.handle \in Networks /\ e.type \in NetworkTypes
                              /\ e = Entry(e.handle, e.type)
  BY DEF NetworkEntry, Entry
<1> HIDE DEF NetworkEntry
<1> QED BY <1>1, <1>2, <1>3

(* The table has as many entries as networks are up,                         *)
LEMMA TableCounts ==
    ASSUME NEW v \in NetworkItem, NEW twins, NEW a \in NetState, TableFits(v, twins, a)
    PROVE  Len(v.handles) = Cardinality(Upset(a)) /\ IsFiniteSet(Upset(a))
<1> DEFINE s == v.handles
           f == [i \in 1..Len(s) |-> s[i].handle]
<1>1. v # None BY ObserverAssumption
<1>2. /\ Len(s) \in Nat /\ DOMAIN s = 1..Len(s)
      /\ \A i \in DOMAIN s : /\ s[i].handle \in Networks /\ s[i].type \in NetworkTypes
                             /\ s[i] = Entry(s[i].handle, s[i].type)
  BY HandlesFacts
<1>3. /\ \A i, j \in DOMAIN s : s[i].handle = s[j].handle => i = j
      /\ \A i \in DOMAIN s : a[s[i].handle] = s[i].type
      /\ \A n \in Upset(a) : \E i \in DOMAIN s : s[i] = Entry(n, a[n])
  BY <1>1 DEF TableFits
<1> HIDE DEF s
<1>4. f \in [1..Len(s) -> Upset(a)] BY <1>2, <1>3, ObserverAssumption DEF Upset
<1>5. \A n \in Upset(a) : \E i \in 1..Len(s) : f[i] = n BY <1>2, <1>3, EntryFields
<1>6. f \in Injection(1..Len(s), Upset(a)) /\ f \in Surjection(1..Len(s), Upset(a))
  BY <1>2, <1>3, <1>4, <1>5 DEF Injection, IsInjective, Surjection
<1>7. IsFiniteSet(1..Len(s)) /\ Cardinality(1..Len(s)) = Len(s) BY <1>2, FS_Interval
<1>8. IsFiniteSet(Upset(a)) BY ObserverAssumption, FS_Subset DEF Upset
<1> HIDE DEF f
<1>9. Cardinality(1..Len(s)) = Cardinality(Upset(a)) BY <1>6, <1>8, FS_Injection
<1> QED BY <1>7, <1>8, <1>9 DEF s

(* so it has room for one more.                                              *)
LEMMA TableHasRoom ==
    ASSUME NEW v \in NetworkItem, NEW twins, NEW a \in NetState, TableFits(v, twins, a),
           NEW n \in Networks, a[n] = None
    PROVE  Len(v.handles) # MaxHandles
<1>1. Len(v.handles) = Cardinality(Upset(a)) /\ IsFiniteSet(Upset(a)) BY TableCounts
<1>2. IsFiniteSet(Networks) /\ Upset(a) \subseteq Networks /\ Upset(a) # Networks
  BY ObserverAssumption DEF Upset
<1>3. Cardinality(Upset(a)) <= Cardinality(Networks) /\ Cardinality(Upset(a)) # Cardinality(Networks)
  BY <1>2, FS_Subset
<1>4. Cardinality(Upset(a)) \in Nat /\ Cardinality(Networks) \in Nat
  BY <1>1, <1>2, FS_CardinalityType
<1> QED BY <1>1, <1>3, <1>4, ObserverAssumption

LEMMA EnterTable ==
    ASSUME NEW cur \in NetworkItem, NEW twins \in BOOLEAN, NEW a \in NetState,
           TableFits(cur, twins, a),
           NEW n \in Networks, NEW t \in NetworkTypes, a[n] = None, ~twins => \A m \in Networks : a[m] # t
    PROVE  /\ TableFits(Enter(Report(TRUE, n, t), cur), twins, [a EXCEPT ![n] = t])
           /\ Enter(Report(TRUE, n, t), cur).handles # cur.handles
<1> DEFINE s == cur.handles
           b == [a EXCEPT ![n] = t]
           new == Enter(Report(TRUE, n, t), cur)
           r == Append(s, Entry(n, t))
<1>1. /\ s \in Seq(NetworkEntry) /\ Len(s) \in Nat /\ DOMAIN s = 1..Len(s)
      /\ \A i \in DOMAIN s : /\ s[i].handle \in Networks /\ s[i].type \in NetworkTypes
                             /\ s[i] = Entry(s[i].handle, s[i].type)
  BY HandlesFacts
<1>2. cur # None /\ None \notin NetworkTypes BY ObserverAssumption
<1>3. /\ \A i, j \in DOMAIN s : s[i].handle = s[j].handle => i = j
      /\ \A i \in DOMAIN s : a[s[i].handle] = s[i].type
      /\ \A m \in Upset(a) : \E i \in DOMAIN s : s[i] = Entry(m, a[m])
      /\ \A u \in cur.mAllTypes : \E m \in Networks : a[m] = u
      /\ ~twins => \A m \in Upset(a) : /\ a[m] \in cur.mAllTypes
                                       /\ \A k \in Networks : a[k] = a[m] => k = m
  BY <1>2 DEF TableFits
<1>4. \A i \in DOMAIN s : s[i].handle # n BY <1>1, <1>2, <1>3
<1>5. ~Known(s, n) /\ Len(s) # MaxHandles BY <1>4, TableHasRoom DEF Known
<1>6. new.handles = r /\ new.mAllTypes = {t} \cup cur.mAllTypes
  BY <1>5, EntryFields DEF Enter, Report
<1>7. new \in NetworkItem /\ new # None BY NetworkReportFits, EnterFits, ObserverAssumption
<1>8. Entry(n, t) \in NetworkEntry BY DEF Entry, NetworkEntry
<1>9. /\ DOMAIN r = 1..(Len(s) + 1)
      /\ r[Len(s) + 1] = Entry(n, t)
      /\ \A i \in DOMAIN s : r[i] = s[i]
  BY <1>1, <1>8, AppendProperties
<1>10. r # s BY <1>1, <1>9
<1>11. /\ \A m \in Networks : b[m] = IF m = n THEN t ELSE a[m]
       /\ \A m \in Networks : m \in Upset(b) <=> m = n \/ m \in Upset(a)
       /\ \A m \in Upset(b) : m \in Networks
  BY <1>2 DEF NetState, Upset
<1> HIDE DEF s, r, b, new
<1>12. \A i \in DOMAIN r : i \in DOMAIN s \/ (i = Len(s) + 1 /\ r[i] = Entry(n, t))
  BY <1>1, <1>9
<1>13. \A i, j \in DOMAIN r : r[i].handle = r[j].handle => i = j
  BY <1>3, <1>4, <1>9, <1>12, EntryFields
<1>14. \A i \in DOMAIN r : b[r[i].handle] = r[i].type
  BY <1>1, <1>3, <1>4, <1>9, <1>11, <1>12, EntryFields
<1>15. \A m \in Upset(b) : \E i \in DOMAIN r : r[i] = Entry(m, b[m])
  <2> SUFFICES ASSUME NEW m \in Upset(b)
               PROVE  \E i \in DOMAIN r : r[i] = Entry(m, b[m])
    OBVIOUS
  <2>1. CASE m = n
    <3>1. Len(s) + 1 \in DOMAIN r BY <1>1, <1>9
    <3> QED BY <1>9, <1>11, <2>1, <3>1
  <2>2. CASE m # n
    <3>1. m \in Upset(a) /\ b[m] = a[m] BY <1>11, <2>2
    <3>2. PICK i \in DOMAIN s : s[i] = Entry(m, a[m]) BY <1>3, <3>1
    <3>3. i \in DOMAIN r BY <1>1, <1>9
    <3> QED BY <1>9, <3>1, <3>2, <3>3
  <2> QED BY <2>1, <2>2
<1>16. \A u \in new.mAllTypes : \E m \in Networks : b[m] = u
  <2> SUFFICES ASSUME NEW u \in new.mAllTypes
               PROVE  \E m \in Networks : b[m] = u
    OBVIOUS
  <2>1. CASE u = t BY <1>11, <2>1
  <2>2. CASE u # t
    <3>1. u \in NetworkTypes BY <1>7, HandlesFacts
    <3>2. PICK m \in Networks : a[m] = u BY <1>3, <1>6, <2>2
    <3> QED BY <1>2, <1>11, <3>1, <3>2
  <2> QED BY <2>1, <2>2
<1>17. ~twins => \A m \in Upset(b) : /\ b[m] \in new.mAllTypes
                                     /\ \A k \in Networks : b[k] = b[m] => k = m
  <2> SUFFICES ASSUME ~twins, NEW m \in Upset(b)
               PROVE  b[m] \in new.mAllTypes /\ \A k \in Networks : b[k] = b[m] => k = m
    OBVIOUS
  <2>1. CASE m = n BY <1>6, <1>11, <2>1
  <2>2. CASE m # n
    <3>1. m \in Upset(a) /\ b[m] = a[m] /\ m \in Networks BY <1>11, <2>2
    <3>2. a[m] \in cur.mAllTypes /\ \A k \in Networks : a[k] = a[m] => k = m BY <1>3, <3>1
    <3> QED BY <1>6, <1>11, <3>1, <3>2
  <2> QED BY <2>1, <2>2
<1>18. TableFits(new, twins, b) BY <1>6, <1>7, <1>13, <1>14, <1>15, <1>16, <1>17 DEF TableFits
<1> QED BY <1>6, <1>10, <1>18 DEF b, new, s

(* The last entry takes the place of the one that leaves.                    *)
LEMMA Moved ==
    ASSUME NEW S, NEW s \in Seq(S), NEW k \in 1..Len(s)
    PROVE  LET r == Front([s EXCEPT ![k] = Last(s)])
           IN  /\ DOMAIN r = 1..(Len(s) - 1)
               /\ \A i \in 1..(Len(s) - 1) : r[i] = IF i = k THEN s[Len(s)] ELSE s[i]
               /\ r # s
<1> DEFINE m == [s EXCEPT ![k] = Last(s)]
           r == SubSeq(m, 1, Len(s) - 1)
<1>1. Len(s) \in Nat /\ Len(s) >= 1 /\ s \in [1..Len(s) -> S] BY LenProperties
<1>2. Last(s) = s[Len(s)] /\ s[Len(s)] \in S BY <1>1 DEF Last
<1>3. /\ m \in [1..Len(s) -> S]
      /\ \A i \in 1..Len(s) : m[i] = IF i = k THEN s[Len(s)] ELSE s[i]
  BY <1>1, <1>2
<1> HIDE DEF m
<1>4. m \in Seq(S) BY <1>1, <1>3
<1>5. Len(m) = Len(s) BY <1>1, <1>3, <1>4, LenProperties
<1>6. /\ r \in Seq(S) /\ Len(r) = Len(s) - 1
      /\ \A i \in 1..(Len(s) - 1) : r[i] = m[i]
  BY <1>1, <1>4, <1>5
<1>7. Front(m) = r BY <1>5 DEF Front
<1> HIDE DEF r
<1>8. DOMAIN r = 1..Len(r) BY <1>6, LenProperties
<1>9. r # s BY <1>1, <1>6
<1>10. \A i \in 1..(Len(s) - 1) : r[i] = IF i = k THEN s[Len(s)] ELSE s[i] BY <1>1, <1>3, <1>6
<1>11. /\ DOMAIN Front(m) = 1..(Len(s) - 1)
       /\ \A i \in 1..(Len(s) - 1) : Front(m)[i] = IF i = k THEN s[Len(s)] ELSE s[i]
       /\ Front(m) # s
  BY <1>6, <1>7, <1>8, <1>9, <1>10
<1> QED BY <1>11 DEF m

LEMMA LeaveTable ==
    ASSUME NEW cur \in NetworkItem, NEW twins \in BOOLEAN, NEW a \in NetState,
           TableFits(cur, twins, a), NEW n \in Networks, NEW t \in NetworkTypes, a[n] = t
    PROVE  /\ TableFits(Leave(Report(FALSE, n, t), cur), twins, [a EXCEPT ![n] = None])
           /\ Leave(Report(FALSE, n, t), cur).handles # cur.handles
<1> DEFINE s == cur.handles
           b == [a EXCEPT ![n] = None]
           new == Leave(Report(FALSE, n, t), cur)
           others == {i \in DOMAIN s : s[i].type = t /\ s[i].handle # n}
           left == {i \in DOMAIN s : s[i] = Entry(n, t)}
<1>1. /\ s \in Seq(NetworkEntry) /\ Len(s) \in Nat /\ DOMAIN s = 1..Len(s)
      /\ \A i \in DOMAIN s : /\ s[i].handle \in Networks /\ s[i].type \in NetworkTypes
                             /\ s[i] = Entry(s[i].handle, s[i].type)
      /\ cur.mAllTypes \subseteq NetworkTypes
  BY HandlesFacts
<1>2. cur # None /\ None \notin NetworkTypes BY ObserverAssumption
<1>3. /\ \A i, j \in DOMAIN s : s[i].handle = s[j].handle => i = j
      /\ \A i \in DOMAIN s : a[s[i].handle] = s[i].type
      /\ \A m \in Upset(a) : \E i \in DOMAIN s : s[i] = Entry(m, a[m])
      /\ \A u \in cur.mAllTypes : \E m \in Networks : a[m] = u
      /\ ~twins => \A m \in Upset(a) : /\ a[m] \in cur.mAllTypes
                                       /\ \A k \in Networks : a[k] = a[m] => k = m
  BY <1>2 DEF TableFits
<1>4. n \in Upset(a) BY <1>2 DEF Upset
<1>5. PICK k \in DOMAIN s : s[k] = Entry(n, t) BY <1>3, <1>4
<1>6. \A i \in DOMAIN s : s[i].handle = n <=> i = k BY <1>3, <1>5, EntryFields
<1>7. left = {k} BY <1>5, <1>6, EntryFields
<1>8. Max({k}) = k BY <1>1 DEF Max
<1> DEFINE r == Front([s EXCEPT ![k] = Last(s)])
<1>9. /\ new.handles = r
      /\ new.mAllTypes = IF others = {} THEN cur.mAllTypes \ {t} ELSE {t}
  <2>1. /\ new.handles = IF left = {} THEN s ELSE Front([s EXCEPT ![Max(left)] = Last(s)])
        /\ new.mAllTypes = IF others = {} THEN cur.mAllTypes \ {t} ELSE {t}
    BY EntryFields DEF Leave, Report
  <2> HIDE DEF left, new
  <2> QED BY <1>7, <1>8, <2>1
<1>10. /\ DOMAIN r = 1..(Len(s) - 1)
       /\ \A i \in 1..(Len(s) - 1) : r[i] = IF i = k THEN s[Len(s)] ELSE s[i]
       /\ r # s
  BY <1>1, Moved
<1>11. new \in NetworkItem /\ new # None BY NetworkReportFits, LeaveFits, ObserverAssumption
<1>12. /\ \A m \in Networks : b[m] = IF m = n THEN None ELSE a[m]
       /\ \A m \in Networks : m \in Upset(b) <=> m # n /\ m \in Upset(a)
       /\ \A m \in Upset(b) : m \in Networks
  BY DEF NetState, Upset
<1> HIDE DEF s, r, b, new, left
<1> DEFINE from(i) == IF i = k THEN Len(s) ELSE i
<1>13. \A i \in DOMAIN r : /\ from(i) \in DOMAIN s /\ from(i) # k /\ r[i] = s[from(i)]
  BY <1>1, <1>10
<1>14. \A i, j \in DOMAIN r : from(i) = from(j) => i = j BY <1>1, <1>10
<1>15. \A j \in DOMAIN s : j # k => \E i \in DOMAIN r : r[i] = s[j]
  <2> SUFFICES ASSUME NEW j \in DOMAIN s, j # k
               PROVE  \E i \in DOMAIN r : r[i] = s[j]
    OBVIOUS
  <2>1. CASE j = Len(s)
    <3>1. k \in DOMAIN r BY <1>1, <1>10, <2>1
    <3> QED BY <1>13, <2>1, <3>1
  <2>2. CASE j # Len(s)
    <3>1. j \in DOMAIN r BY <1>1, <1>10, <2>2
    <3> QED BY <1>13, <3>1
  <2> QED BY <2>1, <2>2
<1> HIDE DEF from
<1>16. \A i, j \in DOMAIN r : r[i].handle = r[j].handle => i = j BY <1>3, <1>13, <1>14
<1>17. \A i \in DOMAIN r : b[r[i].handle] = r[i].type BY <1>1, <1>3, <1>6, <1>12, <1>13
<1>18. \A m \in Upset(b) : \E i \in DOMAIN r : r[i] = Entry(m, b[m])
  <2> SUFFICES ASSUME NEW m \in Upset(b)
               PROVE  \E i \in DOMAIN r : r[i] = Entry(m, b[m])
    OBVIOUS
  <2>1. m \in Upset(a) /\ b[m] = a[m] /\ m # n BY <1>12
  <2>2. PICK j \in DOMAIN s : s[j] = Entry(m, a[m]) BY <1>3, <2>1
  <2>3. j # k BY <1>6, <2>1, <2>2, EntryFields
  <2> QED BY <1>15, <2>1, <2>2, <2>3
<1>19. \A u \in new.mAllTypes : \E m \in Networks : b[m] = u
  <2> SUFFICES ASSUME NEW u \in new.mAllTypes
               PROVE  \E m \in Networks : b[m] = u
    OBVIOUS
  <2>1. CASE others = {}
    <3>1. u \in cur.mAllTypes /\ u # t BY <1>9, <2>1
    <3>2. PICK m \in Networks : a[m] = u BY <1>3, <3>1
    <3> QED BY <1>12, <3>1, <3>2
  <2>2. CASE others # {}
    <3>1. PICK j \in DOMAIN s : s[j].type = t /\ s[j].handle # n BY <2>2
    <3>2. s[j].handle \in Networks /\ a[s[j].handle] = t BY <1>1, <1>3, <3>1
    <3>3. u = t BY <1>9, <2>2
    <3> QED BY <1>12, <3>1, <3>2, <3>3
  <2> QED BY <2>1, <2>2
<1>20. ~twins => \A m \in Upset(b) : /\ b[m] \in new.mAllTypes
                                     /\ \A j \in Networks : b[j] = b[m] => j = m
  <2> SUFFICES ASSUME ~twins, NEW m \in Upset(b)
               PROVE  b[m] \in new.mAllTypes /\ \A j \in Networks : b[j] = b[m] => j = m
    OBVIOUS
  <2>1. m \in Upset(a) /\ b[m] = a[m] /\ m # n /\ m \in Networks /\ b[m] # None
    BY <1>12 DEF Upset
  <2>2. a[m] \in cur.mAllTypes /\ \A j \in Networks : a[j] = a[m] => j = m BY <1>3, <2>1
  <2>3. \A j \in Networks : a[j] = t => j = n BY <1>3, <1>4
  <2>4. others = {}
    <3> SUFFICES ASSUME NEW j \in DOMAIN s, s[j].type = t, s[j].handle # n
                 PROVE  FALSE
      OBVIOUS
    <3>1. s[j].handle \in Networks /\ a[s[j].handle] = t BY <1>1, <1>3
    <3> QED BY <2>3, <3>1
  <2>5. a[m] # t BY <2>1, <2>3
  <2>6. b[m] \in new.mAllTypes BY <1>9, <2>1, <2>2, <2>4, <2>5
  <2>7. \A j \in Networks : b[j] = b[m] => j = m BY <1>12, <2>1, <2>2
  <2> QED BY <2>6, <2>7
<1>21. TableFits(new, twins, b) BY <1>9, <1>11, <1>16, <1>17, <1>18, <1>19, <1>20 DEF TableFits
<1> QED BY <1>9, <1>10, <1>21 DEF b, new, s

LEMMA FirstTable ==
    ASSUME NEW twins \in BOOLEAN, NEW a \in NetState, Upset(a) = {},
           NEW n \in Networks, NEW t \in NetworkTypes
    PROVE  TableFits(Report(TRUE, n, t), twins, [a EXCEPT ![n] = t])
<1> DEFINE v == Report(TRUE, n, t)
           b == [a EXCEPT ![n] = t]
<1>1. v # None BY NetworkReportFits, ObserverAssumption
<1>2. v.handles = <<Entry(n, t)>> /\ v.mAllTypes = {t} BY DEF Report
<1>3. DOMAIN v.handles = {1} /\ v.handles[1] = Entry(n, t)
  <2> DEFINE e == Entry(n, t)
  <2> HIDE DEF e, v
  <2>1. v.handles = <<e>> BY <1>2 DEF e
  <2>2. DOMAIN v.handles = {1} /\ v.handles[1] = e BY <2>1
  <2> QED BY <2>2 DEF e
<1>4. \A m \in Networks : b[m] = IF m = n THEN t ELSE None BY DEF NetState, Upset
<1>5. None \notin NetworkTypes BY ObserverAssumption
<1> HIDE DEF v, b
<1>6. Upset(b) = {n} BY <1>4, <1>5 DEF Upset
<1>7. TableFits(v, twins, b) BY <1>1, <1>2, <1>3, <1>4, <1>5, <1>6, EntryFields DEF TableFits
<1> QED BY <1>7 DEF v, b

-----------------------------------------------------------------------------
(* The networks as the reports that wait will have them: h[k] after k        *)
(* messages                                                                  *)

Reported(msg, twins, a, b) ==
    IF ~Carries(msg, "notify", Network) THEN b = a
    ELSE \E n \in Networks, t \in NetworkTypes :
        \/ /\ msg.values[Network] = Report(TRUE, n, t)
           /\ a[n] = None /\ b = [a EXCEPT ![n] = t]
           /\ ~twins => \A m \in Networks : a[m] # t
        \/ /\ msg.values[Network] = Report(FALSE, n, t)
           /\ a[n] = t /\ b = [a EXCEPT ![n] = None]

Replays(q, twins, h, last) ==
    /\ h[Len(q)] = last
    /\ \A k \in DOMAIN q : Reported(q[k], twins, h[k - 1], h[k])

TableInv ==
    ~Exposed({"meters"}) =>
        \E h \in [Nat -> NetState] :
            /\ Replays(queue, Exposed({"twins"}), h, up)
            /\ TableFits(mDataItemCache[Network], Exposed({"twins"}), h[0])

LEMMA PostReplays ==
    ASSUME NEW q, IsSeq(q), NEW twins, NEW h \in [Nat -> NetState], NEW last, Replays(q, twins, h, last),
           NEW msg, NEW b \in NetState, Reported(msg, twins, last, b)
    PROVE  \E g \in [Nat -> NetState] : Replays(Append(q, msg), twins, g, b) /\ g[0] = h[0]
<1> DEFINE r == Append(q, msg)
           g == [k \in Nat |-> IF k <= Len(q) THEN h[k] ELSE b]
<1>1. /\ IsSeq(r)
      /\ Len(q) \in Nat /\ DOMAIN q = 1..Len(q)
      /\ DOMAIN r = 1..(Len(q) + 1)
      /\ \A k \in DOMAIN q : r[k] = q[k]
      /\ r[Len(q) + 1] = msg
  BY Appended
<1>2. Len(r) = Len(q) + 1 BY <1>1, SeqOfItsElements DEF IsSeq
<1>3. g \in [Nat -> NetState] /\ g[0] = h[0] BY <1>1
<1>4. \A k \in Nat : g[k] = IF k <= Len(q) THEN h[k] ELSE b  OBVIOUS
<1> HIDE DEF r, g
<1>5. \A k \in DOMAIN r : Reported(r[k], twins, g[k - 1], g[k])
  <2> SUFFICES ASSUME NEW k \in DOMAIN r
               PROVE  Reported(r[k], twins, g[k - 1], g[k])
    OBVIOUS
  <2>1. CASE k = Len(q) + 1
    <3>1. g[k - 1] = last /\ g[k] = b BY <1>1, <1>4, <2>1 DEF Replays
    <3> QED BY <1>1, <2>1, <3>1
  <2>2. CASE k # Len(q) + 1
    <3>1. k \in DOMAIN q /\ g[k - 1] = h[k - 1] /\ g[k] = h[k] BY <1>1, <1>4, <2>2
    <3> QED BY <1>1, <3>1 DEF Replays
  <2> QED BY <2>1, <2>2
<1>6. Replays(r, twins, g, b) BY <1>1, <1>2, <1>4, <1>5 DEF Replays
<1> QED BY <1>3, <1>6 DEF r

LEMMA TakeReplays ==
    ASSUME NEW q, IsSeq(q), q # <<>>, NEW twins, NEW h \in [Nat -> NetState], NEW last,
           Replays(q, twins, h, last)
    PROVE  \E g \in [Nat -> NetState] :
               Replays(Tail(q), twins, g, last) /\ Reported(Head(q), twins, h[0], g[0])
<1> DEFINE r == Tail(q)
           g == [k \in Nat |-> h[k + 1]]
<1>1. /\ IsSeq(r)
      /\ Len(q) \in Nat \ {0} /\ DOMAIN q = 1..Len(q)
      /\ DOMAIN r = 1..(Len(q) - 1)
      /\ \A k \in DOMAIN r : r[k] = q[k + 1]
      /\ Head(q) = q[1]
  BY Taken
<1>2. Len(r) = Len(q) - 1 BY <1>1, SeqOfItsElements DEF IsSeq
<1>3. g \in [Nat -> NetState] /\ \A k \in Nat : g[k] = h[k + 1]  OBVIOUS
<1> HIDE DEF r, g
<1>4. Reported(Head(q), twins, h[0], g[0])
  <2>1. 1 \in DOMAIN q /\ g[0] = h[1] BY <1>1, <1>3
  <2>2. Reported(q[1], twins, h[1 - 1], h[1]) BY <2>1 DEF Replays
  <2> QED BY <1>1, <2>1, <2>2
<1>5. \A k \in DOMAIN r : Reported(r[k], twins, g[k - 1], g[k])
  <2> SUFFICES ASSUME NEW k \in DOMAIN r
               PROVE  Reported(r[k], twins, g[k - 1], g[k])
    OBVIOUS
  <2>1. k + 1 \in DOMAIN q /\ k - 1 \in Nat /\ k \in Nat /\ (k + 1) - 1 = k /\ (k - 1) + 1 = k
    BY <1>1
  <2>2. Reported(q[k + 1], twins, h[(k + 1) - 1], h[k + 1]) BY <2>1 DEF Replays
  <2>3. g[k - 1] = h[k] /\ g[k] = h[k + 1] /\ r[k] = q[k + 1] BY <1>1, <1>3, <2>1
  <2> QED BY <2>1, <2>2, <2>3
<1>6. g[Len(r)] = last BY <1>1, <1>2, <1>3 DEF Replays
<1>7. Replays(r, twins, g, last) BY <1>5, <1>6 DEF Replays
<1> QED BY <1>3, <1>4, <1>7 DEF r

LEMMA PostedTable ==
    ASSUME ObserverInv, TableInv, NEW msg, queue' = Append(queue, msg), up' \in NetState,
           ~Exposed({"meters"}) => Reported(msg, Exposed({"twins"}), up, up'),
           UNCHANGED <<world, mDataItemCache>>
    PROVE  TableInv'
<1>1. IsSeq(queue) BY DEF ObserverInv, QueueInv, Fine
<1> SUFFICES ASSUME ~Exposed({"meters"})
             PROVE  \E g \in [Nat -> NetState] :
                        /\ Replays(queue', Exposed({"twins"}), g, up')
                        /\ TableFits(mDataItemCache[Network], Exposed({"twins"}), g[0])
  BY DEF TableInv, Exposed
<1>2. PICK h \in [Nat -> NetState] :
         /\ Replays(queue, Exposed({"twins"}), h, up)
         /\ TableFits(mDataItemCache[Network], Exposed({"twins"}), h[0])
  BY DEF TableInv
<1>3. PICK g \in [Nat -> NetState] :
         Replays(Append(queue, msg), Exposed({"twins"}), g, up') /\ g[0] = h[0]
  BY <1>1, <1>2, PostReplays
<1> QED BY <1>2, <1>3

(* The message that is taken is applied to the table, another one may be     *)
(* posted.                                                                   *)
LEMMA TakenTable ==
    ASSUME ObserverInv, TableInv, queue # <<>>,
           \/ queue' = Tail(queue)
           \/ \E S, cache : queue' = Append(Tail(queue), Data("xtra", S, cache)),
           UNCHANGED <<world, up>>, up \in NetState,
           \A a \in NetState, b \in NetState :
               /\ Reported(Head(queue), Exposed({"twins"}), a, b)
               /\ TableFits(mDataItemCache[Network], Exposed({"twins"}), a)
               => TableFits(mDataItemCache'[Network], Exposed({"twins"}), b)
    PROVE  TableInv'
<1>1. IsSeq(queue) BY DEF ObserverInv, QueueInv, Fine
<1> DEFINE tw == Exposed({"twins"})
<1> SUFFICES ASSUME ~Exposed({"meters"})
             PROVE  \E g \in [Nat -> NetState] :
                        /\ Replays(queue', tw, g, up)
                        /\ TableFits(mDataItemCache'[Network], tw, g[0])
  BY DEF TableInv, Exposed
<1>2. PICK h \in [Nat -> NetState] :
         /\ Replays(queue, tw, h, up)
         /\ TableFits(mDataItemCache[Network], tw, h[0])
  BY DEF TableInv
<1>3. PICK f \in [Nat -> NetState] :
         Replays(Tail(queue), tw, f, up) /\ Reported(Head(queue), tw, h[0], f[0])
  BY <1>1, <1>2, TakeReplays
<1>4. h[0] \in NetState /\ f[0] \in NetState  OBVIOUS
<1>5. TableFits(mDataItemCache'[Network], tw, f[0]) BY <1>2, <1>3, <1>4
<1> HIDE DEF tw
<1>6. CASE queue' = Tail(queue) BY <1>3, <1>5, <1>6
<1>7. CASE \E S, cache : queue' = Append(Tail(queue), Data("xtra", S, cache))
  <2>1. PICK S, cache : queue' = Append(Tail(queue), Data("xtra", S, cache)) BY <1>7
  <2>2. Reported(Data("xtra", S, cache), tw, up, up) BY DEF Reported, Carries, Data
  <2>3. IsSeq(Tail(queue)) BY <1>1, Taken
  <2>4. PICK g \in [Nat -> NetState] : Replays(queue', tw, g, up) /\ g[0] = f[0]
    BY <1>3, <2>1, <2>2, <2>3, PostReplays
  <2> QED BY <1>5, <2>4
<1> QED BY <1>6, <1>7

LEMMA IdleTable ==
    ASSUME TableInv, UNCHANGED <<world, queue, up, mDataItemCache>>
    PROVE  TableInv'
BY DEF TableInv, Exposed

(* A message that reports no network changes no table.                       *)
LEMMA OtherTable ==
    ASSUME ObserverInv, TableInv, queue # <<>>, Head(queue).type # "notify",
           \/ queue' = Tail(queue)
           \/ \E S, cache : queue' = Append(Tail(queue), Data("xtra", S, cache)),
           UNCHANGED <<world, up, mDataItemCache>>, up \in NetState
    PROVE  TableInv'
<1>1. ~Carries(Head(queue), "notify", Network) BY DEF Carries
<1>2. \A a \in NetState, b \in NetState :
          Reported(Head(queue), Exposed({"twins"}), a, b) => b = a
  BY <1>1 DEF Reported
<1> QED BY <1>2, TakenTable

(* The table that is served                                                  *)
LEMMA TableServes ==
    ASSUME TellInv, TableInv, UpFits
    PROVE  ConnectionsKnown
<1> SUFFICES ASSUME Settled, ~Exposed({"meters"})
             PROVE  /\ Len(Table) = Cardinality({n \in Networks : up[n] # None})
                    /\ ToSet(Table) = {Entry(n, up[n]) : n \in {m \in Networks : up[m] # None}}
                    /\ Mask \subseteq TypesOf(Table)
                    /\ ~Exposed({"twins"}) => TypesOf(Table) \subseteq Mask
  BY DEF ConnectionsKnown
<1> DEFINE v == mDataItemCache[Network]
           tw == Exposed({"twins"})
<1>1. up \in NetState /\ None \notin NetworkTypes BY ObserverAssumption DEF UpFits, NetState
<1>2. TableFits(v, tw, up)
  <2>1. Len(queue) = 0 BY DEF Settled
  <2>2. PICK h \in [Nat -> NetState] : Replays(queue, tw, h, up) /\ TableFits(v, tw, h[0])
    BY DEF TableInv
  <2> QED BY <2>1, <2>2 DEF Replays
<1>3. v \in NetworkItem \/ v = None BY DEF TellInv, DataFit, Items, Value
<1> HIDE DEF tw
<1>4. CASE v = None
  <2>1. Table = <<>> /\ Mask = {} BY <1>4 DEF Table, Mask
  <2>2. {n \in Networks : up[n] # None} = {} BY <1>2, <1>4 DEF TableFits, Upset
  <2>3. Len(Table) = 0 /\ ToSet(Table) = {} /\ TypesOf(Table) = {} BY <2>1 DEF ToSet, TypesOf
  <2> QED BY <2>1, <2>2, <2>3, FS_EmptySet
<1>5. CASE v # None
  <2>1. v \in NetworkItem /\ Table = v.handles /\ Mask = v.mAllTypes
    BY <1>3, <1>5 DEF Table, Mask
  <2>2. \A i \in DOMAIN Table : /\ Table[i].handle \in Networks /\ Table[i].type \in NetworkTypes
                                /\ Table[i] = Entry(Table[i].handle, Table[i].type)
    BY <2>1, HandlesFacts
  <2>3. Len(Table) = Cardinality(Upset(up)) BY <1>1, <1>2, <2>1, TableCounts
  <2>4. /\ \A i \in DOMAIN Table : up[Table[i].handle] = Table[i].type
        /\ \A n \in Upset(up) : \E i \in DOMAIN Table : Table[i] = Entry(n, up[n])
        /\ \A t \in Mask : \E n \in Networks : up[n] = t
        /\ ~tw => \A n \in Upset(up) : up[n] \in Mask
    BY <1>2, <1>5, <2>1 DEF TableFits
  <2>5. Mask \subseteq NetworkTypes BY <2>1, HandlesFacts
  <2> HIDE DEF v
  <2>6. ToSet(Table) = {Entry(n, up[n]) : n \in Upset(up)}
    <3>1. \A i \in DOMAIN Table : Table[i].handle \in Upset(up) BY <1>1, <2>2, <2>4 DEF Upset
    <3>2. \A i \in DOMAIN Table : Table[i] = Entry(Table[i].handle, up[Table[i].handle])
      BY <2>2, <2>4
    <3> QED BY <2>4, <3>1, <3>2 DEF ToSet
  <2>7. Mask \subseteq TypesOf(Table)
    <3> SUFFICES ASSUME NEW t \in Mask
                 PROVE  \E i \in DOMAIN Table : Table[i].type = t
      BY DEF TypesOf
    <3>1. PICK n \in Networks : up[n] = t BY <2>4
    <3>2. n \in Upset(up) BY <1>1, <2>5, <3>1 DEF Upset
    <3> QED BY <2>4, <3>1, <3>2, EntryFields
  <2>8. ~tw => TypesOf(Table) \subseteq Mask
    <3> SUFFICES ASSUME ~tw, NEW i \in DOMAIN Table
                 PROVE  Table[i].type \in Mask
      BY DEF TypesOf
    <3>1. Table[i].handle \in Upset(up) /\ up[Table[i].handle] = Table[i].type
      BY <1>1, <2>2, <2>4 DEF Upset
    <3> QED BY <2>4, <3>1
  <2> QED BY <2>3, <2>6, <2>7, <2>8 DEF Upset, tw
<1> QED BY <1>4, <1>5

NetInv == UpFits /\ TableInv

LEMMA NotifyTable ==
    ASSUME ObserverInv, TellInv, NetInv, HandleNotify
    PROVE  TableInv'
<1> DEFINE S == Head(queue).items
           values == Head(queue).values
           changed == {i \in S : Updated(i, values[i])}
           cache == [i \in Items |-> IF i \in changed THEN Recorded(i, values[i])
                                     ELSE mDataItemCache[i]]
           cur == mDataItemCache[Network]
           tw == Exposed({"twins"})
<1>1. /\ queue # <<>> /\ Head(queue).type = "notify"
      /\ mDataItemCache' = cache
      /\ \E wanted : Deliver(cache, wanted)
      /\ UNCHANGED <<world, up>>
  BY DEF HandleNotify, Taking, state
<1>2. queue' = Tail(queue) \/ \E T, c : queue' = Append(Tail(queue), Data("xtra", T, c))
  BY <1>1 DEF Deliver
<1>3. up \in NetState /\ Network \in Items BY DEF NetInv, UpFits, NetState, Items
<1>4. cur \in NetworkItem \/ cur = None BY <1>3 DEF TellInv, DataFit, Value
<1>5. mDataItemCache'[Network] = IF Network \in S /\ Updated(Network, values[Network])
                                 THEN Recorded(Network, values[Network]) ELSE cur
  BY <1>1, <1>3
<1>6. ASSUME NEW a \in NetState, NEW b \in NetState,
             Reported(Head(queue), tw, a, b), TableFits(cur, tw, a)
      PROVE  TableFits(mDataItemCache'[Network], tw, b)
  <2>1. Carries(Head(queue), "notify", Network) <=> Network \in S BY <1>1 DEF Carries
  <2> DEFINE v == values[Network]
  <2>2. tw \in BOOLEAN BY DEF Exposed
  <2> HIDE DEF S, cur, tw
  <2>3. CASE Network \notin S BY <1>5, <1>6, <2>1, <2>3 DEF Reported
  <2>4. CASE Network \in S
    <3>1. PICK n \in Networks, t \in NetworkTypes :
             \/ /\ v = Report(TRUE, n, t)
                /\ a[n] = None /\ b = [a EXCEPT ![n] = t]
                /\ ~tw => \A m \in Networks : a[m] # t
             \/ /\ v = Report(FALSE, n, t)
                /\ a[n] = t /\ b = [a EXCEPT ![n] = None]
      BY <1>6, <2>1, <2>4 DEF Reported
    <3>2. Report(TRUE, n, t).mConnected = TRUE /\ Report(FALSE, n, t).mConnected = FALSE
      BY DEF Report
    <3> HIDE DEF v, values
    <3>3. mDataItemCache'[Network] = IF Updated(Network, v) THEN Recorded(Network, v) ELSE cur
      BY <1>5, <2>4 DEF v
    <3>4. CASE cur = None
      <4>1. Upset(a) = {} BY <1>6, <3>4 DEF TableFits
      <4>2. a[n] # t BY <4>1, ObserverAssumption DEF Upset
      <4>3. v = Report(TRUE, n, t) /\ b = [a EXCEPT ![n] = t] BY <3>1, <4>2
      <4>4. Updated(Network, v) /\ Recorded(Network, v) = v BY <3>4 DEF Updated, Recorded, cur
      <4>5. mDataItemCache'[Network] = Report(TRUE, n, t) BY <3>3, <4>3, <4>4
      <4>6. TableFits(Report(TRUE, n, t), tw, [a EXCEPT ![n] = t]) BY <2>2, <4>1, FirstTable
      <4> QED BY <4>3, <4>5, <4>6
    <3>5. CASE cur # None
      <4>1. cur \in NetworkItem BY <1>4, <3>5
      <4>2. Recorded(Network, v) = collate(v, cur) BY <3>5 DEF Recorded, cur
      <4>3. CASE v = Report(TRUE, n, t) /\ a[n] = None /\ b = [a EXCEPT ![n] = t]
                 /\ (~tw => \A m \in Networks : a[m] # t)
        <5>1. Recorded(Network, v) = Enter(v, cur) BY <3>2, <4>2, <4>3 DEF collate
        <5>2. TableFits(Enter(v, cur), tw, b) /\ Enter(v, cur).handles # cur.handles
          BY <1>6, <2>2, <4>1, <4>3, EnterTable
        <5>3. Updated(Network, v) BY <5>1, <5>2 DEF Updated, equals, cur
        <5> QED BY <3>3, <5>1, <5>2, <5>3
      <4>4. CASE v = Report(FALSE, n, t) /\ a[n] = t /\ b = [a EXCEPT ![n] = None]
        <5>1. Recorded(Network, v) = Leave(v, cur) BY <3>2, <4>2, <4>4 DEF collate
        <5>2. TableFits(Leave(v, cur), tw, b) /\ Leave(v, cur).handles # cur.handles
          BY <1>6, <2>2, <4>1, <4>4, LeaveTable
        <5>3. Updated(Network, v) BY <5>1, <5>2 DEF Updated, equals, cur
        <5> QED BY <3>3, <5>1, <5>2, <5>3
      <4> QED BY <3>1, <4>3, <4>4
    <3> QED BY <3>4, <3>5
  <2> QED BY <2>3, <2>4
<1> HIDE DEF cache
<1>7. TableInv BY DEF NetInv
<1> QED BY <1>1, <1>2, <1>3, <1>6, <1>7, TakenTable

LEMMA AnsweredTable ==
    ASSUME ObserverInv, NetInv, NEW type \in ClientCalls,
           \/ type \in {"subscribe", "requestData"} /\ HandleSubscribeReq(type)
           \/ type = "updateSubscription" /\ HandleUpdateSubscriptionReq
           \/ type \in {"unsubscribe", "unsubscribeAll"} /\ HandleUnsubscribeReq(type)
    PROVE  TableInv'
<1>1. /\ Taking(type) /\ UNCHANGED <<world, up, mDataItemCache>>
      /\ queue' = Tail(queue) \/ \E cache, wanted : Deliver(cache, wanted)
  BY DEF HandleSubscribeReq, HandleUpdateSubscriptionReq, HandleUnsubscribeReq, state
<1>2. queue' = Tail(queue) \/ \E S, cache : queue' = Append(Tail(queue), Data("xtra", S, cache))
  BY <1>1 DEF Deliver
<1>3. queue # <<>> /\ Head(queue).type # "notify" BY <1>1 DEF Taking, ClientCalls
<1>4. TableInv /\ up \in NetState BY DEF NetInv, UpFits, NetState
<1> QED BY <1>1, <1>2, <1>3, <1>4, OtherTable

LEMMA NetworkTable ==
    ASSUME ObserverInv, NetInv, NEW n \in Networks, NEW t \in NetworkTypes, NEW u \in BOOLEAN,
           NetworkReported(u, n, t), up' \in NetState, world' = world,
           \/ "meters" \in world
           \/ /\ u = TRUE /\ up[n] = None /\ up' = [up EXCEPT ![n] = t]
              /\ ~Exposed({"twins"}) => \A m \in Networks : up[m] # t
           \/ /\ u = FALSE /\ up[n] = t /\ up' = [up EXCEPT ![n] = None]
    PROVE  TableInv'
<1> DEFINE msg == Data("notify", {Network}, [Nothing EXCEPT ![Network] = Report(u, n, t)])
<1>1. queue' = Append(queue, msg) /\ UNCHANGED <<world, mDataItemCache>>
  BY DEF NetworkReported, Post
<1>2. msg.values[Network] = Report(u, n, t) BY DEF Data, Nothing, Items
<1> HIDE DEF msg
<1>3. ~Exposed({"meters"}) => Reported(msg, Exposed({"twins"}), up, up')
  <2> SUFFICES ASSUME ~Exposed({"meters"}), Carries(msg, "notify", Network)
               PROVE  Reported(msg, Exposed({"twins"}), up, up')
    <3>1. Carries(msg, "notify", Network) BY DEF Carries, Data, msg
    <3> QED BY <3>1
  <2>1. "meters" \notin world BY DEF Exposed
  <2> QED BY <1>2, <2>1 DEF Reported
<1> QED BY <1>1, <1>3, PostedTable DEF NetInv

LEMMA QuietTable ==
    ASSUME ObserverInv, NetInv, NEW msg, queue' = Append(queue, msg),
           ~Carries(msg, "notify", Network), UNCHANGED <<world, mDataItemCache, up>>
    PROVE  TableInv'
<1>1. Reported(msg, Exposed({"twins"}), up, up') /\ up' \in NetState
  BY DEF Reported, NetInv, UpFits, NetState
<1> QED BY <1>1, PostedTable DEF NetInv

LEMMA NextTable == ObserverInv /\ TellInv /\ NetInv /\ [ObserverNext]_observerVars => NetInv'
<1> SUFFICES ASSUME ObserverInv, TellInv, NetInv, [ObserverNext]_observerVars
             PROVE  TableInv'
  BY UpStays DEF NetInv
<1>0. UpFits /\ UpFits' /\ up' \in NetState BY UpStays DEF NetInv, UpFits, NetState
<1>1. CASE UNCHANGED observerVars BY <1>1, IdleTable DEF observerVars, state, NetInv
<1>2. ASSUME NEW c, NEW S, NEW type \in ClientCalls, Calls(type, c, S)
      PROVE  TableInv'
  <2>1. ~Carries(Call(type, c, S), "notify", Network) BY DEF Carries, Call, ClientCalls
  <2> QED BY <1>2, <2>1, QuietTable DEF Calls, Post, state
<1>3. CASE SetSubscriptionObj
  <2>1. ~Carries(Data("setSubscriptionObj", {}, Nothing), "notify", Network)
    BY DEF Carries, Data
  <2> QED BY <1>3, <2>1, QuietTable DEF SetSubscriptionObj, Post, state
<1>4. ASSUME NEW n \in Networks, NEW t \in NetworkTypes, Connects(n, t)
      PROVE  TableInv'
  <2>1. /\ NetworkReported(TRUE, n, t) /\ up[n] = None /\ up' = [up EXCEPT ![n] = t]
        /\ ~Exposed({"twins"}) => \A m \in Networks : up[m] # t
        /\ world' = world
    BY <1>4 DEF Connects, NetworkReported, Exposed
  <2> QED BY <1>0, <2>1, NetworkTable
<1>5. ASSUME NEW n \in Networks, NEW t \in NetworkTypes, Turns(n, t)
      PROVE  TableInv'
  <2>1. NetworkReported(TRUE, n, t) /\ "meters" \in world /\ world' = world
    BY <1>5 DEF Turns, NetworkReported
  <2> QED BY <1>0, <2>1, NetworkTable
<1>6. ASSUME NEW n \in Networks, Disconnects(n)
      PROVE  TableInv'
  <2>1. /\ NetworkReported(FALSE, n, up[n]) /\ up[n] \in NetworkTypes /\ up' = [up EXCEPT ![n] = None]
        /\ world' = world
    BY <1>0, <1>6 DEF Disconnects, NetworkReported, UpFits
  <2> QED BY <1>0, <2>1, NetworkTable
<1>7. CASE (\E i \in Plain : Changes(i)) \/ DaemonRestarts
  BY <1>7, IdleTable DEF Changes, DaemonRestarts, state, NetInv
<1>8. CASE FrameworkReports
  <2> DEFINE msg == Data("notify", due, [i \in Items |-> IF i \in due THEN value[i] ELSE None])
  <2>1. ~Carries(msg, "notify", Network)
    BY ObserverAssumption DEF Carries, Data, TellInv, DataFit
  <2>2. queue' = Append(queue, msg) /\ UNCHANGED <<world, mDataItemCache, up>>
    BY <1>8 DEF FrameworkReports, Post, state
  <2> HIDE DEF msg
  <2> QED BY <2>1, <2>2, QuietTable
<1>9. CASE DaemonAsks
  <2>1. ~Carries(Data("requestStatus", {}, Nothing), "notify", Network) BY DEF Carries, Data
  <2> QED BY <1>9, <2>1, QuietTable DEF DaemonAsks, Post, state
<1>10. CASE SetSubsObj \/ HandleOsObserverUpdate \/ onStatusRequested
  <2>1. /\ queue # <<>> /\ Head(queue).type # "notify" /\ queue' = Tail(queue)
        /\ UNCHANGED <<world, up, mDataItemCache>>
    BY <1>10 DEF SetSubsObj, HandleOsObserverUpdate, onStatusRequested, Taking, state
  <2> QED BY <1>0, <2>1, OtherTable DEF NetInv
<1>11. CASE \/ HandleSubscribeReq("subscribe") \/ HandleSubscribeReq("requestData")
            \/ HandleUpdateSubscriptionReq
            \/ HandleUnsubscribeReq("unsubscribe") \/ HandleUnsubscribeReq("unsubscribeAll")
  BY <1>11, AnsweredTable DEF ClientCalls
<1> QED BY <1>1, <1>2, <1>3, <1>4, <1>5, <1>6, <1>7, <1>8, <1>9, <1>10, <1>11, NotifyTable
     DEF ObserverNext, Subscribe, RequestData, UpdateSubscription, Unsubscribe, UnsubscribeAll, ClientCalls

LEMMA InitTable == ObserverInit => NetInv
<1> SUFFICES ASSUME ObserverInit
             PROVE  NetInv
  OBVIOUS
<1> DEFINE first == Call("subscribe", Xtra, {Network})
           second == Call("requestData", Xtra, {Tac})
           h == [k \in Nat |-> up]
<1>1. UpFits /\ up \in NetState /\ Upset(up) = {} BY DEF ObserverInit, UpFits, NetState, Upset
<1>2. queue = <<first, second>> BY DEF ObserverInit
<1>3. first.type # "notify" /\ second.type # "notify" BY DEF Call
<1> HIDE DEF first, second
<1>4. DOMAIN queue = {1, 2} /\ Len(queue) = 2 /\ queue[1] = first /\ queue[2] = second BY <1>2
<1>5. \A k \in DOMAIN queue : ~Carries(queue[k], "notify", Network) BY <1>3, <1>4 DEF Carries
<1>6. h \in [Nat -> NetState] /\ h[0] = up /\ h[1] = up /\ h[2] = up BY <1>1
<1> HIDE DEF h
<1>7. Replays(queue, Exposed({"twins"}), h, up)
  <2>1. \A k \in DOMAIN queue : h[k - 1] = up /\ h[k] = up BY <1>4, <1>6
  <2> QED BY <1>4, <1>5, <1>6, <2>1 DEF Replays, Reported
<1>8. TableFits(mDataItemCache[Network], Exposed({"twins"}), h[0])
  BY <1>1, <1>6 DEF ObserverInit, Nothing, TableFits, Items
<1> QED BY <1>1, <1>6, <1>7, <1>8 DEF NetInv, TableInv

(* Once all is quiet the table of SystemStatus holds the networks that are   *)
(* up, each once and with its type, for any networks and types and any order *)
(* of their comings and goings (SystemStatusNetworkInfo::collate).           *)
THEOREM ConnectionsAreKnown == ObserverSpec => []ConnectionsKnown
<1>1. TellInv /\ NetInv => ConnectionsKnown BY TableServes DEF NetInv
<1>2. NetInv => UpFits BY DEF NetInv
<1> QED
  BY <1>1, <1>2, InitKeeps, NextKeeps, InitTells, NextTells, InitTable, NextTable, PTL DEF ObserverSpec
=============================================================================
