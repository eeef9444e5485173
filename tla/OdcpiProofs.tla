---------------------------- MODULE OdcpiProofs ----------------------------
(* Requests are renewed, and the adapter follows the modem, for every number *)
(* of requests and events and every set of worlds.                           *)
EXTENDS Odcpi, SequenceTheorems, TLAPS

-----------------------------------------------------------------------------
(* The queue: what is sent is behind what waits, what is taken was first.    *)

LEMMA Sent ==
    ASSUME queue \in Seq(Messages), NEW msg \in Messages, Send(msg)
    PROVE  /\ queue' \in Seq(Messages) /\ queue' # <<>>
           /\ Len(queue) \in Nat /\ DOMAIN queue = 1..Len(queue)
           /\ DOMAIN queue' = 1..(Len(queue) + 1)
           /\ \A i \in DOMAIN queue : queue'[i] = queue[i]
           /\ queue'[Len(queue) + 1] = msg
BY DEF Send

LEMMA Taken ==
    ASSUME queue \in Seq(Messages), NEW type, Take(type)
    PROVE  /\ queue' \in Seq(Messages)
           /\ Len(queue) \in Nat \ {0} /\ DOMAIN queue = 1..Len(queue)
           /\ DOMAIN queue' = 1..(Len(queue) - 1)
           /\ queue[1] = Head(queue) /\ queue[1] \in Messages /\ queue[1].type = type
           /\ \A i \in DOMAIN queue' : queue'[i] = queue[i + 1]
<1>1. queue # <<>> /\ queue' = Tail(queue) /\ Head(queue).type = type BY DEF Take
<1>2. Len(queue) \in Nat \ {0} /\ DOMAIN queue = 1..Len(queue) BY <1>1, EmptySeq, LenProperties
<1>3. queue[1] = Head(queue) BY <1>1
<1>4. /\ Head(queue) \in Messages /\ Tail(queue) \in Seq(Messages)
      /\ Len(Tail(queue)) = Len(queue) - 1
      /\ \A i \in 1..Len(Tail(queue)) : Tail(queue)[i] = queue[i + 1]
  BY <1>1, HeadTailProperties
<1> HIDE DEF Messages
<1>5. DOMAIN Tail(queue) = 1..Len(Tail(queue)) BY <1>4, LenProperties
<1> QED BY <1>1, <1>2, <1>3, <1>4, <1>5

(* What may be sent, and what a message of a type carries.                   *)
LEMMA MsgType ==
    /\ \A mode \in Modes : Msg("start", mode) \in Messages /\ Msg("stop", mode) \in Messages
    /\ Msg("engineUp", None) \in Messages /\ Msg("expire", None) \in Messages
    /\ \A state \in {"suspend", "resume"} : Msg("power", state) \in Messages
    /\ \A how \in {"odcpi", "onDemand", "spare"} : Msg("inject", how) \in Messages
    /\ \A mask \in Masks, h \in Handlers :
          /\ Registration("register", mask, h) \in Messages
          /\ Registration("deregister", mask, h) \in Messages
BY DEF Messages, Msg, Registration

LEMMA ArgType ==
    \A msg \in Messages :
        /\ msg.type = "start" => msg.arg \in Modes
        /\ msg.type = "power" => msg.arg \in {"suspend", "resume"}
        /\ msg.type \in {"register", "deregister"} => msg.handler \in Handlers
BY DEF Messages

-----------------------------------------------------------------------------
(* Types                                                                     *)

LEMMA InitType == Init => TypeOK
BY EmptySeq, OdcpiAssumption DEF Init, TypeOK, Alarm!Init, Modes, Handlers

LEMMA HandlersType ==
    ASSUME TypeOK, NEW mode \in Modes, fireOdcpiRequest(mode)
    PROVE  UNCHANGED <<odcpiReqCb, mNonEsOdcpiReqCbMap>> /\ asked' \in SUBSET Handlers
<1>1. Receivers(mode) \subseteq Handlers BY DEF TypeOK, Receivers
<1> QED BY <1>1 DEF TypeOK, fireOdcpiRequest

LEMMA NextType == ASSUME TypeOK, [Next]_vars PROVE TypeOK'
<1> USE DEF TypeOK
<1>1. ASSUME NEW mode \in Modes, ModemStarts(mode) PROVE TypeOK'
  <2>1. Send(Msg("start", mode)) /\ need' = mode /\ got' \in BOOLEAN
        /\ UNCHANGED <<adapter, alarm, handlers>>
    BY <1>1 DEF ModemStarts
  <2> QED BY <2>1, Sent, MsgType DEF adapter, alarm, handlers
<1>2. ASSUME ModemStops PROVE TypeOK'
  <2>1. need \in Modes /\ Send(Msg("stop", need)) /\ need' = None /\ got' = FALSE
        /\ UNCHANGED <<adapter, alarm, handlers>>
    BY <1>2 DEF ModemStops
  <2> QED BY <2>1, Sent, MsgType DEF adapter, alarm, handlers
<1>3. ASSUME ModemRestarts PROVE TypeOK'
  <2>1. Send(Msg("engineUp", None)) /\ need' = None /\ got' = FALSE
        /\ UNCHANGED <<adapter, alarm, handlers>>
    BY <1>3 DEF ModemRestarts
  <2> QED BY <2>1, Sent, MsgType DEF adapter, alarm, handlers
<1>4. ASSUME ModemAges \/ EngineLocks \/ FrameworkDies \/ FrameworkReturns
             \/ \E h \in Handlers : Fails(h)
      PROVE  TypeOK'
  BY <1>4 DEF ModemAges, EngineLocks, FrameworkDies, FrameworkReturns, Fails, modem, adapter,
    alarm, handlers
<1>5. ASSUME NEW state \in {"suspend", "resume"}, PowerChanges(state) PROVE TypeOK'
  <2>1. Send(Msg("power", state)) /\ UNCHANGED <<modem, adapter, alarm, handlers>>
    BY <1>5 DEF PowerChanges
  <2> QED BY <2>1, Sent, MsgType DEF modem, adapter, alarm, handlers
<1>6. ASSUME NEW h \in Handlers, NEW mask \in Masks, Registers(h, mask) PROVE TypeOK'
  <2>1. Send(Registration("register", mask, h)) /\ UNCHANGED <<modem, adapter, alarm, handlers>>
    BY <1>6 DEF Registers
  <2> QED BY <2>1, Sent, MsgType DEF modem, adapter, alarm, handlers
<1>7. ASSUME Deregisters PROVE TypeOK'
  <2>1. Send(Registration("deregister", "plain", Provider))
        /\ UNCHANGED <<modem, adapter, alarm, handlers>>
    BY <1>7 DEF Deregisters
  <2>2. "plain" \in Masks /\ Provider \in Handlers BY DEF Masks, Handlers
  <2> QED BY <2>1, <2>2, Sent, MsgType DEF modem, adapter, alarm, handlers
<1>8. ASSUME NEW h \in Handlers, NEW how \in {"odcpi", "onDemand", "spare"}, Answers(h, how)
      PROVE  TypeOK'
  <2>1. Send(Msg("inject", how)) /\ asked' \subseteq asked
        /\ UNCHANGED <<modem, adapter, alarm, odcpiReqCb, mNonEsOdcpiReqCbMap>>
    BY <1>8 DEF Answers
  <2> QED BY <2>1, Sent, MsgType DEF modem, adapter, alarm
<1>9. ASSUME TimerExpires PROVE TypeOK'
  BY <1>9 DEF TimerExpires, Alarm!Expire, modem, adapter, handlers
<1>10. ASSUME odcpiTimerExpireEvent PROVE TypeOK'
  <2>1. Send(Msg("expire", None)) /\ called' = None /\ UNCHANGED running
        /\ UNCHANGED <<modem, adapter, handlers>>
    BY <1>10 DEF odcpiTimerExpireEvent, Alarm!CallBack
  <2> QED BY <2>1, Sent, MsgType DEF modem, adapter, handlers
<1>11. ASSUME requestOdcpi PROVE TypeOK'
  <2>1. Take("start") /\ queue' \in Seq(Messages) /\ Head(queue).arg \in Modes
    BY <1>11, Taken, ArgType DEF requestOdcpi
  <2>2. mOdcpiStateMask' = {"active"} /\ mOdcpiRequest' = Head(queue).arg
        /\ UNCHANGED <<modem, power>>
    BY <1>11 DEF requestOdcpi
  <2>3. CASE PassedOn(Head(queue).arg)
    <3>1. /\ fireOdcpiRequest(Head(queue).arg) /\ StartTimer
          /\ esStatus' = (Head(queue).arg = "emergency")
      BY <1>11, <2>3 DEF requestOdcpi
    <3>2. esStatus' \in BOOLEAN BY <3>1, Zenon
    <3> QED BY <2>1, <2>2, <3>1, <3>2, HandlersType DEF StartTimer, modem
  <2>4. CASE ~PassedOn(Head(queue).arg)
    <3>1. UNCHANGED <<esStatus, mActive, alarm, handlers>> BY <1>11, <2>4 DEF requestOdcpi
    <3> QED BY <2>1, <2>2, <3>1 DEF modem, alarm, handlers
  <2> QED BY <2>3, <2>4
<1>12. ASSUME stopOdcpi PROVE TypeOK' BY <1>12, Taken DEF stopOdcpi, modem, alarm, handlers
<1>13. ASSUME odcpiTimerExpire PROVE TypeOK'
  <2>1. /\ queue' \in Seq(Messages)
        /\ UNCHANGED <<modem, mOdcpiStateMask, mOdcpiRequest, esStatus, power>>
    BY <1>13, Taken DEF odcpiTimerExpire
  <2>2. CASE Active BY <1>13, <2>1, <2>2, HandlersType DEF odcpiTimerExpire, StartTimer, modem
  <2>3. CASE ~Active BY <1>13, <2>1, <2>3 DEF odcpiTimerExpire, StopTimer, modem, handlers
  <2> QED BY <2>2, <2>3
<1>14. ASSUME inject PROVE TypeOK'
  <2>1. queue' \in Seq(Messages) /\ need' = need /\ got' \in BOOLEAN
        /\ UNCHANGED <<adapter, alarm, handlers>>
    BY <1>14, Taken DEF inject
  <2> QED BY <2>1 DEF adapter, alarm, handlers
<1>15. ASSUME handleEngineUpEvent PROVE TypeOK'
  BY <1>15, Taken DEF handleEngineUpEvent, modem, alarm, handlers
<1>16. ASSUME updateSystemPowerState PROVE TypeOK'
  <2>1. queue' \in Seq(Messages) /\ power' = Head(queue).arg
        /\ Head(queue).arg \in {"suspend", "resume"}
    BY <1>16, Taken, ArgType DEF updateSystemPowerState
  <2> QED BY <1>16, <2>1 DEF updateSystemPowerState, modem, alarm, handlers
<1>17. ASSUME initOdcpi PROVE TypeOK'
  <2>1. queue' \in Seq(Messages) /\ Head(queue).handler \in Handlers
    BY <1>17, Taken, ArgType DEF initOdcpi
  <2>2. odcpiReqCb' \in {odcpiReqCb, Head(queue).handler}
        /\ mNonEsOdcpiReqCbMap' = mNonEsOdcpiReqCbMap \cup {Head(queue).handler}
    BY <1>17 DEF initOdcpi
  <2> QED BY <1>17, <2>1, <2>2 DEF initOdcpi, modem, adapter, alarm
<1>18. ASSUME deRegisterOdcpi PROVE TypeOK'
  BY <1>18, Taken DEF deRegisterOdcpi, modem, adapter, alarm
<1>19. ASSUME UNCHANGED vars PROVE TypeOK' BY <1>19 DEF vars, modem, adapter, alarm, handlers
<1>20. OnDemand \in {"odcpi", "onDemand", "spare"} BY DEF OnDemand
<1> QED BY <1>1, <1>2, <1>3, <1>4, <1>5, <1>6, <1>7, <1>8, <1>9, <1>10, <1>11, <1>12, <1>13,
    <1>14, <1>15, <1>16, <1>17, <1>18, <1>19, <1>20 DEF Next, Adapter

-----------------------------------------------------------------------------
(* Renewal                                                                   *)

Expiring == \E i \in DOMAIN queue : queue[i].type = "expire"

LEMMA ExpiringBehind ==
    ASSUME queue \in Seq(Messages), Expiring, NEW msg \in Messages, Send(msg)
    PROVE  Expiring'
<1>1. PICK i \in DOMAIN queue : queue[i].type = "expire" BY DEF Expiring
<1>2. i \in DOMAIN queue' /\ queue'[i] = queue[i] BY Sent
<1> QED BY <1>1, <1>2 DEF Expiring

LEMMA ExpiringAhead ==
    ASSUME queue \in Seq(Messages), Expiring, NEW type, type # "expire", Take(type)
    PROVE  Expiring'
<1>1. PICK i \in DOMAIN queue : queue[i].type = "expire" BY DEF Expiring
<1>2. i # 1 /\ i \in 1..Len(queue) /\ Len(queue) \in Nat \ {0} BY <1>1, Taken
<1>3. i - 1 \in DOMAIN queue' /\ queue'[i - 1] = queue[i]
  <2>1. i - 1 \in 1..(Len(queue) - 1) /\ (i - 1) + 1 = i BY <1>2
  <2> QED BY <2>1, Taken
<1> QED BY <1>1, <1>3 DEF Expiring

(* Whoever leaves timer and flag alone, makes no request active and handles  *)
(* no expiry.                                                                *)
LEMMA RenewedBehind ==
    ASSUME Renewed, UNCHANGED <<mActive, alarm>>, mOdcpiStateMask' \subseteq mOdcpiStateMask,
           Expiring => Expiring'
    PROVE  Renewed'
BY DEF Renewed, Expiring, Active, alarm

LEMMA RenewedSent ==
    ASSUME TypeOK, Renewed, UNCHANGED <<mActive, alarm, mOdcpiStateMask>>,
           NEW msg \in Messages, Send(msg)
    PROVE  Renewed'
<1>1. Expiring => Expiring' BY ExpiringBehind DEF TypeOK
<1> QED BY <1>1, RenewedBehind

LEMMA RenewedTaken ==
    ASSUME TypeOK, Renewed, UNCHANGED <<mActive, alarm>>,
           mOdcpiStateMask' \subseteq mOdcpiStateMask, NEW type, type # "expire", Take(type)
    PROVE  Renewed'
<1>1. Expiring => Expiring' BY ExpiringAhead DEF TypeOK
<1> QED BY <1>1, RenewedBehind

LEMMA InitRenewed == Init => Renewed
BY DEF Init, Renewed, Active, Alarm!Init

LEMMA NextRenewed == ASSUME TypeOK, Renewed, [Next]_vars PROVE Renewed'
<1>1. ASSUME NEW mode \in Modes, ModemStarts(mode) PROVE Renewed'
  BY <1>1, MsgType, RenewedSent DEF ModemStarts, adapter
<1>2. ASSUME ModemStops PROVE Renewed'
  <2>1. need \in Modes BY <1>2 DEF ModemStops, TypeOK
  <2> QED BY <1>2, <2>1, MsgType, RenewedSent DEF ModemStops, adapter
<1>3. ASSUME ModemRestarts PROVE Renewed'
  BY <1>3, MsgType, RenewedSent DEF ModemRestarts, adapter
<1>4. ASSUME ModemAges \/ EngineLocks \/ FrameworkDies \/ FrameworkReturns
             \/ (\E h \in Handlers : Fails(h)) \/ UNCHANGED vars
      PROVE  Renewed'
  <2>1. UNCHANGED <<queue, mActive, alarm, mOdcpiStateMask>>
    BY <1>4 DEF ModemAges, EngineLocks, FrameworkDies, FrameworkReturns, Fails, adapter, vars
  <2> QED BY <2>1, RenewedBehind DEF Expiring
<1>5. ASSUME NEW state \in {"suspend", "resume"}, PowerChanges(state) PROVE Renewed'
  BY <1>5, MsgType, RenewedSent DEF PowerChanges, adapter
<1>6. ASSUME NEW h \in Handlers, NEW mask \in Masks, Registers(h, mask) PROVE Renewed'
  BY <1>6, MsgType, RenewedSent DEF Registers, adapter
<1>7. ASSUME Deregisters PROVE Renewed'
  <2>1. Registration("deregister", "plain", Provider) \in Messages
    BY MsgType DEF Masks, Handlers
  <2> QED BY <1>7, <2>1, RenewedSent DEF Deregisters, adapter
<1>8. ASSUME NEW h \in Handlers, NEW how \in {"odcpi", "onDemand", "spare"}, Answers(h, how)
      PROVE  Renewed'
  BY <1>8, MsgType, RenewedSent DEF Answers, adapter
<1>9. ASSUME TimerExpires PROVE Renewed'
  <2>1. /\ running' = running \ {Timer} /\ called' = Timer
        /\ UNCHANGED <<mActive, mOdcpiStateMask>>
    BY <1>9 DEF TimerExpires, Alarm!Expire, adapter
  <2> QED BY <2>1 DEF Renewed, Active
<1>10. ASSUME odcpiTimerExpireEvent PROVE Renewed'
  <2>1. /\ Send(Msg("expire", None)) /\ Msg("expire", None) \in Messages
        /\ UNCHANGED <<running, mActive, mOdcpiStateMask>>
    BY <1>10, MsgType DEF odcpiTimerExpireEvent, Alarm!CallBack, adapter
  <2>2. Expiring'
    <3>1. Len(queue) + 1 \in DOMAIN queue' /\ queue'[Len(queue) + 1] = Msg("expire", None)
      BY <2>1, Sent DEF TypeOK
    <3> QED BY <3>1 DEF Expiring, Msg
  <2> QED BY <2>1, <2>2 DEF Renewed, Active, Expiring
<1>11. ASSUME requestOdcpi PROVE Renewed'
  <2>1. Take("start") /\ mOdcpiStateMask' = {"active"} BY <1>11 DEF requestOdcpi
  <2>2. CASE PassedOn(Head(queue).arg)
    BY <1>11, <2>2 DEF requestOdcpi, StartTimer, Renewed, Active
  <2>3. CASE ~PassedOn(Head(queue).arg)
    <3>1. UNCHANGED <<mActive, alarm>> /\ mActive
      BY <1>11, <2>3 DEF requestOdcpi, PassedOn, Renewed
    <3>2. Expiring => Expiring' BY <2>1, ExpiringAhead DEF TypeOK
    <3> QED BY <3>1, <3>2 DEF Renewed, Expiring, alarm
  <2> QED BY <2>2, <2>3
<1>12. ASSUME stopOdcpi PROVE Renewed' BY <1>12, RenewedTaken DEF stopOdcpi
<1>13. ASSUME odcpiTimerExpire PROVE Renewed'
  <2>1. CASE Active BY <1>13, <2>1 DEF odcpiTimerExpire, StartTimer, Renewed, Active
  <2>2. CASE ~Active BY <1>13, <2>2 DEF odcpiTimerExpire, StopTimer, Renewed, Active
  <2> QED BY <2>1, <2>2
<1>14. ASSUME inject PROVE Renewed' BY <1>14, RenewedTaken DEF inject, adapter
<1>15. ASSUME handleEngineUpEvent PROVE Renewed' BY <1>15, RenewedTaken DEF handleEngineUpEvent
<1>16. ASSUME updateSystemPowerState \/ initOdcpi \/ deRegisterOdcpi PROVE Renewed'
  BY <1>16, RenewedTaken DEF updateSystemPowerState, initOdcpi, deRegisterOdcpi, adapter
<1>17. OnDemand \in {"odcpi", "onDemand", "spare"} BY DEF OnDemand
<1> QED BY <1>1, <1>2, <1>3, <1>4, <1>5, <1>6, <1>7, <1>8, <1>9, <1>10, <1>11, <1>12, <1>13,
    <1>14, <1>15, <1>16, <1>17 DEF Next, Adapter

-----------------------------------------------------------------------------
(* What is on the way to the adapter                                         *)

(* A world without restarts, power changes or locks shows none of them.      *)
WorldInv ==
    /\ ~Exposed({"power"}) =>
          power = "resume" /\ \A i \in DOMAIN queue : queue[i].type # "power"
    /\ ~Exposed({"locks"}) => unlocked = TRUE
    /\ "crashes" \notin world => \A i \in DOMAIN queue : queue[i].type # "engineUp"

LEMMA WorldSent ==
    ASSUME TypeOK, WorldInv, UNCHANGED <<world, power, unlocked>>, NEW msg \in Messages, Send(msg),
           msg.type = "power" => Exposed({"power"}),
           msg.type = "engineUp" => "crashes" \in world
    PROVE  WorldInv'
<1>1. \A i \in DOMAIN queue' :
         queue'[i] = msg \/ (i \in DOMAIN queue /\ queue'[i] = queue[i])
  <2> SUFFICES ASSUME NEW i \in DOMAIN queue'
               PROVE  queue'[i] = msg \/ (i \in DOMAIN queue /\ queue'[i] = queue[i])
    OBVIOUS
  <2>1. i \in 1..(Len(queue) + 1) /\ Len(queue) \in Nat BY Sent DEF TypeOK
  <2>2. i = Len(queue) + 1 \/ i \in 1..Len(queue) BY <2>1
  <2> QED BY <2>2, Sent DEF TypeOK
<1> QED BY <1>1 DEF WorldInv, Exposed

LEMMA WorldTaken ==
    ASSUME TypeOK, WorldInv, UNCHANGED <<world, unlocked>>, NEW type, Take(type),
           power' = power \/ type = "power"
    PROVE  WorldInv'
<1>1. \A i \in DOMAIN queue' : \E j \in DOMAIN queue : queue'[i] = queue[j]
  <2>1. \A i \in DOMAIN queue' : i + 1 \in DOMAIN queue BY Taken DEF TypeOK
  <2> QED BY <2>1, Taken DEF TypeOK
<1>2. type = "power" => Exposed({"power"})
  <2>1. 1 \in DOMAIN queue /\ queue[1].type = type BY Taken DEF TypeOK
  <2> QED BY <2>1 DEF WorldInv
<1> QED BY <1>1, <1>2 DEF WorldInv, Exposed

LEMMA InitWorld == Init => WorldInv
BY DEF Init, WorldInv

LEMMA NextWorld == ASSUME TypeOK, WorldInv, [Next]_vars PROVE WorldInv'
<1>1. ASSUME NEW mode \in Modes, ModemStarts(mode) PROVE WorldInv'
  <2>1. Msg("start", mode).type = "start" BY DEF Msg
  <2> QED BY <1>1, <2>1, MsgType, WorldSent DEF ModemStarts, adapter
<1>2. ASSUME ModemStops PROVE WorldInv'
  <2>1. need \in Modes /\ Msg("stop", need).type = "stop" BY <1>2 DEF ModemStops, TypeOK, Msg
  <2> QED BY <1>2, <2>1, MsgType, WorldSent DEF ModemStops, adapter
<1>3. ASSUME ModemRestarts PROVE WorldInv'
  <2>1. Msg("engineUp", None).type = "engineUp" BY DEF Msg
  <2> QED BY <1>3, <2>1, MsgType, WorldSent DEF ModemRestarts, Happens, adapter
<1>4. ASSUME ModemAges \/ FrameworkDies \/ FrameworkReturns \/ TimerExpires
             \/ (\E h \in Handlers : Fails(h)) \/ UNCHANGED vars
      PROVE  WorldInv'
  <2>1. UNCHANGED <<world, queue, power, unlocked>>
    BY <1>4 DEF ModemAges, FrameworkDies, FrameworkReturns, TimerExpires, Fails, adapter, vars
  <2> QED BY <2>1 DEF WorldInv, Exposed
<1>5. ASSUME NEW state \in {"suspend", "resume"}, PowerChanges(state) PROVE WorldInv'
  <2>1. Msg("power", state).type = "power" /\ Exposed({"power"})
    BY <1>5 DEF Msg, PowerChanges, Happens, Exposed
  <2> QED BY <1>5, <2>1, MsgType, WorldSent DEF PowerChanges, adapter
<1>6. ASSUME NEW h \in Handlers, NEW mask \in Masks, Registers(h, mask) PROVE WorldInv'
  <2>1. Registration("register", mask, h).type = "register" BY DEF Registration
  <2> QED BY <1>6, <2>1, MsgType, WorldSent DEF Registers, adapter
<1>7. ASSUME Deregisters PROVE WorldInv'
  <2>1. /\ Registration("deregister", "plain", Provider) \in Messages
        /\ Registration("deregister", "plain", Provider).type = "deregister"
    BY MsgType DEF Masks, Handlers, Registration
  <2> QED BY <1>7, <2>1, WorldSent DEF Deregisters, adapter
<1>8. ASSUME NEW h \in Handlers, NEW how \in {"odcpi", "onDemand", "spare"}, Answers(h, how)
      PROVE  WorldInv'
  <2>1. Msg("inject", how).type = "inject" BY DEF Msg
  <2> QED BY <1>8, <2>1, MsgType, WorldSent DEF Answers, adapter
<1>9. ASSUME EngineLocks PROVE WorldInv'
  <2>1. Exposed({"locks"}) /\ UNCHANGED <<world, queue, power>>
    BY <1>9 DEF EngineLocks, Happens, Exposed, adapter
  <2> QED BY <2>1 DEF WorldInv, Exposed
<1>10. ASSUME odcpiTimerExpireEvent PROVE WorldInv'
  <2>1. Msg("expire", None).type = "expire" BY DEF Msg
  <2> QED BY <1>10, <2>1, MsgType, WorldSent DEF odcpiTimerExpireEvent, adapter
<1>11. ASSUME requestOdcpi \/ stopOdcpi \/ odcpiTimerExpire \/ inject \/ handleEngineUpEvent
              \/ updateSystemPowerState \/ initOdcpi \/ deRegisterOdcpi
       PROVE  WorldInv'
  BY <1>11, WorldTaken DEF requestOdcpi, stopOdcpi, odcpiTimerExpire, inject,
    handleEngineUpEvent, updateSystemPowerState, initOdcpi, deRegisterOdcpi, adapter
<1>12. OnDemand \in {"odcpi", "onDemand", "spare"} BY DEF OnDemand
<1> QED BY <1>1, <1>2, <1>3, <1>4, <1>5, <1>6, <1>7, <1>8, <1>9, <1>10, <1>11, <1>12 DEF Next, Adapter

-----------------------------------------------------------------------------
(* The adapter follows the modem                                             *)

(* The messages by which the modem's request changes.                        *)
Changes(i) == queue[i].type \in {"start", "stop", "engineUp"}

LastChange(i) ==
    /\ i \in DOMAIN queue /\ Changes(i)
    /\ \A j \in DOMAIN queue : j > i => ~Changes(j)

(* The last change on the way is what the modem asks for; if there is none,  *)
(* the adapter has it.                                                       *)
KeptInv ==
    ~({"crashes"} \subseteq world /\ Exposed({"power", "locks"})) =>
        /\ \A i \in DOMAIN queue : LastChange(i) =>
              need = IF queue[i].type = "start" THEN queue[i].arg ELSE None
        /\ (\A i \in DOMAIN queue : ~Changes(i)) =>
              /\ Active <=> need # None
              /\ Active => mOdcpiRequest = need

LEMMA KeptSent ==
    ASSUME TypeOK, KeptInv, UNCHANGED <<world, need, mOdcpiStateMask, mOdcpiRequest>>,
           NEW msg \in Messages, Send(msg), msg.type \notin {"start", "stop", "engineUp"}
    PROVE  KeptInv'
<1>0. PICK n : n = Len(queue)
  OBVIOUS
<1>1. /\ n \in Nat /\ DOMAIN queue = 1..n /\ DOMAIN queue' = 1..(n + 1)
      /\ \A i \in 1..n : queue'[i] = queue[i] /\ i \in 1..(n + 1)
      /\ queue'[n + 1] = msg
  BY <1>0, Sent DEF TypeOK
<1>2. \A i \in 1..n : Changes(i)' <=> Changes(i) BY <1>1 DEF Changes
<1>3. ~Changes(n + 1)' BY <1>1 DEF Changes
<1>4. \A i \in DOMAIN queue' : LastChange(i)' => LastChange(i) /\ queue'[i] = queue[i]
  <2> SUFFICES ASSUME NEW i \in DOMAIN queue', LastChange(i)'
               PROVE  LastChange(i) /\ queue'[i] = queue[i]
    OBVIOUS
  <2>1. i \in 1..n BY <1>1, <1>3 DEF LastChange
  <2> QED BY <1>1, <1>2, <2>1 DEF LastChange
<1>5. (\A i \in DOMAIN queue' : ~Changes(i)') => (\A i \in DOMAIN queue : ~Changes(i))
  BY <1>1, <1>2
<1>6. \A i \in DOMAIN queue' : LastChange(i)' => i \in DOMAIN queue BY <1>4 DEF LastChange
<1> QED BY <1>4, <1>5, <1>6 DEF KeptInv, Active, Exposed

(* A change that is sent is the last, and the modem's request is its.        *)
LEMMA KeptChanged ==
    ASSUME TypeOK, world' = world,
           NEW msg \in Messages, Send(msg), msg.type \in {"start", "stop", "engineUp"},
           need' = IF msg.type = "start" THEN msg.arg ELSE None
    PROVE  KeptInv'
<1>0. PICK n : n = Len(queue)
  OBVIOUS
<1>1. /\ n \in Nat /\ DOMAIN queue' = 1..(n + 1) /\ queue'[n + 1] = msg
  BY <1>0, Sent DEF TypeOK
<1>2. n + 1 \in DOMAIN queue' /\ Changes(n + 1)' BY <1>1 DEF Changes
<1>3. \A i \in DOMAIN queue' : LastChange(i)' => i = n + 1 BY <1>1, <1>2 DEF LastChange
<1> QED BY <1>1, <1>2, <1>3 DEF KeptInv

LEMMA KeptTaken ==
    ASSUME TypeOK, KeptInv, world' = world, need' = need, NEW type, Take(type),
           \/ /\ type \notin {"start", "stop", "engineUp"}
              /\ UNCHANGED <<mOdcpiStateMask, mOdcpiRequest>>
           \/ /\ type = "start" /\ mOdcpiStateMask' = {"active"}
              /\ mOdcpiRequest' = Head(queue).arg
           \/ type \in {"stop", "engineUp"} /\ mOdcpiStateMask' = {}
    PROVE  KeptInv'
<1>0. PICK n : n = Len(queue)
  OBVIOUS
<1>1. /\ n \in Nat \ {0} /\ DOMAIN queue = 1..n /\ DOMAIN queue' = 1..(n - 1)
      /\ queue[1] = Head(queue) /\ queue[1] \in Messages /\ queue[1].type = type
      /\ \A i \in 1..(n - 1) : queue'[i] = queue[i + 1]
  BY <1>0, Taken DEF TypeOK
<1>2. \A i \in 1..(n - 1) : (Changes(i)' <=> Changes(i + 1)) /\ i + 1 \in 1..n
  BY <1>1 DEF Changes
<1>3. \A j \in 2..n : j - 1 \in 1..(n - 1) /\ (j - 1) + 1 = j BY <1>1
<1>4. \A i \in DOMAIN queue' :
         LastChange(i)' => LastChange(i + 1) /\ queue'[i] = queue[i + 1] /\ i + 1 \in DOMAIN queue
  <2> SUFFICES ASSUME NEW i \in 1..(n - 1), LastChange(i)'
               PROVE  LastChange(i + 1)
    BY <1>1, <1>2
  <2>1. \A j \in DOMAIN queue : j > i + 1 => ~Changes(j)
    <3> SUFFICES ASSUME NEW j \in 1..n, j > i + 1 PROVE ~Changes(j) BY <1>1
    <3>1. j \in 2..n /\ j - 1 > i BY <1>1
    <3> QED BY <1>1, <1>2, <1>3, <3>1 DEF LastChange
  <2> QED BY <1>1, <1>2, <2>1 DEF LastChange
<1>5. ASSUME \A i \in DOMAIN queue' : ~Changes(i)'
      PROVE  \A j \in DOMAIN queue : j # 1 => ~Changes(j)
  <2> SUFFICES ASSUME NEW j \in 1..n, j # 1 PROVE ~Changes(j) BY <1>1
  <2>1. j - 1 \in 1..(n - 1) /\ (j - 1) + 1 = j BY <1>1, <1>3
  <2>2. ~Changes(j - 1)' BY <1>1, <1>5, <2>1
  <2>3. Changes(j - 1)' <=> Changes((j - 1) + 1) BY <1>2, <2>1
  <2> QED BY <2>1, <2>2, <2>3
<1>6. ASSUME ~({"crashes"} \subseteq world /\ Exposed({"power", "locks"})),
             \A i \in DOMAIN queue' : ~Changes(i)'
      PROVE  (Active' <=> need # None) /\ (Active' => mOdcpiRequest' = need)
  <2>1. CASE type \notin {"start", "stop", "engineUp"}
    <3>1. \A j \in DOMAIN queue : ~Changes(j) BY <1>1, <1>5, <1>6, <2>1 DEF Changes
    <3> QED BY <1>6, <2>1, <3>1 DEF KeptInv, Active
  <2>2. CASE type \in {"start", "stop", "engineUp"}
    <3>1. LastChange(1) BY <1>1, <1>5, <1>6, <2>2 DEF LastChange, Changes
    <3>2. need = IF type = "start" THEN Head(queue).arg ELSE None
      BY <1>1, <1>6, <3>1 DEF KeptInv
    <3>3. type = "start" => Head(queue).arg # None BY <1>1, ArgType, OdcpiAssumption DEF Modes
    <3> QED BY <2>2, <3>2, <3>3 DEF Active
  <2> QED BY <2>1, <2>2
<1> QED BY <1>4, <1>6 DEF KeptInv, Exposed

LEMMA InitKept == Init => KeptInv
BY DEF Init, KeptInv, Changes, LastChange, Active

LEMMA NextKept == ASSUME TypeOK, WorldInv, KeptInv, [Next]_vars PROVE KeptInv'
<1>1. ASSUME NEW mode \in Modes, ModemStarts(mode) PROVE KeptInv'
  BY <1>1, MsgType, KeptChanged DEF ModemStarts, Msg
<1>2. ASSUME ModemStops PROVE KeptInv'
  <2>1. need \in Modes BY <1>2 DEF ModemStops, TypeOK
  <2> QED BY <1>2, <2>1, MsgType, KeptChanged DEF ModemStops, Msg
<1>3. ASSUME ModemRestarts PROVE KeptInv' BY <1>3, MsgType, KeptChanged DEF ModemRestarts, Msg
<1>4. ASSUME ModemAges \/ EngineLocks \/ FrameworkDies \/ FrameworkReturns \/ TimerExpires
             \/ (\E h \in Handlers : Fails(h)) \/ UNCHANGED vars
      PROVE  KeptInv'
  <2>1. UNCHANGED <<world, queue, need, mOdcpiStateMask, mOdcpiRequest>>
    BY <1>4 DEF ModemAges, EngineLocks, FrameworkDies, FrameworkReturns, TimerExpires, Fails,
      modem, adapter, vars
  <2> QED BY <2>1 DEF KeptInv, LastChange, Changes, Active, Exposed
<1>5. ASSUME NEW state \in {"suspend", "resume"}, PowerChanges(state) PROVE KeptInv'
  <2>1. Msg("power", state).type = "power" BY DEF Msg
  <2> QED BY <1>5, <2>1, MsgType, KeptSent DEF PowerChanges, modem, adapter
<1>6. ASSUME NEW h \in Handlers, NEW mask \in Masks, Registers(h, mask) PROVE KeptInv'
  <2>1. Registration("register", mask, h).type = "register" BY DEF Registration
  <2> QED BY <1>6, <2>1, MsgType, KeptSent DEF Registers, modem, adapter
<1>7. ASSUME Deregisters PROVE KeptInv'
  <2>1. /\ Registration("deregister", "plain", Provider) \in Messages
        /\ Registration("deregister", "plain", Provider).type = "deregister"
    BY MsgType DEF Masks, Handlers, Registration
  <2> QED BY <1>7, <2>1, KeptSent DEF Deregisters, modem, adapter
<1>8. ASSUME NEW h \in Handlers, NEW how \in {"odcpi", "onDemand", "spare"}, Answers(h, how)
      PROVE  KeptInv'
  <2>1. Msg("inject", how).type = "inject" BY DEF Msg
  <2> QED BY <1>8, <2>1, MsgType, KeptSent DEF Answers, modem, adapter
<1>9. ASSUME odcpiTimerExpireEvent PROVE KeptInv'
  <2>1. Msg("expire", None).type = "expire" BY DEF Msg
  <2> QED BY <1>9, <2>1, MsgType, KeptSent DEF odcpiTimerExpireEvent, modem, adapter
<1>10. ASSUME requestOdcpi PROVE KeptInv' BY <1>10, KeptTaken DEF requestOdcpi, modem
<1>11. ASSUME stopOdcpi PROVE KeptInv' BY <1>11, KeptTaken DEF stopOdcpi, modem
<1>12. ASSUME odcpiTimerExpire \/ inject \/ updateSystemPowerState \/ initOdcpi \/ deRegisterOdcpi
       PROVE  KeptInv'
  <2>1. /\ \E type \in {"expire", "inject", "power", "register", "deregister"} : Take(type)
        /\ UNCHANGED <<world, need, mOdcpiStateMask, mOdcpiRequest>>
    BY <1>12 DEF odcpiTimerExpire, inject, updateSystemPowerState, initOdcpi, deRegisterOdcpi,
      modem, adapter
  <2> QED BY <2>1, KeptTaken
<1>13. ASSUME handleEngineUpEvent PROVE KeptInv'
  <2>1. Take("engineUp") /\ UNCHANGED <<world, need, mOdcpiRequest>>
    BY <1>13 DEF handleEngineUpEvent, modem
  <2>2. "crashes" \in world
    <3>1. 1 \in DOMAIN queue /\ queue[1].type = "engineUp" BY <2>1, Taken DEF TypeOK
    <3> QED BY <3>1 DEF WorldInv
  <2>3. CASE Exposed({"power", "locks"}) BY <2>1, <2>2, <2>3 DEF KeptInv, Exposed
  <2>4. CASE ~Exposed({"power", "locks"})
    <3>1. unlocked = TRUE /\ power = "resume" BY <2>4 DEF WorldInv, Exposed
    <3>2. mOdcpiStateMask' = {} BY <1>13, <3>1 DEF handleEngineUpEvent
    <3> QED BY <2>1, <3>2, KeptTaken
  <2> QED BY <2>3, <2>4
<1>14. OnDemand \in {"odcpi", "onDemand", "spare"} BY DEF OnDemand
<1> QED
  BY <1>1, <1>2, <1>3, <1>4, <1>5, <1>6, <1>7, <1>8, <1>9, <1>10, <1>11, <1>12, <1>13, <1>14
    DEF Next, Adapter

LEMMA KeptAgrees == KeptInv => ModemAgrees
BY DEF KeptInv, ModemAgrees, Quiet

-----------------------------------------------------------------------------
(* mEsStatusCb: without hasty modems and restarts, a request only grows,     *)
(* nothing starts behind a stop, and the first start finds no timer.         *)

Is(i, type) == queue[i].type = type
Starts(i) == Is(i, "start")

Ordered ==
    /\ esStatus <=> (Active /\ mOdcpiRequest = "emergency")
    /\ \A i, j \in DOMAIN queue : Starts(i) /\ Starts(j) /\ i < j =>
          (queue[i].arg = "emergency" => queue[j].arg = "emergency")
    /\ \A i, j \in DOMAIN queue : Is(i, "stop") /\ i < j => ~Starts(j)
    /\ \A i \in DOMAIN queue : Starts(i) =>
          /\ need = "plain" => queue[i].arg = "plain"
          /\ Active /\ mOdcpiRequest = "emergency" => queue[i].arg = "emergency"
          /\ ~Active => ~mActive
    /\ \A i \in DOMAIN queue : Is(i, "stop") => need = None
    /\ need = "plain" /\ Active => mOdcpiRequest = "plain"
    /\ need # None /\ ~Active => ~mActive

OrderInv == ~Exposed({"hasty", "crashes"}) => Ordered

LEMMA InitOrder == Init => OrderInv
BY DEF Init, OrderInv, Ordered, Active

(* What is no start may be sent at any time, a stop when nothing is needed.  *)
LEMMA OrderSent ==
    ASSUME TypeOK, Ordered, UNCHANGED <<world, mOdcpiStateMask, mOdcpiRequest, mActive, esStatus>>,
           NEW msg \in Messages, Send(msg), msg.type # "start",
           need' \in {need, None}, msg.type = "stop" => need' = None
    PROVE  Ordered'
<1>0. PICK n : n = Len(queue)
  OBVIOUS
<1>1. /\ n \in Nat /\ DOMAIN queue = 1..n /\ DOMAIN queue' = 1..(n + 1)
      /\ \A i \in 1..n : queue'[i] = queue[i] /\ i \in 1..(n + 1)
      /\ queue'[n + 1] = msg
  BY <1>0, Sent DEF TypeOK
<1>2. \A i \in 1..(n + 1) : i \in 1..n \/ i = n + 1 BY <1>1
<1>3. \A i \in 1..n : i < n + 1 /\ ~(n + 1 < i) BY <1>1
<1> QED BY <1>1, <1>2, <1>3, OdcpiAssumption DEF Ordered, Is, Starts, Active

LEMMA OrderStarted ==
    ASSUME TypeOK, Renewed, Ordered, "hasty" \notin world, NEW mode \in Modes, ModemStarts(mode)
    PROVE  Ordered'
<1>0. PICK n : n = Len(queue)
  OBVIOUS
<1>1. /\ Send(Msg("start", mode)) /\ need' = mode
      /\ UNCHANGED <<mOdcpiStateMask, mOdcpiRequest, mActive, esStatus>>
      /\ need = "emergency" => mode = "emergency"
      /\ need = None => ~mActive /\ queue = <<>>
  BY DEF ModemStarts, adapter
<1>2. /\ n \in Nat /\ DOMAIN queue = 1..n /\ DOMAIN queue' = 1..(n + 1)
      /\ \A i \in 1..n : queue'[i] = queue[i] /\ i \in 1..(n + 1)
      /\ queue'[n + 1].type = "start" /\ queue'[n + 1].arg = mode
  <2>1. Msg("start", mode) \in Messages BY MsgType
  <2>2. /\ n \in Nat /\ DOMAIN queue = 1..n /\ DOMAIN queue' = 1..(n + 1)
        /\ \A i \in 1..n : queue'[i] = queue[i] /\ i \in 1..(n + 1)
        /\ queue'[n + 1] = Msg("start", mode)
    BY <1>0, <1>1, <2>1, Sent DEF TypeOK
  <2> QED BY <2>2 DEF Msg
<1>3. \A i \in 1..(n + 1) : i \in 1..n \/ i = n + 1 BY <1>2
<1>4. \A i \in 1..n : i < n + 1 /\ ~(n + 1 < i) BY <1>2
<1>6. CASE need = None
  <2>1. ~Active /\ ~mActive BY <1>1, <1>6 DEF Renewed
  <2>2. n = 0 BY <1>0, <1>1, <1>6, EmptySeq
  <2> QED BY <1>1, <1>2, <1>3, <2>1, <2>2, OdcpiAssumption DEF Ordered, Is, Starts, Active, Modes
<1>7. CASE need # None
  <2>1. need \in Modes /\ ~(~Active /\ mActive) BY <1>7 DEF TypeOK, Ordered
  <2>2. \A i \in 1..n : ~Is(i, "stop") BY <1>2, <1>7 DEF Ordered
  <2>3. ASSUME mode = "plain"
        PROVE  /\ need = "plain"
               /\ Active => mOdcpiRequest = "plain"
               /\ \A i \in 1..n : Starts(i) => queue[i].arg = "plain"
    BY <1>1, <1>2, <2>1, <2>3 DEF Ordered, Modes
  <2>4. \A i \in 1..n : (Starts(i)' <=> Starts(i)) /\ (Is(i, "stop")' <=> Is(i, "stop"))
    BY <1>2 DEF Starts, Is
  <2>5. Starts(n + 1)' /\ ~Is(n + 1, "stop")' BY <1>2 DEF Starts, Is
  <2>6. mode = "plain" \/ mode = "emergency" BY DEF Modes
  <2>7. \A i \in DOMAIN queue' : ~Is(i, "stop")' BY <1>2, <1>3, <2>2, <2>4, <2>5
  <2>8. (esStatus <=> (Active /\ mOdcpiRequest = "emergency"))' BY <1>1 DEF Ordered, Active
  <2>9. \A i, j \in DOMAIN queue' : Starts(i)' /\ Starts(j)' /\ i < j =>
            (queue'[i].arg = "emergency" => queue'[j].arg = "emergency")
    BY <1>2, <1>3, <1>4, <2>3, <2>4, <2>6 DEF Ordered
  <2>10. \A i \in DOMAIN queue' : Starts(i)' =>
          /\ need' = "plain" => queue'[i].arg = "plain"
          /\ Active' /\ mOdcpiRequest' = "emergency" => queue'[i].arg = "emergency"
          /\ ~Active' => ~mActive'
    BY <1>1, <1>2, <1>3, <2>1, <2>3, <2>4, <2>6 DEF Ordered, Active
  <2> QED BY <1>1, <2>1, <2>3, <2>7, <2>8, <2>9, <2>10, OdcpiAssumption DEF Ordered, Active
<1> QED BY <1>6, <1>7

(* What waits moves up by one and is what it was.                            *)
LEMMA Shifted ==
    ASSUME TypeOK, NEW type, Take(type)
    PROVE  /\ 1 \in DOMAIN queue /\ queue[1] = Head(queue) /\ Head(queue).type = type
           /\ Head(queue) \in Messages
           /\ \A i \in DOMAIN queue' : /\ i \in Nat /\ i + 1 \in DOMAIN queue /\ 1 < i + 1
                                       /\ queue'[i] = queue[i + 1]
                                       /\ Starts(i)' <=> Starts(i + 1)
                                       /\ Is(i, "stop")' <=> Is(i + 1, "stop")
<1>0. PICK n : n = Len(queue)
  OBVIOUS
<1>1. /\ n \in Nat \ {0} /\ DOMAIN queue = 1..n /\ DOMAIN queue' = 1..(n - 1)
      /\ queue[1] = Head(queue) /\ queue[1] \in Messages /\ queue[1].type = type
      /\ \A i \in 1..(n - 1) : queue'[i] = queue[i + 1]
  BY <1>0, Taken DEF TypeOK
<1>2. \A i \in 1..(n - 1) : i \in Nat /\ i + 1 \in 1..n /\ 1 < i + 1 BY <1>1
<1>3. 1 \in 1..n BY <1>1
<1> QED BY <1>1, <1>2, <1>3 DEF Starts, Is

(* The parts of Ordered that are about the queue alone.                      *)
OrderedQueue ==
    /\ \A i, j \in DOMAIN queue : Starts(i) /\ Starts(j) /\ i < j =>
          (queue[i].arg = "emergency" => queue[j].arg = "emergency")
    /\ \A i, j \in DOMAIN queue : Is(i, "stop") /\ i < j => ~Starts(j)
    /\ \A i \in DOMAIN queue : Starts(i) => (need = "plain" => queue[i].arg = "plain")
    /\ \A i \in DOMAIN queue : Is(i, "stop") => need = None

LEMMA QueueShifted ==
    ASSUME TypeOK, Ordered, need' = need, NEW type, Take(type)
    PROVE  OrderedQueue'
<1>1. OrderedQueue BY DEF Ordered, OrderedQueue
<1>2. \A i, j \in DOMAIN queue' : i < j => i + 1 < j + 1 BY Shifted
<1>3. (\A i, j \in DOMAIN queue : Starts(i) /\ Starts(j) /\ i < j =>
          (queue[i].arg = "emergency" => queue[j].arg = "emergency"))'
  BY <1>1, <1>2, Shifted DEF OrderedQueue
<1>4. (\A i, j \in DOMAIN queue : Is(i, "stop") /\ i < j => ~Starts(j))'
  BY <1>1, <1>2, Shifted DEF OrderedQueue
<1>5. (\A i \in DOMAIN queue : Starts(i) => (need = "plain" => queue[i].arg = "plain"))'
  BY <1>1, Shifted DEF OrderedQueue
<1>6. (\A i \in DOMAIN queue : Is(i, "stop") => need = None)' BY <1>1, Shifted DEF OrderedQueue
<1> QED BY <1>3, <1>4, <1>5, <1>6 DEF OrderedQueue

LEMMA OrderTaken ==
    ASSUME TypeOK, Ordered, NEW type, Take(type),
           UNCHANGED <<need, mOdcpiStateMask, mOdcpiRequest, mActive, esStatus>>
    PROVE  Ordered'
<1>1. OrderedQueue' BY QueueShifted
<1>2. \A i \in DOMAIN queue' : Starts(i)' =>
         /\ Active /\ mOdcpiRequest = "emergency" => queue'[i].arg = "emergency"
         /\ ~Active => ~mActive
  BY Shifted DEF Ordered
<1> QED BY <1>1, <1>2 DEF Ordered, OrderedQueue, Active

LEMMA OrderRequested ==
    ASSUME TypeOK, Ordered, requestOdcpi
    PROVE  Ordered'
<1> DEFINE mode == Head(queue).arg
<1>1. /\ Take("start") /\ need' = need
      /\ mOdcpiStateMask' = {"active"} /\ mOdcpiRequest' = mode
  BY DEF requestOdcpi, modem
<1>2. OrderedQueue' BY <1>1, QueueShifted
<1>3. /\ 1 \in DOMAIN queue /\ Starts(1) /\ queue[1].arg = mode
      /\ mode = "plain" \/ mode = "emergency"
  BY <1>1, Shifted, ArgType DEF Starts, Is, Modes
<1>4. ASSUME mode = "emergency"
      PROVE  \A i \in DOMAIN queue' : Starts(i)' => queue'[i].arg = "emergency"
  BY <1>1, <1>3, <1>4, Shifted DEF Ordered
<1>5. need = "plain" => mode = "plain" BY <1>3 DEF Ordered
<1>6. esStatus' <=> mode = "emergency"
  <2>1. CASE PassedOn(mode)
    <3>1. esStatus' = (mode = "emergency") BY <2>1 DEF requestOdcpi
    <3> QED BY <3>1, Zenon
  <2>2. CASE ~PassedOn(mode)
    <3>1. esStatus' = esStatus BY <2>2 DEF requestOdcpi
    <3>2. Active BY <1>3, <2>2 DEF PassedOn, Ordered
    <3>3. mOdcpiRequest = "emergency" => mode = "emergency" BY <1>3, <3>2 DEF Ordered
    <3>4. mode = "emergency" => mOdcpiRequest = "emergency" BY <2>2 DEF PassedOn, TypeOK, Modes
    <3>5. esStatus <=> mode = "emergency" BY <3>2, <3>3, <3>4 DEF Ordered
    <3> QED BY <3>1, <3>5
  <2> QED BY <2>1, <2>2
<1>7. Active' BY <1>1 DEF Active
<1> QED BY <1>1, <1>2, <1>4, <1>5, <1>6, <1>7 DEF Ordered, OrderedQueue

LEMMA OrderStopped ==
    ASSUME TypeOK, Ordered, stopOdcpi
    PROVE  Ordered'
<1>1. /\ Take("stop") /\ mOdcpiStateMask' = {} /\ ~esStatus' /\ need' = need
      /\ mOdcpiRequest' = mOdcpiRequest
  BY DEF stopOdcpi, modem
<1>2. OrderedQueue' /\ ~Active' BY <1>1, QueueShifted DEF Active
<1>3. 1 \in DOMAIN queue /\ Is(1, "stop") BY <1>1, Shifted DEF Is
<1>4. \A i \in DOMAIN queue' : ~Starts(i)' BY <1>1, <1>3, Shifted DEF Ordered
<1>5. need = None BY <1>3 DEF Ordered
<1> QED BY <1>1, <1>2, <1>4, <1>5 DEF Ordered, OrderedQueue

LEMMA OrderExpired ==
    ASSUME TypeOK, Renewed, Ordered, odcpiTimerExpire
    PROVE  Ordered'
<1>1. /\ Take("expire") /\ need' = need
      /\ UNCHANGED <<mOdcpiStateMask, mOdcpiRequest, esStatus>>
  BY DEF odcpiTimerExpire, modem
<1>2. OrderedQueue' /\ (Active' <=> Active) BY <1>1, QueueShifted DEF Active
<1>3. \A i \in DOMAIN queue' : Starts(i)' =>
         (Active /\ mOdcpiRequest = "emergency" => queue'[i].arg = "emergency")
  BY <1>1, Shifted DEF Ordered
<1>4. ~Active => ~mActive' BY DEF odcpiTimerExpire, StopTimer
<1> QED BY <1>1, <1>2, <1>3, <1>4 DEF Ordered, OrderedQueue

LEMMA NextOrder ==
    ASSUME TypeOK, Renewed, WorldInv, OrderInv, [Next]_vars
    PROVE  OrderInv'
<1>1. world' = world
  BY DEF Next, Adapter, ModemStarts, ModemStops, ModemAges, ModemRestarts, Happens, EngineLocks,
    PowerChanges, Registers, Deregisters, FrameworkDies, FrameworkReturns, Answers, Fails,
    TimerExpires, odcpiTimerExpireEvent, requestOdcpi, stopOdcpi, odcpiTimerExpire, inject,
    handleEngineUpEvent, updateSystemPowerState, initOdcpi, deRegisterOdcpi, vars
<1> SUFFICES ASSUME ~Exposed({"hasty", "crashes"}) PROVE Ordered' BY <1>1 DEF OrderInv, Exposed
<1>2. Ordered /\ "hasty" \notin world /\ "crashes" \notin world BY DEF OrderInv, Exposed
<1>3. ASSUME NEW mode \in Modes, ModemStarts(mode) PROVE Ordered' BY <1>2, <1>3, OrderStarted
<1>4. ASSUME ModemStops PROVE Ordered'
  <2>1. need \in Modes BY <1>4 DEF ModemStops, TypeOK
  <2>2. Msg("stop", need).type = "stop" BY DEF Msg
  <2> QED BY <1>2, <1>4, <2>1, <2>2, MsgType, OrderSent DEF ModemStops, adapter
<1>5. ASSUME ModemRestarts \/ handleEngineUpEvent PROVE Ordered'
  <2>1. ~ModemRestarts BY <1>2 DEF ModemRestarts, Happens
  <2>2. Take("engineUp") BY <1>5, <2>1 DEF handleEngineUpEvent
  <2>3. 1 \in DOMAIN queue /\ queue[1].type = "engineUp" BY <2>2, Taken DEF TypeOK
  <2> QED BY <1>2, <2>3 DEF WorldInv
<1>6. ASSUME ModemAges \/ EngineLocks \/ FrameworkDies \/ FrameworkReturns \/ TimerExpires
             \/ (\E h \in Handlers : Fails(h)) \/ UNCHANGED vars
      PROVE  Ordered'
  <2>1. UNCHANGED <<queue, need, mOdcpiStateMask, mOdcpiRequest, mActive, esStatus>>
    BY <1>6 DEF ModemAges, EngineLocks, FrameworkDies, FrameworkReturns, TimerExpires, Fails,
      modem, adapter, vars
  <2> QED BY <1>2, <2>1 DEF Ordered, Starts, Is, Active
<1>7. ASSUME NEW state \in {"suspend", "resume"}, PowerChanges(state) PROVE Ordered'
  <2>1. Msg("power", state).type = "power" BY DEF Msg
  <2> QED BY <1>2, <1>7, <2>1, MsgType, OrderSent DEF PowerChanges, modem, adapter
<1>8. ASSUME NEW h \in Handlers, NEW mask \in Masks, Registers(h, mask) PROVE Ordered'
  <2>1. Registration("register", mask, h).type = "register" BY DEF Registration
  <2> QED BY <1>2, <1>8, <2>1, MsgType, OrderSent DEF Registers, modem, adapter
<1>9. ASSUME Deregisters PROVE Ordered'
  <2>1. /\ Registration("deregister", "plain", Provider) \in Messages
        /\ Registration("deregister", "plain", Provider).type = "deregister"
    BY MsgType DEF Masks, Handlers, Registration
  <2> QED BY <1>2, <1>9, <2>1, OrderSent DEF Deregisters, modem, adapter
<1>10. ASSUME NEW h \in Handlers, NEW how \in {"odcpi", "onDemand", "spare"}, Answers(h, how)
       PROVE  Ordered'
  <2>1. Msg("inject", how).type = "inject" BY DEF Msg
  <2> QED BY <1>2, <1>10, <2>1, MsgType, OrderSent DEF Answers, modem, adapter
<1>11. ASSUME odcpiTimerExpireEvent PROVE Ordered'
  <2>1. Msg("expire", None).type = "expire" BY DEF Msg
  <2> QED BY <1>2, <1>11, <2>1, MsgType, OrderSent DEF odcpiTimerExpireEvent, modem, adapter
<1>12. ASSUME requestOdcpi \/ stopOdcpi \/ odcpiTimerExpire PROVE Ordered'
  BY <1>2, <1>12, OrderRequested, OrderStopped, OrderExpired
<1>13. ASSUME inject \/ updateSystemPowerState \/ initOdcpi \/ deRegisterOdcpi PROVE Ordered'
  <2>1. /\ \E type \in {"inject", "power", "register", "deregister"} : Take(type)
        /\ UNCHANGED <<need, mOdcpiStateMask, mOdcpiRequest, mActive, esStatus>>
    BY <1>13 DEF inject, updateSystemPowerState, initOdcpi, deRegisterOdcpi, modem, adapter
  <2> QED BY <1>2, <2>1, OrderTaken
<1>14. OnDemand \in {"odcpi", "onDemand", "spare"} BY DEF OnDemand
<1> QED BY <1>3, <1>4, <1>5, <1>6, <1>7, <1>8, <1>9, <1>10, <1>11, <1>12, <1>13, <1>14 DEF Next, Adapter

LEMMA StatusKept == TypeOK /\ KeptInv /\ OrderInv => StatusTold
<1> SUFFICES ASSUME TypeOK, KeptInv, OrderInv, Quiet, ~Exposed({"hasty", "crashes"})
             PROVE  esStatus <=> need = "emergency"
  BY DEF StatusTold
<1>1. Ordered /\ "crashes" \notin world BY DEF OrderInv, Exposed
<1>2. (Active <=> need # None) /\ (Active => mOdcpiRequest = need) BY <1>1 DEF KeptInv, Quiet
<1> QED BY <1>1, <1>2, OdcpiAssumption DEF Ordered

(* Every step of GnssAdapter, its handlers and the modem keeps the types.    *)
THEOREM TypeCorrect == Spec => []TypeOK
BY InitType, NextType, PTL DEF Spec

(* An active request is renewed until it is stopped, by a timer that runs or *)
(* whose expiry is on its way (requestOdcpi, odcpiTimerExpire and            *)
(* OdcpiTimer::timeOutCallback).                                             *)
THEOREM RequestsRenewed == Spec => []Renewed
<1>1. Init => TypeOK /\ Renewed BY InitType, InitRenewed
<1>2. TypeOK /\ Renewed /\ [Next]_vars => (TypeOK /\ Renewed)' BY NextType, NextRenewed
<1> QED BY <1>1, <1>2, PTL DEF Spec

IInv == TypeOK /\ Renewed /\ WorldInv /\ KeptInv /\ OrderInv

(* Whenever all messages are handled the adapter keeps up exactly what the   *)
(* modem asks for, and mEsStatusCb knows an emergency, in the worlds that    *)
(* ModemAgrees and StatusTold name (requestOdcpi, restartSessions).          *)
THEOREM RequestsAgree == Spec => []AdapterAgrees
<1>1. Init => IInv BY InitType, InitRenewed, InitWorld, InitKept, InitOrder DEF IInv
<1>2. IInv /\ [Next]_vars => IInv'
  BY NextType, NextRenewed, NextWorld, NextKept, NextOrder DEF IInv
<1>3. IInv => AdapterAgrees BY KeptAgrees, StatusKept DEF IInv, AdapterAgrees
<1> QED BY <1>1, <1>2, <1>3, PTL DEF Spec
=============================================================================
