-------------------------- MODULE LocTimersProofs --------------------------
(* The agreement of timers and delegates, that the timers implement          *)
(* AlarmService, that the tree of delegates stays in order, and that no      *)
(* timer expires before its time or stays armed past it, for every number    *)
(* of clients and starts.                                                    *)
EXTENDS LocTimers, SequenceTheorems, WellFoundedInduction, TLAPS

(* What a step may rely on: TypeOK, and that only a client is called back,   *)
(* which, if it is a delayed message, is still there and does not run.       *)
IInv ==
    /\ TypeOK
    /\ task = "call" =>
          /\ client \in Clients
          /\ client \in Posts => client \in alive /\ mTimer[client] = 0

(* The steps that leave timers and delegates alone and call nobody.          *)
Aside ==
    /\ UNCHANGED <<mTimer, delegates, alive>>
    /\ now' \in Int
    /\ poll' \in {"wait", "disarm", "unpoll", "send"}
    /\ \/ task' = task /\ client' = client
       \/ task' \in {"rest", "addPoll", "setTime", "expire", "stop", "next"}

LEMMA AsideKeeps == IInv /\ Aside => IInv'
BY DEF IInv, TypeOK, Aside

(* A new delegate belongs to the timer that made it.                         *)
LEMMA NewDelegateKeeps ==
    ASSUME IInv, NEW t \in Clients, mTimer[t] = 0, NEW due \in Int,
           t \notin Posts \/ t \notin alive,
           mTimer' = [mTimer EXCEPT ![t] = Len(delegates) + 1],
           delegates' = Append(delegates, [client |-> t, due |-> due]),
           alive' = alive \cup {t}, UNCHANGED <<now, poll, task, client>>
    PROVE  IInv'
<1> USE DEF IInv, TypeOK
<1> DEFINE n == Len(delegates) + 1
<1>1. /\ n \in Nat /\ n # 0 /\ Len(delegates') = n
      /\ delegates' \in Seq([client : Clients \cup {None}, due : Int])
      /\ DOMAIN delegates = 1..Len(delegates) /\ DOMAIN delegates' = 1..n
      /\ delegates'[n].client = t
      /\ \A d \in DOMAIN delegates : delegates'[d] = delegates[d]
  OBVIOUS
<1>2. mTimer' \in [Clients -> 0..n] /\ mTimer'[t] = n BY <1>1
<1>3. \A u \in Clients : u # t => mTimer'[u] = mTimer[u]  OBVIOUS
<1>4. \A u \in Clients :
         mTimer'[u] # 0 => u \in alive' /\ delegates'[mTimer'[u]].client = u
  <2> SUFFICES ASSUME NEW u \in Clients, mTimer'[u] # 0
               PROVE  u \in alive' /\ delegates'[mTimer'[u]].client = u
    OBVIOUS
  <2>1. CASE u = t BY <1>1, <1>2, <2>1
  <2>2. CASE u # t
    <3>1. mTimer'[u] = mTimer[u] /\ mTimer[u] \in 1..Len(delegates) BY <1>3, <2>2
    <3> QED BY <3>1, <1>1
  <2> QED BY <2>1, <2>2
<1>5. \A d \in DOMAIN delegates' :
         delegates'[d].client # None => mTimer'[delegates'[d].client] = d
  <2> SUFFICES ASSUME NEW d \in DOMAIN delegates', delegates'[d].client # None
               PROVE  mTimer'[delegates'[d].client] = d
    OBVIOUS
  <2>1. CASE d = n BY <1>1, <1>2, <2>1
  <2>2. CASE d # n
    <3>1. d \in DOMAIN delegates /\ delegates'[d] = delegates[d] BY <1>1, <2>2
    <3>2. mTimer[delegates[d].client] = d /\ d # 0 /\ delegates[d].client \in Clients
      <4>1. delegates[d].client # None BY <3>1, <2>2
      <4>2. mTimer[delegates[d].client] = d BY <3>1, <4>1
      <4>3. delegates[d] \in [client : Clients \cup {None}, due : Int]
        BY <3>1, <1>1, ElementOfSeq
      <4>4. d # 0 BY <3>1, <1>1
      <4> QED BY <4>1, <4>2, <4>3, <4>4
    <3>3. delegates[d].client # t BY <3>2
    <3> QED BY <3>1, <3>2, <3>3, <1>3
  <2> QED BY <2>1, <2>2
<1> QED BY <1>1, <1>2, <1>4, <1>5

(* A timer that lets go of its delegate takes the client from it.            *)
LEMMA UnlinkKeeps ==
    ASSUME IInv, NEW t \in Clients, mTimer[t] # 0, Unlink(t)
    PROVE  /\ delegates' \in Seq([client : Clients \cup {None}, due : Int])
           /\ mTimer' \in [Clients -> 0..Len(delegates')]
           /\ \A u \in Clients : mTimer'[u] # 0 =>
                 u \in alive \ {t} /\ delegates'[mTimer'[u]].client = u
           /\ \A d \in DOMAIN delegates' :
                 delegates'[d].client # None => mTimer'[delegates'[d].client] = d
<1> USE DEF IInv, TypeOK, Unlink
<1> DEFINE n == mTimer[t]
<1>1. /\ n \in 1..Len(delegates) /\ n \in DOMAIN delegates
      /\ delegates[n] \in [client : Clients \cup {None}, due : Int]
      /\ DOMAIN delegates = 1..Len(delegates)
  <2>1. n \in 1..Len(delegates) /\ DOMAIN delegates = 1..Len(delegates)  OBVIOUS
  <2> QED BY <2>1, ElementOfSeq
<1>2. /\ delegates' = [delegates EXCEPT ![n] = [delegates[n] EXCEPT !.client = None]]
      /\ mTimer' = [mTimer EXCEPT ![t] = 0]
  OBVIOUS
<1>3. /\ delegates' \in Seq([client : Clients \cup {None}, due : Int])
      /\ Len(delegates') = Len(delegates) /\ DOMAIN delegates' = DOMAIN delegates
      /\ delegates'[n].client = None
      /\ \A d \in DOMAIN delegates : d # n => delegates'[d] = delegates[d]
  BY <1>1, <1>2
<1>4. mTimer' \in [Clients -> 0..Len(delegates')] /\ mTimer'[t] = 0 BY <1>2, <1>3
<1>5. \A u \in Clients : mTimer'[u] # 0 =>
         u \in alive \ {t} /\ delegates'[mTimer'[u]].client = u
  <2> SUFFICES ASSUME NEW u \in Clients, mTimer'[u] # 0
               PROVE  u \in alive \ {t} /\ delegates'[mTimer'[u]].client = u
    OBVIOUS
  <2>1. u # t /\ mTimer'[u] = mTimer[u] /\ mTimer[u] \in DOMAIN delegates BY <1>1, <1>2, <1>4
  <2>2. u \in alive /\ delegates[mTimer[u]].client = u /\ delegates[n].client = t BY <2>1
  <2>3. mTimer[u] # n BY <2>1, <2>2
  <2> QED BY <2>1, <2>2, <2>3, <1>3
<1>6. \A d \in DOMAIN delegates' :
         delegates'[d].client # None => mTimer'[delegates'[d].client] = d
  <2> SUFFICES ASSUME NEW d \in DOMAIN delegates', delegates'[d].client # None
               PROVE  mTimer'[delegates'[d].client] = d
    OBVIOUS
  <2>1. d # n /\ d \in DOMAIN delegates /\ delegates'[d] = delegates[d] BY <1>3
  <2>2. delegates[d] \in [client : Clients \cup {None}, due : Int] BY <2>1, <1>1, ElementOfSeq
  <2>3. mTimer[delegates[d].client] = d /\ delegates[d].client \in Clients BY <2>1, <2>2
  <2>4. delegates[d].client # t BY <2>1, <2>3
  <2> QED BY <2>1, <2>3, <2>4, <1>2
<1> QED BY <1>3, <1>4, <1>5, <1>6

(* It does nothing to another timer.                                         *)
LEMMA OtherUnlinked ==
    ASSUME IInv, NEW t \in Clients, Unlink(t), NEW u \in Clients, u # t
    PROVE  mTimer'[u] = mTimer[u]
BY DEF Unlink, IInv, TypeOK

LEMMA InitHolds == Init => IInv
BY DEF Init, IInv, TypeOK

LEMMA NextKeeps == IInv /\ [Next]_vars => IInv'
<1> SUFFICES ASSUME IInv, [Next]_vars PROVE IInv'
  OBVIOUS
<1>1. ASSUME NEW t \in Clients, NEW delay \in Delays, start(t, delay) \/ (t \in Posts /\ sendMsg(t, delay))
      PROVE  IInv'
  <2>1. now + delay \in Int BY TimersAssumption DEF IInv, TypeOK
  <2>2. /\ mTimer' = [mTimer EXCEPT ![t] = Len(delegates) + 1]
        /\ delegates' = Append(delegates, [client |-> t, due |-> now + delay])
        /\ UNCHANGED <<now, poll, task, client>>
    BY <1>1 DEF start, sendMsg
  <2>3. CASE start(t, delay)
    <3>1. mTimer[t] = 0 /\ t \notin Posts /\ alive' = alive \cup {t} BY <2>3 DEF start
    <3> QED BY <2>1, <2>2, <3>1, NewDelegateKeeps
  <2>4. CASE sendMsg(t, delay)
    <3>1. mTimer[t] = 0 /\ t \notin alive /\ alive' = alive \cup {t}
      BY <2>4 DEF sendMsg, IInv, TypeOK
    <3> QED BY <2>1, <2>2, <3>1, NewDelegateKeeps
  <2> QED BY <1>1, <2>3, <2>4
<1>2. ASSUME NEW t \in Clients, stop(t) PROVE IInv'
  <2>1. /\ mTimer[t] # 0 /\ t \notin Posts /\ Unlink(t)
        /\ UNCHANGED <<now, alive, poll, task, client>>
    BY <1>2 DEF stop
  <2> QED BY <2>1, UnlinkKeeps, OtherUnlinked DEF IInv, TypeOK
<1>3. ASSUME NEW t \in Clients, delete(t) PROVE IInv'
  <2>0. t \notin Posts /\ alive' = alive \ {t} /\ UNCHANGED <<now, poll, task, client>>
    BY <1>3 DEF delete
  <2>1. CASE mTimer[t] # 0
    <3>1. Unlink(t) BY <1>3, <2>1 DEF delete
    <3> QED BY <3>1, <2>0, <2>1, UnlinkKeeps, OtherUnlinked DEF IInv, TypeOK
  <2>2. CASE mTimer[t] = 0
    <3>1. UNCHANGED <<mTimer, delegates>> BY <1>3, <2>2 DEF delete
    <3> QED BY <3>1, <2>0, <2>2 DEF IInv, TypeOK
  <2> QED BY <2>1, <2>2
<1>4. CASE StopClient
  <2> DEFINE t == client
  <2>1. t \in Clients /\ t \in alive /\ task = "stop" /\ UNCHANGED <<now, alive, poll>>
    BY <1>4 DEF StopClient, IInv, TypeOK
  <2>2. CASE mTimer[t] # 0
    <3>1. Unlink(t) /\ task' = "call" /\ client' = client BY <1>4, <2>2 DEF StopClient
    <3>2. mTimer'[t] = 0 BY <3>1, <2>1 DEF Unlink, IInv, TypeOK
    <3>3. client' = t /\ task' = "call" BY <3>1, <2>1
    <3> QED BY <3>1, <3>2, <3>3, <2>1, <2>2, UnlinkKeeps DEF IInv, TypeOK
  <2>3. CASE mTimer[t] = 0
    <3>1. Aside BY <1>4, <2>1, <2>3 DEF StopClient, Aside, IInv, TypeOK
    <3> QED BY <3>1, AsideKeeps
  <2> QED BY <2>2, <2>3
<1>5. CASE PollWakes \/ PollDisarms \/ PollRemoves \/ PollSends \/ Tick
  <2>1. Aside
    BY <1>5 DEF PollWakes, PollDisarms, PollRemoves, PollSends, Tick, Aside, IInv, TypeOK
  <2> QED BY <2>1, AsideKeeps
<1>6. CASE MsgTimerPush \/ MsgTimerRemove \/ MsgTimerExpire \/ PopNext
  <2>1. Aside
    BY <1>6 DEF MsgTimerPush, MsgTimerRemove, MsgTimerExpire, PopNext, Take, Update, Aside,
      IInv, TypeOK
  <2> QED BY <2>1, AsideKeeps
<1>7. CASE ReadClient \/ CallOfTheDead \/ addPoll \/ SetTime
  <2>1. Aside BY <1>7 DEF ReadClient, CallOfTheDead, addPoll, SetTime, Aside, IInv, TypeOK
  <2> QED BY <2>1, AsideKeeps
<1>9. CASE timeOutCallback
  <2>1. /\ task = "call" /\ alive' = alive \ (Posts \cap {client})
        /\ UNCHANGED <<now, mTimer, delegates, poll>> /\ task' = "next"
    BY <1>9 DEF timeOutCallback, IInv, TypeOK
  <2> QED BY <2>1 DEF IInv, TypeOK
<1>8. CASE UNCHANGED vars BY <1>8 DEF vars, IInv, TypeOK
<1> QED
  <2>1. \A t \in Posts : t \in Clients BY TimersAssumption
  <2> QED BY <1>1, <1>2, <1>3, <1>4, <1>5, <1>6, <1>7, <1>8, <1>9, <2>1 DEF Next

LEMMA Invariance == Spec => []IInv
<1>1. Init => IInv BY InitHolds
<1>2. IInv /\ [Next]_vars => IInv' BY NextKeeps
<1> QED BY <1>1, <1>2, PTL DEF Spec

(* Timers and delegates agree at all times (LocTimer::start, stop and        *)
(* LocTimerDelegate::expire).                                                *)
THEOREM TimersAgree == Spec => []TypeOK
<1>1. IInv => TypeOK BY DEF IInv
<1> QED BY <1>1, Invariance, PTL

-----------------------------------------------------------------------------
(* The refinement: which step of the threads is which step of AlarmService   *)

LEMMA InitMaps == Init => Alarm!Init
BY DEF Init, Alarm!Init

LEMMA UnlinkMaps ==
    ASSUME IInv, NEW t \in Clients, mTimer[t] # 0, Unlink(t)
    PROVE  {u \in Clients : mTimer'[u] # 0} = {u \in Clients : mTimer[u] # 0} \ {t}
BY DEF Unlink, IInv, TypeOK

LEMMA StartMaps ==
    ASSUME IInv, NEW t \in Clients, mTimer' = [mTimer EXCEPT ![t] = Len(delegates) + 1]
    PROVE  {u \in Clients : mTimer'[u] # 0} = {u \in Clients : mTimer[u] # 0} \cup {t}
<1>1. Len(delegates) + 1 # 0 BY DEF IInv, TypeOK
<1> QED BY <1>1 DEF IInv, TypeOK

LEMMA StepMaps == IInv /\ [Next]_vars => [Alarm!Next]_(Alarm!vars)
<1> SUFFICES ASSUME IInv, [Next]_vars PROVE [Alarm!Next]_(Alarm!vars)
  OBVIOUS
<1> DEFINE running == {u \in Clients : mTimer[u] # 0}
           called == IF task = "call" THEN client ELSE None
<1>1. ASSUME NEW t \in Clients, NEW delay \in Delays, start(t, delay) \/ sendMsg(t, delay)
      PROVE  Alarm!Start(t)
  <2>1. mTimer[t] = 0 BY <1>1 DEF start, sendMsg, IInv, TypeOK
  <2>2. mTimer' = [mTimer EXCEPT ![t] = Len(delegates) + 1] /\ called' = called
    BY <1>1 DEF start, sendMsg
  <2> QED BY <2>1, <2>2, StartMaps DEF Alarm!Start
<1>2. ASSUME NEW t \in Clients, stop(t) \/ delete(t)
      PROVE  Alarm!Stop(t) \/ UNCHANGED Alarm!vars
  <2>1. called' = called BY <1>2 DEF stop, delete
  <2>2. CASE mTimer[t] # 0
    <3>1. Unlink(t) BY <1>2, <2>2 DEF stop, delete
    <3> QED BY <2>1, <2>2, <3>1, UnlinkMaps DEF Alarm!Stop
  <2>3. CASE mTimer[t] = 0 BY <1>2, <2>1, <2>3 DEF stop, delete, Alarm!vars
  <2> QED BY <2>2, <2>3
<1>3. ASSUME StopClient
      PROVE  (\E t \in Clients : Alarm!Expire(t)) \/ UNCHANGED Alarm!vars
  <2>1. client \in Clients /\ task = "stop" /\ called = None
    BY <1>3 DEF StopClient, IInv, TypeOK
  <2>2. CASE mTimer[client] # 0
    <3>1. Unlink(client) /\ called' = client BY <1>3, <2>2 DEF StopClient
    <3>2. Alarm!Expire(client) BY <2>1, <2>2, <3>1, UnlinkMaps DEF Alarm!Expire
    <3> QED BY <2>1, <3>2 DEF Alarm!Expire
  <2>3. CASE mTimer[client] = 0 BY <1>3, <2>1, <2>3 DEF StopClient, Alarm!vars
  <2> QED BY <2>2, <2>3
<1>4. ASSUME timeOutCallback \/ CallOfTheDead
      PROVE  Alarm!CallBack \/ UNCHANGED Alarm!vars
  <2>1. mTimer' = mTimer /\ called' = None BY <1>4 DEF timeOutCallback, CallOfTheDead
  <2>2. CASE task = "call"
    <3>1. called # None BY <2>2, TimersAssumption DEF IInv
    <3> QED BY <2>1, <3>1 DEF Alarm!CallBack
  <2>3. CASE task # "call" BY <2>1, <2>3 DEF Alarm!vars
  <2> QED BY <2>2, <2>3
<1>5. ASSUME PollWakes \/ PollDisarms \/ PollRemoves \/ PollSends \/ Tick
      PROVE  UNCHANGED Alarm!vars
  BY <1>5 DEF PollWakes, PollDisarms, PollRemoves, PollSends, Tick, Alarm!vars
<1>6. ASSUME MsgTimerPush \/ MsgTimerRemove \/ MsgTimerExpire \/ PopNext
      PROVE  UNCHANGED Alarm!vars
  BY <1>6 DEF MsgTimerPush, MsgTimerRemove, MsgTimerExpire, PopNext, Take, Update, Alarm!vars
<1>7. ASSUME ReadClient \/ addPoll \/ SetTime
      PROVE  UNCHANGED Alarm!vars
  BY <1>7 DEF ReadClient, addPoll, SetTime, Alarm!vars
<1>8. ASSUME UNCHANGED vars PROVE UNCHANGED Alarm!vars BY <1>8 DEF vars, Alarm!vars
<1> QED
  <2>1. \A t \in Posts : t \in Clients BY TimersAssumption
  <2> QED BY <1>1, <1>2, <1>3, <1>4, <1>5, <1>6, <1>7, <1>8, <2>1 DEF Next, Alarm!Next

(* Every timer that was started is stopped or expires, never both, and each  *)
(* expiry is one callback: the safety part of ServesAlarms (LocTimer.h).     *)
THEOREM TimersImplementAlarms == Spec => Alarm!Init /\ [][Alarm!Next]_(Alarm!vars)
<1>1. Init => Alarm!Init BY InitMaps
<1>2. IInv /\ [Next]_vars => [Alarm!Next]_(Alarm!vars) BY StepMaps
<1> QED BY <1>1, <1>2, Invariance, PTL DEF Spec
-----------------------------------------------------------------------------
(* The tree of LocHeap: numbers, and recursion from a place to those below   *)

LEMMA LeastNumber ==
    ASSUME NEW S, S \subseteq Nat, S # {}
    PROVE  \E n \in S : \A m \in S : n <= m
<1> DEFINE R == OpToRel(<, Nat)
<1>1. IsWellFoundedOn(R, Nat) BY NatLessThanWellFounded
<1> HIDE DEF R
<1>2. \E n \in S : \A m \in S : ~(<<m, n>> \in R) BY <1>1, WFMin
<1>3. PICK n \in S : \A m \in S : ~(<<m, n>> \in R) BY <1>2
<1>4. ASSUME NEW m \in S PROVE n <= m
  <2>1. ~(m < n) BY <1>3 DEF R, OpToRel
  <2> QED BY <2>1
<1> QED BY <1>4

LEMMA GreatestNumber ==
    ASSUME NEW S, NEW b \in Nat, S \subseteq 1..b, S # {}
    PROVE  \E n \in S : \A m \in S : m <= n
<1> DEFINE T == {b - n : n \in S}
<1>1. \A n \in S : n \in Nat /\ b - n \in Nat  OBVIOUS
<1>2. T \subseteq Nat /\ T # {} BY <1>1
<1> HIDE DEF T
<1>3. PICK x \in T : \A y \in T : x <= y BY <1>2, LeastNumber
<1>4. PICK n \in S : x = b - n BY DEF T
<1>5. ASSUME NEW m \in S PROVE m <= n
  <2>1. b - n <= b - m BY <1>3, <1>4 DEF T
  <2> QED BY <1>1, <2>1
<1> QED BY <1>5

LEMMA UpIs ==
    /\ \A i \in Nat \ {0, 1} : Up(i) \in Nat \ {0} /\ Up(i) < i /\ (i = 2 * Up(i) \/ i = 2 * Up(i) + 1)
    /\ \A i \in Nat : Up(2 * i) = i /\ Up(2 * i + 1) = i
    /\ \A i, j \in Nat : i <= j => Up(i) <= Up(j)
BY DEF Up

(* A value for each place, from that of the place above it                   *)
Tree(P, b) == b \in Nat /\ P \subseteq 1..b /\ \A i \in P : i # 1 => Up(i) \in P
FromAbove(f, P, a, step) == \A i \in P : f[i] = IF i = 1 THEN a ELSE step[i][f[Up(i)]]

LEMMA TreeRecursion ==
    ASSUME NEW b, NEW P, Tree(P, b), NEW V, NEW a \in V, NEW step \in [P -> [V -> V]]
    PROVE  \E f \in [P -> V] : FromAbove(f, P, a, step)
<1>6. b \in Nat /\ P \subseteq 1..b /\ \A i \in P : i # 1 => Up(i) \in P BY DEF Tree
<1> DEFINE Q(n) == {i \in P : i <= n}
           Good(f, n) == /\ f \in [Q(n) -> V]
                         /\ \A i \in Q(n) : f[i] = IF i = 1 THEN a ELSE step[i][f[Up(i)]]
           Bad == {n \in Nat : ~\E f : Good(f, n)}
<1>0. \A i \in P : i \in Nat /\ i >= 1 /\ i <= b BY <1>6
<1>7. \A n \in Nat : Q(n) \subseteq P /\ (\A i \in Q(n) : i <= n)  OBVIOUS
<1>8. \A n \in Nat : \A i \in P : i <= n => i \in Q(n)  OBVIOUS
<1>9. Q(0) = {} /\ Q(b) = P
  <2>1. \A i \in P : ~(i <= 0) /\ i <= b BY <1>0, <1>6
  <2> QED BY <2>1
<1> HIDE DEF Q
<1>1. Bad = {}
  <2> SUFFICES ASSUME Bad # {} PROVE FALSE
    OBVIOUS
  <2>1. Bad \subseteq Nat  OBVIOUS
  <2> HIDE DEF Bad
  <2>2. PICK n \in Bad : \A m \in Bad : n <= m BY <2>1, LeastNumber
  <2>3. n \in Nat /\ ~\E f : Good(f, n) BY DEF Bad
  <2>4. n # 0
    <3>1. SUFFICES ASSUME n = 0 PROVE FALSE
      OBVIOUS
    <3>3. Good([i \in {} |-> a], 0) BY <1>9
    <3> QED BY <2>3, <3>1, <3>3
  <2> HIDE DEF Good
  <2>5. n - 1 \in Nat /\ n - 1 \notin Bad BY <2>2, <2>3, <2>4
  <2> USE DEF Good
  <2>6. PICK f : Good(f, n - 1) BY <2>5 DEF Bad
  <2> DEFINE new == IF n = 1 THEN a ELSE step[n][f[Up(n)]]
             g == [i \in Q(n) |-> IF i = n THEN new ELSE f[i]]
  <2>7. \A i \in Q(n) : i = n \/ i \in Q(n - 1)
    <3> SUFFICES ASSUME NEW i \in Q(n), i # n PROVE i \in Q(n - 1)
      OBVIOUS
    <3>1. i \in P /\ i \in Nat /\ i <= n BY <1>0, <1>7, <2>3
    <3>2. i <= n - 1 BY <2>3, <3>1
    <3> QED BY <1>8, <2>5, <3>1, <3>2
  <2>8. \A i \in Q(n) : i # 1 => Up(i) \in Q(n - 1) /\ Up(i) \in Q(n) /\ Up(i) # n
    <3> SUFFICES ASSUME NEW i \in Q(n), i # 1
                 PROVE  Up(i) \in Q(n - 1) /\ Up(i) \in Q(n) /\ Up(i) # n
      OBVIOUS
    <3>0. i \in P /\ i <= n BY <1>7, <2>3
    <3>1. i \in Nat \ {0, 1} /\ i <= n /\ Up(i) \in P BY <1>0, <1>6, <3>0
    <3>2. Up(i) < i /\ Up(i) \in Nat BY <3>1, UpIs
    <3>3. Up(i) <= n - 1 /\ Up(i) <= n BY <2>3, <3>1, <3>2
    <3>4. Up(i) \in Q(n - 1) /\ Up(i) \in Q(n) BY <1>8, <2>3, <2>5, <3>1, <3>3
    <3> QED BY <2>3, <3>2, <3>3, <3>4
  <2>9. n \in Q(n) => new \in V
    <3>1. CASE n = 1 BY <3>1
    <3>2. CASE n # 1 /\ n \in Q(n)
      <4>1. f[Up(n)] \in V /\ n \in P BY <1>7, <2>3, <2>6, <2>8, <3>2
      <4> QED BY <3>2, <4>1
    <3> QED BY <3>1, <3>2
  <2>10. g \in [Q(n) -> V]
    <3>1. \A i \in Q(n - 1) : f[i] \in V BY <2>6
    <3> HIDE DEF new
    <3> QED BY <2>7, <2>9, <3>1
  <2>11. \A i \in Q(n) : g[i] = IF i = 1 THEN a ELSE step[i][g[Up(i)]]
    <3> SUFFICES ASSUME NEW i \in Q(n) PROVE g[i] = IF i = 1 THEN a ELSE step[i][g[Up(i)]]
      OBVIOUS
    <3>1. i # 1 => g[Up(i)] = f[Up(i)] BY <2>8
    <3>2. i # n => g[i] = f[i] /\ f[i] = IF i = 1 THEN a ELSE step[i][f[Up(i)]] BY <2>6, <2>7
    <3>3. i = n => g[i] = IF i = 1 THEN a ELSE step[i][f[Up(i)]]  OBVIOUS
    <3> HIDE DEF g
    <3> QED BY <3>1, <3>2, <3>3
  <2>12. Good(g, n) BY <2>10, <2>11
  <2> QED BY <2>3, <2>12
<1>2. PICK f : Good(f, b) BY <1>1, <1>6
<1> QED BY <1>2, <1>9 DEF FromAbove

(* Which places are marked: those of A, and below a marked place those of B  *)
Marks(f, P, A, B) == f = [i \in P |-> i \in A \/ (i \in B /\ f[Up(i)])]

LEMMA TreeMarks ==
    ASSUME NEW b, NEW P, Tree(P, b), NEW A, NEW B, 1 \notin B
    PROVE  \E f : Marks(f, P, A, B)
<1> DEFINE step == [i \in P |-> [v \in BOOLEAN |-> i \in A \/ (i \in B /\ v)]]
<1>1. step \in [P -> [BOOLEAN -> BOOLEAN]]  OBVIOUS
<1> DEFINE top == 1 \in A
<1>2. top \in BOOLEAN  OBVIOUS
<1>3. \A i \in P, v \in BOOLEAN : step[i][v] = (i \in A \/ (i \in B /\ v))  OBVIOUS
<1> HIDE DEF step, top
<1> DEFINE V == BOOLEAN
<1>8. top \in V /\ step \in [P -> [V -> V]] BY <1>1, <1>2
<1> HIDE DEF V
<1>9. \E f \in [P -> V] : FromAbove(f, P, top, step) BY <1>8, TreeRecursion
<1>4. PICK f \in [P -> BOOLEAN] :
         \A i \in P : f[i] = IF i = 1 THEN top ELSE step[i][f[Up(i)]]
  BY <1>9 DEF V, FromAbove
<1>5. ASSUME NEW i \in P PROVE f[i] = (i \in A \/ (i \in B /\ f[Up(i)]))
  <2>1. CASE i = 1 BY <1>4, <2>1 DEF top
  <2>2. CASE i # 1
    <3>1. Up(i) \in P /\ f[Up(i)] \in BOOLEAN BY <1>4, <2>2 DEF Tree
    <3>2. f[i] = step[i][f[Up(i)]] BY <1>4, <2>2
    <3> QED BY <1>3, <3>1, <3>2
  <2> QED BY <2>1, <2>2
<1>6. f = [i \in P |-> f[i]] BY <1>4
<1>7. f = [i \in P |-> i \in A \/ (i \in B /\ f[Up(i)])] BY <1>5, <1>6, Zenon
<1> QED BY <1>7 DEF Marks

(* A heap: a finite tree whose nodes have the names of delegates, each once  *)
Ranks == [id : Nat, due : Int]
IsHeap(h) ==
    /\ h \in [DOMAIN h -> Ranks]
    /\ \E n \in Nat : DOMAIN h \subseteq 1..n
    /\ checkNodes(h)
    /\ \A i, j \in DOMAIN h : h[i].id = h[j].id => i = j

LEMMA HeapIs ==
    ASSUME NEW h, IsHeap(h)
    PROVE  /\ \A i \in DOMAIN h : i \in Nat \ {0} /\ h[i] \in Ranks /\ h[i].id \in Nat /\ h[i].due \in Int
           /\ \A i \in DOMAIN h : i # 1 =>
                 /\ i \in Nat \ {0, 1} /\ Up(i) \in DOMAIN h /\ Up(i) < i
                 /\ i = 2 * Up(i) \/ i = 2 * Up(i) + 1
                 /\ h[Up(i)].due <= h[i].due
           /\ \A i, j \in DOMAIN h : h[i].id = h[j].id => i = j
<1>1. PICK n \in Nat : DOMAIN h \subseteq 1..n BY DEF IsHeap
<1>2. \A i \in DOMAIN h : i \in Nat \ {0} BY <1>1
<1>3. \A i \in DOMAIN h : h[i] \in Ranks BY DEF IsHeap
<1>4. \A i \in DOMAIN h : h[i].id \in Nat /\ h[i].due \in Int BY <1>3 DEF Ranks
<1>5. \A i \in DOMAIN h : i # 1 => i \in Nat \ {0, 1} /\ Up(i) \in DOMAIN h /\ ~(h[i].due < h[Up(i)].due)
  BY <1>2 DEF IsHeap, checkNodes, outRanks
<1>6. \A i \in DOMAIN h : i # 1 => Up(i) < i /\ (i = 2 * Up(i) \/ i = 2 * Up(i) + 1)
  BY <1>5, UpIs
<1>7. \A i \in DOMAIN h : i # 1 => h[Up(i)].due <= h[i].due BY <1>4, <1>5
<1> QED BY <1>2, <1>3, <1>4, <1>5, <1>6, <1>7 DEF IsHeap

LEMMA PlacesFit ==
    ASSUME NEW h, IsHeap(h)
    PROVE  /\ \E b : Tree(Places(h), b)
           /\ DOMAIN h \subseteq Places(h) /\ 1 \in Places(h)
           /\ \A i \in Places(h) : i \in Nat \ {0}
           /\ \A i \in Places(h) : i # 1 => Up(i) \in DOMAIN h
           /\ \A i \in DOMAIN h : 2 * i \in Places(h) /\ 2 * i + 1 \in Places(h)
<1>1. PICK n \in Nat : DOMAIN h \subseteq 1..n BY DEF IsHeap
<1>2. \A i \in DOMAIN h : i \in Nat \ {0} /\ i <= n BY <1>1
<1>3. \A i \in DOMAIN h : i # 1 => Up(i) \in DOMAIN h BY HeapIs
<1>4. ASSUME NEW i \in Places(h)
      PROVE  i \in 1..(2 * n + 1) /\ i \in Nat \ {0} /\ (i # 1 => Up(i) \in DOMAIN h)
  <2>1. CASE i = 1 BY <2>1
  <2>2. CASE i \in DOMAIN h BY <1>2, <1>3, <2>2
  <2>3. CASE \E j \in DOMAIN h : i = 2 * j \/ i = 2 * j + 1
    <3>1. PICK j \in DOMAIN h : i = 2 * j \/ i = 2 * j + 1 BY <2>3
    <3>2. j \in Nat \ {0} /\ j <= n BY <1>2
    <3>3. Up(i) = j BY <3>1, <3>2, UpIs
    <3> QED BY <3>1, <3>2, <3>3
  <2> QED BY <2>1, <2>2, <2>3 DEF Places
<1>5. DOMAIN h \subseteq Places(h) /\ 1 \in Places(h) BY DEF Places
<1>6. \A i \in DOMAIN h : 2 * i \in Places(h) /\ 2 * i + 1 \in Places(h) BY DEF Places
<1>7. 2 * n + 1 \in Nat  OBVIOUS
<1>8. Tree(Places(h), 2 * n + 1) BY <1>4, <1>5, <1>7 DEF Tree
<1> QED BY <1>4, <1>5, <1>6, <1>8

LEMMA TopIs == \A h : IsHeap(h) => ((1 \in DOMAIN h) <=> (h # NoHeap))
<1> SUFFICES ASSUME NEW h, IsHeap(h) PROVE (1 \in DOMAIN h) <=> (h # NoHeap)
  OBVIOUS
<1>1. \A i \in DOMAIN h : i \in Nat /\ (i # 1 => Up(i) \in DOMAIN h /\ Up(i) < i) BY HeapIs
<1>2. DOMAIN NoHeap = {} BY DEF NoHeap
<1>3. ASSUME h # NoHeap PROVE 1 \in DOMAIN h
  <2>1. DOMAIN h # {}
    <3>1. h = [i \in DOMAIN h |-> h[i]] BY DEF IsHeap
    <3> QED BY <1>3, <3>1 DEF NoHeap
  <2>2. PICK i \in DOMAIN h : \A j \in DOMAIN h : i <= j BY <1>1, <2>1, LeastNumber
  <2>3. i = 1
    <3>1. ASSUME i # 1 PROVE FALSE
      <4>1. Up(i) \in DOMAIN h /\ Up(i) < i /\ i <= Up(i) /\ i \in Nat /\ Up(i) \in Nat
        BY <1>1, <2>2, <3>1
      <4> QED BY <4>1
    <3> QED BY <3>1
  <2> QED BY <2>2, <2>3
<1> QED BY <1>2, <1>3

(* The children that Smaller and Heir choose                                 *)
LEMMA ChildrenAre ==
    ASSUME NEW h, IsHeap(h), NEW i \in DOMAIN h
    PROVE  /\ Smaller(h, i) \in Places(h) \ {1} /\ Up(Smaller(h, i)) = i /\ Smaller(h, i) > i
           /\ Heir(h, i) \in Places(h) \ {1} /\ Up(Heir(h, i)) = i /\ Heir(h, i) > i
           /\ \A j \in DOMAIN h : j # 1 /\ Up(j) = i =>
                 Heir(h, i) \in DOMAIN h /\ h[Heir(h, i)].due <= h[j].due
<1>1. i \in Nat \ {0} BY HeapIs
<1>2. 2 * i \in Places(h) /\ 2 * i + 1 \in Places(h) BY PlacesFit
<1>3. Up(2 * i) = i /\ Up(2 * i + 1) = i BY <1>1, UpIs
<1>4. \A k : k = 2 * i \/ k = 2 * i + 1 => k \in Places(h) \ {1} /\ Up(k) = i /\ k > i
  BY <1>1, <1>2, <1>3
<1>5. Smaller(h, i) = 2 * i \/ Smaller(h, i) = 2 * i + 1 BY DEF Smaller
<1>6. Heir(h, i) = 2 * i \/ Heir(h, i) = 2 * i + 1 BY DEF Heir
<1>7. ASSUME NEW j \in DOMAIN h, j # 1, Up(j) = i
      PROVE  Heir(h, i) \in DOMAIN h /\ h[Heir(h, i)].due <= h[j].due
  <2>1. j = 2 * i \/ j = 2 * i + 1 BY <1>7, HeapIs
  <2>2. \A k \in DOMAIN h : h[k].due \in Int BY HeapIs
  <2> DEFINE l == 2 * i
             r == 2 * i + 1
  <2>3. Heir(h, i) = IF l \notin DOMAIN h THEN r
                     ELSE IF r \notin DOMAIN h THEN l
                     ELSE IF h[l].due < h[r].due THEN l ELSE r
    BY DEF Heir, outRanks
  <2>4. j = l \/ j = r BY <2>1
  <2> HIDE DEF l, r
  <2>5. Heir(h, i) \in DOMAIN h BY <2>3, <2>4
  <2>6. h[Heir(h, i)].due <= h[j].due BY <2>2, <2>3, <2>4
  <2> QED BY <2>5, <2>6
<1> QED BY <1>4, <1>5, <1>6, <1>7

(* What the recursive operators of LocHeap are                               *)
LEMMA WayIs ==
    ASSUME NEW h, IsHeap(h)
    PROVE  /\ Way(h) \subseteq Places(h) /\ 1 \in Way(h)
           /\ \A i \in Way(h) : i # 1 => Up(i) \in Way(h) /\ i = Smaller(h, Up(i))
           /\ \A i \in Way(h) \cap DOMAIN h : Smaller(h, i) \in Way(h)
<1> DEFINE P == Places(h)
           W == Way(h)
           B == {i \in P : i # 1 /\ i = Smaller(h, Up(i))}
           way == CHOOSE f : f = [i \in P |-> i = 1 \/ (f[Up(i)] /\ i = Smaller(h, Up(i)))]
<1>1. W = {i \in P : way[i]} BY DEF Way
<1>2. PICK b : Tree(P, b) BY PlacesFit
<1>3. PICK g : g = [i \in P |-> i \in {1} \/ (i \in B /\ g[Up(i)])]
  <2>1. 1 \notin B  OBVIOUS
  <2> HIDE DEF P, B
  <2>2. \E g : Marks(g, P, {1}, B) BY <1>2, <2>1, TreeMarks
  <2> QED BY <2>2 DEF Marks
<1>4. g = [i \in P |-> i = 1 \/ (g[Up(i)] /\ i = Smaller(h, Up(i)))]
  <2> HIDE DEF P
  <2>1. \A i \in P : (i \in {1} \/ (i \in B /\ g[Up(i)])) <=> (i = 1 \/ (g[Up(i)] /\ i = Smaller(h, Up(i))))
    OBVIOUS
  <2> HIDE DEF B
  <2>2. [i \in P |-> i \in {1} \/ (i \in B /\ g[Up(i)])]
         = [i \in P |-> i = 1 \/ (g[Up(i)] /\ i = Smaller(h, Up(i)))]
    BY <2>1, Zenon
  <2> QED BY <1>3, <2>2, Zenon
<1>5. way = [i \in P |-> i = 1 \/ (way[Up(i)] /\ i = Smaller(h, Up(i)))]
  <2> HIDE DEF P
  <2> QED BY <1>4, Zenon
<1> HIDE DEF way, W
<1>6. \A i \in P : i \in W <=> i = 1 \/ (way[Up(i)] /\ i = Smaller(h, Up(i)))
  BY <1>1, <1>5, Zenon
<1>7. \A i \in P : i # 1 => Up(i) \in P BY <1>2 DEF Tree
<1>8. \A i \in P : i \in W <=> i = 1 \/ (i # 1 /\ Up(i) \in W /\ i = Smaller(h, Up(i)))
  <2> HIDE DEF P
  <2>1. \A i \in P : i # 1 => (Up(i) \in W <=> way[Up(i)]) BY <1>1, <1>7, Zenon
  <2> QED BY <1>6, <2>1, Zenon
<1>9. \A i \in W : i \in P BY <1>1
<1>10. 1 \in P BY PlacesFit
<1>11. \A i \in DOMAIN h : Smaller(h, i) \in P \ {1} /\ Up(Smaller(h, i)) = i BY ChildrenAre
<1> HIDE DEF P
<1> QED BY <1>8, <1>9, <1>10, <1>11 DEF W, P

LEMMA SinkingIs ==
    ASSUME NEW h, IsHeap(h), NEW d
    PROVE  /\ Sinking(h, d) \in [Places(h) -> Within(h) \cup {d}]
           /\ Sinking(h, d)[1] = d
           /\ \A i \in Places(h) : i # 1 =>
                 Sinking(h, d)[i] =
                     IF outRanks(Sinking(h, d)[Up(i)], h[Up(i)]) THEN h[Up(i)] ELSE Sinking(h, d)[Up(i)]
<1> DEFINE P == Places(h)
           V == Within(h) \cup {d}
           step == [i \in P |-> [v \in V |->
                       IF Up(i) \in DOMAIN h /\ outRanks(v, h[Up(i)]) THEN h[Up(i)] ELSE v]]
           sinking == CHOOSE f : f = [i \in P |->
                         IF i = 1 THEN d ELSE IF outRanks(f[Up(i)], h[Up(i)]) THEN h[Up(i)] ELSE f[Up(i)]]
<1>1. Sinking(h, d) = sinking BY DEF Sinking
<1>2. PICK b : Tree(P, b) BY PlacesFit
<1>3. \A i \in DOMAIN h : h[i] \in V BY DEF Within
<1>4. d \in V  OBVIOUS
<1>5. \A i \in P : i # 1 => Up(i) \in P /\ Up(i) \in DOMAIN h BY <1>2, PlacesFit DEF Tree
<1>6. 1 \in P BY PlacesFit
<1> HIDE DEF P, V
<1>7. step \in [P -> [V -> V]] BY <1>3
<1>8. \A i \in P, v \in V : i # 1 =>
         step[i][v] = IF outRanks(v, h[Up(i)]) THEN h[Up(i)] ELSE v
  BY <1>5
<1> HIDE DEF step
<1>9. PICK g \in [P -> V] : FromAbove(g, P, d, step) BY <1>2, <1>4, <1>7, TreeRecursion
<1>10. ASSUME NEW i \in P
       PROVE  g[i] = IF i = 1 THEN d ELSE IF outRanks(g[Up(i)], h[Up(i)]) THEN h[Up(i)] ELSE g[Up(i)]
  <2>1. CASE i = 1 BY <1>9, <2>1 DEF FromAbove
  <2>2. CASE i # 1
    <3>1. g[Up(i)] \in V BY <1>5, <1>9, <2>2
    <3>2. g[i] = step[i][g[Up(i)]] BY <1>9, <2>2 DEF FromAbove
    <3> QED BY <1>8, <2>2, <3>1, <3>2
  <2> QED BY <2>1, <2>2
<1>11. g = [i \in P |-> IF i = 1 THEN d ELSE IF outRanks(g[Up(i)], h[Up(i)]) THEN h[Up(i)] ELSE g[Up(i)]]
  BY <1>9, <1>10
<1>12. sinking = [i \in P |-> IF i = 1 THEN d
                   ELSE IF outRanks(sinking[Up(i)], h[Up(i)]) THEN h[Up(i)] ELSE sinking[Up(i)]]
  BY <1>11, Zenon
<1> HIDE DEF sinking
<1>13. \A i \in P : sinking[i] = IF i = 1 THEN d
          ELSE IF outRanks(sinking[Up(i)], h[Up(i)]) THEN h[Up(i)] ELSE sinking[Up(i)]
  BY <1>12
<1>14. \A i \in P : sinking[i] \in V
  <2> DEFINE Bad == {i \in P : sinking[i] \notin V}
  <2>1. SUFFICES ASSUME Bad # {} PROVE FALSE
    OBVIOUS
  <2>2. \A i \in P : i \in Nat /\ (i # 1 => Up(i) < i)
    <3>1. \A i \in P : i \in Nat \ {0} BY PlacesFit DEF P
    <3> QED BY <3>1, UpIs
  <2>3. Bad \subseteq Nat BY <2>2
  <2>4. PICK i \in Bad : \A j \in Bad : i <= j
    <3> HIDE DEF Bad
    <3> QED BY <2>1, <2>3, LeastNumber
  <2>5. i \in P /\ sinking[i] \notin V  OBVIOUS
  <2>6. i # 1 BY <1>4, <1>13, <2>5
  <2>7. Up(i) \in P /\ Up(i) < i /\ Up(i) \in DOMAIN h /\ i \in Nat /\ Up(i) \in Nat
    BY <1>5, <2>2, <2>5, <2>6
  <2>8. Up(i) \notin Bad
    <3> HIDE DEF Bad
    <3> QED BY <2>4, <2>7
  <2>9. sinking[Up(i)] \in V BY <2>7, <2>8
  <2> QED BY <1>3, <1>13, <2>5, <2>6, <2>7, <2>9
<1>15. sinking \in [P -> V] BY <1>12, <1>14
<1> QED BY <1>1, <1>6, <1>13, <1>15 DEF P, V

LEMMA MovingIs ==
    ASSUME NEW h, IsHeap(h), NEW n \in DOMAIN h
    PROVE  /\ Moving(h, n) \subseteq DOMAIN h /\ n \in Moving(h, n)
           /\ \A i \in Moving(h, n) : i >= n
           /\ \A i \in Moving(h, n) : i # n => Up(i) \in Moving(h, n) /\ i = Heir(h, Up(i))
           /\ \A i \in DOMAIN h : i > n /\ Up(i) \in Moving(h, n) /\ i = Heir(h, Up(i)) => i \in Moving(h, n)
<1> DEFINE P == Places(h)
           W == Moving(h, n)
           A == {n}
           B == {i \in P : i > n /\ i \in DOMAIN h /\ i = Heir(h, Up(i))}
           moves == CHOOSE f : f = [i \in P |->
                       i = n \/ (i > n /\ i \in DOMAIN h /\ f[Up(i)] /\ i = Heir(h, Up(i)))]
<1>1. W = {i \in P : moves[i]} BY DEF Moving
<1>2. PICK b : Tree(P, b) BY PlacesFit
<1>3. \A i \in DOMAIN h : i \in Nat \ {0} /\ i \in P BY HeapIs, PlacesFit
<1>4. 1 \notin B
  <2>1. n >= 1 /\ n \in Nat BY <1>3
  <2> QED BY <2>1
<1>5. PICK g : Marks(g, P, A, B)
  <2> HIDE DEF P, A, B
  <2> QED BY <1>2, <1>4, TreeMarks
<1>6. g = [i \in P |-> i = n \/ (i > n /\ i \in DOMAIN h /\ g[Up(i)] /\ i = Heir(h, Up(i)))]
  <2> HIDE DEF P
  <2>1. \A i \in P : (i \in A \/ (i \in B /\ g[Up(i)]))
                     <=> (i = n \/ (i > n /\ i \in DOMAIN h /\ g[Up(i)] /\ i = Heir(h, Up(i))))
    OBVIOUS
  <2> HIDE DEF A, B
  <2>2. [i \in P |-> i \in A \/ (i \in B /\ g[Up(i)])]
         = [i \in P |-> i = n \/ (i > n /\ i \in DOMAIN h /\ g[Up(i)] /\ i = Heir(h, Up(i)))]
    BY <2>1, Zenon
  <2> QED BY <1>5, <2>2, Zenon DEF Marks
<1>7. moves = [i \in P |-> i = n \/ (i > n /\ i \in DOMAIN h /\ moves[Up(i)] /\ i = Heir(h, Up(i)))]
  <2> HIDE DEF P
  <2> QED BY <1>6, Zenon
<1> HIDE DEF moves, W, P
<1>8. \A i \in P : i \in W <=> i = n \/ (i > n /\ i \in DOMAIN h /\ moves[Up(i)] /\ i = Heir(h, Up(i)))
  BY <1>1, <1>7, Zenon
<1>9. \A i \in P : i # 1 => (Up(i) \in W <=> moves[Up(i)])
  <2>1. \A i \in P : i # 1 => Up(i) \in P BY <1>2 DEF Tree
  <2> QED BY <1>1, <2>1, Zenon
<1>10. \A i \in P : i \in Nat BY PlacesFit DEF P
<1>11. \A i \in P : i > n => i # 1 BY <1>3, <1>10
<1>12. \A i \in P : i \in W <=> i = n \/ (i > n /\ i \in DOMAIN h /\ Up(i) \in W /\ i = Heir(h, Up(i)))
  BY <1>8, <1>9, <1>11, Zenon
<1>13. \A i \in W : i \in P BY <1>1
<1>14. n \in P /\ n \in Nat /\ n >= n BY <1>3
<1>15. \A i \in W : i # n => i > n /\ i \in DOMAIN h /\ Up(i) \in W /\ i = Heir(h, Up(i)) /\ i >= n
  BY <1>10, <1>12, <1>13, <1>14
<1> QED BY <1>3, <1>12, <1>14, <1>15 DEF W

LEMMA MetIs ==
    ASSUME NEW h, IsHeap(h), NEW d
    PROVE  /\ Met(h, d) \subseteq DOMAIN h
           /\ 1 \in DOMAIN h => 1 \in Met(h, d)
           /\ \A i \in DOMAIN h : /\ i # 1 /\ Up(i) \in Met(h, d)
                                  /\ h[Up(i)] # d /\ ~outRanks(d, h[Up(i)])
                                  => i \in Met(h, d)
<1> DEFINE P == Places(h)
           W == Met(h, d)
           A == {1} \cap DOMAIN h
           B == {i \in P : i # 1 /\ i \in DOMAIN h /\ h[Up(i)] # d /\ ~outRanks(d, h[Up(i)])}
           meets == CHOOSE f : f = [i \in P |->
                       /\ i \in DOMAIN h
                       /\ i = 1 \/ (f[Up(i)] /\ h[Up(i)] # d /\ ~outRanks(d, h[Up(i)]))]
<1>1. W = {i \in P : meets[i]} BY DEF Met
<1>2. PICK b : Tree(P, b) BY PlacesFit
<1>3. \A i \in DOMAIN h : i \in P BY PlacesFit
<1>4. 1 \notin B  OBVIOUS
<1>5. PICK g : Marks(g, P, A, B)
  <2> HIDE DEF P, A, B
  <2> QED BY <1>2, <1>4, TreeMarks
<1>6. g = [i \in P |-> /\ i \in DOMAIN h
                       /\ i = 1 \/ (g[Up(i)] /\ h[Up(i)] # d /\ ~outRanks(d, h[Up(i)]))]
  <2> HIDE DEF P
  <2>1. \A i \in P : (i \in A \/ (i \in B /\ g[Up(i)]))
                     <=> (/\ i \in DOMAIN h
                          /\ i = 1 \/ (g[Up(i)] /\ h[Up(i)] # d /\ ~outRanks(d, h[Up(i)])))
    OBVIOUS
  <2> HIDE DEF A, B
  <2>2. [i \in P |-> i \in A \/ (i \in B /\ g[Up(i)])]
         = [i \in P |-> /\ i \in DOMAIN h
                        /\ i = 1 \/ (g[Up(i)] /\ h[Up(i)] # d /\ ~outRanks(d, h[Up(i)]))]
    BY <2>1, Zenon
  <2> QED BY <1>5, <2>2, Zenon DEF Marks
<1>7. meets = [i \in P |-> /\ i \in DOMAIN h
                           /\ i = 1 \/ (meets[Up(i)] /\ h[Up(i)] # d /\ ~outRanks(d, h[Up(i)]))]
  <2> HIDE DEF P
  <2> QED BY <1>6, Zenon
<1> HIDE DEF meets, W, P
<1>8. \A i \in P : i \in W <=> /\ i \in DOMAIN h
                               /\ i = 1 \/ (meets[Up(i)] /\ h[Up(i)] # d /\ ~outRanks(d, h[Up(i)]))
  BY <1>1, <1>7, Zenon
<1>9. \A i \in P : i # 1 => (Up(i) \in W <=> meets[Up(i)])
  <2>1. \A i \in P : i # 1 => Up(i) \in P BY <1>2 DEF Tree
  <2> QED BY <1>1, <2>1, Zenon
<1>10. \A i \in W : i \in P BY <1>1
<1> QED BY <1>3, <1>8, <1>9, <1>10 DEF W

(* What pop and remove do to a heap                                          *)
LEMMA PopAtIs ==
    ASSUME NEW h, IsHeap(h), NEW n \in DOMAIN h
    PROVE  /\ IsHeap(popAt(h, n))
           /\ Within(popAt(h, n)) = Within(h) \ {h[n]}
           /\ n # 1 => popAt(h, n)[1] = h[1]
<1> DEFINE M == Moving(h, n)
           D == {j \in DOMAIN h : j \in M => Heir(h, j) \in DOMAIN h}
           q == [i \in D |-> IF i \in M THEN h[Heir(h, i)] ELSE h[i]]
           from(i) == IF i \in M THEN Heir(h, i) ELSE i
<1>1. popAt(h, n) = q BY DEF popAt
<1>2. /\ M \subseteq DOMAIN h /\ n \in M
      /\ \A i \in M : i >= n
      /\ \A i \in M : i # n => Up(i) \in M /\ i = Heir(h, Up(i))
      /\ \A i \in DOMAIN h : i > n /\ Up(i) \in M /\ i = Heir(h, Up(i)) => i \in M
  BY MovingIs
<1>3. /\ \A i \in DOMAIN h : i \in Nat \ {0} /\ h[i] \in Ranks /\ h[i].due \in Int
      /\ \A i \in DOMAIN h : i # 1 => Up(i) \in DOMAIN h /\ Up(i) < i /\ h[Up(i)].due <= h[i].due
      /\ \A i, j \in DOMAIN h : h[i].id = h[j].id => i = j
  BY HeapIs
<1>4. \A i \in DOMAIN h : Heir(h, i) # 1 /\ Up(Heir(h, i)) = i /\ Heir(h, i) > i BY ChildrenAre
<1>5. \A i, j \in DOMAIN h : j # 1 /\ Up(j) = i => Heir(h, i) \in DOMAIN h /\ h[Heir(h, i)].due <= h[j].due
  BY ChildrenAre
<1> HIDE DEF M
<1>6. \A i \in D : from(i) \in DOMAIN h /\ q[i] = h[from(i)]  OBVIOUS
<1>7. D \subseteq DOMAIN h /\ DOMAIN q = D  OBVIOUS
<1>8. \A i \in M : i \in D => Heir(h, i) \in M /\ Heir(h, i) > n
  <2> SUFFICES ASSUME NEW i \in M, i \in D PROVE Heir(h, i) \in M /\ Heir(h, i) > n
    OBVIOUS
  <2> DEFINE k == Heir(h, i)
  <2>1. i \in DOMAIN h /\ k \in DOMAIN h /\ i >= n BY <1>2
  <2>2. k > i /\ Up(k) = i BY <1>4, <2>1
  <2>3. k > n BY <1>3, <2>1, <2>2
  <2> QED BY <1>2, <2>1, <2>2, <2>3
<1>9. ASSUME NEW i \in D, i # 1 PROVE Up(i) \in D /\ h[from(Up(i))].due <= h[from(i)].due
  <2> DEFINE u == Up(i)
  <2>1. i \in DOMAIN h /\ u \in DOMAIN h /\ u < i /\ i \in Nat /\ u \in Nat /\ h[u].due <= h[i].due
    BY <1>3, <1>9
  <2>2. Heir(h, u) \in DOMAIN h /\ h[Heir(h, u)].due <= h[i].due BY <1>5, <1>9, <2>1
  <2>3. u \in D BY <2>1, <2>2
  <2>4. h[i].due <= h[from(i)].due
    <3>1. CASE i \in M
      <4>1. Heir(h, i) \in DOMAIN h /\ Heir(h, i) # 1 /\ Up(Heir(h, i)) = i BY <1>4, <2>1, <3>1
      <4> QED BY <1>3, <3>1, <4>1
    <3>2. CASE i \notin M BY <1>3, <2>1, <3>2
    <3> QED BY <3>1, <3>2
  <2>5. h[from(u)].due <= h[i].due BY <2>1, <2>2
  <2>6. h[from(u)].due \in Int /\ h[from(i)].due \in Int /\ h[i].due \in Int
    BY <1>3, <1>6, <2>1, <2>3
  <2> HIDE DEF from, u
  <2>7. h[from(u)].due <= h[from(i)].due BY <2>4, <2>5, <2>6
  <2> QED BY <2>3, <2>7 DEF u
<1>10. \A i, j \in D : from(i) = from(j) => i = j
  <2> SUFFICES ASSUME NEW i \in D, NEW j \in D, from(i) = from(j) PROVE i = j
    OBVIOUS
  <2>1. i \in DOMAIN h /\ j \in DOMAIN h BY <1>7
  <2>2. CASE i \in M /\ j \in M
    <3>1. Up(Heir(h, i)) = i /\ Up(Heir(h, j)) = j BY <1>4, <2>1
    <3> QED BY <2>2, <3>1
  <2>3. CASE i \in M /\ j \notin M BY <1>8, <2>3
  <2>4. CASE i \notin M /\ j \in M BY <1>8, <2>4
  <2>5. CASE i \notin M /\ j \notin M BY <2>5
  <2> QED BY <2>2, <2>3, <2>4, <2>5
<1>11. \A i \in D : from(i) # n
  <2> SUFFICES ASSUME NEW i \in D, from(i) = n PROVE FALSE
    OBVIOUS
  <2>1. i \in M BY <1>2
  <2>2. Heir(h, i) > n /\ n \in Nat BY <1>2, <1>3, <1>8, <2>1
  <2> QED BY <2>1, <2>2
<1>12. \A k \in DOMAIN h : k # n => \E i \in D : from(i) = k
  <2> SUFFICES ASSUME NEW k \in DOMAIN h, k # n PROVE \E i \in D : from(i) = k
    OBVIOUS
  <2>1. CASE k \notin M
    <3>1. k \in D /\ from(k) = k BY <2>1
    <3> QED BY <3>1
  <2>2. CASE k \in M
    <3>1. Up(k) \in M /\ k = Heir(h, Up(k)) /\ Up(k) \in DOMAIN h BY <1>2, <2>2
    <3>2. Up(k) \in D /\ from(Up(k)) = k BY <3>1
    <3> QED BY <3>2
  <2> QED BY <2>1, <2>2
<1> HIDE DEF from
<1>13. q \in [DOMAIN q -> Ranks] BY <1>3, <1>6
<1>14. \E b \in Nat : DOMAIN q \subseteq 1..b
  <2>1. PICK b \in Nat : DOMAIN h \subseteq 1..b BY DEF IsHeap
  <2> QED BY <1>7, <2>1
<1> HIDE DEF q, D
<1>15. checkNodes(q)
  <2> SUFFICES ASSUME NEW i \in DOMAIN q \ {1} PROVE Up(i) \in DOMAIN q /\ ~(q[i].due < q[Up(i)].due)
    BY DEF checkNodes, outRanks
  <2>1. i \in D /\ Up(i) \in D /\ h[from(Up(i))].due <= h[from(i)].due BY <1>7, <1>9
  <2>2. q[i] = h[from(i)] /\ q[Up(i)] = h[from(Up(i))] /\ from(i) \in DOMAIN h /\ from(Up(i)) \in DOMAIN h
    BY <1>6, <2>1
  <2>3. h[from(i)].due \in Int /\ h[from(Up(i))].due \in Int BY <1>3, <2>2
  <2> QED BY <1>7, <2>1, <2>2, <2>3
<1>16. \A i, j \in DOMAIN q : q[i].id = q[j].id => i = j BY <1>3, <1>6, <1>7, <1>10
<1>17. Within(q) = Within(h) \ {h[n]}
  <2>1. ASSUME NEW x \in Within(q) PROVE x \in Within(h) /\ x # h[n]
    <3>1. PICK i \in D : x = q[i] BY <1>7, <2>1 DEF Within
    <3>2. x = h[from(i)] /\ from(i) \in DOMAIN h /\ from(i) # n BY <1>6, <1>11, <3>1
    <3> QED BY <1>3, <3>2 DEF Within
  <2>2. ASSUME NEW x \in Within(h), x # h[n] PROVE x \in Within(q)
    <3>1. PICK k \in DOMAIN h : x = h[k] BY <2>2 DEF Within
    <3>2. PICK i \in D : from(i) = k BY <1>12, <2>2, <3>1
    <3> QED BY <1>6, <1>7, <3>1, <3>2 DEF Within
  <2> QED BY <2>1, <2>2
<1>18. n # 1 => q[1] = h[1]
  <2> SUFFICES ASSUME n # 1 PROVE q[1] = h[1]
    OBVIOUS
  <2>1. 1 \in DOMAIN h
    <3>1. h # NoHeap BY DEF NoHeap
    <3> QED BY <3>1, TopIs
  <2>2. 1 \notin M BY <1>2, <1>3
  <2>3. 1 \in D /\ from(1) = 1 BY <2>1, <2>2 DEF D, from
  <2> QED BY <1>6, <2>3
<1>19. IsHeap(q) BY <1>13, <1>14, <1>15, <1>16 DEF IsHeap
<1> QED BY <1>1, <1>17, <1>18, <1>19

LEMMA RemoveIs ==
    ASSUME NEW h, IsHeap(h), NEW d
    PROVE  /\ d \notin Within(h) => remove(h, d) = h
           /\ \A k \in DOMAIN h : h[k] = d => remove(h, d) = popAt(h, k)
<1> DEFINE at == {i \in Met(h, d) : h[i] = d}
<1>1. remove(h, d) = IF at = {} THEN h ELSE popAt(h, CHOOSE i \in at : TRUE) BY DEF remove
<1>2. Met(h, d) \subseteq DOMAIN h BY MetIs
<1>3. /\ \A i \in DOMAIN h : i \in Nat \ {0} /\ h[i].due \in Int
      /\ \A i \in DOMAIN h : i # 1 => Up(i) \in DOMAIN h /\ Up(i) < i /\ h[Up(i)].due <= h[i].due
      /\ \A i, j \in DOMAIN h : h[i].id = h[j].id => i = j
  BY HeapIs
<1>4. d \notin Within(h) => at = {} BY <1>2 DEF Within
<1>5. ASSUME NEW k \in DOMAIN h, h[k] = d PROVE k \in Met(h, d)
  (* Where the search does not go, d is outranked or lies above.             *)
  <2> DEFINE Fine(i) == outRanks(d, h[i]) \/ \E j \in DOMAIN h : h[j] = d /\ j < i
             Bad == {i \in DOMAIN h : i \notin Met(h, d) /\ ~Fine(i)}
  <2>1. Bad = {}
    <3> SUFFICES ASSUME Bad # {} PROVE FALSE
      OBVIOUS
    <3>1. Bad \subseteq Nat BY <1>3
    <3>2. PICK i \in Bad : \A j \in Bad : i <= j
      <4> HIDE DEF Bad
      <4> QED BY <3>1, LeastNumber
    <3>3. i \in DOMAIN h /\ i \notin Met(h, d) /\ ~Fine(i)  OBVIOUS
    <3>4. i # 1 BY <3>3, MetIs
    <3> DEFINE u == Up(i)
    <3>5. u \in DOMAIN h /\ u < i /\ h[u].due <= h[i].due /\ u \in Nat /\ i \in Nat
          /\ h[u].due \in Int /\ h[i].due \in Int
      BY <1>3, <3>3, <3>4
    <3>6. u \notin Bad
      <4> HIDE DEF Bad, u
      <4> QED BY <3>2, <3>5
    <3>7. d.due \in Int BY <1>3, <1>5
    <3>8. ~outRanks(d, h[u]) BY <3>3, <3>5, <3>7 DEF outRanks
    <3>9. u \in Met(h, d)
      <4>1. ASSUME NEW j \in DOMAIN h, h[j] = d, j < u PROVE FALSE
        <5>1. j \in Nat BY <1>3
        <5>2. j < i BY <3>5, <4>1, <5>1
        <5> QED BY <3>3, <4>1, <5>2
      <4> QED BY <3>5, <3>6, <3>8, <4>1
    <3>10. h[u] # d BY <3>3, <3>5
    <3> QED BY <3>3, <3>4, <3>8, <3>9, <3>10, MetIs
  <2>2. ~Fine(k)
    <3>1. d.due \in Int /\ ~outRanks(d, h[k]) BY <1>3, <1>5 DEF outRanks
    <3>2. \A j \in DOMAIN h : h[j] = d => j = k BY <1>3, <1>5
    <3>3. ~(k < k) BY <1>3
    <3> QED BY <3>1, <3>2, <3>3
  <2> QED BY <2>1, <2>2
<1>6. ASSUME NEW k \in DOMAIN h, h[k] = d PROVE at = {k}
  <2>1. \A j \in DOMAIN h : h[j] = d => j = k BY <1>3, <1>6
  <2> QED BY <1>2, <1>5, <1>6, <2>1
<1>7. \A k : (CHOOSE i \in {k} : TRUE) = k  OBVIOUS
<1> HIDE DEF at
<1> QED BY <1>1, <1>4, <1>6, <1>7

(* The way of a newcomer is one path: no place of it is skipped.             *)
LEMMA WayIsPath ==
    ASSUME NEW h, IsHeap(h)
    PROVE  \A i, j \in Way(h) : i < j => i <= Up(j)
<1> DEFINE W == Way(h)
           Bad == {j \in W : \E i \in W : i < j /\ ~(i <= Up(j))}
<1>1. /\ \A i \in W : i # 1 => Up(i) \in W /\ i = Smaller(h, Up(i))
      /\ \A i \in W : i \in Nat \ {0}
  BY WayIs, PlacesFit
<1>2. /\ \A i \in W : i # 1 => Up(i) < i
      /\ \A i, j \in W : i <= j => Up(i) <= Up(j)
  BY <1>1, UpIs
<1> HIDE DEF W
<1>3. Bad = {}
  <2> SUFFICES ASSUME Bad # {} PROVE FALSE
    OBVIOUS
  <2>1. Bad \subseteq Nat BY <1>1
  <2>2. PICK j \in Bad : \A k \in Bad : j <= k
    <3> HIDE DEF Bad
    <3> QED BY <2>1, LeastNumber
  <2>3. PICK i \in W : i < j /\ ~(i <= Up(j))
    OBVIOUS
  <2>4. j \in W /\ j \in Nat \ {0} /\ i \in Nat \ {0} BY <1>1, <2>3
  <2>5. j # 1 BY <2>3, <2>4
  <2>6. Up(j) \in W /\ Up(j) \in Nat \ {0} /\ Up(j) < i /\ i # 1 /\ j = Smaller(h, Up(j))
    <3>1. Up(j) \in W /\ Up(j) \in Nat \ {0} /\ j = Smaller(h, Up(j)) BY <1>1, <2>4, <2>5
    <3> QED BY <2>3, <2>4, <3>1
  <2>7. Up(i) \in W /\ Up(i) \in Nat \ {0} /\ Up(i) <= Up(j) /\ i = Smaller(h, Up(i))
    <3>1. Up(i) \in W /\ Up(i) \in Nat \ {0} /\ i = Smaller(h, Up(i)) BY <1>1, <2>3, <2>6
    <3>2. i <= j BY <2>3, <2>4
    <3>3. Up(i) <= Up(j) BY <1>2, <2>3, <2>4, <3>2
    <3> QED BY <3>1, <3>3
  <2>8. Up(i) # Up(j) BY <2>3, <2>4, <2>6, <2>7
  <2>9. i \in Bad BY <2>6, <2>7, <2>8
  <2> HIDE DEF Bad
  <2> QED BY <2>2, <2>3, <2>4, <2>9
<1>4. \A i, j \in W : i < j => i <= Up(j) BY <1>3
<1> QED BY <1>4 DEF W

LEMMA PushIs ==
    ASSUME NEW h, IsHeap(h), NEW d \in Ranks, \A i \in DOMAIN h : h[i].id # d.id
    PROVE  /\ IsHeap(push(h, d))
           /\ Within(push(h, d)) = Within(h) \cup {d}
           /\ push(h, d)[1] = IF 1 \in DOMAIN h /\ ~outRanks(d, h[1]) THEN h[1] ELSE d
<1> DEFINE W == Way(h)
           P == Places(h)
           V == Within(h) \cup {d}
           s == Sinking(h, d)
           D == DOMAIN h \cup W
           p == [i \in D |-> IF i \in W /\ (i \notin DOMAIN h \/ outRanks(s[i], h[i])) THEN s[i] ELSE h[i]]
<1>1. push(h, d) = p BY DEF push
<1>2. /\ W \subseteq P /\ 1 \in W
      /\ \A i \in W : i # 1 => Up(i) \in W /\ i = Smaller(h, Up(i))
      /\ \A i \in W : i \in DOMAIN h => Smaller(h, i) \in W
  BY WayIs
<1>3. /\ s \in [P -> V] /\ s[1] = d
      /\ \A i \in P : i # 1 => s[i] = IF outRanks(s[Up(i)], h[Up(i)]) THEN h[Up(i)] ELSE s[Up(i)]
  BY SinkingIs
<1>4. /\ \A i \in P : i \in Nat \ {0}
      /\ \A i \in P : i # 1 => Up(i) \in DOMAIN h
      /\ \E b : Tree(P, b)
  BY PlacesFit
<1>5. /\ \A i \in DOMAIN h : i \in Nat \ {0} /\ h[i] \in Ranks /\ h[i].due \in Int
      /\ \A i \in DOMAIN h : i # 1 => Up(i) \in DOMAIN h /\ Up(i) < i /\ h[Up(i)].due <= h[i].due
      /\ \A i, j \in DOMAIN h : h[i].id = h[j].id => i = j
  BY HeapIs
<1>6. \A i \in DOMAIN h : Smaller(h, i) > i /\ Up(Smaller(h, i)) = i /\ Smaller(h, i) # 1
  BY ChildrenAre
<1>7. \A i \in P : i # 1 => Up(i) < i BY <1>4, UpIs
<1>8. \A i, j \in W : i < j => i <= Up(j) BY WayIsPath
<1>9. \A i \in DOMAIN h : h[i] \in Within(h) BY DEF Within
<1>10. \A x \in V : x \in Ranks /\ x.due \in Int BY <1>5 DEF Within, Ranks
<1>11. /\ \A x, y \in Within(h) : x.id = y.id => x = y
       /\ \A x \in Within(h) : x.id # d.id
  BY <1>5 DEF Within
<1>12. \A x, y \in V : x.id = y.id => x = y BY <1>11
<1>13. P \subseteq Nat /\ \A i \in W : i \in P /\ i \in Nat BY <1>2, <1>4
<1> HIDE DEF W, P, V, s
<1>14. \A i \in D : p[i] \in V /\ p[i] = IF i \in W /\ (i \notin DOMAIN h \/ outRanks(s[i], h[i])) THEN s[i] ELSE h[i]
  BY <1>3, <1>9, <1>13 DEF V
<1>15. DOMAIN p = D  OBVIOUS
<1>16. \A i \in W \cap DOMAIN h : s[i] \in V /\ h[i] \in V BY <1>3, <1>9, <1>13 DEF V
<1> HIDE DEF p

(* On the way, the one that stays and the one that goes on                   *)
<1>17. \A i \in W : i # 1 => Up(i) \in W /\ Up(i) \in DOMAIN h /\ Up(i) < i /\ i \in P
                             /\ i = Smaller(h, Up(i))
  BY <1>2, <1>4, <1>7, <1>13
<1>18. ASSUME NEW i \in W, i # 1
       PROVE  \/ p[Up(i)] = s[Up(i)] /\ s[i] = h[Up(i)]
              \/ p[Up(i)] = h[Up(i)] /\ s[i] = s[Up(i)]
  BY <1>3, <1>14, <1>17, <1>18
<1>19. ASSUME NEW i \in W, i # 1
       PROVE  p[Up(i)].due <= s[i].due /\ p[Up(i)].due <= h[Up(i)].due
  <2> DEFINE u == Up(i)
  <2>1. u \in W /\ u \in DOMAIN h /\ u \in D /\ i \in P BY <1>17, <1>19
  <2>2. s[u].due \in Int /\ h[u].due \in Int BY <1>10, <1>16, <2>1
  <2>3. p[u] = IF s[u].due < h[u].due THEN s[u] ELSE h[u] BY <1>14, <2>1 DEF outRanks
  <2>4. s[i] = IF s[u].due < h[u].due THEN h[u] ELSE s[u] BY <1>3, <1>19, <2>1 DEF outRanks
  <2> HIDE DEF u
  <2>5. p[u].due <= s[i].due /\ p[u].due <= h[u].due BY <2>2, <2>3, <2>4
  <2> QED BY <2>5 DEF u

(* The order                                                                 *)
<1>20. \A i \in DOMAIN h : p[i].due <= h[i].due /\ p[i].due \in Int
  <2> SUFFICES ASSUME NEW i \in DOMAIN h PROVE p[i].due <= h[i].due /\ p[i].due \in Int
    OBVIOUS
  <2>1. i \in D /\ h[i].due \in Int BY <1>5
  <2>2. CASE i \in W
    <3>1. s[i].due \in Int BY <1>10, <1>16, <2>2
    <3>2. p[i] = IF s[i].due < h[i].due THEN s[i] ELSE h[i] BY <1>14, <2>1, <2>2 DEF outRanks
    <3> QED BY <2>1, <3>1, <3>2
  <2>3. CASE i \notin W BY <1>14, <2>1, <2>3
  <2> QED BY <2>2, <2>3
<1>21. checkNodes(p)
  <2> SUFFICES ASSUME NEW i \in D, i # 1 PROVE Up(i) \in D /\ ~(p[i].due < p[Up(i)].due)
    BY <1>15 DEF checkNodes, outRanks
  <2>1. Up(i) \in DOMAIN h BY <1>5, <1>17
  <2>2. p[i].due \in Int /\ p[Up(i)].due \in Int /\ p[Up(i)].due <= h[Up(i)].due /\ h[Up(i)].due \in Int
    BY <1>5, <1>10, <1>14, <1>20, <2>1
  <2>3. CASE p[i] = h[i] /\ i \in DOMAIN h
    <3>1. h[Up(i)].due <= h[i].due /\ h[i].due \in Int BY <1>5, <2>3
    <3> QED BY <2>1, <2>2, <2>3, <3>1
  <2>4. CASE p[i] = s[i] /\ i \in W BY <1>19, <2>1, <2>2, <2>4
  <2> QED BY <1>14, <2>3, <2>4

(* What is in it: what sinks is put down at last.                            *)
<1>22. \A i \in W : s[i] \in Within(p)
  <2> DEFINE Bad == {i \in W : s[i] \notin Within(p)}
  <2> SUFFICES ASSUME Bad # {} PROVE FALSE
    OBVIOUS
  <2>1. PICK b : b \in Nat /\ Bad \subseteq 1..b BY <1>2, <1>4 DEF Tree
  <2>2. PICK i \in Bad : \A j \in Bad : j <= i
    <3> HIDE DEF Bad
    <3> QED BY <2>1, GreatestNumber
  <2>3. i \in W /\ s[i] \notin Within(p) /\ i \in Nat /\ i \in D BY <1>13
  <2>4. p[i] \in Within(p) BY <1>15, <2>3 DEF Within
  <2>5. i \in DOMAIN h BY <1>14, <2>3, <2>4
  <2> DEFINE j == Smaller(h, i)
  <2>6. j \in W /\ j > i /\ j # 1 /\ Up(j) = i /\ j \in Nat BY <1>2, <1>6, <1>13, <2>3, <2>5
  <2> HIDE DEF j
  <2>7. j \notin Bad
    <3> HIDE DEF Bad
    <3> QED BY <2>2, <2>3, <2>6
  <2>8. s[j] \in Within(p) BY <2>6, <2>7
  <2>9. (p[i] = s[i] /\ s[j] = h[i]) \/ (p[i] = h[i] /\ s[j] = s[i]) BY <1>18, <2>6
  <2> QED BY <2>3, <2>4, <2>8, <2>9
<1>23. Within(p) = V
  <2>1. Within(p) \subseteq V BY <1>14, <1>15 DEF Within
  <2>2. d \in Within(p) BY <1>2, <1>3, <1>22
  <2>3. ASSUME NEW i \in DOMAIN h PROVE h[i] \in Within(p)
    <3>1. p[i] \in Within(p) /\ i \in D BY <1>15 DEF Within
    <3>2. CASE i \notin W BY <1>14, <3>1, <3>2
    <3>3. CASE i \in W
      <4> DEFINE j == Smaller(h, i)
      <4>1. j \in W /\ j # 1 /\ Up(j) = i BY <1>2, <1>6, <3>3
      <4> HIDE DEF j
      <4>2. (p[i] = s[i] /\ s[j] = h[i]) \/ (p[i] = h[i] /\ s[j] = s[i]) BY <1>18, <4>1
      <4>3. s[j] \in Within(p) BY <1>22, <4>1
      <4> QED BY <3>1, <4>2, <4>3
    <3> QED BY <3>2, <3>3
  <2>4. V \subseteq Within(p) BY <2>2, <2>3 DEF V, Within
  <2> QED BY <2>1, <2>4

(* Nothing is there twice: what sinks comes from above, and stays nowhere    *)
(* before it is put down.                                                    *)
<1>24. \A i \in W : s[i] = d \/ \E k \in W \cap DOMAIN h : k < i /\ s[i] = h[k]
  <2> DEFINE From(i) == s[i] = d \/ \E k \in W \cap DOMAIN h : k < i /\ s[i] = h[k]
             Bad == {i \in W : ~From(i)}
  <2> SUFFICES ASSUME Bad # {} PROVE FALSE
    OBVIOUS
  <2>1. Bad \subseteq Nat BY <1>13
  <2>2. PICK i \in Bad : \A j \in Bad : i <= j
    <3> HIDE DEF Bad
    <3> QED BY <2>1, LeastNumber
  <2>3. i \in W /\ ~From(i) /\ i \in Nat BY <1>13
  <2>4. i # 1 BY <1>3, <2>3
  <2>5. Up(i) \in W /\ Up(i) \in DOMAIN h /\ Up(i) < i /\ Up(i) \in Nat
    BY <1>13, <1>17, <2>3, <2>4
  <2>6. Up(i) \notin Bad
    <3> HIDE DEF Bad
    <3> QED BY <2>2, <2>3, <2>5
  <2>7. s[i] = h[Up(i)] \/ s[i] = s[Up(i)] BY <1>18, <2>3, <2>4
  <2>8. s[Up(i)] = d \/ \E k \in W \cap DOMAIN h : k < Up(i) /\ s[Up(i)] = h[k] BY <2>5, <2>6
  <2>9. \A k \in DOMAIN h : k < Up(i) => k < i BY <1>5, <2>3, <2>5
  <2> QED BY <2>3, <2>5, <2>7, <2>8, <2>9
<1>25. \A i \in W, k \in DOMAIN h : k >= i => s[i] # h[k]
  <2> SUFFICES ASSUME NEW i \in W, NEW k \in DOMAIN h, k >= i, s[i] = h[k] PROVE FALSE
    OBVIOUS
  <2>1. s[i] # d
    <3>1. h[k].id # d.id  OBVIOUS
    <3> QED BY <3>1
  <2>2. PICK l \in DOMAIN h : l < i /\ s[i] = h[l] BY <1>24, <2>1
  <2>3. l = k BY <1>5, <2>2
  <2> QED BY <1>5, <1>13, <2>2, <2>3
<1>26. \A j \in W, i \in W \cap DOMAIN h : i < j => s[j] # p[i]
  <2> DEFINE Bad == {j \in W : \E i \in W \cap DOMAIN h : i < j /\ s[j] = p[i]}
  <2> SUFFICES ASSUME Bad # {} PROVE FALSE
    OBVIOUS
  <2>1. Bad \subseteq Nat BY <1>13
  <2>2. PICK j \in Bad : \A k \in Bad : j <= k
    <3> HIDE DEF Bad
    <3> QED BY <2>1, LeastNumber
  <2>3. PICK i \in W \cap DOMAIN h : i < j /\ s[j] = p[i]
    OBVIOUS
  <2>4. j \in W /\ j \in Nat /\ i \in Nat \ {0} /\ j # 1 /\ i \in D BY <1>5, <1>13, <2>3
  <2> DEFINE u == Up(j)
  <2>5. u \in W /\ u \in DOMAIN h /\ u < j /\ u \in Nat /\ i <= u
    BY <1>8, <1>13, <1>17, <2>3, <2>4
  <2>6. (p[u] = s[u] /\ s[j] = h[u]) \/ (p[u] = h[u] /\ s[j] = s[u]) BY <1>18, <2>4
  <2>7. p[i] = s[i] \/ p[i] = h[i] BY <1>14, <2>4
  <2>8. u \notin Bad
    <3> HIDE DEF Bad, u
    <3> QED BY <2>2, <2>4, <2>5
  <2>9. CASE i = u
    <3>1. s[u] # h[u] BY <1>25, <2>5
    <3> QED BY <2>3, <2>6, <2>9, <3>1
  <2>10. CASE i < u
    <3>1. s[u] # p[i] BY <2>5, <2>8, <2>10
    <3>2. s[i] # h[u] BY <1>25, <2>5
    <3>3. h[i] # h[u] BY <1>5, <2>4, <2>5, <2>10
    <3> QED BY <2>3, <2>6, <2>7, <3>1, <3>2, <3>3
  <2> HIDE DEF u
  <2> QED BY <2>4, <2>5, <2>9, <2>10
<1>27. \A j, i \in W : i < j => i \in DOMAIN h
  <2> DEFINE Bad == {j \in W : \E i \in W : i < j /\ i \notin DOMAIN h}
  <2> SUFFICES ASSUME Bad # {} PROVE FALSE
    OBVIOUS
  <2>1. Bad \subseteq Nat BY <1>13
  <2>2. PICK j \in Bad : \A k \in Bad : j <= k
    <3> HIDE DEF Bad
    <3> QED BY <2>1, LeastNumber
  <2>3. PICK i \in W : i < j /\ i \notin DOMAIN h
    OBVIOUS
  <2>4. j \in W /\ j \in Nat /\ i \in Nat \ {0} /\ j # 1 BY <1>4, <1>13, <2>3
  <2>5. Up(j) \in W /\ Up(j) \in DOMAIN h /\ Up(j) < j /\ Up(j) \in Nat /\ i <= Up(j)
    BY <1>8, <1>13, <1>17, <2>3, <2>4
  <2>6. i < Up(j)
    <3>1. i # Up(j) BY <2>3, <2>5
    <3> QED BY <2>4, <2>5, <3>1
  <2>7. Up(j) \in Bad BY <2>3, <2>5, <2>6
  <2> HIDE DEF Bad
  <2> QED BY <2>2, <2>4, <2>5, <2>7
<1>28. ASSUME NEW i \in D, NEW j \in D, i < j PROVE p[i] # p[j]
  <2>0. i \in Nat /\ j \in Nat BY <1>5, <1>13
  <2>1. CASE i \in DOMAIN h /\ p[i] = h[i] /\ j \in DOMAIN h /\ p[j] = h[j]
    BY <1>5, <1>28, <2>0, <2>1
  <2>2. CASE i \in W /\ p[i] = s[i] /\ j \in DOMAIN h /\ p[j] = h[j]
    BY <1>25, <1>28, <2>0, <2>2
  <2>3. CASE j \in W /\ p[j] = s[j] /\ i \in W
    <3>2. i \in DOMAIN h BY <1>27, <1>28, <2>3
    <3> QED BY <1>26, <1>28, <2>3, <3>2
  <2>4. CASE j \in W /\ p[j] = s[j] /\ i \notin W
    <3>1. i \in DOMAIN h /\ p[i] = h[i] /\ h[i] # d BY <1>14, <2>4
    <3>2. \A k \in W : h[k] # h[i] \/ k \notin DOMAIN h BY <1>5, <2>4, <3>1
    <3> QED BY <1>24, <2>4, <3>1, <3>2
  <2> QED BY <1>14, <2>1, <2>2, <2>3, <2>4
<1>29. \A i, j \in DOMAIN p : p[i].id = p[j].id => i = j
  <2>1. \A i, j \in D : p[i].id = p[j].id => p[i] = p[j] BY <1>12, <1>14
  <2>2. \A i \in D : i \in Nat BY <1>5, <1>13
  <2>3. \A i, j \in D : i < j \/ j < i \/ i = j BY <2>2
  <2> QED BY <1>15, <1>28, <2>1, <2>3
<1>30. IsHeap(p)
  <2>1. PICK b : b \in Nat /\ P \subseteq 1..b BY <1>4 DEF Tree
  <2>2. DOMAIN h \subseteq P BY PlacesFit DEF P
  <2>3. D \subseteq 1..b BY <1>13, <2>1, <2>2
  <2>4. \A i \in D : p[i] \in Ranks BY <1>10, <1>14
  <2>5. p = [i \in DOMAIN p |-> p[i]] BY DEF p
  <2> HIDE DEF D
  <2>6. p \in [DOMAIN p -> Ranks] BY <1>15, <2>4, <2>5
  <2> QED BY <1>15, <1>21, <1>29, <2>1, <2>3, <2>6 DEF IsHeap
<1>31. p[1] = IF 1 \in DOMAIN h /\ ~outRanks(d, h[1]) THEN h[1] ELSE d BY <1>2, <1>3, <1>14
<1> QED BY <1>1, <1>23, <1>30, <1>31 DEF V
-----------------------------------------------------------------------------
(* What waits for the message thread                                         *)

PushOf(d)   == [type |-> "push", d |-> d]
RemoveOf(d) == [type |-> "remove", d |-> d]
Expire      == [type |-> "expire", d |-> 0]
Messages(n) == [type : {"push", "remove"}, d : 1..n] \cup {Expire}
Has(q, m)   == \E k \in DOMAIN q : q[k] = m

(* A delegate is pushed once, and before it is removed.                      *)
QueueFits(q, n) ==
    /\ q \in Seq(Messages(n))
    /\ \A j, k \in DOMAIN q : q[j].type = "push" /\ q[k].d = q[j].d => j <= k

(* No two expiries wait.                                                     *)
Once(q) == \A j, k \in DOMAIN q : q[j] = Expire /\ q[k] = Expire => j = k

LEMMA HasAdded ==
    ASSUME NEW S, NEW q \in Seq(S), NEW m \in S
    PROVE  /\ q \o <<m>> \in Seq(S)
           /\ DOMAIN (q \o <<m>>) = 1..(Len(q) + 1) /\ Len(q) \in Nat /\ DOMAIN q = 1..Len(q)
           /\ \A k \in DOMAIN q : (q \o <<m>>)[k] = q[k]
           /\ (q \o <<m>>)[Len(q) + 1] = m
           /\ \A x : Has(q \o <<m>>, x) <=> Has(q, x) \/ x = m
<1> DEFINE r == q \o <<m>>
<1>1. /\ r \in Seq(S) /\ DOMAIN r = 1..(Len(q) + 1) /\ Len(q) \in Nat /\ DOMAIN q = 1..Len(q)
      /\ \A k \in DOMAIN q : r[k] = q[k]
      /\ r[Len(q) + 1] = m
  OBVIOUS
<1> HIDE DEF r
<1>2. ASSUME NEW x PROVE Has(r, x) <=> Has(q, x) \/ x = m
  <2>1. ASSUME Has(r, x) PROVE Has(q, x) \/ x = m
    <3>1. PICK k \in DOMAIN r : r[k] = x BY <2>1 DEF Has
    <3>2. k \in DOMAIN q \/ k = Len(q) + 1 BY <1>1
    <3> QED BY <1>1, <3>1, <3>2 DEF Has
  <2>2. ASSUME NEW k \in DOMAIN q PROVE k \in DOMAIN r /\ r[k] = q[k] BY <1>1
  <2>3. Len(q) + 1 \in DOMAIN r BY <1>1
  <2> QED BY <1>1, <2>1, <2>2, <2>3 DEF Has
<1> QED BY <1>1, <1>2 DEF r

LEMMA HasTaken ==
    ASSUME NEW S, NEW q \in Seq(S), q # <<>>
    PROVE  /\ Tail(q) \in Seq(S) /\ Head(q) \in S
           /\ 1 \in DOMAIN q /\ q[1] = Head(q)
           /\ \A k \in DOMAIN Tail(q) : k \in Nat /\ k >= 1 /\ k + 1 \in DOMAIN q /\ Tail(q)[k] = q[k + 1]
           /\ \A x : Has(q, x) <=> x = Head(q) \/ Has(Tail(q), x)
<1> DEFINE r == Tail(q)
           h == Head(q)
<1>1. /\ r \in Seq(S) /\ h \in S /\ Len(q) \in Nat /\ Len(q) >= 1
      /\ DOMAIN q = 1..Len(q) /\ DOMAIN r = 1..(Len(q) - 1)
      /\ \A k \in DOMAIN r : r[k] = q[k + 1]
      /\ q[1] = h
  OBVIOUS
<1> HIDE DEF r, h
<1>2. \A k \in DOMAIN r : k \in Nat /\ k >= 1 /\ k + 1 \in DOMAIN q BY <1>1
<1>3. ASSUME NEW x PROVE Has(q, x) <=> x = h \/ Has(r, x)
  <2>1. ASSUME Has(q, x) PROVE x = h \/ Has(r, x)
    <3>1. PICK k \in DOMAIN q : q[k] = x BY <2>1 DEF Has
    <3>2. k = 1 \/ (k - 1 \in DOMAIN r /\ r[k - 1] = q[k]) BY <1>1
    <3> QED BY <1>1, <3>1, <3>2 DEF Has
  <2>2. 1 \in DOMAIN q BY <1>1
  <2> QED BY <1>1, <1>2, <2>1, <2>2 DEF Has
<1>4. 1 \in DOMAIN q BY <1>1
<1> QED BY <1>1, <1>2, <1>3, <1>4 DEF r, h

LEMMA QueueTaken ==
    ASSUME NEW n \in Nat, NEW q, QueueFits(q, n), q # <<>>
    PROVE  /\ QueueFits(Tail(q), n) /\ Head(q) \in Messages(n)
           /\ \A d : /\ Head(q) = PushOf(d) => ~Has(Tail(q), PushOf(d))
                     /\ Head(q) = RemoveOf(d) => ~Has(Tail(q), PushOf(d))
           /\ \A x : Has(q, x) <=> x = Head(q) \/ Has(Tail(q), x)
<1> DEFINE r == Tail(q)
<1>1. /\ r \in Seq(Messages(n)) /\ Head(q) \in Messages(n)
      /\ 1 \in DOMAIN q /\ q[1] = Head(q)
      /\ \A k \in DOMAIN r : k \in Nat /\ k >= 1 /\ k + 1 \in DOMAIN q /\ r[k] = q[k + 1]
      /\ \A x : Has(q, x) <=> x = Head(q) \/ Has(r, x)
  BY HasTaken DEF QueueFits
<1> HIDE DEF r
<1>2. \A j, k \in DOMAIN q : q[j].type = "push" /\ q[k].d = q[j].d => j <= k BY DEF QueueFits
<1>3. ASSUME NEW j \in DOMAIN r, NEW k \in DOMAIN r, r[j].type = "push", r[k].d = r[j].d
      PROVE  j <= k
  <2>1. j + 1 <= k + 1 BY <1>1, <1>2, <1>3
  <2> QED BY <1>1, <2>1
<1>4. ASSUME NEW d, Head(q).d = d, Has(r, PushOf(d)) PROVE FALSE
  <2>1. PICK k \in DOMAIN r : r[k] = PushOf(d) BY <1>4 DEF Has
  <2>2. q[k + 1].type = "push" /\ q[k + 1].d = d /\ k + 1 \in DOMAIN q BY <1>1, <2>1 DEF PushOf
  <2>3. k + 1 <= 1 BY <1>1, <1>2, <1>4, <2>2
  <2> QED BY <1>1, <2>3
<1>5. \A d : PushOf(d).d = d /\ RemoveOf(d).d = d BY DEF PushOf, RemoveOf
<1> QED BY <1>1, <1>3, <1>4, <1>5 DEF r, QueueFits

LEMMA QueueAdded ==
    ASSUME NEW n \in Nat, NEW q, QueueFits(q, n)
    PROVE  /\ \A d \in 1..n : QueueFits(q \o <<RemoveOf(d)>>, n)
           /\ QueueFits(q \o <<Expire>>, n)
           /\ QueueFits(q \o <<PushOf(n + 1)>>, n + 1)
           /\ ~Has(q, PushOf(n + 1)) /\ ~Has(q, RemoveOf(n + 1))
<1>1. /\ q \in Seq(Messages(n))
      /\ \A j, k \in DOMAIN q : q[j].type = "push" /\ q[k].d = q[j].d => j <= k
  BY DEF QueueFits
<1>2. Messages(n) \subseteq Messages(n + 1) BY DEF Messages
<1>3. q \in Seq(Messages(n + 1)) BY <1>1, <1>2
<1>4. \A k \in DOMAIN q : q[k] \in Messages(n) BY <1>1, ElementOfSeq
<1>5. \A k \in DOMAIN q : q[k].d \in 0..n /\ (q[k].type = "push" => q[k].d \in 1..n)
  BY <1>4 DEF Messages, Expire
<1>6. ASSUME NEW m \in Messages(n + 1), m.type # "push" \/ m.d = n + 1
      PROVE  \A j, k \in DOMAIN (q \o <<m>>) :
                (q \o <<m>>)[j].type = "push" /\ (q \o <<m>>)[k].d = (q \o <<m>>)[j].d => j <= k
  <2> DEFINE r == q \o <<m>>
  <2>1. /\ DOMAIN r = 1..(Len(q) + 1) /\ Len(q) \in Nat /\ DOMAIN q = 1..Len(q)
        /\ \A k \in DOMAIN q : r[k] = q[k]
        /\ r[Len(q) + 1] = m
    BY <1>3, HasAdded
  <2> HIDE DEF r
  <2> SUFFICES ASSUME NEW j \in DOMAIN r, NEW k \in DOMAIN r, r[j].type = "push", r[k].d = r[j].d
               PROVE  j <= k
    BY DEF r
  <2>2. CASE k = Len(q) + 1 BY <2>1, <2>2
  <2>3. CASE k # Len(q) + 1 /\ j # Len(q) + 1 BY <1>1, <2>1, <2>3
  <2>4. CASE k # Len(q) + 1 /\ j = Len(q) + 1
    <3>1. k \in DOMAIN q /\ q[k].d = n + 1 BY <1>6, <2>1, <2>4
    <3> QED BY <1>5, <3>1
  <2> QED BY <2>2, <2>3, <2>4
<1>7. \A d \in 1..n : RemoveOf(d) \in Messages(n) /\ RemoveOf(d).type # "push"
  BY DEF RemoveOf, Messages
<1>8. Expire \in Messages(n) /\ Expire.type # "push" BY DEF Expire, Messages
<1>9. PushOf(n + 1) \in Messages(n + 1) /\ PushOf(n + 1).d = n + 1 BY DEF PushOf, Messages
<1>10. \A m \in Messages(n) : q \o <<m>> \in Seq(Messages(n)) BY <1>1, HasAdded
<1>11. q \o <<PushOf(n + 1)>> \in Seq(Messages(n + 1)) BY <1>3, <1>9, HasAdded
<1>12. ~Has(q, PushOf(n + 1)) /\ ~Has(q, RemoveOf(n + 1)) BY <1>5 DEF Has, PushOf, RemoveOf
<1>13. \A d \in 1..n : QueueFits(q \o <<RemoveOf(d)>>, n)
  <2> SUFFICES ASSUME NEW d \in 1..n PROVE QueueFits(q \o <<RemoveOf(d)>>, n)
    OBVIOUS
  <2> DEFINE m == RemoveOf(d)
  <2>1. m \in Messages(n) /\ m \in Messages(n + 1) /\ m.type # "push" BY <1>2, <1>7
  <2> HIDE DEF m
  <2>2. QueueFits(q \o <<m>>, n) BY <1>6, <1>10, <2>1 DEF QueueFits
  <2> QED BY <2>2 DEF m
<1>14. QueueFits(q \o <<Expire>>, n)
  <2> DEFINE m == Expire
  <2>1. m \in Messages(n) /\ m \in Messages(n + 1) /\ m.type # "push" BY <1>2, <1>8
  <2> HIDE DEF m
  <2>2. QueueFits(q \o <<m>>, n) BY <1>6, <1>10, <2>1 DEF QueueFits
  <2> QED BY <2>2 DEF m
<1>15. QueueFits(q \o <<PushOf(n + 1)>>, n + 1)
  <2> DEFINE m == PushOf(n + 1)
  <2>1. m \in Messages(n + 1) /\ m.d = n + 1 /\ q \o <<m>> \in Seq(Messages(n + 1))
    BY <1>9, <1>11
  <2> HIDE DEF m
  <2>2. QueueFits(q \o <<m>>, n + 1) BY <1>6, <2>1 DEF QueueFits
  <2> QED BY <2>2 DEF m
<1> QED BY <1>12, <1>13, <1>14, <1>15

(* What a message that is added changes, whatever it is                      *)
LEMMA MessageAdded ==
    ASSUME NEW n \in Nat, NEW q, QueueFits(q, n), NEW m \in Messages(n + 1)
    PROVE  /\ \A x : Has(q \o <<m>>, x) <=> Has(q, x) \/ x = m
           /\ Once(q) /\ (m # Expire \/ ~Has(q, Expire)) => Once(q \o <<m>>)
<1> DEFINE r == q \o <<m>>
<1>1. q \in Seq(Messages(n + 1))
  <2>1. Messages(n) \subseteq Messages(n + 1) BY DEF Messages
  <2> QED BY <2>1 DEF QueueFits
<1>2. /\ DOMAIN r = 1..(Len(q) + 1) /\ Len(q) \in Nat /\ DOMAIN q = 1..Len(q)
      /\ \A k \in DOMAIN q : r[k] = q[k]
      /\ r[Len(q) + 1] = m
      /\ \A x : Has(r, x) <=> Has(q, x) \/ x = m
  BY <1>1, HasAdded
<1> HIDE DEF r
<1>3. ASSUME Once(q), m # Expire \/ ~Has(q, Expire) PROVE Once(r)
  <2>1. \A k \in DOMAIN r : k \in DOMAIN q \/ k = Len(q) + 1 BY <1>2
  <2>2. \A k \in DOMAIN q : r[k] = Expire => m # Expire BY <1>2, <1>3 DEF Has
  <2>3. \A j, k \in DOMAIN q : r[j] = Expire /\ r[k] = Expire => j = k BY <1>2, <1>3 DEF Once
  <2> HIDE DEF Expire
  <2> QED BY <1>2, <2>1, <2>2, <2>3 DEF Once
<1> QED BY <1>2, <1>3 DEF r

LEMMA OnceTaken ==
    ASSUME NEW n, NEW q, QueueFits(q, n), q # <<>>, Once(q)
    PROVE  Once(Tail(q)) /\ (Head(q) = Expire => ~Has(Tail(q), Expire))
<1> DEFINE r == Tail(q)
<1>1. /\ 1 \in DOMAIN q /\ q[1] = Head(q)
      /\ \A k \in DOMAIN r : k \in Nat /\ k >= 1 /\ k + 1 \in DOMAIN q /\ r[k] = q[k + 1]
  BY HasTaken DEF QueueFits
<1> HIDE DEF r
<1>2. ASSUME NEW j \in DOMAIN r, NEW k \in DOMAIN r, r[j] = Expire, r[k] = Expire PROVE j = k
  <2>1. j + 1 = k + 1 BY <1>1, <1>2 DEF Once
  <2> QED BY <1>1, <2>1
<1>3. ASSUME Head(q) = Expire, NEW k \in DOMAIN r, r[k] = Expire PROVE FALSE
  <2>1. 1 = k + 1 BY <1>1, <1>3 DEF Once
  <2> QED BY <1>1, <2>1
<1> QED BY <1>2, <1>3 DEF r, Once, Has

-----------------------------------------------------------------------------
(* Queue, heap and delegates                                                 *)

In(h, d)      == \E x \in Within(h) : x.id = d
Kept(h, q, d) == In(h, d) \/ Has(q, PushOf(d))

(* What is in the heap is not about to be pushed.                            *)
HeapFits(h, q, ds) ==
    /\ IsHeap(h)
    /\ \A x \in Within(h) : x.id \in DOMAIN ds /\ x.due = ds[x.id].due
    /\ \A d \in DOMAIN ds : In(h, d) => ~Has(q, PushOf(d))

(* The delegate that has left the heap to call its client back               *)
Expiring(d, ds) ==
    /\ expiry.delegate = d
    /\ task = "expire" \/ (task = "stop" /\ client = ds[d].client)

(* A delegate whose timer runs is in the heap, or on its way in or out of    *)
(* it. One that was let go is taken out, or was not in.                      *)
RunInv ==
    \A d \in DOMAIN delegates :
        IF delegates[d].client = None THEN Kept(mTree, queue, d) => Has(queue, RemoveOf(d))
        ELSE ~Has(queue, RemoveOf(d)) /\ (Kept(mTree, queue, d) \/ Expiring(d, delegates))

ExpiryInv ==
    /\ expiry \in [delegate : Int, due : Int, asOf : Int]
    /\ task \in {"expire", "stop"} =>
          expiry.delegate \in DOMAIN delegates /\ ~Kept(mTree, queue, expiry.delegate)

(* The poll thread is on its way to the message thread.                      *)
Waking == poll # "wait" \/ Has(queue, Expire)

(* Unless an expiry comes, timerfd is set for the top of the heap, or is     *)
(* about to be.                                                              *)
FdInv ==
    /\ fd \in [set : Int, polled : BOOLEAN]
    /\ task \in {"addPoll", "setTime"} => mTree # NoHeap
    /\ ~Waking =>
        /\ task = "setTime" => fd.polled
        /\ task = "rest" /\ mTree # NoHeap => fd = [set |-> mTree[1].due, polled |-> TRUE]

Steady == ~Exposed({"stops", "deletes", "slow"})
Loop == {"expire", "stop", "call", "next"}

(* Where nothing stops and the threads keep up with the clock: the poll      *)
(* thread wakes for a top that is due and stays there until it is popped,    *)
(* and timerfd stays silent meanwhile.                                       *)
EarlyInv ==
    Steady =>
        /\ \A d \in DOMAIN delegates :
              /\ Has(queue, PushOf(d)) => now <= delegates[d].due
              /\ Has(queue, RemoveOf(d)) => ~Kept(mTree, queue, d)
        /\ poll # "wait" => ~Has(queue, Expire)
        /\ Once(queue)
        /\ Waking =>
            /\ task = "rest" /\ mTree # NoHeap /\ mTree[1].due <= now
            /\ poll = "disarm" \/ fd.set = 0
        /\ task \in Loop => fd.set = 0 /\ expiry.asOf <= now
        /\ task \in {"addPoll", "setTime"} => fd.set = 0 \/ fd.set > now
        /\ ~Waking /\ mTree = NoHeap => fd.set = 0
        /\ task \in {"expire", "stop"} => delegates[expiry.delegate].due <= now
        /\ task = "stop" => client = delegates[expiry.delegate].client
        /\ task = "call" => expiry.due <= now

Timely ==
    /\ QueueFits(queue, Len(delegates)) /\ HeapFits(mTree, queue, delegates)
    /\ RunInv /\ ExpiryInv /\ FdInv /\ EarlyInv
TimeInv == IInv /\ Timely

LEMMA InitTime == Init => TimeInv
<1> SUFFICES ASSUME Init PROVE TimeInv
  OBVIOUS
<1>1. IInv BY InitHolds
<1>2. /\ now = 1 /\ delegates = <<>> /\ queue = <<>> /\ mTree = NoHeap /\ fd = [set |-> 0, polled |-> FALSE]
      /\ poll = "wait" /\ task = "rest" /\ expiry \in [delegate : Int, due : Int, asOf : Int]
  BY DEF Init, NoExpiry
<1>3. DOMAIN NoHeap = {} /\ NoHeap = [i \in DOMAIN NoHeap |-> NoHeap[i]] BY DEF NoHeap
<1>4. Within(NoHeap) = {} BY <1>3 DEF Within
<1>5. IsHeap(NoHeap)
  <2>1. \A n : {} \subseteq 1..n  OBVIOUS
  <2>2. 0 \in Nat  OBVIOUS
  <2> HIDE DEF NoHeap
  <2>3. NoHeap \in [DOMAIN NoHeap -> Ranks] BY <1>3
  <2> QED BY <1>3, <2>1, <2>2, <2>3 DEF IsHeap, checkNodes
<1>6. DOMAIN queue = {} /\ DOMAIN delegates = {} /\ Len(delegates) = 0 BY <1>2
<1>7. queue \in Seq(Messages(Len(delegates))) BY <1>2
<1>8. \A m : ~Has(queue, m) BY <1>6 DEF Has
<1>9. QueueFits(queue, Len(delegates)) /\ HeapFits(mTree, queue, delegates)
  BY <1>2, <1>4, <1>5, <1>6, <1>7 DEF QueueFits, HeapFits
<1>10. RunInv /\ ExpiryInv /\ FdInv BY <1>2, <1>6 DEF RunInv, ExpiryInv, FdInv
<1>11. EarlyInv BY <1>2, <1>6, <1>8 DEF EarlyInv, Waking, Loop, Once
<1> QED BY <1>1, <1>9, <1>10, <1>11 DEF TimeInv, Timely

(* What the types give                                                       *)
LEMMA DelegatesAre ==
    ASSUME TypeOK
    PROVE  /\ Len(delegates) \in Nat /\ DOMAIN delegates = 1..Len(delegates)
           /\ \A d \in DOMAIN delegates :
                 /\ d \in Nat \ {0}
                 /\ delegates[d].due \in Int /\ delegates[d].client \in Clients \cup {None}
                 /\ Ranked(d) \in Ranks /\ Ranked(d).id = d /\ Ranked(d).due = delegates[d].due
<1>1. /\ delegates \in Seq([client : Clients \cup {None}, due : Int])
      /\ Len(delegates) \in Nat /\ DOMAIN delegates = 1..Len(delegates)
  BY DEF TypeOK
<1>2. \A d \in DOMAIN delegates : delegates[d] \in [client : Clients \cup {None}, due : Int]
  BY <1>1, ElementOfSeq
<1>3. \A d \in DOMAIN delegates : delegates[d].due \in Int /\ delegates[d].client \in Clients \cup {None}
  BY <1>2
<1>4. \A d \in DOMAIN delegates : d \in Nat \ {0} BY <1>1
<1> QED BY <1>1, <1>3, <1>4 DEF Ranked, Ranks

LEMMA HeapPushed ==
    ASSUME TypeOK, QueueFits(queue, Len(delegates)), HeapFits(mTree, queue, delegates),
           queue # <<>>, NEW d \in DOMAIN delegates, Head(queue) = PushOf(d)
    PROVE  /\ HeapFits(push(mTree, Ranked(d)), Tail(queue), delegates)
           /\ push(mTree, Ranked(d)) # NoHeap
           /\ push(mTree, Ranked(d))[1] =
                 IF mTree # NoHeap /\ ~(delegates[d].due < mTree[1].due) THEN mTree[1] ELSE Ranked(d)
           /\ \A e : In(push(mTree, Ranked(d)), e) <=> In(mTree, e) \/ e = d
           /\ ~In(mTree, d)
<1> DEFINE n == Ranked(d)
           h == push(mTree, n)
           q == Tail(queue)
<1>1. n \in Ranks /\ n.id = d /\ n.due = delegates[d].due BY DelegatesAre
<1>2. /\ QueueFits(q, Len(delegates)) /\ ~Has(q, PushOf(d))
      /\ \A x : Has(queue, x) <=> x = PushOf(d) \/ Has(q, x)
  <2>1. Len(delegates) \in Nat BY DelegatesAre
  <2> QED BY <2>1, QueueTaken
<1>3. /\ IsHeap(mTree)
      /\ \A x \in Within(mTree) : x.id \in DOMAIN delegates /\ x.due = delegates[x.id].due
      /\ \A e \in DOMAIN delegates : In(mTree, e) => ~Has(queue, PushOf(e))
  BY DEF HeapFits
<1>4. ~In(mTree, d) BY <1>2, <1>3
<1>5. \A i \in DOMAIN mTree : mTree[i].id # n.id BY <1>1, <1>4 DEF In, Within
<1> HIDE DEF n, q
<1>6. /\ IsHeap(h) /\ Within(h) = Within(mTree) \cup {n}
      /\ h[1] = IF 1 \in DOMAIN mTree /\ ~outRanks(n, mTree[1]) THEN mTree[1] ELSE n
  BY <1>1, <1>3, <1>5, PushIs
<1> HIDE DEF h
<1>7. \A e : In(h, e) <=> In(mTree, e) \/ e = d BY <1>1, <1>6 DEF In
<1>8. h # NoHeap
  <2>1. n \in Within(h) BY <1>6
  <2> QED BY <2>1 DEF Within, NoHeap
<1>9. h[1] = IF mTree # NoHeap /\ ~(delegates[d].due < mTree[1].due) THEN mTree[1] ELSE n
  BY <1>1, <1>3, <1>6, TopIs DEF outRanks
<1>10. \A e, f : PushOf(e) = PushOf(f) => e = f BY DEF PushOf
<1>11. HeapFits(h, q, delegates)
  <2>1. \A x \in Within(h) : x.id \in DOMAIN delegates /\ x.due = delegates[x.id].due
    BY <1>1, <1>3, <1>6
  <2>2. \A e \in DOMAIN delegates : In(h, e) => ~Has(q, PushOf(e)) BY <1>2, <1>3, <1>7
  <2> QED BY <1>6, <2>1, <2>2 DEF HeapFits
<1> QED BY <1>4, <1>7, <1>8, <1>9, <1>11 DEF h, n, q

LEMMA HeapRemoved ==
    ASSUME TypeOK, QueueFits(queue, Len(delegates)), HeapFits(mTree, queue, delegates),
           queue # <<>>, NEW d \in DOMAIN delegates, Head(queue) = RemoveOf(d)
    PROVE  /\ HeapFits(remove(mTree, Ranked(d)), Tail(queue), delegates)
           /\ Soonest(mTree) # d =>
                 /\ remove(mTree, Ranked(d)) = NoHeap <=> mTree = NoHeap
                 /\ mTree # NoHeap => remove(mTree, Ranked(d))[1] = mTree[1]
           /\ \A e : In(remove(mTree, Ranked(d)), e) <=> In(mTree, e) /\ e # d
           /\ ~In(mTree, d) => remove(mTree, Ranked(d)) = mTree
<1> DEFINE n == Ranked(d)
           h == remove(mTree, n)
           q == Tail(queue)
<1>1. n \in Ranks /\ n.id = d /\ n.due = delegates[d].due BY DelegatesAre
<1>2. \A x : Has(q, x) => Has(queue, x) BY HasTaken DEF QueueFits
<1>3. /\ IsHeap(mTree)
      /\ \A x \in Within(mTree) : x.id \in DOMAIN delegates /\ x.due = delegates[x.id].due
      /\ \A e \in DOMAIN delegates : In(mTree, e) => ~Has(queue, PushOf(e))
  BY DEF HeapFits
<1>4. \A i \in DOMAIN mTree : mTree[i] \in Ranks /\ mTree[i] \in Within(mTree)
  BY <1>3 DEF IsHeap, Within
<1>5. \A i \in DOMAIN mTree : mTree[i].id = d => mTree[i] = n BY <1>1, <1>3, <1>4 DEF Ranks
<1>6. n \notin Within(mTree) => h = mTree BY <1>3, RemoveIs
<1>7. \A k \in DOMAIN mTree : mTree[k] = n =>
         /\ IsHeap(h) /\ Within(h) = Within(mTree) \ {n}
         /\ k # 1 => h[1] = mTree[1]
  <2> SUFFICES ASSUME NEW k \in DOMAIN mTree, mTree[k] = n
               PROVE  IsHeap(h) /\ Within(h) = Within(mTree) \ {n} /\ (k # 1 => h[1] = mTree[1])
    OBVIOUS
  <2>1. h = popAt(mTree, k) BY <1>3, RemoveIs
  <2> QED BY <1>3, <2>1, PopAtIs
<1> HIDE DEF n, q, h
<1>8. IsHeap(h) /\ Within(h) = Within(mTree) \ {n}
  <2>1. CASE n \in Within(mTree)
    <3>1. PICK k \in DOMAIN mTree : mTree[k] = n BY <2>1 DEF Within
    <3> QED BY <1>7, <3>1
  <2>2. CASE n \notin Within(mTree) BY <1>3, <1>6, <2>2
  <2> QED BY <2>1, <2>2
<1>9. \A x \in Within(mTree) : x.id = d <=> x = n BY <1>1, <1>5 DEF Within
<1>10. \A e : In(h, e) <=> In(mTree, e) /\ e # d BY <1>8, <1>9 DEF In
<1>11. HeapFits(h, q, delegates)
  <2>1. \A x \in Within(h) : x.id \in DOMAIN delegates /\ x.due = delegates[x.id].due
    BY <1>3, <1>8
  <2>2. \A e \in DOMAIN delegates : In(h, e) => ~Has(q, PushOf(e)) BY <1>2, <1>3, <1>10
  <2> QED BY <1>8, <2>1, <2>2 DEF HeapFits
<1>12. ASSUME Soonest(mTree) # d, mTree # NoHeap PROVE h # NoHeap /\ h[1] = mTree[1]
  <2>1. 1 \in DOMAIN mTree /\ mTree[1].id # d BY <1>3, <1>12, TopIs DEF Soonest
  <2>2. h[1] = mTree[1]
    <3>1. CASE n \in Within(mTree)
      <4>1. PICK k \in DOMAIN mTree : mTree[k] = n BY <3>1 DEF Within
      <4>2. k # 1 BY <1>1, <2>1, <4>1
      <4> QED BY <1>7, <4>1, <4>2
    <3>2. CASE n \notin Within(mTree) BY <1>6, <3>2
    <3> QED BY <3>1, <3>2
  <2>3. mTree[1] \in Within(h) BY <1>1, <1>4, <1>8, <2>1
  <2>4. Within(NoHeap) = {} BY DEF Within, NoHeap
  <2> QED BY <2>2, <2>3, <2>4
<1>13. mTree = NoHeap => h = NoHeap
  <2>1. Within(NoHeap) = {} BY DEF Within, NoHeap
  <2> QED BY <1>6, <2>1
<1>14. ~In(mTree, d) => h = mTree BY <1>1, <1>6 DEF In
<1> QED BY <1>10, <1>11, <1>12, <1>13, <1>14 DEF h, n, q

LEMMA HeapPopped ==
    ASSUME TypeOK, HeapFits(mTree, queue, delegates), mTree # NoHeap
    PROVE  /\ HeapFits(pop(mTree), queue, delegates)
           /\ Soonest(mTree) \in DOMAIN delegates /\ ~Kept(pop(mTree), queue, Soonest(mTree))
           /\ delegates[Soonest(mTree)].due = mTree[1].due
           /\ \A e : In(pop(mTree), e) <=> In(mTree, e) /\ e # Soonest(mTree)
           /\ In(mTree, Soonest(mTree)) /\ Soonest(mTree) = mTree[1].id
<1> DEFINE h == pop(mTree)
           d == mTree[1].id
<1>1. /\ IsHeap(mTree)
      /\ \A x \in Within(mTree) : x.id \in DOMAIN delegates /\ x.due = delegates[x.id].due
      /\ \A e \in DOMAIN delegates : In(mTree, e) => ~Has(queue, PushOf(e))
  BY DEF HeapFits
<1>2. 1 \in DOMAIN mTree /\ mTree[1] \in Within(mTree) BY <1>1, TopIs DEF Within
<1>3. Soonest(mTree) = d BY DEF Soonest
<1>4. h = popAt(mTree, 1) BY DEF pop
<1>5. IsHeap(h) /\ Within(h) = Within(mTree) \ {mTree[1]} BY <1>1, <1>2, <1>4, PopAtIs
<1> HIDE DEF h
<1>6. \A x \in Within(mTree) : x.id = d => x = mTree[1] BY <1>1, <1>2 DEF IsHeap, Within
<1>7. \A e : In(h, e) <=> In(mTree, e) /\ e # d BY <1>5, <1>6 DEF In
<1>8. d \in DOMAIN delegates /\ mTree[1].due = delegates[d].due BY <1>1, <1>2
<1>9. In(mTree, d) BY <1>2 DEF In
<1>10. HeapFits(h, queue, delegates)
  <2>1. \A x \in Within(h) : x.id \in DOMAIN delegates /\ x.due = delegates[x.id].due
    BY <1>1, <1>5
  <2>2. \A e \in DOMAIN delegates : In(h, e) => ~Has(queue, PushOf(e)) BY <1>1, <1>7
  <2> QED BY <1>5, <2>1, <2>2 DEF HeapFits
<1>11. ~Kept(h, queue, d) BY <1>1, <1>7, <1>8, <1>9 DEF Kept
<1> QED BY <1>3, <1>7, <1>8, <1>9, <1>10, <1>11 DEF h

-----------------------------------------------------------------------------
(* Each step keeps timers, heap and timerfd in time                          *)

LEMMA Unlike ==
    /\ \A d, e : PushOf(d) # RemoveOf(e) /\ PushOf(d) # Expire /\ RemoveOf(d) # Expire
    /\ \A d, e : (PushOf(d) = PushOf(e) \/ RemoveOf(d) = RemoveOf(e)) => d = e
<1>1. \A d : PushOf(d).type = "push" /\ RemoveOf(d).type = "remove" /\ PushOf(d).d = d /\ RemoveOf(d).d = d
  BY DEF PushOf, RemoveOf
<1>2. Expire.type = "expire" BY DEF Expire
<1>3. "push" # "remove" /\ "push" # "expire" /\ "remove" # "expire"  OBVIOUS
<1> QED BY <1>1, <1>2, <1>3

LEMMA ParametersAre ==
    /\ None \notin Clients /\ \A t \in Posts : t \in Clients
    /\ \A delay \in Delays : delay \in Nat
BY TimersAssumption

(* start and sendMsg                                                         *)
LEMMA StartInTime ==
    ASSUME TimeInv, NEW t \in Clients, NEW delay \in Delays,
           delegates' = Append(delegates, [client |-> t, due |-> now + delay]),
           queue' = queue \o <<PushOf(Len(delegates) + 1)>>,
           UNCHANGED <<world, now, mTree, fd, poll, task, client, expiry>>
    PROVE  Timely'
<1> DEFINE n == Len(delegates) + 1
<1>0. /\ IInv /\ TypeOK /\ QueueFits(queue, Len(delegates)) /\ HeapFits(mTree, queue, delegates)
      /\ RunInv /\ ExpiryInv /\ FdInv /\ EarlyInv
      /\ delay \in Nat /\ now \in Int /\ t # None
  BY ParametersAre DEF TimeInv, Timely, IInv, TypeOK
<1>1. /\ Len(delegates) \in Nat /\ DOMAIN delegates = 1..Len(delegates)
      /\ delegates \in Seq([client : Clients \cup {None}, due : Int])
  BY <1>0, DelegatesAre DEF TypeOK
<1>2. /\ DOMAIN delegates' = 1..n /\ Len(delegates') = n /\ n \in DOMAIN delegates'
      /\ \A d \in DOMAIN delegates : delegates'[d] = delegates[d] /\ d # n /\ d \in DOMAIN delegates'
      /\ \A d \in DOMAIN delegates' : d = n \/ d \in DOMAIN delegates
      /\ delegates'[n].client = t /\ delegates'[n].due = now + delay
  BY <1>1
<1>3. /\ QueueFits(queue', n) /\ ~Has(queue, PushOf(n)) /\ ~Has(queue, RemoveOf(n))
      /\ \A x : Has(queue', x) <=> Has(queue, x) \/ x = PushOf(n)
      /\ Once(queue) => Once(queue')
  <2>1. PushOf(n) \in Messages(n) BY <1>1 DEF PushOf, Messages
  <2>2. PushOf(n) # Expire BY Unlike
  <2>3. Len(delegates) + 1 = n  OBVIOUS
  <2> HIDE DEF n
  <2>4. queue' = queue \o <<PushOf(n)>> BY <2>3
  <2> QED BY <1>0, <1>1, <2>1, <2>2, <2>3, <2>4, QueueAdded, MessageAdded
<1> HIDE DEF n
<1>4. /\ \A d : Has(queue', PushOf(d)) <=> Has(queue, PushOf(d)) \/ d = n
      /\ \A d : Has(queue', RemoveOf(d)) <=> Has(queue, RemoveOf(d))
      /\ Has(queue', Expire) <=> Has(queue, Expire)
  BY <1>3, Unlike
<1>5. \A d : Kept(mTree', queue', d) <=> Kept(mTree, queue, d) \/ d = n BY <1>4 DEF Kept
<1>6. ~In(mTree, n) BY <1>0, <1>2 DEF HeapFits, In
<1>7. QueueFits(queue', Len(delegates')) BY <1>2, <1>3
<1>8. HeapFits(mTree', queue', delegates') BY <1>0, <1>2, <1>4, <1>6 DEF HeapFits
<1>9. RunInv'
  <2> SUFFICES ASSUME NEW d \in DOMAIN delegates'
               PROVE  IF delegates'[d].client = None THEN Kept(mTree', queue', d) => Has(queue', RemoveOf(d))
                      ELSE ~Has(queue', RemoveOf(d)) /\ (Kept(mTree', queue', d) \/ Expiring(d, delegates)')
    BY DEF RunInv
  <2>1. CASE d = n BY <1>0, <1>2, <1>3, <1>4, <1>5, <2>1
  <2>2. CASE d \in DOMAIN delegates
    <3>1. delegates'[d] = delegates[d] /\ d # n BY <1>2, <2>2
    <3>2. Expiring(d, delegates)' <=> Expiring(d, delegates) BY <3>1 DEF Expiring
    <3> QED BY <1>0, <1>4, <1>5, <2>2, <3>1, <3>2 DEF RunInv
  <2> QED BY <1>2, <2>1, <2>2
<1>10. ExpiryInv' BY <1>0, <1>2, <1>5 DEF ExpiryInv
<1>11. Waking' <=> Waking BY <1>4 DEF Waking
<1>12. FdInv' BY <1>0, <1>11 DEF FdInv
<1>13. EarlyInv'
  <2> SUFFICES ASSUME Steady' PROVE EarlyInv' BY DEF EarlyInv
  <2>1. Steady BY DEF Steady, Exposed
  <2>2. now <= now + delay BY <1>0
  <2>3. \A d \in DOMAIN delegates' :
           /\ Has(queue', PushOf(d)) => now' <= delegates'[d].due
           /\ Has(queue', RemoveOf(d)) => ~Kept(mTree', queue', d)
    <3> SUFFICES ASSUME NEW d \in DOMAIN delegates'
                 PROVE  /\ Has(queue', PushOf(d)) => now' <= delegates'[d].due
                        /\ Has(queue', RemoveOf(d)) => ~Kept(mTree', queue', d)
      OBVIOUS
    <3>1. CASE d = n BY <1>2, <1>3, <1>4, <2>2, <3>1
    <3>2. CASE d \in DOMAIN delegates BY <1>0, <1>2, <1>4, <1>5, <2>1, <3>2 DEF EarlyInv
    <3> QED BY <1>2, <3>1, <3>2
  <2>4. task \in {"expire", "stop"} => delegates'[expiry.delegate] = delegates[expiry.delegate]
    BY <1>0, <1>2 DEF ExpiryInv
  <2> QED BY <1>0, <1>3, <1>4, <1>11, <2>1, <2>3, <2>4 DEF EarlyInv
<1> QED BY <1>7, <1>8, <1>9, <1>10, <1>12, <1>13 DEF Timely

(* A timer that lets go of its delegate: what stop, delete and StopClient    *)
(* share                                                                     *)
LEMMA UnlinkInTime ==
    ASSUME TimeInv, NEW t \in Clients, mTimer[t] # 0, Unlink(t), UNCHANGED mTree
    PROVE  /\ mTimer[t] \in DOMAIN delegates /\ delegates[mTimer[t]].client = t
           /\ DOMAIN delegates' = DOMAIN delegates /\ Len(delegates') = Len(delegates)
           /\ delegates'[mTimer[t]].client = None
           /\ \A d \in DOMAIN delegates : delegates'[d].due = delegates[d].due
           /\ \A d \in DOMAIN delegates : d # mTimer[t] => delegates'[d].client = delegates[d].client
           /\ \A d : Has(queue', PushOf(d)) <=> Has(queue, PushOf(d))
           /\ \A d : Has(queue', RemoveOf(d)) <=> Has(queue, RemoveOf(d)) \/ d = mTimer[t]
           /\ Has(queue', Expire) <=> Has(queue, Expire)
           /\ Once(queue) => Once(queue')
           /\ QueueFits(queue', Len(delegates')) /\ HeapFits(mTree', queue', delegates')
           /\ \A d : Kept(mTree', queue', d) <=> Kept(mTree, queue, d)
<1> DEFINE n == mTimer[t]
<1>0. TypeOK /\ QueueFits(queue, Len(delegates)) /\ HeapFits(mTree, queue, delegates)
  BY DEF TimeInv, Timely, IInv
<1>1. /\ Len(delegates) \in Nat /\ DOMAIN delegates = 1..Len(delegates) /\ n \in DOMAIN delegates
      /\ delegates \in Seq([client : Clients \cup {None}, due : Int])
      /\ delegates[n].client = t
  <2>1. Len(delegates) \in Nat /\ DOMAIN delegates = 1..Len(delegates) BY <1>0, DelegatesAre
  <2>2. n \in 0..Len(delegates) /\ n # 0 BY <1>0 DEF TypeOK
  <2> QED BY <1>0, <2>1, <2>2 DEF TypeOK
<1>2. \A d \in DOMAIN delegates : delegates[d] \in [client : Clients \cup {None}, due : Int]
  BY <1>1, ElementOfSeq
<1>3. /\ delegates' = [delegates EXCEPT ![n].client = None]
      /\ queue' = queue \o <<RemoveOf(n)>>
  BY DEF Unlink, Send, RemoveOf
<1>4. /\ DOMAIN delegates' = DOMAIN delegates /\ Len(delegates') = Len(delegates)
      /\ delegates'[n].client = None /\ delegates'[n].due = delegates[n].due
      /\ \A d \in DOMAIN delegates : d # n => delegates'[d] = delegates[d]
  BY <1>1, <1>2, <1>3
<1>5. \A d \in DOMAIN delegates : delegates'[d].due = delegates[d].due BY <1>4
<1>6. RemoveOf(n) \in Messages(Len(delegates) + 1) /\ RemoveOf(n) # Expire
  BY <1>1, Unlike DEF RemoveOf, Messages
<1> HIDE DEF n
<1>7. /\ QueueFits(queue', Len(delegates))
      /\ \A x : Has(queue', x) <=> Has(queue, x) \/ x = RemoveOf(n)
      /\ Once(queue) => Once(queue')
  <2>1. QueueFits(queue', Len(delegates)) BY <1>0, <1>1, <1>3, QueueAdded
  <2> QED BY <1>0, <1>1, <1>3, <1>6, <2>1, MessageAdded
<1>8. /\ \A d : Has(queue', PushOf(d)) <=> Has(queue, PushOf(d))
      /\ \A d : Has(queue', RemoveOf(d)) <=> Has(queue, RemoveOf(d)) \/ d = n
      /\ Has(queue', Expire) <=> Has(queue, Expire)
  BY <1>7, Unlike
<1>9. HeapFits(mTree', queue', delegates') BY <1>0, <1>4, <1>5, <1>8 DEF HeapFits
<1>10. \A d : Kept(mTree', queue', d) <=> Kept(mTree, queue, d) BY <1>8 DEF Kept
<1> QED BY <1>1, <1>4, <1>5, <1>7, <1>8, <1>9, <1>10 DEF n

(* stop and ~LocTimer, which only a caller that may stop timers reaches      *)
LEMMA StopInTime ==
    ASSUME TimeInv, NEW t \in Clients, mTimer[t] # 0, Unlink(t), ~Steady,
           UNCHANGED <<world, now, mTree, fd, poll, task, client, expiry>>
    PROVE  Timely'
<1>0. /\ IInv /\ TypeOK /\ QueueFits(queue, Len(delegates)) /\ HeapFits(mTree, queue, delegates)
      /\ RunInv /\ ExpiryInv /\ FdInv
  BY DEF TimeInv, Timely, IInv
<1> DEFINE n == mTimer[t]
<1>1. /\ n \in DOMAIN delegates /\ delegates[n].client = t
      /\ DOMAIN delegates' = DOMAIN delegates
      /\ delegates'[n].client = None
      /\ \A d \in DOMAIN delegates : d # n => delegates'[d].client = delegates[d].client
      /\ \A d : Has(queue', RemoveOf(d)) <=> Has(queue, RemoveOf(d)) \/ d = n
      /\ Has(queue', Expire) <=> Has(queue, Expire)
      /\ QueueFits(queue', Len(delegates')) /\ HeapFits(mTree', queue', delegates')
      /\ \A d : Kept(mTree', queue', d) <=> Kept(mTree, queue, d)
  BY UnlinkInTime
<1> HIDE DEF n
<1>2. RunInv'
  <2> SUFFICES ASSUME NEW d \in DOMAIN delegates
               PROVE  IF delegates'[d].client = None THEN Kept(mTree', queue', d) => Has(queue', RemoveOf(d))
                      ELSE ~Has(queue', RemoveOf(d)) /\ (Kept(mTree', queue', d) \/ Expiring(d, delegates)')
    BY <1>1 DEF RunInv
  <2>1. CASE d = n BY <1>1, <2>1
  <2>2. CASE d # n
    <3>1. Expiring(d, delegates)' <=> Expiring(d, delegates) BY <1>1, <2>2 DEF Expiring
    <3> QED BY <1>0, <1>1, <2>2, <3>1 DEF RunInv
  <2> QED BY <2>1, <2>2
<1>3. ExpiryInv' BY <1>0, <1>1 DEF ExpiryInv
<1>4. Waking' <=> Waking BY <1>1 DEF Waking
<1>5. FdInv' BY <1>0, <1>4 DEF FdInv
<1>6. EarlyInv' BY DEF EarlyInv, Steady, Exposed
<1> QED BY <1>1, <1>2, <1>3, <1>5, <1>6 DEF Timely

LEMMA StopClientInTime ==
    ASSUME TimeInv, StopClient
    PROVE  Timely'
<1>0. /\ IInv /\ TypeOK /\ QueueFits(queue, Len(delegates)) /\ HeapFits(mTree, queue, delegates)
      /\ RunInv /\ ExpiryInv /\ FdInv /\ EarlyInv
  BY DEF TimeInv, Timely, IInv
<1>1. /\ task = "stop" /\ client \in alive /\ client \in Clients /\ client # None
      /\ UNCHANGED <<world, now, mTree, fd, poll>>
  BY <1>0, ParametersAre DEF StopClient, TypeOK
<1>2. \A d \in DOMAIN delegates : delegates[d].client # None => mTimer[delegates[d].client] = d
  BY <1>0 DEF TypeOK
<1>3. CASE mTimer[client] # 0
  <2> DEFINE n == mTimer[client]
  <2>1. Unlink(client) /\ task' = "call" /\ client' = client
        /\ expiry' = [expiry EXCEPT !.due = delegates[n].due]
    BY <1>1, <1>3 DEF StopClient
  <2>2. /\ n \in DOMAIN delegates /\ delegates[n].client = client
        /\ DOMAIN delegates' = DOMAIN delegates
        /\ delegates'[n].client = None
        /\ \A d \in DOMAIN delegates : delegates'[d].due = delegates[d].due
        /\ \A d \in DOMAIN delegates : d # n => delegates'[d].client = delegates[d].client
        /\ \A d : Has(queue', PushOf(d)) <=> Has(queue, PushOf(d))
        /\ \A d : Has(queue', RemoveOf(d)) <=> Has(queue, RemoveOf(d)) \/ d = n
        /\ Has(queue', Expire) <=> Has(queue, Expire)
        /\ Once(queue) => Once(queue')
        /\ QueueFits(queue', Len(delegates')) /\ HeapFits(mTree', queue', delegates')
        /\ \A d : Kept(mTree', queue', d) <=> Kept(mTree, queue, d)
    BY <1>1, <1>3, <2>1, UnlinkInTime
  <2>3. delegates[n].due \in Int BY <1>0, <2>2, DelegatesAre
  <2> HIDE DEF n
  <2>4. /\ expiry' \in [delegate : Int, due : Int, asOf : Int]
        /\ expiry'.due = delegates[n].due /\ expiry'.asOf = expiry.asOf
    BY <1>0, <2>1, <2>3 DEF ExpiryInv
  <2>5. RunInv'
    <3> SUFFICES ASSUME NEW d \in DOMAIN delegates
                 PROVE  IF delegates'[d].client = None THEN Kept(mTree', queue', d) => Has(queue', RemoveOf(d))
                        ELSE ~Has(queue', RemoveOf(d)) /\ Kept(mTree', queue', d)
      BY <2>2 DEF RunInv
    <3>1. CASE d = n BY <2>2, <3>1
    <3>2. CASE d # n
      <4>1. delegates[d].client # None => delegates[d].client # client BY <1>2, <3>2 DEF n
      <4>2. delegates[d].client # None => ~Expiring(d, delegates) BY <1>1, <4>1 DEF Expiring
      <4> QED BY <1>0, <2>2, <3>2, <4>2 DEF RunInv
    <3> QED BY <3>1, <3>2
  <2>6. ExpiryInv' BY <2>1, <2>4 DEF ExpiryInv
  <2>7. FdInv' BY <1>0, <1>1, <2>1 DEF FdInv
  <2>8. EarlyInv'
    <3> SUFFICES ASSUME Steady' PROVE EarlyInv' BY DEF EarlyInv
    <3>1. Steady BY <1>1 DEF Steady, Exposed
    <3>2. ~Waking /\ fd.set = 0 /\ expiry.asOf <= now
          /\ delegates[expiry.delegate].due <= now /\ client = delegates[expiry.delegate].client
          /\ Once(queue)
      BY <1>0, <1>1, <3>1 DEF EarlyInv, Loop
    <3>3. expiry.delegate = n BY <1>0, <1>1, <1>2, <3>2 DEF ExpiryInv, n
    <3>4. ~Kept(mTree, queue, n) BY <1>0, <1>1, <3>3 DEF ExpiryInv
    <3>5. \A d \in DOMAIN delegates' :
             /\ Has(queue', PushOf(d)) => now' <= delegates'[d].due
             /\ Has(queue', RemoveOf(d)) => ~Kept(mTree', queue', d)
      BY <1>0, <1>1, <2>2, <3>1, <3>4 DEF EarlyInv
    <3>6. ~Waking' BY <1>1, <2>2, <3>2 DEF Waking
    <3>7. poll' = "wait" /\ Once(queue') BY <1>1, <2>2, <3>2, <3>6 DEF Waking
    <3>8. fd'.set = 0 /\ expiry'.asOf <= now' /\ expiry'.due <= now' /\ task' = "call"
      BY <1>1, <2>1, <2>4, <3>2, <3>3
    <3> QED BY <3>5, <3>6, <3>7, <3>8 DEF EarlyInv
  <2> QED BY <2>2, <2>5, <2>6, <2>7, <2>8 DEF Timely
<1>4. CASE mTimer[client] = 0
  <2>1. task' = "next" /\ UNCHANGED <<delegates, queue, expiry>> BY <1>1, <1>4 DEF StopClient
  <2>2. \A d \in DOMAIN delegates : delegates[d].client # None => ~Expiring(d, delegates)
    <3> SUFFICES ASSUME NEW d \in DOMAIN delegates, delegates[d].client # None, Expiring(d, delegates)
                 PROVE  FALSE
      OBVIOUS
    <3>1. mTimer[client] = d BY <1>1, <1>2 DEF Expiring
    <3> QED BY <1>0, <1>4, <3>1, DelegatesAre
  <2>3. RunInv' BY <1>0, <1>1, <2>1, <2>2 DEF RunInv
  <2>4. ExpiryInv' /\ FdInv' BY <1>0, <1>1, <2>1 DEF ExpiryInv, FdInv
  <2>5. EarlyInv' BY <1>0, <1>1, <2>1 DEF EarlyInv, Steady, Exposed, Waking, Loop
  <2> QED BY <1>0, <1>1, <2>1, <2>3, <2>4, <2>5 DEF Timely
<1> QED BY <1>3, <1>4

(* The poll thread. Where the threads keep up with the clock, it wakes only  *)
(* for a top that is due, while the message thread rests.                    *)
LEMMA PollInTime ==
    ASSUME TimeInv, PollWakes \/ PollDisarms \/ PollRemoves \/ PollSends
    PROVE  Timely'
<1>0. /\ IInv /\ TypeOK /\ QueueFits(queue, Len(delegates)) /\ HeapFits(mTree, queue, delegates)
      /\ RunInv /\ ExpiryInv /\ FdInv /\ EarlyInv
  BY DEF TimeInv, Timely, IInv
<1>1. UNCHANGED <<world, now, delegates, mTree, task, client, expiry>>
  BY DEF PollWakes, PollDisarms, PollRemoves, PollSends
<1>2. CASE PollWakes \/ PollDisarms \/ PollRemoves
  <2>1. UNCHANGED queue BY <1>2 DEF PollWakes, PollDisarms, PollRemoves
  <2>2. RunInv' /\ ExpiryInv' BY <1>0, <1>1, <2>1 DEF RunInv, ExpiryInv, Expiring
  <2>3. Waking' /\ poll' # "wait" BY <1>2 DEF PollWakes, PollDisarms, PollRemoves, Waking
  <2>4. fd' \in [set : Int, polled : BOOLEAN]
    <3>1. fd' = fd \/ fd' = [fd EXCEPT !.set = 0] \/ fd' = [fd EXCEPT !.polled = FALSE]
      BY <1>2 DEF PollWakes, PollDisarms, PollRemoves
    <3>2. fd \in [set : Int, polled : BOOLEAN] BY <1>0 DEF FdInv
    <3>3. CASE fd' = [fd EXCEPT !.set = 0] BY <3>2, <3>3
    <3>4. CASE fd' = [fd EXCEPT !.polled = FALSE] BY <3>2, <3>4
    <3> QED BY <3>1, <3>2, <3>3, <3>4
  <2>5. FdInv' BY <1>0, <1>1, <2>3, <2>4 DEF FdInv
  <2>6. ASSUME Steady
        PROVE  /\ ~Has(queue, Expire) /\ task = "rest" /\ mTree # NoHeap /\ mTree[1].due <= now
               /\ poll' = "disarm" \/ fd'.set = 0
    <3>1. CASE PollWakes
      <4>1. poll = "wait" /\ fd.set # 0 /\ fd.set <= now /\ fd.set \in Int /\ now \in Int /\ poll' = "disarm"
        BY <1>0, <3>1 DEF PollWakes, Readable, FdInv, TypeOK
      <4>2. ~Waking BY <1>0, <2>6, <4>1 DEF EarlyInv
      <4>3. task = "rest" BY <1>0, <2>6, <4>1 DEF EarlyInv, Loop, TypeOK
      <4>4. mTree # NoHeap /\ mTree[1].due = fd.set
        BY <1>0, <2>6, <4>1, <4>2, <4>3 DEF EarlyInv, FdInv
      <4> QED BY <4>1, <4>2, <4>3, <4>4 DEF Waking
    <3>2. CASE PollDisarms \/ PollRemoves
      <4>1. Waking /\ poll # "wait" /\ (poll = "disarm" => PollDisarms)
        BY <3>2 DEF PollDisarms, PollRemoves, Waking
      <4>2. fd'.set = 0
        <5>1. CASE PollDisarms BY <1>0, <5>1 DEF PollDisarms, FdInv
        <5>2. CASE PollRemoves BY <1>0, <2>6, <4>1, <5>2 DEF PollRemoves, FdInv, EarlyInv
        <5> QED BY <3>2, <5>1, <5>2
      <4> QED BY <1>0, <2>6, <4>1, <4>2 DEF EarlyInv
    <3> QED BY <1>2, <3>1, <3>2
  <2>7. EarlyInv'
    <3> SUFFICES ASSUME Steady' PROVE EarlyInv' BY DEF EarlyInv
    <3>1. Steady BY <1>1 DEF Steady, Exposed
    <3> QED BY <1>0, <1>1, <2>1, <2>3, <2>6, <3>1 DEF EarlyInv, Loop
  <2> QED BY <1>0, <1>1, <2>1, <2>2, <2>5, <2>7 DEF Timely
<1>3. CASE PollSends
  <2>1. poll = "send" /\ poll' = "wait" /\ fd' = fd /\ queue' = queue \o <<Expire>>
    BY <1>3 DEF PollSends, Send, Expire
  <2>2. Len(delegates) \in Nat BY <1>0, DelegatesAre
  <2>3. Expire \in Messages(Len(delegates) + 1) BY DEF Messages
  <2>4. /\ QueueFits(queue', Len(delegates))
        /\ \A x : Has(queue', x) <=> Has(queue, x) \/ x = Expire
        /\ Once(queue) /\ ~Has(queue, Expire) => Once(queue')
    BY <1>0, <2>1, <2>2, <2>3, QueueAdded, MessageAdded
  <2>5. /\ \A d : Has(queue', PushOf(d)) <=> Has(queue, PushOf(d))
        /\ \A d : Has(queue', RemoveOf(d)) <=> Has(queue, RemoveOf(d))
        /\ Has(queue', Expire)
    BY <2>4, Unlike
  <2>6. \A d : Kept(mTree', queue', d) <=> Kept(mTree, queue, d) BY <1>1, <2>5 DEF Kept
  <2>7. HeapFits(mTree', queue', delegates') BY <1>0, <1>1, <2>5 DEF HeapFits
  <2>8. RunInv' BY <1>0, <1>1, <2>5, <2>6 DEF RunInv, Expiring
  <2>9. ExpiryInv' BY <1>0, <1>1, <2>6 DEF ExpiryInv
  <2>10. Waking /\ Waking' BY <2>1, <2>5 DEF Waking
  <2>11. FdInv' BY <1>0, <1>1, <2>1, <2>10 DEF FdInv
  <2>12. EarlyInv'
    <3> SUFFICES ASSUME Steady' PROVE EarlyInv' BY DEF EarlyInv
    <3>1. Steady BY <1>1 DEF Steady, Exposed
    <3>2. ~Has(queue, Expire) /\ Once(queue) /\ task = "rest" /\ mTree # NoHeap /\ mTree[1].due <= now
          /\ fd.set = 0
      BY <1>0, <2>1, <2>10, <3>1 DEF EarlyInv
    <3>3. \A d \in DOMAIN delegates :
             /\ Has(queue', PushOf(d)) => now <= delegates[d].due
             /\ Has(queue', RemoveOf(d)) => ~Kept(mTree', queue', d)
      BY <1>0, <2>5, <2>6, <3>1 DEF EarlyInv
    <3> QED BY <1>1, <2>1, <2>4, <2>10, <3>2, <3>3 DEF EarlyInv, Loop
  <2> QED BY <1>1, <2>4, <2>7, <2>8, <2>9, <2>11, <2>12 DEF Timely
<1> QED BY <1>2, <1>3

(* The message thread takes a message.                                       *)
LEMMA TakenIs ==
    ASSUME TimeInv, NEW type, Take(type)
    PROVE  /\ task = "rest" /\ queue # <<>> /\ queue' = Tail(queue)
           /\ QueueFits(queue', Len(delegates))
           /\ \A x : Has(queue, x) <=> x = Head(queue) \/ Has(queue', x)
           /\ Once(queue) => Once(queue') /\ (Head(queue) = Expire => ~Has(queue', Expire))
           /\ type = "expire" => Head(queue) = Expire
           /\ type \in {"push", "remove"} => Head(queue).d \in DOMAIN delegates
           /\ type = "push" => Head(queue) = PushOf(Head(queue).d)
           /\ type = "remove" => Head(queue) = RemoveOf(Head(queue).d)
           /\ \A d : Head(queue) = RemoveOf(d) => ~Has(queue', PushOf(d))
<1>1. TypeOK /\ QueueFits(queue, Len(delegates)) /\ task = "rest" /\ queue # <<>> /\ queue' = Tail(queue)
      /\ Head(queue).type = type
  BY DEF TimeInv, Timely, IInv, Take
<1>2. Len(delegates) \in Nat /\ DOMAIN delegates = 1..Len(delegates) BY <1>1, DelegatesAre
<1>3. /\ QueueFits(queue', Len(delegates)) /\ Head(queue) \in Messages(Len(delegates))
      /\ \A x : Has(queue, x) <=> x = Head(queue) \/ Has(queue', x)
      /\ \A d : Head(queue) = RemoveOf(d) => ~Has(queue', PushOf(d))
  BY <1>1, <1>2, QueueTaken
<1>4. Once(queue) => Once(queue') /\ (Head(queue) = Expire => ~Has(queue', Expire))
  BY <1>1, OnceTaken
<1>5. ASSUME NEW m \in Messages(Len(delegates))
      PROVE  /\ m.type = "expire" => m = Expire
             /\ m.type \in {"push", "remove"} => m.d \in 1..Len(delegates)
             /\ m.type = "push" => m = PushOf(m.d)
             /\ m.type = "remove" => m = RemoveOf(m.d)
  BY DEF Messages, Expire, PushOf, RemoveOf
<1> QED BY <1>1, <1>2, <1>3, <1>4, <1>5

(* It pushes: timerfd is set anew only for one that is sooner than the top.  *)
LEMMA PushInTime ==
    ASSUME TimeInv, MsgTimerPush
    PROVE  Timely'
<1>0. /\ IInv /\ TypeOK /\ QueueFits(queue, Len(delegates)) /\ HeapFits(mTree, queue, delegates)
      /\ RunInv /\ ExpiryInv /\ FdInv /\ EarlyInv
  BY DEF TimeInv, Timely, IInv
<1>1. /\ Take("push") /\ mTree' = push(mTree, Ranked(Head(queue).d))
      /\ task' = Update(Soonest(mTree), mTree')
      /\ UNCHANGED <<world, now, delegates, fd, poll, client, expiry>>
  BY DEF MsgTimerPush
<1>2. PICK d \in DOMAIN delegates : Head(queue) = PushOf(d) /\ Head(queue).d = d
  BY <1>1, TakenIs
<1>3. /\ task = "rest" /\ queue # <<>> /\ queue' = Tail(queue) /\ QueueFits(queue', Len(delegates))
      /\ \A x : Has(queue, x) <=> x = PushOf(d) \/ Has(queue', x)
      /\ Once(queue) => Once(queue')
  BY <1>1, <1>2, TakenIs
<1>4. /\ HeapFits(mTree', queue', delegates) /\ mTree' # NoHeap
      /\ mTree'[1] = IF mTree # NoHeap /\ ~(delegates[d].due < mTree[1].due) THEN mTree[1] ELSE Ranked(d)
      /\ \A e : In(mTree', e) <=> In(mTree, e) \/ e = d
      /\ ~In(mTree, d)
  BY <1>0, <1>1, <1>2, <1>3, HeapPushed
<1>5. /\ Has(queue, PushOf(d))
      /\ \A e : Has(queue, PushOf(e)) <=> e = d \/ Has(queue', PushOf(e))
      /\ \A e : Has(queue', RemoveOf(e)) <=> Has(queue, RemoveOf(e))
      /\ Has(queue', Expire) <=> Has(queue, Expire)
  BY <1>3, Unlike
<1>6. \A e : Kept(mTree', queue', e) <=> Kept(mTree, queue, e) BY <1>4, <1>5 DEF Kept
<1>7. /\ d \in Nat \ {0} /\ delegates[d].due \in Int /\ Ranked(d).id = d /\ Ranked(d).due = delegates[d].due
      /\ mTree # NoHeap =>
            /\ Soonest(mTree) = mTree[1].id /\ Soonest(mTree) \in DOMAIN delegates
            /\ In(mTree, Soonest(mTree)) /\ Soonest(mTree) # 0
            /\ Ranked(Soonest(mTree)).due = mTree[1].due /\ mTree[1].due \in Int
  <2>1. /\ \A e \in DOMAIN delegates : e \in Nat \ {0} /\ delegates[e].due \in Int
                                       /\ Ranked(e).id = e /\ Ranked(e).due = delegates[e].due
    BY <1>0, DelegatesAre
  <2>2. mTree # NoHeap =>
           /\ Soonest(mTree) = mTree[1].id /\ Soonest(mTree) \in DOMAIN delegates
           /\ In(mTree, Soonest(mTree)) /\ delegates[Soonest(mTree)].due = mTree[1].due
    BY <1>0, HeapPopped
  <2> QED BY <2>1, <2>2
<1>8. task' = IF mTree # NoHeap /\ ~(delegates[d].due < mTree[1].due) THEN "rest" ELSE "addPoll"
  <2>1. Soonest(mTree') = mTree'[1].id BY <1>4 DEF Soonest
  <2>2. CASE mTree = NoHeap
    <3>1. Soonest(mTree) = 0 /\ Soonest(mTree') = d /\ d # 0
      BY <1>4, <1>7, <2>1, <2>2 DEF Soonest
    <3> QED BY <1>1, <2>2, <3>1 DEF Update
  <2>3. CASE mTree # NoHeap /\ ~(delegates[d].due < mTree[1].due)
    <3>1. Soonest(mTree') = Soonest(mTree) BY <1>4, <1>7, <2>1, <2>3
    <3> QED BY <1>1, <2>3, <3>1 DEF Update
  <2>4. CASE mTree # NoHeap /\ delegates[d].due < mTree[1].due
    <3>1. mTree'[1] = Ranked(d) /\ Soonest(mTree') = d /\ Soonest(mTree) # d
      BY <1>4, <1>7, <2>1, <2>4
    <3>2. outRanks(mTree'[1], Ranked(Soonest(mTree))) BY <1>7, <2>4, <3>1 DEF outRanks
    <3> QED BY <1>1, <2>4, <3>1, <3>2 DEF Update
  <2> QED BY <2>2, <2>3, <2>4
<1>9. task' \in {"rest", "addPoll"} BY <1>8
<1>10. RunInv' BY <1>0, <1>1, <1>3, <1>5, <1>6 DEF RunInv, Expiring
<1>11. ExpiryInv' BY <1>0, <1>1, <1>9 DEF ExpiryInv
<1>12. Waking' <=> Waking BY <1>1, <1>5 DEF Waking
<1>13. FdInv' BY <1>0, <1>1, <1>3, <1>4, <1>8, <1>12 DEF FdInv
<1>14. EarlyInv'
  <2> SUFFICES ASSUME Steady' PROVE EarlyInv' BY DEF EarlyInv
  <2>1. Steady BY <1>1 DEF Steady, Exposed
  <2>2. now <= delegates[d].due /\ now \in Int BY <1>0, <1>5, <2>1 DEF EarlyInv, TypeOK
  <2>3. \A e \in DOMAIN delegates :
           /\ Has(queue', PushOf(e)) => now <= delegates[e].due
           /\ Has(queue', RemoveOf(e)) => ~Kept(mTree', queue', e)
    BY <1>0, <1>5, <1>6, <2>1 DEF EarlyInv
  <2>4. Waking => task' = "rest" /\ mTree'[1] = mTree[1] /\ mTree[1].due <= now
    <3> SUFFICES ASSUME Waking PROVE task' = "rest" /\ mTree'[1] = mTree[1] /\ mTree[1].due <= now
      OBVIOUS
    <3>1. mTree # NoHeap /\ mTree[1].due <= now BY <1>0, <2>1 DEF EarlyInv
    <3>2. ~(delegates[d].due < mTree[1].due) BY <1>7, <2>2, <3>1
    <3> QED BY <1>4, <1>8, <3>1, <3>2
  <2>5. task' = "addPoll" => fd.set = 0 \/ fd.set > now
    <3> SUFFICES ASSUME task' = "addPoll" PROVE fd.set = 0 \/ fd.set > now
      OBVIOUS
    <3>1. ~Waking BY <2>4
    <3>2. CASE mTree = NoHeap BY <1>0, <2>1, <3>1, <3>2 DEF EarlyInv
    <3>3. CASE mTree # NoHeap
      <4>1. fd.set = mTree[1].due BY <1>0, <1>3, <3>1, <3>3 DEF FdInv
      <4>2. delegates[d].due < mTree[1].due BY <1>8, <3>3
      <4> QED BY <1>7, <2>2, <3>3, <4>1, <4>2
    <3> QED BY <3>2, <3>3
  <2>6. poll # "wait" => ~Has(queue', Expire) BY <1>0, <1>5, <2>1 DEF EarlyInv
  <2>7. Waking => poll = "disarm" \/ fd.set = 0 BY <1>0, <2>1 DEF EarlyInv
  <2>8. Once(queue') BY <1>0, <1>3, <2>1 DEF EarlyInv
  <2> QED BY <1>1, <1>4, <1>9, <1>12, <2>3, <2>4, <2>5, <2>6, <2>7, <2>8 DEF EarlyInv, Loop
<1> QED BY <1>1, <1>3, <1>4, <1>10, <1>11, <1>13, <1>14 DEF Timely

(* It removes: timerfd is set anew only if that was the top.                 *)
LEMMA RemoveInTime ==
    ASSUME TimeInv, MsgTimerRemove
    PROVE  Timely'
<1>0. /\ IInv /\ TypeOK /\ QueueFits(queue, Len(delegates)) /\ HeapFits(mTree, queue, delegates)
      /\ RunInv /\ ExpiryInv /\ FdInv /\ EarlyInv
  BY DEF TimeInv, Timely, IInv
<1>1. /\ Take("remove") /\ mTree' = remove(mTree, Ranked(Head(queue).d))
      /\ task' = IF Soonest(mTree) = Head(queue).d THEN Update(0, mTree') ELSE "rest"
      /\ UNCHANGED <<world, now, delegates, fd, poll, client, expiry>>
  BY DEF MsgTimerRemove
<1>2. PICK d \in DOMAIN delegates : Head(queue) = RemoveOf(d) /\ Head(queue).d = d
  BY <1>1, TakenIs
<1>3. /\ task = "rest" /\ queue # <<>> /\ queue' = Tail(queue) /\ QueueFits(queue', Len(delegates))
      /\ \A x : Has(queue, x) <=> x = RemoveOf(d) \/ Has(queue', x)
      /\ Once(queue) => Once(queue')
      /\ ~Has(queue', PushOf(d))
  BY <1>1, <1>2, TakenIs
<1>4. /\ HeapFits(mTree', queue', delegates)
      /\ Soonest(mTree) # d => /\ mTree' = NoHeap <=> mTree = NoHeap
                               /\ mTree # NoHeap => mTree'[1] = mTree[1]
      /\ \A e : In(mTree', e) <=> In(mTree, e) /\ e # d
      /\ ~In(mTree, d) => mTree' = mTree
  BY <1>0, <1>1, <1>2, <1>3, HeapRemoved
<1>5. /\ Has(queue, RemoveOf(d))
      /\ \A e : Has(queue', PushOf(e)) <=> Has(queue, PushOf(e))
      /\ \A e : Has(queue, RemoveOf(e)) <=> e = d \/ Has(queue', RemoveOf(e))
      /\ Has(queue', Expire) <=> Has(queue, Expire)
  BY <1>3, Unlike
<1>6. \A e : Kept(mTree', queue', e) <=> Kept(mTree, queue, e) /\ e # d
  BY <1>3, <1>4, <1>5 DEF Kept
<1>7. task' \in {"rest", "addPoll"} /\ (task' = "addPoll" => mTree' # NoHeap /\ Soonest(mTree) = d)
      /\ (task' = "rest" /\ Soonest(mTree) = d => mTree' = NoHeap)
  <2>1. mTree' # NoHeap => Soonest(mTree') # 0
    <3>1. mTree' # NoHeap => Soonest(mTree') = mTree'[1].id /\ mTree'[1] \in Within(mTree')
      BY <1>4, TopIs DEF Soonest, HeapFits, Within
    <3>2. \A e \in DOMAIN delegates : e # 0 BY <1>0, DelegatesAre
    <3> QED BY <1>4, <3>1, <3>2 DEF HeapFits
  <2>2. mTree' = NoHeap => Soonest(mTree') = 0 BY DEF Soonest
  <2> QED BY <1>1, <1>2, <2>1, <2>2 DEF Update
<1>8. RunInv'
  <2> SUFFICES ASSUME NEW e \in DOMAIN delegates
               PROVE  IF delegates[e].client = None THEN Kept(mTree', queue', e) => Has(queue', RemoveOf(e))
                      ELSE ~Has(queue', RemoveOf(e)) /\ Kept(mTree', queue', e)
    BY <1>1 DEF RunInv
  <2>1. ~Expiring(e, delegates) BY <1>3 DEF Expiring
  <2>2. CASE e = d BY <1>0, <1>5, <1>6, <2>2 DEF RunInv
  <2>3. CASE e # d BY <1>0, <1>5, <1>6, <2>1, <2>3 DEF RunInv
  <2> QED BY <2>2, <2>3
<1>9. ExpiryInv' BY <1>0, <1>1, <1>7 DEF ExpiryInv
<1>10. Waking' <=> Waking BY <1>1, <1>5 DEF Waking
<1>11. FdInv' BY <1>0, <1>1, <1>3, <1>4, <1>7, <1>10 DEF FdInv
<1>12. EarlyInv'
  <2> SUFFICES ASSUME Steady' PROVE EarlyInv' BY DEF EarlyInv
  <2>1. Steady BY <1>1 DEF Steady, Exposed
  <2>2. ~In(mTree, d) BY <1>0, <1>5, <2>1 DEF EarlyInv, Kept
  <2>3. Soonest(mTree) # d
    <3>1. CASE mTree = NoHeap
      <4>1. d # 0 BY <1>0, DelegatesAre
      <4> QED BY <3>1, <4>1 DEF Soonest
    <3>2. CASE mTree # NoHeap
      <4>1. In(mTree, Soonest(mTree)) BY <1>0, <3>2, HeapPopped
      <4> QED BY <2>2, <4>1
    <3> QED BY <3>1, <3>2
  <2>4. mTree' = mTree /\ task' = "rest" BY <1>4, <1>7, <2>2, <2>3
  <2>5. \A e \in DOMAIN delegates :
           /\ Has(queue', PushOf(e)) => now <= delegates[e].due
           /\ Has(queue', RemoveOf(e)) => ~Kept(mTree', queue', e)
    BY <1>0, <1>5, <1>6, <2>1 DEF EarlyInv
  <2> QED BY <1>0, <1>1, <1>3, <1>5, <1>10, <2>1, <2>4, <2>5 DEF EarlyInv, Loop
<1> QED BY <1>1, <1>3, <1>4, <1>8, <1>9, <1>11, <1>12 DEF Timely

(* The top is taken from the heap, to call its client back: what             *)
(* MsgTimerExpire and PopNext share                                          *)
LEMMA PopInTime ==
    ASSUME TimeInv, mTree # NoHeap, task \in {"rest", "next"},
           mTree' = pop(mTree), task' = "expire",
           expiry'.delegate = Soonest(mTree), expiry' \in [delegate : Int, due : Int, asOf : Int],
           UNCHANGED <<delegates, fd, poll, world, now>>,
           \A d : Has(queue', PushOf(d)) <=> Has(queue, PushOf(d)),
           \A d : Has(queue', RemoveOf(d)) <=> Has(queue, RemoveOf(d)),
           Steady => /\ mTree[1].due <= now /\ fd.set = 0 /\ expiry'.asOf <= now
                     /\ ~Waking' /\ Once(queue')
    PROVE  HeapFits(mTree', queue', delegates') /\ RunInv' /\ ExpiryInv' /\ FdInv' /\ EarlyInv'
<1> DEFINE d == Soonest(mTree)
<1>0. /\ TypeOK /\ HeapFits(mTree, queue, delegates) /\ RunInv /\ FdInv /\ EarlyInv
  BY DEF TimeInv, Timely, IInv
<1>1. /\ HeapFits(mTree', queue, delegates) /\ d \in DOMAIN delegates /\ ~Kept(mTree', queue, d)
      /\ delegates[d].due = mTree[1].due
      /\ \A e : In(mTree', e) <=> In(mTree, e) /\ e # d
      /\ In(mTree, d)
  BY <1>0, HeapPopped
<1> HIDE DEF d
<1>2. expiry'.delegate = d BY DEF d
<1>3. HeapFits(mTree', queue', delegates') BY <1>1 DEF HeapFits
<1>4. \A e \in DOMAIN delegates : Kept(mTree', queue', e) <=> Kept(mTree, queue, e) /\ e # d
  <2>1. \A e : Kept(mTree', queue', e) <=> Kept(mTree', queue, e) BY DEF Kept
  <2>2. \A e : e # d => (Kept(mTree', queue, e) <=> Kept(mTree, queue, e)) BY <1>1 DEF Kept
  <2> QED BY <1>1, <2>1, <2>2
<1>5. RunInv'
  <2> SUFFICES ASSUME NEW e \in DOMAIN delegates
               PROVE  IF delegates[e].client = None THEN Kept(mTree', queue', e) => Has(queue', RemoveOf(e))
                      ELSE ~Has(queue', RemoveOf(e)) /\ (Kept(mTree', queue', e) \/ Expiring(e, delegates)')
    BY DEF RunInv
  <2>1. ~Expiring(e, delegates) BY DEF Expiring
  <2>2. CASE e = d
    <3>1. Expiring(e, delegates)' BY <1>2, <2>2 DEF Expiring
    <3> QED BY <1>0, <1>4, <2>2, <3>1 DEF RunInv
  <2>3. CASE e # d BY <1>0, <1>4, <2>1, <2>3 DEF RunInv
  <2> QED BY <2>2, <2>3
<1>6. ExpiryInv' BY <1>1, <1>2, <1>4 DEF ExpiryInv
<1>7. FdInv' BY <1>0 DEF FdInv
<1>8. EarlyInv'
  <2> SUFFICES ASSUME Steady' PROVE EarlyInv' BY DEF EarlyInv
  <2>1. Steady BY DEF Steady, Exposed
  <2>2. \A e \in DOMAIN delegates :
           /\ Has(queue', PushOf(e)) => now <= delegates[e].due
           /\ Has(queue', RemoveOf(e)) => ~Kept(mTree', queue', e)
    BY <1>0, <1>4, <2>1 DEF EarlyInv
  <2>3. poll' = "wait" BY <2>1 DEF Waking
  <2>4. delegates[d].due <= now BY <1>1, <2>1
  <2> QED BY <1>2, <2>1, <2>2, <2>3, <2>4 DEF EarlyInv
<1> QED BY <1>3, <1>5, <1>6, <1>7, <1>8

LEMMA UpdateForNone ==
    ASSUME TypeOK, HeapFits(mTree, queue, delegates)
    PROVE  Update(0, mTree) = IF mTree = NoHeap THEN "rest" ELSE "addPoll"
<1>1. mTree # NoHeap => Soonest(mTree) \in DOMAIN delegates BY HeapPopped
<1>2. \A e \in DOMAIN delegates : e # 0 BY DelegatesAre
<1>3. mTree = NoHeap => Soonest(mTree) = 0 BY DEF Soonest
<1> QED BY <1>1, <1>2, <1>3 DEF Update

(* MsgTimerExpire and its loop. Where the threads keep up with the clock,    *)
(* the top is due.                                                           *)
LEMMA ExpireInTime ==
    ASSUME TimeInv, MsgTimerExpire
    PROVE  Timely'
<1>0. /\ IInv /\ TypeOK /\ QueueFits(queue, Len(delegates)) /\ HeapFits(mTree, queue, delegates)
      /\ RunInv /\ ExpiryInv /\ FdInv /\ EarlyInv
  BY DEF TimeInv, Timely, IInv
<1>1. /\ Take("expire") /\ mTree' = pop(mTree)
      /\ task' = IF mTree = NoHeap THEN Update(0, mTree') ELSE "expire"
      /\ expiry' = [delegate |-> Soonest(mTree), due |-> 0, asOf |-> now]
      /\ UNCHANGED <<world, now, delegates, fd, poll, client>>
  BY DEF MsgTimerExpire
<1>2. /\ task = "rest" /\ QueueFits(queue', Len(delegates)) /\ Head(queue) = Expire
      /\ \A x : Has(queue, x) <=> x = Expire \/ Has(queue', x)
      /\ Once(queue) => Once(queue') /\ ~Has(queue', Expire)
  BY <1>1, TakenIs
<1>3. /\ \A d : Has(queue', PushOf(d)) <=> Has(queue, PushOf(d))
      /\ \A d : Has(queue', RemoveOf(d)) <=> Has(queue, RemoveOf(d))
      /\ Has(queue, Expire)
  BY <1>2, Unlike
<1>4. Waking BY <1>3 DEF Waking
<1>5. ASSUME Steady
      PROVE  /\ mTree # NoHeap /\ mTree[1].due <= now /\ fd.set = 0 /\ poll = "wait"
             /\ ~Waking' /\ Once(queue')
  <2>1. mTree # NoHeap /\ mTree[1].due <= now /\ poll = "wait" /\ fd.set = 0 /\ Once(queue)
    BY <1>0, <1>3, <1>4, <1>5 DEF EarlyInv
  <2> QED BY <1>1, <1>2, <2>1 DEF Waking
<1>6. expiry'.delegate = Soonest(mTree) /\ expiry'.asOf = now /\ now \in Int /\ now <= now
  BY <1>0, <1>1 DEF TypeOK
<1>7. expiry' \in [delegate : Int, due : Int, asOf : Int]
  <2>1. Soonest(mTree) \in Int
    <3>1. mTree # NoHeap => Soonest(mTree) \in DOMAIN delegates BY <1>0, HeapPopped
    <3>2. \A e \in DOMAIN delegates : e \in Int BY <1>0, DelegatesAre
    <3> QED BY <3>1, <3>2 DEF Soonest
  <2> QED BY <1>1, <1>6, <2>1
<1>8. CASE mTree # NoHeap
  <2>1. task' = "expire" BY <1>1, <1>8
  <2>2. HeapFits(mTree', queue', delegates') /\ RunInv' /\ ExpiryInv' /\ FdInv' /\ EarlyInv'
    BY <1>1, <1>2, <1>3, <1>5, <1>6, <1>7, <1>8, <2>1, PopInTime
  <2> QED BY <1>1, <1>2, <2>2 DEF Timely
<1>9. CASE mTree = NoHeap
  <2>1. mTree' = mTree /\ task' = "rest" BY <1>0, <1>1, <1>9, UpdateForNone DEF pop
  <2>2. HeapFits(mTree', queue', delegates') BY <1>0, <1>1, <1>3, <2>1 DEF HeapFits
  <2>3. \A e : Kept(mTree', queue', e) <=> Kept(mTree, queue, e) BY <1>3, <2>1 DEF Kept
  <2>4. RunInv' BY <1>0, <1>1, <1>2, <1>3, <2>1, <2>3 DEF RunInv, Expiring
  <2>5. ExpiryInv' BY <1>7, <2>1 DEF ExpiryInv
  <2>6. FdInv' BY <1>0, <1>1, <1>9, <2>1 DEF FdInv
  <2>7. EarlyInv' BY <1>1, <1>5, <1>9 DEF EarlyInv, Steady, Exposed
  <2> QED BY <1>1, <1>2, <2>2, <2>4, <2>5, <2>6, <2>7 DEF Timely
<1> QED BY <1>8, <1>9

LEMMA PopNextInTime ==
    ASSUME TimeInv, PopNext
    PROVE  Timely'
<1>0. /\ IInv /\ TypeOK /\ QueueFits(queue, Len(delegates)) /\ HeapFits(mTree, queue, delegates)
      /\ RunInv /\ ExpiryInv /\ FdInv /\ EarlyInv
  BY DEF TimeInv, Timely, IInv
<1>1. task = "next" /\ UNCHANGED <<world, now, delegates, queue, fd, poll, client>>
  BY DEF PopNext
<1>2. expiry \in [delegate : Int, due : Int, asOf : Int] /\ now \in Int
  BY <1>0 DEF ExpiryInv, TypeOK
<1>3. Steady => ~Waking /\ fd.set = 0 /\ expiry.asOf <= now /\ Once(queue) /\ poll = "wait"
  BY <1>0, <1>1 DEF EarlyInv, Loop, Waking
<1>4. CASE mTree # NoHeap /\ mTree[1].due <= expiry.asOf
  <2>1. mTree' = pop(mTree) /\ task' = "expire" /\ expiry' = [expiry EXCEPT !.delegate = Soonest(mTree)]
    BY <1>4 DEF PopNext
  <2>2. Soonest(mTree) \in Int /\ mTree[1].due \in Int
    <3>1. Soonest(mTree) \in DOMAIN delegates /\ delegates[Soonest(mTree)].due = mTree[1].due
      BY <1>0, <1>4, HeapPopped
    <3>2. \A e \in DOMAIN delegates : e \in Int /\ delegates[e].due \in Int
      BY <1>0, DelegatesAre
    <3> QED BY <3>1, <3>2
  <2>3. /\ expiry'.delegate = Soonest(mTree) /\ expiry'.asOf = expiry.asOf
        /\ expiry' \in [delegate : Int, due : Int, asOf : Int]
    BY <1>2, <2>1, <2>2
  <2>4. Steady => mTree[1].due <= now /\ ~Waking' /\ Once(queue')
    <3>1. Steady => mTree[1].due <= now
      <4>1. expiry.asOf \in Int BY <1>2
      <4> QED BY <1>2, <1>3, <1>4, <2>2, <4>1
    <3>2. Waking' <=> Waking BY <1>1 DEF Waking
    <3> QED BY <1>1, <1>3, <3>1, <3>2
  <2>5. HeapFits(mTree', queue', delegates') /\ RunInv' /\ ExpiryInv' /\ FdInv' /\ EarlyInv'
    BY <1>1, <1>3, <1>4, <2>1, <2>3, <2>4, PopInTime
  <2> QED BY <1>0, <1>1, <2>5 DEF Timely
<1>5. CASE ~(mTree # NoHeap /\ mTree[1].due <= expiry.asOf)
  <2>1. mTree' = mTree /\ task' = Update(0, mTree) /\ expiry' = NoExpiry BY <1>5 DEF PopNext
  <2>2. task' = IF mTree = NoHeap THEN "rest" ELSE "addPoll" BY <1>0, <2>1, UpdateForNone
  <2>3. RunInv' BY <1>0, <1>1, <2>1 DEF RunInv, Expiring
  <2>4. ExpiryInv' BY <2>1, <2>2 DEF ExpiryInv, NoExpiry
  <2>5. FdInv' BY <1>0, <1>1, <2>1, <2>2 DEF FdInv
  <2>6. EarlyInv'
    <3> SUFFICES ASSUME Steady' PROVE EarlyInv' BY DEF EarlyInv
    <3>1. Steady BY <1>1 DEF Steady, Exposed
    <3>2. ~Waking' BY <1>1, <1>3, <3>1 DEF Waking
    <3> QED BY <1>0, <1>1, <1>3, <2>1, <2>2, <3>1, <3>2 DEF EarlyInv, Loop
  <2> QED BY <1>0, <1>1, <2>1, <2>3, <2>4, <2>5, <2>6 DEF Timely
<1> QED BY <1>4, <1>5

(* The callback, and setting timerfd                                         *)
LEMMA CallInTime ==
    ASSUME TimeInv, ReadClient \/ timeOutCallback \/ CallOfTheDead \/ addPoll \/ SetTime
    PROVE  Timely'
<1>0. /\ IInv /\ TypeOK /\ QueueFits(queue, Len(delegates)) /\ HeapFits(mTree, queue, delegates)
      /\ RunInv /\ ExpiryInv /\ FdInv /\ EarlyInv
  BY DEF TimeInv, Timely, IInv
<1>1. UNCHANGED <<world, now, delegates, queue, mTree, poll, expiry>>
  BY DEF ReadClient, timeOutCallback, CallOfTheDead, addPoll, SetTime
<1>2. Waking' <=> Waking BY <1>1 DEF Waking
<1>3. Steady' <=> Steady BY <1>1 DEF Steady, Exposed
<1>4. CASE ReadClient
  <2>1. /\ task = "expire" /\ client' = delegates[expiry.delegate].client /\ fd' = fd
        /\ task' = IF client' = None THEN "next" ELSE "stop"
    BY <1>4 DEF ReadClient
  <2>2. RunInv'
    <3> SUFFICES ASSUME NEW d \in DOMAIN delegates, delegates[d].client # None, Expiring(d, delegates)
                 PROVE  Expiring(d, delegates)'
      BY <1>0, <1>1 DEF RunInv
    <3> QED BY <1>1, <2>1 DEF Expiring
  <2>3. ExpiryInv' /\ FdInv' BY <1>0, <1>1, <2>1 DEF ExpiryInv, FdInv
  <2>4. EarlyInv' BY <1>0, <1>1, <1>2, <1>3, <2>1 DEF EarlyInv, Loop
  <2> QED BY <1>0, <1>1, <2>2, <2>3, <2>4 DEF Timely
<1>5. CASE timeOutCallback \/ CallOfTheDead
  <2>1. task \in {"stop", "call"} /\ task' = "next" /\ fd' = fd /\ (task = "stop" => client \notin alive)
    BY <1>5 DEF timeOutCallback, CallOfTheDead
  <2>2. \A d \in DOMAIN delegates : delegates[d].client # None => ~Expiring(d, delegates)
    <3> SUFFICES ASSUME NEW d \in DOMAIN delegates, delegates[d].client # None, Expiring(d, delegates)
                 PROVE  FALSE
      OBVIOUS
    <3>1. task = "stop" /\ client = delegates[d].client /\ client \in Clients
      BY <1>0, <2>1, DelegatesAre DEF Expiring
    <3>2. mTimer[client] = d /\ d # 0 BY <1>0, <3>1, DelegatesAre DEF TypeOK
    <3>3. client \in alive BY <1>0, <3>1, <3>2 DEF TypeOK
    <3> QED BY <2>1, <3>1, <3>3
  <2>3. RunInv' BY <1>0, <1>1, <2>2 DEF RunInv
  <2>4. ExpiryInv' /\ FdInv' BY <1>0, <1>1, <2>1 DEF ExpiryInv, FdInv
  <2>5. EarlyInv' BY <1>0, <1>1, <1>2, <1>3, <2>1 DEF EarlyInv, Loop
  <2> QED BY <1>0, <1>1, <2>3, <2>4, <2>5 DEF Timely
<1>6. CASE addPoll
  <2>1. task = "addPoll" /\ task' = "setTime" /\ fd' = [fd EXCEPT !.polled = TRUE] /\ client' = client
    BY <1>6 DEF addPoll
  <2>2. /\ fd' \in [set : Int, polled : BOOLEAN] /\ fd'.set = fd.set /\ fd'.polled
    BY <1>0, <2>1 DEF FdInv
  <2>3. RunInv' BY <1>0, <1>1, <2>1 DEF RunInv, Expiring
  <2>4. ExpiryInv' /\ FdInv' BY <1>0, <1>1, <2>1, <2>2 DEF ExpiryInv, FdInv
  <2>5. EarlyInv' BY <1>0, <1>1, <1>2, <1>3, <2>1, <2>2 DEF EarlyInv, Loop
  <2> QED BY <1>0, <1>1, <2>3, <2>4, <2>5 DEF Timely
<1>7. CASE SetTime
  <2>1. task = "setTime" /\ task' = "rest" /\ fd' = [fd EXCEPT !.set = mTree[1].due] /\ client' = client
    BY <1>7 DEF SetTime
  <2>2. mTree # NoHeap BY <1>0, <2>1 DEF FdInv
  <2>3. mTree[1].due \in Int
    <3>1. Soonest(mTree) \in DOMAIN delegates /\ delegates[Soonest(mTree)].due = mTree[1].due
      BY <1>0, <2>2, HeapPopped
    <3> QED BY <1>0, <3>1, DelegatesAre
  <2>4. /\ fd' \in [set : Int, polled : BOOLEAN]
        /\ ~Waking => fd' = [set |-> mTree[1].due, polled |-> TRUE]
    <3>1. fd \in [set : Int, polled : BOOLEAN] /\ (~Waking => fd.polled)
      BY <1>0, <2>1 DEF FdInv
    <3> QED BY <2>1, <2>3, <3>1
  <2>5. RunInv' BY <1>0, <1>1, <2>1 DEF RunInv, Expiring
  <2>6. ExpiryInv' BY <1>0, <1>1, <2>1 DEF ExpiryInv
  <2>7. FdInv' BY <1>1, <1>2, <2>1, <2>4 DEF FdInv
  <2>8. EarlyInv' BY <1>0, <1>1, <1>2, <1>3, <2>1, <2>2 DEF EarlyInv, Loop
  <2> QED BY <1>0, <1>1, <2>5, <2>6, <2>7, <2>8 DEF Timely
<1> QED BY <1>4, <1>5, <1>6, <1>7

LEMMA TickInTime ==
    ASSUME TimeInv, Tick
    PROVE  Timely'
<1>0. /\ IInv /\ TypeOK /\ QueueFits(queue, Len(delegates)) /\ HeapFits(mTree, queue, delegates)
      /\ RunInv /\ ExpiryInv /\ FdInv /\ EarlyInv
  BY DEF TimeInv, Timely, IInv
<1>1. /\ UNCHANGED <<world, delegates, queue, mTree, fd, poll, task, client, expiry>>
      /\ "slow" \in world \/ (queue = <<>> /\ task = "rest" /\ poll = "wait")
  BY DEF Tick, AtRest
<1>2. RunInv' /\ ExpiryInv' /\ FdInv'
  BY <1>0, <1>1 DEF RunInv, Expiring, ExpiryInv, FdInv, Waking
<1>3. EarlyInv'
  <2> SUFFICES ASSUME Steady' PROVE EarlyInv' BY DEF EarlyInv
  <2>1. Steady /\ queue = <<>> /\ task = "rest" /\ poll = "wait" BY <1>1 DEF Steady, Exposed
  <2>2. \A m : ~Has(queue, m) BY <2>1 DEF Has
  <2>3. ~Waking BY <2>1, <2>2 DEF Waking
  <2> QED BY <1>0, <1>1, <2>1, <2>2, <2>3 DEF EarlyInv, Loop, Waking
<1> QED BY <1>0, <1>1, <1>2, <1>3 DEF Timely

LEMMA StepTime == TimeInv /\ [Next]_vars => TimeInv'
<1> SUFFICES ASSUME TimeInv, [Next]_vars PROVE TimeInv'
  OBVIOUS
<1>1. IInv' BY NextKeeps DEF TimeInv
<1>2. ASSUME NEW t \in Clients, NEW delay \in Delays, start(t, delay) \/ sendMsg(t, delay)
      PROVE  Timely'
  <2>1. /\ delegates' = Append(delegates, [client |-> t, due |-> now + delay])
        /\ queue' = queue \o <<PushOf(Len(delegates) + 1)>>
        /\ UNCHANGED <<world, now, mTree, fd, poll, task, client, expiry>>
    BY <1>2 DEF start, sendMsg, Send, PushOf
  <2> QED BY <2>1, StartInTime
<1>3. ASSUME NEW t \in Clients, stop(t) \/ delete(t) PROVE Timely'
  <2>1. ~Steady /\ UNCHANGED <<world, now, mTree, fd, poll, task, client, expiry>>
    BY <1>3 DEF stop, delete, Steady, Exposed
  <2>2. CASE mTimer[t] # 0
    <3>1. Unlink(t) BY <1>3, <2>2 DEF stop, delete
    <3> QED BY <2>1, <2>2, <3>1, StopInTime
  <2>3. CASE mTimer[t] = 0
    <3>1. UNCHANGED <<delegates, queue>> BY <1>3, <2>3 DEF stop, delete
    <3> QED
      BY <2>1, <3>1 DEF TimeInv, Timely, RunInv, ExpiryInv, FdInv, EarlyInv, Expiring, Waking,
        Steady, Exposed
  <2> QED BY <2>2, <2>3
<1>4. ASSUME UNCHANGED vars PROVE Timely'
  BY <1>4 DEF TimeInv, Timely, RunInv, ExpiryInv, FdInv, EarlyInv, Expiring, Waking, Steady,
    Exposed, vars
<1>5. Timely'
  BY <1>2, <1>3, <1>4, StopClientInTime, PollInTime, PushInTime, RemoveInTime, ExpireInTime,
    PopNextInTime, CallInTime, TickInTime, ParametersAre DEF Next
<1> QED BY <1>1, <1>5 DEF TimeInv

(* Whoever rests has done all that the timers need.                          *)
LEMMA TimeGives == TimeInv => InTime
<1> SUFFICES ASSUME TimeInv PROVE InTime
  OBVIOUS
<1>0. /\ TypeOK /\ HeapFits(mTree, queue, delegates) /\ RunInv /\ FdInv /\ EarlyInv
  BY DEF TimeInv, Timely, IInv
<1>1. checkNodes(mTree) BY <1>0 DEF HeapFits, IsHeap
<1>2. NotEarly BY <1>0 DEF NotEarly, EarlyInv, Steady
<1>3. ASSUME AtRest
      PROVE  /\ Within(mTree) = {Ranked(mTimer[t]) : t \in {u \in Clients : mTimer[u] # 0}}
             /\ mTree # NoHeap => fd = [set |-> mTree[1].due, polled |-> TRUE]
  <2>1. queue = <<>> /\ task = "rest" /\ poll = "wait" BY <1>3 DEF AtRest
  <2>2. \A m : ~Has(queue, m) BY <2>1 DEF Has
  <2>3. mTree # NoHeap => fd = [set |-> mTree[1].due, polled |-> TRUE]
    BY <1>0, <2>1, <2>2 DEF FdInv, Waking
  <2>4. \A d \in DOMAIN delegates : In(mTree, d) <=> delegates[d].client # None
    BY <1>0, <2>1, <2>2 DEF RunInv, Kept, Expiring
  <2>5. /\ \A d \in DOMAIN delegates : /\ d \in Nat \ {0} /\ delegates[d].client \in Clients \cup {None}
                                       /\ Ranked(d).id = d /\ Ranked(d).due = delegates[d].due
        /\ DOMAIN delegates = 1..Len(delegates) /\ Len(delegates) \in Nat
    BY <1>0, DelegatesAre
  <2>6. \A x \in Within(mTree) : x.id \in DOMAIN delegates /\ x = Ranked(x.id)
    <3>1. \A x \in Within(mTree) : x \in Ranks BY <1>0 DEF HeapFits, IsHeap, Within
    <3>2. \A x \in Within(mTree) : x.id \in DOMAIN delegates /\ x.due = delegates[x.id].due
      BY <1>0 DEF HeapFits
    <3>3. \A x \in Ranks : x = [id |-> x.id, due |-> x.due] BY DEF Ranks
    <3> QED BY <3>1, <3>2, <3>3 DEF Ranked
  <2>7. ASSUME NEW x \in Within(mTree)
        PROVE  \E t \in {u \in Clients : mTimer[u] # 0} : x = Ranked(mTimer[t])
    <3> DEFINE t == delegates[x.id].client
    <3>1. x.id \in DOMAIN delegates /\ x = Ranked(x.id) /\ In(mTree, x.id) BY <2>6 DEF In
    <3>2. t \in Clients /\ t # None BY <2>4, <2>5, <3>1
    <3>3. mTimer[t] = x.id /\ x.id # 0 BY <1>0, <2>5, <3>1, <3>2 DEF TypeOK
    <3> QED BY <3>1, <3>2, <3>3
  <2>8. ASSUME NEW t \in Clients, mTimer[t] # 0 PROVE Ranked(mTimer[t]) \in Within(mTree)
    <3>1. mTimer[t] \in DOMAIN delegates /\ delegates[mTimer[t]].client = t /\ t # None
      <4>1. mTimer[t] \in 0..Len(delegates) /\ delegates[mTimer[t]].client = t
        BY <1>0, <2>8 DEF TypeOK
      <4> QED BY <2>5, <2>8, <4>1, ParametersAre
    <3>2. PICK x \in Within(mTree) : x.id = mTimer[t] BY <2>4, <3>1 DEF In
    <3> QED BY <2>6, <3>2
  <2>9. Within(mTree) = {Ranked(mTimer[t]) : t \in {u \in Clients : mTimer[u] # 0}}
    BY <2>7, <2>8
  <2> QED BY <2>3, <2>9
<1> QED BY <1>1, <1>2, <1>3 DEF InTime, HeapServed

(* Whatever starts, stops and destroys timers, LocHeap stays in order, every *)
(* timer that runs is in it or on its way, and timerfd is set for the        *)
(* soonest; where nothing stops and the threads keep up, no client is called *)
(* before its time (LocHeap::push, pop and remove,                           *)
(* LocTimerContainer::updateSoonestTime and expire, MsgTimerExpire::proc).   *)
THEOREM TimersInTime == Spec => []InTime
<1>1. Init => TimeInv BY InitTime
<1>2. TimeInv /\ [Next]_vars => TimeInv' BY StepTime
<1>3. TimeInv => InTime BY TimeGives
<1> QED BY <1>1, <1>2, <1>3, PTL DEF Spec
====
