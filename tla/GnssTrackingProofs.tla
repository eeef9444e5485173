------------------------- MODULE GnssTrackingProofs -------------------------
(***************************************************************************)
(* What GnssTracking promises, proved for all clients, intervals, worlds   *)
(* and bounds: the types of what waits in the queues (TypeInv) and that    *)
(* every command is answered once and all are answered at rest             *)
(* (EachAnswered, from AnswerInv), and that nothing revives a session that *)
(* has ended (EndedStays, from EndInv).                                    *)
(*                                                                         *)
(* The proofs go by effect: lemmas named ...Effect say in terms of TypeInv *)
(* what each handler does with maps, requests and answers; the invariants  *)
(* are proved from them and never look into an action again.               *)
(***************************************************************************)
EXTENDS GnssTracking, SequenceTheorems, FiniteSetTheorems, WellFoundedInduction, TLAPS


-----------------------------------------------------------------------------
(* Counting in sequences                                                     *)

Places(s, T) == {k \in DOMAIN s : s[k] \in T}
Count(s, T)  == Cardinality(Places(s, T))

LEMMA FinitePlaces ==
    ASSUME NEW S, NEW s \in Seq(S), NEW T
    PROVE  /\ IsFiniteSet(Places(s, T)) /\ Count(s, T) \in Nat
           /\ Count(s, T) = 0 <=> \A k \in DOMAIN s : s[k] \notin T
           /\ Count(s, T) <= 1 =>
                 \A j, k \in DOMAIN s : s[j] \in T /\ s[k] \in T => j = k
<1>1. Len(s) \in Nat /\ DOMAIN s = 1..Len(s) BY LenProperties
<1>2. IsFiniteSet(1..Len(s)) BY <1>1, FS_Interval
<1>3. Places(s, T) \in SUBSET (1..Len(s)) BY <1>1 DEF Places
<1>4. IsFiniteSet(Places(s, T)) BY <1>2, <1>3, FS_Subset
<1>5. Count(s, T) \in Nat /\ (Count(s, T) = 0 <=> Places(s, T) = {})
  BY <1>4, FS_CardinalityType, FS_EmptySet DEF Count
<1>6. Places(s, T) = {} <=> \A k \in DOMAIN s : s[k] \notin T BY DEF Places
<1>7. ASSUME Count(s, T) <= 1, NEW j \in Places(s, T), NEW k \in Places(s, T) PROVE j = k
  <2>1. Count(s, T) = 1 BY <1>5, <1>7
  <2>2. \E x : Places(s, T) = {x} BY <1>4, <2>1, FS_Singleton DEF Count
  <2> QED BY <1>7, <2>2
<1>8. Count(s, T) <= 1 => \A j, k \in DOMAIN s : s[j] \in T /\ s[k] \in T => j = k
  BY <1>7 DEF Places
<1> QED BY <1>4, <1>5, <1>6, <1>8

LEMMA CountOfOne ==
    ASSUME NEW e, NEW T
    PROVE  /\ Count(<<>>, T) = 0
           /\ Count(<<e>>, T) = IF e \in T THEN 1 ELSE 0
<1>1. Places(<<>>, T) = {} BY DEF Places
<1>2. e \in T => Places(<<e>>, T) = {1} BY DEF Places
<1>3. e \notin T => Places(<<e>>, T) = {} BY DEF Places
<1> QED BY <1>1, <1>2, <1>3, FS_EmptySet, FS_Singleton DEF Count

(* The places of a set, moved by a number of places                          *)
LEMMA Moved ==
    ASSUME NEW P, IsFiniteSet(P), P \subseteq Nat, NEW d \in Nat
    PROVE  IsFiniteSet({k + d : k \in P}) /\ Cardinality({k + d : k \in P}) = Cardinality(P)
<1> DEFINE T == {k + d : k \in P}
           f == [k \in P |-> k + d]
<1>1. f \in [P -> T] /\ (\A x, y \in P : f[x] = f[y] => x = y) /\ (\A t \in T : \E x \in P : f[x] = t)
  OBVIOUS
<1>2. f \in Injection(P, T) BY <1>1 DEF Injection, IsInjective
<1>3. f \in Surjection(P, T) BY <1>1 DEF Surjection
<1>4. f \in Bijection(P, T) BY <1>2, <1>3 DEF Bijection
<1>5. ExistsBijection(P, T) BY <1>4 DEF ExistsBijection
<1> QED BY <1>5, FS_Bijection

LEMMA CountOfBoth ==
    ASSUME NEW S, NEW s \in Seq(S), NEW t \in Seq(S), NEW T
    PROVE  Count(s \o t, T) = Count(s, T) + Count(t, T)
<1>1. /\ s \o t \in Seq(S) /\ Len(s \o t) = Len(s) + Len(t)
      /\ \A i \in 1..(Len(s) + Len(t)) :
            (s \o t)[i] = IF i <= Len(s) THEN s[i] ELSE t[i - Len(s)]
  BY ConcatProperties
<1>2. /\ Len(s) \in Nat /\ DOMAIN s = 1..Len(s) /\ Len(t) \in Nat /\ DOMAIN t = 1..Len(t)
      /\ DOMAIN (s \o t) = 1..(Len(s) + Len(t))
  BY <1>1, LenProperties
<1> DEFINE Q == {k + Len(s) : k \in Places(t, T)}
<1>3. Places(s \o t, T) = Places(s, T) \cup Q
  <2> DEFINE r == s \o t
  <2>1. /\ DOMAIN r = 1..(Len(s) + Len(t))
        /\ \A i \in DOMAIN s : r[i] = s[i]
        /\ \A i \in DOMAIN t : r[i + Len(s)] = t[i]
    BY <1>1, <1>2
  <2> HIDE DEF r
  <2>2. ASSUME NEW k \in Places(s, T) PROVE k \in Places(r, T) BY <1>2, <2>1, <2>2 DEF Places
  <2>3. ASSUME NEW k \in Places(t, T) PROVE k + Len(s) \in Places(r, T)
    BY <1>2, <2>1, <2>3 DEF Places
  <2>4. ASSUME NEW k \in Places(r, T), k \notin Places(s, T) PROVE k \in Q
    <3>1. k \in 1..(Len(s) + Len(t)) /\ k \notin DOMAIN s /\ r[k] \in T
      BY <2>1, <2>4 DEF Places
    <3>2. k - Len(s) \in DOMAIN t /\ k = (k - Len(s)) + Len(s) BY <1>2, <3>1
    <3>3. k - Len(s) \in Places(t, T) BY <2>1, <3>1, <3>2 DEF Places
    <3> QED BY <3>2, <3>3
  <2>5. Places(r, T) = Places(s, T) \cup Q BY <2>2, <2>3, <2>4
  <2> QED BY <2>5 DEF r
<1>4. Places(s, T) \cap Q = {} BY <1>2 DEF Places
<1>5. Places(t, T) \subseteq Nat BY <1>2 DEF Places
<1>6. IsFiniteSet(Q) /\ Cardinality(Q) = Count(t, T)
  BY <1>2, <1>5, FinitePlaces, Moved DEF Count
<1>7. IsFiniteSet(Places(s, T)) /\ Count(s, T) \in Nat /\ Count(t, T) \in Nat BY FinitePlaces
<1> HIDE DEF Q
<1>8. Cardinality(Places(s, T) \cup Q)
         = Cardinality(Places(s, T)) + Cardinality(Q) - Cardinality(Places(s, T) \cap Q)
  BY <1>6, <1>7, FS_Union
<1>9. Cardinality(Places(s, T)) = Count(s, T) /\ Cardinality(Places(s \o t, T)) = Count(s \o t, T)
  BY DEF Count
<1>10. Cardinality(Places(s, T) \cap Q) = 0 BY <1>4, FS_EmptySet
<1> QED BY <1>3, <1>6, <1>7, <1>8, <1>9, <1>10

LEMMA CountAppended ==
    ASSUME NEW S, NEW s \in Seq(S), NEW e \in S, NEW T
    PROVE  Count(Append(s, e), T) = Count(s, T) + IF e \in T THEN 1 ELSE 0
<1> DEFINE h == <<e>>
<1>1. h \in Seq(S) /\ Append(s, e) = s \o h BY AppendIsConcat
<1>2. Count(h, T) = IF e \in T THEN 1 ELSE 0 BY CountOfOne
<1> HIDE DEF h
<1>3. Count(s \o h, T) = Count(s, T) + Count(h, T) BY <1>1, CountOfBoth
<1> QED BY <1>1, <1>2, <1>3

LEMMA CountTaken ==
    ASSUME NEW S, NEW s \in Seq(S), s # <<>>, NEW T
    PROVE  Count(s, T) = Count(Tail(s), T) + IF Head(s) \in T THEN 1 ELSE 0
<1>1. Head(s) \in S /\ Tail(s) \in Seq(S) BY HeadTailProperties
<1> DEFINE h == <<Head(s)>>
<1>2. h \in Seq(S) /\ s = h \o Tail(s)
  <2>1. /\ Len(Tail(s)) = Len(s) - 1 /\ Len(s) \in Nat /\ Len(Tail(s)) \in Nat
        /\ \A i \in 1..Len(Tail(s)) : Tail(s)[i] = s[i + 1]
    BY <1>1, HeadTailProperties, LenProperties
  <2>2. h \in Seq(S) /\ Len(h) = 1 /\ h[1] = s[1] BY <1>1
  <2> HIDE DEF h
  <2>3. /\ h \o Tail(s) \in Seq(S) /\ Len(h \o Tail(s)) = Len(h) + Len(Tail(s))
        /\ \A i \in 1..(Len(h) + Len(Tail(s))) :
              (h \o Tail(s))[i] = IF i <= Len(h) THEN h[i] ELSE Tail(s)[i - Len(h)]
    BY <1>1, <2>2, ConcatProperties
  <2>4. ASSUME NEW i \in 1..Len(s) PROVE (h \o Tail(s))[i] = s[i]
    <3>1. CASE i = 1 BY <2>1, <2>2, <2>3, <3>1
    <3>2. CASE i # 1
      <4>1. i - 1 \in 1..Len(Tail(s)) /\ (i - 1) + 1 = i BY <2>1, <3>2
      <4>2. Tail(s)[i - 1] = s[i] BY <2>1, <4>1
      <4> QED BY <2>1, <2>2, <2>3, <3>2, <4>2
    <3> QED BY <3>1, <3>2
  <2>5. h \o Tail(s) = s BY <2>1, <2>2, <2>3, <2>4, SeqEqual
  <2> QED BY <2>2, <2>5
<1>3. Count(h, T) = IF Head(s) \in T THEN 1 ELSE 0 BY CountOfOne
<1> HIDE DEF h
<1>4. Count(h \o Tail(s), T) = Count(h, T) + Count(Tail(s), T) BY <1>1, <1>2, CountOfBoth
<1>5. Count(Tail(s), T) \in Nat BY <1>1, FinitePlaces
<1>6. Count(s, T) = Count(h, T) + Count(Tail(s), T) BY <1>2, <1>4, Zenon
<1> QED BY <1>3, <1>5, <1>6

-----------------------------------------------------------------------------
(* The lists and intervals the handlers compute                              *)

(* Every id of a set has a place of its own in the list of the set.          *)
LEMMA AscendingLists ==
    ASSUME NEW ids, ids \subseteq Ids
    PROVE  /\ Ascending(ids) \in Seq(ids)
           /\ \A k \in DOMAIN Ascending(ids) : Ascending(ids)[k] \in ids
           /\ \A id \in ids : \E k \in DOMAIN Ascending(ids) : Ascending(ids)[k] = id
           /\ ids = {} => Ascending(ids) = <<>>
<1>1. IsFiniteSet(ids) /\ ids \subseteq Nat
  <2>1. MaxSessions \in Nat BY TrackingAssumption
  <2>2. IsFiniteSet(1..MaxSessions) BY <2>1, FS_Interval
  <2>3. IsFiniteSet(ids) BY <2>2, FS_Subset DEF Ids
  <2> QED BY <2>1, <2>3 DEF Ids
<1>2. Cardinality(ids) \in Nat BY <1>1, FS_CardinalityType
<1> DEFINE n == Cardinality(ids)
           below(id) == {other \in ids : other <= id}
           rank == [id \in ids |-> Cardinality(below(id))]
<1>3. ASSUME NEW id \in ids
      PROVE  /\ below(id) \in SUBSET ids /\ id \in below(id) /\ IsFiniteSet(below(id))
             /\ Cardinality(below(id)) \in 1..n
  <2>1. below(id) \in SUBSET ids /\ id \in below(id) BY <1>1
  <2> HIDE DEF below
  <2>2. IsFiniteSet(below(id)) /\ Cardinality(below(id)) <= n BY <1>1, <2>1, FS_Subset
  <2>3. Cardinality(below(id)) \in Nat /\ Cardinality(below(id)) # 0
    BY <2>1, <2>2, FS_CardinalityType, FS_EmptySet
  <2> QED BY <1>2, <2>1, <2>2, <2>3
<1>4. ASSUME NEW x \in ids, NEW y \in ids, Cardinality(below(x)) = Cardinality(below(y))
      PROVE  x = y
  <2>1. CASE x <= y
    <3>1. ASSUME NEW z \in below(x) PROVE z \in below(y)
      <4>1. z \in Nat /\ x \in Nat /\ y \in Nat /\ z \in ids /\ z <= x BY <1>1
      <4> QED BY <2>1, <4>1
    <3>2. below(x) = below(y)
      <4>1. below(x) \subseteq below(y) \/ below(y) \subseteq below(x) BY <3>1
      <4> HIDE DEF below
      <4> QED BY <1>3, <1>4, <4>1, FS_Subset
    <3> QED BY <1>1, <1>3, <2>1, <3>2
  <2>2. CASE y <= x
    <3>1. ASSUME NEW z \in below(y) PROVE z \in below(x)
      <4>1. z \in Nat /\ x \in Nat /\ y \in Nat /\ z \in ids /\ z <= y BY <1>1
      <4> QED BY <2>2, <4>1
    <3>2. below(x) = below(y)
      <4>1. below(x) \subseteq below(y) \/ below(y) \subseteq below(x) BY <3>1
      <4> HIDE DEF below
      <4> QED BY <1>3, <1>4, <4>1, FS_Subset
    <3> QED BY <1>1, <1>3, <2>2, <3>2
  <2> QED BY <1>1, <2>1, <2>2
<1>5. rank \in Injection(ids, 1..n)
  <2> HIDE DEF below, n
  <2> QED BY <1>3, <1>4 DEF Injection, IsInjective
<1>6. IsFiniteSet(1..n) /\ Cardinality(1..n) = n BY <1>2, FS_Interval
<1>7. rank \in Surjection(ids, 1..n) BY <1>1, <1>5, <1>6, FS_Injection
<1>8. ASSUME NEW k \in 1..n
      PROVE  \E id \in ids : Cardinality(below(id)) = k
  <2> HIDE DEF below, n
  <2> QED BY <1>7 DEF Surjection
<1> DEFINE a == [k \in 1..n |-> CHOOSE id \in ids : Cardinality(below(id)) = k]
<1>9. Ascending(ids) = a BY DEF Ascending
<1>10. ASSUME NEW k \in 1..n PROVE a[k] \in ids /\ Cardinality(below(a[k])) = k
  <2> HIDE DEF below, n
  <2> QED BY <1>8
<1>11. ASSUME NEW id \in ids PROVE \E k \in 1..n : a[k] = id
  <2>1. Cardinality(below(id)) \in 1..n BY <1>3
  <2>2. a[Cardinality(below(id))] = id
    <3> HIDE DEF below, n, a
    <3> QED BY <1>4, <1>10, <2>1
  <2> QED BY <2>1, <2>2
<1>12. DOMAIN a = 1..n /\ n \in Nat BY <1>2
<1>13. ids = {} => n = 0 BY FS_EmptySet
<1> HIDE DEF n, below
<1>14. a \in [1..n -> ids] BY <1>10
<1>15. n = 0 => a = <<>> BY <1>12
<1> HIDE DEF a
<1>16. a \in Seq(ids) BY <1>12, <1>14
<1> QED BY <1>9, <1>10, <1>11, <1>12, <1>13, <1>15, <1>16

LEMMA IntervalTypes ==
    /\ Intervals \subseteq Nat \ {0}
    /\ \A i \in Asked : Clamp(i) \in Intervals /\ i \in Nat
    /\ \A i \in {0} \cup Intervals, j \in Intervals :
          MuxWith(i, j) \in Intervals /\ MuxWith(i, j) <= j /\ (i # 0 => MuxWith(i, j) <= i)
    /\ \A j \in Intervals : MuxWith(0, j) = j
BY TrackingAssumption DEF Intervals, Clamp, MuxWith

LEMMA LeastNumber ==
    ASSUME NEW S, S \subseteq Nat, S # {}
    PROVE  \E i \in S : \A j \in S : i <= j
<1> DEFINE R == OpToRel(<, Nat)
<1>1. IsWellFoundedOn(R, Nat) BY NatLessThanWellFounded
<1>2. \A x, y \in Nat : y < x => <<y, x>> \in R BY DEF OpToRel
<1> HIDE DEF R
<1>3. \E x \in S : \A y \in S : <<y, x>> \notin R BY <1>1, WFMin
<1>4. PICK x \in S : \A y \in S : <<y, x>> \notin R BY <1>3
<1>5. ASSUME NEW y \in S PROVE x <= y
  <2>1. x \in Nat /\ y \in Nat  OBVIOUS
  <2>2. ~(y < x) BY <1>2, <1>4, <2>1, Zenon
  <2> QED BY <2>1, <2>2
<1> QED BY <1>5

(* The multiplex of sessions is the smallest of their intervals.             *)
LEMMA MuxIsLeast ==
    ASSUME timeBased \in [Ids -> {0} \cup Intervals], NEW ids, ids \subseteq Time
    PROVE  /\ ids = {} => Mux(ids) = 0
           /\ ids # {} => /\ Mux(ids) \in Intervals
                          /\ \E id \in ids : Mux(ids) = timeBased[id]
                          /\ \A id \in ids : Mux(ids) <= timeBased[id]
<1>1. CASE ids = {} BY <1>1 DEF Mux
<1>2. CASE ids # {}
  <2> DEFINE S == {timeBased[id] : id \in ids}
  <2>1. S \subseteq Intervals /\ S # {} BY <1>2 DEF Time
  <2>2. \E i \in S : \A j \in S : i <= j BY <2>1, IntervalTypes, LeastNumber
  <2>3. \E i \in S : \A id \in ids : i <= timeBased[id] BY <2>2
  <2>4. Mux(ids) = CHOOSE i \in S : \A id \in ids : i <= timeBased[id] BY <1>2 DEF Mux
  <2>5. Mux(ids) \in S /\ \A id \in ids : Mux(ids) <= timeBased[id]
    <3> HIDE DEF S
    <3> QED BY <2>3, <2>4
  <2> QED BY <1>2, <2>1, <2>5
<1> QED BY <1>1, <1>2

-----------------------------------------------------------------------------
(* Types: what waits in the queues is for sessions that exist, has sound     *)
(* intervals, and belongs to updates only where there are any.               *)

UpdateKinds == {"update", "updated", "toTime", "restart", "restarted"}

AnswersTo == [open          |-> {"none"},
              timeStart     |-> {"none", "started", "updated"},
              timeStop      |-> {"none", "stopped"},
              distanceStart |-> {"none", "started", "restarted"},
              distanceStop  |-> {"distanceStopped", "goneStopped", "toTime", "restart"}]

SoundMessages ==
    {m \in Messages :
        /\ m.what \in Commands \cup Answers => m.id \in Started
        /\ m.what \in {"start", "update"} => m.interval \in Asked
        /\ m.what \in UpdateKinds => Exposed({"updates"})
        /\ m.what \in UpdateKinds \ {"update"} => m.interval \in Intervals}

Waiting == {m \in SoundMessages : m.what \in {"start", "update"} /\ m.flag}

SoundRequests ==
    {r \in Requests :
        /\ r.then \in AnswersTo[r.do]
        /\ r.then # "none" \/ r.do \in {"distanceStart", "distanceStop"} => r.id \in Started
        /\ r.do = "timeStart" => r.interval \in Intervals
        /\ r.then \in UpdateKinds => Exposed({"updates"}) /\ r.opts \in Intervals}

(* Restarts and suspensions: nobody looks at their answers.                  *)
Unheeded == {r \in SoundRequests : r.then = "none" /\ r.do # "open"}

TypeInv ==
    /\ TypeOK
    /\ queue \in Seq(SoundMessages)
    /\ pending \in Seq(Waiting)
    /\ requests \in Seq(SoundRequests)
    /\ Time \cup Distance \subseteq Started
    /\ \A id \in Ids \ Started : unanswered[id] = 0

LEMMA MessageFields ==
    \A m \in Messages :
        /\ m.what \in Commands \cup Answers \cup {"up", "lock", "power", "remove"}
        /\ m.what \in Commands \cup Answers => m.id \in Ids /\ m.interval \in {0} \cup Asked \cup Intervals
        /\ m.what # "remove" => m.flag \in BOOLEAN
        /\ m.what = "remove" => m.client \in Clients /\ m = [what |-> "remove", client |-> m.client]
BY DEF Messages, Commands, Answers

LEMMA RequestFields ==
    \A r \in Requests :
        /\ r.do \in {"open", "timeStart", "timeStop", "distanceStart", "distanceStop"}
        /\ r.id \in {0} \cup Ids /\ r.interval \in {0} \cup Intervals
        /\ r.then \in {"none"} \cup Answers /\ r.opts \in {0} \cup Intervals
BY DEF Requests

LEMMA NewMessages ==
    /\ \A what \in Commands \cup Answers, id \in Ids, i \in {0} \cup Asked \cup Intervals, flag \in BOOLEAN :
          /\ Message(what, id, i, flag) \in Messages
          /\ Message(what, id, i, flag).what = what /\ Message(what, id, i, flag).id = id
          /\ Message(what, id, i, flag).interval = i /\ Message(what, id, i, flag).flag = flag
    /\ \A what \in {"up", "lock", "power"}, flag \in BOOLEAN :
          /\ Message(what, 0, 0, flag) \in SoundMessages
          /\ Message(what, 0, 0, flag).what = what /\ Message(what, 0, 0, flag).flag = flag
    /\ \A c \in Clients : [what |-> "remove", client |-> c] \in SoundMessages
<1>1. \A what \in Commands \cup Answers, id \in Ids, i \in {0} \cup Asked \cup Intervals, flag \in BOOLEAN :
          /\ Message(what, id, i, flag) \in Messages
          /\ Message(what, id, i, flag).what = what /\ Message(what, id, i, flag).id = id
          /\ Message(what, id, i, flag).interval = i /\ Message(what, id, i, flag).flag = flag
  BY DEF Messages, Message
<1>2. \A what \in {"up", "lock", "power"}, flag \in BOOLEAN :
          /\ Message(what, 0, 0, flag) \in Messages
          /\ Message(what, 0, 0, flag).what = what /\ Message(what, 0, 0, flag).flag = flag
  BY DEF Messages, Message
<1>3. \A what \in {"up", "lock", "power"}, flag \in BOOLEAN : Message(what, 0, 0, flag) \in SoundMessages
  BY <1>2 DEF SoundMessages, Commands, Answers, UpdateKinds
<1>4. \A c \in Clients : [what |-> "remove", client |-> c] \in Messages BY DEF Messages
<1>5. \A c \in Clients : [what |-> "remove", client |-> c] \in SoundMessages
  BY <1>4 DEF SoundMessages, Commands, Answers, UpdateKinds
<1> QED BY <1>1, <1>2, <1>3, <1>5

(* The first message of the queue                                            *)
LEMMA Received ==
    ASSUME TypeInv, NEW what, Receives(what)
    PROVE  /\ queue # <<>> /\ Head(queue) \in SoundMessages /\ Head(queue) \in Messages
           /\ Head(queue).what = what /\ Tail(queue) \in Seq(SoundMessages)
           /\ what \in Commands \cup Answers =>
                 /\ Head(queue).id \in Started /\ Head(queue).id \in Ids
                 /\ owner[Head(queue).id] \in Clients
                 /\ Head(queue).interval \in {0} \cup Asked \cup Intervals
           /\ what # "remove" => Head(queue).flag \in BOOLEAN
           /\ what = "remove" =>
                 /\ Head(queue).client \in Clients
                 /\ Head(queue) = [what |-> "remove", client |-> Head(queue).client]
           /\ what \in {"start", "update"} =>
                 /\ Head(queue).interval \in Asked
                 /\ Clamp(Head(queue).interval) \in Intervals
           /\ what \in UpdateKinds => Exposed({"updates"})
           /\ what \in UpdateKinds \ {"update"} => Head(queue).interval \in Intervals
<1>1. queue # <<>> /\ Head(queue).what = what /\ queue \in Seq(SoundMessages)
  BY DEF Receives, TypeInv
<1>2. Head(queue) \in SoundMessages /\ Tail(queue) \in Seq(SoundMessages)
  BY <1>1, HeadTailProperties
<1> DEFINE m == Head(queue)
<1>3. /\ m \in Messages
      /\ what \in Commands \cup Answers => m.id \in Started
      /\ what \in {"start", "update"} => m.interval \in Asked
      /\ what \in UpdateKinds => Exposed({"updates"})
      /\ what \in UpdateKinds \ {"update"} => m.interval \in Intervals
  BY <1>1, <1>2 DEF SoundMessages
<1>4. what \in Commands \cup Answers => m.id \in Ids /\ owner[m.id] \in Clients
  BY <1>3 DEF Started, TypeInv, TypeOK
<1> HIDE DEF m
<1>5. /\ what \in Commands \cup Answers => m.interval \in {0} \cup Asked \cup Intervals
      /\ what # "remove" => m.flag \in BOOLEAN
      /\ what = "remove" => m.client \in Clients /\ m = [what |-> "remove", client |-> m.client]
  BY <1>1, <1>3, MessageFields DEF m
<1> QED BY <1>1, <1>2, <1>3, <1>4, <1>5, IntervalTypes DEF m

(* The kinds of request that the adapter makes                               *)
LEMMA NewRequests ==
    ASSUME TypeInv
    PROVE  /\ Ask("open", 0, 0, "none", 0) \in SoundRequests
           /\ Ask("timeStop", 0, 0, "none", 0) \in SoundRequests
           /\ \A i \in Intervals : Ask("timeStart", 0, i, "none", 0) \in SoundRequests
           /\ \A id \in Started, i \in Intervals :
                 /\ Ask("timeStart", id, i, "started", 0) \in SoundRequests
                 /\ Ask("distanceStart", id, i, "started", 0) \in SoundRequests
                 /\ Ask("distanceStart", id, i, "none", 0) \in SoundRequests
                 /\ Ask("distanceStop", id, i, "goneStopped", 0) \in SoundRequests
           /\ \A id \in Started :
                 /\ Ask("timeStop", id, 0, "stopped", 0) \in SoundRequests
                 /\ Ask("distanceStop", id, 0, "distanceStopped", 0) \in SoundRequests
           /\ Exposed({"updates"}) =>
                 \A id \in Started, i, j \in Intervals :
                    /\ Ask("timeStart", id, i, "updated", j) \in SoundRequests
                    /\ Ask("distanceStop", id, 0, "toTime", i) \in SoundRequests
                    /\ Ask("distanceStop", id, 0, "restart", i) \in SoundRequests
                    /\ Ask("distanceStart", id, i, "restarted", j) \in SoundRequests
BY DEF Ask, SoundRequests, Requests, AnswersTo, Answers, UpdateKinds, Started, Ids

-----------------------------------------------------------------------------
(* What the parts of the handlers do                                         *)

LEMMA SaveEffect ==
    ASSUME TypeOK, NEW id \in Ids, NEW i \in Intervals, NEW far \in BOOLEAN, Save(id, i, far)
    PROVE  /\ timeBased' \in [Ids -> {0} \cup Intervals]
           /\ distanceBased' \in [Ids -> {0} \cup Intervals]
           /\ far /\ "timeOnly" \notin world =>
                 /\ Distance' = Distance \cup {id} /\ distanceBased'[id] = i
                 /\ UNCHANGED timeBased /\ Time' = Time
           /\ ~(far /\ "timeOnly" \notin world) =>
                 /\ Time' = Time \cup {id} /\ timeBased'[id] = i
                 /\ \A other \in Ids \ {id} : timeBased'[other] = timeBased[other]
                 /\ UNCHANGED distanceBased /\ Distance' = Distance
<1>1. i # 0 /\ i \in {0} \cup Intervals BY IntervalTypes
<1>2. timeBased \in [Ids -> {0} \cup Intervals] /\ distanceBased \in [Ids -> {0} \cup Intervals]
  BY DEF TypeOK
<1>3. CASE far /\ "timeOnly" \notin world
  <2>1. distanceBased' = [distanceBased EXCEPT ![id] = i] /\ UNCHANGED timeBased
    BY <1>3 DEF Save
  <2> QED BY <1>1, <1>2, <1>3, <2>1 DEF Time, Distance
<1>4. CASE ~(far /\ "timeOnly" \notin world)
  <2>1. timeBased' = [timeBased EXCEPT ![id] = i] /\ UNCHANGED distanceBased BY <1>4 DEF Save
  <2> QED BY <1>1, <1>2, <1>4, <2>1 DEF Time, Distance
<1> QED BY <1>3, <1>4

LEMMA EraseEffect ==
    ASSUME TypeOK, NEW id \in Ids, Erase(id)
    PROVE  /\ timeBased' \in [Ids -> {0} \cup Intervals]
           /\ distanceBased' \in [Ids -> {0} \cup Intervals]
           /\ id \in Time =>
                 /\ Time' = Time \ {id} /\ Distance' = Distance
                 /\ \A other \in Ids \ {id} : timeBased'[other] = timeBased[other]
           /\ id \notin Time =>
                 /\ Distance' = Distance \ {id} /\ Time' = Time
                 /\ UNCHANGED timeBased
<1>2. timeBased \in [Ids -> {0} \cup Intervals] /\ distanceBased \in [Ids -> {0} \cup Intervals]
  BY DEF TypeOK
<1>3. CASE id \in Time
  <2>1. timeBased' = [timeBased EXCEPT ![id] = 0] /\ UNCHANGED distanceBased BY <1>3 DEF Erase
  <2> QED BY <1>2, <1>3, <2>1 DEF Time, Distance
<1>4. CASE id \notin Time
  <2>1. distanceBased' = [distanceBased EXCEPT ![id] = 0] /\ UNCHANGED timeBased
    BY <1>4 DEF Erase
  <2> QED BY <1>2, <1>4, <2>1 DEF Time, Distance
<1> QED BY <1>3, <1>4

LEMMA ReportEffect ==
    ASSUME TypeOK, NEW id \in Ids, NEW success \in BOOLEAN, Report(id, success)
    PROVE  /\ unanswered' \in [Ids -> Int] /\ told' \in [Ids -> BOOLEAN]
           /\ \A other \in Ids \ {id} :
                 unanswered'[other] = unanswered[other] /\ told'[other] = told[other]
           /\ owner[id] \in callbacks =>
                 unanswered'[id] = unanswered[id] - 1 /\ told'[id] = success
           /\ owner[id] \notin callbacks => UNCHANGED answers
<1>1. /\ unanswered \in [Ids -> Int] /\ told \in [Ids -> BOOLEAN] BY DEF TypeOK
<1>2. CASE owner[id] \in callbacks
  <2>1. /\ unanswered' = [unanswered EXCEPT ![id] = @ - 1]
        /\ told' = [told EXCEPT ![id] = success]
    BY <1>2 DEF Report
  <2> QED BY <1>1, <1>2, <2>1
<1>3. CASE owner[id] \notin callbacks BY <1>1, <1>3 DEF Report, answers
<1> QED BY <1>2, <1>3

(* A list of no request, or of one                                           *)
NoneOr(reqs, r) == reqs = <<>> \/ reqs = <<r>>

LEMMA NoneOrSound ==
    ASSUME NEW r \in SoundRequests, NEW reqs, NoneOr(reqs, r)
    PROVE  reqs \in Seq(SoundRequests)
<1>1. <<r>> \in Seq(SoundRequests) /\ <<>> \in Seq(SoundRequests)  OBVIOUS
<1> QED BY <1>1 DEF NoneOr

LEMMA StartMultiplexEffect ==
    ASSUME TypeInv, NEW id \in Started, NEW i \in Intervals
    PROVE  /\ MuxWith(Mux(Time), i) \in Intervals
           /\ NoneOr(StartMultiplex(id, i),
                     Ask("timeStart", id, MuxWith(Mux(Time), i), "started", 0))
           /\ StartMultiplex(id, i) = <<>> <=> Mux(Time) = MuxWith(Mux(Time), i)
           /\ StartMultiplex(id, i) \in Seq(SoundRequests)
<1>1. Mux(Time) \in {0} \cup Intervals BY MuxIsLeast DEF TypeInv, TypeOK
<1>2. MuxWith(Mux(Time), i) \in Intervals BY <1>1, IntervalTypes
<1>3. /\ NoneOr(StartMultiplex(id, i), Ask("timeStart", id, MuxWith(Mux(Time), i), "started", 0))
      /\ StartMultiplex(id, i) = <<>> <=> Mux(Time) = MuxWith(Mux(Time), i)
  BY DEF StartMultiplex, NoneOr
<1>4. Ask("timeStart", id, MuxWith(Mux(Time), i), "started", 0) \in SoundRequests
  BY <1>2, NewRequests
<1> QED BY <1>2, <1>3, <1>4, NoneOrSound

LEMMA StopMultiplexEffect ==
    ASSUME TypeInv, NEW id \in Time
    PROVE  /\ Time = {id} =>
                 StopMultiplex(id) = <<Ask("timeStop", id, 0, "stopped", 0)>>
           /\ Time # {id} =>
                 /\ Mux(Time \ {id}) \in Intervals
                 /\ NoneOr(StopMultiplex(id),
                           Ask("timeStart", id, Mux(Time \ {id}), "started", 0))
                 /\ StopMultiplex(id) = <<>> <=> Mux(Time \ {id}) = Mux(Time)
           /\ StopMultiplex(id) \in Seq(SoundRequests)
<1>1. CASE Time = {id}
  <2>1. StopMultiplex(id) = <<Ask("timeStop", id, 0, "stopped", 0)>> BY <1>1 DEF StopMultiplex
  <2>2. id \in Started BY DEF TypeInv
  <2>3. Ask("timeStop", id, 0, "stopped", 0) \in SoundRequests BY <2>2, NewRequests
  <2>4. StopMultiplex(id) \in Seq(SoundRequests) BY <2>1, <2>3, NoneOrSound DEF NoneOr
  <2> QED BY <1>1, <2>1, <2>4
<1>2. CASE Time # {id}
  <2>1. Time \ {id} # {} /\ Time \ {id} \subseteq Time BY <1>2
  <2>2. Mux(Time \ {id}) \in Intervals BY <2>1, MuxIsLeast DEF TypeInv, TypeOK
  <2>3. /\ NoneOr(StopMultiplex(id), Ask("timeStart", id, Mux(Time \ {id}), "started", 0))
        /\ StopMultiplex(id) = <<>> <=> Mux(Time \ {id}) = Mux(Time)
    BY <1>2 DEF StopMultiplex, NoneOr
  <2>4. Ask("timeStart", id, Mux(Time \ {id}), "started", 0) \in SoundRequests
    BY <2>2, NewRequests DEF TypeInv
  <2> QED BY <1>2, <2>2, <2>3, <2>4, NoneOrSound
<1> QED BY <1>1, <1>2

LEMMA UpdateMultiplexEffect ==
    ASSUME TypeInv, Exposed({"updates"}), NEW id \in Time, NEW i \in Intervals
    PROVE  LET new == MuxWith(Mux(Time \ {id}), i)
           IN /\ new \in Intervals /\ timeBased[id] \in Intervals
              /\ NoneOr(UpdateMultiplex(id, i), Ask("timeStart", id, new, "updated", timeBased[id]))
              /\ UpdateMultiplex(id, i) = <<>> <=> Mux(Time) = new
              /\ UpdateMultiplex(id, i) \in Seq(SoundRequests)
<1> DEFINE new == MuxWith(Mux(Time \ {id}), i)
           r == Ask("timeStart", id, new, "updated", timeBased[id])
<1>1. Mux(Time \ {id}) \in {0} \cup Intervals BY MuxIsLeast DEF TypeInv, TypeOK
<1>2. new \in Intervals /\ timeBased[id] \in Intervals
  BY <1>1, IntervalTypes DEF TypeInv, TypeOK, Time
<1>3. NoneOr(UpdateMultiplex(id, i), r) /\ (UpdateMultiplex(id, i) = <<>> <=> Mux(Time) = new)
  BY DEF UpdateMultiplex, NoneOr
<1>4. r \in SoundRequests BY <1>2, NewRequests DEF TypeInv
<1> HIDE DEF new, r
<1>5. UpdateMultiplex(id, i) \in Seq(SoundRequests) BY <1>3, <1>4, NoneOrSound
<1> QED BY <1>2, <1>3, <1>5 DEF new, r

(* One request for each distance-based session of a set                      *)
LEMMA DistanceRequestsEffect ==
    ASSUME TypeInv, NEW ids, ids \subseteq Distance, NEW do, NEW then,
           \A id \in ids : Ask(do, id, distanceBased[id], then, 0) \in SoundRequests
    PROVE  LET reqs == DistanceRequests(do, ids, then)
           IN /\ reqs \in Seq(SoundRequests)
              /\ \A k \in DOMAIN reqs :
                    \E id \in ids : reqs[k] = Ask(do, id, distanceBased[id], then, 0)
              /\ \A id \in ids :
                    \E k \in DOMAIN reqs : reqs[k] = Ask(do, id, distanceBased[id], then, 0)
              /\ ids = {} => reqs = <<>>
<1> DEFINE order == Ascending(ids)
           reqs == [k \in DOMAIN order |-> Ask(do, order[k], distanceBased[order[k]], then, 0)]
<1>1. ids \subseteq Ids BY DEF Distance
<1>2. /\ order \in Seq(ids)
      /\ \A k \in DOMAIN order : order[k] \in ids
      /\ \A id \in ids : \E k \in DOMAIN order : order[k] = id
      /\ ids = {} => order = <<>>
  BY <1>1, AscendingLists
<1>3. Len(order) \in Nat /\ DOMAIN order = 1..Len(order) BY <1>2, LenProperties
<1> HIDE DEF order
<1>4. /\ \A k \in DOMAIN reqs :
            \E id \in ids : reqs[k] = Ask(do, id, distanceBased[id], then, 0)
      /\ \A id \in ids :
            \E k \in DOMAIN reqs : reqs[k] = Ask(do, id, distanceBased[id], then, 0)
  BY <1>2
<1>5. reqs \in [1..Len(order) -> SoundRequests] BY <1>2, <1>3
<1>6. reqs \in Seq(SoundRequests) BY <1>3, <1>5
<1>7. ids = {} => reqs = <<>> BY <1>2
<1>8. DistanceRequests(do, ids, then) = reqs BY DEF DistanceRequests, order
<1> HIDE DEF reqs
<1> QED BY <1>4, <1>6, <1>7, <1>8

(* A restart asks for the multiplex first, then for each distance-based      *)
(* session.                                                                  *)
LEMMA RestartEffect ==
    ASSUME TypeInv
    PROVE  \E rest \in Seq(SoundRequests) :
              /\ Restart = (IF Time = {} THEN <<>>
                            ELSE <<Ask("timeStart", 0, Mux(Time), "none", 0)>>) \o rest
              /\ Restart \in Seq(Unheeded) /\ Restart \in Seq(SoundRequests)
              /\ \A k \in DOMAIN rest : \E id \in Distance :
                    rest[k] = Ask("distanceStart", id, distanceBased[id], "none", 0)
              /\ \A id \in Distance : \E k \in DOMAIN rest :
                    rest[k] = Ask("distanceStart", id, distanceBased[id], "none", 0)
              /\ Distance = {} => rest = <<>>
<1> DEFINE rest  == DistanceRequests("distanceStart", Distance, "none")
           first == IF Time = {} THEN <<>> ELSE <<Ask("timeStart", 0, Mux(Time), "none", 0)>>
<1>1. \A id \in Distance : Ask("distanceStart", id, distanceBased[id], "none", 0) \in SoundRequests
  BY NewRequests DEF TypeInv, TypeOK, Distance
<1>2. /\ rest \in Seq(SoundRequests)
      /\ \A k \in DOMAIN rest : \E id \in Distance :
            rest[k] = Ask("distanceStart", id, distanceBased[id], "none", 0)
      /\ \A id \in Distance : \E k \in DOMAIN rest :
            rest[k] = Ask("distanceStart", id, distanceBased[id], "none", 0)
      /\ Distance = {} => rest = <<>>
  BY <1>1, DistanceRequestsEffect
<1>3. first \in Seq(SoundRequests)
  <2>1. Time # {} => Mux(Time) \in Intervals BY MuxIsLeast DEF TypeInv, TypeOK
  <2>2. Time # {} => Ask("timeStart", 0, Mux(Time), "none", 0) \in SoundRequests
    BY <2>1, NewRequests
  <2> QED BY <2>2
<1>4. Restart = first \o rest BY DEF Restart
<1>5. first \in Seq(Unheeded)
  <2>1. /\ Ask("timeStart", 0, Mux(Time), "none", 0).then = "none"
        /\ Ask("timeStart", 0, Mux(Time), "none", 0).do # "open"
    BY DEF Ask
  <2>2. Time # {} => Mux(Time) \in Intervals BY MuxIsLeast DEF TypeInv, TypeOK
  <2>3. Time # {} => Ask("timeStart", 0, Mux(Time), "none", 0) \in Unheeded
    BY <2>1, <2>2, NewRequests DEF Unheeded
  <2> QED BY <2>3
<1>6. rest \in Seq(Unheeded)
  <2>1. \A id : /\ Ask("distanceStart", id, distanceBased[id], "none", 0).then = "none"
                /\ Ask("distanceStart", id, distanceBased[id], "none", 0).do # "open"
    BY DEF Ask
  <2> HIDE DEF rest
  <2>2. \A k \in DOMAIN rest : rest[k] \in Unheeded BY <1>1, <1>2, <2>1 DEF Unheeded
  <2> QED BY <1>2, <2>2, LenProperties, IsASeq
<1> HIDE DEF rest, first
<1>7. Restart \in Seq(Unheeded) /\ Restart \in Seq(SoundRequests)
  BY <1>2, <1>3, <1>4, <1>5, <1>6, ConcatProperties
<1> QED BY <1>2, <1>4, <1>7 DEF first

LEMMA SuspendEffect ==
    ASSUME TypeInv
    PROVE  Suspend \in Seq(Unheeded)
<1>1. Ask("timeStop", 0, 0, "none", 0) \in Unheeded BY NewRequests DEF Unheeded, Ask
<1> QED BY <1>1 DEF Suspend

-----------------------------------------------------------------------------
(* What each handler does: which requests it makes, and whom it answers      *)

LEMMA SentOne ==
    ASSUME TypeInv, NEW r \in SoundRequests
    PROVE  /\ requests \o <<r>> = Append(requests, r)
           /\ Append(requests, r) \in Seq(SoundRequests)
           /\ requests \o <<>> = requests
BY AppendIsConcat, AppendProperties, ConcatEmptySeq DEF TypeInv

LEMMA SendOrReportEffect ==
    ASSUME TypeInv, NEW id, NEW r \in SoundRequests, NEW reqs, NoneOr(reqs, r),
           SendOrReport(id, reqs)
    PROVE  \/ reqs = <<>> /\ UNCHANGED requests /\ Report(id, TRUE)
           \/ reqs # <<>> /\ requests' = Append(requests, r) /\ UNCHANGED answers
<1>1. requests' = requests \o reqs BY DEF SendOrReport, Send
<1>2. CASE reqs = <<>> BY <1>1, <1>2, SentOne DEF SendOrReport
<1>3. CASE reqs = <<r>>
  <2>1. reqs # <<>> BY <1>3
  <2> QED BY <1>1, <1>3, <2>1, SentOne DEF SendOrReport
<1> QED BY <1>2, <1>3 DEF NoneOr

(* A message of the adapter is handled: what no command or answer changes    *)
HandledEffect ==
    /\ queue' = Tail(queue)
    /\ UNCHANGED <<world, clients, owner, stopped, commands, events, callbacks, known, power,
                   engineLock, modemUp, running, runningDistance>>

Far(m) == m.flag /\ "timeOnly" \notin world

LEMMA StartEffect ==
    ASSUME TypeInv, ProcStart
    PROVE  LET m == Head(queue)
               i == Clamp(m.interval)
               r == Ask("timeStart", m.id, MuxWith(Mux(Time), i), "started", 0)
           IN /\ Receives("start") /\ HandledEffect /\ UNCHANGED pending
              /\ ~Postpone(m) /\ i \in Intervals
              /\ \/ /\ owner[m.id] \notin callbacks \/ "bare" \in world
                    /\ UNCHANGED <<unanswered, told, timeBased, distanceBased, requests>>
                 \/ /\ owner[m.id] \in callbacks /\ "bare" \notin world
                    /\ Save(m.id, i, m.flag)
                    /\ \/ /\ Far(m)
                          /\ requests' = Append(requests, Ask("distanceStart", m.id, i, "started", 0))
                          /\ Ask("distanceStart", m.id, i, "started", 0) \in SoundRequests
                          /\ UNCHANGED <<unanswered, told>>
                       \/ /\ ~Far(m) /\ Mux(Time) = MuxWith(Mux(Time), i)
                          /\ UNCHANGED requests /\ Report(m.id, TRUE)
                       \/ /\ ~Far(m) /\ Mux(Time) # MuxWith(Mux(Time), i)
                          /\ requests' = Append(requests, r) /\ r \in SoundRequests
                          /\ UNCHANGED <<unanswered, told>>
<1> DEFINE m == Head(queue)
           i == Clamp(m.interval)
           r == Ask("timeStart", m.id, MuxWith(Mux(Time), i), "started", 0)
           d == Ask("distanceStart", m.id, i, "started", 0)
<1>1. Receives("start") /\ HandledEffect /\ UNCHANGED pending /\ ~Postpone(m)
  BY DEF ProcStart, Handled, HandledEffect, users, modem
<1>2. m.id \in Started /\ i \in Intervals BY <1>1, Received DEF Commands
<1>3. CASE owner[m.id] \notin callbacks \/ "bare" \in world
  <2>1. UNCHANGED <<unanswered, told, timeBased, distanceBased, requests>>
    BY <1>3 DEF ProcStart, answers, sessions
  <2> QED BY <1>1, <1>2, <1>3, <2>1
<1>4. CASE ~(owner[m.id] \notin callbacks \/ "bare" \in world)
  <2>1. Save(m.id, i, m.flag) BY <1>4 DEF ProcStart
  <2>2. CASE Far(m)
    <3>1. requests' = requests \o <<d>> /\ UNCHANGED <<unanswered, told>>
      BY <1>4, <2>2 DEF ProcStart, Far, Send, answers
    <3>2. d \in SoundRequests BY <1>2, NewRequests
    <3>3. requests' = Append(requests, d) BY <3>1, <3>2, SentOne
    <3> QED BY <1>1, <1>2, <1>4, <2>1, <2>2, <3>1, <3>2, <3>3
  <2>3. CASE ~Far(m)
    <3>1. SendOrReport(m.id, StartMultiplex(m.id, i)) BY <1>4, <2>3 DEF ProcStart, Far
    <3>2. /\ NoneOr(StartMultiplex(m.id, i), r)
          /\ StartMultiplex(m.id, i) = <<>> <=> Mux(Time) = MuxWith(Mux(Time), i)
          /\ MuxWith(Mux(Time), i) \in Intervals
      BY <1>2, StartMultiplexEffect
    <3>3. r \in SoundRequests BY <1>2, <3>2, NewRequests
    <3> HIDE DEF r, i, m
    <3>4. \/ Mux(Time) = MuxWith(Mux(Time), i) /\ UNCHANGED requests /\ Report(m.id, TRUE)
          \/ /\ Mux(Time) # MuxWith(Mux(Time), i) /\ requests' = Append(requests, r)
             /\ UNCHANGED <<unanswered, told>>
      <4>1. \/ StartMultiplex(m.id, i) = <<>> /\ UNCHANGED requests /\ Report(m.id, TRUE)
            \/ /\ StartMultiplex(m.id, i) # <<>>
               /\ requests' = Append(requests, r) /\ UNCHANGED answers
        BY <3>1, <3>2, <3>3, SendOrReportEffect
      <4> QED BY <3>2, <4>1 DEF answers
    <3> QED BY <1>1, <1>2, <1>4, <2>1, <2>3, <3>3, <3>4 DEF m, i, r
  <2> QED BY <2>2, <2>3
<1> QED BY <1>3, <1>4

LEMMA StopEffect ==
    ASSUME TypeInv, ProcStop
    PROVE  LET id == Head(queue).id
               last == Ask("timeStop", id, 0, "stopped", 0)
               next == Ask("timeStart", id, Mux(Time \ {id}), "started", 0)
               far  == Ask("distanceStop", id, 0, "distanceStopped", 0)
           IN /\ Receives("stop") /\ HandledEffect /\ UNCHANGED pending
              /\ \/ /\ id \in Time /\ Erase(id)
                    /\ \/ /\ Time = {id} /\ UNCHANGED <<unanswered, told>>
                          /\ requests' = Append(requests, last) /\ last \in SoundRequests
                       \/ /\ Time # {id} /\ Mux(Time \ {id}) = Mux(Time)
                          /\ UNCHANGED requests /\ Report(id, TRUE)
                       \/ /\ Time # {id} /\ Mux(Time \ {id}) # Mux(Time)
                          /\ UNCHANGED <<unanswered, told>>
                          /\ requests' = Append(requests, next) /\ next \in SoundRequests
                 \/ /\ id \in Distance \ Time
                    /\ requests' = Append(requests, far) /\ far \in SoundRequests
                    /\ UNCHANGED <<unanswered, told, timeBased, distanceBased>>
                 \/ /\ id \notin Time \cup Distance /\ Report(id, FALSE)
                    /\ UNCHANGED <<timeBased, distanceBased, requests>>
<1> DEFINE id   == Head(queue).id
           last == Ask("timeStop", id, 0, "stopped", 0)
           next == Ask("timeStart", id, Mux(Time \ {id}), "started", 0)
           far  == Ask("distanceStop", id, 0, "distanceStopped", 0)
<1>1. Receives("stop") /\ HandledEffect /\ UNCHANGED pending
  BY DEF ProcStop, Handled, HandledEffect, users, modem
<1>2. id \in Started /\ id \in Ids BY <1>1, Received DEF Commands
<1>3. \/ id \in Time /\ SendOrReport(id, StopMultiplex(id)) /\ Erase(id)
      \/ id \in Distance \ Time /\ Send(<<far>>) /\ UNCHANGED <<sessions, answers>>
      \/ id \notin Time \cup Distance /\ Report(id, FALSE) /\ UNCHANGED <<sessions, requests>>
  BY DEF ProcStop
<1>4. CASE id \in Time /\ SendOrReport(id, StopMultiplex(id)) /\ Erase(id)
  <2>1. last \in SoundRequests BY <1>2, NewRequests
  <2>2. CASE Time = {id}
    <3>1. NoneOr(StopMultiplex(id), last) /\ StopMultiplex(id) # <<>>
      <4>1. StopMultiplex(id) = <<last>> BY <1>4, <2>2, StopMultiplexEffect
      <4> QED BY <4>1 DEF NoneOr
    <3> HIDE DEF id, last
    <3>2. requests' = Append(requests, last) /\ UNCHANGED answers
      BY <1>4, <2>1, <3>1, SendOrReportEffect
    <3> QED BY <1>1, <1>4, <2>1, <2>2, <3>2 DEF answers, id, last
  <2>3. CASE Time # {id}
    <3>1. /\ NoneOr(StopMultiplex(id), next)
          /\ StopMultiplex(id) = <<>> <=> Mux(Time \ {id}) = Mux(Time)
          /\ Mux(Time \ {id}) \in Intervals
      BY <1>4, <2>3, StopMultiplexEffect
    <3>2. next \in SoundRequests BY <1>2, <3>1, NewRequests
    <3> HIDE DEF id, next
    <3>3. \/ StopMultiplex(id) = <<>> /\ UNCHANGED requests /\ Report(id, TRUE)
          \/ /\ StopMultiplex(id) # <<>>
             /\ requests' = Append(requests, next) /\ UNCHANGED answers
      BY <1>4, <3>1, <3>2, SendOrReportEffect
    <3>4. \/ /\ Mux(Time \ {id}) = Mux(Time) /\ UNCHANGED requests /\ Report(id, TRUE)
          \/ /\ Mux(Time \ {id}) # Mux(Time) /\ UNCHANGED <<unanswered, told>>
             /\ requests' = Append(requests, next)
      BY <3>1, <3>3 DEF answers
    <3> QED BY <1>1, <1>4, <2>3, <3>2, <3>4 DEF id, next
  <2> QED BY <2>2, <2>3
<1>5. CASE id \in Distance \ Time /\ Send(<<far>>) /\ UNCHANGED <<sessions, answers>>
  <2>1. far \in SoundRequests BY <1>2, NewRequests
  <2>2. requests' = Append(requests, far) BY <1>5, <2>1, SentOne DEF Send
  <2> QED BY <1>1, <1>5, <2>1, <2>2 DEF sessions, answers
<1>6. CASE id \notin Time \cup Distance /\ Report(id, FALSE) /\ UNCHANGED <<sessions, requests>>
  BY <1>1, <1>6 DEF sessions
<1> QED BY <1>3, <1>4, <1>5, <1>6

LEMMA UpdateEffect ==
    ASSUME TypeInv, ProcUpdate
    PROVE  LET m    == Head(queue)
               id   == m.id
               i    == Clamp(m.interval)
               last == Ask("timeStop", id, 0, "stopped", 0)
               next == Ask("timeStart", id, Mux(Time \ {id}), "started", 0)
               dist == Ask("distanceStart", id, i, "none", 0)
               new  == Ask("timeStart", id, MuxWith(Mux(Time \ {id}), i), "updated", timeBased[id])
               time == Ask("distanceStop", id, 0, "toTime", i)
               again == Ask("distanceStop", id, 0, "restart", i)
           IN /\ Receives("update") /\ HandledEffect /\ UNCHANGED pending
              /\ ~Postpone(m) /\ i \in Intervals /\ Exposed({"updates"})
              /\ dist \in SoundRequests /\ time \in SoundRequests /\ again \in SoundRequests
              /\ \/ /\ id \notin Time \cup Distance
                    /\ Report(id, FALSE) /\ UNCHANGED <<timeBased, distanceBased, requests>>
                 \/ /\ id \in Time /\ m.flag
                    /\ \/ /\ Time = {id} /\ last \in SoundRequests /\ UNCHANGED <<unanswered, told>>
                          /\ requests' = Append(Append(requests, last), dist)
                       \/ /\ Time # {id} /\ Mux(Time \ {id}) = Mux(Time) /\ Report(id, TRUE)
                          /\ requests' = Append(requests, dist)
                       \/ /\ Time # {id} /\ next \in SoundRequests /\ UNCHANGED <<unanswered, told>>
                          /\ requests' = Append(Append(requests, next), dist)
                    /\ IF "timeOnly" \in world
                       THEN timeBased' = [timeBased EXCEPT ![id] = i] /\ UNCHANGED distanceBased
                       ELSE /\ timeBased' = [timeBased EXCEPT ![id] = 0]
                            /\ distanceBased' = [distanceBased EXCEPT ![id] = i]
                 \/ /\ id \in Distance /\ ~m.flag /\ Erase(id) /\ UNCHANGED <<unanswered, told>>
                    /\ requests' = Append(requests, time)
                 \/ /\ id \in Time \ Distance /\ ~m.flag /\ Save(id, i, FALSE)
                    /\ \/ /\ Mux(Time) = MuxWith(Mux(Time \ {id}), i)
                          /\ UNCHANGED requests /\ Report(id, TRUE)
                       \/ /\ Mux(Time) # MuxWith(Mux(Time \ {id}), i)
                          /\ requests' = Append(requests, new) /\ new \in SoundRequests
                          /\ UNCHANGED <<unanswered, told>>
                 \/ /\ id \in Distance \ Time /\ m.flag
                    /\ requests' = Append(requests, again)
                    /\ UNCHANGED <<unanswered, told, timeBased, distanceBased>>
<1> DEFINE m    == Head(queue)
           id   == m.id
           i    == Clamp(m.interval)
           last == Ask("timeStop", id, 0, "stopped", 0)
           next == Ask("timeStart", id, Mux(Time \ {id}), "started", 0)
           dist == Ask("distanceStart", id, i, "none", 0)
           new  == Ask("timeStart", id, MuxWith(Mux(Time \ {id}), i), "updated", timeBased[id])
           time == Ask("distanceStop", id, 0, "toTime", i)
           again == Ask("distanceStop", id, 0, "restart", i)
<1>1. Receives("update") /\ HandledEffect /\ UNCHANGED pending /\ ~Postpone(m)
  BY DEF ProcUpdate, Handled, HandledEffect, users, modem
<1>2. id \in Started /\ id \in Ids /\ i \in Intervals /\ Exposed({"updates"})
  BY <1>1, Received DEF Commands, UpdateKinds
<1>3. dist \in SoundRequests /\ time \in SoundRequests /\ again \in SoundRequests
  BY <1>2, NewRequests
<1>4. \/ /\ id \notin Time \cup Distance
         /\ Report(id, FALSE) /\ UNCHANGED <<sessions, requests>>
      \/ /\ id \in Time /\ m.flag
         /\ SwitchToDistance(id, i)
      \/ /\ id \in Distance /\ ~m.flag
         /\ Send(<<time>>)
         /\ Erase(id) /\ UNCHANGED answers
      \/ /\ id \in Time \ Distance /\ ~m.flag
         /\ SendOrReport(id, UpdateMultiplex(id, i))
         /\ Save(id, i, FALSE)
      \/ /\ id \in Distance \ Time /\ m.flag
         /\ Send(<<again>>)
         /\ UNCHANGED <<sessions, answers>>
  BY DEF ProcUpdate
<1>5. CASE id \notin Time \cup Distance /\ Report(id, FALSE) /\ UNCHANGED <<sessions, requests>>
  BY <1>1, <1>2, <1>3, <1>5 DEF sessions
<1>6. CASE id \in Time /\ m.flag /\ SwitchToDistance(id, i)
  <2>1. IF "timeOnly" \in world
        THEN timeBased' = [timeBased EXCEPT ![id] = i] /\ UNCHANGED distanceBased
        ELSE /\ timeBased' = [timeBased EXCEPT ![id] = 0]
             /\ distanceBased' = [distanceBased EXCEPT ![id] = i]
    BY <1>6 DEF SwitchToDistance
  <2>2. /\ requests' = requests \o StopMultiplex(id) \o <<dist>>
        /\ StopMultiplex(id) = <<>> => Report(id, TRUE)
        /\ StopMultiplex(id) # <<>> => UNCHANGED <<unanswered, told>>
    BY <1>6 DEF SwitchToDistance, answers
  <2>3. requests \in Seq(SoundRequests) BY DEF TypeInv
  <2>4. ASSUME NEW s \in Seq(SoundRequests) PROVE s \o <<dist>> = Append(s, dist)
    BY <1>3, AppendIsConcat
  <2>5. CASE Time = {id}
    <3>1. StopMultiplex(id) = <<last>> BY <1>6, <2>5, StopMultiplexEffect
    <3>2. last \in SoundRequests /\ StopMultiplex(id) # <<>>
      <4>1. last \in SoundRequests BY <1>2, NewRequests
      <4> HIDE DEF last
      <4> QED BY <3>1, <4>1
    <3>3. requests \o StopMultiplex(id) = Append(requests, last) /\ Append(requests, last) \in Seq(SoundRequests)
      BY <3>1, <3>2, SentOne
    <3>4. requests' = Append(Append(requests, last), dist)
      <4> HIDE DEF last, dist
      <4> QED BY <2>2, <2>4, <3>3
    <3> QED BY <1>1, <1>2, <1>3, <1>6, <2>1, <2>2, <2>5, <3>2, <3>4
  <2>6. CASE Time # {id} /\ StopMultiplex(id) = <<>>
    <3>1. Mux(Time \ {id}) = Mux(Time) BY <1>6, <2>6, StopMultiplexEffect
    <3>2. requests \o StopMultiplex(id) = requests BY <2>3, <2>6, ConcatEmptySeq
    <3>3. requests' = Append(requests, dist)
      <4> HIDE DEF dist
      <4> QED BY <2>2, <2>3, <2>4, <3>2
    <3> QED BY <1>1, <1>2, <1>3, <1>6, <2>1, <2>2, <2>6, <3>1, <3>3
  <2>7. CASE Time # {id} /\ StopMultiplex(id) # <<>>
    <3>1. Mux(Time \ {id}) \in Intervals /\ StopMultiplex(id) = <<next>>
      BY <1>6, <2>7, StopMultiplexEffect DEF NoneOr
    <3>2. next \in SoundRequests BY <1>2, <3>1, NewRequests
    <3>3. requests \o StopMultiplex(id) = Append(requests, next) /\ Append(requests, next) \in Seq(SoundRequests)
      BY <3>1, <3>2, SentOne
    <3>4. requests' = Append(Append(requests, next), dist)
      <4> HIDE DEF next, dist
      <4> QED BY <2>2, <2>4, <3>3
    <3> QED BY <1>1, <1>2, <1>3, <1>6, <2>1, <2>2, <2>7, <3>2, <3>4
  <2> QED BY <2>5, <2>6, <2>7
<1>7. CASE id \in Distance /\ ~m.flag /\ Send(<<time>>) /\ Erase(id) /\ UNCHANGED answers
  <2>1. requests' = Append(requests, time) BY <1>3, <1>7, SentOne DEF Send
  <2> QED BY <1>1, <1>2, <1>3, <1>7, <2>1 DEF answers
<1>8. CASE id \in Time \ Distance /\ ~m.flag /\ SendOrReport(id, UpdateMultiplex(id, i))
           /\ Save(id, i, FALSE)
  <2>1. /\ NoneOr(UpdateMultiplex(id, i), new)
        /\ UpdateMultiplex(id, i) = <<>> <=> Mux(Time) = MuxWith(Mux(Time \ {id}), i)
        /\ MuxWith(Mux(Time \ {id}), i) \in Intervals /\ timeBased[id] \in Intervals
    BY <1>2, <1>8, UpdateMultiplexEffect
  <2>2. new \in SoundRequests BY <1>2, <2>1, NewRequests
  <2>3. \/ UpdateMultiplex(id, i) = <<>> /\ UNCHANGED requests /\ Report(id, TRUE)
        \/ /\ UpdateMultiplex(id, i) # <<>>
           /\ requests' = Append(requests, new) /\ UNCHANGED answers
    <3> HIDE DEF new, i, id
    <3> QED BY <1>8, <2>1, <2>2, SendOrReportEffect
  <2> QED BY <1>1, <1>2, <1>3, <1>8, <2>1, <2>2, <2>3 DEF answers
<1>9. CASE id \in Distance \ Time /\ m.flag /\ Send(<<again>>) /\ UNCHANGED <<sessions, answers>>
  <2>1. requests' = Append(requests, again) BY <1>3, <1>9, SentOne DEF Send
  <2> QED BY <1>1, <1>2, <1>3, <1>9, <2>1 DEF answers, sessions
<1> QED BY <1>4, <1>5, <1>6, <1>7, <1>8, <1>9

LEMMA ToTimeEffect ==
    ASSUME TypeInv, ProcToTime
    PROVE  LET m == Head(queue)
               r == Ask("timeStart", m.id, MuxWith(Mux(Time), m.interval), "started", 0)
           IN /\ Receives("toTime") /\ HandledEffect /\ UNCHANGED pending
              /\ m.interval \in Intervals /\ Exposed({"updates"})
              /\ Save(m.id, m.interval, FALSE)
              /\ \/ /\ Mux(Time) = MuxWith(Mux(Time), m.interval)
                    /\ UNCHANGED requests /\ Report(m.id, TRUE)
                 \/ /\ Mux(Time) # MuxWith(Mux(Time), m.interval)
                    /\ requests' = Append(requests, r) /\ r \in SoundRequests
                    /\ UNCHANGED <<unanswered, told>>
<1> DEFINE m == Head(queue)
           r == Ask("timeStart", m.id, MuxWith(Mux(Time), m.interval), "started", 0)
<1>1. Receives("toTime") /\ HandledEffect /\ UNCHANGED pending
  BY DEF ProcToTime, Answered, Handled, HandledEffect, users, modem
<1>2. m.id \in Started /\ m.interval \in Intervals /\ Exposed({"updates"})
  BY <1>1, Received DEF Answers, UpdateKinds
<1>3. Save(m.id, m.interval, FALSE) /\ SendOrReport(m.id, StartMultiplex(m.id, m.interval))
  BY DEF ProcToTime
<1>4. /\ NoneOr(StartMultiplex(m.id, m.interval), r)
      /\ StartMultiplex(m.id, m.interval) = <<>> <=> Mux(Time) = MuxWith(Mux(Time), m.interval)
      /\ MuxWith(Mux(Time), m.interval) \in Intervals
  BY <1>2, StartMultiplexEffect
<1>5. r \in SoundRequests BY <1>2, <1>4, NewRequests
<1>6. \/ StartMultiplex(m.id, m.interval) = <<>> /\ UNCHANGED requests /\ Report(m.id, TRUE)
      \/ /\ StartMultiplex(m.id, m.interval) # <<>>
         /\ requests' = Append(requests, r) /\ UNCHANGED answers
  <2> HIDE DEF r, m
  <2> QED BY <1>3, <1>4, <1>5, SendOrReportEffect
<1> QED BY <1>1, <1>2, <1>3, <1>4, <1>5, <1>6 DEF answers

LEMMA RestartAnswerEffect ==
    ASSUME TypeInv, ProcRestart
    PROVE  LET m == Head(queue)
               r == Ask("distanceStart", m.id, m.interval, "restarted", m.interval)
           IN /\ Receives("restart") /\ HandledEffect /\ UNCHANGED pending
              /\ m.interval \in Intervals /\ Exposed({"updates"})
              /\ UNCHANGED <<timeBased, distanceBased, unanswered, told>>
              /\ m.flag => requests' = Append(requests, r) /\ r \in SoundRequests
              /\ ~m.flag => UNCHANGED requests
<1> DEFINE m == Head(queue)
           r == Ask("distanceStart", m.id, m.interval, "restarted", m.interval)
<1>1. Receives("restart") /\ HandledEffect /\ UNCHANGED pending
  BY DEF ProcRestart, Answered, Handled, HandledEffect, users, modem
<1>2. m.id \in Started /\ m.interval \in Intervals /\ Exposed({"updates"})
  BY <1>1, Received DEF Answers, UpdateKinds
<1>3. r \in SoundRequests BY <1>2, NewRequests
<1>4. /\ m.flag => requests' = requests \o <<r>>
      /\ ~m.flag => requests' = requests \o <<>>
  BY DEF ProcRestart, Send
<1>5. /\ m.flag => requests' = Append(requests, r)
      /\ ~m.flag => UNCHANGED requests
  <2> HIDE DEF r, m
  <2> QED BY <1>3, <1>4, SentOne
<1>6. UNCHANGED <<timeBased, distanceBased, unanswered, told>>
  BY DEF ProcRestart, sessions, answers
<1> QED BY <1>1, <1>2, <1>3, <1>5, <1>6

LEMMA RemoveSessionEffect ==
    ASSUME TypeInv, ProcRemoveSession
    PROVE  /\ Receives("remove")
           /\ UNCHANGED <<world, clients, owner, stopped, commands, events, unanswered, told, queue,
                          callbacks, pending, known, power,
                          engineLock, modemUp, running, runningDistance>>
           /\ \E id \in Time :
                 LET last == Ask("timeStop", id, 0, "stopped", 0)
                     next == Ask("timeStart", id, Mux(Time \ {id}), "started", 0)
                 IN /\ owner[id] = Head(queue).client /\ Erase(id)
                    /\ \/ Time = {id} /\ requests' = Append(requests, last) /\ last \in SoundRequests
                       \/ Time # {id} /\ Mux(Time \ {id}) = Mux(Time) /\ UNCHANGED requests
                       \/ /\ Time # {id} /\ Mux(Time \ {id}) # Mux(Time)
                          /\ requests' = Append(requests, next) /\ next \in SoundRequests
<1>1. /\ Receives("remove")
      /\ UNCHANGED <<world, clients, owner, stopped, commands, events, unanswered, told, queue,
                     callbacks, pending, known, power, engineLock, modemUp, running, runningDistance>>
  BY DEF ProcRemoveSession, users, answers, modem
<1>2. PICK id \in Time : owner[id] = Head(queue).client /\ Send(StopMultiplex(id)) /\ Erase(id)
  BY DEF ProcRemoveSession
<1> DEFINE last == Ask("timeStop", id, 0, "stopped", 0)
           next == Ask("timeStart", id, Mux(Time \ {id}), "started", 0)
<1>3. id \in Started /\ requests' = requests \o StopMultiplex(id) BY <1>2 DEF TypeInv, Send
<1>4. CASE Time = {id}
  <2>1. last \in SoundRequests /\ StopMultiplex(id) = <<last>>
    BY <1>3, <1>4, NewRequests, StopMultiplexEffect
  <2>2. requests' = Append(requests, last)
    <3> HIDE DEF last
    <3> QED BY <1>3, <2>1, SentOne
  <2> QED BY <1>1, <1>2, <1>4, <2>1, <2>2
<1>5. CASE Time # {id}
  <2>1. /\ NoneOr(StopMultiplex(id), next)
        /\ StopMultiplex(id) = <<>> <=> Mux(Time \ {id}) = Mux(Time)
        /\ Mux(Time \ {id}) \in Intervals
    BY <1>5, StopMultiplexEffect
  <2>2. next \in SoundRequests BY <1>3, <2>1, NewRequests
  <2>3. \/ Mux(Time \ {id}) = Mux(Time) /\ UNCHANGED requests
        \/ Mux(Time \ {id}) # Mux(Time) /\ requests' = Append(requests, next)
    <3> HIDE DEF next
    <3> QED BY <1>3, <2>1, <2>2, SentOne DEF NoneOr
  <2> QED BY <1>1, <1>2, <1>5, <2>2, <2>3
<1> QED BY <1>4, <1>5

LEMMA RemoveClientEffect ==
    ASSUME TypeInv, ProcRemoveClient
    PROVE  LET c == Head(queue).client
           IN /\ Receives("remove") /\ c \in Clients
              /\ \A id \in Time : owner[id] # c
              /\ queue' = Tail(queue) /\ callbacks' = callbacks \ {c}
              /\ UNCHANGED <<world, clients, owner, stopped, commands, events, unanswered, told,
                             timeBased, distanceBased, pending, known, power,
                             engineLock, modemUp, running, runningDistance>>
              /\ \E reqs \in Seq(SoundRequests) :
                    /\ requests' = requests \o reqs
                    /\ \A k \in DOMAIN reqs : \E id \in OwnDistance(c) :
                          reqs[k] = Ask("distanceStop", id, distanceBased[id], "goneStopped", 0)
                    /\ \A id \in OwnDistance(c) : \E k \in DOMAIN reqs :
                          reqs[k] = Ask("distanceStop", id, distanceBased[id], "goneStopped", 0)
<1> DEFINE c == Head(queue).client
           reqs == DistanceRequests("distanceStop", OwnDistance(c), "goneStopped")
<1>1. /\ Receives("remove") /\ \A id \in Time : owner[id] # c
      /\ queue' = Tail(queue) /\ callbacks' = callbacks \ {c}
      /\ UNCHANGED <<world, clients, owner, stopped, commands, events, unanswered, told,
                     timeBased, distanceBased, pending, known, power,
                     engineLock, modemUp, running, runningDistance>>
      /\ requests' = requests \o reqs
  BY DEF ProcRemoveClient, Send, users, answers, sessions, modem
<1>2. c \in Clients BY <1>1, Received
<1>3. /\ OwnDistance(c) \subseteq Distance
      /\ \A id \in OwnDistance(c) :
            Ask("distanceStop", id, distanceBased[id], "goneStopped", 0) \in SoundRequests
  BY NewRequests DEF OwnDistance, Distance, TypeInv, TypeOK
<1>4. /\ reqs \in Seq(SoundRequests)
      /\ \A k \in DOMAIN reqs : \E id \in OwnDistance(c) :
            reqs[k] = Ask("distanceStop", id, distanceBased[id], "goneStopped", 0)
      /\ \A id \in OwnDistance(c) : \E k \in DOMAIN reqs :
            reqs[k] = Ask("distanceStop", id, distanceBased[id], "goneStopped", 0)
  <2> DEFINE ids == OwnDistance(c)
  <2>1. /\ ids \subseteq Distance
        /\ \A id \in ids : Ask("distanceStop", id, distanceBased[id], "goneStopped", 0) \in SoundRequests
    BY <1>3
  <2> HIDE DEF ids, c
  <2>2. LET r == DistanceRequests("distanceStop", ids, "goneStopped")
        IN /\ r \in Seq(SoundRequests)
           /\ \A k \in DOMAIN r : \E id \in ids :
                 r[k] = Ask("distanceStop", id, distanceBased[id], "goneStopped", 0)
           /\ \A id \in ids : \E k \in DOMAIN r :
                 r[k] = Ask("distanceStop", id, distanceBased[id], "goneStopped", 0)
    BY <2>1, DistanceRequestsEffect
  <2> QED BY <2>2 DEF ids
<1> QED
  <2> HIDE DEF c, reqs
  <2>1. \E x \in Seq(SoundRequests) :
                    /\ requests' = requests \o x
                    /\ \A k \in DOMAIN x : \E id \in OwnDistance(c) :
                          x[k] = Ask("distanceStop", id, distanceBased[id], "goneStopped", 0)
                    /\ \A id \in OwnDistance(c) : \E k \in DOMAIN x :
                          x[k] = Ask("distanceStop", id, distanceBased[id], "goneStopped", 0)
    BY <1>1, <1>4
  <2> QED BY <1>1, <1>2, <2>1 DEF c

LEMMA PostponedEffect ==
    ASSUME TypeInv, ProcPostponed
    PROVE  /\ Receives("start") \/ Receives("update")
           /\ HandledEffect /\ Postpone(Head(queue)) /\ Head(queue) \in Waiting
           /\ pending' = Append(pending, Head(queue)) /\ pending' \in Seq(Waiting)
           /\ UNCHANGED <<unanswered, told, timeBased, distanceBased, requests>>
<1>1. /\ Receives("start") \/ Receives("update")
      /\ HandledEffect /\ Postpone(Head(queue))
      /\ pending' = Append(pending, Head(queue))
      /\ UNCHANGED <<unanswered, told, timeBased, distanceBased, requests>>
  BY DEF ProcPostponed, Handled, HandledEffect, users, modem, answers, sessions
<1>2. Head(queue) \in SoundMessages BY <1>1, Received
<1>3. Head(queue) \in Waiting BY <1>1, <1>2 DEF Waiting, Postpone
<1>4. pending' \in Seq(Waiting) BY <1>1, <1>3, AppendProperties DEF TypeInv
<1> QED BY <1>1, <1>3, <1>4

(* The answers that end a request                                            *)
LEMMA AnswerEffect ==
    ASSUME TypeInv, ProcStarted \/ ProcUpdated \/ ProcStopped \/ ProcDistanceStopped
                    \/ ProcGoneStopped \/ ProcRestarted
    PROVE  LET m == Head(queue)
           IN /\ queue # <<>> /\ HandledEffect /\ UNCHANGED <<pending, requests>>
              /\ m.id \in Started /\ m.id \in Ids /\ m.flag \in BOOLEAN
              /\ \/ /\ Receives("started") /\ Report(m.id, m.flag)
                    /\ IF Failed THEN Erase(m.id) ELSE UNCHANGED <<timeBased, distanceBased>>
                 \/ /\ Receives("updated") /\ Report(m.id, m.flag)
                    /\ m.interval \in Intervals /\ Exposed({"updates"})
                    /\ IF Failed THEN Save(m.id, m.interval, FALSE)
                       ELSE UNCHANGED <<timeBased, distanceBased>>
                 \/ /\ Receives("stopped") /\ Report(m.id, m.flag)
                    /\ UNCHANGED <<timeBased, distanceBased>>
                 \/ /\ Receives("distanceStopped") /\ Report(m.id, m.flag)
                    /\ IF Failed THEN UNCHANGED <<timeBased, distanceBased>> ELSE Erase(m.id)
                 \/ /\ Receives("goneStopped") /\ UNCHANGED <<unanswered, told>>
                    /\ IF m.flag THEN Erase(m.id) ELSE UNCHANGED <<timeBased, distanceBased>>
                 \/ /\ Receives("restarted") /\ Report(m.id, m.flag)
                    /\ m.interval \in Intervals /\ Exposed({"updates"})
                    /\ IF Failed THEN UNCHANGED <<timeBased, distanceBased>>
                       ELSE Save(m.id, m.interval, TRUE)
<1> USE DEF Answered, Handled, HandledEffect, users, modem, answers, sessions
<1>1. ASSUME ProcStarted
      PROVE  /\ Receives("started") /\ HandledEffect /\ UNCHANGED <<pending, requests>>
             /\ Report(Head(queue).id, Head(queue).flag)
             /\ IF Failed THEN Erase(Head(queue).id) ELSE UNCHANGED <<timeBased, distanceBased>>
  BY <1>1 DEF ProcStarted
<1>2. ASSUME ProcUpdated
      PROVE  /\ Receives("updated") /\ HandledEffect /\ UNCHANGED <<pending, requests>>
             /\ Report(Head(queue).id, Head(queue).flag)
             /\ IF Failed THEN Save(Head(queue).id, Head(queue).interval, FALSE)
                ELSE UNCHANGED <<timeBased, distanceBased>>
  BY <1>2 DEF ProcUpdated
<1>3. ASSUME ProcStopped
      PROVE  /\ Receives("stopped") /\ HandledEffect /\ UNCHANGED <<pending, requests>>
             /\ Report(Head(queue).id, Head(queue).flag) /\ UNCHANGED <<timeBased, distanceBased>>
  BY <1>3 DEF ProcStopped
<1>4. ASSUME ProcDistanceStopped
      PROVE  /\ Receives("distanceStopped") /\ HandledEffect /\ UNCHANGED <<pending, requests>>
             /\ Report(Head(queue).id, Head(queue).flag)
             /\ IF Failed THEN UNCHANGED <<timeBased, distanceBased>> ELSE Erase(Head(queue).id)
  BY <1>4 DEF ProcDistanceStopped
<1>5. ASSUME ProcGoneStopped
      PROVE  /\ Receives("goneStopped") /\ HandledEffect /\ UNCHANGED <<pending, requests>>
             /\ UNCHANGED <<unanswered, told>>
             /\ IF Head(queue).flag THEN Erase(Head(queue).id)
                ELSE UNCHANGED <<timeBased, distanceBased>>
  BY <1>5 DEF ProcGoneStopped
<1>6. ASSUME ProcRestarted
      PROVE  /\ Receives("restarted") /\ HandledEffect /\ UNCHANGED <<pending, requests>>
             /\ Report(Head(queue).id, Head(queue).flag)
             /\ IF Failed THEN UNCHANGED <<timeBased, distanceBased>>
                ELSE Save(Head(queue).id, Head(queue).interval, TRUE)
  BY <1>6 DEF ProcRestarted
<1> DEFINE m == Head(queue)
<1>7. ASSUME NEW what \in Answers, Receives(what)
      PROVE  /\ queue # <<>> /\ m.id \in Started /\ m.id \in Ids /\ m.flag \in BOOLEAN
             /\ what \in {"updated", "restarted"} => m.interval \in Intervals /\ Exposed({"updates"})
  BY <1>7, Received DEF Answers, UpdateKinds
<1>8. {"started", "updated", "stopped", "distanceStopped", "goneStopped", "restarted"} \subseteq Answers
  BY DEF Answers
<1> HIDE DEF m, Answered, Handled, HandledEffect
<1> QED BY <1>1, <1>2, <1>3, <1>4, <1>5, <1>6, <1>7, <1>8 DEF m

LEMMA ResendEffect ==
    ASSUME TypeInv, queue # <<>>, Resend
    PROVE  /\ queue' = Tail(queue) \o pending /\ pending' = <<>>
           /\ Tail(queue) \in Seq(SoundMessages) /\ pending \in Seq(SoundMessages)
           /\ queue' \in Seq(SoundMessages)
<1>1. Tail(queue) \in Seq(SoundMessages) BY HeadTailProperties DEF TypeInv
<1>2. pending \in Seq(SoundMessages) BY SeqMonotonic DEF TypeInv, Waiting
<1> QED BY <1>1, <1>2, ConcatProperties DEF Resend

(* Who waits for the engine is woken.                                        *)
Wakes(m) == m.what = "up" \/ (m.what = "lock" /\ m.flag)

LEMMA EventEffect ==
    ASSUME TypeInv, ProcEngineUp \/ handleEngineLockStatus \/ updateSystemPowerState
    PROVE  /\ queue # <<>>
           /\ UNCHANGED <<world, clients, owner, stopped, commands, events, unanswered, told,
                          callbacks, timeBased, distanceBased,
                          engineLock, modemUp, running, runningDistance>>
           /\ \E reqs \in Seq(Unheeded) : requests' = requests \o reqs
           /\ queue' \in Seq(SoundMessages) /\ pending' \in Seq(Waiting)
           /\ \/ queue' = Tail(queue) /\ UNCHANGED <<pending, known>> /\ ~Wakes(Head(queue))
              \/ queue' = Tail(queue) /\ UNCHANGED pending /\ ~Unlocked
              \/ Resend
           /\ Head(queue).what \in {"up", "lock", "power"}
<1>1. Restart \in Seq(Unheeded) /\ Suspend \in Seq(Unheeded) /\ <<>> \in Seq(Unheeded)
      /\ requests \in Seq(SoundRequests)
  BY RestartEffect, SuspendEffect DEF TypeInv
<1>2. /\ Resend => pending' = <<>> /\ <<>> \in Seq(Waiting)
      /\ UNCHANGED pending => pending' \in Seq(Waiting)
  BY DEF Resend, TypeInv
<1>3. ASSUME queue # <<>> PROVE Tail(queue) \in Seq(SoundMessages)
  BY <1>3, HeadTailProperties DEF TypeInv
<1>4. ASSUME queue # <<>>, Resend PROVE queue' \in Seq(SoundMessages) BY <1>4, ResendEffect
<1>5. CASE ProcEngineUp
  <2> DEFINE x == CASE power = "suspend" -> Suspend [] power = "resume" -> Restart [] OTHER -> <<>>
             y == IF Unlocked /\ power # "suspend" THEN Restart ELSE <<>>
  <2>1. requests' = requests \o x \o y BY <1>5 DEF ProcEngineUp
  <2>2. x \in Seq(Unheeded) /\ y \in Seq(Unheeded)
    <3> HIDE DEF Restart, Suspend
    <3>1. CASE power = "suspend" BY <1>1, <3>1
    <3>2. CASE power = "resume" BY <1>1, <3>2
    <3>3. CASE power # "suspend" /\ power # "resume" BY <1>1, <3>3
    <3> QED BY <3>1, <3>2, <3>3
  <2> HIDE DEF x, y
  <2>3. requests' = requests \o (x \o y) /\ x \o y \in Seq(Unheeded)
    <3>1. (requests \o x) \o y = requests \o (x \o y)
      <4>1. x \in Seq(SoundRequests) /\ y \in Seq(SoundRequests)
        BY <2>2, SeqMonotonic DEF Unheeded
      <4>2. requests \in Seq(SoundRequests) BY <1>1
      <4> QED BY <4>1, <4>2, ConcatAssociative
    <3>2. x \o y \in Seq(Unheeded) BY <2>2, ConcatProperties
    <3> QED BY <2>1, <3>1, <3>2
  <2>4. /\ queue # <<>>
        /\ UNCHANGED <<world, clients, owner, stopped, commands, events, unanswered, told,
                       callbacks, timeBased, distanceBased,
                       engineLock, modemUp, running, runningDistance>>
        /\ Head(queue).what = "up"
        /\ \/ queue' = Tail(queue) /\ UNCHANGED pending /\ ~Unlocked
           \/ Resend
    BY <1>5 DEF ProcEngineUp, Receives, users, answers, sessions, modem
  <2> QED BY <1>2, <1>3, <1>4, <2>3, <2>4
<1>6. CASE handleEngineLockStatus
  <2>1. \/ requests' = requests \o Restart
        \/ requests' = requests \o <<>>
        \/ requests' = requests
    BY <1>6 DEF handleEngineLockStatus, Send
  <2>2. \E reqs \in Seq(Unheeded) : requests' = requests \o reqs
    <3> HIDE DEF Restart
    <3> QED BY <1>1, <2>1, ConcatEmptySeq
  <2>3. /\ queue # <<>>
        /\ UNCHANGED <<world, clients, owner, stopped, commands, events, unanswered, told,
                       callbacks, timeBased, distanceBased,
                       engineLock, modemUp, running, runningDistance>>
        /\ Head(queue).what = "lock"
        /\ \/ queue' = Tail(queue) /\ UNCHANGED <<pending, known>> /\ ~Wakes(Head(queue))
           \/ Resend
    BY <1>6 DEF Wakes, handleEngineLockStatus, Receives, users, answers, sessions, modem
  <2> QED BY <1>2, <1>3, <1>4, <2>2, <2>3
<1>7. CASE updateSystemPowerState
  <2>1. \/ requests' = requests \o Restart
        \/ requests' = requests \o Suspend
    BY <1>7 DEF updateSystemPowerState, Send
  <2>2. /\ queue # <<>>
        /\ UNCHANGED <<world, clients, owner, stopped, commands, events, unanswered, told,
                       callbacks, timeBased, distanceBased,
                       engineLock, modemUp, running, runningDistance>>
        /\ queue' = Tail(queue) /\ UNCHANGED <<pending, known>>
        /\ Head(queue).what = "power" /\ ~Wakes(Head(queue))
    BY <1>7 DEF Wakes, updateSystemPowerState, Receives, users, answers, sessions, modem
  <2> QED BY <1>1, <1>2, <1>3, <2>1, <2>2
<1> QED BY <1>5, <1>6, <1>7

(* An answer of LocApi, when one is expected                                 *)
LEMMA RequestEffect ==
    ASSUME TypeInv, LocApiRequest
    PROVE  LET r == Head(requests)
           IN /\ requests # <<>> /\ r \in SoundRequests /\ r \in Requests /\ r.do # "open"
              /\ requests' = Tail(requests) /\ Tail(requests) \in Seq(SoundRequests)
              /\ UNCHANGED <<world, clients, owner, stopped, commands, events, unanswered, told,
                             callbacks, timeBased, distanceBased, pending, known, power,
                             engineLock, modemUp>>
              /\ \E ok \in Outcomes(r) :
                    /\ ok \in BOOLEAN
                    /\ running' = IF ok /\ r.do = "timeStart" THEN r.interval
                                  ELSE IF ok /\ r.do = "timeStop" THEN 0 ELSE running
                    /\ runningDistance' =
                          IF ok /\ r.do = "distanceStart" THEN runningDistance \cup {r.id}
                          ELSE IF ok /\ r.do = "distanceStop" THEN runningDistance \ {r.id}
                          ELSE runningDistance
                    /\ r.then = "none" => UNCHANGED queue
                    /\ r.then # "none" =>
                          /\ Message(r.then, r.id, r.opts, ok) \in SoundMessages
                          /\ queue' = Append(queue, Message(r.then, r.id, r.opts, ok))
              /\ queue' \in Seq(SoundMessages)
<1> DEFINE r == Head(requests)
<1>1. /\ requests # <<>> /\ r.do # "open" /\ requests' = Tail(requests)
      /\ UNCHANGED <<world, clients, owner, stopped, commands, events, unanswered, told,
                     callbacks, timeBased, distanceBased, pending, known, power, engineLock, modemUp>>
  BY DEF LocApiRequest, users, answers, sessions
<1>2. r \in SoundRequests /\ Tail(requests) \in Seq(SoundRequests)
  BY <1>1, HeadTailProperties DEF TypeInv
<1>3. /\ r \in Requests /\ r.then \in AnswersTo[r.do]
      /\ r.then # "none" => r.id \in Started
      /\ r.then \in UpdateKinds => Exposed({"updates"}) /\ r.opts \in Intervals
  BY <1>2 DEF SoundRequests
<1>4. PICK ok \in Outcomes(r) :
         /\ running' = IF ~ok THEN running
                       ELSE CASE r.do = "timeStart" -> r.interval
                              [] r.do = "timeStop"  -> 0
                              [] OTHER              -> running
         /\ runningDistance' = IF ~ok THEN runningDistance
                       ELSE CASE r.do = "distanceStart" -> runningDistance \cup {r.id}
                              [] r.do = "distanceStop"  -> runningDistance \ {r.id}
                              [] OTHER                  -> runningDistance
         /\ queue' = IF r.then = "none" THEN queue
                     ELSE Append(queue, Message(r.then, r.id, r.opts, ok))
  BY DEF LocApiRequest
<1>5. ok \in BOOLEAN BY <1>4 DEF Outcomes
<1> HIDE DEF r
<1>6. /\ r.do \in {"timeStart", "timeStop", "distanceStart", "distanceStop"}
      /\ r.then \in {"none"} \cup Answers /\ r.opts \in {0} \cup Intervals
  BY <1>1, <1>3, RequestFields
<1>7. /\ running' = IF ok /\ r.do = "timeStart" THEN r.interval
                    ELSE IF ok /\ r.do = "timeStop" THEN 0 ELSE running
      /\ runningDistance' =
            IF ok /\ r.do = "distanceStart" THEN runningDistance \cup {r.id}
            ELSE IF ok /\ r.do = "distanceStop" THEN runningDistance \ {r.id}
            ELSE runningDistance
  <2>1. CASE r.do = "timeStart" BY <1>4, <1>5, <2>1
  <2>2. CASE r.do = "timeStop" BY <1>4, <1>5, <2>2
  <2>3. CASE r.do = "distanceStart" BY <1>4, <1>5, <2>3
  <2>4. CASE r.do = "distanceStop" BY <1>4, <1>5, <2>4
  <2> QED BY <1>6, <2>1, <2>2, <2>3, <2>4
<1>8. ASSUME r.then # "none"
      PROVE  Message(r.then, r.id, r.opts, ok) \in SoundMessages
  <2> DEFINE m == Message(r.then, r.id, r.opts, ok)
  <2>1. r.then \in Answers /\ r.id \in Started /\ r.id \in Ids BY <1>3, <1>6, <1>8 DEF Started
  <2>2. m \in Messages /\ m.what = r.then /\ m.id = r.id /\ m.interval = r.opts
    <3>1. r.then \in Commands \cup Answers /\ r.opts \in {0} \cup Asked \cup Intervals
      BY <1>6, <2>1
    <3> QED BY <1>5, <2>1, <3>1, NewMessages
  <2> HIDE DEF m
  <2>3. m.what \notin {"start", "update"} BY <2>1, <2>2 DEF Answers
  <2>4. m \in SoundMessages BY <1>3, <2>1, <2>2, <2>3 DEF SoundMessages
  <2> QED BY <2>4 DEF m
<1>9. queue' \in Seq(SoundMessages) BY <1>4, <1>8, AppendProperties DEF TypeInv
<1> QED BY <1>1, <1>2, <1>3, <1>4, <1>5, <1>7, <1>8, <1>9 DEF r

-----------------------------------------------------------------------------
(* The types are kept                                                        *)

LEMMA SameSets ==
    ASSUME UNCHANGED <<world, owner>>
    PROVE  /\ SoundMessages' = SoundMessages /\ Waiting' = Waiting
           /\ SoundRequests' = SoundRequests /\ Started' = Started
           /\ \A freedoms : Exposed(freedoms)' = Exposed(freedoms)
<1>1. Started' = Started BY DEF Started
<1>2. \A freedoms : Exposed(freedoms)' = Exposed(freedoms) BY DEF Exposed
<1>3. SoundMessages' = SoundMessages BY <1>1, <1>2 DEF SoundMessages
<1>4. SoundRequests' = SoundRequests BY <1>1, <1>2 DEF SoundRequests
<1> QED BY <1>1, <1>2, <1>3, <1>4 DEF Waiting

(* A session is generated for a client.                                      *)
Generates(id, c) ==
    /\ id \in Ids \ Started /\ c \in clients
    /\ owner' = [owner EXCEPT ![id] = c]

LEMMA SetsGrow ==
    ASSUME TypeInv, UNCHANGED world, NEW id, NEW c, Generates(id, c)
    PROVE  /\ Started' = Started \cup {id} /\ id \in Ids /\ id \notin Started
           /\ owner' \in [Ids -> Clients \cup {NoClient}] /\ owner'[id] = c /\ c \in Clients
           /\ \A other \in Ids \ {id} : owner'[other] = owner[other]
           /\ SoundMessages \subseteq SoundMessages' /\ Waiting \subseteq Waiting'
           /\ SoundRequests \subseteq SoundRequests'
           /\ queue \in Seq(SoundMessages') /\ pending \in Seq(Waiting')
           /\ requests \in Seq(SoundRequests')
<1>1. /\ owner \in [Ids -> Clients \cup {NoClient}] /\ c \in Clients /\ NoClient \notin Clients
      /\ owner' = [owner EXCEPT ![id] = c] /\ id \in Ids /\ id \notin Started
  BY TrackingAssumption DEF Generates, TypeInv, TypeOK
<1>2. /\ owner' \in [Ids -> Clients \cup {NoClient}] /\ owner'[id] = c
      /\ \A other \in Ids \ {id} : owner'[other] = owner[other]
  BY <1>1
<1>3. Started' = Started \cup {id} BY <1>1, <1>2 DEF Started
<1>4. \A freedoms : Exposed(freedoms)' = Exposed(freedoms) BY DEF Exposed
<1>5. SoundMessages \subseteq SoundMessages' BY <1>3, <1>4 DEF SoundMessages
<1>6. SoundRequests \subseteq SoundRequests' BY <1>3, <1>4 DEF SoundRequests
<1>7. Waiting \subseteq Waiting' BY <1>5 DEF Waiting
<1> HIDE DEF SoundMessages, SoundRequests, Waiting
<1>8. queue \in Seq(SoundMessages') /\ pending \in Seq(Waiting') /\ requests \in Seq(SoundRequests')
  BY <1>5, <1>6, <1>7, SeqMonotonic DEF TypeInv
<1> QED BY <1>1, <1>2, <1>3, <1>5, <1>6, <1>7, <1>8

(* What a call of a client does                                              *)
LEMMA CommandEffect ==
    ASSUME TypeInv, NEW what \in Commands, NEW id \in Ids, NEW i \in {0} \cup Asked, NEW flag \in BOOLEAN,
           Command(what, id, i, flag)
    PROVE  /\ queue' = Append(queue, Message(what, id, i, flag))
           /\ Message(what, id, i, flag) \in Messages
           /\ unanswered' \in [Ids -> Int] /\ unanswered'[id] = unanswered[id] + 1
           /\ \A other \in Ids \ {id} : unanswered'[other] = unanswered[other]
           /\ UNCHANGED <<world, clients, events, told, callbacks, timeBased, distanceBased, pending,
                          known, power, requests, engineLock, modemUp, running, runningDistance>>
<1>1. unanswered \in [Ids -> Int] BY DEF TypeInv, TypeOK
<1>2. Message(what, id, i, flag) \in Messages
  <2>1. what \in Commands \cup Answers /\ i \in {0} \cup Asked \cup Intervals  OBVIOUS
  <2> QED BY <2>1, NewMessages
<1> QED BY <1>1, <1>2 DEF Command, sessions, modem

LEMMA StartTrackingEffect ==
    ASSUME TypeInv, NEW c \in Clients, NEW i \in Asked, NEW far \in BOOLEAN, startTracking(c, i, far)
    PROVE  /\ UNCHANGED <<world, stopped, commands>>
           /\ \E id \in Ids : Generates(id, c) /\ Command("start", id, i, far)
BY DEF startTracking, Command, Generates

(* The client of a session updates or stops it.                              *)
LEMMA LaterCommandEffect ==
    ASSUME TypeInv,
           \/ \E x \in Ids, j \in Asked, far \in BOOLEAN : updateTrackingOptions(x, j, far)
           \/ \E x \in Ids : stopTracking(x)
    PROVE  \E id \in Started, what \in {"update", "stop"}, i \in {0} \cup Asked, flag \in BOOLEAN :
              /\ id \in Ids /\ owner[id] \in clients /\ Command(what, id, i, flag)
              /\ UNCHANGED owner /\ commands < MaxCommands /\ commands' = commands + 1
              /\ what = "update" => Exposed({"updates"}) /\ i \in Asked /\ UNCHANGED stopped
              /\ what = "stop" => i = 0 /\ ~flag /\ stopped' = stopped \cup {id}
              /\ Message(what, id, i, flag) \in SoundMessages
<1>1. NoClient \notin Clients /\ clients \subseteq Clients
  BY TrackingAssumption DEF TypeInv, TypeOK
<1>2. ASSUME NEW id \in Ids, NEW i \in Asked, NEW flag \in BOOLEAN, updateTrackingOptions(id, i, flag)
      PROVE  /\ owner[id] \in clients /\ Command("update", id, i, flag) /\ UNCHANGED <<owner, stopped>>
             /\ commands < MaxCommands /\ commands' = commands + 1 /\ "updates" \in world
  BY <1>2 DEF updateTrackingOptions
<1>3. ASSUME NEW id \in Ids, stopTracking(id)
      PROVE  /\ owner[id] \in clients /\ Command("stop", id, 0, FALSE) /\ UNCHANGED owner
             /\ commands < MaxCommands /\ commands' = commands + 1 /\ stopped' = stopped \cup {id}
  BY <1>3 DEF stopTracking
<1>4. ASSUME NEW id \in Ids, owner[id] \in clients PROVE id \in Started
  BY <1>1, <1>4 DEF Started
<1>5. "updates" \in world => Exposed({"updates"}) BY DEF Exposed
<1>6. ASSUME NEW id \in Started, NEW what \in {"update", "stop"}, NEW i \in {0} \cup Asked,
             NEW flag \in BOOLEAN, what = "update" => Exposed({"updates"}) /\ i \in Asked
      PROVE  Message(what, id, i, flag) \in SoundMessages
  <2> DEFINE m == Message(what, id, i, flag)
  <2>1. what \in Commands \cup Answers /\ id \in Ids /\ i \in {0} \cup Asked \cup Intervals
    BY DEF Commands, Started
  <2>2. m \in Messages /\ m.what = what /\ m.id = id /\ m.interval = i BY <2>1, NewMessages
  <2> HIDE DEF m
  <2>3. m \in SoundMessages BY <1>6, <2>2 DEF SoundMessages, UpdateKinds
  <2> QED BY <2>3 DEF m
<1>7. ASSUME NEW id \in Ids, NEW i \in Asked, NEW flag \in BOOLEAN, updateTrackingOptions(id, i, flag)
      PROVE  \E x \in Started, what \in {"update", "stop"}, j \in {0} \cup Asked, f \in BOOLEAN :
                /\ x \in Ids /\ owner[x] \in clients /\ Command(what, x, j, f)
                /\ UNCHANGED owner /\ commands < MaxCommands /\ commands' = commands + 1
                /\ what = "update" => Exposed({"updates"}) /\ j \in Asked /\ UNCHANGED stopped
                /\ what = "stop" => j = 0 /\ ~f /\ stopped' = stopped \cup {x}
                /\ Message(what, x, j, f) \in SoundMessages
  <2>1. /\ owner[id] \in clients /\ Command("update", id, i, flag) /\ UNCHANGED <<owner, stopped>>
        /\ commands < MaxCommands /\ commands' = commands + 1 /\ Exposed({"updates"})
    BY <1>2, <1>5, <1>7
  <2>2. id \in Started BY <1>4, <2>1
  <2>3. Message("update", id, i, flag) \in SoundMessages BY <1>6, <2>1, <2>2
  <2> HIDE DEF Command, Message
  <2> QED BY <2>1, <2>2, <2>3
<1>8. ASSUME NEW id \in Ids, stopTracking(id)
      PROVE  \E x \in Started, what \in {"update", "stop"}, j \in {0} \cup Asked, f \in BOOLEAN :
                /\ x \in Ids /\ owner[x] \in clients /\ Command(what, x, j, f)
                /\ UNCHANGED owner /\ commands < MaxCommands /\ commands' = commands + 1
                /\ what = "update" => Exposed({"updates"}) /\ j \in Asked /\ UNCHANGED stopped
                /\ what = "stop" => j = 0 /\ ~f /\ stopped' = stopped \cup {x}
                /\ Message(what, x, j, f) \in SoundMessages
  <2>1. /\ owner[id] \in clients /\ Command("stop", id, 0, FALSE) /\ UNCHANGED owner
        /\ commands < MaxCommands /\ commands' = commands + 1 /\ stopped' = stopped \cup {id}
    BY <1>3, <1>8
  <2>2. id \in Started BY <1>4, <2>1
  <2>3. Message("stop", id, 0, FALSE) \in SoundMessages BY <1>6, <2>2
  <2> HIDE DEF Command, Message
  <2> QED BY <2>1, <2>2, <2>3
<1> QED BY <1>7, <1>8

(* The modem, its lock and the power change.                                 *)
LEMMA EnvironmentEffect ==
    ASSUME TypeInv, LocApiOpen \/ ModemCrashes \/ EngineLockChanges \/ PowerChanges
    PROVE  /\ UNCHANGED <<world, clients, owner, stopped, commands, unanswered, told, callbacks,
                          timeBased, distanceBased, pending, known, power>>
           /\ \/ UNCHANGED queue
              \/ \E what \in {"up", "lock", "power"}, flag \in BOOLEAN :
                    queue' = Append(queue, Message(what, 0, 0, flag))
           /\ queue' \in Seq(SoundMessages)
           /\ \/ requests # <<>> /\ Head(requests).do = "open" /\ requests' = Tail(requests)
              \/ UNCHANGED requests
              \/ requests' = Append(requests, Ask("open", 0, 0, "none", 0))
           /\ requests' \in Seq(SoundRequests)
           /\ events' \in 0..MaxEvents /\ engineLock' \in {"enabled", "disabled"}
           /\ modemUp' \in BOOLEAN
           /\ \/ UNCHANGED <<running, runningDistance>>
              \/ running' = 0 /\ runningDistance' = {}
<1> USE DEF TypeInv
<1>1. Event => events' \in 0..MaxEvents BY TrackingAssumption DEF TypeOK, Event
<1>2. /\ \A what \in {"up", "lock", "power"}, flag \in BOOLEAN :
            Append(queue, Message(what, 0, 0, flag)) \in Seq(SoundMessages)
      /\ Append(requests, Ask("open", 0, 0, "none", 0)) \in Seq(SoundRequests)
      /\ requests # <<>> => Tail(requests) \in Seq(SoundRequests)
  BY NewMessages, NewRequests, AppendProperties, HeadTailProperties
<1>3. CASE LocApiOpen BY <1>2, <1>3 DEF LocApiOpen, users, answers, sessions, TypeOK
<1>4. CASE ModemCrashes
  BY <1>1, <1>2, <1>4 DEF ModemCrashes, Event, users, answers, sessions, modem, TypeOK
<1>5. CASE EngineLockChanges
  BY <1>1, <1>2, <1>5 DEF EngineLockChanges, Event, users, answers, sessions, modem, TypeOK
<1>6. CASE PowerChanges
  BY <1>1, <1>2, <1>6 DEF PowerChanges, Event, users, answers, sessions, modem, TypeOK
<1> QED BY <1>3, <1>4, <1>5, <1>6

LEMMA InitTypes == Init => TypeInv
<1> SUFFICES ASSUME Init PROVE TypeInv
  OBVIOUS
<1>1. Started = {} /\ Time = {} /\ Distance = {} BY DEF Init, Started, Time, Distance
<1>2. \A i \in Intervals : i # 0 BY IntervalTypes
<1>3. requests \in Seq(SoundRequests)
  <2>1. Ask("open", 0, 0, "none", 0) \in SoundRequests
    BY DEF Ask, SoundRequests, Requests, AnswersTo, UpdateKinds
  <2> QED BY <2>1 DEF Init
<1>4. /\ MaxCommands \in Nat /\ MaxEvents \in Nat BY TrackingAssumption
<1>5. requests \in Seq(Requests) BY <1>3, SeqMonotonic DEF SoundRequests
<1>6. TypeOK BY <1>1, <1>4, <1>5 DEF Init, TypeOK
<1>7. queue = <<>> /\ pending = <<>> /\ \A id \in Ids \ Started : unanswered[id] = 0
  BY DEF Init
<1> QED BY <1>1, <1>3, <1>6, <1>7 DEF TypeInv

(* What is needed of a step for the types to hold after it                   *)
LEMMA TypesFrom ==
    ASSUME TypeInv, UNCHANGED <<world, owner>>,
           callbacks' \subseteq Clients, clients' \subseteq Clients, stopped' \subseteq Started,
           commands' \in 0..MaxCommands, events' \in 0..MaxEvents,
           unanswered' \in [Ids -> Int], told' \in [Ids -> BOOLEAN],
           queue' \in Seq(SoundMessages), pending' \in Seq(Waiting), requests' \in Seq(SoundRequests),
           timeBased' \in [Ids -> {0} \cup Intervals], distanceBased' \in [Ids -> {0} \cup Intervals],
           known' \in BOOLEAN, modemUp' \in BOOLEAN, power' \in {"unknown", "suspend", "resume"},
           engineLock' \in {"enabled", "disabled"}, running' \in {0} \cup Intervals,
           runningDistance' \subseteq Ids,
           (Time \cup Distance)' \subseteq Started,
           \A id \in Ids \ Started : unanswered'[id] = 0
    PROVE  TypeInv'
<1>1. /\ SoundMessages' = SoundMessages /\ Waiting' = Waiting
      /\ SoundRequests' = SoundRequests /\ Started' = Started
  BY SameSets
<1>2. queue' \in Seq(Messages) /\ requests' \in Seq(Requests)
      /\ pending' \in Seq({m \in Messages : m.what \in {"start", "update"} /\ m.flag})
  BY SeqMonotonic DEF SoundMessages, SoundRequests, Waiting
<1> HIDE DEF SoundMessages, SoundRequests, Waiting
<1>3. TypeOK' BY <1>1, <1>2 DEF TypeInv, TypeOK
<1> QED BY <1>1, <1>3 DEF TypeInv

LEMMA HandlersType ==
    ASSUME TypeInv, queue # <<>>, HandledEffect,
           pending' \in Seq(Waiting), requests' \in Seq(SoundRequests),
           unanswered' \in [Ids -> Int], told' \in [Ids -> BOOLEAN],
           timeBased' \in [Ids -> {0} \cup Intervals], distanceBased' \in [Ids -> {0} \cup Intervals],
           (Time \cup Distance)' \subseteq Started,
           \A id \in Ids \ Started : unanswered'[id] = 0
    PROVE  TypeInv'
<1>1. queue' \in Seq(SoundMessages) BY HeadTailProperties DEF TypeInv, HandledEffect
<1> QED BY <1>1, TypesFrom DEF HandledEffect, TypeInv, TypeOK

(* A report leaves sound what it touches,                                    *)
LEMMA ReportType ==
    ASSUME TypeInv, NEW id \in Started, NEW success \in BOOLEAN,
           Report(id, success) \/ UNCHANGED <<unanswered, told>>
    PROVE  /\ unanswered' \in [Ids -> Int] /\ told' \in [Ids -> BOOLEAN]
           /\ \A other \in Ids \ Started : unanswered'[other] = 0
<1>1. id \in Ids BY DEF Started
<1>2. CASE Report(id, success) BY <1>1, <1>2, ReportEffect DEF TypeInv
<1>3. CASE UNCHANGED <<unanswered, told>> BY <1>3 DEF TypeInv, TypeOK
<1> QED BY <1>2, <1>3

(* and so do saving and erasing.                                             *)
LEMMA SessionsType ==
    ASSUME TypeInv, NEW id \in Started,
           \/ \E i \in Intervals, far \in BOOLEAN : Save(id, i, far)
           \/ Erase(id)
           \/ UNCHANGED <<timeBased, distanceBased>>
    PROVE  /\ timeBased' \in [Ids -> {0} \cup Intervals]
           /\ distanceBased' \in [Ids -> {0} \cup Intervals]
           /\ (Time \cup Distance)' \subseteq Started
<1>1. id \in Ids /\ TypeOK /\ Time \cup Distance \subseteq Started BY DEF TypeInv, Started
<1>2. ASSUME NEW i \in Intervals, NEW far \in BOOLEAN, Save(id, i, far)
      PROVE  /\ timeBased' \in [Ids -> {0} \cup Intervals]
             /\ distanceBased' \in [Ids -> {0} \cup Intervals]
             /\ (Time \cup Distance)' \subseteq Started
  BY <1>1, <1>2, SaveEffect
<1>3. CASE Erase(id) BY <1>1, <1>3, EraseEffect
<1>4. CASE UNCHANGED <<timeBased, distanceBased>> BY <1>1, <1>4 DEF TypeOK, Time, Distance
<1> QED BY <1>2, <1>3, <1>4

LEMMA OneMoreRequest ==
    ASSUME TypeInv, UNCHANGED requests \/ \E r \in SoundRequests : requests' = Append(requests, r)
    PROVE  requests' \in Seq(SoundRequests)
BY SentOne DEF TypeInv

LEMMA CommandTypes ==
    ASSUME TypeInv, ProcStart \/ ProcUpdate \/ ProcStop \/ ProcToTime \/ ProcRestart
    PROVE  TypeInv'
<1> DEFINE m == Head(queue)
           i == Clamp(m.interval)
<1>1. pending \in Seq(Waiting) BY DEF TypeInv
<1>2. CASE ProcStart
  <2>1. /\ Receives("start") /\ HandledEffect /\ UNCHANGED pending /\ i \in Intervals
        /\ Save(m.id, i, m.flag) \/ UNCHANGED <<timeBased, distanceBased>>
        /\ Report(m.id, TRUE) \/ UNCHANGED <<unanswered, told>>
        /\ UNCHANGED requests \/ \E r \in SoundRequests : requests' = Append(requests, r)
    BY <1>2, StartEffect
  <2>2. queue # <<>> /\ m.id \in Started /\ m.flag \in BOOLEAN BY <2>1, Received DEF Commands
  <2> HIDE DEF i, m
  <2> QED BY <1>1, <2>1, <2>2, OneMoreRequest, ReportType, SessionsType, HandlersType
<1>3. CASE ProcStop
  <2>1. /\ Receives("stop") /\ HandledEffect /\ UNCHANGED pending
        /\ Erase(m.id) \/ UNCHANGED <<timeBased, distanceBased>>
        /\ Report(m.id, TRUE) \/ Report(m.id, FALSE) \/ UNCHANGED <<unanswered, told>>
        /\ UNCHANGED requests \/ \E r \in SoundRequests : requests' = Append(requests, r)
    BY <1>3, StopEffect
  <2>2. queue # <<>> /\ m.id \in Started BY <2>1, Received DEF Commands
  <2> HIDE DEF i, m
  <2> QED BY <1>1, <2>1, <2>2, OneMoreRequest, ReportType, SessionsType, HandlersType
<1>4. CASE ProcToTime
  <2>1. /\ Receives("toTime") /\ HandledEffect /\ UNCHANGED pending /\ m.interval \in Intervals
        /\ Save(m.id, m.interval, FALSE)
        /\ Report(m.id, TRUE) \/ UNCHANGED <<unanswered, told>>
        /\ UNCHANGED requests \/ \E r \in SoundRequests : requests' = Append(requests, r)
    BY <1>4, ToTimeEffect
  <2>2. queue # <<>> /\ m.id \in Started BY <2>1, Received DEF Answers
  <2> HIDE DEF i, m
  <2> QED BY <1>1, <2>1, <2>2, OneMoreRequest, ReportType, SessionsType, HandlersType
<1>5. CASE ProcRestart
  <2>1. /\ Receives("restart") /\ HandledEffect /\ UNCHANGED pending /\ m.interval \in Intervals
        /\ UNCHANGED <<timeBased, distanceBased, unanswered, told>>
        /\ m.flag => \E r \in SoundRequests : requests' = Append(requests, r)
        /\ ~m.flag => UNCHANGED requests
    BY <1>5, RestartAnswerEffect
  <2>2. queue # <<>> /\ m.id \in Started BY <2>1, Received DEF Answers
  <2> HIDE DEF i, m
  <2> QED BY <1>1, <2>1, <2>2, OneMoreRequest, ReportType, SessionsType, HandlersType
<1>6. CASE ProcUpdate
  <2>1. /\ Receives("update") /\ HandledEffect /\ UNCHANGED pending /\ i \in Intervals
    BY <1>6, UpdateEffect
  <2>2. queue # <<>> /\ m.id \in Started /\ m.id \in Ids /\ m.flag \in BOOLEAN
    BY <2>1, Received DEF Commands
  <2>3. /\ Report(m.id, TRUE) \/ Report(m.id, FALSE) \/ UNCHANGED <<unanswered, told>>
        /\ \/ UNCHANGED requests
           \/ \E r \in SoundRequests : requests' = Append(requests, r)
           \/ \E r, s \in SoundRequests : requests' = Append(Append(requests, r), s)
        /\ \/ Save(m.id, i, FALSE) \/ Erase(m.id) \/ UNCHANGED <<timeBased, distanceBased>>
           \/ /\ timeBased' = [timeBased EXCEPT ![m.id] = i] /\ UNCHANGED distanceBased
           \/ /\ timeBased' = [timeBased EXCEPT ![m.id] = 0]
              /\ distanceBased' = [distanceBased EXCEPT ![m.id] = i]
    BY <1>6, UpdateEffect
  <2> HIDE DEF m, i
  <2>4. requests' \in Seq(SoundRequests)
    <3>1. \A r, s \in SoundRequests : Append(Append(requests, r), s) \in Seq(SoundRequests)
      BY AppendProperties DEF TypeInv
    <3> QED BY <2>3, <3>1, OneMoreRequest
  <2>5. /\ timeBased' \in [Ids -> {0} \cup Intervals]
        /\ distanceBased' \in [Ids -> {0} \cup Intervals]
        /\ (Time \cup Distance)' \subseteq Started
    <3>1. CASE Save(m.id, i, FALSE) \/ Erase(m.id) \/ UNCHANGED <<timeBased, distanceBased>>
      BY <2>1, <2>2, <3>1, SessionsType
    <3>2. /\ timeBased \in [Ids -> {0} \cup Intervals] /\ distanceBased \in [Ids -> {0} \cup Intervals]
          /\ Time \cup Distance \subseteq Started
      BY DEF TypeInv, TypeOK
    <3>3. CASE timeBased' = [timeBased EXCEPT ![m.id] = i] /\ UNCHANGED distanceBased
      <4>1. Time' \subseteq Time \cup {m.id} /\ Distance' = Distance
        BY <2>2, <3>2, <3>3 DEF Time, Distance
      <4> QED BY <2>1, <2>2, <3>2, <3>3, <4>1
    <3>4. CASE /\ timeBased' = [timeBased EXCEPT ![m.id] = 0]
               /\ distanceBased' = [distanceBased EXCEPT ![m.id] = i]
      <4>1. Time' \subseteq Time /\ Distance' \subseteq Distance \cup {m.id}
        BY <2>2, <3>2, <3>4 DEF Time, Distance
      <4> QED BY <2>1, <2>2, <3>2, <3>4, <4>1
    <3> QED BY <2>3, <3>1, <3>3, <3>4
  <2> QED BY <1>1, <2>1, <2>2, <2>3, <2>4, <2>5, ReportType, HandlersType
<1> QED BY <1>2, <1>3, <1>4, <1>5, <1>6

LEMMA NextTypes == ASSUME TypeInv, [Next]_vars PROVE TypeInv'
<1> USE DEF TypeInv
<1>1. ASSUME NEW c \in Clients, NEW i \in Asked, NEW far \in BOOLEAN, startTracking(c, i, far)
      PROVE  TypeInv'
  <2>1. PICK id \in Ids : Generates(id, c) /\ Command("start", id, i, far)
    BY <1>1, StartTrackingEffect
  <2>2. /\ queue' = Append(queue, Message("start", id, i, far))
        /\ Message("start", id, i, far) \in Messages
        /\ unanswered' \in [Ids -> Int] /\ unanswered'[id] = unanswered[id] + 1
        /\ \A other \in Ids \ {id} : unanswered'[other] = unanswered[other]
        /\ UNCHANGED <<world, clients, events, told, callbacks, timeBased, distanceBased, pending,
                       known, power, requests, engineLock, modemUp, running, runningDistance>>
    BY <2>1, CommandEffect DEF Commands
  <2>3. /\ Started' = Started \cup {id} /\ id \in Ids /\ id \notin Started
        /\ owner' \in [Ids -> Clients \cup {NoClient}]
        /\ queue \in Seq(SoundMessages') /\ pending \in Seq(Waiting')
        /\ requests \in Seq(SoundRequests')
    BY <2>1, <2>2, SetsGrow
  <2>4. Message("start", id, i, far) \in SoundMessages'
    <3>1. /\ Message("start", id, i, far).what = "start" /\ Message("start", id, i, far).id = id
          /\ Message("start", id, i, far).interval = i
      BY DEF Message
    <3> QED BY <2>2, <2>3, <3>1 DEF SoundMessages, UpdateKinds
  <2>5. UNCHANGED <<stopped, commands>> /\ Time' = Time /\ Distance' = Distance
    BY <1>1, <2>2, StartTrackingEffect DEF Time, Distance
  <2>6. queue' \in Seq(SoundMessages') BY <2>2, <2>3, <2>4, AppendProperties
  <2>7. queue' \in Seq(Messages) BY <2>2, AppendProperties DEF TypeOK
  <2>8. TypeOK' BY <2>2, <2>3, <2>5, <2>7 DEF TypeOK
  <2> HIDE DEF SoundMessages, SoundRequests, Waiting
  <2> QED BY <2>2, <2>3, <2>5, <2>6, <2>8
<1>2. ASSUME \/ \E id \in Ids, i \in Asked, far \in BOOLEAN : updateTrackingOptions(id, i, far)
             \/ \E id \in Ids : stopTracking(id)
      PROVE  TypeInv'
  <2>1. PICK id \in Started, what \in {"update", "stop"}, i \in {0} \cup Asked, flag \in BOOLEAN :
              /\ id \in Ids /\ owner[id] \in clients /\ Command(what, id, i, flag)
              /\ UNCHANGED owner /\ commands < MaxCommands /\ commands' = commands + 1
              /\ what = "update" => Exposed({"updates"}) /\ i \in Asked /\ UNCHANGED stopped
              /\ what = "stop" => i = 0 /\ ~flag /\ stopped' = stopped \cup {id}
              /\ Message(what, id, i, flag) \in SoundMessages
    BY <1>2, LaterCommandEffect
  <2>2. /\ queue' = Append(queue, Message(what, id, i, flag))
        /\ unanswered' \in [Ids -> Int] /\ unanswered'[id] = unanswered[id] + 1
        /\ \A other \in Ids \ {id} : unanswered'[other] = unanswered[other]
        /\ UNCHANGED <<world, clients, events, told, callbacks, timeBased, distanceBased, pending,
                       known, power, requests, engineLock, modemUp, running, runningDistance>>
    BY <2>1, CommandEffect DEF Commands
  <2>3. queue' \in Seq(SoundMessages) BY <2>1, <2>2, AppendProperties
  <2>4. commands' \in 0..MaxCommands /\ stopped' \subseteq Started
    BY <2>1, TrackingAssumption DEF TypeOK
  <2>5. Time' = Time /\ Distance' = Distance BY <2>2 DEF Time, Distance
  <2> QED BY <2>1, <2>2, <2>3, <2>4, <2>5, TypesFrom DEF TypeOK
<1>3. ASSUME NEW c \in Clients, destroy(c) PROVE TypeInv'
  <2>1. /\ queue' = Append(queue, [what |-> "remove", client |-> c])
        /\ clients' \subseteq clients /\ stopped' = stopped \cup {id \in Ids : owner[id] = c}
        /\ UNCHANGED <<world, owner, commands, events, unanswered, told, callbacks, timeBased,
                       distanceBased, pending, known, power, requests,
                       engineLock, modemUp, running, runningDistance>>
    BY <1>3 DEF destroy, answers, sessions, modem
  <2>2. queue' \in Seq(SoundMessages) BY <2>1, NewMessages, AppendProperties
  <2>3. stopped' \subseteq Started BY <2>1, TrackingAssumption DEF TypeOK, Started
  <2>4. Time' = Time /\ Distance' = Distance BY <2>1 DEF Time, Distance
  <2> QED BY <2>1, <2>2, <2>3, <2>4, TypesFrom DEF TypeOK
<1>4. ASSUME ProcPostponed PROVE TypeInv'
  <2>1. /\ Receives("start") \/ Receives("update")
        /\ HandledEffect /\ pending' \in Seq(Waiting)
        /\ UNCHANGED <<unanswered, told, timeBased, distanceBased, requests>>
    BY <1>4, PostponedEffect
  <2>2. Time' = Time /\ Distance' = Distance /\ queue # <<>>
    BY <2>1 DEF Time, Distance, Receives
  <2> QED BY <2>1, <2>2, HandlersType DEF TypeOK
<1>5. ASSUME ProcStart \/ ProcUpdate \/ ProcStop \/ ProcToTime \/ ProcRestart PROVE TypeInv'
  BY <1>5, CommandTypes
<1>6. ASSUME ProcRemoveSession PROVE TypeInv'
  <2>1. PICK id \in Time :
           /\ owner[id] = Head(queue).client /\ Erase(id)
           /\ UNCHANGED requests \/ \E r \in SoundRequests : requests' = Append(requests, r)
    BY <1>6, RemoveSessionEffect
  <2>2. UNCHANGED <<world, clients, owner, stopped, commands, events, unanswered, told, queue,
                    callbacks, pending, known, power, engineLock, modemUp, running, runningDistance>>
    BY <1>6, RemoveSessionEffect
  <2>3. requests' \in Seq(SoundRequests) BY <2>1, OneMoreRequest
  <2>4. /\ timeBased' \in [Ids -> {0} \cup Intervals]
        /\ distanceBased' \in [Ids -> {0} \cup Intervals]
        /\ (Time \cup Distance)' \subseteq Started
    BY <2>1, SessionsType
  <2> QED BY <2>2, <2>3, <2>4, TypesFrom DEF TypeOK
<1>7. ASSUME ProcRemoveClient PROVE TypeInv'
  <2>1. /\ Receives("remove") /\ queue' = Tail(queue) /\ callbacks' \subseteq callbacks
        /\ UNCHANGED <<world, clients, owner, stopped, commands, events, unanswered, told,
                       timeBased, distanceBased, pending, known, power,
                       engineLock, modemUp, running, runningDistance>>
        /\ \E reqs \in Seq(SoundRequests) : requests' = requests \o reqs
    BY <1>7, RemoveClientEffect
  <2>2. queue' \in Seq(SoundMessages) /\ requests' \in Seq(SoundRequests)
    BY <2>1, Received, ConcatProperties
  <2>3. Time' = Time /\ Distance' = Distance BY <2>1 DEF Time, Distance
  <2> QED BY <2>1, <2>2, <2>3, TypesFrom DEF TypeOK
<1>8. ASSUME ProcStarted \/ ProcUpdated \/ ProcStopped \/ ProcDistanceStopped \/ ProcGoneStopped
             \/ ProcRestarted
      PROVE  TypeInv'
  <2> DEFINE m == Head(queue)
  <2>1. /\ queue # <<>> /\ HandledEffect /\ UNCHANGED <<pending, requests>>
        /\ m.id \in Started /\ m.flag \in BOOLEAN
        /\ Report(m.id, m.flag) \/ UNCHANGED <<unanswered, told>>
        /\ \/ Erase(m.id)
           \/ UNCHANGED <<timeBased, distanceBased>>
           \/ m.interval \in Intervals /\ (Save(m.id, m.interval, FALSE) \/ Save(m.id, m.interval, TRUE))
    BY <1>8, AnswerEffect
  <2> HIDE DEF m
  <2>2. /\ timeBased' \in [Ids -> {0} \cup Intervals]
        /\ distanceBased' \in [Ids -> {0} \cup Intervals]
        /\ (Time \cup Distance)' \subseteq Started
    BY <2>1, SessionsType
  <2> QED BY <2>1, <2>2, ReportType, HandlersType
<1>9. ASSUME ProcEngineUp \/ handleEngineLockStatus \/ updateSystemPowerState PROVE TypeInv'
  <2>1. /\ UNCHANGED <<world, clients, owner, stopped, commands, events, unanswered, told,
                       callbacks, timeBased, distanceBased,
                       engineLock, modemUp, running, runningDistance>>
        /\ \E reqs \in Seq(Unheeded) : requests' = requests \o reqs
        /\ queue' \in Seq(SoundMessages) /\ pending' \in Seq(Waiting)
    BY <1>9, EventEffect
  <2>2. known' \in BOOLEAN /\ power' \in {"unknown", "suspend", "resume"}
    BY <1>9 DEF ProcEngineUp, handleEngineLockStatus, updateSystemPowerState, TypeOK
  <2>3. requests' \in Seq(SoundRequests) /\ Time' = Time /\ Distance' = Distance
    <3>1. \A reqs \in Seq(Unheeded) : reqs \in Seq(SoundRequests) BY SeqMonotonic DEF Unheeded
    <3> QED BY <2>1, <3>1, ConcatProperties DEF Time, Distance, TypeInv
  <2> QED BY <2>1, <2>2, <2>3, TypesFrom DEF TypeOK
<1>10. ASSUME LocApiRequest PROVE TypeInv'
  <2> DEFINE r == Head(requests)
  <2>1. /\ r \in SoundRequests /\ requests' \in Seq(SoundRequests)
        /\ UNCHANGED <<world, clients, owner, stopped, commands, events, unanswered, told,
                       callbacks, timeBased, distanceBased, pending, known, power,
                       engineLock, modemUp>>
        /\ queue' \in Seq(SoundMessages)
        /\ \/ running' = running \/ running' = 0
           \/ r.do = "timeStart" /\ running' = r.interval
        /\ \/ runningDistance' = runningDistance
           \/ r.do = "distanceStart" /\ runningDistance' = runningDistance \cup {r.id}
           \/ runningDistance' = runningDistance \ {r.id}
    BY <1>10, RequestEffect
  <2>2. /\ r.do = "timeStart" => r.interval \in Intervals
        /\ r.do = "distanceStart" => r.id \in Ids
    BY <2>1 DEF SoundRequests, Started
  <2>3. Time' = Time /\ Distance' = Distance BY <2>1 DEF Time, Distance
  <2> HIDE DEF r
  <2>4. running' \in {0} \cup Intervals /\ runningDistance' \subseteq Ids
    BY <2>1, <2>2 DEF TypeOK
  <2> QED BY <2>1, <2>3, <2>4, TypesFrom DEF TypeOK
<1>11. ASSUME LocApiOpen \/ ModemCrashes \/ EngineLockChanges \/ PowerChanges PROVE TypeInv'
  <2>1. /\ UNCHANGED <<world, clients, owner, stopped, commands, unanswered, told, callbacks,
                       timeBased, distanceBased, pending, known, power>>
        /\ queue' \in Seq(SoundMessages) /\ requests' \in Seq(SoundRequests)
        /\ events' \in 0..MaxEvents /\ engineLock' \in {"enabled", "disabled"}
        /\ modemUp' \in BOOLEAN
        /\ \/ UNCHANGED <<running, runningDistance>>
           \/ running' = 0 /\ runningDistance' = {}
    BY <1>11, EnvironmentEffect
  <2>2. Time' = Time /\ Distance' = Distance BY <2>1 DEF Time, Distance
  <2>3. running' \in {0} \cup Intervals /\ runningDistance' \subseteq Ids BY <2>1 DEF TypeOK
  <2> QED BY <2>1, <2>2, <2>3, TypesFrom DEF TypeOK
<1>12. CASE UNCHANGED vars
  <2>1. /\ UNCHANGED <<world, clients, owner, stopped, commands, events, unanswered, told, queue,
                       callbacks, timeBased, distanceBased, pending, known, power, requests,
                       engineLock, modemUp, running, runningDistance>>
    BY <1>12 DEF vars, users, sessions, modem, answers
  <2>2. Time' = Time /\ Distance' = Distance BY <2>1 DEF Time, Distance
  <2> QED BY <2>1, <2>2, TypesFrom DEF TypeOK
<1> QED
  BY <1>1, <1>2, <1>3, <1>4, <1>5, <1>6, <1>7, <1>8, <1>9, <1>10, <1>11, <1>12 DEF Next, Client,
    Adapter, LocApi

-----------------------------------------------------------------------------
(* EachAnswered: a command is outstanding while its message waits, while it  *)
(* waits for the engine, or while the request it led to is under way.        *)

Owing      == Commands \cup (Answers \ {"goneStopped"})
DueM(id)   == {m \in Messages : m.what \in Owing /\ m.id = id}
DueR(id)   == {r \in Requests : r.then \in Owing /\ r.id = id}

Outstanding(id) == Count(queue, DueM(id)) + Count(pending, DueM(id)) + Count(requests, DueR(id))

Removal(c) == [what |-> "remove", client |-> c]
Leaving(c) == \E k \in DOMAIN queue : queue[k] = Removal(c)

(* What the client of a session will still hear of, when it has been         *)
(* destroyed: the answers that come before its removal                       *)
HeardPlaces(q, id) ==
    {k \in DOMAIN q : q[k] \in DueM(id) /\ \A j \in 1..k : q[j] # Removal(owner[id])}
Heard(q, id) == Cardinality(HeardPlaces(q, id))

ClientsInv == \A c \in Clients : c \in clients <=> c \in callbacks /\ ~Leaving(c)

CountInv ==
    \A id \in Started :
        /\ unanswered[id] >= 0
        /\ owner[id] \in clients => Outstanding(id) <= unanswered[id]
        /\ owner[id] \in callbacks => Heard(queue, id) <= unanswered[id]

NothingDropped ==
    ~Exposed({"bare"}) /\ (Exposed({"updates"}) => ~Exposed({"fails", "crashes", "locks"}))

DueInv ==
    NothingDropped =>
        \A id \in Started : owner[id] \in clients => unanswered[id] <= Outstanding(id)

(* Who waits for the engine will be woken.                                   *)
PendingInv ==
    pending # <<>> /\ known /\ Unlocked => \E k \in DOMAIN queue : Wakes(queue[k])

(* Without crashes and locks every request finds the modem ready.            *)
ReadyInv ==
    ~Exposed({"crashes", "locks"}) =>
        \/ modemUp /\ Unlocked
        \/ requests # <<>> /\ Head(requests).do = "open"

RestartsInv ==
    ~Exposed({"fails", "crashes", "locks"}) =>
        \A k \in DOMAIN queue : queue[k].what = "restart" => queue[k].flag

AnswerInv ==
    /\ TypeInv /\ ClientsInv /\ CountInv /\ DueInv /\ PendingInv /\ ReadyInv /\ RestartsInv

LEMMA HeardFinite ==
    ASSUME NEW S, NEW q \in Seq(S), NEW id
    PROVE  /\ IsFiniteSet(HeardPlaces(q, id)) /\ Heard(q, id) \in Nat
           /\ Heard(q, id) <= Count(q, DueM(id))
<1>1. IsFiniteSet(Places(q, DueM(id))) BY FinitePlaces
<1>2. HeardPlaces(q, id) \in SUBSET Places(q, DueM(id)) BY DEF HeardPlaces, Places
<1>3. /\ IsFiniteSet(HeardPlaces(q, id))
      /\ Cardinality(HeardPlaces(q, id)) <= Cardinality(Places(q, DueM(id)))
  BY <1>1, <1>2, FS_Subset
<1>4. Cardinality(HeardPlaces(q, id)) \in Nat BY <1>3, FS_CardinalityType
<1> QED BY <1>3, <1>4 DEF Heard, Count

(* What comes behind the removal of the client is not heard.                 *)
LEMMA HeardBehind ==
    ASSUME NEW S, NEW q \in Seq(S), NEW t \in Seq(S), NEW id,
           \E k \in DOMAIN q : q[k] = Removal(owner[id])
    PROVE  Heard(q \o t, id) = Heard(q, id)
<1> DEFINE r == q \o t
<1>1. /\ r \in Seq(S) /\ Len(r) = Len(q) + Len(t)
      /\ \A i \in 1..(Len(q) + Len(t)) : r[i] = IF i <= Len(q) THEN q[i] ELSE t[i - Len(q)]
  BY ConcatProperties
<1>2. /\ Len(q) \in Nat /\ DOMAIN q = 1..Len(q) /\ Len(t) \in Nat
      /\ DOMAIN r = 1..(Len(q) + Len(t))
  BY <1>1, LenProperties
<1> HIDE DEF r
<1>3. DOMAIN q \subseteq DOMAIN r /\ \A k \in DOMAIN q : r[k] = q[k] /\ 1..k \subseteq DOMAIN q
  BY <1>1, <1>2
<1>4. PICK last \in DOMAIN q : q[last] = Removal(owner[id])
  OBVIOUS
<1>5. ASSUME NEW k \in HeardPlaces(q, id) PROVE k \in HeardPlaces(r, id)
  <2>1. k \in DOMAIN q /\ q[k] \in DueM(id) /\ \A j \in 1..k : q[j] # Removal(owner[id])
    BY <1>5 DEF HeardPlaces
  <2>2. k \in DOMAIN r /\ r[k] \in DueM(id) /\ \A j \in 1..k : r[j] # Removal(owner[id])
    BY <1>3, <2>1
  <2> QED BY <2>2 DEF HeardPlaces
<1>6. ASSUME NEW k \in HeardPlaces(r, id) PROVE k \in HeardPlaces(q, id)
  <2>1. k \in DOMAIN r /\ r[k] \in DueM(id) /\ \A j \in 1..k : r[j] # Removal(owner[id])
    BY <1>6 DEF HeardPlaces
  <2>2. last \notin 1..k BY <1>3, <1>4, <2>1
  <2>3. k \in DOMAIN q BY <1>2, <2>1, <2>2
  <2>4. q[k] \in DueM(id) /\ \A j \in 1..k : q[j] # Removal(owner[id]) BY <1>3, <2>1, <2>3
  <2> QED BY <2>3, <2>4 DEF HeardPlaces
<1>7. HeardPlaces(r, id) = HeardPlaces(q, id) BY <1>5, <1>6
<1>8. Heard(r, id) = Heard(q, id) BY <1>7 DEF Heard
<1> QED BY <1>8 DEF r

LEMMA HeardTaken ==
    ASSUME NEW S, NEW q \in Seq(S), q # <<>>, NEW id, Head(q) # Removal(owner[id])
    PROVE  Heard(q, id) = Heard(Tail(q), id) + IF Head(q) \in DueM(id) THEN 1 ELSE 0
<1> DEFINE t == Tail(q)
           P == HeardPlaces(t, id)
           Q == {k + 1 : k \in P}
<1>1. /\ t \in Seq(S) /\ Len(t) = Len(q) - 1 /\ \A i \in 1..Len(t) : t[i] = q[i + 1]
  BY HeadTailProperties
<1>2. /\ Len(q) \in Nat \ {0} /\ DOMAIN q = 1..Len(q) /\ DOMAIN t = 1..Len(t) /\ Head(q) = q[1]
  BY <1>1, LenProperties, EmptySeq
<1>3. IsFiniteSet(P) /\ Heard(t, id) \in Nat /\ P \subseteq Nat
  <2>1. IsFiniteSet(P) /\ Heard(t, id) \in Nat BY <1>1, HeardFinite
  <2>2. DOMAIN t \subseteq Nat BY <1>2
  <2>3. P \subseteq Nat BY <2>2 DEF HeardPlaces
  <2> QED BY <2>1, <2>3
<1> HIDE DEF t
<1>4. ASSUME NEW k \in HeardPlaces(q, id), k # 1 PROVE k \in Q
  <2>1. k \in DOMAIN q /\ q[k] \in DueM(id) /\ \A j \in 1..k : q[j] # Removal(owner[id])
    BY <1>4 DEF HeardPlaces
  <2>2. k - 1 \in DOMAIN t /\ t[k - 1] \in DueM(id) BY <1>1, <1>2, <1>4, <2>1
  <2>3. ASSUME NEW j \in 1..(k - 1) PROVE t[j] # Removal(owner[id])
    <3>1. j \in 1..Len(t) /\ j + 1 \in 1..k BY <1>2, <2>1, <2>2
    <3> QED BY <1>1, <2>1, <3>1
  <2>4. k - 1 \in P BY <2>2, <2>3 DEF HeardPlaces
  <2>5. k = (k - 1) + 1 BY <1>2, <2>1
  <2> QED BY <2>4, <2>5
<1>5. ASSUME NEW k \in P PROVE k + 1 \in HeardPlaces(q, id) /\ k + 1 # 1
  <2>1. k \in 1..Len(t) /\ t[k] \in DueM(id) /\ \A j \in 1..k : t[j] # Removal(owner[id])
    BY <1>2, <1>5 DEF HeardPlaces
  <2>2. k + 1 \in DOMAIN q /\ q[k + 1] \in DueM(id) BY <1>1, <1>2, <2>1
  <2>3. ASSUME NEW j \in 1..(k + 1) PROVE q[j] # Removal(owner[id])
    <3>1. CASE j = 1 BY <1>2, <3>1
    <3>2. CASE j # 1
      <4>1. j - 1 \in 1..k /\ j - 1 \in 1..Len(t) /\ (j - 1) + 1 = j BY <1>2, <2>1, <3>2
      <4> QED BY <1>1, <2>1, <4>1
    <3> QED BY <3>1, <3>2
  <2>4. k + 1 # 1 BY <2>1
  <2> QED BY <2>2, <2>3, <2>4 DEF HeardPlaces
<1>6. 1 \in HeardPlaces(q, id) <=> Head(q) \in DueM(id)
  <2>1. 1 \in DOMAIN q /\ \A j \in 1..1 : j = 1 BY <1>2
  <2> QED BY <1>2, <2>1 DEF HeardPlaces
<1>7. HeardPlaces(q, id) \ {1} = Q BY <1>4, <1>5
<1>8. IsFiniteSet(Q) /\ Cardinality(Q) = Cardinality(P) BY <1>3, Moved
<1>9. IsFiniteSet(HeardPlaces(q, id)) BY HeardFinite
<1> HIDE DEF Q, P
<1>10. Cardinality(HeardPlaces(q, id) \ {1})
          = IF 1 \in HeardPlaces(q, id) THEN Cardinality(HeardPlaces(q, id)) - 1
            ELSE Cardinality(HeardPlaces(q, id))
  BY <1>9, FS_RemoveElement
<1>11. Cardinality(P) = Heard(t, id) /\ Cardinality(HeardPlaces(q, id)) = Heard(q, id)
  BY DEF P, Heard
<1>12. Heard(q, id) \in Nat BY HeardFinite
<1>13. Heard(q, id) = Heard(t, id) + IF Head(q) \in DueM(id) THEN 1 ELSE 0
  <2>1. CASE Head(q) \in DueM(id)
    <3>1. Heard(t, id) = Heard(q, id) - 1 BY <1>6, <1>7, <1>8, <1>10, <1>11, <2>1
    <3> QED BY <1>3, <1>12, <2>1, <3>1
  <2>2. CASE Head(q) \notin DueM(id)
    <3>1. Heard(t, id) = Heard(q, id) BY <1>6, <1>7, <1>8, <1>10, <1>11, <2>2
    <3> QED BY <1>3, <1>12, <2>2, <3>1
  <2> QED BY <2>1, <2>2
<1> QED BY <1>13 DEF t

LEMMA OutstandingNat ==
    ASSUME TypeInv, NEW id
    PROVE  /\ Count(queue, DueM(id)) \in Nat /\ Count(pending, DueM(id)) \in Nat
           /\ Count(requests, DueR(id)) \in Nat
           /\ Outstanding(id) \in Nat /\ Count(queue, DueM(id)) <= Outstanding(id)
<1>1. /\ Count(queue, DueM(id)) \in Nat /\ Count(pending, DueM(id)) \in Nat
      /\ Count(requests, DueR(id)) \in Nat
  BY FinitePlaces DEF TypeInv
<1> QED BY <1>1 DEF Outstanding

(* The places of a queue, when its first message is taken                    *)
LEMMA TakenPlaces ==
    ASSUME NEW S, NEW q \in Seq(S), q # <<>>
    PROVE  /\ Tail(q) \in Seq(S) /\ Head(q) = q[1] /\ 1 \in DOMAIN q
           /\ \A k \in DOMAIN Tail(q) : k + 1 \in DOMAIN q /\ Tail(q)[k] = q[k + 1]
           /\ \A k \in DOMAIN q : k = 1 \/ (k - 1 \in DOMAIN Tail(q) /\ Tail(q)[k - 1] = q[k])
<1>1. /\ Tail(q) \in Seq(S) /\ Len(Tail(q)) = Len(q) - 1
      /\ \A i \in 1..Len(Tail(q)) : Tail(q)[i] = q[i + 1]
  BY HeadTailProperties
<1>2. /\ Len(q) \in Nat \ {0} /\ DOMAIN q = 1..Len(q) /\ DOMAIN Tail(q) = 1..Len(Tail(q))
      /\ Head(q) = q[1]
  BY <1>1, LenProperties, EmptySeq
<1>3. ASSUME NEW k \in DOMAIN q, k # 1 PROVE k - 1 \in 1..Len(Tail(q)) /\ (k - 1) + 1 = k
  BY <1>1, <1>2, <1>3
<1> QED BY <1>1, <1>2, <1>3

(* and when something is put behind it                                       *)
LEMMA JoinedPlaces ==
    ASSUME NEW S, NEW q \in Seq(S), NEW t \in Seq(S)
    PROVE  /\ q \o t \in Seq(S)
           /\ \A k \in DOMAIN q : k \in DOMAIN (q \o t) /\ (q \o t)[k] = q[k]
           /\ \A k \in DOMAIN t : k + Len(q) \in DOMAIN (q \o t) /\ (q \o t)[k + Len(q)] = t[k]
           /\ \A k \in DOMAIN (q \o t) :
                 \/ k \in DOMAIN q /\ (q \o t)[k] = q[k]
                 \/ /\ k \notin DOMAIN q /\ k - Len(q) \in DOMAIN t
                    /\ (q \o t)[k] = t[k - Len(q)]
           /\ q # <<>> => q \o t # <<>> /\ Head(q \o t) = Head(q)
           /\ Len(q) \in Nat /\ DOMAIN q = 1..Len(q)
<1> DEFINE r == q \o t
<1>1. /\ r \in Seq(S) /\ Len(r) = Len(q) + Len(t)
      /\ \A i \in 1..(Len(q) + Len(t)) : r[i] = IF i <= Len(q) THEN q[i] ELSE t[i - Len(q)]
  BY ConcatProperties
<1>2. /\ Len(q) \in Nat /\ DOMAIN q = 1..Len(q) /\ Len(t) \in Nat /\ DOMAIN t = 1..Len(t)
      /\ DOMAIN r = 1..(Len(q) + Len(t))
      /\ q # <<>> => Len(q) # 0
  BY <1>1, LenProperties, EmptySeq
<1> HIDE DEF r
<1>3. /\ \A k \in DOMAIN q : k \in DOMAIN r /\ r[k] = q[k]
      /\ \A k \in DOMAIN t : k + Len(q) \in DOMAIN r /\ r[k + Len(q)] = t[k]
  BY <1>1, <1>2
<1>4. ASSUME NEW k \in DOMAIN r
      PROVE  \/ k \in DOMAIN q /\ r[k] = q[k]
             \/ k \notin DOMAIN q /\ k - Len(q) \in DOMAIN t /\ r[k] = t[k - Len(q)]
  BY <1>1, <1>2
<1>5. ASSUME q # <<>> PROVE r # <<>> /\ Head(r) = Head(q)
  <2>1. Len(r) # 0 /\ 1 \in DOMAIN q BY <1>1, <1>2, <1>5
  <2>2. r # <<>> /\ q # <<>> BY <1>5, <2>1, EmptySeq
  <2>3. Head(r) = r[1] /\ Head(q) = q[1] BY <1>1, <2>2
  <2> QED BY <1>3, <2>1, <2>2, <2>3
<1> QED BY <1>1, <1>2, <1>3, <1>4, <1>5 DEF r

(* Nobody comes or goes: what a step leaves to be heard                      *)
NoRemoval(t) == \A k \in DOMAIN t : t[k].what # "remove"

LEMMA CountsKept ==
    ASSUME TypeInv, TypeInv', ClientsInv, CountInv,
           UNCHANGED <<world, owner, clients, callbacks>>,
           NEW taken \in BOOLEAN, NEW t \in Seq(Messages), NoRemoval(t),
           taken => queue # <<>> /\ Head(queue).what # "remove" /\ queue' = Tail(queue) \o t,
           ~taken => queue' = queue \o t,
           \A id \in Started :
              /\ owner[id] \in clients => Outstanding(id)' <= unanswered'[id]
              /\ \/ unanswered'[id] = unanswered[id]
                 \/ owner[id] \in clients
                 \/ /\ taken /\ owner[id] \in callbacks /\ Head(queue) \in DueM(id)
                    /\ unanswered'[id] = unanswered[id] - 1
    PROVE  ClientsInv' /\ CountInv'
<1>1. queue \in Seq(Messages) /\ queue' \in Seq(Messages) BY DEF TypeInv, TypeOK
<1>2. Started' = Started BY DEF Started
<1> DEFINE rest == IF taken THEN Tail(queue) ELSE queue
<1>3. /\ rest \in Seq(Messages) /\ queue' = rest \o t
      /\ taken => Head(queue) = queue[1] /\ 1 \in DOMAIN queue
      /\ \A k \in DOMAIN rest : \E j \in DOMAIN queue : rest[k] = queue[j]
      /\ \A j \in DOMAIN queue : (taken /\ j = 1) \/ \E k \in DOMAIN rest : rest[k] = queue[j]
  <2>1. CASE taken
    <3>1. /\ queue \in Seq(Messages) /\ queue # <<>> /\ rest = Tail(queue) /\ queue' = rest \o t
      BY <1>1, <2>1
    <3>2. /\ Tail(queue) \in Seq(Messages) /\ Head(queue) = queue[1] /\ 1 \in DOMAIN queue
          /\ \A k \in DOMAIN Tail(queue) : k + 1 \in DOMAIN queue /\ Tail(queue)[k] = queue[k + 1]
          /\ \A k \in DOMAIN queue :
                k = 1 \/ (k - 1 \in DOMAIN Tail(queue) /\ Tail(queue)[k - 1] = queue[k])
      BY <3>1, TakenPlaces
    <3> HIDE DEF rest
    <3> QED BY <2>1, <3>1, <3>2
  <2>2. CASE ~taken BY <1>1, <2>2
  <2> QED BY <2>1, <2>2
<1> HIDE DEF rest
<1>4. ASSUME NEW c \in Clients
      PROVE  /\ Leaving(c)' = Leaving(c)
             /\ Leaving(c) => \E k \in DOMAIN rest : rest[k] = Removal(c)
  <2>1. Removal(c).what = "remove" BY DEF Removal
  <2>2. ASSUME NEW j \in DOMAIN queue, queue[j] = Removal(c)
        PROVE  \E k \in DOMAIN rest : rest[k] = Removal(c)
    BY <1>3, <2>1, <2>2
  <2>3. ASSUME NEW k \in DOMAIN rest, rest[k] = Removal(c)
        PROVE  \E j \in DOMAIN queue' : queue'[j] = Removal(c)
    BY <1>3, <2>3, JoinedPlaces
  <2>4. ASSUME NEW k \in DOMAIN queue', queue'[k] = Removal(c)
        PROVE  \E j \in DOMAIN queue : queue[j] = Removal(c)
    <3>1. \/ k \in DOMAIN rest /\ queue'[k] = rest[k]
          \/ k - Len(rest) \in DOMAIN t /\ queue'[k] = t[k - Len(rest)]
      BY <1>3, <2>4, JoinedPlaces
    <3>2. k \in DOMAIN rest /\ queue'[k] = rest[k] BY <2>1, <2>4, <3>1 DEF NoRemoval
    <3> QED BY <1>3, <2>4, <3>2
  <2> QED BY <2>2, <2>3, <2>4 DEF Leaving
<1>5. ClientsInv' BY <1>4 DEF ClientsInv
<1>6. ASSUME NEW id \in Started
      PROVE  /\ unanswered'[id] >= 0
             /\ owner[id] \in clients => Outstanding(id)' <= unanswered'[id]
             /\ owner[id] \in callbacks => Heard(queue, id)' <= unanswered'[id]
  <2>1. id \in Ids /\ unanswered[id] \in Int /\ unanswered'[id] \in Int /\ owner[id] \in Clients
    BY DEF Started, TypeInv, TypeOK
  <2>2. Heard(queue, id)' = Heard(queue', id) BY DEF Heard, HeardPlaces
  <2>3. CASE owner[id] \in clients
    <3>1. /\ Outstanding(id)' \in Nat /\ Count(queue', DueM(id)) \in Nat
          /\ Count(queue', DueM(id)) <= Outstanding(id)'
      <4>1. /\ Count(queue', DueM(id)) \in Nat /\ Count(pending', DueM(id)) \in Nat
            /\ Count(requests', DueR(id)) \in Nat
        BY FinitePlaces DEF TypeInv
      <4> QED BY <4>1 DEF Outstanding
    <3>2. Heard(queue', id) <= Count(queue', DueM(id)) /\ Heard(queue', id) \in Nat
      BY <1>1, HeardFinite
    <3> QED BY <2>1, <2>2, <2>3, <3>1, <3>2
  <2>4. CASE owner[id] \in callbacks /\ owner[id] \notin clients
    <3>1. Leaving(owner[id]) BY <2>1, <2>4 DEF ClientsInv
    <3>2. Heard(queue', id) = Heard(rest, id) BY <1>3, <1>4, <2>1, <3>1, HeardBehind
    <3>3. Heard(queue, id) <= unanswered[id] BY <2>4 DEF CountInv
    <3>4. CASE taken
      <4>1. Head(queue) # Removal(owner[id]) BY <3>4 DEF Removal
      <4>2. Heard(queue, id) = Heard(rest, id) + IF Head(queue) \in DueM(id) THEN 1 ELSE 0
        BY <1>1, <3>4, <4>1, HeardTaken DEF rest
      <4>3. Heard(rest, id) \in Nat BY <1>3, HeardFinite
      <4>4. \/ unanswered'[id] = unanswered[id]
            \/ Head(queue) \in DueM(id) /\ unanswered'[id] = unanswered[id] - 1
        BY <2>4
      <4>5. Heard(rest, id) <= unanswered'[id]
        <5>1. CASE Head(queue) \in DueM(id) BY <2>1, <3>3, <4>2, <4>3, <4>4, <5>1
        <5>2. CASE Head(queue) \notin DueM(id) BY <2>1, <3>3, <4>2, <4>3, <4>4, <5>2
        <5> QED BY <5>1, <5>2
      <4> QED BY <2>1, <2>2, <2>4, <3>2, <4>3, <4>5
    <3>5. CASE ~taken
      <4>1. rest = queue /\ unanswered'[id] = unanswered[id] BY <2>4, <3>5 DEF rest
      <4>2. Heard(rest, id) \in Nat BY <1>3, HeardFinite
      <4> QED BY <2>1, <2>2, <2>4, <3>2, <3>3, <4>1, <4>2
    <3> QED BY <3>4, <3>5
  <2>5. CASE owner[id] \notin callbacks
    <3>1. owner[id] \notin clients BY <2>1, <2>5 DEF ClientsInv
    <3> QED BY <2>5, <3>1 DEF CountInv
  <2> QED BY <2>3, <2>4, <2>5
<1>7. CountInv' BY <1>2, <1>6 DEF CountInv
<1> QED BY <1>5, <1>7

LEMMA DueFacts ==
    /\ \A x : \A m \in Messages : m \in DueM(x) <=> m.what \in Owing /\ m.id = x
    /\ \A x : \A r \in Requests : r \in DueR(x) <=> r.then \in Owing /\ r.id = x
    /\ SoundRequests \subseteq Requests /\ SoundMessages \subseteq Messages
    /\ "remove" \notin Owing /\ "none" \notin Owing /\ "goneStopped" \notin Owing
    /\ Commands \subseteq Owing /\ Owing \subseteq Commands \cup Answers
    /\ {"started", "updated", "stopped", "distanceStopped", "toTime", "restart", "restarted"} \subseteq Owing
    /\ {"up", "lock", "power"} \cap Owing = {}
BY DEF DueM, DueR, SoundRequests, SoundMessages, Owing, Commands, Answers

LEMMA MoreRequests ==
    ASSUME TypeInv, NEW r \in SoundRequests
    PROVE  /\ Append(requests, r) # <<>> /\ Append(requests, r) \in Seq(SoundRequests)
           /\ requests # <<>> => Head(Append(requests, r)) = Head(requests)
           /\ \A x : Count(Append(requests, r), DueR(x))
                        = Count(requests, DueR(x)) + IF r.then \in Owing /\ r.id = x THEN 1 ELSE 0
<1>1. requests \in Seq(SoundRequests) /\ r \in Requests BY DueFacts DEF TypeInv
<1>2. ASSUME NEW x
      PROVE  Count(Append(requests, r), DueR(x))
                        = Count(requests, DueR(x)) + IF r.then \in Owing /\ r.id = x THEN 1 ELSE 0
  <2>1. Count(Append(requests, r), DueR(x)) = Count(requests, DueR(x)) + IF r \in DueR(x) THEN 1 ELSE 0
    BY <1>1, CountAppended
  <2>2. r \in DueR(x) <=> r.then \in Owing /\ r.id = x BY <1>1, DueFacts
  <2> QED BY <2>1, <2>2
<1> QED BY <1>1, <1>2, AppendProperties, HeadTailAppend

(* A message of a session is handled: it is answered, or one request, or the *)
(* list of those that wait, stands for it, or it is dropped.                 *)
LEMMA HandlerCounts ==
    ASSUME AnswerInv, TypeInv', HandledEffect, queue # <<>>,
           Head(queue).what \in Commands \cup Answers, NEW id \in Started, Head(queue).id = id,
           NEW n \in {0, 1},
           \A x \in Started :
              Count(pending', DueM(x)) + Count(requests', DueR(x))
                = Count(pending, DueM(x)) + Count(requests, DueR(x)) + IF x = id THEN n ELSE 0,
           \/ n = 1 /\ Head(queue).what \in Owing /\ UNCHANGED unanswered
           \/ /\ n = 0 /\ Head(queue).what \in Owing
              /\ \E success \in BOOLEAN : Report(id, success)
           \/ /\ n = 0 /\ UNCHANGED unanswered
              /\ Head(queue).what \in Owing => owner[id] \notin clients \/ ~NothingDropped
    PROVE  ClientsInv' /\ CountInv' /\ DueInv'
<1> DEFINE m == Head(queue)
           due(x) == IF m.what \in Owing /\ x = id THEN 1 ELSE 0
<1>1. /\ TypeInv /\ ClientsInv /\ CountInv /\ DueInv
      /\ UNCHANGED <<world, owner, clients, callbacks>> /\ queue' = Tail(queue)
  BY DEF AnswerInv, HandledEffect
<1>2. m \in Messages /\ Tail(queue) \in Seq(Messages) /\ queue \in Seq(Messages)
  BY <1>1, HeadTailProperties DEF TypeInv, TypeOK
<1>3. queue' = Tail(queue) \o <<>> /\ <<>> \in Seq(Messages) /\ NoRemoval(<<>>)
  BY <1>1, <1>2, ConcatEmptySeq DEF NoRemoval
<1>4. m.what # "remove" BY DEF Commands, Answers
<1>5. ASSUME NEW x \in Started
      PROVE  /\ Count(queue, DueM(x)) = Count(queue', DueM(x)) + due(x)
             /\ Outstanding(x)' = Outstanding(x) - due(x) + IF x = id THEN n ELSE 0
             /\ Outstanding(x) \in Nat
             /\ m \in DueM(x) <=> m.what \in Owing /\ x = id
             /\ x \in Ids /\ unanswered[x] \in Int
  <2>1. Count(queue, DueM(x)) = Count(queue', DueM(x)) + IF m \in DueM(x) THEN 1 ELSE 0
    BY <1>1, <1>2, CountTaken
  <2>2. m \in DueM(x) <=> m.what \in Owing /\ x = id BY <1>2, DueFacts
  <2>3. /\ Count(queue', DueM(x)) \in Nat /\ Count(pending', DueM(x)) \in Nat
        /\ Count(requests', DueR(x)) \in Nat
    BY FinitePlaces DEF TypeInv
  <2>4. /\ Count(pending, DueM(x)) \in Nat /\ Count(requests, DueR(x)) \in Nat
        /\ Count(queue, DueM(x)) \in Nat /\ Outstanding(x) \in Nat
    BY <1>1, OutstandingNat
  <2>5. /\ Outstanding(x) = Count(queue, DueM(x)) + Count(pending, DueM(x)) + Count(requests, DueR(x))
        /\ Outstanding(x)' = Count(queue', DueM(x)) + Count(pending', DueM(x)) + Count(requests', DueR(x))
    BY DEF Outstanding
  <2>6. x \in Ids /\ unanswered[x] \in Int BY <1>1 DEF Started, TypeInv, TypeOK
  <2> DEFINE d == due(x)
             e == IF x = id THEN n ELSE 0
  <2>7. Count(queue, DueM(x)) = Count(queue', DueM(x)) + d BY <2>1, <2>2
  <2>8. Count(pending', DueM(x)) + Count(requests', DueR(x))
           = Count(pending, DueM(x)) + Count(requests, DueR(x)) + e
    OBVIOUS
  <2>9. e \in Int /\ d \in Int  OBVIOUS
  <2> HIDE DEF d, e
  <2>10. Outstanding(x)' = Outstanding(x) - d + e
    <3>1. \A q1, q2, p1, p2, r1, r2 \in Nat :
             q1 = q2 + d /\ p2 + r2 = p1 + r1 + e => q2 + p2 + r2 = q1 + p1 + r1 - d + e
      BY <2>9
    <3>2. Count(queue', DueM(x)) + Count(pending', DueM(x)) + Count(requests', DueR(x))
             = Count(queue, DueM(x)) + Count(pending, DueM(x)) + Count(requests, DueR(x)) - d + e
      BY <2>3, <2>4, <2>7, <2>8, <3>1
    <3> QED BY <2>4, <2>5, <2>9, <3>2
  <2> QED BY <2>2, <2>4, <2>6, <2>7, <2>10 DEF d, e
<1>6. ASSUME NEW x \in Started
      PROVE  \/ x # id /\ unanswered'[x] = unanswered[x]
             \/ x = id /\ n = 1 /\ m.what \in Owing /\ unanswered'[x] = unanswered[x]
             \/ /\ x = id /\ n = 0 /\ m.what \in Owing /\ owner[id] \in callbacks
                /\ unanswered'[x] = unanswered[x] - 1
             \/ /\ x = id /\ n = 0 /\ unanswered'[x] = unanswered[x]
                /\ m.what \in Owing => owner[id] \notin clients \/ ~NothingDropped
  <2>1. CASE \E success \in BOOLEAN : Report(id, success)
    <3>1. id \in Ids /\ TypeOK BY <1>1, <1>5 DEF TypeInv
    <3>2. /\ \A other \in Ids \ {id} : unanswered'[other] = unanswered[other]
          /\ owner[id] \in callbacks => unanswered'[id] = unanswered[id] - 1
          /\ owner[id] \notin callbacks => UNCHANGED unanswered
      BY <2>1, <3>1, ReportEffect DEF answers
    <3>3. owner[id] \notin callbacks => owner[id] \notin clients
      BY <1>1, <3>1 DEF ClientsInv, TypeOK
    <3> QED BY <1>5, <3>2, <3>3
  <2>2. CASE ~\E success \in BOOLEAN : Report(id, success) BY <2>2
  <2> QED BY <2>1, <2>2
<1>7. ASSUME NEW x \in Started
      PROVE  /\ owner[x] \in clients => Outstanding(x)' <= unanswered'[x]
             /\ \/ unanswered'[x] = unanswered[x]
                \/ /\ owner[x] \in callbacks /\ m \in DueM(x)
                   /\ unanswered'[x] = unanswered[x] - 1
             /\ NothingDropped /\ owner[x] \in clients => unanswered'[x] <= Outstanding(x)'
  <2>1. owner[x] \in clients => Outstanding(x) <= unanswered[x] BY <1>1 DEF CountInv
  <2>2. owner[x] \in clients /\ NothingDropped => unanswered[x] <= Outstanding(x)
    BY <1>1 DEF DueInv
  <2>3. CASE x # id
    <3>1. unanswered'[x] = unanswered[x] BY <1>6, <2>3
    <3>2. Outstanding(x)' = Outstanding(x)
      <4>1. Outstanding(x)' = Outstanding(x) - 0 + 0 /\ Outstanding(x) \in Nat BY <1>5, <2>3
      <4> QED BY <4>1
    <3> QED BY <2>1, <2>2, <3>1, <3>2
  <2>4. CASE x = id /\ n = 1 /\ m.what \in Owing /\ unanswered'[x] = unanswered[x]
    <3>1. Outstanding(x)' = Outstanding(x) - 1 + 1 /\ Outstanding(x) \in Nat BY <1>5, <2>4
    <3>2. Outstanding(x)' = Outstanding(x) BY <3>1
    <3> QED BY <2>1, <2>2, <2>4, <3>2
  <2>5. CASE /\ x = id /\ n = 0 /\ m.what \in Owing /\ owner[id] \in callbacks
             /\ unanswered'[x] = unanswered[x] - 1
    <3>1. Outstanding(x)' = Outstanding(x) - 1 + 0 /\ Outstanding(x) \in Nat /\ unanswered[x] \in Int
          /\ m \in DueM(x)
      BY <1>5, <2>5
    <3> QED BY <2>1, <2>2, <2>5, <3>1
  <2>6. CASE /\ x = id /\ n = 0 /\ unanswered'[x] = unanswered[x]
             /\ m.what \in Owing => owner[id] \notin clients \/ ~NothingDropped
    <3>1. /\ Outstanding(x)' = Outstanding(x) - due(x) + 0 /\ Outstanding(x) \in Nat
          /\ unanswered[x] \in Int
      BY <1>5, <2>6
    <3>2. CASE m.what \in Owing
      <4>1. Outstanding(x)' = Outstanding(x) - 1 + 0 BY <2>6, <3>1, <3>2
      <4> QED BY <2>1, <2>6, <3>1, <3>2, <4>1
    <3>3. CASE m.what \notin Owing
      <4>1. Outstanding(x)' = Outstanding(x) - 0 + 0 BY <3>1, <3>3
      <4>2. Outstanding(x)' = Outstanding(x) BY <3>1, <4>1
      <4> QED BY <2>1, <2>2, <2>6, <4>2
    <3> QED BY <3>2, <3>3
  <2> QED BY <1>6, <2>3, <2>4, <2>5, <2>6
<1>8. ClientsInv' /\ CountInv'
  <2> DEFINE tk == TRUE
             t == <<>>
  <2>1. tk \in BOOLEAN /\ t \in Seq(Messages) /\ NoRemoval(t) /\ ~tk = FALSE BY <1>3
  <2>2. tk => queue # <<>> /\ Head(queue).what # "remove" /\ queue' = Tail(queue) \o t
    BY <1>3, <1>4
  <2> HIDE DEF t, tk
  <2>3. \A x \in Started :
              /\ owner[x] \in clients => Outstanding(x)' <= unanswered'[x]
              /\ \/ unanswered'[x] = unanswered[x]
                 \/ owner[x] \in clients
                 \/ /\ tk /\ owner[x] \in callbacks /\ Head(queue) \in DueM(x)
                    /\ unanswered'[x] = unanswered[x] - 1
    BY <1>7, <2>1
  <2> HIDE DEF due, m
  <2> QED BY <1>1, <2>1, <2>2, <2>3, CountsKept
<1>9. DueInv'
  <2>1. Started' = Started /\ NothingDropped' = NothingDropped
    BY <1>1, SameSets DEF NothingDropped
  <2> QED BY <1>1, <1>7, <2>1 DEF DueInv
<1> QED BY <1>8, <1>9

LEMMA HandlerWaits ==
    ASSUME AnswerInv, HandledEffect, queue # <<>>, Head(queue).what \in Commands \cup Answers,
           UNCHANGED pending \/ ~known,
           requests # <<>> => requests' # <<>> /\ Head(requests') = Head(requests)
    PROVE  PendingInv' /\ ReadyInv' /\ RestartsInv'
<1>1. /\ queue \in Seq(SoundMessages) /\ queue' = Tail(queue)
      /\ UNCHANGED <<world, known, engineLock, modemUp>>
  BY DEF AnswerInv, TypeInv, HandledEffect
<1>2. /\ Head(queue) = queue[1]
      /\ \A k \in DOMAIN queue' : k + 1 \in DOMAIN queue /\ queue'[k] = queue[k + 1]
      /\ \A k \in DOMAIN queue : k = 1 \/ (k - 1 \in DOMAIN queue' /\ queue'[k - 1] = queue[k])
  BY <1>1, TakenPlaces
<1>3. ~Wakes(Head(queue)) BY DEF Wakes, Commands, Answers
<1>4. PendingInv'
  <2> SUFFICES ASSUME pending' # <<>>, known, Unlocked
               PROVE  \E k \in DOMAIN queue' : Wakes(queue'[k])
    BY <1>1 DEF PendingInv, Unlocked, Wakes
  <2>1. PICK k \in DOMAIN queue : Wakes(queue[k]) BY DEF AnswerInv, PendingInv
  <2> QED BY <1>2, <1>3, <2>1
<1>5. ReadyInv' BY <1>1 DEF AnswerInv, ReadyInv, Exposed, Unlocked
<1>6. RestartsInv' BY <1>1, <1>2 DEF AnswerInv, RestartsInv, Exposed
<1> QED BY <1>4, <1>5, <1>6

(* What the parts of AnswerInv need of a handler, in one                     *)
LEMMA HandlerAnswers ==
    ASSUME AnswerInv, TypeInv', HandledEffect, queue # <<>>,
           Head(queue).what \in Commands \cup Answers, NEW id \in Started, Head(queue).id = id,
           NEW n \in {0, 1},
           UNCHANGED pending,
           \A x \in Started :
              Count(requests', DueR(x)) = Count(requests, DueR(x)) + IF x = id THEN n ELSE 0,
           requests # <<>> => requests' # <<>> /\ Head(requests') = Head(requests),
           \/ n = 1 /\ Head(queue).what \in Owing /\ UNCHANGED unanswered
           \/ /\ n = 0 /\ Head(queue).what \in Owing
              /\ \E success \in BOOLEAN : Report(id, success)
           \/ /\ n = 0 /\ UNCHANGED unanswered
              /\ Head(queue).what \in Owing => owner[id] \notin clients \/ ~NothingDropped
    PROVE  AnswerInv'
<1>1. ASSUME NEW x \in Started
      PROVE  Count(pending', DueM(x)) + Count(requests', DueR(x))
                = Count(pending, DueM(x)) + Count(requests, DueR(x)) + IF x = id THEN n ELSE 0
  <2> DEFINE e == IF x = id THEN n ELSE 0
  <2>1. /\ Count(pending, DueM(x)) \in Nat /\ Count(requests, DueR(x)) \in Nat
    BY OutstandingNat DEF AnswerInv
  <2>2. e \in Nat /\ Count(requests', DueR(x)) = Count(requests, DueR(x)) + e  OBVIOUS
  <2>3. Count(pending', DueM(x)) = Count(pending, DueM(x))  OBVIOUS
  <2> HIDE DEF e
  <2>4. Count(pending', DueM(x)) + Count(requests', DueR(x))
                = Count(pending, DueM(x)) + Count(requests, DueR(x)) + e
    BY <2>1, <2>2, <2>3
  <2> QED BY <2>4 DEF e
<1>2. ClientsInv' /\ CountInv' /\ DueInv' BY <1>1, HandlerCounts
<1>3. PendingInv' /\ ReadyInv' /\ RestartsInv' BY HandlerWaits
<1> QED BY <1>2, <1>3 DEF AnswerInv

LEMMA AnswerPostponed ==
    ASSUME AnswerInv, TypeInv', ProcPostponed
    PROVE  AnswerInv'
<1> DEFINE id == Head(queue).id
<1>1. TypeInv BY DEF AnswerInv
<1>2. /\ Receives("start") \/ Receives("update")
      /\ HandledEffect /\ Postpone(Head(queue)) /\ Head(queue) \in Waiting
      /\ pending' = Append(pending, Head(queue)) /\ pending \in Seq(Waiting)
      /\ UNCHANGED <<unanswered, told, timeBased, distanceBased, requests>>
  BY <1>1, PostponedEffect DEF TypeInv
<1>3. /\ queue # <<>> /\ Head(queue).what \in Commands /\ Head(queue) \in Messages
      /\ id \in Started
  BY <1>1, <1>2, Received DEF Commands
<1>4. ~known BY <1>2 DEF Postpone
<1>5. ASSUME NEW x \in Started
      PROVE  Count(pending', DueM(x)) + Count(requests', DueR(x))
                = Count(pending, DueM(x)) + Count(requests, DueR(x)) + IF x = id THEN 1 ELSE 0
  <2>1. Head(queue) \in DueM(x) <=> x = id BY <1>3, DueFacts
  <2>2. Count(pending', DueM(x)) = Count(pending, DueM(x)) + IF Head(queue) \in DueM(x) THEN 1 ELSE 0
    BY <1>2, CountAppended
  <2>3. Count(pending, DueM(x)) \in Nat /\ Count(requests, DueR(x)) \in Nat
    BY <1>1, OutstandingNat
  <2>4. Count(requests', DueR(x)) = Count(requests, DueR(x)) BY <1>2
  <2>5. CASE x = id
    <3>1. Count(pending', DueM(x)) = Count(pending, DueM(x)) + 1 BY <2>1, <2>2, <2>5
    <3> QED BY <2>3, <2>4, <2>5, <3>1
  <2>6. CASE x # id
    <3>1. Count(pending', DueM(x)) = Count(pending, DueM(x)) + 0 BY <2>1, <2>2, <2>6
    <3> QED BY <2>3, <2>4, <2>6, <3>1
  <2> QED BY <2>5, <2>6
<1>6. Head(queue).what \in Owing /\ Head(queue).what \in Commands \cup Answers
  BY <1>3, DueFacts
<1> DEFINE n == 1
<1>7. n \in {0, 1} /\ n = 1  OBVIOUS
<1>8. \A x \in Started :
         Count(pending', DueM(x)) + Count(requests', DueR(x))
                = Count(pending, DueM(x)) + Count(requests, DueR(x)) + IF x = id THEN n ELSE 0
  BY <1>5
<1> HIDE DEF n, id
<1>9. ClientsInv' /\ CountInv' /\ DueInv'
  <2>1. Head(queue).id = id /\ UNCHANGED unanswered BY <1>2 DEF id
  <2> QED BY <1>2, <1>3, <1>6, <1>7, <1>8, <2>1, HandlerCounts
<1>10. PendingInv' /\ ReadyInv' /\ RestartsInv' BY <1>2, <1>3, <1>4, <1>6, HandlerWaits
<1> QED BY <1>9, <1>10 DEF AnswerInv

(* One step of requests: the requests of a session, counted                  *)
LEMMA RequestsCounted ==
    ASSUME TypeInv, NEW r \in SoundRequests, NEW s \in SoundRequests, s.then = "none"
    PROVE  /\ \A x : Count(Append(requests, s), DueR(x)) = Count(requests, DueR(x))
           /\ r.then \in Owing =>
                 \A x : /\ Count(Append(requests, r), DueR(x))
                              = Count(requests, DueR(x)) + IF x = r.id THEN 1 ELSE 0
                        /\ Count(Append(Append(requests, r), s), DueR(x))
                              = Count(requests, DueR(x)) + IF x = r.id THEN 1 ELSE 0
           /\ requests # <<>> =>
                 /\ Append(requests, s) # <<>> /\ Head(Append(requests, s)) = Head(requests)
                 /\ Append(requests, r) # <<>> /\ Head(Append(requests, r)) = Head(requests)
                 /\ Append(Append(requests, r), s) # <<>>
                 /\ Head(Append(Append(requests, r), s)) = Head(requests)
<1>1. /\ requests \in Seq(SoundRequests) /\ Append(requests, r) \in Seq(SoundRequests)
      /\ r \in Requests /\ s \in Requests /\ "none" \notin Owing
  BY DueFacts, MoreRequests DEF TypeInv
<1>2. ASSUME NEW x
      PROVE  /\ Count(Append(requests, s), DueR(x)) = Count(requests, DueR(x))
             /\ Count(Append(Append(requests, r), s), DueR(x)) = Count(Append(requests, r), DueR(x))
  <2>1. s \notin DueR(x) BY <1>1, DueFacts
  <2>2. /\ Count(Append(requests, s), DueR(x)) = Count(requests, DueR(x)) + 0
        /\ Count(requests, DueR(x)) \in Nat
    BY <1>1, <2>1, CountAppended, FinitePlaces
  <2>3. /\ Count(Append(Append(requests, r), s), DueR(x)) = Count(Append(requests, r), DueR(x)) + 0
        /\ Count(Append(requests, r), DueR(x)) \in Nat
    BY <1>1, <2>1, CountAppended, FinitePlaces
  <2> QED BY <2>2, <2>3
<1>3. ASSUME requests # <<>>
      PROVE  /\ Append(requests, s) # <<>> /\ Head(Append(requests, s)) = Head(requests)
             /\ Append(requests, r) # <<>> /\ Head(Append(requests, r)) = Head(requests)
             /\ Append(Append(requests, r), s) # <<>>
             /\ Head(Append(Append(requests, r), s)) = Head(requests)
  BY <1>1, <1>3, AppendProperties, HeadTailAppend
<1>4. ASSUME r.then \in Owing, NEW x
      PROVE  Count(Append(requests, r), DueR(x))
                = Count(requests, DueR(x)) + IF x = r.id THEN 1 ELSE 0
  BY <1>4, MoreRequests
<1> QED BY <1>2, <1>3, <1>4

(* What the handler of a command or an answer may do with it                 *)
LEMMA Answering ==
    ASSUME AnswerInv, TypeInv', HandledEffect, NEW what \in Owing, Receives(what), UNCHANGED pending,
           NEW id, Head(queue).id = id, NEW s \in SoundRequests, s.then = "none",
           \/ /\ requests' = requests \/ requests' = Append(requests, s)
              /\ \/ \E success \in BOOLEAN : Report(id, success)
                 \/ UNCHANGED unanswered /\ (owner[id] \notin clients \/ ~NothingDropped)
           \/ /\ UNCHANGED unanswered
              /\ \E r \in SoundRequests :
                    /\ r.id = id /\ r.then \in Owing
                    /\ \/ requests' = Append(requests, r)
                       \/ requests' = Append(Append(requests, r), s)
    PROVE  AnswerInv'
<1>1. TypeInv BY DEF AnswerInv
<1>2. /\ queue # <<>> /\ Head(queue).what \in Owing /\ Head(queue).what \in Commands \cup Answers
      /\ id \in Started
  BY <1>1, Received, DueFacts DEF Receives
<1>3. CASE /\ requests' = requests \/ requests' = Append(requests, s)
           /\ \/ \E success \in BOOLEAN : Report(id, success)
              \/ UNCHANGED unanswered /\ (owner[id] \notin clients \/ ~NothingDropped)
  <2> DEFINE n == 0
  <2>1. n \in {0, 1} /\ n = 0  OBVIOUS
  <2>2. ASSUME NEW x \in Started
        PROVE  Count(requests', DueR(x)) = Count(requests, DueR(x)) + IF x = id THEN n ELSE 0
    <3>1. Count(requests', DueR(x)) = Count(requests, DueR(x)) /\ Count(requests, DueR(x)) \in Nat
      BY <1>1, <1>3, RequestsCounted, OutstandingNat
    <3> QED BY <3>1
  <2>3. requests # <<>> => requests' # <<>> /\ Head(requests') = Head(requests)
    BY <1>1, <1>3, RequestsCounted
  <2> HIDE DEF n
  <2> QED BY <1>2, <1>3, <2>1, <2>2, <2>3, HandlerAnswers
<1>4. ASSUME UNCHANGED unanswered, NEW r \in SoundRequests, r.id = id, r.then \in Owing,
             \/ requests' = Append(requests, r)
             \/ requests' = Append(Append(requests, r), s)
      PROVE  AnswerInv'
  <2> DEFINE n == 1
  <2>1. n \in {0, 1} /\ n = 1  OBVIOUS
  <2>2. ASSUME NEW x \in Started
        PROVE  Count(requests', DueR(x)) = Count(requests, DueR(x)) + IF x = id THEN n ELSE 0
    <3>1. /\ Count(Append(requests, r), DueR(x)) = Count(requests, DueR(x)) + IF x = r.id THEN 1 ELSE 0
          /\ Count(Append(Append(requests, r), s), DueR(x))
                = Count(requests, DueR(x)) + IF x = r.id THEN 1 ELSE 0
      BY <1>1, <1>4, RequestsCounted
    <3>2. Count(requests', DueR(x)) = Count(requests, DueR(x)) + IF x = r.id THEN 1 ELSE 0
      BY <1>4, <3>1
    <3> QED BY <1>4, <3>2
  <2>3. requests # <<>> => requests' # <<>> /\ Head(requests') = Head(requests)
    BY <1>1, <1>4, RequestsCounted
  <2> HIDE DEF n
  <2> QED BY <1>2, <1>4, <2>1, <2>2, <2>3, HandlerAnswers
<1> QED BY <1>3, <1>4

LEMMA AnswerCommands ==
    ASSUME AnswerInv, TypeInv', ProcStart \/ ProcStop \/ ProcToTime \/ ProcRestart
    PROVE  AnswerInv'
<1> DEFINE m == Head(queue)
           s == Ask("timeStop", 0, 0, "none", 0)
<1>1. TypeInv /\ s \in SoundRequests /\ s.then = "none" BY NewRequests DEF AnswerInv, Ask
<1>2. /\ {"start", "stop", "toTime", "restart"} \subseteq Owing
      /\ {"started", "stopped", "distanceStopped", "restarted"} \subseteq Owing
  BY DueFacts DEF Commands
<1> HIDE DEF s
<1>3. CASE ProcStart
  <2> DEFINE i == Clamp(m.interval)
             r == Ask("timeStart", m.id, MuxWith(Mux(Time), i), "started", 0)
             d == Ask("distanceStart", m.id, i, "started", 0)
  <2>1. /\ Receives("start") /\ HandledEffect /\ UNCHANGED pending
        /\ \/ /\ owner[m.id] \notin callbacks \/ "bare" \in world
              /\ UNCHANGED <<unanswered, requests>>
           \/ requests' = Append(requests, d) /\ d \in SoundRequests /\ UNCHANGED unanswered
           \/ UNCHANGED requests /\ Report(m.id, TRUE)
           \/ requests' = Append(requests, r) /\ r \in SoundRequests /\ UNCHANGED unanswered
    BY <1>1, <1>3, StartEffect
  <2>2. r.id = m.id /\ r.then = "started" /\ d.id = m.id /\ d.then = "started" BY DEF Ask
  <2>3. owner[m.id] \notin callbacks \/ "bare" \in world => owner[m.id] \notin clients \/ ~NothingDropped
    <3>1. m.id \in Started /\ owner[m.id] \in Clients BY <1>1, <2>1, Received DEF Commands
    <3> QED BY <3>1 DEF NothingDropped, Exposed, AnswerInv, ClientsInv
  <2> HIDE DEF r, d, m
  <2> QED BY <1>1, <1>2, <2>1, <2>2, <2>3, Answering DEF m
<1>4. CASE ProcStop
  <2> DEFINE id == Head(queue).id
             last == Ask("timeStop", id, 0, "stopped", 0)
             next == Ask("timeStart", id, Mux(Time \ {id}), "started", 0)
             far  == Ask("distanceStop", id, 0, "distanceStopped", 0)
  <2>1. /\ Receives("stop") /\ HandledEffect /\ UNCHANGED pending
        /\ \/ requests' = Append(requests, last) /\ last \in SoundRequests /\ UNCHANGED unanswered
           \/ UNCHANGED requests /\ \E success \in BOOLEAN : Report(id, success)
           \/ requests' = Append(requests, next) /\ next \in SoundRequests /\ UNCHANGED unanswered
           \/ requests' = Append(requests, far) /\ far \in SoundRequests /\ UNCHANGED unanswered
    BY <1>1, <1>4, StopEffect
  <2>2. /\ last.id = id /\ last.then = "stopped" /\ next.id = id /\ next.then = "started"
        /\ far.id = id /\ far.then = "distanceStopped"
    BY DEF Ask
  <2> HIDE DEF last, next, far
  <2> QED BY <1>1, <1>2, <2>1, <2>2, Answering
<1>5. CASE ProcToTime
  <2> DEFINE r == Ask("timeStart", m.id, MuxWith(Mux(Time), m.interval), "started", 0)
  <2>1. /\ Receives("toTime") /\ HandledEffect /\ UNCHANGED pending
        /\ \/ UNCHANGED requests /\ Report(m.id, TRUE)
           \/ requests' = Append(requests, r) /\ r \in SoundRequests /\ UNCHANGED unanswered
    BY <1>1, <1>5, ToTimeEffect
  <2>2. r.id = m.id /\ r.then = "started" BY DEF Ask
  <2> HIDE DEF r, m
  <2> QED BY <1>1, <1>2, <2>1, <2>2, Answering DEF m
<1>6. CASE ProcRestart
  <2> DEFINE r == Ask("distanceStart", m.id, m.interval, "restarted", m.interval)
  <2>1. /\ Receives("restart") /\ HandledEffect /\ UNCHANGED pending /\ UNCHANGED unanswered
        /\ Exposed({"updates"})
        /\ m.flag => requests' = Append(requests, r) /\ r \in SoundRequests
        /\ ~m.flag => UNCHANGED requests
    BY <1>1, <1>6, RestartAnswerEffect
  <2>2. r.id = m.id /\ r.then = "restarted" BY DEF Ask
  <2>3. ~m.flag => ~NothingDropped
    <3>1. 1 \in DOMAIN queue /\ Head(queue) = queue[1] /\ m.what = "restart"
      BY <1>1, <2>1, TakenPlaces DEF Receives, TypeInv
    <3> QED BY <2>1, <3>1 DEF AnswerInv, RestartsInv, NothingDropped
  <2> HIDE DEF r, m
  <2> QED BY <1>1, <1>2, <2>1, <2>2, <2>3, Answering DEF m
<1> QED BY <1>3, <1>4, <1>5, <1>6

LEMMA AnswerUpdate ==
    ASSUME AnswerInv, TypeInv', ProcUpdate
    PROVE  AnswerInv'
<1> DEFINE m    == Head(queue)
           id   == m.id
           i    == Clamp(m.interval)
           last == Ask("timeStop", id, 0, "stopped", 0)
           next == Ask("timeStart", id, Mux(Time \ {id}), "started", 0)
           dist == Ask("distanceStart", id, i, "none", 0)
           new  == Ask("timeStart", id, MuxWith(Mux(Time \ {id}), i), "updated", timeBased[id])
           time == Ask("distanceStop", id, 0, "toTime", i)
           again == Ask("distanceStop", id, 0, "restart", i)
<1>1. TypeInv BY DEF AnswerInv
<1>2. /\ Receives("update") /\ HandledEffect /\ UNCHANGED pending
      /\ dist \in SoundRequests /\ time \in SoundRequests /\ again \in SoundRequests
      /\ \/ requests' = requests /\ \E success \in BOOLEAN : Report(id, success)
         \/ requests' = Append(requests, dist) /\ \E success \in BOOLEAN : Report(id, success)
         \/ /\ UNCHANGED unanswered /\ last \in SoundRequests
            /\ requests' = Append(Append(requests, last), dist)
         \/ /\ UNCHANGED unanswered /\ next \in SoundRequests
            /\ requests' = Append(Append(requests, next), dist)
         \/ UNCHANGED unanswered /\ requests' = Append(requests, time)
         \/ UNCHANGED unanswered /\ new \in SoundRequests /\ requests' = Append(requests, new)
         \/ UNCHANGED unanswered /\ requests' = Append(requests, again)
  BY <1>1, UpdateEffect
<1>3. /\ last.id = id /\ next.id = id /\ new.id = id /\ time.id = id /\ again.id = id
      /\ last.then = "stopped" /\ next.then = "started" /\ new.then = "updated"
      /\ time.then = "toTime" /\ again.then = "restart" /\ dist.then = "none"
  BY DEF Ask
<1>4. "update" \in Owing /\ {"stopped", "started", "updated", "toTime", "restart"} \subseteq Owing
  BY DueFacts DEF Commands, Owing, Answers
<1> HIDE DEF last, next, dist, new, time, again, id
<1>5. Head(queue).id = id BY DEF id
<1> HIDE DEF m
<1>6. CASE /\ requests' = requests \/ requests' = Append(requests, dist)
           /\ \E success \in BOOLEAN : Report(id, success)
  BY <1>2, <1>3, <1>4, <1>5, <1>6, Answering
<1>7. ASSUME UNCHANGED unanswered,
             \E r \in SoundRequests : /\ r.id = id /\ r.then \in Owing
                                      /\ \/ requests' = Append(requests, r)
                                         \/ requests' = Append(Append(requests, r), dist)
      PROVE  AnswerInv'
  BY <1>2, <1>3, <1>4, <1>5, <1>7, Answering
<1>8. \/ /\ requests' = requests \/ requests' = Append(requests, dist)
         /\ \E success \in BOOLEAN : Report(id, success)
      \/ /\ UNCHANGED unanswered
         /\ \E r \in SoundRequests : /\ r.id = id /\ r.then \in Owing
                                     /\ \/ requests' = Append(requests, r)
                                        \/ requests' = Append(Append(requests, r), dist)
  BY <1>2, <1>3, <1>4
<1> QED BY <1>6, <1>7, <1>8

LEMMA AnswerAnswers ==
    ASSUME AnswerInv, TypeInv',
           ProcStarted \/ ProcUpdated \/ ProcStopped \/ ProcDistanceStopped
              \/ ProcGoneStopped \/ ProcRestarted
    PROVE  AnswerInv'
<1> DEFINE id == Head(queue).id
           s  == Ask("timeStop", 0, 0, "none", 0)
<1>1. TypeInv /\ s \in SoundRequests /\ s.then = "none" BY NewRequests DEF AnswerInv, Ask
<1>2. /\ queue # <<>> /\ HandledEffect /\ UNCHANGED <<pending, requests>>
      /\ id \in Started /\ Head(queue).flag \in BOOLEAN
      /\ \/ /\ \/ Receives("started") \/ Receives("updated") \/ Receives("stopped")
               \/ Receives("distanceStopped") \/ Receives("restarted")
            /\ Report(id, Head(queue).flag)
         \/ Receives("goneStopped") /\ UNCHANGED unanswered
  BY <1>1, AnswerEffect
<1> HIDE DEF id, s
<1>3. Head(queue).id = id BY DEF id
<1>4. CASE Report(id, Head(queue).flag) /\ \E what \in Owing : Receives(what)
  <2>1. \E success \in BOOLEAN : Report(id, success) BY <1>2, <1>4
  <2>2. PICK what \in Owing : Receives(what) BY <1>4
  <2>3. requests' = requests BY <1>2
  <2> QED BY <1>1, <1>2, <1>3, <2>1, <2>2, <2>3, Answering
<1>5. CASE Receives("goneStopped") /\ UNCHANGED unanswered
  <2> DEFINE n == 0
  <2>1. n \in {0, 1} /\ n = 0  OBVIOUS
  <2>2. ASSUME NEW x \in Started
        PROVE  Count(requests', DueR(x)) = Count(requests, DueR(x)) + IF x = id THEN n ELSE 0
    <3>1. Count(requests', DueR(x)) = Count(requests, DueR(x)) /\ Count(requests, DueR(x)) \in Nat
      BY <1>1, <1>2, OutstandingNat
    <3> QED BY <3>1
  <2>3. Head(queue).what \in Commands \cup Answers /\ Head(queue).what \notin Owing
    BY <1>5, DueFacts DEF Receives, Answers
  <2>4. requests # <<>> => requests' # <<>> /\ Head(requests') = Head(requests) BY <1>2
  <2> HIDE DEF n
  <2> QED BY <1>2, <1>3, <1>5, <2>1, <2>2, <2>3, <2>4, HandlerAnswers
<1>6. {"started", "updated", "stopped", "distanceStopped", "restarted"} \subseteq Owing
  BY DueFacts
<1> QED BY <1>2, <1>4, <1>5, <1>6

(* Nothing is outstanding of a session that does not exist.                  *)
LEMMA NothingBefore ==
    ASSUME TypeInv, NEW id \in Ids \ Started
    PROVE  Outstanding(id) = 0 /\ unanswered[id] = 0
<1>1. /\ queue \in Seq(SoundMessages) /\ pending \in Seq(Waiting) /\ requests \in Seq(SoundRequests)
      /\ unanswered[id] = 0
  BY DEF TypeInv
<1>2. /\ \A k \in DOMAIN queue : queue[k] \in SoundMessages
      /\ \A k \in DOMAIN pending : pending[k] \in SoundMessages
      /\ \A k \in DOMAIN requests : requests[k] \in SoundRequests
  BY <1>1, ElementOfSeq, LenProperties DEF Waiting
<1>3. \A m \in SoundMessages : m \notin DueM(id) BY DueFacts DEF SoundMessages
<1>4. \A r \in SoundRequests : r \notin DueR(id) BY DueFacts DEF SoundRequests
<1>5. Count(queue, DueM(id)) = 0 /\ Count(pending, DueM(id)) = 0 /\ Count(requests, DueR(id)) = 0
  BY <1>1, <1>2, <1>3, <1>4, FinitePlaces
<1> QED BY <1>1, <1>5 DEF Outstanding

LEMMA AnswerCommand ==
    ASSUME AnswerInv, TypeInv',
           UNCHANGED <<world, clients, callbacks, pending, requests, known, engineLock, modemUp>>,
           NEW m \in Messages, m.what \in Commands, queue' = Append(queue, m), m.id \in Ids,
           unanswered'[m.id] = unanswered[m.id] + 1,
           \A x \in Ids \ {m.id} : unanswered'[x] = unanswered[x],
           Started' = Started \cup {m.id},
           \A x \in Started : owner'[x] = owner[x],
           owner'[m.id] \in clients
    PROVE  AnswerInv'
<1> DEFINE id == m.id
<1>1. /\ TypeInv /\ queue \in Seq(Messages) /\ m.what # "remove" /\ m.what \in Owing
      /\ Started \subseteq Ids /\ id \in Ids
  <2>1. TypeInv /\ queue \in Seq(Messages) BY DEF AnswerInv, TypeInv, TypeOK
  <2>2. m.what \in Owing /\ m.what # "remove" BY DueFacts
  <2>3. Started \subseteq Ids BY DEF Started
  <2> QED BY <2>1, <2>2, <2>3
<1>2. queue' = queue \o <<m>> /\ <<m>> \in Seq(Messages) BY <1>1, AppendIsConcat
<1>3. <<m>>[1] = m /\ \A k \in DOMAIN <<m>> : k = 1  OBVIOUS
<1>4. /\ \A k \in DOMAIN queue : k \in DOMAIN queue' /\ queue'[k] = queue[k]
      /\ \A k \in DOMAIN queue' : \/ k \in DOMAIN queue /\ queue'[k] = queue[k]
                                  \/ queue'[k] = m
  BY <1>1, <1>2, <1>3, JoinedPlaces
<1>5. ClientsInv'
  <2>1. ASSUME NEW c \in Clients PROVE Leaving(c)' <=> Leaving(c)
    <3>1. Removal(c)' = Removal(c) /\ m # Removal(c) BY <1>1 DEF Removal
    <3> QED BY <1>4, <3>1 DEF Leaving
  <2> QED BY <2>1 DEF AnswerInv, ClientsInv
<1>6. ASSUME NEW x \in Started'
      PROVE  /\ x \in Ids /\ Outstanding(x) \in Nat /\ unanswered[x] \in Int
             /\ Count(queue', DueM(x)) \in Nat /\ Count(queue', DueM(x)) <= Outstanding(x)'
             /\ Outstanding(x)' = Outstanding(x) + IF x = id THEN 1 ELSE 0
             /\ unanswered'[x] = unanswered[x] + IF x = id THEN 1 ELSE 0
  <2>1. x \in Ids /\ unanswered[x] \in Int BY <1>1 DEF TypeInv, TypeOK
  <2>2. m \in DueM(x) <=> x = id BY <1>1, DueFacts
  <2>3. Count(queue', DueM(x)) = Count(queue, DueM(x)) + IF m \in DueM(x) THEN 1 ELSE 0
    BY <1>1, CountAppended
  <2>4. /\ Count(queue, DueM(x)) \in Nat /\ Count(pending, DueM(x)) \in Nat
        /\ Count(requests, DueR(x)) \in Nat
    BY <1>1, OutstandingNat
  <2> DEFINE e == IF x = id THEN 1 ELSE 0
  <2>5. e \in Nat /\ Count(queue', DueM(x)) = Count(queue, DueM(x)) + e BY <2>2, <2>3
  <2>6. unanswered'[x] = unanswered[x] + e BY <1>1, <2>1
  <2>7. Outstanding(x)' = Count(queue', DueM(x)) + Count(pending, DueM(x)) + Count(requests, DueR(x))
    BY DEF Outstanding
  <2> HIDE DEF e
  <2>8. /\ Outstanding(x)' = Outstanding(x) + e /\ Outstanding(x) \in Nat
        /\ Count(queue', DueM(x)) \in Nat /\ Count(queue', DueM(x)) <= Outstanding(x)'
    <3>1. Outstanding(x) = Count(queue, DueM(x)) + Count(pending, DueM(x)) + Count(requests, DueR(x))
      BY DEF Outstanding
    <3>2. \A q, p, r \in Nat : /\ q + e + p + r = q + p + r + e /\ q + p + r \in Nat
                               /\ q + e \in Nat /\ q + e <= q + p + r + e
      BY <2>5
    <3> QED BY <2>4, <2>5, <2>7, <3>1, <3>2
  <2> QED BY <2>1, <2>6, <2>8 DEF e
<1>7. ASSUME NEW x \in Started', owner'[x] \in clients
      PROVE  /\ Outstanding(x)' <= unanswered'[x] /\ unanswered'[x] >= 0
             /\ NothingDropped => unanswered'[x] <= Outstanding(x)'
  <2>1. /\ Outstanding(x) <= unanswered[x]
        /\ NothingDropped => unanswered[x] <= Outstanding(x)
    <3>1. CASE x \in Started BY <1>7, <3>1 DEF AnswerInv, CountInv, DueInv
    <3>2. CASE x \notin Started BY <1>1, <1>6, <3>2, NothingBefore
    <3> QED BY <3>1, <3>2
  <2>2. \E e \in {0, 1} : /\ Outstanding(x)' = Outstanding(x) + e
                           /\ unanswered'[x] = unanswered[x] + e
    <3>1. CASE x = id BY <1>6, <3>1
    <3>2. CASE x # id
      <4>1. Outstanding(x)' = Outstanding(x) + 0 /\ unanswered'[x] = unanswered[x] + 0
        BY <1>6, <3>2
      <4> QED BY <4>1
    <3> QED BY <3>1, <3>2
  <2>3. /\ x \in Started' /\ Outstanding(x) \in Nat /\ unanswered[x] \in Int BY <1>6
  <2> QED BY <2>1, <2>2, <2>3
<1>8. CountInv'
  <2>1. ASSUME NEW x \in Started'
        PROVE  /\ unanswered'[x] >= 0
               /\ owner'[x] \in clients' => Outstanding(x)' <= unanswered'[x]
               /\ owner'[x] \in callbacks' => Heard(queue, x)' <= unanswered'[x]
    <3>1. Heard(queue, x)' \in Nat /\ Heard(queue, x)' <= Count(queue', DueM(x))
      <4>1. queue' \in Seq(Messages) BY <1>1, AppendProperties
      <4> DEFINE places == {k \in DOMAIN queue' : queue'[k] \in DueM(x) /\ \A j \in 1..k : queue'[j] # Removal(owner'[x])}
                 all == Places(queue', DueM(x))
      <4>2. places \in SUBSET all BY DEF Places
      <4>3. IsFiniteSet(all) BY <4>1, FinitePlaces
      <4> HIDE DEF places, all
      <4>4. /\ IsFiniteSet(places) /\ Cardinality(places) <= Cardinality(all)
            /\ Cardinality(places) \in Nat
        BY <4>2, <4>3, FS_Subset, FS_CardinalityType
      <4>5. Heard(queue, x)' = Cardinality(places)
        BY DEF Heard, HeardPlaces, places, DueM, Removal
      <4>6. Count(queue', DueM(x)) = Cardinality(all) BY DEF Count, all
      <4> DEFINE h == Heard(queue, x)'
                 n == Count(queue', DueM(x))
      <4>7. h = Cardinality(places) /\ n = Cardinality(all) BY <4>5, <4>6
      <4> HIDE DEF h, n
      <4>8. h \in Nat /\ h <= n BY <4>4, <4>7
      <4> QED BY <4>8 DEF h, n
    <3>2. CASE owner'[x] \in clients
      <4>1. /\ Count(queue', DueM(x)) \in Nat /\ Count(queue', DueM(x)) <= Outstanding(x)'
            /\ Outstanding(x)' <= unanswered'[x] /\ unanswered'[x] >= 0
            /\ unanswered'[x] \in Int
        BY <1>6, <1>7, <3>2
      <4> DEFINE h == Heard(queue, x)'
                 n == Count(queue', DueM(x))
                 o == Outstanding(x)'
                 u == unanswered'[x]
      <4>2. h \in Nat /\ h <= n /\ n \in Nat /\ n <= o /\ o <= u /\ u \in Int /\ o \in Nat
        BY <1>6, <3>1, <4>1
      <4> HIDE DEF h, n, o, u
      <4>3. h <= u /\ o <= u BY <4>2
      <4> QED BY <4>1, <4>3 DEF h, o, u
    <3>3. CASE owner'[x] \notin clients
      <4>1. x # id /\ x \in Started /\ owner'[x] = owner[x] /\ owner[x] \in Clients
        <5>1. \A y \in Started : owner[y] \in Clients BY <1>1 DEF Started, TypeInv, TypeOK
        <5> QED BY <3>3, <5>1
      <4>2. unanswered'[x] = unanswered[x] /\ unanswered[x] >= 0
        BY <1>6, <4>1 DEF AnswerInv, CountInv
      <4>3. ASSUME owner[x] \in callbacks PROVE Heard(queue, x)' <= unanswered'[x]
        <5>1. Leaving(owner[x]) BY <3>3, <4>1, <4>3 DEF AnswerInv, ClientsInv
        <5>2. Heard(queue \o <<m>>, x) = Heard(queue, x)
          <6>1. \E k \in DOMAIN queue : queue[k] = Removal(owner[x]) BY <5>1 DEF Leaving
          <6>2. queue \in Seq(Messages) /\ <<m>> \in Seq(Messages) BY <1>1, <1>2
          <6> QED BY <6>1, <6>2, HeardBehind
        <5>3. Heard(queue, x)' = Heard(queue', x) BY <4>1 DEF Heard, HeardPlaces, DueM, Removal
        <5>4. Heard(queue, x) <= unanswered[x] BY <4>1, <4>3 DEF AnswerInv, CountInv
        <5> QED BY <1>2, <4>2, <5>2, <5>3, <5>4
      <4> QED BY <3>3, <4>1, <4>2, <4>3
    <3> QED BY <3>2, <3>3
  <2> QED BY <2>1 DEF CountInv
<1>9. DueInv'
  <2>1. NothingDropped' = NothingDropped BY DEF NothingDropped, Exposed
  <2> QED BY <1>7, <2>1 DEF DueInv
<1>10. PendingInv' /\ ReadyInv' /\ RestartsInv'
  <2>1. PendingInv' BY <1>4 DEF AnswerInv, PendingInv, Wakes, Unlocked
  <2>2. ReadyInv' BY DEF AnswerInv, ReadyInv, Exposed, Unlocked
  <2>3. RestartsInv' BY <1>4 DEF AnswerInv, RestartsInv, Exposed, Commands
  <2> QED BY <2>1, <2>2, <2>3
<1> QED BY <1>5, <1>8, <1>9, <1>10 DEF AnswerInv

LEMMA AnswerClients ==
    ASSUME AnswerInv, TypeInv',
           \/ \E c \in Clients, i \in Asked, far \in BOOLEAN : startTracking(c, i, far)
           \/ \E id \in Ids, i \in Asked, far \in BOOLEAN : updateTrackingOptions(id, i, far)
           \/ \E id \in Ids : stopTracking(id)
    PROVE  AnswerInv'
<1>1. TypeInv /\ Started \subseteq Ids BY DEF AnswerInv, Started
<1>2. ASSUME NEW c \in Clients, NEW i \in Asked, NEW far \in BOOLEAN, startTracking(c, i, far)
      PROVE  AnswerInv'
  <2>1. UNCHANGED world /\ \E id \in Ids : Generates(id, c) /\ Command("start", id, i, far)
    BY <1>1, <1>2, StartTrackingEffect
  <2>2. PICK id \in Ids : Generates(id, c) /\ Command("start", id, i, far) BY <2>1
  <2>3. "start" \in Commands /\ i \in {0} \cup Asked /\ c \in clients
    BY <2>2 DEF Commands, Generates
  <2> DEFINE m == Message("start", id, i, far)
  <2>4. /\ queue' = Append(queue, m) /\ m \in Messages /\ unanswered'[id] = unanswered[id] + 1
        /\ \A other \in Ids \ {id} : unanswered'[other] = unanswered[other]
        /\ UNCHANGED <<world, clients, callbacks, pending, requests, known, engineLock, modemUp>>
    BY <1>1, <2>2, <2>3, CommandEffect
  <2>5. /\ Started' = Started \cup {id} /\ id \notin Started /\ owner'[id] = c
        /\ \A other \in Ids \ {id} : owner'[other] = owner[other]
    BY <1>1, <2>1, <2>2, SetsGrow
  <2>6. m.id = id /\ m.what = "start" BY DEF Message
  <2> HIDE DEF m
  <2>7. \A x \in Started : owner'[x] = owner[x] BY <1>1, <2>5
  <2> QED BY <2>3, <2>4, <2>5, <2>6, <2>7, AnswerCommand
<1>3. ASSUME \/ \E x \in Ids, j \in Asked, far \in BOOLEAN : updateTrackingOptions(x, j, far)
             \/ \E x \in Ids : stopTracking(x)
      PROVE  AnswerInv'
  <2>1. PICK id \in Started, what \in {"update", "stop"}, i \in {0} \cup Asked, flag \in BOOLEAN :
           id \in Ids /\ owner[id] \in clients /\ Command(what, id, i, flag) /\ UNCHANGED owner
    BY <1>1, <1>3, LaterCommandEffect
  <2>2. what \in Commands BY DEF Commands
  <2> DEFINE m == Message(what, id, i, flag)
  <2>3. /\ queue' = Append(queue, m) /\ m \in Messages /\ unanswered'[id] = unanswered[id] + 1
        /\ \A other \in Ids \ {id} : unanswered'[other] = unanswered[other]
        /\ UNCHANGED <<world, clients, callbacks, pending, requests, known, engineLock, modemUp>>
    BY <1>1, <2>1, <2>2, CommandEffect
  <2>4. m.id = id /\ m.what = what BY DEF Message
  <2>5. Started' = Started \cup {id} /\ owner'[id] \in clients /\ \A x \in Started : owner'[x] = owner[x]
    BY <2>1 DEF Started
  <2> HIDE DEF m
  <2> QED BY <2>1, <2>2, <2>3, <2>4, <2>5, AnswerCommand
<1> QED BY <1>2, <1>3

(* Steps that answer nothing and ask for nothing                             *)
LEMMA OnlyMoved ==
    ASSUME AnswerInv, TypeInv', UNCHANGED <<world, owner, clients, callbacks, unanswered>>,
           NEW taken \in BOOLEAN, NEW t \in Seq(Messages), NoRemoval(t),
           taken => queue # <<>> /\ Head(queue).what # "remove" /\ queue' = Tail(queue) \o t,
           ~taken => queue' = queue \o t,
           \A id \in Started : owner[id] \in clients => Outstanding(id)' = Outstanding(id)
    PROVE  ClientsInv' /\ CountInv' /\ DueInv'
<1>1. TypeInv /\ ClientsInv /\ CountInv /\ DueInv BY DEF AnswerInv
<1>2. ASSUME NEW id \in Started, owner[id] \in clients
      PROVE  /\ Outstanding(id)' <= unanswered'[id]
             /\ NothingDropped => unanswered'[id] <= Outstanding(id)'
  BY <1>1, <1>2 DEF CountInv, DueInv
<1>3. ClientsInv' /\ CountInv' BY <1>1, <1>2, CountsKept
<1>4. DueInv'
  <2>1. Started' = Started /\ NothingDropped' = NothingDropped BY SameSets DEF NothingDropped
  <2> QED BY <1>2, <2>1 DEF DueInv
<1> QED BY <1>3, <1>4

LEMMA AnswerDestroy ==
    ASSUME AnswerInv, TypeInv', NEW c \in Clients, destroy(c)
    PROVE  AnswerInv'
<1> DEFINE m == Removal(c)
<1>1. /\ TypeInv /\ queue \in Seq(Messages) /\ m \in Messages /\ m.what = "remove"
      /\ c \in clients /\ clients' = clients \ {c} /\ queue' = Append(queue, m)
      /\ UNCHANGED <<world, owner, unanswered, callbacks, pending, known, requests, engineLock, modemUp>>
  BY DEF AnswerInv, TypeInv, TypeOK, destroy, answers, modem, Removal, Messages
<1>2. queue' = queue \o <<m>> /\ <<m>> \in Seq(Messages) /\ queue' \in Seq(Messages)
  BY <1>1, AppendIsConcat, AppendProperties
<1>3. <<m>>[1] = m /\ DOMAIN <<m>> = {1}  OBVIOUS
<1> HIDE DEF m
<1>4. /\ \A k \in DOMAIN queue : k \in DOMAIN queue' /\ queue'[k] = queue[k]
      /\ \A k \in DOMAIN queue' : \/ k \in DOMAIN queue /\ queue'[k] = queue[k]
                                  \/ queue'[k] = m
      /\ \E k \in DOMAIN queue' : queue'[k] = m
  BY <1>1, <1>2, <1>3, JoinedPlaces
<1>5. \A d : Removal(d)' = Removal(d) /\ (m = Removal(d) <=> d = c) BY DEF Removal, m
<1>6. ClientsInv'
  <2>1. ASSUME NEW d \in Clients PROVE Leaving(d)' <=> Leaving(d) \/ d = c
    BY <1>4, <1>5 DEF Leaving
  <2>2. c \in callbacks BY <1>1 DEF AnswerInv, ClientsInv
  <2> QED BY <1>1, <2>1, <2>2 DEF AnswerInv, ClientsInv
<1>7. ASSUME NEW id \in Started
      PROVE  /\ Outstanding(id)' = Outstanding(id) /\ unanswered[id] >= 0
             /\ owner[id] \in clients => Outstanding(id) <= unanswered[id]
             /\ owner[id] \in callbacks => Heard(queue, id)' <= unanswered[id]
  <2>1. id \in Ids /\ unanswered[id] \in Int /\ owner[id] \in Clients
    BY <1>1 DEF Started, TypeInv, TypeOK
  <2>2. m \notin DueM(id) BY <1>1, DueFacts
  <2>3. Count(queue', DueM(id)) = Count(queue, DueM(id)) + 0 /\ Count(queue, DueM(id)) \in Nat
    BY <1>1, <2>2, CountAppended, OutstandingNat
  <2>4. Outstanding(id)' = Outstanding(id) /\ Count(queue, DueM(id)) <= Outstanding(id)
        /\ Outstanding(id) \in Nat
    <3>1. Outstanding(id)' = Count(queue', DueM(id)) + Count(pending, DueM(id)) + Count(requests, DueR(id))
      BY <1>1 DEF Outstanding
    <3> QED BY <1>1, <2>3, <3>1, OutstandingNat DEF Outstanding
  <2>5. unanswered[id] >= 0 /\ (owner[id] \in clients => Outstanding(id) <= unanswered[id])
    BY DEF AnswerInv, CountInv
  <2>6. Heard(queue, id)' = Heard(queue', id) BY <1>1 DEF Heard, HeardPlaces
  <2>7. CASE owner[id] \in clients
    <3>1. Heard(queue', id) \in Nat /\ Heard(queue', id) <= Count(queue', DueM(id))
      BY <1>2, HeardFinite
    <3> QED BY <2>1, <2>3, <2>4, <2>5, <2>6, <2>7, <3>1
  <2>8. CASE owner[id] \in callbacks /\ owner[id] \notin clients
    <3>1. Leaving(owner[id]) BY <2>1, <2>8 DEF AnswerInv, ClientsInv
    <3>2. Heard(queue', id) = Heard(queue, id)
      <4>1. \E k \in DOMAIN queue : queue[k] = Removal(owner[id]) BY <3>1 DEF Leaving
      <4>2. Heard(queue \o <<m>>, id) = Heard(queue, id) BY <1>1, <1>2, <4>1, HeardBehind
      <4> QED BY <1>2, <4>2
    <3>3. Heard(queue, id) <= unanswered[id] BY <2>8 DEF AnswerInv, CountInv
    <3> QED BY <2>4, <2>5, <2>6, <2>8, <3>2, <3>3
  <2> QED BY <2>4, <2>5, <2>7, <2>8
<1>8. CountInv' /\ DueInv'
  <2>1. Started' = Started /\ NothingDropped' = NothingDropped
    BY <1>1, SameSets DEF NothingDropped
  <2> QED BY <1>1, <1>7, <2>1 DEF AnswerInv, CountInv, DueInv
<1>9. PendingInv' BY <1>1, <1>4 DEF AnswerInv, PendingInv, Wakes, Unlocked
<1>10. ReadyInv' /\ RestartsInv'
  <2>1. ReadyInv' BY <1>1 DEF AnswerInv, ReadyInv, Exposed, Unlocked
  <2>2. RestartsInv' BY <1>1, <1>4 DEF AnswerInv, RestartsInv, Exposed
  <2> QED BY <2>1, <2>2
<1> QED BY <1>6, <1>8, <1>9, <1>10 DEF AnswerInv

LEMMA AnswerRemoveSession ==
    ASSUME AnswerInv, TypeInv', ProcRemoveSession
    PROVE  AnswerInv'
<1>1. TypeInv BY DEF AnswerInv
<1>2. /\ Receives("remove")
      /\ UNCHANGED <<world, clients, owner, unanswered, queue, callbacks, pending, known,
                     engineLock, modemUp>>
      /\ \E id \in Time : owner[id] = Head(queue).client /\
            (UNCHANGED requests
             \/ \E r \in SoundRequests : r.id = id /\ requests' = Append(requests, r))
  <2>1. PICK id \in Time :
                 LET last == Ask("timeStop", id, 0, "stopped", 0)
                     next == Ask("timeStart", id, Mux(Time \ {id}), "started", 0)
                 IN /\ owner[id] = Head(queue).client
                    /\ \/ requests' = Append(requests, last) /\ last \in SoundRequests
                       \/ UNCHANGED requests
                       \/ requests' = Append(requests, next) /\ next \in SoundRequests
    BY <1>1, RemoveSessionEffect
  <2>2. \A do, i, then, opts : Ask(do, id, i, then, opts).id = id BY DEF Ask
  <2>3. UNCHANGED requests \/ \E r \in SoundRequests : r.id = id /\ requests' = Append(requests, r)
    BY <2>1, <2>2
  <2> QED BY <1>1, <2>1, <2>3, RemoveSessionEffect
<1>3. PICK id \in Time : /\ owner[id] = Head(queue).client
                         /\ \/ UNCHANGED requests
                            \/ \E r \in SoundRequests : r.id = id /\ requests' = Append(requests, r)
  BY <1>2
<1>4. owner[id] \in Clients /\ Leaving(owner[id]) /\ owner[id] \notin clients
  <2>1. Head(queue) = Removal(owner[id]) /\ owner[id] \in Clients
    BY <1>1, <1>2, <1>3, Received DEF Removal
  <2>2. 1 \in DOMAIN queue /\ Head(queue) = queue[1]
    BY <1>1, <1>2, TakenPlaces DEF TypeInv, Receives
  <2> QED BY <2>1, <2>2 DEF Leaving, AnswerInv, ClientsInv
<1>5. ASSUME NEW x \in Started, owner[x] \in clients PROVE Outstanding(x)' = Outstanding(x)
  <2>1. x # id BY <1>4, <1>5
  <2>2. Count(requests', DueR(x)) = Count(requests, DueR(x))
    <3>1. CASE UNCHANGED requests BY <3>1
    <3>2. ASSUME NEW r \in SoundRequests, r.id = id, requests' = Append(requests, r)
          PROVE  Count(requests', DueR(x)) = Count(requests, DueR(x))
      <4>1. Count(requests', DueR(x)) = Count(requests, DueR(x)) + 0 /\ Count(requests, DueR(x)) \in Nat
        BY <1>1, <2>1, <3>2, MoreRequests, OutstandingNat
      <4> QED BY <4>1
    <3> QED BY <1>3, <3>1, <3>2
  <2> QED BY <1>2, <2>2 DEF Outstanding
<1>6. ClientsInv' /\ CountInv' /\ DueInv'
  <2> DEFINE taken == FALSE
             t == <<>>
  <2>1. taken \in BOOLEAN /\ ~taken /\ t \in Seq(Messages) /\ NoRemoval(t) BY DEF NoRemoval
  <2>2. queue' = queue \o t BY <1>1, <1>2, ConcatEmptySeq DEF TypeInv
  <2> HIDE DEF t, taken
  <2> QED BY <1>2, <1>5, <2>1, <2>2, OnlyMoved
<1>7. requests # <<>> => requests' # <<>> /\ Head(requests') = Head(requests)
  BY <1>1, <1>3, MoreRequests
<1>8. PendingInv' /\ ReadyInv' /\ RestartsInv'
  <2>1. PendingInv' BY <1>2 DEF AnswerInv, PendingInv, Wakes, Unlocked
  <2>2. ReadyInv' BY <1>2, <1>7 DEF AnswerInv, ReadyInv, Exposed, Unlocked
  <2>3. RestartsInv' BY <1>2 DEF AnswerInv, RestartsInv, Exposed
  <2> QED BY <2>1, <2>2, <2>3
<1> QED BY <1>6, <1>8 DEF AnswerInv

(* Requests that answer no command                                           *)
LEMMA Indifferent ==
    ASSUME TypeInv, NEW reqs \in Seq(SoundRequests),
           \A k \in DOMAIN reqs : reqs[k].then \notin Owing
    PROVE  /\ \A x : Count(requests \o reqs, DueR(x)) = Count(requests, DueR(x))
           /\ requests # <<>> =>
                 requests \o reqs # <<>> /\ Head(requests \o reqs) = Head(requests)
<1>1. requests \in Seq(SoundRequests) BY DEF TypeInv
<1>2. ASSUME NEW x PROVE Count(requests \o reqs, DueR(x)) = Count(requests, DueR(x))
  <2>1. \A k \in DOMAIN reqs : reqs[k] \notin DueR(x) BY DEF DueR
  <2>2. Count(reqs, DueR(x)) = 0 BY <2>1, FinitePlaces
  <2>3. Count(requests \o reqs, DueR(x)) = Count(requests, DueR(x)) + 0
    BY <1>1, <2>2, CountOfBoth
  <2> QED BY <1>1, <2>3, FinitePlaces
<1> QED BY <1>1, <1>2, JoinedPlaces

LEMMA AnswerRemoveClient ==
    ASSUME AnswerInv, TypeInv', ProcRemoveClient
    PROVE  AnswerInv'
<1> DEFINE c == Head(queue).client
<1>1. TypeInv /\ queue \in Seq(Messages) /\ queue \in Seq(SoundMessages)
  BY DEF AnswerInv, TypeInv, TypeOK
<1>2. /\ Receives("remove") /\ c \in Clients
      /\ queue' = Tail(queue) /\ callbacks' = callbacks \ {c}
      /\ UNCHANGED <<world, clients, owner, unanswered, pending, known, engineLock, modemUp>>
      /\ \E reqs \in Seq(SoundRequests) :
            /\ requests' = requests \o reqs
            /\ \A k \in DOMAIN reqs : \E id : reqs[k] = Ask("distanceStop", id, distanceBased[id], "goneStopped", 0)
  <2>1. /\ Receives("remove") /\ c \in Clients
        /\ queue' = Tail(queue) /\ callbacks' = callbacks \ {c}
        /\ UNCHANGED <<world, clients, owner, unanswered, pending, known, engineLock, modemUp>>
        /\ \E reqs \in Seq(SoundRequests) :
              /\ requests' = requests \o reqs
              /\ \A k \in DOMAIN reqs : \E id \in OwnDistance(c) :
                    reqs[k] = Ask("distanceStop", id, distanceBased[id], "goneStopped", 0)
    BY <1>1, RemoveClientEffect
  <2>2. PICK reqs \in Seq(SoundRequests) :
              /\ requests' = requests \o reqs
              /\ \A k \in DOMAIN reqs : \E id \in OwnDistance(c) :
                    reqs[k] = Ask("distanceStop", id, distanceBased[id], "goneStopped", 0)
    BY <2>1
  <2>3. \A k \in DOMAIN reqs : \E id : reqs[k] = Ask("distanceStop", id, distanceBased[id], "goneStopped", 0)
    BY <2>2
  <2> QED BY <2>1, <2>2, <2>3
<1>3. PICK reqs \in Seq(SoundRequests) :
            /\ requests' = requests \o reqs
            /\ \A k \in DOMAIN reqs : \E id : reqs[k] = Ask("distanceStop", id, distanceBased[id], "goneStopped", 0)
  BY <1>2
<1>4. \A k \in DOMAIN reqs : reqs[k].then \notin Owing
  <2>1. \A id : Ask("distanceStop", id, distanceBased[id], "goneStopped", 0).then = "goneStopped"
    BY DEF Ask
  <2> QED BY <1>3, <2>1, DueFacts
<1>5. /\ \A x : Count(requests', DueR(x)) = Count(requests, DueR(x))
      /\ requests # <<>> => requests' # <<>> /\ Head(requests') = Head(requests)
  BY <1>1, <1>3, <1>4, Indifferent
<1>6. /\ queue # <<>> /\ Head(queue) = Removal(c) /\ Head(queue).what = "remove"
  BY <1>1, <1>2, Received DEF Removal, Receives
<1> HIDE DEF c
<1>7. /\ queue' \in Seq(Messages) /\ Head(queue) = queue[1] /\ 1 \in DOMAIN queue
      /\ \A k \in DOMAIN queue' : k + 1 \in DOMAIN queue /\ queue'[k] = queue[k + 1]
      /\ \A k \in DOMAIN queue : k = 1 \/ (k - 1 \in DOMAIN queue' /\ queue'[k - 1] = queue[k])
  BY <1>1, <1>2, <1>6, TakenPlaces
<1>8. ClientsInv'
  <2>1. c \notin clients BY <1>2, <1>6, <1>7 DEF AnswerInv, ClientsInv, Leaving
  <2>2. ASSUME NEW d \in Clients, d # c PROVE Leaving(d)' <=> Leaving(d)
    <3>1. Removal(d)' = Removal(d) /\ Removal(c) # Removal(d) BY <2>2 DEF Removal
    <3> QED BY <1>6, <1>7, <3>1 DEF Leaving
  <2> QED BY <1>2, <2>1, <2>2 DEF AnswerInv, ClientsInv
<1>9. ASSUME NEW id \in Started
      PROVE  /\ Outstanding(id)' = Outstanding(id)
             /\ owner[id] \in callbacks' => Heard(queue, id)' <= unanswered[id]
  <2>1. Head(queue) \notin DueM(id) BY <1>6, DueFacts DEF DueM
  <2>2. /\ Count(queue, DueM(id)) = Count(queue', DueM(id)) + 0 /\ Count(queue', DueM(id)) \in Nat
    BY <1>1, <1>2, <1>6, <1>7, <2>1, CountTaken, FinitePlaces
  <2>3. Outstanding(id)' = Outstanding(id)
    <3>1. Outstanding(id)' = Count(queue', DueM(id)) + Count(pending, DueM(id)) + Count(requests', DueR(id))
      BY <1>2 DEF Outstanding
    <3> QED BY <1>5, <2>2, <3>1 DEF Outstanding
  <2>4. ASSUME owner[id] \in callbacks' PROVE Heard(queue, id)' <= unanswered[id]
    <3>1. Head(queue) # Removal(owner[id]) /\ owner[id] \in callbacks
      BY <1>2, <1>6, <2>4 DEF Removal
    <3>2. Heard(queue, id) = Heard(queue', id) + 0 /\ Heard(queue', id) \in Nat
      BY <1>1, <1>2, <1>6, <1>7, <2>1, <3>1, HeardTaken, HeardFinite
    <3>3. Heard(queue, id)' = Heard(queue', id) BY <1>2 DEF Heard, HeardPlaces
    <3> QED BY <3>1, <3>2, <3>3 DEF AnswerInv, CountInv
  <2> QED BY <2>3, <2>4
<1>10. CountInv' /\ DueInv'
  <2>1. Started' = Started /\ NothingDropped' = NothingDropped
    BY <1>2, SameSets DEF NothingDropped
  <2> QED BY <1>2, <1>9, <2>1 DEF AnswerInv, CountInv, DueInv
<1>11. PendingInv'
  <2>1. ~Wakes(Head(queue)) BY <1>6 DEF Wakes
  <2> SUFFICES ASSUME pending' # <<>>, known, Unlocked
               PROVE  \E k \in DOMAIN queue' : Wakes(queue'[k])
    BY <1>2 DEF PendingInv, Unlocked, Wakes
  <2>2. PICK k \in DOMAIN queue : Wakes(queue[k]) BY <1>2 DEF AnswerInv, PendingInv
  <2> QED BY <1>7, <2>1, <2>2
<1>12. ReadyInv' BY <1>2, <1>5 DEF AnswerInv, ReadyInv, Exposed, Unlocked
<1>13. RestartsInv' BY <1>2, <1>7 DEF AnswerInv, RestartsInv, Exposed
<1> QED BY <1>8, <1>10, <1>11, <1>12, <1>13 DEF AnswerInv

LEMMA AnswerEvents ==
    ASSUME AnswerInv, TypeInv', ProcEngineUp \/ handleEngineLockStatus \/ updateSystemPowerState
    PROVE  AnswerInv'
<1>1. TypeInv /\ queue \in Seq(Messages) /\ queue \in Seq(SoundMessages)
  BY DEF AnswerInv, TypeInv, TypeOK
<1>2. /\ queue # <<>>
      /\ UNCHANGED <<world, clients, owner, unanswered, callbacks, engineLock, modemUp>>
      /\ \E reqs \in Seq(Unheeded) : requests' = requests \o reqs
      /\ \/ queue' = Tail(queue) /\ UNCHANGED <<pending, known>> /\ ~Wakes(Head(queue))
         \/ queue' = Tail(queue) /\ UNCHANGED pending /\ ~Unlocked
         \/ Resend
      /\ Head(queue).what \in {"up", "lock", "power"}
  BY <1>1, EventEffect
<1>3. PICK reqs \in Seq(Unheeded) : requests' = requests \o reqs BY <1>2
<1>4. /\ reqs \in Seq(SoundRequests)
      /\ \A k \in DOMAIN reqs : reqs[k].then \notin Owing
  <2>1. \A k \in DOMAIN reqs : reqs[k] \in Unheeded BY ElementOfSeq, LenProperties
  <2> QED BY <2>1, SeqMonotonic, DueFacts DEF Unheeded
<1>5. /\ \A x : Count(requests', DueR(x)) = Count(requests, DueR(x))
      /\ requests # <<>> => requests' # <<>> /\ Head(requests') = Head(requests)
  BY <1>1, <1>3, <1>4, Indifferent
<1>6. PICK t \in Seq(SoundMessages) :
         /\ queue' = Tail(queue) \o t /\ Tail(queue) \in Seq(SoundMessages)
         /\ \/ /\ t = <<>> /\ UNCHANGED pending
               /\ (UNCHANGED known /\ ~Wakes(Head(queue))) \/ ~Unlocked
            \/ t = pending /\ pending' = <<>>
  <2>1. CASE Resend BY <1>1, <1>2, <2>1, ResendEffect
  <2>2. CASE ~Resend
    <3>1. Tail(queue) \in Seq(SoundMessages) /\ queue' = Tail(queue) /\ UNCHANGED pending
      BY <1>1, <1>2, <2>2, HeadTailProperties
    <3>2. queue' = Tail(queue) \o <<>> /\ <<>> \in Seq(SoundMessages) BY <3>1, ConcatEmptySeq
    <3> QED BY <1>2, <2>2, <3>1, <3>2
  <2> QED BY <2>1, <2>2
<1>7. \A k \in DOMAIN t : t[k].what \in {"start", "update"}
  <2>1. \A k \in DOMAIN pending : pending[k] \in Waiting
    BY <1>1, ElementOfSeq, LenProperties DEF TypeInv
  <2> QED BY <1>6, <2>1 DEF Waiting
<1>8. t \in Seq(Messages) /\ NoRemoval(t)
  <2>1. SoundMessages \subseteq Messages BY DueFacts
  <2>2. t \in Seq(Messages) BY <2>1, SeqMonotonic
  <2>3. NoRemoval(t) BY <1>7 DEF NoRemoval
  <2> QED BY <2>2, <2>3
<1>9. ASSUME NEW x \in Started PROVE Outstanding(x)' = Outstanding(x)
  <2>1. Head(queue) \notin DueM(x) BY <1>2, DueFacts DEF DueM
  <2>2. Count(queue, DueM(x)) = Count(Tail(queue), DueM(x)) + 0
    <3>1. queue \in Seq(Messages) /\ queue # <<>> BY <1>1, <1>2
    <3>2. Count(queue, DueM(x)) = Count(Tail(queue), DueM(x)) + IF Head(queue) \in DueM(x) THEN 1 ELSE 0
      BY <3>1, CountTaken
    <3> QED BY <2>1, <3>2
  <2>3. Count(queue', DueM(x)) = Count(Tail(queue), DueM(x)) + Count(t, DueM(x))
    <3>1. Tail(queue) \in Seq(SoundMessages) /\ queue' = Tail(queue) \o t BY <1>6
    <3>2. Count(Tail(queue) \o t, DueM(x)) = Count(Tail(queue), DueM(x)) + Count(t, DueM(x))
      BY <3>1, CountOfBoth
    <3> QED BY <3>1, <3>2
  <2>4. /\ Count(queue, DueM(x)) \in Nat /\ Count(pending, DueM(x)) \in Nat
        /\ Count(requests, DueR(x)) \in Nat /\ Count(Tail(queue), DueM(x)) \in Nat
    BY <1>1, <1>6, OutstandingNat, FinitePlaces
  <2>5. Count(t, DueM(x)) + Count(pending', DueM(x)) = Count(pending, DueM(x))
        /\ Count(t, DueM(x)) \in Nat /\ Count(pending', DueM(x)) \in Nat
    <3>1. Count(<<>>, DueM(x)) = 0 BY CountOfOne
    <3>2. CASE t = <<>> /\ UNCHANGED pending BY <2>4, <3>1, <3>2
    <3>3. CASE t = pending /\ pending' = <<>> BY <2>4, <3>1, <3>3
    <3> QED BY <1>6, <3>2, <3>3
  <2>6. Outstanding(x)' = Count(queue', DueM(x)) + Count(pending', DueM(x)) + Count(requests, DueR(x))
    BY <1>5 DEF Outstanding
  <2> QED BY <2>2, <2>3, <2>4, <2>5, <2>6 DEF Outstanding
<1>10. ClientsInv' /\ CountInv' /\ DueInv'
  <2> DEFINE taken == TRUE
  <2>1. taken \in BOOLEAN /\ ~taken = FALSE /\ Head(queue).what # "remove" BY <1>2
  <2> HIDE DEF taken
  <2> QED BY <1>2, <1>6, <1>8, <1>9, <2>1, OnlyMoved
<1>11. /\ \A k \in DOMAIN Tail(queue) : k + 1 \in DOMAIN queue /\ Tail(queue)[k] = queue[k + 1]
       /\ \A k \in DOMAIN queue : k = 1 \/ (k - 1 \in DOMAIN Tail(queue) /\ Tail(queue)[k - 1] = queue[k])
       /\ Head(queue) = queue[1]
  BY <1>1, <1>2, TakenPlaces
<1>12. /\ \A k \in DOMAIN Tail(queue) : k \in DOMAIN queue' /\ queue'[k] = Tail(queue)[k]
       /\ \A k \in DOMAIN queue' :
             \/ k \in DOMAIN Tail(queue) /\ queue'[k] = Tail(queue)[k]
             \/ queue'[k].what \in {"start", "update"}
  <2>1. /\ \A k \in DOMAIN Tail(queue) :
              k \in DOMAIN (Tail(queue) \o t) /\ (Tail(queue) \o t)[k] = Tail(queue)[k]
        /\ \A k \in DOMAIN (Tail(queue) \o t) :
             \/ k \in DOMAIN Tail(queue) /\ (Tail(queue) \o t)[k] = Tail(queue)[k]
             \/ /\ k - Len(Tail(queue)) \in DOMAIN t
                /\ (Tail(queue) \o t)[k] = t[k - Len(Tail(queue))]
    <3>1. Tail(queue) \in Seq(SoundMessages) BY <1>6
    <3> QED BY <3>1, JoinedPlaces
  <2>2. queue' = Tail(queue) \o t BY <1>6
  <2> QED BY <1>7, <2>1, <2>2
<1>13. PendingInv'
  <2> SUFFICES ASSUME pending' # <<>>, known', Unlocked
               PROVE  \E k \in DOMAIN queue' : Wakes(queue'[k])
    BY <1>2 DEF PendingInv, Unlocked, Wakes
  <2>1. UNCHANGED <<pending, known>> /\ ~Wakes(Head(queue)) BY <1>6
  <2>2. PICK k \in DOMAIN queue : Wakes(queue[k]) BY <2>1 DEF AnswerInv, PendingInv
  <2>3. k # 1 BY <1>11, <2>1, <2>2
  <2>4. k - 1 \in DOMAIN Tail(queue) /\ Tail(queue)[k - 1] = queue[k] BY <1>11, <2>3
  <2>5. k - 1 \in DOMAIN queue' /\ queue'[k - 1] = queue[k] BY <1>12, <2>4
  <2> QED BY <2>2, <2>5
<1>14. ReadyInv' BY <1>2, <1>5 DEF AnswerInv, ReadyInv, Exposed, Unlocked
<1>15. RestartsInv'
  <2> SUFFICES ASSUME ~Exposed({"fails", "crashes", "locks"}),
                      NEW k \in DOMAIN queue', queue'[k].what = "restart"
               PROVE  queue'[k].flag
    BY <1>2 DEF RestartsInv, Exposed
  <2>1. k \in DOMAIN Tail(queue) /\ queue'[k] = Tail(queue)[k] BY <1>12
  <2>2. k + 1 \in DOMAIN queue /\ queue'[k] = queue[k + 1] BY <1>11, <2>1
  <2> QED BY <2>2 DEF AnswerInv, RestartsInv
<1> QED BY <1>10, <1>13, <1>14, <1>15 DEF AnswerInv

LEMMA AnswerRequest ==
    ASSUME AnswerInv, TypeInv', LocApiRequest
    PROVE  AnswerInv'
<1> DEFINE r == Head(requests)
<1>1. TypeInv /\ queue \in Seq(Messages) /\ requests \in Seq(SoundRequests)
  BY DEF AnswerInv, TypeInv, TypeOK
<1>2. PICK ok \in Outcomes(r) :
         /\ ok \in BOOLEAN
         /\ r.then = "none" => UNCHANGED queue
         /\ r.then # "none" =>
               /\ Message(r.then, r.id, r.opts, ok) \in SoundMessages
               /\ queue' = Append(queue, Message(r.then, r.id, r.opts, ok))
  BY <1>1, RequestEffect
<1>3. /\ requests # <<>> /\ r \in SoundRequests /\ r \in Requests /\ r.do # "open"
      /\ requests' = Tail(requests) /\ Tail(requests) \in Seq(SoundRequests)
      /\ UNCHANGED <<world, clients, owner, unanswered, callbacks, pending, known, engineLock, modemUp>>
  BY <1>1, RequestEffect
<1> DEFINE m == Message(r.then, r.id, r.opts, ok)
           t == IF r.then = "none" THEN <<>> ELSE <<m>>
<1>4. /\ m.what = r.then /\ m.id = r.id /\ m.flag = ok
      /\ r.then # "none" => m \in Messages
      /\ r.then \in {"none"} \cup Answers
  BY <1>2, <1>3, RequestFields, DueFacts DEF Message
<1> HIDE DEF m, r
<1>5. /\ queue' = queue \o t /\ t \in Seq(Messages) /\ NoRemoval(t)
  <2>1. CASE r.then = "none" BY <1>1, <1>2, <2>1, ConcatEmptySeq DEF NoRemoval
  <2>2. CASE r.then # "none"
    <3>1. m.what # "remove" /\ m \in Messages BY <1>4, <2>2 DEF Answers
    <3>2. queue' = queue \o <<m>> BY <1>1, <1>2, <2>2, <3>1, AppendIsConcat DEF m
    <3>3. <<m>> \in Seq(Messages) /\ \A k \in DOMAIN <<m>> : <<m>>[k] = m BY <3>1
    <3> QED BY <2>2, <3>1, <3>2, <3>3 DEF NoRemoval
  <2> QED BY <2>1, <2>2
<1>6. ASSUME NEW x \in Started PROVE Outstanding(x)' = Outstanding(x)
  <2> DEFINE e == IF r \in DueR(x) THEN 1 ELSE 0
  <2>1. Count(requests, DueR(x)) = Count(requests', DueR(x)) + e
    BY <1>1, <1>3, CountTaken DEF r
  <2>2. Count(t, DueM(x)) = e
    <3>1. CASE r.then = "none"
      <4>1. t = <<>> /\ r \notin DueR(x) BY <1>3, <3>1, DueFacts
      <4>2. Count(<<>>, DueM(x)) = 0 BY CountOfOne
      <4> QED BY <4>1, <4>2
    <3>2. CASE r.then # "none"
      <4>1. m \in DueM(x) <=> r \in DueR(x) BY <1>3, <1>4, <3>2, DueFacts
      <4> QED BY <3>2, <4>1, CountOfOne
    <3> QED BY <3>1, <3>2
  <2>3. Count(queue', DueM(x)) = Count(queue, DueM(x)) + Count(t, DueM(x))
    <3> HIDE DEF t
    <3> QED BY <1>1, <1>5, CountOfBoth
  <2>4. /\ Count(queue, DueM(x)) \in Nat /\ Count(pending, DueM(x)) \in Nat
        /\ Count(requests, DueR(x)) \in Nat /\ Count(requests', DueR(x)) \in Nat /\ e \in Nat
    BY <1>1, <1>3, OutstandingNat, FinitePlaces
  <2>5. Outstanding(x)' = Count(queue', DueM(x)) + Count(pending, DueM(x)) + Count(requests', DueR(x))
    BY <1>3 DEF Outstanding
  <2> HIDE DEF e
  <2> QED BY <2>1, <2>2, <2>3, <2>4, <2>5 DEF Outstanding
<1>7. ClientsInv' /\ CountInv' /\ DueInv'
  <2> DEFINE taken == FALSE
  <2>1. taken \in BOOLEAN /\ ~taken  OBVIOUS
  <2> HIDE DEF t, taken
  <2> QED BY <1>3, <1>5, <1>6, <2>1, OnlyMoved
<1>8. /\ \A k \in DOMAIN queue : k \in DOMAIN queue' /\ queue'[k] = queue[k]
      /\ \A k \in DOMAIN queue' :
            \/ k \in DOMAIN queue /\ queue'[k] = queue[k]
            \/ r.then # "none" /\ queue'[k] = m
  <2>1. \A k \in DOMAIN t : r.then # "none" /\ t[k] = m  OBVIOUS
  <2> HIDE DEF t
  <2>2. /\ \A k \in DOMAIN queue : k \in DOMAIN queue' /\ queue'[k] = queue[k]
        /\ \A k \in DOMAIN queue' :
              \/ k \in DOMAIN queue /\ queue'[k] = queue[k]
              \/ k - Len(queue) \in DOMAIN t /\ queue'[k] = t[k - Len(queue)]
    BY <1>1, <1>5, JoinedPlaces
  <2> QED BY <2>1, <2>2
<1>9. PendingInv' BY <1>3, <1>8 DEF AnswerInv, PendingInv, Unlocked, Wakes
<1>10. ReadyInv /\ (~Exposed({"crashes", "locks"}) => modemUp /\ Unlocked)
  BY <1>3 DEF AnswerInv, ReadyInv, r
<1>11. ReadyInv' BY <1>3, <1>10 DEF ReadyInv, Exposed, Unlocked
<1>12. RestartsInv'
  <2> SUFFICES ASSUME ~Exposed({"fails", "crashes", "locks"}), r.then = "restart"
               PROVE  ok
    BY <1>3, <1>4, <1>8 DEF AnswerInv, RestartsInv, Exposed
  <2>1. r.do = "distanceStop" BY <1>3, RequestFields DEF SoundRequests, AnswersTo
  <2>2. modemUp /\ engineLock # "disabled" /\ "fails" \notin world
    BY <1>10 DEF Exposed, Unlocked
  <2>3. Outcomes(r) = {TRUE} BY <2>1, <2>2 DEF Outcomes
  <2> QED BY <1>2, <2>3
<1> QED BY <1>7, <1>9, <1>11, <1>12 DEF AnswerInv

LEMMA AnswerEnvironment ==
    ASSUME AnswerInv, TypeInv', LocApiOpen \/ ModemCrashes \/ EngineLockChanges \/ PowerChanges
    PROVE  AnswerInv'
<1>1. TypeInv /\ queue \in Seq(Messages) /\ requests \in Seq(SoundRequests)
  BY DEF AnswerInv, TypeInv, TypeOK
<1>2. /\ UNCHANGED <<world, clients, owner, unanswered, callbacks, pending, known>>
      /\ \/ UNCHANGED queue
         \/ \E what \in {"up", "lock", "power"}, flag \in BOOLEAN :
               queue' = Append(queue, Message(what, 0, 0, flag))
      /\ \/ requests # <<>> /\ Head(requests).do = "open" /\ requests' = Tail(requests)
         \/ UNCHANGED requests
         \/ requests' = Append(requests, Ask("open", 0, 0, "none", 0))
  BY <1>1, EnvironmentEffect
<1>3. ASSUME NEW x PROVE Count(requests', DueR(x)) = Count(requests, DueR(x))
  <2>1. Count(requests, DueR(x)) \in Nat /\ Count(requests', DueR(x)) \in Nat
    BY <1>1, FinitePlaces DEF TypeInv
  <2>2. CASE requests # <<>> /\ Head(requests).do = "open" /\ requests' = Tail(requests)
    <3>1. Head(requests) \in SoundRequests /\ Head(requests).then = "none"
      BY <1>1, <2>2, HeadTailProperties DEF SoundRequests, AnswersTo
    <3>2. Head(requests) \notin DueR(x) BY <3>1, DueFacts
    <3>3. Count(requests, DueR(x)) = Count(requests', DueR(x)) + 0
      BY <1>1, <2>2, <3>2, CountTaken
    <3> QED BY <2>1, <3>3
  <2>3. CASE requests' = Append(requests, Ask("open", 0, 0, "none", 0))
    <3>1. Ask("open", 0, 0, "none", 0) \in SoundRequests /\ Ask("open", 0, 0, "none", 0).then = "none"
      BY <1>1, NewRequests DEF Ask
    <3> QED BY <1>1, <2>3, <3>1, RequestsCounted
  <2> QED BY <1>2, <2>2, <2>3
<1>4. \E t \in Seq(Messages) :
         /\ queue' = queue \o t
         /\ \A k \in DOMAIN t : t[k].what \in {"up", "lock", "power"}
  <2>1. CASE UNCHANGED queue
    <3>1. queue' = queue \o <<>> /\ <<>> \in Seq(Messages) /\ \A k \in DOMAIN <<>> : FALSE
      BY <1>1, <2>1, ConcatEmptySeq
    <3> QED BY <3>1
  <2>2. ASSUME NEW what \in {"up", "lock", "power"}, NEW flag \in BOOLEAN,
               queue' = Append(queue, Message(what, 0, 0, flag))
        PROVE  \E t \in Seq(Messages) :
                  /\ queue' = queue \o t
                  /\ \A k \in DOMAIN t : t[k].what \in {"up", "lock", "power"}
    <3> DEFINE m == Message(what, 0, 0, flag)
    <3>1. m \in Messages /\ m.what = what BY NewMessages, DueFacts
    <3> HIDE DEF m
    <3>2. queue' = queue \o <<m>> /\ <<m>> \in Seq(Messages) /\ \A k \in DOMAIN <<m>> : <<m>>[k] = m
      BY <1>1, <2>2, <3>1, AppendIsConcat DEF m
    <3> QED BY <3>1, <3>2
  <2> QED BY <1>2, <2>1, <2>2
<1>5. PICK t \in Seq(Messages) :
         /\ queue' = queue \o t
         /\ \A k \in DOMAIN t : t[k].what \in {"up", "lock", "power"}
  BY <1>4
<1>6. ASSUME NEW x \in Started PROVE Outstanding(x)' = Outstanding(x)
  <2>1. Count(t, DueM(x)) = 0
    <3>1. \A k \in DOMAIN t : t[k] \notin DueM(x) BY <1>5, DueFacts DEF DueM
    <3> QED BY <3>1, FinitePlaces
  <2>2. Count(queue', DueM(x)) = Count(queue, DueM(x)) + 0 /\ Count(queue, DueM(x)) \in Nat
    BY <1>1, <1>5, <2>1, CountOfBoth, OutstandingNat
  <2>3. Outstanding(x)' = Count(queue', DueM(x)) + Count(pending, DueM(x)) + Count(requests, DueR(x))
    BY <1>2, <1>3 DEF Outstanding
  <2> QED BY <2>2, <2>3 DEF Outstanding
<1>7. ClientsInv' /\ CountInv' /\ DueInv'
  <2> DEFINE taken == FALSE
  <2>1. taken \in BOOLEAN /\ ~taken /\ NoRemoval(t) BY <1>5 DEF NoRemoval
  <2> HIDE DEF taken
  <2> QED BY <1>2, <1>5, <1>6, <2>1, OnlyMoved
<1>8. /\ \A k \in DOMAIN queue : k \in DOMAIN queue' /\ queue'[k] = queue[k]
      /\ \A k \in DOMAIN queue' :
            \/ k \in DOMAIN queue /\ queue'[k] = queue[k]
            \/ queue'[k].what \in {"up", "lock", "power"}
  BY <1>1, <1>5, JoinedPlaces
<1>9. RestartsInv' BY <1>2, <1>8 DEF AnswerInv, RestartsInv, Exposed
<1>10. ASSUME NEW m \in Messages, Wakes(m), queue' = Append(queue, m)
       PROVE  \E k \in DOMAIN queue' : Wakes(queue'[k])
  <2>1. Len(queue) + 1 \in DOMAIN queue' /\ queue'[Len(queue) + 1] = m
    BY <1>1, <1>10, AppendProperties, LenProperties
  <2> QED BY <1>10, <2>1
<1>11. PendingInv'
  <2>1. CASE LocApiOpen
    <3>1. queue' = Append(queue, Message("up", 0, 0, FALSE)) /\ Message("up", 0, 0, FALSE) \in Messages
      BY <2>1, NewMessages, DueFacts DEF LocApiOpen
    <3>2. Wakes(Message("up", 0, 0, FALSE)) BY DEF Wakes, Message
    <3> QED BY <1>10, <3>1, <3>2 DEF PendingInv, Wakes
  <2>2. CASE EngineLockChanges
    <3>1. CASE engineLock = "disabled"
      <4>1. queue' = Append(queue, Message("lock", 0, 0, TRUE)) /\ Message("lock", 0, 0, TRUE) \in Messages
        BY <2>2, <3>1, NewMessages, DueFacts DEF EngineLockChanges
      <4>2. Wakes(Message("lock", 0, 0, TRUE)) BY DEF Wakes, Message
      <4> QED BY <1>10, <4>1, <4>2 DEF PendingInv, Wakes
    <3>2. CASE engineLock # "disabled"
      <4>1. engineLock' = "disabled" BY <1>1, <2>2, <3>2 DEF EngineLockChanges, TypeInv, TypeOK
      <4> QED BY <4>1 DEF PendingInv, Unlocked
    <3> QED BY <3>1, <3>2
  <2>3. CASE ModemCrashes \/ PowerChanges
    <3>1. UNCHANGED engineLock BY <2>3 DEF ModemCrashes, PowerChanges, modem
    <3> QED BY <1>2, <1>8, <3>1 DEF AnswerInv, PendingInv, Unlocked, Wakes
  <2> QED BY <2>1, <2>2, <2>3
<1>12. ReadyInv'
  <2>1. CASE LocApiOpen BY <2>1 DEF LocApiOpen, ReadyInv, Exposed, Unlocked
  <2>2. CASE EngineLockChanges \/ ModemCrashes
    BY <1>2, <2>2 DEF EngineLockChanges, ModemCrashes, ReadyInv, Exposed
  <2>3. CASE PowerChanges
    BY <1>2, <2>3 DEF PowerChanges, modem, AnswerInv, ReadyInv, Exposed, Unlocked
  <2> QED BY <2>1, <2>2, <2>3
<1> QED BY <1>7, <1>9, <1>11, <1>12 DEF AnswerInv

LEMMA InitAnswers == Init => AnswerInv
<1> SUFFICES ASSUME Init PROVE AnswerInv
  OBVIOUS
<1>1. TypeInv BY InitTypes
<1>2. Started = {} /\ queue = <<>> /\ pending = <<>> /\ clients = Clients /\ callbacks = Clients
  BY DEF Init, Started
<1>3. ClientsInv /\ CountInv /\ DueInv /\ PendingInv /\ RestartsInv
  BY <1>2 DEF ClientsInv, Leaving, CountInv, DueInv, PendingInv, RestartsInv
<1>4. ReadyInv
  <2>1. CASE "cold" \in world
    <3>1. requests # <<>> /\ Head(requests).do = "open" BY <2>1 DEF Init, Ask
    <3> QED BY <3>1 DEF ReadyInv
  <2>2. CASE "cold" \notin world BY <2>2 DEF Init, ReadyInv, Unlocked
  <2> QED BY <2>1, <2>2
<1> QED BY <1>1, <1>3, <1>4 DEF AnswerInv

LEMMA NextAnswers == ASSUME AnswerInv, [Next]_vars PROVE AnswerInv'
<1>1. TypeInv' BY NextTypes DEF AnswerInv
<1>2. CASE UNCHANGED vars
  BY <1>1, <1>2 DEF vars, users, sessions, modem, answers, AnswerInv, ClientsInv, Leaving,
    CountInv, DueInv, PendingInv, ReadyInv, RestartsInv, Outstanding, Heard, HeardPlaces,
    Started, Exposed, Unlocked, NothingDropped, Wakes, Removal
<1> QED
  BY <1>1, <1>2, AnswerClients, AnswerDestroy, AnswerPostponed, AnswerCommands, AnswerUpdate,
    AnswerAnswers, AnswerRemoveSession, AnswerRemoveClient, AnswerEvents, AnswerRequest,
    AnswerEnvironment DEF Next, Client, Adapter, LocApi

LEMMA AnswersAlways == Spec => []AnswerInv
<1>1. Init => AnswerInv BY InitAnswers
<1>2. AnswerInv /\ [Next]_vars => AnswerInv' BY NextAnswers
<1> QED BY <1>1, <1>2, PTL DEF Spec

(* No command is answered twice, and when both threads have come to rest     *)
(* every command of a client that is still there has been answered, in the   *)
(* worlds that AllAnswered names (reportResponse and the callbacks of the    *)
(* LocApiResponses).                                                         *)
THEOREM EachAnsweredAlways == Spec => []EachAnswered
<1>1. AnswerInv => EachAnswered
  <2> SUFFICES ASSUME AnswerInv PROVE EachAnswered
    OBVIOUS
  <2>1. TypeInv /\ TypeOK BY DEF AnswerInv, TypeInv
  <2>2. AnsweredOnce
    <3>1. \A id \in Started : unanswered[id] >= 0 BY DEF AnswerInv, CountInv
    <3>2. \A id \in Ids \ Started : unanswered[id] = 0 BY <2>1 DEF TypeInv
    <3> QED BY <3>1, <3>2 DEF AnsweredOnce
  <2>3. AllAnswered
    <3> SUFFICES ASSUME Quiet, pending = <<>> \/ (known /\ Unlocked), NothingDropped,
                        NEW id \in Started, owner[id] \in clients
                 PROVE  unanswered[id] = 0
      BY DEF AllAnswered, NothingDropped
    <3>1. queue = <<>> /\ requests = <<>> BY DEF Quiet
    <3>2. pending = <<>> BY <3>1 DEF AnswerInv, PendingInv
    <3>3. Outstanding(id) = 0
      <4>1. Count(<<>>, DueM(id)) = 0 /\ Count(<<>>, DueR(id)) = 0 BY CountOfOne
      <4>2. Outstanding(id) = 0 + 0 + 0 BY <3>1, <3>2, <4>1 DEF Outstanding
      <4> QED BY <4>2
    <3>4. unanswered[id] >= 0 /\ unanswered[id] <= Outstanding(id) /\ id \in Ids
      BY DEF AnswerInv, CountInv, DueInv, Started
    <3> QED BY <2>1, <3>3, <3>4 DEF TypeOK
  <2> QED BY <2>1, <2>2, <2>3 DEF EachAnswered
<1> QED BY <1>1, AnswersAlways, PTL

-----------------------------------------------------------------------------
(* EndedStays: what has still to happen for a session to end                 *)

(* Whatever is in A comes no later than what is in B.                        *)
InOrder(s, A, B) == \A j, k \in DOMAIN s : s[j] \in B /\ s[k] \in A => k <= j
Has(s, A)        == \E k \in DOMAIN s : s[k] \in A

(* Messages and requests about a session                                     *)
Told(id, whats)  == {m \in Messages : m.what \in whats /\ m.id = id}
Asking(id, thens) == {r \in Requests : r.then \in thens /\ r.id = id}

StartM(id) == Told(id, {"start"})
StopM(id)  == Told(id, {"stop"})
AboutM(id) == Told(id, Commands \cup Answers)
Waited(id) == Asking(id, Answers)

Ends == {"distanceStopped"}
Begins == {"started", "stopped"}
Gone == {"distanceStopped", "goneStopped"}

(* A client that was removed has no time-based session, and the stops of its *)
(* distance-based ones succeed.                                              *)
Ending(id) ==
    \/ Has(requests, Asking(id, Gone))
    \/ Has(queue, {m \in Told(id, Gone) : m.flag})

GoneOf(id) == owner[id] \notin callbacks => id \notin Time /\ (id \in Distance => Ending(id))

GoneInv == ~Exposed({"fails", "updates", "crashes", "locks"}) => \A id \in Started : GoneOf(id)

(* The start of a session is the first message about it, and nothing is      *)
(* known of the session before.                                              *)
StartOf(id) ==
    /\ InOrder(queue, StartM(id), AboutM(id))
    /\ Has(queue, StartM(id)) =>
          /\ id \notin Time \cup Distance
          /\ ~Has(queue, Told(id, Answers))
          /\ ~Has(requests, Waited(id))

(* Of a distance-based session success is told only before the answer that   *)
(* erases it.                                                                *)
OrderOf(id) ==
    id \in Distance =>
        /\ id \notin Time
        /\ InOrder(queue, Told(id, Begins), Told(id, Ends))
        /\ InOrder(requests, Asking(id, Begins), Asking(id, Ends))
        /\ Has(requests, Asking(id, Begins)) => ~Has(queue, Told(id, Ends))

(* Once the client has stopped a session, its stop is still to come, or the  *)
(* session is over, or the answer that erases it follows whatever tells of a *)
(* success.                                                                  *)
Over(id) ==
    /\ ~Has(queue, StartM(id))
    /\ id \notin Time
    /\ id \in Distance =>
          (told[id] \/ Has(queue, Told(id, Begins)) \/ Has(requests, Asking(id, Begins))
             => Has(queue, Told(id, Ends)) \/ Has(requests, Asking(id, Ends)))

StopOf(id) ==
    /\ StartOf(id) /\ OrderOf(id)
    /\ id \in stopped /\ owner[id] \in clients => Has(queue, StopM(id)) \/ Over(id)

StopInv ==
    ~Exposed({"cold", "updates"}) =>
        known /\ pending = <<>> /\ \A id \in Started : StopOf(id)

EndInv == AnswerInv /\ GoneInv /\ StopInv

-----------------------------------------------------------------------------
(* What a queue has, and in which order                                      *)

LEMMA InTaken ==
    ASSUME NEW S, NEW q \in Seq(S), q # <<>>
    PROVE  /\ \A A : Has(q, A) <=> Head(q) \in A \/ Has(Tail(q), A)
           /\ \A A, B : InOrder(q, A, B) =>
                 InOrder(Tail(q), A, B) /\ (Head(q) \in B => ~Has(Tail(q), A))
<1> DEFINE t == Tail(q)
           h == Head(q)
<1>1. /\ h = q[1] /\ 1 \in DOMAIN q
      /\ \A k \in DOMAIN t : k + 1 \in DOMAIN q /\ t[k] = q[k + 1]
      /\ \A k \in DOMAIN q : k = 1 \/ (k - 1 \in DOMAIN t /\ t[k - 1] = q[k])
  BY TakenPlaces
<1>2. t \in Seq(S) /\ \A k \in DOMAIN t : k \in Nat /\ k >= 1 BY TakenPlaces, LenProperties
<1> HIDE DEF t, h
<1>3. ASSUME NEW A PROVE Has(q, A) <=> h \in A \/ Has(t, A) BY <1>1 DEF Has
<1>4. ASSUME NEW A, NEW B, InOrder(q, A, B)
      PROVE  InOrder(t, A, B) /\ (h \in B => ~Has(t, A))
  <2>1. ASSUME NEW j \in DOMAIN t, NEW k \in DOMAIN t, t[j] \in B, t[k] \in A PROVE k <= j
    <3>1. k + 1 <= j + 1 BY <1>1, <1>4, <2>1 DEF InOrder
    <3> QED BY <1>2, <3>1
  <2>2. ASSUME h \in B, NEW k \in DOMAIN t, t[k] \in A PROVE FALSE
    <3>1. k + 1 <= 1 BY <1>1, <1>4, <2>2 DEF InOrder
    <3> QED BY <1>2, <3>1
  <2> QED BY <2>1, <2>2 DEF InOrder, Has
<1> QED BY <1>3, <1>4 DEF t, h

LEMMA InJoined ==
    ASSUME NEW S, NEW q \in Seq(S), NEW t \in Seq(S)
    PROVE  /\ \A A : Has(q \o t, A) <=> Has(q, A) \/ Has(t, A)
           /\ \A A, B : InOrder(q, A, B) /\ ~Has(t, A) => InOrder(q \o t, A, B)
<1> DEFINE r == q \o t
<1>1. /\ \A k \in DOMAIN q : k \in DOMAIN r /\ r[k] = q[k]
      /\ \A k \in DOMAIN t : k + Len(q) \in DOMAIN r /\ r[k + Len(q)] = t[k]
      /\ \A k \in DOMAIN r :
            \/ k \in DOMAIN q /\ r[k] = q[k]
            \/ k \notin DOMAIN q /\ k - Len(q) \in DOMAIN t /\ r[k] = t[k - Len(q)]
      /\ Len(q) \in Nat /\ DOMAIN q = 1..Len(q) /\ r \in Seq(S)
  BY JoinedPlaces
<1>2. DOMAIN r = 1..Len(r) /\ Len(r) \in Nat BY <1>1, LenProperties
<1> HIDE DEF r
<1>3. ASSUME NEW A PROVE Has(r, A) <=> Has(q, A) \/ Has(t, A) BY <1>1 DEF Has
<1>4. ASSUME NEW A, NEW B, InOrder(q, A, B), ~Has(t, A),
             NEW j \in DOMAIN r, NEW k \in DOMAIN r, r[j] \in B, r[k] \in A
      PROVE  k <= j
  <2>1. k \in DOMAIN q /\ q[k] \in A BY <1>1, <1>4 DEF Has
  <2>2. CASE j \in DOMAIN q BY <1>1, <1>4, <2>1, <2>2 DEF InOrder
  <2>3. CASE j \notin DOMAIN q BY <1>1, <1>2, <2>1, <2>3
  <2> QED BY <2>2, <2>3
<1>5. ASSUME NEW A, NEW B, InOrder(q, A, B), ~Has(t, A) PROVE InOrder(r, A, B)
  BY <1>4, <1>5 DEF InOrder
<1> QED BY <1>3, <1>5 DEF r

LEMMA InAppended ==
    ASSUME NEW S, NEW q \in Seq(S), NEW e \in S
    PROVE  /\ \A A : Has(Append(q, e), A) <=> Has(q, A) \/ e \in A
           /\ \A A, B : InOrder(q, A, B) /\ (e \notin A \/ ~Has(q, B)) => InOrder(Append(q, e), A, B)
<1> DEFINE t == <<e>>
<1>1. t \in Seq(S) /\ Append(q, e) = q \o t BY AppendIsConcat
<1>2. Len(q) \in Nat /\ DOMAIN q = 1..Len(q) BY LenProperties
<1>3. /\ \A k \in DOMAIN (q \o t) : k \in DOMAIN q \/ k = Len(q) + 1
      /\ \A k \in DOMAIN q : (q \o t)[k] = q[k]
      /\ (q \o t)[Len(q) + 1] = e
  BY <1>1, <1>2
<1>4. \A A : Has(t, A) <=> e \in A BY DEF Has
<1> HIDE DEF t
<1>5. /\ \A A : Has(q \o t, A) <=> Has(q, A) \/ Has(t, A)
      /\ \A A, B : InOrder(q, A, B) /\ ~Has(t, A) => InOrder(q \o t, A, B)
  BY <1>1, InJoined
<1> DEFINE r == q \o t
<1> HIDE DEF r
<1>6. ASSUME NEW A, NEW B, InOrder(q, A, B), ~Has(q, B) PROVE InOrder(r, A, B)
  <2>1. ASSUME NEW j \in DOMAIN r, NEW k \in DOMAIN r, r[j] \in B, r[k] \in A PROVE k <= j
    <3>1. j = Len(q) + 1 BY <1>3, <1>6, <2>1 DEF Has, r
    <3>2. k \in DOMAIN q \/ k = Len(q) + 1 BY <1>3, <2>1 DEF r
    <3> QED BY <1>2, <3>1, <3>2
  <2> QED BY <2>1 DEF InOrder
<1> QED BY <1>1, <1>4, <1>5, <1>6 DEF r

LEMMA InEmpty == \A A, B : ~Has(<<>>, A) /\ InOrder(<<>>, A, B)
BY DEF Has, InOrder

(* A queue that is the same, as far as X is concerned                        *)
Alike(q, r, X) ==
    \A A \in SUBSET X :
        /\ Has(r, A) <=> Has(q, A)
        /\ \A B \in SUBSET X : InOrder(q, A, B) => InOrder(r, A, B)

LEMMA AlikeSteps ==
    ASSUME NEW S, NEW q \in Seq(S), NEW X
    PROVE  /\ Alike(q, q, X)
           /\ q # <<>> /\ Head(q) \notin X => Alike(q, Tail(q), X)
           /\ \A e \in S : e \notin X => Alike(q, Append(q, e), X)
           /\ \A t \in Seq(S) : ~Has(t, X) => Alike(q, q \o t, X)
<1>1. Alike(q, q, X) BY DEF Alike
<1>2. ASSUME q # <<>>, Head(q) \notin X PROVE Alike(q, Tail(q), X) BY <1>2, InTaken DEF Alike
<1>3. ASSUME NEW e \in S, e \notin X PROVE Alike(q, Append(q, e), X)
  BY <1>3, InAppended DEF Alike
<1>4. ASSUME NEW t \in Seq(S), ~Has(t, X) PROVE Alike(q, q \o t, X)
  <2>1. \A A \in SUBSET X : ~Has(t, A) BY <1>4 DEF Has
  <2> QED BY <2>1, InJoined DEF Alike
<1> QED BY <1>1, <1>2, <1>3, <1>4

LEMMA AlikeTwice ==
    ASSUME NEW q, NEW r, NEW s, NEW X, Alike(q, r, X), Alike(r, s, X)
    PROVE  Alike(q, s, X)
BY DEF Alike

-----------------------------------------------------------------------------
(* The sessions a step has nothing to do with                                *)

LEMMA AboutSets ==
    /\ \A id, whats : \A m \in Messages : m \in Told(id, whats) <=> m.what \in whats /\ m.id = id
    /\ \A id, thens : \A r \in Requests : r \in Asking(id, thens) <=> r.then \in thens /\ r.id = id
    /\ \A id : \A whats \in SUBSET (Commands \cup Answers) : Told(id, whats) \subseteq AboutM(id)
    /\ \A id : \A thens \in SUBSET Answers : Asking(id, thens) \subseteq Waited(id)
    /\ Begins \subseteq Answers /\ Ends \subseteq Gone /\ Gone \subseteq Answers
    /\ Begins \cap Gone = {} /\ "none" \notin Answers /\ Answers \cap Commands = {}
    /\ {"start", "stop", "update"} = Commands
<1>1. /\ \A id, whats : \A m \in Messages : m \in Told(id, whats) <=> m.what \in whats /\ m.id = id
      /\ \A id, thens : \A r \in Requests : r \in Asking(id, thens) <=> r.then \in thens /\ r.id = id
  BY DEF Told, Asking
<1>2. /\ \A id : \A whats \in SUBSET (Commands \cup Answers) : Told(id, whats) \subseteq AboutM(id)
      /\ \A id : \A thens \in SUBSET Answers : Asking(id, thens) \subseteq Waited(id)
  BY DEF Told, Asking, AboutM, Waited
<1> QED BY <1>1, <1>2 DEF Begins, Ends, Gone, Answers, Commands

LEMMA GoneUntouched ==
    ASSUME NEW id, GoneOf(id), owner'[id] \notin callbacks' => owner[id] \notin callbacks,
           id \in Time' => id \in Time, id \in Distance' => id \in Distance,
           Has(requests, Asking(id, Gone)) => Has(requests', Asking(id, Gone)),
           Has(queue, {m \in Told(id, Gone) : m.flag}) => Has(queue', {m \in Told(id, Gone) : m.flag})
    PROVE  GoneOf(id)'
<1>1. Ending(id) => Ending(id)' BY DEF Ending, Told, Asking
<1> QED BY <1>1 DEF GoneOf

LEMMA StopUntouched ==
    ASSUME NEW id, StopOf(id),
           Alike(queue, queue', AboutM(id)), Alike(requests, requests', Waited(id)),
           id \in Time' <=> id \in Time, id \in Distance' <=> id \in Distance,
           told'[id] = told[id],
           id \in stopped' /\ owner'[id] \in clients' => id \in stopped /\ owner[id] \in clients
    PROVE  StopOf(id)'
<1> DEFINE M == Messages
           Q == SUBSET AboutM(id)
           R == SUBSET Waited(id)
<1>1. /\ StartM(id) \in Q /\ StopM(id) \in Q /\ Told(id, Answers) \in Q /\ AboutM(id) \in Q
      /\ Told(id, Begins) \in Q /\ Told(id, Ends) \in Q
      /\ Waited(id) \in R /\ Asking(id, Begins) \in R /\ Asking(id, Ends) \in R
  <2>1. /\ {"start"} \in SUBSET (Commands \cup Answers) /\ {"stop"} \in SUBSET (Commands \cup Answers)
        /\ Answers \in SUBSET (Commands \cup Answers) /\ Begins \in SUBSET (Commands \cup Answers)
        /\ Ends \in SUBSET (Commands \cup Answers)
        /\ Begins \in SUBSET Answers /\ Ends \in SUBSET Answers
    BY AboutSets
  <2> QED BY <2>1, AboutSets DEF StartM, StopM
<1>2. /\ StartM(id)' = StartM(id) /\ StopM(id)' = StopM(id) /\ AboutM(id)' = AboutM(id)
      /\ Told(id, Answers)' = Told(id, Answers) /\ Waited(id)' = Waited(id)
      /\ Told(id, Begins)' = Told(id, Begins) /\ Told(id, Ends)' = Told(id, Ends)
      /\ Asking(id, Begins)' = Asking(id, Begins) /\ Asking(id, Ends)' = Asking(id, Ends)
  BY DEF StartM, StopM, AboutM, Waited, Told, Asking
<1>3. /\ \A A \in Q : Has(queue', A) <=> Has(queue, A)
      /\ \A A, B \in Q : InOrder(queue, A, B) => InOrder(queue', A, B)
      /\ \A A \in R : Has(requests', A) <=> Has(requests, A)
      /\ \A A, B \in R : InOrder(requests, A, B) => InOrder(requests', A, B)
  BY DEF Alike
<1> HIDE DEF Q, R
<1>4. StartOf(id)' BY <1>1, <1>2, <1>3 DEF StopOf, StartOf
<1>5. OrderOf(id)' BY <1>1, <1>2, <1>3 DEF StopOf, OrderOf
<1>6. Over(id) => Over(id)' BY <1>1, <1>2, <1>3 DEF Over
<1> QED BY <1>1, <1>2, <1>3, <1>4, <1>5, <1>6 DEF StopOf

-----------------------------------------------------------------------------
(* The handlers of commands and answers                                      *)

GoneWorld == ~Exposed({"fails", "updates", "crashes", "locks"})
StopWorld == ~Exposed({"cold", "updates"})

LEMMA NoUpdates ==
    /\ GoneWorld \/ StopWorld => ~Exposed({"updates"})
    /\ \A freedoms : UNCHANGED world => (Exposed(freedoms)' <=> Exposed(freedoms))
    /\ UNCHANGED world => (GoneWorld' <=> GoneWorld) /\ (StopWorld' <=> StopWorld)
BY DEF GoneWorld, StopWorld, Exposed

LEMMA HandlerEnds ==
    ASSUME EndInv, TypeInv', HandledEffect, queue # <<>>, Head(queue).what \in Commands \cup Answers,
           NEW id \in Started, Head(queue).id = id, UNCHANGED pending,
           \/ UNCHANGED requests
           \/ \E r \in SoundRequests : r.id = id /\ requests' = Append(requests, r),
           \A x \in Ids \ {id} :
              (x \in Time' <=> x \in Time) /\ (x \in Distance' <=> x \in Distance) /\ told'[x] = told[x],
           GoneWorld => GoneOf(id)',
           StopWorld => StopOf(id)'
    PROVE  GoneInv' /\ StopInv'
<1>1. /\ TypeInv /\ queue \in Seq(SoundMessages) /\ requests \in Seq(SoundRequests)
      /\ GoneWorld => \A x \in Started : GoneOf(x)
      /\ StopWorld => known /\ pending = <<>> /\ \A x \in Started : StopOf(x)
  BY DEF EndInv, AnswerInv, TypeInv, GoneInv, StopInv, GoneWorld, StopWorld
<1>2. /\ queue' = Tail(queue)
      /\ UNCHANGED <<world, owner, clients, stopped, callbacks, known>>
      /\ Started' = Started /\ (GoneWorld' <=> GoneWorld) /\ (StopWorld' <=> StopWorld)
  BY NoUpdates DEF HandledEffect, Started
<1>3. SoundMessages \subseteq Messages /\ SoundRequests \subseteq Requests /\ Started \subseteq Ids
  BY DEF SoundMessages, SoundRequests, Started
<1>4. ASSUME NEW x \in Started \ {id}
      PROVE  Alike(queue, queue', AboutM(x)) /\ Alike(requests, requests', Waited(x))
  <2>1. Head(queue) \notin AboutM(x) BY <1>4 DEF AboutM, Told
  <2>2. Alike(queue, queue', AboutM(x)) BY <1>1, <1>2, <2>1, AlikeSteps
  <2>3. \A r \in SoundRequests : r.id = id => r \notin Waited(x) BY <1>4 DEF Waited, Asking
  <2>4. Alike(requests, requests', Waited(x)) BY <1>1, <2>3, AlikeSteps
  <2> QED BY <2>2, <2>4
<1>5. ASSUME GoneWorld, NEW x \in Started \ {id} PROVE GoneOf(x)'
  <2>1. Asking(x, Gone) \in SUBSET Waited(x) BY AboutSets
  <2>2. {m \in Told(x, Gone) : m.flag} \in SUBSET AboutM(x) BY AboutSets DEF AboutM, Told
  <2>3. /\ Has(requests, Asking(x, Gone)) => Has(requests', Asking(x, Gone))
        /\ Has(queue, {m \in Told(x, Gone) : m.flag}) => Has(queue', {m \in Told(x, Gone) : m.flag})
    BY <1>4, <1>5, <2>1, <2>2 DEF Alike
  <2>4. GoneOf(x) /\ x \in Ids \ {id} BY <1>1, <1>3, <1>5
  <2> QED BY <1>2, <2>3, <2>4, GoneUntouched
<1>6. ASSUME StopWorld, NEW x \in Started \ {id} PROVE StopOf(x)'
  <2>1. StopOf(x) /\ x \in Ids \ {id} BY <1>1, <1>3, <1>6
  <2> QED BY <1>2, <1>4, <1>6, <2>1, StopUntouched
<1>7. GoneWorld => \A x \in Started : GoneOf(x)' BY <1>5
<1>8. StopWorld => \A x \in Started : StopOf(x)' BY <1>6
<1>9. StopWorld => known' /\ pending' = <<>> BY <1>1, <1>2
<1>10. GoneInv' BY <1>2, <1>7 DEF GoneInv, GoneWorld
<1>11. StopInv' BY <1>2, <1>8, <1>9 DEF StopInv, StopWorld
<1> QED BY <1>10, <1>11

(* What the session of the first message can rely on                         *)
LEMMA HandledSession ==
    ASSUME TypeInv, HandledEffect, queue # <<>>, Head(queue).what \in Commands \cup Answers,
           NEW id, Head(queue).id = id, StopOf(id)
    PROVE  LET m == Head(queue)
           IN /\ \A whats : Has(queue, Told(id, whats)) <=> m.what \in whats \/ Has(queue', Told(id, whats))
              /\ ~Has(queue', StartM(id)) /\ InOrder(queue', StartM(id), AboutM(id))
              /\ m.what = "start" =>
                    /\ id \notin Time \cup Distance
                    /\ ~Has(queue', Told(id, Begins)) /\ ~Has(queue', Told(id, Ends))
                    /\ ~Has(requests, Asking(id, Begins)) /\ ~Has(requests, Asking(id, Ends))
                    /\ id \in stopped /\ owner[id] \in clients => Has(queue', StopM(id))
              /\ id \in Distance =>
                    /\ id \notin Time
                    /\ InOrder(queue', Told(id, Begins), Told(id, Ends))
                    /\ m.what \in Ends =>
                          ~Has(queue', Told(id, Begins)) /\ ~Has(requests, Asking(id, Begins))
<1> DEFINE m == Head(queue)
<1>1. queue \in Seq(SoundMessages) /\ queue' = Tail(queue) /\ m \in Messages
  BY HeadTailProperties DEF TypeInv, HandledEffect, SoundMessages
<1>2. /\ \A A : Has(queue, A) <=> m \in A \/ Has(queue', A)
      /\ \A A, B : InOrder(queue, A, B) =>
            InOrder(queue', A, B) /\ (m \in B => ~Has(queue', A))
  BY <1>1, InTaken
<1>3. \A whats : m \in Told(id, whats) <=> m.what \in whats BY <1>1, AboutSets
<1>4. /\ m \in AboutM(id) /\ (m \in StartM(id) <=> m.what = "start") /\ (m \in StopM(id) <=> m.what = "stop")
  BY <1>3 DEF AboutM, StartM, StopM
<1> HIDE DEF m
<1>5. \A whats : Has(queue, Told(id, whats)) <=> m.what \in whats \/ Has(queue', Told(id, whats))
  BY <1>2, <1>3
<1>6. ~Has(queue', StartM(id)) /\ InOrder(queue', StartM(id), AboutM(id))
  BY <1>2, <1>4 DEF StopOf, StartOf
<1>7. ASSUME m.what = "start"
      PROVE  /\ id \notin Time \cup Distance
             /\ ~Has(queue', Told(id, Begins)) /\ ~Has(queue', Told(id, Ends))
             /\ ~Has(requests, Asking(id, Begins)) /\ ~Has(requests, Asking(id, Ends))
             /\ id \in stopped /\ owner[id] \in clients => Has(queue', StopM(id))
  <2>1. Has(queue, StartM(id)) BY <1>2, <1>4, <1>7
  <2>2. id \notin Time \cup Distance /\ ~Has(queue, Told(id, Answers)) /\ ~Has(requests, Waited(id))
    BY <2>1 DEF StopOf, StartOf
  <2>3. id \in stopped /\ owner[id] \in clients => Has(queue', StopM(id))
    BY <1>2, <1>4, <1>7, <2>1 DEF StopOf, Over
  <2>4. ~Has(queue', Told(id, Answers)) BY <1>2, <2>2
  <2>5. ~Has(queue', Told(id, Begins)) /\ ~Has(queue', Told(id, Ends))
    BY <2>4 DEF Has, Told, Begins, Ends, Answers
  <2>6. ~Has(requests, Asking(id, Begins)) /\ ~Has(requests, Asking(id, Ends))
    BY <2>2 DEF Has, Asking, Waited, Begins, Ends, Answers
  <2> QED BY <2>2, <2>3, <2>5, <2>6
<1>8. ASSUME id \in Distance
      PROVE  /\ id \notin Time
             /\ InOrder(queue', Told(id, Begins), Told(id, Ends))
             /\ m.what \in Ends =>
                   ~Has(queue', Told(id, Begins)) /\ ~Has(requests, Asking(id, Begins))
  <2>1. /\ id \notin Time /\ InOrder(queue, Told(id, Begins), Told(id, Ends))
        /\ Has(requests, Asking(id, Begins)) => ~Has(queue, Told(id, Ends))
    BY <1>8 DEF StopOf, OrderOf
  <2> QED BY <1>2, <1>3, <2>1
<1> QED BY <1>5, <1>6, <1>7, <1>8 DEF m

(* The start of a session: nothing was known of it.                          *)
LEMMA EndStart ==
    ASSUME EndInv, TypeInv', ProcStart
    PROVE  GoneInv' /\ StopInv'
<1> DEFINE m == Head(queue)
<1> PICK id : id = m.id
  OBVIOUS
<1>1. /\ TypeInv /\ TypeOK /\ Receives("start")
      /\ queue \in Seq(SoundMessages) /\ requests \in Seq(SoundRequests)
  BY StartEffect DEF EndInv, AnswerInv, TypeInv
<1>2. /\ queue # <<>> /\ m.what = "start" /\ id \in Started /\ id \in Ids /\ m.flag \in BOOLEAN
      /\ m.what \in Commands
  BY <1>1, Received DEF Commands, Receives
<1> DEFINE i  == Clamp(m.interval)
           r1 == Ask("distanceStart", id, i, "started", 0)
           r2 == Ask("timeStart", id, MuxWith(Mux(Time), i), "started", 0)
<1>3. /\ HandledEffect /\ UNCHANGED pending /\ i \in Intervals
      /\ \/ /\ owner[id] \notin callbacks \/ "bare" \in world
            /\ UNCHANGED <<told, timeBased, distanceBased, requests>>
         \/ /\ owner[id] \in callbacks
            /\ Save(id, i, m.flag)
            /\ UNCHANGED told \/ Report(id, TRUE)
            /\ \/ UNCHANGED requests
               \/ r1 \in SoundRequests /\ requests' = Append(requests, r1)
               \/ r2 \in SoundRequests /\ requests' = Append(requests, r2)
  BY <1>1, StartEffect
<1>4. r1.id = id /\ r1.then = "started" /\ r2.id = id /\ r2.then = "started" BY DEF Ask
<1> HIDE DEF i, r1, r2
<1>5. /\ \/ UNCHANGED requests
         \/ \E r \in SoundRequests : r.id = id /\ r.then = "started" /\ requests' = Append(requests, r)
      /\ owner[id] \notin callbacks =>
            UNCHANGED <<told, timeBased, distanceBased, requests>>
      /\ \/ UNCHANGED <<timeBased, distanceBased>>
         \/ Save(id, i, m.flag)
  BY <1>3, <1>4
<1>6. /\ \A x \in Ids \ {id} :
            (x \in Time' <=> x \in Time) /\ (x \in Distance' <=> x \in Distance) /\ told'[x] = told[x]
      /\ id \notin Time \/ id \notin Distance => id \notin Time' \/ id \notin Distance' \/ id \in Time \cup Distance
  <2>1. \A x \in Ids \ {id} : told'[x] = told[x] BY <1>1, <1>2, <1>3, ReportEffect
  <2>2. CASE UNCHANGED <<timeBased, distanceBased>> BY <2>1, <2>2 DEF Time, Distance
  <2>3. CASE Save(id, i, m.flag)
    <3>1. \/ Time' = Time /\ Distance' = Distance \cup {id}
          \/ Time' = Time \cup {id} /\ Distance' = Distance
      BY <1>1, <1>2, <1>3, <2>3, SaveEffect
    <3> QED BY <2>1, <3>1
  <2> QED BY <1>5, <2>2, <2>3
<1>7. ASSUME GoneWorld PROVE GoneOf(id)'
  <2>1. GoneOf(id) BY <1>2, <1>7 DEF EndInv, GoneInv, GoneWorld
  <2>2. CASE owner[id] \in callbacks BY <1>3, <2>2 DEF GoneOf, HandledEffect
  <2>3. CASE owner[id] \notin callbacks
    <3>1. queue' = Tail(queue) /\ UNCHANGED <<owner, callbacks, requests>>
      BY <1>3, <1>5, <2>3 DEF HandledEffect
    <3>2. m \notin {x \in Told(id, Gone) : x.flag} BY <1>2 DEF Told, Gone
    <3>3. Has(queue, {x \in Told(id, Gone) : x.flag}) => Has(queue', {x \in Told(id, Gone) : x.flag})
      BY <1>1, <1>2, <3>1, <3>2, InTaken
    <3>4. Time' = Time /\ Distance' = Distance BY <1>5, <2>3 DEF Time, Distance
    <3> QED BY <2>1, <3>1, <3>3, <3>4, GoneUntouched
  <2> QED BY <2>2, <2>3
<1>8. ASSUME StopWorld PROVE StopOf(id)'
  <2>1. StopOf(id) BY <1>2, <1>8 DEF EndInv, StopInv, StopWorld
  <2>2. /\ ~Has(queue', StartM(id)) /\ InOrder(queue', StartM(id), AboutM(id))
        /\ id \notin Time \cup Distance
        /\ ~Has(queue', Told(id, Begins)) /\ ~Has(queue', Told(id, Ends))
        /\ ~Has(requests, Asking(id, Begins)) /\ ~Has(requests, Asking(id, Ends))
        /\ id \in stopped /\ owner[id] \in clients => Has(queue', StopM(id))
    BY <1>1, <1>2, <1>3, <2>1, HandledSession
  <2>3. UNCHANGED <<owner, stopped, clients>> BY <1>3 DEF HandledEffect
  <2>4. /\ InOrder(queue', Told(id, Begins), Told(id, Ends))
        /\ InOrder(requests, Asking(id, Begins), Asking(id, Ends))
    BY <2>2 DEF InOrder, Has
  <2>5. InOrder(requests', Asking(id, Begins), Asking(id, Ends))
    <3>1. \A r \in SoundRequests : InOrder(Append(requests, r), Asking(id, Begins), Asking(id, Ends))
      BY <1>1, <2>2, <2>4, InAppended
    <3> QED BY <1>5, <2>4, <3>1
  <2>6. id \notin Time' \/ id \notin Distance' BY <1>6, <2>2
  <2>7. /\ StartM(id)' = StartM(id) /\ StopM(id)' = StopM(id) /\ AboutM(id)' = AboutM(id)
        /\ \A x \in {Begins, Ends} : Told(id, x)' = Told(id, x) /\ Asking(id, x)' = Asking(id, x)
    BY DEF StartM, StopM, AboutM, Told, Asking
  <2> QED BY <2>2, <2>3, <2>4, <2>5, <2>6, <2>7 DEF StopOf, StartOf, OrderOf
<1> HIDE DEF m
<1> QED BY <1>2, <1>3, <1>5, <1>6, <1>7, <1>8, HandlerEnds DEF m

LEMMA Renamed ==
    ASSUME NEW id
    PROVE  /\ StartM(id)' = StartM(id) /\ StopM(id)' = StopM(id) /\ AboutM(id)' = AboutM(id)
           /\ \A x : Told(id, x)' = Told(id, x) /\ Asking(id, x)' = Asking(id, x)
           /\ Waited(id)' = Waited(id)
BY DEF StartM, StopM, AboutM, Told, Asking, Waited

(* A session that is not at its start, and goes on towards its end           *)
LEMMA StopGoesOn ==
    ASSUME TypeInv, HandledEffect, queue # <<>>, Head(queue).what \in Commands \cup Answers,
           NEW id, Head(queue).id = id, StopOf(id), Head(queue).what # "start",
           id \in Distance' => id \in Distance, id \in Time' => id \in Time,
           id \in Distance /\ id \notin Time /\ id \in Distance' =>
              /\ \/ UNCHANGED requests
                 \/ \E r \in SoundRequests : r.then \in Ends /\ requests' = Append(requests, r),
           id \in stopped /\ owner[id] \in clients => Has(queue', StopM(id)) \/ Over(id)'
    PROVE  StopOf(id)'
<1> DEFINE m == Head(queue)
<1>1. /\ ~Has(queue', StartM(id)) /\ InOrder(queue', StartM(id), AboutM(id))
      /\ \A whats : Has(queue, Told(id, whats)) <=> m.what \in whats \/ Has(queue', Told(id, whats))
      /\ id \in Distance =>
            /\ id \notin Time
            /\ InOrder(queue', Told(id, Begins), Told(id, Ends))
            /\ m.what \in Ends => ~Has(queue', Told(id, Begins)) /\ ~Has(requests, Asking(id, Begins))
  BY HandledSession
<1>2. StartOf(id)' BY <1>1, Renamed DEF StartOf
<1>3. ASSUME id \in Distance'
      PROVE  /\ id \notin Time' /\ InOrder(queue', Told(id, Begins), Told(id, Ends))
             /\ InOrder(requests', Asking(id, Begins), Asking(id, Ends))
             /\ Has(requests', Asking(id, Begins)) => ~Has(queue', Told(id, Ends))
  <2>1. /\ InOrder(requests, Asking(id, Begins), Asking(id, Ends))
        /\ Has(requests, Asking(id, Begins)) => ~Has(queue', Told(id, Ends))
    BY <1>1, <1>3 DEF StopOf, OrderOf
  <2>2. ASSUME NEW r \in SoundRequests, r.then \in Ends
        PROVE  /\ InOrder(Append(requests, r), Asking(id, Begins), Asking(id, Ends))
               /\ Has(Append(requests, r), Asking(id, Begins)) <=> Has(requests, Asking(id, Begins))
    <3>1. r \notin Asking(id, Begins) BY <2>2 DEF Asking, Begins, Ends
    <3>2. requests \in Seq(SoundRequests) BY DEF TypeInv
    <3> QED BY <2>1, <3>1, <3>2, InAppended
  <2> HIDE DEF m
  <2> QED BY <1>1, <1>3, <2>1, <2>2
<1>4. OrderOf(id)' BY <1>3, Renamed DEF OrderOf
<1>5. UNCHANGED <<owner, stopped, clients>> BY DEF HandledEffect
<1> QED BY <1>2, <1>4, <1>5, Renamed DEF StopOf

LEMMA EndStop ==
    ASSUME EndInv, TypeInv', ProcStop
    PROVE  GoneInv' /\ StopInv'
<1> DEFINE m == Head(queue)
<1> PICK id : id = m.id
  OBVIOUS
<1>1. /\ TypeInv /\ TypeOK /\ Receives("stop")
      /\ queue \in Seq(SoundMessages) /\ requests \in Seq(SoundRequests)
  BY StopEffect DEF EndInv, AnswerInv, TypeInv
<1>2. /\ queue # <<>> /\ m.what = "stop" /\ id \in Started /\ id \in Ids
      /\ m.what \in Commands
  BY <1>1, Received DEF Commands, Receives
<1> DEFINE r1 == Ask("timeStop", id, 0, "stopped", 0)
           r2 == Ask("timeStart", id, Mux(Time \ {id}), "started", 0)
           r3 == Ask("distanceStop", id, 0, "distanceStopped", 0)
<1>3. /\ HandledEffect /\ UNCHANGED pending
      /\ UNCHANGED told \/ \E success \in BOOLEAN : Report(id, success)
      /\ \/ /\ id \in Time /\ Erase(id)
            /\ \/ UNCHANGED requests
               \/ r1 \in SoundRequests /\ requests' = Append(requests, r1)
               \/ r2 \in SoundRequests /\ requests' = Append(requests, r2)
         \/ /\ id \notin Time /\ id \in Distance /\ r3 \in SoundRequests /\ requests' = Append(requests, r3)
            /\ UNCHANGED <<timeBased, distanceBased>>
         \/ id \notin Time \cup Distance /\ UNCHANGED <<timeBased, distanceBased, requests>>
  BY <1>1, StopEffect
<1>4. r1.id = id /\ r2.id = id /\ r3.id = id /\ r3.then \in Ends BY DEF Ask, Ends
<1> HIDE DEF r1, r2, r3
<1>5. /\ \/ UNCHANGED requests
         \/ \E r \in SoundRequests : r.id = id /\ requests' = Append(requests, r)
      /\ \A x \in Ids \ {id} : told'[x] = told[x]
  <2>1. \A x \in Ids \ {id} : told'[x] = told[x] BY <1>1, <1>2, <1>3, ReportEffect
  <2> QED BY <1>3, <1>4, <2>1
<1>6. \/ id \in Time /\ Time' = Time \ {id} /\ Distance' = Distance
      \/ /\ id \notin Time /\ id \in Distance /\ Time' = Time /\ Distance' = Distance
         /\ r3 \in SoundRequests /\ requests' = Append(requests, r3)
      \/ id \notin Time \cup Distance /\ Time' = Time /\ Distance' = Distance
  <2>1. CASE id \in Time BY <1>1, <1>2, <1>3, <2>1, EraseEffect
  <2>2. CASE id \notin Time
    <3>1. Time' = Time /\ Distance' = Distance BY <1>3, <2>2 DEF Time, Distance
    <3> QED BY <1>3, <2>2, <3>1
  <2> QED BY <2>1, <2>2
<1>7. ASSUME GoneWorld PROVE GoneOf(id)'
  <2>1. GoneOf(id) BY <1>2, <1>7 DEF EndInv, GoneInv, GoneWorld
  <2>2. queue' = Tail(queue) /\ UNCHANGED <<owner, callbacks>> BY <1>3 DEF HandledEffect
  <2>3. m \notin {x \in Told(id, Gone) : x.flag} BY <1>2 DEF Told, Gone
  <2>4. Has(queue, {x \in Told(id, Gone) : x.flag}) => Has(queue', {x \in Told(id, Gone) : x.flag})
    BY <1>1, <1>2, <2>2, <2>3, InTaken
  <2>5. Has(requests, Asking(id, Gone)) => Has(requests', Asking(id, Gone))
    <3>1. \A r \in SoundRequests :
             Has(requests, Asking(id, Gone)) => Has(Append(requests, r), Asking(id, Gone))
      BY <1>1, InAppended
    <3> QED BY <1>5, <3>1
  <2> QED BY <1>6, <2>1, <2>2, <2>4, <2>5, GoneUntouched
<1>8. ASSUME StopWorld PROVE StopOf(id)'
  <2>1. StopOf(id) BY <1>2, <1>8 DEF EndInv, StopInv, StopWorld
  <2>2. ~Has(queue', StartM(id)) /\ (id \in Distance => id \notin Time)
    BY <1>1, <1>2, <1>3, <2>1, HandledSession
  <2>3. ASSUME id \in Distance'
        PROVE  /\ id \notin Time' /\ r3 \in SoundRequests /\ requests' = Append(requests, r3)
               /\ Has(requests', Asking(id, Ends))
    <3>1. id \notin Time' /\ r3 \in SoundRequests /\ requests' = Append(requests, r3)
      BY <1>6, <2>2, <2>3
    <3>2. r3 \in Asking(id, Ends) BY <1>4, <3>1, AboutSets DEF SoundRequests
    <3>3. Has(Append(requests, r3), Asking(id, Ends)) BY <1>1, <3>1, <3>2, InAppended
    <3> QED BY <3>1, <3>3
  <2>4. id \notin Time' BY <1>6
  <2>5. Over(id)' BY <2>2, <2>3, <2>4, Renamed DEF Over
  <2> HIDE DEF m
  <2> QED BY <1>1, <1>2, <1>3, <1>4, <1>6, <2>1, <2>3, <2>4, <2>5, StopGoesOn DEF m
<1>9. \A x \in Ids \ {id} :
         (x \in Time' <=> x \in Time) /\ (x \in Distance' <=> x \in Distance) /\ told'[x] = told[x]
  BY <1>5, <1>6
<1> HIDE DEF m
<1> QED BY <1>2, <1>3, <1>5, <1>7, <1>8, <1>9, HandlerEnds DEF m

(* The answers only erase.                                                   *)
LEMMA EndAnswers ==
    ASSUME EndInv, TypeInv', ~Exposed({"updates"}),
           ProcStarted \/ ProcUpdated \/ ProcStopped \/ ProcDistanceStopped
              \/ ProcGoneStopped \/ ProcRestarted
    PROVE  GoneInv' /\ StopInv'
<1> DEFINE m == Head(queue)
<1> PICK id : id = m.id
  OBVIOUS
<1>1. /\ TypeInv /\ TypeOK /\ ClientsInv
      /\ queue \in Seq(SoundMessages) /\ requests \in Seq(SoundRequests)
  BY DEF EndInv, AnswerInv, TypeInv
<1>2. /\ queue # <<>> /\ HandledEffect /\ UNCHANGED <<pending, requests>>
      /\ id \in Started /\ id \in Ids /\ m.flag \in BOOLEAN
      /\ \/ /\ Receives("started") /\ Report(id, m.flag)
            /\ IF Failed THEN Erase(id) ELSE UNCHANGED <<timeBased, distanceBased>>
         \/ /\ Receives("stopped") /\ Report(id, m.flag)
            /\ UNCHANGED <<timeBased, distanceBased>>
         \/ /\ Receives("distanceStopped") /\ Report(id, m.flag)
            /\ IF Failed THEN UNCHANGED <<timeBased, distanceBased>> ELSE Erase(id)
         \/ /\ Receives("goneStopped") /\ UNCHANGED told
            /\ IF m.flag THEN Erase(id) ELSE UNCHANGED <<timeBased, distanceBased>>
  BY <1>1, AnswerEffect
<1>3. /\ m.what \in {"started", "stopped", "distanceStopped", "goneStopped"} /\ m.what \in Commands \cup Answers
      /\ m.what = "goneStopped" => UNCHANGED told
      /\ m.what # "goneStopped" => Report(id, m.flag)
      /\ m.what = "distanceStopped" =>
            IF Failed THEN UNCHANGED <<timeBased, distanceBased>> ELSE Erase(id)
      /\ m.what = "goneStopped" => IF m.flag THEN Erase(id) ELSE UNCHANGED <<timeBased, distanceBased>>
      /\ Erase(id) \/ UNCHANGED <<timeBased, distanceBased>>
      /\ Failed => ~m.flag
  BY <1>2 DEF Receives, Answers, Failed
<1>4. Erase(id) =>
         \/ id \in Time /\ Time' = Time \ {id} /\ Distance' = Distance
         \/ id \notin Time /\ Time' = Time /\ Distance' = Distance \ {id}
  BY <1>1, <1>2, EraseEffect
<1>5. UNCHANGED <<timeBased, distanceBased>> => Time' = Time /\ Distance' = Distance
  BY DEF Time, Distance
<1>6. \A x \in Ids \ {id} :
         (x \in Time' <=> x \in Time) /\ (x \in Distance' <=> x \in Distance) /\ told'[x] = told[x]
  <2>1. \A x \in Ids \ {id} : told'[x] = told[x] BY <1>1, <1>2, <1>3, ReportEffect
  <2> QED BY <1>3, <1>4, <1>5, <2>1
<1>7. queue' = Tail(queue) /\ UNCHANGED <<owner, callbacks, clients, stopped, requests>>
  BY <1>2 DEF HandledEffect
<1>8. ASSUME GoneWorld PROVE GoneOf(id)'
  <2>1. GoneOf(id) BY <1>2, <1>8 DEF EndInv, GoneInv, GoneWorld
  <2> DEFINE E == {x \in Told(id, Gone) : x.flag}
  <2>2. CASE m \in E /\ owner[id] \notin callbacks
    <3>1. m.what \in Gone /\ m.flag BY <2>2 DEF Told
    <3>2. Erase(id) BY <1>3, <3>1 DEF Gone
    <3>3. id \notin Time' /\ id \notin Distance' BY <1>4, <2>1, <2>2, <3>2 DEF GoneOf
    <3> QED BY <3>3 DEF GoneOf
  <2>3. CASE m \notin E
    <3> HIDE DEF E
    <3>1. Has(queue, E) => Has(queue', E) BY <1>1, <1>2, <1>7, <2>3, InTaken
    <3> QED BY <1>3, <1>4, <1>5, <1>7, <2>1, <3>1, GoneUntouched DEF E
  <2>4. CASE owner[id] \in callbacks BY <1>7, <2>4 DEF GoneOf
  <2> QED BY <2>2, <2>3, <2>4
<1>9. ASSUME StopWorld PROVE StopOf(id)'
  <2>1. StopOf(id) BY <1>2, <1>9 DEF EndInv, StopInv, StopWorld
  <2>2. /\ ~Has(queue', StartM(id))
        /\ \A whats : Has(queue, Told(id, whats)) <=> m.what \in whats \/ Has(queue', Told(id, whats))
        /\ id \in Distance =>
              /\ id \notin Time
              /\ m.what \in Ends =>
                    ~Has(queue', Told(id, Begins)) /\ ~Has(requests, Asking(id, Begins))
    BY <1>1, <1>2, <1>3, <2>1, HandledSession
  <2>3. /\ id \in Time' => id \in Time
        /\ id \in Distance' => id \in Distance
    BY <1>3, <1>4, <1>5
  <2>4. ASSUME id \in stopped, owner[id] \in clients, ~Has(queue', StopM(id))
        PROVE  Over(id)'
    <3>1. Over(id) BY <1>3, <2>1, <2>2, <2>4 DEF StopOf, StopM
    <3>2. owner[id] \in callbacks
      <4>1. owner[id] \in Clients BY <1>1, <1>2 DEF TypeOK, Started
      <4> QED BY <1>1, <2>4, <4>1 DEF ClientsInv
    <3>3. ASSUME id \in Distance', told'[id] \/ Has(queue', Told(id, Begins)) \/ Has(requests', Asking(id, Begins))
          PROVE  Has(queue', Told(id, Ends)) \/ Has(requests', Asking(id, Ends))
      <4>1. m.what # "distanceStopped"
        <5>1. ASSUME m.what = "distanceStopped" PROVE FALSE
          <6>1. Failed BY <1>3, <1>4, <2>2, <2>3, <3>3, <5>1
          <6>2. ~m.flag /\ told'[id] = m.flag
            BY <1>1, <1>2, <1>3, <3>2, <5>1, <6>1, ReportEffect
          <6> QED BY <1>7, <2>2, <2>3, <3>3, <5>1, <6>2 DEF Ends
        <5> QED BY <5>1
      <4>2. told'[id] => told[id] \/ m.what \in Begins
        <5>1. CASE m.what = "goneStopped" BY <1>3, <5>1
        <5>2. CASE m.what # "goneStopped" BY <1>3, <4>1, <5>2 DEF Begins
        <5> QED BY <5>1, <5>2
      <4>3. Has(queue, Told(id, Ends)) <=> Has(queue', Told(id, Ends)) BY <2>2, <4>1 DEF Ends
      <4>4. told[id] \/ Has(queue, Told(id, Begins)) \/ Has(requests, Asking(id, Begins))
        BY <1>7, <2>2, <3>3, <4>2
      <4> QED BY <1>7, <2>3, <3>1, <3>3, <4>3, <4>4 DEF Over
    <3> QED BY <2>2, <2>3, <3>1, <3>3, Renamed DEF Over
  <2> HIDE DEF m
  <2>5. m.what # "start" BY <1>3
  <2> QED BY <1>1, <1>2, <1>3, <2>1, <2>3, <2>4, <2>5, StopGoesOn DEF m
<1> HIDE DEF m
<1> QED BY <1>2, <1>3, <1>6, <1>8, <1>9, HandlerEnds DEF m

LEMMA EachEnds ==
    ASSUME EndInv, UNCHANGED <<world, owner>>,
           GoneWorld => \A x \in Started : GoneOf(x)',
           StopWorld => known' /\ pending' = <<>> /\ \A x \in Started : StopOf(x)'
    PROVE  GoneInv' /\ StopInv'
<1>1. Started' = Started /\ (GoneWorld' <=> GoneWorld) /\ (StopWorld' <=> StopWorld)
  BY NoUpdates DEF Started
<1> QED BY <1>1 DEF GoneInv, StopInv, GoneWorld, StopWorld

LEMMA EndFacts ==
    ASSUME EndInv
    PROVE  /\ TypeInv /\ TypeOK /\ ClientsInv /\ ReadyInv /\ Started \subseteq Ids
           /\ queue \in Seq(SoundMessages) /\ requests \in Seq(SoundRequests)
           /\ GoneWorld => \A x \in Started : GoneOf(x)
           /\ StopWorld => known /\ pending = <<>> /\ \A x \in Started : StopOf(x)
BY DEF EndInv, AnswerInv, TypeInv, GoneInv, StopInv, GoneWorld, StopWorld, Started

(* What a session relies on to end is no command and no event.               *)
LEMMA EndingFacts ==
    /\ \A x : \A m \in Messages :
          m.what \notin Gone => m \notin {e \in Told(x, Gone) : e.flag}
    /\ \A x : \A r \in Requests : r.then = "none" => r \notin Asking(x, Gone) /\ r \notin Waited(x)
    /\ \A x : \A m \in Messages : m.what \notin Commands \cup Answers => m \notin AboutM(x)
    /\ {"start", "update", "stop", "up", "lock", "power", "remove"} \cap Gone = {}
    /\ {"up", "lock", "power", "remove"} \cap (Commands \cup Answers) = {}
    /\ SoundMessages \subseteq Messages /\ SoundRequests \subseteq Requests
BY DEF Told, Asking, AboutM, Waited, Gone, Commands, Answers, SoundMessages, SoundRequests

LEMMA EndPostponed ==
    ASSUME EndInv, ProcPostponed
    PROVE  GoneInv' /\ StopInv'
<1>1. /\ HandledEffect /\ Postpone(Head(queue))
      /\ Receives("start") \/ Receives("update")
      /\ UNCHANGED <<timeBased, distanceBased, requests>>
  BY EndFacts, PostponedEffect
<1>2. ~StopWorld BY <1>1, EndFacts DEF Postpone
<1>3. UNCHANGED <<world, owner, callbacks>> /\ queue' = Tail(queue) /\ Time' = Time /\ Distance' = Distance
  BY <1>1 DEF HandledEffect, Time, Distance
<1>4. queue # <<>> /\ Head(queue) \in Messages /\ Head(queue).what \in {"start", "update"}
  BY <1>1, EndFacts, Received DEF Receives
<1>5. ASSUME GoneWorld, NEW x \in Started PROVE GoneOf(x)'
  <2> DEFINE E == {m \in Told(x, Gone) : m.flag}
  <2>1. Head(queue) \notin E BY <1>4, EndingFacts
  <2> HIDE DEF E
  <2>2. Has(queue, E) => Has(queue', E) BY <1>3, <1>4, <2>1, EndFacts, InTaken
  <2> QED BY <1>1, <1>3, <1>5, <2>2, EndFacts, GoneUntouched DEF E
<1> QED BY <1>2, <1>3, <1>5, EachEnds

(* The time-based sessions of a client are stopped one by one.               *)
LEMMA EndRemoveSession ==
    ASSUME EndInv, ProcRemoveSession
    PROVE  GoneInv' /\ StopInv'
<1>1. PICK id \in Time :
         LET last == Ask("timeStop", id, 0, "stopped", 0)
             next == Ask("timeStart", id, Mux(Time \ {id}), "started", 0)
         IN /\ owner[id] = Head(queue).client /\ Erase(id)
            /\ \/ requests' = Append(requests, last) /\ last \in SoundRequests
               \/ UNCHANGED requests
               \/ requests' = Append(requests, next) /\ next \in SoundRequests
  BY EndFacts, RemoveSessionEffect
<1>2. UNCHANGED <<world, clients, owner, stopped, told, queue, callbacks, pending, known>>
  BY EndFacts, RemoveSessionEffect
<1>3. \/ UNCHANGED requests
      \/ \E r \in SoundRequests : r.id = id /\ requests' = Append(requests, r)
  BY <1>1 DEF Ask
<1>4. Time' = Time \ {id} /\ Distance' = Distance
  <2>1. id \in Ids BY DEF Time
  <2> QED BY <1>1, <2>1, EndFacts, EraseEffect
<1>5. ASSUME NEW x \in Started \ {id}
      PROVE  Alike(queue, queue', AboutM(x)) /\ Alike(requests, requests', Waited(x))
  <2>1. \A r \in SoundRequests : r.id = id => r \notin Waited(x) BY <1>5 DEF Waited, Asking
  <2> QED BY <1>2, <1>3, <2>1, EndFacts, AlikeSteps
<1>6. ASSUME GoneWorld, NEW x \in Started PROVE GoneOf(x)'
  <2>1. Has(requests, Asking(x, Gone)) => Has(requests', Asking(x, Gone))
    <3>1. \A r \in SoundRequests :
             Has(requests, Asking(x, Gone)) => Has(Append(requests, r), Asking(x, Gone))
      BY EndFacts, InAppended
    <3> QED BY <1>3, <3>1
  <2> QED BY <1>2, <1>4, <1>6, <2>1, EndFacts, GoneUntouched
<1>7. ASSUME StopWorld, NEW x \in Started \ {id} PROVE StopOf(x)'
  BY <1>2, <1>4, <1>5, <1>7, EndFacts, StopUntouched
<1>8. ASSUME StopWorld, id \in Started PROVE StopOf(id)'
  <2>1. StopOf(id) BY <1>8, EndFacts
  <2>2. ~Has(queue, StartM(id)) /\ id \notin Distance'
    BY <1>4, <2>1 DEF StopOf, StartOf, OrderOf
  <2> QED BY <1>2, <1>4, <2>1, <2>2, Renamed DEF StopOf, StartOf, OrderOf, Over
<1>9. StopWorld => \A x \in Started : StopOf(x)' BY <1>7, <1>8
<1> QED BY <1>2, <1>6, <1>9, EndFacts, EachEnds

(* A client is forgotten when the stops of its sessions have been asked for. *)
LEMMA EndRemoveClient ==
    ASSUME EndInv, ProcRemoveClient
    PROVE  GoneInv' /\ StopInv'
<1> PICK c : c = Head(queue).client
  OBVIOUS
<1>1. /\ Receives("remove")
      /\ \A id \in Time : owner[id] # c
      /\ queue' = Tail(queue) /\ callbacks' = callbacks \ {c}
      /\ UNCHANGED <<world, clients, owner, stopped, told, timeBased, distanceBased, pending, known>>
  BY EndFacts, RemoveClientEffect
<1>2. PICK reqs \in Seq(SoundRequests) :
         /\ requests' = requests \o reqs
         /\ \A k \in DOMAIN reqs : \E id \in OwnDistance(c) :
               reqs[k] = Ask("distanceStop", id, distanceBased[id], "goneStopped", 0)
         /\ \A id \in OwnDistance(c) : \E k \in DOMAIN reqs :
               reqs[k] = Ask("distanceStop", id, distanceBased[id], "goneStopped", 0)
  BY EndFacts, RemoveClientEffect
<1>3. Time' = Time /\ Distance' = Distance BY <1>1 DEF Time, Distance
<1>4. /\ \A k \in DOMAIN reqs : reqs[k].then = "goneStopped" /\ reqs[k].id \in OwnDistance(c)
      /\ \A id \in OwnDistance(c) : \E k \in DOMAIN reqs :
            reqs[k].then = "goneStopped" /\ reqs[k].id = id
      /\ \A k \in DOMAIN reqs : reqs[k] \in Requests
  <2>1. \A k \in DOMAIN reqs : reqs[k] \in Requests BY ElementOfSeq, LenProperties, EndingFacts
  <2> QED BY <1>2, <2>1 DEF Ask
<1>5. /\ \A x \in Ids \ OwnDistance(c) : ~Has(reqs, Waited(x))
      /\ \A x : ~Has(reqs, Asking(x, Begins)) /\ ~Has(reqs, Asking(x, Ends))
      /\ \A x \in OwnDistance(c) : Has(reqs, Asking(x, Gone))
  BY <1>4 DEF Has, Waited, Asking, Begins, Ends, Gone
<1>6. queue # <<>> /\ Head(queue) \in Messages /\ Head(queue).what = "remove"
  BY <1>1, EndFacts, Received DEF Receives
<1>7. ASSUME NEW x \in Started PROVE Alike(queue, queue', AboutM(x))
  BY <1>1, <1>6, EndFacts, EndingFacts, AlikeSteps
<1>8. \A A : Has(requests', A) <=> Has(requests, A) \/ Has(reqs, A) BY <1>2, EndFacts, InJoined
<1>9. ASSUME GoneWorld, NEW x \in Started PROVE GoneOf(x)'
  <2> DEFINE E == {m \in Told(x, Gone) : m.flag}
  <2>1. Head(queue) \notin E BY <1>6, EndingFacts
  <2> HIDE DEF E
  <2>2. Has(queue, E) => Has(queue', E) BY <1>1, <1>6, <2>1, EndFacts, InTaken
  <2>3. CASE owner[x] \in callbacks' \/ owner[x] \notin callbacks
    BY <1>1, <1>3, <1>8, <1>9, <2>2, <2>3, EndFacts, GoneUntouched DEF E, GoneOf
  <2>4. CASE owner[x] = c
    <3>1. x \notin Time /\ (x \in Distance => x \in OwnDistance(c))
      BY <1>1, <2>4 DEF OwnDistance
    <3>2. x \in Distance => Ending(x)' BY <1>5, <1>8, <3>1, Renamed DEF Ending
    <3> QED BY <1>3, <3>1, <3>2 DEF GoneOf
  <2> QED BY <1>1, <2>3, <2>4
<1>10. ASSUME StopWorld, NEW x \in Started PROVE StopOf(x)'
  <2>1. StopOf(x) /\ x \in Ids BY <1>10, EndFacts
  <2>2. CASE x \notin OwnDistance(c)
    <3>1. Alike(requests, requests', Waited(x)) BY <1>2, <1>5, <2>1, <2>2, EndFacts, AlikeSteps
    <3> QED BY <1>1, <1>3, <1>7, <2>1, <3>1, StopUntouched
  <2>3. CASE x \in OwnDistance(c)
    <3>1. /\ x \in Distance /\ x \notin Time
          /\ InOrder(queue, Told(x, Begins), Told(x, Ends))
          /\ InOrder(requests, Asking(x, Begins), Asking(x, Ends))
          /\ Has(requests, Asking(x, Begins)) => ~Has(queue, Told(x, Ends))
          /\ InOrder(queue, StartM(x), AboutM(x)) /\ ~Has(queue, StartM(x))
      BY <2>1, <2>3 DEF OwnDistance, StopOf, StartOf, OrderOf
    <3>2. InOrder(requests', Asking(x, Begins), Asking(x, Ends))
      BY <1>2, <1>5, <3>1, EndFacts, InJoined
    <3>3. /\ InOrder(queue', Told(x, Begins), Told(x, Ends))
          /\ InOrder(queue', StartM(x), AboutM(x))
          /\ \A A \in SUBSET AboutM(x) : Has(queue', A) <=> Has(queue, A)
      BY <1>1, <1>6, <1>7, <3>1, EndFacts, InTaken DEF Alike
    <3>4. /\ StartM(x) \in SUBSET AboutM(x) /\ StopM(x) \in SUBSET AboutM(x)
          /\ Told(x, Begins) \in SUBSET AboutM(x) /\ Told(x, Ends) \in SUBSET AboutM(x)
      BY DEF StartM, StopM, AboutM, Told, Begins, Ends, Commands, Answers
    <3>5. StartOf(x)' /\ OrderOf(x)'
      BY <1>3, <1>5, <1>8, <3>1, <3>2, <3>3, <3>4, Renamed DEF StartOf, OrderOf
    <3>6. Over(x) => Over(x)' BY <1>1, <1>3, <1>5, <1>8, <3>3, <3>4, Renamed DEF Over
    <3> QED BY <1>1, <2>1, <3>3, <3>4, <3>5, <3>6, Renamed DEF StopOf
  <2> QED BY <2>2, <2>3
<1> QED BY <1>1, <1>9, <1>10, EndFacts, EachEnds

(* Engine up, lock and power: nobody looks at the answers of the restarts.   *)
LEMMA EndEvents ==
    ASSUME EndInv, ProcEngineUp \/ handleEngineLockStatus \/ updateSystemPowerState
    PROVE  GoneInv' /\ StopInv'
<1>1. /\ queue # <<>> /\ Head(queue).what \in {"up", "lock", "power"}
      /\ UNCHANGED <<world, clients, owner, stopped, told, callbacks, timeBased, distanceBased>>
      /\ \/ queue' = Tail(queue) /\ UNCHANGED pending
         \/ Resend
  BY EndFacts, EventEffect
<1>2. PICK reqs \in Seq(Unheeded) : requests' = requests \o reqs BY EndFacts, EventEffect
<1>3. reqs \in Seq(SoundRequests) /\ \A x : ~Has(reqs, Waited(x))
  <2>1. reqs \in Seq(SoundRequests) BY SeqMonotonic DEF Unheeded
  <2>2. \A k \in DOMAIN reqs : reqs[k].then = "none"
    BY ElementOfSeq, LenProperties DEF Unheeded
  <2> QED BY <2>1, <2>2 DEF Has, Waited, Asking, Answers
<1>4. Head(queue) \in Messages /\ Tail(queue) \in Seq(SoundMessages)
  BY <1>1, EndFacts, EndingFacts, HeadTailProperties
<1>5. Time' = Time /\ Distance' = Distance BY <1>1 DEF Time, Distance
<1>6. known => known' BY DEF ProcEngineUp, handleEngineLockStatus, updateSystemPowerState
<1>7. ASSUME GoneWorld, NEW x \in Started PROVE GoneOf(x)'
  <2> DEFINE E == {m \in Told(x, Gone) : m.flag}
  <2>1. Head(queue) \notin E BY <1>1, <1>4, EndingFacts
  <2> HIDE DEF E
  <2>2. Has(queue, E) => Has(Tail(queue), E) BY <1>1, <2>1, EndFacts, InTaken
  <2>3. Has(queue, E) => Has(queue', E)
    <3>1. CASE queue' = Tail(queue) BY <2>2, <3>1
    <3>2. CASE Resend
      <4>1. queue' = Tail(queue) \o pending /\ pending \in Seq(SoundMessages)
        BY <1>1, <3>2, EndFacts, ResendEffect
      <4> QED BY <1>4, <2>2, <4>1, InJoined
    <3> QED BY <1>1, <3>1, <3>2
  <2>4. Has(requests, Asking(x, Gone)) => Has(requests', Asking(x, Gone))
    BY <1>2, <1>3, EndFacts, InJoined
  <2> QED BY <1>1, <1>5, <1>7, <2>3, <2>4, EndFacts, GoneUntouched DEF E
<1>8. ASSUME StopWorld
      PROVE  queue' = Tail(queue) /\ known' /\ pending' = <<>> /\ \A x \in Started : StopOf(x)'
  <2>1. known' /\ pending = <<>> BY <1>6, <1>8, EndFacts
  <2>2. queue' = Tail(queue) /\ pending' = <<>>
    <3>1. Tail(queue) \o <<>> = Tail(queue) BY <1>4, ConcatEmptySeq
    <3> QED BY <1>1, <2>1, <3>1 DEF Resend
  <2>3. ASSUME NEW x \in Started PROVE StopOf(x)'
    <3>1. Head(queue) \notin AboutM(x) BY <1>1, <1>4, EndingFacts
    <3>2. Alike(queue, queue', AboutM(x)) BY <1>1, <2>2, <3>1, EndFacts, AlikeSteps
    <3>3. Alike(requests, requests', Waited(x)) BY <1>2, <1>3, EndFacts, AlikeSteps
    <3> QED BY <1>1, <1>5, <1>8, <3>2, <3>3, EndFacts, StopUntouched
  <2> QED BY <2>1, <2>2, <2>3
<1> QED BY <1>1, <1>7, <1>8, EachEnds

(* An answer of LocApi: of a client that is gone, it succeeds.               *)
LEMMA EndRequest ==
    ASSUME EndInv, LocApiRequest
    PROVE  GoneInv' /\ StopInv'
<1> PICK r : r = Head(requests)
  OBVIOUS
<1>1. /\ requests # <<>> /\ r \in SoundRequests /\ r \in Requests /\ r.do # "open"
      /\ requests' = Tail(requests)
      /\ UNCHANGED <<world, clients, owner, stopped, told, callbacks, timeBased, distanceBased,
                     pending, known>>
  BY EndFacts, RequestEffect
<1>2. PICK ok \in Outcomes(r) :
         /\ ok \in BOOLEAN
         /\ r.then = "none" => UNCHANGED queue
         /\ r.then # "none" =>
               /\ Message(r.then, r.id, r.opts, ok) \in SoundMessages
               /\ queue' = Append(queue, Message(r.then, r.id, r.opts, ok))
  BY EndFacts, RequestEffect
<1> PICK m : m = Message(r.then, r.id, r.opts, ok)
  OBVIOUS
<1>3. m.what = r.then /\ m.id = r.id /\ m.flag = ok BY DEF Message
<1>4. Time' = Time /\ Distance' = Distance BY <1>1 DEF Time, Distance
<1>5. r.then \in {"none"} \cup Answers BY <1>1, RequestFields
<1>6. /\ \A A : Has(requests, A) <=> r \in A \/ Has(requests', A)
      /\ \A A, B : InOrder(requests, A, B) =>
            InOrder(requests', A, B) /\ (r \in B => ~Has(requests', A))
  BY <1>1, EndFacts, InTaken
<1>7. r.then # "none" =>
         /\ m \in Messages /\ m \in SoundMessages
         /\ \A A : Has(queue', A) <=> Has(queue, A) \/ m \in A
         /\ \A A, B : InOrder(queue, A, B) /\ (m \notin A \/ ~Has(queue, B)) => InOrder(queue', A, B)
  <2>1. \A e \in SoundMessages :
           /\ \A A : Has(Append(queue, e), A) <=> Has(queue, A) \/ e \in A
           /\ \A A, B : InOrder(queue, A, B) /\ (e \notin A \/ ~Has(queue, B)) =>
                 InOrder(Append(queue, e), A, B)
    BY EndFacts, InAppended
  <2>2. r.then # "none" => m \in SoundMessages /\ queue' = Append(queue, m) BY <1>2
  <2>3. r.then # "none" => m \in Messages BY <2>2, EndingFacts
  <2>4. ASSUME r.then # "none"
        PROVE  /\ \A A : Has(queue', A) <=> Has(queue, A) \/ m \in A
               /\ \A A, B : InOrder(queue, A, B) /\ (m \notin A \/ ~Has(queue, B)) => InOrder(queue', A, B)
    <3>1. m \in SoundMessages /\ queue' = Append(queue, m) BY <2>2, <2>4
    <3> QED BY <2>1, <3>1
  <2> QED BY <2>2, <2>3, <2>4
<1>8. ASSUME NEW x \in Started, r.then = "none" \/ r.id # x
      PROVE  Alike(queue, queue', AboutM(x)) /\ Alike(requests, requests', Waited(x))
  <2>1. r \notin Waited(x) BY <1>1, <1>8, EndingFacts DEF Waited, Asking
  <2>2. Alike(requests, requests', Waited(x)) BY <1>1, <2>1, EndFacts, AlikeSteps
  <2>3. CASE r.then = "none" BY <1>2, <2>2, <2>3, EndFacts, AlikeSteps
  <2>4. CASE r.then # "none"
    <3>1. m \notin AboutM(x) /\ m \in SoundMessages /\ queue' = Append(queue, m)
      BY <1>2, <1>3, <1>8, <2>4 DEF AboutM, Told
    <3> QED BY <2>2, <3>1, EndFacts, AlikeSteps
  <2> QED BY <2>3, <2>4
<1>9. ASSUME GoneWorld, r.then \in Gone PROVE ok = TRUE
  <2>1. r.do = "distanceStop"
    <3>1. r.then \in AnswersTo[r.do] BY <1>1 DEF SoundRequests
    <3> QED BY <1>1, <1>9, <3>1, RequestFields DEF AnswersTo, Gone
  <2>2. modemUp /\ engineLock # "disabled" /\ "fails" \notin world
    BY <1>1, <1>9, EndFacts DEF ReadyInv, Unlocked, GoneWorld, Exposed
  <2> QED BY <1>2, <2>1, <2>2 DEF Outcomes
<1>10. ASSUME GoneWorld, NEW x \in Started PROVE GoneOf(x)'
  <2> DEFINE E == {e \in Told(x, Gone) : e.flag}
  <2>1. Has(queue, E) => Has(queue', E) BY <1>2, <1>7
  <2>2. Ending(x) => Ending(x)'
    <3>1. r \in Asking(x, Gone) => m \in E /\ r.then # "none"
      <4>1. r \in Asking(x, Gone) => r.then \in Gone /\ r.id = x /\ r.then # "none"
        BY <1>1, AboutSets
      <4> QED BY <1>3, <1>7, <1>9, <1>10, <4>1 DEF Told
    <3> HIDE DEF E
    <3>2. Has(requests, Asking(x, Gone)) => Has(requests', Asking(x, Gone)) \/ Has(queue', E)
      BY <1>6, <1>7, <3>1
    <3>3. E' = E BY DEF E, Told
    <3> QED BY <2>1, <3>2, <3>3, Renamed DEF Ending, E
  <2> QED BY <1>1, <1>4, <1>10, <2>2, EndFacts DEF GoneOf
<1>11. ASSUME StopWorld, NEW x \in Started, r.then # "none", r.id = x PROVE StopOf(x)'
  <2>1. StopOf(x) BY <1>11, EndFacts
  <2>2. r \in Waited(x) /\ r.then \in Answers BY <1>1, <1>5, <1>11, AboutSets DEF Waited
  <2>3. ~Has(queue, StartM(x)) BY <1>6, <2>1, <2>2 DEF StopOf, StartOf
  <2>4. m \notin StartM(x) BY <1>3, <2>2 DEF StartM, Told, Answers
  <2>5. \A whats : m \in Told(x, whats) <=> r \in Asking(x, whats)
    BY <1>1, <1>3, <1>7, <1>11, AboutSets
  <2>6. StartOf(x)' BY <1>7, <1>11, <2>1, <2>3, <2>4, Renamed DEF StopOf, StartOf
  <2>7. OrderOf(x)'
    <3>1. ASSUME x \in Distance
          PROVE  /\ x \notin Time
                 /\ InOrder(queue', Told(x, Begins), Told(x, Ends))
                 /\ InOrder(requests', Asking(x, Begins), Asking(x, Ends))
                 /\ Has(requests', Asking(x, Begins)) => ~Has(queue', Told(x, Ends))
      <4>1. /\ x \notin Time /\ InOrder(queue, Told(x, Begins), Told(x, Ends))
            /\ InOrder(requests, Asking(x, Begins), Asking(x, Ends))
            /\ Has(requests, Asking(x, Begins)) => ~Has(queue, Told(x, Ends))
        BY <2>1, <3>1 DEF StopOf, OrderOf
      <4>2. InOrder(queue', Told(x, Begins), Told(x, Ends)) BY <1>6, <1>7, <1>11, <2>5, <4>1
      <4> QED BY <1>6, <1>7, <1>11, <2>5, <4>1, <4>2
    <3> QED BY <1>4, <3>1, Renamed DEF OrderOf
  <2>8. /\ Has(queue, StopM(x)) => Has(queue', StopM(x))
        /\ Has(queue', Told(x, Begins)) \/ Has(requests', Asking(x, Begins)) =>
              Has(queue, Told(x, Begins)) \/ Has(requests, Asking(x, Begins))
        /\ Has(queue, Told(x, Ends)) \/ Has(requests, Asking(x, Ends)) =>
              Has(queue', Told(x, Ends)) \/ Has(requests', Asking(x, Ends))
    BY <1>6, <1>7, <1>11, <2>5
  <2>9. Over(x) => Over(x)' BY <1>1, <1>4, <1>7, <1>11, <2>3, <2>4, <2>8, Renamed DEF Over
  <2> QED BY <1>1, <2>1, <2>6, <2>7, <2>8, <2>9, Renamed DEF StopOf
<1>12. ASSUME StopWorld, NEW x \in Started, r.then = "none" \/ r.id # x PROVE StopOf(x)'
  BY <1>1, <1>4, <1>8, <1>12, EndFacts, StopUntouched
<1>13. StopWorld => \A x \in Started : StopOf(x)' BY <1>11, <1>12
<1> QED BY <1>1, <1>10, <1>13, EndFacts, EachEnds

LEMMA EndEnvironment ==
    ASSUME EndInv, LocApiOpen \/ ModemCrashes \/ EngineLockChanges \/ PowerChanges
    PROVE  GoneInv' /\ StopInv'
<1>1. /\ UNCHANGED <<world, clients, owner, stopped, told, callbacks, timeBased, distanceBased,
                     pending, known>>
      /\ \/ UNCHANGED queue
         \/ \E what \in {"up", "lock", "power"}, flag \in BOOLEAN :
               queue' = Append(queue, Message(what, 0, 0, flag))
      /\ \/ requests # <<>> /\ Head(requests).do = "open" /\ requests' = Tail(requests)
         \/ UNCHANGED requests
         \/ requests' = Append(requests, Ask("open", 0, 0, "none", 0))
  BY EndFacts, EnvironmentEffect
<1>2. Time' = Time /\ Distance' = Distance BY <1>1 DEF Time, Distance
<1>3. ASSUME NEW x \in Started PROVE Alike(queue, queue', AboutM(x))
  <2>1. ASSUME NEW what \in {"up", "lock", "power"}, NEW flag \in BOOLEAN
        PROVE  Message(what, 0, 0, flag) \in SoundMessages /\ Message(what, 0, 0, flag) \notin AboutM(x)
    BY NewMessages, EndingFacts
  <2> QED BY <1>1, <2>1, EndFacts, AlikeSteps
<1>4. ASSUME NEW x \in Started PROVE Alike(requests, requests', Waited(x))
  <2> DEFINE open == Ask("open", 0, 0, "none", 0)
  <2>1. open \in SoundRequests /\ open \notin Waited(x)
    <3>1. open.then = "none" BY DEF Ask
    <3> HIDE DEF open
    <3> QED BY <3>1, EndFacts, NewRequests, EndingFacts DEF open
  <2> HIDE DEF open
  <2>2. ASSUME requests # <<>>, Head(requests).do = "open" PROVE Head(requests) \notin Waited(x)
    <3>1. Head(requests) \in SoundRequests BY <2>2, EndFacts, HeadTailProperties
    <3>2. Head(requests).then = "none" BY <2>2, <3>1 DEF SoundRequests, AnswersTo
    <3> QED BY <3>1, <3>2, EndingFacts
  <2> QED BY <1>1, <2>1, <2>2, EndFacts, AlikeSteps DEF open
<1>5. ASSUME GoneWorld, NEW x \in Started PROVE GoneOf(x)'
  <2>1. Asking(x, Gone) \in SUBSET Waited(x) /\ {m \in Told(x, Gone) : m.flag} \in SUBSET AboutM(x)
    BY AboutSets DEF AboutM, Told
  <2>2. /\ Has(requests, Asking(x, Gone)) => Has(requests', Asking(x, Gone))
        /\ Has(queue, {m \in Told(x, Gone) : m.flag}) => Has(queue', {m \in Told(x, Gone) : m.flag})
    BY <1>3, <1>4, <2>1 DEF Alike
  <2> QED BY <1>1, <1>2, <1>5, <2>2, EndFacts, GoneUntouched
<1>6. ASSUME StopWorld, NEW x \in Started PROVE StopOf(x)'
  BY <1>1, <1>2, <1>3, <1>4, <1>6, EndFacts, StopUntouched
<1> QED BY <1>1, <1>5, <1>6, EndFacts, EachEnds

(* A new session, of which there is nothing yet                              *)
LEMMA EndStarted ==
    ASSUME EndInv, TypeInv', NEW c \in Clients, NEW i \in Asked, NEW far \in BOOLEAN,
           startTracking(c, i, far)
    PROVE  GoneInv' /\ StopInv'
<1>1. UNCHANGED <<world, stopped, commands>> BY EndFacts, StartTrackingEffect
<1>2. PICK id \in Ids : Generates(id, c) /\ Command("start", id, i, far)
  BY EndFacts, StartTrackingEffect
<1> PICK m : m = Message("start", id, i, far)
  OBVIOUS
<1>3. /\ queue' = Append(queue, m) /\ m \in Messages
      /\ UNCHANGED <<world, clients, told, callbacks, timeBased, distanceBased, pending, known, requests>>
  BY <1>2, EndFacts, CommandEffect DEF Commands
<1>4. m.what = "start" /\ m.id = id BY DEF Message
<1>5. /\ Started' = Started \cup {id} /\ id \notin Started /\ owner'[id] = c /\ c \in clients
      /\ \A x \in Ids \ {id} : owner'[x] = owner[x]
  BY <1>2, <1>3, EndFacts, SetsGrow DEF Generates
<1>6. queue \in Seq(Messages)
  <2>1. \A k \in DOMAIN queue : queue[k] \in Messages
    BY EndFacts, EndingFacts, ElementOfSeq, LenProperties
  <2> QED BY <2>1, EndFacts, LenProperties, IsASeq
<1>7. Time' = Time /\ Distance' = Distance BY <1>3 DEF Time, Distance
<1>8. ASSUME NEW x \in Started PROVE Alike(queue, queue', AboutM(x)) /\ Alike(requests, requests', Waited(x))
  <2>1. m \notin AboutM(x) BY <1>4, <1>5, <1>8 DEF AboutM, Told
  <2> QED BY <1>3, <1>6, <2>1, EndFacts, AlikeSteps
<1>9. /\ ~Has(queue, AboutM(id)) /\ ~Has(requests, Waited(id))
      /\ id \notin Time \cup Distance /\ id \notin stopped
  <2>1. \A e \in SoundMessages : e \notin AboutM(id) BY <1>5 DEF SoundMessages, AboutM, Told
  <2>2. \A e \in SoundRequests : e \notin Waited(id)
    BY <1>5 DEF SoundRequests, Waited, Asking, Answers
  <2>3. /\ \A k \in DOMAIN queue : queue[k] \in SoundMessages
        /\ \A k \in DOMAIN requests : requests[k] \in SoundRequests
    BY EndFacts, ElementOfSeq, LenProperties
  <2>4. id \notin Time \cup Distance /\ id \notin stopped BY <1>5, EndFacts DEF TypeInv, TypeOK
  <2> QED BY <2>1, <2>2, <2>3, <2>4 DEF Has
<1>10. ASSUME GoneWorld, NEW x \in Started PROVE GoneOf(x)'
  <2>1. Asking(x, Gone) \in SUBSET Waited(x) /\ {e \in Told(x, Gone) : e.flag} \in SUBSET AboutM(x)
    BY AboutSets DEF AboutM, Told
  <2>2. /\ Has(requests, Asking(x, Gone)) => Has(requests', Asking(x, Gone))
        /\ Has(queue, {e \in Told(x, Gone) : e.flag}) => Has(queue', {e \in Told(x, Gone) : e.flag})
    BY <1>8, <2>1 DEF Alike
  <2>3. x \in Ids \ {id} BY <1>5, EndFacts
  <2> QED BY <1>3, <1>5, <1>7, <1>10, <2>2, <2>3, EndFacts, GoneUntouched
<1>11. GoneOf(id)'
  <2>1. c \in callbacks BY <1>5, EndFacts DEF ClientsInv
  <2> QED BY <1>3, <1>5, <2>1 DEF GoneOf
<1>12. ASSUME StopWorld, NEW x \in Started PROVE StopOf(x)'
  <2>1. owner'[x] = owner[x] BY <1>5, EndFacts
  <2> QED BY <1>1, <1>3, <1>7, <1>8, <1>12, <2>1, EndFacts, StopUntouched
<1>13. StopOf(id)'
  <2>1. ~Has(queue, Told(id, Answers)) BY <1>9 DEF Has, AboutM, Told
  <2>2. InOrder(queue, StartM(id), AboutM(id)) BY <1>9 DEF InOrder, Has
  <2>3. InOrder(queue', StartM(id), AboutM(id)) BY <1>3, <1>6, <1>9, <2>2, InAppended
  <2>4. ~Has(queue', Told(id, Answers))
    <3>1. m \notin Told(id, Answers) BY <1>4 DEF Told, Answers
    <3> QED BY <1>3, <1>6, <2>1, <3>1, InAppended
  <2> QED BY <1>1, <1>3, <1>7, <1>9, <2>3, <2>4, Renamed DEF StopOf, StartOf, OrderOf
<1>14. (GoneWorld' <=> GoneWorld) /\ (StopWorld' <=> StopWorld) BY <1>1, NoUpdates
<1>15. StopWorld => known' /\ pending' = <<>> BY <1>3, EndFacts
<1> QED BY <1>5, <1>10, <1>11, <1>12, <1>13, <1>14, <1>15 DEF GoneInv, StopInv, GoneWorld, StopWorld

(* The client stops a session.                                               *)
LEMMA EndStopped ==
    ASSUME EndInv, NEW id \in Ids, stopTracking(id)
    PROVE  GoneInv' /\ StopInv'
<1> PICK m : m = Message("stop", id, 0, FALSE)
  OBVIOUS
<1>1. /\ owner[id] \in clients /\ stopped' = stopped \cup {id} /\ UNCHANGED owner
      /\ Command("stop", id, 0, FALSE)
  BY DEF stopTracking
<1>2. /\ queue' = Append(queue, m) /\ m \in Messages
      /\ UNCHANGED <<world, clients, told, callbacks, timeBased, distanceBased, pending, known, requests>>
  BY <1>1, EndFacts, CommandEffect DEF Commands
<1>3. m.what = "stop" /\ m.id = id BY DEF Message
<1>4. queue \in Seq(Messages)
  <2>1. \A k \in DOMAIN queue : queue[k] \in Messages
    BY EndFacts, EndingFacts, ElementOfSeq, LenProperties
  <2> QED BY <2>1, EndFacts, LenProperties, IsASeq
<1>5. Time' = Time /\ Distance' = Distance BY <1>2 DEF Time, Distance
<1>6. ASSUME GoneWorld, NEW x \in Started PROVE GoneOf(x)'
  <2>1. \A A : Has(queue, A) => Has(queue', A)
    <3>1. \A e \in Messages : \A A : Has(queue, A) => Has(Append(queue, e), A)
      BY <1>4, InAppended
    <3> QED BY <1>2, <3>1
  <2> QED BY <1>1, <1>2, <1>5, <1>6, <2>1, EndFacts, GoneUntouched
<1>7. ASSUME StopWorld, NEW x \in Started, x # id PROVE StopOf(x)'
  <2>1. m \notin AboutM(x) BY <1>3, <1>7 DEF AboutM, Told
  <2>2. Alike(queue, queue', AboutM(x)) /\ Alike(requests, requests', Waited(x))
    BY <1>2, <1>4, <2>1, EndFacts, AlikeSteps
  <2> QED BY <1>1, <1>2, <1>5, <1>7, <2>2, EndFacts, StopUntouched
<1>8. ASSUME StopWorld, id \in Started PROVE StopOf(id)'
  <2>1. StopOf(id) BY <1>8, EndFacts
  <2>2. /\ \A whats : m \in Told(id, whats) <=> "stop" \in whats
        /\ m \notin StartM(id) /\ m \in StopM(id)
    <3>1. \A whats : m \in Told(id, whats) <=> "stop" \in whats BY <1>2, <1>3 DEF Told
    <3>2. StartM(id) = Told(id, {"start"}) /\ StopM(id) = Told(id, {"stop"})
      BY DEF StartM, StopM
    <3>3. "stop" \notin {"start"} /\ "stop" \in {"stop"}  OBVIOUS
    <3> QED BY <3>1, <3>2, <3>3, Zenon
  <2>3. /\ \A A : Has(queue', A) <=> Has(queue, A) \/ m \in A
        /\ \A A, B : InOrder(queue, A, B) /\ m \notin A => InOrder(queue', A, B)
    <3>1. \A e \in Messages :
             /\ \A A : Has(Append(queue, e), A) <=> Has(queue, A) \/ e \in A
             /\ \A A, B : InOrder(queue, A, B) /\ e \notin A => InOrder(Append(queue, e), A, B)
      BY <1>4, InAppended
    <3> QED BY <1>2, <3>1
  <2>4. "stop" \notin Answers /\ "stop" \notin Begins /\ "stop" \notin Ends
    BY DEF Answers, Begins, Ends
  <2>5. StartOf(id)' BY <1>2, <1>5, <2>1, <2>2, <2>3, <2>4, Renamed DEF StopOf, StartOf
  <2>6. OrderOf(id)' BY <1>2, <1>5, <2>1, <2>2, <2>3, <2>4, Renamed DEF StopOf, OrderOf
  <2> QED BY <2>2, <2>3, <2>5, <2>6, Renamed DEF StopOf
<1>9. StopWorld => \A x \in Started : StopOf(x)' BY <1>7, <1>8
<1> QED BY <1>1, <1>2, <1>6, <1>9, EndFacts, EachEnds

(* The sessions of a client that is destroyed are nobody's any more.         *)
LEMMA EndDestroy ==
    ASSUME EndInv, NEW c \in Clients, destroy(c)
    PROVE  GoneInv' /\ StopInv'
<1> PICK m : m = [what |-> "remove", client |-> c]
  OBVIOUS
<1>1. /\ queue' = Append(queue, m) /\ clients' = clients \ {c}
      /\ stopped' = stopped \cup {id \in Ids : owner[id] = c}
      /\ UNCHANGED <<world, owner, told, callbacks, timeBased, distanceBased, pending, known, requests>>
  BY DEF destroy, answers, sessions
<1>2. m \in SoundMessages /\ \A x : m \notin AboutM(x)
  <2>1. m \in SoundMessages /\ m.what = "remove" BY NewMessages
  <2> QED BY <2>1, EndingFacts
<1>3. Time' = Time /\ Distance' = Distance BY <1>1 DEF Time, Distance
<1>4. ASSUME GoneWorld, NEW x \in Started PROVE GoneOf(x)'
  <2>1. \A A : Has(queue, A) => Has(queue', A) BY <1>1, <1>2, EndFacts, InAppended
  <2> QED BY <1>1, <1>3, <1>4, <2>1, EndFacts, GoneUntouched
<1>5. ASSUME StopWorld, NEW x \in Started PROVE StopOf(x)'
  <2>1. Alike(queue, queue', AboutM(x)) /\ Alike(requests, requests', Waited(x))
    BY <1>1, <1>2, EndFacts, AlikeSteps
  <2> QED BY <1>1, <1>3, <1>5, <2>1, EndFacts, StopUntouched
<1> QED BY <1>1, <1>4, <1>5, EndFacts, EachEnds

-----------------------------------------------------------------------------

LEMMA InitEnds == Init => EndInv
<1> SUFFICES ASSUME Init PROVE EndInv
  OBVIOUS
<1>1. AnswerInv /\ queue = <<>> /\ Started = {} BY InitAnswers DEF Init, Started
<1>2. StopWorld => known /\ pending = <<>> BY DEF Init, StopWorld, Exposed
<1> QED BY <1>1, <1>2 DEF EndInv, GoneInv, StopInv, StopWorld

(* With updates the two invariants say nothing.                              *)
LEMMA UpdatesEnd ==
    ASSUME Exposed({"updates"}), UNCHANGED world
    PROVE  GoneInv' /\ StopInv'
<1>1. Exposed({"updates"})' BY NoUpdates
<1> QED BY <1>1 DEF GoneInv, StopInv, Exposed

LEMMA SameWorld == ASSUME [Next]_vars PROVE UNCHANGED world
BY DEF Next, vars, Client, Adapter, LocApi, startTracking, updateTrackingOptions, stopTracking,
  destroy, Command, Handled, Answered, Event, ProcPostponed, ProcStart, ProcUpdate, ProcStop,
  ProcRemoveSession, ProcRemoveClient, ProcStarted, ProcUpdated, ProcStopped,
  ProcDistanceStopped, ProcGoneStopped, ProcToTime, ProcRestart, ProcRestarted, ProcEngineUp,
  handleEngineLockStatus, updateSystemPowerState, LocApiRequest, LocApiOpen, ModemCrashes,
  EngineLockChanges, PowerChanges

LEMMA NextEnds == ASSUME EndInv, [Next]_vars PROVE EndInv'
<1>1. AnswerInv' BY NextAnswers DEF EndInv
<1>2. TypeInv' /\ UNCHANGED world BY <1>1, SameWorld DEF AnswerInv
<1>3. CASE Client
  <2>1. ASSUME NEW c \in Clients, NEW i \in Asked, NEW far \in BOOLEAN, startTracking(c, i, far)
        PROVE  GoneInv' /\ StopInv'
    BY <1>2, <2>1, EndStarted
  <2>2. ASSUME NEW id \in Ids, NEW i \in Asked, NEW far \in BOOLEAN, updateTrackingOptions(id, i, far)
        PROVE  GoneInv' /\ StopInv'
    BY <1>2, <2>2, UpdatesEnd DEF updateTrackingOptions, Exposed
  <2>3. ASSUME NEW id \in Ids, stopTracking(id) PROVE GoneInv' /\ StopInv' BY <2>3, EndStopped
  <2>4. ASSUME NEW c \in Clients, destroy(c) PROVE GoneInv' /\ StopInv' BY <2>4, EndDestroy
  <2> QED BY <1>1, <1>3, <2>1, <2>2, <2>3, <2>4 DEF Client, EndInv
<1>4. CASE Adapter
  <2>1. CASE Exposed({"updates"}) BY <1>1, <1>2, <2>1, UpdatesEnd DEF EndInv
  <2>2. CASE ~Exposed({"updates"})
    <3>1. ~ProcUpdate /\ ~ProcToTime /\ ~ProcRestart
      BY <2>2, EndFacts, UpdateEffect, ToTimeEffect, RestartAnswerEffect
    <3>2. CASE ProcPostponed \/ ProcStart \/ ProcStop
      BY <1>1, <1>2, <3>2, EndPostponed, EndStart, EndStop DEF EndInv
    <3>3. CASE ProcRemoveSession \/ ProcRemoveClient
      BY <1>1, <3>3, EndRemoveSession, EndRemoveClient DEF EndInv
    <3>4. CASE ProcStarted \/ ProcUpdated \/ ProcStopped \/ ProcDistanceStopped
                  \/ ProcGoneStopped \/ ProcRestarted
      BY <1>1, <1>2, <2>2, <3>4, EndAnswers DEF EndInv
    <3>5. CASE ProcEngineUp \/ handleEngineLockStatus \/ updateSystemPowerState
      BY <1>1, <3>5, EndEvents DEF EndInv
    <3> QED BY <1>4, <3>1, <3>2, <3>3, <3>4, <3>5 DEF Adapter
  <2> QED BY <2>1, <2>2
<1>5. CASE LocApi \/ ModemCrashes \/ EngineLockChanges \/ PowerChanges
  BY <1>1, <1>5, EndRequest, EndEnvironment DEF LocApi, EndInv
<1>6. CASE UNCHANGED vars
  <2>1. UNCHANGED <<world, clients, owner, stopped, told, queue, callbacks, timeBased, distanceBased,
                    pending, known, requests>>
    BY <1>6 DEF vars, users, answers, sessions
  <2>2. GoneInv' /\ StopInv'
    BY <2>1 DEF EndInv, GoneInv, StopInv, GoneOf, Ending, StopOf, StartOf, OrderOf, Over, Has,
      InOrder, Told, Asking, StartM, StopM, AboutM, Waited, Started, Time, Distance, Exposed
  <2> QED BY <1>1, <2>2 DEF EndInv
<1> QED BY <1>3, <1>4, <1>5, <1>6 DEF Next

LEMMA EndsAlways == Spec => []EndInv
<1>1. Init => EndInv BY InitEnds
<1>2. EndInv /\ [Next]_vars => EndInv' BY NextEnds
<1> QED BY <1>1, <1>2, PTL DEF Spec

(* A session whose stop was answered with success does not come back, and at *)
(* rest no session is left of a client that was destroyed, in the worlds     *)
(* that StoppedStays and GoneStays name (stopTracking, removeClientCommand   *)
(* and the callbacks of the LocApiResponses).                                *)
THEOREM EndedStaysAlways == Spec => []EndedStays
<1>1. ASSUME EndInv PROVE EndedStays
  <2>1. StoppedStays
    <3>1. ASSUME queue = <<>>, requests = <<>>, StopWorld,
                 NEW id \in stopped, owner[id] \in clients, told[id]
          PROVE  id \notin Time \cup Distance
      <4>1. StopOf(id) BY <1>1, <3>1, EndFacts DEF TypeOK
      <4>2. \A A : ~Has(queue, A) /\ ~Has(requests, A) BY <3>1, InEmpty
      <4> QED BY <3>1, <4>1, <4>2 DEF StopOf, Over
    <3> QED BY <3>1 DEF StoppedStays, Quiet, StopWorld
  <2>2. GoneStays
    <3>1. ASSUME queue = <<>>, requests = <<>>, GoneWorld, NEW id \in Time \cup Distance
          PROVE  owner[id] \in clients
      <4>1. id \in Started /\ owner[id] \in Clients /\ GoneOf(id)
        BY <1>1, <3>1, EndFacts DEF TypeInv, TypeOK, Started
      <4>2. \A A : ~Has(queue, A) /\ ~Has(requests, A) BY <3>1, InEmpty
      <4>3. owner[id] \in callbacks BY <3>1, <4>1, <4>2 DEF GoneOf, Ending
      <4>4. ~Leaving(owner[id]) BY <3>1 DEF Leaving
      <4> QED BY <1>1, <4>1, <4>3, <4>4, EndFacts DEF ClientsInv
    <3> QED BY <3>1 DEF GoneStays, Quiet, GoneWorld
  <2> QED BY <2>1, <2>2 DEF EndedStays
<1> QED BY <1>1, EndsAlways, PTL
=============================================================================
