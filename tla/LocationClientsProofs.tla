------------------------ MODULE LocationClientsProofs ------------------------
(* The adapters, LocApi and the modem know of the clients of LocationAPI     *)
(* what they gave (MaskServes), and the objects live as ClientLife says, for *)
(* all sets of clients and callbacks, worlds and numbers of calls.  Both     *)
(* rest on what the messages that are queued will make of the adapters.      *)
EXTENDS LocationClients, SequenceTheorems, TLAPS

IsSeq(s) == s \in Seq({s[k] : k \in DOMAIN s})

-----------------------------------------------------------------------------
(* Messages                                                                  *)

IsAdd(m) == \E a \in Adapters, c \in Clients, callbacks \in SUBSET Callbacks :
    m = Add(a, c, callbacks)
IsRemove(m) == \E a \in Adapters, c \in Clients, cb \in BOOLEAN : m = Remove(a, c, cb)
IsNote(m) ==
    /\ m.type \in {"capabilities", "engine up", "lock state", "agps"}
    /\ m.adapter \in Adapters
    /\ m.type = "agps" => m.adapter = "gnss"

Messages(q) == IsSeq(q) /\ \A i \in DOMAIN q : IsAdd(q[i]) \/ IsRemove(q[i]) \/ IsNote(q[i])
Notes(q) == IsSeq(q) /\ \A i \in DOMAIN q : IsNote(q[i]) /\ q[i].type # "agps"

(* Message m changes what adapter a knows of client c, to Word(m); the last  *)
(* one that does is the one by which it lets go of the object.               *)
Moves(m, a, c) == m.type \in {"add", "remove"} /\ m.adapter = a /\ m.client = c
Word(m) == IF m.type = "add" THEN m.callbacks ELSE None
Completes(m) == m.type = "remove" /\ m.complete = TRUE

Silent(q, a, c) == \A i \in DOMAIN q : ~Moves(q[i], a, c)
LetsGo(q, a, c) == \E i \in DOMAIN q : Completes(q[i]) /\ Moves(q[i], a, c)
Held(q, a, c) == \E i \in DOMAIN q : (q[i].type = "add" \/ Completes(q[i])) /\ Moves(q[i], a, c)
LastWord(q) == \A a \in Adapters, c \in Clients : \A i, j \in DOMAIN q :
    i < j /\ Completes(q[i]) /\ Moves(q[i], a, c) => ~Moves(q[j], a, c)
Pending(q, a) == \E i \in DOMAIN q : q[i].type \in {"add", "remove"} /\ q[i].adapter = a

(* The callbacks of adapter a among those that were given                    *)
Part(a, given) == IF given = None THEN {} ELSE {cb \in given : AdapterOf[cb] = a}

(* What a knows of c, now, and once q is worked off, fits what c has given.  *)
Fits(q, a, c, now, given) ==
    /\ Silent(q, a, c) => Part(a, now) = Part(a, given)
    /\ \A i \in DOMAIN q :
        Moves(q[i], a, c) /\ (\A j \in DOMAIN q : j > i => ~Moves(q[j], a, c))
        => Part(a, Word(q[i])) = Part(a, given)

-----------------------------------------------------------------------------
(* The invariant                                                             *)

Requests(q) ==
    /\ IsSeq(q)
    /\ \A i \in DOMAIN q :
        q[i].type = "restart" \/ \E a \in Adapters \cup {None} : q[i] = Open(a)

Shape ==
    /\ Messages(queue)
    /\ \A a \in Adapters : Notes(mPendingMsgs[a])
    /\ mPendingMsgs = [a \in Adapters |-> mPendingMsgs[a]]
    /\ mEvtMask = [a \in Adapters |-> mEvtMask[a]]
    /\ loaded \in Seq(Adapters)
    /\ Requests(apiQueue)

DataInv == \A a \in Adapters, c \in Clients :
    Fits(queue, a, c, mClientData[a][c], clientData[c])

Known(q, a, c) == mClientData[a][c] # None \/ ~Silent(q, a, c)

(* Only adapters that are loaded know an object, and none before it is       *)
(* created or when it is gone; while it waits, whoever knows it has yet to   *)
(* let go of it, and is waited for.                                          *)
LifeOf(c) ==
    /\ \A a \in Adapters : Known(queue, a, c) => a \in Loaded
    /\ life[c] = "free" => \A a \in Adapters : ~Known(queue, a, c)
    /\ life[c] = "live" =>
        /\ Loaded # {} /\ Kinds(clientData[c]) \subseteq Loaded
        /\ \A a \in Adapters : ~LetsGo(queue, a, c)
    /\ life[c] \in {"leaving", "left"} =>
        \A a \in Adapters : Known(queue, a, c) => LetsGo(queue, a, c)
    /\ life[c] = "leaving" =>
        \A a \in Adapters : LetsGo(queue, a, c) <=> a \in waitMask[c]

LifeInv == LastWord(queue) /\ \A c \in Clients : LifeOf(c)

Coming(q, t) == \E i \in DOMAIN q : q[i].type = t /\ q[i].adapter = "gnss"
Opening(q) == \E i \in DOMAIN q : q[i] = Open("gnss") \/ q[i].type = "restart"

MaskInv ==
    /\ \A a \in Loaded : Pending(queue, a) \/ mEvtMask[a] = EventMask(a, mClientData[a])
    /\ apiQueue = <<>> => modem.events = getEvtMask
    /\ "nmea" \in features => "modemNmea" \in world
    /\ "modemNmea" \in world /\ "gnss" \in Loaded =>
        "nmea" \in features \/ Coming(queue, "engine up") \/ Opening(apiQueue)
    /\ "agps" \in features \/ Coming(queue, "agps") => "gnss" \in Loaded

IInv == TypeOK /\ Shape /\ DataInv /\ LifeInv /\ MaskInv

-----------------------------------------------------------------------------
(* Sequences                                                                 *)

(* A sequence is one of its own elements.                                    *)
LEMMA SeqOfItsElements ==
    ASSUME NEW S, NEW s \in Seq(S)
    PROVE  /\ IsSeq(s)
           /\ Len(s) \in Nat /\ DOMAIN s = 1..Len(s)
           /\ s # <<>> => Len(s) >= 1
<1> DEFINE E == {s[k] : k \in DOMAIN s}
<1>1. Len(s) \in Nat /\ DOMAIN s = 1..Len(s) /\ s \in [1..Len(s) -> S] BY LenProperties
<1>2. s # <<>> => Len(s) >= 1 BY <1>1, EmptySeq
<1>3. s \in [1..Len(s) -> E] BY <1>1
<1> HIDE DEF E
<1>4. s \in Seq(E) BY <1>1, <1>3
<1> QED BY <1>1, <1>2, <1>4 DEF IsSeq, E

(* The empty sequence is one.                                                *)
LEMMA NoElements == IsSeq(<<>>) /\ DOMAIN <<>> = {}
<1>1. <<>> \in Seq({})  OBVIOUS
<1>2. IsSeq(<<>>) BY <1>1, SeqOfItsElements
<1> QED BY <1>2

(* What is added is last, behind all that was there;                         *)
LEMMA Added ==
    ASSUME NEW q, IsSeq(q), NEW msg
    PROVE  /\ IsSeq(Append(q, msg))
           /\ Len(q) \in Nat /\ DOMAIN q = 1..Len(q)
           /\ DOMAIN Append(q, msg) = 1..(Len(q) + 1)
           /\ \A k \in DOMAIN q : Append(q, msg)[k] = q[k]
           /\ Append(q, msg)[Len(q) + 1] = msg
<1> DEFINE E == {q[k] : k \in DOMAIN q}
           S == E \cup {msg}
<1>1. q \in Seq(E) BY DEF IsSeq
<1>2. Len(q) \in Nat /\ DOMAIN q = 1..Len(q) /\ q \in [1..Len(q) -> E] BY <1>1, LenProperties
<1> HIDE DEF E
<1>3. q \in [1..Len(q) -> S] BY <1>2
<1>4. q \in Seq(S) /\ msg \in S BY <1>2, <1>3
<1> HIDE DEF S
<1>5. /\ Append(q, msg) \in Seq(S)
      /\ Len(Append(q, msg)) = Len(q) + 1
      /\ \A k \in 1..Len(q) : Append(q, msg)[k] = q[k]
      /\ Append(q, msg)[Len(q) + 1] = msg
  BY <1>4, AppendProperties
<1>6. IsSeq(Append(q, msg)) /\ DOMAIN Append(q, msg) = 1..Len(Append(q, msg))
  BY <1>5, SeqOfItsElements
<1> QED BY <1>2, <1>5, <1>6

(* what is left when the first is taken has all others;                      *)
LEMMA Removed ==
    ASSUME NEW q, IsSeq(q), q # <<>>
    PROVE  /\ IsSeq(Tail(q))
           /\ Len(q) \in Nat \ {0} /\ DOMAIN q = 1..Len(q)
           /\ DOMAIN Tail(q) = 1..(Len(q) - 1)
           /\ \A k \in DOMAIN Tail(q) : Tail(q)[k] = q[k + 1]
           /\ Head(q) = q[1]
<1> DEFINE S == {q[k] : k \in DOMAIN q}
<1>1. q \in Seq(S) BY DEF IsSeq
<1> HIDE DEF S
<1>2. Len(q) \in Nat /\ DOMAIN q = 1..Len(q) /\ Len(q) >= 1 BY <1>1, SeqOfItsElements
<1>3. /\ Tail(q) \in Seq(S) /\ Len(Tail(q)) = Len(q) - 1
      /\ \A k \in 1..Len(Tail(q)) : Tail(q)[k] = q[k + 1]
  BY <1>1, HeadTailProperties
<1>4. IsSeq(Tail(q)) /\ DOMAIN Tail(q) = 1..Len(Tail(q)) BY <1>3, SeqOfItsElements
<1>5. Head(q) = q[1] BY <1>1
<1> QED BY <1>2, <1>3, <1>4, <1>5

(* and one sequence behind another has those of both.                        *)
LEMMA Joined ==
    ASSUME NEW s, IsSeq(s), NEW t, IsSeq(t), NEW r, r = s \o t
    PROVE  /\ IsSeq(r)
           /\ Len(s) \in Nat /\ DOMAIN s = 1..Len(s)
           /\ Len(t) \in Nat /\ DOMAIN t = 1..Len(t)
           /\ DOMAIN r = 1..(Len(s) + Len(t))
           /\ \A k \in DOMAIN s : r[k] = s[k]
           /\ \A k \in DOMAIN t : r[Len(s) + k] = t[k]
<1> DEFINE A == {s[k] : k \in DOMAIN s}
           B == {t[k] : k \in DOMAIN t}
           S == A \cup B
<1>1. s \in Seq(A) /\ t \in Seq(B) BY DEF IsSeq
<1> HIDE DEF A, B
<1>2. /\ Len(s) \in Nat /\ DOMAIN s = 1..Len(s) /\ s \in [1..Len(s) -> A]
      /\ Len(t) \in Nat /\ DOMAIN t = 1..Len(t) /\ t \in [1..Len(t) -> B]
  BY <1>1, LenProperties
<1>3. s \in [1..Len(s) -> S] /\ t \in [1..Len(t) -> S] BY <1>2
<1> HIDE DEF S
<1>4. s \in Seq(S) /\ t \in Seq(S) BY <1>2, <1>3
<1>5. /\ r \in Seq(S)
      /\ Len(r) = Len(s) + Len(t)
      /\ \A k \in 1..(Len(s) + Len(t)) :
            r[k] = IF k <= Len(s) THEN s[k] ELSE t[k - Len(s)]
  BY <1>4, ConcatProperties
<1>6. IsSeq(r) /\ DOMAIN r = 1..Len(r) BY <1>5, SeqOfItsElements
<1>7. \A k \in DOMAIN s : r[k] = s[k] BY <1>2, <1>5
<1>8. ASSUME NEW k \in DOMAIN t PROVE r[Len(s) + k] = t[k]
  <2>1. /\ Len(s) + k \in 1..(Len(s) + Len(t)) /\ ~(Len(s) + k <= Len(s))
        /\ (Len(s) + k) - Len(s) = k
    BY <1>2
  <2> QED BY <1>5, <2>1
<1> QED BY <1>2, <1>5, <1>6, <1>7, <1>8

-----------------------------------------------------------------------------
(* Queues                                                                    *)

(* Messages that come behind others add to what those do;                    *)
LEMMA JoinedMessages ==
    ASSUME NEW q, Messages(q), NEW r, Messages(r), NEW s, s = q \o r
    PROVE  /\ Messages(s)
           /\ \A a, c : Silent(s, a, c) <=> Silent(q, a, c) /\ Silent(r, a, c)
           /\ \A a, c : LetsGo(s, a, c) <=> LetsGo(q, a, c) \/ LetsGo(r, a, c)
           /\ \A a, c : Held(s, a, c) <=> Held(q, a, c) \/ Held(r, a, c)
           /\ \A a : Pending(s, a) <=> Pending(q, a) \/ Pending(r, a)
           /\ \A t : Coming(s, t) <=> Coming(q, t) \/ Coming(r, t)
<1> DEFINE n == Len(q)
           m == Len(r)
<1>0. IsSeq(q) /\ IsSeq(r) BY DEF Messages
<1>1. /\ IsSeq(s)
      /\ n \in Nat /\ DOMAIN q = 1..n /\ m \in Nat /\ DOMAIN r = 1..m
      /\ DOMAIN s = 1..(n + m)
      /\ \A k \in DOMAIN q : s[k] = q[k]
      /\ \A k \in DOMAIN r : s[n + k] = r[k]
  <2>1. IsSeq(s) /\ n \in Nat /\ DOMAIN q = 1..n /\ m \in Nat /\ DOMAIN r = 1..m
    BY <1>0, Joined
  <2>2. DOMAIN s = 1..(n + m) BY <1>0, Joined
  <2>3. \A k \in DOMAIN q : s[k] = q[k] BY <1>0, Joined
  <2>4. \A k \in DOMAIN r : s[n + k] = r[k] BY <1>0, Joined
  <2> HIDE DEF n, m
  <2> QED BY <2>1, <2>2, <2>3, <2>4
<1> HIDE DEF n, m
<1>2. \A k \in DOMAIN q : k \in DOMAIN s BY <1>1
<1>3. \A k \in DOMAIN r : n + k \in DOMAIN s BY <1>1
<1>4. \A k \in DOMAIN s :
         \/ k \in DOMAIN q /\ s[k] = q[k]
         \/ \E j \in DOMAIN r : k = n + j /\ s[k] = r[j]
  <2> SUFFICES ASSUME NEW k \in DOMAIN s, k \notin DOMAIN q
               PROVE  \E j \in DOMAIN r : k = n + j /\ s[k] = r[j]
    BY <1>1
  <2>1. k - n \in DOMAIN r /\ k = n + (k - n) BY <1>1
  <2> QED BY <1>1, <2>1
<1>5. Messages(s)
  <2>1. \A i \in DOMAIN s : IsAdd(s[i]) \/ IsRemove(s[i]) \/ IsNote(s[i])
    BY <1>4, Zenon DEF Messages
  <2> QED BY <1>1, <2>1 DEF Messages
<1>6. ASSUME NEW a, NEW c PROVE Silent(s, a, c) <=> Silent(q, a, c) /\ Silent(r, a, c)
  BY <1>1, <1>2, <1>3, <1>4, Zenon DEF Silent
<1>7. ASSUME NEW a, NEW c PROVE LetsGo(s, a, c) <=> LetsGo(q, a, c) \/ LetsGo(r, a, c)
  BY <1>1, <1>2, <1>3, <1>4, Zenon DEF LetsGo
<1>8. ASSUME NEW a PROVE Pending(s, a) <=> Pending(q, a) \/ Pending(r, a)
  <2>1. ASSUME Pending(q, a) \/ Pending(r, a) PROVE Pending(s, a)
    BY <1>1, <1>2, <1>3, <2>1, Zenon DEF Pending
  <2>2. ASSUME Pending(s, a) PROVE Pending(q, a) \/ Pending(r, a)
    BY <1>4, <2>2, Zenon DEF Pending
  <2> QED BY <2>1, <2>2
<1>9. ASSUME NEW t PROVE Coming(s, t) <=> Coming(q, t) \/ Coming(r, t)
  <2>1. ASSUME Coming(q, t) \/ Coming(r, t) PROVE Coming(s, t)
    BY <1>1, <1>2, <1>3, <2>1, Zenon DEF Coming
  <2>2. ASSUME Coming(s, t) PROVE Coming(q, t) \/ Coming(r, t) BY <1>4, <2>2, Zenon DEF Coming
  <2> QED BY <2>1, <2>2
<1>10. ASSUME NEW a, NEW c PROVE Held(s, a, c) <=> Held(q, a, c) \/ Held(r, a, c)
  <2>1. ASSUME Held(q, a, c) PROVE Held(s, a, c) BY <1>1, <1>2, <2>1, Zenon DEF Held
  <2>2. ASSUME Held(r, a, c) PROVE Held(s, a, c) BY <1>1, <1>3, <2>2, Zenon DEF Held
  <2>3. ASSUME Held(s, a, c) PROVE Held(q, a, c) \/ Held(r, a, c)
    <3>1. PICK k \in DOMAIN s : (s[k].type = "add" \/ Completes(s[k])) /\ Moves(s[k], a, c)
      BY <2>3 DEF Held
    <3> QED BY <1>4, <3>1, Zenon DEF Held
  <2> QED BY <2>1, <2>2, <2>3
<1> QED BY <1>5, <1>6, <1>7, <1>8, <1>9, <1>10

(* the last of them decides what an adapter will know,                       *)
LEMMA JoinedFits ==
    ASSUME NEW q, Messages(q), NEW r, Messages(r), NEW s, s = q \o r,
           NEW a, NEW c, NEW now, NEW given,
           \/ Silent(r, a, c) /\ Fits(q, a, c, now, given)
           \/ /\ ~Silent(r, a, c)
              /\ \A k \in DOMAIN r : Moves(r[k], a, c) => Part(a, Word(r[k])) = Part(a, given)
    PROVE  Fits(s, a, c, now, given)
<1> DEFINE n == Len(q)
           m == Len(r)
<1>0. IsSeq(q) /\ IsSeq(r) BY DEF Messages
<1>1. /\ IsSeq(s)
      /\ n \in Nat /\ DOMAIN q = 1..n /\ m \in Nat /\ DOMAIN r = 1..m
      /\ DOMAIN s = 1..(n + m)
      /\ \A k \in DOMAIN q : s[k] = q[k]
      /\ \A k \in DOMAIN r : s[n + k] = r[k]
  <2>1. IsSeq(s) /\ n \in Nat /\ DOMAIN q = 1..n /\ m \in Nat /\ DOMAIN r = 1..m
    BY <1>0, Joined
  <2>2. DOMAIN s = 1..(n + m) BY <1>0, Joined
  <2>3. \A k \in DOMAIN q : s[k] = q[k] BY <1>0, Joined
  <2>4. \A k \in DOMAIN r : s[n + k] = r[k] BY <1>0, Joined
  <2> HIDE DEF n, m
  <2> QED BY <2>1, <2>2, <2>3, <2>4
<1> HIDE DEF n, m
<1>2. Silent(s, a, c) <=> Silent(q, a, c) /\ Silent(r, a, c) BY JoinedMessages
<1>3. \A k \in DOMAIN r : n + k \in DOMAIN s /\ \A i \in DOMAIN q : n + k > i BY <1>1
<1>4. \A i \in DOMAIN s : i \in DOMAIN q \/ \E k \in DOMAIN r : i = n + k /\ s[i] = r[k]
  <2> SUFFICES ASSUME NEW k \in DOMAIN s, k \notin DOMAIN q
               PROVE  \E j \in DOMAIN r : k = n + j /\ s[k] = r[j]
    OBVIOUS
  <2>1. k - n \in DOMAIN r /\ k = n + (k - n) BY <1>1
  <2> QED BY <1>1, <2>1
<1>5. \A i \in DOMAIN q : i \in DOMAIN s /\ s[i] = q[i] BY <1>1
<1>6. CASE Silent(r, a, c)
  <2>1. Fits(q, a, c, now, given) BY <1>6
  <2>2. Silent(s, a, c) => Part(a, now) = Part(a, given) BY <1>2, <2>1 DEF Fits
  <2>3. ASSUME NEW i \in DOMAIN s, Moves(s[i], a, c),
               \A j \in DOMAIN s : j > i => ~Moves(s[j], a, c)
        PROVE  Part(a, Word(s[i])) = Part(a, given)
    <3>1. i \in DOMAIN q /\ s[i] = q[i] BY <1>4, <1>5, <1>6, <2>3, Zenon DEF Silent
    <3>2. \A j \in DOMAIN q : j > i => ~Moves(q[j], a, c) BY <1>5, <2>3, Zenon
    <3> QED BY <2>1, <2>3, <3>1, <3>2 DEF Fits
  <2> QED BY <2>2, <2>3 DEF Fits
<1>7. CASE ~Silent(r, a, c)
  <2>1. PICK k \in DOMAIN r : Moves(r[k], a, c) BY <1>7 DEF Silent
  <2>2. ASSUME NEW i \in DOMAIN s, Moves(s[i], a, c),
               \A j \in DOMAIN s : j > i => ~Moves(s[j], a, c)
        PROVE  Part(a, Word(s[i])) = Part(a, given)
    <3>1. n + k \in DOMAIN s /\ Moves(s[n + k], a, c) BY <1>1, <1>3, <2>1
    <3>2. i \notin DOMAIN q BY <1>3, <2>2, <3>1
    <3>3. PICK j \in DOMAIN r : s[i] = r[j] BY <1>4, <3>2
    <3> QED BY <1>7, <2>2, <3>3
  <2> QED BY <1>2, <1>7, <2>2 DEF Fits
<1> QED BY <1>6, <1>7

(* and a last word stays one where nothing follows it.                       *)
LEMMA JoinedLast ==
    ASSUME NEW q, Messages(q), LastWord(q), NEW r, Messages(r), LastWord(r), NEW s, s = q \o r,
           \A a \in Adapters, c \in Clients : LetsGo(q, a, c) => Silent(r, a, c)
    PROVE  LastWord(s)
<1> DEFINE n == Len(q)
           m == Len(r)
<1>0. IsSeq(q) /\ IsSeq(r) BY DEF Messages
<1>1. /\ IsSeq(s)
      /\ n \in Nat /\ DOMAIN q = 1..n /\ m \in Nat /\ DOMAIN r = 1..m
      /\ DOMAIN s = 1..(n + m)
      /\ \A k \in DOMAIN q : s[k] = q[k]
      /\ \A k \in DOMAIN r : s[n + k] = r[k]
  <2>1. IsSeq(s) /\ n \in Nat /\ DOMAIN q = 1..n /\ m \in Nat /\ DOMAIN r = 1..m
    BY <1>0, Joined
  <2>2. DOMAIN s = 1..(n + m) BY <1>0, Joined
  <2>3. \A k \in DOMAIN q : s[k] = q[k] BY <1>0, Joined
  <2>4. \A k \in DOMAIN r : s[n + k] = r[k] BY <1>0, Joined
  <2> HIDE DEF n, m
  <2> QED BY <2>1, <2>2, <2>3, <2>4
<1> HIDE DEF n, m
<1> SUFFICES ASSUME NEW a \in Adapters, NEW c \in Clients, NEW i \in DOMAIN s, NEW j \in DOMAIN s,
                    i < j, Completes(s[i]), Moves(s[i], a, c), Moves(s[j], a, c)
             PROVE  FALSE
  BY DEF LastWord
<1>2. CASE j \in DOMAIN q
  <2>1. i \in DOMAIN q /\ s[i] = q[i] /\ s[j] = q[j] BY <1>1, <1>2
  <2> QED BY <1>2, <2>1 DEF LastWord
<1>3. CASE i \in DOMAIN q /\ j \notin DOMAIN q
  <2>1. j - n \in DOMAIN r /\ n + (j - n) = j /\ s[i] = q[i] BY <1>1, <1>3
  <2>2. s[j] = r[j - n] BY <1>1, <2>1
  <2>3. LetsGo(q, a, c) BY <1>3, <2>1 DEF LetsGo
  <2> QED BY <2>1, <2>2, <2>3 DEF Silent
<1>4. CASE i \notin DOMAIN q /\ j \notin DOMAIN q
  <2>1. /\ j - n \in DOMAIN r /\ n + (j - n) = j
        /\ i - n \in DOMAIN r /\ n + (i - n) = i /\ i - n < j - n
    BY <1>1, <1>4
  <2>2. s[j] = r[j - n] /\ s[i] = r[i - n] BY <1>1, <2>1
  <2> QED BY <2>1, <2>2 DEF LastWord
<1> QED BY <1>1, <1>2, <1>3, <1>4

(* Where the first is taken, what it says is known and the rest remains.     *)
LEMMA RemovedMessages ==
    ASSUME NEW q, Messages(q), q # <<>>
    PROVE  /\ IsAdd(Head(q)) \/ IsRemove(Head(q)) \/ IsNote(Head(q))
           /\ Messages(Tail(q))
           /\ \A a, c : Silent(q, a, c) <=> ~Moves(Head(q), a, c) /\ Silent(Tail(q), a, c)
           /\ \A a, c : LetsGo(q, a, c) <=>
                (Completes(Head(q)) /\ Moves(Head(q), a, c)) \/ LetsGo(Tail(q), a, c)
           /\ \A a, c : Held(q, a, c) <=>
                \/ (Head(q).type = "add" \/ Completes(Head(q))) /\ Moves(Head(q), a, c)
                \/ Held(Tail(q), a, c)
           /\ \A a : Pending(q, a) <=>
                (Head(q).type \in {"add", "remove"} /\ Head(q).adapter = a) \/ Pending(Tail(q), a)
           /\ \A t : Coming(q, t) <=>
                (Head(q).type = t /\ Head(q).adapter = "gnss") \/ Coming(Tail(q), t)
<1> DEFINE n == Len(q)
           r == Tail(q)
           h == Head(q)
<1>1. /\ IsSeq(r)
      /\ n \in Nat \ {0} /\ DOMAIN q = 1..n /\ DOMAIN r = 1..(n - 1)
      /\ \A k \in DOMAIN r : r[k] = q[k + 1]
      /\ h = q[1]
  BY Removed DEF Messages
<1> HIDE DEF n, r, h
<1>2. 1 \in DOMAIN q /\ \A k \in DOMAIN r : k + 1 \in DOMAIN q BY <1>1
<1>3. \A k \in DOMAIN q : q[k] = h \/ \E j \in DOMAIN r : q[k] = r[j]
  <2> SUFFICES ASSUME NEW k \in DOMAIN q, k # 1 PROVE \E j \in DOMAIN r : q[k] = r[j] BY <1>1
  <2>1. k - 1 \in DOMAIN r /\ (k - 1) + 1 = k BY <1>1
  <2> QED BY <1>1, <2>1
<1>4. (IsAdd(h) \/ IsRemove(h) \/ IsNote(h)) /\ Messages(r)
  <2>1. \A i \in DOMAIN r : IsAdd(r[i]) \/ IsRemove(r[i]) \/ IsNote(r[i])
    BY <1>1, <1>2 DEF Messages
  <2> QED BY <1>1, <1>2, <2>1 DEF Messages
<1>5. ASSUME NEW a, NEW c PROVE Silent(q, a, c) <=> ~Moves(h, a, c) /\ Silent(r, a, c)
  BY <1>1, <1>2, <1>3, Zenon DEF Silent
<1>6. ASSUME NEW a, NEW c
      PROVE  LetsGo(q, a, c) <=> (Completes(h) /\ Moves(h, a, c)) \/ LetsGo(r, a, c)
  BY <1>1, <1>2, <1>3, Zenon DEF LetsGo
<1>7. ASSUME NEW a
      PROVE  Pending(q, a) <=> (h.type \in {"add", "remove"} /\ h.adapter = a) \/ Pending(r, a)
  BY <1>1, <1>2, <1>3, Zenon DEF Pending
<1>8. ASSUME NEW t PROVE Coming(q, t) <=> (h.type = t /\ h.adapter = "gnss") \/ Coming(r, t)
  BY <1>1, <1>2, <1>3, Zenon DEF Coming
<1>9. ASSUME NEW a, NEW c
      PROVE  Held(q, a, c) <=>
                ((h.type = "add" \/ Completes(h)) /\ Moves(h, a, c)) \/ Held(r, a, c)
  BY <1>1, <1>2, <1>3, Zenon DEF Held
<1> QED BY <1>4, <1>5, <1>6, <1>7, <1>8, <1>9 DEF r, h

LEMMA RemovedFits ==
    ASSUME NEW q, Messages(q), q # <<>>, NEW a, NEW c, NEW now, NEW given,
           Fits(q, a, c, now, given), NEW next,
           next = IF Moves(Head(q), a, c) THEN Word(Head(q)) ELSE now
    PROVE  Fits(Tail(q), a, c, next, given)
<1> DEFINE n == Len(q)
           r == Tail(q)
           h == Head(q)
<1>1. /\ IsSeq(r)
      /\ n \in Nat \ {0} /\ DOMAIN q = 1..n /\ DOMAIN r = 1..(n - 1)
      /\ \A k \in DOMAIN r : r[k] = q[k + 1]
      /\ h = q[1]
  BY Removed DEF Messages
<1>a. Silent(q, a, c) <=> ~Moves(h, a, c) /\ Silent(r, a, c) BY RemovedMessages
<1>b. next = IF Moves(h, a, c) THEN Word(h) ELSE now
  OBVIOUS
<1> HIDE DEF n, r, h
<1>2. 1 \in DOMAIN q /\ \A k \in DOMAIN r : k + 1 \in DOMAIN q BY <1>1
<1>3. \A k \in DOMAIN q : k # 1 => k - 1 \in DOMAIN r /\ r[k - 1] = q[k]
  <2> SUFFICES ASSUME NEW k \in DOMAIN q, k # 1 PROVE k - 1 \in DOMAIN r /\ r[k - 1] = q[k]
    OBVIOUS
  <2>1. k - 1 \in DOMAIN r /\ (k - 1) + 1 = k BY <1>1
  <2> QED BY <1>1, <2>1
<1>4. ASSUME Silent(r, a, c) PROVE Part(a, next) = Part(a, given)
  <2>1. CASE Moves(h, a, c)
    <3>1. \A j \in DOMAIN q : j > 1 => ~Moves(q[j], a, c)
      <4> SUFFICES ASSUME NEW j \in DOMAIN q, j > 1 PROVE ~Moves(q[j], a, c)
        OBVIOUS
      <4>1. j # 1 BY <1>1
      <4> QED BY <1>3, <1>4, <4>1 DEF Silent
    <3> QED BY <1>1, <1>2, <1>b, <2>1, <3>1 DEF Fits
  <2>2. CASE ~Moves(h, a, c) BY <1>a, <1>b, <1>4, <2>2 DEF Fits
  <2> QED BY <2>1, <2>2
<1>5. ASSUME NEW i \in DOMAIN r, Moves(r[i], a, c), \A j \in DOMAIN r : j > i => ~Moves(r[j], a, c)
      PROVE  Part(a, Word(r[i])) = Part(a, given)
  <2>1. i + 1 \in DOMAIN q /\ r[i] = q[i + 1] BY <1>1, <1>2
  <2>2. ASSUME NEW j \in DOMAIN q, j > i + 1 PROVE ~Moves(q[j], a, c)
    <3>1. j # 1 /\ j - 1 > i BY <1>1, <2>2
    <3> QED BY <1>3, <1>5, <3>1
  <2> QED BY <1>5, <2>1, <2>2 DEF Fits
<1> QED BY <1>4, <1>5 DEF Fits, r

LEMMA RemovedLast ==
    ASSUME NEW q, Messages(q), q # <<>>, LastWord(q)
    PROVE  /\ LastWord(Tail(q))
           /\ \A a \in Adapters, c \in Clients :
                Completes(Head(q)) /\ Moves(Head(q), a, c) => Silent(Tail(q), a, c)
<1> DEFINE n == Len(q)
           r == Tail(q)
           h == Head(q)
<1>1. /\ n \in Nat \ {0} /\ DOMAIN q = 1..n /\ DOMAIN r = 1..(n - 1)
      /\ \A k \in DOMAIN r : r[k] = q[k + 1]
      /\ h = q[1]
  BY Removed DEF Messages
<1> HIDE DEF n, r, h
<1>2. 1 \in DOMAIN q /\ \A k \in DOMAIN r : k + 1 \in DOMAIN q /\ 1 < k + 1 BY <1>1
<1>3. \A i, j \in DOMAIN r : i < j => i + 1 < j + 1 BY <1>1
<1>4. LastWord(r) BY <1>1, <1>2, <1>3 DEF LastWord
<1>5. ASSUME NEW a \in Adapters, NEW c \in Clients, Completes(h), Moves(h, a, c)
      PROVE  Silent(r, a, c)
  BY <1>1, <1>2, <1>5 DEF LastWord, Silent
<1> QED BY <1>4, <1>5 DEF r, h

-----------------------------------------------------------------------------
(* What the callers send                                                     *)

IsFunction(f) == f = [x \in DOMAIN f |-> f[x]]

(* A function on the numbers up to n is a sequence.                          *)
LEMMA SeqOfNumbers ==
    ASSUME NEW n \in Nat, NEW f, f = [k \in 1..n |-> f[k]]
    PROVE  IsSeq(f) /\ Len(f) = n /\ DOMAIN f = 1..n
<1> DEFINE S == {f[k] : k \in DOMAIN f}
<1>1. DOMAIN f = 1..n /\ f \in [1..n -> S]  OBVIOUS
<1> HIDE DEF S
<1>2. f \in Seq(S) /\ Len(f) = n BY <1>1
<1> QED BY <1>1, <1>2, SeqOfItsElements

(* The sequence s has each element of A once.                               *)
Once(s, A) ==
    /\ IsSeq(s)
    /\ \A i \in DOMAIN s : s[i] \in A
    /\ \A a \in A : \E i \in DOMAIN s : s[i] = a
    /\ \A i, j \in DOMAIN s : s[i] = s[j] => i = j

LEMMA OnceJoined ==
    ASSUME NEW A, NEW B, A \cap B = {}, NEW q, Once(q, A), NEW r, Once(r, B), NEW s, s = q \o r
    PROVE  Once(s, A \cup B)
<1> DEFINE n == Len(q)
           m == Len(r)
<1>0. IsSeq(q) /\ IsSeq(r) BY DEF Once
<1>1. /\ IsSeq(s)
      /\ n \in Nat /\ DOMAIN q = 1..n /\ m \in Nat /\ DOMAIN r = 1..m
      /\ DOMAIN s = 1..(n + m)
      /\ \A k \in DOMAIN q : s[k] = q[k]
      /\ \A k \in DOMAIN r : s[n + k] = r[k]
  <2>1. IsSeq(s) /\ n \in Nat /\ DOMAIN q = 1..n /\ m \in Nat /\ DOMAIN r = 1..m
    BY <1>0, Joined
  <2>2. DOMAIN s = 1..(n + m) BY <1>0, Joined
  <2>3. \A k \in DOMAIN q : s[k] = q[k] BY <1>0, Joined
  <2>4. \A k \in DOMAIN r : s[n + k] = r[k] BY <1>0, Joined
  <2> HIDE DEF n, m
  <2> QED BY <2>1, <2>2, <2>3, <2>4
<1> HIDE DEF n, m
<1>2. \A k \in DOMAIN q : k \in DOMAIN s /\ s[k] = q[k] /\ q[k] \in A BY <1>1 DEF Once
<1>3. \A k \in DOMAIN r : n + k \in DOMAIN s /\ s[n + k] = r[k] /\ r[k] \in B BY <1>1 DEF Once
<1>4. \A k \in DOMAIN s :
         k \in DOMAIN q \/ (k - n \in DOMAIN r /\ k = n + (k - n) /\ s[k] = r[k - n])
  BY <1>1
<1>5. \A i \in DOMAIN s : s[i] \in A \cup B BY <1>2, <1>3, <1>4
<1>6. \A a \in A \cup B : \E i \in DOMAIN s : s[i] = a BY <1>2, <1>3 DEF Once
<1>7. ASSUME NEW i \in DOMAIN s, NEW j \in DOMAIN s, s[i] = s[j] PROVE i = j
  <2>1. CASE i \in DOMAIN q
    <3>1. j \in DOMAIN q BY <1>2, <1>3, <1>4, <1>7, <2>1
    <3> QED BY <1>2, <1>7, <2>1, <3>1 DEF Once
  <2>2. CASE i \notin DOMAIN q
    <3>1. j \notin DOMAIN q BY <1>2, <1>3, <1>4, <1>7, <2>2
    <3>2. i - n = j - n BY <1>4, <1>7, <2>2, <3>1 DEF Once
    <3> QED BY <1>4, <2>2, <3>1, <3>2
  <2> QED BY <2>1, <2>2
<1> QED BY <1>1, <1>5, <1>6, <1>7 DEF Once

LEMMA OnceUnit ==
    ASSUME NEW a, NEW A, NEW s, s = IF a \in A THEN <<a>> ELSE <<>>
    PROVE  Once(s, A \cap {a})
<1>1. CASE a \in A
  <2>1. s \in Seq({a}) /\ DOMAIN s = {1} /\ s[1] = a BY <1>1
  <2>2. IsSeq(s) BY <2>1, SeqOfItsElements
  <2> QED BY <1>1, <2>1, <2>2 DEF Once
<1>2. CASE a \notin A BY <1>2, NoElements DEF Once
<1> QED BY <1>1, <1>2

(* InOrder has each of its adapters once.                                    *)
LEMMA EachOnce ==
    ASSUME NEW A, A \subseteq Adapters, NEW s, s = InOrder(A)
    PROVE  Once(s, A) /\ s \in Seq(A)
<1> DEFINE x == IF "gnss" \in A THEN <<"gnss">> ELSE <<>>
           y == IF "batching" \in A THEN <<"batching">> ELSE <<>>
           z == IF "geofence" \in A THEN <<"geofence">> ELSE <<>>
           xy == x \o y
           X == A \cap {"gnss"}
           Y == A \cap {"batching"}
           Z == A \cap {"geofence"}
<1>1. s = xy \o z BY DEF InOrder
<1>2. Once(x, X) /\ Once(y, Y) /\ Once(z, Z) BY OnceUnit
<1>3. X \cap Y = {} /\ (X \cup Y) \cap Z = {} /\ (X \cup Y) \cup Z = A BY DEF Adapters
<1>4. xy = x \o y  OBVIOUS
<1> HIDE DEF x, y, z, xy, X, Y, Z
<1>5. Once(xy, X \cup Y) BY <1>2, <1>3, <1>4, OnceJoined
<1>6. Once(s, (X \cup Y) \cup Z) BY <1>1, <1>2, <1>3, <1>5, OnceJoined
<1>7. Once(s, A) BY <1>3, <1>6
<1>8. s \in Seq(A)
  <2>1. s \in Seq({s[k] : k \in DOMAIN s}) BY <1>7 DEF Once, IsSeq
  <2>2. Len(s) \in Nat /\ DOMAIN s = 1..Len(s) /\ s = [k \in 1..Len(s) |-> s[k]]
    BY <2>1, LenProperties
  <2>3. s \in [1..Len(s) -> A] BY <1>7, <2>2 DEF Once
  <2> QED BY <2>2, <2>3
<1> QED BY <1>7, <1>8

(* One message to each of the adapters in A                                  *)
LEMMA OneEach ==
    ASSUME NEW A, A \subseteq Adapters, NEW s, s = InOrder(A), NEW say,
           NEW r, IsFunction(r), DOMAIN r = DOMAIN s,
           \A i \in DOMAIN s : r[i] = say[s[i]]
    PROVE  /\ IsSeq(r)
           /\ \A i \in DOMAIN r : s[i] \in A
           /\ \A a \in A : \E i \in DOMAIN r : s[i] = a
           /\ \A i, j \in DOMAIN r : s[i] = s[j] => i = j
<1>1. Once(s, A) /\ s \in Seq(A) BY EachOnce
<1>2. Len(s) \in Nat /\ DOMAIN s = 1..Len(s) BY <1>1, SeqOfItsElements
<1>3. IsSeq(r)
  <2> DEFINE n == Len(s)
  <2>1. n \in Nat /\ DOMAIN s = 1..n BY <1>2
  <2> HIDE DEF n
  <2>2. r = [k \in 1..n |-> r[k]] BY <2>1 DEF IsFunction
  <2> QED BY <2>1, <2>2, SeqOfNumbers
<1> QED BY <1>1, <1>3 DEF Once

(* The call of a client of which the adapters in A hear say[a]               *)
Calls(c, A, say, r) ==
    /\ A \subseteq Adapters
    /\ \A a \in A : Moves(say[a], a, c) /\ (IsAdd(say[a]) \/ IsRemove(say[a]))
    /\ Messages(r) /\ queue' = queue \o r
    /\ \A k \in DOMAIN r :
        (IsNote(r[k]) /\ r[k].type = "capabilities") \/ \E a \in A : r[k] = say[a]
    /\ \A a \in A : \E k \in DOMAIN r : r[k] = say[a]
    /\ LastWord(r)

LEMMA KindsAreAdapters ==
    ASSUME NEW callbacks \in SUBSET Callbacks
    PROVE  Kinds(callbacks) \subseteq Adapters
<1>1. \A cb \in Callbacks : AdapterOf[cb] \in Adapters BY DEF Callbacks, AdapterOf, Adapters
<1> QED BY <1>1 DEF Kinds

(* Who has none of an adapter's callbacks has no part in it.                 *)
LEMMA NoPart ==
    ASSUME NEW a, NEW callbacks \in {None} \cup SUBSET Callbacks,
           callbacks = None \/ a \notin Kinds(callbacks)
    PROVE  Part(a, callbacks) = {}
  BY DEF Part, Kinds

(* An adapter that is loaded is one more of those there are, and is opened.  *)
LEMMA Loads ==
    ASSUME Shape, NEW A, A \subseteq Adapters, loadLib(A)
    PROVE  /\ loaded' \in Seq(Adapters) /\ Loaded' = Loaded \cup A
           /\ Requests(apiQueue')
           /\ \A a \in A \ Loaded : \E i \in DOMAIN apiQueue' : apiQueue'[i] = Open(a)
           /\ Opening(apiQueue) => Opening(apiQueue')
           /\ \/ apiQueue' # <<>>
              \/ Loaded' = Loaded /\ apiQueue' = apiQueue
<1> DEFINE new == InOrder(A \ Loaded)
           say == [a \in A \ Loaded |-> Open(a)]
           opens == [i \in DOMAIN new |-> say[new[i]]]
           n == Len(apiQueue)
           l == Len(loaded)
<1>1. Once(new, A \ Loaded) /\ new \in Seq(A \ Loaded) BY EachOnce
<1>2. /\ IsSeq(opens) /\ DOMAIN opens = DOMAIN new
      /\ \A i \in DOMAIN opens : opens[i] = say[new[i]]
      /\ \A i \in DOMAIN opens : new[i] \in A \ Loaded
      /\ \A a \in A \ Loaded : \E i \in DOMAIN opens : new[i] = a
  <2>1. A \ Loaded \subseteq Adapters /\ new = InOrder(A \ Loaded)  OBVIOUS
  <2>2. /\ IsFunction(opens) /\ DOMAIN opens = DOMAIN new
        /\ \A i \in DOMAIN new : opens[i] = say[new[i]]
    BY DEF IsFunction
  <2> HIDE DEF new, say, opens
  <2>3. IsSeq(opens) BY <2>1, <2>2, OneEach
  <2> QED BY <1>1, <2>2, <2>3 DEF Once
<1>3. loaded' = loaded \o new BY DEF loadLib
<1>4. apiQueue' = apiQueue \o opens
  <2>1. opens = [i \in DOMAIN new |-> Open(new[i])] BY <1>2
  <2> QED BY <2>1 DEF loadLib
<1>5. \A a \in A \ Loaded : \E i \in DOMAIN opens : opens[i] = Open(a) BY <1>2
<1>6. loaded \in Seq(Adapters) /\ IsSeq(loaded) /\ IsSeq(apiQueue)
  BY SeqOfItsElements DEF Shape, Requests
<1>7. IsSeq(new) /\ new \in Seq(Adapters) BY <1>1 DEF Once
<1> HIDE DEF new, say, opens, n, l
<1>8. loaded' \in Seq(Adapters) BY <1>3, <1>6, <1>7, ConcatProperties
<1>9. Loaded' = Loaded \cup A
  <2>1. /\ DOMAIN loaded' = 1..(Len(loaded) + Len(new))
        /\ DOMAIN loaded = 1..Len(loaded) /\ Len(loaded) \in Nat
        /\ DOMAIN new = 1..Len(new) /\ Len(new) \in Nat
    BY <1>3, <1>6, <1>7, Joined
  <2>2. \A k \in DOMAIN loaded : loaded'[k] = loaded[k] BY <1>3, <1>6, <1>7, Joined
  <2>3. \A k \in DOMAIN new : loaded'[Len(loaded) + k] = new[k] BY <1>3, <1>6, <1>7, Joined
  <2>4. /\ \A k \in DOMAIN loaded : k \in DOMAIN loaded'
        /\ \A k \in DOMAIN new : Len(loaded) + k \in DOMAIN loaded'
        /\ \A k \in DOMAIN loaded' : k \notin DOMAIN loaded =>
              k - Len(loaded) \in DOMAIN new /\ Len(loaded) + (k - Len(loaded)) = k
    BY <2>1
  <2>5. \A x : x \in Loaded' <=> \E k \in DOMAIN loaded' : loaded'[k] = x BY DEF Loaded
  <2>6. \A x : x \in Loaded <=> \E k \in DOMAIN loaded : loaded[k] = x BY DEF Loaded
  <2>7. ASSUME NEW x \in Loaded' PROVE x \in Loaded \cup A
    <3>1. PICK k \in DOMAIN loaded' : loaded'[k] = x BY <2>5, <2>7
    <3>2. CASE k \in DOMAIN loaded BY <2>2, <2>6, <3>1, <3>2
    <3>3. CASE k \notin DOMAIN loaded BY <1>1, <2>3, <2>4, <3>1, <3>3 DEF Once
    <3> QED BY <3>2, <3>3
  <2>8. ASSUME NEW x \in Loaded PROVE x \in Loaded' BY <2>2, <2>4, <2>5, <2>6, <2>8
  <2>9. ASSUME NEW x \in A \ Loaded PROVE x \in Loaded'
    BY <1>1, <2>3, <2>4, <2>5, <2>9 DEF Once
  <2> QED BY <2>7, <2>8, <2>9
<1>10. IsSeq(apiQueue') BY <1>2, <1>4, <1>6, Joined
<1>11. /\ DOMAIN apiQueue' = 1..(n + Len(opens)) /\ n \in Nat
       /\ DOMAIN apiQueue = 1..n /\ DOMAIN opens = 1..Len(opens) /\ Len(opens) \in Nat
  BY <1>2, <1>4, <1>6, Joined DEF n
<1>12. \A k \in DOMAIN apiQueue : apiQueue'[k] = apiQueue[k] /\ k \in DOMAIN apiQueue'
  <2>1. \A k \in DOMAIN apiQueue : apiQueue'[k] = apiQueue[k] BY <1>2, <1>4, <1>6, Joined
  <2> QED BY <1>11, <2>1
<1>13. \A k \in DOMAIN opens : apiQueue'[n + k] = opens[k] /\ n + k \in DOMAIN apiQueue'
  <2>1. \A k \in DOMAIN opens : apiQueue'[n + k] = opens[k] BY <1>2, <1>4, <1>6, Joined DEF n
  <2> QED BY <1>11, <2>1
<1>14. \A a \in A \ Loaded : \E i \in DOMAIN apiQueue' : apiQueue'[i] = Open(a) BY <1>5, <1>13
<1>15. Opening(apiQueue) => Opening(apiQueue') BY <1>12 DEF Opening
<1>16. Requests(apiQueue')
  <2>1. \A k \in DOMAIN apiQueue' : k \notin DOMAIN apiQueue =>
            k - n \in DOMAIN opens /\ n + (k - n) = k
    BY <1>11
  <2>2. ASSUME NEW k \in DOMAIN apiQueue'
        PROVE  \/ apiQueue'[k].type = "restart"
               \/ \E a \in Adapters \cup {None} : apiQueue'[k] = Open(a)
    <3>1. CASE k \in DOMAIN apiQueue BY <1>12, <3>1 DEF Shape, Requests
    <3>2. CASE k \notin DOMAIN apiQueue
      <4>1. apiQueue'[k] = opens[k - n] /\ k - n \in DOMAIN opens BY <1>13, <2>1, <3>2
      <4>2. opens[k - n] = say[new[k - n]] /\ new[k - n] \in A \ Loaded BY <1>2, <4>1
      <4> QED BY <4>1, <4>2 DEF say
    <3> QED BY <3>1, <3>2
  <2> QED BY <1>10, <2>2 DEF Requests
<1>17. CASE A \subseteq Loaded
  <2>1. Loaded' = Loaded BY <1>9, <1>17
  <2>2. DOMAIN opens = {} BY <1>2, <1>17
  <2>3. DOMAIN apiQueue' = 1..n BY <1>11, <2>2
  <2>4. apiQueue' = apiQueue
    <3>1. /\ apiQueue' = [k \in 1..n |-> apiQueue'[k]] /\ apiQueue = [k \in 1..n |-> apiQueue[k]]
      <4>1. apiQueue \in Seq({apiQueue[k] : k \in DOMAIN apiQueue}) BY <1>6 DEF IsSeq
      <4>2. apiQueue' \in Seq({apiQueue'[k] : k \in DOMAIN apiQueue'}) BY <1>10 DEF IsSeq
      <4> QED BY <1>11, <2>3, <4>1, <4>2, LenProperties
    <3> QED BY <1>11, <1>12, <3>1
  <2> QED BY <1>8, <1>9, <1>16, <1>14, <1>15, <2>1, <2>4
<1>18. CASE ~(A \subseteq Loaded)
  <2>1. apiQueue' # <<>> BY <1>14, <1>18
  <2> QED BY <1>8, <1>9, <1>16, <1>14, <1>15, <2>1
<1> QED BY <1>17, <1>18

-----------------------------------------------------------------------------
(* What each call says to the adapters                                       *)

(* The adapters that hear of a client that gives callbacks first             *)
First(callbacks) == IF callbacks = {} THEN {"gnss"} ELSE Kinds(callbacks)

LEMMA CreateCalls ==
    ASSUME NEW c \in Clients, NEW callbacks \in CallbackSets, createInstance(c, callbacks)
    PROVE  /\ First(callbacks) # {} /\ loadLib(First(callbacks))
           /\ \E r : Calls(c, First(callbacks),
                           [a \in First(callbacks) |-> Add(a, c, callbacks)], r)
<1> DEFINE A == First(callbacks)
           say == [a \in A |-> Add(a, c, callbacks)]
           s == InOrder(A)
           adds == [i \in DOMAIN s |-> Add(s[i], c, callbacks)]
           cap == Msg("capabilities", s[1], c)
           two == <<adds[1], cap>>
           rest == Tail(adds)
           r == two \o rest
<1>1. callbacks \in SUBSET Callbacks BY ClientsAssumption
<1>2. A \subseteq Adapters /\ A # {}
  <2>1. CASE callbacks = {} BY <2>1 DEF First, Adapters
  <2>2. CASE callbacks # {} BY <1>1, <2>2, KindsAreAdapters DEF First, Kinds
  <2> QED BY <2>1, <2>2
<1>3. \A a \in A : Moves(say[a], a, c) /\ IsAdd(say[a]) /\ ~Completes(say[a])
  <2> SUFFICES ASSUME NEW a \in A PROVE Moves(say[a], a, c) /\ IsAdd(say[a]) /\ ~Completes(say[a])
    OBVIOUS
  <2>1. say[a] = Add(a, c, callbacks) /\ a \in Adapters BY <1>2
  <2> QED BY <1>1, <2>1 DEF Moves, IsAdd, Completes, Add
<1>4. queue' = queue \o r /\ loadLib(A)
  <2>1. queue' = queue \o r BY Zenon DEF createInstance, First
  <2>2. loadLib(A) BY Zenon DEF createInstance, First
  <2> QED BY <2>1, <2>2
<1>5. Once(s, A) /\ s \in Seq(A) BY <1>2, EachOnce
<1>6. /\ IsFunction(adds) /\ DOMAIN adds = DOMAIN s
      /\ \A i \in DOMAIN s : adds[i] = say[s[i]] /\ s[i] \in A
  BY <1>5 DEF Once, IsFunction
<1>7. s = InOrder(A) /\ cap = Msg("capabilities", s[1], c)  OBVIOUS
<1>8. r = two \o rest /\ two = <<adds[1], cap>> /\ rest = Tail(adds)  OBVIOUS
<1>9. \A a \in A : \E i \in DOMAIN s : s[i] = a BY <1>5 DEF Once
<1> HIDE DEF A, say, s, adds, cap, two, rest, r
<1>10. IsSeq(adds) BY <1>2, <1>6, <1>7, OneEach
<1>11. 1 \in DOMAIN adds /\ adds # <<>>
  <2>1. adds # <<>> BY <1>2, <1>6, <1>9
  <2> QED BY <1>10, <2>1, Removed
<1>12. /\ IsSeq(rest) /\ DOMAIN rest = 1..(Len(adds) - 1)
       /\ DOMAIN adds = 1..Len(adds) /\ Len(adds) \in Nat \ {0}
       /\ \A k \in DOMAIN rest : rest[k] = adds[k + 1]
  BY <1>8, <1>10, <1>11, Removed
<1>13. IsSeq(two) /\ DOMAIN two = {1, 2} /\ two[1] = adds[1] /\ two[2] = cap /\ Len(two) = 2
  <2>1. two \in Seq({adds[1], cap}) BY <1>8
  <2>2. IsSeq(two) BY <2>1, SeqOfItsElements
  <2> QED BY <1>8, <2>2
<1>14. IsNote(cap) /\ cap.type = "capabilities" BY <1>2, <1>6, <1>7, <1>11 DEF IsNote, Msg
<1>15. IsSeq(r) /\ DOMAIN r = 1..(2 + Len(rest)) /\ DOMAIN rest = 1..Len(rest) /\ Len(rest) \in Nat
  <2>1. IsSeq(two) /\ IsSeq(rest) BY <1>12, <1>13
  <2>2. IsSeq(r) /\ DOMAIN rest = 1..Len(rest) /\ Len(rest) \in Nat BY <1>8, <2>1, Joined
  <2>3. DOMAIN r = 1..(Len(two) + Len(rest)) BY <1>8, <2>1, Joined
  <2> QED BY <1>13, <2>2, <2>3
<1>16. r[1] = adds[1] /\ r[2] = cap BY <1>8, <1>12, <1>13, Joined
<1>17. \A k \in DOMAIN rest : r[2 + k] = rest[k] BY <1>8, <1>12, <1>13, Joined
<1>18. ASSUME NEW k \in DOMAIN r
       PROVE  (IsNote(r[k]) /\ r[k].type = "capabilities") \/ \E a \in A : r[k] = say[a]
  <2>1. CASE k = 1 BY <1>6, <1>11, <1>16, <2>1
  <2>2. CASE k = 2 BY <1>14, <1>16, <2>2
  <2>3. CASE k # 1 /\ k # 2
    <3>1. k - 2 \in DOMAIN rest /\ 2 + (k - 2) = k BY <1>15, <2>3
    <3>2. (k - 2) + 1 \in DOMAIN adds BY <1>12, <3>1
    <3>3. r[k] = adds[(k - 2) + 1] BY <1>12, <1>17, <3>1
    <3> QED BY <1>6, <3>2, <3>3
  <2> QED BY <2>1, <2>2, <2>3
<1>19. ASSUME NEW a \in A PROVE \E k \in DOMAIN r : r[k] = say[a]
  <2>1. PICK i \in DOMAIN s : s[i] = a BY <1>9
  <2>2. i \in DOMAIN adds /\ adds[i] = say[a] BY <1>6, <2>1
  <2>3. CASE i = 1 BY <1>15, <1>16, <2>2, <2>3
  <2>4. CASE i # 1
    <3>1. i - 1 \in DOMAIN rest /\ (i - 1) + 1 = i BY <1>12, <2>2, <2>4
    <3>2. 2 + (i - 1) \in DOMAIN r BY <1>15, <3>1
    <3> QED BY <1>12, <1>17, <2>2, <3>1, <3>2
  <2> QED BY <2>3, <2>4
<1>20. Messages(r) BY <1>3, <1>15, <1>18 DEF Messages
<1>21. LastWord(r)
  <2>1. \A k \in DOMAIN r : ~Completes(r[k]) BY <1>3, <1>18 DEF Completes, IsNote
  <2> QED BY <2>1 DEF LastWord
<1>22. Calls(c, A, say, r) BY <1>2, <1>3, <1>4, <1>18, <1>19, <1>20, <1>21 DEF Calls
<1> QED BY <1>2, <1>4, <1>22 DEF A, say

(* To each in A its message, in one sequence                                 *)
LEMMA CallsEach ==
    ASSUME NEW c \in Clients, NEW A, A \subseteq Adapters, NEW s, s = InOrder(A), NEW say,
           NEW r, IsFunction(r), DOMAIN r = DOMAIN s,
           \A i \in DOMAIN s : r[i] = say[s[i]],
           \A a \in A : Moves(say[a], a, c) /\ (IsAdd(say[a]) \/ IsRemove(say[a])),
           queue' = queue \o r
    PROVE  Calls(c, A, say, r)
<1>1. /\ IsSeq(r)
      /\ \A i \in DOMAIN r : s[i] \in A
      /\ \A a \in A : \E i \in DOMAIN r : s[i] = a
      /\ \A i, j \in DOMAIN r : s[i] = s[j] => i = j
  <2>1. IsSeq(r) BY OneEach
  <2>2. Once(s, A) BY EachOnce
  <2> QED BY <2>1, <2>2 DEF Once
<1>2. \A k \in DOMAIN r : \E a \in A : r[k] = say[a] BY <1>1
<1>3. \A a \in A : \E k \in DOMAIN r : r[k] = say[a] BY <1>1
<1>4. Messages(r) BY <1>1, <1>2 DEF Messages
<1>5. LastWord(r)
  <2> SUFFICES ASSUME NEW a, NEW d, NEW i \in DOMAIN r, NEW j \in DOMAIN r,
                      i < j, Moves(r[i], a, d), Moves(r[j], a, d)
               PROVE  FALSE
    BY DEF LastWord
  <2>1. s[i] = a /\ s[j] = a BY <1>1 DEF Moves
  <2>2. i = j BY <1>1, <2>1
  <2>3. DOMAIN r = 1..Len(r)
    <3>1. r \in Seq({r[k] : k \in DOMAIN r}) BY <1>1 DEF IsSeq
    <3> QED BY <3>1, LenProperties
  <2> QED BY <2>2, <2>3
<1> QED BY <1>2, <1>3, <1>4, <1>5 DEF Calls

(* An update tells those that the client has callbacks of, and those that it *)
(* has none of anymore.                                                      *)
Dropped(c, callbacks) == (Kinds(clientData[c]) \ Kinds(callbacks)) \cap Loaded
Told(c, callbacks) == Kinds(callbacks) \cup Dropped(c, callbacks)
UpdateSays(c, callbacks) == [a \in Told(c, callbacks) |->
    IF a \in Kinds(callbacks) THEN Add(a, c, callbacks) ELSE Remove(a, c, FALSE)]

LEMMA UpdateCalls ==
    ASSUME Shape, NEW c \in Clients, NEW callbacks \in CallbackSets, updateCallbacks(c, callbacks)
    PROVE  /\ loadLib(Kinds(callbacks))
           /\ \E r : Calls(c, Told(c, callbacks), UpdateSays(c, callbacks), r)
<1> DEFINE A == Told(c, callbacks)
           say == UpdateSays(c, callbacks)
           s == InOrder(A)
           r == [i \in DOMAIN s |-> IF s[i] \in Kinds(callbacks) THEN Add(s[i], c, callbacks)
                                    ELSE Remove(s[i], c, FALSE)]
<1>1. callbacks \in SUBSET Callbacks BY ClientsAssumption
<1>2. A \subseteq Adapters
  <2>1. Loaded \subseteq Adapters BY DEF Shape, Loaded
  <2> QED BY <1>1, <2>1, KindsAreAdapters DEF Told, Dropped
<1>3. \A a \in A : Moves(say[a], a, c) /\ (IsAdd(say[a]) \/ IsRemove(say[a]))
  <2> SUFFICES ASSUME NEW a \in A
               PROVE  Moves(say[a], a, c) /\ (IsAdd(say[a]) \/ IsRemove(say[a]))
    OBVIOUS
  <2>1. CASE a \in Kinds(callbacks)
    <3>1. say[a] = Add(a, c, callbacks) BY <2>1 DEF UpdateSays
    <3> QED BY <1>1, <1>2, <3>1 DEF Moves, IsAdd, Add
  <2>2. CASE a \notin Kinds(callbacks)
    <3>1. say[a] = Remove(a, c, FALSE) BY <2>2 DEF UpdateSays
    <3>2. a \in Adapters /\ FALSE \in BOOLEAN BY <1>2
    <3>3. IsRemove(say[a]) BY <3>1, <3>2 DEF IsRemove
    <3> QED BY <3>1, <3>3 DEF Moves, Remove
  <2> QED BY <2>1, <2>2
<1>4. loadLib(Kinds(callbacks)) /\ queue' = queue \o r BY DEF updateCallbacks, Told, Dropped
<1>5. Once(s, A) BY <1>2, EachOnce
<1>6. \A i \in DOMAIN s : r[i] = say[s[i]] BY <1>5 DEF Once, UpdateSays
<1>7. /\ s = InOrder(A)
      /\ IsFunction(r) /\ DOMAIN r = DOMAIN s
  BY DEF IsFunction
<1> HIDE DEF A, say, s, r
<1>8. Calls(c, A, say, r) BY <1>2, <1>3, <1>4, <1>6, <1>7, CallsEach
<1> QED BY <1>4, <1>8 DEF A, say

LEMMA DestroyCalls ==
    ASSUME Shape, NEW c \in Clients, NEW callback \in BOOLEAN, destroy(c, callback)
    PROVE  \E r : Calls(c, Loaded, [a \in Loaded |-> Remove(a, c, TRUE)], r)
<1> DEFINE A == Loaded
           say == [a \in Loaded |-> Remove(a, c, TRUE)]
           s == InOrder(A)
           r == [i \in DOMAIN s |-> Remove(s[i], c, TRUE)]
<1>1. A \subseteq Adapters BY DEF Shape, Loaded
<1>2. \A a \in A : Moves(say[a], a, c) /\ (IsAdd(say[a]) \/ IsRemove(say[a]))
  BY <1>1 DEF Moves, IsRemove, Remove
<1>3. queue' = queue \o r BY DEF destroy
<1>4. Once(s, A) BY <1>1, EachOnce
<1>5. \A i \in DOMAIN s : r[i] = say[s[i]] BY <1>4 DEF Once
<1>6. /\ s = InOrder(A)
      /\ IsFunction(r) /\ DOMAIN r = DOMAIN s
  BY DEF IsFunction
<1> HIDE DEF A, say, s, r
<1>7. Calls(c, A, say, r) BY <1>1, <1>2, <1>3, <1>5, <1>6, CallsEach
<1> QED BY <1>7 DEF A, say

-----------------------------------------------------------------------------
(* What the steps make of the queue                                          *)

(* A call is heard by its adapters and of nobody else.                       *)
LEMMA CallMoves ==
    ASSUME NEW c \in Clients, NEW A, NEW say, NEW r, Calls(c, A, say, r),
           NEW k \in DOMAIN r, NEW a, NEW d
    PROVE  Moves(r[k], a, d) <=> d = c /\ a \in A /\ r[k] = say[a]
<1>1. CASE IsNote(r[k]) BY <1>1 DEF IsNote, Moves, Calls
<1>2. CASE \E b \in A : r[k] = say[b] BY <1>2 DEF Moves, Calls
<1> QED BY <1>1, <1>2 DEF Calls

LEMMA CallHeard ==
    ASSUME Messages(queue), NEW c \in Clients, NEW A, NEW say, NEW r, Calls(c, A, say, r)
    PROVE  /\ Messages(queue')
           /\ \A a, d : Silent(queue', a, d) <=> Silent(queue, a, d) /\ ~(d = c /\ a \in A)
           /\ \A a, d : d # c => (Held(queue', a, d) <=> Held(queue, a, d))
           /\ \A a : Pending(queue', a) <=> Pending(queue, a) \/ a \in A
           /\ \A t \in {"engine up", "agps"} : Coming(queue', t) <=> Coming(queue, t)
<1>1. \A k \in DOMAIN r : \A a, d : Moves(r[k], a, d) <=> d = c /\ a \in A /\ r[k] = say[a]
  BY CallMoves
<1>2. \A a \in A : \E k \in DOMAIN r : r[k] = say[a] BY DEF Calls
<1>3. \A k \in DOMAIN r : r[k].type \in {"add", "remove"} => r[k].adapter \in A
  BY DEF Calls, IsNote, Moves
<1>4. \A a, d : Silent(r, a, d) <=> ~(d = c /\ a \in A) BY <1>1, <1>2 DEF Silent
<1>5. \A a, d : Held(r, a, d) => d = c BY <1>1 DEF Held
<1>6. \A a : Pending(r, a) <=> a \in A
  <2>1. ASSUME NEW a \in A PROVE Pending(r, a) BY <1>1, <1>2 DEF Pending, Moves
  <2> QED BY <1>3, <2>1 DEF Pending
<1>7. Messages(r) /\ queue' = queue \o r BY DEF Calls
<1>8. /\ Messages(queue')
      /\ \A a, d : Silent(queue', a, d) <=> Silent(queue, a, d) /\ Silent(r, a, d)
      /\ \A a, d : Held(queue', a, d) <=> Held(queue, a, d) \/ Held(r, a, d)
      /\ \A a : Pending(queue', a) <=> Pending(queue, a) \/ Pending(r, a)
      /\ \A t : Coming(queue', t) <=> Coming(queue, t) \/ Coming(r, t)
  BY <1>7, JoinedMessages
<1>9. ASSUME NEW t \in {"engine up", "agps"} PROVE ~Coming(r, t)
  <2>1. \A k \in DOMAIN r : r[k].type \in {"capabilities", "add", "remove"}
    <3>1. \A a \in A : say[a].type \in {"add", "remove"} BY DEF Calls, Moves
    <3> QED BY <3>1 DEF Calls
  <2> QED BY <2>1 DEF Coming
<1> QED BY <1>4, <1>5, <1>6, <1>8, <1>9

LEMMA CallLetsGo ==
    ASSUME Messages(queue), NEW c \in Clients, NEW A, NEW say, NEW r, Calls(c, A, say, r),
           NEW a, NEW d
    PROVE  LetsGo(queue', a, d) <=> LetsGo(queue, a, d) \/ (d = c /\ a \in A /\ Completes(say[a]))
<1>1. LetsGo(r, a, d) <=> d = c /\ a \in A /\ Completes(say[a])
  <2>1. ASSUME NEW k \in DOMAIN r, Moves(r[k], a, d) PROVE d = c /\ a \in A /\ r[k] = say[a]
    BY <2>1, CallMoves
  <2>2. ASSUME d = c, a \in A PROVE \E k \in DOMAIN r : r[k] = say[a] /\ Moves(r[k], a, d)
    BY <2>2 DEF Calls
  <2> QED BY <2>1, <2>2 DEF LetsGo
<1>2. Messages(r) /\ queue' = queue \o r BY DEF Calls
<1> QED BY <1>1, <1>2, JoinedMessages

LEMMA CallFits ==
    ASSUME Messages(queue), NEW c \in Clients, NEW A, NEW say, NEW r, Calls(c, A, say, r),
           NEW a, NEW d, NEW now, NEW given,
           IF d = c /\ a \in A THEN Part(a, Word(say[a])) = Part(a, given)
           ELSE Fits(queue, a, d, now, given)
    PROVE  Fits(queue', a, d, now, given)
<1>1. \A k \in DOMAIN r : Moves(r[k], a, d) => d = c /\ a \in A /\ r[k] = say[a] BY CallMoves
<1>2. Messages(r) /\ queue' = queue \o r BY DEF Calls
<1>3. CASE d = c /\ a \in A
  <2>1. PICK k \in DOMAIN r : r[k] = say[a] BY <1>3 DEF Calls
  <2>2. Moves(r[k], a, d) BY <1>3, <2>1 DEF Calls
  <2>3. ~Silent(r, a, d) BY <2>2 DEF Silent
  <2>4. \A j \in DOMAIN r : Moves(r[j], a, d) => Part(a, Word(r[j])) = Part(a, given)
    BY <1>1, <1>3
  <2> QED BY <1>2, <2>3, <2>4, JoinedFits
<1>4. CASE ~(d = c /\ a \in A)
  <2>1. Silent(r, a, d) BY <1>1, <1>4 DEF Silent
  <2>2. Fits(queue, a, d, now, given) BY <1>4
  <2> QED BY <1>2, <2>1, <2>2, JoinedFits
<1> QED BY <1>3, <1>4

LEMMA CallLast ==
    ASSUME Messages(queue), LastWord(queue), NEW c \in Clients, NEW A, NEW say, NEW r,
           Calls(c, A, say, r), \A a \in Adapters : ~LetsGo(queue, a, c)
    PROVE  LastWord(queue')
<1>1. Messages(r) /\ LastWord(r) /\ queue' = queue \o r BY DEF Calls
<1>2. ASSUME NEW a \in Adapters, NEW d \in Clients, LetsGo(queue, a, d) PROVE Silent(r, a, d)
  <2>1. d # c BY <1>2
  <2>2. \A k \in DOMAIN r : ~Moves(r[k], a, d) BY <2>1, CallMoves
  <2> QED BY <2>2 DEF Silent
<1> QED BY <1>1, <1>2, JoinedLast

(* A step that moves no client: at most a note is taken, and some come.      *)
NoteStep == \E r :
    /\ Notes(r) \/ ("gnss" \in Loaded /\ r = <<Msg("agps", "gnss", None)>>)
    /\ \/ queue' = queue \o r
       \/ /\ queue # <<>> /\ IsNote(Head(queue)) /\ queue' = Tail(queue) \o r
          /\ Head(queue).type = "engine up" => MsgHandleEngineUp
    /\ UNCHANGED <<life, clientData, waitMask, mClientData, loaded>>

LEMMA NotesKeep ==
    ASSUME Messages(queue), NoteStep
    PROVE  /\ Messages(queue')
           /\ \A a, d : Silent(queue', a, d) <=> Silent(queue, a, d)
           /\ \A a, d : LetsGo(queue', a, d) <=> LetsGo(queue, a, d)
           /\ \A a, d : Held(queue', a, d) <=> Held(queue, a, d)
           /\ \A a : Pending(queue', a) <=> Pending(queue, a)
           /\ \A a, d, now, given : Fits(queue, a, d, now, given) => Fits(queue', a, d, now, given)
           /\ LastWord(queue) => LastWord(queue')
           /\ Coming(queue', "agps") => Coming(queue, "agps") \/ "gnss" \in Loaded
           /\ Coming(queue, "engine up") => Coming(queue', "engine up") \/ MsgHandleEngineUp
<1> DEFINE Registers(r) == r = <<Msg("agps", "gnss", None)>>
<1>1. PICK r : /\ Notes(r) \/ ("gnss" \in Loaded /\ Registers(r))
               /\ \/ queue' = queue \o r
                  \/ /\ queue # <<>> /\ IsNote(Head(queue)) /\ queue' = Tail(queue) \o r
                     /\ Head(queue).type = "engine up" => MsgHandleEngineUp
  BY DEF NoteStep
<1>2. IsSeq(r) /\ \A k \in DOMAIN r : IsNote(r[k])
  <2>1. CASE Notes(r) BY <2>1 DEF Notes
  <2>2. CASE Registers(r)
    <3> DEFINE m == Msg("agps", "gnss", None)
    <3>1. IsNote(m) BY DEF IsNote, Msg, Adapters
    <3>2. r = <<m>> BY <2>2
    <3> HIDE DEF m
    <3>3. r \in Seq({m}) /\ DOMAIN r = {1} /\ r[1] = m BY <3>2
    <3> QED BY <3>1, <3>3, SeqOfItsElements
  <2> QED BY <1>1, <2>1, <2>2
<1>3. Messages(r) /\ \A k \in DOMAIN r : r[k].type \notin {"add", "remove"}
  BY <1>2 DEF Messages, IsNote
<1>4. Coming(r, "agps") => "gnss" \in Loaded BY <1>1 DEF Notes, Coming
<1> HIDE DEF Registers
<1>5. /\ \A a, d : Silent(r, a, d) /\ ~LetsGo(r, a, d) /\ ~Held(r, a, d)
      /\ \A a : ~Pending(r, a)
      /\ LastWord(r)
  BY <1>3 DEF Silent, LetsGo, Held, Pending, LastWord, Moves, Completes
<1>6. PICK q : /\ Messages(q) /\ queue' = q \o r
               /\ \A a, d : Silent(q, a, d) <=> Silent(queue, a, d)
               /\ \A a, d : LetsGo(q, a, d) <=> LetsGo(queue, a, d)
               /\ \A a, d : Held(q, a, d) <=> Held(queue, a, d)
               /\ \A a : Pending(q, a) <=> Pending(queue, a)
               /\ \A a, d, now, given : Fits(queue, a, d, now, given) => Fits(q, a, d, now, given)
               /\ LastWord(queue) => LastWord(q)
               /\ Coming(q, "agps") => Coming(queue, "agps")
               /\ Coming(queue, "engine up") => Coming(q, "engine up") \/ MsgHandleEngineUp
  <2>1. CASE queue' = queue \o r BY <1>3, <2>1
  <2>2. CASE /\ queue # <<>> /\ IsNote(Head(queue)) /\ queue' = Tail(queue) \o r
             /\ Head(queue).type = "engine up" => MsgHandleEngineUp
    <3> DEFINE h == Head(queue)
               q == Tail(queue)
    <3>1. h.type \notin {"add", "remove"} BY <2>2 DEF IsNote
    <3>2. ~Completes(h) /\ \A a, d : ~Moves(h, a, d) BY <3>1 DEF Completes, Moves
    <3>3. /\ Messages(q)
          /\ \A a, d : Silent(queue, a, d) <=> ~Moves(h, a, d) /\ Silent(q, a, d)
          /\ \A a, d : LetsGo(queue, a, d) <=>
                (Completes(h) /\ Moves(h, a, d)) \/ LetsGo(q, a, d)
          /\ \A a, d : Held(queue, a, d) <=>
                \/ (h.type = "add" \/ Completes(h)) /\ Moves(h, a, d)
                \/ Held(q, a, d)
          /\ \A a : Pending(queue, a) <=>
                (h.type \in {"add", "remove"} /\ h.adapter = a) \/ Pending(q, a)
          /\ \A t : Coming(queue, t) <=> (h.type = t /\ h.adapter = "gnss") \/ Coming(q, t)
      BY <2>2, RemovedMessages
    <3>4. \A a, d, now, given : Fits(queue, a, d, now, given) => Fits(q, a, d, now, given)
      BY <2>2, <3>2, RemovedFits
    <3>5. LastWord(queue) => LastWord(q) BY <2>2, RemovedLast
    <3>6. queue' = q \o r /\ (h.type = "engine up" => MsgHandleEngineUp) BY <2>2
    <3> HIDE DEF h, q
    <3> QED BY <3>1, <3>2, <3>3, <3>4, <3>5, <3>6
  <2> QED BY <1>1, <2>1, <2>2
<1>7. /\ Messages(queue')
      /\ \A a, d : Silent(queue', a, d) <=> Silent(queue, a, d)
      /\ \A a, d : LetsGo(queue', a, d) <=> LetsGo(queue, a, d)
      /\ \A a, d : Held(queue', a, d) <=> Held(queue, a, d)
      /\ \A a : Pending(queue', a) <=> Pending(queue, a)
  BY <1>3, <1>5, <1>6, JoinedMessages
<1>8. \A a, d, now, given : Fits(queue, a, d, now, given) => Fits(queue', a, d, now, given)
  BY <1>3, <1>5, <1>6, JoinedFits
<1>9. LastWord(queue) => LastWord(queue') BY <1>3, <1>5, <1>6, JoinedLast
<1>10. /\ Coming(queue', "agps") => Coming(queue, "agps") \/ "gnss" \in Loaded
       /\ Coming(queue, "engine up") => Coming(queue', "engine up") \/ MsgHandleEngineUp
  <2>1. \A t : Coming(queue', t) <=> Coming(q, t) \/ Coming(r, t) BY <1>3, <1>6, JoinedMessages
  <2> QED BY <1>4, <1>6, <2>1
<1> QED BY <1>7, <1>8, <1>9, <1>10

-----------------------------------------------------------------------------
(* The steps that move no client                                             *)

LEMMA NoNotes ==
    ASSUME NEW q, Messages(q)
    PROVE  q = q \o <<>> /\ Notes(<<>>)
<1>1. q \in Seq({q[k] : k \in DOMAIN q}) BY DEF Messages, IsSeq
<1>2. q = q \o <<>> BY <1>1
<1> QED BY <1>2, NoElements DEF Notes

LEMMA OneNote ==
    ASSUME NEW m, IsNote(m), m.type # "agps"
    PROVE  Notes(<<m>>)
<1> DEFINE r == <<m>>
<1>1. r \in Seq({m}) /\ DOMAIN r = {1} /\ r[1] = m  OBVIOUS
<1> HIDE DEF r
<1>2. IsSeq(r) BY <1>1, SeqOfItsElements
<1>3. Notes(r) BY <1>1, <1>2 DEF Notes
<1> QED BY <1>3 DEF r

LEMMA TwoNotes ==
    ASSUME NEW q, Notes(q), NEW r, Notes(r), NEW s, s = q \o r
    PROVE  Notes(s)
<1>1. IsSeq(q) /\ IsSeq(r) BY DEF Notes
<1>2. /\ IsSeq(s) /\ DOMAIN s = 1..(Len(q) + Len(r))
      /\ DOMAIN q = 1..Len(q) /\ Len(q) \in Nat /\ DOMAIN r = 1..Len(r) /\ Len(r) \in Nat
  BY <1>1, Joined
<1>3. \A k \in DOMAIN q : s[k] = q[k] BY <1>1, Joined
<1>4. \A k \in DOMAIN r : s[Len(q) + k] = r[k] BY <1>1, Joined
<1>5. ASSUME NEW k \in DOMAIN s PROVE IsNote(s[k]) /\ s[k].type # "agps"
  <2>1. CASE k \in DOMAIN q BY <1>3, <2>1 DEF Notes
  <2>2. CASE k \notin DOMAIN q
    <3>1. k - Len(q) \in DOMAIN r /\ Len(q) + (k - Len(q)) = k BY <1>2, <2>2
    <3> QED BY <1>4, <3>1 DEF Notes
  <2> QED BY <2>1, <2>2
<1> QED BY <1>2, <1>5 DEF Notes

(* What LocApi tells the adapters in s                                       *)
LEMMA NotesOf ==
    ASSUME NEW s \in Seq(Adapters), NEW t \in {"engine up", "lock state"},
           NEW r, IsFunction(r), DOMAIN r = DOMAIN s,
           \A i \in DOMAIN s : r[i] = Msg(t, s[i], None)
    PROVE  Notes(r)
<1>1. Len(s) \in Nat /\ DOMAIN s = 1..Len(s) /\ \A i \in DOMAIN s : s[i] \in Adapters
  BY LenProperties
<1>2. IsSeq(r)
  <2> DEFINE n == Len(s)
  <2>1. n \in Nat /\ DOMAIN s = 1..n BY <1>1
  <2> HIDE DEF n
  <2>2. r = [k \in 1..n |-> r[k]] BY <2>1 DEF IsFunction
  <2> QED BY <2>1, <2>2, SeqOfNumbers
<1>3. \A i \in DOMAIN s :
        IsNote(Msg(t, s[i], None)) /\ Msg(t, s[i], None).type # "agps"
  BY <1>1 DEF IsNote, Msg
<1> QED BY <1>2, <1>3 DEF Notes

LEMMA EngineUpNotes ==
    ASSUME NEW s \in Seq(Adapters), EngineUp(s)
    PROVE  \E r : /\ Notes(r) /\ queue' = queue \o r
                  /\ (\E i \in DOMAIN s : s[i] = "gnss") => Coming(r, "engine up")
<1> DEFINE r == [i \in DOMAIN s |-> Msg("engine up", s[i], None)]
<1>1. /\ queue' = queue \o r
      /\ IsFunction(r) /\ DOMAIN r = DOMAIN s
      /\ \A i \in DOMAIN s : r[i] = Msg("engine up", s[i], None)
  BY DEF EngineUp, IsFunction
<1> HIDE DEF r
<1>2. Notes(r) BY <1>1, NotesOf
<1>3. (\E i \in DOMAIN s : s[i] = "gnss") => Coming(r, "engine up")
  <2>1. ASSUME NEW i \in DOMAIN r PROVE r[i].type = "engine up" /\ r[i].adapter = s[i]
    <3>1. r[i] = Msg("engine up", s[i], None) /\ i \in DOMAIN s BY <1>1
    <3> DEFINE a == s[i]
               m == r[i]
    <3>2. m = Msg("engine up", a, None) BY <3>1
    <3> HIDE DEF a, m
    <3>3. m.type = "engine up" /\ m.adapter = a BY <3>2 DEF Msg
    <3> QED BY <3>3 DEF a, m
  <2> QED BY <1>1, <2>1 DEF Coming
<1> QED BY <1>1, <1>2, <1>3

LEMMA OpenNotes ==
    ASSUME Shape, LocOpenMsg
    PROVE  \E r : /\ Notes(r) /\ queue' = queue \o r
                  /\ \/ /\ \E i \in DOMAIN apiQueue : apiQueue[i].type = "restart"
                        /\ UNCHANGED modem
                     \/ open /\ (Head(apiQueue) = Open("gnss") => Coming(r, "engine up"))
<1>1. CASE /\ \E i \in DOMAIN apiQueue : apiQueue[i].type = "restart"
           /\ UNCHANGED <<modem, queue>>
  BY <1>1, NoNotes DEF Shape
<1>2. CASE LET a == Head(apiQueue).adapter
           IN  open /\ EngineUp(IF a = None THEN <<>> ELSE <<a>>)
  <2> DEFINE a == Head(apiQueue).adapter
             s == IF a = None THEN <<>> ELSE <<a>>
  <2>1. open /\ EngineUp(s) BY <1>2
  <2>2. a \in Adapters \cup {None}
    <3>1. IsSeq(apiQueue) /\ apiQueue # <<>> /\ Head(apiQueue).type = "open"
      BY DEF Shape, Requests, LocOpenMsg
    <3>2. 1 \in DOMAIN apiQueue /\ Head(apiQueue) = apiQueue[1] BY <3>1, Removed
    <3> QED BY <3>1, <3>2 DEF Shape, Requests, Open
  <2>3. s \in Seq(Adapters) BY <2>2
  <2>4. Head(apiQueue) = Open("gnss") => \E i \in DOMAIN s : s[i] = "gnss"
    BY ClientsAssumption DEF Open, Adapters
  <2> HIDE DEF s
  <2> QED BY <2>1, <2>3, <2>4, EngineUpNotes
<1> QED BY <1>1, <1>2 DEF LocOpenMsg

LEMMA FlushNotes ==
    ASSUME Shape, queue # <<>>, NEW a \in Adapters, Flush(a)
    PROVE  /\ \E r : Notes(r) /\ queue' = Tail(queue) \o r
           /\ \A b \in Adapters : Notes(mPendingMsgs'[b])
           /\ mPendingMsgs' = [b \in Adapters |-> mPendingMsgs'[b]]
<1>1. CASE unlocked BY <1>1, NoElements DEF Flush, Shape, Notes
<1>2. CASE ~unlocked
  <2>1. Messages(Tail(queue)) BY RemovedMessages DEF Shape
  <2> QED BY <1>2, <2>1, NoNotes DEF Flush, Shape
<1> QED BY <1>1, <1>2

LEMMA HeadIs ==
    ASSUME Shape, queue # <<>>
    PROVE  /\ IsAdd(Head(queue)) \/ IsRemove(Head(queue)) \/ IsNote(Head(queue))
           /\ Messages(Tail(queue))
           /\ Head(queue).type = "add" => IsAdd(Head(queue))
           /\ Head(queue).type = "remove" => IsRemove(Head(queue))
           /\ Head(queue).type \notin {"add", "remove"} => IsNote(Head(queue))
           /\ Head(queue).adapter \in Adapters
<1>1. /\ IsAdd(Head(queue)) \/ IsRemove(Head(queue)) \/ IsNote(Head(queue))
      /\ Messages(Tail(queue))
  BY RemovedMessages DEF Shape
<1> DEFINE h == Head(queue)
<1> HIDE DEF h
<1>2. IsAdd(h) => h.type = "add" /\ h.adapter \in Adapters BY DEF IsAdd, Add
<1>3. IsRemove(h) => h.type = "remove" /\ h.adapter \in Adapters BY DEF IsRemove, Remove
<1>4. IsNote(h) => h.type \notin {"add", "remove"} /\ h.adapter \in Adapters BY DEF IsNote
<1> QED BY <1>1, <1>2, <1>3, <1>4 DEF h

LEMMA NoteSteps ==
    ASSUME Shape,
           \/ initAgpsCommand \/ MsgRequestCapabilities \/ MsgHandleEngineUp
           \/ MsgEngineLockState \/ AgpsMsgInit \/ LocOpenMsg \/ LocSsrMsg
           \/ EngineDown \/ EngineUnlocks \/ UNCHANGED vars
    PROVE  NoteStep
<1>1. CASE initAgpsCommand
  <2> DEFINE m == Msg("agps", "gnss", None)
  <2>1. "gnss" \in Loaded BY <1>1 DEF initAgpsCommand
  <2>2. queue' = queue \o <<m>>
    <3>1. queue' = Append(queue, m) BY <1>1 DEF initAgpsCommand
    <3>2. queue \in Seq({queue[k] : k \in DOMAIN queue}) BY DEF Shape, Messages, IsSeq
    <3> QED BY <3>1, <3>2
  <2>3. UNCHANGED <<life, clientData, waitMask, mClientData, loaded>>
    BY <1>1 DEF initAgpsCommand, gData, adapters
  <2> QED BY <2>1, <2>2, <2>3 DEF NoteStep
<1>2. ASSUME \/ Handle("capabilities") \/ Handle("lock state") \/ Handle("agps")
             \/ Handle("engine up") /\ MsgHandleEngineUp,
             UNCHANGED <<life, clientData, waitMask, mClientData, loaded>>,
             \/ queue' = Tail(queue)
             \/ Flush(Head(queue).adapter)
      PROVE  NoteStep
  <2>1. /\ queue # <<>> /\ Head(queue).type \notin {"add", "remove"}
        /\ Head(queue).type = "engine up" => MsgHandleEngineUp
    BY <1>2 DEF Handle
  <2>2. IsNote(Head(queue)) /\ Messages(Tail(queue)) /\ Head(queue).adapter \in Adapters
    BY <2>1, HeadIs
  <2>3. \E r : Notes(r) /\ queue' = Tail(queue) \o r BY <1>2, <2>1, <2>2, NoNotes, FlushNotes
  <2> QED BY <1>2, <2>1, <2>2, <2>3, Zenon DEF NoteStep
<1>3. CASE MsgRequestCapabilities BY <1>2, <1>3 DEF MsgRequestCapabilities, gData
<1>4. CASE MsgHandleEngineUp
  <2>1. /\ Handle("engine up") /\ Flush(Head(queue).adapter)
        /\ UNCHANGED <<life, clientData, waitMask, mClientData, loaded>>
    BY <1>4 DEF MsgHandleEngineUp, gData
  <2> QED BY <1>2, <1>4, <2>1
<1>5. CASE MsgEngineLockState BY <1>2, <1>5 DEF MsgEngineLockState, gData
<1>6. CASE AgpsMsgInit BY <1>2, <1>6 DEF AgpsMsgInit, gData
<1>7. CASE LocOpenMsg
  <2>1. UNCHANGED <<life, clientData, waitMask, mClientData, loaded>>
    BY <1>7 DEF LocOpenMsg, gData, adapters
  <2> QED BY <1>7, <2>1, OpenNotes DEF NoteStep
<1>8. CASE LocSsrMsg
  <2>1. UNCHANGED <<life, clientData, waitMask, mClientData, loaded>> /\ EngineUp(loaded)
    BY <1>8 DEF LocSsrMsg, gData, adapters
  <2> QED BY <2>1, EngineUpNotes DEF NoteStep, Shape
<1>9. CASE EngineDown \/ UNCHANGED vars
  <2>1. UNCHANGED <<life, clientData, waitMask, mClientData, loaded, queue>>
    BY <1>9 DEF EngineDown, vars, gData, adapters
  <2> QED BY <2>1, NoNotes DEF NoteStep, Shape
<1>10. CASE EngineUnlocks
  <2> DEFINE Tell(i) == IF i \in DOMAIN loaded /\ loaded[i] # "geofence"
                        THEN <<Msg("lock state", loaded[i], None)>> ELSE <<>>
             x == Tell(1)
             y == Tell(2)
             z == Tell(3)
             xy == x \o y
             r == xy \o z
  <2>1. queue' = queue \o r /\ xy = x \o y /\ r = xy \o z BY <1>10 DEF EngineUnlocks
  <2>2. ASSUME NEW i PROVE Notes(Tell(i))
    <3>1. CASE i \in DOMAIN loaded /\ loaded[i] # "geofence"
      <4>1. loaded[i] \in Adapters BY <3>1, LenProperties DEF Shape
      <4>2. /\ IsNote(Msg("lock state", loaded[i], None))
            /\ Msg("lock state", loaded[i], None).type # "agps"
        BY <4>1 DEF IsNote, Msg
      <4> QED BY <3>1, <4>2, OneNote
    <3>2. CASE ~(i \in DOMAIN loaded /\ loaded[i] # "geofence") BY <3>2, NoElements DEF Notes
    <3> QED BY <3>1, <3>2
  <2>3. Notes(x) /\ Notes(y) /\ Notes(z) BY <2>2
  <2> HIDE DEF Tell, x, y, z, xy, r
  <2>4. Notes(xy) BY <2>1, <2>3, TwoNotes
  <2>5. Notes(r) BY <2>1, <2>3, <2>4, TwoNotes
  <2>6. UNCHANGED <<life, clientData, waitMask, mClientData, loaded>>
    BY <1>10 DEF EngineUnlocks, gData, adapters
  <2> QED BY <2>1, <2>5, <2>6 DEF NoteStep
<1> QED BY <1>1, <1>3, <1>4, <1>5, <1>6, <1>7, <1>8, <1>9, <1>10

-----------------------------------------------------------------------------
(* Types and shape                                                           *)

LEMMA CreateSets ==
    ASSUME Shape, NEW c \in Clients, NEW callbacks \in CallbackSets, createInstance(c, callbacks)
    PROVE  Loaded' = Loaded \cup First(callbacks) /\ First(callbacks) \subseteq Adapters
<1>1. First(callbacks) \subseteq Adapters /\ loadLib(First(callbacks)) BY CreateCalls DEF Calls
<1> QED BY <1>1, Loads

LEMMA UpdateSets ==
    ASSUME Shape, NEW c \in Clients, NEW callbacks \in CallbackSets, updateCallbacks(c, callbacks)
    PROVE  Loaded' = Loaded \cup Kinds(callbacks) /\ Kinds(callbacks) \subseteq Adapters
<1>1. Kinds(callbacks) \subseteq Adapters BY KindsAreAdapters, ClientsAssumption
<1> QED BY <1>1, UpdateCalls, Loads

(* A client that is taken on or let go of                                    *)
LEMMA AddIs ==
    ASSUME Shape, MsgAddClient
    PROVE  \E a \in Adapters, c \in Clients, callbacks \in SUBSET Callbacks :
            /\ queue # <<>> /\ Head(queue) = Add(a, c, callbacks)
            /\ queue' = Tail(queue)
            /\ SaveData(a, [mClientData[a] EXCEPT ![c] = callbacks])
            /\ UNCHANGED <<life, clientData, waitMask, loaded, features, modem, world,
                           mPendingMsgs>>
<1>1. queue # <<>> /\ Head(queue).type = "add" BY DEF MsgAddClient, Handle
<1>2. PICK a \in Adapters, c \in Clients, callbacks \in SUBSET Callbacks :
        Head(queue) = Add(a, c, callbacks)
  BY <1>1, HeadIs DEF IsAdd
<1>3. /\ Head(queue).adapter = a /\ Head(queue).client = c /\ Head(queue).callbacks = callbacks
  BY <1>2 DEF Add
<1> QED BY <1>1, <1>2, <1>3 DEF MsgAddClient, gData, surroundings

LEMMA RemoveIs ==
    ASSUME Shape, MsgRemoveClient
    PROVE  \E a \in Adapters, c \in Clients, cb \in BOOLEAN :
            /\ queue # <<>> /\ Head(queue) = Remove(a, c, cb)
            /\ queue' = Tail(queue)
            /\ SaveData(a, [mClientData[a] EXCEPT ![c] = None])
            /\ cb = TRUE => onRemoveClientCompleteCb(c, a)
            /\ cb = FALSE => UNCHANGED <<life, waitMask>>
            /\ UNCHANGED <<clientData, loaded, features, modem, world, mPendingMsgs>>
<1>1. queue # <<>> /\ Head(queue).type = "remove" BY DEF MsgRemoveClient, Handle
<1>2. PICK a \in Adapters, c \in Clients, cb \in BOOLEAN : Head(queue) = Remove(a, c, cb)
  BY <1>1, HeadIs DEF IsRemove
<1>3. Head(queue).adapter = a /\ Head(queue).client = c /\ Head(queue).complete = cb
  BY <1>2 DEF Remove
<1>4. /\ SaveData(a, [mClientData[a] EXCEPT ![c] = None])
      /\ queue' = Tail(queue)
      /\ UNCHANGED <<clientData, loaded, features, modem, world, mPendingMsgs>>
  BY <1>3 DEF MsgRemoveClient, surroundings
<1>5. cb = TRUE => onRemoveClientCompleteCb(c, a) BY <1>3 DEF MsgRemoveClient
<1>6. cb = FALSE => UNCHANGED <<life, waitMask>> BY <1>3 DEF MsgRemoveClient
<1> QED BY <1>1, <1>2, <1>4, <1>5, <1>6

NoteAction ==
    \/ initAgpsCommand \/ MsgRequestCapabilities \/ MsgHandleEngineUp
    \/ MsgEngineLockState \/ AgpsMsgInit \/ LocOpenMsg \/ LocSsrMsg
    \/ EngineDown \/ EngineUnlocks \/ UNCHANGED vars

(* Every step is a call, a client taken on or let go of, or moves no client. *)
LEMMA Steps ==
    ASSUME [Next]_vars
    PROVE  \/ \E c \in Clients, callbacks \in CallbackSets : createInstance(c, callbacks)
           \/ \E c \in Clients, callbacks \in CallbackSets : updateCallbacks(c, callbacks)
           \/ \E c \in Clients, callback \in BOOLEAN : destroy(c, callback)
           \/ MsgAddClient \/ MsgRemoveClient
           \/ NoteAction
  BY Zenon DEF Next, NoteAction

LEMMA NextType == ASSUME TypeOK, Shape, LifeInv, [Next]_vars PROVE TypeOK'
<1>1. ASSUME NEW c \in Clients, NEW callbacks \in CallbackSets, createInstance(c, callbacks)
      PROVE  TypeOK'
  <2>1. callbacks \in SUBSET Callbacks /\ callbacks # None BY ClientsAssumption
  <2>2. Loaded \subseteq Loaded' BY <1>1, CreateSets
  <2>3. /\ UNCHANGED <<mClientData, features, waitMask>> /\ life[c] = "free"
        /\ life' = [life EXCEPT ![c] = "live"]
        /\ clientData' = [clientData EXCEPT ![c] = callbacks]
    BY <1>1 DEF createInstance, loadLib
  <2> QED BY <2>1, <2>2, <2>3 DEF TypeOK
<1>2. ASSUME NEW c \in Clients, NEW callbacks \in CallbackSets, updateCallbacks(c, callbacks)
      PROVE  TypeOK'
  <2>1. callbacks \in SUBSET Callbacks /\ callbacks # None BY ClientsAssumption
  <2>2. Loaded \subseteq Loaded' BY <1>2, UpdateSets
  <2>3. /\ UNCHANGED <<mClientData, features, waitMask, life>> /\ life[c] = "live"
        /\ clientData' = [clientData EXCEPT ![c] = callbacks]
    BY <1>2 DEF updateCallbacks, loadLib
  <2> QED BY <2>1, <2>2, <2>3 DEF TypeOK
<1>3. ASSUME NEW c \in Clients, NEW callback \in BOOLEAN, destroy(c, callback)
      PROVE  TypeOK'
  <2>1. /\ UNCHANGED <<mClientData, features, loaded>> /\ life[c] = "live"
        /\ clientData' = [clientData EXCEPT ![c] = None]
        /\ \/ /\ life' = [life EXCEPT ![c] = "leaving"]
              /\ waitMask' = [waitMask EXCEPT ![c] = Loaded]
           \/ life' = [life EXCEPT ![c] = "left"] /\ UNCHANGED waitMask
    BY <1>3 DEF destroy, Leave, WaitFor, adapters
  <2>2. Loaded # {} /\ Loaded' = Loaded BY <2>1 DEF LifeInv, LifeOf, Loaded
  <2>3. CASE life' = [life EXCEPT ![c] = "left"] /\ UNCHANGED waitMask
    BY <2>1, <2>2, <2>3 DEF TypeOK
  <2>4. CASE /\ life' = [life EXCEPT ![c] = "leaving"]
             /\ waitMask' = [waitMask EXCEPT ![c] = Loaded]
    BY <2>1, <2>2, <2>4 DEF TypeOK
  <2> QED BY <2>1, <2>3, <2>4
<1>4. CASE MsgAddClient
  <2>1. PICK a \in Adapters, c \in Clients, callbacks \in SUBSET Callbacks :
            /\ SaveData(a, [mClientData[a] EXCEPT ![c] = callbacks])
            /\ UNCHANGED <<life, clientData, waitMask, loaded, features>>
    BY <1>4, AddIs
  <2>2. mClientData' \in [Adapters -> [Clients -> {None} \cup SUBSET Callbacks]]
    BY <2>1 DEF TypeOK, SaveData
  <2>3. Loaded' = Loaded BY <2>1 DEF Loaded
  <2> QED BY <2>1, <2>2, <2>3 DEF TypeOK
<1>5. CASE MsgRemoveClient
  <2>1. PICK a \in Adapters, c \in Clients, cb \in BOOLEAN :
            /\ SaveData(a, [mClientData[a] EXCEPT ![c] = None])
            /\ cb = TRUE => onRemoveClientCompleteCb(c, a)
            /\ cb = FALSE => UNCHANGED <<life, waitMask>>
            /\ UNCHANGED <<clientData, loaded, features>>
    BY <1>5, RemoveIs
  <2>2. mClientData' \in [Adapters -> [Clients -> {None} \cup SUBSET Callbacks]]
    BY <2>1 DEF TypeOK, SaveData
  <2>3. Loaded' = Loaded BY <2>1 DEF Loaded
  <2>4. CASE UNCHANGED <<life, waitMask>> BY <2>1, <2>2, <2>3, <2>4 DEF TypeOK
  <2>5. CASE onRemoveClientCompleteCb(c, a)
    <3>1. waitMask' \in [Clients -> SUBSET Loaded] BY <2>5 DEF TypeOK, onRemoveClientCompleteCb
    <3>2. CASE waitMask[c] # {} /\ waitMask[c] \ {a} = {}
      BY <2>1, <2>2, <2>3, <2>5, <3>1, <3>2 DEF TypeOK, onRemoveClientCompleteCb
    <3>3. CASE ~(waitMask[c] # {} /\ waitMask[c] \ {a} = {})
      BY <2>1, <2>2, <2>3, <2>5, <3>1, <3>3 DEF TypeOK, onRemoveClientCompleteCb
    <3> QED BY <3>2, <3>3
  <2> QED BY <2>1, <2>4, <2>5
<1>6. CASE NoteAction
  <2>1. UNCHANGED <<life, clientData, waitMask, mClientData, loaded>>
    BY <1>6, NoteSteps, Zenon DEF NoteStep, NoteAction
  <2>2. Loaded' = Loaded BY <2>1 DEF Loaded
  <2>3. features' \subseteq {"nmea", "agps"}
    <3>1. CASE UNCHANGED features BY <3>1 DEF TypeOK
    <3>2. CASE MsgHandleEngineUp BY <3>2 DEF TypeOK, MsgHandleEngineUp, setConfig
    <3>3. CASE AgpsMsgInit BY <3>3 DEF TypeOK, AgpsMsgInit
    <3>4. NoteAction => UNCHANGED features \/ MsgHandleEngineUp \/ AgpsMsgInit
      BY DEF NoteAction, initAgpsCommand, MsgRequestCapabilities, MsgEngineLockState,
        LocOpenMsg, LocSsrMsg, EngineDown, EngineUnlocks, adapters, vars
    <3> QED BY <1>6, <3>1, <3>2, <3>3, <3>4
  <2> QED BY <2>1, <2>2, <2>3 DEF TypeOK
<1> QED BY <1>1, <1>2, <1>3, <1>4, <1>5, <1>6, Steps

(* LocApi is asked to open the modem, or told that it is back.               *)
IsRequest(m) == m.type = "restart" \/ \E a \in Adapters \cup {None} : m = Open(a)

LEMMA RequestAdded ==
    ASSUME NEW q, Requests(q), NEW m, IsRequest(m)
    PROVE  /\ Requests(Append(q, m)) /\ Append(q, m) # <<>>
           /\ Opening(q) => Opening(Append(q, m))
           /\ m.type = "restart" => Opening(Append(q, m))
<1> DEFINE r == Append(q, m)
           n == Len(q)
<1>1. IsSeq(q) BY DEF Requests
<1>2. IsSeq(r) /\ n \in Nat /\ DOMAIN q = 1..n /\ DOMAIN r = 1..(n + 1) /\ r[n + 1] = m
  BY <1>1, Added
<1>3. \A k \in DOMAIN q : r[k] = q[k] BY <1>1, Added
<1> HIDE DEF r, n
<1>4. \A k \in DOMAIN r : k \in DOMAIN q \/ k = n + 1 BY <1>2
<1>5. Requests(r)
  <2>1. \A k \in DOMAIN r : IsRequest(r[k]) BY <1>2, <1>3, <1>4 DEF Requests, IsRequest
  <2> QED BY <1>2, <2>1 DEF Requests, IsRequest
<1>6. n + 1 \in DOMAIN r /\ r # <<>> BY <1>2
<1>7. Opening(q) => Opening(r) BY <1>2, <1>3 DEF Opening
<1>8. m.type = "restart" => Opening(r) BY <1>2, <1>6 DEF Opening
<1> QED BY <1>5, <1>6, <1>7, <1>8 DEF r

LEMMA RequestRemoved ==
    ASSUME NEW q, Requests(q), q # <<>>
    PROVE  /\ Requests(Tail(q)) /\ IsRequest(Head(q))
           /\ Opening(q) =>
                Opening(Tail(q)) \/ Head(q) = Open("gnss") \/ Head(q).type = "restart"
           /\ (\E i \in DOMAIN q : q[i].type = "restart") /\ Head(q).type # "restart" =>
                Opening(Tail(q)) /\ Tail(q) # <<>>
<1> DEFINE n == Len(q)
           r == Tail(q)
           h == Head(q)
<1>1. IsSeq(q) BY DEF Requests
<1>2. /\ IsSeq(r)
      /\ n \in Nat \ {0} /\ DOMAIN q = 1..n /\ DOMAIN r = 1..(n - 1)
      /\ \A k \in DOMAIN r : r[k] = q[k + 1]
      /\ h = q[1]
  BY <1>1, Removed
<1> HIDE DEF n, r, h
<1>3. 1 \in DOMAIN q /\ \A k \in DOMAIN r : k + 1 \in DOMAIN q BY <1>2
<1>4. \A k \in DOMAIN q : q[k] = h \/ \E j \in DOMAIN r : q[k] = r[j]
  <2> SUFFICES ASSUME NEW k \in DOMAIN q, k # 1 PROVE \E j \in DOMAIN r : q[k] = r[j] BY <1>2
  <2>1. k - 1 \in DOMAIN r /\ (k - 1) + 1 = k BY <1>2
  <2> QED BY <1>2, <2>1
<1>5. Requests(r) /\ IsRequest(h) BY <1>2, <1>3 DEF Requests, IsRequest
<1>6. Opening(q) => Opening(r) \/ h = Open("gnss") \/ h.type = "restart" BY <1>4 DEF Opening
<1>7. (\E i \in DOMAIN q : q[i].type = "restart") /\ h.type # "restart" =>
            Opening(r) /\ r # <<>>
  <2> SUFFICES ASSUME NEW i \in DOMAIN q, q[i].type = "restart", h.type # "restart"
               PROVE  Opening(r) /\ r # <<>>
    OBVIOUS
  <2>1. PICK j \in DOMAIN r : q[i] = r[j] BY <1>4
  <2> QED BY <2>1 DEF Opening
<1> QED BY <1>5, <1>6, <1>7 DEF r, h

(* An adapter that changes its mask asks for the modem to be opened.         *)
LEMMA MaskAsked ==
    ASSUME Shape, NEW a \in Adapters, NEW mask, updateEvtMask(a, mask)
    PROVE  /\ Requests(apiQueue') /\ apiQueue' # <<>>
           /\ Opening(apiQueue) => Opening(apiQueue')
           /\ mEvtMask' = [mEvtMask EXCEPT ![a] = mask]
           /\ mEvtMask' = [b \in Adapters |-> mEvtMask'[b]]
<1>1. IsRequest(Open(None)) /\ apiQueue' = Append(apiQueue, Open(None))
  BY DEF IsRequest, updateEvtMask
<1>2. mEvtMask' = [mEvtMask EXCEPT ![a] = mask] /\ mEvtMask = [b \in Adapters |-> mEvtMask[b]]
  BY DEF updateEvtMask, Shape
<1>3. mEvtMask' = [b \in Adapters |-> mEvtMask'[b]] BY <1>2
<1> QED BY <1>1, <1>2, <1>3, RequestAdded DEF Shape

LEMMA ConfigAsked ==
    ASSUME Shape, NEW data, setConfig(data)
    PROVE  /\ Requests(apiQueue') /\ apiQueue' # <<>>
           /\ Opening(apiQueue) => Opening(apiQueue')
           /\ mEvtMask' = [b \in Adapters |-> mEvtMask'[b]]
<1> DEFINE o == Open(None)
           q == Append(apiQueue, o)
<1>1. IsRequest(o) BY DEF IsRequest
<1>2. apiQueue \in Seq({apiQueue[k] : k \in DOMAIN apiQueue}) /\ Requests(apiQueue)
  BY DEF Shape, Requests, IsSeq
<1>3. apiQueue \o <<o>> = q /\ apiQueue \o <<o, o>> = Append(q, o) BY <1>2
<1>4. apiQueue' = q \/ apiQueue' = Append(q, o)
  <2>1. apiQueue' = apiQueue \o <<o>> \/ apiQueue' = apiQueue \o <<o, o>> BY DEF setConfig
  <2> QED BY <1>3, <2>1
<1>5. mEvtMask' = [b \in Adapters |-> mEvtMask'[b]]
  <2>1. mEvtMask = [b \in Adapters |-> mEvtMask[b]] BY DEF Shape
  <2> QED BY <2>1 DEF setConfig
<1>6. q = Append(apiQueue, o)  OBVIOUS
<1> HIDE DEF o, q
<1>7. /\ Requests(q) /\ q # <<>>
      /\ Opening(apiQueue) => Opening(q)
  BY <1>1, <1>2, <1>6, RequestAdded
<1>8. /\ Requests(Append(q, o)) /\ Append(q, o) # <<>>
      /\ Opening(q) => Opening(Append(q, o))
  BY <1>1, <1>7, RequestAdded
<1> QED BY <1>4, <1>5, <1>7, <1>8

LEMMA NextShape == ASSUME Shape, [Next]_vars PROVE Shape'
<1>1. ASSUME NEW c \in Clients, NEW callbacks \in CallbackSets, createInstance(c, callbacks)
      PROVE  Shape'
  <2>1. Messages(queue') /\ loadLib(First(callbacks)) /\ First(callbacks) \subseteq Adapters
    <3>1. loadLib(First(callbacks)) /\ First(callbacks) \subseteq Adapters
      BY <1>1, CreateCalls, CreateSets
    <3>2. Messages(queue') BY <1>1, CreateCalls, CallHeard DEF Shape
    <3> QED BY <3>1, <3>2
  <2>2. loaded' \in Seq(Adapters) /\ Requests(apiQueue') /\ UNCHANGED <<mPendingMsgs, mEvtMask>>
    BY <2>1, Loads DEF loadLib
  <2> QED BY <2>1, <2>2 DEF Shape
<1>2. ASSUME NEW c \in Clients, NEW callbacks \in CallbackSets, updateCallbacks(c, callbacks)
      PROVE  Shape'
  <2>1. Messages(queue') /\ loadLib(Kinds(callbacks)) /\ Kinds(callbacks) \subseteq Adapters
    BY <1>2, UpdateCalls, UpdateSets, CallHeard DEF Shape
  <2>2. loaded' \in Seq(Adapters) /\ Requests(apiQueue') /\ UNCHANGED <<mPendingMsgs, mEvtMask>>
    BY <2>1, Loads DEF loadLib
  <2> QED BY <2>1, <2>2 DEF Shape
<1>3. ASSUME NEW c \in Clients, NEW callback \in BOOLEAN, destroy(c, callback)
      PROVE  Shape'
  <2>1. Messages(queue') BY <1>3, DestroyCalls, CallHeard DEF Shape
  <2>2. UNCHANGED <<mPendingMsgs, mEvtMask, loaded, apiQueue>> BY <1>3 DEF destroy, adapters
  <2> QED BY <2>1, <2>2 DEF Shape
<1>4. ASSUME NEW a \in Adapters, NEW data, SaveData(a, data), queue # <<>>, queue' = Tail(queue),
             UNCHANGED <<loaded, mPendingMsgs>>
      PROVE  Shape'
  <2>1. Messages(queue') BY <1>4, HeadIs
  <2>2. Requests(apiQueue') /\ mEvtMask' = [b \in Adapters |-> mEvtMask'[b]]
    BY <1>4, MaskAsked DEF SaveData
  <2> QED BY <1>4, <2>1, <2>2 DEF Shape
<1>5. CASE MsgAddClient BY <1>4, <1>5, AddIs
<1>6. CASE MsgRemoveClient BY <1>4, <1>6, RemoveIs
<1>7. CASE NoteAction
  <2>1. Messages(queue') /\ UNCHANGED loaded
    <3>1. NoteStep BY <1>7, NoteSteps, Zenon DEF NoteAction
    <3> QED BY <3>1, NotesKeep DEF Shape, NoteStep
  <2>2. ASSUME UNCHANGED mPendingMsgs PROVE
            \A a \in Adapters : Notes(mPendingMsgs'[a])
    BY <2>2 DEF Shape
  <2>3. CASE initAgpsCommand \/ UNCHANGED vars
    <3>1. UNCHANGED <<mPendingMsgs, mEvtMask, apiQueue>>
      BY <2>3 DEF initAgpsCommand, adapters, vars
    <3> QED BY <2>1, <3>1 DEF Shape
  <2>4. CASE MsgRequestCapabilities
    <3>1. queue # <<>> /\ UNCHANGED <<mEvtMask, apiQueue>> /\ Head(queue).type = "capabilities"
      BY <2>4 DEF MsgRequestCapabilities, Handle
    <3>2. IsNote(Head(queue)) /\ Head(queue).adapter \in Adapters BY <3>1, HeadIs
    <3>3. /\ \A a \in Adapters : Notes(mPendingMsgs'[a])
          /\ mPendingMsgs' = [a \in Adapters |-> mPendingMsgs'[a]]
      <4>1. CASE UNCHANGED mPendingMsgs BY <4>1 DEF Shape
      <4>2. CASE \E a \in Adapters :
                    mPendingMsgs' = [mPendingMsgs EXCEPT ![a] = Append(@, Head(queue))]
        <5>1. PICK a \in Adapters :
                    mPendingMsgs' = [mPendingMsgs EXCEPT ![a] = Append(@, Head(queue))]
          BY <4>2
        <5>2. /\ mPendingMsgs = [b \in Adapters |-> mPendingMsgs[b]]
              /\ \A b \in Adapters : Notes(mPendingMsgs[b])
          BY DEF Shape
        <5> DEFINE p == mPendingMsgs[a]
                   one == <<Head(queue)>>
        <5>3. Append(p, Head(queue)) = p \o one
          <6>1. p \in Seq({p[k] : k \in DOMAIN p}) BY <5>2 DEF Notes, IsSeq
          <6> QED BY <6>1
        <5>4. Notes(p) /\ Notes(one) BY <3>1, <3>2, <5>2, OneNote
        <5> HIDE DEF p, one
        <5>5. Notes(Append(p, Head(queue))) BY <5>3, <5>4, TwoNotes
        <5> QED BY <5>1, <5>2, <5>5 DEF p
      <4> QED BY <2>4, <3>2, <4>1, <4>2 DEF MsgRequestCapabilities
    <3> QED BY <2>1, <3>1, <3>3 DEF Shape
  <2>5. CASE MsgHandleEngineUp
    <3>1. queue # <<>> /\ Flush(Head(queue).adapter) BY <2>5 DEF MsgHandleEngineUp, Handle
    <3>2. Head(queue).adapter \in Adapters BY <3>1, HeadIs
    <3>3. /\ \A b \in Adapters : Notes(mPendingMsgs'[b])
          /\ mPendingMsgs' = [b \in Adapters |-> mPendingMsgs'[b]]
      BY <3>1, <3>2, FlushNotes
    <3>4. Requests(apiQueue') /\ mEvtMask' = [b \in Adapters |-> mEvtMask'[b]]
      <4>1. CASE UNCHANGED <<mEvtMask, apiQueue>> BY <4>1 DEF Shape
      <4>2. CASE \E data : setConfig(data) BY <4>2, ConfigAsked
      <4> QED BY <2>5, <4>1, <4>2 DEF MsgHandleEngineUp
    <3> QED BY <2>1, <3>3, <3>4 DEF Shape
  <2>6. CASE MsgEngineLockState
    <3>1. queue # <<>> /\ Flush(Head(queue).adapter) /\ UNCHANGED <<mEvtMask, apiQueue>>
      BY <2>6 DEF MsgEngineLockState, Handle
    <3>2. Head(queue).adapter \in Adapters BY <3>1, HeadIs
    <3>3. /\ \A b \in Adapters : Notes(mPendingMsgs'[b])
          /\ mPendingMsgs' = [b \in Adapters |-> mPendingMsgs'[b]]
      BY <3>1, <3>2, FlushNotes
    <3> QED BY <2>1, <3>1, <3>3 DEF Shape
  <2>7. CASE AgpsMsgInit
    <3>1. \E mask : updateEvtMask("gnss", mask) BY <2>7 DEF AgpsMsgInit
    <3>2. Requests(apiQueue') /\ mEvtMask' = [b \in Adapters |-> mEvtMask'[b]]
      BY <3>1, MaskAsked DEF Adapters
    <3>3. UNCHANGED mPendingMsgs BY <2>7 DEF AgpsMsgInit
    <3> QED BY <2>1, <3>2, <3>3 DEF Shape
  <2>8. CASE LocOpenMsg \/ LocSsrMsg
    <3>1. apiQueue # <<>> /\ apiQueue' = Tail(apiQueue) /\ UNCHANGED <<mPendingMsgs, mEvtMask>>
      BY <2>8 DEF LocOpenMsg, LocSsrMsg, adapters
    <3> QED BY <2>1, <3>1, RequestRemoved DEF Shape
  <2>9. CASE EngineDown
    <3>1. /\ apiQueue' = Append(apiQueue, [type |-> "restart"])
          /\ UNCHANGED <<mPendingMsgs, mEvtMask>>
      BY <2>9 DEF EngineDown, adapters
    <3>2. IsRequest([type |-> "restart"]) BY DEF IsRequest
    <3> QED BY <2>1, <3>1, <3>2, RequestAdded DEF Shape
  <2>10. CASE EngineUnlocks
    <3>1. UNCHANGED <<mPendingMsgs, mEvtMask, apiQueue>> BY <2>10 DEF EngineUnlocks, adapters
    <3> QED BY <2>1, <3>1 DEF Shape
  <2> QED BY <1>7, <2>3, <2>4, <2>5, <2>6, <2>7, <2>8, <2>9, <2>10 DEF NoteAction
<1> QED BY <1>1, <1>2, <1>3, <1>5, <1>6, <1>7, Steps

-----------------------------------------------------------------------------
(* The adapters know what was given, once the queue is worked off.           *)

LEMMA NextData == ASSUME TypeOK, Shape, DataInv, LifeInv, [Next]_vars PROVE DataInv'
<1>1. ASSUME NEW c \in Clients, NEW callbacks \in CallbackSets, createInstance(c, callbacks)
      PROVE  DataInv'
  <2> DEFINE A == First(callbacks)
             say == [a \in A |-> Add(a, c, callbacks)]
  <2>1. PICK r : Calls(c, A, say, r) BY <1>1, CreateCalls
  <2>2. callbacks \in SUBSET Callbacks /\ Messages(queue) BY ClientsAssumption DEF Shape
  <2>3. /\ UNCHANGED mClientData /\ life[c] = "free"
        /\ clientData' = [clientData EXCEPT ![c] = callbacks]
    BY <1>1 DEF createInstance, loadLib
  <2>4. \A a \in A : Word(say[a]) = callbacks BY DEF Word, Add
  <2>5. A = First(callbacks)  OBVIOUS
  <2> HIDE DEF A, say
  <2> SUFFICES ASSUME NEW a \in Adapters, NEW d \in Clients
               PROVE  Fits(queue', a, d, mClientData'[a][d], clientData'[d])
    BY DEF DataInv
  <2>6. Fits(queue, a, d, mClientData[a][d], clientData[d]) BY DEF DataInv
  <2>7. CASE d # c BY <2>1, <2>2, <2>3, <2>6, <2>7, CallFits DEF TypeOK
  <2>8. CASE d = c /\ a \in A
    <3>1. clientData'[d] = callbacks BY <2>3, <2>8 DEF TypeOK
    <3> QED BY <2>1, <2>2, <2>4, <2>8, <3>1, CallFits
  <2>9. CASE d = c /\ a \notin A
    <3>1. clientData'[d] = callbacks /\ a \notin Kinds(callbacks)
      BY <2>3, <2>5, <2>9 DEF TypeOK, First, Kinds
    <3>2. Part(a, clientData'[d]) = {} BY <2>2, <3>1, NoPart
    <3>3. Part(a, clientData[d]) = {} BY <2>3, <2>9 DEF TypeOK, Part
    <3>4. Fits(queue, a, d, mClientData[a][d], clientData'[d]) BY <2>6, <3>2, <3>3 DEF Fits
    <3> QED BY <2>1, <2>2, <2>3, <2>9, <3>4, CallFits
  <2> QED BY <2>7, <2>8, <2>9
<1>2. ASSUME NEW c \in Clients, NEW callbacks \in CallbackSets, updateCallbacks(c, callbacks)
      PROVE  DataInv'
  <2> DEFINE A == Told(c, callbacks)
             say == UpdateSays(c, callbacks)
  <2>1. PICK r : Calls(c, A, say, r) BY <1>2, UpdateCalls
  <2>2. callbacks \in SUBSET Callbacks /\ Messages(queue) BY ClientsAssumption DEF Shape
  <2>3. /\ UNCHANGED mClientData /\ life[c] = "live"
        /\ clientData' = [clientData EXCEPT ![c] = callbacks]
    BY <1>2 DEF updateCallbacks, loadLib
  <2>4. clientData'[c] = callbacks BY <2>3 DEF TypeOK
  <2>5. ASSUME NEW a \in A PROVE Part(a, Word(say[a])) = Part(a, callbacks)
    <3>1. CASE a \in Kinds(callbacks) BY <3>1 DEF UpdateSays, Word, Add
    <3>2. CASE a \notin Kinds(callbacks)
      <4>1. Word(say[a]) = None BY <3>2 DEF UpdateSays, Word, Remove
      <4>2. Part(a, callbacks) = {} BY <2>2, <3>2, NoPart
      <4> QED BY <4>1, <4>2 DEF Part
    <3> QED BY <3>1, <3>2
  <2>6. ASSUME NEW a \in Adapters, a \notin A
        PROVE  Part(a, clientData[c]) = {} /\ Part(a, callbacks) = {}
    <3>1. a \notin Kinds(callbacks) /\ (a \notin Kinds(clientData[c]) \/ a \notin Loaded)
      BY <2>6 DEF Told, Dropped
    <3>2. a \notin Kinds(clientData[c]) BY <2>3, <3>1 DEF LifeInv, LifeOf
    <3>3. clientData[c] \in {None} \cup SUBSET Callbacks BY DEF TypeOK
    <3> QED BY <2>2, <3>1, <3>2, <3>3, NoPart
  <2> HIDE DEF A, say
  <2> SUFFICES ASSUME NEW a \in Adapters, NEW d \in Clients
               PROVE  Fits(queue', a, d, mClientData'[a][d], clientData'[d])
    BY DEF DataInv
  <2>7. Fits(queue, a, d, mClientData[a][d], clientData[d]) BY DEF DataInv
  <2>8. CASE d # c BY <2>1, <2>2, <2>3, <2>7, <2>8, CallFits DEF TypeOK
  <2>9. CASE d = c /\ a \in A BY <2>1, <2>2, <2>4, <2>5, <2>9, CallFits
  <2>10. CASE d = c /\ a \notin A
    <3>1. Fits(queue, a, d, mClientData[a][d], clientData'[d])
      BY <2>4, <2>6, <2>7, <2>10 DEF Fits
    <3> QED BY <2>1, <2>2, <2>3, <2>10, <3>1, CallFits
  <2> QED BY <2>8, <2>9, <2>10
<1>3. ASSUME NEW c \in Clients, NEW callback \in BOOLEAN, destroy(c, callback)
      PROVE  DataInv'
  <2> DEFINE A == Loaded
             say == [a \in Loaded |-> Remove(a, c, TRUE)]
  <2>1. PICK r : Calls(c, A, say, r) BY <1>3, DestroyCalls
  <2>2. Messages(queue) BY DEF Shape
  <2>3. /\ UNCHANGED mClientData /\ life[c] = "live"
        /\ clientData' = [clientData EXCEPT ![c] = None]
    BY <1>3 DEF destroy, Leave, adapters
  <2>4. clientData'[c] = None BY <2>3 DEF TypeOK
  <2>5. \A a \in A : Word(say[a]) = None BY DEF Word, Remove
  <2>6. A = Loaded  OBVIOUS
  <2> HIDE DEF A, say
  <2> SUFFICES ASSUME NEW a \in Adapters, NEW d \in Clients
               PROVE  Fits(queue', a, d, mClientData'[a][d], clientData'[d])
    BY DEF DataInv
  <2>7. Fits(queue, a, d, mClientData[a][d], clientData[d]) BY DEF DataInv
  <2>8. CASE d # c BY <2>1, <2>2, <2>3, <2>7, <2>8, CallFits DEF TypeOK
  <2>9. CASE d = c /\ a \in A BY <2>1, <2>2, <2>4, <2>5, <2>9, CallFits
  <2>10. CASE d = c /\ a \notin A
    <3>1. a \notin Kinds(clientData[c]) /\ clientData[c] \in {None} \cup SUBSET Callbacks
      BY <2>3, <2>6, <2>10 DEF LifeInv, LifeOf, TypeOK
    <3>2. Part(a, clientData[c]) = {} /\ Part(a, None) = {} BY <3>1, NoPart DEF Part
    <3>3. Fits(queue, a, d, mClientData[a][d], clientData'[d])
      BY <2>4, <2>7, <2>10, <3>2 DEF Fits
    <3> QED BY <2>1, <2>2, <2>3, <2>10, <3>3, CallFits
  <2> QED BY <2>8, <2>9, <2>10
<1>4. ASSUME NEW a \in Adapters, NEW c \in Clients, NEW word, queue # <<>>, queue' = Tail(queue),
             Moves(Head(queue), a, c), Word(Head(queue)) = word,
             mClientData' = [mClientData EXCEPT ![a] = [mClientData[a] EXCEPT ![c] = word]],
             UNCHANGED clientData
      PROVE  DataInv'
  <2> SUFFICES ASSUME NEW b \in Adapters, NEW d \in Clients
               PROVE  Fits(queue', b, d, mClientData'[b][d], clientData'[d])
    BY DEF DataInv
  <2>1. Fits(queue, b, d, mClientData[b][d], clientData[d]) /\ Messages(queue)
    BY DEF DataInv, Shape
  <2>2. mClientData'[b][d] = IF Moves(Head(queue), b, d) THEN Word(Head(queue)) ELSE mClientData[b][d]
    <3>1. Moves(Head(queue), b, d) <=> b = a /\ d = c BY <1>4 DEF Moves
    <3>2. mClientData'[b][d] = IF b = a /\ d = c THEN word ELSE mClientData[b][d]
      BY <1>4 DEF TypeOK
    <3> QED BY <1>4, <3>1, <3>2
  <2> QED BY <1>4, <2>1, <2>2, RemovedFits
<1>5. CASE MsgAddClient
  <2>1. PICK a \in Adapters, c \in Clients, callbacks \in SUBSET Callbacks :
            /\ queue # <<>> /\ Head(queue) = Add(a, c, callbacks)
            /\ queue' = Tail(queue)
            /\ SaveData(a, [mClientData[a] EXCEPT ![c] = callbacks])
            /\ UNCHANGED clientData
    BY <1>5, AddIs
  <2>2. Moves(Head(queue), a, c) /\ Word(Head(queue)) = callbacks BY <2>1 DEF Moves, Word, Add
  <2> QED BY <1>4, <2>1, <2>2 DEF SaveData
<1>6. CASE MsgRemoveClient
  <2>1. PICK a \in Adapters, c \in Clients, cb \in BOOLEAN :
            /\ queue # <<>> /\ Head(queue) = Remove(a, c, cb)
            /\ queue' = Tail(queue)
            /\ SaveData(a, [mClientData[a] EXCEPT ![c] = None])
            /\ UNCHANGED clientData
    BY <1>6, RemoveIs
  <2>2. Moves(Head(queue), a, c) /\ Word(Head(queue)) = None BY <2>1 DEF Moves, Word, Remove
  <2> QED BY <1>4, <2>1, <2>2 DEF SaveData
<1>7. CASE NoteAction
  <2>1. NoteStep BY <1>7, NoteSteps, Zenon DEF NoteAction
  <2> QED BY <2>1, NotesKeep DEF Shape, NoteStep, DataInv
<1> QED BY <1>1, <1>2, <1>3, <1>5, <1>6, <1>7, Steps

-----------------------------------------------------------------------------
(* Objects live until the last adapter lets go of them.                      *)

LEMMA LetsGoMoves ==
    ASSUME NEW q, NEW a, NEW c, LetsGo(q, a, c)
    PROVE  ~Silent(q, a, c) /\ Held(q, a, c)
  BY DEF LetsGo, Silent, Held

(* A call does not touch other clients,                                      *)
LEMMA OthersLive ==
    ASSUME Shape, LifeInv, NEW c \in Clients, NEW A, NEW say, NEW r, Calls(c, A, say, r),
           UNCHANGED mClientData, Loaded \subseteq Loaded',
           NEW d \in Clients, d # c, life'[d] = life[d], clientData'[d] = clientData[d],
           waitMask'[d] = waitMask[d]
    PROVE  LifeOf(d)'
<1>1. LifeOf(d) /\ Messages(queue) BY DEF LifeInv, Shape
<1>2. /\ \A a : Silent(queue', a, d) <=> Silent(queue, a, d)
      /\ \A a : LetsGo(queue', a, d) <=> LetsGo(queue, a, d)
  <2>1. \A a : Silent(queue', a, d) <=> Silent(queue, a, d) BY <1>1, CallHeard
  <2>2. \A a : LetsGo(queue', a, d) <=> LetsGo(queue, a, d) BY <1>1, CallLetsGo
  <2> QED BY <2>1, <2>2
<1>3. \A a \in Adapters : Known(queue, a, d)' <=> Known(queue, a, d) BY <1>2 DEF Known
<1> QED BY <1>1, <1>2, <1>3 DEF LifeOf

(* and is known where it was, or where it is heard;                          *)
LEMMA CallKnown ==
    ASSUME Shape, NEW c \in Clients, NEW A, NEW say, NEW r, Calls(c, A, say, r),
           UNCHANGED mClientData, NEW a \in Adapters, Known(queue, a, c)'
    PROVE  Known(queue, a, c) \/ a \in A
<1>1. Messages(queue) BY DEF Shape
<1>2. Silent(queue', a, c) <=> Silent(queue, a, c) /\ a \notin A BY <1>1, CallHeard
<1> QED BY <1>2 DEF Known

(* nor does an adapter that takes a message of c.                            *)
LEMMA OthersTaken ==
    ASSUME TypeOK, Shape, LifeInv, queue # <<>>, queue' = Tail(queue),
           NEW a \in Adapters, NEW c \in Clients, NEW word, Moves(Head(queue), a, c),
           mClientData' = [mClientData EXCEPT ![a] = [mClientData[a] EXCEPT ![c] = word]],
           UNCHANGED <<clientData, loaded>>
    PROVE  /\ \A b, d : d # c \/ b # a =>
                /\ Silent(queue', b, d) <=> Silent(queue, b, d)
                /\ LetsGo(queue', b, d) <=> LetsGo(queue, b, d)
                /\ Held(queue', b, d) <=> Held(queue, b, d)
           /\ \A b \in Adapters, d \in Clients : d # c \/ b # a =>
                /\ mClientData'[b][d] = mClientData[b][d]
                /\ Known(queue, b, d)' <=> Known(queue, b, d)
           /\ \A d \in Clients :
                d # c /\ life'[d] = life[d] /\ waitMask'[d] = waitMask[d] => LifeOf(d)'
           /\ mClientData'[a][c] = word
<1>1. \A b, d : Moves(Head(queue), b, d) => b = a /\ d = c BY DEF Moves
<1>2. \A b, d : d # c \/ b # a =>
        /\ Silent(queue', b, d) <=> Silent(queue, b, d)
        /\ LetsGo(queue', b, d) <=> LetsGo(queue, b, d)
        /\ Held(queue', b, d) <=> Held(queue, b, d)
  BY <1>1, RemovedMessages DEF Shape
<1>3. /\ \A b \in Adapters, d \in Clients : d # c \/ b # a => mClientData'[b][d] = mClientData[b][d]
      /\ mClientData'[a][c] = word
  BY DEF TypeOK
<1>4. \A b \in Adapters, d \in Clients : d # c \/ b # a =>
        (Known(queue, b, d)' <=> Known(queue, b, d))
  BY <1>2, <1>3 DEF Known
<1>5. ASSUME NEW d \in Clients, d # c, life'[d] = life[d], waitMask'[d] = waitMask[d]
      PROVE  LifeOf(d)'
  <2>1. LifeOf(d) /\ Loaded' = Loaded BY DEF LifeInv, Loaded
  <2> QED BY <1>2, <1>4, <1>5, <2>1 DEF LifeOf
<1> QED BY <1>2, <1>3, <1>4, <1>5

(* An adapter that takes a client on, or lets go of it for the time being,   *)
LEMMA LifeTaken ==
    ASSUME TypeOK, Shape, LifeInv, queue # <<>>, queue' = Tail(queue),
           NEW a \in Adapters, NEW c \in Clients, NEW word, Moves(Head(queue), a, c),
           ~Completes(Head(queue)),
           mClientData' = [mClientData EXCEPT ![a] = [mClientData[a] EXCEPT ![c] = word]],
           UNCHANGED <<life, waitMask, clientData, loaded>>
    PROVE  LifeInv'
<1>1. LastWord(queue') BY RemovedLast DEF LifeInv, Shape
<1>2. \A d \in Clients : d # c => LifeOf(d)' BY OthersTaken
<1>3. \A b \in Adapters : b # a =>
        /\ LetsGo(queue', b, c) <=> LetsGo(queue, b, c)
        /\ Known(queue, b, c)' <=> Known(queue, b, c)
  BY OthersTaken
<1>4. LetsGo(queue', a, c) <=> LetsGo(queue, a, c) BY RemovedMessages DEF Shape
<1>5. Known(queue, a, c)
  <2>1. ~Silent(queue, a, c) BY RemovedMessages DEF Shape
  <2> QED BY <2>1 DEF Known
<1>6. LifeOf(c)'
  <2>1. LifeOf(c) /\ Loaded' = Loaded BY DEF LifeInv, Loaded
  <2>2. \A b \in Adapters : LetsGo(queue', b, c) <=> LetsGo(queue, b, c) BY <1>3, <1>4
  <2>3. \A b \in Adapters : Known(queue, b, c)' => Known(queue, b, c) BY <1>3, <1>5
  <2> QED BY <1>5, <2>1, <2>2, <2>3 DEF LifeOf
<1> QED BY <1>1, <1>2, <1>6 DEF LifeInv

(* and one that lets go of it for good                                       *)
LEMMA LifeLetGo ==
    ASSUME TypeOK, Shape, LifeInv, queue # <<>>, queue' = Tail(queue),
           NEW a \in Adapters, NEW c \in Clients, Moves(Head(queue), a, c),
           Completes(Head(queue)),
           mClientData' = [mClientData EXCEPT ![a] = [mClientData[a] EXCEPT ![c] = None]],
           onRemoveClientCompleteCb(c, a), UNCHANGED <<clientData, loaded>>
    PROVE  LifeInv'
<1>1. LastWord(queue') /\ Silent(queue', a, c) BY RemovedLast DEF LifeInv, Shape
<1>2. /\ \A b \in Adapters : b # a =>
            /\ LetsGo(queue', b, c) <=> LetsGo(queue, b, c)
            /\ Known(queue, b, c)' <=> Known(queue, b, c)
      /\ mClientData'[a][c] = None
  <2>1. \A b \in Adapters : b # a => (LetsGo(queue', b, c) <=> LetsGo(queue, b, c))
    BY OthersTaken
  <2>2. \A b \in Adapters : b # a => (Known(queue, b, c)' <=> Known(queue, b, c))
    BY OthersTaken
  <2>3. mClientData'[a][c] = None BY DEF TypeOK
  <2> QED BY <2>1, <2>2, <2>3
<1>3. LetsGo(queue, a, c) /\ Known(queue, a, c)
  <2>1. LetsGo(queue, a, c) BY RemovedMessages DEF Shape
  <2> QED BY <2>1, LetsGoMoves DEF Known
<1>4. ~Known(queue, a, c)' /\ ~LetsGo(queue', a, c) BY <1>1, <1>2, LetsGoMoves DEF Known
<1>5. LifeOf(c) /\ Loaded' = Loaded /\ life[c] \in {"leaving", "left"}
  <2>1. LifeOf(c) /\ Loaded' = Loaded BY DEF LifeInv, Loaded
  <2> QED BY <1>3, <2>1 DEF LifeOf, TypeOK
<1>6. /\ waitMask'[c] = waitMask[c] \ {a}
      /\ life'[c] = IF waitMask[c] # {} /\ waitMask[c] \ {a} = {} THEN "free" ELSE life[c]
      /\ \A d \in Clients : d # c => life'[d] = life[d] /\ waitMask'[d] = waitMask[d]
  BY DEF onRemoveClientCompleteCb, TypeOK
<1>7. LifeOf(c)'
  <2>1. \A b \in Adapters : Known(queue, b, c)' => b \in Loaded /\ b # a /\ LetsGo(queue', b, c)
    BY <1>2, <1>4, <1>5 DEF LifeOf
  <2>2. CASE life[c] = "left"
    <3>1. life'[c] = "left" BY <1>6, <2>2 DEF TypeOK
    <3> QED BY <1>5, <2>1, <3>1 DEF LifeOf
  <2>3. CASE life[c] = "leaving"
    <3>1. \A b \in Adapters : LetsGo(queue', b, c) <=> b \in waitMask'[c]
      BY <1>2, <1>4, <1>5, <1>6, <2>3 DEF LifeOf
    <3>2. CASE waitMask'[c] = {}
      <4>1. life'[c] = "free" BY <1>6, <2>3, <3>2 DEF TypeOK
      <4>2. \A b \in Adapters : ~Known(queue, b, c)' BY <2>1, <3>1, <3>2
      <4> QED BY <4>1, <4>2 DEF LifeOf
    <3>3. CASE waitMask'[c] # {}
      <4>1. life'[c] = "leaving" BY <1>6, <2>3, <3>3
      <4> QED BY <1>5, <2>1, <3>1, <4>1 DEF LifeOf
    <3> QED BY <3>2, <3>3
  <2> QED BY <1>5, <2>2, <2>3
<1>8. \A d \in Clients : d # c => LifeOf(d)' BY <1>6, OthersTaken
<1> QED BY <1>1, <1>7, <1>8 DEF LifeInv

LEMMA NextLife == ASSUME TypeOK, Shape, LifeInv, [Next]_vars PROVE LifeInv'
<1>1. ASSUME NEW c \in Clients, NEW callbacks \in CallbackSets, createInstance(c, callbacks)
      PROVE  LifeInv'
  <2> DEFINE A == First(callbacks)
             say == [a \in A |-> Add(a, c, callbacks)]
  <2>1. PICK r : Calls(c, A, say, r) BY <1>1, CreateCalls
  <2>2. Loaded' = Loaded \cup A /\ A # {} /\ Kinds(callbacks) \subseteq A
    <3>1. callbacks = {} => Kinds(callbacks) = {} BY DEF Kinds
    <3> QED BY <1>1, <3>1, CreateSets, CreateCalls DEF First
  <2>3. /\ UNCHANGED <<mClientData, waitMask>> /\ life[c] = "free"
        /\ clientData' = [clientData EXCEPT ![c] = callbacks]
        /\ life' = [life EXCEPT ![c] = "live"]
    BY <1>1 DEF createInstance, loadLib
  <2>4. \A a \in A : ~Completes(say[a]) BY DEF Completes, Add
  <2> HIDE DEF A, say
  <2>5. \A a \in Adapters : ~LetsGo(queue, a, c)
    BY <2>3, LetsGoMoves DEF LifeInv, LifeOf, Known
  <2>6. LastWord(queue') BY <2>1, <2>5, CallLast DEF LifeInv, Shape
  <2>7. \A a \in Adapters : ~LetsGo(queue', a, c)
    <3>1. Messages(queue) BY DEF Shape
    <3>2. \A a : LetsGo(queue', a, c) <=> LetsGo(queue, a, c) \/ (a \in A /\ Completes(say[a]))
      BY <2>1, <3>1, CallLetsGo
    <3> QED BY <2>4, <2>5, <3>2
  <2>8. life'[c] = "live" /\ clientData'[c] = callbacks BY <2>3 DEF TypeOK
  <2>9. LifeOf(c)'
    <3>1. \A a \in Adapters : Known(queue, a, c)' => a \in Loaded'
      BY <2>1, <2>2, <2>3, CallKnown DEF LifeInv, LifeOf
    <3> QED BY <2>2, <2>7, <2>8, <3>1 DEF LifeOf
  <2>10. ASSUME NEW d \in Clients, d # c PROVE LifeOf(d)'
    <3>1. life'[d] = life[d] /\ clientData'[d] = clientData[d] /\ waitMask'[d] = waitMask[d]
      BY <2>3, <2>10 DEF TypeOK
    <3> QED BY <2>1, <2>2, <2>3, <2>10, <3>1, OthersLive
  <2> QED BY <2>6, <2>9, <2>10 DEF LifeInv
<1>2. ASSUME NEW c \in Clients, NEW callbacks \in CallbackSets, updateCallbacks(c, callbacks)
      PROVE  LifeInv'
  <2> DEFINE A == Told(c, callbacks)
             say == UpdateSays(c, callbacks)
  <2>1. PICK r : Calls(c, A, say, r) BY <1>2, UpdateCalls
  <2>2. Loaded' = Loaded \cup Kinds(callbacks) /\ A \subseteq Loaded'
    BY <1>2, UpdateSets DEF Told, Dropped
  <2>3. /\ UNCHANGED <<mClientData, waitMask, life>> /\ life[c] = "live"
        /\ clientData' = [clientData EXCEPT ![c] = callbacks]
    BY <1>2 DEF updateCallbacks, loadLib
  <2>4. \A a \in A : ~Completes(say[a]) BY DEF UpdateSays, Completes, Add, Remove
  <2> HIDE DEF A, say
  <2>5. \A a \in Adapters : ~LetsGo(queue, a, c) BY <2>3 DEF LifeInv, LifeOf
  <2>6. LastWord(queue') BY <2>1, <2>5, CallLast DEF LifeInv, Shape
  <2>7. \A a \in Adapters : ~LetsGo(queue', a, c)
    <3>1. Messages(queue) BY DEF Shape
    <3>2. \A a : LetsGo(queue', a, c) <=> LetsGo(queue, a, c) \/ (a \in A /\ Completes(say[a]))
      BY <2>1, <3>1, CallLetsGo
    <3> QED BY <2>4, <2>5, <3>2
  <2>8. life'[c] = "live" /\ clientData'[c] = callbacks /\ Loaded # {}
    BY <2>3 DEF TypeOK, LifeInv, LifeOf
  <2>9. LifeOf(c)'
    <3>1. \A a \in Adapters : Known(queue, a, c)' => a \in Loaded'
      BY <2>1, <2>2, <2>3, CallKnown DEF LifeInv, LifeOf
    <3> QED BY <2>2, <2>7, <2>8, <3>1 DEF LifeOf
  <2>10. ASSUME NEW d \in Clients, d # c PROVE LifeOf(d)'
    <3>1. life'[d] = life[d] /\ clientData'[d] = clientData[d] /\ waitMask'[d] = waitMask[d]
      BY <2>3, <2>10 DEF TypeOK
    <3> QED BY <2>1, <2>2, <2>3, <2>10, <3>1, OthersLive
  <2> QED BY <2>6, <2>9, <2>10 DEF LifeInv
<1>3. ASSUME NEW c \in Clients, NEW callback \in BOOLEAN, destroy(c, callback)
      PROVE  LifeInv'
  <2> DEFINE A == Loaded
             say == [a \in Loaded |-> Remove(a, c, TRUE)]
  <2>1. PICK r : Calls(c, A, say, r) BY <1>3, DestroyCalls
  <2>2. A = Loaded /\ Loaded' = Loaded /\ UNCHANGED mClientData
    BY <1>3 DEF destroy, adapters, Loaded
  <2>3. \A a \in A : Completes(say[a]) BY DEF Completes, Remove
  <2>4. /\ life[c] = "live"
        /\ clientData' = [clientData EXCEPT ![c] = None]
        /\ \/ /\ life' = [life EXCEPT ![c] = "leaving"]
              /\ waitMask' = [waitMask EXCEPT ![c] = A]
           \/ life' = [life EXCEPT ![c] = "left"] /\ UNCHANGED waitMask
    BY <1>3 DEF destroy, Leave, WaitFor
  <2> HIDE DEF A, say
  <2>5. \A a \in Adapters : ~LetsGo(queue, a, c) BY <2>4 DEF LifeInv, LifeOf
  <2>6. LastWord(queue') BY <2>1, <2>5, CallLast DEF LifeInv, Shape
  <2>7. \A a \in Adapters : LetsGo(queue', a, c) <=> a \in A
    <3>1. Messages(queue) BY DEF Shape
    <3>2. \A a : LetsGo(queue', a, c) <=> LetsGo(queue, a, c) \/ (a \in A /\ Completes(say[a]))
      BY <2>1, <3>1, CallLetsGo
    <3> QED BY <2>3, <2>5, <3>2
  <2>8. LifeOf(c)'
    <3>1. \A a \in Adapters : Known(queue, a, c)' => a \in Loaded
      BY <2>1, <2>2, CallKnown DEF LifeInv, LifeOf
    <3>2. CASE life'[c] = "leaving" /\ waitMask'[c] = A BY <2>2, <2>7, <3>1, <3>2 DEF LifeOf
    <3>3. CASE life'[c] = "left" BY <2>2, <2>7, <3>1, <3>3 DEF LifeOf
    <3> QED BY <2>4, <3>2, <3>3 DEF TypeOK
  <2>9. ASSUME NEW d \in Clients, d # c PROVE LifeOf(d)'
    <3>1. life'[d] = life[d] /\ clientData'[d] = clientData[d] /\ waitMask'[d] = waitMask[d]
      BY <2>4, <2>9 DEF TypeOK
    <3> QED BY <2>1, <2>2, <2>9, <3>1, OthersLive
  <2> QED BY <2>6, <2>8, <2>9 DEF LifeInv
<1>4. CASE MsgAddClient
  <2>1. PICK a \in Adapters, c \in Clients, callbacks \in SUBSET Callbacks :
            /\ queue # <<>> /\ Head(queue) = Add(a, c, callbacks)
            /\ queue' = Tail(queue)
            /\ SaveData(a, [mClientData[a] EXCEPT ![c] = callbacks])
            /\ UNCHANGED <<life, clientData, waitMask, loaded>>
    BY <1>4, AddIs
  <2>2. Moves(Head(queue), a, c) /\ ~Completes(Head(queue)) BY <2>1 DEF Moves, Completes, Add
  <2> QED BY <2>1, <2>2, LifeTaken DEF SaveData
<1>5. CASE MsgRemoveClient
  <2>1. PICK a \in Adapters, c \in Clients, cb \in BOOLEAN :
            /\ queue # <<>> /\ Head(queue) = Remove(a, c, cb)
            /\ queue' = Tail(queue)
            /\ SaveData(a, [mClientData[a] EXCEPT ![c] = None])
            /\ cb = TRUE => onRemoveClientCompleteCb(c, a)
            /\ cb = FALSE => UNCHANGED <<life, waitMask>>
            /\ UNCHANGED <<clientData, loaded>>
    BY <1>5, RemoveIs
  <2>2. Moves(Head(queue), a, c) /\ (Completes(Head(queue)) <=> cb = TRUE)
    BY <2>1 DEF Moves, Completes, Remove
  <2>3. CASE cb = FALSE BY <2>1, <2>2, <2>3, LifeTaken DEF SaveData
  <2>4. CASE cb = TRUE BY <2>1, <2>2, <2>4, LifeLetGo DEF SaveData
  <2> QED BY <2>3, <2>4
<1>6. CASE NoteAction
  <2>1. NoteStep BY <1>6, NoteSteps, Zenon DEF NoteAction
  <2>2. UNCHANGED <<life, clientData, waitMask, mClientData, loaded>> /\ Loaded' = Loaded
    BY <2>1 DEF NoteStep, Loaded
  <2>3. /\ LastWord(queue')
        /\ \A a, d : Silent(queue', a, d) <=> Silent(queue, a, d)
        /\ \A a, d : LetsGo(queue', a, d) <=> LetsGo(queue, a, d)
    BY <2>1, NotesKeep DEF LifeInv, Shape
  <2>4. ASSUME NEW c \in Clients PROVE LifeOf(c)'
    <3>1. \A a \in Adapters : Known(queue, a, c)' <=> Known(queue, a, c)
      BY <2>2, <2>3 DEF Known
    <3> QED BY <2>2, <2>3, <3>1 DEF LifeInv, LifeOf
  <2> QED BY <2>3, <2>4 DEF LifeInv
<1> QED BY <1>1, <1>2, <1>3, <1>4, <1>5, <1>6, Steps

-----------------------------------------------------------------------------
(* The masks of the adapters, and what the modem is opened for               *)

LEMMA LoadedAre == Shape => Loaded \subseteq Adapters
  BY DEF Loaded, Shape

LEMMA SameMask ==
    ASSUME UNCHANGED features, NEW a \in Adapters, mClientData'[a] = mClientData[a]
    PROVE  EventMask(a, mClientData[a])' = EventMask(a, mClientData[a])
  BY DEF EventMask, OwnMask

(* A step that leaves what the clients gave and the masks alone              *)
LEMMA MaskKept ==
    ASSUME Shape, MaskInv, UNCHANGED <<mClientData, mEvtMask, features, world, loaded>>,
           \A a : Pending(queue, a) => Pending(queue', a),
           apiQueue' = <<>> => modem'.events = getEvtMask,
           Coming(queue, "engine up") \/ Opening(apiQueue) =>
                "gnss" \notin Loaded \/ Coming(queue', "engine up") \/ Opening(apiQueue'),
           Coming(queue', "agps") => Coming(queue, "agps") \/ "gnss" \in Loaded
    PROVE  MaskInv'
<1>1. Loaded' = Loaded /\ Loaded \subseteq Adapters BY LoadedAre DEF Loaded
<1>2. \A a \in Loaded : EventMask(a, mClientData[a])' = EventMask(a, mClientData[a])
  BY <1>1, SameMask
<1>3. getEvtMask' = getEvtMask BY <1>1 DEF getEvtMask
<1> QED BY <1>1, <1>2, <1>3 DEF MaskInv

(* A call: an adapter that is loaded for it hears it, and is opened.         *)
LEMMA MaskCalled ==
    ASSUME Shape, MaskInv, NEW c \in Clients, NEW A, NEW say, NEW r, Calls(c, A, say, r),
           UNCHANGED <<mClientData, mEvtMask, features, world, modem>>,
           Loaded \subseteq Loaded', Loaded' \ Loaded \subseteq A,
           \A a \in Loaded' \ Loaded : \E i \in DOMAIN apiQueue' : apiQueue'[i] = Open(a),
           Opening(apiQueue) => Opening(apiQueue'),
           \/ apiQueue' # <<>>
           \/ Loaded' = Loaded /\ apiQueue' = apiQueue
    PROVE  MaskInv'
<1>1. /\ \A a : Pending(queue', a) <=> Pending(queue, a) \/ a \in A
      /\ Coming(queue', "engine up") <=> Coming(queue, "engine up")
      /\ Coming(queue', "agps") <=> Coming(queue, "agps")
  BY CallHeard DEF Shape
<1>2. \A a \in Loaded : EventMask(a, mClientData[a])' = EventMask(a, mClientData[a])
  BY LoadedAre, SameMask
<1>3. \A a \in Loaded' :
        Pending(queue', a) \/ mEvtMask'[a] = EventMask(a, mClientData[a])'
  BY <1>1, <1>2 DEF MaskInv
<1>4. apiQueue' = <<>> => modem'.events = getEvtMask' BY DEF MaskInv, getEvtMask
<1>5. "gnss" \in Loaded' \ Loaded => Opening(apiQueue') BY DEF Opening
<1> QED BY <1>1, <1>3, <1>4, <1>5 DEF MaskInv

(* An adapter that saves what a client gave asks for what it needs now.      *)
LEMMA MaskSaved ==
    ASSUME TypeOK, Shape, MaskInv, NEW a \in Adapters, NEW data, SaveData(a, data),
           queue # <<>>, queue' = Tail(queue),
           Head(queue).type \in {"add", "remove"}, Head(queue).adapter = a,
           UNCHANGED <<features, world, loaded>>
    PROVE  MaskInv'
<1>1. Loaded' = Loaded /\ Loaded \subseteq Adapters BY LoadedAre DEF Loaded
<1>2. /\ mClientData' = [mClientData EXCEPT ![a] = data]
      /\ mEvtMask' = [mEvtMask EXCEPT ![a] = EventMask(a, data)]
      /\ apiQueue' # <<>> /\ (Opening(apiQueue) => Opening(apiQueue'))
  BY MaskAsked DEF SaveData
<1>3. /\ mClientData'[a] = data /\ mEvtMask'[a] = EventMask(a, data)
      /\ \A b \in Adapters \ {a} : mClientData'[b] = mClientData[b] /\ mEvtMask'[b] = mEvtMask[b]
  <2>1. mEvtMask = [b \in Adapters |-> mEvtMask[b]] BY DEF Shape
  <2> QED BY <1>2, <2>1 DEF TypeOK
<1>4. /\ \A b : Pending(queue, b) => b = a \/ Pending(queue', b)
      /\ \A t \in {"engine up", "agps"} : Coming(queue', t) <=> Coming(queue, t)
  BY RemovedMessages DEF Shape
<1>5. EventMask(a, mClientData[a])' = EventMask(a, data) BY <1>3 DEF EventMask, OwnMask
<1>6. \A b \in Loaded \ {a} : EventMask(b, mClientData[b])' = EventMask(b, mClientData[b])
  BY <1>1, <1>3, SameMask
<1>7. ASSUME NEW b \in Loaded
      PROVE  Pending(queue', b) \/ mEvtMask'[b] = EventMask(b, mClientData[b])'
  <2>1. CASE b = a BY <1>3, <1>5, <2>1
  <2>2. CASE b # a BY <1>1, <1>3, <1>4, <1>6, <2>2 DEF MaskInv
  <2> QED BY <2>1, <2>2
<1> QED BY <1>1, <1>2, <1>4, <1>7 DEF MaskInv

LEMMA ConfigMask ==
    ASSUME TypeOK, Shape, MaskInv, MsgHandleEngineUp, Head(queue).adapter = "gnss"
    PROVE  MaskInv'
<1>1. NoteStep BY NoteSteps
<1>2. UNCHANGED <<mClientData, world, loaded>> /\ Loaded' = Loaded
  BY <1>1 DEF NoteStep, MsgHandleEngineUp, surroundings, Loaded
<1>3. /\ \A a : Pending(queue', a) <=> Pending(queue, a)
      /\ Coming(queue', "agps") => Coming(queue, "agps") \/ "gnss" \in Loaded
  BY <1>1, NotesKeep DEF Shape
<1>4. setConfig(mClientData["gnss"]) BY DEF MsgHandleEngineUp
<1>5. apiQueue' # <<>> BY <1>4, ConfigAsked
<1> DEFINE on == "modemNmea" \in world /\ "nmea" \notin features
           also == IF on /\ "gnssNmeaCb" \in Given(mClientData["gnss"]) THEN {"nmea 1Hz"} ELSE {}
<1>6. /\ features' = IF on THEN features \cup {"nmea"} ELSE features
      /\ mEvtMask' = [mEvtMask EXCEPT !["gnss"] = EventMask("gnss", mClientData["gnss"]) \cup also]
  BY <1>4, Zenon DEF setConfig
<1>7. EventMask("gnss", mClientData["gnss"])' = EventMask("gnss", mClientData["gnss"]) \cup also
  <2> DEFINE data == mClientData["gnss"]
             bits == UNION {Bits[cb] : cb \in {x \in Given(data) : AdapterOf[x] = "gnss"}}
  <2>1. /\ EventMask("gnss", mClientData["gnss"]) = bits \cup OwnMask(data)
        /\ EventMask("gnss", mClientData["gnss"])' = bits \cup OwnMask(data)'
    BY <1>2 DEF EventMask
  <2>2. OwnMask(data)' = OwnMask(data) \cup also
    <3>1. data' = data BY <1>2
    <3> HIDE DEF data
    <3>2. "nmea" \in features' <=> "nmea" \in features \/ on BY <1>6
    <3>3. "agps" \in features' <=> "agps" \in features BY <1>6
    <3> QED BY <3>1, <3>2, <3>3 DEF OwnMask, data
  <2> QED BY <2>1, <2>2
<1>8. ASSUME NEW a \in Loaded
      PROVE  Pending(queue', a) \/ mEvtMask'[a] = EventMask(a, mClientData[a])'
  <2>1. mEvtMask = [b \in Adapters |-> mEvtMask[b]] /\ a \in Adapters BY LoadedAre DEF Shape
  <2>2. CASE a = "gnss" BY <1>6, <1>7, <2>1, <2>2
  <2>3. CASE a # "gnss"
    <3>1. EventMask(a, mClientData[a])' = EventMask(a, mClientData[a])
      BY <1>2, <2>3 DEF EventMask
    <3>2. mEvtMask'[a] = mEvtMask[a] BY <1>6, <2>1, <2>3
    <3> QED BY <1>3, <3>1, <3>2 DEF MaskInv
  <2> QED BY <2>2, <2>3
<1>9. /\ "nmea" \in features' => "modemNmea" \in world
      /\ "modemNmea" \in world => "nmea" \in features'
      /\ "agps" \in features' => "agps" \in features
  BY <1>6 DEF MaskInv
<1> QED BY <1>2, <1>3, <1>5, <1>8, <1>9 DEF MaskInv

LEMMA EngineUpMask ==
    ASSUME TypeOK, Shape, MaskInv, MsgHandleEngineUp, Head(queue).adapter # "gnss"
    PROVE  MaskInv'
<1>1. NoteStep BY NoteSteps
<1>2. /\ UNCHANGED <<mClientData, world, loaded, mEvtMask, features, apiQueue, modem>>
      /\ queue # <<>> /\ Flush(Head(queue).adapter)
  BY DEF MsgHandleEngineUp, Handle, surroundings
<1>3. /\ \A a : Pending(queue', a) <=> Pending(queue, a)
      /\ Coming(queue', "agps") => Coming(queue, "agps") \/ "gnss" \in Loaded
  BY <1>1, NotesKeep DEF Shape
<1>4. Coming(queue, "engine up") => Coming(queue', "engine up")
  <2>1. Head(queue).adapter \in Adapters BY <1>2, HeadIs
  <2>2. PICK r : Notes(r) /\ queue' = Tail(queue) \o r BY <1>2, <2>1, FlushNotes
  <2>3. Messages(Tail(queue)) /\ (Coming(queue, "engine up") => Coming(Tail(queue), "engine up"))
    BY <1>2, RemovedMessages DEF Shape
  <2>4. Messages(r) BY <2>2 DEF Notes, Messages
  <2> QED BY <2>2, <2>3, <2>4, JoinedMessages
<1>5. apiQueue' = <<>> => modem'.events = getEvtMask BY <1>2 DEF MaskInv
<1> QED BY <1>2, <1>3, <1>4, <1>5, MaskKept

LEMMA AgpsMask ==
    ASSUME TypeOK, Shape, MaskInv, AgpsMsgInit
    PROVE  MaskInv'
<1>1. NoteStep BY NoteSteps
<1>2. UNCHANGED <<mClientData, world, loaded>> /\ Loaded' = Loaded
  BY DEF AgpsMsgInit, surroundings, Loaded
<1>3. /\ \A a : Pending(queue', a) <=> Pending(queue, a)
      /\ Coming(queue', "agps") => Coming(queue, "agps") \/ "gnss" \in Loaded
      /\ Coming(queue, "engine up") => Coming(queue', "engine up")
  <2>1. ~MsgHandleEngineUp BY DEF MsgHandleEngineUp, AgpsMsgInit, Handle
  <2> QED BY <1>1, <2>1, NotesKeep DEF Shape
<1>4. "gnss" \in Loaded
  <2>1. queue # <<>> /\ Head(queue).type = "agps" BY DEF AgpsMsgInit, Handle
  <2>2. Head(queue).adapter = "gnss" BY <2>1, HeadIs DEF IsNote
  <2>3. Coming(queue, "agps") BY <2>1, <2>2, RemovedMessages DEF Shape
  <2> QED BY <2>3 DEF MaskInv
<1> DEFINE mask == mEvtMask["gnss"] \cup {"server request"}
<1>5. updateEvtMask("gnss", mask) /\ features' = features \cup {"agps"} BY DEF AgpsMsgInit
<1>6. apiQueue' # <<>> /\ mEvtMask' = [mEvtMask EXCEPT !["gnss"] = mask]
  BY <1>5, MaskAsked DEF Adapters
<1>7. EventMask("gnss", mClientData["gnss"])' =
            EventMask("gnss", mClientData["gnss"]) \cup {"server request"}
  <2>1. mClientData["gnss"]' = mClientData["gnss"] BY <1>2
  <2>2. "nmea" \in features' <=> "nmea" \in features BY <1>5
  <2>3. "agps" \in features' BY <1>5
  <2> QED BY <2>1, <2>2, <2>3 DEF EventMask, OwnMask
<1>8. ASSUME NEW a \in Loaded
      PROVE  Pending(queue', a) \/ mEvtMask'[a] = EventMask(a, mClientData[a])'
  <2>1. mEvtMask = [b \in Adapters |-> mEvtMask[b]] /\ a \in Adapters BY LoadedAre DEF Shape
  <2>2. CASE a = "gnss" BY <1>3, <1>6, <1>7, <2>1, <2>2 DEF MaskInv
  <2>3. CASE a # "gnss"
    <3>1. EventMask(a, mClientData[a])' = EventMask(a, mClientData[a])
      BY <1>2, <2>3 DEF EventMask
    <3>2. mEvtMask'[a] = mEvtMask[a] BY <1>6, <2>1, <2>3
    <3> QED BY <1>3, <3>1, <3>2 DEF MaskInv
  <2> QED BY <2>2, <2>3
<1>9. Opening(apiQueue) => Opening(apiQueue') BY <1>5, MaskAsked DEF Adapters
<1> QED BY <1>2, <1>3, <1>4, <1>5, <1>6, <1>8, <1>9 DEF MaskInv

LEMMA NextMask == ASSUME TypeOK, Shape, LifeInv, MaskInv, [Next]_vars PROVE MaskInv'
<1>1. ASSUME NEW c \in Clients, NEW callbacks \in CallbackSets, createInstance(c, callbacks)
      PROVE  MaskInv'
  <2> DEFINE A == First(callbacks)
             say == [a \in A |-> Add(a, c, callbacks)]
  <2>1. A \subseteq Adapters /\ loadLib(A) /\ \E r : Calls(c, A, say, r)
    BY <1>1, CreateCalls, CreateSets
  <2>2. UNCHANGED <<mClientData, mEvtMask, features, world, modem>>
    BY <1>1 DEF createInstance, loadLib, surroundings
  <2> HIDE DEF A, say
  <2>3. /\ Loaded' = Loaded \cup A
        /\ \A a \in A \ Loaded : \E i \in DOMAIN apiQueue' : apiQueue'[i] = Open(a)
        /\ Opening(apiQueue) => Opening(apiQueue')
        /\ \/ apiQueue' # <<>>
           \/ Loaded' = Loaded /\ apiQueue' = apiQueue
    BY <2>1, Loads
  <2>4. /\ Loaded \subseteq Loaded' /\ Loaded' \ Loaded \subseteq A
        /\ \A a \in Loaded' \ Loaded : \E i \in DOMAIN apiQueue' : apiQueue'[i] = Open(a)
    BY <2>3
  <2> QED BY <2>1, <2>2, <2>3, <2>4, MaskCalled
<1>2. ASSUME NEW c \in Clients, NEW callbacks \in CallbackSets, updateCallbacks(c, callbacks)
      PROVE  MaskInv'
  <2> DEFINE A == Kinds(callbacks)
             say == UpdateSays(c, callbacks)
  <2>1. A \subseteq Adapters /\ loadLib(A) /\ \E r : Calls(c, Told(c, callbacks), say, r)
    BY <1>2, UpdateCalls, UpdateSets
  <2>2. UNCHANGED <<mClientData, mEvtMask, features, world, modem>>
    BY <1>2 DEF updateCallbacks, loadLib, surroundings
  <2>3. A \subseteq Told(c, callbacks) BY DEF Told
  <2> HIDE DEF A, say
  <2>4. /\ Loaded' = Loaded \cup A
        /\ \A a \in A \ Loaded : \E i \in DOMAIN apiQueue' : apiQueue'[i] = Open(a)
        /\ Opening(apiQueue) => Opening(apiQueue')
        /\ \/ apiQueue' # <<>>
           \/ Loaded' = Loaded /\ apiQueue' = apiQueue
    BY <2>1, Loads
  <2>5. /\ Loaded \subseteq Loaded' /\ Loaded' \ Loaded \subseteq Told(c, callbacks)
        /\ \A a \in Loaded' \ Loaded : \E i \in DOMAIN apiQueue' : apiQueue'[i] = Open(a)
    BY <2>3, <2>4
  <2> QED BY <2>1, <2>2, <2>4, <2>5, MaskCalled
<1>3. ASSUME NEW c \in Clients, NEW callback \in BOOLEAN, destroy(c, callback)
      PROVE  MaskInv'
  <2> DEFINE say == [a \in Loaded |-> Remove(a, c, TRUE)]
  <2>1. \E r : Calls(c, Loaded, say, r) BY <1>3, DestroyCalls
  <2>2. /\ UNCHANGED <<mClientData, mEvtMask, features, world, modem, apiQueue>>
        /\ Loaded' = Loaded
    BY <1>3 DEF destroy, adapters, surroundings, Loaded
  <2> HIDE DEF say
  <2> QED BY <2>1, <2>2, MaskCalled
<1>4. CASE MsgAddClient
  <2>1. PICK a \in Adapters, c \in Clients, callbacks \in SUBSET Callbacks :
            /\ queue # <<>> /\ Head(queue) = Add(a, c, callbacks)
            /\ queue' = Tail(queue)
            /\ SaveData(a, [mClientData[a] EXCEPT ![c] = callbacks])
            /\ UNCHANGED <<loaded, features, world>>
    BY <1>4, AddIs
  <2>2. Head(queue).type \in {"add", "remove"} /\ Head(queue).adapter = a BY <2>1 DEF Add
  <2> QED BY <2>1, <2>2, MaskSaved
<1>5. CASE MsgRemoveClient
  <2>1. PICK a \in Adapters, c \in Clients, cb \in BOOLEAN :
            /\ queue # <<>> /\ Head(queue) = Remove(a, c, cb)
            /\ queue' = Tail(queue)
            /\ SaveData(a, [mClientData[a] EXCEPT ![c] = None])
            /\ UNCHANGED <<loaded, features, world>>
    BY <1>5, RemoveIs
  <2>2. Head(queue).type \in {"add", "remove"} /\ Head(queue).adapter = a BY <2>1 DEF Remove
  <2> QED BY <2>1, <2>2, MaskSaved
<1>6. CASE MsgHandleEngineUp BY <1>6, ConfigMask, EngineUpMask
<1>7. CASE AgpsMsgInit BY <1>7, AgpsMask
<1>8. CASE NoteAction /\ ~MsgHandleEngineUp /\ ~AgpsMsgInit
  <2>1. NoteStep BY <1>8, NoteSteps, Zenon DEF NoteAction
  <2>2. /\ \A a : Pending(queue', a) <=> Pending(queue, a)
        /\ Coming(queue', "agps") => Coming(queue, "agps") \/ "gnss" \in Loaded
        /\ Coming(queue, "engine up") => Coming(queue', "engine up")
    BY <1>8, <2>1, NotesKeep DEF Shape
  <2>3. UNCHANGED <<mClientData, mEvtMask, features, world, loaded>>
    <3>1. UNCHANGED <<mClientData, loaded>> BY <2>1 DEF NoteStep
    <3>2. UNCHANGED <<mEvtMask, features, world>>
      BY <1>8 DEF NoteAction, initAgpsCommand, MsgRequestCapabilities, MsgEngineLockState,
        LocOpenMsg, LocSsrMsg, EngineDown, EngineUnlocks, adapters, vars, surroundings
    <3> QED BY <3>1, <3>2
  <2>4. CASE UNCHANGED <<apiQueue, modem>>
    <3>1. apiQueue' = <<>> => modem'.events = getEvtMask BY <2>4 DEF MaskInv
    <3> QED BY <2>2, <2>3, <2>4, <3>1, MaskKept
  <2>5. CASE LocOpenMsg
    <3>1. apiQueue # <<>> /\ apiQueue' = Tail(apiQueue) /\ Head(apiQueue).type = "open"
      BY <2>5 DEF LocOpenMsg
    <3>2. PICK r : /\ Notes(r) /\ queue' = queue \o r
                   /\ \/ \E i \in DOMAIN apiQueue : apiQueue[i].type = "restart"
                      \/ open /\ (Head(apiQueue) = Open("gnss") => Coming(r, "engine up"))
      BY <2>5, OpenNotes
    <3>3. Coming(r, "engine up") => Coming(queue', "engine up")
      <4>1. Messages(r) BY <3>2 DEF Notes, Messages
      <4> QED BY <3>2, <4>1, JoinedMessages DEF Shape
    <3>4. /\ Opening(apiQueue) => Opening(apiQueue') \/ Head(apiQueue) = Open("gnss")
          /\ (\E i \in DOMAIN apiQueue : apiQueue[i].type = "restart") =>
                Opening(apiQueue') /\ apiQueue' # <<>>
      BY <3>1, RequestRemoved DEF Shape
    <3>5. CASE \E i \in DOMAIN apiQueue : apiQueue[i].type = "restart"
      <4>1. Opening(apiQueue') /\ apiQueue' # <<>> BY <3>4, <3>5
      <4> QED BY <2>2, <2>3, <4>1, MaskKept
    <3>6. CASE open /\ (Head(apiQueue) = Open("gnss") => Coming(r, "engine up"))
      <4>1. modem'.events = getEvtMask BY <3>6 DEF open
      <4>2. Opening(apiQueue) => Coming(queue', "engine up") \/ Opening(apiQueue')
        BY <3>3, <3>4, <3>6
      <4> QED BY <2>2, <2>3, <4>1, <4>2, MaskKept
    <3> QED BY <3>2, <3>5, <3>6
  <2>6. CASE LocSsrMsg
    <3>1. open /\ EngineUp(loaded) BY <2>6 DEF LocSsrMsg
    <3>2. modem'.events = getEvtMask BY <3>1 DEF open
    <3>3. "gnss" \in Loaded => Coming(queue', "engine up")
      <4>1. PICK r : /\ Notes(r) /\ queue' = queue \o r
                     /\ (\E i \in DOMAIN loaded : loaded[i] = "gnss") => Coming(r, "engine up")
        BY <3>1, EngineUpNotes DEF Shape
      <4>2. Messages(r) BY <4>1 DEF Notes, Messages
      <4>3. "gnss" \in Loaded => Coming(r, "engine up") BY <4>1 DEF Loaded
      <4> QED BY <4>1, <4>2, <4>3, JoinedMessages DEF Shape
    <3> QED BY <2>2, <2>3, <3>2, <3>3, MaskKept
  <2>7. CASE EngineDown
    <3>1. apiQueue' = Append(apiQueue, [type |-> "restart"]) BY <2>7 DEF EngineDown
    <3>2. IsRequest([type |-> "restart"]) BY DEF IsRequest
    <3>3. Opening(apiQueue') /\ apiQueue' # <<>> BY <3>1, <3>2, RequestAdded DEF Shape
    <3> QED BY <2>2, <2>3, <3>3, MaskKept
  <2> QED
    BY <1>8, <2>4, <2>5, <2>6, <2>7 DEF NoteAction, initAgpsCommand, MsgRequestCapabilities,
      MsgEngineLockState, EngineUnlocks, adapters, vars
<1> QED BY <1>1, <1>2, <1>3, <1>4, <1>5, <1>6, <1>7, <1>8, Steps

-----------------------------------------------------------------------------
(* The invariant holds.                                                      *)

LEMMA StartsSo == Init => IInv
<1> SUFFICES ASSUME Init PROVE IInv
  OBVIOUS
<1>1. /\ queue = <<>> /\ apiQueue = <<>> /\ loaded = <<>> /\ features = {}
      /\ DOMAIN queue = {} /\ DOMAIN apiQueue = {} /\ DOMAIN loaded = {} /\ Loaded = {}
      /\ modem.events = {}
  <2>1. queue = <<>> /\ apiQueue = <<>> /\ loaded = <<>> /\ features = {} /\ modem.events = {}
    BY DEF Init
  <2> QED BY <2>1 DEF Loaded
<1>2. /\ life = [c \in Clients |-> "free"]
      /\ clientData = [c \in Clients |-> None]
      /\ waitMask = [c \in Clients |-> {}]
      /\ mClientData = [a \in Adapters |-> [c \in Clients |-> None]]
  BY DEF Init
<1>3. TypeOK BY <1>1, <1>2 DEF TypeOK
<1>4. Shape
  <2>1. IsSeq(queue) /\ IsSeq(apiQueue) /\ loaded \in Seq(Adapters) BY <1>1, NoElements
  <2>2. /\ mPendingMsgs = [a \in Adapters |-> <<>>]
        /\ mEvtMask = [a \in Adapters |-> {}]
    BY DEF Init
  <2>3. \A a \in Adapters : Notes(mPendingMsgs[a]) BY <2>2, NoElements DEF Notes
  <2> QED BY <1>1, <2>1, <2>2, <2>3 DEF Shape, Messages, Requests
<1>5. \A a, c : Silent(queue, a, c) /\ ~LetsGo(queue, a, c) BY <1>1 DEF Silent, LetsGo
<1>6. DataInv
  <2> SUFFICES ASSUME NEW a \in Adapters, NEW c \in Clients
               PROVE  Fits(queue, a, c, mClientData[a][c], clientData[c])
    BY DEF DataInv
  <2>1. mClientData[a][c] = None /\ clientData[c] = None BY <1>2
  <2> QED BY <1>1, <2>1 DEF Fits
<1>7. LifeInv
  <2>1. LastWord(queue) BY <1>1 DEF LastWord
  <2>2. \A a \in Adapters, c \in Clients : ~Known(queue, a, c) BY <1>2, <1>5 DEF Known
  <2> QED BY <1>2, <2>1, <2>2 DEF LifeInv, LifeOf
<1>8. MaskInv
  <2>1. getEvtMask = {} BY <1>1 DEF getEvtMask
  <2>2. ~Coming(queue, "agps") BY <1>1 DEF Coming
  <2> QED BY <1>1, <2>1, <2>2 DEF MaskInv
<1> QED BY <1>3, <1>4, <1>6, <1>7, <1>8 DEF IInv

LEMMA StaysSo == IInv /\ [Next]_vars => IInv'
  BY NextType, NextShape, NextData, NextLife, NextMask DEF IInv

LEMMA Invariance == Spec => []IInv
  BY StartsSo, StaysSo, PTL DEF Spec

(* Who is in gData.clientData is live, who is in destroyClientData is        *)
(* leaving, and it waits only for adapters that are loaded (LocationAPI's    *)
(* createInstance, destroy, onRemoveClientCompleteCb).                       *)
THEOREM ClientsTyped == Spec => []TypeOK
<1>1. IInv => TypeOK BY DEF IInv
<1> QED BY <1>1, Invariance, PTL

-----------------------------------------------------------------------------
(* The adapters know the callbacks that the clients gave.                    *)
LEMMA SameCallbacks ==
    ASSUME TypeOK, DataInv, queue = <<>>, NEW a \in Adapters, NEW cb, AdapterOf[cb] = a
    PROVE  cb \in Given(mClientData[a]) <=> cb \in Given(clientData)
<1>1. ASSUME NEW c \in Clients
      PROVE  Part(a, mClientData[a][c]) = Part(a, clientData[c])
  <2>1. Silent(queue, a, c) BY DEF Silent
  <2> QED BY <2>1 DEF DataInv, Fits
<1>2. ASSUME NEW data
      PROVE  cb \in Given(data) <=> \E c \in Clients : cb \in Part(a, data[c])
  <2>1. \A c \in Clients : cb \in Part(a, data[c]) <=> data[c] # None /\ cb \in data[c]
    BY DEF Part
  <2> QED BY <2>1 DEF Given, Callers
<1> QED BY <1>1, <1>2

LEMMA MaskFollows == IInv => MaskServes
<1> SUFFICES ASSUME IInv, Settled PROVE MaskServes BY DEF MaskServes
<1>1. queue = <<>> /\ apiQueue = <<>> /\ DOMAIN queue = {} /\ DOMAIN apiQueue = {}
  BY DEF Settled
<1>2. /\ \A a : ~Pending(queue, a)
      /\ ~Coming(queue, "engine up") /\ ~Opening(apiQueue)
  BY <1>1 DEF Pending, Coming, Opening
<1>3. TypeOK /\ DataInv /\ LifeInv /\ MaskInv /\ Loaded \subseteq Adapters
  BY LoadedAre DEF IInv
<1>4. modem.events = UNION {EventMask(a, mClientData[a]) : a \in Loaded}
  BY <1>1, <1>2, <1>3 DEF MaskInv, getEvtMask
<1>5. \A cb \in Given(clientData) : AdapterOf[cb] \in Loaded /\ cb \in Callbacks
  <2> SUFFICES ASSUME NEW cb \in Given(clientData)
               PROVE  AdapterOf[cb] \in Loaded /\ cb \in Callbacks
    OBVIOUS
  <2>1. PICK c \in Clients : clientData[c] # None /\ cb \in clientData[c] BY DEF Given, Callers
  <2>2. life[c] = "live" /\ clientData[c] \subseteq Callbacks BY <1>3, <2>1 DEF TypeOK
  <2>3. Kinds(clientData[c]) \subseteq Loaded BY <1>3, <2>2 DEF LifeInv, LifeOf
  <2> QED BY <2>1, <2>2, <2>3 DEF Kinds
<1>6. ASSUME NEW a \in Adapters, NEW cb, AdapterOf[cb] = a
      PROVE  cb \in Given(mClientData[a]) <=> cb \in Given(clientData)
  BY <1>1, <1>3, <1>6, SameCallbacks
<1> DEFINE gave == "gnssNmeaCb" \in Given(clientData)
           own == {"system"}
                  \cup (IF "modemNmea" \in world /\ gave THEN {"nmea 1Hz"} ELSE {})
                  \cup (IF "agps" \in features THEN {"server request"} ELSE {})
           bits(a) == UNION {Bits[cb] : cb \in {x \in Given(clientData) : AdapterOf[x] = a}}
<1>7. ASSUME NEW a \in Loaded
      PROVE  EventMask(a, mClientData[a]) = bits(a) \cup (IF a = "gnss" THEN own ELSE {})
  <2>1. {x \in Given(mClientData[a]) : AdapterOf[x] = a}
            = {x \in Given(clientData) : AdapterOf[x] = a}
    BY <1>3, <1>6
  <2>2. a = "gnss" => OwnMask(mClientData[a]) = own
    <3>1. AdapterOf["gnssNmeaCb"] = "gnss" BY DEF AdapterOf
    <3>2. a = "gnss" => ("gnssNmeaCb" \in Given(mClientData[a]) <=> gave) BY <1>3, <1>6, <3>1
    <3>3. a = "gnss" => ("nmea" \in features <=> "modemNmea" \in world)
      BY <1>2, <1>3 DEF MaskInv
    <3> QED BY <3>2, <3>3 DEF OwnMask
  <2> QED BY <2>1, <2>2 DEF EventMask
<1>8. UNION {bits(a) : a \in Loaded} = UNION {Bits[cb] : cb \in Given(clientData)}
  <2>1. ASSUME NEW e, NEW a \in Loaded, e \in bits(a)
        PROVE  e \in UNION {Bits[cb] : cb \in Given(clientData)}
    BY <2>1
  <2>2. ASSUME NEW e, NEW cb \in Given(clientData), e \in Bits[cb]
        PROVE  \E a \in Loaded : e \in bits(a)
    BY <1>5, <2>2
  <2> HIDE DEF bits
  <2> QED BY <2>1, <2>2
<1>9. /\ "gnss" \notin Loaded => ~gave
      /\ "agps" \in features => "gnss" \in Loaded
  <2>1. AdapterOf["gnssNmeaCb"] = "gnss" BY DEF AdapterOf
  <2> QED BY <1>3, <1>5, <2>1 DEF MaskInv
<1>10. modem.events = (UNION {bits(a) : a \in Loaded}) \cup (IF "gnss" \in Loaded THEN own ELSE {})
  <2> HIDE DEF bits, own
  <2>1. \A e : e \in modem.events <=> \E a \in Loaded : e \in EventMask(a, mClientData[a])
    BY <1>4
  <2>2. \A e : e \in modem.events <=>
            \E a \in Loaded : e \in bits(a) \/ (a = "gnss" /\ e \in own)
    BY <1>7, <2>1
  <2>3. modem.events = UNION {EventMask(a, mClientData[a]) : a \in Loaded} BY <1>4
  <2> QED BY <2>2, <2>3
<1>11. (IF "gnss" \in Loaded THEN own ELSE {}) =
            (IF "gnss" \in Loaded THEN {"system"} ELSE {})
            \cup (IF "modemNmea" \in world /\ gave THEN {"nmea 1Hz"} ELSE {})
            \cup (IF "agps" \in features THEN {"server request"} ELSE {})
  BY <1>9
<1> HIDE DEF bits, own, gave
<1>12. modem.events = (UNION {Bits[cb] : cb \in Given(clientData)})
            \cup ((IF "gnss" \in Loaded THEN {"system"} ELSE {})
            \cup (IF "modemNmea" \in world /\ gave THEN {"nmea 1Hz"} ELSE {})
            \cup (IF "agps" \in features THEN {"server request"} ELSE {}))
  BY <1>8, <1>10, <1>11
<1> QED BY <1>12 DEF MaskServes, gave

(* Whenever the threads have nothing left to do, the modem reports exactly   *)
(* what the clients gave callbacks for and what the GnssAdapter needs for    *)
(* itself (updateClientsEventMask, updateEvtMask, LocSsrMsg).                *)
THEOREM MaskIsServed == Spec => []MaskServes
  BY MaskFollows, Invariance, PTL

-----------------------------------------------------------------------------
(* The objects of LocationAPI live as ClientLife says.                       *)

HoldersKnow == Shape => \A c \in Clients, a \in Adapters :
    a \in Holders(c) <=> mClientData[a][c] # None \/ Held(queue, a, c)

LEMMA HoldersAre == HoldersKnow
<1> SUFFICES ASSUME Shape, NEW c \in Clients, NEW a \in Adapters
             PROVE  a \in Holders(c) <=> mClientData[a][c] # None \/ Held(queue, a, c)
  BY DEF HoldersKnow
<1>1. ASSUME NEW i \in DOMAIN queue
      PROVE  /\ queue[i].type = "add" => queue[i].type \in {"add", "remove"}
             /\ Completes(queue[i]) <=> queue[i].type = "remove" /\ queue[i].complete
  <2>1. CASE IsRemove(queue[i])
    <3>1. queue[i].complete \in BOOLEAN BY <2>1 DEF IsRemove, Remove
    <3> QED BY <3>1 DEF Completes
  <2>2. CASE IsAdd(queue[i]) BY <2>2 DEF IsAdd, Add, Completes
  <2>3. CASE IsNote(queue[i]) BY <2>3 DEF IsNote, Completes
  <2> QED BY <2>1, <2>2, <2>3 DEF Shape, Messages
<1>2. Held(queue, a, c) <=> \E i \in DOMAIN queue :
        /\ queue[i].adapter = a /\ queue[i].client = c
        /\ queue[i].type = "add" \/ (queue[i].type = "remove" /\ queue[i].complete)
  BY <1>1 DEF Held, Moves, Completes
<1> QED BY <1>2 DEF Holders

LEMMA HoldersAreThen == HoldersKnow'
  BY HoldersAre, PTL

LEMMA HoldersSame ==
    ASSUME Shape, Shape', NEW c \in Clients,
           \A a \in Adapters :
                /\ mClientData'[a][c] = mClientData[a][c]
                /\ Held(queue', a, c) <=> Held(queue, a, c)
    PROVE  Holders(c)' = Holders(c)
<1>1. \A a \in Adapters : a \in Holders(c) <=> mClientData[a][c] # None \/ Held(queue, a, c)
  BY HoldersAre DEF HoldersKnow
<1>2. \A a \in Adapters : a \in Holders(c)' <=> mClientData'[a][c] # None \/ Held(queue', a, c)
  BY HoldersAreThen DEF HoldersKnow
<1>3. Holders(c) \subseteq Adapters /\ Holders(c)' \subseteq Adapters BY DEF Holders
<1> QED BY <1>1, <1>2, <1>3

(* Who is free is held by nobody, who leaves by those that have yet to let   *)
(* go of it.                                                                 *)
LEMMA HoldersOf ==
    ASSUME Shape, LifeInv, NEW c \in Clients
    PROVE  /\ Holders(c) \subseteq Adapters
           /\ life[c] = "free" => Holders(c) = {}
           /\ life[c] \in {"leaving", "left"} =>
                \A a \in Adapters : a \in Holders(c) <=> LetsGo(queue, a, c)
<1>1. \A a \in Adapters : a \in Holders(c) <=> mClientData[a][c] # None \/ Held(queue, a, c)
  BY HoldersAre DEF HoldersKnow
<1>2. \A a \in Adapters : a \in Holders(c) => Known(queue, a, c)
  BY <1>1 DEF Known, Held, Silent
<1>3. \A a \in Adapters : LetsGo(queue, a, c) => a \in Holders(c) BY <1>1, LetsGoMoves
<1>4. Holders(c) \subseteq Adapters BY DEF Holders
<1> QED BY <1>2, <1>3, <1>4 DEF LifeInv, LifeOf

LEMMA Becomes ==
    ASSUME TypeOK, NEW c \in Clients, NEW l, life' = [life EXCEPT ![c] = l],
           \A d \in Clients : d # c => Holders(d)' = Holders(d)
    PROVE  Life!Become(c, l, Holders(c)')
<1>1. [d \in Clients |-> Holders(d)]' = [[d \in Clients |-> Holders(d)] EXCEPT ![c] = Holders(c)']
  OBVIOUS
<1> QED BY <1>1 DEF Life!Become

LEMMA Stutters ==
    ASSUME UNCHANGED life, \A d \in Clients : Holders(d)' = Holders(d)
    PROVE  UNCHANGED Life!vars
  BY DEF Life!vars

(* A call leaves the holders of other clients alone.                         *)
LEMMA CallHolders ==
    ASSUME Shape, Shape', NEW c \in Clients, NEW A, NEW say, NEW r, Calls(c, A, say, r),
           UNCHANGED mClientData, NEW d \in Clients, d # c
    PROVE  Holders(d)' = Holders(d)
<1>1. \A a : Held(queue', a, d) <=> Held(queue, a, d) BY CallHeard DEF Shape
<1> QED BY <1>1, HoldersSame

(* An adapter that takes a message of c matters to c alone.                  *)
LEMMA TakenHolders ==
    ASSUME TypeOK, Shape, Shape', LifeInv, queue # <<>>, queue' = Tail(queue),
           NEW a \in Adapters, NEW c \in Clients, NEW word, Moves(Head(queue), a, c),
           mClientData' = [mClientData EXCEPT ![a] = [mClientData[a] EXCEPT ![c] = word]],
           UNCHANGED <<clientData, loaded>>
    PROVE  /\ \A d \in Clients : d # c => Holders(d)' = Holders(d)
           /\ \A b \in Adapters : b # a => (b \in Holders(c)' <=> b \in Holders(c))
<1>1. /\ \A b, d : d # c \/ b # a => (Held(queue', b, d) <=> Held(queue, b, d))
      /\ \A b \in Adapters, d \in Clients : d # c \/ b # a => mClientData'[b][d] = mClientData[b][d]
  <2>1. \A b, d : d # c \/ b # a => (Held(queue', b, d) <=> Held(queue, b, d)) BY OthersTaken
  <2>2. \A b \in Adapters, d \in Clients : d # c \/ b # a => mClientData'[b][d] = mClientData[b][d]
    BY OthersTaken
  <2> QED BY <2>1, <2>2
<1>2. \A d \in Clients : d # c => Holders(d)' = Holders(d) BY <1>1, HoldersSame
<1>3. \A b \in Adapters : b \in Holders(c) <=> mClientData[b][c] # None \/ Held(queue, b, c)
  BY HoldersAre DEF HoldersKnow
<1>4. \A b \in Adapters : b \in Holders(c)' <=> mClientData'[b][c] # None \/ Held(queue', b, c)
  BY HoldersAreThen DEF HoldersKnow
<1> QED BY <1>1, <1>2, <1>3, <1>4

(* A client that comes, or gives other callbacks                             *)
LEMMA CreateMaps ==
    ASSUME TypeOK, Shape, Shape', LifeInv, NEW c \in Clients, NEW callbacks \in CallbackSets,
           createInstance(c, callbacks)
    PROVE  Life!Create(c)
<1> DEFINE A == First(callbacks)
           say == [a \in A |-> Add(a, c, callbacks)]
<1>1. PICK r : Calls(c, A, say, r) BY CreateCalls
<1>2. UNCHANGED mClientData /\ life[c] = "free" /\ life' = [life EXCEPT ![c] = "live"]
  BY DEF createInstance, loadLib
<1> HIDE DEF A, say
<1>3. \A d \in Clients : d # c => Holders(d)' = Holders(d) BY <1>1, <1>2, CallHolders
<1>4. Life!Become(c, "live", Holders(c)') BY <1>2, <1>3, Becomes
<1>5. Holders(c) = {} /\ Holders(c)' \subseteq Adapters BY <1>2, HoldersOf DEF Holders
<1> QED BY <1>2, <1>4, <1>5 DEF Life!Create

LEMMA UpdateMaps ==
    ASSUME TypeOK, Shape, Shape', NEW c \in Clients, NEW callbacks \in CallbackSets,
           updateCallbacks(c, callbacks)
    PROVE  Life!Change(c)
<1> DEFINE A == Told(c, callbacks)
           say == UpdateSays(c, callbacks)
<1>1. PICK r : Calls(c, A, say, r) BY UpdateCalls
<1>2. UNCHANGED mClientData /\ life[c] = "live" /\ life' = [life EXCEPT ![c] = "live"]
  BY DEF updateCallbacks, loadLib, TypeOK
<1> HIDE DEF A, say
<1>3. \A d \in Clients : d # c => Holders(d)' = Holders(d) BY <1>1, <1>2, CallHolders
<1>4. Life!Become(c, "live", Holders(c)') BY <1>2, <1>3, Becomes
<1>5. Holders(c)' \subseteq Adapters BY DEF Holders
<1> QED BY <1>2, <1>4, <1>5 DEF Life!Change

(* A client that is destroyed is held by all adapters, until they let go.    *)
LEMMA DestroyMaps ==
    ASSUME TypeOK, Shape, Shape', LifeInv, NEW c \in Clients, NEW callback \in BOOLEAN,
           destroy(c, callback)
    PROVE  Life!Leave(c)
<1> DEFINE A == Loaded
           say == [a \in Loaded |-> Remove(a, c, TRUE)]
<1>1. PICK r : Calls(c, A, say, r) BY DestroyCalls
<1>2. /\ UNCHANGED mClientData /\ life[c] = "live"
      /\ \E l \in {"leaving", "left"} : life' = [life EXCEPT ![c] = l]
  BY DEF destroy, Leave, adapters
<1>3. \A a \in A : Completes(say[a]) BY DEF Completes, Remove
<1>4. A # {} /\ A \subseteq Adapters BY <1>2, LoadedAre DEF LifeInv, LifeOf
<1> HIDE DEF A, say
<1>5. \A d \in Clients : d # c => Holders(d)' = Holders(d) BY <1>1, <1>2, CallHolders
<1>6. PICK l \in {"leaving", "left"} : Life!Become(c, l, Holders(c)') BY <1>2, <1>5, Becomes
<1>7. Holders(c)' # {} /\ Holders(c)' \subseteq Adapters
  <2>1. PICK a \in A : TRUE BY <1>4
  <2>2. Messages(queue) BY DEF Shape
  <2>3. LetsGo(queue', a, c) BY <1>1, <1>3, <2>1, <2>2, CallLetsGo
  <2>4. Held(queue', a, c) BY <2>3, LetsGoMoves
  <2>5. a \in Holders(c)' BY <1>4, <2>4, HoldersAreThen DEF HoldersKnow
  <2>6. Holders(c)' \subseteq Adapters BY DEF Holders
  <2> QED BY <2>5, <2>6
<1> QED BY <1>2, <1>6, <1>7 DEF Life!Leave

(* An adapter takes a live client on or removes it; one that leaves it has   *)
(* still to let go of.                                                       *)
LEMMA TakenMaps ==
    ASSUME TypeOK, Shape, Shape', LifeInv, queue # <<>>, queue' = Tail(queue),
           NEW a \in Adapters, NEW c \in Clients, NEW word, Moves(Head(queue), a, c),
           ~Completes(Head(queue)),
           mClientData' = [mClientData EXCEPT ![a] = [mClientData[a] EXCEPT ![c] = word]],
           UNCHANGED <<life, clientData, loaded>>
    PROVE  Life!Change(c) \/ UNCHANGED Life!vars
<1>1. \A d \in Clients : d # c => Holders(d)' = Holders(d) BY TakenHolders
<1>2. \A b \in Adapters : b # a => (b \in Holders(c)' <=> b \in Holders(c)) BY TakenHolders
<1>3. Holders(c) \subseteq Adapters /\ Holders(c)' \subseteq Adapters BY DEF Holders
<1>4. Known(queue, a, c)
  <2>1. ~Silent(queue, a, c) BY RemovedMessages DEF Shape
  <2> QED BY <2>1 DEF Known
<1>5. life[c] \in {"live", "leaving", "left"} BY <1>4 DEF LifeInv, LifeOf, TypeOK
<1>6. CASE life[c] = "live"
  <2>1. life' = [life EXCEPT ![c] = "live"] BY <1>6 DEF TypeOK
  <2>2. Life!Become(c, "live", Holders(c)') BY <1>1, <2>1, Becomes
  <2> QED BY <1>3, <1>6, <2>2 DEF Life!Change
<1>7. CASE life[c] \in {"leaving", "left"}
  <2>1. LetsGo(queue, a, c) /\ a \in Holders(c) BY <1>4, <1>7, HoldersOf DEF LifeInv, LifeOf
  <2>2. LetsGo(queue', a, c) BY <2>1, RemovedMessages DEF Shape
  <2>3. a \in Holders(c)' BY <2>2, LetsGoMoves, HoldersAreThen DEF HoldersKnow
  <2>4. \A b \in Adapters : b \in Holders(c)' <=> b \in Holders(c) BY <1>2, <2>1, <2>3
  <2>5. Holders(c)' = Holders(c) BY <1>3, <2>4
  <2> QED BY <1>1, <2>5, Stutters
<1> QED BY <1>5, <1>6, <1>7

(* The adapter lets go of it; when the last one does, it is deleted.         *)
LEMMA LetGoMaps ==
    ASSUME TypeOK, Shape, Shape', LifeInv, queue # <<>>, queue' = Tail(queue),
           NEW a \in Adapters, NEW c \in Clients, Moves(Head(queue), a, c),
           Completes(Head(queue)),
           mClientData' = [mClientData EXCEPT ![a] = [mClientData[a] EXCEPT ![c] = None]],
           onRemoveClientCompleteCb(c, a), UNCHANGED <<clientData, loaded>>
    PROVE  Life!LetGo(c, a)
<1>1. \A d \in Clients : d # c => Holders(d)' = Holders(d) BY TakenHolders
<1>2. \A b \in Adapters : b # a => (b \in Holders(c)' <=> b \in Holders(c)) BY TakenHolders
<1>3. Holders(c) \subseteq Adapters /\ Holders(c)' \subseteq Adapters BY DEF Holders
<1>4. LetsGo(queue, a, c) /\ Known(queue, a, c)
  <2>1. LetsGo(queue, a, c) BY RemovedMessages DEF Shape
  <2> QED BY <2>1, LetsGoMoves DEF Known
<1>5. life[c] \in {"leaving", "left"} BY <1>4 DEF LifeInv, LifeOf, TypeOK
<1>6. /\ a \in Holders(c)
      /\ life[c] = "leaving" => waitMask[c] = Holders(c)
  <2>1. \A b \in Adapters : b \in Holders(c) <=> LetsGo(queue, b, c) BY <1>5, HoldersOf
  <2>2. waitMask[c] \subseteq Adapters BY LoadedAre DEF TypeOK
  <2>3. life[c] = "leaving" => \A b \in Adapters : LetsGo(queue, b, c) <=> b \in waitMask[c]
    BY DEF LifeInv, LifeOf
  <2> QED BY <1>3, <1>4, <2>1, <2>2, <2>3
<1>7. a \notin Holders(c)'
  <2>1. Silent(queue', a, c) BY RemovedLast DEF LifeInv, Shape
  <2>2. mClientData'[a][c] = None /\ ~Held(queue', a, c) BY <2>1 DEF TypeOK, Held, Silent
  <2> QED BY <2>2, HoldersAreThen DEF HoldersKnow
<1>8. Holders(c)' = Holders(c) \ {a} BY <1>2, <1>3, <1>7
<1>9. CASE life[c] = "left"
  <2>1. waitMask[c] = {} BY <1>9 DEF TypeOK
  <2>2. life' = [life EXCEPT ![c] = "left"] BY <1>9, <2>1 DEF onRemoveClientCompleteCb, TypeOK
  <2>3. Life!Become(c, "left", Holders(c)') BY <1>1, <2>2, Becomes
  <2> QED BY <1>6, <1>8, <1>9, <2>3 DEF Life!LetGo
<1>10. CASE life[c] = "leaving" /\ Holders(c) = {a}
  <2>1. life' = [life EXCEPT ![c] = "free"] BY <1>6, <1>10 DEF onRemoveClientCompleteCb
  <2>2. Life!Become(c, "free", Holders(c)') BY <1>1, <2>1, Becomes
  <2>3. Holders(c)' = {} BY <1>8, <1>10
  <2> QED BY <1>6, <1>10, <2>2, <2>3 DEF Life!LetGo
<1>11. CASE life[c] = "leaving" /\ Holders(c) # {a}
  <2>1. life' = [life EXCEPT ![c] = "leaving"]
    BY <1>6, <1>11 DEF onRemoveClientCompleteCb, TypeOK
  <2>2. Life!Become(c, "leaving", Holders(c)') BY <1>1, <2>1, Becomes
  <2> QED BY <1>6, <1>8, <1>11, <2>2 DEF Life!LetGo
<1> QED BY <1>5, <1>9, <1>10, <1>11

LEMMA StepMaps == IInv /\ IInv' /\ [Next]_vars => [Life!Next]_(Life!vars)
<1> SUFFICES ASSUME IInv, IInv', [Next]_vars PROVE Life!Next \/ UNCHANGED Life!vars
  OBVIOUS
<1>1. TypeOK /\ Shape /\ LifeInv /\ Shape' BY DEF IInv
<1>2. ASSUME NEW c \in Clients, NEW callbacks \in CallbackSets, createInstance(c, callbacks)
      PROVE  Life!Next
  BY <1>1, <1>2, CreateMaps DEF Life!Next
<1>3. ASSUME NEW c \in Clients, NEW callbacks \in CallbackSets, updateCallbacks(c, callbacks)
      PROVE  Life!Next
  BY <1>1, <1>3, UpdateMaps DEF Life!Next
<1>4. ASSUME NEW c \in Clients, NEW callback \in BOOLEAN, destroy(c, callback)
      PROVE  Life!Next
  BY <1>1, <1>4, DestroyMaps DEF Life!Next
<1>5. CASE MsgAddClient
  <2>1. PICK a \in Adapters, c \in Clients, callbacks \in SUBSET Callbacks :
            /\ queue # <<>> /\ Head(queue) = Add(a, c, callbacks)
            /\ queue' = Tail(queue)
            /\ SaveData(a, [mClientData[a] EXCEPT ![c] = callbacks])
            /\ UNCHANGED <<life, clientData, loaded>>
    BY <1>1, <1>5, AddIs
  <2>2. Moves(Head(queue), a, c) /\ ~Completes(Head(queue)) BY <2>1 DEF Moves, Completes, Add
  <2>3. Life!Change(c) \/ UNCHANGED Life!vars BY <1>1, <2>1, <2>2, TakenMaps DEF SaveData
  <2> QED BY <2>3 DEF Life!Next
<1>6. CASE MsgRemoveClient
  <2>1. PICK a \in Adapters, c \in Clients, cb \in BOOLEAN :
            /\ queue # <<>> /\ Head(queue) = Remove(a, c, cb)
            /\ queue' = Tail(queue)
            /\ SaveData(a, [mClientData[a] EXCEPT ![c] = None])
            /\ cb = TRUE => onRemoveClientCompleteCb(c, a)
            /\ cb = FALSE => UNCHANGED <<life, waitMask>>
            /\ UNCHANGED <<clientData, loaded>>
    BY <1>1, <1>6, RemoveIs
  <2>2. Moves(Head(queue), a, c) /\ (Completes(Head(queue)) <=> cb = TRUE)
    BY <2>1 DEF Moves, Completes, Remove
  <2>3. CASE cb = FALSE
    <3>1. Life!Change(c) \/ UNCHANGED Life!vars
      BY <1>1, <2>1, <2>2, <2>3, TakenMaps DEF SaveData
    <3> QED BY <3>1 DEF Life!Next
  <2>4. CASE cb = TRUE
    <3>1. Life!LetGo(c, a) BY <1>1, <2>1, <2>2, <2>4, LetGoMaps DEF SaveData
    <3> QED BY <3>1 DEF Life!Next
  <2> QED BY <2>3, <2>4
<1>7. CASE NoteAction
  <2>1. NoteStep BY <1>1, <1>7, NoteSteps, Zenon DEF NoteAction
  <2>2. UNCHANGED <<life, mClientData>> BY <2>1 DEF NoteStep
  <2>3. \A a, d : Held(queue', a, d) <=> Held(queue, a, d) BY <1>1, <2>1, NotesKeep DEF Shape
  <2>4. \A c \in Clients : Holders(c)' = Holders(c) BY <1>1, <2>2, <2>3, HoldersSame
  <2> QED BY <2>2, <2>4, Stutters
<1> QED BY <1>2, <1>3, <1>4, <1>5, <1>6, <1>7, Steps

LEMMA InitMaps == Init => Life!Init
<1> SUFFICES ASSUME Init PROVE Life!Init
  OBVIOUS
<1>1. life = [c \in Clients |-> "free"] /\ Shape /\ LifeInv BY StartsSo DEF Init, IInv
<1>2. \A c \in Clients : Holders(c) = {} BY <1>1, HoldersOf
<1> QED BY <1>1, <1>2 DEF Life!Init

(* No adapter takes an object on once it is destroyed, and it is deleted     *)
(* once, when the last adapter lets go of it and not earlier: the safety     *)
(* part of ServesLife (LocationAPI::destroy, onRemoveClientCompleteCb).      *)
THEOREM ClientsImplementLife == Spec => Life!Init /\ [][Life!Next]_(Life!vars)
<1>1. Init => Life!Init BY InitMaps
<1>2. IInv /\ IInv' /\ [Next]_vars => [Life!Next]_(Life!vars) BY StepMaps
<1> QED BY <1>1, <1>2, Invariance, PTL DEF Spec
=============================================================================
