-------------------------- MODULE GnssConfigProofs --------------------------
(* The lock of the modem is what the users of positions are due: LockServed  *)
(* for all users, modes, values, worlds and numbers of calls.  What waits in *)
(* the queues is described by what it says of the lock (Carried), first by   *)
(* who hears it last (EndsWith), and a step of the adapter by what it does   *)
(* to that (the operators whose names begin with Handles).                   *)
(* Then satellites keep their names, for all widths of masks and all lengths *)
(* of the first range of SBAS (NamesKept).                                   *)
(* At the end: every call is answered once for each of its ids               *)
(* (EachCallAnswered).  What is known of a call is where the one message or  *)
(* request that bears its number is, and which ids that one still owes       *)
(* (CallsInv).                                                               *)
EXTENDS GnssConfig, SequenceTheorems, FiniteSetTheorems, TLAPS

IsSeq(s) == s \in Seq({s[k] : k \in DOMAIN s})

-----------------------------------------------------------------------------
(* What a message or a request says of the lock                              *)

LockAsked(m) ==
    IF m.type = "update" /\ "lock" \in m.arg.flags THEN {m.arg.lock \cup {"MO"}} ELSE {}
NfwsAsked(m) == IF m.type = "nfw" THEN {Nfws \ m.arg} ELSE {}
EngineLock(m) == IF m.type = "lock" THEN {m.on} ELSE {}
LockSent(r) ==
    IF r.op = "lock" \/ (r.op = "update" /\ "lock" \in r.flags \cap r.need) THEN {r.lock} ELSE {}

Carried(what, m) ==
    IF what = "asked" THEN LockAsked(m)
    ELSE IF what = "nfws" THEN NfwsAsked(m)
    ELSE IF what = "engine" THEN EngineLock(m)
    ELSE IF what = "sent" THEN LockSent(m)
    ELSE IF what = "up" THEN {x \in {1} : m.type = "up"}
    ELSE IF what = "open" THEN {x \in {1} : m.op = "open"}
    ELSE {x \in {1} : m.type \in Waiting}

(* The last that q says of it is v; q says nothing of it; and who has now,   *)
(* and hears q, has v in the end.                                            *)
EndsWith(what, q, v) ==
    \E k \in DOMAIN q :
        Carried(what, q[k]) = {v} /\ \A j \in DOMAIN q : j > k => Carried(what, q[j]) = {}

Silent(what, q) == \A k \in DOMAIN q : Carried(what, q[k]) = {}

Brings(what, q, now, v) == EndsWith(what, q, v) \/ (Silent(what, q) /\ now = v)

-----------------------------------------------------------------------------
(* Sequences                                                                 *)

(* A sequence is one of its own elements.                                    *)
LEMMA SeqOfItsElements ==
    ASSUME NEW S, NEW s \in Seq(S)
    PROVE  /\ IsSeq(s)
           /\ Len(s) \in Nat /\ DOMAIN s = 1..Len(s)
           /\ s # <<>> => Len(s) >= 1
<1> DEFINE E == {s[k] : k \in DOMAIN s}
<1>1. Len(s) \in Nat /\ DOMAIN s = 1..Len(s) /\ s \in [1..Len(s) -> S] BY LenProperties
<1>2. s # <<>> => Len(s) >= 1 BY <1>1, EmptySeq
<1>3. s \in [1..Len(s) -> E] BY <1>1
<1> HIDE DEF E
<1>4. s \in Seq(E) BY <1>1, <1>3
<1> QED BY <1>1, <1>2, <1>4 DEF IsSeq, E

(* The empty sequence is one.                                                *)
LEMMA NoElements == IsSeq(<<>>) /\ DOMAIN <<>> = {}
<1>1. <<>> \in Seq({})  OBVIOUS
<1>2. IsSeq(<<>>) BY <1>1, SeqOfItsElements
<1> QED BY <1>2

(* What is added is last, behind all that was there;                         *)
LEMMA Added ==
    ASSUME NEW q, IsSeq(q), NEW msg
    PROVE  /\ IsSeq(Append(q, msg))
           /\ Len(q) \in Nat /\ DOMAIN q = 1..Len(q)
           /\ DOMAIN Append(q, msg) = 1..(Len(q) + 1)
           /\ \A k \in DOMAIN q : Append(q, msg)[k] = q[k]
           /\ Append(q, msg)[Len(q) + 1] = msg
<1> DEFINE E == {q[k] : k \in DOMAIN q}
           S == E \cup {msg}
<1>1. q \in Seq(E) BY DEF IsSeq
<1>2. Len(q) \in Nat /\ DOMAIN q = 1..Len(q) /\ q \in [1..Len(q) -> E] BY <1>1, LenProperties
<1> HIDE DEF E
<1>3. q \in [1..Len(q) -> S] BY <1>2
<1>4. q \in Seq(S) /\ msg \in S BY <1>2, <1>3
<1> HIDE DEF S
<1>5. /\ Append(q, msg) \in Seq(S)
      /\ Len(Append(q, msg)) = Len(q) + 1
      /\ \A k \in 1..Len(q) : Append(q, msg)[k] = q[k]
      /\ Append(q, msg)[Len(q) + 1] = msg
  BY <1>4, AppendProperties
<1>6. IsSeq(Append(q, msg)) /\ DOMAIN Append(q, msg) = 1..Len(Append(q, msg))
  BY <1>5, SeqOfItsElements
<1> QED BY <1>2, <1>5, <1>6

(* what is left when the first is taken has all others;                      *)
LEMMA Removed ==
    ASSUME NEW q, IsSeq(q), q # <<>>
    PROVE  /\ IsSeq(Tail(q))
           /\ Len(q) \in Nat \ {0} /\ DOMAIN q = 1..Len(q)
           /\ DOMAIN Tail(q) = 1..(Len(q) - 1)
           /\ \A k \in DOMAIN Tail(q) : Tail(q)[k] = q[k + 1]
           /\ Head(q) = q[1]
<1> DEFINE S == {q[k] : k \in DOMAIN q}
<1>1. q \in Seq(S) BY DEF IsSeq
<1> HIDE DEF S
<1>2. Len(q) \in Nat /\ DOMAIN q = 1..Len(q) /\ Len(q) >= 1 BY <1>1, SeqOfItsElements
<1>3. /\ Tail(q) \in Seq(S) /\ Len(Tail(q)) = Len(q) - 1
      /\ \A k \in 1..Len(Tail(q)) : Tail(q)[k] = q[k + 1]
  BY <1>1, HeadTailProperties
<1>4. IsSeq(Tail(q)) /\ DOMAIN Tail(q) = 1..Len(Tail(q)) BY <1>3, SeqOfItsElements
<1>5. Head(q) = q[1] BY <1>1
<1> QED BY <1>2, <1>3, <1>4, <1>5

(* and one sequence behind another has those of both.                        *)
LEMMA Joined ==
    ASSUME NEW s, IsSeq(s), NEW t, IsSeq(t), NEW r, r = s \o t
    PROVE  /\ IsSeq(r)
           /\ Len(s) \in Nat /\ DOMAIN s = 1..Len(s)
           /\ Len(t) \in Nat /\ DOMAIN t = 1..Len(t)
           /\ DOMAIN r = 1..(Len(s) + Len(t))
           /\ \A k \in DOMAIN s : r[k] = s[k]
           /\ \A k \in DOMAIN t : r[Len(s) + k] = t[k]
<1> DEFINE A == {s[k] : k \in DOMAIN s}
           B == {t[k] : k \in DOMAIN t}
           S == A \cup B
<1>1. s \in Seq(A) /\ t \in Seq(B) BY DEF IsSeq
<1> HIDE DEF A, B
<1>2. /\ Len(s) \in Nat /\ DOMAIN s = 1..Len(s) /\ s \in [1..Len(s) -> A]
      /\ Len(t) \in Nat /\ DOMAIN t = 1..Len(t) /\ t \in [1..Len(t) -> B]
  BY <1>1, LenProperties
<1>3. s \in [1..Len(s) -> S] /\ t \in [1..Len(t) -> S] BY <1>2
<1> HIDE DEF S
<1>4. s \in Seq(S) /\ t \in Seq(S) BY <1>2, <1>3
<1>5. /\ r \in Seq(S)
      /\ Len(r) = Len(s) + Len(t)
      /\ \A k \in 1..(Len(s) + Len(t)) :
            r[k] = IF k <= Len(s) THEN s[k] ELSE t[k - Len(s)]
  BY <1>4, ConcatProperties
<1>6. IsSeq(r) /\ DOMAIN r = 1..Len(r) BY <1>5, SeqOfItsElements
<1>7. \A k \in DOMAIN s : r[k] = s[k] BY <1>2, <1>5
<1>8. ASSUME NEW k \in DOMAIN t PROVE r[Len(s) + k] = t[k]
  <2>1. /\ Len(s) + k \in 1..(Len(s) + Len(t)) /\ ~(Len(s) + k <= Len(s))
        /\ (Len(s) + k) - Len(s) = k
    BY <1>2
  <2> QED BY <1>5, <2>1
<1> QED BY <1>2, <1>5, <1>6, <1>7, <1>8

-----------------------------------------------------------------------------
(* Who has now, and hears nothing, has now in the end.                       *)
LEMMA NothingSaid ==
    ASSUME NEW what
    PROVE  /\ Silent(what, <<>>)
           /\ \A v : ~EndsWith(what, <<>>, v)
           /\ \A now, v : Brings(what, <<>>, now, v) <=> now = v
  BY NoElements DEF Silent, EndsWith, Brings

(* A message is added that says nothing of it, or says v.                    *)
LEMMA Heard ==
    ASSUME NEW what, NEW q, IsSeq(q), NEW msg
    PROVE  /\ \A v : Carried(what, msg) = {v} => EndsWith(what, Append(q, msg), v)
           /\ \A v : Carried(what, msg) = {} /\ EndsWith(what, q, v)
                     => EndsWith(what, Append(q, msg), v)
           /\ Carried(what, msg) = {} /\ Silent(what, q) => Silent(what, Append(q, msg))
           /\ Silent(what, Append(q, msg)) => Silent(what, q)
<1> DEFINE r == Append(q, msg)
<1>1. /\ Len(q) \in Nat /\ DOMAIN q = 1..Len(q)
      /\ DOMAIN r = 1..(Len(q) + 1)
      /\ \A k \in DOMAIN q : r[k] = q[k]
      /\ r[Len(q) + 1] = msg
  BY Added
<1> HIDE DEF r
<1>2. /\ Len(q) + 1 \in DOMAIN r
      /\ \A j \in DOMAIN r : ~(j > Len(q) + 1)
      /\ \A j \in DOMAIN r : j \in DOMAIN q \/ j = Len(q) + 1
      /\ \A j \in DOMAIN q : j \in DOMAIN r
  BY <1>1
<1>3. ASSUME NEW v, Carried(what, msg) = {v} PROVE EndsWith(what, r, v)
  <2>1. Carried(what, r[Len(q) + 1]) = {v} BY <1>1, <1>3
  <2> QED BY <2>1, <1>2 DEF EndsWith
<1>4. ASSUME NEW v, Carried(what, msg) = {}, EndsWith(what, q, v) PROVE EndsWith(what, r, v)
  <2>1. PICK k \in DOMAIN q :
            Carried(what, q[k]) = {v} /\ \A j \in DOMAIN q : j > k => Carried(what, q[j]) = {}
    BY <1>4 DEF EndsWith
  <2>2. k \in DOMAIN r /\ Carried(what, r[k]) = {v} BY <1>1, <1>2, <2>1
  <2>3. ASSUME NEW j \in DOMAIN r, j > k PROVE Carried(what, r[j]) = {}
    <3>1. CASE j \in DOMAIN q BY <1>1, <2>1, <2>3, <3>1
    <3>2. CASE j = Len(q) + 1 BY <1>1, <1>4, <3>2
    <3> QED BY <1>2, <3>1, <3>2
  <2> QED BY <2>2, <2>3 DEF EndsWith
<1>5. ASSUME Carried(what, msg) = {}, Silent(what, q) PROVE Silent(what, r)
  BY <1>1, <1>2, <1>5 DEF Silent
<1>6. ASSUME Silent(what, r) PROVE Silent(what, q) BY <1>1, <1>2, <1>6 DEF Silent
<1> QED BY <1>3, <1>4, <1>5, <1>6 DEF r

(* What is added decides, or what was there brings it.                       *)
LEMMA BringsHeard ==
    ASSUME NEW what, NEW q, IsSeq(q), NEW msg, NEW now, NEW v,
           \/ Carried(what, msg) = {v}
           \/ Carried(what, msg) = {} /\ Brings(what, q, now, v)
    PROVE  Brings(what, Append(q, msg), now, v)
  BY Heard DEF Brings

(* The first is taken: what it said has been heard.                          *)
LEMMA Said ==
    ASSUME NEW what, NEW q, IsSeq(q), q # <<>>
    PROVE  /\ Silent(what, q) => Carried(what, Head(q)) = {} /\ Silent(what, Tail(q))
           /\ Carried(what, Head(q)) = {} /\ Silent(what, Tail(q)) => Silent(what, q)
           /\ \A v : Carried(what, Head(q)) = {} /\ EndsWith(what, q, v)
                     => EndsWith(what, Tail(q), v)
           /\ \A v : EndsWith(what, q, v) =>
                  EndsWith(what, Tail(q), v)
                  \/ (Carried(what, Head(q)) = {v} /\ Silent(what, Tail(q)))
<1> DEFINE r == Tail(q)
           n == Len(q)
<1>1. /\ n \in Nat \ {0} /\ DOMAIN q = 1..n
      /\ DOMAIN r = 1..(n - 1)
      /\ \A k \in DOMAIN r : r[k] = q[k + 1]
      /\ Head(q) = q[1]
  BY Removed
<1> HIDE DEF r, n
<1>2. /\ 1 \in DOMAIN q
      /\ \A j \in DOMAIN r : j + 1 \in DOMAIN q /\ j + 1 > 1
      /\ \A j \in DOMAIN q : j = 1 \/ (j - 1 \in DOMAIN r /\ (j - 1) + 1 = j)
      /\ \A j, k : j \in DOMAIN r /\ k \in DOMAIN q /\ j > k - 1 => j + 1 > k
  BY <1>1
<1>3. ASSUME Silent(what, q) PROVE Carried(what, Head(q)) = {} /\ Silent(what, r)
  BY <1>1, <1>2, <1>3 DEF Silent
<1>4. ASSUME Carried(what, Head(q)) = {}, Silent(what, r) PROVE Silent(what, q)
  <2>1. ASSUME NEW j \in DOMAIN q PROVE Carried(what, q[j]) = {}
    <3>1. CASE j = 1 BY <1>1, <1>4, <3>1
    <3>2. CASE j - 1 \in DOMAIN r /\ (j - 1) + 1 = j
      <4>1. r[j - 1] = q[j] BY <1>1, <3>2
      <4> QED BY <1>4, <3>2, <4>1 DEF Silent
    <3> QED BY <1>2, <3>1, <3>2
  <2> QED BY <2>1 DEF Silent
<1>5. ASSUME NEW v, EndsWith(what, q, v)
      PROVE  EndsWith(what, r, v) \/ (Carried(what, Head(q)) = {v} /\ Silent(what, r))
  <2>1. PICK k \in DOMAIN q :
            Carried(what, q[k]) = {v} /\ \A j \in DOMAIN q : j > k => Carried(what, q[j]) = {}
    BY <1>5 DEF EndsWith
  <2>2. CASE k = 1
    <3>1. \A j \in DOMAIN r : Carried(what, r[j]) = {} BY <1>1, <1>2, <2>1, <2>2
    <3> QED BY <1>1, <2>1, <2>2, <3>1 DEF Silent
  <2>3. CASE k - 1 \in DOMAIN r /\ (k - 1) + 1 = k
    <3>1. r[k - 1] = q[k] BY <1>1, <2>3
    <3>2. ASSUME NEW j \in DOMAIN r, j > k - 1 PROVE Carried(what, r[j]) = {}
      <4>1. j + 1 \in DOMAIN q /\ j + 1 > k BY <1>2, <3>2
      <4> QED BY <1>1, <2>1, <4>1
    <3> QED BY <2>1, <2>3, <3>1, <3>2 DEF EndsWith
  <2> QED BY <1>2, <2>2, <2>3
<1>6. ASSUME NEW v, EndsWith(what, q, v), Carried(what, Head(q)) = {} PROVE EndsWith(what, r, v)
  <2>1. {v} # {}  OBVIOUS
  <2> QED BY <1>5, <1>6, <2>1
<1> QED BY <1>3, <1>4, <1>5, <1>6 DEF r

(* Who took the first has what it said, and the rest brings the same.        *)
LEMMA BringsSaid ==
    ASSUME NEW what, NEW q, IsSeq(q), q # <<>>, NEW now, NEW v, Brings(what, q, now, v)
    PROVE  /\ Carried(what, Head(q)) = {} => Brings(what, Tail(q), now, v)
           /\ \A x : Carried(what, Head(q)) = {x} => Brings(what, Tail(q), x, v)
<1>1. ASSUME Carried(what, Head(q)) = {} PROVE Brings(what, Tail(q), now, v)
  BY <1>1, Said DEF Brings
<1>2. ASSUME NEW x, Carried(what, Head(q)) = {x} PROVE Brings(what, Tail(q), x, v)
  <2>1. {x} # {} /\ ({x} = {v} => x = v)  OBVIOUS
  <2> QED BY <1>2, <2>1, Said DEF Brings
<1> QED BY <1>1, <1>2

(* One sequence behind another                                               *)
LEMMA BothHeard ==
    ASSUME NEW what, NEW s, IsSeq(s), NEW t, IsSeq(t)
    PROVE  /\ \A v : EndsWith(what, t, v) => EndsWith(what, s \o t, v)
           /\ \A v : EndsWith(what, s, v) /\ Silent(what, t) => EndsWith(what, s \o t, v)
           /\ Silent(what, s \o t) <=> Silent(what, s) /\ Silent(what, t)
<1> DEFINE r == s \o t
           m == Len(s)
           n == Len(t)
<1>0. r = s \o t  OBVIOUS
<1> HIDE DEF r
<1>1. /\ m \in Nat /\ DOMAIN s = 1..m
      /\ n \in Nat /\ DOMAIN t = 1..n
      /\ DOMAIN r = 1..(m + n)
      /\ \A k \in DOMAIN s : r[k] = s[k]
      /\ \A k \in DOMAIN t : r[m + k] = t[k]
  BY <1>0, Joined
<1> HIDE DEF m, n
<1>2. /\ \A j \in DOMAIN s : j \in DOMAIN r
      /\ \A j \in DOMAIN t : m + j \in DOMAIN r
      /\ \A j \in DOMAIN r : j \in DOMAIN s \/ (j - m \in DOMAIN t /\ m + (j - m) = j)
      /\ \A j, k : j \in DOMAIN s /\ k \in DOMAIN t => ~(j > m + k)
      /\ \A j, k : j \in DOMAIN r /\ k \in DOMAIN t /\ j > m + k => j - m > k
  BY <1>1
<1>3. ASSUME NEW v, EndsWith(what, t, v) PROVE EndsWith(what, r, v)
  <2>1. PICK k \in DOMAIN t :
            Carried(what, t[k]) = {v} /\ \A j \in DOMAIN t : j > k => Carried(what, t[j]) = {}
    BY <1>3 DEF EndsWith
  <2>2. m + k \in DOMAIN r /\ Carried(what, r[m + k]) = {v} BY <1>1, <1>2, <2>1
  <2>3. ASSUME NEW j \in DOMAIN r, j > m + k PROVE Carried(what, r[j]) = {}
    <3>1. j - m \in DOMAIN t /\ m + (j - m) = j /\ j - m > k BY <1>2, <2>3
    <3>2. r[j] = t[j - m] BY <1>1, <3>1
    <3> QED BY <2>1, <3>1, <3>2
  <2> QED BY <2>2, <2>3 DEF EndsWith
<1>4. ASSUME NEW v, EndsWith(what, s, v), Silent(what, t) PROVE EndsWith(what, r, v)
  <2>1. PICK k \in DOMAIN s :
            Carried(what, s[k]) = {v} /\ \A j \in DOMAIN s : j > k => Carried(what, s[j]) = {}
    BY <1>4 DEF EndsWith
  <2>2. k \in DOMAIN r /\ Carried(what, r[k]) = {v} BY <1>1, <1>2, <2>1
  <2>3. ASSUME NEW j \in DOMAIN r, j > k PROVE Carried(what, r[j]) = {}
    <3>1. CASE j \in DOMAIN s BY <1>1, <2>1, <2>3, <3>1
    <3>2. CASE j - m \in DOMAIN t /\ m + (j - m) = j
      <4>1. r[j] = t[j - m] BY <1>1, <3>2
      <4> QED BY <1>4, <3>2, <4>1 DEF Silent
    <3> QED BY <1>2, <3>1, <3>2
  <2> QED BY <2>2, <2>3 DEF EndsWith
<1>5. ASSUME Silent(what, s), Silent(what, t) PROVE Silent(what, r)
  <2>1. ASSUME NEW j \in DOMAIN r PROVE Carried(what, r[j]) = {}
    <3>1. CASE j \in DOMAIN s BY <1>1, <1>5, <3>1 DEF Silent
    <3>2. CASE j - m \in DOMAIN t /\ m + (j - m) = j
      <4>1. r[j] = t[j - m] BY <1>1, <3>2
      <4> QED BY <1>5, <3>2, <4>1 DEF Silent
    <3> QED BY <1>2, <3>1, <3>2
  <2> QED BY <2>1 DEF Silent
<1>6. ASSUME Silent(what, r) PROVE Silent(what, s) /\ Silent(what, t)
  <2>1. \A k \in DOMAIN s : Carried(what, s[k]) = {} BY <1>1, <1>2, <1>6 DEF Silent
  <2>2. \A k \in DOMAIN t : Carried(what, t[k]) = {} BY <1>1, <1>2, <1>6 DEF Silent
  <2> QED BY <2>1, <2>2 DEF Silent
<1> QED BY <1>3, <1>4, <1>5, <1>6 DEF r

(* One brings u, the other goes on from there.                               *)
LEMMA BringsBoth ==
    ASSUME NEW what, NEW s, IsSeq(s), NEW t, IsSeq(t), NEW now, NEW u, NEW v,
           Brings(what, s, now, u), Brings(what, t, u, v)
    PROVE  Brings(what, s \o t, now, v)
  BY BothHeard DEF Brings

(* Requests that are not about the lock, and a state with its requests that  *)
(* becomes another by sending only such ones                                 *)
Aside == {"check", "load", "blacklist", "control", "reset", "band", "mode", "week", "read"}

IsStep(x) == DOMAIN x = {"state", "out"} /\ IsSeq(x.out)

Mild(x, y) ==
    /\ IsStep(y) /\ y.state = x.state
    /\ \A v : EndsWith("sent", x.out, v) => EndsWith("sent", y.out, v)
    /\ Silent("sent", x.out) => Silent("sent", y.out)
    /\ Silent("open", x.out) => Silent("open", y.out)

(* What messages and requests carry                                          *)
LEMMA CarriedByType ==
    ASSUME NEW m
    PROVE  /\ Carried("asked", m) = LockAsked(m) /\ Carried("nfws", m) = NfwsAsked(m)
           /\ Carried("engine", m) = EngineLock(m) /\ Carried("sent", m) = LockSent(m)
           /\ m.type # "update" => Carried("asked", m) = {}
           /\ m.type # "nfw" => Carried("nfws", m) = {}
           /\ m.type # "lock" => Carried("engine", m) = {}
           /\ m.type = "up" <=> Carried("up", m) # {}
           /\ m.op = "open" <=> Carried("open", m) # {}
           /\ m.type \in Waiting <=> Carried("waiting", m) # {}
           /\ m.op \notin {"lock", "update"} => Carried("sent", m) = {}
<1>1. Carried("up", m) = {x \in {1} : m.type = "up"} BY DEF Carried
<1>2. Carried("open", m) = {x \in {1} : m.op = "open"} BY DEF Carried
<1>3. Carried("waiting", m) = {x \in {1} : m.type \in Waiting} BY DEF Carried
<1>4. Carried("asked", m) = LockAsked(m) /\ Carried("nfws", m) = NfwsAsked(m) BY DEF Carried
<1>5. Carried("engine", m) = EngineLock(m) /\ Carried("sent", m) = LockSent(m) BY DEF Carried
<1>6. m.type = "up" <=> Carried("up", m) # {} BY <1>1
<1>7. m.op = "open" <=> Carried("open", m) # {} BY <1>2
<1>8. m.type \in Waiting <=> Carried("waiting", m) # {} BY <1>3
<1>9. /\ m.type # "update" => LockAsked(m) = {}
      /\ m.type # "nfw" => NfwsAsked(m) = {}
      /\ m.type # "lock" => EngineLock(m) = {}
      /\ m.op \notin {"lock", "update"} => LockSent(m) = {}
  BY DEF LockAsked, NfwsAsked, EngineLock, LockSent
<1> QED BY <1>4, <1>5, <1>6, <1>7, <1>8, <1>9

(* Nothing was sent yet.                                                     *)
LEMMA NothingSent == ASSUME NEW a PROVE IsStep(Open(a)) /\ Open(a).state = a /\ Open(a).out = <<>>
  BY NoElements DEF IsStep, Open

(* A request aside is sent;                                                  *)
LEMMA MildSend ==
    ASSUME NEW x, IsStep(x), NEW r, r.op \in Aside
    PROVE  Mild(x, Send(x, r))
<1> DEFINE y == Send(x, r)
<1>1. y.out = Append(x.out, r) /\ y.state = x.state /\ DOMAIN y = {"state", "out"}
  BY DEF Send, IsStep
<1>2. Carried("sent", r) = {} /\ Carried("open", r) = {} BY CarriedByType DEF Aside
<1>3. IsSeq(x.out) /\ IsSeq(Append(x.out, r)) BY Added DEF IsStep
<1> HIDE DEF y
<1>4. IsStep(y) BY <1>1, <1>3 DEF IsStep
<1>5. \A v : EndsWith("sent", x.out, v) => EndsWith("sent", y.out, v)
  BY <1>1, <1>2, <1>3, Heard
<1>6. Silent("sent", x.out) => Silent("sent", y.out) BY <1>1, <1>2, <1>3, Heard
<1>7. Silent("open", x.out) => Silent("open", y.out) BY <1>1, <1>2, <1>3, Heard
<1>8. Mild(x, y) BY <1>1, <1>4, <1>5, <1>6, <1>7 DEF Mild
<1> QED BY <1>8 DEF y

(* one step follows another;                                                 *)
LEMMA MildMild ==
    ASSUME NEW x, NEW y, NEW z, Mild(x, y), Mild(y, z)
    PROVE  Mild(x, z)
  BY DEF Mild

(* nothing is done.                                                          *)
LEMMA MildSame == ASSUME NEW x, IsStep(x) PROVE Mild(x, x)
  BY DEF Mild

(* What the configuration of satellites and bands sends is not about the lock *)
LEMMA MildBlacklist ==
    ASSUME NEW x, IsStep(x), NEW mask, NEW n
    PROVE  Mild(x, SetBlacklistSv(x, mask, n))
<1> DEFINE r == [op |-> "blacklist", n |-> n, mask |-> mask]
<1>1. r.op \in Aside BY DEF Aside
<1> HIDE DEF r
<1>2. Mild(x, Send(x, r)) BY <1>1, MildSend
<1> QED BY <1>2 DEF SetBlacklistSv, r

LEMMA MildSvId == ASSUME NEW x, IsStep(x) PROVE Mild(x, gnssSvIdConfigUpdate(x))
<1>1. Mild(x, SetBlacklistSv(x, combineBlacklistSvs(x.state.mask, CombinedTypes(x.state)), 0))
  BY MildBlacklist
<1> QED BY <1>1 DEF gnssSvIdConfigUpdate

LEMMA MildSvTypeAtRestart ==
    ASSUME NEW x, IsStep(x)
    PROVE  Mild(x, gnssSvTypeConfigUpdateAtRestart(x))
<1> DEFINE r == [op |-> "control", on |-> CombinedTypes(x.state).on]
<1>1. r.op \in Aside BY DEF Aside
<1>2. gnssSvTypeConfigUpdateAtRestart(x) \in {x, Send(x, r)}
  BY DEF gnssSvTypeConfigUpdateAtRestart
<1> HIDE DEF r
<1>3. Mild(x, Send(x, r)) /\ Mild(x, x) BY <1>1, MildSend, MildSame
<1> QED BY <1>2, <1>3

LEMMA MildBand ==
    ASSUME NEW x, IsStep(x), NEW n
    PROVE  Mild(x, gnssSecondaryBandConfigUpdate(x, n))
<1> DEFINE r == [op |-> "band", n |-> n, value |-> x.state.band]
<1>1. r.op \in Aside BY DEF Aside
<1>2. gnssSecondaryBandConfigUpdate(x, n) \in {x, Send(x, r)}
  BY DEF gnssSecondaryBandConfigUpdate
<1> HIDE DEF r
<1>3. Mild(x, Send(x, r)) /\ Mild(x, x) BY <1>1, MildSend, MildSame
<1> QED BY <1>2, <1>3

LEMMA MildReset == ASSUME NEW x, IsStep(x) PROVE Mild(x, Send(x, [op |-> "reset"]))
<1> DEFINE r == [op |-> "reset"]
<1>1. r.op \in Aside BY DEF Aside
<1> HIDE DEF r
<1>2. Mild(x, Send(x, r)) BY <1>1, MildSend
<1> QED BY <1>2 DEF r

LEMMA MildControl ==
    ASSUME NEW x, IsStep(x), NEW on
    PROVE  Mild(x, Send(x, [op |-> "control", on |-> on]))
<1> DEFINE r == [op |-> "control", on |-> on]
<1>1. r.op \in Aside BY DEF Aside
<1> HIDE DEF r
<1>2. Mild(x, Send(x, r)) BY <1>1, MildSend
<1> QED BY <1>2 DEF r

LEMMA MildSvType ==
    ASSUME NEW x, IsStep(x), NEW current, NEW new
    PROVE  Mild(x, gnssSvTypeConfigUpdate(x, current, new))
<1> DEFINE blacklist == combineBlacklistSvs(x.state.mask, new)
           removed == current.on \ new.on
           r == IF removed # {} THEN Send(x, [op |-> "reset"]) ELSE x
           mask == [t \in Blacklistable |->
                       IF t \in current.off \cap new.on THEN {} ELSE blacklist[t]]
           y == SetBlacklistSv(r, mask, 0)
           z == SetBlacklistSv(Send(x, [op |-> "reset"]), x.state.mask, 0)
           c == Send(y, [op |-> "control", on |-> new.on])
<1>1. gnssSvTypeConfigUpdate(x, current, new) \in {x, z, c, y} BY DEF gnssSvTypeConfigUpdate
<1>2. Mild(x, Send(x, [op |-> "reset"])) /\ Mild(x, x) BY MildReset, MildSame
<1>3. Mild(x, r) BY <1>2
<1> HIDE DEF r, mask
<1>4. Mild(r, y) /\ IsStep(r) BY <1>3, MildBlacklist DEF Mild
<1>5. Mild(x, y) /\ IsStep(y) BY <1>3, <1>4, MildMild DEF Mild
<1> HIDE DEF y
<1>6. Mild(y, c) BY <1>5, MildControl
<1>7. Mild(x, c) BY <1>5, <1>6, MildMild
<1> DEFINE s == Send(x, [op |-> "reset"])
<1>8. Mild(x, s) /\ IsStep(s) BY <1>2 DEF Mild
<1> HIDE DEF s
<1>9. Mild(s, SetBlacklistSv(s, x.state.mask, 0)) BY <1>8, MildBlacklist
<1>10. Mild(x, z) BY <1>8, <1>9, MildMild DEF s
<1> HIDE DEF c, z
<1> QED BY <1>1, <1>2, <1>5, <1>7, <1>10

(* A finite set has a list of its elements.                                  *)
LEMMA ListOfSet ==
    ASSUME NEW S, IsFiniteSet(S)
    PROVE  IsSeq(SetToSeq(S)) /\ \A k \in DOMAIN SetToSeq(S) : SetToSeq(S)[k] \in S
<1>1. Cardinality(S) \in Nat /\ ExistsBijection(1..Cardinality(S), S) BY FS_CardinalityType
<1>2. PICK g : g \in Bijection(1..Cardinality(S), S) BY <1>1 DEF ExistsBijection
<1>3. g \in [1..Cardinality(S) -> S] /\ IsInjective(g) BY <1>2 DEF Bijection, Injection
<1> DEFINE f == SetToSeq(S)
<1>4. f \in [1..Cardinality(S) -> S] BY <1>3 DEF SetToSeq
<1> HIDE DEF f
<1>5. f \in Seq(S) BY <1>1, <1>4
<1>6. IsSeq(f) /\ \A k \in DOMAIN f : f[k] \in S BY <1>4, <1>5, SeqOfItsElements
<1> QED BY <1>6 DEF f

(* The modes are checked one by one.                                         *)
LEMMA FiniteChecks == IsFiniteSet({[op |-> "check", mode |-> m] : m \in Modes})
<1> DEFINE S == {[op |-> "check", mode |-> m] : m \in Modes}
           f == [m \in Modes |-> [op |-> "check", mode |-> m]]
<1>1. f \in [Modes -> S] /\ \A t \in S : \E m \in Modes : f[m] = t  OBVIOUS
<1> HIDE DEF S, f
<1>2. f \in Surjection(Modes, S) BY <1>1 DEF Surjection
<1>3. IsFiniteSet(S) BY <1>2, FS_Surjection, GnssConfigAssumption
<1> QED BY <1>3 DEF S

(* setConfig sends the lock that stands, and is the last to send one.        *)
LEMMA LockRestored ==
    ASSUME NEW a
    PROVE  /\ IsStep(setConfig(Open(a)))
           /\ setConfig(Open(a)).state = [a EXCEPT !.mo = IF Inject THEN 1 ELSE 0]
           /\ EndsWith("sent", setConfig(Open(a)).out, LockAtRestart(a))
           /\ Silent("open", setConfig(Open(a)).out)
<1> DEFINE mo == IF Inject THEN 1 ELSE 0
           r == [op |-> "update", n |-> 0, flags |-> WrittenBack(a), need |-> WrittenBack(a),
                 lock |-> LockAtRestart(a), list |-> a.list, conf |-> a.conf,
                 mo |-> IF a.mo # mo THEN mo ELSE 0]
           S == {[op |-> "check", mode |-> m] : m \in Modes}
           c == SetToSeq(S)
           x == setConfig(Open(a))
<1>1. x = [state |-> [a EXCEPT !.mo = mo], out |-> <<>> \o <<r>> \o c]
  BY NothingSent DEF setConfig
<1>2. r.op = "update" /\ "lock" \in r.flags \cap r.need /\ r.lock = LockAtRestart(a)
  BY DEF WrittenBack
<1>3. LockSent(r) = {LockAtRestart(a)} BY <1>2 DEF LockSent
<1>4. Carried("sent", r) = {LockAtRestart(a)} /\ Carried("open", r) = {}
  BY <1>2, <1>3, CarriedByType
<1>5. ASSUME NEW s \in S PROVE Carried("sent", s) = {} /\ Carried("open", s) = {}
  <2>1. s.op = "check"  OBVIOUS
  <2> QED BY <2>1, CarriedByType
<1>6. IsFiniteSet(S) BY FiniteChecks
<1> HIDE DEF r, S
<1>7. IsSeq(c) /\ \A k \in DOMAIN c : c[k] \in S BY <1>6, ListOfSet
<1> HIDE DEF c
<1>8. Silent("sent", c) /\ Silent("open", c) BY <1>5, <1>7 DEF Silent
<1> DEFINE b == <<r>>
<1>9. b = Append(<<>>, r) /\ <<>> \o b = b  OBVIOUS
<1> HIDE DEF b
<1>10. IsSeq(b) BY <1>9, Added, NoElements
<1>11. EndsWith("sent", b, LockAtRestart(a)) /\ Silent("open", b)
  BY <1>4, <1>9, Heard, NothingSaid, NoElements
<1> DEFINE d == b \o c
<1>12. IsSeq(d) BY <1>7, <1>10, Joined
<1>13. EndsWith("sent", d, LockAtRestart(a)) /\ Silent("open", d)
  BY <1>7, <1>8, <1>10, <1>11, BothHeard
<1>14. x = [state |-> [a EXCEPT !.mo = mo], out |-> d] BY <1>1, <1>9 DEF b
<1> HIDE DEF d, x
<1>15. x.state = [a EXCEPT !.mo = mo] /\ x.out = d /\ DOMAIN x = {"state", "out"} BY <1>14
<1>16. /\ IsStep(x) /\ EndsWith("sent", x.out, LockAtRestart(a)) /\ Silent("open", x.out)
       /\ x.state = [a EXCEPT !.mo = IF Inject THEN 1 ELSE 0]
  BY <1>12, <1>13, <1>15 DEF IsStep
<1> QED BY <1>16 DEF x

-----------------------------------------------------------------------------
(* The invariant                                                             *)

AdapterFields ==
    {"known", "pending", "locked", "conf", "mo", "lock", "nfwControl", "afw", "xtraLock",
     "list", "mask", "api", "xtra", "band", "modes"}
AskedFields == {"lock", "nfws", "conf", "list", "api", "xtra", "band", "modes"}
ModemFields == {"up", "lock", "conf", "mo", "mask", "on", "band", "modes"}

MessageFits(m) ==
    /\ m.type = "update" => m.arg \in Updates
    /\ m.type = "types" => m.arg.source \in {"api", "xtra"}
    /\ m.type = "enable" => m.n \in Nat \ {0}

MessagesFit(q) == IsSeq(q) /\ \A k \in DOMAIN q : MessageFits(q[k])

(* What the calls, the messages and the requests look like                   *)
Shape ==
    /\ MessagesFit(queue) /\ MessagesFit(adapter.pending)
    /\ \A k \in DOMAIN adapter.pending : adapter.pending[k].type \in Waiting
    /\ IsSeq(requests) /\ IsSeq(commands)
    /\ DOMAIN adapter = AdapterFields /\ DOMAIN asked = AskedFields /\ DOMAIN modem = ModemFields
    /\ {adapter.known, adapter.locked, adapter.nfwControl, modem.up} \subseteq BOOLEAN

(* The framework's bit of the lock is set where the framework set the lock,  *)
(* and otherwise while positions are off.                                    *)
LockFits(a) ==
    /\ a.lock \subseteq Bits
    /\ "MO" \in a.lock <=> ~a.nfwControl \/ a.afw = 0

(* The modem is down until it is opened, once.                               *)
Opens ==
    /\ modem.up <=> Silent("open", requests)
    /\ \A i, j \in DOMAIN requests : requests[i].op = "open" /\ requests[j].op = "open" => i = j

(* The modem will be told that it came up, or it has the lock in the end.    *)
ModemLock ==
    modem.up /\ ~Exposed({"refuses"}) =>
        \/ ~Silent("up", queue)
        \/ Brings("sent", requests, modem.lock, LockAtRestart(adapter))

(* XTRA has the lock, or hears the engine's, which is the newest.            *)
XtraFits(a) == a.xtraLock \in {NoLock, IF a.afw = 0 \/ a.locked THEN {"MO"} ELSE {}}

XtraLock ==
    \/ EndsWith("engine", queue, adapter.locked)
    \/ Silent("engine", queue) /\ XtraFits(adapter)

(* What waits for the engine, in the adapter and behind no news of it in the *)
(* queue: while the engine is not known there will be news, and nothing      *)
(* waits if nothing came early.                                              *)
Coming(q, r) == ~Silent("open", r) \/ ~Silent("up", q)

UpLast(q) ==
    \A i, j \in DOMAIN q : i < j /\ q[i].type = "up" => Carried("waiting", q[j]) = {}

OrderOf(a, q, r, w) ==
    /\ a.known => a.pending = <<>>
    /\ ~a.known => Coming(q, r) /\ UpLast(q)
    /\ "locks" \notin w => ~a.locked /\ Silent("engine", q)
    /\ ~a.known /\ {"cold", "untimely"} \cap w = {} => Silent("waiting", q) /\ a.pending = <<>>

Order == OrderOf(adapter, queue, requests, world)

(* What waits, and then what is in the queue, brings the lock and the users  *)
(* that were asked for last.                                                 *)
LockNow(a) == IF a.nfwControl THEN NoLock ELSE a.lock
LockDue(s) == IF s.lock = NoLock THEN NoLock ELSE s.lock \cup {"MO"}

Heeded(what, pending, q, now, v) ==
    \E u : Brings(what, pending, now, u) /\ Brings(what, q, u, v)

Asked ==
    /\ Heeded("asked", adapter.pending, queue, LockNow(adapter), LockDue(asked))
    /\ adapter.nfwControl =>
          Heeded("nfws", adapter.pending, queue, adapter.lock \cap Nfws, Nfws \ asked.nfws)
    /\ asked.lock = NoLock \/ asked.lock \subseteq Bits

LockInv ==
    /\ Shape /\ LockFits(adapter) /\ Opens /\ ModemLock /\ XtraLock
    /\ ~Reordered => Order /\ Asked

(* A function with the domain of a sequence                                  *)
LEMMA SameDomain ==
    ASSUME NEW s, IsSeq(s), NEW r, r = [k \in DOMAIN s |-> r[k]]
    PROVE  IsSeq(r)
<1> DEFINE E == {r[k] : k \in DOMAIN r}
           A == {s[k] : k \in DOMAIN s}
<1>1. s \in Seq(A) BY DEF IsSeq
<1> HIDE DEF A
<1>2. Len(s) \in Nat /\ DOMAIN s = 1..Len(s) BY <1>1, LenProperties
<1>3. DOMAIN r = DOMAIN s  OBVIOUS
<1>4. r \in [1..Len(s) -> E] BY <1>2, <1>3
<1> HIDE DEF E
<1>5. r \in Seq(E) BY <1>2, <1>4
<1> QED BY <1>5, SeqOfItsElements

(* The calls stay in their order when one is answered.                       *)
LEMMA AnswersStay ==
    ASSUME NEW cs, IsSeq(cs), NEW n, NEW errs, NEW facts
    PROVE  IsSeq(Answered(cs, n, errs, facts))
<1> DEFINE r == Answered(cs, n, errs, facts)
<1>1. r = [k \in DOMAIN cs |-> r[k]] BY DEF Answered
<1> HIDE DEF r
<1>2. IsSeq(r) BY <1>1, SameDomain
<1> QED BY <1>2 DEF r

-----------------------------------------------------------------------------
(* What a step of the adapter leaves alone                                   *)

SameOrder(a, b) == b.known = a.known /\ b.pending = a.pending
SameXtra(a, b) == b.locked = a.locked /\ b.xtraLock = a.xtraLock
SameLock(a, b) == b.lock = a.lock /\ b.nfwControl = a.nfwControl /\ b.afw = a.afw

(* A message is taken, out is sent.                                          *)
Handles(out) ==
    /\ queue # <<>>
    /\ requests' = requests \o out /\ IsSeq(out) /\ Silent("open", out)
    /\ IsSeq(commands') /\ DOMAIN adapter' = AdapterFields
    /\ UNCHANGED <<world, asked, modem>>

(* A message that is not about the lock                                      *)
HandlesPlain ==
    \E out :
        /\ Handles(out) /\ Silent("sent", out)
        /\ queue' = Tail(queue)
        /\ Head(queue).type \notin {"update", "nfw", "lock", "up"}
        /\ SameOrder(adapter, adapter') /\ SameXtra(adapter, adapter') /\ SameLock(adapter, adapter')

LEMMA PlainDone ==
    ASSUME Shape, queue # <<>>, Head(queue).type \notin {"update", "nfw", "lock", "up"},
           IsSeq(commands'),
           NEW x, IsStep(x), Silent("sent", x.out), Silent("open", x.out), Done(x),
           DOMAIN x.state = AdapterFields,
           SameOrder(adapter, x.state), SameXtra(adapter, x.state), SameLock(adapter, x.state)
    PROVE  HandlesPlain
<1>1. Handles(x.out) BY DEF Handles, Done, IsStep
<1>2. queue' = Tail(queue) /\ adapter' = x.state BY DEF Done
<1> QED BY <1>1, <1>2 DEF HandlesPlain

(* The state changes elsewhere, and requests that are not about the lock are *)
(* sent.                                                                     *)
LEMMA PlainMild ==
    ASSUME Shape, queue # <<>>, Head(queue).type \notin {"update", "nfw", "lock", "up"},
           IsSeq(commands'),
           NEW a, DOMAIN a = AdapterFields,
           SameOrder(adapter, a), SameXtra(adapter, a), SameLock(adapter, a),
           NEW x, Mild(Open(a), x), Done(x)
    PROVE  HandlesPlain
<1>1. IsStep(x) /\ x.state = a /\ Silent("sent", x.out) /\ Silent("open", x.out)
  BY NothingSent, NothingSaid DEF Mild
<1> QED BY <1>1, PlainDone

(* A message that changes nothing and sends nothing                          *)
LEMMA PlainNothing ==
    ASSUME Shape, queue # <<>>, Head(queue).type \notin {"update", "nfw", "lock", "up"},
           IsSeq(commands'), Done(Open(adapter))
    PROVE  HandlesPlain
<1>1. DOMAIN adapter = AdapterFields BY DEF Shape
<1>2. SameOrder(adapter, adapter) /\ SameXtra(adapter, adapter) /\ SameLock(adapter, adapter)
  BY DEF SameOrder, SameXtra, SameLock
<1> DEFINE x == Open(adapter)
<1>3. Mild(x, x) BY NothingSent, MildSame
<1>4. Done(x)  OBVIOUS
<1> HIDE DEF x
<1>5. Mild(Open(adapter), x) BY <1>3 DEF x
<1> QED BY <1>1, <1>2, <1>4, <1>5, PlainMild

(* The messages that are not about the lock                                  *)
LEMMA PlainGet == ASSUME Shape, ProcGet PROVE HandlesPlain
<1> DEFINE read == {"robust", "week", "elevation"} \cap Arg
           now == InOrder(Flags, Arg \ read)
           errs == [k \in DOMAIN now |->
                        IF now[k] = "blacklist" /\ Supported THEN "ok" ELSE "unsupported"]
           reads == [k \in 1..Cardinality(read) |->
                        [op |-> "read", n |-> Head(queue).n, id |-> Len(now) + 1]]
           x == [state |-> adapter, out |-> reads]
<1>1. /\ queue # <<>> /\ Head(queue).type = "get" /\ Done(x)
      /\ commands' = Answered(commands, Head(queue).n, errs, errs)
  BY DEF ProcGet, Received, Message
<1>2. IsSeq(commands') BY <1>1, AnswersStay DEF Shape
<1>3. Cardinality(read) \in Nat
  <2>1. IsFiniteSet({"robust"}) /\ IsFiniteSet({"week"}) /\ IsFiniteSet({"elevation"})
    BY FS_Singleton
  <2>2. IsFiniteSet({"robust"} \cup {"week"} \cup {"elevation"}) BY <2>1, FS_Union
  <2>3. read \in SUBSET ({"robust"} \cup {"week"} \cup {"elevation"})  OBVIOUS
  <2> QED BY <2>2, <2>3, FS_Subset, FS_CardinalityType
<1> HIDE DEF now, read, errs
<1>4. \A k \in DOMAIN reads : reads[k].op = "read"  OBVIOUS
<1>5. IsSeq(reads)
  <2> DEFINE n == Cardinality(read)
             E == {reads[k] : k \in DOMAIN reads}
  <2>1. n \in Nat /\ DOMAIN reads = 1..n BY <1>3
  <2>2. reads \in [1..n -> E]  OBVIOUS
  <2> HIDE DEF n, E, reads
  <2>3. reads \in Seq(E) BY <2>1, <2>2
  <2> QED BY <2>3, SeqOfItsElements
<1> HIDE DEF reads
<1>6. x.out = reads /\ x.state = adapter /\ DOMAIN x = {"state", "out"}  OBVIOUS
<1>7. ASSUME NEW k \in DOMAIN reads
      PROVE  Carried("sent", reads[k]) = {} /\ Carried("open", reads[k]) = {}
  BY <1>4, CarriedByType
<1>8. Silent("sent", x.out) /\ Silent("open", x.out) /\ IsStep(x)
  BY <1>5, <1>6, <1>7 DEF Silent, IsStep
<1>9. /\ DOMAIN x.state = AdapterFields
      /\ SameOrder(adapter, x.state) /\ SameXtra(adapter, x.state) /\ SameLock(adapter, x.state)
  BY <1>6 DEF Shape, SameOrder, SameXtra, SameLock
<1>10. Head(queue).type \notin {"update", "nfw", "lock", "up"} BY <1>1
<1> HIDE DEF x
<1> QED BY <1>1, <1>2, <1>8, <1>9, <1>10, PlainDone

LEMMA PlainTypes == ASSUME Shape, ProcTypes PROVE HandlesPlain
<1> DEFINE a == [adapter EXCEPT ![Arg.source] = Arg.types]
           x == gnssSvTypeConfigUpdate(Open(a), CombinedTypes(adapter), CombinedTypes(a))
<1>1. /\ queue # <<>> /\ Head(queue).type = "types" /\ UNCHANGED commands
      /\ Done(IF Supported THEN x ELSE Open(adapter))
  BY DEF ProcTypes, Received, Message
<1>2. IsSeq(commands') /\ Head(queue).type \notin {"update", "nfw", "lock", "up"}
  BY <1>1 DEF Shape
<1>3. Arg.source \in {"api", "xtra"}
  <2>1. Head(queue) = queue[1] /\ 1 \in DOMAIN queue BY <1>1, Removed DEF Shape, MessagesFit
  <2>2. MessageFits(Head(queue)) BY <2>1 DEF Shape, MessagesFit
  <2> QED BY <1>1, <2>2 DEF MessageFits, Arg
<1>4. DOMAIN adapter = AdapterFields BY DEF Shape
<1>5. /\ DOMAIN a = AdapterFields
      /\ SameOrder(adapter, a) /\ SameXtra(adapter, a) /\ SameLock(adapter, a)
  BY <1>3, <1>4 DEF SameOrder, SameXtra, SameLock, AdapterFields
<1> HIDE DEF a
<1>6. Mild(Open(a), x) BY NothingSent, MildSvType
<1> HIDE DEF x
<1>7. CASE Supported
  <2>1. Done(x) BY <1>1, <1>7
  <2> QED BY <1>1, <1>2, <1>5, <1>6, <2>1, PlainMild
<1>8. CASE ~Supported
  <2>1. Done(Open(adapter)) BY <1>1, <1>8
  <2> QED BY <1>1, <1>2, <2>1, PlainNothing
<1> QED BY <1>7, <1>8

LEMMA PlainSvs == ASSUME Shape, gnssUpdateSvConfig PROVE HandlesPlain
<1> DEFINE current == CombinedTypes(adapter)
           types == Arg.types
           a == [adapter EXCEPT !.api = types, !.mask = Arg.mask,
                                !.list = convertFromGnssSvIdConfig(Arg.mask)]
           y == Open(a)
           r == IF ~types.set \/ current.on \ types.on # {} THEN Send(y, [op |-> "reset"]) ELSE y
           c == IF types.set THEN Send(r, [op |-> "control", on |-> current.on]) ELSE r
           x == SetBlacklistSv(c, Arg.mask, Head(queue).n)
<1>1. queue # <<>> /\ Head(queue).type = "svs" /\ UNCHANGED commands /\ Done(x)
  BY DEF gnssUpdateSvConfig, Received, Message
<1>2. IsSeq(commands') /\ Head(queue).type \notin {"update", "nfw", "lock", "up"}
  BY <1>1 DEF Shape
<1>3. /\ DOMAIN a = AdapterFields
      /\ SameOrder(adapter, a) /\ SameXtra(adapter, a) /\ SameLock(adapter, a)
  BY DEF Shape, SameOrder, SameXtra, SameLock, AdapterFields
<1> HIDE DEF a
<1>4. IsStep(y) BY NothingSent
<1>5. y = Open(a)  OBVIOUS
<1> HIDE DEF y, current, types
<1>6. Mild(y, r) /\ IsStep(r) BY <1>4, MildReset, MildSame DEF Mild
<1> HIDE DEF r
<1>7. Mild(r, c) /\ IsStep(c) BY <1>6, MildControl, MildSame DEF Mild
<1> HIDE DEF c
<1>8. Mild(c, x) BY <1>7, MildBlacklist
<1>9. Mild(y, x) BY <1>6, <1>7, <1>8, MildMild
<1>10. Mild(Open(a), x) BY <1>5, <1>9
<1> HIDE DEF x
<1> QED BY <1>1, <1>2, <1>3, <1>10, PlainMild

LEMMA PlainBand == ASSUME Shape, gnssUpdateSecondaryBandConfig PROVE HandlesPlain
<1> DEFINE a == [adapter EXCEPT !.band = Arg]
           x == gnssSecondaryBandConfigUpdate(Open(a), Head(queue).n)
<1>1. queue # <<>> /\ Head(queue).type = "band" /\ UNCHANGED commands /\ Done(x)
  BY DEF gnssUpdateSecondaryBandConfig, Received, Message
<1>2. IsSeq(commands') /\ Head(queue).type \notin {"update", "nfw", "lock", "up"}
  BY <1>1 DEF Shape
<1>3. /\ DOMAIN a = AdapterFields
      /\ SameOrder(adapter, a) /\ SameXtra(adapter, a) /\ SameLock(adapter, a)
  BY DEF Shape, SameOrder, SameXtra, SameLock, AdapterFields
<1> HIDE DEF a
<1>4. Mild(Open(a), x) BY NothingSent, MildBand
<1> HIDE DEF x
<1> QED BY <1>1, <1>2, <1>3, <1>4, PlainMild

LEMMA PlainMode == ASSUME Shape, ProcMode PROVE HandlesPlain
<1> DEFINE a == [adapter EXCEPT !.modes[Arg.mode] = Arg.value]
           r == [op |-> "mode", n |-> Head(queue).n, mode |-> Arg.mode, value |-> Arg.value]
           x == Send(Open(a), r)
<1>1. queue # <<>> /\ Head(queue).type = "mode" /\ UNCHANGED commands /\ Done(x)
  BY DEF ProcMode, Received, Message
<1>2. IsSeq(commands') /\ Head(queue).type \notin {"update", "nfw", "lock", "up"}
  BY <1>1 DEF Shape
<1>3. /\ DOMAIN a = AdapterFields
      /\ SameOrder(adapter, a) /\ SameXtra(adapter, a) /\ SameLock(adapter, a)
  BY DEF Shape, SameOrder, SameXtra, SameLock, AdapterFields
<1>4. r.op \in Aside BY DEF Aside
<1> HIDE DEF a, r
<1>5. Mild(Open(a), x) BY <1>4, NothingSent, MildSend
<1> HIDE DEF x
<1> QED BY <1>1, <1>2, <1>3, <1>5, PlainMild

LEMMA PlainWeek == ASSUME Shape, ProcWeek PROVE HandlesPlain
<1> DEFINE r == [op |-> "week", n |-> Head(queue).n, value |-> Arg]
           x == Send(Open(adapter), r)
<1>1. queue # <<>> /\ Head(queue).type = "week" /\ UNCHANGED commands /\ Done(x)
  BY DEF ProcWeek, Received, Message
<1>2. IsSeq(commands') /\ Head(queue).type \notin {"update", "nfw", "lock", "up"}
  BY <1>1 DEF Shape
<1>3. /\ DOMAIN adapter = AdapterFields
      /\ SameOrder(adapter, adapter) /\ SameXtra(adapter, adapter) /\ SameLock(adapter, adapter)
  BY DEF Shape, SameOrder, SameXtra, SameLock
<1>4. r.op \in Aside BY DEF Aside
<1> HIDE DEF r
<1>5. Mild(Open(adapter), x) BY <1>4, NothingSent, MildSend
<1> HIDE DEF x
<1> QED BY <1>1, <1>2, <1>3, <1>5, PlainMild

LEMMA PlainResponse == ASSUME Shape, ProcResponse PROVE HandlesPlain
<1> DEFINE m == Head(queue)
           c == [commands EXCEPT ![m.n].told[m.id] = @ + 1]
<1>1. /\ queue # <<>> /\ Head(queue).type = "response" /\ Done(Open(adapter))
      /\ \/ commands' = Answered(commands, m.n, m.errs, m.facts)
         \/ commands' = c
  BY DEF ProcResponse, Message
<1>2. IsSeq(commands) BY DEF Shape
<1>3. c = [k \in DOMAIN commands |-> c[k]]  OBVIOUS
<1> HIDE DEF c, m
<1>4. IsSeq(c) BY <1>2, <1>3, SameDomain
<1>5. IsSeq(commands') BY <1>1, <1>2, <1>4, AnswersStay
<1>6. Head(queue).type \notin {"update", "nfw", "lock", "up"} BY <1>1
<1> QED BY <1>1, <1>5, <1>6, PlainNothing

-----------------------------------------------------------------------------
(* The steps of the adapter that are about the lock                          *)

(* The lock and whether positions are on: what the modem should have is sent *)
HandlesLock ==
    \E out :
        /\ Handles(out) /\ EndsWith("sent", out, LockAtRestart(adapter'))
        /\ queue' = Tail(queue)
        /\ SameOrder(adapter, adapter') /\ adapter'.locked = adapter.locked
        /\ adapter'.nfwControl = adapter.nfwControl
        /\ LockFits(adapter')
        /\ adapter.nfwControl \/ adapter'.lock = adapter.lock

(* The lock is the last that is sent.                                        *)
LEMMA SendLock ==
    ASSUME NEW x, IsStep(x), x.out = <<>>, NEW lock
    PROVE  /\ IsStep(SetGpsLock(x, lock)) /\ SetGpsLock(x, lock).state = x.state
           /\ EndsWith("sent", SetGpsLock(x, lock).out, lock)
           /\ Silent("open", SetGpsLock(x, lock).out)
<1> DEFINE r == [op |-> "lock", lock |-> lock]
           y == SetGpsLock(x, lock)
<1>1. y.out = Append(<<>>, r) /\ y.state = x.state /\ DOMAIN y = {"state", "out"}
  BY DEF SetGpsLock, Send, IsStep
<1>2. LockSent(r) = {lock} /\ r.op # "open" BY DEF LockSent
<1> HIDE DEF r, y
<1>3. Carried("sent", r) = {lock} /\ Carried("open", r) = {} BY <1>2, CarriedByType
<1>4. EndsWith("sent", Append(<<>>, r), lock) /\ Silent("open", Append(<<>>, r))
  BY <1>3, NoElements, NothingSaid, Heard
<1>5. IsSeq(Append(<<>>, r)) BY NoElements, Added
<1> QED BY <1>1, <1>4, <1>5 DEF IsStep, y

(* Both calls tell XTRA.                                                     *)
LEMMA LockTold ==
    ASSUME Shape, queue # <<>>, Head(queue).type \in {"enable", "disable"}, IsSeq(commands'),
           NEW a, DOMAIN a = AdapterFields, SameOrder(adapter, a), SameXtra(adapter, a),
           a.nfwControl = adapter.nfwControl, LockFits(a),
           adapter.nfwControl \/ a.lock = adapter.lock,
           NEW lock, lock = LockAtRestart(a), "MO" \in lock <=> a.afw = 0,
           Done(TellXtra(SetGpsLock(Open(a), lock), lock))
    PROVE  HandlesLock /\ XtraFits(adapter')
<1> DEFINE y == SetGpsLock(Open(a), lock)
           x == TellXtra(y, lock)
           xtraLock == (lock \cap {"MO"}) \cup (IF a.locked THEN {"MO"} ELSE {})
<1>1. /\ IsStep(y) /\ y.state = a /\ EndsWith("sent", y.out, lock) /\ Silent("open", y.out)
  BY NothingSent, SendLock
<1>2. Done(x)  OBVIOUS
<1> HIDE DEF y
<1>3. /\ x.out = y.out /\ x.state = [a EXCEPT !.xtraLock = xtraLock]
  BY <1>1 DEF TellXtra, IsStep
<1> HIDE DEF x
<1>4. /\ adapter' = [a EXCEPT !.xtraLock = xtraLock] /\ queue' = Tail(queue)
      /\ requests' = requests \o y.out
      /\ UNCHANGED <<world, asked, modem>>
  BY <1>2, <1>3 DEF Done
<1>5. xtraLock = IF a.afw = 0 \/ a.locked THEN {"MO"} ELSE {}  OBVIOUS
<1> HIDE DEF xtraLock
<1>6. /\ adapter'.known = adapter.known /\ adapter'.pending = adapter.pending
      /\ adapter'.locked = a.locked /\ a.locked = adapter.locked
      /\ adapter'.lock = a.lock /\ adapter'.afw = a.afw
      /\ adapter'.nfwControl = a.nfwControl /\ adapter'.xtraLock = xtraLock
      /\ DOMAIN adapter' = AdapterFields
  BY <1>4 DEF AdapterFields, SameOrder, SameXtra
<1>7. XtraFits(adapter') BY <1>5, <1>6 DEF XtraFits
<1>8. LockAtRestart(adapter') = lock /\ LockFits(adapter') BY <1>6 DEF LockAtRestart, LockFits
<1>9. Handles(y.out) BY <1>1, <1>4, <1>6 DEF Handles, IsStep
<1>10. HandlesLock BY <1>1, <1>4, <1>6, <1>8, <1>9 DEF HandlesLock, SameOrder
<1> QED BY <1>7, <1>10

HandlesSwitch ==
    /\ HandlesLock /\ XtraFits(adapter')
    /\ Head(queue).type \in {"enable", "disable"}
    /\ adapter.nfwControl => adapter'.lock \cap Nfws = adapter.lock \cap Nfws

(* Positions on: the bit of the framework goes, unless it set the lock.      *)
LEMMA EnableHandles ==
    ASSUME Shape, LockFits(adapter), ProcEnable
    PROVE  HandlesPlain \/ HandlesSwitch
<1> DEFINE n == Head(queue).n
           lock == IF adapter.nfwControl THEN adapter.lock \cap Nfws ELSE {}
           a == [adapter EXCEPT !.afw = n, !.lock = IF adapter.nfwControl THEN lock ELSE @]
<1>1. /\ queue # <<>> /\ Head(queue).type = "enable"
      /\ \/ adapter.afw # 0 /\ Done(Open(adapter)) /\ reportResponse(n, "already")
         \/ /\ adapter.afw = 0 /\ Done(TellXtra(SetGpsLock(Open(a), lock), lock))
            /\ reportResponse(n, "ok")
  BY DEF ProcEnable, Received, Message
<1>2. IsSeq(commands') BY <1>1, AnswersStay DEF Shape, reportResponse
<1>3. CASE Done(Open(adapter)) BY <1>1, <1>2, <1>3, PlainNothing
<1>4. CASE adapter.afw = 0 /\ Done(TellXtra(SetGpsLock(Open(a), lock), lock))
  <2>1. n \in Nat \ {0}
    <3>1. Head(queue) = queue[1] /\ 1 \in DOMAIN queue BY <1>1, Removed DEF Shape, MessagesFit
    <3>2. MessageFits(Head(queue)) BY <3>1 DEF Shape, MessagesFit
    <3> QED BY <1>1, <3>2 DEF MessageFits
  <2>2. /\ a.known = adapter.known /\ a.pending = adapter.pending
        /\ a.locked = adapter.locked /\ a.xtraLock = adapter.xtraLock
        /\ a.nfwControl = adapter.nfwControl /\ a.afw = n
        /\ a.lock = (IF adapter.nfwControl THEN lock ELSE adapter.lock)
        /\ DOMAIN a = AdapterFields
    BY DEF Shape, AdapterFields
  <2>3. "MO" \notin Nfws /\ adapter.nfwControl \in BOOLEAN BY GnssConfigAssumption DEF Shape
  <2>4. /\ adapter.lock \subseteq Bits
        /\ "MO" \in adapter.lock <=> ~adapter.nfwControl \/ adapter.afw = 0
    BY DEF LockFits
  <2>5. lock = LockAtRestart(a) BY <2>1, <2>2, <2>3 DEF LockAtRestart
  <2>6. "MO" \notin lock /\ a.afw # 0 BY <2>1, <2>2, <2>3
  <2>7. LockFits(a) BY <2>1, <2>2, <2>3, <2>4, <2>6 DEF LockFits
  <2>8. adapter.nfwControl => a.lock \cap Nfws = adapter.lock \cap Nfws BY <2>2
  <2>9. adapter.nfwControl \/ a.lock = adapter.lock BY <2>2, <2>3
  <2> HIDE DEF a, lock, n
  <2>10. HandlesLock /\ XtraFits(adapter')
    BY <1>1, <1>2, <1>4, <2>2, <2>5, <2>6, <2>7, <2>9, LockTold DEF SameOrder, SameXtra
  <2>11. adapter'.lock = a.lock
    BY <1>4, <2>2, NothingSent, SendLock DEF Done, TellXtra, AdapterFields
  <2> QED BY <1>1, <2>8, <2>10, <2>11 DEF HandlesSwitch
<1> QED BY <1>1, <1>3, <1>4

(* Positions off: it is there again.                                         *)
LEMMA DisableHandles ==
    ASSUME Shape, LockFits(adapter), ProcDisable
    PROVE  HandlesPlain \/ HandlesSwitch
<1> DEFINE n == Head(queue).n
           lock == IF adapter.nfwControl THEN adapter.lock \cup {"MO"} ELSE adapter.lock
           a == [adapter EXCEPT !.afw = 0, !.lock = lock]
<1>1. /\ queue # <<>> /\ Head(queue).type = "disable"
      /\ \/ Done(Open(adapter)) /\ reportResponse(n, "unknown")
         \/ Done(TellXtra(SetGpsLock(Open(a), lock), lock)) /\ reportResponse(n, "ok")
  BY DEF ProcDisable, Received, Message
<1>2. IsSeq(commands') BY <1>1, AnswersStay DEF Shape, reportResponse
<1>3. CASE Done(Open(adapter)) BY <1>1, <1>2, <1>3, PlainNothing
<1>4. CASE Done(TellXtra(SetGpsLock(Open(a), lock), lock))
  <2>2. /\ a.known = adapter.known /\ a.pending = adapter.pending
        /\ a.locked = adapter.locked /\ a.xtraLock = adapter.xtraLock
        /\ a.nfwControl = adapter.nfwControl /\ a.afw = 0 /\ a.lock = lock
        /\ DOMAIN a = AdapterFields
    BY DEF Shape, AdapterFields
  <2>3. "MO" \notin Nfws /\ adapter.nfwControl \in BOOLEAN BY GnssConfigAssumption DEF Shape
  <2>4. /\ adapter.lock \subseteq Bits
        /\ "MO" \in adapter.lock <=> ~adapter.nfwControl \/ adapter.afw = 0
    BY DEF LockFits
  <2>5. lock = LockAtRestart(a) BY <2>2 DEF LockAtRestart
  <2>6. "MO" \in lock BY <2>3, <2>4
  <2>7. LockFits(a) BY <2>2, <2>4, <2>6 DEF LockFits, Bits
  <2>8. adapter.nfwControl => a.lock \cap Nfws = adapter.lock \cap Nfws BY <2>2, <2>3
  <2>9. adapter.nfwControl \/ a.lock = adapter.lock BY <2>2, <2>3
  <2> HIDE DEF a, lock, n
  <2>10. HandlesLock /\ XtraFits(adapter')
    BY <1>1, <1>2, <1>4, <2>2, <2>5, <2>6, <2>7, <2>9, LockTold DEF SameOrder, SameXtra
  <2>11. adapter'.lock = a.lock
    BY <1>4, <2>2, NothingSent, SendLock DEF Done, TellXtra, AdapterFields
  <2> QED BY <1>1, <2>8, <2>10, <2>11 DEF HandlesSwitch
<1> QED BY <1>1, <1>3, <1>4

(* The users who may have positions                                          *)
HandlesNfw ==
    /\ Head(queue).type = "nfw" /\ adapter.known
    /\ SameXtra(adapter, adapter') /\ adapter'.afw = adapter.afw
    /\ \/ /\ adapter.nfwControl /\ HandlesLock
          /\ adapter'.lock \cap Nfws = Nfws \ Head(queue).arg
       \/ /\ ~adapter.nfwControl
          /\ \E out : Handles(out) /\ Silent("sent", out)
          /\ queue' = Tail(queue)
          /\ SameOrder(adapter, adapter') /\ SameLock(adapter, adapter')

(* The bits of the other users                                               *)
LEMMA NfwHandles ==
    ASSUME Shape, LockFits(adapter), ProcNfw
    PROVE  HandlesNfw
<1> DEFINE lock == (adapter.lock \cap {"MO"}) \cup (Nfws \ Arg)
           a == [adapter EXCEPT !.lock = lock]
           x == SetGpsLock(Open(a), lock)
<1>1. /\ queue # <<>> /\ Head(queue).type = "nfw" /\ adapter.known /\ UNCHANGED commands
      /\ Done(IF adapter.nfwControl THEN x ELSE Open(adapter))
  BY DEF ProcNfw, Received, Message, Waiting
<1>2. IsSeq(commands') /\ DOMAIN adapter = AdapterFields /\ adapter.nfwControl \in BOOLEAN
  BY <1>1 DEF Shape
<1>3. CASE adapter.nfwControl
  <2>1. /\ a.known = adapter.known /\ a.pending = adapter.pending
        /\ a.locked = adapter.locked /\ a.xtraLock = adapter.xtraLock
        /\ a.nfwControl = adapter.nfwControl /\ a.afw = adapter.afw /\ a.lock = lock
        /\ DOMAIN a = AdapterFields
    BY DEF Shape, AdapterFields
  <2>2. "MO" \notin Nfws BY GnssConfigAssumption
  <2>3. lock = LockAtRestart(a) BY <1>3, <2>1 DEF LockAtRestart
  <2>4. LockFits(a) BY <2>1, <2>2 DEF LockFits, Bits
  <2>5. lock \cap Nfws = Nfws \ Head(queue).arg BY <2>2 DEF Arg
  <2> HIDE DEF a, lock
  <2>6. IsStep(x) /\ x.state = a /\ EndsWith("sent", x.out, lock) /\ Silent("open", x.out)
    BY NothingSent, SendLock
  <2>7. Done(x) BY <1>1, <1>3
  <2> HIDE DEF x
  <2>8. adapter' = a /\ queue' = Tail(queue) /\ Handles(x.out)
    BY <1>1, <1>2, <2>1, <2>6, <2>7 DEF Done, Handles, IsStep
  <2>9. HandlesLock BY <1>3, <2>1, <2>3, <2>4, <2>6, <2>8 DEF HandlesLock, SameOrder
  <2> QED BY <1>1, <1>3, <2>1, <2>5, <2>8, <2>9 DEF HandlesNfw, SameXtra
<1>4. CASE ~adapter.nfwControl
  <2>1. Done(Open(adapter)) BY <1>1, <1>4
  <2>2. adapter' = adapter /\ queue' = Tail(queue) /\ Handles(<<>>)
    BY <1>1, <1>2, <2>1, NothingSent, NoElements, NothingSaid DEF Done, Handles
  <2>3. Silent("sent", <<>>) BY NothingSaid
  <2> QED BY <1>1, <1>4, <2>2, <2>3 DEF HandlesNfw, SameOrder, SameXtra, SameLock
<1> QED BY <1>2, <1>3, <1>4

(* The framework's lock is taken over, and sent unless the modem has the one *)
(* it should have while positions are on.                                    *)
HandlesUpdate ==
    /\ Head(queue).type = "update" /\ adapter.known
    /\ SameOrder(adapter, adapter') /\ SameXtra(adapter, adapter') /\ adapter'.afw = adapter.afw
    /\ queue' = Tail(queue)
    /\ \E out :
        /\ Handles(out)
        /\ \/ /\ LockAsked(Head(queue)) = {} /\ Silent("sent", out)
              /\ SameLock(adapter, adapter')
           \/ /\ LockAsked(Head(queue)) = {adapter'.lock} /\ adapter'.nfwControl = FALSE
              /\ adapter'.lock \subseteq Bits /\ "MO" \in adapter'.lock
              /\ \/ EndsWith("sent", out, LockAtRestart(adapter'))
                 \/ Silent("sent", out) /\ LockAtRestart(adapter') = LockAtRestart(adapter)

(* One request                                                               *)
LEMMA SendOne ==
    ASSUME NEW a, NEW r, r.op # "open"
    PROVE  /\ IsSeq(Send(Open(a), r).out) /\ Silent("open", Send(Open(a), r).out)
           /\ Send(Open(a), r).state = a
           /\ \A v : LockSent(r) = {v} => EndsWith("sent", Send(Open(a), r).out, v)
           /\ LockSent(r) = {} => Silent("sent", Send(Open(a), r).out)
<1> DEFINE s == Append(<<>>, r)
           x == Send(Open(a), r)
<1>1. x.out = s /\ x.state = a BY NothingSent DEF Send, IsStep
<1>2. Carried("open", r) = {} /\ Carried("sent", r) = LockSent(r) BY CarriedByType
<1>3. IsSeq(s) /\ Silent("open", s) BY <1>2, NoElements, NothingSaid, Heard, Added
<1>4. \A v : LockSent(r) = {v} => EndsWith("sent", s, v)
  BY <1>2, NoElements, NothingSaid, Heard
<1>5. LockSent(r) = {} => Silent("sent", s) BY <1>2, NoElements, NothingSaid, Heard
<1> HIDE DEF s, x
<1>6. /\ IsSeq(x.out) /\ Silent("open", x.out) /\ x.state = a
      /\ \A v : LockSent(r) = {v} => EndsWith("sent", x.out, v)
      /\ LockSent(r) = {} => Silent("sent", x.out)
  BY <1>1, <1>3, <1>4, <1>5
<1> QED BY <1>6 DEF x

(* A lock that the framework sets is kept as a mask, and sent.               *)
LEMMA UpdateHandles ==
    ASSUME Shape, LockFits(adapter), ProcUpdate
    PROVE  HandlesUpdate
<1> DEFINE u == Arg
           locks == "lock" \in u.flags
           lock == IF locks THEN u.lock \cup {"MO"} ELSE adapter.lock
           known == IF "server" \in u.flags /\ (u.server # "supl" \/ ~Inject)
                    THEN u.flags \ {"server"} ELSE u.flags
           a == [adapter EXCEPT
                    !.conf = [i \in Kept |-> IF i \in known THEN u.value ELSE @[i]],
                    !.lock = lock,
                    !.nfwControl = @ /\ ~locks]
           need == (u.flags \ (IF u.server # "supl" THEN {"server"} ELSE {}))
                   \ (IF adapter.afw # 0 /\ ~adapter.nfwControl THEN {"lock"} ELSE {})
           r == [op |-> "update", n |-> Head(queue).n, flags |-> u.flags, need |-> need,
                 lock |-> IF adapter.afw # 0 /\ adapter.nfwControl THEN {} ELSE lock,
                 list |-> u.list, conf |-> [i \in Kept \cup Engine |-> u.value],
                 mo |-> adapter.mo]
           x == Send(Open(a), r)
<1>1. /\ queue # <<>> /\ Head(queue).type = "update" /\ adapter.known /\ UNCHANGED commands
      /\ Done(x)
  BY DEF ProcUpdate, Received, Message, Waiting
<1>2. /\ IsSeq(commands') /\ DOMAIN adapter = AdapterFields
      /\ adapter.nfwControl \in BOOLEAN
  BY <1>1 DEF Shape
<1>3. u \in Updates
  <2>1. Head(queue) = queue[1] /\ 1 \in DOMAIN queue BY <1>1, Removed DEF Shape, MessagesFit
  <2>2. MessageFits(Head(queue)) BY <2>1 DEF Shape, MessagesFit
  <2> QED BY <1>1, <2>2 DEF MessageFits, Arg
<1>4. u.lock \subseteq Bits BY <1>3, GnssConfigAssumption
<1>5. LockAsked(Head(queue)) = IF locks THEN {u.lock \cup {"MO"}} ELSE {}
  BY <1>1 DEF LockAsked, Arg
<1>6. /\ a.known = adapter.known /\ a.pending = adapter.pending
      /\ a.locked = adapter.locked /\ a.xtraLock = adapter.xtraLock
      /\ a.afw = adapter.afw /\ a.lock = lock
      /\ DOMAIN a = AdapterFields
  BY <1>2 DEF AdapterFields
<1>7. a.nfwControl = (adapter.nfwControl /\ ~locks) BY <1>2 DEF AdapterFields
<1>8. /\ r.op = "update" /\ r.flags = u.flags /\ r.need = need
      /\ r.lock = IF adapter.afw # 0 /\ adapter.nfwControl THEN {} ELSE lock
  OBVIOUS
<1>9. LockSent(r) = IF locks /\ ~(adapter.afw # 0 /\ ~adapter.nfwControl) THEN {r.lock} ELSE {}
  BY <1>8 DEF LockSent
<1> HIDE DEF a, r, need, known
<1>10. /\ IsSeq(x.out) /\ Silent("open", x.out) /\ x.state = a
       /\ \A v : LockSent(r) = {v} => EndsWith("sent", x.out, v)
       /\ LockSent(r) = {} => Silent("sent", x.out)
  BY <1>8, SendOne
<1> HIDE DEF x
<1>11. adapter' = a /\ queue' = Tail(queue) /\ Handles(x.out)
  BY <1>1, <1>2, <1>6, <1>10 DEF Done, Handles
<1>12. SameOrder(adapter, adapter') /\ SameXtra(adapter, adapter') /\ adapter'.afw = adapter.afw
  BY <1>6, <1>11 DEF SameOrder, SameXtra
<1>13. \/ /\ LockAsked(Head(queue)) = {} /\ Silent("sent", x.out)
          /\ SameLock(adapter, adapter')
       \/ /\ LockAsked(Head(queue)) = {adapter'.lock} /\ adapter'.nfwControl = FALSE
          /\ adapter'.lock \subseteq Bits /\ "MO" \in adapter'.lock
          /\ \/ EndsWith("sent", x.out, LockAtRestart(adapter'))
             \/ Silent("sent", x.out) /\ LockAtRestart(adapter') = LockAtRestart(adapter)
  <2>1. CASE ~locks
    <3>1. LockAsked(Head(queue)) = {} /\ Silent("sent", x.out) BY <1>5, <1>9, <1>10, <2>1
    <3>2. SameLock(adapter, adapter') BY <1>2, <1>6, <1>7, <1>11, <2>1 DEF SameLock
    <3> QED BY <3>1, <3>2
  <2>2. CASE locks
    <3>1. LockAsked(Head(queue)) = {adapter'.lock} /\ adapter'.nfwControl = FALSE
      BY <1>5, <1>6, <1>7, <1>11, <2>2
    <3>2. adapter'.lock \subseteq Bits /\ "MO" \in adapter'.lock
      BY <1>4, <1>6, <1>11, <2>2 DEF Bits
    <3>3. LockAtRestart(adapter') = IF adapter.afw = 0 THEN lock ELSE {}
      BY <1>6, <1>11, <3>1 DEF LockAtRestart
    <3>4. CASE adapter.afw # 0 /\ ~adapter.nfwControl
      <4>1. Silent("sent", x.out) BY <1>9, <1>10, <3>4
      <4>2. LockAtRestart(adapter) = {} BY <3>4 DEF LockAtRestart
      <4> QED BY <3>1, <3>2, <3>3, <3>4, <4>1, <4>2
    <3>5. CASE ~(adapter.afw # 0 /\ ~adapter.nfwControl)
      <4>1. LockSent(r) = {r.lock} BY <1>9, <2>2, <3>5
      <4>2. r.lock = LockAtRestart(adapter') BY <1>8, <3>3, <3>5
      <4>3. EndsWith("sent", x.out, LockAtRestart(adapter')) BY <1>10, <4>1, <4>2
      <4> QED BY <3>1, <3>2, <4>3
    <3> QED BY <3>4, <3>5
  <2> QED BY <2>1, <2>2
<1> QED BY <1>1, <1>11, <1>12, <1>13 DEF HandlesUpdate

(* A message waits for the engine.                                           *)
HandlesEarly ==
    /\ Handles(<<>>)
    /\ Head(queue).type \in Waiting /\ ~adapter.known
    /\ queue' = Tail(queue)
    /\ adapter'.known = adapter.known
    /\ adapter'.pending = Append(adapter.pending, Head(queue))
    /\ SameXtra(adapter, adapter') /\ SameLock(adapter, adapter')

(* Before the engine is known it waits.                                      *)
LEMMA EarlyHandles == ASSUME Shape, ProcEarly PROVE HandlesEarly
<1> DEFINE a == [adapter EXCEPT !.pending = Append(@, Head(queue))]
<1>1. /\ queue # <<>> /\ Head(queue).type \in Waiting /\ ~adapter.known
      /\ Done(Open(a)) /\ UNCHANGED commands
  BY DEF ProcEarly
<1>2. /\ a.known = adapter.known /\ a.pending = Append(adapter.pending, Head(queue))
      /\ SameXtra(adapter, a) /\ SameLock(adapter, a) /\ DOMAIN a = AdapterFields
  BY DEF Shape, AdapterFields, SameXtra, SameLock
<1> HIDE DEF a
<1>3. adapter' = a /\ queue' = Tail(queue) /\ Handles(<<>>)
  BY <1>1, <1>2, NothingSent, NoElements, NothingSaid DEF Done, Handles, Shape
<1> QED BY <1>1, <1>2, <1>3 DEF HandlesEarly

(* What waits comes back, or waits on.                                       *)
ComesBack == queue' = Tail(queue) \o adapter.pending /\ adapter'.pending = <<>>
WaitsOn == queue' = Tail(queue) /\ adapter'.pending = adapter.pending

HandlesUp ==
    /\ Head(queue).type = "up" /\ adapter'.known = TRUE
    /\ \E out : Handles(out) /\ EndsWith("sent", out, LockAtRestart(adapter'))
    /\ SameXtra(adapter, adapter') /\ SameLock(adapter, adapter')
    /\ IF adapter.locked THEN WaitsOn ELSE ComesBack

(* The engine comes up: the lock is written back.                            *)
LEMMA UpHandles == ASSUME Shape, handleEngineUpEvent PROVE HandlesUp
<1> DEFINE a == [adapter EXCEPT !.known = TRUE]
           b == [a EXCEPT !.mo = IF Inject THEN 1 ELSE 0]
           s == setConfig(Open(a))
           i == gnssSvIdConfigUpdate(s)
           t == gnssSvTypeConfigUpdateAtRestart(i)
           x == gnssSecondaryBandConfigUpdate(t, 0)
<1>1. /\ queue # <<>> /\ Head(queue).type = "up" /\ UNCHANGED commands
      /\ IF adapter.locked THEN Done(x) ELSE Revive(x)
  BY DEF handleEngineUpEvent, Message
<1>2. /\ IsStep(s) /\ s.state = b
      /\ EndsWith("sent", s.out, LockAtRestart(a)) /\ Silent("open", s.out)
  BY LockRestored
<1>3. /\ b.known = TRUE /\ b.pending = adapter.pending
      /\ SameXtra(adapter, b) /\ SameLock(adapter, b) /\ DOMAIN b = AdapterFields
  BY DEF Shape, AdapterFields, SameXtra, SameLock
<1>4. LockAtRestart(a) = LockAtRestart(b) BY DEF Shape, AdapterFields, LockAtRestart
<1> HIDE DEF a, b, s
<1>5. Mild(s, i) BY <1>2, MildSvId
<1> HIDE DEF i
<1>6. Mild(i, t) BY <1>5, MildSvTypeAtRestart DEF Mild
<1> HIDE DEF t
<1>7. Mild(t, x) BY <1>6, MildBand DEF Mild
<1>8. Mild(s, x) BY <1>5, <1>6, <1>7, MildMild
<1> HIDE DEF x
<1>9. /\ IsSeq(x.out) /\ x.state = b
      /\ EndsWith("sent", x.out, LockAtRestart(b)) /\ Silent("open", x.out)
  BY <1>2, <1>4, <1>8 DEF Mild, IsStep
<1>10. CASE adapter.locked
  <2>1. adapter' = b /\ queue' = Tail(queue) /\ Handles(x.out)
    BY <1>1, <1>3, <1>9, <1>10 DEF Done, Handles, Shape
  <2> QED BY <1>1, <1>3, <1>9, <1>10, <2>1 DEF HandlesUp, WaitsOn
<1>11. CASE ~adapter.locked
  <2>1. /\ adapter' = [b EXCEPT !.pending = <<>>] /\ queue' = Tail(queue) \o adapter.pending
        /\ requests' = requests \o x.out /\ UNCHANGED <<world, asked, modem>>
    BY <1>1, <1>9, <1>11 DEF Revive
  <2>2. /\ adapter'.known = TRUE /\ adapter'.pending = <<>>
        /\ SameXtra(adapter, adapter') /\ SameLock(adapter, adapter') /\ SameLock(b, adapter')
        /\ DOMAIN adapter' = AdapterFields
    BY <1>3, <2>1 DEF SameXtra, SameLock, AdapterFields
  <2>3. Handles(x.out) BY <1>1, <1>9, <2>1, <2>2 DEF Handles, Shape
  <2>4. LockAtRestart(adapter') = LockAtRestart(b) BY <2>2 DEF SameLock, LockAtRestart
  <2> QED BY <1>1, <1>9, <1>11, <2>1, <2>2, <2>3, <2>4 DEF HandlesUp, ComesBack
<1> QED BY <1>10, <1>11

HandlesEngine ==
    /\ Head(queue).type = "lock"
    /\ Handles(<<>>)
    /\ adapter'.known = adapter.known /\ adapter'.locked = adapter.locked
    /\ SameLock(adapter, adapter')
    /\ IF Head(queue).on
       THEN WaitsOn /\ adapter'.xtraLock = {"MO"}
       ELSE ComesBack /\ adapter'.xtraLock = IF adapter.afw # 0 THEN {} ELSE {"MO"}

(* The engine reports its lock.                                              *)
LEMMA EngineHandles == ASSUME Shape, handleEngineLockStatus PROVE HandlesEngine
<1> DEFINE xtraLock == IF adapter.afw # 0 THEN {} ELSE {"MO"}
           a == [adapter EXCEPT !.xtraLock = {"MO"}]
           b == [adapter EXCEPT !.xtraLock = xtraLock]
<1>1. /\ queue # <<>> /\ Head(queue).type = "lock" /\ UNCHANGED commands
      /\ IF Head(queue).on THEN Done(Open(a)) ELSE Revive(Open(b))
  BY DEF handleEngineLockStatus, Message
<1>2. DOMAIN adapter = AdapterFields BY DEF Shape
<1>3. CASE Head(queue).on
  <2>1. /\ a.known = adapter.known /\ a.locked = adapter.locked /\ SameLock(adapter, a)
        /\ a.pending = adapter.pending /\ a.xtraLock = {"MO"} /\ DOMAIN a = AdapterFields
    BY <1>2 DEF AdapterFields, SameLock
  <2> HIDE DEF a
  <2>2. adapter' = a /\ queue' = Tail(queue) /\ Handles(<<>>)
    BY <1>1, <1>3, <2>1, NothingSent, NoElements, NothingSaid DEF Done, Handles, Shape
  <2> QED BY <1>1, <1>3, <2>1, <2>2 DEF HandlesEngine, WaitsOn
<1>4. CASE ~Head(queue).on
  <2> DEFINE c == [b EXCEPT !.pending = <<>>]
  <2>1. /\ c.known = adapter.known /\ c.locked = adapter.locked /\ SameLock(adapter, c)
        /\ c.pending = <<>> /\ c.xtraLock = xtraLock /\ DOMAIN c = AdapterFields
    BY <1>2 DEF AdapterFields, SameLock
  <2> HIDE DEF xtraLock
  <2>2. /\ adapter' = c /\ queue' = Tail(queue) \o adapter.pending
        /\ requests' = requests \o <<>> /\ UNCHANGED <<world, asked, modem>>
    BY <1>1, <1>4, NothingSent DEF Revive
  <2> HIDE DEF c
  <2>3. Handles(<<>>) BY <1>1, <2>1, <2>2, NoElements, NothingSaid DEF Handles, Shape
  <2> QED BY <1>1, <1>4, <2>1, <2>2, <2>3 DEF HandlesEngine, ComesBack, xtraLock
<1> QED BY <1>3, <1>4

(* What a call does                                                          *)
Allowed ==
    \/ "hasty" \in world /\ (adapter.known \/ "cold" \in world)
    \/ Quiet
    \/ ("untimely" \in world \/ ("cold" \in world /\ ~adapter.known)) /\ queue = <<>>

Calls ==
    \E m :
        /\ Allowed
        /\ queue' = Append(queue, m) /\ MessageFits(m) /\ m.type \notin {"lock", "up"}
        /\ IsSeq(commands') /\ DOMAIN asked' = AskedFields
        /\ UNCHANGED <<world, adapter, requests, modem>>
        /\ \/ LockAsked(m) = {} /\ asked'.lock = asked.lock
           \/ LockAsked(m) = {asked'.lock \cup {"MO"}} /\ asked'.lock \subseteq Bits
        /\ \/ NfwsAsked(m) = {} /\ asked'.nfws = asked.nfws
           \/ NfwsAsked(m) = {Nfws \ asked'.nfws}

(* A call adds a message, and what it asks for is known.                     *)
LEMMA AskCalls ==
    ASSUME Shape, NEW freedom, MayAsk(freedom), NEW kind, NEW ids, NEW arg, Ask(kind, ids, arg),
           kind \notin {"lock", "up"},
           kind = "update" => arg \in Updates,
           kind = "types" => arg.source \in {"api", "xtra"},
           DOMAIN asked' = AskedFields,
           kind = "update" =>
               asked'.lock = (IF "lock" \in arg.flags THEN arg.lock ELSE asked.lock),
           kind # "update" => asked'.lock = asked.lock,
           asked'.nfws = (IF kind = "nfw" THEN arg ELSE asked.nfws)
    PROVE  Calls
<1> DEFINE m == [type |-> kind, n |-> Len(commands) + 1, arg |-> arg]
           c == [kind |-> kind, arg |-> arg, told |-> [i \in 1..ids |-> 0], wrong |-> FALSE]
<1>1. /\ queue' = Append(queue, m) /\ commands' = Append(commands, c)
      /\ UNCHANGED <<world, adapter, requests, modem>>
  BY DEF Ask
<1>2. IsSeq(commands) BY DEF Shape
<1>3. Len(commands) + 1 \in Nat \ {0} BY <1>2, Added
<1>4. m.type = kind /\ m.arg = arg /\ m.n \in Nat \ {0} BY <1>3
<1> HIDE DEF m, c
<1>5. IsSeq(commands') BY <1>1, <1>2, Added
<1>6. MessageFits(m) /\ m.type \notin {"lock", "up"} BY <1>4 DEF MessageFits
<1>7. Allowed BY DEF MayAsk, Allowed
<1>8. \/ LockAsked(m) = {} /\ asked'.lock = asked.lock
      \/ LockAsked(m) = {asked'.lock \cup {"MO"}} /\ asked'.lock \subseteq Bits
  <2>1. CASE kind = "update" /\ "lock" \in arg.flags
    <3>1. arg.lock \subseteq Bits BY <2>1, GnssConfigAssumption
    <3>2. asked'.lock = arg.lock BY <2>1
    <3>3. LockAsked(m) = {arg.lock \cup {"MO"}} BY <1>4, <2>1 DEF LockAsked
    <3> QED BY <3>1, <3>2, <3>3
  <2>2. CASE ~(kind = "update" /\ "lock" \in arg.flags)
    <3>1. asked'.lock = asked.lock BY <2>2
    <3>2. LockAsked(m) = {} BY <1>4, <2>2 DEF LockAsked
    <3> QED BY <3>1, <3>2
  <2> QED BY <2>1, <2>2
<1>9. \/ NfwsAsked(m) = {} /\ asked'.nfws = asked.nfws
      \/ NfwsAsked(m) = {Nfws \ asked'.nfws}
  BY <1>4 DEF NfwsAsked
<1>10. DOMAIN asked' = AskedFields  OBVIOUS
<1> QED BY <1>1, <1>5, <1>6, <1>7, <1>8, <1>9, <1>10 DEF Calls

(* Every call is one.                                                        *)
LEMMA CallersCall == ASSUME Shape, Callers PROVE Calls
<1>0. DOMAIN asked = AskedFields BY DEF Shape
<1>1. ASSUME NEW u \in Updates, gnssUpdateConfig(u) PROVE Calls
  <2>1. /\ DOMAIN asked' = AskedFields /\ asked'.nfws = asked.nfws
        /\ asked'.lock = (IF "lock" \in u.flags THEN u.lock ELSE asked.lock)
    BY <1>0, <1>1 DEF gnssUpdateConfig, AskedFields
  <2>2. MayAsk("update") /\ Ask("update", Cardinality(u.flags), u) BY <1>1 DEF gnssUpdateConfig
  <2> QED BY <2>1, <2>2, AskCalls
<1>2. ASSUME NEW flags \in Gets, gnssGetConfig(flags) PROVE Calls
  <2>1. MayAsk("get") /\ Ask("get", Cardinality(flags), flags) /\ UNCHANGED asked
    BY <1>2 DEF gnssGetConfig
  <2> QED BY <1>0, <2>1, AskCalls
<1>3. ASSUME enable PROVE Calls
  <2>1. MayAsk("enable") /\ Ask("enable", 1, 0) /\ UNCHANGED asked BY <1>3 DEF enable
  <2> QED BY <1>0, <2>1, AskCalls
<1>4. ASSUME NEW id, disable(id) PROVE Calls
  <2>1. MayAsk("enable") /\ Ask("disable", 1, id) /\ UNCHANGED asked BY <1>4 DEF disable
  <2> QED BY <1>0, <2>1, AskCalls
<1>5. ASSUME NEW nfws \in SUBSET Nfws, enableNfwLocationAccess(nfws) PROVE Calls
  <2>1. MayAsk("nfw") /\ Ask("nfw", 0, nfws) BY <1>5 DEF enableNfwLocationAccess
  <2>2. DOMAIN asked' = AskedFields /\ asked'.nfws = nfws /\ asked'.lock = asked.lock
    BY <1>0, <1>5 DEF enableNfwLocationAccess, AskedFields
  <2> QED BY <2>1, <2>2, AskCalls
<1>6. ASSUME NEW source \in {"api", "xtra"}, NEW types \in TypeConfigs,
             gnssUpdateSvTypeConfig(source, types)
      PROVE  Calls
  <2> DEFINE arg == [source |-> source, types |-> types]
  <2>1. MayAsk("types") /\ Ask("types", 0, arg) /\ arg.source \in {"api", "xtra"}
    BY <1>6 DEF gnssUpdateSvTypeConfig
  <2>2. DOMAIN asked' = AskedFields /\ asked'.nfws = asked.nfws /\ asked'.lock = asked.lock
    BY <1>0, <1>6 DEF gnssUpdateSvTypeConfig, AskedFields
  <2> HIDE DEF arg
  <2> QED BY <2>1, <2>2, AskCalls
<1>7. ASSUME gnssResetSvTypeConfig PROVE Calls
  <2> DEFINE arg == [source |-> "api", types |-> DefaultTypes]
  <2>1. MayAsk("types") /\ Ask("types", 0, arg) /\ arg.source \in {"api", "xtra"}
    BY <1>7 DEF gnssResetSvTypeConfig
  <2>2. DOMAIN asked' = AskedFields /\ asked'.nfws = asked.nfws /\ asked'.lock = asked.lock
    BY <1>0, <1>7 DEF gnssResetSvTypeConfig, AskedFields
  <2> HIDE DEF arg
  <2> QED BY <2>1, <2>2, AskCalls
<1>8. ASSUME NEW types, NEW mask, configConstellations(types, mask) PROVE Calls
  <2> DEFINE arg == [types |-> types, mask |-> mask]
  <2>1. MayAsk("svs") /\ Ask("svs", 1, arg) BY <1>8 DEF configConstellations
  <2>2. DOMAIN asked' = AskedFields /\ asked'.nfws = asked.nfws /\ asked'.lock = asked.lock
    BY <1>0, <1>8 DEF configConstellations, AskedFields
  <2> HIDE DEF arg
  <2> QED BY <2>1, <2>2, AskCalls
<1>9. ASSUME NEW value, configConstellationSecondaryBand(value) PROVE Calls
  <2>1. MayAsk("band") /\ Ask("band", 1, value) BY <1>9 DEF configConstellationSecondaryBand
  <2>2. DOMAIN asked' = AskedFields /\ asked'.nfws = asked.nfws /\ asked'.lock = asked.lock
    BY <1>0, <1>9 DEF configConstellationSecondaryBand, AskedFields
  <2> QED BY <2>1, <2>2, AskCalls
<1>10. ASSUME NEW m, NEW value, configMode(m, value) PROVE Calls
  <2> DEFINE arg == [mode |-> m, value |-> value]
  <2>1. MayAsk("modes") /\ Ask("mode", 1, arg) BY <1>10 DEF configMode
  <2>2. DOMAIN asked' = AskedFields /\ asked'.nfws = asked.nfws /\ asked'.lock = asked.lock
    BY <1>0, <1>10 DEF configMode, AskedFields
  <2> HIDE DEF arg
  <2> QED BY <2>1, <2>2, AskCalls
<1>11. ASSUME NEW value, configMinGpsWeek(value) PROVE Calls
  <2>1. MayAsk("modes") /\ Ask("week", 1, value) BY <1>11 DEF configMinGpsWeek
  <2>2. DOMAIN asked' = AskedFields /\ asked'.nfws = asked.nfws /\ asked'.lock = asked.lock
    BY <1>0, <1>11 DEF configMinGpsWeek, AskedFields
  <2> QED BY <2>1, <2>2, AskCalls
<1> QED BY <1>1, <1>2, <1>3, <1>4, <1>5, <1>6, <1>7, <1>8, <1>9, <1>10, <1>11 DEF Callers

(* What LocApi does with a request other than to open the modem: it takes    *)
(* it, or leaves what follows in its place.                                  *)
Serves ==
    /\ requests # <<>> /\ Head(requests).op # "open"
    /\ \/ requests' = Tail(requests)
       \/ \E r : r.op = "load" /\ Head(requests).op = "check" /\ requests' = <<r>> \o Tail(requests)
    /\ queue' = queue \/ \E m : m.type = "response" /\ queue' = Append(queue, m)
    /\ SameOrder(adapter, adapter') /\ SameXtra(adapter, adapter') /\ SameLock(adapter, adapter')
    /\ DOMAIN adapter' = AdapterFields /\ DOMAIN modem' = ModemFields /\ modem'.up = modem.up
    /\ modem.up /\ ~Exposed({"refuses"}) =>
          \/ LockSent(Head(requests)) = {} /\ modem'.lock = modem.lock
          \/ LockSent(Head(requests)) = {modem'.lock}
    /\ UNCHANGED <<world, asked, commands>>

(* An answer is a message for the adapter, or none.                          *)
LEMMA Replied ==
    ASSUME NEW r, NEW id, NEW errs, NEW facts, Reply(r, id, errs, facts)
    PROVE  queue' = queue \/ \E m : m.type = "response" /\ queue' = Append(queue, m)
<1> DEFINE m == [type |-> "response", n |-> r.n, id |-> id, errs |-> errs, facts |-> facts]
<1>1. queue' = queue \/ queue' = Append(queue, m) BY DEF Reply
<1>2. m.type = "response"  OBVIOUS
<1> HIDE DEF m
<1> QED BY <1>1, <1>2

LEMMA LockIsSentFirst == "lock" \in ToSet(SendOrder)
<1>1. SendOrder[1] = "lock" /\ 1 \in DOMAIN SendOrder BY DEF SendOrder
<1> QED BY <1>1 DEF ToSet

(* What LocApi does with each request                                        *)
LEMMA UpdateServes == ASSUME Shape, LocApiUpdate PROVE Serves
<1> DEFINE r == Head(requests)
           listed == "blacklist" \in Requested(r) /\ Supported
           mask == convertToGnssSvIdConfig(r.list)
<1>1. /\ requests # <<>> /\ r.op = "update" /\ requests' = Tail(requests)
      /\ UNCHANGED <<world, asked, commands>>
  BY Zenon DEF LocApiUpdate, Next1, Taken
<1>2. PICK bad \in Refused(SentOn(r)) :
         /\ adapter' = IF listed THEN [adapter EXCEPT !.list = r.list, !.mask = mask] ELSE adapter
         /\ modem' = [modem EXCEPT
              !.conf = [i \in Engine |-> IF i \in SentOn(r) \ bad THEN r.conf[i] ELSE @[i]],
              !.lock = IF "lock" \in SentOn(r) \ bad THEN r.lock ELSE @,
              !.mo = IF "server" \in SentOn(r) \ bad /\ r.mo # 0 THEN r.mo ELSE @,
              !.mask = IF "blacklist" \in SentOn(r) \ bad
                       THEN combineBlacklistSvs(mask, CombinedTypes(adapter)) ELSE @]
         /\ \E errs, facts : Reply(r, 0, errs, facts)
  BY Zenon DEF LocApiUpdate
<1>3. queue' = queue \/ \E m : m.type = "response" /\ queue' = Append(queue, m)
  BY <1>2, Replied
<1>4. DOMAIN adapter = AdapterFields /\ DOMAIN modem = ModemFields BY DEF Shape
<1>5. /\ SameOrder(adapter, adapter') /\ SameXtra(adapter, adapter') /\ SameLock(adapter, adapter')
      /\ DOMAIN adapter' = AdapterFields
  BY <1>2, <1>4 DEF AdapterFields, SameOrder, SameXtra, SameLock
<1>6. /\ DOMAIN modem' = ModemFields /\ modem'.up = modem.up
      /\ modem'.lock = IF "lock" \in SentOn(r) \ bad THEN r.lock ELSE modem.lock
  BY <1>2, <1>4 DEF ModemFields
<1>7. ASSUME modem.up, ~Exposed({"refuses"}) PROVE bad = {}
  <2>1. "refuses" \notin world BY <1>7 DEF Exposed
  <2> QED BY <1>2, <1>7, <2>1 DEF Refused
<1>8. "lock" \in SentOn(r) <=> "lock" \in r.flags \cap r.need
  BY LockIsSentFirst DEF SentOn, Requested
<1>9. LockSent(r) = IF "lock" \in r.flags \cap r.need THEN {r.lock} ELSE {}
  BY <1>1 DEF LockSent
<1>10. ASSUME modem.up, ~Exposed({"refuses"})
       PROVE  \/ LockSent(r) = {} /\ modem'.lock = modem.lock
              \/ LockSent(r) = {modem'.lock}
  BY <1>6, <1>7, <1>8, <1>9, <1>10
<1> QED BY <1>1, <1>3, <1>5, <1>6, <1>10 DEF Serves

LEMMA CheckServes == ASSUME Shape, LocApiCheck PROVE Serves
<1> DEFINE h == Head(requests)
           r == [op |-> "load", mode |-> h.mode]
<1>1. /\ requests # <<>> /\ h.op = "check"
      /\ \/ requests' = Tail(requests)
         \/ requests' = <<r>> \o Tail(requests)
      /\ \/ UNCHANGED modem
         \/ modem' = [modem EXCEPT !.modes[h.mode] = adapter.modes[h.mode]]
      /\ UNCHANGED <<world, asked, commands, adapter, queue>>
  BY DEF LocApiCheck, Next1
<1>2. r.op = "load"  OBVIOUS
<1>3. LockSent(h) = {} BY <1>1 DEF LockSent
<1>4. DOMAIN adapter = AdapterFields /\ DOMAIN modem = ModemFields BY DEF Shape
<1>5. DOMAIN modem' = ModemFields /\ modem'.up = modem.up /\ modem'.lock = modem.lock
  BY <1>1, <1>4 DEF ModemFields
<1>6. /\ SameOrder(adapter, adapter') /\ SameXtra(adapter, adapter') /\ SameLock(adapter, adapter')
      /\ DOMAIN adapter' = AdapterFields
  BY <1>1, <1>4 DEF SameOrder, SameXtra, SameLock
<1> HIDE DEF r
<1> QED BY <1>1, <1>2, <1>3, <1>5, <1>6 DEF Serves

LEMMA LoadServes == ASSUME Shape, LocApiLoad PROVE Serves
<1> DEFINE h == Head(requests)
<1>1. /\ requests # <<>> /\ h.op = "load" /\ requests' = Tail(requests)
      /\ adapter' = [adapter EXCEPT !.modes[h.mode] = 0]
      /\ \/ UNCHANGED modem
         \/ modem' = [modem EXCEPT !.modes[h.mode] = 0]
      /\ UNCHANGED <<world, asked, commands, queue>>
  BY DEF LocApiLoad, Next1, Taken
<1>2. LockSent(h) = {} BY <1>1 DEF LockSent
<1>3. DOMAIN adapter = AdapterFields /\ DOMAIN modem = ModemFields BY DEF Shape
<1>4. DOMAIN modem' = ModemFields /\ modem'.up = modem.up /\ modem'.lock = modem.lock
  BY <1>1, <1>3 DEF ModemFields
<1>5. /\ SameOrder(adapter, adapter') /\ SameXtra(adapter, adapter') /\ SameLock(adapter, adapter')
      /\ DOMAIN adapter' = AdapterFields
  BY <1>1, <1>3 DEF AdapterFields, SameOrder, SameXtra, SameLock
<1> QED BY <1>1, <1>2, <1>4, <1>5 DEF Serves

LEMMA RequestServes == ASSUME Shape, LocApiRequest PROVE Serves
<1> DEFINE r == Head(requests)
<1>1. /\ requests # <<>> /\ r.op \in Answering \cup {"lock", "control", "reset"}
      /\ requests' = Tail(requests) /\ UNCHANGED <<world, asked, commands, adapter>>
  BY DEF LocApiRequest, Taken
<1>2. PICK bad \in Refused({r.op}) :
         /\ modem' = IF bad = {} THEN After(r) ELSE modem
         /\ \/ \E id, errs : Reply(r, id, errs, errs)
            \/ UNCHANGED queue
  BY DEF LocApiRequest
<1>3. queue' = queue \/ \E m : m.type = "response" /\ queue' = Append(queue, m)
  BY <1>2, Replied
<1>4. DOMAIN adapter = AdapterFields /\ DOMAIN modem = ModemFields BY DEF Shape
<1>5. /\ SameOrder(adapter, adapter') /\ SameXtra(adapter, adapter') /\ SameLock(adapter, adapter')
      /\ DOMAIN adapter' = AdapterFields
  BY <1>1, <1>4 DEF SameOrder, SameXtra, SameLock
<1>6. /\ r.op \in {"blacklist", "band", "mode", "week", "read", "lock", "control", "reset"}
  BY <1>1 DEF Answering
<1>7. /\ DOMAIN After(r) = ModemFields /\ After(r).up = modem.up
      /\ After(r).lock = IF r.op = "lock" THEN r.lock ELSE modem.lock
  BY <1>4, <1>6 DEF After, ModemFields
<1>8. ASSUME modem.up, ~Exposed({"refuses"}) PROVE bad = {}
  <2>1. "refuses" \notin world BY <1>8 DEF Exposed
  <2> QED BY <1>2, <1>8, <2>1 DEF Refused
<1>9. LockSent(r) = IF r.op = "lock" THEN {r.lock} ELSE {} BY <1>6 DEF LockSent
<1>10. DOMAIN modem' = ModemFields /\ modem'.up = modem.up BY <1>2, <1>4, <1>7
<1>11. ASSUME modem.up, ~Exposed({"refuses"})
       PROVE  \/ LockSent(r) = {} /\ modem'.lock = modem.lock
              \/ LockSent(r) = {modem'.lock}
  BY <1>2, <1>7, <1>8, <1>9, <1>11
<1>12. r.op # "open" BY <1>6
<1> QED BY <1>1, <1>3, <1>5, <1>10, <1>11, <1>12 DEF Serves

-----------------------------------------------------------------------------
(* The modem is opened, fails, and reports its lock.                         *)

IsOpened ==
    /\ requests # <<>> /\ Head(requests).op = "open" /\ requests' = Tail(requests)
    /\ \E m : m.type = "up" /\ queue' = Append(queue, m)
    /\ modem'.up = TRUE /\ DOMAIN modem' = ModemFields
    /\ UNCHANGED <<world, asked, commands, adapter>>

(* The steps of the modem                                                    *)
LEMMA OpenOpens == ASSUME Shape, LocApiOpen PROVE IsOpened
<1> DEFINE m == [type |-> "up"]
<1>1. /\ requests # <<>> /\ Head(requests).op = "open" /\ requests' = Tail(requests)
      /\ modem' = [modem EXCEPT !.up = TRUE] /\ queue' = Append(queue, m)
      /\ UNCHANGED <<world, asked, commands, adapter>>
  BY DEF LocApiOpen, Next1, Taken
<1>2. m.type = "up"  OBVIOUS
<1>3. modem'.up = TRUE /\ DOMAIN modem' = ModemFields BY <1>1 DEF Shape, ModemFields
<1> HIDE DEF m
<1> QED BY <1>1, <1>2, <1>3 DEF IsOpened

Fails ==
    /\ modem.up /\ modem'.up = FALSE /\ DOMAIN modem' = ModemFields
    /\ \E r : r.op = "open" /\ requests' = Append(requests, r)
    /\ UNCHANGED <<world, asked, commands, adapter, queue>>

LEMMA CrashFails == ASSUME Shape, ModemCrashes PROVE Fails
<1> DEFINE r == [op |-> "open"]
<1>1. /\ modem.up /\ modem' = [Fresh EXCEPT !.up = FALSE] /\ requests' = Append(requests, r)
      /\ UNCHANGED <<world, asked, commands, adapter, queue>>
  BY DEF ModemCrashes, Event
<1>2. modem'.up = FALSE /\ DOMAIN modem' = ModemFields BY <1>1 DEF Fresh, ModemFields
<1>3. r.op = "open"  OBVIOUS
<1> HIDE DEF r
<1> QED BY <1>1, <1>2, <1>3 DEF Fails

Reports ==
    /\ "locks" \in world
    /\ \E m : m.type = "lock" /\ m.on = adapter'.locked /\ queue' = Append(queue, m)
    /\ SameOrder(adapter, adapter') /\ SameLock(adapter, adapter')
    /\ adapter'.locked \in BOOLEAN /\ DOMAIN adapter' = AdapterFields
    /\ UNCHANGED <<world, asked, commands, requests, modem>>

LEMMA ChangeReports == ASSUME Shape, EngineLockChanges PROVE Reports
<1> DEFINE m == [type |-> "lock", on |-> adapter'.locked]
<1>1. /\ "locks" \in world /\ adapter' = [adapter EXCEPT !.locked = ~@]
      /\ queue' = Append(queue, m)
      /\ UNCHANGED <<world, asked, commands, requests, modem>>
  BY DEF EngineLockChanges, Event
<1>2. m.type = "lock" /\ m.on = adapter'.locked  OBVIOUS
<1>3. /\ SameOrder(adapter, adapter') /\ SameLock(adapter, adapter')
      /\ adapter'.locked \in BOOLEAN /\ DOMAIN adapter' = AdapterFields
  BY <1>1 DEF Shape, AdapterFields, SameOrder, SameLock
<1> HIDE DEF m
<1> QED BY <1>1, <1>2, <1>3 DEF Reports

-----------------------------------------------------------------------------
(* All steps                                                                 *)
LEMMA EveryStep ==
    ASSUME Shape, LockFits(adapter), Next
    PROVE  \/ Calls
           \/ HandlesPlain \/ HandlesSwitch \/ HandlesNfw \/ HandlesUpdate \/ HandlesEarly
           \/ HandlesUp \/ HandlesEngine
           \/ Serves \/ IsOpened \/ Fails \/ Reports
<1>1. CASE Callers BY <1>1, CallersCall
<1>2. CASE Adapter
  BY <1>2, EarlyHandles, UpdateHandles, PlainGet, EnableHandles, DisableHandles, NfwHandles,
    PlainTypes, PlainSvs, PlainBand, PlainMode, PlainWeek, PlainResponse, UpHandles,
    EngineHandles DEF Adapter
<1>3. CASE LocApi
  BY <1>3, UpdateServes, CheckServes, LoadServes, RequestServes, OpenOpens DEF LocApi
<1> QED BY <1>1, <1>2, <1>3, CrashFails, ChangeReports DEF Next

LEMMA MessageAdded ==
    ASSUME NEW q, MessagesFit(q), NEW m, MessageFits(m)
    PROVE  MessagesFit(Append(q, m))
<1> DEFINE r == Append(q, m)
<1>1. /\ IsSeq(r) /\ Len(q) \in Nat /\ DOMAIN q = 1..Len(q)
      /\ DOMAIN r = 1..(Len(q) + 1)
      /\ \A k \in DOMAIN q : r[k] = q[k]
      /\ r[Len(q) + 1] = m
  BY Added DEF MessagesFit
<1> HIDE DEF r
<1>2. ASSUME NEW k \in DOMAIN r PROVE MessageFits(r[k])
  <2>1. k \in DOMAIN q \/ k = Len(q) + 1 BY <1>1
  <2> QED BY <1>1, <2>1 DEF MessagesFit
<1>3. MessagesFit(r) BY <1>1, <1>2 DEF MessagesFit
<1> QED BY <1>3 DEF r

LEMMA MessageRemoved ==
    ASSUME NEW q, MessagesFit(q), q # <<>>
    PROVE  MessagesFit(Tail(q)) /\ MessageFits(Head(q))
<1> DEFINE r == Tail(q)
<1>1. /\ IsSeq(r) /\ Len(q) \in Nat \ {0} /\ DOMAIN q = 1..Len(q)
      /\ DOMAIN r = 1..(Len(q) - 1)
      /\ \A k \in DOMAIN r : r[k] = q[k + 1]
      /\ Head(q) = q[1]
  BY Removed DEF MessagesFit
<1> HIDE DEF r
<1>2. ASSUME NEW k \in DOMAIN r PROVE MessageFits(r[k])
  <2>1. k + 1 \in DOMAIN q BY <1>1
  <2> QED BY <1>1, <2>1 DEF MessagesFit
<1>3. MessagesFit(r) BY <1>1, <1>2 DEF MessagesFit
<1>4. 1 \in DOMAIN q BY <1>1
<1>5. MessageFits(Head(q)) BY <1>1, <1>4 DEF MessagesFit
<1> QED BY <1>3, <1>5 DEF r

LEMMA MessagesJoined ==
    ASSUME NEW s, MessagesFit(s), NEW t, MessagesFit(t)
    PROVE  MessagesFit(s \o t)
<1> DEFINE r == s \o t
           n == Len(s)
<1>0. r = s \o t  OBVIOUS
<1> HIDE DEF r
<1>1. IsSeq(s) /\ IsSeq(t) BY DEF MessagesFit
<1>2. IsSeq(r) /\ n \in Nat /\ DOMAIN s = 1..n BY <1>0, <1>1, Joined
<1>3. /\ Len(t) \in Nat /\ DOMAIN t = 1..Len(t)
      /\ DOMAIN r = 1..(n + Len(t))
  BY <1>0, <1>1, Joined
<1>4. \A k \in DOMAIN s : r[k] = s[k] BY <1>0, <1>1, Joined
<1>5. \A k \in DOMAIN t : r[n + k] = t[k] BY <1>0, <1>1, Joined
<1>6. /\ IsSeq(r) /\ n \in Nat /\ DOMAIN s = 1..n
      /\ Len(t) \in Nat /\ DOMAIN t = 1..Len(t)
      /\ DOMAIN r = 1..(n + Len(t))
      /\ \A k \in DOMAIN s : r[k] = s[k]
      /\ \A k \in DOMAIN t : r[n + k] = t[k]
  BY <1>2, <1>3, <1>4, <1>5
<1> HIDE DEF n
<1>7. ASSUME NEW k \in DOMAIN r PROVE MessageFits(r[k])
  <2>1. CASE k \in DOMAIN s BY <1>6, <2>1 DEF MessagesFit
  <2>2. CASE k - n \in DOMAIN t /\ n + (k - n) = k
    <3>1. r[k] = t[k - n] BY <1>6, <2>2
    <3> QED BY <2>2, <3>1 DEF MessagesFit
  <2>3. k \in DOMAIN s \/ (k - n \in DOMAIN t /\ n + (k - n) = k) BY <1>6
  <2> QED BY <2>1, <2>2, <2>3
<1>8. MessagesFit(r) BY <1>6, <1>7 DEF MessagesFit
<1> QED BY <1>0, <1>8

(* What holds of the shape of the adapter                                    *)
WaitingFits(a) ==
    /\ MessagesFit(a.pending)
    /\ \A k \in DOMAIN a.pending : a.pending[k].type \in Waiting

LEMMA ShapeHandles ==
    ASSUME Shape, NEW out, Handles(out), MessagesFit(queue'), WaitingFits(adapter'),
           {adapter'.known, adapter'.locked, adapter'.nfwControl} \subseteq BOOLEAN
    PROVE  Shape'
<1>1. IsSeq(requests')
  <2>1. IsSeq(requests) /\ IsSeq(out) /\ requests' = requests \o out BY DEF Shape, Handles
  <2> QED BY <2>1, Joined
<1>2. /\ IsSeq(commands') /\ DOMAIN adapter' = AdapterFields
      /\ asked' = asked /\ modem' = modem
  BY DEF Handles
<1> QED BY <1>1, <1>2 DEF Shape, WaitingFits

LEMMA NoneWaits == \A a : a.pending = <<>> => WaitingFits(a)
<1>1. MessagesFit(<<>>) BY NoElements DEF MessagesFit
<1> QED BY <1>1, NoElements DEF WaitingFits

LEMMA ShapeQueue ==
    ASSUME Shape, queue # <<>>,
           \/ queue' = Tail(queue)
           \/ queue' = Tail(queue) \o adapter.pending
    PROVE  MessagesFit(queue') /\ MessageFits(Head(queue))
<1>1. MessagesFit(queue) /\ MessagesFit(adapter.pending) BY DEF Shape
<1>2. MessagesFit(Tail(queue)) /\ MessageFits(Head(queue)) BY <1>1, MessageRemoved
<1>3. MessagesFit(Tail(queue) \o adapter.pending) BY <1>1, <1>2, MessagesJoined
<1> QED BY <1>2, <1>3

LEMMA ShapeAdded ==
    ASSUME Shape, NEW m, queue' = Append(queue, m), MessageFits(m)
    PROVE  MessagesFit(queue')
  BY MessageAdded DEF Shape

LEMMA ShapeKept ==
    ASSUME Shape,
           \/ Calls
           \/ HandlesPlain \/ HandlesSwitch \/ HandlesNfw \/ HandlesUpdate \/ HandlesEarly
           \/ HandlesUp \/ HandlesEngine
           \/ Serves \/ IsOpened \/ Fails \/ Reports
    PROVE  Shape'
<1>1. CASE Calls
  <2>1. MessagesFit(queue') BY <1>1, ShapeAdded DEF Calls
  <2> QED BY <1>1, <2>1 DEF Calls, Shape
<1>2. ASSUME NEW out, Handles(out), queue' = Tail(queue), SameOrder(adapter, adapter'),
             adapter'.locked = adapter.locked, adapter'.nfwControl \in BOOLEAN
      PROVE  Shape'
  <2>1. MessagesFit(queue') BY <1>2, ShapeQueue DEF Handles
  <2>2. WaitingFits(adapter') BY <1>2 DEF Shape, WaitingFits, SameOrder
  <2>3. {adapter'.known, adapter'.locked, adapter'.nfwControl} \subseteq BOOLEAN
    BY <1>2 DEF Shape, SameOrder
  <2> QED BY <1>2, <2>1, <2>2, <2>3, ShapeHandles
<1>0. adapter.nfwControl \in BOOLEAN /\ adapter.known \in BOOLEAN /\ adapter.locked \in BOOLEAN
  BY DEF Shape
<1>3. CASE HandlesPlain BY <1>0, <1>2, <1>3 DEF HandlesPlain, SameXtra, SameLock
<1>4. CASE HandlesLock BY <1>0, <1>2, <1>4 DEF HandlesLock
<1>5. CASE HandlesNfw BY <1>0, <1>2, <1>4, <1>5 DEF HandlesNfw, SameXtra, SameLock
<1>6. CASE HandlesUpdate BY <1>0, <1>2, <1>6 DEF HandlesUpdate, SameXtra, SameLock
<1>7. CASE HandlesEarly
  <2>1. MessagesFit(queue') /\ MessageFits(Head(queue))
    BY <1>7, ShapeQueue DEF HandlesEarly, Handles
  <2>2. adapter'.pending = Append(adapter.pending, Head(queue)) /\ Head(queue).type \in Waiting
    BY <1>7 DEF HandlesEarly
  <2> DEFINE p == adapter.pending
             m == Head(queue)
             r == Append(p, m)
  <2>3. MessagesFit(p) /\ \A k \in DOMAIN p : p[k].type \in Waiting BY DEF Shape
  <2>4. m.type \in Waiting /\ MessageFits(m) BY <2>1, <2>2
  <2> HIDE DEF p, m
  <2>5. MessagesFit(r) BY <2>3, <2>4, MessageAdded
  <2>6. /\ Len(p) \in Nat /\ DOMAIN p = 1..Len(p)
        /\ DOMAIN r = 1..(Len(p) + 1)
        /\ \A k \in DOMAIN p : r[k] = p[k]
        /\ r[Len(p) + 1] = m
    BY <2>3, Added DEF MessagesFit
  <2> HIDE DEF r
  <2>7. \A k \in DOMAIN r : r[k].type \in Waiting BY <2>3, <2>4, <2>6
  <2>8. adapter'.pending = r BY <2>2 DEF r, p, m
  <2>9. WaitingFits(adapter') BY <2>5, <2>7, <2>8 DEF WaitingFits
  <2>10. {adapter'.known, adapter'.locked, adapter'.nfwControl} \subseteq BOOLEAN
    BY <1>0, <1>7 DEF HandlesEarly, SameXtra, SameLock
  <2> QED BY <1>7, <2>1, <2>9, <2>10, ShapeHandles DEF HandlesEarly
<1>8. ASSUME NEW out, Handles(out), WaitsOn \/ ComesBack,
             {adapter'.known, adapter'.locked, adapter'.nfwControl} \subseteq BOOLEAN
      PROVE  Shape'
  <2>1. MessagesFit(queue') BY <1>8, ShapeQueue DEF Handles, WaitsOn, ComesBack
  <2>2. WaitingFits(adapter') BY <1>8, NoneWaits DEF Shape, WaitingFits, WaitsOn, ComesBack
  <2> QED BY <1>8, <2>1, <2>2, ShapeHandles
<1>9. CASE HandlesUp BY <1>0, <1>8, <1>9 DEF HandlesUp, SameXtra, SameLock
<1>10. CASE HandlesEngine BY <1>0, <1>8, <1>10 DEF HandlesEngine, SameLock
<1>11. ASSUME SameOrder(adapter, adapter'), SameLock(adapter, adapter'),
              adapter'.locked \in BOOLEAN, DOMAIN adapter' = AdapterFields,
              MessagesFit(queue'), IsSeq(requests'), UNCHANGED <<asked, commands>>,
              DOMAIN modem' = ModemFields, modem'.up \in BOOLEAN
       PROVE  Shape'
  BY <1>11 DEF Shape, SameOrder, SameLock
<1>12. /\ IsSeq(requests) /\ MessagesFit(queue) /\ modem.up \in BOOLEAN
       /\ DOMAIN modem = ModemFields /\ DOMAIN adapter = AdapterFields
  BY DEF Shape
<1>13. CASE Serves
  <2>1. MessagesFit(queue')
    <3>1. ASSUME NEW m, m.type = "response" PROVE MessageFits(m) BY <3>1 DEF MessageFits
    <3> QED BY <1>12, <1>13, <3>1, ShapeAdded DEF Serves
  <2>2. IsSeq(requests')
    <3>1. IsSeq(Tail(requests)) BY <1>12, <1>13, Removed DEF Serves
    <3>2. ASSUME NEW r PROVE IsSeq(<<r>> \o Tail(requests))
      <4> DEFINE b == <<r>>
      <4>1. b = Append(<<>>, r)  OBVIOUS
      <4> HIDE DEF b
      <4>2. IsSeq(b) BY <4>1, NoElements, Added
      <4>3. IsSeq(b \o Tail(requests)) BY <3>1, <4>2, Joined
      <4> QED BY <4>3 DEF b
    <3> QED BY <1>13, <3>1, <3>2 DEF Serves
  <2> QED BY <1>0, <1>11, <1>12, <1>13, <2>1, <2>2 DEF Serves, SameXtra
<1>14. CASE IsOpened
  <2>1. MessagesFit(queue')
    <3>1. ASSUME NEW m, m.type = "up" PROVE MessageFits(m) BY <3>1 DEF MessageFits
    <3> QED BY <1>14, <3>1, ShapeAdded DEF IsOpened
  <2>2. IsSeq(requests') BY <1>12, <1>14, Removed DEF IsOpened
  <2> QED BY <1>0, <1>11, <1>12, <1>14, <2>1, <2>2 DEF IsOpened, SameOrder, SameLock
<1>15. CASE Fails
  <2>1. IsSeq(requests') BY <1>12, <1>15, Added DEF Fails
  <2> QED BY <1>0, <1>11, <1>12, <1>15, <2>1 DEF Fails, SameOrder, SameLock
<1>16. CASE Reports
  <2>1. MessagesFit(queue')
    <3>1. ASSUME NEW m, m.type = "lock" PROVE MessageFits(m) BY <3>1 DEF MessageFits
    <3> QED BY <1>16, <3>1, ShapeAdded DEF Reports
  <2> QED BY <1>11, <1>12, <1>16, <2>1 DEF Reports
<1>17. CASE HandlesSwitch BY <1>4, <1>17 DEF HandlesSwitch
<1> QED BY <1>1, <1>3, <1>5, <1>6, <1>7, <1>9, <1>10, <1>13, <1>14, <1>15, <1>16, <1>17

(* Every step keeps the bit of the framework where it belongs.               *)
LEMMA LockFitsKept ==
    ASSUME Shape, LockFits(adapter),
           \/ Calls
           \/ HandlesPlain \/ HandlesSwitch \/ HandlesNfw \/ HandlesUpdate \/ HandlesEarly
           \/ HandlesUp \/ HandlesEngine
           \/ Serves \/ IsOpened \/ Fails \/ Reports
    PROVE  LockFits(adapter')
<1>1. ASSUME SameLock(adapter, adapter') PROVE LockFits(adapter')
  BY <1>1 DEF SameLock, LockFits
<1>2. ASSUME adapter' = adapter PROVE LockFits(adapter') BY <1>2
<1>3. CASE HandlesUpdate
  <2>1. CASE SameLock(adapter, adapter') BY <1>1, <2>1
  <2>2. CASE adapter'.nfwControl = FALSE /\ adapter'.lock \subseteq Bits /\ "MO" \in adapter'.lock
    BY <2>2 DEF LockFits
  <2> QED BY <1>3, <2>1, <2>2 DEF HandlesUpdate
<1>4. CASE HandlesNfw BY <1>1, <1>4 DEF HandlesNfw, HandlesLock
<1>5. CASE HandlesSwitch BY <1>5 DEF HandlesSwitch, HandlesLock
<1>6. CASE HandlesPlain \/ HandlesEarly \/ HandlesUp \/ HandlesEngine \/ Serves \/ Reports
  BY <1>1, <1>6 DEF HandlesPlain, HandlesEarly, HandlesUp, HandlesEngine, Serves, Reports
<1>7. CASE Calls \/ IsOpened \/ Fails BY <1>2, <1>7 DEF Calls, IsOpened, Fails
<1> QED BY <1>3, <1>4, <1>5, <1>6, <1>7

-----------------------------------------------------------------------------
(* The modem is opened once.                                                 *)

Single(q) ==
    \A i, j \in DOMAIN q : q[i].op = "open" /\ q[j].op = "open" => i = j

(* Who has no request to open says nothing of it.                            *)
LEMMA SilentOpen ==
    ASSUME NEW q
    PROVE  Silent("open", q) <=> \A k \in DOMAIN q : q[k].op # "open"
<1>1. \A k \in DOMAIN q : Carried("open", q[k]) = {} <=> q[k].op # "open" BY CarriedByType
<1> QED BY <1>1 DEF Silent

(* One request to open stays one when others are added,                      *)
LEMMA SingleJoined ==
    ASSUME NEW s, IsSeq(s), NEW t, IsSeq(t), Single(s), Single(t),
           Silent("open", s) \/ Silent("open", t)
    PROVE  Single(s \o t)
<1> DEFINE r == s \o t
           m == Len(s)
           n == Len(t)
<1>1. r = s \o t  OBVIOUS
<1> HIDE DEF r
<1>2. /\ m \in Nat /\ DOMAIN s = 1..m
      /\ n \in Nat /\ DOMAIN t = 1..n
      /\ DOMAIN r = 1..(m + n)
      /\ \A k \in DOMAIN s : r[k] = s[k]
      /\ \A k \in DOMAIN t : r[m + k] = t[k]
  BY <1>1, Joined
<1> HIDE DEF m, n
<1>3. ASSUME NEW i \in DOMAIN r, r[i].op = "open"
      PROVE  \/ i \in DOMAIN s /\ s[i].op = "open" /\ Silent("open", t)
             \/ i - m \in DOMAIN t /\ t[i - m].op = "open" /\ Silent("open", s)
  <2>1. CASE i \in DOMAIN s
    <3>1. s[i].op = "open" BY <1>2, <1>3, <2>1
    <3> QED BY <2>1, <3>1, SilentOpen
  <2>2. CASE i - m \in DOMAIN t /\ m + (i - m) = i
    <3>1. t[i - m].op = "open" BY <1>2, <1>3, <2>2
    <3> QED BY <2>2, <3>1, SilentOpen
  <2>3. i \in DOMAIN s \/ (i - m \in DOMAIN t /\ m + (i - m) = i) BY <1>2
  <2> QED BY <2>1, <2>2, <2>3
<1>4. ASSUME NEW i \in DOMAIN r, NEW j \in DOMAIN r, r[i].op = "open", r[j].op = "open"
      PROVE  i = j
  <2>1. CASE i \in DOMAIN s /\ s[i].op = "open" /\ Silent("open", t)
    <3>1. j \in DOMAIN s /\ s[j].op = "open" BY <1>3, <1>4, <2>1, SilentOpen
    <3> QED BY <2>1, <3>1 DEF Single
  <2>2. CASE i - m \in DOMAIN t /\ t[i - m].op = "open" /\ Silent("open", s)
    <3>1. j - m \in DOMAIN t /\ t[j - m].op = "open" BY <1>3, <1>4, <2>2, SilentOpen
    <3>2. i - m = j - m BY <2>2, <3>1 DEF Single
    <3> QED BY <1>2, <3>2
  <2> QED BY <1>3, <1>4, <2>1, <2>2
<1>5. Single(r) BY <1>4 DEF Single
<1> QED BY <1>1, <1>5

(* and when the first is taken.                                              *)
LEMMA SingleRemoved ==
    ASSUME NEW q, IsSeq(q), q # <<>>, Single(q)
    PROVE  Single(Tail(q)) /\ (Head(q).op = "open" => Silent("open", Tail(q)))
<1> DEFINE r == Tail(q)
           n == Len(q)
<1>1. /\ n \in Nat \ {0} /\ DOMAIN q = 1..n
      /\ DOMAIN r = 1..(n - 1)
      /\ \A k \in DOMAIN r : r[k] = q[k + 1]
      /\ Head(q) = q[1]
  BY Removed
<1> HIDE DEF r, n
<1>2. 1 \in DOMAIN q /\ \A k \in DOMAIN r : k + 1 \in DOMAIN q /\ k + 1 # 1 BY <1>1
<1>3. ASSUME NEW i \in DOMAIN r, NEW j \in DOMAIN r, r[i].op = "open", r[j].op = "open"
      PROVE  i = j
  <2>1. q[i + 1].op = "open" /\ q[j + 1].op = "open" BY <1>1, <1>3
  <2>2. i + 1 = j + 1 BY <1>2, <2>1 DEF Single
  <2> QED BY <1>1, <2>2
<1>4. ASSUME q[1].op = "open", NEW k \in DOMAIN r PROVE r[k].op # "open"
  <2>1. q[k + 1].op # "open" BY <1>2, <1>4 DEF Single
  <2> QED BY <1>1, <2>1
<1>5. Single(r) BY <1>3 DEF Single
<1>6. q[1].op = "open" => Silent("open", r) BY <1>4, SilentOpen
<1> QED BY <1>1, <1>5, <1>6 DEF r

(* A single request                                                          *)
LEMMA SingleOne ==
    ASSUME NEW r
    PROVE  /\ IsSeq(<<r>>) /\ Single(<<r>>)
           /\ \A what : Carried(what, r) = {} => Silent(what, <<r>>)
<1> DEFINE b == <<r>>
<1>1. b = Append(<<>>, r) /\ DOMAIN b = {1} /\ b[1] = r  OBVIOUS
<1> HIDE DEF b
<1>2. IsSeq(b) /\ Single(b) BY <1>1, NoElements, Added DEF Single
<1>3. \A what : Carried(what, r) = {} => Silent(what, b) BY <1>1 DEF Silent
<1> QED BY <1>2, <1>3 DEF b

(* Every step keeps the modem down until it is opened.                       *)
LEMMA OpensKept ==
    ASSUME Shape, Opens,
           \/ Calls
           \/ HandlesPlain \/ HandlesSwitch \/ HandlesNfw \/ HandlesUpdate \/ HandlesEarly
           \/ HandlesUp \/ HandlesEngine
           \/ Serves \/ IsOpened \/ Fails \/ Reports
    PROVE  Opens'
<1>1. /\ IsSeq(requests) /\ Single(requests) /\ (modem.up <=> Silent("open", requests))
      /\ modem.up \in BOOLEAN
  BY DEF Shape, Opens, Single
<1>2. ASSUME Single(requests'), modem'.up <=> Silent("open", requests') PROVE Opens'
  BY <1>2 DEF Opens, Single
<1>3. ASSUME NEW out, Handles(out) PROVE Opens'
  <2>1. requests' = requests \o out /\ IsSeq(out) /\ Silent("open", out) /\ modem' = modem
    BY <1>3 DEF Handles
  <2>2. Single(out) BY <2>1, SilentOpen DEF Single
  <2>3. Single(requests \o out) BY <1>1, <2>1, <2>2, SingleJoined
  <2>4. Silent("open", requests \o out) <=> Silent("open", requests) BY <1>1, <2>1, BothHeard
  <2> QED BY <1>1, <1>2, <2>1, <2>3, <2>4
<1>4. CASE HandlesPlain \/ HandlesSwitch \/ HandlesNfw \/ HandlesUpdate \/ HandlesEarly
           \/ HandlesUp \/ HandlesEngine
  BY <1>3, <1>4 DEF HandlesPlain, HandlesSwitch, HandlesLock, HandlesNfw, HandlesUpdate,
    HandlesEarly, HandlesUp, HandlesEngine
<1>5. CASE Calls \/ Reports
  <2>1. UNCHANGED <<requests, modem>> BY <1>5 DEF Calls, Reports
  <2> QED BY <1>1, <1>2, <2>1
<1>6. CASE Serves
  <2>1. requests # <<>> /\ Head(requests).op # "open" /\ modem'.up = modem.up
    BY <1>6 DEF Serves
  <2>2. IsSeq(Tail(requests)) /\ Single(Tail(requests)) BY <1>1, <2>1, Removed, SingleRemoved
  <2>3. Silent("open", Tail(requests)) <=> Silent("open", requests)
    <3>1. Carried("open", Head(requests)) = {} BY <2>1, CarriedByType
    <3> QED BY <1>1, <2>1, <3>1, Said
  <2>4. CASE requests' = Tail(requests) BY <1>1, <1>2, <2>1, <2>2, <2>3, <2>4
  <2>5. ASSUME NEW r, r.op = "load", requests' = <<r>> \o Tail(requests) PROVE Opens'
    <3> DEFINE b == <<r>>
    <3>1. Carried("open", r) = {} BY <2>5, CarriedByType
    <3>2. IsSeq(b) /\ Single(b) /\ Silent("open", b) BY <3>1, SingleOne
    <3>3. requests' = b \o Tail(requests) BY <2>5
    <3> HIDE DEF b
    <3>4. Single(requests') BY <2>2, <3>2, <3>3, SingleJoined
    <3>5. Silent("open", requests') <=> Silent("open", requests)
      BY <2>2, <2>3, <3>2, <3>3, BothHeard
    <3> QED BY <1>1, <1>2, <2>1, <3>4, <3>5
  <2> QED BY <1>6, <2>4, <2>5 DEF Serves
<1>7. CASE IsOpened
  <2>1. /\ requests # <<>> /\ Head(requests).op = "open" /\ requests' = Tail(requests)
        /\ modem'.up = TRUE
    BY <1>7 DEF IsOpened
  <2>2. Single(Tail(requests)) /\ Silent("open", Tail(requests)) BY <1>1, <2>1, SingleRemoved
  <2> QED BY <1>2, <2>1, <2>2
<1>8. CASE Fails
  <2>1. PICK r : r.op = "open" /\ requests' = Append(requests, r) BY <1>8 DEF Fails
  <2>2. Silent("open", requests) /\ modem'.up = FALSE BY <1>1, <1>8 DEF Fails
  <2> DEFINE q == Append(requests, r)
  <2>3. /\ Len(requests) \in Nat /\ DOMAIN requests = 1..Len(requests)
        /\ DOMAIN q = 1..(Len(requests) + 1)
        /\ \A k \in DOMAIN requests : q[k] = requests[k]
        /\ q[Len(requests) + 1] = r
    BY <1>1, Added
  <2> HIDE DEF q
  <2>4. \A k \in DOMAIN q : k \in DOMAIN requests \/ k = Len(requests) + 1 BY <2>3
  <2>5. \A k \in DOMAIN requests : requests[k].op # "open" BY <2>2, SilentOpen
  <2>6. Single(q) BY <2>3, <2>4, <2>5 DEF Single
  <2>7. ~Silent("open", q)
    <3>1. Len(requests) + 1 \in DOMAIN q BY <2>3
    <3> QED BY <2>1, <2>3, <3>1, SilentOpen
  <2>8. requests' = q BY <2>1 DEF q
  <2> QED BY <1>2, <2>2, <2>6, <2>7, <2>8
<1> QED BY <1>4, <1>5, <1>6, <1>7, <1>8

-----------------------------------------------------------------------------
(* The lock of the modem                                                     *)

(* Who keeps the lock is due the same.                                       *)
LEMMA SameTarget ==
    ASSUME NEW a, NEW b, SameLock(a, b)
    PROVE  LockAtRestart(b) = LockAtRestart(a) /\ LockNow(b) = LockNow(a)
  BY DEF SameLock, LockAtRestart, LockNow

(* What is taken from the queue is not what waits behind it.                 *)
LEMMA UpWaits ==
    ASSUME Shape, queue # <<>>, Head(queue).type # "up", ~Silent("up", queue),
           \/ queue' = Tail(queue)
           \/ queue' = Tail(queue) \o adapter.pending
    PROVE  ~Silent("up", queue')
<1>1. IsSeq(queue) /\ IsSeq(adapter.pending) BY DEF Shape, MessagesFit
<1>2. IsSeq(Tail(queue)) BY <1>1, Removed
<1>3. Carried("up", Head(queue)) = {} BY CarriedByType
<1>4. ~Silent("up", Tail(queue)) BY <1>1, <1>3, Said
<1>5. ~Silent("up", Tail(queue) \o adapter.pending) BY <1>1, <1>2, <1>4, BothHeard
<1> QED BY <1>4, <1>5

LEMMA ModemLockHandles ==
    ASSUME Shape, ModemLock, NEW out, Handles(out),
           \/ EndsWith("sent", out, LockAtRestart(adapter'))
           \/ /\ Silent("sent", out) /\ LockAtRestart(adapter') = LockAtRestart(adapter)
              /\ Head(queue).type # "up"
              /\ \/ queue' = Tail(queue)
                 \/ queue' = Tail(queue) \o adapter.pending
    PROVE  ModemLock'
<1>1. /\ queue # <<>> /\ requests' = requests \o out /\ IsSeq(out)
      /\ modem' = modem /\ world' = world
  BY DEF Handles
<1>2. IsSeq(requests) BY DEF Shape
<1>3. CASE EndsWith("sent", out, LockAtRestart(adapter'))
  <2>1. EndsWith("sent", requests', LockAtRestart(adapter')) BY <1>1, <1>2, <1>3, BothHeard
  <2> QED BY <2>1 DEF ModemLock, Brings
<1>4. CASE /\ Silent("sent", out) /\ LockAtRestart(adapter') = LockAtRestart(adapter)
           /\ Head(queue).type # "up"
           /\ \/ queue' = Tail(queue)
              \/ queue' = Tail(queue) \o adapter.pending
  <2>1. ASSUME ~Silent("up", queue) PROVE ~Silent("up", queue') BY <1>1, <1>4, <2>1, UpWaits
  <2>2. ASSUME Brings("sent", requests, modem.lock, LockAtRestart(adapter))
        PROVE  Brings("sent", requests', modem'.lock, LockAtRestart(adapter'))
    BY <1>1, <1>2, <1>4, <2>2, BothHeard DEF Brings
  <2>3. Exposed({"refuses"})' = Exposed({"refuses"}) BY <1>1 DEF Exposed
  <2> QED BY <1>1, <2>1, <2>2, <2>3 DEF ModemLock
<1> QED BY <1>3, <1>4

(* Every step keeps what the modem is told last.                             *)
LEMMA ModemLockKept ==
    ASSUME Shape, ModemLock, Opens,
           \/ Calls
           \/ HandlesPlain \/ HandlesSwitch \/ HandlesNfw \/ HandlesUpdate \/ HandlesEarly
           \/ HandlesUp \/ HandlesEngine
           \/ Serves \/ IsOpened \/ Fails \/ Reports
    PROVE  ModemLock'
<1>1. IsSeq(queue) /\ IsSeq(requests) BY DEF Shape, MessagesFit
<1>2. ASSUME NEW out, Handles(out), EndsWith("sent", out, LockAtRestart(adapter'))
      PROVE  ModemLock'
  BY <1>2, ModemLockHandles
<1>3. ASSUME NEW out, Handles(out), Silent("sent", out), SameLock(adapter, adapter'),
             Head(queue).type # "up",
             queue' = Tail(queue) \/ queue' = Tail(queue) \o adapter.pending
      PROVE  ModemLock'
  <2>1. LockAtRestart(adapter') = LockAtRestart(adapter) BY <1>3, SameTarget
  <2> QED BY <1>3, <2>1, ModemLockHandles
<1>4. CASE HandlesPlain BY <1>3, <1>4 DEF HandlesPlain
<1>5. CASE HandlesLock BY <1>2, <1>5 DEF HandlesLock
<1>6. CASE HandlesNfw
  <2>1. Head(queue).type # "up" BY <1>6 DEF HandlesNfw
  <2> QED BY <1>3, <1>5, <1>6, <2>1 DEF HandlesNfw
<1>7. CASE HandlesUpdate
  <2>1. Head(queue).type # "up" /\ queue' = Tail(queue) BY <1>7 DEF HandlesUpdate
  <2>2. PICK out :
        /\ Handles(out)
        /\ \/ Silent("sent", out) /\ SameLock(adapter, adapter')
           \/ EndsWith("sent", out, LockAtRestart(adapter'))
           \/ Silent("sent", out) /\ LockAtRestart(adapter') = LockAtRestart(adapter)
    BY <1>7 DEF HandlesUpdate
  <2>3. CASE Silent("sent", out) /\ LockAtRestart(adapter') = LockAtRestart(adapter)
    BY <2>1, <2>2, <2>3, ModemLockHandles
  <2> QED BY <1>2, <1>3, <2>1, <2>2, <2>3
<1>8. CASE HandlesEarly \/ HandlesEngine
  <2>1. /\ Handles(<<>>) /\ SameLock(adapter, adapter') /\ Head(queue).type # "up"
        /\ queue' = Tail(queue) \/ queue' = Tail(queue) \o adapter.pending
    BY <1>8 DEF HandlesEarly, HandlesEngine, WaitsOn, ComesBack, Waiting
  <2>2. Silent("sent", <<>>) BY NothingSaid
  <2> QED BY <1>3, <2>1, <2>2
<1>9. CASE HandlesUp BY <1>2, <1>9 DEF HandlesUp
<1>10. ASSUME NEW m, queue' = Append(queue, m), ~Silent("up", queue)
       PROVE  ~Silent("up", queue')
  BY <1>1, <1>10, Heard
<1>11. CASE Calls \/ Reports
  <2>1. /\ \E m : queue' = Append(queue, m)
        /\ UNCHANGED <<world, requests, modem>>
        /\ SameLock(adapter, adapter')
    BY <1>11 DEF Calls, Reports, SameLock
  <2>2. LockAtRestart(adapter') = LockAtRestart(adapter) BY <2>1, SameTarget
  <2>3. Exposed({"refuses"})' = Exposed({"refuses"}) BY <2>1 DEF Exposed
  <2> QED BY <1>10, <2>1, <2>2, <2>3 DEF ModemLock
<1>12. CASE Serves
  <2>1. /\ requests # <<>>
        /\ queue' = queue \/ \E m : queue' = Append(queue, m)
        /\ SameLock(adapter, adapter') /\ modem'.up = modem.up /\ world' = world
    BY <1>12 DEF Serves
  <2>2. LockAtRestart(adapter') = LockAtRestart(adapter) BY <2>1, SameTarget
  <2>3. Exposed({"refuses"})' = Exposed({"refuses"}) BY <2>1 DEF Exposed
  <2>4. ASSUME modem.up, ~Exposed({"refuses"}),
               Brings("sent", requests, modem.lock, LockAtRestart(adapter))
        PROVE  Brings("sent", requests', modem'.lock, LockAtRestart(adapter))
    <3> DEFINE t == Tail(requests)
               v == LockAtRestart(adapter)
    <3>1. Carried("sent", Head(requests)) = LockSent(Head(requests)) BY CarriedByType
    <3>2. IsSeq(t) BY <1>1, <2>1, Removed
    <3>3. \/ LockSent(Head(requests)) = {} /\ modem'.lock = modem.lock
          \/ LockSent(Head(requests)) = {modem'.lock}
      BY <1>12, <2>4 DEF Serves
    <3>4. Brings("sent", t, modem'.lock, v) BY <1>1, <2>1, <2>4, <3>1, <3>3, BringsSaid
    <3> HIDE DEF t, v
    <3>5. ASSUME NEW r, r.op = "load" PROVE Brings("sent", <<r>> \o t, modem'.lock, v)
      <4> DEFINE b == <<r>>
      <4>1. Carried("sent", r) = {} BY <3>5, CarriedByType
      <4>2. IsSeq(b) /\ Silent("sent", b) BY <4>1, SingleOne
      <4> HIDE DEF b
      <4>3. Brings("sent", b, modem'.lock, modem'.lock) BY <4>2 DEF Brings
      <4>4. Brings("sent", b \o t, modem'.lock, v) BY <3>2, <3>4, <4>2, <4>3, BringsBoth
      <4> QED BY <4>4 DEF b
    <3>6. requests' = t \/ \E r : r.op = "load" /\ requests' = <<r>> \o t
      BY <1>12 DEF Serves, t
    <3> QED BY <3>4, <3>5, <3>6 DEF v
  <2> QED BY <1>10, <2>1, <2>2, <2>3, <2>4 DEF ModemLock
<1>13. CASE IsOpened
  <2>1. PICK m : m.type = "up" /\ queue' = Append(queue, m) BY <1>13 DEF IsOpened
  <2>2. Carried("up", m) # {} BY <2>1, CarriedByType
  <2>3. ~Silent("up", queue')
    <3>1. /\ Len(queue) + 1 \in DOMAIN Append(queue, m)
          /\ Append(queue, m)[Len(queue) + 1] = m
      BY <1>1, Added
    <3> QED BY <2>1, <2>2, <3>1 DEF Silent
  <2> QED BY <2>3 DEF ModemLock
<1>14. CASE Fails BY <1>14 DEF Fails, ModemLock
<1>15. CASE HandlesSwitch BY <1>5, <1>15 DEF HandlesSwitch
<1> QED BY <1>4, <1>6, <1>7, <1>8, <1>9, <1>11, <1>12, <1>13, <1>14, <1>15

-----------------------------------------------------------------------------
(* What XTRA is told                                                         *)

(* What waits is not of the engine.                                          *)
LEMMA WaitingSilent ==
    ASSUME Shape
    PROVE  Silent("engine", adapter.pending)
<1>1. ASSUME NEW k \in DOMAIN adapter.pending
      PROVE  Carried("engine", adapter.pending[k]) = {}
  <2>1. adapter.pending[k].type # "lock" BY DEF Shape, Waiting
  <2> QED BY <2>1, CarriedByType
<1> QED BY <1>1 DEF Silent

LEMMA XtraTaken ==
    ASSUME Shape, XtraLock, queue # <<>>, Head(queue).type # "lock",
           \/ queue' = Tail(queue)
           \/ queue' = Tail(queue) \o adapter.pending,
           adapter'.locked = adapter.locked,
           XtraFits(adapter) => XtraFits(adapter')
    PROVE  XtraLock'
<1>1. IsSeq(queue) /\ IsSeq(adapter.pending) BY DEF Shape, MessagesFit
<1>2. IsSeq(Tail(queue)) BY <1>1, Removed
<1>3. Carried("engine", Head(queue)) = {} BY CarriedByType
<1>4. Silent("engine", adapter.pending) BY WaitingSilent
<1>5. ASSUME EndsWith("engine", queue, adapter.locked)
      PROVE  EndsWith("engine", queue', adapter.locked)
  <2>1. EndsWith("engine", Tail(queue), adapter.locked) BY <1>1, <1>3, <1>5, Said
  <2>2. EndsWith("engine", Tail(queue) \o adapter.pending, adapter.locked)
    BY <1>1, <1>2, <1>4, <2>1, BothHeard
  <2> QED BY <2>1, <2>2
<1>6. ASSUME Silent("engine", queue) PROVE Silent("engine", queue')
  <2>1. Silent("engine", Tail(queue)) BY <1>1, <1>6, Said
  <2>2. Silent("engine", Tail(queue) \o adapter.pending) BY <1>1, <1>2, <1>4, <2>1, BothHeard
  <2> QED BY <2>1, <2>2
<1> QED BY <1>5, <1>6 DEF XtraLock

LEMMA XtraAdded ==
    ASSUME Shape, XtraLock, NEW m, queue' = Append(queue, m), m.type # "lock",
           adapter'.locked = adapter.locked,
           XtraFits(adapter) => XtraFits(adapter')
    PROVE  XtraLock'
<1>1. IsSeq(queue) BY DEF Shape, MessagesFit
<1>2. Carried("engine", m) = {} BY CarriedByType
<1> QED BY <1>1, <1>2, Heard DEF XtraLock

LEMMA SameFits ==
    ASSUME NEW a, NEW b, SameXtra(a, b), b.afw = a.afw
    PROVE  XtraFits(a) => XtraFits(b)
  BY DEF SameXtra, XtraFits

(* Every step keeps what XTRA hears last.                                    *)
LEMMA XtraLockKept ==
    ASSUME Shape, XtraLock,
           \/ Calls
           \/ HandlesPlain \/ HandlesSwitch \/ HandlesNfw \/ HandlesUpdate \/ HandlesEarly
           \/ HandlesUp \/ HandlesEngine
           \/ Serves \/ IsOpened \/ Fails \/ Reports
    PROVE  XtraLock'
<1>1. IsSeq(queue) /\ IsSeq(adapter.pending) /\ adapter.locked \in BOOLEAN
  BY DEF Shape, MessagesFit
<1>2. ASSUME queue # <<>>, Head(queue).type # "lock",
             queue' = Tail(queue) \/ queue' = Tail(queue) \o adapter.pending,
             SameXtra(adapter, adapter'), adapter'.afw = adapter.afw
      PROVE  XtraLock'
  <2>1. adapter'.locked = adapter.locked BY <1>2 DEF SameXtra
  <2> QED BY <1>2, <2>1, SameFits, XtraTaken
<1>3. CASE HandlesPlain BY <1>2, <1>3 DEF HandlesPlain, Handles, SameLock
<1>4. CASE HandlesNfw BY <1>2, <1>4 DEF HandlesNfw, HandlesLock, Handles, SameLock
<1>5. CASE HandlesUpdate BY <1>2, <1>5 DEF HandlesUpdate, Handles
<1>6. CASE HandlesEarly BY <1>2, <1>6 DEF HandlesEarly, Handles, SameLock, Waiting
<1>7. CASE HandlesUp BY <1>2, <1>7 DEF HandlesUp, Handles, SameLock, WaitsOn, ComesBack
<1>8. CASE HandlesSwitch
  <2>1. /\ queue # <<>> /\ Head(queue).type # "lock" /\ queue' = Tail(queue)
        /\ adapter'.locked = adapter.locked /\ XtraFits(adapter')
    BY <1>8 DEF HandlesSwitch, HandlesLock, Handles
  <2> QED BY <2>1, XtraTaken
<1>9. CASE HandlesEngine
  <2>1. /\ queue # <<>> /\ Head(queue).type = "lock" /\ adapter'.locked = adapter.locked
        /\ adapter'.afw = adapter.afw
        /\ queue' = Tail(queue) \/ queue' = Tail(queue) \o adapter.pending
        /\ adapter'.xtraLock =
              IF Head(queue).on THEN {"MO"} ELSE IF adapter.afw # 0 THEN {} ELSE {"MO"}
    BY <1>9 DEF HandlesEngine, Handles, SameLock, WaitsOn, ComesBack
  <2>2. IsSeq(Tail(queue)) /\ Silent("engine", adapter.pending)
    BY <1>1, <2>1, Removed, WaitingSilent
  <2>3. Carried("engine", Head(queue)) = {Head(queue).on} BY <2>1, CarriedByType DEF EngineLock
  <2>4. EndsWith("engine", queue, adapter.locked)
    <3>1. ~Silent("engine", queue) BY <1>1, <2>1, <2>3, Said
    <3> QED BY <3>1 DEF XtraLock
  <2>5. CASE EndsWith("engine", Tail(queue), adapter.locked)
    <3>1. EndsWith("engine", Tail(queue) \o adapter.pending, adapter.locked)
      BY <1>1, <2>2, <2>5, BothHeard
    <3> QED BY <2>1, <2>5, <3>1 DEF XtraLock
  <2>6. CASE Carried("engine", Head(queue)) = {adapter.locked} /\ Silent("engine", Tail(queue))
    <3>1. Head(queue).on = adapter.locked BY <2>3, <2>6
    <3>2. Silent("engine", Tail(queue) \o adapter.pending) BY <1>1, <2>2, <2>6, BothHeard
    <3>3. XtraFits(adapter') BY <2>1, <3>1 DEF XtraFits
    <3> QED BY <2>1, <2>6, <3>2, <3>3 DEF XtraLock
  <2> QED BY <1>1, <2>1, <2>4, <2>5, <2>6, Said
<1>10. CASE Calls
  <2>1. adapter' = adapter /\ \E m : m.type # "lock" /\ queue' = Append(queue, m)
    BY <1>10 DEF Calls
  <2> QED BY <2>1, XtraAdded
<1>11. CASE Serves
  <2>1. /\ SameXtra(adapter, adapter') /\ adapter'.afw = adapter.afw
        /\ queue' = queue \/ \E m : m.type # "lock" /\ queue' = Append(queue, m)
    BY <1>11 DEF Serves, SameLock
  <2>2. adapter'.locked = adapter.locked /\ (XtraFits(adapter) => XtraFits(adapter'))
    BY <2>1, SameFits DEF SameXtra
  <2>3. CASE queue' = queue BY <2>2, <2>3 DEF XtraLock
  <2> QED BY <2>1, <2>2, <2>3, XtraAdded
<1>12. CASE IsOpened
  <2>1. adapter' = adapter /\ \E m : m.type # "lock" /\ queue' = Append(queue, m)
    BY <1>12 DEF IsOpened
  <2> QED BY <2>1, XtraAdded
<1>13. CASE Fails BY <1>13 DEF Fails, XtraLock
<1>14. CASE Reports
  <2>1. PICK m : m.type = "lock" /\ m.on = adapter'.locked /\ queue' = Append(queue, m)
    BY <1>14 DEF Reports
  <2>2. Carried("engine", m) = {adapter'.locked} BY <2>1, CarriedByType DEF EngineLock
  <2>3. EndsWith("engine", queue', adapter'.locked) BY <1>1, <2>1, <2>2, Heard
  <2> QED BY <2>3 DEF XtraLock
<1> QED BY <1>3, <1>4, <1>5, <1>6, <1>7, <1>8, <1>9, <1>10, <1>11, <1>12, <1>13, <1>14

-----------------------------------------------------------------------------
(* Where nothing is reordered                                                *)

(* Nothing behind a queue leaves the queue.                                  *)
LEMMA NoneBehind ==
    ASSUME NEW q, IsSeq(q)
    PROVE  /\ q \o <<>> = q
           /\ q # <<>> => ~ (Len(q) = 0)
           /\ DOMAIN q = {} => q = <<>>
<1> DEFINE S == {q[k] : k \in DOMAIN q}
<1>1. q \in Seq(S) BY DEF IsSeq
<1> HIDE DEF S
<1>2. q \o <<>> = q BY <1>1
<1>3. Len(q) \in Nat /\ DOMAIN q = 1..Len(q) /\ (q # <<>> => Len(q) >= 1)
  BY <1>1, SeqOfItsElements
<1> QED BY <1>2, <1>3

(* The news of the engine stays last.                                        *)
LEMMA UpLastAdded ==
    ASSUME NEW q, IsSeq(q), UpLast(q), NEW m, Carried("waiting", m) = {} \/ q = <<>>
    PROVE  UpLast(Append(q, m))
<1> DEFINE r == Append(q, m)
<1>1. /\ Len(q) \in Nat /\ DOMAIN q = 1..Len(q)
      /\ DOMAIN r = 1..(Len(q) + 1)
      /\ \A k \in DOMAIN q : r[k] = q[k]
      /\ r[Len(q) + 1] = m
  BY Added
<1>2. q = <<>> => Len(q) = 0  OBVIOUS
<1> HIDE DEF r
<1>3. ASSUME NEW i \in DOMAIN r, NEW j \in DOMAIN r, i < j, r[i].type = "up"
      PROVE  Carried("waiting", r[j]) = {}
  <2>1. i \in DOMAIN q /\ (j \in DOMAIN q \/ j = Len(q) + 1) BY <1>1, <1>3
  <2>2. CASE j \in DOMAIN q BY <1>1, <1>3, <2>1, <2>2 DEF UpLast
  <2>3. CASE j = Len(q) + 1
    <3>1. q # <<>> BY <1>1, <1>2, <2>1
    <3> QED BY <1>1, <2>3, <3>1
  <2> QED BY <2>1, <2>2, <2>3
<1>4. UpLast(r) BY <1>3 DEF UpLast
<1> QED BY <1>4 DEF r

(* Behind it nothing waits.                                                  *)
LEMMA UpLastRemoved ==
    ASSUME NEW q, IsSeq(q), q # <<>>, UpLast(q)
    PROVE  UpLast(Tail(q)) /\ (Head(q).type = "up" => Silent("waiting", Tail(q)))
<1> DEFINE r == Tail(q)
           n == Len(q)
<1>1. /\ n \in Nat \ {0} /\ DOMAIN q = 1..n
      /\ DOMAIN r = 1..(n - 1)
      /\ \A k \in DOMAIN r : r[k] = q[k + 1]
      /\ Head(q) = q[1]
  BY Removed
<1> HIDE DEF r, n
<1>2. 1 \in DOMAIN q /\ \A k \in DOMAIN r : k + 1 \in DOMAIN q /\ 1 < k + 1 BY <1>1
<1>3. ASSUME NEW i \in DOMAIN r, NEW j \in DOMAIN r, i < j, r[i].type = "up"
      PROVE  Carried("waiting", r[j]) = {}
  <2>1. i + 1 < j + 1 BY <1>1, <1>3
  <2>2. q[i + 1].type = "up" BY <1>1, <1>3
  <2>3. Carried("waiting", q[j + 1]) = {} BY <1>2, <2>1, <2>2 DEF UpLast
  <2> QED BY <1>1, <2>3
<1>4. ASSUME q[1].type = "up", NEW k \in DOMAIN r PROVE Carried("waiting", r[k]) = {}
  <2>1. Carried("waiting", q[k + 1]) = {} BY <1>2, <1>4 DEF UpLast
  <2> QED BY <1>1, <2>1
<1>5. UpLast(r) BY <1>3 DEF UpLast
<1>6. q[1].type = "up" => Silent("waiting", r) BY <1>4 DEF Silent
<1> QED BY <1>1, <1>5, <1>6 DEF r

(* What the worlds without reordering have not                               *)
LEMMA NotReordered ==
    ASSUME ~Reordered
    PROVE  /\ "locks" \in world => ~Exposed({"cold", "untimely"})
           /\ "cold" \in world => "hasty" \notin world
  BY DEF Reordered, Exposed

(* The engine reports its lock: nothing waits for it.                        *)
LEMMA NothingWaits ==
    ASSUME Shape, Order, ~Reordered,
           adapter.locked = TRUE \/ (queue # <<>> /\ Head(queue).type = "lock")
    PROVE  adapter.pending = <<>>
<1>1. IsSeq(queue) BY DEF Shape, MessagesFit
<1>2. CASE "locks" \in world BY <1>2, NotReordered DEF Order, OrderOf, Shape, Exposed
<1>3. CASE "locks" \notin world
  <2>1. ~adapter.locked /\ Silent("engine", queue) BY <1>3 DEF Order, OrderOf
  <2>2. queue # <<>> => Carried("engine", Head(queue)) = {} BY <1>1, <2>1, Said
  <2>3. Head(queue).type = "lock" => Carried("engine", Head(queue)) # {}
    BY CarriedByType DEF EngineLock
  <2> QED BY <2>1, <2>2, <2>3
<1> QED BY <1>2, <1>3

(* The news of the engine is still to come.                                  *)
LEMMA ComingHandles ==
    ASSUME Shape, Coming(queue, requests), NEW out, Handles(out), Head(queue).type # "up",
           queue' = Tail(queue)
    PROVE  Coming(queue', requests')
<1>1. /\ IsSeq(requests) /\ IsSeq(out) /\ requests' = requests \o out /\ queue # <<>>
  BY DEF Shape, Handles
<1>2. ~Silent("open", requests) => ~Silent("open", requests') BY <1>1, BothHeard
<1>3. ~Silent("up", queue) => ~Silent("up", queue') BY <1>1, UpWaits
<1> QED BY <1>2, <1>3 DEF Coming

(* A message is taken that is not of the engine.                             *)
LEMMA OrderTaken ==
    ASSUME Shape, Order, NEW out, Handles(out), Head(queue).type \notin {"up", "lock"},
           queue' = Tail(queue), SameOrder(adapter, adapter'), adapter'.locked = adapter.locked
    PROVE  Order'
<1>1. IsSeq(queue) /\ queue # <<>> /\ world' = world BY DEF Shape, MessagesFit, Handles
<1>2. /\ Silent("engine", queue) => Silent("engine", queue')
      /\ Silent("waiting", queue) => Silent("waiting", queue')
  BY <1>1, Said
<1>3. UpLast(queue) => UpLast(queue') BY <1>1, UpLastRemoved
<1>4. Coming(queue, requests) => Coming(queue', requests') BY ComingHandles
<1> QED BY <1>1, <1>2, <1>3, <1>4 DEF Order, OrderOf, SameOrder

(* Every step keeps the order.                                               *)
LEMMA OrderKept ==
    ASSUME Shape, Order, ~Reordered,
           \/ Calls
           \/ HandlesPlain \/ HandlesSwitch \/ HandlesNfw \/ HandlesUpdate \/ HandlesEarly
           \/ HandlesUp \/ HandlesEngine
           \/ Serves \/ IsOpened \/ Fails \/ Reports
    PROVE  Order'
<1>1. IsSeq(queue) /\ IsSeq(requests) /\ adapter.known \in BOOLEAN BY DEF Shape, MessagesFit
<1>2. /\ adapter.known => adapter.pending = <<>>
      /\ ~adapter.known => Coming(queue, requests) /\ UpLast(queue)
      /\ "locks" \notin world => ~adapter.locked /\ Silent("engine", queue)
      /\ ~adapter.known /\ {"cold", "untimely"} \cap world = {} =>
            Silent("waiting", queue) /\ adapter.pending = <<>>
  BY DEF Order, OrderOf
<1>3. CASE Calls
  <2>1. PICK m : /\ Allowed /\ queue' = Append(queue, m) /\ m.type \notin {"lock", "up"}
                 /\ UNCHANGED <<world, adapter, requests>>
    BY <1>3 DEF Calls
  <2>2. Carried("engine", m) = {} BY <2>1, CarriedByType
  <2>3. Silent("engine", queue) => Silent("engine", queue') BY <1>1, <2>1, <2>2, Heard
  <2>4. ASSUME ~adapter.known
        PROVE  queue = <<>> /\ ({"cold", "untimely"} \cap world # {})
    <3>1. CASE "hasty" \in world /\ (adapter.known \/ "cold" \in world)
      BY <2>4, <3>1, NotReordered
    <3>2. CASE Quiet
      <4>1. Silent("open", requests) /\ Silent("up", queue) BY <3>2, NothingSaid DEF Quiet
      <4> QED BY <1>2, <2>4, <4>1 DEF Coming
    <3>3. CASE ("untimely" \in world \/ ("cold" \in world /\ ~adapter.known)) /\ queue = <<>>
      BY <3>3
    <3> QED BY <2>1, <3>1, <3>2, <3>3 DEF Allowed
  <2>5. ~adapter.known => UpLast(queue') BY <1>1, <1>2, <2>1, <2>4, UpLastAdded
  <2>6. ~Silent("up", queue) => ~Silent("up", queue') BY <1>1, <2>1, Heard
  <2> QED BY <1>2, <2>1, <2>3, <2>4, <2>5, <2>6 DEF Order, OrderOf, Coming
<1>4. CASE HandlesPlain BY <1>4, OrderTaken DEF HandlesPlain, SameXtra
<1>5. CASE HandlesSwitch BY <1>5, OrderTaken DEF HandlesSwitch, HandlesLock
<1>6. CASE HandlesNfw
  <2>1. Head(queue).type \notin {"up", "lock"} /\ adapter'.locked = adapter.locked
    BY <1>6 DEF HandlesNfw, SameXtra
  <2> QED BY <1>6, <2>1, OrderTaken DEF HandlesNfw, HandlesLock
<1>7. CASE HandlesUpdate BY <1>7, OrderTaken DEF HandlesUpdate, SameXtra
<1>8. CASE HandlesEarly
  <2>1. /\ Handles(<<>>) /\ queue # <<>> /\ Head(queue).type \in Waiting /\ ~adapter.known
        /\ queue' = Tail(queue) /\ adapter'.known = adapter.known /\ world' = world
        /\ adapter'.locked = adapter.locked
    BY <1>8 DEF HandlesEarly, Handles, SameXtra
  <2>2. {"cold", "untimely"} \cap world # {}
    <3>1. ~Silent("waiting", queue) BY <1>1, <2>1, CarriedByType, Said
    <3> QED BY <1>2, <2>1, <3>1
  <2>3. Silent("engine", queue) => Silent("engine", queue') BY <1>1, <2>1, Said
  <2>4. Coming(queue', requests') BY <1>2, <2>1, ComingHandles DEF Waiting
  <2>5. UpLast(queue') BY <1>1, <1>2, <2>1, UpLastRemoved
  <2> QED BY <1>2, <2>1, <2>2, <2>3, <2>4, <2>5 DEF Order, OrderOf
<1>9. CASE HandlesUp
  <2>1. /\ queue # <<>> /\ adapter'.known = TRUE /\ world' = world
        /\ adapter'.locked = adapter.locked
        /\ IF adapter.locked THEN WaitsOn ELSE ComesBack
    BY <1>9 DEF HandlesUp, Handles, SameXtra
  <2>2. adapter.locked \in BOOLEAN BY DEF Shape
  <2>3. adapter'.pending = <<>>
    <3>1. CASE adapter.locked = TRUE BY <2>1, <3>1, NothingWaits DEF WaitsOn
    <3>2. CASE adapter.locked = FALSE BY <2>1, <3>2 DEF ComesBack
    <3> QED BY <2>2, <3>1, <3>2
  <2>4. Silent("engine", queue) => Silent("engine", queue')
    <3>1. IsSeq(adapter.pending) /\ Silent("engine", adapter.pending)
      BY WaitingSilent DEF Shape, MessagesFit
    <3>2. IsSeq(Tail(queue)) /\ (Silent("engine", queue) => Silent("engine", Tail(queue)))
      BY <1>1, <2>1, Removed, Said
    <3>3. Silent("engine", queue) => Silent("engine", Tail(queue) \o adapter.pending)
      BY <3>1, <3>2, BothHeard
    <3> QED BY <2>1, <3>2, <3>3 DEF WaitsOn, ComesBack
  <2> QED BY <1>2, <2>1, <2>3, <2>4 DEF Order, OrderOf
<1>10. CASE HandlesEngine
  <2>1. /\ Handles(<<>>) /\ queue # <<>> /\ Head(queue).type = "lock" /\ world' = world
        /\ adapter'.known = adapter.known /\ adapter'.locked = adapter.locked
        /\ WaitsOn \/ ComesBack
    BY <1>10 DEF HandlesEngine, Handles
  <2>2. adapter.pending = <<>> BY <2>1, NothingWaits
  <2>3. IsSeq(Tail(queue)) BY <1>1, <2>1, Removed
  <2>4. queue' = Tail(queue) /\ adapter'.pending = <<>>
    BY <2>1, <2>2, <2>3, NoneBehind DEF WaitsOn, ComesBack
  <2>5. /\ Silent("engine", queue) => Silent("engine", queue')
        /\ Silent("waiting", queue) => Silent("waiting", queue')
    BY <1>1, <2>1, <2>4, Said
  <2>6. UpLast(queue) => UpLast(queue') BY <1>1, <2>1, <2>4, UpLastRemoved
  <2>7. Coming(queue, requests) => Coming(queue', requests') BY <2>1, <2>4, ComingHandles
  <2> QED BY <1>2, <2>1, <2>4, <2>5, <2>6, <2>7 DEF Order, OrderOf
(* LocApi and the modem add a message that does not wait.                    *)
<1>11. ASSUME SameOrder(adapter, adapter'), world' = world,
              queue' = queue \/ \E m : m.type \notin Waiting /\ queue' = Append(queue, m),
              Coming(queue, requests) => Coming(queue', requests'),
              "locks" \notin world =>
                  adapter'.locked = adapter.locked
                  /\ (Silent("engine", queue) => Silent("engine", queue'))
       PROVE  Order'
  <2>1. ASSUME NEW m, m.type \notin Waiting, queue' = Append(queue, m)
        PROVE  /\ Silent("waiting", queue) => Silent("waiting", queue')
               /\ UpLast(queue) => UpLast(queue')
    <3>1. Carried("waiting", m) = {} BY <2>1, CarriedByType
    <3> QED BY <1>1, <2>1, <3>1, Heard, UpLastAdded
  <2>2. /\ Silent("waiting", queue) => Silent("waiting", queue')
        /\ UpLast(queue) => UpLast(queue')
    BY <1>11, <2>1
  <2> QED BY <1>2, <1>11, <2>2 DEF Order, OrderOf, SameOrder
<1>12. ASSUME NEW m, m.type # "lock", queue' = Append(queue, m)
       PROVE  Silent("engine", queue) => Silent("engine", queue')
  BY <1>1, <1>12, CarriedByType, Heard
<1>13. ASSUME NEW m, queue' = Append(queue, m)
       PROVE  ~Silent("up", queue) => ~Silent("up", queue')
  BY <1>1, <1>13, Heard
<1>14. CASE Serves
  <2>1. /\ SameOrder(adapter, adapter') /\ world' = world /\ adapter'.locked = adapter.locked
        /\ queue' = queue \/ \E m : m.type = "response" /\ queue' = Append(queue, m)
        /\ requests # <<>> /\ Head(requests).op # "open"
    BY <1>14 DEF Serves, SameXtra
  <2>2. queue' = queue \/ \E m : m.type \notin Waiting /\ queue' = Append(queue, m)
    BY <2>1 DEF Waiting
  <2>3. Silent("engine", queue) => Silent("engine", queue') BY <1>12, <2>1
  <2>4. ~Silent("up", queue) => ~Silent("up", queue') BY <1>13, <2>1
  <2>5. ASSUME ~Silent("open", requests) PROVE ~Silent("open", requests')
    <3>1. IsSeq(Tail(requests)) /\ ~Silent("open", Tail(requests))
      BY <1>1, <2>1, <2>5, CarriedByType, Removed, Said
    <3>2. ASSUME NEW r PROVE ~Silent("open", <<r>> \o Tail(requests))
      <4> DEFINE b == <<r>>
      <4>1. IsSeq(b) BY SingleOne
      <4> HIDE DEF b
      <4>2. ~Silent("open", b \o Tail(requests)) BY <3>1, <4>1, BothHeard
      <4> QED BY <4>2 DEF b
    <3> QED BY <1>14, <3>1, <3>2 DEF Serves
  <2> QED BY <1>11, <2>1, <2>2, <2>3, <2>4, <2>5 DEF Coming
<1>15. CASE IsOpened
  <2>1. PICK m : m.type = "up" /\ queue' = Append(queue, m) BY <1>15 DEF IsOpened
  <2>2. Carried("up", m) # {} BY <2>1, CarriedByType
  <2>3. ~Silent("up", queue')
    <3>1. /\ Len(queue) + 1 \in DOMAIN Append(queue, m)
          /\ Append(queue, m)[Len(queue) + 1] = m
      BY <1>1, Added
    <3> QED BY <2>1, <2>2, <3>1 DEF Silent
  <2>4. m.type \notin Waiting /\ m.type # "lock" BY <2>1 DEF Waiting
  <2>5. adapter' = adapter /\ world' = world BY <1>15 DEF IsOpened
  <2>6. SameOrder(adapter, adapter') /\ adapter'.locked = adapter.locked BY <2>5 DEF SameOrder
  <2> QED BY <1>11, <1>12, <2>1, <2>3, <2>4, <2>5, <2>6 DEF Coming
<1>16. CASE Fails
  <2>1. PICK r : r.op = "open" /\ requests' = Append(requests, r) BY <1>16 DEF Fails
  <2>2. UNCHANGED <<world, adapter, queue>> BY <1>16 DEF Fails
  <2>3. ~Silent("open", requests) => ~Silent("open", requests') BY <1>1, <2>1, Heard
  <2> QED BY <1>2, <2>2, <2>3 DEF Order, OrderOf, Coming
<1>17. CASE Reports
  <2>1. PICK m : m.type = "lock" /\ queue' = Append(queue, m) BY <1>17 DEF Reports
  <2>2. m.type \notin Waiting BY <2>1 DEF Waiting
  <2>3. /\ "locks" \in world /\ world' = world /\ requests' = requests
        /\ SameOrder(adapter, adapter')
    BY <1>17 DEF Reports
  <2>4. Coming(queue, requests) => Coming(queue', requests') BY <1>13, <2>1, <2>3 DEF Coming
  <2> QED BY <1>11, <2>1, <2>2, <2>3, <2>4
<1> QED BY <1>3, <1>4, <1>5, <1>6, <1>7, <1>8, <1>9, <1>10, <1>14, <1>15, <1>16, <1>17

-----------------------------------------------------------------------------
(* What is asked for is heeded.                                              *)

(* What is added is heeded last.                                             *)
LEMMA HeededAdded ==
    ASSUME NEW what, NEW p, NEW q, IsSeq(q), NEW now, NEW v, Heeded(what, p, q, now, v), NEW m
    PROVE  /\ Carried(what, m) = {} => Heeded(what, p, Append(q, m), now, v)
           /\ \A w : Carried(what, m) = {w} => Heeded(what, p, Append(q, m), now, w)
<1>1. PICK u : Brings(what, p, now, u) /\ Brings(what, q, u, v) BY DEF Heeded
<1>2. ASSUME Carried(what, m) = {} PROVE Heeded(what, p, Append(q, m), now, v)
  BY <1>1, <1>2, BringsHeard DEF Heeded
<1>3. ASSUME NEW w, Carried(what, m) = {w} PROVE Heeded(what, p, Append(q, m), now, w)
  BY <1>1, <1>3, BringsHeard DEF Heeded
<1> QED BY <1>2, <1>3

(* Who takes it hears nothing of it.                                         *)
LEMMA HeededTaken ==
    ASSUME NEW what, NEW p, NEW q, IsSeq(q), q # <<>>, NEW now, NEW v,
           Heeded(what, p, q, now, v), Carried(what, Head(q)) = {}
    PROVE  Heeded(what, p, Tail(q), now, v)
  BY BringsSaid DEF Heeded

(* Nothing waits: who takes the first has what it says.                      *)
LEMMA HeededDone ==
    ASSUME NEW what, NEW q, IsSeq(q), q # <<>>, NEW now, NEW v,
           Heeded(what, <<>>, q, now, v), NEW x, Carried(what, Head(q)) = {x}
    PROVE  Heeded(what, <<>>, Tail(q), x, v)
<1>1. Brings(what, q, now, v) BY NothingSaid DEF Heeded
<1>2. Brings(what, Tail(q), x, v) BY <1>1, BringsSaid
<1>3. Brings(what, <<>>, x, x) BY NothingSaid
<1> QED BY <1>2, <1>3 DEF Heeded

(* The first joins what waits.                                               *)
LEMMA HeededEarly ==
    ASSUME NEW what, NEW p, IsSeq(p), NEW q, IsSeq(q), q # <<>>, NEW now, NEW v,
           Heeded(what, p, q, now, v),
           Carried(what, Head(q)) = {} \/ \E x : Carried(what, Head(q)) = {x}
    PROVE  Heeded(what, Append(p, Head(q)), Tail(q), now, v)
<1>1. PICK u : Brings(what, p, now, u) /\ Brings(what, q, u, v) BY DEF Heeded
<1>2. CASE Carried(what, Head(q)) = {}
  <2>1. Brings(what, Append(p, Head(q)), now, u) /\ Brings(what, Tail(q), u, v)
    BY <1>1, <1>2, BringsHeard, BringsSaid
  <2> QED BY <2>1 DEF Heeded
<1>3. ASSUME NEW x, Carried(what, Head(q)) = {x}
      PROVE  Heeded(what, Append(p, Head(q)), Tail(q), now, v)
  <2>1. Brings(what, Append(p, Head(q)), now, x) /\ Brings(what, Tail(q), x, v)
    BY <1>1, <1>3, BringsHeard, BringsSaid
  <2> QED BY <2>1 DEF Heeded
<1> QED BY <1>2, <1>3

(* What waits comes back behind messages that say nothing.                   *)
LEMMA HeededBack ==
    ASSUME NEW what, NEW p, IsSeq(p), NEW q, IsSeq(q), q # <<>>, NEW now, NEW v,
           Heeded(what, p, q, now, v), Carried(what, Head(q)) = {}, Silent(what, Tail(q))
    PROVE  Heeded(what, <<>>, Tail(q) \o p, now, v)
<1>1. PICK u : Brings(what, p, now, u) /\ Brings(what, q, u, v) BY DEF Heeded
<1>2. u = v
  <2>1. Brings(what, Tail(q), u, v) BY <1>1, BringsSaid
  <2>2. ~EndsWith(what, Tail(q), v)
    <3>1. {v} # {}  OBVIOUS
    <3> QED BY <3>1 DEF EndsWith, Silent
  <2> QED BY <2>1, <2>2 DEF Brings
<1>3. IsSeq(Tail(q)) BY Removed
<1>4. Brings(what, Tail(q), now, now) BY DEF Brings
<1>5. Brings(what, Tail(q) \o p, now, v) BY <1>1, <1>2, <1>3, <1>4, BringsBoth
<1>6. Brings(what, <<>>, now, now) BY NothingSaid
<1> QED BY <1>5, <1>6 DEF Heeded

(* A message that does not wait asks for nothing.                            *)
LEMMA WaitsToAsk ==
    ASSUME NEW m, m.type \notin Waiting
    PROVE  Carried("asked", m) = {} /\ Carried("nfws", m) = {}
  BY CarriedByType DEF Waiting

(* Behind no message that waits, nothing is asked for.                       *)
LEMMA SilentToAsk ==
    ASSUME NEW q, Silent("waiting", q)
    PROVE  Silent("asked", q) /\ Silent("nfws", q)
<1>1. ASSUME NEW k \in DOMAIN q PROVE q[k].type \notin Waiting BY CarriedByType DEF Silent
<1> QED BY <1>1, WaitsToAsk DEF Silent

(* A message asks for one lock and one set of users, or for none.            *)
LEMMA OneOrNone ==
    ASSUME NEW m
    PROVE  /\ Carried("asked", m) = {} \/ \E x : Carried("asked", m) = {x}
           /\ Carried("nfws", m) = {} \/ \E x : Carried("nfws", m) = {x}
<1>1. LockAsked(m) = {} \/ \E x : LockAsked(m) = {x} BY DEF LockAsked
<1>2. NfwsAsked(m) = {} \/ \E x : NfwsAsked(m) = {x} BY DEF NfwsAsked
<1> QED BY <1>1, <1>2, CarriedByType

-----------------------------------------------------------------------------
(* A message that asks for nothing is taken;                                 *)
LEMMA AskedTaken ==
    ASSUME Shape, Asked, queue # <<>>, Head(queue).type \notin {"update", "nfw"},
           queue' = Tail(queue), adapter'.pending = adapter.pending, asked' = asked,
           LockNow(adapter') = LockNow(adapter),
           adapter'.nfwControl => adapter.nfwControl
                                  /\ adapter'.lock \cap Nfws = adapter.lock \cap Nfws
    PROVE  Asked'
<1>1. IsSeq(queue) BY DEF Shape, MessagesFit
<1>2. Carried("asked", Head(queue)) = {} /\ Carried("nfws", Head(queue)) = {} BY CarriedByType
<1>3. Heeded("asked", adapter.pending, Tail(queue), LockNow(adapter), LockDue(asked))
  BY <1>1, <1>2, HeededTaken DEF Asked
<1>4. adapter.nfwControl =>
         Heeded("nfws", adapter.pending, Tail(queue), adapter.lock \cap Nfws, Nfws \ asked.nfws)
  BY <1>1, <1>2, HeededTaken DEF Asked
<1>5. LockDue(asked') = LockDue(asked)  OBVIOUS
<1> QED BY <1>3, <1>4, <1>5 DEF Asked

(* one is added.                                                             *)
LEMMA AskedAdded ==
    ASSUME Shape, Asked, asked' = asked, SameOrder(adapter, adapter'), SameLock(adapter, adapter'),
           queue' = queue \/ \E m : m.type \notin Waiting /\ queue' = Append(queue, m)
    PROVE  Asked'
<1>1. IsSeq(queue) BY DEF Shape, MessagesFit
<1>2. ASSUME NEW m, m.type \notin Waiting
      PROVE  /\ Heeded("asked", adapter.pending, Append(queue, m), LockNow(adapter), LockDue(asked))
             /\ adapter.nfwControl =>
                   Heeded("nfws", adapter.pending, Append(queue, m), adapter.lock \cap Nfws,
                          Nfws \ asked.nfws)
  BY <1>1, <1>2, WaitsToAsk, HeededAdded DEF Asked
<1>3. /\ LockNow(adapter') = LockNow(adapter) /\ adapter'.pending = adapter.pending
      /\ adapter'.lock = adapter.lock /\ adapter'.nfwControl = adapter.nfwControl
  BY SameTarget DEF SameOrder, SameLock
<1>4. LockDue(asked') = LockDue(asked)  OBVIOUS
<1> QED BY <1>2, <1>3, <1>4 DEF Asked

(* Who takes it has no more that waits: what it says holds, or is no matter. *)
LEMMA AskedDone ==
    ASSUME Shape, Asked, queue # <<>>, adapter.pending = <<>>, adapter'.pending = <<>>,
           queue' = Tail(queue), asked' = asked,
           \/ Carried("asked", Head(queue)) = {LockNow(adapter')}
           \/ Carried("asked", Head(queue)) = {} /\ LockNow(adapter') = LockNow(adapter),
           adapter'.nfwControl =>
              /\ adapter.nfwControl
              /\ \/ Carried("nfws", Head(queue)) = {adapter'.lock \cap Nfws}
                 \/ /\ Carried("nfws", Head(queue)) = {}
                    /\ adapter'.lock \cap Nfws = adapter.lock \cap Nfws
    PROVE  Asked'
<1>1. IsSeq(queue) BY DEF Shape, MessagesFit
<1>2. Heeded("asked", <<>>, queue, LockNow(adapter), LockDue(asked)) BY DEF Asked
<1>3. Heeded("asked", <<>>, Tail(queue), LockNow(adapter'), LockDue(asked))
  BY <1>1, <1>2, HeededTaken, HeededDone
<1>4. ASSUME adapter'.nfwControl
      PROVE  Heeded("nfws", <<>>, Tail(queue), adapter'.lock \cap Nfws, Nfws \ asked.nfws)
  <2>1. Heeded("nfws", <<>>, queue, adapter.lock \cap Nfws, Nfws \ asked.nfws)
    BY <1>4 DEF Asked
  <2> QED BY <1>1, <1>4, <2>1, HeededTaken, HeededDone
<1>5. LockDue(asked') = LockDue(asked)  OBVIOUS
<1> QED BY <1>3, <1>4, <1>5 DEF Asked

(* The lock and the users of the adapter stay; what waits goes through.      *)
LEMMA AskedMoved ==
    ASSUME Shape, Asked, asked' = asked, SameLock(adapter, adapter'),
           \A what \in {"asked", "nfws"} : \A now, v :
               Heeded(what, adapter.pending, queue, now, v)
               => Heeded(what, adapter'.pending, queue', now, v)
    PROVE  Asked'
<1>1. LockNow(adapter') = LockNow(adapter) /\ LockDue(asked') = LockDue(asked) BY SameTarget
<1>2. adapter'.lock = adapter.lock /\ adapter'.nfwControl = adapter.nfwControl BY DEF SameLock
<1>3. Heeded("asked", adapter'.pending, queue', LockNow(adapter'), LockDue(asked'))
  BY <1>1 DEF Asked
<1>4. adapter'.nfwControl =>
         Heeded("nfws", adapter'.pending, queue', adapter'.lock \cap Nfws, Nfws \ asked'.nfws)
  BY <1>2 DEF Asked
<1> QED BY <1>3, <1>4 DEF Asked

(* A call is heeded last.                                                    *)
LEMMA AskedCalls == ASSUME Shape, Asked, Calls PROVE Asked'
<1>1. IsSeq(queue) /\ adapter' = adapter BY DEF Shape, MessagesFit, Calls
<1>2. PICK m :
         /\ queue' = Append(queue, m)
         /\ \/ LockAsked(m) = {} /\ asked'.lock = asked.lock
            \/ LockAsked(m) = {asked'.lock \cup {"MO"}} /\ asked'.lock \subseteq Bits
         /\ \/ NfwsAsked(m) = {} /\ asked'.nfws = asked.nfws
            \/ NfwsAsked(m) = {Nfws \ asked'.nfws}
  BY DEF Calls
<1>3. Carried("asked", m) = LockAsked(m) /\ Carried("nfws", m) = NfwsAsked(m) BY DEF Carried
<1>4. asked'.lock \subseteq Bits => LockDue(asked') = asked'.lock \cup {"MO"}
  BY GnssConfigAssumption DEF LockDue, NoLock, Bits
<1>5. asked'.lock = asked.lock => LockDue(asked') = LockDue(asked) BY DEF LockDue
<1>6. Heeded("asked", adapter.pending, queue', LockNow(adapter), LockDue(asked'))
  <2>1. Heeded("asked", adapter.pending, queue, LockNow(adapter), LockDue(asked)) BY DEF Asked
  <2> QED BY <1>1, <1>2, <1>3, <1>4, <1>5, <2>1, HeededAdded
<1>7. ASSUME adapter.nfwControl
      PROVE  Heeded("nfws", adapter.pending, queue', adapter.lock \cap Nfws, Nfws \ asked'.nfws)
  <2>1. Heeded("nfws", adapter.pending, queue, adapter.lock \cap Nfws, Nfws \ asked.nfws)
    BY <1>7 DEF Asked
  <2> QED BY <1>1, <1>2, <1>3, <2>1, HeededAdded
<1>8. asked'.lock = NoLock \/ asked'.lock \subseteq Bits BY <1>2 DEF Asked
<1> QED BY <1>1, <1>6, <1>7, <1>8 DEF Asked

(* The engine comes up, and what waits comes back behind what asks for nothing. *)
LEMMA AskedUp == ASSUME Shape, Order, Asked, ~Reordered, HandlesUp PROVE Asked'
<1>1. /\ queue # <<>> /\ Head(queue).type = "up" /\ asked' = asked
      /\ SameLock(adapter, adapter')
      /\ IF adapter.locked THEN WaitsOn ELSE ComesBack
  BY DEF HandlesUp, Handles
<1>2. IsSeq(queue) /\ IsSeq(adapter.pending) BY DEF Shape, MessagesFit
<1>3. Carried("asked", Head(queue)) = {} /\ Carried("nfws", Head(queue)) = {}
  BY <1>1, CarriedByType
<1>4. IsSeq(Tail(queue)) /\ Tail(queue) \o <<>> = Tail(queue)
  BY <1>1, <1>2, Removed, NoneBehind
<1>5. adapter.locked \in BOOLEAN /\ adapter.known \in BOOLEAN BY DEF Shape
<1>6. CASE adapter.pending = <<>>
  <2>1. adapter'.pending = adapter.pending /\ queue' = Tail(queue)
    BY <1>1, <1>4, <1>6 DEF WaitsOn, ComesBack
  <2>2. ASSUME NEW what \in {"asked", "nfws"}, NEW now, NEW v,
               Heeded(what, adapter.pending, queue, now, v)
        PROVE  Heeded(what, adapter'.pending, queue', now, v)
    BY <1>1, <1>2, <1>3, <2>1, <2>2, HeededTaken
  <2> QED BY <1>1, <2>2, AskedMoved
<1>7. CASE adapter.pending # <<>>
  <2>1. adapter.locked = FALSE BY <1>5, <1>7, NothingWaits
  <2>2. UpLast(queue) BY <1>7 DEF Order, OrderOf
  <2>3. Silent("asked", Tail(queue)) /\ Silent("nfws", Tail(queue))
    BY <1>1, <1>2, <2>2, UpLastRemoved, SilentToAsk
  <2>4. adapter'.pending = <<>> /\ queue' = Tail(queue) \o adapter.pending
    BY <1>1, <2>1 DEF ComesBack
  <2>5. ASSUME NEW what \in {"asked", "nfws"}, NEW now, NEW v,
               Heeded(what, adapter.pending, queue, now, v)
        PROVE  Heeded(what, adapter'.pending, queue', now, v)
    <3>1. Carried(what, Head(queue)) = {} /\ Silent(what, Tail(queue)) BY <1>3, <2>3
    <3> QED BY <1>1, <1>2, <2>4, <2>5, <3>1, HeededBack
  <2> QED BY <1>1, <2>5, AskedMoved
<1> QED BY <1>6, <1>7

(* Every step keeps what was asked for in view.                              *)
LEMMA AskedKept ==
    ASSUME Shape, LockFits(adapter), Order, Asked, ~Reordered,
           \/ Calls
           \/ HandlesPlain \/ HandlesSwitch \/ HandlesNfw \/ HandlesUpdate \/ HandlesEarly
           \/ HandlesUp \/ HandlesEngine
           \/ Serves \/ IsOpened \/ Fails \/ Reports
    PROVE  Asked'
<1>1. IsSeq(queue) /\ IsSeq(adapter.pending) BY DEF Shape, MessagesFit
<1>2. adapter.known => adapter.pending = <<>> BY DEF Order, OrderOf
<1>3. CASE HandlesPlain
  <2>1. /\ queue # <<>> /\ Head(queue).type \notin {"update", "nfw"} /\ queue' = Tail(queue)
        /\ adapter'.pending = adapter.pending /\ asked' = asked /\ SameLock(adapter, adapter')
    BY <1>3 DEF HandlesPlain, Handles, SameOrder
  <2>2. /\ LockNow(adapter') = LockNow(adapter) /\ adapter'.nfwControl = adapter.nfwControl
        /\ adapter'.lock = adapter.lock
    BY <2>1, SameTarget DEF SameLock
  <2> QED BY <2>1, <2>2, AskedTaken
<1>4. CASE HandlesSwitch
  <2>1. /\ queue # <<>> /\ Head(queue).type \notin {"update", "nfw"} /\ queue' = Tail(queue)
        /\ adapter'.pending = adapter.pending /\ asked' = asked
        /\ adapter'.nfwControl = adapter.nfwControl
        /\ adapter.nfwControl \/ adapter'.lock = adapter.lock
    BY <1>4 DEF HandlesSwitch, HandlesLock, Handles, SameOrder
  <2>2. LockNow(adapter') = LockNow(adapter) BY <2>1 DEF LockNow
  <2>3. adapter.nfwControl => adapter'.lock \cap Nfws = adapter.lock \cap Nfws
    BY <1>4 DEF HandlesSwitch
  <2> QED BY <2>1, <2>2, <2>3, AskedTaken
<1>5. CASE HandlesNfw
  <2>1. Head(queue).type = "nfw" /\ adapter.known /\ adapter.pending = <<>>
    BY <1>2, <1>5 DEF HandlesNfw
  <2>2. /\ Carried("asked", Head(queue)) = {}
        /\ Carried("nfws", Head(queue)) = {Nfws \ Head(queue).arg}
    BY <2>1, CarriedByType DEF NfwsAsked
  <2>3. /\ queue # <<>> /\ queue' = Tail(queue) /\ asked' = asked
        /\ adapter'.pending = adapter.pending /\ adapter'.nfwControl = adapter.nfwControl
    BY <1>5 DEF HandlesNfw, HandlesLock, Handles, SameOrder, SameLock
  <2>4. LockNow(adapter') = LockNow(adapter) BY <1>5, <2>3 DEF HandlesNfw, LockNow, SameLock
  <2>5. adapter'.nfwControl => adapter'.lock \cap Nfws = Nfws \ Head(queue).arg
    BY <1>5, <2>3 DEF HandlesNfw
  <2> QED BY <2>1, <2>2, <2>3, <2>4, <2>5, AskedDone
<1>6. CASE HandlesUpdate
  <2>1. /\ Head(queue).type = "update" /\ adapter.pending = <<>> /\ adapter'.pending = <<>>
        /\ queue' = Tail(queue) /\ queue # <<>> /\ asked' = asked
    BY <1>2, <1>6 DEF HandlesUpdate, Handles, SameOrder
  <2>2. Carried("asked", Head(queue)) = LockAsked(Head(queue)) /\ Carried("nfws", Head(queue)) = {}
    BY <2>1, CarriedByType DEF Carried
  <2>3. CASE LockAsked(Head(queue)) = {} /\ SameLock(adapter, adapter')
    <3>1. /\ LockNow(adapter') = LockNow(adapter) /\ adapter'.nfwControl = adapter.nfwControl
          /\ adapter'.lock = adapter.lock
      BY <2>3, SameTarget DEF SameLock
    <3> QED BY <2>1, <2>2, <2>3, <3>1, AskedDone
  <2>4. CASE LockAsked(Head(queue)) = {adapter'.lock} /\ adapter'.nfwControl = FALSE
    <3>1. LockNow(adapter') = adapter'.lock BY <2>4 DEF LockNow
    <3> QED BY <2>1, <2>2, <2>4, <3>1, AskedDone
  <2> QED BY <1>6, <2>3, <2>4 DEF HandlesUpdate
<1>7. CASE HandlesEarly
  <2>1. /\ queue # <<>> /\ queue' = Tail(queue) /\ asked' = asked /\ SameLock(adapter, adapter')
        /\ adapter'.pending = Append(adapter.pending, Head(queue))
    BY <1>7 DEF HandlesEarly, Handles
  <2>2. ASSUME NEW what \in {"asked", "nfws"}, NEW now, NEW v,
               Heeded(what, adapter.pending, queue, now, v)
        PROVE  Heeded(what, adapter'.pending, queue', now, v)
    <3>1. Carried(what, Head(queue)) = {} \/ \E x : Carried(what, Head(queue)) = {x}
      BY OneOrNone
    <3> QED BY <1>1, <2>1, <2>2, <3>1, HeededEarly
  <2> QED BY <2>1, <2>2, AskedMoved
<1>8. CASE HandlesEngine
  <2>1. /\ queue # <<>> /\ Head(queue).type = "lock" /\ asked' = asked
        /\ SameLock(adapter, adapter')
        /\ WaitsOn \/ ComesBack
    BY <1>8 DEF HandlesEngine, Handles
  <2>2. adapter.pending = <<>> BY <2>1, NothingWaits
  <2>3. Tail(queue) \o <<>> = Tail(queue) BY <1>1, <2>1, Removed, NoneBehind
  <2>4. queue' = Tail(queue) /\ adapter'.pending = adapter.pending
    BY <2>1, <2>2, <2>3 DEF WaitsOn, ComesBack
  <2>5. /\ LockNow(adapter') = LockNow(adapter) /\ adapter'.nfwControl = adapter.nfwControl
        /\ adapter'.lock = adapter.lock
    BY <2>1, SameTarget DEF SameLock
  <2>6. Head(queue).type \notin {"update", "nfw"} BY <2>1
  <2> QED BY <2>1, <2>4, <2>5, <2>6, AskedTaken
<1>9. CASE Serves \/ IsOpened \/ Fails \/ Reports
  <2>1. SameOrder(adapter, adapter) /\ SameLock(adapter, adapter) BY DEF SameOrder, SameLock
  <2>2. SameOrder(adapter, adapter') /\ SameLock(adapter, adapter') /\ asked' = asked
    BY <1>9, <2>1 DEF Serves, IsOpened, Fails, Reports
  <2>3. queue' = queue \/ \E m : m.type \in {"response", "up", "lock"} /\ queue' = Append(queue, m)
    BY <1>9 DEF Serves, IsOpened, Fails, Reports
  <2>4. queue' = queue \/ \E m : m.type \notin Waiting /\ queue' = Append(queue, m)
    BY <2>3 DEF Waiting
  <2> QED BY <2>2, <2>4, AskedAdded
<1> QED BY <1>3, <1>4, <1>5, <1>6, <1>7, <1>8, <1>9, AskedCalls, AskedUp

-----------------------------------------------------------------------------
(* At the start the modem is down, and all have their locks.                 *)
LEMMA InitLock == Init => LockInv
<1> SUFFICES ASSUME Init PROVE LockInv
  OBVIOUS
<1> DEFINE r == [op |-> "open"]
<1>1. /\ queue = <<>> /\ commands = <<>> /\ requests = <<r>>
      /\ adapter.pending = <<>> /\ adapter.known = FALSE
      /\ adapter.locked = ("locks" \in world)
      /\ adapter.lock = Bits /\ adapter.nfwControl = TRUE /\ adapter.afw = 0
      /\ adapter.xtraLock = NoLock /\ DOMAIN adapter = AdapterFields
      /\ asked.lock = NoLock /\ asked.nfws = {} /\ DOMAIN asked = AskedFields
      /\ modem.up = FALSE /\ DOMAIN modem = ModemFields
  BY DEF Init, Fresh, AdapterFields, AskedFields, ModemFields
<1>2. r.op = "open"  OBVIOUS
<1> HIDE DEF r
<1>3. IsSeq(requests) /\ DOMAIN requests = {1} /\ requests[1] = r BY <1>1, SingleOne
<1>4. IsSeq(<<>>) /\ DOMAIN <<>> = {} /\ \A what : Silent(what, <<>>)
  BY NoElements, NothingSaid
<1>5. MessagesFit(queue) /\ MessagesFit(adapter.pending) BY <1>1, <1>4 DEF MessagesFit
<1>6. {adapter.known, adapter.locked, adapter.nfwControl, modem.up} \subseteq BOOLEAN
  <2>1. adapter.locked \in BOOLEAN
    <3>1. CASE "locks" \in world BY <1>1, <3>1
    <3>2. CASE "locks" \notin world BY <1>1, <3>2
    <3> QED BY <3>1, <3>2
  <2>2. adapter.known \in BOOLEAN /\ adapter.nfwControl \in BOOLEAN /\ modem.up \in BOOLEAN
    BY <1>1
  <2> QED BY <2>1, <2>2
<1>7. Shape BY <1>1, <1>3, <1>4, <1>5, <1>6 DEF Shape
<1>8. LockFits(adapter) BY <1>1 DEF LockFits, Bits
<1>9. ~Silent("open", requests) BY <1>2, <1>3, SilentOpen
<1>10. Opens BY <1>1, <1>3, <1>9 DEF Opens
<1>11. ModemLock BY <1>1 DEF ModemLock
<1>12. XtraLock BY <1>1, <1>4 DEF XtraLock, XtraFits
<1>13. Order BY <1>1, <1>4, <1>9 DEF Order, OrderOf, Coming, UpLast
<1>14. Asked
  <2>1. \A what, v : Heeded(what, <<>>, <<>>, v, v) BY NothingSaid DEF Heeded
  <2>2. LockNow(adapter) = LockDue(asked) BY <1>1 DEF LockNow, LockDue
  <2>3. adapter.lock \cap Nfws = Nfws \ asked.nfws BY <1>1 DEF Bits
  <2> QED BY <1>1, <2>1, <2>2, <2>3 DEF Asked
<1> QED BY <1>7, <1>8, <1>10, <1>11, <1>12, <1>13, <1>14 DEF LockInv

(* The invariant holds after every step,                                     *)
LEMMA StepLock == LockInv /\ [Next]_vars => LockInv'
<1> SUFFICES ASSUME LockInv, [Next]_vars PROVE LockInv'
  OBVIOUS
<1>1. /\ Shape /\ LockFits(adapter) /\ Opens /\ ModemLock /\ XtraLock
      /\ ~Reordered => Order /\ Asked
  BY DEF LockInv
<1>2. CASE Next
  <2>1. \/ Calls
        \/ HandlesPlain \/ HandlesSwitch \/ HandlesNfw \/ HandlesUpdate \/ HandlesEarly
        \/ HandlesUp \/ HandlesEngine
        \/ Serves \/ IsOpened \/ Fails \/ Reports
    BY <1>1, <1>2, EveryStep
  <2>2. world' = world
    <3>1. CASE HandlesPlain \/ HandlesSwitch \/ HandlesNfw \/ HandlesUpdate \/ HandlesEarly
               \/ HandlesUp \/ HandlesEngine
      BY <3>1 DEF HandlesPlain, HandlesSwitch, HandlesLock, HandlesNfw, HandlesUpdate,
        HandlesEarly, HandlesUp, HandlesEngine, Handles
    <3>2. CASE Calls \/ Serves \/ IsOpened \/ Fails \/ Reports
      BY <3>2 DEF Calls, Serves, IsOpened, Fails, Reports
    <3> QED BY <2>1, <3>1, <3>2
  <2>3. Reordered' = Reordered BY <2>2 DEF Reordered, Exposed
  <2>4. Shape' BY <1>1, <2>1, ShapeKept
  <2>5. LockFits(adapter') BY <1>1, <2>1, LockFitsKept
  <2>6. Opens' BY <1>1, <2>1, OpensKept
  <2>7. ModemLock' BY <1>1, <2>1, ModemLockKept
  <2>8. XtraLock' BY <1>1, <2>1, XtraLockKept
  <2>9. ASSUME ~Reordered PROVE Order' /\ Asked' BY <1>1, <2>1, <2>9, OrderKept, AskedKept
  <2> QED BY <2>3, <2>4, <2>5, <2>6, <2>7, <2>8, <2>9 DEF LockInv
<1>3. CASE UNCHANGED vars
  BY <1>1, <1>3 DEF vars, LockInv, Shape, Opens, ModemLock, XtraLock, Reordered, Exposed, Order,
    Asked
<1> QED BY <1>2, <1>3

(* and where all is done it is the lock that the users are due.              *)
LEMMA AtRestLock == LockInv => LockServed
<1> SUFFICES ASSUME LockInv, AtRest, ~Exposed({"refuses"}), ~Reordered
             PROVE  /\ modem.lock =
                          IF asked.lock # NoLock
                          THEN IF adapter.afw # 0 THEN {} ELSE asked.lock \cup {"MO"}
                          ELSE (Nfws \ asked.nfws) \cup (IF adapter.afw # 0 THEN {} ELSE {"MO"})
                    /\ adapter.xtraLock \in
                          {NoLock, IF adapter.afw = 0 \/ adapter.locked THEN {"MO"} ELSE {}}
  BY DEF LockServed
<1>1. queue = <<>> /\ requests = <<>> /\ adapter.pending = <<>> BY DEF AtRest, Quiet
<1>2. /\ LockFits(adapter) /\ Opens /\ ModemLock /\ XtraLock /\ Asked /\ Shape BY DEF LockInv
<1>3. /\ \A what : Silent(what, <<>>)
      /\ \A what, v : ~EndsWith(what, <<>>, v)
      /\ \A what, now, v : Brings(what, <<>>, now, v) <=> now = v
  BY NothingSaid
<1>4. XtraFits(adapter) BY <1>1, <1>2, <1>3 DEF XtraLock
<1>5. modem.up BY <1>1, <1>2, <1>3 DEF Opens
<1>6. modem.lock = LockAtRestart(adapter) BY <1>1, <1>2, <1>3, <1>5 DEF ModemLock
<1>7. \A what, now, v : Heeded(what, <<>>, <<>>, now, v) => now = v BY <1>3 DEF Heeded
<1>8. LockNow(adapter) = LockDue(asked) BY <1>1, <1>2, <1>7 DEF Asked
<1>9. adapter.nfwControl => adapter.lock \cap Nfws = Nfws \ asked.nfws
  BY <1>1, <1>2, <1>7 DEF Asked
<1>10. /\ adapter.lock \subseteq Bits
       /\ "MO" \in adapter.lock <=> ~adapter.nfwControl \/ adapter.afw = 0
  BY <1>2 DEF LockFits
<1>11. NoLock \notin SUBSET Bits BY GnssConfigAssumption DEF NoLock, Bits
<1>12. modem.lock = IF asked.lock # NoLock
                    THEN IF adapter.afw # 0 THEN {} ELSE asked.lock \cup {"MO"}
                    ELSE (Nfws \ asked.nfws) \cup (IF adapter.afw # 0 THEN {} ELSE {"MO"})
  <2>1. CASE asked.lock = NoLock
    <3>1. adapter.nfwControl BY <1>8, <1>10, <1>11, <2>1 DEF LockNow, LockDue
    <3>2. modem.lock = adapter.lock /\ adapter.lock \cap Nfws = Nfws \ asked.nfws
      BY <1>6, <1>9, <3>1 DEF LockAtRestart
    <3>3. "MO" \in adapter.lock <=> adapter.afw = 0 BY <1>10, <3>1
    <3>4. adapter.lock = (adapter.lock \cap Nfws) \cup (IF adapter.afw # 0 THEN {} ELSE {"MO"})
      BY <1>10, <3>3 DEF Bits
    <3> QED BY <2>1, <3>2, <3>4
  <2>2. CASE asked.lock # NoLock
    <3>1. asked.lock \subseteq Bits BY <1>2, <2>2 DEF Asked
    <3>2. LockDue(asked) = asked.lock \cup {"MO"} /\ LockDue(asked) \in SUBSET Bits
      BY <2>2, <3>1 DEF LockDue, Bits
    <3>3. ~adapter.nfwControl /\ adapter.lock = asked.lock \cup {"MO"}
      BY <1>8, <1>11, <3>2 DEF LockNow
    <3> QED BY <1>6, <2>2, <3>3 DEF LockAtRestart
  <2> QED BY <2>1, <2>2
<1> QED BY <1>4, <1>12 DEF XtraFits

(* When all is done the modem has the lock that the users of positions are   *)
(* due and XTRA knows whether positions are on, whatever was called and in   *)
(* whatever order, however often the modem crashed and the engine reported   *)
(* its lock: enableCommand, disableCommand, nfwControlCommand, the lock of   *)
(* gnssUpdateConfigCommand, setConfig and what waited for the engine.        *)
THEOREM LockIsServed == Spec => []LockServed
<1>1. Init => LockInv BY InitLock
<1>2. LockInv /\ [Next]_vars => LockInv' BY StepLock
<1>3. LockInv => LockServed BY AtRestLock
<1> QED BY <1>1, <1>2, <1>3, PTL DEF Spec

-----------------------------------------------------------------------------
(* Satellites have the same names everywhere: SvBlacklist, for every width   *)
(* of the masks and every length of the first range of SBAS.                 *)

(* The bits of a mask, and a mask of one bit is not a whole constellation.   *)
LEMMA OneBit ==
    ASSUME NEW b \in AllBits
    PROVE  {b} # AllBits /\ b \in Int /\ b % Width = b
<1>1. Width \in Nat /\ Width > 1 BY SvBlacklistAssumption
<1>2. 0 \in AllBits /\ 1 \in AllBits BY <1>1 DEF AllBits
<1>3. b \in Int /\ 0 <= b /\ b < Width BY <1>1 DEF AllBits
<1>4. b % Width = b BY <1>1, <1>3
<1> QED BY <1>2, <1>3, <1>4

(* Of a satellite that is not of SBAS the bit is its distance from the first *)
(* one of its constellation: convertToGnssSvIdConfig.                        *)
LEMMA BitOfPlain ==
    ASSUME NEW t \in SvTypes, NEW b \in AllBits
    PROVE  BitsOf([type |-> t, id |-> First[t] + b]) = {b}
<1>1. t # "sbas" /\ First[t] \in Nat \ {0} BY DEF SvTypes, First
<1>2. Width \in Nat /\ b \in 0..(Width - 1) BY SvBlacklistAssumption DEF AllBits
<1>3. First[t] + b # 0 /\ First[t] + b \in First[t]..(First[t] + Width - 1) BY <1>1, <1>2
<1> DEFINE sv == [type |-> t, id |-> First[t] + b]
<1>4. sv.type = t /\ sv.id = First[t] + b  OBVIOUS
<1>5. (sv.id - First[t] + 0) % Width = b
  <2>1. sv.id - First[t] + 0 = b BY <1>1, <1>2, <1>4
  <2> QED BY <2>1, OneBit
<1>6. BitsOf(sv) = {(sv.id - First[t] + 0) % Width}
  <2> HIDE DEF sv
  <2> QED BY <1>1, <1>3, <1>4 DEF BitsOf
<1> QED BY <1>5, <1>6

(* So it is in the first range of SBAS.                                      *)
LEMMA BitOfSbas ==
    ASSUME NEW b \in 0..(SbasLength - 1)
    PROVE  BitsOf([type |-> "sbas", id |-> SbasFirst + b]) = {b}
<1> DEFINE sv == [type |-> "sbas", id |-> SbasFirst + b]
<1>1. sv.type = "sbas" /\ sv.id = SbasFirst + b  OBVIOUS
<1>2. b \in AllBits BY SvBlacklistAssumption DEF AllBits
<1>3. /\ ~(sv.id >= SbasFirst2) /\ sv.id # 0
      /\ sv.id \in SbasFirst..(SbasFirst + SbasLength - 1)
    BY <1>1, SvBlacklistAssumption DEF SbasFirst, SbasFirst2
<1>4. (sv.id - SbasFirst + 0) % Width = b
  <2>1. sv.id - SbasFirst + 0 = b BY <1>1 DEF SbasFirst
  <2> QED BY <2>1, <1>2, OneBit
<1>5. BitsOf(sv) = {(sv.id - SbasFirst + 0) % Width}
  <2> HIDE DEF sv
  <2> QED BY <1>1, <1>3 DEF BitsOf
<1> QED BY <1>4, <1>5

(* In the second range the bits follow those of the first.                   *)
LEMMA BitOfSbas2 ==
    ASSUME NEW b \in 0..(Width - SbasLength - 1)
    PROVE  BitsOf([type |-> "sbas", id |-> SbasFirst2 + b]) = {b + SbasLength}
<1> DEFINE sv == [type |-> "sbas", id |-> SbasFirst2 + b]
<1>1. sv.type = "sbas" /\ sv.id = SbasFirst2 + b  OBVIOUS
<1>2. b + SbasLength \in AllBits BY SvBlacklistAssumption DEF AllBits
<1>3. /\ sv.id >= SbasFirst2 /\ sv.id # 0
      /\ sv.id \in SbasFirst2..(SbasFirst2 + Width - 1)
    BY <1>1, SvBlacklistAssumption DEF SbasFirst2
<1>4. (sv.id - SbasFirst2 + SbasLength) % Width = b + SbasLength
  <2>1. sv.id - SbasFirst2 + SbasLength = b + SbasLength
    BY <1>1, SvBlacklistAssumption DEF SbasFirst2
  <2> QED BY <2>1, <1>2, OneBit
<1>5. BitsOf(sv) = {(sv.id - SbasFirst2 + SbasLength) % Width}
  <2> HIDE DEF sv
  <2> QED BY <1>1, <1>3 DEF BitsOf
<1> QED BY <1>4, <1>5

(* A list of one satellite is a mask with its bits, and no others.           *)
LEMMA MaskOfOne ==
    ASSUME NEW sv, sv.type \in Blacklistable
    PROVE  LET mask == convertToGnssSvIdConfig({sv}) IN
           \A t \in Blacklistable : mask[t] = IF t = sv.type THEN BitsOf(sv) ELSE {}
<1> SUFFICES ASSUME NEW t \in Blacklistable
             PROVE  convertToGnssSvIdConfig({sv})[t] = IF t = sv.type THEN BitsOf(sv) ELSE {}
    OBVIOUS
<1>1. convertToGnssSvIdConfig({sv})[t]
        = UNION {BitsOf(source) : source \in {s \in {sv} : s.type = t}}
    BY DEF convertToGnssSvIdConfig
<1>2. CASE t = sv.type
  <2>1. {s \in {sv} : s.type = t} = {sv} BY <1>2
  <2>2. {BitsOf(source) : source \in {sv}} = {BitsOf(sv)}  OBVIOUS
  <2> QED BY <1>1, <1>2, <2>1, <2>2
<1>3. CASE t # sv.type
  <2>1. {s \in {sv} : s.type = t} = {} BY <1>3
  <2> QED BY <1>1, <1>3, <2>1
<1> QED BY <1>2, <1>3

LEMMA NothingListed ==
    ASSUME NEW first \in Int, NEW t
    PROVE  convertGnssSvIdMaskToList({}, first, t) = {}
<1>1. {} # AllBits BY SvBlacklistAssumption DEF AllBits
<1> QED BY <1>1 DEF convertGnssSvIdMaskToList

LEMMA OneListed ==
    ASSUME NEW b \in AllBits, NEW first \in Int, NEW t
    PROVE  convertGnssSvIdMaskToList({b}, first, t) = {[type |-> t, id |-> first + b]}
BY OneBit DEF convertGnssSvIdMaskToList

LEMMA PlainListed ==
    ASSUME NEW t \in SvTypes, NEW b \in AllBits
    PROVE  LET sv == [type |-> t, id |-> First[t] + b] IN
           convertFromGnssSvIdConfig(convertToGnssSvIdConfig({sv})) = {sv}
<1> DEFINE sv == [type |-> t, id |-> First[t] + b]
           mask == convertToGnssSvIdConfig({sv})
<1>1. sv.type = t /\ t # "sbas" /\ t \in Blacklistable BY DEF SvTypes, First, Blacklistable
<1>2. BitsOf(sv) = {b} BY BitOfPlain
<1>3. \A u \in Blacklistable : mask[u] = IF u = t THEN {b} ELSE {}
  <2> HIDE DEF sv
  <2> QED BY <1>1, <1>2, MaskOfOne
<1>4. mask.sbas = {} BY <1>1, <1>3 DEF Blacklistable
<1>5. \A u \in SvTypes : First[u] \in Int BY DEF SvTypes, First
<1>6. \A u \in SvTypes :
        convertGnssSvIdMaskToList(mask[u], First[u], u) = IF u = t THEN {sv} ELSE {}
  <2> HIDE DEF mask
  <2> TAKE u \in SvTypes
  <2>1. CASE u = t BY <2>1, <1>3, <1>5, OneListed DEF Blacklistable
  <2>2. CASE u # t BY <2>2, <1>3, <1>5, NothingListed DEF Blacklistable
  <2> QED BY <2>1, <2>2
<1>7. UNION {convertGnssSvIdMaskToList(mask[u], First[u], u) : u \in SvTypes} = {sv}
  <2> HIDE DEF mask, sv
  <2> QED BY <1>6
<1>8. /\ convertGnssSvIdMaskToList({x \in mask.sbas : x < SbasLength}, SbasFirst, "sbas") = {}
      /\ convertGnssSvIdMaskToList({x - SbasLength : x \in {c \in mask.sbas : c >= SbasLength}},
                                   SbasFirst2, "sbas") = {}
  <2> HIDE DEF mask
  <2>1. /\ {x \in mask.sbas : x < SbasLength} = {}
        /\ {x - SbasLength : x \in {c \in mask.sbas : c >= SbasLength}} = {}
    BY <1>4
  <2> QED BY <2>1, NothingListed DEF SbasFirst, SbasFirst2
<1> HIDE DEF mask, sv
<1> QED BY <1>7, <1>8 DEF convertFromGnssSvIdConfig, mask, sv

(* Taking the offset of the second range from its bits.                      *)
LEMMA ShiftedBack ==
    ASSUME NEW b \in 0..(Width - SbasLength - 1), NEW bits, bits = {b + SbasLength}
    PROVE  {x - SbasLength : x \in bits} = {b}
<1> DEFINE shifted == {x - SbasLength : x \in bits}
<1>1. b \in Int /\ SbasLength \in Int /\ b + SbasLength - SbasLength = b
    BY SvBlacklistAssumption
<1>2. b \in shifted
  <2>1. \E x \in bits : x - SbasLength = b BY <1>1
  <2> QED BY <2>1, Zenon
<1>3. ASSUME NEW y \in shifted
      PROVE  y = b
  <2>1. PICK x \in bits : y = x - SbasLength BY <1>3, Zenon
  <2>2. x = b + SbasLength  OBVIOUS
  <2> QED BY <2>1, <2>2, <1>1
<1> HIDE DEF shifted
<1>4. shifted = {b} BY <1>2, <1>3
<1> QED BY <1>4 DEF shifted

(* Of a mask with bits of SBAS only, nothing else is listed.                 *)
LEMMA SbasOnly ==
    ASSUME NEW mask, \A u \in SvTypes : mask[u] = {}
    PROVE  UNION {convertGnssSvIdMaskToList(mask[u], First[u], u) : u \in SvTypes} = {}
<1>1. \A u \in SvTypes : First[u] \in Int BY DEF SvTypes, First
<1>2. \A u \in SvTypes : convertGnssSvIdMaskToList(mask[u], First[u], u) = {}
    BY <1>1, NothingListed
<1> QED BY <1>2

LEMMA SbasListed ==
    ASSUME NEW b \in 0..(SbasLength - 1)
    PROVE  LET sv == [type |-> "sbas", id |-> SbasFirst + b] IN
           convertFromGnssSvIdConfig(convertToGnssSvIdConfig({sv})) = {sv}
<1> DEFINE sv == [type |-> "sbas", id |-> SbasFirst + b]
           mask == convertToGnssSvIdConfig({sv})
<1>1. sv.type = "sbas" /\ "sbas" \in Blacklistable /\ "sbas" \notin SvTypes
    BY DEF SvTypes, First, Blacklistable
<1>2. b \in AllBits BY SvBlacklistAssumption DEF AllBits
<1>3. \A u \in Blacklistable : mask[u] = IF u = "sbas" THEN {b} ELSE {}
  <2>1. BitsOf(sv) = {b} BY BitOfSbas
  <2> HIDE DEF sv
  <2> QED BY <1>1, <2>1, MaskOfOne
<1>4. mask.sbas = {b} /\ \A u \in SvTypes : mask[u] = {} BY <1>1, <1>3 DEF Blacklistable
<1>5. UNION {convertGnssSvIdMaskToList(mask[u], First[u], u) : u \in SvTypes} = {}
  <2> HIDE DEF mask
  <2> QED BY <1>4, SbasOnly
<1>6. convertGnssSvIdMaskToList({x \in mask.sbas : x < SbasLength}, SbasFirst, "sbas") = {sv}
  <2> HIDE DEF mask
  <2>1. {x \in mask.sbas : x < SbasLength} = {b} BY <1>4, SvBlacklistAssumption
  <2> QED BY <2>1, <1>2, OneListed DEF SbasFirst
<1>7. convertGnssSvIdMaskToList({x - SbasLength : x \in {c \in mask.sbas : c >= SbasLength}},
                                SbasFirst2, "sbas") = {}
  <2> HIDE DEF mask
  <2>1. {c \in mask.sbas : c >= SbasLength} = {} BY <1>4, SvBlacklistAssumption
  <2>2. {x - SbasLength : x \in {c \in mask.sbas : c >= SbasLength}} = {} BY <2>1
  <2> QED BY <2>2, NothingListed DEF SbasFirst2
<1>8. convertFromGnssSvIdConfig(mask) = {sv}
  <2> HIDE DEF mask, sv
  <2> QED BY <1>5, <1>6, <1>7 DEF convertFromGnssSvIdConfig
<1> QED BY <1>8

LEMMA Sbas2Listed ==
    ASSUME NEW b \in 0..(Width - SbasLength - 1)
    PROVE  LET sv == [type |-> "sbas", id |-> SbasFirst2 + b] IN
           convertFromGnssSvIdConfig(convertToGnssSvIdConfig({sv})) = {sv}
<1> DEFINE sv == [type |-> "sbas", id |-> SbasFirst2 + b]
           mask == convertToGnssSvIdConfig({sv})
<1>1. sv.type = "sbas" /\ "sbas" \in Blacklistable /\ "sbas" \notin SvTypes
    BY DEF SvTypes, First, Blacklistable
<1>2. b \in AllBits BY SvBlacklistAssumption DEF AllBits
<1>3. \A u \in Blacklistable : mask[u] = IF u = "sbas" THEN {b + SbasLength} ELSE {}
  <2>1. BitsOf(sv) = {b + SbasLength} BY BitOfSbas2
  <2> HIDE DEF sv
  <2> QED BY <1>1, <2>1, MaskOfOne
<1>4. mask.sbas = {b + SbasLength} /\ \A u \in SvTypes : mask[u] = {}
    BY <1>1, <1>3 DEF Blacklistable
<1>5. UNION {convertGnssSvIdMaskToList(mask[u], First[u], u) : u \in SvTypes} = {}
  <2> HIDE DEF mask
  <2> QED BY <1>4, SbasOnly
<1>6. convertGnssSvIdMaskToList({x \in mask.sbas : x < SbasLength}, SbasFirst, "sbas") = {}
  <2> HIDE DEF mask
  <2>1. {x \in mask.sbas : x < SbasLength} = {} BY <1>4, SvBlacklistAssumption
  <2> QED BY <2>1, NothingListed DEF SbasFirst
<1>7. convertGnssSvIdMaskToList({x - SbasLength : x \in {c \in mask.sbas : c >= SbasLength}},
                                SbasFirst2, "sbas") = {sv}
  <2> HIDE DEF mask
  <2>1. {c \in mask.sbas : c >= SbasLength} = {b + SbasLength} BY <1>4, SvBlacklistAssumption
  <2>2. {x - SbasLength : x \in {c \in mask.sbas : c >= SbasLength}} = {b} BY <2>1, ShiftedBack
  <2> QED BY <2>2, <1>2, OneListed DEF SbasFirst2
<1>8. convertFromGnssSvIdConfig(mask) = {sv}
  <2> HIDE DEF mask, sv
  <2> QED BY <1>5, <1>6, <1>7 DEF convertFromGnssSvIdConfig
<1> QED BY <1>8

(* What the framework is told of a satellite and blacklists is that          *)
(* satellite: convertGnssSvid and setBlocklistedSource.                      *)
LEMMA FrameworkAgrees ==
    ASSUME NEW t \in SvTypes, NEW b \in AllBits
    PROVE  LET sv == [type |-> t, id |-> First[t] + b] IN
           BitsOf(FromFramework(ToFramework(sv))) = IF t = "qzss" THEN {} ELSE BitsOf(sv)
<1> DEFINE sv == [type |-> t, id |-> First[t] + b]
<1>1. b \in Nat /\ b < Width /\ Width \in Nat BY SvBlacklistAssumption DEF AllBits
<1>2. First[t] \in Nat \ {0} /\ t # "sbas" BY DEF SvTypes, First
<1>3. CASE t # "qzss"
  <2> DEFINE told == [type |-> t, id |-> b + 1]
  <2>1. ToFramework(sv) = told
    <3>1. sv.type \in SvTypes \ {"qzss"} /\ sv.id - First[sv.type] + 1 = b + 1
      BY <1>1, <1>2, <1>3
    <3>2. ToFramework(sv) = [sv EXCEPT !.id = b + 1]
      <4> HIDE DEF sv
      <4> QED BY <3>1 DEF ToFramework
    <3> QED BY <3>2
  <2>2. told.type \in SvTypes /\ told.id > 0 /\ told.id + First[told.type] - 1 = First[t] + b
    BY <1>1, <1>2
  <2>3. FromFramework(told) = [told EXCEPT !.id = First[t] + b]
    <3> HIDE DEF told
    <3> QED BY <2>2 DEF FromFramework
  <2> QED BY <1>3, <2>1, <2>3
<1>4. CASE t = "qzss"
  <2> DEFINE other == [type |-> "qzss", id |-> 385 + b]
  <2>1. First[t] = 193 /\ sv.type = t /\ sv.id = 193 + b BY <1>4 DEF First
  <2>2. ToFramework(sv) = sv BY <1>4 DEF ToFramework
  <2>3. FromFramework(sv) = other
    <3>1. sv.type \in SvTypes /\ sv.id > 0 /\ sv.id + First[sv.type] - 1 = 385 + b
      BY <1>1, <2>1
    <3>2. FromFramework(sv) = [sv EXCEPT !.id = 385 + b]
      <4> HIDE DEF sv
      <4> QED BY <3>1 DEF FromFramework
    <3> QED BY <1>4, <3>2
  <2>4. BitsOf(other) = {}
    <3>1. other.type = "qzss" /\ other.id # 0 /\ other.id \notin 193..(193 + Width - 1)
      BY <1>1, SvBlacklistAssumption
    <3> HIDE DEF other
    <3> QED BY <3>1, <1>4, <2>1 DEF BitsOf
  <2> QED BY <1>4, <2>2, <2>3, <2>4
<1> QED BY <1>3, <1>4

(* The conversions between the framework's, the adapter's and the modem's    *)
(* names of satellites lose none and confuse none, except those of QZSS.     *)
THEOREM NamesKept == SatellitesNamed
<1>1. ASSUME NEW sv \in Satellites
      PROVE  convertFromGnssSvIdConfig(convertToGnssSvIdConfig({sv})) = {sv}
  <2>1. CASE \E t \in SvTypes, b \in AllBits : sv = [type |-> t, id |-> First[t] + b]
    BY <2>1, PlainListed
  <2>2. CASE \E b \in 0..(SbasLength - 1) : sv = [type |-> "sbas", id |-> SbasFirst + b]
    BY <2>2, SbasListed
  <2>3. CASE \E b \in 0..(Width - SbasLength - 1) : sv = [type |-> "sbas", id |-> SbasFirst2 + b]
    BY <2>3, Sbas2Listed
  <2> QED BY <2>1, <2>2, <2>3 DEF Satellites
<1>2. ASSUME NEW sv \in Reported
      PROVE  BitsOf(FromFramework(ToFramework(sv))) = IF sv.type = "qzss" THEN {} ELSE BitsOf(sv)
  <2>1. PICK t \in SvTypes, b \in AllBits : sv = [type |-> t, id |-> First[t] + b]
    BY DEF Reported, Satellites
  <2>2. sv.type = t BY <2>1
  <2> QED BY <2>1, <2>2, FrameworkAgrees
<1> QED BY <1>1, <1>2 DEF SatellitesNamed

-----------------------------------------------------------------------------
(* Every call is answered: what a call is, what the messages and requests    *)
(* that come of it know of it, and where its answer is under way             *)

Kinds ==
    {"update", "get", "enable", "disable", "nfw", "types", "svs", "band", "mode", "week"}

(* How many ids a call has: as many as settings, or one, or none             *)
Ids(c) ==
    IF c.kind = "update" THEN Cardinality(c.arg.flags)
    ELSE IF c.kind = "get" THEN Cardinality(c.arg)
    ELSE IF c.kind \in {"nfw", "types"} THEN 0
    ELSE 1

Readable == {"robust", "week", "elevation"}

(* The calls of which an answer may be wrong, or missing                     *)
Astray(w, c) ==
    /\ c.kind = "update"
    /\ \/ c.arg.server # "supl"
       \/ "fixed" \in w
       \/ InOrder(SendOrder, c.arg.flags) # InOrder(Flags, c.arg.flags)

Excused(c) ==
    \/ c.kind = "get" /\ Cardinality(Readable \cap c.arg) > 1
    \/ c.kind = "band" /\ c.arg = 0

IsMask(mask) == mask \in [Blacklistable -> SUBSET AllBits]
IsTypes(types) == types \in [set : BOOLEAN, on : SUBSET SvTypes, off : SUBSET SvTypes]

IsCommand(w, c) ==
    /\ DOMAIN c = {"kind", "arg", "told", "wrong"}
    /\ c.kind \in Kinds
    /\ c.told = [i \in 1..Ids(c) |-> c.told[i]]
    /\ c.wrong => Astray(w, c)
    /\ c.kind = "update" => c.arg \in Updates
    /\ c.kind = "get" => c.arg \in Gets
    /\ c.kind = "types" => c.arg.source \in {"api", "xtra"} /\ IsTypes(c.arg.types)
    /\ c.kind = "svs" => IsTypes(c.arg.types) /\ IsMask(c.arg.mask)
    /\ c.kind = "week" => c.arg \in Nat

(* A message and the call it comes of                                        *)
MessageOf(w, cs, m) ==
    /\ m.type \in Kinds \cup {"response", "up", "lock"}
    /\ m.type \in {"up", "lock"} => "n" \notin DOMAIN m
    /\ m.type \notin {"up", "lock"} => "n" \in DOMAIN m /\ m.n \in DOMAIN cs
    /\ m.type \in Kinds =>
          "id" \notin DOMAIN m /\ cs[m.n].kind = m.type /\ cs[m.n].arg = m.arg
    /\ m.type = "response" =>
          /\ "id" \in DOMAIN m
          /\ m.id = 0 => /\ DOMAIN cs[m.n].told \subseteq DOMAIN m.errs
                         /\ m.errs = m.facts \/ Astray(w, cs[m.n])

(* What a request has for the modem                                          *)
RequestFits(r) ==
    /\ r.op \in {"lock", "update"} => r.lock \subseteq Bits
    /\ r.op = "update" => \A i \in r.flags \cap Engine : r.conf[i] \in Nat
    /\ r.op = "blacklist" => IsMask(r.mask)
    /\ r.op = "control" => r.on \subseteq SvTypes
    /\ r.op = "week" => r.value \in Nat

(* A request, and the call it comes of: number 0 is none                     *)
RequestOf(w, cs, r) ==
    /\ RequestFits(r)
    /\ r.op \in Answering \cup {"update"} <=> "n" \in DOMAIN r
    /\ r.op = "read" <=> "id" \in DOMAIN r
    /\ "n" \in DOMAIN r /\ r.n # 0 =>
          /\ r.n \in DOMAIN cs
          /\ r.op = "update" => /\ cs[r.n].kind = "update" /\ r.flags = cs[r.n].arg.flags
                                /\ "server" \in r.flags \ r.need => Astray(w, cs[r.n])
          /\ r.op \in Answering \ {"read"} => Ids(cs[r.n]) = 1
          /\ r.op = "read" => r.id # 0

Fits(side, w, cs, m) == IF side = "requests" THEN RequestOf(w, cs, m) ELSE MessageOf(w, cs, m)

AllFit(side, w, cs, q) == IsSeq(q) /\ \A k \in DOMAIN q : Fits(side, w, cs, q[k])

(* What the adapter keeps, in both forms of the blacklist, and what the      *)
(* modem has                                                                 *)
AdapterFits(a) ==
    /\ a.conf \in [Kept -> Nat] /\ IsMask(a.mask) /\ IsTypes(a.api) /\ IsTypes(a.xtra)
    /\ a.mask = convertToGnssSvIdConfig(a.list)

ModemFits(m) ==
    /\ m.lock \subseteq Bits /\ m.conf \in [Engine -> Nat]
    /\ IsMask(m.mask) /\ m.on \subseteq SvTypes

(* Whether what comes of call n is in a queue: nowhere, or at one place, and *)
(* all ids were answered but those that it answers.                          *)
Bears(m, n) == "n" \in DOMAIN m /\ m.n = n
Free(n, q) == \A k \in DOMAIN q : ~Bears(q[k], n)

Owed(c, m) == IF "id" \in DOMAIN m /\ m.id # 0 THEN {m.id} ELSE DOMAIN c.told
ToldBut(c, ids) == \A i \in DOMAIN c.told : c.told[i] = IF i \in ids THEN 0 ELSE 1

Holds(c, n, q) ==
    \E k \in DOMAIN q :
        /\ Bears(q[k], n) /\ ToldBut(c, Owed(c, q[k]))
        /\ \A j \in DOMAIN q : Bears(q[j], n) => j = k

AnswerOf(c, n, q, pending, r) ==
    \/ Free(n, q) /\ Free(n, pending) /\ Free(n, r) /\ ToldBut(c, {})
    \/ Holds(c, n, q) /\ Free(n, pending) /\ Free(n, r)
    \/ Free(n, q) /\ Holds(c, n, pending) /\ Free(n, r)
    \/ Free(n, q) /\ Free(n, pending) /\ Holds(c, n, r)

CallsInv ==
    /\ world \in Worlds /\ events \in 0..MaxEvents /\ Len(commands) <= MaxCommands
    /\ IsSeq(commands) /\ \A n \in DOMAIN commands : IsCommand(world, commands[n])
    /\ AllFit("queue", world, commands, queue) /\ AllFit("queue", world, commands, adapter.pending)
    /\ AllFit("requests", world, commands, requests)
    /\ AdapterFits(adapter) /\ ModemFits(modem)
    /\ \A n \in DOMAIN commands :
          Excused(commands[n]) \/ AnswerOf(commands[n], n, queue, adapter.pending, requests)

-----------------------------------------------------------------------------
(* What fits, and what bears the number of a call, in queues that change     *)

LEMMA FitAdded ==
    ASSUME NEW side, NEW w, NEW cs, NEW q, AllFit(side, w, cs, q), NEW m, Fits(side, w, cs, m)
    PROVE  AllFit(side, w, cs, Append(q, m))
<1> DEFINE r == Append(q, m)
<1>1. /\ IsSeq(r) /\ Len(q) \in Nat /\ DOMAIN q = 1..Len(q)
      /\ DOMAIN r = 1..(Len(q) + 1)
      /\ \A k \in DOMAIN q : r[k] = q[k]
      /\ r[Len(q) + 1] = m
  BY Added DEF AllFit
<1> HIDE DEF r
<1>2. ASSUME NEW k \in DOMAIN r PROVE Fits(side, w, cs, r[k])
  <2>1. k \in DOMAIN q \/ k = Len(q) + 1 BY <1>1
  <2> QED BY <1>1, <2>1 DEF AllFit
<1>3. AllFit(side, w, cs, r) BY <1>1, <1>2 DEF AllFit
<1> QED BY <1>3 DEF r

LEMMA FitRemoved ==
    ASSUME NEW side, NEW w, NEW cs, NEW q, AllFit(side, w, cs, q), q # <<>>
    PROVE  AllFit(side, w, cs, Tail(q)) /\ Fits(side, w, cs, Head(q))
<1> DEFINE r == Tail(q)
<1>1. /\ IsSeq(r) /\ Len(q) \in Nat \ {0} /\ DOMAIN q = 1..Len(q)
      /\ DOMAIN r = 1..(Len(q) - 1)
      /\ \A k \in DOMAIN r : r[k] = q[k + 1]
      /\ Head(q) = q[1]
  BY Removed DEF AllFit
<1> HIDE DEF r
<1>2. ASSUME NEW k \in DOMAIN r PROVE Fits(side, w, cs, r[k])
  <2>1. k + 1 \in DOMAIN q BY <1>1
  <2> QED BY <1>1, <2>1 DEF AllFit
<1>3. AllFit(side, w, cs, r) BY <1>1, <1>2 DEF AllFit
<1>4. 1 \in DOMAIN q BY <1>1
<1>5. Fits(side, w, cs, Head(q)) BY <1>1, <1>4 DEF AllFit
<1> QED BY <1>3, <1>5 DEF r

(* Where the places of two sequences, one behind the other, are              *)
LEMMA PlacesJoined ==
    ASSUME NEW s, IsSeq(s), NEW t, IsSeq(t), NEW r, r = s \o t
    PROVE  /\ IsSeq(r)
           /\ \A k \in DOMAIN s : k \in DOMAIN r /\ r[k] = s[k]
           /\ \A k \in DOMAIN t : Len(s) + k \in DOMAIN r /\ r[Len(s) + k] = t[k]
           /\ \A k \in DOMAIN r :
                 \/ k \in DOMAIN s
                 \/ k \notin DOMAIN s /\ k - Len(s) \in DOMAIN t /\ Len(s) + (k - Len(s)) = k
           /\ \A k \in DOMAIN t : Len(s) + k \notin DOMAIN s
<1>1. IsSeq(r) /\ Len(s) \in Nat /\ DOMAIN s = 1..Len(s) BY Joined
<1>2. Len(t) \in Nat /\ DOMAIN t = 1..Len(t) /\ DOMAIN r = 1..(Len(s) + Len(t)) BY Joined
<1>3. \A k \in DOMAIN s : r[k] = s[k] BY Joined
<1>4. \A k \in DOMAIN t : r[Len(s) + k] = t[k] BY Joined
<1> QED BY <1>1, <1>2, <1>3, <1>4

LEMMA FitJoined ==
    ASSUME NEW side, NEW w, NEW cs, NEW s, AllFit(side, w, cs, s), NEW t, AllFit(side, w, cs, t)
    PROVE  AllFit(side, w, cs, s \o t)
<1> DEFINE r == s \o t
           n == Len(s)
<1>0. r = s \o t  OBVIOUS
<1> HIDE DEF r
<1>1. IsSeq(s) /\ IsSeq(t) BY DEF AllFit
<1>2. IsSeq(r) /\ n \in Nat /\ DOMAIN s = 1..n BY <1>0, <1>1, Joined
<1>3. /\ Len(t) \in Nat /\ DOMAIN t = 1..Len(t)
      /\ DOMAIN r = 1..(n + Len(t))
  BY <1>0, <1>1, Joined
<1>4. \A k \in DOMAIN s : r[k] = s[k] BY <1>0, <1>1, Joined
<1>5. \A k \in DOMAIN t : r[n + k] = t[k] BY <1>0, <1>1, Joined
<1>6. /\ IsSeq(r) /\ n \in Nat /\ DOMAIN s = 1..n
      /\ Len(t) \in Nat /\ DOMAIN t = 1..Len(t)
      /\ DOMAIN r = 1..(n + Len(t))
      /\ \A k \in DOMAIN s : r[k] = s[k]
      /\ \A k \in DOMAIN t : r[n + k] = t[k]
  BY <1>2, <1>3, <1>4, <1>5
<1> HIDE DEF n
<1>7. ASSUME NEW k \in DOMAIN r PROVE Fits(side, w, cs, r[k])
  <2>1. CASE k \in DOMAIN s BY <1>6, <2>1 DEF AllFit
  <2>2. CASE k - n \in DOMAIN t /\ n + (k - n) = k
    <3>1. r[k] = t[k - n] BY <1>6, <2>2
    <3> QED BY <2>2, <3>1 DEF AllFit
  <2>3. k \in DOMAIN s \/ (k - n \in DOMAIN t /\ n + (k - n) = k) BY <1>6
  <2> QED BY <2>1, <2>2, <2>3
<1>8. AllFit(side, w, cs, r) BY <1>6, <1>7 DEF AllFit
<1> QED BY <1>0, <1>8

LEMMA NoneFits == \A side, w, cs : AllFit(side, w, cs, <<>>)
  BY NoElements DEF AllFit

(* The number of a call in a queue that gets another message,                *)
LEMMA BearsAdded ==
    ASSUME NEW c, NEW n, NEW q, IsSeq(q), NEW m
    PROVE  /\ ~Bears(m, n) /\ Free(n, q) => Free(n, Append(q, m))
           /\ ~Bears(m, n) /\ Holds(c, n, q) => Holds(c, n, Append(q, m))
           /\ Bears(m, n) /\ Free(n, q) /\ ToldBut(c, Owed(c, m)) => Holds(c, n, Append(q, m))
<1> DEFINE r == Append(q, m)
<1>1. /\ IsSeq(r) /\ Len(q) \in Nat /\ DOMAIN q = 1..Len(q)
      /\ DOMAIN r = 1..(Len(q) + 1)
      /\ \A k \in DOMAIN q : r[k] = q[k]
      /\ r[Len(q) + 1] = m
  BY Added
<1> HIDE DEF r
<1>2. /\ Len(q) + 1 \in DOMAIN r
      /\ \A j \in DOMAIN r : j \in DOMAIN q \/ j = Len(q) + 1
      /\ \A j \in DOMAIN q : j \in DOMAIN r
  BY <1>1
<1>3. ASSUME ~Bears(m, n), Free(n, q) PROVE Free(n, r) BY <1>1, <1>2, <1>3 DEF Free
<1>4. ASSUME ~Bears(m, n), Holds(c, n, q) PROVE Holds(c, n, r)
  <2>1. PICK k \in DOMAIN q :
            /\ Bears(q[k], n) /\ ToldBut(c, Owed(c, q[k]))
            /\ \A j \in DOMAIN q : Bears(q[j], n) => j = k
    BY <1>4 DEF Holds
  <2>2. k \in DOMAIN r /\ r[k] = q[k] BY <1>1, <1>2
  <2>3. \A j \in DOMAIN r : Bears(r[j], n) => j = k BY <1>1, <1>2, <1>4, <2>1
  <2> QED BY <2>1, <2>2, <2>3 DEF Holds
<1>5. ASSUME Bears(m, n), Free(n, q), ToldBut(c, Owed(c, m)) PROVE Holds(c, n, r)
  <2>1. \A j \in DOMAIN r : Bears(r[j], n) => j = Len(q) + 1 BY <1>1, <1>2, <1>5 DEF Free
  <2> QED BY <1>1, <1>2, <1>5, <2>1 DEF Holds
<1> QED BY <1>3, <1>4, <1>5 DEF r

(* of which the first is taken,                                              *)
LEMMA BearsRemoved ==
    ASSUME NEW c, NEW n, NEW q, IsSeq(q), q # <<>>
    PROVE  /\ Free(n, q) => ~Bears(Head(q), n) /\ Free(n, Tail(q))
           /\ ~Bears(Head(q), n) /\ Holds(c, n, q) => Holds(c, n, Tail(q))
           /\ Bears(Head(q), n) /\ Holds(c, n, q) =>
                 Free(n, Tail(q)) /\ ToldBut(c, Owed(c, Head(q)))
<1> DEFINE r == Tail(q)
           l == Len(q)
<1>1. /\ l \in Nat \ {0} /\ DOMAIN q = 1..l
      /\ DOMAIN r = 1..(l - 1)
      /\ \A k \in DOMAIN r : r[k] = q[k + 1]
      /\ Head(q) = q[1]
  BY Removed
<1> HIDE DEF r, l
<1>2. /\ 1 \in DOMAIN q
      /\ \A j \in DOMAIN r : j + 1 \in DOMAIN q /\ j + 1 # 1
      /\ \A j \in DOMAIN q : j = 1 \/ (j - 1 \in DOMAIN r /\ (j - 1) + 1 = j)
      /\ \A j, k \in DOMAIN r : j + 1 = k + 1 => j = k
  BY <1>1
<1>3. ASSUME Free(n, q) PROVE ~Bears(Head(q), n) /\ Free(n, r) BY <1>1, <1>2, <1>3 DEF Free
<1>4. ASSUME ~Bears(Head(q), n), Holds(c, n, q) PROVE Holds(c, n, r)
  <2>1. PICK k \in DOMAIN q :
            /\ Bears(q[k], n) /\ ToldBut(c, Owed(c, q[k]))
            /\ \A j \in DOMAIN q : Bears(q[j], n) => j = k
    BY <1>4 DEF Holds
  <2>2. k # 1 BY <1>1, <1>4, <2>1
  <2>3. k - 1 \in DOMAIN r /\ (k - 1) + 1 = k BY <1>2, <2>2
  <2>4. r[k - 1] = q[k] BY <1>1, <2>3
  <2>5. ASSUME NEW j \in DOMAIN r, Bears(r[j], n) PROVE j = k - 1
    <3>1. j + 1 \in DOMAIN q /\ r[j] = q[j + 1] BY <1>1, <1>2
    <3>2. j + 1 = k BY <2>1, <2>5, <3>1
    <3> QED BY <1>2, <2>3, <3>2
  <2> QED BY <2>1, <2>3, <2>4, <2>5 DEF Holds
<1>5. ASSUME Bears(Head(q), n), Holds(c, n, q)
      PROVE  Free(n, r) /\ ToldBut(c, Owed(c, Head(q)))
  <2>1. PICK k \in DOMAIN q :
            /\ Bears(q[k], n) /\ ToldBut(c, Owed(c, q[k]))
            /\ \A j \in DOMAIN q : Bears(q[j], n) => j = k
    BY <1>5 DEF Holds
  <2>2. k = 1 BY <1>1, <1>2, <1>5, <2>1
  <2>3. ASSUME NEW j \in DOMAIN r PROVE ~Bears(r[j], n)
    <3>1. j + 1 \in DOMAIN q /\ r[j] = q[j + 1] /\ j + 1 # 1 BY <1>1, <1>2
    <3> QED BY <2>1, <2>2, <3>1
  <2> QED BY <1>1, <2>1, <2>2, <2>3 DEF Free
<1> QED BY <1>3, <1>4, <1>5 DEF r

(* or that another goes behind                                               *)
LEMMA BearsJoined ==
    ASSUME NEW c, NEW n, NEW s, IsSeq(s), NEW t, IsSeq(t)
    PROVE  /\ Free(n, s) /\ Free(n, t) => Free(n, s \o t)
           /\ Holds(c, n, s) /\ Free(n, t) => Holds(c, n, s \o t)
           /\ Free(n, s) /\ Holds(c, n, t) => Holds(c, n, s \o t)
<1> DEFINE r == s \o t
           l == Len(s)
<1>0. r = s \o t  OBVIOUS
<1> HIDE DEF r
<1>1. /\ \A k \in DOMAIN s : k \in DOMAIN r /\ r[k] = s[k]
      /\ \A k \in DOMAIN t : l + k \in DOMAIN r /\ r[l + k] = t[k]
      /\ \A k \in DOMAIN r :
            k \in DOMAIN s \/ (k \notin DOMAIN s /\ k - l \in DOMAIN t /\ l + (k - l) = k)
      /\ \A k \in DOMAIN t : l + k \notin DOMAIN s
  BY <1>0, PlacesJoined
<1> HIDE DEF l
<1>2. ASSUME Free(n, s), Free(n, t) PROVE Free(n, r)
  <2>1. ASSUME NEW k \in DOMAIN r PROVE ~Bears(r[k], n)
    <3>1. CASE k \in DOMAIN s BY <1>1, <1>2, <3>1 DEF Free
    <3>2. CASE k - l \in DOMAIN t /\ l + (k - l) = k
      <4>1. r[k] = t[k - l] BY <1>1, <3>2
      <4> QED BY <1>2, <3>2, <4>1 DEF Free
    <3> QED BY <1>1, <3>1, <3>2
  <2> QED BY <2>1 DEF Free
<1>3. ASSUME Holds(c, n, s), Free(n, t) PROVE Holds(c, n, r)
  <2>1. PICK k \in DOMAIN s :
            /\ Bears(s[k], n) /\ ToldBut(c, Owed(c, s[k]))
            /\ \A j \in DOMAIN s : Bears(s[j], n) => j = k
    BY <1>3 DEF Holds
  <2>2. ASSUME NEW j \in DOMAIN r, Bears(r[j], n) PROVE j = k
    <3>1. CASE j \in DOMAIN s BY <1>1, <2>1, <2>2, <3>1
    <3>2. CASE j - l \in DOMAIN t /\ l + (j - l) = j
      <4>1. r[j] = t[j - l] BY <1>1, <3>2
      <4> QED BY <1>3, <2>2, <3>2, <4>1 DEF Free
    <3> QED BY <1>1, <3>1, <3>2
  <2>3. k \in DOMAIN r /\ r[k] = s[k] BY <1>1
  <2> QED BY <2>1, <2>2, <2>3 DEF Holds
<1>4. ASSUME Free(n, s), Holds(c, n, t) PROVE Holds(c, n, r)
  <2>1. PICK k \in DOMAIN t :
            /\ Bears(t[k], n) /\ ToldBut(c, Owed(c, t[k]))
            /\ \A j \in DOMAIN t : Bears(t[j], n) => j = k
    BY <1>4 DEF Holds
  <2>2. ASSUME NEW j \in DOMAIN r, Bears(r[j], n) PROVE j = l + k
    <3>1. CASE j \in DOMAIN s BY <1>1, <1>4, <2>2, <3>1 DEF Free
    <3>2. CASE j - l \in DOMAIN t /\ l + (j - l) = j
      <4>1. r[j] = t[j - l] BY <1>1, <3>2
      <4>2. j - l = k BY <2>1, <2>2, <3>2, <4>1
      <4> QED BY <3>2, <4>2
    <3> QED BY <1>1, <3>1, <3>2
  <2>3. l + k \in DOMAIN r /\ r[l + k] = t[k] BY <1>1
  <2> QED BY <2>1, <2>2, <2>3 DEF Holds
<1> QED BY <1>0, <1>2, <1>3, <1>4

LEMMA HeldIsNotFree == \A c, n, q : ~(Holds(c, n, q) /\ Free(n, q))
  BY DEF Holds, Free

LEMMA NoneBears == \A n : Free(n, <<>>)
  BY NoElements DEF Free

-----------------------------------------------------------------------------
(* The settings of a call have as many ids as there are settings.            *)
LEMMA FlagsDiffer ==
    /\ DOMAIN Flags = 1..15
    /\ \A j, k \in 1..15 : Flags[j] = Flags[k] => j = k
  BY DEF Flags

LEMMA OrderLength ==
    ASSUME NEW S, S \subseteq ToSet(Flags)
    PROVE  /\ Cardinality(S) \in Nat /\ IsFiniteSet(S)
           /\ DOMAIN InOrder(Flags, S) = 1..Cardinality(S)
           /\ IsSeq(InOrder(Flags, S)) /\ Len(InOrder(Flags, S)) = Cardinality(S)
<1> DEFINE at == {k \in DOMAIN Flags : Flags[k] \in S}
           f == [k \in at |-> Flags[k]]
           o == InOrder(Flags, S)
<1>1. at \subseteq 1..15 BY FlagsDiffer
<1>2. IsFiniteSet(at)
  <2>1. IsFiniteSet(1..15)
    <3>1. 1 \in Int /\ 15 \in Int  OBVIOUS
    <3> QED BY <3>1, FS_Interval, Zenon
  <2> HIDE DEF at
  <2> QED BY <1>1, <2>1, FS_Subset
<1>3. f \in Bijection(at, S)
  <2>1. \A s \in S : \E k \in at : f[k] = s BY DEF ToSet
  <2>2. \A j, k \in at : f[j] = f[k] => j = k BY <1>1, FlagsDiffer
  <2>3. f \in [at -> S]  OBVIOUS
  <2> HIDE DEF f, at
  <2> QED BY <2>1, <2>2, <2>3 DEF Bijection, Injection, Surjection, IsInjective
<1>4. IsFiniteSet(S) /\ Cardinality(S) = Cardinality(at)
  <2> HIDE DEF f, at
  <2> QED BY <1>2, <1>3, FS_Bijection DEF ExistsBijection
<1>5. Cardinality(S) \in Nat BY <1>4, FS_CardinalityType
<1>6. o = [i \in 1..Cardinality(S) |-> o[i]] BY <1>4 DEF InOrder
<1> HIDE DEF o
<1>7. o \in Seq({o[k] : k \in DOMAIN o}) /\ Len(o) = Cardinality(S)
  <2> DEFINE E == {o[k] : k \in DOMAIN o}
  <2>1. o \in [1..Cardinality(S) -> E] BY <1>6
  <2> HIDE DEF E
  <2>2. o \in Seq(E) /\ Len(o) = Cardinality(S) BY <1>5, <2>1
  <2> QED BY <2>2 DEF E
<1> QED BY <1>4, <1>5, <1>6, <1>7 DEF IsSeq, o

-----------------------------------------------------------------------------
(* Calls keep what they ask for: what fits them goes on to.                  *)
KeepsCalls(cs, ds) ==
    /\ DOMAIN cs \subseteq DOMAIN ds
    /\ \A n \in DOMAIN cs :
          /\ ds[n].kind = cs[n].kind /\ ds[n].arg = cs[n].arg
          /\ DOMAIN ds[n].told = DOMAIN cs[n].told

LEMMA FitKept ==
    ASSUME NEW cs, NEW ds, KeepsCalls(cs, ds), NEW w, NEW side, NEW m, Fits(side, w, cs, m)
    PROVE  Fits(side, w, ds, m)
<1>1. ASSUME NEW n \in DOMAIN cs
      PROVE  /\ n \in DOMAIN ds /\ ds[n].kind = cs[n].kind /\ ds[n].arg = cs[n].arg
             /\ DOMAIN ds[n].told = DOMAIN cs[n].told
             /\ Ids(ds[n]) = Ids(cs[n]) /\ (Astray(w, ds[n]) <=> Astray(w, cs[n]))
  <2>1. /\ n \in DOMAIN ds /\ ds[n].kind = cs[n].kind /\ ds[n].arg = cs[n].arg
        /\ DOMAIN ds[n].told = DOMAIN cs[n].told
    BY DEF KeepsCalls
  <2> QED BY <2>1 DEF Ids, Astray
<1> DEFINE n == m.n
           c == cs[n]
           d == ds[n]
<1>2. CASE side = "requests"
  <2>1. RequestOf(w, cs, m) BY <1>2 DEF Fits
  <2>2. ASSUME "n" \in DOMAIN m, n # 0
        PROVE  /\ n \in DOMAIN ds
               /\ m.op = "update" => /\ d.kind = "update" /\ m.flags = d.arg.flags
                                     /\ "server" \in m.flags \ m.need => Astray(w, d)
               /\ m.op \in Answering \ {"read"} => Ids(d) = 1
               /\ m.op = "read" => m.id # 0
    <3>1. /\ n \in DOMAIN cs
          /\ m.op = "update" => /\ c.kind = "update" /\ m.flags = c.arg.flags
                                /\ "server" \in m.flags \ m.need => Astray(w, c)
          /\ m.op \in Answering \ {"read"} => Ids(c) = 1
          /\ m.op = "read" => m.id # 0
      BY <2>1, <2>2 DEF RequestOf
    <3>2. /\ n \in DOMAIN ds /\ d.kind = c.kind /\ d.arg = c.arg
          /\ Ids(d) = Ids(c) /\ (Astray(w, d) <=> Astray(w, c))
      BY <1>1, <3>1
    <3> HIDE DEF n, c, d
    <3> QED BY <3>1, <3>2
  <2>3. RequestOf(w, ds, m) BY <2>1, <2>2 DEF RequestOf
  <2> QED BY <1>2, <2>3 DEF Fits
<1>3. CASE side # "requests"
  <2>1. MessageOf(w, cs, m) BY <1>3 DEF Fits
  <2>2. ASSUME m.type \notin {"up", "lock"}
        PROVE  /\ "n" \in DOMAIN m /\ n \in DOMAIN ds /\ d.kind = c.kind /\ d.arg = c.arg
               /\ DOMAIN d.told = DOMAIN c.told /\ (Astray(w, d) <=> Astray(w, c))
    <3>1. "n" \in DOMAIN m /\ n \in DOMAIN cs BY <2>1, <2>2 DEF MessageOf
    <3> QED BY <1>1, <3>1
  <2>3. /\ m.type \in Kinds => "id" \notin DOMAIN m /\ c.kind = m.type /\ c.arg = m.arg
        /\ m.type = "response" =>
              /\ "id" \in DOMAIN m
              /\ m.id = 0 => /\ DOMAIN c.told \subseteq DOMAIN m.errs
                             /\ m.errs = m.facts \/ Astray(w, c)
        /\ m.type \in Kinds \cup {"response", "up", "lock"}
        /\ m.type \in {"up", "lock"} => "n" \notin DOMAIN m
    BY <2>1 DEF MessageOf
  <2>4. m.type \in Kinds \/ m.type = "response" => m.type \notin {"up", "lock"} BY DEF Kinds
  <2> HIDE DEF n, c, d
  <2>5. /\ m.type \in Kinds => "id" \notin DOMAIN m /\ d.kind = m.type /\ d.arg = m.arg
        /\ m.type = "response" =>
              /\ "id" \in DOMAIN m
              /\ m.id = 0 => /\ DOMAIN d.told \subseteq DOMAIN m.errs
                             /\ m.errs = m.facts \/ Astray(w, d)
    BY <2>2, <2>3, <2>4
  <2>6. MessageOf(w, ds, m) BY <2>2, <2>3, <2>5 DEF MessageOf, n, d
  <2> QED BY <1>3, <2>6 DEF Fits
<1> QED BY <1>2, <1>3

LEMMA FitsKept ==
    ASSUME NEW cs, NEW ds, KeepsCalls(cs, ds), NEW w, NEW side, NEW q, AllFit(side, w, cs, q)
    PROVE  AllFit(side, w, ds, q)
  BY FitKept DEF AllFit

(* Where the answers of a call are under way, when                           *)
(* a message was handled: one that is not of the call, or the call's own,    *)
LEMMA AnswerElsewhere ==
    ASSUME NEW c, NEW n, NEW q, IsSeq(q), q # <<>>, NEW p, IsSeq(p), NEW r, IsSeq(r),
           AnswerOf(c, n, q, p, r), ~Bears(Head(q), n), NEW out, IsSeq(out), Free(n, out)
    PROVE  /\ AnswerOf(c, n, Tail(q), p, r \o out)
           /\ AnswerOf(c, n, Tail(q) \o p, <<>>, r \o out)
<1>1. /\ Free(n, q) => Free(n, Tail(q))
      /\ Holds(c, n, q) => Holds(c, n, Tail(q))
  BY BearsRemoved
<1>2. /\ Free(n, r) => Free(n, r \o out)
      /\ Holds(c, n, r) => Holds(c, n, r \o out)
  BY BearsJoined
<1>3. IsSeq(Tail(q)) BY Removed
<1>4. /\ Free(n, Tail(q)) /\ Free(n, p) => Free(n, Tail(q) \o p)
      /\ Holds(c, n, Tail(q)) /\ Free(n, p) => Holds(c, n, Tail(q) \o p)
      /\ Free(n, Tail(q)) /\ Holds(c, n, p) => Holds(c, n, Tail(q) \o p)
  BY <1>3, BearsJoined
<1>5. Free(n, <<>>) BY NoneBears
<1> QED BY <1>1, <1>2, <1>4, <1>5 DEF AnswerOf

LEMMA AnswerHere ==
    ASSUME NEW c, NEW n, NEW q, IsSeq(q), q # <<>>, NEW p, NEW r,
           AnswerOf(c, n, q, p, r), Bears(Head(q), n)
    PROVE  /\ Free(n, Tail(q)) /\ Free(n, p) /\ Free(n, r)
           /\ ToldBut(c, Owed(c, Head(q)))
<1>1. ~Free(n, q) BY BearsRemoved
<1>2. Holds(c, n, q) /\ Free(n, p) /\ Free(n, r) BY <1>1 DEF AnswerOf
<1> QED BY <1>2, BearsRemoved

LEMMA AnswerMoves ==
    ASSUME NEW c, NEW n, NEW q, NEW p, NEW r, IsSeq(r), Free(n, q), Free(n, p), Free(n, r),
           NEW out, IsSeq(out), Holds(c, n, out) \/ (Free(n, out) /\ ToldBut(c, {}))
    PROVE  AnswerOf(c, n, q, p, r \o out)
  BY BearsJoined DEF AnswerOf

(* a call waits for the engine,                                              *)
LEMMA AnswerWaits ==
    ASSUME NEW c, NEW n, NEW q, IsSeq(q), q # <<>>, NEW p, IsSeq(p), NEW r,
           AnswerOf(c, n, q, p, r)
    PROVE  AnswerOf(c, n, Tail(q), Append(p, Head(q)), r)
<1>1. CASE Bears(Head(q), n)
  <2>1. /\ Free(n, Tail(q)) /\ Free(n, p) /\ Free(n, r)
        /\ ToldBut(c, Owed(c, Head(q)))
    BY <1>1, AnswerHere
  <2>2. Holds(c, n, Append(p, Head(q))) BY <1>1, <2>1, BearsAdded
  <2> QED BY <2>1, <2>2 DEF AnswerOf
<1>2. CASE ~Bears(Head(q), n)
  <2>1. /\ Free(n, q) => Free(n, Tail(q))
        /\ Holds(c, n, q) => Holds(c, n, Tail(q))
    BY <1>2, BearsRemoved
  <2>2. /\ Free(n, p) => Free(n, Append(p, Head(q)))
        /\ Holds(c, n, p) => Holds(c, n, Append(p, Head(q)))
    BY <1>2, BearsAdded
  <2> QED BY <2>1, <2>2 DEF AnswerOf
<1> QED BY <1>1, <1>2

(* a request was served and its response is on its way,                      *)
LEMMA AnswerServed ==
    ASSUME NEW c, NEW n, NEW q, IsSeq(q), NEW p, NEW r, IsSeq(r), r # <<>>,
           AnswerOf(c, n, q, p, r), NEW m, Bears(m, n) <=> Bears(Head(r), n),
           Owed(c, m) = Owed(c, Head(r))
    PROVE  AnswerOf(c, n, Append(q, m), p, Tail(r))
<1>1. CASE Bears(Head(r), n)
  <2>1. ~Free(n, r) BY <1>1, BearsRemoved
  <2>2. Free(n, q) /\ Free(n, p) /\ Holds(c, n, r) BY <2>1 DEF AnswerOf
  <2>3. Free(n, Tail(r)) /\ ToldBut(c, Owed(c, Head(r))) BY <1>1, <2>2, BearsRemoved
  <2>4. Holds(c, n, Append(q, m)) BY <1>1, <2>2, <2>3, BearsAdded
  <2> QED BY <2>2, <2>3, <2>4 DEF AnswerOf
<1>2. CASE ~Bears(Head(r), n)
  <2>1. /\ Free(n, r) => Free(n, Tail(r))
        /\ Holds(c, n, r) => Holds(c, n, Tail(r))
    BY <1>2, BearsRemoved
  <2>2. /\ Free(n, q) => Free(n, Append(q, m))
        /\ Holds(c, n, q) => Holds(c, n, Append(q, m))
    BY <1>2, BearsAdded
  <2> QED BY <2>1, <2>2 DEF AnswerOf
<1> QED BY <1>1, <1>2

(* a request of no call was served, or something of no call is added.        *)
LEMMA AnswerUnserved ==
    ASSUME NEW c, NEW n, NEW q, NEW p, NEW r, IsSeq(r), r # <<>>,
           AnswerOf(c, n, q, p, r), ~Bears(Head(r), n)
    PROVE  /\ AnswerOf(c, n, q, p, Tail(r))
           /\ \A m : ~Bears(m, n) => AnswerOf(c, n, q, p, <<m>> \o Tail(r))
<1>1. /\ Free(n, r) => Free(n, Tail(r))
      /\ Holds(c, n, r) => Holds(c, n, Tail(r))
  BY BearsRemoved
<1>2. AnswerOf(c, n, q, p, Tail(r)) BY <1>1 DEF AnswerOf
<1>3. ASSUME NEW m, ~Bears(m, n) PROVE AnswerOf(c, n, q, p, <<m>> \o Tail(r))
  <2> DEFINE s == <<m>>
  <2>1. s = Append(<<>>, m)  OBVIOUS
  <2> HIDE DEF s
  <2>2. IsSeq(s) /\ Free(n, s) BY <1>3, <2>1, Added, BearsAdded, NoElements, NoneBears
  <2>3. IsSeq(Tail(r)) BY Removed
  <2>4. /\ Free(n, Tail(r)) => Free(n, s \o Tail(r))
        /\ Holds(c, n, Tail(r)) => Holds(c, n, s \o Tail(r))
    BY <2>2, <2>3, BearsJoined
  <2>5. AnswerOf(c, n, q, p, s \o Tail(r)) BY <1>2, <2>4 DEF AnswerOf
  <2> QED BY <2>5 DEF s
<1> QED BY <1>2, <1>3

LEMMA AnswerAdded ==
    ASSUME NEW c, NEW n, NEW q, IsSeq(q), NEW p, NEW r, IsSeq(r),
           AnswerOf(c, n, q, p, r), NEW m, ~Bears(m, n)
    PROVE  AnswerOf(c, n, Append(q, m), p, r) /\ AnswerOf(c, n, q, p, Append(r, m))
<1>1. /\ Free(n, q) => Free(n, Append(q, m))
      /\ Holds(c, n, q) => Holds(c, n, Append(q, m))
  BY BearsAdded
<1>2. /\ Free(n, r) => Free(n, Append(r, m))
      /\ Holds(c, n, r) => Holds(c, n, Append(r, m))
  BY BearsAdded
<1> QED BY <1>1, <1>2 DEF AnswerOf

-----------------------------------------------------------------------------
(* What a step does to the calls                                             *)

(* A message of call n is handled: out is what it sends.                     *)
HandlesCall ==
    \E n, out :
        /\ queue # <<>> /\ Bears(Head(queue), n) /\ n \in DOMAIN commands
        /\ queue' = Tail(queue) /\ adapter'.pending = adapter.pending
        /\ requests' = requests \o out /\ AllFit("requests", world, commands', out)
        /\ AdapterFits(adapter') /\ UNCHANGED <<world, modem, events>>
        /\ IsSeq(commands') /\ DOMAIN commands' = DOMAIN commands
        /\ KeepsCalls(commands, commands') /\ IsCommand(world, commands'[n])
        /\ \A i \in DOMAIN commands \ {n} : commands'[i] = commands[i] /\ Free(i, out)
        /\ ToldBut(commands[n], Owed(commands[n], Head(queue))) /\ ~Excused(commands[n]) =>
              Holds(commands'[n], n, out) \/ (Free(n, out) /\ ToldBut(commands'[n], {}))

(* News of the engine is handled.                                            *)
HandlesNews ==
    \E out :
        /\ queue # <<>> /\ "n" \notin DOMAIN Head(queue)
        /\ requests' = requests \o out /\ AllFit("requests", world, commands, out)
        /\ \A n \in DOMAIN commands : Free(n, out)
        /\ AdapterFits(adapter') /\ UNCHANGED <<world, modem, events, commands>>
        /\ \/ queue' = Tail(queue) /\ adapter'.pending = adapter.pending
           \/ queue' = Tail(queue) \o adapter.pending /\ adapter'.pending = <<>>

(* A request is served, with or without a response.                          *)
ServesCall ==
    /\ requests # <<>> /\ adapter'.pending = adapter.pending
    /\ AdapterFits(adapter') /\ ModemFits(modem') /\ UNCHANGED <<world, events, commands>>
    /\ \/ /\ queue' = queue /\ \A n \in DOMAIN commands : ~Bears(Head(requests), n)
          /\ \/ requests' = Tail(requests)
             \/ \E m : /\ RequestOf(world, commands, m) /\ "n" \notin DOMAIN m
                       /\ requests' = <<m>> \o Tail(requests)
       \/ \E m :
             /\ MessageOf(world, commands, m)
             /\ queue' = Append(queue, m) /\ requests' = Tail(requests)
             /\ \A n \in DOMAIN commands :
                   /\ Bears(m, n) <=> Bears(Head(requests), n)
                   /\ Owed(commands[n], m) = Owed(commands[n], Head(requests))

(* The modem crashes, or the engine is locked or unlocked.                   *)
Disturbs ==
    /\ events' \in 0..MaxEvents /\ UNCHANGED <<world, commands>>
    /\ adapter'.pending = adapter.pending /\ AdapterFits(adapter') /\ ModemFits(modem')
    /\ \/ /\ UNCHANGED queue
          /\ \E m : /\ RequestOf(world, commands, m) /\ "n" \notin DOMAIN m
                    /\ requests' = Append(requests, m)
       \/ /\ UNCHANGED requests
          /\ \E m : /\ MessageOf(world, commands, m) /\ "n" \notin DOMAIN m
                    /\ queue' = Append(queue, m)

(* A call is made.                                                           *)
AddsCall ==
    \E c, m :
        /\ Len(commands) < MaxCommands /\ commands' = Append(commands, c)
        /\ IsCommand(world, c) /\ ToldBut(c, DOMAIN c.told)
        /\ queue' = Append(queue, m) /\ "n" \in DOMAIN m /\ m.n = Len(commands) + 1
        /\ "id" \notin DOMAIN m /\ m.type = c.kind /\ m.arg = c.arg
        /\ UNCHANGED <<world, events, adapter, requests, modem>>

LEMMA HandlesCallKeeps == ASSUME CallsInv, HandlesCall PROVE CallsInv'
<1>1. PICK n, out :
        /\ queue # <<>> /\ Bears(Head(queue), n) /\ n \in DOMAIN commands
        /\ queue' = Tail(queue) /\ adapter'.pending = adapter.pending
        /\ requests' = requests \o out /\ AllFit("requests", world, commands', out)
        /\ AdapterFits(adapter') /\ UNCHANGED <<world, modem, events>>
        /\ IsSeq(commands') /\ DOMAIN commands' = DOMAIN commands
        /\ KeepsCalls(commands, commands') /\ IsCommand(world, commands'[n])
        /\ \A i \in DOMAIN commands \ {n} : commands'[i] = commands[i] /\ Free(i, out)
        /\ ToldBut(commands[n], Owed(commands[n], Head(queue))) /\ ~Excused(commands[n]) =>
              Holds(commands'[n], n, out) \/ (Free(n, out) /\ ToldBut(commands'[n], {}))
  BY DEF HandlesCall
<1>2. IsSeq(queue) /\ IsSeq(adapter.pending) /\ IsSeq(requests) /\ IsSeq(commands) /\ IsSeq(out)
  BY <1>1 DEF CallsInv, AllFit
<1>3. /\ AllFit("queue", world, commands', queue') /\ AllFit("queue", world, commands', adapter'.pending)
      /\ AllFit("requests", world, commands', requests')
  <2>1. AllFit("queue", world, commands, Tail(queue)) BY <1>1, FitRemoved DEF CallsInv
  <2>2. /\ AllFit("queue", world, commands', Tail(queue))
        /\ AllFit("queue", world, commands', adapter.pending)
        /\ AllFit("requests", world, commands', requests)
    BY <1>1, <2>1, FitsKept DEF CallsInv
  <2> QED BY <1>1, <2>2, FitJoined
<1>4. \A i \in DOMAIN commands' : IsCommand(world, commands'[i]) BY <1>1 DEF CallsInv
<1>5. Len(commands') <= MaxCommands
  <2>1. /\ Len(commands) \in Nat /\ DOMAIN commands = 1..Len(commands)
        /\ Len(commands') \in Nat /\ DOMAIN commands' = 1..Len(commands')
    BY <1>1, <1>2, Added
  <2>2. Len(commands') = Len(commands) BY <1>1, <2>1
  <2> QED BY <2>2 DEF CallsInv
<1>6. ASSUME NEW i \in DOMAIN commands', ~Excused(commands'[i])
      PROVE  AnswerOf(commands'[i], i, queue', adapter'.pending, requests')
  <2>1. ~Excused(commands[i]) BY <1>1, <1>6 DEF Excused, KeepsCalls
  <2>2. AnswerOf(commands[i], i, queue, adapter.pending, requests)
    BY <1>1, <1>6, <2>1 DEF CallsInv
  <2>3. CASE i # n
    <3>1. commands'[i] = commands[i] /\ Free(i, out) /\ ~Bears(Head(queue), i)
      BY <1>1, <1>6, <2>3 DEF Bears
    <3>2. AnswerOf(commands[i], i, Tail(queue), adapter.pending, requests \o out)
      BY <1>1, <1>2, <2>2, <3>1, AnswerElsewhere
    <3> QED BY <1>1, <3>1, <3>2
  <2>4. CASE i = n
    <3>1. /\ Free(n, Tail(queue)) /\ Free(n, adapter.pending) /\ Free(n, requests)
          /\ ToldBut(commands[n], Owed(commands[n], Head(queue)))
      BY <1>1, <1>2, <2>2, <2>4, AnswerHere
    <3>2. Holds(commands'[n], n, out) \/ (Free(n, out) /\ ToldBut(commands'[n], {}))
      BY <1>1, <2>1, <2>4, <3>1
    <3>3. AnswerOf(commands'[n], n, Tail(queue), adapter.pending, requests \o out)
      BY <1>2, <3>1, <3>2, AnswerMoves
    <3> QED BY <1>1, <2>4, <3>3
  <2> QED BY <2>3, <2>4
<1> QED BY <1>1, <1>3, <1>4, <1>5, <1>6 DEF CallsInv

LEMMA HandlesNewsKeeps == ASSUME CallsInv, HandlesNews PROVE CallsInv'
<1>1. PICK out :
        /\ queue # <<>> /\ "n" \notin DOMAIN Head(queue)
        /\ requests' = requests \o out /\ AllFit("requests", world, commands, out)
        /\ \A n \in DOMAIN commands : Free(n, out)
        /\ AdapterFits(adapter') /\ UNCHANGED <<world, modem, events, commands>>
        /\ \/ queue' = Tail(queue) /\ adapter'.pending = adapter.pending
           \/ queue' = Tail(queue) \o adapter.pending /\ adapter'.pending = <<>>
  BY DEF HandlesNews
<1>2. IsSeq(queue) /\ IsSeq(adapter.pending) /\ IsSeq(requests) /\ IsSeq(out)
  BY <1>1 DEF CallsInv, AllFit
<1>3. /\ AllFit("queue", world, commands, queue') /\ AllFit("queue", world, commands, adapter'.pending)
      /\ AllFit("requests", world, commands, requests')
  <2>1. AllFit("queue", world, commands, Tail(queue)) /\ AllFit("queue", world, commands, adapter.pending)
    BY <1>1, FitRemoved DEF CallsInv
  <2>2. AllFit("queue", world, commands, Tail(queue) \o adapter.pending) BY <2>1, FitJoined
  <2>3. AllFit("requests", world, commands, requests \o out) BY <1>1, FitJoined DEF CallsInv
  <2> QED BY <1>1, <2>1, <2>2, <2>3, NoneFits
<1>4. ASSUME NEW i \in DOMAIN commands, ~Excused(commands[i])
      PROVE  AnswerOf(commands[i], i, queue', adapter'.pending, requests')
  <2>1. AnswerOf(commands[i], i, queue, adapter.pending, requests) BY <1>4 DEF CallsInv
  <2>2. ~Bears(Head(queue), i) /\ Free(i, out) BY <1>1, <1>4 DEF Bears
  <2>3. /\ AnswerOf(commands[i], i, Tail(queue), adapter.pending, requests \o out)
        /\ AnswerOf(commands[i], i, Tail(queue) \o adapter.pending, <<>>, requests \o out)
    BY <1>1, <1>2, <2>1, <2>2, AnswerElsewhere
  <2> QED BY <1>1, <2>3
<1> QED BY <1>1, <1>3, <1>4 DEF CallsInv

LEMMA EarlyKeeps == ASSUME Shape, CallsInv, ProcEarly PROVE CallsInv'
<1>1. /\ queue # <<>> /\ queue' = Tail(queue) /\ UNCHANGED <<world, modem, events, commands>>
      /\ adapter' = [adapter EXCEPT !.pending = Append(adapter.pending, Head(queue))]
      /\ requests' = requests \o <<>>
  BY DEF ProcEarly, Done, Open
<1> DEFINE p == Append(adapter.pending, Head(queue))
<1>2. IsSeq(queue) /\ IsSeq(adapter.pending) /\ IsSeq(requests) BY DEF CallsInv, AllFit
<1>3. requests' = requests
  <2>1. requests \in Seq({requests[k] : k \in DOMAIN requests}) BY <1>2 DEF IsSeq
  <2> QED BY <1>1, <2>1, ConcatEmptySeq
<1>4. AdapterFits(adapter') BY <1>1 DEF CallsInv, AdapterFits
<1>5. AllFit("queue", world, commands, Tail(queue)) /\ AllFit("queue", world, commands, p)
  <2>1. AllFit("queue", world, commands, queue) /\ AllFit("queue", world, commands, adapter.pending)
    BY DEF CallsInv
  <2>2. AllFit("queue", world, commands, Tail(queue)) /\ Fits("queue", world, commands, Head(queue))
    BY <1>1, <2>1, FitRemoved
  <2> QED BY <2>1, <2>2, FitAdded
<1>6. ASSUME NEW i \in DOMAIN commands, ~Excused(commands[i])
      PROVE  AnswerOf(commands[i], i, Tail(queue), p, requests)
  <2>1. AnswerOf(commands[i], i, queue, adapter.pending, requests) BY <1>6 DEF CallsInv
  <2> QED BY <1>1, <1>2, <2>1, AnswerWaits
<1>7. adapter'.pending = p BY <1>1 DEF Shape, AdapterFields
<1> HIDE DEF p
<1> QED BY <1>1, <1>3, <1>4, <1>5, <1>6, <1>7 DEF CallsInv

LEMMA ServesCallKeeps == ASSUME CallsInv, ServesCall PROVE CallsInv'
<1>1. /\ requests # <<>> /\ adapter'.pending = adapter.pending
      /\ AdapterFits(adapter') /\ ModemFits(modem') /\ UNCHANGED <<world, events, commands>>
  BY DEF ServesCall
<1>2. IsSeq(queue) /\ IsSeq(adapter.pending) /\ IsSeq(requests) BY DEF CallsInv, AllFit
<1>3. AllFit("requests", world, commands, Tail(requests)) BY <1>1, FitRemoved DEF CallsInv
<1>4. ASSUME AllFit("queue", world, commands, queue'),
             AllFit("requests", world, commands, requests'),
             \A i \in DOMAIN commands : ~Excused(commands[i]) =>
                 AnswerOf(commands[i], i, queue', adapter.pending, requests')
      PROVE  CallsInv'
  BY <1>1, <1>4 DEF CallsInv
<1>5. CASE queue' = queue /\ \A n \in DOMAIN commands : ~Bears(Head(requests), n)
  <2>1. ASSUME NEW i \in DOMAIN commands, ~Excused(commands[i])
        PROVE  /\ AnswerOf(commands[i], i, queue, adapter.pending, Tail(requests))
               /\ \A m : ~Bears(m, i) =>
                      AnswerOf(commands[i], i, queue, adapter.pending, <<m>> \o Tail(requests))
    <3>1. AnswerOf(commands[i], i, queue, adapter.pending, requests) BY <2>1 DEF CallsInv
    <3>2. ~Bears(Head(requests), i) BY <1>5, <2>1
    <3> QED BY <1>1, <1>2, <3>1, <3>2, AnswerUnserved
  <2>2. CASE requests' = Tail(requests) BY <1>3, <1>4, <1>5, <2>1, <2>2 DEF CallsInv
  <2>3. ASSUME NEW m, RequestOf(world, commands, m), "n" \notin DOMAIN m,
               requests' = <<m>> \o Tail(requests)
        PROVE  CallsInv'
    <3> DEFINE s == <<m>>
    <3>1. s = Append(<<>>, m) /\ Fits("requests", world, commands, m) BY <2>3 DEF Fits
    <3> HIDE DEF s
    <3>2. AllFit("requests", world, commands, s) BY <3>1, NoneFits, FitAdded
    <3>3. AllFit("requests", world, commands, s \o Tail(requests)) BY <3>2, <1>3, FitJoined
    <3>4. \A i : ~Bears(m, i) BY <2>3 DEF Bears
    <3>5. \A i \in DOMAIN commands : ~Excused(commands[i]) =>
             AnswerOf(commands[i], i, queue', adapter.pending, requests')
      BY <1>5, <2>1, <2>3, <3>4
    <3>6. AllFit("requests", world, commands, requests') BY <2>3, <3>3 DEF s
    <3> QED BY <1>4, <1>5, <3>5, <3>6 DEF CallsInv
  <2>4. CASE requests' # Tail(requests)
    <3>1. CASE \E m : /\ RequestOf(world, commands, m) /\ "n" \notin DOMAIN m
                      /\ requests' = <<m>> \o Tail(requests)
      BY <2>3, <3>1
    <3>2. CASE \E m : queue' = Append(queue, m) /\ requests' = Tail(requests) BY <2>4, <3>2
    <3> QED BY <2>4, <3>1, <3>2 DEF ServesCall
  <2> QED BY <2>2, <2>4
<1>6. ASSUME NEW m, MessageOf(world, commands, m),
             queue' = Append(queue, m), requests' = Tail(requests),
             \A n \in DOMAIN commands :
                /\ Bears(m, n) <=> Bears(Head(requests), n)
                /\ Owed(commands[n], m) = Owed(commands[n], Head(requests))
      PROVE  CallsInv'
  <2>1. Fits("queue", world, commands, m) BY <1>6 DEF Fits
  <2>2. AllFit("queue", world, commands, Append(queue, m)) BY <2>1, FitAdded DEF CallsInv
  <2>3. ASSUME NEW i \in DOMAIN commands, ~Excused(commands[i])
        PROVE  AnswerOf(commands[i], i, Append(queue, m), adapter.pending, Tail(requests))
    <3>1. AnswerOf(commands[i], i, queue, adapter.pending, requests) BY <2>3 DEF CallsInv
    <3>2. /\ Bears(m, i) <=> Bears(Head(requests), i)
          /\ Owed(commands[i], m) = Owed(commands[i], Head(requests))
      BY <1>6, <2>3
    <3> QED BY <1>1, <1>2, <3>1, <3>2, AnswerServed
  <2> QED BY <1>3, <1>4, <1>6, <2>2, <2>3
<1> QED BY <1>5, <1>6 DEF ServesCall

LEMMA DisturbsKeeps == ASSUME CallsInv, Disturbs PROVE CallsInv'
<1>1. /\ events' \in 0..MaxEvents /\ UNCHANGED <<world, commands>>
      /\ adapter'.pending = adapter.pending /\ AdapterFits(adapter') /\ ModemFits(modem')
  BY DEF Disturbs
<1>2. IsSeq(queue) /\ IsSeq(requests) BY DEF CallsInv, AllFit
<1>3. ASSUME AllFit("queue", world, commands, queue'),
             AllFit("requests", world, commands, requests'),
             \A i \in DOMAIN commands : ~Excused(commands[i]) =>
                 AnswerOf(commands[i], i, queue', adapter.pending, requests')
      PROVE  CallsInv'
  BY <1>1, <1>3 DEF CallsInv
<1>4. ASSUME NEW m, "n" \notin DOMAIN m, NEW i \in DOMAIN commands, ~Excused(commands[i])
      PROVE  /\ AnswerOf(commands[i], i, Append(queue, m), adapter.pending, requests)
             /\ AnswerOf(commands[i], i, queue, adapter.pending, Append(requests, m))
  <2>1. AnswerOf(commands[i], i, queue, adapter.pending, requests) BY <1>4 DEF CallsInv
  <2>2. ~Bears(m, i) BY <1>4 DEF Bears
  <2> QED BY <1>2, <2>1, <2>2, AnswerAdded
<1>5. ASSUME NEW m, RequestOf(world, commands, m), "n" \notin DOMAIN m, UNCHANGED queue,
             requests' = Append(requests, m)
      PROVE  CallsInv'
  <2>1. AllFit("requests", world, commands, Append(requests, m))
    BY <1>5, FitAdded DEF CallsInv, Fits
  <2>2. AllFit("queue", world, commands, queue) BY DEF CallsInv
  <2> QED BY <1>3, <1>4, <1>5, <2>1, <2>2
<1>6. ASSUME NEW m, MessageOf(world, commands, m), "n" \notin DOMAIN m, UNCHANGED requests,
             queue' = Append(queue, m)
      PROVE  CallsInv'
  <2>1. Fits("queue", world, commands, m) BY <1>6 DEF Fits
  <2>2. AllFit("queue", world, commands, Append(queue, m)) BY <2>1, FitAdded DEF CallsInv
  <2>3. AllFit("requests", world, commands, requests) BY DEF CallsInv
  <2> QED BY <1>3, <1>4, <1>6, <2>2, <2>3
<1> QED BY <1>5, <1>6 DEF Disturbs

(* Nothing that is under way bears the number of the next call.              *)
LEMMA NewIsFree ==
    ASSUME CallsInv
    PROVE  /\ Len(commands) + 1 \notin DOMAIN commands /\ Len(commands) + 1 # 0
           /\ Free(Len(commands) + 1, queue) /\ Free(Len(commands) + 1, adapter.pending)
           /\ Free(Len(commands) + 1, requests)
<1> DEFINE n == Len(commands) + 1
<1>1. n \notin DOMAIN commands /\ n # 0
  <2>1. Len(commands) \in Nat /\ DOMAIN commands = 1..Len(commands) BY Added DEF CallsInv
  <2> QED BY <2>1
<1> HIDE DEF n
<1>2. ASSUME NEW m, MessageOf(world, commands, m) PROVE ~Bears(m, n)
  BY <1>1, <1>2 DEF MessageOf, Bears
<1>3. ASSUME NEW m, RequestOf(world, commands, m) PROVE ~Bears(m, n)
  BY <1>1, <1>3 DEF RequestOf, Bears
<1>4. Free(n, queue) /\ Free(n, adapter.pending) BY <1>2 DEF CallsInv, AllFit, Fits, Free
<1>5. Free(n, requests) BY <1>3 DEF CallsInv, AllFit, Fits, Free
<1> QED BY <1>1, <1>4, <1>5 DEF n

LEMMA AddsCallKeeps == ASSUME CallsInv, AddsCall PROVE CallsInv'
<1>1. PICK c, m :
        /\ Len(commands) < MaxCommands /\ commands' = Append(commands, c)
        /\ IsCommand(world, c) /\ ToldBut(c, DOMAIN c.told)
        /\ queue' = Append(queue, m) /\ "n" \in DOMAIN m /\ m.n = Len(commands) + 1
        /\ "id" \notin DOMAIN m /\ m.type = c.kind /\ m.arg = c.arg
        /\ UNCHANGED <<world, events, adapter, requests, modem>>
  BY DEF AddsCall
<1> DEFINE n == Len(commands) + 1
<1>2. IsSeq(commands) /\ IsSeq(queue) BY DEF CallsInv, AllFit
<1>3. /\ IsSeq(commands') /\ DOMAIN commands = 1..Len(commands) /\ Len(commands) \in Nat
      /\ DOMAIN commands' = 1..n
      /\ \A k \in DOMAIN commands : commands'[k] = commands[k]
      /\ commands'[n] = c
  BY <1>1, <1>2, Added
<1>4. Len(commands') = n /\ n <= MaxCommands
  <2>1. Len(commands') \in Nat /\ DOMAIN commands' = 1..Len(commands') BY <1>3, Added
  <2> QED BY <1>1, <1>3, <2>1, GnssConfigAssumption
<1>5. n \in DOMAIN commands' /\ n \notin DOMAIN commands BY <1>3
<1>6. \A i \in DOMAIN commands' : i = n \/ i \in DOMAIN commands BY <1>3
<1>7. Free(n, queue) /\ Free(n, adapter.pending) /\ Free(n, requests) BY NewIsFree
<1>8. m.n = n BY <1>1
<1> HIDE DEF n
<1>9. KeepsCalls(commands, commands') BY <1>3, <1>6, <1>5 DEF KeepsCalls
<1>10. MessageOf(world, commands', m)
  <2>1. c.kind \in Kinds /\ c.kind \notin {"up", "lock", "response"}
    BY <1>1 DEF IsCommand, Kinds
  <2>2. m.type \in Kinds /\ m.type \notin {"up", "lock", "response"} BY <1>1, <2>1
  <2>3. "n" \in DOMAIN m /\ m.n \in DOMAIN commands' /\ "id" \notin DOMAIN m
    BY <1>1, <1>5, <1>8
  <2>4. commands'[m.n].kind = m.type /\ commands'[m.n].arg = m.arg BY <1>1, <1>3, <1>8
  <2> QED BY <2>2, <2>3, <2>4 DEF MessageOf
<1>11. /\ AllFit("queue", world, commands', Append(queue, m))
       /\ AllFit("queue", world, commands', adapter.pending)
       /\ AllFit("requests", world, commands', requests)
  <2>1. Fits("queue", world, commands', m) BY <1>10 DEF Fits
  <2>2. /\ AllFit("queue", world, commands', queue)
        /\ AllFit("queue", world, commands', adapter.pending)
        /\ AllFit("requests", world, commands', requests)
    BY <1>9, FitsKept DEF CallsInv
  <2> QED BY <2>1, <2>2, FitAdded
<1>12. \A i \in DOMAIN commands' : IsCommand(world, commands'[i])
  BY <1>1, <1>3, <1>6 DEF CallsInv
<1>13. ASSUME NEW i \in DOMAIN commands', ~Excused(commands'[i])
       PROVE  AnswerOf(commands'[i], i, Append(queue, m), adapter.pending, requests)
  <2>1. CASE i \in DOMAIN commands
    <3>1. AnswerOf(commands[i], i, queue, adapter.pending, requests)
      BY <1>3, <1>13, <2>1 DEF CallsInv
    <3>2. ~Bears(m, i) BY <1>5, <1>8, <2>1 DEF Bears
    <3>3. IsSeq(requests) BY DEF CallsInv, AllFit
    <3>4. AnswerOf(commands[i], i, Append(queue, m), adapter.pending, requests)
      BY <1>2, <3>1, <3>2, <3>3, AnswerAdded
    <3> QED BY <1>3, <2>1, <3>4
  <2>2. CASE i = n
    <3>1. Bears(m, n) /\ ToldBut(c, Owed(c, m)) BY <1>1, <1>8 DEF Bears, Owed
    <3>2. Holds(c, n, Append(queue, m)) BY <1>2, <1>7, <3>1, BearsAdded
    <3>3. AnswerOf(c, n, Append(queue, m), adapter.pending, requests)
      BY <1>7, <3>2 DEF AnswerOf
    <3> QED BY <1>3, <2>2, <3>3
  <2> QED BY <1>6, <2>1, <2>2
<1>14. Len(commands') <= MaxCommands BY <1>4
<1> QED BY <1>1, <1>3, <1>11, <1>12, <1>13, <1>14 DEF CallsInv

-----------------------------------------------------------------------------
(* What the adapter sends of its own accord fits, and bears no call's number. *)
Tame(x) ==
    /\ IsStep(x) /\ AllFit("requests", world, commands, x.out)
    /\ \A n \in DOMAIN commands : Free(n, x.out)

LEMMA TameOpen == ASSUME NEW a PROVE Tame(Open(a)) /\ Open(a).state = a
<1>1. IsStep(Open(a)) /\ Open(a).state = a /\ Open(a).out = <<>> BY NothingSent
<1> QED BY <1>1, NoneFits, NoneBears DEF Tame

LEMMA SendOut ==
    ASSUME NEW x, IsStep(x), NEW r
    PROVE  /\ IsStep(Send(x, r)) /\ Send(x, r).out = Append(x.out, r)
           /\ Send(x, r).state = x.state
<1>1. Send(x, r).out = Append(x.out, r) /\ Send(x, r).state = x.state
      /\ DOMAIN Send(x, r) = {"state", "out"}
  BY DEF Send, IsStep
<1>2. IsSeq(Append(x.out, r)) BY Added DEF IsStep
<1> QED BY <1>1, <1>2 DEF IsStep

LEMMA TameSend ==
    ASSUME CallsInv, NEW x, Tame(x), NEW r, RequestOf(world, commands, r),
           "n" \in DOMAIN r => r.n = 0
    PROVE  Tame(Send(x, r)) /\ Send(x, r).state = x.state
<1> DEFINE y == Send(x, r)
<1>1. IsStep(y) /\ y.out = Append(x.out, r) /\ y.state = x.state BY SendOut DEF Tame
<1> HIDE DEF y
<1>2. Fits("requests", world, commands, r) BY DEF Fits
<1>3. AllFit("requests", world, commands, y.out) BY <1>1, <1>2, FitAdded DEF Tame
<1>4. 0 \notin DOMAIN commands
  <2>1. Len(commands) \in Nat /\ DOMAIN commands = 1..Len(commands) BY Added DEF CallsInv
  <2> QED BY <2>1
<1>5. ASSUME NEW n \in DOMAIN commands PROVE Free(n, y.out)
  <2>1. ~Bears(r, n) BY <1>4 DEF Bears
  <2> QED BY <1>1, <2>1, BearsAdded DEF Tame, IsStep
<1> QED BY <1>1, <1>3, <1>5 DEF Tame, y

LEMMA MasksCombine ==
    ASSUME NEW mask, IsMask(mask), NEW types
    PROVE  IsMask(combineBlacklistSvs(mask, types))
  BY DEF IsMask, combineBlacklistSvs

LEMMA TypesCombine ==
    ASSUME NEW a, IsTypes(a.api), IsTypes(a.xtra)
    PROVE  /\ IsTypes(CombinedTypes(a)) /\ CombinedTypes(a).on \subseteq SvTypes
           /\ CombinedTypes(a).off \subseteq SvTypes
  BY DEF IsTypes, CombinedTypes, gnssCombineSvTypeConfigs

LEMMA TameReset ==
    ASSUME CallsInv, NEW x, Tame(x)
    PROVE  /\ Tame(Send(x, [op |-> "reset"]))
           /\ Send(x, [op |-> "reset"]).state = x.state
<1> DEFINE r == [op |-> "reset"]
<1>1. r.op = "reset" /\ "n" \notin DOMAIN r /\ "id" \notin DOMAIN r  OBVIOUS
<1> HIDE DEF r
<1>2. RequestOf(world, commands, r) BY <1>1 DEF RequestOf, RequestFits, Answering
<1>3. Tame(Send(x, r)) /\ Send(x, r).state = x.state BY <1>1, <1>2, TameSend
<1> QED BY <1>3 DEF r

LEMMA TameControl ==
    ASSUME CallsInv, NEW x, Tame(x), NEW on, on \subseteq SvTypes
    PROVE  /\ Tame(Send(x, [op |-> "control", on |-> on]))
           /\ Send(x, [op |-> "control", on |-> on]).state = x.state
<1> DEFINE r == [op |-> "control", on |-> on]
<1>1. r.op = "control" /\ "n" \notin DOMAIN r /\ "id" \notin DOMAIN r /\ r.on = on
  OBVIOUS
<1> HIDE DEF r
<1>2. RequestOf(world, commands, r) BY <1>1 DEF RequestOf, RequestFits, Answering
<1>3. Tame(Send(x, r)) /\ Send(x, r).state = x.state BY <1>1, <1>2, TameSend
<1> QED BY <1>3 DEF r

LEMMA TameBlacklist ==
    ASSUME CallsInv, NEW x, Tame(x), NEW mask, IsMask(mask)
    PROVE  Tame(SetBlacklistSv(x, mask, 0)) /\ SetBlacklistSv(x, mask, 0).state = x.state
<1> DEFINE r == [op |-> "blacklist", n |-> 0, mask |-> mask]
<1>1. r.op = "blacklist" /\ "n" \in DOMAIN r /\ r.n = 0 /\ "id" \notin DOMAIN r /\ r.mask = mask
  OBVIOUS
<1>2. SetBlacklistSv(x, mask, 0) = Send(x, r) BY DEF SetBlacklistSv
<1> HIDE DEF r
<1>3. RequestOf(world, commands, r) BY <1>1 DEF RequestOf, RequestFits, Answering
<1> QED BY <1>1, <1>2, <1>3, TameSend

LEMMA TameBand ==
    ASSUME CallsInv, NEW x, Tame(x)
    PROVE  /\ Tame(gnssSecondaryBandConfigUpdate(x, 0))
           /\ gnssSecondaryBandConfigUpdate(x, 0).state = x.state
<1> DEFINE r == [op |-> "band", n |-> 0, value |-> x.state.band]
<1>1. r.op = "band" /\ "n" \in DOMAIN r /\ r.n = 0 /\ "id" \notin DOMAIN r  OBVIOUS
<1>2. gnssSecondaryBandConfigUpdate(x, 0) = x \/ gnssSecondaryBandConfigUpdate(x, 0) = Send(x, r)
  BY DEF gnssSecondaryBandConfigUpdate
<1> HIDE DEF r
<1>3. RequestOf(world, commands, r) BY <1>1 DEF RequestOf, RequestFits, Answering
<1>4. Tame(Send(x, r)) /\ Send(x, r).state = x.state BY <1>1, <1>3, TameSend
<1> QED BY <1>2, <1>4

LEMMA TameSvId ==
    ASSUME CallsInv, NEW x, Tame(x), IsMask(x.state.mask)
    PROVE  Tame(gnssSvIdConfigUpdate(x)) /\ gnssSvIdConfigUpdate(x).state = x.state
<1> DEFINE mask == combineBlacklistSvs(x.state.mask, CombinedTypes(x.state))
<1>1. IsMask(mask) BY MasksCombine
<1>2. gnssSvIdConfigUpdate(x) = SetBlacklistSv(x, mask, 0) BY DEF gnssSvIdConfigUpdate
<1> HIDE DEF mask
<1> QED BY <1>1, <1>2, TameBlacklist

LEMMA TameSvTypeAtRestart ==
    ASSUME CallsInv, NEW x, Tame(x), IsTypes(x.state.api), IsTypes(x.state.xtra)
    PROVE  /\ Tame(gnssSvTypeConfigUpdateAtRestart(x))
           /\ gnssSvTypeConfigUpdateAtRestart(x).state = x.state
<1> DEFINE on == CombinedTypes(x.state).on
           y == gnssSvTypeConfigUpdateAtRestart(x)
<1>1. on \subseteq SvTypes BY TypesCombine
<1>2. y = x \/ y = Send(x, [op |-> "control", on |-> on])
  BY DEF gnssSvTypeConfigUpdateAtRestart
<1> HIDE DEF on, y
<1>3. Tame(y) /\ y.state = x.state BY <1>1, <1>2, TameControl
<1> QED BY <1>3 DEF y

LEMMA TameSvType ==
    ASSUME CallsInv, NEW x, Tame(x), IsMask(x.state.mask), NEW current, NEW new, IsTypes(new)
    PROVE  /\ Tame(gnssSvTypeConfigUpdate(x, current, new))
           /\ gnssSvTypeConfigUpdate(x, current, new).state = x.state
<1> DEFINE blacklist == combineBlacklistSvs(x.state.mask, new)
           removed == current.on \ new.on
           s == Send(x, [op |-> "reset"])
           r == IF removed # {} THEN s ELSE x
           mask == [t \in Blacklistable |->
                       IF t \in current.off \cap new.on THEN {} ELSE blacklist[t]]
           y == SetBlacklistSv(r, mask, 0)
           z == SetBlacklistSv(s, x.state.mask, 0)
           c == Send(y, [op |-> "control", on |-> new.on])
           u == gnssSvTypeConfigUpdate(x, current, new)
<1>1. u \in {x, z, c, y} BY DEF gnssSvTypeConfigUpdate
<1>2. IsMask(mask) BY MasksCombine DEF IsMask
<1>3. new.on \subseteq SvTypes BY DEF IsTypes
<1>4. Tame(s) /\ s.state = x.state BY TameReset
<1>5. Tame(r) /\ r.state = x.state BY <1>4
<1> HIDE DEF r, s, mask
<1>6. Tame(y) /\ y.state = x.state BY <1>2, <1>5, TameBlacklist
<1>7. Tame(z) /\ z.state = x.state BY <1>4, TameBlacklist
<1> HIDE DEF y, z
<1>8. Tame(c) /\ c.state = x.state BY <1>3, <1>6, TameControl
<1> HIDE DEF c, u
<1>9. Tame(u) /\ u.state = x.state BY <1>1, <1>6, <1>7, <1>8
<1> QED BY <1>9 DEF u

LEMMA TameSetConfig ==
    ASSUME CallsInv, NEW a, AdapterFits(a), LockFits(a)
    PROVE  /\ Tame(setConfig(Open(a)))
           /\ setConfig(Open(a)).state = [a EXCEPT !.mo = IF Inject THEN 1 ELSE 0]
<1> DEFINE mo == IF Inject THEN 1 ELSE 0
           r == [op |-> "update", n |-> 0, flags |-> WrittenBack(a), need |-> WrittenBack(a),
                 lock |-> LockAtRestart(a), list |-> a.list, conf |-> a.conf,
                 mo |-> IF a.mo # mo THEN mo ELSE 0]
           S == {[op |-> "check", mode |-> m] : m \in Modes}
           c == SetToSeq(S)
           x == setConfig(Open(a))
<1>1. x = [state |-> [a EXCEPT !.mo = mo], out |-> <<>> \o <<r>> \o c]
  BY NothingSent DEF setConfig
<1>2. /\ r.op = "update" /\ "n" \in DOMAIN r /\ r.n = 0 /\ "id" \notin DOMAIN r
      /\ r.lock = LockAtRestart(a) /\ r.flags = WrittenBack(a) /\ r.conf = a.conf
  OBVIOUS
<1> HIDE DEF r
<1>3. RequestOf(world, commands, r)
  <2>1. LockAtRestart(a) \subseteq Bits BY DEF LockAtRestart, LockFits
  <2>2. WrittenBack(a) \cap Engine \subseteq Kept BY DEF WrittenBack, Engine, Kept, Injected
  <2>3. \A i \in WrittenBack(a) \cap Engine : a.conf[i] \in Nat BY <2>2 DEF AdapterFits
  <2>4. RequestFits(r) BY <1>2, <2>1, <2>3 DEF RequestFits
  <2> QED BY <1>2, <2>4 DEF RequestOf, Answering
<1>4. 0 \notin DOMAIN commands
  <2>1. Len(commands) \in Nat /\ DOMAIN commands = 1..Len(commands) BY Added DEF CallsInv
  <2> QED BY <2>1
<1>5. ASSUME NEW s \in S PROVE "n" \notin DOMAIN s /\ Fits("requests", world, commands, s)
  <2>1. s.op = "check" /\ "n" \notin DOMAIN s /\ "id" \notin DOMAIN s  OBVIOUS
  <2> HIDE DEF S
  <2>2. RequestOf(world, commands, s) BY <2>1 DEF RequestOf, RequestFits, Answering
  <2> QED BY <2>1, <2>2 DEF Fits
<1>6. IsFiniteSet(S) BY FiniteChecks
<1> HIDE DEF S
<1>7. IsSeq(c) /\ \A k \in DOMAIN c : c[k] \in S BY <1>6, ListOfSet
<1> HIDE DEF c
<1>8. AllFit("requests", world, commands, c) /\ \A n : Free(n, c)
  BY <1>5, <1>7 DEF AllFit, Free, Bears
<1> DEFINE b == <<r>>
<1>9. b = Append(<<>>, r) /\ <<>> \o b = b  OBVIOUS
<1> HIDE DEF b
<1>10. AllFit("requests", world, commands, b)
  <2>1. Fits("requests", world, commands, r) BY <1>3 DEF Fits
  <2> QED BY <1>9, <2>1, NoneFits, FitAdded
<1>11. \A n \in DOMAIN commands : Free(n, b)
  <2>1. \A n \in DOMAIN commands : ~Bears(r, n) BY <1>2, <1>4 DEF Bears
  <2> QED BY <1>9, <2>1, NoElements, NoneBears, BearsAdded
<1>12. AllFit("requests", world, commands, b \o c) BY <1>8, <1>10, FitJoined
<1>13. \A n \in DOMAIN commands : Free(n, b \o c)
  <2>1. IsSeq(b) /\ IsSeq(c) BY <1>8, <1>10 DEF AllFit
  <2> QED BY <1>8, <1>11, <2>1, BearsJoined
<1> DEFINE d == b \o c
<1>14. x = [state |-> [a EXCEPT !.mo = mo], out |-> d] BY <1>1, <1>9 DEF b
<1>15. IsSeq(d) /\ AllFit("requests", world, commands, d) /\ \A n \in DOMAIN commands : Free(n, d)
  BY <1>12, <1>13 DEF AllFit
<1> HIDE DEF d, x
<1>16. x.state = [a EXCEPT !.mo = mo] /\ x.out = d /\ DOMAIN x = {"state", "out"} BY <1>14
<1> QED BY <1>15, <1>16 DEF Tame, IsStep, x

(* The engine is up: the configuration is written back.                      *)
LEMMA UpIsNews == ASSUME Shape, LockFits(adapter), CallsInv, handleEngineUpEvent PROVE HandlesNews
<1> DEFINE a == [adapter EXCEPT !.known = TRUE]
           b == [a EXCEPT !.mo = IF Inject THEN 1 ELSE 0]
           x1 == setConfig(Open(a))
           x2 == gnssSvIdConfigUpdate(x1)
           x3 == gnssSvTypeConfigUpdateAtRestart(x2)
           x == gnssSecondaryBandConfigUpdate(x3, 0)
<1>1. DOMAIN adapter = AdapterFields BY DEF Shape
<1>2. /\ AdapterFits(a) /\ LockFits(a) /\ a.pending = adapter.pending
      /\ AdapterFits(b) /\ b.pending = adapter.pending
      /\ AdapterFits([b EXCEPT !.pending = <<>>])
  BY <1>1 DEF CallsInv, AdapterFits, LockFits, AdapterFields
<1>3. /\ IsMask(b.mask) /\ IsTypes(b.api) /\ IsTypes(b.xtra) BY <1>2 DEF AdapterFits
<1>4. /\ queue # <<>> /\ Head(queue).type = "up" /\ UNCHANGED commands
      /\ IF adapter.locked THEN Done(x) ELSE Revive(x)
  BY <1>1 DEF handleEngineUpEvent, Message, AdapterFields
<1> HIDE DEF a
<1>5. Tame(x1) /\ x1.state = b BY <1>2, TameSetConfig
<1> HIDE DEF x1, b
<1>6. Tame(x2) /\ x2.state = b BY <1>3, <1>5, TameSvId
<1> HIDE DEF x2
<1>7. Tame(x3) /\ x3.state = b BY <1>3, <1>6, TameSvTypeAtRestart
<1> HIDE DEF x3
<1>8. Tame(x) /\ x.state = b BY <1>7, TameBand
<1> HIDE DEF x
<1>9. "n" \notin DOMAIN Head(queue)
  <2>1. Fits("queue", world, commands, Head(queue)) BY <1>4, FitRemoved DEF CallsInv
  <2> QED BY <1>4, <2>1 DEF Fits, MessageOf
<1>10. /\ requests' = requests \o x.out /\ UNCHANGED <<world, modem, events>>
       /\ \/ queue' = Tail(queue) /\ adapter' = b
          \/ queue' = Tail(queue) \o adapter.pending /\ adapter' = [b EXCEPT !.pending = <<>>]
  BY <1>4, <1>8 DEF Done, Revive
<1>11. "pending" \in DOMAIN b BY <1>1 DEF a, b, AdapterFields
<1>12. /\ AdapterFits(adapter')
       /\ \/ queue' = Tail(queue) /\ adapter'.pending = adapter.pending
          \/ queue' = Tail(queue) \o adapter.pending /\ adapter'.pending = <<>>
  BY <1>2, <1>10, <1>11
<1> QED BY <1>4, <1>8, <1>9, <1>10, <1>12 DEF HandlesNews, Tame

(* The engine was locked or unlocked.                                        *)
LEMMA LockIsNews == ASSUME Shape, CallsInv, handleEngineLockStatus PROVE HandlesNews
<1>1. DOMAIN adapter = AdapterFields BY DEF Shape
<1>2. queue # <<>> /\ Head(queue).type = "lock" /\ UNCHANGED commands
  BY DEF handleEngineLockStatus, Message
<1>3. "n" \notin DOMAIN Head(queue)
  <2>1. Fits("queue", world, commands, Head(queue)) BY <1>2, FitRemoved DEF CallsInv
  <2> QED BY <1>2, <2>1 DEF Fits, MessageOf
<1>4. PICK lock :
        LET b == [adapter EXCEPT !.xtraLock = lock] IN Done(Open(b)) \/ Revive(Open(b))
  BY DEF handleEngineLockStatus
<1> DEFINE b == [adapter EXCEPT !.xtraLock = lock]
           x == Open(b)
<1>5. Tame(x) /\ x.state = b BY TameOpen
<1>6. /\ AdapterFits(b) /\ b.pending = adapter.pending /\ AdapterFits([b EXCEPT !.pending = <<>>])
      /\ "pending" \in DOMAIN b
  BY <1>1 DEF CallsInv, AdapterFits, AdapterFields
<1>7. Done(x) \/ Revive(x) BY <1>4
<1> HIDE DEF x, b
<1>8. /\ requests' = requests \o x.out /\ UNCHANGED <<world, modem, events>>
      /\ \/ queue' = Tail(queue) /\ adapter' = b
         \/ queue' = Tail(queue) \o adapter.pending /\ adapter' = [b EXCEPT !.pending = <<>>]
  BY <1>5, <1>7 DEF Done, Revive
<1>9. /\ AdapterFits(adapter')
      /\ \/ queue' = Tail(queue) /\ adapter'.pending = adapter.pending
         \/ queue' = Tail(queue) \o adapter.pending /\ adapter'.pending = <<>>
  BY <1>6, <1>8
<1> QED BY <1>2, <1>3, <1>5, <1>8, <1>9 DEF HandlesNews, Tame

-----------------------------------------------------------------------------
(* Every call is added as one.                                               *)
LEMMA AskAdds ==
    ASSUME CallsInv, NEW freedom, MayAsk(freedom), NEW kind, NEW ids, NEW arg,
           Ask(kind, ids, arg), kind \in Kinds,
           kind = "update" => arg \in Updates /\ ids = Cardinality(arg.flags),
           kind = "get" => arg \in Gets /\ ids = Cardinality(arg),
           kind \in {"nfw", "types"} => ids = 0,
           kind \notin {"update", "get", "nfw", "types"} => ids = 1,
           kind = "types" => arg.source \in {"api", "xtra"} /\ IsTypes(arg.types),
           kind = "svs" => IsTypes(arg.types) /\ IsMask(arg.mask),
           kind = "week" => arg \in Nat
    PROVE  AddsCall
<1> DEFINE m == [type |-> kind, n |-> Len(commands) + 1, arg |-> arg]
           told == [i \in 1..ids |-> 0]
           c == [kind |-> kind, arg |-> arg, told |-> told, wrong |-> FALSE]
<1>1. /\ queue' = Append(queue, m) /\ commands' = Append(commands, c)
      /\ UNCHANGED <<world, events, adapter, requests, modem>>
  BY DEF Ask
<1>2. Len(commands) < MaxCommands BY DEF MayAsk
<1>3. /\ "n" \in DOMAIN m /\ m.n = Len(commands) + 1
      /\ "id" \notin DOMAIN m /\ m.type = kind /\ m.arg = arg
  OBVIOUS
<1>4. told = [i \in 1..ids |-> told[i]] /\ \A i \in DOMAIN told : told[i] = 0  OBVIOUS
<1> HIDE DEF told
<1>5. /\ DOMAIN c = {"kind", "arg", "told", "wrong"}
      /\ c.kind = kind /\ c.arg = arg /\ c.told = told /\ ~c.wrong
  OBVIOUS
<1> HIDE DEF m, c
<1>6. Ids(c) = ids BY <1>5 DEF Ids, Kinds
<1>7. IsCommand(world, c) BY <1>4, <1>5, <1>6 DEF IsCommand
<1>8. ToldBut(c, DOMAIN c.told) BY <1>4, <1>5 DEF ToldBut
<1> QED BY <1>1, <1>2, <1>3, <1>5, <1>7, <1>8 DEF AddsCall

LEMMA TypesFit == IsTypes(DefaultTypes) /\ \A types \in TypeConfigs : IsTypes(types)
  BY GnssConfigAssumption DEF IsTypes, DefaultTypes

LEMMA CallersAdd == ASSUME CallsInv, Callers PROVE AddsCall
<1>1. ASSUME NEW u \in Updates, gnssUpdateConfig(u) PROVE AddsCall
  <2>1. MayAsk("update") /\ Ask("update", Cardinality(u.flags), u) BY <1>1 DEF gnssUpdateConfig
  <2> QED BY <2>1, AskAdds DEF Kinds
<1>2. ASSUME NEW flags \in Gets, gnssGetConfig(flags) PROVE AddsCall
  <2>1. MayAsk("get") /\ Ask("get", Cardinality(flags), flags) BY <1>2 DEF gnssGetConfig
  <2> QED BY <2>1, AskAdds DEF Kinds
<1>3. ASSUME enable PROVE AddsCall
  <2>1. MayAsk("enable") /\ Ask("enable", 1, 0) BY <1>3 DEF enable
  <2> QED BY <2>1, AskAdds DEF Kinds
<1>4. ASSUME NEW id, disable(id) PROVE AddsCall
  <2>1. MayAsk("enable") /\ Ask("disable", 1, id) BY <1>4 DEF disable
  <2> QED BY <2>1, AskAdds DEF Kinds
<1>5. ASSUME NEW nfws, enableNfwLocationAccess(nfws) PROVE AddsCall
  <2>1. MayAsk("nfw") /\ Ask("nfw", 0, nfws) BY <1>5 DEF enableNfwLocationAccess
  <2> QED BY <2>1, AskAdds DEF Kinds
<1>6. ASSUME NEW source \in {"api", "xtra"}, NEW types \in TypeConfigs,
             gnssUpdateSvTypeConfig(source, types)
      PROVE  AddsCall
  <2> DEFINE arg == [source |-> source, types |-> types]
  <2>1. MayAsk("types") /\ Ask("types", 0, arg) BY <1>6 DEF gnssUpdateSvTypeConfig
  <2>2. arg.source \in {"api", "xtra"} /\ IsTypes(arg.types) BY TypesFit
  <2> HIDE DEF arg
  <2> QED BY <2>1, <2>2, AskAdds DEF Kinds
<1>7. ASSUME gnssResetSvTypeConfig PROVE AddsCall
  <2> DEFINE arg == [source |-> "api", types |-> DefaultTypes]
  <2>1. MayAsk("types") /\ Ask("types", 0, arg) BY <1>7 DEF gnssResetSvTypeConfig
  <2>2. arg.source \in {"api", "xtra"} /\ IsTypes(arg.types) BY TypesFit
  <2> HIDE DEF arg
  <2> QED BY <2>1, <2>2, AskAdds DEF Kinds
<1>8. ASSUME NEW types \in TypeConfigs \cup {DefaultTypes}, NEW mask \in Masks,
             configConstellations(types, mask)
      PROVE  AddsCall
  <2> DEFINE arg == [types |-> types, mask |-> mask]
  <2>1. MayAsk("svs") /\ Ask("svs", 1, arg) BY <1>8 DEF configConstellations
  <2>2. IsMask(mask) BY GnssConfigAssumption DEF IsMask
  <2>3. IsTypes(arg.types) /\ IsMask(arg.mask) BY <2>2, TypesFit
  <2> HIDE DEF arg
  <2> QED BY <2>1, <2>3, AskAdds DEF Kinds
<1>9. ASSUME NEW value, configConstellationSecondaryBand(value) PROVE AddsCall
  <2>1. MayAsk("band") /\ Ask("band", 1, value) BY <1>9 DEF configConstellationSecondaryBand
  <2> QED BY <2>1, AskAdds DEF Kinds
<1>10. ASSUME NEW m, NEW value, configMode(m, value) PROVE AddsCall
  <2> DEFINE arg == [mode |-> m, value |-> value]
  <2>1. MayAsk("modes") /\ Ask("mode", 1, arg) BY <1>10 DEF configMode
  <2> HIDE DEF arg
  <2> QED BY <2>1, AskAdds DEF Kinds
<1>11. ASSUME NEW value \in Values, configMinGpsWeek(value) PROVE AddsCall
  <2>1. MayAsk("modes") /\ Ask("week", 1, value) /\ value \in Nat
    BY <1>11, GnssConfigAssumption DEF configMinGpsWeek
  <2> QED BY <2>1, AskAdds DEF Kinds
<1> QED BY <1>1, <1>2, <1>3, <1>4, <1>5, <1>6, <1>7, <1>8, <1>9, <1>10, <1>11 DEF Callers

-----------------------------------------------------------------------------
(* What the handling of a message knows of its call                          *)
LEMMA CallTaken ==
    ASSUME CallsInv, queue # <<>>, Head(queue).type \in Kinds \cup {"response"},
           NEW n, n = Head(queue).n
    PROVE  /\ Bears(Head(queue), n) /\ n \in DOMAIN commands /\ IsCommand(world, commands[n])
           /\ MessageOf(world, commands, Head(queue))
           /\ Head(queue).type \in Kinds =>
                 /\ commands[n].kind = Head(queue).type /\ commands[n].arg = Head(queue).arg
                 /\ Owed(commands[n], Head(queue)) = DOMAIN commands[n].told
<1>1. MessageOf(world, commands, Head(queue)) BY FitRemoved DEF CallsInv, Fits
<1>2. Head(queue).type \notin {"up", "lock"} BY DEF Kinds
<1>3. "n" \in DOMAIN Head(queue) /\ n \in DOMAIN commands BY <1>1, <1>2 DEF MessageOf
<1>4. Head(queue).type \in Kinds =>
         /\ "id" \notin DOMAIN Head(queue)
         /\ commands[n].kind = Head(queue).type /\ commands[n].arg = Head(queue).arg
  BY <1>1 DEF MessageOf
<1> QED BY <1>1, <1>3, <1>4 DEF Bears, Owed, CallsInv

(* It sends one request, that goes on for its call; or none, as its call has *)
(* no answer.                                                                *)
LEMMA SendsOne ==
    ASSUME Shape, CallsInv, queue # <<>>, Head(queue).type \in Kinds, NEW n, n = Head(queue).n,
           NEW x, Tame(x), NEW r, RequestOf(world, commands, r), Bears(r, n), "id" \notin DOMAIN r,
           Done(Send(x, r)), UNCHANGED commands,
           x.state.pending = adapter.pending, AdapterFits(x.state)
    PROVE  HandlesCall
<1> DEFINE out == Append(x.out, r)
           c == commands[n]
<1>1. /\ Bears(Head(queue), n) /\ n \in DOMAIN commands /\ IsCommand(world, c)
      /\ Owed(c, Head(queue)) = DOMAIN c.told
  BY CallTaken
<1>2. /\ adapter' = x.state /\ requests' = requests \o out /\ queue' = Tail(queue)
      /\ UNCHANGED <<world, asked, modem, events>>
  BY SendOut DEF Done, Tame
<1>3. AllFit("requests", world, commands, out) BY FitAdded DEF Fits, Tame
<1>4. ASSUME NEW i \in DOMAIN commands \ {n} PROVE Free(i, out)
  <2>1. ~Bears(r, i) BY <1>4 DEF Bears
  <2> QED BY <1>4, <2>1, BearsAdded DEF Tame, IsStep
<1>5. ASSUME ToldBut(c, Owed(c, Head(queue))) PROVE Holds(c, n, out)
  <2>1. Owed(c, r) = Owed(c, Head(queue)) BY <1>1 DEF Owed
  <2> QED BY <1>1, <1>5, <2>1, BearsAdded DEF Tame, IsStep
<1>6. KeepsCalls(commands, commands') BY DEF KeepsCalls
<1>7. IsSeq(commands) BY DEF CallsInv
<1> HIDE DEF out, c
<1>8. /\ queue # <<>> /\ Bears(Head(queue), n) /\ n \in DOMAIN commands
      /\ queue' = Tail(queue) /\ adapter'.pending = adapter.pending
      /\ requests' = requests \o out /\ AllFit("requests", world, commands', out)
      /\ AdapterFits(adapter') /\ UNCHANGED <<world, modem, events>>
      /\ IsSeq(commands') /\ DOMAIN commands' = DOMAIN commands
      /\ KeepsCalls(commands, commands') /\ IsCommand(world, commands'[n])
  BY <1>1, <1>2, <1>3, <1>6, <1>7 DEF c
<1>9. \A i \in DOMAIN commands \ {n} : commands'[i] = commands[i] /\ Free(i, out) BY <1>4
<1>10. ToldBut(commands[n], Owed(commands[n], Head(queue))) => Holds(commands'[n], n, out)
  BY <1>5 DEF c
<1> QED BY <1>8, <1>9, <1>10 DEF HandlesCall

LEMMA SendsNone ==
    ASSUME Shape, CallsInv, queue # <<>>, Head(queue).type \in Kinds, NEW n, n = Head(queue).n,
           NEW x, Tame(x), Done(x), UNCHANGED commands,
           Excused(commands[n]) \/ DOMAIN commands[n].told = {},
           x.state.pending = adapter.pending, AdapterFits(x.state)
    PROVE  HandlesCall
<1> DEFINE out == x.out
           c == commands[n]
<1>1. Bears(Head(queue), n) /\ n \in DOMAIN commands /\ IsCommand(world, c) BY CallTaken
<1>2. /\ adapter' = x.state /\ requests' = requests \o out /\ queue' = Tail(queue)
      /\ UNCHANGED <<world, asked, modem, events>>
  BY DEF Done
<1>3. AllFit("requests", world, commands, out) /\ \A i \in DOMAIN commands : Free(i, out)
  BY DEF Tame
<1>4. Excused(c) \/ (Free(n, out) /\ ToldBut(c, {})) BY <1>1, <1>3 DEF ToldBut
<1>5. KeepsCalls(commands, commands') BY DEF KeepsCalls
<1>6. IsSeq(commands) BY DEF CallsInv
<1> HIDE DEF out, c
<1>7. /\ queue # <<>> /\ Bears(Head(queue), n) /\ n \in DOMAIN commands
      /\ queue' = Tail(queue) /\ adapter'.pending = adapter.pending
      /\ requests' = requests \o out /\ AllFit("requests", world, commands', out)
      /\ AdapterFits(adapter') /\ UNCHANGED <<world, modem, events>>
      /\ IsSeq(commands') /\ DOMAIN commands' = DOMAIN commands
      /\ KeepsCalls(commands, commands') /\ IsCommand(world, commands'[n])
  BY <1>1, <1>2, <1>3, <1>5, <1>6 DEF c
<1>8. \A i \in DOMAIN commands \ {n} : commands'[i] = commands[i] /\ Free(i, out) BY <1>3
<1>9. ~Excused(commands[n]) => Free(n, out) /\ ToldBut(commands'[n], {}) BY <1>4 DEF c
<1> QED BY <1>7, <1>8, <1>9 DEF HandlesCall

-----------------------------------------------------------------------------
(* The calls whose message sends a request: a configuration,                 *)
LEMMA UpdateGoesOn ==
    ASSUME Shape, LockFits(adapter), CallsInv, ProcUpdate PROVE HandlesCall
<1> DEFINE u == Arg
           locks == "lock" \in u.flags
           lock == IF locks THEN u.lock \cup {"MO"} ELSE adapter.lock
           known == IF "server" \in u.flags /\ (u.server # "supl" \/ ~Inject)
                    THEN u.flags \ {"server"} ELSE u.flags
           conf == [i \in Kept |-> IF i \in known THEN u.value ELSE adapter.conf[i]]
           a == [adapter EXCEPT !.conf = conf, !.lock = lock, !.nfwControl = @ /\ ~locks]
           need == (u.flags \ (IF u.server # "supl" THEN {"server"} ELSE {}))
                   \ (IF adapter.afw # 0 /\ ~adapter.nfwControl THEN {"lock"} ELSE {})
           n == Head(queue).n
           sent == [i \in Kept \cup Engine |-> u.value]
           r == [op |-> "update", n |-> n, flags |-> u.flags, need |-> need,
                 lock |-> IF adapter.afw # 0 /\ adapter.nfwControl THEN {} ELSE lock,
                 list |-> u.list, conf |-> sent, mo |-> adapter.mo]
<1>1. queue # <<>> /\ Head(queue).type = "update" /\ UNCHANGED commands /\ Done(Send(Open(a), r))
  BY DEF ProcUpdate, Received, Message
<1>2. Head(queue).type \in Kinds BY <1>1 DEF Kinds
<1>3. /\ n \in DOMAIN commands /\ IsCommand(world, commands[n])
      /\ commands[n].kind = "update" /\ commands[n].arg = u
  BY <1>1, <1>2, CallTaken DEF Arg
<1>4. u \in Updates BY <1>3 DEF IsCommand
<1>5. u.lock \subseteq Bits /\ u.value \in Nat BY <1>4, GnssConfigAssumption
<1>6. /\ r.op = "update" /\ "n" \in DOMAIN r /\ r.n = n /\ "id" \notin DOMAIN r
      /\ r.flags = u.flags /\ r.need = need /\ r.conf = sent
      /\ r.lock = IF adapter.afw # 0 /\ adapter.nfwControl THEN {} ELSE lock
  OBVIOUS
<1>7. lock \subseteq Bits BY <1>5 DEF LockFits, Bits
<1>8. "server" \in u.flags \ need => u.server # "supl"  OBVIOUS
<1>9. AdapterFits(a) /\ a.pending = adapter.pending
  <2>1. conf \in [Kept -> Nat] BY <1>5 DEF CallsInv, AdapterFits
  <2> HIDE DEF conf, lock
  <2> QED BY <2>1 DEF Shape, CallsInv, AdapterFits, AdapterFields
<1>10. \A i \in Engine : sent[i] \in Nat BY <1>5
<1> HIDE DEF a, r, need, lock, sent
<1>11. RequestOf(world, commands, r)
  <2>1. RequestFits(r) BY <1>6, <1>7, <1>10 DEF RequestFits
  <2>2. "server" \in r.flags \ r.need => Astray(world, commands[n])
    BY <1>3, <1>6, <1>8 DEF Astray
  <2> QED BY <1>3, <1>6, <2>1, <2>2 DEF RequestOf, Answering
<1>12. Bears(r, n) BY <1>6 DEF Bears
<1> DEFINE x == Open(a)
<1>13. Tame(x) /\ x.state = a BY TameOpen
<1>14. Done(Send(x, r)) BY <1>1
<1> HIDE DEF x
<1> QED BY <1>1, <1>2, <1>6, <1>9, <1>11, <1>12, <1>13, <1>14, SendsOne

(* a mode,                                                                   *)
LEMMA ModeGoesOn == ASSUME Shape, CallsInv, ProcMode PROVE HandlesCall
<1> DEFINE a == [adapter EXCEPT !.modes[Arg.mode] = Arg.value]
           n == Head(queue).n
           r == [op |-> "mode", n |-> n, mode |-> Arg.mode, value |-> Arg.value]
           x == Open(a)
<1>1. queue # <<>> /\ Head(queue).type = "mode" /\ UNCHANGED commands /\ Done(Send(x, r))
  BY DEF ProcMode, Received, Message
<1>2. Head(queue).type \in Kinds BY <1>1 DEF Kinds
<1>3. n \in DOMAIN commands /\ commands[n].kind = "mode" BY <1>1, <1>2, CallTaken
<1>4. r.op = "mode" /\ "n" \in DOMAIN r /\ r.n = n /\ "id" \notin DOMAIN r  OBVIOUS
<1>5. AdapterFits(a) /\ a.pending = adapter.pending
  BY DEF Shape, CallsInv, AdapterFits, AdapterFields
<1>6. Tame(x) /\ x.state = a BY TameOpen
<1> HIDE DEF a, r, x
<1>7. Ids(commands[n]) = 1 BY <1>3 DEF Ids
<1>8. RequestOf(world, commands, r) /\ Bears(r, n)
  BY <1>3, <1>4, <1>7 DEF RequestOf, RequestFits, Answering, Bears
<1> QED BY <1>1, <1>2, <1>4, <1>5, <1>6, <1>8, SendsOne

(* the week,                                                                 *)
LEMMA WeekGoesOn == ASSUME Shape, CallsInv, ProcWeek PROVE HandlesCall
<1> DEFINE n == Head(queue).n
           r == [op |-> "week", n |-> n, value |-> Arg]
           x == Open(adapter)
<1>1. queue # <<>> /\ Head(queue).type = "week" /\ UNCHANGED commands /\ Done(Send(x, r))
  BY DEF ProcWeek, Received, Message
<1>2. Head(queue).type \in Kinds BY <1>1 DEF Kinds
<1>3. /\ n \in DOMAIN commands /\ commands[n].kind = "week" /\ commands[n].arg = Arg
      /\ IsCommand(world, commands[n])
  BY <1>1, <1>2, CallTaken DEF Arg
<1>4. r.op = "week" /\ "n" \in DOMAIN r /\ r.n = n /\ "id" \notin DOMAIN r /\ r.value = Arg
  OBVIOUS
<1>5. AdapterFits(adapter) BY DEF CallsInv
<1>6. Tame(x) /\ x.state = adapter BY TameOpen
<1> HIDE DEF r, x
<1>7. Ids(commands[n]) = 1 /\ Arg \in Nat BY <1>3 DEF Ids, IsCommand
<1>8. RequestOf(world, commands, r) /\ Bears(r, n)
  BY <1>3, <1>4, <1>7 DEF RequestOf, RequestFits, Answering, Bears
<1> QED BY <1>1, <1>2, <1>4, <1>5, <1>6, <1>8, SendsOne

(* and the secondary band, unless it has no value.                           *)
LEMMA BandGoesOn == ASSUME Shape, CallsInv, gnssUpdateSecondaryBandConfig PROVE HandlesCall
<1> DEFINE a == [adapter EXCEPT !.band = Arg]
           n == Head(queue).n
           r == [op |-> "band", n |-> n, value |-> Arg]
           x == Open(a)
<1>1. /\ queue # <<>> /\ Head(queue).type = "band" /\ UNCHANGED commands
      /\ Done(gnssSecondaryBandConfigUpdate(x, n))
  BY DEF gnssUpdateSecondaryBandConfig, Received, Message
<1>2. Head(queue).type \in Kinds BY <1>1 DEF Kinds
<1>3. n \in DOMAIN commands /\ commands[n].kind = "band" /\ commands[n].arg = Arg
  BY <1>1, <1>2, CallTaken DEF Arg
<1>4. r.op = "band" /\ "n" \in DOMAIN r /\ r.n = n /\ "id" \notin DOMAIN r  OBVIOUS
<1>5. AdapterFits(a) /\ a.pending = adapter.pending /\ a.band = Arg
  BY DEF Shape, CallsInv, AdapterFits, AdapterFields
<1>6. Tame(x) /\ x.state = a BY TameOpen
<1>7. gnssSecondaryBandConfigUpdate(x, n) = IF Arg # 0 THEN Send(x, r) ELSE x
  BY <1>5, <1>6 DEF gnssSecondaryBandConfigUpdate
<1> HIDE DEF a, r, x
<1>8. CASE Arg # 0
  <2>1. Ids(commands[n]) = 1 BY <1>3 DEF Ids
  <2>2. RequestOf(world, commands, r) /\ Bears(r, n)
    BY <1>3, <1>4, <2>1 DEF RequestOf, RequestFits, Answering, Bears
  <2>3. Done(Send(x, r)) BY <1>1, <1>7, <1>8
  <2> QED BY <1>1, <1>2, <1>4, <1>5, <1>6, <2>2, <2>3, SendsOne
<1>9. CASE Arg = 0
  <2>1. Excused(commands[n]) BY <1>3, <1>9 DEF Excused
  <2>2. Done(x) BY <1>1, <1>7, <1>9
  <2> QED BY <1>1, <1>2, <1>5, <1>6, <2>1, <2>2, SendsNone
<1> QED BY <1>8, <1>9

(* The calls without an answer send what bears no number: other users,       *)
LEMMA NfwGoesOn == ASSUME Shape, LockFits(adapter), CallsInv, ProcNfw PROVE HandlesCall
<1> DEFINE lock == (adapter.lock \cap {"MO"}) \cup (Nfws \ Arg)
           a == [adapter EXCEPT !.lock = lock]
           n == Head(queue).n
           r == [op |-> "lock", lock |-> lock]
           y == Open(a)
           x == IF adapter.nfwControl THEN SetGpsLock(y, lock) ELSE Open(adapter)
<1>1. queue # <<>> /\ Head(queue).type = "nfw" /\ UNCHANGED commands /\ Done(x)
  BY DEF ProcNfw, Received, Message
<1>2. Head(queue).type \in Kinds BY <1>1 DEF Kinds
<1>3. n \in DOMAIN commands /\ commands[n].kind = "nfw" /\ IsCommand(world, commands[n])
  BY <1>1, <1>2, CallTaken
<1>4. DOMAIN commands[n].told = {}
  <2>1. Ids(commands[n]) = 0 BY <1>3 DEF Ids
  <2>2. DOMAIN commands[n].told = 1..0 BY <1>3, <2>1 DEF IsCommand
  <2> QED BY <2>2
<1>5. r.op = "lock" /\ "n" \notin DOMAIN r /\ "id" \notin DOMAIN r /\ r.lock = lock
  OBVIOUS
<1>6. lock \subseteq Bits BY DEF Bits
<1>7. AdapterFits(a) /\ a.pending = adapter.pending /\ AdapterFits(adapter)
  BY DEF Shape, CallsInv, AdapterFits, AdapterFields
<1>8. Tame(y) /\ y.state = a /\ Tame(Open(adapter)) /\ Open(adapter).state = adapter
  BY TameOpen
<1>9. SetGpsLock(y, lock) = Send(y, r) BY DEF SetGpsLock
<1> HIDE DEF a, r, y, lock
<1>10. RequestOf(world, commands, r) BY <1>5, <1>6 DEF RequestOf, RequestFits, Answering
<1>11. Tame(Send(y, r)) /\ Send(y, r).state = a BY <1>5, <1>8, <1>10, TameSend
<1>12. Tame(x) /\ AdapterFits(x.state) /\ x.state.pending = adapter.pending
  BY <1>7, <1>8, <1>9, <1>11
<1> HIDE DEF x
<1> QED BY <1>1, <1>2, <1>4, <1>12, SendsNone

(* and constellations.                                                       *)
LEMMA TypesGoOn == ASSUME Shape, CallsInv, ProcTypes PROVE HandlesCall
<1> DEFINE a == [adapter EXCEPT ![Arg.source] = Arg.types]
           n == Head(queue).n
           y == Open(a)
           new == CombinedTypes(a)
           z == gnssSvTypeConfigUpdate(y, CombinedTypes(adapter), new)
           x == IF Supported THEN z ELSE Open(adapter)
<1>1. queue # <<>> /\ Head(queue).type = "types" /\ UNCHANGED commands /\ Done(x)
  BY DEF ProcTypes, Received, Message
<1>2. Head(queue).type \in Kinds BY <1>1 DEF Kinds
<1>3. /\ n \in DOMAIN commands /\ commands[n].kind = "types" /\ IsCommand(world, commands[n])
      /\ commands[n].arg = Arg
  BY <1>1, <1>2, CallTaken DEF Arg
<1>4. DOMAIN commands[n].told = {}
  <2>1. Ids(commands[n]) = 0 BY <1>3 DEF Ids
  <2>2. DOMAIN commands[n].told = 1..0 BY <1>3, <2>1 DEF IsCommand
  <2> QED BY <2>2
<1>5. Arg.source \in {"api", "xtra"} /\ IsTypes(Arg.types) BY <1>3 DEF IsCommand
<1>6. /\ AdapterFits(a) /\ a.pending = adapter.pending /\ AdapterFits(adapter)
      /\ a.mask = adapter.mask
  BY <1>5 DEF Shape, CallsInv, AdapterFits, AdapterFields
<1>7. Tame(y) /\ y.state = a /\ Tame(Open(adapter)) /\ Open(adapter).state = adapter
  BY TameOpen
<1>8. IsTypes(new) /\ IsMask(a.mask) BY <1>6, TypesCombine DEF AdapterFits
<1> HIDE DEF a, y, new
<1>9. Tame(z) /\ z.state = a BY <1>7, <1>8, TameSvType
<1> HIDE DEF z
<1>10. Tame(x) /\ AdapterFits(x.state) /\ x.state.pending = adapter.pending BY <1>6, <1>7, <1>9
<1> HIDE DEF x
<1> QED BY <1>1, <1>2, <1>4, <1>10, SendsNone

-----------------------------------------------------------------------------
(* A mask that is turned into a list and back is the same: what the adapter  *)
(* keeps of a blacklist in both forms agrees.                                *)

(* A constellation that is not SBAS                                          *)
LEMMA PlainBack ==
    ASSUME NEW t \in SvTypes, NEW bits, bits \subseteq AllBits
    PROVE  UNION {BitsOf(s) : s \in convertGnssSvIdMaskToList(bits, First[t], t)} = bits
<1>1. First[t] \in Nat \ {0} BY DEF SvTypes, First
<1>2. CASE bits = AllBits
  <2> DEFINE sv == [type |-> t, id |-> 0]
  <2>1. BitsOf(sv) = AllBits BY DEF BitsOf
  <2>2. convertGnssSvIdMaskToList(bits, First[t], t) = {sv}
    BY <1>2 DEF convertGnssSvIdMaskToList
  <2> HIDE DEF sv
  <2> QED BY <1>2, <2>1, <2>2
<1>3. CASE bits # AllBits
  <2>1. \A b \in bits : b + 0 = b BY OneBit
  <2> DEFINE L == convertGnssSvIdMaskToList(bits, First[t], t)
  <2>2. \A b \in bits : BitsOf([type |-> t, id |-> First[t] + b]) = {b + 0} BY <2>1, BitOfPlain
  <2>3. L = {[type |-> t, id |-> First[t] + b] : b \in bits}
    BY <1>3 DEF convertGnssSvIdMaskToList
  <2> HIDE DEF L
  <2>4. \A c : c \in UNION {BitsOf(s) : s \in L} <=> \E b \in bits : c = b + 0
    <3>1. \A b \in bits : \E s \in L : BitsOf(s) = {b + 0} BY <2>2, <2>3
    <3>2. \A s \in L : \E b \in bits : BitsOf(s) = {b + 0} BY <2>2, <2>3
    <3> QED BY <3>1, <3>2
  <2>5. \A c : (\E b \in bits : c = b + 0) <=> c \in bits BY <2>1
  <2> QED BY <2>4, <2>5 DEF L
<1> QED BY <1>2, <1>3

(* The two ranges of SBAS                                                    *)
LEMMA SbasBack ==
    ASSUME NEW mask, mask \subseteq AllBits
    PROVE  LET low == {b \in mask : b < SbasLength}
               high == {b - SbasLength : b \in {c \in mask : c >= SbasLength}}
           IN  UNION {BitsOf(s) : s \in convertGnssSvIdMaskToList(low, SbasFirst, "sbas")
                                        \cup convertGnssSvIdMaskToList(high, SbasFirst2, "sbas")}
               = mask
<1> DEFINE low == {b \in mask : b < SbasLength}
           high == {b - SbasLength : b \in {c \in mask : c >= SbasLength}}
           L == convertGnssSvIdMaskToList(low, SbasFirst, "sbas")
           H == convertGnssSvIdMaskToList(high, SbasFirst2, "sbas")
<1>1. Width \in Nat /\ SbasLength \in Nat \ {0} /\ SbasLength < Width BY SvBlacklistAssumption
<1>2. \A b \in mask : b \in Nat /\ b < Width BY <1>1 DEF AllBits
<1>3. \A b \in low : b \in 0..(SbasLength - 1) BY <1>1, <1>2
<1>4. \A b \in high : b \in 0..(Width - SbasLength - 1) BY <1>1, <1>2
<1>5. Width - 1 \in AllBits /\ Width - 1 \notin 0..(SbasLength - 1)
      /\ Width - 1 \notin 0..(Width - SbasLength - 1)
  BY <1>1 DEF AllBits
<1>6. low # AllBits /\ high # AllBits
  <2> HIDE DEF low, high
  <2> QED BY <1>3, <1>4, <1>5
<1>7. /\ L = {[type |-> "sbas", id |-> SbasFirst + b] : b \in low}
      /\ H = {[type |-> "sbas", id |-> SbasFirst2 + b] : b \in high}
  BY <1>6 DEF convertGnssSvIdMaskToList
<1>8. \A c : (\E b \in low : c = b + 0) <=> c \in low
  <2>1. \A b \in low : b + 0 = b BY <1>3
  <2> HIDE DEF low
  <2> QED BY <2>1
<1>9. \A c : (\E b \in high : c = b + SbasLength) <=> c \in mask /\ c >= SbasLength
  <2> TAKE c
  <2>1. ASSUME NEW b \in high, c = b + SbasLength PROVE c \in mask /\ c >= SbasLength
    <3>1. PICK d \in mask : d >= SbasLength /\ b = d - SbasLength
      OBVIOUS
    <3>2. c = d BY <1>1, <1>2, <2>1, <3>1
    <3> QED BY <3>1, <3>2
  <2>2. ASSUME c \in mask, c >= SbasLength PROVE \E b \in high : c = b + SbasLength
    <3>1. c - SbasLength \in high /\ c = (c - SbasLength) + SbasLength BY <1>1, <1>2, <2>2
    <3> HIDE DEF high
    <3> QED BY <3>1
  <2> QED BY <2>1, <2>2
<1>10. \A c : c \in UNION {BitsOf(s) : s \in L} <=> \E b \in low : c = b + 0
  <2>1. \A b \in low : BitsOf([type |-> "sbas", id |-> SbasFirst + b]) = {b + 0}
    <3>1. \A b \in low : b + 0 = b BY <1>3
    <3> QED BY <1>3, <3>1, BitOfSbas
  <2> HIDE DEF low, L
  <2>2. \A b \in low : \E s \in L : BitsOf(s) = {b + 0} BY <1>7, <2>1
  <2>3. \A s \in L : \E b \in low : BitsOf(s) = {b + 0} BY <1>7, <2>1
  <2> QED BY <2>2, <2>3
<1>11. \A c : c \in UNION {BitsOf(s) : s \in H} <=> \E b \in high : c = b + SbasLength
  <2>1. \A b \in high : BitsOf([type |-> "sbas", id |-> SbasFirst2 + b]) = {b + SbasLength}
    BY <1>4, BitOfSbas2
  <2> HIDE DEF high, H
  <2>2. \A b \in high : \E s \in H : BitsOf(s) = {b + SbasLength} BY <1>7, <2>1
  <2>3. \A s \in H : \E b \in high : BitsOf(s) = {b + SbasLength} BY <1>7, <2>1
  <2> QED BY <2>2, <2>3
<1>12. \A c : c \in mask <=> c \in low \/ (c \in mask /\ c >= SbasLength) BY <1>1, <1>2
<1> HIDE DEF low, high, L, H
<1>13. UNION {BitsOf(s) : s \in L \cup H} = mask BY <1>8, <1>9, <1>10, <1>11, <1>12
<1> QED BY <1>13 DEF L, H, low, high

(* What is listed for some bits is of that constellation.                    *)
LEMMA ListedTypes ==
    ASSUME NEW bits, NEW first, NEW t, NEW s \in convertGnssSvIdMaskToList(bits, first, t)
    PROVE  s.type = t
  BY DEF convertGnssSvIdMaskToList

LEMMA MaskBack ==
    ASSUME NEW mask, IsMask(mask)
    PROVE  convertToGnssSvIdConfig(convertFromGnssSvIdConfig(mask)) = mask
<1> DEFINE P(t) == convertGnssSvIdMaskToList(mask[t], First[t], t)
           low == {b \in mask.sbas : b < SbasLength}
           high == {b - SbasLength : b \in {c \in mask.sbas : c >= SbasLength}}
           L == convertGnssSvIdMaskToList(low, SbasFirst, "sbas")
           H == convertGnssSvIdMaskToList(high, SbasFirst2, "sbas")
           list == convertFromGnssSvIdConfig(mask)
           back == convertToGnssSvIdConfig(list)
<1>1. list = (UNION {P(t) : t \in SvTypes}) \cup L \cup H BY DEF convertFromGnssSvIdConfig
<1>2. /\ \A t \in SvTypes : \A s \in P(t) : s.type = t
      /\ \A s \in L \cup H : s.type = "sbas"
  BY ListedTypes
<1>3. back = [t \in Blacklistable |-> UNION {BitsOf(s) : s \in {x \in list : x.type = t}}]
  BY DEF convertToGnssSvIdConfig
<1>4. /\ \A t \in SvTypes : mask[t] \subseteq AllBits
      /\ mask.sbas \subseteq AllBits /\ mask = [t \in Blacklistable |-> mask[t]]
  BY DEF IsMask, Blacklistable
<1>5. \A t \in SvTypes : UNION {BitsOf(s) : s \in P(t)} = mask[t] BY <1>4, PlainBack
<1>6. UNION {BitsOf(s) : s \in L \cup H} = mask.sbas BY <1>4, SbasBack
<1>7. "sbas" \notin SvTypes BY DEF SvTypes, First
<1> HIDE DEF P, L, H, low, high, list, back
<1>8. ASSUME NEW t \in SvTypes PROVE back[t] = mask[t]
  <2>1. {x \in list : x.type = t} = P(t) BY <1>1, <1>2, <1>7, <1>8
  <2> QED BY <1>3, <1>5, <1>8, <2>1 DEF Blacklistable
<1>9. back["sbas"] = mask.sbas
  <2>1. {x \in list : x.type = "sbas"} = L \cup H BY <1>1, <1>2, <1>7
  <2> QED BY <1>3, <1>6, <2>1 DEF Blacklistable
<1>10. back = mask BY <1>3, <1>4, <1>8, <1>9 DEF Blacklistable
<1> QED BY <1>10 DEF back, list

(* A blacklist: what the modem is asked first bears no number.               *)
LEMMA SvsGoOn == ASSUME Shape, CallsInv, gnssUpdateSvConfig PROVE HandlesCall
<1> DEFINE current == CombinedTypes(adapter)
           on == current.on
           types == Arg.types
           mask == Arg.mask
           list == convertFromGnssSvIdConfig(mask)
           a == [adapter EXCEPT !.api = types, !.mask = mask, !.list = list]
           n == Head(queue).n
           y == Open(a)
           z == Send(y, [op |-> "reset"])
           s == IF ~types.set \/ current.on \ types.on # {} THEN z ELSE y
           u == Send(s, [op |-> "control", on |-> on])
           c == IF types.set THEN u ELSE s
           r == [op |-> "blacklist", n |-> n, mask |-> mask]
<1>1. queue # <<>> /\ Head(queue).type = "svs" /\ UNCHANGED commands /\ Done(Send(c, r))
  BY DEF gnssUpdateSvConfig, Received, Message, SetBlacklistSv
<1>2. Head(queue).type \in Kinds BY <1>1 DEF Kinds
<1>3. /\ n \in DOMAIN commands /\ commands[n].kind = "svs" /\ IsCommand(world, commands[n])
      /\ commands[n].arg = Arg
  BY <1>1, <1>2, CallTaken DEF Arg
<1>4. IsTypes(types) /\ IsMask(mask) BY <1>3 DEF IsCommand
<1>5. mask = convertToGnssSvIdConfig(list) BY <1>4, MaskBack
<1>6. on \subseteq SvTypes BY TypesCombine DEF CallsInv, AdapterFits
<1>7. r.op = "blacklist" /\ "n" \in DOMAIN r /\ r.n = n /\ "id" \notin DOMAIN r /\ r.mask = mask
  OBVIOUS
<1> HIDE DEF types, mask, list, current
<1>8. AdapterFits(a) /\ a.pending = adapter.pending
  BY <1>4, <1>5 DEF Shape, CallsInv, AdapterFits, AdapterFields
<1>9. Tame(y) /\ y.state = a BY TameOpen
<1> HIDE DEF a, y, on, r
<1>10. Tame(z) /\ z.state = a BY <1>9, TameReset
<1>11. Tame(s) /\ s.state = a BY <1>9, <1>10
<1> HIDE DEF s, z
<1>12. Tame(u) /\ u.state = a BY <1>6, <1>11, TameControl
<1>13. Tame(c) /\ c.state = a BY <1>11, <1>12
<1> HIDE DEF c, u
<1>14. Ids(commands[n]) = 1 BY <1>3 DEF Ids
<1>15. RequestOf(world, commands, r) /\ Bears(r, n)
  BY <1>3, <1>4, <1>7, <1>14 DEF RequestOf, RequestFits, Answering, Bears
<1> QED BY <1>1, <1>2, <1>7, <1>8, <1>13, <1>15, SendsOne

-----------------------------------------------------------------------------
(* A call that is told something is still the same call.                     *)
LEMMA StaysCommand ==
    ASSUME NEW w, NEW c, IsCommand(w, c), NEW d, DOMAIN d = DOMAIN c,
           d.kind = c.kind, d.arg = c.arg, DOMAIN d.told = DOMAIN c.told,
           d.told = [i \in DOMAIN c.told |-> d.told[i]], d.wrong => Astray(w, c)
    PROVE  IsCommand(w, d)
<1>1. Ids(d) = Ids(c) /\ (Astray(w, d) <=> Astray(w, c)) BY DEF Ids, Astray
<1>2. DOMAIN c.told = 1..Ids(c) BY DEF IsCommand
<1> QED BY <1>1, <1>2 DEF IsCommand

LEMMA OneChanged ==
    ASSUME CallsInv, NEW n \in DOMAIN commands, NEW d, IsCommand(world, d),
           d.kind = commands[n].kind, d.arg = commands[n].arg,
           DOMAIN d.told = DOMAIN commands[n].told,
           commands' = [commands EXCEPT ![n] = d]
    PROVE  /\ IsSeq(commands') /\ DOMAIN commands' = DOMAIN commands
           /\ KeepsCalls(commands, commands') /\ commands'[n] = d
           /\ \A i \in DOMAIN commands \ {n} : commands'[i] = commands[i]
<1> DEFINE r == [commands EXCEPT ![n] = d]
<1>1. r = [k \in DOMAIN commands |-> r[k]] /\ DOMAIN r = DOMAIN commands  OBVIOUS
<1>2. r[n] = d /\ \A i \in DOMAIN commands \ {n} : r[i] = commands[i]  OBVIOUS
<1>3. commands' = r  OBVIOUS
<1> HIDE DEF r
<1>4. IsSeq(r) BY <1>1, SameDomain DEF CallsInv
<1>5. KeepsCalls(commands, r) BY <1>1, <1>2 DEF KeepsCalls
<1> QED BY <1>1, <1>2, <1>3, <1>4, <1>5

(* A message of which the call is told.                                      *)
LEMMA Tells ==
    ASSUME CallsInv, queue # <<>>, Head(queue).type \in Kinds \cup {"response"},
           NEW n, n = Head(queue).n,
           NEW d, IsCommand(world, d), d.kind = commands[n].kind, d.arg = commands[n].arg,
           DOMAIN d.told = DOMAIN commands[n].told, commands' = [commands EXCEPT ![n] = d],
           NEW x, AllFit("requests", world, commands, x.out),
           \A i \in DOMAIN commands \ {n} : Free(i, x.out), Done(x),
           x.state.pending = adapter.pending, AdapterFits(x.state),
           ToldBut(commands[n], Owed(commands[n], Head(queue))) /\ ~Excused(commands[n]) =>
              Holds(d, n, x.out) \/ (Free(n, x.out) /\ ToldBut(d, {}))
    PROVE  HandlesCall
<1> DEFINE out == x.out
<1>1. Bears(Head(queue), n) /\ n \in DOMAIN commands BY CallTaken
<1>2. /\ adapter' = x.state /\ requests' = requests \o out /\ queue' = Tail(queue)
      /\ UNCHANGED <<world, modem, events>>
  BY DEF Done
<1>3. /\ IsSeq(commands') /\ DOMAIN commands' = DOMAIN commands
      /\ KeepsCalls(commands, commands') /\ commands'[n] = d
      /\ \A i \in DOMAIN commands \ {n} : commands'[i] = commands[i]
  BY <1>1, OneChanged
<1>4. AllFit("requests", world, commands', out) BY <1>3, FitsKept
<1> HIDE DEF out
<1>5. /\ queue # <<>> /\ Bears(Head(queue), n) /\ n \in DOMAIN commands
      /\ queue' = Tail(queue) /\ adapter'.pending = adapter.pending
      /\ requests' = requests \o out /\ AllFit("requests", world, commands', out)
      /\ AdapterFits(adapter') /\ UNCHANGED <<world, modem, events>>
      /\ IsSeq(commands') /\ DOMAIN commands' = DOMAIN commands
      /\ KeepsCalls(commands, commands') /\ IsCommand(world, commands'[n])
  BY <1>1, <1>2, <1>3, <1>4
<1>6. \A i \in DOMAIN commands \ {n} : commands'[i] = commands[i] /\ Free(i, out)
  BY <1>3 DEF out
<1>7. ToldBut(commands[n], Owed(commands[n], Head(queue))) /\ ~Excused(commands[n]) =>
         Holds(commands'[n], n, out) \/ (Free(n, out) /\ ToldBut(commands'[n], {}))
  BY <1>3 DEF out
<1> QED BY <1>5, <1>6, <1>7 DEF HandlesCall

(* What Answered makes of a call                                             *)
LEMMA AnsweredOne ==
    ASSUME CallsInv, NEW n \in DOMAIN commands, NEW errs, NEW facts,
           errs = facts \/ Astray(world, commands[n]),
           NEW ds, ds = Answered(commands, n, errs, facts), NEW e, e = ds[n]
    PROVE  /\ ds = [commands EXCEPT ![n] = e]
           /\ IsCommand(world, e) /\ e.kind = commands[n].kind /\ e.arg = commands[n].arg
           /\ DOMAIN e.told = DOMAIN commands[n].told
           /\ \A i \in DOMAIN e.told :
                 e.told[i] = IF i \in DOMAIN errs THEN commands[n].told[i] + 1
                             ELSE commands[n].told[i]
<1> DEFINE c == commands[n]
           told == [i \in DOMAIN c.told |->
                       IF i \in DOMAIN errs THEN c.told[i] + 1 ELSE c.told[i]]
           wrong == c.wrong \/ \E i \in DOMAIN errs : errs[i] # facts[i]
           d == [c EXCEPT !.told = told, !.wrong = wrong]
<1>1. IsCommand(world, c) BY DEF CallsInv
<1>2. ds = [commands EXCEPT ![n] = d] /\ e = d BY Zenon DEF Answered
<1>3. DOMAIN c = {"kind", "arg", "told", "wrong"} BY <1>1 DEF IsCommand
<1>4. wrong => Astray(world, c) BY <1>1 DEF IsCommand
<1> HIDE DEF c, wrong
<1>5. told = [i \in DOMAIN c.told |-> told[i]] /\ DOMAIN told = DOMAIN c.told  OBVIOUS
<1>6. \A i \in DOMAIN told : told[i] = IF i \in DOMAIN errs THEN c.told[i] + 1 ELSE c.told[i]
  OBVIOUS
<1> HIDE DEF told
<1>7. /\ DOMAIN d = DOMAIN c /\ d.kind = c.kind /\ d.arg = c.arg
      /\ d.told = told /\ (d.wrong <=> wrong)
  BY <1>3
<1> HIDE DEF d
<1>8. IsCommand(world, d) BY <1>1, <1>4, <1>5, <1>7, StaysCommand
<1>9. ds = [commands EXCEPT ![n] = e] /\ e = d BY <1>2
<1>10. \A i \in DOMAIN e.told : e.told[i] = IF i \in DOMAIN errs THEN c.told[i] + 1 ELSE c.told[i]
  BY <1>5, <1>6, <1>7, <1>9
<1> QED BY <1>5, <1>7, <1>8, <1>9, <1>10 DEF c

(* An answer to all that a call asks, and nothing sent for it                *)
LEMMA TellsAll ==
    ASSUME CallsInv, queue # <<>>, Head(queue).type \in Kinds \cup {"response"},
           NEW n, n = Head(queue).n, Owed(commands[n], Head(queue)) = DOMAIN commands[n].told,
           NEW errs, NEW facts, errs = facts \/ Astray(world, commands[n]),
           DOMAIN commands[n].told \subseteq DOMAIN errs,
           commands' = Answered(commands, n, errs, facts),
           NEW x, Tame(x), Done(x), x.state.pending = adapter.pending, AdapterFits(x.state)
    PROVE  HandlesCall
<1>1. n \in DOMAIN commands BY CallTaken
<1> DEFINE d == commands'[n]
<1>2. /\ commands' = [commands EXCEPT ![n] = d]
      /\ IsCommand(world, d) /\ d.kind = commands[n].kind /\ d.arg = commands[n].arg
      /\ DOMAIN d.told = DOMAIN commands[n].told
      /\ \A i \in DOMAIN d.told :
            d.told[i] = IF i \in DOMAIN errs THEN commands[n].told[i] + 1
                        ELSE commands[n].told[i]
  BY <1>1, AnsweredOne
<1> HIDE DEF d
<1>3. ToldBut(commands[n], Owed(commands[n], Head(queue))) => ToldBut(d, {})
  <2>1. ASSUME ToldBut(commands[n], DOMAIN commands[n].told), NEW i \in DOMAIN d.told
        PROVE  d.told[i] = 1
    <3>1. commands[n].told[i] = 0 BY <1>2, <2>1 DEF ToldBut
    <3> QED BY <1>2, <3>1
  <2> QED BY <2>1 DEF ToldBut
<1>4. AllFit("requests", world, commands, x.out) /\ \A i \in DOMAIN commands : Free(i, x.out)
  BY DEF Tame
<1> QED BY <1>1, <1>2, <1>3, <1>4, Tells

-----------------------------------------------------------------------------
(* The calls that are answered at once: positions on and off,                *)
LEMMA TameXtra ==
    ASSUME NEW x, Tame(x), NEW lock, DOMAIN x.state = AdapterFields, AdapterFits(x.state)
    PROVE  /\ Tame(TellXtra(x, lock)) /\ AdapterFits(TellXtra(x, lock).state)
           /\ TellXtra(x, lock).state.pending = x.state.pending
<1> DEFINE y == TellXtra(x, lock)
<1>1. DOMAIN y = {"state", "out"} /\ y.out = x.out BY DEF TellXtra, Tame, IsStep
<1>2. DOMAIN x = {"state", "out"} BY DEF Tame, IsStep
<1>3. PICK bits : y = [x EXCEPT !.state.xtraLock = bits] BY DEF TellXtra
<1>4. y.state = [x.state EXCEPT !.xtraLock = bits] BY <1>2, <1>3
<1> HIDE DEF y
<1>5. AdapterFits(y.state) /\ y.state.pending = x.state.pending
  BY <1>4 DEF AdapterFits, AdapterFields
<1>6. Tame(y) BY <1>1 DEF Tame, IsStep
<1> QED BY <1>5, <1>6 DEF y

LEMMA TameLock ==
    ASSUME CallsInv, NEW x, Tame(x), NEW lock, lock \subseteq Bits
    PROVE  Tame(SetGpsLock(x, lock)) /\ SetGpsLock(x, lock).state = x.state
<1> DEFINE r == [op |-> "lock", lock |-> lock]
<1>1. r.op = "lock" /\ "n" \notin DOMAIN r /\ "id" \notin DOMAIN r /\ r.lock = lock
  OBVIOUS
<1>2. SetGpsLock(x, lock) = Send(x, r) BY DEF SetGpsLock
<1> HIDE DEF r
<1>3. RequestOf(world, commands, r) BY <1>1 DEF RequestOf, RequestFits, Answering
<1> QED BY <1>1, <1>2, <1>3, TameSend

LEMMA SwitchAnswers ==
    ASSUME Shape, CallsInv, queue # <<>>, Head(queue).type \in {"enable", "disable"},
           NEW err, reportResponse(Head(queue).n, err),
           NEW x, Tame(x), Done(x), x.state.pending = adapter.pending, AdapterFits(x.state)
    PROVE  HandlesCall
<1> DEFINE n == Head(queue).n
           errs == <<err>>
<1>1. Head(queue).type \in Kinds BY DEF Kinds
<1>2. /\ n \in DOMAIN commands /\ IsCommand(world, commands[n])
      /\ commands[n].kind = Head(queue).type
      /\ Owed(commands[n], Head(queue)) = DOMAIN commands[n].told
  BY <1>1, CallTaken
<1>3. commands' = Answered(commands, n, errs, errs) BY DEF reportResponse
<1>4. DOMAIN commands[n].told \subseteq DOMAIN errs
  <2>1. Ids(commands[n]) = 1 BY <1>2 DEF Ids
  <2>2. DOMAIN commands[n].told = 1..1 BY <1>2, <2>1 DEF IsCommand
  <2>3. DOMAIN errs = 1..1  OBVIOUS
  <2> QED BY <2>2, <2>3
<1> HIDE DEF errs
<1> QED BY <1>1, <1>2, <1>3, <1>4, TellsAll

LEMMA EnableAnswers == ASSUME Shape, LockFits(adapter), CallsInv, ProcEnable PROVE HandlesCall
<1> DEFINE n == Head(queue).n
           lock == IF adapter.nfwControl THEN adapter.lock \cap Nfws ELSE {}
           a == [adapter EXCEPT !.afw = n, !.lock = IF adapter.nfwControl THEN lock ELSE @]
           x == TellXtra(SetGpsLock(Open(a), lock), lock)
<1>1. /\ queue # <<>> /\ Head(queue).type = "enable"
      /\ \/ Done(Open(adapter)) /\ reportResponse(n, "already")
         \/ Done(x) /\ reportResponse(n, "ok")
  BY DEF ProcEnable, Received, Message
<1>2. lock \subseteq Bits BY DEF Bits
<1>3. /\ AdapterFits(a) /\ a.pending = adapter.pending /\ DOMAIN a = AdapterFields
      /\ AdapterFits(adapter)
  BY DEF Shape, CallsInv, AdapterFits, AdapterFields
<1> HIDE DEF a, lock
<1>4. Tame(Open(a)) /\ Open(a).state = a /\ Tame(Open(adapter)) /\ Open(adapter).state = adapter
  BY TameOpen
<1>5. Tame(SetGpsLock(Open(a), lock)) /\ SetGpsLock(Open(a), lock).state = a
  BY <1>2, <1>4, TameLock
<1>6. Tame(x) /\ AdapterFits(x.state) /\ x.state.pending = adapter.pending
  BY <1>3, <1>5, TameXtra
<1> HIDE DEF x
<1> QED BY <1>1, <1>3, <1>4, <1>6, SwitchAnswers

LEMMA DisableAnswers == ASSUME Shape, LockFits(adapter), CallsInv, ProcDisable PROVE HandlesCall
<1> DEFINE n == Head(queue).n
           lock == IF adapter.nfwControl THEN adapter.lock \cup {"MO"} ELSE adapter.lock
           a == [adapter EXCEPT !.afw = 0, !.lock = lock]
           x == TellXtra(SetGpsLock(Open(a), lock), lock)
<1>1. /\ queue # <<>> /\ Head(queue).type = "disable"
      /\ \/ Done(Open(adapter)) /\ reportResponse(n, "unknown")
         \/ Done(x) /\ reportResponse(n, "ok")
  BY DEF ProcDisable, Received, Message
<1>2. lock \subseteq Bits BY DEF Bits, LockFits
<1>3. /\ AdapterFits(a) /\ a.pending = adapter.pending /\ DOMAIN a = AdapterFields
      /\ AdapterFits(adapter)
  BY DEF Shape, CallsInv, AdapterFits, AdapterFields
<1> HIDE DEF a, lock
<1>4. Tame(Open(a)) /\ Open(a).state = a /\ Tame(Open(adapter)) /\ Open(adapter).state = adapter
  BY TameOpen
<1>5. Tame(SetGpsLock(Open(a), lock)) /\ SetGpsLock(Open(a), lock).state = a
  BY <1>2, <1>4, TameLock
<1>6. Tame(x) /\ AdapterFits(x.state) /\ x.state.pending = adapter.pending
  BY <1>3, <1>5, TameXtra
<1> HIDE DEF x
<1> QED BY <1>1, <1>3, <1>4, <1>6, SwitchAnswers

(* and what comes from LocApi: the errors of a call, or of what it read.     *)
LEMMA ResponseAnswers == ASSUME Shape, CallsInv, ProcResponse PROVE HandlesCall
<1> DEFINE m == Head(queue)
           n == m.n
           c == commands[n]
           x == Open(adapter)
<1>1. /\ queue # <<>> /\ m.type = "response" /\ Done(x)
      /\ commands' = IF m.id = 0 THEN Answered(commands, n, m.errs, m.facts)
                     ELSE [commands EXCEPT ![n].told[m.id] = @ + 1]
  BY DEF ProcResponse, Message
<1>2. /\ n \in DOMAIN commands /\ IsCommand(world, c) /\ MessageOf(world, commands, m)
  BY <1>1, CallTaken
<1>3. "id" \in DOMAIN m BY <1>1, <1>2 DEF MessageOf
<1>4. Tame(x) /\ x.state = adapter /\ AdapterFits(adapter) BY TameOpen DEF CallsInv
<1> HIDE DEF x
<1>5. CASE m.id = 0
  <2>1. Owed(c, m) = DOMAIN c.told BY <1>5 DEF Owed
  <2>2. DOMAIN c.told \subseteq DOMAIN m.errs /\ (m.errs = m.facts \/ Astray(world, c))
    BY <1>1, <1>2, <1>5 DEF MessageOf
  <2>3. commands' = Answered(commands, n, m.errs, m.facts) BY <1>1, <1>5
  <2> QED BY <1>1, <1>4, <2>1, <2>2, <2>3, TellsAll
<1>6. CASE m.id # 0
  <2> DEFINE told == [c.told EXCEPT ![m.id] = @ + 1]
             d == [c EXCEPT !.told = told]
  <2>1. commands' = [commands EXCEPT ![n] = d] BY <1>1, <1>2, <1>6
  <2>2. DOMAIN c = {"kind", "arg", "told", "wrong"} /\ (c.wrong => Astray(world, c))
    BY <1>2 DEF IsCommand
  <2>3. Owed(c, m) = {m.id} BY <1>3, <1>6 DEF Owed
  <2> HIDE DEF c
  <2>4. told = [i \in DOMAIN c.told |-> told[i]] /\ DOMAIN told = DOMAIN c.told  OBVIOUS
  <2>5. \A i \in DOMAIN c.told : told[i] = IF i = m.id THEN c.told[i] + 1 ELSE c.told[i]
    OBVIOUS
  <2> HIDE DEF told
  <2>6. /\ DOMAIN d = DOMAIN c /\ d.kind = c.kind /\ d.arg = c.arg
        /\ d.told = told /\ d.wrong = c.wrong
    BY <2>2
  <2> HIDE DEF d
  <2>7. IsCommand(world, d) BY <1>2, <2>2, <2>4, <2>6, StaysCommand
  <2>8. ToldBut(c, Owed(c, m)) => ToldBut(d, {})
    <3>1. ASSUME ToldBut(c, {m.id}), NEW i \in DOMAIN c.told PROVE told[i] = 1
      <4>1. c.told[i] = IF i = m.id THEN 0 ELSE 1 BY <3>1 DEF ToldBut
      <4> QED BY <2>5, <4>1
    <3> QED BY <2>3, <2>4, <2>6, <3>1 DEF ToldBut
  <2>9. AllFit("requests", world, commands, x.out) /\ \A i \in DOMAIN commands : Free(i, x.out)
    BY <1>4 DEF Tame
  <2>10. DOMAIN d.told = DOMAIN c.told /\ d.kind = c.kind /\ d.arg = c.arg BY <2>4, <2>6
  <2> QED BY <1>1, <1>2, <1>4, <2>1, <2>7, <2>8, <2>9, <2>10, Tells DEF c
<1> QED BY <1>5, <1>6

(* What can be read of the settings that are asked for goes on to the modem, *)
(* with the id behind those that are answered at once.                       *)
LEMMA GetIds ==
    ASSUME NEW flags, flags \subseteq ToSet(Flags)
    PROVE  LET read == Readable \cap flags
               now == InOrder(Flags, flags \ read)
           IN  /\ Cardinality(read) \in Nat /\ Len(now) \in Nat
               /\ DOMAIN now = 1..Len(now)
               /\ Cardinality(flags) = Len(now) + Cardinality(read)
<1> DEFINE read == Readable \cap flags
           rest == flags \ read
           now == InOrder(Flags, rest)
<1>1. IsFiniteSet(flags) /\ Cardinality(flags) \in Nat BY OrderLength
<1>2. IsFiniteSet(read) /\ Cardinality(read) \in Nat
  <2>1. read \in SUBSET flags  OBVIOUS
  <2> HIDE DEF read
  <2> QED BY <1>1, <2>1, FS_Subset, FS_CardinalityType
<1>3. rest \subseteq ToSet(Flags)  OBVIOUS
<1>4. Cardinality(rest) \in Nat /\ Len(now) = Cardinality(rest) /\ DOMAIN now = 1..Len(now)
  <2> HIDE DEF rest
  <2> QED BY <1>3, OrderLength
<1>5. flags \cap read = read  OBVIOUS
<1>6. Cardinality(rest) = Cardinality(flags) - Cardinality(read)
  <2> HIDE DEF read
  <2>1. Cardinality(flags \ read) = Cardinality(flags) - Cardinality(flags \cap read)
    BY <1>1, FS_Difference
  <2> QED BY <1>5, <2>1
<1> DEFINE all == Cardinality(flags)
           some == Cardinality(read)
           others == Cardinality(rest)
<1>7. /\ all \in Nat /\ some \in Nat /\ others \in Nat
      /\ Len(now) = others /\ others = all - some
  BY <1>1, <1>2, <1>4, <1>6
<1> HIDE DEF read, rest, now, all, some, others
<1>8. all = Len(now) + some BY <1>7
<1> QED BY <1>2, <1>4, <1>8 DEF read, rest, now, all, some

LEMMA GetAnswers == ASSUME Shape, CallsInv, ProcGet PROVE HandlesCall
<1> DEFINE n == Head(queue).n
           c == commands[n]
           flags == Arg
           read == Readable \cap flags
           k == Cardinality(read)
           now == InOrder(Flags, flags \ read)
           errs == [i \in DOMAIN now |->
                        IF now[i] = "blacklist" /\ Supported THEN "ok" ELSE "unsupported"]
           reads == [i \in 1..k |-> [op |-> "read", n |-> n, id |-> Len(now) + 1]]
           x == [state |-> adapter, out |-> reads]
           d == commands'[n]
<1>1. /\ queue # <<>> /\ Head(queue).type = "get" /\ Done(x)
      /\ commands' = Answered(commands, n, errs, errs)
  BY DEF ProcGet, Received, Message, Readable
<1>2. Head(queue).type \in Kinds BY <1>1 DEF Kinds
<1>3. /\ n \in DOMAIN commands /\ IsCommand(world, c) /\ c.kind = "get" /\ c.arg = flags
      /\ Owed(c, Head(queue)) = DOMAIN c.told
  BY <1>1, <1>2, CallTaken DEF Arg
<1>4. flags \subseteq ToSet(Flags) BY <1>3, GnssConfigAssumption DEF IsCommand
<1>5. /\ k \in Nat /\ Len(now) \in Nat /\ DOMAIN now = 1..Len(now)
      /\ Cardinality(flags) = Len(now) + k
  BY <1>4, GetIds
<1>6. DOMAIN c.told = 1..(Len(now) + k) BY <1>3, <1>5 DEF IsCommand, Ids
<1>7. DOMAIN errs = 1..Len(now) BY <1>5
<1> HIDE DEF errs
<1>8. /\ commands' = [commands EXCEPT ![n] = d]
      /\ IsCommand(world, d) /\ d.kind = c.kind /\ d.arg = c.arg
      /\ DOMAIN d.told = DOMAIN c.told
      /\ \A i \in DOMAIN d.told :
            d.told[i] = IF i \in DOMAIN errs THEN c.told[i] + 1 ELSE c.told[i]
  BY <1>1, <1>3, AnsweredOne
<1> HIDE DEF c, d
<1> DEFINE l == Len(now)
           r == [op |-> "read", n |-> n, id |-> l + 1]
<1>9. x.state = adapter /\ x.out = reads /\ reads = [i \in 1..k |-> r]  OBVIOUS
<1>10. /\ r.op = "read" /\ "n" \in DOMAIN r /\ r.n = n /\ "id" \in DOMAIN r /\ r.id = l + 1
  OBVIOUS
<1> HIDE DEF r, x
<1>11. l \in Nat /\ DOMAIN c.told = 1..(l + k) /\ DOMAIN errs = 1..l BY <1>5, <1>6, <1>7
<1>12. Excused(c) <=> k > 1 BY <1>3 DEF Excused
<1> HIDE DEF l, now, reads, read, k
<1>13. DOMAIN reads = 1..k /\ \A i \in 1..k : reads[i] = r BY <1>9
<1>14. IsSeq(reads)
  <2> DEFINE E == {reads[i] : i \in DOMAIN reads}
  <2>1. reads = [i \in 1..k |-> reads[i]] BY <1>9
  <2>2. reads \in [1..k -> E] BY <2>1
  <2> HIDE DEF E
  <2>3. reads \in Seq(E) BY <1>5, <2>2
  <2> QED BY <2>3, SeqOfItsElements
<1>15. RequestOf(world, commands, r)
  BY <1>3, <1>10, <1>11 DEF RequestOf, RequestFits, Answering, c
<1>16. AllFit("requests", world, commands, reads) BY <1>13, <1>14, <1>15 DEF AllFit, Fits
<1>17. \A i \in DOMAIN commands \ {n} : Free(i, reads) BY <1>10, <1>13 DEF Free, Bears
<1>18. ASSUME ToldBut(c, Owed(c, Head(queue))), ~Excused(c)
       PROVE  Holds(d, n, reads) \/ (Free(n, reads) /\ ToldBut(d, {}))
  <2>1. \A i \in 1..(l + k) : c.told[i] = 0 BY <1>3, <1>11, <1>18 DEF ToldBut, c
  <2>2. k = 0 \/ k = 1 BY <1>5, <1>12, <1>18
  <2>3. CASE k = 0
    <3>1. Free(n, reads) BY <1>13, <2>3 DEF Free
    <3>2. \A i \in DOMAIN d.told : d.told[i] = 1
      <4>1. l + k = l BY <1>11, <2>3
      <4>2. DOMAIN c.told = DOMAIN errs BY <1>11, <4>1
      <4>3. \A i \in DOMAIN d.told : c.told[i] = 0 /\ d.told[i] = c.told[i] + 1
        BY <1>8, <1>11, <2>1, <4>2
      <4> QED BY <4>3
    <3> QED BY <3>1, <3>2 DEF ToldBut
  <2>4. CASE k = 1
    <3>1. DOMAIN reads = {1} /\ reads[1] = r BY <1>13, <2>4
    <3>2. Owed(d, r) = {l + 1} BY <1>10, <1>11 DEF Owed
    <3>3. ASSUME NEW i \in DOMAIN d.told
          PROVE  d.told[i] = IF i \in {l + 1} THEN 0 ELSE 1
      <4>1. i \in 1..(l + 1) /\ c.told[i] = 0 BY <1>8, <1>11, <2>1, <2>4, <3>3
      <4>2. i \in 1..l <=> i # l + 1 BY <1>11, <4>1
      <4> QED BY <1>8, <1>11, <4>1, <4>2, <3>3
    <3>4. ToldBut(d, Owed(d, r)) BY <3>2, <3>3 DEF ToldBut
    <3>5. Bears(r, n) BY <1>10 DEF Bears
    <3> QED BY <3>1, <3>4, <3>5 DEF Holds
  <2> QED BY <2>2, <2>3, <2>4
<1>19. /\ x.state.pending = adapter.pending /\ AdapterFits(x.state)
       /\ AllFit("requests", world, commands, x.out)
       /\ \A i \in DOMAIN commands \ {n} : Free(i, x.out)
  BY <1>9, <1>16, <1>17 DEF CallsInv
<1>20. ToldBut(c, Owed(c, Head(queue))) /\ ~Excused(c) =>
          Holds(d, n, x.out) \/ (Free(n, x.out) /\ ToldBut(d, {}))
  BY <1>9, <1>18
<1> QED BY <1>1, <1>2, <1>8, <1>19, <1>20, Tells DEF c

-----------------------------------------------------------------------------
(* What InOrder lists are settings of the call: each of the places of a set  *)
(* has a rank of its own, so that there is one of every rank.                *)
LEMMA RanksDiffer ==
    ASSUME NEW at, at \subseteq 1..15, IsFiniteSet(at), NEW j \in at, NEW k \in at, j < k
    PROVE  Cardinality({i \in at : i <= j}) # Cardinality({i \in at : i <= k})
<1> DEFINE B(x) == {i \in at : i <= x}
<1>1. B(j) \subseteq B(k)
  <2>1. \A i \in at : i \in Int  OBVIOUS
  <2>2. \A i \in at : i <= j => i <= k BY <2>1
  <2> QED BY <2>2
<1>2. k \in B(k) /\ k \notin B(j)  OBVIOUS
<1>3. IsFiniteSet(B(k))
  <2>1. B(k) \in SUBSET at  OBVIOUS
  <2> HIDE DEF B
  <2> QED BY <2>1, FS_Subset
<1> HIDE DEF B
<1>4. Cardinality(B(k)) = Cardinality(B(j)) => B(k) = B(j) BY <1>1, <1>3, FS_Subset
<1> QED BY <1>2, <1>4 DEF B

LEMMA RanksReach ==
    ASSUME NEW at, at \subseteq 1..15, IsFiniteSet(at), NEW i \in 1..Cardinality(at)
    PROVE  \E k \in at : Cardinality({j \in at : j <= k}) = i
<1> DEFINE Rank(k) == Cardinality({j \in at : j <= k})
           R == {Rank(k) : k \in at}
           f == [k \in at |-> Rank(k)]
           n == Cardinality(at)
<1>1. n \in Nat BY FS_CardinalityType
<1>2. ASSUME NEW k \in at PROVE Rank(k) \in 1..n
  <2> DEFINE B == {j \in at : j <= k}
  <2>1. B \in SUBSET at /\ B # {}  OBVIOUS
  <2> HIDE DEF B
  <2>2. IsFiniteSet(B) /\ Cardinality(B) <= n BY <2>1, FS_Subset
  <2>3. Cardinality(B) \in Nat /\ Cardinality(B) # 0
    BY <2>1, <2>2, FS_CardinalityType, FS_EmptySet
  <2> QED BY <1>1, <2>2, <2>3 DEF B
<1>3. \A j, k \in at : Rank(j) = Rank(k) => j = k
  <2> TAKE j, k \in at
  <2>1. j \in Int /\ k \in Int  OBVIOUS
  <2>2. j < k \/ k < j \/ j = k BY <2>1
  <2>3. j < k => Rank(j) # Rank(k) BY RanksDiffer
  <2>4. k < j => Rank(k) # Rank(j) BY RanksDiffer
  <2> QED BY <2>2, <2>3, <2>4
<1> HIDE DEF Rank
<1>4. f \in Bijection(at, R)
  <2>1. f \in [at -> R]  OBVIOUS
  <2>2. \A s \in R : \E k \in at : f[k] = s  OBVIOUS
  <2>3. \A j, k \in at : f[j] = f[k] => j = k BY <1>3
  <2> HIDE DEF f, R
  <2> QED BY <2>1, <2>2, <2>3 DEF Bijection, Injection, Surjection, IsInjective
<1>5. Cardinality(R) = n
  <2> HIDE DEF f, R
  <2> QED BY <1>4, FS_Bijection DEF ExistsBijection
<1>6. R \subseteq 1..n BY <1>2
<1> HIDE DEF R, n
<1>7. IsFiniteSet(1..n) /\ Cardinality(1..n) = n
  <2>1. 1 \in Int /\ n \in Int BY <1>1
  <2>2. IsFiniteSet(1..n) /\ Cardinality(1..n) = IF 1 > n THEN 0 ELSE n - 1 + 1
    BY <2>1, FS_Interval
  <2> QED BY <1>1, <2>2
<1>8. R = 1..n BY <1>5, <1>6, <1>7, FS_Subset
<1> QED BY <1>8 DEF R, Rank, n

LEMMA OrderHas ==
    ASSUME NEW S, S \subseteq ToSet(Flags), NEW i \in DOMAIN InOrder(Flags, S)
    PROVE  InOrder(Flags, S)[i] \in S
<1> DEFINE at == {k \in DOMAIN Flags : Flags[k] \in S}
<1>1. at \subseteq 1..15 BY FlagsDiffer
<1>2. IsFiniteSet(at)
  <2>1. 1 \in Int /\ 15 \in Int  OBVIOUS
  <2>2. IsFiniteSet(1..15) BY <2>1, FS_Interval, Zenon
  <2> HIDE DEF at
  <2> QED BY <1>1, <2>2, FS_Subset
<1>3. i \in 1..Cardinality(at) BY DEF InOrder
<1>4. InOrder(Flags, S)[i] = Flags[CHOOSE k \in at : Cardinality({j \in at : j <= k}) = i]
  BY <1>3 DEF InOrder
<1>5. (CHOOSE k \in at : Cardinality({j \in at : j <= k}) = i) \in at
  <2> HIDE DEF at
  <2>1. \E k \in at : Cardinality({j \in at : j <= k}) = i BY <1>1, <1>2, <1>3, RanksReach
  <2> QED BY <2>1
<1> QED BY <1>4, <1>5

-----------------------------------------------------------------------------
(* What LocApi does with each request.  An answer has what the request has   *)
(* of its call.                                                              *)
LEMMA ReplyServes ==
    ASSUME CallsInv, requests # <<>>, NEW r, r = Head(requests), "n" \in DOMAIN r,
           NEW id, id = IF "id" \in DOMAIN r THEN r.id ELSE 0,
           "id" \in DOMAIN r /\ r.n # 0 => r.id # 0,
           NEW errs, NEW facts, Reply(r, id, errs, facts),
           r.n # 0 =>
              /\ r.n \in DOMAIN commands
              /\ id = 0 => /\ DOMAIN commands[r.n].told \subseteq DOMAIN errs
                           /\ errs = facts \/ Astray(world, commands[r.n]),
           requests' = Tail(requests), adapter'.pending = adapter.pending,
           AdapterFits(adapter'), ModemFits(modem'), UNCHANGED <<world, events, commands>>
    PROVE  ServesCall
<1> DEFINE m == [type |-> "response", n |-> r.n, id |-> id, errs |-> errs, facts |-> facts]
<1>1. queue' = IF r.n = 0 THEN queue ELSE Append(queue, m) BY DEF Reply
<1>2. /\ m.type = "response" /\ m.n = r.n /\ m.id = id /\ m.errs = errs /\ m.facts = facts
      /\ "n" \in DOMAIN m /\ "id" \in DOMAIN m
  OBVIOUS
<1> HIDE DEF m
<1>3. CASE r.n = 0
  <2>1. 0 \notin DOMAIN commands
    <3>1. Len(commands) \in Nat /\ DOMAIN commands = 1..Len(commands) BY Added DEF CallsInv
    <3> QED BY <3>1
  <2>2. \A n \in DOMAIN commands : ~Bears(r, n) BY <1>3, <2>1 DEF Bears
  <2> QED BY <1>1, <1>3, <2>2 DEF ServesCall
<1>4. CASE r.n # 0
  <2>1. m.type \notin Kinds BY <1>2 DEF Kinds
  <2>2. MessageOf(world, commands, m) BY <1>2, <1>4, <2>1 DEF MessageOf
  <2>3. \A n \in DOMAIN commands :
           /\ (Bears(m, n) <=> Bears(r, n))
           /\ Owed(commands[n], m) = Owed(commands[n], r)
    BY <1>2, <1>4 DEF Bears, Owed
  <2>4. queue' = Append(queue, m) BY <1>1, <1>4
  <2> QED BY <2>2, <2>3, <2>4 DEF ServesCall
<1> QED BY <1>3, <1>4

(* The bits of a list are bits of a mask.                                    *)
LEMMA ListFits == ASSUME NEW list PROVE IsMask(convertToGnssSvIdConfig(list))
<1>1. Width \in Nat \ {0} /\ SbasLength \in Nat BY SvBlacklistAssumption
<1>2. \A t \in SvTypes : First[t] \in Nat BY DEF SvTypes, First
<1>3. ASSUME NEW s, s.type \in Blacklistable PROVE BitsOf(s) \subseteq AllBits
  <2> DEFINE second == s.type = "sbas" /\ s.id >= SbasFirst2
             first == IF second THEN SbasFirst2
                      ELSE IF s.type = "sbas" THEN SbasFirst ELSE First[s.type]
             length == IF s.type = "sbas" /\ ~second THEN SbasLength ELSE Width
             b == (s.id - first + (IF second THEN SbasLength ELSE 0)) % Width
  <2>1. first \in Nat /\ length \in Nat
    BY <1>1, <1>2, <1>3 DEF Blacklistable, SbasFirst, SbasFirst2
  <2>2. BitsOf(s) = IF s.id = 0 THEN AllBits
                    ELSE IF s.id \in first..(first + length - 1) THEN {b} ELSE {}
    BY DEF BitsOf
  <2>3. s.id \in first..(first + length - 1) => b \in AllBits
    <3> HIDE DEF first, length, second
    <3>1. s.id \in first..(first + length - 1) => s.id \in Int BY <2>1
    <3> DEFINE d == s.id - first + (IF second THEN SbasLength ELSE 0)
    <3>2. s.id \in first..(first + length - 1) => d \in Int BY <1>1, <2>1, <3>1
    <3> HIDE DEF d
    <3>3. d \in Int => d % Width \in 0..(Width - 1) BY <1>1
    <3> QED BY <3>2, <3>3 DEF AllBits, d
  <2> HIDE DEF first, length, b
  <2> QED BY <2>2, <2>3
<1>4. \A t \in Blacklistable :
         UNION {BitsOf(source) : source \in {s \in list : s.type = t}} \subseteq AllBits
  BY <1>3
<1> QED BY <1>4 DEF IsMask, convertToGnssSvIdConfig

(* A configuration: its errors go by position, which is right where the      *)
(* order of sending is that of the flags and no server is refused.           *)
LEMMA UpdateServesCall == ASSUME Shape, CallsInv, LocApiUpdate PROVE ServesCall
<1> DEFINE r == Head(requests)
           listed == "blacklist" \in Requested(r) /\ Supported
           mask == convertToGnssSvIdConfig(r.list)
           order == InOrder(SendOrder, Requested(r))
           ids == InOrder(Flags, r.flags)
<1>1. /\ requests # <<>> /\ r.op = "update" /\ requests' = Tail(requests)
      /\ UNCHANGED <<world, commands, events>>
  BY Zenon DEF LocApiUpdate, Next1, Taken
<1>2. PICK bad \in Refused(SentOn(r)) :
         LET Err(f) == CASE f \in bad -> "refused"
                         [] f = "blacklist" /\ ~Supported -> "unsupported"
                         [] OTHER -> "ok"
             Fact(f) == IF f = "server" /\ f \notin r.need THEN "invalid" ELSE Err(f)
         IN  /\ adapter' = IF listed THEN [adapter EXCEPT !.list = r.list, !.mask = mask]
                           ELSE adapter
             /\ modem' = [modem EXCEPT
                  !.conf = [i \in Engine |-> IF i \in SentOn(r) \ bad THEN r.conf[i] ELSE @[i]],
                  !.lock = IF "lock" \in SentOn(r) \ bad THEN r.lock ELSE @,
                  !.mo = IF "server" \in SentOn(r) \ bad /\ r.mo # 0 THEN r.mo ELSE @,
                  !.mask = IF "blacklist" \in SentOn(r) \ bad
                           THEN combineBlacklistSvs(mask, CombinedTypes(adapter)) ELSE @]
             /\ Reply(r, 0,
                      [k \in DOMAIN ids |-> IF k <= Len(order) THEN Err(order[k]) ELSE "ok"],
                      [k \in DOMAIN ids |-> Fact(ids[k])])
  BY Zenon DEF LocApiUpdate
<1> DEFINE Err(f) == CASE f \in bad -> "refused"
                       [] f = "blacklist" /\ ~Supported -> "unsupported"
                       [] OTHER -> "ok"
           Fact(f) == IF f = "server" /\ f \notin r.need THEN "invalid" ELSE Err(f)
           errs == [k \in DOMAIN ids |-> IF k <= Len(order) THEN Err(order[k]) ELSE "ok"]
           facts == [k \in DOMAIN ids |-> Fact(ids[k])]
           done == SentOn(r) \ bad
<1>3. Reply(r, 0, errs, facts) BY <1>2
<1>4. RequestOf(world, commands, r) BY <1>1, FitRemoved DEF CallsInv, Fits
<1>5. /\ "n" \in DOMAIN r /\ "id" \notin DOMAIN r /\ r.lock \subseteq Bits
      /\ \A i \in r.flags \cap Engine : r.conf[i] \in Nat
  BY <1>1, <1>4 DEF RequestOf, RequestFits
<1>6. IsMask(mask) BY ListFits
<1>7. AdapterFits(adapter') /\ adapter'.pending = adapter.pending
  <2> HIDE DEF listed
  <2>1. adapter' = IF listed THEN [adapter EXCEPT !.list = r.list, !.mask = mask] ELSE adapter
    BY <1>2
  <2>2. CASE listed BY <1>6, <2>1, <2>2 DEF Shape, CallsInv, AdapterFits, AdapterFields
  <2> QED BY <2>1, <2>2 DEF CallsInv
<1>8. ModemFits(modem')
  <2>1. done \subseteq r.flags
    <3>1. SentOn(r) \subseteq r.flags
      <4> HIDE DEF r
      <4> QED BY DEF SentOn, Requested
    <3> QED BY <3>1
  <2> DEFINE conf == [i \in Engine |-> IF i \in done THEN r.conf[i] ELSE modem.conf[i]]
             lock == IF "lock" \in done THEN r.lock ELSE modem.lock
             new == IF "blacklist" \in done
                    THEN combineBlacklistSvs(mask, CombinedTypes(adapter)) ELSE modem.mask
  <2>2. PICK mo : modem' = [modem EXCEPT !.conf = conf, !.lock = lock, !.mo = mo, !.mask = new]
    BY <1>2
  <2>3. conf \in [Engine -> Nat] BY <1>5, <2>1 DEF CallsInv, ModemFits
  <2>4. lock \subseteq Bits BY <1>5 DEF CallsInv, ModemFits
  <2>5. IsMask(new) BY <1>6, MasksCombine DEF CallsInv, ModemFits
  <2> HIDE DEF conf, lock, new
  <2> QED BY <2>2, <2>3, <2>4, <2>5 DEF Shape, CallsInv, ModemFits, ModemFields
<1>9. ASSUME r.n # 0
      PROVE  /\ r.n \in DOMAIN commands
             /\ DOMAIN commands[r.n].told \subseteq DOMAIN errs
             /\ errs = facts \/ Astray(world, commands[r.n])
  <2> DEFINE c == commands[r.n]
  <2>1. /\ r.n \in DOMAIN commands /\ c.kind = "update" /\ r.flags = c.arg.flags
        /\ "server" \in r.flags \ r.need => Astray(world, c)
    BY <1>1, <1>4, <1>5, <1>9 DEF RequestOf
  <2>2. IsCommand(world, c) BY <2>1 DEF CallsInv
  <2> HIDE DEF c
  <2>3. c.arg \in Updates /\ c.told = [i \in 1..Cardinality(r.flags) |-> c.told[i]]
    BY <2>1, <2>2 DEF IsCommand, Ids
  <2>4. r.flags \subseteq ToSet(Flags) BY <2>1, <2>3, GnssConfigAssumption
  <2>5. DOMAIN ids = 1..Cardinality(r.flags) /\ Len(ids) = Cardinality(r.flags)
        /\ \A k \in DOMAIN ids : ids[k] \in r.flags
    <3> HIDE DEF r
    <3> QED BY <2>4, OrderLength, OrderHas
  <2>6. ASSUME ~Astray(world, c) PROVE errs = facts
    <3>1. Inject /\ InOrder(SendOrder, r.flags) = InOrder(Flags, r.flags)
      BY <2>1, <2>6 DEF Astray, Inject
    <3>2. order = ids BY <3>1 DEF Requested
    <3>3. "server" \notin r.flags \/ "server" \in r.need BY <2>1, <2>6
    <3>4. \A k \in DOMAIN ids : Fact(ids[k]) = Err(ids[k]) BY <2>5, <3>3
    <3>5. \A k \in DOMAIN ids : k <= Len(order)
      <4>1. Cardinality(r.flags) \in Nat
        <5> HIDE DEF r
        <5> QED BY <2>4, OrderLength
      <4> HIDE DEF order, ids
      <4> QED BY <2>5, <3>2, <4>1
    <3> HIDE DEF Err, Fact, order, ids
    <3> QED BY <3>2, <3>4, <3>5
  <2>7. DOMAIN c.told \subseteq DOMAIN errs BY <2>3, <2>5
  <2> QED BY <2>1, <2>6, <2>7 DEF c
<1> HIDE DEF errs, facts, r
<1> QED BY <1>1, <1>3, <1>5, <1>7, <1>8, <1>9, ReplyServes DEF r

(* The other requests of the adapter                                         *)
LEMMA AfterFits ==
    ASSUME Shape, CallsInv, NEW r, RequestFits(r),
           r.op \in {"blacklist", "band", "mode", "week", "read", "lock", "control", "reset"}
    PROVE  ModemFits(After(r))
<1>1. DOMAIN modem = ModemFields /\ ModemFits(modem) BY DEF Shape, CallsInv
<1>2. CASE r.op = "lock" BY <1>1, <1>2 DEF RequestFits, After, ModemFits, ModemFields
<1>3. CASE r.op = "blacklist" BY <1>1, <1>3 DEF RequestFits, After, ModemFits, ModemFields
<1>4. CASE r.op = "control" BY <1>1, <1>4 DEF RequestFits, After, ModemFits, ModemFields
<1>5. CASE r.op = "reset" BY <1>1, <1>5 DEF RequestFits, After, ModemFits, ModemFields
<1>6. CASE r.op = "week"
  <2> DEFINE conf == [modem.conf EXCEPT !.week = r.value]
  <2>1. conf \in [Engine -> Nat] BY <1>1, <1>6 DEF RequestFits, ModemFits
  <2>2. After(r) = [modem EXCEPT !.conf = conf] BY <1>1, <1>6 DEF After, ModemFields
  <2> HIDE DEF conf
  <2> QED BY <1>1, <2>1, <2>2 DEF ModemFits, ModemFields
<1>7. CASE r.op \in {"band", "mode", "read"} BY <1>1, <1>7 DEF After, ModemFits, ModemFields
<1> QED BY <1>2, <1>3, <1>4, <1>5, <1>6, <1>7

LEMMA RequestServesCall == ASSUME Shape, CallsInv, LocApiRequest PROVE ServesCall
<1> DEFINE r == Head(requests)
           id == IF r.op = "read" THEN r.id ELSE 0
<1>1. /\ requests # <<>> /\ r.op \in Answering \cup {"lock", "control", "reset"}
      /\ requests' = Tail(requests) /\ UNCHANGED <<world, events, commands, adapter>>
  BY DEF LocApiRequest, Taken
<1>2. PICK bad \in Refused({r.op}) :
         LET err == IF bad = {} THEN "ok" ELSE "refused" IN
         /\ modem' = IF bad = {} THEN After(r) ELSE modem
         /\ IF r.op \in Answering THEN Reply(r, id, <<err>>, <<err>>) ELSE UNCHANGED queue
  BY DEF LocApiRequest
<1> DEFINE err == IF bad = {} THEN "ok" ELSE "refused"
           errs == <<err>>
<1>3. RequestOf(world, commands, r) BY <1>1, FitRemoved DEF CallsInv, Fits
<1>4. r.op \in {"blacklist", "band", "mode", "week", "read", "lock", "control", "reset"}
  BY <1>1 DEF Answering
<1>5. ModemFits(modem')
  <2>1. ModemFits(After(r)) BY <1>3, <1>4, AfterFits DEF RequestOf
  <2> QED BY <1>2, <2>1 DEF CallsInv
<1>6. AdapterFits(adapter') /\ adapter'.pending = adapter.pending BY <1>1 DEF CallsInv
<1>7. CASE r.op \in Answering
  <2>1. Reply(r, id, errs, errs) BY <1>2, <1>7
  <2>2. "n" \in DOMAIN r /\ id = IF "id" \in DOMAIN r THEN r.id ELSE 0
    BY <1>3, <1>7 DEF RequestOf
  <2>3. "id" \in DOMAIN r /\ r.n # 0 => r.id # 0 BY <1>3, <2>2 DEF RequestOf
  <2>4. ASSUME r.n # 0, id = 0
        PROVE  DOMAIN commands[r.n].told \subseteq DOMAIN errs
    <3>1. "id" \notin DOMAIN r BY <2>2, <2>3, <2>4
    <3>2. r.op # "read" BY <1>3, <3>1 DEF RequestOf
    <3>3. r.n \in DOMAIN commands /\ Ids(commands[r.n]) = 1
      BY <1>3, <1>7, <2>2, <2>4, <3>2 DEF RequestOf
    <3>4. DOMAIN commands[r.n].told = 1..1 BY <3>3 DEF CallsInv, IsCommand
    <3>5. DOMAIN errs = 1..1  OBVIOUS
    <3> QED BY <3>4, <3>5
  <2>5. r.n # 0 => r.n \in DOMAIN commands BY <1>3, <2>2 DEF RequestOf
  <2> HIDE DEF errs, id, r
  <2> QED BY <1>1, <1>5, <1>6, <2>1, <2>2, <2>3, <2>4, <2>5, ReplyServes DEF r
<1>8. CASE r.op \notin Answering
  <2>1. UNCHANGED queue BY <1>2, <1>8
  <2>2. "n" \notin DOMAIN r BY <1>3, <1>4, <1>8 DEF RequestOf
  <2>3. \A n \in DOMAIN commands : ~Bears(r, n) BY <2>2 DEF Bears
  <2> QED BY <1>1, <1>5, <1>6, <2>1, <2>3 DEF ServesCall
<1> QED BY <1>7, <1>8

(* A mode is checked, and loaded.                                            *)
LEMMA CheckServesCall == ASSUME Shape, CallsInv, LocApiCheck PROVE ServesCall
<1> DEFINE h == Head(requests)
           r == [op |-> "load", mode |-> h.mode]
<1>1. /\ requests # <<>> /\ h.op = "check"
      /\ \/ requests' = Tail(requests)
         \/ requests' = <<r>> \o Tail(requests)
      /\ \/ UNCHANGED modem
         \/ modem' = [modem EXCEPT !.modes[h.mode] = adapter.modes[h.mode]]
      /\ UNCHANGED <<world, events, commands, adapter, queue>>
  BY DEF LocApiCheck, Next1
<1>2. r.op = "load" /\ "n" \notin DOMAIN r /\ "id" \notin DOMAIN r  OBVIOUS
<1> HIDE DEF r
<1>3. RequestOf(world, commands, r) BY <1>2 DEF RequestOf, RequestFits, Answering
<1>4. RequestOf(world, commands, h) BY <1>1, FitRemoved DEF CallsInv, Fits
<1>5. "n" \notin DOMAIN h BY <1>1, <1>4 DEF RequestOf, Answering
<1>6. \A n \in DOMAIN commands : ~Bears(h, n) BY <1>5 DEF Bears
<1>7. ModemFits(modem') BY <1>1 DEF Shape, CallsInv, ModemFits, ModemFields
<1>8. AdapterFits(adapter') /\ adapter'.pending = adapter.pending BY <1>1 DEF CallsInv
<1> QED BY <1>1, <1>2, <1>3, <1>6, <1>7, <1>8 DEF ServesCall

LEMMA LoadServesCall == ASSUME Shape, CallsInv, LocApiLoad PROVE ServesCall
<1> DEFINE h == Head(requests)
<1>1. /\ requests # <<>> /\ h.op = "load" /\ requests' = Tail(requests)
      /\ adapter' = [adapter EXCEPT !.modes[h.mode] = 0]
      /\ \/ UNCHANGED modem
         \/ modem' = [modem EXCEPT !.modes[h.mode] = 0]
      /\ UNCHANGED <<world, events, commands, queue>>
  BY DEF LocApiLoad, Next1, Taken
<1>2. RequestOf(world, commands, h) BY <1>1, FitRemoved DEF CallsInv, Fits
<1>3. "n" \notin DOMAIN h BY <1>1, <1>2 DEF RequestOf, Answering
<1>4. \A n \in DOMAIN commands : ~Bears(h, n) BY <1>3 DEF Bears
<1>5. ModemFits(modem') BY <1>1 DEF Shape, CallsInv, ModemFits, ModemFields
<1>6. AdapterFits(adapter') /\ adapter'.pending = adapter.pending
  BY <1>1 DEF Shape, CallsInv, AdapterFits, AdapterFields
<1> QED BY <1>1, <1>4, <1>5, <1>6 DEF ServesCall

(* The modem is opened: the adapter will hear of it.                         *)
LEMMA OpenServesCall == ASSUME Shape, CallsInv, LocApiOpen PROVE ServesCall
<1> DEFINE h == Head(requests)
           m == [type |-> "up"]
<1>1. /\ requests # <<>> /\ h.op = "open" /\ requests' = Tail(requests)
      /\ modem' = [modem EXCEPT !.up = TRUE] /\ queue' = Append(queue, m)
      /\ UNCHANGED <<world, events, commands, adapter>>
  BY DEF LocApiOpen, Next1, Taken
<1>2. m.type = "up" /\ "n" \notin DOMAIN m /\ "id" \notin DOMAIN m  OBVIOUS
<1> HIDE DEF m
<1>3. RequestOf(world, commands, h) BY <1>1, FitRemoved DEF CallsInv, Fits
<1>4. "n" \notin DOMAIN h /\ "id" \notin DOMAIN h BY <1>1, <1>3 DEF RequestOf, Answering
<1>5. MessageOf(world, commands, m) BY <1>2 DEF MessageOf, Kinds
<1>6. \A n \in DOMAIN commands :
         /\ (Bears(m, n) <=> Bears(h, n)) /\ Owed(commands[n], m) = Owed(commands[n], h)
  BY <1>2, <1>4 DEF Bears, Owed
<1>7. ModemFits(modem') BY <1>1 DEF Shape, CallsInv, ModemFits, ModemFields
<1>8. AdapterFits(adapter') /\ adapter'.pending = adapter.pending BY <1>1 DEF CallsInv
<1> QED BY <1>1, <1>5, <1>6, <1>7, <1>8 DEF ServesCall

(* What disturbs has nothing to do with calls.                               *)
LEMMA FreshFits == IsMask(NoMask) /\ ModemFits(Fresh) /\ ModemFits([Fresh EXCEPT !.up = FALSE])
<1>1. IsMask(NoMask) BY DEF IsMask, NoMask
<1> QED BY <1>1 DEF Fresh, ModemFits

LEMMA CrashDisturbs == ASSUME Shape, CallsInv, ModemCrashes PROVE Disturbs
<1> DEFINE r == [op |-> "open"]
<1>1. /\ events < MaxEvents /\ events' = events + 1
      /\ modem' = [Fresh EXCEPT !.up = FALSE] /\ requests' = Append(requests, r)
      /\ UNCHANGED <<world, commands, adapter, queue>>
  BY DEF ModemCrashes, Event
<1>2. r.op = "open" /\ "n" \notin DOMAIN r /\ "id" \notin DOMAIN r  OBVIOUS
<1> HIDE DEF r
<1>3. RequestOf(world, commands, r) BY <1>2 DEF RequestOf, RequestFits, Answering
<1>4. events' \in 0..MaxEvents BY <1>1, GnssConfigAssumption DEF CallsInv
<1>5. ModemFits(modem') BY <1>1, FreshFits
<1>6. AdapterFits(adapter') /\ adapter'.pending = adapter.pending BY <1>1 DEF CallsInv
<1> QED BY <1>1, <1>2, <1>3, <1>4, <1>5, <1>6 DEF Disturbs

LEMMA LockDisturbs == ASSUME Shape, CallsInv, EngineLockChanges PROVE Disturbs
<1> DEFINE m == [type |-> "lock", on |-> adapter'.locked]
<1>1. /\ events < MaxEvents /\ events' = events + 1
      /\ adapter' = [adapter EXCEPT !.locked = ~@] /\ queue' = Append(queue, m)
      /\ UNCHANGED <<world, commands, requests, modem>>
  BY DEF EngineLockChanges, Event
<1>2. m.type = "lock" /\ "n" \notin DOMAIN m  OBVIOUS
<1> HIDE DEF m
<1>3. MessageOf(world, commands, m) BY <1>2 DEF MessageOf, Kinds
<1>4. events' \in 0..MaxEvents BY <1>1, GnssConfigAssumption DEF CallsInv
<1>5. AdapterFits(adapter') /\ adapter'.pending = adapter.pending
  BY <1>1 DEF Shape, CallsInv, AdapterFits, AdapterFields
<1>6. ModemFits(modem') BY <1>1 DEF CallsInv
<1> QED BY <1>1, <1>2, <1>3, <1>4, <1>5, <1>6 DEF Disturbs

-----------------------------------------------------------------------------
(* At first there are no calls;                                              *)
LEMMA InitCalls == Init => CallsInv
<1> SUFFICES ASSUME Init PROVE CallsInv
  OBVIOUS
<1> DEFINE r == [op |-> "open"]
<1>1. /\ world \in Worlds /\ commands = <<>> /\ events = 0 /\ queue = <<>>
      /\ requests = <<r>> /\ adapter.pending = <<>>
      /\ adapter.conf = [i \in Kept |-> 0] /\ adapter.list = {} /\ adapter.mask = NoMask
      /\ adapter.api = DefaultTypes /\ adapter.xtra = DefaultTypes
      /\ modem = [Fresh EXCEPT !.up = FALSE]
  BY DEF Init
<1>2. r.op = "open" /\ "n" \notin DOMAIN r /\ "id" \notin DOMAIN r  OBVIOUS
<1>3. <<r>> = Append(<<>>, r)  OBVIOUS
<1> HIDE DEF r
<1>4. RequestOf(world, commands, r) BY <1>2 DEF RequestOf, RequestFits, Answering
<1>5. AllFit("requests", world, commands, Append(<<>>, r)) BY <1>4, NoneFits, FitAdded DEF Fits
<1>6. AllFit("requests", world, commands, requests) BY <1>1, <1>3, <1>5
<1>7. AllFit("queue", world, commands, queue) /\ AllFit("queue", world, commands, adapter.pending)
  BY <1>1, NoneFits
<1>8. IsSeq(commands) /\ DOMAIN commands = {} /\ Len(commands) = 0 BY <1>1, NoElements
<1>9. NoMask = convertToGnssSvIdConfig({}) BY DEF NoMask, convertToGnssSvIdConfig
<1>10. AdapterFits(adapter) BY <1>1, <1>9, FreshFits, TypesFit DEF AdapterFits
<1>11. ModemFits(modem) BY <1>1, FreshFits
<1>12. events \in 0..MaxEvents /\ Len(commands) <= MaxCommands
  BY <1>1, <1>8, GnssConfigAssumption
<1> QED BY <1>1, <1>6, <1>7, <1>8, <1>10, <1>11, <1>12 DEF CallsInv

(* every step keeps what is known of them,                                   *)
LEMMA StepCalls == LockInv /\ CallsInv /\ [Next]_vars => CallsInv'
<1> SUFFICES ASSUME LockInv, CallsInv, [Next]_vars PROVE CallsInv'
  OBVIOUS
<1>1. Shape /\ LockFits(adapter) BY DEF LockInv
<1>2. CASE Callers BY <1>2, CallersAdd, AddsCallKeeps
<1>3. CASE Adapter
  <2>1. CASE ProcEarly BY <1>1, <2>1, EarlyKeeps
  <2>2. CASE handleEngineUpEvent \/ handleEngineLockStatus
    <3>1. HandlesNews BY <1>1, <2>2, UpIsNews, LockIsNews
    <3> QED BY <1>1, <3>1, HandlesNewsKeeps
  <2>3. CASE \/ ProcUpdate \/ ProcGet \/ ProcEnable \/ ProcDisable \/ ProcNfw \/ ProcTypes
             \/ gnssUpdateSvConfig \/ gnssUpdateSecondaryBandConfig \/ ProcMode \/ ProcWeek
             \/ ProcResponse
    <3>1. HandlesCall
      BY <1>1, <2>3, UpdateGoesOn, GetAnswers, EnableAnswers, DisableAnswers, NfwGoesOn,
        TypesGoOn, SvsGoOn, BandGoesOn, ModeGoesOn, WeekGoesOn, ResponseAnswers
    <3> QED BY <3>1, HandlesCallKeeps
  <2> QED BY <1>3, <2>1, <2>2, <2>3 DEF Adapter
<1>4. CASE LocApi
  <2>1. ServesCall
    BY <1>1, <1>4, UpdateServesCall, CheckServesCall, LoadServesCall, RequestServesCall,
      OpenServesCall DEF LocApi
  <2> QED BY <2>1, ServesCallKeeps
<1>5. CASE ModemCrashes \/ EngineLockChanges
  <2>1. Disturbs BY <1>1, <1>5, CrashDisturbs, LockDisturbs
  <2> QED BY <2>1, DisturbsKeeps
<1>6. CASE UNCHANGED vars BY <1>6 DEF vars, CallsInv
<1> QED BY <1>2, <1>3, <1>4, <1>5, <1>6 DEF Next

(* and where all is done nothing is owed.                                    *)
LEMMA NothingOwed == LockInv /\ CallsInv => EachAnswered
<1> SUFFICES ASSUME LockInv, CallsInv PROVE EachAnswered
  OBVIOUS
<1>1. Shape /\ LockFits(adapter) BY DEF LockInv
<1>2. TypeOK
  <2>1. /\ adapter.lock \subseteq Bits
        /\ \A k \in DOMAIN adapter.pending : adapter.pending[k].type \in Waiting
    BY <1>1 DEF LockFits, Shape
  <2>2. {adapter.api.on, adapter.api.off, adapter.xtra.on, adapter.xtra.off, modem.on}
           \subseteq SUBSET SvTypes
    BY DEF CallsInv, AdapterFits, ModemFits, IsTypes
  <2> QED BY <2>1, <2>2 DEF TypeOK, CallsInv, AdapterFits, ModemFits, IsMask
<1>3. ASSUME NEW n \in DOMAIN commands, commands[n].wrong
      PROVE  Astray(world, commands[n])
  BY <1>3 DEF CallsInv, IsCommand
<1>4. ASSUME NEW n \in DOMAIN commands, ~Excused(commands[n]), AtRest
      PROVE  \A i \in DOMAIN commands[n].told : commands[n].told[i] = 1
  <2> DEFINE c == commands[n]
  <2>1. AnswerOf(c, n, queue, adapter.pending, requests) BY <1>4 DEF CallsInv
  <2> HIDE DEF c
  <2>2. queue = <<>> /\ requests = <<>> /\ adapter.pending = <<>> BY <1>4 DEF AtRest, Quiet
  <2>3. ~Holds(c, n, <<>>) BY NoElements DEF Holds
  <2>4. ToldBut(c, {}) BY <2>1, <2>2, <2>3 DEF AnswerOf
  <2> QED BY <2>4 DEF ToldBut, c
<1> QED BY <1>2, <1>3, <1>4 DEF EachAnswered, Astray, Excused, Readable, Inject

(* Every call is answered once for each of its ids when all is done, with    *)
(* the error of its item, for any number of calls, crashes and locks:        *)
(* gnssUpdateConfigCommand, gnssGetConfigCommand, enableCommand and the      *)
(* other calls with ids, what waits for the engine, what they send to LocApi *)
(* and its collective responses.                                             *)
THEOREM EachCallAnswered == Spec => []EachAnswered
<1>1. Init => LockInv /\ CallsInv BY InitLock, InitCalls
<1>2. LockInv /\ CallsInv /\ [Next]_vars => (LockInv /\ CallsInv)' BY StepLock, StepCalls
<1>3. LockInv /\ CallsInv => EachAnswered BY NothingOwed
<1> QED BY <1>1, <1>2, <1>3, PTL DEF Spec
=============================================================================
