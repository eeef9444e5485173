-------------------------- MODULE GeofenceProofs --------------------------
(***************************************************************************)
(* What Geofence promises, proved for all ids, worlds and bounds.          *)
(***************************************************************************)
EXTENDS Geofence, SequenceTheorems, FiniteSetTheorems, WellFoundedInduction, TLAPS

-----------------------------------------------------------------------------
(* Sequences: what is taken from the front, what is added at the end         *)

LEMMA HasTaken ==
    ASSUME NEW S, NEW s \in Seq(S), s # <<>>
    PROVE  /\ Tail(s) \in Seq(S)
           /\ Len(s) \in Nat /\ DOMAIN s = 1..Len(s) /\ DOMAIN Tail(s) = 1..(Len(s) - 1)
           /\ 1 \in DOMAIN s /\ Head(s) = s[1] /\ Head(s) \in S
           /\ \A k \in DOMAIN Tail(s) : k + 1 \in DOMAIN s /\ Tail(s)[k] = s[k + 1]
           /\ \A k \in DOMAIN s : k = 1 \/ (k - 1 \in DOMAIN Tail(s) /\ s[k] = Tail(s)[k - 1])
<1>1. /\ Tail(s) \in Seq(S) /\ Len(Tail(s)) = Len(s) - 1
      /\ \A i \in 1..Len(Tail(s)) : Tail(s)[i] = s[i + 1]
      /\ Head(s) = s[1] /\ Head(s) \in S
  BY HeadTailProperties
<1>2. Len(s) \in Nat /\ DOMAIN s = 1..Len(s) /\ Len(s) # 0 BY LenProperties, EmptySeq
<1>3. DOMAIN Tail(s) = 1..Len(Tail(s)) BY <1>1, LenProperties
<1> QED BY <1>1, <1>2, <1>3

LEMMA HasJoined ==
    ASSUME NEW S, NEW s \in Seq(S), NEW t \in Seq(S)
    PROVE  /\ s \o t \in Seq(S)
           /\ Len(s) \in Nat /\ Len(t) \in Nat /\ DOMAIN s = 1..Len(s) /\ DOMAIN t = 1..Len(t)
           /\ Len(s \o t) = Len(s) + Len(t) /\ DOMAIN (s \o t) = 1..(Len(s) + Len(t))
           /\ \A k \in DOMAIN s : k \in DOMAIN (s \o t) /\ (s \o t)[k] = s[k]
           /\ \A k \in DOMAIN t : Len(s) + k \in DOMAIN (s \o t) /\ (s \o t)[Len(s) + k] = t[k]
           /\ \A k \in DOMAIN (s \o t) :
                 k \in DOMAIN s \/ (k > Len(s) /\ k - Len(s) \in DOMAIN t /\ (s \o t)[k] = t[k - Len(s)])
<1>1. /\ s \o t \in Seq(S) /\ Len(s \o t) = Len(s) + Len(t)
      /\ \A i \in 1..(Len(s) + Len(t)) : (s \o t)[i] = IF i <= Len(s) THEN s[i] ELSE t[i - Len(s)]
  BY ConcatProperties
<1>2. /\ Len(s) \in Nat /\ DOMAIN s = 1..Len(s) /\ Len(t) \in Nat /\ DOMAIN t = 1..Len(t)
      /\ DOMAIN (s \o t) = 1..Len(s \o t)
  BY <1>1, LenProperties
<1> DEFINE u == s \o t
<1> HIDE DEF u
<1> QED BY <1>1, <1>2 DEF u

LEMMA HasAppended ==
    ASSUME NEW S, NEW s \in Seq(S), NEW e \in S
    PROVE  /\ Append(s, e) \in Seq(S)
           /\ Len(s) \in Nat /\ DOMAIN s = 1..Len(s)
           /\ Len(Append(s, e)) = Len(s) + 1 /\ DOMAIN Append(s, e) = 1..(Len(s) + 1)
           /\ \A k \in DOMAIN s : k \in DOMAIN Append(s, e) /\ Append(s, e)[k] = s[k]
           /\ Append(s, e)[Len(s) + 1] = e
           /\ \A k \in DOMAIN Append(s, e) : k \in DOMAIN s \/ k = Len(s) + 1
<1>1. /\ Append(s, e) \in Seq(S) /\ Len(Append(s, e)) = Len(s) + 1
      /\ \A i \in 1..Len(s) : Append(s, e)[i] = s[i]
      /\ Append(s, e)[Len(s) + 1] = e
  BY AppendProperties
<1>2. /\ Len(s) \in Nat /\ DOMAIN s = 1..Len(s) /\ DOMAIN Append(s, e) = 1..Len(Append(s, e))
  BY <1>1, LenProperties
<1> DEFINE u == Append(s, e)
<1> HIDE DEF u
<1> QED BY <1>1, <1>2 DEF u

(* The elements of a finite set of numbers from the smallest to the largest  *)
LEMMA RanksDiffer ==
    ASSUME NEW S, S \subseteq Int, IsFiniteSet(S), NEW i \in S, NEW j \in S, i < j
    PROVE  Cardinality({y \in S : y <= i}) # Cardinality({y \in S : y <= j})
<1> DEFINE A == {y \in S : y <= i}
           B == {y \in S : y <= j}
<1>1. A \in SUBSET B /\ j \in B /\ j \notin A /\ B \in SUBSET S
  <2>1. i \in Int /\ j \in Int /\ \A y \in S : y \in Int /\ (y <= i => y <= j)  OBVIOUS
  <2>2. j \in B /\ j \notin A BY <2>1
  <2>3. \A y \in A : y \in B BY <2>1
  <2> QED BY <2>2, <2>3
<1> HIDE DEF A, B
<1>2. IsFiniteSet(B) BY <1>1, FS_Subset
<1>3. Cardinality(A) = Cardinality(B) => A = B BY <1>1, <1>2, FS_Subset
<1> QED BY <1>1, <1>3 DEF A, B

LEMMA AscendingIs ==
    ASSUME NEW S, S \subseteq Int, IsFiniteSet(S)
    PROVE  /\ Ascending(S) \in Seq(S)
           /\ DOMAIN Ascending(S) = 1..Cardinality(S) /\ Cardinality(S) \in Nat
           /\ Len(Ascending(S)) = Cardinality(S)
           /\ \A i, j \in DOMAIN Ascending(S) : Ascending(S)[i] = Ascending(S)[j] => i = j
           /\ Range(Ascending(S)) = S
           /\ S # {} => Ascending(S) # <<>>
<1> DEFINE Rank(k) == Cardinality({y \in S : y <= k})
           n == Cardinality(S)
           R == {Rank(k) : k \in S}
           f == [k \in S |-> Rank(k)]
           a == Ascending(S)
<1>1. n \in Nat BY FS_CardinalityType
<1>2. ASSUME NEW k \in S PROVE Rank(k) \in 1..n
  <2> DEFINE B == {y \in S : y <= k}
  <2>1. B \in SUBSET S /\ k \in B  OBVIOUS
  <2> HIDE DEF B
  <2>2. IsFiniteSet(B) /\ Cardinality(B) <= n BY <2>1, FS_Subset
  <2>3. Cardinality(B) \in Nat /\ Cardinality(B) # 0
    BY <2>1, <2>2, FS_CardinalityType, FS_EmptySet
  <2> QED BY <1>1, <2>2, <2>3 DEF B
<1>3. \A j, k \in S : Rank(j) = Rank(k) => j = k
  <2> TAKE j, k \in S
  <2>1. j < k \/ k < j \/ j = k  OBVIOUS
  <2>2. j < k => Rank(j) # Rank(k) BY RanksDiffer
  <2>3. k < j => Rank(k) # Rank(j) BY RanksDiffer
  <2> QED BY <2>1, <2>2, <2>3
<1>4. \A i \in 1..n : \E k \in S : Rank(k) = i
  <2>1. f \in [S -> 1..n] BY <1>2
  <2>2. f \in Injection(S, 1..n)
    <3> HIDE DEF f, n, Rank
    <3>1. \A j, k \in S : f[j] = f[k] => j = k BY <1>3 DEF f
    <3> QED BY <2>1, <3>1 DEF Injection, IsInjective
  <2>3. IsFiniteSet(1..n) /\ Cardinality(1..n) = n BY <1>1, FS_Interval
  <2> HIDE DEF f
  <2>4. f \in Surjection(S, 1..n) BY <2>2, <2>3, FS_Injection
  <2> HIDE DEF n, Rank
  <2>5. \A i \in 1..n : \E k \in S : f[k] = i BY <2>4 DEF Surjection
  <2> QED BY <2>5 DEF f
<1> HIDE DEF Rank
<1>5. \A i \in 1..n : (CHOOSE x \in S : Rank(x) = i) \in S /\ Rank(CHOOSE x \in S : Rank(x) = i) = i
  BY <1>4
<1>6. a = [i \in 1..n |-> CHOOSE x \in S : Rank(x) = i] BY DEF Ascending, Rank
<1> HIDE DEF n, a
<1>7. DOMAIN a = 1..n /\ \A i \in 1..n : a[i] \in S /\ Rank(a[i]) = i BY <1>5, <1>6
<1>8. a \in Seq(S) /\ Len(a) = n
  <2>1. a \in [1..n -> S] BY <1>6, <1>7
  <2> QED BY <1>1, <2>1, LenProperties
<1>9. \A i, j \in DOMAIN a : a[i] = a[j] => i = j BY <1>7
<1>10. \A k \in S : \E i \in 1..n : a[i] = k
  <2> TAKE k \in S
  <2>1. Rank(k) \in 1..n BY <1>2
  <2>2. a[Rank(k)] = k BY <1>3, <1>7, <2>1
  <2> QED BY <2>1, <2>2
<1>11. Range(a) = S BY <1>7, <1>10 DEF Range
<1>12. S # {} => a # <<>>
  <2>1. a = <<>> => n = 0 BY <1>8, EmptySeq
  <2>2. ASSUME S # {} PROVE n # 0
    <3>1. PICK i \in 1..n : TRUE BY <1>10, <2>2
    <3> QED BY <1>1, <3>1
  <2> QED BY <2>1, <2>2
<1> QED BY <1>1, <1>7, <1>8, <1>9, <1>11, <1>12 DEF n, a

-----------------------------------------------------------------------------
(* What bears the number of a command on its way through both threads: its   *)
(* message (stage 0), its items asked of LocApi's call queue (1), back from  *)
(* it (2), asked of the modem (3) and answered by it (4)                     *)
OfMessage(m) ==
    CASE m.what = "command" -> [n |-> m.n, last |-> TRUE, stage |-> 0]
      [] m.what = "answer"  -> [n |-> m.to.n, last |-> m.to.flag,
                                stage |-> IF m.to.do = "call" THEN 2 ELSE 4]
      [] OTHER              -> [n |-> 0, last |-> FALSE, stage |-> 4]
OfRequest(r) == [n |-> r.n, last |-> r.flag, stage |-> IF r.do = "call" THEN 1 ELSE 3]

(* Whatever is ahead belongs to an earlier command, or is another item of    *)
(* the same one, of which the last stays last.                               *)
Ahead(x, y) == x.n < y.n \/ (x.n = y.n /\ ~x.last /\ y.stage # 0)
Leads(x, y)    == x.n # 0 /\ y.n # 0 /\ x.stage > y.stage => Ahead(x, y)
Precedes(x, y) == x.n # 0 /\ y.n # 0 /\ x.stage >= y.stage => Ahead(x, y)

Sorted(q, rs) ==
    /\ \A j, k \in DOMAIN q :
          /\ Leads(OfMessage(q[j]), OfMessage(q[k]))
          /\ j < k => Precedes(OfMessage(q[j]), OfMessage(q[k]))
    /\ \A j, k \in DOMAIN rs :
          /\ Leads(OfRequest(rs[j]), OfRequest(rs[k]))
          /\ j < k => Precedes(OfRequest(rs[j]), OfRequest(rs[k]))
    /\ \A j \in DOMAIN q, k \in DOMAIN rs :
          /\ Leads(OfMessage(q[j]), OfRequest(rs[k]))
          /\ Leads(OfRequest(rs[k]), OfMessage(q[j]))

(* Something of command n is under way; the item with its answer is.         *)
Present(q, rs, n) ==
    \/ \E k \in DOMAIN q : OfMessage(q[k]).n = n
    \/ \E k \in DOMAIN rs : OfRequest(rs[k]).n = n
Borne(q, rs, n) ==
    \/ \E k \in DOMAIN q : OfMessage(q[k]).n = n /\ OfMessage(q[k]).last
    \/ \E k \in DOMAIN rs : OfRequest(rs[k]).n = n /\ OfRequest(rs[k]).last

(* The shape of requests q, messages rs and commands cs                      *)
Sent(cs, n) == Range(cs[n].sessions)
RequestFits(r, cs) ==
    /\ r \in Requests
    /\ r.do # "open" => r.session \in Sessions
    /\ r.do = "open" => r.n = 0 /\ r.then = "nothing"
    /\ IF r.n = 0 THEN r.do # "call" /\ r.then \notin Kinds
       ELSE /\ r.n \in DOMAIN cs /\ r.then = cs[r.n].do
            /\ r.do \in {"call", r.then}
            /\ r.then # "remove" => r.flag
            /\ r.session \in Sent(cs, r.n)
MessageFits(m, cs) ==
    /\ m \in Messages
    /\ m.what = "command" =>
          m.n \in DOMAIN cs /\ m.do = cs[m.n].do /\ m.ids = cs[m.n].sessions
    /\ m.what = "answer" => RequestFits(m.to, cs) /\ m.to.do # "open"
Additions(cs) == {n \in DOMAIN cs : cs[n].do = "add"}
Used(cs) == 1..Cardinality(Additions(cs))
CommandFits(c, cs) ==
    /\ c.sessions # <<>> /\ IsInjective(c.sessions) /\ Range(c.sessions) \subseteq Used(cs)
    /\ c.do # "remove" => Len(c.sessions) = 1
Shape(q, rs, cs) ==
    /\ \A k \in DOMAIN rs : RequestFits(rs[k], cs)
    /\ \A k \in DOMAIN q : MessageFits(q[k], cs)
    /\ \A n \in DOMAIN cs : CommandFits(cs[n], cs)

(* Each command's answer is under way, or was given once, and is true.       *)
AnswerOf(c, borne, here) ==
    /\ c.sent <= 1
    /\ c.sent = 1 => ~borne
    /\ here /\ c.sent = 0 => borne \/ (c.do = "resume" /\ c.refused)
    /\ c.do = "resume" /\ c.refused => c.sent = 0 /\ ~borne
    /\ c.do \notin {"resume", "modify"} /\ c.refused => c.failed
AnswerInv == \A n \in DOMAIN commands : AnswerOf(commands[n], Borne(queue, requests, n), client)

(* Where nothing fails and commands wait for the last one on their id        *)
Orderly == ~Exposed({"hasty", "refuses", "locks"}) /\ ~Restarts

WholeInv ==
    Orderly => \A n \in DOMAIN commands :
        /\ commands[n].sent = 1 => ~Present(queue, requests, n)
        /\ client /\ Present(queue, requests, n) => Borne(queue, requests, n)
        /\ commands[n].got \in {0, n}

(* The requests that wait are those of the commands under way.               *)
EntryInv ==
    /\ Destroyed => requestQueue = <<>>
    /\ Orderly /\ ~Destroyed =>
        /\ \A j, k \in DOMAIN requestQueue : j < k => requestQueue[j].n < requestQueue[k].n
        /\ \A k \in DOMAIN requestQueue : requestQueue[k].n \in DOMAIN commands
        /\ \A n \in DOMAIN commands :
              Borne(queue, requests, n) <=> \E k \in DOMAIN requestQueue : requestQueue[k].n = n
        /\ \A k \in DOMAIN requestQueue, id \in Ids :
              forward[id] # 0 =>
                  (forward[id] \in Sent(commands, requestQueue[k].n) <=> id \in requestQueue[k].ids)

(* The sessions of the framework's ids                                       *)
IdsInv ==
    /\ \A id \in Ids : forward[id] \in Used(commands) \cup {0}
    /\ \A i, j \in Ids : forward[i] = forward[j] /\ forward[i] # 0 => i = j
    /\ \A n \in DOMAIN commands, id \in Ids :
          commands[n].do = "remove" => forward[id] \notin Sent(commands, n)
    /\ Orderly /\ ~Destroyed =>
          \A id \in Ids : forward[id] # 0 => Waiting(id) \/ hwIds[forward[id]] # NoHw

(* The sessions a message or request is about                                *)
NamedBy(m) ==
    CASE m.what = "command" -> Range(m.ids)
      [] m.what = "answer"  -> IF m.to.n = 0 THEN {} ELSE {m.to.session}
      [] OTHER              -> {}
NamedByRequest(r) == IF r.n = 0 THEN {} ELSE {r.session}
Apart(q, rs) ==
    /\ \A j, k \in DOMAIN q : j # k => NamedBy(q[j]) \cap NamedBy(q[k]) = {}
    /\ \A j, k \in DOMAIN rs : j # k => NamedByRequest(rs[j]) \cap NamedByRequest(rs[k]) = {}
    /\ \A j \in DOMAIN q, k \in DOMAIN rs : NamedBy(q[j]) \cap NamedByRequest(rs[k]) = {}

Removing(m) == m.what = "answer" /\ m.to.n # 0 /\ m.to.do = "remove"
Adding(m)   == m.what = "answer" /\ m.to.n # 0 /\ m.to.do = "add"

(* Session s has hwId h in the modem mo.                                     *)
Runs(mo, s, h) == mo[h] # NoFence /\ mo[h].session = s
Nowhere(hs, mo, s) == hs[s] = NoHw /\ \A h \in ModemIds : ~Runs(mo, s, h)

(* Adapter (hs, fs) and modem agree about the geofences of the commands cs   *)
(* but for those whose addition or removal is under way in q.                *)
MapsAgree(q, hs, fs, mo, cs) ==
    /\ \A s \in Sessions : hs[s] # NoHw =>
          /\ hs[s] \in ModemIds
          /\ fs[hs[s]] # NoFence /\ fs[hs[s]].session = s
          /\ \/ Runs(mo, s, hs[s])
             \/ \E k \in DOMAIN q : Removing(q[k]) /\ q[k].to.session = s /\ q[k].to.hw = hs[s]
          /\ s \in Used(cs)
    /\ \A h \in ModemIds : mo[h] # NoFence =>
          mo[h].session \in Used(cs) /\ \A g \in ModemIds : Runs(mo, mo[h].session, g) => g = h
    /\ \A k \in DOMAIN q : Adding(q[k]) =>
          /\ q[k].to.hw \in ModemIds /\ Runs(mo, q[k].to.session, q[k].to.hw)
          /\ hs[q[k].to.session] = NoHw
    /\ \A j, k \in DOMAIN q :
          Removing(q[j]) /\ Adding(q[k]) /\ q[j].to.hw = q[k].to.hw => j < k

(* What is under way finds the maps as it needs them.                        *)
RequestFinds(r, hs, mo) ==
    IF r.n = 0 THEN r.do \in {"pause", "resume"} /\ r.then \in {"suspend", "wake"}
    ELSE IF r.then = "add" THEN Nowhere(hs, mo, r.session)
    ELSE hs[r.session] # NoHw /\ (r.do # "call" => r.hw = hs[r.session])
MessageFinds(m, hs, mo) ==
    /\ m.what = "command" =>
          \A s \in Range(m.ids) : IF m.do = "add" THEN Nowhere(hs, mo, s) ELSE hs[s] # NoHw
    /\ m.what = "answer" =>
          /\ m.to.n # 0 => m.ok
          /\ ~Adding(m) => RequestFinds(m.to, hs, mo)
    /\ m.what # "up"
CalmInv ==
    /\ Orderly => engineLock = "enabled" /\ modemUp
    /\ Orderly /\ client =>
        /\ Apart(queue, requests)
        /\ MapsAgree(queue, hwIds, fences, modem, commands)
        /\ \A k \in DOMAIN requests : RequestFinds(requests[k], hwIds, modem)
        /\ \A k \in DOMAIN queue : MessageFinds(queue[k], hwIds, modem)

Base == TypeOK /\ Shape(queue, requests, commands) /\ Sorted(queue, requests) /\ AnswerInv
Inv == Base /\ WholeInv /\ EntryInv /\ IdsInv /\ CalmInv

-----------------------------------------------------------------------------
(* What moves on stays in order                                              *)

Marked(q, rs) ==
    /\ \A k \in DOMAIN q : OfMessage(q[k]).n \in Nat /\ OfMessage(q[k]).stage \in {0, 2, 4}
    /\ \A k \in DOMAIN rs : OfRequest(rs[k]).n \in Nat /\ OfRequest(rs[k]).stage \in {1, 3}

(* What comes of the token x one stage later                                 *)
Follows(y, x) == y.n = 0 \/ (y.n = x.n /\ y.stage = x.stage + 1 /\ (y.last => x.last))

(* The requests that come of one message: only the last can be the last.     *)
Batch(out, x) ==
    /\ \A k \in DOMAIN out : Follows(OfRequest(out[k]), x)
    /\ \A j, k \in DOMAIN out : j < k => ~OfRequest(out[j]).last \/ OfRequest(out[j]).n = 0

LEMMA TakeSorted ==
    ASSUME NEW Q, NEW R, NEW q \in Seq(Q), q # <<>>, NEW rs \in Seq(R), NEW out \in Seq(R),
           Marked(q, rs), Sorted(q, rs), Batch(out, OfMessage(Head(q))),
           \A k \in DOMAIN out : OfRequest(out[k]).stage \in {1, 3}
    PROVE  Sorted(Tail(q), rs \o out) /\ Marked(Tail(q), rs \o out)
<1> DEFINE p == Tail(q)
           o == rs \o out
           x == OfMessage(Head(q))
           n == Len(rs)
<1>1. /\ 1 \in DOMAIN q /\ x = OfMessage(q[1])
      /\ \A k \in DOMAIN p : k \in Int /\ k >= 1 /\ k + 1 \in DOMAIN q /\ p[k] = q[k + 1]
  BY HasTaken
<1>2. /\ \A k \in DOMAIN out : k \in Int
      /\ \A k \in DOMAIN rs : k \in Int /\ k <= n
      /\ \A k \in DOMAIN o :
            \/ k \in DOMAIN rs /\ o[k] = rs[k]
            \/ k > n /\ k - n \in DOMAIN out /\ o[k] = out[k - n]
      /\ n \in Int /\ \A k \in DOMAIN o : k \in Int
  BY HasJoined
<1>3. /\ x.n \in Nat /\ x.stage \in {0, 2, 4}
      /\ \A k \in DOMAIN p : OfMessage(p[k]).n \in Nat /\ OfMessage(p[k]).stage \in {0, 2, 4}
      /\ \A k \in DOMAIN p : Precedes(x, OfMessage(p[k])) /\ Leads(OfMessage(p[k]), x)
      /\ \A k \in DOMAIN rs : Leads(x, OfRequest(rs[k])) /\ Leads(OfRequest(rs[k]), x)
      /\ \A k \in DOMAIN rs : OfRequest(rs[k]).n \in Nat /\ OfRequest(rs[k]).stage \in {1, 3}
  <2>1. \A k \in DOMAIN p : 1 < k + 1 /\ ~(k + 1 < 1) BY <1>1
  <2> HIDE DEF p, x
  <2> QED BY <1>1, <2>1 DEF Marked, Sorted
<1>4. /\ \A j, k \in DOMAIN p : (Leads(OfMessage(p[j]), OfMessage(p[k])) /\ (j < k => Precedes(OfMessage(p[j]), OfMessage(p[k]))))
      /\ \A j \in DOMAIN p, k \in DOMAIN rs :
            /\ Leads(OfMessage(p[j]), OfRequest(rs[k]))
            /\ Leads(OfRequest(rs[k]), OfMessage(p[j]))
      /\ \A j, k \in DOMAIN rs : (Leads(OfRequest(rs[j]), OfRequest(rs[k])) /\ (j < k => Precedes(OfRequest(rs[j]), OfRequest(rs[k]))))
  <2>1. \A j, k \in DOMAIN p : (j + 1 < k + 1) = (j < k) BY <1>1
  <2> HIDE DEF p, x
  <2> QED BY <1>1, <2>1 DEF Sorted
<1>5. \A k \in DOMAIN out :
         /\ Follows(OfRequest(out[k]), x) /\ OfRequest(out[k]).stage \in {1, 3}
         /\ OfRequest(out[k]).n = 0 \/ OfRequest(out[k]).n = x.n
  BY DEF Batch, Follows
<1> HIDE DEF p, o, x, n
(* What was there is ahead of what comes, unless it is at an earlier stage.  *)
<1>6. ASSUME NEW y, y.stage \in {1, 3}, Follows(y, x),
             NEW z, z.n \in Nat, z.stage \in {1, 3},
             Leads(x, z), Leads(z, x)
      PROVE  Precedes(z, y) /\ Leads(y, z) /\ Leads(z, y)
  BY <1>3, <1>6 DEF Follows, Leads, Precedes, Ahead
<1>7. ASSUME NEW y, y.stage \in {1, 3}, Follows(y, x),
             NEW z, z.n \in Nat, z.stage \in {0, 2, 4},
             Precedes(x, z), Leads(z, x)
      PROVE  Leads(z, y) /\ Leads(y, z)
  BY <1>3, <1>7 DEF Follows, Leads, Precedes, Ahead
<1>8. \A j, k \in DOMAIN o : (Leads(OfRequest(o[j]), OfRequest(o[k])) /\ (j < k => Precedes(OfRequest(o[j]), OfRequest(o[k]))))
  <2> SUFFICES ASSUME NEW j \in DOMAIN o, NEW k \in DOMAIN o
               PROVE  (Leads(OfRequest(o[j]), OfRequest(o[k])) /\ (j < k => Precedes(OfRequest(o[j]), OfRequest(o[k]))))
    OBVIOUS
  <2>1. CASE j \in DOMAIN rs /\ k \in DOMAIN rs /\ o[j] = rs[j] /\ o[k] = rs[k] BY <1>4, <2>1
  <2>2. CASE j \in DOMAIN rs /\ o[j] = rs[j] /\ k > n /\ k - n \in DOMAIN out /\ o[k] = out[k - n]
    <3>1. j < k BY <1>2, <2>2
    <3> QED BY <1>3, <1>5, <1>6, <2>2, <3>1
  <2>3. CASE k \in DOMAIN rs /\ o[k] = rs[k] /\ j > n /\ j - n \in DOMAIN out /\ o[j] = out[j - n]
    <3>1. ~(j < k) BY <1>2, <2>3
    <3> QED BY <1>3, <1>5, <1>6, <2>3, <3>1
  <2>4. CASE /\ j > n /\ j - n \in DOMAIN out /\ o[j] = out[j - n]
             /\ k > n /\ k - n \in DOMAIN out /\ o[k] = out[k - n]
    <3>1. (j - n < k - n) = (j < k) BY <1>2, <2>4
    <3>2. j < k => ~OfRequest(o[j]).last \/ OfRequest(o[j]).n = 0 BY <2>4, <3>1 DEF Batch
    <3> QED BY <1>3, <1>5, <2>4, <3>2 DEF Follows, Leads, Precedes, Ahead
  <2> QED BY <1>2, <2>1, <2>2, <2>3, <2>4
<1>9. \A j \in DOMAIN p, k \in DOMAIN o :
         /\ Leads(OfMessage(p[j]), OfRequest(o[k]))
         /\ Leads(OfRequest(o[k]), OfMessage(p[j]))
  <2> SUFFICES ASSUME NEW j \in DOMAIN p, NEW k \in DOMAIN o
               PROVE  Leads(OfMessage(p[j]), OfRequest(o[k])) /\ Leads(OfRequest(o[k]), OfMessage(p[j]))
    OBVIOUS
  <2>1. CASE k \in DOMAIN rs /\ o[k] = rs[k] BY <1>4, <2>1
  <2>2. CASE k - n \in DOMAIN out /\ o[k] = out[k - n]
    <3>1. Follows(OfRequest(o[k]), x) /\ OfRequest(o[k]).stage \in {1, 3} BY <1>5, <2>2
    <3> QED BY <1>3, <1>7, <3>1
  <2> QED BY <1>2, <2>1, <2>2
<1>10. Marked(p, o) BY <1>2, <1>3, <1>5 DEF Marked
<1> QED BY <1>4, <1>8, <1>9, <1>10 DEF Sorted, p, o

LEMMA MoveSorted ==
    ASSUME NEW Q, NEW R, NEW q \in Seq(Q), NEW rs \in Seq(R), rs # <<>>, NEW m \in Q,
           Marked(q, rs), Sorted(q, rs), Follows(OfMessage(m), OfRequest(Head(rs))),
           OfMessage(m).stage \in {0, 2, 4}
    PROVE  Sorted(Append(q, m), Tail(rs)) /\ Marked(Append(q, m), Tail(rs))
<1> DEFINE p == Append(q, m)
           o == Tail(rs)
           x == OfRequest(Head(rs))
           y == OfMessage(m)
           n == Len(q) + 1
<1>1. /\ 1 \in DOMAIN rs /\ x = OfRequest(rs[1])
      /\ \A k \in DOMAIN o : k \in Int /\ k >= 1 /\ k + 1 \in DOMAIN rs /\ o[k] = rs[k + 1]
  BY HasTaken
<1>2. \A k \in DOMAIN p : \/ k \in DOMAIN q /\ p[k] = q[k] /\ k \in Int /\ k < n
                          \/ k = n /\ p[k] = m /\ k \in Int
  BY HasAppended
<1>3. /\ x.n \in Nat /\ x.stage \in {1, 3}
      /\ \A k \in DOMAIN o : OfRequest(o[k]).n \in Nat /\ OfRequest(o[k]).stage \in {1, 3}
      /\ \A k \in DOMAIN o : Precedes(x, OfRequest(o[k])) /\ Leads(OfRequest(o[k]), x)
      /\ \A k \in DOMAIN q : Leads(x, OfMessage(q[k])) /\ Leads(OfMessage(q[k]), x)
      /\ \A k \in DOMAIN q : OfMessage(q[k]).n \in Nat /\ OfMessage(q[k]).stage \in {0, 2, 4}
  <2>1. \A k \in DOMAIN o : 1 < k + 1 /\ ~(k + 1 < 1) BY <1>1
  <2> HIDE DEF o, x
  <2> QED BY <1>1, <2>1 DEF Marked, Sorted
<1>4. /\ \A j, k \in DOMAIN o : (Leads(OfRequest(o[j]), OfRequest(o[k])) /\ (j < k => Precedes(OfRequest(o[j]), OfRequest(o[k]))))
      /\ \A k \in DOMAIN o, j \in DOMAIN q :
            /\ Leads(OfMessage(q[j]), OfRequest(o[k]))
            /\ Leads(OfRequest(o[k]), OfMessage(q[j]))
      /\ \A j, k \in DOMAIN q : (Leads(OfMessage(q[j]), OfMessage(q[k])) /\ (j < k => Precedes(OfMessage(q[j]), OfMessage(q[k]))))
  <2>1. \A j, k \in DOMAIN o : (j + 1 < k + 1) = (j < k) BY <1>1
  <2> HIDE DEF o, x
  <2> QED BY <1>1, <2>1 DEF Sorted
<1>5. Follows(y, x) /\ y.stage \in {0, 2, 4}  OBVIOUS
<1> HIDE DEF p, o, x, y, n
<1>6. ASSUME NEW z, z.n \in Nat, z.stage \in {0, 2, 4}, Leads(x, z), Leads(z, x)
      PROVE  Precedes(z, y) /\ Leads(y, z) /\ Leads(z, y)
  BY <1>3, <1>5, <1>6 DEF Follows, Leads, Precedes, Ahead
<1>7. ASSUME NEW z, z.n \in Nat, z.stage \in {1, 3}, Precedes(x, z), Leads(z, x)
      PROVE  Leads(z, y) /\ Leads(y, z)
  BY <1>3, <1>5, <1>7 DEF Follows, Leads, Precedes, Ahead
<1>12. \A k \in DOMAIN q : LET z == OfMessage(q[k]) IN Precedes(z, y) /\ Leads(y, z) /\ Leads(z, y)
  BY <1>3, <1>6
<1>8. \A j, k \in DOMAIN p : (Leads(OfMessage(p[j]), OfMessage(p[k])) /\ (j < k => Precedes(OfMessage(p[j]), OfMessage(p[k]))))
  <2> SUFFICES ASSUME NEW j \in DOMAIN p, NEW k \in DOMAIN p
               PROVE  (Leads(OfMessage(p[j]), OfMessage(p[k])) /\ (j < k => Precedes(OfMessage(p[j]), OfMessage(p[k]))))
    OBVIOUS
  <2>1. CASE j \in DOMAIN q /\ k \in DOMAIN q /\ p[j] = q[j] /\ p[k] = q[k] BY <1>4, <2>1
  <2>2. CASE j \in DOMAIN q /\ p[j] = q[j] /\ k = n /\ p[k] = m /\ j < k BY <1>12, <2>2 DEF y
  <2>3. CASE k \in DOMAIN q /\ p[k] = q[k] /\ j = n /\ p[j] = m /\ ~(j < k)
    <3>1. Leads(y, OfMessage(q[k])) BY <1>12, <2>3
    <3>2. OfMessage(p[j]) = y /\ OfMessage(p[k]) = OfMessage(q[k]) /\ ~(j < k) BY <2>3 DEF y
    <3> QED BY <3>1, <3>2
  <2>4. CASE j = n /\ k = n /\ p[j] = m /\ p[k] = m /\ ~(j < k)
    <3>1. OfMessage(p[j]) = y /\ OfMessage(p[k]) = y /\ ~(y.stage > y.stage)
      BY <1>5, <2>4 DEF y
    <3> QED BY <2>4, <3>1 DEF Leads
  <2> QED BY <1>2, <2>1, <2>2, <2>3, <2>4
<1>9. \A j \in DOMAIN p, k \in DOMAIN o :
         /\ Leads(OfMessage(p[j]), OfRequest(o[k]))
         /\ Leads(OfRequest(o[k]), OfMessage(p[j]))
  BY <1>2, <1>3, <1>4, <1>7 DEF y
<1>10. y.n \in Nat BY <1>3, <1>5 DEF Follows
<1>11. Marked(p, o) BY <1>2, <1>3, <1>5, <1>10 DEF Marked, y
<1> QED BY <1>4, <1>8, <1>9, <1>11 DEF Sorted, p, o

LEMMA PostSorted ==
    ASSUME NEW Q, NEW q \in Seq(Q), NEW rs, NEW m \in Q, Marked(q, rs), Sorted(q, rs),
           LET y == OfMessage(m) IN
           /\ y.n \in Nat /\ y.stage \in {0, 2, 4}
           /\ y.n = 0 \/ (y.stage = 0 /\ \A n \in Nat : Present(q, rs, n) => n < y.n)
    PROVE  Sorted(Append(q, m), rs) /\ Marked(Append(q, m), rs)
<1> DEFINE p == Append(q, m)
           y == OfMessage(m)
           n == Len(q) + 1
<1>1. \A k \in DOMAIN p : \/ k \in DOMAIN q /\ p[k] = q[k] /\ k \in Int /\ k < n
                          \/ k = n /\ p[k] = m /\ k \in Int
  BY HasAppended
<1>2. y.n \in Nat /\ y.stage \in {0, 2, 4}  OBVIOUS
<1> HIDE DEF p, y, n
<1>3. \A j \in DOMAIN q : /\ Precedes(OfMessage(q[j]), y) /\ Leads(y, OfMessage(q[j]))
                          /\ Leads(OfMessage(q[j]), y)
                          /\ OfMessage(q[j]).n \in Nat /\ OfMessage(q[j]).stage \in {0, 2, 4}
  BY <1>2 DEF y, Present, Marked, Leads, Precedes, Ahead
<1>4. \A j \in DOMAIN rs : /\ Leads(OfRequest(rs[j]), y) /\ Leads(y, OfRequest(rs[j]))
                           /\ OfRequest(rs[j]).n \in Nat /\ OfRequest(rs[j]).stage \in {1, 3}
  BY <1>2 DEF y, Present, Marked, Leads, Precedes, Ahead
<1>5. \A j, k \in DOMAIN p : (Leads(OfMessage(p[j]), OfMessage(p[k])) /\ (j < k => Precedes(OfMessage(p[j]), OfMessage(p[k]))))
  <2> SUFFICES ASSUME NEW j \in DOMAIN p, NEW k \in DOMAIN p
               PROVE  (Leads(OfMessage(p[j]), OfMessage(p[k])) /\ (j < k => Precedes(OfMessage(p[j]), OfMessage(p[k]))))
    OBVIOUS
  <2>1. CASE j \in DOMAIN q /\ k \in DOMAIN q /\ p[j] = q[j] /\ p[k] = q[k] BY <2>1 DEF Sorted
  <2>2. CASE j \in DOMAIN q /\ p[j] = q[j] /\ k = n /\ p[k] = m /\ j < k BY <1>3, <2>2 DEF y
  <2>3. CASE k \in DOMAIN q /\ p[k] = q[k] /\ j = n /\ p[j] = m /\ ~(j < k)
    <3>1. Leads(y, OfMessage(q[k])) BY <1>3, <2>3
    <3>2. OfMessage(p[j]) = y /\ OfMessage(p[k]) = OfMessage(q[k]) /\ ~(j < k) BY <2>3 DEF y
    <3> QED BY <3>1, <3>2
  <2>4. CASE j = n /\ k = n /\ p[j] = m /\ p[k] = m /\ ~(j < k)
    <3>1. OfMessage(p[j]) = y /\ OfMessage(p[k]) = y /\ ~(y.stage > y.stage)
      BY <1>2, <2>4 DEF y
    <3> QED BY <2>4, <3>1 DEF Leads
  <2> QED BY <1>1, <2>1, <2>2, <2>3, <2>4
<1>6. \A j \in DOMAIN p, k \in DOMAIN rs :
         /\ Leads(OfMessage(p[j]), OfRequest(rs[k]))
         /\ Leads(OfRequest(rs[k]), OfMessage(p[j]))
  BY <1>1, <1>4 DEF Sorted, y
<1>7. Marked(p, rs) BY <1>1, <1>2 DEF Marked, y
<1> QED BY <1>5, <1>6, <1>7 DEF Sorted, p

(* What is there of a command after a step                                   *)
LEMMA TakePresence ==
    ASSUME NEW Q, NEW R, NEW q \in Seq(Q), q # <<>>, NEW rs \in Seq(R), NEW out \in Seq(R),
           Marked(q, rs), Sorted(q, rs), Batch(out, OfMessage(Head(q))),
           \A k \in DOMAIN out : OfRequest(out[k]).stage \in {1, 3},
           NEW n \in Nat \ {0}
    PROVE  LET p == Tail(q)
               o == rs \o out
               x == OfMessage(Head(q))
           IN  /\ Present(p, o, n) => Present(q, rs, n)
               /\ Borne(p, o, n) => Borne(q, rs, n)
               /\ n # x.n => (Present(q, rs, n) => Present(p, o, n)) /\ (Borne(q, rs, n) => Borne(p, o, n))
               /\ ~x.last => (Borne(q, rs, n) => Borne(p, o, n))
               /\ n = x.n /\ (\E k \in DOMAIN out : OfRequest(out[k]).n = n /\ OfRequest(out[k]).last)
                     => Borne(p, o, n)
               /\ n = x.n /\ x.last /\ Borne(p, o, n)
                     => \E k \in DOMAIN out : OfRequest(out[k]).n = n /\ OfRequest(out[k]).last
               /\ n = x.n => Present(q, rs, n) /\ (x.last => Borne(q, rs, n))
               /\ n = x.n /\ x.last /\ x.stage = 4 => ~Present(p, o, n)
<1> DEFINE p == Tail(q)
           o == rs \o out
           x == OfMessage(Head(q))
           l == Len(rs)
<1>1. /\ 1 \in DOMAIN q /\ x = OfMessage(q[1])
      /\ \A k \in DOMAIN p : k \in Int /\ k >= 1 /\ k + 1 \in DOMAIN q /\ p[k] = q[k + 1]
      /\ \A k \in DOMAIN q : k = 1 \/ (k - 1 \in DOMAIN p /\ q[k] = p[k - 1])
  BY HasTaken
<1>2. /\ \A k \in DOMAIN rs : k \in DOMAIN o /\ o[k] = rs[k]
      /\ \A k \in DOMAIN out : l + k \in DOMAIN o /\ o[l + k] = out[k]
      /\ \A k \in DOMAIN o :
            \/ k \in DOMAIN rs /\ o[k] = rs[k]
            \/ k - l \in DOMAIN out /\ o[k] = out[k - l]
  BY HasJoined
<1>3. /\ x.n \in Nat /\ x.stage \in {0, 2, 4}
      /\ \A k \in DOMAIN p : OfMessage(p[k]).n \in Nat /\ OfMessage(p[k]).stage \in {0, 2, 4}
      /\ \A k \in DOMAIN p : Precedes(x, OfMessage(p[k])) /\ Leads(OfMessage(p[k]), x)
      /\ \A k \in DOMAIN rs : Leads(x, OfRequest(rs[k])) /\ Leads(OfRequest(rs[k]), x)
      /\ \A k \in DOMAIN rs : OfRequest(rs[k]).n \in Nat /\ OfRequest(rs[k]).stage \in {1, 3}
  <2>1. \A k \in DOMAIN p : 1 < k + 1 BY <1>1
  <2> HIDE DEF p, x
  <2> QED BY <1>1, <2>1 DEF Marked, Sorted
<1>4. \A k \in DOMAIN out : Follows(OfRequest(out[k]), x) BY DEF Batch
<1> HIDE DEF p, o, x, l
<1>5. \A k \in DOMAIN out : OfRequest(out[k]).n = n =>
         n = x.n /\ (OfRequest(out[k]).last => x.last) /\ x.stage # 4
  BY <1>4 DEF Follows
<1>6. \A k \in DOMAIN p : OfMessage(p[k]).n = x.n /\ n = x.n /\ x.last
                             => ~OfMessage(p[k]).last /\ OfMessage(p[k]).stage > x.stage
  BY <1>3 DEF Precedes, Leads, Ahead
<1>7. \A k \in DOMAIN rs : OfRequest(rs[k]).n = x.n /\ n = x.n /\ x.last
                             => ~OfRequest(rs[k]).last /\ OfRequest(rs[k]).stage > x.stage
  BY <1>3 DEF Precedes, Leads, Ahead
<1>14. n = x.n => Present(q, rs, n) /\ (x.last => Borne(q, rs, n)) BY <1>1 DEF Present, Borne
<1>8. Present(p, o, n) => Present(q, rs, n) BY <1>1, <1>2, <1>5, <1>14 DEF Present
<1>9. Borne(p, o, n) => Borne(q, rs, n) BY <1>1, <1>2, <1>5, <1>14 DEF Borne
<1>10. n # x.n => (Present(q, rs, n) => Present(p, o, n)) BY <1>1, <1>2 DEF Present
<1>11. n # x.n \/ ~x.last => (Borne(q, rs, n) => Borne(p, o, n)) BY <1>1, <1>2 DEF Borne
<1>12. n = x.n /\ (\E k \in DOMAIN out : OfRequest(out[k]).n = n /\ OfRequest(out[k]).last) => Borne(p, o, n)
  BY <1>2 DEF Borne
<1>13. n = x.n /\ x.last /\ Borne(p, o, n)
          => \E k \in DOMAIN out : OfRequest(out[k]).n = n /\ OfRequest(out[k]).last
  BY <1>2, <1>6, <1>7 DEF Borne
<1>15. n = x.n /\ x.last /\ x.stage = 4 => ~Present(p, o, n)
  <2> SUFFICES ASSUME n = x.n, x.last, x.stage = 4 PROVE ~Present(p, o, n)
    OBVIOUS
  <2>1. \A k \in DOMAIN p : OfMessage(p[k]).n # n BY <1>3, <1>6
  <2>2. \A k \in DOMAIN rs : OfRequest(rs[k]).n # n BY <1>3, <1>7
  <2>3. \A k \in DOMAIN out : OfRequest(out[k]).n # n BY <1>5
  <2> QED BY <1>2, <2>1, <2>2, <2>3 DEF Present
<1> QED BY <1>8, <1>9, <1>10, <1>11, <1>12, <1>13, <1>14, <1>15 DEF p, o, x

LEMMA MovePresence ==
    ASSUME NEW Q, NEW R, NEW q \in Seq(Q), NEW rs \in Seq(R), rs # <<>>, NEW m \in Q,
           OfMessage(m).n = OfRequest(Head(rs)).n,
           OfMessage(m).n # 0 => OfMessage(m).last = OfRequest(Head(rs)).last,
           NEW n \in Nat \ {0}
    PROVE  /\ Present(Append(q, m), Tail(rs), n) <=> Present(q, rs, n)
           /\ Borne(Append(q, m), Tail(rs), n) <=> Borne(q, rs, n)
<1> DEFINE p == Append(q, m)
           o == Tail(rs)
           x == OfRequest(Head(rs))
           y == OfMessage(m)
           l == Len(q) + 1
<1>1. /\ 1 \in DOMAIN rs /\ x = OfRequest(rs[1])
      /\ \A k \in DOMAIN o : k + 1 \in DOMAIN rs /\ o[k] = rs[k + 1]
      /\ \A k \in DOMAIN rs : k = 1 \/ (k - 1 \in DOMAIN o /\ rs[k] = o[k - 1])
  BY HasTaken
<1>2. /\ \A k \in DOMAIN q : k \in DOMAIN p /\ p[k] = q[k]
      /\ l \in DOMAIN p /\ p[l] = m
      /\ \A k \in DOMAIN p : k \in DOMAIN q \/ k = l
  <2>1. Len(q) + 1 \in 1..(Len(q) + 1) BY LenProperties
  <2> QED BY <2>1, HasAppended
<1>3. y.n = x.n /\ (y.n # 0 => y.last = x.last)  OBVIOUS
<1> HIDE DEF p, o, x, y, l
<1>4. Present(p, o, n) <=> Present(q, rs, n) BY <1>1, <1>2, <1>3 DEF Present, y
<1>5. Borne(p, o, n) <=> Borne(q, rs, n) BY <1>1, <1>2, <1>3 DEF Borne, y
<1> QED BY <1>4, <1>5 DEF p, o

LEMMA PostPresence ==
    ASSUME NEW Q, NEW q \in Seq(Q), NEW rs, NEW m \in Q, NEW n \in Nat \ {0}
    PROVE  /\ Present(Append(q, m), rs, n) <=> Present(q, rs, n) \/ OfMessage(m).n = n
           /\ Borne(Append(q, m), rs, n) <=> Borne(q, rs, n) \/ (OfMessage(m).n = n /\ OfMessage(m).last)
<1> DEFINE p == Append(q, m)
           l == Len(q) + 1
<1>1. /\ \A k \in DOMAIN q : k \in DOMAIN p /\ p[k] = q[k]
      /\ l \in DOMAIN p /\ p[l] = m
      /\ \A k \in DOMAIN p : k \in DOMAIN q \/ k = l
  <2>1. Len(q) + 1 \in 1..(Len(q) + 1) BY LenProperties
  <2> QED BY <2>1, HasAppended
<1> HIDE DEF p, l
<1> QED BY <1>1 DEF Present, Borne, p

-----------------------------------------------------------------------------
(* The shape of what is under way                                            *)

(* The commands ds are those of cs, with other answers or with more of them. *)
Kept(cs, ds) ==
    /\ DOMAIN cs \subseteq DOMAIN ds
    /\ \A n \in DOMAIN cs : ds[n].do = cs[n].do /\ ds[n].sessions = cs[n].sessions

LEMMA FitsStill ==
    ASSUME NEW cs, NEW ds, Kept(cs, ds)
    PROVE  /\ \A r : RequestFits(r, cs) => RequestFits(r, ds)
           /\ \A m : MessageFits(m, cs) => MessageFits(m, ds)
<1>1. \A r : RequestFits(r, cs) => RequestFits(r, ds) BY DEF Kept, RequestFits, Sent
<1> QED BY <1>1 DEF Kept, MessageFits

LEMMA SameUsed ==
    ASSUME NEW cs, NEW ds, Kept(cs, ds), DOMAIN ds = DOMAIN cs
    PROVE  /\ Additions(ds) = Additions(cs) /\ Used(ds) = Used(cs)
           /\ \A n \in DOMAIN cs : CommandFits(cs[n], cs) => CommandFits(ds[n], ds)
           /\ \A n \in DOMAIN cs : Sent(ds, n) = Sent(cs, n)
<1>1. Additions(ds) = Additions(cs) BY DEF Kept, Additions
<1>2. Used(ds) = Used(cs) BY <1>1 DEF Used
<1> QED BY <1>1, <1>2 DEF Kept, CommandFits, Sent

LEMMA RequestMarked ==
    ASSUME NEW r \in Requests
    PROVE  OfRequest(r).n \in Nat /\ OfRequest(r).stage \in {1, 3}
BY GeofenceAssumption DEF Requests, OfRequest

LEMMA MessageMarked ==
    ASSUME NEW m \in Messages
    PROVE  OfMessage(m).n \in Nat /\ OfMessage(m).stage \in {0, 2, 4}
<1>1. CASE m.what = "command"
  <2>1. m.n \in 1..MaxCommands BY <1>1 DEF Messages
  <2> QED BY <1>1, <2>1, GeofenceAssumption DEF OfMessage
<1>2. CASE m.what = "answer"
  <2>1. m.to \in Requests BY <1>2 DEF Messages
  <2>2. m.to.n \in Nat BY <2>1, GeofenceAssumption DEF Requests
  <2> QED BY <1>2, <2>2 DEF OfMessage
<1>3. CASE m.what \notin {"command", "answer"} BY <1>3 DEF OfMessage
<1> QED BY <1>1, <1>2, <1>3

LEMMA AllMarked ==
    ASSUME NEW q \in Seq(Messages), NEW rs \in Seq(Requests)
    PROVE  Marked(q, rs)
<1>1. \A k \in DOMAIN q : q[k] \in Messages BY ElementOfSeq, LenProperties
<1>2. \A k \in DOMAIN rs : rs[k] \in Requests BY ElementOfSeq, LenProperties
<1> QED BY <1>1, <1>2, RequestMarked, MessageMarked DEF Marked

LEMMA ShapeTaken ==
    ASSUME NEW q \in Seq(Messages), q # <<>>, NEW rs \in Seq(Requests), NEW out \in Seq(Requests),
           NEW cs, NEW ds, Kept(cs, ds), DOMAIN ds = DOMAIN cs,
           Shape(q, rs, cs), \A k \in DOMAIN out : RequestFits(out[k], cs)
    PROVE  Shape(Tail(q), rs \o out, ds)
<1>1. \A k \in DOMAIN Tail(q) : MessageFits(Tail(q)[k], ds) BY HasTaken, FitsStill DEF Shape
<1>2. \A k \in DOMAIN (rs \o out) : RequestFits((rs \o out)[k], ds)
  BY HasJoined, FitsStill DEF Shape
<1>3. \A n \in DOMAIN ds : CommandFits(ds[n], ds) BY SameUsed DEF Shape
<1> QED BY <1>1, <1>2, <1>3 DEF Shape

LEMMA ShapeMoved ==
    ASSUME NEW q \in Seq(Messages), NEW rs \in Seq(Requests), rs # <<>>, NEW m \in Messages,
           NEW cs, Shape(q, rs, cs), MessageFits(m, cs)
    PROVE  Shape(Append(q, m), Tail(rs), cs)
<1>1. \A k \in DOMAIN Append(q, m) : MessageFits(Append(q, m)[k], cs) BY HasAppended DEF Shape
<1>2. \A k \in DOMAIN Tail(rs) : RequestFits(Tail(rs)[k], cs) BY HasTaken DEF Shape
<1> QED BY <1>1, <1>2 DEF Shape

LEMMA ShapePosted ==
    ASSUME NEW q \in Seq(Messages), NEW rs \in Seq(Requests), NEW m \in Messages,
           NEW cs, NEW ds, Kept(cs, ds), Shape(q, rs, cs), MessageFits(m, ds),
           \A n \in DOMAIN ds : CommandFits(ds[n], ds)
    PROVE  Shape(Append(q, m), rs, ds)
<1>1. \A k \in DOMAIN Append(q, m) : MessageFits(Append(q, m)[k], ds)
  BY HasAppended, FitsStill DEF Shape
<1>2. \A k \in DOMAIN rs : RequestFits(rs[k], ds) BY FitsStill DEF Shape
<1> QED BY <1>1, <1>2 DEF Shape

LEMMA ShapeAsked ==
    ASSUME NEW q \in Seq(Messages), NEW rs \in Seq(Requests), NEW r \in Requests,
           NEW cs, Shape(q, rs, cs), RequestFits(r, cs)
    PROVE  Shape(q, Append(rs, r), cs)
<1>1. \A k \in DOMAIN Append(rs, r) : RequestFits(Append(rs, r)[k], cs)
  BY HasAppended DEF Shape
<1> QED BY <1>1 DEF Shape

(* A request of no command                                                   *)
LEMMA AskSorted ==
    ASSUME NEW Q, NEW R, NEW q \in Seq(Q), NEW rs \in Seq(R), NEW r \in R, OfRequest(r).n = 0,
           Sorted(q, rs)
    PROVE  /\ Sorted(q, Append(rs, r))
           /\ \A n \in Nat \ {0} : /\ Present(q, Append(rs, r), n) <=> Present(q, rs, n)
                                   /\ Borne(q, Append(rs, r), n) <=> Borne(q, rs, n)
<1> DEFINE o == Append(rs, r)
           l == Len(rs) + 1
<1>1. \A k \in DOMAIN o : \/ k \in DOMAIN rs /\ o[k] = rs[k]
                          \/ k = l /\ o[k] = r
  BY HasAppended
<1>2. \A k \in DOMAIN rs : k \in DOMAIN o /\ o[k] = rs[k] BY HasAppended
<1>3. \A x : Leads(x, OfRequest(r)) /\ Leads(OfRequest(r), x) /\ Precedes(x, OfRequest(r)) /\ Precedes(OfRequest(r), x)
  BY DEF Leads, Precedes
<1> HIDE DEF o, l
<1>4. Sorted(q, o)
  <2>1. \A j, k \in DOMAIN o : /\ Leads(OfRequest(o[j]), OfRequest(o[k]))
                               /\ j < k => Precedes(OfRequest(o[j]), OfRequest(o[k]))
    BY <1>1, <1>3 DEF Sorted
  <2>2. \A j \in DOMAIN q, k \in DOMAIN o : /\ Leads(OfMessage(q[j]), OfRequest(o[k]))
                                            /\ Leads(OfRequest(o[k]), OfMessage(q[j]))
    BY <1>1, <1>3 DEF Sorted
  <2> QED BY <2>1, <2>2 DEF Sorted
<1>5. \A n \in Nat \ {0} : /\ Present(q, o, n) <=> Present(q, rs, n)
                           /\ Borne(q, o, n) <=> Borne(q, rs, n)
  BY <1>1, <1>2 DEF Present, Borne
<1> QED BY <1>4, <1>5 DEF o

-----------------------------------------------------------------------------
(* What the end of an item does                                              *)

CommandRecords == [do : Kinds, sessions : Seq(Sessions), failed : BOOLEAN,
                   refused : BOOLEAN, sent : Nat, got : 0..MaxCommands]
Entries == [do : Kinds, n : 1..MaxCommands, ids : SUBSET Ids]
Told == {"absent", "adding", "active", "paused"}

LEMMA HasFirstRemoved ==
    ASSUME NEW S, NEW s \in Seq(S), s # <<>>
    PROVE  RemoveAt(s, 1) = Tail(s)
<1>1. RemoveAt(s, 1) = SubSeq(s, 1, 0) \o SubSeq(s, 2, Len(s)) BY DEF RemoveAt
<1>2. SubSeq(s, 1, 0) = <<>> BY SubSeqEmpty
<1>3. SubSeq(s, 2, Len(s)) = Tail(s) /\ Tail(s) \in Seq(S) BY TailIsSubSeq, HeadTailProperties
<1> QED BY <1>1, <1>2, <1>3, ConcatEmptySeq

(* Command k of ds is that of cs after it had an item that came to "ok" and  *)
(* "err", "last" if it was the last.                                         *)
Counts(c, d, mine, last, ok, err) ==
    /\ ~mine => d.sent = c.sent /\ (d.failed <=> c.failed) /\ (d.refused <=> c.refused)
    /\ mine  => /\ d.sent = IF last THEN c.sent + 1 ELSE c.sent
                /\ d.failed <=> c.failed \/ err
                /\ d.refused <=> c.refused \/ ~ok

LEMMA ItemEffect ==
    ASSUME TypeOK, NEW r \in Requests, r.n \in DOMAIN commands, r.session \in Sessions,
           NEW ok \in BOOLEAN, NEW err \in BOOLEAN, ItemDone(r, ok, err)
    PROVE  LET heard == r.flag /\ client IN
           /\ known' \in [Ids -> Told]
           /\ commands' \in Seq(CommandRecords) /\ Len(commands') = Len(commands)
           /\ DOMAIN commands' = DOMAIN commands /\ Kept(commands, commands')
           /\ requestQueue' \in Seq(Entries)
           /\ requestQueue' = IF heard /\ requestQueue # <<>> THEN Tail(requestQueue) ELSE requestQueue
           /\ \A n \in DOMAIN commands :
                 /\ Counts(commands[n], commands'[n], n = r.n, heard, ok, err)
                 /\ commands'[n].got = IF heard /\ requestQueue # <<>> /\ n = requestQueue[1].n
                                       THEN r.n ELSE commands[n].got
<1> DEFINE n0 == r.n
           c0 == [commands[n0] EXCEPT !.failed = @ \/ err, !.refused = @ \/ ~ok]
           cs0 == [commands EXCEPT ![n0] = c0]
           cs1 == [commands EXCEPT ![n0] = [c0 EXCEPT !.sent = @ + 1]]
           e == requestQueue[1]
           cs2 == [cs1 EXCEPT ![e.n].got = n0]
<1>1. commands \in Seq(CommandRecords) /\ requestQueue \in Seq(Entries) /\ known \in [Ids -> Told]
      /\ client \in BOOLEAN /\ n0 \in 0..MaxCommands /\ r.flag \in BOOLEAN
      /\ MaxCommands \in Nat
  BY GeofenceAssumption DEF TypeOK, CommandRecords, Entries, Told, Requests
<1>2. /\ DOMAIN commands = 1..Len(commands) /\ Len(commands) \in Nat
      /\ \A n \in DOMAIN commands : commands[n] \in CommandRecords
      /\ commands \in [DOMAIN commands -> CommandRecords]
  BY <1>1, LenProperties, ElementOfSeq
<1>3. c0 \in CommandRecords /\ c0.do = commands[n0].do /\ c0.sessions = commands[n0].sessions
      /\ (c0.failed <=> commands[n0].failed \/ err) /\ (c0.refused <=> commands[n0].refused \/ ~ok)
      /\ c0.sent = commands[n0].sent /\ c0.got = commands[n0].got
  BY <1>2 DEF CommandRecords
<1> DEFINE c1 == [c0 EXCEPT !.sent = @ + 1]
<1>4. c1 \in CommandRecords /\ c1.do = c0.do /\ c1.sessions = c0.sessions /\ c1.failed = c0.failed
      /\ c1.refused = c0.refused /\ c1.sent = c0.sent + 1 /\ c1.got = c0.got
  <2> HIDE DEF c0
  <2> QED BY <1>3 DEF CommandRecords
<1> HIDE DEF c0
<1>5. \A d \in CommandRecords : LET ds == [commands EXCEPT ![n0] = d] IN
         /\ ds \in [DOMAIN commands -> CommandRecords] /\ ds[n0] = d
         /\ \A n \in DOMAIN commands : n # n0 => ds[n] = commands[n]
  BY <1>2
<1>6. /\ cs0 \in [DOMAIN commands -> CommandRecords] /\ cs0[n0] = c0
      /\ \A n \in DOMAIN commands : n # n0 => cs0[n] = commands[n]
  BY <1>3, <1>5
<1>7. /\ cs1 \in [DOMAIN commands -> CommandRecords] /\ cs1[n0] = c1
      /\ \A n \in DOMAIN commands : n # n0 => cs1[n] = commands[n]
  BY <1>4, <1>5
<1> HIDE DEF c1, cs0, cs1
<1>8. ASSUME requestQueue # <<>>
      PROVE  /\ cs2 \in [DOMAIN commands -> CommandRecords]
             /\ \A n \in DOMAIN commands :
                   /\ cs2[n].do = cs1[n].do /\ cs2[n].sessions = cs1[n].sessions
                   /\ cs2[n].sent = cs1[n].sent /\ cs2[n].failed = cs1[n].failed
                   /\ cs2[n].refused = cs1[n].refused
                   /\ cs2[n].got = IF n = e.n THEN n0 ELSE cs1[n].got
  <2> DEFINE v(n) == [cs1[n] EXCEPT !.got = n0]
  <2>1. \A n \in DOMAIN commands : /\ v(n) \in CommandRecords
            /\ v(n).do = cs1[n].do /\ v(n).sessions = cs1[n].sessions
            /\ v(n).sent = cs1[n].sent /\ v(n).failed = cs1[n].failed
            /\ v(n).refused = cs1[n].refused /\ v(n).got = n0
    <3> TAKE n \in DOMAIN commands
    <3>1. cs1[n] \in CommandRecords BY <1>7
    <3> QED BY <1>1, <3>1 DEF CommandRecords
  <2>2. DOMAIN cs1 = DOMAIN commands /\ DOMAIN cs2 = DOMAIN commands
        /\ \A n \in DOMAIN commands : cs2[n] = IF n = e.n THEN v(n) ELSE cs1[n]
    BY <1>7
  <2>3. cs2 = [n \in DOMAIN commands |-> cs2[n]] BY <2>2
  <2> HIDE DEF v, cs2
  <2>4. \A n \in DOMAIN commands : cs2[n] \in CommandRecords BY <1>7, <2>1, <2>2
  <2>5. cs2 \in [DOMAIN commands -> CommandRecords] BY <2>3, <2>4
  <2> QED BY <2>1, <2>2, <2>5
<1>9. /\ commands' \in [DOMAIN commands -> CommandRecords]
      /\ known' \in [Ids -> Told]
      /\ requestQueue' = IF r.flag /\ client /\ requestQueue # <<>> THEN Tail(requestQueue) ELSE requestQueue
      /\ commands' = IF r.flag /\ client THEN (IF requestQueue # <<>> THEN cs2 ELSE cs1) ELSE cs0
  <2>1. CASE ~(r.flag /\ client)
    <3>1. commands' = cs0 /\ known' = known /\ requestQueue' = requestQueue
      BY <2>1 DEF ItemDone, reportResponse, cs0, c0
    <3> QED BY <1>1, <1>6, <2>1, <3>1
  <2>2. CASE r.flag /\ client /\ requestQueue = <<>>
    <3>1. commands' = cs1 /\ known' = known /\ requestQueue' = requestQueue
      BY <2>2 DEF ItemDone, reportResponse, onCollectiveResponseCb, cs1, c1, c0, AnsweredRequest
    <3> QED BY <1>1, <1>7, <2>2, <3>1
  <2>3. CASE r.flag /\ client /\ requestQueue # <<>>
    <3>1. commands' = cs2 /\ requestQueue' = RemoveAt(requestQueue, 1)
          /\ known' = [id \in Ids |-> IF id = backward[r.session] THEN Heard(e.do, ~c0.failed, id)
                                      ELSE known[id]]
      BY <2>3 DEF ItemDone, reportResponse, onCollectiveResponseCb, cs1, c1, c0, AnsweredRequest
    <3>2. requestQueue' = Tail(requestQueue) BY <1>1, <2>3, <3>1, HasFirstRemoved
    <3>3. \A id \in Ids : \A do, yes : Heard(do, yes, id) \in Told BY <1>1 DEF Heard, Told
    <3>4. known' \in [Ids -> Told] BY <1>1, <3>1, <3>3
    <3> QED BY <1>8, <2>3, <3>1, <3>2, <3>4
  <2> QED BY <1>1, <2>1, <2>2, <2>3
<1>10. commands' \in Seq(CommandRecords) /\ DOMAIN commands' = DOMAIN commands
       /\ Len(commands') = Len(commands)
  <2>1. DOMAIN commands' = DOMAIN commands BY <1>9
  <2>2. commands' \in Seq(CommandRecords)
    <3>1. commands' \in [1..Len(commands) -> CommandRecords] BY <1>2, <1>9
    <3> QED BY <1>2, <3>1
  <2> QED BY <1>2, <2>1, <2>2, LenProperties
<1>11. requestQueue' \in Seq(Entries) BY <1>1, <1>9, HeadTailProperties
<1> HIDE DEF cs2
<1>12. \A n \in DOMAIN commands :
          /\ Counts(commands[n], commands'[n], n = n0, r.flag /\ client, ok, err)
          /\ commands'[n].do = commands[n].do /\ commands'[n].sessions = commands[n].sessions
          /\ commands'[n].got = IF r.flag /\ client /\ requestQueue # <<>> /\ n = requestQueue[1].n
                                THEN n0 ELSE commands[n].got
  <2> TAKE n \in DOMAIN commands
  <2>1. CASE ~(r.flag /\ client) BY <1>3, <1>6, <1>9, <2>1 DEF Counts
  <2>2. CASE r.flag /\ client /\ requestQueue = <<>> BY <1>3, <1>4, <1>7, <1>9, <2>2 DEF Counts
  <2>3. CASE r.flag /\ client /\ requestQueue # <<>>
    BY <1>3, <1>4, <1>7, <1>8, <1>9, <2>3 DEF Counts
  <2> QED BY <1>1, <2>1, <2>2, <2>3
<1> QED BY <1>9, <1>10, <1>11, <1>12 DEF Kept

-----------------------------------------------------------------------------
(* The kinds of steps by what becomes of the messages and the commands       *)

(* The adapter takes a message and asks the modem for "out".                 *)
Taken(out) ==
    /\ queue # <<>> /\ queue' = Tail(queue)
    /\ out \in Seq(Requests) /\ requests' = requests \o out
    /\ \A k \in DOMAIN out : RequestFits(out[k], commands)
    /\ Batch(out, OfMessage(Head(queue)))

SameEntries == UNCHANGED <<commands, requestQueue>>

(* A message of no command                                                   *)
Idle ==
    \E out : /\ Taken(out) /\ OfMessage(Head(queue)).n = 0
             /\ \A k \in DOMAIN out : out[k].n = 0
             /\ SameEntries
(* Items go on.                                                              *)
Onward ==
    LET x == OfMessage(Head(queue)) IN
    \E out : /\ Taken(out) /\ x.n # 0 /\ x.stage \in {0, 2}
             /\ x.last => \E k \in DOMAIN out : OfRequest(out[k]).n = x.n /\ OfRequest(out[k]).last
             /\ SameEntries
(* An item comes to its end.                                                 *)
Ends(ok, err) ==
    /\ Taken(<<>>) /\ Head(queue).what = "answer" /\ Head(queue).to.n # 0
    /\ ItemDone(Head(queue).to, ok, err)
    /\ ok \in BOOLEAN /\ err \in BOOLEAN
    /\ Head(queue).to.then = "resume" => ok
    /\ ok \/ err \/ Head(queue).to.then = "modify"
(* A resume was refused.                                                     *)
Unheard ==
    /\ Taken(<<>>) /\ Head(queue).what = "answer" /\ Head(queue).to.n # 0
    /\ Head(queue).to.then = "resume"
    /\ commands' = [commands EXCEPT ![Head(queue).to.n].refused = TRUE]
    /\ UNCHANGED requestQueue

Takes == Idle \/ Onward \/ Unheard \/ \E ok, err : Ends(ok, err)

AdapterTyped ==
    /\ client \in BOOLEAN
    /\ fences \in [HwIds -> Fence \cup {NoFence}]
    /\ hwIds \in [Sessions -> HwIds \cup {NoHw}]
    /\ power \in {"unknown", "suspend", "resume"}
Inputs == <<world, forward, backward, events, breaches, engine>>

LEMMA HeadFits ==
    ASSUME TypeOK, Shape(queue, requests, commands), queue # <<>>
    PROVE  Head(queue) \in Messages /\ MessageFits(Head(queue), commands)
<1>1. queue \in Seq(Messages) BY DEF TypeOK
<1> QED BY <1>1, HasTaken DEF Shape

LEMMA CommandTyped ==
    ASSUME TypeOK, NEW n \in DOMAIN commands
    PROVE  /\ commands[n] \in CommandRecords /\ n \in 1..MaxCommands /\ n \in Nat \ {0}
           /\ commands[n].do \in Kinds /\ commands[n].sessions \in Seq(Sessions)
<1>1. commands \in Seq(CommandRecords) /\ Len(commands) <= MaxCommands
  BY DEF TypeOK, CommandRecords
<1>2. DOMAIN commands = 1..Len(commands) /\ Len(commands) \in Nat /\ commands[n] \in CommandRecords
  BY <1>1, LenProperties, ElementOfSeq
<1>3. n \in 1..MaxCommands /\ n \in Nat \ {0} BY <1>1, <1>2, GeofenceAssumption
<1> QED BY <1>2, <1>3 DEF CommandRecords

LEMMA HeadAnswer ==
    ASSUME TypeOK, Shape(queue, requests, commands), queue # <<>>, Head(queue).what = "answer"
    PROVE  LET r == Head(queue).to IN
           /\ r \in Requests /\ RequestFits(r, commands) /\ Head(queue).ok \in BOOLEAN
           /\ r.session \in Sessions /\ r.hw \in HwIds /\ r.flag \in BOOLEAN /\ r.then \in Then
           /\ r.do # "open"
           /\ r.n = 0 \/ r.n \in DOMAIN commands
           /\ r.n # 0 <=> r.then \in Kinds
           /\ r.do = "call" => r.n # 0
           /\ OfMessage(Head(queue)) = [n |-> r.n, last |-> r.flag, stage |-> IF r.do = "call" THEN 2 ELSE 4]
<1> DEFINE m == Head(queue)
           r == m.to
<1>1. m \in Messages /\ RequestFits(r, commands) /\ r.do # "open" BY HeadFits DEF MessageFits
<1>2. r \in Requests /\ m.ok \in BOOLEAN BY <1>1 DEF Messages
<1>3. r.session \in Sessions /\ r.hw \in HwIds /\ r.flag \in BOOLEAN /\ r.then \in Then
  BY <1>1, <1>2 DEF RequestFits, Requests
<1> HIDE DEF m
<1>4. r.n # 0 => r.n \in DOMAIN commands /\ r.then = commands[r.n].do BY <1>1 DEF RequestFits
<1>5. r.n # 0 => r.then \in Kinds BY <1>4, CommandTyped
<1>6. r.n = 0 => r.then \notin Kinds /\ r.do # "call" BY <1>1 DEF RequestFits
<1>7. m.what = "answer" BY DEF m
<1>8. OfMessage(m) = [n |-> r.n, last |-> r.flag, stage |-> IF r.do = "call" THEN 2 ELSE 4]
  BY <1>7 DEF OfMessage
<1> QED BY <1>1, <1>2, <1>3, <1>4, <1>5, <1>6, <1>8 DEF m

LEMMA TakenNone ==
    ASSUME TypeOK, queue # <<>>, queue' = Tail(queue), requests' = requests
    PROVE  Taken(<<>>)
<1>1. requests \in Seq(Requests) BY DEF TypeOK
<1>2. requests \o <<>> = requests /\ <<>> \in Seq(Requests) BY <1>1, ConcatEmptySeq
<1>3. DOMAIN <<>> = {}  OBVIOUS
<1> QED BY <1>2, <1>3 DEF Taken, Batch

LEMMA TakenOne ==
    ASSUME queue # <<>>, queue' = Tail(queue), NEW y \in Requests, requests' = requests \o <<y>>,
           RequestFits(y, commands), Follows(OfRequest(y), OfMessage(Head(queue)))
    PROVE  Taken(<<y>>)
<1>1. <<y>> \in Seq(Requests) /\ DOMAIN <<y>> = {1} /\ <<y>>[1] = y  OBVIOUS
<1> QED BY <1>1 DEF Taken, Batch

LEMMA TypedTaken ==
    ASSUME TypeOK, NEW out, Taken(out), AdapterTyped',
           known' \in [Ids -> Told], requestQueue' \in Seq(Entries),
           commands' \in Seq(CommandRecords), Len(commands') = Len(commands),
           UNCHANGED Inputs
    PROVE  TypeOK'
<1>1. queue' \in Seq(Messages) /\ requests' \in Seq(Requests)
  BY HeadTailProperties, ConcatProperties DEF Taken, TypeOK
<1> QED BY <1>1 DEF TypeOK, AdapterTyped, Inputs, engine, Told, Entries, CommandRecords

LEMMA TypedSame ==
    ASSUME TypeOK
    PROVE  /\ known \in [Ids -> Told] /\ requestQueue \in Seq(Entries)
           /\ commands \in Seq(CommandRecords) /\ AdapterTyped
BY DEF TypeOK, Told, Entries, CommandRecords, AdapterTyped

LEMMA TypedIdle ==
    ASSUME TypeOK, NEW out, Taken(out), AdapterTyped', NobodyHears, UNCHANGED Inputs
    PROVE  TypeOK'
<1>1. known' \in [Ids -> Told] /\ requestQueue' \in Seq(Entries)
      /\ commands' \in Seq(CommandRecords) /\ Len(commands') = Len(commands)
  BY TypedSame DEF NobodyHears
<1> QED BY <1>1, TypedTaken

LEMMA TypedEnds ==
    ASSUME TypeOK, Shape(queue, requests, commands), NEW ok, NEW err, Ends(ok, err),
           AdapterTyped', UNCHANGED Inputs
    PROVE  TypeOK'
<1> DEFINE r == Head(queue).to
<1>1. r \in Requests /\ r.n \in DOMAIN commands /\ r.session \in Sessions /\ ItemDone(r, ok, err)
      /\ Taken(<<>>) /\ ok \in BOOLEAN /\ err \in BOOLEAN
  BY HeadAnswer DEF Ends, Taken
<1> HIDE DEF r
<1>2. known' \in [Ids -> Told] /\ requestQueue' \in Seq(Entries)
      /\ commands' \in Seq(CommandRecords) /\ Len(commands') = Len(commands)
  BY <1>1, ItemEffect
<1> QED BY <1>1, <1>2, TypedTaken

-----------------------------------------------------------------------------
(* The adapter's actions are such steps, and keep the types.                 *)

LEMMA ProcCommandKind ==
    ASSUME TypeOK, Shape(queue, requests, commands), ProcCommand
    PROVE  LET m == Head(queue) IN
           /\ TypeOK' /\ Onward
           /\ Taken([i \in DOMAIN m.ids |-> Ask("call", m.do, m.n, m.ids[i], 0, IsLast(i, m))])
<1> DEFINE m == Head(queue)
           x == OfMessage(m)
           c == commands[m.n]
           out == [i \in DOMAIN m.ids |-> Ask("call", m.do, m.n, m.ids[i], 0, IsLast(i, m))]
<1>1. queue # <<>> /\ m.what = "command" /\ queue' = Tail(queue) /\ requests' = requests \o out
      /\ UNCHANGED <<world, user, events, breaches, adapter, engine>>
  BY DEF ProcCommand, Turn, Asks
<1>2. m \in Messages /\ m.n \in DOMAIN commands /\ m.do = c.do /\ m.ids = c.sessions
  BY <1>1, HeadFits DEF MessageFits
<1>3. /\ m.n \in 1..MaxCommands /\ m.n # 0 /\ m.do \in Kinds /\ m.ids \in Seq(Sessions)
  BY <1>2, CommandTyped
<1>4. m.ids # <<>> /\ (m.do # "remove" => Len(m.ids) = 1) BY <1>2 DEF Shape, CommandFits
<1> DEFINE l == Len(m.ids)
<1>5. DOMAIN m.ids = 1..l /\ l \in Nat /\ l # 0 /\ \A i \in 1..l : m.ids[i] \in Sessions
  BY <1>3, <1>4, LenProperties, ElementOfSeq, EmptySeq
<1>6. x = [n |-> m.n, last |-> TRUE, stage |-> 0] BY <1>1 DEF OfMessage
<1>7. \A i \in 1..l : LET y == Ask("call", m.do, m.n, m.ids[i], 0, i = l) IN
         /\ out[i] = y /\ y \in Requests /\ RequestFits(y, commands)
         /\ OfRequest(y).n = m.n /\ (OfRequest(y).last <=> i = l) /\ OfRequest(y).stage = 1
  <2> SUFFICES ASSUME NEW i \in 1..l
               PROVE  LET y == Ask("call", m.do, m.n, m.ids[i], 0, i = l) IN
                      /\ out[i] = y /\ y \in Requests /\ RequestFits(y, commands)
                      /\ OfRequest(y).n = m.n /\ (OfRequest(y).last <=> i = l) /\ OfRequest(y).stage = 1
    OBVIOUS
  <2> DEFINE s == m.ids[i]
             b == i = l
             y == Ask("call", m.do, m.n, s, 0, b)
  <2>1. s \in Sessions /\ s \in Sent(commands, m.n)
    <3>1. s \in Range(m.ids) BY <1>5 DEF Range
    <3> QED BY <1>2, <1>5, <3>1 DEF Sent
  <2>2. out[i] = y BY <1>5 DEF IsLast
  <2>6. b \in BOOLEAN /\ (m.do # "remove" => b)
    <3>1. m.do # "remove" => l = 1 BY <1>4
    <3>3. l = 1 => i = 1 BY <1>5
    <3>2. (i = l) \in BOOLEAN  OBVIOUS
    <3> QED BY <3>1, <3>2, <3>3
  <2> HIDE DEF s, out, l, b
  <2>3. s \in 0..MaxSessions /\ 0 \in HwIds /\ m.n \in 0..MaxCommands
    BY <1>3, <2>1, GeofenceAssumption DEF Sessions, HwIds
  <2>4. y = [do |-> "call", then |-> m.do, n |-> m.n, session |-> s, hw |-> 0, flag |-> b]
    BY DEF Ask
  <2>5. y \in Requests BY <1>3, <2>3, <2>4, <2>6 DEF Requests, Then
  <2>7. RequestFits(y, commands) BY <1>2, <1>3, <2>1, <2>4, <2>5, <2>6 DEF RequestFits
  <2>8. OfRequest(y).n = m.n /\ (OfRequest(y).last <=> b) /\ OfRequest(y).stage = 1
    BY <2>4 DEF OfRequest
  <2> QED BY <2>2, <2>5, <2>7, <2>8 DEF s, b
<1>8. DOMAIN out = 1..l BY <1>5
<1> HIDE DEF out, l
<1>9. out \in Seq(Requests)
  <2>1. out = [i \in 1..l |-> out[i]] BY <1>8 DEF out
  <2>2. out \in [1..l -> Requests] BY <1>7, <2>1
  <2> QED BY <1>5, <2>2
<1>10. Batch(out, x)
  <2>1. \A k \in DOMAIN out : /\ OfRequest(out[k]).n = m.n /\ OfRequest(out[k]).stage = 1
                              /\ OfRequest(out[k]).last <=> k = l
                              /\ k \in 1..l
    BY <1>7, <1>8
  <2>2. \A k \in DOMAIN out : Follows(OfRequest(out[k]), x) BY <1>6, <2>1 DEF Follows
  <2>3. \A j, k \in DOMAIN out : j < k => j # l BY <1>5, <2>1
  <2> QED BY <2>1, <2>2, <2>3 DEF Batch
<1>11. Taken(out) BY <1>1, <1>7, <1>8, <1>9, <1>10 DEF Taken
<1>12. \E k \in DOMAIN out : OfRequest(out[k]).n = x.n /\ OfRequest(out[k]).last
  <2>1. l \in DOMAIN out BY <1>5, <1>8
  <2>2. OfRequest(out[l]).n = m.n /\ OfRequest(out[l]).last BY <1>7, <1>8, <2>1
  <2> QED BY <1>6, <2>1, <2>2
<1>13. TypeOK'
  <2>1. AdapterTyped' /\ NobodyHears /\ UNCHANGED Inputs
    BY <1>1, TypedSame DEF AdapterTyped, adapter, user, NobodyHears, Inputs
  <2> QED BY <1>11, <2>1, TypedIdle
<1>14. SameEntries BY <1>1 DEF user, SameEntries
<1>15. x.n # 0 /\ x.stage \in {0, 2} BY <1>3, <1>6
<1>16. Onward BY <1>11, <1>12, <1>14, <1>15 DEF Onward
<1> QED BY <1>11, <1>13, <1>16 DEF out, m

(* Whatever came through the call queue goes on or ends.                     *)
LEMMA ProcCalledKind ==
    ASSUME TypeOK, Shape(queue, requests, commands), ProcCalled
    PROVE  LET r == Head(queue).to
               x == OfMessage(Head(queue))
           IN  /\ TypeOK'
               /\ queue # <<>> /\ Head(queue).what = "answer" /\ r.do = "call" /\ r.n # 0
               /\ \/ /\ Onward /\ (r.then # "add" => Found(r))
                     /\ \E y : /\ Taken(<<y>>) /\ y.n = r.n /\ y.then = r.then /\ y.session = r.session
                               /\ y.do = r.then /\ (r.then # "add" => y.hw = hwIds[r.session])
                  \/ Ends(TRUE, TRUE) /\ r.then # "add" /\ ~Found(r)
<1> DEFINE m == Head(queue)
           r == m.to
           x == OfMessage(m)
<1>1. queue # <<>> /\ m.what = "answer" /\ queue' = Tail(queue) /\ r.do = "call"
      /\ UNCHANGED <<world, forward, backward, events, breaches, adapter, engine>>
  BY DEF ProcCalled, Turn
<1>2. /\ r \in Requests /\ RequestFits(r, commands) /\ r.session \in Sessions /\ r.hw \in HwIds
      /\ r.n \in DOMAIN commands /\ r.then \in Kinds /\ r.n # 0 /\ r.flag \in BOOLEAN
      /\ x = [n |-> r.n, last |-> r.flag, stage |-> 2]
  BY <1>1, HeadAnswer
<1>3. AdapterTyped' /\ UNCHANGED Inputs BY <1>1, TypedSame DEF AdapterTyped, adapter, Inputs
<1> HIDE DEF x, m
<1>4. ASSUME NEW y \in Requests, y.n = r.n, y.then = r.then, y.session = r.session, y.flag = r.flag,
             y.do = r.then, requests' = requests \o <<y>>, NobodyHears
      PROVE  TypeOK' /\ Onward /\ Taken(<<y>>)
  <2>1. OfRequest(y) = [n |-> r.n, last |-> r.flag, stage |-> 3]
    BY <1>2, <1>4 DEF OfRequest, Kinds
  <2>2. Follows(OfRequest(y), x) BY <1>2, <2>1 DEF Follows
  <2>3. RequestFits(y, commands) BY <1>2, <1>4 DEF RequestFits, Kinds
  <2>4. Taken(<<y>>) BY <1>1, <1>4, <2>2, <2>3, TakenOne DEF x, m
  <2>5. 1 \in DOMAIN <<y>> /\ <<y>>[1] = y  OBVIOUS
  <2>6. SameEntries BY <1>4 DEF SameEntries, NobodyHears
  <2>7. x.last => \E k \in DOMAIN <<y>> : OfRequest(<<y>>[k]).n = x.n /\ OfRequest(<<y>>[k]).last
    BY <1>2, <2>1, <2>5
  <2>8. Onward BY <1>2, <2>4, <2>6, <2>7 DEF Onward, x, m
  <2>9. TypeOK' BY <1>3, <1>4, <2>4, TypedIdle
  <2> QED BY <2>4, <2>8, <2>9
<1>5. CASE r.then = "add"
  <2> DEFINE y == [r EXCEPT !.do = "add"]
  <2>1. requests' = requests \o <<y>> /\ NobodyHears BY <1>5 DEF ProcCalled, Asks, m
  <2>2. y \in Requests /\ y.n = r.n /\ y.then = r.then /\ y.session = r.session /\ y.flag = r.flag /\ y.do = "add"
    BY <1>2 DEF Requests, Kinds
  <2> HIDE DEF y
  <2>3. TypeOK' /\ Onward /\ Taken(<<y>>) BY <1>4, <1>5, <2>1, <2>2
  <2> QED BY <1>1, <1>2, <1>5, <2>2, <2>3 DEF m
<1>6. CASE r.then # "add" /\ Found(r)
  <2> DEFINE y == [r EXCEPT !.do = r.then, !.hw = hwIds[r.session]]
  <2>1. requests' = requests \o <<y>> /\ NobodyHears BY <1>6 DEF ProcCalled, Asks, m
  <2>2. hwIds[r.session] \in HwIds BY <1>2, <1>6 DEF Found, TypeOK
  <2>3. y \in Requests /\ y.n = r.n /\ y.then = r.then /\ y.session = r.session /\ y.flag = r.flag /\ y.do = r.then
      /\ y.hw = hwIds[r.session]
    BY <1>2, <2>2 DEF Requests, Kinds
  <2> HIDE DEF y
  <2>4. TypeOK' /\ Onward /\ Taken(<<y>>) BY <1>4, <2>1, <2>3
  <2> QED BY <1>1, <1>2, <1>6, <2>3, <2>4 DEF m
<1>7. CASE r.then # "add" /\ ~Found(r)
  <2>1. requests' = requests /\ ItemDone(r, TRUE, TRUE) BY <1>7 DEF ProcCalled, m
  <2>2. Taken(<<>>) BY <1>1, <2>1, TakenNone
  <2>3. Ends(TRUE, TRUE) BY <1>1, <1>2, <2>1, <2>2 DEF Ends, m
  <2>4. TypeOK' BY <1>3, <2>3, TypedEnds
  <2> QED BY <1>1, <1>2, <1>7, <2>3, <2>4 DEF m
<1> QED BY <1>5, <1>6, <1>7

(* The answers to a command's requests end its items.                        *)
LEMMA SaveTyped ==
    ASSUME TypeOK, NEW s \in Sessions, NEW h \in HwIds, Save(s, h), UNCHANGED <<client, power>>
    PROVE  AdapterTyped'
<1>1. [session |-> s, paused |-> FALSE] \in Fence BY DEF Fence
<1> QED BY <1>1, TypedSame DEF AdapterTyped, Save

LEMMA ForgetTyped ==
    ASSUME TypeOK, NEW h \in HwIds, Forget(h), UNCHANGED <<client, power>>
    PROVE  AdapterTyped'
<1>1. fences[h] # NoFence => fences[h].session \in Sessions BY DEF TypeOK, Fence
<1> QED BY <1>1, TypedSame DEF AdapterTyped, Forget

LEMMA KeepTyped ==
    ASSUME TypeOK, Keep, UNCHANGED <<client, power>>
    PROVE  AdapterTyped'
BY TypedSame DEF AdapterTyped, Keep

LEMMA PausedTyped ==
    ASSUME TypeOK, NEW h \in HwIds, NEW p \in BOOLEAN, SetPaused(h, p), UNCHANGED <<client, power>>
    PROVE  AdapterTyped' /\ UNCHANGED hwIds
           /\ \A g \in HwIds : /\ fences'[g] # NoFence <=> fences[g] # NoFence
                               /\ fences[g] # NoFence => fences'[g].session = fences[g].session
<1>1. fences \in [HwIds -> Fence \cup {NoFence}] /\ NoFence \notin Fence
  BY GeofenceAssumption DEF TypeOK, Fence, Sessions
<1>2. CASE fences[h] = NoFence
  <2>1. fences' = fences /\ hwIds' = hwIds BY <1>2 DEF SetPaused
  <2> QED BY <2>1, TypedSame DEF AdapterTyped
<1>3. CASE fences[h] # NoFence
  <2> DEFINE f == [fences[h] EXCEPT !.paused = p]
  <2>1. fences[h] \in Fence BY <1>1, <1>3
  <2>2. f \in Fence /\ f.session = fences[h].session BY <2>1 DEF Fence
  <2>3. fences' = [fences EXCEPT ![h] = f] /\ hwIds' = hwIds BY <1>3 DEF SetPaused
  <2> HIDE DEF f
  <2>4. fences' \in [HwIds -> Fence \cup {NoFence}]
        /\ \A g \in HwIds : fences'[g] = IF g = h THEN f ELSE fences[g]
    BY <1>1, <2>2, <2>3
  <2>5. \A g \in HwIds : /\ fences'[g] # NoFence <=> fences[g] # NoFence
                         /\ fences[g] # NoFence => fences'[g].session = fences[g].session
    BY <1>1, <1>3, <2>2, <2>4
  <2> QED BY <2>3, <2>4, <2>5, TypedSame DEF AdapterTyped
<1> QED BY <1>2, <1>3

LEMMA EndKind ==
    ASSUME TypeOK, Shape(queue, requests, commands), NEW then \in Kinds, Answered(then),
           NEW ok \in BOOLEAN, NEW err \in BOOLEAN, ItemDone(Head(queue).to, ok, err),
           UNCHANGED requests, Others, AdapterTyped',
           then = "resume" => ok, ok \/ err \/ then = "modify"
    PROVE  TypeOK' /\ Ends(ok, err)
<1>1. queue # <<>> /\ Head(queue).what = "answer" /\ queue' = Tail(queue) /\ Head(queue).to.then = then
  BY DEF Answered, Turn
<1>2. Head(queue).to.n # 0 BY <1>1, HeadAnswer
<1>3. Taken(<<>>) BY <1>1, TakenNone
<1>4. Ends(ok, err) BY <1>1, <1>2, <1>3 DEF Ends
<1>5. UNCHANGED Inputs BY DEF Others, Inputs
<1> QED BY <1>4, <1>5, TypedEnds

LEMMA AnsweredHead ==
    ASSUME TypeOK, Shape(queue, requests, commands), NEW then, Answered(then)
    PROVE  LET r == Head(queue).to IN
           /\ queue # <<>> /\ Head(queue).what = "answer" /\ queue' = Tail(queue)
           /\ r.then = then /\ r.do # "call" /\ r.hw \in HwIds /\ r.session \in Sessions
           /\ r \in Requests /\ Head(queue).ok \in BOOLEAN /\ RequestFits(r, commands)
           /\ then \in Kinds => r.n \in DOMAIN commands /\ r.n # 0 /\ r.do = then
           /\ then \notin Kinds => r.n = 0
<1>1. queue # <<>> /\ Head(queue).what = "answer" /\ queue' = Tail(queue) /\ Head(queue).to.then = then
      /\ Head(queue).to.do # "call"
  BY DEF Answered, Turn
<1> QED BY <1>1, HeadAnswer DEF RequestFits

LEMMA ProcAddedKind ==
    ASSUME TypeOK, Shape(queue, requests, commands), ProcAdded
    PROVE  TypeOK' /\ Ends(Head(queue).ok, ~Head(queue).ok)
<1> DEFINE r == Head(queue).to
           ok == Head(queue).ok
<1>1. Answered("add") /\ ItemDone(r, ok, ~ok) /\ UNCHANGED requests /\ Others
      /\ (Save(r.session, r.hw) \/ Keep)
  BY DEF ProcAdded
<1>2. r.hw \in HwIds /\ r.session \in Sessions /\ ok \in BOOLEAN BY <1>1, AnsweredHead
<1>3. AdapterTyped' BY <1>1, <1>2, SaveTyped, KeepTyped DEF Others
<1>4. "add" \in Kinds /\ "add" # "resume" /\ (~ok) \in BOOLEAN BY DEF Kinds
<1> HIDE DEF r, ok
<1>5. TypeOK' /\ Ends(ok, ~ok) BY <1>1, <1>2, <1>3, <1>4, EndKind DEF r
<1> QED BY <1>5 DEF ok

LEMMA ProcRemovedKind ==
    ASSUME TypeOK, Shape(queue, requests, commands), ProcRemoved
    PROVE  TypeOK' /\ Ends(Head(queue).ok, ~Head(queue).ok)
<1> DEFINE r == Head(queue).to
           ok == Head(queue).ok
<1>1. Answered("remove") /\ ItemDone(r, ok, ~ok) /\ UNCHANGED requests /\ Others
      /\ (Forget(r.hw) \/ Keep)
  BY DEF ProcRemoved, AfterRemove
<1>2. r.hw \in HwIds /\ r.session \in Sessions /\ ok \in BOOLEAN BY <1>1, AnsweredHead
<1>3. AdapterTyped' BY <1>1, <1>2, ForgetTyped, KeepTyped DEF Others
<1>4. "remove" \in Kinds /\ "remove" # "resume" /\ (~ok) \in BOOLEAN BY DEF Kinds
<1> HIDE DEF r, ok
<1>5. TypeOK' /\ Ends(ok, ~ok) BY <1>1, <1>2, <1>3, <1>4, EndKind DEF r
<1> QED BY <1>5 DEF ok

LEMMA ProcPausedKind ==
    ASSUME TypeOK, Shape(queue, requests, commands), ProcPaused
    PROVE  TypeOK' /\ Ends(Head(queue).ok, ~Head(queue).ok)
<1> DEFINE r == Head(queue).to
           ok == Head(queue).ok
<1>1. Answered("pause") /\ ItemDone(r, ok, ~ok) /\ UNCHANGED requests /\ Others
      /\ (SetPaused(r.hw, TRUE) \/ Keep)
  BY DEF ProcPaused
<1>2. r.hw \in HwIds /\ r.session \in Sessions /\ ok \in BOOLEAN BY <1>1, AnsweredHead
<1>3. AdapterTyped' BY <1>1, <1>2, PausedTyped, KeepTyped DEF Others
<1>4. "pause" \in Kinds /\ "pause" # "resume" /\ (~ok) \in BOOLEAN BY DEF Kinds
<1> HIDE DEF r, ok
<1>5. TypeOK' /\ Ends(ok, ~ok) BY <1>1, <1>2, <1>3, <1>4, EndKind DEF r
<1> QED BY <1>5 DEF ok

LEMMA ProcModifiedKind ==
    ASSUME TypeOK, Shape(queue, requests, commands), ProcModified
    PROVE  TypeOK' /\ Ends(Head(queue).ok, ~Head(queue).ok /\ ~Unlocked)
<1> DEFINE r == Head(queue).to
           ok == Head(queue).ok
           err == ~ok /\ ~Unlocked
<1>1. Answered("modify") /\ ItemDone(r, ok, err) /\ UNCHANGED requests /\ Others /\ Keep
  BY DEF ProcModified
<1>2. r.hw \in HwIds /\ r.session \in Sessions /\ ok \in BOOLEAN BY <1>1, AnsweredHead
<1>3. AdapterTyped' BY <1>1, KeepTyped DEF Others
<1>4. "modify" \in Kinds /\ "modify" # "resume" /\ err \in BOOLEAN BY DEF Kinds
<1> HIDE DEF r, ok, err
<1>5. TypeOK' /\ Ends(ok, err) BY <1>1, <1>2, <1>3, <1>4, EndKind DEF r
<1> QED BY <1>5 DEF ok, err

LEMMA ProcResumedKind ==
    ASSUME TypeOK, Shape(queue, requests, commands), ProcResumed
    PROVE  TypeOK' /\ IF Head(queue).ok THEN Ends(TRUE, FALSE) ELSE Unheard
<1> DEFINE r == Head(queue).to
           ok == Head(queue).ok
<1>1. Answered("resume") /\ UNCHANGED requests /\ Others BY DEF ProcResumed
<1>2. r.hw \in HwIds /\ r.session \in Sessions /\ ok \in BOOLEAN /\ r.n \in DOMAIN commands
      /\ "resume" \in Kinds /\ r.n # 0
      /\ queue # <<>> /\ Head(queue).what = "answer" /\ queue' = Tail(queue) /\ r.then = "resume"
  BY <1>1, AnsweredHead DEF Kinds
<1>3. CASE ok
  <2>1. SetPaused(r.hw, FALSE) /\ ItemDone(r, TRUE, FALSE) BY <1>3 DEF ProcResumed
  <2>2. AdapterTyped' BY <1>1, <1>2, <2>1, PausedTyped DEF Others
  <2> HIDE DEF r
  <2>3. TypeOK' /\ Ends(TRUE, FALSE) BY <1>1, <1>2, <2>1, <2>2, EndKind DEF r
  <2> QED BY <1>3, <2>3
<1>4. CASE ~ok
  <2>1. Keep /\ commands' = [commands EXCEPT ![r.n].refused = TRUE] /\ UNCHANGED <<known, requestQueue>>
    BY <1>4 DEF ProcResumed
  <2>2. AdapterTyped' /\ UNCHANGED Inputs BY <1>1, <2>1, KeepTyped DEF Others, Inputs
  <2>3. Taken(<<>>) BY <1>1, <1>2, TakenNone
  <2>4. Unheard BY <1>2, <2>1, <2>3 DEF Unheard
  <2>5. commands' \in Seq(CommandRecords) /\ Len(commands') = Len(commands)
    <3> DEFINE d == [commands[r.n] EXCEPT !.refused = TRUE]
    <3> HIDE DEF r
    <3>1. d \in CommandRecords BY <1>2, CommandTyped DEF CommandRecords
    <3>2. commands \in Seq(CommandRecords) /\ commands' = [commands EXCEPT ![r.n] = d]
      BY <2>1, TypedSame
    <3> HIDE DEF d
    <3> QED BY <1>2, <3>1, <3>2, LenProperties, ExceptSeq
  <2>6. TypeOK' BY <2>1, <2>2, <2>3, <2>5, TypedTaken, TypedSame
  <2> QED BY <1>4, <2>4, <2>6
<1> QED BY <1>2, <1>3, <1>4

LEMMA IdleAsks ==
    ASSUME TypeOK, queue # <<>>, queue' = Tail(queue), OfMessage(Head(queue)).n = 0,
           NobodyHears, AdapterTyped', UNCHANGED Inputs,
           NEW out \in Seq(Requests), requests' = requests \o out,
           \A k \in DOMAIN out : /\ out[k].n = 0 /\ out[k].do \notin {"call", "open"}
                                 /\ out[k].session \in Sessions /\ out[k].then \notin Kinds
    PROVE  TypeOK' /\ Idle /\ Taken(out)
<1>1. \A k \in DOMAIN out : out[k] \in Requests BY LenProperties, ElementOfSeq
<1>2. \A k \in DOMAIN out : RequestFits(out[k], commands) /\ OfRequest(out[k]).n = 0
  BY <1>1 DEF RequestFits, OfRequest
<1>3. Batch(out, OfMessage(Head(queue))) BY <1>2 DEF Batch, Follows
<1>4. Taken(out) BY <1>2, <1>3 DEF Taken
<1>5. Idle BY <1>4 DEF Idle, SameEntries, NobodyHears
<1> QED BY <1>4, <1>5, TypedIdle

LEMMA IdleNone ==
    ASSUME TypeOK, queue # <<>>, queue' = Tail(queue), OfMessage(Head(queue)).n = 0,
           NobodyHears, AdapterTyped', UNCHANGED Inputs, UNCHANGED requests
    PROVE  TypeOK' /\ Idle
<1>1. requests' = requests \o <<>> /\ <<>> \in Seq(Requests) /\ DOMAIN <<>> = {}
  BY ConcatEmptySeq DEF TypeOK
<1> QED BY <1>1, IdleAsks

LEMMA AnsweredIdle ==
    ASSUME TypeOK, Shape(queue, requests, commands), NEW then, then \notin Kinds, Answered(then)
    PROVE  queue # <<>> /\ queue' = Tail(queue) /\ OfMessage(Head(queue)).n = 0
<1>1. queue # <<>> /\ Head(queue).what = "answer" /\ queue' = Tail(queue) /\ Head(queue).to.n = 0
  BY AnsweredHead
<1> QED BY <1>1, HeadAnswer

LEMMA ProcRestoredKind ==
    ASSUME TypeOK, Shape(queue, requests, commands), ProcRestored
    PROVE  TypeOK' /\ Idle
<1> DEFINE r == Head(queue).to
           out == IF MustPause(r, Head(queue).ok)
                  THEN <<Ask("pause", "nothing", 0, r.session, r.hw, FALSE)>> ELSE <<>>
<1>1. Answered("restart") /\ requests' = requests \o out /\ NobodyHears /\ Others
      /\ (Save(r.session, r.hw) \/ Keep)
  BY DEF ProcRestored, Asks
<1>2. "restart" \notin Kinds /\ "nothing" \notin Kinds /\ "nothing" \in Then BY DEF Kinds, Then
<1>3. r.hw \in HwIds /\ r.session \in Sessions BY <1>1, AnsweredHead
<1>4. AdapterTyped' /\ UNCHANGED Inputs BY <1>1, <1>3, SaveTyped, KeepTyped DEF Others, Inputs
<1>5. queue # <<>> /\ queue' = Tail(queue) /\ OfMessage(Head(queue)).n = 0
  BY <1>1, <1>2, AnsweredIdle
<1> DEFINE y == Ask("pause", "nothing", 0, r.session, r.hw, FALSE)
<1>6. y \in Requests /\ y.n = 0 /\ y.do = "pause" /\ y.then = "nothing" /\ y.session = r.session
  <2>1. r.session \in 0..MaxSessions /\ 0 \in 0..MaxCommands
    BY <1>3, GeofenceAssumption DEF Sessions
  <2> HIDE DEF r
  <2> QED BY <1>2, <1>3, <2>1 DEF Requests, Ask, Kinds
<1>7. out = <<y>> \/ out = <<>>  OBVIOUS
<1> HIDE DEF y, r, out
<1>8. out \in Seq(Requests)
      /\ \A k \in DOMAIN out : /\ out[k].n = 0 /\ out[k].do \notin {"call", "open"}
                               /\ out[k].session \in Sessions /\ out[k].then \notin Kinds
  <2>1. CASE out = <<>> BY <2>1
  <2>2. CASE out = <<y>>
    <3>1. out \in Seq(Requests) /\ DOMAIN out = {1} /\ out[1] = y BY <1>6, <2>2
    <3> QED BY <1>2, <1>3, <1>6, <3>1
  <2> QED BY <1>7, <2>1, <2>2
<1> QED BY <1>1, <1>4, <1>5, <1>8, IdleAsks

LEMMA ProcGoneKind ==
    ASSUME TypeOK, Shape(queue, requests, commands), ProcGone
    PROVE  TypeOK' /\ Idle
<1>1. Answered("gone") /\ NobodyHears /\ Others /\ UNCHANGED <<hwIds, requests>>
      /\ fences' = IF Head(queue).ok THEN [fences EXCEPT ![Head(queue).to.hw] = NoFence] ELSE fences
  BY DEF ProcGone
<1>2. AdapterTyped' /\ UNCHANGED Inputs BY <1>1, TypedSame DEF Others, Inputs, AdapterTyped
<1>3. "gone" \notin Kinds BY DEF Kinds
<1> QED BY <1>1, <1>2, <1>3, AnsweredIdle, IdleNone

LEMMA ProcSleptKind ==
    ASSUME TypeOK, Shape(queue, requests, commands), ProcSlept
    PROVE  TypeOK' /\ Idle
<1> DEFINE r == Head(queue).to
<1>1. (Answered("suspend") \/ Answered("wake")) /\ NobodyHears /\ Others /\ UNCHANGED requests
      /\ (SetPaused(r.hw, r.then = "suspend") \/ Keep)
  BY DEF ProcSlept
<1>2. "suspend" \notin Kinds /\ "wake" \notin Kinds BY DEF Kinds
<1>3. r.hw \in HwIds BY <1>1, AnsweredHead
<1>4. AdapterTyped' /\ UNCHANGED Inputs
  BY <1>1, <1>3, PausedTyped, KeepTyped DEF Others, Inputs
<1> HIDE DEF r
<1> QED BY <1>1, <1>2, <1>4, AnsweredIdle, IdleNone

LEMMA ProcNothingKind ==
    ASSUME TypeOK, Shape(queue, requests, commands), ProcNothing
    PROVE  TypeOK' /\ Idle
<1>1. Answered("nothing") /\ NobodyHears /\ Others /\ UNCHANGED requests /\ Keep
  BY DEF ProcNothing
<1>2. "nothing" \notin Kinds BY DEF Kinds
<1>3. AdapterTyped' /\ UNCHANGED Inputs BY <1>1, KeepTyped DEF Others, Inputs
<1> QED BY <1>1, <1>2, <1>3, AnsweredIdle, IdleNone

LEMMA ProcBreachKind ==
    ASSUME TypeOK, Shape(queue, requests, commands), ProcBreach
    PROVE  TypeOK' /\ Idle
<1>1. queue # <<>> /\ queue' = Tail(queue) /\ Head(queue).what = "breach"
      /\ UNCHANGED <<world, user, events, breaches, adapter, requests, engine>>
  BY DEF ProcBreach, Turn
<1>2. AdapterTyped' /\ UNCHANGED Inputs /\ NobodyHears /\ UNCHANGED requests
  BY <1>1, TypedSame DEF user, adapter, AdapterTyped, Inputs, NobodyHears
<1>3. OfMessage(Head(queue)).n = 0 BY <1>1 DEF OfMessage
<1> QED BY <1>1, <1>2, <1>3, IdleNone

LEMMA HeldIs ==
    ASSUME TypeOK, NEW do \in Kinds, NEW then \in Then \ Kinds
    PROVE  LET out == [i \in DOMAIN Held |-> Ask(do, then, 0, Held[i], hwIds[Held[i]], FALSE)] IN
           /\ out \in Seq(Requests)
           /\ \A k \in DOMAIN out : /\ out[k].n = 0 /\ out[k].do = do /\ out[k].then = then
                                    /\ out[k].session \in Sessions
<1> DEFINE S == {s \in Sessions : hwIds[s] # NoHw}
           out == [i \in DOMAIN Held |-> Ask(do, then, 0, Held[i], hwIds[Held[i]], FALSE)]
           l == Cardinality(S)
<1>1. S \subseteq Int /\ IsFiniteSet(S) /\ S \subseteq Sessions
  <2>1. IsFiniteSet(Sessions) /\ Sessions \subseteq Int
    BY GeofenceAssumption, FS_Interval DEF Sessions
  <2> QED BY <2>1, FS_Subset
<1> HIDE DEF S
<1>2. DOMAIN Held = 1..l /\ l \in Nat /\ Range(Held) = S BY <1>1, AscendingIs DEF Held, S
<1>3. \A i \in 1..l : Held[i] \in S BY <1>2 DEF Range
<1>4. \A s \in S : s \in Sessions /\ s \in 0..MaxSessions /\ hwIds[s] \in HwIds
  BY <1>1, GeofenceAssumption DEF S, TypeOK, Sessions
<1>5. \A s \in S : LET y == Ask(do, then, 0, s, hwIds[s], FALSE) IN
         y \in Requests /\ y.n = 0 /\ y.do = do /\ y.then = then /\ y.session = s
  BY <1>4, GeofenceAssumption DEF Ask, Requests
<1>6. \A i \in 1..l : /\ out[i] \in Requests /\ out[i].n = 0 /\ out[i].do = do
                      /\ out[i].then = then /\ out[i].session \in Sessions
  BY <1>2, <1>3, <1>4, <1>5
<1>7. DOMAIN out = 1..l /\ out = [i \in 1..l |-> out[i]] BY <1>2
<1> HIDE DEF out, l
<1>8. out \in [1..l -> Requests] BY <1>6, <1>7
<1>9. out \in Seq(Requests) BY <1>2, <1>8
<1>10. \A k \in DOMAIN out : /\ out[k].n = 0 /\ out[k].do = do /\ out[k].then = then
                             /\ out[k].session \in Sessions
  BY <1>6, <1>7
<1> QED BY <1>9, <1>10 DEF out

(* A request to pause or resume with the system                              *)
Asleep(r) == r.n = 0 /\ r.do \in {"pause", "resume"} /\ r.then \in {"suspend", "wake"}

LEMMA ProcPowerKind ==
    ASSUME TypeOK, Shape(queue, requests, commands), ProcPower
    PROVE  /\ TypeOK' /\ Idle
           /\ \E out : Taken(out) /\ \A k \in DOMAIN out : Asleep(out[k])
<1> DEFINE do == IF Head(queue).flag THEN "resume" ELSE "pause"
           then == IF Head(queue).flag THEN "wake" ELSE "suspend"
           out == [i \in DOMAIN Held |-> Ask(do, then, 0, Held[i], hwIds[Held[i]], FALSE)]
<1>1. queue # <<>> /\ queue' = Tail(queue) /\ Head(queue).what = "power"
      /\ power' \in {"resume", "suspend"} /\ requests' = requests \o out
      /\ UNCHANGED <<world, user, events, breaches, client, fences, hwIds, engine>>
  BY DEF ProcPower, Turn, Asks
<1>2. do \in Kinds /\ then \in Then \ Kinds /\ do \in {"pause", "resume"} /\ then \in {"suspend", "wake"}
  BY DEF Kinds, Then
<1> HIDE DEF do, then
<1>3. out \in Seq(Requests)
      /\ \A k \in DOMAIN out : /\ out[k].n = 0 /\ out[k].do = do /\ out[k].then = then
                               /\ out[k].session \in Sessions
  BY <1>2, HeldIs
<1> HIDE DEF out
<1>4. AdapterTyped' /\ UNCHANGED Inputs /\ NobodyHears
  BY <1>1, TypedSame DEF user, AdapterTyped, Inputs, NobodyHears
<1>5. OfMessage(Head(queue)).n = 0 BY <1>1 DEF OfMessage
<1>6. do \notin {"call", "open"} /\ then \notin Kinds BY <1>2 DEF Kinds
<1>7. TypeOK' /\ Idle /\ Taken(out) BY <1>1, <1>3, <1>4, <1>5, <1>6, IdleAsks
<1>8. \A k \in DOMAIN out : Asleep(out[k]) BY <1>2, <1>3 DEF Asleep
<1> QED BY <1>7, <1>8

LEMMA ProcDestroyKind ==
    ASSUME TypeOK, Shape(queue, requests, commands), ProcDestroy
    PROVE  TypeOK' /\ Idle
<1> DEFINE out == StopSessions
<1>1. queue # <<>> /\ queue' = Tail(queue) /\ Head(queue).what = "destroy"
      /\ client' = FALSE /\ hwIds' = [s \in Sessions |-> NoHw] /\ requests' = requests \o out
      /\ UNCHANGED <<world, user, events, breaches, fences, power, engine>>
  BY DEF ProcDestroy, Turn, Asks
<1>2. "remove" \in Kinds /\ "gone" \in Then \ Kinds BY DEF Kinds, Then
<1>3. out \in Seq(Requests)
      /\ \A k \in DOMAIN out : /\ out[k].n = 0 /\ out[k].do = "remove" /\ out[k].then = "gone"
                               /\ out[k].session \in Sessions
  BY <1>2, HeldIs DEF StopSessions
<1> HIDE DEF out
<1>4. AdapterTyped' /\ UNCHANGED Inputs /\ NobodyHears
  BY <1>1, TypedSame DEF user, AdapterTyped, Inputs, NobodyHears
<1>5. OfMessage(Head(queue)).n = 0 BY <1>1 DEF OfMessage
<1> QED BY <1>1, <1>2, <1>3, <1>4, <1>5, IdleAsks

LEMMA ProcEngineUpKind ==
    ASSUME TypeOK, Shape(queue, requests, commands), ProcEngineUp
    PROVE  TypeOK' /\ Idle
<1> DEFINE old == Ascending(ToRestart)
           l == Cardinality(ToRestart)
           out == [i \in DOMAIN old |-> Ask("add", "restart", 0, fences[old[i]].session, 0,
                                            fences[old[i]].paused)]
<1>1. queue # <<>> /\ queue' = Tail(queue) /\ Head(queue).what = "up" /\ NobodyHears /\ Others
      /\ (Restart \/ (Keep /\ UNCHANGED requests))
  BY DEF ProcEngineUp, Turn
<1>2. OfMessage(Head(queue)).n = 0 BY <1>1 DEF OfMessage
<1>3. UNCHANGED Inputs /\ UNCHANGED <<client, power>> BY <1>1 DEF Others, Inputs
<1>4. CASE Keep /\ UNCHANGED requests
  <2>1. AdapterTyped' BY <1>3, <1>4, KeepTyped
  <2> QED BY <1>1, <1>2, <1>3, <1>4, <2>1, IdleNone
<1>5. CASE Restart /\ old # <<>>
  <2>1. /\ fences' = [h \in HwIds |-> NoFence] /\ hwIds' = [s \in Sessions |-> NoHw]
        /\ requests' = requests \o out
    BY <1>5 DEF Restart, Asks
  <2>2. AdapterTyped' BY <1>3, <2>1, TypedSame DEF AdapterTyped
  <2>3. ToRestart \subseteq Int /\ IsFiniteSet(ToRestart)
    <3>1. IsFiniteSet(HwIds) /\ HwIds \subseteq Int
      BY GeofenceAssumption, FS_Interval DEF HwIds
    <3> QED BY <3>1, FS_Subset DEF ToRestart
  <2>4. DOMAIN old = 1..l /\ l \in Nat /\ Range(old) = ToRestart BY <2>3, AscendingIs
  <2> HIDE DEF old, l
  <2>5. \A i \in 1..l : old[i] \in ToRestart BY <2>4 DEF Range
  <2>6. \A h \in ToRestart : LET y == Ask("add", "restart", 0, fences[h].session, 0, fences[h].paused) IN
            y \in Requests /\ y.n = 0 /\ y.do = "add" /\ y.then = "restart" /\ y.session \in Sessions
    <3> TAKE h \in ToRestart
    <3>1. fences[h] \in Fence BY DEF TypeOK, ToRestart
    <3>2. fences[h].session \in Sessions /\ fences[h].paused \in BOOLEAN BY <3>1 DEF Fence
    <3>3. fences[h].session \in 0..MaxSessions /\ 0 \in HwIds /\ 0 \in 0..MaxCommands
      BY <3>2, GeofenceAssumption DEF Sessions, HwIds
    <3> QED BY <3>2, <3>3 DEF Ask, Requests, Kinds, Then
  <2>7. \A i \in 1..l : /\ out[i] \in Requests /\ out[i].n = 0 /\ out[i].do = "add"
                        /\ out[i].then = "restart" /\ out[i].session \in Sessions
    BY <2>4, <2>5, <2>6
  <2>8. DOMAIN out = 1..l /\ out = [i \in 1..l |-> out[i]] BY <2>4
  <2> HIDE DEF out
  <2>9. out \in [1..l -> Requests] BY <2>7, <2>8
  <2>10. out \in Seq(Requests) BY <2>4, <2>9
  <2>11. "restart" \notin Kinds BY DEF Kinds
  <2> QED BY <1>1, <1>2, <1>3, <2>1, <2>2, <2>7, <2>8, <2>10, <2>11, IdleAsks
<1>6. CASE Restart /\ old = <<>>
  <2>1. Keep /\ UNCHANGED requests BY <1>6 DEF Restart
  <2>2. AdapterTyped' BY <1>3, <2>1, KeepTyped
  <2> QED BY <1>1, <1>2, <1>3, <2>1, <2>2, IdleNone
<1> QED BY <1>1, <1>4, <1>5, <1>6

LEMMA AdapterKind ==
    ASSUME TypeOK, Shape(queue, requests, commands), Adapter
    PROVE  TypeOK' /\ Takes /\ (client' => client)
           /\ UNCHANGED <<world, forward, backward, engine>>
<1> USE DEF Takes
<1>1. CASE ProcCommand
  <2>1. TypeOK' /\ Onward BY <1>1, ProcCommandKind
  <2>2. UNCHANGED <<world, forward, backward, engine>> /\ client' = client
    BY <1>1 DEF ProcCommand, user, adapter
  <2>3. Takes BY <2>1 DEF Takes
  <2> QED BY <2>1, <2>2, <2>3
<1>2. CASE ProcCalled
  <2>1. TypeOK' /\ (Onward \/ Ends(TRUE, TRUE)) BY <1>2, ProcCalledKind
  <2>2. UNCHANGED <<world, forward, backward, engine>> /\ client' = client
    BY <1>2 DEF ProcCalled, adapter
  <2>3. Takes BY <2>1 DEF Takes
  <2> QED BY <2>1, <2>2, <2>3
<1>3. CASE ProcAdded BY <1>3, ProcAddedKind DEF ProcAdded, Others
<1>4. CASE ProcRemoved BY <1>4, ProcRemovedKind DEF ProcRemoved, Others
<1>5. CASE ProcPaused BY <1>5, ProcPausedKind DEF ProcPaused, Others
<1>6. CASE ProcResumed BY <1>6, ProcResumedKind DEF ProcResumed, Others
<1>7. CASE ProcModified BY <1>7, ProcModifiedKind DEF ProcModified, Others
<1>8. CASE ProcRestored BY <1>8, ProcRestoredKind DEF ProcRestored, Others
<1>9. CASE ProcGone BY <1>9, ProcGoneKind DEF ProcGone, Others
<1>10. CASE ProcSlept BY <1>10, ProcSleptKind DEF ProcSlept, Others
<1>11. CASE ProcNothing BY <1>11, ProcNothingKind DEF ProcNothing, Others
<1>12. CASE ProcEngineUp BY <1>12, ProcEngineUpKind DEF ProcEngineUp, Others
<1>13. CASE ProcPower BY <1>13, ProcPowerKind DEF ProcPower, user
<1>14. CASE ProcDestroy BY <1>14, ProcDestroyKind DEF ProcDestroy, user
<1>15. CASE ProcBreach BY <1>15, ProcBreachKind DEF ProcBreach, user, adapter
<1> QED
  BY <1>1, <1>2, <1>3, <1>4, <1>5, <1>6, <1>7, <1>8, <1>9, <1>10, <1>11, <1>12, <1>13, <1>14, <1>15
  DEF Adapter

LEMMA UnheardEffect ==
    ASSUME TypeOK, Shape(queue, requests, commands), Unheard
    PROVE  LET r == Head(queue).to IN
           /\ r.n \in DOMAIN commands
           /\ DOMAIN commands' = DOMAIN commands /\ Kept(commands, commands')
           /\ \A n \in DOMAIN commands :
                 /\ Counts(commands[n], commands'[n], n = r.n, FALSE, FALSE, FALSE)
                 /\ commands'[n].got = commands[n].got
<1> DEFINE r == Head(queue).to
           d == [commands[r.n] EXCEPT !.refused = TRUE]
<1>1. r.n \in DOMAIN commands /\ commands' = [commands EXCEPT ![r.n] = d]
  BY HeadAnswer DEF Unheard, Taken
<1> HIDE DEF r
<1>2. d.do = commands[r.n].do /\ d.sessions = commands[r.n].sessions /\ d.sent = commands[r.n].sent
      /\ d.failed = commands[r.n].failed /\ d.refused = TRUE /\ d.got = commands[r.n].got
  BY <1>1, CommandTyped DEF CommandRecords
<1> HIDE DEF d
<1>3. DOMAIN commands' = DOMAIN commands
      /\ \A n \in DOMAIN commands : commands'[n] = IF n = r.n THEN d ELSE commands[n]
  BY <1>1
<1> QED BY <1>1, <1>2, <1>3 DEF Kept, Counts, r

LEMMA EndsEffect ==
    ASSUME TypeOK, Shape(queue, requests, commands), NEW ok, NEW err, Ends(ok, err)
    PROVE  LET r == Head(queue).to
               heard == r.flag /\ client IN
           /\ r.n \in DOMAIN commands /\ r \in Requests
           /\ DOMAIN commands' = DOMAIN commands /\ Kept(commands, commands')
           /\ requestQueue' = IF heard /\ requestQueue # <<>> THEN Tail(requestQueue) ELSE requestQueue
           /\ \A n \in DOMAIN commands :
                 /\ Counts(commands[n], commands'[n], n = r.n, heard, ok, err)
                 /\ commands'[n].got = IF heard /\ requestQueue # <<>> /\ n = requestQueue[1].n
                                       THEN r.n ELSE commands[n].got
<1> DEFINE r == Head(queue).to
<1>1. r \in Requests /\ r.n \in DOMAIN commands /\ r.session \in Sessions /\ ItemDone(r, ok, err)
      /\ ok \in BOOLEAN /\ err \in BOOLEAN
  BY HeadAnswer DEF Ends, Taken
<1> HIDE DEF r
<1>2. LET heard == r.flag /\ client IN
      /\ DOMAIN commands' = DOMAIN commands /\ Kept(commands, commands')
      /\ requestQueue' = IF heard /\ requestQueue # <<>> THEN Tail(requestQueue) ELSE requestQueue
      /\ \A n \in DOMAIN commands :
            /\ Counts(commands[n], commands'[n], n = r.n, heard, ok, err)
            /\ commands'[n].got = IF heard /\ requestQueue # <<>> /\ n = requestQueue[1].n
                                  THEN r.n ELSE commands[n].got
  BY <1>1, ItemEffect
<1> QED BY <1>1, <1>2 DEF r

LEMMA TakesKeep ==
    ASSUME TypeOK, Shape(queue, requests, commands), Takes
    PROVE  Kept(commands, commands') /\ DOMAIN commands' = DOMAIN commands /\ \E out : Taken(out)
<1>1. CASE Idle \/ Onward
  <2>1. commands' = commands BY <1>1 DEF Idle, Onward, SameEntries
  <2> QED BY <1>1, <2>1 DEF Kept, Idle, Onward
<1>2. CASE Unheard BY <1>2, UnheardEffect DEF Unheard
<1>3. CASE \E ok, err : Ends(ok, err)
  <2>1. PICK ok, err : Ends(ok, err) BY <1>3
  <2> QED BY <2>1, EndsEffect DEF Ends
<1> QED BY <1>1, <1>2, <1>3 DEF Takes

LEMMA TakesInOrder ==
    ASSUME TypeOK, Shape(queue, requests, commands), Sorted(queue, requests), Takes
    PROVE  Shape(queue, requests, commands)' /\ Sorted(queue, requests)'
<1>1. PICK out : Taken(out) BY TakesKeep
<1>2. /\ queue \in Seq(Messages) /\ queue # <<>> /\ requests \in Seq(Requests) /\ out \in Seq(Requests)
      /\ queue' = Tail(queue) /\ requests' = requests \o out
      /\ Batch(out, OfMessage(Head(queue))) /\ \A k \in DOMAIN out : RequestFits(out[k], commands)
  BY <1>1 DEF Taken, TypeOK
<1>3. Shape(queue', requests', commands') BY <1>2, TakesKeep, ShapeTaken
<1>4. \A k \in DOMAIN out : OfRequest(out[k]).stage \in {1, 3}
  BY <1>2, RequestMarked DEF RequestFits
<1>5. Sorted(queue', requests') BY <1>2, <1>4, AllMarked, TakeSorted
<1> QED BY <1>3, <1>5

LEMMA TakenPresence ==
    ASSUME TypeOK, Sorted(queue, requests), NEW out, Taken(out), NEW n \in Nat \ {0}
    PROVE  LET p == queue'
               o == requests'
               x == OfMessage(Head(queue))
           IN  /\ Present(p, o, n) => Present(queue, requests, n)
               /\ Borne(p, o, n) => Borne(queue, requests, n)
               /\ n # x.n => (Present(queue, requests, n) => Present(p, o, n))
                             /\ (Borne(queue, requests, n) => Borne(p, o, n))
               /\ ~x.last => (Borne(queue, requests, n) => Borne(p, o, n))
               /\ n = x.n /\ (\E k \in DOMAIN out : OfRequest(out[k]).n = n /\ OfRequest(out[k]).last)
                     => Borne(p, o, n)
               /\ n = x.n /\ x.last /\ Borne(p, o, n)
                     => \E k \in DOMAIN out : OfRequest(out[k]).n = n /\ OfRequest(out[k]).last
               /\ n = x.n => Present(queue, requests, n) /\ (x.last => Borne(queue, requests, n))
               /\ n = x.n /\ x.last /\ x.stage = 4 => ~Present(p, o, n)
<1>2. /\ queue \in Seq(Messages) /\ queue # <<>> /\ requests \in Seq(Requests) /\ out \in Seq(Requests)
      /\ queue' = Tail(queue) /\ requests' = requests \o out
      /\ Batch(out, OfMessage(Head(queue))) /\ \A k \in DOMAIN out : RequestFits(out[k], commands)
  BY DEF Taken, TypeOK
<1>4. \A k \in DOMAIN out : OfRequest(out[k]).stage \in {1, 3}
  BY <1>2, RequestMarked DEF RequestFits
<1>5. Marked(queue, requests) BY <1>2, AllMarked
<1> HIDE DEF Taken
<1> QED BY <1>2, <1>4, <1>5, TakePresence

(* Where every answer under way stays under way the account stands.          *)
LEMMA AnswersStand ==
    ASSUME AnswerInv, TypeOK, commands' = commands, client' => client,
           \A n \in Nat \ {0} : Borne(queue', requests', n) <=> Borne(queue, requests, n)
    PROVE  AnswerInv'
<1> SUFFICES ASSUME NEW n \in DOMAIN commands
             PROVE  AnswerOf(commands[n], Borne(queue', requests', n), client')
  BY DEF AnswerInv
<1>1. Borne(queue', requests', n) <=> Borne(queue, requests, n) BY CommandTyped
<1>2. AnswerOf(commands[n], Borne(queue, requests, n), client) BY DEF AnswerInv
<1> QED BY <1>1, <1>2 DEF AnswerOf

LEMMA TakesBear ==
    ASSUME TypeOK, Sorted(queue, requests), Idle \/ Onward
    PROVE  \A n \in Nat \ {0} : Borne(queue', requests', n) <=> Borne(queue, requests, n)
<1> DEFINE x == OfMessage(Head(queue))
<1> TAKE n \in Nat \ {0}
<1>1. PICK out : /\ Taken(out)
                 /\ \/ x.n = 0
                    \/ x.last => \E k \in DOMAIN out : OfRequest(out[k]).n = x.n /\ OfRequest(out[k]).last
  BY DEF Idle, Onward
<1> HIDE DEF x
<1>2. /\ Borne(queue', requests', n) => Borne(queue, requests, n)
      /\ n # x.n \/ ~x.last => (Borne(queue, requests, n) => Borne(queue', requests', n))
      /\ n = x.n /\ (\E k \in DOMAIN out : OfRequest(out[k]).n = n /\ OfRequest(out[k]).last)
            => Borne(queue', requests', n)
  BY <1>1, TakenPresence DEF x
<1> QED BY <1>1, <1>2

LEMMA EndsBear ==
    ASSUME TypeOK, Shape(queue, requests, commands), Sorted(queue, requests), Taken(<<>>),
           Head(queue).what = "answer", NEW n \in Nat \ {0}
    PROVE  LET r == Head(queue).to IN
           /\ n # r.n \/ ~r.flag => (Borne(queue', requests', n) <=> Borne(queue, requests, n))
           /\ n = r.n /\ r.flag => Borne(queue, requests, n) /\ ~Borne(queue', requests', n)
           /\ Present(queue', requests', n) => Present(queue, requests, n)
           /\ n # r.n => (Present(queue, requests, n) => Present(queue', requests', n))
           /\ n = r.n /\ r.flag /\ r.do # "call" => ~Present(queue', requests', n)
<1> DEFINE r == Head(queue).to
<1>1. OfMessage(Head(queue)) = [n |-> r.n, last |-> r.flag, stage |-> IF r.do = "call" THEN 2 ELSE 4]
  BY HeadAnswer DEF Taken
<1> HIDE DEF r
<1>2. DOMAIN <<>> = {}  OBVIOUS
<1> QED BY <1>1, <1>2, TakenPresence DEF r

LEMMA EndsAnswers ==
    ASSUME TypeOK, Shape(queue, requests, commands), Sorted(queue, requests), AnswerInv,
           NEW ok, NEW err, Ends(ok, err), client' => client
    PROVE  AnswerInv'
<1> DEFINE r == Head(queue).to
           heard == r.flag /\ client
<1>1. /\ r.n \in DOMAIN commands /\ r \in Requests /\ DOMAIN commands' = DOMAIN commands
      /\ Kept(commands, commands')
      /\ \A n \in DOMAIN commands : Counts(commands[n], commands'[n], n = r.n, heard, ok, err)
  BY EndsEffect
<1>2. /\ Head(queue).what = "answer" /\ Taken(<<>>) /\ RequestFits(r, commands)
      /\ ok \in BOOLEAN /\ err \in BOOLEAN
      /\ r.then = "resume" => ok
      /\ ok \/ err \/ r.then = "modify"
      /\ r.then = commands[r.n].do /\ r.flag \in BOOLEAN
      /\ r.then # "remove" => r.flag
  BY <1>1, HeadAnswer DEF Ends, Taken, RequestFits
<1>3. \A n \in DOMAIN commands :
         /\ n # r.n \/ ~r.flag => (Borne(queue', requests', n) <=> Borne(queue, requests, n))
         /\ n = r.n /\ r.flag => Borne(queue, requests, n) /\ ~Borne(queue', requests', n)
  BY <1>2, EndsBear, CommandTyped
<1> HIDE DEF r
<1> SUFFICES ASSUME NEW n \in DOMAIN commands
             PROVE  AnswerOf(commands'[n], Borne(queue', requests', n), client')
  BY <1>1 DEF AnswerInv
<1> DEFINE c == commands[n]
           d == commands'[n]
           b == Borne(queue, requests, n)
           b2 == Borne(queue', requests', n)
<1>4. AnswerOf(c, b, client) /\ Counts(c, d, n = r.n, heard, ok, err) /\ d.do = c.do
      /\ c \in CommandRecords
  BY <1>1, CommandTyped DEF AnswerInv, Kept
<1>5. /\ n # r.n \/ ~r.flag => (b2 <=> b)
      /\ n = r.n /\ r.flag => b /\ ~b2
  BY <1>3
<1>6. c.sent \in Nat BY <1>4 DEF CommandRecords
<1> HIDE DEF c, d, b, b2
<1>7. ASSUME n # r.n PROVE AnswerOf(d, b2, client') BY <1>4, <1>5, <1>7 DEF AnswerOf, Counts
<1>8. ASSUME n = r.n /\ ~r.flag PROVE AnswerOf(d, b2, client')
  <2>1. c.do = "remove" BY <1>2, <1>8 DEF c
  <2> QED BY <1>2, <1>4, <1>5, <1>8, <2>1 DEF AnswerOf, Counts
<1>9. ASSUME n = r.n /\ r.flag PROVE AnswerOf(d, b2, client')
  <2>1. c.do = r.then BY <1>2, <1>9 DEF c
  <2>2. b /\ ~b2 /\ c.sent = 0 BY <1>4, <1>5, <1>6, <1>9 DEF AnswerOf
  <2>3. d.sent = (IF client THEN 1 ELSE 0) /\ (d.failed <=> c.failed \/ err) /\ (d.refused <=> c.refused \/ ~ok)
    BY <1>4, <1>9, <2>2 DEF Counts
  <2>4. c.do = "resume" => ~c.refused /\ ok BY <1>2, <1>4, <2>1, <2>2 DEF AnswerOf
  <2>5. c.do \notin {"resume", "modify"} => (c.refused => c.failed) /\ (ok \/ err)
    BY <1>2, <1>4, <2>1 DEF AnswerOf
  <2> QED BY <1>4, <2>2, <2>3, <2>4, <2>5 DEF AnswerOf
<1> QED BY <1>7, <1>8, <1>9 DEF d, b2

LEMMA UnheardAnswers ==
    ASSUME TypeOK, Shape(queue, requests, commands), Sorted(queue, requests), AnswerInv,
           Unheard, client' => client
    PROVE  AnswerInv'
<1> DEFINE r == Head(queue).to
<1>1. /\ r.n \in DOMAIN commands /\ DOMAIN commands' = DOMAIN commands
      /\ Kept(commands, commands')
      /\ \A n \in DOMAIN commands : Counts(commands[n], commands'[n], n = r.n, FALSE, FALSE, FALSE)
  BY UnheardEffect
<1>2. /\ Head(queue).what = "answer" /\ Taken(<<>>) /\ RequestFits(r, commands)
      /\ r.then = "resume" /\ r.then = commands[r.n].do /\ r.flag
  BY <1>1, HeadAnswer DEF Unheard, Taken, RequestFits
<1>3. \A n \in DOMAIN commands :
         /\ n # r.n => (Borne(queue', requests', n) <=> Borne(queue, requests, n))
         /\ n = r.n => Borne(queue, requests, n) /\ ~Borne(queue', requests', n)
  BY <1>2, EndsBear, CommandTyped
<1> HIDE DEF r
<1> SUFFICES ASSUME NEW n \in DOMAIN commands
             PROVE  AnswerOf(commands'[n], Borne(queue', requests', n), client')
  BY <1>1 DEF AnswerInv
<1> DEFINE c == commands[n]
           d == commands'[n]
           b == Borne(queue, requests, n)
           b2 == Borne(queue', requests', n)
<1>4. AnswerOf(c, b, client) /\ Counts(c, d, n = r.n, FALSE, FALSE, FALSE) /\ d.do = c.do
      /\ c \in CommandRecords
  BY <1>1, CommandTyped DEF AnswerInv, Kept
<1>5. /\ n # r.n => (b2 <=> b)
      /\ n = r.n => b /\ ~b2 /\ c.do = "resume"
  BY <1>2, <1>3
<1>6. c.sent \in Nat BY <1>4 DEF CommandRecords
<1> HIDE DEF c, d, b, b2
<1>7. ASSUME n # r.n PROVE AnswerOf(d, b2, client') BY <1>4, <1>5, <1>7 DEF AnswerOf, Counts
<1>8. ASSUME n = r.n PROVE AnswerOf(d, b2, client')
  BY <1>4, <1>5, <1>6, <1>8 DEF AnswerOf, Counts
<1> QED BY <1>7, <1>8 DEF d, b2

LEMMA TakesBase ==
    ASSUME Base, Adapter
    PROVE  Base'
<1>1. TypeOK /\ Shape(queue, requests, commands) /\ Sorted(queue, requests) /\ AnswerInv
  BY DEF Base
<1>2. TypeOK' /\ Takes /\ (client' => client) BY <1>1, AdapterKind
<1>3. Shape(queue, requests, commands)' /\ Sorted(queue, requests)' BY <1>1, <1>2, TakesInOrder
<1>4. AnswerInv'
  <2>1. CASE Idle \/ Onward
    <3>1. commands' = commands BY <2>1 DEF Idle, Onward, SameEntries
    <3> QED BY <1>1, <1>2, <2>1, <3>1, TakesBear, AnswersStand
  <2>2. CASE Unheard BY <1>1, <1>2, <2>2, UnheardAnswers
  <2>3. CASE \E ok, err : Ends(ok, err) BY <1>1, <1>2, <2>3, EndsAnswers
  <2> QED BY <1>2, <2>1, <2>2, <2>3 DEF Takes
<1> QED BY <1>2, <1>3, <1>4 DEF Base

-----------------------------------------------------------------------------
(* A command is sent.                                                        *)

NewCommand(do, sessions) ==
    [do |-> do, sessions |-> sessions, failed |-> FALSE, refused |-> FALSE, sent |-> 0, got |-> 0]
NewMessage(do, n, sessions) == [what |-> "command", do |-> do, n |-> n, ids |-> sessions]
NewEntry(do, n, ids) == [do |-> do, n |-> n, ids |-> ids]

Sends(do, ids, sessions) ==
    /\ do \in Kinds /\ ids \in SUBSET Ids /\ sessions \in Seq(Sessions)
    /\ sessions # <<>> /\ IsInjective(sessions)
    /\ do # "remove" => Len(sessions) = 1
    /\ Range(sessions) \subseteq Used(commands')
    /\ Send(do, ids, sessions)
    /\ known' \in [Ids -> Told] /\ forward' \in [Ids -> 0..MaxSessions]
    /\ backward' \in [Sessions -> Ids \cup {NoId}]

LEMMA AdditionsFinite ==
    ASSUME TypeOK
    PROVE  IsFiniteSet(Additions(commands)) /\ Cardinality(Additions(commands)) \in Nat
           /\ NewSession = Cardinality(Additions(commands)) + 1
           /\ \A s \in Used(commands) : s \in Nat /\ s # 0 /\ s # NewSession
<1>1. Len(commands) \in Nat /\ DOMAIN commands = 1..Len(commands) BY LenProperties DEF TypeOK
<1>2. IsFiniteSet(DOMAIN commands) BY <1>1, FS_Interval
<1>3. IsFiniteSet(Additions(commands)) BY <1>2, FS_Subset DEF Additions
<1>4. Cardinality(Additions(commands)) \in Nat BY <1>3, FS_CardinalityType
<1>5. NewSession = Cardinality(Additions(commands)) + 1 BY DEF NewSession, Additions
<1> QED BY <1>3, <1>4, <1>5 DEF Used

LEMMA MoreCommands ==
    ASSUME TypeOK, NEW c \in CommandRecords, commands' = Append(commands, c)
    PROVE  LET n == Len(commands) + 1 IN
           /\ n \in Nat \ {0} /\ n \notin DOMAIN commands /\ \A k \in DOMAIN commands : k < n
           /\ DOMAIN commands' = DOMAIN commands \cup {n} /\ commands'[n] = c
           /\ \A k \in DOMAIN commands : commands'[k] = commands[k]
           /\ Kept(commands, commands')
           /\ commands' \in Seq(CommandRecords) /\ Len(commands') = n
           /\ Used(commands') = IF c.do = "add" THEN 1..NewSession ELSE Used(commands)
           /\ Used(commands) \subseteq Used(commands')
<1> DEFINE n == Len(commands) + 1
           A == Additions(commands)
           B == Additions(commands')
<1>1. commands \in Seq(CommandRecords) BY DEF TypeOK, CommandRecords
<1>2. /\ commands' \in Seq(CommandRecords) /\ Len(commands) \in Nat /\ DOMAIN commands = 1..Len(commands)
      /\ Len(commands') = n /\ DOMAIN commands' = 1..n
      /\ \A k \in DOMAIN commands : commands'[k] = commands[k]
      /\ commands'[n] = c
  BY <1>1, HasAppended
<1>3. n \in Nat \ {0} /\ n \notin DOMAIN commands /\ (\A k \in DOMAIN commands : k < n)
      /\ DOMAIN commands' = DOMAIN commands \cup {n}
  BY <1>2
<1> HIDE DEF n
<1>4. Kept(commands, commands') BY <1>2, <1>3 DEF Kept
<1>5. B = IF c.do = "add" THEN A \cup {n} ELSE A BY <1>2, <1>3 DEF Additions
<1>6. IsFiniteSet(A) /\ Cardinality(A) \in Nat /\ NewSession = Cardinality(A) + 1 /\ n \notin A
  BY <1>3, AdditionsFinite DEF Additions
<1> HIDE DEF A, B
<1>7. Cardinality(B) = IF c.do = "add" THEN Cardinality(A) + 1 ELSE Cardinality(A)
  BY <1>5, <1>6, FS_AddElement
<1>8. Used(commands') = IF c.do = "add" THEN 1..NewSession ELSE Used(commands)
  BY <1>6, <1>7 DEF Used, A, B
<1>9. Used(commands) \subseteq Used(commands')
  <2>1. Used(commands) = 1..Cardinality(A) BY DEF Used, A
  <2>2. \A a \in Nat : 1..a \subseteq 1..(a + 1)  OBVIOUS
  <2>3. 1..Cardinality(A) \subseteq 1..NewSession BY <1>6, <2>2
  <2> QED BY <1>8, <2>1, <2>3
<1> QED BY <1>2, <1>3, <1>4, <1>8, <1>9 DEF n

LEMMA PresentKnown ==
    ASSUME TypeOK, Shape(queue, requests, commands), NEW n \in Nat \ {0}, Present(queue, requests, n)
    PROVE  n \in DOMAIN commands
<1>1. CASE \E k \in DOMAIN queue : OfMessage(queue[k]).n = n
  <2>1. PICK k \in DOMAIN queue : OfMessage(queue[k]).n = n BY <1>1
  <2>2. MessageFits(queue[k], commands) BY DEF Shape
  <2> DEFINE m == queue[k]
  <2>3. OfMessage(m).n = n /\ MessageFits(m, commands) BY <2>1, <2>2
  <2> HIDE DEF m
  <2>4. CASE m.what = "command" BY <2>3, <2>4 DEF OfMessage, MessageFits
  <2>5. CASE m.what = "answer" BY <2>3, <2>5 DEF OfMessage, MessageFits, RequestFits
  <2>6. CASE m.what \notin {"answer", "command"} BY <2>3, <2>6 DEF OfMessage
  <2> QED BY <2>4, <2>5, <2>6
<1>2. CASE \E k \in DOMAIN requests : OfRequest(requests[k]).n = n
  BY <1>2 DEF Shape, RequestFits, OfRequest
<1> QED BY <1>1, <1>2 DEF Present

LEMMA BornePresent ==
    ASSUME NEW q, NEW rs, NEW n, Borne(q, rs, n)
    PROVE  Present(q, rs, n)
BY DEF Borne, Present

LEMMA SendEffect ==
    ASSUME TypeOK, Shape(queue, requests, commands), Sorted(queue, requests), AnswerInv,
           NEW do, NEW ids, NEW sessions, Sends(do, ids, sessions)
    PROVE  LET n == Len(commands) + 1
               c == NewCommand(do, sessions)
               m == NewMessage(do, n, sessions)
           IN  /\ Base'
               /\ n \in Nat \ {0} /\ n \notin DOMAIN commands /\ (\A k \in DOMAIN commands : k < n)
               /\ DOMAIN commands' = DOMAIN commands \cup {n} /\ commands'[n] = c
               /\ \A k \in DOMAIN commands : commands'[k] = commands[k]
               /\ Kept(commands, commands')
               /\ Used(commands') = IF do = "add" THEN 1..NewSession ELSE Used(commands)
               /\ Used(commands) \subseteq Used(commands')
               /\ m \in Messages /\ queue' = Append(queue, m)
               /\ \A k \in Nat \ {0} :
                     /\ Present(queue', requests', k) <=> Present(queue, requests, k) \/ k = n
                     /\ Borne(queue', requests', k) <=> Borne(queue, requests, k) \/ k = n
               /\ ~Present(queue, requests, n)
               /\ NewEntry(do, n, ids) \in Entries
               /\ requestQueue' = Append(requestQueue, NewEntry(do, n, ids))
               /\ ~Destroyed
               /\ UNCHANGED <<world, events, breaches, adapter, requests, engine>>
<1> DEFINE n == Len(commands) + 1
           c == NewCommand(do, sessions)
           m == NewMessage(do, n, sessions)
           e == NewEntry(do, n, ids)
<1>1. /\ do \in Kinds /\ ids \in SUBSET Ids /\ sessions \in Seq(Sessions)
      /\ sessions # <<>> /\ IsInjective(sessions) /\ (do # "remove" => Len(sessions) = 1)
      /\ Range(sessions) \subseteq Used(commands')
      /\ known' \in [Ids -> Told] /\ forward' \in [Ids -> 0..MaxSessions]
      /\ backward' \in [Sessions -> Ids \cup {NoId}]
  BY DEF Sends
<1>2. /\ n <= MaxCommands /\ ~Destroyed
      /\ requestQueue' = Append(requestQueue, e)
      /\ queue' = Append(queue, m) /\ commands' = Append(commands, c)
      /\ UNCHANGED <<world, events, breaches, adapter, requests, engine>>
  BY DEF Sends, Send, NewMessage, NewEntry, NewCommand
<1>3. c \in CommandRecords /\ c.do = do /\ c.sessions = sessions /\ c.sent = 0 /\ c.refused = FALSE
  BY <1>1, GeofenceAssumption DEF NewCommand, CommandRecords
<1>4. /\ n \in Nat \ {0} /\ n \notin DOMAIN commands /\ (\A k \in DOMAIN commands : k < n)
      /\ DOMAIN commands' = DOMAIN commands \cup {n} /\ commands'[n] = c
      /\ \A k \in DOMAIN commands : commands'[k] = commands[k]
      /\ Kept(commands, commands')
      /\ commands' \in Seq(CommandRecords) /\ Len(commands') = n
      /\ Used(commands') = IF c.do = "add" THEN 1..NewSession ELSE Used(commands)
      /\ Used(commands) \subseteq Used(commands')
  BY <1>2, <1>3, MoreCommands
<1> HIDE DEF n, c
<1>5. n \in 1..MaxCommands BY <1>2, <1>4, GeofenceAssumption
<1>6. m \in Messages /\ e \in Entries BY <1>1, <1>5 DEF NewMessage, NewEntry, Messages, Entries
<1>7. OfMessage(m) = [n |-> n, last |-> TRUE, stage |-> 0] BY DEF OfMessage, NewMessage
<1>8. MessageFits(m, commands') BY <1>3, <1>4, <1>6 DEF MessageFits, NewMessage
<1>9. queue \in Seq(Messages) /\ requests \in Seq(Requests) /\ requestQueue \in Seq(Entries)
  BY TypedSame DEF TypeOK
<1>10. \A k \in Nat : Present(queue, requests, k) => k < n
  <2>1. \A k \in Nat \ {0} : Present(queue, requests, k) => k < n BY <1>4, PresentKnown
  <2>2. 0 < n BY <1>4
  <2> QED BY <2>1, <2>2
<1> HIDE DEF m, e
<1>11. Sorted(queue', requests')
  <2>1. Marked(queue, requests) BY <1>9, AllMarked
  <2>2. OfMessage(m).n = n /\ OfMessage(m).stage = 0 /\ n \in Nat BY <1>4, <1>7
  <2>3. Sorted(Append(queue, m), requests) BY <1>6, <1>9, <1>10, <2>1, <2>2, PostSorted
  <2> QED BY <1>2, <2>3
<1>12. \A k \in Nat \ {0} :
          /\ Present(queue', requests', k) <=> Present(queue, requests, k) \/ k = n
          /\ Borne(queue', requests', k) <=> Borne(queue, requests, k) \/ k = n
  <2> TAKE k \in Nat \ {0}
  <2>1. OfMessage(m).n = n /\ OfMessage(m).last BY <1>7
  <2>2. /\ Present(Append(queue, m), requests, k) <=> Present(queue, requests, k) \/ OfMessage(m).n = k
        /\ Borne(Append(queue, m), requests, k)
              <=> Borne(queue, requests, k) \/ (OfMessage(m).n = k /\ OfMessage(m).last)
    BY <1>6, <1>9, PostPresence
  <2>3. queue' = Append(queue, m) /\ requests' = requests BY <1>2
  <2> HIDE DEF n
  <2> QED BY <2>1, <2>2, <2>3
<1>13. ~Present(queue, requests, n) BY <1>4, <1>10
<1>14. Shape(queue', requests', commands')
  <2>1. \A k \in DOMAIN commands' : CommandFits(commands'[k], commands')
    <3>1. CommandFits(c, commands') BY <1>1, <1>3 DEF CommandFits
    <3>2. \A k \in DOMAIN commands : CommandFits(commands[k], commands')
      BY <1>4 DEF Shape, CommandFits
    <3> QED BY <1>4, <3>1, <3>2
  <2>2. Shape(Append(queue, m), requests, commands')
    BY <1>4, <1>6, <1>8, <1>9, <2>1, ShapePosted
  <2> QED BY <1>2, <2>2
<1>15. TypeOK'
  <2>1. queue' \in Seq(Messages) /\ requestQueue' \in Seq(Entries)
    BY <1>2, <1>6, <1>9, AppendProperties
  <2>2. Len(commands') <= MaxCommands BY <1>2, <1>4
  <2> HIDE DEF Destroyed
  <2> QED BY <1>1, <1>2, <1>4, <2>1, <2>2 DEF TypeOK, Told, Entries, CommandRecords, adapter, engine
<1>16. AnswerInv'
  <2> SUFFICES ASSUME NEW k \in DOMAIN commands'
               PROVE  AnswerOf(commands'[k], Borne(queue', requests', k), client')
    BY DEF AnswerInv
  <2>1. client' = client BY <1>2 DEF adapter
  <2>2. CASE k = n
    <3>1. Borne(queue', requests', k) /\ commands'[k] = c BY <1>4, <1>12, <2>2
    <3> QED BY <1>3, <3>1 DEF AnswerOf
  <2>3. CASE k # n
    <3>1. k \in DOMAIN commands /\ k \in Nat \ {0} /\ commands'[k] = commands[k]
      BY <1>4, <2>3, CommandTyped
    <3>2. Borne(queue', requests', k) <=> Borne(queue, requests, k) BY <1>12, <2>3, <3>1
    <3>3. AnswerOf(commands[k], Borne(queue, requests, k), client) BY <3>1 DEF AnswerInv
    <3> QED BY <2>1, <3>1, <3>2, <3>3 DEF AnswerOf
  <2> QED BY <2>2, <2>3
<1>17. Base' BY <1>11, <1>14, <1>15, <1>16 DEF Base
<1> HIDE DEF Destroyed
<1>18. Used(commands') = IF do = "add" THEN 1..NewSession ELSE Used(commands) BY <1>3, <1>4
<1> QED BY <1>2, <1>4, <1>6, <1>12, <1>13, <1>17, <1>18 DEF n, c, m, e

LEMMA SendUsed ==
    ASSUME TypeOK, NEW do \in Kinds, NEW ids, NEW sessions \in Seq(Sessions), Send(do, ids, sessions)
    PROVE  /\ Used(commands') = IF do = "add" THEN 1..NewSession ELSE Used(commands)
           /\ Used(commands) \subseteq Used(commands')
<1> DEFINE c == NewCommand(do, sessions)
<1>1. commands' = Append(commands, c) BY DEF Send, NewCommand
<1>2. c \in CommandRecords /\ c.do = do BY GeofenceAssumption DEF NewCommand, CommandRecords
<1> HIDE DEF c
<1>3. /\ Used(commands') = IF c.do = "add" THEN 1..NewSession ELSE Used(commands)
      /\ Used(commands) \subseteq Used(commands')
  BY <1>1, <1>2, MoreCommands
<1> QED BY <1>2, <1>3

LEMMA OneSession ==
    ASSUME NEW s \in Sessions
    PROVE  <<s>> \in Seq(Sessions) /\ <<s>> # <<>> /\ Len(<<s>>) = 1 /\ IsInjective(<<s>>)
           /\ Range(<<s>>) = {s}
<1>1. DOMAIN <<s>> = {1} /\ <<s>>[1] = s /\ <<s>> \in Seq(Sessions) /\ Len(<<s>>) = 1 /\ <<s>> # <<>>
  OBVIOUS
<1>2. IsInjective(<<s>>) BY <1>1 DEF IsInjective
<1>3. Range(<<s>>) = {s} BY <1>1 DEF Range
<1> QED BY <1>1, <1>2, <1>3

LEMMA AddKind ==
    ASSUME TypeOK, NEW id \in Ids, locAPIAddGeofences(id)
    PROVE  /\ Sends("add", {id}, <<NewSession>>) /\ NewSession \in Sessions
           /\ forward' = [forward EXCEPT ![id] = NewSession]
           /\ "hasty" \in world \/ ~Waiting(id)
<1>1. /\ NewSession \in Sessions /\ ("hasty" \in world \/ ~Waiting(id))
      /\ forward' = [forward EXCEPT ![id] = NewSession]
      /\ backward' = [backward EXCEPT ![NewSession] = id]
      /\ known' = [known EXCEPT ![id] = "adding"]
      /\ Send("add", {id}, <<NewSession>>)
  BY DEF locAPIAddGeofences
<1> DEFINE s == NewSession
<1> HIDE DEF s
<1>2. s \in Sessions /\ "add" \in Kinds BY <1>1 DEF Kinds, s
<1>3. <<s>> \in Seq(Sessions) /\ <<s>> # <<>> /\ Len(<<s>>) = 1 /\ IsInjective(<<s>>) /\ Range(<<s>>) = {s}
  BY <1>2, OneSession
<1>4. Used(commands') = 1..s BY <1>1, <1>2, <1>3, SendUsed DEF s
<1>5. Range(<<s>>) \subseteq Used(commands') BY <1>2, <1>3, <1>4 DEF Sessions
<1>6. known' \in [Ids -> Told] /\ forward' \in [Ids -> 0..MaxSessions]
      /\ backward' \in [Sessions -> Ids \cup {NoId}]
  <2>1. s \in 0..MaxSessions BY <1>2, GeofenceAssumption DEF Sessions
  <2>2. known' = [known EXCEPT ![id] = "adding"] /\ forward' = [forward EXCEPT ![id] = s]
        /\ backward' = [backward EXCEPT ![s] = id]
    BY <1>1 DEF s
  <2> QED BY <1>2, <2>1, <2>2 DEF TypeOK, Told
<1> QED BY <1>1, <1>2, <1>3, <1>5, <1>6 DEF Sends, s

LEMMA ChangeKind ==
    ASSUME TypeOK, IdsInv, NEW id \in Ids, NEW do \in Kinds \ {"add", "remove"}, Change(do, id)
    PROVE  /\ Sends(do, {id}, <<forward[id]>>) /\ forward[id] \in Sessions
           /\ UNCHANGED forward /\ MayName(id) /\ forward[id] # 0
<1>1. /\ forward[id] # 0 /\ MayName(id) /\ Send(do, {id}, <<forward[id]>>)
      /\ UNCHANGED <<known, forward, backward>>
  BY DEF Change, Added
<1> DEFINE s == forward[id]
<1> HIDE DEF s
<1>2. s \in Sessions /\ s \in Used(commands)
  <2>1. forward[id] \in 0..MaxSessions /\ forward[id] \in Used(commands)
    BY <1>1 DEF TypeOK, IdsInv
  <2> QED BY <1>1, <2>1, GeofenceAssumption DEF s, Sessions
<1>3. <<s>> \in Seq(Sessions) /\ <<s>> # <<>> /\ Len(<<s>>) = 1 /\ IsInjective(<<s>>) /\ Range(<<s>>) = {s}
  BY <1>2, OneSession
<1>4. Used(commands) \subseteq Used(commands') BY <1>1, <1>3, SendUsed DEF s
<1>5. Range(<<s>>) \subseteq Used(commands') BY <1>2, <1>3, <1>4
<1>6. known' \in [Ids -> Told] /\ forward' \in [Ids -> 0..MaxSessions]
      /\ backward' \in [Sessions -> Ids \cup {NoId}]
  BY <1>1 DEF TypeOK, Told
<1> QED BY <1>1, <1>2, <1>3, <1>5, <1>6 DEF Sends, s

LEMMA RemoveKind ==
    ASSUME TypeOK, IdsInv, NEW ids \in SUBSET Added, RemoveGeofences(ids)
    PROVE  LET sessions == Ascending({forward[id] : id \in ids}) IN
           /\ Sends("remove", ids, sessions)
           /\ Range(sessions) = {forward[id] : id \in ids}
           /\ forward' = [id \in Ids |-> IF id \in ids THEN 0 ELSE forward[id]]
<1> DEFINE S == {forward[id] : id \in ids}
           a == Ascending(S)
<1>1. /\ ids # {} /\ Send("remove", ids, a)
      /\ forward' = [id \in Ids |-> IF id \in ids THEN 0 ELSE forward[id]]
      /\ backward' = [s \in Sessions |-> IF \E id \in ids : forward[id] = s THEN NoId ELSE backward[s]]
      /\ known' = [id \in Ids |-> IF id \in ids THEN "absent" ELSE known[id]]
  BY DEF RemoveGeofences
<1>2. ids \subseteq Ids /\ \A id \in ids : forward[id] # 0 BY DEF Added
<1>3. S # {} /\ S \subseteq Sessions /\ S \subseteq Used(commands)
  <2>1. \A id \in ids : forward[id] \in Sessions /\ forward[id] \in Used(commands)
    <3> TAKE id \in ids
    <3>1. forward[id] \in 0..MaxSessions /\ forward[id] # 0 /\ forward[id] \in Used(commands)
      BY <1>2 DEF TypeOK, IdsInv
    <3> QED BY <3>1, GeofenceAssumption DEF Sessions
  <2> QED BY <1>1, <2>1
<1>4. S \subseteq Int /\ IsFiniteSet(S)
  <2>1. IsFiniteSet(Sessions) /\ Sessions \subseteq Int
    BY GeofenceAssumption, FS_Interval DEF Sessions
  <2> QED BY <1>3, <2>1, FS_Subset
<1> HIDE DEF S
<1>5. /\ a \in Seq(S) /\ (\A i, j \in DOMAIN a : a[i] = a[j] => i = j) /\ Range(a) = S /\ a # <<>>
  BY <1>3, <1>4, AscendingIs
<1> HIDE DEF a
<1>6. a \in Seq(Sessions)
  <2>1. a \in [1..Len(a) -> S] /\ Len(a) \in Nat BY <1>5, LenProperties
  <2>2. a \in [1..Len(a) -> Sessions] BY <1>3, <2>1
  <2> QED BY <2>1, <2>2
<1>7. IsInjective(a) BY <1>5 DEF IsInjective
<1>8. "remove" \in Kinds /\ ids \in SUBSET Ids BY <1>2 DEF Kinds
<1>9. Range(a) \subseteq Used(commands')
  <2>1. Used(commands) \subseteq Used(commands') BY <1>1, <1>6, <1>8, SendUsed
  <2> QED BY <1>3, <1>5, <2>1
<1>10. known' \in [Ids -> Told] /\ forward' \in [Ids -> 0..MaxSessions]
       /\ backward' \in [Sessions -> Ids \cup {NoId}]
  BY <1>1, GeofenceAssumption DEF TypeOK, Told
<1>11. Sends("remove", ids, a) BY <1>1, <1>5, <1>6, <1>7, <1>8, <1>9, <1>10 DEF Sends
<1> QED BY <1>1, <1>5, <1>11 DEF a, S

(* Every command of the framework                                            *)
LEMMA FrameworkKind ==
    ASSUME TypeOK, IdsInv, Framework
    PROVE  destroy \/ \E do, ids, sessions : Sends(do, ids, sessions)
<1>1. CASE \E id \in Ids : locAPIAddGeofences(id) BY <1>1, AddKind
<1>2. CASE \E id \in Ids : locAPIRemoveGeofences(id)
  <2>1. PICK id \in Ids : RemoveGeofences({id} \cap Added) BY <1>2 DEF locAPIRemoveGeofences
  <2> QED BY <2>1, RemoveKind
<1>3. CASE locAPIRemoveAllGeofences BY <1>3, RemoveKind DEF locAPIRemoveAllGeofences
<1>4. ASSUME NEW id \in Ids, locAPIPauseGeofences(id) \/ locAPIResumeGeofences(id) \/ locAPIModifyGeofences(id)
      PROVE  \E do, ids, sessions : Sends(do, ids, sessions)
  <2>1. PICK do \in Kinds \ {"add", "remove"} : Change(do, id)
    BY <1>4 DEF locAPIPauseGeofences, locAPIResumeGeofences, locAPIModifyGeofences, Kinds
  <2> QED BY <2>1, ChangeKind
<1> QED BY <1>1, <1>2, <1>3, <1>4 DEF Framework

-----------------------------------------------------------------------------
(* Messages of no command, and LocApi                                        *)

Posts(m) ==
    /\ m \in Messages /\ m.what \in {"up", "power", "breach", "destroy"}
    /\ queue' = Append(queue, m)
    /\ UNCHANGED <<commands, client>>

Moves(m) ==
    /\ requests # <<>> /\ requests' = Tail(requests)
    /\ m \in Messages /\ queue' = Append(queue, m) /\ MessageFits(m, commands)
    /\ OfMessage(m).n = OfRequest(Head(requests)).n
    /\ OfMessage(m).n # 0 => /\ OfMessage(m).last = OfRequest(Head(requests)).last
                             /\ OfMessage(m).stage = OfRequest(Head(requests)).stage + 1
    /\ UNCHANGED <<world, user, adapter>>

LEMMA PostBase ==
    ASSUME Base, NEW m, Posts(m), TypeOK', UNCHANGED requests
    PROVE  /\ Base'
           /\ \A n \in Nat \ {0} :
                 /\ Present(queue', requests', n) <=> Present(queue, requests, n)
                 /\ Borne(queue', requests', n) <=> Borne(queue, requests, n)
<1>1. /\ queue \in Seq(Messages) /\ requests \in Seq(Requests)
      /\ Shape(queue, requests, commands) /\ Sorted(queue, requests) /\ AnswerInv /\ TypeOK
  BY DEF Base, TypeOK
<1>2. m \in Messages /\ queue' = Append(queue, m) /\ m.what \in {"up", "power", "breach", "destroy"}
      /\ commands' = commands /\ client' = client
  BY DEF Posts
<1>3. OfMessage(m).n = 0 /\ OfMessage(m).stage = 4 BY <1>2 DEF OfMessage
<1>4. MessageFits(m, commands) BY <1>2 DEF MessageFits
<1>5. Shape(queue', requests', commands')
  <2>1. Kept(commands, commands) /\ \A n \in DOMAIN commands : CommandFits(commands[n], commands)
    BY <1>1 DEF Kept, Shape
  <2>2. Shape(Append(queue, m), requests, commands) BY <1>1, <1>2, <1>4, <2>1, ShapePosted
  <2> QED BY <1>2, <2>2
<1>6. Sorted(queue', requests')
  <2>1. Marked(queue, requests) BY <1>1, AllMarked
  <2>2. Sorted(Append(queue, m), requests) BY <1>1, <1>2, <1>3, <2>1, PostSorted
  <2> QED BY <1>2, <2>2
<1>7. \A n \in Nat \ {0} :
         /\ Present(queue', requests', n) <=> Present(queue, requests, n)
         /\ Borne(queue', requests', n) <=> Borne(queue, requests, n)
  BY <1>1, <1>2, <1>3, PostPresence
<1>8. AnswerInv' BY <1>1, <1>2, <1>7, AnswersStand
<1> QED BY <1>5, <1>6, <1>7, <1>8 DEF Base

LEMMA MoveBase ==
    ASSUME Base, NEW m, Moves(m), TypeOK'
    PROVE  /\ Base'
           /\ \A n \in Nat \ {0} :
                 /\ Present(queue', requests', n) <=> Present(queue, requests, n)
                 /\ Borne(queue', requests', n) <=> Borne(queue, requests, n)
<1>1. /\ queue \in Seq(Messages) /\ requests \in Seq(Requests)
      /\ Shape(queue, requests, commands) /\ Sorted(queue, requests) /\ AnswerInv /\ TypeOK
  BY DEF Base, TypeOK
<1>2. /\ requests # <<>> /\ requests' = Tail(requests)
      /\ m \in Messages /\ queue' = Append(queue, m) /\ MessageFits(m, commands)
      /\ OfMessage(m).n = OfRequest(Head(requests)).n
      /\ OfMessage(m).n # 0 => /\ OfMessage(m).last = OfRequest(Head(requests)).last
                               /\ OfMessage(m).stage = OfRequest(Head(requests)).stage + 1
      /\ commands' = commands /\ client' = client
  BY DEF Moves, user, adapter
<1>3. Shape(queue', requests', commands')
  <2>1. Shape(Append(queue, m), Tail(requests), commands) BY <1>1, <1>2, ShapeMoved
  <2> QED BY <1>2, <2>1
<1>4. Follows(OfMessage(m), OfRequest(Head(requests))) /\ OfMessage(m).stage \in {0, 2, 4}
  BY <1>2, MessageMarked DEF Follows
<1>5. Sorted(queue', requests')
  <2>1. Marked(queue, requests) BY <1>1, AllMarked
  <2>2. Sorted(Append(queue, m), Tail(requests)) BY <1>1, <1>2, <1>4, <2>1, MoveSorted
  <2> QED BY <1>2, <2>2
<1>6. \A n \in Nat \ {0} :
         /\ Present(queue', requests', n) <=> Present(queue, requests, n)
         /\ Borne(queue', requests', n) <=> Borne(queue, requests, n)
  BY <1>1, <1>2, MovePresence
<1>7. AnswerInv' BY <1>1, <1>2, <1>6, AnswersStand
<1> QED BY <1>3, <1>5, <1>6, <1>7 DEF Base

LEMMA LeastNumber ==
    ASSUME NEW S, S \subseteq Nat, S # {}
    PROVE  \E i \in S : \A j \in S : i <= j
<1> DEFINE R == OpToRel(<, Nat)
<1>1. IsWellFoundedOn(R, Nat) /\ \A x, y \in Nat : y < x => <<y, x>> \in R
  BY NatLessThanWellFounded DEF OpToRel
<1> HIDE DEF R
<1>2. PICK x \in S : \A y \in S : <<y, x>> \notin R BY <1>1, WFMin
<1>3. ASSUME NEW y \in S PROVE x <= y
  <2>1. x \in Nat /\ y \in Nat  OBVIOUS
  <2>2. ~(y < x) BY <1>1, <1>2, <2>1
  <2> QED BY <2>1, <2>2
<1> QED BY <1>3

LEMMA NextIsFree ==
    ASSUME TypeOK, Free # {}
    PROVE  NextHwId \in Free /\ NextHwId \in ModemIds /\ NextHwId \in HwIds /\ modem[NextHwId] = NoFence
<1>1. Free \subseteq Nat /\ Free \subseteq ModemIds /\ ModemIds \subseteq HwIds
  BY GeofenceAssumption DEF Free, ModemIds, HwIds
<1>2. \E h \in Free : \A g \in Free : h <= g BY <1>1, LeastNumber
<1>3. NextHwId \in Free BY <1>2 DEF NextHwId
<1> QED BY <1>1, <1>3 DEF Free

LEMMA HeadRequest ==
    ASSUME TypeOK, Shape(queue, requests, commands), requests # <<>>
    PROVE  LET r == Head(requests) IN
           /\ r \in Requests /\ RequestFits(r, commands)
           /\ r.n = 0 \/ r.n \in DOMAIN commands
           /\ r.do # "open" => r.session \in Sessions
<1>1. requests \in Seq(Requests) BY DEF TypeOK
<1>2. Head(requests) \in Requests /\ RequestFits(Head(requests), commands)
  BY <1>1, HasTaken DEF Shape
<1> QED BY <1>2 DEF RequestFits

(* What goes on to the adapter                                               *)
LEMMA ReplyMoves ==
    ASSUME TypeOK, Shape(queue, requests, commands), requests # <<>>, requests' = Tail(requests),
           NEW r, r = Head(requests), r.do # "open", NEW ok \in BOOLEAN, NEW h \in HwIds,
           r.do = "call" => h = r.hw,
           Reply(ok, [r EXCEPT !.hw = h]), UNCHANGED <<world, user, adapter>>
    PROVE  Moves([what |-> "answer", ok |-> ok, to |-> [r EXCEPT !.hw = h]])
<1> DEFINE y == [r EXCEPT !.hw = h]
           m == [what |-> "answer", ok |-> ok, to |-> y]
<1>1. r \in Requests /\ RequestFits(r, commands) BY HeadRequest
<1>2. y \in Requests /\ y.do = r.do /\ y.then = r.then /\ y.n = r.n /\ y.session = r.session
      /\ y.flag = r.flag
  BY <1>1 DEF Requests
<1> HIDE DEF y
<1>3. RequestFits(y, commands) BY <1>1, <1>2 DEF RequestFits
<1>4. m \in Messages BY <1>2 DEF Messages
<1>5. MessageFits(m, commands) BY <1>2, <1>3, <1>4 DEF MessageFits
<1>6. OfMessage(m) = [n |-> r.n, last |-> r.flag, stage |-> IF r.do = "call" THEN 2 ELSE 4]
  BY <1>2 DEF OfMessage
<1>7. OfRequest(r) = [n |-> r.n, last |-> r.flag, stage |-> IF r.do = "call" THEN 1 ELSE 3]
  BY DEF OfRequest
<1>8. queue' = Append(queue, m) BY DEF Reply, y
<1> HIDE DEF m
<1>9. Moves(m) BY <1>4, <1>5, <1>6, <1>7, <1>8 DEF Moves
<1> QED BY <1>9 DEF m, y

LEMMA TypedMoves ==
    ASSUME TypeOK, NEW m, Moves(m), UNCHANGED <<events, breaches>>,
           engineLock' \in {"enabled", "disabled"}, modemUp' \in BOOLEAN,
           modem' \in [ModemIds -> Fence \cup {NoFence}]
    PROVE  TypeOK'
<1>1. queue' \in Seq(Messages) /\ requests' \in Seq(Requests)
  BY HeadTailProperties, AppendProperties DEF Moves, TypeOK
<1> QED BY <1>1 DEF TypeOK, Moves, user, adapter

LEMMA LocApiCallKind ==
    ASSUME TypeOK, Shape(queue, requests, commands), LocApiCall
    PROVE  /\ TypeOK' /\ Moves([what |-> "answer", ok |-> TRUE, to |-> Head(requests)])
           /\ UNCHANGED engine /\ Head(requests).do = "call"
<1> DEFINE r == Head(requests)
<1>1. requests # <<>> /\ r.do = "call" /\ requests' = Tail(requests) /\ Reply(TRUE, r)
      /\ UNCHANGED <<world, user, events, breaches, adapter, engine>>
  BY DEF LocApiCall
<1>2. r \in Requests BY <1>1, HeadRequest
<1> HIDE DEF r
<1>3. [r EXCEPT !.hw = r.hw] = r /\ r.hw \in HwIds BY <1>2 DEF Requests
<1>4. Moves([what |-> "answer", ok |-> TRUE, to |-> [r EXCEPT !.hw = r.hw]])
  BY <1>1, <1>3, ReplyMoves DEF r
<1>5. Moves([what |-> "answer", ok |-> TRUE, to |-> r]) BY <1>3, <1>4
<1>6. TypeOK' BY <1>1, <1>5, TypedMoves DEF TypeOK, engine
<1> QED BY <1>1, <1>5, <1>6 DEF r

(* What the modem does and answers                                           *)
Performs(r, h) ==
    /\ Doable(r) /\ Done(r, h) /\ h \in ModemIds
    /\ IF r.do = "add" THEN modem[h] = NoFence ELSE h = r.hw /\ modem[h] # NoFence

LEMMA DoneTyped ==
    ASSUME TypeOK, NEW r \in Requests, r.session \in Sessions, r.do \in Kinds, NEW h, Performs(r, h)
    PROVE  /\ modem' \in [ModemIds -> Fence \cup {NoFence}]
           /\ \A g \in ModemIds : g # h => modem'[g] = modem[g]
           /\ r.do = "add" => modem'[h] # NoFence /\ modem'[h].session = r.session
           /\ r.do = "remove" => modem'[h] = NoFence
           /\ r.do \notin {"add", "remove"} =>
                 modem'[h] # NoFence /\ modem'[h].session = modem[h].session
<1>1. modem \in [ModemIds -> Fence \cup {NoFence}] /\ NoFence \notin Fence /\ h \in ModemIds
  BY GeofenceAssumption DEF TypeOK, Fence, Sessions, Performs
<1>2. CASE r.do = "add"
  <2> DEFINE f == [session |-> r.session, paused |-> FALSE]
  <2>1. f \in Fence /\ f.session = r.session BY DEF Fence
  <2>2. modem' = [modem EXCEPT ![h] = f] BY <1>2 DEF Performs, Done
  <2> HIDE DEF f
  <2> QED BY <1>1, <1>2, <2>1, <2>2
<1>3. CASE r.do = "remove"
  <2>1. modem' = [modem EXCEPT ![h] = NoFence] BY <1>3 DEF Performs, Done
  <2> QED BY <1>1, <1>3, <2>1
<1>4. ASSUME r.do = "pause" \/ r.do = "resume", NEW p \in BOOLEAN, modem' = [modem EXCEPT ![h].paused = p]
      PROVE  /\ modem' \in [ModemIds -> Fence \cup {NoFence}]
             /\ \A g \in ModemIds : g # h => modem'[g] = modem[g]
             /\ modem'[h] # NoFence /\ modem'[h].session = modem[h].session
  <2> DEFINE f == [modem[h] EXCEPT !.paused = p]
  <2>1. modem[h] \in Fence BY <1>1, <1>4 DEF Performs
  <2>2. f \in Fence /\ f.session = modem[h].session BY <2>1 DEF Fence
  <2>3. modem' = [modem EXCEPT ![h] = f] BY <1>4
  <2> HIDE DEF f
  <2> QED BY <1>1, <2>2, <2>3
<1>5. CASE r.do = "pause"
  <2>1. modem' = [modem EXCEPT ![h].paused = TRUE] BY <1>5 DEF Performs, Done
  <2> QED BY <1>4, <1>5, <2>1
<1>6. CASE r.do = "resume"
  <2>1. modem' = [modem EXCEPT ![h].paused = FALSE] BY <1>6 DEF Performs, Done
  <2> QED BY <1>4, <1>6, <2>1
<1>7. CASE r.do = "modify"
  <2>1. modem' = modem /\ modem[h] # NoFence BY <1>7 DEF Performs, Done
  <2> QED BY <1>1, <1>7, <2>1
<1> QED BY <1>2, <1>3, <1>5, <1>6, <1>7 DEF Kinds

LEMMA LocApiRequestKind ==
    ASSUME TypeOK, Shape(queue, requests, commands), LocApiRequest
    PROVE  LET r == Head(requests) IN
           /\ TypeOK' /\ UNCHANGED <<engineLock, modemUp>> /\ r \in Requests /\ r.session \in Sessions
           /\ r.do \in Kinds
           /\ \/ \E h \in ModemIds :
                     /\ Performs(r, h) /\ h \in HwIds
                     /\ Moves([what |-> "answer", ok |-> TRUE, to |-> [r EXCEPT !.hw = h]])
              \/ /\ ~Doable(r) \/ "refuses" \in world
                 /\ UNCHANGED modem
                 /\ Moves([what |-> "answer", ok |-> FALSE, to |-> r])
<1> DEFINE r == Head(requests)
           h == IF r.do = "add" THEN NextHwId ELSE r.hw
<1>1. requests # <<>> /\ r.do \notin {"call", "open"} /\ requests' = Tail(requests)
      /\ UNCHANGED <<world, user, events, breaches, adapter, engineLock, modemUp>>
      /\ \/ Doable(r) /\ Done(r, h) /\ Reply(TRUE, [r EXCEPT !.hw = h])
         \/ (~Doable(r) \/ "refuses" \in world) /\ UNCHANGED modem /\ Reply(FALSE, r)
  BY DEF LocApiRequest
<1>2. r \in Requests /\ RequestFits(r, commands) /\ r.session \in Sessions BY <1>1, HeadRequest
<1>3. r.do \in Kinds BY <1>1, <1>2 DEF Requests
<1> HIDE DEF r
<1>4. CASE Doable(r) /\ Done(r, h) /\ Reply(TRUE, [r EXCEPT !.hw = h])
  <2>1. h \in ModemIds /\ h \in HwIds /\ IF r.do = "add" THEN modem[h] = NoFence ELSE h = r.hw /\ modem[h] # NoFence
    <3>1. CASE r.do = "add" BY <1>4, <3>1, NextIsFree DEF Doable
    <3>2. CASE r.do # "add" BY <1>2, <1>4, <3>2 DEF Doable, Requests
    <3> QED BY <3>1, <3>2
  <2> HIDE DEF h
  <2>2. Performs(r, h) BY <1>4, <2>1 DEF Performs
  <2>3. Moves([what |-> "answer", ok |-> TRUE, to |-> [r EXCEPT !.hw = h]])
    BY <1>1, <1>4, <2>1, ReplyMoves DEF r
  <2>4. modem' \in [ModemIds -> Fence \cup {NoFence}] BY <1>2, <1>3, <2>2, DoneTyped
  <2>5. TypeOK' BY <1>1, <2>3, <2>4, TypedMoves DEF TypeOK
  <2> QED BY <1>1, <1>2, <1>3, <2>1, <2>2, <2>3, <2>5 DEF r
<1>5. CASE (~Doable(r) \/ "refuses" \in world) /\ UNCHANGED modem /\ Reply(FALSE, r)
  <2>1. [r EXCEPT !.hw = r.hw] = r /\ r.hw \in HwIds BY <1>2 DEF Requests
  <2>2. Moves([what |-> "answer", ok |-> FALSE, to |-> [r EXCEPT !.hw = r.hw]])
    BY <1>1, <1>5, <2>1, ReplyMoves DEF r
  <2>3. Moves([what |-> "answer", ok |-> FALSE, to |-> r]) BY <2>1, <2>2
  <2>4. TypeOK' BY <1>1, <1>5, <2>3, TypedMoves DEF TypeOK
  <2> QED BY <1>1, <1>2, <1>3, <1>5, <2>3, <2>4 DEF r
<1> QED BY <1>1, <1>4, <1>5

LEMMA EventTyped ==
    ASSUME NEW what \in {"up", "power", "breach", "destroy"}, NEW h \in HwIds,
           NEW s \in 0..MaxSessions, NEW flag \in BOOLEAN
    PROVE  Event(what, h, s, flag) \in Messages /\ Event(what, h, s, flag).what = what
BY DEF Event, Messages

LEMMA LocApiOpenKind ==
    ASSUME TypeOK, Shape(queue, requests, commands), LocApiOpen
    PROVE  /\ TypeOK' /\ Moves(Event("up", 0, 0, FALSE)) /\ Head(requests).do = "open"
           /\ UNCHANGED <<engineLock, modem>> /\ modemUp' = TRUE
<1> DEFINE r == Head(requests)
           m == Event("up", 0, 0, FALSE)
<1>1. requests # <<>> /\ r.do = "open" /\ requests' = Tail(requests) /\ queue' = Append(queue, m)
      /\ modemUp' = TRUE /\ UNCHANGED <<world, user, events, breaches, adapter, engineLock, modem>>
  BY DEF LocApiOpen
<1>2. r.n = 0 BY <1>1, HeadRequest DEF RequestFits
<1>3. m \in Messages /\ m.what = "up"
  <2>1. 0 \in HwIds /\ 0 \in 0..MaxSessions BY GeofenceAssumption DEF HwIds
  <2> QED BY <2>1, EventTyped
<1> HIDE DEF m
<1>4. MessageFits(m, commands) /\ OfMessage(m).n = 0 BY <1>3 DEF MessageFits, OfMessage
<1>5. OfRequest(r).n = 0 BY <1>2 DEF OfRequest
<1>6. Moves(m) BY <1>1, <1>3, <1>4, <1>5 DEF Moves
<1>7. TypeOK' BY <1>1, <1>6, TypedMoves DEF TypeOK
<1> QED BY <1>1, <1>6, <1>7 DEF m

-----------------------------------------------------------------------------
(* The environment and the end of the client                                 *)

LEMMA EventPosts ==
    ASSUME TypeOK, NEW m, m \in Messages, m.what \in {"up", "power", "breach", "destroy"},
           queue' = Append(queue, m), requestQueue' \in Seq(Entries),
           events' \in 0..MaxEvents, breaches' \in 0..MaxBreaches,
           UNCHANGED <<world, known, forward, backward, commands, adapter, requests, engine>>
    PROVE  TypeOK' /\ Posts(m)
<1>1. queue' \in Seq(Messages) BY AppendProperties DEF TypeOK
<1> QED BY <1>1 DEF TypeOK, Posts, adapter, engine, Entries

LEMMA destroyKind ==
    ASSUME TypeOK, destroy
    PROVE  /\ TypeOK' /\ Posts(Event("destroy", 0, 0, FALSE)) /\ requestQueue' = <<>>
           /\ UNCHANGED <<world, forward, commands, adapter, requests, engine>>
<1> DEFINE m == Event("destroy", 0, 0, FALSE)
<1>1. queue' = Append(queue, m) /\ requestQueue' = <<>>
      /\ UNCHANGED <<world, known, forward, backward, commands, events, breaches, adapter, requests, engine>>
  BY DEF destroy
<1>2. m \in Messages /\ m.what = "destroy"
  <2>1. 0 \in HwIds /\ 0 \in 0..MaxSessions BY GeofenceAssumption DEF HwIds
  <2> QED BY <2>1, EventTyped
<1> HIDE DEF m
<1>3. requestQueue' \in Seq(Entries) /\ events' \in 0..MaxEvents /\ breaches' \in 0..MaxBreaches
  BY <1>1 DEF TypeOK
<1>4. TypeOK' /\ Posts(m) BY <1>1, <1>2, <1>3, EventPosts
<1> QED BY <1>1, <1>4 DEF m

LEMMA PowerChangesKind ==
    ASSUME TypeOK, PowerChanges
    PROVE  /\ TypeOK' /\ \E m : Posts(m) /\ m.what = "power"
           /\ UNCHANGED <<world, user, adapter, requests, engine>>
<1>1. PICK resumed \in BOOLEAN : queue' = Append(queue, Event("power", 0, 0, resumed))
  BY DEF PowerChanges
<1>2. events < MaxEvents /\ events' = events + 1 /\ UNCHANGED <<world, user, breaches, adapter, requests, engine>>
  BY DEF PowerChanges, Happens
<1> DEFINE m == Event("power", 0, 0, resumed)
<1>3. m \in Messages /\ m.what = "power"
  <2>1. 0 \in HwIds /\ 0 \in 0..MaxSessions BY GeofenceAssumption DEF HwIds
  <2> QED BY <2>1, EventTyped
<1>4. queue' = Append(queue, m) BY <1>1
<1> HIDE DEF m
<1>5. requestQueue' \in Seq(Entries) /\ events' \in 0..MaxEvents /\ breaches' \in 0..MaxBreaches
  BY <1>2, TypedSame, GeofenceAssumption DEF TypeOK, user
<1>6. TypeOK' /\ Posts(m) BY <1>2, <1>3, <1>4, <1>5, EventPosts DEF user
<1> QED BY <1>2, <1>3, <1>6

LEMMA BreachKind ==
    ASSUME TypeOK, NEW h \in ModemIds, Breach(h)
    PROVE  /\ TypeOK' /\ \E m : Posts(m) /\ m.what = "breach"
           /\ UNCHANGED <<world, user, adapter, requests, engine>>
<1> DEFINE m == Event("breach", h, modem[h].session, FALSE)
<1>1. breaches < MaxBreaches /\ breaches' = breaches + 1 /\ modem[h] # NoFence
      /\ queue' = Append(queue, m) /\ UNCHANGED <<world, user, events, adapter, requests, engine>>
  BY DEF Breach
<1>2. m \in Messages /\ m.what = "breach"
  <2>1. h \in HwIds BY GeofenceAssumption DEF HwIds, ModemIds
  <2>2. modem[h] \in Fence BY <1>1 DEF TypeOK
  <2>3. modem[h].session \in 0..MaxSessions BY <2>2, GeofenceAssumption DEF Fence, Sessions
  <2> QED BY <2>1, <2>3, EventTyped
<1> HIDE DEF m
<1>3. requestQueue' \in Seq(Entries) /\ events' \in 0..MaxEvents /\ breaches' \in 0..MaxBreaches
  BY <1>1, TypedSame, GeofenceAssumption DEF TypeOK, user
<1>4. TypeOK' /\ Posts(m) BY <1>1, <1>2, <1>3, EventPosts DEF user
<1> QED BY <1>1, <1>2, <1>4

LEMMA CrashBase ==
    ASSUME Base, ModemCrashes
    PROVE  /\ Base'
           /\ \A n \in Nat \ {0} :
                 /\ Present(queue', requests', n) <=> Present(queue, requests, n)
                 /\ Borne(queue', requests', n) <=> Borne(queue, requests, n)
<1> DEFINE r == Ask("open", "nothing", 0, 0, 0, FALSE)
<1>1. /\ queue \in Seq(Messages) /\ requests \in Seq(Requests)
      /\ Shape(queue, requests, commands) /\ Sorted(queue, requests) /\ AnswerInv /\ TypeOK
  BY DEF Base, TypeOK
<1>2. /\ events < MaxEvents /\ events' = events + 1 /\ modemUp' = FALSE
      /\ modem' = [h \in ModemIds |-> NoFence] /\ requests' = Append(requests, r)
      /\ UNCHANGED <<world, user, breaches, queue, adapter, engineLock>>
  BY DEF ModemCrashes, Happens
<1>3. r \in Requests /\ r.n = 0 /\ r.do = "open" /\ r.then = "nothing"
  BY GeofenceAssumption DEF Ask, Requests, Then, HwIds
<1> HIDE DEF r
<1>4. RequestFits(r, commands) /\ OfRequest(r).n = 0 BY <1>3 DEF RequestFits, OfRequest, Kinds
<1>5. Shape(queue', requests', commands')
  <2>1. Shape(queue, Append(requests, r), commands) BY <1>1, <1>3, <1>4, ShapeAsked
  <2> QED BY <1>2, <2>1 DEF user
<1>6. /\ Sorted(queue', requests')
      /\ \A n \in Nat \ {0} : /\ Present(queue', requests', n) <=> Present(queue, requests, n)
                              /\ Borne(queue', requests', n) <=> Borne(queue, requests, n)
  BY <1>1, <1>2, <1>3, <1>4, AskSorted
<1>7. TypeOK'
  <2>1. requests' \in Seq(Requests) BY <1>1, <1>2, <1>3, AppendProperties
  <2>2. events' \in 0..MaxEvents BY <1>1, <1>2, GeofenceAssumption DEF TypeOK
  <2> QED BY <1>1, <1>2, <2>1, <2>2 DEF TypeOK, user, adapter
<1>8. AnswerInv' BY <1>1, <1>2, <1>6, AnswersStand DEF user, adapter
<1> QED BY <1>5, <1>6, <1>7, <1>8 DEF Base

LEMMA LockBase ==
    ASSUME Base, EngineLockChanges
    PROVE  Base'
<1>1. /\ events < MaxEvents /\ events' = events + 1 /\ engineLock' \in {"enabled", "disabled"}
      /\ UNCHANGED <<world, user, breaches, queue, adapter, requests, modemUp, modem>>
  BY DEF EngineLockChanges, Happens
<1>2. TypeOK /\ Shape(queue, requests, commands) /\ Sorted(queue, requests) /\ AnswerInv
  BY DEF Base
<1>3. TypeOK'
  <2>1. events' \in 0..MaxEvents BY <1>1, <1>2, GeofenceAssumption DEF TypeOK
  <2> QED BY <1>1, <1>2, <2>1 DEF TypeOK, user, adapter
<1>4. Shape(queue', requests', commands') /\ Sorted(queue', requests') BY <1>1, <1>2 DEF user
<1>5. AnswerInv' BY <1>1, <1>2, AnswersStand DEF user, adapter
<1> QED BY <1>3, <1>4, <1>5 DEF Base

LEMMA BaseStutters ==
    ASSUME Base, UNCHANGED vars
    PROVE  Base'
BY DEF Base, vars, user, adapter, engine, TypeOK, AnswerInv

LEMMA BaseInit ==
    ASSUME Init
    PROVE  Base
<1>1. /\ queue = <<>> /\ requests = <<>> /\ commands = <<>>
      /\ DOMAIN queue = {} /\ DOMAIN requests = {} /\ DOMAIN commands = {}
  BY DEF Init
<1>2. TypeOK BY GeofenceAssumption DEF Init, TypeOK, Fence, HwIds
<1>3. Shape(queue, requests, commands) /\ Sorted(queue, requests) /\ AnswerInv
  BY <1>1 DEF Shape, Sorted, AnswerInv
<1> QED BY <1>2, <1>3 DEF Base

LEMMA BaseStep ==
    ASSUME Base, IdsInv, [Next]_vars
    PROVE  Base'
<1>1. TypeOK /\ Shape(queue, requests, commands) /\ Sorted(queue, requests) /\ AnswerInv
  BY DEF Base
<1>2. CASE Framework
  <2>1. CASE destroy BY <1>1, <2>1, destroyKind, PostBase
  <2>2. CASE \E do, ids, sessions : Sends(do, ids, sessions) BY <1>1, <2>2, SendEffect
  <2> QED BY <1>1, <1>2, <2>1, <2>2, FrameworkKind
<1>3. CASE Adapter BY <1>3, TakesBase
<1>4. CASE LocApi
  <2>1. CASE LocApiCall BY <1>1, <2>1, LocApiCallKind, MoveBase
  <2>2. CASE LocApiRequest BY <1>1, <2>2, LocApiRequestKind, MoveBase
  <2>3. CASE LocApiOpen BY <1>1, <2>3, LocApiOpenKind, MoveBase
  <2> QED BY <1>4, <2>1, <2>2, <2>3 DEF LocApi
<1>5. CASE Environment
  <2>1. CASE PowerChanges BY <1>1, <2>1, PowerChangesKind, PostBase
  <2>2. CASE \E h \in ModemIds : Breach(h) BY <1>1, <2>2, BreachKind, PostBase
  <2> QED BY <1>5, <2>1, <2>2, CrashBase, LockBase DEF Environment
<1>6. CASE UNCHANGED vars BY <1>6, BaseStutters
<1> QED BY <1>2, <1>3, <1>4, <1>5, <1>6 DEF Next

-----------------------------------------------------------------------------
(* The sessions that are named along the way                                 *)

LEMMA ApartTaken ==
    ASSUME NEW Q, NEW R, NEW q \in Seq(Q), q # <<>>, NEW rs \in Seq(R), NEW out \in Seq(R),
           Apart(q, rs),
           \A k \in DOMAIN out : NamedByRequest(out[k]) \subseteq NamedBy(Head(q)),
           \A j, k \in DOMAIN out : j # k => NamedByRequest(out[j]) \cap NamedByRequest(out[k]) = {}
    PROVE  Apart(Tail(q), rs \o out)
<1> DEFINE p == Tail(q)
           o == rs \o out
           l == Len(rs)
           x == NamedBy(Head(q))
<1>1. /\ 1 \in DOMAIN q /\ x = NamedBy(q[1])
      /\ \A k \in DOMAIN p : k \in Int /\ k >= 1 /\ k + 1 \in DOMAIN q /\ p[k] = q[k + 1]
  BY HasTaken
<1>2. /\ l \in Int /\ \A k \in DOMAIN o : k \in Int
      /\ \A k \in DOMAIN o :
            \/ k \in DOMAIN rs /\ o[k] = rs[k]
            \/ k - l \in DOMAIN out /\ o[k] = out[k - l]
  BY HasJoined
<1>3. /\ \A k \in DOMAIN p : NamedBy(p[k]) \cap x = {}
      /\ \A k \in DOMAIN rs : NamedByRequest(rs[k]) \cap x = {}
      /\ \A j, k \in DOMAIN p : j # k => NamedBy(p[j]) \cap NamedBy(p[k]) = {}
      /\ \A j \in DOMAIN p, k \in DOMAIN rs : NamedBy(p[j]) \cap NamedByRequest(rs[k]) = {}
      /\ \A j, k \in DOMAIN rs : j # k => NamedByRequest(rs[j]) \cap NamedByRequest(rs[k]) = {}
  <2>1. \A k \in DOMAIN p : k + 1 # 1 BY <1>1
  <2>2. \A j, k \in DOMAIN p : j # k => j + 1 # k + 1 BY <1>1
  <2> HIDE DEF p, x
  <2>3. \A k \in DOMAIN p : NamedBy(p[k]) \cap x = {} BY <1>1, <2>1 DEF Apart
  <2>4. \A k \in DOMAIN rs : NamedByRequest(rs[k]) \cap x = {} BY <1>1 DEF Apart
  <2>5. \A j, k \in DOMAIN p : j # k => NamedBy(p[j]) \cap NamedBy(p[k]) = {}
    BY <1>1, <2>2 DEF Apart
  <2>6. \A j \in DOMAIN p, k \in DOMAIN rs : NamedBy(p[j]) \cap NamedByRequest(rs[k]) = {}
    BY <1>1 DEF Apart
  <2> QED BY <2>3, <2>4, <2>5, <2>6 DEF Apart
<1> HIDE DEF p, o, l
<1>4. \A k \in DOMAIN out : NamedByRequest(out[k]) \subseteq x  OBVIOUS
<1> HIDE DEF x
<1>5. \A j, k \in DOMAIN o : j # k => NamedByRequest(o[j]) \cap NamedByRequest(o[k]) = {}
  <2> SUFFICES ASSUME NEW j \in DOMAIN o, NEW k \in DOMAIN o, j # k
               PROVE  NamedByRequest(o[j]) \cap NamedByRequest(o[k]) = {}
    OBVIOUS
  <2>1. CASE j \in DOMAIN rs /\ o[j] = rs[j] /\ k \in DOMAIN rs /\ o[k] = rs[k] BY <1>3, <2>1
  <2>2. CASE j \in DOMAIN rs /\ o[j] = rs[j] /\ k - l \in DOMAIN out /\ o[k] = out[k - l]
    BY <1>3, <1>4, <2>2
  <2>3. CASE k \in DOMAIN rs /\ o[k] = rs[k] /\ j - l \in DOMAIN out /\ o[j] = out[j - l]
    BY <1>3, <1>4, <2>3
  <2>4. CASE j - l \in DOMAIN out /\ o[j] = out[j - l] /\ k - l \in DOMAIN out /\ o[k] = out[k - l]
    <3>1. j - l # k - l BY <1>2
    <3> QED BY <2>4, <3>1
  <2> QED BY <1>2, <2>1, <2>2, <2>3, <2>4
<1>6. \A j \in DOMAIN p, k \in DOMAIN o : NamedBy(p[j]) \cap NamedByRequest(o[k]) = {}
  <2> SUFFICES ASSUME NEW j \in DOMAIN p, NEW k \in DOMAIN o
               PROVE  NamedBy(p[j]) \cap NamedByRequest(o[k]) = {}
    OBVIOUS
  <2>1. CASE k \in DOMAIN rs /\ o[k] = rs[k] BY <1>3, <2>1
  <2>2. CASE k - l \in DOMAIN out /\ o[k] = out[k - l] BY <1>3, <1>4, <2>2
  <2> QED BY <1>2, <2>1, <2>2
<1> QED BY <1>3, <1>5, <1>6 DEF Apart, p, o

LEMMA ApartPosted ==
    ASSUME NEW Q, NEW q \in Seq(Q), NEW rs, NEW m \in Q, Apart(q, rs),
           \A k \in DOMAIN q : NamedBy(q[k]) \cap NamedBy(m) = {},
           \A k \in DOMAIN rs : NamedByRequest(rs[k]) \cap NamedBy(m) = {}
    PROVE  Apart(Append(q, m), rs)
<1> DEFINE p == Append(q, m)
           l == Len(q) + 1
<1>1. \A k \in DOMAIN p : \/ k \in DOMAIN q /\ p[k] = q[k]
                          \/ k = l /\ p[k] = m
  BY HasAppended
<1> HIDE DEF p, l
<1>2. \A j, k \in DOMAIN p : j # k => NamedBy(p[j]) \cap NamedBy(p[k]) = {} BY <1>1 DEF Apart
<1>3. \A j \in DOMAIN p, k \in DOMAIN rs : NamedBy(p[j]) \cap NamedByRequest(rs[k]) = {}
  BY <1>1 DEF Apart
<1> QED BY <1>2, <1>3 DEF Apart, p

LEMMA ApartMoved ==
    ASSUME NEW Q, NEW R, NEW q \in Seq(Q), NEW rs \in Seq(R), rs # <<>>, NEW m \in Q, Apart(q, rs),
           NamedBy(m) \subseteq NamedByRequest(Head(rs))
    PROVE  /\ Apart(Append(q, m), Tail(rs))
           /\ \A k \in DOMAIN q : NamedBy(q[k]) \cap NamedByRequest(Head(rs)) = {}
           /\ \A k \in DOMAIN Tail(rs) : NamedByRequest(Tail(rs)[k]) \cap NamedByRequest(Head(rs)) = {}
<1> DEFINE o == Tail(rs)
           x == NamedByRequest(Head(rs))
<1>1. /\ 1 \in DOMAIN rs /\ x = NamedByRequest(rs[1])
      /\ \A k \in DOMAIN o : k \in Int /\ k >= 1 /\ k + 1 \in DOMAIN rs /\ o[k] = rs[k + 1]
  BY HasTaken
<1>2. /\ \A k \in DOMAIN o : k + 1 # 1
      /\ \A j, k \in DOMAIN o : j # k => j + 1 # k + 1
  BY <1>1
<1> HIDE DEF o, x
<1>3. \A k \in DOMAIN q : NamedBy(q[k]) \cap x = {} BY <1>1 DEF Apart
<1>4. \A k \in DOMAIN o : NamedByRequest(o[k]) \cap x = {} BY <1>1, <1>2 DEF Apart
<1>5. \A j, k \in DOMAIN o : j # k => NamedByRequest(o[j]) \cap NamedByRequest(o[k]) = {}
  BY <1>1, <1>2 DEF Apart
<1>6. Apart(q, o)
  <2>1. \A j \in DOMAIN q, k \in DOMAIN o : NamedBy(q[j]) \cap NamedByRequest(o[k]) = {}
    BY <1>1 DEF Apart
  <2> QED BY <1>5, <2>1 DEF Apart
<1>7. NamedBy(m) \subseteq x BY DEF x
<1>8. Apart(Append(q, m), o) BY <1>3, <1>4, <1>6, <1>7, ApartPosted
<1> QED BY <1>3, <1>4, <1>8 DEF o, x

(* What is about other sessions than s finds what it found, when only s has  *)
(* changed.                                                                  *)
SameBut(s, hs, mo, hs2, mo2) ==
    \A t \in Sessions \ {s} :
        hs2[t] = hs[t] /\ \A h \in ModemIds : Runs(mo2, t, h) <=> Runs(mo, t, h)

LEMMA RequestStillFinds ==
    ASSUME NEW r, NEW s, NEW hs, NEW mo, NEW hs2, NEW mo2, SameBut(s, hs, mo, hs2, mo2),
           s \notin NamedByRequest(r), r.n = 0 \/ r.session \in Sessions, RequestFinds(r, hs, mo)
    PROVE  RequestFinds(r, hs2, mo2)
<1>1. CASE r.n = 0 BY <1>1 DEF RequestFinds
<1>2. CASE r.n # 0
  <2>1. r.session \in Sessions \ {s} BY <1>2 DEF NamedByRequest
  <2> QED BY <1>2, <2>1 DEF RequestFinds, SameBut, Nowhere
<1> QED BY <1>1, <1>2

LEMMA MessageStillFinds ==
    ASSUME NEW cs, NEW m, MessageFits(m, cs), NEW s, NEW hs, NEW mo, NEW hs2, NEW mo2,
           SameBut(s, hs, mo, hs2, mo2), s \notin NamedBy(m), MessageFinds(m, hs, mo)
    PROVE  MessageFinds(m, hs2, mo2)
<1>1. CASE m.what = "command"
  <2>1. m.ids \in Seq(Sessions) BY <1>1 DEF MessageFits, Messages
  <2>2. Range(m.ids) \subseteq Sessions \ {s}
    <3>1. \A t \in Range(m.ids) : t \in Sessions BY <2>1, ElementOfSeq, LenProperties DEF Range
    <3> QED BY <1>1, <3>1 DEF NamedBy
  <2> QED BY <1>1, <2>2 DEF MessageFinds, SameBut, Nowhere
<1>2. CASE m.what = "answer"
  <2> DEFINE r == m.to
  <2>1. RequestFits(r, cs) /\ r.do # "open" BY <1>2 DEF MessageFits
  <2>2. r.session \in Sessions BY <2>1 DEF RequestFits
  <2>3. NamedBy(m) = NamedByRequest(r) BY <1>2 DEF NamedBy, NamedByRequest
  <2>4. ~Adding(m) => RequestFinds(r, hs2, mo2)
    <3> HIDE DEF r
    <3> QED BY <1>2, <2>2, <2>3, RequestStillFinds DEF MessageFinds, r
  <2> QED BY <1>2, <2>4 DEF MessageFinds
<1>3. CASE m.what \notin {"command", "answer"} BY <1>3 DEF MessageFinds
<1> QED BY <1>1, <1>2, <1>3

(* The same sessions in the adapter's fences                                 *)
SameFences(fs, fs2) ==
    \A h \in HwIds : /\ fs2[h] # NoFence <=> fs[h] # NoFence
                     /\ fs[h] # NoFence => fs2[h].session = fs[h].session

(* A message that neither adds nor removes is taken.                         *)
LEMMA MapsTaken ==
    ASSUME NEW q \in Seq(Messages), q # <<>>, ~Removing(Head(q)), ~Adding(Head(q)),
           NEW hs, NEW fs, NEW fs2, NEW mo, NEW cs, MapsAgree(q, hs, fs, mo, cs), SameFences(fs, fs2)
    PROVE  MapsAgree(Tail(q), hs, fs2, mo, cs)
<1> DEFINE p == Tail(q)
<1>1. /\ 1 \in DOMAIN q /\ Head(q) = q[1]
      /\ \A k \in DOMAIN p : k \in Int /\ k >= 1 /\ k + 1 \in DOMAIN q /\ p[k] = q[k + 1]
      /\ \A k \in DOMAIN q : k = 1 \/ (k - 1 \in DOMAIN p /\ q[k] = p[k - 1])
  BY HasTaken
<1> HIDE DEF p
<1>2. ASSUME NEW s \in Sessions, hs[s] # NoHw
      PROVE  /\ hs[s] \in ModemIds
             /\ fs2[hs[s]] # NoFence /\ fs2[hs[s]].session = s
             /\ \/ Runs(mo, s, hs[s])
                \/ \E k \in DOMAIN p : Removing(p[k]) /\ p[k].to.session = s /\ p[k].to.hw = hs[s]
             /\ s \in Used(cs)
  <2>1. /\ hs[s] \in ModemIds
        /\ fs[hs[s]] # NoFence /\ fs[hs[s]].session = s
        /\ \/ Runs(mo, s, hs[s])
           \/ \E k \in DOMAIN q : Removing(q[k]) /\ q[k].to.session = s /\ q[k].to.hw = hs[s]
        /\ s \in Used(cs)
    BY <1>2 DEF MapsAgree
  <2>2. hs[s] \in HwIds BY <2>1, GeofenceAssumption DEF ModemIds, HwIds
  <2>3. fs2[hs[s]] # NoFence /\ fs2[hs[s]].session = s BY <2>1, <2>2 DEF SameFences
  <2>4. (\E k \in DOMAIN q : Removing(q[k]) /\ q[k].to.session = s /\ q[k].to.hw = hs[s])
           => \E k \in DOMAIN p : Removing(p[k]) /\ p[k].to.session = s /\ p[k].to.hw = hs[s]
    BY <1>1
  <2> QED BY <2>1, <2>3, <2>4
<1>3. \A h \in ModemIds : mo[h] # NoFence =>
         mo[h].session \in Used(cs) /\ \A g \in ModemIds : Runs(mo, mo[h].session, g) => g = h
  BY DEF MapsAgree
<1>4. \A k \in DOMAIN p : Adding(p[k]) =>
         /\ p[k].to.hw \in ModemIds /\ Runs(mo, p[k].to.session, p[k].to.hw)
         /\ hs[p[k].to.session] = NoHw
  BY <1>1 DEF MapsAgree
<1>5. \A j, k \in DOMAIN p :
         Removing(p[j]) /\ Adding(p[k]) /\ p[j].to.hw = p[k].to.hw => j < k
  <2> TAKE j, k \in DOMAIN p
  <2>1. Removing(p[j]) /\ Adding(p[k]) /\ p[j].to.hw = p[k].to.hw => j + 1 < k + 1
    BY <1>1 DEF MapsAgree
  <2>2. j + 1 < k + 1 => j < k BY <1>1
  <2> QED BY <2>1, <2>2
<1> QED BY <1>2, <1>3, <1>4, <1>5 DEF MapsAgree, p

(* The answer to an addition is taken.                                       *)
LEMMA MapsAdded ==
    ASSUME NEW q \in Seq(Messages), q # <<>>, Adding(Head(q)),
           NEW hs \in [Sessions -> HwIds \cup {NoHw}], NEW fs \in [HwIds -> Fence \cup {NoFence}],
           NEW mo, NEW cs,
           MapsAgree(q, hs, fs, mo, cs),
           NEW s \in Sessions, s = Head(q).to.session, NEW h \in ModemIds, h = Head(q).to.hw,
           \A k \in DOMAIN Tail(q) : s \notin NamedBy(Tail(q)[k])
    PROVE  LET hs2 == [hs EXCEPT ![s] = h]
               fs2 == [fs EXCEPT ![h] = [session |-> s, paused |-> FALSE]]
           IN  MapsAgree(Tail(q), hs2, fs2, mo, cs)
<1> DEFINE p == Tail(q)
           f == [session |-> s, paused |-> FALSE]
           hs2 == [hs EXCEPT ![s] = h]
           fs2 == [fs EXCEPT ![h] = f]
<1>1. /\ 1 \in DOMAIN q /\ Head(q) = q[1]
      /\ \A k \in DOMAIN p : k \in Int /\ k >= 1 /\ k + 1 \in DOMAIN q /\ p[k] = q[k + 1]
      /\ \A k \in DOMAIN q : k \in Int /\ (k = 1 \/ (k - 1 \in DOMAIN p /\ q[k] = p[k - 1]))
      /\ \A k \in DOMAIN q : ~(k < 1)
  BY HasTaken
<1>2. f # NoFence /\ f.session = s /\ h \in HwIds
  <2>1. s \in Nat BY GeofenceAssumption DEF Sessions
  <2>2. f \in [session : Nat, paused : BOOLEAN] /\ f.session = s BY <2>1
  <2>3. h \in HwIds BY GeofenceAssumption DEF ModemIds, HwIds
  <2> QED BY <2>2, <2>3, GeofenceAssumption
<1> HIDE DEF p, f
<1>3. \A t \in Sessions : hs2[t] = IF t = s THEN h ELSE hs[t]  OBVIOUS
<1>4. \A g \in HwIds : fs2[g] = IF g = h THEN f ELSE fs[g]  OBVIOUS
<1> HIDE DEF hs2, fs2
<1>5. Runs(mo, s, h) /\ s \in Used(cs) /\ hs[s] = NoHw BY <1>1 DEF MapsAgree, Runs
<1>6. \A h2 \in ModemIds : mo[h2] # NoFence =>
         mo[h2].session \in Used(cs) /\ \A g \in ModemIds : Runs(mo, mo[h2].session, g) => g = h2
  BY DEF MapsAgree
<1>7. \A k \in DOMAIN p : Removing(p[k]) \/ Adding(p[k]) => p[k].to.session # s
  BY DEF p, Removing, Adding, NamedBy
<1>8. ASSUME NEW t \in Sessions, hs2[t] # NoHw
      PROVE  /\ hs2[t] \in ModemIds
             /\ fs2[hs2[t]] # NoFence /\ fs2[hs2[t]].session = t
             /\ \/ Runs(mo, t, hs2[t])
                \/ \E k \in DOMAIN p : Removing(p[k]) /\ p[k].to.session = t /\ p[k].to.hw = hs2[t]
             /\ t \in Used(cs)
  <2>1. CASE t = s BY <1>2, <1>3, <1>4, <1>5, <2>1
  <2>2. CASE t # s
    <3>1. hs2[t] = hs[t] /\ hs[t] # NoHw BY <1>3, <1>8, <2>2
    <3>2. /\ hs[t] \in ModemIds
          /\ fs[hs[t]] # NoFence /\ fs[hs[t]].session = t
          /\ \/ Runs(mo, t, hs[t])
             \/ \E k \in DOMAIN q : Removing(q[k]) /\ q[k].to.session = t /\ q[k].to.hw = hs[t]
          /\ t \in Used(cs)
      BY <3>1 DEF MapsAgree
    <3>3. hs[t] # h
      <4>1. ASSUME hs[t] = h PROVE FALSE
        <5>1. ~Runs(mo, t, h) BY <1>5, <2>2 DEF Runs
        <5>2. PICK k \in DOMAIN q : Removing(q[k]) /\ q[k].to.hw = h BY <3>2, <4>1, <5>1
        <5>3. k < 1 BY <1>1, <5>2 DEF MapsAgree
        <5> QED BY <1>1, <5>3
      <4> QED BY <4>1
    <3>4. hs[t] \in HwIds BY <3>2, GeofenceAssumption DEF ModemIds, HwIds
    <3>5. (\E k \in DOMAIN q : Removing(q[k]) /\ q[k].to.session = t /\ q[k].to.hw = hs[t])
             => \E k \in DOMAIN p : Removing(p[k]) /\ p[k].to.session = t /\ p[k].to.hw = hs[t]
      BY <1>1 DEF Removing, Adding
    <3> QED BY <1>4, <3>1, <3>2, <3>3, <3>4, <3>5
  <2> QED BY <2>1, <2>2
<1>9. \A k \in DOMAIN p : Adding(p[k]) =>
         /\ p[k].to.hw \in ModemIds /\ Runs(mo, p[k].to.session, p[k].to.hw)
         /\ hs2[p[k].to.session] = NoHw
  <2> SUFFICES ASSUME NEW k \in DOMAIN p, Adding(p[k])
               PROVE  /\ p[k].to.hw \in ModemIds /\ Runs(mo, p[k].to.session, p[k].to.hw)
                      /\ hs2[p[k].to.session] = NoHw
    OBVIOUS
  <2>1. /\ p[k].to.hw \in ModemIds /\ Runs(mo, p[k].to.session, p[k].to.hw)
        /\ hs[p[k].to.session] = NoHw
    BY <1>1 DEF MapsAgree
  <2>2. p[k].to.session # s BY <1>7
  <2>3. DOMAIN hs2 = DOMAIN hs /\ \A t : t # s => hs2[t] = hs[t] BY DEF hs2
  <2> QED BY <2>1, <2>2, <2>3
<1>10. \A j, k \in DOMAIN p :
         Removing(p[j]) /\ Adding(p[k]) /\ p[j].to.hw = p[k].to.hw => j < k
  <2> TAKE j, k \in DOMAIN p
  <2>1. Removing(p[j]) /\ Adding(p[k]) /\ p[j].to.hw = p[k].to.hw => j + 1 < k + 1
    BY <1>1 DEF MapsAgree
  <2>2. j + 1 < k + 1 => j < k BY <1>1
  <2> QED BY <2>1, <2>2
<1> QED BY <1>6, <1>8, <1>9, <1>10 DEF MapsAgree, p, hs2, fs2, f

(* The answer to a removal is taken.                                         *)
LEMMA MapsRemoved ==
    ASSUME NEW q \in Seq(Messages), q # <<>>, Removing(Head(q)),
           NEW hs \in [Sessions -> HwIds \cup {NoHw}], NEW fs \in [HwIds -> Fence \cup {NoFence}],
           NEW mo, NEW cs,
           MapsAgree(q, hs, fs, mo, cs),
           NEW s \in Sessions, s = Head(q).to.session, NEW h \in HwIds, hs[s] = h, fs[h].session = s,
           \A k \in DOMAIN Tail(q) : s \notin NamedBy(Tail(q)[k])
    PROVE  MapsAgree(Tail(q), [hs EXCEPT ![s] = NoHw], [fs EXCEPT ![h] = NoFence], mo, cs)
<1> DEFINE p == Tail(q)
           hs2 == [hs EXCEPT ![s] = NoHw]
           fs2 == [fs EXCEPT ![h] = NoFence]
<1>1. /\ 1 \in DOMAIN q /\ Head(q) = q[1]
      /\ \A k \in DOMAIN p : k \in Int /\ k >= 1 /\ k + 1 \in DOMAIN q /\ p[k] = q[k + 1]
      /\ \A k \in DOMAIN q : k \in Int /\ (k = 1 \/ (k - 1 \in DOMAIN p /\ q[k] = p[k - 1]))
  BY HasTaken
<1> HIDE DEF p
<1>3. \A t \in Sessions : hs2[t] = IF t = s THEN NoHw ELSE hs[t]  OBVIOUS
<1>4. \A g \in HwIds : fs2[g] = IF g = h THEN NoFence ELSE fs[g]  OBVIOUS
<1>5. \A t : t # s => hs2[t] = hs[t]  OBVIOUS
<1> HIDE DEF hs2, fs2
<1>6. \A h2 \in ModemIds : mo[h2] # NoFence =>
         mo[h2].session \in Used(cs) /\ \A g \in ModemIds : Runs(mo, mo[h2].session, g) => g = h2
  BY DEF MapsAgree
<1>7. \A k \in DOMAIN p : Removing(p[k]) \/ Adding(p[k]) => p[k].to.session # s
  BY DEF p, Removing, Adding, NamedBy
<1>8. ASSUME NEW t \in Sessions, hs2[t] # NoHw
      PROVE  /\ hs2[t] \in ModemIds
             /\ fs2[hs2[t]] # NoFence /\ fs2[hs2[t]].session = t
             /\ \/ Runs(mo, t, hs2[t])
                \/ \E k \in DOMAIN p : Removing(p[k]) /\ p[k].to.session = t /\ p[k].to.hw = hs2[t]
             /\ t \in Used(cs)
  <2>1. t # s /\ hs2[t] = hs[t] /\ hs[t] # NoHw BY <1>3, <1>8
  <2>2. /\ hs[t] \in ModemIds
        /\ fs[hs[t]] # NoFence /\ fs[hs[t]].session = t
        /\ \/ Runs(mo, t, hs[t])
           \/ \E k \in DOMAIN q : Removing(q[k]) /\ q[k].to.session = t /\ q[k].to.hw = hs[t]
        /\ t \in Used(cs)
    BY <2>1 DEF MapsAgree
  <2>3. hs[t] # h /\ hs[t] \in HwIds BY <2>1, <2>2, GeofenceAssumption DEF ModemIds, HwIds
  <2>4. (\E k \in DOMAIN q : Removing(q[k]) /\ q[k].to.session = t /\ q[k].to.hw = hs[t])
           => \E k \in DOMAIN p : Removing(p[k]) /\ p[k].to.session = t /\ p[k].to.hw = hs[t]
    BY <1>1, <2>1
  <2> QED BY <1>4, <2>1, <2>2, <2>3, <2>4
<1>9. \A k \in DOMAIN p : Adding(p[k]) =>
         /\ p[k].to.hw \in ModemIds /\ Runs(mo, p[k].to.session, p[k].to.hw)
         /\ hs2[p[k].to.session] = NoHw
  <2> SUFFICES ASSUME NEW k \in DOMAIN p, Adding(p[k])
               PROVE  /\ p[k].to.hw \in ModemIds /\ Runs(mo, p[k].to.session, p[k].to.hw)
                      /\ hs2[p[k].to.session] = NoHw
    OBVIOUS
  <2>1. /\ p[k].to.hw \in ModemIds /\ Runs(mo, p[k].to.session, p[k].to.hw)
        /\ hs[p[k].to.session] = NoHw
    BY <1>1 DEF MapsAgree
  <2> QED BY <1>5, <1>7, <2>1
<1>10. \A j, k \in DOMAIN p :
         Removing(p[j]) /\ Adding(p[k]) /\ p[j].to.hw = p[k].to.hw => j < k
  <2> TAKE j, k \in DOMAIN p
  <2>1. Removing(p[j]) /\ Adding(p[k]) /\ p[j].to.hw = p[k].to.hw => j + 1 < k + 1
    BY <1>1 DEF MapsAgree
  <2>2. j + 1 < k + 1 => j < k BY <1>1
  <2> QED BY <2>1, <2>2
<1> QED BY <1>6, <1>8, <1>9, <1>10 DEF MapsAgree, p, hs2, fs2

(* The modem keeps its geofences, whatever else comes.                       *)
SameModem(mo, mo2) ==
    \A h \in ModemIds : /\ mo2[h] # NoFence <=> mo[h] # NoFence
                        /\ mo[h] # NoFence => mo2[h].session = mo[h].session

LEMMA MapsPosted ==
    ASSUME NEW q \in Seq(Messages), NEW m \in Messages, ~Removing(m), ~Adding(m),
           NEW hs, NEW fs, NEW mo, NEW mo2, NEW cs, NEW cs2,
           MapsAgree(q, hs, fs, mo, cs), SameModem(mo, mo2), Used(cs) \subseteq Used(cs2)
    PROVE  MapsAgree(Append(q, m), hs, fs, mo2, cs2)
<1> DEFINE p == Append(q, m)
           l == Len(q) + 1
<1>1. /\ \A k \in DOMAIN p : \/ k \in DOMAIN q /\ p[k] = q[k]
                             \/ k = l /\ p[k] = m
      /\ \A k \in DOMAIN q : k \in DOMAIN p /\ p[k] = q[k]
  BY HasAppended
<1> HIDE DEF p, l
<1>2. \A h \in ModemIds : \A s : Runs(mo2, s, h) <=> Runs(mo, s, h) BY DEF Runs, SameModem
<1>3. \A s \in Sessions : hs[s] # NoHw =>
          /\ hs[s] \in ModemIds
          /\ fs[hs[s]] # NoFence /\ fs[hs[s]].session = s
          /\ \/ Runs(mo2, s, hs[s])
             \/ \E k \in DOMAIN p : Removing(p[k]) /\ p[k].to.session = s /\ p[k].to.hw = hs[s]
          /\ s \in Used(cs2)
  <2> SUFFICES ASSUME NEW s \in Sessions, hs[s] # NoHw
               PROVE  /\ hs[s] \in ModemIds
                      /\ fs[hs[s]] # NoFence /\ fs[hs[s]].session = s
                      /\ \/ Runs(mo2, s, hs[s])
                         \/ \E k \in DOMAIN p : Removing(p[k]) /\ p[k].to.session = s /\ p[k].to.hw = hs[s]
                      /\ s \in Used(cs2)
    OBVIOUS
  <2>1. /\ hs[s] \in ModemIds
        /\ fs[hs[s]] # NoFence /\ fs[hs[s]].session = s
        /\ \/ Runs(mo, s, hs[s])
           \/ \E k \in DOMAIN q : Removing(q[k]) /\ q[k].to.session = s /\ q[k].to.hw = hs[s]
        /\ s \in Used(cs)
    BY DEF MapsAgree
  <2> QED BY <1>1, <1>2, <2>1
<1>4. \A h \in ModemIds : mo2[h] # NoFence =>
          mo2[h].session \in Used(cs2) /\ \A g \in ModemIds : Runs(mo2, mo2[h].session, g) => g = h
  BY <1>2 DEF MapsAgree, SameModem
<1>5. \A k \in DOMAIN p : Adding(p[k]) =>
          /\ p[k].to.hw \in ModemIds /\ Runs(mo2, p[k].to.session, p[k].to.hw)
          /\ hs[p[k].to.session] = NoHw
  BY <1>1, <1>2 DEF MapsAgree
<1>6. \A j, k \in DOMAIN p : Removing(p[j]) /\ Adding(p[k]) /\ p[j].to.hw = p[k].to.hw => j < k
  BY <1>1 DEF MapsAgree
<1> QED BY <1>3, <1>4, <1>5, <1>6 DEF MapsAgree, p

(* The modem has added a geofence.                                           *)
LEMMA MapsAddition ==
    ASSUME NEW q \in Seq(Messages), NEW m \in Messages, Adding(m),
           NEW hs, NEW fs, NEW mo, NEW mo2, NEW cs, MapsAgree(q, hs, fs, mo, cs),
           NEW s \in Sessions, s = m.to.session, NEW h \in ModemIds, h = m.to.hw,
           Nowhere(hs, mo, s), s \in Used(cs), mo[h] = NoFence,
           mo2[h] # NoFence, mo2[h].session = s, \A g \in ModemIds : g # h => mo2[g] = mo[g]
    PROVE  MapsAgree(Append(q, m), hs, fs, mo2, cs)
<1> DEFINE p == Append(q, m)
           l == Len(q) + 1
<1>1. /\ \A k \in DOMAIN p : \/ k \in DOMAIN q /\ p[k] = q[k] /\ k \in Int /\ k < l
                             \/ k = l /\ p[k] = m
      /\ \A k \in DOMAIN q : k \in DOMAIN p /\ p[k] = q[k]
  BY HasAppended
<1> HIDE DEF p, l
<1>2. /\ \A g \in ModemIds : \A t : g # h => (Runs(mo2, t, g) <=> Runs(mo, t, g))
      /\ \A t : Runs(mo2, t, h) <=> t = s
      /\ \A t : ~Runs(mo, t, h)
  BY DEF Runs
<1>3. hs[s] = NoHw /\ \A g \in ModemIds : ~Runs(mo, s, g) BY DEF Nowhere
<1>4. ~Removing(m) BY DEF Removing, Adding
<1>5. \A t \in Sessions : hs[t] # NoHw =>
          /\ hs[t] \in ModemIds
          /\ fs[hs[t]] # NoFence /\ fs[hs[t]].session = t
          /\ \/ Runs(mo2, t, hs[t])
             \/ \E k \in DOMAIN p : Removing(p[k]) /\ p[k].to.session = t /\ p[k].to.hw = hs[t]
          /\ t \in Used(cs)
  <2> SUFFICES ASSUME NEW t \in Sessions, hs[t] # NoHw
               PROVE  /\ hs[t] \in ModemIds
                      /\ fs[hs[t]] # NoFence /\ fs[hs[t]].session = t
                      /\ \/ Runs(mo2, t, hs[t])
                         \/ \E k \in DOMAIN p : Removing(p[k]) /\ p[k].to.session = t /\ p[k].to.hw = hs[t]
                      /\ t \in Used(cs)
    OBVIOUS
  <2>1. /\ hs[t] \in ModemIds
        /\ fs[hs[t]] # NoFence /\ fs[hs[t]].session = t
        /\ \/ Runs(mo, t, hs[t])
           \/ \E k \in DOMAIN q : Removing(q[k]) /\ q[k].to.session = t /\ q[k].to.hw = hs[t]
        /\ t \in Used(cs)
    BY DEF MapsAgree
  <2> QED BY <1>1, <1>2, <2>1
<1>6. \A g \in ModemIds : mo2[g] # NoFence =>
          mo2[g].session \in Used(cs) /\ \A g2 \in ModemIds : Runs(mo2, mo2[g].session, g2) => g2 = g
  <2> SUFFICES ASSUME NEW g \in ModemIds, mo2[g] # NoFence
               PROVE  mo2[g].session \in Used(cs)
                      /\ \A g2 \in ModemIds : Runs(mo2, mo2[g].session, g2) => g2 = g
    OBVIOUS
  <2>1. CASE g = h BY <1>2, <1>3, <2>1
  <2>2. CASE g # h
    <3>1. mo2[g] = mo[g] /\ Runs(mo, mo[g].session, g) BY <2>2 DEF Runs
    <3>2. mo[g].session # s BY <1>3, <3>1
    <3>3. mo[g].session \in Used(cs) /\ \A g2 \in ModemIds : Runs(mo, mo[g].session, g2) => g2 = g
      BY <3>1 DEF MapsAgree
    <3> QED BY <1>2, <3>1, <3>2, <3>3
  <2> QED BY <2>1, <2>2
<1>7. \A k \in DOMAIN p : Adding(p[k]) =>
          /\ p[k].to.hw \in ModemIds /\ Runs(mo2, p[k].to.session, p[k].to.hw)
          /\ hs[p[k].to.session] = NoHw
  <2> SUFFICES ASSUME NEW k \in DOMAIN p, Adding(p[k])
               PROVE  /\ p[k].to.hw \in ModemIds /\ Runs(mo2, p[k].to.session, p[k].to.hw)
                      /\ hs[p[k].to.session] = NoHw
    OBVIOUS
  <2>1. CASE k \in DOMAIN q /\ p[k] = q[k]
    <3>1. /\ q[k].to.hw \in ModemIds /\ Runs(mo, q[k].to.session, q[k].to.hw)
          /\ hs[q[k].to.session] = NoHw
      BY <2>1 DEF MapsAgree
    <3> QED BY <1>2, <2>1, <3>1
  <2>2. CASE p[k] = m BY <1>2, <1>3, <2>2
  <2> QED BY <1>1, <2>1, <2>2
<1>8. \A j, k \in DOMAIN p : Removing(p[j]) /\ Adding(p[k]) /\ p[j].to.hw = p[k].to.hw => j < k
  BY <1>1, <1>4 DEF MapsAgree
<1> QED BY <1>5, <1>6, <1>7, <1>8 DEF MapsAgree, p

(* The modem has removed a geofence.                                         *)
LEMMA MapsRemoval ==
    ASSUME NEW q \in Seq(Messages), NEW m \in Messages, Removing(m),
           NEW hs, NEW fs, NEW mo, NEW mo2, NEW cs, MapsAgree(q, hs, fs, mo, cs),
           NEW s \in Sessions, s = m.to.session, NEW h \in ModemIds, h = m.to.hw, hs[s] = h,
           Runs(mo, s, h), mo2[h] = NoFence, \A g \in ModemIds : g # h => mo2[g] = mo[g],
           \A k \in DOMAIN q : s \notin NamedBy(q[k])
    PROVE  MapsAgree(Append(q, m), hs, fs, mo2, cs)
<1> DEFINE p == Append(q, m)
           l == Len(q) + 1
<1>1. /\ \A k \in DOMAIN p : \/ k \in DOMAIN q /\ p[k] = q[k]
                             \/ k = l /\ p[k] = m
      /\ \A k \in DOMAIN q : k \in DOMAIN p /\ p[k] = q[k]
      /\ l \in DOMAIN p /\ p[l] = m
  <2>1. Len(q) + 1 \in 1..(Len(q) + 1) BY LenProperties
  <2> QED BY <2>1, HasAppended
<1> HIDE DEF p, l
<1>2. /\ \A g \in ModemIds : \A t : g # h => (Runs(mo2, t, g) <=> Runs(mo, t, g))
      /\ \A t : ~Runs(mo2, t, h)
      /\ \A t : Runs(mo, t, h) => t = s
  BY DEF Runs
<1>3. ~Adding(m) BY DEF Removing, Adding
<1>4. \A k \in DOMAIN q : Adding(q[k]) => q[k].to.session # s BY DEF Adding, NamedBy
<1>5. \A k \in DOMAIN q : Adding(q[k]) =>
          /\ q[k].to.hw \in ModemIds /\ Runs(mo, q[k].to.session, q[k].to.hw)
          /\ hs[q[k].to.session] = NoHw /\ q[k].to.hw # h
  BY <1>2, <1>4 DEF MapsAgree
<1>6. \A t \in Sessions : hs[t] # NoHw =>
          /\ hs[t] \in ModemIds
          /\ fs[hs[t]] # NoFence /\ fs[hs[t]].session = t
          /\ \/ Runs(mo2, t, hs[t])
             \/ \E k \in DOMAIN p : Removing(p[k]) /\ p[k].to.session = t /\ p[k].to.hw = hs[t]
          /\ t \in Used(cs)
  <2> SUFFICES ASSUME NEW t \in Sessions, hs[t] # NoHw
               PROVE  /\ hs[t] \in ModemIds
                      /\ fs[hs[t]] # NoFence /\ fs[hs[t]].session = t
                      /\ \/ Runs(mo2, t, hs[t])
                         \/ \E k \in DOMAIN p : Removing(p[k]) /\ p[k].to.session = t /\ p[k].to.hw = hs[t]
                      /\ t \in Used(cs)
    OBVIOUS
  <2>1. /\ hs[t] \in ModemIds
        /\ fs[hs[t]] # NoFence /\ fs[hs[t]].session = t
        /\ \/ Runs(mo, t, hs[t])
           \/ \E k \in DOMAIN q : Removing(q[k]) /\ q[k].to.session = t /\ q[k].to.hw = hs[t]
        /\ t \in Used(cs)
    BY DEF MapsAgree
  <2>2. CASE t = s BY <1>1, <2>1, <2>2
  <2>3. CASE t # s BY <1>1, <1>2, <2>1, <2>3
  <2> QED BY <2>2, <2>3
<1>7. \A g \in ModemIds : mo2[g] # NoFence =>
          mo2[g].session \in Used(cs) /\ \A g2 \in ModemIds : Runs(mo2, mo2[g].session, g2) => g2 = g
  <2> SUFFICES ASSUME NEW g \in ModemIds, mo2[g] # NoFence
               PROVE  mo2[g].session \in Used(cs)
                      /\ \A g2 \in ModemIds : Runs(mo2, mo2[g].session, g2) => g2 = g
    OBVIOUS
  <2>1. g # h /\ mo2[g] = mo[g]  OBVIOUS
  <2>2. mo[g].session \in Used(cs) /\ \A g2 \in ModemIds : Runs(mo, mo[g].session, g2) => g2 = g
    BY <2>1 DEF MapsAgree
  <2> QED BY <1>2, <2>1, <2>2
<1>8. \A k \in DOMAIN p : Adding(p[k]) =>
          /\ p[k].to.hw \in ModemIds /\ Runs(mo2, p[k].to.session, p[k].to.hw)
          /\ hs[p[k].to.session] = NoHw
  BY <1>1, <1>2, <1>3, <1>5
<1>9. \A j, k \in DOMAIN p : Removing(p[j]) /\ Adding(p[k]) /\ p[j].to.hw = p[k].to.hw => j < k
  BY <1>1, <1>3, <1>5 DEF MapsAgree
<1> QED BY <1>6, <1>7, <1>8, <1>9 DEF MapsAgree, p

(* There is room in the modem for a geofence that it has not.                *)
LEMMA RoomLeft ==
    ASSUME NEW mo, NEW s \in Sessions, \A h \in ModemIds : ~Runs(mo, s, h),
           \A h \in ModemIds : mo[h] # NoFence => mo[h].session \in Sessions,
           \A h \in ModemIds : mo[h] # NoFence => \A g \in ModemIds : Runs(mo, mo[h].session, g) => g = h
    PROVE  \E h \in ModemIds : mo[h] = NoFence
<1> SUFFICES ASSUME \A h \in ModemIds : mo[h] # NoFence PROVE FALSE
  OBVIOUS
<1> DEFINE T == Sessions \ {s}
           f == [h \in ModemIds |-> mo[h].session]
<1>1. IsFiniteSet(Sessions) /\ Cardinality(Sessions) = MaxSessions /\ MaxSessions \in Nat
      /\ IsFiniteSet(ModemIds) /\ Cardinality(ModemIds) = MaxSessions
  <2>1. MaxSessions \in Nat /\ MaxSessions >= 1 BY GeofenceAssumption
  <2>2. IsFiniteSet(1..MaxSessions) /\ Cardinality(1..MaxSessions) = MaxSessions
    BY <2>1, FS_Interval
  <2> QED BY <2>1, <2>2 DEF Sessions, ModemIds
<1>2. IsFiniteSet(T) /\ Cardinality(T) = MaxSessions - 1 BY <1>1, FS_RemoveElement
<1>3. \A h \in ModemIds : mo[h].session \in T BY DEF Runs
<1> HIDE DEF T
<1>4. f \in [ModemIds -> T] BY <1>3
<1>5. \A g, h \in ModemIds : f[g] = f[h] => g = h BY DEF Runs
<1> HIDE DEF f
<1>6. f \in Injection(ModemIds, T) BY <1>4, <1>5 DEF Injection, IsInjective
<1>7. Cardinality(ModemIds) <= Cardinality(T) BY <1>2, <1>6, FS_Injection
<1> QED BY <1>1, <1>2, <1>7

-----------------------------------------------------------------------------
(* Where nothing fails, and where the client is still there                  *)

LEMMA OrderlyIs ==
    /\ Orderly => /\ "hasty" \notin world /\ "refuses" \notin world /\ "locks" \notin world
                  /\ "crashes" \notin world /\ "untimely" \notin world
    /\ world' = world => (Orderly' <=> Orderly)
<1>1. Orderly => /\ "hasty" \notin world /\ "refuses" \notin world /\ "locks" \notin world
                 /\ "crashes" \notin world /\ "untimely" \notin world
  BY DEF Orderly, Exposed, Restarts
<1>2. world' = world => (Orderly' <=> Orderly) BY DEF Orderly, Exposed, Restarts
<1> QED BY <1>1, <1>2

LEMMA AdapterHead ==
    ASSUME Adapter
    PROVE  /\ queue # <<>> /\ queue' = Tail(queue)
           /\ IF Head(queue).what = "destroy" THEN client' = FALSE ELSE client' = client
<1>1. CASE ProcDestroy BY <1>1 DEF ProcDestroy, Turn
<1>2. CASE ProcCommand \/ ProcCalled \/ ProcPower \/ ProcBreach
  BY <1>2 DEF ProcCommand, ProcCalled, ProcPower, ProcBreach, Turn, adapter
<1>3. CASE ProcEngineUp BY <1>3 DEF ProcEngineUp, Turn, Others
<1>4. CASE ProcAdded \/ ProcRemoved \/ ProcPaused \/ ProcResumed \/ ProcModified
  BY <1>4 DEF ProcAdded, ProcRemoved, ProcPaused, ProcResumed, ProcModified, Answered, Turn, Others
<1>5. CASE ProcRestored \/ ProcGone \/ ProcSlept \/ ProcNothing
  BY <1>5 DEF ProcRestored, ProcGone, ProcSlept, ProcNothing, Answered, Turn, Others
<1> QED BY <1>1, <1>2, <1>3, <1>4, <1>5 DEF Adapter

LEMMA DestroyedStays ==
    ASSUME TypeOK, Adapter
    PROVE  Destroyed' <=> Destroyed
<1>1. /\ queue # <<>> /\ queue' = Tail(queue)
      /\ IF Head(queue).what = "destroy" THEN client' = FALSE ELSE client' = client
  BY AdapterHead
<1>2. /\ 1 \in DOMAIN queue /\ Head(queue) = queue[1]
      /\ \A k \in DOMAIN queue' : k + 1 \in DOMAIN queue /\ queue'[k] = queue[k + 1]
      /\ \A k \in DOMAIN queue : k = 1 \/ (k - 1 \in DOMAIN queue' /\ queue[k] = queue'[k - 1])
  BY <1>1, HasTaken DEF TypeOK
<1>3. client \in BOOLEAN BY DEF TypeOK
<1>4. Destroyed => Destroyed' BY <1>1, <1>2, <1>3 DEF Destroyed
<1>5. Destroyed' => Destroyed BY <1>1, <1>2, <1>3 DEF Destroyed
<1> QED BY <1>4, <1>5

LEMMA DestroyedAdds ==
    ASSUME TypeOK, NEW m \in Messages, queue' = Append(queue, m), client' = client
    PROVE  Destroyed' <=> Destroyed \/ m.what = "destroy"
<1>1. /\ \A k \in DOMAIN queue : k \in DOMAIN queue' /\ queue'[k] = queue[k]
      /\ Len(queue) + 1 \in DOMAIN queue' /\ queue'[Len(queue) + 1] = m
      /\ \A k \in DOMAIN queue' : k \in DOMAIN queue \/ k = Len(queue) + 1
  <2>1. Len(queue) \in Nat => Len(queue) + 1 \in 1..(Len(queue) + 1)  OBVIOUS
  <2> QED BY <2>1, HasAppended DEF TypeOK
<1> QED BY <1>1 DEF Destroyed

(* The item whose answer is at the head is of the oldest command.            *)
LEMMA OldestFirst ==
    ASSUME NEW q \in Seq(Messages), q # <<>>, NEW rs \in Seq(Requests), Sorted(q, rs),
           LET x == OfMessage(Head(q)) IN x.n # 0 /\ x.stage = 4,
           NEW n \in Nat \ {0}, Present(q, rs, n)
    PROVE  OfMessage(Head(q)).n <= n
<1> DEFINE x == OfMessage(Head(q))
<1>1. Marked(q, rs) BY AllMarked
<1>2. /\ 1 \in DOMAIN q /\ Head(q) = q[1] /\ \A k \in DOMAIN q : k \in Int /\ (k = 1 \/ 1 < k)
      /\ x.n \in Nat
  <2>1. 1 \in DOMAIN q /\ Head(q) = q[1] /\ DOMAIN q = 1..Len(q) BY HasTaken
  <2> QED BY <1>1, <2>1 DEF Marked
<1>3. CASE \E k \in DOMAIN q : OfMessage(q[k]).n = n
  <2>1. PICK k \in DOMAIN q : OfMessage(q[k]).n = n BY <1>3
  <2>2. OfMessage(q[k]).stage \in {0, 2, 4} BY <1>1 DEF Marked
  <2>3. Leads(x, OfMessage(q[k])) /\ (1 < k => Precedes(x, OfMessage(q[k]))) BY <1>2 DEF Sorted
  <2>4. CASE k = 1 BY <1>2, <2>1, <2>4
  <2>5. CASE 1 < k
    <3>1. x.stage >= OfMessage(q[k]).stage BY <2>2
    <3>2. Ahead(x, OfMessage(q[k])) BY <2>1, <2>3, <2>5, <3>1 DEF Precedes
    <3> QED BY <1>2, <2>1, <3>2 DEF Ahead
  <2> QED BY <1>2, <2>4, <2>5
<1>4. CASE \E k \in DOMAIN rs : OfRequest(rs[k]).n = n
  <2>1. PICK k \in DOMAIN rs : OfRequest(rs[k]).n = n BY <1>4
  <2>2. OfRequest(rs[k]).stage \in {1, 3} BY <1>1 DEF Marked
  <2>3. Leads(x, OfRequest(rs[k])) BY <1>2 DEF Sorted
  <2>4. Ahead(x, OfRequest(rs[k])) BY <2>1, <2>2, <2>3 DEF Leads
  <2> QED BY <1>2, <2>1, <2>4 DEF Ahead
<1> QED BY <1>3, <1>4 DEF Present

LEMMA EntriesTyped ==
    ASSUME TypeOK
    PROVE  /\ requestQueue \in Seq(Entries) /\ DOMAIN requestQueue = 1..Len(requestQueue)
           /\ Len(requestQueue) \in Nat
           /\ \A k \in DOMAIN requestQueue : requestQueue[k] \in Entries /\ requestQueue[k].n \in Nat \ {0}
                                             /\ requestQueue[k].ids \subseteq Ids
<1>1. requestQueue \in Seq(Entries) BY TypedSame
<1>2. /\ DOMAIN requestQueue = 1..Len(requestQueue) /\ Len(requestQueue) \in Nat
      /\ \A k \in DOMAIN requestQueue : requestQueue[k] \in Entries
  BY <1>1, LenProperties, ElementOfSeq
<1> QED BY <1>1, <1>2, GeofenceAssumption DEF Entries

(* The response of a command finds the command's own request the oldest.     *)
LEMMA OwnEntry ==
    ASSUME Base, EntryInv, Orderly, ~Destroyed, queue # <<>>, Head(queue).what = "answer",
           Head(queue).to.n # 0, Head(queue).to.do # "call", Head(queue).to.flag
    PROVE  requestQueue # <<>> /\ requestQueue[1].n = Head(queue).to.n
<1> DEFINE r == Head(queue).to
           x == OfMessage(Head(queue))
<1>1. TypeOK /\ Shape(queue, requests, commands) /\ Sorted(queue, requests) BY DEF Base
<1>2. /\ r.n \in DOMAIN commands /\ r.n \in Nat \ {0}
      /\ x.n = r.n /\ x.last = r.flag /\ x.stage = 4
  BY <1>1, HeadAnswer, CommandTyped
<1>3. 1 \in DOMAIN queue /\ Head(queue) = queue[1] /\ queue \in Seq(Messages) /\ requests \in Seq(Requests)
  BY <1>1, HasTaken DEF TypeOK
<1>0. OfMessage(Head(queue)).n = r.n /\ OfMessage(Head(queue)).n # 0 /\ OfMessage(Head(queue)).stage = 4
  BY <1>2
<1> HIDE DEF r, x
<1>4. Borne(queue, requests, r.n) BY <1>2, <1>3 DEF Borne, x, r
<1>5. PICK k \in DOMAIN requestQueue : requestQueue[k].n = r.n BY <1>2, <1>4 DEF EntryInv
<1>6. 1 \in DOMAIN requestQueue /\ requestQueue # <<>> /\ k \in Nat /\ (k = 1 \/ 1 < k)
      /\ requestQueue[1].n \in Nat \ {0}
  BY <1>1, <1>5, EntriesTyped
<1>7. /\ 1 < k => requestQueue[1].n < r.n
      /\ requestQueue[1].n \in DOMAIN commands
  BY <1>5, <1>6 DEF EntryInv
<1>8. Present(queue, requests, requestQueue[1].n) BY <1>6, <1>7, BornePresent DEF EntryInv
<1>9. r.n <= requestQueue[1].n BY <1>0, <1>1, <1>3, <1>6, <1>8, OldestFirst
<1> QED BY <1>2, <1>5, <1>6, <1>7, <1>9 DEF r
-----------------------------------------------------------------------------
(* A command that was answered is done.                                      *)

LEMMA WholeStands ==
    ASSUME WholeInv, TypeOK, world' = world, commands' = commands, client' => client,
           \A n \in Nat \ {0} :
              /\ Present(queue', requests', n) => Present(queue, requests, n)
              /\ Borne(queue', requests', n) <=> Borne(queue, requests, n)
    PROVE  WholeInv'
<1> SUFFICES ASSUME Orderly, NEW n \in DOMAIN commands
             PROVE  /\ commands[n].sent = 1 => ~Present(queue', requests', n)
                    /\ client' /\ Present(queue', requests', n) => Borne(queue', requests', n)
                    /\ commands[n].got \in {0, n}
  BY OrderlyIs DEF WholeInv
<1>1. n \in Nat \ {0} BY CommandTyped
<1>2. /\ commands[n].sent = 1 => ~Present(queue, requests, n)
      /\ client /\ Present(queue, requests, n) => Borne(queue, requests, n)
      /\ commands[n].got \in {0, n}
  BY DEF WholeInv
<1> QED BY <1>1, <1>2

LEMMA WholeGoes ==
    ASSUME WholeInv, TypeOK, Sorted(queue, requests), Idle \/ Onward, world' = world, client' => client
    PROVE  WholeInv'
<1>1. PICK out : Taken(out) /\ SameEntries BY DEF Idle, Onward
<1>2. \A n \in Nat \ {0} :
         /\ Present(queue', requests', n) => Present(queue, requests, n)
         /\ Borne(queue', requests', n) <=> Borne(queue, requests, n)
  BY <1>1, TakesBear, TakenPresence
<1> QED BY <1>1, <1>2, WholeStands DEF SameEntries

LEMMA WholeSends ==
    ASSUME Base, WholeInv, NEW do, NEW ids, NEW sessions, Sends(do, ids, sessions)
    PROVE  WholeInv'
<1> DEFINE n == Len(commands) + 1
           c == NewCommand(do, sessions)
<1>1. /\ n \in Nat \ {0} /\ n \notin DOMAIN commands
      /\ DOMAIN commands' = DOMAIN commands \cup {n} /\ commands'[n] = c
      /\ \A k \in DOMAIN commands : commands'[k] = commands[k]
      /\ \A k \in Nat \ {0} :
            /\ Present(queue', requests', k) <=> Present(queue, requests, k) \/ k = n
            /\ Borne(queue', requests', k) <=> Borne(queue, requests, k) \/ k = n
      /\ UNCHANGED <<world, adapter>>
  BY SendEffect DEF Base
<1>2. c.sent = 0 /\ c.got = 0 BY DEF NewCommand
<1> HIDE DEF n, c
<1> SUFFICES ASSUME Orderly, NEW k \in DOMAIN commands'
             PROVE  /\ commands'[k].sent = 1 => ~Present(queue', requests', k)
                    /\ client' /\ Present(queue', requests', k) => Borne(queue', requests', k)
                    /\ commands'[k].got \in {0, k}
  BY <1>1, OrderlyIs DEF WholeInv
<1>3. CASE k = n BY <1>1, <1>2, <1>3
<1>4. CASE k \in DOMAIN commands
  <2>1. k \in Nat \ {0} /\ k # n BY <1>1, <1>4, CommandTyped DEF Base
  <2>2. /\ commands[k].sent = 1 => ~Present(queue, requests, k)
        /\ client /\ Present(queue, requests, k) => Borne(queue, requests, k)
        /\ commands[k].got \in {0, k}
    BY <1>4 DEF WholeInv
  <2> QED BY <1>1, <1>4, <2>1, <2>2 DEF adapter
<1> QED BY <1>1, <1>3, <1>4

LEMMA WholeEnds ==
    ASSUME Base, WholeInv, EntryInv, NEW ok, NEW err, Ends(ok, err), world' = world, client' => client,
           Orderly /\ client => Head(queue).to.do # "call"
    PROVE  WholeInv'
<1> DEFINE r == Head(queue).to
           heard == r.flag /\ client
<1>1. TypeOK /\ Shape(queue, requests, commands) /\ Sorted(queue, requests) /\ AnswerInv
  BY DEF Base
<1>2. /\ r.n \in DOMAIN commands /\ DOMAIN commands' = DOMAIN commands
      /\ \A n \in DOMAIN commands :
            /\ Counts(commands[n], commands'[n], n = r.n, heard, ok, err)
            /\ commands'[n].got = IF heard /\ requestQueue # <<>> /\ n = requestQueue[1].n
                                  THEN r.n ELSE commands[n].got
  BY <1>1, EndsEffect
<1>3. queue # <<>> /\ Head(queue).what = "answer" /\ r.n # 0 /\ Taken(<<>>) /\ client \in BOOLEAN
      /\ r.flag \in BOOLEAN
  <2>1. queue # <<>> /\ Head(queue).what = "answer" /\ r.n # 0 /\ Taken(<<>>)
    BY DEF Ends, Taken
  <2> QED BY <1>1, <2>1, HeadAnswer DEF TypeOK
<1>4. \A n \in Nat \ {0} :
         /\ n # r.n \/ ~r.flag => (Borne(queue', requests', n) <=> Borne(queue, requests, n))
         /\ n = r.n /\ r.flag => Borne(queue, requests, n)
         /\ Present(queue', requests', n) => Present(queue, requests, n)
         /\ n = r.n /\ r.flag /\ r.do # "call" => ~Present(queue', requests', n)
  BY <1>1, <1>3, EndsBear
<1> HIDE DEF r
<1> SUFFICES ASSUME Orderly, NEW n \in DOMAIN commands
             PROVE  /\ commands'[n].sent = 1 => ~Present(queue', requests', n)
                    /\ client' /\ Present(queue', requests', n) => Borne(queue', requests', n)
                    /\ commands'[n].got \in {0, n}
  BY <1>2, OrderlyIs DEF WholeInv
<1>5. n \in Nat \ {0} /\ commands[n].sent \in Nat BY <1>1, CommandTyped DEF CommandRecords
<1>6. /\ commands[n].sent = 1 => ~Present(queue, requests, n)
      /\ client /\ Present(queue, requests, n) => Borne(queue, requests, n)
      /\ commands[n].got \in {0, n}
      /\ commands[n].sent = 1 => ~Borne(queue, requests, n)
  BY <1>1 DEF WholeInv, AnswerInv, AnswerOf
<1>7. commands'[n].sent = IF n = r.n /\ heard THEN commands[n].sent + 1 ELSE commands[n].sent
  BY <1>2 DEF Counts
<1>8. commands'[n].got \in {0, n}
  <2>1. CASE heard /\ requestQueue # <<>> /\ n = requestQueue[1].n
    <3>1. ~Destroyed BY <2>1 DEF EntryInv
    <3>2. requestQueue[1].n = r.n BY <1>3, <2>1, <3>1, OwnEntry DEF r
    <3> QED BY <1>2, <2>1, <3>2
  <2>2. CASE ~(heard /\ requestQueue # <<>> /\ n = requestQueue[1].n) BY <1>2, <1>6, <2>2
  <2> QED BY <2>1, <2>2
<1>9. CASE n = r.n /\ r.flag
  <2>1. CASE client
    <3>1. ~Present(queue', requests', n) BY <1>4, <1>5, <1>9, <2>1 DEF r
    <3> QED BY <1>8, <3>1
  <2>2. CASE ~client
    <3>1. commands[n].sent # 1 /\ commands'[n].sent = commands[n].sent
      BY <1>4, <1>5, <1>6, <1>7, <1>9, <2>2
    <3> QED BY <1>8, <2>2, <3>1
  <2> QED BY <2>1, <2>2
<1>10. CASE n # r.n \/ ~r.flag BY <1>4, <1>5, <1>6, <1>7, <1>8, <1>10
<1> QED BY <1>3, <1>9, <1>10

LEMMA WholeUnheard ==
    ASSUME Base, WholeInv, Unheard, world' = world, client' => client, Orderly => ~client
    PROVE  WholeInv'
<1> DEFINE r == Head(queue).to
<1>1. TypeOK /\ Shape(queue, requests, commands) /\ Sorted(queue, requests) BY DEF Base
<1>2. /\ DOMAIN commands' = DOMAIN commands
      /\ \A n \in DOMAIN commands : commands'[n].sent = commands[n].sent /\ commands'[n].got = commands[n].got
  BY <1>1, UnheardEffect DEF Counts
<1>3. Head(queue).what = "answer" /\ Taken(<<>>) BY DEF Unheard
<1>4. \A n \in Nat \ {0} : Present(queue', requests', n) => Present(queue, requests, n)
  BY <1>1, <1>3, EndsBear
<1> SUFFICES ASSUME Orderly, NEW n \in DOMAIN commands
             PROVE  /\ commands'[n].sent = 1 => ~Present(queue', requests', n)
                    /\ client' /\ Present(queue', requests', n) => Borne(queue', requests', n)
                    /\ commands'[n].got \in {0, n}
  BY <1>2, OrderlyIs DEF WholeInv
<1>5. n \in Nat \ {0} BY <1>1, CommandTyped
<1>6. (commands[n].sent = 1 => ~Present(queue, requests, n)) /\ commands[n].got \in {0, n}
  BY DEF WholeInv
<1> QED BY <1>2, <1>4, <1>5, <1>6

-----------------------------------------------------------------------------
(* The requests that wait                                                    *)

LEMMA EntryStands ==
    ASSUME EntryInv, TypeOK, UNCHANGED <<world, forward, requestQueue>>,
           Kept(commands, commands'), DOMAIN commands' = DOMAIN commands,
           Destroyed' <=> Destroyed,
           Orderly /\ ~Destroyed =>
              \A n \in Nat \ {0} : Borne(queue', requests', n) <=> Borne(queue, requests, n)
    PROVE  EntryInv'
<1>1. \A n \in DOMAIN commands : Sent(commands', n) = Sent(commands, n) BY SameUsed
<1>2. Destroyed' => requestQueue' = <<>> BY DEF EntryInv
<1>3. ASSUME Orderly, ~Destroyed
      PROVE  /\ \A j, k \in DOMAIN requestQueue : j < k => requestQueue[j].n < requestQueue[k].n
             /\ \A k \in DOMAIN requestQueue : requestQueue[k].n \in DOMAIN commands
             /\ \A n \in DOMAIN commands :
                   Borne(queue', requests', n) <=> \E k \in DOMAIN requestQueue : requestQueue[k].n = n
             /\ \A k \in DOMAIN requestQueue, id \in Ids :
                   forward[id] # 0 =>
                       (forward[id] \in Sent(commands', requestQueue[k].n) <=> id \in requestQueue[k].ids)
  <2>1. \A k \in DOMAIN requestQueue : requestQueue[k].n \in DOMAIN commands
    BY <1>3 DEF EntryInv
  <2>2. \A n \in DOMAIN commands :
           Borne(queue', requests', n) <=> \E k \in DOMAIN requestQueue : requestQueue[k].n = n
    <3> TAKE n \in DOMAIN commands
    <3>1. n \in Nat \ {0} BY CommandTyped
    <3> QED BY <1>3, <3>1 DEF EntryInv
  <2>3. \A k \in DOMAIN requestQueue, id \in Ids :
           forward[id] # 0 =>
               (forward[id] \in Sent(commands', requestQueue[k].n) <=> id \in requestQueue[k].ids)
    BY <1>1, <1>3, <2>1 DEF EntryInv
  <2> QED BY <1>3, <2>1, <2>2, <2>3 DEF EntryInv
<1>4. Orderly' <=> Orderly BY OrderlyIs
<1> QED BY <1>2, <1>3, <1>4 DEF EntryInv

LEMMA EntryGoes ==
    ASSUME EntryInv, TypeOK, Sorted(queue, requests), Idle \/ Onward, UNCHANGED <<world, forward>>,
           Destroyed' <=> Destroyed
    PROVE  EntryInv'
<1>1. SameEntries /\ Kept(commands, commands') /\ DOMAIN commands' = DOMAIN commands
  BY DEF Idle, Onward, SameEntries, Kept
<1>2. \A n \in Nat \ {0} : Borne(queue', requests', n) <=> Borne(queue, requests, n)
  BY TakesBear
<1> QED BY <1>1, <1>2, EntryStands DEF SameEntries

LEMMA EntryUnheard ==
    ASSUME EntryInv, TypeOK, Shape(queue, requests, commands), Unheard, UNCHANGED <<world, forward>>,
           Destroyed' <=> Destroyed, Orderly => ~client
    PROVE  EntryInv'
<1>1. Kept(commands, commands') /\ DOMAIN commands' = DOMAIN commands BY UnheardEffect
<1>2. requestQueue' = requestQueue BY DEF Unheard
<1>3. ~(Orderly /\ ~Destroyed) BY DEF Destroyed
<1> QED BY <1>1, <1>2, <1>3, EntryStands

LEMMA EntryEnds ==
    ASSUME Base, EntryInv, NEW ok, NEW err, Ends(ok, err), UNCHANGED <<world, forward>>,
           Destroyed' <=> Destroyed, Orderly /\ client => Head(queue).to.do # "call"
    PROVE  EntryInv'
<1> DEFINE r == Head(queue).to
           heard == r.flag /\ client
<1>1. TypeOK /\ Shape(queue, requests, commands) /\ Sorted(queue, requests) BY DEF Base
<1>2. /\ r.n \in DOMAIN commands /\ DOMAIN commands' = DOMAIN commands /\ Kept(commands, commands')
      /\ requestQueue' = IF heard /\ requestQueue # <<>> THEN Tail(requestQueue) ELSE requestQueue
  BY <1>1, EndsEffect
<1>3. queue # <<>> /\ Head(queue).what = "answer" /\ r.n # 0 /\ Taken(<<>>) BY DEF Ends, Taken
<1>4. \A n \in Nat \ {0} :
         /\ n # r.n \/ ~r.flag => (Borne(queue', requests', n) <=> Borne(queue, requests, n))
         /\ n = r.n /\ r.flag => ~Borne(queue', requests', n)
  BY <1>1, <1>3, EndsBear
<1> HIDE DEF r
<1>5. CASE ~(r.flag /\ Orderly /\ ~Destroyed)
  <2>1. requestQueue' = requestQueue \/ (Destroyed /\ requestQueue = <<>>) \/ ~Orderly
    BY <1>2, <1>5 DEF EntryInv
  <2>2. CASE requestQueue' = requestQueue BY <1>1, <1>2, <1>4, <1>5, <2>2, EntryStands
  <2>3. CASE Destroyed /\ requestQueue = <<>> BY <1>2, <2>3 DEF EntryInv
  <2>4. CASE ~Orderly
    <3>1. ~Orderly' BY <2>4, OrderlyIs
    <3>2. Destroyed => requestQueue' = <<>> BY <1>2 DEF EntryInv
    <3> QED BY <3>1, <3>2 DEF EntryInv
  <2> QED BY <2>1, <2>2, <2>3, <2>4
<1>6. CASE r.flag /\ Orderly /\ ~Destroyed
  <2>1. client BY <1>6 DEF Destroyed
  <2>2. requestQueue # <<>> /\ requestQueue[1].n = r.n BY <1>3, <1>6, <2>1, OwnEntry DEF r
  <2>3. requestQueue' = Tail(requestQueue) BY <1>2, <1>6, <2>1, <2>2
  <2> DEFINE p == Tail(requestQueue)
  <2>4. /\ \A k \in DOMAIN p : k \in Int /\ k >= 1 /\ k + 1 \in DOMAIN requestQueue /\ p[k] = requestQueue[k + 1]
        /\ \A k \in DOMAIN requestQueue : k = 1 \/ (k - 1 \in DOMAIN p /\ requestQueue[k] = p[k - 1])
        /\ 1 \in DOMAIN requestQueue
    BY <1>1, <2>2, EntriesTyped, HasTaken
  <2>5. /\ \A j, k \in DOMAIN requestQueue : j < k => requestQueue[j].n < requestQueue[k].n
        /\ \A k \in DOMAIN requestQueue : requestQueue[k].n \in DOMAIN commands
        /\ \A n \in DOMAIN commands :
              Borne(queue, requests, n) <=> \E k \in DOMAIN requestQueue : requestQueue[k].n = n
        /\ \A k \in DOMAIN requestQueue, id \in Ids :
              forward[id] # 0 =>
                  (forward[id] \in Sent(commands, requestQueue[k].n) <=> id \in requestQueue[k].ids)
    BY <1>6 DEF EntryInv
  <2>6. \A n \in DOMAIN commands : Sent(commands', n) = Sent(commands, n) BY <1>2, SameUsed
  <2> HIDE DEF p
  <2>7. \A j, k \in DOMAIN p : j < k => p[j].n < p[k].n
    <3> TAKE j, k \in DOMAIN p
    <3>1. j + 1 \in DOMAIN requestQueue /\ k + 1 \in DOMAIN requestQueue /\ (j < k => j + 1 < k + 1)
      BY <2>4
    <3>2. j < k => requestQueue[j + 1].n < requestQueue[k + 1].n BY <2>5, <3>1
    <3> QED BY <2>4, <3>2
  <2>8. \A k \in DOMAIN p : p[k].n \in DOMAIN commands /\ p[k].n # r.n
    <3> TAKE k \in DOMAIN p
    <3>1. k + 1 \in DOMAIN requestQueue /\ 1 < k + 1 /\ p[k] = requestQueue[k + 1] BY <2>4
    <3>2. requestQueue[1].n < requestQueue[k + 1].n /\ requestQueue[k + 1].n \in DOMAIN commands
      BY <2>4, <2>5, <3>1
    <3>3. requestQueue[1].n \in Nat BY <1>1, <2>4, EntriesTyped
    <3> QED BY <2>2, <3>1, <3>2, <3>3
  <2>9. \A n \in DOMAIN commands :
           Borne(queue', requests', n) <=> \E k \in DOMAIN p : p[k].n = n
    <3> TAKE n \in DOMAIN commands
    <3>1. n \in Nat \ {0} BY <1>1, CommandTyped
    <3>2. CASE n = r.n BY <1>4, <1>6, <2>8, <3>1, <3>2
    <3>3. CASE n # r.n
      <4>1. (\E k \in DOMAIN requestQueue : requestQueue[k].n = n) <=> \E k \in DOMAIN p : p[k].n = n
        BY <2>2, <2>4, <3>3
      <4> QED BY <1>4, <2>5, <3>1, <3>3, <4>1
    <3> QED BY <3>2, <3>3
  <2>10. \A k \in DOMAIN p, id \in Ids :
            forward[id] # 0 => (forward[id] \in Sent(commands', p[k].n) <=> id \in p[k].ids)
    BY <2>4, <2>5, <2>6, <2>8
  <2> QED BY <1>2, <1>6, <2>3, <2>7, <2>8, <2>9, <2>10 DEF EntryInv, p
<1> QED BY <1>5, <1>6

-----------------------------------------------------------------------------
(* What the framework names with a command                                   *)

Names(do, ids, sessions) ==
    /\ \A id \in Ids : \/ forward'[id] = forward[id] \/ forward'[id] = 0
                       \/ do = "add" /\ ids = {id} /\ forward'[id] = NewSession
    /\ \A id \in Ids : forward'[id] # 0 => (forward'[id] \in Range(sessions) <=> id \in ids)
    /\ \A i, j \in Ids : forward'[i] = forward'[j] /\ forward'[i] # 0 => i = j
    /\ Orderly => \A id \in ids : ~Waiting(id)
    /\ IF do = "add" THEN sessions = <<NewSession>>
       ELSE \A s \in Range(sessions) : s # 0 /\ \E id \in ids : id \in Ids /\ forward[id] = s
    /\ do = "remove" => \A id \in Ids : forward'[id] \notin Range(sessions)

LEMMA NamesAdd ==
    ASSUME TypeOK, IdsInv, NEW id \in Ids, locAPIAddGeofences(id)
    PROVE  Names("add", {id}, <<NewSession>>)
<1> DEFINE s == NewSession
<1>1. /\ s \in Sessions /\ forward' = [forward EXCEPT ![id] = s]
      /\ "hasty" \in world \/ ~Waiting(id)
  BY AddKind
<1>2. \A i \in Ids : forward'[i] = IF i = id THEN s ELSE forward[i] BY <1>1 DEF TypeOK
<1>3. Range(<<s>>) = {s} BY <1>1, OneSession
<1>4. \A t \in Used(commands) : t # s BY AdditionsFinite
<1>5. s # 0 BY <1>1, GeofenceAssumption DEF Sessions
<1> HIDE DEF s
<1>6. \A i \in Ids : forward[i] # s BY <1>4, <1>5 DEF IdsInv
<1>7. \A i \in Ids : forward'[i] # 0 => (forward'[i] \in {s} <=> i \in {id}) BY <1>2, <1>6
<1>8. \A i, j \in Ids : forward'[i] = forward'[j] /\ forward'[i] # 0 => i = j
  BY <1>2, <1>6 DEF IdsInv
<1>9. Orderly => ~Waiting(id) BY <1>1, OrderlyIs
<1> QED BY <1>2, <1>3, <1>7, <1>8, <1>9 DEF Names, s

LEMMA NamesChange ==
    ASSUME TypeOK, IdsInv, NEW id \in Ids, NEW do \in Kinds \ {"add", "remove"}, Change(do, id)
    PROVE  Names(do, {id}, <<forward[id]>>)
<1> DEFINE s == forward[id]
<1>1. s \in Sessions /\ forward' = forward /\ MayName(id) /\ s # 0 BY ChangeKind
<1>2. Range(<<s>>) = {s} BY <1>1, OneSession
<1>3. \A i \in Ids : forward[i] # 0 => (forward[i] \in {s} <=> i \in {id}) BY DEF IdsInv
<1>4. \A i, j \in Ids : forward[i] = forward[j] /\ forward[i] # 0 => i = j BY DEF IdsInv
<1>5. Orderly => ~Waiting(id) BY <1>1, OrderlyIs DEF MayName
<1>6. \E i \in {id} : i \in Ids /\ forward[i] = s  OBVIOUS
<1> HIDE DEF s
<1> QED BY <1>1, <1>2, <1>3, <1>4, <1>5, <1>6 DEF Names, s

LEMMA NamesRemove ==
    ASSUME TypeOK, IdsInv, NEW ids \in SUBSET Added, RemoveGeofences(ids),
           \A id \in ids : "hasty" \in world \/ ~Waiting(id)
    PROVE  Names("remove", ids, Ascending({forward[id] : id \in ids}))
<1> DEFINE a == Ascending({forward[id] : id \in ids})
<1>1. /\ Range(a) = {forward[id] : id \in ids}
      /\ forward' = [id \in Ids |-> IF id \in ids THEN 0 ELSE forward[id]]
  BY RemoveKind
<1>2. \A id \in Ids : forward'[id] = IF id \in ids THEN 0 ELSE forward[id] BY <1>1
<1>3. \A id \in ids : id \in Ids /\ forward[id] # 0 BY DEF Added
<1>4. \A i, j \in Ids : forward[i] = forward[j] /\ forward[i] # 0 => i = j BY DEF IdsInv
<1> HIDE DEF a
<1>5. \A id \in Ids : forward'[id] \notin Range(a) BY <1>1, <1>2, <1>3, <1>4
<1>6. \A id \in Ids : forward'[id] # 0 => id \notin ids BY <1>2
<1>7. \A i, j \in Ids : forward'[i] = forward'[j] /\ forward'[i] # 0 => i = j BY <1>2, <1>4
<1>8. Orderly => \A id \in ids : ~Waiting(id) BY OrderlyIs
<1>9. \A s \in Range(a) : s # 0 /\ \E id \in ids : id \in Ids /\ forward[id] = s BY <1>1, <1>3
<1> QED BY <1>2, <1>5, <1>6, <1>7, <1>8, <1>9 DEF Names, a

LEMMA FrameworkNames ==
    ASSUME TypeOK, IdsInv, Framework
    PROVE  destroy \/ \E do, ids, sessions : Sends(do, ids, sessions) /\ Names(do, ids, sessions)
<1>1. ASSUME NEW id \in Ids, locAPIAddGeofences(id)
      PROVE  \E do, ids, sessions : Sends(do, ids, sessions) /\ Names(do, ids, sessions)
  BY <1>1, AddKind, NamesAdd
<1>2. ASSUME NEW id \in Ids, locAPIRemoveGeofences(id)
      PROVE  \E do, ids, sessions : Sends(do, ids, sessions) /\ Names(do, ids, sessions)
  <2>1. {id} \cap Added \in SUBSET Added /\ RemoveGeofences({id} \cap Added) /\ MayName(id)
    BY <1>2 DEF locAPIRemoveGeofences
  <2>2. \A i \in {id} \cap Added : "hasty" \in world \/ ~Waiting(i) BY <2>1 DEF MayName
  <2> QED BY <2>1, <2>2, RemoveKind, NamesRemove
<1>3. ASSUME locAPIRemoveAllGeofences
      PROVE  \E do, ids, sessions : Sends(do, ids, sessions) /\ Names(do, ids, sessions)
  <2>1. RemoveGeofences(Added) /\ \A id \in Added : "hasty" \in world \/ ~Waiting(id)
    BY <1>3 DEF locAPIRemoveAllGeofences
  <2>2. Added \in SUBSET Added  OBVIOUS
  <2> QED BY <2>1, <2>2, RemoveKind, NamesRemove
<1>4. ASSUME NEW id \in Ids,
             locAPIPauseGeofences(id) \/ locAPIResumeGeofences(id) \/ locAPIModifyGeofences(id)
      PROVE  \E do, ids, sessions : Sends(do, ids, sessions) /\ Names(do, ids, sessions)
  <2>1. \E do \in Kinds \ {"add", "remove"} : Change(do, id)
    BY <1>4 DEF locAPIPauseGeofences, locAPIResumeGeofences, locAPIModifyGeofences, Kinds
  <2> QED BY <2>1, ChangeKind, NamesChange
<1> QED BY <1>1, <1>2, <1>3, <1>4 DEF Framework

LEMMA EntrySends ==
    ASSUME Base, IdsInv, EntryInv, NEW do, NEW ids, NEW sessions, Sends(do, ids, sessions),
           Names(do, ids, sessions)
    PROVE  EntryInv'
<1> DEFINE n == Len(commands) + 1
           e == NewEntry(do, n, ids)
           l == Len(requestQueue) + 1
           m == NewMessage(do, n, sessions)
<1>1. TypeOK /\ Shape(queue, requests, commands) BY DEF Base
<1>2. /\ n \in Nat \ {0} /\ n \notin DOMAIN commands /\ (\A k \in DOMAIN commands : k < n)
      /\ DOMAIN commands' = DOMAIN commands \cup {n} /\ commands'[n] = NewCommand(do, sessions)
      /\ Kept(commands, commands')
      /\ m \in Messages /\ queue' = Append(queue, m)
      /\ \A k \in Nat \ {0} : Borne(queue', requests', k) <=> Borne(queue, requests, k) \/ k = n
      /\ ~Present(queue, requests, n)
      /\ e \in Entries /\ requestQueue' = Append(requestQueue, e) /\ ~Destroyed
      /\ UNCHANGED <<world, adapter>>
  BY SendEffect DEF Base
<1>3. /\ \A k \in DOMAIN requestQueue' :
            \/ k \in DOMAIN requestQueue /\ requestQueue'[k] = requestQueue[k] /\ k \in Int /\ k < l
            \/ k = l /\ requestQueue'[k] = e
      /\ \A k \in DOMAIN requestQueue : k \in DOMAIN requestQueue' /\ requestQueue'[k] = requestQueue[k]
      /\ l \in DOMAIN requestQueue' /\ requestQueue'[l] = e /\ l \in Int
  <2>1. Len(requestQueue) \in Nat => Len(requestQueue) + 1 \in 1..(Len(requestQueue) + 1)
    OBVIOUS
  <2> QED BY <1>1, <1>2, <2>1, EntriesTyped, HasAppended
<1>4. m.what # "destroy" /\ e.n = n /\ e.ids = ids /\ NewCommand(do, sessions).sessions = sessions
  BY DEF NewMessage, NewEntry, NewCommand
<1>5. ~Destroyed' BY <1>1, <1>2, <1>4, DestroyedAdds DEF adapter
<1>6. /\ Sent(commands', n) = Range(sessions)
      /\ \A k \in DOMAIN commands : Sent(commands', k) = Sent(commands, k) /\ Sent(commands, k) \subseteq Used(commands)
  BY <1>1, <1>2, <1>4 DEF Sent, Kept, Shape, CommandFits
<1> HIDE DEF n, e, l, m
<1> SUFFICES ASSUME Orderly
             PROVE  /\ \A j, k \in DOMAIN requestQueue' : j < k => requestQueue'[j].n < requestQueue'[k].n
                    /\ \A k \in DOMAIN requestQueue' : requestQueue'[k].n \in DOMAIN commands'
                    /\ \A k \in DOMAIN commands' :
                          Borne(queue', requests', k) <=> \E j \in DOMAIN requestQueue' : requestQueue'[j].n = k
                    /\ \A k \in DOMAIN requestQueue', id \in Ids :
                          forward'[id] # 0 =>
                              (forward'[id] \in Sent(commands', requestQueue'[k].n) <=> id \in requestQueue'[k].ids)
  BY <1>2, <1>5, OrderlyIs DEF EntryInv
<1>7. /\ \A j, k \in DOMAIN requestQueue : j < k => requestQueue[j].n < requestQueue[k].n
      /\ \A k \in DOMAIN requestQueue : requestQueue[k].n \in DOMAIN commands
      /\ \A k \in DOMAIN commands :
            Borne(queue, requests, k) <=> \E j \in DOMAIN requestQueue : requestQueue[j].n = k
      /\ \A k \in DOMAIN requestQueue, id \in Ids :
            forward[id] # 0 =>
                (forward[id] \in Sent(commands, requestQueue[k].n) <=> id \in requestQueue[k].ids)
  BY <1>2 DEF EntryInv
<1>8. \A j, k \in DOMAIN requestQueue' : j < k => requestQueue'[j].n < requestQueue'[k].n
  <2> TAKE j, k \in DOMAIN requestQueue'
  <2>1. CASE j \in DOMAIN requestQueue /\ k \in DOMAIN requestQueue BY <1>3, <1>7, <2>1
  <2>2. CASE j \in DOMAIN requestQueue /\ k = l BY <1>2, <1>3, <1>4, <1>7, <2>2
  <2>3. CASE j = l BY <1>3, <2>3
  <2> QED BY <1>3, <2>1, <2>2, <2>3
<1>9. \A k \in DOMAIN requestQueue' : requestQueue'[k].n \in DOMAIN commands'
  BY <1>2, <1>3, <1>4, <1>7
<1>10. \A k \in DOMAIN commands' :
          Borne(queue', requests', k) <=> \E j \in DOMAIN requestQueue' : requestQueue'[j].n = k
  <2> TAKE k \in DOMAIN commands'
  <2>1. CASE k = n BY <1>2, <1>3, <1>4, <2>1
  <2>2. CASE k # n
    <3>1. k \in DOMAIN commands /\ k \in Nat \ {0} BY <1>1, <1>2, <2>2, CommandTyped
    <3>2. (\E j \in DOMAIN requestQueue' : requestQueue'[j].n = k)
             <=> \E j \in DOMAIN requestQueue : requestQueue[j].n = k BY <1>3, <1>4, <2>2
    <3> QED BY <1>2, <1>7, <2>2, <3>1, <3>2
  <2> QED BY <2>1, <2>2
<1>11. ASSUME NEW k \in DOMAIN requestQueue', NEW id \in Ids, forward'[id] # 0
       PROVE  forward'[id] \in Sent(commands', requestQueue'[k].n) <=> id \in requestQueue'[k].ids
  <2>1. CASE k = l BY <1>3, <1>4, <1>6, <1>11, <2>1 DEF Names
  <2>2. CASE k \in DOMAIN requestQueue /\ requestQueue'[k] = requestQueue[k]
    <3>1. /\ requestQueue[k].n \in DOMAIN commands
          /\ Sent(commands', requestQueue[k].n) = Sent(commands, requestQueue[k].n)
          /\ Sent(commands, requestQueue[k].n) \subseteq Used(commands)
      BY <1>6, <1>7, <2>2
    <3>2. CASE forward'[id] = forward[id] BY <1>7, <1>11, <2>2, <3>1, <3>2
    <3>3. CASE do = "add" /\ ids = {id} /\ forward'[id] = NewSession
      <4>1. ~Waiting(id) BY <3>3 DEF Names
      <4>2. id \notin requestQueue[k].ids BY <2>2, <4>1 DEF Waiting
      <4>3. NewSession \notin Used(commands) BY <1>1, AdditionsFinite
      <4> QED BY <2>2, <3>1, <3>3, <4>2, <4>3
    <3> QED BY <1>11, <3>2, <3>3 DEF Names
  <2> QED BY <1>3, <2>1, <2>2
<1> QED BY <1>8, <1>9, <1>10, <1>11

-----------------------------------------------------------------------------
(* The adapter where nothing fails                                           *)

(* What is under way goes on.                                                *)
CalmGoes ==
    /\ client' = client /\ hwIds' = hwIds /\ SameFences(fences, fences')
    /\ Idle \/ Onward
    /\ ~Removing(Head(queue)) /\ ~Adding(Head(queue))
    /\ \E out : /\ Taken(out) /\ SameEntries
                /\ \A k \in DOMAIN out : /\ RequestFinds(out[k], hwIds, modem)
                                         /\ NamedByRequest(out[k]) \subseteq NamedBy(Head(queue))
                /\ \A j, k \in DOMAIN out :
                      j # k => NamedByRequest(out[j]) \cap NamedByRequest(out[k]) = {}

(* An item comes to its end as it was meant to.                              *)
CalmEnds ==
    LET r == Head(queue).to IN
    /\ client' = client /\ Ends(TRUE, FALSE) /\ requests' = requests
    /\ r.do = r.then /\ r.do \in Kinds
    /\ r.do = "add" => Save(r.session, r.hw)
    /\ r.do = "remove" => Forget(r.hw)
    /\ r.do \notin {"add", "remove"} => hwIds' = hwIds /\ SameFences(fences, fences')

LEMMA CalmHead ==
    ASSUME TypeOK, CalmInv, Orderly, client, queue # <<>>
    PROVE  MessageFinds(Head(queue), hwIds, modem)
<1>1. 1 \in DOMAIN queue /\ Head(queue) = queue[1] BY HasTaken DEF TypeOK
<1> QED BY <1>1 DEF CalmInv

LEMMA CalmAnswer ==
    ASSUME TypeOK, Shape(queue, requests, commands), CalmInv, Orderly, client, NEW then, Answered(then)
    PROVE  LET r == Head(queue).to IN
           /\ Head(queue).ok = TRUE \/ then \notin Kinds
           /\ then \notin Kinds => then \in {"suspend", "wake"}
<1>1. LET r == Head(queue).to IN
      /\ queue # <<>> /\ Head(queue).what = "answer" /\ r.then = then /\ Head(queue).ok \in BOOLEAN
      /\ then \in Kinds => r.n # 0
      /\ then \notin Kinds => r.n = 0
  BY AnsweredHead
<1>2. MessageFinds(Head(queue), hwIds, modem) BY <1>1, CalmHead
<1> QED BY <1>1, <1>2 DEF MessageFinds, Adding, RequestFinds

LEMMA CalmNone ==
    ASSUME TypeOK, Shape(queue, requests, commands), Idle, Head(queue).what = "answer" => Head(queue).to.n = 0,
           queue # <<>>, queue' = Tail(queue), UNCHANGED requests, NobodyHears,
           client' = client, hwIds' = hwIds, SameFences(fences, fences')
    PROVE  CalmGoes
<1>1. Taken(<<>>) BY TakenNone
<1>2. ~Removing(Head(queue)) /\ ~Adding(Head(queue)) BY DEF Removing, Adding
<1>3. SameEntries /\ DOMAIN <<>> = {} BY DEF SameEntries, NobodyHears
<1> QED BY <1>1, <1>2, <1>3 DEF CalmGoes

LEMMA CalmCommand ==
    ASSUME TypeOK, Shape(queue, requests, commands), CalmInv, Orderly, client, ProcCommand
    PROVE  CalmGoes
<1> DEFINE m == Head(queue)
           out == [i \in DOMAIN m.ids |-> Ask("call", m.do, m.n, m.ids[i], 0, IsLast(i, m))]
<1>1. Onward /\ Taken(out) BY ProcCommandKind
<1>2. queue # <<>> /\ m.what = "command" /\ UNCHANGED <<adapter, engine, user>>
  BY DEF ProcCommand, Turn
<1>3. /\ m.n \in DOMAIN commands /\ m.do = commands[m.n].do /\ m.ids = commands[m.n].sessions
      /\ m.n # 0
  <2>1. m.n \in DOMAIN commands /\ m.do = commands[m.n].do /\ m.ids = commands[m.n].sessions
    BY <1>2, HeadFits DEF MessageFits
  <2> QED BY <2>1, CommandTyped
<1>4. IsInjective(m.ids) BY <1>3 DEF Shape, CommandFits
<1>5. \A i \in DOMAIN m.ids : /\ IF m.do = "add" THEN Nowhere(hwIds, modem, m.ids[i]) ELSE hwIds[m.ids[i]] # NoHw
                              /\ m.ids[i] \in NamedBy(m)
  <2>1. MessageFinds(m, hwIds, modem) BY <1>2, CalmHead
  <2>2. \A i \in DOMAIN m.ids : m.ids[i] \in Range(m.ids) BY DEF Range
  <2> QED BY <1>2, <2>1, <2>2 DEF MessageFinds, NamedBy
<1>6. DOMAIN out = DOMAIN m.ids
      /\ \A i \in DOMAIN out : /\ out[i].n = m.n /\ out[i].do = "call" /\ out[i].then = m.do
                               /\ out[i].session = m.ids[i]
  BY DEF Ask
<1>7. \A k \in DOMAIN out : /\ RequestFinds(out[k], hwIds, modem)
                            /\ NamedByRequest(out[k]) \subseteq NamedBy(m)
  BY <1>3, <1>5, <1>6 DEF RequestFinds, NamedByRequest
<1>8. \A j, k \in DOMAIN out :
         j # k => NamedByRequest(out[j]) \cap NamedByRequest(out[k]) = {}
  BY <1>3, <1>4, <1>6 DEF NamedByRequest, IsInjective
<1>9. ~Removing(m) /\ ~Adding(m) BY <1>2 DEF Removing, Adding
<1>10. client' = client /\ hwIds' = hwIds /\ SameFences(fences, fences') /\ SameEntries
  BY <1>2 DEF adapter, user, SameEntries, SameFences
<1> HIDE DEF out
<1> QED BY <1>1, <1>7, <1>8, <1>9, <1>10 DEF CalmGoes, m

LEMMA CalmCalled ==
    ASSUME TypeOK, Shape(queue, requests, commands), CalmInv, Orderly, client, ProcCalled
    PROVE  CalmGoes
<1> DEFINE m == Head(queue)
           r == m.to
<1>1. /\ queue # <<>> /\ m.what = "answer" /\ r.do = "call" /\ r.n # 0
      /\ \/ /\ Onward
            /\ \E y : /\ Taken(<<y>>) /\ y.n = r.n /\ y.then = r.then /\ y.session = r.session
                      /\ y.do = r.then /\ (r.then # "add" => y.hw = hwIds[r.session])
         \/ Ends(TRUE, TRUE) /\ r.then # "add" /\ ~Found(r)
  BY ProcCalledKind
<1>2. MessageFinds(m, hwIds, modem) BY <1>1, CalmHead
<1>3. ~Removing(m) /\ ~Adding(m) BY <1>1 DEF Removing, Adding
<1>4. RequestFinds(r, hwIds, modem) BY <1>1, <1>2, <1>3 DEF MessageFinds
<1>5. UNCHANGED <<adapter, engine>> BY DEF ProcCalled
<1> HIDE DEF r, m
<1>6. r.then # "add" => Found(r) BY <1>1, <1>4 DEF RequestFinds, Found
<1>7. PICK y : /\ Taken(<<y>>) /\ y.n = r.n /\ y.then = r.then /\ y.session = r.session
               /\ y.do = r.then /\ (r.then # "add" => y.hw = hwIds[r.session])
  BY <1>1, <1>6
<1>8. Onward BY <1>1, <1>6
<1>9. RequestFinds(y, hwIds, modem) BY <1>1, <1>4, <1>7 DEF RequestFinds
<1>10. NamedByRequest(y) \subseteq NamedBy(m) BY <1>1, <1>7 DEF NamedByRequest, NamedBy, r
<1>11. DOMAIN <<y>> = {1} /\ <<y>>[1] = y  OBVIOUS
<1>12. SameEntries BY <1>8, <1>1 DEF Onward
<1>13. client' = client /\ hwIds' = hwIds /\ SameFences(fences, fences')
  BY <1>5 DEF adapter, SameFences
<1>14. \A k \in DOMAIN <<y>> : /\ RequestFinds(<<y>>[k], hwIds, modem)
                               /\ NamedByRequest(<<y>>[k]) \subseteq NamedBy(m)
  BY <1>9, <1>10, <1>11
<1>15. \A j, k \in DOMAIN <<y>> :
          j # k => NamedByRequest(<<y>>[j]) \cap NamedByRequest(<<y>>[k]) = {}
  BY <1>11
<1> QED BY <1>3, <1>7, <1>8, <1>12, <1>13, <1>14, <1>15 DEF CalmGoes, m

LEMMA CalmAnswered ==
    ASSUME TypeOK, Shape(queue, requests, commands), CalmInv, Orderly, client,
           ProcAdded \/ ProcRemoved \/ ProcPaused \/ ProcResumed \/ ProcModified
    PROVE  CalmEnds
<1> DEFINE r == Head(queue).to
<1>1. ASSUME NEW then \in Kinds, Answered(then), UNCHANGED requests, Others,
             \E ok, err : Ends(ok, err) /\ (Head(queue).ok = TRUE => ok = TRUE /\ err = FALSE),
             r.do = "add" => Save(r.session, r.hw), r.do = "remove" => Forget(r.hw),
             r.do \notin {"add", "remove"} => hwIds' = hwIds /\ SameFences(fences, fences')
      PROVE  CalmEnds
  <2>1. Head(queue).ok = TRUE /\ r.then = then /\ r.do = then BY <1>1, CalmAnswer, AnsweredHead
  <2>2. Ends(TRUE, FALSE) BY <1>1, <2>1
  <2> QED BY <1>1, <2>1, <2>2 DEF CalmEnds, Others
<1>2. ASSUME NEW then \in Kinds, Answered(then)
      PROVE  Head(queue).ok = TRUE /\ r.do = then /\ r.hw \in HwIds
  BY <1>2, CalmAnswer, AnsweredHead
<1>3. {"add", "remove", "pause", "resume", "modify"} \subseteq Kinds BY DEF Kinds
<1>4. SameFences(fences, fences) BY DEF SameFences
<1>5. CASE ProcAdded
  <2>1. Answered("add") /\ UNCHANGED requests /\ Others
        /\ (Head(queue).ok = TRUE => Save(r.session, r.hw))
    BY <1>5 DEF ProcAdded
  <2>2. Ends(Head(queue).ok, ~Head(queue).ok) BY <1>5, ProcAddedKind
  <2>3. r.do = "add" /\ Head(queue).ok = TRUE BY <1>2, <1>3, <2>1
  <2>4. \E ok, err : Ends(ok, err) /\ (Head(queue).ok = TRUE => ok = TRUE /\ err = FALSE)
    BY <2>2
  <2> QED BY <1>1, <1>3, <2>1, <2>3, <2>4
<1>6. CASE ProcRemoved
  <2>1. Answered("remove") /\ UNCHANGED requests /\ Others
        /\ (Head(queue).ok = TRUE => Forget(r.hw))
    BY <1>6 DEF ProcRemoved, AfterRemove
  <2>2. Ends(Head(queue).ok, ~Head(queue).ok) BY <1>6, ProcRemovedKind
  <2>3. r.do = "remove" /\ Head(queue).ok = TRUE BY <1>2, <1>3, <2>1
  <2>4. \E ok, err : Ends(ok, err) /\ (Head(queue).ok = TRUE => ok = TRUE /\ err = FALSE)
    BY <2>2
  <2> QED BY <1>1, <1>3, <2>1, <2>3, <2>4
<1>7. CASE ProcPaused
  <2>1. Answered("pause") /\ UNCHANGED requests /\ Others
        /\ (SetPaused(r.hw, TRUE) \/ Keep)
    BY <1>7 DEF ProcPaused
  <2>2. Ends(Head(queue).ok, ~Head(queue).ok) BY <1>7, ProcPausedKind
  <2>3. r.do = "pause" /\ r.hw \in HwIds BY <1>2, <1>3, <2>1
  <2>4. \E ok, err : Ends(ok, err) /\ (Head(queue).ok = TRUE => ok = TRUE /\ err = FALSE)
    BY <2>2
  <2>5. hwIds' = hwIds /\ SameFences(fences, fences')
    BY <1>4, <2>1, <2>3, PausedTyped DEF Keep, SameFences, Others
  <2> QED BY <1>1, <1>3, <2>1, <2>3, <2>4, <2>5
<1>8. CASE ProcResumed
  <2>1. Answered("resume") /\ UNCHANGED requests /\ Others
        /\ (SetPaused(r.hw, FALSE) \/ Keep)
    BY <1>8 DEF ProcResumed
  <2>2. r.do = "resume" /\ r.hw \in HwIds /\ Head(queue).ok = TRUE BY <1>2, <1>3, <2>1
  <2>3. Ends(TRUE, FALSE) BY <1>8, <2>2, ProcResumedKind
  <2>4. \E ok, err : Ends(ok, err) /\ (Head(queue).ok = TRUE => ok = TRUE /\ err = FALSE)
    BY <2>3
  <2>5. hwIds' = hwIds /\ SameFences(fences, fences')
    BY <1>4, <2>1, <2>2, PausedTyped DEF Keep, SameFences, Others
  <2> QED BY <1>1, <1>3, <2>1, <2>2, <2>4, <2>5
<1>9. CASE ProcModified
  <2>1. Answered("modify") /\ UNCHANGED requests /\ Others /\ Keep BY <1>9 DEF ProcModified
  <2>2. r.do = "modify" BY <1>2, <1>3, <2>1
  <2>3. Ends(Head(queue).ok, ~Head(queue).ok /\ ~Unlocked) BY <1>9, ProcModifiedKind
  <2>4. \E ok, err : Ends(ok, err) /\ (Head(queue).ok = TRUE => ok = TRUE /\ err = FALSE)
    BY <2>3
  <2>5. hwIds' = hwIds /\ SameFences(fences, fences') BY <1>4, <2>1 DEF Keep
  <2> QED BY <1>1, <1>3, <2>1, <2>2, <2>4, <2>5
<1> QED BY <1>5, <1>6, <1>7, <1>8, <1>9

LEMMA CalmAdapter ==
    ASSUME Base, CalmInv, Orderly, client, Adapter
    PROVE  CalmGoes \/ CalmEnds \/ (Idle /\ client' = FALSE)
<1>1. TypeOK /\ Shape(queue, requests, commands) BY DEF Base
<1>2. SameFences(fences, fences) BY DEF SameFences
<1>3. CASE ProcCommand \/ ProcCalled BY <1>1, <1>3, CalmCommand, CalmCalled
<1>4. CASE ProcAdded \/ ProcRemoved \/ ProcPaused \/ ProcResumed \/ ProcModified
  BY <1>1, <1>4, CalmAnswered
<1>5. CASE ProcRestored \/ ProcGone \/ ProcNothing
  <2>1. \E then \in {"restart", "gone", "nothing"} : Answered(then)
    BY <1>5 DEF ProcRestored, ProcGone, ProcNothing
  <2> QED BY <1>1, <2>1, CalmAnswer DEF Kinds
<1>6. CASE ProcSlept
  <2> DEFINE r == Head(queue).to
  <2>1. PICK then \in {"suspend", "wake"} : Answered(then) BY <1>6 DEF ProcSlept
  <2>2. (SetPaused(r.hw, r.then = "suspend") \/ Keep) /\ UNCHANGED requests /\ NobodyHears /\ Others
    BY <1>6 DEF ProcSlept
  <2>3. then \notin Kinds BY DEF Kinds
  <2>4. queue # <<>> /\ queue' = Tail(queue) /\ r.n = 0 /\ r.hw \in HwIds
    BY <1>1, <2>1, <2>3, AnsweredHead
  <2>5. hwIds' = hwIds /\ SameFences(fences, fences')
    <3>1. (r.then = "suspend") \in BOOLEAN /\ UNCHANGED <<client, power>> BY <2>2 DEF Others
    <3>2. CASE Keep BY <1>2, <3>2 DEF Keep
    <3>3. CASE SetPaused(r.hw, r.then = "suspend")
      BY <1>1, <2>4, <3>1, <3>3, PausedTyped DEF SameFences
    <3> QED BY <2>2, <3>2, <3>3
  <2>6. Idle BY <1>1, <1>6, ProcSleptKind
  <2> QED BY <1>1, <2>2, <2>4, <2>5, <2>6, CalmNone DEF Others
<1>7. CASE ProcEngineUp
  <2>1. queue # <<>> /\ Head(queue).what = "up" BY <1>7 DEF ProcEngineUp, Turn
  <2> QED BY <1>1, <2>1, CalmHead DEF MessageFinds
<1>8. CASE ProcPower
  <2>1. Head(queue).what = "power" /\ UNCHANGED <<user, client, fences, hwIds>>
    BY <1>8 DEF ProcPower, Turn
  <2>2. Idle BY <1>1, <1>8, ProcPowerKind
  <2>3. PICK out : Taken(out) /\ \A k \in DOMAIN out : Asleep(out[k])
    BY <1>1, <1>8, ProcPowerKind
  <2>4. ~Removing(Head(queue)) /\ ~Adding(Head(queue)) BY <2>1 DEF Removing, Adding
  <2>5. client' = client /\ hwIds' = hwIds /\ SameFences(fences, fences') /\ SameEntries
    BY <1>2, <2>1 DEF user, SameEntries
  <2>6. \A k \in DOMAIN out : RequestFinds(out[k], hwIds, modem) /\ NamedByRequest(out[k]) = {}
    BY <2>3 DEF Asleep, RequestFinds, NamedByRequest
  <2> QED BY <2>2, <2>3, <2>4, <2>5, <2>6 DEF CalmGoes
<1>9. CASE ProcDestroy
  <2>1. Idle BY <1>1, <1>9, ProcDestroyKind
  <2> QED BY <1>9, <2>1 DEF ProcDestroy
<1>10. CASE ProcBreach
  <2>1. queue # <<>> /\ queue' = Tail(queue) /\ Head(queue).what = "breach"
        /\ UNCHANGED <<user, adapter, requests>>
    BY <1>10 DEF ProcBreach, Turn
  <2>2. Idle BY <1>1, <1>10, ProcBreachKind
  <2>3. NobodyHears /\ client' = client /\ hwIds' = hwIds /\ SameFences(fences, fences')
    BY <1>2, <2>1 DEF user, adapter, NobodyHears
  <2> QED BY <1>1, <2>1, <2>2, <2>3, CalmNone
<1> QED BY <1>3, <1>4, <1>5, <1>6, <1>7, <1>8, <1>9, <1>10 DEF Adapter

-----------------------------------------------------------------------------
(* What an item finds and leaves                                             *)

LEMMA OneSent ==
    ASSUME TypeOK, Shape(queue, requests, commands), NEW n \in DOMAIN commands,
           commands[n].do # "remove", NEW s \in Sent(commands, n)
    PROVE  Sent(commands, n) = {s}
<1> DEFINE a == commands[n].sessions
<1>1. a \in Seq(Sessions) /\ Len(a) = 1 BY CommandTyped DEF Shape, CommandFits
<1>2. DOMAIN a = {1} BY <1>1, LenProperties
<1> QED BY <1>2 DEF Sent, Range

LEMMA CalmItem ==
    ASSUME Base, CalmInv, Orderly, client, CalmEnds
    PROVE  LET r == Head(queue).to IN
           /\ queue # <<>> /\ Head(queue).what = "answer" /\ queue' = Tail(queue)
           /\ r.n # 0 /\ r.n \in DOMAIN commands /\ r.do = commands[r.n].do
           /\ r.session \in Sessions /\ r.session \in Sent(commands, r.n) /\ r.hw \in ModemIds
           /\ r.do \in Kinds /\ r.flag \in BOOLEAN
           /\ r.do = "add" =>
                 /\ Adding(Head(queue)) /\ hwIds[r.session] = NoHw
                 /\ hwIds' = [hwIds EXCEPT ![r.session] = r.hw]
                 /\ fences' = [fences EXCEPT ![r.hw] = [session |-> r.session, paused |-> FALSE]]
           /\ r.do # "add" => hwIds[r.session] = r.hw
           /\ r.do = "remove" =>
                 /\ Removing(Head(queue)) /\ fences[r.hw].session = r.session
                 /\ hwIds' = [hwIds EXCEPT ![r.session] = NoHw]
                 /\ fences' = [fences EXCEPT ![r.hw] = NoFence]
           /\ r.do \notin {"add", "remove"} =>
                 /\ hwIds' = hwIds /\ SameFences(fences, fences')
                 /\ ~Adding(Head(queue)) /\ ~Removing(Head(queue))
<1> DEFINE m == Head(queue)
           r == m.to
<1>1. TypeOK /\ Shape(queue, requests, commands) /\ MapsAgree(queue, hwIds, fences, modem, commands)
  BY DEF Base, CalmInv
<1>2. /\ queue # <<>> /\ m.what = "answer" /\ queue' = Tail(queue) /\ r.n # 0 /\ r.do = r.then /\ r.do \in Kinds
      /\ r.do = "add" => Save(r.session, r.hw)
      /\ r.do = "remove" => Forget(r.hw)
      /\ r.do \notin {"add", "remove"} => hwIds' = hwIds /\ SameFences(fences, fences')
  BY DEF CalmEnds, Ends, Taken
<1>3. /\ r.n \in DOMAIN commands /\ r.session \in Sessions /\ r.hw \in HwIds /\ r.flag \in BOOLEAN
      /\ r.then = commands[r.n].do /\ r.session \in Sent(commands, r.n)
  BY <1>1, <1>2, HeadAnswer DEF RequestFits
<1>4. 1 \in DOMAIN queue /\ m = queue[1] BY <1>1, <1>2, HasTaken DEF TypeOK
<1>5. MessageFinds(m, hwIds, modem) BY <1>1, <1>2, CalmHead
<1> HIDE DEF r, m
<1>6. /\ Adding(m) <=> r.do = "add"
      /\ Removing(m) <=> r.do = "remove"
  BY <1>2 DEF Adding, Removing, r
<1>7. CASE r.do = "add"
  <2>1. r.hw \in ModemIds /\ hwIds[r.session] = NoHw BY <1>1, <1>4, <1>6, <1>7 DEF MapsAgree, r
  <2>2. Save(r.session, r.hw) BY <1>2, <1>7
  <2> QED BY <1>2, <1>3, <1>6, <1>7, <2>1, <2>2 DEF r, m, Save
<1>8. CASE r.do # "add"
  <2>1. RequestFinds(r, hwIds, modem) BY <1>2, <1>5, <1>6, <1>8 DEF MessageFinds, r
  <2>2. hwIds[r.session] # NoHw /\ r.hw = hwIds[r.session]
    BY <1>2, <1>8, <2>1 DEF RequestFinds, Kinds
  <2>3. r.hw \in ModemIds /\ fences[r.hw] # NoFence /\ fences[r.hw].session = r.session
    BY <1>1, <1>3, <2>2 DEF MapsAgree
  <2>4. CASE r.do = "remove"
    <3>1. Forget(r.hw) BY <1>2, <2>4
    <3>2. hwIds' = [hwIds EXCEPT ![r.session] = NoHw] /\ fences' = [fences EXCEPT ![r.hw] = NoFence]
      BY <2>2, <2>3, <3>1 DEF Forget
    <3> QED BY <1>2, <1>3, <1>6, <2>2, <2>3, <2>4, <3>2 DEF r, m
  <2>5. CASE r.do # "remove" BY <1>2, <1>3, <1>6, <1>8, <2>2, <2>3, <2>5 DEF r, m
  <2> QED BY <2>4, <2>5
<1> QED BY <1>7, <1>8

-----------------------------------------------------------------------------
(* The sessions of the framework's ids                                       *)

LEMMA IdsStand ==
    ASSUME IdsInv, TypeOK, UNCHANGED <<world, forward>>,
           Kept(commands, commands'), DOMAIN commands' = DOMAIN commands,
           Orderly /\ ~Destroyed' =>
              /\ ~Destroyed
              /\ \A id \in Ids : forward[id] # 0 /\ (Waiting(id) \/ hwIds[forward[id]] # NoHw)
                    => Waiting(id)' \/ hwIds'[forward[id]] # NoHw
    PROVE  IdsInv'
<1>1. /\ Used(commands') = Used(commands)
      /\ \A n \in DOMAIN commands : Sent(commands', n) = Sent(commands, n) /\ commands'[n].do = commands[n].do
  BY SameUsed DEF Kept
<1>2. \A id \in Ids : forward[id] \in Used(commands) \cup {0} BY DEF IdsInv
<1>3. \A i, j \in Ids : forward[i] = forward[j] /\ forward[i] # 0 => i = j BY DEF IdsInv
<1>4. \A n \in DOMAIN commands, id \in Ids :
          commands[n].do = "remove" => forward[id] \notin Sent(commands, n)
  BY DEF IdsInv
<1>5. Orderly /\ ~Destroyed =>
          \A id \in Ids : forward[id] # 0 => Waiting(id) \/ hwIds[forward[id]] # NoHw
  BY DEF IdsInv
<1>6. Orderly' <=> Orderly BY OrderlyIs
<1>7. Orderly' /\ ~Destroyed' =>
          \A id \in Ids : forward'[id] # 0 => Waiting(id)' \/ hwIds'[forward'[id]] # NoHw
  BY <1>5, <1>6
<1>8. \A n \in DOMAIN commands', id \in Ids :
          commands'[n].do = "remove" => forward'[id] \notin Sent(commands', n)
  BY <1>1, <1>4
<1> QED BY <1>1, <1>2, <1>3, <1>7, <1>8 DEF IdsInv

LEMMA IdsSame ==
    ASSUME IdsInv, TypeOK, UNCHANGED <<world, forward, commands, requestQueue, hwIds>>,
           Destroyed' <=> Destroyed
    PROVE  IdsInv'
<1>1. Kept(commands, commands') /\ DOMAIN commands' = DOMAIN commands BY DEF Kept
<1>2. \A id \in Ids : Waiting(id)' <=> Waiting(id) BY DEF Waiting
<1> QED BY <1>1, <1>2, IdsStand

LEMMA IdsAdapter ==
    ASSUME Base, EntryInv, IdsInv, CalmInv, Adapter
    PROVE  IdsInv'
<1>1. TypeOK /\ Shape(queue, requests, commands) /\ Sorted(queue, requests) BY DEF Base
<1>2. UNCHANGED <<world, forward>> /\ Takes BY <1>1, AdapterKind
<1>3. Kept(commands, commands') /\ DOMAIN commands' = DOMAIN commands BY <1>1, <1>2, TakesKeep
<1>4. Destroyed' <=> Destroyed BY <1>1, DestroyedStays
<1> SUFFICES ASSUME Orderly, ~Destroyed, ~Destroyed', NEW id \in Ids, forward[id] # 0,
                    Waiting(id) \/ hwIds[forward[id]] # NoHw
             PROVE  Waiting(id)' \/ hwIds'[forward[id]] # NoHw
  BY <1>1, <1>2, <1>3, <1>4, IdsStand
<1>5. client /\ client' # FALSE BY DEF Destroyed
<1>6. CASE CalmGoes BY <1>6 DEF CalmGoes, SameEntries, Waiting
<1>7. CASE CalmEnds
  <2> DEFINE r == Head(queue).to
             f == forward[id]
  <2>1. /\ queue # <<>> /\ Head(queue).what = "answer"
        /\ r.n # 0 /\ r.n \in DOMAIN commands /\ r.do = commands[r.n].do
        /\ r.session \in Sessions /\ r.session \in Sent(commands, r.n) /\ r.hw \in ModemIds
        /\ r.do \in Kinds /\ r.flag \in BOOLEAN
        /\ r.do = "add" => hwIds' = [hwIds EXCEPT ![r.session] = r.hw]
        /\ r.do # "add" => hwIds[r.session] = r.hw
        /\ r.do = "remove" => hwIds' = [hwIds EXCEPT ![r.session] = NoHw]
        /\ r.do \notin {"add", "remove"} => hwIds' = hwIds
    BY <1>5, <1>7, CalmItem
  <2>2. requestQueue' = IF r.flag /\ client /\ requestQueue # <<>> THEN Tail(requestQueue) ELSE requestQueue
    BY <1>1, <1>7, EndsEffect DEF CalmEnds
  <2>3. r.flag => requestQueue # <<>> /\ requestQueue[1].n = r.n
    <3>1. r.do # "call" BY <2>1 DEF Kinds
    <3> QED BY <2>1, <3>1, OwnEntry
  <2>4. r.hw # NoHw /\ hwIds \in [Sessions -> HwIds \cup {NoHw}]
    <3>1. r.hw \in 1..MaxSessions /\ MaxSessions \in Nat
      BY <2>1, GeofenceAssumption DEF ModemIds
    <3>2. r.hw # -1 BY <3>1
    <3>3. hwIds \in [Sessions -> HwIds \cup {NoHw}] BY <1>1 DEF TypeOK
    <3> QED BY <3>2, <3>3 DEF NoHw
  <2>5. f \in Sessions BY <1>1, GeofenceAssumption DEF TypeOK, Sessions
  <2>6. r.do = "remove" => f \notin Sent(commands, r.n) BY <2>1 DEF IdsInv
  <2> HIDE DEF r, f
  <2>7. hwIds[f] # NoHw => hwIds'[f] # NoHw BY <2>1, <2>4, <2>5, <2>6
  <2>8. CASE Waiting(id) /\ ~Waiting(id)'
    <3>1. r.flag /\ requestQueue' = Tail(requestQueue) /\ requestQueue # <<>>
      BY <1>5, <2>2, <2>8 DEF Waiting
    <3>2. id \in requestQueue[1].ids
      <4>1. \A k \in DOMAIN requestQueue :
               k = 1 \/ (k - 1 \in DOMAIN Tail(requestQueue) /\ requestQueue[k] = Tail(requestQueue)[k - 1])
        BY <1>1, <3>1, EntriesTyped, HasTaken
      <4> QED BY <2>8, <3>1, <4>1 DEF Waiting
    <3>3. 1 \in DOMAIN requestQueue BY <1>1, <3>1, EntriesTyped, HasTaken
    <3>4. f \in Sent(commands, r.n) BY <2>3, <3>1, <3>2, <3>3 DEF EntryInv, f
    <3>5. r.do # "remove" BY <2>6, <3>4
    <3>6. f = r.session BY <1>1, <2>1, <3>4, <3>5, OneSent
    <3> QED BY <2>1, <2>4, <3>5, <3>6 DEF f
  <2> QED BY <2>7, <2>8 DEF f
<1> QED BY <1>1, <1>5, <1>6, <1>7, CalmAdapter

LEMMA IdsSends ==
    ASSUME Base, IdsInv, NEW do, NEW ids, NEW sessions, Sends(do, ids, sessions),
           Names(do, ids, sessions)
    PROVE  IdsInv'
<1> DEFINE n == Len(commands) + 1
           e == NewEntry(do, n, ids)
           l == Len(requestQueue) + 1
<1>1. TypeOK /\ Shape(queue, requests, commands) BY DEF Base
<1>2. /\ n \notin DOMAIN commands
      /\ DOMAIN commands' = DOMAIN commands \cup {n} /\ commands'[n] = NewCommand(do, sessions)
      /\ Kept(commands, commands')
      /\ Used(commands') = IF do = "add" THEN 1..NewSession ELSE Used(commands)
      /\ Used(commands) \subseteq Used(commands')
      /\ e \in Entries /\ requestQueue' = Append(requestQueue, e) /\ ~Destroyed
      /\ UNCHANGED <<world, adapter>>
  BY SendEffect DEF Base
<1>3. /\ \A k \in DOMAIN requestQueue : k \in DOMAIN requestQueue' /\ requestQueue'[k] = requestQueue[k]
      /\ l \in DOMAIN requestQueue' /\ requestQueue'[l] = e
  <2>1. Len(requestQueue) \in Nat => Len(requestQueue) + 1 \in 1..(Len(requestQueue) + 1)
    OBVIOUS
  <2> QED BY <1>1, <1>2, <2>1, EntriesTyped, HasAppended
<1>4. e.ids = ids /\ NewCommand(do, sessions).sessions = sessions /\ NewCommand(do, sessions).do = do
  BY DEF NewEntry, NewCommand
<1>5. /\ Sent(commands', n) = Range(sessions) /\ commands'[n].do = do
      /\ \A k \in DOMAIN commands : /\ Sent(commands', k) = Sent(commands, k)
                                    /\ Sent(commands, k) \subseteq Used(commands)
                                    /\ commands'[k].do = commands[k].do
  BY <1>1, <1>2, <1>4 DEF Sent, Kept, Shape, CommandFits
<1>6. /\ \A s \in Used(commands) : s # 0 /\ s # NewSession
      /\ NewSession \in 1..NewSession
  BY <1>1, AdditionsFinite
<1> HIDE DEF n, e, l
<1>7. ASSUME NEW id \in Ids
      PROVE  forward'[id] \in Used(commands') \cup {0}
  <2>1. forward[id] \in Used(commands) \cup {0} BY DEF IdsInv
  <2> QED BY <1>2, <1>6, <2>1 DEF Names
<1>8. \A i, j \in Ids : forward'[i] = forward'[j] /\ forward'[i] # 0 => i = j BY DEF Names
<1>9. ASSUME NEW k \in DOMAIN commands', NEW id \in Ids, commands'[k].do = "remove"
      PROVE  forward'[id] \notin Sent(commands', k)
  <2>1. CASE k = n BY <1>5, <1>9, <2>1 DEF Names
  <2>2. CASE k \in DOMAIN commands
    <3>1. forward[id] \notin Sent(commands, k) /\ 0 \notin Sent(commands, k) /\ NewSession \notin Sent(commands, k)
      BY <1>5, <1>6, <1>9, <2>2 DEF IdsInv
    <3> QED BY <1>5, <2>2, <3>1 DEF Names
  <2> QED BY <1>2, <2>1, <2>2
<1>10. ASSUME Orderly, NEW id \in Ids, forward'[id] # 0
       PROVE  Waiting(id)' \/ hwIds'[forward'[id]] # NoHw
  <2>1. hwIds' = hwIds BY <1>2 DEF adapter
  <2>2. CASE forward'[id] = forward[id]
    <3>1. Waiting(id) \/ hwIds[forward[id]] # NoHw BY <1>2, <1>10, <2>2 DEF IdsInv
    <3>2. Waiting(id) => Waiting(id)' BY <1>3 DEF Waiting
    <3> QED BY <2>1, <2>2, <3>1, <3>2
  <2>3. CASE ids = {id}
    <3>1. Waiting(id)' BY <1>3, <1>4, <2>3 DEF Waiting
    <3> QED BY <3>1
  <2> QED BY <1>10, <2>2, <2>3 DEF Names
<1>11. Orderly' <=> Orderly BY <1>2, OrderlyIs
<1> QED BY <1>7, <1>8, <1>9, <1>10, <1>11 DEF IdsInv

-----------------------------------------------------------------------------
(* Where nothing fails the maps agree, and what is under way finds them so.  *)

Calm(q, rs, hs, fs, mo, cs) ==
    /\ Apart(q, rs)
    /\ MapsAgree(q, hs, fs, mo, cs)
    /\ \A k \in DOMAIN rs : RequestFinds(rs[k], hs, mo)
    /\ \A k \in DOMAIN q : MessageFinds(q[k], hs, mo)
CalmNow == Calm(queue, requests, hwIds, fences, modem, commands)

LEMMA CalmIs ==
    /\ CalmInv <=> /\ Orderly => engineLock = "enabled" /\ modemUp
                   /\ Orderly /\ client => CalmNow
    /\ CalmInv' <=> /\ Orderly' => engineLock' = "enabled" /\ modemUp'
                    /\ Orderly' /\ client' => CalmNow'
BY DEF CalmInv, CalmNow, Calm

LEMMA SameModems ==
    ASSUME NEW mo, NEW mo2, NEW hs, SameModem(mo, mo2)
    PROVE  /\ \A r : RequestFinds(r, hs, mo) => RequestFinds(r, hs, mo2)
           /\ \A m : MessageFinds(m, hs, mo) => MessageFinds(m, hs, mo2)
<1>1. \A s : Nowhere(hs, mo, s) => Nowhere(hs, mo2, s) BY DEF SameModem, Nowhere, Runs
<1>2. \A r : RequestFinds(r, hs, mo) => RequestFinds(r, hs, mo2) BY <1>1 DEF RequestFinds
<1>3. \A m : MessageFinds(m, hs, mo) => MessageFinds(m, hs, mo2) BY <1>1, <1>2 DEF MessageFinds
<1> QED BY <1>2, <1>3

LEMMA SameModemSelf ==
    ASSUME NEW mo
    PROVE  SameModem(mo, mo)
BY DEF SameModem

LEMMA MapsUsed ==
    ASSUME NEW q, NEW hs, NEW fs, NEW mo, NEW cs, NEW ds, Used(ds) = Used(cs),
           MapsAgree(q, hs, fs, mo, cs)
    PROVE  MapsAgree(q, hs, fs, mo, ds)
BY DEF MapsAgree

(* What is named is of a command that is under way.                          *)
LEMMA NamedIs ==
    ASSUME TypeOK, Shape(queue, requests, commands), NEW s,
           \/ \E k \in DOMAIN queue : s \in NamedBy(queue[k])
           \/ \E k \in DOMAIN requests : s \in NamedByRequest(requests[k])
    PROVE  \E n \in DOMAIN commands : Present(queue, requests, n) /\ s \in Sent(commands, n)
<1>1. ASSUME NEW k \in DOMAIN queue, s \in NamedBy(queue[k])
      PROVE  \E n \in DOMAIN commands : Present(queue, requests, n) /\ s \in Sent(commands, n)
  <2> DEFINE m == queue[k]
  <2>1. MessageFits(m, commands) BY DEF Shape
  <2>2. CASE m.what = "command"
    <3>1. m.n \in DOMAIN commands /\ s \in Sent(commands, m.n)
      BY <1>1, <2>1, <2>2 DEF MessageFits, NamedBy, Sent
    <3>2. OfMessage(m).n = m.n BY <2>2 DEF OfMessage
    <3> QED BY <3>1, <3>2 DEF Present
  <2>3. CASE m.what = "answer"
    <3>1. m.to.n # 0 /\ s = m.to.session BY <1>1, <2>3 DEF NamedBy
    <3>2. m.to.n \in DOMAIN commands /\ s \in Sent(commands, m.to.n)
      BY <2>1, <2>3, <3>1 DEF MessageFits, RequestFits
    <3>3. OfMessage(m).n = m.to.n BY <2>3 DEF OfMessage
    <3> QED BY <3>2, <3>3 DEF Present
  <2> QED BY <1>1, <2>2, <2>3 DEF NamedBy
<1>2. ASSUME NEW k \in DOMAIN requests, s \in NamedByRequest(requests[k])
      PROVE  \E n \in DOMAIN commands : Present(queue, requests, n) /\ s \in Sent(commands, n)
  <2> DEFINE r == requests[k]
  <2>1. r.n # 0 /\ s = r.session BY <1>2 DEF NamedByRequest
  <2>2. r.n \in DOMAIN commands /\ s \in Sent(commands, r.n) BY <2>1 DEF Shape, RequestFits
  <2>3. OfRequest(r).n = r.n BY DEF OfRequest
  <2> QED BY <2>2, <2>3 DEF Present
<1> QED BY <1>1, <1>2

LEMMA CalmAfterGoes ==
    ASSUME Base, CalmNow, CalmGoes, modem' = modem
    PROVE  CalmNow'
<1>1. PICK out : /\ Taken(out) /\ SameEntries
                 /\ \A k \in DOMAIN out : /\ RequestFinds(out[k], hwIds, modem)
                                          /\ NamedByRequest(out[k]) \subseteq NamedBy(Head(queue))
                 /\ \A j, k \in DOMAIN out :
                       j # k => NamedByRequest(out[j]) \cap NamedByRequest(out[k]) = {}
  BY DEF CalmGoes
<1>2. /\ queue \in Seq(Messages) /\ requests \in Seq(Requests) /\ out \in Seq(Requests)
      /\ queue # <<>> /\ queue' = Tail(queue) /\ requests' = requests \o out /\ commands' = commands
      /\ hwIds' = hwIds /\ SameFences(fences, fences') /\ ~Removing(Head(queue)) /\ ~Adding(Head(queue))
  BY <1>1 DEF Base, TypeOK, Taken, SameEntries, CalmGoes
<1>3. Apart(queue', requests') BY <1>1, <1>2, ApartTaken DEF CalmNow, Calm
<1>4. MapsAgree(queue', hwIds', fences', modem', commands')
  BY <1>2, MapsTaken DEF CalmNow, Calm
<1>5. \A k \in DOMAIN requests' : RequestFinds(requests'[k], hwIds', modem')
  BY <1>1, <1>2, HasJoined DEF CalmNow, Calm
<1>6. \A k \in DOMAIN queue' : MessageFinds(queue'[k], hwIds', modem')
  BY <1>2, HasTaken DEF CalmNow, Calm
<1> QED BY <1>3, <1>4, <1>5, <1>6 DEF CalmNow, Calm

LEMMA CalmAfterEnds ==
    ASSUME Base, CalmInv, Orderly, client, CalmEnds, modem' = modem
    PROVE  CalmNow'
<1> DEFINE r == Head(queue).to
           s == r.session
<1>1. /\ TypeOK /\ Shape(queue, requests, commands) /\ CalmNow
      /\ queue \in Seq(Messages) /\ requests \in Seq(Requests)
      /\ hwIds \in [Sessions -> HwIds \cup {NoHw}] /\ fences \in [HwIds -> Fence \cup {NoFence}]
  BY CalmIs DEF Base, TypeOK
<1>2. /\ queue # <<>> /\ Head(queue).what = "answer" /\ queue' = Tail(queue)
      /\ r.n # 0 /\ s \in Sessions /\ r.hw \in ModemIds /\ r.do \in Kinds
      /\ r.do = "add" =>
            /\ Adding(Head(queue)) /\ hwIds[s] = NoHw
            /\ hwIds' = [hwIds EXCEPT ![s] = r.hw]
            /\ fences' = [fences EXCEPT ![r.hw] = [session |-> s, paused |-> FALSE]]
      /\ r.do # "add" => hwIds[s] = r.hw
      /\ r.do = "remove" =>
            /\ Removing(Head(queue)) /\ fences[r.hw].session = s
            /\ hwIds' = [hwIds EXCEPT ![s] = NoHw]
            /\ fences' = [fences EXCEPT ![r.hw] = NoFence]
      /\ r.do \notin {"add", "remove"} =>
            /\ hwIds' = hwIds /\ SameFences(fences, fences')
            /\ ~Adding(Head(queue)) /\ ~Removing(Head(queue))
  BY CalmItem
<1>3. requests' = requests /\ Ends(TRUE, FALSE) BY DEF CalmEnds
<1>4. Kept(commands, commands') /\ DOMAIN commands' = DOMAIN commands BY <1>1, <1>3, EndsEffect
<1>5. Used(commands') = Used(commands) BY <1>4, SameUsed
<1>6. NamedBy(Head(queue)) = {s} BY <1>2 DEF NamedBy
<1>7. /\ 1 \in DOMAIN queue /\ Head(queue) = queue[1]
      /\ \A k \in DOMAIN Tail(queue) : k \in Int /\ k >= 1 /\ k + 1 \in DOMAIN queue /\ Tail(queue)[k] = queue[k + 1]
  BY <1>1, <1>2, HasTaken
<1>8. r.hw \in HwIds BY <1>2, GeofenceAssumption DEF ModemIds, HwIds
<1> HIDE DEF r, s
<1>9. /\ \A k \in DOMAIN Tail(queue) : s \notin NamedBy(Tail(queue)[k])
      /\ \A k \in DOMAIN requests : s \notin NamedByRequest(requests[k])
  <2>1. ASSUME NEW k \in DOMAIN Tail(queue) PROVE s \notin NamedBy(Tail(queue)[k])
    <3>1. k + 1 \in DOMAIN queue /\ k + 1 # 1 /\ Tail(queue)[k] = queue[k + 1] BY <1>7
    <3>2. NamedBy(queue[1]) \cap NamedBy(queue[k + 1]) = {}
      BY <1>1, <1>7, <3>1 DEF CalmNow, Calm, Apart
    <3> QED BY <1>6, <1>7, <3>1, <3>2
  <2>2. ASSUME NEW k \in DOMAIN requests PROVE s \notin NamedByRequest(requests[k])
    <3>1. NamedBy(queue[1]) \cap NamedByRequest(requests[k]) = {}
      BY <1>1, <1>7 DEF CalmNow, Calm, Apart
    <3> QED BY <1>6, <1>7, <3>1
  <2> QED BY <2>1, <2>2
<1>10. Apart(queue', requests')
  <2>1. requests \o <<>> = requests /\ <<>> \in Seq(Requests) /\ DOMAIN <<>> = {}
    BY <1>1, ConcatEmptySeq
  <2>2. Apart(Tail(queue), requests \o <<>>) BY <1>1, <1>2, <2>1, ApartTaken DEF CalmNow, Calm
  <2> QED BY <1>2, <1>3, <2>1, <2>2
<1>11. SameBut(s, hwIds, modem, hwIds', modem')
  <2>1. \A t \in Sessions \ {s} : hwIds'[t] = hwIds[t] BY <1>1, <1>2
  <2> QED BY <2>1 DEF SameBut
<1>12. \A k \in DOMAIN requests' : RequestFinds(requests'[k], hwIds', modem')
  <2> SUFFICES ASSUME NEW k \in DOMAIN requests PROVE RequestFinds(requests[k], hwIds', modem')
    BY <1>3
  <2>1. RequestFinds(requests[k], hwIds, modem) BY <1>1 DEF CalmNow, Calm
  <2>2. requests[k].n = 0 \/ requests[k].session \in Sessions BY <1>1 DEF Shape, RequestFits
  <2> QED BY <1>9, <1>11, <2>1, <2>2, RequestStillFinds
<1>13. \A k \in DOMAIN queue' : MessageFinds(queue'[k], hwIds', modem')
  <2> SUFFICES ASSUME NEW k \in DOMAIN Tail(queue) PROVE MessageFinds(Tail(queue)[k], hwIds', modem')
    BY <1>2
  <2>1. k + 1 \in DOMAIN queue /\ Tail(queue)[k] = queue[k + 1] BY <1>7
  <2>2. MessageFinds(Tail(queue)[k], hwIds, modem) BY <1>1, <2>1 DEF CalmNow, Calm
  <2>3. MessageFits(Tail(queue)[k], commands) BY <1>1, <2>1 DEF Shape
  <2> QED BY <1>9, <1>11, <2>2, <2>3, MessageStillFinds
<1>14. MapsAgree(queue', hwIds', fences', modem', commands)
  <2>1. MapsAgree(queue, hwIds, fences, modem, commands) BY <1>1 DEF CalmNow, Calm
  <2>2. CASE r.do = "add"
    <3>1. /\ Adding(Head(queue)) /\ s = Head(queue).to.session /\ r.hw = Head(queue).to.hw
          /\ hwIds' = [hwIds EXCEPT ![s] = r.hw]
          /\ fences' = [fences EXCEPT ![r.hw] = [session |-> s, paused |-> FALSE]]
      BY <1>2, <2>2 DEF r, s
    <3>2. MapsAgree(Tail(queue), [hwIds EXCEPT ![s] = r.hw],
                    [fences EXCEPT ![r.hw] = [session |-> s, paused |-> FALSE]], modem, commands)
      BY <1>1, <1>2, <1>9, <2>1, <3>1, MapsAdded
    <3> QED BY <1>2, <3>1, <3>2
  <2>3. CASE r.do = "remove"
    <3>1. /\ Removing(Head(queue)) /\ s = Head(queue).to.session
          /\ hwIds' = [hwIds EXCEPT ![s] = NoHw] /\ fences' = [fences EXCEPT ![r.hw] = NoFence]
          /\ hwIds[s] = r.hw /\ fences[r.hw].session = s
      BY <1>2, <2>3 DEF r, s
    <3>2. MapsAgree(Tail(queue), [hwIds EXCEPT ![s] = NoHw], [fences EXCEPT ![r.hw] = NoFence],
                    modem, commands)
      BY <1>1, <1>2, <1>8, <1>9, <2>1, <3>1, MapsRemoved
    <3> QED BY <1>2, <3>1, <3>2
  <2>4. CASE r.do \notin {"add", "remove"} BY <1>1, <1>2, <2>1, <2>4, MapsTaken
  <2> QED BY <2>2, <2>3, <2>4
<1>15. MapsAgree(queue', hwIds', fences', modem', commands') BY <1>5, <1>14, MapsUsed
<1> QED BY <1>10, <1>12, <1>13, <1>15 DEF CalmNow, Calm

-----------------------------------------------------------------------------
(* The same for the other steps                                              *)

(* Something moves on to the adapter and leaves the modem's geofences.       *)
LEMMA CalmAfterMoves ==
    ASSUME Base, CalmNow, NEW m, Moves(m), SameModem(modem, modem'),
           ~Removing(m), ~Adding(m), NamedBy(m) \subseteq NamedByRequest(Head(requests)),
           MessageFinds(m, hwIds, modem)
    PROVE  CalmNow'
<1>1. /\ queue \in Seq(Messages) /\ requests \in Seq(Requests) /\ requests # <<>> /\ m \in Messages
      /\ queue' = Append(queue, m) /\ requests' = Tail(requests) /\ commands' = commands
      /\ hwIds' = hwIds /\ fences' = fences
  BY DEF Base, TypeOK, Moves, user, adapter
<1>2. Apart(queue', requests') BY <1>1, ApartMoved DEF CalmNow, Calm
<1>3. MapsAgree(queue', hwIds', fences', modem', commands')
  BY <1>1, MapsPosted DEF CalmNow, Calm
<1>4. /\ \A k \in DOMAIN requests : RequestFinds(requests[k], hwIds, modem')
      /\ \A k \in DOMAIN queue : MessageFinds(queue[k], hwIds, modem')
      /\ MessageFinds(m, hwIds, modem')
  BY SameModems DEF CalmNow, Calm
<1>5. \A k \in DOMAIN requests' : RequestFinds(requests'[k], hwIds', modem')
  BY <1>1, <1>4, HasTaken
<1>6. \A k \in DOMAIN queue' : MessageFinds(queue'[k], hwIds', modem')
  BY <1>1, <1>4, HasAppended
<1> QED BY <1>2, <1>3, <1>5, <1>6 DEF CalmNow, Calm

(* The modem has changed the geofence of the request alone.                  *)
LEMMA CalmAfterChange ==
    ASSUME Base, CalmNow, NEW m, Moves(m), NEW s, NamedBy(m) = {s}, NamedByRequest(Head(requests)) = {s},
           SameBut(s, hwIds, modem, hwIds, modem'),
           MapsAgree(Append(queue, m), hwIds, fences, modem', commands),
           MessageFinds(m, hwIds, modem')
    PROVE  CalmNow'
<1>1. /\ queue \in Seq(Messages) /\ requests \in Seq(Requests) /\ requests # <<>> /\ m \in Messages
      /\ queue' = Append(queue, m) /\ requests' = Tail(requests) /\ commands' = commands
      /\ hwIds' = hwIds /\ fences' = fences /\ Shape(queue, requests, commands)
  BY DEF Base, TypeOK, Moves, user, adapter
<1>2. /\ Apart(Append(queue, m), Tail(requests))
      /\ \A k \in DOMAIN queue : NamedBy(queue[k]) \cap {s} = {}
      /\ \A k \in DOMAIN Tail(requests) : NamedByRequest(Tail(requests)[k]) \cap {s} = {}
  BY <1>1, ApartMoved DEF CalmNow, Calm
<1>3. \A k \in DOMAIN queue : MessageFinds(queue[k], hwIds, modem')
  <2> TAKE k \in DOMAIN queue
  <2>1. MessageFinds(queue[k], hwIds, modem) /\ MessageFits(queue[k], commands) /\ s \notin NamedBy(queue[k])
    BY <1>1, <1>2 DEF CalmNow, Calm, Shape
  <2> QED BY <2>1, MessageStillFinds
<1>4. \A k \in DOMAIN Tail(requests) : RequestFinds(Tail(requests)[k], hwIds, modem')
  <2> TAKE k \in DOMAIN Tail(requests)
  <2>1. k + 1 \in DOMAIN requests /\ Tail(requests)[k] = requests[k + 1] BY <1>1, HasTaken
  <2>2. RequestFinds(Tail(requests)[k], hwIds, modem) /\ RequestFits(Tail(requests)[k], commands)
    BY <1>1, <2>1 DEF CalmNow, Calm, Shape
  <2>3. Tail(requests)[k].n = 0 \/ Tail(requests)[k].session \in Sessions
    BY <2>2 DEF RequestFits
  <2>4. s \notin NamedByRequest(Tail(requests)[k]) BY <1>2
  <2> QED BY <2>2, <2>3, <2>4, RequestStillFinds
<1>5. \A k \in DOMAIN queue' : MessageFinds(queue'[k], hwIds', modem')
  BY <1>1, <1>3, HasAppended
<1> QED BY <1>1, <1>2, <1>4, <1>5 DEF CalmNow, Calm

LEMMA CalmRequest ==
    ASSUME Base, CalmNow, requests # <<>>
    PROVE  LET r == Head(requests) IN
           /\ RequestFinds(r, hwIds, modem) /\ RequestFits(r, commands) /\ r \in Requests
           /\ 1 \in DOMAIN requests /\ r = requests[1] /\ r.do # "open"
<1>1. TypeOK /\ Shape(queue, requests, commands) /\ requests \in Seq(Requests)
  BY DEF Base, TypeOK
<1>2. 1 \in DOMAIN requests /\ Head(requests) = requests[1] BY <1>1, HasTaken
<1>3. RequestFinds(Head(requests), hwIds, modem) BY <1>2 DEF CalmNow, Calm
<1>4. RequestFits(Head(requests), commands) /\ Head(requests) \in Requests BY <1>1, HeadRequest
<1>5. Head(requests).do # "open" BY <1>3, <1>4 DEF RequestFinds, RequestFits
<1> QED BY <1>2, <1>3, <1>4, <1>5

LEMMA CalmAfterCall ==
    ASSUME Base, CalmNow, LocApiCall
    PROVE  CalmNow'
<1> DEFINE r == Head(requests)
           m == [what |-> "answer", ok |-> TRUE, to |-> r]
<1>1. TypeOK /\ Shape(queue, requests, commands) BY DEF Base
<1>2. Moves(m) /\ modem' = modem /\ r.do = "call" /\ requests # <<>>
  BY <1>1, LocApiCallKind DEF engine, LocApiCall
<1>3. RequestFinds(r, hwIds, modem) BY <1>2, CalmRequest
<1> HIDE DEF r
<1>4. ~Removing(m) /\ ~Adding(m) BY <1>2 DEF Removing, Adding
<1>5. NamedBy(m) \subseteq NamedByRequest(r) BY DEF NamedBy, NamedByRequest
<1>6. MessageFinds(m, hwIds, modem) BY <1>3 DEF MessageFinds
<1> HIDE DEF m
<1> QED BY <1>2, <1>4, <1>5, <1>6, SameModemSelf, CalmAfterMoves DEF r

(* A request of a command can be done.                                       *)
LEMMA CalmDoable ==
    ASSUME Base, CalmNow, requests # <<>>, Head(requests).do # "call", Head(requests).n # 0,
           engineLock = "enabled", modemUp
    PROVE  LET r == Head(requests) IN
           /\ Doable(r) /\ r.do = r.then /\ r.do \in Kinds /\ r.session \in Sessions
           /\ r.do # "add" => r.hw = hwIds[r.session] /\ Runs(modem, r.session, r.hw)
<1> DEFINE r == Head(requests)
<1>1. /\ RequestFinds(r, hwIds, modem) /\ RequestFits(r, commands) /\ r \in Requests
      /\ 1 \in DOMAIN requests /\ r = requests[1] /\ r.do # "open"
  BY CalmRequest
<1>2. TypeOK /\ Shape(queue, requests, commands) /\ MapsAgree(queue, hwIds, fences, modem, commands)
  BY DEF Base, CalmNow, Calm
<1>3. r.do = r.then /\ r.session \in Sessions BY <1>1 DEF RequestFits
<1>4. r.do \in Kinds BY <1>1 DEF Requests
<1>5. NamedByRequest(requests[1]) = {r.session} BY <1>1 DEF NamedByRequest
<1> HIDE DEF r
<1>6. CASE r.do = "add"
  <2>1. Nowhere(hwIds, modem, r.session) BY <1>1, <1>3, <1>6 DEF RequestFinds, r
  <2>2. \A h \in ModemIds : modem[h] # NoFence => modem[h].session \in Sessions
    BY <1>2, GeofenceAssumption DEF TypeOK, Fence
  <2>3. \A h \in ModemIds : modem[h] # NoFence =>
           \A g \in ModemIds : Runs(modem, modem[h].session, g) => g = h
    BY <1>2 DEF MapsAgree
  <2>4. \E h \in ModemIds : modem[h] = NoFence BY <1>3, <2>1, <2>2, <2>3, RoomLeft DEF Nowhere
  <2> QED BY <1>3, <1>4, <1>6, <2>4 DEF Doable, Free, Unlocked, r
<1>7. CASE r.do # "add"
  <2>1. hwIds[r.session] # NoHw /\ r.hw = hwIds[r.session]
    BY <1>1, <1>3, <1>7 DEF RequestFinds, r
  <2>2. /\ r.hw \in ModemIds
        /\ \/ Runs(modem, r.session, r.hw)
           \/ \E k \in DOMAIN queue : Removing(queue[k]) /\ queue[k].to.session = r.session
    BY <1>2, <1>3, <2>1 DEF MapsAgree
  <2>3. ASSUME NEW k \in DOMAIN queue, Removing(queue[k]), queue[k].to.session = r.session
        PROVE  FALSE
    <3>1. r.session \in NamedBy(queue[k]) BY <2>3 DEF Removing, NamedBy
    <3>2. NamedBy(queue[k]) \cap NamedByRequest(requests[1]) = {}
      BY <1>1 DEF CalmNow, Calm, Apart
    <3> QED BY <1>5, <3>1, <3>2
  <2>4. Runs(modem, r.session, r.hw) BY <2>2, <2>3
  <2> QED BY <1>3, <1>4, <1>7, <2>1, <2>2, <2>4 DEF Doable, Unlocked, Runs, r
<1> QED BY <1>6, <1>7

LEMMA CalmAfterRequest ==
    ASSUME Base, CalmInv, Orderly, client, LocApiRequest
    PROVE  CalmNow'
<1> DEFINE r == Head(requests)
<1>1. /\ TypeOK /\ Shape(queue, requests, commands) /\ CalmNow
      /\ engineLock = "enabled" /\ modemUp /\ "refuses" \notin world
  BY CalmIs, OrderlyIs DEF Base
<1>2. /\ r \in Requests /\ r.session \in Sessions /\ r.do \in Kinds /\ requests # <<>> /\ r.do # "call"
      /\ \/ \E h \in ModemIds :
                /\ Performs(r, h) /\ h \in HwIds
                /\ Moves([what |-> "answer", ok |-> TRUE, to |-> [r EXCEPT !.hw = h]])
         \/ /\ ~Doable(r) \/ "refuses" \in world
            /\ UNCHANGED modem
            /\ Moves([what |-> "answer", ok |-> FALSE, to |-> r])
  <2>1. requests # <<>> /\ r.do # "call" BY DEF LocApiRequest
  <2> QED BY <1>1, <2>1, LocApiRequestKind
<1>3. RequestFinds(r, hwIds, modem) /\ RequestFits(r, commands) BY <1>1, <1>2, CalmRequest
<1>4. r.n # 0 => /\ Doable(r) /\ r.do = r.then
                 /\ r.do # "add" => r.hw = hwIds[r.session] /\ Runs(modem, r.session, r.hw)
  BY <1>1, <1>2, CalmDoable
<1> HIDE DEF r
<1>5. ASSUME NEW ok, NEW h, Moves([what |-> "answer", ok |-> ok, to |-> [r EXCEPT !.hw = h]]), r.n = 0,
             SameModem(modem, modem')
      PROVE  CalmNow'
  <2> DEFINE y == [r EXCEPT !.hw = h]
             m == [what |-> "answer", ok |-> ok, to |-> y]
  <2>1. y.n = 0 /\ y.do = r.do /\ y.then = r.then BY <1>2, <1>5 DEF Requests
  <2> HIDE DEF y
  <2>2. ~Removing(m) /\ ~Adding(m) /\ NamedBy(m) = {} BY <2>1 DEF Removing, Adding, NamedBy
  <2>3. RequestFinds(y, hwIds, modem) BY <1>3, <1>5, <2>1 DEF RequestFinds
  <2>4. MessageFinds(m, hwIds, modem) BY <2>1, <2>3 DEF MessageFinds
  <2>5. Moves(m) BY <1>5 DEF y
  <2> HIDE DEF m
  <2> QED BY <1>1, <1>5, <2>2, <2>4, <2>5, CalmAfterMoves
<1>6. ASSUME ~Doable(r) \/ "refuses" \in world, UNCHANGED modem,
             Moves([what |-> "answer", ok |-> FALSE, to |-> r])
      PROVE  CalmNow'
  <2>1. r.n = 0 BY <1>1, <1>4, <1>6
  <2>2. [r EXCEPT !.hw = r.hw] = r BY <1>2 DEF Requests
  <2> QED BY <1>5, <1>6, <2>1, <2>2, SameModemSelf
<1>7. ASSUME NEW h \in ModemIds, Performs(r, h), h \in HwIds,
             Moves([what |-> "answer", ok |-> TRUE, to |-> [r EXCEPT !.hw = h]])
      PROVE  CalmNow'
  <2> DEFINE s == r.session
             y == [r EXCEPT !.hw = h]
             m == [what |-> "answer", ok |-> TRUE, to |-> y]
  <2>1. /\ modem' \in [ModemIds -> Fence \cup {NoFence}]
        /\ \A g \in ModemIds : g # h => modem'[g] = modem[g]
        /\ r.do = "add" => modem'[h] # NoFence /\ modem'[h].session = s /\ modem[h] = NoFence
        /\ r.do = "remove" => modem'[h] = NoFence
        /\ r.do \notin {"add", "remove"} => modem'[h] # NoFence /\ modem'[h].session = modem[h].session
        /\ r.do # "add" => h = r.hw /\ modem[h] # NoFence
    BY <1>1, <1>2, <1>7, DoneTyped DEF Performs
  <2>2. y.n = r.n /\ y.do = r.do /\ y.then = r.then /\ y.session = s /\ y.hw = h
    BY <1>2 DEF Requests
  <2>3. Moves(m) /\ m \in Messages BY <1>7 DEF Moves
  <2>4. m.what = "answer" /\ m.ok = TRUE /\ m.to = y  OBVIOUS
  <2>5. r.do \notin {"add", "remove"} => SameModem(modem, modem') BY <2>1 DEF SameModem
  <2>6. s \in Sessions /\ queue \in Seq(Messages) /\ MapsAgree(queue, hwIds, fences, modem, commands)
    BY <1>1, <1>2 DEF TypeOK, CalmNow, Calm
  <2> HIDE DEF m, y, s
  <2>7. CASE r.n = 0
    <3>1. SameModem(modem, modem') BY <1>3, <2>5, <2>7 DEF RequestFinds
    <3> QED BY <1>5, <1>7, <2>7, <3>1
  <2>8. CASE r.n # 0
    <3>1. NamedBy(m) = {s} /\ NamedByRequest(r) = {s}
      BY <2>2, <2>4, <2>8 DEF NamedBy, NamedByRequest, s
    <3>2. /\ Removing(m) <=> r.do = "remove"
          /\ Adding(m) <=> r.do = "add"
      BY <2>2, <2>4, <2>8 DEF Removing, Adding
    <3>3. r.do # "add" => hwIds[s] = h /\ hwIds[s] # NoHw /\ Runs(modem, s, h)
      <4>1. r.do # "add" => r.hw = hwIds[r.session] /\ Runs(modem, r.session, r.hw) /\ r.do = r.then
        BY <1>4, <2>8
      <4>2. r.do # "add" => hwIds[r.session] # NoHw BY <1>3, <2>8, <4>1 DEF RequestFinds
      <4> QED BY <2>1, <4>1, <4>2 DEF s
    <3>4. CASE r.do \notin {"add", "remove"}
      <4>1. RequestFinds(y, hwIds, modem) BY <2>2, <2>8, <3>3, <3>4, <1>4 DEF RequestFinds
      <4>2. MessageFinds(m, hwIds, modem) BY <2>4, <4>1 DEF MessageFinds
      <4> QED BY <1>1, <2>3, <2>5, <3>1, <3>2, <3>4, <4>2, CalmAfterMoves DEF r
    <3>5. CASE r.do = "add"
      <4>1. Nowhere(hwIds, modem, s) BY <1>3, <1>4, <2>8, <3>5 DEF RequestFinds, s
      <4>2. s \in Used(commands)
        <5>1. s \in Sent(commands, r.n) /\ r.n \in DOMAIN commands
          BY <1>3, <2>8 DEF RequestFits, s
        <5> QED BY <1>1, <5>1 DEF Shape, CommandFits, Sent
      <4>3. MapsAgree(Append(queue, m), hwIds, fences, modem', commands)
        <5>1. Adding(m) /\ s = m.to.session /\ h = m.to.hw BY <2>2, <2>4, <3>2, <3>5
        <5> QED BY <1>7, <2>1, <2>3, <2>6, <3>5, <4>1, <4>2, <5>1, MapsAddition
      <4>4. SameBut(s, hwIds, modem, hwIds, modem') BY <2>1, <3>5 DEF SameBut, Runs
      <4>5. MessageFinds(m, hwIds, modem') BY <2>4, <3>2, <3>5 DEF MessageFinds
      <4> QED BY <1>1, <2>3, <3>1, <4>3, <4>4, <4>5, CalmAfterChange DEF r
    <3>6. CASE r.do = "remove"
      <4>1. \A k \in DOMAIN queue : s \notin NamedBy(queue[k])
        <5>1. 1 \in DOMAIN requests /\ r = requests[1] BY <1>1, <1>2, CalmRequest DEF r
        <5>2. \A k \in DOMAIN queue : NamedBy(queue[k]) \cap NamedByRequest(r) = {}
          BY <1>1, <5>1 DEF CalmNow, Calm, Apart
        <5> QED BY <3>1, <5>2
      <4>2. MapsAgree(Append(queue, m), hwIds, fences, modem', commands)
        <5>1. Removing(m) /\ s = m.to.session /\ h = m.to.hw /\ hwIds[s] = h /\ Runs(modem, s, h)
              /\ modem'[h] = NoFence
          BY <2>1, <2>2, <2>4, <3>2, <3>3, <3>6
        <5> QED BY <1>7, <2>1, <2>3, <2>6, <4>1, <5>1, MapsRemoval
      <4>3. SameBut(s, hwIds, modem, hwIds, modem')
        <5>1. modem'[h] = NoFence /\ modem[h].session = s BY <2>1, <3>3, <3>6 DEF Runs
        <5> QED BY <2>1, <5>1 DEF SameBut, Runs
      <4>4. RequestFinds(y, hwIds, modem') BY <1>4, <2>2, <2>8, <3>3, <3>6 DEF RequestFinds
      <4>5. MessageFinds(m, hwIds, modem') BY <2>4, <4>4 DEF MessageFinds
      <4> QED BY <1>1, <2>3, <3>1, <4>2, <4>3, <4>5, CalmAfterChange DEF r
    <3> QED BY <3>4, <3>5, <3>6
  <2> QED BY <2>7, <2>8
<1> QED BY <1>2, <1>6, <1>7

-----------------------------------------------------------------------------
(* A message of no command comes.                                            *)
LEMMA CalmAfterPosts ==
    ASSUME Base, CalmNow, NEW m, Posts(m), m.what # "up", UNCHANGED <<requests, hwIds, fences, modem>>
    PROVE  CalmNow'
<1>1. /\ queue \in Seq(Messages) /\ m \in Messages /\ queue' = Append(queue, m) /\ requests' = requests
      /\ commands' = commands /\ hwIds' = hwIds /\ fences' = fences /\ modem' = modem
  BY DEF Base, TypeOK, Posts
<1>2. ~Removing(m) /\ ~Adding(m) /\ NamedBy(m) = {} /\ MessageFinds(m, hwIds, modem)
  BY DEF Posts, Removing, Adding, NamedBy, MessageFinds
<1>3. Apart(queue', requests') BY <1>1, <1>2, ApartPosted DEF CalmNow, Calm
<1>4. MapsAgree(queue', hwIds', fences', modem', commands')
  BY <1>1, <1>2, MapsPosted, SameModemSelf DEF CalmNow, Calm
<1>5. \A k \in DOMAIN queue' : MessageFinds(queue'[k], hwIds', modem')
  BY <1>1, <1>2, HasAppended DEF CalmNow, Calm
<1> QED BY <1>1, <1>3, <1>4, <1>5 DEF CalmNow, Calm

(* What the framework names in good order is not named along the way.        *)
LEMMA NotNamed ==
    ASSUME Base, WholeInv, EntryInv, Orderly, client, ~Destroyed,
           NEW do, NEW ids, NEW sessions, Sends(do, ids, sessions), Names(do, ids, sessions),
           NEW s \in Range(sessions)
    PROVE  /\ \A k \in DOMAIN queue : s \notin NamedBy(queue[k])
           /\ \A k \in DOMAIN requests : s \notin NamedByRequest(requests[k])
<1>1. TypeOK /\ Shape(queue, requests, commands) BY DEF Base
<1>2. ASSUME NEW n \in DOMAIN commands, Present(queue, requests, n), s \in Sent(commands, n)
      PROVE  FALSE
  <2>1. s \in Used(commands) BY <1>1, <1>2 DEF Shape, CommandFits, Sent
  <2>2. CASE do = "add"
    <3>1. s = NewSession BY <2>2 DEF Names, Range
    <3> QED BY <1>1, <2>1, <3>1, AdditionsFinite
  <2>3. CASE do # "add"
    <3>1. PICK id \in ids : id \in Ids /\ forward[id] = s /\ s # 0 BY <2>3 DEF Names
    <3>2. n \in Nat \ {0} BY <1>1, CommandTyped
    <3>3. Borne(queue, requests, n) BY <1>2 DEF WholeInv
    <3>4. PICK k \in DOMAIN requestQueue : requestQueue[k].n = n BY <3>3 DEF EntryInv
    <3>5. id \in requestQueue[k].ids BY <1>2, <3>1, <3>4 DEF EntryInv
    <3>6. ~Waiting(id) BY <3>1 DEF Names
    <3> QED BY <3>5, <3>6 DEF Waiting
  <2> QED BY <2>2, <2>3
<1> QED BY <1>1, <1>2, NamedIs

LEMMA CalmAfterSends ==
    ASSUME Base, CalmNow, WholeInv, EntryInv, IdsInv, Orderly, client,
           NEW do, NEW ids, NEW sessions, Sends(do, ids, sessions), Names(do, ids, sessions)
    PROVE  CalmNow'
<1> DEFINE n == Len(commands) + 1
           m == NewMessage(do, n, sessions)
<1>1. /\ TypeOK /\ Shape(queue, requests, commands) /\ Sorted(queue, requests) /\ AnswerInv
      /\ queue \in Seq(Messages)
  BY DEF Base, TypeOK
<1>2. /\ m \in Messages /\ queue' = Append(queue, m) /\ ~Destroyed
      /\ Used(commands) \subseteq Used(commands')
      /\ UNCHANGED <<adapter, requests, engine>>
  BY <1>1, SendEffect
<1>3. /\ requests' = requests /\ hwIds' = hwIds /\ fences' = fences /\ modem' = modem
  BY <1>2 DEF adapter, engine
<1>4. m.what = "command" /\ m.do = do /\ m.ids = sessions BY DEF NewMessage
<1>5. sessions \in Seq(Sessions) /\ Range(sessions) \subseteq Sessions BY DEF Sends, Range
<1> HIDE DEF m
<1>6. ~Removing(m) /\ ~Adding(m) /\ NamedBy(m) = Range(sessions)
  BY <1>4 DEF Removing, Adding, NamedBy
<1>7. /\ \A k \in DOMAIN queue : NamedBy(queue[k]) \cap NamedBy(m) = {}
      /\ \A k \in DOMAIN requests : NamedByRequest(requests[k]) \cap NamedBy(m) = {}
  BY <1>2, <1>6, NotNamed
<1>8. Apart(queue', requests') BY <1>1, <1>2, <1>3, <1>7, ApartPosted DEF CalmNow, Calm
<1>9. MapsAgree(queue', hwIds', fences', modem', commands')
  BY <1>1, <1>2, <1>3, <1>6, MapsPosted, SameModemSelf DEF CalmNow, Calm
<1>10. ASSUME NEW s \in Range(sessions)
       PROVE  IF do = "add" THEN Nowhere(hwIds, modem, s) ELSE hwIds[s] # NoHw
  <2>1. CASE do = "add"
    <3>1. s = NewSession BY <2>1 DEF Names, Range
    <3>2. s \notin Used(commands) /\ s \in Sessions BY <1>1, <1>5, <3>1, AdditionsFinite
    <3>3. MapsAgree(queue, hwIds, fences, modem, commands) BY DEF CalmNow, Calm
    <3>4. hwIds[s] = NoHw BY <3>2, <3>3 DEF MapsAgree
    <3>5. \A h \in ModemIds : ~Runs(modem, s, h) BY <3>2, <3>3 DEF MapsAgree, Runs
    <3> QED BY <2>1, <3>4, <3>5 DEF Nowhere
  <2>2. CASE do # "add"
    <3>1. PICK id \in ids : id \in Ids /\ forward[id] = s /\ s # 0 BY <2>2 DEF Names
    <3>2. ~Waiting(id) BY <3>1 DEF Names
    <3>3. hwIds[s] # NoHw BY <1>2, <3>1, <3>2 DEF IdsInv
    <3> QED BY <2>2, <3>3
  <2> QED BY <2>1, <2>2
<1>11. MessageFinds(m, hwIds, modem) BY <1>4, <1>10 DEF MessageFinds
<1>12. \A k \in DOMAIN queue' : MessageFinds(queue'[k], hwIds', modem')
  BY <1>1, <1>2, <1>3, <1>11, HasAppended DEF CalmNow, Calm
<1> QED BY <1>3, <1>8, <1>9, <1>12 DEF CalmNow, Calm

-----------------------------------------------------------------------------
(* Every step keeps what is promised of the steps in good order.             *)
Promises == WholeInv /\ EntryInv /\ IdsInv /\ CalmInv

LEMMA CalmKept ==
    ASSUME CalmInv, world' = world, client' => client,
           Orderly => engineLock' = "enabled" /\ modemUp',
           Orderly /\ client /\ client' => CalmNow'
    PROVE  CalmInv'
BY OrderlyIs, CalmIs

LEMMA AdapterPromises ==
    ASSUME Inv, Adapter
    PROVE  Promises'
<1>1. /\ Base /\ TypeOK /\ Shape(queue, requests, commands) /\ Sorted(queue, requests)
      /\ WholeInv /\ EntryInv /\ IdsInv /\ CalmInv
  BY DEF Inv, Base
<1>2. /\ Takes /\ (client' => client) /\ UNCHANGED <<world, forward, backward, engine>>
      /\ (Destroyed' <=> Destroyed) /\ IdsInv'
  BY <1>1, AdapterKind, DestroyedStays, IdsAdapter
<1>3. world' = world /\ forward' = forward /\ engineLock' = engineLock /\ modemUp' = modemUp /\ modem' = modem
  BY <1>2 DEF engine
<1>4. Orderly => engineLock' = "enabled" /\ modemUp' BY <1>1, <1>3, CalmIs
<1>5. ASSUME Idle \/ Onward PROVE WholeInv' /\ EntryInv'
  BY <1>1, <1>2, <1>3, <1>5, WholeGoes, EntryGoes
<1>6. CASE Orderly /\ client
  <2>1. CalmNow BY <1>1, <1>6, CalmIs
  <2>2. CASE CalmGoes
    <3>1. WholeInv' /\ EntryInv' BY <1>5, <2>2 DEF CalmGoes
    <3>2. CalmNow' BY <1>1, <1>3, <2>1, <2>2, CalmAfterGoes
    <3> QED BY <1>1, <1>2, <1>3, <1>4, <3>1, <3>2, CalmKept DEF Promises
  <2>3. CASE CalmEnds
    <3>1. Ends(TRUE, FALSE) /\ Head(queue).to.do # "call" BY <2>3 DEF CalmEnds, Kinds
    <3>2. WholeInv' /\ EntryInv' BY <1>1, <1>2, <1>3, <3>1, WholeEnds, EntryEnds
    <3>3. CalmNow' BY <1>1, <1>3, <1>6, <2>3, CalmAfterEnds
    <3> QED BY <1>1, <1>2, <1>3, <1>4, <3>2, <3>3, CalmKept DEF Promises
  <2>4. CASE Idle /\ client' = FALSE
    BY <1>1, <1>2, <1>3, <1>4, <1>5, <2>4, CalmKept DEF Promises
  <2> QED BY <1>1, <1>6, <2>2, <2>3, <2>4, CalmAdapter
<1>7. CASE ~(Orderly /\ client)
  <2>1. CalmInv' BY <1>1, <1>2, <1>3, <1>4, <1>7, CalmKept
  <2>2. CASE Unheard
    BY <1>1, <1>2, <1>3, <1>7, <2>1, <2>2, WholeUnheard, EntryUnheard DEF Promises
  <2>3. ASSUME NEW ok, NEW err, Ends(ok, err) PROVE Promises'
    BY <1>1, <1>2, <1>3, <1>7, <2>1, <2>3, WholeEnds, EntryEnds DEF Promises
  <2> QED BY <1>2, <1>5, <2>1, <2>2, <2>3 DEF Takes, Promises
<1> QED BY <1>6, <1>7

LEMMA SendPromises ==
    ASSUME Inv, NEW do, NEW ids, NEW sessions, Sends(do, ids, sessions), Names(do, ids, sessions)
    PROVE  Promises'
<1>1. /\ Base /\ TypeOK /\ Shape(queue, requests, commands) /\ Sorted(queue, requests) /\ AnswerInv
      /\ WholeInv /\ EntryInv /\ IdsInv /\ CalmInv
  BY DEF Inv, Base
<1>2. UNCHANGED <<world, events, breaches, adapter, requests, engine>> BY <1>1, SendEffect
<1>3. world' = world /\ client' = client /\ engineLock' = engineLock /\ modemUp' = modemUp
  BY <1>2 DEF adapter, engine
<1>4. WholeInv' /\ EntryInv' /\ IdsInv' BY <1>1, WholeSends, EntrySends, IdsSends
<1>5. Orderly /\ client => CalmNow' BY <1>1, CalmIs, CalmAfterSends
<1>6. CalmInv' BY <1>1, <1>3, <1>5, CalmIs, CalmKept
<1> QED BY <1>4, <1>6 DEF Promises

(* The end of the client, and what comes from LocApi and from outside leave  *)
(* the commands as they are.                                                 *)
LEMMA SamePromises ==
    ASSUME Inv, UNCHANGED <<world, forward, commands, requestQueue, hwIds, client>>,
           Destroyed' <=> Destroyed,
           \A n \in Nat \ {0} :
              /\ Present(queue', requests', n) <=> Present(queue, requests, n)
              /\ Borne(queue', requests', n) <=> Borne(queue, requests, n),
           Orderly => engineLock' = "enabled" /\ modemUp',
           Orderly /\ client => CalmNow'
    PROVE  Promises'
<1>1. TypeOK /\ WholeInv /\ EntryInv /\ IdsInv /\ CalmInv BY DEF Inv, Base
<1>2. WholeInv' BY <1>1, WholeStands
<1>3. Kept(commands, commands') /\ DOMAIN commands' = DOMAIN commands BY DEF Kept
<1>4. EntryInv' BY <1>1, <1>3, EntryStands
<1>5. IdsInv' BY <1>1, IdsSame
<1>6. CalmInv' BY <1>1, CalmKept
<1> QED BY <1>2, <1>4, <1>5, <1>6 DEF Promises

LEMMA DestroyPromises ==
    ASSUME Inv, destroy
    PROVE  Promises'
<1> DEFINE m == Event("destroy", 0, 0, FALSE)
<1>1. Base /\ TypeOK /\ WholeInv /\ EntryInv /\ IdsInv /\ CalmInv BY DEF Inv, Base
<1>2. /\ TypeOK' /\ Posts(m) /\ requestQueue' = <<>>
      /\ UNCHANGED <<world, forward, commands, adapter, requests, engine>>
  BY <1>1, destroyKind
<1>3. m.what = "destroy" BY DEF Event
<1> HIDE DEF m
<1>4. /\ client' = client /\ hwIds' = hwIds /\ fences' = fences /\ modem' = modem
      /\ engineLock' = engineLock /\ modemUp' = modemUp
  BY <1>2 DEF adapter, engine
<1>5. Destroyed' BY <1>1, <1>2, <1>3, <1>4, DestroyedAdds DEF Posts
<1>6. \A n \in Nat \ {0} :
         /\ Present(queue', requests', n) <=> Present(queue, requests, n)
         /\ Borne(queue', requests', n) <=> Borne(queue, requests, n)
  BY <1>1, <1>2, PostBase
<1>7. WholeInv' BY <1>1, <1>2, <1>4, <1>6, WholeStands
<1>8. EntryInv' BY <1>2, <1>5 DEF EntryInv
<1>9. Kept(commands, commands') /\ DOMAIN commands' = DOMAIN commands BY <1>2 DEF Kept
<1>10. IdsInv' BY <1>1, <1>2, <1>5, <1>9, IdsStand
<1>11. Orderly /\ client => CalmNow' BY <1>1, <1>2, <1>3, <1>4, CalmIs, CalmAfterPosts
<1>12. CalmInv' BY <1>1, <1>2, <1>4, <1>11, CalmIs, CalmKept
<1> QED BY <1>7, <1>8, <1>10, <1>12 DEF Promises

LEMMA EventPromises ==
    ASSUME Inv, TypeOK', NEW m, Posts(m), m.what \in {"power", "breach"},
           UNCHANGED <<world, user, adapter, requests, engine>>
    PROVE  Promises'
<1>1. Base /\ TypeOK /\ CalmInv BY DEF Inv, Base
<1>2. /\ UNCHANGED <<world, forward, commands, requestQueue, hwIds, client>>
      /\ UNCHANGED <<requests, hwIds, fences, modem>> /\ engineLock' = engineLock /\ modemUp' = modemUp
  BY DEF user, adapter, engine
<1>3. Destroyed' <=> Destroyed BY <1>1, <1>2, DestroyedAdds DEF Posts
<1>4. \A n \in Nat \ {0} :
         /\ Present(queue', requests', n) <=> Present(queue, requests, n)
         /\ Borne(queue', requests', n) <=> Borne(queue, requests, n)
  BY <1>1, <1>2, PostBase
<1>5. Orderly /\ client => CalmNow' BY <1>1, <1>2, CalmIs, CalmAfterPosts
<1> QED BY <1>1, <1>2, <1>3, <1>4, <1>5, CalmIs, SamePromises

LEMMA MovePromises ==
    ASSUME Inv, TypeOK', NEW m, Moves(m), m.what # "destroy",
           Orderly => engineLock' = "enabled" /\ modemUp',
           Orderly /\ client => CalmNow'
    PROVE  Promises'
<1>1. Base /\ TypeOK BY DEF Inv, Base
<1>2. UNCHANGED <<world, forward, commands, requestQueue, hwIds, client>>
  BY DEF Moves, user, adapter
<1>3. Destroyed' <=> Destroyed BY <1>1, <1>2, DestroyedAdds DEF Moves
<1>4. \A n \in Nat \ {0} :
         /\ Present(queue', requests', n) <=> Present(queue, requests, n)
         /\ Borne(queue', requests', n) <=> Borne(queue, requests, n)
  BY <1>1, MoveBase
<1> QED BY <1>2, <1>3, <1>4, SamePromises

LEMMA LocApiPromises ==
    ASSUME Inv, LocApi
    PROVE  Promises'
<1>1. Base /\ TypeOK /\ Shape(queue, requests, commands) /\ CalmInv BY DEF Inv, Base
<1>2. /\ Orderly => engineLock = "enabled" /\ modemUp
      /\ Orderly /\ client => CalmNow
  BY <1>1, CalmIs
<1>3. CASE LocApiCall
  <2>1. TypeOK' /\ UNCHANGED engine /\ \E m : Moves(m) /\ m.what = "answer"
    BY <1>1, <1>3, LocApiCallKind
  <2>2. Orderly /\ client => CalmNow' BY <1>1, <1>2, <1>3, CalmAfterCall
  <2> QED BY <1>2, <2>1, <2>2, MovePromises DEF engine
<1>4. CASE LocApiRequest
  <2> DEFINE Answer(ok, r) == [what |-> "answer", ok |-> ok, to |-> r]
  <2>1. TypeOK' /\ UNCHANGED <<engineLock, modemUp>> /\ \E m : Moves(m) /\ m.what = "answer"
    <3>1. \A ok, r : Answer(ok, r).what = "answer"  OBVIOUS
    <3>2. TypeOK' /\ UNCHANGED <<engineLock, modemUp>> /\ \E ok, r : Moves(Answer(ok, r))
      BY <1>1, <1>4, LocApiRequestKind
    <3> HIDE DEF Answer
    <3> QED BY <3>1, <3>2
  <2>2. Orderly /\ client => CalmNow' BY <1>1, <1>4, CalmAfterRequest
  <2> QED BY <1>2, <2>1, <2>2, MovePromises
<1>5. CASE LocApiOpen
  <2> DEFINE m == Event("up", 0, 0, FALSE)
  <2>1. /\ TypeOK' /\ Moves(m) /\ Head(requests).do = "open"
        /\ engineLock' = engineLock /\ modemUp' = TRUE
    BY <1>1, <1>5, LocApiOpenKind
  <2>2. m.what # "destroy" BY DEF Event
  <2>3. ~(Orderly /\ client) BY <1>1, <1>2, <2>1, CalmRequest DEF Moves
  <2> HIDE DEF m
  <2> QED BY <1>2, <2>1, <2>2, <2>3, MovePromises
<1> QED BY <1>3, <1>4, <1>5 DEF LocApi

(* Restarts and locks are not of the good order.                             *)
LEMMA DisorderPromises ==
    ASSUME Inv, ModemCrashes \/ EngineLockChanges
    PROVE  Promises'
<1>1. Base /\ TypeOK BY DEF Inv, Base
<1>2. ~Orderly /\ UNCHANGED <<world, forward, commands, requestQueue, hwIds, client, queue>>
  BY OrderlyIs DEF ModemCrashes, EngineLockChanges, user, adapter
<1>3. Destroyed' <=> Destroyed BY <1>2 DEF Destroyed
<1>4. \A n \in Nat \ {0} :
         /\ Present(queue', requests', n) <=> Present(queue, requests, n)
         /\ Borne(queue', requests', n) <=> Borne(queue, requests, n)
  <2>1. CASE ModemCrashes BY <1>1, <2>1, CrashBase
  <2>2. CASE EngineLockChanges
    <3>1. requests' = requests BY <2>2 DEF EngineLockChanges
    <3> QED BY <1>2, <3>1
  <2> QED BY <2>1, <2>2
<1> QED BY <1>2, <1>3, <1>4, SamePromises

LEMMA PromisesStutter ==
    ASSUME Inv, UNCHANGED vars
    PROVE  Promises'
<1>1. /\ UNCHANGED <<world, forward, commands, requestQueue, hwIds, client, queue, requests>>
      /\ UNCHANGED <<fences, modem, engineLock, modemUp>>
  BY DEF vars, user, adapter, engine
<1>2. Destroyed' <=> Destroyed BY <1>1 DEF Destroyed
<1>3. CalmNow' <=> CalmNow BY <1>1 DEF CalmNow
<1> QED BY <1>1, <1>2, <1>3, CalmIs, SamePromises DEF Inv

-----------------------------------------------------------------------------
LEMMA InvInit ==
    ASSUME Init
    PROVE  Inv
<1>1. Base BY BaseInit
<1>2. /\ requestQueue = <<>> /\ commands = <<>> /\ queue = <<>> /\ requests = <<>>
      /\ client = TRUE /\ engineLock = "enabled" /\ modemUp = TRUE
      /\ forward = [id \in Ids |-> 0] /\ hwIds = [s \in Sessions |-> NoHw]
      /\ modem = [h \in ModemIds |-> NoFence]
  BY DEF Init
<1>3. WholeInv BY <1>2 DEF WholeInv
<1>4. EntryInv BY <1>2 DEF EntryInv, Borne, Destroyed
<1>5. IdsInv BY <1>2 DEF IdsInv
<1>6. CalmNow BY <1>2 DEF CalmNow, Calm, Apart, MapsAgree
<1> QED BY <1>1, <1>2, <1>3, <1>4, <1>5, <1>6, CalmIs DEF Inv

LEMMA InvStep ==
    ASSUME Inv, [Next]_vars
    PROVE  Inv'
<1>1. Base /\ TypeOK /\ IdsInv BY DEF Inv, Base
<1>2. Base' BY <1>1, BaseStep
<1>3. CASE Framework
  <2>1. destroy \/ \E do, ids, sessions : Sends(do, ids, sessions) /\ Names(do, ids, sessions)
    BY <1>1, <1>3, FrameworkNames
  <2>2. Promises' BY <2>1, DestroyPromises, SendPromises
  <2> QED BY <1>2, <2>2 DEF Inv, Promises
<1>4. CASE Adapter BY <1>2, <1>4, AdapterPromises DEF Inv, Promises
<1>5. CASE LocApi BY <1>2, <1>5, LocApiPromises DEF Inv, Promises
<1>6. CASE ModemCrashes \/ EngineLockChanges BY <1>2, <1>6, DisorderPromises DEF Inv, Promises
<1>7. CASE PowerChanges
  <2>1. /\ TypeOK' /\ \E m : Posts(m) /\ m.what = "power"
        /\ UNCHANGED <<world, user, adapter, requests, engine>>
    BY <1>1, <1>7, PowerChangesKind
  <2>2. Promises' BY <2>1, EventPromises
  <2> QED BY <1>2, <2>2 DEF Inv, Promises
<1>8. ASSUME NEW h \in ModemIds, Breach(h) PROVE Inv'
  <2>1. /\ TypeOK' /\ \E m : Posts(m) /\ m.what = "breach"
        /\ UNCHANGED <<world, user, adapter, requests, engine>>
    BY <1>1, <1>8, BreachKind
  <2>2. Promises' BY <2>1, EventPromises
  <2> QED BY <1>2, <2>2 DEF Inv, Promises
<1>9. CASE UNCHANGED vars BY <1>2, <1>9, PromisesStutter DEF Inv, Promises
<1> QED BY <1>3, <1>4, <1>5, <1>6, <1>7, <1>8, <1>9 DEF Next, Environment

(* What has an item under way is borne by a message or a request.            *)
LEMMA PendingPresent ==
    ASSUME TypeOK, Shape(queue, requests, commands), NEW n, Pending(n)
    PROVE  Present(queue, requests, n)
<1>1. CASE \E k \in DOMAIN requests : requests[k].do # "open" /\ requests[k].n = n
  BY <1>1 DEF Present, OfRequest
<1>2. CASE \E k \in DOMAIN queue : queue[k].what = "answer" /\ queue[k].to.n = n
  BY <1>2 DEF Present, OfMessage
<1> QED BY <1>1, <1>2 DEF Pending

LEMMA InvAnswers ==
    ASSUME Inv
    PROVE  EachAnswered
<1>1. /\ TypeOK /\ Shape(queue, requests, commands) /\ AnswerInv /\ WholeInv BY DEF Inv, Base
<1>2. AnsweredOnce
  <2> SUFFICES ASSUME NEW n \in DOMAIN commands
               PROVE  /\ commands[n].sent <= 1
                      /\ Quiet /\ client /\ commands[n].sent = 0
                            => commands[n].do = "resume" /\ commands[n].refused
    BY DEF AnsweredOnce
  <2>1. AnswerOf(commands[n], Borne(queue, requests, n), client) BY <1>1 DEF AnswerInv
  <2>2. Quiet => ~Borne(queue, requests, n) BY DEF Quiet, Borne
  <2> QED BY <2>1, <2>2 DEF AnswerOf
<1>3. TruthTold
  <2> SUFFICES ASSUME NEW n \in DOMAIN commands, commands[n].sent = 1, commands[n].refused,
                      commands[n].do # "modify"
               PROVE  commands[n].failed
    BY DEF TruthTold
  <2>1. AnswerOf(commands[n], Borne(queue, requests, n), client) BY <1>1 DEF AnswerInv
  <2> QED BY <2>1 DEF AnswerOf
<1>4. NotAfterReport
  <2> SUFFICES ASSUME Orderly, NEW n \in DOMAIN commands, commands[n].sent > 0
               PROVE  ~Pending(n)
    BY DEF NotAfterReport, Orderly
  <2>1. commands[n].sent = 1
    <3>1. AnswerOf(commands[n], Borne(queue, requests, n), client) /\ commands[n] \in CommandRecords
      BY <1>1, CommandTyped DEF AnswerInv
    <3> QED BY <3>1 DEF AnswerOf, CommandRecords
  <2> QED BY <1>1, <2>1, PendingPresent DEF WholeInv
<1>5. OwnAnswer BY <1>1 DEF WholeInv, OwnAnswer, ResponsesMatch, Orderly
<1> QED BY <1>1, <1>2, <1>3, <1>4, <1>5 DEF EachAnswered

(* Every command of the framework is answered once, truly and not before it  *)
(* is done, and where nothing fails its response is not taken for that of    *)
(* another: for all ids, worlds and bounds.                                  *)
THEOREM EveryCommandAnswered == Spec => []EachAnswered
<1>1. Init => Inv BY InvInit
<1>2. Inv /\ [Next]_vars => Inv' BY InvStep
<1>3. Inv => EachAnswered BY InvAnswers
<1> QED BY <1>1, <1>2, <1>3, PTL DEF Spec

-----------------------------------------------------------------------------
(* The messages that change what the adapter has under the modem's hwId h:   *)
(* a geofence is given it or lets it go, or its pause flag is set.           *)
Gives(m, h)   == m.what = "answer" /\ m.ok /\ m.to.do = "add" /\ m.to.hw = h
Frees(m, h)   == \/ m.what = "answer" /\ m.ok /\ m.to.do = "remove" /\ m.to.hw = h
                 \/ m.what = "up"
Settles(m, h) == m.what = "answer" /\ m.ok /\ m.to.do \in {"add", "pause", "resume"} /\ m.to.hw = h
Alters(m, h)  == Gives(m, h) \/ Frees(m, h)

(* Position k of q is the last that alters h or settles it.                  *)
LastAlters(q, k, h)  == Alters(q[k], h) /\ \A j \in DOMAIN q : j > k => ~Alters(q[j], h)
LastSettles(q, k, h) == Settles(q[k], h) /\ \A j \in DOMAIN q : j > k => ~Settles(q[j], h)

(* What the requests of no command are for, and the hwIds of all             *)
Meant(r) ==
    r.n = 0 => <<r.do, r.then>> \in {<<"add", "restart">>, <<"remove", "gone">>, <<"pause", "suspend">>,
                                     <<"resume", "wake">>, <<"pause", "nothing">>, <<"open", "nothing">>}
RequestMeant(r) == Meant(r) /\ (r.do \in {"add", "call"} => r.hw = 0)
AnswerMeant(m) ==
    m.what = "answer" =>
        /\ Meant(m.to)
        /\ m.to.do = "call" => m.to.hw = 0
        /\ m.to.do = "add" => IF m.ok THEN m.to.hw \in ModemIds ELSE m.to.hw = 0

(* What does not happen in world w, while the client is there (c)            *)
Absent(then, w, c) ==
    \/ c /\ then = "gone"
    \/ w \cap {"crashes", "untimely"} = {} /\ then \in {"restart", "nothing"}
RequestHere(r, w, c) == RequestMeant(r) /\ ~Absent(r.then, w, c)
MessageHere(m, w, c) ==
    /\ AnswerMeant(m)
    /\ m.what = "answer" => ~Absent(m.to.then, w, c)
    /\ m.what = "up"     => w \cap {"crashes", "untimely"} # {}
    /\ m.what = "power"  => "power" \in w
    /\ m.what = "breach" => m.hw \in ModemIds
Opens(rs, up) ==
    \A k \in DOMAIN rs : rs[k].do = "open" =>
        ~up /\ \A j \in DOMAIN rs : rs[j].do = "open" => j = k
HereInv ==
    /\ \A k \in DOMAIN requests : RequestHere(requests[k], world, client)
    /\ \A k \in DOMAIN queue : MessageHere(queue[k], world, client)
    /\ Opens(requests, modemUp)
    /\ "locks" \notin world => Unlocked
    /\ "power" \notin world => power = "unknown"
    /\ ~Restarts => modemUp
    /\ ~modemUp => \A h \in ModemIds : modem[h] = NoFence

(* Once the messages of q before position n are taken, the adapter has that  *)
(* of session s under h, or nothing.                                         *)
Becomes(q, n, fs, h, s) ==
    /\ \A j \in DOMAIN q :
          /\ j < n /\ Gives(q[j], h)
          /\ \A i \in DOMAIN q : j < i /\ i < n => ~Gives(q[i], h)
          => q[j].to.session = s
    /\ \/ \E j \in DOMAIN q : j < n /\ Gives(q[j], h)
       \/ fs[h] = NoFence
       \/ fs[h].session = s
OwnBreaches(q, fs, mo) ==
    \A h \in ModemIds :
        /\ mo[h] # NoFence => Becomes(q, Len(q) + 1, fs, h, mo[h].session)
        /\ \A k \in DOMAIN q :
              q[k].what = "breach" /\ q[k].hw = h => Becomes(q, k, fs, h, q[k].session)

(* The last answer about its pause sets the flag to what the modem does.     *)
LastPauses(q, fs, mo) ==
    \A h \in ModemIds : mo[h] # NoFence =>
        /\ \A k \in DOMAIN q : LastSettles(q, k, h) => mo[h].paused = (q[k].to.do = "pause")
        /\ \/ \E k \in DOMAIN q : Settles(q[k], h)
           \/ fs[h] = NoFence
           \/ fs[h].paused = mo[h].paused

(* Where the maps are kept                                                   *)
Sound == client /\ ~Exposed({"locks"}) /\ ~Slept

Paired(hs, fs) ==
    /\ \A s \in Sessions : hs[s] # NoHw => fs[hs[s]] # NoFence /\ fs[hs[s]].session = s
    /\ \A h \in HwIds : fs[h] # NoFence => hs[fs[h].session] = h

(* What the adapter has under a hwId once the messages are taken is what the *)
(* modem has; a hwId is free when it is given.                               *)
Foreseen(q, fs, mo) ==
    \A h \in ModemIds :
        /\ \A k \in DOMAIN q : LastAlters(q, k, h) =>
              IF Gives(q[k], h) THEN mo[h] # NoFence /\ mo[h].session = q[k].to.session
              ELSE mo[h] = NoFence
        /\ \/ \E k \in DOMAIN q : Alters(q[k], h)
           \/ fs[h] = NoFence /\ mo[h] = NoFence
           \/ fs[h] # NoFence /\ mo[h] # NoFence /\ mo[h].session = fs[h].session
FreeWhenGiven(q, fs) ==
    \A h \in ModemIds, k \in DOMAIN q : Gives(q[k], h) =>
        /\ \A j \in DOMAIN q : j < k /\ Gives(q[j], h) =>
              \E i \in DOMAIN q : i > j /\ i < k /\ Frees(q[i], h)
        /\ fs[h] = NoFence \/ \E j \in DOMAIN q : j < k /\ Alters(q[j], h)

(* The sessions that a message or request is about to add                    *)
AddsRequest(r) ==
    IF r.do = "add" \/ (r.do = "call" /\ r.then = "add") THEN {r.session} ELSE {}
Adds(m) ==
    CASE m.what = "command" /\ m.do = "add" -> Range(m.ids)
      [] m.what = "answer"                  -> AddsRequest(m.to)
      [] OTHER                              -> {}
AddedOnce(q, rs) ==
    /\ \A j, k \in DOMAIN q : j # k => Adds(q[j]) \cap Adds(q[k]) = {}
    /\ \A j, k \in DOMAIN rs : j # k => AddsRequest(rs[j]) \cap AddsRequest(rs[k]) = {}
    /\ \A j \in DOMAIN q, k \in DOMAIN rs : Adds(q[j]) \cap AddsRequest(rs[k]) = {}
ToAdd(s, hs, cs) == hs[s] = NoHw /\ s \in Used(cs)
AddsOk(q, rs, hs, cs) ==
    /\ AddedOnce(q, rs)
    /\ \A k \in DOMAIN q : \A s \in Adds(q[k]) : ToAdd(s, hs, cs)
    /\ \A k \in DOMAIN rs : \A s \in AddsRequest(rs[k]) : ToAdd(s, hs, cs)
    /\ \A s \in Sessions : hs[s] # NoHw => s \in Used(cs)

ModemInv ==
    /\ HereInv
    /\ OwnBreaches(queue, fences, modem)
    /\ ~Restarts => LastPauses(queue, fences, modem)
    /\ Sound => /\ Paired(hwIds, fences)
                /\ FreeWhenGiven(queue, fences)
                /\ modemUp => Foreseen(queue, fences, modem)
                /\ AddsOk(queue, requests, hwIds, commands)
-----------------------------------------------------------------------------
(* What the adapter will have under a hwId, from message to message          *)

(* The fences fs2 after message m                                            *)
FencesFollow(m, fs, fs2) ==
    \A h \in ModemIds :
        /\ Gives(m, h) => fs2[h] # NoFence /\ fs2[h].session = m.to.session
        /\ ~Gives(m, h) /\ fs2[h] # NoFence => fs[h] # NoFence /\ fs2[h].session = fs[h].session

LEMMA BecomesTaken ==
    ASSUME NEW q \in Seq(Messages), q # <<>>, NEW fs, NEW fs2, FencesFollow(Head(q), fs, fs2),
           NEW h \in ModemIds, NEW n \in Int, n > 1, NEW s, Becomes(q, n, fs, h, s)
    PROVE  Becomes(Tail(q), n - 1, fs2, h, s)
<1> DEFINE p == Tail(q)
<1>1. /\ 1 \in DOMAIN q /\ Head(q) = q[1]
      /\ \A k \in DOMAIN p : k \in Int /\ k >= 1 /\ k + 1 \in DOMAIN q /\ p[k] = q[k + 1]
      /\ \A k \in DOMAIN q : k \in Int /\ k >= 1 /\ (k = 1 \/ (k - 1 \in DOMAIN p /\ q[k] = p[k - 1]))
  BY HasTaken
<1> HIDE DEF p
<1>2. ASSUME NEW j \in DOMAIN p, j < n - 1, Gives(p[j], h),
             \A i \in DOMAIN p : j < i /\ i < n - 1 => ~Gives(p[i], h)
      PROVE  p[j].to.session = s
  <2>1. j + 1 \in DOMAIN q /\ j + 1 < n /\ Gives(q[j + 1], h) BY <1>1, <1>2
  <2>2. ASSUME NEW i \in DOMAIN q, j + 1 < i, i < n PROVE ~Gives(q[i], h)
    <3>1. i - 1 \in DOMAIN p /\ q[i] = p[i - 1] /\ j < i - 1 /\ i - 1 < n - 1 BY <1>1, <2>2
    <3> QED BY <1>2, <3>1
  <2>3. q[j + 1].to.session = s BY <2>1, <2>2 DEF Becomes
  <2> QED BY <1>1, <2>3
<1>3. ASSUME \A j \in DOMAIN p : j < n - 1 => ~Gives(p[j], h), fs2[h] # NoFence
      PROVE  fs2[h].session = s
  <2>1. \A i \in DOMAIN q : 1 < i /\ i < n => ~Gives(q[i], h) BY <1>1, <1>3
  <2>2. CASE Gives(q[1], h)
    <3>1. q[1].to.session = s BY <1>1, <2>1, <2>2 DEF Becomes
    <3> QED BY <1>1, <2>2, <3>1 DEF FencesFollow
  <2>3. CASE ~Gives(q[1], h)
    <3>1. \A j \in DOMAIN q : j < n => ~Gives(q[j], h) BY <1>1, <2>1, <2>3
    <3>2. fs[h] = NoFence \/ fs[h].session = s BY <3>1 DEF Becomes
    <3> QED BY <1>1, <1>3, <2>3, <3>2 DEF FencesFollow
  <2> QED BY <2>2, <2>3
<1> QED BY <1>2, <1>3 DEF Becomes, p

LEMMA OwnTaken ==
    ASSUME NEW q \in Seq(Messages), q # <<>>, NEW fs, NEW fs2, FencesFollow(Head(q), fs, fs2),
           NEW mo, OwnBreaches(q, fs, mo)
    PROVE  OwnBreaches(Tail(q), fs2, mo)
<1>1. /\ Len(q) \in Nat /\ Len(q) >= 1 /\ Len(Tail(q)) = Len(q) - 1
      /\ \A k \in DOMAIN Tail(q) : k \in Int /\ k >= 1 /\ k + 1 \in DOMAIN q /\ Tail(q)[k] = q[k + 1]
  <2>1. Tail(q) \in Seq(Messages) /\ DOMAIN Tail(q) = 1..(Len(q) - 1) /\ Len(q) \in Nat /\ 1 \in 1..Len(q)
    BY HasTaken
  <2>2. Len(Tail(q)) = Len(q) - 1 BY HeadTailProperties
  <2> QED BY <2>1, <2>2, HasTaken
<1>2. ASSUME NEW h \in ModemIds, mo[h] # NoFence
      PROVE  Becomes(Tail(q), Len(Tail(q)) + 1, fs2, h, mo[h].session)
  <2>1. Becomes(q, Len(q) + 1, fs, h, mo[h].session) BY <1>2 DEF OwnBreaches
  <2>2. Len(q) + 1 \in Int /\ Len(q) + 1 > 1 /\ (Len(q) + 1) - 1 = Len(Tail(q)) + 1 BY <1>1
  <2>3. Becomes(Tail(q), (Len(q) + 1) - 1, fs2, h, mo[h].session) BY <2>1, <2>2, BecomesTaken
  <2> QED BY <2>2, <2>3
<1>3. ASSUME NEW h \in ModemIds, NEW k \in DOMAIN Tail(q), Tail(q)[k].what = "breach", Tail(q)[k].hw = h
      PROVE  Becomes(Tail(q), k, fs2, h, Tail(q)[k].session)
  <2>1. Becomes(q, k + 1, fs, h, q[k + 1].session) BY <1>1, <1>3 DEF OwnBreaches
  <2>2. k + 1 \in Int /\ k + 1 > 1 /\ (k + 1) - 1 = k /\ Tail(q)[k] = q[k + 1] BY <1>1
  <2>3. Becomes(Tail(q), (k + 1) - 1, fs2, h, q[k + 1].session) BY <2>1, <2>2, BecomesTaken
  <2> QED BY <2>2, <2>3
<1> QED BY <1>2, <1>3 DEF OwnBreaches

(* The modem mo2 after it has sent message m                                 *)
ModemFollows(m, mo, mo2) ==
    \A h \in ModemIds :
        /\ Gives(m, h) => mo[h] = NoFence /\ mo2[h] # NoFence /\ mo2[h].session = m.to.session
        /\ Frees(m, h) => mo2[h] = NoFence
        /\ ~Alters(m, h) => (mo2[h] # NoFence <=> mo[h] # NoFence)
        /\ ~Alters(m, h) /\ mo2[h] # NoFence => mo2[h].session = mo[h].session
        /\ Settles(m, h) /\ mo2[h] # NoFence => mo2[h].paused = (m.to.do = "pause")
        /\ ~Settles(m, h) /\ mo2[h] # NoFence => mo2[h].paused = mo[h].paused
        /\ m.what = "breach" /\ m.hw = h => mo[h] # NoFence /\ m.session = mo[h].session

LEMMA AppendedIs ==
    ASSUME NEW q \in Seq(Messages), NEW m \in Messages
    PROVE  LET p == Append(q, m)
               l == Len(q) + 1 IN
           /\ p \in Seq(Messages) /\ l \in Int /\ Len(p) = l /\ l \in DOMAIN p /\ p[l] = m
           /\ \A k \in DOMAIN q : k \in Int /\ k < l /\ k \in DOMAIN p /\ p[k] = q[k]
           /\ \A k \in DOMAIN p : k \in Int /\ k <= l /\ (k = l \/ (k \in DOMAIN q /\ p[k] = q[k]))
<1>1. Len(q) \in Nat /\ DOMAIN q = 1..Len(q) /\ DOMAIN Append(q, m) = 1..(Len(q) + 1)
  BY HasAppended
<1> QED BY <1>1, HasAppended

LEMMA OwnPosted ==
    ASSUME NEW q \in Seq(Messages), NEW m \in Messages, NEW fs, NEW mo, NEW mo2,
           ModemFollows(m, mo, mo2), OwnBreaches(q, fs, mo)
    PROVE  OwnBreaches(Append(q, m), fs, mo2)
<1> DEFINE p == Append(q, m)
           l == Len(q) + 1
<1>1. /\ l \in Int /\ Len(p) = l /\ l \in DOMAIN p /\ p[l] = m
      /\ \A k \in DOMAIN q : k \in Int /\ k < l /\ k \in DOMAIN p /\ p[k] = q[k]
      /\ \A k \in DOMAIN p : k \in Int /\ k <= l /\ (k = l \/ (k \in DOMAIN q /\ p[k] = q[k]))
  BY AppendedIs
<1>2. \A h \in ModemIds : mo[h] # NoFence => Becomes(q, l, fs, h, mo[h].session)
  BY DEF OwnBreaches
<1> HIDE DEF p, l
<1>3. ASSUME NEW h \in ModemIds, NEW n \in Int, n <= l, NEW s, Becomes(q, n, fs, h, s)
      PROVE  Becomes(p, n, fs, h, s)
  <2>1. \A j \in DOMAIN p : j < n => j \in DOMAIN q /\ p[j] = q[j] BY <1>1, <1>3
  <2>2. \A j \in DOMAIN q : j \in DOMAIN p /\ p[j] = q[j] BY <1>1
  <2> QED BY <1>3, <2>1, <2>2 DEF Becomes
<1>4. ASSUME NEW h \in ModemIds, mo2[h] # NoFence
      PROVE  Becomes(p, l + 1, fs, h, mo2[h].session)
  <2>1. CASE Gives(m, h)
    <3>1. m.to.session = mo2[h].session BY <2>1 DEF ModemFollows
    <3>2. l \in DOMAIN p /\ l < l + 1 /\ Gives(p[l], h) BY <1>1, <2>1
    <3>3. \A j \in DOMAIN p : j # l => j < l BY <1>1
    <3>4. ASSUME NEW j \in DOMAIN p, \A i \in DOMAIN p : j < i /\ i < l + 1 => ~Gives(p[i], h)
          PROVE  j = l
      BY <3>2, <3>3, <3>4
    <3> QED BY <1>1, <3>1, <3>2, <3>4 DEF Becomes
  <2>2. CASE ~Gives(m, h)
    <3>1. mo[h] # NoFence /\ mo2[h].session = mo[h].session
      BY <1>4, <2>2 DEF ModemFollows, Alters
    <3>2. Becomes(p, l, fs, h, mo2[h].session) BY <1>1, <1>2, <1>3, <3>1
    <3>3. \A j \in DOMAIN p : j < l + 1 /\ Gives(p[j], h) => j < l BY <1>1, <2>2
    <3>4. \A j \in DOMAIN p : j < l => j < l + 1 BY <1>1
    <3> QED BY <3>2, <3>3, <3>4 DEF Becomes
  <2> QED BY <2>1, <2>2
<1>5. ASSUME NEW h \in ModemIds, NEW k \in DOMAIN p, p[k].what = "breach", p[k].hw = h
      PROVE  Becomes(p, k, fs, h, p[k].session)
  <2>1. CASE k = l
    <3>1. mo[h] # NoFence /\ p[k].session = mo[h].session BY <1>1, <1>5, <2>1 DEF ModemFollows
    <3> QED BY <1>1, <1>2, <1>3, <2>1, <3>1
  <2>2. CASE k # l
    <3>1. Becomes(q, k, fs, h, q[k].session) /\ k \in Int /\ k <= l /\ p[k] = q[k]
      BY <1>1, <1>5, <2>2 DEF OwnBreaches
    <3> QED BY <1>3, <3>1
  <2> QED BY <2>1, <2>2
<1> QED BY <1>1, <1>4, <1>5 DEF OwnBreaches, p
-----------------------------------------------------------------------------
(* The pause flags, from message to message                                  *)

PausesFollow(m, fs, fs2) ==
    \A h \in ModemIds : fs2[h] # NoFence =>
        IF Settles(m, h) THEN fs2[h].paused = (m.to.do = "pause")
        ELSE fs[h] # NoFence /\ fs2[h].paused = fs[h].paused

LEMMA PausesTaken ==
    ASSUME NEW q \in Seq(Messages), q # <<>>, NEW fs, NEW fs2, PausesFollow(Head(q), fs, fs2),
           NEW mo, LastPauses(q, fs, mo)
    PROVE  LastPauses(Tail(q), fs2, mo)
<1> DEFINE p == Tail(q)
<1>1. /\ 1 \in DOMAIN q /\ Head(q) = q[1]
      /\ \A k \in DOMAIN p : k \in Int /\ k >= 1 /\ k + 1 \in DOMAIN q /\ p[k] = q[k + 1]
      /\ \A k \in DOMAIN q : k \in Int /\ k >= 1 /\ (k = 1 \/ (k - 1 \in DOMAIN p /\ q[k] = p[k - 1]))
  BY HasTaken
<1> HIDE DEF p
<1>2. ASSUME NEW h \in ModemIds, mo[h] # NoFence, NEW k \in DOMAIN p, LastSettles(p, k, h)
      PROVE  mo[h].paused = (p[k].to.do = "pause")
  <2>1. k + 1 \in DOMAIN q /\ p[k] = q[k + 1] /\ Settles(q[k + 1], h)
    BY <1>1, <1>2 DEF LastSettles
  <2>2. ASSUME NEW j \in DOMAIN q, j > k + 1 PROVE ~Settles(q[j], h)
    <3>1. j - 1 \in DOMAIN p /\ q[j] = p[j - 1] /\ j - 1 > k BY <1>1, <2>2
    <3> QED BY <1>2, <3>1 DEF LastSettles
  <2>3. LastSettles(q, k + 1, h) BY <2>1, <2>2 DEF LastSettles
  <2>4. mo[h].paused = (q[k + 1].to.do = "pause") BY <1>2, <2>1, <2>3 DEF LastPauses
  <2> QED BY <2>1, <2>4
<1>3. ASSUME NEW h \in ModemIds, mo[h] # NoFence, fs2[h] # NoFence,
             \A k \in DOMAIN p : ~Settles(p[k], h)
      PROVE  fs2[h].paused = mo[h].paused
  <2>1. \A j \in DOMAIN q : j > 1 => ~Settles(q[j], h) BY <1>1, <1>3
  <2>2. CASE Settles(q[1], h)
    <3>1. LastSettles(q, 1, h) BY <1>1, <2>1, <2>2 DEF LastSettles
    <3>2. mo[h].paused = (q[1].to.do = "pause") BY <1>1, <1>3, <3>1 DEF LastPauses
    <3>3. fs2[h].paused = (q[1].to.do = "pause") BY <1>1, <1>3, <2>2 DEF PausesFollow
    <3> QED BY <3>2, <3>3
  <2>3. CASE ~Settles(q[1], h)
    <3>1. \A j \in DOMAIN q : ~Settles(q[j], h) BY <1>1, <2>1, <2>3
    <3>2. fs[h] # NoFence /\ fs2[h].paused = fs[h].paused BY <1>1, <1>3, <2>3 DEF PausesFollow
    <3> QED BY <1>3, <3>1, <3>2 DEF LastPauses
  <2> QED BY <2>2, <2>3
<1> QED BY <1>2, <1>3 DEF LastPauses, p

LEMMA PausesPosted ==
    ASSUME NEW q \in Seq(Messages), NEW m \in Messages, NEW fs, NEW mo, NEW mo2,
           ModemFollows(m, mo, mo2), LastPauses(q, fs, mo)
    PROVE  LastPauses(Append(q, m), fs, mo2)
<1> DEFINE p == Append(q, m)
           l == Len(q) + 1
<1>1. /\ l \in DOMAIN p /\ p[l] = m
      /\ \A k \in DOMAIN q : k \in Int /\ k < l /\ k \in DOMAIN p /\ p[k] = q[k]
      /\ \A k \in DOMAIN p : k \in Int /\ k <= l /\ (k = l \/ (k \in DOMAIN q /\ p[k] = q[k]))
  BY AppendedIs
<1> HIDE DEF p, l
<1>2. ASSUME NEW h \in ModemIds, mo2[h] # NoFence
      PROVE  /\ \A k \in DOMAIN p : LastSettles(p, k, h) => mo2[h].paused = (p[k].to.do = "pause")
             /\ \/ \E k \in DOMAIN p : Settles(p[k], h)
                \/ fs[h] = NoFence
                \/ fs[h].paused = mo2[h].paused
  <2>1. CASE Settles(m, h)
    <3>1. \A k \in DOMAIN p : LastSettles(p, k, h) => k = l
      <4> SUFFICES ASSUME NEW k \in DOMAIN p, LastSettles(p, k, h), k # l PROVE FALSE
        OBVIOUS
      <4>1. l > k /\ Settles(p[l], h) BY <1>1, <2>1
      <4> QED BY <1>1, <4>1 DEF LastSettles
    <3>2. mo2[h].paused = (m.to.do = "pause") BY <1>2, <2>1 DEF ModemFollows
    <3> QED BY <1>1, <2>1, <3>1, <3>2
  <2>2. CASE ~Settles(m, h)
    <3>1. ~Gives(m, h) BY <2>2 DEF Gives, Settles
    <3>2. mo[h] # NoFence /\ mo2[h].paused = mo[h].paused
      BY <1>2, <2>2, <3>1 DEF ModemFollows, Alters
    <3>3. ASSUME NEW k \in DOMAIN p, LastSettles(p, k, h)
          PROVE  mo2[h].paused = (p[k].to.do = "pause")
      <4>1. k \in DOMAIN q /\ p[k] = q[k] BY <1>1, <2>2, <3>3 DEF LastSettles
      <4>2. LastSettles(q, k, h) BY <1>1, <3>3, <4>1 DEF LastSettles
      <4>3. mo[h].paused = (q[k].to.do = "pause") BY <3>2, <4>1, <4>2 DEF LastPauses
      <4> QED BY <3>2, <4>1, <4>3
    <3>4. (\E k \in DOMAIN q : Settles(q[k], h)) \/ fs[h] = NoFence \/ fs[h].paused = mo[h].paused
      BY <3>2 DEF LastPauses
    <3> QED BY <1>1, <3>2, <3>3, <3>4
  <2> QED BY <2>1, <2>2
<1> QED BY <1>2 DEF LastPauses, p
-----------------------------------------------------------------------------
(* What the adapter and the modem will have, from message to message         *)

MapsFollow(m, fs, fs2) ==
    \A h \in ModemIds :
        /\ Gives(m, h) => fs2[h] # NoFence /\ fs2[h].session = m.to.session
        /\ Frees(m, h) => fs2[h] = NoFence
        /\ ~Alters(m, h) => (fs2[h] # NoFence <=> fs[h] # NoFence)
        /\ ~Alters(m, h) /\ fs2[h] # NoFence => fs2[h].session = fs[h].session

LEMMA ForeseenTaken ==
    ASSUME NEW q \in Seq(Messages), q # <<>>, NEW fs, NEW fs2, MapsFollow(Head(q), fs, fs2),
           NEW mo, Foreseen(q, fs, mo)
    PROVE  Foreseen(Tail(q), fs2, mo)
<1> DEFINE p == Tail(q)
<1>1. /\ 1 \in DOMAIN q /\ Head(q) = q[1]
      /\ \A k \in DOMAIN p : k \in Int /\ k >= 1 /\ k + 1 \in DOMAIN q /\ p[k] = q[k + 1]
      /\ \A k \in DOMAIN q : k \in Int /\ k >= 1 /\ (k = 1 \/ (k - 1 \in DOMAIN p /\ q[k] = p[k - 1]))
  BY HasTaken
<1> HIDE DEF p
<1>2. ASSUME NEW h \in ModemIds, NEW k \in DOMAIN p, LastAlters(p, k, h)
      PROVE  IF Gives(p[k], h) THEN mo[h] # NoFence /\ mo[h].session = p[k].to.session
             ELSE mo[h] = NoFence
  <2>1. k + 1 \in DOMAIN q /\ p[k] = q[k + 1] /\ Alters(q[k + 1], h)
    BY <1>1, <1>2 DEF LastAlters
  <2>2. ASSUME NEW j \in DOMAIN q, j > k + 1 PROVE ~Alters(q[j], h)
    <3>1. j - 1 \in DOMAIN p /\ q[j] = p[j - 1] /\ j - 1 > k BY <1>1, <2>2
    <3> QED BY <1>2, <3>1 DEF LastAlters
  <2>3. LastAlters(q, k + 1, h) BY <2>1, <2>2 DEF LastAlters
  <2> QED BY <2>1, <2>3 DEF Foreseen
<1>3. ASSUME NEW h \in ModemIds, \A k \in DOMAIN p : ~Alters(p[k], h)
      PROVE  \/ fs2[h] = NoFence /\ mo[h] = NoFence
             \/ fs2[h] # NoFence /\ mo[h] # NoFence /\ mo[h].session = fs2[h].session
  <2>1. \A j \in DOMAIN q : j > 1 => ~Alters(q[j], h) BY <1>1, <1>3
  <2>2. CASE Alters(q[1], h)
    <3>1. LastAlters(q, 1, h) BY <1>1, <2>1, <2>2 DEF LastAlters
    <3>2. IF Gives(q[1], h) THEN mo[h] # NoFence /\ mo[h].session = q[1].to.session
          ELSE mo[h] = NoFence
      BY <1>1, <3>1 DEF Foreseen
    <3> QED BY <1>1, <2>2, <3>2 DEF MapsFollow, Alters
  <2>3. CASE ~Alters(q[1], h)
    <3>1. \A j \in DOMAIN q : ~Alters(q[j], h) BY <1>1, <2>1, <2>3
    <3>2. \/ fs[h] = NoFence /\ mo[h] = NoFence
          \/ fs[h] # NoFence /\ mo[h] # NoFence /\ mo[h].session = fs[h].session
      BY <3>1 DEF Foreseen
    <3> QED BY <1>1, <2>3, <3>2 DEF MapsFollow
  <2> QED BY <2>2, <2>3
<1> QED BY <1>2, <1>3 DEF Foreseen, p

LEMMA FreeTaken ==
    ASSUME NEW q \in Seq(Messages), q # <<>>, NEW fs, NEW fs2, MapsFollow(Head(q), fs, fs2),
           FreeWhenGiven(q, fs)
    PROVE  FreeWhenGiven(Tail(q), fs2)
<1> DEFINE p == Tail(q)
<1>1. /\ 1 \in DOMAIN q /\ Head(q) = q[1]
      /\ \A k \in DOMAIN p : k \in Int /\ k >= 1 /\ k + 1 \in DOMAIN q /\ p[k] = q[k + 1]
      /\ \A k \in DOMAIN q : k \in Int /\ k >= 1 /\ (k = 1 \/ (k - 1 \in DOMAIN p /\ q[k] = p[k - 1]))
  BY HasTaken
<1> HIDE DEF p
<1> SUFFICES ASSUME NEW h \in ModemIds, NEW k \in DOMAIN p, Gives(p[k], h)
             PROVE  /\ \A j \in DOMAIN p : j < k /\ Gives(p[j], h) =>
                          \E i \in DOMAIN p : i > j /\ i < k /\ Frees(p[i], h)
                    /\ fs2[h] = NoFence \/ \E j \in DOMAIN p : j < k /\ Alters(p[j], h)
  BY DEF FreeWhenGiven, p
<1>2. /\ k + 1 \in DOMAIN q /\ k \in Int /\ Gives(q[k + 1], h)
      /\ \A j \in DOMAIN q : j < k + 1 /\ Gives(q[j], h) =>
            \E i \in DOMAIN q : i > j /\ i < k + 1 /\ Frees(q[i], h)
      /\ fs[h] = NoFence \/ \E j \in DOMAIN q : j < k + 1 /\ Alters(q[j], h)
  BY <1>1 DEF FreeWhenGiven
<1>3. ASSUME NEW j \in DOMAIN p, j < k, Gives(p[j], h)
      PROVE  \E i \in DOMAIN p : i > j /\ i < k /\ Frees(p[i], h)
  <2>1. j + 1 \in DOMAIN q /\ j + 1 < k + 1 /\ Gives(q[j + 1], h) BY <1>1, <1>2, <1>3
  <2>2. PICK i \in DOMAIN q : i > j + 1 /\ i < k + 1 /\ Frees(q[i], h) BY <1>2, <2>1
  <2>3. i - 1 \in DOMAIN p /\ i - 1 > j /\ i - 1 < k /\ Frees(p[i - 1], h) BY <1>1, <1>2, <2>2
  <2> QED BY <2>3
<1>4. ASSUME NEW j \in DOMAIN q, j > 1, j < k + 1, Alters(q[j], h)
      PROVE  \E i \in DOMAIN p : i < k /\ Alters(p[i], h)
  <2>1. j - 1 \in DOMAIN p /\ j - 1 < k /\ Alters(p[j - 1], h) BY <1>1, <1>2, <1>4
  <2> QED BY <2>1
<1>5. fs2[h] = NoFence \/ \E j \in DOMAIN p : j < k /\ Alters(p[j], h)
  <2>1. CASE Gives(q[1], h)
    <3>1. 1 < k + 1 BY <1>1
    <3>2. PICK i \in DOMAIN q : i > 1 /\ i < k + 1 /\ Frees(q[i], h) BY <1>1, <1>2, <2>1, <3>1
    <3> QED BY <1>4, <3>2 DEF Alters
  <2>2. CASE Frees(q[1], h) BY <1>1, <2>2 DEF MapsFollow
  <2>3. CASE ~Alters(q[1], h)
    <3>1. CASE fs[h] = NoFence BY <1>1, <2>3, <3>1 DEF MapsFollow
    <3>2. ASSUME NEW j \in DOMAIN q, j < k + 1, Alters(q[j], h)
          PROVE  \E i \in DOMAIN p : i < k /\ Alters(p[i], h)
      <4>1. j > 1 BY <1>1, <2>3, <3>2
      <4> QED BY <1>4, <3>2, <4>1
    <3> QED BY <1>2, <3>1, <3>2
  <2> QED BY <2>1, <2>2, <2>3 DEF Alters
<1> QED BY <1>3, <1>5

LEMMA ForeseenPosted ==
    ASSUME NEW q \in Seq(Messages), NEW m \in Messages, NEW fs, NEW mo, NEW mo2,
           ModemFollows(m, mo, mo2), Foreseen(q, fs, mo)
    PROVE  Foreseen(Append(q, m), fs, mo2)
<1> DEFINE p == Append(q, m)
           l == Len(q) + 1
<1>1. /\ l \in DOMAIN p /\ p[l] = m
      /\ \A k \in DOMAIN q : k \in Int /\ k < l /\ k \in DOMAIN p /\ p[k] = q[k]
      /\ \A k \in DOMAIN p : k \in Int /\ k <= l /\ (k = l \/ (k \in DOMAIN q /\ p[k] = q[k]))
  BY AppendedIs
<1> HIDE DEF p, l
<1>2. ASSUME NEW h \in ModemIds
      PROVE  /\ \A k \in DOMAIN p : LastAlters(p, k, h) =>
                   IF Gives(p[k], h) THEN mo2[h] # NoFence /\ mo2[h].session = p[k].to.session
                   ELSE mo2[h] = NoFence
             /\ \/ \E k \in DOMAIN p : Alters(p[k], h)
                \/ fs[h] = NoFence /\ mo2[h] = NoFence
                \/ fs[h] # NoFence /\ mo2[h] # NoFence /\ mo2[h].session = fs[h].session
  <2>1. CASE Alters(m, h)
    <3>1. \A k \in DOMAIN p : LastAlters(p, k, h) => k = l
      <4> SUFFICES ASSUME NEW k \in DOMAIN p, LastAlters(p, k, h), k # l PROVE FALSE
        OBVIOUS
      <4>1. l > k /\ Alters(p[l], h) BY <1>1, <2>1
      <4> QED BY <1>1, <4>1 DEF LastAlters
    <3>2. IF Gives(m, h) THEN mo2[h] # NoFence /\ mo2[h].session = m.to.session ELSE mo2[h] = NoFence
      BY <2>1 DEF ModemFollows, Alters
    <3> QED BY <1>1, <2>1, <3>1, <3>2
  <2>2. CASE ~Alters(m, h)
    <3>1. /\ mo2[h] # NoFence <=> mo[h] # NoFence
          /\ mo2[h] # NoFence => mo2[h].session = mo[h].session
      BY <2>2 DEF ModemFollows
    <3>2. ASSUME NEW k \in DOMAIN p, LastAlters(p, k, h)
          PROVE  IF Gives(p[k], h) THEN mo2[h] # NoFence /\ mo2[h].session = p[k].to.session
                 ELSE mo2[h] = NoFence
      <4>1. k \in DOMAIN q /\ p[k] = q[k] BY <1>1, <2>2, <3>2 DEF LastAlters
      <4>2. LastAlters(q, k, h) BY <1>1, <3>2, <4>1 DEF LastAlters
      <4>3. IF Gives(q[k], h) THEN mo[h] # NoFence /\ mo[h].session = q[k].to.session
            ELSE mo[h] = NoFence
        BY <4>1, <4>2 DEF Foreseen
      <4> QED BY <3>1, <4>1, <4>3
    <3>3. \/ \E k \in DOMAIN q : Alters(q[k], h)
          \/ fs[h] = NoFence /\ mo[h] = NoFence
          \/ fs[h] # NoFence /\ mo[h] # NoFence /\ mo[h].session = fs[h].session
      BY DEF Foreseen
    <3> QED BY <1>1, <3>1, <3>2, <3>3
  <2> QED BY <2>1, <2>2
<1> QED BY <1>2 DEF Foreseen, p

LEMMA FreePosted ==
    ASSUME NEW q \in Seq(Messages), NEW m \in Messages, NEW fs, NEW mo, FreeWhenGiven(q, fs),
           \A h \in ModemIds : Gives(m, h) => mo[h] = NoFence /\ Foreseen(q, fs, mo)
    PROVE  FreeWhenGiven(Append(q, m), fs)
<1> DEFINE p == Append(q, m)
           l == Len(q) + 1
<1>1. /\ l \in DOMAIN p /\ p[l] = m
      /\ \A k \in DOMAIN q : k \in Int /\ k < l /\ k \in DOMAIN p /\ p[k] = q[k]
      /\ \A k \in DOMAIN p : k \in Int /\ k <= l /\ (k = l \/ (k \in DOMAIN q /\ p[k] = q[k]))
  BY AppendedIs
<1> HIDE DEF p, l
<1> SUFFICES ASSUME NEW h \in ModemIds, NEW k \in DOMAIN p, Gives(p[k], h)
             PROVE  /\ \A j \in DOMAIN p : j < k /\ Gives(p[j], h) =>
                          \E i \in DOMAIN p : i > j /\ i < k /\ Frees(p[i], h)
                    /\ fs[h] = NoFence \/ \E j \in DOMAIN p : j < k /\ Alters(p[j], h)
  BY DEF FreeWhenGiven, p
<1>2. CASE k # l
  <2>1. k \in DOMAIN q /\ p[k] = q[k] BY <1>1, <1>2
  <2>2. /\ \A j \in DOMAIN q : j < k /\ Gives(q[j], h) =>
              \E i \in DOMAIN q : i > j /\ i < k /\ Frees(q[i], h)
        /\ fs[h] = NoFence \/ \E j \in DOMAIN q : j < k /\ Alters(q[j], h)
    BY <2>1 DEF FreeWhenGiven
  <2>3. \A j \in DOMAIN p : j < k => j \in DOMAIN q /\ p[j] = q[j] BY <1>1, <2>1
  <2> QED BY <1>1, <2>2, <2>3
<1>3. CASE k = l
  <2>1. mo[h] = NoFence /\ Foreseen(q, fs, mo) BY <1>1, <1>3
  <2>2. ASSUME NEW j \in DOMAIN q, Gives(q[j], h), \A i \in DOMAIN q : i > j => ~Frees(q[i], h)
        PROVE  FALSE
    <3>1. \A i \in DOMAIN q : i > j => ~Gives(q[i], h)
      <4> SUFFICES ASSUME NEW i \in DOMAIN q, i > j, Gives(q[i], h) PROVE FALSE
        OBVIOUS
      <4>1. j < i BY <1>1
      <4> QED BY <2>2, <4>1 DEF FreeWhenGiven
    <3>2. LastAlters(q, j, h) BY <2>2, <3>1 DEF LastAlters, Alters
    <3> QED BY <2>1, <2>2, <3>2 DEF Foreseen
  <2>3. fs[h] = NoFence \/ \E j \in DOMAIN q : Alters(q[j], h) BY <2>1 DEF Foreseen
  <2>4. ASSUME NEW j \in DOMAIN p, j < k, Gives(p[j], h)
        PROVE  \E i \in DOMAIN p : i > j /\ i < k /\ Frees(p[i], h)
    <3>1. j \in DOMAIN q /\ p[j] = q[j] BY <1>1, <1>3, <2>4
    <3>2. PICK i \in DOMAIN q : i > j /\ Frees(q[i], h) BY <2>2, <2>4, <3>1
    <3> QED BY <1>1, <1>3, <3>2
  <2> QED BY <1>1, <1>3, <2>3, <2>4
<1> QED BY <1>2, <1>3
-----------------------------------------------------------------------------
(* Each session is added once at a time                                      *)

LEMMA OnceTaken ==
    ASSUME NEW Q, NEW R, NEW q \in Seq(Q), q # <<>>, NEW rs \in Seq(R), NEW out \in Seq(R),
           AddedOnce(q, rs),
           \A k \in DOMAIN out, j \in DOMAIN q : j # 1 => Adds(q[j]) \cap AddsRequest(out[k]) = {},
           \A k \in DOMAIN out, j \in DOMAIN rs : AddsRequest(rs[j]) \cap AddsRequest(out[k]) = {},
           \A j, k \in DOMAIN out : j # k => AddsRequest(out[j]) \cap AddsRequest(out[k]) = {}
    PROVE  AddedOnce(Tail(q), rs \o out)
<1> DEFINE p == Tail(q)
           o == rs \o out
           l == Len(rs)
<1>1. \A k \in DOMAIN p : k \in Int /\ k + 1 # 1 /\ k + 1 \in DOMAIN q /\ p[k] = q[k + 1]
  BY HasTaken
<1>2. /\ l \in Int /\ \A k \in DOMAIN o : k \in Int
      /\ \A k \in DOMAIN o :
            \/ k \in DOMAIN rs /\ o[k] = rs[k]
            \/ k - l \in DOMAIN out /\ o[k] = out[k - l]
  BY HasJoined
<1> HIDE DEF p, o, l
<1>3. \A j, k \in DOMAIN p : j # k => Adds(p[j]) \cap Adds(p[k]) = {}
  <2>1. \A j, k \in DOMAIN p : j # k => j + 1 # k + 1 BY <1>1
  <2> QED BY <1>1, <2>1 DEF AddedOnce
<1>4. \A j, k \in DOMAIN o : j # k => AddsRequest(o[j]) \cap AddsRequest(o[k]) = {}
  <2> SUFFICES ASSUME NEW j \in DOMAIN o, NEW k \in DOMAIN o, j # k
               PROVE  AddsRequest(o[j]) \cap AddsRequest(o[k]) = {}
    OBVIOUS
  <2>1. CASE j \in DOMAIN rs /\ o[j] = rs[j] /\ k \in DOMAIN rs /\ o[k] = rs[k]
    BY <2>1 DEF AddedOnce
  <2>2. CASE j \in DOMAIN rs /\ o[j] = rs[j] /\ k - l \in DOMAIN out /\ o[k] = out[k - l]
    BY <2>2
  <2>3. CASE k \in DOMAIN rs /\ o[k] = rs[k] /\ j - l \in DOMAIN out /\ o[j] = out[j - l]
    <3>1. AddsRequest(rs[k]) \cap AddsRequest(out[j - l]) = {} BY <2>3
    <3> QED BY <2>3, <3>1
  <2>4. CASE j - l \in DOMAIN out /\ o[j] = out[j - l] /\ k - l \in DOMAIN out /\ o[k] = out[k - l]
    <3>1. j - l # k - l BY <1>2
    <3> QED BY <2>4, <3>1
  <2> QED BY <1>2, <2>1, <2>2, <2>3, <2>4
<1>5. \A j \in DOMAIN p, k \in DOMAIN o : Adds(p[j]) \cap AddsRequest(o[k]) = {}
  <2> SUFFICES ASSUME NEW j \in DOMAIN p, NEW k \in DOMAIN o
               PROVE  Adds(p[j]) \cap AddsRequest(o[k]) = {}
    OBVIOUS
  <2>1. CASE k \in DOMAIN rs /\ o[k] = rs[k] BY <1>1, <2>1 DEF AddedOnce
  <2>2. CASE k - l \in DOMAIN out /\ o[k] = out[k - l] BY <1>1, <2>2
  <2> QED BY <1>2, <2>1, <2>2
<1> QED BY <1>3, <1>4, <1>5 DEF AddedOnce, p, o

(* A message is taken: the map hs2 has lost sessions, or has gained the one  *)
(* that it added; requests add that one, or sessions that the map had.       *)
LEMMA AddsTaken ==
    ASSUME NEW Q, NEW R, NEW q \in Seq(Q), q # <<>>, NEW rs \in Seq(R), NEW out \in Seq(R),
           NEW hs, NEW hs2, NEW cs, NEW ds, Used(ds) = Used(cs), AddsOk(q, rs, hs, cs),
           \A s \in Sessions : hs2[s] \in {hs[s], NoHw} \/ s \in Adds(Head(q)),
           \A k \in DOMAIN q : Adds(q[k]) \subseteq Sessions,
           \A k \in DOMAIN rs : AddsRequest(rs[k]) \subseteq Sessions,
           \A k \in DOMAIN out : \A s \in AddsRequest(out[k]) :
              s \in Sessions /\ hs2[s] = NoHw /\ (s \in Adds(Head(q)) \/ hs[s] # NoHw),
           \A j, k \in DOMAIN out : j # k => AddsRequest(out[j]) \cap AddsRequest(out[k]) = {}
    PROVE  AddsOk(Tail(q), rs \o out, hs2, ds)
<1> DEFINE p == Tail(q)
           o == rs \o out
           x == Adds(Head(q))
<1>1. /\ 1 \in DOMAIN q /\ Head(q) = q[1]
      /\ \A k \in DOMAIN p : k \in Int /\ k + 1 # 1 /\ k + 1 \in DOMAIN q /\ p[k] = q[k + 1]
  BY HasTaken
<1>2. \A k \in DOMAIN o :
         \/ k \in DOMAIN rs /\ o[k] = rs[k]
         \/ k - Len(rs) \in DOMAIN out /\ o[k] = out[k - Len(rs)]
  BY HasJoined
<1>3. /\ \A s \in x : s \in Used(cs)
      /\ \A k \in DOMAIN q : k # 1 => Adds(q[k]) \cap x = {}
      /\ \A k \in DOMAIN rs : AddsRequest(rs[k]) \cap x = {}
  BY <1>1 DEF AddsOk, AddedOnce, ToAdd
<1>4. /\ \A k \in DOMAIN out, j \in DOMAIN q : j # 1 => Adds(q[j]) \cap AddsRequest(out[k]) = {}
      /\ \A k \in DOMAIN out, j \in DOMAIN rs : AddsRequest(rs[j]) \cap AddsRequest(out[k]) = {}
  BY <1>3 DEF AddsOk, ToAdd
<1>5. AddedOnce(p, o) BY <1>4, OnceTaken DEF AddsOk
<1> HIDE DEF p, o, x
<1>6. \A s \in Sessions : hs2[s] \in {hs[s], NoHw} \/ s \in x BY DEF x
<1>7. ASSUME NEW k \in DOMAIN p, NEW s \in Adds(p[k]) PROVE ToAdd(s, hs2, ds)
  <2>1. hs[s] = NoHw /\ s \in Used(cs) /\ s \notin x /\ s \in Sessions
    BY <1>1, <1>3, <1>7 DEF AddsOk, ToAdd
  <2> QED BY <1>6, <2>1 DEF ToAdd
<1>8. ASSUME NEW k \in DOMAIN o, NEW s \in AddsRequest(o[k]) PROVE ToAdd(s, hs2, ds)
  <2>1. CASE k \in DOMAIN rs /\ o[k] = rs[k]
    <3>1. hs[s] = NoHw /\ s \in Used(cs) /\ s \notin x /\ s \in Sessions
      BY <1>3, <1>8, <2>1 DEF AddsOk, ToAdd
    <3> QED BY <1>6, <3>1 DEF ToAdd
  <2>2. CASE k - Len(rs) \in DOMAIN out /\ o[k] = out[k - Len(rs)]
    <3>1. s \in Sessions /\ hs2[s] = NoHw /\ (s \in x \/ hs[s] # NoHw) BY <1>8, <2>2 DEF x
    <3> QED BY <1>3, <3>1 DEF AddsOk, ToAdd
  <2> QED BY <1>2, <2>1, <2>2
<1>9. \A s \in Sessions : hs2[s] # NoHw => s \in Used(ds) BY <1>3, <1>6 DEF AddsOk
<1> QED BY <1>5, <1>7, <1>8, <1>9 DEF AddsOk, p, o

LEMMA AddsPosted ==
    ASSUME NEW Q, NEW q \in Seq(Q), NEW m \in Q, NEW rs, NEW hs, NEW cs, NEW ds,
           Used(cs) \subseteq Used(ds), AddsOk(q, rs, hs, cs),
           \A s \in Adds(m) : hs[s] = NoHw /\ s \in Used(ds) /\ s \notin Used(cs)
    PROVE  AddsOk(Append(q, m), rs, hs, ds)
<1> DEFINE p == Append(q, m)
<1>1. \A k \in DOMAIN p : \/ k \in DOMAIN q /\ p[k] = q[k]
                          \/ k = Len(q) + 1 /\ p[k] = m
  BY HasAppended
<1> HIDE DEF p
<1>2. /\ \A k \in DOMAIN q : Adds(q[k]) \cap Adds(m) = {}
      /\ \A k \in DOMAIN rs : Adds(m) \cap AddsRequest(rs[k]) = {}
  BY DEF AddsOk, ToAdd
<1>3. \A j, k \in DOMAIN p : j # k => Adds(p[j]) \cap Adds(p[k]) = {}
  BY <1>1, <1>2 DEF AddsOk, AddedOnce
<1>4. \A j \in DOMAIN p, k \in DOMAIN rs : Adds(p[j]) \cap AddsRequest(rs[k]) = {}
  BY <1>1, <1>2 DEF AddsOk, AddedOnce
<1>5. AddedOnce(p, rs) BY <1>3, <1>4 DEF AddsOk, AddedOnce
<1>6. \A k \in DOMAIN p : \A s \in Adds(p[k]) : ToAdd(s, hs, ds) BY <1>1 DEF AddsOk, ToAdd
<1> QED BY <1>5, <1>6 DEF AddsOk, ToAdd, p

LEMMA AddsMoved ==
    ASSUME NEW Q, NEW R, NEW q \in Seq(Q), NEW rs \in Seq(R), rs # <<>>, NEW m \in Q,
           NEW hs, NEW cs, AddsOk(q, rs, hs, cs), Adds(m) \subseteq AddsRequest(Head(rs))
    PROVE  AddsOk(Append(q, m), Tail(rs), hs, cs)
<1> DEFINE p == Append(q, m)
           o == Tail(rs)
<1>1. \A k \in DOMAIN p : \/ k \in DOMAIN q /\ p[k] = q[k]
                          \/ k = Len(q) + 1 /\ p[k] = m
  BY HasAppended
<1>2. /\ 1 \in DOMAIN rs /\ Head(rs) = rs[1]
      /\ \A k \in DOMAIN o : k + 1 \in DOMAIN rs /\ o[k] = rs[k + 1]
      /\ \A k \in DOMAIN o : k \in Int /\ k + 1 # 1
      /\ \A j, k \in DOMAIN o : j # k => j + 1 # k + 1
  BY HasTaken
<1> HIDE DEF p, o
<1>3. /\ \A k \in DOMAIN q : Adds(q[k]) \cap Adds(m) = {}
      /\ \A k \in DOMAIN o : Adds(m) \cap AddsRequest(o[k]) = {}
  BY <1>2 DEF AddsOk, AddedOnce
<1>4. \A j, k \in DOMAIN p : j # k => Adds(p[j]) \cap Adds(p[k]) = {}
  BY <1>1, <1>3 DEF AddsOk, AddedOnce
<1>5. \A j \in DOMAIN p, k \in DOMAIN o : Adds(p[j]) \cap AddsRequest(o[k]) = {}
  BY <1>1, <1>2, <1>3 DEF AddsOk, AddedOnce
<1>6. \A j, k \in DOMAIN o : j # k => AddsRequest(o[j]) \cap AddsRequest(o[k]) = {}
  BY <1>2 DEF AddsOk, AddedOnce
<1>7. /\ \A k \in DOMAIN p : \A s \in Adds(p[k]) : ToAdd(s, hs, cs)
      /\ \A k \in DOMAIN o : \A s \in AddsRequest(o[k]) : ToAdd(s, hs, cs)
  BY <1>1, <1>2 DEF AddsOk
<1> QED BY <1>4, <1>5, <1>6, <1>7 DEF AddsOk, AddedOnce, p, o
-----------------------------------------------------------------------------
(* The modem's geofences and their messages, as messages are posted          *)

LEMMA UpForesees ==
    ASSUME NEW q \in Seq(Messages), NEW m \in Messages, m.what = "up", NEW fs, NEW mo,
           \A h \in ModemIds : mo[h] = NoFence
    PROVE  Foreseen(Append(q, m), fs, mo)
<1> DEFINE p == Append(q, m)
           l == Len(q) + 1
<1>1. /\ l \in DOMAIN p /\ p[l] = m
      /\ \A k \in DOMAIN p : k \in Int /\ k <= l
  BY AppendedIs
<1> HIDE DEF p
<1>2. \A h : Alters(m, h) /\ ~Gives(m, h) BY DEF Alters, Gives, Frees
<1>3. ASSUME NEW h, NEW k \in DOMAIN p, LastAlters(p, k, h) PROVE k = l
  BY <1>1, <1>2, <1>3 DEF LastAlters
<1> QED BY <1>1, <1>2, <1>3 DEF Foreseen, p

LEMMA ModemPosts ==
    ASSUME TypeOK, ModemInv, NEW m \in Messages, queue' = Append(queue, m),
           UNCHANGED <<world, adapter>>, MessageHere(m, world, client),
           ModemFollows(m, modem, modem'),
           \A k \in DOMAIN requests' : RequestHere(requests'[k], world, client),
           Opens(requests', modemUp'), Used(commands) \subseteq Used(commands'),
           "locks" \notin world => Unlocked', ~Restarts => modemUp',
           ~modemUp' => \A h \in ModemIds : modem'[h] = NoFence,
           Sound => AddsOk(queue', requests', hwIds, commands'),
           modemUp \/ \A h : ~Gives(m, h),
           modemUp' => modemUp \/ (m.what = "up" /\ \A h \in ModemIds : modem'[h] = NoFence)
    PROVE  ModemInv'
<1>1. queue \in Seq(Messages) BY DEF TypeOK
<1>2. (\A k \in DOMAIN queue : MessageHere(queue[k], world, client)) /\ OwnBreaches(queue, fences, modem)
      /\ ("power" \notin world => power = "unknown")
  BY DEF ModemInv, HereInv
<1>3. UNCHANGED <<client, fences, hwIds, power>> BY DEF adapter
<1>4. HereInv'
  <2>1. \A k \in DOMAIN queue' : MessageHere(queue'[k], world, client)
    <3>1. \A k \in DOMAIN Append(queue, m) :
             k = Len(queue) + 1 \/ (k \in DOMAIN queue /\ Append(queue, m)[k] = queue[k])
      BY <1>1, AppendedIs
    <3>2. Append(queue, m)[Len(queue) + 1] = m BY <1>1, AppendedIs
    <3> QED BY <1>2, <3>1, <3>2
  <2> QED BY <1>2, <1>3, <2>1 DEF HereInv, Restarts, Exposed
<1>5. OwnBreaches(queue', fences', modem') BY <1>1, <1>2, <1>3, OwnPosted
<1>6. ~Restarts => LastPauses(queue', fences', modem') BY <1>1, <1>3, PausesPosted DEF ModemInv
<1>7. ASSUME Sound
      PROVE  /\ FreeWhenGiven(queue', fences')
             /\ modemUp' => Foreseen(queue', fences', modem')
  <2>1. FreeWhenGiven(queue, fences) /\ (modemUp => Foreseen(queue, fences, modem))
    BY <1>7 DEF ModemInv
  <2>2. \A h \in ModemIds : Gives(m, h) => modem[h] = NoFence BY DEF ModemFollows
  <2>3. FreeWhenGiven(queue', fences') BY <1>1, <1>3, <2>1, <2>2, FreePosted
  <2>4. ASSUME modemUp' PROVE Foreseen(queue', fences', modem')
    BY <1>1, <1>3, <2>1, <2>4, ForeseenPosted, UpForesees
  <2> QED BY <2>3, <2>4
<1>8. Sound' <=> Sound BY <1>3 DEF Sound, Exposed, Slept, Restarts
<1>9. Restarts' <=> Restarts BY DEF Restarts, Exposed
<1>10. Sound => Paired(hwIds', fences') /\ AddsOk(queue', requests', hwIds', commands')
  BY <1>3 DEF ModemInv
<1> QED BY <1>4, <1>5, <1>6, <1>7, <1>8, <1>9, <1>10 DEF ModemInv

(* A message of no answer, and one to which the modem is a stranger          *)
LEMMA SameFollows ==
    ASSUME NEW m, NEW mo, \A h : ~Alters(m, h) /\ ~Settles(m, h),
           \A h \in ModemIds : m.what = "breach" /\ m.hw = h => mo[h] # NoFence /\ m.session = mo[h].session
    PROVE  ModemFollows(m, mo, mo)
BY DEF ModemFollows, Alters

(* Events of the environment, and the end of the client                      *)
LEMMA ModemEvents ==
    ASSUME TypeOK, ModemInv, NEW m \in Messages, m.what \in {"power", "breach", "destroy"},
           queue' = Append(queue, m), UNCHANGED <<world, commands, adapter, requests, engine>>,
           m.what = "power" => "power" \in world,
           m.what = "breach" => m.hw \in ModemIds /\ modem[m.hw] # NoFence /\ m.session = modem[m.hw].session
    PROVE  ModemInv'
<1>1. queue \in Seq(Messages) /\ requests \in Seq(Requests) BY DEF TypeOK
<1>2. UNCHANGED <<engineLock, modemUp, modem>> BY DEF engine
<1>3. ModemFollows(m, modem, modem)
  <2>1. \A h : ~Alters(m, h) /\ ~Settles(m, h) BY DEF Alters, Gives, Frees, Settles
  <2> QED BY <2>1, SameFollows
<1>4. MessageHere(m, world, client) BY DEF MessageHere, AnswerMeant
<1>5. Sound => AddsOk(queue', requests', hwIds, commands')
  <2>1. Adds(m) = {} BY DEF Adds
  <2>2. Sound => AddsOk(queue, requests, hwIds, commands) BY DEF ModemInv
  <2> QED BY <1>1, <2>1, <2>2, AddsPosted
<1>6. /\ \A k \in DOMAIN requests : RequestHere(requests[k], world, client)
      /\ Opens(requests, modemUp) /\ ("locks" \notin world => Unlocked) /\ (~Restarts => modemUp)
      /\ (~modemUp => \A h \in ModemIds : modem[h] = NoFence)
  BY DEF ModemInv, HereInv
<1>7. \A h : ~Gives(m, h) BY DEF Gives
<1> QED BY <1>2, <1>3, <1>4, <1>5, <1>6, <1>7, ModemPosts DEF Unlocked

LEMMA EnvironmentAgrees ==
    ASSUME TypeOK, ModemInv, PowerChanges \/ destroy \/ \E h \in ModemIds : Breach(h)
    PROVE  ModemInv'
<1>0. 0 \in HwIds /\ 0 \in 0..MaxSessions BY GeofenceAssumption DEF HwIds
<1>1. ASSUME PowerChanges PROVE ModemInv'
  <2>1. PICK resumed \in BOOLEAN : queue' = Append(queue, Event("power", 0, 0, resumed))
    BY <1>1 DEF PowerChanges
  <2>2. "power" \in world /\ UNCHANGED <<world, user, adapter, requests, engine>>
    BY <1>1 DEF PowerChanges
  <2>3. Event("power", 0, 0, resumed) \in Messages /\ Event("power", 0, 0, resumed).what = "power"
    BY <1>0, EventTyped
  <2> QED BY <2>1, <2>2, <2>3, ModemEvents DEF user
<1>2. ASSUME destroy PROVE ModemInv'
  <2>1. Event("destroy", 0, 0, FALSE) \in Messages /\ Event("destroy", 0, 0, FALSE).what = "destroy"
    BY <1>0, EventTyped
  <2>2. /\ queue' = Append(queue, Event("destroy", 0, 0, FALSE))
        /\ UNCHANGED <<world, commands, adapter, requests, engine>>
    BY <1>2 DEF destroy
  <2> QED BY <2>1, <2>2, ModemEvents
<1>3. ASSUME NEW h \in ModemIds, Breach(h) PROVE ModemInv'
  <2> DEFINE m == Event("breach", h, modem[h].session, FALSE)
  <2>1. modem[h] # NoFence /\ queue' = Append(queue, m) /\ UNCHANGED <<world, user, adapter, requests, engine>>
    BY <1>3 DEF Breach
  <2>2. modem[h] \in Fence /\ h \in HwIds
    BY <2>1, GeofenceAssumption DEF TypeOK, HwIds, ModemIds
  <2>3. modem[h].session \in 0..MaxSessions BY <2>2, GeofenceAssumption DEF Fence, Sessions
  <2>4. m \in Messages /\ m.what = "breach" /\ m.hw = h /\ m.session = modem[h].session
    BY <2>2, <2>3, EventTyped DEF Event
  <2> HIDE DEF m
  <2> QED BY <2>1, <2>4, ModemEvents DEF user
<1> QED BY <1>1, <1>2, <1>3

(* The framework's commands                                                  *)
LEMMA SendAgrees ==
    ASSUME Base, ModemInv, NEW do, NEW ids, NEW sessions, Sends(do, ids, sessions),
           Names(do, ids, sessions)
    PROVE  ModemInv'
<1> DEFINE m == NewMessage(do, Len(commands) + 1, sessions)
<1>1. /\ m \in Messages /\ queue' = Append(queue, m)
      /\ Used(commands') = IF do = "add" THEN 1..NewSession ELSE Used(commands)
      /\ Used(commands) \subseteq Used(commands')
  BY SendEffect DEF Base
<1>2. UNCHANGED <<world, events, breaches, adapter, requests, engine>> BY DEF Sends, Send
<1>3. m.what = "command" /\ m.do = do /\ m.ids = sessions /\ sessions \in Seq(Sessions)
  BY DEF NewMessage, Sends
<1>4. Adds(m) = IF do = "add" THEN Range(sessions) ELSE {} BY <1>3 DEF Adds
<1> HIDE DEF m
<1>5. TypeOK /\ queue \in Seq(Messages) BY DEF Base, TypeOK
<1>6. Sound => AddsOk(queue', requests', hwIds, commands')
  <2> SUFFICES ASSUME Sound PROVE AddsOk(queue', requests', hwIds, commands')
    OBVIOUS
  <2>1. AddsOk(queue, requests, hwIds, commands) BY DEF ModemInv
  <2>2. ASSUME NEW s \in Adds(m) PROVE hwIds[s] = NoHw /\ s \in Used(commands') /\ s \notin Used(commands)
    <3>1. do = "add" /\ sessions = <<NewSession>> /\ s \in Range(sessions)
      BY <1>4, <2>2 DEF Names
    <3>2. Range(sessions) \subseteq Sessions BY <1>3 DEF Range
    <3>3. s \in Sessions /\ s = NewSession
      <4>1. Range(<<s>>) = {s} BY <3>1, <3>2, OneSession
      <4>2. DOMAIN <<NewSession>> = {1} /\ <<NewSession>>[1] = NewSession  OBVIOUS
      <4> QED BY <3>1, <3>2, <4>2 DEF Range
    <3>4. s \notin Used(commands) /\ s \in 1..NewSession BY <1>5, <3>3, AdditionsFinite
    <3>5. hwIds[s] = NoHw BY <2>1, <3>3, <3>4 DEF AddsOk
    <3> QED BY <1>1, <3>1, <3>4, <3>5
  <2>3. AddsOk(Append(queue, m), requests, hwIds, commands')
    BY <1>1, <1>5, <2>1, <2>2, AddsPosted
  <2> QED BY <1>1, <1>2, <2>3
<1>7. UNCHANGED <<engineLock, modemUp, modem>> BY <1>2 DEF engine
<1>8. ModemFollows(m, modem, modem)
  <2>1. \A h : ~Alters(m, h) /\ ~Settles(m, h) BY <1>3 DEF Alters, Gives, Frees, Settles
  <2> QED BY <1>3, <2>1, SameFollows
<1>9. MessageHere(m, world, client) BY <1>3 DEF MessageHere, AnswerMeant
<1>10. /\ \A k \in DOMAIN requests : RequestHere(requests[k], world, client)
       /\ Opens(requests, modemUp) /\ ("locks" \notin world => Unlocked) /\ (~Restarts => modemUp)
       /\ (~modemUp => \A h \in ModemIds : modem[h] = NoFence)
  BY DEF ModemInv, HereInv
<1>11. \A h : ~Gives(m, h) BY <1>3 DEF Gives
<1> QED BY <1>1, <1>2, <1>5, <1>6, <1>7, <1>8, <1>9, <1>10, <1>11, ModemPosts DEF Unlocked
-----------------------------------------------------------------------------
(* What LocApi takes from its thread and the modem answers                   *)

LEMMA RestHere ==
    ASSUME NEW S, NEW rs \in Seq(S), rs # <<>>, NEW up, NEW w, NEW c,
           \A k \in DOMAIN rs : RequestHere(rs[k], w, c), Opens(rs, up)
    PROVE  /\ \A k \in DOMAIN Tail(rs) : RequestHere(Tail(rs)[k], w, c)
           /\ Opens(Tail(rs), up) /\ RequestHere(Head(rs), w, c)
           /\ Head(rs).do = "open" => ~up /\ \A u : Opens(Tail(rs), u)
<1> DEFINE t == Tail(rs)
<1>1. /\ 1 \in DOMAIN rs /\ Head(rs) = rs[1]
      /\ \A k \in DOMAIN t : k \in Int /\ k + 1 # 1 /\ k + 1 \in DOMAIN rs /\ t[k] = rs[k + 1]
      /\ \A j, k \in DOMAIN t : j + 1 = k + 1 => j = k
  <2>1. \A k \in DOMAIN t : k \in 1..(Len(rs) - 1) /\ Len(rs) \in Nat BY HasTaken
  <2> QED BY <2>1, HasTaken
<1> HIDE DEF t
<1>2. (\A k \in DOMAIN t : RequestHere(t[k], w, c)) /\ RequestHere(Head(rs), w, c) BY <1>1
<1>3. Opens(t, up) BY <1>1 DEF Opens
<1>4. ASSUME Head(rs).do = "open" PROVE ~up /\ \A k \in DOMAIN t : t[k].do # "open"
  BY <1>1, <1>4 DEF Opens
<1>5. Head(rs).do = "open" => ~up /\ \A u : Opens(t, u) BY <1>4 DEF Opens
<1> QED BY <1>2, <1>3, <1>5 DEF t

LEMMA ModemMoves ==
    ASSUME TypeOK, Shape(queue, requests, commands), ModemInv, NEW m, Moves(m),
           UNCHANGED <<engineLock, modemUp>>, MessageHere(m, world, client),
           ModemFollows(m, modem, modem'), modemUp \/ modem' = modem,
           modemUp \/ \A h : ~Gives(m, h),
           Adds(m) \subseteq AddsRequest(Head(requests))
    PROVE  ModemInv'
<1>1. /\ requests # <<>> /\ requests' = Tail(requests) /\ m \in Messages
      /\ queue' = Append(queue, m) /\ UNCHANGED <<world, user, adapter>>
  BY DEF Moves
<1>2. queue \in Seq(Messages) /\ requests \in Seq(Requests) BY DEF TypeOK
<1>3. /\ \A k \in DOMAIN requests : RequestHere(requests[k], world, client)
      /\ Opens(requests, modemUp) /\ ("locks" \notin world => Unlocked) /\ (~Restarts => modemUp)
      /\ (~modemUp => \A h \in ModemIds : modem[h] = NoFence)
  BY DEF ModemInv, HereInv
<1>4. (\A k \in DOMAIN requests' : RequestHere(requests'[k], world, client)) /\ Opens(requests', modemUp')
  BY <1>1, <1>2, <1>3, RestHere
<1>5. Sound => AddsOk(queue', requests', hwIds, commands')
  <2>1. Sound => AddsOk(queue, requests, hwIds, commands) BY DEF ModemInv
  <2>2. commands' = commands BY <1>1 DEF user
  <2> QED BY <1>1, <1>2, <2>1, <2>2, AddsMoved
<1>6. commands' = commands BY <1>1 DEF user
<1> QED BY <1>1, <1>3, <1>4, <1>5, <1>6, ModemPosts DEF Unlocked

LEMMA CallAgrees ==
    ASSUME TypeOK, Shape(queue, requests, commands), ModemInv, LocApiCall
    PROVE  ModemInv'
<1> DEFINE r == Head(requests)
           m == [what |-> "answer", ok |-> TRUE, to |-> r]
<1>1. Moves(m) /\ UNCHANGED engine /\ r.do = "call" /\ requests # <<>>
  BY LocApiCallKind DEF LocApiCall
<1>2. RequestHere(r, world, client) BY <1>1, RestHere DEF TypeOK, ModemInv, HereInv
<1>3. m.what = "answer" /\ m.to = r  OBVIOUS
<1> HIDE DEF m, r
<1>4. MessageHere(m, world, client)
  BY <1>1, <1>2, <1>3 DEF MessageHere, AnswerMeant, RequestHere, RequestMeant
<1>5. \A h : ~Alters(m, h) /\ ~Settles(m, h) /\ ~Gives(m, h)
  BY <1>1, <1>3 DEF Alters, Gives, Frees, Settles
<1>6. ModemFollows(m, modem, modem) BY <1>3, <1>5, SameFollows
<1>7. Adds(m) = AddsRequest(r) BY <1>3 DEF Adds
<1> QED BY <1>1, <1>4, <1>5, <1>6, <1>7, ModemMoves DEF engine, r

(* The pause flags of what the modem does                                    *)
LEMMA DonePaused ==
    ASSUME TypeOK, NEW r \in Requests, NEW h \in ModemIds, Performs(r, h)
    PROVE  /\ r.do = "add" => modem'[h].paused = FALSE
           /\ r.do = "pause" => modem'[h].paused = TRUE
           /\ r.do = "resume" => modem'[h].paused = FALSE
           /\ r.do = "modify" => modem'[h].paused = modem[h].paused
<1>1. modem \in [ModemIds -> Fence \cup {NoFence}] /\ Done(r, h)
      /\ (r.do # "add" => modem[h] # NoFence)
  BY DEF TypeOK, Performs
<1>2. CASE r.do = "add"
  <2> DEFINE f == [session |-> r.session, paused |-> FALSE]
  <2>1. modem' = [modem EXCEPT ![h] = f] /\ f.paused = FALSE BY <1>1, <1>2 DEF Done
  <2> HIDE DEF f
  <2> QED BY <1>1, <1>2, <2>1
<1>3. ASSUME NEW p \in BOOLEAN, modem[h] # NoFence, modem' = [modem EXCEPT ![h].paused = p]
      PROVE  modem'[h].paused = p
  <2> DEFINE f == [modem[h] EXCEPT !.paused = p]
  <2>1. modem[h] \in Fence BY <1>1, <1>3
  <2>2. f.paused = p /\ modem' = [modem EXCEPT ![h] = f] BY <1>3, <2>1 DEF Fence
  <2> HIDE DEF f
  <2> QED BY <1>1, <2>2
<1>4. CASE r.do = "pause"
  <2>1. modem' = [modem EXCEPT ![h].paused = TRUE] BY <1>1, <1>4 DEF Done
  <2> QED BY <1>1, <1>3, <1>4, <2>1
<1>5. CASE r.do = "resume"
  <2>1. modem' = [modem EXCEPT ![h].paused = FALSE] BY <1>1, <1>5 DEF Done
  <2> QED BY <1>1, <1>3, <1>5, <2>1
<1>6. CASE r.do = "modify" BY <1>1, <1>6 DEF Done
<1> QED BY <1>2, <1>4, <1>5, <1>6

LEMMA DoneFollows ==
    ASSUME TypeOK, NEW r \in Requests, r.session \in Sessions, r.do \in Kinds, NEW h \in ModemIds,
           Performs(r, h), NEW m, m.what = "answer", m.ok = TRUE, m.to.do = r.do, m.to.hw = h,
           m.to.session = r.session
    PROVE  ModemFollows(m, modem, modem')
<1>1. /\ \A g \in ModemIds : g # h => modem'[g] = modem[g]
      /\ r.do = "add" => modem'[h] # NoFence /\ modem'[h].session = r.session
      /\ r.do = "remove" => modem'[h] = NoFence
      /\ r.do \notin {"add", "remove"} => modem'[h] # NoFence /\ modem'[h].session = modem[h].session
  BY DoneTyped
<1>2. /\ r.do = "add" => modem[h] = NoFence
      /\ r.do # "add" => modem[h] # NoFence
  BY DEF Performs
<1>3. /\ r.do = "add" => modem'[h].paused = FALSE
      /\ r.do = "pause" => modem'[h].paused = TRUE
      /\ r.do = "resume" => modem'[h].paused = FALSE
      /\ r.do = "modify" => modem'[h].paused = modem[h].paused
  BY DonePaused
<1>4. /\ \A g : Gives(m, g) <=> r.do = "add" /\ g = h
      /\ \A g : Frees(m, g) <=> r.do = "remove" /\ g = h
      /\ \A g : Settles(m, g) <=> r.do \in {"add", "pause", "resume"} /\ g = h
  BY DEF Gives, Frees, Settles
<1>5. ASSUME NEW g \in ModemIds, g # h
      PROVE  ~Gives(m, g) /\ ~Frees(m, g) /\ ~Settles(m, g) /\ modem'[g] = modem[g]
  BY <1>1, <1>4, <1>5
<1> QED BY <1>1, <1>2, <1>3, <1>4, <1>5 DEF ModemFollows, Alters, Kinds

LEMMA RequestAgrees ==
    ASSUME TypeOK, Shape(queue, requests, commands), ModemInv, LocApiRequest
    PROVE  ModemInv'
<1> DEFINE r == Head(requests)
<1>1. /\ UNCHANGED <<engineLock, modemUp>> /\ r \in Requests /\ r.session \in Sessions
      /\ r.do \in Kinds
      /\ \/ \E h \in ModemIds :
                /\ Performs(r, h) /\ h \in HwIds
                /\ Moves([what |-> "answer", ok |-> TRUE, to |-> [r EXCEPT !.hw = h]])
         \/ UNCHANGED modem /\ Moves([what |-> "answer", ok |-> FALSE, to |-> r])
      /\ requests # <<>>
  BY LocApiRequestKind DEF LocApiRequest
<1>2. RequestHere(r, world, client) BY <1>1, RestHere DEF TypeOK, ModemInv, HereInv
<1>3. r.do # "call" BY <1>1 DEF Kinds
<1>4. ASSUME UNCHANGED modem, Moves([what |-> "answer", ok |-> FALSE, to |-> r]) PROVE ModemInv'
  <2> DEFINE m == [what |-> "answer", ok |-> FALSE, to |-> r]
  <2>1. m.what = "answer" /\ m.ok = FALSE /\ m.to = r /\ Moves(m) BY <1>4
  <2> HIDE DEF m, r
  <2>2. MessageHere(m, world, client)
    BY <1>2, <1>3, <2>1 DEF MessageHere, AnswerMeant, RequestHere, RequestMeant
  <2>3. \A h : ~Alters(m, h) /\ ~Settles(m, h) /\ ~Gives(m, h)
    BY <2>1 DEF Alters, Gives, Frees, Settles
  <2>4. ModemFollows(m, modem, modem) BY <2>1, <2>3, SameFollows
  <2>5. Adds(m) = AddsRequest(r) BY <2>1 DEF Adds
  <2> QED BY <1>1, <1>4, <2>1, <2>2, <2>3, <2>4, <2>5, ModemMoves DEF r
<1>5. ASSUME NEW h \in ModemIds, Performs(r, h), h \in HwIds,
             Moves([what |-> "answer", ok |-> TRUE, to |-> [r EXCEPT !.hw = h]])
      PROVE  ModemInv'
  <2> DEFINE y == [r EXCEPT !.hw = h]
             m == [what |-> "answer", ok |-> TRUE, to |-> y]
  <2>1. y.do = r.do /\ y.then = r.then /\ y.n = r.n /\ y.session = r.session /\ y.hw = h
    BY <1>1 DEF Requests
  <2>2. m.what = "answer" /\ m.ok = TRUE /\ m.to = y /\ Moves(m) BY <1>5
  <2> HIDE DEF m, y, r
  <2>3. MessageHere(m, world, client)
    BY <1>2, <1>3, <2>1, <2>2 DEF MessageHere, AnswerMeant, RequestHere, RequestMeant, Meant
  <2>4. ModemFollows(m, modem, modem') BY <1>1, <1>5, <2>1, <2>2, DoneFollows
  <2>5. Adds(m) = AddsRequest(r) BY <2>1, <2>2 DEF Adds, AddsRequest
  <2>6. modemUp BY <1>5 DEF Performs, Doable
  <2> QED BY <1>1, <2>2, <2>3, <2>4, <2>5, <2>6, ModemMoves DEF r
<1> QED BY <1>1, <1>4, <1>5

LEMMA OpenAgrees ==
    ASSUME TypeOK, Shape(queue, requests, commands), ModemInv, LocApiOpen
    PROVE  ModemInv'
<1> DEFINE m == Event("up", 0, 0, FALSE)
<1>1. /\ Moves(m) /\ Head(requests).do = "open" /\ UNCHANGED <<engineLock, modem>> /\ modemUp' = TRUE
      /\ requests # <<>> /\ m.what = "up"
  BY LocApiOpenKind DEF LocApiOpen, Event
<1> HIDE DEF m
<1>2. /\ requests' = Tail(requests) /\ m \in Messages /\ queue' = Append(queue, m)
      /\ UNCHANGED <<world, user, adapter>>
  BY <1>1 DEF Moves
<1>3. queue \in Seq(Messages) /\ requests \in Seq(Requests) BY DEF TypeOK
<1>4. /\ \A k \in DOMAIN requests : RequestHere(requests[k], world, client)
      /\ Opens(requests, modemUp) /\ ("locks" \notin world => Unlocked)
      /\ (~modemUp => \A h \in ModemIds : modem[h] = NoFence)
  BY DEF ModemInv, HereInv
<1>5. /\ \A k \in DOMAIN requests' : RequestHere(requests'[k], world, client)
      /\ Opens(requests', modemUp') /\ ~modemUp /\ RequestHere(Head(requests), world, client)
  BY <1>1, <1>2, <1>3, <1>4, RestHere
<1>6. Head(requests).then = "nothing" BY <1>1, HeadRequest DEF RequestFits
<1>7. MessageHere(m, world, client)
  BY <1>1, <1>5, <1>6 DEF MessageHere, AnswerMeant, RequestHere, Absent
<1>8. ModemFollows(m, modem, modem') /\ \A h : ~Gives(m, h)
  <2>1. \A h : ~Gives(m, h) /\ Frees(m, h) BY <1>1 DEF Gives, Frees
  <2> QED BY <1>1, <1>4, <1>5, <2>1 DEF ModemFollows, Alters
<1>9. commands' = commands BY <1>2 DEF user
<1>10. Sound => AddsOk(queue', requests', hwIds, commands')
  <2>1. Sound => AddsOk(queue, requests, hwIds, commands) BY DEF ModemInv
  <2>2. Adds(m) = {} BY <1>1 DEF Adds
  <2> QED BY <1>1, <1>2, <1>3, <1>9, <2>1, <2>2, AddsMoved
<1> QED BY <1>1, <1>2, <1>4, <1>5, <1>7, <1>8, <1>9, <1>10, ModemPosts DEF Unlocked

(* The modem restarts.                                                       *)
LEMMA CrashAgrees ==
    ASSUME TypeOK, ModemInv, ModemCrashes
    PROVE  ModemInv'
<1> DEFINE r == Ask("open", "nothing", 0, 0, 0, FALSE)
<1>1. /\ modemUp' = FALSE /\ modem' = [h \in ModemIds |-> NoFence] /\ requests' = Append(requests, r)
      /\ UNCHANGED <<world, user, breaches, queue, adapter, engineLock>> /\ modemUp
      /\ world \cap {"crashes", "untimely"} # {}
  BY DEF ModemCrashes
<1>2. r.do = "open" /\ r.then = "nothing" /\ r.n = 0 /\ r \in Requests
  BY GeofenceAssumption DEF Ask, Requests, Then, HwIds
<1> HIDE DEF r
<1>3. requests \in Seq(Requests) BY DEF TypeOK
<1>4. \A k \in DOMAIN requests' : (k \in DOMAIN requests /\ requests'[k] = requests[k])
                                    \/ (k = Len(requests) + 1 /\ requests'[k] = r)
  BY <1>1, <1>2, <1>3, HasAppended
<1>5. UNCHANGED <<world, client, fences, hwIds, power, queue, commands, engineLock>>
  BY <1>1 DEF user, adapter
<1>6. RequestHere(r, world, client) BY <1>1, <1>2 DEF RequestHere, RequestMeant, Meant, Absent
<1>7. HereInv'
  <2>1. HereInv BY DEF ModemInv
  <2>2. \A k \in DOMAIN requests' : RequestHere(requests'[k], world, client)
    BY <1>4, <1>6, <2>1 DEF HereInv
  <2>3. \A k \in DOMAIN requests : requests[k].do # "open" BY <1>1, <2>1 DEF HereInv, Opens
  <2>4. Opens(requests', FALSE) BY <1>4, <2>3 DEF Opens
  <2>5. Restarts' BY <1>1 DEF Restarts, Exposed
  <2> QED BY <1>1, <1>5, <2>1, <2>2, <2>4, <2>5 DEF HereInv, Unlocked
<1>8. OwnBreaches(queue', fences', modem') BY <1>1, <1>5 DEF ModemInv, OwnBreaches
<1>9. Sound => AddsOk(queue, requests', hwIds, commands)
  <2> SUFFICES ASSUME Sound PROVE AddsOk(queue, requests', hwIds, commands)
    OBVIOUS
  <2>1. AddsRequest(r) = {} BY <1>2 DEF AddsRequest
  <2>2. AddsOk(queue, requests, hwIds, commands) BY DEF ModemInv
  <2>3. /\ \A k \in DOMAIN requests' : AddsRequest(requests'[k]) # {} =>
              k \in DOMAIN requests /\ requests'[k] = requests[k]
    BY <1>4, <2>1
  <2>4. AddedOnce(queue, requests') BY <2>2, <2>3 DEF AddsOk, AddedOnce
  <2> QED BY <2>2, <2>3, <2>4 DEF AddsOk
<1>10. (Sound' => Sound) /\ Restarts' BY <1>1, <1>5 DEF Sound, Restarts, Exposed, Slept
<1>11. Sound => Paired(hwIds, fences) /\ FreeWhenGiven(queue, fences) BY DEF ModemInv
<1> QED BY <1>1, <1>5, <1>7, <1>8, <1>9, <1>10, <1>11 DEF ModemInv

(* GNSS is locked and unlocked; nothing happens.                             *)
LEMMA LockAgrees ==
    ASSUME ModemInv, EngineLockChanges
    PROVE  ModemInv'
<1>1. UNCHANGED <<world, user, breaches, queue, adapter, requests, modemUp, modem>> /\ "locks" \in world
  BY DEF EngineLockChanges
<1>2. UNCHANGED <<world, client, fences, hwIds, power, queue, commands>>
  BY <1>1 DEF user, adapter
<1>3. ~Sound' BY <1>1 DEF Sound, Exposed
<1>4. HereInv' BY <1>1, <1>2 DEF ModemInv, HereInv, Restarts, Exposed
<1> QED BY <1>1, <1>2, <1>3, <1>4 DEF ModemInv, Restarts, Exposed

LEMMA ModemStutters ==
    ASSUME ModemInv, UNCHANGED vars
    PROVE  ModemInv'
BY DEF ModemInv, HereInv, Sound, Restarts, Slept, Exposed, Unlocked, vars, user, adapter, engine
-----------------------------------------------------------------------------
(* What the adapter takes from its thread                                    *)

(* The maps follow message m.                                                *)
Heeds(m) ==
    /\ FencesFollow(m, fences, fences')
    /\ ~Restarts => PausesFollow(m, fences, fences')
    /\ Sound' => /\ MapsFollow(m, fences, fences') /\ Paired(hwIds', fences')
                 /\ \A s \in Sessions : hwIds'[s] \in {hwIds[s], NoHw} \/ s \in Adds(m)

LEMMA HeadHere ==
    ASSUME TypeOK, ModemInv, queue # <<>>
    PROVE  LET m == Head(queue) IN
           /\ m \in Messages /\ MessageHere(m, world, client)
           /\ Sound => /\ \A h \in ModemIds : Gives(m, h) => fences[h] = NoFence
                       /\ \A s \in Adds(m) : hwIds[s] = NoHw
                       /\ Paired(hwIds, fences)
<1>1. /\ 1 \in DOMAIN queue /\ Head(queue) = queue[1] /\ Head(queue) \in Messages
      /\ \A k \in DOMAIN queue : k \in Nat /\ k >= 1
  BY HasTaken DEF TypeOK
<1>2. MessageHere(Head(queue), world, client) BY <1>1 DEF ModemInv, HereInv
<1>3. ASSUME Sound
      PROVE  /\ \A h \in ModemIds : Gives(Head(queue), h) => fences[h] = NoFence
             /\ \A s \in Adds(Head(queue)) : hwIds[s] = NoHw
             /\ Paired(hwIds, fences)
  <2>1. FreeWhenGiven(queue, fences) /\ AddsOk(queue, requests, hwIds, commands) /\ Paired(hwIds, fences)
    BY <1>3 DEF ModemInv
  <2>2. \A j \in DOMAIN queue : ~(j < 1) BY <1>1
  <2>3. \A h \in ModemIds : Gives(Head(queue), h) => fences[h] = NoFence
    BY <1>1, <2>1, <2>2 DEF FreeWhenGiven
  <2>4. \A s \in Adds(Head(queue)) : hwIds[s] = NoHw BY <1>1, <2>1 DEF AddsOk, ToAdd
  <2> QED BY <2>1, <2>3, <2>4
<1> QED BY <1>1, <1>2, <1>3

LEMMA AddsTyped ==
    ASSUME TypeOK, Shape(queue, requests, commands)
    PROVE  /\ \A k \in DOMAIN queue : Adds(queue[k]) \subseteq Sessions
           /\ \A k \in DOMAIN requests : AddsRequest(requests[k]) \subseteq Sessions
<1>1. ASSUME NEW r, RequestFits(r, commands) PROVE AddsRequest(r) \subseteq Sessions
  BY <1>1 DEF RequestFits, AddsRequest
<1>2. ASSUME NEW m, MessageFits(m, commands) PROVE Adds(m) \subseteq Sessions
  <2>2. CASE m.what = "command"
    <3>1. m.ids = commands[m.n].sessions /\ m.n \in DOMAIN commands
      BY <1>2, <2>2 DEF MessageFits
    <3>2. m.ids \in Seq(Sessions) BY <3>1, CommandTyped
    <3>3. Range(m.ids) \subseteq Sessions BY <3>2 DEF Range
    <3> QED BY <2>2, <3>3 DEF Adds
  <2>3. CASE m.what = "answer" BY <1>1, <1>2, <2>3 DEF MessageFits, Adds
  <2>4. CASE m.what # "answer" /\ m.what # "command" BY <2>4 DEF Adds
  <2> QED BY <2>2, <2>3, <2>4
<1> QED BY <1>1, <1>2 DEF Shape

LEMMA ModemTaken ==
    ASSUME TypeOK, Shape(queue, requests, commands), ModemInv, Adapter, Heeds(Head(queue)),
           NEW out \in Seq(Requests), requests' = requests \o out,
           \A k \in DOMAIN out : RequestHere(out[k], world, client') /\ out[k].do # "open",
           power' = power \/ "power" \in world,
           Sound' => /\ \A k \in DOMAIN out : \A s \in AddsRequest(out[k]) :
                           /\ s \in Sessions /\ hwIds'[s] = NoHw
                           /\ s \in Adds(Head(queue)) \/ hwIds[s] # NoHw
                     /\ \A j, k \in DOMAIN out :
                           j # k => AddsRequest(out[j]) \cap AddsRequest(out[k]) = {}
    PROVE  ModemInv'
<1>1. /\ queue # <<>> /\ queue' = Tail(queue) /\ (client' => client)
      /\ UNCHANGED <<world, engineLock, modemUp, modem>>
  BY AdapterHead, AdapterKind DEF engine
<1>2. Used(commands') = Used(commands) BY AdapterKind, TakesKeep, SameUsed
<1>3. queue \in Seq(Messages) /\ requests \in Seq(Requests) BY DEF TypeOK
<1>4. \A k \in DOMAIN Tail(queue) : k + 1 \in DOMAIN queue /\ Tail(queue)[k] = queue[k + 1]
  BY <1>1, <1>3, HasTaken
<1>5. \A k \in DOMAIN requests' : \/ k \in DOMAIN requests /\ requests'[k] = requests[k]
                                  \/ \E i \in DOMAIN out : requests'[k] = out[i]
  BY <1>3, HasJoined
<1>6. HereInv'
  <2>1. HereInv BY DEF ModemInv
  <2>2. \A r : RequestHere(r, world, client) => RequestHere(r, world, client')
    BY <1>1 DEF RequestHere, Absent
  <2>3. \A m : MessageHere(m, world, client) => MessageHere(m, world, client')
    BY <1>1 DEF MessageHere, Absent
  <2>4. \A k \in DOMAIN queue' : MessageHere(queue'[k], world, client')
    BY <1>1, <1>4, <2>1, <2>3 DEF HereInv
  <2>5. \A k \in DOMAIN requests' : RequestHere(requests'[k], world, client')
    BY <1>5, <2>1, <2>2 DEF HereInv
  <2>6. Opens(requests', modemUp)
    <3>1. \A k \in DOMAIN requests' : requests'[k].do = "open" =>
              k \in DOMAIN requests /\ requests'[k] = requests[k]
      BY <1>5
    <3> QED BY <2>1, <3>1 DEF HereInv, Opens
  <2> QED BY <1>1, <2>1, <2>4, <2>5, <2>6 DEF HereInv, Unlocked, Restarts, Exposed
<1>7. OwnBreaches(queue', fences', modem') BY <1>1, <1>3, OwnTaken DEF Heeds, ModemInv
<1>8. ~Restarts => LastPauses(queue', fences', modem')
  BY <1>1, <1>3, PausesTaken DEF Heeds, ModemInv
<1>9. (Sound' => Sound) /\ (Restarts' <=> Restarts) BY <1>1 DEF Sound, Exposed, Slept, Restarts
<1>10. ASSUME Sound'
       PROVE  /\ Paired(hwIds', fences') /\ FreeWhenGiven(queue', fences')
              /\ modemUp' => Foreseen(queue', fences', modem')
              /\ AddsOk(queue', requests', hwIds', commands')
  <2>1. /\ MapsFollow(Head(queue), fences, fences') /\ Paired(hwIds', fences')
        /\ \A s \in Sessions : hwIds'[s] \in {hwIds[s], NoHw} \/ s \in Adds(Head(queue))
    BY <1>10 DEF Heeds
  <2>2. /\ FreeWhenGiven(queue, fences) /\ (modemUp => Foreseen(queue, fences, modem))
        /\ AddsOk(queue, requests, hwIds, commands)
    BY <1>9, <1>10 DEF ModemInv
  <2>3. FreeWhenGiven(queue', fences') BY <1>1, <1>3, <2>1, <2>2, FreeTaken
  <2>4. modemUp' => Foreseen(queue', fences', modem') BY <1>1, <1>3, <2>1, <2>2, ForeseenTaken
  <2>5. AddsOk(Tail(queue), requests \o out, hwIds', commands')
    BY <1>1, <1>2, <1>3, <1>10, <2>1, <2>2, AddsTyped, AddsTaken
  <2> QED BY <1>1, <2>1, <2>3, <2>4, <2>5
<1> QED BY <1>6, <1>7, <1>8, <1>9, <1>10 DEF ModemInv

(* What asks nothing                                                         *)
LEMMA ModemTakenNone ==
    ASSUME TypeOK, Shape(queue, requests, commands), ModemInv, Adapter, Heeds(Head(queue)),
           UNCHANGED requests, power' = power \/ "power" \in world
    PROVE  ModemInv'
<1>1. requests' = requests \o <<>> /\ <<>> \in Seq(Requests) /\ DOMAIN <<>> = {}
  BY ConcatEmptySeq DEF TypeOK
<1> DEFINE out == <<>>
<1>2. out \in Seq(Requests) /\ requests' = requests \o out /\ DOMAIN out = {} BY <1>1
<1> HIDE DEF out
<1> QED BY <1>2, ModemTaken

(* The maps stay as they are.                                                *)
LEMMA KeepHeeds ==
    ASSUME TypeOK, ModemInv, client' => client, UNCHANGED world, Keep, NEW m,
           \A h \in ModemIds : ~Alters(m, h) /\ (~Restarts => ~Settles(m, h))
    PROVE  Heeds(m)
<1>1. fences' = fences /\ hwIds' = hwIds BY DEF Keep
<1>2. Sound' => Sound BY DEF Sound, Exposed, Slept, Restarts
<1>3. Sound => Paired(hwIds, fences) BY DEF ModemInv
<1> QED BY <1>1, <1>2, <1>3 DEF Heeds, FencesFollow, PausesFollow, MapsFollow, Alters

LEMMA SaveHeeds ==
    ASSUME TypeOK, ModemInv, client' => client, UNCHANGED world, queue # <<>>,
           NEW m, m = Head(queue), m.what = "answer", m.ok, m.to.do = "add", m.to.session \in Sessions,
           Save(m.to.session, m.to.hw)
    PROVE  Heeds(m)
<1> DEFINE s == m.to.session
           h == m.to.hw
           f == [session |-> s, paused |-> FALSE]
<1>1. /\ MessageHere(m, world, client)
      /\ Sound => /\ \A g \in ModemIds : Gives(m, g) => fences[g] = NoFence
                  /\ \A t \in Adds(m) : hwIds[t] = NoHw
                  /\ Paired(hwIds, fences)
  BY HeadHere
<1>2. h \in ModemIds /\ ModemIds \subseteq HwIds
  BY <1>1, GeofenceAssumption DEF MessageHere, AnswerMeant, ModemIds, HwIds
<1>3. f # NoFence /\ f.session = s /\ f.paused = FALSE
  <2>1. s \in Nat /\ f \in [session : Nat, paused : BOOLEAN] BY GeofenceAssumption DEF Sessions
  <2> QED BY <2>1, GeofenceAssumption
<1>4. fences \in [HwIds -> Fence \cup {NoFence}] /\ hwIds \in [Sessions -> HwIds \cup {NoHw}]
  BY DEF TypeOK
<1>5. fences' = [fences EXCEPT ![h] = f] /\ hwIds' = [hwIds EXCEPT ![s] = h] BY DEF Save
<1>6. h # NoHw /\ s \in Adds(m) BY <1>2 DEF ModemIds, NoHw, Adds, AddsRequest
<1>7. \A g : /\ Gives(m, g) <=> g = h
             /\ ~Frees(m, g) /\ (Settles(m, g) <=> g = h)
  BY DEF Gives, Frees, Settles
<1> HIDE DEF f, h, s
<1>8. /\ \A g \in HwIds : fences'[g] = IF g = h THEN f ELSE fences[g]
      /\ \A t \in Sessions : hwIds'[t] = IF t = s THEN h ELSE hwIds[t]
  BY <1>2, <1>4, <1>5
<1>9. FencesFollow(m, fences, fences') /\ PausesFollow(m, fences, fences') /\ MapsFollow(m, fences, fences')
  BY <1>2, <1>3, <1>7, <1>8 DEF FencesFollow, PausesFollow, MapsFollow, Alters, s
<1>10. Sound' => Sound BY DEF Sound, Exposed, Slept, Restarts
<1>11. ASSUME Sound PROVE Paired(hwIds', fences')
  <2>1. fences[h] = NoFence /\ hwIds[s] = NoHw /\ Paired(hwIds, fences)
    BY <1>1, <1>2, <1>6, <1>7, <1>11
  <2>2. ASSUME NEW t \in Sessions, hwIds'[t] # NoHw
        PROVE  fences'[hwIds'[t]] # NoFence /\ fences'[hwIds'[t]].session = t
    <3>1. CASE t = s BY <1>2, <1>3, <1>8, <3>1
    <3>2. CASE t # s
      <4>1. hwIds'[t] = hwIds[t] /\ hwIds[t] \in HwIds /\ hwIds[t] # h
            /\ fences[hwIds[t]] # NoFence /\ fences[hwIds[t]].session = t
        BY <1>4, <1>8, <2>1, <2>2, <3>2 DEF Paired
      <4> QED BY <1>8, <4>1
    <3> QED BY <3>1, <3>2
  <2>3. ASSUME NEW g \in HwIds, fences'[g] # NoFence
        PROVE  hwIds'[fences'[g].session] = g
    <3>1. CASE g = h BY <1>2, <1>3, <1>8, <3>1 DEF s
    <3>2. CASE g # h
      <4>1. fences'[g] = fences[g] /\ hwIds[fences[g].session] = g /\ fences[g] \in Fence
        BY <1>4, <1>8, <2>1, <2>3, <3>2 DEF Paired
      <4>2. fences[g].session \in Sessions /\ g # NoHw BY <4>1 DEF Fence, HwIds, NoHw
      <4> QED BY <1>8, <2>1, <4>1, <4>2
    <3> QED BY <3>1, <3>2
  <2> QED BY <2>2, <2>3 DEF Paired
<1> QED BY <1>6, <1>8, <1>9, <1>10, <1>11 DEF Heeds

LEMMA ForgetHeeds ==
    ASSUME TypeOK, ModemInv, client' => client, UNCHANGED world,
           NEW m, m.what = "answer", m.to.do = "remove", m.to.hw \in HwIds, Forget(m.to.hw),
           Sound => m.ok
    PROVE  Heeds(m)
<1> DEFINE h == m.to.hw
           s == fences[h].session
<1>1. /\ fences \in [HwIds -> Fence \cup {NoFence}] /\ hwIds \in [Sessions -> HwIds \cup {NoHw}]
      /\ h \in HwIds
  BY DEF TypeOK
<1>2. \A g : /\ Frees(m, g) <=> m.ok /\ g = h
             /\ ~Gives(m, g) /\ ~Settles(m, g)
  BY DEF Gives, Frees, Settles
<1>3. \/ /\ fences[h] # NoFence /\ hwIds[s] # NoHw
         /\ fences' = [fences EXCEPT ![h] = NoFence] /\ hwIds' = [hwIds EXCEPT ![s] = NoHw]
      \/ fences' = fences /\ hwIds' = hwIds /\ ~(fences[h] # NoFence /\ hwIds[s] # NoHw)
  BY DEF Forget
<1>4. fences[h] # NoFence => s \in Sessions BY <1>1 DEF Fence
<1> HIDE DEF h, s
<1>5. /\ \A g \in HwIds : fences'[g] \in {fences[g], NoFence}
      /\ \A t \in Sessions : hwIds'[t] \in {hwIds[t], NoHw}
  BY <1>1, <1>3, <1>4
<1>6. ModemIds \subseteq HwIds /\ \A g \in HwIds : g # NoHw
  BY GeofenceAssumption DEF ModemIds, HwIds, NoHw
<1>7. FencesFollow(m, fences, fences') /\ PausesFollow(m, fences, fences')
  BY <1>2, <1>5, <1>6 DEF FencesFollow, PausesFollow
<1>8. (Sound' => Sound) /\ (Sound => Paired(hwIds, fences))
  BY DEF Sound, Exposed, Slept, Restarts, ModemInv
<1>9. ASSUME Sound PROVE MapsFollow(m, fences, fences') /\ Paired(hwIds', fences')
  <2>1. CASE fences[h] = NoFence
    <3>1. fences' = fences /\ hwIds' = hwIds BY <1>3, <2>1
    <3> QED BY <1>2, <1>8, <1>9, <2>1, <3>1 DEF MapsFollow, Alters
  <2>2. CASE fences[h] # NoFence
    <3>1. hwIds[s] = h /\ fences[h].session = s BY <1>1, <1>8, <1>9, <2>2 DEF Paired, s
    <3>2. fences' = [fences EXCEPT ![h] = NoFence] /\ hwIds' = [hwIds EXCEPT ![s] = NoHw]
      BY <1>1, <1>3, <1>6, <2>2, <3>1
    <3>3. /\ \A g \in HwIds : fences'[g] = IF g = h THEN NoFence ELSE fences[g]
          /\ \A t \in Sessions : hwIds'[t] = IF t = s THEN NoHw ELSE hwIds[t]
      BY <1>1, <1>4, <2>2, <3>2
    <3>4. MapsFollow(m, fences, fences') BY <1>2, <1>6, <1>9, <3>3 DEF MapsFollow, Alters
    <3>5. ASSUME NEW t \in Sessions, hwIds'[t] # NoHw
          PROVE  fences'[hwIds'[t]] # NoFence /\ fences'[hwIds'[t]].session = t
      <4>1. t # s /\ hwIds'[t] = hwIds[t] /\ hwIds[t] \in HwIds /\ fences[hwIds[t]] # NoFence
            /\ fences[hwIds[t]].session = t
        BY <1>1, <1>8, <1>9, <3>3, <3>5 DEF Paired
      <4>2. hwIds[t] # h BY <3>1, <4>1
      <4> QED BY <3>3, <4>1, <4>2
    <3>6. ASSUME NEW g \in HwIds, fences'[g] # NoFence
          PROVE  hwIds'[fences'[g].session] = g
      <4>1. g # h /\ fences'[g] = fences[g] /\ hwIds[fences[g].session] = g /\ fences[g] \in Fence
        BY <1>1, <1>8, <1>9, <3>3, <3>6 DEF Paired
      <4>2. fences[g].session \in Sessions /\ fences[g].session # s BY <3>1, <4>1 DEF Fence
      <4> QED BY <3>3, <4>1, <4>2
    <3> QED BY <3>4, <3>5, <3>6 DEF Paired
  <2> QED BY <2>1, <2>2
<1> QED BY <1>5, <1>7, <1>8, <1>9 DEF Heeds

LEMMA PauseHeeds ==
    ASSUME TypeOK, ModemInv, client' => client, UNCHANGED world,
           NEW m, m.what = "answer", m.ok, m.to.do \in {"pause", "resume"}, m.to.hw \in HwIds,
           NEW p \in BOOLEAN, p = (m.to.do = "pause"), SetPaused(m.to.hw, p), UNCHANGED <<client, power>>
    PROVE  Heeds(m)
<1> DEFINE h == m.to.hw
<1>1. /\ UNCHANGED hwIds
      /\ \A g \in HwIds : /\ fences'[g] # NoFence <=> fences[g] # NoFence
                          /\ fences[g] # NoFence => fences'[g].session = fences[g].session
  BY PausedTyped
<1>2. fences \in [HwIds -> Fence \cup {NoFence}] /\ h \in HwIds
      /\ fences' = (IF fences[h] = NoFence THEN fences ELSE [fences EXCEPT ![h].paused = p])
      /\ hwIds \in [Sessions -> HwIds \cup {NoHw}]
  BY DEF TypeOK, SetPaused
<1>3. \A g : /\ Settles(m, g) <=> g = h
             /\ ~Alters(m, g) /\ ~Gives(m, g) /\ ~Frees(m, g)
  BY DEF Gives, Frees, Settles, Alters
<1> HIDE DEF h
<1>4. /\ fences[h] # NoFence => fences'[h].paused = p
      /\ \A g \in HwIds : g # h => fences'[g] = fences[g]
  <2>1. CASE fences[h] = NoFence BY <1>2, <2>1
  <2>2. CASE fences[h] # NoFence
    <3> DEFINE f == [fences[h] EXCEPT !.paused = p]
    <3>1. fences[h] \in Fence BY <1>2, <2>2
    <3>2. f.paused = p /\ fences' = [fences EXCEPT ![h] = f] BY <1>2, <2>2, <3>1 DEF Fence
    <3> HIDE DEF f
    <3> QED BY <1>2, <3>2
  <2> QED BY <2>1, <2>2
<1>5. ModemIds \subseteq HwIds BY GeofenceAssumption DEF ModemIds, HwIds
<1>6. FencesFollow(m, fences, fences') /\ MapsFollow(m, fences, fences')
  BY <1>1, <1>3, <1>5 DEF FencesFollow, MapsFollow
<1>7. PausesFollow(m, fences, fences') BY <1>1, <1>3, <1>4, <1>5 DEF PausesFollow
<1>8. (Sound' => Sound) /\ (Sound => Paired(hwIds, fences))
  BY DEF Sound, Exposed, Slept, Restarts, ModemInv
<1>9. Paired(hwIds, fences) => Paired(hwIds', fences') BY <1>1, <1>2 DEF Paired
<1> QED BY <1>1, <1>6, <1>7, <1>8, <1>9 DEF Heeds
-----------------------------------------------------------------------------
(* The adapter, message by message                                           *)

(* An answer at the head                                                     *)
LEMMA AnsweredHere ==
    ASSUME TypeOK, Shape(queue, requests, commands), ModemInv, NEW then, Answered(then)
    PROVE  LET m == Head(queue) IN
           /\ queue # <<>> /\ m.what = "answer" /\ m.to.then = then /\ m.to.do # "call"
           /\ m.to.hw \in HwIds /\ m.to.session \in Sessions /\ m.ok \in BOOLEAN
           /\ m.to \in Requests /\ MessageHere(m, world, client)
           /\ then \in Kinds => m.to.do = then
           /\ then \notin Kinds => m.to.n = 0
BY AnsweredHead, HeadHere

LEMMA AddedAgrees ==
    ASSUME TypeOK, Shape(queue, requests, commands), ModemInv, Adapter, ProcAdded
    PROVE  ModemInv'
<1> DEFINE m == Head(queue)
<1>1. /\ Answered("add") /\ UNCHANGED requests /\ UNCHANGED <<world, client, power>>
      /\ IF m.ok \/ ~Unlocked THEN Save(m.to.session, m.to.hw) ELSE Keep
  BY DEF ProcAdded, Others
<1>2. /\ queue # <<>> /\ m.what = "answer" /\ m.to.session \in Sessions /\ m.ok \in BOOLEAN
      /\ MessageHere(m, world, client) /\ m.to.do = "add"
  BY <1>1, AnsweredHere DEF Kinds
<1> HIDE DEF m
<1>4. CASE m.ok BY <1>1, <1>2, <1>4, SaveHeeds, ModemTakenNone DEF m
<1>5. CASE ~m.ok /\ Unlocked
  <2>1. Keep /\ \A h : ~Alters(m, h) /\ ~Settles(m, h)
    BY <1>1, <1>2, <1>5 DEF Alters, Gives, Frees, Settles
  <2>2. Heeds(m) BY <1>1, <2>1, KeepHeeds
  <2> QED BY <1>1, <2>2, ModemTakenNone DEF m
<1>6. CASE ~m.ok /\ ~Unlocked
  <2>1. Save(m.to.session, 0) /\ 0 \notin ModemIds
    BY <1>1, <1>2, <1>6 DEF MessageHere, AnswerMeant, ModemIds
  <2>2. \A h \in ModemIds : fences'[h] = fences[h]
    <3>1. fences \in [HwIds -> Fence \cup {NoFence}] /\ ModemIds \subseteq HwIds
      BY GeofenceAssumption DEF TypeOK, ModemIds, HwIds
    <3> QED BY <2>1, <3>1 DEF Save
  <2>3. ~Sound'
    <3>1. "locks" \in world BY <1>6 DEF ModemInv, HereInv
    <3> QED BY <1>1, <3>1 DEF Sound, Exposed
  <2>4. \A h : ~Gives(m, h) /\ ~Settles(m, h) BY <1>2, <1>6 DEF Gives, Settles
  <2>5. Heeds(m) BY <2>2, <2>3, <2>4 DEF Heeds, FencesFollow, PausesFollow
  <2> QED BY <1>1, <2>5, ModemTakenNone DEF m
<1> QED BY <1>2, <1>4, <1>5, <1>6

LEMMA RemovedAgrees ==
    ASSUME TypeOK, Shape(queue, requests, commands), ModemInv, Adapter, ProcRemoved
    PROVE  ModemInv'
<1> DEFINE m == Head(queue)
<1>1. /\ Answered("remove") /\ UNCHANGED requests /\ UNCHANGED <<world, client, power>>
      /\ IF m.ok \/ ~Unlocked THEN Forget(m.to.hw) ELSE Keep
  BY DEF ProcRemoved, Others, AfterRemove
<1>2. /\ m.what = "answer" /\ m.to.hw \in HwIds /\ m.ok \in BOOLEAN /\ m.to.do = "remove"
  BY <1>1, AnsweredHere DEF Kinds
<1> HIDE DEF m
<1>4. Heeds(m)
  <2>1. CASE m.ok \/ ~Unlocked
    <3>1. Sound => m.ok BY <2>1 DEF Sound, Exposed, ModemInv, HereInv
    <3> QED BY <1>1, <1>2, <2>1, <3>1, ForgetHeeds
  <2>2. CASE ~m.ok /\ Unlocked
    <3>1. Keep /\ \A h : ~Alters(m, h) /\ ~Settles(m, h)
      BY <1>1, <1>2, <2>2 DEF Alters, Gives, Frees, Settles
    <3> QED BY <1>1, <3>1, KeepHeeds
  <2> QED BY <1>2, <2>1, <2>2
<1> QED BY <1>1, <1>4, ModemTakenNone DEF m

(* Pauses and resumes, of a command or with the system                       *)
LEMMA PauseAgrees ==
    ASSUME TypeOK, Shape(queue, requests, commands), ModemInv, Adapter,
           ProcPaused \/ ProcResumed \/ ProcSlept
    PROVE  ModemInv'
<1> DEFINE m == Head(queue)
           p == m.to.do = "pause"
<1>1. /\ Answered("pause") \/ Answered("resume") \/ Answered("suspend") \/ Answered("wake")
      /\ UNCHANGED requests /\ UNCHANGED <<world, client, power>>
      /\ IF m.ok THEN SetPaused(m.to.hw, m.to.then \in {"pause", "suspend"}) ELSE Keep
  <2>1. CASE ProcPaused BY <2>1, AnsweredHere DEF ProcPaused, Others
  <2>2. CASE ProcResumed
    <3>1. m.to.then = "resume" BY <2>2 DEF ProcResumed, Answered
    <3>2. FALSE = (m.to.then \in {"pause", "suspend"}) BY <3>1
    <3>3. IF m.ok THEN SetPaused(m.to.hw, FALSE) ELSE Keep BY <2>2 DEF ProcResumed
    <3>4. m.ok => SetPaused(m.to.hw, m.to.then \in {"pause", "suspend"})
      BY <3>2, <3>3 DEF SetPaused
    <3>5. Answered("resume") /\ UNCHANGED requests /\ UNCHANGED <<world, client, power>>
      BY <2>2 DEF ProcResumed, Others
    <3> QED BY <3>3, <3>4, <3>5
  <2>3. CASE ProcSlept
    <3>1. m.to.then \in {"suspend", "wake"} BY <2>3 DEF ProcSlept, Answered
    <3>2. (m.to.then = "suspend") = (m.to.then \in {"pause", "suspend"}) BY <3>1
    <3>3. m.ok => SetPaused(m.to.hw, m.to.then = "suspend") BY <2>3 DEF ProcSlept
    <3>4. m.ok => SetPaused(m.to.hw, m.to.then \in {"pause", "suspend"})
      BY <3>2, <3>3 DEF SetPaused
    <3> QED BY <2>3, <3>4, AnsweredHere DEF ProcSlept, Others
  <2> QED BY <2>1, <2>2, <2>3
<1>2. /\ m.what = "answer" /\ m.to.hw \in HwIds /\ m.ok \in BOOLEAN
      /\ m.to.do \in {"pause", "resume"} /\ (p <=> m.to.then \in {"pause", "suspend"})
  <2>1. CASE Answered("pause") \/ Answered("resume") BY <2>1, AnsweredHere DEF Kinds
  <2>2. CASE Answered("suspend") \/ Answered("wake")
    BY <2>2, AnsweredHere DEF Kinds, MessageHere, AnswerMeant, Meant
  <2> QED BY <1>1, <2>1, <2>2
<1> HIDE DEF m
<1>4. CASE m.ok
  <2>1. p \in BOOLEAN /\ SetPaused(m.to.hw, p) BY <1>1, <1>2, <1>4 DEF SetPaused
  <2>2. Heeds(m) BY <1>1, <1>2, <1>4, <2>1, PauseHeeds
  <2> QED BY <1>1, <2>2, ModemTakenNone DEF m
<1>5. CASE ~m.ok
  <2>1. Keep /\ \A h : ~Alters(m, h) /\ ~Settles(m, h)
    BY <1>1, <1>2, <1>5 DEF Alters, Gives, Frees, Settles
  <2>2. Heeds(m) BY <1>1, <2>1, KeepHeeds
  <2> QED BY <1>1, <2>2, ModemTakenNone DEF m
<1> QED BY <1>4, <1>5

(* Answers that change nothing; a breach                                     *)
LEMMA IdleAgrees ==
    ASSUME TypeOK, Shape(queue, requests, commands), ModemInv, Adapter,
           ProcModified \/ ProcNothing \/ ProcBreach
    PROVE  ModemInv'
<1> DEFINE m == Head(queue)
<1>1. UNCHANGED requests /\ UNCHANGED <<world, client, power>> /\ Keep
  BY DEF ProcModified, ProcNothing, ProcBreach, Others, user, adapter, Keep
<1>2. \A h \in ModemIds : ~Alters(m, h) /\ (~Restarts => ~Settles(m, h))
  <2>1. CASE ProcModified
    <3>1. m.what = "answer" /\ m.to.do = "modify" BY <2>1, AnsweredHere DEF ProcModified, Kinds
    <3> QED BY <3>1 DEF Alters, Gives, Frees, Settles
  <2>2. CASE ProcNothing
    <3>1. m.what = "answer" /\ m.to.then = "nothing" /\ m.to.n = 0 /\ MessageHere(m, world, client)
      BY <2>2, AnsweredHere DEF ProcNothing, Kinds
    <3>2. m.to.do \notin {"add", "remove"} /\ Restarts
      BY <3>1 DEF MessageHere, AnswerMeant, Meant, Absent, Restarts, Exposed
    <3> QED BY <3>1, <3>2 DEF Alters, Gives, Frees
  <2>3. CASE ProcBreach BY <2>3 DEF ProcBreach, Turn, Alters, Gives, Frees, Settles
  <2> QED BY <2>1, <2>2, <2>3
<1> HIDE DEF m
<1>4. Heeds(m) BY <1>1, <1>2, KeepHeeds
<1> QED BY <1>1, <1>4, ModemTakenNone DEF m

(* The client is gone already.                                               *)
LEMMA GoneAgrees ==
    ASSUME TypeOK, Shape(queue, requests, commands), ModemInv, Adapter, ProcGone
    PROVE  ModemInv'
<1> DEFINE m == Head(queue)
<1>1. /\ Answered("gone") /\ UNCHANGED <<requests, world, client, power>>
      /\ fences' = IF m.ok THEN [fences EXCEPT ![m.to.hw] = NoFence] ELSE fences
  BY DEF ProcGone, Others
<1>2. m.what = "answer" /\ m.to.then = "gone" /\ m.to.n = 0 /\ MessageHere(m, world, client)
  BY <1>1, AnsweredHere DEF Kinds
<1> HIDE DEF m
<1>3. ~client /\ m.to.do = "remove" BY <1>2 DEF MessageHere, AnswerMeant, Meant, Absent
<1>4. \A h \in ModemIds : fences'[h] \in {fences[h], NoFence}
  <2>1. fences \in [HwIds -> Fence \cup {NoFence}] /\ ModemIds \subseteq HwIds
    BY GeofenceAssumption DEF TypeOK, ModemIds, HwIds
  <2> QED BY <1>1, <2>1
<1>5. \A h : ~Gives(m, h) /\ ~Settles(m, h) BY <1>3 DEF Gives, Settles
<1>6. Heeds(m) BY <1>1, <1>3, <1>4, <1>5 DEF Heeds, FencesFollow, PausesFollow, Sound
<1> QED BY <1>1, <1>6, ModemTakenNone DEF m

(* What is added again after a restart                                       *)
LEMMA RestoredAgrees ==
    ASSUME TypeOK, Shape(queue, requests, commands), ModemInv, Adapter, ProcRestored
    PROVE  ModemInv'
<1> DEFINE m == Head(queue)
           r == m.to
           y == Ask("pause", "nothing", 0, r.session, r.hw, FALSE)
           out == IF MustPause(r, m.ok) THEN <<y>> ELSE <<>>
<1>1. /\ Answered("restart") /\ requests' = requests \o out /\ UNCHANGED <<world, client, power>>
      /\ IF m.ok THEN Save(r.session, r.hw) ELSE Keep
  BY DEF ProcRestored, Asks, Others
<1>2. /\ queue # <<>> /\ m.what = "answer" /\ r.session \in Sessions /\ m.ok \in BOOLEAN /\ r.hw \in HwIds
      /\ MessageHere(m, world, client) /\ r.then = "restart" /\ r.n = 0
  BY <1>1, AnsweredHere DEF Kinds
<1>3. r.do = "add" /\ world \cap {"crashes", "untimely"} # {}
  BY <1>2 DEF MessageHere, AnswerMeant, Meant, Absent
<1>4. /\ y \in Requests /\ y.n = 0 /\ y.do = "pause" /\ y.then = "nothing"
  <2>1. r.session \in 0..MaxSessions /\ 0 \in 0..MaxCommands
    BY <1>2, GeofenceAssumption DEF Sessions
  <2> HIDE DEF r
  <2> QED BY <1>2, <2>1 DEF Requests, Ask, Kinds, Then
<1>5. out = <<y>> \/ out = <<>>  OBVIOUS
<1> HIDE DEF y, out, m
<1>6. /\ out \in Seq(Requests)
      /\ \A k \in DOMAIN out : k = 1 /\ out[k] = y
  <2>1. CASE out = <<>> BY <2>1
  <2>2. CASE out = <<y>>
    <3>1. out \in Seq(Requests) /\ DOMAIN out = {1} /\ out[1] = y BY <1>4, <2>2
    <3> QED BY <3>1
  <2> QED BY <1>5, <2>1, <2>2
<1>7. AddsRequest(y) = {} BY <1>4 DEF AddsRequest
<1>8. RequestHere(y, world, client) BY <1>3, <1>4 DEF RequestHere, RequestMeant, Meant, Absent
<1>9. Heeds(m)
  <2>1. CASE m.ok BY <1>1, <1>2, <1>3, <2>1, SaveHeeds DEF m
  <2>2. CASE ~m.ok
    <3>1. Keep /\ \A h : ~Alters(m, h) /\ ~Settles(m, h)
      BY <1>1, <1>2, <2>2 DEF Alters, Gives, Frees, Settles
    <3> QED BY <1>1, <3>1, KeepHeeds
  <2> QED BY <1>2, <2>1, <2>2
<1>11. \A k \in DOMAIN out : RequestHere(out[k], world, client') /\ out[k].do # "open"
  BY <1>1, <1>4, <1>6, <1>8
<1>12. /\ \A k \in DOMAIN out : AddsRequest(out[k]) = {}
       /\ \A j, k \in DOMAIN out : j = k
  BY <1>6, <1>7
<1> QED BY <1>1, <1>6, <1>9, <1>11, <1>12, ModemTaken DEF m
-----------------------------------------------------------------------------
(* What makes the adapter ask for more                                       *)

LEMMA CommandAgrees ==
    ASSUME TypeOK, Shape(queue, requests, commands), ModemInv, Adapter, ProcCommand
    PROVE  ModemInv'
<1> DEFINE m == Head(queue)
           out == [i \in DOMAIN m.ids |-> Ask("call", m.do, m.n, m.ids[i], 0, IsLast(i, m))]
<1>1. /\ queue # <<>> /\ m.what = "command" /\ UNCHANGED <<world, user, adapter>>
      /\ requests' = requests \o out
  BY DEF ProcCommand, Turn, Asks
<1>2. Taken(out) BY ProcCommandKind
<1>3. /\ m.n \in DOMAIN commands /\ m.do = commands[m.n].do /\ m.ids = commands[m.n].sessions
      /\ m.n # 0 /\ m.do \in Kinds /\ m.ids \in Seq(Sessions) /\ IsInjective(m.ids)
  <2>1. m.n \in DOMAIN commands /\ m.do = commands[m.n].do /\ m.ids = commands[m.n].sessions
    BY <1>1, HeadFits DEF MessageFits
  <2>2. CommandFits(commands[m.n], commands) BY <2>1 DEF Shape
  <2> QED BY <2>1, <2>2, CommandTyped DEF CommandFits
<1>4. \A k \in DOMAIN out : /\ k \in DOMAIN m.ids /\ out[k].do = "call" /\ out[k].then = m.do
                            /\ out[k].n = m.n /\ out[k].session = m.ids[k] /\ out[k].hw = 0
  BY DEF Ask
<1>5. out \in Seq(Requests) BY <1>2 DEF Taken
<1> HIDE DEF out, m
<1>6. \A k \in DOMAIN out : RequestHere(out[k], world, client') /\ out[k].do # "open"
  BY <1>3, <1>4 DEF RequestHere, RequestMeant, Meant, Absent, Kinds
<1>7. Heeds(m)
  <2>1. \A h : ~Alters(m, h) /\ ~Settles(m, h) BY <1>1 DEF Alters, Gives, Frees, Settles
  <2>2. Keep /\ UNCHANGED <<world, client>> BY <1>1 DEF Keep, adapter
  <2> QED BY <2>1, <2>2, KeepHeeds
<1>8. power' = power BY <1>1 DEF adapter
<1>9. ASSUME NEW k \in DOMAIN out, NEW s \in AddsRequest(out[k])
      PROVE  m.do = "add" /\ s = m.ids[k] /\ s \in Adds(m) /\ s \in Sessions
  <2>1. m.do = "add" /\ s = m.ids[k] /\ k \in DOMAIN m.ids BY <1>4, <1>9 DEF AddsRequest
  <2>2. s \in Range(m.ids) BY <2>1 DEF Range
  <2>3. Adds(m) = Range(m.ids) BY <1>1, <2>1 DEF Adds
  <2>4. s \in Sessions BY <1>3, <2>1
  <2> QED BY <2>1, <2>2, <2>3, <2>4
<1>10. Sound' => \A s \in Adds(m) : hwIds'[s] = NoHw
  <2>1. (Sound' => Sound) /\ hwIds' = hwIds
    BY <1>1 DEF Sound, Exposed, Slept, Restarts, adapter
  <2> QED BY <1>1, <2>1, HeadHere DEF m
<1>11. \A j, k \in DOMAIN out : j # k => AddsRequest(out[j]) \cap AddsRequest(out[k]) = {}
  <2>1. \A j, k \in DOMAIN m.ids : m.ids[j] = m.ids[k] => j = k BY <1>3 DEF IsInjective
  <2> QED BY <1>4, <1>9, <2>1
<1>12. Sound' => \A k \in DOMAIN out : \A s \in AddsRequest(out[k]) :
          s \in Sessions /\ hwIds'[s] = NoHw /\ s \in Adds(m)
  BY <1>9, <1>10
<1> QED BY <1>1, <1>5, <1>6, <1>7, <1>8, <1>11, <1>12, ModemTaken DEF m

LEMMA CalledAgrees ==
    ASSUME TypeOK, Shape(queue, requests, commands), ModemInv, Adapter, ProcCalled
    PROVE  ModemInv'
<1> DEFINE m == Head(queue)
           r == m.to
<1>1. /\ queue # <<>> /\ m.what = "answer" /\ r.do = "call" /\ UNCHANGED <<world, adapter>>
      /\ \/ r.then = "add" /\ requests' = requests \o <<[r EXCEPT !.do = "add"]>>
         \/ /\ r.then # "add"
            /\ requests' = requests \o <<[r EXCEPT !.do = r.then, !.hw = hwIds[r.session]]>> /\ Found(r)
         \/ UNCHANGED requests
  BY DEF ProcCalled, Turn, Asks
<1>2. /\ r \in Requests /\ r.session \in Sessions /\ r.n # 0 /\ r.then \in Kinds
      /\ MessageHere(m, world, client)
  BY <1>1, HeadAnswer, HeadHere
<1>3. r.hw = 0 BY <1>1, <1>2 DEF MessageHere, AnswerMeant
<1>4. Heeds(m)
  <2>1. \A h : ~Alters(m, h) /\ ~Settles(m, h) BY <1>1 DEF Alters, Gives, Frees, Settles
  <2>2. Keep /\ UNCHANGED <<world, client>> BY <1>1 DEF Keep, adapter
  <2> QED BY <2>1, <2>2, KeepHeeds
<1>5. power' = power BY <1>1 DEF adapter
<1>6. Sound' => \A s \in Adds(m) : hwIds'[s] = NoHw
  <2>1. (Sound' => Sound) /\ hwIds' = hwIds
    BY <1>1 DEF Sound, Exposed, Slept, Restarts, adapter
  <2> QED BY <1>1, <2>1, HeadHere
<1>7. client' = client BY <1>1 DEF adapter
<1>8. ASSUME NEW y \in Requests, y.n = r.n, y.then = r.then, y.session = r.session, y.do = r.then,
             y.do = "add" => y.hw = 0, requests' = requests \o <<y>>
      PROVE  ModemInv'
  <2> DEFINE out == <<y>>
  <2>1. out \in Seq(Requests) /\ DOMAIN out = {1} /\ out[1] = y /\ requests' = requests \o out
    BY <1>8
  <2> HIDE DEF out, m
  <2>2. RequestHere(y, world, client')
    BY <1>2, <1>8 DEF RequestHere, RequestMeant, Meant, Absent, Kinds
  <2>3. y.do # "open" BY <1>2, <1>8 DEF Kinds
  <2>4. \A s \in AddsRequest(y) : s \in Sessions /\ s \in Adds(m)
    BY <1>1, <1>2, <1>8 DEF AddsRequest, Adds, Kinds
  <2>5. \A k \in DOMAIN out : k = 1 /\ out[k] = y BY <2>1
  <2>6. /\ \A k \in DOMAIN out : RequestHere(out[k], world, client') /\ out[k].do # "open"
        /\ Sound' => \A k \in DOMAIN out : \A s \in AddsRequest(out[k]) :
                        s \in Sessions /\ hwIds'[s] = NoHw /\ s \in Adds(m)
        /\ \A j, k \in DOMAIN out : j = k
    BY <1>6, <2>2, <2>3, <2>4, <2>5
  <2> QED BY <1>4, <1>5, <2>1, <2>6, ModemTaken DEF m
<1>9. CASE r.then = "add" /\ requests' = requests \o <<[r EXCEPT !.do = "add"]>>
  <2> DEFINE y == [r EXCEPT !.do = "add"]
  <2>1. y \in Requests /\ y.n = r.n /\ y.then = r.then /\ y.session = r.session /\ y.do = "add" /\ y.hw = r.hw
    BY <1>2 DEF Requests, Kinds
  <2> HIDE DEF r
  <2> QED BY <1>3, <1>8, <1>9, <2>1
<1>10. CASE /\ r.then # "add"
            /\ requests' = requests \o <<[r EXCEPT !.do = r.then, !.hw = hwIds[r.session]]>> /\ Found(r)
  <2> DEFINE y == [r EXCEPT !.do = r.then, !.hw = hwIds[r.session]]
  <2>1. hwIds[r.session] \in HwIds BY <1>2, <1>10 DEF Found, TypeOK
  <2>2. y \in Requests /\ y.n = r.n /\ y.then = r.then /\ y.session = r.session /\ y.do = r.then
    BY <1>2, <2>1 DEF Requests
  <2> HIDE DEF r
  <2> QED BY <1>8, <1>10, <2>2
<1>11. CASE UNCHANGED requests BY <1>4, <1>5, <1>11, ModemTakenNone
<1> QED BY <1>1, <1>9, <1>10, <1>11

LEMMA PowerAgrees ==
    ASSUME TypeOK, Shape(queue, requests, commands), ModemInv, Adapter, ProcPower
    PROVE  ModemInv'
<1> DEFINE m == Head(queue)
           do == IF Head(queue).flag THEN "resume" ELSE "pause"
           then == IF Head(queue).flag THEN "wake" ELSE "suspend"
           out == [i \in DOMAIN Held |-> Ask(do, then, 0, Held[i], hwIds[Held[i]], FALSE)]
<1>1. /\ queue # <<>> /\ m.what = "power" /\ requests' = requests \o out
      /\ UNCHANGED <<world, client, fences, hwIds>>
  BY DEF ProcPower, Turn, Asks
<1>2. do \in Kinds /\ then \in Then \ Kinds
      /\ (<<do, then>> = <<"pause", "suspend">> \/ <<do, then>> = <<"resume", "wake">>)
  BY DEF Kinds, Then
<1> HIDE DEF do, then
<1>3. out \in Seq(Requests)
      /\ \A k \in DOMAIN out : /\ out[k].n = 0 /\ out[k].do = do /\ out[k].then = then
                               /\ out[k].session \in Sessions
  BY <1>2, HeldIs
<1> HIDE DEF out, m
<1>4. \A k \in DOMAIN out : RequestHere(out[k], world, client') /\ out[k].do # "open"
  BY <1>2, <1>3 DEF RequestHere, RequestMeant, Meant, Absent
<1>5. \A k \in DOMAIN out : AddsRequest(out[k]) = {} BY <1>2, <1>3 DEF AddsRequest
<1>6. Heeds(m)
  <2>1. \A h : ~Alters(m, h) /\ ~Settles(m, h) BY <1>1 DEF Alters, Gives, Frees, Settles
  <2>2. Keep /\ UNCHANGED <<world, client>> BY <1>1 DEF Keep
  <2> QED BY <2>1, <2>2, KeepHeeds
<1>7. "power" \in world BY <1>1, HeadHere DEF MessageHere, m
<1> QED BY <1>1, <1>3, <1>4, <1>5, <1>6, <1>7, ModemTaken DEF m

LEMMA DestroyAgrees ==
    ASSUME TypeOK, Shape(queue, requests, commands), ModemInv, Adapter, ProcDestroy
    PROVE  ModemInv'
<1> DEFINE m == Head(queue)
           out == StopSessions
<1>1. /\ queue # <<>> /\ m.what = "destroy" /\ requests' = requests \o out
      /\ client' = FALSE /\ UNCHANGED <<world, fences, power>>
  BY DEF ProcDestroy, Turn, Asks
<1>2. "remove" \in Kinds /\ "gone" \in Then \ Kinds BY DEF Kinds, Then
<1>3. out \in Seq(Requests)
      /\ \A k \in DOMAIN out : /\ out[k].n = 0 /\ out[k].do = "remove" /\ out[k].then = "gone"
                               /\ out[k].session \in Sessions
  BY <1>2, HeldIs DEF StopSessions
<1> HIDE DEF out, m
<1>4. \A k \in DOMAIN out : RequestHere(out[k], world, client') /\ out[k].do # "open"
  BY <1>1, <1>3 DEF RequestHere, RequestMeant, Meant, Absent
<1>5. ~Sound' BY <1>1 DEF Sound
<1>6. Heeds(m)
  <2>1. \A h : ~Gives(m, h) /\ ~Settles(m, h) BY <1>1 DEF Gives, Settles
  <2> QED BY <1>1, <1>5, <2>1 DEF Heeds, FencesFollow, PausesFollow
<1> QED BY <1>1, <1>3, <1>4, <1>5, <1>6, ModemTaken DEF m

(* restartGeofences forgets all and asks for each of them again.             *)
LEMMA EngineUpAgrees ==
    ASSUME TypeOK, Shape(queue, requests, commands), ModemInv, Adapter, ProcEngineUp
    PROVE  ModemInv'
<1> DEFINE m == Head(queue)
           old == Ascending(ToRestart)
           l == Cardinality(ToRestart)
           out == [i \in DOMAIN old |-> Ask("add", "restart", 0, fences[old[i]].session, 0,
                                            fences[old[i]].paused)]
<1>1. /\ queue # <<>> /\ m.what = "up" /\ UNCHANGED <<world, client, power>>
      /\ IF Unlocked /\ power # "suspend" THEN Restart ELSE Keep /\ UNCHANGED requests
  BY DEF ProcEngineUp, Turn, Others
<1>2. world \cap {"crashes", "untimely"} # {} /\ Restarts
  BY <1>1, HeadHere DEF MessageHere, Restarts, Exposed
<1>3. \A h : ~Gives(m, h) /\ ~Settles(m, h) /\ Frees(m, h) BY <1>1 DEF Gives, Settles, Frees
<1> HIDE DEF m
<1>4. ("power" \notin world => power = "unknown") BY <1>1 DEF ModemInv, HereInv
<1>5. (Sound' => Sound) /\ (Sound => Paired(hwIds, fences)) /\ (Sound => Unlocked /\ power # "suspend")
  BY <1>1, <1>2, <1>4 DEF Sound, Exposed, Slept, Restarts, ModemInv, HereInv
<1>6. ToRestart \subseteq Int /\ IsFiniteSet(ToRestart)
  <2>1. IsFiniteSet(HwIds) /\ HwIds \subseteq Int BY GeofenceAssumption, FS_Interval DEF HwIds
  <2> QED BY <2>1, FS_Subset DEF ToRestart
<1>7. /\ DOMAIN old = 1..l /\ l \in Nat /\ Range(old) = ToRestart
      /\ \A i, j \in DOMAIN old : old[i] = old[j] => i = j
      /\ ToRestart # {} => old # <<>>
  BY <1>6, AscendingIs
<1> HIDE DEF old, l
<1>8. ModemIds \subseteq HwIds BY GeofenceAssumption DEF ModemIds, HwIds
<1>9. CASE Restart /\ old # <<>>
  <2>1. /\ fences' = [h \in HwIds |-> NoFence] /\ hwIds' = [s \in Sessions |-> NoHw]
        /\ requests' = requests \o out
    BY <1>9 DEF Restart, Asks, old
  <2>2. \A i \in 1..l : old[i] \in ToRestart BY <1>7 DEF Range
  <2>3. \A h \in ToRestart : /\ h \in HwIds /\ fences[h].session \in Sessions /\ fences[h].paused \in BOOLEAN
                             /\ Sound => hwIds[fences[h].session] = h /\ h # NoHw
    <3> TAKE h \in ToRestart
    <3>1. fences[h] \in Fence /\ h \in HwIds /\ fences[h] # NoFence /\ h # NoHw
      BY DEF TypeOK, ToRestart, HwIds, NoHw
    <3> QED BY <1>5, <3>1 DEF Fence, Paired
  <2>4. \A i \in 1..l : LET y == out[i] IN
           /\ y \in Requests /\ y.n = 0 /\ y.do = "add" /\ y.then = "restart" /\ y.hw = 0
           /\ y.session = fences[old[i]].session
    <3> TAKE i \in 1..l
    <3> DEFINE s == fences[old[i]].session
               f == fences[old[i]].paused
    <3>1. s \in Sessions /\ f \in BOOLEAN BY <2>2, <2>3
    <3>2. s \in 0..MaxSessions /\ 0 \in HwIds /\ 0 \in 0..MaxCommands
      BY <3>1, GeofenceAssumption DEF Sessions, HwIds
    <3>3. out[i] = Ask("add", "restart", 0, s, 0, f) BY <1>7
    <3> HIDE DEF s, f, out
    <3>4. out[i] \in Requests /\ out[i].n = 0 /\ out[i].do = "add" /\ out[i].then = "restart"
          /\ out[i].hw = 0 /\ out[i].session = s
      BY <3>1, <3>2, <3>3 DEF Ask, Requests, Kinds, Then
    <3> QED BY <3>4 DEF s
  <2>5. DOMAIN out = 1..l /\ out = [i \in 1..l |-> out[i]] BY <1>7
  <2> HIDE DEF out
  <2>6. out \in [1..l -> Requests] BY <2>4, <2>5
  <2>7. out \in Seq(Requests) BY <1>7, <2>6
  <2>8. \A k \in DOMAIN out : RequestHere(out[k], world, client') /\ out[k].do # "open"
    BY <1>2, <2>4, <2>5 DEF RequestHere, RequestMeant, Meant, Absent
  <2>9. /\ \A h \in HwIds : fences'[h] = NoFence
        /\ \A s \in Sessions : hwIds'[s] = NoHw
    BY <2>1
  <2>10. Heeds(m) BY <1>2, <1>3, <1>8, <2>9 DEF Heeds, FencesFollow, MapsFollow, Paired, Alters
  <2>11. \A k \in DOMAIN out : AddsRequest(out[k]) = {fences[old[k]].session}
    BY <2>4, <2>5 DEF AddsRequest
  <2>12. Sound => \A k \in DOMAIN out : \A s \in AddsRequest(out[k]) :
            s \in Sessions /\ hwIds[s] # NoHw /\ hwIds[s] = old[k]
    BY <2>2, <2>3, <2>5, <2>11
  <2>13. Sound => \A j, k \in DOMAIN out :
            j # k => AddsRequest(out[j]) \cap AddsRequest(out[k]) = {}
    BY <1>7, <2>5, <2>12
  <2> QED BY <1>1, <1>5, <2>1, <2>7, <2>8, <2>9, <2>10, <2>12, <2>13, ModemTaken DEF m
<1>10. CASE Keep /\ UNCHANGED requests /\ (Sound => ToRestart = {})
  <2>1. Sound => \A h \in HwIds : fences[h] = NoFence BY <1>10 DEF ToRestart
  <2>2. Heeds(m)
    BY <1>2, <1>3, <1>5, <1>8, <1>10, <2>1 DEF Heeds, Keep, FencesFollow, MapsFollow, Alters
  <2> QED BY <1>1, <1>10, <2>2, ModemTakenNone DEF m
<1> QED BY <1>1, <1>5, <1>7, <1>9, <1>10 DEF Restart, old

LEMMA AdapterAgrees ==
    ASSUME TypeOK, Shape(queue, requests, commands), ModemInv, Adapter
    PROVE  ModemInv'
BY AddedAgrees, RemovedAgrees, PauseAgrees, IdleAgrees, GoneAgrees, RestoredAgrees,
  CommandAgrees, CalledAgrees, PowerAgrees, DestroyAgrees, EngineUpAgrees DEF Adapter

LEMMA ModemStep ==
    ASSUME Inv, ModemInv, [Next]_vars
    PROVE  ModemInv'
<1>1. Base /\ IdsInv /\ TypeOK /\ Shape(queue, requests, commands) BY DEF Inv, Base
<1>2. CASE Framework BY <1>1, <1>2, FrameworkNames, SendAgrees, EnvironmentAgrees
<1>3. CASE Adapter BY <1>1, <1>3, AdapterAgrees
<1>4. CASE LocApi BY <1>1, <1>4, CallAgrees, RequestAgrees, OpenAgrees DEF LocApi
<1>5. CASE Environment
  BY <1>1, <1>5, EnvironmentAgrees, CrashAgrees, LockAgrees DEF Environment
<1>6. CASE UNCHANGED vars BY <1>6, ModemStutters
<1> QED BY <1>2, <1>3, <1>4, <1>5, <1>6 DEF Next

LEMMA ModemInit ==
    ASSUME Init
    PROVE  ModemInv
<1>1. /\ queue = <<>> /\ requests = <<>> /\ commands = <<>> /\ client = TRUE /\ modemUp = TRUE
      /\ DOMAIN queue = {} /\ DOMAIN requests = {} /\ DOMAIN commands = {} /\ power = "unknown"
      /\ fences = [h \in HwIds |-> NoFence] /\ hwIds = [s \in Sessions |-> NoHw]
      /\ modem = [h \in ModemIds |-> NoFence] /\ engineLock = "enabled"
  BY DEF Init
<1>2. ModemIds \subseteq HwIds BY GeofenceAssumption DEF ModemIds, HwIds
<1>3. /\ \A h \in ModemIds : modem[h] = NoFence
      /\ \A h \in HwIds : fences[h] = NoFence
      /\ \A s \in Sessions : hwIds[s] = NoHw
  BY <1>1
<1>4. HereInv BY <1>1, <1>3 DEF HereInv, Opens, Unlocked
<1>5. OwnBreaches(queue, fences, modem) /\ LastPauses(queue, fences, modem)
  BY <1>1, <1>3 DEF OwnBreaches, LastPauses
<1>6. Paired(hwIds, fences) /\ FreeWhenGiven(queue, fences) /\ Foreseen(queue, fences, modem)
  BY <1>1, <1>2, <1>3 DEF Paired, FreeWhenGiven, Foreseen, LastAlters
<1>7. AddsOk(queue, requests, hwIds, commands) BY <1>1, <1>3 DEF AddsOk, AddedOnce
<1> QED BY <1>4, <1>5, <1>6, <1>7 DEF ModemInv

LEMMA ModemAgreed ==
    ASSUME TypeOK, ModemInv
    PROVE  ModemAgrees
<1>1. ModemIds \subseteq HwIds BY GeofenceAssumption DEF ModemIds, HwIds
<1>2. MapsInverse BY DEF MapsInverse, ModemInv, Sound, Paired
<1>3. FencesAgree
  <2> SUFFICES ASSUME Settled, Sound
               PROVE  \A h \in ModemIds :
                          IF modem[h] = NoFence THEN fences[h] = NoFence
                          ELSE fences[h] # NoFence /\ fences[h].session = modem[h].session
    BY DEF FencesAgree, Sound
  <2>1. DOMAIN queue = {} /\ Foreseen(queue, fences, modem) BY DEF Settled, Quiet, ModemInv
  <2> QED BY <2>1 DEF Foreseen
<1>4. PausedAgrees
  <2> SUFFICES ASSUME Settled, ~Restarts, NEW h \in ModemIds, modem[h] # NoFence, fences[h] # NoFence
               PROVE  fences[h].paused = modem[h].paused
    BY DEF PausedAgrees
  <2>1. DOMAIN queue = {} /\ LastPauses(queue, fences, modem) BY DEF Settled, Quiet, ModemInv
  <2> QED BY <2>1 DEF LastPauses
<1>5. BreachIsOwn
  <2> SUFFICES ASSUME queue # <<>>, Head(queue).what = "breach", fences[Head(queue).hw] # NoFence
               PROVE  fences[Head(queue).hw].session = Head(queue).session
    BY DEF BreachIsOwn
  <2>1. 1 \in DOMAIN queue /\ Head(queue) = queue[1] /\ \A k \in DOMAIN queue : k \in Nat /\ ~(k < 1)
    BY HasTaken DEF TypeOK
  <2>2. Head(queue).hw \in ModemIds BY HeadHere DEF MessageHere
  <2>3. Becomes(queue, 1, fences, Head(queue).hw, Head(queue).session)
    BY <2>1, <2>2 DEF ModemInv, OwnBreaches
  <2> QED BY <2>1, <2>3 DEF Becomes
<1> QED BY <1>2, <1>3, <1>4, <1>5 DEF ModemAgrees

(* While the client is there and the engine is neither locked nor asleep,    *)
(* mGeofences and mGeofenceIds name the same pairs and at rest the adapter   *)
(* has what the modem has, through haste, refusals and restarts; without     *)
(* restarts it knows what of it is paused; and in every world a breach is    *)
(* delivered under the key of its own geofence.                              *)
THEOREM ModemKept == Spec => []ModemAgrees
<1>1. Init => Inv /\ ModemInv BY InvInit, ModemInit
<1>2. Inv /\ ModemInv /\ [Next]_vars => Inv' /\ ModemInv' BY InvStep, ModemStep
<1>3. Inv /\ ModemInv => ModemAgrees BY ModemAgreed DEF Inv, Base
<1> QED BY <1>1, <1>2, <1>3, PTL DEF Spec
=============================================================================
