------------------------------ MODULE LocHeap ------------------------------
(* The binary tree of gps/utils/LocHeap.cpp. A heap is a function from the   *)
(* places of the tree that are taken to what lies there; the children of     *)
(* place i are 2i and 2i + 1. What lies there ranks by its field due.        *)
EXTENDS Integers, FiniteSets

NoHeap == [i \in {} |-> 0]
Within(h) == {h[i] : i \in DOMAIN h}
Up(i) == i \div 2

(* The places that are taken, and those where a node can be added            *)
Places(h) == {1} \cup DOMAIN h \cup {2 * i : i \in DOMAIN h} \cup {2 * i + 1 : i \in DOMAIN h}

(* The sooner one outranks the later one.                                    *)
outRanks(a, b) == a.due < b.due

(* Every node lies below one that it does not outrank.                       *)
checkNodes(h) ==
    \A i \in DOMAIN h \ {1} : Up(i) \in DOMAIN h /\ ~outRanks(h[i], h[Up(i)])

(* mSize of each place                                                       *)
mSize(h) ==
    LET size[i \in Places(h)] == IF i \in DOMAIN h THEN 1 + size[2 * i] + size[2 * i + 1] ELSE 0
    IN  size

(* The child below i that a newcomer goes to: a free one, else the smaller   *)
(* subtree.                                                                  *)
Smaller(h, i) ==
    IF 2 * i \notin DOMAIN h THEN 2 * i
    ELSE IF 2 * i + 1 \notin DOMAIN h THEN 2 * i + 1
    ELSE IF mSize(h)[2 * i] <= mSize(h)[2 * i + 1] THEN 2 * i ELSE 2 * i + 1

(* The newcomer d sinks from the top, always to the smaller child ...        *)
Way(h) ==
    LET way[i \in Places(h)] == i = 1 \/ (way[Up(i)] /\ i = Smaller(h, Up(i)))
    IN  {i \in Places(h) : way[i]}

(* ... and at each node on its way, whichever of the two outranks the other  *)
(* stays: this is what arrives at each place.                                *)
Sinking(h, d) ==
    LET sinking[i \in Places(h)] ==
            IF i = 1 THEN d
            ELSE IF outRanks(sinking[Up(i)], h[Up(i)]) THEN h[Up(i)] ELSE sinking[Up(i)]
    IN  sinking

push(h, d) ==
    LET way == Way(h)
        sinking == Sinking(h, d)
    IN  [i \in DOMAIN h \cup way |->
            IF i \in way /\ (i \notin DOMAIN h \/ outRanks(sinking[i], h[i]))
            THEN sinking[i]
            ELSE h[i]]

(* The child that takes the place of i when what lies there is popped.       *)
Heir(h, i) ==
    IF 2 * i \notin DOMAIN h THEN 2 * i + 1
    ELSE IF 2 * i + 1 \notin DOMAIN h THEN 2 * i
    ELSE IF outRanks(h[2 * i], h[2 * i + 1]) THEN 2 * i ELSE 2 * i + 1

(* The nodes below n whose data move up when n is popped, with n             *)
Moving(h, n) ==
    LET moves[i \in Places(h)] ==
            i = n \/ (i > n /\ i \in DOMAIN h /\ moves[Up(i)] /\ i = Heir(h, Up(i)))
    IN  {i \in Places(h) : moves[i]}

(* What lies below place n moves up, heir by heir, and a leaf goes.          *)
popAt(h, n) ==
    LET moving == Moving(h, n)
    IN  [i \in {j \in DOMAIN h : j \in moving => Heir(h, j) \in DOMAIN h} |->
            IF i \in moving THEN h[Heir(h, i)] ELSE h[i]]

pop(h) == IF h = NoHeap THEN h ELSE popAt(h, 1)

(* The places that the search for d meets: it does not go below d, nor below *)
(* a node that d outranks.                                                   *)
Met(h, d) ==
    LET meets[i \in Places(h)] ==
            /\ i \in DOMAIN h
            /\ i = 1 \/ (meets[Up(i)] /\ h[Up(i)] # d /\ ~outRanks(d, h[Up(i)]))
    IN  {i \in Places(h) : meets[i]}

remove(h, d) ==
    LET at == {i \in Met(h, d) : h[i] = d}
    IN  IF at = {} THEN h ELSE popAt(h, CHOOSE i \in at : TRUE)
=============================================================================
