----------------------------- MODULE ClientLife -----------------------------
(* What LocationAPI.h promises of a client object: from createInstance on    *)
(* adapters may hold it; once it was destroyed no adapter takes it on        *)
(* anymore, and where a callback was given it is deleted as soon as the last *)
(* adapter has let go of it, never before.                                   *)
CONSTANTS Clients, Adapters

VARIABLES
    life,      \* of each client: free memory, live, leaving, or left for good
    holders    \* the adapters that hold it

vars == <<life, holders>>

Init ==
    /\ life = [c \in Clients |-> "free"]
    /\ holders = [c \in Clients |-> {}]

Become(c, l, A) ==
    /\ life' = [life EXCEPT ![c] = l]
    /\ holders' = [holders EXCEPT ![c] = A]

Create(c) ==
    /\ life[c] = "free" /\ holders[c] = {}
    /\ \E A \in SUBSET Adapters : Become(c, "live", A)

Change(c) ==
    /\ life[c] = "live"
    /\ \E A \in SUBSET Adapters : Become(c, "live", A)

Leave(c) ==
    /\ life[c] = "live"
    /\ \E A \in (SUBSET Adapters) \ {{}}, l \in {"leaving", "left"} : Become(c, l, A)

LetGo(c, a) ==
    /\ a \in holders[c]
    /\ \/ life[c] = "left" /\ Become(c, "left", holders[c] \ {a})
       \/ life[c] = "leaving" /\ holders[c] # {a} /\ Become(c, "leaving", holders[c] \ {a})
       \/ life[c] = "leaving" /\ holders[c] = {a} /\ Become(c, "free", {})

Next == \E c \in Clients :
    \/ Create(c) \/ Change(c) \/ Leave(c)
    \/ \E a \in Adapters : LetGo(c, a)

(* Every adapter lets go in the end, so who leaves is deleted in the end.    *)
Spec ==
    /\ Init /\ [][Next]_vars
    /\ \A c \in Clients, a \in Adapters : WF_vars(LetGo(c, a))
=============================================================================
