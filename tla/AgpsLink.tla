------------------------------ MODULE AgpsLink ------------------------------
(***************************************************************************)
(* What Agps promises of the framework's one data connection, with the WDS *)
(* library that the device ships and without it.  The library's answer may *)
(* come when the connection it was asked about is gone: overtaken says so. *)
(***************************************************************************)
EXTENDS Agps

VARIABLE overtaken  \* history: a close was taken before the library's answer

linkVars == <<vars, overtaken>>

(* An answer of the library to the AGNSS nif is outstanding.               *)
Querying == wds["AGNSS"] > 0 \/ Queued({"pdn"}, "AGNSS")

(* The adapter takes a close of the connection while it is.                *)
Overtakes ==
    /\ msgQ # <<>> /\ msgQ' = Tail(msgQ)
    /\ Head(msgQ).m = "closed" /\ getAgpsStateMachine(Head(msgQ).t) = "AGNSS"
    /\ Querying

(* Nif and client are where they began, and nothing is under way.          *)
LinkIdle ==
    /\ mState["AGNSS"] = "RELEASED" /\ conn = "down" /\ cmdQ = <<>>
    /\ ~Querying /\ ~Queued({"open_named", "open_empty", "failed", "closed"}, "AGNSS")

LinkInit == Init /\ overtaken = FALSE
LinkNext == Next /\ overtaken' = ((overtaken \/ Overtakes) /\ ~LinkIdle')

LinkSpec == LinkInit /\ [][LinkNext]_linkVars
FairLinkSpec == LinkSpec /\ Fairness

-----------------------------------------------------------------------------
(* The nif and the framework's one connection stay in step, whatever the   *)
(* order in which requests, releases, answers, losses and the answers of   *)
(* the WDS library meet: who waits has an answer coming, nothing is left   *)
(* behind, and ACQUIRED has its connection unless a close has overtaken    *)
(* the library's answer.                                                   *)
ConnectionKnown ==
    (overtaken \/ AcquiredIsConnected) /\ PendingAwaitsAnswer /\ NoLeakedConnection

(* Every request of the modem is answered, and every teardown ends, unless *)
(* a close overtakes: a nif that is ACQUIRED without a connection waits    *)
(* for ever for the close of what is not open.                             *)
RequestsAnswered ==
    \A h \in Handles : atl[h] = "opening" ~> atl[h] # "opening" \/ overtaken
TeardownEnds ==
    \A n \in Nifs : mState[n] = "RELEASING" ~> mState[n] # "RELEASING" \/ overtaken

(* Nothing stays under way for ever: no request, and no teardown.          *)
ConnectionsSettle == RequestsAnswered /\ TeardownEnds
=============================================================================
