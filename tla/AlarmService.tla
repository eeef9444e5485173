---------------------------- MODULE AlarmService ----------------------------
(* What LocTimer.h promises a client, without threads, heap or clock: a      *)
(* timer that was started runs until it is stopped or until it expires, and  *)
(* each expiry calls the client back once.                                   *)
CONSTANTS Clients, None

VARIABLES
    running,   \* the timers that run
    called     \* the client that is about to be called back, or None

vars == <<running, called>>

Init == running = {} /\ called = None

(* start returns true only for a timer that does not run.                    *)
Start(t) ==
    /\ t \notin running
    /\ running' = running \cup {t}
    /\ UNCHANGED called

(* stop returns true only for a timer that runs.                             *)
Stop(t) ==
    /\ t \in running
    /\ running' = running \ {t}
    /\ UNCHANGED called

Expire(t) ==
    /\ t \in running /\ called = None
    /\ running' = running \ {t}
    /\ called' = t

CallBack ==
    /\ called # None
    /\ called' = None
    /\ UNCHANGED running

Next == \/ \E t \in Clients : Start(t) \/ Stop(t) \/ Expire(t)
        \/ CallBack

(* A timer that runs does not run for ever, and who is to be called back is. *)
Spec ==
    /\ Init /\ [][Next]_vars
    /\ WF_vars(CallBack)
    /\ \A t \in Clients : SF_vars(Expire(t) \/ Stop(t))
=============================================================================
