----------------------------- MODULE MCClients -----------------------------
EXTENDS LocationClients

(* The first client comes first. It is alone where the modem is slow or      *)
(* restarts or a client is left for good, and two calls are made where the   *)
(* engine is locked or asked for more.                                       *)
Bound ==
    /\ calls <= 1 => life[2] = "free"
    /\ Exposed({"slow", "restarts", "deserts"}) => life[2] = "free"
    /\ Exposed({"modemNmea", "agps", "locked", "slow"}) => calls <= 2
=============================================================================
