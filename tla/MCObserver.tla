----------------------------- MODULE MCObserver -----------------------------
EXTENDS StatusObserver

CONSTANTS n1, n2, n3, c1, c2

Perms == Permutations({n1, n2, n3}) \cup Permutations({c1, c2})

(* Few calls where networks come and go, few changes where clients call, and *)
(* five where a type may have two networks.                                  *)
Bound ==
    /\ Exposed({"networks", "daemon"}) => calls <= 1
    /\ Exposed({"changes"}) => events <= 2
    /\ Exposed({"requests"}) => events <= 1
    /\ Exposed({"meters", "daemon"}) => events <= 3
=============================================================================
