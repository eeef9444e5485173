----------------------------- MODULE MCTracking -----------------------------
(* The clients are interchangeable.                                        *)
EXTENDS GnssTracking

Perms == Permutations(Clients)
=============================================================================
