----------------------------- MODULE MCBatching -----------------------------
EXTENDS Batching

(* A suspend or a resume may come at every point of every exchange, and      *)
(* somebody may move: for these, three commands.                             *)
Bound ==
    Exposed({"power", "moving"}) => Len(commands) <= 3
=============================================================================
