------------------------- MODULE MCDecisionLogPlugin -------------------------
(* Three decisions and a buffer of two, so that it fills while a batch is on  *)
(* its way and the batch comes back to a buffer without room for it.          *)
EXTENDS DecisionLogPlugin, TLC

CONSTANTS d1, d2, d3
MCDecisions == {d1, d2, d3}
=============================================================================
