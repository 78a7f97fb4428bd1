--------------------------- MODULE MCOrchestrator ---------------------------
(* Instances of Orchestrator for TLC.                                       *)
EXTENDS Orchestrator

(* What the publishers of the repository write, with operator approval and  *)
(* an unreliable Redis; entries as the nodes read them, with kills that     *)
(* overlap the driver and a pause control in use.                           *)
Deployed == [hitl |-> TRUE, overlap |-> FALSE, outages |-> TRUE,
             pauses |-> FALSE, format |-> "data"]
Expected == [hitl |-> FALSE, overlap |-> TRUE, outages |-> FALSE,
             pauses |-> TRUE, format |-> "plain"]
Written  == [Deployed EXCEPT !.outages = FALSE]

MCEnvironments == {Deployed, Expected}
MCWritten      == {Written}
MCPausing      == {Expected}
=============================================================================
