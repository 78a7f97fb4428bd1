------------------------------ MODULE MCMonitor ------------------------------
(* Instances of HeartbeatMonitor for TLC.                                   *)
EXTENDS HeartbeatMonitor

CONSTANTS a1, a2

MCAgents == {a1, a2}

Quiet == [agents |-> MCAgents, local |-> FALSE, punctual |-> TRUE,
          outages |-> FALSE, restarts |-> FALSE, slowJoin |-> FALSE]

(* Agents of other processes that never pause; one that pauses while Redis  *)
(* fails; agents in the monitor's process, and a monitor that is stopped    *)
(* and started, cleanly or in the middle of a poll.                         *)
MCEnvironments ==
    {Quiet,
     [Quiet EXCEPT !.agents = {a1}, !.punctual = FALSE, !.outages = TRUE],
     [Quiet EXCEPT !.local = TRUE, !.restarts = TRUE],
     [Quiet EXCEPT !.agents = {a1}, !.restarts = TRUE, !.slowJoin = TRUE]}

MCQuiet == {[Quiet EXCEPT !.agents = {a1}]}
=============================================================================
