------------------------------ MODULE MCMarket ------------------------------
(* Instances of Ingestion, TickStore and BrokerAuth for TLC.  The tick      *)
(* pipeline, the agent's mode and watchdog, the failover buffer, the token  *)
(* and its scheduler, and the connection pool share no state, so a          *)
(* behaviour is one of them; the pipeline's is about its bars or about its  *)
(* buffer, which meet only where a tick passes from one to the other.       *)
EXTENDS Ingestion, TickStore, BrokerAuth

VARIABLE part

vars == <<part, feedVars, storeVars, authVars>>

(* Degraded with the WebSocket back, so that its ticks and the fallback's   *)
(* meet; and an agent that is started, falls silent, is stopped and started *)
(* again.                                                                   *)
Pipeline == [mode |-> "LIVE", started |-> TRUE, ticks |-> 2, stops |-> 0, ends |-> 1]
Agent    == [mode |-> "LIVE", started |-> FALSE, ticks |-> 1, stops |-> 2, ends |-> 4]
Paper    == [Agent EXCEPT !.mode = "PAPER"]

MCFeeds == {Pipeline, Agent, Paper}

Init ==
    /\ part \in {"bars", "buffer", "agent", "store", "token", "pool"}
    /\ FeedInit /\ StoreInit /\ AuthInit
    /\ feed \in IF part = "agent" THEN {Agent, Paper} ELSE {Pipeline}
    /\ part # "token" => authMode = "PAPER" /\ store = "memory"

Next ==
    \/ part = "bars" /\ BarNext /\ UNCHANGED <<part, storeVars, authVars>>
    \/ part = "buffer" /\ BufferNext /\ UNCHANGED <<part, storeVars, authVars>>
    \/ part = "agent" /\ AgentNext /\ UNCHANGED <<part, storeVars, authVars>>
    \/ part = "store" /\ StoreNext /\ UNCHANGED <<part, feedVars, authVars>>
    \/ part = "token" /\ TokenNext /\ UNCHANGED <<part, feedVars, storeVars, poolVars>>
    \/ part = "pool" /\ PoolNext /\ UNCHANGED <<part, feedVars, storeVars, tokenVars>>

Spec == Init /\ [][Next]_vars /\ FeedFairness
=============================================================================
