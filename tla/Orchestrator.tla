---------------------------- MODULE Orchestrator ----------------------------
(***************************************************************************)
(* M18 orchestrator (shared/orchestrator): one OrchestratorGraph, the      *)
(* driver that calls run_cycle, the operator who approves, rejects and     *)
(* kills, the Redis keys and streams its nodes read (written by M08, M11,  *)
(* M13, M16, M17 and the API), shutdown, crash and restore.                *)
(*                                                                         *)
(* LangGraph is external: invoke(input) starts a run whose node updates    *)
(* are merged into the run's values, a run that reaches hitl_node stops    *)
(* before it and returns None, update_state acts as the node that ran last *)
(* (so its edges are followed again), and invoke(None) runs what the       *)
(* checkpoint has scheduled, or nothing.  The checkpoint is that of the    *)
(* last finished or interrupted run.                                       *)
(*                                                                         *)
(* Of TradingSystemState the model keeps what a node, an edge or a caller  *)
(* decides on; last_error, timestamps and mismatch counts are left out,    *)
(* and with them reconciliation_node, which writes nothing else.           *)
(***************************************************************************)
EXTENDS Integers

CONSTANTS
    Environments,  \* the deployments considered, records of
                   \*   hitl:    OrchestratorGraph(enable_hitl)
                   \*   overlap: kill and driver threads overlap (nothing locks them apart)
                   \*   format:  "data": what regime/publisher.py and signal_dedup.lua
                   \*            write; "plain": symbol, exchange and regime fields,
                   \*            as the tests write
                   \*   outages: Redis may fail
                   \*   pauses:  the operator uses the pause control
    MaxSignals,    \* bound: signals_today saturates here
    MaxPublished,  \* bound: signals put on the stream
    MaxEnds        \* bound: how often the process ends

ASSUME OrchestratorAssumption ==
    /\ Environments \subseteq [hitl : BOOLEAN, overlap : BOOLEAN, outages : BOOLEAN,
                               pauses : BOOLEAN, format : {"data", "plain"}]
    /\ MaxSignals \in Nat /\ MaxPublished \in Nat /\ MaxEnds \in Nat

VARIABLES
    env,        \* the deployment, chosen once
    st,         \* OrchestratorGraph._state
    cp,         \* the checkpoint: its values, the node that ran last, what is next
    run,        \* the run in progress: node to execute, its values
    snap,       \* the state the driver will pass to run_cycle
    proc,       \* the process: "up", "clean" (state saved) or "crashed"
    ends,       \* how often it has ended
    halted,     \* system:status:halted
    paused,     \* system:status:paused
    degraded,   \* system:status:degraded
    blob,       \* orchestrator:state
    regime,     \* newest entry of the regime stream
    signal,     \* newest entry of the signal stream: "none", "free", "blocked"
    published,  \* entries put on the signal stream this session
    redisUp

procVars  == <<proc, ends, env>>
graphVars == <<st, cp, run, snap, procVars>>
keyVars   == <<halted, paused, degraded, blob, redisUp>>
feedVars  == <<regime, signal, published>>
vars      == <<graphVars, keyVars, feedVars>>

State == [kill : BOOLEAN, cb : BOOLEAN, hitl : BOOLEAN, chaos : BOOLEAN,
          loss : BOOLEAN, large : BOOLEAN, signals : 0..MaxSignals]

(* make_initial_state *)
InitialState == [kill |-> FALSE, cb |-> FALSE, hitl |-> FALSE, chaos |-> FALSE,
                 loss |-> FALSE, large |-> FALSE, signals |-> 0]

NoState      == [none |-> TRUE]
NoCheckpoint == [at |-> "none", next |-> "none", vals |-> InitialState]
NoRun        == [pc |-> "idle", vals |-> InitialState, began |-> "none"]

Init ==
    /\ env \in Environments
    /\ st = InitialState
    /\ cp = NoCheckpoint
    /\ run = NoRun
    /\ snap = NoState
    /\ proc = "up" /\ ends = 0
    /\ halted = FALSE /\ paused = FALSE /\ degraded = FALSE
    /\ blob = NoState
    /\ regime = "none" /\ signal = "none" /\ published = 0
    /\ redisUp = TRUE

Up          == proc = "up"
Stopped(s)  == s.kill \/ s.cb
Interrupted == cp.next = "hitl"

-----------------------------------------------------------------------------
(* run_cycle: the driver reads the state, fills in P&L and positions (which *)
(* enter only through input_state) and invokes the graph.                   *)

TakeSnapshot ==
    /\ Up /\ run.pc = "idle" /\ snap = NoState
    /\ \E loss, large \in BOOLEAN :
          snap' = [st EXCEPT !.loss = loss, !.large = large]
    /\ UNCHANGED <<st, cp, run, procVars, keyVars, feedVars>>

(* Mutant: without an input_state the cycle starts from a fresh state.      *)
BeginCycleMutant ==
    /\ Up /\ run.pc = "idle"
    /\ run' = [pc |-> "regime", vals |-> IF snap = NoState THEN InitialState ELSE snap,
               began |-> regime]
    /\ snap' = NoState
    /\ UNCHANGED <<st, cp, procVars, keyVars, feedVars>>

(* invoke_input = input_state or self._state                                *)
BeginCycle ==
    /\ Up /\ run.pc = "idle"
    /\ run' = [pc |-> "regime", vals |-> IF snap = NoState THEN st ELSE snap, began |-> regime]
    /\ snap' = NoState
    /\ UNCHANGED <<st, cp, procVars, keyVars, feedVars>>

(* regime_node: errors are swallowed; an entry without a regime field is    *)
(* ignored.                                                                 *)
RegimeNode ==
    /\ run.pc = "regime"
    /\ run' = [run EXCEPT !.pc = "signal", !.vals.chaos =
            IF redisUp /\ env.format = "plain" /\ regime # "none" THEN regime = "chaos" ELSE @]
    /\ UNCHANGED <<st, cp, snap, procVars, keyVars, feedVars>>

(* The reconciliation gate sees an empty symbol when the entry has no       *)
(* symbol field.                                                            *)
ReconciliationBlocks == env.format = "plain" /\ signal = "blocked"

(* Mutant: the reconciliation gate is skipped.                              *)
ConsumesMutant == ~degraded /\ ~run.vals.chaos /\ signal # "none"

(* The gates of signal_node after the halt checks.                          *)
Consumes ==
    /\ ~degraded
    /\ ~run.vals.chaos
    /\ signal # "none"
    /\ ~ReconciliationBlocks

(* Mutant: only the halted key is looked at, and it is not latched.         *)
SignalNodeMutant ==
    /\ run.pc = "signal" /\ redisUp
    /\ run' = [run EXCEPT !.pc = "risk",
          !.vals.signals = IF ~halted /\ Consumes /\ @ < MaxSignals THEN @ + 1 ELSE @]
    /\ UNCHANGED <<st, cp, snap, procVars, keyVars, feedVars>>

(* signal_node: a set halted key latches kill_switch_active; otherwise the  *)
(* newest entry of the stream is counted.                                   *)
SignalNode ==
    /\ run.pc = "signal"
    /\ Stopped(run.vals) \/ redisUp
    /\ run' = [run EXCEPT !.pc = "risk",
          !.vals.kill = @ \/ (~Stopped(run.vals) /\ halted),
          !.vals.signals = IF ~Stopped(run.vals) /\ ~halted /\ Consumes /\ @ < MaxSignals
                           THEN @ + 1 ELSE @]
    /\ UNCHANGED <<st, cp, snap, procVars, keyVars, feedVars>>

(* The halted and degraded keys are read outside the try block: with Redis  *)
(* down the exception leaves run_cycle and _state as it was.                *)
SignalNodeRaises ==
    /\ run.pc = "signal"
    /\ ~Stopped(run.vals) /\ ~redisUp
    /\ run' = NoRun
    /\ UNCHANGED <<st, cp, snap, procVars, keyVars, feedVars>>

(* risk_node: the breaker first, then the HITL threshold.                   *)
RiskUpdate(s) ==
    IF s.loss /\ ~s.cb THEN [s EXCEPT !.cb = TRUE]
    ELSE IF ~Stopped(s) /\ s.large THEN [s EXCEPT !.hitl = TRUE]
    ELSE s

(* kill_switch_node *)
KillUpdate(s) == [s EXCEPT !.kill = TRUE, !.hitl = FALSE]

(* hitl_node *)
HitlUpdate(s) == [s EXCEPT !.hitl = FALSE]

(* _route_after_risk *)
Route(s) ==
    IF Stopped(s) THEN "kill" ELSE IF s.hitl THEN "hitl" ELSE "end"

(* A run that ends returns its values: run_cycle stores them.               *)
Finish(at, vals) ==
    /\ cp' = [at |-> at, next |-> "none", vals |-> vals]
    /\ st' = vals

(* risk_node, the conditional edge and what follows it.  A run interrupted  *)
(* before hitl_node returns None, so _state is not replaced.                *)
RiskNode ==
    /\ run.pc = "risk"
    /\ LET s == RiskUpdate(run.vals)
       IN  CASE Route(s) = "kill" -> Finish("kill", KillUpdate(s))
             [] Route(s) = "hitl" /\ env.hitl ->
                  cp' = [at |-> "risk", next |-> "hitl", vals |-> s] /\ UNCHANGED st
             [] Route(s) = "hitl" /\ ~env.hitl -> Finish("hitl", HitlUpdate(s))
             [] OTHER -> Finish("risk", s)
    /\ run' = NoRun
    /\ UNCHANGED <<snap, procVars, keyVars, feedVars>>

-----------------------------------------------------------------------------
(* The operator.                                                            *)

(* approve_hitl: resume at hitl_node; no gate is evaluated again.           *)
ApproveHitl ==
    /\ Up /\ Interrupted
    /\ Finish("hitl", HitlUpdate(cp.vals))
    /\ UNCHANGED <<run, snap, procVars, keyVars, feedVars>>

(* reject_hitl: as risk_node, so the edge is taken again, now to END; there *)
(* is nothing to run and _state keeps its value.                            *)
RejectHitl ==
    /\ Up /\ Interrupted
    /\ cp' = [cp EXCEPT !.vals.hitl = FALSE, !.next = "none"]
    /\ UNCHANGED <<st, run, snap, procVars, keyVars, feedVars>>

(* Mutant: only _state is updated, the checkpoint is left interrupted.      *)
TriggerKillSwitchMutant ==
    /\ Up /\ (env.overlap \/ (run.pc = "idle" /\ snap = NoState))
    /\ st' = KillUpdate(st)
    /\ UNCHANGED <<cp, run, snap, procVars, keyVars, feedVars>>

(* trigger_kill_switch: mark _state, then the checkpoint.  If risk_node ran *)
(* last the edge leads to kill_switch_node, whose result becomes _state;    *)
(* after hitl_node or kill_switch_node there is nothing to run, and without *)
(* a checkpoint update_state fails.                                         *)
TriggerKillSwitch ==
    /\ Up /\ (env.overlap \/ (run.pc = "idle" /\ snap = NoState))
    /\ CASE cp.at = "none" -> st' = KillUpdate(st) /\ UNCHANGED cp
         [] cp.at = "risk" -> Finish("kill", KillUpdate(cp.vals))
         [] OTHER -> st' = KillUpdate(st) /\ cp' = [cp EXCEPT !.vals = KillUpdate(@)]
    /\ UNCHANGED <<run, snap, procVars, keyVars, feedVars>>

-----------------------------------------------------------------------------
(* Process lifecycle.                                                       *)

(* Mutant: what is saved is the checkpoint's state.                         *)
ShutdownMutant ==
    /\ Up /\ run.pc = "idle" /\ redisUp /\ ends < MaxEnds
    /\ ends' = ends + 1
    /\ blob' = cp.vals
    /\ proc' = "clean"
    /\ UNCHANGED <<env, st, cp, run, snap, halted, paused, degraded, redisUp, feedVars>>

(* shutdown, then the process ends.                                         *)
Shutdown ==
    /\ Up /\ run.pc = "idle" /\ redisUp /\ ends < MaxEnds
    /\ ends' = ends + 1
    /\ blob' = st
    /\ proc' = "clean"
    /\ UNCHANGED <<env, st, cp, run, snap, halted, paused, degraded, redisUp, feedVars>>

(* The process dies, in the middle of a run too; or shutdown could not      *)
(* reach Redis, which it only logs.                                         *)
Crash ==
    /\ Up /\ ends < MaxEnds
    /\ ends' = ends + 1
    /\ proc' = "crashed"
    /\ run' = NoRun
    /\ UNCHANGED <<env, st, cp, snap, keyVars, feedVars>>

(* restore: only _state comes back, the checkpointer is new and empty.      *)
Restore ==
    /\ ~Up /\ redisUp
    /\ proc' = "up"
    /\ st' = IF blob = NoState THEN InitialState ELSE blob
    /\ cp' = NoCheckpoint
    /\ run' = NoRun
    /\ snap' = NoState
    /\ UNCHANGED <<ends, env, keyVars, feedVars>>

-----------------------------------------------------------------------------
(* What the other components write to Redis.                                *)

(* KillSwitchManager.trigger through POST /controls/kill.                   *)
ApiKill ==
    /\ redisUp /\ ~halted
    /\ halted' = TRUE
    /\ UNCHANGED <<graphVars, paused, degraded, blob, redisUp, feedVars>>

(* POST /controls/pause and /controls/resume.                               *)
ApiPause ==
    /\ env.pauses /\ redisUp
    /\ paused' = ~paused
    /\ UNCHANGED <<graphVars, halted, degraded, blob, redisUp, feedVars>>

(* Ingestion sets and clears DEGRADED_EXIT_ONLY.                            *)
Degrade ==
    /\ redisUp
    /\ degraded' = ~degraded
    /\ UNCHANGED <<graphVars, halted, paused, blob, redisUp, feedVars>>

(* publish_regime.                                                          *)
PublishRegime ==
    /\ redisUp
    /\ \E r \in {"calm", "chaos"} \ {regime} : regime' = r
    /\ run' = [run EXCEPT !.began = "changed"]
    /\ UNCHANGED <<st, cp, snap, procVars, keyVars, signal, published>>

(* SignalPublisher.publish: signal_dedup.lua refuses while halted.          *)
PublishSignal ==
    /\ redisUp /\ ~halted
    /\ published < MaxPublished
    /\ \E s \in {"free", "blocked"} : signal' = s
    /\ published' = published + 1
    /\ UNCHANGED <<graphVars, keyVars, regime>>

RedisToggles ==
    /\ env.outages
    /\ redisUp' = ~redisUp
    /\ UNCHANGED <<graphVars, halted, paused, degraded, blob, feedVars>>

Nodes == RegimeNode \/ SignalNode \/ SignalNodeRaises \/ RiskNode

Next ==
    \/ TakeSnapshot \/ BeginCycle \/ Nodes
    \/ ApproveHitl \/ RejectHitl \/ TriggerKillSwitch
    \/ Shutdown \/ Crash \/ Restore
    \/ ApiKill \/ ApiPause \/ Degrade
    \/ PublishRegime \/ PublishSignal
    \/ RedisToggles

(* The driver keeps calling run_cycle, a run goes on to its end, and a      *)
(* stopped process is restored.                                             *)
Fairness == WF_vars(BeginCycle) /\ WF_vars(Nodes) /\ WF_vars(Restore)

Spec == Init /\ [][Next]_vars /\ Fairness

-----------------------------------------------------------------------------
(* Every variable has its type.                                             *)
TypeOK ==
    /\ env \in Environments
    /\ st \in State /\ cp.vals \in State /\ run.vals \in State
    /\ snap \in State \cup {NoState} /\ blob \in State \cup {NoState}
    /\ cp.at \in {"none", "risk", "hitl", "kill"} /\ cp.next \in {"none", "hitl"}
    /\ run.pc \in {"idle", "regime", "signal", "risk"}
    /\ run.began \in {"none", "calm", "chaos", "changed"}
    /\ proc \in {"up", "clean", "crashed"} /\ ends \in 0..MaxEnds
    /\ {halted, paused, degraded, redisUp} \subseteq BOOLEAN
    /\ regime \in {"none", "calm", "chaos"} /\ signal \in {"none", "free", "blocked"}
    /\ published \in 0..MaxPublished

(* A signal is forwarded in this step.                                      *)
Forwards == run'.vals.signals > run.vals.signals /\ run.pc = "signal"

(* "never reset to False within a live session" (state.py): once the kill   *)
(* switch or the breaker is on in _state it stays on until the process      *)
(* ends, provided that kills and cycles do not overlap.                     *)
HaltLatched ==
    [][~env.overlap /\ Up /\ Up' => (st.kill => st'.kill) /\ (st.cb => st'.cb)]_vars

(* RULE 8: no approval is pending, in _state or in the checkpoint, once the *)
(* orchestrator is halted.                                                  *)
KillPreemptsHitl == ~env.overlap /\ Up /\ Stopped(st) => ~st.hitl /\ ~Interrupted

(* A halt in force at a clean shutdown is in force again after the restore, *)
(* and the day's counters go on from where they were.                       *)
HaltSurvivesRestart ==
    [][proc = "clean" /\ Up' => (Stopped(st) => Stopped(st')) /\ st'.signals = st.signals]_vars

(* RULE 2 (nodes.py: "market_regime == HIGH_VOL_CHAOS -> block"): nothing   *)
(* is forwarded in a cycle all through which the published regime was       *)
(* HIGH_VOL_CHAOS.                                                          *)
ChaosBlocksEntries ==
    [][Forwards => ~(run.began = "chaos" /\ regime = "chaos")]_vars

(* What is forwarded has passed every gate of signal_node.  The halt: once  *)
(* _state is halted, by kill or by breaker, no cycle forwards, after a      *)
(* restore too (cycles and kills not overlapping).  With entries in the     *)
(* format the nodes read: block_registry.py's "M18 must check is_blocked    *)
(* before forwarding any new-entry signal", and RULE 2 for a regime that    *)
(* held all through the cycle, while Redis does not fail.                   *)
ForwardedPassedGates ==
    [][Forwards => /\ ~env.overlap => ~Stopped(st)
                   /\ env.format = "plain" => signal # "blocked"
                   /\ env.format = "plain" /\ ~env.outages
                         => ~(run.began = "chaos" /\ regime = "chaos")]_vars

(* A kill through the API reaches the orchestrator's own state, whatever    *)
(* overlaps, crashes and outages come first, once Redis stays up.           *)
ApiKillReachesGraph == <>[]redisUp => (halted ~> st.kill)

(* controls.py: "The orchestrator (M18) must check this key before          *)
(* forwarding any new-entry signal".                                        *)
PausedBlocksEntries == [][Forwards => ~paused]_vars
=============================================================================
