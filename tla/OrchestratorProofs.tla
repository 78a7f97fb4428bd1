------------------------- MODULE OrchestratorProofs -------------------------
(***************************************************************************)
(* Proofs about the orchestrator's graph, for any set of deployments and   *)
(* any bounds: a halt is latched, preempts a pending approval, survives a  *)
(* clean restart, and what signal_node forwards has passed its gates.      *)
(***************************************************************************)
EXTENDS Orchestrator, TLAPS

(* TypeOK with the records cp and run complete                              *)
Typed ==
    /\ TypeOK
    /\ cp \in [at : {"none", "risk", "hitl", "kill"}, next : {"none", "hitl"}, vals : State]
    /\ run \in [pc : {"idle", "regime", "signal", "risk"}, vals : State,
                began : {"none", "calm", "chaos", "changed"}]

(* Only a checkpoint carries a request for approval: _state is replaced at  *)
(* the end of a run, when the request has been answered or overruled.       *)
NoHitlInState == ~st.hitl /\ (blob # NoState => ~blob.hitl)

(* A run takes the snapshot, and the process ends without one.              *)
RunTakesSnapshot ==
    /\ run.pc # "idle" => snap = NoState
    /\ ~Up => run.pc = "idle"

(* What is in the hands of the driver or of a run is at least as halted as  *)
(* _state.                                                                  *)
AtLeast(s) == (st.kill => s.kill) /\ (st.cb => s.cb)
HaltCarried ==
    ~env.overlap => /\ snap # NoState => AtLeast(snap)
                    /\ run.pc # "idle" => AtLeast(run.vals)

(* A checkpoint that risk_node wrote belongs to a system that is not        *)
(* halted, and the only one with something to run is such a one.            *)
RiskCheckpointRuns ==
    /\ Interrupted => cp.at = "risk" /\ ~Stopped(cp.vals)
    /\ ~env.overlap /\ cp.at = "risk" => ~Stopped(st)

(* A clean shutdown leaves the state in Redis.                              *)
SavedWhenClean == proc = "clean" => blob = st

(* Without outages Redis is up, and behind regime_node the chaos of the     *)
(* stream is that of the run unless the stream has changed since.           *)
ChaosSeen ==
    /\ ~env.outages => redisUp
    /\ env.format = "plain" /\ ~env.outages /\ run.pc = "signal"
          /\ run.began = "chaos" /\ regime = "chaos" => run.vals.chaos

OInv == Typed /\ NoHitlInState /\ RunTakesSnapshot /\ HaltCarried
              /\ RiskCheckpointRuns /\ SavedWhenClean /\ ChaosSeen

-----------------------------------------------------------------------------
(* A saved state is not taken for a missing one.                            *)
LEMMA StateIsNotNone == ASSUME NEW s \in State PROVE s # NoState
  <1>1. "kill" \in DOMAIN s
    BY DEF State
  <1>2. DOMAIN NoState = {"none"}
    BY DEF NoState
  <1> QED BY <1>1, <1>2

(* The updates of the nodes keep the type and what they promise.            *)
LEMMA NodeUpdates ==
    ASSUME NEW s \in State
    PROVE  /\ RiskUpdate(s) \in State /\ KillUpdate(s) \in State /\ HitlUpdate(s) \in State
           /\ RiskUpdate(s).kill = s.kill /\ (s.cb => RiskUpdate(s).cb)
           /\ KillUpdate(s).kill /\ ~KillUpdate(s).hitl /\ KillUpdate(s).cb = s.cb
           /\ ~HitlUpdate(s).hitl /\ HitlUpdate(s).kill = s.kill /\ HitlUpdate(s).cb = s.cb
  BY DEF State, RiskUpdate, KillUpdate, HitlUpdate, Stopped

(* The initial graph state                                                  *)
LEMMA InitialTyped ==
    /\ InitialState \in State /\ ~InitialState.hitl /\ ~Stopped(InitialState)
    /\ InitialState.signals = 0
  BY OrchestratorAssumption DEF InitialState, State, Stopped

(* The graph starts fresh and nothing is halted.                            *)
LEMMA OInitInv == Init => OInv
  <1> SUFFICES ASSUME Init PROVE OInv
    OBVIOUS
  <1> USE InitialTyped
  <1>1. Typed
    <2>1. /\ cp \in [at : {"none", "risk", "hitl", "kill"}, next : {"none", "hitl"}, vals : State]
          /\ run \in [pc : {"idle", "regime", "signal", "risk"}, vals : State,
                      began : {"none", "calm", "chaos", "changed"}]
      BY DEF Init, NoCheckpoint, NoRun
    <2>2. ends \in 0..MaxEnds /\ published \in 0..MaxPublished
      BY OrchestratorAssumption DEF Init
    <2>3. {halted, paused, degraded, redisUp} \subseteq BOOLEAN
      BY DEF Init
    <2> QED BY <2>1, <2>2, <2>3 DEF Init, Typed, TypeOK
  <1>2. NoHitlInState /\ RunTakesSnapshot /\ HaltCarried /\ RiskCheckpointRuns
        /\ SavedWhenClean /\ ChaosSeen
    BY DEF Init, NoHitlInState, RunTakesSnapshot, HaltCarried, RiskCheckpointRuns,
           SavedWhenClean, ChaosSeen, NoCheckpoint, NoRun, Up, Interrupted
  <1> QED BY <1>1, <1>2 DEF OInv

-----------------------------------------------------------------------------
(* One lemma per group of actions.                                          *)

(* The state of the next cycle is built from the current one.               *)
LEMMA SnapshotInv == OInv /\ TakeSnapshot => OInv'
  <1> SUFFICES ASSUME OInv, TakeSnapshot PROVE OInv'
    OBVIOUS
  <1> USE DEF OInv, TakeSnapshot, procVars, keyVars, feedVars
  <1>1. PICK loss, large \in BOOLEAN : snap' = [st EXCEPT !.loss = loss, !.large = large]
    OBVIOUS
  <1>2. snap' \in State /\ snap'.kill = st.kill /\ snap'.cb = st.cb
    BY <1>1 DEF Typed, TypeOK, State
  <1>3. Typed'
    BY <1>2 DEF Typed, TypeOK
  <1>4. NoHitlInState' /\ RunTakesSnapshot' /\ RiskCheckpointRuns' /\ SavedWhenClean' /\ ChaosSeen'
    BY DEF NoHitlInState, RunTakesSnapshot, RiskCheckpointRuns, SavedWhenClean, ChaosSeen,
           Up, Interrupted, Stopped
  <1>5. HaltCarried'
    BY <1>2 DEF HaltCarried, AtLeast
  <1> QED BY <1>3, <1>4, <1>5

(* A cycle begins, on that state if one was built.                          *)
LEMMA BeginInv == OInv /\ BeginCycle => OInv'
  <1> SUFFICES ASSUME OInv, BeginCycle PROVE OInv'
    OBVIOUS
  <1> USE DEF OInv, BeginCycle, procVars, keyVars, feedVars
  <1>1. /\ run'.pc = "regime" /\ run'.began = regime
        /\ run'.vals = IF snap = NoState THEN st ELSE snap
    OBVIOUS
  <1>2. run'.vals \in State /\ (~env.overlap => AtLeast(run'.vals))
    BY <1>1 DEF Typed, TypeOK, HaltCarried, AtLeast
  <1>3. Typed'
    BY <1>1, <1>2 DEF Typed, TypeOK
  <1>4. NoHitlInState' /\ RunTakesSnapshot' /\ RiskCheckpointRuns' /\ SavedWhenClean' /\ ChaosSeen'
    BY <1>1 DEF NoHitlInState, RunTakesSnapshot, RiskCheckpointRuns, SavedWhenClean, ChaosSeen,
           Up, Interrupted, Stopped
  <1>5. HaltCarried'
    BY <1>1, <1>2 DEF HaltCarried, AtLeast
  <1> QED BY <1>3, <1>4, <1>5

(* regime_node, and where its edge leads                                    *)
LEMMA RegimeInv == OInv /\ RegimeNode => OInv'
  <1> SUFFICES ASSUME OInv, RegimeNode PROVE OInv'
    OBVIOUS
  <1> USE DEF OInv, RegimeNode, procVars, keyVars, feedVars
  <1> DEFINE seen == IF redisUp /\ env.format = "plain" /\ regime # "none"
                     THEN regime = "chaos" ELSE run.vals.chaos
  <1>1. /\ run'.pc = "signal" /\ run'.began = run.began
        /\ run'.vals = [run.vals EXCEPT !.chaos = seen]
    BY DEF Typed, State
  <1>2. /\ run'.vals \in State /\ run'.vals.kill = run.vals.kill /\ run'.vals.cb = run.vals.cb
        /\ run'.vals.chaos = seen
    BY <1>1 DEF Typed, TypeOK, State
  <1>3. Typed'
    BY <1>1, <1>2 DEF Typed, TypeOK
  <1>4. NoHitlInState' /\ RunTakesSnapshot' /\ RiskCheckpointRuns' /\ SavedWhenClean'
    BY <1>1 DEF NoHitlInState, RunTakesSnapshot, RiskCheckpointRuns, SavedWhenClean,
           Up, Interrupted, Stopped
  <1>5. HaltCarried'
    BY <1>1, <1>2 DEF HaltCarried, AtLeast
  <1>6. ChaosSeen'
    BY <1>1, <1>2 DEF ChaosSeen
  <1> QED BY <1>3, <1>4, <1>5, <1>6

(* What signal_node makes of the run's values                               *)
LEMMA SignalUpdate ==
    ASSUME OInv, SignalNode
    PROVE  /\ run' \in [pc : {"risk"}, vals : State, began : {run.began}]
           /\ run.vals.kill => run'.vals.kill
           /\ run'.vals.cb = run.vals.cb
           /\ run'.vals.signals > run.vals.signals => ~Stopped(run.vals) /\ Consumes
  <1> DEFINE k == run.vals.kill \/ (~Stopped(run.vals) /\ halted)
             n == IF ~Stopped(run.vals) /\ ~halted /\ Consumes /\ run.vals.signals < MaxSignals
                  THEN run.vals.signals + 1 ELSE run.vals.signals
  <1>1. run.vals \in State /\ run \in [pc : {"idle", "regime", "signal", "risk"}, vals : State,
                                       began : {"none", "calm", "chaos", "changed"}]
    BY DEF OInv, Typed
  <1>2. run' = [run EXCEPT !.pc = "risk", !.vals = [run.vals EXCEPT !.kill = k, !.signals = n]]
    BY <1>1 DEF SignalNode, State
  <1>3. k \in BOOLEAN /\ n \in 0..MaxSignals
    BY <1>1, OrchestratorAssumption DEF OInv, Typed, TypeOK, State, Stopped
  <1> HIDE DEF k, n
  <1>4. /\ [run.vals EXCEPT !.kill = k, !.signals = n] \in State
        /\ [run.vals EXCEPT !.kill = k, !.signals = n].kill = k
        /\ [run.vals EXCEPT !.kill = k, !.signals = n].cb = run.vals.cb
        /\ [run.vals EXCEPT !.kill = k, !.signals = n].signals = n
    BY <1>1, <1>3 DEF State
  <1>5. /\ run'.vals = [run.vals EXCEPT !.kill = k, !.signals = n]
        /\ run' \in [pc : {"risk"}, vals : State, began : {run.began}]
    BY <1>1, <1>2, <1>4
  <1>6. run.vals.signals \in Nat
    BY <1>1, OrchestratorAssumption DEF State
  <1>7. n > run.vals.signals => ~Stopped(run.vals) /\ Consumes
    BY <1>6 DEF n
  <1> QED BY <1>4, <1>5, <1>7 DEF k

(* signal_node, in both its outcomes                                        *)
LEMMA SignalInv == OInv /\ (SignalNode \/ SignalNodeRaises) => OInv'
  <1> SUFFICES ASSUME OInv, SignalNode \/ SignalNodeRaises PROVE OInv'
    OBVIOUS
  <1> USE DEF OInv, procVars, keyVars, feedVars
  <1>1. /\ UNCHANGED <<st, cp, snap, procVars, keyVars, feedVars>>
        /\ run.pc = "signal"
    BY DEF SignalNode, SignalNodeRaises
  <1>2. /\ run' \in [pc : {"idle", "risk"}, vals : State,
                     began : {"none", "calm", "chaos", "changed"}]
        /\ run'.pc = "risk" => (run.vals.kill => run'.vals.kill) /\ run'.vals.cb = run.vals.cb
    <2>1. CASE SignalNode
      BY <2>1, SignalUpdate DEF Typed
    <2>2. CASE SignalNodeRaises
      BY <2>2, InitialTyped DEF SignalNodeRaises, NoRun
    <2> QED BY <2>1, <2>2
  <1>3. Typed'
    BY <1>1, <1>2 DEF Typed, TypeOK
  <1>4. /\ NoHitlInState' /\ RunTakesSnapshot' /\ RiskCheckpointRuns' /\ SavedWhenClean'
        /\ ChaosSeen'
    BY <1>1, <1>2 DEF NoHitlInState, RunTakesSnapshot, RiskCheckpointRuns, SavedWhenClean,
           ChaosSeen, Up, Interrupted, Stopped
  <1>5. HaltCarried'
    BY <1>1, <1>2 DEF HaltCarried, AtLeast
  <1> QED BY <1>3, <1>4, <1>5

(* The end of a run, and the outcomes of risk_node                          *)
LEMMA RiskOutcome ==
    ASSUME OInv, RiskNode
    PROVE  /\ cp' \in [at : {"risk", "hitl", "kill"}, next : {"none", "hitl"}, vals : State]
           /\ st' \in State /\ ~st'.hitl
           /\ ~env.overlap => (st.kill => st'.kill) /\ (st.cb => st'.cb)
           /\ cp'.next = "hitl" => cp'.at = "risk" /\ ~Stopped(cp'.vals)
           /\ ~env.overlap /\ cp'.at = "risk" => ~Stopped(st')
  <1> DEFINE s == RiskUpdate(run.vals)
  <1>1. /\ run.vals \in State /\ s \in State /\ st \in State /\ ~st.hitl
        /\ run.vals.kill = s.kill /\ (run.vals.cb => s.cb)
        /\ ~env.overlap => AtLeast(run.vals)
    BY NodeUpdates DEF OInv, Typed, TypeOK, HaltCarried, RiskNode, NoHitlInState
  <1>2. /\ KillUpdate(s) \in State /\ HitlUpdate(s) \in State
        /\ KillUpdate(s).kill /\ ~KillUpdate(s).hitl /\ KillUpdate(s).cb = s.cb
        /\ ~HitlUpdate(s).hitl /\ HitlUpdate(s).kill = s.kill /\ HitlUpdate(s).cb = s.cb
    BY <1>1, NodeUpdates
  <1>3. ~env.overlap => (st.kill => s.kill) /\ (st.cb => s.cb)
    BY <1>1 DEF AtLeast
  <1>4. /\ Route(s) = "kill" => Finish("kill", KillUpdate(s))
        /\ Route(s) = "hitl" /\ env.hitl =>
               cp' = [at |-> "risk", next |-> "hitl", vals |-> s] /\ st' = st
        /\ Route(s) = "hitl" /\ ~env.hitl => Finish("hitl", HitlUpdate(s))
        /\ Route(s) = "end" => Finish("risk", s)
    BY DEF RiskNode
  <1>5. /\ Route(s) \in {"kill", "hitl", "end"}
        /\ Route(s) # "kill" => ~Stopped(s)
        /\ Route(s) = "end" => ~s.hitl
    BY DEF Route
  <1> HIDE DEF s
  <1>6. CASE Route(s) = "kill"
    BY <1>1, <1>2, <1>3, <1>4, <1>6 DEF Finish
  <1>7. CASE Route(s) = "hitl" /\ env.hitl
    BY <1>1, <1>3, <1>4, <1>5, <1>7 DEF Stopped
  <1>8. CASE Route(s) = "hitl" /\ ~env.hitl
    BY <1>1, <1>2, <1>3, <1>4, <1>8 DEF Finish
  <1>9. CASE Route(s) = "end"
    BY <1>1, <1>3, <1>4, <1>5, <1>9 DEF Finish, Stopped
  <1> QED BY <1>5, <1>6, <1>7, <1>8, <1>9

(* risk_node and its checkpoint                                             *)
LEMMA RiskInv == OInv /\ RiskNode => OInv'
  <1> SUFFICES ASSUME OInv, RiskNode PROVE OInv'
    OBVIOUS
  <1> USE DEF OInv, procVars, keyVars, feedVars
  <1>1. /\ UNCHANGED <<snap, procVars, keyVars, feedVars>>
        /\ run.pc = "risk" /\ run' = NoRun /\ snap = NoState /\ Up
    BY DEF RiskNode, RunTakesSnapshot
  <1>2. NoRun \in [pc : {"idle"}, vals : State, began : {"none"}]
    BY InitialTyped DEF NoRun
  <1>3. Typed'
    BY <1>1, <1>2, RiskOutcome DEF Typed, TypeOK
  <1>4. NoHitlInState' /\ RunTakesSnapshot' /\ HaltCarried' /\ ChaosSeen'
    BY <1>1, <1>2, RiskOutcome DEF NoHitlInState, RunTakesSnapshot, HaltCarried, ChaosSeen, Up
  <1>5. RiskCheckpointRuns'
    BY <1>1, RiskOutcome DEF RiskCheckpointRuns, Interrupted
  <1>6. SavedWhenClean'
    BY <1>1 DEF SavedWhenClean, Up
  <1> QED BY <1>3, <1>4, <1>5, <1>6

(* The operator's three calls                                               *)
LEMMA OperatorOutcome ==
    ASSUME OInv, ApproveHitl \/ RejectHitl \/ TriggerKillSwitch
    PROVE  /\ cp' \in [at : {"none", "risk", "hitl", "kill"}, next : {"none", "hitl"},
                       vals : State]
           /\ st' \in State /\ ~st'.hitl
           /\ ~env.overlap => (st.kill => st'.kill) /\ (st.cb => st'.cb)
           /\ ~env.overlap => \/ (st'.kill => st.kill) /\ (st'.cb => st.cb)
                              \/ run.pc = "idle" /\ snap = NoState
           /\ cp'.next = "hitl" => cp'.at = "risk" /\ ~Stopped(cp'.vals)
           /\ ~env.overlap /\ cp'.at = "risk" => ~Stopped(st')
  <1>1. /\ st \in State /\ cp.vals \in State /\ ~st.hitl
        /\ cp \in [at : {"none", "risk", "hitl", "kill"}, next : {"none", "hitl"}, vals : State]
        /\ cp.next = "hitl" => cp.at = "risk" /\ ~Stopped(cp.vals)
        /\ ~env.overlap /\ cp.at = "risk" => ~Stopped(st)
    BY DEF OInv, Typed, TypeOK, NoHitlInState, RiskCheckpointRuns, Interrupted
  <1>2. CASE ApproveHitl
    <2>1. /\ HitlUpdate(cp.vals) \in State /\ ~HitlUpdate(cp.vals).hitl
          /\ ~Stopped(HitlUpdate(cp.vals))
      BY <1>1, <1>2, NodeUpdates DEF ApproveHitl, Interrupted, Stopped
    <2>2. cp.at = "risk"
      BY <1>1, <1>2 DEF ApproveHitl, Interrupted
    <2> QED BY <1>1, <1>2, <2>1, <2>2 DEF ApproveHitl, Finish, Stopped
  <1>3. CASE RejectHitl
    <2>1. /\ cp' = [cp EXCEPT !.vals = [cp.vals EXCEPT !.hitl = FALSE], !.next = "none"]
          /\ st' = st
      BY <1>1, <1>3 DEF RejectHitl
    <2>2. [cp.vals EXCEPT !.hitl = FALSE] \in State
      BY <1>1 DEF State
    <2>3. /\ cp' \in [at : {"none", "risk", "hitl", "kill"}, next : {"none", "hitl"}, vals : State]
          /\ cp'.next = "none" /\ cp'.at = cp.at
      BY <1>1, <2>1, <2>2
    <2> QED BY <1>1, <2>1, <2>3
  <1>4. CASE TriggerKillSwitch
    <2>1. /\ \A s \in {st, cp.vals} : /\ KillUpdate(s) \in State /\ KillUpdate(s).kill
                                     /\ ~KillUpdate(s).hitl /\ KillUpdate(s).cb = s.cb
          /\ ~env.overlap => run.pc = "idle" /\ snap = NoState
      BY <1>1, <1>4, NodeUpdates DEF TriggerKillSwitch
    <2>2. CASE cp.at = "none"
      BY <1>1, <1>4, <2>1, <2>2 DEF TriggerKillSwitch
    <2>3. CASE cp.at = "risk"
      BY <1>1, <1>4, <2>1, <2>3 DEF TriggerKillSwitch, Finish, Stopped
    <2>4. CASE cp.at \notin {"none", "risk"}
      <3>1. st' = KillUpdate(st) /\ cp' = [cp EXCEPT !.vals = KillUpdate(cp.vals)]
        BY <1>1, <1>4, <2>4 DEF TriggerKillSwitch
      <3>2. /\ cp' \in [at : {"none", "risk", "hitl", "kill"}, next : {"none", "hitl"}, vals : State]
            /\ cp'.next = cp.next /\ cp'.at = cp.at
        BY <1>1, <2>1, <3>1
      <3> QED BY <1>1, <2>1, <2>4, <3>1, <3>2
    <2> QED BY <2>2, <2>3, <2>4
  <1> QED BY <1>2, <1>3, <1>4

(* The operator approves, rejects or kills between cycles.                  *)
LEMMA OperatorInv == OInv /\ (ApproveHitl \/ RejectHitl \/ TriggerKillSwitch) => OInv'
  <1> SUFFICES ASSUME OInv, ApproveHitl \/ RejectHitl \/ TriggerKillSwitch PROVE OInv'
    OBVIOUS
  <1> USE DEF OInv, procVars, keyVars, feedVars
  <1>1. Up /\ UNCHANGED <<run, snap, procVars, keyVars, feedVars>>
    BY DEF ApproveHitl, RejectHitl, TriggerKillSwitch
  <1>2. Typed'
    BY <1>1, OperatorOutcome DEF Typed, TypeOK
  <1>3. NoHitlInState' /\ RunTakesSnapshot' /\ ChaosSeen' /\ SavedWhenClean'
    BY <1>1, OperatorOutcome
       DEF NoHitlInState, RunTakesSnapshot, ChaosSeen, SavedWhenClean, Up
  <1>4. RiskCheckpointRuns'
    BY <1>1, OperatorOutcome DEF RiskCheckpointRuns, Interrupted
  <1>5. HaltCarried'
    BY <1>1, OperatorOutcome DEF HaltCarried, AtLeast
  <1> QED BY <1>2, <1>3, <1>4, <1>5

(* The process is shut down, crashes or is restored.                        *)
LEMMA ProcessInv == OInv /\ (Shutdown \/ Crash \/ Restore) => OInv'
  <1> SUFFICES ASSUME OInv, Shutdown \/ Crash \/ Restore PROVE OInv'
    OBVIOUS
  <1> USE InitialTyped, OrchestratorAssumption DEF OInv, procVars, keyVars, feedVars
  <1>0. NoRun \in [pc : {"idle"}, vals : State, began : {"none"}]
        /\ NoCheckpoint \in [at : {"none"}, next : {"none"}, vals : State]
    BY DEF NoRun, NoCheckpoint
  <1>1. CASE Shutdown
    <2>1. Typed'
      BY <1>1 DEF Shutdown, Typed, TypeOK
    <2>2. NoHitlInState' /\ RunTakesSnapshot' /\ HaltCarried' /\ RiskCheckpointRuns'
          /\ SavedWhenClean' /\ ChaosSeen'
      BY <1>1 DEF Shutdown, NoHitlInState, RunTakesSnapshot, HaltCarried, AtLeast,
             RiskCheckpointRuns, Interrupted, Stopped, SavedWhenClean, ChaosSeen, Up
    <2> QED BY <2>1, <2>2
  <1>2. CASE Crash
    <2>1. Typed'
      BY <1>0, <1>2 DEF Crash, Typed, TypeOK
    <2>2. NoHitlInState' /\ RunTakesSnapshot' /\ HaltCarried' /\ RiskCheckpointRuns'
          /\ SavedWhenClean' /\ ChaosSeen'
      BY <1>0, <1>2 DEF Crash, NoHitlInState, RunTakesSnapshot, HaltCarried, AtLeast,
             RiskCheckpointRuns, Interrupted, Stopped, SavedWhenClean, ChaosSeen, Up
    <2> QED BY <2>1, <2>2
  <1>3. CASE Restore
    <2>1. st' \in State /\ ~st'.hitl
      BY <1>3 DEF Restore, Typed, TypeOK, NoHitlInState
    <2>2. Typed'
      BY <1>0, <1>3, <2>1 DEF Restore, Typed, TypeOK
    <2>3. NoHitlInState' /\ RunTakesSnapshot' /\ HaltCarried' /\ RiskCheckpointRuns'
          /\ SavedWhenClean' /\ ChaosSeen'
      BY <1>0, <1>3, <2>1 DEF Restore, NoHitlInState, RunTakesSnapshot, HaltCarried,
             RiskCheckpointRuns, Interrupted, SavedWhenClean, ChaosSeen, Up
    <2> QED BY <2>2, <2>3
  <1> QED BY <1>1, <1>2, <1>3

(* The API, the feeds and Redis touch neither graph nor checkpoint.         *)
LEMMA OthersInv ==
    OInv /\ (ApiKill \/ ApiPause \/ Degrade \/ PublishRegime \/ PublishSignal \/ RedisToggles
             \/ UNCHANGED vars) => OInv'
  <1> SUFFICES ASSUME OInv, \/ ApiKill \/ ApiPause \/ Degrade \/ PublishRegime \/ PublishSignal
                            \/ RedisToggles \/ UNCHANGED vars
               PROVE  OInv'
    OBVIOUS
  <1> USE DEF OInv, graphVars, procVars, keyVars, feedVars
  <1>1. /\ UNCHANGED <<env, st, cp, snap, proc, ends, blob>>
        /\ run'.pc = run.pc /\ run'.vals = run.vals
        /\ run' \in [pc : {"idle", "regime", "signal", "risk"}, vals : State,
                      began : {"none", "calm", "chaos", "changed"}]
    BY DEF Typed, ApiKill, ApiPause, Degrade, PublishRegime, PublishSignal, RedisToggles, vars
  <1>2. /\ regime' \in {"none", "calm", "chaos"} /\ signal' \in {"none", "free", "blocked"}
        /\ published' \in 0..MaxPublished
    BY OrchestratorAssumption
       DEF Typed, TypeOK, ApiKill, ApiPause, Degrade, PublishRegime, PublishSignal,
           RedisToggles, vars
  <1>b. halted \in BOOLEAN /\ paused \in BOOLEAN /\ degraded \in BOOLEAN /\ redisUp \in BOOLEAN
    BY Zenon DEF Typed, TypeOK
  <1>h. halted' \in {TRUE, halted}
    BY DEF ApiKill, ApiPause, Degrade, PublishRegime, PublishSignal, RedisToggles, vars
  <1>p. paused' = paused \/ paused' = ~paused
    BY DEF ApiKill, ApiPause, Degrade, PublishRegime, PublishSignal, RedisToggles, vars
  <1>d. degraded' = degraded \/ degraded' = ~degraded
    BY DEF ApiKill, ApiPause, Degrade, PublishRegime, PublishSignal, RedisToggles, vars
  <1>r. redisUp' = redisUp \/ redisUp' = ~redisUp
    BY DEF ApiKill, ApiPause, Degrade, PublishRegime, PublishSignal, RedisToggles, vars
  <1>k. {halted', paused', degraded', redisUp'} \subseteq BOOLEAN
    BY <1>b, <1>h, <1>p, <1>d, <1>r, Zenon
  <1>3. Typed'
    BY <1>1, <1>2, <1>k DEF Typed, TypeOK
  <1>4. NoHitlInState' /\ RunTakesSnapshot' /\ HaltCarried' /\ RiskCheckpointRuns'
        /\ SavedWhenClean'
    BY <1>1 DEF NoHitlInState, RunTakesSnapshot, HaltCarried, AtLeast, RiskCheckpointRuns,
           Interrupted, Stopped, SavedWhenClean, Up
  <1>5. \/ UNCHANGED <<run, regime>>
        \/ run'.began = "changed"
    BY <1>1 DEF Typed, ApiKill, ApiPause, Degrade, PublishRegime, PublishSignal, RedisToggles, vars
  <1>6. ~env.outages => redisUp' = redisUp
    BY DEF ApiKill, ApiPause, Degrade, PublishRegime, PublishSignal, RedisToggles, vars
  <1>7. ChaosSeen'
    BY <1>1, <1>5, <1>6 DEF ChaosSeen
  <1> QED BY <1>3, <1>4, <1>7

(* Every step of the graph, the process and its surroundings.               *)
LEMMA OStepInv == OInv /\ [Next]_vars => OInv'
  BY SnapshotInv, BeginInv, RegimeInv, SignalInv, RiskInv, OperatorInv, ProcessInv, OthersInv
     DEF Next, Nodes

(* The invariant holds of every behaviour.                                  *)
LEMMA OAlways == Spec => []OInv
  BY OInitInv, OStepInv, PTL DEF Spec

-----------------------------------------------------------------------------
(* Every variable of the orchestrator keeps its type.                       *)
THEOREM TypeCorrect == Spec => []TypeOK
  <1>1. OInv => TypeOK
    BY DEF OInv, Typed
  <1> QED BY <1>1, OAlways, PTL

(* RULE 8: once _state is halted no approval is pending, in _state or in    *)
(* the checkpoint (kills and cycles not overlapping).                       *)
THEOREM KillPreempts == Spec => []KillPreemptsHitl
  <1>1. OInv => KillPreemptsHitl
    BY DEF OInv, NoHitlInState, RiskCheckpointRuns, KillPreemptsHitl
  <1> QED BY <1>1, OAlways, PTL

(* A halt of _state is never reset while the process lives.                 *)
THEOREM HaltIsLatched == Spec => HaltLatched
  <1> DEFINE Latches == ~env.overlap /\ Up /\ Up' => (st.kill => st'.kill) /\ (st.cb => st'.cb)
  <1>1. OInv /\ [Next]_vars => Latches
    <2> SUFFICES ASSUME OInv, [Next]_vars, ~env.overlap, Up, Up'
                 PROVE  (st.kill => st'.kill) /\ (st.cb => st'.cb)
      OBVIOUS
    <2>1. CASE RiskNode
      BY <2>1, RiskOutcome
    <2>2. CASE ApproveHitl \/ RejectHitl \/ TriggerKillSwitch
      BY <2>2, OperatorOutcome
    <2>3. CASE UNCHANGED st
      BY <2>3
    <2> QED
      BY <2>1, <2>2, <2>3
         DEF Next, Nodes, vars, graphVars, TakeSnapshot, BeginCycle, RegimeNode, SignalNode,
             SignalNodeRaises, Shutdown, Crash, Restore, Up, ApiKill, ApiPause, Degrade,
             PublishRegime, PublishSignal, RedisToggles
  <1>2. [][Latches]_vars => HaltLatched
    BY PTL DEF HaltLatched
  <1> QED BY <1>1, <1>2, OAlways, PTL DEF Spec

(* A restore after a clean shutdown brings the halt and the counters back.  *)
THEOREM HaltOutlivesRestart == Spec => HaltSurvivesRestart
  <1> DEFINE Brings == proc = "clean" /\ Up' =>
                         (Stopped(st) => Stopped(st')) /\ st'.signals = st.signals
  <1>1. OInv /\ [Next]_vars => Brings
    <2> SUFFICES ASSUME OInv, [Next]_vars, proc = "clean", Up'
                 PROVE  (Stopped(st) => Stopped(st')) /\ st'.signals = st.signals
      OBVIOUS
    <2>1. Restore
      BY DEF Next, Nodes, vars, graphVars, procVars, TakeSnapshot, BeginCycle, RegimeNode,
             SignalNode, SignalNodeRaises, RiskNode, ApproveHitl, RejectHitl, TriggerKillSwitch,
             Shutdown, Crash, Up, ApiKill, ApiPause, Degrade, PublishRegime, PublishSignal,
             RedisToggles
    <2>2. blob = st /\ st \in State
      BY DEF OInv, SavedWhenClean, Typed, TypeOK
    <2>3. st' = st
      BY <2>1, <2>2, StateIsNotNone DEF Restore
    <2> QED BY <2>3
  <1>2. [][Brings]_vars => HaltSurvivesRestart
    BY PTL DEF HaltSurvivesRestart
  <1> QED BY <1>1, <1>2, OAlways, PTL DEF Spec

(* Whatever signal_node counts as forwarded has passed the halt, the block  *)
(* and the chaos gate.                                                      *)
THEOREM GatesHold == Spec => ForwardedPassedGates
  <1> DEFINE Passes ==
        Forwards => /\ ~env.overlap => ~Stopped(st)
                    /\ env.format = "plain" => signal # "blocked"
                    /\ env.format = "plain" /\ ~env.outages
                          => ~(run.began = "chaos" /\ regime = "chaos")
  <1>1. OInv /\ [Next]_vars => Passes
    <2> SUFFICES ASSUME OInv, [Next]_vars, Forwards
                 PROVE  /\ ~env.overlap => ~Stopped(st)
                        /\ env.format = "plain" => signal # "blocked"
                        /\ env.format = "plain" /\ ~env.outages
                              => ~(run.began = "chaos" /\ regime = "chaos")
      OBVIOUS
    <2>1. run.pc = "signal" /\ run'.vals.signals > run.vals.signals /\ run.vals.signals \in Nat
      BY OrchestratorAssumption DEF Forwards, OInv, Typed, State
    <2>2. run' # NoRun
      BY <2>1, InitialTyped DEF NoRun
    <2>3. run'.vals # run.vals
      BY <2>1
    <2>4. SignalNode
      BY <2>1, <2>2, <2>3
         DEF Next, Nodes, vars, graphVars, procVars, TakeSnapshot, BeginCycle, RegimeNode,
             SignalNodeRaises, RiskNode, ApproveHitl, RejectHitl, TriggerKillSwitch, Shutdown,
             Crash, Restore, ApiKill, ApiPause, Degrade, PublishRegime, PublishSignal,
             RedisToggles, OInv, Typed
    <2>5. ~Stopped(run.vals) /\ Consumes
      BY <2>1, <2>4, SignalUpdate
    <2>6. ~env.overlap => ~Stopped(st)
      BY <2>1, <2>5 DEF OInv, HaltCarried, AtLeast, Stopped
    <2>7. env.format = "plain" => signal # "blocked"
      BY <2>5 DEF Consumes, ReconciliationBlocks
    <2>8. env.format = "plain" /\ ~env.outages => ~(run.began = "chaos" /\ regime = "chaos")
      BY <2>1, <2>5 DEF OInv, ChaosSeen, Consumes
    <2> QED BY <2>6, <2>7, <2>8
  <1>2. [][Passes]_vars => ForwardedPassedGates
    BY PTL DEF ForwardedPassedGates
  <1> QED BY <1>1, <1>2, OAlways, PTL DEF Spec
=============================================================================
