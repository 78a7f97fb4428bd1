-------------------------- MODULE HeartbeatMonitor --------------------------
(***************************************************************************)
(* M19 monitor (shared/monitor): MonitorAgent's polling thread and the     *)
(* HeartbeatChecker whose check_all fires the Tier 3 kill switch.          *)
(*                                                                         *)
(* Agents write their heartbeat to Redis, from their own process or        *)
(* through the monitor's; the checker keeps, per agent, the newest         *)
(* timestamp it has seen and a count of consecutive misses.                *)
(* Timestamps are modelled by their age in ticks, saturating at AgeCap, so *)
(* the clock itself is not part of the state.                              *)
(***************************************************************************)
EXTENDS Integers, FiniteSets

CONSTANTS
    Agents,
    Interval,       \* HeartbeatChecker._interval, in ticks
    PollEvery,      \* MonitorAgent._poll_interval, in ticks
    MaxMisses,      \* HeartbeatChecker._max_misses
    MaxLag,         \* bound: ticks one poll may take
    Wiring,         \* "protocol": trigger_tier3(reason); "manager": KillSwitchManager
    Environments    \* the deployments and faults under test

(* agents: those add_watched_agent was called for; local: they beat through *)
(* the monitor's own process; punctual: while alive they beat at least once *)
(* per Interval; outages: Redis may fail; restarts: the operator may stop   *)
(* and start the monitor; slowJoin: stop() may give up on a poll that is    *)
(* still running.                                                           *)
Environment == [agents : SUBSET Agents, local : BOOLEAN, punctual : BOOLEAN,
                outages : BOOLEAN, restarts : BOOLEAN, slowJoin : BOOLEAN]

ASSUME MonitorAssumption ==
    /\ Interval \in Nat \ {0} /\ PollEvery \in Nat \ {0}
    /\ MaxMisses \in Nat \ {0} /\ MaxLag \in Nat
    /\ Wiring \in {"protocol", "manager"}
    /\ Environments \subseteq Environment

(* Bound: ages beyond every threshold are not told apart.                   *)
AgeCap == Interval + MaxMisses * (PollEvery + MaxLag) + MaxLag + 1

VARIABLES
    env,       \* the environment of this behaviour, fixed from the start
    alive,     \* the agent process is running
    beatAge,   \* age of monitor:heartbeat:<agent> in Redis
    unread,    \* that value is newer than the checker's record
    recAge,    \* age of HeartbeatRecord.last_seen_ms
    missed,    \* HeartbeatRecord.missed_count, saturating at MaxMisses
    fired,     \* ghost: agents for which _trigger_kill was called
    halted,    \* system:status:halted
    redisUp,
    thread,    \* the polling thread: "none", "poll", "wait", "exited"
    todo,      \* agents check_all has still to visit in this poll
    current,   \* {agent} between its age computation and its count
    stale,     \* age_seconds > interval, for current
    lag,       \* ticks since the ts_ms of this poll
    waited,    \* ticks since the poll ended
    stopSet,   \* MonitorAgent._stop_event
    joining,   \* a stop() is waiting for the thread
    wanted     \* ghost: the last lifecycle call was start()

agentVars  == <<env, alive, beatAge, unread>>
recordVars == <<recAge, missed, fired, halted>>
pollVars   == <<todo, current, stale, lag, waited>>
lifeVars   == <<stopSet, joining, wanted>>
vars == <<agentVars, recordVars, redisUp, thread, pollVars, lifeVars>>

Watched == env.agents

Older(age) == IF age = AgeCap THEN age ELSE age + 1

(* add_watched_agent for every agent, then start().                         *)
Init ==
    /\ env \in Environments
    /\ alive = [a \in Watched |-> TRUE]
    /\ beatAge = [a \in Watched |-> 0]
    /\ unread = [a \in Watched |-> FALSE]
    /\ recAge = [a \in Watched |-> 0]
    /\ missed = [a \in Watched |-> 0]
    /\ fired = {}
    /\ halted = FALSE
    /\ redisUp = TRUE
    /\ thread = "none"
    /\ todo = {} /\ current = {} /\ stale = FALSE /\ lag = 0 /\ waited = 0
    /\ stopSet = FALSE /\ joining = FALSE /\ wanted = FALSE

-----------------------------------------------------------------------------
(* The agents, Redis and time.                                              *)

(* register_heartbeat in another process: only the Redis key is shared, and *)
(* a failed write is logged and dropped.                                    *)
RemoteBeat(a) ==
    /\ ~env.local /\ alive[a]
    /\ IF redisUp
          THEN beatAge' = [beatAge EXCEPT ![a] = 0] /\ unread' = [unread EXCEPT ![a] = TRUE]
          ELSE UNCHANGED <<beatAge, unread>>
    /\ UNCHANGED <<env, alive, recordVars, redisUp, thread, pollVars, lifeVars>>

(* MonitorAgent.register_heartbeat: the record is reset as well.            *)
LocalBeat(a) ==
    /\ env.local /\ alive[a]
    /\ beatAge' = IF redisUp THEN [beatAge EXCEPT ![a] = 0] ELSE beatAge
    /\ unread' = [unread EXCEPT ![a] = FALSE]
    /\ recAge' = [recAge EXCEPT ![a] = 0]
    /\ missed' = [missed EXCEPT ![a] = 0]
    /\ UNCHANGED <<env, alive, fired, halted, redisUp, thread, pollVars, lifeVars>>

AgentCrash(a) ==
    /\ alive[a]
    /\ alive' = [alive EXCEPT ![a] = FALSE]
    /\ UNCHANGED <<env, beatAge, unread, recordVars, redisUp, thread, pollVars, lifeVars>>

RedisToggles ==
    /\ env.outages
    /\ redisUp' = ~redisUp
    /\ UNCHANGED <<agentVars, recordVars, thread, pollVars, lifeVars>>

Tick ==
    /\ thread = "poll" => lag < MaxLag
    /\ thread = "wait" => waited < PollEvery
    /\ env.punctual => \A a \in Watched : alive[a] => beatAge[a] < Interval
    /\ beatAge' = [a \in Watched |-> Older(beatAge[a])]
    /\ recAge' = [a \in Watched |-> Older(recAge[a])]
    /\ lag' = IF thread = "poll" THEN lag + 1 ELSE lag
    /\ waited' = IF thread = "wait" THEN waited + 1 ELSE waited
    /\ UNCHANGED <<env, alive, unread, missed, fired, halted, redisUp, thread, todo,
                   current, stale, lifeVars>>

-----------------------------------------------------------------------------
(* MonitorAgent._run_loop and HeartbeatChecker.check_all.                   *)

BeginPoll ==
    /\ thread = "wait" /\ waited = PollEvery /\ ~stopSet
    /\ thread' = "poll"
    /\ todo' = Watched
    /\ lag' = 0
    /\ UNCHANGED <<agentVars, recordVars, redisUp, current, stale, waited, lifeVars>>

(* Mutant: the Redis timestamp is taken over but the misses are kept.       *)
RefreshAgentMutant(a) ==
    /\ thread = "poll" /\ a \in todo /\ current = {}
    /\ LET newer == redisUp /\ unread[a]
       IN  /\ recAge' = [recAge EXCEPT ![a] = IF newer THEN beatAge[a] ELSE @]
           /\ unread' = [unread EXCEPT ![a] = @ /\ ~redisUp]
    /\ stale' = (recAge'[a] - lag > Interval)
    /\ current' = {a}
    /\ todo' = todo \ {a}
    /\ UNCHANGED <<env, alive, beatAge, missed, fired, halted, redisUp, thread, lag, waited, lifeVars>>

(* Mutant: a heartbeat exactly one interval old is already late.            *)
RefreshAgentLateMutant(a) ==
    /\ thread = "poll" /\ a \in todo /\ current = {}
    /\ LET newer == redisUp /\ unread[a]
       IN  /\ recAge' = [recAge EXCEPT ![a] = IF newer THEN beatAge[a] ELSE @]
           /\ missed' = [missed EXCEPT ![a] = IF newer THEN 0 ELSE @]
           /\ unread' = [unread EXCEPT ![a] = @ /\ ~redisUp]
    /\ stale' = (recAge'[a] - lag >= Interval)
    /\ current' = {a}
    /\ todo' = todo \ {a}
    /\ UNCHANGED <<env, alive, beatAge, fired, halted, redisUp, thread, lag, waited, lifeVars>>

(* _refresh_from_redis, then age_seconds against the ts_ms of the poll.     *)
RefreshAgent(a) ==
    /\ thread = "poll" /\ a \in todo /\ current = {}
    /\ LET newer == redisUp /\ unread[a]
       IN  /\ recAge' = [recAge EXCEPT ![a] = IF newer THEN beatAge[a] ELSE @]
           /\ missed' = [missed EXCEPT ![a] = IF newer THEN 0 ELSE @]
           /\ unread' = [unread EXCEPT ![a] = @ /\ ~redisUp]
    /\ stale' = (recAge'[a] - lag > Interval)
    /\ current' = {a}
    /\ todo' = todo \ {a}
    /\ UNCHANGED <<env, alive, beatAge, fired, halted, redisUp, thread, lag, waited, lifeVars>>

(* _trigger_kill: an object with the protocol's signature sets the halted   *)
(* key; KillSwitchManager.trigger_tier3 takes (agent_name,                  *)
(* missed_heartbeats), so the call raises TypeError, which is swallowed.    *)
TriggerKill(a) ==
    /\ fired' = fired \cup {a}
    /\ halted' = (halted \/ (Wiring = "protocol" /\ redisUp))

(* Mutant: the kill fires only when the count passes the limit.             *)
CountAgentMutant(a) ==
    /\ current = {a}
    /\ current' = {}
    /\ missed' = [missed EXCEPT ![a] =
            IF ~stale THEN 0 ELSE IF @ < MaxMisses THEN @ + 1 ELSE @]
    /\ IF stale /\ missed'[a] > MaxMisses
          THEN TriggerKill(a)
          ELSE UNCHANGED <<fired, halted>>
    /\ UNCHANGED <<agentVars, recAge, redisUp, thread, todo, stale, lag, waited, lifeVars>>

(* The rest of check_all's loop body for the agent.                         *)
CountAgent(a) ==
    /\ current = {a}
    /\ current' = {}
    /\ missed' = [missed EXCEPT ![a] =
            IF ~stale THEN 0 ELSE IF @ < MaxMisses THEN @ + 1 ELSE @]
    /\ IF stale /\ missed'[a] >= MaxMisses
          THEN TriggerKill(a)
          ELSE UNCHANGED <<fired, halted>>
    /\ UNCHANGED <<agentVars, recAge, redisUp, thread, todo, stale, lag, waited, lifeVars>>

EndPoll ==
    /\ thread = "poll" /\ todo = {} /\ current = {}
    /\ thread' = "wait"
    /\ waited' = 0
    /\ UNCHANGED <<agentVars, recordVars, redisUp, todo, current, stale, lag, lifeVars>>

(* _stop_event.wait returns at once when the event is set.                  *)
LoopExit ==
    /\ thread = "wait" /\ stopSet
    /\ thread' = "exited"
    /\ UNCHANGED <<agentVars, recordVars, redisUp, pollVars, lifeVars>>

-----------------------------------------------------------------------------
(* start() and stop().                                                      *)

(* Mutant: the stop event of the last stop() is not cleared.                *)
StartMutant ==
    /\ ~wanted /\ ~joining /\ (env.restarts \/ thread = "none")
    /\ wanted' = TRUE
    /\ IF thread \in {"none", "exited"}
          THEN /\ thread' = "poll"
               /\ todo' = Watched
               /\ lag' = 0
          ELSE UNCHANGED <<thread, todo, lag>>
    /\ UNCHANGED <<agentVars, recordVars, redisUp, current, stale, waited, stopSet, joining>>

(* A live thread makes start() a no-op that only logs; otherwise the event  *)
(* is cleared and a new thread polls at once.                               *)
Start ==
    /\ ~wanted /\ ~joining /\ (env.restarts \/ thread = "none")
    /\ wanted' = TRUE
    /\ IF thread \in {"none", "exited"}
          THEN /\ stopSet' = FALSE
               /\ thread' = "poll"
               /\ todo' = Watched
               /\ lag' = 0
          ELSE UNCHANGED <<stopSet, thread, todo, lag>>
    /\ UNCHANGED <<agentVars, recordVars, redisUp, current, stale, waited, joining>>

StopBegin ==
    /\ env.restarts /\ wanted
    /\ stopSet' = TRUE
    /\ joining' = TRUE
    /\ wanted' = FALSE
    /\ UNCHANGED <<agentVars, recordVars, redisUp, thread, pollVars>>

(* join() returns when the thread has ended or the timeout has passed.      *)
StopReturn ==
    /\ joining
    /\ thread = "exited" \/ env.slowJoin
    /\ joining' = FALSE
    /\ UNCHANGED <<agentVars, recordVars, redisUp, thread, pollVars, stopSet, wanted>>

PollThread ==
    \/ BeginPoll \/ EndPoll \/ LoopExit
    \/ \E a \in Watched : RefreshAgent(a) \/ CountAgent(a)

Next ==
    \/ \E a \in Watched : RemoteBeat(a) \/ LocalBeat(a) \/ AgentCrash(a)
    \/ RedisToggles
    \/ Tick
    \/ PollThread
    \/ Start \/ StopBegin \/ StopReturn

(* The polling thread runs, the first start() is made and time passes; live *)
(* agents of a punctual system beat in time (Tick waits for them).          *)
Fairness ==
    /\ WF_vars(PollThread) /\ WF_vars(Tick)
    /\ WF_vars(Start /\ thread = "none")
    /\ \A a \in Agents : WF_vars(env.punctual /\ a \in Watched /\ (RemoteBeat(a) \/ LocalBeat(a)))

Spec == Init /\ [][Next]_vars /\ Fairness

-----------------------------------------------------------------------------
(* Every variable has its type.                                             *)
TypeOK ==
    /\ env \in Environments
    /\ alive \in [Watched -> BOOLEAN] /\ unread \in [Watched -> BOOLEAN]
    /\ beatAge \in [Watched -> 0..AgeCap] /\ recAge \in [Watched -> 0..AgeCap]
    /\ missed \in [Watched -> 0..MaxMisses]
    /\ fired \subseteq Watched /\ halted \in BOOLEAN /\ redisUp \in BOOLEAN
    /\ thread \in {"none", "poll", "wait", "exited"}
    /\ todo \subseteq Watched /\ current \subseteq Watched /\ Cardinality(current) <= 1
    /\ stale \in BOOLEAN /\ lag \in 0..MaxLag /\ waited \in 0..PollEvery
    /\ stopSet \in BOOLEAN /\ joining \in BOOLEAN /\ wanted \in BOOLEAN

(* No agent that beats at least once per interval is ever killed while      *)
(* Redis works, however its beats fall between the steps of check_all and   *)
(* however often the monitor is stopped and started.                        *)
PunctualNeverKilled ==
    env.punctual /\ ~env.outages => \A a \in Watched : alive[a] => a \notin fired

(* Tier 3 fires after MaxMisses consecutive misses (heartbeat.py): since    *)
(* the polls of one thread are PollEvery apart, the last heartbeat of an    *)
(* agent in another process is then more than Interval + (MaxMisses - 1) *  *)
(* PollEvery older than the poll, whatever Redis has missed.                *)
NoHastyKill ==
    [][~env.local /\ ~env.restarts =>
        \A a \in fired' \ fired :
            recAge[a] - lag > Interval + (MaxMisses - 1) * PollEvery]_vars

(* While Redis works a crashed agent halts the system (heartbeat.py:        *)
(* "missed 2 consecutive heartbeats -> invokes Kill Switch").               *)
DeadAgentHalts ==
    \A a \in Agents :
        ~env.outages /\ ~env.restarts /\ a \in Watched /\ ~alive[a] ~> halted

(* start(): "The thread runs poll_once() every poll_interval_seconds until  *)
(* stop() is called", unless a poll outlasts the timeout of stop().         *)
StartedKeepsPolling ==
    ~env.slowJoin /\ wanted => thread \in {"poll", "wait"} /\ ~stopSet
=============================================================================
