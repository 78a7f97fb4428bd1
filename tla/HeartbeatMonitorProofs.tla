----------------------- MODULE HeartbeatMonitorProofs -----------------------
(***************************************************************************)
(* Proofs about the heartbeat monitor, for any agents, intervals, limits   *)
(* and environments: agents that beat in time are never killed, a kill is  *)
(* never hasty, and a started monitor polls until it is stopped.           *)
(***************************************************************************)
EXTENDS HeartbeatMonitor, FiniteSetTheorems, TLAPS

(* check_all works on one agent at a time, which it has taken off its list, *)
(* and only during a poll.                                                  *)
OneAtATime ==
    /\ current = {} \/ \E a \in Watched : current = {a}
    /\ todo \cap current = {}
    /\ thread # "poll" => todo = {} /\ current = {}

(* While Redis works the checker's record lags behind the heartbeat only    *)
(* when it has something to read.                                           *)
RecordCurrent ==
    ~env.outages => /\ redisUp
                    /\ \A a \in Watched : ~unread[a] => recAge[a] = beatAge[a]

(* A live agent that keeps its schedule has a fresh heartbeat, is found     *)
(* fresh by the poll, and is not among the killed.                          *)
PunctualFresh ==
    env.punctual =>
        \A a \in Watched : alive[a] =>
            /\ beatAge[a] <= Interval
            /\ ~env.outages => a \notin fired /\ (a \in current => ~stale)

(* stop() and start() alternate and the thread follows, as long as stop()   *)
(* waits for it.                                                            *)
ThreadFollows ==
    ~env.slowJoin =>
        /\ wanted => thread \in {"poll", "wait"} /\ ~stopSet
        /\ ~wanted /\ ~joining => thread \in {"none", "exited"}

(* Without restarts one thread runs, and nothing has been counted before.   *)
OneThread ==
    ~env.restarts =>
        /\ ~stopSet /\ thread # "exited"
        /\ thread = "none" => \A a \in Watched : missed[a] = 0

(* The age a record must exceed to be missed after k earlier misses.        *)
Due(k) == Interval + k * PollEvery

(* k misses were counted at polls PollEvery apart: the record of an agent   *)
(* this poll has still to count is older than Due(k), at the start of the   *)
(* poll, and that of one it has counted older than Due(k - 1).              *)
Pending(a) == thread = "poll" /\ a \in todo \cup current
Spaced(a) ==
    /\ missed[a] > 0 /\ Pending(a) => recAge[a] > Due(missed[a]) + lag
    /\ missed[a] > 0 /\ ~Pending(a) =>
           recAge[a] > Due(missed[a] - 1) + lag + (IF thread = "wait" THEN waited ELSE 0)
    /\ a \in current /\ stale => recAge[a] > Due(missed[a]) + lag
MissesSpaced == ~env.local /\ ~env.restarts => \A a \in Watched : Spaced(a)

HInv == TypeOK /\ OneAtATime /\ RecordCurrent /\ PunctualFresh /\ ThreadFollows
               /\ OneThread /\ MissesSpaced

-----------------------------------------------------------------------------
(* What the intervals add up to: ages saturate above every threshold.       *)
LEMMA DueFacts ==
    /\ AgeCap \in Nat /\ Interval < AgeCap /\ Interval \in Nat
    /\ PollEvery \in Nat /\ PollEvery > 0 /\ MaxMisses \in Nat /\ MaxMisses > 0 /\ MaxLag \in Nat
    /\ Due(0) = Interval
    /\ \A k \in 0..MaxMisses : Due(k) \in Nat /\ Due(k) + MaxLag < AgeCap
    /\ \A k \in 1..MaxMisses : /\ Due(k - 1) + PollEvery = Due(k)
                               /\ Due(k - 1) + MaxLag + PollEvery < AgeCap
  <1> USE MonitorAssumption
  <1>1. \A k \in 0..MaxMisses :
            k * PollEvery \in Nat /\ k * PollEvery <= MaxMisses * PollEvery
    <2> TAKE k \in 0..MaxMisses
    <2>1. k \in Nat /\ MaxMisses - k \in Nat /\ PollEvery \in Nat /\ MaxMisses \in Nat
      OBVIOUS
    <2>2. (MaxMisses - k) * PollEvery \in Nat /\ k * PollEvery \in Nat
      BY <2>1
    <2>3. MaxMisses * PollEvery = k * PollEvery + (MaxMisses - k) * PollEvery
      BY <2>1
    <2> QED BY <2>1, <2>2, <2>3
  <1>2. MaxMisses * (PollEvery + MaxLag) = MaxMisses * PollEvery + MaxMisses * MaxLag
    OBVIOUS
  <1>3. MaxMisses * MaxLag \in Nat /\ MaxMisses * PollEvery \in Nat
    OBVIOUS
  <1>4. \A k \in 1..MaxMisses : (k - 1) * PollEvery + PollEvery = k * PollEvery
    OBVIOUS
  <1>5. AgeCap = Interval + MaxMisses * PollEvery + MaxMisses * MaxLag + MaxLag + 1
    BY <1>2, <1>3 DEF AgeCap
  <1>6. AgeCap \in Nat /\ Interval < AgeCap
    BY <1>3, <1>5
  <1>7. \A k \in 0..MaxMisses : Due(k) \in Nat /\ Due(k) + MaxLag < AgeCap
    BY <1>1, <1>3, <1>5 DEF Due
  <1>8. \A k \in 1..MaxMisses : Due(k - 1) + PollEvery = Due(k)
    <2> TAKE k \in 1..MaxMisses
    <2>1. k - 1 \in 0..MaxMisses /\ k \in 0..MaxMisses
      OBVIOUS
    <2> DEFINE m == (k - 1) * PollEvery
    <2>2. m \in Nat /\ m + PollEvery = k * PollEvery
      BY <1>1, <1>4, <2>1
    <2>3. Due(k - 1) = Interval + m /\ Due(k) = Interval + (m + PollEvery)
      BY <2>2 DEF Due
    <2> HIDE DEF m
    <2> QED BY <2>2, <2>3
  <1>9. \A k \in 1..MaxMisses : Due(k - 1) + MaxLag + PollEvery < AgeCap
    <2> TAKE k \in 1..MaxMisses
    <2>1. k - 1 \in 0..MaxMisses /\ k \in 0..MaxMisses
      OBVIOUS
    <2> DEFINE d == Due(k - 1)
    <2>2. d \in Nat /\ d + PollEvery = Due(k) /\ Due(k) + MaxLag < AgeCap
      BY <1>7, <1>8, <2>1
    <2> HIDE DEF d
    <2>3. d + MaxLag + PollEvery < AgeCap
      BY <1>6, <2>2
    <2> QED BY <2>3 DEF d
  <1>10. Due(0) = Interval
    BY DEF Due
  <1> QED BY <1>6, <1>7, <1>8, <1>9, <1>10

(* The ages grow by one, or stay at the cap.                                *)
LEMMA OlderFacts ==
    ASSUME NEW n \in 0..AgeCap
    PROVE  /\ Older(n) \in 0..AgeCap
           /\ n < AgeCap => Older(n) = n + 1
           /\ n = AgeCap => Older(n) = AgeCap
  BY DueFacts DEF Older

-----------------------------------------------------------------------------
(* No thread polls and every agent is alive.                                *)
LEMMA HInitInv == Init => HInv
  <1> SUFFICES ASSUME Init PROVE HInv
    OBVIOUS
  <1> USE DueFacts, MonitorAssumption DEF Init
  <1>1. TypeOK
    <2>1. /\ alive \in [Watched -> BOOLEAN] /\ unread \in [Watched -> BOOLEAN]
          /\ halted \in BOOLEAN /\ redisUp \in BOOLEAN /\ stale \in BOOLEAN
          /\ stopSet \in BOOLEAN /\ joining \in BOOLEAN /\ wanted \in BOOLEAN
      BY Zenon
    <2>2. Cardinality(current) = 0
      BY FS_EmptySet
    <2>3. /\ beatAge \in [Watched -> 0..AgeCap] /\ recAge \in [Watched -> 0..AgeCap]
          /\ missed \in [Watched -> 0..MaxMisses] /\ lag \in 0..MaxLag /\ waited \in 0..PollEvery
      OBVIOUS
    <2> QED BY <2>1, <2>2, <2>3 DEF TypeOK
  <1>2. OneAtATime /\ RecordCurrent /\ PunctualFresh /\ ThreadFollows /\ OneThread
    BY DEF OneAtATime, RecordCurrent, PunctualFresh, ThreadFollows, OneThread
  <1>3. MissesSpaced
    BY DEF MissesSpaced, Spaced
  <1> QED BY <1>1, <1>2, <1>3 DEF HInv

(* A heartbeat, in whichever process, only makes things fresher.            *)
LEMMA BeatInv ==
    ASSUME HInv, NEW a \in Watched, RemoteBeat(a) \/ LocalBeat(a)
    PROVE  HInv'
  <1> USE DueFacts, MonitorAssumption DEF HInv, recordVars, pollVars, lifeVars, Watched
  <1>1. CASE RemoteBeat(a)
    <2> USE <1>1 DEF RemoteBeat
    <2>0. unread' \in [Watched -> BOOLEAN] /\ beatAge' \in [Watched -> 0..AgeCap]
      <3>1. /\ unread' = [unread EXCEPT ![a] = TRUE] \/ unread' = unread
            /\ beatAge' = [beatAge EXCEPT ![a] = 0] \/ beatAge' = beatAge
        OBVIOUS
      <3>2. unread \in [Watched -> BOOLEAN] /\ beatAge \in [Watched -> 0..AgeCap]
        BY DEF TypeOK
      <3>3. 0 \in 0..AgeCap
        OBVIOUS
      <3> HIDE DEF RemoteBeat, HInv
      <3> QED BY <3>1, <3>2, <3>3
    <2>1. TypeOK'
      BY <2>0, Zenon DEF TypeOK
    <2>2. OneAtATime' /\ ThreadFollows' /\ OneThread' /\ MissesSpaced'
      BY DEF OneAtATime, ThreadFollows, OneThread, MissesSpaced, Spaced, Pending
    <2>3. RecordCurrent' /\ PunctualFresh'
      BY DEF TypeOK, RecordCurrent, PunctualFresh
    <2> QED BY <2>1, <2>2, <2>3
  <1>2. CASE LocalBeat(a)
    <2> USE <1>2 DEF LocalBeat
    <2>1. TypeOK'
      BY DEF TypeOK
    <2>2. OneAtATime' /\ ThreadFollows' /\ OneThread' /\ MissesSpaced'
      BY DEF TypeOK, OneAtATime, ThreadFollows, OneThread, MissesSpaced
    <2>3. RecordCurrent' /\ PunctualFresh'
      BY DEF TypeOK, RecordCurrent, PunctualFresh
    <2> QED BY <2>1, <2>2, <2>3
  <1> QED BY <1>1, <1>2

(* An agent that stops beating is no longer punctual.                       *)
LEMMA CrashInv == ASSUME HInv, NEW a \in Watched, AgentCrash(a) PROVE HInv'
  <1> USE DEF HInv, recordVars, pollVars, lifeVars, AgentCrash, Watched
  <1>1. TypeOK'
    BY DEF TypeOK
  <1>2. OneAtATime' /\ ThreadFollows' /\ OneThread' /\ MissesSpaced' /\ RecordCurrent'
    BY DEF OneAtATime, ThreadFollows, OneThread, MissesSpaced, Spaced, Pending, RecordCurrent
  <1>3. PunctualFresh'
    BY DEF TypeOK, PunctualFresh
  <1> QED BY <1>1, <1>2, <1>3

(* Redis goes or comes back, or nothing happens.                            *)
LEMMA ToggleInv == HInv /\ (RedisToggles \/ UNCHANGED vars) => HInv'
  <1> SUFFICES ASSUME HInv, RedisToggles \/ UNCHANGED vars PROVE HInv'
    OBVIOUS
  <1> USE DEF HInv, vars, agentVars, recordVars, pollVars, lifeVars, RedisToggles, Watched
  <1>1. redisUp' \in BOOLEAN
    BY Zenon DEF TypeOK
  <1>2. TypeOK'
    BY <1>1 DEF TypeOK
  <1>3. OneAtATime' /\ ThreadFollows' /\ OneThread' /\ MissesSpaced' /\ PunctualFresh'
    BY DEF OneAtATime, ThreadFollows, OneThread, MissesSpaced, Spaced, Pending, PunctualFresh
  <1>4. RecordCurrent'
    BY DEF RecordCurrent
  <1> QED BY <1>2, <1>3, <1>4

(* Time passes: the record and the poll it is measured against age alike,   *)
(* and an agent due to beat stops the clock.                                *)
LEMMA TickInv == HInv /\ Tick => HInv'
  <1> SUFFICES ASSUME HInv, Tick PROVE HInv'
    OBVIOUS
  <1> USE DueFacts DEF HInv, lifeVars, Watched
  <1>1. TypeOK'
    BY OlderFacts, MonitorAssumption DEF Tick, TypeOK
  <1>2. OneAtATime' /\ ThreadFollows' /\ OneThread' /\ RecordCurrent'
    BY DEF Tick, OneAtATime, ThreadFollows, OneThread, RecordCurrent
  <1>3. PunctualFresh'
    BY OlderFacts DEF Tick, PunctualFresh, TypeOK
  <1>4. MissesSpaced'
    <2> SUFFICES ASSUME ~env.local, ~env.restarts, NEW a \in Watched PROVE Spaced(a)'
      BY DEF Tick, MissesSpaced
    <2>1. Spaced(a)
      BY DEF MissesSpaced
    <2>2. /\ missed[a] \in 0..MaxMisses /\ recAge[a] \in 0..AgeCap
          /\ lag \in 0..MaxLag /\ waited \in 0..PollEvery /\ lag' \in 0..MaxLag
          /\ waited' \in 0..PollEvery
      BY <1>1 DEF TypeOK, Tick
    <2>3. /\ recAge[a] < AgeCap => recAge'[a] = recAge[a] + 1
          /\ recAge[a] = AgeCap => recAge'[a] = AgeCap
      BY <2>2, OlderFacts DEF Tick, TypeOK
    <2>4. /\ thread' = thread /\ missed' = missed /\ todo' = todo /\ current' = current
          /\ stale' = stale /\ env' = env
          /\ lag' = IF thread = "poll" THEN lag + 1 ELSE lag
          /\ waited' = IF thread = "wait" THEN waited + 1 ELSE waited
      BY DEF Tick
    <2>5. Pending(a)' = Pending(a)
      BY <2>4 DEF Pending
    <2>6. a \in current => thread = "poll"
      BY DEF OneAtATime
    <2>7. missed[a] > 0 /\ Pending(a) => recAge'[a] > Due(missed[a]) + lag'
      BY <2>1, <2>2, <2>3, <2>4 DEF Spaced, Pending
    <2>8. a \in current /\ stale => recAge'[a] > Due(missed[a]) + lag'
      BY <2>1, <2>2, <2>3, <2>4, <2>6 DEF Spaced
    <2>9. missed[a] > 0 /\ ~Pending(a) =>
            recAge'[a] > Due(missed[a] - 1) + lag' + (IF thread = "wait" THEN waited' ELSE 0)
      <3> SUFFICES ASSUME missed[a] > 0, ~Pending(a)
                   PROVE  recAge'[a] > Due(missed[a] - 1) + lag'
                                        + (IF thread = "wait" THEN waited' ELSE 0)
        OBVIOUS
      <3>1. /\ Due(missed[a] - 1) + MaxLag + PollEvery < AgeCap
            /\ Due(missed[a] - 1) \in Nat
        BY <2>2
      <3> DEFINE d == Due(missed[a] - 1)
      <3>2. d \in Nat /\ d + MaxLag + PollEvery < AgeCap
            /\ recAge[a] > d + lag + (IF thread = "wait" THEN waited ELSE 0)
        BY <2>1, <3>1 DEF Spaced
      <3> HIDE DEF d
      <3>3. recAge'[a] > d + lag' + (IF thread = "wait" THEN waited' ELSE 0)
        BY <2>2, <2>3, <2>4, <3>2
      <3> QED BY <3>3 DEF d
    <2> QED BY <2>4, <2>5, <2>7, <2>8, <2>9 DEF Spaced
  <1> QED BY <1>1, <1>2, <1>3, <1>4

(* A poll begins PollEvery after the last one ended: the misses counted so  *)
(* far are due again.                                                       *)
LEMMA BeginInv == HInv /\ BeginPoll => HInv'
  <1> SUFFICES ASSUME HInv, BeginPoll PROVE HInv'
    OBVIOUS
  <1> USE DueFacts DEF HInv, BeginPoll, agentVars, recordVars, lifeVars, Watched
  <1>1. TypeOK'
    BY DEF TypeOK
  <1>2. OneAtATime' /\ ThreadFollows' /\ OneThread' /\ RecordCurrent' /\ PunctualFresh'
    BY DEF OneAtATime, ThreadFollows, OneThread, RecordCurrent, PunctualFresh
  <1>3. MissesSpaced'
    <2> SUFFICES ASSUME ~env.local, ~env.restarts, NEW a \in Watched PROVE Spaced(a)'
      BY DEF MissesSpaced
    <2>1. Spaced(a) /\ ~Pending(a) /\ current = {}
      BY DEF MissesSpaced, Pending, OneAtATime
    <2>2. missed[a] \in 0..MaxMisses /\ recAge[a] \in 0..AgeCap /\ lag \in 0..MaxLag
      BY DEF TypeOK
    <2>3. missed[a] > 0 => recAge[a] > Due(missed[a])
      <3> SUFFICES ASSUME missed[a] > 0 PROVE recAge[a] > Due(missed[a])
        OBVIOUS
      <3> DEFINE d == Due(missed[a] - 1)
      <3>1. d \in Nat /\ d + PollEvery = Due(missed[a]) /\ recAge[a] > d + lag + PollEvery
        BY <2>1, <2>2 DEF Spaced
      <3> HIDE DEF d
      <3> QED BY <2>2, <3>1
    <2>4. Pending(a)'
      BY DEF Pending
    <2>5. Due(missed[a]) \in Nat /\ missed' = missed /\ recAge' = recAge /\ lag' = 0
          /\ current' = {}
      BY <2>1, <2>2
    <2> QED BY <2>3, <2>4, <2>5 DEF Spaced
  <1> QED BY <1>1, <1>2, <1>3

(* The poll takes up an agent: what Redis has is read before it is judged.  *)
LEMMA RefreshInv == ASSUME HInv, NEW a \in Watched, RefreshAgent(a) PROVE HInv'
  <1> USE DueFacts DEF HInv, lifeVars, Watched
  <1>1. /\ missed' = [missed EXCEPT ![a] = IF redisUp /\ unread[a] THEN 0 ELSE @]
        /\ recAge' = [recAge EXCEPT ![a] = IF redisUp /\ unread[a] THEN beatAge[a] ELSE @]
        /\ unread' = [unread EXCEPT ![a] = @ /\ ~redisUp]
        /\ stale' = (recAge'[a] - lag > Interval)
        /\ current' = {a} /\ todo' = todo \ {a} /\ thread = "poll" /\ a \in todo /\ current = {}
        /\ UNCHANGED <<env, alive, beatAge, fired, halted, redisUp, thread, lag, waited>>
        /\ UNCHANGED <<stopSet, joining, wanted>>
    BY DEF RefreshAgent
  <1>s. stale' => recAge'[a] - lag > Interval
    <2> DEFINE late == recAge'[a] - lag > Interval
    <2>1. stale' = late
      BY <1>1
    <2> HIDE DEF late
    <2>2. stale' => late
      BY <2>1, Zenon
    <2> QED BY <2>2 DEF late
  <1>2. TypeOK'
    <2>1. missed' \in [Watched -> 0..MaxMisses] /\ recAge' \in [Watched -> 0..AgeCap]
      BY <1>1 DEF TypeOK
    <2>2. unread' \in [Watched -> BOOLEAN] /\ stale' \in BOOLEAN
      <3>1. (unread[a] /\ ~redisUp) \in BOOLEAN /\ (recAge'[a] - lag > Interval) \in BOOLEAN
        OBVIOUS
      <3>2. unread \in [Watched -> BOOLEAN]
        BY DEF TypeOK
      <3> QED BY <1>1, <3>1, <3>2, Zenon
    <2>3. Cardinality(current') = 1
      BY <1>1, FS_Singleton
    <2> QED BY <1>1, <2>1, <2>2, <2>3 DEF TypeOK
  <1>3. OneAtATime' /\ ThreadFollows'
    BY <1>1 DEF OneAtATime, ThreadFollows
  <1>4. OneThread'
    BY <1>1 DEF OneThread, TypeOK
  <1>5. RecordCurrent'
    BY <1>1 DEF RecordCurrent, TypeOK
  <1>6. PunctualFresh'
    <2>1. ~env.outages => recAge'[a] = beatAge[a]
      BY <1>1 DEF RecordCurrent, TypeOK
    <2>2. env.punctual /\ ~env.outages /\ alive[a] => ~(recAge'[a] - lag > Interval)
      BY <1>1, <2>1 DEF PunctualFresh, TypeOK
    <2>3. env.punctual /\ ~env.outages /\ alive[a] => ~stale'
      BY <1>s, <2>2
    <2> QED BY <1>1, <2>3 DEF PunctualFresh
  <1>7. MissesSpaced'
    <2> SUFFICES ASSUME ~env.local, ~env.restarts, NEW b \in Watched PROVE Spaced(b)'
      BY <1>1 DEF MissesSpaced
    <2>1. Spaced(b) /\ Spaced(a)
      BY DEF MissesSpaced
    <2>2. CASE b # a
      <3>1. missed'[b] = missed[b] /\ recAge'[b] = recAge[b] /\ (Pending(b)' <=> Pending(b))
            /\ b \notin current'
        BY <1>1, <2>2 DEF TypeOK, Pending
      <3> QED BY <1>1, <2>1, <3>1 DEF Spaced
    <2>3. CASE b = a
      <3>1. Pending(a) /\ Pending(a)'
        BY <1>1 DEF Pending
      <3>2. /\ missed'[a] = IF redisUp /\ unread[a] THEN 0 ELSE missed[a]
            /\ recAge'[a] = IF redisUp /\ unread[a] THEN beatAge[a] ELSE recAge[a]
            /\ recAge'[a] \in Nat /\ lag \in Nat /\ missed[a] \in 0..MaxMisses
        BY <1>1, <1>2 DEF TypeOK
      <3>3. missed'[a] > 0 => recAge'[a] > Due(missed'[a]) + lag
        BY <2>1, <3>1, <3>2 DEF Spaced
      <3>4. stale' => recAge'[a] > Due(missed'[a]) + lag
        BY <1>s, <3>2, <3>3
      <3> QED BY <1>1, <2>3, <3>1, <3>3, <3>4 DEF Spaced
    <2> QED BY <2>2, <2>3
  <1> QED BY <1>2, <1>3, <1>4, <1>5, <1>6, <1>7

(* The poll counts the agent, and may kill.                                 *)
LEMMA CountInv == ASSUME HInv, NEW a \in Watched, CountAgent(a) PROVE HInv'
  <1> USE DueFacts DEF HInv, lifeVars, agentVars, Watched
  <1>1. /\ missed' = [missed EXCEPT ![a] =
                IF ~stale THEN 0 ELSE IF @ < MaxMisses THEN @ + 1 ELSE @]
        /\ current = {a} /\ current' = {} /\ fired' \in {fired, fired \cup {a}}
        /\ ~stale => fired' = fired
        /\ UNCHANGED <<env, alive, beatAge, unread, recAge, redisUp, thread, todo, stale, lag,
                       waited>>
        /\ UNCHANGED <<stopSet, joining, wanted>>
    BY DEF CountAgent, TriggerKill
  <1>2. TypeOK'
    <2>1. missed' \in [Watched -> 0..MaxMisses]
      BY <1>1 DEF TypeOK
    <2>2. halted' = halted \/ halted' \in BOOLEAN
      BY DEF CountAgent, TriggerKill
    <2>3. halted' \in BOOLEAN
      BY <2>2, Zenon DEF TypeOK
    <2>4. Cardinality(current') = 0
      BY <1>1, FS_EmptySet
    <2>5. fired' \subseteq Watched
      BY <1>1 DEF TypeOK
    <2> QED BY <1>1, <2>1, <2>3, <2>4, <2>5 DEF TypeOK
  <1>3. OneAtATime' /\ ThreadFollows' /\ RecordCurrent'
    BY <1>1 DEF OneAtATime, ThreadFollows, RecordCurrent
  <1>4. OneThread'
    BY <1>1 DEF OneThread, OneAtATime
  <1>5. PunctualFresh'
    BY <1>1 DEF PunctualFresh
  <1>6. MissesSpaced'
    <2> SUFFICES ASSUME ~env.local, ~env.restarts, NEW b \in Watched PROVE Spaced(b)'
      BY <1>1 DEF MissesSpaced
    <2>1. Spaced(b) /\ Spaced(a)
      BY DEF MissesSpaced
    <2>2. CASE b # a
      <3>1. missed'[b] = missed[b] /\ recAge'[b] = recAge[b] /\ (Pending(b)' <=> Pending(b))
            /\ b \notin current'
        BY <1>1, <2>2 DEF TypeOK, Pending
      <3> QED BY <1>1, <2>1, <3>1 DEF Spaced
    <2>3. CASE b = a
      <3>1. thread = "poll" /\ a \notin todo
        BY <1>1 DEF OneAtATime
      <3>2. ~Pending(a)' /\ a \notin current'
        BY <1>1, <3>1 DEF Pending
      <3>3. missed[a] \in 0..MaxMisses /\ recAge[a] \in Nat /\ lag \in Nat
            /\ missed'[a] = IF ~stale THEN 0 ELSE IF missed[a] < MaxMisses THEN missed[a] + 1
                                                                     ELSE missed[a]
        BY <1>1 DEF TypeOK
      <3>4. missed'[a] > 0 => recAge[a] > Due(missed'[a] - 1) + lag
        <4> SUFFICES ASSUME missed'[a] > 0 PROVE recAge[a] > Due(missed'[a] - 1) + lag
          OBVIOUS
        <4>1. recAge[a] > Due(missed[a]) + lag /\ Due(missed[a]) \in Nat
          BY <1>1, <2>1, <3>3 DEF Spaced
        <4>2. CASE missed[a] < MaxMisses
          <5>1. missed'[a] - 1 = missed[a]
            BY <3>3, <4>2
          <5> QED BY <4>1, <5>1
        <4>3. CASE missed[a] = MaxMisses
          <5> DEFINE d == Due(missed[a] - 1)
          <5>1. d \in Nat /\ d + PollEvery = Due(missed[a])
            BY <3>3, <4>3
          <5> HIDE DEF d
          <5>2. recAge[a] > d + lag
            BY <3>3, <4>1, <5>1
          <5>3. missed'[a] = missed[a]
            BY <3>3, <4>3
          <5> QED BY <5>2, <5>3 DEF d
        <4>4. missed[a] < MaxMisses \/ missed[a] = MaxMisses
          BY <3>3
        <4> QED BY <4>2, <4>3, <4>4, Zenon
      <3> QED
        <4> DEFINE d == Due(missed'[a] - 1)
        <4>0. missed'[a] > 0 => missed'[a] - 1 \in 0..MaxMisses
          BY <3>3
        <4>1. missed'[a] > 0 => d \in Nat /\ recAge[a] > d + lag
          BY <3>4, <4>0
        <4> HIDE DEF d
        <4>2. missed'[a] > 0 => recAge[a] > d + lag + 0
          BY <3>3, <4>1
        <4> QED BY <1>1, <2>3, <3>1, <3>2, <4>2 DEF Spaced, d
    <2> QED BY <2>2, <2>3
  <1> QED BY <1>2, <1>3, <1>4, <1>5, <1>6

(* The end of a poll, the loop's exit, start() and stop().                  *)
LEMMA LifeInv ==
    HInv /\ (EndPoll \/ LoopExit \/ Start \/ StopBegin \/ StopReturn) => HInv'
  <1> SUFFICES ASSUME HInv, EndPoll \/ LoopExit \/ Start \/ StopBegin \/ StopReturn
               PROVE  HInv'
    OBVIOUS
  <1> USE DueFacts
          DEF HInv, agentVars, recordVars, pollVars, lifeVars, Watched
  <1>1. /\ UNCHANGED <<env, alive, beatAge, unread, recAge, missed, fired, halted, redisUp>>
        /\ UNCHANGED <<current, stale>>
    BY DEF EndPoll, LoopExit, Start, StopBegin, StopReturn
  <1>2. /\ thread' \in {"none", "poll", "wait", "exited"} /\ todo' \subseteq Watched
        /\ lag' \in 0..MaxLag /\ waited' \in 0..PollEvery
    BY DEF TypeOK, EndPoll, LoopExit, Start, StopBegin, StopReturn
  <1>3. stopSet' \in BOOLEAN /\ joining' \in BOOLEAN /\ wanted' \in BOOLEAN
    <2>1. /\ stopSet' \in {TRUE, FALSE, stopSet} /\ joining' \in {TRUE, FALSE, joining}
          /\ wanted' \in {TRUE, FALSE, wanted}
      BY DEF EndPoll, LoopExit, Start, StopBegin, StopReturn
    <2> QED BY <2>1, Zenon DEF TypeOK
  <1>4. TypeOK'
    BY <1>1, <1>2, <1>3 DEF TypeOK
  <1>5. OneAtATime'
    BY DEF OneAtATime, TypeOK, EndPoll, LoopExit, Start, StopBegin, StopReturn
  <1>6. RecordCurrent' /\ PunctualFresh'
    BY <1>1 DEF RecordCurrent, PunctualFresh
  <1>7. ThreadFollows'
    BY DEF ThreadFollows, EndPoll, LoopExit, Start, StopBegin, StopReturn
  <1>8. OneThread'
    BY <1>1 DEF OneThread, EndPoll, LoopExit, Start, StopBegin, StopReturn
  <1>9. MissesSpaced'
    <2> SUFFICES ASSUME ~env.local, ~env.restarts, NEW a \in Watched PROVE Spaced(a)'
      BY <1>1 DEF MissesSpaced
    <2>1. Spaced(a) /\ ~stopSet /\ missed[a] \in 0..MaxMisses
          /\ (thread = "none" => missed[a] = 0)
      BY DEF MissesSpaced, OneThread, TypeOK
    <2>2. CASE EndPoll
      <3>1. ~Pending(a) /\ ~Pending(a)' /\ a \notin current' /\ thread = "poll"
            /\ thread' = "wait" /\ waited' = 0 /\ lag' = lag
        BY <2>2 DEF EndPoll, Pending
      <3> QED BY <1>1, <2>1, <3>1 DEF Spaced
    <2>3. CASE Start
      <3>1. CASE thread = "none"
        <4>1. current' = {}
          BY <1>1, <3>1 DEF OneAtATime
        <4> QED BY <1>1, <2>1, <3>1, <4>1 DEF Spaced
      <3>2. CASE thread # "none"
        BY <2>3, <3>2 DEF Start
      <3> QED BY <3>1, <3>2
    <2>4. CASE StopReturn
      BY <1>1, <2>1, <2>4 DEF StopReturn, Spaced, Pending
    <2>5. CASE LoopExit \/ StopBegin
      BY <2>1, <2>5 DEF LoopExit, StopBegin
    <2> QED BY <2>2, <2>3, <2>4, <2>5
  <1> QED BY <1>4, <1>5, <1>6, <1>7, <1>8, <1>9

(* Every step of the monitor and the agents.                                *)
LEMMA HStepInv == HInv /\ [Next]_vars => HInv'
  BY BeatInv, CrashInv, ToggleInv, TickInv, BeginInv, RefreshInv, CountInv, LifeInv
     DEF Next, PollThread

(* The invariant holds of every behaviour.                                  *)
LEMMA HAlways == Spec => []HInv
  BY HInitInv, HStepInv, PTL DEF Spec

-----------------------------------------------------------------------------
(* Every variable of the monitor keeps its type.                            *)
THEOREM TypeCorrect == Spec => []TypeOK
  <1>1. HInv => TypeOK
    BY DEF HInv
  <1> QED BY <1>1, HAlways, PTL

(* check_all never kills a live agent that beats once per interval while    *)
(* Redis works.                                                             *)
THEOREM PunctualIsSafe == Spec => []PunctualNeverKilled
  <1>1. HInv => PunctualNeverKilled
    BY DEF HInv, PunctualFresh, PunctualNeverKilled
  <1> QED BY <1>1, HAlways, PTL

(* start() is followed by polls until stop() is called, when stop() waits   *)
(* for the thread.                                                          *)
THEOREM StartedPolls == Spec => []StartedKeepsPolling
  <1>1. HInv => StartedKeepsPolling
    BY DEF HInv, ThreadFollows, StartedKeepsPolling
  <1> QED BY <1>1, HAlways, PTL

(* _trigger_kill comes after MaxMisses consecutive misses, PollEvery apart. *)
THEOREM KillIsNeverHasty == Spec => NoHastyKill
  <1> DEFINE Late == ~env.local /\ ~env.restarts =>
                 \A a \in fired' \ fired :
                     recAge[a] - lag > Interval + (MaxMisses - 1) * PollEvery
  <1>1. HInv /\ [Next]_vars => Late
    <2> SUFFICES ASSUME HInv, [Next]_vars, ~env.local, ~env.restarts, NEW a \in fired' \ fired
                 PROVE  recAge[a] - lag > Interval + (MaxMisses - 1) * PollEvery
      OBVIOUS
    <2>1. PICK b \in Watched : CountAgent(b)
      BY DEF Next, PollThread, vars, agentVars, recordVars, RemoteBeat, LocalBeat, AgentCrash,
             RedisToggles, Tick, BeginPoll, EndPoll, LoopExit, RefreshAgent, Start, StopBegin,
             StopReturn
    <2>2. a = b /\ current = {a} /\ stale /\ missed'[a] >= MaxMisses
      BY <2>1 DEF CountAgent, TriggerKill
    <2>3. missed[a] \in 0..MaxMisses /\ recAge[a] \in Nat /\ lag \in Nat /\ missed[a] + 1 >= MaxMisses
      BY <2>1, <2>2, DueFacts DEF HInv, TypeOK, CountAgent
    <2>4. recAge[a] > Due(missed[a]) + lag
      BY <2>1, <2>2 DEF HInv, MissesSpaced, Spaced
    <2>5. missed[a] = MaxMisses - 1 \/ missed[a] = MaxMisses
      BY <2>3, DueFacts
    <2>6. Due(missed[a]) \in Nat /\ Due(MaxMisses - 1) \in Nat
          /\ Due(MaxMisses - 1) <= Due(missed[a])
      <3>1. MaxMisses \in 1..MaxMisses /\ MaxMisses \in 0..MaxMisses
            /\ MaxMisses - 1 \in 0..MaxMisses
        BY DueFacts
      <3>2. Due(MaxMisses) \in Nat /\ Due(MaxMisses - 1) \in Nat
            /\ Due(MaxMisses - 1) + PollEvery = Due(MaxMisses) /\ PollEvery \in Nat
        BY <3>1, DueFacts
      <3>3. Due(MaxMisses - 1) <= Due(MaxMisses) /\ Due(MaxMisses - 1) <= Due(MaxMisses - 1)
        BY <3>2
      <3> QED BY <2>5, <3>2, <3>3
    <2>7. recAge[a] - lag > Due(MaxMisses - 1)
      BY <2>3, <2>4, <2>6
    <2> QED BY <2>7 DEF Due
  <1>2. [][Late]_vars => NoHastyKill
    BY PTL DEF NoHastyKill
  <1> QED BY <1>1, <1>2, HAlways, PTL DEF Spec
=============================================================================
