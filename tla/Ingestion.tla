------------------------------ MODULE Ingestion ------------------------------
(***************************************************************************)
(* M16 ingestion (shared/ingestion): DataIngestionAgent with its sequence  *)
(* validator, its two candle aggregators and its tick buffer, the Kite     *)
(* WebSocket adapter whose callback thread injects ticks, the watchdog     *)
(* thread that falls back to yfinance, start and stop.                     *)
(*                                                                         *)
(* One symbol: every dictionary of the package is keyed by symbol.  A tick *)
(* is its timestamp, its volume and a serial number; prices matter only as *)
(* positive or not.  Nothing locks the validator, the aggregators and the  *)
(* buffer, so the WebSocket thread and a watchdog that injects fallback    *)
(* ticks interleave; an aggregator reads its bar in one step and updates   *)
(* or replaces it in another.                                              *)
(***************************************************************************)
EXTENDS Integers, FiniteSets, Sequences, SequencesExt

CONSTANTS
    Feeds,       \* the deployments considered, records of
                 \*   mode:   the mode the agent is built with, "LIVE" or "PAPER"
                 \*   started: the agent is up, degraded, and its first watchdog about to
                 \*           run the fallback
                 \*   ticks:  bound: ticks accepted
                 \*   stops:  bound: how often stop() is called
                 \*   ends:   bound: the clock
    OneMinute,   \* CANDLE_INTERVAL_1M, in clock units
    FiveMinute,  \* CANDLE_INTERVAL_5M
    MaxBackward, \* TICK_MAX_BACKWARD_MS
    MaxFuture,   \* TICK_MAX_FUTURE_MS
    Cumulative,  \* the volume_traded values Kite may report
    Timeout      \* WS_FALLBACK_TIMEOUT_SECONDS

Intervals == {OneMinute, FiveMinute}
Dogs      == {"dog1", "dog2"}
Threads   == {"ws"} \cup Dogs

ASSUME IngestionAssumption ==
    /\ Feeds \subseteq [mode : {"LIVE", "PAPER"}, started : BOOLEAN, ticks : Nat,
                        stops : Nat, ends : Nat]
    /\ {OneMinute, FiveMinute, MaxBackward, MaxFuture, Timeout} \subseteq Nat
    /\ Cumulative \subseteq Nat /\ Cumulative # {} /\ 0 < OneMinute /\ OneMinute < FiveMinute

VARIABLES
    feed,      \* the deployment, chosen once
    now,       \* time.time(), from 1
    mode,      \* DataIngestionAgent._mode
    running,   \* _running
    lastTick,  \* _last_tick_ts, 0 for none
    latest,    \* _latest_1m and _latest_5m, by interval: the start of the bar, -1
    dog,       \* watchdog threads: "none", "check", "setflag", "fallback", "clearflag"
    ctl,       \* the thread that starts and stops the agent
    stops,     \* calls of stop()
    ws,        \* KiteWebSocketAdapter: ticker alive, _connected, _prev_vol (-1 for none)
    lastTs,    \* TickSequenceValidator._last_ts_ms, -1 for none
    bars,      \* CandleAggregator._bars, by interval: the _BarState objects made so
               \*   far and the one the dictionary holds (0 for none)
    inj,       \* inject_tick in progress, by thread
    memBuf,    \* TickBuffer._memory
    redisBuf,  \* ticker:buffer:queue
    work,      \* drain in progress: memory_take or len(raw_redis), what is left of the
               \*   limit, raw_memory, and the slice that is to become _memory
    flag,      \* system:status:degraded
    feedRedis, \* the Redis client answers
    drained,   \* ghost: serial numbers handed out by drain()
    unanswered,\* ghost: taken off the queue by an LTRIM whose answer was lost
    doubled,   \* ghost: put on the queue by an RPUSH whose answer was lost
    dropped,   \* ghost: appended to a list that drain() was replacing
    accepted,  \* ghost: serial numbers of accepted ticks, in order
    volume,    \* ghost: volume accepted by each aggregator
    handed,    \* ghost: volume of the candles each aggregator completed or flushed
    overwritten,\* ghost: volume of the 1-minute bars that flush_open_bars hid
    overlapped \* ghost: two injections have been in progress at once

agentVars  == <<mode, running, lastTick, dog, ctl, stops, flag>>
barVars    == <<lastTs, bars, latest, inj, volume, handed, overwritten, overlapped>>
queueVars  == <<memBuf, redisBuf, work, drained, unanswered, doubled, dropped>>
bufferVars == <<queueVars, accepted>>
feedVars   == <<feed, now, agentVars, barVars, bufferVars, ws, feedRedis>>

NoBars == [objs |-> <<>>, cur |-> 0]
NoInj  == [pc |-> "idle"]
NoWork == [pc |-> "idle", take |-> 0, left |-> 0, raw |-> {}, rest |-> <<>>]

(* DataIngestionAgent.__init__ *)
FeedInit ==
    /\ feed \in Feeds
    /\ now = 1 /\ lastTick = 0 /\ running = feed.started
    /\ mode = IF feed.started THEN "DEGRADED" ELSE feed.mode
    /\ latest = [i \in Intervals |-> -1]
    /\ dog = [d \in Dogs |-> IF feed.started /\ d = "dog1" THEN "fallback" ELSE "none"]
    /\ ctl = "idle" /\ stops = 0
    /\ ws = [alive |-> feed.started, connected |-> feed.started, prev |-> -1]
    /\ lastTs = -1 /\ bars = [i \in Intervals |-> NoBars]
    /\ inj = [t \in Threads |-> NoInj]
    /\ memBuf = <<>> /\ redisBuf = <<>> /\ flag = feed.started /\ feedRedis = TRUE
    /\ work = NoWork /\ accepted = <<>>
    /\ drained = {} /\ unanswered = {} /\ doubled = {} /\ dropped = {}
    /\ volume = [i \in Intervals |-> 0] /\ handed = [i \in Intervals |-> 0]
    /\ overwritten = 0 /\ overlapped = FALSE

-----------------------------------------------------------------------------
(* TickSequenceValidator and CandleAggregator                               *)

(* TickSequenceValidator.validate, when it does not raise                   *)
Valid(tick) ==
    /\ tick.price > 0 /\ tick.vol >= 0
    /\ tick.ts <= now + MaxFuture
    /\ lastTs # -1 => tick.ts >= lastTs - MaxBackward

(* _bar_start_ms *)
BarStart(ts, interval) == (ts \div interval) * interval

(* A fresh _BarState, which replaces the one in the dictionary              *)
OpenBar(b, tick, interval) ==
    [objs |-> Append(b.objs, [start |-> BarStart(tick.ts, interval), volume |-> tick.vol]),
     cur  |-> Len(b.objs) + 1]

(* A tick in the period of the n-th _BarState adds its volume to it.        *)
AddTick(b, tick, n) == [b EXCEPT !.objs[n].volume = @ + tick.vol]

-----------------------------------------------------------------------------
(* DataIngestionAgent.inject_tick, by a thread                              *)

Idle(t) == inj[t].pc = "idle"

(* validate() passes; _last_tick_ts is taken from the clock.                *)
Accept(t, tick) ==
    /\ Valid(tick) /\ Len(accepted) < feed.ticks
    /\ lastTs' = tick.ts
    /\ lastTick' = now
    /\ accepted' = Append(accepted, tick.vol)
    /\ inj' = [inj EXCEPT ![t] = [pc |-> "read", at |-> OneMinute, seen |-> 0,
                  tick |-> [ts |-> tick.ts, vol |-> tick.vol, id |-> Len(accepted) + 1]]]
    /\ overlapped' = (overlapped \/ \E u \in Threads \ {t} : ~Idle(u))

injectOthers == <<feed, now, agentVars, ws, feedRedis, lastTs, overwritten, overlapped>>

(* CandleAggregator.ingest looks the bar up.                                *)
IngestRead(t) ==
    /\ inj[t].pc = "read"
    /\ inj' = [inj EXCEPT ![t].pc = "write", ![t].seen = bars[inj[t].at].cur]
    /\ UNCHANGED <<injectOthers, bufferVars, bars, latest, volume, handed>>

(* Mutant: the tick that completes a bar is also added to it.               *)
IngestWriteMutant(t) ==
    LET i    == inj[t].at
        tick == inj[t].tick
        bar  == bars[i].objs[inj[t].seen]
        ends == inj[t].seen # 0 /\ BarStart(tick.ts, i) # bar.start
        adds == inj[t].seen # 0 /\ ~ends
    IN  /\ inj[t].pc = "write"
        /\ bars' = [bars EXCEPT ![i] =
                 IF adds THEN AddTick(@, tick, inj[t].seen)
                 ELSE OpenBar(@, tick, i)]
        /\ latest' = IF ends THEN [latest EXCEPT ![i] = bar.start] ELSE latest
        /\ handed' = IF ends THEN [handed EXCEPT ![i] = @ + bar.volume + tick.vol] ELSE handed
        /\ volume' = [volume EXCEPT ![i] = @ + tick.vol]
        /\ inj' = [inj EXCEPT ![t].pc = IF i = OneMinute THEN "read" ELSE "push",
                              ![t].at = FiveMinute]
        /\ UNCHANGED <<injectOthers, bufferVars>>

(* It opens a bar where it saw none, adds to the bar it saw, or completes   *)
(* that bar and opens the tick's; the bar it saw may no longer be the one   *)
(* in the dictionary.                                                       *)
IngestWrite(t) ==
    LET i    == inj[t].at
        tick == inj[t].tick
        bar  == bars[i].objs[inj[t].seen]
        ends == inj[t].seen # 0 /\ BarStart(tick.ts, i) # bar.start
        adds == inj[t].seen # 0 /\ ~ends
    IN  /\ inj[t].pc = "write"
        /\ bars' = [bars EXCEPT ![i] =
                 IF adds THEN AddTick(@, tick, inj[t].seen)
                 ELSE OpenBar(@, tick, i)]
        /\ latest' = IF ends THEN [latest EXCEPT ![i] = bar.start] ELSE latest
        /\ handed' = IF ends THEN [handed EXCEPT ![i] = @ + bar.volume] ELSE handed
        /\ volume' = [volume EXCEPT ![i] = @ + tick.vol]
        /\ inj' = [inj EXCEPT ![t].pc = IF i = OneMinute THEN "read" ELSE "push",
                              ![t].at = FiveMinute]
        /\ UNCHANGED <<injectOthers, bufferVars>>

pushOthers == <<injectOthers, accepted, bars, latest, volume, handed, work, drained, unanswered>>

(* Mutant: a failed RPUSH drops the tick.                                   *)
PushMutant(t) ==
    /\ inj[t].pc = "push"
    /\ redisBuf' = IF feedRedis THEN Append(redisBuf, inj[t].tick.id) ELSE redisBuf
    /\ inj' = [inj EXCEPT ![t] = NoInj]
    /\ UNCHANGED <<pushOthers, memBuf, doubled, dropped>>

(* TickBuffer.push: the RPUSH is answered, or raises: because Redis is away *)
(* or because its answer is lost after it was executed.                     *)
Push(t) ==
    /\ inj[t].pc = "push"
    /\ \/ /\ feedRedis /\ redisBuf' = Append(redisBuf, inj[t].tick.id)
          /\ \/ inj' = [inj EXCEPT ![t] = NoInj] /\ UNCHANGED doubled
             \/ /\ inj' = [inj EXCEPT ![t].pc = "memory"]
                /\ doubled' = doubled \cup {inj[t].tick.id}
       \/ /\ ~feedRedis /\ inj' = [inj EXCEPT ![t].pc = "memory"]
          /\ UNCHANGED <<redisBuf, doubled>>
    /\ UNCHANGED <<pushOthers, memBuf, dropped>>

(* self._memory.append looks the list up ...                                *)
PushLoad(t) ==
    /\ inj[t].pc = "memory"
    /\ inj' = [inj EXCEPT ![t].pc = "append"]
    /\ UNCHANGED <<pushOthers, memBuf, redisBuf, doubled, dropped>>

(* ... and appends to it: in vain once drain() has put another in its place.*)
PushAppend(t) ==
    /\ \/ /\ inj[t].pc = "append"
          /\ memBuf' = Append(memBuf, inj[t].tick.id) /\ UNCHANGED dropped
       \/ /\ inj[t].pc = "stale"
          /\ dropped' = dropped \cup {inj[t].tick.id} /\ UNCHANGED memBuf
    /\ inj' = [inj EXCEPT ![t] = NoInj]
    /\ UNCHANGED <<pushOthers, redisBuf, doubled>>

Inject(t) == IngestRead(t) \/ IngestWrite(t) \/ Push(t) \/ PushLoad(t) \/ PushAppend(t)

drainOthers == <<feed, now, agentVars, ws, feedRedis, lastTs, bars, latest, volume, handed,
                 overwritten, overlapped, accepted>>

(* TickBuffer.drain by the batch worker: memory_take.  The limit n is the   *)
(* caller's or the pending_count of a moment ago.                           *)
DrainTake(n) ==
    LET take == Min({n, Len(memBuf)})
    IN  /\ work.pc = "idle"
        /\ work' = [NoWork EXCEPT !.pc = "slice", !.take = take, !.left = n - take]
        /\ UNCHANGED <<drainOthers, inj, memBuf, redisBuf, drained, unanswered, doubled, dropped>>

(* raw_memory, and the slice that is to replace the list                    *)
DrainSlice ==
    /\ work.pc = "slice"
    /\ work' = [work EXCEPT !.pc = "store", !.raw = ToSet(SubSeq(memBuf, 1, work.take)),
                            !.rest = SubSeq(memBuf, work.take + 1, Len(memBuf))]
    /\ UNCHANGED <<drainOthers, inj, memBuf, redisBuf, drained, unanswered, doubled, dropped>>

(* The slice replaces the list: what was appended to the old list since, or *)
(* will be by a push that has looked it up, is in no list.                  *)
DrainStore ==
    /\ work.pc = "store"
    /\ memBuf' = work.rest
    /\ drained' = drained \cup work.raw
    /\ dropped' = dropped \cup (ToSet(memBuf) \ (work.raw \cup ToSet(work.rest)))
    /\ inj' = [t \in Threads |->
                 IF inj[t].pc = "append" THEN [inj[t] EXCEPT !.pc = "stale"] ELSE inj[t]]
    /\ work' = [NoWork EXCEPT !.pc = "range", !.left = work.left]
    /\ UNCHANGED <<drainOthers, redisBuf, unanswered, doubled>>

(* LRANGE of what is left of the limit; nothing to read, or an error, ends  *)
(* the call.                                                                *)
DrainRange ==
    LET take == IF feedRedis THEN Min({work.left, Len(redisBuf)}) ELSE 0
    IN  /\ work.pc = "range"
        /\ work' = IF take = 0 THEN NoWork ELSE [NoWork EXCEPT !.pc = "trim", !.take = take]
        /\ UNCHANGED <<drainOthers, inj, memBuf, redisBuf, drained, unanswered, doubled, dropped>>

(* LTRIM of what was read.  One that raises leaves the ticks out of the     *)
(* result, whether or not Redis executed it.                                *)
DrainTrim ==
    LET took == ToSet(SubSeq(redisBuf, 1, work.take))
    IN  /\ work.pc = "trim"
        /\ \/ /\ feedRedis
              /\ redisBuf' = SubSeq(redisBuf, work.take + 1, Len(redisBuf))
              /\ \/ drained' = drained \cup took /\ UNCHANGED unanswered
                 \/ unanswered' = unanswered \cup took /\ UNCHANGED drained
           \/ ~feedRedis /\ UNCHANGED <<redisBuf, drained, unanswered>>
        /\ work' = NoWork
        /\ UNCHANGED <<drainOthers, inj, memBuf, doubled, dropped>>

Drain(n) == DrainTake(n) \/ DrainSlice \/ DrainStore \/ DrainRange \/ DrainTrim

OpenVolume(i) == IF bars[i].cur = 0 THEN 0 ELSE bars[i].objs[bars[i].cur].volume

(* flush_open_bars: both aggregators are emptied; the 5-minute bar takes    *)
(* the place of the 1-minute bar in the result, as they have the same key.  *)
FlushOpenBars ==
    /\ \E i \in Intervals : bars[i].cur # 0
    /\ LET hidden == bars[FiveMinute].cur # 0 IN
       /\ handed' = [i \in Intervals |->
             handed[i] + IF i = OneMinute /\ hidden THEN 0 ELSE OpenVolume(i)]
       /\ overwritten' = overwritten + IF hidden THEN OpenVolume(OneMinute) ELSE 0
    /\ bars' = [i \in Intervals |-> [bars[i] EXCEPT !.cur = 0]]
    /\ overlapped' = (overlapped \/ \E t \in Threads : ~Idle(t))
    /\ UNCHANGED <<feed, now, agentVars, bufferVars, ws, feedRedis, lastTs, latest, inj, volume>>

-----------------------------------------------------------------------------
(* KiteWebSocketAdapter                                                     *)

wsOthers == <<feed, now, agentVars, barVars, bufferVars, feedRedis>>

(* _handle_connect and _handle_close, called by the ticker while it lives   *)
HandleConnect ==
    /\ ws.alive /\ ~ws.connected
    /\ ws' = [ws EXCEPT !.connected = TRUE]
    /\ UNCHANGED wsOthers

HandleClose ==
    /\ ws.connected
    /\ ws' = [ws EXCEPT !.connected = FALSE]
    /\ UNCHANGED wsOthers

(* _handle_ticks, one raw tick: no price, no tick; the cumulative volume    *)
(* becomes a delta (the first one zero, never negative), also when the tick *)
(* is then refused by the validator, whose error is swallowed.              *)
HandleTick(price, cum, ts) ==
    LET delta == IF ws.prev = -1 THEN 0 ELSE Max({0, cum - ws.prev})
        tick  == [price |-> price, vol |-> delta, ts |-> ts]
    IN  /\ ws.connected /\ Idle("ws") /\ price > 0
        /\ ws' = [ws EXCEPT !.prev = cum]
        /\ \/ /\ Accept("ws", tick)
              /\ UNCHANGED <<mode, running, dog, ctl, stops, flag, bars, latest, volume,
                             handed, overwritten, queueVars>>
           \/ ~Valid(tick) /\ UNCHANGED <<agentVars, barVars, bufferVars>>
        /\ UNCHANGED <<feed, now, feedRedis>>

-----------------------------------------------------------------------------
(* The watchdog                                                             *)

dogOthers == <<feed, now, bufferVars, ws, feedRedis>>
Step(d, pc) == dog' = [dog EXCEPT ![d] = pc]

Silent == now - lastTick > Timeout /\ lastTick > 0

(* Mutant: only a closed WebSocket counts as silence.                       *)
WatchdogCheckMutant(d) ==
    /\ dog[d] = "check" /\ running /\ mode = "LIVE" /\ Silent /\ ~ws.connected
    /\ mode' = "DEGRADED" /\ Step(d, "setflag")
    /\ UNCHANGED <<running, lastTick, ctl, stops, flag, barVars, dogOthers>>

(* One turn of _watchdog_loop that finds silence: _enter_degraded sets the  *)
(* mode under the lock.                                                     *)
WatchdogCheck(d) ==
    /\ dog[d] = "check" /\ running /\ mode = "LIVE" /\ Silent
    /\ mode' = "DEGRADED" /\ Step(d, "setflag")
    /\ UNCHANGED <<running, lastTick, ctl, stops, flag, barVars, dogOthers>>

(* _set_degraded; errors are swallowed.                                     *)
SetDegraded(d) ==
    /\ dog[d] = "setflag"
    /\ flag' = (flag \/ feedRedis)
    /\ Step(d, "fallback")
    /\ UNCHANGED <<mode, running, lastTick, ctl, stops, barVars, dogOthers>>

(* _run_fallback: yfinance answers with bars of the recent past, each a     *)
(* tick to inject if the validator takes it, or with none.                  *)
RunFallback(d, times) ==
    /\ dog[d] = "fallback" /\ Idle(d)
    /\ \/ Step(d, "check") /\ UNCHANGED <<lastTick, barVars, accepted>>
       \/ \E ts \in times :
             /\ Accept(d, [price |-> 1, vol |-> 1, ts |-> ts])
             /\ UNCHANGED <<dog, bars, latest, volume, handed, overwritten>>
    /\ UNCHANGED <<feed, now, ws, feedRedis, mode, running, ctl, stops, flag, queueVars>>

(* A turn that finds the WebSocket back: _exit_degraded sets the mode.      *)
ExitDegraded(d) ==
    /\ dog[d] = "check" /\ Idle(d) /\ running /\ mode = "DEGRADED" /\ ws.connected
    /\ mode' = "LIVE" /\ Step(d, "clearflag")
    /\ UNCHANGED <<running, lastTick, ctl, stops, flag, barVars, dogOthers>>

(* _clear_degraded; errors are swallowed.                                   *)
ClearDegraded(d) ==
    /\ dog[d] = "clearflag"
    /\ flag' = (flag /\ ~feedRedis)
    /\ Step(d, "check")
    /\ UNCHANGED <<mode, running, lastTick, ctl, stops, barVars, dogOthers>>

(* The loop ends when it finds the agent stopped.                           *)
WatchdogExit(d) ==
    /\ dog[d] = "check" /\ Idle(d) /\ ~running
    /\ Step(d, "none")
    /\ UNCHANGED <<mode, running, lastTick, ctl, stops, flag, barVars, dogOthers>>

Watchdog(d) ==
    \/ Idle(d) /\ WatchdogCheck(d)
    \/ SetDegraded(d) \/ RunFallback(d, 0..now) \/ ExitDegraded(d) \/ ClearDegraded(d)
    \/ WatchdogExit(d) \/ Inject(d)

-----------------------------------------------------------------------------
(* start and stop                                                           *)

ctlOthers == <<feed, now, barVars, bufferVars, feedRedis, mode, lastTick>>

(* start: nothing when running.                                             *)
Start ==
    /\ ctl = "idle" /\ ~running
    /\ running' = TRUE /\ ctl' = "connect"
    /\ UNCHANGED <<dog, stops, flag, ws, ctlOthers>>

(* Only a LIVE agent connects and gets a watchdog: one stopped while        *)
(* DEGRADED starts again without either.                                    *)
Connect ==
    /\ ctl = "connect"
    /\ ctl' = "idle"
    /\ IF mode = "LIVE"
       THEN /\ ws' = [ws EXCEPT !.alive = TRUE]
            /\ \E d \in Dogs : dog[d] = "none" /\ Step(d, "check")
       ELSE UNCHANGED <<ws, dog>>
    /\ UNCHANGED <<running, stops, flag, ctlOthers>>

(* stop: the watchdog is not joined ...                                     *)
Stop ==
    /\ ctl = "idle" /\ running /\ stops < feed.stops
    /\ running' = FALSE /\ stops' = stops + 1
    /\ ctl' = "disconnect"
    /\ UNCHANGED <<dog, flag, ws, ctlOthers>>

(* ... the WebSocket is closed and the flag cleared.                        *)
StopDisconnect ==
    /\ ctl = "disconnect"
    /\ ctl' = "idle"
    /\ ws' = [ws EXCEPT !.alive = FALSE, !.connected = FALSE]
    /\ flag' = (flag /\ ~feedRedis)
    /\ UNCHANGED <<running, dog, stops, ctlOthers>>

FeedTick ==
    /\ now < feed.ends /\ now' = now + 1
    /\ UNCHANGED <<feed, agentVars, barVars, bufferVars, ws, feedRedis>>

FeedRedisToggles ==
    /\ feedRedis' = ~feedRedis
    /\ UNCHANGED <<feed, now, agentVars, barVars, bufferVars, ws>>

(* What fills the bars, what fills and empties the buffer, and what moves   *)
(* the agent's mode.                                                        *)
BarNext ==
    \/ \E cum \in Cumulative, ts \in 0..(now + MaxFuture + 1) : HandleTick(1, cum, ts)
    \/ \E t \in Threads : Inject(t)
    \/ \E d \in Dogs : RunFallback(d, 0..now)
    \/ FlushOpenBars
    \/ FeedTick

BufferNext ==
    \/ HandleTick(1, Min(Cumulative), now)
    \/ \E t \in Threads : Inject(t)
    \/ \E d \in Dogs : RunFallback(d, {now})
    \/ \E n \in 0..(2 * feed.ticks) : Drain(n)
    \/ FeedRedisToggles

AgentNext ==
    \/ HandleConnect \/ HandleClose \/ HandleTick(1, Min(Cumulative), now)
    \/ Inject("ws")
    \/ \E d \in Dogs : Watchdog(d)
    \/ Start \/ Connect \/ Stop \/ StopDisconnect
    \/ FeedTick \/ FeedRedisToggles

(* The scheduler runs the watchdog threads and a call in progress (in the   *)
(* instances that have them: the pipeline alone takes no such step).        *)
FeedFairness ==
    /\ \A d \in Dogs : WF_feedVars(~feed.started /\ Watchdog(d))
    /\ WF_feedVars(Connect) /\ WF_feedVars(StopDisconnect)

-----------------------------------------------------------------------------
(* As long as no two injections overlap, each aggregator accounts for every *)
(* unit of accepted volume exactly once: in a candle it completed or        *)
(* flushed, or in its open bar, whatever mix of late, early and fallback    *)
(* ticks arrives.  flush_open_bars hides the 1-minute bar behind the        *)
(* 5-minute one (agent.py:219), which is accounted for apart.               *)
VolumeConserved ==
    ~overlapped =>
        /\ volume[FiveMinute] = handed[FiveMinute] + OpenVolume(FiveMinute)
        /\ volume[OneMinute] = handed[OneMinute] + OpenVolume(OneMinute) + overwritten

(* Every tick the validator accepted is on its way into the buffer, in one  *)
(* of its two queues or handed out by drain(), through Redis outages and    *)
(* steps of other threads between any two steps, or lost in one of the two  *)
(* ways the code leaves open: an LTRIM that Redis executed and whose answer *)
(* was lost (buffer.py:154), an append to the list that drain() replaces    *)
(* (buffer.py:140).  A tick is in two of these places only if its RPUSH was *)
(* executed and its answer lost (buffer.py:99), and in no queue twice.      *)
NoTickLost ==
    LET pushing == {inj[t].tick.id : t \in {u \in Threads : ~Idle(u)}}
        places  == <<pushing, ToSet(memBuf), ToSet(redisBuf), drained, unanswered, dropped>>
    IN  /\ UNION ToSet(places) = 1..Len(accepted)
        /\ \A i, j \in 1..Len(places) : i # j => places[i] \cap places[j] \subseteq doubled
        /\ IsInjective(memBuf) /\ IsInjective(redisBuf)

(* When a live feed falls silent for longer than the timeout, the agent     *)
(* degrades, whether or not the WebSocket still says it is connected,       *)
(* unless a tick arrives or the agent is stopped.                           *)
SilenceDegrades ==
    (running /\ ctl = "idle" /\ mode = "LIVE" /\ Silent)
        ~> (mode = "DEGRADED" \/ ~running \/ ~Silent)
=============================================================================
