------------------------------- MODULE Alerts -------------------------------
(***************************************************************************)
(* M20 alerts (shared/alerts): AlertDispatcher with its sliding window,    *)
(* the Telegram and e-mail channels, and LLMCostAlerter, which reads the   *)
(* daily cost that the sentiment agents record.  Minute ticks of the clock *)
(* make the sixty-second window.                                           *)
(***************************************************************************)
EXTENDS Sentiment

CONSTANTS
    RateLimit,      \* ALERT_TELEGRAM_RATE_LIMIT_PER_MINUTE
    Minute,         \* ticks in the window of 60 seconds
    CostThreshold,  \* LLM_COST_ALERT_THRESHOLD_USD, in tokens
    MaxSent         \* bound: messages delivered

ASSUME AlertsAssumption ==
    {RateLimit, Minute, CostThreshold} \subseteq Nat \ {0} /\ MaxSent \in Nat

VARIABLES
    channel,     \* TelegramAlerter: "none", "unconfigured" or "configured"
    sendTimes,   \* AlertDispatcher._send_times
    alertedDay,  \* LLMCostAlerter._alerted_today, -1 for None
    delivered    \* ghost: the messages delivered, [type, time]

alertVars == <<channel, sendTimes, alertedDay, delivered>>

AlertTypes == {"SIGNAL", "LLM_COST", "KILL_SWITCH", "CIRCUIT_BREAKER"}
(* _BYPASS_RATE_LIMIT *)
BypassRateLimit == {"KILL_SWITCH", "CIRCUIT_BREAKER"}

AlertInit ==
    /\ channel \in {"none", "unconfigured", "configured"}
    /\ sendTimes = <<>> /\ alertedDay = -1
    /\ delivered = <<>>

(* The deque after _is_rate_limited has popped from its front, up to the    *)
(* first send that is still in the window                                   *)
Recent ==
    LET stale == {n \in 0..Len(sendTimes) : \A i \in 1..n : sendTimes[i] < clock - Minute}
    IN  SubSeq(sendTimes, Max(stale) + 1, Len(sendTimes))

(* TelegramAlerter.send: False without token or chat, on a status other     *)
(* than 200 and on any exception; \E over what the service may do.          *)
TelegramSend(ok) == ok = TRUE => channel = "configured"

(* Mutant: one message too many, the limit compared with > instead of >=.   *)
DispatchMutant(type) ==
    LET bypass  == type \in BypassRateLimit
        limited == ~bypass /\ Len(Recent) > RateLimit
    IN  /\ Len(delivered) < MaxSent
        /\ IF limited THEN UNCHANGED <<sendTimes, delivered>>
           ELSE \E ok \in BOOLEAN :
                  /\ TelegramSend(ok)
                  /\ sendTimes' = IF ok THEN Append(Recent, clock) ELSE Recent
                  /\ delivered' = IF ok THEN Append(delivered, [type |-> type, time |-> clock])
                                  ELSE delivered

(* AlertDispatcher.dispatch: the window is pruned and measured only for an  *)
(* alert that may be limited; a delivered message counts, bypass or not.    *)
Dispatch(type) ==
    LET bypass  == type \in BypassRateLimit
        pruned  == IF bypass THEN sendTimes ELSE Recent
        limited == ~bypass /\ Len(Recent) >= RateLimit
    IN  /\ Len(delivered) < MaxSent
        /\ IF limited THEN sendTimes' = pruned /\ UNCHANGED delivered
           ELSE \E ok \in BOOLEAN :
                  /\ TelegramSend(ok)
                  /\ sendTimes' = IF ok THEN Append(pruned, clock) ELSE pruned
                  /\ delivered' = IF ok THEN Append(delivered, [type |-> type, time |-> clock])
                                  ELSE delivered

(* A component raises an alert.                                             *)
RaiseAlert(type) ==
    /\ Dispatch(type)
    /\ UNCHANGED <<channel, alertedDay, newsVars>>

(* LLMCostAlerter._read_cost: zero on any error or without the key.         *)
ReadCost == IF newsRedis = "up" THEN dailyCost[Today] ELSE 0

(* LLMCostAlerter.check: the day is remembered before the alert is          *)
(* dispatched, so a limited or failed dispatch is not repeated.             *)
CheckCost ==
    /\ ReadCost >= CostThreshold /\ alertedDay # Today
    /\ alertedDay' = Today
    /\ Dispatch("LLM_COST")
    /\ UNCHANGED <<channel, newsVars>>

(* run(custom_headlines=[text]): no feed and no indicator is fetched.       *)
BeginCustomRun(x, text) ==
    /\ Running(x, "idle") /\ started < MaxRuns
    /\ started' = started + 1
    /\ srun' = [srun EXCEPT ![x] = NewRun(TRUE, <<text>>)]
    /\ UNCHANGED <<report, newsOthers, alertVars>>

ClockTick ==
    /\ clock < MaxClock
    /\ clock' = clock + 1
    /\ UNCHANGED <<cached, dailyCost, session, srun, report, started, newsRedis, alertVars>>

AlertNext ==
    \/ \E type \in AlertTypes \ {"LLM_COST"} : RaiseAlert(type)
    \/ CheckCost
    \/ ClockTick

-----------------------------------------------------------------------------
(* A message that may be limited is delivered only while fewer than         *)
(* RateLimit messages, bypassing ones included, were delivered in the       *)
(* sixty seconds before it, across prunings, bursts of bypassing alerts and *)
(* failed sends.                                                            *)
RateLimited ==
    \A n \in Indices(delivered) :
        delivered[n].type \notin BypassRateLimit =>
            Cardinality({m \in 1..(n - 1) : delivered[m].time >= delivered[n].time - Minute})
                < RateLimit
=============================================================================
