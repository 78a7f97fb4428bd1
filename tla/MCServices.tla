----------------------------- MODULE MCServices -----------------------------
(* Instances of Sentiment, Alerts, ActrMemory, Universe, Backtest and       *)
(* Instruments for TLC.  The agents on their feeds, the agents with the     *)
(* cost alerter and the dispatcher, the memory tiers, the watchlist, the    *)
(* backtests and the instruments do not interact, so a behaviour is one of  *)
(* the six.                                                                 *)
EXTENDS Alerts, ActrMemory, Universe, Backtest, Instruments

CONSTANTS h1, h2, h3

VARIABLE part

vars == <<part, newsVars, alertVars, memVars, uniVars, btVars, insVars>>

(* h1 and h2 are alike, h3 is about something else.                         *)
MCMood       == [h \in Headlines |-> IF h = h3 THEN -1 ELSE 1]
MCSimilarity == [g \in Headlines |-> [h \in Headlines |->
                    IF g = h THEN 100 ELSE IF {g, h} = {h1, h2} THEN 96 ELSE 40]]

Entry(text, age) == [text |-> text, age |-> age]

(* Three feeds with a repeated, a blank and an undated entry, or only old   *)
(* news; one feed with a headline the other exchange may have cached.       *)
MCFeedDays == [x \in Exchanges |->
    IF x = "NSE"
    THEN {<<<<Entry(h1, 3), Entry(Blank, 0)>>, <<Entry(h3, Undated), Entry(h2, 1)>>,
            <<Entry(h2, 2)>>>>,
          <<<<>>, <<Entry(h3, 25)>>, <<>>>>}
    ELSE {<<<<Entry(h1, 6)>>>>}]

-----------------------------------------------------------------------------
(* A stock above its average, one below, and one with a short history       *)
MCStocks ==
    [a |-> [bars |-> 60, adx |-> 30, close |-> 105, ema |-> 100, bbMid |-> 100, bbWidth |-> 3,
            avgVolume |-> 10, recentVolume |-> 20],
     b |-> [bars |-> 60, adx |-> 10, close |-> 95, ema |-> 100, bbMid |-> 100, bbWidth |-> 6,
            avgVolume |-> 10, recentVolume |-> 5],
     c |-> [bars |-> 20, adx |-> 10, close |-> 95, ema |-> 100, bbMid |-> 0, bbWidth |-> 6,
            avgVolume |-> 0, recentVolume |-> 5]]

MCRows == {[category |-> "mwpl", symbol |-> "b", pct |-> 95]}

(* Four days of four hourly candles, each day but the first a dip and a     *)
(* rise or a rise and a fall; or no candles                                 *)
Shapes == {<<1000, 950, 1040, 1100>>, <<1100, 1130, 1060, 1000>>}

Flat(days) ==
    [i \in 1..(4 * Len(days)) |->
        LET d == (i - 1) \div 4
            b == (i - 1) % 4
        IN  [day |-> 1 + d, minute |-> 555 + (60 * b), close |-> days[1 + d][1 + b]]]

MCHistories == {<< >>} \cup {Flat(<<<<1000, 950, 1040, 1100>>>> \o days) : days \in [1..3 -> Shapes]}
MCParamGrid == <<[fast |-> 1, slow |-> 2], [fast |-> 1, slow |-> 3]>>

(* A split whose ratio is corrected and overridden, a bonus, two dividends  *)
(* on one day, and entries that cannot be used                              *)
Announced(symbol, exDate, subject, a, b) ==
    [symbol |-> symbol, exDate |-> exDate, subject |-> subject, a |-> a, b |-> b]

MCNseEntries ==
    {Announced("a", 2, "split", 10, 5), Announced("a", 2, "split", 10, 2),
     Announced("a", 3, "bonus", 1, 1), Announced("a", 2, "dividend", 3, 0),
     Announced("a", 2, "dividend", 4, 0), Announced("a", 0, "split", 10, 1)}

MCOverrideFiles ==
    {{}, {Action("a", 2, "SPLIT", "MANUAL", 4, 1)}, {Action("a", 2, "SPLIT", "MANUAL", 0, 1)}}

MCListings ==
    {[exchange |-> "NSE", symbol |-> "a", lot |-> 1], [exchange |-> "NSE", symbol |-> "", lot |-> 1],
     [exchange |-> "ASX", symbol |-> "a", lot |-> 0]}

MCRawCandles == [d \in 1..3 |-> [day |-> d, close |-> 400, volume |-> 100]]

-----------------------------------------------------------------------------
Init ==
    /\ part \in {"news", "alerts", "memory", "universe", "backtest", "instruments"}
    /\ NewsInit /\ AlertInit /\ MemInit /\ UniInit /\ BtInit /\ InsInit
    /\ part # "news" => newsRedis = "up"
    /\ part # "alerts" => channel = "none"
    /\ part # "memory" => memTier = "working"
    /\ part # "instruments" => overrides = {{}}
    /\ part # "backtest" => candleLog = << >> /\ walk = "off"

Next ==
    /\ part' = part
    /\ \/ part = "news" /\ NewsNext /\ UNCHANGED <<alertVars, memVars, uniVars, btVars, insVars>>
       \/ /\ part = "alerts"
          /\ \/ AlertNext
             \/ BeginCustomRun("ASX", h1)
             \/ NewsStep("ASX") /\ UNCHANGED alertVars
             \/ NewsRedisToggles /\ UNCHANGED alertVars
          /\ UNCHANGED <<memVars, uniVars, btVars, insVars>>
       \/ part = "memory" /\ MemNext /\ UNCHANGED <<newsVars, alertVars, uniVars, btVars, insVars>>
       \/ part = "universe" /\ UniNext /\ UNCHANGED <<newsVars, alertVars, memVars, btVars, insVars>>
       \/ part = "backtest" /\ BtNext /\ UNCHANGED <<newsVars, alertVars, memVars, uniVars, insVars>>
       \/ part = "instruments" /\ InsNext /\ UNCHANGED <<newsVars, alertVars, memVars, uniVars, btVars>>

Spec == Init /\ [][Next]_vars
=============================================================================
