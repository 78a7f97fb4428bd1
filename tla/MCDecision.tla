----------------------------- MODULE MCDecision -----------------------------
(* Instances of TradeDecision and of the machines around it for TLC.  The   *)
(* publisher, the holiday calendar, the callers of the risk engine, the     *)
(* classifier with its registry, the triggers of the kill switch, and the   *)
(* way from candles to an order share no variables, so a behaviour is one   *)
(* of the six.                                                              *)
EXTENDS TradeDecision, SignalPublisher, KillSwitch

VARIABLE part

vars == <<part, pubVars, killVars, calVars, riskVars, regimeVars, tradeVars>>

-----------------------------------------------------------------------------
(* Six five-minute candles that close above their opening range, and their  *)
(* mirror image                                                             *)
Candle(i, h, l, c) == [day |-> 1, minute |-> 555 + 5 * i, high |-> h, low |-> l, close |-> c,
                       volume |-> 100 * (1 + (i % 3))]

Rising == <<Candle(0, 9990, 9980, 9985), Candle(1, 9990, 9960, 9970),
            Candle(2, 9994, 9985, 9990), Candle(3, 9992, 9961, 9980),
            Candle(4, 9999, 9970, 9998), Candle(5, 10000, 9990, 10000)>>

Falling == [i \in DOMAIN Rising |->
               Candle(i - 1, 20000 - Rising[i].low, 20000 - Rising[i].high, 20000 - Rising[i].close)]

Frames(timeframes, candles) == [tf \in timeframes |-> candles]

LongContext ==
    [direction |-> "LONG", price |-> 10000, volume |-> 300, avgVolume |-> 150, atr |-> 100,
     ema9 |-> {101}, ema21 |-> {100}, vwap |-> {9990}, rsi |-> {60}, macd |-> {1},
     stochK |-> {60}, stochD |-> {55}, bbMiddle |-> {9980}, volumeDelta |-> {100},
     sentiment |-> {400}, frames |-> Frames({"5m", "15m"}, Rising)]

ShortContext ==
    [LongContext EXCEPT !.direction = "SHORT", !.ema9 = {99}, !.vwap = {10010}, !.rsi = {40},
        !.macd = {-1}, !.stochK = {40}, !.stochD = {45}, !.bbMiddle = {10020},
        !.volumeDelta = {-100}, !.sentiment = {-400}, !.frames = Frames({"5m", "15m"}, Falling)]

(* Variants at the edges of the gates and of the sizing                     *)
Variants(c) ==
    {c, [c EXCEPT !.atr = 0], [c EXCEPT !.atr = 2], [c EXCEPT !.ema9 = {}],
     [c EXCEPT !.rsi = {80}], [c EXCEPT !.rsi = {20}], [c EXCEPT !.macd = {0}],
     [c EXCEPT !.sentiment = {}], [c EXCEPT !.avgVolume = 0, !.volumeDelta = {10}],
     [c EXCEPT !.volumeDelta = {0}], [c EXCEPT !.volumeDelta = {}],
     [c EXCEPT !.frames = Frames({"5m", "15m"}, IF c.direction = "LONG" THEN Falling ELSE Rising)],
     [c EXCEPT !.frames = Frames({"15m"}, @["15m"])],
     [c EXCEPT !.frames = Frames({"5m"}, SubSeq(@["5m"], 1, 2))],
     [c EXCEPT !.price = 10100], [c EXCEPT !.price = 9900],
     [c EXCEPT !.ema9 = {}, !.vwap = {}, !.stochK = {}, !.bbMiddle = {}, !.macd = {}, !.rsi = {}]}

MCContexts == Variants(LongContext) \cup Variants(ShortContext)

(* On either side of every boundary of the day                              *)
MCInstants ==
    {At(9, 29), At(9, 30), At(10, 14), At(10, 15), At(10, 23), At(10, 24), At(14, 59), At(15, 0),
     At(15, 9), At(15, 10), At(15, 29), At(15, 30) - 1, At(15, 30), At(15, 34), At(15, 50),
     At(16, 0), At(16, 21) + 29, At(16, 21) + 30}

PlainOrder == [strategy |-> "ORB", type |-> "MARKET", ltp |-> {10000}, mwpl |-> {}, letter |-> 2,
               recent |-> {}, pending |-> {}, shortList |-> {2, 26}]
MCOrders ==
    {PlainOrder, [PlainOrder EXCEPT !.letter = 26], [PlainOrder EXCEPT !.strategy = "OWN"],
     [PlainOrder EXCEPT !.ltp = {}], [PlainOrder EXCEPT !.mwpl = {91}],
     [PlainOrder EXCEPT !.shortList = {}], [PlainOrder EXCEPT !.type = "LIMIT"],
     [PlainOrder EXCEPT !.recent = {[symbol |-> 2, direction |-> "SHORT", at |-> At(10, 23)]}],
     [PlainOrder EXCEPT !.pending = {[symbol |-> 2, direction |-> "LONG", at |-> At(10, 23)]}]}

PlainView == [positions |-> EmptyBag, pnl |-> 0, count |-> 0, halted |-> FALSE, sector |-> "IT",
              returns |-> <<1, 2>>, kelly |-> {}]
Kelly     == {[winRate |-> 60, ratio |-> 2]}
MCViews   == {PlainView, [PlainView EXCEPT !.halted = TRUE], [PlainView EXCEPT !.kelly = Kelly]}

-----------------------------------------------------------------------------
PlainBars == [count |-> 30, adx |-> <<30>>, rsi |-> <<50>>, vwap |-> 100, close |-> 101,
              vix |-> 15, atr |-> <<1, 1>>]
MCBars ==
    {PlainBars, [PlainBars EXCEPT !.count = 29], [PlainBars EXCEPT !.close = 99],
     [PlainBars EXCEPT !.adx = << >>], [PlainBars EXCEPT !.vix = 26],
     [PlainBars EXCEPT !.atr = <<1, 1, 1, 10>>]}
MCPredictions == [label : {1, 2, 3}, confidence : {599, 600}, state : {0, 1}]
MCTrained ==
    {<<[state |-> 0, label |-> 0], [state |-> 0, label |-> 2], [state |-> 1, label |-> 1]>>,
     <<[state |-> 0, label |-> 2], [state |-> 0, label |-> 2]>>}
MCTags == [n \in {"ORB"} |-> "STRAT002"]

(* Trades whose size is the one-share floor, a rupee above 3% of the        *)
(* capital, or a quarter of Kelly: within the cap, or beyond it             *)
Proposal == [entry |-> 10000, stop |-> 9800, sector |-> "IT", returns |-> <<1, -1, 2>>,
             regime |-> "BULL_TREND", snapshot |-> FALSE, kelly |-> {}]
MCProposals ==
    {[Proposal EXCEPT !.regime = "HIGH_VOL_CHAOS", !.stop = 3999],
     [Proposal EXCEPT !.regime = "HIGH_VOL_CHAOS", !.stop = 3999, !.sector = "BANK",
                      !.returns = <<2, 0, 1>>],
     [Proposal EXCEPT !.regime = "MEAN_REVERTING", !.kelly = Kelly, !.snapshot = TRUE,
                      !.returns = << >>],
     [Proposal EXCEPT !.kelly = Kelly, !.sector = "BANK", !.returns = << >>]}

(* One source of each tier                                                  *)
MCTier == [breaker |-> 1, operator |-> 2, monitor |-> 3]

-----------------------------------------------------------------------------
Init ==
    /\ part \in {"stream", "kill", "calendar", "risk", "regime", "trade"}
    /\ PubInit /\ KillInit /\ CalInit /\ RiskInit /\ RegimeInit /\ TradeInit
    /\ part # "trade" => clk = At(9, 29) /\ region = "INDIA"

Next ==
    /\ part' = part
    /\ \/ /\ part = "stream" /\ PubNext
          /\ UNCHANGED <<killVars, calVars, riskVars, regimeVars, tradeVars>>
       \/ /\ part = "kill" /\ KillNext
          /\ UNCHANGED <<pubVars, calVars, riskVars, regimeVars, tradeVars>>
       \/ /\ part = "calendar" /\ CalNext
          /\ UNCHANGED <<pubVars, killVars, riskVars, regimeVars, tradeVars>>
       \/ /\ part = "risk" /\ RiskNext
          /\ UNCHANGED <<pubVars, killVars, calVars, regimeVars, tradeVars>>
       \/ /\ part = "regime" /\ RegimeNext
          /\ UNCHANGED <<pubVars, killVars, calVars, riskVars, tradeVars>>
       \/ /\ part = "trade" /\ TradeNext
          /\ UNCHANGED <<pubVars, killVars, calVars, riskVars>>

Spec == Init /\ [][Next]_vars
=============================================================================
