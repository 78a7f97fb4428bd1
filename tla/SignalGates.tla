----------------------------- MODULE SignalGates -----------------------------
(***************************************************************************)
(* M11 signal engine: the nine gates over a SignalContext and the result   *)
(* SignalEngine.evaluate makes of them.  Confidence is in thousandths;     *)
(* prices, volumes and indicators are integers.  A value the code may not  *)
(* have (None) is a set of at most one.                                    *)
(***************************************************************************)
EXTENDS Integers, Sequences, FiniteSets, FiniteSetsExt

Long(c) == c.direction = "LONG"

(* a beyond b in the context's direction                                    *)
Beyond(c, a, b) == IF Long(c) THEN a > b ELSE a < b

GateFails == [passed |-> FALSE, add |-> 0]
GatePasses(bonus) == [passed |-> TRUE, add |-> bonus]
GateIf(condition, bonus) == IF condition THEN GatePasses(bonus) ELSE GateFails

(* Mutant: chaos is left to the position sizing.                            *)
Gate1Mutant(c) ==
    GateIf(~ \/ Long(c) /\ c.regime = "BEAR_TREND"
             \/ ~Long(c) /\ c.regime = "BULL_TREND", 0)

(* gate_1_regime *)
Gate1(c) ==
    GateIf(~ \/ c.regime = "HIGH_VOL_CHAOS"
             \/ Long(c) /\ c.regime = "BEAR_TREND"
             \/ ~Long(c) /\ c.regime = "BULL_TREND", 0)

Breakout(c) == UNION {UNION {o.breakout : o \in s.orb} : s \in c.patterns}

(* _check_indicator *)
CheckIndicator(name, c) ==
    CASE name = "EMA"        -> \E a \in c.ema9, b \in c.ema21 : Beyond(c, a, b)
      [] name = "VWAP"       -> \E v \in c.vwap : Beyond(c, c.price, v)
      [] name = "RSI"        -> \E r \in c.rsi : IF Long(c) THEN r > 55 ELSE r < 45
      [] name = "MACD"       -> \E h \in c.macd : Beyond(c, h, 0)
      [] name = "STOCHASTIC" -> \E k \in c.stochK, d \in c.stochD :
                                    Beyond(c, k, 50) /\ Beyond(c, k, d)
      [] name = "BBANDS"     -> \E m \in c.bbMiddle : Beyond(c, c.price, m)
      [] name = "ORB"        -> Breakout(c) = {IF Long(c) THEN 1 ELSE -1}
      [] name = "VOLUME"     -> c.avgVolume > 0 /\ 2 * c.volume > 3 * c.avgVolume

Gate2Indicators == {"EMA", "VWAP", "RSI", "MACD", "STOCHASTIC", "BBANDS", "ORB", "VOLUME"}

(* gate_2_indicators: three of the eight; each adds to the confidence.      *)
Gate2(c) ==
    LET agreeing == Cardinality({n \in Gate2Indicators : CheckIndicator(n, c)})
    IN  GateIf(agreeing >= 3, 20 * agreeing)

(* gate_3_order_flow: heavy volume with a small delta is absorption         *)
Absorption(c, delta) ==
    /\ c.volume > 0 /\ c.volume > 2 * c.avgVolume
    /\ 5 * (IF delta < 0 THEN -delta ELSE delta) < c.volume

Gate3(c) ==
    GateIf(\E delta \in c.volumeDelta :
               ~Absorption(c, delta) /\ (Long(c) <=> delta > 0), 70)

(* The reason text of an absorption divides by the average volume.          *)
Gate3Raises(c) == c.avgVolume = 0 /\ \E delta \in c.volumeDelta : Absorption(c, delta)

(* gate_4_candlestick: the bar index is compared with the NUMBER of         *)
(* patterns, not with the last bar.                                         *)
Gate4(c) ==
    GateIf(\E s \in c.patterns :
              \/ \E i \in DOMAIN s.candles :
                    /\ Len(s.candles) - s.candles[i].bar <= 3
                    /\ s.candles[i].direction = IF Long(c) THEN 100 ELSE -100
              \/ Breakout(c) = {IF Long(c) THEN 1 ELSE -1}, 70)

(* gate_5_multi_timeframe *)
Gate5(c) ==
    GateIf(\E m \in c.multiTf : (IF Long(c) THEN m.bullish ELSE m.bearish) # {}, 100)

(* gate_6_sr_proximity: within 0.5% of a level on the right side            *)
Gate6(c) ==
    GateIf(\E s \in c.patterns : \E level \in s.levels :
              /\ level.type = IF Long(c) THEN "SUPPORT" ELSE "RESISTANCE"
              /\ level.price > 0
              /\ LET gap == c.price - level.price
                 IN  200 * (IF gap < 0 THEN -gap ELSE gap) <= level.price, 50)

(* Mutant: only the opening minutes are filtered.                           *)
Gate7Mutant(c) == GateIf(c.evaluatedAt >= c.sessionOpen + 60 * 15, 0)

(* gate_7_session_timing *)
Gate7(c) ==
    GateIf(/\ c.evaluatedAt >= c.sessionOpen + 60 * 15
           /\ c.evaluatedAt < c.sessionClose - 60 * 30, 0)

(* gate_8_divergence adjusts the confidence and never fails.                *)
Gate8Rsi(c, r) ==
    CASE Long(c) /\ r > 75            -> -100
      [] ~Long(c) /\ r < 25           -> -100
      [] Long(c) /\ r \in 51..70      -> 50
      [] ~Long(c) /\ r \in 30..49     -> 50
      [] OTHER                        -> 0
Gate8Macd(c, h) == IF Beyond(c, h, 0) THEN 50 ELSE IF h # 0 THEN -100 ELSE 0
Gate8Sentiment(c, score) == IF Beyond(c, score, IF Long(c) THEN 300 ELSE -300) THEN 25 ELSE 0

Gate8(c) ==
    GatePasses(  MapThenSumSet(LAMBDA r : Gate8Rsi(c, r), c.rsi)
               + MapThenSumSet(LAMBDA h : Gate8Macd(c, h), c.macd)
               + MapThenSumSet(LAMBDA s : Gate8Sentiment(c, s), c.sentiment))

(* gate_9_confidence *)
Gate9(confidence, c) == GateIf(confidence >= IF c.snapshot THEN 800 ELSE 700, 0)

-----------------------------------------------------------------------------
(* _compute_stop_loss: 1.5 ATR against the trade                            *)
ComputeStopLoss(price, atr, direction) ==
    IF direction = "LONG" THEN price - (3 * atr) \div 2 ELSE price + (3 * atr) \div 2

(* _compute_targets: 1.5 and 3 times the risk, whatever the regime          *)
ComputeTargets(price, stop, direction) ==
    LET risk == IF price >= stop THEN price - stop ELSE stop - price
        sign == IF direction = "LONG" THEN 1 ELSE -1
    IN  <<price + sign * ((3 * risk) \div 2), price + sign * 3 * risk>>

ComputeStopAndTargets(c) ==
    LET stop == ComputeStopLoss(c.price, c.atr, c.direction)
    IN  [stop |-> stop, targets |-> ComputeTargets(c.price, stop, c.direction)]

(* _failed_result *)
FailedResult(c, gate) ==
    [generated |-> FALSE, failedAt |-> gate, confidence |-> 0, direction |-> c.direction,
     entry |-> c.price, stop |-> 0, targets |-> <<0, 0>>]

(* SignalEngine.evaluate: gates 1 to 7 in order, up to the first that       *)
(* fails; then 8, the clamp, and 9.  A raise is recorded as gate 0.         *)
Clamp(x) == Max({0, Min({x, 1000})})

Passed(c, confidence) ==
    IF ~Gate9(confidence, c).passed THEN FailedResult(c, 9)
    ELSE [generated |-> TRUE, failedAt |-> 10, confidence |-> confidence,
          direction |-> c.direction, entry |-> c.price,
          stop |-> ComputeStopAndTargets(c).stop, targets |-> ComputeStopAndTargets(c).targets]

AfterGates(c, gates) ==
    LET failed == {g \in 1..7 : ~gates[g].passed} IN
    IF failed # {} THEN FailedResult(c, IF Min(failed) = 3 /\ Gate3Raises(c) THEN 0 ELSE Min(failed))
    ELSE Passed(c, Clamp(400 + MapThenSumSet(LAMBDA g : gates[g].add, 1..7) + Gate8(c).add))

Evaluate(c) ==
    AfterGates(c, <<Gate1(c), Gate2(c), Gate3(c), Gate4(c), Gate5(c), Gate6(c), Gate7(c)>>)

(* signal_expiry_ms and the message's expires_at: five minutes, in seconds  *)
SignalExpiry(evaluatedAt) == evaluatedAt + 60 * 5
=============================================================================
