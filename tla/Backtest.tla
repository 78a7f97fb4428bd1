------------------------------ MODULE Backtest ------------------------------
(***************************************************************************)
(* M07 backtesting: the EMA-crossover strategy, slippage, one backtest     *)
(* with its metrics and the promotion gate, the walk-forward optimiser     *)
(* over them, and the command that runs a backtest and stores its result.  *)
(*                                                                         *)
(* A candle is [day, minute, close]; prices are in hundredths.  A Sharpe   *)
(* ratio is kept as its square times 100 with the ratio's sign, which      *)
(* orders and compares as the ratio does and needs no roots.  TA-Lib,      *)
(* vectorbt and numpy's generator are external; the generator is the       *)
(* number of values drawn from it.                                         *)
(***************************************************************************)
EXTENDS Selection, Integers, Sequences, FiniteSets, FiniteSetsExt, SequencesExt

CONSTANTS
    Histories,      \* candle sequences, oldest first
    ParamGrid,      \* the parameters tried: a sequence of [fast, slow]
    MinCandles,     \* _MIN_CANDLES
    InSampleDays,   \* WALK_FORWARD_IN_SAMPLE_DAYS
    OutSampleDays,  \* WALK_FORWARD_OUT_OF_SAMPLE_DAYS
    StepDays,       \* WALK_FORWARD_STEP_DAYS
    MinDays,        \* PAPER_TRADING_MIN_DAYS
    InitialCash,    \* config.initial_capital
    MaxBacktests    \* bound: runs of the command

ASSUME BacktestAssumption ==
    /\ InSampleDays \in Nat \ {0} /\ OutSampleDays \in Nat \ {0} /\ StepDays \in Nat \ {0}
    /\ MinCandles \in Nat \ {0} /\ InitialCash \in Nat \ {0} /\ MaxBacktests \in Nat
    /\ \A h \in Histories : h \in Seq([day : Nat, minute : Nat, close : Nat])

SumSeq(s) == FoldLeft(+, 0, s)

-----------------------------------------------------------------------------
(* slippage.py: the bucket of a time of day; past 15:10 it is the middle    *)
GetBucket(minute) ==
    CASE minute \in (9 * 60 + 15)..(10 * 60 - 1)        -> "OPEN"
      [] minute \in (14 * 60 + 30)..(15 * 60 + 10 - 1)  -> "CLOSE"
      [] OTHER                                          -> "MID_SESSION"

(* The n-th value of the generator: one of two, around each bucket's median *)
Drawn(bucket, n) == [OPEN |-> 7, MID_SESSION |-> 4, CLOSE |-> 6][bucket] * (1 + (n % 2))

SampleSlippageBps(minute, n) == Drawn(GetBucket(minute), n)

(* TA-Lib's EMA of closes up to bar i, none before the period is full       *)
Ema(closes, period, i) ==
    IF i < period THEN {}
    ELSE {FoldLeft(LAMBDA e, c : (2 * c + (period - 1) * e) \div (period + 1),
                   SumSeq(SubSeq(closes, 1, period)) \div period,
                   SubSeq(closes, period + 1, i))}

(* ema_crossover_signals: per bar "enter", "exit" or "none", where the fast *)
(* average crosses the slow one.  An entry is signalled only out of a       *)
(* trade, an exit only in one.                                              *)
EmaSpreads(closes, p) ==
    [i \in DOMAIN closes |-> {f - s : f \in Ema(closes, p.fast, i), s \in Ema(closes, p.slow, i)}]

CrossSignals(spreads) ==
    FoldLeft(LAMBDA acc, i :
                 LET cross(sign) == i > 1 /\ \E d \in spreads[i], e \in spreads[i - 1] :
                                                  sign * d > 0 /\ sign * e <= 0
                 IN  CASE ~acc.held /\ cross(1) -> [held |-> TRUE, out |-> Append(acc.out, "enter")]
                       [] acc.held /\ cross(-1) -> [held |-> FALSE, out |-> Append(acc.out, "exit")]
                       [] OTHER                 -> [acc EXCEPT !.out = Append(@, "none")],
             [held |-> FALSE, out |-> << >>], [i \in DOMAIN spreads |-> i]).out

EmaCrossoverSignals(candles, p) ==
    IF Len(candles) < p.slow + 1 THEN [i \in DOMAIN candles |-> "none"]
    ELSE CrossSignals(EmaSpreads([i \in DOMAIN candles |-> candles[i].close], p))

-----------------------------------------------------------------------------
(* run_backtest, from the signals: prices with slippage ...                 *)
AdjPrices(candles, signals, drawn) ==
    [i \in DOMAIN candles |->
        LET before == Cardinality({j \in 1..(i - 1) : signals[j] # "none"})
            slip   == SampleSlippageBps(candles[i].minute, drawn + before)
            sign   == CASE signals[i] = "enter" -> 1 [] signals[i] = "exit" -> -1 [] OTHER -> 0
        IN  (candles[i].close * (10000 + sign * slip)) \div 10000]

(* ... vectorbt's portfolio: one share from an entry to the next exit ...   *)
Bought(signals, i) == \E j \in 1..i : signals[j] = "enter" /\ \A k \in (j + 1)..i : signals[k] # "exit"

Portfolio(candles, signals, prices) ==
    LET cash(i) == InitialCash + SumSeq([j \in 1..i |->
                       CASE signals[j] = "enter" -> -prices[j]
                         [] signals[j] = "exit" -> prices[j]
                         [] OTHER -> 0])
    IN  [i \in DOMAIN candles |->
            cash(i) + IF Bought(signals, i) THEN candles[i].close ELSE 0]

(* ... and _extract_trades: entry and exit of each, the last may be open.   *)
ExtractTrades(candles, signals, prices) ==
    LET entries == {i \in DOMAIN signals : signals[i] = "enter"}
        last    == Len(candles)
        leaves(i) == {j \in (i + 1)..last : signals[j] = "exit"}
    IN  {[entry |-> i, price |-> prices[i],
          pnl |-> (IF leaves(i) = {} THEN candles[last].close ELSE prices[Min(leaves(i))])
                  - prices[i]] : i \in entries}

(* _count_trading_days and _infer_bars_per_day *)
CountTradingDays(candles) == Cardinality({candles[i].day : i \in DOMAIN candles})
InferBarsPerDay(candles) ==
    LET delta == candles[2].minute - candles[1].minute
    IN  IF Len(candles) < 2 \/ delta <= 0 THEN 1 ELSE 375 \div delta

(* compute_metrics: signed square of the Sharpe ratio, the drawdown in      *)
(* thousandths, the win rate in percent                                     *)
Returns(equity) == [i \in 1..(Len(equity) - 1) |->
                       (1000 * (equity[i + 1] - equity[i])) \div equity[i]]

SharpeSquared(equity, barsPerDay) ==
    LET r == Returns(equity)
        n == Len(r)
        s == SumSeq(r)
        spread == n * SumSeq([i \in 1..n |-> r[i] * r[i]]) - s * s
    IN  IF n < 2 \/ spread <= 0 THEN 0
        ELSE ((IF s < 0 THEN -1 ELSE 1) * ((s * s * (n - 1) * 252 * barsPerDay) \div spread) * 100)
             \div n

MaxDrawdown(equity) ==
    Max({0} \cup UNION {{(1000 * (equity[i] - equity[j])) \div equity[i] : j \in i..Len(equity)} :
                            i \in DOMAIN equity})

ZeroMetrics == [sharpe |-> 0, drawdown |-> 0, winRate |-> 0, trades |-> 0, days |-> 0]

ComputeMetrics(trades, equity, days, barsPerDay) ==
    IF trades = {} THEN [ZeroMetrics EXCEPT !.days = days]
    ELSE [sharpe |-> SharpeSquared(equity, barsPerDay), drawdown |-> MaxDrawdown(equity),
          winRate |-> (100 * Cardinality({t \in trades : t.pnl > 0})) \div Cardinality(trades),
          trades |-> Cardinality(trades), days |-> days]

(* check_promotion_gate: the conditions that fail                           *)
CheckPromotionGate(m) ==
    (IF m.days < MinDays THEN {"days"} ELSE {})
    \cup (IF m.sharpe <= 225 THEN {"sharpe"} ELSE {})
    \cup (IF m.winRate <= 50 THEN {"win_rate"} ELSE {})
    \cup (IF m.drawdown >= 50 THEN {"drawdown"} ELSE {})

(* compute_markout_curves: the profit at one and five minutes from each     *)
(* entry, at the first candle up to two minutes later                       *)
FindCandleAtOffset(candles, from, offset) ==
    LET at == {i \in DOMAIN candles :
                 /\ candles[i].day = candles[from].day
                 /\ candles[i].minute - candles[from].minute - offset \in 0..2}
    IN  IF at = {} THEN {} ELSE {candles[Min(at)].close}

ComputeMarkoutCurves(trades, candles) ==
    [offset \in {1, 5} |->
        UNION {{c - t.price : c \in FindCandleAtOffset(candles, t.entry, offset)} : t \in trades}]

(* run_backtest: none (ValueError) when there are too few candles           *)
Evaluated(candles, signals, prices) ==
    {[metrics  |-> m,
      markout  |-> ComputeMarkoutCurves(ExtractTrades(candles, signals, prices), candles),
      failures |-> CheckPromotionGate(m)] :
        m \in {ComputeMetrics(ExtractTrades(candles, signals, prices),
                              Portfolio(candles, signals, prices),
                              CountTradingDays(candles), InferBarsPerDay(candles))}}

RunBacktest(candles, signals, drawn) ==
    IF Len(candles) < MinCandles THEN {}
    ELSE Evaluated(candles, signals, AdjPrices(candles, signals, drawn))

-----------------------------------------------------------------------------
(* walk_forward.py *)
CandlesInRange(candles, start, end) ==
    Kept(candles, {i \in DOMAIN candles : start <= candles[i].day /\ candles[i].day <= end})

(* The values a run draws from the generator                                *)
Draws(candles, p) ==
    IF Len(candles) < MinCandles THEN 0
    ELSE Cardinality({i \in DOMAIN candles : EmaCrossoverSignals(candles, p)[i] # "none"})

(* _run_with_params: no metrics for a few candles or an error               *)
RunWithParams(candles, p, drawn) ==
    FoldSet(LAMBDA r, none : r.metrics, ZeroMetrics,
            RunBacktest(candles, EmaCrossoverSignals(candles, p), drawn))

(* The grid on the in-sample candles: the first with the best Sharpe ratio  *)
Better(acc, p, sharpe, drawn) ==
    IF acc.tried = 0 \/ sharpe > acc.sharpe
    THEN [params |-> p, sharpe |-> sharpe, drawn |-> drawn, tried |-> 1]
    ELSE [acc EXCEPT !.drawn = drawn]

Optimise(candles, drawn) ==
    FoldLeft(LAMBDA acc, p : Better(acc, p, RunWithParams(candles, p, acc.drawn).sharpe,
                                    acc.drawn + Draws(candles, p)),
             [params |-> ParamGrid[1], sharpe |-> 0, drawn |-> drawn, tried |-> 0], ParamGrid)

AllDates(candles) == Ascending({candles[i].day : i \in DOMAIN candles})

HasWindow(candles, at) == at + InSampleDays + OutSampleDays <= Len(AllDates(candles))

(* Mutant: the in-sample range ends on the day at index is_end.             *)
InSampleEndMutant(dates, at) == dates[at + InSampleDays + 1]

InSampleEnd(dates, at) == dates[at + InSampleDays]

(* One turn of run_walk_forward's loop: the best parameters of the in-      *)
(* sample candles, and their result on the out-of-sample ones               *)
Tested(out, best) ==
    {[best |-> best.params, metrics |-> m, passed |-> CheckPromotionGate(m) = {},
      drawnAfter |-> best.drawn + Draws(out, best.params)] :
        m \in {RunWithParams(out, best.params, best.drawn)}}

WindowAt(candles, dates, at, drawn) ==
    LET outStart == dates[at + InSampleDays + 1]
        outEnd   == dates[at + InSampleDays + OutSampleDays]
    IN  {[at |-> at, drawn |-> drawn, inStart |-> dates[at + 1], inEnd |-> InSampleEnd(dates, at),
          outStart |-> outStart, outEnd |-> outEnd, result |-> r] :
            r \in Tested(CandlesInRange(candles, outStart, outEnd),
                         Optimise(CandlesInRange(candles, dates[at + 1], InSampleEnd(dates, at)),
                                  drawn))}

VARIABLES
    candleLog,  \* the candles this process works on
    walk,       \* run_walk_forward: "off" (the command runs), "on" or "done"
    windows,    \* its windows so far
    runStage,   \* of the command: "idle", "tested", "reported"
    btReport,   \* the result it works on, at most one
    runIds,     \* run ids made
    reportFiles,   \* run ids with an HTML and a CSV file
    resultTable    \* backtest_results: run id to the row's result

btVars == <<candleLog, walk, windows, runStage, btReport, runIds, reportFiles, resultTable>>

BtInit ==
    /\ candleLog \in Histories /\ windows = << >>
    /\ walk \in {"off", IF candleLog = << >> THEN "done" ELSE "on"}
    /\ runStage = "idle" /\ btReport = {} /\ runIds = 0 /\ reportFiles = {}
    /\ resultTable = [r \in {} |-> << >>]

cmdVars == <<runStage, btReport, runIds, reportFiles, resultTable>>

NextWindow ==
    /\ walk = "on"
    /\ LET at    == StepDays * Len(windows)
           drawn == IF windows = << >> THEN 0 ELSE windows[Len(windows)].result.drawnAfter
       IN  IF HasWindow(candleLog, at)
           THEN /\ \E w \in WindowAt(candleLog, AllDates(candleLog), at, drawn) :
                      windows' = Append(windows, w)
                /\ UNCHANGED walk
           ELSE walk' = "done" /\ UNCHANGED windows
    /\ UNCHANGED <<candleLog, cmdVars>>

(* backtesting/cli.main: query, signals, run_backtest under a new id; with  *)
(* no candles, or too few, nothing is made.                                 *)
CmdBacktest ==
    /\ walk = "off" /\ runStage = "idle" /\ runIds < MaxBacktests
    /\ candleLog # << >>
    /\ \E r \in RunBacktest(candleLog, EmaCrossoverSignals(candleLog, ParamGrid[1]), 0) :
          btReport' = {[id |-> runIds + 1, result |-> r, filed |-> FALSE]}
    /\ runIds' = runIds + 1 /\ runStage' = "tested"
    /\ UNCHANGED <<candleLog, walk, windows, reportFiles, resultTable>>

(* generate_reports writes the files before the result is stored ...        *)
GenerateReports ==
    /\ runStage = "tested"
    /\ \E r \in btReport :
          reportFiles' = reportFiles \cup {r.id} /\ btReport' = {[r EXCEPT !.filed = TRUE]}
    /\ runStage' = "reported"
    /\ UNCHANGED <<candleLog, walk, windows, runIds, resultTable>>

(* ... save_result inserts the row, unless --no-db; a row with the id keeps *)
(* its metrics and takes the new verdict and paths.                         *)
SaveResult(r) ==
    resultTable' = [i \in DOMAIN resultTable \cup {r.id} |->
        IF i # r.id THEN resultTable[i]
        ELSE IF i \in DOMAIN resultTable
        THEN [resultTable[i] EXCEPT !.passed = r.result.failures = {}, !.filed = r.filed]
        ELSE [metrics |-> r.result.metrics, passed |-> r.result.failures = {}, filed |-> r.filed]]

CmdEnds ==
    /\ runStage = "reported"
    /\ \/ \E r \in btReport : SaveResult(r)
       \/ UNCHANGED resultTable
    /\ runStage' = "idle" /\ btReport' = {}
    /\ UNCHANGED <<candleLog, walk, windows, runIds, reportFiles>>

BtNext == NextWindow \/ CmdBacktest \/ GenerateReports \/ CmdEnds

-----------------------------------------------------------------------------
SameUntil(a, b, day) == CandlesInRange(a, 0, day - 1) = CandlesInRange(b, 0, day - 1)

(* A window's parameters are chosen without a look ahead: whatever the      *)
(* candles from the first out-of-sample day on had been, the same ones      *)
(* would have been taken (from the same position of the generator, which    *)
(* the windows share), and its out-of-sample result does not depend on any  *)
(* later candle.                                                            *)
NoLookAhead ==
    \A i \in DOMAIN windows : \A other \in {h \in Histories : AllDates(h) = AllDates(candleLog)} :
        \A w \in WindowAt(other, AllDates(other), windows[i].at, windows[i].drawn) :
            /\ SameUntil(candleLog, other, w.outStart) => w.result.best = windows[i].result.best
            /\ SameUntil(candleLog, other, w.outEnd + 1) => w.result.metrics = windows[i].result.metrics
=============================================================================
