----------------------------- MODULE RiskEngine -----------------------------
(***************************************************************************)
(* M12 risk engine: the circuit breaker, the 3-5-7 limits, the correlation *)
(* guard, the two position sizings, and evaluate over them; and callers    *)
(* that read the open positions, ask evaluate and open what it approves.   *)
(* Money is in rupees; the code's floats are taken as exact numbers, and   *)
(* its one rounding, of a percentage to four places, as what it lets pass. *)
(***************************************************************************)
EXTENDS Integers, Sequences, FiniteSets, FiniteSetsExt, SequencesExt, Bags

CONSTANTS
    Capital,         \* params.capital
    MaxDailyTrades,  \* MAX_DAILY_TRADES
    Proposals,       \* trades that are proposed
    Sectors,         \* sectors of the proposals
    Callers          \* processes that evaluate and open positions

ASSUME RiskAssumption ==
    /\ Capital \in Nat /\ MaxDailyTrades \in Nat /\ IsFiniteSet(Callers)
    /\ \A p \in Proposals : /\ p.entry \in Int /\ p.stop \in Int
                            /\ \A k \in p.kelly : k.winRate \in Int /\ k.ratio \in Int

Dist(a, b) == IF a >= b THEN a - b ELSE b - a

-----------------------------------------------------------------------------
(* circuit_breaker.py *)
CheckHaltedFlag(halted) == ~halted
CheckDailyLossLimit(pnl) == Capital > 0 /\ 100 * pnl > -2 * Capital
CheckDailyTradeCount(count) == count < MaxDailyTrades
CheckCircuitBreaker(pnl, halted) == CheckHaltedFlag(halted) /\ CheckDailyLossLimit(pnl)

(* _regime_risk_pct, in quarters of a percent                               *)
RegimeRisk(regime) ==
    CASE regime = "BULL_TREND"     -> 4
      [] regime = "BEAR_TREND"     -> 3
      [] regime = "HIGH_VOL_CHAOS" -> 0
      [] OTHER                     -> 2

(* What SNAPSHOT_WINDOW_SIZE_MULTIPLIER divides by                          *)
Halving(snapshot) == IF snapshot THEN 2 ELSE 1

(* correlation.py: pearson_correlation of the last n returns, as the pair   *)
(* covariance and product of variances                                      *)
LastReturns(s, n) == SubSeq(s, Len(s) - n + 1, Len(s))
SumOver(s, Op(_)) == FoldLeft(LAMBDA acc, i : acc + Op(i), 0, [i \in 1..Len(s) |-> i])

(* check_correlation_guard for one open position: |r| > 0.7, without roots  *)
TooCorrelated(a, b) ==
    LET n  == Min({Len(a), Len(b), 20})
        x  == LastReturns(a, n)
        y  == LastReturns(b, n)
        sx == SumOver(x, LAMBDA i : x[i])
        sy == SumOver(y, LAMBDA i : y[i])
        cov == n * SumOver(x, LAMBDA i : x[i] * y[i]) - sx * sy
        vx  == n * SumOver(x, LAMBDA i : x[i] * x[i]) - sx * sx
        vy  == n * SumOver(y, LAMBDA i : y[i] * y[i]) - sy * sy
    IN  n >= 2 /\ vx > 0 /\ vy > 0 /\ 100 * cov * cov > 49 * vx * vy

CheckCorrelationGuard(returns, positions) ==
    Len(returns) < 2 \/ \A q \in BagToSet(positions) : ~TooCorrelated(returns, q.returns)

-----------------------------------------------------------------------------
(* The risk of the open positions, all of them or those of a sector         *)
RiskIn(positions, sectors) ==
    SumFunctionOnSet([q \in BagToSet(positions) |-> q.risk * positions[q]],
                     {q \in BagToSet(positions) : q.sector \in sectors})

(* The preliminary risk, in eight-hundredths of a rupee                     *)
PreliminaryRisk(p) == Capital * RegimeRisk(p.regime) * (IF p.snapshot THEN 1 ELSE 2)

(* Mutant: the heat of the portfolio is not checked.                        *)
CheckThreeFiveSevenMutant(view, sector, prelim) ==
    /\ Capital > 0
    /\ prelim <= 8 * 3 * Capital
    /\ 800 * RiskIn(view.positions, {sector}) + prelim <= 8 * 5 * Capital

(* _check_three_five_seven, for a preliminary risk: 3% a trade, 5% a        *)
(* sector, 7% the portfolio                                                 *)
CheckThreeFiveSeven(view, sector, prelim) ==
    /\ Capital > 0
    /\ prelim <= 8 * 3 * Capital
    /\ 800 * RiskIn(view.positions, {sector}) + prelim <= 8 * 5 * Capital
    /\ 800 * RiskIn(view.positions, Sectors) + prelim <= 8 * 7 * Capital

(* sizing.py: the stop must be 0.05% of the entry away, else ValueError.    *)
StopTooClose(p) == 10000 * Dist(p.entry, p.stop) < 5 * p.entry

(* raw_qty as a fraction, rounded down to whole shares, one at least        *)
Shares(num, den) == IF den = 0 THEN 1 ELSE Max({1, num \div den})

(* compute_atr_position_size: the regime's share, taken by the regime's     *)
(* multiplier once more                                                     *)
AtrPositionSize(p) ==
    IF p.entry <= 0 \/ StopTooClose(p) THEN {}
    ELSE {Shares(Capital * RegimeRisk(p.regime) * RegimeRisk(p.regime),
                 1600 * Halving(p.snapshot) * Dist(p.entry, p.stop))}

(* compute_kelly_position_size: a quarter of Kelly, from the win rate in    *)
(* percent and the ratio of wins to losses                                  *)
KellyPositionSize(p, k) ==
    IF k.winRate \notin 1..99 \/ k.ratio <= 0 \/ StopTooClose(p) THEN {}
    ELSE LET edge == Max({0, k.ratio * k.winRate - (100 - k.winRate)})
         IN  {Shares(Capital * edge * RegimeRisk(p.regime),
                     1600 * k.ratio * Halving(p.snapshot) * Dist(p.entry, p.stop))}

(* Mutant: the cap is not applied again to the computed size.               *)
FinalCapMutant(risk) == TRUE

(* A hundred times what FINAL_PER_TRADE_CAP lets a size risk: risk_pct is   *)
(* rounded to four places, so anything up to 3.00005% counts as 3%.         *)
TradeCap == 3 * Capital + Capital \div 20000
FinalCap(risk) == 100 * risk <= TradeCap

(* RiskEngine.evaluate: the quantity and its risk, or none on the first     *)
(* check that fails.  The limits see a preliminary risk; the size comes     *)
(* after, is at least one share, and meets only the per-trade cap again.    *)
RiskEvaluate(p, view) ==
    LET sizes == IF p.kelly = {} THEN AtrPositionSize(p)
                 ELSE UNION {KellyPositionSize(p, k) : k \in p.kelly}
        risks == {[quantity |-> q, risk |-> q * Dist(p.entry, p.stop)] : q \in sizes}
    IN  IF /\ CheckCircuitBreaker(view.pnl, view.halted)
           /\ CheckDailyTradeCount(view.count)
           /\ CheckThreeFiveSeven(view, p.sector, PreliminaryRisk(p))
           /\ CheckCorrelationGuard(p.returns, view.positions)
        THEN {s \in risks : FinalCap(s.risk)}
        ELSE {}

-----------------------------------------------------------------------------
(* The callers.  Nothing locks the positions between reading them and       *)
(* opening another.                                                         *)

VARIABLES
    book,    \* the open positions, a bag of [sector, risk, returns]
    count,   \* trades opened today
    halt,    \* system:status:halted
    asked    \* each caller's parameters: none, or one [proposal, view]

riskVars == <<book, count, halt, asked>>

RiskInit ==
    /\ book = EmptyBag /\ count = 0 /\ halt = FALSE
    /\ asked = [c \in Callers |-> {}]

ReadParameters(c, p, pnl) ==
    /\ asked[c] = {}
    /\ asked' = [asked EXCEPT ![c] =
           {[proposal |-> p,
             view |-> [positions |-> book, count |-> count, halted |-> halt, pnl |-> pnl]]}]
    /\ UNCHANGED <<book, count, halt>>

Decide(c) ==
    \E a \in asked[c] :
        /\ asked' = [asked EXCEPT ![c] = {}]
        /\ \/ \E s \in RiskEvaluate(a.proposal, a.view) :
                 /\ book' = book (+) SetToBag({[sector |-> a.proposal.sector, risk |-> s.risk,
                                                returns |-> a.proposal.returns]})
                 /\ count' = count + 1
           \/ RiskEvaluate(a.proposal, a.view) = {} /\ UNCHANGED <<book, count>>
        /\ UNCHANGED halt

Close(q) == book' = book (-) SetToBag({q}) /\ UNCHANGED <<count, halt, asked>>

HaltSet == ~halt /\ halt' = TRUE /\ UNCHANGED <<book, count, asked>>

RiskNext ==
    \/ \E c \in Callers : Decide(c) \/ \E p \in Proposals, loss \in {0, 2} :
                              ReadParameters(c, p, -((loss * Capital) \div 100))
    \/ \E q \in BagToSet(book) : Close(q)
    \/ HaltSet

-----------------------------------------------------------------------------
(* Whatever the callers interleave, the heat stays below the 7% of the      *)
(* portfolio limit (5% for a sector) plus one capped trade per caller: the  *)
(* limits are applied to a preliminary estimate on a stale view, so the     *)
(* overshoot is real, but a caller makes at most one trade beyond them, and *)
(* that one is within the cap as rounded.                                   *)
HeatBounded ==
    /\ 100 * RiskIn(book, Sectors) <= 7 * Capital + Cardinality(Callers) * TradeCap
    /\ \A s \in Sectors : 100 * RiskIn(book, {s}) <= 5 * Capital + Cardinality(Callers) * TradeCap
=============================================================================
