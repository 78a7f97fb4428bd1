---------------------------- MODULE TradeDecision ----------------------------
(***************************************************************************)
(* From candles to a tagged order: patterns, classifier, signal engine,    *)
(* risk engine and compliance engine, one after the other, with time       *)
(* passing between them.  The repository has no process that calls them    *)
(* all; their arguments name each other's results, and this caller passes  *)
(* them on, with the times and the group open that the checks ask for.     *)
(***************************************************************************)
EXTENDS Session, Patterns, SignalGates, Regime, RiskEngine, Compliance

CONSTANTS
    Contexts,   \* signal contexts, but for patterns, regime and times;
                \* their field frames holds the candles of each timeframe
    Instants,   \* times of day at which something is done
    Orders,     \* what an order may add to its signal
    Views       \* what the risk engine is told of the account

ASSUME TradeAssumption == Instants \subseteq Nat

VARIABLES
    clk,      \* time of day
    region,   \* "INDIA" or "AUSTRALIA"
    stage,    \* "idle", "signal", "sized", "placed" or "rejected"
    sig,      \* the signal's result
    made,     \* what the signal was made at and from
    sized,    \* the approved size and its risk
    placed    \* the tagged order and when it was approved

tradeVars == <<clk, region, stage, sig, made, sized, placed>>

NoSignal == [generated |-> FALSE]

TradeInit ==
    /\ clk \in Instants /\ region \in DOMAIN Hours
    /\ stage = "idle" /\ sig = NoSignal /\ made = [at |-> 0, chaotic |-> FALSE, regime |-> ""]
    /\ sized = {} /\ placed = {}

(* The snapshot of the first timeframe and the confirmation over all of     *)
(* them; a context without candles has neither.                             *)
WithSnapshots(c, multi) ==
    [f \in (DOMAIN c \ {"frames"}) \cup {"patterns", "multiTf"} |->
        CASE f = "patterns" -> {multi.snapshots[tf] : tf \in DOMAIN c.frames \cap {"5m"}}
          [] f = "multiTf"  -> IF DOMAIN c.frames = {} THEN {} ELSE {multi}
          [] OTHER          -> c[f]]

WithPatterns(c) == WithSnapshots(c, ComputeMultiTimeframe(c.frames))

ReadyContexts == {WithPatterns(c) : c \in Contexts}

(* The context's regime is the newest of the stream, its session the        *)
(* region's.                                                                *)
ContextOf(c, r) ==
    [f \in DOMAIN c \cup {"regime", "evaluatedAt", "sessionOpen", "sessionClose", "snapshot"} |->
        CASE f = "regime"       -> r.regime
          [] f = "evaluatedAt"  -> clk
          [] f = "sessionOpen"  -> Hours[region].open
          [] f = "sessionClose" -> Hours[region].close
          [] f = "snapshot"     -> IsSnapshotWindowActive(region, clk)
          [] OTHER              -> c[f]]

EvaluateSignal ==
    /\ stage = "idle"
    /\ \E r \in ReadLatestRegime, c \in ReadyContexts :
          /\ sig' = Evaluate(ContextOf(c, r))
          /\ made' = [at |-> clk, chaotic |-> chaotic, regime |-> r.regime]
          /\ stage' = IF sig'.generated THEN "signal" ELSE "rejected"
    /\ UNCHANGED <<clk, region, sized, placed, regimeVars>>

EvaluateRisk ==
    /\ stage = "signal"
    /\ \E v \in Views :
          sized' = RiskEvaluate([entry |-> sig.entry, stop |-> sig.stop, sector |-> v.sector,
                                 returns |-> v.returns, regime |-> made.regime, kelly |-> v.kelly,
                                 snapshot |-> IsSnapshotWindowActive(region, clk)], v)
    /\ stage' = IF sized' = {} THEN "rejected" ELSE "sized"
    /\ UNCHANGED <<clk, region, sig, made, placed, regimeVars>>

OrderOf(o, s) ==
    [exchange |-> IF region = "INDIA" THEN "NSE" ELSE "ASX", direction |-> sig.direction,
     strategy |-> o.strategy, type |-> o.type, ltp |-> o.ltp, mwpl |-> o.mwpl,
     symbol |-> o.letter, isExit |-> FALSE, capital |-> Capital,
     notional |-> s.quantity * sig.entry]

CheckCompliance ==
    /\ stage = "sized"
    /\ \E o \in Orders, s \in sized :
          LET caller == [now |-> {clk}, recent |-> o.recent, pending |-> o.pending,
                         shortList |-> o.shortList, groupOpen |-> TickerOpenTime(o.letter)]
          IN  placed' = {[order |-> t, at |-> clk] :
                           t \in ComplianceCheck(OrderOf(o, s), caller, clk)}
    /\ stage' = IF placed' = {} THEN "rejected" ELSE "placed"
    /\ UNCHANGED <<clk, region, sig, made, sized, regimeVars>>

TradeTick ==
    /\ \E t \in Instants : t > clk /\ clk' = t /\ \A u \in Instants : u > clk => u >= t
    /\ stage \in {"idle", "signal", "sized"}
    /\ UNCHANGED <<region, stage, sig, made, sized, placed, regimeVars>>

Learn ==
    /\ stage = "idle"
    /\ ClassifyAndPublish \/ \E t \in TrainedMaps : Fit(t)
    /\ UNCHANGED tradeVars

TradeNext == Learn \/ EvaluateSignal \/ EvaluateRisk \/ CheckCompliance \/ TradeTick

-----------------------------------------------------------------------------
(* An order from a signal of the same day (on the ASX: before the signal    *)
(* expires, since only India's rules block entries by the clock of the      *)
(* session) is approved only in a tradeable session state, before the       *)
(* square-off is due and when its ticker has opened: gate 7's window, the   *)
(* expiry, the force square-off and the staggered open fit together.        *)
EntryInsideSession ==
    \A p \in placed :
        region = "INDIA" \/ p.at <= SignalExpiry(made.at) =>
            /\ MarketHoursOnly(GetState(region, TRUE, p.at))
            /\ ~SquareOffDue(region, p.at)
            /\ \A g \in TickerOpenTime(p.order.order.symbol) : region = "AUSTRALIA" => p.at > g

(* No order comes from a signal whose regime was classified in chaos: the   *)
(* risk engine would still size it at one share, so gate 1 must see it      *)
(* through the classifier, the model and the stream.                        *)
ChaosBlocked == placed # {} => ~made.chaotic
=============================================================================
