----------------------------- MODULE Compliance -----------------------------
(***************************************************************************)
(* M13 compliance engine: the rules for India and Australia, the strategy  *)
(* registry, and ComplianceEngine.check over them.  Its answer is a set of *)
(* violation codes, and a tagged order when the set is empty.  Prices are  *)
(* integers in units of 0.01, times are seconds of the day; a value the    *)
(* caller may leave out is a set of at most one.                           *)
(***************************************************************************)
EXTENDS Integers, FiniteSets

CONSTANTS
    RegisteredTags,  \* the tag of each registered strategy
    UseGeneric       \* USE_GENERIC_ALGO_ID

IndiaExchanges == {"NSE", "BSE"}
AsxExchanges   == {"ASX"}
GenericAlgoTag == "GENALG01"

When(condition, code) == IF condition THEN {code} ELSE {}

Opposite(direction) == IF direction = "LONG" THEN "SHORT" ELSE "LONG"

-----------------------------------------------------------------------------
(* strategy_registry.py *)
LoadRegistry == IF UseGeneric THEN [s \in DOMAIN RegisteredTags |-> GenericAlgoTag]
                ELSE RegisteredTags

(* resolve: the generic tag for any name, or the registered one             *)
ResolveStrategy(name) ==
    IF UseGeneric THEN {GenericAlgoTag}
    ELSE IF name \in DOMAIN LoadRegistry THEN {LoadRegistry[name]} ELSE {}

-----------------------------------------------------------------------------
(* india.py *)
CheckStrategyId(o, tags) == When(tags = {}, "NO_STRATEGY_ID")

(* compute_mpp_price: 0.25% beyond the last traded price, rounded to paise  *)
ComputeMppPrice(o) ==
    {LET offset == (10000 + (IF o.direction = "LONG" THEN 25 ELSE -25)) * p
     IN  (offset + 5000) \div 10000 : p \in {q \in o.ltp : q > 0}}

(* check_market_order: a market order becomes a limit at that price.        *)
IsIndiaMarket(o) == o.exchange \in IndiaExchanges /\ o.type = "MARKET"
CheckMarketOrder(o) ==
    When(IsIndiaMarket(o) /\ ComputeMppPrice(o) = {}, "MARKET_ORDER_NO_LTP")
EffectiveType(o) == IF IsIndiaMarket(o) /\ ComputeMppPrice(o) # {} THEN "MPP" ELSE o.type

CheckLeverage(o) ==
    When(/\ ~o.isExit /\ o.capital > 0 /\ o.notional > 0
         /\ o.notional > 5 * o.capital, "LEVERAGE_EXCEEDED")

CheckMwpl(o) == When(~o.isExit /\ (\E pct \in o.mwpl : pct > 90), "MWPL_EXCEEDED")

CheckForceSquareOff(o, t) ==
    When(~o.isExit /\ t >= 60 * (60 * 15 + 10), "FORCE_SQUARE_OFF")

(* run_india_checks: the last only when the caller gives a time             *)
RunIndiaChecks(o, tags, now) ==
    UNION ({CheckStrategyId(o, tags), CheckMarketOrder(o), CheckLeverage(o), CheckMwpl(o)}
           \cup {CheckForceSquareOff(o, t) : t \in now})

-----------------------------------------------------------------------------
(* australia.py *)
CheckWashTrading(o, recent, t) ==
    When(\E r \in recent : /\ r.symbol = o.symbol /\ r.direction = Opposite(o.direction)
                           /\ r.at >= t - 60, "WASH_TRADING")

CheckLayering(o, pending) ==
    When(\E r \in pending : r.symbol = o.symbol /\ r.direction = Opposite(o.direction),
         "LAYERING")

CheckShortSell(o, shortList) ==
    When(o.direction = "SHORT" /\ ~o.isExit /\ o.symbol \notin shortList,
         "SHORT_SELL_NOT_APPROVED")

(* check_staggered_open: 15 minutes from the open of the symbol's group     *)
CheckStaggeredOpen(o, groupOpen, t) ==
    When(~o.isExit /\ (\E g \in groupOpen : t - g < 60 * 15), "STAGGERED_OPEN_NOISE_FILTER")

(* check_post_close_cutoff: 16:21:30 *)
CheckPostCloseCutoff(o, t) ==
    When(~o.isExit /\ t >= 60 * (60 * 16 + 21) + 30, "POST_CLOSE_CUTOFF")

RunAustraliaChecks(o, caller, t) ==
    UNION ({CheckWashTrading(o, caller.recent, t), CheckLayering(o, caller.pending),
            CheckShortSell(o, caller.shortList), CheckStaggeredOpen(o, caller.groupOpen, t)}
           \cup {CheckPostCloseCutoff(o, u) : u \in caller.now})

-----------------------------------------------------------------------------
(* ComplianceEngine.check: the rules of the order's exchange (none for      *)
(* another), then a rejection or a tagged order                             *)
Violations(o, caller, t) ==
    CASE o.exchange \in IndiaExchanges ->
             RunIndiaChecks(o, ResolveStrategy(o.strategy), caller.now)
      [] o.exchange \in AsxExchanges   -> RunAustraliaChecks(o, caller, t)
      [] OTHER                         -> {}

(* An unregistered strategy outside India is tagged with its own name.      *)
TaggedOrder(o) ==
    [order |-> o, type |-> EffectiveType(o),
     tag |-> IF ResolveStrategy(o.strategy) = {} THEN o.strategy
             ELSE CHOOSE tag \in ResolveStrategy(o.strategy) : TRUE,
     price |-> IF EffectiveType(o) = "MPP" THEN ComputeMppPrice(o) ELSE {}]

ComplianceCheck(o, caller, t) ==
    IF Violations(o, caller, t) # {} THEN {} ELSE {TaggedOrder(o)}
=============================================================================
