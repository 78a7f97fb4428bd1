------------------------------- MODULE Regime -------------------------------
(***************************************************************************)
(* M08: feature extraction, the classifier (rules until it is fitted, then *)
(* a random forest with a hidden Markov model behind it), its storage in   *)
(* the model registry, and the stream through which its answers reach the  *)
(* signal engine.  TA-Lib, scikit-learn, hmmlearn and MLflow are external: *)
(* their outputs are inputs here.                                          *)
(***************************************************************************)
EXTENDS Integers, Sequences, FiniteSets, SequencesExt

CONSTANTS
    Bars,         \* candle windows features are taken from
    Predictions,  \* what the two models may say: [label, confidence, state]
    TrainedMaps,  \* HMM states and forest labels seen in training
    MaxSaved      \* bound: runs in the registry

VARIABLES
    fitted,       \* RegimeClassifier._is_fitted
    stateMap,     \* _hmm_state_to_regime
    registry,     \* saved runs: [map, stage]
    regimeStream, \* newest entry of regime:changes, if any
    chaotic       \* ghost: the features that entry was made from are chaos

regimeVars == <<fitted, stateMap, registry, regimeStream, chaotic>>

RegimeOrder == <<"BEAR_TREND", "BULL_TREND", "HIGH_VOL_CHAOS", "MEAN_REVERTING">>
HmmStates   == 0..3

RegimeInit ==
    /\ fitted = FALSE /\ stateMap = [s \in {} |-> ""] /\ registry = << >>
    /\ regimeStream = {} /\ chaotic = FALSE

-----------------------------------------------------------------------------
(* extract_features *)
LastValid(s) == IF s = << >> THEN 0 ELSE s[Len(s)]

Total(s) == FoldLeft(+, 0, s)

AtrSpike(atr) ==
    LET recent == SubSeq(atr, IF Len(atr) > 20 THEN Len(atr) - 19 ELSE 1, Len(atr))
    IN  Len(atr) >= 2 /\ LastValid(atr) * Len(recent) > 2 * Total(recent)

(* Fewer than 30 candles raise ValueError; without volume there is no VWAP. *)
ExtractFeatures(b) ==
    IF b.count < 30 THEN {}
    ELSE {[adx |-> LastValid(b.adx), rsi |-> LastValid(b.rsi),
           vwapDeviation |-> IF b.vwap > 0 THEN b.close - b.vwap ELSE 0,
           vix |-> b.vix, atrSpike |-> AtrSpike(b.atr)]}

-----------------------------------------------------------------------------
(* RegimeClassifier *)
IsChaos(f) == f.vix > 25 \/ f.atrSpike

RuleBasedClassify(f) ==
    IF f.adx >= 25
    THEN IF f.vwapDeviation >= 0 THEN "BULL_TREND" ELSE "BEAR_TREND"
    ELSE "MEAN_REVERTING"

(* Below 60% the forest's answer gives way to the Markov model's.           *)
ModelClassify(p) ==
    LET forest == RegimeOrder[p.label + 1] IN
    IF p.confidence < 600 /\ p.state \in DOMAIN stateMap THEN stateMap[p.state] ELSE forest

(* classify: chaos overrides the models.                                    *)
ClassifyRegime(f, p) ==
    IF IsChaos(f) THEN "HIGH_VOL_CHAOS"
    ELSE IF fitted THEN ModelClassify(p) ELSE RuleBasedClassify(f)

(* _build_state_map: the forest's majority label in each state, the lowest  *)
(* label on a tie; mean reverting for a state that was never seen.          *)
BuildStateMap(t) ==
    [s \in HmmStates |->
        LET count(l) == Cardinality({i \in DOMAIN t : t[i].state = s /\ t[i].label = l})
            best == {l \in 0..3 : \A k \in 0..3 : count(k) <= count(l)}
        IN  IF \A l \in 0..3 : count(l) = 0 THEN "MEAN_REVERTING"
            ELSE RegimeOrder[1 + CHOOSE l \in best : \A k \in best : l <= k]]

(* fit: at least two samples, else ValueError.                              *)
Fit(t) ==
    /\ Len(t) >= 2
    /\ fitted' = TRUE /\ stateMap' = BuildStateMap(t)
    /\ UNCHANGED <<registry, regimeStream, chaotic>>

-----------------------------------------------------------------------------
(* mlflow_registry: a fitted classifier is saved as a new run ...           *)
SaveClassifier ==
    /\ fitted /\ Len(registry) < MaxSaved
    /\ registry' = Append(registry, [map |-> stateMap, stage |-> "None"])
    /\ UNCHANGED <<fitted, stateMap, regimeStream, chaotic>>

(* ... loaded with its state map ...                                        *)
LoadClassifier(i) ==
    /\ fitted' = TRUE /\ stateMap' = registry[i].map
    /\ UNCHANGED <<registry, regimeStream, chaotic>>

(* ... and promoted when its backtest passes check_promotion_gate: the      *)
(* version in production is archived.                                       *)
PromoteClassifier(i, gatePassed) ==
    /\ gatePassed
    /\ registry' = [j \in DOMAIN registry |->
           [registry[j] EXCEPT !.stage =
               IF j = i THEN "Production"
               ELSE IF registry[j].stage = "Production" THEN "Archived" ELSE @]]
    /\ UNCHANGED <<fitted, stateMap, regimeStream, chaotic>>

-----------------------------------------------------------------------------
(* publish_regime_change: the message carries the regime and the features   *)
(* (the VIX stands for them), but not whether ATR spiked.                   *)
PublishRegimeChange(f, regime) ==
    /\ regimeStream' = {[regime |-> regime, vix |-> f.vix]}
    /\ chaotic' = IsChaos(f)

(* read_latest_regime: the newest entry, whatever its age                   *)
ReadLatestRegime ==
    {[regime |-> e.regime, vix |-> e.vix, atrSpike |-> FALSE] : e \in regimeStream}

(* A classification: features, classify, publish                            *)
ClassifyAndPublish ==
    /\ \E b \in Bars, p \in Predictions : \E f \in ExtractFeatures(b) :
          PublishRegimeChange(f, ClassifyRegime(f, p))
    /\ UNCHANGED <<fitted, stateMap, registry>>

RegimeNext ==
    \/ ClassifyAndPublish \/ SaveClassifier
    \/ \E t \in TrainedMaps : Fit(t)
    \/ \E i \in DOMAIN registry : LoadClassifier(i) \/ PromoteClassifier(i, TRUE)
=============================================================================
