------------------------------ MODULE Patterns ------------------------------
(***************************************************************************)
(* M06 pattern detection: candlestick signals, the opening-range breakout, *)
(* support and resistance, and their snapshot over one and over several    *)
(* timeframes, from which the signal gates 4, 5 and 6 decide.  A candle is *)
(* [day, minute, high, low, close, volume] with integer prices; bar        *)
(* indices count from 0.  TA-Lib's candlestick functions are external.     *)
(***************************************************************************)
EXTENDS Integers, Sequences, FiniteSets, FiniteSetsExt, SequencesExt

CONSTANTS
    CdlMinCandles,   \* CDL_MIN_CANDLES
    SwingWindow,     \* SR_SWING_WINDOW
    ProfileBuckets,  \* VOLUME_PROFILE_BUCKETS
    SrLookback       \* SR_LOOKBACK_CANDLES

ASSUME PatternsAssumption ==
    /\ CdlMinCandles \in Nat \ {0} /\ SwingWindow \in Nat \ {0}
    /\ ProfileBuckets \in Nat \ {0} /\ SrLookback \in Nat \ {0}

Distance(a, b) == IF a >= b THEN a - b ELSE b - a

-----------------------------------------------------------------------------
(* Two of TA-Lib's functions, as detect_all reads them: 100 or -100 where a *)
(* pattern ends, 0 elsewhere                                                *)
CdlNames == <<"CDLENGULFING", "CDLMARUBOZU">>

Cdl(name, s, i) ==
    CASE name = "CDLENGULFING" /\ i > 1 -> (IF s[i].close > s[i - 1].high THEN 100 ELSE 0)
                                           - (IF s[i].close < s[i - 1].low THEN 100 ELSE 0)
      [] name = "CDLMARUBOZU"           -> (IF s[i].close = s[i].high THEN 100 ELSE 0)
                                           - (IF s[i].close = s[i].low THEN 100 ELSE 0)
      [] OTHER                          -> 0

(* detect_all: name by name, then sorted by bar, which keeps that order     *)
CandlesAt(s, i) ==
    SelectSeq([k \in DOMAIN CdlNames |->
                  [name |-> CdlNames[k], bar |-> i - 1, direction |-> Cdl(CdlNames[k], s, i)]],
              LAMBDA r : r.direction # 0)

DetectAll(s) ==
    IF Len(s) < CdlMinCandles THEN << >>
    ELSE FlattenSeq([i \in DOMAIN s |-> CandlesAt(s, i)])

-----------------------------------------------------------------------------
(* detect_orb: the range of the last day's first minutes, both ends of it   *)
(* included, and the first close beyond it                                  *)
Breakouts(day, range, high, low) ==
    LET beyond == {i \in DOMAIN day \ range : day[i].close > high \/ day[i].close < low}
    IN  IF beyond = {} THEN {} ELSE {IF day[Min(beyond)].close > high THEN 1 ELSE -1}

OrbOf(day, range) ==
    {[high |-> high, low |-> low, breakout |-> Breakouts(day, range, high, low)] :
        high \in {Max({day[i].high : i \in range})}, low \in {Min({day[i].low : i \in range})}}

OpeningRange(day, minutes) ==
    {i \in DOMAIN day : day[i].minute <= minutes + Min({day[j].minute : j \in DOMAIN day})}

DetectOrb(s, minutes) ==
    IF s = << >> THEN {}
    ELSE UNION {OrbOf(day, OpeningRange(day, minutes)) :
                   day \in {SelectSeq(s, LAMBDA c : c.day = s[Len(s)].day)}}

-----------------------------------------------------------------------------
(* _cluster: sorted prices, each joined to the last cluster when it is      *)
(* within 0.3% of that cluster's mean; the means                            *)
Join(cs, p) ==
    IF cs # << >> /\ 1000 * Distance(p * Last(cs).n, Last(cs).sum) <= 3 * Last(cs).sum
    THEN [cs EXCEPT ![Len(cs)] = [n |-> @.n + 1, sum |-> @.sum + p]]
    ELSE Append(cs, [n |-> 1, sum |-> p])

Cluster(prices) ==
    {c.sum \div c.n : c \in ToSet(FoldLeft(Join, << >>, SortSeq(prices, LAMBDA a, b : a < b)))}

(* Swing highs and lows: strictly beyond SwingWindow bars on either side    *)
Around(i) == ((i - SwingWindow)..(i + SwingWindow)) \ {i}
Swings(s) == (SwingWindow + 1)..(Len(s) - SwingWindow)

SwingHighs(s) == {i \in Swings(s) : \A j \in Around(i) : s[i].high > s[j].high}
SwingLows(s)  == {i \in Swings(s) : \A j \in Around(i) : s[i].low < s[j].low}

(* Volume profile: the middles of the buckets with more volume than both    *)
(* neighbours                                                               *)
Profile(s, low, size) ==
    [b \in 0..(ProfileBuckets - 1) |->
        MapThenSumSet(LAMBDA i : s[i].volume,
            {i \in DOMAIN s : b = Min({((s[i].close - low) * ProfileBuckets) \div size,
                                      ProfileBuckets - 1})})]

Peaks(profile) ==
    {b \in 1..(ProfileBuckets - 2) :
        profile[b] > profile[b - 1] /\ profile[b] > profile[b + 1]}

NodesOf(s, low, size) ==
    IF size = 0 \/ ProfileBuckets <= 2 THEN {}
    ELSE {low + ((2 * b + 1) * size) \div (2 * ProfileBuckets) : b \in Peaks(Profile(s, low, size))}

VolumeNodes(s) ==
    UNION {NodesOf(s, low, Max({s[i].high : i \in DOMAIN s}) - low) :
              low \in {Min({s[i].low : i \in DOMAIN s})}}

(* The bars whose wick is within 0.5% of a level                            *)
Touches(s, level, type) ==
    {i \in DOMAIN s :
        1000 * Distance(IF type = "RESISTANCE" THEN s[i].high ELSE s[i].low, level) <= 5 * level}

(* detect_sr_levels: levels touched twice, strength relative to the most    *)
(* touched, in percent                                                      *)
Candidates(s, nodes) ==
    {[type |-> "RESISTANCE", price |-> p, touched |-> Touches(s, p, "RESISTANCE")] :
        p \in Cluster([i \in 1..Cardinality(SwingHighs(s)) |-> s[SetToSeq(SwingHighs(s))[i]].high]
                       \o SetToSeq({n \in nodes : n >= Last(s).close}))}
    \cup
    {[type |-> "SUPPORT", price |-> p, touched |-> Touches(s, p, "SUPPORT")] :
        p \in Cluster([i \in 1..Cardinality(SwingLows(s)) |-> s[SetToSeq(SwingLows(s))[i]].low]
                       \o SetToSeq({n \in nodes : n < Last(s).close}))}

Ranked(found) ==
    {[type |-> c.type, price |-> c.price, lastTouch |-> Max(c.touched) - 1,
      strength |-> (100 * Cardinality(c.touched))
                   \div Max({1} \cup {Cardinality(d.touched) : d \in found})] : c \in found}

DetectSrLevels(s) ==
    IF Len(s) < 2 * SwingWindow + 1 THEN {}
    ELSE Ranked({c \in Candidates(s, VolumeNodes(s)) : Cardinality(c.touched) >= 2})

-----------------------------------------------------------------------------
(* compute_snapshot *)
ComputeSnapshot(s) ==
    [candles |-> DetectAll(s), orb |-> DetectOrb(s, 15),
     levels |-> DetectSrLevels(SubSeq(s, Max({1, Len(s) - SrLookback + 1}), Len(s)))]

(* compute_multi_timeframe: the patterns confirmed on two timeframes, or on *)
(* the only one                                                             *)
Confirmed(snapshots, sign) ==
    {name \in ToSet(CdlNames) :
        LET n == Cardinality({tf \in DOMAIN snapshots : \E i \in DOMAIN snapshots[tf].candles :
                                 /\ snapshots[tf].candles[i].name = name
                                 /\ snapshots[tf].candles[i].direction = sign})
        IN  n > 0 /\ n >= Min({2, Cardinality(DOMAIN snapshots)})}

Combined(snapshots) ==
    [snapshots |-> snapshots, bullish |-> Confirmed(snapshots, 100),
     bearish |-> Confirmed(snapshots, -100)]

ComputeMultiTimeframe(frames) ==
    Combined([tf \in DOMAIN frames |-> ComputeSnapshot(frames[tf])])
=============================================================================
