------------------------------ MODULE Universe ------------------------------
(***************************************************************************)
(* M09 universe filter of one exchange: the NSE exclusion lists with their *)
(* cache files, the scores of the stocks, the ranked watchlist, its two    *)
(* stores (watchlist_history in Postgres, a key with a TTL in Redis), and  *)
(* the command that builds or loads it.  Scores are in thousandths.        *)
(***************************************************************************)
EXTENDS Integers, Sequences, FiniteSets, FiniteSetsExt, SequencesExt

CONSTANTS
    Stocks,        \* a function from symbols to their market data
    Categories,    \* of exclusion lists: "asm", "esm", "ban", "mwpl"
    Rows,          \* rows the exchange may list: [category, symbol, pct]
    TopN,          \* WATCHLIST_TOP_N
    MinBars,       \* WATCHLIST_MIN_CANDLES
    ListTtl,       \* WATCHLIST_REDIS_TTL_SECONDS, in ticks
    ListCacheAge,  \* COMPLIANCE_CACHE_MAX_AGE_HOURS, in ticks
    Regimes,       \* regimes on the stream
    Builders,      \* processes that run the command
    MaxBuilds,     \* bound: builds stored
    MaxUniClock    \* bound: the clock

ASSUME UniverseAssumption ==
    /\ TopN \in Nat \ {0} /\ MinBars \in Nat /\ ListTtl \in Nat \ {0}
    /\ ListCacheAge \in Nat \ {0} /\ MaxBuilds \in Nat /\ MaxUniClock \in Nat

-----------------------------------------------------------------------------
(* scoring.py *)
BetaWeights ==
    [BULL_TREND     |-> [trend |-> 50, vol |-> 20, liq |-> 20],
     BEAR_TREND     |-> [trend |-> 45, vol |-> 25, liq |-> 20],
     MEAN_REVERTING |-> [trend |-> 20, vol |-> 45, liq |-> 25]]

ASSUME UniverseDataAssumption ==
    /\ IsFiniteSet(DOMAIN Stocks)
    /\ \A s \in DOMAIN Stocks :
          Stocks[s] \in [bars : Nat, adx : Nat, close : Nat, ema : Nat, bbMid : Nat,
                         bbWidth : Nat, avgVolume : Nat, recentVolume : Nat]
    /\ \A r \in Rows : r.category \in Categories
    /\ Regimes \subseteq DOMAIN BetaWeights \cup {"HIGH_VOL_CHAOS"}

TrendScore(s, regime) ==
    LET adxNorm == Min({s.adx * 20, 1000}) IN
    CASE regime = "BULL_TREND" -> IF s.close > s.ema THEN adxNorm ELSE 0
      [] regime = "BEAR_TREND" -> IF s.close < s.ema THEN adxNorm ELSE 0
      [] OTHER                 -> 1000 - adxNorm

VolScore(s) == IF s.bbMid = 0 THEN 0 ELSE Min({(s.bbWidth * 20000) \div s.bbMid, 1000})

LiqScore(s) == IF s.avgVolume = 0 THEN 0
               ELSE Min({(1000 * s.recentVolume) \div (3 * s.avgVolume), 1000})

(* score_stock: nothing for a short history; the sentiment's share is 0.    *)
ScoreStock(s, regime) ==
    IF s.bars < MinBars THEN [trend |-> 0, vol |-> 0, liq |-> 0]
    ELSE [trend |-> TrendScore(s, regime), vol |-> VolScore(s), liq |-> LiqScore(s)]

ComputeComposite(c, w) == (w.trend * c.trend + w.vol * c.vol + w.liq * c.liq) \div 100

AssignStrategyId(regime, trend) ==
    IF regime \in {"BULL_TREND", "BEAR_TREND"}
    THEN IF trend >= 600 THEN "EMA_VWAP_TREND" ELSE "MOMENTUM_RSI"
    ELSE "MEAN_REVERT_PIVOT"

(* rank_entries: by composite score, ties in the order of the instruments;  *)
(* the n-th entry has n - 1 before it                                       *)
Before(a, b) == a.score > b.score \/ (a.score = b.score /\ a.place < b.place)

RankEntries(entries) ==
    [n \in 1..Cardinality(entries) |->
        CHOOSE e \in entries : Cardinality({x \in entries : Before(x, e)}) = n - 1]

(* run_universe_filter: nothing in chaos; no excluded stock, none without   *)
(* or with too few candles                                                  *)
RunUniverseFilter(symbols, regime, excluded) ==
    LET kept == {i \in DOMAIN symbols :
                    symbols[i] \notin excluded /\ Stocks[symbols[i]].bars >= MinBars}
        entry(i) == LET c == ScoreStock(Stocks[symbols[i]], regime) IN
                    [symbol |-> symbols[i], place |-> i,
                     score |-> ComputeComposite(c, BetaWeights[regime]),
                     strategy |-> AssignStrategyId(regime, c.trend)]
        ranked == RankEntries({entry(i) : i \in kept})
    IN  IF regime = "HIGH_VOL_CHAOS" THEN << >>
        ELSE SubSeq(ranked, 1, Min({TopN, Len(ranked)}))

-----------------------------------------------------------------------------
VARIABLES
    uniClock,
    nseUp,       \* the exchange's lists can be fetched
    listedRows,  \* the rows of its lists, and since when: a set of [row, since]
    listFiles,   \* each category's cache file: none or one [rows, at]
    kvUp,        \* Redis answers
    kvList,      \* universe:watchlist:<exchange>: none or one [build, set (when)]
    history,     \* watchlist_history: the builds, in the order of commits
    builder      \* each builder's progress

uniVars == <<uniClock, nseUp, listedRows, listFiles, kvUp, kvList, history, builder>>

IdleBuilder == [pc |-> "idle", regime |-> "", entries |-> << >>, at |-> 0, blind |-> FALSE]
NoBuild     == [entries |-> << >>, at |-> 0, blind |-> FALSE]
Garbled     == [entries |-> << >>, at |-> -1, blind |-> TRUE]

UniInit ==
    /\ uniClock = 0 /\ nseUp = TRUE /\ kvUp = TRUE
    /\ listedRows = {} /\ listFiles = [c \in Categories |-> {}]
    /\ kvList = {} /\ history = << >>
    /\ builder = [b \in Builders |-> IdleBuilder]

-----------------------------------------------------------------------------
(* universe/compliance.py *)
FetchUrl(category) ==
    IF nseUp THEN {{l.row : l \in {k \in listedRows : k.row.category = category}}} ELSE {}

(* Mutant: a cache file never goes stale.                                   *)
IsListCacheFreshMutant(f) == TRUE

IsListCacheFresh(f) == uniClock - f.at < ListCacheAge

(* _get_category_data: a fresh file, else the exchange (the file is         *)
(* rewritten), else the stale file, else nothing                            *)
GetCategoryData(c) ==
    LET fresh == {f \in listFiles[c] : IsListCacheFresh(f)} IN
    CASE fresh # {}       -> [rows |-> UNION {f.rows : f \in fresh}, file |-> listFiles[c],
                              blind |-> FALSE]
      [] OTHER -> IF FetchUrl(c) # {}
                  THEN [rows |-> UNION FetchUrl(c), blind |-> FALSE,
                        file |-> {[rows |-> UNION FetchUrl(c), at |-> uniClock]}]
                  ELSE [rows |-> UNION {f.rows : f \in listFiles[c]}, file |-> listFiles[c],
                        blind |-> TRUE]

(* _symbols_from_asm, _esm and _ban: every row; _mwpl: from 90% on          *)
SymbolsFrom(c, rows) == {r.symbol : r \in {q \in rows : c = "mwpl" => q.pct >= 90}}

(* NSEComplianceSource.fetch and is_excluded                                *)
ExcludedSymbols == UNION {SymbolsFrom(c, GetCategoryData(c).rows) : c \in Categories}

-----------------------------------------------------------------------------
(* universe/cli.main.  The regime is the newest of the stream, and          *)
(* BULL_TREND when it cannot be read; without symbols the command ends.     *)
ReadRegime(b, regime) ==
    /\ builder[b].pc = "idle"
    /\ builder' = [builder EXCEPT ![b] = [IdleBuilder EXCEPT !.pc = "regime",
                       !.regime = IF kvUp THEN regime ELSE "BULL_TREND"]]
    /\ UNCHANGED <<uniClock, nseUp, listedRows, listFiles, kvUp, kvList, history>>

(* The exclusion lists are loaded (a failing write of their files is only   *)
(* logged) and the stocks of the last days filtered.  An empty watchlist is *)
(* not stored.                                                              *)
BuildWatchlist(b, symbols) ==
    /\ builder[b].pc = "regime"
    /\ listFiles' \in {[c \in Categories |-> GetCategoryData(c).file], listFiles}
    /\ LET entries == RunUniverseFilter(symbols, builder[b].regime, ExcludedSymbols) IN
       builder' = [builder EXCEPT ![b] =
           IF entries = << >> THEN IdleBuilder
           ELSE [builder[b] EXCEPT !.pc = "built", !.entries = entries, !.at = uniClock,
                                   !.blind = \E c \in Categories : GetCategoryData(c).blind]]
    /\ UNCHANGED <<uniClock, nseUp, listedRows, kvUp, kvList, history>>

(* store_watchlist: the rows are committed first ...                        *)
CommitWatchlist(b) ==
    /\ builder[b].pc = "built" /\ Len(history) < MaxBuilds
    /\ history' = Append(history, [entries |-> builder[b].entries, at |-> builder[b].at,
                                   blind |-> builder[b].blind])
    /\ builder' = [builder EXCEPT ![b].pc = "committed"]
    /\ UNCHANGED <<uniClock, nseUp, listedRows, listFiles, kvUp, kvList>>

(* ... then the key is set, with its expiry; with Redis down this raises.   *)
SetWatchlist(b) ==
    /\ builder[b].pc = "committed"
    /\ kvList' = IF ~kvUp THEN kvList
                 ELSE {[build |-> [entries |-> builder[b].entries, at |-> builder[b].at,
                                   blind |-> builder[b].blind],
                        set |-> uniClock]}
    /\ builder' = [builder EXCEPT ![b] = IdleBuilder]
    /\ UNCHANGED <<uniClock, nseUp, listedRows, listFiles, kvUp, history>>

(* The command ends early: --no-store, an error, or the process dies.       *)
BuilderEnds(b) ==
    /\ builder[b].pc # "idle"
    /\ builder' = [builder EXCEPT ![b] = IdleBuilder]
    /\ UNCHANGED <<uniClock, nseUp, listedRows, listFiles, kvUp, kvList, history>>

(* The newest build by scored_at: MAX(scored_at) and its rows               *)
LatestBuilds ==
    {history[i] : i \in {j \in DOMAIN history :
                           \A k \in DOMAIN history : history[k].at <= history[j].at}}

(* load_watchlist: the key if it is there and can be read, else the newest  *)
(* rows.  Its possible answers, each with the time it was set or read.      *)
Cached == {e \in kvList : uniClock < e.set + ListTtl /\ e.build # Garbled}

LoadWatchlist ==
    IF Cached # {} THEN Cached
    ELSE {[build |-> l, set |-> uniClock] :
             l \in IF history = << >> THEN {NoBuild} ELSE LatestBuilds}

-----------------------------------------------------------------------------
(* The world *)
ListRow(r) ==
    /\ \A l \in listedRows : l.row # r
    /\ listedRows' = listedRows \cup {[row |-> r, since |-> uniClock]}
    /\ UNCHANGED <<uniClock, nseUp, listFiles, kvUp, kvList, history, builder>>

NseToggles ==
    /\ nseUp' = ~nseUp
    /\ UNCHANGED <<uniClock, listedRows, listFiles, kvUp, kvList, history, builder>>

KvToggles ==
    /\ kvUp' = ~kvUp
    /\ UNCHANGED <<uniClock, nseUp, listedRows, listFiles, kvList, history, builder>>

KvGarbled ==
    /\ \E e \in kvList : kvList' = {[e EXCEPT !.build = Garbled]}
    /\ UNCHANGED <<uniClock, nseUp, listedRows, listFiles, kvUp, history, builder>>

UniTick ==
    /\ uniClock < MaxUniClock
    /\ uniClock' = uniClock + 1
    /\ UNCHANGED <<nseUp, listedRows, listFiles, kvUp, kvList, history, builder>>

UniNext ==
    \/ \E b \in Builders :
          \/ \E r \in Regimes : ReadRegime(b, r)
          \/ BuildWatchlist(b, SetToSeq(DOMAIN Stocks))
          \/ CommitWatchlist(b) \/ SetWatchlist(b) \/ BuilderEnds(b)
    \/ \E r \in Rows : ListRow(r)
    \/ NseToggles \/ KvToggles \/ KvGarbled \/ UniTick

-----------------------------------------------------------------------------
(* Whichever store load_watchlist answers from, now that a build may have   *)
(* reached one of them only, it answers a build that was committed; and no  *)
(* stock of it had been on an exclusion list for the age of a cache file    *)
(* when it was scored, unless the exchange could not be asked then.         *)
WatchlistCurrent ==
    \A e \in LoadWatchlist :
        /\ e.build \in Range(history) \cup {NoBuild}
        /\ e.build.blind \/ \A i \in DOMAIN e.build.entries, l \in listedRows :
               e.build.entries[i].symbol \in SymbolsFrom(l.row.category, {l.row}) =>
                   e.build.at - l.since < ListCacheAge
=============================================================================
