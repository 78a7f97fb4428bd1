----------------------------- MODULE Instruments -----------------------------
(***************************************************************************)
(* M05 instruments: the instrument master of both exchanges, the corporate *)
(* actions fetched from NSE and from the manual override file, the command *)
(* that refreshes them, and the price series adjusted for splits and       *)
(* bonuses that the other modules are to read.                             *)
(***************************************************************************)
EXTENDS Integers, Sequences, FiniteSets, FiniteSetsExt

CONSTANTS
    Listings,       \* lines of the exchanges' CSV files: [exchange, symbol, lot]
    NseEntries,     \* entries the NSE may publish: [symbol, exDate, subject, a, b]
    OverrideFiles,  \* contents of manual_overrides.yaml: sets of actions
    RawCandles,     \* candles of one symbol: a sequence of [day, close, volume]
    Refreshers,     \* processes that run the command
    WindowDays,     \* CORPORATE_ACTIONS_REFRESH_WINDOW_DAYS
    MaxPublished,   \* bound: entries the NSE lists at a time
    MaxDay,         \* bound: the calendar
    MaxRefreshes    \* bound: runs of the command

ASSUME InstrumentsAssumption ==
    /\ WindowDays \in Nat /\ MaxPublished \in Nat /\ MaxDay \in Nat /\ MaxRefreshes \in Nat

-----------------------------------------------------------------------------
(* models.py and sources.py.  A day of 0 is a missing or unreadable date,   *)
(* an empty symbol a missing one; what may be absent is a set of at most    *)
(* one element.                                                             *)
ActionTypes == {"SPLIT", "BONUS", "DIVIDEND", "SYMBOL_CHANGE"}

(* CorporateAction.__post_init__: num and den are the ratio, num alone the  *)
(* dividend's amount or (1) the presence of a new symbol                    *)
ValidAction(a) ==
    /\ a.type \in ActionTypes
    /\ a.num > 0
    /\ a.type \in {"SPLIT", "BONUS"} => a.den > 0

Action(symbol, exDate, type, source, num, den) ==
    [symbol |-> symbol, exchange |-> "NSE", exDate |-> exDate, type |-> type,
     source |-> source, num |-> num, den |-> den]

(* _parse_nse_entry: a split gives the old and the new face value, a bonus  *)
(* new and held shares, a dividend its amount if one can be read            *)
ParseNseEntry(e) ==
    IF e.symbol = "" \/ e.exDate = 0 THEN {}
    ELSE {act \in
            CASE e.subject = "split"    -> {Action(e.symbol, e.exDate, "SPLIT", "NSE_LIVE", e.a, e.b)}
              [] e.subject = "bonus"    -> {Action(e.symbol, e.exDate, "BONUS", "NSE_LIVE", e.a + e.b, e.b)}
              [] e.subject = "dividend" -> {Action(e.symbol, e.exDate, "DIVIDEND", "NSE_LIVE", e.a, 0)}
              [] OTHER                  -> {}
          : ValidAction(act)}

(* NSEInstrumentSource and ASXInstrumentSource: lines without a symbol are  *)
(* skipped; the ASX file has no lot sizes.                                  *)
NseFetch == {[symbol |-> l.symbol, exchange |-> "NSE", lot |-> l.lot] :
                l \in {k \in Listings : k.exchange = "NSE" /\ k.symbol # ""}}
AsxFetch == {[symbol |-> l.symbol, exchange |-> "ASX", lot |-> 0] :
                l \in {k \in Listings : k.exchange = "ASX" /\ k.symbol # ""}}

DefaultRefreshWindow(today) == (today - WindowDays)..(today + WindowDays)

-----------------------------------------------------------------------------
(* adjustment.py: every split and bonus that went ex after the candle's day *)
PriceAdjustingTypes == {"SPLIT", "BONUS"}

(* price_mult (den / num) and volume_mult (num / den), as a fraction        *)
RatioNum(rows) == FoldSet(LAMBDA r, p : r.num * p, 1, rows)
RatioDen(rows) == FoldSet(LAMBDA r, p : r.den * p, 1, rows)

(* round(a / b), of positive numbers                                        *)
RoundDiv(a, b) == ((2 * a) + b) \div (2 * b)

(* adjusted_candles of one candle: prices by the inverse of the ratio       *)
AdjustedCandle(c, rows) ==
    LET relevant == {r \in rows : r.type \in PriceAdjustingTypes /\ c.day < r.exDate}
        num == RatioNum(relevant)
        den == RatioDen(relevant)
    IN  [day |-> c.day, close |-> (c.close * den) \div num, volume |-> RoundDiv(c.volume * num, den)]

AdjustedCandles(candles, rows) == [i \in DOMAIN candles |-> AdjustedCandle(candles[i], rows)]

-----------------------------------------------------------------------------
VARIABLES
    insDay,      \* today
    published,   \* entries the NSE lists now
    overrides,   \* manual_overrides.yaml: none when unreadable, or one set of actions
    master,      \* the table instruments
    actions,     \* the table corporate_actions
    refresher,   \* each process's progress
    refreshes,   \* runs begun
    seen,        \* ghost: every action the NSE or the file ever gave
    recorded,    \* ghost: the keys of the rows a refresh committed
    clean        \* ghost: a refresh committed the file as it is and neither an edit nor a
                 \*   failure followed

insVars == <<insDay, published, overrides, master, actions, refresher, refreshes,
             seen, recorded, clean>>

(* live_actions, then manual_overrides                                      *)
IdleRefresher == [pc |-> "idle", rows |-> {}]

InsInit ==
    /\ insDay = 1 /\ published = {}
    /\ overrides \in {{f} : f \in OverrideFiles}
    /\ master = {} /\ actions = {} /\ refreshes = 0 /\ clean = FALSE
    /\ refresher = [p \in Refreshers |-> IdleRefresher]
    /\ seen = UNION overrides /\ recorded = {}

-----------------------------------------------------------------------------
(* repositories.py.  Rows that conflict on the key replace the old ones; a  *)
(* batch that holds one key twice is refused by Postgres as a whole.        *)
ActionKey(a) == <<a.symbol, a.exchange, a.exDate, a.type>>

UpsertInstruments(rows) ==
    {i \in master : \A r \in rows : i.symbol # r.symbol \/ i.exchange # r.exchange} \cup rows

Upsertable(rows) == \A r, s \in rows : ActionKey(r) = ActionKey(s) => r = s

(* Mutant: the conflict target includes the source, so an override stands   *)
(* beside the live row.                                                     *)
UpsertActionsMutant(rows) ==
    {a \in actions : \A r \in rows : ActionKey(a) # ActionKey(r) \/ a.source # r.source} \cup rows

UpsertActions(rows) ==
    {a \in actions : \A r \in rows : ActionKey(a) # ActionKey(r)} \cup rows

ListForSymbol(symbol, exchange) == {a \in actions : a.symbol = symbol /\ a.exchange = exchange}

(* service.get_adjusted_series                                              *)
GetAdjustedSeries(symbol, exchange, candles) ==
    AdjustedCandles(candles, ListForSymbol(symbol, exchange))

-----------------------------------------------------------------------------
(* cli.main *)
StartRefresh(p) ==
    /\ refresher[p].pc = "idle" /\ refreshes < MaxRefreshes
    /\ refreshes' = refreshes + 1
    /\ refresher' = [refresher EXCEPT ![p].pc = "NSE"]
    /\ UNCHANGED <<insDay, published, overrides, master, actions, seen, recorded, clean>>

(* refresh_instrument_master: a failed fetch (a site that does not answer,  *)
(* an ASX file without its header) keeps the table, and the command goes on *)
RefreshMaster(p) ==
    /\ refresher[p].pc \in {"NSE", "ASX"}
    /\ master' \in {UpsertInstruments(IF refresher[p].pc = "NSE" THEN NseFetch ELSE AsxFetch),
                    master}
    /\ refresher' = [refresher EXCEPT ![p].pc = IF @ = "NSE" THEN "ASX" ELSE "actions"]
    /\ UNCHANGED <<insDay, published, overrides, actions, refreshes, seen, recorded, clean>>

(* NSECorporateActionSource.fetch                                           *)
FetchLive(window) == UNION {ParseNseEntry(e) : e \in {n \in published : n.exDate \in window}}

(* refresh_corporate_actions: the entries of the window are fetched; a      *)
(* failed fetch is logged, and the overrides are not applied either.        *)
FetchActions(p) ==
    /\ refresher[p].pc = "actions"
    /\ \/ refresher' = [refresher EXCEPT ![p] =
              [pc |-> "fetched", rows |-> FetchLive(DefaultRefreshWindow(insDay))]]
       \/ refresher' = [refresher EXCEPT ![p].pc = "lookup"]
    /\ UNCHANGED <<insDay, published, overrides, master, actions, refreshes, seen, recorded, clean>>

(* The rows of the process are committed.                                   *)
Commit(p) ==
    /\ Upsertable(refresher[p].rows)
    /\ actions' = UpsertActions(refresher[p].rows)
    /\ recorded' = recorded \cup {ActionKey(a) : a \in refresher[p].rows}

(* The live rows come first; a batch with a key twice raises out of main.   *)
UpsertLive(p) ==
    /\ refresher[p].pc = "fetched"
    /\ \/ Commit(p) /\ refresher' = [refresher EXCEPT ![p].pc = "live"]
       \/ /\ ~Upsertable(refresher[p].rows) /\ UNCHANGED <<actions, recorded>>
          /\ refresher' = [refresher EXCEPT ![p] = IdleRefresher]
    /\ UNCHANGED <<insDay, published, overrides, master, refreshes, seen, clean>>

(* load_manual_overrides of the file as it is now ...                       *)
LoadManualOverrides(p) ==
    /\ refresher[p].pc = "live"
    /\ \E f \in overrides :
          /\ \A a \in f : ValidAction(a)
          /\ refresher' = [refresher EXCEPT ![p] = [pc |-> "loaded", rows |-> f]]
    /\ UNCHANGED <<insDay, published, overrides, master, actions, refreshes, seen, recorded, clean>>

(* ... whose rows are committed last, so that they prevail.                 *)
UpsertManual(p) ==
    /\ refresher[p].pc = "loaded" /\ Commit(p)
    /\ refresher' = [refresher EXCEPT ![p] = [pc |-> "lookup", rows |-> {}]]
    /\ clean' = (overrides = {refresher[p].rows})
    /\ UNCHANGED <<insDay, published, overrides, master, refreshes, seen>>

(* An unreadable file, an invalid entry or a key twice raises out of main,  *)
(* with the live rows committed.                                            *)
OverridesRefused(p) ==
    /\ \/ refresher[p].pc = "live" /\ \A f \in overrides : \E a \in f : ~ValidAction(a)
       \/ refresher[p].pc = "loaded" /\ ~Upsertable(refresher[p].rows)
    /\ refresher' = [refresher EXCEPT ![p] = IdleRefresher]
    /\ clean' = FALSE
    /\ UNCHANGED <<insDay, published, overrides, master, actions, refreshes, seen, recorded>>

(* The symbol's records are printed and the connection is closed.           *)
LookUp(p) ==
    /\ refresher[p].pc = "lookup"
    /\ refresher' = [refresher EXCEPT ![p] = IdleRefresher]
    /\ UNCHANGED <<insDay, published, overrides, master, actions, refreshes, seen, recorded, clean>>

(* The database fails or the process dies: what was committed stays.        *)
RefresherDies(p) ==
    /\ refresher[p].pc # "idle"
    /\ refresher' = [refresher EXCEPT ![p] = IdleRefresher]
    /\ clean' = (clean /\ refresher[p].pc \notin {"live", "loaded"})
    /\ UNCHANGED <<insDay, published, overrides, master, actions, refreshes, seen, recorded>>

-----------------------------------------------------------------------------
(* The world.  The NSE publishes an entry, in place of an earlier one about *)
(* the same event when it corrects a ratio.                                 *)
Publish(e) ==
    /\ e \notin published /\ Cardinality(published) < MaxPublished
    /\ published' = {n \in published : \A a \in ParseNseEntry(n), b \in ParseNseEntry(e) :
                                           b.type = "DIVIDEND" \/ ActionKey(a) # ActionKey(b)}
                    \cup {e}
    /\ seen' = seen \cup ParseNseEntry(e)
    /\ UNCHANGED <<insDay, overrides, master, actions, refresher, refreshes, recorded, clean>>

(* The operator edits the file, or leaves it unreadable.                    *)
EditOverrides ==
    /\ overrides' \in {{}} \cup {{f} : f \in OverrideFiles}
    /\ overrides' # overrides
    /\ seen' = seen \cup UNION overrides'
    /\ clean' = FALSE
    /\ UNCHANGED <<insDay, published, master, actions, refresher, refreshes, recorded>>

InsNextDay ==
    /\ insDay < MaxDay
    /\ insDay' = insDay + 1
    /\ UNCHANGED <<published, overrides, master, actions, refresher, refreshes, seen, recorded,
                   clean>>

InsNext ==
    \/ \E p \in Refreshers :
          \/ StartRefresh(p) \/ RefreshMaster(p) \/ FetchActions(p) \/ UpsertLive(p)
          \/ LoadManualOverrides(p) \/ UpsertManual(p) \/ OverridesRefused(p) \/ LookUp(p) \/ RefresherDies(p)
    \/ \E e \in NseEntries : Publish(e)
    \/ EditOverrides \/ InsNextDay

-----------------------------------------------------------------------------
(* However refreshes overlap in time and in their windows, and whichever of *)
(* their steps fails, get_adjusted_series scales a candle exactly once for  *)
(* each split or bonus that went ex after its day and that some refresh     *)
(* committed, and for no other; by a ratio that the NSE or the file gave    *)
(* for it; by the file's own once a refresh that read the file as it is has *)
(* returned and none stands between its two commits (service.py:75-78).     *)
AdjustedOnce ==
    LET events  == {a \in seen : /\ a.exchange = "NSE" /\ a.type \in PriceAdjustingTypes
                                 /\ ValidAction(a)}
        settled == clean /\ \A p \in Refreshers : refresher[p].pc \notin {"live", "loaded"}
        manual  == IF settled THEN events \cap UNION overrides ELSE {}
        after(rows, c) == {r \in rows : c.day < r.exDate}
    IN  \A s \in {a.symbol : a \in events} :
          LET series == GetAdjustedSeries(s, "NSE", RawCandles)
              due    == {k \in recorded : k[1] = s /\ k[2] = "NSE" /\ k[4] \in PriceAdjustingTypes}
          IN  \E picked \in SUBSET {a \in events : a.symbol = s} :
             /\ Upsertable(picked) /\ {ActionKey(a) : a \in picked} = due
             /\ {m \in manual : m.symbol = s} \subseteq picked
             /\ \A i \in DOMAIN series :
                  LET once == after(picked, RawCandles[i]) IN
                  series[i].close * RatioNum(once) = RawCandles[i].close * RatioDen(once)
=============================================================================
