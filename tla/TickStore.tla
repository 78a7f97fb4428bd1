------------------------------ MODULE TickStore ------------------------------
(***************************************************************************)
(* M03 storage (shared/storage): the SQLite failover buffer, its sync into *)
(* TimescaleDB through TickRepository, and the ohlcv_1m table written by   *)
(* the live candles and by the yfinance backfill.                          *)
(*                                                                         *)
(* A tick is the id of its SQLite row.  A process may end between any two  *)
(* statements; SQLite and TimescaleDB keep what was committed.             *)
(***************************************************************************)
EXTENDS Integers, FiniteSets, Sequences, SequencesExt

CONSTANTS
    Syncers,     \* threads that may call sync_to_timescale
    MaxRows,     \* bound: rows buffered
    MaxCrashes,  \* bound: ends of the process
    Minutes,     \* the minutes of the trading days considered
    FineDays     \* ONE_MINUTE_MAX_BACKFILL_DAYS

ASSUME StoreAssumption ==
    /\ MaxRows \in Nat /\ MaxCrashes \in Nat /\ FineDays \in Nat /\ Minutes \subseteq Nat

VARIABLES
    buffered,   \* table buffered_ticks: the synced column, by id
    ticks,      \* table ticks: how often each tick was inserted
    conn,       \* the psycopg2 connection: "ok", or "broken" by an error
    sync,       \* sync_to_timescale in progress, by thread
    ohlcv,      \* table ohlcv_1m: minute to the length of the candle stored for it
    crashes,
    overlapping \* ghost: two syncs have been in progress at once

storeVars == <<buffered, ticks, conn, sync, ohlcv, crashes, overlapping>>

NoSync == [pc |-> "idle", rows |-> {}]

(* SQLiteFailoverBuffer.__init__ on an empty file                           *)
StoreInit ==
    /\ buffered = <<>> /\ ticks = [id \in 1..MaxRows |-> 0]
    /\ conn = "ok" /\ sync = [s \in Syncers |-> NoSync]
    /\ ohlcv = [m \in {} |-> 0]
    /\ crashes = 0 /\ overlapping = FALSE

(* SQLiteFailoverBuffer.append: one transaction                             *)
AppendTicks(n) ==
    /\ Len(buffered) + n <= MaxRows
    /\ buffered' = buffered \o [i \in 1..n |-> FALSE]
    /\ UNCHANGED <<ticks, conn, sync, ohlcv, crashes, overlapping>>

(* SQLiteFailoverBuffer.pending: ids in order; pending_count their number   *)
PendingRows == {id \in 1..Len(buffered) : ~buffered[id]}

(* sync_to_timescale: rows = self.pending()                                 *)
ReadPending(s) ==
    /\ sync[s].pc = "idle" /\ PendingRows # {}
    /\ sync' = [sync EXCEPT ![s] = [pc |-> "insert", rows |-> PendingRows]]
    /\ overlapping' = (overlapping \/ \E u \in Syncers \ {s} : sync[u].pc # "idle")
    /\ UNCHANGED <<buffered, ticks, conn, ohlcv, crashes>>

(* TickRepository.insert_many commits all rows; an error ends the sync and, *)
(* as nothing rolls back or reconnects, leaves the connection unusable.     *)
InsertMany(s) ==
    /\ sync[s].pc = "insert"
    /\ \/ /\ conn = "ok"
          /\ ticks' = [id \in DOMAIN ticks |->
                          ticks[id] + IF id \in sync[s].rows THEN 1 ELSE 0]
          /\ sync' = [sync EXCEPT ![s].pc = "mark"]
          /\ UNCHANGED conn
       \/ /\ conn' = "broken" /\ sync' = [sync EXCEPT ![s] = NoSync]
          /\ UNCHANGED ticks
    /\ UNCHANGED <<buffered, ohlcv, crashes, overlapping>>

(* Mutant: every unsynced row is marked, not the first count.               *)
MarkedMutant(count) == PendingRows

(* The rows that mark_synced(count) marks: the first count unsynced ones,   *)
(* which need not be those that were inserted.                              *)
Marked(count) ==
    {id \in PendingRows : Cardinality({j \in PendingRows : j <= id}) <= count}

(* sync_to_timescale: self.mark_synced(len(rows))                           *)
MarkSynced(s) ==
    /\ sync[s].pc = "mark"
    /\ LET marked == Marked(Cardinality(sync[s].rows)) IN
       buffered' = [id \in 1..Len(buffered) |-> buffered[id] \/ id \in marked]
    /\ sync' = [sync EXCEPT ![s] = NoSync]
    /\ UNCHANGED <<ticks, conn, ohlcv, crashes, overlapping>>

(* OHLCVRepository.upsert_1m: the last writer of a minute wins.             *)
Upsert(candles) ==
    ohlcv' = [m \in DOMAIN ohlcv \cup DOMAIN candles |->
                 IF m \in DOMAIN candles THEN candles[m] ELSE ohlcv[m]]

(* A live 1-minute candle is written.                                       *)
UpsertLive(m) ==
    /\ conn = "ok" /\ Upsert([x \in {m} |-> 1])
    /\ UNCHANGED <<buffered, ticks, conn, sync, crashes, overlapping>>

(* candles_from_history: one candle per row of the history, at its start    *)
CandlesFromHistory(interval) ==
    [m \in {x \in Minutes : x % interval = 0} |-> interval]

(* backfill: 1-minute bars for a short period, 5-minute bars for a longer   *)
(* one, both written to ohlcv_1m.                                           *)
Backfill(days) ==
    /\ conn = "ok"
    /\ Upsert(CandlesFromHistory(IF days <= FineDays THEN 1 ELSE 5))
    /\ UNCHANGED <<buffered, ticks, conn, sync, crashes, overlapping>>

(* The process ends and starts again, with a new connection.                *)
StoreCrash ==
    /\ crashes < MaxCrashes
    /\ crashes' = crashes + 1
    /\ sync' = [s \in Syncers |-> NoSync] /\ conn' = "ok"
    /\ UNCHANGED <<buffered, ticks, ohlcv, overlapping>>

StoreNext ==
    \/ \E n \in 1..2 : AppendTicks(n)
    \/ \E s \in Syncers : ReadPending(s) \/ InsertMany(s) \/ MarkSynced(s)
    \/ \E m \in Minutes : UpsertLive(m)
    \/ \E days \in {FineDays, FineDays + 1} : Backfill(days)
    \/ StoreCrash

-----------------------------------------------------------------------------
(* A row marked synced is in TimescaleDB, through failed inserts, ends of   *)
(* the process between insert and mark, and rows appended meanwhile, as     *)
(* long as no two syncs overlap (sqlite_buffer.py:123); and a tick is       *)
(* inserted again only after a crash.                                       *)
SyncedImpliesStored ==
    ~overlapping => \A id \in 1..Len(buffered) :
        /\ buffered[id] => ticks[id] >= 1
        /\ ticks[id] <= 1 + crashes
=============================================================================
