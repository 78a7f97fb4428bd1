---------------------------- MODULE MarketProofs ----------------------------
(***************************************************************************)
(* Proofs about market data and broker sessions: the IBKR connection pool, *)
(* the daily token refresh, the failover buffer and the tick pipeline, for *)
(* any number of adapters, slots, timers, threads, rows and ticks.         *)
(***************************************************************************)
EXTENDS Ingestion, TickStore, BrokerAuth, FiniteSetTheorems, SequenceTheorems, TLAPS

(* Any non-empty set of natural numbers has its Min.                        *)
LEMMA MinOfSet ==
    ASSUME NEW S \in SUBSET Nat, S # {}
    PROVE  Min(S) \in S /\ \A x \in S : Min(S) <= x
  <1> DEFINE R == OpToRel(<, Nat)
  <1>1. IsWellFoundedOn(R, Nat)
    BY NatLessThanWellFounded
  <1>r. \A x, y \in Nat : x < y => <<x, y>> \in R
    BY Zenon DEF OpToRel
  <1> HIDE DEF R
  <1>2. PICK m \in S : \A y \in S : ~ (<<y, m>> \in R)
    BY <1>1, WFMin
  <1>3. \A y \in S : m <= y
    <2>1. \A y \in S : ~(y < m)
      BY <1>2, <1>r, Zenon
    <2> QED BY <2>1
  <1> QED BY <1>2, <1>3 DEF Min

-----------------------------------------------------------------------------
(* IBKRConnectionPool and its adapters.                                     *)

PoolSpec == AuthInit /\ [][PoolNext]_authVars

PoolTyped ==
    /\ inUse \in [Slots -> BOOLEAN] /\ connection \in [Slots -> BOOLEAN]
    /\ held \in [Adapters -> Slots \cup {0}] /\ joining \in [Adapters -> Slots \cup {0}]

(* The slots in an adapter's hands.                                         *)
Mine(a) == {held[a], joining[a]} \ {0}

(* An adapter that connects again while it holds a slot gets another one.   *)
TwoHands == \A a \in Adapters : held[a] # 0 => held[a] # joining[a]
InUse    == \A a \in Adapters : \A s \in Mine(a) : inUse[s]
Apart    == \A a, b \in Adapters : a # b => Mine(a) \cap Mine(b) = {}

PoolInv == PoolTyped /\ (~poolDown => TwoHands /\ InUse /\ Apart)

(* All slots are free.                                                      *)
LEMMA PoolInitInv == AuthInit => PoolInv
  BY DEF AuthInit, PoolInv, PoolTyped, TwoHands, InUse, Apart, Mine

(* A slot that is handed out was free, and is in use from then on.          *)
LEMMA AcquireInv == ASSUME PoolInv, NEW a \in Adapters, Acquire(a) PROVE PoolInv'
  <1> DEFINE s == Min(Free)
  <1>1. Free # {} /\ Free \in SUBSET Nat /\ Free \subseteq Slots /\ 0 \notin Slots
    <2>1. Free # {}
      BY FS_EmptySet DEF Acquire, AvailableCount
    <2> QED BY <2>1, AuthAssumption DEF Free, Slots
  <1>2. s \in Slots /\ s # 0 /\ ~inUse[s]
    BY <1>1, MinOfSet DEF Free
  <1>3. /\ joining[a] = 0 /\ joining' = [joining EXCEPT ![a] = s]
        /\ inUse' = [inUse EXCEPT ![s] = TRUE]
        /\ UNCHANGED <<connection, held, poolDown>>
    BY DEF Acquire
  <1> HIDE DEF s
  <1>4. PoolTyped'
    BY <1>2, <1>3 DEF PoolInv, PoolTyped
  <1>5. ASSUME ~poolDown PROVE TwoHands' /\ InUse' /\ Apart'
    <2>1. \A b \in Adapters : s \notin Mine(b)
      BY <1>2, <1>5 DEF PoolInv, InUse
    <2>2. /\ Mine(a)' = Mine(a) \cup {s}
          /\ \A b \in Adapters : b # a => Mine(b)' = Mine(b)
      BY <1>2, <1>3 DEF Mine, PoolInv, PoolTyped
    <2>3. \A b \in Adapters : Mine(b) \subseteq Slots
      BY DEF Mine, PoolInv, PoolTyped
    <2>4. InUse'
      BY <1>2, <1>3, <1>5, <2>2, <2>3 DEF PoolInv, InUse, PoolTyped
    <2>5. Apart'
      BY <1>5, <2>1, <2>2 DEF PoolInv, Apart
    <2>6. TwoHands'
      BY <1>2, <1>3, <1>5, <2>1 DEF PoolInv, TwoHands, PoolTyped, Mine
    <2> QED BY <2>4, <2>5, <2>6
  <1> QED BY <1>3, <1>4, <1>5 DEF PoolInv

(* The outcomes of connect, disconnect and shutdown.                        *)
LEMMA PoolOthersInv ==
    ASSUME PoolInv,
           \/ \E a \in Adapters :
                 ConnectOk(a) \/ ConnectTimeout(a) \/ ConnectRaises(a) \/ Disconnect(a)
           \/ Shutdown
           \/ UNCHANGED authVars
    PROVE  PoolInv'
  <1> USE DEF PoolInv
  <1>0. 0 \notin Slots
    BY DEF Slots
  <1>1. ASSUME NEW a \in Adapters, ConnectOk(a) PROVE PoolInv'
    <2>1. PoolTyped'
      BY <1>0, <1>1 DEF ConnectOk, PoolTyped
    <2>2. Mine(a)' = {joining[a]} /\ joining[a] \in Mine(a)
          /\ \A b \in Adapters : b # a => Mine(b)' = Mine(b)
      BY <1>0, <1>1 DEF ConnectOk, PoolTyped, Mine
    <2>3. ~poolDown => TwoHands' /\ InUse' /\ Apart'
      BY <1>0, <1>1, <2>2 DEF ConnectOk, PoolTyped, TwoHands, InUse, Apart
    <2> QED BY <1>1, <2>1, <2>3 DEF ConnectOk
  <1>2. ASSUME NEW a \in Adapters, ConnectTimeout(a) PROVE PoolInv'
    <2>1. PoolTyped'
      BY <1>0, <1>2 DEF ConnectTimeout, PoolTyped
    <2>2. /\ joining[a] \in Mine(a) /\ Mine(a)' = {held[a]} \ {0} /\ held' = held
          /\ \A b \in Adapters : b # a => Mine(b)' = Mine(b)
      BY <1>0, <1>2 DEF ConnectTimeout, PoolTyped, Mine
    <2>3. ~poolDown => \A b \in Adapters : joining[a] \notin Mine(b)'
      BY <1>2, <2>2 DEF ConnectTimeout, TwoHands, Apart
    <2>4. \A b \in Adapters : Mine(b)' \subseteq Mine(b) /\ Mine(b) \subseteq Slots
      BY <1>0, <2>2 DEF Mine, PoolTyped
    <2>5. ~poolDown => InUse'
      BY <1>2, <2>3, <2>4 DEF ConnectTimeout, InUse, PoolTyped
    <2>6. ~poolDown => TwoHands' /\ Apart'
      BY <1>0, <1>2, <2>4 DEF ConnectTimeout, TwoHands, Apart, PoolTyped
    <2> QED BY <1>2, <2>1, <2>5, <2>6 DEF ConnectTimeout
  <1>3. ASSUME NEW a \in Adapters, ConnectRaises(a) PROVE PoolInv'
    <2>1. PoolTyped'
      BY <1>0, <1>3 DEF ConnectRaises, PoolTyped
    <2>2. \A b \in Adapters : Mine(b)' \subseteq Mine(b)
      BY <1>0, <1>3 DEF ConnectRaises, PoolTyped, Mine
    <2>3. ~poolDown => TwoHands' /\ InUse' /\ Apart'
      BY <1>0, <1>3, <2>2 DEF ConnectRaises, TwoHands, InUse, Apart, PoolTyped
    <2> QED BY <1>3, <2>1, <2>3 DEF ConnectRaises
  <1>4. ASSUME NEW a \in Adapters, Disconnect(a) PROVE PoolInv'
    <2>1. PoolTyped'
      BY <1>0, <1>4 DEF Disconnect, PoolTyped
    <2>2. /\ held[a] \in Mine(a) /\ Mine(a)' = {joining[a]} \ {0} /\ joining' = joining
          /\ \A b \in Adapters : b # a => Mine(b)' = Mine(b)
      BY <1>0, <1>4 DEF Disconnect, PoolTyped, Mine
    <2>3. ~poolDown => \A b \in Adapters : held[a] \notin Mine(b)'
      BY <1>4, <2>2 DEF Disconnect, TwoHands, Apart
    <2>4. \A b \in Adapters : Mine(b)' \subseteq Mine(b) /\ Mine(b) \subseteq Slots
      BY <1>0, <2>2 DEF Mine, PoolTyped
    <2>5. ~poolDown => InUse'
      BY <1>4, <2>3, <2>4 DEF Disconnect, InUse, PoolTyped
    <2>6. ~poolDown => TwoHands' /\ Apart'
      BY <1>0, <1>4, <2>4 DEF Disconnect, TwoHands, Apart, PoolTyped
    <2> QED BY <1>4, <2>1, <2>5, <2>6 DEF Disconnect
  <1>5. CASE Shutdown
    BY <1>5 DEF Shutdown, PoolTyped
  <1>6. CASE UNCHANGED authVars
    BY <1>6 DEF authVars, poolVars, PoolTyped, TwoHands, InUse, Apart, Mine
  <1> QED BY <1>1, <1>2, <1>3, <1>4, <1>5, <1>6

(* Until shutdown() no two adapters share a client id, and a slot in an     *)
(* adapter's hands is in use, for pools and adapters of any number.         *)
THEOREM SlotsExclusive == PoolSpec => []SlotExclusive
  <1>1. PoolInv /\ [PoolNext]_authVars => PoolInv'
    BY AcquireInv, PoolOthersInv DEF PoolNext
  <1>2. PoolInv => SlotExclusive
    BY DEF PoolInv, InUse, Apart, Mine, SlotExclusive
  <1> QED BY <1>1, <1>2, PoolInitInv, PTL DEF PoolSpec

-----------------------------------------------------------------------------
(* KiteAuthManager, TokenStore and DailyRefreshScheduler.                   *)

TokenSpec == AuthInit /\ [][TokenNext]_authVars

TokenInv == RefreshAssured /\ authClock \in Nat

(* Each of the steps keeps a timer for a scheduler that runs.               *)
LEMMA TokenStepInv == TokenInv /\ [TokenNext]_authVars => TokenInv'
  <1> SUFFICES ASSUME TokenInv, [TokenNext]_authVars PROVE TokenInv'
    OBVIOUS
  <1> USE AuthAssumption DEF TokenInv, RefreshAssured, Armed, schedVars
  <1>1. CASE GetToken
    BY <1>1 DEF GetToken, Load, IsValid, Login
  <1>2. CASE SchedStart
    BY <1>2 DEF SchedStart, ScheduleNext
  <1>3. CASE SchedStop
    BY <1>3 DEF SchedStop
  <1>4. ASSUME NEW t \in 1..made, Fire(t) PROVE TokenInv'
    BY <1>4 DEF Fire
  <1>5. ASSUME NEW t \in 1..made, Fired(t) PROVE TokenInv'
    BY <1>5 DEF Fired, ScheduleNext
  <1>6. CASE Invalidate \/ AuthTick \/ StoreToggles \/ UNCHANGED authVars
    BY <1>6 DEF Invalidate, AuthTick, StoreToggles, authVars, tokenVars
  <1> QED BY <1>1, <1>2, <1>3, <1>4, <1>5, <1>6 DEF TokenNext

(* A running scheduler always has a timer armed or firing, and get_token    *)
(* never returns an expired record.                                         *)
THEOREM RefreshIsAssured == TokenSpec => []RefreshAssured
  <1>1. AuthInit => TokenInv
    BY DEF AuthInit, TokenInv, RefreshAssured, Armed
  <1>2. TokenInv => RefreshAssured
    BY DEF TokenInv
  <1> QED BY <1>1, <1>2, TokenStepInv, PTL DEF TokenSpec

-----------------------------------------------------------------------------
(* The SQLite failover buffer and its sync.                                 *)

StoreSpec == StoreInit /\ [][StoreNext]_storeVars

Syncing(s) == sync[s].pc # "idle"

StoreTyped ==
    /\ buffered \in Seq(BOOLEAN) /\ Len(buffered) <= MaxRows
    /\ ticks \in [1..MaxRows -> Nat] /\ crashes \in Nat
    /\ sync \in [Syncers -> [pc : {"idle", "insert", "mark"}, rows : SUBSET (1..MaxRows)]]

(* The rows are the oldest of those pending: what is appended while a sync  *)
(* runs has larger ids.                                                     *)
OldestPending(rows) ==
    /\ rows \subseteq PendingRows
    /\ \A r \in rows, id \in PendingRows \ rows : r < id

OneSync == /\ \A s, u \in Syncers : Syncing(s) /\ Syncing(u) => s = u
           /\ \A s \in Syncers : Syncing(s) => OldestPending(sync[s].rows)

(* Inserted and waiting to be marked                                        *)
Unmarked(id) == \E s \in Syncers : sync[s].pc = "mark" /\ id \in sync[s].rows

(* How often the tick of a row was inserted: a row that still counts as     *)
(* pending only by crashes between insert and mark.                         *)
Counted ==
    \A id \in 1..MaxRows :
        /\ id <= Len(buffered) /\ (buffered[id] \/ Unmarked(id)) =>
               ticks[id] >= 1 /\ ticks[id] <= 1 + crashes
        /\ id <= Len(buffered) /\ ~(buffered[id] \/ Unmarked(id)) => ticks[id] <= crashes
        /\ id > Len(buffered) => ticks[id] = 0

StoreInv == StoreTyped /\ (~overlapping => OneSync /\ Counted)

(* As long as the inserted rows are the oldest pending ones, mark_synced of *)
(* their number marks them and no other.                                    *)
LEMMA MarksInserted ==
    ASSUME StoreTyped, NEW rows, OldestPending(rows)
    PROVE  Marked(Cardinality(rows)) = rows
  <1>1. Len(buffered) \in Nat
    BY DEF StoreTyped
  <1>2. PendingRows \in SUBSET (1..Len(buffered)) /\ IsFiniteSet(1..Len(buffered))
    BY <1>1, FS_Interval DEF PendingRows
  <1>3. IsFiniteSet(PendingRows)
    BY <1>2, FS_Subset
  <1>4. IsFiniteSet(rows) /\ Cardinality(rows) \in Nat
    BY <1>3, FS_Subset, FS_CardinalityType DEF OldestPending
  <1> DEFINE upTo(id) == {j \in PendingRows : j <= id}
  <1>5. ASSUME NEW id \in rows PROVE Cardinality(upTo(id)) <= Cardinality(rows)
    <2>1. upTo(id) \in SUBSET rows
      <3>1. \A j \in PendingRows : j \in Nat
        BY <1>1, <1>2
      <3>2. id \in PendingRows /\ \A j \in PendingRows \ rows : id < j
        BY DEF OldestPending
      <3>3. \A j \in PendingRows : j <= id => j \in rows
        BY <3>1, <3>2
      <3> QED BY <3>3
    <2> QED BY <1>4, <2>1, FS_Subset
  <1>6. ASSUME NEW id \in PendingRows \ rows
        PROVE  ~(Cardinality(upTo(id)) <= Cardinality(rows))
    <2>1. rows \cup {id} \in SUBSET upTo(id)
      BY <1>2 DEF OldestPending
    <2>2. IsFiniteSet(upTo(id)) /\ Cardinality(upTo(id)) \in Nat
      <3>1. upTo(id) \in SUBSET PendingRows
        OBVIOUS
      <3>2. IsFiniteSet(upTo(id))
        BY <1>3, <3>1, FS_Subset
      <3> QED BY <3>2, FS_CardinalityType
    <2>3. Cardinality(rows \cup {id}) = Cardinality(rows) + 1
      BY <1>4, <1>6, FS_AddElement
    <2>4. Cardinality(rows \cup {id}) <= Cardinality(upTo(id))
      BY <2>1, <2>2, FS_Subset
    <2> HIDE DEF upTo
    <2> QED BY <1>4, <2>2, <2>3, <2>4
  <1>7. Marked(Cardinality(rows)) = {id \in PendingRows : Cardinality(upTo(id)) <= Cardinality(rows)}
    BY DEF Marked
  <1> HIDE DEF upTo
  <1> QED BY <1>5, <1>6, <1>7 DEF OldestPending

(* The store and its buffer are empty.                                      *)
LEMMA StoreInitInv == StoreInit => StoreInv
  <1> SUFFICES ASSUME StoreInit PROVE StoreInv
    OBVIOUS
  <1> USE StoreAssumption DEF StoreInit
  <1>1. buffered = <<>> /\ Len(buffered) = 0 /\ buffered \in Seq(BOOLEAN)
    OBVIOUS
  <1>2. StoreTyped
    BY <1>1 DEF StoreTyped, NoSync
  <1>3. OneSync
    BY DEF OneSync, Syncing, NoSync
  <1>4. Counted
    BY <1>1 DEF Counted
  <1> QED BY <1>2, <1>3, <1>4 DEF StoreInv

(* New rows come after the old ones and have never been inserted.           *)
LEMMA AppendInv == ASSUME StoreInv, NEW n \in 1..2, AppendTicks(n) PROVE StoreInv'
  <1> USE DEF StoreInv
  <1> DEFINE new == [i \in 1..n |-> FALSE]
  <1>0. Len(buffered) \in Nat /\ new \in Seq(BOOLEAN) /\ Len(new) = n
    <2>1. new \in [1..n -> BOOLEAN] /\ n \in Nat
      OBVIOUS
    <2>2. new \in Seq(BOOLEAN)
      BY <2>1
    <2>3. DOMAIN new = 1..n
      OBVIOUS
    <2> QED BY <2>1, <2>2, <2>3, LenProperties DEF StoreTyped
  <1>1. /\ Len(buffered') = Len(buffered) + n /\ buffered' \in Seq(BOOLEAN)
        /\ Len(buffered') <= MaxRows
        /\ \A id \in 1..Len(buffered) : buffered'[id] = buffered[id]
        /\ \A id \in (Len(buffered) + 1)..(Len(buffered) + n) : ~buffered'[id]
        /\ UNCHANGED <<ticks, sync, crashes, overlapping>>
    <2>1. buffered' = buffered \o new /\ Len(buffered) + n <= MaxRows
          /\ UNCHANGED <<ticks, sync, crashes, overlapping>>
      BY DEF AppendTicks
    <2>2. \A i \in 1..n : ~new[i]
      OBVIOUS
    <2> HIDE DEF new
    <2>3. /\ buffered' \in Seq(BOOLEAN) /\ Len(buffered') = Len(buffered) + n
          /\ \A i \in 1..(Len(buffered) + n) : buffered'[i] =
                IF i <= Len(buffered) THEN buffered[i] ELSE new[i - Len(buffered)]
      BY <1>0, <2>1, ConcatProperties DEF StoreTyped
    <2>4. ASSUME NEW id \in (Len(buffered) + 1)..(Len(buffered) + n) PROVE ~buffered'[id]
      <3>1. id - Len(buffered) \in 1..n /\ id \in 1..(Len(buffered) + n) /\ ~(id <= Len(buffered))
        BY <1>0
      <3>2. buffered'[id] = new[id - Len(buffered)]
        BY <2>3, <3>1
      <3> QED BY <2>2, <3>1, <3>2
    <2>5. \A id \in 1..Len(buffered) : buffered'[id] = buffered[id]
      BY <1>0, <2>3
    <2> QED BY <1>0, <2>1, <2>3, <2>4, <2>5
  <1>2. StoreTyped'
    BY <1>1 DEF StoreTyped
  <1>3. /\ PendingRows' = PendingRows \cup (Len(buffered) + 1)..(Len(buffered) + n)
        /\ PendingRows \subseteq 1..Len(buffered)
    BY <1>0, <1>1 DEF PendingRows
  <1>4. ~overlapping => OneSync'
    <2>1. \A rows : OldestPending(rows) => OldestPending(rows)'
      BY <1>0, <1>3 DEF OldestPending
    <2> QED BY <1>1, <2>1 DEF OneSync, Syncing
  <1>5. ~overlapping => Counted'
    <2> SUFFICES ASSUME ~overlapping, NEW id \in 1..MaxRows
                 PROVE  /\ id <= Len(buffered') /\ (buffered'[id] \/ Unmarked(id)') =>
                               ticks[id] >= 1 /\ ticks[id] <= 1 + crashes
                        /\ id <= Len(buffered') /\ ~(buffered'[id] \/ Unmarked(id)') =>
                               ticks[id] <= crashes
                        /\ id > Len(buffered') => ticks[id] = 0
      BY <1>1 DEF Counted
    <2>1. Unmarked(id)' = Unmarked(id)
      BY <1>1 DEF Unmarked
    <2>2. CASE id <= Len(buffered)
      BY <1>0, <1>1, <2>1, <2>2 DEF Counted
    <2>3. CASE id > Len(buffered)
      <3>1. ticks[id] = 0 /\ crashes \in Nat
        BY <2>3 DEF Counted, StoreTyped
      <3>2. ~Unmarked(id)
        BY <1>0, <1>3, <2>3 DEF Unmarked, OneSync, OldestPending, Syncing
      <3> QED BY <1>0, <1>1, <2>1, <2>3, <3>1, <3>2
    <2> QED BY <1>0, <2>2, <2>3
  <1> QED BY <1>1, <1>2, <1>4, <1>5

(* A sync reads every pending row.                                          *)
LEMMA ReadInv == ASSUME StoreInv, NEW s \in Syncers, ReadPending(s) PROVE StoreInv'
  <1> USE DEF StoreInv
  <1>0. PendingRows \in SUBSET (1..MaxRows)
    BY StoreAssumption DEF StoreTyped, PendingRows
  <1>1. /\ sync' = [sync EXCEPT ![s] = [pc |-> "insert", rows |-> PendingRows]]
        /\ ~overlapping' => ~overlapping /\ \A u \in Syncers \ {s} : ~Syncing(u)
        /\ sync[s].pc = "idle"
        /\ UNCHANGED <<buffered, ticks, crashes>>
    BY DEF ReadPending, Syncing
  <1>2. StoreTyped'
    BY <1>0, <1>1 DEF StoreTyped
  <1>3. sync'[s].pc = "insert" /\ sync'[s].rows = PendingRows
        /\ \A u \in Syncers \ {s} : sync'[u] = sync[u]
    BY <1>1 DEF StoreTyped
  <1>4. PendingRows' = PendingRows
    BY <1>1 DEF PendingRows
  <1>5. ~overlapping' => OneSync'
    BY <1>1, <1>3, <1>4 DEF OneSync, Syncing, OldestPending
  <1>6. \A id : Unmarked(id)' <=> Unmarked(id)
    BY <1>1, <1>3 DEF Unmarked
  <1>7. ~overlapping' => Counted'
    BY <1>1, <1>6 DEF Counted
  <1> QED BY <1>2, <1>5, <1>7

(* The insert commits all rows of the sync or none.                         *)
LEMMA InsertInv == ASSUME StoreInv, NEW s \in Syncers, InsertMany(s) PROVE StoreInv'
  <1> USE DEF StoreInv
  <1>0. UNCHANGED <<buffered, crashes, overlapping>> /\ sync[s].pc = "insert"
    BY DEF InsertMany
  <1>1. CASE /\ ticks' = [id \in DOMAIN ticks |->
                             ticks[id] + IF id \in sync[s].rows THEN 1 ELSE 0]
             /\ sync' = [sync EXCEPT ![s].pc = "mark"]
    <2>1. /\ sync'[s].pc = "mark" /\ sync'[s].rows = sync[s].rows
          /\ \A u \in Syncers \ {s} : sync'[u] = sync[u]
      BY <1>1 DEF StoreTyped
    <2>2. StoreTyped'
      BY <1>0, <1>1 DEF StoreTyped
    <2>3. PendingRows' = PendingRows
      BY <1>0 DEF PendingRows
    <2>4. ~overlapping => OneSync'
      BY <1>0, <2>1, <2>3 DEF OneSync, Syncing, OldestPending
    <2>5. ASSUME ~overlapping PROVE Counted'
      <3>1. \A u \in Syncers : u # s => sync[u].pc = "idle"
        BY <1>0, <2>5 DEF OneSync, Syncing
      <3>2. \A id : ~Unmarked(id) /\ (Unmarked(id)' <=> id \in sync[s].rows)
        BY <1>0, <2>1, <3>1 DEF Unmarked
      <3>3. \A id \in sync[s].rows : id \in 1..Len(buffered) /\ ~buffered[id]
        BY <1>0, <2>5 DEF OneSync, Syncing, OldestPending, PendingRows
      <3>4. \A id \in 1..MaxRows : ticks[id] \in Nat
                /\ ticks'[id] = ticks[id] + IF id \in sync[s].rows THEN 1 ELSE 0
        BY <1>1 DEF StoreTyped
      <3>5. crashes \in Nat /\ Len(buffered) \in Nat
        BY DEF StoreTyped
      <3> SUFFICES ASSUME NEW id \in 1..MaxRows
                   PROVE  /\ id <= Len(buffered) /\ (buffered[id] \/ Unmarked(id)') =>
                                 ticks'[id] >= 1 /\ ticks'[id] <= 1 + crashes
                          /\ id <= Len(buffered) /\ ~(buffered[id] \/ Unmarked(id)') =>
                                 ticks'[id] <= crashes
                          /\ id > Len(buffered) => ticks'[id] = 0
        BY <1>0 DEF Counted
      <3>6. CASE id \in sync[s].rows
        <4>1. ticks[id] <= crashes
          BY <2>5, <3>2, <3>3, <3>5, <3>6 DEF Counted
        <4> QED BY <3>2, <3>3, <3>4, <3>5, <3>6, <4>1
      <3>7. CASE id \notin sync[s].rows
        <4>1. ticks'[id] = ticks[id]
          BY <3>4, <3>7
        <4> QED BY <2>5, <3>2, <3>7, <4>1 DEF Counted
      <3> QED BY <3>6, <3>7
    <2> QED BY <1>0, <2>2, <2>4, <2>5
  <1>2. CASE sync' = [sync EXCEPT ![s] = NoSync] /\ UNCHANGED ticks
    <2>1. /\ sync'[s].pc = "idle"
          /\ \A u \in Syncers \ {s} : sync'[u] = sync[u]
      BY <1>2 DEF StoreTyped, NoSync
    <2>2. StoreTyped'
      BY <1>0, <1>2 DEF StoreTyped, NoSync
    <2>3. PendingRows' = PendingRows
      BY <1>0 DEF PendingRows
    <2>4. ~overlapping => OneSync'
      BY <1>0, <2>1, <2>3 DEF OneSync, Syncing, OldestPending
    <2>5. \A id : Unmarked(id)' <=> Unmarked(id)
      BY <1>0, <2>1 DEF Unmarked
    <2>6. ~overlapping => Counted'
      BY <1>0, <1>2, <2>5 DEF Counted
    <2> QED BY <1>0, <2>2, <2>4, <2>6
  <1> QED BY <1>1, <1>2 DEF InsertMany

(* The rows that were inserted are marked.                                  *)
LEMMA MarkInv == ASSUME StoreInv, NEW s \in Syncers, MarkSynced(s) PROVE StoreInv'
  <1> USE DEF StoreInv
  <1> DEFINE rows == sync[s].rows
             marked == Marked(Cardinality(rows))
  <1>0. /\ sync[s].pc = "mark" /\ UNCHANGED <<ticks, crashes, overlapping>>
        /\ buffered' = [id \in 1..Len(buffered) |-> buffered[id] \/ id \in marked]
        /\ sync' = [sync EXCEPT ![s] = NoSync]
    BY DEF MarkSynced
  <1>1. Len(buffered) \in Nat /\ \A id \in 1..Len(buffered) : buffered[id] \in BOOLEAN
    BY DEF StoreTyped
  <1>2. /\ buffered' \in Seq(BOOLEAN) /\ Len(buffered') = Len(buffered)
        /\ \A id \in 1..Len(buffered) : buffered'[id] = (buffered[id] \/ id \in marked)
    <2> HIDE DEF marked
    <2>1. \A id \in 1..Len(buffered) : (buffered[id] \/ id \in marked) \in BOOLEAN
      OBVIOUS
    <2>2. buffered' \in [1..Len(buffered) -> BOOLEAN]
      BY <1>0, <2>1, Zenon
    <2>3. buffered' \in Seq(BOOLEAN)
      BY <1>1, <2>2
    <2>4. DOMAIN buffered' = 1..Len(buffered)
      BY <1>0
    <2>5. Len(buffered') = Len(buffered)
      BY <1>1, <2>3, <2>4, LenProperties
    <2> QED BY <1>0, <2>3, <2>5
  <1>3. /\ sync'[s].pc = "idle"
        /\ \A u \in Syncers \ {s} : sync'[u] = sync[u]
    BY <1>0 DEF StoreTyped, NoSync
  <1>4. StoreTyped'
    BY <1>0, <1>2 DEF StoreTyped, NoSync
  <1>5. ASSUME ~overlapping PROVE OneSync' /\ Counted'
    <2>1. \A u \in Syncers : u # s => sync[u].pc = "idle"
      BY <1>0, <1>5 DEF OneSync, Syncing
    <2>2. OneSync'
      BY <1>3, <2>1 DEF OneSync, Syncing
    <2>3. marked = rows
      BY <1>0, <1>5, MarksInserted DEF OneSync, Syncing
    <2> HIDE DEF marked, rows
    <2>4. \A id : ~Unmarked(id)' /\ (Unmarked(id) <=> id \in rows)
      BY <1>0, <1>3, <2>1 DEF Unmarked, rows
    <2>5. \A id \in 1..MaxRows : id <= Len(buffered) =>
             (buffered'[id] <=> (buffered[id] \/ Unmarked(id)))
      <3> SUFFICES ASSUME NEW id \in 1..MaxRows, id <= Len(buffered)
                   PROVE  buffered'[id] <=> (buffered[id] \/ Unmarked(id))
        OBVIOUS
      <3>1. id \in 1..Len(buffered)
        BY <1>1
      <3>2. buffered'[id] = (buffered[id] \/ id \in rows)
        BY <1>2, <2>3, <3>1, Zenon
      <3> QED BY <2>4, <3>2, Zenon
    <2>6. Counted'
      BY <1>0, <1>2, <1>5, <2>4, <2>5 DEF Counted
    <2> QED BY <2>2, <2>6
  <1> QED BY <1>0, <1>4, <1>5

(* Live candles, backfills and crashes.                                     *)
LEMMA StoreOthersInv ==
    ASSUME StoreInv,
           \/ \E m \in Minutes : UpsertLive(m)
           \/ \E days \in {FineDays, FineDays + 1} : Backfill(days)
           \/ StoreCrash
           \/ UNCHANGED storeVars
    PROVE  StoreInv'
  <1> USE DEF StoreInv
  <1>1. CASE StoreCrash
    <2>1. /\ crashes' = crashes + 1 /\ UNCHANGED <<buffered, ticks, overlapping>>
          /\ \A s \in Syncers : sync'[s].pc = "idle" /\ sync'[s] = NoSync
          /\ sync' = [s \in Syncers |-> NoSync]
      BY <1>1 DEF StoreCrash, NoSync
    <2>2. StoreTyped'
      BY <2>1 DEF StoreTyped, NoSync
    <2>3. OneSync'
      BY <2>1 DEF OneSync, Syncing
    <2>4. \A id : ~Unmarked(id)'
      BY <2>1 DEF Unmarked
    <2>5. ~overlapping => Counted'
      BY <2>1, <2>4 DEF Counted, StoreTyped
    <2> QED BY <2>1, <2>2, <2>3, <2>5
  <1>2. CASE UNCHANGED <<buffered, ticks, sync, crashes, overlapping>>
    BY <1>2 DEF StoreTyped, OneSync, Syncing, OldestPending, PendingRows, Counted, Unmarked
  <1> QED BY <1>1, <1>2 DEF UpsertLive, Backfill, storeVars

(* As long as syncs do not overlap, a row marked synced has been inserted,  *)
(* and more than once only after crashes.                                   *)
THEOREM SyncedIsStored == StoreSpec => []SyncedImpliesStored
  <1>1. StoreInv /\ [StoreNext]_storeVars => StoreInv'
    BY AppendInv, ReadInv, InsertInv, MarkInv, StoreOthersInv DEF StoreNext
  <1>2. StoreInv => SyncedImpliesStored
    <2> SUFFICES ASSUME StoreInv, ~overlapping, NEW id \in 1..Len(buffered)
                 PROVE  (buffered[id] => ticks[id] >= 1) /\ ticks[id] <= 1 + crashes
      BY DEF SyncedImpliesStored
    <2>1. id \in 1..MaxRows /\ id <= Len(buffered) /\ ticks[id] \in Nat /\ crashes \in Nat
      BY StoreAssumption DEF StoreInv, StoreTyped
    <2> QED BY <2>1 DEF StoreInv, Counted
  <1> QED BY <1>1, <1>2, StoreInitInv, PTL DEF StoreSpec

-----------------------------------------------------------------------------
(* The tick pipeline.  Its parts, which the runs take apart, run together   *)
(* here.                                                                    *)

FeedSpec == FeedInit /\ [][BarNext \/ BufferNext \/ AgentNext]_feedVars

Tick      == [ts : Int, vol : Int, id : Nat]
Early     == {"read", "write", "push"}
Late      == {"memory", "append", "stale"}
Injecting == [pc : Early \cup Late, at : Intervals, seen : Nat, tick : Tick]
Bar       == [start : Int, volume : Int]
Working   == [pc : {"idle", "slice", "store", "range", "trim"}, take : Nat, left : Nat,
              raw : SUBSET Nat, rest : Seq(Nat)]

QueuesTyped == memBuf \in Seq(Nat) /\ redisBuf \in Seq(Nat) /\ work \in Working

FeedTyped ==
    /\ now \in Nat /\ ws.prev \in Int /\ ws \in [alive : BOOLEAN, connected : BOOLEAN, prev : Int]
    /\ bars \in [Intervals -> [objs : Seq(Bar), cur : Nat]]
    /\ \A i \in Intervals : bars[i].cur <= Len(bars[i].objs)
    /\ inj \in [Threads -> Injecting \cup {NoInj}]
    /\ \A t \in Threads : inj[t].pc = "write" => inj[t].seen <= Len(bars[inj[t].at].objs)
    /\ volume \in [Intervals -> Int] /\ handed \in [Intervals -> Int] /\ overwritten \in Int
    /\ QueuesTyped /\ accepted \in Seq(Int)

(* Until two injections overlap there is one at a time, and the bar it read *)
(* is the one it writes.                                                    *)
OneInjection ==
    /\ \A t, u \in Threads : ~Idle(t) /\ ~Idle(u) => t = u
    /\ \A t \in Threads : inj[t].pc = "write" => inj[t].seen = bars[inj[t].at].cur

Volumes == OneInjection /\ VolumeConserved

(* Where a tick is, apart from the two queues.                              *)
Pushing == {inj[t].tick.id : t \in {u \in Threads : ~Idle(u)}}

(* Sets that have no more than Z in common.                                 *)
MeetIn(Z, A, B, C, D, E, F) ==
    /\ A \cap B \subseteq Z /\ A \cap C \subseteq Z /\ A \cap D \subseteq Z /\ A \cap E \subseteq Z
    /\ A \cap F \subseteq Z /\ B \cap C \subseteq Z /\ B \cap D \subseteq Z /\ B \cap E \subseteq Z
    /\ B \cap F \subseteq Z /\ C \cap D \subseteq Z /\ C \cap E \subseteq Z /\ C \cap F \subseteq Z
    /\ D \cap E \subseteq Z /\ D \cap F \subseteq Z /\ E \cap F \subseteq Z

(* A tick whose RPUSH has not been executed yet is not doubled, and one     *)
(* that is still to be appended is not in the list.                         *)
Places ==
    /\ Pushing \cup ToSet(memBuf) \cup ToSet(redisBuf) \cup drained \cup unanswered \cup dropped
           = 1..Len(accepted)
    /\ MeetIn(doubled, Pushing, ToSet(memBuf), ToSet(redisBuf), drained, unanswered, dropped)
    /\ Pushing \cap ToSet(memBuf) = {} /\ doubled \subseteq 1..Len(accepted)
    /\ \A t \in Threads : inj[t].pc \in Early => inj[t].tick.id \notin doubled

(* No two injections carry the same tick, no queue holds one twice.         *)
NoneTwice ==
    /\ \A t, u \in Threads : ~Idle(t) /\ ~Idle(u) /\ t # u => inj[t].tick.id # inj[u].tick.id
    /\ IsInjective(memBuf) /\ IsInjective(redisBuf)

(* What drain() has read is still there when it uses it: pushes only append.*)
ReadsHold ==
    /\ work.pc = "slice" => work.take <= Len(memBuf)
    /\ work.pc = "store" => /\ IsInjective(work.rest) /\ work.raw \cap ToSet(work.rest) = {}
                            /\ work.raw \cup ToSet(work.rest) \subseteq ToSet(memBuf)
    /\ work.pc = "trim" => work.take <= Len(redisBuf)

FeedInv == FeedTyped /\ (~overlapped => Volumes) /\ Places /\ NoneTwice /\ ReadsHold

(* What the queues' operations do to their elements.                        *)
LEMMA AppendSet ==
    ASSUME NEW s \in Seq(Nat), IsInjective(s), NEW x \in Nat, x \notin ToSet(s)
    PROVE  /\ Append(s, x) \in Seq(Nat) /\ IsInjective(Append(s, x))
           /\ ToSet(Append(s, x)) = ToSet(s) \cup {x}
  <1> DEFINE r == Append(s, x)
             n == Len(s)
  <1>1. /\ n \in Nat /\ DOMAIN s = 1..n /\ DOMAIN r = 1..(n + 1) /\ r \in Seq(Nat)
        /\ r[n + 1] = x /\ \A i \in 1..n : r[i] = s[i]
    BY AppendProperties, LenProperties
  <1>2. \A i \in 1..n : s[i] # x
    BY <1>1 DEF ToSet
  <1> HIDE DEF r, n
  <1>3. IsInjective(r)
    BY <1>1, <1>2 DEF IsInjective
  <1>4. ToSet(r) = ToSet(s) \cup {x}
    BY <1>1 DEF ToSet
  <1> QED BY <1>1, <1>3, <1>4 DEF r

(* A sequence without repetitions, cut in two                               *)
LEMMA SplitSet ==
    ASSUME NEW s \in Seq(Nat), IsInjective(s), NEW k \in 0..Len(s)
    PROVE  LET front == ToSet(SubSeq(s, 1, k))
               rest  == SubSeq(s, k + 1, Len(s))
           IN  /\ rest \in Seq(Nat) /\ IsInjective(rest)
               /\ front \cup ToSet(rest) = ToSet(s)
               /\ front \cap ToSet(rest) = {}
  <1> DEFINE n == Len(s)
             f == SubSeq(s, 1, k)
             r == SubSeq(s, k + 1, n)
  <1>1. n \in Nat /\ k \in Int /\ DOMAIN s = 1..n /\ \A i \in 1..n : s[i] \in Nat
    BY LenProperties
  <1>2. /\ f \in Seq(Nat) /\ Len(f) = k /\ \A i \in 1..k : f[i] = s[i]
    BY <1>1, SubSeqProperties
  <1>3. /\ r \in Seq(Nat) /\ Len(r) = n - k /\ \A i \in 1..(n - k) : r[i] = s[k + i]
    <2>1. \A i \in (k + 1)..n : s[i] \in Nat
      BY <1>1
    <2>2. /\ r \in Seq(Nat)
          /\ Len(r) = IF k + 1 <= n THEN n - (k + 1) + 1 ELSE 0
          /\ \A i \in 1..(n - (k + 1) + 1) : r[i] = s[(k + 1) + i - 1]
      BY <1>1, <2>1, SubSeqProperties
    <2> HIDE DEF r, n
    <2>3. n - (k + 1) + 1 = n - k /\ k <= n
      BY <1>1 DEF n
    <2>4. \A i \in 1..(n - k) : (k + 1) + i - 1 = k + i
      BY <1>1
    <2> QED BY <1>1, <2>2, <2>3, <2>4
  <1>4. DOMAIN f = 1..k /\ DOMAIN r = 1..(n - k)
    BY <1>2, <1>3, LenProperties
  <1> HIDE DEF f, r
  <1>5. k <= n /\ k \in Nat
    BY <1>1
  <1> HIDE DEF n
  <1>6. IsInjective(r)
    <2> SUFFICES ASSUME NEW i \in 1..(n - k), NEW j \in 1..(n - k), r[i] = r[j] PROVE i = j
      BY <1>4 DEF IsInjective
    <2>1. k + i \in 1..n /\ k + j \in 1..n /\ s[k + i] = s[k + j]
      BY <1>1, <1>3, <1>5
    <2>2. k + i = k + j
      BY <1>1, <2>1 DEF IsInjective
    <2> QED BY <1>1, <2>2
  <1>7. ToSet(f) = {s[i] : i \in 1..k}
    BY <1>2, <1>4 DEF ToSet
  <1>8. ToSet(r) = {s[i] : i \in (k + 1)..n}
    <2>1. \A i \in (k + 1)..n : i - k \in 1..(n - k) /\ r[i - k] = s[i]
      BY <1>1, <1>3, <1>5
    <2>2. \A i \in 1..(n - k) : k + i \in (k + 1)..n /\ r[i] = s[k + i]
      BY <1>1, <1>3, <1>5
    <2>3. ToSet(r) = {r[i] : i \in 1..(n - k)}
      BY <1>4 DEF ToSet
    <2>4. \A x : x \in {r[i] : i \in 1..(n - k)} => x \in {s[i] : i \in (k + 1)..n}
      BY <2>2
    <2>5. \A x : x \in {s[i] : i \in (k + 1)..n} => x \in {r[i] : i \in 1..(n - k)}
      BY <2>1
    <2> QED BY <2>3, <2>4, <2>5
  <1>9. ToSet(s) = {s[i] : i \in 1..n}
    BY <1>1 DEF ToSet
  <1>10. ToSet(f) \cup ToSet(r) = ToSet(s)
    BY <1>1, <1>5, <1>7, <1>8, <1>9
  <1>11. ToSet(f) \cap ToSet(r) = {}
    <2> SUFFICES ASSUME NEW i \in 1..k, NEW j \in (k + 1)..n, s[i] = s[j] PROVE FALSE
      BY <1>7, <1>8
    <2>1. i \in 1..n /\ j \in 1..n /\ i # j
      BY <1>1, <1>5
    <2> QED BY <1>1, <2>1 DEF IsInjective
  <1> QED BY <1>3, <1>6, <1>10, <1>11 DEF f, r, n

(* The places of NoTickLost, in words of the invariant.                     *)
LEMMA PlacesAreLost ==
    ASSUME Places, NoneTwice PROVE NoTickLost
  <1> DEFINE places == <<Pushing, ToSet(memBuf), ToSet(redisBuf), drained, unanswered, dropped>>
  <1>1. Len(places) = 6 /\ DOMAIN places = 1..6
    OBVIOUS
  <1>2. UNION ToSet(places) =
            Pushing \cup ToSet(memBuf) \cup ToSet(redisBuf) \cup drained \cup unanswered \cup dropped
    <2>1. ToSet(places) = {places[i] : i \in 1..6}
      BY <1>1 DEF ToSet
    <2>2. 1..6 = {1, 2, 3, 4, 5, 6}
      OBVIOUS
    <2>3. ToSet(places) = {Pushing, ToSet(memBuf), ToSet(redisBuf), drained, unanswered, dropped}
      BY <2>1, <2>2
    <2> QED BY <2>3
  <1>3. ASSUME NEW i \in 1..Len(places), NEW j \in 1..Len(places), i # j
        PROVE  places[i] \cap places[j] \subseteq doubled
    <2>1. i \in {1, 2, 3, 4, 5, 6} /\ j \in {1, 2, 3, 4, 5, 6}
      BY <1>1
    <2>2. /\ places[1] = Pushing /\ places[2] = ToSet(memBuf) /\ places[3] = ToSet(redisBuf)
          /\ places[4] = drained /\ places[5] = unanswered /\ places[6] = dropped
      OBVIOUS
    <2>3. MeetIn(doubled, places[1], places[2], places[3], places[4], places[5], places[6])
      BY <2>2 DEF Places
    <2> HIDE DEF places
    <2> QED BY <1>3, <2>1, <2>3 DEF MeetIn
  <1>4. UNION ToSet(places) = 1..Len(accepted)
    BY <1>2 DEF Places
  <1> QED BY <1>3, <1>4 DEF NoTickLost, Pushing, NoneTwice

(* An injection is idle or has its complete record.                         *)
LEMMA InjCases ==
    ASSUME FeedTyped, NEW t \in Threads
    PROVE  (Idle(t) => inj[t] = NoInj) /\ (~Idle(t) => inj[t] \in Injecting)
  BY DEF FeedTyped, Idle, Injecting, NoInj, Early, Late

(* The two aggregators have different intervals.                            *)
LEMMA IntervalsApart == OneMinute # FiveMinute /\ OneMinute \in Intervals /\ FiveMinute \in Intervals
  BY IngestionAssumption DEF Intervals

(* No drain() in progress                                                   *)
LEMMA NoWorkTyped == NoWork \in Working /\ NoWork.pc = "idle"
  BY DEF NoWork, Working

(* No tick has arrived.                                                     *)
LEMMA FeedInitInv == FeedInit => FeedInv
  <1> SUFFICES ASSUME FeedInit PROVE FeedInv
    OBVIOUS
  <1> USE IntervalsApart DEF FeedInit
  <1>1. feed.started \in BOOLEAN
    BY IngestionAssumption
  <1>2. ws = [alive |-> feed.started, connected |-> feed.started, prev |-> -1]
    OBVIOUS
  <1>3. ws \in [alive : BOOLEAN, connected : BOOLEAN, prev : Int] /\ ws.prev \in Int
    BY <1>1, <1>2
  <1>4. FeedTyped
    <2>1. QueuesTyped
      BY NoWorkTyped DEF QueuesTyped
    <2> QED BY <1>3, <2>1 DEF FeedTyped, NoBars, NoInj
  <1>5. Pushing = {} /\ ToSet(memBuf) = {} /\ ToSet(redisBuf) = {}
    BY DEF Pushing, Idle, NoInj, ToSet
  <1>6. Places /\ NoneTwice
    BY <1>5 DEF Places, MeetIn, NoneTwice, IsInjective, Idle, NoInj, Early
  <1>7. Volumes
    BY DEF Volumes, OneInjection, VolumeConserved, OpenVolume, NoBars, Idle, NoInj
  <1>8. ReadsHold
    BY DEF ReadsHold, NoWork
  <1> QED BY <1>4, <1>6, <1>7, <1>8 DEF FeedInv

(* An accepted tick begins its way with a new number.                       *)
LEMMA AcceptInv ==
    ASSUME FeedInv, NEW t \in Threads, Idle(t), NEW tick, tick.ts \in Int, tick.vol \in Int,
           Accept(t, tick),
           UNCHANGED <<now, bars, volume, handed, overwritten>>,
           UNCHANGED queueVars,
           ws' \in [alive : BOOLEAN, connected : BOOLEAN, prev : Int], ws'.prev \in Int
    PROVE  FeedInv'
  <1> USE DEF FeedInv
  <1> DEFINE n == Len(accepted)
             x == [pc |-> "read", at |-> OneMinute, seen |-> 0,
                   tick |-> [ts |-> tick.ts, vol |-> tick.vol, id |-> n + 1]]
  <1>1. accepted \in Seq(Int) /\ n \in Nat
    BY DEF FeedTyped
  <1>2. /\ accepted' = Append(accepted, tick.vol) /\ inj' = [inj EXCEPT ![t] = x]
        /\ ~overlapped' => ~overlapped /\ \A u \in Threads \ {t} : Idle(u)
    BY DEF Accept
  <1>3. accepted' \in Seq(Int) /\ Len(accepted') = n + 1
    BY <1>1, <1>2, AppendProperties
  <1>4. x \in Injecting /\ x.pc = "read" /\ x.tick.id = n + 1
    BY <1>1, IntervalsApart DEF Injecting, Tick, Early
  <1>5. inj'[t] = x /\ \A u \in Threads : u # t => inj'[u] = inj[u]
    BY <1>2 DEF FeedTyped
  <1> HIDE DEF x, n
  <1>6. FeedTyped'
    <2>1. inj' \in [Threads -> Injecting \cup {NoInj}]
      BY <1>2, <1>4 DEF FeedTyped
    <2>2. \A u \in Threads : inj'[u].pc = "write" => inj'[u].seen <= Len(bars[inj'[u].at].objs)
      BY <1>4, <1>5 DEF FeedTyped
    <2> QED BY <1>3, <2>1, <2>2 DEF FeedTyped, QueuesTyped, queueVars
  <1>7. /\ \A u \in Threads : Idle(u)' <=> (Idle(u) /\ u # t)
        /\ Pushing' = Pushing \cup {n + 1}
    <2>1. \A u \in Threads : Idle(u)' <=> (Idle(u) /\ u # t)
      BY <1>4, <1>5 DEF Idle
    <2>2. \A u \in Threads : ~Idle(u) => u # t
      OBVIOUS
    <2> QED BY <1>4, <1>5, <2>1, <2>2 DEF Pushing
  <1>8. ~overlapped' => Volumes'
    BY <1>2, <1>4, <1>5, <1>7 DEF Volumes, OneInjection, VolumeConserved, OpenVolume
  <1>9. 1..(n + 1) = 1..n \cup {n + 1} /\ n + 1 \notin 1..n
    BY <1>1
  <1>10. Places'
    <2>1. \A u \in Threads : inj'[u].pc \in Early => inj'[u].tick.id \notin doubled
      BY <1>4, <1>5, <1>9 DEF Places, n
    <2>2. UNCHANGED <<memBuf, redisBuf, drained, unanswered, doubled, dropped>>
      BY DEF queueVars
    <2> QED BY <1>3, <1>7, <1>9, <2>1, <2>2 DEF Places, MeetIn, n
  <1>11. NoneTwice'
    <2>1. \A u \in Threads : ~Idle(u) => inj[u].tick.id \in 1..n
      BY DEF Places, Pushing, n
    <2> QED BY <1>4, <1>5, <1>7, <1>9, <2>1 DEF NoneTwice, queueVars
  <1>12. ReadsHold'
    BY DEF ReadsHold, queueVars
  <1> QED BY <1>6, <1>8, <1>10, <1>11, <1>12

(* A step of an injection that keeps its tick.                              *)
LEMMA KeepsTick ==
    ASSUME FeedInv, NEW t \in Threads, ~Idle(t), NEW y \in Injecting, y.tick = inj[t].tick,
           inj' = [inj EXCEPT ![t] = y]
    PROVE  /\ inj' \in [Threads -> Injecting \cup {NoInj}]
           /\ inj'[t] = y /\ \A u \in Threads : u # t => inj'[u] = inj[u]
           /\ \A u \in Threads : Idle(u)' <=> Idle(u)
           /\ \A u \in Threads : ~Idle(u) => inj'[u].tick = inj[u].tick
           /\ Pushing' = Pushing
  <1> USE DEF FeedInv
  <1>1. inj' \in [Threads -> Injecting \cup {NoInj}]
    BY DEF FeedTyped
  <1>2. inj'[t] = y /\ \A u \in Threads : u # t => inj'[u] = inj[u]
    BY DEF FeedTyped
  <1>3. \A u \in Threads : Idle(u)' <=> Idle(u)
    BY <1>2 DEF Idle, Injecting, Early, Late
  <1>4. \A u \in Threads : ~Idle(u) => inj'[u].tick = inj[u].tick
    BY <1>2
  <1>5. Pushing' = Pushing
    BY <1>3, <1>4 DEF Pushing
  <1> QED BY <1>1, <1>2, <1>3, <1>4, <1>5

(* If it leaves the buffer alone, every tick is where it was.               *)
LEMMA KeepsPlace ==
    ASSUME FeedInv, NEW t \in Threads, ~Idle(t), NEW y \in Injecting, y.tick = inj[t].tick,
           y.pc \in Early => inj[t].pc \in Early,
           inj' = [inj EXCEPT ![t] = y], UNCHANGED bufferVars
    PROVE  /\ inj' \in [Threads -> Injecting \cup {NoInj}]
           /\ inj'[t] = y /\ \A u \in Threads : u # t => inj'[u] = inj[u]
           /\ \A u \in Threads : Idle(u)' <=> Idle(u)
           /\ Places' /\ NoneTwice' /\ ReadsHold' /\ QueuesTyped'
  <1> USE DEF FeedInv
  <1>1. /\ inj' \in [Threads -> Injecting \cup {NoInj}]
        /\ inj'[t] = y /\ \A u \in Threads : u # t => inj'[u] = inj[u]
        /\ \A u \in Threads : Idle(u)' <=> Idle(u)
        /\ \A u \in Threads : ~Idle(u) => inj'[u].tick = inj[u].tick
        /\ Pushing' = Pushing
    BY KeepsTick
  <1>2. UNCHANGED <<memBuf, redisBuf, work, drained, unanswered, doubled, dropped, accepted>>
    BY DEF bufferVars, queueVars
  <1>3. \A u \in Threads : inj'[u].pc \in Early => inj'[u].tick.id \notin doubled
    BY <1>1 DEF Places
  <1>4. Places'
    BY <1>1, <1>2, <1>3 DEF Places
  <1>5. NoneTwice'
    BY <1>1, <1>2 DEF NoneTwice
  <1>6. ReadsHold' /\ QueuesTyped'
    BY <1>2 DEF ReadsHold, QueuesTyped, FeedTyped
  <1> QED BY <1>1, <1>4, <1>5, <1>6

(* An injection that ends lets go of its tick.                              *)
LEMMA LetsGo ==
    ASSUME FeedInv, NEW t \in Threads, ~Idle(t), inj' = [inj EXCEPT ![t] = NoInj]
    PROVE  /\ inj' \in [Threads -> Injecting \cup {NoInj}]
           /\ inj'[t] = NoInj /\ \A u \in Threads : u # t => inj'[u] = inj[u]
           /\ \A u \in Threads : Idle(u)' <=> (Idle(u) \/ u = t)
           /\ inj[t].tick.id \in Pushing
           /\ Pushing' = Pushing \ {inj[t].tick.id}
  <1> USE DEF FeedInv
  <1> DEFINE x == inj[t].tick.id
  <1>1. inj' \in [Threads -> Injecting \cup {NoInj}]
    BY DEF FeedTyped
  <1>2. inj'[t] = NoInj /\ \A u \in Threads : u # t => inj'[u] = inj[u]
    BY DEF FeedTyped
  <1>3. \A u \in Threads : Idle(u)' <=> (Idle(u) \/ u = t)
    BY <1>2 DEF Idle, NoInj
  <1>4. \A u \in Threads : ~Idle(u) /\ u # t => inj[u].tick.id # x
    BY DEF NoneTwice
  <1>5. x \in Pushing /\ Pushing' = Pushing \ {x}
    BY <1>2, <1>3, <1>4 DEF Pushing
  <1> QED BY <1>1, <1>2, <1>3, <1>5

(* A step that leaves bars and volumes alone and begins no injection.       *)
LEMMA BarsKept ==
    ASSUME FeedInv, QueuesTyped', inj' \in [Threads -> Injecting \cup {NoInj}],
           \A u \in Threads : inj'[u] = inj[u] \/ inj'[u].pc # "write",
           \A u \in Threads : Idle(u) => Idle(u)',
           UNCHANGED <<now, ws, bars, volume, handed>>,
           UNCHANGED <<overwritten, overlapped, accepted>>
    PROVE  FeedTyped' /\ (~overlapped' => Volumes')
  <1> USE DEF FeedInv
  <1>1. FeedTyped'
    BY DEF FeedTyped
  <1>2. ~overlapped' => Volumes'
    BY DEF Volumes, OneInjection, VolumeConserved, OpenVolume
  <1> QED BY <1>1, <1>2

(* The RPUSH is answered and the tick is in the queue, or raises and the    *)
(* tick is on its way to the list, and perhaps in the queue as well.        *)
LEMMA PushInv == ASSUME FeedInv, NEW t \in Threads, Push(t) PROVE FeedInv'
  <1> USE DEF FeedInv
  <1> DEFINE x == inj[t].tick.id
             q == Append(redisBuf, x)
  <1>1. PICK r \in Injecting : r = inj[t] /\ r.pc = "push" /\ ~Idle(t)
    BY InjCases DEF Push, Idle
  <1> DEFINE y == [r EXCEPT !.pc = "memory"]
  <1>2. x \in Nat /\ x \in Pushing /\ x \notin doubled
    BY <1>1 DEF Injecting, Tick, Pushing, Places, Early
  <1>3. /\ \/ redisBuf' = q /\ inj' = [inj EXCEPT ![t] = NoInj] /\ doubled' = doubled
           \/ redisBuf' = q /\ inj' = [inj EXCEPT ![t].pc = "memory"] /\ doubled' = doubled \cup {x}
           \/ inj' = [inj EXCEPT ![t].pc = "memory"] /\ UNCHANGED <<redisBuf, doubled>>
        /\ UNCHANGED <<now, ws, bars, volume, handed, overwritten, overlapped, accepted>>
        /\ UNCHANGED <<memBuf, work, drained, unanswered, dropped>>
    BY DEF Push, pushOthers, injectOthers
  <1>4. /\ y \in Injecting /\ y.tick = inj[t].tick /\ y.pc = "memory" /\ y.pc \notin Early
        /\ inj' = [inj EXCEPT ![t].pc = "memory"] => inj' = [inj EXCEPT ![t] = y]
    <2>1. y \in Injecting /\ y.tick = r.tick /\ y.pc = "memory"
      BY DEF Injecting, Late
    <2>2. inj' = [inj EXCEPT ![t].pc = "memory"] => inj' = [inj EXCEPT ![t] = y]
      BY <1>1 DEF FeedTyped
    <2> HIDE DEF y
    <2> QED BY <1>1, <2>1, <2>2 DEF Early
  <1> HIDE DEF y
  <1>5. x \notin ToSet(redisBuf)
    BY <1>2 DEF Places, MeetIn
  <1>6. /\ memBuf \in Seq(Nat) /\ redisBuf \in Seq(Nat) /\ work \in Working
        /\ IsInjective(memBuf) /\ IsInjective(redisBuf)
    BY DEF FeedTyped, QueuesTyped, NoneTwice
  <1>7. q \in Seq(Nat) /\ IsInjective(q) /\ ToSet(q) = ToSet(redisBuf) \cup {x}
        /\ Len(redisBuf) \in Nat /\ Len(q) = Len(redisBuf) + 1
    <2> HIDE DEF x
    <2> QED BY <1>2, <1>5, <1>6, AppendSet, AppendProperties
  <1>8. CASE redisBuf' = q /\ inj' = [inj EXCEPT ![t] = NoInj] /\ doubled' = doubled
    <2>1. /\ inj' \in [Threads -> Injecting \cup {NoInj}]
          /\ inj'[t] = NoInj /\ \A u \in Threads : u # t => inj'[u] = inj[u]
          /\ \A u \in Threads : Idle(u)' <=> (Idle(u) \/ u = t)
          /\ Pushing' = Pushing \ {x}
      BY <1>1, <1>8, LetsGo
    <2>2. NoInj.pc # "write" /\ NoInj.pc \notin Early
      BY DEF NoInj, Early
    <2> HIDE DEF x, q
    <2>3. QueuesTyped' /\ ReadsHold'
      BY <1>3, <1>6, <1>7, <1>8 DEF QueuesTyped, ReadsHold, Working
    <2>4. FeedTyped' /\ (~overlapped' => Volumes')
      BY <1>3, <2>1, <2>2, <2>3, BarsKept
    <2>5. Places'
      <3>1. \A u \in Threads : inj'[u].pc \in Early => inj'[u].tick.id \notin doubled
        BY <2>1, <2>2 DEF Places
      <3> HIDE DEF Pushing
      <3> QED BY <1>2, <1>3, <1>7, <1>8, <2>1, <3>1 DEF Places, MeetIn
    <2>6. NoneTwice'
      BY <1>3, <1>6, <1>7, <1>8, <2>1 DEF NoneTwice
    <2> QED BY <2>3, <2>4, <2>5, <2>6
  <1>9. CASE redisBuf' = q /\ inj' = [inj EXCEPT ![t].pc = "memory"] /\ doubled' = doubled \cup {x}
    <2>1. /\ inj' \in [Threads -> Injecting \cup {NoInj}]
          /\ inj'[t] = y /\ \A u \in Threads : u # t => inj'[u] = inj[u]
          /\ \A u \in Threads : Idle(u)' <=> Idle(u)
          /\ \A u \in Threads : ~Idle(u) => inj'[u].tick = inj[u].tick
          /\ Pushing' = Pushing
      BY <1>1, <1>4, <1>9, KeepsTick
    <2>2. \A u \in Threads : inj'[u].pc \in Early => inj'[u].tick.id \notin doubled'
      <3>1. \A u \in Threads : inj'[u].pc \in Early => u # t /\ inj'[u] = inj[u] /\ ~Idle(u)
        BY <1>4, <2>1 DEF Idle, Early
      <3>2. \A u \in Threads : ~Idle(u) /\ u # t => inj[u].tick.id # x
        BY <1>1 DEF NoneTwice
      <3> QED BY <1>9, <3>1, <3>2 DEF Places
    <2> HIDE DEF x, q
    <2>3. QueuesTyped' /\ ReadsHold'
      BY <1>3, <1>6, <1>7, <1>9 DEF QueuesTyped, ReadsHold, Working
    <2>4. FeedTyped' /\ (~overlapped' => Volumes')
      BY <1>3, <1>4, <2>1, <2>3, BarsKept
    <2>5. Places'
      <3>1. x \in 1..Len(accepted)
        BY <1>2 DEF Places
      <3> HIDE DEF Pushing
      <3> QED BY <1>2, <1>3, <1>7, <1>9, <2>1, <2>2, <3>1 DEF Places, MeetIn
    <2>6. NoneTwice'
      BY <1>3, <1>6, <1>7, <1>9, <2>1 DEF NoneTwice
    <2> QED BY <2>3, <2>4, <2>5, <2>6
  <1>10. CASE inj' = [inj EXCEPT ![t].pc = "memory"] /\ UNCHANGED <<redisBuf, doubled>>
    <2>1. UNCHANGED bufferVars
      BY <1>3, <1>10 DEF bufferVars, queueVars
    <2>2. /\ inj' \in [Threads -> Injecting \cup {NoInj}]
          /\ inj'[t] = y /\ \A u \in Threads : u # t => inj'[u] = inj[u]
          /\ \A u \in Threads : Idle(u)' <=> Idle(u)
          /\ Places' /\ NoneTwice' /\ ReadsHold' /\ QueuesTyped'
      BY <1>1, <1>4, <1>10, <2>1, KeepsPlace
    <2>3. FeedTyped' /\ (~overlapped' => Volumes')
      BY <1>3, <1>4, <2>2, BarsKept
    <2> QED BY <2>2, <2>3
  <1> QED BY <1>3, <1>8, <1>9, <1>10

(* The list is looked up.                                                   *)
LEMMA PushLoadInv == ASSUME FeedInv, NEW t \in Threads, PushLoad(t) PROVE FeedInv'
  <1> USE DEF FeedInv
  <1>1. PICK r \in Injecting : r = inj[t] /\ ~Idle(t)
    BY InjCases DEF PushLoad, Idle
  <1> DEFINE y == [r EXCEPT !.pc = "append"]
  <1>2. /\ inj' = [inj EXCEPT ![t].pc = "append"]
        /\ UNCHANGED <<now, ws, bars, volume, handed, overwritten, overlapped, accepted>>
        /\ UNCHANGED bufferVars
    BY DEF PushLoad, pushOthers, injectOthers, bufferVars, queueVars
  <1>3. y \in Injecting /\ y.tick = inj[t].tick /\ y.pc = "append" /\ inj' = [inj EXCEPT ![t] = y]
    <2>1. y \in Injecting /\ y.tick = r.tick /\ y.pc = "append"
      BY DEF Injecting, Late
    <2>2. inj' = [inj EXCEPT ![t] = y]
      BY <1>1, <1>2 DEF FeedTyped
    <2> HIDE DEF y
    <2> QED BY <1>1, <2>1, <2>2
  <1> HIDE DEF y
  <1>4. /\ inj' \in [Threads -> Injecting \cup {NoInj}]
        /\ inj'[t] = y /\ \A u \in Threads : u # t => inj'[u] = inj[u]
        /\ \A u \in Threads : Idle(u)' <=> Idle(u)
        /\ Places' /\ NoneTwice' /\ ReadsHold' /\ QueuesTyped'
    <2>1. y.pc \notin Early
      BY <1>3 DEF Early
    <2> QED BY <1>1, <1>2, <1>3, <2>1, KeepsPlace
  <1>5. FeedTyped' /\ (~overlapped' => Volumes')
    BY <1>2, <1>3, <1>4, BarsKept
  <1> QED BY <1>4, <1>5

(* The tick is in the list, or with one that drain() has replaced.          *)
LEMMA PushAppendInv == ASSUME FeedInv, NEW t \in Threads, PushAppend(t) PROVE FeedInv'
  <1> USE DEF FeedInv
  <1> DEFINE x == inj[t].tick.id
             m == Append(memBuf, x)
  <1>1. inj[t] \in Injecting /\ ~Idle(t)
    BY InjCases DEF PushAppend, Idle
  <1>2. x \in Nat /\ x \in Pushing /\ x \notin ToSet(memBuf)
    BY <1>1 DEF Injecting, Tick, Pushing, Places
  <1>3. /\ \/ memBuf' = m /\ dropped' = dropped
           \/ memBuf' = memBuf /\ dropped' = dropped \cup {x}
        /\ inj' = [inj EXCEPT ![t] = NoInj]
        /\ UNCHANGED <<now, ws, bars, volume, handed, overwritten, overlapped, accepted>>
        /\ UNCHANGED <<redisBuf, work, drained, unanswered, doubled>>
    BY DEF PushAppend, pushOthers, injectOthers
  <1>4. /\ inj' \in [Threads -> Injecting \cup {NoInj}]
        /\ inj'[t] = NoInj /\ \A u \in Threads : u # t => inj'[u] = inj[u]
        /\ \A u \in Threads : Idle(u)' <=> (Idle(u) \/ u = t)
        /\ Pushing' = Pushing \ {x}
    BY <1>1, <1>3, LetsGo
  <1>5. NoInj.pc # "write" /\ NoInj.pc \notin Early
    BY DEF NoInj, Early
  <1>6. /\ memBuf \in Seq(Nat) /\ redisBuf \in Seq(Nat) /\ work \in Working
        /\ IsInjective(memBuf) /\ IsInjective(redisBuf)
    BY DEF FeedTyped, QueuesTyped, NoneTwice
  <1> HIDE DEF x
  <1>7. /\ m \in Seq(Nat) /\ IsInjective(m) /\ ToSet(m) = ToSet(memBuf) \cup {x}
        /\ Len(memBuf) \in Nat /\ Len(m) = Len(memBuf) + 1
    BY <1>2, <1>6, AppendSet, AppendProperties
  <1> HIDE DEF m
  <1>8. /\ memBuf' \in Seq(Nat) /\ IsInjective(memBuf') /\ Len(memBuf') \in Nat
        /\ Len(memBuf) <= Len(memBuf')
        /\ \/ ToSet(memBuf') = ToSet(memBuf) \cup {x} /\ dropped' = dropped
           \/ ToSet(memBuf') = ToSet(memBuf) /\ dropped' = dropped \cup {x}
    BY <1>3, <1>6, <1>7
  <1>9. QueuesTyped' /\ ReadsHold'
    <2>1. QueuesTyped'
      BY <1>3, <1>6, <1>8 DEF QueuesTyped
    <2>2. ToSet(memBuf) \subseteq ToSet(memBuf') /\ work.take \in Nat
      BY <1>6, <1>8 DEF Working
    <2> QED BY <1>3, <1>7, <1>8, <2>1, <2>2 DEF ReadsHold
  <1>10. FeedTyped' /\ (~overlapped' => Volumes')
    BY <1>3, <1>4, <1>5, <1>9, BarsKept
  <1>11. Places'
    <2>1. \A u \in Threads : inj'[u].pc \in Early => inj'[u].tick.id \notin doubled
      BY <1>4, <1>5 DEF Places
    <2> HIDE DEF Pushing
    <2> QED BY <1>2, <1>3, <1>4, <1>8, <2>1 DEF Places, MeetIn
  <1>12. NoneTwice'
    BY <1>3, <1>4, <1>6, <1>8 DEF NoneTwice
  <1> QED BY <1>9, <1>10, <1>11, <1>12

(* min of two numbers                                                       *)
LEMMA MinOfTwo ==
    ASSUME NEW a \in Int, NEW b \in Int
    PROVE  /\ Min({a, b}) \in {a, b} /\ Min({a, b}) <= a /\ Min({a, b}) <= b
  <1> DEFINE m == IF a <= b THEN a ELSE b
  <1>1. m \in {a, b} /\ \A y \in {a, b} : m <= y
    OBVIOUS
  <1>2. \E w \in {a, b} : \A y \in {a, b} : w <= y
    BY <1>1
  <1>3. Min({a, b}) \in {a, b} /\ \A y \in {a, b} : Min({a, b}) <= y
    BY <1>2 DEF Min
  <1> QED BY <1>3

(* The steps of drain() that only read.                                     *)
LEMMA DrainReadsInv ==
    ASSUME FeedInv, work' \in Working, ReadsHold', UNCHANGED <<drainOthers, inj>>,
           UNCHANGED <<memBuf, redisBuf, drained, unanswered, doubled, dropped>>
    PROVE  FeedInv'
  <1> USE DEF FeedInv
  <1>1. QueuesTyped' /\ inj \in [Threads -> Injecting \cup {NoInj}]
    BY DEF QueuesTyped, FeedTyped
  <1>2. \A u \in Threads : Idle(u)' <=> Idle(u)
    BY DEF Idle
  <1>3. FeedTyped' /\ (~overlapped' => Volumes')
    BY <1>1, <1>2, BarsKept DEF drainOthers
  <1>4. Pushing' = Pushing
    BY DEF Pushing, Idle
  <1>5. Places' /\ NoneTwice'
    BY <1>2, <1>4 DEF Places, NoneTwice, drainOthers
  <1> QED BY <1>3, <1>5

(* memory_take                                                              *)
LEMMA DrainTakeInv == ASSUME FeedInv, NEW n \in Nat, DrainTake(n) PROVE FeedInv'
  <1> DEFINE m    == Len(memBuf)
             take == Min({n, m})
             w    == [NoWork EXCEPT !.pc = "slice", !.take = take, !.left = n - take]
  <1>1. m \in Nat
    BY DEF FeedInv, FeedTyped, QueuesTyped
  <1>2. take \in Nat /\ take <= m /\ n - take \in Nat
    <2> HIDE DEF m
    <2>1. Min({n, m}) \in {n, m} /\ Min({n, m}) <= n /\ Min({n, m}) <= m
      BY <1>1, MinOfTwo
    <2>2. take \in {n, m} /\ take <= n /\ take <= m
      BY <2>1
    <2> HIDE DEF take
    <2> QED BY <1>1, <2>2
  <1>3. work' = w /\ UNCHANGED <<drainOthers, inj>>
        /\ UNCHANGED <<memBuf, redisBuf, drained, unanswered, doubled, dropped>>
    BY DEF DrainTake
  <1> HIDE DEF take
  <1>4. w \in Working /\ w.pc = "slice" /\ w.take = take
    <2>1. PICK v \in Working : v = NoWork
      BY NoWorkTyped
    <2>2. [v EXCEPT !.pc = "slice", !.take = take, !.left = n - take] = w
      BY <2>1
    <2> HIDE DEF w
    <2> QED BY <1>2, <2>2 DEF Working
  <1> HIDE DEF w
  <1>5. ReadsHold'
    BY <1>2, <1>3, <1>4 DEF ReadsHold
  <1> QED BY <1>3, <1>4, <1>5, DrainReadsInv

(* raw_memory and the slice                                                 *)
LEMMA DrainSliceInv == ASSUME FeedInv, DrainSlice PROVE FeedInv'
  <1> DEFINE k    == work.take
             raw  == ToSet(SubSeq(memBuf, 1, k))
             rest == SubSeq(memBuf, k + 1, Len(memBuf))
  <1>1. PICK v \in Working : v = work
    BY DEF FeedInv, FeedTyped, QueuesTyped
  <1> DEFINE w == [v EXCEPT !.pc = "store", !.raw = raw, !.rest = rest]
  <1>2. work' = w /\ UNCHANGED <<drainOthers, inj>>
        /\ UNCHANGED <<memBuf, redisBuf, drained, unanswered, doubled, dropped>>
    BY <1>1 DEF DrainSlice
  <1>3. /\ memBuf \in Seq(Nat) /\ IsInjective(memBuf) /\ Len(memBuf) \in Nat
        /\ k \in 0..Len(memBuf)
    BY DEF FeedInv, FeedTyped, QueuesTyped, NoneTwice, ReadsHold, DrainSlice, Working
  <1>4. /\ rest \in Seq(Nat) /\ IsInjective(rest)
        /\ raw \cup ToSet(rest) = ToSet(memBuf) /\ raw \cap ToSet(rest) = {}
    <2> HIDE DEF k
    <2> QED BY <1>3, SplitSet
  <1>5. raw \in SUBSET Nat
    <2>1. \A x \in ToSet(memBuf) : x \in Nat
      BY <1>3 DEF ToSet
    <2> HIDE DEF raw, rest
    <2> QED BY <1>4, <2>1
  <1> HIDE DEF raw, rest
  <1>6. w \in Working /\ w.pc = "store" /\ w.raw = raw /\ w.rest = rest
    BY <1>4, <1>5 DEF Working
  <1> HIDE DEF w
  <1>7. ReadsHold'
    BY <1>2, <1>4, <1>6 DEF ReadsHold
  <1> QED BY <1>2, <1>6, <1>7, DrainReadsInv

(* LRANGE                                                                   *)
LEMMA DrainRangeInv == ASSUME FeedInv, DrainRange PROVE FeedInv'
  <1> DEFINE r    == Len(redisBuf)
             left == work.left
             take == IF feedRedis THEN Min({left, r}) ELSE 0
             w    == IF take = 0 THEN NoWork ELSE [NoWork EXCEPT !.pc = "trim", !.take = take]
  <1>1. r \in Nat /\ left \in Nat
    BY DEF FeedInv, FeedTyped, QueuesTyped, Working
  <1>2. take \in Nat /\ take <= r
    <2> HIDE DEF r, left
    <2>1. Min({left, r}) \in {left, r} /\ Min({left, r}) <= r
      BY <1>1, MinOfTwo
    <2>2. take \in {left, r, 0} /\ (take # 0 => take <= r)
      BY <2>1
    <2> HIDE DEF take
    <2> QED BY <1>1, <2>2
  <1>3. work' = w /\ UNCHANGED <<drainOthers, inj>>
        /\ UNCHANGED <<memBuf, redisBuf, drained, unanswered, doubled, dropped>>
    BY DEF DrainRange
  <1> HIDE DEF take
  <1>4. w \in Working /\ w.pc \in {"idle", "trim"} /\ (w.pc = "trim" => w.take = take)
    <2>1. PICK v \in Working : v = NoWork /\ v.pc = "idle"
      BY NoWorkTyped
    <2>2. w = v \/ w = [v EXCEPT !.pc = "trim", !.take = take]
      BY <2>1
    <2> HIDE DEF w
    <2> QED BY <1>2, <2>1, <2>2 DEF Working
  <1> HIDE DEF w
  <1>5. ReadsHold'
    BY <1>2, <1>3, <1>4 DEF ReadsHold
  <1> QED BY <1>3, <1>4, <1>5, DrainReadsInv

(* The slice replaces the list.                                             *)
LEMMA DrainStoreInv == ASSUME FeedInv, DrainStore PROVE FeedInv'
  <1> USE DEF FeedInv
  <1> DEFINE raw  == work.raw
             rest == work.rest
             gone == ToSet(memBuf) \ (raw \cup ToSet(rest))
             w    == [NoWork EXCEPT !.pc = "range", !.left = work.left]
  <1>1. /\ memBuf' = rest /\ drained' = drained \cup raw /\ dropped' = dropped \cup gone
        /\ inj' = [t \in Threads |->
                     IF inj[t].pc = "append" THEN [inj[t] EXCEPT !.pc = "stale"] ELSE inj[t]]
        /\ work' = w /\ UNCHANGED <<redisBuf, unanswered, doubled>>
        /\ UNCHANGED <<now, ws, bars, volume, handed, overwritten, overlapped, accepted>>
    BY DEF DrainStore, drainOthers
  <1>2. /\ rest \in Seq(Nat) /\ IsInjective(rest) /\ raw \cap ToSet(rest) = {}
        /\ raw \cup ToSet(rest) \subseteq ToSet(memBuf)
    BY DEF FeedTyped, QueuesTyped, Working, ReadsHold, DrainStore
  <1>3. w \in Working /\ w.pc = "range"
    <2>1. PICK v \in Working : v = NoWork
      BY NoWorkTyped
    <2>2. work.left \in Nat
      BY DEF FeedTyped, QueuesTyped, Working
    <2>3. w = [v EXCEPT !.pc = "range", !.left = work.left]
      BY <2>1
    <2> HIDE DEF w
    <2> QED BY <2>2, <2>3 DEF Working
  <1> HIDE DEF w, raw, rest
  <1>4. \A t \in Threads :
            /\ inj'[t] = inj[t] \/ inj'[t].pc = "stale"
            /\ inj'[t] \in Injecting \cup {NoInj}
            /\ Idle(t)' <=> Idle(t)
            /\ ~Idle(t) => inj'[t].tick = inj[t].tick
    <2> TAKE t \in Threads
    <2>1. CASE inj[t].pc = "append"
      <3>1. PICK r \in Injecting : r = inj[t] /\ ~Idle(t)
        BY <2>1, InjCases DEF Idle
      <3>2. inj'[t] = [r EXCEPT !.pc = "stale"]
        BY <1>1, <2>1, <3>1
      <3>3. inj'[t] \in Injecting /\ inj'[t].pc = "stale" /\ inj'[t].tick = r.tick
        BY <3>2 DEF Injecting, Late
      <3> QED BY <3>1, <3>3 DEF Idle
    <2>2. CASE inj[t].pc # "append"
      <3>1. inj'[t] = inj[t]
        BY <1>1, <2>2
      <3> QED BY <3>1 DEF FeedTyped, Idle
    <2> QED BY <2>1, <2>2
  <1>5. inj' \in [Threads -> Injecting \cup {NoInj}]
    <2>1. inj' = [t \in Threads |-> inj'[t]]
      BY <1>1
    <2> QED BY <1>4, <2>1
  <1>6. QueuesTyped' /\ ReadsHold'
    BY <1>1, <1>2, <1>3 DEF QueuesTyped, ReadsHold, FeedTyped
  <1>7. FeedTyped' /\ (~overlapped' => Volumes')
    BY <1>1, <1>4, <1>5, <1>6, BarsKept
  <1>8. Pushing' = Pushing
    BY <1>4 DEF Pushing
  <1>9. Places'
    <2>1. \A t \in Threads : inj'[t].pc \in Early => inj'[t].tick.id \notin doubled
      BY <1>4 DEF Places, Early
    <2> HIDE DEF Pushing
    <2> QED BY <1>1, <1>2, <1>8, <2>1 DEF Places, MeetIn
  <1>10. NoneTwice'
    <2>1. \A t \in Threads : ~Idle(t)' => ~Idle(t) /\ inj'[t].tick.id = inj[t].tick.id
      BY <1>4
    <2>2. \A t, u \in Threads : ~Idle(t)' /\ ~Idle(u)' /\ t # u =>
              inj'[t].tick.id # inj'[u].tick.id
      BY <2>1 DEF NoneTwice
    <2>3. IsInjective(memBuf') /\ IsInjective(redisBuf')
      BY <1>1, <1>2 DEF NoneTwice
    <2> QED BY <2>2, <2>3 DEF NoneTwice
  <1> QED BY <1>6, <1>7, <1>9, <1>10

(* LTRIM takes a front part of the queue, or fails.                         *)
LEMMA DrainTrimInv == ASSUME FeedInv, DrainTrim PROVE FeedInv'
  <1> USE DEF FeedInv
  <1> DEFINE k    == work.take
             took == ToSet(SubSeq(redisBuf, 1, k))
             rest == SubSeq(redisBuf, k + 1, Len(redisBuf))
  <1>1. /\ \/ redisBuf' = rest /\ drained' = drained \cup took /\ unanswered' = unanswered
           \/ redisBuf' = rest /\ unanswered' = unanswered \cup took /\ drained' = drained
           \/ UNCHANGED <<redisBuf, drained, unanswered>>
        /\ work' = NoWork /\ UNCHANGED <<inj, memBuf, doubled, dropped>>
        /\ UNCHANGED <<now, ws, bars, volume, handed, overwritten, overlapped, accepted>>
    BY DEF DrainTrim, drainOthers
  <1>2. /\ redisBuf \in Seq(Nat) /\ IsInjective(redisBuf) /\ k \in 0..Len(redisBuf)
        /\ memBuf \in Seq(Nat)
    <2>1. redisBuf \in Seq(Nat) /\ IsInjective(redisBuf) /\ memBuf \in Seq(Nat)
      BY DEF FeedTyped, QueuesTyped, NoneTwice
    <2>2. k \in Nat /\ k <= Len(redisBuf) /\ Len(redisBuf) \in Nat
      BY <2>1 DEF FeedTyped, QueuesTyped, Working, ReadsHold, DrainTrim
    <2> HIDE DEF k
    <2> QED BY <2>1, <2>2
  <1>3. /\ rest \in Seq(Nat) /\ IsInjective(rest)
        /\ took \cup ToSet(rest) = ToSet(redisBuf) /\ took \cap ToSet(rest) = {}
    <2> HIDE DEF k
    <2> QED BY <1>2, SplitSet
  <1> HIDE DEF took, rest
  <1>4. QueuesTyped' /\ ReadsHold'
    BY <1>1, <1>2, <1>3, NoWorkTyped DEF QueuesTyped, ReadsHold
  <1>5. \A u \in Threads : Idle(u)' <=> Idle(u)
    BY <1>1 DEF Idle
  <1>6. FeedTyped' /\ (~overlapped' => Volumes')
    <2>1. inj' \in [Threads -> Injecting \cup {NoInj}]
      BY <1>1 DEF FeedTyped
    <2> QED BY <1>1, <1>4, <1>5, <2>1, BarsKept
  <1>7. Pushing' = Pushing
    BY <1>1 DEF Pushing, Idle
  <1>8. Places'
    <2> HIDE DEF Pushing
    <2>1. \A t \in Threads : inj'[t].pc \in Early => inj'[t].tick.id \notin doubled
      BY <1>1 DEF Places
    <2> QED BY <1>1, <1>3, <1>7, <2>1 DEF Places, MeetIn
  <1>9. NoneTwice'
    BY <1>1, <1>2, <1>3, <1>5 DEF NoneTwice
  <1> QED BY <1>4, <1>6, <1>8, <1>9

(* The steps of drain().                                                    *)
LEMMA DrainInv == ASSUME FeedInv, NEW n \in Nat, Drain(n) PROVE FeedInv'
  BY DrainTakeInv, DrainSliceInv, DrainStoreInv, DrainRangeInv, DrainTrimInv DEF Drain

(* The volume of an open bar is a number, before and after a step.          *)
LEMMA OpenVolumeTyped ==
    /\ FeedTyped => \A i \in Intervals : OpenVolume(i) \in Int
    /\ FeedTyped' => \A i \in Intervals : OpenVolume(i)' \in Int
  <1>1. ASSUME FeedTyped, NEW i \in Intervals PROVE OpenVolume(i) \in Int
    <2>1. bars[i].objs \in Seq(Bar) /\ bars[i].cur \in Nat /\ bars[i].cur <= Len(bars[i].objs)
      BY <1>1 DEF FeedTyped
    <2>2. bars[i].cur # 0 => bars[i].objs[bars[i].cur] \in Bar
      BY <2>1, ElementOfSeq
    <2> QED BY <2>2 DEF OpenVolume, Bar
  <1>2. ASSUME FeedTyped', NEW i \in Intervals PROVE OpenVolume(i)' \in Int
    <2>1. bars'[i].objs \in Seq(Bar) /\ bars'[i].cur \in Nat /\ bars'[i].cur <= Len(bars'[i].objs)
      BY <1>2 DEF FeedTyped
    <2>2. bars'[i].cur # 0 => bars'[i].objs[bars'[i].cur] \in Bar
      BY <2>1, ElementOfSeq
    <2> QED BY <2>2 DEF OpenVolume, Bar
  <1> QED BY <1>1, <1>2

(* flush_open_bars hands out what is open, or hides it.                     *)
LEMMA FlushInv == FeedInv /\ FlushOpenBars => FeedInv'
  <1> SUFFICES ASSUME FeedInv, FlushOpenBars PROVE FeedInv'
    OBVIOUS
  <1> USE IntervalsApart DEF FeedInv
  <1> DEFINE hidden == bars[FiveMinute].cur # 0
  <1>1. /\ handed' = [i \in Intervals |->
              handed[i] + IF i = OneMinute /\ hidden THEN 0 ELSE OpenVolume(i)]
        /\ overwritten' = overwritten + IF hidden THEN OpenVolume(OneMinute) ELSE 0
        /\ bars' = [i \in Intervals |-> [bars[i] EXCEPT !.cur = 0]]
        /\ ~overlapped' => ~overlapped /\ \A t \in Threads : Idle(t)
        /\ UNCHANGED <<now, ws, inj, volume, accepted>> /\ UNCHANGED queueVars
    BY DEF FlushOpenBars, bufferVars
  <1>2. \A i \in Intervals : OpenVolume(i) \in Int
    BY OpenVolumeTyped
  <1>3. \A i \in Intervals : /\ bars'[i].cur = 0 /\ bars'[i].objs = bars[i].objs
                             /\ bars'[i] \in [objs : Seq(Bar), cur : Nat]
                             /\ Len(bars[i].objs) \in Nat
    <2> TAKE i \in Intervals
    <2>1. bars[i] \in [objs : Seq(Bar), cur : Nat]
      BY DEF FeedTyped
    <2>2. bars'[i] = [bars[i] EXCEPT !.cur = 0]
      BY <1>1
    <2>3. bars'[i].cur = 0 /\ bars'[i].objs = bars[i].objs
      BY <2>1, <2>2
    <2>4. bars'[i] \in [objs : Seq(Bar), cur : Nat]
      BY <2>1, <2>2
    <2>5. Len(bars[i].objs) \in Nat
      BY <2>1, LenProperties
    <2> QED BY <2>3, <2>4, <2>5
  <1>4. FeedTyped'
    <2>1. bars' \in [Intervals -> [objs : Seq(Bar), cur : Nat]]
      BY <1>1, <1>3
    <2>2. handed' \in [Intervals -> Int]
      <3>1. handed \in [Intervals -> Int]
        BY DEF FeedTyped
      <3>2. \A i \in Intervals :
               handed[i] + (IF i = OneMinute /\ hidden THEN 0 ELSE OpenVolume(i)) \in Int
        BY <3>1, <1>2
      <3> HIDE DEF FeedInv, hidden
      <3> QED BY <3>2, <1>1
    <2>3. overwritten' \in Int
      <3>1. overwritten \in Int /\ OneMinute \in Intervals
        BY DEF FeedTyped
      <3> HIDE DEF FeedInv, hidden
      <3> QED BY <3>1, <1>1, <1>2
    <2>4. \A t \in Threads : inj[t].pc = "write" => inj[t].at \in Intervals
      BY DEF FeedTyped, Injecting, NoInj
    <2>5. \A t \in Threads : inj[t].pc = "write" => inj[t].seen <= Len(bars'[inj[t].at].objs)
      BY <1>3, <2>4 DEF FeedTyped
    <2>6. \A i \in Intervals : bars'[i].cur <= Len(bars'[i].objs)
      BY <1>3
    <2> HIDE DEF hidden
    <2>7. UNCHANGED <<now, ws, inj, volume, accepted>> /\ QueuesTyped'
      BY <1>1 DEF FeedTyped, QueuesTyped, queueVars
    <2> QED BY <2>1, <2>2, <2>3, <2>5, <2>6, <2>7 DEF FeedTyped
  <1>5. Places' /\ NoneTwice' /\ ReadsHold'
    BY <1>1 DEF Places, NoneTwice, ReadsHold, Pushing, Idle, queueVars
  <1>6. ~overlapped' => Volumes'
    <2> SUFFICES ASSUME ~overlapped' PROVE Volumes'
      OBVIOUS
    <2>1. OneInjection'
      BY <1>1 DEF OneInjection, Idle
    <2>2. OpenVolume(OneMinute)' = 0 /\ OpenVolume(FiveMinute)' = 0
      BY <1>3 DEF OpenVolume
    <2>3. VolumeConserved /\ volume[OneMinute] \in Int /\ volume[FiveMinute] \in Int
          /\ handed[OneMinute] \in Int /\ handed[FiveMinute] \in Int /\ overwritten \in Int
      BY <1>1 DEF Volumes, FeedTyped
    <2>4. /\ handed'[FiveMinute] = handed[FiveMinute] + OpenVolume(FiveMinute)
          /\ handed'[OneMinute] = handed[OneMinute] + IF hidden THEN 0 ELSE OpenVolume(OneMinute)
      BY <1>1
    <2>5. VolumeConserved'
      BY <1>1, <1>2, <2>2, <2>3, <2>4 DEF VolumeConserved
    <2> QED BY <2>1, <2>5 DEF Volumes
  <1> QED BY <1>4, <1>5, <1>6

(* An aggregator looks its bar up.                                          *)
LEMMA IngestReadInv == ASSUME FeedInv, NEW t \in Threads, IngestRead(t) PROVE FeedInv'
  <1> USE DEF FeedInv
  <1> DEFINE i == inj[t].at
             c == bars[i].cur
  <1>1. ~Idle(t) /\ inj[t] \in Injecting /\ inj[t].pc = "read"
    BY InjCases DEF IngestRead, Idle
  <1>2. i \in Intervals /\ inj[t].tick \in Tick
    BY <1>1 DEF Injecting
  <1>3. bars[i] \in [objs : Seq(Bar), cur : Nat] /\ c <= Len(bars[i].objs)
    BY <1>2 DEF FeedTyped
  <1>4. c \in Nat
    BY <1>3
  <1>5. inj' = [inj EXCEPT ![t].pc = "write", ![t].seen = c]
    BY DEF IngestRead
  <1>6. UNCHANGED bufferVars /\ UNCHANGED <<now, ws, bars, volume, handed>>
        /\ UNCHANGED <<overwritten, overlapped>>
    BY DEF IngestRead, injectOthers
  <1> HIDE DEF c
  <1>7. PICK r \in Injecting : r = inj[t]
    BY <1>1
  <1> DEFINE y == [r EXCEPT !.pc = "write", !.seen = c]
  <1>8. y \in Injecting /\ y.tick = r.tick /\ y.at = r.at /\ y.seen = c
    BY <1>4 DEF Injecting, Early
  <1> HIDE DEF y
  <1>9. inj' = [inj EXCEPT ![t] = y] /\ y.tick = inj[t].tick /\ y.at = i
    BY <1>5, <1>7, <1>8 DEF FeedTyped, y
  <1> HIDE DEF i
  <1>10. /\ inj' \in [Threads -> Injecting \cup {NoInj}]
         /\ inj'[t] = y /\ \A u \in Threads : u # t => inj'[u] = inj[u]
         /\ \A u \in Threads : Idle(u)' <=> Idle(u)
         /\ Places' /\ NoneTwice' /\ ReadsHold' /\ QueuesTyped'
    BY <1>1, <1>6, <1>8, <1>9, KeepsPlace DEF Early
  <1>11. FeedTyped'
    <2>1. \A u \in Threads : inj'[u].pc = "write" => inj'[u].seen <= Len(bars[inj'[u].at].objs)
      BY <1>3, <1>8, <1>9, <1>10 DEF FeedTyped
    <2> QED BY <1>6, <1>10, <2>1 DEF FeedTyped, bufferVars
  <1>12. ~overlapped' => Volumes'
    <2>1. \A u \in Threads : u = t =>
              (inj'[u].pc = "write" => inj'[u].seen = bars[inj'[u].at].cur)
      BY <1>8, <1>9, <1>10 DEF c
    <2> QED BY <1>6, <1>10, <2>1 DEF Volumes, OneInjection, VolumeConserved, OpenVolume
  <1> QED BY <1>10, <1>11, <1>12

(* What a tick does to the bars of one aggregator.                          *)
LEMMA AddToBar ==
    ASSUME NEW b \in [objs : Seq(Bar), cur : Nat], NEW s \in 1..Len(b.objs), NEW tick \in Tick
    PROVE  LET c == AddTick(b, tick, s)
           IN  /\ c \in [objs : Seq(Bar), cur : Nat] /\ c.cur = b.cur
               /\ Len(c.objs) = Len(b.objs)
               /\ c.objs[s].volume = b.objs[s].volume + tick.vol
  <1> DEFINE o == b.objs
             p == [o EXCEPT ![s] = [o[s] EXCEPT !.volume = @ + tick.vol]]
             c == AddTick(b, tick, s)
             v == tick.vol
             e == [o[s] EXCEPT !.volume = @ + v]
  <1>1. o \in Seq(Bar) /\ o[s] \in Bar
    BY ElementOfSeq
  <1>2. c = [b EXCEPT !.objs = p]
    BY DEF AddTick
  <1>3. e \in Bar /\ e.volume = o[s].volume + v
    <2>1. PICK w \in Bar : w = o[s]
      BY <1>1
    <2>0. v \in Int
      BY DEF Tick
    <2> HIDE DEF v
    <2>2. [w EXCEPT !.volume = @ + v] \in Bar /\ w.volume + v \in Int
          /\ [w EXCEPT !.volume = @ + v].volume = w.volume + v
      BY <2>0 DEF Bar
    <2>3. e = [w EXCEPT !.volume = @ + v]
      BY <2>1 DEF v
    <2> HIDE DEF e, v
    <2> QED BY <2>1, <2>2, <2>3
  <1> HIDE DEF e
  <1>4. p = [o EXCEPT ![s] = e]
    BY DEF e
  <1> HIDE DEF p
  <1>5. p \in Seq(Bar) /\ Len(p) = Len(o) /\ p[s] = e
    BY <1>1, <1>3, <1>4, ExceptSeq
  <1>6. c.objs = p /\ c.cur = b.cur /\ c \in [objs : Seq(Bar), cur : Nat]
    BY <1>2, <1>5
  <1> QED BY <1>3, <1>5, <1>6

(* The first tick of a bar brings its volume.                               *)
LEMMA OpenABar ==
    ASSUME NEW b \in [objs : Seq(Bar), cur : Nat], NEW tick \in Tick, NEW i \in Intervals
    PROVE  LET c == OpenBar(b, tick, i)
           IN  /\ c \in [objs : Seq(Bar), cur : Nat] /\ c.cur = Len(b.objs) + 1
               /\ Len(c.objs) = Len(b.objs) + 1
               /\ c.objs[c.cur].volume = tick.vol
  <1> DEFINE e == [start |-> BarStart(tick.ts, i), volume |-> tick.vol]
             n == Len(b.objs)
             p == Append(b.objs, e)
  <1>1. i \in Nat /\ i > 0 /\ tick.ts \in Int /\ tick.vol \in Int
    BY IngestionAssumption DEF Intervals, Tick
  <1>2. BarStart(tick.ts, i) \in Int
    <2> DEFINE q == tick.ts \div i
    <2>1. q \in Int
      BY <1>1
    <2> HIDE DEF q
    <2>2. q * i \in Int
      BY <1>1, <2>1
    <2> QED BY <2>2 DEF BarStart, q
  <1>3. e \in Bar /\ e.volume = tick.vol
    BY <1>1, <1>2 DEF Bar
  <1> HIDE DEF e
  <1>4. n \in Nat /\ p \in Seq(Bar) /\ Len(p) = n + 1 /\ p[n + 1] = e
    BY <1>3, AppendProperties, LenProperties
  <1>5. OpenBar(b, tick, i) = [objs |-> p, cur |-> n + 1]
    BY DEF OpenBar, e
  <1> HIDE DEF p, n
  <1> QED BY <1>3, <1>4, <1>5 DEF n

(* An aggregator adds the tick to the bar it saw, opens one, or completes   *)
(* the one it saw and opens another; without an overlap what it saw is the  *)
(* open bar.                                                                *)
LEMMA IngestWriteInv == ASSUME FeedInv, NEW t \in Threads, IngestWrite(t) PROVE FeedInv'
  <1> USE DEF FeedInv
  <1> DEFINE i    == inj[t].at
             tick == inj[t].tick
             s    == inj[t].seen
             b    == bars[i]
             bar  == b.objs[s]
             ends == s # 0 /\ BarStart(tick.ts, i) # bar.start
             adds == s # 0 /\ ~ends
             c    == IF adds THEN AddTick(b, tick, s) ELSE OpenBar(b, tick, i)
             pc   == IF i = OneMinute THEN "read" ELSE "push"
  <1>1. ~Idle(t) /\ inj[t] \in Injecting /\ inj[t].pc = "write"
    BY InjCases DEF IngestWrite, Idle
  <1>2. i \in Intervals /\ tick \in Tick /\ s \in Nat
    BY <1>1 DEF Injecting
  <1>3. b \in [objs : Seq(Bar), cur : Nat] /\ b.cur <= Len(b.objs) /\ s <= Len(b.objs)
    BY <1>1, <1>2 DEF FeedTyped
  <1>4. Len(b.objs) \in Nat /\ b.cur \in Nat /\ tick.vol \in Int
    BY <1>2, <1>3, LenProperties DEF Tick
  <1>5. /\ inj' = [inj EXCEPT ![t].pc = pc, ![t].at = FiveMinute]
        /\ bars' = [bars EXCEPT ![i] = c]
        /\ handed' = IF ends THEN [handed EXCEPT ![i] = @ + bar.volume] ELSE handed
        /\ volume' = [volume EXCEPT ![i] = @ + tick.vol]
    <2>1. inj' = [inj EXCEPT ![t].pc = pc, ![t].at = FiveMinute]
      BY Zenon DEF IngestWrite
    <2>2. bars' = [bars EXCEPT ![i] = c]
      BY Zenon DEF IngestWrite
    <2>3. handed' = IF ends THEN [handed EXCEPT ![i] = @ + bar.volume] ELSE handed
      BY Zenon DEF IngestWrite
    <2>4. volume' = [volume EXCEPT ![i] = @ + tick.vol]
      BY Zenon DEF IngestWrite
    <2> QED BY <2>1, <2>2, <2>3, <2>4
  <1>6. UNCHANGED bufferVars /\ UNCHANGED <<now, ws, overwritten, overlapped>>
    BY DEF IngestWrite, injectOthers
  <1>7. s # 0 => bar \in Bar /\ bar.volume \in Int
    <2>1. s # 0 => bar \in Bar
      BY <1>2, <1>3, <1>4, ElementOfSeq
    <2> QED BY <2>1 DEF Bar
  <1>8. /\ c \in [objs : Seq(Bar), cur : Nat] /\ Len(c.objs) \in Nat
        /\ c.cur <= Len(c.objs) /\ Len(b.objs) <= Len(c.objs)
        /\ adds => c.cur = b.cur /\ c.objs[s].volume = bar.volume + tick.vol
        /\ ~adds => c.cur # 0 /\ c.objs[c.cur].volume = tick.vol
    <2>1. CASE adds
      <3>1. s \in 1..Len(b.objs) /\ tick.vol \in Int
        BY <1>2, <1>3, <1>4, <2>1
      <3> DEFINE d == AddTick(b, tick, s)
      <3>2. /\ d \in [objs : Seq(Bar), cur : Nat] /\ d.cur = b.cur
            /\ Len(d.objs) = Len(b.objs)
            /\ d.objs[s].volume = bar.volume + tick.vol
        <4> HIDE DEF s, b, tick
        <4> QED BY <1>2, <1>3, <3>1, AddToBar
      <3>3. c = d
        BY <2>1
      <3> HIDE DEF c, d, adds
      <3> QED BY <1>3, <1>4, <2>1, <3>2, <3>3
    <2>2. CASE ~adds
      <3> DEFINE d == OpenBar(b, tick, i)
      <3>1. /\ d \in [objs : Seq(Bar), cur : Nat] /\ d.cur = Len(b.objs) + 1
            /\ Len(d.objs) = Len(b.objs) + 1
            /\ d.objs[d.cur].volume = tick.vol
        <4> HIDE DEF b, tick, i
        <4> QED BY <1>2, <1>3, OpenABar
      <3>2. c = d
        BY <2>2
      <3> HIDE DEF c, d, adds
      <3> QED BY <1>3, <1>4, <2>2, <3>1, <3>2
    <2> HIDE DEF adds, c
    <2> QED BY <2>1, <2>2
  <1>9. PICK r \in Injecting : r = inj[t]
    BY <1>1
  <1> DEFINE y == [r EXCEPT !.pc = pc, !.at = FiveMinute]
  <1>10. y \in Injecting /\ y.tick = inj[t].tick /\ y.pc # "write" /\ inj' = [inj EXCEPT ![t] = y]
    <2>1. pc \in {"read", "push"}
      OBVIOUS
    <2> HIDE DEF pc
    <2>2. y \in Injecting /\ y.tick = r.tick /\ y.pc = pc
      BY <2>1, IntervalsApart DEF Injecting, Early
    <2>3. inj' = [inj EXCEPT ![t] = y]
      <3> HIDE DEF y
      <3> QED BY <1>5, <1>9 DEF FeedTyped, y
    <2> HIDE DEF y
    <2> QED BY <1>9, <2>1, <2>2, <2>3
  <1> HIDE DEF y
  <1>11. /\ inj' \in [Threads -> Injecting \cup {NoInj}]
         /\ inj'[t] = y /\ \A u \in Threads : u # t => inj'[u] = inj[u]
         /\ \A u \in Threads : Idle(u)' <=> Idle(u)
         /\ Places' /\ NoneTwice' /\ ReadsHold' /\ QueuesTyped'
    BY <1>1, <1>6, <1>10, KeepsPlace DEF Early
  <1> HIDE DEF c, i, s, tick, pc
  <1>12. /\ bars' \in [Intervals -> [objs : Seq(Bar), cur : Nat]]
         /\ bars'[i] = c /\ \A j \in Intervals : j # i => bars'[j] = bars[j]
    BY <1>2, <1>5, <1>8 DEF FeedTyped
  <1>13. /\ volume' \in [Intervals -> Int] /\ volume'[i] = volume[i] + tick.vol
         /\ \A j \in Intervals : j # i => volume'[j] = volume[j]
    BY <1>2, <1>4, <1>5 DEF FeedTyped
  <1>14. /\ handed' \in [Intervals -> Int]
         /\ handed'[i] = handed[i] + IF ends THEN bar.volume ELSE 0
         /\ \A j \in Intervals : j # i => handed'[j] = handed[j]
    <2>1. CASE ends
      <3>1. bar.volume \in Int /\ handed' = [handed EXCEPT ![i] = @ + bar.volume]
        BY <1>5, <1>7, <2>1
      <3> HIDE DEF bar, ends
      <3> QED BY <1>2, <2>1, <3>1 DEF FeedTyped
    <2>2. CASE ~ends
      <3>1. handed' = handed
        BY <1>5, <2>2
      <3>2. handed[i] + 0 = handed[i]
        BY <1>2 DEF FeedTyped
      <3> HIDE DEF bar, ends
      <3> QED BY <2>2, <3>1, <3>2 DEF FeedTyped
    <2> QED BY <2>1, <2>2
  <1>15. FeedTyped'
    <2>1. \A j \in Intervals : bars'[j].cur <= Len(bars'[j].objs)
                               /\ Len(bars[j].objs) <= Len(bars'[j].objs)
      <3> TAKE j \in Intervals
      <3>1. bars[j].objs \in Seq(Bar) /\ bars[j].cur <= Len(bars[j].objs)
        BY DEF FeedTyped
      <3>2. Len(bars[j].objs) \in Nat
        BY <3>1, LenProperties
      <3>3. CASE j = i
        BY <1>8, <1>12, <3>3
      <3>4. CASE j # i
        <4>1. bars'[j] = bars[j]
          BY <1>12, <3>4
        <4> QED BY <3>1, <3>2, <4>1
      <3> QED BY <3>3, <3>4
    <2>2. ASSUME NEW u \in Threads, inj'[u].pc = "write"
          PROVE  inj'[u].seen <= Len(bars'[inj'[u].at].objs)
      <3>1. u # t /\ inj'[u] = inj[u]
        BY <1>10, <1>11, <2>2
      <3>2. inj[u] \in Injecting
        BY <2>2, <3>1 DEF FeedTyped, NoInj
      <3>3. inj[u].at \in Intervals /\ inj[u].seen \in Nat
        BY <3>2 DEF Injecting
      <3>4. inj[u].seen <= Len(bars[inj[u].at].objs)
        BY <2>2, <3>1 DEF FeedTyped
      <3>5. Len(bars[inj[u].at].objs) \in Nat /\ Len(bars'[inj[u].at].objs) \in Nat
        BY <1>12, <3>3, LenProperties DEF FeedTyped
      <3> QED BY <2>1, <3>1, <3>3, <3>4, <3>5
    <2> QED BY <1>6, <1>11, <1>12, <1>13, <1>14, <2>1, <2>2, SMTT(30) DEF FeedTyped, bufferVars
  <1>16. ~overlapped' => Volumes'
    <2> SUFFICES ASSUME ~overlapped PROVE Volumes'
      BY <1>6
    <2>1. \A u \in Threads : ~Idle(u) => u = t
      BY <1>1 DEF Volumes, OneInjection
    <2>2. OneInjection'
      <3>1. \A u \in Threads : inj'[u].pc # "write"
        BY <1>10, <1>11, <2>1 DEF Idle
      <3> QED BY <1>11, <2>1, <3>1 DEF OneInjection
    <2>3. s = b.cur
      BY <1>1 DEF Volumes, OneInjection, i, s
    <2>4. PICK j \in Intervals : j = i
      BY <1>2
    <2>5. OpenVolume(j) = IF s = 0 THEN 0 ELSE bar.volume
      BY <2>3, <2>4 DEF OpenVolume
    <2>6. OpenVolume(j)' = IF adds THEN bar.volume + tick.vol ELSE tick.vol
      <3>1. bars'[j] = c
        BY <1>12, <2>4
      <3>2. OpenVolume(j)' = IF c.cur = 0 THEN 0 ELSE c.objs[c.cur].volume
        BY <3>1 DEF OpenVolume
      <3>3. CASE adds
        <4>1. s # 0
          BY <3>3
        <4> HIDE DEF adds, b, bar
        <4> QED BY <1>8, <2>3, <3>2, <3>3, <4>1
      <3>4. CASE ~adds
        <4> HIDE DEF adds, b, bar
        <4> QED BY <1>8, <3>2, <3>4
      <3> QED BY <3>3, <3>4
    <2>7. handed'[j] + OpenVolume(j)' = handed[j] + OpenVolume(j) + tick.vol
      <3>1. handed[j] \in Int /\ handed'[j] = handed[j] + IF ends THEN bar.volume ELSE 0
        BY <1>14, <2>4 DEF FeedTyped
      <3>2. OpenVolume(j)' = IF s # 0 /\ ~ends THEN bar.volume + tick.vol ELSE tick.vol
        BY <2>6
      <3>3. ends => s # 0
        OBVIOUS
      <3> HIDE DEF bar, ends
      <3> QED BY <1>4, <1>7, <2>5, <3>1, <3>2, <3>3
    <2>8. volume'[j] = volume[j] + tick.vol
      BY <1>13, <2>4
    <2>9. \A k \in Intervals : k # j =>
              /\ OpenVolume(k)' = OpenVolume(k)
              /\ handed'[k] = handed[k] /\ volume'[k] = volume[k]
      BY <1>12, <1>13, <1>14, <2>4 DEF OpenVolume
    <2>10. \A k \in Intervals : OpenVolume(k) \in Int /\ OpenVolume(k)' \in Int
      BY <1>15, OpenVolumeTyped
    <2>11. /\ \A k \in Intervals : volume[k] \in Int /\ handed[k] \in Int /\ handed'[k] \in Int
           /\ overwritten \in Int
      BY <1>14 DEF FeedTyped
    <2>12. j = OneMinute \/ j = FiveMinute
      BY DEF Intervals
    <2>13. VolumeConserved'
      <3> HIDE DEF bar, ends, adds, b
      <3>1. VolumeConserved
        BY DEF Volumes
      <3> DEFINE b1 == OpenVolume(OneMinute)
                 b5 == OpenVolume(FiveMinute)
                 c1 == OpenVolume(OneMinute)'
                 c5 == OpenVolume(FiveMinute)'
                 v  == tick.vol
      <3>2. /\ volume[FiveMinute] = handed[FiveMinute] + b5
            /\ volume[OneMinute] = handed[OneMinute] + b1 + overwritten
        BY <3>1 DEF VolumeConserved
      <3>3. /\ {volume[OneMinute], volume[FiveMinute], handed[OneMinute], handed[FiveMinute],
                handed'[OneMinute], handed'[FiveMinute]} \subseteq Int
            /\ {b1, b5, c1, c5, v, overwritten} \subseteq Int
        BY <1>4, <2>10, <2>11, IntervalsApart
      <3>4. \/ /\ handed'[OneMinute] + c1 = handed[OneMinute] + b1 + v
               /\ volume'[OneMinute] = volume[OneMinute] + v
               /\ c5 = b5 /\ handed'[FiveMinute] = handed[FiveMinute]
               /\ volume'[FiveMinute] = volume[FiveMinute]
            \/ /\ handed'[FiveMinute] + c5 = handed[FiveMinute] + b5 + v
               /\ volume'[FiveMinute] = volume[FiveMinute] + v
               /\ c1 = b1 /\ handed'[OneMinute] = handed[OneMinute]
               /\ volume'[OneMinute] = volume[OneMinute]
        <4>1. CASE j = OneMinute
          <5>1. handed'[OneMinute] + c1 = handed[OneMinute] + b1 + v
            BY <2>7, <4>1
          <5> QED BY <2>8, <2>9, <4>1, <5>1, IntervalsApart
        <4>2. CASE j = FiveMinute
          <5>1. handed'[FiveMinute] + c5 = handed[FiveMinute] + b5 + v
            BY <2>7, <4>2
          <5> QED BY <2>8, <2>9, <4>2, <5>1, IntervalsApart
        <4> QED BY <2>12, <4>1, <4>2
      <3> HIDE DEF b1, b5, c1, c5, v
      <3>5. /\ volume'[FiveMinute] = handed'[FiveMinute] + c5
            /\ volume'[OneMinute] = handed'[OneMinute] + c1 + overwritten
        BY <3>2, <3>3, <3>4
      <3> QED BY <1>6, <3>5 DEF VolumeConserved, c1, c5
    <2> QED BY <2>2, <2>13 DEF Volumes
  <1> QED BY <1>11, <1>15, <1>16

(* Steps of the agent's control leave ticks and bars alone.                 *)
Wires == [alive : BOOLEAN, connected : BOOLEAN, prev : Int]

(* Steps that touch neither bars nor buffer                                 *)
LEMMA ControlInv ==
    ASSUME FeedInv, UNCHANGED <<barVars, bufferVars>>, now' \in Nat, ws' \in Wires
    PROVE  FeedInv'
  <1>1. ws'.prev \in Int
    BY DEF Wires
  <1>2. QueuesTyped' /\ ReadsHold'
    BY DEF FeedInv, FeedTyped, QueuesTyped, ReadsHold, bufferVars, queueVars
  <1>3. FeedTyped' /\ (~overlapped' => Volumes')
    BY <1>1, <1>2 DEF FeedInv, FeedTyped, Volumes, OneInjection, VolumeConserved, OpenVolume,
              Idle, barVars, bufferVars, Wires
  <1>4. Places' /\ NoneTwice'
    BY DEF FeedInv, Places, NoneTwice, Pushing, Idle, barVars, bufferVars, queueVars
  <1> QED BY <1>2, <1>3, <1>4 DEF FeedInv

(* max of two numbers, min of a set                                         *)
LEMMA MaxOfTwo == ASSUME NEW a \in Int, NEW b \in Int PROVE Max({a, b}) \in Int
  <1> DEFINE m == IF a >= b THEN a ELSE b
  <1>1. m \in {a, b} /\ \A y \in {a, b} : m >= y
    OBVIOUS
  <1>2. \E w \in {a, b} : \A y \in {a, b} : w >= y
    BY <1>1
  <1>3. Max({a, b}) \in {a, b}
    BY <1>2 DEF Max
  <1> QED BY <1>3

(* _handle_ticks: a tick is accepted, or refused after the volume was noted.*)
LEMMA HandleTickInv ==
    ASSUME FeedInv, NEW cum \in Int, NEW ts \in Int, HandleTick(1, cum, ts)
    PROVE  FeedInv'
  <1> DEFINE delta == IF ws.prev = -1 THEN 0 ELSE Max({0, cum - ws.prev})
             tick  == [price |-> 1, vol |-> delta, ts |-> ts]
  <1>1. ws \in Wires /\ now \in Nat
    BY DEF FeedInv, FeedTyped, Wires
  <1>2. delta \in Int
    <2> DEFINE d == cum - ws.prev
    <2>1. d \in Int
      BY <1>1 DEF Wires
    <2> HIDE DEF d
    <2>2. Max({0, d}) \in Int
      BY <2>1, MaxOfTwo
    <2> QED BY <2>2 DEF d
  <1> HIDE DEF delta
  <1>3. /\ Idle("ws") /\ ws' = [ws EXCEPT !.prev = cum] /\ UNCHANGED now
        /\ \/ /\ Accept("ws", tick)
              /\ UNCHANGED <<bars, volume, handed, overwritten>>
              /\ UNCHANGED queueVars
           \/ UNCHANGED <<barVars, bufferVars>>
    BY DEF HandleTick, delta
  <1>4. ws' \in Wires /\ ws'.prev \in Int
    BY <1>1, <1>3 DEF Wires
  <1>5. CASE UNCHANGED <<barVars, bufferVars>>
    BY <1>1, <1>3, <1>4, <1>5, ControlInv
  <1>6. CASE /\ Accept("ws", tick)
             /\ UNCHANGED <<bars, volume, handed, overwritten>>
             /\ UNCHANGED queueVars
    <2>1. tick.vol \in Int /\ tick.ts \in Int /\ "ws" \in Threads
      BY <1>2 DEF Threads
    <2> HIDE DEF tick
    <2> QED BY <1>3, <1>4, <1>6, <2>1, AcceptInv DEF Wires
  <1> QED BY <1>3, <1>5, <1>6

(* _run_fallback: a bar of yfinance is a tick like the others.              *)
LEMMA FallbackInv ==
    ASSUME FeedInv, NEW d \in Dogs, NEW times \in SUBSET Int, RunFallback(d, times)
    PROVE  FeedInv'
  <1>1. ws \in Wires /\ now \in Nat /\ ws.prev \in Int
    BY DEF FeedInv, FeedTyped, Wires
  <1>2. /\ Idle(d) /\ UNCHANGED <<now, ws>> /\ UNCHANGED queueVars
        /\ \/ UNCHANGED <<barVars, accepted>>
           \/ \E ts \in times :
                 /\ Accept(d, [price |-> 1, vol |-> 1, ts |-> ts])
                 /\ UNCHANGED <<bars, volume, handed, overwritten>>
    BY DEF RunFallback
  <1>3. CASE UNCHANGED <<barVars, accepted>>
    BY <1>1, <1>2, <1>3, ControlInv DEF bufferVars
  <1>4. CASE \E ts \in times : /\ Accept(d, [price |-> 1, vol |-> 1, ts |-> ts])
                                /\ UNCHANGED <<bars, volume, handed, overwritten>>
    <2>1. PICK ts \in times : /\ Accept(d, [price |-> 1, vol |-> 1, ts |-> ts])
                               /\ UNCHANGED <<bars, volume, handed, overwritten>>
      BY <1>4
    <2> DEFINE tick == [price |-> 1, vol |-> 1, ts |-> ts]
    <2>2. tick.vol \in Int /\ tick.ts \in Int /\ d \in Threads /\ Accept(d, tick)
      BY <1>1, <2>1 DEF Threads
    <2> HIDE DEF tick
    <2> QED BY <1>1, <1>2, <2>1, <2>2, AcceptInv DEF Wires
  <1> QED BY <1>2, <1>3, <1>4

(* A tick is injected by any of its steps.                                  *)
LEMMA InjectInv == ASSUME FeedInv, NEW t \in Threads, Inject(t) PROVE FeedInv'
  BY IngestReadInv, IngestWriteInv, PushInv, PushLoadInv, PushAppendInv DEF Inject

(* Every step of the pipeline and of the agents.                            *)
LEMMA FeedStepInv == FeedInv /\ [BarNext \/ BufferNext \/ AgentNext]_feedVars => FeedInv'
  <1> SUFFICES ASSUME FeedInv, [BarNext \/ BufferNext \/ AgentNext]_feedVars PROVE FeedInv'
    OBVIOUS
  <1>1. ws \in Wires /\ now \in Nat
    BY DEF FeedInv, FeedTyped, Wires
  <1>2. ASSUME FeedTick \/ FeedRedisToggles PROVE FeedInv'
    BY <1>1, <1>2, ControlInv DEF FeedTick, FeedRedisToggles
  <1>3. ASSUME HandleTick(1, Min(Cumulative), now) PROVE FeedInv'
    <2>1. Min(Cumulative) \in Cumulative
      BY MinOfSet, IngestionAssumption
    <2> DEFINE m == Min(Cumulative)
    <2>2. m \in Cumulative /\ HandleTick(1, m, now)
      BY <1>3, <2>1
    <2> HIDE DEF m
    <2>3. m \in Int /\ now \in Int
      BY <1>1, <2>2, IngestionAssumption
    <2> QED BY <2>2, <2>3, HandleTickInv
  <1>4. 0..now \in SUBSET Int /\ {now} \in SUBSET Int
    BY <1>1
  <1>5. ASSUME BarNext PROVE FeedInv'
    <2>1. ASSUME NEW cum \in Cumulative, NEW ts \in 0..(now + MaxFuture + 1),
                 HandleTick(1, cum, ts)
          PROVE  FeedInv'
      <3>1. cum \in Int /\ ts \in Int
        BY IngestionAssumption
      <3> QED BY <2>1, <3>1, HandleTickInv
    <2> QED BY <1>2, <1>4, <1>5, <2>1, InjectInv, FallbackInv, FlushInv DEF BarNext
  <1>6. ASSUME BufferNext PROVE FeedInv'
    <2>1. ASSUME NEW n \in 0..(2 * feed.ticks), Drain(n) PROVE FeedInv'
      <3>1. n \in Nat
        OBVIOUS
      <3> QED BY <2>1, <3>1, DrainInv
    <2> QED BY <1>2, <1>3, <1>4, <1>6, <2>1, InjectInv, FallbackInv DEF BufferNext
  <1>7. ASSUME AgentNext PROVE FeedInv'
    <2>2. ASSUME HandleConnect \/ HandleClose \/ Start \/ Connect \/ Stop \/ StopDisconnect
          PROVE  FeedInv'
      <3>1. ws' \in Wires
        <4>1. \/ ws' = ws \/ ws' = [ws EXCEPT !.connected = TRUE]
              \/ ws' = [ws EXCEPT !.connected = FALSE] \/ ws' = [ws EXCEPT !.alive = TRUE]
              \/ ws' = [ws EXCEPT !.alive = FALSE, !.connected = FALSE]
          BY <2>2, Zenon DEF HandleConnect, HandleClose, Start, Connect, Stop, StopDisconnect
        <4>2. PICK w \in Wires : w = ws
          BY <1>1
        <4> QED BY <4>1, <4>2 DEF Wires
      <3>2. UNCHANGED <<now, barVars, bufferVars>>
        BY <2>2 DEF HandleConnect, HandleClose, Start, Connect, Stop, StopDisconnect,
                    wsOthers, ctlOthers
      <3> QED BY <1>1, <3>1, <3>2, ControlInv
    <2>3. ASSUME NEW d \in Dogs, Watchdog(d) PROVE FeedInv'
      <3>1. CASE WatchdogCheck(d) \/ SetDegraded(d) \/ ExitDegraded(d) \/ ClearDegraded(d)
                 \/ WatchdogExit(d)
        <4>1. UNCHANGED <<now, ws, barVars, bufferVars>>
          BY <3>1 DEF WatchdogCheck, SetDegraded, ExitDegraded, ClearDegraded, WatchdogExit,
                      dogOthers
        <4> QED BY <1>1, <4>1, ControlInv
      <3>2. d \in Threads
        BY DEF Threads
      <3> QED BY <2>3, <3>1, <3>2, <1>4, InjectInv, FallbackInv DEF Watchdog
    <2>4. "ws" \in Threads
      BY DEF Threads
    <2> QED BY <1>2, <1>3, <1>7, <2>2, <2>3, <2>4, InjectInv DEF AgentNext
  <1>8. ASSUME UNCHANGED feedVars PROVE FeedInv'
    BY <1>1, <1>8, ControlInv DEF feedVars
  <1> QED BY <1>5, <1>6, <1>7, <1>8

(* The invariant holds of every behaviour.                                  *)
LEMMA FeedAlways == FeedSpec => []FeedInv
  BY FeedInitInv, FeedStepInv, PTL DEF FeedSpec

(* Until two injections overlap, each aggregator accounts for every unit of *)
(* accepted volume exactly once.                                            *)
THEOREM VolumeIsConserved == FeedSpec => []VolumeConserved
  <1>1. FeedInv => VolumeConserved
    BY DEF FeedInv, Volumes, VolumeConserved
  <1> QED BY <1>1, FeedAlways, PTL

(* Every accepted tick is in one of the places NoTickLost names, and in two *)
(* only if an RPUSH was executed unanswered, through any overlap of threads *)
(* and of drain() and any outage of Redis.                                  *)
THEOREM NoTickIsLost == FeedSpec => []NoTickLost
  <1>1. FeedInv => NoTickLost
    BY PlacesAreLost DEF FeedInv
  <1> QED BY <1>1, FeedAlways, PTL
=============================================================================
