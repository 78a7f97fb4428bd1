------------------------ MODULE ReconciliationProofs ------------------------
(***************************************************************************)
(* M17 for every set of symbols, orders, rows and timers.                  *)
(*                                                                         *)
(* The differ's promises hold for all lists.  The promises about stop()    *)
(* and about blocks hold for any number of starts and stops as long as     *)
(* start() never meets the cycle of an earlier timer (overlap), the latter *)
(* in surroundings without other callers: their inductive invariant says   *)
(* that at most one thread is not idle and relates the marks in the        *)
(* registry to what the running cycle has still to do.                     *)
(***************************************************************************)
EXTENDS Reconciliation, TLAPS

Fields == {"POSITION_MISSING", "QUANTITY", "AVG_PRICE", "UNEXPECTED_POSITION",
           "ORDER_MISSING", "ORDER_STATUS", "UNEXPECTED_ORDER"}
MismatchRec == [key : Keys, field : Fields]

(* A dictionary keeps the last of the rows ns, or none when there is none.  *)
LEMMA LastOfRows ==
    ASSUME NEW S, NoRow \notin S, NEW list \in Seq(S), NEW ns \in SUBSET DOMAIN list
    PROVE  /\ LastOf(list, ns) \in S \cup {NoRow}
           /\ {list[n] : n \in {n \in ns : \A m \in ns : m <= n}}
                = IF LastOf(list, ns) = NoRow THEN {} ELSE {LastOf(list, ns)}
  <1> DEFINE latest == {n \in ns : \A m \in ns : m <= n}
  <1>1. \A n \in latest : list[n] \in S /\ n \in Nat
    OBVIOUS
  <1>2. \A m, n \in latest : m = n
    BY <1>1
  <1>3. CASE latest = {}
    BY <1>3 DEF LastOf
  <1>4. CASE latest # {}
    <2> DEFINE c == CHOOSE n \in latest : TRUE
    <2>1. c \in latest
      BY <1>4
    <2> HIDE DEF latest, c
    <2>2. latest = {c}
      BY <1>2, <2>1
    <2>3. LastOf(list, ns) = list[c]
      BY <1>4 DEF LastOf, latest, c
    <2>4. list[c] \in S
      BY <1>1, <2>1
    <2>5. {list[n] : n \in latest} = {list[c]}
      BY <2>2
    <2> QED BY <2>3, <2>4, <2>5 DEF latest
  <1> QED BY <1>3, <1>4

(* The row under a symbol's key is the list's last row of that symbol.      *)
LEMMA PositionMapRow ==
    ASSUME NEW list \in Positions, NEW k \in Keys
    PROVE  LET row == PositionMap(list)[k]
           IN  /\ row \in Position \cup {NoRow}
               /\ LastRows(list, k) = IF row = NoRow THEN {} ELSE {row}
  <1> DEFINE ns == {n \in DOMAIN list : list[n].key = k}
  <1>1. NoRow \notin Position /\ list \in Seq(Position)
    BY DiffAssumption DEF Position, Positions
  <1>2. PositionMap(list)[k] = LastOf(list, ns)
    BY DEF PositionMap
  <1>3. {n \in DOMAIN list : list[n].key = k /\ \A m \in DOMAIN list : m > n => list[m].key # k}
          = {n \in ns : \A m \in ns : m <= n}
    BY <1>1
  <1>4. LastRows(list, k) = {list[n] : n \in {n \in ns : \A m \in ns : m <= n}}
    BY <1>3 DEF LastRows
  <1>5. ns \in SUBSET DOMAIN list
    OBVIOUS
  <1>6. /\ LastOf(list, ns) \in Position \cup {NoRow}
        /\ {list[n] : n \in {n \in ns : \A m \in ns : m <= n}}
             = IF LastOf(list, ns) = NoRow THEN {} ELSE {LastOf(list, ns)}
    <2> HIDE DEF ns
    <2> QED BY <1>1, <1>5, LastOfRows
  <1> HIDE DEF ns
  <1> QED BY <1>2, <1>4, <1>6

(* The status under an order's id is that of the list's last row of it.     *)
LEMMA OrderMapRow ==
    ASSUME NEW list \in Orders, NEW o \in OrderIds
    PROVE  LET row == OrderMap(list)[o]
           IN  /\ row \in Order \cup {NoRow}
               /\ LastStatus(list, o) = IF row = NoRow THEN {} ELSE {Upper(row.status)}
  <1> DEFINE ns == {n \in DOMAIN list : list[n].id = o}
             latest == {n \in ns : \A m \in ns : m <= n}
  <1>1. NoRow \notin Order /\ list \in Seq(Order)
    BY DiffAssumption DEF Order, Orders
  <1>2. OrderMap(list)[o] = LastOf(list, ns)
    BY DEF OrderMap
  <1>3. {n \in DOMAIN list : list[n].id = o /\ \A m \in DOMAIN list : m > n => list[m].id # o}
          = latest
    BY <1>1
  <1>4. LastStatus(list, o) = {Upper(list[n].status) : n \in latest}
    BY <1>3 DEF LastStatus
  <1>5. ns \in SUBSET DOMAIN list
    OBVIOUS
  <1>6. {Upper(list[n].status) : n \in latest} = {Upper(r.status) : r \in {list[n] : n \in latest}}
    OBVIOUS
  <1>7. /\ LastOf(list, ns) \in Order \cup {NoRow}
        /\ {list[n] : n \in latest} = IF LastOf(list, ns) = NoRow THEN {} ELSE {LastOf(list, ns)}
    <2> HIDE DEF ns
    <2> QED BY <1>1, <1>5, LastOfRows
  <1> HIDE DEF ns, latest
  <1> QED BY <1>2, <1>4, <1>6, <1>7

(* A symbol is reported exactly when its last rows drift in quantity or in  *)
(* price, whatever the lists.                                               *)
LEMMA PositionsDiffer ==
    ASSUME NEW broker \in Positions, NEW internal \in Positions
    PROVE  PositionsExact(broker, internal)
  <1> SUFFICES ASSUME NEW k \in Keys
               PROVE  (\E m \in diff_positions(broker, internal) : m.key = k)
                        <=> Drift(LastRows(broker, k), LastRows(internal, k))
    BY DEF PositionsExact, MismatchKeys
  <1> DEFINE b == PositionMap(broker)
             i == PositionMap(internal)
             Reported == \/ i[k] # NoRow /\ b[k] = NoRow /\ i[k].qty # 0
                         \/ QuantityDiffers(b, i, k)
                         \/ PriceDiffers(b, i, k)
                         \/ i[k] = NoRow /\ b[k] # NoRow /\ b[k].qty # 0
  <1>1. (\E m \in diff_positions(broker, internal) : m.key = k) <=> Reported
    <2> HIDE DEF b, i
    <2>1. diff_positions(broker, internal) =
            UNION { Mismatch({q \in Keys : i[q] # NoRow /\ b[q] = NoRow /\ i[q].qty # 0},
                             "POSITION_MISSING"),
                    Mismatch({q \in Keys : QuantityDiffers(b, i, q)}, "QUANTITY"),
                    Mismatch({q \in Keys : PriceDiffers(b, i, q)}, "AVG_PRICE"),
                    Mismatch({q \in Keys : i[q] = NoRow /\ b[q] # NoRow /\ b[q].qty # 0},
                             "UNEXPECTED_POSITION") }
      BY DEF diff_positions, b, i
    <2>2. ASSUME NEW m, m.key = k, m \in diff_positions(broker, internal) PROVE Reported
      BY <2>1, <2>2 DEF Mismatch
    <2>3. ASSUME Reported PROVE \E m \in diff_positions(broker, internal) : m.key = k
      <3>1. \E f \in Fields : [key |-> k, field |-> f] \in diff_positions(broker, internal)
        BY <2>1, <2>3 DEF Mismatch, Fields
      <3> QED BY <3>1
    <2> QED BY <2>2, <2>3
  <1>2. /\ b[k] \in Position \cup {NoRow} /\ i[k] \in Position \cup {NoRow}
        /\ LastRows(broker, k) = IF b[k] = NoRow THEN {} ELSE {b[k]}
        /\ LastRows(internal, k) = IF i[k] = NoRow THEN {} ELSE {i[k]}
    BY PositionMapRow
  <1> HIDE DEF b, i
  <1>3. CASE b[k] = NoRow \/ i[k] = NoRow
    BY <1>1, <1>2, <1>3 DEF Drift, Held, PriceDrift, QuantityDiffers, PriceDiffers
  <1>4. CASE b[k] # NoRow /\ i[k] # NoRow
    <2>1. Held({b[k]}) # Held({i[k]}) <=> b[k].qty # i[k].qty
      BY DEF Held
    <2>2. PriceDrift({b[k]}, {i[k]}) <=> PriceDiffers(b, i, k)
      BY <1>4 DEF PriceDrift, PriceDiffers
    <2> QED BY <1>1, <1>2, <1>4, <2>1, <2>2 DEF Drift, QuantityDiffers
  <1> QED BY <1>3, <1>4

(* Orders are reported exactly when the last rows of one of them differ in  *)
(* status or are on one side only, whatever the lists.                      *)
LEMMA OrdersDiffer ==
    ASSUME NEW broker \in Orders, NEW internal \in Orders
    PROVE  OrdersExact(broker, internal)
  <1> DEFINE b == OrderMap(broker)
             i == OrderMap(internal)
             Differs(o) == \/ i[o] # NoRow /\ b[o] = NoRow
                           \/ /\ i[o] # NoRow /\ b[o] # NoRow
                              /\ Upper(b[o].status) # Upper(i[o].status)
                           \/ i[o] = NoRow /\ b[o] # NoRow
  <1>1. diff_orders(broker, internal) # {} <=> \E o \in OrderIds : Differs(o)
    <2> HIDE DEF b, i
    <2>1. diff_orders(broker, internal) =
            UNION { {[key |-> i[o].key, field |-> "ORDER_MISSING"] :
                        o \in {o \in OrderIds : i[o] # NoRow /\ b[o] = NoRow}},
                    {[key |-> i[o].key, field |-> "ORDER_STATUS"] :
                        o \in {o \in OrderIds : /\ i[o] # NoRow /\ b[o] # NoRow
                                                /\ Upper(b[o].status) # Upper(i[o].status)}},
                    {[key |-> b[o].key, field |-> "UNEXPECTED_ORDER"] :
                        o \in {o \in OrderIds : i[o] = NoRow /\ b[o] # NoRow}} }
      BY DEF diff_orders, b, i
    <2> QED BY <2>1
  <1>2. ASSUME NEW o \in OrderIds
        PROVE  Differs(o) <=> LastStatus(broker, o) # LastStatus(internal, o)
    <2>1. /\ LastStatus(broker, o) = IF b[o] = NoRow THEN {} ELSE {Upper(b[o].status)}
          /\ LastStatus(internal, o) = IF i[o] = NoRow THEN {} ELSE {Upper(i[o].status)}
      BY OrderMapRow
    <2> HIDE DEF b, i
    <2> QED BY <2>1
  <1> HIDE DEF Differs
  <1> QED BY <1>1, <1>2 DEF OrdersExact

(* A list with one row for each symbol at most is compared row by row: a    *)
(* symbol is reported exactly when the rows of the two sides drift.  In a   *)
(* list that has a symbol several times, PositionsExact says that its last  *)
(* row speaks for it.                                                       *)
THEOREM DifferExact ==
    ASSUME NEW broker \in Positions, NEW internal \in Positions,
           OneRowEach(broker), OneRowEach(internal), NEW k \in Keys
    PROVE  k \in MismatchKeys(diff_positions(broker, internal))
             <=> Drift({broker[n] : n \in {n \in DOMAIN broker : broker[n].key = k}},
                       {internal[n] : n \in {n \in DOMAIN internal : internal[n].key = k}})
  <1>1. ASSUME NEW list \in Positions, OneRowEach(list)
        PROVE  LastRows(list, k) = {list[n] : n \in {n \in DOMAIN list : list[n].key = k}}
    <2>1. \A m, n \in DOMAIN list : list[n].key = k /\ m > n => list[m].key # k
      BY <1>1 DEF OneRowEach, Positions
    <2> QED BY <2>1 DEF LastRows
  <1> QED BY <1>1, PositionsDiffer DEF PositionsExact

-----------------------------------------------------------------------------
Books == {f \in [Lists -> Positions \cup Orders] : \A l \in Lists : f[l] \in Rows(l)}

Labels == Lists \cup {"idle", "armed", "loop", "clear", "resched"}

Types ==
    /\ env \in Environments
    /\ book \in Books /\ snap \in [Threads -> Books]
    /\ redisBlocks \subseteq Keys /\ memory \subseteq Keys /\ last \subseteq Keys
    /\ pc \in [Threads -> Labels]
    /\ todo \in [Threads -> SUBSET (MismatchRec \cup Keys)]
    /\ unblocked \in [Threads -> SUBSET Keys]
    /\ current \in [Threads -> SUBSET Keys]
    /\ redisUp \in BOOLEAN /\ running \in BOOLEAN
    /\ timer \in Timers \cup {NoTimer} /\ starts \in 0..MaxStarts /\ overlap \in BOOLEAN

(* A mismatch names a symbol of one of the compared rows.                   *)
LEMMA MismatchesType ==
    ASSUME NEW f \in Books
    PROVE  Mismatches(f) \subseteq MismatchRec
  <1>1. f["bpos"] \in Positions /\ f["ipos"] \in Positions
    BY DEF Books, Lists, Rows
  <1>2. f["bord"] \in Orders /\ f["iord"] \in Orders
    BY DEF Books, Lists, Rows
  <1>3. diff_positions(f["bpos"], f["ipos"]) \subseteq MismatchRec
    BY DEF diff_positions, Mismatch, MismatchRec, Fields
  <1>4. \A list \in Orders : \A o \in OrderIds :
            OrderMap(list)[o] # NoRow => OrderMap(list)[o].key \in Keys
    BY OrderMapRow DEF Order
  <1>5. diff_orders(f["bord"], f["iord"]) \subseteq MismatchRec
    BY <1>2, <1>4 DEF diff_orders, MismatchRec, Fields
  <1> QED BY <1>3, <1>5 DEF Mismatches

(* An empty list is a list of rows.                                         *)
LEMMA EmptyBooksType == EmptyBooks \in Books /\ \A l \in Lists : <<>> \in Rows(l)
  <1>1. \A l \in Lists : <<>> \in Rows(l)
    BY DEF Rows, Positions, Orders
  <1>2. \A l \in Lists : Rows(l) \subseteq Positions \cup Orders
    BY DEF Rows
  <1> QED BY <1>1, <1>2 DEF EmptyBooks, Books

(* Initially every list is empty and no thread has begun.                   *)
LEMMA InitTypes == Init => Types
  <1> SUFFICES ASSUME Init PROVE Types
    OBVIOUS
  <1>1. book \in Books /\ snap \in [Threads -> Books]
    <2>1. env \in Environment
      BY AgentAssumption DEF Init
    <2>2. env.positions \subseteq Positions /\ env.orders \subseteq Orders
      BY <2>1 DEF Environment
    <2>4. PICK bp \in env.positions, ip \in env.positions, bo \in env.orders, io \in env.orders :
            book = [l \in Lists |-> CASE l = "bpos" -> bp [] l = "ipos" -> ip
                                      [] l = "bord" -> bo [] l = "iord" -> io]
      BY DEF Init
    <2>5. book \in Books
      BY <2>2, <2>4 DEF Books, Lists, Rows
    <2> QED BY <2>5, EmptyBooksType DEF Init
  <1>2. pc \in [Threads -> Labels]
    BY DEF Init, Labels
  <1>3. todo \in [Threads -> SUBSET (MismatchRec \cup Keys)]
    BY DEF Init
  <1>4. unblocked \in [Threads -> SUBSET Keys] /\ current \in [Threads -> SUBSET Keys]
    BY DEF Init
  <1>5. redisUp \in BOOLEAN /\ running \in BOOLEAN /\ overlap \in BOOLEAN
    BY DEF Init
  <1>6. starts \in 0..MaxStarts /\ timer \in Timers \cup {NoTimer}
    BY AgentAssumption DEF Init
  <1>7. redisBlocks \subseteq Keys /\ memory \subseteq Keys /\ last \subseteq Keys
    BY DEF Init
  <1> QED BY <1>1, <1>2, <1>3, <1>4, <1>5, <1>6, <1>7 DEF Types, Init

(* A provider call that returns rows keeps the types, the diff included.    *)
LEMMA FetchedTypes ==
    ASSUME Types, NEW t \in Threads, NEW l \in Lists, NEW rows \in Rows(l),
           Fetched(t, l, rows), UNCHANGED <<env, book, registryVars, last, lifeVars, unblocked>>
    PROVE  Types'
  <1> DEFINE lists == [snap[t] EXCEPT ![l] = rows]
  <1>1. snap[t] \in Books
    BY DEF Types
  <1>2. Rows(l) \subseteq Positions \cup Orders
    BY DEF Rows
  <1>3. lists \in Books
    BY <1>1, <1>2 DEF Books
  <1>4. Mismatches(lists) \subseteq MismatchRec
    BY <1>3, MismatchesType
  <1>5. MismatchKeys(Mismatches(lists)) \subseteq Keys
    BY <1>4 DEF MismatchKeys, MismatchRec
  <1> HIDE DEF lists
  <1>6. pc' \in [Threads -> Labels]
    BY DEF Fetched, Types, After, Labels, Lists
  <1>7. snap' \in [Threads -> Books]
    BY <1>3, EmptyBooksType DEF Fetched, Types, lists
  <1>8. todo' \in [Threads -> SUBSET (MismatchRec \cup Keys)]
    BY <1>4 DEF Fetched, Types, lists
  <1>9. current' \in [Threads -> SUBSET Keys]
    BY <1>5 DEF Fetched, Types, lists
  <1> QED BY <1>6, <1>7, <1>8, <1>9 DEF Types, registryVars, lifeVars

(* The steps of start(), stop(), the timers and the environment keep the    *)
(* types.                                                                   *)
LEMMA LifeTypes ==
    ASSUME Types, \/ BookChanges \/ RedisToggles \/ Crash \/ Start \/ Stop
                  \/ \E t \in Threads : Fire(t) \/ ScheduleNext(t) \/ CallerCycle(t)
    PROVE  Types'
  <1>1. CASE BookChanges
    <2>1. env \in Environment
      BY AgentAssumption DEF Types
    <2>2. PICK l \in Lists : \E list \in IF l \in {"bpos", "ipos"} THEN env.positions ELSE env.orders :
                              book' = [book EXCEPT ![l] = list]
      BY <1>1 DEF BookChanges
    <2>3. PICK list \in Rows(l) : book' = [book EXCEPT ![l] = list]
      BY <2>1, <2>2 DEF Environment, Rows
    <2>4. Rows(l) \subseteq Positions \cup Orders
      BY DEF Rows
    <2>5. book' \in Books
      BY <2>3, <2>4 DEF Types, Books
    <2> QED BY <1>1, <2>5 DEF BookChanges, Types, registryVars, lifeVars, cycleVars
  <1>2. CASE RedisToggles
    BY <1>2 DEF RedisToggles, Types, lifeVars, cycleVars
  <1>3. CASE Crash
    <2>1. snap' \in [Threads -> Books]
      BY <1>3, EmptyBooksType DEF Crash
    <2>2. pc' \in [Threads -> Labels]
      BY <1>3 DEF Crash, Labels
    <2>3. todo' \in [Threads -> SUBSET (MismatchRec \cup Keys)]
      BY <1>3 DEF Crash
    <2>4. unblocked' \in [Threads -> SUBSET Keys] /\ current' \in [Threads -> SUBSET Keys]
      BY <1>3 DEF Crash
    <2>5. starts' \in 0..MaxStarts
      BY <1>3, AgentAssumption DEF Crash
    <2> QED BY <1>3, <2>1, <2>2, <2>3, <2>4, <2>5 DEF Crash, Types
  <1>4. CASE Start
    <2>0. env.starts \in 1..MaxStarts
      BY AgentAssumption DEF Types, Environment
    <2>1. starts' \in 0..MaxStarts /\ running' \in BOOLEAN
      BY <1>4, <2>0, AgentAssumption DEF Start, Types
    <2>2. /\ timer' \in Timers \cup {NoTimer} /\ pc' \in [Threads -> Labels]
          /\ overlap' \in BOOLEAN
      BY <1>4 DEF Start, Arm, Types, Labels
    <2> QED BY <1>4, <2>1, <2>2 DEF Start, Types, registryVars
  <1>5. CASE Stop
    <2>1. pc' \in [Threads -> Labels]
      BY <1>5 DEF Stop, Types, Labels
    <2> QED BY <1>5, <2>1 DEF Stop, Types, registryVars
  <1>6. ASSUME NEW t \in Threads, Fire(t) \/ ScheduleNext(t) \/ CallerCycle(t) PROVE Types'
    <2>1. pc' \in [Threads -> Labels]
      BY <1>6 DEF Fire, ScheduleNext, CallerCycle, Arm, Types, Labels, Lists
    <2>2. CASE Fire(t) \/ CallerCycle(t)
      BY <2>1, <2>2 DEF Fire, CallerCycle, Types, registryVars, lifeVars
    <2>3. CASE ScheduleNext(t)
      BY <2>1, <2>3 DEF ScheduleNext, Arm, Types, registryVars
    <2> QED BY <1>6, <2>2, <2>3
  <1> QED BY <1>1, <1>2, <1>3, <1>4, <1>5, <1>6

(* The provider calls of run_cycle keep the types.                          *)
LEMMA FetchTypes ==
    ASSUME Types, NEW t \in Threads, NEW l \in Lists,
           Fetch(t, l) \/ FetchEmpty(t, l) \/ FetchRaises(t, l)
    PROVE  Types'
  <1>1. CASE Fetch(t, l)
    <2>1. book[l] \in Rows(l)
      BY DEF Types, Books
    <2> QED BY <1>1, <2>1, FetchedTypes DEF Fetch
  <1>2. CASE FetchEmpty(t, l)
    BY <1>2, EmptyBooksType, FetchedTypes DEF FetchEmpty
  <1>3. CASE FetchRaises(t, l)
    <2>1. pc' \in [Threads -> Labels]
      BY <1>3 DEF FetchRaises, Leave, Types, Labels
    <2>2. snap' \in [Threads -> Books]
      BY <1>3, EmptyBooksType DEF FetchRaises, Types
    <2> QED BY <1>3, <2>1, <2>2 DEF FetchRaises, Types, registryVars, lifeVars
  <1> QED BY <1>1, <1>2, <1>3

(* The registry steps of run_cycle keep the types.                          *)
LEMMA CycleTypes ==
    ASSUME Types, NEW t \in Threads,
           \/ \E m \in todo[t] : CheckMismatch(t, m)
           \/ \E k \in Keys : BlockKey(t, k) \/ ClearStale(t, k)
           \/ ComputeStale(t) \/ EndCycle(t),
           pc[t] = "loop" => todo[t] \subseteq MismatchRec
    PROVE  Types'
  <1>1. ASSUME NEW m \in todo[t], CheckMismatch(t, m) PROVE Types'
    <2>1. m.key \in Keys
      BY <1>1 DEF CheckMismatch, MismatchRec
    <2>2. unblocked' \in [Threads -> SUBSET Keys]
      BY <1>1, <2>1 DEF CheckMismatch, Types
    <2>3. todo' \in [Threads -> SUBSET (MismatchRec \cup Keys)]
      BY <1>1 DEF CheckMismatch, Types
    <2> QED BY <1>1, <2>2, <2>3 DEF CheckMismatch, Types, registryVars, lifeVars
  <1>2. ASSUME NEW k \in Keys, BlockKey(t, k) PROVE Types'
    BY <1>2 DEF BlockKey, block, Types, lifeVars
  <1>3. ASSUME NEW k \in Keys, ClearStale(t, k) PROVE Types'
    BY <1>3 DEF ClearStale, clear, Types, lifeVars
  <1>4. CASE ComputeStale(t)
    BY <1>4 DEF ComputeStale, Types, Labels, registryVars, lifeVars
  <1>5. CASE EndCycle(t)
    BY <1>5 DEF EndCycle, Leave, Types, Labels, registryVars, lifeVars
  <1> QED BY <1>1, <1>2, <1>3, <1>4, <1>5

-----------------------------------------------------------------------------
(* While a cycle blocks, what it has still to do are mismatches.            *)
LoopTodo == \A t \in Threads : pc[t] = "loop" => todo[t] \subseteq MismatchRec

(* Every step that is not the last fetch leaves the work of a blocking      *)
(* cycle alone or shrinks it; the last fetch replaces it by the diff.       *)
LEMMA LoopTodoStep == ASSUME Types, LoopTodo, [Next]_vars PROVE LoopTodo'
  <1> USE DEF LoopTodo
  <1>1. CASE BookChanges \/ RedisToggles \/ UNCHANGED vars
    BY <1>1 DEF BookChanges, RedisToggles, vars, cycleVars
  <1>2. CASE Crash \/ Start \/ Stop
    BY <1>2 DEF Crash, Start, Stop, Arm, Types
  <1>3. ASSUME NEW t \in Threads, ThreadStep(t) \/ CallerCycle(t) PROVE LoopTodo'
    BY <1>3 DEF ThreadStep, CallerCycle, CheckMismatch, BlockKey, ClearStale, ComputeStale,
                EndCycle, ScheduleNext, Fire, Leave, Arm, Types
  <1>4. ASSUME NEW t \in Threads, NEW l \in Lists, NEW rows \in Rows(l), Fetched(t, l, rows)
        PROVE  LoopTodo'
    <2> DEFINE lists == [snap[t] EXCEPT ![l] = rows]
    <2>1. lists \in Books
      BY DEF Types, Books, Rows
    <2>2. Mismatches(lists) \subseteq MismatchRec
      BY <2>1, MismatchesType
    <2> HIDE DEF lists
    <2>3. CASE l = "iord"
      BY <1>4, <2>2, <2>3 DEF Fetched, Types, lists
    <2>4. CASE l # "iord"
      <3>1. After[l] # "loop"
        BY <2>4 DEF After, Lists
      <3> QED BY <1>4, <2>4, <3>1 DEF Fetched, Types
    <2> QED BY <2>3, <2>4
  <1>5. ASSUME NEW t \in Threads, NEW l \in Lists,
               Fetch(t, l) \/ FetchEmpty(t, l) \/ FetchRaises(t, l)
        PROVE  LoopTodo'
    <2>1. CASE Fetch(t, l)
      BY <2>1, <1>4 DEF Fetch, Types, Books
    <2>2. CASE FetchEmpty(t, l)
      BY <2>2, <1>4, EmptyBooksType DEF FetchEmpty
    <2>3. CASE FetchRaises(t, l)
      BY <2>3 DEF FetchRaises, Leave, Types
    <2> QED BY <1>5, <2>1, <2>2, <2>3
  <1> QED BY <1>1, <1>2, <1>3, <1>5 DEF Next

(* Every step of M17 and its environment keeps the types.                   *)
LEMMA NextTypes == ASSUME Types, LoopTodo, [Next]_vars PROVE Types'
  <1>1. CASE UNCHANGED vars
    BY <1>1 DEF vars, registryVars, lifeVars, cycleVars, Types
  <1> QED BY <1>1, LifeTypes, CycleTypes, FetchTypes DEF Next, ThreadStep, LoopTodo

(* The typing of every variable is invariant.                               *)
LEMMA TypesInvariant == Spec => [](Types /\ LoopTodo)
  <1>1. Init => Types /\ LoopTodo
    BY InitTypes DEF Init, LoopTodo
  <1>2. Types /\ LoopTodo /\ [Next]_vars => (Types /\ LoopTodo)'
    BY NextTypes, LoopTodoStep
  <1> QED BY <1>1, <1>2, PTL DEF Spec

(* TypeOK holds for every set of symbols, rows, timers and callers.         *)
THEOREM TypeCorrect == Spec => []TypeOK
  <1>1. Types => TypeOK
    BY DEF Types, TypeOK, Books, Labels
  <1> QED BY <1>1, TypesInvariant, PTL

(* In every reachable state the differ reports exactly as promised, for     *)
(* lists with several rows of a symbol or an order too.                     *)
THEOREM DiffAlwaysExact == Spec => []DiffExact
  <1>1. Types => DiffExact
    <2> SUFFICES ASSUME Types PROVE DiffExact
      OBVIOUS
    <2>1. /\ book["bpos"] \in Positions /\ book["ipos"] \in Positions
          /\ book["bord"] \in Orders /\ book["iord"] \in Orders
      BY DEF Types, Books, Lists, Rows
    <2> QED BY <2>1, PositionsDiffer, OrdersDiffer DEF DiffExact
  <1> QED BY <1>1, TypesInvariant, PTL

-----------------------------------------------------------------------------
(* The surroundings are chosen once.                                        *)
LEMMA EnvFixed == ASSUME [Next]_vars PROVE env' = env
  BY DEF Next, vars, BookChanges, RedisToggles, Crash, Start, Stop, ThreadStep, CheckMismatch,
         BlockKey, ClearStale, ComputeStale, EndCycle, ScheduleNext, Fire, CallerCycle,
         Fetch, FetchEmpty, FetchRaises

(* The timers form one chain: the one that waits is self._timer.            *)
Chain ==
    /\ \A t \in Timers : pc[t] = "armed" => timer = t /\ running
    /\ \A t, u \in Timers : pc[t] # "idle" /\ pc[u] # "idle" => t = u

(* They do as long as start() has not met the cycle of an earlier timer.    *)
ChainUnlessOverlap ==
    /\ ~env.callers => \A t \in Callers : pc[t] = "idle"
    /\ ~overlap => Chain

(* Only start() beside a running cycle creates a second chain.              *)
LEMMA ChainStep == ASSUME Types, ChainUnlessOverlap, [Next]_vars PROVE ChainUnlessOverlap'
  <1> USE DEF ChainUnlessOverlap, Chain
  <1>1. CASE BookChanges \/ RedisToggles \/ UNCHANGED vars
    BY <1>1 DEF BookChanges, RedisToggles, vars, lifeVars, cycleVars
  <1>2. CASE Crash
    BY <1>2 DEF Crash, Threads
  <1>3. CASE Start
    <2>1. CASE running
      BY <1>3, <2>1 DEF Start
    <2>2. CASE ~running
      <3> DEFINE t == CHOOSE t \in Timers : pc[t] = "idle"
      <3>1. t \in Timers /\ pc[t] = "idle"
        BY <1>3, <2>2 DEF Start
      <3>2. /\ pc' = [pc EXCEPT ![t] = "armed"] /\ timer' = t /\ running'
            /\ overlap' = (overlap \/ \E u \in Timers : pc[u] # "idle") /\ env' = env
        BY <1>3, <2>2 DEF Start, Arm
      <3> HIDE DEF t
      <3> QED BY <3>1, <3>2, AgentAssumption DEF Types, Threads
    <2> QED BY <2>1, <2>2
  <1>4. CASE Stop
    BY <1>4 DEF Stop, Types, Threads
  <1>5. ASSUME NEW t \in Threads, ThreadStep(t) PROVE ChainUnlessOverlap'
    BY <1>5, AgentAssumption DEF ThreadStep, CheckMismatch, BlockKey, ClearStale, ComputeStale,
                EndCycle, ScheduleNext, Fire, Leave, Arm, Types, Threads, lifeVars
  <1>6. ASSUME NEW t \in Threads, CallerCycle(t) PROVE ChainUnlessOverlap'
    BY <1>6, AgentAssumption DEF CallerCycle, Types, Threads, lifeVars
  <1>7. ASSUME NEW t \in Threads, NEW l \in Lists,
               Fetch(t, l) \/ FetchEmpty(t, l) \/ FetchRaises(t, l)
        PROVE  ChainUnlessOverlap'
    <2>1. PICK label \in Labels \ {"armed"} : pc' = [pc EXCEPT ![t] = label]
      <3>1. After[l] \in Labels \ {"armed"} /\ Leave(t) \in Labels \ {"armed"}
        BY DEF After, Leave, Labels, Lists
      <3>2. pc' = [pc EXCEPT ![t] = After[l]] \/ pc' = [pc EXCEPT ![t] = Leave(t)]
        BY <1>7 DEF Fetch, FetchEmpty, FetchRaises, Fetched
      <3> QED BY <3>1, <3>2
    <2>2. pc[t] # "idle" /\ pc[t] # "armed"
      BY <1>7 DEF Fetch, FetchEmpty, FetchRaises, Lists
    <2>3. UNCHANGED <<env, lifeVars>>
      BY <1>7 DEF Fetch, FetchEmpty, FetchRaises
    <2> QED BY <2>1, <2>2, <2>3 DEF Types, Threads, lifeVars
  <1> QED BY <1>1, <1>2, <1>3, <1>4, <1>5, <1>6, <1>7 DEF Next

(* stop() is final: however often the agent is started and stopped, and     *)
(* wherever in a cycle stop() falls, no timer is left waiting unless        *)
(* start() met the cycle of an earlier timer.                               *)
THEOREM StopIsFinal == Spec => []StopQuiesces
  <1>1. Init => ChainUnlessOverlap
    BY DEF Init, ChainUnlessOverlap, Chain, Threads
  <1>2. Types /\ ChainUnlessOverlap /\ [Next]_vars => ChainUnlessOverlap'
    BY ChainStep
  <1>3. ChainUnlessOverlap => StopQuiesces
    BY DEF ChainUnlessOverlap, Chain, StopQuiesces
  <1> QED BY <1>1, <1>2, <1>3, TypesInvariant, PTL DEF Spec

-----------------------------------------------------------------------------
(* What the registry holds against what the running cycle has still to do.  *)
Mark == redisBlocks \cup memory

Marks ==
    /\ (\A t \in Threads : pc[t] # "clear") => last \subseteq Mark
    /\ \A t \in Threads :
        /\ pc[t] # "loop" => unblocked[t] = {}
        /\ pc[t] = "loop" =>
            /\ unblocked[t] \cup MismatchKeys(todo[t]) \subseteq current[t]
            /\ current[t] \subseteq Mark \cup unblocked[t] \cup MismatchKeys(todo[t])
        /\ pc[t] = "clear" => current[t] \subseteq Mark /\ todo[t] \cap current[t] = {}

(* Only the timers of one chain run cycles.                                 *)
Serial == ~overlap /\ ~env.callers

(* The threads other than the one that runs the cycle are idle.             *)
LEMMA Alone ==
    ASSUME Serial, ChainUnlessOverlap, NEW t \in Threads, pc[t] # "idle"
    PROVE  t \in Timers /\ \A u \in Threads : u # t => pc[u] = "idle"
  BY DEF Threads, Serial, ChainUnlessOverlap, Chain

(* The diff starts a cycle's loop: every current key has its mismatch.      *)
LEMMA FetchedMarks ==
    ASSUME Types, Marks, Serial, ChainUnlessOverlap, NEW t \in Threads, NEW l \in Lists, NEW rows,
           pc[t] = l, Fetched(t, l, rows),
           UNCHANGED <<registryVars, last, unblocked>>
    PROVE  Marks'
  <1>1. \A u \in Threads : u # t => pc[u] = "idle" /\ pc'[u] = "idle"
    BY Alone DEF Fetched, Types, Lists
  <1>2. last \subseteq Mark /\ unblocked[t] = {}
    BY <1>1 DEF Marks, Lists
  <1>3. UNCHANGED <<last, Mark, unblocked>>
    BY DEF Mark, registryVars
  <1>4. pc'[t] = After[l]
    BY DEF Fetched, Types
  <1>5. CASE l = "iord"
    <2>1. pc'[t] = "loop" /\ current'[t] = MismatchKeys(todo'[t])
      BY <1>4, <1>5 DEF Fetched, Types, After
    <2> QED BY <1>1, <1>2, <1>3, <2>1 DEF Marks
  <1>6. CASE l # "iord"
    <2>1. pc'[t] \notin {"loop", "clear"}
      BY <1>4, <1>6 DEF After, Lists
    <2> QED BY <1>1, <1>2, <1>3, <2>1 DEF Marks
  <1> QED BY <1>5, <1>6

(* A step that neither enters nor leaves a loop, nor touches registry or    *)
(* cycle data, keeps the relation.                                          *)
LEMMA QuietMarks ==
    ASSUME Marks, UNCHANGED <<last, redisBlocks, memory, todo, unblocked, current>>,
           \A u \in Threads : (pc'[u] = "loop") = (pc[u] = "loop"),
           \A u \in Threads : (pc'[u] = "clear") = (pc[u] = "clear")
    PROVE  Marks'
  <1>1. UNCHANGED <<last, Mark, todo, unblocked, current>>
    BY DEF Mark
  <1>2. (\A t \in Threads : pc'[t] # "clear") => last' \subseteq Mark'
    BY <1>1 DEF Marks
  <1>3. ASSUME NEW t \in Threads
        PROVE  /\ pc'[t] # "loop" => unblocked'[t] = {}
               /\ pc'[t] = "loop" =>
                    /\ unblocked'[t] \cup MismatchKeys(todo'[t]) \subseteq current'[t]
                    /\ current'[t] \subseteq Mark' \cup unblocked'[t] \cup MismatchKeys(todo'[t])
               /\ pc'[t] = "clear" => current'[t] \subseteq Mark' /\ todo'[t] \cap current'[t] = {}
    <2>1. MismatchKeys(todo'[t]) = MismatchKeys(todo[t])
      BY <1>1
    <2> QED BY <1>1, <2>1 DEF Marks
  <1> QED BY <1>2, <1>3 DEF Marks

(* Every step keeps the relation between marks and remaining work, with     *)
(* Redis failing and the process crashing at any point.                     *)
LEMMA MarksStep ==
    ASSUME Serial, Types, LoopTodo, ChainUnlessOverlap, Marks, [Next]_vars
    PROVE  Marks'
  <1>1. CASE BookChanges \/ RedisToggles \/ UNCHANGED vars
    BY <1>1 DEF BookChanges, RedisToggles, vars, registryVars, cycleVars, Marks, Mark
  <1>2. CASE Crash
    BY <1>2 DEF Crash, Marks, Mark
  <1>3. CASE Start \/ Stop
    <2>1. \A u \in Threads : /\ (pc'[u] = "loop") = (pc[u] = "loop")
                            /\ (pc'[u] = "clear") = (pc[u] = "clear")
      BY <1>3 DEF Start, Stop, Arm, Types, Threads
    <2> QED BY <1>3, <2>1, QuietMarks DEF Start, Stop, registryVars
  <1>4. ASSUME NEW t \in Threads, Fire(t) \/ ScheduleNext(t) \/ CallerCycle(t) PROVE Marks'
    <2>1. \A u \in Threads : /\ (pc'[u] = "loop") = (pc[u] = "loop")
                            /\ (pc'[u] = "clear") = (pc[u] = "clear")
      BY <1>4 DEF Fire, ScheduleNext, CallerCycle, Arm, Types
    <2> QED BY <1>4, <2>1, QuietMarks DEF Fire, ScheduleNext, CallerCycle, registryVars
  <1>5. ASSUME NEW t \in Threads, NEW m \in todo[t], CheckMismatch(t, m) PROVE Marks'
    <2>1. pc[t] = "loop" /\ unblocked[t] = {} /\ m.key \in current[t]
      BY <1>5 DEF CheckMismatch, Marks, MismatchKeys
    <2>2. todo'[t] = todo[t] \ {m} /\ \A u \in Threads : u # t => todo'[u] = todo[u]
      BY <1>5 DEF CheckMismatch, Types
    <2>3. MismatchKeys(todo[t]) \subseteq MismatchKeys(todo'[t]) \cup {m.key}
      BY <2>2 DEF MismatchKeys
    <2>4. MismatchKeys(todo'[t]) \subseteq MismatchKeys(todo[t])
      BY <2>2 DEF MismatchKeys
    <2>5. /\ unblocked'[t] = IF is_blocked(m.key) THEN {} ELSE {m.key}
          /\ \A u \in Threads : u # t => unblocked'[u] = unblocked[u]
      BY <1>5 DEF CheckMismatch, Types
    <2>6. is_blocked(m.key) => m.key \in Mark
      BY DEF is_blocked, Mark
    <2>7. UNCHANGED <<pc, last, Mark, current>>
      BY <1>5 DEF CheckMismatch, Mark, registryVars
    <2>8. current'[t] \subseteq Mark' \cup unblocked'[t] \cup MismatchKeys(todo'[t])
      BY <2>1, <2>3, <2>5, <2>6, <2>7 DEF Marks
    <2>9. unblocked'[t] \cup MismatchKeys(todo'[t]) \subseteq current'[t]
      BY <2>1, <2>4, <2>5, <2>7 DEF Marks
    <2>10. pc'[t] = "loop" /\ UNCHANGED <<pc, last, Mark, current>>
      BY <2>1, <2>7
    <2>11. \A u \in Threads : u # t => UNCHANGED <<todo[u], unblocked[u]>>
      BY <2>2, <2>5
    <2> HIDE DEF Mark
    <2> QED BY <2>8, <2>9, <2>10, <2>11 DEF Marks
  <1>6. ASSUME NEW t \in Threads, NEW k \in Keys, BlockKey(t, k) PROVE Marks'
    <2>1. Mark' = Mark \cup {k} /\ UNCHANGED <<pc, last, todo, current>>
      BY <1>6 DEF BlockKey, block, Mark
    <2>2. unblocked[t] = {k} /\ unblocked'[t] = {}
      BY <1>6 DEF BlockKey, Types
    <2>3. \A u \in Threads : u # t => unblocked'[u] = unblocked[u]
      BY <1>6 DEF BlockKey, Types
    <2> QED BY <2>1, <2>2, <2>3 DEF Marks
  <1>7. ASSUME NEW t \in Threads, ComputeStale(t) PROVE Marks'
    <2>1. \A u \in Threads : u # t => pc[u] = "idle"
      BY <1>7, Alone DEF ComputeStale
    <2>2. pc[t] = "loop" /\ todo[t] = {} /\ unblocked[t] = {}
      BY <1>7 DEF ComputeStale
    <2>3. MismatchKeys(todo[t]) = {}
      BY <2>2 DEF MismatchKeys
    <2>4. pc'[t] = "clear" /\ todo'[t] = last \ current[t]
      BY <1>7 DEF ComputeStale, Types
    <2>5. \A u \in Threads : u # t => pc'[u] = "idle"
      BY <1>7, <2>1 DEF ComputeStale, Types
    <2>6. UNCHANGED <<last, Mark, unblocked, current>>
      BY <1>7 DEF ComputeStale, Mark, registryVars
    <2> QED BY <2>1, <2>2, <2>3, <2>4, <2>5, <2>6 DEF Marks
  <1>8. ASSUME NEW t \in Threads, NEW k \in Keys, ClearStale(t, k) PROVE Marks'
    <2>1. \A u \in Threads : u # t => pc[u] = "idle"
      BY <1>8, Alone DEF ClearStale
    <2>2. pc[t] = "clear" /\ k \in todo[t] /\ todo'[t] \subseteq todo[t]
      BY <1>8 DEF ClearStale, Types
    <2>3. Mark \ {k} \subseteq Mark'
      BY <1>8 DEF ClearStale, clear, Mark
    <2>4. UNCHANGED <<pc, last, unblocked, current>>
      BY <1>8 DEF ClearStale
    <2> QED BY <2>1, <2>2, <2>3, <2>4 DEF Marks
  <1>9. ASSUME NEW t \in Threads, EndCycle(t) PROVE Marks'
    <2>1. \A u \in Threads : u # t => pc[u] = "idle" /\ pc'[u] = "idle"
      BY <1>9, Alone DEF EndCycle, Types
    <2>2. pc[t] = "clear" /\ pc'[t] \notin {"loop", "clear"} /\ last' = current[t]
      BY <1>9 DEF EndCycle, Leave, Types
    <2>3. UNCHANGED <<Mark, unblocked>>
      BY <1>9 DEF EndCycle, Mark, registryVars
    <2> QED BY <2>1, <2>2, <2>3 DEF Marks
  <1>10. ASSUME NEW t \in Threads, NEW l \in Lists, Fetch(t, l) \/ FetchEmpty(t, l) PROVE Marks'
    <2>1. PICK rows : Fetched(t, l, rows)
      BY <1>10 DEF Fetch, FetchEmpty
    <2> QED BY <1>10, <2>1, FetchedMarks DEF Fetch, FetchEmpty
  <1>11. ASSUME NEW t \in Threads, NEW l \in Lists, FetchRaises(t, l) PROVE Marks'
    <2>1. \A u \in Threads : /\ (pc'[u] = "loop") = (pc[u] = "loop")
                            /\ (pc'[u] = "clear") = (pc[u] = "clear")
      BY <1>11 DEF FetchRaises, Leave, Types, Lists
    <2> QED BY <1>11, <2>1, QuietMarks DEF FetchRaises, registryVars
  <1> QED BY <1>1, <1>2, <1>3, <1>4, <1>5, <1>6, <1>7, <1>8, <1>9, <1>10, <1>11
          DEF Next, ThreadStep

(* A chain that start() doubled stays so until the process dies.            *)
LEMMA OverlapLatched == ASSUME Types, [Next]_vars, ~overlap' PROVE ~overlap \/ Crash
  BY DEF Types, Next, vars, BookChanges, RedisToggles, Start, Stop, ThreadStep, CheckMismatch,
         BlockKey, ClearStale, ComputeStale, EndCycle, ScheduleNext, Fire, CallerCycle,
         Fetch, FetchEmpty, FetchRaises, lifeVars

(* The relation is promised where one chain of timers runs the cycles.      *)
SerialMarks == Serial => Marks

(* Types, chain and marks together are inductive.                           *)
LEMMA MarksInvariant == Spec => [](Types /\ ChainUnlessOverlap /\ SerialMarks)
  <1>1. Init => ChainUnlessOverlap /\ SerialMarks
    BY DEF Init, ChainUnlessOverlap, Chain, Threads, SerialMarks, Marks, Mark
  <1>2. Types /\ LoopTodo /\ ChainUnlessOverlap /\ SerialMarks /\ [Next]_vars
            => ChainUnlessOverlap' /\ SerialMarks'
    <2> SUFFICES ASSUME Types, LoopTodo, ChainUnlessOverlap, SerialMarks, [Next]_vars, Serial'
                 PROVE  Marks'
      BY ChainStep DEF SerialMarks
    <2>1. CASE Crash
      BY <2>1 DEF Crash, Marks, Mark
    <2>2. CASE ~Crash
      <3>1. Serial
        BY <2>2, OverlapLatched, EnvFixed DEF Serial
      <3> QED BY <3>1, MarksStep DEF SerialMarks
    <2> QED BY <2>1, <2>2
  <1> QED BY <1>1, <1>2, TypesInvariant, PTL DEF Spec

(* A symbol the last cycle found mismatched keeps a block mark, though      *)
(* Redis fails and comes back and the process crashes at any step.          *)
THEOREM FlaggedKept == Spec => []FlaggedKeepsMark
  <1>1. SerialMarks => FlaggedKeepsMark
    BY DEF SerialMarks, Serial, Marks, Mark, FlaggedKeepsMark, InCycle
  <1> QED BY <1>1, MarksInvariant, PTL

-----------------------------------------------------------------------------
(* Redis and the process are reliable and one chain of timers runs cycles.  *)
Calm == Serial /\ ~env.outages /\ ~env.crashes

(* With Redis reliable nothing but the last cycle's keys, the running       *)
(* cycle's and those it has still to clear is marked.                       *)
Exact ==
    /\ redisUp /\ memory = {}
    /\ (\A t \in Threads : pc[t] \notin {"loop", "clear"}) => redisBlocks \subseteq last
    /\ \A t \in Threads :
        /\ pc[t] = "loop" => redisBlocks \subseteq last \cup current[t]
        /\ pc[t] = "clear" => redisBlocks \subseteq current[t] \cup todo[t]

(* A step that neither enters nor leaves a loop keeps the bound on marks.   *)
LEMMA QuietExact ==
    ASSUME Exact, UNCHANGED <<last, redisUp, redisBlocks, memory, todo, current>>,
           \A u \in Threads : (pc'[u] = "loop") = (pc[u] = "loop"),
           \A u \in Threads : (pc'[u] = "clear") = (pc[u] = "clear")
    PROVE  Exact'
  BY DEF Exact

(* Every step of a serial agent on a reliable Redis keeps the bound.        *)
LEMMA ExactStep ==
    ASSUME Calm, Types, ChainUnlessOverlap, Marks, Exact, [Next]_vars
    PROVE  Exact'
  <1> Serial
    BY DEF Calm
  <1>1. CASE BookChanges \/ UNCHANGED vars
    BY <1>1 DEF BookChanges, vars, registryVars, cycleVars, Exact
  <1>2. ~RedisToggles /\ ~Crash
    BY DEF RedisToggles, Crash, Calm
  <1>3. CASE Start \/ Stop
    <2>1. \A u \in Threads : /\ (pc'[u] = "loop") = (pc[u] = "loop")
                            /\ (pc'[u] = "clear") = (pc[u] = "clear")
      BY <1>3 DEF Start, Stop, Arm, Types, Threads
    <2> QED BY <1>3, <2>1, QuietExact DEF Start, Stop, registryVars
  <1>4. ASSUME NEW t \in Threads, Fire(t) \/ ScheduleNext(t) \/ CallerCycle(t) PROVE Exact'
    <2>1. \A u \in Threads : /\ (pc'[u] = "loop") = (pc[u] = "loop")
                            /\ (pc'[u] = "clear") = (pc[u] = "clear")
      BY <1>4 DEF Fire, ScheduleNext, CallerCycle, Arm, Types
    <2> QED BY <1>4, <2>1, QuietExact DEF Fire, ScheduleNext, CallerCycle, registryVars
  <1>5. ASSUME NEW t \in Threads, NEW m \in todo[t], CheckMismatch(t, m) PROVE Exact'
    <2>1. \A u \in Threads : u # t => pc[u] = "idle"
      BY <1>5, Alone DEF CheckMismatch
    <2>2. pc[t] = "loop" /\ UNCHANGED <<pc, last, redisUp, redisBlocks, memory, current>>
      BY <1>5 DEF CheckMismatch, registryVars
    <2> QED BY <2>1, <2>2 DEF Exact
  <1>6. ASSUME NEW t \in Threads, NEW k \in Keys, BlockKey(t, k) PROVE Exact'
    <2>1. pc[t] = "loop" /\ k \in current[t]
      BY <1>6 DEF BlockKey, Marks
    <2>2. \A u \in Threads : u # t => pc[u] = "idle"
      BY <2>1, Alone
    <2>3. redisBlocks' = redisBlocks \cup {k} /\ UNCHANGED <<pc, last, redisUp, memory, current>>
      BY <1>6 DEF BlockKey, block, Exact
    <2> QED BY <2>1, <2>2, <2>3 DEF Exact
  <1>7. ASSUME NEW t \in Threads, ComputeStale(t) PROVE Exact'
    <2>1. \A u \in Threads : u # t => pc[u] = "idle" /\ pc'[u] = "idle"
      BY <1>7, Alone DEF ComputeStale, Types
    <2>2. pc[t] = "loop" /\ pc'[t] = "clear" /\ todo'[t] = last \ current[t]
      BY <1>7 DEF ComputeStale, Types
    <2>3. UNCHANGED <<redisUp, redisBlocks, memory, current>>
      BY <1>7 DEF ComputeStale, registryVars
    <2> QED BY <2>1, <2>2, <2>3 DEF Exact
  <1>8. ASSUME NEW t \in Threads, NEW k \in Keys, ClearStale(t, k) PROVE Exact'
    <2>1. \A u \in Threads : u # t => pc[u] = "idle"
      BY <1>8, Alone DEF ClearStale
    <2>2. pc[t] = "clear" /\ todo'[t] = todo[t] \ {k}
      BY <1>8 DEF ClearStale, Types
    <2>3. redisBlocks' = redisBlocks \ {k} /\ memory' = {} /\ UNCHANGED <<pc, redisUp, current>>
      BY <1>8 DEF ClearStale, clear, Exact
    <2> QED BY <2>1, <2>2, <2>3 DEF Exact
  <1>9. ASSUME NEW t \in Threads, EndCycle(t) PROVE Exact'
    <2>1. \A u \in Threads : u # t => pc[u] = "idle" /\ pc'[u] = "idle"
      BY <1>9, Alone DEF EndCycle, Types
    <2>2. pc[t] = "clear" /\ pc'[t] \notin {"loop", "clear"} /\ last' = current[t] /\ todo[t] = {}
      BY <1>9 DEF EndCycle, Leave, Types
    <2>3. UNCHANGED <<redisUp, redisBlocks, memory>>
      BY <1>9 DEF EndCycle, registryVars
    <2> QED BY <2>1, <2>2, <2>3 DEF Exact
  <1>10. ASSUME NEW t \in Threads, NEW l \in Lists,
                Fetch(t, l) \/ FetchEmpty(t, l) \/ FetchRaises(t, l)
         PROVE  Exact'
    <2>1. pc[t] = l /\ UNCHANGED <<last, redisUp, redisBlocks, memory>>
      BY <1>10 DEF Fetch, FetchEmpty, FetchRaises, registryVars
    <2>2. \A u \in Threads : u # t => pc[u] = "idle" /\ pc'[u] = "idle"
      BY <1>10, <2>1, Alone DEF Fetch, FetchEmpty, FetchRaises, Fetched, Types, Lists
    <2>3. redisBlocks \subseteq last
      BY <2>1, <2>2 DEF Exact, Lists
    <2>4. pc'[t] # "clear"
      BY <1>10 DEF Fetch, FetchEmpty, FetchRaises, Fetched, After, Leave, Types, Lists
    <2> QED BY <2>1, <2>2, <2>3, <2>4 DEF Exact
  <1> QED BY <1>1, <1>2, <1>3, <1>4, <1>5, <1>6, <1>7, <1>8, <1>9, <1>10
          DEF Next, ThreadStep

(* Between cycles of a serial agent on a reliable Redis exactly the symbols *)
(* the last cycle found mismatched are blocked, for all books and failures  *)
(* of the providers.                                                        *)
THEOREM BlocksExact == Spec => []BlocksMatchLastCycle
  <1> DEFINE CalmExact == Calm => Exact
  <1>1. Init => CalmExact
    BY DEF Init, Exact
  <1>2. Types /\ ChainUnlessOverlap /\ SerialMarks /\ CalmExact /\ [Next]_vars => CalmExact'
    <2> SUFFICES ASSUME Types, ChainUnlessOverlap, SerialMarks, CalmExact, [Next]_vars, Calm'
                 PROVE  Exact'
      OBVIOUS
    <2>1. Calm
      BY OverlapLatched, EnvFixed DEF Calm, Serial, Crash
    <2> QED BY <2>1, ExactStep DEF SerialMarks, Calm
  <1>3. Types /\ SerialMarks /\ CalmExact => BlocksMatchLastCycle
    BY DEF Types, SerialMarks, Serial, Marks, Mark, Calm, Exact, BlocksMatchLastCycle, InCycle,
           is_blocked
  <1> HIDE DEF CalmExact
  <1> QED BY <1>1, <1>2, <1>3, MarksInvariant, PTL DEF Spec
=============================================================================
