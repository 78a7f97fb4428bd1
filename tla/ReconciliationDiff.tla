------------------------- MODULE ReconciliationDiff -------------------------
(***************************************************************************)
(* M17 shared/reconciliation/differ.py: the pure comparison of the         *)
(* broker's lists with the internal ones.                                  *)
(*                                                                         *)
(* A list is a sequence of rows.  diff_positions and diff_orders turn each *)
(* list into a dictionary first, keyed by EXCHANGE:SYMBOL or by client     *)
(* order id, so of several rows with one key (a broker lists a symbol once *)
(* per product) only the last is compared.  Prices are integers.           *)
(***************************************************************************)
EXTENDS Integers, Sequences

CONSTANTS
    Keys,           \* EXCHANGE:SYMBOL
    OrderIds,       \* client_order_id
    Quantities,
    Prices,
    Statuses,
    NoRow,
    ToleranceInv    \* 1 / RECONCILIATION_TOLERANCE_PRICE_PCT

ASSUME DiffAssumption ==
    /\ Quantities \subseteq Int /\ Prices \subseteq Int
    /\ ToleranceInv \in Nat \ {0}
    /\ NoRow \notin [key : Keys, qty : Quantities, price : Prices]
    /\ NoRow \notin [id : OrderIds, key : Keys, status : Statuses]

Position == [key : Keys, qty : Quantities, price : Prices]
Order == [id : OrderIds, key : Keys, status : Statuses]
Positions == Seq(Position)
Orders == Seq(Order)

(* The value a dict comprehension leaves under a key: that of the last of   *)
(* the rows ns, NoRow when there is none.                                   *)
LastOf(list, ns) ==
    LET latest == {n \in ns : \A m \in ns : m <= n}
    IN  IF latest = {} THEN NoRow ELSE list[CHOOSE n \in latest : TRUE]

(* Mutant: the first row of a symbol wins.                                  *)
PositionMapMutant(list) ==
    [k \in Keys |->
        LET ns == {n \in DOMAIN list : list[n].key = k}
        IN  IF ns = {} THEN NoRow ELSE list[CHOOSE n \in ns : \A m \in ns : n <= m]]

PositionMap(list) ==
    [k \in Keys |-> LastOf(list, {n \in DOMAIN list : list[n].key = k})]

OrderMap(list) ==
    [o \in OrderIds |-> LastOf(list, {n \in DOMAIN list : list[n].id = o})]

(* str.upper on the status strings the adapters use.                        *)
Upper(status) ==
    CASE status = "open" -> "OPEN"
      [] status = "complete" -> "COMPLETE"
      [] OTHER -> status

Abs(n) == IF n < 0 THEN -n ELSE n

Mismatch(keys, field) == {[key |-> k, field |-> field] : k \in keys}

(* Mutant: a quantity is compared only while both sides hold something.     *)
QuantityDiffersMutant(b, i, k) ==
    /\ i[k] # NoRow /\ b[k] # NoRow
    /\ b[k].qty # i[k].qty /\ b[k].qty # 0

QuantityDiffers(b, i, k) ==
    /\ i[k] # NoRow /\ b[k] # NoRow
    /\ b[k].qty # i[k].qty

(* No price is compared when the internal average is zero or negative.      *)
PriceDiffers(b, i, k) ==
    /\ i[k] # NoRow /\ b[k] # NoRow
    /\ i[k].price > 0
    /\ Abs(b[k].price - i[k].price) * ToleranceInv > i[k].price

diff_positions(broker, internal) ==
    LET b == PositionMap(broker)
        i == PositionMap(internal)
    IN
    UNION { Mismatch({k \in Keys : i[k] # NoRow /\ b[k] = NoRow /\ i[k].qty # 0},
                     "POSITION_MISSING"),
            Mismatch({k \in Keys : QuantityDiffers(b, i, k)}, "QUANTITY"),
            Mismatch({k \in Keys : PriceDiffers(b, i, k)}, "AVG_PRICE"),
            Mismatch({k \in Keys : i[k] = NoRow /\ b[k] # NoRow /\ b[k].qty # 0},
                     "UNEXPECTED_POSITION") }

(* An order is charged to the symbol of the side that knows it, the         *)
(* internal one when both do.                                               *)
diff_orders(broker, internal) ==
    LET b == OrderMap(broker)
        i == OrderMap(internal)
    IN
    UNION { {[key |-> i[o].key, field |-> "ORDER_MISSING"] :
                o \in {o \in OrderIds : i[o] # NoRow /\ b[o] = NoRow}},
            {[key |-> i[o].key, field |-> "ORDER_STATUS"] :
                o \in {o \in OrderIds : /\ i[o] # NoRow /\ b[o] # NoRow
                                        /\ Upper(b[o].status) # Upper(i[o].status)}},
            {[key |-> b[o].key, field |-> "UNEXPECTED_ORDER"] :
                o \in {o \in OrderIds : i[o] = NoRow /\ b[o] # NoRow}} }

MismatchKeys(ms) == {m.key : m \in ms}

-----------------------------------------------------------------------------
(* What the differ promises, stated on the lists and without its cases.     *)

(* The last row a list has for symbol k, as a set of at most one row.       *)
LastRows(list, k) ==
    {list[n] : n \in {n \in DOMAIN list :
        list[n].key = k /\ \A m \in DOMAIN list : m > n => list[m].key # k}}

(* The non-zero quantities in a set of rows.                                *)
Held(rows) == {r.qty : r \in rows} \ {0}

(* The broker's average price is off by more than the tolerance, measured   *)
(* on a positive internal average.                                          *)
PriceDrift(brows, irows) ==
    \E b \in brows, i \in irows :
        i.price > 0 /\ Abs(b.price - i.price) * ToleranceInv > i.price

Drift(brows, irows) == Held(brows) # Held(irows) \/ PriceDrift(brows, irows)

(* The statuses, in capitals, of the last row a list has for an order.      *)
LastStatus(list, o) ==
    {Upper(list[n].status) : n \in {n \in DOMAIN list :
        list[n].id = o /\ \A m \in DOMAIN list : m > n => list[m].id # o}}

(* A symbol is reported exactly when its last rows drift: in the quantity   *)
(* held, an absent row counting as zero, or in the price.                   *)
PositionsExact(broker, internal) ==
    \A k \in Keys :
        k \in MismatchKeys(diff_positions(broker, internal))
            <=> Drift(LastRows(broker, k), LastRows(internal, k))

(* There is a report on orders exactly when the last rows of some order     *)
(* differ in status, letter case aside, or one side does not list it.       *)
OrdersExact(broker, internal) ==
    diff_orders(broker, internal) # {}
        <=> \E o \in OrderIds : LastStatus(broker, o) # LastStatus(internal, o)

(* No two rows of a list have the same symbol.                              *)
OneRowEach(list) ==
    \A m, n \in DOMAIN list : list[m].key = list[n].key => m = n
=============================================================================
