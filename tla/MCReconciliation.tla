-------------------------- MODULE MCReconciliation --------------------------
(* Instances of Reconciliation for TLC.                                     *)
EXTENDS Reconciliation

CONSTANTS k1, k2, o1, t1, t2, c1

MCKeys == {k1, k2}
MCOrderIds == {o1}
MCTimers == {t1, t2}
MCCallers == {c1}

Row(k, q, p) == [key |-> k, qty |-> q, price |-> p]
OrderRow(k, s) == [id |-> o1, key |-> k, status |-> s]

NoRows == {<<>>}
OneSymbol == NoRows \cup {<<Row(k1, 1, 1000)>>}
TwoSymbols == OneSymbol \cup {<<Row(k1, 1, 1000), Row(k2, 1, 1000)>>}

(* One row with any quantity and price, pairs of rows of one symbol, and    *)
(* such a pair with another symbol's row between.                           *)
SingleRows == NoRows \cup {<<row>> : row \in [key : {k1}, qty : Quantities, price : Prices]}
TwoProducts ==
    LET rows == {Row(k1, 0, 1000), Row(k1, 1, 1002)}
    IN  {<<r, s>> : r \in rows, s \in rows}
        \cup {<<Row(k1, 1, 1000), Row(k2, 1, 1000), Row(k1, 0, 1000)>>}

(* An order in either letter case, and one listed twice.                    *)
OrderLists ==
    NoRows \cup {<<OrderRow(k1, s)>> : s \in {"open", "OPEN"}}
             \cup {<<OrderRow(k1, "open"), OrderRow(k2, "PENDING")>>}

Quiet == [positions |-> OneSymbol, orders |-> NoRows, moves |-> TRUE, raises |-> FALSE,
          blind |-> FALSE, outages |-> FALSE, crashes |-> FALSE, callers |-> FALSE,
          starts |-> 1]

(* The agent is stopped and started again.                                  *)
Restarted == {[Quiet EXCEPT !.starts = MaxStarts]}

(* The broker lists a symbol once per product.                              *)
Products == {[Quiet EXCEPT !.positions = SingleRows \cup TwoProducts,
                            !.moves = FALSE, !.crashes = TRUE]}

(* Two symbols with providers that raise; a broker that answers with empty  *)
(* lists; Redis outages; a square-off caller with crashes; orders that      *)
(* change.                                                                  *)
MCEnvironments ==
    {[Quiet EXCEPT !.positions = TwoSymbols, !.raises = TRUE],
     [Quiet EXCEPT !.blind = TRUE, !.raises = TRUE],
     [Quiet EXCEPT !.positions = (TwoSymbols \ OneSymbol) \cup NoRows, !.outages = TRUE],
     [Quiet EXCEPT !.callers = TRUE, !.crashes = TRUE, !.raises = TRUE],
     [Quiet EXCEPT !.positions = NoRows, !.orders = OrderLists]}
    \cup Restarted \cup Products
=============================================================================
