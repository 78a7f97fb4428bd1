----------------------------- MODULE MCExecution -----------------------------
(* Instances of ExecutionEngine for TLC.                                    *)
EXTENDS ExecutionEngine

CONSTANTS entry, exit

MCOrders == {entry, exit}
MCQty == [o \in MCOrders |-> IF o = entry THEN 3 ELSE 1]
=============================================================================
