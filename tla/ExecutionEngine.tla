--------------------------- MODULE ExecutionEngine ---------------------------
(***************************************************************************)
(* M14 order execution (shared/execution): ExecutionEngine.submit, the     *)
(* halt flag it reads, the dead-letter queue and the broker adapter.       *)
(*                                                                         *)
(* A call is one thread inside submit(); the engine is documented as safe  *)
(* for concurrent use, so calls interleave at every point where submit()   *)
(* talks to Redis, to the broker or sleeps.  Two calls may carry the same  *)
(* client_order_id.  Compliance (M13) is a nondeterministic verdict here;  *)
(* its rules are modelled on their own.                                    *)
(*                                                                         *)
(* The adapter is either the PaperBroker, which fails only before it       *)
(* records an order, or any adapter that keeps the contract of             *)
(* brokers/base.py, whose response may be lost after the order is booked.  *)
(***************************************************************************)
EXTENDS Integers, Sequences, FiniteSets

CONSTANTS
    Calls,           \* threads inside submit()
    Orders,          \* client_order_ids
    PriorityOrders,  \* orders with is_priority (SL exits, liquidations)
    Qty,             \* requested quantity of each order
    MaxRetries,      \* ExecutionEngine._max_retries
    Adapters,        \* the adapters under test: "paper", "contract"
    FailCount,       \* PaperBroker fail_count
    FillNum, FillDen, \* PaperBroker partial_fill_ratio (equal: full fills)
    NoCall

ASSUME ExecAssumption ==
    /\ PriorityOrders \subseteq Orders
    /\ Qty \in [Orders -> Nat \ {0}]
    /\ MaxRetries \in Nat
    /\ Adapters \subseteq {"paper", "contract"}
    /\ FailCount \in Nat
    /\ FillNum \in Nat /\ FillDen \in Nat \ {0} /\ FillNum <= FillDen
    /\ NoCall \notin Calls

VARIABLES
    pc,        \* where each call is in submit()
    order,     \* the order each call carries
    adapter,   \* the broker adapter the engine was built with
    attempt,   \* the loop counter of submit()
    excused,   \* ghost: calls that were past the pre-check when the halt came,
               \* or passed it while Redis could not be read
    report,    \* the FillReport a call returned
    book,      \* the broker's order book, by client_order_id
    accepted,  \* ghost: how often the broker took an order as a new one
    seq,       \* PaperBroker._seq, the last broker_order_id
    failures,  \* PaperBroker._remaining_failures
    dlq,       \* dlq:orders
    halted,    \* system:status:halted
    redisUp    \* Redis answers

callVars   == <<pc, order, adapter, attempt, excused, report>>
brokerVars == <<book, accepted, seq, failures>>
redisVars  == <<dlq, halted, redisUp>>
vars       == <<callVars, brokerVars, redisVars>>

NoReport == [status |-> "NONE", filled |-> 0, id |-> 0, attempts |-> 0]
NoEntry  == [status |-> "NONE", filled |-> 0, id |-> 0, by |-> NoCall]

Returned   == {"done", "raised"}
PCs        == {"idle", "compliance", "query", "place", "backoff", "deadletter"} \cup Returned
BookStatus == {"PLACED", "FILLED", "PARTIALLY_FILLED", "CANCELLED", "REJECTED"}

Init ==
    /\ pc = [c \in Calls |-> "idle"]
    /\ order \in [Calls -> Orders]
    /\ adapter \in Adapters
    /\ attempt = [c \in Calls |-> 0]
    /\ excused = {}
    /\ report = [c \in Calls |-> NoReport]
    /\ book = [o \in Orders |-> NoEntry]
    /\ accepted = [o \in Orders |-> 0]
    /\ seq = 0
    /\ failures = FailCount
    /\ dlq = <<>>
    /\ halted = FALSE
    /\ redisUp = TRUE

-----------------------------------------------------------------------------
(* Helpers of submit().                                                     *)

Goto(c, label) == pc' = [pc EXCEPT ![c] = label]

(* Mutant: a partial fill is not recognised as an existing order.           *)
BookedMutant(o) == book[o].status \in {"PLACED", "FILLED"}

Booked(o) == book[o].status # "NONE"

(* _HaltedFlag.is_halted: a Redis exception reads as "not halted".          *)
IsHalted == redisUp /\ halted

(* _make_rejected_fill: a REJECTED report with the attempts made so far.    *)
Reject(c, n) ==
    report' = [report EXCEPT ![c] =
        [status |-> "REJECTED", filled |-> 0, id |-> 0, attempts |-> n]]

(* Mutant: the report carries the latest broker_order_id.                   *)
FinalizeMutant(c, entry) ==
    /\ report' = [report EXCEPT ![c] =
            [status |-> entry.status, filled |-> entry.filled,
             id |-> seq, attempts |-> attempt[c]]]
    /\ Goto(c, "done")

(* _finalize: the broker's record with this call's attempt count.           *)
Finalize(c, entry) ==
    /\ report' = [report EXCEPT ![c] =
            [status |-> entry.status, filled |-> entry.filled,
             id |-> entry.id, attempts |-> attempt[c]]]
    /\ Goto(c, "done")

(* except BrokerTransientError: sleep and go round, or fall out of the loop. *)
TransientError(c) ==
    /\ Goto(c, IF attempt[c] <= MaxRetries THEN "backoff" ELSE "deadletter")
    /\ UNCHANGED report

-----------------------------------------------------------------------------
(* submit() up to the retry loop.                                           *)

PreCheckHalted(c) ==
    /\ pc[c] = "idle"
    /\ order[c] \notin PriorityOrders /\ IsHalted
    /\ Reject(c, 0)
    /\ Goto(c, "done")
    /\ UNCHANGED <<order, adapter, attempt, excused, brokerVars, redisVars>>

(* Mutant: the halt guard is dropped.                                       *)
PreCheckClearMutant(c) ==
    /\ pc[c] = "idle"
    /\ excused' = IF halted /\ ~redisUp THEN excused \cup {c} ELSE excused
    /\ Goto(c, "compliance")
    /\ UNCHANGED <<order, adapter, attempt, report, brokerVars, redisVars>>

PreCheckClear(c) ==
    /\ pc[c] = "idle"
    /\ order[c] \in PriorityOrders \/ ~IsHalted
    /\ excused' = IF halted /\ ~redisUp THEN excused \cup {c} ELSE excused
    /\ Goto(c, "compliance")
    /\ UNCHANGED <<order, adapter, attempt, report, brokerVars, redisVars>>

ComplianceReject(c) ==
    /\ pc[c] = "compliance"
    /\ Reject(c, 0)
    /\ Goto(c, "done")
    /\ UNCHANGED <<order, adapter, attempt, excused, brokerVars, redisVars>>

(* The first attempt goes straight to place_order.                          *)
ComplianceApprove(c) ==
    /\ pc[c] = "compliance"
    /\ attempt' = [attempt EXCEPT ![c] = 1]
    /\ Goto(c, "place")
    /\ UNCHANGED <<order, adapter, excused, report, brokerVars, redisVars>>

(* Mutant: the loop counter is not advanced.                                *)
BackoffDoneMutant(c) ==
    /\ pc[c] = "backoff"
    /\ Goto(c, "query")
    /\ UNCHANGED <<order, adapter, attempt, excused, report, brokerVars, redisVars>>

(* time.sleep returns; every later attempt starts with query_order.         *)
BackoffDone(c) ==
    /\ pc[c] = "backoff"
    /\ attempt' = [attempt EXCEPT ![c] = @ + 1]
    /\ Goto(c, "query")
    /\ UNCHANGED <<order, adapter, excused, report, brokerVars, redisVars>>

QueryOrder(c) ==
    /\ pc[c] = "query"
    /\ IF Booked(order[c])
          THEN Finalize(c, book[order[c]])
          ELSE Goto(c, "place") /\ UNCHANGED report
    /\ UNCHANGED <<order, adapter, attempt, excused, brokerVars, redisVars>>

-----------------------------------------------------------------------------
(* place_order.                                                             *)

(* The order is already in the book: both adapters return that record.      *)
PlaceExisting(c) ==
    /\ pc[c] = "place"
    /\ Booked(order[c])
    /\ Finalize(c, book[order[c]])
    /\ UNCHANGED <<order, adapter, attempt, excused, brokerVars, redisVars>>

(* Mutant: the floor of one share is forgotten.                             *)
PaperFillQtyMutant(o) == (Qty[o] * FillNum) \div FillDen

(* max(1, int(requested_qty * ratio))                                       *)
PaperFillQty(o) ==
    LET scaled == (Qty[o] * FillNum) \div FillDen
    IN  IF scaled < 1 THEN 1 ELSE scaled

FilledStatus(o, n) == IF n = Qty[o] THEN "FILLED" ELSE "PARTIALLY_FILLED"

PaperEntry(c) ==
    LET o == order[c]
        n == PaperFillQty(o)
    IN  [status |-> FilledStatus(o, n), filled |-> n, id |-> seq + 1, by |-> c]

(* Record a new order in the book under the next broker_order_id.           *)
Accept(o, entry) ==
    /\ book' = [book EXCEPT ![o] = entry]
    /\ accepted' = [accepted EXCEPT ![o] = @ + 1]
    /\ seq' = seq + 1

(* A simulated failure is raised before the order is recorded.              *)
PaperFail(c) ==
    /\ adapter = "paper"
    /\ pc[c] = "place"
    /\ ~Booked(order[c])
    /\ failures > 0
    /\ failures' = failures - 1
    /\ TransientError(c)
    /\ UNCHANGED <<order, adapter, attempt, excused, book, accepted, seq, redisVars>>

PaperPlace(c) ==
    /\ adapter = "paper"
    /\ pc[c] = "place"
    /\ ~Booked(order[c])
    /\ failures = 0
    /\ Accept(order[c], PaperEntry(c))
    /\ Finalize(c, PaperEntry(c))
    /\ UNCHANGED <<order, adapter, attempt, excused, failures, redisVars>>

(* A contract adapter records the order and answers PLACED, REJECTED or a   *)
(* fill; a rejected order keeps its record under its broker_order_id.       *)
ContractEntries(c) ==
    LET o == order[c]
        fills == {[status |-> FilledStatus(o, n), filled |-> n, id |-> seq + 1, by |-> c]
                    : n \in 1..Qty[o]}
    IN  fills \cup {[status |-> s, filled |-> 0, id |-> seq + 1, by |-> c]
                       : s \in {"PLACED", "REJECTED"}}

ContractPlace(c) ==
    /\ adapter = "contract"
    /\ pc[c] = "place"
    /\ ~Booked(order[c])
    /\ \E entry \in ContractEntries(c) :
          /\ Accept(order[c], entry)
          /\ Finalize(c, entry)
    /\ UNCHANGED <<order, adapter, attempt, excused, failures, redisVars>>

(* The order is booked but the response is lost: a timeout to the engine.   *)
ContractResponseLost(c) ==
    /\ adapter = "contract"
    /\ pc[c] = "place"
    /\ ~Booked(order[c])
    /\ \E entry \in ContractEntries(c) : Accept(order[c], entry)
    /\ TransientError(c)
    /\ UNCHANGED <<order, adapter, attempt, excused, failures, redisVars>>

(* The request, or a query_order, fails before it reaches the broker.       *)
ContractUnreachable(c) ==
    /\ adapter = "contract"
    /\ pc[c] \in {"place", "query"}
    /\ TransientError(c)
    /\ UNCHANGED <<order, adapter, attempt, excused, brokerVars, redisVars>>

(* BrokerPermanentError: break out of the loop without a retry.             *)
ContractPermanent(c) ==
    /\ adapter = "contract"
    /\ pc[c] = "place"
    /\ ~Booked(order[c])
    /\ Goto(c, "deadletter")
    /\ UNCHANGED <<order, adapter, attempt, excused, report, brokerVars, redisVars>>

-----------------------------------------------------------------------------
(* Dead-lettering after the loop: rpush succeeds, or raises out of submit(). *)

DeadLetter(c) ==
    /\ pc[c] = "deadletter"
    /\ redisUp
    /\ dlq' = Append(dlq, [order |-> order[c], call |-> c, attempts |-> attempt[c]])
    /\ Reject(c, attempt[c])
    /\ Goto(c, "done")
    /\ UNCHANGED <<order, adapter, attempt, excused, brokerVars, halted, redisUp>>

(* Mutant: a failed rpush is swallowed and REJECTED returned.               *)
DeadLetterRaisesMutant(c) ==
    /\ pc[c] = "deadletter"
    /\ ~redisUp
    /\ Reject(c, attempt[c])
    /\ Goto(c, "done")
    /\ UNCHANGED <<order, adapter, attempt, excused, brokerVars, redisVars>>

DeadLetterRaises(c) ==
    /\ pc[c] = "deadletter"
    /\ ~redisUp
    /\ Goto(c, "raised")
    /\ UNCHANGED <<order, adapter, attempt, excused, report, brokerVars, redisVars>>

-----------------------------------------------------------------------------
(* The rest of the system, as the engine sees it.                           *)

(* cancel_order: refused once any quantity is filled.                       *)
CancelOrder(o) ==
    /\ book[o].status = "PLACED"
    /\ book' = [book EXCEPT ![o].status = "CANCELLED"]
    /\ UNCHANGED <<callVars, accepted, seq, failures, redisVars>>

(* A working order fills at the exchange.                                   *)
BrokerFill(o) ==
    /\ book[o].status = "PLACED"
    /\ \E n \in 1..Qty[o] :
          book' = [book EXCEPT ![o].status = FilledStatus(o, n), ![o].filled = n]
    /\ UNCHANGED <<callVars, accepted, seq, failures, redisVars>>

(* KillSwitchManager.trigger sets the key; nothing in the program clears it. *)
KillSwitch ==
    /\ redisUp /\ ~halted
    /\ halted' = TRUE
    /\ excused' = {c \in Calls : pc[c] \notin {"idle"} \cup Returned}
    /\ UNCHANGED <<pc, order, adapter, attempt, report, brokerVars, dlq, redisUp>>

RedisToggles ==
    /\ redisUp' = ~redisUp
    /\ UNCHANGED <<callVars, brokerVars, dlq, halted>>

Step(c) ==
    \/ PreCheckHalted(c) \/ PreCheckClear(c)
    \/ ComplianceReject(c) \/ ComplianceApprove(c)
    \/ BackoffDone(c) \/ QueryOrder(c)
    \/ PlaceExisting(c) \/ PaperFail(c) \/ PaperPlace(c)
    \/ ContractPlace(c) \/ ContractResponseLost(c)
    \/ ContractUnreachable(c) \/ ContractPermanent(c)
    \/ DeadLetter(c) \/ DeadLetterRaises(c)

Next ==
    \/ \E c \in Calls : Step(c)
    \/ \E o \in Orders : CancelOrder(o) \/ BrokerFill(o)
    \/ KillSwitch
    \/ RedisToggles

Spec == Init /\ [][Next]_vars

(* A thread that has entered submit() keeps running: broker calls return    *)
(* and sleeps end.                                                          *)
FairSpec == Spec /\ \A c \in Calls : WF_vars(pc[c] # "idle" /\ Step(c))

-----------------------------------------------------------------------------
(* Properties.                                                              *)

Entry == [status : BookStatus, filled : Nat, id : Nat \ {0}, by : Calls]
Report == [status : BookStatus \cup {"NONE"}, filled : Nat,
           id : Nat, attempts : 0..(MaxRetries + 1)]
DlqEntry == [order : Orders, call : Calls, attempts : 1..(MaxRetries + 1)]

(* Every variable has its type; the attempt counter of submit() never       *)
(* passes MAX_RETRIES + 1.                                                  *)
TypeOK ==
    /\ pc \in [Calls -> PCs]
    /\ order \in [Calls -> Orders]
    /\ adapter \in Adapters
    /\ attempt \in [Calls -> 0..(MaxRetries + 1)]
    /\ excused \subseteq Calls
    /\ report \in [Calls -> Report]
    /\ book \in [Orders -> Entry \cup {NoEntry}]
    /\ accepted \in [Orders -> Nat]
    /\ seq \in Nat
    /\ failures \in 0..FailCount
    /\ dlq \in Seq(DlqEntry)
    /\ halted \in BOOLEAN /\ redisUp \in BOOLEAN

(* However many threads submit it and however often each retries after a    *)
(* lost response, the broker takes a client_order_id as a new order at most *)
(* once (engine.py: "never blind-retry", base.py: idempotency contract).    *)
NoDoubleFill == \A o \in Orders : accepted[o] <= 1

(* Every report a call returns with a broker_order_id names the one record  *)
(* the broker keeps, claims no more than was filled, and stays true after   *)
(* later fills and cancels: two submissions of a client_order_id cannot be  *)
(* told of two different broker orders.                                     *)
ReportsMatchBook ==
    \A c \in Calls : report[c].id # 0 =>
        /\ book[order[c]].status # "NONE"
        /\ report[c].id = book[order[c]].id
        /\ report[c].filled <= book[order[c]].filled
        /\ report[c].filled > 0 => report[c].status = book[order[c]].status

(* A filled quantity is between 1 and the quantity asked for, and the       *)
(* status says FILLED exactly when it is all of it: sl_quantity, which is   *)
(* the filled quantity, never over-hedges.                                  *)
NeverOverHedged ==
    \A o \in Orders :
        /\ book[o].status \in {"FILLED", "PARTIALLY_FILLED"} => book[o].filled \in 1..Qty[o]
        /\ book[o].status = "FILLED" <=> book[o].filled = Qty[o]

(* The call that dead-letters an order is not one whose order the broker    *)
(* holds (dead_letter.py: "permanently-failed orders"; the operator may     *)
(* reprocess what is in the queue).                                         *)
DeadLetteredIsDead ==
    \A i \in DOMAIN dlq : book[dlq[i].order].by # dlq[i].call

(* A call whose broker calls all raised, and which returned the engine's    *)
(* own REJECTED report (no broker_order_id, at least one attempt), left     *)
(* exactly one dead-letter entry with its attempt count.  Every other call  *)
(* left none: one refused before the broker, one that raised, and one that  *)
(* returned a broker record, the broker's own REJECTED among them, which    *)
(* submit() takes as an answer and does not dead-letter.  With the          *)
(* PaperBroker, which raises only before it records, no call dead-letters   *)
(* an order that it has on the broker's book, however the failures are      *)
(* spread over the threads.                                                 *)
DeadLettersAccounted ==
    /\ \A c \in Calls :
        LET mine == {i \in DOMAIN dlq : dlq[i].call = c}
        IN  IF report[c].status = "REJECTED" /\ report[c].id = 0 /\ report[c].attempts > 0
            THEN \E i \in DOMAIN dlq :
                    mine = {i} /\ dlq[i].attempts = report[c].attempts
            ELSE mine = {}
    /\ adapter = "paper" => DeadLetteredIsDead

(* After the halted key is set, a non-priority order reaches the broker     *)
(* only through a call that was already past the pre-check of submit(), or  *)
(* that could not read Redis.                                               *)
HaltContained ==
    [][\A o \in Orders \ PriorityOrders :
          accepted'[o] # accepted[o] /\ halted => book'[o].by \in excused]_vars

(* A submission that has begun returns: filled, rejected or raised.         *)
SubmitReturns ==
    \A c \in Calls : pc[c] = "compliance" ~> pc[c] \in Returned
=============================================================================
