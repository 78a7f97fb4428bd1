------------------------ MODULE ExecutionEngineProofs ------------------------
(***************************************************************************)
(* Proofs that submit() never double-fills an order, that its reports      *)
(* agree with the broker's book, and that a halt is contained, for any     *)
(* number of threads, orders and retries and for both kinds of adapter.    *)
(***************************************************************************)
EXTENDS ExecutionEngine, TLAPS

Active == {"compliance", "query", "place", "backoff", "deadletter"}
InLoop == {"query", "place", "backoff", "deadletter"}

(* Inside the retry loop at least one attempt has been counted, and a call  *)
(* sleeps only if it may still retry.                                       *)
AttemptsCounted ==
    \A c \in Calls :
        /\ pc[c] \in InLoop => attempt[c] >= 1
        /\ pc[c] = "backoff" => attempt[c] <= MaxRetries

(* The broker took an order as new once if the book holds it, else never;   *)
(* a working order has no fill yet.                                         *)
BookCounts ==
    \A o \in Orders :
        /\ accepted[o] = IF Booked(o) THEN 1 ELSE 0
        /\ book[o].status = "PLACED" => book[o].filled = 0

(* Once halted, a non-priority call past the pre-check is an excused one.   *)
ActiveExcused ==
    halted => \A c \in Calls :
        order[c] \notin PriorityOrders /\ pc[c] \in Active => c \in excused

IInv == TypeOK /\ AttemptsCounted /\ BookCounts /\ ReportsMatchBook /\ ActiveExcused

(* A fill of between one share and the whole order is a legal book entry.   *)
LEMMA FilledStatusType ==
    ASSUME NEW o \in Orders, NEW n \in Nat
    PROVE  FilledStatus(o, n) \in BookStatus \ {"PLACED"}
  BY DEF FilledStatus, BookStatus

(* What PaperBroker records is a book entry with at least one share filled. *)
LEMMA PaperEntryType ==
    ASSUME TypeOK, NEW c \in Calls
    PROVE  /\ PaperEntry(c) \in Entry
           /\ PaperEntry(c).status # "PLACED"
           /\ PaperEntry(c).by = c
  <1> DEFINE o == order[c]
  <1>1. o \in Orders
    BY DEF TypeOK
  <1>2. Qty[o] \in Nat /\ FillNum \in Nat /\ FillDen \in Nat \ {0}
    BY <1>1, ExecAssumption
  <1>3. Qty[o] * FillNum \in Nat
    BY <1>2
  <1> DEFINE p == Qty[o] * FillNum
  <1>4. p \div FillDen \in Int
    <2> HIDE DEF p
    <2> QED BY <1>2, <1>3 DEF p
  <1>5. PaperFillQty(o) \in Nat
    BY <1>4 DEF PaperFillQty
  <1>6. FilledStatus(o, PaperFillQty(o)) \in BookStatus \ {"PLACED"}
    BY <1>1, <1>5, FilledStatusType
  <1> QED
    BY <1>5, <1>6 DEF PaperEntry, Entry, TypeOK

(* What a contract adapter may record is a book entry; PLACED means no fill. *)
LEMMA ContractEntryType ==
    ASSUME TypeOK, NEW c \in Calls, NEW e \in ContractEntries(c)
    PROVE  /\ e \in Entry
           /\ e.status = "PLACED" => e.filled = 0
           /\ e.by = c
  <1> DEFINE o == order[c]
  <1>1. o \in Orders /\ Qty[o] \in Nat /\ seq \in Nat
    BY ExecAssumption DEF TypeOK
  <1>2. CASE \E s \in {"PLACED", "REJECTED"} :
               e = [status |-> s, filled |-> 0, id |-> seq + 1, by |-> c]
    BY <1>1, <1>2 DEF Entry, BookStatus
  <1>3. CASE \E n \in 1..Qty[o] :
               e = [status |-> FilledStatus(o, n), filled |-> n, id |-> seq + 1, by |-> c]
    <2>1. PICK n \in 1..Qty[o] :
               e = [status |-> FilledStatus(o, n), filled |-> n, id |-> seq + 1, by |-> c]
      BY <1>3
    <2>2. n \in Nat
      BY <1>1
    <2>3. FilledStatus(o, n) \in BookStatus \ {"PLACED"}
      BY <1>1, <2>2, FilledStatusType
    <2> QED BY <1>1, <2>1, <2>2, <2>3 DEF Entry
  <1> QED BY <1>2, <1>3 DEF ContractEntries

(* No call has begun and the broker's book is empty.                        *)
LEMMA InitIInv == Init => IInv
  <1> SUFFICES ASSUME Init PROVE IInv
    OBVIOUS
  <1>1. NoReport \in Report
    BY ExecAssumption DEF NoReport, Report
  <1>2. <<>> \in Seq(DlqEntry)
    OBVIOUS
  <1>3. TypeOK
    <2>1. attempt \in [Calls -> 0..(MaxRetries + 1)] /\ failures \in 0..FailCount
      BY ExecAssumption DEF Init
    <2>2. pc \in [Calls -> PCs] /\ report \in [Calls -> Report]
      BY <1>1 DEF Init, PCs
    <2>3. accepted \in [Orders -> Nat] /\ seq \in Nat
      BY DEF Init
    <2> QED BY <1>2, <2>1, <2>2, <2>3 DEF Init, TypeOK
  <1>4. AttemptsCounted /\ BookCounts /\ ReportsMatchBook /\ ActiveExcused
    BY DEF Init, AttemptsCounted, InLoop, BookCounts, Booked, NoEntry,
           ReportsMatchBook, BookStatus, NoReport, ActiveExcused
  <1> QED BY <1>3, <1>4 DEF IInv

(* What the steps that book no new order have in common: the call moves to  *)
(* another label, possibly with a report of no broker order or the book's.  *)
LEMMA QuietStep ==
    ASSUME IInv, NEW c \in Calls, NEW l \in PCs,
           UNCHANGED <<order, adapter, book, accepted, seq, halted, redisUp>>,
           failures' \in 0..FailCount,
           dlq' \in Seq(DlqEntry),
           pc' = [pc EXCEPT ![c] = l],
           attempt' \in [Calls -> 0..(MaxRetries + 1)],
           \A d \in Calls : d # c => attempt'[d] = attempt[d],
           l \in InLoop => attempt'[c] >= 1,
           l = "backoff" => attempt'[c] <= MaxRetries,
           report' \in [Calls -> Report],
           \A d \in Calls : d # c => report'[d] = report[d],
           \/ report'[c] = report[c]
           \/ report'[c].id = 0
           \/ /\ Booked(order[c])
              /\ report'[c].status = book[order[c]].status
              /\ report'[c].filled = book[order[c]].filled
              /\ report'[c].id = book[order[c]].id,
           excused \subseteq excused', excused' \subseteq Calls,
           halted /\ order[c] \notin PriorityOrders /\ l \in Active => c \in excused'
    PROVE  IInv'
  <1> USE DEF IInv
  <1>1. TypeOK'
    BY DEF TypeOK
  <1>2. \A d \in Calls : d # c => pc'[d] = pc[d]
    BY DEF TypeOK
  <1>3. pc'[c] = l
    BY DEF TypeOK
  <1>4. AttemptsCounted'
    BY <1>2, <1>3 DEF AttemptsCounted
  <1>5. BookCounts'
    BY DEF BookCounts, Booked
  <1>6. book[order[c]].filled \in Nat
    BY DEF TypeOK, Entry, NoEntry
  <1>7. ReportsMatchBook'
    BY <1>6 DEF ReportsMatchBook, Booked, BookStatus
  <1>8. ActiveExcused'
    BY <1>2, <1>3 DEF ActiveExcused
  <1> QED BY <1>1, <1>4, <1>5, <1>7, <1>8

(* Every step of submit() except the three that book an order.              *)
LEMMA CallStepIInv ==
    ASSUME IInv, NEW c \in Calls,
           \/ PreCheckHalted(c) \/ PreCheckClear(c)
           \/ ComplianceReject(c) \/ ComplianceApprove(c) \/ BackoffDone(c)
           \/ QueryOrder(c) \/ PlaceExisting(c)
           \/ PaperFail(c) \/ ContractUnreachable(c) \/ ContractPermanent(c)
           \/ DeadLetter(c) \/ DeadLetterRaises(c)
    PROVE  IInv'
  <1> USE DEF callVars, brokerVars, redisVars, Goto
  <1>0. /\ report \in [Calls -> Report] /\ attempt \in [Calls -> 0..(MaxRetries + 1)]
        /\ attempt[c] \in 0..(MaxRetries + 1) /\ failures \in 0..FailCount
        /\ dlq \in Seq(DlqEntry) /\ excused \subseteq Calls /\ MaxRetries \in Nat
        /\ order[c] \in Orders
    BY ExecAssumption DEF IInv, TypeOK
  <1>1. \A n \in 0..(MaxRetries + 1) : Reject(c, n) =>
            /\ report' \in [Calls -> Report] /\ report'[c].id = 0
            /\ \A d \in Calls : d # c => report'[d] = report[d]
    BY <1>0 DEF Reject, Report, BookStatus
  <1>17. Reject(c, 0) =>
            /\ report' \in [Calls -> Report] /\ report'[c].id = 0
            /\ \A d \in Calls : d # c => report'[d] = report[d]
    <2>1. 0 \in 0..(MaxRetries + 1)
      BY <1>0
    <2> QED BY <1>1, <2>1
  <1>2. Booked(order[c]) /\ Finalize(c, book[order[c]]) =>
            /\ report' \in [Calls -> Report]
            /\ report'[c].status = book[order[c]].status
            /\ report'[c].filled = book[order[c]].filled
            /\ report'[c].id = book[order[c]].id
            /\ \A d \in Calls : d # c => report'[d] = report[d]
    <2>1. Booked(order[c]) => book[order[c]] \in Entry
      BY DEF IInv, TypeOK, Booked, NoEntry
    <2> QED BY <1>0, <2>1 DEF Finalize, Report, Entry
  <1>3. pc[c] \in InLoop => attempt[c] >= 1
    BY DEF IInv, AttemptsCounted
  <1>4. halted /\ order[c] \notin PriorityOrders /\ pc[c] \in Active => c \in excused
    BY DEF IInv, ActiveExcused
  <1>5. CASE PreCheckHalted(c)
    BY <1>0, <1>17, <1>5, QuietStep DEF PreCheckHalted, PCs, Returned, InLoop, Active
  <1>6. CASE PreCheckClear(c)
    BY <1>0, <1>6, QuietStep DEF PreCheckClear, IsHalted, PCs, InLoop
  <1>7. CASE ComplianceReject(c)
    BY <1>0, <1>17, <1>7, QuietStep DEF ComplianceReject, PCs, Returned, InLoop, Active
  <1>8. CASE ComplianceApprove(c)
    <2>1. /\ attempt' \in [Calls -> 0..(MaxRetries + 1)] /\ attempt'[c] >= 1
          /\ \A d \in Calls : d # c => attempt'[d] = attempt[d]
      BY <1>0, <1>8 DEF ComplianceApprove
    <2>2. halted /\ order[c] \notin PriorityOrders => c \in excused
      BY <1>4, <1>8 DEF ComplianceApprove, Active
    <2> QED BY <1>0, <1>8, <2>1, <2>2, QuietStep DEF ComplianceApprove, PCs
  <1>9. CASE BackoffDone(c)
    <2>1. attempt[c] <= MaxRetries
      BY <1>9 DEF BackoffDone, IInv, AttemptsCounted
    <2>2. attempt[c] >= 1
      BY <1>3, <1>9 DEF BackoffDone, InLoop
    <2>3. /\ attempt' \in [Calls -> 0..(MaxRetries + 1)] /\ attempt'[c] >= 1
          /\ \A d \in Calls : d # c => attempt'[d] = attempt[d]
      BY <1>0, <1>9, <2>1, <2>2 DEF BackoffDone
    <2>4. halted /\ order[c] \notin PriorityOrders => c \in excused
      BY <1>4, <1>9 DEF BackoffDone, Active
    <2> QED BY <1>0, <1>9, <2>3, <2>4, QuietStep DEF BackoffDone, PCs
  <1>10. CASE QueryOrder(c)
    <2>1. CASE Booked(order[c])
      BY <1>0, <1>2, <1>10, <2>1, QuietStep DEF QueryOrder, Finalize, PCs, Returned, InLoop, Active
    <2>2. CASE ~Booked(order[c])
      BY <1>0, <1>3, <1>4, <1>10, <2>2, QuietStep DEF QueryOrder, PCs, InLoop, Active
    <2> QED BY <2>1, <2>2
  <1>11. CASE PlaceExisting(c)
    BY <1>0, <1>2, <1>11, QuietStep DEF PlaceExisting, Finalize, PCs, Returned, InLoop, Active
  <1>12. CASE PaperFail(c)
    <2>1. failures - 1 \in 0..FailCount
      BY <1>0, <1>12, ExecAssumption DEF PaperFail
    <2> QED BY <1>0, <1>3, <1>4, <1>12, <2>1, QuietStep
          DEF PaperFail, TransientError, PCs, InLoop, Active
  <1>13. CASE ContractUnreachable(c)
    BY <1>0, <1>3, <1>4, <1>13, QuietStep
    DEF ContractUnreachable, TransientError, PCs, InLoop, Active
  <1>14. CASE ContractPermanent(c)
    BY <1>0, <1>3, <1>4, <1>14, QuietStep DEF ContractPermanent, PCs, InLoop, Active
  <1>15. CASE DeadLetter(c)
    <2>1. dlq' \in Seq(DlqEntry)
      <3>1. [order |-> order[c], call |-> c, attempts |-> attempt[c]] \in DlqEntry
        BY <1>0, <1>3, <1>15 DEF DeadLetter, DlqEntry, InLoop
      <3> QED BY <1>0, <1>15, <3>1 DEF DeadLetter
    <2> QED BY <1>0, <1>1, <1>15, <2>1, QuietStep DEF DeadLetter, PCs, Returned, InLoop, Active
  <1>16. CASE DeadLetterRaises(c)
    BY <1>0, <1>16, QuietStep DEF DeadLetterRaises, PCs, Returned, InLoop, Active
  <1> QED BY <1>5, <1>6, <1>7, <1>8, <1>9, <1>10, <1>11, <1>12, <1>13, <1>14, <1>15, <1>16

(* A new entry in the book, reported or lost: every placing step is of this *)
(* form.                                                                    *)
LEMMA AcceptPreserves ==
    ASSUME IInv, NEW c \in Calls, NEW e \in Entry,
           pc[c] = "place", ~Booked(order[c]),
           e.status = "PLACED" => e.filled = 0,
           Accept(order[c], e), failures' \in 0..FailCount,
           UNCHANGED <<order, adapter, attempt, excused, redisVars>>,
           Finalize(c, e) \/ TransientError(c)
    PROVE  IInv'
  <1> USE DEF IInv
  <1> DEFINE o == order[c]
  <1>1. o \in Orders /\ report \in [Calls -> Report] /\ attempt[c] \in 0..(MaxRetries + 1)
    BY DEF TypeOK
  <1>2. book' = [book EXCEPT ![o] = e] /\ accepted' = [accepted EXCEPT ![o] = @ + 1] /\ seq' = seq + 1
    BY DEF Accept
  <1>3. /\ pc' \in [Calls -> PCs]
        /\ pc'[c] \in {"done", "backoff", "deadletter"}
        /\ pc'[c] = "backoff" => attempt[c] <= MaxRetries
        /\ \A d \in Calls : d # c => pc'[d] = pc[d]
    BY DEF TypeOK, Finalize, TransientError, Goto, PCs, Returned
  <1>4. /\ report' \in [Calls -> Report]
        /\ \A d \in Calls : d # c => report'[d] = report[d]
        /\ \/ report'[c] = report[c]
           \/ report'[c].status = e.status /\ report'[c].filled = e.filled /\ report'[c].id = e.id
    BY <1>1 DEF Finalize, TransientError, Report, Entry
  <1>5. TypeOK'
    BY <1>1, <1>2, <1>3, <1>4 DEF TypeOK, redisVars
  <1>6. AttemptsCounted'
    BY <1>3 DEF AttemptsCounted, InLoop
  <1>7. e.status # "NONE"
    BY DEF Entry, BookStatus
  <1>8. BookCounts'
    BY <1>1, <1>2, <1>7 DEF BookCounts, Booked, TypeOK
  <1>9. ReportsMatchBook'
    <2>1. \A d \in Calls : report[d].id # 0 => order[d] # o
      BY DEF Booked, ReportsMatchBook
    <2>2. \A d \in Calls : order[d] # o => book'[order[d]] = book[order[d]]
      BY <1>2
    <2>3. book'[o] = e
      BY <1>1, <1>2 DEF TypeOK
    <2>4. e.filled \in Nat
      BY DEF Entry
    <2> QED BY <1>4, <1>7, <2>1, <2>2, <2>3, <2>4 DEF ReportsMatchBook, Booked
  <1>10. ActiveExcused'
    BY <1>3 DEF ActiveExcused, Active, redisVars
  <1> QED BY <1>5, <1>6, <1>8, <1>9, <1>10

(* The three steps of submit() that book an order.                          *)
LEMMA PlaceStepIInv ==
    ASSUME IInv, NEW c \in Calls,
           PaperPlace(c) \/ ContractPlace(c) \/ ContractResponseLost(c)
    PROVE  IInv'
  <1>0. failures \in 0..FailCount
    BY DEF IInv, TypeOK
  <1>1. CASE PaperPlace(c)
    <2>1. PaperEntry(c) \in Entry /\ PaperEntry(c).status # "PLACED"
      BY PaperEntryType DEF IInv
    <2> QED BY <1>0, <1>1, <2>1, AcceptPreserves DEF PaperPlace
  <1>2. CASE ContractPlace(c)
    <2>1. PICK e \in ContractEntries(c) : Accept(order[c], e) /\ Finalize(c, e)
      BY <1>2 DEF ContractPlace
    <2>2. e \in Entry /\ (e.status = "PLACED" => e.filled = 0)
      BY ContractEntryType DEF IInv
    <2> QED BY <1>0, <1>2, <2>1, <2>2, AcceptPreserves DEF ContractPlace
  <1>3. CASE ContractResponseLost(c)
    <2>1. PICK e \in ContractEntries(c) : Accept(order[c], e)
      BY <1>3 DEF ContractResponseLost
    <2>2. e \in Entry /\ (e.status = "PLACED" => e.filled = 0)
      BY ContractEntryType DEF IInv
    <2> QED BY <1>0, <1>3, <2>1, <2>2, AcceptPreserves DEF ContractResponseLost
  <1> QED BY <1>1, <1>2, <1>3

(* The broker, the kill switch and Redis preserve the invariant too.        *)
LEMMA EnvStepIInv ==
    ASSUME IInv,
           \/ \E o \in Orders : CancelOrder(o) \/ BrokerFill(o)
           \/ KillSwitch
           \/ RedisToggles
    PROVE  IInv'
  <1> USE DEF IInv, callVars, brokerVars, redisVars
  <1>1. CASE KillSwitch
    BY <1>1 DEF KillSwitch, TypeOK, AttemptsCounted, BookCounts, Booked, ReportsMatchBook,
        ActiveExcused, Active, Returned
  <1>2. CASE RedisToggles
    BY <1>2 DEF RedisToggles, TypeOK, AttemptsCounted, BookCounts, Booked, ReportsMatchBook,
        ActiveExcused
  <1>3. ASSUME NEW o \in Orders, CancelOrder(o) \/ BrokerFill(o) PROVE IInv'
    <2>1. book[o] \in Entry /\ book[o].filled = 0 /\ book[o].status = "PLACED"
      BY <1>3 DEF CancelOrder, BrokerFill, TypeOK, BookCounts, NoEntry
    <2>2. PICK e \in Entry : /\ book' = [book EXCEPT ![o] = e]
                             /\ e.id = book[o].id /\ e.status # "PLACED"
      <3>1. CASE CancelOrder(o)
        <4> DEFINE e == [book[o] EXCEPT !.status = "CANCELLED"]
        <4>1. e \in Entry /\ e.id = book[o].id /\ e.status # "PLACED"
          BY <2>1 DEF Entry, BookStatus
        <4>2. book' = [book EXCEPT ![o] = e]
          BY <3>1 DEF CancelOrder
        <4> QED BY <4>1, <4>2
      <3>2. CASE BrokerFill(o)
        <4>1. PICK n \in 1..Qty[o] :
                book' = [book EXCEPT ![o].status = FilledStatus(o, n), ![o].filled = n]
          BY <3>2 DEF BrokerFill
        <4> DEFINE e == [book[o] EXCEPT !.status = FilledStatus(o, n), !.filled = n]
        <4>2. n \in Nat
          BY ExecAssumption
        <4>3. e \in Entry /\ e.id = book[o].id /\ e.status # "PLACED"
          BY <2>1, <4>2, FilledStatusType DEF Entry
        <4>4. book' = [book EXCEPT ![o] = e]
          BY <2>1, <4>1 DEF TypeOK
        <4> QED BY <4>3, <4>4
      <3> QED BY <1>3, <3>1, <3>2
    <2>3. UNCHANGED <<callVars, accepted, seq, failures, redisVars>>
      BY <1>3 DEF CancelOrder, BrokerFill
    <2>4. TypeOK'
      BY <2>2, <2>3 DEF TypeOK
    <2>5. e.status # "NONE" /\ e.filled \in Nat
      BY DEF Entry, BookStatus
    <2>6. BookCounts'
      BY <2>1, <2>2, <2>3, <2>5 DEF BookCounts, Booked, TypeOK
    <2>7. ReportsMatchBook'
      <3>1. \A c \in Calls : report[c].filled \in Nat
        BY DEF TypeOK, Report
      <3>2. book'[o] = e /\ \A p \in Orders : p # o => book'[p] = book[p]
        BY <2>2 DEF TypeOK
      <3>3. \A c \in Calls : order[c] \in Orders
        BY DEF TypeOK
      <3> QED BY <2>1, <2>2, <2>3, <2>5, <3>1, <3>2, <3>3 DEF ReportsMatchBook, Booked
    <2> QED BY <2>3, <2>4, <2>6, <2>7 DEF AttemptsCounted, ActiveExcused
  <1> QED BY <1>1, <1>2, <1>3

(* Every step of the engine, the broker, the kill switch and Redis keeps    *)
(* the inductive invariant.                                                 *)
LEMMA NextIInv == IInv /\ [Next]_vars => IInv'
  <1> SUFFICES ASSUME IInv, [Next]_vars PROVE IInv'
    OBVIOUS
  <1>1. ASSUME NEW c \in Calls, Step(c) PROVE IInv'
    BY <1>1, CallStepIInv, PlaceStepIInv DEF Step
  <1>2. CASE UNCHANGED vars
    BY <1>2 DEF vars, callVars, brokerVars, redisVars, IInv, TypeOK, AttemptsCounted,
        BookCounts, Booked, ReportsMatchBook, ActiveExcused
  <1> QED BY <1>1, <1>2, EnvStepIInv DEF Next

(* The inductive invariant holds in every reachable state.                  *)
THEOREM Invariance == Spec => []IInv
  BY InitIInv, NextIInv, PTL DEF Spec

(* TypeOK holds of submit() for every number of calls, orders and retries.  *)
THEOREM TypeCorrect == Spec => []TypeOK
  <1>1. IInv => TypeOK
    BY DEF IInv
  <1> QED BY <1>1, Invariance, PTL

(* No client_order_id is ever booked twice by the broker, whatever          *)
(* responses are lost and however threads and retries interleave.           *)
THEOREM NeverDoubleFilled == Spec => []NoDoubleFill
  <1>1. IInv => NoDoubleFill
    BY DEF IInv, BookCounts, NoDoubleFill, Booked
  <1> QED BY <1>1, Invariance, PTL

(* After a halt only calls already past the pre-check, or calls that could  *)
(* not read Redis, hand a non-priority order to the broker.                 *)
THEOREM HaltIsContained == Spec => HaltContained
  <1>1. IInv /\ [Next]_vars =>
            [\A o \in Orders \ PriorityOrders :
                accepted'[o] # accepted[o] /\ halted => book'[o].by \in excused]_vars
    <2> SUFFICES ASSUME IInv, Next, NEW o \in Orders \ PriorityOrders,
                        accepted'[o] # accepted[o], halted
                 PROVE  book'[o].by \in excused
      OBVIOUS
    <2>1. PICK c \in Calls : PaperPlace(c) \/ ContractPlace(c) \/ ContractResponseLost(c)
      BY DEF Next, Step, PreCheckHalted, PreCheckClear, ComplianceReject, ComplianceApprove,
         BackoffDone, QueryOrder, PlaceExisting, PaperFail, ContractUnreachable,
         ContractPermanent, DeadLetter, DeadLetterRaises, CancelOrder, BrokerFill,
         KillSwitch, RedisToggles, brokerVars
    <2>2. PICK e : e.by = c /\ Accept(order[c], e)
      BY <2>1, PaperEntryType, ContractEntryType DEF IInv, PaperPlace, ContractPlace, ContractResponseLost
    <2>3. order[c] = o /\ book'[o] = e
      BY <2>2 DEF Accept, IInv, TypeOK
    <2>4. pc[c] \in Active
      BY <2>1 DEF PaperPlace, ContractPlace, ContractResponseLost, Active
    <2> QED BY <2>2, <2>3, <2>4 DEF IInv, ActiveExcused
  <1> QED BY <1>1, Invariance, PTL DEF Spec, HaltContained

(* What submit() reports of a broker order is, and stays, what the broker   *)
(* has on its book.                                                         *)
THEOREM ReportsTruthful == Spec => []ReportsMatchBook
  <1>1. IInv => ReportsMatchBook
    BY DEF IInv
  <1> QED BY <1>1, Invariance, PTL

-----------------------------------------------------------------------------
(* Fills.                                                                   *)

(* int(requested_qty * ratio), raised to one share, is at most the order.   *)
LEMMA PaperFillBounds == ASSUME NEW o \in Orders PROVE PaperFillQty(o) \in 1..Qty[o]
  <1>1. Qty[o] \in Nat \ {0} /\ FillNum \in Nat /\ FillDen \in Nat \ {0} /\ FillNum <= FillDen
    BY ExecAssumption
  <1> DEFINE q == Qty[o]
             p == q * FillNum
             r == p \div FillDen
  <1>2. p \in Nat /\ q \in Nat /\ q * FillDen \in Nat
    BY <1>1
  <1>3. p <= q * FillDen
    <2>1. q * FillDen = q * FillNum + q * (FillDen - FillNum)
      BY <1>1
    <2>2. q * (FillDen - FillNum) \in Nat
      BY <1>1
    <2> QED BY <1>2, <2>1, <2>2
  <1>4. r \in Int /\ FillDen * r <= p
    <2> HIDE DEF p
    <2> QED BY <1>1, <1>2
  <1>5. r <= q
    <2> HIDE DEF p, r, q
    <2> SUFFICES ASSUME r > q PROVE FALSE
      BY <1>2, <1>4
    <2>1. r - q - 1 \in Nat /\ FillDen \in Nat /\ FillDen > 0
      BY <1>1, <1>2, <1>4
    <2>2. FillDen * (r - q - 1) \in Nat
      BY <2>1
    <2>3. FillDen * r = q * FillDen + FillDen + FillDen * (r - q - 1)
      BY <1>1, <1>2, <1>4
    <2> QED BY <1>1, <1>2, <1>3, <1>4, <2>2, <2>3
  <1>6. PaperFillQty(o) = IF r < 1 THEN 1 ELSE r
    BY DEF PaperFillQty
  <1> QED BY <1>1, <1>4, <1>5, <1>6

(* A fill the book may hold for order o                                     *)
Fits(o, e) ==
    /\ e.status \in {"FILLED", "PARTIALLY_FILLED"} => e.filled \in 1..Qty[o]
    /\ e.status = "FILLED" <=> e.filled = Qty[o]

(* A fill of at most the quantity fits the order.                           *)
LEMMA FillFits ==
    ASSUME NEW o \in Orders, NEW n \in 1..Qty[o], NEW e,
           e.status = FilledStatus(o, n), e.filled = n
    PROVE  Fits(o, e)
  BY ExecAssumption DEF Fits, FilledStatus

(* So does an order that is not filled.                                     *)
LEMMA NoFillFits ==
    ASSUME NEW o \in Orders, NEW e,
           e.status \in {"NONE", "PLACED", "CANCELLED", "REJECTED"}, e.filled = 0
    PROVE  Fits(o, e)
  BY ExecAssumption DEF Fits

(* Only what fits is written to the book.                                   *)
LEMMA BookStep ==
    ASSUME IInv, NeverOverHedged, [Next]_vars
    PROVE  NeverOverHedged'
  <1>0. /\ \A o \in Orders : Fits(o, book[o])
        /\ book \in [Orders -> Entry \cup {NoEntry}] /\ order \in [Calls -> Orders]
    BY DEF NeverOverHedged, Fits, IInv, TypeOK
  <1> SUFFICES \A o \in Orders : Fits(o, book'[o])
    BY DEF NeverOverHedged, Fits
  <1>1. ASSUME NEW c \in Calls, NEW e, Accept(order[c], e), Fits(order[c], e)
        PROVE  \A o \in Orders : Fits(o, book'[o])
    BY <1>0, <1>1 DEF Accept
  <1>2. ASSUME NEW c \in Calls, PaperPlace(c)
        PROVE  \A o \in Orders : Fits(o, book'[o])
    <2>1. PaperFillQty(order[c]) \in 1..Qty[order[c]] /\ order[c] \in Orders
      BY <1>0, PaperFillBounds
    <2>2. Fits(order[c], PaperEntry(c))
      BY <2>1, FillFits DEF PaperEntry
    <2> QED BY <1>1, <1>2, <2>2 DEF PaperPlace
  <1>3. ASSUME NEW c \in Calls, ContractPlace(c) \/ ContractResponseLost(c)
        PROVE  \A o \in Orders : Fits(o, book'[o])
    <2>1. PICK e \in ContractEntries(c) : Accept(order[c], e)
      BY <1>3 DEF ContractPlace, ContractResponseLost
    <2>2. order[c] \in Orders
      BY <1>0
    <2>3. \/ \E n \in 1..Qty[order[c]] : e.status = FilledStatus(order[c], n) /\ e.filled = n
          \/ e.status \in {"PLACED", "REJECTED"} /\ e.filled = 0
      BY DEF ContractEntries
    <2>4. Fits(order[c], e)
      BY <2>2, <2>3, FillFits, NoFillFits
    <2> QED BY <1>1, <2>1, <2>4
  <1>4. ASSUME NEW o \in Orders, CancelOrder(o) \/ BrokerFill(o)
        PROVE  \A p \in Orders : Fits(p, book'[p])
    <2>1. book[o].filled = 0 /\ book[o] \in Entry
      BY <1>0, <1>4 DEF CancelOrder, BrokerFill, IInv, BookCounts, NoEntry
    <2>2. \A p \in Orders : p # o => book'[p] = book[p]
      BY <1>0, <1>4 DEF CancelOrder, BrokerFill
    <2>3. \/ book'[o].status = "CANCELLED" /\ book'[o].filled = 0
          \/ \E n \in 1..Qty[o] : book'[o].status = FilledStatus(o, n) /\ book'[o].filled = n
      <3>1. CASE CancelOrder(o)
        BY <1>0, <2>1, <3>1 DEF CancelOrder, Entry
      <3>2. CASE BrokerFill(o)
        <4>1. PICK n \in 1..Qty[o] :
                book' = [book EXCEPT ![o].status = FilledStatus(o, n), ![o].filled = n]
          BY <3>2 DEF BrokerFill
        <4>2. book'[o].status = FilledStatus(o, n) /\ book'[o].filled = n
          BY <1>0, <2>1, <4>1 DEF Entry
        <4> QED BY <4>2
      <3> QED BY <1>4, <3>1, <3>2
    <2>4. Fits(o, book'[o])
      BY <2>3, FillFits, NoFillFits
    <2> QED BY <1>0, <2>2, <2>4
  <1>5. CASE UNCHANGED book
    BY <1>0, <1>5
  <1> QED
    BY <1>2, <1>3, <1>4, <1>5
       DEF Next, Step, PreCheckHalted, PreCheckClear, ComplianceReject, ComplianceApprove,
           BackoffDone, QueryOrder, PlaceExisting, PaperFail, ContractUnreachable,
           ContractPermanent, DeadLetter, DeadLetterRaises, KillSwitch, RedisToggles,
           vars, brokerVars

(* A fill is never of more than was ordered, so a stop loss of the filled   *)
(* quantity never over-hedges.                                              *)
THEOREM FillsBounded == Spec => []NeverOverHedged
  <1>1. Init => NeverOverHedged
    BY ExecAssumption DEF Init, NeverOverHedged, NoEntry
  <1>2. IInv /\ NeverOverHedged /\ [Next]_vars => NeverOverHedged'
    BY BookStep
  <1> QED BY <1>1, <1>2, Invariance, PTL DEF Spec

-----------------------------------------------------------------------------
(* Dead letters.                                                            *)

(* A call has no report before it returns.                                  *)
Unreported == \A c \in Calls : pc[c] # "done" => report[c] = NoReport

(* With the PaperBroker a call whose order is on the book was told so.      *)
PaperReported ==
    adapter = "paper" =>
        \A o \in Orders : book[o].by \in Calls => report[book[o].by].id # 0

(* The entries of call c are as DeadLettersAccounted says                   *)
Mine(c) == {i \in DOMAIN dlq : dlq[i].call = c}
Accounted(c) ==
    IF report[c].status = "REJECTED" /\ report[c].id = 0 /\ report[c].attempts > 0
    THEN \E i \in DOMAIN dlq : Mine(c) = {i} /\ dlq[i].attempts = report[c].attempts
    ELSE Mine(c) = {}

DInv == IInv /\ Unreported /\ PaperReported /\ \A c \in Calls : Accounted(c)

(* A call reports once, when it returns; only DeadLetter reports a rejected *)
(* order that was attempted.                                                *)
LEMMA ReportOnce ==
    ASSUME IInv, [Next]_vars, NEW c \in Calls
    PROVE  /\ pc[c] = "done" => pc'[c] = "done" /\ report'[c] = report[c]
           /\ \/ report'[c] = report[c]
              \/ pc'[c] = "done" /\ report'[c].id # 0
              \/ pc'[c] = "done" /\ report'[c].attempts = 0
              \/ DeadLetter(c) /\ pc'[c] = "done"
           /\ dlq' = dlq \/ \E d \in Calls : DeadLetter(d)
  <1>0. /\ pc \in [Calls -> PCs] /\ report \in [Calls -> Report] /\ order \in [Calls -> Orders]
        /\ book \in [Orders -> Entry \cup {NoEntry}]
    BY DEF IInv, TypeOK
  <1>1. \A d \in Calls : \A e : Finalize(d, e) =>
            /\ c # d => pc'[c] = pc[c] /\ report'[c] = report[c]
            /\ c = d => pc'[c] = "done" /\ report'[c].id = e.id
    BY <1>0 DEF Finalize, Goto
  <1>2. \A d \in Calls : \A l, n : Reject(d, n) /\ Goto(d, l) =>
            /\ c # d => pc'[c] = pc[c] /\ report'[c] = report[c]
            /\ c = d => pc'[c] = l /\ report'[c].attempts = n
    BY <1>0 DEF Reject, Goto
  <1>3. \A d \in Calls : \A l : Goto(d, l) =>
            /\ c # d => pc'[c] = pc[c]
            /\ c = d => pc'[c] = l
    BY <1>0 DEF Goto
  <1>4. \A d \in Calls : Booked(order[d]) => book[order[d]].id # 0
    BY <1>0 DEF Booked, Entry, NoEntry
  <1>5. ASSUME NEW d \in Calls, DeadLetter(d)
        PROVE  /\ pc[c] = "done" => pc'[c] = "done" /\ report'[c] = report[c]
               /\ report'[c] = report[c] \/ (c = d /\ pc'[c] = "done")
    BY <1>2, <1>5 DEF DeadLetter
  <1>6. ASSUME NEW d \in Calls,
               PreCheckHalted(d) \/ ComplianceReject(d)
        PROVE  /\ dlq' = dlq
               /\ pc[c] = "done" => pc'[c] = "done" /\ report'[c] = report[c]
               /\ report'[c] = report[c] \/ (pc'[c] = "done" /\ report'[c].attempts = 0)
    BY <1>2, <1>6 DEF PreCheckHalted, ComplianceReject, redisVars
  <1>7. ASSUME NEW d \in Calls,
               \/ PreCheckClear(d) \/ ComplianceApprove(d) \/ BackoffDone(d)
               \/ PaperFail(d) \/ ContractResponseLost(d) \/ ContractUnreachable(d)
               \/ ContractPermanent(d) \/ DeadLetterRaises(d)
        PROVE  /\ dlq' = dlq
               /\ pc[c] = "done" => pc'[c] = "done"
               /\ report'[c] = report[c]
    BY <1>3, <1>7
       DEF PreCheckClear, ComplianceApprove, BackoffDone, PaperFail, ContractResponseLost,
           ContractUnreachable, ContractPermanent, DeadLetterRaises, TransientError, redisVars
  <1>8. ASSUME NEW d \in Calls, QueryOrder(d) \/ PlaceExisting(d)
        PROVE  /\ dlq' = dlq
               /\ pc[c] = "done" => pc'[c] = "done" /\ report'[c] = report[c]
               /\ \/ report'[c] = report[c]
                  \/ pc'[c] = "done" /\ report'[c].id # 0
    BY <1>1, <1>3, <1>4, <1>8 DEF QueryOrder, PlaceExisting, redisVars
  <1>9. ASSUME NEW d \in Calls, PaperPlace(d) \/ ContractPlace(d)
        PROVE  /\ dlq' = dlq
               /\ pc[c] = "done" => pc'[c] = "done" /\ report'[c] = report[c]
               /\ \/ report'[c] = report[c]
                  \/ pc'[c] = "done" /\ report'[c].id # 0
    <2>1. PICK e \in Entry : Finalize(d, e)
      BY <1>9, PaperEntryType, ContractEntryType DEF IInv, PaperPlace, ContractPlace
    <2>2. e.id # 0
      BY DEF Entry
    <2> QED BY <1>1, <1>9, <2>1, <2>2 DEF PaperPlace, ContractPlace, redisVars
  <1>10. CASE \/ \E o \in Orders : CancelOrder(o) \/ BrokerFill(o)
              \/ KillSwitch \/ RedisToggles \/ UNCHANGED vars
    BY <1>10 DEF CancelOrder, BrokerFill, KillSwitch, RedisToggles, vars, callVars, redisVars
  <1> QED BY <1>5, <1>6, <1>7, <1>8, <1>9, <1>10 DEF Next, Step

(* No call has begun.                                                       *)
LEMMA DInitInv == Init => DInv
  <1> SUFFICES ASSUME Init PROVE DInv
    OBVIOUS
  <1>1. dlq = <<>> /\ DOMAIN dlq = {}
    BY DEF Init
  <1>2. \A c \in Calls : Accounted(c)
    BY <1>1 DEF Init, Accounted, Mine, NoReport
  <1>3. Unreported /\ PaperReported
    BY ExecAssumption DEF Init, Unreported, PaperReported, NoEntry
  <1> QED BY <1>2, <1>3, InitIInv DEF DInv

(* A report is given once, when the call is done.                           *)
LEMMA UnreportedStep ==
    ASSUME IInv, Unreported, [Next]_vars
    PROVE  Unreported' /\ \A c \in Calls : report'[c] = report[c] \/ report[c] = NoReport
  <1> SUFFICES ASSUME NEW c \in Calls
               PROVE  /\ pc'[c] # "done" => report'[c] = NoReport
                      /\ report'[c] = report[c] \/ report[c] = NoReport
    BY DEF Unreported
  <1> QED BY ReportOnce DEF Unreported

(* The broker's record of who placed an order changes only by PaperPlace,   *)
(* which reports it.                                                        *)
LEMMA PaperReportedStep ==
    ASSUME IInv, Unreported, PaperReported, [Next]_vars
    PROVE  PaperReported'
  <1>0. /\ book \in [Orders -> Entry \cup {NoEntry}] /\ order \in [Calls -> Orders]
        /\ report \in [Calls -> Report] /\ adapter' = adapter
    BY DEF IInv, TypeOK, Next, Step, PreCheckHalted, PreCheckClear, ComplianceReject,
           ComplianceApprove, BackoffDone, QueryOrder, PlaceExisting, PaperFail, PaperPlace,
           ContractPlace, ContractResponseLost, ContractUnreachable, ContractPermanent,
           DeadLetter, DeadLetterRaises, CancelOrder, BrokerFill, KillSwitch, RedisToggles,
           vars, callVars
  <1> SUFFICES ASSUME adapter = "paper", NEW o \in Orders, book'[o].by \in Calls
               PROVE  report'[book'[o].by].id # 0
    BY <1>0 DEF PaperReported
  <1>1. CASE book'[o].by = book[o].by
    <2> DEFINE c == book[o].by
    <2>1. c \in Calls /\ report[c].id # 0
      BY <1>1 DEF PaperReported
    <2>2. report[c] # NoReport
      BY <2>1 DEF NoReport, BookStatus
    <2>3. report'[c] = report[c]
      BY <2>1, <2>2, UnreportedStep
    <2> QED BY <1>1, <2>1, <2>3
  <1>2. CASE \E c \in Calls : PaperPlace(c)
    <2>1. PICK c \in Calls : PaperPlace(c)
      BY <1>2
    <2>2. CASE order[c] = o
      <3>1. book'[o] = PaperEntry(c) /\ PaperEntry(c).by = c
            /\ report'[c].id = PaperEntry(c).id
        BY <1>0, <2>1, <2>2, PaperEntryType DEF IInv, PaperPlace, Accept, Finalize
      <3>2. PaperEntry(c).id # 0
        BY PaperEntryType DEF IInv, Entry
      <3> QED BY <3>1, <3>2
    <2>3. CASE order[c] # o
      BY <1>0, <1>1, <2>1, <2>3 DEF PaperPlace, Accept
    <2> QED BY <2>2, <2>3
  <1>3. CASE \E p \in Orders : CancelOrder(p) \/ BrokerFill(p)
    <2>1. PICK p \in Orders : CancelOrder(p) \/ BrokerFill(p)
      BY <1>3
    <2>2. book[p] \in Entry
      BY <1>0, <2>1 DEF CancelOrder, BrokerFill, NoEntry
    <2>3. book'[o].by = book[o].by
      <3>1. CASE CancelOrder(p)
        BY <1>0, <2>2, <3>1 DEF CancelOrder, Entry
      <3>2. CASE BrokerFill(p)
        <4>1. PICK n \in 1..Qty[p] :
                book' = [book EXCEPT ![p].status = FilledStatus(p, n), ![p].filled = n]
          BY <3>2 DEF BrokerFill
        <4> QED BY <1>0, <2>2, <4>1 DEF Entry
      <3> QED BY <2>1, <3>1, <3>2
    <2> QED BY <1>1, <2>3
  <1>4. CASE UNCHANGED book
    BY <1>1, <1>4
  <1> QED
    BY <1>2, <1>3, <1>4
       DEF Next, Step, PreCheckHalted, PreCheckClear, ComplianceReject, ComplianceApprove,
           BackoffDone, QueryOrder, PlaceExisting, PaperFail, ContractPlace,
           ContractResponseLost, ContractUnreachable, ContractPermanent, DeadLetter,
           DeadLetterRaises, KillSwitch, RedisToggles, vars, brokerVars

(* One entry is pushed, by a call that had none.                            *)
LEMMA AccountedStep ==
    ASSUME DInv, [Next]_vars, NEW c \in Calls
    PROVE  Accounted(c)'
  <1>0. /\ Accounted(c) /\ dlq \in Seq(DlqEntry) /\ report \in [Calls -> Report]
        /\ \A d \in Calls : attempt[d] \in 0..(MaxRetries + 1)
        /\ report[c] = NoReport => Mine(c) = {}
    BY DEF DInv, IInv, TypeOK, Accounted, NoReport
  <1>1. CASE dlq' = dlq
    <2>1. Mine(c)' = Mine(c)
      BY <1>1 DEF Mine
    <2>2. CASE report'[c] = report[c]
      BY <1>0, <1>1, <2>1, <2>2 DEF Accounted
    <2>3. CASE report'[c] # report[c]
      <3>1. Mine(c) = {}
        BY <1>0, <2>3, UnreportedStep DEF DInv
      <3>2. ~DeadLetter(c)
        <4> SUFFICES ASSUME DeadLetter(c) PROVE FALSE
          OBVIOUS
        <4>1. Len(dlq') = Len(dlq) + 1 /\ Len(dlq) \in Nat
          BY <1>0 DEF DeadLetter
        <4> QED BY <1>1, <4>1
      <3>3. ~(report'[c].id = 0 /\ report'[c].attempts > 0)
        BY <2>3, <3>2, ReportOnce DEF DInv, BookStatus
      <3> QED BY <2>1, <3>1, <3>3 DEF Accounted
    <2> QED BY <2>2, <2>3
  <1>2. ASSUME NEW d \in Calls, DeadLetter(d) PROVE Accounted(c)'
    <2> DEFINE x == [order |-> order[d], call |-> d, attempts |-> attempt[d]]
               n == Len(dlq) + 1
    <2>1. /\ dlq' = Append(dlq, x) /\ n \in Nat /\ DOMAIN dlq = 1..(n - 1)
          /\ DOMAIN dlq' = 1..n /\ dlq'[n] = x
          /\ \A i \in 1..(n - 1) : dlq'[i] = dlq[i]
      BY <1>0, <1>2 DEF DeadLetter
    <2>2. x.call = d /\ x.attempts = attempt[d]
      OBVIOUS
    <2> HIDE DEF x, n
    <2>3. CASE c = d
      <3>1. pc[c] = "deadletter" /\ report[c] = NoReport
        BY <1>2, <2>3 DEF DeadLetter, DInv, Unreported
      <3>2. Mine(c) = {}
        BY <1>0, <3>1
      <3>3. Mine(c)' = {n}
        BY <2>1, <2>2, <2>3, <3>2 DEF Mine
      <3>4. report'[c].status = "REJECTED" /\ report'[c].id = 0 /\ report'[c].attempts = attempt[d]
        BY <1>0, <1>2, <2>3 DEF DeadLetter, Reject
      <3>5. attempt[d] >= 1
        BY <2>3, <3>1 DEF DInv, IInv, AttemptsCounted, InLoop
      <3>6. n \in DOMAIN dlq' /\ dlq'[n].attempts = attempt[d]
        BY <2>1, <2>2
      <3> QED BY <1>0, <3>3, <3>4, <3>5, <3>6 DEF Accounted
    <2>4. CASE c # d
      <3>1. Mine(c)' = Mine(c)
        BY <2>1, <2>2, <2>4 DEF Mine
      <3>2. report'[c] = report[c]
        BY <1>0, <1>2, <2>4 DEF DeadLetter, Reject
      <3>3. \A i \in DOMAIN dlq : i \in DOMAIN dlq' /\ dlq'[i] = dlq[i]
        BY <2>1
      <3> QED BY <1>0, <3>1, <3>2, <3>3 DEF Accounted
    <2> QED BY <2>3, <2>4
  <1> QED BY <1>1, <1>2, ReportOnce DEF DInv

(* Every step keeps the accounts of every call.                             *)
LEMMA DNextInv == DInv /\ [Next]_vars => DInv'
  BY NextIInv, UnreportedStep, PaperReportedStep, AccountedStep DEF DInv

(* A dead letter for every order given up after an attempt and for no       *)
(* other; with the PaperBroker none for an order on the book.               *)
THEOREM DeadLettersHold == Spec => []DeadLettersAccounted
  <1>1. DInv => DeadLettersAccounted
    <2> SUFFICES ASSUME DInv PROVE DeadLettersAccounted
      OBVIOUS
    <2>1. \A c \in Calls :
            LET mine == {i \in DOMAIN dlq : dlq[i].call = c}
            IN  IF report[c].status = "REJECTED" /\ report[c].id = 0 /\ report[c].attempts > 0
                THEN \E i \in DOMAIN dlq :
                        mine = {i} /\ dlq[i].attempts = report[c].attempts
                ELSE mine = {}
      BY DEF DInv, Accounted, Mine
    <2>2. ASSUME adapter = "paper", NEW i \in DOMAIN dlq
          PROVE  book[dlq[i].order].by # dlq[i].call
      <3> DEFINE c == dlq[i].call
      <3>1. c \in Calls /\ dlq[i].order \in Orders
        <4>1. dlq \in Seq(DlqEntry)
          BY DEF DInv, IInv, TypeOK
        <4>2. dlq[i] \in DlqEntry
          BY <4>1
        <4> QED BY <4>2 DEF DlqEntry
      <3>2. i \in Mine(c)
        BY DEF Mine
      <3>3. report[c].id = 0
        BY <3>1, <3>2 DEF DInv, Accounted
      <3> QED BY <2>2, <3>1, <3>3 DEF DInv, PaperReported, BookStatus
    <2> QED BY <2>1, <2>2 DEF DeadLettersAccounted, DeadLetteredIsDead
  <1> QED BY <1>1, DInitInv, DNextInv, PTL DEF Spec
=============================================================================
