--------------------------- MODULE Reconciliation ---------------------------
(***************************************************************************)
(* M17 shared/reconciliation: ReconciliationAgent's timer chain and        *)
(* run_cycle, and the BlockRegistry it drives.                             *)
(*                                                                         *)
(* A cycle runs on a timer thread or on the thread of a caller (the        *)
(* square-off); nothing serialises cycles.  Each fetch, registry read and  *)
(* registry write is a step.  The mismatch stream and the on_mismatch      *)
(* callback, whose errors are swallowed, feed nothing that is modelled     *)
(* here.  BlockRegistry runs without a TTL, its default.  start() and      *)
(* stop() are called by one thread, the agent's owner.                     *)
(***************************************************************************)
EXTENDS ReconciliationDiff, FiniteSets

CONSTANTS
    Timers,         \* bound: timer threads that may exist at one time
    Callers,        \* threads that call run_cycle themselves
    NoTimer,
    MaxStarts,      \* bound: calls of start() in one process
    Environments    \* the surroundings considered

(* positions, orders: the lists the broker and the stores may hold; moves:  *)
(* they change while the agent runs; raises: a provider call may raise;     *)
(* blind: a broker call may fail by returning an empty list; outages: Redis *)
(* may fail; crashes: the process may die and be started again; callers:    *)
(* other threads call run_cycle; starts: how often start() is called.       *)
Environment ==
    [positions : SUBSET Positions, orders : SUBSET Orders,
     moves : BOOLEAN, raises : BOOLEAN, blind : BOOLEAN, outages : BOOLEAN,
     crashes : BOOLEAN, callers : BOOLEAN, starts : 1..MaxStarts]

ASSUME AgentAssumption ==
    /\ Timers \cap Callers = {} /\ NoTimer \notin Timers
    /\ MaxStarts \in Nat \ {0}
    /\ Environments \subseteq Environment

Threads == Timers \cup Callers

(* The four lists in the order run_cycle fetches them.                      *)
Lists == {"bpos", "bord", "ipos", "iord"}
After == [bpos |-> "bord", bord |-> "ipos", ipos |-> "iord", iord |-> "loop"]

Rows(list) == IF list \in {"bpos", "ipos"} THEN Positions ELSE Orders
EmptyBooks == [l \in Lists |-> <<>>]

VARIABLES
    env,          \* the surroundings of this behaviour, chosen once
    book,         \* the four lists as the broker and the stores hold them now
    redisUp,
    redisBlocks,  \* keys with a reconciliation:blocked:* flag in Redis
    memory,       \* BlockRegistry._memory
    last,         \* ReconciliationAgent._last_mismatch_keys
    running,      \* ReconciliationAgent._running
    timer,        \* ReconciliationAgent._timer
    starts,       \* ghost: calls of start() so far
    overlap,      \* ghost: start() armed a timer while an earlier timer's thread
                  \* was still in its cycle, so that there are two chains
    pc,           \* where each thread is
    snap,         \* the lists a cycle has fetched
    todo,         \* mismatches, then stale keys, a cycle has still to handle
    unblocked,    \* {key} between is_blocked's False and block
    current       \* current_mismatch_keys of a cycle

registryVars == <<redisUp, redisBlocks, memory>>
lifeVars == <<running, timer, starts, overlap>>
cycleVars == <<pc, snap, todo, unblocked, current>>
vars == <<env, book, registryVars, last, lifeVars, cycleVars>>

(* Threads inside run_cycle.                                                *)
InCycle == {t \in Threads : pc[t] \notin {"idle", "armed", "resched"}}

Mismatches(lists) ==
    diff_positions(lists["bpos"], lists["ipos"]) \cup diff_orders(lists["bord"], lists["iord"])

Init ==
    /\ env \in Environments
    /\ \E bp, ip \in env.positions, bo, io \in env.orders :
        book = [l \in Lists |-> CASE l = "bpos" -> bp [] l = "ipos" -> ip
                                  [] l = "bord" -> bo [] l = "iord" -> io]
    /\ redisUp = TRUE
    /\ redisBlocks = {} /\ memory = {} /\ last = {}
    /\ running = FALSE /\ timer = NoTimer /\ starts = 0 /\ overlap = FALSE
    /\ pc = [t \in Threads |-> "idle"]
    /\ snap = [t \in Threads |-> EmptyBooks]
    /\ todo = [t \in Threads |-> {}]
    /\ unblocked = [t \in Threads |-> {}]
    /\ current = [t \in Threads |-> {}]

-----------------------------------------------------------------------------
(* The world the agent observes.                                            *)

(* A fill, a manual intervention or a store update changes one list.        *)
BookChanges ==
    /\ env.moves
    /\ \E l \in Lists :
        \E list \in IF l \in {"bpos", "ipos"} THEN env.positions ELSE env.orders :
            list # book[l] /\ book' = [book EXCEPT ![l] = list]
    /\ UNCHANGED <<env, registryVars, last, lifeVars, cycleVars>>

RedisToggles ==
    /\ env.outages
    /\ redisUp' = ~redisUp
    /\ UNCHANGED <<env, book, redisBlocks, memory, last, lifeVars, cycleVars>>

(* The process dies: only Redis survives it.                                *)
Crash ==
    /\ env.crashes /\ starts > 0
    /\ memory' = {} /\ last' = {}
    /\ running' = FALSE /\ timer' = NoTimer /\ starts' = 0 /\ overlap' = FALSE
    /\ pc' = [t \in Threads |-> "idle"]
    /\ snap' = [t \in Threads |-> EmptyBooks]
    /\ todo' = [t \in Threads |-> {}]
    /\ unblocked' = [t \in Threads |-> {}]
    /\ current' = [t \in Threads |-> {}]
    /\ UNCHANGED <<env, book, redisUp, redisBlocks>>

-----------------------------------------------------------------------------
(* BlockRegistry.                                                           *)

is_blocked(k) == k \in memory \/ (redisUp /\ k \in redisBlocks)

(* Mutant: a failed Redis write is logged and dropped.                      *)
blockMutant(k) ==
    /\ redisBlocks' = IF redisUp THEN redisBlocks \cup {k} ELSE redisBlocks
    /\ UNCHANGED memory

block(k) ==
    /\ redisBlocks' = IF redisUp THEN redisBlocks \cup {k} ELSE redisBlocks
    /\ memory' = IF redisUp THEN memory ELSE memory \cup {k}

clear(k) ==
    /\ redisBlocks' = IF redisUp THEN redisBlocks \ {k} ELSE redisBlocks
    /\ memory' = memory \ {k}

-----------------------------------------------------------------------------
(* start(), stop() and the timer chain.                                     *)

(* A new threading.Timer takes a free thread and becomes self._timer.       *)
Arm(t, threads) == pc' = [threads EXCEPT ![t] = "armed"] /\ timer' = t

(* start() arms a timer of its own even if the thread of a timer that was   *)
(* stopped is still in its cycle.                                           *)
Start ==
    /\ starts < env.starts
    /\ starts' = starts + 1
    /\ running' = TRUE
    /\ IF running
          THEN UNCHANGED <<timer, pc, overlap>>
          ELSE /\ \E t \in Timers : pc[t] = "idle"
               /\ Arm(CHOOSE t \in Timers : pc[t] = "idle", pc)
               /\ overlap' = (overlap \/ \E t \in Timers : pc[t] # "idle")
    /\ UNCHANGED <<env, book, registryVars, last, snap, todo, unblocked, current>>

(* Mutant: the waiting timer is forgotten, not cancelled.                   *)
StopMutant ==
    /\ running
    /\ running' = FALSE
    /\ timer' = NoTimer
    /\ UNCHANGED <<env, book, registryVars, last, starts, overlap, cycleVars>>

(* Timer.cancel stops a timer that is still waiting and no other.           *)
Stop ==
    /\ running
    /\ running' = FALSE
    /\ timer' = NoTimer
    /\ pc' = [t \in Threads |-> IF t = timer /\ pc[t] = "armed" THEN "idle" ELSE pc[t]]
    /\ UNCHANGED <<env, book, registryVars, last, starts, overlap, snap, todo, unblocked,
                   current>>

Fire(t) ==
    /\ t \in Timers /\ pc[t] = "armed"
    /\ pc' = [pc EXCEPT ![t] = "bpos"]
    /\ UNCHANGED <<env, book, registryVars, last, lifeVars, snap, todo, unblocked, current>>

(* Mutant: the timer is rearmed without looking at _running.                *)
ScheduleNextMutant(t) ==
    /\ t \in Timers /\ pc[t] = "resched"
    /\ Arm(t, pc)
    /\ UNCHANGED <<env, book, registryVars, last, running, starts, overlap, snap, todo,
                   unblocked, current>>

(* _schedule_next at the end of _fire; the ended thread's slot is reused.   *)
ScheduleNext(t) ==
    /\ t \in Timers /\ pc[t] = "resched"
    /\ IF running THEN Arm(t, pc) ELSE pc' = [pc EXCEPT ![t] = "idle"] /\ UNCHANGED timer
    /\ UNCHANGED <<env, book, registryVars, last, running, starts, overlap, snap, todo,
                   unblocked, current>>

-----------------------------------------------------------------------------
(* run_cycle.                                                               *)

(* Where a thread goes when its cycle ends or raises.                       *)
Leave(t) == IF t \in Timers THEN "resched" ELSE "idle"

CallerCycle(t) ==
    /\ env.callers /\ t \in Callers
    /\ pc[t] = "idle" /\ starts > 0
    /\ pc' = [pc EXCEPT ![t] = "bpos"]
    /\ UNCHANGED <<env, book, registryVars, last, lifeVars, snap, todo, unblocked, current>>

(* One provider call; the last one is followed by the diff.                 *)
Fetched(t, l, rows) ==
    LET lists == [snap[t] EXCEPT ![l] = rows]
    IN  /\ pc' = [pc EXCEPT ![t] = After[l]]
        /\ IF l = "iord"
              THEN /\ todo' = [todo EXCEPT ![t] = Mismatches(lists)]
                   /\ current' = [current EXCEPT ![t] = MismatchKeys(Mismatches(lists))]
                   /\ snap' = [snap EXCEPT ![t] = EmptyBooks]
              ELSE snap' = [snap EXCEPT ![t] = lists] /\ UNCHANGED <<todo, current>>

Fetch(t, l) ==
    /\ pc[t] = l
    /\ Fetched(t, l, book[l])
    /\ UNCHANGED <<env, book, registryVars, last, lifeVars, unblocked>>

(* A broker adapter that cannot reach the broker returns an empty list.     *)
FetchEmpty(t, l) ==
    /\ env.blind
    /\ l \in {"bpos", "bord"} /\ pc[t] = l
    /\ Fetched(t, l, <<>>)
    /\ UNCHANGED <<env, book, registryVars, last, lifeVars, unblocked>>

(* Mutant: the exception ends the timer chain.                              *)
FetchRaisesMutant(t, l) ==
    /\ env.raises
    /\ pc[t] = l
    /\ pc' = [pc EXCEPT ![t] = "idle"]
    /\ snap' = [snap EXCEPT ![t] = EmptyBooks]
    /\ UNCHANGED <<env, book, registryVars, last, lifeVars, todo, unblocked, current>>

(* The exception leaves run_cycle; _fire logs it and reschedules.           *)
FetchRaises(t, l) ==
    /\ env.raises
    /\ pc[t] = l
    /\ pc' = [pc EXCEPT ![t] = Leave(t)]
    /\ snap' = [snap EXCEPT ![t] = EmptyBooks]
    /\ UNCHANGED <<env, book, registryVars, last, lifeVars, todo, unblocked, current>>

(* One mismatch: published, and tested against the registry.               *)
CheckMismatch(t, m) ==
    /\ pc[t] = "loop" /\ m \in todo[t] /\ unblocked[t] = {}
    /\ todo' = [todo EXCEPT ![t] = @ \ {m}]
    /\ unblocked' = [unblocked EXCEPT ![t] = IF is_blocked(m.key) THEN {} ELSE {m.key}]
    /\ UNCHANGED <<env, book, registryVars, last, lifeVars, pc, snap, current>>

(* The symbol the test found unblocked is blocked.                          *)
BlockKey(t, k) ==
    /\ unblocked[t] = {k}
    /\ block(k)
    /\ unblocked' = [unblocked EXCEPT ![t] = {}]
    /\ UNCHANGED <<env, book, redisUp, last, lifeVars, pc, snap, todo, current>>

(* Mutant: _last_mismatch_keys is replaced before the stale keys are taken. *)
ComputeStaleMutant(t) ==
    /\ pc[t] = "loop" /\ todo[t] = {} /\ unblocked[t] = {}
    /\ last' = current[t]
    /\ todo' = [todo EXCEPT ![t] = last' \ current[t]]
    /\ pc' = [pc EXCEPT ![t] = "clear"]
    /\ UNCHANGED <<env, book, registryVars, lifeVars, snap, unblocked, current>>

ComputeStale(t) ==
    /\ pc[t] = "loop" /\ todo[t] = {} /\ unblocked[t] = {}
    /\ todo' = [todo EXCEPT ![t] = last \ current[t]]
    /\ pc' = [pc EXCEPT ![t] = "clear"]
    /\ UNCHANGED <<env, book, registryVars, last, lifeVars, snap, unblocked, current>>

ClearStale(t, k) ==
    /\ pc[t] = "clear" /\ k \in todo[t]
    /\ clear(k)
    /\ todo' = [todo EXCEPT ![t] = @ \ {k}]
    /\ UNCHANGED <<env, book, redisUp, last, lifeVars, pc, snap, unblocked, current>>

EndCycle(t) ==
    /\ pc[t] = "clear" /\ todo[t] = {}
    /\ last' = current[t]
    /\ current' = [current EXCEPT ![t] = {}]
    /\ pc' = [pc EXCEPT ![t] = Leave(t)]
    /\ UNCHANGED <<env, book, registryVars, lifeVars, snap, todo, unblocked>>

-----------------------------------------------------------------------------
ThreadStep(t) ==
    \/ \E m \in todo[t] : CheckMismatch(t, m)
    \/ \E k \in Keys : BlockKey(t, k) \/ ClearStale(t, k)
    \/ ComputeStale(t) \/ EndCycle(t)
    \/ ScheduleNext(t) \/ Fire(t)

Next ==
    \/ BookChanges \/ RedisToggles \/ Crash
    \/ Start \/ Stop
    \/ \E t \in Threads :
        \/ ThreadStep(t) \/ CallerCycle(t)
        \/ \E l \in Lists : Fetch(t, l) \/ FetchEmpty(t, l) \/ FetchRaises(t, l)

Spec == Init /\ [][Next]_vars

(* Timers fire and their threads run, the process is started, and a         *)
(* provider that keeps being called keeps answering.  A caller may get      *)
(* stuck anywhere in its cycle.                                             *)
FairSpec ==
    /\ Spec
    /\ WF_vars(Start /\ starts = 0)
    /\ \A t \in Timers : WF_vars(ThreadStep(t)) /\ \A l \in Lists : SF_vars(Fetch(t, l))

-----------------------------------------------------------------------------
(* Every variable has its type: what a cycle has fetched is a list of rows, *)
(* whatever the providers answered.                                         *)
TypeOK ==
    /\ env \in Environments
    /\ \A l \in Lists : book[l] \in Rows(l)
    /\ redisUp \in BOOLEAN /\ running \in BOOLEAN
    /\ redisBlocks \subseteq Keys /\ memory \subseteq Keys /\ last \subseteq Keys
    /\ timer \in Timers \cup {NoTimer} /\ starts \in 0..MaxStarts /\ overlap \in BOOLEAN
    /\ pc \in [Threads -> Lists \cup {"idle", "armed", "loop", "clear", "resched"}]
    /\ \A t \in Threads :
        /\ \A l \in Lists : snap[t][l] \in Rows(l)
        /\ current[t] \subseteq Keys /\ unblocked[t] \subseteq Keys

(* The differ reports a symbol exactly when its last rows drift in quantity *)
(* or in price, and an order exactly when its last rows differ, in every    *)
(* pair of lists the run reaches, those with several rows of a symbol too.  *)
DiffExact ==
    /\ PositionsExact(book["bpos"], book["ipos"])
    /\ OrdersExact(book["bord"], book["iord"])

(* Between cycles exactly the symbols the last completed cycle found        *)
(* mismatched are blocked (run_cycle's loop, stale clearing and             *)
(* _last_mismatch_keys together), however providers fail in between: with   *)
(* Redis up, one process and no cycle but those of one chain of timers.     *)
BlocksMatchLastCycle ==
    InCycle = {} /\ ~overlap /\ ~env.callers /\ ~env.outages /\ ~env.crashes
        => {k \in Keys : is_blocked(k)} = last

(* Through Redis failures and crashes at any step, a symbol the cycles of   *)
(* one chain of timers found mismatched keeps a block mark, in Redis or in  *)
(* memory (BlockRegistry.block's fallback).                                 *)
FlaggedKeepsMark ==
    InCycle = {} /\ ~overlap /\ ~env.callers => last \subseteq redisBlocks \cup memory

(* stop() leaves no timer waiting to start another cycle, wherever in a     *)
(* cycle it falls and however often the agent was started and stopped       *)
(* before, as long as no start() came while the thread of a stopped timer   *)
(* was still in its cycle.                                                  *)
StopQuiesces == ~running /\ ~overlap => \A t \in Timers : pc[t] # "armed"

(* stop(): "Stop the background reconciliation timer.": afterwards no timer *)
(* is waiting to start another cycle.                                       *)
StopStopsTimer == ~running => \A t \in Timers : pc[t] # "armed"

(* An agent that is stopped for good comes to rest: every timer thread ends *)
(* (_schedule_next looks at _running), those of a chain that stop() could   *)
(* not cancel too.                                                          *)
StoppedComesToRest == <>[]~running => <>[](\A t \in Timers : pc[t] = "idle")

(* The rows and orders a symbol has in the four lists.                      *)
RowsOf(k) ==
    LET positions(l) == SelectSeq(book[l], LAMBDA row : row.key = k)
        ids == {o \in OrderIds : \E l \in {"bord", "iord"} :
                    \E n \in DOMAIN book[l] : book[l][n].id = o /\ book[l][n].key = k}
        orders(l) == SelectSeq(book[l], LAMBDA row : row.id \in ids)
    IN  <<positions("bpos"), positions("ipos"), orders("bord"), orders("iord")>>

(* From some time on the agent runs, Redis answers and k stays as it is.    *)
Settles(k) == <>[](running /\ redisUp) /\ <>[][UNCHANGED RowsOf(k)]_vars

(* README: a symbol is blocked "until the next clean cycle": one that       *)
(* settles mismatched ends up blocked for good, though the lists are        *)
(* fetched at different moments, providers raise now and then, other        *)
(* threads run cycles too and Redis or the process failed before; only a    *)
(* provider that returns empty lists may hide it.                           *)
DriftIsBlocked ==
    ~env.blind =>
        \A k \in Keys :
            Settles(k) /\ <>[](k \in MismatchKeys(Mismatches(book))) => <>[]is_blocked(k)

(* agent.py: "Clears the block when the mismatch resolves in the next       *)
(* cycle": a symbol that settles reconciled ends up unblocked, provided     *)
(* that Redis did not fail, the process did not die and no two cycles ran   *)
(* at once.                                                                 *)
ResolvedIsCleared ==
    ~(env.blind \/ env.outages \/ env.crashes \/ env.callers) /\ []~overlap =>
        \A k \in Keys :
            Settles(k) /\ <>[](k \notin MismatchKeys(Mismatches(book))) => <>[]~is_blocked(k)
=============================================================================
