----------------------------- MODULE ActrMemory -----------------------------
(***************************************************************************)
(* M18 ACT-R memory (shared/orchestrator/memory.py): the three tiers of    *)
(* ACTRMemory, the Redis behind ShortTermMemory and the database behind    *)
(* LongTermMemory, either of which may fail, and the end of the process.   *)
(*                                                                         *)
(* A text is represented by its length: distinct texts have distinct       *)
(* lengths, which is all that token_count looks at.  The three tiers share *)
(* nothing, so a behaviour uses one of them (memTier).                     *)
(***************************************************************************)
EXTENDS Integers, FiniteSets, Sequences, SequencesExt, Selection

CONSTANTS
    MemKeys,        \* the keys callers use
    Texts,          \* the texts they store, as lengths
    WorkingMax,     \* WORKING_MEMORY_MAX_TOKENS
    MaxRetrievals,  \* bound: retrievals recorded for one entry
    MaxMemClock     \* bound: the clock that stamps retrievals

ASSUME MemoryAssumption ==
    /\ IsFiniteSet(MemKeys) /\ Texts \subseteq Nat \ {0}
    /\ WorkingMax \in Nat /\ MaxRetrievals \in Nat /\ MaxMemClock \in Nat \ {0}

VARIABLES
    memTier,   \* the tier in use, chosen once
    wmStore,   \* WorkingMemory._store
    wmOrder,   \* WorkingMemory._order
    stmLocal,  \* ShortTermMemory._memory
    stmRedis,  \* the keys under SHORT_TERM_MEMORY_REDIS_KEY_PREFIX
    ltm,       \* LongTermMemory._memory: content and retrieved_at_seconds
    ltmOrder,  \* its keys in the order they were first stored
    ltmDb,     \* table orchestrator_long_term_memory
    backend,   \* the Redis or database client: "none", "up" or "down"
    memClock,  \* time.time()
    lastWord,  \* ghost: what the caller last stored under the key, 0 for nothing
    wroteTo    \* ghost: how backend was when the key was last written

memVars == <<memTier, wmStore, wmOrder, stmLocal, stmRedis, ltm, ltmOrder, ltmDb,
             backend, memClock, lastWord, wroteTo>>

Nothing  == 0
Tiers    == {"working", "short_term", "long_term"}
Empty    == [k \in {} |-> Nothing]
Drop(f, k)   == [j \in DOMAIN f \ {k} |-> f[j]]
Put(f, k, v) == [j \in DOMAIN f \cup {k} |-> IF j = k THEN v ELSE f[j]]
Get(f, k)    == IF k \in DOMAIN f THEN f[k] ELSE Nothing

(* The three constructors; a backend may be missing (client None).          *)
MemInit ==
    /\ memTier \in Tiers
    /\ wmStore = Empty /\ wmOrder = <<>>
    /\ stmLocal = Empty /\ stmRedis = Empty
    /\ ltm = Empty /\ ltmOrder = <<>> /\ ltmDb = Empty
    /\ backend \in IF memTier = "working" THEN {"none"} ELSE {"none", "up"}
    /\ memClock = 1
    /\ lastWord = [k \in MemKeys |-> Nothing]
    /\ wroteTo = [k \in MemKeys |-> backend]

Wrote(k, v) == /\ lastWord' = [lastWord EXCEPT ![k] = v]
               /\ wroteTo' = [wroteTo EXCEPT ![k] = backend]

-----------------------------------------------------------------------------
(* WorkingMemory                                                            *)

workingOthers == <<memTier, stmLocal, stmRedis, ltm, ltmOrder, ltmDb, backend, memClock>>

(* _approx_tokens *)
ApproxTokens(text) == Max({1, text \div 4})

(* WorkingMemory.token_count, of the entries listed in order *)
TokenCount(store, order) ==
    FoldSeq(LAMBDA k, total : total + ApproxTokens(store[k]), 0, order)

(* WorkingMemory._prune: the oldest entries go until the budget holds.      *)
Prune(store, order) ==
    LET kept == {n \in 0..Len(order) :
                    TokenCount(store, SubSeq(order, n + 1, Len(order))) <= WorkingMax}
    IN  SubSeq(order, Min(kept) + 1, Len(order))

(* WorkingMemory.put: what _prune pops from the order leaves the store too. *)
WorkingPut(key, value) ==
    LET store   == Put(wmStore, key, value)
        listed  == Append(Remove(wmOrder, key), key)
        order   == Prune(store, listed)
        evicted == ToSet(listed) \ ToSet(order)
    IN  /\ wmOrder' = order
        /\ wmStore' = [k \in DOMAIN store \ evicted |-> store[k]]
        /\ Wrote(key, value)
        /\ UNCHANGED workingOthers

(* WorkingMemory.get *)
WorkingGet(key) == Get(wmStore, key)

(* WorkingMemory.delete *)
WorkingDelete(key) ==
    /\ key \in DOMAIN wmStore
    /\ wmStore' = Drop(wmStore, key)
    /\ wmOrder' = Remove(wmOrder, key)
    /\ Wrote(key, Nothing)
    /\ UNCHANGED workingOthers

-----------------------------------------------------------------------------
(* ShortTermMemory                                                          *)

shortOthers == <<memTier, wmStore, wmOrder, ltm, ltmOrder, ltmDb, backend, memClock>>

(* ShortTermMemory.put: Redis with a TTL; the dictionary when there is no   *)
(* client or the SET raises.                                                *)
ShortPut(key, value) ==
    /\ IF backend = "up"
       THEN stmRedis' = Put(stmRedis, key, value) /\ UNCHANGED stmLocal
       ELSE stmLocal' = Put(stmLocal, key, value) /\ UNCHANGED stmRedis
    /\ Wrote(key, value)
    /\ UNCHANGED shortOthers

(* Mutant: the dictionary is asked first.                                   *)
ShortGetMutant(key) ==
    IF key \in DOMAIN stmLocal THEN stmLocal[key] ELSE Get(stmRedis, key)

(* ShortTermMemory.get: a reachable Redis has the last word, even when it   *)
(* says nothing.                                                            *)
ShortGet(key) == IF backend = "up" THEN Get(stmRedis, key) ELSE Get(stmLocal, key)

(* ShortTermMemory.delete: the local entry goes even when Redis fails.      *)
ShortDelete(key) ==
    /\ stmRedis' = IF backend = "up" THEN Drop(stmRedis, key) ELSE stmRedis
    /\ stmLocal' = Drop(stmLocal, key)
    /\ Wrote(key, Nothing)
    /\ UNCHANGED shortOthers

(* SHORT_TERM_MEMORY_TTL_SECONDS after the SET, Redis drops the key.        *)
ShortExpire(key) ==
    /\ key \in DOMAIN stmRedis
    /\ stmRedis' = Drop(stmRedis, key)
    /\ UNCHANGED <<stmLocal, lastWord, wroteTo, shortOthers>>

-----------------------------------------------------------------------------
(* LongTermMemory                                                           *)

longOthers == <<memTier, wmStore, wmOrder, stmLocal, stmRedis, backend, memClock>>

(* 1000 * elapsed^(-ACT_R_DECAY_PARAM) for the decay 0.5, cut to integers;  *)
(* an elapsed time that is not positive (here: zero) counts as a            *)
(* millisecond.                                                             *)
Decay ==
    [elapsed \in 0..MaxMemClock |->
        IF elapsed = 0 THEN 31622 ELSE CHOOSE n \in 0..1000 :
            n * n * elapsed <= 1000000 /\ (n + 1) * (n + 1) * elapsed > 1000000]

(* The bound on the clock is low enough for the integers to tell any two    *)
(* ages apart, as the floats of the code do, and never to cut one to zero.  *)
ASSUME DecayAssumption ==
    \A e \in 0..MaxMemClock :
        Decay[e] \in Nat \ {0} /\ \A d \in 0..MaxMemClock : d < e => Decay[e] < Decay[d]

(* LongTermMemoryEntry.activation_score without its logarithm, which keeps  *)
(* the order; 0 stands for minus infinity.                                  *)
Activation(entry, now) ==
    SumFunctionOnSet([i \in DOMAIN entry.at |-> Decay[now - entry.at[i]]], DOMAIN entry.at)

(* LongTermMemory.store, and _persist, whose errors are swallowed           *)
LongStore(key, content) ==
    /\ IF key \in DOMAIN ltm
       THEN ltm' = [ltm EXCEPT ![key].content = content] /\ UNCHANGED ltmOrder
       ELSE /\ ltm' = Put(ltm, key, [content |-> content, at |-> <<>>])
            /\ ltmOrder' = Append(ltmOrder, key)
    /\ ltmDb' = IF backend = "up" THEN Put(ltmDb, key, content) ELSE ltmDb
    /\ Wrote(key, content)
    /\ UNCHANGED longOthers

(* LongTermMemoryEntry.record_retrieval *)
RecordRetrieval(entry) == [entry EXCEPT !.at = Append(@, memClock)]

(* LongTermMemory.retrieve with record_access *)
LongRetrieve(key) ==
    /\ key \in DOMAIN ltm /\ Len(ltm[key].at) < MaxRetrievals
    /\ ltm' = [ltm EXCEPT ![key] = RecordRetrieval(@)]
    /\ UNCHANGED <<ltmOrder, ltmDb, lastWord, wroteTo, longOthers>>

LongGet(key) == IF key \in DOMAIN ltm THEN ltm[key].content ELSE Nothing

(* LongTermMemory.score_nightly *)
ScoreNightly(now) == [key \in DOMAIN ltm |-> Activation(ltm[key], now)]

(* Python's sort with reverse=True is stable: equal scores stay in order.   *)
Ranked(keys, score) ==
    LET before == {p \in (1..Len(keys)) \X (1..Len(keys)) :
                      \/ score[keys[p[1]]] > score[keys[p[2]]]
                      \/ score[keys[p[1]]] = score[keys[p[2]]] /\ p[1] < p[2]}
        places == InOrder(1..Len(keys), before)
    IN  [n \in 1..Len(keys) |-> keys[places[n]]]

(* LongTermMemory.retrieve_top_k: highest activation first.                 *)
RetrieveTopK(k, now) ==
    SubSeq(Ranked(ltmOrder, ScoreNightly(now)), 1, Min({k, Len(ltmOrder)}))

-----------------------------------------------------------------------------
(* ACTRMemory.remember and recall                                           *)

Remember(key, value, tier) ==
    CASE tier = "short_term" -> ShortPut(key, value)
      [] tier = "long_term"  -> LongStore(key, value)
      [] OTHER               -> WorkingPut(key, value)

Recall(key, tier) ==
    CASE tier = "short_term" -> ShortGet(key)
      [] tier = "long_term"  -> LongGet(key)
      [] OTHER               -> WorkingGet(key)

(* The client fails and works again; the clock; the process ends and starts *)
(* with empty dictionaries, and nothing reads the table back.               *)
BackendToggles ==
    /\ backend # "none"
    /\ backend' = IF backend = "up" THEN "down" ELSE "up"
    /\ UNCHANGED <<memTier, wmStore, wmOrder, stmLocal, stmRedis, ltm, ltmOrder, ltmDb,
                   memClock, lastWord, wroteTo>>

MemTick ==
    /\ memTier = "long_term" /\ memClock < MaxMemClock
    /\ memClock' = memClock + 1
    /\ UNCHANGED <<memTier, wmStore, wmOrder, stmLocal, stmRedis, ltm, ltmOrder, ltmDb,
                   backend, lastWord, wroteTo>>

MemRestart ==
    /\ wmStore' = Empty /\ wmOrder' = <<>> /\ stmLocal' = Empty
    /\ ltm' = Empty /\ ltmOrder' = <<>>
    /\ lastWord' = [k \in MemKeys |->
          IF memTier = "short_term" /\ wroteTo[k] = "up" THEN lastWord[k] ELSE Nothing]
    /\ UNCHANGED <<memTier, stmRedis, ltmDb, backend, memClock, wroteTo>>

MemNext ==
    \/ \E key \in MemKeys, v \in Texts : Remember(key, v, memTier)
    \/ \E key \in MemKeys :
          \/ memTier = "working" /\ WorkingDelete(key)
          \/ memTier = "short_term" /\ (ShortDelete(key) \/ ShortExpire(key))
          \/ memTier = "long_term" /\ LongRetrieve(key)
    \/ BackendToggles \/ MemTick \/ MemRestart

-----------------------------------------------------------------------------
(* recall() answers with what was last remembered under the key, or with    *)
(* nothing (evicted, expired, forgotten by a restart), never with an older  *)
(* value.  For the short-term tier this holds as long as the backend is as  *)
(* it was at the last write (memory.py:174): across an outage, or after its *)
(* end, an older value may be the answer.                                   *)
RecallIsLast ==
    \A k \in MemKeys :
        (memTier = "short_term" => wroteTo[k] = backend)
            => Recall(k, memTier) \in {Nothing, lastWord[k]}

(* An entry retrieved at least as often as another, and each time at least  *)
(* as recently, ranks before it in retrieve_top_k: activation rewards       *)
(* recency, and an entry never retrieved comes last.                        *)
RecencyRanks ==
    LET top == RetrieveTopK(Cardinality(MemKeys), memClock)
        Dominates(a, b) ==
            /\ Len(a.at) >= Len(b.at)
            /\ \A i \in 1..Len(b.at) : a.at[Len(a.at) - i + 1] >= b.at[Len(b.at) - i + 1]
            /\ a.at # b.at
    IN  \A i, j \in 1..Len(top) : Dominates(ltm[top[i]], ltm[top[j]]) => i < j
=============================================================================
