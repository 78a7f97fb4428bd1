--------------------------- MODULE ServicesProofs ---------------------------
(***************************************************************************)
(* Proofs about the services around trading: the alert dispatcher and the  *)
(* sentiment agents, the memory tiers, the watchlist, the corporate        *)
(* actions and the walk-forward backtest.                                  *)
(***************************************************************************)
EXTENDS Alerts, ActrMemory, Universe, Backtest, Instruments, CollectionLemmas,
        FiniteSetTheorems, SequenceTheorems, TLAPS

(* A set of natural numbers with an upper bound has its Max.                *)
LEMMA MaxOfSet ==
    ASSUME NEW S \in SUBSET Nat, S # {}, NEW n \in Nat, \A x \in S : x <= n
    PROVE  Max(S) \in S
  <1> DEFINE R == OpToRel(<, Nat)
             B == {u \in Nat : \A x \in S : x <= u}
  <1>1. IsWellFoundedOn(R, Nat)
    BY NatLessThanWellFounded
  <1>r. \A x, y \in Nat : x < y => <<x, y>> \in R
    BY Zenon DEF OpToRel
  <1> HIDE DEF R
  <1>2. B \subseteq Nat /\ B # {}
    OBVIOUS
  <1>3. PICK m \in B : \A y \in B : ~ (<<y, m>> \in R)
    BY <1>1, <1>2, WFMin
  <1>4. \A y \in B : m <= y
    <2>1. \A y \in B : ~(y < m)
      BY <1>2, <1>3, <1>r, Zenon
    <2> QED BY <2>1
  <1>5. m \in S
    <2> SUFFICES ASSUME m \notin S PROVE FALSE
      OBVIOUS
    <2>1. PICK x \in S : TRUE
      OBVIOUS
    <2>2. m > 0 /\ m - 1 \in Nat
      BY <2>1, <1>3
    <2>3. m - 1 \in B
      BY <2>2, <1>3
    <2> QED BY <2>3, <1>4, <1>3
  <1>6. \A x \in S : m >= x
    BY <1>3
  <1> QED BY <1>5, <1>6 DEF Max

-----------------------------------------------------------------------------
(* AlertDispatcher and LLMCostAlerter, beside the sentiment agents, which   *)
(* may run on their feeds or on a caller's headline.                        *)

DispatchNext ==
    \/ AlertNext
    \/ NewsNext /\ UNCHANGED alertVars
    \/ \E x \in Exchanges, text \in Headlines : BeginCustomRun(x, text)

AlertSpec == NewsInit /\ AlertInit /\ [][DispatchNext]_<<newsVars, alertVars>>

AlertTyped ==
    /\ clock \in Nat /\ sendTimes \in Seq(Nat)
    /\ delivered \in Seq([type : AlertTypes, time : Nat])

(* The deque is the end of the history: what was dropped from it had left   *)
(* the window, and what is in it is when the last messages were sent.       *)
DequeIsTail ==
    /\ Len(sendTimes) <= Len(delivered)
    /\ \A m \in 1..(Len(delivered) - Len(sendTimes)) : delivered[m].time < clock - Minute
    /\ \A i \in 1..Len(sendTimes) :
          sendTimes[i] = delivered[Len(delivered) - Len(sendTimes) + i].time

AlertInv == AlertTyped /\ DequeIsTail /\ RateLimited

(* Nothing has been sent.                                                   *)
LEMMA AlertInitInv == NewsInit /\ AlertInit => AlertInv
  BY DEF NewsInit, AlertInit, AlertInv, AlertTyped, DequeIsTail, RateLimited, Indices

(* A step of the agents neither sends nor moves the clock.                  *)
LEMMA NewsKeepsClock ==
    ASSUME NewsNext \/ \E x \in Exchanges, text \in Headlines : BeginCustomRun(x, text)
    PROVE  clock' = clock
  <1>1. CASE CacheClear \/ NewsRedisToggles
    BY <1>1 DEF CacheClear, NewsRedisToggles
  <1>2. CASE \E x \in Exchanges, text \in Headlines : BeginCustomRun(x, text)
    BY <1>2 DEF BeginCustomRun, newsOthers
  <1>3. CASE \E x \in Exchanges : BeginRun(x) \/ NewsStep(x) \/ ResetDaily(x)
    <2> PICK x \in Exchanges : BeginRun(x) \/ NewsStep(x) \/ ResetDaily(x)
      BY <1>3
    <2>1. BeginRun(x) => clock' = clock
      BY DEF BeginRun, newsOthers
    <2>2. ResetDaily(x) => clock' = clock
      BY DEF ResetDaily
    <2>3. Lookup(x) \/ Score(x) \/ Finish(x) => clock' = clock
      BY DEF Lookup, Score, Finish, newsOthers
    <2>4. Record(x) \/ PutScore(x) => clock' = clock
      BY DEF Record, PutScore
    <2> QED BY <2>1, <2>2, <2>3, <2>4 DEF NewsStep
  <1> QED BY <1>1, <1>2, <1>3 DEF NewsNext

(* What _is_rate_limited leaves is an end of the deque, and all it popped   *)
(* was older than the window.                                               *)
LEMMA RecentIsSuffix ==
    ASSUME AlertTyped
    PROVE  \E n \in 0..Len(sendTimes) :
              /\ Recent = SubSeq(sendTimes, n + 1, Len(sendTimes))
              /\ \A i \in 1..n : sendTimes[i] < clock - Minute
  <1> DEFINE stale == {n \in 0..Len(sendTimes) :
                          \A i \in 1..n : sendTimes[i] < clock - Minute}
  <1>1. Len(sendTimes) \in Nat
    BY DEF AlertTyped
  <1>2. 0 \in stale /\ stale \in SUBSET Nat /\ \A x \in stale : x <= Len(sendTimes)
    BY <1>1
  <1>3. Max(stale) \in stale
    <2> HIDE DEF stale
    <2> QED BY <1>1, <1>2, MaxOfSet
  <1>4. Recent = SubSeq(sendTimes, Max(stale) + 1, Len(sendTimes))
    BY DEF Recent
  <1> QED BY <1>3, <1>4

(* Pruned or not, the deque that dispatch goes on with is the end of the    *)
(* history.                                                                 *)
LEMMA PruneKeepsTail ==
    ASSUME AlertTyped, DequeIsTail
    PROVE  /\ Recent \in Seq(Nat) /\ Len(Recent) <= Len(delivered)
           /\ \A m \in 1..(Len(delivered) - Len(Recent)) : delivered[m].time < clock - Minute
           /\ \A i \in 1..Len(Recent) :
                 Recent[i] = delivered[Len(delivered) - Len(Recent) + i].time
  <1>1. PICK n \in 0..Len(sendTimes) :
              /\ Recent = SubSeq(sendTimes, n + 1, Len(sendTimes))
              /\ \A i \in 1..n : sendTimes[i] < clock - Minute
    BY RecentIsSuffix
  <1>2. Len(sendTimes) \in Nat /\ Len(delivered) \in Nat
    BY DEF AlertTyped
  <1>3. /\ Recent \in Seq(Nat) /\ Len(Recent) = Len(sendTimes) - n
        /\ \A i \in 1..(Len(sendTimes) - n) : Recent[i] = sendTimes[n + i]
    BY <1>1, <1>2 DEF AlertTyped
  <1> DEFINE k == Len(delivered) - Len(sendTimes)
  <1>4. \A m \in 1..(k + n) : delivered[m].time < clock - Minute
    <2> SUFFICES ASSUME NEW m \in 1..(k + n), ~(m \in 1..k)
                 PROVE  delivered[m].time < clock - Minute
      BY DEF DequeIsTail
    <2>1. m - k \in 1..n /\ m - k \in 1..Len(sendTimes)
      BY <1>2 DEF DequeIsTail
    <2>2. sendTimes[m - k] = delivered[k + (m - k)].time /\ k + (m - k) = m
      BY <2>1, <1>2 DEF DequeIsTail
    <2> QED BY <2>1, <2>2, <1>1
  <1>5. Len(delivered) - Len(Recent) = k + n
    BY <1>2, <1>3
  <1>6. ASSUME NEW i \in 1..Len(Recent)
        PROVE  Recent[i] = delivered[k + n + i].time
    <2>1. n + i \in 1..Len(sendTimes)
      BY <1>2, <1>3
    <2>2. k + (n + i) = k + n + i
      BY <1>2, <2>1
    <2> QED BY <2>1, <2>2, <1>3 DEF DequeIsTail
  <1> HIDE DEF k
  <1> QED BY <1>2, <1>3, <1>4, <1>5, <1>6 DEF DequeIsTail

(* The history's times are times.                                           *)
LEMMA TimesTyped ==
    ASSUME AlertTyped
    PROVE  \A m \in 1..Len(delivered) : delivered[m].time \in Nat
  <1>1. \A m \in 1..Len(delivered) : delivered[m] \in [type : AlertTypes, time : Nat]
    BY ElementOfSeq DEF AlertTyped
  <1> QED BY <1>1

(* The messages of the window are in what _is_rate_limited measures.        *)
LEMMA WindowFits ==
    ASSUME AlertTyped, DequeIsTail
    PROVE  Cardinality({m \in 1..Len(delivered) : delivered[m].time >= clock - Minute})
              <= Len(Recent)
  <1> DEFINE window == {m \in 1..Len(delivered) : delivered[m].time >= clock - Minute}
             first  == Len(delivered) - Len(Recent) + 1
  <1>1. Len(delivered) \in Nat /\ Len(Recent) \in Nat /\ Len(Recent) <= Len(delivered)
    BY PruneKeepsTail DEF AlertTyped
  <1>2. \A m \in 1..Len(delivered) : delivered[m].time \in Nat
    BY TimesTyped
  <1>3. window \subseteq first..Len(delivered)
    <2> SUFFICES ASSUME NEW m \in window, ~(m \in first..Len(delivered)) PROVE FALSE
      OBVIOUS
    <2>1. m \in 1..(Len(delivered) - Len(Recent))
      BY <1>1
    <2>2. delivered[m].time < clock - Minute
      BY <2>1, PruneKeepsTail
    <2> QED BY <2>2, <1>2, AlertsAssumption DEF AlertTyped
  <1>4. IsFiniteSet(first..Len(delivered)) /\ Cardinality(first..Len(delivered)) = Len(Recent)
    <2>1. first \in Int /\ Len(delivered) \in Int /\ first >= 1
          /\ Len(delivered) - first + 1 = Len(Recent)
          /\ (first > Len(delivered) => Len(Recent) = 0)
      BY <1>1
    <2> HIDE DEF first
    <2>2. /\ IsFiniteSet(first..Len(delivered))
          /\ Cardinality(first..Len(delivered)) =
                IF first > Len(delivered) THEN 0 ELSE Len(delivered) - first + 1
      BY <2>1, FS_Interval
    <2> QED BY <2>1, <2>2
  <1>5. Cardinality(window) <= Cardinality(first..Len(delivered))
    <2> HIDE DEF window, first
    <2> QED BY <1>3, <1>4, FS_Subset
  <1> QED BY <1>4, <1>5

(* A message is delivered, and its time appended to an end of the history.  *)
LEMMA DeliverInv ==
    ASSUME AlertInv, NEW type \in AlertTypes, NEW q \in Seq(Nat),
           Len(q) <= Len(delivered),
           \A m \in 1..(Len(delivered) - Len(q)) : delivered[m].time < clock - Minute,
           \A i \in 1..Len(q) : q[i] = delivered[Len(delivered) - Len(q) + i].time,
           type \notin BypassRateLimit => Len(Recent) < RateLimit,
           sendTimes' = Append(q, clock), clock' = clock,
           delivered' = Append(delivered, [type |-> type, time |-> clock])
    PROVE  AlertInv'
  <1> USE DEF AlertInv
  <1>1. /\ Len(delivered) \in Nat /\ Len(q) \in Nat /\ clock \in Nat
        /\ Len(delivered') = Len(delivered) + 1 /\ Len(sendTimes') = Len(q) + 1
        /\ \A m \in 1..Len(delivered) : delivered'[m] = delivered[m]
        /\ delivered'[Len(delivered) + 1] = [type |-> type, time |-> clock]
        /\ \A i \in 1..Len(q) : sendTimes'[i] = q[i]
        /\ sendTimes'[Len(q) + 1] = clock
    BY DEF AlertTyped
  <1>2. AlertTyped'
    BY DEF AlertTyped
  <1> DEFINE k == Len(delivered) - Len(q)
  <1>3. Len(delivered') - Len(sendTimes') = k /\ k \in Nat
    BY <1>1
  <1>4. DequeIsTail'
    <2>1. \A m \in 1..k : delivered'[m].time < clock' - Minute
      <3> TAKE m \in 1..k
      <3>1. m \in 1..Len(delivered)
        BY <1>1
      <3>2. delivered'[m] = delivered[m]
        BY <3>1, <1>1
      <3>3. delivered[m].time < clock - Minute
        OBVIOUS
      <3> QED BY <3>2, <3>3
    <2>2. \A i \in 1..Len(sendTimes') : sendTimes'[i] = delivered'[k + i].time
      <3> SUFFICES ASSUME NEW i \in 1..Len(sendTimes')
                   PROVE  sendTimes'[i] = delivered'[k + i].time
        OBVIOUS
      <3>1. CASE i \in 1..Len(q)
        <4>1. k + i \in 1..Len(delivered)
          BY <3>1, <1>1
        <4> QED BY <4>1, <3>1, <1>1
      <3>2. CASE i = Len(q) + 1
        <4>1. k + i = Len(delivered) + 1
          BY <3>2, <1>1
        <4> QED BY <4>1, <3>2, <1>1
      <3>3. i \in 1..Len(q) \/ i = Len(q) + 1
        <4>1. i \in 1..(Len(q) + 1) /\ Len(q) \in Nat
          BY <1>1
        <4> HIDE DEF AlertInv
        <4> QED BY <4>1
      <3> QED BY <3>1, <3>2, <3>3
    <2>3. Len(sendTimes') <= Len(delivered')
      BY <1>1
    <2> HIDE DEF k
    <2> QED BY <1>3, <2>1, <2>2, <2>3 DEF DequeIsTail
  <1>5. RateLimited'
    <2> SUFFICES ASSUME NEW n \in 1..(Len(delivered) + 1),
                        delivered'[n].type \notin BypassRateLimit
                 PROVE  Cardinality({m \in 1..(n - 1) :
                            delivered'[m].time >= delivered'[n].time - Minute}) < RateLimit
      BY <1>1 DEF RateLimited, Indices
    <2>1. \A m \in 1..(n - 1) : delivered'[m] = delivered[m]
      BY <1>1
    <2>2. CASE n \in 1..Len(delivered)
      <3>1. delivered'[n] = delivered[n]
        BY <2>2, <1>1
      <3>2. {m \in 1..(n - 1) : delivered'[m].time >= delivered'[n].time - Minute}
              = {m \in 1..(n - 1) : delivered[m].time >= delivered[n].time - Minute}
        BY <3>1, <2>1
      <3> QED BY <3>1, <3>2, <2>2 DEF RateLimited, Indices
    <2>3. CASE n = Len(delivered) + 1
      <3>1. delivered'[n].time = clock /\ delivered'[n].type = type /\ n - 1 = Len(delivered)
        BY <2>3, <1>1
      <3>2. {m \in 1..(n - 1) : delivered'[m].time >= delivered'[n].time - Minute}
              = {m \in 1..Len(delivered) : delivered[m].time >= clock - Minute}
        BY <3>1, <2>1
      <3>3. Cardinality({m \in 1..Len(delivered) : delivered[m].time >= clock - Minute})
              \in Nat
        <4>1. IsFiniteSet(1..Len(delivered))
          <5>1. 1 \in Int /\ Len(delivered) \in Int
            BY <1>1
          <5> QED BY <5>1, FS_Interval
        <4> QED BY <4>1, FS_Subset, FS_CardinalityType
      <3>4. Len(Recent) \in Nat /\ RateLimit \in Nat
        BY PruneKeepsTail, AlertsAssumption
      <3>5. Len(Recent) < RateLimit
        BY <3>1
      <3>6. PICK c : c = Cardinality({m \in 1..Len(delivered) :
                                         delivered[m].time >= clock - Minute})
        OBVIOUS
      <3>7. c \in Nat /\ c <= Len(Recent)
        BY <3>3, <3>6, WindowFits
      <3>8. c < RateLimit
        BY <3>4, <3>5, <3>7
      <3> QED BY <3>2, <3>6, <3>8
    <2>4. n \in 1..Len(delivered) \/ n = Len(delivered) + 1
      BY <1>1
    <2> QED BY <2>2, <2>3, <2>4
  <1> QED BY <1>2, <1>4, <1>5

(* Whatever dispatch does with an alert: limited, sent, or failed to send.  *)
LEMMA DispatchInv ==
    ASSUME AlertInv, NEW type \in AlertTypes, Dispatch(type), clock' = clock
    PROVE  AlertInv'
  <1> DEFINE pruned == IF type \in BypassRateLimit THEN sendTimes ELSE Recent
  <1>1. /\ pruned \in Seq(Nat) /\ Len(pruned) <= Len(delivered)
        /\ \A m \in 1..(Len(delivered) - Len(pruned)) : delivered[m].time < clock - Minute
        /\ \A i \in 1..Len(pruned) :
              pruned[i] = delivered[Len(delivered) - Len(pruned) + i].time
    <2>1. CASE type \in BypassRateLimit
      BY <2>1 DEF AlertInv, AlertTyped, DequeIsTail
    <2>2. CASE type \notin BypassRateLimit
      BY <2>2, PruneKeepsTail DEF AlertInv
    <2> QED BY <2>1, <2>2
  <1>2. PICK q : q = pruned
    OBVIOUS
  <1>3. ASSUME sendTimes' = q, delivered' = delivered PROVE AlertInv'
    <2>1. AlertTyped' /\ DequeIsTail'
      BY <1>1, <1>2, <1>3 DEF AlertInv, AlertTyped, DequeIsTail
    <2>2. RateLimited'
      BY <1>3 DEF AlertInv, RateLimited, Indices
    <2> QED BY <2>1, <2>2 DEF AlertInv
  <1>4. ASSUME ~(type \notin BypassRateLimit /\ Len(Recent) >= RateLimit),
               sendTimes' = Append(q, clock),
               delivered' = Append(delivered, [type |-> type, time |-> clock])
        PROVE  AlertInv'
    <2>1. type \notin BypassRateLimit => Len(Recent) < RateLimit
      <3>1. Len(Recent) \in Nat /\ RateLimit \in Nat
        BY PruneKeepsTail, AlertsAssumption DEF AlertInv
      <3> QED BY <3>1, <1>4
    <2> HIDE DEF pruned
    <2> QED BY <1>1, <1>2, <1>4, <2>1, DeliverInv
  <1>5. \/ sendTimes' = q /\ delivered' = delivered
        \/ /\ ~(type \notin BypassRateLimit /\ Len(Recent) >= RateLimit)
           /\ sendTimes' = Append(q, clock)
           /\ delivered' = Append(delivered, [type |-> type, time |-> clock])
    BY <1>2 DEF Dispatch
  <1> QED BY <1>3, <1>4, <1>5

(* Every step of the dispatcher, the cost alerter, the clock and the agents. *)
LEMMA AlertStepInv ==
    ASSUME AlertInv, [DispatchNext]_<<newsVars, alertVars>>
    PROVE  AlertInv'
  <1>1. ASSUME NEW type \in AlertTypes, RaiseAlert(type) PROVE AlertInv'
    BY <1>1, DispatchInv DEF RaiseAlert, newsVars
  <1>2. ASSUME CheckCost PROVE AlertInv'
    BY <1>2, DispatchInv DEF CheckCost, newsVars, AlertTypes
  <1>3. ASSUME ClockTick PROVE AlertInv'
    <2>1. clock' = clock + 1 /\ sendTimes' = sendTimes /\ delivered' = delivered
      BY <1>3 DEF ClockTick, alertVars
    <2>2. AlertTyped'
      BY <2>1 DEF AlertInv, AlertTyped
    <2>3. DequeIsTail'
      <3>1. \A m \in 1..Len(delivered) : delivered[m].time \in Nat
        BY TimesTyped DEF AlertInv
      <3>2. clock \in Nat /\ Minute \in Nat /\ Len(delivered) \in Nat /\ Len(sendTimes) \in Nat
        BY AlertsAssumption DEF AlertInv, AlertTyped
      <3> QED BY <2>1, <3>1, <3>2 DEF AlertInv, DequeIsTail
    <2>4. RateLimited'
      BY <2>1 DEF AlertInv, RateLimited, Indices
    <2> QED BY <2>2, <2>3, <2>4 DEF AlertInv
  <1>4. ASSUME clock' = clock, UNCHANGED alertVars PROVE AlertInv'
    BY <1>4 DEF alertVars, AlertInv, AlertTyped, DequeIsTail, RateLimited, Indices
  <1>5. ASSUME NEW x \in Exchanges, NEW text \in Headlines, BeginCustomRun(x, text)
        PROVE  AlertInv'
    BY <1>5, <1>4, NewsKeepsClock DEF BeginCustomRun
  <1> QED BY <1>1, <1>2, <1>3, <1>4, <1>5, NewsKeepsClock
          DEF DispatchNext, AlertNext, newsVars

(* An alert that may be limited is delivered only while fewer than          *)
(* RateLimit messages went out in the sixty seconds before it               *)
(* (dispatcher.py:78-110), whatever the order of alerts, bursts of          *)
(* bypassing ones, failed sends and prunings.                               *)
THEOREM RateHolds == AlertSpec => []RateLimited
  <1>1. AlertSpec => []AlertInv
    BY AlertInitInv, AlertStepInv, PTL DEF AlertSpec
  <1>2. AlertInv => RateLimited
    BY DEF AlertInv
  <1> QED BY <1>1, <1>2, PTL

-----------------------------------------------------------------------------
(* SentimentAgent.run: a score for every headline, in order.                *)

(* A score that ScoresAlign allows for a text                               *)
Fits(text, score) == score = Neutral \/ Similarity[text][score] >= Threshold

Scores == Headlines \cup {Neutral}

RunSet ==
    [pc : {"idle", "lookup", "score", "record", "put", "finish"}, custom : BOOLEAN,
     headlines : Seq(Headlines), scores : Seq(Scores \cup {Pending}), asked : Nat,
     new : Seq(Scores), tokens : Nat]

(* The answers so far are for the texts that are missing, in their order.   *)
Answers(r) ==
    /\ Len(r.new) <= Cardinality(Missing(r))
    /\ \A k \in 1..Len(r.new) : r.new[k] \in {r.headlines[Ascending(Missing(r))[k]], Neutral}

(* What a run knows at each step                                            *)
RunOk(r) ==
    /\ r \in RunSet
    /\ Len(r.scores) <= Len(r.headlines)
    /\ \A i \in 1..Len(r.scores) : r.scores[i] = Pending \/ Fits(r.headlines[i], r.scores[i])
    /\ r.pc = "lookup" => Len(r.scores) < Len(r.headlines) /\ r.asked = 0 /\ r.new = <<>>
    /\ r.pc \in {"score", "record", "put", "finish"} => Len(r.scores) = Len(r.headlines)
    /\ r.pc \in {"score", "record", "put"} => Answers(r)
    /\ r.pc = "score" => /\ Len(r.new) = r.asked
                         /\ Missing(r) = {} \/ r.asked < Cardinality(Missing(r))
    /\ r.pc \in {"record", "put"} => Len(r.new) = Cardinality(Missing(r))
    /\ r.pc = "finish" => Missing(r) = {}

ReportOk(r) ==
    /\ Len(r.scores) = Len(r.headlines)
    /\ \A i \in Indices(r.scores) : Fits(r.headlines[i], r.scores[i])

CacheEntry == {e \in [text : Headlines, score : Scores] : e.score \in {e.text, Neutral}}

NewsInv ==
    /\ cached \in Seq(CacheEntry)
    /\ DOMAIN srun = Exchanges /\ \A x \in Exchanges : RunOk(srun[x])
    /\ DOMAIN report = Exchanges /\ \A x \in Exchanges : ReportOk(report[x])

(* What the assumptions say of texts, scores and similarities.              *)
LEMMA NewsConstants ==
    /\ Pending \notin Headlines /\ Neutral # Pending /\ Neutral \notin Headlines
    /\ BatchMax \in Nat \ {0} /\ RunMax \in Nat \ {0} /\ CallTokens \in Nat
    /\ \A h \in Headlines : Fits(h, h)
    /\ \A h, g \in Headlines : Similarity[h][g] \in Nat
    /\ Threshold \in Nat
  <1>1. /\ Pending \notin Headlines /\ Neutral # Pending /\ Neutral \notin Headlines
        /\ BatchMax \in Nat \ {0} /\ RunMax \in Nat \ {0} /\ CallTokens \in Nat
        /\ Threshold \in 1..100
    BY SentimentAssumption DEF Pending
  <1>2. \A h \in Headlines : Similarity[h] \in [Headlines -> 0..100] /\ Similarity[h][h] = 100
    BY SentimentAssumption
  <1>3. \A h \in Headlines : Fits(h, h)
    BY <1>1, <1>2 DEF Fits
  <1>4. ASSUME NEW h \in Headlines, NEW g \in Headlines PROVE Similarity[h][g] \in Nat
    <2>1. PICK f \in [Headlines -> 0..100] : f = Similarity[h]
      BY <1>2
    <2>2. f[g] \in Nat
      OBVIOUS
    <2> QED BY <2>1, <2>2
  <1> QED BY <1>1, <1>3, <1>4

(* A least number of a set is its Min.                                      *)
LEMMA MinOfNats ==
    ASSUME NEW S \in SUBSET Nat, S # {}
    PROVE  Min(S) \in S /\ \A y \in S : Min(S) <= y
  <1>1. \E x \in S : \A y \in S : x <= y
    BY LeastNat
  <1> QED BY <1>1 DEF Min

(* The smaller of two numbers, such as the size of a batch.                 *)
LEMMA LesserOfPair ==
    ASSUME NEW a \in Int, NEW b \in Int
    PROVE  Min({a, b}) = IF a <= b THEN a ELSE b
  <1>1. \E x \in {a, b} : \A y \in {a, b} : x <= y
    OBVIOUS
  <1>2. Min({a, b}) \in {a, b} /\ \A y \in {a, b} : Min({a, b}) <= y
    BY <1>1 DEF Min
  <1> QED BY <1>2

(* The texts without a score are finitely many.                             *)
LEMMA MissingFinite ==
    ASSUME NEW r \in RunSet
    PROVE  /\ Missing(r) \in SUBSET (1..Len(r.headlines)) /\ Missing(r) \in SUBSET Int
           /\ IsFiniteSet(Missing(r)) /\ Cardinality(Missing(r)) \in Nat
  <1>1. Len(r.headlines) \in Nat
    BY DEF RunSet
  <1>2. Missing(r) \in SUBSET (1..Len(r.headlines)) /\ Missing(r) \in SUBSET Int
    BY <1>1 DEF Missing, Indices
  <1>3. IsFiniteSet(1..Len(r.headlines))
    BY <1>1, FS_Interval
  <1>4. IsFiniteSet(Missing(r))
    BY <1>2, <1>3, FS_Subset
  <1> QED BY <1>2, <1>4, FS_CardinalityType

(* fetch_all_feeds gives texts.                                             *)
LEMMA FetchedTexts ==
    ASSUME NEW x \in Exchanges, NEW feeds \in FeedDays[x]
    PROVE  FetchAllFeeds(feeds) \in Seq(Headlines)
  <1> DEFINE Entries == [text : Headlines \cup {Blank}, age : Int]
             all     == UNION {{f} \X FetchRss(feeds[f]) : f \in Indices(feeds)}
             text(e) == feeds[e[1]][e[2]].text
             unique  == {e \in all : \A d \in all : Newer(feeds, d, e) => text(d) # text(e)}
             R       == {p \in unique \X unique : Newer(feeds, p[1], p[2])}
             sorted  == InOrder(unique, R)
             age(e)  == PublishedAge(feeds[e[1]][e[2]])
  <1>1. feeds \in Seq(Seq(Entries))
    BY SentimentAssumption
  <1>2. /\ Len(feeds) \in Nat /\ DOMAIN feeds = 1..Len(feeds)
        /\ \A f \in 1..Len(feeds) : feeds[f] \in Seq(Entries)
    BY <1>1
  <1>3. ASSUME NEW f \in Indices(feeds)
        PROVE  /\ IsFiniteSet({f} \X FetchRss(feeds[f]))
               /\ FetchRss(feeds[f]) \in SUBSET Int
               /\ \A i \in FetchRss(feeds[f]) :
                     feeds[f][i].text \in Headlines /\ PublishedAge(feeds[f][i]) \in Int
    <2>1. feeds[f] \in Seq(Entries)
      BY <1>2 DEF Indices
    <2>2. Len(feeds[f]) \in Nat /\ \A i \in 1..Len(feeds[f]) : feeds[f][i] \in Entries
      <3> HIDE DEF Entries
      <3> QED BY <2>1
    <2>3. IsFiniteSet(1..Len(feeds[f]))
      BY <2>2, FS_Interval
    <2>4. FetchRss(feeds[f]) \in SUBSET (1..Len(feeds[f]))
      BY DEF FetchRss, Indices
    <2>5. IsFiniteSet(FetchRss(feeds[f]))
      BY <2>3, <2>4, FS_Subset
    <2>6. IsFiniteSet({f} \X FetchRss(feeds[f]))
      BY <2>5, FS_Singleton, FS_Product
    <2>7. \A e \in Entries : PublishedAge(e) \in Int /\ (e.text # Blank => e.text \in Headlines)
      BY DEF PublishedAge
    <2>8. \A i \in FetchRss(feeds[f]) : feeds[f][i].text # Blank
      BY DEF FetchRss
    <2> HIDE DEF Entries
    <2> QED BY <2>2, <2>4, <2>6, <2>7, <2>8
  <1>4. IsFiniteSet(all)
    <2>1. IsFiniteSet(Indices(feeds))
      BY <1>2, FS_Interval DEF Indices
    <2> DEFINE F == [f \in Indices(feeds) |-> {f} \X FetchRss(feeds[f])]
               U == {{f} \X FetchRss(feeds[f]) : f \in Indices(feeds)}
    <2>2. F \in Surjection(Indices(feeds), U)
      BY DEF Surjection
    <2>3. IsFiniteSet(U)
      <3> HIDE DEF F, U
      <3> QED BY <2>1, <2>2, FS_Surjection
    <2>4. \A u \in U : IsFiniteSet(u)
      BY <1>3
    <2> HIDE DEF U
    <2>5. IsFiniteSet(UNION U)
      BY <2>3, <2>4, FS_UNION
    <2> QED BY <2>5 DEF U
  <1>5. ASSUME NEW e \in all
        PROVE  /\ e = <<e[1], e[2]>> /\ e[1] \in Int /\ e[2] \in Int
               /\ text(e) \in Headlines /\ age(e) \in Int
    <2>1. PICK f \in Indices(feeds) : e \in {f} \X FetchRss(feeds[f])
      OBVIOUS
    <2>2. e = <<e[1], e[2]>> /\ e[1] = f /\ e[2] \in FetchRss(feeds[f])
      BY <2>1
    <2>3. f \in Int
      BY <1>2 DEF Indices
    <2> HIDE DEF all
    <2> QED BY <2>2, <2>3, <1>3
  <1> HIDE DEF all
  <1>6. IsFiniteSet(unique) /\ unique \in SUBSET all
    <2>1. unique \in SUBSET all
      OBVIOUS
    <2> HIDE DEF unique
    <2> QED BY <2>1, <1>4, FS_Subset
  <1>7. \A d, e \in all : Newer(feeds, d, e) <=>
            \/ age(d) < age(e)
            \/ age(d) = age(e) /\ (d[1] < e[1] \/ (d[1] = e[1] /\ d[2] < e[2]))
    BY DEF Newer
  <1>8. StrictOrder(R, unique)
    <2> HIDE DEF age, unique
    <2>0. \A d, e \in unique : <<d, e>> \in R <=> Newer(feeds, d, e)
      OBVIOUS
    <2> HIDE DEF R
    <2>1. \A d \in unique : ~Newer(feeds, d, d)
      BY <1>5, <1>6, <1>7
    <2>2. ASSUME NEW d \in unique, NEW e \in unique, NEW g \in unique,
                 Newer(feeds, d, e), Newer(feeds, e, g)
          PROVE  Newer(feeds, d, g)
      <3>1. /\ d \in all /\ e \in all /\ g \in all
            /\ age(d) \in Int /\ age(e) \in Int /\ age(g) \in Int
            /\ d[1] \in Int /\ e[1] \in Int /\ g[1] \in Int
            /\ d[2] \in Int /\ e[2] \in Int /\ g[2] \in Int
        BY <1>5, <1>6
      <3> QED BY <3>1, <1>7, <2>2
    <2>3. ASSUME NEW d \in unique, NEW e \in unique, d # e
          PROVE  Newer(feeds, d, e) \/ Newer(feeds, e, d)
      <3>1. /\ d \in all /\ e \in all /\ age(d) \in Int /\ age(e) \in Int
            /\ d[1] \in Int /\ e[1] \in Int /\ d[2] \in Int /\ e[2] \in Int
            /\ d = <<d[1], d[2]>> /\ e = <<e[1], e[2]>>
        BY <1>5, <1>6
      <3>2. d[1] # e[1] \/ d[2] # e[2]
        BY <3>1, <2>3
      <3> QED BY <3>1, <3>2, <1>7
    <2> QED BY <2>0, <2>1, <2>2, <2>3 DEF StrictOrder
  <1>9. Cardinality(unique) \in Nat /\ sorted \in [1..Cardinality(unique) -> unique]
    <2> HIDE DEF R, unique
    <2> QED BY <1>6, <1>8, InOrderLists
  <1> DEFINE n == Min({RunMax, Cardinality(unique)})
  <1>10. n \in Nat /\ n <= Cardinality(unique)
    <2> HIDE DEF unique
    <2> QED BY <1>9, NewsConstants, LesserOfPair
  <1>11. FetchAllFeeds(feeds) = [k \in 1..n |-> text(sorted[k])]
    BY DEF FetchAllFeeds, all
  <1> HIDE DEF n, sorted, unique, text
  <1>12. \A k \in 1..n : text(sorted[k]) \in Headlines
    BY <1>5, <1>6, <1>9, <1>10
  <1> QED BY <1>10, <1>11, <1>12

(* A hit of SentimentCache.get fits the text.                               *)
LEMMA CacheFits ==
    ASSUME cached \in Seq(CacheEntry), NEW text \in Headlines
    PROVE  \/ CacheGet(text) = Pending
           \/ CacheGet(text) \in Scores /\ Fits(text, CacheGet(text))
  <1> DEFINE sim(i) == Similarity[text][cached[i].text]
             best   == {i \in Indices(cached) : \A j \in Indices(cached) : sim(j) <= sim(i)}
  <1>1. CacheGet(text) = IF best # {} /\ sim(Min(best)) >= Threshold THEN cached[Min(best)].score
                         ELSE Pending
    BY DEF CacheGet
  <1>2. CASE ~(best # {} /\ sim(Min(best)) >= Threshold)
    BY <1>1, <1>2
  <1>3. CASE best # {} /\ sim(Min(best)) >= Threshold
    <2>1. Len(cached) \in Nat /\ \A i \in 1..Len(cached) : cached[i] \in CacheEntry
      OBVIOUS
    <2>2. best \in SUBSET Nat /\ best \in SUBSET (1..Len(cached))
      BY <2>1 DEF Indices
    <2>3. Min(best) \in best
      <3> HIDE DEF best
      <3> QED BY <1>3, <2>2, MinOfNats
    <2> DEFINE e == cached[Min(best)]
    <2>4. e \in CacheEntry
      <3> HIDE DEF best
      <3> QED BY <2>1, <2>2, <2>3
    <2>5. CacheGet(text) = e.score /\ Similarity[text][e.text] >= Threshold
      BY <1>1, <1>3
    <2> HIDE DEF e
    <2> QED BY <2>4, <2>5 DEF CacheEntry, Fits
  <1> QED BY <1>2, <1>3

(* No agent has run and the cache is empty.                                 *)
LEMMA NewsInitInv == NewsInit => NewsInv
  <1> SUFFICES ASSUME NewsInit PROVE NewsInv
    OBVIOUS
  <1>1. RunOk(NoRunS)
    BY DEF RunOk, NoRunS, RunSet
  <1>2. ReportOk(NoReport)
    BY DEF ReportOk, NoReport, Indices
  <1> QED BY <1>1, <1>2 DEF NewsInit, NewsInv

(* A new run has nothing missing from its answers yet.                      *)
LEMMA FreshRun ==
    ASSUME NEW r \in RunSet, r.headlines # <<>>, r.asked = 0, r.new = <<>>,
           \/ r.pc = "lookup" /\ r.scores = <<>>
           \/ r.pc = "score" /\ r.scores = [i \in 1..Len(r.headlines) |-> Pending]
    PROVE  RunOk(r)
  <1>1. Len(r.headlines) \in Nat /\ Len(r.headlines) > 0
    BY DEF RunSet
  <1>2. CASE r.pc = "lookup" /\ r.scores = <<>>
    BY <1>1, <1>2 DEF RunOk
  <1>3. CASE r.pc = "score" /\ r.scores = [i \in 1..Len(r.headlines) |-> Pending]
    <2>1. /\ Len(r.scores) = Len(r.headlines)
          /\ \A i \in 1..Len(r.headlines) : r.scores[i] = Pending
      BY <1>1, <1>3
    <2>2. Cardinality(Missing(r)) \in Nat /\ Len(r.new) = 0
      BY MissingFinite
    <2>3. Missing(r) = {} \/ Cardinality(Missing(r)) # 0
      BY MissingFinite, FS_EmptySet
    <2>4. Answers(r)
      BY <2>2 DEF Answers
    <2> QED BY <1>1, <1>3, <2>1, <2>2, <2>3, <2>4 DEF RunOk
  <1> QED BY <1>2, <1>3

(* One agent's run moves on.                                                *)
LEMMA RunMoves ==
    ASSUME NewsInv, NEW x \in Exchanges, NEW r, RunOk(r), srun' = [srun EXCEPT ![x] = r],
           cached' \in Seq(CacheEntry), UNCHANGED report
    PROVE  NewsInv'
  <1>1. DOMAIN srun' = Exchanges /\ \A e \in Exchanges : srun'[e] = IF e = x THEN r ELSE srun[e]
    BY DEF NewsInv
  <1> QED BY <1>1 DEF NewsInv

(* run: the headlines are fetched or given.                                 *)
LEMMA BeginInv ==
    ASSUME NewsInv, NEW x \in Exchanges, BeginRun(x) \/ \E text \in Headlines : BeginCustomRun(x, text)
    PROVE  NewsInv'
  <1>c. cached' = cached /\ cached' \in Seq(CacheEntry)
    BY DEF BeginRun, BeginCustomRun, newsOthers, NewsInv
  <1>1. ASSUME NEW h \in Seq(Headlines), h # <<>>, NEW custom \in BOOLEAN,
               UNCHANGED report, srun' = [srun EXCEPT ![x] = NewRun(custom, h)]
        PROVE  NewsInv'
    <2> DEFINE pc == IF newsRedis = "none" THEN "score" ELSE "lookup"
               scores == IF newsRedis = "none" THEN [i \in Indices(h) |-> Pending] ELSE <<>>
               r == NewRun(custom, h)
    <2>1. \/ pc = "lookup" /\ scores = <<>>
          \/ pc = "score" /\ scores = [i \in 1..Len(h) |-> Pending]
      BY DEF Indices
    <2>2. r = [pc |-> pc, custom |-> custom, headlines |-> h, scores |-> scores,
               asked |-> 0, new |-> <<>>, tokens |-> 0]
      BY DEF NewRun
    <2> HIDE DEF pc, scores, r
    <2>3. scores \in Seq(Scores \cup {Pending})
      <3>1. Len(h) \in Nat
        OBVIOUS
      <3>2. [i \in 1..Len(h) |-> Pending] \in Seq(Scores \cup {Pending})
        BY <3>1
      <3>3. <<>> \in Seq(Scores \cup {Pending})
        OBVIOUS
      <3> QED BY <2>1, <3>2, <3>3
    <2>4. r \in RunSet
      BY <2>1, <2>2, <2>3 DEF RunSet
    <2>5. r.headlines = h /\ r.asked = 0 /\ r.new = <<>> /\ r.pc = pc /\ r.scores = scores
      BY <2>2
    <2>6. RunOk(r)
      BY <2>1, <2>4, <2>5, <1>1, FreshRun
    <2>7. srun' = [srun EXCEPT ![x] = r]
      BY <1>1 DEF r
    <2> QED BY <2>6, <2>7, <1>1, <1>c, RunMoves
  <1>2. CASE BeginRun(x)
    <2>1. PICK feeds \in FeedDays[x] :
             LET headlines == FetchAllFeeds(feeds) IN
             IF headlines = <<>>
             THEN report' = [report EXCEPT ![x] = NoReport] /\ UNCHANGED srun
             ELSE srun' = [srun EXCEPT ![x] = NewRun(FALSE, headlines)] /\ UNCHANGED report
      BY <1>2 DEF BeginRun
    <2> DEFINE h == FetchAllFeeds(feeds)
    <2>2. h \in Seq(Headlines)
      BY FetchedTexts
    <2>3. CASE h = <<>>
      <3>1. report' = [report EXCEPT ![x] = NoReport] /\ srun' = srun
        BY <2>1, <2>3
      <3>2. ReportOk(NoReport)
        BY DEF ReportOk, NoReport, Indices
      <3> QED BY <3>1, <3>2, <1>c DEF NewsInv
    <2>4. CASE h # <<>>
      <3>1. UNCHANGED report /\ srun' = [srun EXCEPT ![x] = NewRun(FALSE, h)]
        BY <2>1, <2>4
      <3> HIDE DEF h
      <3> QED BY <3>1, <2>2, <2>4, <1>1
    <2> QED BY <2>3, <2>4
  <1>3. ASSUME NEW text \in Headlines, BeginCustomRun(x, text) PROVE NewsInv'
    <2>1. <<text>> \in Seq(Headlines) /\ <<text>> # <<>>
      OBVIOUS
    <2>2. UNCHANGED report /\ srun' = [srun EXCEPT ![x] = NewRun(TRUE, <<text>>)]
      BY <1>3 DEF BeginCustomRun
    <2> QED BY <2>1, <2>2, <1>1
  <1> QED BY <1>2, <1>3

(* A run that ends early leaves its agent idle.                             *)
LEMMA AbortInv ==
    ASSUME NewsInv, NEW x \in Exchanges, Abort(x), cached' = cached
    PROVE  NewsInv'
  <1>1. RunOk(NoRunS)
    BY DEF RunOk, NoRunS, RunSet
  <1> QED BY <1>1, RunMoves DEF Abort, NewsInv

(* The loop over the headlines: a hit fits, a miss is a placeholder.        *)
LEMMA LookupInv ==
    ASSUME NewsInv, NEW x \in Exchanges, Lookup(x)
    PROVE  NewsInv'
  <1>c. cached' = cached /\ cached' \in Seq(CacheEntry)
    BY DEF Lookup, newsOthers, NewsInv
  <1>1. CASE newsRedis = "down"
    BY <1>1, <1>c, AbortInv DEF Lookup
  <1>2. CASE newsRedis # "down"
    <2> DEFINE r == srun[x]
               n == Len(r.scores)
               s == CacheGet(r.headlines[n + 1])
               pc == IF Len(Append(r.scores, s)) = Len(r.headlines) THEN "score" ELSE r.pc
               q == [r EXCEPT !.scores = Append(r.scores, s), !.pc = pc]
    <2>1. srun' = [srun EXCEPT ![x] = q] /\ UNCHANGED report
      BY <1>2 DEF Lookup
    <2>2. RunOk(r) /\ r.pc = "lookup" /\ r \in RunSet
      BY DEF NewsInv, Lookup, Running, RunOk
    <2>3. n < Len(r.headlines) /\ r.asked = 0 /\ r.new = <<>>
      BY <2>2 DEF RunOk
    <2>4. r.headlines \in Seq(Headlines) /\ r.scores \in Seq(Scores \cup {Pending}) /\ n \in Nat
      BY <2>2 DEF RunSet
    <2>5. r.headlines[n + 1] \in Headlines
      <3> HIDE DEF r
      <3> QED BY <2>3, <2>4
    <2>6. s = Pending \/ (s \in Scores /\ Fits(r.headlines[n + 1], s))
      <3>1. cached \in Seq(CacheEntry)
        BY DEF NewsInv
      <3> DEFINE text == r.headlines[n + 1]
      <3>2. s = CacheGet(text)
        OBVIOUS
      <3> HIDE DEF r, n, s, text
      <3>3. text \in Headlines
        BY <2>5 DEF text
      <3>4. s = Pending \/ (s \in Scores /\ Fits(text, s))
        BY <3>1, <3>2, <3>3, CacheFits
      <3> QED BY <3>4 DEF text
    <2> HIDE DEF s
    <2> DEFINE t == Append(r.scores, s)
    <2>7. /\ t \in Seq(Scores \cup {Pending}) /\ Len(t) = n + 1
          /\ \A i \in 1..n : t[i] = r.scores[i]
          /\ t[n + 1] = s
      <3> HIDE DEF r
      <3> QED BY <2>4, <2>6
    <2>8. /\ q.scores = t /\ q.headlines = r.headlines /\ q.asked = 0 /\ q.new = <<>>
          /\ q.pc = IF n + 1 = Len(r.headlines) THEN "score" ELSE "lookup"
          /\ q \in RunSet
      <3> HIDE DEF t
      <3>1. pc = IF n + 1 = Len(r.headlines) THEN "score" ELSE "lookup"
        BY <2>7, <2>2 DEF t
      <3> HIDE DEF pc
      <3>2. q = [r EXCEPT !.scores = t, !.pc = pc]
        BY DEF t
      <3> HIDE DEF q, r, n
      <3> QED BY <3>1, <3>2, <2>2, <2>3, <2>7 DEF RunSet
    <2> HIDE DEF q, t, pc
    <2>9. Len(r.headlines) \in Nat
      BY <2>4
    <2>10. \A i \in 1..(n + 1) : t[i] = Pending \/ Fits(r.headlines[i], t[i])
      <3>1. \A i \in 1..n : r.scores[i] = Pending \/ Fits(r.headlines[i], r.scores[i])
        BY <2>2 DEF RunOk
      <3> HIDE DEF r, n
      <3>2. \A i \in 1..(n + 1) : i \in 1..n \/ i = n + 1
        BY <2>4
      <3> QED BY <3>1, <3>2, <2>6, <2>7
    <2>11. CASE n + 1 = Len(r.headlines)
      <3>1. Cardinality(Missing(q)) \in Nat
        BY <2>8, MissingFinite
      <3>2. Missing(q) = {} \/ Cardinality(Missing(q)) # 0
        BY <2>8, MissingFinite, FS_EmptySet
      <3>3. Len(q.new) = 0
        BY <2>8
      <3>4. Answers(q)
        BY <3>1, <3>3 DEF Answers
      <3>5. RunOk(q)
        <4> HIDE DEF r, n
        <4> QED BY <2>7, <2>8, <2>9, <2>10, <2>11, <3>1, <3>2, <3>3, <3>4 DEF RunOk
      <3> QED BY <3>5, <2>1, <1>c, RunMoves
    <2>12. CASE n + 1 # Len(r.headlines)
      <3>1. RunOk(q)
        <4> HIDE DEF r, n
        <4> QED BY <2>3, <2>4, <2>7, <2>8, <2>9, <2>10, <2>12 DEF RunOk
      <3> QED BY <3>1, <2>1, <1>c, RunMoves
    <2> QED BY <2>11, <2>12
  <1> QED BY <1>1, <1>2

(* A call answers every text of its batch, with a score for it or with the  *)
(* fallback.                                                                *)
LEMMA CallAnswers ==
    ASSUME NEW batch \in Seq(Headlines), NEW answer \in CallLlm(batch)
    PROVE  /\ answer.tokens \in Nat
           /\ answer.scores \in Seq(Scores) /\ Len(answer.scores) = Len(batch)
           /\ \A i \in 1..Len(batch) : answer.scores[i] \in {batch[i], Neutral}
  <1>1. ASSUME NEW s, s = [i \in 1..Len(batch) |-> s[i]],
               \A i \in 1..Len(batch) : s[i] \in {batch[i], Neutral}
        PROVE  s \in Seq(Scores) /\ Len(s) = Len(batch)
    <2>1. Len(batch) \in Nat /\ \A i \in 1..Len(batch) : batch[i] \in Headlines
      OBVIOUS
    <2>2. \A i \in 1..Len(batch) : s[i] \in Scores
      BY <1>1, <2>1 DEF Scores
    <2> QED BY <1>1, <2>1, <2>2
  <1>2. CASE answer = [scores |-> [i \in Indices(batch) |-> Neutral], tokens |-> 0]
    <2>1. answer.scores = [i \in 1..Len(batch) |-> Neutral] /\ answer.tokens = 0
      BY <1>2 DEF Indices
    <2>2. /\ answer.scores = [i \in 1..Len(batch) |-> answer.scores[i]]
          /\ \A i \in 1..Len(batch) : answer.scores[i] \in {batch[i], Neutral}
      BY <2>1
    <2> QED BY <1>1, <2>1, <2>2
  <1>3. ASSUME NEW c, answer = [scores |-> ParseLlmResponse(c, batch), tokens |-> CallTokens]
        PROVE  /\ answer.tokens \in Nat
               /\ answer.scores \in Seq(Scores) /\ Len(answer.scores) = Len(batch)
               /\ \A i \in 1..Len(batch) : answer.scores[i] \in {batch[i], Neutral}
    <2>1. /\ answer.scores = [i \in 1..Len(batch) |->
                IF i <= Len(c) /\ c[i] = "ok" THEN batch[i] ELSE Neutral]
          /\ answer.tokens = CallTokens
      BY <1>3 DEF ParseLlmResponse, Indices
    <2>2. /\ answer.scores = [i \in 1..Len(batch) |-> answer.scores[i]]
          /\ \A i \in 1..Len(batch) : answer.scores[i] \in {batch[i], Neutral}
      BY <2>1
    <2> QED BY <1>1, <2>1, <2>2, NewsConstants
  <1> QED BY <1>2, <1>3 DEF CallLlm

(* The loop over the batches: the answers follow the missing texts.         *)
LEMMA ScoreInv ==
    ASSUME NewsInv, NEW x \in Exchanges, Score(x)
    PROVE  NewsInv'
  <1>c. cached' = cached /\ cached' \in Seq(CacheEntry) /\ UNCHANGED report
    BY DEF Score, newsOthers, NewsInv
  <1> DEFINE r == srun[x]
             M == Missing(r)
             c == Cardinality(M)
             texts == MissingTexts(r)
             a == r.asked
  <1>1. RunOk(r) /\ r.pc = "score" /\ r \in RunSet
    BY DEF NewsInv, Score, Running, RunOk
  <1>2. /\ Len(r.scores) = Len(r.headlines) /\ Len(r.new) = a
        /\ M = {} \/ a < c
        /\ \A k \in 1..Len(r.new) : r.new[k] \in {r.headlines[Ascending(M)[k]], Neutral}
        /\ \A i \in 1..Len(r.scores) : r.scores[i] = Pending \/ Fits(r.headlines[i], r.scores[i])
    BY <1>1 DEF RunOk, Answers
  <1>3. /\ M \in SUBSET (1..Len(r.headlines)) /\ M \in SUBSET Int /\ IsFiniteSet(M) /\ c \in Nat
    BY <1>1, MissingFinite
  <1>4. /\ r.headlines \in Seq(Headlines) /\ a \in Nat /\ r.new \in Seq(Scores)
        /\ r.tokens \in Nat /\ Len(r.headlines) \in Nat
    BY <1>1 DEF RunSet
  <1>b. BatchMax \in Nat \ {0}
    BY NewsConstants
  <1>5. ASSUME M = {} PROVE NewsInv'
    <2> DEFINE q == [r EXCEPT !.pc = "finish"]
    <2>1. srun' = [srun EXCEPT ![x] = q]
      BY <1>5 DEF Score
    <2>2. /\ q \in RunSet /\ q.pc = "finish" /\ q.headlines = r.headlines /\ q.scores = r.scores
      <3> HIDE DEF r
      <3> QED BY <1>1 DEF RunSet
    <2> HIDE DEF q
    <2>3. Missing(q) = {}
      BY <1>5, <2>2 DEF Missing
    <2>4. RunOk(q)
      <3> HIDE DEF r
      <3> QED BY <1>2, <1>4, <2>2, <2>3 DEF RunOk
    <2> QED BY <2>1, <2>4, <1>c, RunMoves
  <1>6. ASSUME M # {} PROVE NewsInv'
    <2>1. PICK answer \in CallLlm(Batch(texts, a)) :
             srun' = [srun EXCEPT ![x].new = @ \o answer.scores,
                                  ![x].tokens = @ + answer.tokens,
                                  ![x].asked = @ + BatchMax,
                                  ![x].pc = IF a + BatchMax < Len(texts) THEN "score" ELSE "record"]
      BY <1>6 DEF Score
    <2> DEFINE pc == IF a + BatchMax < Len(texts) THEN "score" ELSE "record"
               q == [r EXCEPT !.new = r.new \o answer.scores, !.tokens = r.tokens + answer.tokens,
                              !.asked = a + BatchMax, !.pc = pc]
    <2>2. srun' = [srun EXCEPT ![x] = q]
      BY <2>1 DEF NewsInv
    <2>3. /\ texts \in Seq(Headlines) /\ Len(texts) = c
          /\ \A k \in 1..c : texts[k] = r.headlines[Ascending(M)[k]]
      <3>1. /\ DOMAIN texts = 1..c
            /\ \A k \in 1..c : Ascending(M)[k] \in M /\ texts[k] = r.headlines[Ascending(M)[k]]
        <4> HIDE DEF M
        <4>1. texts = Kept(r.headlines, M)
          BY DEF MissingTexts, M
        <4> HIDE DEF r, texts
        <4> QED BY <1>3, <4>1, KeptElements
      <3>2. texts = [k \in 1..c |-> texts[k]]
        <4>1. texts = [n \in 1..Cardinality(M) |-> r.headlines[Ascending(M)[n]]]
          BY DEF MissingTexts, Kept
        <4> HIDE DEF r, M, texts
        <4> QED BY <4>1
      <3> HIDE DEF r, M, c, texts
      <3>3. \A k \in 1..c : texts[k] \in Headlines
        <4>1. \A i \in 1..Len(r.headlines) : r.headlines[i] \in Headlines
          BY <1>4
        <4>2. \A i \in M : i \in 1..Len(r.headlines)
          BY <1>3
        <4> QED BY <3>1, <4>1, <4>2
      <3> QED BY <3>1, <3>2, <3>3, <1>3
    <2> DEFINE top == IF a + BatchMax <= c THEN a + BatchMax ELSE c
               batch == Batch(texts, a)
    <2>4. top \in Nat /\ a < top /\ top <= c
      <3> HIDE DEF r, M, c
      <3>1. a < c
        BY <1>2, <1>6
      <3> HIDE DEF a
      <3> QED BY <3>1, <1>3, <1>4, <1>b
    <2>5. batch = SubSeq(texts, a + 1, top)
      <3> HIDE DEF r, M, c, texts
      <3>1. Min({a + BatchMax, c}) = top
        <4>1. a + BatchMax \in Int /\ c \in Int
          BY <1>3, <1>4, <1>b
        <4> QED BY <4>1, LesserOfPair
      <3> QED BY <2>3, <3>1 DEF Batch
    <2> HIDE DEF top
    <2>6. /\ batch \in Seq(Headlines) /\ Len(batch) = top - a
          /\ \A i \in 1..(top - a) : batch[i] = texts[a + i]
      <3> HIDE DEF r, M, c, texts, batch
      <3>1. a + 1 \in 1..(c + 1) /\ top \in a..c
        BY <2>4, <1>3, <1>4
      <3>2. \A i \in (a + 1)..top : texts[i] \in Headlines
        BY <2>3, <2>4, <1>4
      <3>3. /\ DOMAIN SubSeq(texts, a + 1, top) = 1..(top - a)
            /\ \A i \in 1..(top - a) : SubSeq(texts, a + 1, top)[i] = texts[a + i]
            /\ SubSeq(texts, a + 1, top) \in Seq(Headlines)
            /\ Len(SubSeq(texts, a + 1, top)) = top - a
        <4> DEFINE S == SubSeq(texts, a + 1, top)
        <4>1. a + 1 \in Int /\ top \in Int /\ a \in Nat
          BY <1>4, <2>4
        <4>2. /\ S \in Seq(Headlines)
              /\ Len(S) = IF a + 1 <= top THEN top - (a + 1) + 1 ELSE 0
              /\ \A i \in 1..(top - (a + 1) + 1) : S[i] = texts[a + 1 + i - 1]
          BY <4>1, <3>2, SubSeqProperties
        <4> HIDE DEF S, a
        <4>3. top - (a + 1) + 1 = top - a /\ \A i \in 1..(top - a) : a + 1 + i - 1 = a + i
          BY <4>1
        <4>4. Len(S) = top - a
          BY <4>1, <4>2, <2>4
        <4> QED BY <4>2, <4>3, <4>4 DEF S
      <3> QED BY <2>5, <3>3
    <2>7. /\ answer.tokens \in Nat
          /\ answer.scores \in Seq(Scores) /\ Len(answer.scores) = top - a
          /\ \A i \in 1..(top - a) : answer.scores[i] \in {texts[a + i], Neutral}
      <3>1. /\ answer.tokens \in Nat
            /\ answer.scores \in Seq(Scores) /\ Len(answer.scores) = Len(batch)
            /\ \A i \in 1..Len(batch) : answer.scores[i] \in {batch[i], Neutral}
        <4> HIDE DEF batch
        <4>1. answer \in CallLlm(batch)
          BY DEF batch
        <4> QED BY <2>6, <4>1, CallAnswers
      <3> HIDE DEF r, M, c, texts, batch
      <3> QED BY <3>1, <2>6
    <2> DEFINE new == r.new \o answer.scores
    <2>8. /\ new \in Seq(Scores) /\ Len(new) = top
          /\ \A k \in 1..top : new[k] \in {r.headlines[Ascending(M)[k]], Neutral}
      <3> HIDE DEF M, c, texts, batch
      <3>0. /\ new \in Seq(Scores) /\ Len(new) = Len(r.new) + Len(answer.scores)
            /\ \A k \in 1..Len(r.new) : new[k] = r.new[k]
            /\ \A k \in 1..Len(answer.scores) : new[Len(r.new) + k] = answer.scores[k]
        <4> DEFINE u == r.new
                   v == answer.scores
        <4>1. u \in Seq(Scores) /\ v \in Seq(Scores) /\ new = u \o v
          BY <1>4, <2>7
        <4> HIDE DEF u, v, new
        <4>2. /\ new \in Seq(Scores) /\ Len(new) = Len(u) + Len(v)
              /\ \A k \in 1..Len(u) : new[k] = u[k]
              /\ \A k \in 1..Len(v) : new[Len(u) + k] = v[k]
          BY <4>1
        <4> QED BY <4>2 DEF u, v
      <3> HIDE DEF new
      <3>1. new \in Seq(Scores) /\ Len(new) = a + (top - a) /\ Len(new) = top
        BY <1>2, <1>4, <2>4, <2>7, <3>0
      <3>2. ASSUME NEW k \in 1..top PROVE new[k] \in {r.headlines[Ascending(M)[k]], Neutral}
        <4>1. CASE k \in 1..a
          <5>1. new[k] = r.new[k]
            BY <4>1, <1>2, <3>0
          <5> QED BY <5>1, <4>1, <1>2
        <4>2. CASE k \notin 1..a
          <5>1. k - a \in 1..(top - a) /\ a + (k - a) = k /\ k \in 1..c
            BY <4>2, <1>3, <1>4, <2>4
          <5>2. new[k] = answer.scores[k - a]
            BY <5>1, <1>2, <2>7, <3>0
          <5>3. answer.scores[k - a] \in {texts[k], Neutral}
            BY <5>1, <2>7
          <5> QED BY <5>1, <5>2, <5>3, <2>3
        <4> QED BY <4>1, <4>2
      <3> QED BY <3>1, <3>2
    <2>9. /\ q \in RunSet /\ q.pc = pc /\ q.headlines = r.headlines /\ q.scores = r.scores
          /\ q.new = new /\ q.asked = a + BatchMax
      <3>1. pc \in {"score", "record"} /\ a + BatchMax \in Nat /\ r.tokens + answer.tokens \in Nat
        <4>1. pc \in {"score", "record"}
          OBVIOUS
        <4> HIDE DEF r, M, c, texts, batch, pc
        <4>2. a + BatchMax \in Nat
          BY <1>4, NewsConstants
        <4>3. r.tokens \in Nat
          BY <1>4
        <4> QED BY <4>1, <4>2, <4>3, <2>7
      <3>2. q = [r EXCEPT !.new = new, !.tokens = r.tokens + answer.tokens,
                              !.asked = a + BatchMax, !.pc = pc]
        OBVIOUS
      <3> DEFINE tok == r.tokens + answer.tokens
                 ask == a + BatchMax
      <3> HIDE DEF r, new, pc, q, tok, ask
      <3>3. q = [r EXCEPT !.new = new, !.tokens = tok, !.asked = ask, !.pc = pc]
        BY <3>2 DEF tok, ask
      <3>4. pc \in {"score", "record"} /\ ask \in Nat /\ tok \in Nat
        BY <3>1 DEF tok, ask
      <3>5. /\ q \in RunSet /\ q.pc = pc /\ q.headlines = r.headlines /\ q.scores = r.scores
            /\ q.new = new /\ q.asked = ask
        BY <1>1, <2>8, <3>3, <3>4 DEF RunSet
      <3> QED BY <3>5 DEF ask
    <2> HIDE DEF q, new
    <2>10. Missing(q) = M
      BY <2>9 DEF Missing
    <2>11. Answers(q)
      <3> HIDE DEF r, M
      <3> QED BY <2>4, <2>8, <2>9, <2>10 DEF Answers
    <2>12. RunOk(q)
      <3> HIDE DEF texts, M, r
      <3>1. CASE a + BatchMax < c
        <4>1. pc = "score" /\ top = a + BatchMax
          <5>1. Len(texts) = c /\ a + BatchMax \in Nat /\ c \in Nat
            BY <2>3, <1>3, <1>4, <1>b
          <5> HIDE DEF c, a
          <5> QED BY <3>1, <5>1 DEF top
        <4> HIDE DEF c, pc
        <4> QED BY <3>1, <4>1, <1>2, <1>4, <2>8, <2>9, <2>10, <2>11 DEF RunOk, c
      <3>2. CASE ~(a + BatchMax < c)
        <4>1. pc = "record" /\ top = c
          <5>1. Len(texts) = c /\ a + BatchMax \in Nat /\ c \in Nat
            BY <2>3, <1>3, <1>4, <1>b
          <5> HIDE DEF c, a
          <5> QED BY <3>2, <5>1 DEF top
        <4> HIDE DEF c, pc
        <4> QED BY <4>1, <1>2, <1>4, <2>8, <2>9, <2>10, <2>11 DEF RunOk, c
      <3> QED BY <3>1, <3>2
    <2> QED BY <2>2, <2>12, <1>c, RunMoves
  <1> QED BY <1>5, <1>6

(* CostTracker.record changes nothing of the scores.                        *)
LEMMA RecordInv ==
    ASSUME NewsInv, NEW x \in Exchanges, Record(x)
    PROVE  NewsInv'
  <1>c. cached' = cached /\ cached' \in Seq(CacheEntry)
    BY DEF Record, NewsInv
  <1>1. CASE Abort(x)
    BY <1>1, <1>c, AbortInv
  <1>2. CASE srun' = [srun EXCEPT ![x].pc = "put"] /\ UNCHANGED report
    <2> DEFINE r == srun[x]
               q == [r EXCEPT !.pc = "put"]
    <2>1. srun' = [srun EXCEPT ![x] = q]
      BY <1>2
    <2>2. RunOk(r) /\ r.pc = "record" /\ r \in RunSet
      BY DEF NewsInv, Record, Running, RunOk
    <2> HIDE DEF r
    <2>3. /\ q \in RunSet /\ q.pc = "put" /\ q.headlines = r.headlines /\ q.scores = r.scores
          /\ q.new = r.new
      BY <2>2 DEF RunSet
    <2> HIDE DEF q
    <2>4. Missing(q) = Missing(r)
      BY <2>3 DEF Missing
    <2>5. RunOk(q)
      BY <2>2, <2>3, <2>4 DEF RunOk, Answers
    <2> QED BY <2>1, <2>5, <1>2, <1>c, RunMoves
  <1> QED BY <1>1, <1>2 DEF Record

(* zip(to_score_indices, new_scores): the next answer belongs to the first  *)
(* text that is missing, and the rest moves up.                             *)
LEMMA PutInv ==
    ASSUME NewsInv, NEW x \in Exchanges, PutScore(x)
    PROVE  NewsInv'
  <1> DEFINE r == srun[x]
             M == Missing(r)
             c == Cardinality(M)
             i == Min(M)
  <1>0. cached \in Seq(CacheEntry)
    BY DEF NewsInv
  <1>1. RunOk(r) /\ r.pc = "put" /\ r \in RunSet
    BY DEF NewsInv, PutScore, Running, RunOk
  <1>2. /\ Len(r.scores) = Len(r.headlines) /\ Len(r.new) = c
        /\ \A k \in 1..c : r.new[k] \in {r.headlines[Ascending(M)[k]], Neutral}
        /\ \A n \in 1..Len(r.scores) : r.scores[n] = Pending \/ Fits(r.headlines[n], r.scores[n])
    BY <1>1 DEF RunOk, Answers
  <1>3. /\ M \in SUBSET (1..Len(r.headlines)) /\ M \in SUBSET Int /\ IsFiniteSet(M) /\ c \in Nat
    BY <1>1, MissingFinite
  <1>4. /\ r.headlines \in Seq(Headlines) /\ r.new \in Seq(Scores) /\ Len(r.headlines) \in Nat
        /\ r.scores \in Seq(Scores \cup {Pending})
    BY <1>1 DEF RunSet
  <1>5. CASE M = {} \/ r.new = <<>>
    <2> DEFINE q == [r EXCEPT !.pc = "finish"]
    <2>1. srun' = [srun EXCEPT ![x] = q] /\ UNCHANGED <<cached, report>>
      BY <1>5 DEF PutScore
    <2>2. /\ q \in RunSet /\ q.pc = "finish" /\ q.headlines = r.headlines /\ q.scores = r.scores
      <3> HIDE DEF r
      <3> QED BY <1>1 DEF RunSet
    <2>3. M = {}
      <3>1. r.new = <<>> => c = 0
        BY <1>2
      <3> HIDE DEF M, r
      <3> QED BY <3>1, <1>3, <1>5, FS_EmptySet
    <2> HIDE DEF q
    <2>4. Missing(q) = {}
      BY <2>2, <2>3 DEF Missing
    <2>5. RunOk(q)
      <3> HIDE DEF r, M, c
      <3> QED BY <1>2, <1>4, <2>2, <2>4 DEF RunOk
    <2> QED BY <2>1, <2>5, <1>0, RunMoves
  <1>6. CASE ~(M = {} \/ r.new = <<>>) /\ newsRedis = "down"
    <2>1. Abort(x) /\ cached' = cached
      BY <1>6 DEF PutScore
    <2> QED BY <2>1, AbortInv
  <1>7. CASE ~(M = {} \/ r.new = <<>>) /\ newsRedis # "down"
    <2> DEFINE s == Head(r.new)
               scores == [r.scores EXCEPT ![i] = s]
               new == Tail(r.new)
               q == [r EXCEPT !.scores = scores, !.new = new]
    <2>1. /\ srun' = [srun EXCEPT ![x] = q] /\ UNCHANGED report
          /\ cached' = IF newsRedis = "none" THEN cached ELSE CachePut(r.headlines[i], s)
      BY <1>7 DEF PutScore, NewsInv
    <2>2. i \in M /\ i \in 1..Len(r.headlines) /\ \A m \in M : i <= m
      <3>1. M \in SUBSET Nat /\ M # {}
        BY <1>3, <1>4, <1>7
      <3> HIDE DEF M, r
      <3> QED BY <3>1, <1>3, MinOfNats
    <2> HIDE DEF i
    <2>3. /\ c \in Nat \ {0} /\ Ascending(M)[1] = i
          /\ Cardinality(M \ {i}) = c - 1
          /\ Ascending(M \ {i}) = [n \in 1..(c - 1) |-> Ascending(M)[n + 1]]
      <3> HIDE DEF M
      <3> QED BY <2>2, <1>3, AscendingRest
    <2>4. /\ s = r.new[1] /\ new \in Seq(Scores) /\ Len(new) = c - 1
          /\ \A k \in 1..(c - 1) : new[k] = r.new[k + 1]
          /\ s \in Scores
      <3> HIDE DEF r, M, c
      <3>1. r.new # <<>>
        BY <1>7
      <3> DEFINE u == r.new
      <3>2. u \in Seq(Scores) /\ u # <<>> /\ Len(u) = c
        BY <1>2, <1>4, <3>1
      <3>3. s = Head(u) /\ new = Tail(u)
        OBVIOUS
      <3> HIDE DEF u, s, new
      <3>4. /\ s = u[1] /\ new \in Seq(Scores) /\ Len(new) = c - 1 /\ s \in Scores
            /\ \A k \in 1..(c - 1) : new[k] = u[k + 1]
        BY <3>2, <3>3, <2>3
      <3> QED BY <3>4 DEF u
    <2>5. s \in {r.headlines[i], Neutral} /\ r.headlines[i] \in Headlines
      <3> HIDE DEF r, M, c, s, new
      <3>1. 1 \in 1..c
        BY <2>3
      <3>2. r.new[1] \in {r.headlines[Ascending(M)[1]], Neutral}
        BY <3>1, <1>2
      <3>3. s \in {r.headlines[i], Neutral}
        BY <3>2, <2>3, <2>4
      <3>4. r.headlines[i] \in Headlines
        BY <1>4, <2>2
      <3> QED BY <3>3, <3>4
    <2> HIDE DEF s, new
    <2>6. s # Pending /\ Fits(r.headlines[i], s)
      <3>1. s = r.headlines[i] => s # Pending /\ Fits(r.headlines[i], s)
        BY <2>5, NewsConstants
      <3>2. s = Neutral => s # Pending /\ Fits(r.headlines[i], s)
        BY NewsConstants DEF Fits
      <3> HIDE DEF r
      <3> QED BY <2>5, <3>1, <3>2
    <2>7. /\ scores \in Seq(Scores \cup {Pending}) /\ Len(scores) = Len(r.headlines)
          /\ scores[i] = s
          /\ \A n \in 1..Len(r.headlines) : n # i => scores[n] = r.scores[n]
      <3> DEFINE u == r.scores
      <3>1. u \in Seq(Scores \cup {Pending}) /\ Len(u) = Len(r.headlines) /\ i \in 1..Len(u)
        BY <1>2, <1>4, <2>2
      <3>2. scores = [u EXCEPT ![i] = s]
        OBVIOUS
      <3> HIDE DEF r, u, scores
      <3> QED BY <3>1, <3>2, <2>4 DEF u
    <2> HIDE DEF scores
    <2>8. /\ q \in RunSet /\ q.pc = "put" /\ q.headlines = r.headlines /\ q.scores = scores
          /\ q.new = new
      <3> HIDE DEF r
      <3> QED BY <1>1, <2>4, <2>7 DEF RunSet
    <2> HIDE DEF q
    <2>9. Missing(q) = M \ {i}
      <3>1. \A n \in 1..Len(r.headlines) : scores[n] = Pending <=> (n # i /\ r.scores[n] = Pending)
        BY <2>2, <2>6, <2>7
      <3>2. Missing(q) = {n \in 1..Len(r.headlines) : scores[n] = Pending}
        BY <2>8 DEF Missing, Indices
      <3>3. M = {n \in 1..Len(r.headlines) : r.scores[n] = Pending}
        BY DEF Missing, Indices
      <3> HIDE DEF r, M
      <3> QED BY <3>1, <3>2, <3>3
    <2>10. Answers(q) /\ Len(q.new) = Cardinality(Missing(q))
      <3> HIDE DEF r, M, c
      <3>1. ASSUME NEW k \in 1..(c - 1)
            PROVE  new[k] \in {r.headlines[Ascending(M \ {i})[k]], Neutral}
        <4>1. k + 1 \in 1..c
          BY <2>3
        <4>2. Ascending(M \ {i})[k] = Ascending(M)[k + 1]
          BY <2>3
        <4> QED BY <4>1, <4>2, <1>2, <2>4
      <3>2. Len(q.new) = c - 1 /\ Cardinality(Missing(q)) = c - 1 /\ c - 1 \in Nat
        BY <2>3, <2>4, <2>8, <2>9
      <3>3. \A k \in 1..Len(q.new) :
                q.new[k] \in {q.headlines[Ascending(Missing(q))[k]], Neutral}
        BY <3>1, <3>2, <2>8, <2>9
      <3> QED BY <3>2, <3>3 DEF Answers
    <2>11. RunOk(q)
      <3>1. \A n \in 1..Len(scores) : scores[n] = Pending \/ Fits(r.headlines[n], scores[n])
        <4> HIDE DEF r, M, c
        <4> QED BY <1>2, <2>2, <2>6, <2>7
      <3> HIDE DEF r, M, c
      <3> QED BY <3>1, <1>4, <2>7, <2>8, <2>10 DEF RunOk
    <2>12. cached' \in Seq(CacheEntry)
      <3> DEFINE e == [text |-> r.headlines[i], score |-> s]
      <3>1. e \in CacheEntry
        BY <2>4, <2>5 DEF CacheEntry
      <3>2. cached' = cached \/ cached' = Append(cached, e)
        BY <2>1 DEF CachePut
      <3> HIDE DEF e
      <3> QED BY <3>1, <3>2, <1>0
    <2> QED BY <2>1, <2>11, <2>12, RunMoves
  <1> QED BY <1>5, <1>6, <1>7

(* The report takes every score, as no placeholder is left.                 *)
LEMMA FinishInv ==
    ASSUME NewsInv, NEW x \in Exchanges, Finish(x)
    PROVE  NewsInv'
  <1> DEFINE r == srun[x]
             I == {i \in Indices(r.scores) : r.scores[i] # Pending}
             final == Kept(r.scores, I)
  <1>1. RunOk(r) /\ r.pc = "finish" /\ r \in RunSet
    BY DEF NewsInv, Finish, Running, RunOk
  <1>2. /\ Len(r.scores) = Len(r.headlines) /\ Missing(r) = {}
        /\ \A n \in 1..Len(r.scores) : r.scores[n] = Pending \/ Fits(r.headlines[n], r.scores[n])
        /\ r.scores \in Seq(Scores \cup {Pending})
    BY <1>1 DEF RunOk, RunSet
  <1>3. \A n \in 1..Len(r.scores) : r.scores[n] # Pending
    BY <1>2 DEF Missing, Indices
  <1>4. I = 1..Len(r.scores)
    BY <1>3 DEF Indices
  <1>5. final = r.scores
    <2> HIDE DEF r, I
    <2> QED BY <1>2, <1>4, KeptAll
  <1>6. PICK pages :
           report' = [report EXCEPT ![x] =
               [headlines |-> r.headlines, scores |-> final, aggregate |-> AggregateScore(final),
                indicators |-> IF r.custom THEN {} ELSE Indicators(x, pages)]]
    BY DEF Finish
  <1> HIDE DEF r, final, I
  <1> DEFINE p == [headlines |-> r.headlines, scores |-> final, aggregate |-> AggregateScore(final),
                   indicators |-> IF r.custom THEN {} ELSE Indicators(x, pages)]
  <1>7. p.headlines = r.headlines /\ p.scores = r.scores
    BY <1>5
  <1>8. report' = [report EXCEPT ![x] = p]
    BY <1>6
  <1> HIDE DEF p
  <1>9. ReportOk(p)
    BY <1>2, <1>3, <1>7 DEF ReportOk, Indices
  <1>10. RunOk(NoRunS)
    BY DEF RunOk, NoRunS, RunSet
  <1>11. cached' = cached /\ srun' = [srun EXCEPT ![x] = NoRunS]
    BY DEF Finish, newsOthers
  <1>12. /\ DOMAIN srun' = Exchanges
         /\ \A e \in Exchanges : srun'[e] = IF e = x THEN NoRunS ELSE srun[e]
         /\ DOMAIN report' = Exchanges
         /\ \A e \in Exchanges : report'[e] = IF e = x THEN p ELSE report[e]
    BY <1>8, <1>11 DEF NewsInv
  <1> QED BY <1>9, <1>10, <1>11, <1>12 DEF NewsInv

(* Every step of the agents, and the steps that leave them alone            *)
LEMMA NewsStepInv ==
    ASSUME NewsInv, [DispatchNext]_<<newsVars, alertVars>>
    PROVE  NewsInv'
  <1>1. ASSUME UNCHANGED <<srun, report>>, cached' = cached \/ cached' = <<>> PROVE NewsInv'
    <2>1. <<>> \in Seq(CacheEntry)
      OBVIOUS
    <2> QED BY <1>1, <2>1 DEF NewsInv
  <1>2. ASSUME NEW x \in Exchanges, NewsStep(x) PROVE NewsInv'
    BY <1>2, LookupInv, ScoreInv, RecordInv, PutInv, FinishInv DEF NewsStep
  <1>3. ASSUME NEW x \in Exchanges, BeginRun(x) \/ \E text \in Headlines : BeginCustomRun(x, text)
        PROVE  NewsInv'
    BY <1>3, BeginInv
  <1>4. ASSUME NEW x \in Exchanges, ResetDaily(x) PROVE NewsInv'
    BY <1>4, <1>1 DEF ResetDaily
  <1>5. CASE CacheClear \/ NewsRedisToggles
    BY <1>5, <1>1 DEF CacheClear, NewsRedisToggles
  <1>6. CASE AlertNext
    BY <1>6, <1>1 DEF AlertNext, RaiseAlert, CheckCost, ClockTick, newsVars
  <1>7. CASE UNCHANGED <<newsVars, alertVars>>
    BY <1>7, <1>1 DEF newsVars
  <1> QED BY <1>2, <1>3, <1>4, <1>5, <1>6, <1>7 DEF DispatchNext, NewsNext

(* ScoresAlign: in every reachable state of the sentiment agents, on their  *)
(* feeds or on a caller's headlines, the reports of SentimentAgent.run have *)
(* a score for every headline, in order.                                    *)
THEOREM ScoresHold == AlertSpec => []ScoresAlign
  <1>1. NewsInv => ScoresAlign
    BY DEF NewsInv, ReportOk, Fits, ScoresAlign
  <1>2. NewsInit /\ AlertInit => NewsInv
    BY NewsInitInv
  <1> QED BY <1>1, <1>2, NewsStepInv, PTL DEF AlertSpec

-----------------------------------------------------------------------------
(* ACTRMemory.                                                              *)

MemSpec == MemInit /\ [][MemNext]_memVars

MemTyped ==
    /\ memTier \in Tiers
    /\ lastWord \in [MemKeys -> Nat] /\ DOMAIN wroteTo = MemKeys
    /\ \A k \in DOMAIN ltm : DOMAIN ltm[k] = {"content", "at"}

(* What the working and the long-term tier hold is what was stored last.    *)
WorkingIsLast ==
    memTier = "working" => \A k \in MemKeys \cap DOMAIN wmStore : wmStore[k] = lastWord[k]

LongIsLast ==
    memTier = "long_term" => \A k \in MemKeys \cap DOMAIN ltm : ltm[k].content = lastWord[k]

(* A short-term entry is current on the side its last write went to: Redis  *)
(* when it was reachable, the dictionary otherwise.                         *)
ShortIsLast ==
    memTier = "short_term" => \A k \in MemKeys :
        IF wroteTo[k] = "up" THEN k \in DOMAIN stmRedis => stmRedis[k] = lastWord[k]
        ELSE k \in DOMAIN stmLocal => stmLocal[k] = lastWord[k]

MemInv == MemTyped /\ WorkingIsLast /\ ShortIsLast /\ LongIsLast

(* All tiers start empty.                                                   *)
LEMMA MemInitInv == MemInit => MemInv
  BY DEF MemInit, MemInv, MemTyped, WorkingIsLast, ShortIsLast, LongIsLast, Empty, Nothing

(* WorkingMemory.put and delete, evictions included                         *)
LEMMA WorkingInv ==
    ASSUME MemInv, memTier = "working", NEW key \in MemKeys,
           (\E v \in Texts : WorkingPut(key, v)) \/ WorkingDelete(key)
    PROVE  MemInv'
  <1> USE DEF MemInv
  <1>1. memTier' = "working" /\ UNCHANGED ltm
    BY DEF WorkingPut, WorkingDelete, workingOthers
  <1>2. ASSUME NEW v \in Texts, WorkingPut(key, v) PROVE MemInv'
    <2>1. /\ lastWord' = [lastWord EXCEPT ![key] = v]
          /\ wroteTo' = [wroteTo EXCEPT ![key] = backend]
      BY <1>2 DEF WorkingPut, Wrote
    <2>2. PICK gone : wmStore' = [k \in DOMAIN Put(wmStore, key, v) \ gone |->
                                     Put(wmStore, key, v)[k]]
      BY <1>2 DEF WorkingPut
    <2>3. MemTyped'
      BY <2>1, <1>1, MemoryAssumption DEF MemTyped, Tiers
    <2>4. WorkingIsLast'
      BY <2>1, <2>2, <1>1 DEF MemTyped, WorkingIsLast, Put
    <2> QED BY <2>3, <2>4, <1>1 DEF ShortIsLast, LongIsLast
  <1>3. ASSUME WorkingDelete(key) PROVE MemInv'
    <2>1. /\ lastWord' = [lastWord EXCEPT ![key] = Nothing]
          /\ wroteTo' = [wroteTo EXCEPT ![key] = backend]
          /\ wmStore' = [j \in DOMAIN wmStore \ {key} |-> wmStore[j]]
      BY <1>3 DEF WorkingDelete, Wrote, Drop
    <2>2. MemTyped'
      BY <2>1, <1>1 DEF MemTyped, Tiers, Nothing
    <2>3. WorkingIsLast'
      BY <2>1, <1>1 DEF MemTyped, WorkingIsLast
    <2> QED BY <2>2, <2>3, <1>1 DEF ShortIsLast, LongIsLast
  <1> QED BY <1>2, <1>3

(* ShortTermMemory.put, delete and the expiry in Redis                      *)
LEMMA ShortInv ==
    ASSUME MemInv, memTier = "short_term", NEW key \in MemKeys,
           (\E v \in Texts : ShortPut(key, v)) \/ ShortDelete(key) \/ ShortExpire(key)
    PROVE  MemInv'
  <1> USE DEF MemInv
  <1>1. memTier' = "short_term" /\ UNCHANGED <<ltm, backend>>
    BY DEF ShortPut, ShortDelete, ShortExpire, shortOthers
  <1>2. ASSUME NEW v \in Texts, ShortPut(key, v) PROVE MemInv'
    <2>1. /\ lastWord' = [lastWord EXCEPT ![key] = v]
          /\ wroteTo' = [wroteTo EXCEPT ![key] = backend]
      BY <1>2 DEF ShortPut, Wrote
    <2>2. MemTyped'
      BY <2>1, <1>1, MemoryAssumption DEF MemTyped, Tiers
    <2>3. ShortIsLast'
      <3>1. CASE backend = "up"
        BY <3>1, <2>1, <1>1, <1>2 DEF MemTyped, ShortIsLast, ShortPut, Put
      <3>2. CASE backend # "up"
        BY <3>2, <2>1, <1>1, <1>2 DEF MemTyped, ShortIsLast, ShortPut, Put
      <3> QED BY <3>1, <3>2
    <2> QED BY <2>2, <2>3, <1>1 DEF WorkingIsLast, LongIsLast
  <1>3. ASSUME ShortDelete(key) PROVE MemInv'
    <2>1. /\ lastWord' = [lastWord EXCEPT ![key] = Nothing]
          /\ wroteTo' = [wroteTo EXCEPT ![key] = backend]
          /\ stmLocal' = [j \in DOMAIN stmLocal \ {key} |-> stmLocal[j]]
          /\ stmRedis' = IF backend = "up" THEN [j \in DOMAIN stmRedis \ {key} |-> stmRedis[j]]
                         ELSE stmRedis
      BY <1>3 DEF ShortDelete, Wrote, Drop
    <2>2. MemTyped'
      BY <2>1, <1>1 DEF MemTyped, Tiers, Nothing
    <2>3. ShortIsLast'
      <3>1. CASE backend = "up"
        BY <3>1, <2>1, <1>1 DEF MemTyped, ShortIsLast
      <3>2. CASE backend # "up"
        BY <3>2, <2>1, <1>1 DEF MemTyped, ShortIsLast
      <3> QED BY <3>1, <3>2
    <2> QED BY <2>2, <2>3, <1>1 DEF WorkingIsLast, LongIsLast
  <1>4. ASSUME ShortExpire(key) PROVE MemInv'
    <2>1. /\ UNCHANGED <<lastWord, wroteTo, stmLocal>>
          /\ stmRedis' = [j \in DOMAIN stmRedis \ {key} |-> stmRedis[j]]
      BY <1>4 DEF ShortExpire, Drop
    <2>2. MemTyped'
      BY <2>1, <1>1 DEF MemTyped, Tiers
    <2>3. ShortIsLast'
      BY <2>1, <1>1 DEF MemTyped, ShortIsLast
    <2> QED BY <2>2, <2>3, <1>1 DEF WorkingIsLast, LongIsLast
  <1> QED BY <1>2, <1>3, <1>4

(* LongTermMemory.store and retrieve                                        *)
LEMMA LongInv ==
    ASSUME MemInv, memTier = "long_term", NEW key \in MemKeys,
           (\E v \in Texts : LongStore(key, v)) \/ LongRetrieve(key)
    PROVE  MemInv'
  <1> USE DEF MemInv
  <1>1. memTier' = "long_term"
    BY DEF LongStore, LongRetrieve, longOthers
  <1>2. ASSUME NEW v \in Texts, LongStore(key, v) PROVE MemInv'
    <2>1. /\ lastWord' = [lastWord EXCEPT ![key] = v]
          /\ wroteTo' = [wroteTo EXCEPT ![key] = backend]
      BY <1>2 DEF LongStore, Wrote
    <2>2. /\ \A k \in DOMAIN ltm' : DOMAIN ltm'[k] = {"content", "at"}
          /\ \A k \in DOMAIN ltm' :
                IF k = key THEN ltm'[k].content = v
                ELSE k \in DOMAIN ltm /\ ltm'[k].content = ltm[k].content
      <3>1. CASE key \in DOMAIN ltm
        BY <3>1, <1>2 DEF LongStore, MemTyped
      <3>2. CASE key \notin DOMAIN ltm
        BY <3>2, <1>2 DEF LongStore, MemTyped, Put
      <3> QED BY <3>1, <3>2
    <2>3. MemTyped'
      BY <2>1, <2>2, <1>1, MemoryAssumption DEF MemTyped, Tiers
    <2>4. LongIsLast'
      BY <2>1, <2>2, <1>1 DEF MemTyped, LongIsLast
    <2> QED BY <2>3, <2>4, <1>1 DEF WorkingIsLast, ShortIsLast
  <1>3. ASSUME LongRetrieve(key) PROVE MemInv'
    <2>1. UNCHANGED <<lastWord, wroteTo>> /\ DOMAIN ltm' = DOMAIN ltm
      BY <1>3 DEF LongRetrieve
    <2>2. \A k \in DOMAIN ltm : ltm'[k] = IF k = key THEN RecordRetrieval(ltm[key]) ELSE ltm[k]
      BY <1>3 DEF LongRetrieve
    <2>3. PICK old : old = ltm[key]
      OBVIOUS
    <2>4. DOMAIN RecordRetrieval(old) = DOMAIN old
      BY DEF RecordRetrieval
    <2>5. key \in DOMAIN ltm => RecordRetrieval(old).content = old.content
      <3>1. key \in DOMAIN ltm => DOMAIN old = {"content", "at"}
        BY <2>3 DEF MemTyped
      <3> QED BY <3>1 DEF RecordRetrieval
    <2>6. MemTyped'
      BY <2>1, <2>2, <2>3, <2>4, <1>1 DEF MemTyped, Tiers
    <2>7. LongIsLast'
      BY <2>1, <2>2, <2>3, <2>5, <1>1 DEF LongIsLast
    <2> QED BY <2>6, <2>7, <1>1 DEF WorkingIsLast, ShortIsLast
  <1> QED BY <1>2, <1>3

(* A failing or recovering backend and the clock touch no tier.             *)
LEMMA BackendInv ==
    ASSUME MemInv,
           UNCHANGED <<memTier, wmStore, stmLocal, stmRedis, ltm, lastWord, wroteTo>>
    PROVE  MemInv'
  BY DEF MemInv, MemTyped, WorkingIsLast, ShortIsLast, LongIsLast

(* A restart forgets the dictionaries; what went to Redis is still there.   *)
LEMMA MemRestartInv == ASSUME MemInv, MemRestart PROVE MemInv'
  <1> USE DEF MemInv
  <1>1. /\ UNCHANGED <<memTier, stmRedis, wroteTo>>
        /\ DOMAIN wmStore' = {} /\ DOMAIN stmLocal' = {} /\ DOMAIN ltm' = {}
        /\ lastWord' = [k \in MemKeys |->
              IF memTier = "short_term" /\ wroteTo[k] = "up" THEN lastWord[k] ELSE Nothing]
    BY DEF MemRestart, Empty
  <1>2. MemTyped'
    BY <1>1 DEF MemTyped, Nothing
  <1>3. WorkingIsLast' /\ LongIsLast'
    BY <1>1 DEF WorkingIsLast, LongIsLast
  <1>4. ShortIsLast'
    BY <1>1 DEF ShortIsLast, MemTyped
  <1> QED BY <1>2, <1>3, <1>4

(* Every step of the three tiers.                                           *)
LEMMA MemStepInv == ASSUME MemInv, [MemNext]_memVars PROVE MemInv'
  <1>1. ASSUME NEW key \in MemKeys, NEW v \in Texts, Remember(key, v, memTier) PROVE MemInv'
    <2>1. CASE memTier = "working"
      BY <2>1, <1>1, WorkingInv DEF Remember
    <2>2. CASE memTier = "short_term"
      BY <2>2, <1>1, ShortInv DEF Remember
    <2>3. CASE memTier = "long_term"
      BY <2>3, <1>1, LongInv DEF Remember
    <2> QED BY <2>1, <2>2, <2>3 DEF MemInv, MemTyped, Tiers
  <1>2. ASSUME NEW key \in MemKeys, memTier = "working", WorkingDelete(key) PROVE MemInv'
    BY <1>2, WorkingInv
  <1>3. ASSUME NEW key \in MemKeys, memTier = "short_term", ShortDelete(key) \/ ShortExpire(key)
        PROVE  MemInv'
    BY <1>3, ShortInv
  <1>4. ASSUME NEW key \in MemKeys, memTier = "long_term", LongRetrieve(key) PROVE MemInv'
    BY <1>4, LongInv
  <1>5. ASSUME BackendToggles \/ MemTick \/ UNCHANGED memVars PROVE MemInv'
    BY <1>5, BackendInv DEF BackendToggles, MemTick, memVars
  <1> QED BY <1>1, <1>2, <1>3, <1>4, <1>5, MemRestartInv DEF MemNext

(* recall answers with the last value remembered or with nothing, never     *)
(* with an older one, whatever was evicted, expired or lost in a restart    *)
(* (memory.py:82-93, 160-205): for the short-term tier, as long as Redis is *)
(* as it was when the key was written.                                      *)
THEOREM RecallHolds == MemSpec => []RecallIsLast
  <1>1. MemSpec => []MemInv
    BY MemInitInv, MemStepInv, PTL DEF MemSpec
  <1>2. MemInv => RecallIsLast
    <2> SUFFICES ASSUME MemInv, NEW k \in MemKeys, memTier = "short_term" => wroteTo[k] = backend
                 PROVE  Recall(k, memTier) \in {Nothing, lastWord[k]}
      BY DEF RecallIsLast
    <2> USE DEF MemInv, Recall, Get
    <2>1. CASE memTier = "working"
      BY <2>1 DEF WorkingIsLast, WorkingGet
    <2>2. CASE memTier = "long_term"
      BY <2>2 DEF LongIsLast, LongGet
    <2>3. CASE memTier = "short_term"
      BY <2>3 DEF ShortIsLast, ShortGet
    <2> QED BY <2>1, <2>2, <2>3 DEF MemTyped, Tiers
  <1> QED BY <1>1, <1>2, PTL

(* What LongTermMemory keeps: an order of its own keys, and for each entry  *)
(* the times of its retrievals, which are past.                             *)
IsEntry(e, now) == DOMAIN e = {"content", "at"} /\ e.at \in Seq(1..now)

LongTyped ==
    /\ memClock \in 1..MaxMemClock
    /\ ltmOrder \in Seq(DOMAIN ltm)
    /\ \A k \in DOMAIN ltm : IsEntry(ltm[k], memClock)

(* The long-term tier starts empty.                                         *)
LEMMA LongInitTyped == MemInit => LongTyped
  <1> SUFFICES ASSUME MemInit PROVE LongTyped
    OBVIOUS
  <1>1. DOMAIN ltm = {} /\ ltmOrder = <<>> /\ memClock = 1
    BY DEF MemInit, Empty
  <1>2. 1 \in 1..MaxMemClock
    BY MemoryAssumption
  <1> QED BY <1>1, <1>2 DEF LongTyped

(* store keeps the retrievals of a key it knows.                            *)
LEMMA StoreTyped ==
    ASSUME LongTyped, NEW key \in MemKeys, NEW v \in Texts, LongStore(key, v)
    PROVE  LongTyped'
  <1>1. memClock' = memClock
    BY DEF LongStore, longOthers
  <1>2. CASE key \in DOMAIN ltm
    <2>1. DOMAIN ltm' = DOMAIN ltm /\ ltmOrder' = ltmOrder
      BY <1>2 DEF LongStore
    <2>2. \A k \in DOMAIN ltm :
             DOMAIN ltm'[k] = DOMAIN ltm[k] /\ (DOMAIN ltm[k] = {"content", "at"} => ltm'[k].at = ltm[k].at)
      BY <1>2 DEF LongStore
    <2> QED BY <1>1, <2>1, <2>2 DEF LongTyped, IsEntry
  <1>3. CASE key \notin DOMAIN ltm
    <2>1. DOMAIN ltm' = DOMAIN ltm \cup {key} /\ ltmOrder' = Append(ltmOrder, key)
      BY <1>3 DEF LongStore, Put
    <2>2. \A k \in DOMAIN ltm' : ltm'[k] = IF k = key THEN [content |-> v, at |-> <<>>] ELSE ltm[k]
      BY <1>3 DEF LongStore, Put
    <2>3. IsEntry([content |-> v, at |-> <<>>], memClock)
      BY DEF IsEntry
    <2>4. ltmOrder' \in Seq(DOMAIN ltm')
      <3>1. ltmOrder \in Seq(DOMAIN ltm') /\ key \in DOMAIN ltm'
        BY <2>1 DEF LongTyped
      <3> QED BY <3>1, <2>1
    <2> QED BY <1>1, <2>1, <2>2, <2>3, <2>4 DEF LongTyped
  <1> QED BY <1>2, <1>3

(* retrieve records the present time.                                       *)
LEMMA RetrieveTyped ==
    ASSUME LongTyped, NEW key \in MemKeys, LongRetrieve(key)
    PROVE  LongTyped'
  <1>1. memClock' = memClock /\ ltmOrder' = ltmOrder /\ DOMAIN ltm' = DOMAIN ltm /\ key \in DOMAIN ltm
    BY DEF LongRetrieve, longOthers
  <1>2. \A k \in DOMAIN ltm : ltm'[k] = IF k = key THEN RecordRetrieval(ltm[key]) ELSE ltm[k]
    BY DEF LongRetrieve
  <1>3. PICK old : old = ltm[key]
    OBVIOUS
  <1>4. DOMAIN old = {"content", "at"} /\ old.at \in Seq(1..memClock) /\ memClock \in 1..memClock
    BY <1>1, <1>3 DEF LongTyped, IsEntry
  <1>5. DOMAIN RecordRetrieval(old) = DOMAIN old /\ RecordRetrieval(old).at = Append(old.at, memClock)
    BY <1>4 DEF RecordRetrieval
  <1>6. IsEntry(RecordRetrieval(old), memClock)
    BY <1>4, <1>5 DEF IsEntry
  <1> QED BY <1>1, <1>2, <1>3, <1>6 DEF LongTyped

(* Every step of the three tiers                                            *)
LEMMA LongStepTyped == ASSUME LongTyped, [MemNext]_memVars PROVE LongTyped'
  <1>1. ASSUME UNCHANGED <<ltm, ltmOrder, memClock>> PROVE LongTyped'
    BY <1>1 DEF LongTyped
  <1>2. ASSUME NEW key \in MemKeys, NEW v \in Texts, Remember(key, v, memTier) PROVE LongTyped'
    <2>1. ASSUME ShortPut(key, v) \/ WorkingPut(key, v) PROVE LongTyped'
      BY <2>1, <1>1 DEF ShortPut, shortOthers, WorkingPut, workingOthers
    <2> QED BY <1>2, <2>1, StoreTyped DEF Remember
  <1>3. ASSUME NEW key \in MemKeys, WorkingDelete(key) \/ ShortDelete(key) \/ ShortExpire(key)
        PROVE  LongTyped'
    BY <1>3, <1>1 DEF WorkingDelete, workingOthers, ShortDelete, ShortExpire, shortOthers
  <1>4. CASE BackendToggles \/ UNCHANGED memVars
    BY <1>4, <1>1 DEF BackendToggles, memVars
  <1>5. CASE MemTick
    <2>1. /\ UNCHANGED <<ltm, ltmOrder>> /\ memClock' = memClock + 1
          /\ memClock' \in 1..MaxMemClock /\ memClock \in Nat
      BY <1>5, MemoryAssumption DEF MemTick, LongTyped
    <2>2. \A s \in Seq(1..memClock) : s \in Seq(1..memClock')
      BY <2>1
    <2> QED BY <2>1, <2>2 DEF LongTyped, IsEntry
  <1>6. CASE MemRestart
    <2>1. DOMAIN ltm' = {} /\ ltmOrder' = <<>> /\ memClock' = memClock
      BY <1>6 DEF MemRestart, Empty
    <2>2. <<>> \in Seq(DOMAIN ltm')
      OBVIOUS
    <2> QED BY <2>1, <2>2 DEF LongTyped
  <1> QED BY <1>2, <1>3, <1>4, <1>5, <1>6, RetrieveTyped DEF MemNext

(* Entry a was retrieved at least as often as b, each time as recently.     *)
Dominates(a, b) ==
    /\ Len(a.at) >= Len(b.at)
    /\ \A i \in 1..Len(b.at) : a.at[Len(a.at) - i + 1] >= b.at[Len(b.at) - i + 1]
    /\ a.at # b.at

(* The terms of activation_score are positive and smaller the older.        *)
LEMMA DecayOfAges ==
    ASSUME NEW now \in 1..MaxMemClock, NEW s \in 1..now, NEW t \in 1..now
    PROVE  /\ Decay[now - s] \in Nat \ {0}
           /\ s > t => Decay[now - t] < Decay[now - s]
  <1>1. now - s \in 0..MaxMemClock /\ now - t \in 0..MaxMemClock
    BY MemoryAssumption
  <1>2. s > t => now - s < now - t
    OBVIOUS
  <1> DEFINE d == now - s
             e == now - t
  <1> HIDE DEF d, e
  <1>3. d \in 0..MaxMemClock /\ e \in 0..MaxMemClock /\ (s > t => d < e)
    BY <1>1, <1>2 DEF d, e
  <1>4. Decay[d] \in Nat \ {0} /\ (s > t => Decay[e] < Decay[d])
    BY <1>3, DecayAssumption
  <1> QED BY <1>4 DEF d, e

(* activation_score is a number,                                            *)
LEMMA ActivationTyped ==
    ASSUME NEW now \in 1..MaxMemClock, NEW a, IsEntry(a, now)
    PROVE  Activation(a, now) \in Nat
  <1> DEFINE S == DOMAIN a.at
             f == [i \in S |-> Decay[now - a.at[i]]]
  <1>1. S = 1..Len(a.at) /\ Len(a.at) \in Nat /\ \A i \in S : a.at[i] \in 1..now
    BY DEF IsEntry
  <1>2. IsFiniteSet(S)
    BY <1>1, FS_Interval
  <1>3. \A i \in S : f[i] \in Nat
    BY <1>1, DecayOfAges
  <1>4. Activation(a, now) = SumFunctionOnSet(f, S)
    BY DEF Activation
  <1> HIDE DEF f, S
  <1> QED BY <1>2, <1>3, <1>4, SumOfNats

(* and larger for an entry that dominates another.                          *)
LEMMA ActivationRewards ==
    ASSUME NEW now \in 1..MaxMemClock, NEW a, IsEntry(a, now), NEW b, IsEntry(b, now), Dominates(a, b)
    PROVE  Activation(b, now) < Activation(a, now)
  <1>0. PICK s, t : s = a.at /\ t = b.at
    OBVIOUS
  <1> DEFINE m == Len(s)
             n == Len(t)
             f == [i \in DOMAIN s |-> Decay[now - s[i]]]
             g == [i \in DOMAIN t |-> Decay[now - t[i]]]
             h == [i \in 1..n |-> i + (m - n)]
  <1>1. s \in Seq(1..now) /\ t \in Seq(1..now)
    BY <1>0 DEF IsEntry
  <1>2. /\ m \in Nat /\ n \in Nat /\ DOMAIN s = 1..m /\ DOMAIN t = 1..n
        /\ (\A i \in 1..m : s[i] \in 1..now) /\ (\A i \in 1..n : t[i] \in 1..now)
    BY <1>1
  <1>3. /\ m >= n /\ s # t
        /\ \A i \in 1..n : s[m - i + 1] >= t[n - i + 1]
    BY <1>0 DEF Dominates
  <1>4. Activation(a, now) = SumFunctionOnSet(f, 1..m) /\ Activation(b, now) = SumFunctionOnSet(g, 1..n)
    BY <1>0, <1>2 DEF Activation
  <1>5. (\A i \in 1..m : f[i] = Decay[now - s[i]]) /\ (\A i \in 1..n : g[i] = Decay[now - t[i]])
    BY <1>2
  <1>6. m = n => \E i \in 1..n : s[i] # t[i]
    <2> SUFFICES ASSUME m = n, \A i \in 1..n : s[i] = t[i] PROVE FALSE
      OBVIOUS
    <2>1. s = [i \in 1..n |-> s[i]] /\ t = [i \in 1..n |-> t[i]]
      BY <1>1
    <2> HIDE DEF m, n
    <2> QED BY <2>1, <1>3
  <1> HIDE DEF m, n, f, g
  <1>7. \A i \in 1..n : h[i] = i + (m - n) /\ h[i] \in 1..m
    BY <1>2, <1>3
  <1>8. \A i, j \in 1..n : i # j => h[i] # h[j]
    BY <1>2, <1>7
  <1>9. \A i \in 1..n : s[h[i]] >= t[i]
    <2> TAKE i \in 1..n
    <2>1. n - i + 1 \in 1..n
      BY <1>2
    <2>2. m - (n - i + 1) + 1 = i + (m - n) /\ n - (n - i + 1) + 1 = i
      BY <1>2
    <2> QED BY <2>1, <2>2, <1>3, <1>7
  <1> HIDE DEF h
  <1>10. (\A i \in 1..m : f[i] \in Nat \ {0}) /\ (\A i \in 1..n : g[i] \in Nat)
    BY <1>2, <1>5, DecayOfAges
  <1>11. \A i \in 1..n : h[i] \in 1..m /\ g[i] <= f[h[i]] /\ (s[h[i]] # t[i] => g[i] < f[h[i]])
    <2> TAKE i \in 1..n
    <2>1. h[i] \in 1..m /\ s[h[i]] \in 1..now /\ t[i] \in 1..now /\ s[h[i]] >= t[i]
      BY <1>2, <1>7, <1>9
    <2>2. f[h[i]] = Decay[now - s[h[i]]] /\ g[i] = Decay[now - t[i]]
      BY <2>1, <1>5
    <2>3. f[h[i]] \in Nat /\ g[i] \in Nat
      BY <2>1, <1>10
    <2>4. CASE s[h[i]] = t[i]
      BY <2>1, <2>2, <2>3, <2>4
    <2>5. CASE s[h[i]] # t[i]
      <3>1. s[h[i]] > t[i]
        BY <2>1, <2>5
      <3>2. g[i] < f[h[i]]
        BY <3>1, <2>1, <2>2, DecayOfAges
      <3> QED BY <3>2, <2>1, <2>3
    <2> QED BY <2>4, <2>5
  <1>12. \/ \E i \in 1..n : g[i] < f[h[i]]
         \/ \E x \in 1..m : \A i \in 1..n : h[i] # x
    <2>1. CASE m = n
      <3>1. \A i \in 1..n : h[i] = i
        BY <2>1, <1>2, <1>7
      <3> QED BY <3>1, <2>1, <1>6, <1>11
    <2>2. CASE m # n
      <3>1. 1 \in 1..m /\ \A i \in 1..n : h[i] # 1
        BY <2>2, <1>2, <1>3, <1>7
      <3> QED BY <3>1
    <2> QED BY <2>1, <2>2
  <1>13. IsFiniteSet(1..m) /\ IsFiniteSet(1..n)
    BY <1>2, FS_Interval
  <1>14. SumFunctionOnSet(g, 1..n) < SumFunctionOnSet(f, 1..m)
    BY <1>8, <1>10, <1>11, <1>12, <1>13, SumLess
  <1> QED BY <1>4, <1>14

(* Of two keys, the one with the higher score comes first in Ranked.        *)
LEMMA RankedOrder ==
    ASSUME NEW K, NEW keys \in Seq(K), NEW score, \A k \in K : score[k] \in Nat
    PROVE  /\ Ranked(keys, score) \in Seq(K) /\ Len(Ranked(keys, score)) = Len(keys)
           /\ \A i, j \in 1..Len(keys) :
                 score[Ranked(keys, score)[i]] > score[Ranked(keys, score)[j]] => i < j
  <1> DEFINE c == Len(keys)
             P == 1..c
             sc(n) == score[keys[n]]
             R == {p \in P \X P : \/ sc(p[1]) > sc(p[2])
                                  \/ (sc(p[1]) = sc(p[2]) /\ p[1] < p[2])}
  <1>1. c \in Nat /\ \A n \in P : keys[n] \in K
    OBVIOUS
  <1>2. \A n \in P : sc(n) \in Nat
    BY <1>1
  <1>3. PICK q : q = InOrder(P, R)
    OBVIOUS
  <1>4. Ranked(keys, score) = [n \in P |-> keys[q[n]]]
    BY <1>3 DEF Ranked
  <1> HIDE DEF sc, c
  <1>5. \A i, j \in P : <<i, j>> \in R <=> \/ sc(i) > sc(j)
                                           \/ (sc(i) = sc(j) /\ i < j)
    OBVIOUS
  <1> HIDE DEF R
  <1>6. StrictOrder(R, P)
    <2>1. \A i \in P : <<i, i>> \notin R
      BY <1>1, <1>2, <1>5
    <2>2. \A i, j, k \in P : <<i, j>> \in R /\ <<j, k>> \in R => <<i, k>> \in R
      BY <1>1, <1>2, <1>5
    <2>3. \A i, j \in P : i # j => <<i, j>> \in R \/ <<j, i>> \in R
      BY <1>1, <1>2, <1>5
    <2> QED BY <2>1, <2>2, <2>3 DEF StrictOrder
  <1>7. IsFiniteSet(P) /\ Cardinality(P) = c
    BY <1>1, FS_Interval
  <1>8. q \in [P -> P] /\ \A m, n \in P : m < n <=> <<q[m], q[n]>> \in R
    <2> HIDE DEF P
    <2>1. /\ q \in [1..Cardinality(P) -> P]
          /\ \A m, n \in 1..Cardinality(P) : m < n <=> <<q[m], q[n]>> \in R
      BY <1>3, <1>6, <1>7, InOrderLists
    <2> QED BY <2>1, <1>7 DEF P
  <1>9. \A i, j \in P : sc(q[i]) > sc(q[j]) => i < j
    BY <1>5, <1>8
  <1>10. \A n \in P : Ranked(keys, score)[n] = keys[q[n]] /\ keys[q[n]] \in K
    BY <1>1, <1>4, <1>8
  <1>11. Ranked(keys, score) \in Seq(K) /\ Len(Ranked(keys, score)) = c
    <2>1. Ranked(keys, score) \in [P -> K]
      BY <1>4, <1>10
    <2> QED BY <2>1, <1>1
  <1> QED BY <1>9, <1>10, <1>11 DEF sc, c

(* RecencyRanks: in every reachable state of LongTermMemory, an entry that  *)
(* was retrieved as often as another, and as recently each time, comes      *)
(* before it in retrieve_top_k, the sort of the activation scores.          *)
THEOREM RanksHold == MemSpec => []RecencyRanks
  <1>1. MemSpec => []LongTyped
    BY LongInitTyped, LongStepTyped, PTL DEF MemSpec
  <1>2. LongTyped => RecencyRanks
    <2> SUFFICES ASSUME LongTyped PROVE RecencyRanks
      OBVIOUS
    <2> DEFINE score == ScoreNightly(memClock)
               ranked == Ranked(ltmOrder, score)
               c == Len(ltmOrder)
               k == Min({Cardinality(MemKeys), c})
               top == RetrieveTopK(Cardinality(MemKeys), memClock)
    <2>1. /\ memClock \in 1..MaxMemClock /\ ltmOrder \in Seq(DOMAIN ltm)
          /\ \A key \in DOMAIN ltm : IsEntry(ltm[key], memClock)
      BY DEF LongTyped
    <2>2. \A key \in DOMAIN ltm : score[key] = Activation(ltm[key], memClock)
      BY DEF ScoreNightly
    <2>3. \A key \in DOMAIN ltm : score[key] \in Nat
      BY <2>1, <2>2, ActivationTyped
    <2>4. \A a, b \in DOMAIN ltm : Dominates(ltm[a], ltm[b]) => score[b] < score[a]
      BY <2>1, <2>2, ActivationRewards
    <2>5. c \in Nat /\ Cardinality(MemKeys) \in Nat
      BY <2>1, MemoryAssumption, FS_CardinalityType
    <2>6. k \in Nat /\ k <= c
      <3>1. \E z \in {Cardinality(MemKeys), c} : \A y \in {Cardinality(MemKeys), c} : z <= y
        BY <2>5
      <3>2. k \in {Cardinality(MemKeys), c} /\ k <= c
        BY <3>1 DEF Min
      <3> QED BY <3>2, <2>5
    <2>7. top = SubSeq(ranked, 1, k)
      BY DEF RetrieveTopK
    <2> HIDE DEF score
    <2>8. /\ ranked \in Seq(DOMAIN ltm) /\ Len(ranked) = c
          /\ \A i \in 1..c : ranked[i] \in DOMAIN ltm
          /\ \A i, j \in 1..c : score[ranked[i]] > score[ranked[j]] => i < j
      BY <2>1, <2>3, RankedOrder
    <2> HIDE DEF ranked, c, k, top
    <2>9. Len(top) = k /\ \A i \in 1..k : top[i] = ranked[i] /\ i \in 1..c
      BY <2>5, <2>6, <2>7, <2>8
    <2>10. ASSUME NEW i \in 1..Len(top), NEW j \in 1..Len(top), Dominates(ltm[top[i]], ltm[top[j]])
           PROVE  i < j
      <3>1. i \in 1..c /\ j \in 1..c /\ top[i] = ranked[i] /\ top[j] = ranked[j]
        BY <2>9
      <3>2. score[ranked[j]] < score[ranked[i]]
        BY <3>1, <2>4, <2>8, <2>10
      <3>3. score[ranked[j]] \in Nat /\ score[ranked[i]] \in Nat
        BY <3>1, <2>3, <2>8
      <3> QED BY <3>1, <3>2, <3>3, <2>8
    <2> QED BY <2>10 DEF RecencyRanks, Dominates, top
  <1> QED BY <1>1, <1>2, PTL

-----------------------------------------------------------------------------
(* The universe filter and its watchlist.                                   *)

(* The smaller of two numbers is one of them.                               *)
LEMMA MinOfPair == ASSUME NEW a \in Int, NEW b \in Int PROVE Min({a, b}) \in {a, b}
  <1>1. \E x \in {a, b} : \A y \in {a, b} : x <= y
    OBVIOUS
  <1> QED BY <1>1 DEF Min

(* score_stock and compute_composite give numbers, which rank_entries can   *)
(* compare.                                                                 *)
LEMMA ScoreTyped ==
    ASSUME NEW sym \in DOMAIN Stocks, NEW regime \in DOMAIN BetaWeights
    PROVE  ComputeComposite(ScoreStock(Stocks[sym], regime), BetaWeights[regime]) \in Int
  <1>1. PICK s : s = Stocks[sym]
    OBVIOUS
  <1>2. s \in [bars : Nat, adx : Nat, close : Nat, ema : Nat, bbMid : Nat,
               bbWidth : Nat, avgVolume : Nat, recentVolume : Nat]
    BY <1>1, UniverseDataAssumption
  <1>3. TrendScore(s, regime) \in Int
    <2>1. s.adx * 20 \in Int
      BY <1>2
    <2>2. Min({s.adx * 20, 1000}) \in Int
      BY <2>1, MinOfPair
    <2> QED BY <2>2 DEF TrendScore
  <1>4. VolScore(s) \in Int
    <2>1. s.bbMid # 0 => (s.bbWidth * 20000) \div s.bbMid \in Int
      BY <1>2
    <2>2. s.bbMid # 0 => Min({(s.bbWidth * 20000) \div s.bbMid, 1000}) \in Int
      BY <2>1, MinOfPair
    <2> QED BY <2>2 DEF VolScore
  <1>5. LiqScore(s) \in Int
    <2>1. s.avgVolume # 0 => (1000 * s.recentVolume) \div (3 * s.avgVolume) \in Int
      BY <1>2
    <2>2. s.avgVolume # 0 =>
            Min({(1000 * s.recentVolume) \div (3 * s.avgVolume), 1000}) \in Int
      BY <2>1, MinOfPair
    <2> QED BY <2>2 DEF LiqScore
  <1>6. PICK c : c = ScoreStock(s, regime)
    OBVIOUS
  <1>7. c.trend \in Int /\ c.vol \in Int /\ c.liq \in Int
    BY <1>3, <1>4, <1>5, <1>6 DEF ScoreStock
  <1>8. PICK w : w = BetaWeights[regime]
    OBVIOUS
  <1>9. w.trend \in Int /\ w.vol \in Int /\ w.liq \in Int
    BY <1>8 DEF BetaWeights
  <1>10. ComputeComposite(c, w) \in Int
    BY <1>7, <1>9 DEF ComputeComposite
  <1> QED BY <1>1, <1>6, <1>8, <1>10

(* rank_entries lists entries it was given: in a finite set of entries with *)
(* scores and distinct places, some entry has n - 1 before it.              *)
LEMMA RankedAreEntries ==
    ASSUME NEW S, IsFiniteSet(S),
           \A e \in S : e.score \in Int /\ e.place \in Int,
           \A a, b \in S : a.place = b.place => a = b
    PROVE  RankEntries(S) \in [1..Cardinality(S) -> S] /\ Cardinality(S) \in Nat
  <1> DEFINE Ahead(e) == {x \in S : Before(x, e)}
             f == [e \in S |-> Cardinality(Ahead(e))]
             c == Cardinality(S)
  <1>1. c \in Nat
    BY FS_CardinalityType
  <1>2. \A e \in S : IsFiniteSet(Ahead(e)) /\ Cardinality(Ahead(e)) \in Nat
    BY FS_Subset, FS_CardinalityType
  <1>3. \A e \in S : Cardinality(Ahead(e)) < c
    <2> SUFFICES ASSUME NEW e \in S PROVE Cardinality(Ahead(e)) < c
      OBVIOUS
    <2>1. e \notin Ahead(e)
      BY DEF Before
    <2>2. Ahead(e) \in SUBSET S /\ Ahead(e) # S
      BY <2>1
    <2>3. Cardinality(Ahead(e)) <= c /\ Cardinality(Ahead(e)) # c
      <3> HIDE DEF Ahead
      <3> QED BY <2>2, FS_Subset
    <2> HIDE DEF Ahead, c
    <2> QED BY <2>3, <1>1, <1>2
  <1>4. ASSUME NEW a \in S, NEW b \in S, Before(a, b)
        PROVE  Cardinality(Ahead(a)) < Cardinality(Ahead(b))
    <2>1. Ahead(a) \subseteq Ahead(b)
      <3> SUFFICES ASSUME NEW x \in S, Before(x, a) PROVE Before(x, b)
        OBVIOUS
      <3> QED BY <1>4 DEF Before
    <2>2. a \in Ahead(b) /\ a \notin Ahead(a)
      BY <1>4 DEF Before
    <2> HIDE DEF Ahead
    <2>3. Cardinality(Ahead(a)) <= Cardinality(Ahead(b))
          /\ Cardinality(Ahead(a)) # Cardinality(Ahead(b))
      BY <2>1, <2>2, <1>2, FS_Subset
    <2> QED BY <2>3, <1>2
  <1>5. \A a, b \in S : a # b => Before(a, b) \/ Before(b, a)
    BY DEF Before
  <1>6. f \in Injection(S, 0..(c - 1))
    <2> HIDE DEF Ahead, c
    <2>1. f \in [S -> 0..(c - 1)]
      BY <1>1, <1>2, <1>3
    <2>2. \A a, b \in S : f[a] = f[b] => a = b
      BY <1>2, <1>4, <1>5
    <2> QED BY <2>1, <2>2 DEF Injection, IsInjective
  <1>7. IsFiniteSet(0..(c - 1)) /\ Cardinality(0..(c - 1)) = c
    <2> HIDE DEF c
    <2>1. 0 \in Int /\ c - 1 \in Int
      BY <1>1
    <2>2. IsFiniteSet(0..(c - 1))
          /\ Cardinality(0..(c - 1)) = IF 0 > c - 1 THEN 0 ELSE (c - 1) - 0 + 1
      BY <2>1, FS_Interval
    <2> QED BY <2>2, <1>1
  <1>8. f \in Surjection(S, 0..(c - 1))
    <2> HIDE DEF f
    <2> QED BY <1>6, <1>7, FS_Injection
  <1>9. \A n \in 1..c : \E e \in S : Cardinality(Ahead(e)) = n - 1
    <2> SUFFICES ASSUME NEW n \in 1..c
                 PROVE  \E e \in S : Cardinality(Ahead(e)) = n - 1
      OBVIOUS
    <2>1. n - 1 \in 0..(c - 1)
      <3> HIDE DEF c
      <3> QED BY <1>1
    <2> HIDE DEF c, Ahead
    <2>2. PICK e \in S : f[e] = n - 1
      <3> HIDE DEF f
      <3> QED BY <1>8, <2>1 DEF Surjection
    <2> QED BY <2>2
  <1>10. \A n \in 1..c : (CHOOSE e \in S : Cardinality({x \in S : Before(x, e)}) = n - 1) \in S
    BY <1>9
  <1> QED BY <1>1, <1>10 DEF RankEntries

(* run_universe_filter lists no stock it was told to exclude.               *)
LEMMA FilterExcludes ==
    ASSUME NEW symbols \in Seq(DOMAIN Stocks), NEW excluded,
           NEW regime \in DOMAIN BetaWeights \cup {"HIGH_VOL_CHAOS"}
    PROVE  LET entries == RunUniverseFilter(symbols, regime, excluded)
           IN  \A i \in DOMAIN entries : entries[i].symbol \notin excluded
  <1> DEFINE kept == {i \in DOMAIN symbols :
                        symbols[i] \notin excluded /\ Stocks[symbols[i]].bars >= MinBars}
             entry(i) == LET c == ScoreStock(Stocks[symbols[i]], regime) IN
                         [symbol |-> symbols[i], place |-> i,
                          score |-> ComputeComposite(c, BetaWeights[regime]),
                          strategy |-> AssignStrategyId(regime, c.trend)]
             S == {entry(i) : i \in kept}
             ranked == RankEntries(S)
  <1>1. CASE regime = "HIGH_VOL_CHAOS"
    <2>1. RunUniverseFilter(symbols, regime, excluded) = << >>
      BY <1>1 DEF RunUniverseFilter
    <2> QED BY <2>1
  <1>2. CASE regime # "HIGH_VOL_CHAOS"
    <2>1. regime \in DOMAIN BetaWeights
      BY <1>2
    <2>2. kept \in SUBSET (1..Len(symbols)) /\ Len(symbols) \in Nat
      OBVIOUS
    <2>3. \A i \in kept : /\ entry(i).symbol \notin excluded
                          /\ entry(i).place = i /\ entry(i).score \in Int
      <3> SUFFICES ASSUME NEW i \in kept
                   PROVE  /\ entry(i).symbol \notin excluded
                          /\ entry(i).place = i /\ entry(i).score \in Int
        OBVIOUS
      <3>1. symbols[i] \in DOMAIN Stocks
        OBVIOUS
      <3>2. ComputeComposite(ScoreStock(Stocks[symbols[i]], regime), BetaWeights[regime]) \in Int
        BY <3>1, <2>1, ScoreTyped
      <3> QED BY <3>2
    <2>4. IsFiniteSet(S)
      <3>1. IsFiniteSet(kept)
        <4>1. 1 \in Int /\ Len(symbols) \in Int
          BY <2>2
        <4>2. IsFiniteSet(1..Len(symbols))
          BY <4>1, FS_Interval
        <4> HIDE DEF kept
        <4> QED BY <4>2, <2>2, FS_Subset
      <3> HIDE DEF kept, entry
      <3>2. [i \in kept |-> entry(i)] \in Surjection(kept, S)
        BY DEF Surjection
      <3> QED BY <3>1, <3>2, FS_Surjection
    <2>5. /\ \A e \in S : e.symbol \notin excluded /\ e.score \in Int /\ e.place \in Int
          /\ \A a, b \in S : a.place = b.place => a = b
      <3> HIDE DEF kept, entry
      <3> QED BY <2>2, <2>3
    <2>6. ranked \in [1..Cardinality(S) -> S] /\ Cardinality(S) \in Nat
      <3> HIDE DEF S
      <3> QED BY <2>4, <2>5, RankedAreEntries
    <2>7. PICK q : q = ranked
      OBVIOUS
    <2>8. q \in Seq(S) /\ Len(q) \in Nat /\ \A i \in 1..Len(q) : q[i] \in S
      <3> HIDE DEF S
      <3> QED BY <2>6, <2>7
    <2>9. Min({TopN, Len(q)}) \in Int /\ Min({TopN, Len(q)}) <= Len(q)
      <3>1. TopN \in Int /\ Len(q) \in Int
        BY <2>8, UniverseAssumption
      <3>2. \E x \in {TopN, Len(q)} : \A y \in {TopN, Len(q)} : x <= y
        BY <3>1
      <3>3. /\ Min({TopN, Len(q)}) \in {TopN, Len(q)}
            /\ \A y \in {TopN, Len(q)} : Min({TopN, Len(q)}) <= y
        BY <3>2 DEF Min
      <3> QED BY <3>1, <3>3
    <2>10. PICK n \in Int : n = Min({TopN, Len(q)})
      BY <2>9
    <2>11. RunUniverseFilter(symbols, regime, excluded) = SubSeq(q, 1, n)
      BY <1>2, <2>7, <2>10 DEF RunUniverseFilter
    <2>12. \A i \in DOMAIN SubSeq(q, 1, n) : SubSeq(q, 1, n)[i] \in S
      <3> HIDE DEF S
      <3> QED BY <2>8, <2>9, <2>10
    <2> HIDE DEF S
    <2> QED BY <2>5, <2>11, <2>12
  <1> QED BY <1>1, <1>2

-----------------------------------------------------------------------------
UniSpec == UniInit /\ [][UniNext]_uniVars

(* A row that excludes its stock                                            *)
Excludes(l, symbol) == symbol \in SymbolsFrom(l.row.category, {l.row})

(* What a build must satisfy, stored or not: when it was scored, no stock   *)
(* of it had been listed for the age of a cache file.                       *)
CleanBuild(build) ==
    /\ build.at \in Nat /\ build.at <= uniClock
    /\ ~build.blind =>
          \A i \in DOMAIN build.entries, l \in listedRows :
              Excludes(l, build.entries[i].symbol) => build.at - l.since < ListCacheAge

BuildOf(b) == [entries |-> builder[b].entries, at |-> builder[b].at, blind |-> builder[b].blind]

UniTyped ==
    /\ uniClock \in Nat
    /\ \A l \in listedRows : l.row \in Rows /\ l.since \in Nat /\ l.since <= uniClock
    /\ DOMAIN listFiles = Categories
    /\ \A c \in Categories : \A f \in listFiles[c] : f.at \in Nat /\ f.at <= uniClock
    /\ DOMAIN builder = Builders
    /\ \A b \in Builders :
          /\ DOMAIN builder[b] = {"pc", "regime", "entries", "at", "blind"}
          /\ builder[b].pc \in {"idle", "regime", "built", "committed"}
          /\ builder[b].pc = "regime" => builder[b].regime \in Regimes \cup {"BULL_TREND"}
    /\ \E B : history \in Seq(B)
    /\ \A e \in kvList : DOMAIN e = {"build", "set"}

(* A cache file holds every row listed before it was written.               *)
FilesComplete ==
    \A c \in Categories : \A f \in listFiles[c], l \in listedRows :
        l.row.category = c /\ l.since < f.at => l.row \in f.rows

(* Committed first: what the key holds is in the table, or is garbled.      *)
KeyIsCommitted == \A e \in kvList : e.build = Garbled \/ e.build \in Range(history)

BuildersClean ==
    \A b \in Builders :
        /\ builder[b].pc \in {"built", "committed"} => CleanBuild(BuildOf(b))
        /\ builder[b].pc = "committed" => BuildOf(b) \in Range(history)

HistoryClean == \A h \in Range(history) : CleanBuild(h)

UniInv == UniTyped /\ FilesComplete /\ KeyIsCommitted /\ BuildersClean /\ HistoryClean

(* Nothing is listed, cached or built.                                      *)
LEMMA UniInitInv == UniInit => UniInv
  <1> SUFFICES ASSUME UniInit PROVE UniInv
    OBVIOUS
  <1> USE DEF UniInit
  <1>1. \A b \in Builders : builder[b] = IdleBuilder
    OBVIOUS
  <1>2. UniTyped
    <2>1. history \in Seq({})
      OBVIOUS
    <2>2. DOMAIN IdleBuilder = {"pc", "regime", "entries", "at", "blind"}
          /\ IdleBuilder.pc = "idle"
      BY DEF IdleBuilder
    <2> QED BY <1>1, <2>1, <2>2 DEF UniTyped
  <1>3. BuildersClean
    BY <1>1 DEF BuildersClean, IdleBuilder
  <1> QED BY <1>2, <1>3 DEF UniInv, FilesComplete, KeyIsCommitted, HistoryClean, Range

(* A build stays clean: the clock moves on, and a row listed later was not  *)
(* there when it was scored.                                                *)
LEMMA CleanKept ==
    ASSUME UniTyped, uniClock' \in Nat, uniClock' >= uniClock,
           \A l \in listedRows' : l \in listedRows \/ l.since = uniClock,
           NEW build, CleanBuild(build)
    PROVE  CleanBuild(build)'
  <1>1. build.at \in Nat /\ build.at <= uniClock /\ uniClock \in Nat
    BY DEF CleanBuild, UniTyped
  <1>2. build.at <= uniClock'
    BY <1>1
  <1>3. ASSUME ~build.blind, NEW i \in DOMAIN build.entries, NEW l \in listedRows',
               Excludes(l, build.entries[i].symbol)
        PROVE  build.at - l.since < ListCacheAge
    <2>1. CASE l \in listedRows
      BY <2>1, <1>3 DEF CleanBuild
    <2>2. CASE l.since = uniClock
      BY <2>2, <1>1, UniverseAssumption
    <2> QED BY <2>1, <2>2
  <1> QED BY <1>1, <1>2, <1>3 DEF CleanBuild, Excludes

(* A step of the world: the clock, the exchange's lists, the two outages    *)
(* and the garbled key.                                                     *)
LEMMA WorldInv ==
    ASSUME UniInv, UNCHANGED <<builder, history, listFiles>>,
           uniClock' \in Nat, uniClock' >= uniClock,
           \A l \in listedRows' : l \in listedRows \/ (l.row \in Rows /\ l.since = uniClock),
           \A e \in kvList' : e \in kvList \/ (DOMAIN e = {"build", "set"} /\ e.build = Garbled)
    PROVE  UniInv'
  <1> USE DEF UniInv
  <1>1. UniTyped'
    <2>1. \A l \in listedRows' : l.row \in Rows /\ l.since \in Nat /\ l.since <= uniClock'
      BY DEF UniTyped
    <2>2. \A c \in Categories : \A f \in listFiles[c] : f.at \in Nat /\ f.at <= uniClock'
      BY DEF UniTyped
    <2>3. \A e \in kvList' : DOMAIN e = {"build", "set"}
      BY DEF UniTyped
    <2> QED BY <2>1, <2>2, <2>3 DEF UniTyped
  <1>2. FilesComplete'
    BY DEF FilesComplete, UniTyped
  <1>3. KeyIsCommitted'
    BY DEF KeyIsCommitted
  <1>4. BuildersClean'
    <2> SUFFICES ASSUME NEW b \in Builders
                 PROVE  /\ builder[b].pc \in {"built", "committed"} => CleanBuild(BuildOf(b))'
                        /\ builder[b].pc = "committed" => BuildOf(b) \in Range(history)
      BY DEF BuildersClean, BuildOf
    <2>1. PICK build : build = BuildOf(b)
      OBVIOUS
    <2>2. CleanBuild(build) => CleanBuild(build)'
      BY CleanKept
    <2>3. BuildOf(b)' = build
      BY <2>1 DEF BuildOf
    <2>4. CleanBuild(build)' => CleanBuild(BuildOf(b))'
      BY <2>3 DEF CleanBuild
    <2> QED BY <2>1, <2>2, <2>4 DEF BuildersClean
  <1>5. HistoryClean'
    <2> SUFFICES ASSUME NEW h \in Range(history) PROVE CleanBuild(h)'
      BY DEF HistoryClean
    <2> QED BY CleanKept DEF HistoryClean
  <1> QED BY <1>1, <1>2, <1>3, <1>4, <1>5

(* A step of one builder, from what it leaves in its own record, the files  *)
(* and the two stores.                                                      *)
LEMMA BuilderInv ==
    ASSUME UniInv, NEW b \in Builders, NEW r, builder' = [builder EXCEPT ![b] = r],
           UNCHANGED <<uniClock, listedRows>>,
           DOMAIN r = {"pc", "regime", "entries", "at", "blind"},
           r.pc \in {"idle", "regime", "built", "committed"},
           r.pc = "regime" => r.regime \in Regimes \cup {"BULL_TREND"},
           r.pc \in {"built", "committed"} =>
               CleanBuild([entries |-> r.entries, at |-> r.at, blind |-> r.blind]),
           r.pc = "committed" =>
               [entries |-> r.entries, at |-> r.at, blind |-> r.blind] \in Range(history'),
           DOMAIN listFiles' = Categories,
           \A c \in Categories : \A f \in listFiles'[c] :
               /\ f.at \in Nat /\ f.at <= uniClock
               /\ \A l \in listedRows :
                      l.row.category = c /\ l.since < f.at => l.row \in f.rows,
           \E B : history' \in Seq(B), Range(history) \subseteq Range(history'),
           \A h \in Range(history') : CleanBuild(h),
           \A e \in kvList' : /\ DOMAIN e = {"build", "set"}
                              /\ e.build = Garbled \/ e.build \in Range(history')
    PROVE  UniInv'
  <1> USE DEF UniInv
  <1>1. \A d \in Builders : builder'[d] = IF d = b THEN r ELSE builder[d]
    BY DEF UniTyped
  <1>2. UniTyped'
    BY <1>1 DEF UniTyped
  <1>3. FilesComplete'
    BY DEF FilesComplete
  <1>4. KeyIsCommitted'
    BY DEF KeyIsCommitted
  <1>5. \A h : CleanBuild(h) => CleanBuild(h)'
    BY DEF CleanBuild, Excludes
  <1>6. HistoryClean'
    BY <1>5 DEF HistoryClean
  <1>7. BuildersClean'
    <2> SUFFICES ASSUME NEW d \in Builders
                 PROVE  /\ builder'[d].pc \in {"built", "committed"} => CleanBuild(BuildOf(d))'
                        /\ builder'[d].pc = "committed" => BuildOf(d)' \in Range(history')
      BY DEF BuildersClean
    <2>1. CASE d = b
      <3>1. PICK build : build = [entries |-> r.entries, at |-> r.at, blind |-> r.blind]
        OBVIOUS
      <3>2. BuildOf(d)' = build
        BY <1>1, <2>1, <3>1 DEF BuildOf
      <3>3. CleanBuild(build) => CleanBuild(BuildOf(d))'
        BY <3>2, <1>5 DEF CleanBuild
      <3> QED BY <2>1, <3>1, <3>2, <3>3, <1>1
    <2>2. CASE d # b
      <3>1. PICK build : build = BuildOf(d)
        OBVIOUS
      <3>2. BuildOf(d)' = build
        BY <1>1, <2>2, <3>1 DEF BuildOf
      <3>3. CleanBuild(build) => CleanBuild(BuildOf(d))'
        BY <3>2, <1>5 DEF CleanBuild
      <3> QED BY <2>2, <3>1, <3>2, <3>3, <1>1 DEF BuildersClean
    <2> QED BY <2>1, <2>2
  <1> QED BY <1>2, <1>3, <1>4, <1>6, <1>7

(* A category that was read fresh or fetched has every row listed for the   *)
(* age of a cache file.                                                     *)
LEMMA CategoryCovers ==
    ASSUME UniTyped, FilesComplete, NEW c \in Categories, ~GetCategoryData(c).blind,
           NEW l \in listedRows, l.row.category = c, ~(uniClock - l.since < ListCacheAge)
    PROVE  l.row \in GetCategoryData(c).rows
  <1> DEFINE fresh == {f \in listFiles[c] : IsListCacheFresh(f)}
  <1>1. CASE fresh # {}
    <2>1. GetCategoryData(c).rows = UNION {f.rows : f \in fresh}
      BY <1>1 DEF GetCategoryData
    <2>2. PICK f \in listFiles[c] : IsListCacheFresh(f)
      BY <1>1
    <2>3. l.since < f.at
      BY <2>2, UniverseAssumption DEF IsListCacheFresh, UniTyped
    <2>4. l.row \in f.rows
      BY <2>3 DEF FilesComplete
    <2> QED BY <2>1, <2>2, <2>4
  <1>2. CASE fresh = {}
    <2>1. FetchUrl(c) # {}
      BY <1>2 DEF GetCategoryData
    <2>2. GetCategoryData(c).rows = UNION FetchUrl(c)
      BY <1>2, <2>1 DEF GetCategoryData
    <2> QED BY <2>1, <2>2 DEF FetchUrl
  <1> QED BY <1>1, <1>2

(* The file a category ends with is the one it had, or holds all its rows.  *)
LEMMA FileKept ==
    ASSUME UniTyped, FilesComplete, NEW c \in Categories,
           NEW f \in GetCategoryData(c).file
    PROVE  /\ f.at \in Nat /\ f.at <= uniClock
           /\ \A l \in listedRows : l.row.category = c /\ l.since < f.at => l.row \in f.rows
  <1>1. \/ GetCategoryData(c).file = listFiles[c]
        \/ /\ FetchUrl(c) # {}
           /\ GetCategoryData(c).file = {[rows |-> UNION FetchUrl(c), at |-> uniClock]}
    BY DEF GetCategoryData
  <1>2. CASE GetCategoryData(c).file = listFiles[c]
    BY <1>2 DEF UniTyped, FilesComplete
  <1>3. CASE /\ FetchUrl(c) # {}
             /\ GetCategoryData(c).file = {[rows |-> UNION FetchUrl(c), at |-> uniClock]}
    <2>1. f.rows = UNION FetchUrl(c) /\ f.at = uniClock
      BY <1>3
    <2> QED BY <2>1, <1>3 DEF FetchUrl, UniTyped
  <1> QED BY <1>1, <1>2, <1>3

(* The stocks of the command, in some order                                 *)
LEMMA StocksListed == SetToSeq(DOMAIN Stocks) \in Seq(DOMAIN Stocks)
  <1> DEFINE S == DOMAIN Stocks
             n == Cardinality(S)
  <1>1. IsFiniteSet(S)
    BY UniverseDataAssumption
  <1>2. n \in Nat /\ ExistsBijection(1..n, S)
    BY <1>1, FS_CardinalityType
  <1>3. \E f \in [1..n -> S] : IsInjective(f)
    <2> HIDE DEF S, n
    <2> QED BY <1>2 DEF ExistsBijection, Bijection, Injection
  <1>4. SetToSeq(S) \in [1..n -> S]
    BY <1>3 DEF SetToSeq
  <1> HIDE DEF n, S
  <1>5. SetToSeq(S) \in Seq(S)
    BY <1>2, <1>4
  <1> QED BY <1>5 DEF S

(* BuildWatchlist scores no stock that has been listed for long.            *)
LEMMA BuildInv ==
    ASSUME UniInv, NEW b \in Builders, NEW symbols \in Seq(DOMAIN Stocks),
           BuildWatchlist(b, symbols)
    PROVE  UniInv'
  <1> USE DEF UniInv
  <1>1. PICK old : old = builder[b]
    OBVIOUS
  <1>2. PICK entries : entries = RunUniverseFilter(symbols, old.regime, ExcludedSymbols)
    OBVIOUS
  <1>3. PICK blind \in BOOLEAN : blind = \E c \in Categories : GetCategoryData(c).blind
    OBVIOUS
  <1>4. PICK r : r = IF entries = << >> THEN IdleBuilder
                     ELSE [old EXCEPT !.pc = "built", !.entries = entries, !.at = uniClock,
                                      !.blind = blind]
    OBVIOUS
  <1>5. /\ old.pc = "regime" /\ builder' = [builder EXCEPT ![b] = r]
        /\ UNCHANGED <<uniClock, listedRows, kvList, history>>
    BY <1>1, <1>2, <1>3, <1>4 DEF BuildWatchlist
  <1>6. DOMAIN old = {"pc", "regime", "entries", "at", "blind"}
        /\ old.regime \in Regimes \cup {"BULL_TREND"}
    BY <1>1, <1>5 DEF UniTyped
  <1>7. old.regime \in DOMAIN BetaWeights \cup {"HIGH_VOL_CHAOS"}
    BY <1>6, UniverseDataAssumption DEF BetaWeights
  <1>8. \A i \in DOMAIN entries : entries[i].symbol \notin ExcludedSymbols
    BY <1>2, <1>7, FilterExcludes
  <1>9. DOMAIN r = {"pc", "regime", "entries", "at", "blind"}
    BY <1>4, <1>6 DEF IdleBuilder
  <1>10. \/ r.pc = "idle"
         \/ r.pc = "built" /\ r.entries = entries /\ r.at = uniClock /\ r.blind = blind
    BY <1>4, <1>6 DEF IdleBuilder
  <1>11. ASSUME r.pc = "built" PROVE CleanBuild([entries |-> r.entries, at |-> r.at, blind |-> r.blind])
    <2>1. r.entries = entries /\ r.at = uniClock /\ r.blind = blind
      BY <1>10, <1>11
    <2>2. ASSUME ~blind, NEW i \in DOMAIN entries, NEW l \in listedRows,
                 Excludes(l, entries[i].symbol), ~(uniClock - l.since < ListCacheAge)
          PROVE  FALSE
      <3>1. PICK c \in Categories : c = l.row.category
        BY UniverseDataAssumption DEF UniTyped
      <3>2. ~GetCategoryData(c).blind
        BY <2>2, <1>3
      <3>3. l.row \in GetCategoryData(c).rows
        BY <2>2, <3>1, <3>2, CategoryCovers
      <3>4. entries[i].symbol = l.row.symbol /\ (c = "mwpl" => l.row.pct >= 90)
        BY <2>2, <3>1 DEF Excludes, SymbolsFrom
      <3>5. entries[i].symbol \in SymbolsFrom(c, GetCategoryData(c).rows)
        BY <3>3, <3>4 DEF SymbolsFrom
      <3>6. entries[i].symbol \in ExcludedSymbols
        BY <3>5 DEF ExcludedSymbols
      <3> QED BY <3>6, <1>8
    <2>3. uniClock \in Nat
      BY DEF UniTyped
    <2> QED BY <2>1, <2>2, <2>3 DEF CleanBuild
  <1>12. /\ DOMAIN listFiles' = Categories
         /\ \A c \in Categories : \A f \in listFiles'[c] :
               /\ f.at \in Nat /\ f.at <= uniClock
               /\ \A l \in listedRows :
                      l.row.category = c /\ l.since < f.at => l.row \in f.rows
    <2>1. listFiles' = listFiles \/ listFiles' = [c \in Categories |-> GetCategoryData(c).file]
      BY DEF BuildWatchlist
    <2>2. CASE listFiles' = listFiles
      BY <2>2 DEF UniTyped, FilesComplete
    <2>3. CASE listFiles' = [c \in Categories |-> GetCategoryData(c).file]
      BY <2>3, FileKept
    <2> QED BY <2>1, <2>2, <2>3
  <1>13. (\E B : history \in Seq(B)) /\ (\A h \in Range(history) : CleanBuild(h))
    BY DEF UniTyped, HistoryClean
  <1>14. \A e \in kvList : /\ DOMAIN e = {"build", "set"}
                           /\ e.build = Garbled \/ e.build \in Range(history)
    BY DEF UniTyped, KeyIsCommitted
  <1>15. /\ r.pc \in {"idle", "regime", "built", "committed"}
         /\ r.pc # "regime" /\ r.pc # "committed"
    BY <1>10
  <1> QED BY <1>5, <1>9, <1>11, <1>12, <1>13, <1>14, <1>15, BuilderInv

(* The other steps of a builder: the regime, the commit, the key, the end   *)
LEMMA BuilderOthersInv ==
    ASSUME UniInv, NEW b \in Builders,
           (\E regime \in Regimes : ReadRegime(b, regime)) \/ CommitWatchlist(b)
               \/ SetWatchlist(b) \/ BuilderEnds(b)
    PROVE  UniInv'
  <1> USE DEF UniInv
  <1>1. PICK old : old = builder[b]
    OBVIOUS
  <1>2. DOMAIN old = {"pc", "regime", "entries", "at", "blind"}
    BY <1>1 DEF UniTyped
  <1>3. (\E B : history \in Seq(B)) /\ (\A h \in Range(history) : CleanBuild(h))
    BY DEF UniTyped, HistoryClean
  <1>4. \A e \in kvList : /\ DOMAIN e = {"build", "set"}
                          /\ e.build = Garbled \/ e.build \in Range(history)
    BY DEF UniTyped, KeyIsCommitted
  <1>5. /\ DOMAIN listFiles = Categories
        /\ \A c \in Categories : \A f \in listFiles[c] :
              /\ f.at \in Nat /\ f.at <= uniClock
              /\ \A l \in listedRows :
                     l.row.category = c /\ l.since < f.at => l.row \in f.rows
    BY DEF UniTyped, FilesComplete
  <1>6. DOMAIN IdleBuilder = {"pc", "regime", "entries", "at", "blind"} /\ IdleBuilder.pc = "idle"
    BY DEF IdleBuilder
  <1>7. PICK build : build = [entries |-> old.entries, at |-> old.at, blind |-> old.blind]
    OBVIOUS
  <1>8. /\ old.pc \in {"built", "committed"} => CleanBuild(build)
        /\ old.pc = "committed" => build \in Range(history)
    BY <1>1, <1>7 DEF BuildersClean, BuildOf
  <1>9. ASSUME NEW regime \in Regimes, ReadRegime(b, regime) PROVE UniInv'
    <2>1. PICK idle : idle = IdleBuilder
      OBVIOUS
    <2>2. PICK g \in Regimes \cup {"BULL_TREND"} : g = IF kvUp THEN regime ELSE "BULL_TREND"
      OBVIOUS
    <2>3. PICK r : r = [idle EXCEPT !.pc = "regime", !.regime = g]
      OBVIOUS
    <2>4. builder' = [builder EXCEPT ![b] = r]
          /\ UNCHANGED <<uniClock, listedRows, listFiles, kvList, history>>
      BY <1>9, <2>1, <2>2, <2>3 DEF ReadRegime
    <2>5. DOMAIN r = {"pc", "regime", "entries", "at", "blind"} /\ r.pc = "regime" /\ r.regime = g
      BY <2>1, <2>3, <1>6
    <2> QED BY <2>4, <2>5, <1>3, <1>4, <1>5, BuilderInv
  <1>10. ASSUME BuilderEnds(b) PROVE UniInv'
    <2>1. builder' = [builder EXCEPT ![b] = IdleBuilder]
          /\ UNCHANGED <<uniClock, listedRows, listFiles, kvList, history>>
      BY <1>10 DEF BuilderEnds
    <2>2. PICK r : r = IdleBuilder
      OBVIOUS
    <2> QED BY <2>1, <2>2, <1>3, <1>4, <1>5, <1>6, BuilderInv
  <1>11. ASSUME SetWatchlist(b) PROVE UniInv'
    <2>1. /\ old.pc = "committed" /\ builder' = [builder EXCEPT ![b] = IdleBuilder]
          /\ UNCHANGED <<uniClock, listedRows, listFiles, history>>
          /\ kvList' = kvList \/ kvList' = {[build |-> build, set |-> uniClock]}
      BY <1>1, <1>7, <1>11 DEF SetWatchlist
    <2>2. \A e \in kvList' : /\ DOMAIN e = {"build", "set"}
                             /\ e.build = Garbled \/ e.build \in Range(history)
      BY <2>1, <1>4, <1>8
    <2>3. PICK r : r = IdleBuilder
      OBVIOUS
    <2> QED BY <2>1, <2>2, <2>3, <1>3, <1>5, <1>6, BuilderInv
  <1>12. ASSUME CommitWatchlist(b) PROVE UniInv'
    <2>1. PICK r : r = [old EXCEPT !.pc = "committed"]
      OBVIOUS
    <2>2. /\ old.pc = "built" /\ builder' = [builder EXCEPT ![b] = r]
          /\ UNCHANGED <<uniClock, listedRows, listFiles, kvList>>
          /\ history' = Append(history, build)
      BY <1>1, <1>7, <1>12, <2>1 DEF CommitWatchlist
    <2>3. /\ DOMAIN r = {"pc", "regime", "entries", "at", "blind"} /\ r.pc = "committed"
          /\ [entries |-> r.entries, at |-> r.at, blind |-> r.blind] = build
      BY <2>1, <1>2, <1>7
    <2>4. /\ \E B : history' \in Seq(B)
          /\ Range(history') = Range(history) \cup {build}
      <3>1. PICK B : history \in Seq(B)
        BY <1>3
      <3>2. history \in Seq(B \cup {build})
        BY <3>1
      <3>3. history' \in Seq(B \cup {build})
        BY <3>2, <2>2
      <3>4. /\ DOMAIN history' = 1..(Len(history) + 1) /\ DOMAIN history = 1..Len(history)
            /\ Len(history) \in Nat /\ history'[Len(history) + 1] = build
            /\ \A i \in 1..Len(history) : history'[i] = history[i]
        BY <3>2, <2>2
      <3>5. Range(history') = Range(history) \cup {build}
        BY <3>4 DEF Range
      <3> QED BY <3>3, <3>5
    <2>5. \A h \in Range(history') : CleanBuild(h)
      BY <2>2, <2>4, <1>3, <1>8
    <2>6. \A e \in kvList' : /\ DOMAIN e = {"build", "set"}
                             /\ e.build = Garbled \/ e.build \in Range(history')
      BY <2>2, <2>4, <1>4
    <2>7. Range(history) \subseteq Range(history') /\ build \in Range(history')
      BY <2>4
    <2> QED BY <2>2, <2>3, <2>4, <2>5, <2>6, <2>7, <1>5, <1>8, BuilderInv
  <1> QED BY <1>9, <1>10, <1>11, <1>12

(* Every step of the builders and the world.                                *)
LEMMA UniStepInv == ASSUME UniInv, [UniNext]_uniVars PROVE UniInv'
  <1>1. uniClock \in Nat
    BY DEF UniInv, UniTyped
  <1>2. ASSUME NEW row \in Rows, ListRow(row) PROVE UniInv'
    BY <1>1, <1>2, WorldInv DEF ListRow
  <1>3. ASSUME NseToggles \/ KvToggles \/ UNCHANGED uniVars PROVE UniInv'
    BY <1>1, <1>3, WorldInv DEF NseToggles, KvToggles, uniVars
  <1>4. ASSUME UniTick PROVE UniInv'
    BY <1>1, <1>4, WorldInv DEF UniTick
  <1>5. ASSUME KvGarbled PROVE UniInv'
    <2>1. PICK e \in kvList : kvList' = {[e EXCEPT !.build = Garbled]}
      BY <1>5 DEF KvGarbled
    <2>2. DOMAIN e = {"build", "set"}
      BY DEF UniInv, UniTyped
    <2>3. \A g \in kvList' : DOMAIN g = {"build", "set"} /\ g.build = Garbled
      BY <2>1, <2>2
    <2> QED BY <2>3, <1>1, <1>5, WorldInv DEF KvGarbled
  <1> QED BY <1>2, <1>3, <1>4, <1>5, BuildInv, BuilderOthersInv, StocksListed DEF UniNext

(* Whichever store load_watchlist answers from (universe/repository.py), it      *)
(* answers a build that was committed, and no stock of that build had been  *)
(* on an exclusion list for the age of a cache file when it was scored,     *)
(* unless the exchange could not be asked then.                             *)
THEOREM WatchlistHolds == UniSpec => []WatchlistCurrent
  <1>1. UniSpec => []UniInv
    BY UniInitInv, UniStepInv, PTL DEF UniSpec
  <1>2. UniInv => WatchlistCurrent
    <2> SUFFICES ASSUME UniInv, NEW e \in LoadWatchlist
                 PROVE  /\ e.build \in Range(history) \cup {NoBuild}
                        /\ e.build.blind \/
                              \A i \in DOMAIN e.build.entries, l \in listedRows :
                                 e.build.entries[i].symbol \in SymbolsFrom(l.row.category, {l.row})
                                    => e.build.at - l.since < ListCacheAge
      BY DEF WatchlistCurrent
    <2>1. e.build \in Range(history) \cup {NoBuild}
      <3>1. CASE Cached # {}
        BY <3>1 DEF LoadWatchlist, Cached, UniInv, KeyIsCommitted
      <3>2. CASE Cached = {}
        <4>1. LatestBuilds \subseteq Range(history)
          BY DEF LatestBuilds, Range
        <4> QED BY <3>2, <4>1 DEF LoadWatchlist
      <3> QED BY <3>1, <3>2
    <2>2. CASE e.build = NoBuild
      <3>1. DOMAIN e.build.entries = {}
        BY <2>2 DEF NoBuild
      <3> QED BY <2>1, <3>1
    <2>3. CASE e.build \in Range(history)
      BY <2>1, <2>3 DEF UniInv, HistoryClean, CleanBuild, Excludes
    <2> QED BY <2>1, <2>2, <2>3
  <1> QED BY <1>1, <1>2, PTL

-----------------------------------------------------------------------------
(* Corporate actions and the adjusted series.                               *)

InsSpec == InsInit /\ [][InsNext]_insVars

InsTyped ==
    /\ DOMAIN refresher = Refreshers
    /\ \A p \in Refreshers : DOMAIN refresher[p] = {"pc", "rows"}
    /\ \A f, g \in overrides : f = g

Given(rows) == \A a \in rows : a \in seen /\ ValidAction(a)

(* Every row, stored or on its way to the table, is one that the NSE or the *)
(* file gave.                                                               *)
RowsGiven ==
    /\ \A e \in published : ParseNseEntry(e) \subseteq seen
    /\ UNION overrides \subseteq seen
    /\ \A p \in Refreshers : Given(refresher[p].rows)
    /\ Given(actions)

Between == {"live", "loaded"}

(* After a refresh, and while none stands between its two commits, the      *)
(* file's rows are the ones in the table.                                   *)
OverridesPrevail ==
    clean = TRUE /\ (\A p \in Refreshers : refresher[p].pc \notin Between)
        => UNION overrides \subseteq actions

Keys(rows) == {ActionKey(a) : a \in rows}

(* The table has a row for every key that a refresh committed.              *)
NothingMissing == Keys(actions) = recorded

InsInv == InsTyped /\ RowsGiven /\ Upsertable(actions) /\ OverridesPrevail /\ NothingMissing

(* The table is empty and no refresh has run.                               *)
LEMMA InsInitInv == InsInit => InsInv
  <1> SUFFICES ASSUME InsInit PROVE InsInv
    OBVIOUS
  <1> USE DEF InsInit
  <1>1. \A p \in Refreshers : refresher[p] = IdleRefresher
    OBVIOUS
  <1>2. DOMAIN IdleRefresher = {"pc", "rows"} /\ IdleRefresher.rows = {}
    BY DEF IdleRefresher
  <1>3. InsTyped
    BY <1>1, <1>2 DEF InsTyped
  <1>4. RowsGiven
    BY <1>1, <1>2 DEF RowsGiven, Given
  <1> QED BY <1>3, <1>4 DEF InsInv, Upsertable, OverridesPrevail, NothingMissing, Keys

(* An upsert on the key leaves one row for each key.                        *)
LEMMA UpsertKeepsOne ==
    ASSUME Upsertable(actions), NEW rows, Upsertable(rows)
    PROVE  Upsertable(UpsertActions(rows)) /\ rows \subseteq UpsertActions(rows)
           /\ UpsertActions(rows) \subseteq actions \cup rows
           /\ Keys(UpsertActions(rows)) = Keys(actions) \cup Keys(rows)
  <1>1. Upsertable(UpsertActions(rows)) /\ rows \subseteq UpsertActions(rows)
        /\ UpsertActions(rows) \subseteq actions \cup rows
    BY DEF Upsertable, UpsertActions
  <1>2. \A a \in actions : a \in UpsertActions(rows) \/ ActionKey(a) \in Keys(rows)
    BY DEF UpsertActions, Keys
  <1> QED BY <1>1, <1>2 DEF Keys

(* _parse_nse_entry gives valid actions only.                               *)
LEMMA ParsedValid == ASSUME NEW e, NEW a \in ParseNseEntry(e) PROVE ValidAction(a)
  BY DEF ParseNseEntry

(* A step of one process, from what it leaves in its record and the table.  *)
LEMMA RefresherInv ==
    ASSUME InsInv, NEW p \in Refreshers, NEW r, refresher' = [refresher EXCEPT ![p] = r],
           UNCHANGED <<published, overrides, seen>>,
           DOMAIN r = {"pc", "rows"}, Given(r.rows), Given(actions'), Upsertable(actions'),
           Keys(actions') = recorded',
           clean' = TRUE /\ (\A q \in Refreshers : refresher'[q].pc \notin Between)
              => UNION overrides \subseteq actions'
    PROVE  InsInv'
  <1> USE DEF InsInv
  <1>1. \A q \in Refreshers : refresher'[q] = IF q = p THEN r ELSE refresher[q]
    BY DEF InsTyped
  <1>2. InsTyped'
    BY <1>1 DEF InsTyped
  <1>3. RowsGiven'
    BY <1>1 DEF RowsGiven, Given
  <1>4. Upsertable(actions)' /\ OverridesPrevail' /\ NothingMissing'
    BY DEF Upsertable, OverridesPrevail, NothingMissing, Keys
  <1> QED BY <1>2, <1>3, <1>4

(* A step of a process that commits nothing: it does not stand between two  *)
(* commits before it, or forgets the clean refresh.                         *)
LEMMA MoveInv ==
    ASSUME InsInv, NEW p \in Refreshers, NEW r, refresher' = [refresher EXCEPT ![p] = r],
           UNCHANGED <<published, overrides, seen, actions, recorded>>,
           DOMAIN r = {"pc", "rows"}, Given(r.rows),
           clean' = TRUE => clean = TRUE /\ (refresher[p].pc \notin Between \/ r.pc \in Between)
    PROVE  InsInv'
  <1>1. \A q \in Refreshers : q # p => refresher'[q] = refresher[q]
    BY DEF InsInv, InsTyped
  <1>2. clean' = TRUE /\ (\A q \in Refreshers : refresher'[q].pc \notin Between)
              => UNION overrides \subseteq actions'
    <2>1. refresher'[p] = r
      BY DEF InsInv, InsTyped
    <2> QED BY <1>1, <2>1 DEF InsInv, OverridesPrevail
  <1>3. Given(actions') /\ Upsertable(actions') /\ Keys(actions') = recorded'
    BY DEF InsInv, RowsGiven, NothingMissing
  <1> QED BY <1>2, <1>3, RefresherInv

(* The steps of cli.main that touch no corporate action                     *)
LEMMA PassInv ==
    ASSUME InsInv, NEW p \in Refreshers,
           StartRefresh(p) \/ RefreshMaster(p) \/ FetchActions(p) \/ LoadManualOverrides(p)
               \/ OverridesRefused(p) \/ LookUp(p) \/ RefresherDies(p)
    PROVE  InsInv'
  <1>1. PICK old : old = refresher[p]
    OBVIOUS
  <1>2. DOMAIN old = {"pc", "rows"} /\ Given(old.rows)
    BY <1>1 DEF InsInv, InsTyped, RowsGiven
  <1>3. \A pc : LET r == [old EXCEPT !.pc = pc] IN DOMAIN r = {"pc", "rows"} /\ Given(r.rows)
    BY <1>2
  <1>4. DOMAIN IdleRefresher = {"pc", "rows"} /\ Given(IdleRefresher.rows)
    BY DEF IdleRefresher, Given
  <1>5. ASSUME StartRefresh(p) PROVE InsInv'
    <2>1. PICK r : r = [old EXCEPT !.pc = "NSE"]
      OBVIOUS
    <2>2. /\ refresher' = [refresher EXCEPT ![p] = r] /\ old.pc = "idle"
          /\ UNCHANGED <<published, overrides, seen, actions, recorded, clean>>
      BY <1>1, <1>5, <2>1 DEF StartRefresh
    <2> QED BY <1>1, <1>3, <2>1, <2>2, MoveInv DEF Between
  <1>6. ASSUME RefreshMaster(p) PROVE InsInv'
    <2>1. PICK r : r = [old EXCEPT !.pc = IF old.pc = "NSE" THEN "ASX" ELSE "actions"]
      OBVIOUS
    <2>2. /\ refresher' = [refresher EXCEPT ![p] = r] /\ old.pc \in {"NSE", "ASX"}
          /\ UNCHANGED <<published, overrides, seen, actions, recorded, clean>>
      BY <1>1, <1>6, <2>1 DEF RefreshMaster
    <2> QED BY <1>1, <1>3, <2>1, <2>2, MoveInv DEF Between
  <1>7. ASSUME FetchActions(p) PROVE InsInv'
    <2>1. PICK live : live = FetchLive(DefaultRefreshWindow(insDay))
      OBVIOUS
    <2>2. Given(live)
      BY <2>1, ParsedValid DEF FetchLive, Given, InsInv, RowsGiven
    <2>3. /\ old.pc = "actions" /\ UNCHANGED <<published, overrides, seen, actions, recorded, clean>>
          /\ \/ refresher' = [refresher EXCEPT ![p] = [pc |-> "fetched", rows |-> live]]
             \/ refresher' = [refresher EXCEPT ![p] = [old EXCEPT !.pc = "lookup"]]
      BY <1>1, <1>7, <2>1 DEF FetchActions
    <2>4. CASE refresher' = [refresher EXCEPT ![p] = [pc |-> "fetched", rows |-> live]]
      <3>1. PICK r : r = [pc |-> "fetched", rows |-> live]
        OBVIOUS
      <3>2. DOMAIN r = {"pc", "rows"} /\ Given(r.rows)
        BY <2>2, <3>1
      <3>3. refresher' = [refresher EXCEPT ![p] = r] /\ refresher[p].pc = "actions"
        BY <1>1, <2>3, <2>4, <3>1
      <3> QED BY <2>3, <3>2, <3>3, MoveInv DEF Between
    <2>5. CASE refresher' = [refresher EXCEPT ![p] = [old EXCEPT !.pc = "lookup"]]
      <3>1. PICK r : r = [old EXCEPT !.pc = "lookup"]
        OBVIOUS
      <3> QED BY <1>1, <1>3, <2>3, <2>5, <3>1, MoveInv DEF Between
    <2> QED BY <2>3, <2>4, <2>5
  <1>8. ASSUME LookUp(p) PROVE InsInv'
    BY <1>4, <1>8, MoveInv DEF LookUp, Between
  <1>9. ASSUME OverridesRefused(p) PROVE InsInv'
    BY <1>4, <1>9, MoveInv DEF OverridesRefused
  <1>10. ASSUME RefresherDies(p) PROVE InsInv'
    <2>1. clean' = TRUE => clean = TRUE /\ refresher[p].pc \notin Between
      BY <1>10 DEF RefresherDies, Between
    <2> QED BY <2>1, <1>4, <1>10, MoveInv DEF RefresherDies
  <1>11. ASSUME LoadManualOverrides(p) PROVE InsInv'
    <2>1. PICK f \in overrides :
             /\ \A a \in f : ValidAction(a)
             /\ refresher' = [refresher EXCEPT ![p] = [pc |-> "loaded", rows |-> f]]
      BY <1>11 DEF LoadManualOverrides
    <2>2. PICK r : r = [pc |-> "loaded", rows |-> f]
      OBVIOUS
    <2>3. DOMAIN r = {"pc", "rows"} /\ Given(r.rows) /\ r.pc \in Between
      BY <2>1, <2>2 DEF Given, InsInv, RowsGiven, Between
    <2>4. refresher' = [refresher EXCEPT ![p] = r]
          /\ UNCHANGED <<published, overrides, seen, actions, recorded, clean>>
      BY <1>11, <2>1, <2>2 DEF LoadManualOverrides
    <2> QED BY <2>3, <2>4, MoveInv
  <1> QED BY <1>5, <1>6, <1>7, <1>8, <1>9, <1>10, <1>11

(* The two commits of refresh_corporate_actions                             *)
LEMMA CommitInv ==
    ASSUME InsInv, NEW p \in Refreshers, UpsertLive(p) \/ UpsertManual(p)
    PROVE  InsInv'
  <1>1. PICK old : old = refresher[p]
    OBVIOUS
  <1>2. DOMAIN old = {"pc", "rows"} /\ Given(old.rows) /\ Given(actions) /\ Upsertable(actions)
        /\ Keys(actions) = recorded
    BY <1>1 DEF InsInv, InsTyped, RowsGiven, NothingMissing
  <1>3. p \in DOMAIN refresher
    BY DEF InsInv, InsTyped
  <1>4. ASSUME Commit(p)
        PROVE  /\ Upsertable(actions') /\ Given(actions') /\ Keys(actions') = recorded'
               /\ old.rows \subseteq actions'
    <2>1. /\ Upsertable(old.rows) /\ actions' = UpsertActions(old.rows)
          /\ recorded' = recorded \cup Keys(old.rows)
      BY <1>1, <1>4 DEF Commit, Keys
    <2>2. /\ Upsertable(actions') /\ actions' \subseteq actions \cup old.rows
          /\ old.rows \subseteq actions' /\ Keys(actions') = Keys(actions) \cup Keys(old.rows)
      BY <1>2, <2>1, UpsertKeepsOne
    <2>3. Given(actions')
      BY <1>2, <2>2 DEF Given
    <2> QED BY <1>2, <2>1, <2>2, <2>3
  <1>5. ASSUME UpsertLive(p), Commit(p), refresher' = [refresher EXCEPT ![p].pc = "live"]
        PROVE  InsInv'
    <2>1. PICK r : r = [old EXCEPT !.pc = "live"]
      OBVIOUS
    <2>2. refresher' = [refresher EXCEPT ![p] = r] /\ UNCHANGED <<published, overrides, seen>>
      BY <1>1, <1>5, <2>1 DEF UpsertLive
    <2>3. DOMAIN r = {"pc", "rows"} /\ Given(r.rows) /\ r.pc = "live"
      BY <1>2, <2>1
    <2>4. refresher'[p].pc \in Between
      BY <1>3, <2>2, <2>3 DEF Between
    <2>5. /\ Upsertable(actions') /\ Given(actions') /\ Keys(actions') = recorded'
      BY <1>4, <1>5
    <2> QED BY <2>2, <2>3, <2>4, <2>5, RefresherInv
  <1>6. ASSUME UpsertLive(p), ~Upsertable(old.rows) PROVE InsInv'
    <2>1. /\ refresher' = [refresher EXCEPT ![p] = IdleRefresher] /\ old.pc = "fetched"
          /\ UNCHANGED <<published, overrides, seen, clean, actions, recorded>>
      BY <1>1, <1>6 DEF UpsertLive, Commit
    <2>2. DOMAIN IdleRefresher = {"pc", "rows"} /\ Given(IdleRefresher.rows)
      BY DEF IdleRefresher, Given
    <2> QED BY <1>1, <2>1, <2>2, MoveInv DEF Between
  <1>7. ASSUME UpsertManual(p) PROVE InsInv'
    <2>1. PICK r : r = [pc |-> "lookup", rows |-> {}]
      OBVIOUS
    <2>2. /\ refresher' = [refresher EXCEPT ![p] = r] /\ Commit(p)
          /\ clean' = (overrides = {old.rows}) /\ UNCHANGED <<published, overrides, seen>>
      BY <1>1, <1>7, <2>1 DEF UpsertManual
    <2>3. DOMAIN r = {"pc", "rows"} /\ Given(r.rows)
      BY <2>1 DEF Given
    <2>4. /\ Upsertable(actions') /\ Given(actions') /\ Keys(actions') = recorded'
          /\ old.rows \subseteq actions'
      BY <1>4, <2>2
    <2>5. clean' = TRUE => UNION overrides \subseteq actions'
      BY <2>2, <2>4
    <2> QED BY <2>2, <2>3, <2>4, <2>5, RefresherInv
  <1> QED BY <1>1, <1>5, <1>6, <1>7 DEF UpsertLive

(* The NSE publishes, the operator edits, a day passes, or nothing happens. *)
LEMMA GivenGrows ==
    ASSUME InsInv, seen \subseteq seen', UNCHANGED <<refresher, actions, recorded>>,
           \A e \in published' : ParseNseEntry(e) \subseteq seen',
           UNION overrides' \subseteq seen', \A f, g \in overrides' : f = g,
           clean' = TRUE => clean = TRUE /\ overrides' = overrides
    PROVE  InsInv'
  <1>1. InsTyped'
    BY DEF InsInv, InsTyped
  <1>2. RowsGiven'
    BY DEF InsInv, RowsGiven, Given
  <1>3. Upsertable(actions)' /\ OverridesPrevail' /\ NothingMissing'
    BY DEF InsInv, Upsertable, OverridesPrevail, NothingMissing, Keys
  <1> QED BY <1>1, <1>2, <1>3 DEF InsInv

(* Every step of the processes and the world.                               *)
LEMMA InsStepInv == ASSUME InsInv, [InsNext]_insVars PROVE InsInv'
  <1>1. ASSUME NEW e \in NseEntries, Publish(e) PROVE InsInv'
    <2>1. /\ published' \subseteq published \cup {e} /\ seen' = seen \cup ParseNseEntry(e)
          /\ UNCHANGED <<overrides, actions, refresher, recorded, clean>>
      BY <1>1 DEF Publish
    <2>2. \A n \in published' : ParseNseEntry(n) \subseteq seen'
      BY <2>1 DEF InsInv, RowsGiven
    <2>3. UNION overrides \subseteq seen' /\ \A f, g \in overrides : f = g
      BY <2>1 DEF InsInv, RowsGiven, InsTyped
    <2> QED BY <2>1, <2>2, <2>3, GivenGrows
  <1>2. ASSUME EditOverrides PROVE InsInv'
    <2>1. /\ overrides' = {} \/ \E f \in OverrideFiles : overrides' = {f}
          /\ seen' = seen \cup UNION overrides' /\ clean' = FALSE
          /\ UNCHANGED <<published, actions, refresher, recorded>>
      BY <1>2 DEF EditOverrides
    <2>2. \A n \in published' : ParseNseEntry(n) \subseteq seen'
      BY <2>1 DEF InsInv, RowsGiven
    <2> QED BY <2>1, <2>2, GivenGrows
  <1>3. ASSUME InsNextDay \/ UNCHANGED insVars PROVE InsInv'
    <2>1. UNCHANGED <<published, overrides, seen, actions, refresher, recorded, clean>>
      BY <1>3 DEF InsNextDay, insVars
    <2> QED BY <2>1, GivenGrows DEF InsInv, RowsGiven, InsTyped
  <1> QED BY <1>1, <1>2, <1>3, PassInv, CommitInv DEF InsNext

(* The price of an adjusted candle, from the rows that concern it           *)
LEMMA AdjustedClose ==
    ASSUME NEW c, NEW rows, NEW relevant,
           relevant = {r \in rows : r.type \in PriceAdjustingTypes /\ c.day < r.exDate}
    PROVE  AdjustedCandle(c, rows).close = (c.close * RatioDen(relevant)) \div RatioNum(relevant)
  <1>1. PICK num : num = RatioNum(relevant)
    OBVIOUS
  <1>2. PICK den : den = RatioDen(relevant)
    OBVIOUS
  <1>3. AdjustedCandle(c, rows) = [day |-> c.day, close |-> (c.close * den) \div num,
                                   volume |-> RoundDiv(c.volume * num, den)]
    BY <1>1, <1>2, Zenon DEF AdjustedCandle
  <1> QED BY <1>1, <1>2, <1>3

(* The scaled prices are whole numbers, as far as they are scaled by rows   *)
(* of the table: the code's are floats.                                     *)
WholePrices ==
    \A i \in DOMAIN RawCandles, rows \in SUBSET actions :
        ((RawCandles[i].close * RatioDen(rows)) \div RatioNum(rows)) * RatioNum(rows)
            = RawCandles[i].close * RatioDen(rows)

(* However refreshes overlap and fail, the table holds exactly one row for  *)
(* each event that a refresh committed (repositories.py, the conflict key), *)
(* given by the NSE or the file, and the file's own after a refresh has     *)
(* returned; so the series is scaled exactly once for each committed split  *)
(* or bonus and for no other, as exactly as whole prices allow.             *)
THEOREM AdjustedHolds == InsSpec => [](WholePrices => AdjustedOnce)
  <1>1. InsSpec => []InsInv
    BY InsInitInv, InsStepInv, PTL DEF InsSpec
  <1>2. InsInv => (WholePrices => AdjustedOnce)
    <2> SUFFICES ASSUME InsInv, WholePrices PROVE AdjustedOnce
      OBVIOUS
    <2> DEFINE events  == {a \in seen : /\ a.exchange = "NSE" /\ a.type \in PriceAdjustingTypes
                                        /\ ValidAction(a)}
               settled == clean /\ \A p \in Refreshers : refresher[p].pc \notin {"live", "loaded"}
               manual  == IF settled THEN events \cap UNION overrides ELSE {}
               After(rows, c) == {r \in rows : c.day < r.exDate}
    <2>1. ASSUME NEW s
          PROVE  LET series == GetAdjustedSeries(s, "NSE", RawCandles)
                     due    == {k \in recorded : /\ k[1] = s /\ k[2] = "NSE"
                                                 /\ k[4] \in PriceAdjustingTypes}
                 IN
                 \E picked \in SUBSET {a \in events : a.symbol = s} :
                    /\ Upsertable(picked) /\ {ActionKey(a) : a \in picked} = due
                    /\ {m \in manual : m.symbol = s} \subseteq picked
                    /\ \A i \in DOMAIN series :
                         LET once == After(picked, RawCandles[i]) IN
                         series[i].close * RatioNum(once) = RawCandles[i].close * RatioDen(once)
      <3> DEFINE picked == {a \in actions : /\ a.symbol = s /\ a.exchange = "NSE"
                                            /\ a.type \in PriceAdjustingTypes}
                 series == GetAdjustedSeries(s, "NSE", RawCandles)
                 due    == {k \in recorded : k[1] = s /\ k[2] = "NSE" /\ k[4] \in PriceAdjustingTypes}
      <3>0. {ActionKey(a) : a \in picked} = due
        <4>1. recorded = {ActionKey(a) : a \in actions}
          BY DEF InsInv, NothingMissing, Keys
        <4>2. \A a : LET k == ActionKey(a) IN
                 k[1] = a.symbol /\ k[2] = a.exchange /\ k[4] = a.type
          BY DEF ActionKey
        <4>3. \A a \in actions : a \in picked <=> ActionKey(a) \in due
          BY <4>1, <4>2
        <4>4. \A k \in due : \E a \in actions : k = ActionKey(a)
          BY <4>1
        <4>5. picked \subseteq actions
          OBVIOUS
        <4> HIDE DEF picked, due
        <4> QED BY <4>3, <4>4, <4>5
      <3>1. picked \in SUBSET {a \in events : a.symbol = s}
        BY DEF InsInv, RowsGiven, Given
      <3>2. Upsertable(picked)
        BY DEF InsInv, Upsertable
      <3>3. {m \in manual : m.symbol = s} \subseteq picked
        <4>1. CASE settled
          <5>1. UNION overrides \subseteq actions
            BY <4>1 DEF InsInv, OverridesPrevail, Between
          <5> QED BY <5>1
        <4>2. CASE ~settled
          BY <4>2
        <4> QED BY <4>1, <4>2
      <3>4. ASSUME NEW i \in DOMAIN series
            PROVE  series[i].close * RatioNum(After(picked, RawCandles[i]))
                      = RawCandles[i].close * RatioDen(After(picked, RawCandles[i]))
        <4>1. PICK c : c = RawCandles[i]
          OBVIOUS
        <4>2. i \in DOMAIN RawCandles
              /\ series[i] = AdjustedCandle(c, ListForSymbol(s, "NSE"))
          BY <4>1 DEF GetAdjustedSeries, AdjustedCandles
        <4>3. PICK once : once = After(picked, c)
          OBVIOUS
        <4>4. {r \in ListForSymbol(s, "NSE") : r.type \in PriceAdjustingTypes /\ c.day < r.exDate}
                = once
          BY <4>3 DEF ListForSymbol
        <4>5. series[i].close = (c.close * RatioDen(once)) \div RatioNum(once)
          <5>1. PICK listed : listed = ListForSymbol(s, "NSE")
            OBVIOUS
          <5>2. AdjustedCandle(c, listed).close = (c.close * RatioDen(once)) \div RatioNum(once)
            BY <4>4, <5>1, AdjustedClose
          <5> HIDE DEF series
          <5> QED BY <4>2, <5>1, <5>2
        <4>6. once \in SUBSET actions
          BY <4>3
        <4> HIDE DEF series, picked
        <4> QED BY <4>1, <4>2, <4>3, <4>5, <4>6 DEF WholePrices
      <3> HIDE DEF picked, series, events, manual
      <3> QED BY <3>0, <3>1, <3>2, <3>3, <3>4 DEF series
    <2> QED BY <2>1, SMTT(60) DEF AdjustedOnce
  <1> QED BY <1>1, <1>2, PTL

-----------------------------------------------------------------------------
(* run_walk_forward and the backtest command, for any histories, grid and   *)
(* window lengths.                                                          *)

BtSpec == BtInit /\ [][BtNext]_btVars

(* Every window is one of this history's.                                   *)
BtInv ==
    /\ candleLog \in Histories
    /\ windows \in Seq({windows[i] : i \in DOMAIN windows})
    /\ \A i \in DOMAIN windows :
          /\ windows[i].at \in Nat /\ HasWindow(candleLog, windows[i].at)
          /\ windows[i] \in WindowAt(candleLog, AllDates(candleLog), windows[i].at, windows[i].drawn)

(* The fields of a window, and the two runs it comes from                   *)
LEMMA WindowFields ==
    ASSUME NEW c, NEW d, NEW at, NEW drawn, NEW w \in WindowAt(c, d, at, drawn)
    PROVE  /\ w.at = at /\ w.drawn = drawn
           /\ w.outStart = d[at + InSampleDays + 1]
           /\ w.outEnd = d[at + InSampleDays + OutSampleDays]
           /\ LET out  == CandlesInRange(c, w.outStart, w.outEnd)
                  best == Optimise(CandlesInRange(c, d[at + 1], d[at + InSampleDays]), drawn)
              IN  /\ w.result.best = best.params
                  /\ w.result.metrics = RunWithParams(out, best.params, best.drawn)
  BY DEF WindowAt, Tested, InSampleEnd

(* No window has been tested.                                               *)
LEMMA BtInitInv == BtInit => BtInv
  BY DEF BtInit, BtInv

(* A step of the loop adds one of this history's windows.                   *)
LEMMA BtStepInv == BtInv /\ [BtNext]_btVars => BtInv'
  <1> SUFFICES ASSUME BtInv, [BtNext]_btVars PROVE BtInv'
    OBVIOUS
  <1>1. CASE UNCHANGED <<candleLog, windows>>
    BY <1>1 DEF BtInv, HasWindow
  <1>2. CASE NextWindow
    <2> DEFINE at == StepDays * Len(windows)
    <2>1. Len(windows) \in Nat /\ at \in Nat /\ candleLog' = candleLog
      <3>1. Len(windows) \in Nat /\ StepDays \in Nat
        BY BacktestAssumption DEF BtInv
      <3> QED BY <3>1, <1>2 DEF NextWindow
    <2> HIDE DEF at
    <2>2. CASE HasWindow(candleLog, at)
      <3>1. PICK drawn : \E w \in WindowAt(candleLog, AllDates(candleLog), at, drawn) :
                             windows' = Append(windows, w)
        BY <1>2, <2>2 DEF NextWindow, at
      <3>2. PICK w \in WindowAt(candleLog, AllDates(candleLog), at, drawn) :
                windows' = Append(windows, w)
        BY <3>1
      <3>3. w.at = at /\ w.drawn = drawn
        BY <3>2, WindowFields
      <3> DEFINE X == {windows[i] : i \in DOMAIN windows} \cup {w}
      <3>4. windows \in Seq(X)
        BY DEF BtInv
      <3>5. /\ windows' \in Seq(X) /\ DOMAIN windows' = 1..(Len(windows) + 1)
            /\ DOMAIN windows = 1..Len(windows)
            /\ \A i \in 1..Len(windows) : windows'[i] = windows[i]
            /\ windows'[Len(windows) + 1] = w
        <4> HIDE DEF X
        <4>1. w \in X
          BY DEF X
        <4> QED BY <3>2, <3>4, <4>1, <2>1
      <3>6. windows' \in Seq({windows'[i] : i \in DOMAIN windows'})
        <4> HIDE DEF X
        <4> QED BY <3>5, SeqDef
      <3>7. \A i \in DOMAIN windows' :
               \/ i \in DOMAIN windows /\ windows'[i] = windows[i]
               \/ windows'[i] = w
        BY <3>5, <2>1
      <3>8. /\ w.at \in Nat /\ HasWindow(candleLog, w.at)
            /\ w \in WindowAt(candleLog, AllDates(candleLog), w.at, w.drawn)
        BY <3>2, <3>3, <2>1, <2>2
      <3>9. /\ candleLog' \in Histories
            /\ \A i \in DOMAIN windows' :
                  /\ windows'[i].at \in Nat /\ HasWindow(candleLog, windows'[i].at)
                  /\ windows'[i] \in WindowAt(candleLog, AllDates(candleLog), windows'[i].at, windows'[i].drawn)
        BY <3>7, <3>8, <2>1 DEF BtInv
      <3> HIDE DEF X
      <3> QED BY <3>9, <3>6, <2>1 DEF BtInv, HasWindow
    <2>3. CASE ~HasWindow(candleLog, at)
      <3>1. UNCHANGED <<candleLog, windows>>
        BY <1>2, <2>1, <2>3 DEF NextWindow, at
      <3> QED BY <3>1, <1>1
    <2> QED BY <2>2, <2>3
  <1>3. CASE CmdBacktest \/ GenerateReports \/ CmdEnds
    BY <1>3, <1>1 DEF CmdBacktest, GenerateReports, CmdEnds
  <1>4. CASE UNCHANGED btVars
    BY <1>4, <1>1 DEF btVars
  <1> QED BY <1>2, <1>3, <1>4 DEF BtNext

(* A history is a sequence of candles with days.                            *)
LEMMA HistoryTyped ==
    ASSUME NEW h \in Histories
    PROVE  /\ DOMAIN h = 1..Len(h) /\ Len(h) \in Nat
           /\ \A i \in DOMAIN h : h[i].day \in Nat
  <1> DEFINE Candle == [day : Nat, minute : Nat, close : Nat]
  <1>1. h \in Seq(Candle)
    BY BacktestAssumption
  <1>2. \A x \in Candle : x.day \in Nat
    OBVIOUS
  <1> HIDE DEF Candle
  <1>3. \A i \in DOMAIN h : h[i] \in Candle
    BY <1>1
  <1> QED BY <1>1, <1>2, <1>3

(* What lies in a range of days before a day is in what lies before it.     *)
LEMMA RangeOfPast ==
    ASSUME NEW h \in Histories, NEW lo \in Nat, NEW hi \in Nat, NEW day \in Nat, hi < day
    PROVE  CandlesInRange(h, lo, hi) = CandlesInRange(CandlesInRange(h, 0, day - 1), lo, hi)
  <1>1. /\ DOMAIN h = 1..Len(h) /\ Len(h) \in Nat
        /\ \A i \in DOMAIN h : h[i].day \in Nat
    BY HistoryTyped
  <1> DEFINE I == {i \in DOMAIN h : 0 <= h[i].day /\ h[i].day <= day - 1}
             J == {i \in DOMAIN h : lo <= h[i].day /\ h[i].day <= hi}
             past == Kept(h, I)
             K == {n \in DOMAIN past : lo <= past[n].day /\ past[n].day <= hi}
  <1>2. I \in SUBSET Int /\ IsFiniteSet(I) /\ J \in SUBSET I
    <2>1. IsFiniteSet(1..Len(h))
      BY <1>1, FS_Interval
    <2>2. I \subseteq 1..Len(h) /\ J \in SUBSET I
      BY <1>1
    <2>3. IsFiniteSet(I)
      <3> HIDE DEF I
      <3> QED BY <2>1, <2>2, FS_Subset
    <2> QED BY <2>2, <2>3, <1>1
  <1>3. /\ Cardinality(I) \in Nat /\ DOMAIN past = 1..Cardinality(I)
        /\ \A n \in 1..Cardinality(I) : Ascending(I)[n] \in I /\ past[n] = h[Ascending(I)[n]]
    <2> HIDE DEF I
    <2> QED BY <1>2, KeptElements
  <1>4. K \in SUBSET (1..Cardinality(I))
    <2> HIDE DEF I, past
    <2> QED BY <1>3
  <1>5. \A n \in 1..Cardinality(I) : n \in K <=> Ascending(I)[n] \in J
    <2> TAKE n \in 1..Cardinality(I)
    <2>1. Ascending(I)[n] \in I /\ past[n] = h[Ascending(I)[n]] /\ n \in DOMAIN past
      BY <1>3
    <2>2. Ascending(I)[n] \in DOMAIN h
      BY <2>1
    <2> HIDE DEF past, I
    <2> QED BY <2>1, <2>2
  <1>6. Kept(past, K) = Kept(h, J)
    <2> HIDE DEF I, J, K
    <2> QED BY <1>2, <1>4, <1>5, KeptOfKept
  <1> QED BY <1>6 DEF CandlesInRange

(* The days of a history are listed in ascending order.                     *)
LEMMA DatesAscend ==
    ASSUME NEW h \in Histories
    PROVE  /\ Len(AllDates(h)) \in Nat
           /\ \A m \in 1..Len(AllDates(h)) : AllDates(h)[m] \in Nat
           /\ \A m, n \in 1..Len(AllDates(h)) : m < n => AllDates(h)[m] < AllDates(h)[n]
  <1> DEFINE D == {h[i].day : i \in DOMAIN h}
             c == Cardinality(D)
  <1>1. /\ DOMAIN h = 1..Len(h) /\ Len(h) \in Nat
        /\ \A i \in DOMAIN h : h[i].day \in Nat
    BY HistoryTyped
  <1>2. IsFiniteSet(D)
    <2>1. IsFiniteSet(1..Len(h))
      BY <1>1, FS_Interval
    <2> DEFINE f == [i \in 1..Len(h) |-> h[i].day]
    <2>2. f \in Surjection(1..Len(h), D)
      BY <1>1 DEF Surjection
    <2> HIDE DEF f, D
    <2> QED BY <2>1, <2>2, FS_Surjection
  <1>3. D \in SUBSET Nat /\ D \in SUBSET Int
    BY <1>1
  <1> HIDE DEF D
  <1>4. /\ c \in Nat /\ Ascending(D) \in [1..c -> D]
        /\ \A m, n \in 1..c : m < n => Ascending(D)[m] < Ascending(D)[n]
    BY <1>2, <1>3, AscendingLists
  <1>5. AllDates(h) = Ascending(D)
    BY DEF AllDates, D
  <1> HIDE DEF c
  <1>6. Len(Ascending(D)) = c
    BY <1>4
  <1> QED BY <1>3, <1>4, <1>5, <1>6

(* The last in-sample day comes before the first out-of-sample day, and     *)
(* this one not after the last.                                             *)
LEMMA WindowDates ==
    ASSUME NEW c \in Histories, NEW at \in Nat, HasWindow(c, at)
    PROVE  LET d == AllDates(c)
           IN  /\ d[at + 1] \in Nat /\ d[at + InSampleDays] \in Nat
               /\ d[at + InSampleDays + 1] \in Nat
               /\ d[at + InSampleDays + OutSampleDays] \in Nat
               /\ d[at + InSampleDays] < d[at + InSampleDays + 1]
  <1> DEFINE d == AllDates(c)
             n == Len(d)
  <1>1. /\ n \in Nat /\ \A m \in 1..n : d[m] \in Nat
        /\ \A m, k \in 1..n : m < k => d[m] < d[k]
    BY DatesAscend
  <1>2. at + InSampleDays + OutSampleDays <= n
    BY DEF HasWindow
  <1> HIDE DEF d, n
  <1>3. /\ at + 1 \in 1..n /\ at + InSampleDays \in 1..n /\ at + InSampleDays + 1 \in 1..n
        /\ at + InSampleDays + OutSampleDays \in 1..n
        /\ at + InSampleDays < at + InSampleDays + 1
    BY <1>1, <1>2, BacktestAssumption
  <1> QED BY <1>1, <1>3 DEF d

(* Two histories with the same days and the same past take the same         *)
(* parameters, and with the same window give them the same result.          *)
LEMMA SameWindow ==
    ASSUME NEW c \in Histories, NEW o \in Histories, AllDates(o) = AllDates(c),
           NEW at \in Nat, HasWindow(c, at), NEW drawn,
           NEW v \in WindowAt(c, AllDates(c), at, drawn),
           NEW w \in WindowAt(o, AllDates(o), at, drawn)
    PROVE  /\ SameUntil(c, o, w.outStart) => w.result.best = v.result.best
           /\ SameUntil(c, o, w.outEnd + 1) => w.result.metrics = v.result.metrics
  <1> DEFINE d  == AllDates(c)
             s  == d[at + InSampleDays + 1]
             e  == d[at + InSampleDays + OutSampleDays]
             i1 == d[at + 1]
             i2 == d[at + InSampleDays]
  <1>1. i1 \in Nat /\ i2 \in Nat /\ s \in Nat /\ e \in Nat /\ i2 < s
    BY WindowDates
  <1>2. s <= e
    <2>1. /\ Len(d) \in Nat
          /\ \A m, k \in 1..Len(d) : m < k => d[m] < d[k]
      BY DatesAscend
    <2>2. at + InSampleDays + OutSampleDays <= Len(d)
      BY DEF HasWindow
    <2> HIDE DEF d
    <2> DEFINE x == at + InSampleDays + 1
               y == at + InSampleDays + OutSampleDays
    <2>3. x \in 1..Len(d) /\ y \in 1..Len(d) /\ (x < y \/ x = y)
      BY <2>1, <2>2, BacktestAssumption
    <2>4. s = d[x] /\ e = d[y]
      OBVIOUS
    <2> HIDE DEF x, y, s, e
    <2> QED BY <2>1, <2>3, <2>4, <1>1
  <1>3. /\ v.outStart = s /\ v.outEnd = e /\ w.outStart = s /\ w.outEnd = e
        /\ LET best == Optimise(CandlesInRange(c, i1, i2), drawn)
           IN  /\ v.result.best = best.params
               /\ v.result.metrics = RunWithParams(CandlesInRange(c, s, e), best.params, best.drawn)
        /\ LET best == Optimise(CandlesInRange(o, i1, i2), drawn)
           IN  /\ w.result.best = best.params
               /\ w.result.metrics = RunWithParams(CandlesInRange(o, s, e), best.params, best.drawn)
    BY WindowFields
  <1> HIDE DEF d, s, e, i1, i2
  <1>4. ASSUME NEW day \in Nat, i2 < day, SameUntil(c, o, day)
        PROVE  CandlesInRange(c, i1, i2) = CandlesInRange(o, i1, i2)
    BY <1>1, <1>4, RangeOfPast DEF SameUntil
  <1>5. ASSUME SameUntil(c, o, e + 1)
        PROVE  CandlesInRange(c, s, e) = CandlesInRange(o, s, e)
    <2>1. e < e + 1 /\ e + 1 \in Nat
      BY <1>1
    <2> QED BY <1>1, <1>5, <2>1, RangeOfPast DEF SameUntil
  <1>6. i2 < e + 1 /\ e + 1 \in Nat
    BY <1>1, <1>2
  <1> QED BY <1>1, <1>3, <1>4, <1>5, <1>6

(* NoLookAhead: in every reachable state of run_walk_forward, a window's    *)
(* parameters come from the candles before its out-of-sample days and its   *)
(* result from no candle after them.                                        *)
THEOREM LookAheadHolds == BtSpec => []NoLookAhead
  <1>1. BtInv => NoLookAhead
    <2> SUFFICES ASSUME BtInv, NEW i \in DOMAIN windows,
                        NEW other \in Histories, AllDates(other) = AllDates(candleLog),
                        NEW w \in WindowAt(other, AllDates(other), windows[i].at, windows[i].drawn)
                 PROVE  /\ SameUntil(candleLog, other, w.outStart) => w.result.best = windows[i].result.best
                        /\ SameUntil(candleLog, other, w.outEnd + 1)
                              => w.result.metrics = windows[i].result.metrics
      BY DEF NoLookAhead
    <2> QED BY SameWindow DEF BtInv
  <1> QED BY <1>1, BtInitInv, BtStepInv, PTL DEF BtSpec
=============================================================================
