---------------------------- MODULE DecisionProofs ----------------------------
(***************************************************************************)
(* Proofs about the way from candles to an order: the publication of       *)
(* signals, the holiday calendar of the session manager, the chain of      *)
(* classifier, signal engine, risk engine and compliance engine, the risk  *)
(* of concurrent callers, and the kill switch.                             *)
(***************************************************************************)
EXTENDS TradeDecision, SignalPublisher, KillSwitch, CollectionLemmas, TLAPS

-----------------------------------------------------------------------------
(* SignalPublisher implements SignalStream.  The abstract guard is about    *)
(* the entries of the stream, the script's about the key it set with them:  *)
(* the inductive invariant ties the two.                                    *)

Entry == [key : Keys, at : Nat]

PubTypeOK ==
    /\ clock \in Nat
    /\ haltedKey \in Flags
    /\ expiry \in [Keys -> Nat]
    /\ stream \in Seq(Entry)

(* A dedup key outlives the window of every entry published under it.       *)
KeyCoversEntries ==
    \A i \in DOMAIN stream : stream[i].at + Window <= expiry[stream[i].key]

PubInv == PubTypeOK /\ KeyCoversEntries

(* Nothing has been published.                                              *)
LEMMA PubInitInv == PubInit => PubInv
BY PublisherAssumption DEF PubInit, PubInv, PubTypeOK, KeyCoversEntries, Flags, Entry

(* The only step that touches the key and the stream is a script that       *)
(* publishes: expiry moves forward, and the new entry is at the clock.      *)
LEMMA ScriptInv ==
    ASSUME PubInv, NEW p \in Publishers, NEW k \in Keys, RunScript(p, k)
    PROVE  PubInv'
<1> USE PublisherAssumption
<1>1. CASE SignalDedup(k) # "PUBLISHED"
  BY <1>1 DEF RunScript, PubInv, PubTypeOK, KeyCoversEntries
<1>2. CASE SignalDedup(k) = "PUBLISHED"
  <2>1. /\ expiry' = [expiry EXCEPT ![k] = clock + Window]
        /\ stream' = Append(stream, [key |-> k, at |-> clock])
        /\ UNCHANGED <<clock, haltedKey>>
        /\ clock >= expiry[k]
    BY <1>2 DEF RunScript, SignalDedup, Exists, PubInv, PubTypeOK
  <2>2. [key |-> k, at |-> clock] \in Entry
    BY DEF PubInv, PubTypeOK, Entry
  <2>3. PubTypeOK'
    BY <2>1, <2>2 DEF PubInv, PubTypeOK
  <2>4. ASSUME NEW i \in DOMAIN stream'
        PROVE  stream'[i].at + Window <= expiry'[stream'[i].key]
    <3>1. CASE i \in DOMAIN stream
      <4>1. stream'[i] = stream[i] /\ stream[i] \in Entry
        BY <2>1, <2>2, <3>1 DEF PubInv, PubTypeOK
      <4>2. stream[i].at + Window <= expiry[stream[i].key]
        BY <3>1 DEF PubInv, KeyCoversEntries
      <4> QED
        BY <2>1, <4>1, <4>2 DEF PubInv, PubTypeOK, Entry
    <3>2. CASE i \notin DOMAIN stream
      <4>1. stream'[i] = [key |-> k, at |-> clock]
        BY <2>1, <2>2, <2>4, <3>2 DEF PubInv, PubTypeOK
      <4> QED
        BY <2>1, <4>1 DEF PubInv, PubTypeOK
    <3> QED
      BY <3>1, <3>2
  <2> QED
    BY <2>3, <2>4 DEF PubInv, KeyCoversEntries
<1> QED
  BY <1>1, <1>2

(* Every step of the publishers keeps the invariant.                        *)
LEMMA PubNextInv == PubInv /\ [PubNext]_pubVars => PubInv'
<1> SUFFICES ASSUME PubInv, [PubNext]_pubVars PROVE PubInv'
  OBVIOUS
<1> USE DEF PubInv, PubTypeOK, KeyCoversEntries
<1>1. CASE UNCHANGED pubVars
  BY <1>1 DEF pubVars
<1>2. ASSUME NEW p \in Publishers, Skip(p) \/ RequestLost(p) PROVE PubInv'
  BY <1>2 DEF Skip, RequestLost
<1>3. ASSUME NEW p \in Publishers, NEW k \in Keys, Publish(p, k) PROVE PubInv'
  BY <1>3 DEF Publish
<1>4. ASSUME NEW p \in Publishers, NEW k \in Keys, RunScript(p, k) PROVE PubInv'
  BY <1>4, ScriptInv
<1>5. ASSUME NEW v \in Flags, FlagWritten(v) PROVE PubInv'
  BY <1>5 DEF FlagWritten
<1>6. CASE PubTick
  BY <1>6 DEF PubTick
<1> QED
  BY <1>1, <1>2, <1>3, <1>4, <1>5, <1>6 DEF PubNext

-----------------------------------------------------------------------------
(* The publisher starts as the abstract stream does.                        *)
LEMMA InitMaps == PubInit => Abstract!StreamInit
BY DEF PubInit, Abstract!StreamInit

(* A step of the publisher is a step of the stream, or none.                *)
LEMMA StepMaps ==
    PubInv /\ [PubNext]_pubVars => [Abstract!StreamNext]_(Abstract!streamVars)
<1> SUFFICES ASSUME PubInv, [PubNext]_pubVars
             PROVE  Abstract!StreamNext \/ UNCHANGED Abstract!streamVars
  OBVIOUS
<1> USE DEF Abstract!StreamNext, Abstract!streamVars
<1>1. CASE UNCHANGED pubVars
  BY <1>1 DEF pubVars
<1>2. ASSUME NEW p \in Publishers, Skip(p) \/ RequestLost(p)
      PROVE  UNCHANGED Abstract!streamVars
  BY <1>2 DEF Skip, RequestLost
<1>3. ASSUME NEW p \in Publishers, NEW k \in Keys, Publish(p, k)
      PROVE  UNCHANGED Abstract!streamVars
  BY <1>3 DEF Publish
<1>4. ASSUME NEW p \in Publishers, NEW k \in Keys, RunScript(p, k)
      PROVE  Abstract!Appear(k) \/ UNCHANGED Abstract!streamVars
  <2>1. CASE SignalDedup(k) # "PUBLISHED"
    BY <1>4, <2>1 DEF RunScript
  <2>2. CASE SignalDedup(k) = "PUBLISHED"
    <3>1. /\ haltedKey # "true" /\ clock >= expiry[k]
          /\ stream' = Append(stream, [key |-> k, at |-> clock])
          /\ UNCHANGED <<clock, haltedKey>>
      BY <1>4, <2>2 DEF RunScript, SignalDedup, Exists, PubInv, PubTypeOK
    <3>2. Abstract!Quiet(k)
      <4> SUFFICES ASSUME NEW i \in DOMAIN stream, stream[i].key = k
                   PROVE  clock - stream[i].at >= Window
        BY DEF Abstract!Quiet
      <4>1. stream[i] \in Entry /\ stream[i].at + Window <= expiry[k]
        BY DEF PubInv, PubTypeOK, KeyCoversEntries
      <4> QED
        BY <3>1, <4>1, PublisherAssumption DEF PubInv, PubTypeOK, Entry
    <3> QED
      BY <3>1, <3>2 DEF Abstract!Appear
  <2> QED
    BY <2>1, <2>2
<1>5. ASSUME NEW v \in Flags, FlagWritten(v)
      PROVE  Abstract!Switch \/ UNCHANGED Abstract!streamVars
  BY <1>5 DEF FlagWritten, Abstract!Switch
<1>6. CASE PubTick
  BY <1>6 DEF PubTick, Abstract!Pass
<1> QED
  BY <1>1, <1>2, <1>3, <1>4, <1>5, <1>6 DEF PubNext

(* The dedup key outlives the window of every entry it guards, in every     *)
(* behaviour of the publishers: the fact on which the refinement rests.     *)
THEOREM KeysCover == PubSpec => []PubInv
BY PubInitInv, PubNextInv, PTL DEF PubSpec

(* Publishers, Redis and the script implement the abstract stream, for any  *)
(* number of publishers, keys and any window: publish never shows a reader  *)
(* a signal while halted, nor two of one key within the window.             *)
THEOREM PublisherRefines == PubSpec => ImplementsStream
<1>1. PubSpec => []PubInv
  BY KeysCover
<1>2. PubInit => Abstract!StreamInit
  BY InitMaps
<1>3. PubInv /\ [PubNext]_pubVars => [Abstract!StreamNext]_(Abstract!streamVars)
  BY StepMaps
<1> QED
  BY <1>1, <1>2, <1>3, PTL DEF PubSpec, ImplementsStream, Abstract!StreamSpec

-----------------------------------------------------------------------------
(* The holiday calendar, for any days, any age of the cache and any bound   *)
(* of its clock.                                                            *)

CalSpec == CalInit /\ [][CalNext]_calVars

(* A calendar knows every holiday announced before it was fetched, and no   *)
(* calendar is from the future.                                             *)
KnowsHolidays(c) ==
    /\ c.fetched \in Nat /\ c.fetched <= calDay
    /\ \A d \in DOMAIN announced : d \in c.holidays \/ announced[d] >= c.fetched

(* What get_state last answered: on which day, from a calendar how old.     *)
(* That it was fresh or the source was down has to hold before any          *)
(* announcement, for an announcement may come on the day of the answer.     *)
AnswerDated ==
    /\ session.day \in Nat /\ session.fetched \in Nat
    /\ session.fetched <= session.day /\ session.day <= calDay
    /\ session.open => session.late \/ session.day - session.fetched <= MaxAgeDays

AnswerKnows ==
    session.open => \A d \in DOMAIN announced : d = session.day => announced[d] >= session.fetched

CalInv ==
    /\ calDay \in Nat
    /\ \A d \in DOMAIN announced : announced[d] \in Nat /\ announced[d] <= calDay
    /\ \A c \in ReadCache : KnowsHolidays(c)
    /\ AnswerDated /\ AnswerKnows

(* No calendar has been loaded.                                             *)
LEMMA CalInitInv == CalInit => CalInv
  <1> SUFFICES ASSUME CalInit PROVE CalInv
    OBVIOUS
  <1>1. calDay = 0 /\ DOMAIN announced = {} /\ ReadCache = {}
    BY DEF CalInit, ReadCache
  <1>2. session.day = 0 /\ session.fetched = 0 /\ ~session.open
    BY DEF CalInit
  <1> QED BY <1>1, <1>2 DEF CalInv, AnswerDated, AnswerKnows

(* An answer from a calendar that knows its holidays and is fresh, or that  *)
(* had to be used because the source is down.                               *)
LEMMA AnswerInv ==
    ASSUME CalInv, NEW c, KnowsHolidays(c), ~sourceUp \/ calDay - c.fetched <= MaxAgeDays,
           Answer(c), UNCHANGED <<calDay, announced>>,
           \A e \in ReadCache' : KnowsHolidays(e)
    PROVE  CalInv'
  <1>1. /\ session'.day = calDay /\ session'.fetched = c.fetched
        /\ session'.open <=> IsTradingDay(calDay, c.holidays)
        /\ session'.late <=> ~sourceUp
    BY DEF Answer
  <1>2. session'.open => calDay \notin c.holidays
    BY <1>1 DEF IsTradingDay
  <1>3. AnswerDated'
    BY <1>1 DEF AnswerDated, CalInv, KnowsHolidays
  <1>4. AnswerKnows'
    BY <1>1, <1>2 DEF AnswerKnows, KnowsHolidays
  <1>5. \A e \in ReadCache' : KnowsHolidays(e)'
    BY DEF KnowsHolidays
  <1> QED BY <1>3, <1>4, <1>5 DEF CalInv

(* get_state: a fresh cache, a fetch that is stored, an old cache.          *)
LEMMA AskInv ==
    ASSUME CalInv, NEW r, AskState(r), UNCHANGED <<calDay, announced, sourceUp>>
    PROVE  CalInv'
  <1>1. \A c \in ReadCache : KnowsHolidays(c)
    BY DEF CalInv
  <1>2. UNCHANGED cacheFile => \A c \in ReadCache' : KnowsHolidays(c)
    BY <1>1 DEF ReadCache
  <1>3. UNCHANGED <<cacheFile, session>> => CalInv'
    BY DEF CalInv, ReadCache, KnowsHolidays, AnswerDated, AnswerKnows
  <1>4. CASE calDay % 7 >= 5
    <2> DEFINE c == [holidays |-> {}, fetched |-> calDay]
    <2>1. Answer(c) /\ UNCHANGED cacheFile
      BY <1>4 DEF AskState
    <2>2. /\ session'.day = calDay /\ session'.fetched = calDay
          /\ session'.open <=> IsTradingDay(calDay, {})
      BY <2>1 DEF Answer
    <2>3. ~session'.open
      BY <1>4, <2>2 DEF IsTradingDay, CalInv
    <2>4. AnswerDated' /\ AnswerKnows'
      BY <2>2, <2>3 DEF AnswerDated, AnswerKnows, CalInv
    <2> QED BY <2>1, <2>4 DEF CalInv, ReadCache, KnowsHolidays
  <1>5. CASE \E c \in ReadCache : Fresh(c) /\ Answer(c) /\ UNCHANGED cacheFile
    BY <1>1, <1>2, <1>5, AnswerInv DEF Fresh
  <1>6. ASSUME NEW days \in FetchHolidays(r), WriteCache(days),
               IF cacheFile' = {Unreadable} THEN UNCHANGED session
               ELSE Answer([holidays |-> days, fetched |-> calDay])
        PROVE  CalInv'
    <2> DEFINE c == [holidays |-> days, fetched |-> calDay]
    <2>1. days = DOMAIN announced
      BY <1>6 DEF FetchHolidays, NseFetchHolidays, AsxFetchHolidays
    <2>2. KnowsHolidays(c) /\ calDay - c.fetched <= MaxAgeDays
      BY <2>1, SessionAssumption DEF KnowsHolidays, CalInv
    <2>3. cacheFile' = {c} \/ cacheFile' = {Unreadable}
      BY <1>6 DEF WriteCache
    <2>4. \A e \in ReadCache' : KnowsHolidays(e)
      BY <2>2, <2>3 DEF ReadCache
    <2>5. CASE cacheFile' = {Unreadable}
      <3>1. session' = session
        BY <1>6, <2>5
      <3> QED BY <2>4, <3>1 DEF CalInv, KnowsHolidays, AnswerDated, AnswerKnows
    <2>6. CASE cacheFile' # {Unreadable}
      <3>1. Answer(c)
        BY <1>6, <2>6
      <3> HIDE DEF c
      <3> QED BY <2>2, <2>4, <3>1, AnswerInv
    <2> QED BY <2>5, <2>6
  <1>7. ASSUME FetchHolidays(r) = {}, NEW c \in ReadCache, Answer(c), UNCHANGED cacheFile
        PROVE  CalInv'
    <2>1. ~sourceUp
      BY <1>7 DEF FetchHolidays, NseFetchHolidays, AsxFetchHolidays
    <2> QED BY <1>1, <1>2, <1>7, <2>1, AnswerInv
  <1> QED BY <1>3, <1>4, <1>5, <1>6, <1>7 DEF AskState

(* Every step of the calendar keeps the invariant.                          *)
LEMMA CalStepInv == CalInv /\ [CalNext]_calVars => CalInv'
  <1> SUFFICES ASSUME CalInv, [CalNext]_calVars PROVE CalInv'
    OBVIOUS
  <1>1. CASE GetSessionState
    BY <1>1, AskInv DEF GetSessionState
  <1>2. ASSUME NEW d \in HolidayDays, Announce(d) PROVE CalInv'
    <2>1. /\ DOMAIN announced' = DOMAIN announced \cup {d} /\ announced'[d] = calDay
          /\ \A e \in DOMAIN announced : announced'[e] = announced[e]
          /\ UNCHANGED <<calDay, cacheFile, session>>
      BY <1>2 DEF Announce
    <2>2. AnswerDated'
      BY <2>1 DEF AnswerDated, CalInv
    <2>3. AnswerKnows'
      BY <2>1 DEF AnswerKnows, AnswerDated, CalInv
    <2>4. \A c \in ReadCache : KnowsHolidays(c)'
      BY <2>1 DEF KnowsHolidays, CalInv
    <2> QED BY <2>1, <2>2, <2>3, <2>4 DEF CalInv, ReadCache
  <1>3. CASE SourceToggles \/ UNCHANGED calVars
    BY <1>3 DEF SourceToggles, calVars, CalInv, ReadCache, KnowsHolidays, AnswerDated, AnswerKnows
  <1>4. CASE NextDay
    <2>1. calDay' = calDay + 1 /\ UNCHANGED <<announced, cacheFile, session>>
      BY <1>4 DEF NextDay
    <2>2. AnswerDated' /\ AnswerKnows'
      BY <2>1 DEF AnswerDated, AnswerKnows, CalInv
    <2>3. \A c \in ReadCache : KnowsHolidays(c)'
      BY <2>1 DEF KnowsHolidays, CalInv
    <2> QED BY <2>1, <2>2, <2>3 DEF CalInv, ReadCache
  <1> QED BY <1>1, <1>2, <1>3, <1>4 DEF CalNext

(* A holiday that had been announced is taken for a trading day only from a *)
(* calendar fetched before the announcement, and an outdated one only when  *)
(* the source could not be asked.                                           *)
THEOREM HolidaysHold == CalSpec => []HolidayRespected
  <1>1. CalInv => HolidayRespected
    BY DEF CalInv, AnswerDated, AnswerKnows, HolidayRespected
  <1> QED BY <1>1, CalInitInv, CalStepInv, PTL DEF CalSpec

-----------------------------------------------------------------------------
(* From the classifier to the order, with the classifier at work, loaded or *)
(* promoted at any time, also while an order is under way.                  *)

DecisionNext == TradeNext \/ (RegimeNext /\ UNCHANGED tradeVars)

TradeSpec == RegimeInit /\ TradeInit /\ [][DecisionNext]_<<tradeVars, regimeVars>>

(* Chaos is in the stream when the features were chaos, whatever the models *)
(* say.                                                                     *)
StreamTellsChaos == chaotic => \A e \in regimeStream : e.regime = "HIGH_VOL_CHAOS"

(* A signal under way has passed gate 1 and gate 7.                         *)
SignalGated ==
    stage \in {"signal", "sized", "placed"} =>
        /\ ~made.chaotic
        /\ made.at >= Hours[region].open + 900
        /\ made.at < Hours[region].close - 1800

(* What the rules of its exchange let an order through with.                *)
OrderCleared ==
    /\ placed # {} => stage = "placed"
    /\ \A p \in placed :
          /\ p.at \in Nat /\ made.at <= p.at
          /\ region = "INDIA" => p.at < At(15, 10)
          /\ region = "AUSTRALIA" =>
                \A g \in TickerOpenTime(p.order.order.symbol) : p.at - g >= 900

TradeTyped ==
    /\ clk \in Nat /\ region \in {"INDIA", "AUSTRALIA"}
    /\ made.at \in Nat /\ made.at <= clk

TradeInv == TradeTyped /\ StreamTellsChaos /\ SignalGated /\ OrderCleared

(* The opens and closes of the two regions, in seconds                      *)
LEMMA HoursOfRegions ==
    /\ DOMAIN Hours = {"INDIA", "AUSTRALIA"}
    /\ Hours["INDIA"].pre = 31500 /\ Hours["INDIA"].open = 33300
    /\ Hours["INDIA"].close = 55800 /\ Hours["INDIA"].squareOff = 54600
    /\ Hours["AUSTRALIA"].pre = 33300 /\ Hours["AUSTRALIA"].open = 36000
    /\ Hours["AUSTRALIA"].close = 57600 /\ Hours["AUSTRALIA"].squareOff = 57000
  BY DEF Hours, At

(* ASX opening times by ticker group are times of day.                      *)
LEMMA OpenTimesAreTimes ==
    ASSUME NEW letter, NEW g \in TickerOpenTime(letter) PROVE g \in Nat
  BY DEF TickerOpenTime, TickerGroups, At

(* A signal is generated only if every gate passed.                         *)
LEMMA GatesAll ==
    ASSUME NEW c, NEW gates, AfterGates(c, gates).generated
    PROVE  gates[1].passed /\ gates[7].passed
  <1> DEFINE failed == {g \in 1..7 : ~gates[g].passed}
             n == IF Min(failed) = 3 /\ Gate3Raises(c) THEN 0 ELSE Min(failed)
  <1>1. CASE failed # {}
    <2>1. AfterGates(c, gates) = FailedResult(c, n)
      BY <1>1, Zenon DEF AfterGates
    <2> HIDE DEF n
    <2>2. ~FailedResult(c, n).generated
      BY DEF FailedResult
    <2> QED BY <2>1, <2>2
  <1>2. CASE failed = {}
    BY <1>2
  <1> QED BY <1>1, <1>2

(* What gates 1 and 7 guarantee of a generated signal.                      *)
LEMMA GeneratedIsGated ==
    ASSUME NEW c, Evaluate(c).generated
    PROVE  /\ c.regime # "HIGH_VOL_CHAOS"
           /\ c.evaluatedAt >= c.sessionOpen + 60 * 15
           /\ c.evaluatedAt < c.sessionClose - 60 * 30
  <1> DEFINE gates == <<Gate1(c), Gate2(c), Gate3(c), Gate4(c), Gate5(c), Gate6(c), Gate7(c)>>
  <1>1. AfterGates(c, gates).generated
    BY Zenon DEF Evaluate
  <1>2. gates[1] = Gate1(c) /\ gates[7] = Gate7(c)
    OBVIOUS
  <1> HIDE DEF gates
  <1>3. Gate1(c).passed /\ Gate7(c).passed
    BY <1>1, <1>2, GatesAll
  <1> QED BY <1>3 DEF Gate1, Gate7, GateIf, GateFails, GatePasses

(* What a context takes over from the candidate and the clock.              *)
LEMMA ContextFields ==
    ASSUME NEW c, NEW r
    PROVE  /\ ContextOf(c, r).regime = r.regime /\ ContextOf(c, r).evaluatedAt = clk
           /\ ContextOf(c, r).sessionOpen = Hours[region].open
           /\ ContextOf(c, r).sessionClose = Hours[region].close
  BY DEF ContextOf

(* No context, no signal, no order.                                         *)
LEMMA TradeInitInv == RegimeInit /\ TradeInit => TradeInv
  <1> SUFFICES ASSUME RegimeInit, TradeInit PROVE TradeInv
    OBVIOUS
  <1>1. /\ clk \in Nat /\ region \in {"INDIA", "AUSTRALIA"} /\ made.at = 0
        /\ stage = "idle" /\ placed = {}
    <2>1. clk \in Nat
      BY TradeAssumption DEF TradeInit
    <2>2. region \in {"INDIA", "AUSTRALIA"}
      <3>1. region \in DOMAIN Hours
        BY Zenon DEF TradeInit
      <3> QED BY <3>1, HoursOfRegions
    <2>3. made.at = 0 /\ stage = "idle" /\ placed = {}
      BY DEF TradeInit
    <2> QED BY <2>1, <2>2, <2>3
  <1>2. StreamTellsChaos
    BY DEF RegimeInit, StreamTellsChaos
  <1> QED BY <1>1, <1>2 DEF TradeInv, TradeTyped, SignalGated, OrderCleared

(* The classifier's steps keep the stream truthful about chaos.             *)
LEMMA RegimeStepInv ==
    ASSUME StreamTellsChaos, RegimeNext \/ UNCHANGED regimeVars PROVE StreamTellsChaos'
  <1>1. CASE ClassifyAndPublish
    <2>1. PICK f, p : PublishRegimeChange(f, ClassifyRegime(f, p))
      BY <1>1 DEF ClassifyAndPublish
    <2>2. chaotic' <=> IsChaos(f)
      BY <2>1, Zenon DEF PublishRegimeChange
    <2>3. IsChaos(f) => ClassifyRegime(f, p) = "HIGH_VOL_CHAOS"
      BY Zenon DEF ClassifyRegime
    <2>4. \A e \in regimeStream' : e.regime = ClassifyRegime(f, p)
      BY <2>1 DEF PublishRegimeChange
    <2> QED BY <2>2, <2>3, <2>4, Zenon DEF StreamTellsChaos
  <1>2. CASE UNCHANGED <<regimeStream, chaotic>>
    BY <1>2 DEF StreamTellsChaos
  <1>3. RegimeNext \/ UNCHANGED regimeVars =>
            ClassifyAndPublish \/ UNCHANGED <<regimeStream, chaotic>>
    BY DEF RegimeNext, SaveClassifier, Fit, LoadClassifier, PromoteClassifier, regimeVars
  <1> QED BY <1>1, <1>2, <1>3

(* A signal is made now, in the session's window, from a calm regime.       *)
LEMMA SignalInv == TradeInv /\ EvaluateSignal => TradeInv'
  <1> SUFFICES ASSUME TradeInv, EvaluateSignal PROVE TradeInv'
    OBVIOUS
  <1>1. PICK r \in ReadLatestRegime, c \in ReadyContexts :
            /\ sig' = Evaluate(ContextOf(c, r))
            /\ made' = [at |-> clk, chaotic |-> chaotic, regime |-> r.regime]
            /\ stage' = IF sig'.generated THEN "signal" ELSE "rejected"
    BY DEF EvaluateSignal
  <1>2. stage = "idle" /\ UNCHANGED <<clk, region, placed, regimeStream, chaotic>>
    BY DEF EvaluateSignal, regimeVars
  <1>3. made'.at = clk /\ (made'.chaotic <=> chaotic)
    BY <1>1
  <1>4. placed' = {}
    BY <1>2 DEF TradeInv, OrderCleared
  <1>5. SignalGated'
    <2> SUFFICES ASSUME stage' \in {"signal", "sized", "placed"}
                 PROVE  /\ ~made'.chaotic
                        /\ clk >= Hours[region].open + 900 /\ clk < Hours[region].close - 1800
      BY <1>2, <1>3 DEF SignalGated
    <2> DEFINE x == ContextOf(c, r)
    <2>1. Evaluate(x).generated
      BY <1>1
    <2>2. x.regime = r.regime /\ x.evaluatedAt = clk /\ x.sessionOpen = Hours[region].open
          /\ x.sessionClose = Hours[region].close
      BY ContextFields
    <2> HIDE DEF x
    <2>3. /\ r.regime # "HIGH_VOL_CHAOS"
          /\ clk >= Hours[region].open + 60 * 15 /\ clk < Hours[region].close - 60 * 30
      BY <2>1, <2>2, GeneratedIsGated
    <2>4. PICK e \in regimeStream : r.regime = e.regime
      BY DEF ReadLatestRegime
    <2>5. ~chaotic
      BY <2>3, <2>4 DEF TradeInv, StreamTellsChaos
    <2> QED BY <1>3, <2>3, <2>5
  <1> QED BY <1>2, <1>3, <1>4, <1>5 DEF TradeInv, TradeTyped, StreamTellsChaos, OrderCleared

(* What the compliance engine clears an entry with.                         *)
LEMMA ClearedOrder ==
    ASSUME NEW o, NEW s, NEW t \in Nat, NEW caller,
           region \in {"INDIA", "AUSTRALIA"}, caller.now = {t},
           caller.groupOpen = TickerOpenTime(o.letter),
           NEW tagged \in ComplianceCheck(OrderOf(o, s), caller, t)
    PROVE  /\ tagged.order.symbol = o.letter
           /\ region = "INDIA" => t < At(15, 10)
           /\ region = "AUSTRALIA" => \A g \in TickerOpenTime(o.letter) : t - g >= 900
  <1> DEFINE x == OrderOf(o, s)
  <1>1. /\ x.symbol = o.letter /\ x.isExit = FALSE
        /\ x.exchange = IF region = "INDIA" THEN "NSE" ELSE "ASX"
    BY DEF OrderOf
  <1> HIDE DEF x
  <1>2. tagged = TaggedOrder(x) /\ Violations(x, caller, t) = {}
    BY Zenon DEF ComplianceCheck, x
  <1>3. tagged.order = x
    BY <1>2 DEF TaggedOrder
  <1>4. region = "INDIA" => t < At(15, 10)
    <2> SUFFICES ASSUME region = "INDIA" PROVE t < At(15, 10)
      OBVIOUS
    <2>1. Violations(x, caller, t) = RunIndiaChecks(x, ResolveStrategy(x.strategy), caller.now)
      <3>1. x.exchange \in IndiaExchanges
        BY <1>1 DEF IndiaExchanges
      <3>2. x.exchange \notin AsxExchanges
        BY <1>1 DEF AsxExchanges
      <3> QED BY <3>1, <3>2 DEF Violations
    <2>2. CheckForceSquareOff(x, t) \subseteq RunIndiaChecks(x, ResolveStrategy(x.strategy), caller.now)
      BY DEF RunIndiaChecks
    <2>3. CheckForceSquareOff(x, t) = {}
      BY <1>2, <2>1, <2>2
    <2> QED BY <1>1, <2>3 DEF CheckForceSquareOff, When, At
  <1>5. region = "AUSTRALIA" => \A g \in TickerOpenTime(o.letter) : t - g >= 900
    <2> SUFFICES ASSUME region = "AUSTRALIA", NEW g \in TickerOpenTime(o.letter)
                 PROVE  t - g >= 900
      OBVIOUS
    <2>1. Violations(x, caller, t) = RunAustraliaChecks(x, caller, t)
      BY <1>1 DEF Violations, IndiaExchanges, AsxExchanges
    <2>2. CheckStaggeredOpen(x, caller.groupOpen, t) \subseteq RunAustraliaChecks(x, caller, t)
      BY DEF RunAustraliaChecks
    <2>3. CheckStaggeredOpen(x, caller.groupOpen, t) = {}
      BY <1>2, <2>1, <2>2
    <2>4. ~(t - g < 60 * 15)
      BY <1>1, <2>3 DEF CheckStaggeredOpen, When
    <2> QED BY <2>4, OpenTimesAreTimes
  <1> QED BY <1>1, <1>3, <1>4, <1>5

(* check_order: an order goes on only if it passes every rule.              *)
LEMMA ComplianceInv == TradeInv /\ CheckCompliance => TradeInv'
  <1> SUFFICES ASSUME TradeInv, CheckCompliance PROVE TradeInv'
    OBVIOUS
  <1>1. PICK o \in Orders, s \in sized :
            placed' = {[order |-> t, at |-> clk] :
                t \in ComplianceCheck(OrderOf(o, s),
                        [now |-> {clk}, recent |-> o.recent, pending |-> o.pending,
                         shortList |-> o.shortList, groupOpen |-> TickerOpenTime(o.letter)], clk)}
    BY DEF CheckCompliance
  <1>2. /\ stage = "sized" /\ stage' = IF placed' = {} THEN "rejected" ELSE "placed"
        /\ UNCHANGED <<clk, region, made, regimeStream, chaotic>>
    BY DEF CheckCompliance, regimeVars
  <1> DEFINE caller == [now |-> {clk}, recent |-> o.recent, pending |-> o.pending,
                        shortList |-> o.shortList, groupOpen |-> TickerOpenTime(o.letter)]
  <1>3. caller.now = {clk} /\ caller.groupOpen = TickerOpenTime(o.letter)
    OBVIOUS
  <1>4. clk \in Nat /\ region \in {"INDIA", "AUSTRALIA"} /\ made.at \in Nat /\ made.at <= clk
    BY <1>2 DEF TradeInv, TradeTyped
  <1> HIDE DEF caller
  <1>5. ASSUME NEW p \in placed'
        PROVE  /\ p.at \in Nat /\ made.at <= p.at
               /\ region = "INDIA" => p.at < At(15, 10)
               /\ region = "AUSTRALIA" =>
                     \A g \in TickerOpenTime(p.order.order.symbol) : p.at - g >= 900
    <2>1. PICK t \in ComplianceCheck(OrderOf(o, s), caller, clk) : p = [order |-> t, at |-> clk]
      BY <1>1, <1>5 DEF caller
    <2>2. p.order = t /\ p.at = clk
      BY <2>1
    <2>3. /\ t.order.symbol = o.letter
          /\ region = "INDIA" => clk < At(15, 10)
          /\ region = "AUSTRALIA" => \A g \in TickerOpenTime(o.letter) : clk - g >= 900
      BY <1>3, <1>4, ClearedOrder
    <2> QED BY <1>4, <2>2, <2>3
  <1>6. OrderCleared'
    BY <1>2, <1>5 DEF OrderCleared
  <1>7. SignalGated'
    BY <1>2 DEF TradeInv, SignalGated
  <1> QED BY <1>2, <1>6, <1>7 DEF TradeInv, TradeTyped, StreamTellsChaos

(* Every step of the decision and of the classifier.                        *)
LEMMA TradeStepInv == TradeInv /\ [DecisionNext]_<<tradeVars, regimeVars>> => TradeInv'
  <1> SUFFICES ASSUME TradeInv, [DecisionNext]_<<tradeVars, regimeVars>> PROVE TradeInv'
    OBVIOUS
  <1>1. CASE EvaluateRisk
    <2>1. /\ stage = "signal" /\ stage' \in {"rejected", "sized"}
          /\ UNCHANGED <<clk, region, made, placed, regimeStream, chaotic>>
      BY <1>1 DEF EvaluateRisk, regimeVars
    <2> QED BY <2>1 DEF TradeInv, TradeTyped, StreamTellsChaos, SignalGated, OrderCleared
  <1>2. CASE TradeTick
    <2>1. /\ clk' \in Nat /\ clk' > clk
          /\ UNCHANGED <<region, stage, made, placed, regimeStream, chaotic>>
      BY <1>2, TradeAssumption DEF TradeTick, regimeVars
    <2> QED BY <2>1 DEF TradeInv, TradeTyped, StreamTellsChaos, SignalGated, OrderCleared
  <1>3. CASE (RegimeNext \/ UNCHANGED regimeVars) /\ UNCHANGED tradeVars
    <2>1. StreamTellsChaos'
      BY <1>3, RegimeStepInv DEF TradeInv
    <2> QED BY <1>3, <2>1 DEF TradeInv, TradeTyped, SignalGated, OrderCleared, tradeVars
  <1>4. Learn => RegimeNext /\ UNCHANGED tradeVars
    BY DEF Learn, RegimeNext
  <1> QED BY <1>1, <1>2, <1>3, <1>4, SignalInv, ComplianceInv DEF DecisionNext, TradeNext

(* The invariant holds of every behaviour.                                  *)
LEMMA TradeAlways == TradeSpec => []TradeInv
  BY TradeInitInv, TradeStepInv, PTL DEF TradeSpec

(* No order comes from a signal whose regime was classified in chaos.       *)
THEOREM ChaosNeverTrades == TradeSpec => []ChaosBlocked
  <1>1. TradeInv => ChaosBlocked
    BY DEF TradeInv, OrderCleared, SignalGated, ChaosBlocked
  <1> QED BY <1>1, TradeAlways, PTL

(* An entry is approved only in a tradeable state of its session, before    *)
(* the square-off is due and after its ticker's group has opened, for any   *)
(* instants at which the steps happen.                                      *)
THEOREM EntriesInSession == TradeSpec => []EntryInsideSession
  <1>1. ASSUME TradeInv, NEW p \in placed, region = "INDIA" \/ p.at <= SignalExpiry(made.at)
        PROVE  /\ MarketHoursOnly(GetState(region, TRUE, p.at))
               /\ ~SquareOffDue(region, p.at)
               /\ \A g \in TickerOpenTime(p.order.order.symbol) :
                     region = "AUSTRALIA" => p.at > g
    <2>1. /\ region \in {"INDIA", "AUSTRALIA"} /\ made.at \in Nat
          /\ stage = "placed" /\ p.at \in Nat /\ made.at <= p.at
          /\ made.at >= Hours[region].open + 900 /\ made.at < Hours[region].close - 1800
      BY <1>1 DEF TradeInv, TradeTyped, OrderCleared, SignalGated
    <2>2. /\ p.at >= Hours[region].pre /\ p.at >= Hours[region].open
          /\ p.at < Hours[region].squareOff /\ p.at < Hours[region].close
      <3>1. CASE region = "INDIA"
        <4>1. p.at < 54600
          BY <1>1, <3>1 DEF TradeInv, OrderCleared, At
        <4> QED BY <2>1, <3>1, <4>1, HoursOfRegions
      <3>2. CASE region = "AUSTRALIA"
        <4>1. p.at <= made.at + 300
          BY <1>1, <2>1, <3>2 DEF SignalExpiry
        <4> QED BY <2>1, <3>2, <4>1, HoursOfRegions
      <3> QED BY <2>1, <3>1, <3>2
    <2>3. /\ Hours[region].pre \in Nat /\ Hours[region].open \in Nat
          /\ Hours[region].squareOff \in Nat /\ Hours[region].close \in Nat
      BY <2>1, HoursOfRegions
    <2>4. GetState(region, TRUE, p.at) \in {"SNAPSHOT_WINDOW", "OPEN"}
      BY <2>1, <2>2, <2>3 DEF GetState
    <2>5. \A g \in TickerOpenTime(p.order.order.symbol) : region = "AUSTRALIA" => p.at > g
      <3> TAKE g \in TickerOpenTime(p.order.order.symbol)
      <3>1. g \in Nat
        BY OpenTimesAreTimes
      <3>2. region = "AUSTRALIA" => p.at - g >= 900
        BY <1>1 DEF TradeInv, OrderCleared
      <3> QED BY <2>1, <3>1, <3>2
    <2>6. MarketHoursOnly(GetState(region, TRUE, p.at))
      BY <2>4 DEF MarketHoursOnly, TRADEABLE_STATES
    <2>7. ~SquareOffDue(region, p.at)
      BY <2>1, <2>2, <2>3 DEF SquareOffDue
    <2> QED BY <2>5, <2>6, <2>7
  <1>2. TradeInv => EntryInsideSession
    BY <1>1 DEF EntryInsideSession
  <1> QED BY <1>2, TradeAlways, PTL

-----------------------------------------------------------------------------
(* The callers of RiskEngine.evaluate, for any number of them, any capital  *)
(* and any proposals.                                                       *)

RiskSpec == RiskInit /\ [][RiskNext]_riskVars

(* Open positions: finitely many, each with a risk and how often it is held *)
IsBook(b) ==
    /\ IsFiniteSet(DOMAIN b)
    /\ \A q \in DOMAIN b : b[q] \in Nat \ {0} /\ q.risk \in Nat

(* The callers whose view leaves them room for a trade in the sectors G     *)
(* under the limit of L percent                                             *)
MayOpen(G, L) ==
    {c \in Callers : \E a \in asked[c] :
        a.proposal.sector \in G /\ 100 * RiskIn(a.view.positions, G) <= L * Capital}

(* What is at risk, with a full trade of every caller that may still open   *)
(* one, is within the limit and a full trade per caller.                    *)
Covered(G, L) ==
    100 * RiskIn(book, G) + Cardinality(MayOpen(G, L)) * TradeCap
        <= L * Capital + Cardinality(Callers) * TradeCap

RiskTyped ==
    /\ IsBook(book) /\ asked \in [Callers -> SUBSET UNION {asked[c] : c \in Callers}]
    /\ \A c \in Callers : \A a \in asked[c] : a.proposal \in Proposals /\ IsBook(a.view.positions)

RiskInv == RiskTyped /\ Covered(Sectors, 7) /\ \A s \in Sectors : Covered({s}, 5)

(* Sums over a book                                                         *)
RiskOf(b) == [q \in DOMAIN b |-> q.risk * b[q]]
Where(b, G) == {q \in DOMAIN b : q.sector \in G}

(* The risk in the sectors of G is a sum over the positions in them.        *)
LEMMA RiskInBook ==
    ASSUME NEW b, IsBook(b), NEW G
    PROVE  /\ RiskIn(b, G) = SumFunctionOnSet(RiskOf(b), Where(b, G))
           /\ IsFiniteSet(Where(b, G))
           /\ \A q \in Where(b, G) : RiskOf(b)[q] \in Nat
           /\ RiskIn(b, G) \in Nat
  <1>1. RiskIn(b, G) = SumFunctionOnSet(RiskOf(b), Where(b, G))
    BY DEF RiskIn, RiskOf, Where, BagToSet
  <1>2. IsFiniteSet(Where(b, G))
    <2>1. IsFiniteSet(DOMAIN b) /\ Where(b, G) \in SUBSET DOMAIN b
      BY DEF IsBook, Where
    <2> QED BY <2>1, FS_Subset
  <1>3. \A q \in Where(b, G) : RiskOf(b)[q] \in Nat
    BY DEF IsBook, Where, RiskOf
  <1> QED BY <1>1, <1>2, <1>3, SumOfNats

(* A position more adds its risk to its sector's, and to no other.          *)
LEMMA AddRisk ==
    ASSUME NEW b, IsBook(b), NEW x, x.risk \in Nat, NEW G
    PROVE  /\ IsBook((b (+) SetToBag({x})))
           /\ RiskIn((b (+) SetToBag({x})), G) = RiskIn(b, G) + (IF x.sector \in G THEN x.risk ELSE 0)
  <1> DEFINE n == (b (+) SetToBag({x}))
             V == Where(b, G)
             W == Where(n, G)
  <1>1. /\ DOMAIN n = DOMAIN b \cup {x}
        /\ \A q \in DOMAIN b \ {x} : n[q] = b[q]
        /\ n[x] = IF x \in DOMAIN b THEN b[x] + 1 ELSE 1
    BY DEF (+), SetToBag, IsBook
  <1>2. IsBook(n)
    <2>1. IsFiniteSet(DOMAIN b \cup {x})
      <3>1. IsFiniteSet(DOMAIN b)
        BY DEF IsBook
      <3> QED BY <3>1, FS_AddElement
    <2> HIDE DEF n
    <2> QED BY <1>1, <2>1 DEF IsBook
  <1> HIDE DEF n
  <1>b. /\ RiskIn(b, G) = SumFunctionOnSet(RiskOf(b), V) /\ IsFiniteSet(V)
        /\ \A q \in V : RiskOf(b)[q] \in Nat
        /\ RiskIn(b, G) \in Nat
    BY RiskInBook
  <1>n. /\ RiskIn(n, G) = SumFunctionOnSet(RiskOf(n), W) /\ IsFiniteSet(W)
        /\ \A q \in W : RiskOf(n)[q] \in Nat
        /\ RiskIn(n, G) \in Nat
    BY <1>2, RiskInBook
  <1>3. \A q \in V \ {x} : RiskOf(n)[q] = RiskOf(b)[q]
    BY <1>1 DEF RiskOf, Where
  <1>4. CASE x.sector \notin G
    <2>1. W = V /\ x \notin V
      BY <1>1, <1>4 DEF Where
    <2>2. \A q \in V : RiskOf(b)[q] \in Int /\ RiskOf(b)[q] = RiskOf(n)[q]
      BY <2>1, <1>3, <1>b
    <2>3. SumFunctionOnSet(RiskOf(b), V) = SumFunctionOnSet(RiskOf(n), V)
      <3> HIDE DEF V, W
      <3> QED BY <2>2, <1>b, SumOfEqual
    <2> QED BY <1>b, <1>n, <2>1, <2>3, <1>4, <1>2 DEF n
  <1>5. CASE x.sector \in G
    <2> DEFINE U == V \ {x}
    <2>1. /\ W \ {x} = U /\ x \in W /\ IsFiniteSet(U)
          /\ RiskOf(n)[x] = x.risk * n[x]
      <3>1. W \ {x} = U /\ x \in W /\ RiskOf(n)[x] = x.risk * n[x]
        BY <1>1, <1>5 DEF Where, RiskOf
      <3>2. IsFiniteSet(U)
        BY <1>b, FS_RemoveElement
      <3> QED BY <3>1, <3>2
    <2>2. SumFunctionOnSet(RiskOf(n), W) = RiskOf(n)[x] + SumFunctionOnSet(RiskOf(n), U)
      <3>1. \A q \in W : RiskOf(n)[q] \in Int
        BY <1>n
      <3> HIDE DEF V, W, U
      <3> QED BY <3>1, <1>n, <2>1, SumSplits
    <2>3. SumFunctionOnSet(RiskOf(b), U) = SumFunctionOnSet(RiskOf(n), U)
      <3>1. \A q \in U : RiskOf(b)[q] \in Int /\ RiskOf(b)[q] = RiskOf(n)[q]
        BY <1>3, <1>b
      <3> HIDE DEF V, W, U
      <3> QED BY <3>1, <2>1, SumOfEqual
    <2>4. CASE x \in DOMAIN b
      <3>1. x \in V /\ RiskOf(b)[x] = x.risk * b[x] /\ b[x] \in Nat /\ n[x] = b[x] + 1
        BY <2>4, <1>1, <1>5 DEF Where, RiskOf, IsBook
      <3>2. SumFunctionOnSet(RiskOf(b), V) = RiskOf(b)[x] + SumFunctionOnSet(RiskOf(b), U)
        <4>1. \A q \in V : RiskOf(b)[q] \in Int
          BY <1>b
        <4> HIDE DEF V, W
        <4> QED BY <4>1, <1>b, <3>1, SumSplits
      <3>3. x.risk * n[x] = x.risk * b[x] + x.risk
        BY <3>1
      <3>4. SumFunctionOnSet(RiskOf(b), U) \in Int
        <4>1. \A q \in U : RiskOf(b)[q] \in Int
          BY <1>b
        <4> HIDE DEF U
        <4> QED BY <4>1, <2>1, SumSplits
      <3>5. x.risk * b[x] \in Nat
        BY <3>1
      <3> HIDE DEF U, V, W
      <3>6. RiskIn(n, G) = (x.risk * b[x] + x.risk) + SumFunctionOnSet(RiskOf(b), U)
        BY <1>n, <2>1, <2>2, <2>3, <3>3
      <3>7. RiskIn(b, G) = x.risk * b[x] + SumFunctionOnSet(RiskOf(b), U)
        BY <1>b, <3>1, <3>2
      <3>8. RiskIn(n, G) = RiskIn(b, G) + x.risk
        BY <3>4, <3>5, <3>6, <3>7
      <3> QED BY <3>8, <1>2, <1>5 DEF n
    <2>5. CASE x \notin DOMAIN b
      <3>1. U = V /\ n[x] = 1
        BY <2>5, <1>1 DEF Where
      <3>2. RiskOf(n)[x] = x.risk
        BY <2>1, <3>1
      <3> HIDE DEF U, V, W
      <3>3. RiskIn(n, G) = x.risk + RiskIn(b, G)
        BY <1>n, <1>b, <2>2, <2>3, <3>1, <3>2
      <3>4. RiskIn(n, G) = RiskIn(b, G) + x.risk
        BY <3>3, <1>b
      <3> QED BY <3>4, <1>2, <1>5 DEF n
    <2> QED BY <2>4, <2>5
  <1> QED BY <1>4, <1>5

(* To add back a position that was removed gives the book again, so a       *)
(* position less never adds risk.                                           *)
LEMMA RemoveRisk ==
    ASSUME NEW b, IsBook(b), NEW x \in DOMAIN b, NEW G
    PROVE  IsBook((b (-) SetToBag({x}))) /\ RiskIn((b (-) SetToBag({x})), G) <= RiskIn(b, G)
  <1> DEFINE n == (b (-) SetToBag({x}))
  <1>0. /\ DOMAIN n = IF b[x] = 1 THEN DOMAIN b \ {x} ELSE DOMAIN b
        /\ \A q \in DOMAIN n : n[q] = IF q = x THEN b[q] - 1 ELSE b[q]
    <2> DEFINE B == [e \in DOMAIN b |-> IF e = x THEN b[e] - 1 ELSE b[e]]
    <2>1. n = [e \in {d \in DOMAIN B : B[d] > 0} |-> B[e]]
      BY DEF (-), SetToBag
    <2>2. DOMAIN n = {d \in DOMAIN b : B[d] > 0}
      BY <2>1
    <2>3. \A d \in DOMAIN b \ {x} : B[d] > 0
      BY DEF IsBook
    <2>4. B[x] > 0 <=> b[x] # 1
      BY DEF IsBook
    <2>5. DOMAIN n = IF b[x] = 1 THEN DOMAIN b \ {x} ELSE DOMAIN b
      <3> HIDE DEF n, B
      <3> QED BY <2>2, <2>3, <2>4
    <2> QED BY <2>1, <2>5
  <1>1. IsBook(n)
    <2>1. IsFiniteSet(DOMAIN n)
      <3>1. IsFiniteSet(DOMAIN b)
        BY DEF IsBook
      <3> QED BY <3>1, <1>0, FS_RemoveElement
    <2> HIDE DEF n
    <2> QED BY <2>1, <1>0 DEF IsBook
  <1>2. /\ RiskIn(b, G) = SumFunctionOnSet(RiskOf(b), Where(b, G))
        /\ RiskIn(n, G) = SumFunctionOnSet(RiskOf(n), Where(n, G))
        /\ RiskIn(b, G) \in Nat /\ RiskIn(n, G) \in Nat
    BY <1>1, RiskInBook
  <1> DEFINE m == n (+) SetToBag({x})
  <1>3. DOMAIN m = DOMAIN b /\ \A q \in DOMAIN b : m[q] = b[q]
    <2>1. /\ DOMAIN m = DOMAIN n \cup {x}
          /\ \A q \in DOMAIN m : m[q] = (IF q \in DOMAIN n THEN n[q] ELSE 0) + (IF q = x THEN 1 ELSE 0)
      BY DEF (+), SetToBag
    <2>2. \A q \in DOMAIN b : b[q] \in Nat
      BY DEF IsBook
    <2> HIDE DEF m, n
    <2>3. DOMAIN m = DOMAIN b
      BY <2>1, <1>0
    <2>4. m[x] = b[x]
      BY <2>1, <2>2, <2>3, <1>0
    <2>5. ASSUME NEW q \in DOMAIN b, q # x PROVE m[q] = b[q]
      <3>1. q \in DOMAIN n /\ n[q] = b[q]
        BY <1>0, <2>5
      <3> QED BY <2>1, <2>2, <2>3, <2>5, <3>1
    <2> QED BY <2>3, <2>4, <2>5
  <1>4. x.risk \in Nat
    BY DEF IsBook
  <1> HIDE DEF n
  <1>5. IsBook(m) /\ RiskIn(m, G) = RiskIn(n, G) + (IF x.sector \in G THEN x.risk ELSE 0)
    BY <1>1, <1>4, AddRisk
  <1> HIDE DEF m
  <1>6. RiskIn(m, G) = RiskIn(b, G)
    <2>1. RiskOf(m) = RiskOf(b) /\ Where(m, G) = Where(b, G)
      BY <1>3 DEF RiskOf, Where
    <2>2. RiskIn(m, G) = SumFunctionOnSet(RiskOf(m), Where(m, G))
      BY <1>5, RiskInBook
    <2> QED BY <2>1, <2>2, <1>2
  <1> QED BY <1>1, <1>2, <1>4, <1>5, <1>6 DEF n

-----------------------------------------------------------------------------
(* Max of a pair of integers                                                *)
LEMMA MaxOfPair == ASSUME NEW a \in Int, NEW b \in Int PROVE Max({a, b}) \in Int /\ Max({a, b}) >= a
  <1>1. \E x \in {a, b} : \A y \in {a, b} : x >= y
    OBVIOUS
  <1>2. Max({a, b}) \in {a, b} /\ \A y \in {a, b} : Max({a, b}) >= y
    BY <1>1 DEF Max
  <1> QED BY <1>2

(* The quotients of the sizing are whole numbers.                           *)
LEMMA DivTyped ==
    ASSUME NEW a \in Int, NEW b \in Nat \ {0}
    PROVE  a \div b \in Int /\ (a >= 0 => a \div b >= 0)
  OBVIOUS

(* A budget divided by a stop distance is a whole number of shares.         *)
LEMMA SharesTyped ==
    ASSUME NEW r \in Int, NEW d \in Nat
    PROVE  Shares(r, d) \in Nat
  <1>1. CASE d = 0
    BY <1>1 DEF Shares
  <1>2. CASE d # 0
    <2>1. r \div d \in Int
      BY <1>2, DivTyped
    <2>2. Shares(r, d) = Max({1, r \div d})
      BY <1>2 DEF Shares
    <2>3. ASSUME NEW v \in Int PROVE Max({1, v}) \in Nat
      <3>1. Max({1, v}) \in Int /\ Max({1, v}) >= 1
        BY MaxOfPair
      <3> QED BY <3>1
    <2> QED BY <2>1, <2>2, <2>3
  <1> QED BY <1>1, <1>2

(* The risk a regime allows is at most four quarters of a percent.          *)
LEMMA RegimeRiskTyped == ASSUME NEW regime PROVE RegimeRisk(regime) \in 0..4
  BY DEF RegimeRisk

(* The cap of a trade is an amount.                                         *)
LEMMA TradeCapTyped == TradeCap \in Nat
  <1>1. Capital \in Nat /\ 20000 \in Nat \ {0}
    BY RiskAssumption
  <1>2. Capital \div 20000 \in Int /\ Capital \div 20000 >= 0
    BY <1>1, DivTyped
  <1> QED BY <1>1, <1>2 DEF TradeCap

(* What evaluate approves is capped, risks no less than nothing, and was    *)
(* within the limits on the caller's view.                                  *)
LEMMA Approved ==
    ASSUME NEW p \in Proposals, NEW view, IsBook(view.positions),
           NEW s \in RiskEvaluate(p, view)
    PROVE  /\ s.risk \in Nat /\ 100 * s.risk <= TradeCap
           /\ 100 * RiskIn(view.positions, Sectors) <= 7 * Capital
           /\ 100 * RiskIn(view.positions, {p.sector}) <= 5 * Capital
  <1> DEFINE q     == RegimeRisk(p.regime)
             sizes == IF p.kelly = {} THEN AtrPositionSize(p)
                      ELSE UNION {KellyPositionSize(p, k) : k \in p.kelly}
             d     == Dist(p.entry, p.stop)
             h     == Halving(p.snapshot)
  <1>p. /\ p.entry \in Int /\ p.stop \in Int /\ Capital \in Nat
        /\ \A k \in p.kelly : k.winRate \in Int /\ k.ratio \in Int
    BY RiskAssumption
  <1>d. d \in Nat /\ h \in Nat
    BY <1>p DEF Dist, Halving
  <1>r. q \in Nat
    BY RegimeRiskTyped
  <1>1. PreliminaryRisk(p) \in Nat
    <2> HIDE DEF d, h
    <2> QED BY <1>p, <1>r DEF PreliminaryRisk
  <1>2. \A z \in AtrPositionSize(p) : z \in Nat
    <2> DEFINE num == Capital * q * q
               den == 1600 * h * d
    <2>1. AtrPositionSize(p) \subseteq {Shares(num, den)}
      BY DEF AtrPositionSize
    <2> HIDE DEF d, h, q
    <2>2. num \in Int /\ den \in Nat
      BY <1>p, <1>d, <1>r
    <2> HIDE DEF num, den
    <2>3. Shares(num, den) \in Nat
      BY <2>2, SharesTyped
    <2> QED BY <2>1, <2>3
  <1>3. ASSUME NEW k \in p.kelly, NEW z \in KellyPositionSize(p, k) PROVE z \in Nat
    <2> DEFINE edge == Max({0, k.ratio * k.winRate - (100 - k.winRate)})
               num  == Capital * edge * q
               den  == 1600 * k.ratio * h * d
    <2>1. k.ratio \in Nat /\ k.winRate \in Int /\ z = Shares(num, den)
      BY <1>p, <1>3 DEF KellyPositionSize
    <2>2. k.ratio * k.winRate - (100 - k.winRate) \in Int
      BY <2>1
    <2>3. edge \in Int
      <3> DEFINE v == k.ratio * k.winRate - (100 - k.winRate)
      <3>1. v \in Int
        BY <2>2
      <3> HIDE DEF v
      <3>2. Max({0, v}) \in Int
        BY <3>1, MaxOfPair
      <3> QED BY <3>2 DEF v
    <2> HIDE DEF edge, d, h, q
    <2>4. num \in Int /\ den \in Nat
      BY <2>1, <2>3, <1>p, <1>d, <1>r
    <2> HIDE DEF num, den
    <2> QED BY <2>1, <2>4, SharesTyped
  <1>4. \A z \in sizes : z \in Nat
    BY <1>2, <1>3
  <1>5. /\ CheckThreeFiveSeven(view, p.sector, PreliminaryRisk(p))
        /\ FinalCap(s.risk)
        /\ \E z \in sizes : s.risk = z * d
    BY DEF RiskEvaluate
  <1> HIDE DEF sizes, d
  <1>6. s.risk \in Nat
    <2>1. PICK z \in sizes : s.risk = z * d
      BY <1>5
    <2>2. z \in Nat
      BY <2>1, <1>4
    <2> QED BY <2>1, <2>2, <1>d
  <1>7. RiskIn(view.positions, Sectors) \in Nat /\ RiskIn(view.positions, {p.sector}) \in Nat
    BY RiskInBook
  <1>8. /\ 800 * RiskIn(view.positions, {p.sector}) + PreliminaryRisk(p) <= 8 * 5 * Capital
        /\ 800 * RiskIn(view.positions, Sectors) + PreliminaryRisk(p) <= 8 * 7 * Capital
    BY <1>5 DEF CheckThreeFiveSeven
  <1>9. 100 * s.risk <= TradeCap
    BY <1>5 DEF FinalCap
  <1> QED BY <1>1, <1>6, <1>7, <1>8, <1>9, <1>p

-----------------------------------------------------------------------------
(* A trade within the limit on its view is covered by its caller's share.   *)
LEMMA OpenCovered ==
    ASSUME NEW T \in Nat, NEW B \in Nat, NEW n \in Nat, NEW m \in Nat,
           NEW h \in Nat, NEW r \in Nat, m <= n - 1, 100 * r <= T,
           100 * h + n * T <= B
    PROVE  100 * (h + r) + m * T <= B
  <1>1. m * T <= (n - 1) * T
    BY SMT
  <1>2. (n - 1) * T = n * T - T /\ n * T \in Int /\ m * T \in Int
    BY SMT
  <1> DEFINE x == m * T
             y == n * T
  <1> HIDE DEF x, y
  <1>3. 100 * (h + r) + x <= B
    BY <1>1, <1>2 DEF x, y
  <1> QED BY <1>3 DEF x

(* Fewer callers that may open, and no more risk: still covered             *)
LEMMA LessCovered ==
    ASSUME NEW T \in Nat, NEW B \in Nat, NEW n \in Nat, NEW m \in Nat,
           NEW h \in Nat, NEW k \in Nat, m <= n, k <= h,
           100 * h + n * T <= B
    PROVE  100 * k + m * T <= B
  <1>1. m * T <= n * T /\ m * T \in Int /\ n * T \in Int
    BY SMT
  <1> DEFINE x == m * T
             y == n * T
  <1> HIDE DEF x, y
  <1>2. 100 * k + x <= B
    BY <1>1 DEF x, y
  <1> QED BY <1>2 DEF x

(* Within the limit, there is room for a full trade of every caller.        *)
LEMMA RoomForAll ==
    ASSUME NEW T \in Nat, NEW B \in Nat, NEW N \in Nat, NEW m \in Nat,
           NEW h \in Nat, m <= N, 100 * h <= B
    PROVE  100 * h + m * T <= B + N * T
  <1>1. m * T <= N * T /\ m * T \in Int /\ N * T \in Int
    BY SMT
  <1> DEFINE x == m * T
             y == N * T
  <1> HIDE DEF x, y
  <1>2. 100 * h + x <= B + y
    BY <1>1 DEF x, y
  <1> QED BY <1>2 DEF x, y

(* The positions read, asked about and opened keep their types.             *)
LEMMA RiskTypedStep ==
    ASSUME RiskTyped, [RiskNext]_riskVars
    PROVE  RiskTyped'
  <1>0. IsBook(book)
    BY DEF RiskTyped
  <1>1. ASSUME NEW c \in Callers, NEW p \in Proposals, NEW pnl, ReadParameters(c, p, pnl)
        PROVE  RiskTyped'
    <2> DEFINE a == [proposal |-> p, view |-> [positions |-> book, count |-> count,
                                               halted |-> halt, pnl |-> pnl]]
    <2>1. book' = book /\ asked' = [asked EXCEPT ![c] = {a}]
      BY <1>1 DEF ReadParameters
    <2>2. a.proposal = p /\ a.view.positions = book
      OBVIOUS
    <2> HIDE DEF a
    <2>3. DOMAIN asked = Callers
      BY DEF RiskTyped
    <2>4. \A e \in Callers : asked'[e] = IF e = c THEN {a} ELSE asked[e]
      BY <2>1, <2>3
    <2>5. asked' = [e \in Callers |-> asked'[e]]
      BY <2>1, <2>3
    <2> QED BY <2>1, <2>2, <2>4, <2>5, <1>0 DEF RiskTyped
  <1>2. ASSUME NEW c \in Callers, Decide(c) PROVE RiskTyped'
    <2>1. PICK a \in asked[c] :
             /\ asked' = [asked EXCEPT ![c] = {}]
             /\ \/ \E s \in RiskEvaluate(a.proposal, a.view) :
                      book' = book (+) SetToBag({[sector |-> a.proposal.sector, risk |-> s.risk,
                                                  returns |-> a.proposal.returns]})
                \/ UNCHANGED book
      BY <1>2 DEF Decide
    <2>2. a.proposal \in Proposals /\ IsBook(a.view.positions)
      BY DEF RiskTyped
    <2>3. IsBook(book')
      <3>1. CASE UNCHANGED book
        BY <3>1, <1>0
      <3>2. ASSUME NEW s \in RiskEvaluate(a.proposal, a.view),
                   book' = book (+) SetToBag({[sector |-> a.proposal.sector, risk |-> s.risk,
                                               returns |-> a.proposal.returns]})
            PROVE  IsBook(book')
        <4>1. s.risk \in Nat
          BY <2>2, Approved
        <4> DEFINE x == [sector |-> a.proposal.sector, risk |-> s.risk, returns |-> a.proposal.returns]
        <4>2. x.risk \in Nat
          BY <4>1
        <4> HIDE DEF x
        <4>3. IsBook(book (+) SetToBag({x}))
          BY <4>2, <1>0, AddRisk
        <4> QED BY <4>3, <3>2 DEF x
      <3> QED BY <2>1, <3>1, <3>2
    <2>4. DOMAIN asked = Callers
      BY DEF RiskTyped
    <2>5. /\ \A e \in Callers : asked'[e] \in SUBSET asked[e]
          /\ asked' = [e \in Callers |-> asked'[e]]
      BY <2>1, <2>4
    <2> QED BY <2>3, <2>5 DEF RiskTyped
  <1>3. ASSUME NEW q \in BagToSet(book), Close(q) PROVE RiskTyped'
    <2>1. q \in DOMAIN book
      BY DEF BagToSet
    <2>2. IsBook(book (-) SetToBag({q}))
      BY <2>1, <1>0, RemoveRisk
    <2> QED BY <2>2, <1>3 DEF Close, RiskTyped
  <1>4. CASE HaltSet
    BY <1>4 DEF HaltSet, RiskTyped
  <1>5. CASE UNCHANGED riskVars
    BY <1>5 DEF riskVars, RiskTyped
  <1> QED BY <1>1, <1>2, <1>3, <1>4, <1>5 DEF RiskNext

(* Under a limit that every approved trade met on its caller's view, what   *)
(* is covered stays covered.                                                *)
LEMMA CoveredStep ==
    ASSUME RiskTyped, [RiskNext]_riskVars, NEW G, NEW L \in Nat, Covered(G, L),
           \A c \in Callers : \A a \in asked[c] :
               RiskEvaluate(a.proposal, a.view) # {} /\ a.proposal.sector \in G
                   => 100 * RiskIn(a.view.positions, G) <= L * Capital
    PROVE  Covered(G, L)'
  <1> DEFINE P == MayOpen(G, L)
             h == RiskIn(book, G)
             n == Cardinality(P)
             N == Cardinality(Callers)
             B == L * Capital + N * TradeCap
  <1>0. IsBook(book) /\ DOMAIN asked = Callers
    BY DEF RiskTyped
  <1>1. h \in Nat /\ Capital \in Nat /\ TradeCap \in Nat
    BY <1>0, RiskInBook, RiskAssumption, TradeCapTyped
  <1>2. ASSUME NEW S \in SUBSET Callers
        PROVE  IsFiniteSet(S) /\ Cardinality(S) \in Nat /\ Cardinality(S) <= N /\ N \in Nat
    BY RiskAssumption, FS_Subset, FS_CardinalityType
  <1>3. P \in SUBSET Callers /\ MayOpen(G, L)' \in SUBSET Callers
    BY DEF MayOpen
  <1>4. 100 * h + n * TradeCap <= B
    BY DEF Covered
  <1>b. B \in Nat /\ L * Capital \in Nat
    <2>1. N \in Nat
      BY RiskAssumption, FS_CardinalityType
    <2> HIDE DEF N
    <2> QED BY <2>1, <1>1
  <1>5. ASSUME MayOpen(G, L)' \subseteq P, RiskIn(book, G)' <= h, RiskIn(book, G)' \in Nat
        PROVE  Covered(G, L)'
    <2> DEFINE m == Cardinality(MayOpen(G, L)')
    <2>1. m \in Nat /\ n \in Nat /\ N \in Nat
      BY <1>2, <1>3
    <2>2. m <= n
      BY <1>2, <1>3, <1>5, FS_Subset
    <2> HIDE DEF P, h, n, m, B
    <2>3. 100 * RiskIn(book, G)' + m * TradeCap <= B
      BY <1>1, <1>b, <1>4, <1>5, <2>1, <2>2, LessCovered
    <2> QED BY <2>3 DEF Covered, m, B
  <1>6. ASSUME NEW c \in Callers, NEW p \in Proposals, NEW pnl, ReadParameters(c, p, pnl)
        PROVE  Covered(G, L)'
    <2> DEFINE a == [proposal |-> p, view |-> [positions |-> book, count |-> count,
                                               halted |-> halt, pnl |-> pnl]]
    <2>1. book' = book /\ asked' = [asked EXCEPT ![c] = {a}]
      BY <1>6 DEF ReadParameters
    <2>2. a.proposal = p /\ a.view.positions = book
      OBVIOUS
    <2> HIDE DEF a
    <2>3. \A e \in Callers : asked'[e] = IF e = c THEN {a} ELSE asked[e]
      BY <2>1, <1>0
    <2>4. RiskIn(book, G)' = h
      BY <2>1
    <2>5. CASE 100 * h <= L * Capital
      <3> DEFINE m == Cardinality(MayOpen(G, L)')
      <3>1. m \in Nat /\ m <= N /\ N \in Nat
        BY <1>2, <1>3
      <3> DEFINE R == L * Capital
      <3>r. R \in Nat /\ 100 * h <= R
        BY <1>b, <2>5
      <3> HIDE DEF h, m, N, R
      <3>2. 100 * h + m * TradeCap <= R + N * TradeCap
        BY <1>1, <3>r, <3>1, RoomForAll
      <3> QED BY <3>2, <2>4 DEF Covered, m, N, R
    <2>6. CASE ~(100 * h <= L * Capital)
      <3>1. MayOpen(G, L)' \subseteq P
        BY <2>2, <2>3, <2>6 DEF MayOpen
      <3>2. h <= h
        BY <1>1
      <3> QED BY <3>1, <3>2, <2>4, <1>1, <1>5
    <2> QED BY <2>5, <2>6
  <1>7. ASSUME NEW c \in Callers, Decide(c) PROVE Covered(G, L)'
    <2>1. PICK a \in asked[c] :
             /\ asked' = [asked EXCEPT ![c] = {}]
             /\ \/ \E s \in RiskEvaluate(a.proposal, a.view) :
                      book' = book (+) SetToBag({[sector |-> a.proposal.sector, risk |-> s.risk,
                                                  returns |-> a.proposal.returns]})
                \/ UNCHANGED book
      BY <1>7 DEF Decide
    <2>2. a.proposal \in Proposals /\ IsBook(a.view.positions)
      BY DEF RiskTyped
    <2>3. \A e \in Callers : asked'[e] = IF e = c THEN {} ELSE asked[e]
      BY <2>1, <1>0
    <2>4. MayOpen(G, L)' \subseteq P \ {c}
      BY <2>3 DEF MayOpen
    <2>5. CASE UNCHANGED book
      <3>1. RiskIn(book, G)' = h /\ h <= h
        BY <2>5, <1>1
      <3> QED BY <3>1, <2>4, <1>1, <1>5
    <2>6. ASSUME NEW s \in RiskEvaluate(a.proposal, a.view),
                 book' = book (+) SetToBag({[sector |-> a.proposal.sector, risk |-> s.risk,
                                             returns |-> a.proposal.returns]})
          PROVE  Covered(G, L)'
      <3> DEFINE x == [sector |-> a.proposal.sector, risk |-> s.risk, returns |-> a.proposal.returns]
      <3>1. s.risk \in Nat /\ 100 * s.risk <= TradeCap
        BY <2>2, Approved
      <3>2. x.risk = s.risk /\ x.sector = a.proposal.sector /\ book' = book (+) SetToBag({x})
        BY <2>6
      <3> HIDE DEF x
      <3>3. RiskIn(book (+) SetToBag({x}), G) = h + (IF x.sector \in G THEN x.risk ELSE 0)
        BY <3>1, <3>2, <1>0, AddRisk
      <3>4. RiskIn(book, G)' = h + (IF a.proposal.sector \in G THEN s.risk ELSE 0)
        BY <3>2, <3>3
      <3>5. CASE a.proposal.sector \notin G
        <4>1. RiskIn(book, G)' = h /\ h <= h
          BY <3>4, <3>5, <1>1
        <4> QED BY <4>1, <2>4, <1>1, <1>5
      <3>6. CASE a.proposal.sector \in G
        <4>1. c \in P
          BY <3>6, <2>1, <2>6 DEF MayOpen
        <4> DEFINE m == Cardinality(MayOpen(G, L)')
        <4>2. m \in Nat /\ n \in Nat /\ N \in Nat
          BY <1>2, <1>3
        <4>3. m <= n - 1
          <5>1. IsFiniteSet(P \ {c}) /\ Cardinality(P \ {c}) = n - 1
            BY <4>1, <1>2, <1>3, FS_RemoveElement
          <5>2. m <= Cardinality(P \ {c})
            BY <5>1, <2>4, FS_Subset
          <5> QED BY <5>1, <5>2
        <4>4. RiskIn(book, G)' = h + s.risk
          BY <3>4, <3>6
        <4> DEFINE z == s.risk
        <4> HIDE DEF P, h, n, m, B, z
        <4>5. 100 * (h + z) + m * TradeCap <= B
          BY <1>1, <1>b, <1>4, <3>1, <4>2, <4>3, OpenCovered DEF z
        <4> QED BY <4>4, <4>5 DEF Covered, m, B, z
      <3> QED BY <3>5, <3>6
    <2> QED BY <2>1, <2>5, <2>6
  <1>8. ASSUME NEW q \in BagToSet(book), Close(q) PROVE Covered(G, L)'
    <2>1. q \in DOMAIN book /\ book' = book (-) SetToBag({q}) /\ asked' = asked
      BY <1>8 DEF BagToSet, Close
    <2>2. /\ IsBook(book (-) SetToBag({q}))
          /\ RiskIn(book (-) SetToBag({q}), G) <= RiskIn(book, G)
      BY <2>1, <1>0, RemoveRisk
    <2>3. RiskIn(book (-) SetToBag({q}), G) \in Nat
      BY <2>2, RiskInBook
    <2>4. MayOpen(G, L)' \subseteq P
      BY <2>1 DEF MayOpen
    <2> QED BY <2>1, <2>2, <2>3, <2>4, <1>5
  <1>9. CASE HaltSet \/ UNCHANGED riskVars
    <2>1. book' = book /\ asked' = asked
      BY <1>9 DEF HaltSet, riskVars
    <2>2. MayOpen(G, L)' = P /\ RiskIn(book, G)' = h /\ h <= h
      BY <2>1, <1>1 DEF MayOpen
    <2> QED BY <2>2, <1>1, <1>5
  <1> QED BY <1>6, <1>7, <1>8, <1>9 DEF RiskNext

(* The book is empty and no caller has asked.                               *)
LEMMA RiskInitInv == RiskInit => RiskInv
  <1> SUFFICES ASSUME RiskInit PROVE RiskInv
    OBVIOUS
  <1>1. DOMAIN book = {} /\ asked = [c \in Callers |-> {}]
    BY DEF RiskInit, EmptyBag, SetToBag
  <1>2. IsBook(book)
    BY <1>1, FS_EmptySet DEF IsBook
  <1>3. RiskTyped
    BY <1>1, <1>2 DEF RiskTyped
  <1>4. ASSUME NEW G, NEW L \in Nat PROVE Covered(G, L)
    <2>1. MayOpen(G, L) = {}
      BY <1>1 DEF MayOpen
    <2>2. RiskIn(book, G) = 0
      <3>1. Where(book, G) = {}
        BY <1>1 DEF Where
      <3>2. RiskIn(book, G) = SumFunctionOnSet(RiskOf(book), {})
        BY <1>2, <3>1, RiskInBook
      <3>3. SumFunctionOnSet(RiskOf(book), {}) = 0
        BY SumUnfolds, FS_EmptySet
      <3> QED BY <3>2, <3>3
    <2>3. Cardinality(MayOpen(G, L)) = 0 /\ Cardinality(Callers) \in Nat /\ Capital \in Nat
      BY <2>1, FS_EmptySet, FS_CardinalityType, RiskAssumption
    <2> DEFINE R == L * Capital
    <2>4. 0 \in Nat /\ 0 <= Cardinality(Callers) /\ 100 * 0 <= R /\ R \in Nat /\ TradeCap \in Nat
      BY <2>3, TradeCapTyped
    <2> HIDE DEF R
    <2>5. 100 * 0 + 0 * TradeCap <= R + Cardinality(Callers) * TradeCap
      BY <2>3, <2>4, RoomForAll
    <2> QED BY <2>2, <2>3, <2>5 DEF Covered, R
  <1> QED BY <1>3, <1>4 DEF RiskInv

(* Every step of the callers and of the book.                               *)
LEMMA RiskStepInv == RiskInv /\ [RiskNext]_riskVars => RiskInv'
  <1> SUFFICES ASSUME RiskInv, [RiskNext]_riskVars PROVE RiskInv'
    OBVIOUS
  <1>1. RiskTyped /\ RiskTyped'
    BY RiskTypedStep DEF RiskInv
  <1>2. ASSUME NEW c \in Callers, NEW a \in asked[c], RiskEvaluate(a.proposal, a.view) # {}
        PROVE  /\ 100 * RiskIn(a.view.positions, Sectors) <= 7 * Capital
               /\ 100 * RiskIn(a.view.positions, {a.proposal.sector}) <= 5 * Capital
    <2>1. a.proposal \in Proposals /\ IsBook(a.view.positions)
      BY <1>1 DEF RiskTyped
    <2> QED BY <1>2, <2>1, Approved
  <1>3. Covered(Sectors, 7)'
    BY <1>1, <1>2, CoveredStep DEF RiskInv
  <1>4. ASSUME NEW s \in Sectors PROVE Covered({s}, 5)'
    <2>1. \A c \in Callers : \A a \in asked[c] :
             RiskEvaluate(a.proposal, a.view) # {} /\ a.proposal.sector \in {s}
                => 100 * RiskIn(a.view.positions, {s}) <= 5 * Capital
      BY <1>2
    <2>2. Covered({s}, 5)
      BY DEF RiskInv
    <2> QED BY <1>1, <2>1, <2>2, CoveredStep
  <1> QED BY <1>1, <1>3, <1>4 DEF RiskInv

(* HeatBounded: whatever the callers of RiskEngine.evaluate interleave      *)
(* between reading the positions and opening another, the heat stays below  *)
(* the limit on it and one trade at the rounded cap per caller, for every   *)
(* capital.                                                                 *)
THEOREM HeatHolds == RiskSpec => []HeatBounded
  <1>1. RiskInv => HeatBounded
    <2> SUFFICES ASSUME RiskInv PROVE HeatBounded
      OBVIOUS
    <2>1. ASSUME NEW G, NEW L \in Nat, Covered(G, L)
          PROVE  100 * RiskIn(book, G) <= L * Capital + Cardinality(Callers) * TradeCap
      <3> DEFINE n == Cardinality(MayOpen(G, L))
                 N == Cardinality(Callers)
      <3>1. n \in Nat /\ N \in Nat /\ Capital \in Nat /\ TradeCap \in Nat
        <4>1. MayOpen(G, L) \in SUBSET Callers
          BY DEF MayOpen
        <4> HIDE DEF n, N
        <4> QED BY <4>1, RiskAssumption, TradeCapTyped, FS_Subset, FS_CardinalityType DEF n, N
      <3>2. RiskIn(book, G) \in Nat
        BY RiskInBook DEF RiskInv, RiskTyped
      <3>3. 100 * RiskIn(book, G) + n * TradeCap <= L * Capital + N * TradeCap
        BY <2>1 DEF Covered
      <3> HIDE DEF n, N
      <3>4. n * TradeCap \in Nat /\ L * Capital \in Nat /\ N * TradeCap \in Nat
        BY <3>1
      <3>5. 100 * RiskIn(book, G) <= L * Capital + N * TradeCap
        BY <3>2, <3>3, <3>4
      <3> QED BY <3>5 DEF N
    <2> QED BY <2>1 DEF RiskInv, HeatBounded
  <1> QED BY <1>1, RiskInitInv, RiskStepInv, PTL DEF RiskSpec

-----------------------------------------------------------------------------
(* KillSwitch.trigger, for every number of sources and any tiers.           *)

KillLabels == {"idle", "halt", "tier", "reason", "acked", "failed"}

KillTypes ==
    /\ at \in [Sources -> KillLabels]
    /\ redisUp \in BOOLEAN /\ halted \in BOOLEAN
    /\ tier \in 0..3 /\ reason \in Sources \cup {NoSource}

(* What each source has certainly written, from the SET it is about to make. *)
KillProgress ==
    \A s \in Sources :
        /\ at[s] \in {"tier", "reason", "acked"} => halted
        /\ at[s] \in {"reason", "acked"} => tier # 0
        /\ at[s] = "acked" => reason # NoSource

KillInv == KillTypes /\ KillProgress /\ HaltComesFirst

(* The keys are absent and no trigger has begun.                            *)
LEMMA KillInitInv == KillInit => KillInv
  <1> SUFFICES ASSUME KillInit PROVE KillInv
    OBVIOUS
  <1>1. KillTypes
    <2>1. at \in [Sources -> KillLabels] /\ reason \in Sources \cup {NoSource}
      BY DEF KillInit, KillLabels
    <2>2. tier \in 0..3
      BY DEF KillInit
    <2>3. redisUp \in BOOLEAN /\ halted \in BOOLEAN
      BY DEF KillInit
    <2> QED BY <2>1, <2>2, <2>3 DEF KillTypes
  <1>2. KillProgress /\ HaltComesFirst
    BY DEF KillInit, KillProgress, HaltComesFirst
  <1> QED BY <1>1, <1>2 DEF KillInv

(* Every SET of trigger(), its failure and every Redis outage keep the      *)
(* inductive invariant.                                                     *)
LEMMA KillStepInv == KillInv /\ [KillNext]_killVars => KillInv'
  <1> SUFFICES ASSUME KillInv, [KillNext]_killVars PROVE KillInv'
    OBVIOUS
  <1> USE KillSwitchAssumption DEF KillInv, KillTypes, KillLabels, KillProgress, HaltComesFirst, Goto
  <1>1. ASSUME NEW s \in Sources, Trigger(s) PROVE KillInv'
    BY <1>1 DEF Trigger
  <1>2. ASSUME NEW s \in Sources, SetHalted(s) PROVE KillInv'
    BY <1>2 DEF SetHalted
  <1>3. ASSUME NEW s \in Sources, SetTier(s) PROVE KillInv'
    BY <1>3 DEF SetTier
  <1>4. ASSUME NEW s \in Sources, SetReason(s) PROVE KillInv'
    BY <1>4 DEF SetReason
  <1>5. ASSUME NEW s \in Sources, SetFails(s) PROVE KillInv'
    BY <1>5 DEF SetFails
  <1>6. CASE RedisToggles
    BY <1>6 DEF RedisToggles
  <1>7. CASE UNCHANGED killVars
    BY <1>7 DEF killVars
  <1> QED BY <1>1, <1>2, <1>3, <1>4, <1>5, <1>6, <1>7 DEF KillNext

(* trigger() halts before it writes the audit keys: they never describe a   *)
(* halt that is not in force, however many sources trigger and fail.        *)
THEOREM HaltFirst == KillSpec => []HaltComesFirst
  <1>1. KillInv => HaltComesFirst
    BY DEF KillInv
  <1> QED BY <1>1, KillInitInv, KillStepInv, PTL DEF KillSpec

(* An acknowledged kill has halted the system and left a tier and a reason, *)
(* and no source's partial record lacks its halt.                           *)
THEOREM AckedRecorded == KillSpec => []AckedKillIsRecorded
  <1>1. KillInv => AckedKillIsRecorded
    BY DEF KillInv, KillProgress, AckedKillIsRecorded
  <1> QED BY <1>1, KillInitInv, KillStepInv, PTL DEF KillSpec
===============================================================================
