------------------------------ MODULE Sentiment ------------------------------
(***************************************************************************)
(* M10 sentiment (shared/sentiment): one SentimentAgent per exchange,      *)
(* fetching headlines, looking each one up in the semantic cache, scoring  *)
(* the rest with a language model in batches, recording the cost and       *)
(* filling the cache.  The agents share the cache list and the daily cost  *)
(* key in Redis; every Redis call of a run may raise, which ends the run.  *)
(*                                                                         *)
(* A headline is a model value.  A score is the headline the model judged  *)
(* when it gave it (score, label and confidence are functions of it), or   *)
(* the neutral fallback.  Embeddings are the relation Similarity.          *)
(***************************************************************************)
EXTENDS Selection, Integers, FiniteSets, Sequences, SequencesExt

CONSTANTS
    Exchanges,     \* the exchanges, one agent each
    Headlines,     \* texts
    Blank,         \* a title that strips to nothing
    Neutral,       \* the fallback score: 0.0, NEUTRAL, confidence 0.0
    Mood,          \* the score the model gives a text, bullish 1 or bearish -1
    Similarity,    \* cosine similarity of two texts, in hundredths
    FeedDays,      \* what the feeds may hold: per exchange a sequence of feeds,
                   \*   each a sequence of entries [text, age in hours]
    BatchMax,      \* SENTIMENT_BATCH_MAX_HEADLINES
    RunMax,        \* SENTIMENT_MAX_HEADLINES_PER_RUN
    MaxAgeHours,   \* SENTIMENT_MAX_FEED_AGE_HOURS
    Threshold,     \* GPTCACHE_SIMILARITY_THRESHOLD, in hundredths
    CallTokens,    \* tokens one completed language-model call costs
    MaxRuns,       \* bound: runs started
    MaxClock,      \* bound: the clock
    DayTicks       \* ticks of the clock in a day

ASSUME SentimentAssumption ==
    /\ Blank \notin Headlines /\ Neutral \notin Headlines
    /\ "None" \notin Headlines \cup {Neutral}
    /\ \A x \in Exchanges : \A feeds \in FeedDays[x] :
          feeds \in Seq(Seq([text : Headlines \cup {Blank}, age : Int]))
    /\ Mood \in [Headlines -> {-1, 1}]
    /\ Similarity \in [Headlines -> [Headlines -> 0..100]]
    /\ \A h \in Headlines : Similarity[h][h] = 100
    /\ {BatchMax, RunMax, MaxAgeHours, CallTokens, DayTicks} \subseteq Nat \ {0}
    /\ Threshold \in 1..100
    /\ MaxRuns \in Nat /\ MaxClock \in Nat

VARIABLES
    cached,      \* the Redis list sentiment:cache:<model>: entries [text, score]
    dailyCost,   \* sentiment:cost:daily:<date>, by day
    session,     \* CostTracker._session_total, by agent
    srun,        \* the run of each agent
    report,      \* the last MarketSentiment each agent returned
    started,     \* runs started
    clock,       \* the wall clock
    newsRedis    \* the client: "none", "up" or "down"

newsVars == <<cached, dailyCost, session, srun, report, started, clock, newsRedis>>

Days  == 0..(MaxClock \div DayTicks)
Today == clock \div DayTicks

Pending == "None"
NoRunS  == [pc |-> "idle", custom |-> FALSE, headlines |-> <<>>, scores |-> <<>>,
            asked |-> 0, new |-> <<>>, tokens |-> 0]
(* MarketSentiment.empty *)
NoReport == [headlines |-> <<>>, scores |-> <<>>, aggregate |-> [sum |-> 0, weight |-> 0],
             indicators |-> {}]

NewsInit ==
    /\ cached = <<>> /\ dailyCost = [d \in Days |-> 0]
    /\ session = [x \in Exchanges |-> 0]
    /\ srun = [x \in Exchanges |-> NoRunS]
    /\ report = [x \in Exchanges |-> NoReport]
    /\ started = 0 /\ clock = 0
    /\ newsRedis \in {"none", "up"}

Indices(s) == 1..Len(s)

-----------------------------------------------------------------------------
(* feeds.py                                                                 *)

(* _parse_entry_time, and the fetch time for an undated entry; an unreachable *)
(* feed (_fetch_feed_raw) parses as a feed without entries.                 *)
Undated == -1
PublishedAge(entry) == IF entry.age = Undated THEN 0 ELSE entry.age

(* fetch_rss_headlines: blank titles and old entries are dropped; the       *)
(* positions of the others.                                                 *)
FetchRss(entries) ==
    {i \in Indices(entries) :
        entries[i].text # Blank /\ PublishedAge(entries[i]) <= MaxAgeHours}

(* Newest first; of the same age, the entry d = <<feed, position>> that was *)
(* fetched before the entry e                                               *)
Newer(feeds, d, e) ==
    LET age(x) == PublishedAge(feeds[x[1]][x[2]])
    IN  \/ age(d) < age(e)
        \/ age(d) = age(e) /\ (d[1] < e[1] \/ (d[1] = e[1] /\ d[2] < e[2]))

(* fetch_all_feeds: newest first, the first of equal texts, at most RunMax. *)
FetchAllFeeds(feeds) ==
    LET all     == UNION {{f} \X FetchRss(feeds[f]) : f \in Indices(feeds)}
        text(e) == feeds[e[1]][e[2]].text
        unique  == {e \in all : \A d \in all : Newer(feeds, d, e) => text(d) # text(e)}
        sorted  == InOrder(unique, {p \in unique \X unique : Newer(feeds, p[1], p[2])})
    IN  [n \in 1..Min({RunMax, Cardinality(unique)}) |-> text(sorted[n])]

-----------------------------------------------------------------------------
(* cache.py                                                                 *)

(* SentimentCache.get: the first entry of highest similarity, if that       *)
(* reaches the threshold; Pending stands for None.                          *)
CacheGet(text) ==
    LET sim(i) == Similarity[text][cached[i].text]
        best   == {i \in Indices(cached) : \A j \in Indices(cached) : sim(j) <= sim(i)}
    IN  IF best # {} /\ sim(Min(best)) >= Threshold THEN cached[Min(best)].score
        ELSE Pending

(* SentimentCache.put: the score under the text it was asked for.           *)
CachePut(text, score) == Append(cached, [text |-> text, score |-> score])

-----------------------------------------------------------------------------
(* scorer.py                                                                *)

(* The contents a completed call may return: not a list of results, or      *)
(* results for some number of headlines, each usable or not.                *)
Contents(n) == {<<>>} \cup UNION {[1..k -> {"ok", "malformed"}] : k \in {n - 1, n, n + 1} \ {0}}

(* Mutant: a short answer is not filled up.                                 *)
ParseLlmResponseMutant(content, batch) ==
    [i \in 1..Min({Len(content), Len(batch)}) |->
        IF content[i] = "ok" THEN batch[i] ELSE Neutral]

(* _parse_llm_response: cut to the batch, malformed items neutral, filled   *)
(* up with neutral scores.                                                  *)
ParseLlmResponse(content, batch) ==
    [i \in Indices(batch) |->
        IF i <= Len(content) /\ content[i] = "ok" THEN batch[i] ELSE Neutral]

(* _call_llm: scores and tokens; an exception costs nothing.                *)
CallLlm(batch) ==
    {[scores |-> [i \in Indices(batch) |-> Neutral], tokens |-> 0]}
    \cup {[scores |-> ParseLlmResponse(c, batch), tokens |-> CallTokens] :
             c \in Contents(Len(batch))}

(* The batch that begins after the first texts                              *)
Batch(texts, first) == SubSeq(texts, first + 1, Min({first + BatchMax, Len(texts)}))

-----------------------------------------------------------------------------
(* market_indicators.py: what the NSE pages may give, by request.           *)

(* _get_nse_cookie and _fetch_nse_json: an error is the answer None.        *)
NsePages == [indices : {"none", "no vix", "vix"}, chain : {"none", "open interest"},
             fii : {"none", "one side", "both"}]

(* fetch_india_vix, and _fetch_put_call_ratio, only asked for beside a VIX  *)
FetchIndiaVix(pages) ==
    IF pages.indices # "vix" THEN {}
    ELSE {"vix"} \cup IF pages.chain = "none" THEN {} ELSE {"pcr"}

(* fetch_fii_dii: both nets or nothing.                                     *)
FetchFiiDii(pages) == IF pages.fii = "both" THEN {"fii_dii"} ELSE {}

Indicators(exchange, pages) ==
    IF exchange = "NSE" THEN FetchIndiaVix(pages) \cup FetchFiiDii(pages) ELSE {}

-----------------------------------------------------------------------------
(* SentimentAgent.run                                                       *)

newsOthers == <<cached, dailyCost, session, clock, newsRedis>>
Running(x, pc) == srun[x].pc = pc

(* The run ends with the exception of a Redis call.                         *)
Abort(x) == srun' = [srun EXCEPT ![x] = NoRunS] /\ UNCHANGED report

(* A run on some headlines; without a cache all of them are to be scored.   *)
NewRun(custom, headlines) ==
    [pc |-> IF newsRedis = "none" THEN "score" ELSE "lookup",
     custom |-> custom, headlines |-> headlines,
     scores |-> IF newsRedis = "none" THEN [i \in Indices(headlines) |-> Pending] ELSE <<>>,
     asked |-> 0, new |-> <<>>, tokens |-> 0]

(* Headlines are fetched; without any the run returns MarketSentiment.empty. *)
BeginRun(x) ==
    /\ Running(x, "idle") /\ started < MaxRuns
    /\ started' = started + 1
    /\ \E feeds \in FeedDays[x] :
          LET headlines == FetchAllFeeds(feeds) IN
          IF headlines = <<>>
          THEN report' = [report EXCEPT ![x] = NoReport] /\ UNCHANGED srun
          ELSE srun' = [srun EXCEPT ![x] = NewRun(FALSE, headlines)] /\ UNCHANGED report
    /\ UNCHANGED newsOthers

(* One turn of the loop over the headlines: a hit or a placeholder.         *)
Lookup(x) ==
    /\ Running(x, "lookup")
    /\ IF newsRedis = "down" THEN Abort(x)
       ELSE LET r      == srun[x]
                scores == Append(r.scores, CacheGet(r.headlines[Len(r.scores) + 1]))
            IN  /\ srun' = [srun EXCEPT ![x].scores = scores,
                      ![x].pc = IF Len(scores) = Len(r.headlines) THEN "score" ELSE @]
                /\ UNCHANGED report
    /\ UNCHANGED <<started, newsOthers>>

(* to_score_indices *)
Missing(r) == {i \in Indices(r.headlines) : r.scores[i] = Pending}
MissingTexts(r) == Kept(r.headlines, Missing(r))

(* score_headlines_batch, for the texts the cache did not have: one turn of *)
(* its loop asks the language model for a batch and appends the scores.     *)
Score(x) ==
    /\ Running(x, "score")
    /\ LET r     == srun[x]
           texts == MissingTexts(r)
       IN  IF Missing(r) = {} THEN srun' = [srun EXCEPT ![x].pc = "finish"]
           ELSE \E answer \in CallLlm(Batch(texts, r.asked)) :
                   srun' = [srun EXCEPT ![x].new = @ \o answer.scores,
                                        ![x].tokens = @ + answer.tokens,
                                        ![x].asked = @ + BatchMax,
                                        ![x].pc = IF r.asked + BatchMax < Len(texts) THEN "score"
                                                  ELSE "record"]
    /\ UNCHANGED <<report, started, newsOthers>>

(* CostTracker.record: the session total first, then INCRBYFLOAT, EXPIRE    *)
(* and the GET of the daily total, any of which may raise.                  *)
Record(x) ==
    /\ Running(x, "record")
    /\ session' = [session EXCEPT ![x] = @ + srun[x].tokens]
    /\ \/ /\ newsRedis # "down"
          /\ dailyCost' = IF newsRedis = "none" THEN dailyCost
                          ELSE [dailyCost EXCEPT ![Today] = @ + srun[x].tokens]
          /\ srun' = [srun EXCEPT ![x].pc = "put"]
          /\ UNCHANGED report
       \/ newsRedis = "down" /\ UNCHANGED dailyCost /\ Abort(x)
       \/ /\ newsRedis = "up"
          /\ dailyCost' = [dailyCost EXCEPT ![Today] = @ + srun[x].tokens]
          /\ Abort(x)
    /\ UNCHANGED <<cached, clock, newsRedis, started>>

(* One turn of the zip over to_score_indices and new_scores: the score is   *)
(* placed and cached.                                                       *)
PutScore(x) ==
    /\ Running(x, "put")
    /\ LET r    == srun[x]
           i    == Min(Missing(r))
           done == Missing(r) = {} \/ r.new = <<>>
       IN  IF done
           THEN srun' = [srun EXCEPT ![x].pc = "finish"] /\ UNCHANGED <<cached, report>>
           ELSE IF newsRedis = "down" THEN Abort(x) /\ UNCHANGED cached
           ELSE /\ srun' = [srun EXCEPT ![x].scores[i] = Head(r.new), ![x].new = Tail(@)]
                /\ cached' = IF newsRedis = "none" THEN cached
                             ELSE CachePut(r.headlines[i], Head(r.new))
                /\ UNCHANGED report
    /\ UNCHANGED <<dailyCost, session, clock, newsRedis, started>>

(* _compute_aggregate_score, as numerator and denominator; the confidence   *)
(* of a scored headline is one, that of the fallback zero.                  *)
AggregateScore(scores) ==
    LET confident == SelectSeq(scores, LAMBDA s : s # Neutral)
    IN  [sum |-> FoldSeq(LAMBDA s, t : t + Mood[s], 0, confident), weight |-> Len(confident)]

(* Placeholders are dropped, the indicators fetched unless the headlines    *)
(* were a caller's, the report returned.                                    *)
Finish(x) ==
    /\ Running(x, "finish")
    /\ \E pages \in NsePages :
          LET r     == srun[x]
              final == Kept(r.scores, {i \in Indices(r.scores) : r.scores[i] # Pending})
          IN  report' = [report EXCEPT ![x] =
                  [headlines |-> r.headlines, scores |-> final,
                   aggregate |-> AggregateScore(final),
                   indicators |-> IF r.custom THEN {} ELSE Indicators(x, pages)]]
    /\ srun' = [srun EXCEPT ![x] = NoRunS]
    /\ UNCHANGED <<started, newsOthers>>

(* SentimentCache.clear, and the list's expiry                              *)
CacheClear ==
    /\ newsRedis = "up" /\ cached # <<>>
    /\ cached' = <<>>
    /\ UNCHANGED <<dailyCost, session, srun, report, started, clock, newsRedis>>

(* CostTracker.reset_daily *)
ResetDaily(x) ==
    /\ newsRedis = "up" /\ session[x] > 0
    /\ session' = [session EXCEPT ![x] = 0]
    /\ dailyCost' = [dailyCost EXCEPT ![Today] = 0]
    /\ UNCHANGED <<cached, srun, report, started, clock, newsRedis>>

(* Redis becomes unreachable and reachable again.                           *)
NewsRedisToggles ==
    /\ newsRedis # "none"
    /\ newsRedis' = IF newsRedis = "up" THEN "down" ELSE "up"
    /\ UNCHANGED <<cached, dailyCost, session, srun, report, started, clock>>

NewsStep(x) == Lookup(x) \/ Score(x) \/ Record(x) \/ PutScore(x) \/ Finish(x)

NewsNext ==
    \/ \E x \in Exchanges : BeginRun(x) \/ NewsStep(x) \/ ResetDaily(x)
    \/ CacheClear \/ NewsRedisToggles

-----------------------------------------------------------------------------
(* "One SentimentScore per headline (same order)": whatever mix of cache    *)
(* hits, batches, short or malformed answers a run met, and whatever the    *)
(* other agent put into the cache meanwhile, the report has a score for     *)
(* every headline, and the score at a position was given for that headline  *)
(* or for one the cache holds similar to it, or is the neutral fallback.    *)
ScoresAlign ==
    \A x \in Exchanges :
        LET r == report[x] IN
        /\ Len(r.scores) = Len(r.headlines)
        /\ \A i \in Indices(r.scores) :
              r.scores[i] = Neutral \/ Similarity[r.headlines[i]][r.scores[i]] >= Threshold
=============================================================================
