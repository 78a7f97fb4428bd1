------------------------------- MODULE Session -------------------------------
(***************************************************************************)
(* M02 session manager: the trading hours of the two regions, the state    *)
(* machine over them, ASX's staggered opens, the square-off scheduler, and *)
(* the holiday calendar with its cache file and its remote source.         *)
(* Times of day are seconds, days are numbers; day 0 is a Monday.          *)
(***************************************************************************)
EXTENDS Integers, FiniteSets

CONSTANTS
    MaxAgeDays,   \* HOLIDAY_CACHE_MAX_AGE_DAYS
    HolidayDays,  \* days the exchange may announce as holidays
    MaxCalDay     \* bound: the calendar's clock

ASSUME SessionAssumption ==
    MaxAgeDays \in Nat /\ MaxCalDay \in Nat /\ HolidayDays \subseteq Nat

(* _parse_hhmm *)
At(h, m) == 60 * (60 * h + m)

(* The hours of apps/india and apps/australia                               *)
Hours == [INDIA     |-> [pre |-> At(8, 45), open |-> At(9, 15), close |-> At(15, 30),
                         squareOff |-> At(15, 10), snapshot |-> {At(14, 45)}],
          AUSTRALIA |-> [pre |-> At(9, 15), open |-> At(10, 0), close |-> At(16, 0),
                         squareOff |-> At(15, 50), snapshot |-> {}]]

(* SessionStateMachine.get_state at time t of a day                         *)
GetState(r, tradingDay, t) ==
    LET h == Hours[r] IN
    CASE ~tradingDay \/ t < h.pre \/ t >= h.close -> "CLOSED"
      [] OTHER ->
           CASE t < h.open                       -> "PRE_MARKET"
             [] t >= h.squareOff                 -> "APPROACHING_CLOSE"
             [] t >= h.open /\ t < h.squareOff /\ (\E s \in h.snapshot : t >= s)
                                                 -> "SNAPSHOT_WINDOW"
             [] OTHER                            -> "OPEN"

IsSnapshotWindowActive(r, t) == GetState(r, TRUE, t) = "SNAPSHOT_WINDOW"

(* market_hours_only: the states in which a decorated call is made          *)
TRADEABLE_STATES == {"OPEN", "SNAPSHOT_WINDOW"}
MarketHoursOnly(state) == state \in TRADEABLE_STATES

(* SquareOffScheduler.square_off_due                                        *)
SquareOffDue(r, t) == t >= Hours[r].squareOff

(* ASX_TICKER_GROUPS by the number of the symbol's first letter             *)
TickerGroups == {[first |-> 1, last |-> 2, open |-> At(10, 0)],
                 [first |-> 3, last |-> 6, open |-> At(10, 2) + 15],
                 [first |-> 7, last |-> 13, open |-> At(10, 4) + 30],
                 [first |-> 14, last |-> 18, open |-> At(10, 6) + 45],
                 [first |-> 19, last |-> 26, open |-> At(10, 9)]}

(* get_ticker_open_time: none (a ValueError) unless the letter is A to Z    *)
TickerOpenTime(letter) == {g.open : g \in {h \in TickerGroups : letter \in h.first..h.last}}

-----------------------------------------------------------------------------
(* HolidayCalendar                                                          *)

VARIABLES
    calDay,     \* today
    announced,  \* when each announced holiday was announced
    sourceUp,   \* the exchange's calendar can be fetched
    cacheFile,  \* the year's cache file: none, unreadable, or one calendar
    session     \* what get_state last answered, and from which calendar

calVars == <<calDay, announced, sourceUp, cacheFile, session>>

Unreadable == [holidays |-> {}, fetched |-> -1]

CalInit ==
    /\ calDay = 0 /\ announced = [d \in {} |-> 0] /\ sourceUp = TRUE /\ cacheFile = {}
    /\ session = [day |-> 0, open |-> FALSE, fetched |-> 0, late |-> FALSE]

(* fetch_holidays, NSE's and ASX's: the announced days, or an error         *)
NseFetchHolidays == IF sourceUp THEN {DOMAIN announced} ELSE {}
AsxFetchHolidays == IF sourceUp THEN {DOMAIN announced} ELSE {}
FetchHolidays(r) == IF r = "AUSTRALIA" THEN AsxFetchHolidays ELSE NseFetchHolidays

(* _read_cache: a file that cannot be read counts as none.                  *)
ReadCache == cacheFile \ {Unreadable}

(* _write_cache writes the file in place: a crash leaves it unreadable.     *)
WriteCache(holidays) ==
    cacheFile' \in {{[holidays |-> holidays, fetched |-> calDay]}, {Unreadable}}

(* Mutant: a cache of any age is good.                                      *)
FreshMutant(c) == TRUE

(* get_holidays answers with a cache up to MaxAgeDays old.                  *)
Fresh(c) == calDay - c.fetched <= MaxAgeDays

(* is_trading_day, from a calendar                                          *)
IsTradingDay(day, holidays) == day % 7 < 5 /\ day \notin holidays

Answer(c) == session' = [day |-> calDay, open |-> IsTradingDay(calDay, c.holidays),
                         fetched |-> c.fetched, late |-> ~sourceUp]

(* get_state asks is_trading_day, which asks get_holidays on a week day: a  *)
(* fresh cache, else a fetch that is stored, else the old cache, else       *)
(* CalendarUnavailableError.                                                *)
AskState(r) ==
    IF calDay % 7 >= 5
    THEN Answer([holidays |-> {}, fetched |-> calDay]) /\ UNCHANGED cacheFile
    ELSE \/ \E c \in ReadCache : Fresh(c) /\ Answer(c) /\ UNCHANGED cacheFile
         \/ /\ \A c \in ReadCache : ~Fresh(c)
            /\ \/ \E days \in FetchHolidays(r) :
                     /\ WriteCache(days)
                     /\ IF cacheFile' = {Unreadable} THEN UNCHANGED session
                        ELSE Answer([holidays |-> days, fetched |-> calDay])
               \/ /\ FetchHolidays(r) = {}
                  /\ \E c \in ReadCache : Answer(c)
                  /\ UNCHANGED cacheFile
               \/ /\ FetchHolidays(r) = {} /\ ReadCache = {}
                  /\ UNCHANGED <<cacheFile, session>>

GetSessionState ==
    /\ \E r \in DOMAIN Hours : AskState(r)
    /\ UNCHANGED <<calDay, announced, sourceUp>>

Announce(d) ==
    /\ d \notin DOMAIN announced
    /\ announced' = [e \in DOMAIN announced \cup {d} |->
                        IF e = d THEN calDay ELSE announced[e]]
    /\ UNCHANGED <<calDay, sourceUp, cacheFile, session>>

SourceToggles ==
    /\ sourceUp' = ~sourceUp
    /\ UNCHANGED <<calDay, announced, cacheFile, session>>

NextDay ==
    /\ calDay < MaxCalDay
    /\ calDay' = calDay + 1
    /\ UNCHANGED <<announced, sourceUp, cacheFile, session>>

CalNext == GetSessionState \/ (\E d \in HolidayDays : Announce(d)) \/ SourceToggles \/ NextDay

-----------------------------------------------------------------------------
(* A day is answered as a trading day although its holiday had been         *)
(* announced only from a calendar fetched no later than the announcement,   *)
(* and that is at most MaxAgeDays old unless the source could not be asked. *)
HolidayRespected ==
    session.open /\ session.day \in DOMAIN announced =>
        \/ announced[session.day] >= session.fetched
           /\ (session.late \/ session.day - session.fetched <= MaxAgeDays)
        \/ announced[session.day] > session.day
=============================================================================
