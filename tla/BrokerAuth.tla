----------------------------- MODULE BrokerAuth -----------------------------
(***************************************************************************)
(* M15 authentication (shared/auth) and the IBKR stream that uses it:      *)
(* the Kite token in TokenStore, KiteAuthManager, DailyRefreshScheduler    *)
(* with its timer threads, and IBKRConnectionPool with the stream adapters *)
(* that take its slots.  The token half and the pool half share nothing.   *)
(***************************************************************************)
EXTENDS Integers, FiniteSets, FiniteSetsExt

CONSTANTS
    Ttl,        \* KITE_SESSION_TTL_SECONDS, in clock units
    Day,        \* clock units in a day; the refresh is due at multiples of it
    MaxAuthClock, \* bound: the clock
    MaxTimers,  \* bound: timers made
    PoolSize,   \* slots of the pool
    Adapters    \* IBKRStreamAdapter objects

ASSUME AuthAssumption ==
    /\ {Ttl, Day, PoolSize} \subseteq Nat \ {0}
    /\ MaxAuthClock \in Nat /\ MaxTimers \in Nat

VARIABLES
    authMode,    \* AuthMode of the manager, chosen once
    authClock,   \* the clock
    store,       \* TokenStore's backing: "memory", or Redis "up" or "down"
    token,       \* the stored record's expires_at, 0 for none
    answer,      \* what get_token last returned, and when
    schedOn,     \* DailyRefreshScheduler._running
    handle,      \* _timer, 0 for None
    made,        \* timers made so far
    due,         \* when each armed timer fires
    firing,      \* timers whose _fire is in its callback
    inUse,       \* IBKRClientSlot.in_use, by slot
    connection,  \* IBKRClientSlot.connection set, by slot
    held,        \* IBKRStreamAdapter._slot, by adapter, 0 for None
    linked,      \* IBKRStreamAdapter._connected, by adapter
    joining,     \* the slot an adapter has acquired and is connecting
    poolDown     \* ghost: shutdown() was called

tokenVars == <<authMode, authClock, store, token, answer, schedOn, handle, made, due, firing>>
poolVars  == <<inUse, connection, held, linked, joining, poolDown>>
authVars  == <<tokenVars, poolVars>>

Slots == 1..PoolSize
Armed == DOMAIN due

AuthInit ==
    /\ authMode \in {"PAPER", "LIVE"} /\ authClock = 1 /\ store \in {"memory", "up"}
    /\ token = 0 /\ answer = [expires |-> 1, at |-> 0]
    /\ schedOn = FALSE /\ handle = 0 /\ made = 0 /\ due = [t \in {} |-> 0] /\ firing = {}
    /\ inUse = [s \in Slots |-> FALSE] /\ connection = [s \in Slots |-> FALSE]
    /\ held = [a \in Adapters |-> 0] /\ linked = [a \in Adapters |-> FALSE]
    /\ joining = [a \in Adapters |-> 0] /\ poolDown = FALSE

-----------------------------------------------------------------------------
(* KiteAuthManager and TokenStore                                           *)

schedVars == <<schedOn, handle, made, due, firing>>

(* TokenRecord.is_valid *)
IsValid(expires) == authClock < expires

(* login, paper or live: a new record is saved.  A live login may fail      *)
(* before that (AuthError), a Redis SET may raise after it: no token then.  *)
Login(expires) ==
    /\ store # "down"
    /\ expires = authClock + Ttl
    /\ token' = expires
LoginFails == (authMode = "LIVE" \/ store = "down") /\ UNCHANGED token

(* TokenStore.load, from a store that answers: an expired record counts as  *)
(* none (and is deleted).                                                   *)
Load == IF IsValid(token) THEN token ELSE 0

(* get_token: the stored record, or a login                                 *)
GetToken ==
    /\ store # "down"
    /\ IF Load # 0 THEN answer' = [expires |-> Load, at |-> authClock] /\ UNCHANGED token
       ELSE \/ \E e \in {authClock + Ttl} :
                  Login(e) /\ answer' = [expires |-> e, at |-> authClock]
            \/ authMode = "LIVE" /\ token' = 0 /\ UNCHANGED answer
    /\ UNCHANGED <<authMode, authClock, store, schedVars, poolVars>>

(* invalidate *)
Invalidate ==
    /\ store # "down" /\ token # 0
    /\ token' = 0
    /\ UNCHANGED <<authMode, authClock, store, answer, schedVars, poolVars>>

-----------------------------------------------------------------------------
(* DailyRefreshScheduler                                                    *)

Drop(f, t) == [u \in DOMAIN f \ {t} |-> f[u]]

(* _seconds_until: the next refresh time strictly after now                 *)
NextRefresh == ((authClock \div Day) + 1) * Day

(* _schedule_next: a timer, unless the scheduler was stopped                *)
ScheduleNext(running, armed) ==
    IF running
    THEN /\ made' = made + 1 /\ handle' = made + 1
         /\ due' = [t \in DOMAIN armed \cup {made + 1} |->
                       IF t = made + 1 THEN NextRefresh ELSE armed[t]]
    ELSE due' = armed /\ UNCHANGED <<made, handle>>

SchedStart ==
    /\ ~schedOn /\ made < MaxTimers
    /\ schedOn' = TRUE
    /\ ScheduleNext(TRUE, due)
    /\ UNCHANGED <<authMode, authClock, store, token, answer, firing, poolVars>>

(* stop cancels the timer it knows of.                                      *)
SchedStop ==
    /\ schedOn
    /\ schedOn' = FALSE /\ handle' = 0
    /\ due' = Drop(due, handle)
    /\ UNCHANGED <<authMode, authClock, store, token, answer, made, firing, poolVars>>

(* A timer is due: _fire runs, whether or not the scheduler still does.     *)
Fire(t) ==
    /\ t \in Armed /\ authClock >= due[t]
    /\ firing' = firing \cup {t} /\ due' = Drop(due, t)
    /\ UNCHANGED <<authMode, authClock, store, token, answer, schedOn, handle, made, poolVars>>

(* Mutant: rescheduling only after a callback that did not raise.           *)
FiredMutant(t) ==
    /\ t \in firing /\ (schedOn => made < MaxTimers)
    /\ firing' = firing \ {t}
    /\ \/ Login(authClock + Ttl) /\ ScheduleNext(schedOn, due)
       \/ LoginFails /\ UNCHANGED <<made, handle, due>>
    /\ UNCHANGED <<authMode, authClock, store, answer, schedOn, poolVars>>

(* The callback (a login) returns or raises, and _fire reschedules.         *)
Fired(t) ==
    /\ t \in firing /\ (schedOn => made < MaxTimers)
    /\ firing' = firing \ {t}
    /\ Login(authClock + Ttl) \/ LoginFails
    /\ ScheduleNext(schedOn, due)
    /\ UNCHANGED <<authMode, authClock, store, answer, schedOn, poolVars>>

AuthTick ==
    /\ authClock < MaxAuthClock
    /\ authClock' = authClock + 1
    /\ UNCHANGED <<authMode, store, token, answer, schedVars, poolVars>>

StoreToggles ==
    /\ store # "memory"
    /\ store' = IF store = "up" THEN "down" ELSE "up"
    /\ UNCHANGED <<authMode, authClock, token, answer, schedVars, poolVars>>

TokenNext ==
    \/ GetToken \/ Invalidate \/ SchedStart \/ SchedStop
    \/ \E t \in 1..made : Fire(t) \/ Fired(t)
    \/ AuthTick \/ StoreToggles

-----------------------------------------------------------------------------
(* IBKRConnectionPool and IBKRStreamAdapter                                 *)

Free == {s \in Slots : ~inUse[s]}

(* available_count, for callers that ask                                    *)
AvailableCount == Cardinality(Free)

(* connect: acquire() takes the first free slot; AuthError, which the       *)
(* adapter swallows, when there is none.                                    *)
Acquire(a) ==
    /\ joining[a] = 0 /\ AvailableCount > 0
    /\ joining' = [joining EXCEPT ![a] = Min(Free)]
    /\ inUse' = [inUse EXCEPT ![Min(Free)] = TRUE]
    /\ UNCHANGED <<connection, held, linked, poolDown, tokenVars>>

(* The pool connects the client: the adapter keeps the slot ...             *)
ConnectOk(a) ==
    /\ joining[a] # 0
    /\ connection' = [connection EXCEPT ![joining[a]] = TRUE]
    /\ held' = [held EXCEPT ![a] = joining[a]] /\ linked' = [linked EXCEPT ![a] = TRUE]
    /\ joining' = [joining EXCEPT ![a] = 0]
    /\ UNCHANGED <<inUse, poolDown, tokenVars>>

(* ... or times out, and the slot is released ...                           *)
ConnectTimeout(a) ==
    /\ joining[a] # 0
    /\ inUse' = [inUse EXCEPT ![joining[a]] = FALSE]
    /\ joining' = [joining EXCEPT ![a] = 0]
    /\ UNCHANGED <<connection, held, linked, poolDown, tokenVars>>

(* ... or raises: the adapter swallows it and the slot stays taken.         *)
ConnectRaises(a) ==
    /\ joining[a] # 0
    /\ joining' = [joining EXCEPT ![a] = 0]
    /\ UNCHANGED <<inUse, connection, held, linked, poolDown, tokenVars>>

(* Mutant: _slot is not cleared, so a second disconnect releases it again.  *)
DisconnectMutant(a) ==
    /\ held[a] # 0
    /\ linked' = [linked EXCEPT ![a] = FALSE]
    /\ inUse' = [inUse EXCEPT ![held[a]] = FALSE]
    /\ UNCHANGED <<connection, held, joining, poolDown, tokenVars>>

(* disconnect: the slot is given back with its connection still open.       *)
Disconnect(a) ==
    /\ held[a] # 0
    /\ held' = [held EXCEPT ![a] = 0] /\ linked' = [linked EXCEPT ![a] = FALSE]
    /\ inUse' = [inUse EXCEPT ![held[a]] = FALSE]
    /\ UNCHANGED <<connection, joining, poolDown, tokenVars>>

(* shutdown: every connection is closed and every slot freed, held or not.  *)
Shutdown ==
    /\ ~poolDown /\ poolDown' = TRUE
    /\ connection' = [s \in Slots |-> FALSE] /\ inUse' = [s \in Slots |-> FALSE]
    /\ UNCHANGED <<held, linked, joining, tokenVars>>

PoolNext ==
    \/ \E a \in Adapters :
          Acquire(a) \/ ConnectOk(a) \/ ConnectTimeout(a) \/ ConnectRaises(a) \/ Disconnect(a)
    \/ Shutdown

-----------------------------------------------------------------------------
(* A scheduler that runs has a timer armed or firing, so the next refresh   *)
(* comes, through failed logins, stops and starts while a timer fires; and  *)
(* get_token never answers with a record that had expired.                  *)
RefreshAssured ==
    /\ schedOn => Armed \cup firing # {}
    /\ answer.at < answer.expires

(* Until shutdown() two adapters never share a client id, whatever order of *)
(* connects, time-outs, exceptions and disconnects they go through, and a   *)
(* slot in some adapter's hands is marked in use.                           *)
SlotExclusive ==
    ~poolDown => \A a \in Adapters :
        LET mine == {held[a], joining[a]} \ {0} IN
        /\ \A s \in mine : inUse[s]
        /\ \A b \in Adapters \ {a} : mine \cap {held[b], joining[b]} = {}
=============================================================================
