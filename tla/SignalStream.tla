---------------------------- MODULE SignalStream ----------------------------
(***************************************************************************)
(* What the signal stream promises its readers: while the system is not    *)
(* halted a signal may appear, and after it none for the same symbol and   *)
(* direction until Window has passed.  Entries are never taken back.       *)
(***************************************************************************)
EXTENDS Integers, Sequences

CONSTANTS
    Keys,      \* <symbol, direction> pairs
    Window     \* the deduplication window

VARIABLES
    now,      \* the clock
    stopped,  \* the system is halted
    log       \* the signals, oldest first: [key, at]

streamVars == <<now, stopped, log>>

StreamInit == now = 0 /\ stopped = FALSE /\ log = << >>

Quiet(k) == \A i \in DOMAIN log : log[i].key = k => now - log[i].at >= Window

Appear(k) ==
    /\ ~stopped /\ Quiet(k)
    /\ log' = Append(log, [key |-> k, at |-> now])
    /\ UNCHANGED <<now, stopped>>

Pass == now' = now + 1 /\ UNCHANGED <<stopped, log>>

Switch == stopped' = ~stopped /\ UNCHANGED <<now, log>>

StreamNext == (\E k \in Keys : Appear(k)) \/ Pass \/ Switch

StreamSpec == StreamInit /\ [][StreamNext]_streamVars
=============================================================================
