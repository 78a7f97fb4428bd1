--------------------------- MODULE SignalPublisher ---------------------------
(***************************************************************************)
(* M11 publication of signals: SignalPublisher.publish of several callers  *)
(* against one Redis, and the script signal_dedup.lua it runs there.       *)
(* The script is one step of Redis; its reply may be lost, in which case   *)
(* publish raises and its caller may publish the same result again.        *)
(***************************************************************************)
EXTENDS Integers, Sequences

CONSTANTS
    Keys,        \* the dedup keys signal:dedup:<symbol>:<direction>
    Window,      \* SIGNAL_DEDUP_WINDOW_SECONDS
    Publishers,  \* processes that publish
    MaxClock,    \* bound: the clock
    MaxStream    \* bound: entries of the stream

ASSUME PublisherAssumption ==
    Window \in Nat \ {0} /\ MaxClock \in Nat /\ MaxStream \in Nat

VARIABLES
    clock,     \* Redis's clock
    haltedKey, \* GET system:status:halted
    expiry,    \* when each dedup key expires, 0 when it was never set
    stream,    \* the stream's entries, oldest first: [key, at]
    sending,   \* the dedup keys each publisher is publishing under: 0 or 1
    reply      \* what publish last returned to each publisher

pubVars == <<clock, haltedKey, expiry, stream, sending, reply>>

Flags == {"none", "true", "false"}

PubInit ==
    /\ clock = 0 /\ haltedKey = "none" /\ expiry = [k \in Keys |-> 0]
    /\ stream = << >>
    /\ sending = [p \in Publishers |-> {}] /\ reply = [p \in Publishers |-> "none"]

(* publish: a result that was not generated is skipped ...                  *)
Skip(p) ==
    /\ sending[p] = {}
    /\ reply' = [reply EXCEPT ![p] = "none"]
    /\ UNCHANGED <<clock, haltedKey, expiry, stream, sending>>

(* ... any other is put in a message and sent to the script.                *)
Publish(p, k) ==
    /\ sending[p] = {}
    /\ sending' = [sending EXCEPT ![p] = {k}]
    /\ UNCHANGED <<clock, haltedKey, expiry, stream, reply>>

(* EXISTS of a key that SET ... EX wrote                                    *)
Exists(k) == clock < expiry[k]

(* Mutant: the key is looked at and the halt flag is not.                   *)
SignalDedupMutant(k) == IF Exists(k) THEN "DUPLICATE" ELSE "PUBLISHED"

(* signal_dedup.lua: its answer                                             *)
SignalDedup(k) ==
    IF haltedKey = "true" THEN "HALTED"
    ELSE IF Exists(k) THEN "DUPLICATE" ELSE "PUBLISHED"

(* The script runs, and its reply reaches the publisher or is lost.         *)
RunScript(p, k) ==
    /\ sending[p] = {k}
    /\ IF SignalDedup(k) = "PUBLISHED"
       THEN /\ Len(stream) < MaxStream
            /\ expiry' = [expiry EXCEPT ![k] = clock + Window]
            /\ stream' = Append(stream, [key |-> k, at |-> clock])
       ELSE UNCHANGED <<expiry, stream>>
    /\ \E lost \in BOOLEAN :
          reply' = [reply EXCEPT ![p] = IF lost THEN "raised" ELSE SignalDedup(k)]
    /\ sending' = [sending EXCEPT ![p] = {}]
    /\ UNCHANGED <<clock, haltedKey>>

(* The request never reaches Redis.                                         *)
RequestLost(p) ==
    /\ sending[p] # {}
    /\ sending' = [sending EXCEPT ![p] = {}]
    /\ reply' = [reply EXCEPT ![p] = "raised"]
    /\ UNCHANGED <<clock, haltedKey, expiry, stream>>

(* The kill switch and the circuit breaker write 'true'; an operator clears *)
(* or resets the key.                                                       *)
FlagWritten(v) ==
    /\ haltedKey' = v
    /\ UNCHANGED <<clock, expiry, stream, sending, reply>>

PubTick ==
    /\ clock < MaxClock
    /\ clock' = clock + 1
    /\ UNCHANGED <<haltedKey, expiry, stream, sending, reply>>

PubNext ==
    \/ \E p \in Publishers : Skip(p) \/ RequestLost(p)
    \/ \E p \in Publishers, k \in Keys : Publish(p, k) \/ RunScript(p, k)
    \/ \E v \in Flags : FlagWritten(v)
    \/ PubTick

PubSpec == PubInit /\ [][PubNext]_pubVars

-----------------------------------------------------------------------------
(* The stream as its readers see it: the flag counts only as 'true'.        *)
Abstract == INSTANCE SignalStream
    WITH now <- clock, stopped <- (haltedKey = "true"), log <- stream

(* Whatever callers interleave, lose replies and publish again, the Redis   *)
(* stream behaves as SignalStream: no entry appears while the halt flag is  *)
(* 'true', and none within the window of an entry with the same key.        *)
ImplementsStream == Abstract!StreamSpec
=============================================================================
