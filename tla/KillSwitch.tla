----------------------------- MODULE KillSwitch -----------------------------
(***************************************************************************)
(* M13 KillSwitchManager.trigger (shared/compliance/kill_switch.py) as it  *)
(* runs in several threads and processes at once: Tier 1 from the risk     *)
(* path, Tier 2 from POST /controls/kill, Tier 3 from the monitor.  The    *)
(* three Redis keys are written by three SETs, each of which may fail; the *)
(* exception ends the trigger, and the caller may try again.               *)
(***************************************************************************)
EXTENDS Integers

CONSTANTS
    Sources,    \* callers of trigger(), each with its own reason text
    Tier,       \* the tier each of them triggers
    NoSource

ASSUME KillSwitchAssumption ==
    /\ Tier \in [Sources -> 1..3]
    /\ NoSource \notin Sources

VARIABLES
    at,       \* the SET each source is about to make, or how its call ended
    redisUp,
    halted,   \* system:status:halted
    tier,     \* system:kill_switch:tier, 0 when absent
    reason    \* system:kill_switch:reason, named by its source

killVars == <<at, redisUp, halted, tier, reason>>

KillInit ==
    /\ at = [s \in Sources |-> "idle"]
    /\ redisUp = TRUE
    /\ halted = FALSE /\ tier = 0 /\ reason = NoSource

Goto(s, label) == at' = [at EXCEPT ![s] = label]

(* trigger_tier1, trigger_tier2, trigger_tier3; again after a failure.      *)
Trigger(s) ==
    /\ at[s] \in {"idle", "failed"}
    /\ Goto(s, "halt")
    /\ UNCHANGED <<redisUp, halted, tier, reason>>

SetHalted(s) ==
    /\ at[s] = "halt" /\ redisUp
    /\ halted' = TRUE
    /\ Goto(s, "tier")
    /\ UNCHANGED <<redisUp, tier, reason>>

SetTier(s) ==
    /\ at[s] = "tier" /\ redisUp
    /\ tier' = Tier[s]
    /\ Goto(s, "reason")
    /\ UNCHANGED <<redisUp, halted, reason>>

SetReason(s) ==
    /\ at[s] = "reason" /\ redisUp
    /\ reason' = s
    /\ Goto(s, "acked")
    /\ UNCHANGED <<redisUp, halted, tier>>

(* Mutant: the failure is swallowed and the kill acknowledged.              *)
SetFailsMutant(s) ==
    /\ at[s] \in {"halt", "tier", "reason"} /\ ~redisUp
    /\ Goto(s, "acked")
    /\ UNCHANGED <<redisUp, halted, tier, reason>>

(* A SET raises out of trigger(); the API answers success = False.          *)
SetFails(s) ==
    /\ at[s] \in {"halt", "tier", "reason"} /\ ~redisUp
    /\ Goto(s, "failed")
    /\ UNCHANGED <<redisUp, halted, tier, reason>>

RedisToggles ==
    /\ redisUp' = ~redisUp
    /\ UNCHANGED <<at, halted, tier, reason>>

KillNext ==
    \/ \E s \in Sources :
        Trigger(s) \/ SetHalted(s) \/ SetTier(s) \/ SetReason(s) \/ SetFails(s)
    \/ RedisToggles

KillSpec == KillInit /\ [][KillNext]_killVars

-----------------------------------------------------------------------------
(* The audit keys never describe a halt that is not in force, at whichever  *)
(* SET of whichever source Redis fails: trigger() halts first.              *)
HaltComesFirst == (tier # 0 \/ reason # NoSource) => halted

(* A kill that was acknowledged to its caller has halted the system and     *)
(* left a complete audit record, whatever other triggers do meanwhile, and  *)
(* a record left by one that failed half way never lacks its halt.          *)
AckedKillIsRecorded ==
    /\ HaltComesFirst
    /\ (\E s \in Sources : at[s] = "acked") => halted /\ tier # 0 /\ reason # NoSource
=============================================================================
