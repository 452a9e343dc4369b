----------------------------- MODULE PolicyEngine -----------------------------
(***************************************************************************)
(* The rule evaluation of backend/domain/policies/engine.py on the rules   *)
(* of domain/entities/rule.py: which policy, if any, a snapshot of a port  *)
(* triggers.  Risk and traffic are compared with a threshold only, so a    *)
(* few levels stand for them.                                              *)
(***************************************************************************)
EXTENDS Naturals, Integers, Sequences, SequencesExt, FiniteSetsExt

CONSTANTS
    Ports,        \* port numbers
    Apps,         \* names of applications
    Snapshots,    \* what a snapshot shows: [risk, rate, app]
    Rules,        \* the policies that may be added
    Cooldown,     \* _cooldown (60 s), in ticks
    MaxPolicies,  \* bound on the number of policies registered
    MaxSteps      \* bound on the backward steps of the wall clock

Actions == {"block", "request_approval", "notify"}

AnyApp == "any"

PolicyRule == [id : STRING, enabled : BOOLEAN, minRisk : Nat, minRate : Nat,
               target : Apps \cup {AnyApp}, exclude : SUBSET Apps, action : Actions]

ASSUME PolicyAssumption ==
    /\ Snapshots \subseteq [risk : Nat, rate : Nat, app : Apps]
    /\ \A r \in Rules : /\ DOMAIN r = {"id", "enabled", "minRisk", "minRate",
                                       "target", "exclude", "action"}
                        /\ r.enabled \in BOOLEAN
                        /\ {r.minRisk, r.minRate} \subseteq Nat
                        /\ r.target \in Apps \cup {AnyApp}
                        /\ r.exclude \subseteq Apps
                        /\ r.action \in Actions
    /\ AnyApp \notin Apps
    /\ Cooldown \in Nat \ {0}
    /\ MaxPolicies \in Nat
    /\ MaxSteps \in Nat

VARIABLES
    policies,      \* the registered policies, in their order
    sinceTrigger,  \* the time since _last_trigger, per policy id and port,
                   \* saturated where no backward step of the clock brings it
                   \* below the cooldown again; negative after such a step
    steps          \* history: the backward steps of the clock so far

engineVars == <<policies, sinceTrigger, steps>>

Ids == {r.id : r \in Rules}

Keys == Ids \X Ports

LongAgo == Cooldown + MaxSteps

EngineInit ==
    /\ policies = <<>>
    /\ sinceTrigger = [k \in Keys |-> LongAgo]
    /\ steps = 0

-----------------------------------------------------------------------------
(* PolicyRule.                                                             *)

MatchesRisk(r, s) == s.risk >= r.minRisk

MatchesTraffic(r, s) == s.rate >= r.minRate

MatchesApp(r, s) == s.app \notin r.exclude /\ r.target \in {AnyApp, s.app}

Matches(r, s) ==
    r.enabled /\ MatchesRisk(r, s) /\ MatchesTraffic(r, s) /\ MatchesApp(r, s)

-----------------------------------------------------------------------------
(* PolicyEngine.                                                           *)

Muted(r, p) == sinceTrigger[<<r.id, p>>] < Cooldown

(* Mutant of Triggered: a policy in its cooldown ends the evaluation. *)
TriggeredUnlessMuted(p, s) ==
    LET matching == {i \in DOMAIN policies : Matches(policies[i], s)}
    IN  IF matching = {} \/ Muted(policies[Min(matching)], p) THEN {}
        ELSE {policies[Min(matching)]}

(* evaluate: the first policy that matches and is not in its cooldown for  *)
(* this port, as a set of at most one.                                     *)
Triggered(p, s) ==
    LET ready == {i \in DOMAIN policies : Matches(policies[i], s) /\ ~Muted(policies[i], p)}
    IN  IF ready = {} THEN {} ELSE {policies[Min(ready)]}

(* Mutant of StartCooldown: the end of the cooldown is noted, not its start. *)
StartCooldownAtEnd(triggered) ==
    sinceTrigger' = [k \in Keys |->
        IF \E r \in triggered[k[2]] : r.id = k[1] THEN -Cooldown ELSE sinceTrigger[k]]

(* The cooldown starts before the action is taken. *)
StartCooldown(triggered) ==
    sinceTrigger' = [k \in Keys |->
        IF \E r \in triggered[k[2]] : r.id = k[1] THEN 0 ELSE sinceTrigger[k]]

(* add_policy asks for nothing, not for a new id either. *)
AddPolicy(r) ==
    /\ Len(policies) < MaxPolicies
    /\ policies' = Append(policies, r)
    /\ UNCHANGED <<sinceTrigger, steps>>

(* The policies of s without those with the id, in their order. *)
Without(s, id) ==
    LET kept[n \in 0 .. Len(s)] ==
            IF n = 0 THEN <<>>
            ELSE IF s[n].id = id THEN kept[n - 1]
            ELSE Append(kept[n - 1], s[n])
    IN  kept[Len(s)]

(* remove_policy: all policies with the id go, their cooldown stays. *)
RemovePolicy(id) ==
    /\ \E i \in DOMAIN policies : policies[i].id = id
    /\ policies' = Without(policies, id)
    /\ UNCHANGED <<sinceTrigger, steps>>

(* time.time() goes on, or is set back. *)
ClockTicks ==
    /\ sinceTrigger' = [k \in Keys |-> Min({sinceTrigger[k] + 1, LongAgo})]
    /\ UNCHANGED <<policies, steps>>

ClockStepsBack ==
    /\ steps < MaxSteps
    /\ steps' = steps + 1
    /\ sinceTrigger' = [k \in Keys |->
           IF sinceTrigger[k] = LongAgo THEN LongAgo ELSE sinceTrigger[k] - 1]
    /\ UNCHANGED policies

EngineTypeOK ==
    /\ policies \in Seq(Rules)
    /\ Len(policies) <= MaxPolicies
    /\ sinceTrigger \in [Keys -> -MaxSteps .. LongAgo]
    /\ steps \in 0 .. MaxSteps
=============================================================================
