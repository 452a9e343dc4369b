---------------------------- MODULE PolicyResponse ----------------------------
(***************************************************************************)
(* The automated response: the dispatcher evaluates every snapshot of a    *)
(* pass (infrastructure/network/dispatcher.py), publishes what the engine  *)
(* returns, and the handler _on_policy_evaluated                           *)
(* (application/events/handlers.py) blocks the port, asks for an approval  *)
(* or only reports, step by step, until a step fails.  Nothing in a pass   *)
(* is awaited before the table is sent, so a pass is one step here.        *)
(*                                                                         *)
(* Nothing in the repository registers a policy: policies are added and    *)
(* removed through the engine's own interface.  The rule of a port is      *)
(* taken as a whole here, and an operation leaves those of other ports     *)
(* alone; Enforcement has the bridges in detail.                           *)
(***************************************************************************)
EXTENDS PolicyEngine, EventBus

CONSTANTS
    Bridges,   \* the OS bridges there may be
    Faults     \* may the firewall and the database fail for a while

VARIABLES
    bridge,    \* the OS bridge of this platform
    state,     \* what is known of each port: is it blocked, is it in the
               \* table blocked_ports, (history) does the last entry of the
               \* audit trail about it say that it was blocked, (history) has
               \* a failure that the trail does not tell of made that doubtful
    seen,      \* history: the snapshots of the last pass, {} for a port that
               \* was not in it
    acted,     \* history: the policies that have acted in the last pass
    faulty,    \* do firewall and database fail at the moment
    rested     \* has there been a pass since the clock went on

vars == <<engineVars, bridge, state, seen, acted, faulty, rested>>

PortState == [blocked : BOOLEAN, listed : BOOLEAN, claimed : BOOLEAN, doubt : BOOLEAN]

Open == [blocked |-> FALSE, listed |-> FALSE, claimed |-> FALSE, doubt |-> FALSE]

(* A reporting bridge raises when a rule cannot be added; a silent one,    *)
(* that of macOS, returns True whatever pfctl says.                        *)
BridgeKinds == {"none", "reporting", "silent"}

ASSUME ResponseAssumption == Bridges \subseteq BridgeKinds /\ Faults \in BOOLEAN

Init ==
    /\ EngineInit
    /\ bridge \in Bridges
    /\ state = [p \in Ports |-> Open]
    /\ seen = [p \in Ports |-> {}]
    /\ acted = {}
    /\ faulty = FALSE
    /\ rested = FALSE

-----------------------------------------------------------------------------
(* What each step of an operation leaves of the state of its port,         *)
(* beginning with what was there; b is whether the port is blocked after   *)
(* the bridge was called.                                                  *)

(* Mutant of Blocking: the audit entry is written first. *)
BlockingAuditFirst(st, b) ==
    <<st,
      [st EXCEPT !.claimed = TRUE],
      [st EXCEPT !.claimed = TRUE, !.blocked = b],
      [blocked |-> b, listed |-> TRUE, claimed |-> TRUE, doubt |-> ~b]>>

(* block_port, add_blocked_port and the audit entry. *)
Blocking(st, b) ==
    <<st,
      [st EXCEPT !.blocked = b],
      [st EXCEPT !.blocked = b, !.listed = TRUE],
      [blocked |-> b, listed |-> TRUE, claimed |-> TRUE, doubt |-> ~b]>>

(* unblock_port, remove_blocked_port and the audit entry: one that breaks  *)
(* off in between leaves a trail that says that the port is blocked.       *)
Unblocking(st, b) ==
    <<st,
      [st EXCEPT !.blocked = b, !.doubt = TRUE],
      [st EXCEPT !.blocked = b, !.listed = FALSE, !.doubt = TRUE],
      [Open EXCEPT !.blocked = b]>>

(* A step that fails raises, and what follows is left out. *)
BreaksOff(e) == {n \in DOMAIN e : faulty \/ n = Len(e)}

(* While the firewall fails, a silent bridge leaves a port as it is, and   *)
(* every bridge may do so when it is asked to remove the rule.             *)
AfterBlock(st) == {TRUE} \cup IF faulty /\ bridge = "silent" THEN {st.blocked} ELSE {}

AfterUnblock(st) == {FALSE} \cup IF faulty THEN {st.blocked} ELSE {}

(* The steps of _on_policy_evaluated for policy r; without a bridge a      *)
(* block is reported like a notification.                                  *)
Effects(r, st) ==
    IF r.action = "block" /\ bridge # "none"
    THEN {Blocking(st, b) : b \in AfterBlock(st)}
    ELSE IF r.action = "request_approval" THEN {<<st, st, st>>} ELSE {<<st, st>>}

(* The first step that fails raises, and the exception is logged. *)
Outcomes(r, st) ==
    UNION {{[state |-> e[n], done |-> n = Len(e)] : n \in BreaksOff(e)} : e \in Effects(r, st)}

(* What publishing the event does to port p: nothing without an event. *)
Published(p, triggered) ==
    IF triggered = {} \/ ~Reaches("PolicyEvaluated", "_on_policy_evaluated")
    THEN {[state |-> state[p], done |-> FALSE]}
    ELSE UNION {Outcomes(r, state[p]) : r \in triggered}

(* One pass of Dispatcher._run_loop over the active ports. *)
Pass ==
    \E snapshot \in [Ports -> {{}} \cup {{s} : s \in Snapshots}] :
        LET triggered == [p \in Ports |-> UNION {Triggered(p, s) : s \in snapshot[p]}]
        IN  \E o \in [Ports -> UNION {Published(p, triggered[p]) : p \in Ports}] :
                /\ \A p \in Ports : o[p] \in Published(p, triggered[p])
                /\ StartCooldown(triggered)
                /\ state' = [p \in Ports |-> o[p].state]
                /\ seen' = snapshot
                /\ acted' = UNION {{<<r.id, p>> : r \in {q \in triggered[p] : o[p].done}}
                                      : p \in Ports}
                /\ rested' = TRUE
                /\ UNCHANGED <<policies, steps, bridge, faulty>>

(* Somebody blocks or unblocks a port (application/commands/firewall.py). *)
Command(p) ==
    /\ bridge # "none"
    /\ \/ \E b \in AfterBlock(state[p]) : \E n \in BreaksOff(Blocking(state[p], b)) :
             state' = [state EXCEPT ![p] = Blocking(state[p], b)[n]]
       \/ \E b \in AfterUnblock(state[p]) : \E n \in BreaksOff(Unblocking(state[p], b)) :
             state' = [state EXCEPT ![p] = Unblocking(state[p], b)[n]]
    /\ UNCHANGED <<engineVars, bridge, seen, acted, faulty, rested>>

(* Somebody changes the policies. *)
ChangePolicies ==
    /\ \/ \E r \in Rules : AddPolicy(r)
       \/ \E id \in Ids : RemovePolicy(id)
    /\ UNCHANGED <<bridge, state, seen, acted, faulty, rested>>

(* A pass takes place at least once in a tick: the dispatcher sleeps for a *)
(* second, a failing pass for another, and a tick stands for ten or more.  *)
Tick ==
    /\ rested
    /\ rested' = FALSE
    /\ ClockTicks
    /\ UNCHANGED <<bridge, state, seen, acted, faulty>>

StepBack ==
    /\ ClockStepsBack
    /\ UNCHANGED <<bridge, state, seen, acted, faulty, rested>>

(* Firewall and database begin to fail, or work again. *)
FaultsChange ==
    /\ Faults
    /\ faulty' = ~faulty
    /\ UNCHANGED <<engineVars, bridge, state, seen, acted, rested>>

Next ==
    \/ Pass
    \/ \E p \in Ports : Command(p)
    \/ ChangePolicies
    \/ Tick
    \/ StepBack
    \/ FaultsChange

Fairness == WF_vars(Pass) /\ WF_vars(Tick)

Spec == Init /\ [][Next]_vars

FairSpec == Spec /\ Fairness

-----------------------------------------------------------------------------
(* Properties.                                                             *)

TypeOK ==
    /\ EngineTypeOK
    /\ bridge \in Bridges
    /\ state \in [Ports -> PortState]
    /\ seen \in [Ports -> {{}} \cup {{s} : s \in Snapshots}]
    /\ acted \subseteq Keys
    /\ faulty \in BOOLEAN
    /\ rested \in BOOLEAN

(* The audit trail does not claim what did not take place: a port of which *)
(* it says last that it was blocked is in the table of blocked ports and   *)
(* is blocked, wherever a later or an earlier attempt broke off.  Two      *)
(* failures are excepted that the program does not notice or record: a     *)
(* rule that a silent bridge did not load, and an unblock that took effect *)
(* and broke off before its entry.                                         *)
TrailIsTrue ==
    \A p \in Ports :
        state[p].claimed /\ ~state[p].doubt => state[p].blocked /\ state[p].listed

(* No policy starves: one that stays registered under an id of its own,    *)
(* for a port that goes on to match it, acts again and again once firewall *)
(* and database work, also when policies before it match as well, when its *)
(* first attempts failed or when the clock was set back.                   *)
Unshared(r) ==
    /\ Contains(policies, r)
    /\ Cardinality({i \in DOMAIN policies : policies[i].id = r.id}) = 1

Offends(r, p) == \E s \in seen[p] : Matches(r, s)

MatchingPolicyActs ==
    \A r \in Rules, p \in Ports :
        <>[](Unshared(r) /\ Offends(r, p) /\ ~faulty) => []<>(<<r.id, p>> \in acted)
=============================================================================
