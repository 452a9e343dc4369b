----------------------------- MODULE ApprovalDesk -----------------------------
(***************************************************************************)
(* Dashboards that ask for approvals and decide on them, through the       *)
(* request wrapper of frontend/src/services/apiService.ts, the rate        *)
(* limiter and the handlers of the server.  The wrapper sends a request    *)
(* that failed in the network again on its second route, whatever became   *)
(* of the first: the network may have lost it, or its answer, or may still *)
(* deliver it.                                                             *)
(***************************************************************************)
EXTENDS Approvals, RateLimiter

CONSTANT
    AddressOf  \* the address each dashboard is seen with

ASSUME DeskAssumption == AddressOf \in [Senders -> Addresses]

VARIABLES
    waiting,  \* the request each dashboard waits for, {} without one
    told,     \* the answer each call ended with
    inbox,    \* requests on their way to the server
    unlucky   \* history: calls of which an attempt failed in the network

vars == <<limiterVars, approvalVars, waiting, told, inbox, unlucky>>

Init ==
    /\ LimiterInit
    /\ ApprovalInit
    /\ waiting = [s \in Senders |-> {}]
    /\ told = <<>>
    /\ inbox = {}
    /\ unlucky = {}

-----------------------------------------------------------------------------
(* The dashboards: apiService.                                             *)

(* A button is pressed, or a script calls the API; ids come from a list    *)
(* that may be out of date.  One call at a time per dashboard.             *)
Click(s, c) ==
    /\ waiting[s] = {}
    /\ Len(told) < MaxClicks
    /\ LET q == [from |-> s, click |-> Len(told) + 1, route |-> "primary", call |-> c]
       IN  /\ waiting' = [waiting EXCEPT ![s] = {q}]
           /\ inbox' = inbox \cup {q}
    /\ told' = Append(told, "nothing")
    /\ UNCHANGED <<limiterVars, approvalVars, unlucky>>

(* The call of request q goes on to the second route, or ends there. *)
SendAgain(q, left) ==
    IF q.route = "primary"
    THEN LET r == [q EXCEPT !.route = "secondary"]
         IN  /\ waiting' = [waiting EXCEPT ![q.from] = {r}]
             /\ inbox' = left \cup {r}
             /\ UNCHANGED told
    ELSE /\ waiting' = [waiting EXCEPT ![q.from] = {}]
         /\ inbox' = left
         /\ told' = [told EXCEPT ![q.click] = "error"]

(* fetch fails with a TypeError, or a proxy answers for the server.  The   *)
(* request may have been lost, may have been handled, or may arrive still. *)
NetworkFails(s) ==
    /\ \E q \in waiting[s], left \in {inbox, inbox \ waiting[s]} : SendAgain(q, left)
    /\ unlucky' = unlucky \cup {q.click : q \in waiting[s]}
    /\ UNCHANGED <<limiterVars, approvalVars>>

(* Mutant of Reply: an error of the server is taken for one of the network. *)
ReplyRetriesErrors(q, answer) ==
    IF q \in waiting[q.from] /\ answer = "error"
    THEN SendAgain(q, inbox \ {q})
    ELSE /\ waiting' = [waiting EXCEPT ![q.from] = @ \ {q}]
         /\ told' = IF q \in waiting[q.from] THEN [told EXCEPT ![q.click] = answer] ELSE told
         /\ inbox' = inbox \ {q}

(* The answer to q, which nobody may be waiting for any more.  An error of *)
(* the server ends the call.                                               *)
Reply(q, answer) ==
    /\ waiting' = [waiting EXCEPT ![q.from] = @ \ {q}]
    /\ told' = IF q \in waiting[q.from] THEN [told EXCEPT ![q.click] = answer] ELSE told
    /\ inbox' = inbox \ {q}

-----------------------------------------------------------------------------
(* The server.                                                             *)

(* A request comes to the rate limiter, and passes it. *)
Deliver(q) ==
    /\ q \in inbox
    /\ LetThrough(AddressOf[q.from])
    /\ Note(AddressOf[q.from])
    /\ Begin(q)
    /\ inbox' = inbox \ {q}
    /\ UNCHANGED <<waiting, told, unlucky>>

(* 429 *)
TurnAway(q) ==
    /\ q \in inbox
    /\ ~LetThrough(AddressOf[q.from])
    /\ Note(AddressOf[q.from])
    /\ Reply(q, "error")
    /\ UNCHANGED <<approvalVars, unlucky>>

HandlerStores(h) ==
    /\ CreateTicket(h) \/ UpdateTicket(h)
    /\ UNCHANGED <<limiterVars, waiting, told, inbox, unlucky>>

HandlerEnds(h) ==
    /\ \/ WriteAudit(h) /\ Reply(h.request, "success")
       \/ Refuse(h) /\ Reply(h.request, IF Accepted(h.request.call) THEN "failure" ELSE "error")
       \/ StoreFails(h) /\ Reply(h.request, "error")
       \/ BreaksOff(h) /\ Reply(h.request, "error")
    /\ UNCHANGED <<limiterVars, unlucky>>

PolicyAsks ==
    /\ PolicyTicket
    /\ UNCHANGED <<limiterVars, waiting, told, inbox, unlucky>>

Tick ==
    /\ LimiterTick
    /\ UNCHANGED <<approvalVars, waiting, told, inbox, unlucky>>

Next ==
    \/ \E s \in Senders, c \in Call : Click(s, c)
    \/ \E s \in Senders : NetworkFails(s)
    \/ \E q \in inbox : Deliver(q) \/ TurnAway(q)
    \/ \E h \in handling : HandlerStores(h) \/ HandlerEnds(h)
    \/ PolicyAsks
    \/ Tick

Spec == Init /\ [][Next]_vars

-----------------------------------------------------------------------------
(* Properties.                                                             *)

TypeOK ==
    /\ LimiterTypeOK
    /\ ApprovalTypeOK
    /\ waiting \in [Senders -> SUBSET Request]
    /\ \A s \in Senders : Cardinality(waiting[s]) <= 1
    /\ told \in Seq({"nothing", "success", "failure", "error"})
    /\ inbox \subseteq Request
    /\ unlucky \subseteq Clicks

(* A call that asks for an approval opens a second ticket only when one of *)
(* its attempts failed in the network.  One that is told of an error has   *)
(* left none, unless the network failed as well or the handler broke off   *)
(* after the commit: while it read the id back or wrote the entry.         *)
Opened(k) == {i \in DOMAIN tickets : tickets[i].by = k}

OneTicketPerCall ==
    \A k \in DOMAIN told :
        /\ Cardinality(Opened(k)) > 1 => k \in unlucky
        /\ (told[k] = "error" /\ Opened(k) # {}) => (k \in unlucky \/ <<"call", k>> \in broken)

(* Between two handlers, the audit trail has for every ticket the decision *)
(* the table has, also when several dashboards decide on one ticket, and   *)
(* again after requests that were sent twice; unless the entry of the last *)
(* decision could not be written.                                          *)
TrailTellsDecision ==
    handling = {} =>
        \A i \in DOMAIN tickets :
            <<"ticket", i>> \in broken \/ trail[i] = tickets[i].status
=============================================================================
