------------------------------- MODULE Approvals -------------------------------
(***************************************************************************)
(* The approval workflow on the server: the routes                         *)
(* (presentation/api/approvals.py), the command handlers                   *)
(* (application/commands/approvals.py), the table analyst_approvals and    *)
(* the audit trail (core/db.py).  A handler runs on the event loop without *)
(* an await; its steps are the database operations, each of which may      *)
(* fail, and an exception is answered with an error.                       *)
(***************************************************************************)
EXTENDS EventBus, Naturals, FiniteSets

CONSTANTS
    Senders,          \* who sends requests: the dashboards
    Pids,             \* process ids approvals are asked for
    Statuses,         \* statuses a caller may ask for
    MaxClicks,        \* bound on the calls of the dashboards
    MaxPolicyTickets  \* bound on the tickets opened by policies

Pending == "pending"

Decisions == {"approved", "rejected"}

ASSUME ApprovalAssumption ==
    /\ Pids \subseteq Nat
    /\ MaxClicks \in Nat
    /\ MaxPolicyTickets \in Nat

VARIABLES
    tickets,   \* analyst_approvals: the status and (history) the call that
               \* opened each; ids are its indices
    trail,     \* the last decision the audit trail has for each ticket
    handling,  \* the requests whose handler runs, and how far it is
    broken     \* history: tickets whose last decision was stored without its
               \* entry, and calls whose handler broke off after it had stored
               \* something

approvalVars == <<tickets, trail, handling, broken>>

Clicks == 1 .. MaxClicks

Policy == 0

(* Every call is sent at most twice, so there are at most this many ids. *)
Ids == 1 .. (2 * MaxClicks + MaxPolicyTickets)

Call == [op : {"request"}, pid : Pids] \cup [op : {"resolve"}, id : Ids, status : Statuses]

Routes == {"primary", "secondary"}

Request == [from : Senders, click : Clicks, route : Routes, call : Call]

Handling == [request : Request, step : {"store", "audit"}, id : Ids \cup {0}]

Ticket == [status : {Pending} \cup Decisions, by : Clicks \cup {Policy}]

ApprovalInit ==
    /\ tickets = <<>>
    /\ trail = <<>>
    /\ handling = {}
    /\ broken = {}

-----------------------------------------------------------------------------
(* The steps of a handler h for its request.                               *)

(* Mutant of Accepted: any status is taken. *)
AcceptedAnyStatus(c) == c.op = "request" => c.pid > 0

(* The routes turn away a process id and a status that make no sense. *)
Accepted(c) == IF c.op = "request" THEN c.pid > 0 ELSE c.status \in Decisions

(* There is no ticket to resolve. *)
NotFound(c) == c.op = "resolve" /\ c.id \notin DOMAIN tickets

(* Mutant of Begin: the handlers run on threads, side by side. *)
BeginAtOnce(q) ==
    /\ handling' = handling \cup {[request |-> q, step |-> "store", id |-> 0]}
    /\ UNCHANGED <<tickets, trail, broken>>

(* The event loop runs one handler at a time, to its end. *)
Begin(q) ==
    /\ handling = {}
    /\ handling' = {[request |-> q, step |-> "store", id |-> 0]}
    /\ UNCHANGED <<tickets, trail, broken>>

(* 400, or an answer that there is no such ticket. *)
Refuse(h) ==
    /\ h.step = "store"
    /\ Accepted(h.request.call) => NotFound(h.request.call)
    /\ handling' = handling \ {h}
    /\ UNCHANGED <<tickets, trail, broken>>

Proceed(h) ==
    /\ h.step = "store"
    /\ Accepted(h.request.call)
    /\ ~NotFound(h.request.call)

(* create_analyst_approval, as far as its commit. *)
CreateTicket(h) ==
    /\ Proceed(h)
    /\ h.request.call.op = "request"
    /\ tickets' = Append(tickets, [status |-> Pending, by |-> h.request.click])
    /\ trail' = Append(trail, Pending)
    /\ handling' = (handling \ {h}) \cup {[h EXCEPT !.step = "audit", !.id = Len(tickets) + 1]}
    /\ UNCHANGED broken

(* update_approval_status, whatever the status of the ticket was. *)
UpdateTicket(h) ==
    /\ Proceed(h)
    /\ h.request.call.op = "resolve"
    /\ tickets' = [tickets EXCEPT ![h.request.call.id].status = h.request.call.status]
    /\ handling' = (handling \ {h}) \cup {[h EXCEPT !.step = "audit", !.id = h.request.call.id]}
    /\ UNCHANGED <<trail, broken>>

(* The lookup or the commit fails, and nothing is stored. *)
StoreFails(h) ==
    /\ Proceed(h)
    /\ handling' = handling \ {h}
    /\ UNCHANGED <<tickets, trail, broken>>

(* The event is published to nobody, and the entry is written: that of a   *)
(* resolved ticket tells the decision.                                     *)
WriteAudit(h) ==
    /\ h.step = "audit"
    /\ handling' = handling \ {h}
    /\ IF h.request.call.op = "resolve"
       THEN /\ trail' = [trail EXCEPT ![h.id] = h.request.call.status]
            /\ broken' = broken \ {<<"ticket", h.id>>}
       ELSE UNCHANGED <<trail, broken>>
    /\ UNCHANGED tickets

(* What follows a commit fails: create_analyst_approval cannot read the    *)
(* new id back, or the entry cannot be written.                            *)
BreaksOff(h) ==
    /\ h.step = "audit"
    /\ handling' = handling \ {h}
    /\ broken' = broken \cup {<<"call", h.request.click>>}
           \cup (IF h.request.call.op = "resolve" THEN {<<"ticket", h.id>>} ELSE {})
    /\ UNCHANGED <<tickets, trail>>

(* A policy opens a ticket (application/events/handlers.py), whether it    *)
(* reads the id back or not.                                               *)
PolicyTicket ==
    /\ handling = {}
    /\ Cardinality({i \in DOMAIN tickets : tickets[i].by = Policy}) < MaxPolicyTickets
    /\ tickets' = Append(tickets, [status |-> Pending, by |-> Policy])
    /\ trail' = Append(trail, Pending)
    /\ UNCHANGED <<handling, broken>>

ApprovalTypeOK ==
    /\ tickets \in Seq(Ticket)
    /\ trail \in Seq({Pending} \cup Decisions)
    /\ Len(trail) = Len(tickets)
    /\ handling \subseteq Handling
    /\ broken \subseteq ({"call"} \X Clicks) \cup ({"ticket"} \X DOMAIN tickets)
=============================================================================
