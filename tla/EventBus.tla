------------------------------- MODULE EventBus -------------------------------
(***************************************************************************)
(* The event bus of backend/application/events/bus.py and the handlers     *)
(* application/events/handlers.py registers on it.  Publishing calls the   *)
(* handlers of the event's type one after the other on the caller's        *)
(* thread, and logs what they raise.  Nothing uses asynchronous handlers.  *)
(***************************************************************************)
EXTENDS Sequences, SequencesExt

EventTypes == {"PolicyEvaluated", "FirewallUpdated", "AuditLogged",
               "ApprovalRequested", "ApprovalResolved"}

NoHandlers == [t \in EventTypes |-> <<>>]

(* A handler that is registered already is not registered again. *)
Subscribe(bus, t, handler) ==
    IF Contains(bus[t], handler) THEN bus
    ELSE [bus EXCEPT ![t] = Append(@, handler)]

(* EventHandlers.register_all: nobody listens to the events of approvals. *)
Registered ==
    LET policies == Subscribe(NoHandlers, "PolicyEvaluated", "_on_policy_evaluated")
        firewall == Subscribe(policies, "FirewallUpdated", "_on_firewall_updated")
    IN  Subscribe(firewall, "AuditLogged", "_on_audit_logged")

(* Does publishing an event of type t run the handler? *)
Reaches(t, handler) == Contains(Registered[t], handler)
=============================================================================
