----------------------------- MODULE PortRegister -----------------------------
(***************************************************************************)
(* What the shared memory promises to the two processes that use it: one   *)
(* register per port.  The sniffer publishes an entry in one step.  The    *)
(* dispatcher reads a register by an operation with a begin and an end; it *)
(* takes the entry that is published at one instant in between and adds it *)
(* to its list, or comes back with nothing, and it never lists an entry    *)
(* that is not active.                                                     *)
(***************************************************************************)
CONSTANTS
    Ports,   \* the registers
    Entries  \* what may be published: records with a field "active"

VARIABLES
    published,  \* the entry of each port, {} before the first
    phase,      \* of the read in progress
    port,       \* the port it is for
    taken,      \* the entry it has taken, if there was one
    listed      \* the entries of the scan, with their ports

vars == <<published, phase, port, taken, listed>>

NoPort == 0

Init ==
    /\ published = [p \in Ports |-> {}]
    /\ phase = "idle"
    /\ port = NoPort
    /\ taken = {}
    /\ listed = {}

Publish(p, e) ==
    /\ published' = [published EXCEPT ![p] = {e}]
    /\ UNCHANGED <<phase, port, taken, listed>>

BeginRead(p) ==
    /\ phase = "idle"
    /\ phase' = "begun"
    /\ port' = p
    /\ UNCHANGED <<published, taken, listed>>

Take ==
    /\ phase = "begun"
    /\ phase' = "taken"
    /\ taken' = published[port]
    /\ UNCHANGED <<published, port, listed>>

EndRead ==
    /\ phase = "taken"
    /\ phase' = "idle"
    /\ port' = NoPort
    /\ taken' = {}
    /\ listed' \in {listed} \cup {listed \cup {<<port, e>>} : e \in {f \in taken : f.active}}
    /\ UNCHANGED published

(* The list goes to the caller. *)
Deliver ==
    /\ phase = "idle"
    /\ listed' = {}
    /\ UNCHANGED <<published, phase, port, taken>>

Next ==
    \/ \E p \in Ports, e \in Entries : Publish(p, e)
    \/ \E p \in Ports : BeginRead(p)
    \/ Take
    \/ EndRead
    \/ Deliver

Spec == Init /\ [][Next]_vars
=============================================================================
