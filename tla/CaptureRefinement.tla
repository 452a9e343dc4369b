--------------------------- MODULE CaptureRefinement ---------------------------
(***************************************************************************)
(* CapturePlane, where slots are copied word by word and nobody waits for  *)
(* anybody, implements PortRegister.  An entry is published when its HMAC  *)
(* reaches the slot, and taken when the HMAC is copied from there: a copy  *)
(* that passes the check is the entry of that instant, whenever its other  *)
(* words were copied.                                                      *)
(***************************************************************************)
EXTENDS CapturePlane, Integers

Phase ==
    IF rpc # "copy" THEN "idle" ELSE IF "mac" \in rleft THEN "begun" ELSE "taken"

(* What _write_port_entry publishes: its counters have wrapped. *)
Published == [in : 0 .. (CounterMod - 1), out : 0 .. (CounterMod - 1), active : BOOLEAN]

Register == INSTANCE PortRegister WITH
    Entries   <- Published,
    published <- [p \in Ports |-> slots[p].mac],
    phase     <- Phase,
    port      <- rport,
    taken     <- rbuf.mac,
    listed    <- active

(* The dispatcher reads atomic registers: what a scan lists for a port is  *)
(* the entry published for it at one instant of the read, so it is never a *)
(* mixture, never one replaced before the read began, and no later scan    *)
(* goes back to an older entry.                                            *)
ImplementsRegister == Register!Spec
=============================================================================
