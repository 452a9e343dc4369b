------------------------- MODULE BlockListRefinement -------------------------
(***************************************************************************)
(* Enforcement, with three bridges of two commands each, two protocols, a  *)
(* dict and a rules file, implements BlockList as long as nothing fails    *)
(* and the program is started once at a time.  A port is blocked while a   *)
(* rule drops some of its traffic.                                         *)
(***************************************************************************)
EXTENDS Enforcement

BlockedPorts == {p \in Ports : RulesOf(fw, p) # {}}

(* The ports of the rules file of macOS. *)
Filed == {p \in Ports : fw.file[p] # "none"}

(* The ports the running process has asked its bridge to block. *)
Wanted ==
    IF ~up THEN {}
    ELSE session \cup {p \in {call.port} : call.step \in {"row", "audit"} /\ call.kind # "unblock"}

(* The port that is between two commands. *)
InHand == {p \in {call.port} : call.step = "command"}

(* A triggered policy blocks a port like a route. *)
Wish == IF call.kind = "policy" THEN "block" ELSE call.kind

List == INSTANCE BlockList WITH
    mine   <- (BlockedPorts \cap Wanted) \ InHand,
    left   <- (BlockedPorts \ Wanted) \ InHand,
    latent <- (Filed \ BlockedPorts) \ InHand,
    listed <- rows,
    asked  <- <<Wish, call.port, call.step>>

(* A call of this process changes the port it names and no other one the   *)
(* process has blocked or opened, though macOS rewrites the rules of all   *)
(* ports at each call, and rules and file outlive a process that is killed *)
(* between the commands of a call, with one ahead of the other: this is    *)
(* List!Spec, for behaviours that have no faults.                          *)
ImplementsBlockList ==
    /\ faults = {} => List!Init
    /\ [][faults = {} => List!Next]_(List!vars)
=============================================================================
