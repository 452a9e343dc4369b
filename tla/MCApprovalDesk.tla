---------------------------- MODULE MCApprovalDesk ----------------------------
(* Instances of ApprovalDesk for TLC. *)
EXTENDS ApprovalDesk, TLC

CONSTANTS alice, bob

TwoSenders  == {alice, bob}
OneAddress  == {"gateway"}
SameAddress == [s \in TwoSenders |-> "gateway"]

(* The network map page asks for process 0. *)
TwoPids     == {0, 7}
TheStatuses == {"approved", "rejected", "closed"}

Symmetry == Permutations(TwoSenders)
=============================================================================
