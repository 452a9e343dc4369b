-------------------------- MODULE MCTrafficPipeline --------------------------
(* Instances of TrafficPipeline for TLC. *)
EXTENDS TrafficPipeline

OnePort  == {8}
TwoPorts == {8, 9}
NoPorts  == {}

(* Packets to and from one port, its peer being outside. *)
FlowsOne == {<<0, 8>>, <<8, 0>>}

(* Packets towards either port, and between them. *)
FlowsTwo == {<<0, 8>>, <<8, 9>>}
=============================================================================
