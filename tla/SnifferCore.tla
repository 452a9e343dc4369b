----------------------------- MODULE SnifferCore -----------------------------
(***************************************************************************)
(* The sequential part of backend/core/sniffer.py: the accumulation buffer *)
(* of the sniffer process, what one captured packet does to it, what one   *)
(* flush publishes of it, and which ports the flush forgets.               *)
(*                                                                         *)
(* A time stamp is kept as an age, the time since the stamp, saturated one *)
(* past PruneAge (the code compares ages with two thresholds only).  The   *)
(* counters count packets instead of bytes.  Port 0 stands for every port  *)
(* the callback ignores.  The pid, protocol, risk and address fields are   *)
(* carried by the code but decide nothing here, and are left out.          *)
(***************************************************************************)
EXTENDS Naturals, FiniteSets

CONSTANTS
    Ports,         \* port numbers of interest, within 1 .. MAX_PORTS - 1
    MockPorts,     \* ports the capture loop injects synthetic traffic for
    ActiveWindow,  \* age up to which a port is published as active (30 s)
    PruneAge,      \* age past which a port may be forgotten (300 s)
    PruneLimit,    \* number of tracked ports past which pruning starts (5000)
    CounterMod     \* published counters are taken modulo this (2^64)

ASSUME SnifferAssumption ==
    /\ Ports \subseteq Nat \ {0}
    /\ MockPorts \subseteq Ports
    /\ ActiveWindow \in Nat
    /\ PruneAge \in Nat
    /\ PruneLimit \in Nat
    /\ CounterMod \in Nat \ {0}
    /\ ActiveWindow <= PruneAge

Ages == 0 .. (PruneAge + 1)

Stat == [in : Nat, out : Nat, age : Ages]

(* A dict from ports to values of T: a function on the ports it has as keys. *)
IsDict(d, T) == DOMAIN d \subseteq Ports /\ d \in [DOMAIN d -> T]

Fresh == [in |-> 0, out |-> 0, age |-> 0]

(* The entry of p, inserted on the first packet of the port. *)
StatOf(acc, p) == IF p \in DOMAIN acc THEN acc[p] ELSE Fresh

Upsert(acc, p, s) == [q \in DOMAIN acc \cup {p} |-> IF q = p THEN s ELSE acc[q]]

(* Mutant of CountOut: the guard on the port number is dropped. *)
CountOutAnyPort(acc, p) ==
    Upsert(acc, p, [in  |-> StatOf(acc, p).in,
                    out |-> StatOf(acc, p).out + 1,
                    age |-> 0])

(* A packet sent from, or received on, port p; other ports are ignored. *)
CountOut(acc, p) ==
    IF p \notin Ports THEN acc
    ELSE Upsert(acc, p, [in  |-> StatOf(acc, p).in,
                         out |-> StatOf(acc, p).out + 1,
                         age |-> 0])

CountIn(acc, p) ==
    IF p \notin Ports THEN acc
    ELSE Upsert(acc, p, [in  |-> StatOf(acc, p).in + 1,
                         out |-> StatOf(acc, p).out,
                         age |-> 0])

(* packet_callback: one packet counts for its source and its destination. *)
Counted(acc, sport, dport) == CountIn(CountOut(acc, sport), dport)

(* The synthetic traffic run() adds for the ports m before it flushes. *)
Mocked(acc, m) ==
    [q \in DOMAIN acc \cup m |->
        IF q \in m THEN [in  |-> StatOf(acc, q).in + 1,
                         out |-> StatOf(acc, q).out + 1,
                         age |-> 0]
                   ELSE acc[q]]

(* Time passes. *)
Older(a) == IF a > PruneAge THEN a ELSE a + 1

Aged(acc) == [q \in DOMAIN acc |-> [acc[q] EXCEPT !.age = Older(@)]]

(* Mutant of IsActive: a port that ever had traffic stays active. *)
IsActiveForEver(s) == s.in + s.out > 0

(* A flush marks a port active when it heard of it recently enough. *)
IsActive(s) == s.age <= ActiveWindow

(* The entry _write_port_entry packs for a port. *)
Entry == [in : Nat, out : Nat, active : BOOLEAN]

Packed(s) == [in     |-> s.in % CounterMod,
              out    |-> s.out % CounterMod,
              active |-> IsActive(s)]

(* What remains of the buffer after the flush. *)
Pruned(acc) ==
    IF Cardinality(DOMAIN acc) > PruneLimit
    THEN [q \in {p \in DOMAIN acc : acc[p].age <= PruneAge} |-> acc[q]]
    ELSE acc
=============================================================================
