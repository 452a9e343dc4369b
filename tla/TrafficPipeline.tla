--------------------------- MODULE TrafficPipeline ---------------------------
(***************************************************************************)
(* From captured packets to the port table: the sniffer process            *)
(* (core/sniffer.py), the dispatcher pass                                  *)
(* (infrastructure/network/dispatcher.py), the traffic accumulator         *)
(* (application/services/metrics_service.py) and the table a browser shows *)
(* (frontend/src/hooks/useSocket.ts), with the program ending and starting *)
(* again around a browser that stays open.                                 *)
(*                                                                         *)
(* A flush and the scan of one pass are single steps here: CapturePlane    *)
(* shows that a scan returns, for every port it does not skip, an entry    *)
(* that was published while it ran.  Rates are kept as the packets they    *)
(* report (the division by the elapsed time is left out), and a table row  *)
(* as the age of its snapshot.  Policies are the subject of PolicyResponse. *)
(***************************************************************************)
EXTENDS SnifferCore

CONSTANTS
    TableTTL,     \* ACTIVE_PORT_TTL_SECONDS
    Flows,        \* the packets there are: pairs <<source port, destination port>>
    ClockSteps,   \* may the wall clock stand still or step back between passes
    MayExit,      \* may the sniffer process end
    MayMiss,      \* may a scan skip a port whose slot is being written
    MayBreakOff,  \* may a pass end in an exception
    MaxBurst      \* bound on the packets of a port between two reports

ASSUME PipelineAssumption ==
    /\ TableTTL \in Nat
    /\ Flows \subseteq (Ports \cup {0}) \X (Ports \cup {0})
    /\ {ClockSteps, MayExit, MayMiss, MayBreakOff} \subseteq BOOLEAN
    /\ MaxBurst \in Nat
    /\ MaxBurst < CounterMod

VARIABLES
    accum,      \* _accum of the sniffer
    running,    \* is the sniffer process alive
    published,  \* the entries in shared memory, under the current key
    last,       \* PortMetrics._last_snapshot: counters per port
    latest,     \* the newest snapshot of SlidingWindowCache per port
    shown,      \* the ports in the table of the browser
    orphan,     \* does the sniffer of a killed program still write
    captured,   \* history: packets per port that were not published yet
    due         \* history: packets per port published and not reported yet

vars == <<accum, running, published, last, latest, shown, orphan, captured, due>>

Count == [in : Nat, out : Nat]
Zero  == [in |-> 0, out |-> 0]

(* A snapshot: its age, and (history) whether its rates stand for the      *)
(* packets there were since the previous one.                              *)
TableAges == 0 .. (TableTTL + 1)
Snapshot  == [age : TableAges, exact : BOOLEAN]

Plus(a, b) == [in |-> a.in + b.in, out |-> a.out + b.out]

Init ==
    /\ accum = <<>>
    /\ running = TRUE
    /\ published = <<>>
    /\ last = <<>>
    /\ latest = <<>>
    /\ shown = {}
    /\ orphan = FALSE
    /\ captured = [p \in Ports |-> Zero]
    /\ due = [p \in Ports |-> Zero]

-----------------------------------------------------------------------------
(* The sniffer.                                                            *)

Bounded ==
    \A p \in Ports : LET t == Plus(captured'[p], due'[p])
                     IN  t.in + t.out <= MaxBurst

(* The counters of the sniffer do not wrap; what is published of them      *)
(* does, so that they may be kept modulo the same number.                  *)
Wrapped(acc) ==
    [p \in DOMAIN acc |-> [in  |-> acc[p].in % CounterMod,
                          out |-> acc[p].out % CounterMod,
                          age |-> acc[p].age]]

PacketCallback ==
    /\ running
    /\ \E f \in Flows :
          /\ accum' = Wrapped(Counted(accum, f[1], f[2]))
          /\ captured' = [p \in Ports |->
                 Plus(captured[p], [in  |-> IF p = f[2] THEN 1 ELSE 0,
                                    out |-> IF p = f[1] THEN 1 ELSE 0])]
    /\ UNCHANGED <<running, published, last, latest, shown, orphan, due>>
    /\ Bounded

(* One turn of the loop of run() after sniff(): the synthetic traffic, the *)
(* entries of all tracked ports, and the pruning.                          *)
Flush ==
    /\ running
    /\ \E m \in SUBSET MockPorts :
          LET acc == Wrapped(Mocked(accum, m))
          IN  /\ accum' = Pruned(acc)
              /\ published' = [p \in DOMAIN published \cup DOMAIN acc |->
                     IF p \in DOMAIN acc THEN Packed(acc[p]) ELSE published[p]]
              /\ due' = [p \in Ports |->
                     Plus(Plus(due[p], captured[p]),
                          IF p \in m THEN [in |-> 1, out |-> 1] ELSE Zero)]
    /\ captured' = [p \in Ports |-> Zero]
    /\ UNCHANGED <<running, last, latest, shown, orphan>>
    /\ Bounded

(* The sniffer ends, on an error of the capture for one, and its buffer    *)
(* with it.  The dispatcher keeps the segment mapped.                      *)
SnifferExit ==
    /\ MayExit
    /\ running
    /\ running' = FALSE
    /\ accum' = <<>>
    /\ captured' = [p \in Ports |-> Zero]
    /\ UNCHANGED <<published, last, latest, shown, orphan, due>>

-----------------------------------------------------------------------------
(* The dispatcher and the accumulator.                                     *)

ActivePorts == {p \in DOMAIN published : published[p].active}

(* Mutant of SafeDelta: a counter that wrapped counts from zero. *)
SafeDeltaFromZero(current, previous) ==
    IF current >= previous THEN current - previous ELSE current

(* PortMetrics._safe_delta *)
SafeDelta(current, previous) ==
    IF current >= previous THEN current - previous
    ELSE current + (CounterMod - previous)

(* PortMetrics.calculate_delta: nothing on the first call for a port and   *)
(* when no time has passed.                                                *)
CalculateDelta(p, e, elapsed) ==
    IF p \notin DOMAIN last \/ ~elapsed THEN Zero
    ELSE [in  |-> SafeDelta(e.in, last[p].in),
          out |-> SafeDelta(e.out, last[p].out)]

(* calculate_delta stores the counters it was given before it returns,     *)
(* whether or not a rate comes out.                                        *)
Baseline(read) ==
    [p \in DOMAIN last \cup read |->
        IF p \in read THEN [in |-> published[p].in, out |-> published[p].out]
        ELSE last[p]]

(* The snapshot process_port_data adds to the cache.  Without a baseline,  *)
(* and without a clock that moves, there is no rate to compare.            *)
ProcessPortData(p, elapsed) ==
    [age   |-> 0,
     exact |-> CalculateDelta(p, published[p], elapsed)
                   = IF p \in DOMAIN last /\ elapsed THEN due[p] ELSE Zero]

(* Mutant of PortTable: rows do not expire. *)
PortTableForEver(rows) == DOMAIN rows

(* get_port_table: the ports whose newest snapshot is recent. *)
PortTable(rows) == {p \in DOMAIN rows : rows[p].age <= TableTTL}

(* What a pass of Dispatcher._run_loop stores of the ports it read: for    *)
(* those in done a snapshot, for the others the counters at most.          *)
Process(read, done, elapsed) ==
    /\ last' = Baseline(read)
    /\ latest' = [p \in DOMAIN latest \cup done |->
           IF p \in done THEN ProcessPortData(p, elapsed) ELSE latest[p]]
    /\ due' = [p \in Ports |-> IF p \in read THEN Zero ELSE due[p]]
    /\ UNCHANGED <<accum, running, published, orphan, captured>>

Elapsed == {TRUE} \cup {b \in {FALSE} : ClockSteps}

(* A whole pass: process_port_data for every entry of the scan, and the    *)
(* table for the browser, which replaces the one it has.  A pass that      *)
(* reads no active port changes nothing and emits nothing.                 *)
Pass ==
    \E missed \in {s \in SUBSET ActivePorts : MayMiss \/ s = {}}, elapsed \in Elapsed :
        LET read == ActivePorts \ missed
        IN  /\ read # {}
            /\ Process(read, read, elapsed)
            /\ shown' = PortTable(latest')

(* A pass that ends in an exception, which is logged: it has come to some  *)
(* of the ports, may have stored no more than the counters of the last of  *)
(* them, and the browser keeps its table.                                  *)
PassBreaksOff ==
    /\ MayBreakOff
    /\ \E read \in SUBSET ActivePorts, elapsed \in Elapsed :
          \E done \in {read} \cup {read \ {p} : p \in read} :
              /\ read # {}
              /\ Process(read, done, elapsed)
    /\ UNCHANGED shown

(* Time passes, for the sniffer and for the table. *)
Tick ==
    /\ accum' = Aged(accum)
    /\ latest' = [p \in DOMAIN latest |->
           [latest[p] EXCEPT !.age = IF @ > TableTTL THEN @ ELSE @ + 1]]
    /\ UNCHANGED <<running, published, last, shown, orphan, captured, due>>

-----------------------------------------------------------------------------
(* The end of the program and its next start.                              *)

(* The web process ends, and the program is started again, with a new      *)
(* key: the new sniffer attaches to the segment if it still exists, but    *)
(* nothing in it passes the check.  A killed web process leaves its        *)
(* sniffer running, which nobody tells to stop.                            *)
Restart ==
    /\ orphan' \in {orphan} \cup {b \in {TRUE} : running}
    /\ running' = TRUE
    /\ accum' = <<>>
    /\ published' = <<>>
    /\ last' = <<>>
    /\ latest' = <<>>
    /\ captured' = [p \in Ports |-> Zero]
    /\ due' = [p \in Ports |-> Zero]
    /\ UNCHANGED shown

(* The orphan writes the slots of the ports it has heard of, with the key  *)
(* and the lock of its own program: an entry of the new sniffer that it    *)
(* overwrites fails the check until it is written again.  A slot they      *)
(* write at the same time fails it or not, like any other.                 *)
OrphanFlush ==
    /\ orphan
    /\ \E kept \in SUBSET DOMAIN published :
          /\ kept # DOMAIN published
          /\ published' = [p \in kept |-> published[p]]
    /\ UNCHANGED <<accum, running, last, latest, shown, orphan, captured, due>>

Next ==
    \/ PacketCallback
    \/ Flush
    \/ SnifferExit
    \/ Pass
    \/ PassBreaksOff
    \/ Tick
    \/ Restart
    \/ OrphanFlush

(* The sniffer's loop, the dispatcher's loop and the clock go on, and not  *)
(* every pass ends in an exception; packets are not promised.              *)
Fairness == WF_vars(Flush) /\ WF_vars(Pass) /\ WF_vars(Tick)

Spec == Init /\ [][Next]_vars

FairSpec == Spec /\ Fairness

-----------------------------------------------------------------------------
(* Properties.                                                             *)

TypeOK ==
    /\ IsDict(accum, Stat)
    /\ running \in BOOLEAN
    /\ IsDict(published, Entry)
    /\ IsDict(last, [in : 0 .. (CounterMod - 1), out : 0 .. (CounterMod - 1)])
    /\ IsDict(latest, Snapshot)
    /\ shown \subseteq Ports
    /\ orphan \in BOOLEAN
    /\ captured \in [Ports -> Count]
    /\ due \in [Ports -> Count]

(* Every rate reported for a port stands for exactly the packets published *)
(* since the port was last read, across passes that skipped it, periods of *)
(* inactivity and wraps of the counters: none is lost or counted twice,    *)
(* but for those of a pass at which the clock had not moved on and those   *)
(* of a port at which a pass broke off, which are not reported at all.     *)
(* metrics_service.py:56: the class "Calculates KB/s deltas from           *)
(* consecutive byte counter snapshots", with an "overflow guard (byte      *)
(* counter wrap at sys.maxsize)".                                          *)
RateIsTraffic == \A p \in DOMAIN latest : latest[p].exact

Heard(p) == p \in DOMAIN accum /\ accum[p].age <= ActiveWindow

(* As long as the sniffer lives, a port it hears of no more leaves the     *)
(* table in the end, whatever an earlier run left in the segment or an     *)
(* orphan writes there.                                                    *)
QuietPortLeavesTable ==
    \A p \in Ports : <>[]running => []<>Heard(p) \/ <>[](p \notin PortTable(latest))

(* A browser follows, also across restarts of the program, but only as     *)
(* long as some other port stays active: nothing is emitted while none is. *)
BrowserFollows ==
    \A p \in Ports :
        <>[]running /\ <>[](ActivePorts # {}) => []<>Heard(p) \/ <>[](p \notin shown)
=============================================================================
