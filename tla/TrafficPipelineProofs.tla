------------------------- MODULE TrafficPipelineProofs -------------------------
(***************************************************************************)
(* No packet is lost or counted twice between the sniffer and the rate a   *)
(* browser is shown, for any ports, thresholds and counter width, as long  *)
(* as no flush forgets a tracked port.                                     *)
(***************************************************************************)
EXTENDS TrafficPipeline, FiniteSetTheorems, TLAPS

(* The counter a is n packets further than the counter b; it may have      *)
(* wrapped once on the way.                                                *)
Ahead(a, b, n) == a = b + n \/ a + CounterMod = b + n

AheadBoth(c, b, n) == Ahead(c.in, b.in, n.in) /\ Ahead(c.out, b.out, n.out)

(* Every counter is below the modulus, and no port is further ahead of its *)
(* last report than the bound, so that a single wrap is all there can be.  *)
CountersOK ==
    /\ \A p \in DOMAIN accum : accum[p].in < CounterMod /\ accum[p].out < CounterMod
    /\ \A p \in DOMAIN published :
           published[p].in < CounterMod /\ published[p].out < CounterMod
    /\ \A p \in Ports : /\ captured[p].in + due[p].in <= MaxBurst
                        /\ captured[p].out + due[p].out <= MaxBurst

(* The counters of a port in the buffer of the sniffer, in shared memory   *)
(* and in the baseline of the accumulator are apart by what was captured   *)
(* and not published, and by what was published and not reported.  Only a  *)
(* sniffer that has ended, or forgets a port, has less in its buffer.      *)
TrailOK ==
    /\ \A p \in DOMAIN published \cap DOMAIN last : AheadBoth(published[p], last[p], due[p])
    /\ running =>
           /\ DOMAIN last \cup DOMAIN published \subseteq DOMAIN accum
           /\ \A p \in DOMAIN published : AheadBoth(accum[p], published[p], captured[p])
           /\ \A p \in DOMAIN last : AheadBoth(accum[p], last[p], Plus(captured[p], due[p]))

TypeInv == TypeOK /\ CountersOK

Inv == TypeInv /\ TrailOK /\ RateIsTraffic

(* No flush forgets a port: the table of tracked ports stays within        *)
(* PruneLimit, or what is in it stays young.                               *)
NothingForgotten == [][Flush => DOMAIN accum \subseteq DOMAIN accum']_vars

-----------------------------------------------------------------------------
(* Counters that wrap.                                                     *)

LEMMA WrapAround ==
    ASSUME NEW a \in 0 .. (CounterMod - 1), NEW d \in {0, 1}
    PROVE  /\ (a + d) % CounterMod \in 0 .. (CounterMod - 1)
           /\ \/ (a + d) % CounterMod = a + d
              \/ ((a + d) % CounterMod) + CounterMod = a + d
BY SnifferAssumption

(* One packet more on both sides keeps the distance.                       *)
LEMMA AheadByOneMore ==
    ASSUME NEW a \in 0 .. (CounterMod - 1), NEW b \in 0 .. (CounterMod - 1),
           NEW n \in Nat, NEW d \in {0, 1}, n + d <= MaxBurst, Ahead(a, b, n)
    PROVE  Ahead((a + d) % CounterMod, b, n + d)
<1>1. CounterMod \in Nat /\ MaxBurst \in Nat /\ MaxBurst < CounterMod
  BY SnifferAssumption, PipelineAssumption
<1>2. PICK w \in 0 .. (CounterMod - 1) :
          /\ w = (a + d) % CounterMod
          /\ w = a + d \/ w + CounterMod = a + d
  BY WrapAround
<1> QED BY <1>1, <1>2 DEF Ahead

(* The guard against the wrap recovers the distance.                       *)
LEMMA SafeDeltaIsDistance ==
    ASSUME NEW a \in 0 .. (CounterMod - 1), NEW b \in 0 .. (CounterMod - 1),
           NEW n \in 0 .. MaxBurst, Ahead(a, b, n)
    PROVE  SafeDelta(a, b) = n
BY SnifferAssumption, PipelineAssumption DEF SafeDelta, Ahead

-----------------------------------------------------------------------------
(* The buffer of the sniffer.                                              *)

LEMMA CountOutIsOne ==
    ASSUME NEW acc, IsDict(acc, Stat), NEW s
    PROVE  /\ IsDict(CountOut(acc, s), Stat)
           /\ DOMAIN acc \subseteq DOMAIN CountOut(acc, s)
           /\ \A p \in DOMAIN acc :
                  /\ CountOut(acc, s)[p].in = acc[p].in
                  /\ CountOut(acc, s)[p].out = acc[p].out + IF p = s THEN 1 ELSE 0
<1>1. CASE s \notin Ports
  BY <1>1 DEF CountOut, IsDict, Stat
<1>2. CASE s \in Ports
  <2>1. StatOf(acc, s) \in Stat
    BY SnifferAssumption DEF StatOf, IsDict, Stat, Fresh, Ages
  <2>2. PICK st : st = [in |-> StatOf(acc, s).in, out |-> StatOf(acc, s).out + 1, age |-> 0]
    OBVIOUS
  <2>3. st \in Stat
    BY <2>1, <2>2, SnifferAssumption DEF Stat, Ages
  <2>4. CountOut(acc, s) = [q \in DOMAIN acc \cup {s} |-> IF q = s THEN st ELSE acc[q]]
    BY <1>2, <2>2 DEF CountOut, Upsert
  <2> QED BY <1>2, <2>1, <2>2, <2>3, <2>4 DEF IsDict, StatOf, Stat
<1> QED BY <1>1, <1>2

LEMMA CountInIsOne ==
    ASSUME NEW acc, IsDict(acc, Stat), NEW d
    PROVE  /\ IsDict(CountIn(acc, d), Stat)
           /\ DOMAIN acc \subseteq DOMAIN CountIn(acc, d)
           /\ \A p \in DOMAIN acc :
                  /\ CountIn(acc, d)[p].in = acc[p].in + IF p = d THEN 1 ELSE 0
                  /\ CountIn(acc, d)[p].out = acc[p].out
<1>1. CASE d \notin Ports
  BY <1>1 DEF CountIn, IsDict, Stat
<1>2. CASE d \in Ports
  <2>1. StatOf(acc, d) \in Stat
    BY SnifferAssumption DEF StatOf, IsDict, Stat, Fresh, Ages
  <2>2. PICK st : st = [in |-> StatOf(acc, d).in + 1, out |-> StatOf(acc, d).out, age |-> 0]
    OBVIOUS
  <2>3. st \in Stat
    BY <2>1, <2>2, SnifferAssumption DEF Stat, Ages
  <2>4. CountIn(acc, d) = [q \in DOMAIN acc \cup {d} |-> IF q = d THEN st ELSE acc[q]]
    BY <1>2, <2>2 DEF CountIn, Upsert
  <2> QED BY <1>2, <2>1, <2>2, <2>3, <2>4 DEF IsDict, StatOf, Stat
<1> QED BY <1>1, <1>2

LEMMA WrappedType ==
    ASSUME NEW acc, IsDict(acc, Stat)
    PROVE  /\ IsDict(Wrapped(acc), Stat)
           /\ DOMAIN Wrapped(acc) = DOMAIN acc
           /\ \A p \in DOMAIN acc : /\ Wrapped(acc)[p].age = acc[p].age
                                    /\ Wrapped(acc)[p].in = acc[p].in % CounterMod
                                    /\ Wrapped(acc)[p].out = acc[p].out % CounterMod
                                    /\ Wrapped(acc)[p].in < CounterMod
                                    /\ Wrapped(acc)[p].out < CounterMod
<1>1. \A n \in Nat : n % CounterMod \in Nat /\ n % CounterMod < CounterMod
  BY SnifferAssumption
<1>2. \A p \in DOMAIN acc : acc[p] \in Stat
  BY DEF IsDict
<1> QED BY <1>1, <1>2 DEF IsDict, Wrapped, Stat

(* What one packet does to the ports that are tracked already.             *)
LEMMA CountedIsOne ==
    ASSUME NEW acc, IsDict(acc, Stat), NEW s, NEW d
    PROVE  LET new == Wrapped(Counted(acc, s, d))
           IN  /\ IsDict(new, Stat)
               /\ DOMAIN acc \subseteq DOMAIN new
               /\ \A p \in DOMAIN new : new[p].in < CounterMod /\ new[p].out < CounterMod
               /\ \A p \in DOMAIN acc :
                      /\ new[p].in = (acc[p].in + IF p = d THEN 1 ELSE 0) % CounterMod
                      /\ new[p].out = (acc[p].out + IF p = s THEN 1 ELSE 0) % CounterMod
<1>1. PICK out : out = CountOut(acc, s)
  OBVIOUS
<1>2. /\ IsDict(out, Stat) /\ DOMAIN acc \subseteq DOMAIN out
      /\ \A p \in DOMAIN acc : /\ out[p].in = acc[p].in
                               /\ out[p].out = acc[p].out + IF p = s THEN 1 ELSE 0
  BY <1>1, CountOutIsOne
<1>3. PICK both : both = CountIn(out, d)
  OBVIOUS
<1>4. /\ IsDict(both, Stat) /\ DOMAIN out \subseteq DOMAIN both
      /\ \A p \in DOMAIN out : /\ both[p].in = out[p].in + IF p = d THEN 1 ELSE 0
                               /\ both[p].out = out[p].out
  BY <1>2, <1>3, CountInIsOne
<1>5. Counted(acc, s, d) = both
  BY <1>1, <1>3 DEF Counted
<1>6. \A p \in DOMAIN acc : /\ both[p].in = acc[p].in + IF p = d THEN 1 ELSE 0
                            /\ both[p].out = acc[p].out + IF p = s THEN 1 ELSE 0
  BY <1>2, <1>4
<1> QED BY <1>2, <1>4, <1>5, <1>6, WrappedType

(* And what the synthetic traffic does.                                    *)
LEMMA MockedIsOne ==
    ASSUME NEW acc, IsDict(acc, Stat), NEW m \in SUBSET Ports
    PROVE  LET new == Wrapped(Mocked(acc, m))
           IN  /\ IsDict(new, Stat)
               /\ DOMAIN acc \subseteq DOMAIN new
               /\ \A p \in DOMAIN new \ DOMAIN acc : new[p].age = 0
               /\ \A p \in DOMAIN new : new[p].in < CounterMod /\ new[p].out < CounterMod
               /\ \A p \in DOMAIN acc :
                      /\ new[p].in = (acc[p].in + IF p \in m THEN 1 ELSE 0) % CounterMod
                      /\ new[p].out = (acc[p].out + IF p \in m THEN 1 ELSE 0) % CounterMod
<1>1. \A q \in DOMAIN acc \cup m :
          /\ StatOf(acc, q) \in Stat
          /\ q \in DOMAIN acc => StatOf(acc, q) = acc[q]
  BY SnifferAssumption DEF StatOf, IsDict, Stat, Fresh, Ages
<1>2. PICK mocked : mocked = Mocked(acc, m)
  OBVIOUS
<1>3. /\ DOMAIN mocked = DOMAIN acc \cup m
      /\ mocked \in [DOMAIN acc \cup m -> Stat]
      /\ \A p \in m \ DOMAIN acc : mocked[p].age = 0
      /\ \A p \in DOMAIN acc : /\ mocked[p].in = acc[p].in + IF p \in m THEN 1 ELSE 0
                               /\ mocked[p].out = acc[p].out + IF p \in m THEN 1 ELSE 0
  BY <1>1, <1>2, SnifferAssumption DEF Mocked, Stat, Ages
<1>4. IsDict(mocked, Stat)
  BY <1>3 DEF IsDict
<1> QED BY <1>2, <1>3, <1>4, WrappedType

LEMMA PrunedType ==
    ASSUME NEW acc, IsDict(acc, Stat)
    PROVE  /\ IsDict(Pruned(acc), Stat)
           /\ DOMAIN Pruned(acc) \subseteq DOMAIN acc
           /\ \A p \in DOMAIN Pruned(acc) : Pruned(acc)[p] = acc[p]
           /\ \A p \in DOMAIN acc : acc[p].age <= PruneAge => p \in DOMAIN Pruned(acc)
BY DEF Pruned, IsDict

-----------------------------------------------------------------------------
(* The types.                                                              *)

LEMMA EmptyDict == \A T : IsDict(<<>>, T)
BY DEF IsDict

LEMMA PlusType == \A a, b \in Count : Plus(a, b) \in Count
BY DEF Plus, Count

LEMMA TypeInit == Init => TypeInv
<1> SUFFICES ASSUME Init PROVE TypeInv
  OBVIOUS
<1>1. TypeOK
  BY EmptyDict DEF Init, TypeOK, Zero, Count
<1>2. CountersOK
  BY PipelineAssumption DEF Init, CountersOK, Zero
<1> QED BY <1>1, <1>2 DEF TypeInv

(* What the bound on the packets between two reports says of a direction. *)
LEMMA WithinBound ==
    ASSUME TypeOK', Bounded
    PROVE  \A p \in Ports : /\ captured'[p].in + due'[p].in <= MaxBurst
                           /\ captured'[p].out + due'[p].out <= MaxBurst
<1>1. \A p \in Ports : /\ captured'[p].in \in Nat /\ captured'[p].out \in Nat
                       /\ due'[p].in \in Nat /\ due'[p].out \in Nat
  BY DEF TypeOK, Count
<1>2. \A p \in Ports : (captured'[p].in + due'[p].in) + (captured'[p].out + due'[p].out) <= MaxBurst
  BY DEF Bounded, Plus
<1> QED BY <1>1, <1>2, PipelineAssumption

LEMMA PacketCallbackType ==
    ASSUME TypeInv, PacketCallback PROVE TypeInv'
<1>1. PICK f \in Flows :
          /\ accum' = Wrapped(Counted(accum, f[1], f[2]))
          /\ captured' = [p \in Ports |->
                 Plus(captured[p], [in  |-> IF p = f[2] THEN 1 ELSE 0,
                                    out |-> IF p = f[1] THEN 1 ELSE 0])]
  BY DEF PacketCallback
<1>2. /\ running' = running /\ published' = published /\ last' = last /\ latest' = latest
      /\ shown' = shown /\ orphan' = orphan /\ due' = due
  BY DEF PacketCallback
<1>3. /\ IsDict(accum', Stat)
      /\ \A p \in DOMAIN accum' : accum'[p].in < CounterMod /\ accum'[p].out < CounterMod
  BY <1>1, CountedIsOne DEF TypeInv, TypeOK
<1>4. captured' \in [Ports -> Count]
  <2>1. \A p \in Ports : [in  |-> IF p = f[2] THEN 1 ELSE 0,
                          out |-> IF p = f[1] THEN 1 ELSE 0] \in Count
    BY DEF Count
  <2> QED BY <1>1, <2>1, PlusType DEF TypeInv, TypeOK
<1>5. TypeOK'
  BY <1>2, <1>3, <1>4 DEF TypeInv, TypeOK
<1>6. CountersOK'
  <2>1. \A p \in Ports : /\ captured'[p].in + due'[p].in <= MaxBurst
                         /\ captured'[p].out + due'[p].out <= MaxBurst
    BY <1>5, WithinBound DEF PacketCallback
  <2> QED BY <1>2, <1>3, <2>1 DEF TypeInv, CountersOK
<1> QED BY <1>5, <1>6 DEF TypeInv

LEMMA FlushType ==
    ASSUME TypeInv, Flush PROVE TypeInv'
<1>1. PICK m \in SUBSET MockPorts :
          LET acc == Wrapped(Mocked(accum, m))
          IN  /\ accum' = Pruned(acc)
              /\ published' = [p \in DOMAIN published \cup DOMAIN acc |->
                     IF p \in DOMAIN acc THEN Packed(acc[p]) ELSE published[p]]
              /\ due' = [p \in Ports |->
                     Plus(Plus(due[p], captured[p]),
                          IF p \in m THEN [in |-> 1, out |-> 1] ELSE Zero)]
  BY DEF Flush
<1>2. PICK acc : acc = Wrapped(Mocked(accum, m))
  OBVIOUS
<1>3. /\ captured' = [p \in Ports |-> Zero]
      /\ running' = running /\ last' = last /\ latest' = latest
      /\ shown' = shown /\ orphan' = orphan
  BY DEF Flush
<1>4. /\ IsDict(acc, Stat)
      /\ \A p \in DOMAIN acc : acc[p].in < CounterMod /\ acc[p].out < CounterMod
  BY <1>2, MockedIsOne, SnifferAssumption DEF TypeInv, TypeOK
<1>5. /\ IsDict(accum', Stat)
      /\ \A p \in DOMAIN accum' : accum'[p].in < CounterMod /\ accum'[p].out < CounterMod
  BY <1>1, <1>2, <1>4, PrunedType
<1>6. \A p \in DOMAIN acc : /\ Packed(acc[p]) \in Entry
                            /\ Packed(acc[p]).in < CounterMod /\ Packed(acc[p]).out < CounterMod
  <2>1. \A n \in Nat : n % CounterMod \in Nat /\ n % CounterMod < CounterMod
    BY SnifferAssumption
  <2>2. \A p \in DOMAIN acc : acc[p].in \in Nat /\ acc[p].out \in Nat
    BY <1>4 DEF IsDict, Stat
  <2> QED BY <2>1, <2>2 DEF Packed, Entry, IsActive
<1>7. /\ IsDict(published', Entry)
      /\ \A p \in DOMAIN published' :
             published'[p].in < CounterMod /\ published'[p].out < CounterMod
  BY <1>1, <1>2, <1>4, <1>6 DEF TypeInv, TypeOK, CountersOK, IsDict
<1>8. due' \in [Ports -> Count] /\ captured' \in [Ports -> Count]
  <2>1. Zero \in Count /\ [in |-> 1, out |-> 1] \in Count
    BY DEF Zero, Count
  <2> QED BY <1>1, <1>3, <2>1, PlusType DEF TypeInv, TypeOK
<1>9. TypeOK'
  BY <1>3, <1>5, <1>7, <1>8 DEF TypeInv, TypeOK
<1>10. CountersOK'
  <2>1. \A p \in Ports : /\ captured'[p].in + due'[p].in <= MaxBurst
                         /\ captured'[p].out + due'[p].out <= MaxBurst
    BY <1>9, WithinBound DEF Flush
  <2> QED BY <1>5, <1>7, <2>1 DEF CountersOK
<1> QED BY <1>9, <1>10 DEF TypeInv

LEMMA SnifferExitType ==
    ASSUME TypeInv, SnifferExit PROVE TypeInv'
<1>1. /\ accum' = <<>> /\ running' = FALSE /\ captured' = [p \in Ports |-> Zero]
      /\ published' = published /\ last' = last /\ latest' = latest
      /\ shown' = shown /\ orphan' = orphan /\ due' = due
  BY DEF SnifferExit
<1>2. TypeOK'
  BY <1>1, EmptyDict DEF TypeInv, TypeOK, Zero, Count
<1>3. CountersOK'
  <2>1. \A p \in Ports : /\ captured[p].in \in Nat /\ captured[p].out \in Nat
                         /\ due[p].in \in Nat /\ due[p].out \in Nat
                         /\ captured[p].in + due[p].in <= MaxBurst
                         /\ captured[p].out + due[p].out <= MaxBurst
    BY DEF TypeInv, TypeOK, CountersOK, Count
  <2>2. \A p \in Ports : captured'[p].in = 0 /\ captured'[p].out = 0
    BY <1>1 DEF Zero
  <2>3. \A p \in Ports : /\ captured'[p].in + due'[p].in <= MaxBurst
                         /\ captured'[p].out + due'[p].out <= MaxBurst
    BY <1>1, <2>1, <2>2, PipelineAssumption
  <2>4. DOMAIN accum' = {}
    BY <1>1
  <2> QED BY <1>1, <2>3, <2>4 DEF TypeInv, CountersOK
<1> QED BY <1>2, <1>3 DEF TypeInv

(* What a pass reads, and what it stores of it.                            *)
LEMMA PassReads ==
    ASSUME Pass \/ PassBreaksOff
    PROVE  \E read \in SUBSET ActivePorts, done \in SUBSET ActivePorts, elapsed \in BOOLEAN :
               done \subseteq read /\ Process(read, done, elapsed)
<1>1. CASE Pass
  <2>1. PICK missed \in SUBSET ActivePorts, elapsed \in Elapsed :
            Process(ActivePorts \ missed, ActivePorts \ missed, elapsed)
    BY <1>1 DEF Pass
  <2>2. elapsed \in BOOLEAN /\ ActivePorts \ missed \in SUBSET ActivePorts
    BY DEF Elapsed
  <2> QED BY <2>1, <2>2
<1>2. CASE PassBreaksOff
  <2>1. PICK read \in SUBSET ActivePorts, elapsed \in Elapsed :
            \E done \in {read} \cup {read \ {p} : p \in read} : Process(read, done, elapsed)
    BY <1>2 DEF PassBreaksOff
  <2>2. PICK done \in {read} \cup {read \ {p} : p \in read} : Process(read, done, elapsed)
    BY <2>1
  <2>3. elapsed \in BOOLEAN /\ done \subseteq read /\ done \in SUBSET ActivePorts
    BY DEF Elapsed
  <2> QED BY <2>2, <2>3
<1> QED BY <1>1, <1>2

LEMMA PassType ==
    ASSUME TypeInv, Pass \/ PassBreaksOff PROVE TypeInv'
<1>1. PICK read \in SUBSET ActivePorts, done \in SUBSET ActivePorts, elapsed \in BOOLEAN :
          done \subseteq read /\ Process(read, done, elapsed)
  BY PassReads
<1>2. /\ last' = Baseline(read)
      /\ latest' = [p \in DOMAIN latest \cup done |->
             IF p \in done THEN ProcessPortData(p, elapsed) ELSE latest[p]]
      /\ due' = [p \in Ports |-> IF p \in read THEN Zero ELSE due[p]]
      /\ accum' = accum /\ running' = running /\ published' = published
      /\ orphan' = orphan /\ captured' = captured
  BY <1>1 DEF Process
<1>3. /\ read \subseteq DOMAIN published /\ done \subseteq DOMAIN published
      /\ DOMAIN published \subseteq Ports
  BY DEF ActivePorts, TypeInv, TypeOK, IsDict
<1>4. IsDict(last', [in : 0 .. (CounterMod - 1), out : 0 .. (CounterMod - 1)])
  <2>1. \A p \in read : /\ published[p].in \in 0 .. (CounterMod - 1)
                        /\ published[p].out \in 0 .. (CounterMod - 1)
    BY <1>3, SnifferAssumption DEF TypeInv, TypeOK, CountersOK, IsDict, Entry
  <2> QED BY <1>2, <1>3, <2>1 DEF Baseline, TypeInv, TypeOK, IsDict
<1>5. IsDict(latest', Snapshot)
  <2>1. \A p \in done : ProcessPortData(p, elapsed) \in Snapshot
    BY PipelineAssumption DEF ProcessPortData, Snapshot, TableAges
  <2> QED BY <1>2, <1>3, <2>1 DEF TypeInv, TypeOK, IsDict
<1>6. shown' \subseteq Ports
  <2>1. shown' = PortTable(latest') \/ shown' = shown
    BY DEF Pass, PassBreaksOff
  <2> QED BY <1>5, <2>1 DEF PortTable, IsDict, TypeInv, TypeOK
<1>7. due' \in [Ports -> Count]
  BY <1>2 DEF TypeInv, TypeOK, Zero, Count
<1>8. TypeOK'
  BY <1>2, <1>4, <1>5, <1>6, <1>7 DEF TypeInv, TypeOK
<1>9. CountersOK'
  <2>1. \A p \in Ports : /\ captured[p].in \in Nat /\ captured[p].out \in Nat
                         /\ due[p].in \in Nat /\ due[p].out \in Nat
                         /\ captured[p].in + due[p].in <= MaxBurst
                         /\ captured[p].out + due[p].out <= MaxBurst
    BY DEF TypeInv, TypeOK, CountersOK, Count
  <2>2. \A p \in Ports : \/ due'[p] = due[p]
                         \/ due'[p].in = 0 /\ due'[p].out = 0
    BY <1>2 DEF Zero
  <2>3. \A p \in Ports : /\ captured[p].in + due'[p].in <= MaxBurst
                         /\ captured[p].out + due'[p].out <= MaxBurst
    BY <2>1, <2>2, PipelineAssumption
  <2> QED BY <1>2, <2>3 DEF TypeInv, CountersOK
<1> QED BY <1>8, <1>9 DEF TypeInv

LEMMA AgedType ==
    ASSUME NEW acc, IsDict(acc, Stat)
    PROVE  /\ IsDict(Aged(acc), Stat)
           /\ DOMAIN Aged(acc) = DOMAIN acc
           /\ \A p \in DOMAIN acc : /\ Aged(acc)[p].in = acc[p].in
                                    /\ Aged(acc)[p].out = acc[p].out
<1>1. \A a \in Ages : Older(a) \in Ages
  BY SnifferAssumption DEF Older, Ages
<1>2. \A p \in DOMAIN acc : acc[p] \in Stat
  BY DEF IsDict
<1> QED BY <1>1, <1>2 DEF IsDict, Aged, Stat

LEMMA TickType ==
    ASSUME TypeInv, Tick PROVE TypeInv'
<1>1. /\ accum' = Aged(accum)
      /\ latest' = [p \in DOMAIN latest |->
             [latest[p] EXCEPT !.age = IF @ > TableTTL THEN @ ELSE @ + 1]]
      /\ running' = running /\ published' = published /\ last' = last
      /\ shown' = shown /\ orphan' = orphan /\ captured' = captured /\ due' = due
  BY DEF Tick
<1>2. IsDict(accum, Stat)
  BY DEF TypeInv, TypeOK
<1>3. IsDict(latest', Snapshot)
  BY <1>1, PipelineAssumption DEF TypeInv, TypeOK, IsDict, Snapshot, TableAges
<1>4. TypeOK'
  BY <1>1, <1>2, <1>3, AgedType DEF TypeInv, TypeOK
<1>5. CountersOK'
  BY <1>1, <1>2, AgedType DEF TypeInv, CountersOK
<1> QED BY <1>4, <1>5 DEF TypeInv

LEMMA RestartType ==
    ASSUME TypeInv, Restart PROVE TypeInv'
<1>1. /\ orphan' \in BOOLEAN /\ running' = TRUE /\ shown' = shown
      /\ accum' = <<>> /\ published' = <<>> /\ last' = <<>> /\ latest' = <<>>
      /\ captured' = [p \in Ports |-> Zero] /\ due' = [p \in Ports |-> Zero]
  BY DEF Restart, TypeInv, TypeOK
<1>2. TypeOK'
  BY <1>1, EmptyDict DEF TypeInv, TypeOK, Zero, Count
<1>3. CountersOK'
  BY <1>1, PipelineAssumption DEF CountersOK, Zero
<1> QED BY <1>2, <1>3 DEF TypeInv

LEMMA OrphanFlushType ==
    ASSUME TypeInv, OrphanFlush PROVE TypeInv'
<1>1. PICK kept \in SUBSET DOMAIN published : published' = [p \in kept |-> published[p]]
  BY DEF OrphanFlush
<1>2. /\ accum' = accum /\ running' = running /\ last' = last /\ latest' = latest
      /\ shown' = shown /\ orphan' = orphan /\ captured' = captured /\ due' = due
  BY DEF OrphanFlush
<1>3. IsDict(published', Entry)
  BY <1>1 DEF TypeInv, TypeOK, IsDict
<1>4. TypeOK'
  BY <1>2, <1>3 DEF TypeInv, TypeOK
<1>5. CountersOK'
  BY <1>1, <1>2 DEF TypeInv, CountersOK
<1> QED BY <1>4, <1>5 DEF TypeInv

LEMMA TypeStep == TypeInv /\ [Next]_vars => TypeInv'
<1> SUFFICES ASSUME TypeInv, [Next]_vars PROVE TypeInv'
  OBVIOUS
<1>1. CASE UNCHANGED vars
  BY <1>1 DEF vars, TypeInv, TypeOK, CountersOK
<1> QED BY <1>1, PacketCallbackType, FlushType, SnifferExitType, PassType, TickType,
           RestartType, OrphanFlushType DEF Next

-----------------------------------------------------------------------------
(* The trail of the packets.                                               *)

(* One packet at most, in each direction, on both sides of a distance.     *)
LEMMA AheadBothByOneMore ==
    ASSUME NEW c, NEW b, NEW n \in Count, NEW c2, NEW n2,
           c.in \in 0 .. (CounterMod - 1), c.out \in 0 .. (CounterMod - 1),
           b.in \in 0 .. (CounterMod - 1), b.out \in 0 .. (CounterMod - 1),
           AheadBoth(c, b, n),
           NEW i \in {0, 1}, NEW o \in {0, 1},
           c2.in = (c.in + i) % CounterMod, c2.out = (c.out + o) % CounterMod,
           n2.in = n.in + i, n2.out = n.out + o,
           n2.in <= MaxBurst, n2.out <= MaxBurst
    PROVE  AheadBoth(c2, b, n2)
<1>1. n.in \in Nat /\ n.out \in Nat
  BY DEF Count
<1>2. Ahead(c2.in, b.in, n2.in)
  BY <1>1, AheadByOneMore DEF AheadBoth
<1>3. Ahead(c2.out, b.out, n2.out)
  BY <1>1, AheadByOneMore DEF AheadBoth
<1> QED BY <1>2, <1>3 DEF AheadBoth

(* The ranges the lemmas above ask for.                                    *)
LEMMA Ranges ==
    ASSUME TypeInv
    PROVE  /\ \A p \in DOMAIN accum : /\ p \in Ports
                                      /\ accum[p].in \in 0 .. (CounterMod - 1)
                                      /\ accum[p].out \in 0 .. (CounterMod - 1)
           /\ \A p \in DOMAIN published : /\ p \in Ports
                                          /\ published[p].in \in 0 .. (CounterMod - 1)
                                          /\ published[p].out \in 0 .. (CounterMod - 1)
           /\ \A p \in DOMAIN last : /\ p \in Ports
                                     /\ last[p].in \in 0 .. (CounterMod - 1)
                                     /\ last[p].out \in 0 .. (CounterMod - 1)
           /\ \A p \in Ports : /\ captured[p] \in Count /\ due[p] \in Count
                               /\ captured[p].in + due[p].in <= MaxBurst
                               /\ captured[p].out + due[p].out <= MaxBurst
<1>1. \A p \in DOMAIN accum : /\ p \in Ports
                              /\ accum[p].in \in 0 .. (CounterMod - 1)
                              /\ accum[p].out \in 0 .. (CounterMod - 1)
  <2>1. \A p \in DOMAIN accum : p \in Ports /\ accum[p].in \in Nat /\ accum[p].out \in Nat
    BY DEF TypeInv, TypeOK, IsDict, Stat
  <2> QED BY <2>1, SnifferAssumption DEF TypeInv, CountersOK
<1>2. \A p \in DOMAIN published : /\ p \in Ports
                                  /\ published[p].in \in 0 .. (CounterMod - 1)
                                  /\ published[p].out \in 0 .. (CounterMod - 1)
  <2>1. \A p \in DOMAIN published :
            p \in Ports /\ published[p].in \in Nat /\ published[p].out \in Nat
    BY DEF TypeInv, TypeOK, IsDict, Entry
  <2> QED BY <2>1, SnifferAssumption DEF TypeInv, CountersOK
<1>3. \A p \in DOMAIN last : /\ p \in Ports
                             /\ last[p].in \in 0 .. (CounterMod - 1)
                             /\ last[p].out \in 0 .. (CounterMod - 1)
  BY DEF TypeInv, TypeOK, IsDict
<1>4. \A p \in Ports : /\ captured[p] \in Count /\ due[p] \in Count
                       /\ captured[p].in + due[p].in <= MaxBurst
                       /\ captured[p].out + due[p].out <= MaxBurst
  BY DEF TypeInv, TypeOK, CountersOK
<1> QED BY <1>1, <1>2, <1>3, <1>4

LEMMA CaptureTrail ==
    ASSUME TypeInv, TypeInv', TrailOK, PacketCallback PROVE TrailOK'
<1>1. PICK f \in Flows :
          /\ accum' = Wrapped(Counted(accum, f[1], f[2]))
          /\ captured' = [p \in Ports |->
                 Plus(captured[p], [in  |-> IF p = f[2] THEN 1 ELSE 0,
                                    out |-> IF p = f[1] THEN 1 ELSE 0])]
  BY DEF PacketCallback
<1>2. /\ running /\ running' = running
      /\ published' = published /\ last' = last /\ due' = due
  BY DEF PacketCallback
<1>3. /\ DOMAIN accum \subseteq DOMAIN accum'
      /\ \A p \in DOMAIN accum :
             /\ accum'[p].in = (accum[p].in + IF p = f[2] THEN 1 ELSE 0) % CounterMod
             /\ accum'[p].out = (accum[p].out + IF p = f[1] THEN 1 ELSE 0) % CounterMod
  BY <1>1, CountedIsOne DEF TypeInv, TypeOK
<1>4. \A p \in Ports :
          /\ captured'[p].in = captured[p].in + IF p = f[2] THEN 1 ELSE 0
          /\ captured'[p].out = captured[p].out + IF p = f[1] THEN 1 ELSE 0
  BY <1>1 DEF Plus
<1>5. \A p \in DOMAIN published : AheadBoth(accum'[p], published[p], captured'[p])
  <2> SUFFICES ASSUME NEW p \in DOMAIN published
               PROVE  AheadBoth(accum'[p], published[p], captured'[p])
    OBVIOUS
  <2>1. p \in DOMAIN accum /\ AheadBoth(accum[p], published[p], captured[p])
    BY <1>2 DEF TrailOK
  <2>2. PICK i \in {0, 1}, o \in {0, 1} :
            i = (IF p = f[2] THEN 1 ELSE 0) /\ o = (IF p = f[1] THEN 1 ELSE 0)
    OBVIOUS
  <2>3. captured'[p].in <= MaxBurst /\ captured'[p].out <= MaxBurst
    <3>1. /\ p \in Ports /\ due'[p].in \in Nat /\ due'[p].out \in Nat
          /\ captured'[p].in \in Nat /\ captured'[p].out \in Nat
      BY Ranges DEF TypeInv, TypeOK, Count
    <3> QED BY <3>1, PipelineAssumption DEF TypeInv, CountersOK
  <2> QED BY <1>3, <1>4, <2>1, <2>2, <2>3, Ranges, AheadBothByOneMore
<1>6. \A p \in DOMAIN last : AheadBoth(accum'[p], last[p], Plus(captured'[p], due[p]))
  <2> SUFFICES ASSUME NEW p \in DOMAIN last
               PROVE  AheadBoth(accum'[p], last[p], Plus(captured'[p], due[p]))
    OBVIOUS
  <2>1. p \in DOMAIN accum /\ AheadBoth(accum[p], last[p], Plus(captured[p], due[p]))
    BY <1>2 DEF TrailOK
  <2>2. PICK i \in {0, 1}, o \in {0, 1} :
            i = (IF p = f[2] THEN 1 ELSE 0) /\ o = (IF p = f[1] THEN 1 ELSE 0)
    OBVIOUS
  <2>3. p \in Ports /\ Plus(captured[p], due[p]) \in Count
    BY Ranges, PlusType
  <2>4. PICK n, n2 : n = Plus(captured[p], due[p]) /\ n2 = Plus(captured'[p], due[p])
    OBVIOUS
  <2>5. /\ n2.in = n.in + i /\ n2.out = n.out + o
        /\ n2.in <= MaxBurst /\ n2.out <= MaxBurst
    <3>1. /\ due[p].in \in Nat /\ due[p].out \in Nat
          /\ captured[p].in \in Nat /\ captured[p].out \in Nat
      BY <2>3, Ranges DEF Count
    <3>2. captured'[p].in + due[p].in <= MaxBurst /\ captured'[p].out + due[p].out <= MaxBurst
      BY <1>2, <2>3 DEF TypeInv, CountersOK
    <3> QED BY <1>4, <2>2, <2>3, <2>4, <3>1, <3>2 DEF Plus
  <2> QED BY <1>3, <2>1, <2>2, <2>3, <2>4, <2>5, Ranges, AheadBothByOneMore
<1> QED BY <1>2, <1>3, <1>5, <1>6 DEF TrailOK

(* A flush publishes the buffer as it is; with the synthetic packets.      *)
LEMMA FlushTrail ==
    ASSUME TypeInv, TypeInv', TrailOK, Flush, DOMAIN accum \subseteq DOMAIN accum' PROVE TrailOK'
<1>1. PICK m \in SUBSET MockPorts :
          LET acc == Wrapped(Mocked(accum, m))
          IN  /\ accum' = Pruned(acc)
              /\ published' = [p \in DOMAIN published \cup DOMAIN acc |->
                     IF p \in DOMAIN acc THEN Packed(acc[p]) ELSE published[p]]
              /\ due' = [p \in Ports |->
                     Plus(Plus(due[p], captured[p]),
                          IF p \in m THEN [in |-> 1, out |-> 1] ELSE Zero)]
  BY DEF Flush
<1>2. /\ captured' = [p \in Ports |-> Zero]
      /\ running /\ running' = running /\ last' = last
  BY DEF Flush
<1>3. PICK acc : acc = Wrapped(Mocked(accum, m))
  OBVIOUS
<1>4. /\ IsDict(acc, Stat)
      /\ DOMAIN accum \subseteq DOMAIN acc
      /\ \A p \in DOMAIN acc \ DOMAIN accum : acc[p].age = 0
      /\ \A p \in DOMAIN acc : acc[p].in < CounterMod /\ acc[p].out < CounterMod
      /\ \A p \in DOMAIN accum :
             /\ acc[p].in = (accum[p].in + IF p \in m THEN 1 ELSE 0) % CounterMod
             /\ acc[p].out = (accum[p].out + IF p \in m THEN 1 ELSE 0) % CounterMod
  BY <1>3, MockedIsOne, SnifferAssumption DEF TypeInv, TypeOK
<1>5. DOMAIN accum' = DOMAIN acc /\ \A p \in DOMAIN acc : accum'[p] = acc[p]
  <2>1. \A p \in DOMAIN acc \ DOMAIN accum : acc[p].age <= PruneAge
    BY <1>4, SnifferAssumption
  <2> QED BY <1>1, <1>3, <1>4, <2>1, PrunedType
<1>6. DOMAIN published' = DOMAIN acc
  BY <1>1, <1>2, <1>3, <1>4 DEF TrailOK
<1>7. \A p \in DOMAIN acc : /\ acc[p].in \in 0 .. (CounterMod - 1)
                            /\ acc[p].out \in 0 .. (CounterMod - 1)
                            /\ published'[p].in = acc[p].in
                            /\ published'[p].out = acc[p].out
  <2>1. \A n \in 0 .. (CounterMod - 1) : n % CounterMod = n
    BY SnifferAssumption
  <2>2. \A p \in DOMAIN acc : acc[p].in \in Nat /\ acc[p].out \in Nat
    BY <1>4 DEF IsDict, Stat
  <2>3. \A p \in DOMAIN acc : /\ acc[p].in \in 0 .. (CounterMod - 1)
                              /\ acc[p].out \in 0 .. (CounterMod - 1)
    BY <1>4, <2>2, SnifferAssumption
  <2>4. \A p \in DOMAIN acc : published'[p] = Packed(acc[p])
    BY <1>1, <1>3
  <2>5. \A p \in DOMAIN acc : /\ published'[p].in = acc[p].in % CounterMod
                              /\ published'[p].out = acc[p].out % CounterMod
    <3>1. \A r : Packed(r).in = r.in % CounterMod /\ Packed(r).out = r.out % CounterMod
      BY DEF Packed
    <3> QED BY <2>4, <3>1
  <2> QED BY <2>1, <2>3, <2>5
<1>8. \A p \in DOMAIN published' : AheadBoth(accum'[p], published'[p], captured'[p])
  <2>1. \A p \in DOMAIN acc : captured'[p].in = 0 /\ captured'[p].out = 0
    BY <1>2, <1>4 DEF IsDict, Zero
  <2> QED BY <1>5, <1>6, <1>7, <2>1, SnifferAssumption DEF AheadBoth, Ahead
<1>9. \A p \in DOMAIN last : AheadBoth(acc[p], last[p], due'[p])
  <2> SUFFICES ASSUME NEW p \in DOMAIN last PROVE AheadBoth(acc[p], last[p], due'[p])
    OBVIOUS
  <2>1. p \in DOMAIN accum /\ AheadBoth(accum[p], last[p], Plus(captured[p], due[p]))
    BY <1>2 DEF TrailOK
  <2>2. PICK i \in {0, 1} : i = IF p \in m THEN 1 ELSE 0
    OBVIOUS
  <2>3. p \in Ports /\ Plus(captured[p], due[p]) \in Count
    BY Ranges, PlusType
  <2>4. PICK n, n2 : n = Plus(captured[p], due[p]) /\ n2 = due'[p]
    OBVIOUS
  <2>5. /\ due[p].in \in Nat /\ due[p].out \in Nat
        /\ captured[p].in \in Nat /\ captured[p].out \in Nat
    BY <2>3, Ranges DEF Count
  <2>6. n2.in = n.in + i /\ n2.out = n.out + i
    <3>1. due'[p] = Plus(Plus(due[p], captured[p]),
                         IF p \in m THEN [in |-> 1, out |-> 1] ELSE Zero)
      BY <1>1, <2>3
    <3> QED BY <2>2, <2>4, <2>5, <3>1 DEF Plus, Zero
  <2>7. n2.in <= MaxBurst /\ n2.out <= MaxBurst
    <3>1. captured'[p].in = 0 /\ captured'[p].out = 0
      BY <1>2, <2>3 DEF Zero
    <3>2. /\ captured'[p].in + due'[p].in <= MaxBurst
          /\ captured'[p].out + due'[p].out <= MaxBurst
      BY <2>3 DEF TypeInv, CountersOK
    <3>3. due'[p].in \in Nat /\ due'[p].out \in Nat
      BY <2>3 DEF TypeInv, TypeOK, Count
    <3> QED BY <2>4, <3>1, <3>2, <3>3
  <2> QED BY <1>4, <2>1, <2>2, <2>3, <2>4, <2>6, <2>7, Ranges, AheadBothByOneMore
<1>10. \A p \in DOMAIN last : /\ p \in DOMAIN acc
                              /\ Plus(captured'[p], due'[p]).in = due'[p].in
                              /\ Plus(captured'[p], due'[p]).out = due'[p].out
  <2>1. \A p \in Ports : due'[p].in \in Nat /\ due'[p].out \in Nat
    BY DEF TypeInv, TypeOK, Count
  <2>2. \A p \in DOMAIN last : p \in Ports /\ p \in DOMAIN acc
    BY <1>2, <1>4, Ranges DEF TrailOK
  <2> QED BY <1>2, <2>1, <2>2 DEF Plus, Zero
<1>11. \A p \in DOMAIN last : AheadBoth(accum'[p], last[p], Plus(captured'[p], due'[p]))
  BY <1>5, <1>9, <1>10 DEF AheadBoth
<1>12. \A p \in DOMAIN last : AheadBoth(published'[p], last[p], due'[p])
  BY <1>7, <1>9, <1>10 DEF AheadBoth
<1> QED BY <1>2, <1>5, <1>6, <1>8, <1>10, <1>11, <1>12 DEF TrailOK

(* A pass reports exactly what is due, and starts over from what it read.  *)
LEMMA PassTrail ==
    ASSUME TypeInv, TypeInv', TrailOK, RateIsTraffic, Pass \/ PassBreaksOff
    PROVE  TrailOK' /\ RateIsTraffic'
<1>1. PICK read \in SUBSET ActivePorts, done \in SUBSET ActivePorts, elapsed \in BOOLEAN :
          done \subseteq read /\ Process(read, done, elapsed)
  BY PassReads
<1>2. /\ last' = Baseline(read)
      /\ latest' = [p \in DOMAIN latest \cup done |->
             IF p \in done THEN ProcessPortData(p, elapsed) ELSE latest[p]]
      /\ due' = [p \in Ports |-> IF p \in read THEN Zero ELSE due[p]]
      /\ accum' = accum /\ running' = running /\ published' = published
      /\ captured' = captured
  BY <1>1 DEF Process
<1>3. read \subseteq DOMAIN published /\ DOMAIN published \subseteq Ports
  BY Ranges DEF ActivePorts
<1>4. /\ DOMAIN last' = DOMAIN last \cup read
      /\ \A p \in read : last'[p].in = published[p].in /\ last'[p].out = published[p].out
      /\ \A p \in DOMAIN last \ read : last'[p] = last[p]
  BY <1>2 DEF Baseline
<1>5. /\ \A p \in read : due'[p].in = 0 /\ due'[p].out = 0
      /\ \A p \in Ports \ read : due'[p] = due[p]
  BY <1>2, <1>3 DEF Zero
<1>6. TrailOK'
  <2>1. ASSUME NEW p \in DOMAIN published, p \in DOMAIN last'
        PROVE  AheadBoth(published[p], last'[p], due'[p])
    <3>1. CASE p \in read
      BY <1>4, <1>5, <3>1, Ranges, SnifferAssumption DEF AheadBoth, Ahead
    <3>2. CASE p \notin read
      BY <1>3, <1>4, <1>5, <2>1, <3>2 DEF TrailOK
    <3> QED BY <3>1, <3>2
  <2>2. ASSUME running, NEW p \in DOMAIN last'
        PROVE  p \in DOMAIN accum /\ AheadBoth(accum[p], last'[p], Plus(captured[p], due'[p]))
    <3>1. CASE p \in read
      <4>1. p \in DOMAIN accum /\ AheadBoth(accum[p], published[p], captured[p])
        BY <1>3, <2>2, <3>1 DEF TrailOK
      <4>2. captured[p].in \in Nat /\ captured[p].out \in Nat
        BY <1>3, <3>1, Ranges DEF Count
      <4>3. /\ Plus(captured[p], due'[p]).in = captured[p].in
            /\ Plus(captured[p], due'[p]).out = captured[p].out
        BY <1>5, <3>1, <4>2 DEF Plus
      <4> QED BY <1>4, <3>1, <4>1, <4>3 DEF AheadBoth
    <3>2. CASE p \notin read
      <4>1. p \in DOMAIN last /\ p \in Ports /\ last'[p] = last[p] /\ due'[p] = due[p]
        BY <1>4, <1>5, <2>2, <3>2, Ranges
      <4> QED BY <2>2, <4>1 DEF TrailOK
    <3> QED BY <3>1, <3>2
  <2> QED BY <1>2, <2>1, <2>2 DEF TrailOK
<1>7. ASSUME NEW p \in read PROVE ProcessPortData(p, elapsed).exact = TRUE
  <2>1. CASE p \in DOMAIN last /\ elapsed
    <3>1. AheadBoth(published[p], last[p], due[p])
      BY <1>3, <2>1 DEF TrailOK
    <3>2. /\ due[p].in \in 0 .. MaxBurst /\ due[p].out \in 0 .. MaxBurst
          /\ due[p] = [in |-> due[p].in, out |-> due[p].out]
      <4>1. p \in Ports /\ due[p] \in Count /\ captured[p] \in Count
        BY <1>3, Ranges
      <4>2. captured[p].in + due[p].in <= MaxBurst /\ captured[p].out + due[p].out <= MaxBurst
        BY <4>1, Ranges
      <4> QED BY <4>1, <4>2, PipelineAssumption DEF Count
    <3>3. /\ SafeDelta(published[p].in, last[p].in) = due[p].in
          /\ SafeDelta(published[p].out, last[p].out) = due[p].out
      BY <1>3, <2>1, <3>1, <3>2, Ranges, SafeDeltaIsDistance DEF AheadBoth
    <3>4. CalculateDelta(p, published[p], elapsed) = due[p]
      BY <2>1, <3>2, <3>3 DEF CalculateDelta
    <3> QED BY <2>1, <3>4 DEF ProcessPortData
  <2>2. CASE ~(p \in DOMAIN last /\ elapsed)
    BY <2>2 DEF ProcessPortData, CalculateDelta
  <2> QED BY <2>1, <2>2
<1>8. RateIsTraffic'
  <2>1. \A p \in DOMAIN latest' : p \in done \/ (p \in DOMAIN latest /\ latest'[p] = latest[p])
    BY <1>2
  <2>2. \A p \in done : latest'[p].exact = TRUE
    BY <1>1, <1>2, <1>7
  <2> QED BY <2>1, <2>2 DEF RateIsTraffic
<1> QED BY <1>6, <1>8

LEMMA TickTrail ==
    ASSUME TypeInv, TrailOK, RateIsTraffic, Tick PROVE TrailOK' /\ RateIsTraffic'
<1>1. /\ accum' = Aged(accum)
      /\ latest' = [p \in DOMAIN latest |->
             [latest[p] EXCEPT !.age = IF @ > TableTTL THEN @ ELSE @ + 1]]
      /\ running' = running /\ published' = published /\ last' = last
      /\ captured' = captured /\ due' = due
  BY DEF Tick
<1>2. /\ DOMAIN accum' = DOMAIN accum
      /\ \A p \in DOMAIN accum : accum'[p].in = accum[p].in /\ accum'[p].out = accum[p].out
  BY <1>1, AgedType DEF TypeInv, TypeOK
<1>3. TrailOK'
  BY <1>1, <1>2 DEF TrailOK, AheadBoth
<1>4. RateIsTraffic'
  <2>1. \A p \in DOMAIN latest : latest'[p].exact = latest[p].exact
    BY <1>1 DEF TypeInv, TypeOK, IsDict, Snapshot
  <2> QED BY <1>1, <2>1 DEF RateIsTraffic
<1> QED BY <1>3, <1>4

(* What the end of the sniffer, a restart and an orphan take away takes no *)
(* packet out of a rate.                                                   *)
LEMMA EndsTrail ==
    ASSUME TypeInv, TrailOK, RateIsTraffic, SnifferExit \/ Restart \/ OrphanFlush
    PROVE  TrailOK' /\ RateIsTraffic'
<1>1. CASE SnifferExit
  <2>1. /\ running' = FALSE
        /\ published' = published /\ last' = last /\ latest' = latest /\ due' = due
    BY <1>1 DEF SnifferExit
  <2> QED BY <2>1 DEF TrailOK, RateIsTraffic
<1>2. CASE Restart
  <2>1. accum' = <<>> /\ published' = <<>> /\ last' = <<>> /\ latest' = <<>>
    BY <1>2 DEF Restart
  <2>2. DOMAIN <<>> = {}
    OBVIOUS
  <2> QED BY <2>1, <2>2 DEF TrailOK, RateIsTraffic
<1>3. CASE OrphanFlush
  <2>1. PICK kept \in SUBSET DOMAIN published : published' = [p \in kept |-> published[p]]
    BY <1>3 DEF OrphanFlush
  <2>2. /\ accum' = accum /\ running' = running /\ last' = last /\ latest' = latest
        /\ captured' = captured /\ due' = due
    BY <1>3 DEF OrphanFlush
  <2>3. DOMAIN published' \subseteq DOMAIN published
        /\ \A p \in DOMAIN published' : published'[p] = published[p]
    BY <2>1
  <2> QED BY <2>2, <2>3 DEF TrailOK, RateIsTraffic
<1> QED BY <1>1, <1>2, <1>3

LEMMA TrailStep ==
    Inv /\ [Next]_vars /\ [Flush => DOMAIN accum \subseteq DOMAIN accum']_vars => Inv'
<1> SUFFICES ASSUME Inv, [Next]_vars, [Flush => DOMAIN accum \subseteq DOMAIN accum']_vars
             PROVE  Inv'
  OBVIOUS
<1>1. TypeInv /\ TypeInv' /\ TrailOK /\ RateIsTraffic
  BY TypeStep DEF Inv
<1>2. CASE UNCHANGED vars
  BY <1>1, <1>2 DEF vars, Inv, TrailOK, RateIsTraffic
<1>3. CASE Flush /\ DOMAIN accum \subseteq DOMAIN accum'
  <2>1. latest' = latest
    BY <1>3 DEF Flush
  <2> QED BY <1>1, <1>3, <2>1, FlushTrail DEF Inv, RateIsTraffic
<1>4. CASE PacketCallback
  <2>1. latest' = latest
    BY <1>4 DEF PacketCallback
  <2> QED BY <1>1, <1>4, <2>1, CaptureTrail DEF Inv, RateIsTraffic
<1>5. CASE Pass \/ PassBreaksOff
  BY <1>1, <1>5, PassTrail DEF Inv
<1>6. CASE Tick
  BY <1>1, <1>6, TickTrail DEF Inv
<1>7. CASE SnifferExit \/ Restart \/ OrphanFlush
  BY <1>1, <1>7, EndsTrail DEF Inv
<1> QED BY <1>2, <1>3, <1>4, <1>5, <1>6, <1>7 DEF Next

LEMMA Initially == Init => Inv
<1> SUFFICES ASSUME Init PROVE Inv
  OBVIOUS
<1>1. DOMAIN <<>> = {}
  OBVIOUS
<1> QED BY <1>1, TypeInit DEF Init, Inv, TrailOK, RateIsTraffic

-----------------------------------------------------------------------------
(* The theorems.                                                           *)

(* The buffers, the counters and the tables have their types, whatever is  *)
(* pruned.                                                                 *)
THEOREM TypeCorrect == Spec => []TypeOK
<1>1. TypeInv => TypeOK
  BY DEF TypeInv
<1> QED BY TypeInit, TypeStep, <1>1, PTL DEF Spec

(* Every rate stands for exactly the packets since the last one, as long   *)
(* as no flush forgets a tracked port.                                     *)
THEOREM NothingLostOrCountedTwice == Spec /\ NothingForgotten => []RateIsTraffic
<1>1. Inv => RateIsTraffic
  BY DEF Inv
<1> QED BY Initially, TrailStep, <1>1, PTL DEF Spec, NothingForgotten

(* Which is so where there are no more ports than PruneLimit.              *)
THEOREM FewPortsAreNotForgotten ==
    ASSUME IsFiniteSet(Ports), Cardinality(Ports) <= PruneLimit
    PROVE  Spec => []RateIsTraffic
<1>1. ASSUME TypeInv, Flush PROVE DOMAIN accum \subseteq DOMAIN accum'
  <2>1. PICK m \in SUBSET MockPorts : accum' = Pruned(Wrapped(Mocked(accum, m)))
    BY <1>1 DEF Flush
  <2>2. PICK acc : acc = Wrapped(Mocked(accum, m))
    OBVIOUS
  <2>3. IsDict(acc, Stat) /\ DOMAIN accum \subseteq DOMAIN acc
    BY <1>1, <2>2, MockedIsOne, SnifferAssumption DEF TypeInv, TypeOK
  <2>4. Cardinality(DOMAIN acc) <= Cardinality(Ports)
    BY <2>3, FS_Subset DEF IsDict
  <2>5. Cardinality(Ports) \in Nat /\ Cardinality(DOMAIN acc) \in Nat
    BY <2>3, FS_Subset, FS_CardinalityType DEF IsDict
  <2>6. ~(Cardinality(DOMAIN acc) > PruneLimit)
    BY <2>4, <2>5, SnifferAssumption
  <2> QED BY <2>1, <2>2, <2>3, <2>6 DEF Pruned
<1>2. TypeInv /\ [Next]_vars => [Flush => DOMAIN accum \subseteq DOMAIN accum']_vars
  BY <1>1
<1> QED BY TypeInit, TypeStep, <1>2, NothingLostOrCountedTwice, PTL DEF Spec, NothingForgotten
=============================================================================
