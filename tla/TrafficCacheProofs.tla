--------------------------- MODULE TrafficCacheProofs ---------------------------
(***************************************************************************)
(* The eviction of stale snapshots finds all of them, and costs a port a   *)
(* recent one only if its deque was full, or all stale when the eviction   *)
(* began, for any ports, sizes and ages and however the two threads are    *)
(* interleaved.                                                            *)
(***************************************************************************)
EXTENDS TrafficCache, FiniteSetTheorems, TLAPS

(* The snapshots of a deque are in the order of time. *)
Sorted(d) == \A i, k \in 1 .. Len(d) : i <= k => d[i] <= d[k]

UpTo(d, time) == \A i \in 1 .. Len(d) : d[i] <= time

(* Every port of the dict has a deque of its own. *)
DequesOK ==
    /\ IsFiniteSet(DOMAIN cache)
    /\ \A p, q \in DOMAIN cache : cache[p] = cache[q] => p = q
    /\ \A d \in 1 .. Len(deques) : Sorted(deques[d]) /\ UpTo(deques[d], now)

(* What the event loop knows: no snapshot is newer than the one it adds,   *)
(* and the deque in its hand is, or was, one of the cache.                 *)
LoopOK(l) ==
    /\ l.pc \in {"idle", "add", "create", "lookup", "append", "scan", "row"}
    /\ l.pc # "idle" =>
           /\ l.time <= now /\ now < l.time + MaxAge
           /\ \A d \in 1 .. Len(deques) : UpTo(deques[d], l.time)
    /\ l.pc \in {"create", "lookup", "append"} => l.port \in Ports
    /\ l.pc = "create" => l.port \notin DOMAIN cache
    /\ l.pc = "append" => l.dq \in 1 .. Len(deques)

Evicting(j) == j.pc \in {"evict", "oldest", "pop", "empty", "del"}

InHand(j) == j.pc \in {"oldest", "pop", "empty", "del"}

Recent(d, cutoff) == d # <<>> /\ d[Len(d)] >= cutoff

Full(d) == Len(d) = MaxEntries

(* More than one snapshot. *)
Several(d) == Len(d) > 1

(* What an eviction knows: the ports it is done with have no stale         *)
(* snapshot, and those that were not quiet when it began have a recent     *)
(* one.  The port in its hand is still in the dict, and is deleted only if *)
(* it was quiet.  A deque that is to be popped had a stale snapshot, and,  *)
(* but for a quiet port, a recent one behind it: it still has both, or is  *)
(* full.                                                                   *)
JobOK(j) ==
    /\ j.pc \in {"idle", "scan", "row", "evict", "oldest", "pop", "empty", "del"}
    /\ Evicting(j) =>
           /\ j.time + MaxAge <= now
           /\ j.ports \subseteq DOMAIN cache
           /\ \A p \in DOMAIN cache \ j.ports :
                  Stale(deques[cache[p]], j.time) => InHand(j) /\ p = j.port
           /\ \A p \in j.ports : p \in quiet \/ Recent(deques[cache[p]], j.time)
    /\ InHand(j) =>
           /\ j.port \in DOMAIN cache \ j.ports /\ cache[j.port] = j.dq
           /\ j.port \in quiet \/ Recent(deques[j.dq], j.time)
    /\ j.pc = "pop" =>
           /\ deques[j.dq] # <<>>
           /\ Stale(deques[j.dq], j.time) \/ Full(deques[j.dq])
           /\ j.port \in quiet \/ Several(deques[j.dq])
    /\ j.pc = "empty" => ~ Stale(deques[j.dq], j.time)
    /\ j.pc = "del" => j.port \in quiet

Inv ==
    /\ TypeOK
    /\ DequesOK
    /\ LoopOK(thread["loop"])
    /\ JobOK(thread["job"])

-----------------------------------------------------------------------------
(* Deques.                                                                 *)

(* The newest snapshot goes to the end; the order stays, and the oldest    *)
(* one is not older than before.                                           *)
LEMMA AppendedFacts ==
    ASSUME NEW d \in Seq(Times), NEW ts \in Times, Len(d) <= MaxEntries, Sorted(d), UpTo(d, ts)
    PROVE  /\ Appended(d, ts) \in Seq(Times) /\ Appended(d, ts) # <<>>
           /\ Len(Appended(d, ts)) <= MaxEntries
           /\ Sorted(Appended(d, ts)) /\ UpTo(Appended(d, ts), ts)
           /\ d # <<>> => Appended(d, ts)[1] >= d[1]
           /\ d = <<>> => Appended(d, ts)[1] = ts
           /\ Appended(d, ts)[Len(Appended(d, ts))] = ts
           /\ IF Full(d) THEN Full(Appended(d, ts))
              ELSE Len(Appended(d, ts)) = Len(d) + 1 /\ (d # <<>> => Appended(d, ts)[1] = d[1])
<1> DEFINE e == IF Len(d) = MaxEntries THEN Tail(d) ELSE d
<1> USE CacheAssumption DEF CacheAssumption
<1>1. /\ e \in Seq(Times) /\ Len(e) < MaxEntries /\ Len(e) \in Nat
      /\ d # <<>> /\ e # <<>> => e[1] >= d[1]
      /\ d = <<>> => e = <<>>
  <2>1. CASE Len(d) = MaxEntries
    <3>1. /\ e = Tail(d) /\ Len(d) > 0
      BY <2>1
    <3>2. e \in Seq(Times) /\ Len(e) = Len(d) - 1 /\ \A i \in 1 .. Len(e) : e[i] = d[i + 1]
      BY <3>1
    <3> HIDE DEF e
    <3>3. e # <<>> => 1 \in 1 .. Len(e) /\ 2 \in 1 .. Len(d) /\ e[1] = d[2]
      BY <3>2
    <3>4. e # <<>> => d[1] <= d[2]
      BY <3>3 DEF Sorted
    <3>5. e # <<>> => d[1] \in Nat /\ d[2] \in Nat
      BY <3>3 DEF Times
    <3> QED BY <2>1, <3>1, <3>2, <3>3, <3>4, <3>5
  <2>2. CASE Len(d) # MaxEntries
    BY <2>2 DEF Times
  <2> QED BY <2>1, <2>2
<1>2. Sorted(e) /\ UpTo(e, ts)
  <2>1. CASE Len(d) = MaxEntries
    <3>1. Len(e) = Len(d) - 1 /\ \A i \in 1 .. Len(e) : e[i] = d[i + 1]
      BY <2>1
    <3> HIDE DEF e
    <3>2. \A i \in 1 .. Len(e) : i + 1 \in 1 .. Len(d)
      BY <3>1
    <3> QED BY SMTT(20), <1>1, <3>1, <3>2 DEF Sorted, UpTo
  <2>2. CASE Len(d) # MaxEntries
    BY <2>2
  <2> QED BY <2>1, <2>2
<1>3. Appended(d, ts) = Append(e, ts)
  BY DEF Appended
<1>9. IF Full(d) THEN Len(e) + 1 = MaxEntries ELSE e = d
  BY DEF Full
<1> HIDE DEF e
<1> DEFINE a == Append(e, ts)
<1>4. /\ a \in Seq(Times) /\ Len(a) = Len(e) + 1 /\ a[Len(e) + 1] = ts
      /\ \A i \in 1 .. Len(e) : a[i] = e[i]
  BY <1>1
<1> HIDE DEF a
<1>5. UpTo(a, ts)
  <2>1. ts <= ts /\ \A i \in 1 .. Len(e) : e[i] <= ts
    BY <1>2 DEF UpTo, Times
  <2>2. \A i \in 1 .. Len(a) : i = Len(e) + 1 \/ i \in 1 .. Len(e)
    BY <1>1, <1>4
  <2> QED BY <1>4, <2>1, <2>2 DEF UpTo
<1>6. Sorted(a)
  <2> SUFFICES ASSUME NEW i \in 1 .. Len(a), NEW k \in 1 .. Len(a), i <= k PROVE a[i] <= a[k]
    BY DEF Sorted
  <2>1. CASE k = Len(e) + 1
    BY <1>4, <1>5, <2>1 DEF UpTo
  <2>2. CASE k # Len(e) + 1
    <3>1. i \in 1 .. Len(e) /\ k \in 1 .. Len(e)
      BY <1>1, <1>4, <2>2
    <3> QED BY <1>2, <1>4, <3>1 DEF Sorted
  <2> QED BY <2>1, <2>2
<1>7. d # <<>> => a[1] >= d[1]
  <2>1. CASE e = <<>>
    <3>1. d # <<>> => a[1] = ts /\ d[1] <= ts
      BY <1>4, <2>1 DEF UpTo
    <3>2. d # <<>> => d[1] \in Nat
      BY DEF Times
    <3> QED BY <3>1, <3>2 DEF Times
  <2>2. CASE e # <<>>
    <3>1. a[1] = e[1]
      BY <1>1, <1>4, <2>2
    <3> QED BY <1>1, <2>2, <3>1
  <2> QED BY <2>1, <2>2
<1>8. d = <<>> => a[1] = ts
  BY <1>1, <1>4
<1>10. a[Len(a)] = ts
  BY <1>4
<1>11. IF Full(d) THEN Full(a) ELSE Len(a) = Len(d) + 1 /\ (d # <<>> => a[1] = d[1])
  BY <1>4, <1>9 DEF Full
<1> QED BY <1>1, <1>3, <1>4, <1>5, <1>6, <1>7, <1>8, <1>10, <1>11 DEF a

(* What is left without the oldest snapshot is in order. *)
LEMMA TailFacts ==
    ASSUME NEW d \in Seq(Times), d # <<>>, Len(d) <= MaxEntries, Sorted(d),
           NEW time, UpTo(d, time)
    PROVE  /\ Tail(d) \in Seq(Times) /\ Len(Tail(d)) <= MaxEntries
           /\ Sorted(Tail(d)) /\ UpTo(Tail(d), time)
           /\ \A c : Several(d) /\ Recent(d, c) => Recent(Tail(d), c)
<1> DEFINE e == Tail(d)
<1>1. /\ e \in Seq(Times) /\ Len(e) = Len(d) - 1
      /\ \A i \in 1 .. Len(e) : e[i] = d[i + 1]
  OBVIOUS
<1> HIDE DEF e
<1>2. \A i \in 1 .. Len(e) : i + 1 \in 1 .. Len(d)
  BY <1>1
<1>3. Len(e) <= MaxEntries /\ Sorted(e) /\ UpTo(e, time)
  BY SMTT(20), <1>1, <1>2, CacheAssumption DEF Sorted, UpTo, CacheAssumption
<1>4. \A c : Several(d) /\ Recent(d, c) => Recent(e, c)
  <2>1. SUFFICES ASSUME NEW c, Several(d), Recent(d, c) PROVE Recent(e, c)
    OBVIOUS
  <2>2. Len(e) \in 1 .. Len(e) /\ Len(e) + 1 = Len(d) /\ e # <<>>
    BY <1>1, <2>1 DEF Several
  <2>3. e[Len(e)] = d[Len(d)]
    BY <1>1, <2>2
  <2> QED BY <2>1, <2>2, <2>3 DEF Recent
<1> QED BY <1>1, <1>3, <1>4 DEF e

-----------------------------------------------------------------------------
(* Steps that change nothing but the local variables of a thread.          *)

LEMMA LoopMoves ==
    ASSUME Inv, NEW l, thread'["loop"] = l, LoopOK(l),
           thread' \in [Threads -> Local], thread'["job"] = thread["job"],
           UNCHANGED <<now, cache, deques, quiet>>
    PROVE  Inv'
<1>1. TypeOK' /\ DequesOK'
  BY DEF Inv, TypeOK, DequesOK
<1>2. LoopOK(l)' /\ JobOK(thread["job"])'
  <2>1. LoopOK(l)'
    BY DEF LoopOK
  <2>2. JobOK(thread["job"])'
    BY DEF Inv, JobOK
  <2> QED BY <2>1, <2>2
<1> QED BY <1>1, <1>2 DEF Inv

LEMMA JobMoves ==
    ASSUME Inv, NEW j, thread'["job"] = j, JobOK(j),
           thread' \in [Threads -> Local], thread'["loop"] = thread["loop"],
           UNCHANGED <<now, cache, deques, quiet>>
    PROVE  Inv'
<1>1. TypeOK' /\ DequesOK'
  BY DEF Inv, TypeOK, DequesOK
<1>2. LoopOK(thread["loop"])'
  BY DEF Inv, LoopOK
<1>3. JobOK(j)'
  BY DEF JobOK
<1> QED BY <1>1, <1>2, <1>3 DEF Inv

LEMMA AtRestFacts ==
    ASSUME Inv
    PROVE  AtRest \in Local /\ LoopOK(AtRest) /\ JobOK(AtRest)
<1>1. AtRest \in Local /\ AtRest.pc = "idle"
  BY CacheAssumption DEF CacheAssumption, AtRest, Local, Times
<1> HIDE DEF AtRest
<1> QED BY <1>1 DEF LoopOK, JobOK, Evicting, InHand

(* A pass of the dispatcher begins. *)
LEMMA StartPassKeeps == ASSUME Inv, StartPass PROVE Inv'
<1>1. PICK S \in SUBSET Ports \ {{}} :
          thread' = [thread EXCEPT !["loop"] =
              [AtRest EXCEPT !.pc = "add", !.time = now, !.ports = S]]
  BY DEF StartPass
<1> DEFINE new == [AtRest EXCEPT !.pc = "add", !.time = now, !.ports = S]
<1>2. AtRest \in Local /\ now \in Times /\ thread \in [Threads -> Local]
  BY AtRestFacts DEF Inv, TypeOK
<1>3. PICK l \in Local : l = new /\ l.pc = "add" /\ l.time = now
  <2>1. new \in Local /\ new.pc = "add" /\ new.time = now
    BY <1>2 DEF Local
  <2> HIDE DEF new
  <2> QED BY <2>1
<1>4. /\ thread' \in [Threads -> Local] /\ thread'["loop"] = l
      /\ thread'["job"] = thread["job"]
  BY <1>1, <1>2, <1>3 DEF Threads
<1>5. LoopOK(l)
  <2>1. now \in Nat /\ now <= now /\ now < now + MaxAge
    BY <1>2, CacheAssumption DEF CacheAssumption, Times
  <2>2. \A d \in 1 .. Len(deques) : UpTo(deques[d], now)
    BY DEF Inv, DequesOK
  <2> QED BY <1>3, <2>1, <2>2 DEF LoopOK
<1> QED BY <1>4, <1>5, LoopMoves DEF StartPass

(* The dispatcher takes up a port. *)
LEMMA AddKeeps == ASSUME Inv, NEW p \in Ports, Add(p) PROVE Inv'
<1> DEFINE k == thread["loop"]
           next == IF p \in DOMAIN cache THEN "lookup" ELSE "create"
           new == [k EXCEPT !.pc = next, !.port = p, !.ports = @ \ {p}]
<1>1. /\ k \in Local /\ thread \in [Threads -> Local] /\ k.pc = "add"
      /\ LoopOK(k)
  BY DEF Inv, TypeOK, Threads, Add, At
<1>2. /\ new \in Local /\ new.pc = next /\ new.port = p /\ new.time = k.time
  BY <1>1 DEF Local
<1>3. thread' = [thread EXCEPT !["loop"] = new]
  BY DEF Add
<1> HIDE DEF new
<1>4. /\ thread' \in [Threads -> Local] /\ thread'["loop"] = new
      /\ thread'["job"] = thread["job"]
  BY <1>1, <1>2, <1>3 DEF Threads
<1>5. LoopOK(new)
  BY <1>1, <1>2 DEF LoopOK
<1> QED BY <1>4, <1>5, LoopMoves DEF Add

(* It finds the deque of the port. *)
LEMMA LookupKeeps == ASSUME Inv, Lookup PROVE Inv'
<1> DEFINE k == thread["loop"]
           new == [k EXCEPT !.pc = "append", !.dq = cache[k.port]]
<1>1. /\ k \in Local /\ thread \in [Threads -> Local] /\ k.pc = "lookup"
      /\ LoopOK(k)
  BY DEF Inv, TypeOK, Threads, Lookup, At
<1>2. k.port \in DOMAIN cache /\ cache[k.port] \in 1 .. Len(deques)
      /\ cache[k.port] \in 0 .. MaxDeques
  <2>1. k.port \in DOMAIN cache
    BY <1>1 DEF Lookup, Raises, At
  <2>2. Len(deques) \in Nat /\ Len(deques) <= MaxDeques
    BY DEF Inv, TypeOK
  <2>3. cache[k.port] \in 1 .. Len(deques)
    BY <2>1 DEF Inv, TypeOK
  <2> QED BY <2>1, <2>2, <2>3, CacheAssumption DEF CacheAssumption
<1>3. /\ new \in Local /\ new.pc = "append" /\ new.port = k.port /\ new.time = k.time
      /\ new.dq = cache[k.port]
  BY <1>1, <1>2 DEF Local
<1>4. thread' = [thread EXCEPT !["loop"] = new]
  BY DEF Lookup
<1> HIDE DEF new
<1>5. /\ thread' \in [Threads -> Local] /\ thread'["loop"] = new
      /\ thread'["job"] = thread["job"]
  BY <1>1, <1>3, <1>4 DEF Threads
<1>6. LoopOK(new)
  BY <1>1, <1>2, <1>3 DEF LoopOK
<1> QED BY <1>5, <1>6, LoopMoves DEF Lookup

(* An exception leaves the thread at rest. *)
LEMMA RestKeeps ==
    ASSUME Inv, NEW t \in Threads, thread' = [thread EXCEPT ![t] = AtRest],
           UNCHANGED <<now, cache, deques, quiet>>
    PROVE  Inv'
<1>1. thread' \in [Threads -> Local] /\ LoopOK(AtRest) /\ JobOK(AtRest)
  BY AtRestFacts DEF Inv, TypeOK
<1>2. CASE t = "loop"
  <2>1. thread'["loop"] = AtRest /\ thread'["job"] = thread["job"]
    BY <1>2 DEF Inv, TypeOK, Threads
  <2> QED BY <1>1, <2>1, LoopMoves
<1>3. CASE t = "job"
  <2>1. thread'["job"] = AtRest /\ thread'["loop"] = thread["loop"]
    BY <1>3 DEF Inv, TypeOK, Threads
  <2> QED BY <1>1, <2>1, JobMoves
<1> QED BY <1>2, <1>3 DEF Threads

(* A thread that builds the table of ports only looks at the cache. *)
LEMMA Looks ==
    ASSUME Inv, NEW t \in Threads, NEW l \in Local,
           \/ t = "loop" /\ thread["loop"].pc # "idle" /\ l.time = thread["loop"].time
           \/ t = "job",
           l.pc \in {"scan", "row"}, thread' = [thread EXCEPT ![t] = l],
           UNCHANGED <<now, cache, deques, quiet>>
    PROVE  Inv'
<1>1. thread' \in [Threads -> Local]
  BY DEF Inv, TypeOK
<1>2. CASE t = "loop"
  <2>1. thread'["loop"] = l /\ thread'["job"] = thread["job"]
    BY <1>2 DEF Inv, TypeOK, Threads
  <2>2. LoopOK(l)
    BY <1>2 DEF Inv, LoopOK
  <2> QED BY <1>1, <2>1, <2>2, LoopMoves
<1>3. CASE t = "job"
  <2>1. thread'["job"] = l /\ thread'["loop"] = thread["loop"]
    BY <1>3 DEF Inv, TypeOK, Threads
  <2>2. JobOK(l)
    BY DEF JobOK, Evicting, InHand
  <2> QED BY <1>1, <2>1, <2>2, JobMoves
<1> QED BY <1>2, <1>3 DEF Threads

(* A thread is done with the port in its hand. *)
Released(k, pc) == [k EXCEPT !.pc = pc, !.port = 0, !.dq = 0]

LEMMA PutDown ==
    ASSUME NEW k \in Local, NEW pc \in {"add", "scan", "evict"}
    PROVE  /\ Released(k, pc) \in Local /\ Released(k, pc).pc = pc
           /\ Released(k, pc).time = k.time /\ Released(k, pc).ports = k.ports
<1>1. 0 \in Ports \cup {0} /\ 0 \in 0 .. MaxDeques
  BY CacheAssumption DEF CacheAssumption
<1>2. [k EXCEPT !.pc = pc] \in Local /\ k.time \in Times
  BY DEF Local
<1>3. \A l \in Local : [l EXCEPT !.port = 0] \in Local
  BY <1>1 DEF Local
<1>4. \A l \in Local : [l EXCEPT !.dq = 0] \in Local
  BY <1>1 DEF Local
<1>5. Released(k, pc) = [[[k EXCEPT !.pc = pc] EXCEPT !.port = 0] EXCEPT !.dq = 0]
  BY DEF Released
<1>6. Released(k, pc) \in Local
  BY <1>2, <1>3, <1>4, <1>5
<1> QED BY <1>6 DEF Released, Local

LEMMA TableKeeps ==
    ASSUME Inv, NEW t \in Threads, StartTable(t) \/ NextItem(t) \/ Row(t)
    PROVE  Inv'
<1> DEFINE k == thread[t]
<1>1. k \in Local /\ k.time \in Times
  BY DEF Inv, TypeOK, Local
<1>2. t = "loop" => k.pc # "idle"
  BY DEF StartTable, NextItem, Row, At
<1>3. /\ Cardinality(DOMAIN cache) \in Nat /\ DOMAIN cache \subseteq Ports
      /\ \A p \in DOMAIN cache : cache[p] \in 0 .. MaxDeques
  <2>1. Cardinality(DOMAIN cache) \in Nat
    BY FS_CardinalityType DEF Inv, DequesOK
  <2>2. Len(deques) \in Nat /\ Len(deques) <= MaxDeques
    BY DEF Inv, TypeOK
  <2>3. \A p \in DOMAIN cache : cache[p] \in 1 .. Len(deques)
    BY DEF Inv, TypeOK
  <2>4. DOMAIN cache \subseteq Ports
    BY DEF Inv, TypeOK
  <2> QED BY <2>1, <2>2, <2>3, <2>4, CacheAssumption DEF CacheAssumption
<1>4. CASE StartTable(t)
  <2> DEFINE new == [k EXCEPT !.pc = "scan", !.ports = DOMAIN cache,
                              !.size = Cardinality(DOMAIN cache)]
  <2>1. new \in Local /\ new.pc = "scan" /\ new.time = k.time
    BY <1>1, <1>3 DEF Local
  <2>2. thread' = [thread EXCEPT ![t] = new] /\ UNCHANGED <<now, cache, deques, quiet>>
    BY <1>4 DEF StartTable
  <2> HIDE DEF new
  <2> QED BY <1>2, <2>1, <2>2, Looks DEF Threads
<1>5. CASE NextItem(t)
  <2>1. PICK p \in thread[t].ports \cap DOMAIN cache :
            LET d == cache[p]
            IN  thread' = [thread EXCEPT ![t].pc = IF deques[d] = <<>> THEN "scan" ELSE "row",
                                         ![t].ports = @ \ {p},
                                         ![t].dq = IF deques[d] = <<>> THEN 0 ELSE d]
    BY <1>5 DEF NextItem
  <2> DEFINE d == cache[p]
             pc == IF deques[d] = <<>> THEN "scan" ELSE "row"
             dq == IF deques[d] = <<>> THEN 0 ELSE d
             new == [k EXCEPT !.pc = pc, !.ports = @ \ {p}, !.dq = dq]
  <2>2. /\ thread' = [thread EXCEPT ![t] = new]
        /\ UNCHANGED <<now, cache, deques, quiet>>
    <3>1. thread' = [thread EXCEPT ![t].pc = pc, ![t].ports = @ \ {p}, ![t].dq = dq]
      BY <2>1
    <3> HIDE DEF pc, dq
    <3>2. thread' = [thread EXCEPT ![t] = new]
      BY <3>1
    <3> QED BY <1>5, <3>2 DEF NextItem
  <2>3. pc \in {"scan", "row"} /\ dq \in 0 .. MaxDeques
    BY <1>3, CacheAssumption DEF CacheAssumption
  <2> HIDE DEF pc, dq
  <2>4. new \in Local /\ new.pc = pc /\ new.time = k.time
    BY <1>1, <2>3 DEF Local
  <2> HIDE DEF new
  <2> QED BY <1>2, <2>2, <2>3, <2>4, Looks DEF Threads
<1>6. CASE Row(t)
  <2> DEFINE new == Released(k, "scan")
  <2>1. new \in Local /\ new.pc = "scan" /\ new.time = k.time
    BY <1>1, PutDown
  <2>2. /\ thread' = [thread EXCEPT ![t].pc = "scan", ![t].port = 0, ![t].dq = 0]
        /\ UNCHANGED <<now, cache, deques, quiet>>
    BY <1>6 DEF Row, Done
  <2>3. thread' = [thread EXCEPT ![t] = new]
    BY <2>2 DEF Released
  <2> HIDE DEF new
  <2> QED BY <1>2, <2>1, <2>2, <2>3, Looks DEF Threads
<1> QED BY <1>4, <1>5, <1>6

(* The eviction takes up a port. *)
LEMMA EvictKeeps == ASSUME Inv, NEW p \in Ports, Evict(p) PROVE Inv'
<1> DEFINE k == thread["job"]
           new == [k EXCEPT !.pc = "oldest", !.ports = @ \ {p}, !.port = p, !.dq = cache[p]]
<1>1. /\ k \in Local /\ thread \in [Threads -> Local] /\ k.pc = "evict" /\ p \in k.ports
      /\ JobOK(k)
  BY DEF Inv, TypeOK, Threads, Evict, At
<1>2. p \in DOMAIN cache /\ cache[p] \in 0 .. MaxDeques
  <2>1. p \in DOMAIN cache
    BY <1>1 DEF JobOK, Evicting
  <2>2. Len(deques) \in Nat /\ Len(deques) <= MaxDeques /\ cache[p] \in 1 .. Len(deques)
    BY <2>1 DEF Inv, TypeOK
  <2> QED BY <2>1, <2>2, CacheAssumption DEF CacheAssumption
<1>3. /\ new \in Local /\ new.pc = "oldest" /\ new.time = k.time /\ new.ports = k.ports \ {p}
      /\ new.port = p /\ new.dq = cache[p]
  BY <1>1, <1>2 DEF Local
<1>4. thread' = [thread EXCEPT !["job"] = new]
  BY DEF Evict
<1> HIDE DEF new
<1>5. /\ thread' \in [Threads -> Local] /\ thread'["job"] = new
      /\ thread'["loop"] = thread["loop"]
  BY <1>1, <1>3, <1>4 DEF Threads
<1>6. JobOK(new)
  BY <1>1, <1>2, <1>3 DEF JobOK, Evicting, InHand
<1> QED BY <1>5, <1>6, JobMoves DEF Evict

(* A time stamp is a number. *)
LEMMA StampType ==
    ASSUME NEW d \in Seq(Times)
    PROVE  \A i \in 1 .. Len(d) : d[i] \in Nat
<1>1. \A i \in 1 .. Len(d) : d[i] \in Times
  OBVIOUS
<1> QED BY <1>1, CacheAssumption DEF CacheAssumption, Times

(* A deque is of time stamps. *)
LEMMA DequeType ==
    ASSUME TypeOK, NEW d \in 1 .. Len(deques)
    PROVE  /\ deques[d] \in Seq(Times) /\ Len(deques[d]) <= MaxEntries
           /\ deques[d] # <<>> => deques[d][1] \in Nat
           /\ \A c \in Times : Stale(deques[d], c) /\ Recent(deques[d], c) => Several(deques[d])
<1>1. deques[d] \in Seq(Times) /\ Len(deques[d]) <= MaxEntries
  BY DEF TypeOK
<1>2. Times \subseteq Nat
  BY CacheAssumption DEF CacheAssumption, Times
<1>3. ASSUME NEW e \in Seq(Times), e # <<>> PROVE e[1] \in Nat
  <2>1. 1 \in 1 .. Len(e)
    BY <1>3
  <2>2. e[1] \in Times
    BY <1>3, <2>1
  <2> QED BY <1>2, <2>2
<1>4. PICK e : e = deques[d]
  OBVIOUS
<1>5. e # <<>> => e[1] \in Nat
  BY <1>1, <1>3, <1>4
<1>6. \A c \in Times : Stale(e, c) /\ Recent(e, c) => Several(e)
  <2>1. \A n, c \in Nat : n < c => ~(n >= c)
    OBVIOUS
  <2>2. Len(e) \in Nat /\ (e # <<>> => Len(e) # 0)
    BY <1>1, <1>4
  <2>3. \A c \in Times : Stale(e, c) /\ Recent(e, c) => Len(e) # 1
    BY <1>2, <1>5, <2>1 DEF Stale, Recent
  <2> SUFFICES ASSUME NEW c \in Times, Stale(e, c), Recent(e, c)
               PROVE  Several(e)
    OBVIOUS
  <2>4. Len(e) # 1
    BY <2>3
  <2>5. Len(e) # 0
    BY <2>2 DEF Stale
  <2>6. Len(e) > 1
    <3>1. \A l \in Nat : l # 0 /\ l # 1 => l > 1
      OBVIOUS
    <3> QED BY <2>2, <2>4, <2>5, <3>1
  <2> QED BY <2>6 DEF Several
<1> QED BY <1>1, <1>4, <1>5, <1>6

(* What is known of the port in hand. *)
LEMMA HandType ==
    ASSUME Inv, NEW k, k = thread["job"], InHand(k)
    PROVE  /\ k \in Local /\ JobOK(k) /\ k.time \in Times
           /\ k.port \in DOMAIN cache /\ cache[k.port] = k.dq /\ k.dq \in 1 .. Len(deques)
<1>1. k \in Local /\ JobOK(k)
  BY DEF Inv, TypeOK, Threads
<1>2. k.port \in DOMAIN cache /\ cache[k.port] = k.dq
  BY <1>1 DEF JobOK
<1>3. k.dq \in 1 .. Len(deques)
  BY <1>2 DEF Inv, TypeOK
<1> QED BY <1>1, <1>2, <1>3 DEF Local

(* It looks at the oldest snapshot. *)
LEMMA OldestKeeps == ASSUME Inv, Oldest PROVE Inv'
<1> DEFINE k == thread["job"]
           next == IF Stale(deques[k.dq], k.time) THEN "pop" ELSE "empty"
           new == [k EXCEPT !.pc = next]
<1>1. k.pc = "oldest" /\ InHand(k)
  BY DEF Oldest, At, InHand
<1>2. /\ k \in Local /\ JobOK(k) /\ k.time \in Times
      /\ k.port \in DOMAIN cache /\ cache[k.port] = k.dq /\ k.dq \in 1 .. Len(deques)
  BY <1>1, HandType
<1>3. next \in {"pop", "empty"}
  OBVIOUS
<1>4. thread' = [thread EXCEPT !["job"] = new]
  BY DEF Oldest, Goto
<1>5. /\ next = "pop" => /\ deques[k.dq] # <<>> /\ Stale(deques[k.dq], k.time)
                         /\ k.port \in quiet \/ Several(deques[k.dq])
      /\ next = "empty" => ~ Stale(deques[k.dq], k.time)
  <2>1. Stale(deques[k.dq], k.time) /\ Recent(deques[k.dq], k.time) => Several(deques[k.dq])
    BY <1>2, DequeType DEF Inv
  <2>2. k.port \in quiet \/ Recent(deques[k.dq], k.time)
    BY <1>1, <1>2 DEF JobOK
  <2>3. Stale(deques[k.dq], k.time) => deques[k.dq] # <<>>
    BY DEF Stale
  <2> QED BY <2>1, <2>2, <2>3
<1> HIDE DEF next
<1>6. /\ new \in Local /\ new.pc = next /\ new.time = k.time /\ new.ports = k.ports
      /\ new.port = k.port /\ new.dq = k.dq
  BY <1>2, <1>3 DEF Local
<1> HIDE DEF new
<1>7. /\ thread' \in [Threads -> Local] /\ thread'["job"] = new
      /\ thread'["loop"] = thread["loop"]
  BY <1>4, <1>6 DEF Inv, TypeOK, Threads
<1>8. JobOK(new)
  BY <1>1, <1>2, <1>3, <1>5, <1>6 DEF JobOK, Evicting, InHand
<1> QED BY <1>7, <1>8, JobMoves DEF Oldest

(* A deque that is empty belongs to a port found quiet; any other has no   *)
(* stale snapshot left.                                                    *)
LEMMA TestEmptyKeeps == ASSUME Inv, TestEmpty PROVE Inv'
<1> DEFINE k == thread["job"]
<1>1. k.pc = "empty" /\ InHand(k)
  BY DEF TestEmpty, At, InHand
<1>2. /\ k \in Local /\ JobOK(k) /\ k.time \in Times
      /\ k.port \in DOMAIN cache /\ cache[k.port] = k.dq /\ k.dq \in 1 .. Len(deques)
  BY <1>1, HandType
<1>3. CASE deques[k.dq] = <<>>
  <2> DEFINE new == [k EXCEPT !.pc = "del"]
  <2>1. /\ new \in Local /\ new.pc = "del" /\ new.time = k.time /\ new.ports = k.ports
        /\ new.port = k.port /\ new.dq = k.dq
    BY <1>2 DEF Local
  <2>2. thread' = [thread EXCEPT !["job"] = new]
    BY <1>3 DEF TestEmpty, Goto
  <2> HIDE DEF new
  <2>3. /\ thread' \in [Threads -> Local] /\ thread'["job"] = new
        /\ thread'["loop"] = thread["loop"]
    BY <2>1, <2>2 DEF Inv, TypeOK, Threads
  <2>4. k.port \in quiet
    BY <1>1, <1>2, <1>3 DEF JobOK, Recent
  <2>5. JobOK(new)
    BY <1>1, <1>2, <2>1, <2>4 DEF JobOK, Evicting, InHand
  <2> QED BY <2>3, <2>5, JobMoves DEF TestEmpty
<1>4. CASE deques[k.dq] # <<>>
  <2> DEFINE new == Released(k, "evict")
  <2>1. new \in Local /\ new.pc = "evict" /\ new.time = k.time /\ new.ports = k.ports
    BY <1>2, PutDown
  <2>2. thread' = [thread EXCEPT !["job"] = new]
    BY <1>4 DEF TestEmpty, Done, Released
  <2> HIDE DEF new
  <2>3. /\ thread' \in [Threads -> Local] /\ thread'["job"] = new
        /\ thread'["loop"] = thread["loop"]
    BY <2>1, <2>2 DEF Inv, TypeOK, Threads
  <2>4. ~ Stale(deques[k.dq], k.time)
    BY <1>1, <1>2 DEF JobOK
  <2>5. JobOK(new)
    BY <1>1, <1>2, <2>1, <2>4 DEF JobOK, Evicting, InHand
  <2> QED BY <2>3, <2>5, JobMoves DEF TestEmpty
<1> QED BY <1>3, <1>4

-----------------------------------------------------------------------------
(* Steps that change the cache, the clock or the history.                  *)

(* What the event loop adds is not stale, and disturbs no eviction. *)
LEMMA JobUndisturbed ==
    ASSUME TypeOK, NEW j, JobOK(j), now \in Nat, now' \in Nat, j.time \in Nat,
           now <= now', quiet' = quiet,
           \A p \in DOMAIN cache : p \in DOMAIN cache' /\ cache'[p] = cache[p],
           Evicting(j) => \A p \in DOMAIN cache' \ DOMAIN cache : ~ Stale(deques'[cache'[p]], j.time),
           \A d \in 1 .. Len(deques) :
               /\ deques[d] # <<>> => deques'[d] # <<>>
               /\ Evicting(j) /\ Stale(deques'[d], j.time) => Stale(deques[d], j.time)
               /\ Evicting(j) /\ Recent(deques[d], j.time) => Recent(deques'[d], j.time)
               /\ Several(deques[d]) => Several(deques'[d])
               /\ deques[d] # <<>> /\ (Stale(deques[d], j.time) \/ Full(deques[d]))
                      => Stale(deques'[d], j.time) \/ Full(deques'[d])
    PROVE  JobOK(j)'
<1>1. InHand(j) => Evicting(j)
  BY DEF InHand, Evicting
<1>2. \A p \in DOMAIN cache : cache[p] \in 1 .. Len(deques)
  BY DEF TypeOK
<1>3. ASSUME Evicting(j)
      PROVE  /\ j.time + MaxAge <= now'
             /\ j.ports \subseteq DOMAIN cache'
             /\ \A p \in j.ports : p \in quiet' \/ Recent(deques'[cache'[p]], j.time)
  <2>1. j.time + MaxAge <= now'
    BY <1>3, CacheAssumption DEF JobOK, CacheAssumption
  <2> QED BY <1>2, <1>3, <2>1 DEF JobOK
<1>4. ASSUME Evicting(j), NEW p \in DOMAIN cache' \ j.ports, Stale(deques'[cache'[p]], j.time)
      PROVE  InHand(j) /\ p = j.port
  <2>1. p \in DOMAIN cache /\ cache'[p] = cache[p]
    BY <1>4
  <2>2. Stale(deques[cache[p]], j.time)
    BY <1>2, <1>4, <2>1
  <2> QED BY <1>4, <2>1, <2>2 DEF JobOK
<1>5. InHand(j) => /\ j.port \in DOMAIN cache' \ j.ports /\ cache'[j.port] = j.dq
                   /\ j.port \in quiet' \/ Recent(deques'[j.dq], j.time)
                   /\ j.dq \in 1 .. Len(deques)
  BY <1>1, <1>2 DEF JobOK
<1>6. j.pc = "pop" =>
          /\ deques'[j.dq] # <<>>
          /\ Stale(deques'[j.dq], j.time) \/ Full(deques'[j.dq])
          /\ j.port \in quiet' \/ Several(deques'[j.dq])
  BY <1>5 DEF JobOK, InHand
<1>7. j.pc = "empty" => ~ Stale(deques'[j.dq], j.time)
  BY <1>1, <1>5 DEF JobOK, InHand
<1>8. /\ j.pc \in {"idle", "scan", "row", "evict", "oldest", "pop", "empty", "del"}
      /\ j.pc = "del" => j.port \in quiet'
  BY DEF JobOK
<1> QED BY <1>3, <1>4, <1>5, <1>6, <1>7, <1>8 DEF JobOK

(* A new deque is empty, and belongs to a port nobody evicts. *)
LEMMA CreateKeeps == ASSUME Inv, Create PROVE Inv'
<1>1. PICK k : k = thread["loop"]
  OBVIOUS
<1>2. PICK j : j = thread["job"]
  OBVIOUS
<1>3. PICK n : n = Len(deques) + 1
  OBVIOUS
<1> DEFINE new == [k EXCEPT !.pc = "lookup"]
<1>4. /\ k \in Local /\ LoopOK(k) /\ j \in Local /\ JobOK(j) /\ k.pc = "create"
      /\ thread \in [Threads -> Local] /\ deques \in Seq(Seq(Times))
      /\ Len(deques) \in Nat /\ n \in 1 .. MaxDeques
  <2>1. Len(deques) \in Nat /\ Len(deques) < MaxDeques /\ deques \in Seq(Seq(Times))
    BY DEF Inv, TypeOK, Create
  <2> QED BY <1>1, <1>2, <1>3, <2>1, CacheAssumption
          DEF Inv, TypeOK, Threads, Create, At, CacheAssumption
<1>5. /\ deques' = Append(deques, <<>>)
      /\ UNCHANGED <<now, quiet>>
      /\ thread' = [thread EXCEPT !["loop"] = new]
  BY <1>1 DEF Create, Goto
<1>6. /\ Len(deques') = n /\ deques' \in Seq(Seq(Times)) /\ deques'[n] = <<>>
      /\ \A d \in 1 .. Len(deques) : deques'[d] = deques[d]
      /\ \A d \in 1 .. Len(deques') : d = n \/ d \in 1 .. Len(deques)
      /\ n \notin 1 .. Len(deques) /\ n \in 1 .. Len(deques') /\ 1 .. Len(deques) \subseteq 1 .. Len(deques')
  <2>1. <<>> \in Seq(Times)
    OBVIOUS
  <2> QED BY <1>3, <1>4, <1>5, <2>1
<1>7. /\ DOMAIN cache' = DOMAIN cache \cup {k.port} /\ cache'[k.port] = n
      /\ \A p \in DOMAIN cache : cache'[p] = cache[p]
      /\ k.port \in Ports /\ k.port \notin DOMAIN cache
  <2>1. cache' = [p \in DOMAIN cache \cup {k.port} |-> IF p = k.port THEN Len(deques') ELSE cache[p]]
    BY <1>1 DEF Create
  <2>2. k.port \in Ports /\ k.port \notin DOMAIN cache
    BY <1>4 DEF LoopOK
  <2> QED BY <1>6, <2>1, <2>2
<1>8. /\ new \in Local /\ new.pc = "lookup" /\ new.time = k.time /\ new.port = k.port
  BY <1>4 DEF Local
<1> HIDE DEF new
<1>9. /\ thread' \in [Threads -> Local] /\ thread'["loop"] = new /\ thread'["job"] = j
  BY <1>2, <1>4, <1>5, <1>8 DEF Threads
<1>10. Sorted(<<>>) /\ \A t : UpTo(<<>>, t)
  BY DEF Sorted, UpTo
<1>11. TypeOK'
  <2>1. \A d \in 1 .. Len(deques') : Len(deques'[d]) <= MaxEntries
    <3>1. Len(<<>>) <= MaxEntries
      BY CacheAssumption DEF CacheAssumption
    <3> QED BY <1>6, <3>1 DEF Inv, TypeOK
  <2>2. \A p \in DOMAIN cache' : cache'[p] \in 1 .. Len(deques')
    BY <1>6, <1>7 DEF Inv, TypeOK
  <2>3. DOMAIN cache' \subseteq Ports
    BY <1>7 DEF Inv, TypeOK
  <2>4. n <= MaxDeques
    BY <1>4
  <2> QED BY <1>5, <1>6, <1>9, <2>1, <2>2, <2>3, <2>4 DEF Inv, TypeOK
<1>12. DequesOK'
  <2>1. IsFiniteSet(DOMAIN cache')
    BY <1>7, FS_AddElement DEF Inv, DequesOK
  <2>2. \A p \in DOMAIN cache : cache[p] \in 1 .. Len(deques)
    BY DEF Inv, TypeOK
  <2>3. \A p, q \in DOMAIN cache' : cache'[p] = cache'[q] => p = q
    BY <1>6, <1>7, <2>2 DEF Inv, DequesOK
  <2>4. \A d \in 1 .. Len(deques') : Sorted(deques'[d]) /\ UpTo(deques'[d], now')
    BY <1>5, <1>6, <1>10 DEF Inv, DequesOK
  <2> QED BY <2>1, <2>3, <2>4 DEF DequesOK
<1>13. LoopOK(new)'
  <2>1. /\ new.time <= now' /\ now' < new.time + MaxAge
        /\ \A d \in 1 .. Len(deques) : UpTo(deques[d], new.time)
    BY <1>4, <1>5, <1>8 DEF LoopOK
  <2>2. \A d \in 1 .. Len(deques') : UpTo(deques'[d], new.time)
    BY <1>6, <1>10, <2>1
  <2>3. new.pc = "lookup" /\ new.port \in Ports
    BY <1>7, <1>8
  <2> QED BY <2>1, <2>2, <2>3 DEF LoopOK
<1>14. JobOK(j)'
  <2>1. ~ Stale(deques'[n], j.time)
    BY <1>6 DEF Stale
  <2>2. Evicting(j) => \A p \in DOMAIN cache' \ DOMAIN cache : ~ Stale(deques'[cache'[p]], j.time)
    BY <1>7, <2>1
  <2>3. now \in Nat /\ now' \in Nat /\ now <= now' /\ j.time \in Nat
    BY <1>4, <1>5, CacheAssumption DEF Inv, TypeOK, Times, Local, CacheAssumption
  <2>4. \A p \in DOMAIN cache : p \in DOMAIN cache' /\ cache'[p] = cache[p]
    BY <1>7
  <2> QED BY <1>4, <1>5, <1>6, <2>2, <2>3, <2>4, JobUndisturbed DEF Inv
<1> QED BY <1>9, <1>11, <1>12, <1>13, <1>14 DEF Inv

(* A snapshot goes into the deque in hand: it is newer than the cutoff of  *)
(* an eviction, so it makes no deque stale and keeps a recent one recent,  *)
(* even if it pushes out the oldest.                                       *)
LEMMA PutSnapshotKeeps == ASSUME Inv, PutSnapshot PROVE Inv'
<1>1. PICK k : k = thread["loop"]
  OBVIOUS
<1>2. PICK j : j = thread["job"]
  OBVIOUS
<1>3. /\ k \in Local /\ LoopOK(k) /\ j \in Local /\ JobOK(j) /\ k.pc = "append"
      /\ thread \in [Threads -> Local] /\ deques \in Seq(Seq(Times))
      /\ TypeOK /\ DequesOK
  BY <1>1, <1>2 DEF Inv, TypeOK, Threads, PutSnapshot, At
<1>4. /\ k.dq \in 1 .. Len(deques)
      /\ k.time <= now /\ now < k.time + MaxAge /\ UpTo(deques[k.dq], k.time)
      /\ k.time \in Times /\ j.time \in Times
  BY <1>3 DEF LoopOK, Local
<1>5. PICK a : a = Appended(deques[k.dq], k.time)
  OBVIOUS
<1>6. /\ deques' = [deques EXCEPT ![k.dq] = a]
      /\ UNCHANGED <<now, cache, quiet>>
  BY <1>1, <1>5 DEF PutSnapshot
<1>7. thread' = [thread EXCEPT !["loop"].pc = "add", !["loop"].port = 0, !["loop"].dq = 0]
  BY DEF PutSnapshot, Done
<1>8. /\ a \in Seq(Times) /\ a # <<>> /\ Len(a) <= MaxEntries /\ Sorted(a) /\ UpTo(a, k.time)
      /\ deques[k.dq] # <<>> => a[1] >= deques[k.dq][1]
      /\ deques[k.dq] = <<>> => a[1] = k.time
      /\ a[Len(a)] = k.time
      /\ IF Full(deques[k.dq]) THEN Full(a)
         ELSE Len(a) = Len(deques[k.dq]) + 1 /\ (deques[k.dq] # <<>> => a[1] = deques[k.dq][1])
  <2>1. /\ deques[k.dq] \in Seq(Times) /\ Len(deques[k.dq]) <= MaxEntries
        /\ Sorted(deques[k.dq])
    BY <1>3, <1>4 DEF TypeOK, DequesOK
  <2> QED BY <1>4, <1>5, <2>1, AppendedFacts
<1>9. /\ Len(deques') = Len(deques) /\ deques' \in Seq(Seq(Times)) /\ deques'[k.dq] = a
      /\ \A d \in 1 .. Len(deques) : d # k.dq => deques'[d] = deques[d]
  BY <1>3, <1>4, <1>6, <1>8
<1>10. PICK l : l = thread'["loop"]
  OBVIOUS
<1>11. /\ thread' \in [Threads -> Local] /\ l \in Local /\ l.pc = "add" /\ l.time = k.time
       /\ thread'["job"] = j
  <2> DEFINE new == Released(k, "add")
  <2>1. thread' = [thread EXCEPT !["loop"] = new]
    BY <1>1, <1>7 DEF Released
  <2>2. new \in Local /\ new.pc = "add" /\ new.time = k.time
    BY <1>3, PutDown
  <2> HIDE DEF new
  <2> QED BY <1>2, <1>3, <1>10, <2>1, <2>2 DEF Threads
<1>12. Times \subseteq Nat
  BY CacheAssumption DEF CacheAssumption, Times
<1>13. TypeOK'
  <2>1. \A d \in 1 .. Len(deques') : Len(deques'[d]) <= MaxEntries
    BY <1>3, <1>8, <1>9 DEF TypeOK
  <2>2. \A p \in DOMAIN cache' : cache'[p] \in 1 .. Len(deques')
    BY <1>3, <1>6, <1>9 DEF TypeOK
  <2>4. now' \in Times /\ quiet' \subseteq Ports /\ DOMAIN cache' \subseteq Ports
        /\ Len(deques') <= MaxDeques
    BY <1>3, <1>6, <1>9 DEF TypeOK
  <2> QED BY <1>9, <1>11, <2>1, <2>2, <2>4 DEF TypeOK
<1>14. \A d \in 1 .. Len(deques) : Sorted(deques[d]) /\ UpTo(deques[d], now) /\ UpTo(deques[d], k.time)
  BY <1>3 DEF DequesOK, LoopOK
<1>15. UpTo(a, now)
  <2>1. \A i \in 1 .. Len(a) : a[i] \in Nat /\ a[i] <= k.time
    BY <1>8, StampType DEF UpTo
  <2>2. k.time \in Nat /\ now \in Nat
    BY <1>3, <1>4, <1>12 DEF TypeOK
  <2> QED BY <1>4, <2>1, <2>2 DEF UpTo
<1>16. DequesOK'
  <2>1. \A d \in 1 .. Len(deques') : Sorted(deques'[d]) /\ UpTo(deques'[d], now')
    BY <1>6, <1>8, <1>9, <1>14, <1>15
  <2>2. \A p, q \in DOMAIN cache' : cache'[p] = cache'[q] => p = q
    BY <1>3, <1>6 DEF DequesOK
  <2>3. IsFiniteSet(DOMAIN cache')
    BY <1>3, <1>6 DEF DequesOK
  <2> QED BY <2>1, <2>2, <2>3 DEF DequesOK
<1>17. LoopOK(l)'
  <2>1. \A d \in 1 .. Len(deques') : UpTo(deques'[d], k.time)
    BY <1>8, <1>9, <1>14
  <2> QED BY <1>4, <1>6, <1>11, <2>1 DEF LoopOK
<1>18. JobOK(j)'
  <2>1. now \in Nat /\ j.time \in Nat /\ k.time \in Nat
    BY <1>3, <1>4, <1>12 DEF TypeOK
  <2>2. Evicting(j) => j.time < k.time
    <3>1. Evicting(j) => j.time + MaxAge <= now
      BY <1>3 DEF JobOK
    <3> QED BY <1>4, <2>1, <3>1, CacheAssumption DEF CacheAssumption
  <2>3. deques[k.dq] # <<>> => deques[k.dq][1] \in Nat
    BY <1>3, <1>4, DequeType
  <2>4. /\ deques[k.dq] # <<>> => a # <<>>
        /\ Evicting(j) /\ Stale(a, j.time) => Stale(deques[k.dq], j.time)
    <3>1. a[1] \in Nat
      <4>1. 1 \in 1 .. Len(a)
        BY <1>8
      <4>2. a[1] \in Times
        BY <1>8, <4>1
      <4> QED BY <1>12, <4>2
    <3>2. CASE deques[k.dq] = <<>>
      BY <1>8, <2>1, <2>2, <3>1, <3>2 DEF Stale
    <3>3. CASE deques[k.dq] # <<>>
      BY <1>8, <2>1, <2>3, <3>1, <3>3 DEF Stale
    <3> QED BY <3>2, <3>3
  <2>7. Evicting(j) => Recent(a, j.time)
    BY <1>8, <2>1, <2>2 DEF Recent
  <2>8. Several(deques[k.dq]) => Several(a)
    BY <1>3, <1>4, <1>8 DEF Several, Full, TypeOK
  <2>9. deques[k.dq] # <<>> /\ (Stale(deques[k.dq], j.time) \/ Full(deques[k.dq]))
            => Stale(a, j.time) \/ Full(a)
    BY <1>8 DEF Stale
  <2>5. \A d \in 1 .. Len(deques) :
               /\ deques[d] # <<>> => deques'[d] # <<>>
               /\ Evicting(j) /\ Stale(deques'[d], j.time) => Stale(deques[d], j.time)
               /\ Evicting(j) /\ Recent(deques[d], j.time) => Recent(deques'[d], j.time)
               /\ Several(deques[d]) => Several(deques'[d])
               /\ deques[d] # <<>> /\ (Stale(deques[d], j.time) \/ Full(deques[d]))
                      => Stale(deques'[d], j.time) \/ Full(deques'[d])
    BY <1>9, <2>4, <2>7, <2>8, <2>9
  <2>6. now' \in Nat /\ now <= now' /\ cache' = cache /\ quiet' = quiet
    BY <1>6, <2>1
  <2> QED BY <1>3, <2>1, <2>5, <2>6, JobUndisturbed
<1> QED BY <1>10, <1>11, <1>13, <1>16, <1>17, <1>18 DEF Inv

(* The oldest snapshot is popped from a deque that no other port has. *)
LEMMA PopOldestKeeps == ASSUME Inv, PopOldest PROVE Inv'
<1>1. PICK k : k = thread["loop"]
  OBVIOUS
<1>2. PICK j : j = thread["job"]
  OBVIOUS
<1>3. j.pc = "pop" /\ InHand(j) /\ Evicting(j)
  BY <1>2 DEF PopOldest, At, InHand, Evicting
<1>4. /\ j \in Local /\ JobOK(j) /\ j.time \in Times
      /\ j.port \in DOMAIN cache /\ cache[j.port] = j.dq /\ j.dq \in 1 .. Len(deques)
  BY <1>2, <1>3, HandType
<1>5. /\ k \in Local /\ LoopOK(k) /\ thread \in [Threads -> Local]
      /\ deques \in Seq(Seq(Times)) /\ TypeOK /\ DequesOK
  BY <1>1 DEF Inv, TypeOK, Threads
<1>6. /\ deques[j.dq] # <<>> /\ j.port \notin j.ports
      /\ j.port \in quiet \/ (Several(deques[j.dq]) /\ Recent(deques[j.dq], j.time))
  BY <1>3, <1>4 DEF JobOK
<1>7. PICK a : a = Tail(deques[j.dq])
  OBVIOUS
<1>8. /\ deques' = [deques EXCEPT ![j.dq] = a]
      /\ UNCHANGED <<now, cache, quiet>>
      /\ thread' = [thread EXCEPT !["job"].pc = "oldest"]
  BY <1>2, <1>7 DEF PopOldest, Goto
<1>9. /\ a \in Seq(Times) /\ Len(a) <= MaxEntries /\ Sorted(a)
      /\ UpTo(a, now) /\ (k.pc # "idle" => UpTo(a, k.time))
      /\ j.port \in quiet \/ Recent(a, j.time)
  <2>1. /\ deques[j.dq] \in Seq(Times) /\ Len(deques[j.dq]) <= MaxEntries
        /\ Sorted(deques[j.dq]) /\ UpTo(deques[j.dq], now)
    BY <1>4, <1>5 DEF TypeOK, DequesOK
  <2>2. k.pc # "idle" => UpTo(deques[j.dq], k.time)
    BY <1>4, <1>5 DEF LoopOK
  <2> QED BY <1>6, <1>7, <2>1, <2>2, TailFacts
<1>10. /\ Len(deques') = Len(deques) /\ deques' \in Seq(Seq(Times)) /\ deques'[j.dq] = a
       /\ \A d \in 1 .. Len(deques) : d # j.dq => deques'[d] = deques[d]
  BY <1>4, <1>5, <1>8, <1>9
<1>11. PICK l : l = thread'["job"]
  OBVIOUS
<1>12. /\ thread' \in [Threads -> Local] /\ l.pc = "oldest" /\ l.time = j.time
       /\ l.ports = j.ports /\ l.port = j.port /\ l.dq = j.dq /\ thread'["loop"] = k
  <2> DEFINE new == [j EXCEPT !.pc = "oldest"]
  <2>1. thread' = [thread EXCEPT !["job"] = new]
    BY <1>2, <1>8
  <2>2. /\ new \in Local /\ new.pc = "oldest" /\ new.time = j.time
        /\ new.ports = j.ports /\ new.port = j.port /\ new.dq = j.dq
    BY <1>4 DEF Local
  <2> HIDE DEF new
  <2> QED BY <1>1, <1>5, <1>11, <2>1, <2>2 DEF Threads
<1>13. TypeOK'
  <2>1. \A d \in 1 .. Len(deques') : Len(deques'[d]) <= MaxEntries
    BY <1>5, <1>9, <1>10 DEF TypeOK
  <2>2. \A p \in DOMAIN cache' : cache'[p] \in 1 .. Len(deques')
    BY <1>5, <1>8, <1>10 DEF TypeOK
  <2>4. now' \in Times /\ quiet' \subseteq Ports /\ DOMAIN cache' \subseteq Ports
        /\ Len(deques') <= MaxDeques
    BY <1>5, <1>8, <1>10 DEF TypeOK
  <2> QED BY <1>10, <1>12, <2>1, <2>2, <2>4 DEF TypeOK
<1>14. DequesOK'
  <2>1. \A d \in 1 .. Len(deques) : Sorted(deques[d]) /\ UpTo(deques[d], now)
    BY <1>5 DEF DequesOK
  <2>2. \A d \in 1 .. Len(deques') : Sorted(deques'[d]) /\ UpTo(deques'[d], now')
    BY <1>8, <1>9, <1>10, <2>1
  <2>3. \A p, q \in DOMAIN cache' : cache'[p] = cache'[q] => p = q
    BY <1>5, <1>8 DEF DequesOK
  <2>4. IsFiniteSet(DOMAIN cache')
    BY <1>5, <1>8 DEF DequesOK
  <2> QED BY <2>2, <2>3, <2>4 DEF DequesOK
<1>15. LoopOK(k)'
  <2>1. k.pc # "idle" => \A d \in 1 .. Len(deques') : UpTo(deques'[d], k.time)
    BY <1>5, <1>9, <1>10 DEF LoopOK
  <2> QED BY <1>5, <1>8, <1>10, <2>1 DEF LoopOK
<1>16. JobOK(l)'
  <2>1. \A p \in DOMAIN cache : p # j.port => deques'[cache[p]] = deques[cache[p]]
    <3>1. \A p \in DOMAIN cache : p # j.port => cache[p] # j.dq
      BY <1>4, <1>5 DEF DequesOK
    <3>2. \A p \in DOMAIN cache : cache[p] \in 1 .. Len(deques)
      BY <1>5 DEF TypeOK
    <3> QED BY <1>10, <3>1, <3>2
  <2>2. /\ j.time + MaxAge <= now /\ j.ports \subseteq DOMAIN cache
        /\ \A p \in DOMAIN cache \ j.ports :
               Stale(deques[cache[p]], j.time) => InHand(j) /\ p = j.port
        /\ \A p \in j.ports : p \in quiet \/ Recent(deques[cache[p]], j.time)
    BY <1>3, <1>4 DEF JobOK
  <2>3. \A p \in DOMAIN cache \ j.ports : Stale(deques'[cache[p]], j.time) => p = j.port
    BY <2>1, <2>2
  <2>4. \A p \in j.ports : p \in quiet \/ Recent(deques'[cache[p]], j.time)
    BY <1>6, <2>1, <2>2
  <2>5. j.port \in quiet \/ Recent(deques'[j.dq], j.time)
    BY <1>9, <1>10
  <2> QED BY <1>4, <1>6, <1>8, <1>12, <2>2, <2>3, <2>4, <2>5 DEF JobOK, Evicting, InHand
<1> QED BY <1>11, <1>12, <1>13, <1>14, <1>15, <1>16 DEF Inv

(* A port leaves the dict.  The event loop may hold its deque: the port    *)
(* was found quiet.                                                        *)
LEMMA DeleteKeeps == ASSUME Inv, Delete PROVE Inv'
<1>1. PICK k : k = thread["loop"]
  OBVIOUS
<1>2. PICK j : j = thread["job"]
  OBVIOUS
<1>3. j.pc = "del" /\ InHand(j) /\ Evicting(j)
  BY <1>2 DEF Delete, At, InHand, Evicting
<1>4. /\ j \in Local /\ JobOK(j) /\ j.time \in Times
      /\ j.port \in DOMAIN cache
  BY <1>2, <1>3, HandType
<1>5. /\ k \in Local /\ LoopOK(k) /\ thread \in [Threads -> Local]
      /\ TypeOK /\ DequesOK
  BY <1>1 DEF Inv, TypeOK, Threads
<1>6. j.port \notin j.ports
  BY <1>3, <1>4 DEF JobOK
<1>7. /\ DOMAIN cache' = DOMAIN cache \ {j.port}
      /\ \A p \in DOMAIN cache' : cache'[p] = cache[p]
      /\ UNCHANGED <<now, deques, quiet>>
  BY <1>2 DEF Delete
<1>8. thread' = [thread EXCEPT !["job"].pc = "evict", !["job"].port = 0, !["job"].dq = 0]
  BY DEF Delete, Done
<1>9. PICK l : l = thread'["job"]
  OBVIOUS
<1>10. /\ thread' \in [Threads -> Local] /\ l.pc = "evict" /\ l.time = j.time
       /\ l.ports = j.ports /\ thread'["loop"] = k
  <2> DEFINE new == Released(j, "evict")
  <2>1. thread' = [thread EXCEPT !["job"] = new]
    BY <1>2, <1>8 DEF Released
  <2>2. new \in Local /\ new.pc = "evict" /\ new.time = j.time /\ new.ports = j.ports
    BY <1>4, PutDown
  <2> HIDE DEF new
  <2> QED BY <1>1, <1>5, <1>9, <2>1, <2>2 DEF Threads
<1>11. TypeOK'
  <2>1. \A p \in DOMAIN cache' : cache'[p] \in 1 .. Len(deques')
    BY <1>5, <1>7 DEF TypeOK
  <2>2. DOMAIN cache' \subseteq Ports
    BY <1>4, <1>5, <1>7 DEF TypeOK
  <2> QED BY <1>5, <1>7, <1>10, <2>1, <2>2 DEF TypeOK
<1>12. DequesOK'
  <2>1. IsFiniteSet(DOMAIN cache')
    <3>1. IsFiniteSet(DOMAIN cache)
      BY <1>5 DEF DequesOK
    <3>2. IsFiniteSet(DOMAIN cache \ {j.port})
      BY <3>1, FS_RemoveElement
    <3> QED BY <1>7, <3>2
  <2>2. \A p, q \in DOMAIN cache' : cache'[p] = cache'[q] => p = q
    BY <1>5, <1>7 DEF DequesOK
  <2> QED BY <1>5, <1>7, <2>1, <2>2 DEF DequesOK
<1>13. LoopOK(k)'
  BY <1>5, <1>7 DEF LoopOK
<1>14. JobOK(l)'
  <2>1. /\ j.time + MaxAge <= now /\ j.ports \subseteq DOMAIN cache
        /\ \A p \in DOMAIN cache \ j.ports :
               Stale(deques[cache[p]], j.time) => InHand(j) /\ p = j.port
        /\ \A p \in j.ports : p \in quiet \/ Recent(deques[cache[p]], j.time)
    BY <1>3, <1>4 DEF JobOK
  <2>2. /\ j.ports \subseteq DOMAIN cache'
        /\ \A p \in DOMAIN cache' \ j.ports : ~ Stale(deques[cache'[p]], j.time)
        /\ \A p \in j.ports : p \in quiet \/ Recent(deques[cache'[p]], j.time)
    BY <1>6, <1>7, <2>1
  <2> QED BY <1>7, <1>10, <2>1, <2>2 DEF JobOK, Evicting, InHand
<1> QED BY <1>9, <1>10, <1>11, <1>12, <1>13, <1>14 DEF Inv

(* An eviction begins, and the history notes the ports that are quiet. *)
LEMMA StartEvictKeeps == ASSUME Inv, StartEvict PROVE Inv'
<1>1. PICK k : k = thread["loop"]
  OBVIOUS
<1>2. PICK cut : cut = now - MaxAge
  OBVIOUS
<1>3. /\ k \in Local /\ LoopOK(k) /\ thread \in [Threads -> Local]
      /\ TypeOK /\ DequesOK
  BY <1>1 DEF Inv, TypeOK, Threads
<1>4. now \in Nat /\ MaxAge \in Nat /\ cut \in Times /\ cut + MaxAge = now
  <2>1. now \in Times /\ now >= MaxAge
    BY <1>3 DEF TypeOK, StartEvict
  <2> QED BY <1>2, <2>1, CacheAssumption DEF CacheAssumption, Times
<1>5. /\ quiet' = {p \in DOMAIN cache :
                       \A i \in 1 .. Len(deques[cache[p]]) : deques[cache[p]][i] < cut}
      /\ UNCHANGED <<now, cache, deques>>
  BY <1>2 DEF StartEvict
<1> DEFINE new == [AtRest EXCEPT !.pc = "evict", !.time = cut, !.ports = DOMAIN cache]
<1>6. thread' = [thread EXCEPT !["job"] = new]
  BY <1>2 DEF StartEvict
<1>7. new \in Local /\ new.pc = "evict" /\ new.time = cut /\ new.ports = DOMAIN cache
  <2>1. AtRest \in Local /\ DOMAIN cache \in SUBSET Ports
    BY <1>3, AtRestFacts DEF TypeOK
  <2> QED BY <1>4, <2>1 DEF Local
<1> HIDE DEF new
<1>8. PICK l : l = new
  OBVIOUS
<1>9. thread' \in [Threads -> Local] /\ thread'["job"] = l /\ thread'["loop"] = k
  BY <1>1, <1>3, <1>6, <1>7, <1>8 DEF Threads
<1>10. TypeOK'
  <2>1. quiet' \subseteq Ports
    BY <1>3, <1>5 DEF TypeOK
  <2> QED BY <1>3, <1>5, <1>9, <2>1 DEF TypeOK
<1>11. DequesOK'
  BY <1>3, <1>5 DEF DequesOK
<1>12. LoopOK(k)'
  BY <1>3, <1>5 DEF LoopOK
<1>13. JobOK(l)'
  <2>1. \A p \in DOMAIN cache : cache[p] \in 1 .. Len(deques)
    BY <1>3 DEF TypeOK
  <2>2. \A p \in DOMAIN cache : p \in quiet' \/ Recent(deques[cache[p]], cut)
    <3>1. SUFFICES ASSUME NEW p \in DOMAIN cache, p \notin quiet' PROVE Recent(deques[cache[p]], cut)
      OBVIOUS
    <3>2. PICK d : d = deques[cache[p]]
      OBVIOUS
    <3>3. d \in Seq(Times) /\ Sorted(d)
      BY <1>3, <2>1, <3>2, DequeType DEF DequesOK
    <3>4. PICK i \in 1 .. Len(d) : ~(d[i] < cut)
      BY <1>5, <3>1, <3>2
    <3>5. \A m \in 1 .. Len(d) : d[m] \in Nat
      BY <3>3, StampType
    <3>6. cut \in Nat /\ Len(d) \in 1 .. Len(d) /\ i <= Len(d) /\ d # <<>>
      BY <1>4, <3>3, <3>4, CacheAssumption DEF CacheAssumption, Times
    <3>7. d[i] <= d[Len(d)]
      BY <3>3, <3>6 DEF Sorted
    <3> QED BY <3>2, <3>4, <3>5, <3>6, <3>7 DEF Recent
  <2>3. cut + MaxAge <= now'
    BY <1>4, <1>5
  <2> QED BY <1>5, <1>7, <1>8, <2>2, <2>3 DEF JobOK, Evicting, InHand
<1> QED BY <1>9, <1>10, <1>11, <1>12, <1>13 DEF Inv

(* Time passes: a cutoff only gets older. *)
LEMMA TickKeeps == ASSUME Inv, Tick PROVE Inv'
<1>1. PICK k : k = thread["loop"]
  OBVIOUS
<1>2. PICK j : j = thread["job"]
  OBVIOUS
<1>3. /\ k \in Local /\ LoopOK(k) /\ j \in Local /\ JobOK(j)
      /\ TypeOK /\ DequesOK
  BY <1>1, <1>2 DEF Inv, TypeOK, Threads
<1>4. Times \subseteq Nat /\ MaxTime \in Nat
  BY CacheAssumption DEF CacheAssumption, Times
<1>5. now \in Nat /\ k.time \in Nat /\ j.time \in Nat /\ now' = now + 1 /\ now < MaxTime
  BY <1>3, <1>4 DEF TypeOK, Local, Tick
<1>6. UNCHANGED <<cache, deques, thread, quiet>>
  BY DEF Tick
<1>7. k.pc # "idle" => now + 1 < k.time + MaxAge
  BY <1>1 DEF Tick, At
<1>8. TypeOK'
  <2>1. now' \in Times
    BY <1>4, <1>5 DEF Times
  <2> QED BY <1>3, <1>6, <2>1 DEF TypeOK
<1>9. DequesOK'
  <2>1. \A d \in 1 .. Len(deques) : Sorted(deques[d]) /\ UpTo(deques[d], now)
    BY <1>3 DEF DequesOK
  <2>2. ASSUME NEW d \in 1 .. Len(deques) PROVE UpTo(deques[d], now')
    <3>1. deques[d] \in Seq(Times) /\ UpTo(deques[d], now)
      BY <1>3, <2>1, DequeType
    <3>2. \A i \in 1 .. Len(deques[d]) : deques[d][i] \in Nat
      BY <3>1, StampType
    <3> QED BY <1>5, <3>1, <3>2 DEF UpTo
  <2> QED BY <1>3, <1>6, <2>1, <2>2 DEF DequesOK
<1>10. LoopOK(k)'
  <2>1. k.pc # "idle" => k.time <= now' /\ now' < k.time + MaxAge
    BY <1>3, <1>5, <1>7 DEF LoopOK
  <2> QED BY <1>3, <1>6, <2>1 DEF LoopOK
<1>11. JobOK(j)'
  <2>1. Evicting(j) => j.time + MaxAge <= now'
    BY <1>3, <1>5, CacheAssumption DEF JobOK, CacheAssumption
  <2> QED BY <1>3, <1>6, <2>1 DEF JobOK
<1> QED BY <1>1, <1>2, <1>6, <1>8, <1>9, <1>10, <1>11 DEF Inv

-----------------------------------------------------------------------------
(* What a step leaves of the recent snapshots of a port.                   *)

KeptOf(p) ==
    \/ /\ p \in DOMAIN cache'
       /\ \/ Kept(deques[cache[p]], deques'[cache'[p]], thread["job"].time)
          \/ Len(deques[cache[p]]) = MaxEntries
    \/ p \in quiet

LEMMA KeptIfSame ==
    ASSUME NEW p \in DOMAIN cache, p \in DOMAIN cache', cache'[p] = cache[p],
           deques'[cache[p]] = deques[cache[p]]
    PROVE  KeptOf(p)
BY DEF KeptOf, Kept

LEMMA KeptByStep ==
    ASSUME Inv, [Next]_vars, thread'["loop"] = thread["loop"], NEW p \in DOMAIN cache
    PROVE  KeptOf(p)
<1>1. PICK j : j = thread["job"]
  OBVIOUS
<1>2. CASE cache' = cache /\ deques' = deques
  BY <1>2, KeptIfSame
<1>3. ASSUME Create \/ PutSnapshot PROVE FALSE
  <2>1. thread'["loop"].pc \in {"lookup", "add"} /\ thread["loop"].pc \in {"create", "append"}
        /\ thread'["loop"].pc # thread["loop"].pc
    BY <1>3 DEF Create, PutSnapshot, Goto, Done, At, Inv, TypeOK, Threads, Local
  <2> QED BY <2>1
<1>4. CASE PopOldest
  <2>1. /\ JobOK(j) /\ j.pc = "pop" /\ j.dq \in 1 .. Len(deques) /\ cache[j.port] = j.dq
        /\ j.port \in DOMAIN cache
    BY <1>1, <1>4, HandType DEF PopOldest, At, InHand
  <2>2. /\ cache' = cache /\ deques' = [deques EXCEPT ![j.dq] = Tail(deques[j.dq])]
        /\ deques \in Seq(Seq(Times))
    BY <1>1, <1>4 DEF PopOldest, Inv, TypeOK
  <2>3. CASE p # j.port
    <3>1. cache[p] # j.dq
      BY <2>1, <2>3 DEF Inv, DequesOK
    <3>2. deques'[cache[p]] = deques[cache[p]]
      BY <2>2, <3>1 DEF Inv, TypeOK
    <3> QED BY <2>2, <3>2, KeptIfSame
  <2>4. CASE p = j.port
    <3>1. PICK d : d = deques[j.dq]
      OBVIOUS
    <3>2. /\ d \in Seq(Times) /\ d # <<>> /\ (Stale(d, j.time) \/ Full(d))
          /\ deques[cache[p]] = d /\ deques'[cache'[p]] = Tail(d)
      BY <2>1, <2>2, <2>4, <3>1 DEF JobOK
    <3>3. CASE Full(d)
      BY <2>2, <3>2, <3>3 DEF KeptOf, Full
    <3>4. CASE Stale(d, j.time)
      <4>1. Kept(d, Tail(d), j.time)
        <5>1. SUFFICES ASSUME NEW i \in 1 .. Len(d), d[i] >= j.time
                       PROVE  \E k \in 1 .. Len(Tail(d)) : Tail(d)[k] = d[i]
          BY DEF Kept
        <5>2. d[1] < j.time /\ d[i] \in Nat /\ j.time \in Nat
          BY <1>1, <3>2, <3>4, StampType, CacheAssumption
          DEF Stale, Inv, TypeOK, Threads, Local, Times, CacheAssumption
        <5>3. i # 1
          BY <3>2, <5>1, <5>2, StampType
        <5>4. i - 1 \in 1 .. Len(Tail(d)) /\ Tail(d)[i - 1] = d[i]
          BY <3>2, <5>3
        <5> QED BY <5>4
      <4> QED BY <1>1, <2>2, <3>2, <4>1 DEF KeptOf
    <3> QED BY <3>2, <3>3, <3>4
  <2> QED BY <2>3, <2>4
<1>5. CASE Delete
  <2>1. j.pc = "del" /\ JobOK(j)
    BY <1>1, <1>5, HandType DEF Delete, At, InHand
  <2>2. j.port \in quiet
    BY <2>1 DEF JobOK
  <2>3. deques' = deques /\ cache' = [q \in DOMAIN cache \ {j.port} |-> cache[q]]
    BY <1>1, <1>5 DEF Delete
  <2>4. CASE p # j.port
    BY <2>3, <2>4, KeptIfSame
  <2>5. CASE p = j.port
    BY <2>2, <2>5 DEF KeptOf
  <2> QED BY <2>4, <2>5
<1> QED
  BY <1>2, <1>3, <1>4, <1>5
  DEF Next, vars, StartPass, Add, Evict, Lookup, StartTable, NextItem, Row, EndTable, Raise,
      StartEvict, Oldest, TestEmpty, EndEvict, Tick

-----------------------------------------------------------------------------
(* The inductive invariant. *)
THEOREM Invariance == Spec => []Inv
<1>1. Init => Inv
  <2> SUFFICES ASSUME Init PROVE Inv
    OBVIOUS
  <2>1. /\ thread["loop"] = AtRest /\ thread["job"] = AtRest
        /\ AtRest.pc = "idle" /\ DOMAIN cache = {} /\ Len(deques) = 0
    BY DEF Init, Threads, AtRest
  <2>2. AtRest \in Local
    BY CacheAssumption DEF CacheAssumption, AtRest, Local, Times
  <2>3. TypeOK
    <3>1. now \in Times /\ quiet \subseteq Ports
      BY CacheAssumption DEF CacheAssumption, Init, Times
    <3>2. deques \in Seq(Seq(Times)) /\ Len(deques) <= MaxDeques /\ 1 .. Len(deques) = {}
      BY <2>1, CacheAssumption DEF CacheAssumption, Init
    <3> QED BY <2>1, <2>2, <3>1, <3>2 DEF Init, TypeOK
  <2>4. DequesOK
    BY <2>1, FS_EmptySet DEF DequesOK
  <2>5. LoopOK(AtRest) /\ JobOK(AtRest)
    <3> HIDE DEF AtRest
    <3> QED BY <2>1 DEF LoopOK, JobOK, Evicting, InHand
  <2> QED BY <2>1, <2>3, <2>4, <2>5 DEF Init, Inv
<1>2. Inv /\ [Next]_vars => Inv'
  <2> SUFFICES ASSUME Inv, [Next]_vars PROVE Inv'
    OBVIOUS
  <2>1. ASSUME NEW p \in Ports, Add(p) \/ Evict(p) PROVE Inv'
    BY <2>1, AddKeeps, EvictKeeps
  <2>2. ASSUME NEW t \in Threads, StartTable(t) \/ NextItem(t) \/ Row(t) PROVE Inv'
    BY <2>2, TableKeeps
  <2>3. ASSUME NEW t \in Threads, EndTable(t) \/ Raise(t) PROVE Inv'
    BY <2>3, RestKeeps DEF EndTable, Raise
  <2>4. CASE EndEvict
    BY <2>4, RestKeeps DEF EndEvict, Threads
  <2>5. CASE StartPass \/ Create \/ Lookup \/ PutSnapshot
    BY <2>5, StartPassKeeps, CreateKeeps, LookupKeeps, PutSnapshotKeeps
  <2>6. CASE StartEvict \/ Oldest \/ PopOldest \/ TestEmpty \/ Delete
    BY <2>6, StartEvictKeeps, OldestKeeps, PopOldestKeeps, TestEmptyKeeps, DeleteKeeps
  <2>7. CASE Tick
    BY <2>7, TickKeeps
  <2>8. CASE UNCHANGED vars
    BY <2>8 DEF vars, Inv, TypeOK, DequesOK, LoopOK, JobOK
  <2> QED BY <2>1, <2>2, <2>3, <2>4, <2>5, <2>6, <2>7, <2>8 DEF Next
<1> QED BY <1>1, <1>2, PTL DEF Spec

(* The threads keep to the types of the cache, and no deque exceeds its    *)
(* maxlen.                                                                 *)
THEOREM TypeCorrect == Spec => []TypeOK
<1>1. Inv => TypeOK
  BY DEF Inv
<1> QED BY <1>1, Invariance, PTL

(* When an eviction is through with the ports it saw, no stale snapshot is *)
(* left, whatever the event loop added or looked up meanwhile.             *)
THEOREM EvictionLeavesNoStale == Spec => []EvictionIsComplete
<1>1. Inv => EvictionIsComplete
  BY DEF Inv, JobOK, Evicting, InHand, At, EvictionIsComplete
<1> QED BY <1>1, Invariance, PTL

(* A step of an eviction takes a recent snapshot from a port only if its   *)
(* deque is full, or if its snapshots were all stale when the eviction     *)
(* began.                                                                  *)
THEOREM EvictionsKeepRecent == Spec => RecentSnapshotsStay
<1>1. Inv /\ [Next]_vars => [thread'["loop"] = thread["loop"] => \A p \in DOMAIN cache : KeptOf(p)]_vars
  BY KeptByStep
<1> QED BY <1>1, Invariance, PTL DEF Spec, RecentSnapshotsStay, KeptOf
=============================================================================
