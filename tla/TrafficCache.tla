---------------------------- MODULE TrafficCache -----------------------------
(***************************************************************************)
(* SlidingWindowCache of application/services/metrics_service.py, shared   *)
(* without a lock by two threads of the web process: the event loop, where *)
(* the dispatcher adds a snapshot per port and builds the port table, and  *)
(* the thread of application/jobs/scheduler.py, which builds the table for *)
(* the traffic flush and evicts stale snapshots.                           *)
(*                                                                         *)
(* One step is what the interpreter lock makes atomic: one operation on    *)
(* the dict or on one deque.  A snapshot is its time stamp.  The dict maps *)
(* a port to a deque object, since a thread may hold a deque the dict no   *)
(* longer has.                                                             *)
(***************************************************************************)
EXTENDS Naturals, Sequences, FiniteSets

CONSTANTS
    Ports,
    MaxEntries,  \* maxlen of a deque (86400)
    MaxAge,      \* age past which a snapshot is evicted (24 h)
    MaxTime,     \* bound on the clock
    MaxDeques    \* bound on the deques ever created

ASSUME CacheAssumption ==
    /\ MaxEntries \in Nat \ {0}
    /\ MaxAge \in Nat \ {0}
    /\ MaxTime \in Nat
    /\ MaxDeques \in Nat

VARIABLES
    now,      \* the clock
    cache,    \* _cache: port -> deque object
    deques,   \* the contents of every deque object there ever was
    thread,   \* what the event loop ("loop") and the scheduler ("job") do
    quiet     \* history: ports all of whose snapshots were stale when the last
              \* eviction began

vars == <<now, cache, deques, thread, quiet>>

Threads == {"loop", "job"}

Times == 0 .. MaxTime

(* The local variables of a thread: its place, the time stamp of the pass  *)
(* or the cutoff of the eviction, the ports still to be handled, the port  *)
(* and the deque in hand, and the size an iteration over the dict started  *)
(* with.                                                                   *)
Local == [pc    : {"idle", "add", "create", "lookup", "append", "scan", "row",
                   "evict", "oldest", "pop", "empty", "del"},
          time  : Times,
          ports : SUBSET Ports,
          port  : Ports \cup {0},
          dq    : 0 .. MaxDeques,
          size  : Nat]

AtRest == [pc |-> "idle", time |-> 0, ports |-> {}, port |-> 0, dq |-> 0, size |-> 0]

Init ==
    /\ now = 0
    /\ cache = <<>>
    /\ deques = <<>>
    /\ thread = [t \in Threads |-> AtRest]
    /\ quiet = {}

At(t, pc) == thread[t].pc = pc

Goto(t, pc) == thread' = [thread EXCEPT ![t].pc = pc]

(* The port in hand is done with. *)
Done(t, pc) == thread' = [thread EXCEPT ![t].pc = pc, ![t].port = 0, ![t].dq = 0]

(* What the next step of a thread needs and may not find: the key it has   *)
(* tested, a dict of the size the iteration started with, a snapshot in    *)
(* the deque it has tested.                                                *)
Raises(t) ==
    \/ At(t, "lookup") /\ thread[t].port \notin DOMAIN cache
    \/ At(t, "scan") /\ thread[t].size # Cardinality(DOMAIN cache)
    \/ At(t, "row") /\ deques[thread[t].dq] = <<>>

(* KeyError, RuntimeError or IndexError: the exception ends the pass (the  *)
(* dispatcher sleeps and goes on) or the job (the scheduler counts the     *)
(* error and tries again).                                                 *)
Raise(t) ==
    /\ Raises(t)
    /\ thread' = [thread EXCEPT ![t] = AtRest]
    /\ UNCHANGED <<now, cache, deques, quiet>>

-----------------------------------------------------------------------------
(* SlidingWindowCache.add, by the dispatcher, for every port it has read.  *)

StartPass ==
    /\ At("loop", "idle")
    /\ \E S \in SUBSET Ports \ {{}} :
          thread' = [thread EXCEPT !["loop"] =
              [AtRest EXCEPT !.pc = "add", !.time = now, !.ports = S]]
    /\ UNCHANGED <<now, cache, deques, quiet>>

(* The test whether the port is in the dict; ports come in ascending order. *)
Add(p) ==
    /\ At("loop", "add")
    /\ p \in thread["loop"].ports
    /\ \A q \in thread["loop"].ports : p <= q
    /\ thread' = [thread EXCEPT !["loop"].pc = IF p \in DOMAIN cache THEN "lookup" ELSE "create",
                                !["loop"].port = p,
                                !["loop"].ports = @ \ {p}]
    /\ UNCHANGED <<now, cache, deques, quiet>>

Create ==
    /\ At("loop", "create")
    /\ Len(deques) < MaxDeques
    /\ deques' = Append(deques, <<>>)
    /\ cache' = [p \in DOMAIN cache \cup {thread["loop"].port} |->
                    IF p = thread["loop"].port THEN Len(deques') ELSE cache[p]]
    /\ Goto("loop", "lookup")
    /\ UNCHANGED <<now, quiet>>

(* self._cache[port], unless it is gone since the test. *)
Lookup ==
    /\ At("loop", "lookup")
    /\ ~ Raises("loop")
    /\ thread' = [thread EXCEPT !["loop"].pc = "append",
                                !["loop"].dq = cache[thread["loop"].port]]
    /\ UNCHANGED <<now, cache, deques, quiet>>

(* Mutant of Appended: the deque has no maxlen. *)
AppendedUnbounded(d, ts) == Append(d, ts)

(* A full deque drops its oldest snapshot. *)
Appended(d, ts) == Append(IF Len(d) = MaxEntries THEN Tail(d) ELSE d, ts)

PutSnapshot ==
    /\ At("loop", "append")
    /\ deques' = [deques EXCEPT ![thread["loop"].dq] = Appended(@, thread["loop"].time)]
    /\ Done("loop", "add")
    /\ UNCHANGED <<now, cache, quiet>>

-----------------------------------------------------------------------------
(* get_port_table: by the dispatcher after its adds, and by the traffic    *)
(* flush of the scheduler.                                                 *)

StartTable(t) ==
    /\ IF t = "loop" THEN At(t, "add") /\ thread[t].ports = {} ELSE At(t, "idle")
    /\ thread' = [thread EXCEPT ![t].pc = "scan",
                                ![t].ports = DOMAIN cache,
                                ![t].size = Cardinality(DOMAIN cache)]
    /\ UNCHANGED <<now, cache, deques, quiet>>

(* The next item of the dict, whose size must not have changed meanwhile,  *)
(* and the test whether its deque is empty.                                *)
NextItem(t) ==
    /\ At(t, "scan")
    /\ ~ Raises(t)
    /\ \E p \in thread[t].ports \cap DOMAIN cache :
          LET d == cache[p]
          IN  thread' = [thread EXCEPT ![t].pc = IF deques[d] = <<>> THEN "scan" ELSE "row",
                                       ![t].ports = @ \ {p},
                                       ![t].dq = IF deques[d] = <<>> THEN 0 ELSE d]
    /\ UNCHANGED <<now, cache, deques, quiet>>

(* dq[-1], unless the deque has become empty since the test. *)
Row(t) ==
    /\ At(t, "row")
    /\ ~ Raises(t)
    /\ Done(t, "scan")
    /\ UNCHANGED <<now, cache, deques, quiet>>

EndTable(t) ==
    /\ At(t, "scan")
    /\ ~ Raises(t)
    /\ thread[t].ports \cap DOMAIN cache = {}
    /\ thread' = [thread EXCEPT ![t] = AtRest]
    /\ UNCHANGED <<now, cache, deques, quiet>>

-----------------------------------------------------------------------------
(* evict_stale, by the scheduler.                                          *)

(* Mutant of Stale: a snapshot exactly at the cutoff is evicted. *)
StaleInclusive(d, cutoff) == d # <<>> /\ d[1] <= cutoff

Stale(d, cutoff) == d # <<>> /\ d[1] < cutoff

StartEvict ==
    /\ At("job", "idle")
    /\ now >= MaxAge
    /\ thread' = [thread EXCEPT !["job"] =
           [AtRest EXCEPT !.pc = "evict", !.time = now - MaxAge, !.ports = DOMAIN cache]]
    /\ quiet' = {p \in DOMAIN cache :
           \A i \in 1 .. Len(deques[cache[p]]) : deques[cache[p]][i] < now - MaxAge}
    /\ UNCHANGED <<now, cache, deques>>

Evict(p) ==
    /\ At("job", "evict")
    /\ p \in thread["job"].ports
    /\ thread' = [thread EXCEPT !["job"].pc = "oldest",
                                !["job"].ports = @ \ {p},
                                !["job"].port = p,
                                !["job"].dq = cache[p]]
    /\ UNCHANGED <<now, cache, deques, quiet>>

(* while dq and dq[0].timestamp < cutoff *)
Oldest ==
    /\ At("job", "oldest")
    /\ Goto("job", IF Stale(deques[thread["job"].dq], thread["job"].time) THEN "pop" ELSE "empty")
    /\ UNCHANGED <<now, cache, deques, quiet>>

(* Mutant of PopOldest: one snapshot per pass. *)
PopOldestOnce ==
    /\ At("job", "pop")
    /\ deques' = [deques EXCEPT ![thread["job"].dq] = Tail(@)]
    /\ Goto("job", "empty")
    /\ UNCHANGED <<now, cache, quiet>>

(* popleft.  The oldest snapshot need not be the one that was tested: a    *)
(* full deque may have rotated in between.                                 *)
PopOldest ==
    /\ At("job", "pop")
    /\ deques' = [deques EXCEPT ![thread["job"].dq] = Tail(@)]
    /\ Goto("job", "oldest")
    /\ UNCHANGED <<now, cache, quiet>>

(* if not dq *)
TestEmpty ==
    /\ At("job", "empty")
    /\ IF deques[thread["job"].dq] = <<>> THEN Goto("job", "del") ELSE Done("job", "evict")
    /\ UNCHANGED <<now, cache, deques, quiet>>

(* del self._cache[port], whatever is in the deque by now. *)
Delete ==
    /\ At("job", "del")
    /\ cache' = [p \in DOMAIN cache \ {thread["job"].port} |-> cache[p]]
    /\ Done("job", "evict")
    /\ UNCHANGED <<now, deques, quiet>>

EndEvict ==
    /\ At("job", "evict")
    /\ thread["job"].ports = {}
    /\ thread' = [thread EXCEPT !["job"] = AtRest]
    /\ UNCHANGED <<now, cache, deques, quiet>>

(* A pass of the dispatcher takes less than MaxAge. *)
Tick ==
    /\ now < MaxTime
    /\ At("loop", "idle") \/ now + 1 < thread["loop"].time + MaxAge
    /\ now' = now + 1
    /\ UNCHANGED <<cache, deques, thread, quiet>>

Next ==
    \/ StartPass
    \/ \E p \in Ports : Add(p) \/ Evict(p)
    \/ Create
    \/ Lookup
    \/ PutSnapshot
    \/ \E t \in Threads : StartTable(t) \/ NextItem(t) \/ Row(t) \/ EndTable(t) \/ Raise(t)
    \/ StartEvict
    \/ Oldest
    \/ PopOldest
    \/ TestEmpty
    \/ Delete
    \/ EndEvict
    \/ Tick

Spec == Init /\ [][Next]_vars

-----------------------------------------------------------------------------
(* Properties.                                                             *)

TypeOK ==
    /\ now \in Times
    /\ deques \in Seq(Seq(Times))
    /\ Len(deques) <= MaxDeques
    /\ \A d \in 1 .. Len(deques) : Len(deques[d]) <= MaxEntries
    /\ DOMAIN cache \subseteq Ports
    /\ \A p \in DOMAIN cache : cache[p] \in 1 .. Len(deques)
    /\ thread \in [Threads -> Local]
    /\ quiet \subseteq Ports

(* An eviction leaves no stale snapshot in the cache, whatever the event   *)
(* loop added meanwhile.                                                   *)
EvictionIsComplete ==
    At("job", "evict") /\ thread["job"].ports = {} =>
        \A p \in DOMAIN cache : ~ Stale(deques[cache[p]], thread["job"].time)

(* The snapshots of a deque that are not older than the cutoff are in the  *)
(* other one.                                                              *)
Kept(d, e, cutoff) ==
    \A i \in 1 .. Len(d) : d[i] >= cutoff => \E k \in 1 .. Len(e) : e[k] = d[i]

(* An eviction takes a recent snapshot from a port in two races only.  A   *)
(* full deque may rotate between the test of its oldest snapshot and the   *)
(* removal, and then loses one more.  And a port may come back between the *)
(* test for an empty deque and the deletion of the port, which takes the   *)
(* new snapshot along (as it does one the event loop has still to add to   *)
(* the deque it looked up): that happens only to ports whose snapshots     *)
(* were all stale when this eviction began.                                *)
RecentSnapshotsStay ==
    [][thread'["loop"] = thread["loop"] =>
           \A p \in DOMAIN cache :
               \/ /\ p \in DOMAIN cache'
                  /\ \/ Kept(deques[cache[p]], deques'[cache'[p]], thread["job"].time)
                     \/ Len(deques[cache[p]]) = MaxEntries
               \/ p \in quiet]_vars
=============================================================================
