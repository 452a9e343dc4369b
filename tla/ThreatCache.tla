----------------------------- MODULE ThreatCache -----------------------------
(***************************************************************************)
(* The cache of address metadata in backend/core/threat_intel.py, shared   *)
(* by the event loop, which asks for addresses, and the threads of an      *)
(* executor, which fetch the answers.  A step of a thread is one section   *)
(* under the lock, or its end; asking takes two sections, so a thread may  *)
(* store an answer between them.                                           *)
(*                                                                         *)
(* The OrderedDict is the sequence of its keys, oldest first, and what it  *)
(* holds for each.  Time stamps are ages, saturated at the TTL.            *)
(***************************************************************************)
EXTENDS Naturals, Sequences, SequencesExt, FiniteSets

CONSTANTS
    Ips,       \* addresses that are asked for: public and well formed
    Workers,   \* threads of the executor (5)
    MaxSize,   \* _MAX_CACHE_SIZE (10000)
    TTL,       \* _CACHE_TTL (one hour)
    MaxTasks,  \* bound on the fetches waiting for a thread
    MaxFailed  \* bound on the fetches that fail

NoIp == "none"

ASSUME ThreatAssumption ==
    /\ NoIp \notin Ips
    /\ IsFiniteSet(Workers)
    /\ MaxSize \in Nat \ {0}
    /\ TTL \in Nat \ {0}
    /\ MaxTasks \in Nat
    /\ MaxFailed \in Nat

VARIABLES
    order,    \* the keys of _metadata_cache, oldest first
    meta,     \* its values: a placeholder ("pending") or an answer ("data")
    age,      \* _cache_timestamps
    asking,   \* the address the event loop has looked up and not found
    queue,    \* fetches submitted to the executor and not started
    fetching, \* the address each thread is fetching
    failed,   \* history: the number of fetches that failed
    renewed   \* history: addresses whose entry was dropped while a fetch that
              \* is on its way was still to answer

cacheVars == <<order, meta, age, asking, queue, fetching, failed, renewed>>

Ages == 0 .. TTL

Cached == ToSet(order)

(* The fetches for ip that are still to answer. *)
OnTheWay(ip) ==
    Cardinality({i \in 1 .. Len(queue) : queue[i] = ip})
    + Cardinality({w \in Workers : fetching[w] = ip})

(* ip has an entry no more; a fetch on its way will answer all the same. *)
Dropped(ip) == IF OnTheWay(ip) > 0 THEN renewed \cup {ip} ELSE renewed

(* The entry of ip is set: a key the dict has keeps its place. *)
Put(ip, value) ==
    /\ meta' = [i \in Cached \cup {ip} |-> IF i = ip THEN value ELSE meta[i]]
    /\ age' = [i \in Cached \cup {ip} |-> IF i = ip THEN 0 ELSE age[i]]
    /\ order' = IF ip \in Cached THEN order ELSE Append(order, ip)

CacheInit ==
    /\ order = <<>>
    /\ meta = <<>>
    /\ age = <<>>
    /\ asking = NoIp
    /\ queue = <<>>
    /\ fetching = [w \in Workers |-> NoIp]
    /\ failed = 0
    /\ renewed = {}

-----------------------------------------------------------------------------
(* get_ip_metadata, on the event loop.                                     *)

(* An entry that has not expired answers and becomes the newest. *)
Hit(ip) ==
    /\ asking = NoIp
    /\ ip \in Cached
    /\ age[ip] < TTL
    /\ order' = Append(RemoveFirst(order, ip), ip)
    /\ UNCHANGED <<meta, age, asking, queue, fetching, failed, renewed>>

(* Without one, an expired entry is dropped. *)
Miss(ip) ==
    /\ asking = NoIp
    /\ ip \in Cached => age[ip] >= TTL
    /\ order' = RemoveFirst(order, ip)
    /\ meta' = [i \in Cached \ {ip} |-> meta[i]]
    /\ age' = [i \in Cached \ {ip} |-> age[i]]
    /\ renewed' = IF ip \in Cached THEN Dropped(ip) ELSE renewed
    /\ asking' = ip
    /\ UNCHANGED <<queue, fetching, failed>>

(* Mutant of Mark: no placeholder while the fetch is on its way. *)
MarkWithoutPlaceholder ==
    /\ asking # NoIp
    /\ Len(queue) < MaxTasks
    /\ queue' = Append(queue, asking)
    /\ asking' = NoIp
    /\ UNCHANGED <<order, meta, age, fetching, failed, renewed>>

(* Mutant of Mark: the fetch is not submitted. *)
MarkOnly ==
    /\ asking # NoIp
    /\ Put(asking, "pending")
    /\ asking' = NoIp
    /\ UNCHANGED <<queue, fetching, failed, renewed>>

(* The placeholder, without a look at the size, and the fetch. *)
Mark ==
    /\ asking # NoIp
    /\ Len(queue) < MaxTasks
    /\ Put(asking, "pending")
    /\ queue' = Append(queue, asking)
    /\ renewed' = IF OnTheWay(asking) = 0 THEN renewed \ {asking} ELSE renewed
    /\ asking' = NoIp
    /\ UNCHANGED <<fetching, failed>>

-----------------------------------------------------------------------------
(* _fetch_background, on a thread of the executor.                         *)

StartFetch(w) ==
    /\ fetching[w] = NoIp
    /\ queue # <<>>
    /\ fetching' = [fetching EXCEPT ![w] = Head(queue)]
    /\ queue' = Tail(queue)
    /\ UNCHANGED <<order, meta, age, asking, failed, renewed>>

(* Mutant of Store: the time stamp of the oldest entry is left behind. *)
StoreKeepsStamp(w) ==
    LET ip   == fetching[w]
        keys == IF ip \in Cached THEN order ELSE Append(order, ip)
        kept == IF Len(keys) > MaxSize THEN Tail(keys) ELSE keys
    IN  /\ ip # NoIp
        /\ order' = kept
        /\ meta' = [i \in ToSet(kept) |-> IF i = ip THEN "data" ELSE meta[i]]
        /\ age' = [i \in ToSet(keys) |-> IF i = ip THEN 0 ELSE age[i]]
        /\ fetching' = [fetching EXCEPT ![w] = NoIp]
        /\ UNCHANGED <<asking, queue, failed, renewed>>

(* The answer is stored, and when there are too many entries the oldest    *)
(* goes, which may be a placeholder or the very answer.                    *)
Store(w) ==
    LET ip   == fetching[w]
        keys == IF ip \in Cached THEN order ELSE Append(order, ip)
        kept == IF Len(keys) > MaxSize THEN Tail(keys) ELSE keys
        gone == ToSet(keys) \ ToSet(kept)
    IN  /\ ip # NoIp
        /\ order' = kept
        /\ meta' = [i \in ToSet(kept) |-> IF i = ip THEN "data" ELSE meta[i]]
        /\ age' = [i \in ToSet(kept) |-> IF i = ip THEN 0 ELSE age[i]]
        /\ fetching' = [fetching EXCEPT ![w] = NoIp]
        /\ renewed' = renewed \cup {i \in gone : OnTheWay(i) > IF i = ip THEN 1 ELSE 0}
        /\ UNCHANGED <<asking, queue, failed>>

(* A status other than 200, a timeout or any exception: nothing changes,   *)
(* and the placeholder stays until it expires.                             *)
FetchFails(w) ==
    /\ fetching[w] # NoIp
    /\ failed < MaxFailed
    /\ failed' = failed + 1
    /\ fetching' = [fetching EXCEPT ![w] = NoIp]
    /\ UNCHANGED <<order, meta, age, asking, queue, renewed>>

EntriesAge ==
    /\ \E ip \in Cached : age[ip] < TTL
    /\ age' = [ip \in Cached |-> IF age[ip] < TTL THEN age[ip] + 1 ELSE TTL]
    /\ UNCHANGED <<order, meta, asking, queue, fetching, failed, renewed>>

EndFetch(w) == Store(w) \/ FetchFails(w)

CacheNext ==
    \/ \E ip \in Ips : Hit(ip) \/ Miss(ip)
    \/ Mark
    \/ \E w \in Workers : StartFetch(w) \/ EndFetch(w)
    \/ EntriesAge

(* A thread of the executor that is free takes the next fetch, and every   *)
(* fetch ends, after the two seconds of its timeout at the latest.         *)
CacheFairness == \A w \in Workers : WF_cacheVars(StartFetch(w)) /\ WF_cacheVars(EndFetch(w))

CacheSpec == CacheInit /\ [][CacheNext]_cacheVars

FairCacheSpec == CacheSpec /\ CacheFairness

-----------------------------------------------------------------------------
(* Properties.                                                             *)

CacheTypeOK ==
    /\ order \in Seq(Ips)
    /\ IsInjective(order)
    /\ meta \in [Cached -> {"pending", "data"}]
    /\ age \in [Cached -> Ages]
    /\ asking \in Ips \cup {NoIp}
    /\ queue \in Seq(Ips)
    /\ Len(queue) <= MaxTasks
    /\ fetching \in [Workers -> Ips \cup {NoIp}]
    /\ failed \in 0 .. MaxFailed
    /\ renewed \subseteq Ips

(* The placeholder keeps a second fetch for the same address from being    *)
(* submitted ("Mark as pending to prevent multiple threads fetching the    *)
(* same IP"): two are on their way only for an address whose entry was     *)
(* dropped, by its age or by the size limit, before the first answered.    *)
SingleFlight == \A ip \in Ips : OnTheWay(ip) > 1 => ip \in renewed

(* A placeholder does not stay for want of an answer.  Of two fetches for  *)
(* an address the first to answer replaces the placeholder of the other;   *)
(* expiry and the size limit drop placeholders; none of this leaves one    *)
(* behind that nobody will replace.  Only a failed fetch does.             *)
PlaceholderEnds ==
    \A ip \in Ips :
        (ip \in Cached /\ meta[ip] = "pending")
            ~> (ip \notin Cached \/ meta[ip] = "data" \/ failed > 0)
=============================================================================
