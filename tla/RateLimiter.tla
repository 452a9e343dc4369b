----------------------------- MODULE RateLimiter -----------------------------
(***************************************************************************)
(* RateLimitMiddleware of backend/presentation/middleware/security.py: a   *)
(* list of request times per address, looked at and extended without an    *)
(* await in between.  Times are ages in ticks, saturated at the window; an *)
(* address never asked from has an empty list.                             *)
(***************************************************************************)
EXTENDS Naturals, Sequences, FiniteSets

CONSTANTS
    Addresses,    \* client addresses
    MaxRequests,  \* max_requests (300)
    Window        \* window_seconds (60), in ticks

ASSUME LimiterAssumption == MaxRequests \in Nat /\ Window \in Nat \ {0}

VARIABLES
    requests,  \* _clients
    admitted   \* history: ages of the requests let through, saturated

limiterVars == <<requests, admitted>>

LimiterInit ==
    /\ requests = [c \in Addresses |-> <<>>]
    /\ admitted = [c \in Addresses |-> <<>>]

(* The requests of a list that have left the window: t <= now - window.    *)
(* They come first, since a list is in the order of time.                  *)
Expired(times) == {i \in DOMAIN times : times[i] >= Window}

WithoutFirst(times, n) == SubSeq(times, n + 1, Len(times))

(* Mutant of Kept: the oldest tick of the window is forgotten. *)
KeptTooFew(times) == WithoutFirst(times, Cardinality({i \in DOMAIN times : times[i] + 1 >= Window}))

(* What is left of a list: t > now - window. *)
Kept(times) == WithoutFirst(times, Cardinality(Expired(times)))

(* The request is noted before it is counted, and stays noted when it is   *)
(* turned away.                                                            *)
Noted(c) == Append(Kept(requests[c]), 0)

LetThrough(c) == Len(Noted(c)) <= MaxRequests

Note(c) ==
    /\ requests' = [requests EXCEPT ![c] = Noted(c)]
    /\ admitted' = IF LetThrough(c) THEN [admitted EXCEPT ![c] = Append(@, 0)] ELSE admitted

Older(times) == [i \in DOMAIN times |-> IF times[i] < Window THEN times[i] + 1 ELSE Window]

LimiterTick ==
    /\ requests' = [c \in Addresses |-> Older(requests[c])]
    /\ admitted' = [c \in Addresses |->
           Older(WithoutFirst(admitted[c], Cardinality(Expired(admitted[c]))))]

InOrder(times) == \A i, k \in DOMAIN times : i <= k => times[i] >= times[k]

LimiterTypeOK ==
    /\ requests \in [Addresses -> Seq(0 .. Window)]
    /\ admitted \in [Addresses -> Seq(0 .. Window)]
    /\ \A c \in Addresses : InOrder(requests[c]) /\ InOrder(admitted[c])

(* In no window of time are more requests of an address handled than the   *)
(* limit, whoever shares the address and whether or not the dashboards     *)
(* send them again after an error.                                         *)
AdmittedPerWindow ==
    \A c \in Addresses :
        Cardinality({i \in DOMAIN admitted[c] : admitted[c][i] < Window}) <= MaxRequests
=============================================================================
