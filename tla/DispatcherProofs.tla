--------------------------- MODULE DispatcherProofs ---------------------------
(***************************************************************************)
(* The two services the dispatcher asks about every snapshot of a pass:    *)
(* the cache of address metadata, which fetches an address once however    *)
(* its answers overtake each other, and the automated response, whose      *)
(* audit trail is true wherever an attempt breaks off and whose policies   *)
(* stay registered ones however they come and go.  They share no state.    *)
(***************************************************************************)
EXTENDS PolicyResponse, ThreatCache, SequenceTheorems, FiniteSetTheorems, FunctionTheorems,
        WellFoundedInduction, TLAPS

-----------------------------------------------------------------------------
(* Dicts, whose keys are sequences without repetition.                     *)

(* The key at a place goes and those behind it move up. *)
LEMMA RemoveAtFacts ==
    ASSUME NEW S, NEW s \in Seq(S), NEW n \in 1 .. Len(s)
    PROVE  /\ RemoveAt(s, n) \in Seq(S)
           /\ Len(RemoveAt(s, n)) = Len(s) - 1
           /\ \A i \in 1 .. n - 1 : RemoveAt(s, n)[i] = s[i]
           /\ \A i \in n .. Len(s) - 1 : RemoveAt(s, n)[i] = s[i + 1]
<1>1. Len(s) \in Nat /\ n \in Nat /\ 1 <= n /\ n <= Len(s) /\ \A i \in 1 .. Len(s) : s[i] \in S
  OBVIOUS
<1>2. PICK a : a = SubSeq(s, 1, n - 1)
  OBVIOUS
<1>3. PICK b : b = SubSeq(s, n + 1, Len(s))
  OBVIOUS
<1>4. /\ a \in Seq(S) /\ Len(a) = n - 1
      /\ \A i \in 1 .. n - 1 : a[i] = s[i]
  <2>1. n - 1 \in Int /\ 1 \in Int /\ \A i \in 1 .. n - 1 : s[i] \in S
    BY <1>1
  <2>2. /\ a \in Seq(S) /\ Len(a) = IF 1 <= n - 1 THEN (n - 1) - 1 + 1 ELSE 0
        /\ \A i \in 1 .. (n - 1) - 1 + 1 : a[i] = s[1 + i - 1]
    BY <1>2, <2>1, SubSeqProperties
  <2>3. Len(a) = n - 1
    BY <1>1, <2>2
  <2>4. \A i \in 1 .. n - 1 : a[i] = s[i]
    <3>1. SUFFICES ASSUME NEW i \in 1 .. n - 1 PROVE a[i] = s[i]
      OBVIOUS
    <3>2. i \in 1 .. (n - 1) - 1 + 1 /\ 1 + i - 1 = i
      BY <1>1
    <3> QED BY <2>2, <3>2
  <2> QED BY <2>2, <2>3, <2>4
<1>5. /\ b \in Seq(S) /\ Len(b) = Len(s) - n
      /\ \A i \in 1 .. Len(s) - n : b[i] = s[n + i]
  <2>1. n + 1 \in Int /\ Len(s) \in Int /\ \A i \in n + 1 .. Len(s) : s[i] \in S
    BY <1>1
  <2>2. /\ b \in Seq(S) /\ Len(b) = IF n + 1 <= Len(s) THEN Len(s) - (n + 1) + 1 ELSE 0
        /\ \A i \in 1 .. Len(s) - (n + 1) + 1 : b[i] = s[(n + 1) + i - 1]
    BY <1>3, <2>1, SubSeqProperties
  <2>3. Len(b) = Len(s) - n
    BY <1>1, <2>2
  <2>4. \A i \in 1 .. Len(s) - n : b[i] = s[n + i]
    <3>1. SUFFICES ASSUME NEW i \in 1 .. Len(s) - n PROVE b[i] = s[n + i]
      OBVIOUS
    <3>2. i \in 1 .. Len(s) - (n + 1) + 1 /\ (n + 1) + i - 1 = n + i
      BY <1>1
    <3> QED BY <2>2, <3>2
  <2> QED BY <2>2, <2>3, <2>4
<1>6. PICK t : t = a \o b
  OBVIOUS
<1>7. /\ t \in Seq(S) /\ Len(t) = Len(a) + Len(b)
      /\ \A i \in 1 .. Len(a) + Len(b) : t[i] = IF i <= Len(a) THEN a[i] ELSE b[i - Len(a)]
  BY <1>4, <1>5, <1>6, ConcatProperties
<1>8. Len(t) = Len(s) - 1
  BY <1>1, <1>4, <1>5, <1>7
<1>9. \A i \in 1 .. n - 1 : t[i] = s[i]
  BY <1>1, <1>4, <1>5, <1>7
<1>10. \A i \in n .. Len(s) - 1 : t[i] = s[i + 1]
  <2>1. SUFFICES ASSUME NEW i \in n .. Len(s) - 1 PROVE t[i] = s[i + 1]
    OBVIOUS
  <2>2. /\ i \in 1 .. Len(a) + Len(b) /\ ~(i <= Len(a))
        /\ i - Len(a) \in 1 .. Len(s) - n /\ n + (i - Len(a)) = i + 1
    BY <1>1, <1>4, <1>5
  <2> QED BY <1>5, <1>7, <2>2
<1>11. RemoveAt(s, n) = t
  BY <1>2, <1>3, <1>6 DEF RemoveAt
<1> QED BY <1>7, <1>8, <1>9, <1>10, <1>11

(* A key that is there once is the one that goes. *)
LEMMA RemoveFirstFacts ==
    ASSUME NEW S, NEW s \in Seq(S), NEW e, NEW n \in 1 .. Len(s), s[n] = e,
           \A i \in 1 .. Len(s) : s[i] = e => i = n
    PROVE  RemoveFirst(s, e) = RemoveAt(s, n)
<1>1. {i \in 1 .. Len(s) : s[i] = e} = {n}
  OBVIOUS
<1>2. Min({n}) = n
  BY DEF Min
<1>3. SelectInSeq(s, LAMBDA v : v = e) = n
  BY <1>1, <1>2 DEF SelectInSeq
<1> QED BY <1>3 DEF RemoveFirst

(* A dict without one of its keys. *)
LEMMA RemoveKey ==
    ASSUME NEW S, NEW s \in Seq(S), IsInjective(s), NEW e
    PROVE  /\ RemoveFirst(s, e) \in Seq(S)
           /\ IsInjective(RemoveFirst(s, e))
           /\ ToSet(RemoveFirst(s, e)) = ToSet(s) \ {e}
<1>1. Len(s) \in Nat /\ DOMAIN s = 1 .. Len(s)
  OBVIOUS
<1>2. \A i, k \in 1 .. Len(s) : s[i] = s[k] => i = k
  BY <1>1 DEF IsInjective
<1>3. CASE ~ \E i \in 1 .. Len(s) : s[i] = e
  <2>1. RemoveFirst(s, e) = s
    BY <1>3 DEF RemoveFirst
  <2>2. ToSet(s) \ {e} = ToSet(s)
    BY <1>1, <1>3 DEF ToSet
  <2> QED BY <2>1, <2>2
<1>4. ASSUME NEW n \in 1 .. Len(s), s[n] = e
      PROVE  /\ RemoveFirst(s, e) \in Seq(S)
             /\ IsInjective(RemoveFirst(s, e))
             /\ ToSet(RemoveFirst(s, e)) = ToSet(s) \ {e}
  <2>1. \A i \in 1 .. Len(s) : s[i] = e => i = n
    BY <1>2, <1>4
  <2>2. PICK t : t = RemoveAt(s, n) /\ t = RemoveFirst(s, e)
    BY <1>4, <2>1, RemoveFirstFacts
  <2>3. /\ t \in Seq(S) /\ Len(t) = Len(s) - 1
        /\ \A i \in 1 .. n - 1 : t[i] = s[i]
        /\ \A i \in n .. Len(s) - 1 : t[i] = s[i + 1]
    BY <2>2, RemoveAtFacts
  <2>4. DOMAIN t = 1 .. Len(s) - 1
    BY <2>3
  <2>5. PICK from : from = [i \in 1 .. Len(s) - 1 |-> IF i < n THEN i ELSE i + 1]
    OBVIOUS
  <2>6. /\ \A i \in 1 .. Len(s) - 1 : from[i] \in 1 .. Len(s) /\ from[i] # n /\ t[i] = s[from[i]]
        /\ \A i, k \in 1 .. Len(s) - 1 : from[i] = from[k] => i = k
    BY <1>1, <2>3, <2>5
  <2>7. \A k \in 1 .. Len(s) : k # n => \E i \in 1 .. Len(s) - 1 : from[i] = k
    <3> SUFFICES ASSUME NEW k \in 1 .. Len(s), k # n
                 PROVE  \E i \in 1 .. Len(s) - 1 : from[i] = k
      OBVIOUS
    <3>1. CASE k < n
      <4>1. k \in 1 .. Len(s) - 1 /\ from[k] = k
        BY <1>1, <2>5, <3>1
      <4> QED BY <4>1
    <3>2. CASE k > n
      <4>1. k - 1 \in 1 .. Len(s) - 1 /\ from[k - 1] = k
        BY <1>1, <2>5, <3>2
      <4> QED BY <4>1
    <3> QED BY <1>1, <3>1, <3>2
  <2>8. IsInjective(t)
    BY <1>2, <2>4, <2>6 DEF IsInjective
  <2>9. ToSet(t) \subseteq ToSet(s) \ {e}
    <3> SUFFICES ASSUME NEW i \in 1 .. Len(s) - 1 PROVE t[i] \in ToSet(s) \ {e}
      BY <2>4 DEF ToSet
    <3>1. from[i] \in 1 .. Len(s) /\ from[i] # n /\ t[i] = s[from[i]]
      BY <2>6
    <3> QED BY <1>1, <2>1, <3>1 DEF ToSet
  <2>10. ToSet(s) \ {e} \subseteq ToSet(t)
    <3> SUFFICES ASSUME NEW k \in 1 .. Len(s), s[k] # e PROVE s[k] \in ToSet(t)
      BY <1>1 DEF ToSet
    <3>1. PICK i \in 1 .. Len(s) - 1 : from[i] = k
      BY <1>4, <2>7
    <3>2. t[i] = s[k]
      BY <2>6, <3>1
    <3> QED BY <2>4, <3>2 DEF ToSet
  <2> QED BY <2>2, <2>3, <2>8, <2>9, <2>10
<1> QED BY <1>3, <1>4

(* A dict with one more key. *)
LEMMA AppendKey ==
    ASSUME NEW S, NEW s \in Seq(S), IsInjective(s), NEW e \in S, e \notin ToSet(s)
    PROVE  /\ Append(s, e) \in Seq(S)
           /\ IsInjective(Append(s, e))
           /\ ToSet(Append(s, e)) = ToSet(s) \cup {e}
<1>1. Len(s) \in Nat /\ DOMAIN s = 1 .. Len(s)
  OBVIOUS
<1>2. PICK t : t = Append(s, e)
  OBVIOUS
<1>3. /\ t \in Seq(S) /\ Len(t) = Len(s) + 1 /\ t[Len(s) + 1] = e
      /\ \A i \in 1 .. Len(s) : t[i] = s[i]
      /\ DOMAIN t = 1 .. Len(s) + 1
  BY <1>2, AppendProperties
<1>4. ToSet(t) = ToSet(s) \cup {e}
  <2>1. ToSet(t) \subseteq ToSet(s) \cup {e}
    <3> SUFFICES ASSUME NEW i \in 1 .. Len(s) + 1 PROVE t[i] \in ToSet(s) \cup {e}
      BY <1>3 DEF ToSet
    <3>1. i = Len(s) + 1 \/ i \in 1 .. Len(s)
      BY <1>1
    <3> QED BY <1>1, <1>3, <3>1 DEF ToSet
  <2>2. e \in ToSet(t)
    <3>1. Len(s) + 1 \in 1 .. Len(s) + 1
      BY <1>1
    <3> QED BY <1>3, <3>1 DEF ToSet
  <2>3. ToSet(s) \subseteq ToSet(t)
    <3> SUFFICES ASSUME NEW i \in 1 .. Len(s) PROVE s[i] \in ToSet(t)
      BY <1>1 DEF ToSet
    <3>1. i \in 1 .. Len(s) + 1 /\ t[i] = s[i]
      BY <1>1, <1>3
    <3> QED BY <1>3, <3>1 DEF ToSet
  <2> QED BY <2>1, <2>2, <2>3
<1>5. IsInjective(t)
  <2> SUFFICES ASSUME NEW i \in 1 .. Len(s) + 1, NEW k \in 1 .. Len(s) + 1, t[i] = t[k]
               PROVE  i = k
    BY <1>3 DEF IsInjective
  <2>1. \A j \in 1 .. Len(s) : s[j] # e
    BY <1>1 DEF ToSet
  <2>2. CASE i \in 1 .. Len(s) /\ k \in 1 .. Len(s)
    <3>1. s[i] = s[k]
      BY <1>3, <2>2
    <3> QED BY <1>1, <2>2, <3>1 DEF IsInjective
  <2>3. CASE i = Len(s) + 1 /\ k = Len(s) + 1
    BY <2>3
  <2>4. CASE i = Len(s) + 1 /\ k \in 1 .. Len(s)
    BY <1>3, <2>1, <2>4
  <2>5. CASE i \in 1 .. Len(s) /\ k = Len(s) + 1
    BY <1>3, <2>1, <2>5
  <2> QED BY <1>1, <2>2, <2>3, <2>4, <2>5
<1> QED BY <1>2, <1>3, <1>4, <1>5

(* A dict without its oldest key. *)
LEMMA TailKeys ==
    ASSUME NEW S, NEW s \in Seq(S), IsInjective(s), s # <<>>
    PROVE  /\ Tail(s) \in Seq(S)
           /\ IsInjective(Tail(s))
           /\ ToSet(Tail(s)) \subseteq ToSet(s)
<1>1. Len(s) \in Nat /\ DOMAIN s = 1 .. Len(s)
  OBVIOUS
<1>2. PICK t : t = Tail(s)
  OBVIOUS
<1>3. /\ t \in Seq(S) /\ Len(t) = Len(s) - 1 /\ DOMAIN t = 1 .. Len(s) - 1
      /\ \A i \in 1 .. Len(s) - 1 : t[i] = s[i + 1]
  BY <1>2, HeadTailProperties
<1>4. \A i \in 1 .. Len(s) - 1 : i + 1 \in 1 .. Len(s)
  BY <1>1
<1>5. ToSet(t) \subseteq ToSet(s)
  <2> SUFFICES ASSUME NEW i \in 1 .. Len(s) - 1 PROVE t[i] \in ToSet(s)
    BY <1>3 DEF ToSet
  <2> QED BY <1>1, <1>3, <1>4 DEF ToSet
<1>6. IsInjective(t)
  <2> SUFFICES ASSUME NEW i \in 1 .. Len(s) - 1, NEW k \in 1 .. Len(s) - 1, t[i] = t[k]
               PROVE  i = k
    BY <1>3 DEF IsInjective
  <2>1. s[i + 1] = s[k + 1]
    BY <1>3
  <2>2. i + 1 = k + 1
    BY <1>1, <1>4, <2>1 DEF IsInjective
  <2> QED BY <1>1, <2>2
<1> QED BY <1>2, <1>3, <1>5, <1>6

-----------------------------------------------------------------------------
(* Fetches on their way.                                                   *)

InQueue(q, ip) == {i \in 1 .. Len(q) : q[i] = ip}

AtThreads(f, ip) == {w \in Workers : f[w] = ip}

OneIf(a, b) == IF a = b THEN 1 ELSE 0

LEMMA Numbers ==
    ASSUME NEW q \in Seq(Ips), NEW f, NEW ip
    PROVE  /\ IsFiniteSet(InQueue(q, ip)) /\ Cardinality(InQueue(q, ip)) \in Nat
           /\ IsFiniteSet(AtThreads(f, ip)) /\ Cardinality(AtThreads(f, ip)) \in Nat
<1>1. IsFiniteSet(1 .. Len(q))
  BY FS_Interval
<1>2. InQueue(q, ip) \subseteq 1 .. Len(q) /\ AtThreads(f, ip) \subseteq Workers
  BY DEF InQueue, AtThreads
<1>3. IsFiniteSet(Workers)
  BY ThreatAssumption
<1>4. IsFiniteSet(InQueue(q, ip)) /\ IsFiniteSet(AtThreads(f, ip))
  BY <1>1, <1>2, <1>3, FS_Subset
<1> QED BY <1>4, FS_CardinalityType

(* A fetch that is submitted. *)
LEMMA Submitted ==
    ASSUME NEW q \in Seq(Ips), NEW a \in Ips, NEW ip
    PROVE  Cardinality(InQueue(Append(q, a), ip))
               = Cardinality(InQueue(q, ip)) + OneIf(a, ip)
<1>1. PICK t : t = Append(q, a)
  OBVIOUS
<1>2. /\ Len(q) \in Nat /\ Len(t) = Len(q) + 1 /\ t[Len(q) + 1] = a
      /\ \A i \in 1 .. Len(q) : t[i] = q[i]
  BY <1>1, AppendProperties
<1>3. Len(q) + 1 \notin InQueue(q, ip)
  BY <1>2 DEF InQueue
<1>4. InQueue(t, ip) = IF a = ip THEN InQueue(q, ip) \cup {Len(q) + 1} ELSE InQueue(q, ip)
  <2>1. \A i : i \in 1 .. Len(t) <=> i \in 1 .. Len(q) \/ i = Len(q) + 1
    BY <1>2
  <2> QED BY <1>2, <2>1 DEF InQueue
<1>5. IsFiniteSet(InQueue(q, ip)) /\ Cardinality(InQueue(q, ip)) \in Nat
  BY Numbers
<1>6. CASE a = ip
  <2>1. Cardinality(InQueue(q, ip) \cup {Len(q) + 1}) = Cardinality(InQueue(q, ip)) + 1
    BY <1>3, <1>5, FS_AddElement
  <2> QED BY <1>1, <1>4, <1>6, <2>1 DEF OneIf
<1>7. CASE a # ip
  BY <1>1, <1>4, <1>5, <1>7 DEF OneIf
<1> QED BY <1>6, <1>7

(* The first fetch of the queue is taken out. *)
LEMMA TakenOut ==
    ASSUME NEW q \in Seq(Ips), q # <<>>, NEW ip
    PROVE  Cardinality(InQueue(q, ip))
               = Cardinality(InQueue(Tail(q), ip)) + OneIf(Head(q), ip)
<1>1. PICK t : t = Tail(q)
  OBVIOUS
<1>2. /\ Len(q) \in Nat \ {0} /\ t \in Seq(Ips) /\ Len(t) = Len(q) - 1 /\ Head(q) = q[1]
      /\ \A i \in 1 .. Len(q) - 1 : t[i] = q[i + 1]
  BY <1>1, HeadTailProperties, EmptySeq
<1>3. PICK A, B : A = InQueue(t, ip) /\ B = InQueue(q, ip) \ {1}
  OBVIOUS
<1>4. /\ \A i \in A : i \in Nat /\ i + 1 \in B
      /\ \A k \in B : k \in Nat /\ k - 1 \in A
  <2>1. ASSUME NEW i \in A PROVE i \in Nat /\ i + 1 \in B
    <3>1. i \in 1 .. Len(q) - 1 /\ t[i] = ip
      BY <1>2, <1>3 DEF InQueue
    <3>2. i + 1 \in 1 .. Len(q) /\ i + 1 # 1 /\ q[i + 1] = ip
      BY <1>2, <3>1
    <3> QED BY <1>3, <3>1, <3>2 DEF InQueue
  <2>2. ASSUME NEW k \in B PROVE k \in Nat /\ k - 1 \in A
    <3>1. k \in 1 .. Len(q) /\ q[k] = ip /\ k # 1
      BY <1>3 DEF InQueue
    <3>2. k - 1 \in 1 .. Len(q) - 1 /\ (k - 1) + 1 = k
      BY <1>2, <3>1
    <3>3. t[k - 1] = ip
      BY <1>2, <3>1, <3>2
    <3> QED BY <1>2, <1>3, <3>1, <3>2, <3>3 DEF InQueue
  <2> QED BY <2>1, <2>2
<1>5. PICK f : f = [i \in A |-> i + 1]
  OBVIOUS
<1>6. f \in Bijection(A, B)
  <2>1. f \in [A -> B] /\ \A a, b \in A : f[a] = f[b] => a = b
    BY <1>4, <1>5
  <2>2. \A k \in B : \E i \in A : f[i] = k
    <3> SUFFICES ASSUME NEW k \in B PROVE \E i \in A : f[i] = k
      OBVIOUS
    <3>1. k - 1 \in A /\ f[k - 1] = k
      BY <1>4, <1>5
    <3> QED BY <3>1
  <2> QED BY <2>1, <2>2, Fun_IsBij
<1>7. IsFiniteSet(A) /\ Cardinality(A) \in Nat
  BY <1>2, <1>3, Numbers
<1>8. Cardinality(B) = Cardinality(A)
  BY <1>6, <1>7, FS_Bijection DEF ExistsBijection
<1>9. /\ IsFiniteSet(InQueue(q, ip)) /\ Cardinality(InQueue(q, ip)) \in Nat
      /\ 1 \in InQueue(q, ip) <=> Head(q) = ip
  <2>1. 1 \in 1 .. Len(q)
    BY <1>2
  <2>2. 1 \in InQueue(q, ip) <=> Head(q) = ip
    BY <1>2, <2>1 DEF InQueue
  <2> QED BY <2>2, Numbers
<1>10. Cardinality(B) = IF Head(q) = ip THEN Cardinality(InQueue(q, ip)) - 1
                        ELSE Cardinality(InQueue(q, ip))
  BY <1>3, <1>9, FS_RemoveElement
<1> QED BY <1>1, <1>3, <1>7, <1>8, <1>9, <1>10 DEF OneIf

(* A thread begins to fetch, or ends. *)
LEMMA ThreadChanges ==
    ASSUME NEW f \in [Workers -> Ips \cup {NoIp}], NEW w \in Workers,
           NEW ip, NEW g, \A v \in Workers \ {w} : g[v] = f[v]
    PROVE  Cardinality(AtThreads(g, ip)) + OneIf(f[w], ip)
               = Cardinality(AtThreads(f, ip)) + OneIf(g[w], ip)
<1>1. PICK others : others = AtThreads(f, ip) \ {w}
  OBVIOUS
<1>2. IsFiniteSet(others) /\ Cardinality(others) \in Nat /\ w \notin others
  <2>1. IsFiniteSet(AtThreads(f, ip))
    BY Numbers, EmptySeq
  <2> QED BY <1>1, <2>1, FS_RemoveElement, FS_CardinalityType
<1>3. Cardinality(others \cup {w}) = Cardinality(others) + 1
  BY <1>2, FS_AddElement
<1>4. AtThreads(f, ip) = IF f[w] = ip THEN others \cup {w} ELSE others
  BY <1>1 DEF AtThreads
<1>5. AtThreads(g, ip) = IF g[w] = ip THEN others \cup {w} ELSE others
  BY <1>1 DEF AtThreads
<1> QED BY <1>2, <1>3, <1>4, <1>5 DEF OneIf

LEMMA ThreadSteps ==
    ASSUME NEW w \in Workers, NEW ip, fetching \in [Workers -> Ips \cup {NoIp}],
           \A v \in Workers \ {w} : fetching'[v] = fetching[v]
    PROVE  Cardinality(AtThreads(fetching', ip)) + OneIf(fetching[w], ip)
               = Cardinality(AtThreads(fetching, ip)) + OneIf(fetching'[w], ip)
BY ThreadChanges

(* How many fetches are on their way for each address. *)
Flights == [ip \in Ips |-> OnTheWay(ip)]

LEMMA FlightsAre ==
    ASSUME NEW ip \in Ips
    PROVE  /\ Flights[ip] = Cardinality(InQueue(queue, ip)) + Cardinality(AtThreads(fetching, ip))
           /\ Flights'[ip] = Cardinality(InQueue(queue', ip)) + Cardinality(AtThreads(fetching', ip))
BY DEF Flights, OnTheWay, InQueue, AtThreads

LEMMA FlightsType == queue \in Seq(Ips) => Flights \in [Ips -> Nat]
<1> SUFFICES ASSUME queue \in Seq(Ips), NEW ip \in Ips PROVE Flights[ip] \in Nat
  BY DEF Flights
<1> QED BY FlightsAre, Numbers

LEMMA FlightsStay == UNCHANGED <<queue, fetching>> => Flights' = Flights
BY DEF Flights, OnTheWay

LEMMA FlightSubmitted ==
    ASSUME queue \in Seq(Ips), NEW a \in Ips, queue' = Append(queue, a), fetching' = fetching
    PROVE  Flights' = [Flights EXCEPT ![a] = @ + 1]
<1>1. ASSUME NEW ip \in Ips PROVE Flights'[ip] = [Flights EXCEPT ![a] = @ + 1][ip]
  <2>1. Cardinality(InQueue(queue', ip)) = Cardinality(InQueue(queue, ip)) + OneIf(a, ip)
    BY Submitted
  <2>2. Flights'[ip] = Flights[ip] + OneIf(a, ip)
    BY <2>1, FlightsAre, Numbers DEF OneIf
  <2>3. Flights \in [Ips -> Nat]
    BY FlightsType
  <2> QED BY <2>2, <2>3 DEF OneIf
<1> QED BY <1>1 DEF Flights

LEMMA FlightStarted ==
    ASSUME CacheTypeOK, NEW w \in Workers, StartFetch(w)
    PROVE  Flights' = Flights
<1>1. /\ queue \in Seq(Ips) /\ queue # <<>> /\ queue' = Tail(queue)
      /\ fetching \in [Workers -> Ips \cup {NoIp}] /\ fetching[w] = NoIp
      /\ fetching' = [fetching EXCEPT ![w] = Head(queue)]
      /\ Head(queue) \in Ips /\ queue' \in Seq(Ips)
  BY HeadTailProperties DEF CacheTypeOK, StartFetch
<1>2. ASSUME NEW ip \in Ips PROVE Flights'[ip] = Flights[ip]
  <2>1. Cardinality(InQueue(queue, ip)) = Cardinality(InQueue(queue', ip)) + OneIf(Head(queue), ip)
    BY <1>1, TakenOut
  <2>2. Cardinality(AtThreads(fetching', ip)) + OneIf(fetching[w], ip)
            = Cardinality(AtThreads(fetching, ip)) + OneIf(Head(queue), ip)
    <3>1. \A v \in Workers \ {w} : fetching'[v] = fetching[v]
      BY <1>1
    <3>2. fetching'[w] = Head(queue)
      BY <1>1
    <3>3. Cardinality(AtThreads(fetching', ip)) + OneIf(fetching[w], ip)
              = Cardinality(AtThreads(fetching, ip)) + OneIf(fetching'[w], ip)
      <4>1. fetching \in [Workers -> Ips \cup {NoIp}]
        BY <1>1
      <4> QED BY <3>1, <4>1, ThreadSteps
    <3> QED BY <3>2, <3>3
  <2>3. OneIf(fetching[w], ip) = 0
    BY <1>1, ThreatAssumption DEF OneIf
  <2>4. /\ Cardinality(InQueue(queue, ip)) \in Nat /\ Cardinality(AtThreads(fetching, ip)) \in Nat
        /\ Cardinality(InQueue(queue', ip)) \in Nat /\ Cardinality(AtThreads(fetching', ip)) \in Nat
        /\ OneIf(Head(queue), ip) \in Nat
    BY <1>1, Numbers DEF OneIf
  <2> QED BY <2>1, <2>2, <2>3, <2>4, FlightsAre
<1> QED BY <1>2 DEF Flights

LEMMA FlightEnded ==
    ASSUME CacheTypeOK, NEW w \in Workers, fetching[w] # NoIp,
           fetching' = [fetching EXCEPT ![w] = NoIp], queue' = queue
    PROVE  /\ Flights[fetching[w]] > 0
           /\ Flights' = [Flights EXCEPT ![fetching[w]] = @ - 1]
<1>1. /\ queue \in Seq(Ips) /\ fetching \in [Workers -> Ips \cup {NoIp}]
      /\ fetching[w] \in Ips
  BY DEF CacheTypeOK
<1>2. PICK e \in Ips : e = fetching[w]
  BY <1>1
<1>3. ASSUME NEW ip \in Ips
      PROVE  /\ Flights'[ip] + OneIf(e, ip) = Flights[ip]
             /\ Flights[ip] \in Nat /\ Flights'[ip] \in Nat
  <2>1. Cardinality(AtThreads(fetching', ip)) + OneIf(fetching[w], ip)
            = Cardinality(AtThreads(fetching, ip)) + OneIf(fetching'[w], ip)
    <3>1. \A v \in Workers \ {w} : fetching'[v] = fetching[v]
      BY <1>1
    <3>2. fetching \in [Workers -> Ips \cup {NoIp}]
      BY <1>1
    <3> QED BY <3>1, <3>2, ThreadSteps
  <2>2. OneIf(fetching'[w], ip) = 0
    BY <1>1, ThreatAssumption DEF OneIf
  <2>3. /\ Cardinality(InQueue(queue, ip)) \in Nat /\ Cardinality(AtThreads(fetching, ip)) \in Nat
        /\ Cardinality(AtThreads(fetching', ip)) \in Nat
        /\ OneIf(e, ip) \in Nat /\ OneIf(e, ip) = OneIf(fetching[w], ip)
    BY <1>1, <1>2, Numbers DEF OneIf
  <2>4. /\ Flights[ip] = Cardinality(InQueue(queue, ip)) + Cardinality(AtThreads(fetching, ip))
        /\ Flights'[ip] = Cardinality(InQueue(queue, ip)) + Cardinality(AtThreads(fetching', ip))
    BY FlightsAre
  <2> QED BY <2>1, <2>2, <2>3, <2>4
<1>4. \A ip \in Ips : Flights'[ip] = [Flights EXCEPT ![e] = @ - 1][ip]
  <2> SUFFICES ASSUME NEW ip \in Ips PROVE Flights'[ip] = [Flights EXCEPT ![e] = @ - 1][ip]
    OBVIOUS
  <2>1. DOMAIN Flights = Ips
    BY DEF Flights
  <2> QED BY <1>3, <2>1 DEF OneIf
<1>5. Flights[e] > 0
  BY <1>3 DEF OneIf
<1> QED BY <1>2, <1>4, <1>5 DEF Flights

-----------------------------------------------------------------------------
(* What a second fetch tells.                                              *)

(* A fetch on its way has an entry to answer for, or one that was dropped. *)
FetchOK ==
    /\ \A ip \in Ips : Flights[ip] > 1 => ip \in renewed
    /\ \A ip \in Ips : Flights[ip] > 0 /\ ip \notin Cached => ip \in renewed

(* An address that is looked up and not found has no fetch on its way but  *)
(* for a dropped entry.                                                    *)
AskingOK == asking # NoIp /\ Flights[asking] > 0 => asking \in renewed

Inv == CacheTypeOK /\ FetchOK /\ AskingOK

(* The three parts of the cache agree on the keys. *)
KeysOK ==
    /\ order \in Seq(Ips)
    /\ IsInjective(order)
    /\ meta \in [Cached -> {"pending", "data"}]
    /\ age \in [Cached -> Ages]

LEMMA PutKeys ==
    ASSUME KeysOK, NEW ip \in Ips, NEW value \in {"pending", "data"}, Put(ip, value)
    PROVE  KeysOK' /\ Cached' = Cached \cup {ip}
<1>1. 0 \in Ages
  BY ThreatAssumption DEF Ages
<1>2. order' \in Seq(Ips) /\ IsInjective(order') /\ ToSet(order') = Cached \cup {ip}
  BY AppendKey DEF KeysOK, Put, Cached
<1>3. Cached' = Cached \cup {ip}
  BY <1>2 DEF Cached
<1>4. /\ meta' \in [Cached \cup {ip} -> {"pending", "data"}]
      /\ age' \in [Cached \cup {ip} -> Ages]
  BY <1>1 DEF KeysOK, Put
<1> QED BY <1>2, <1>3, <1>4 DEF KeysOK

LEMMA HitKeeps == ASSUME Inv, NEW ip \in Ips, Hit(ip) PROVE Inv'
<1>1. PICK rest : rest = RemoveFirst(order, ip)
  OBVIOUS
<1>2. rest \in Seq(Ips) /\ IsInjective(rest) /\ ToSet(rest) = Cached \ {ip}
  BY <1>1, RemoveKey DEF Inv, CacheTypeOK, Cached
<1>3. order' = Append(rest, ip) /\ ip \in Cached
  BY <1>1 DEF Hit
<1>4. order' \in Seq(Ips) /\ IsInjective(order') /\ ToSet(order') = Cached
  <2>1. ip \notin ToSet(rest)
    BY <1>2
  <2>2. /\ Append(rest, ip) \in Seq(Ips) /\ IsInjective(Append(rest, ip))
        /\ ToSet(Append(rest, ip)) = ToSet(rest) \cup {ip}
    BY <1>2, <2>1, AppendKey
  <2> QED BY <1>2, <1>3, <2>2
<1>5. Cached' = Cached
  BY <1>4 DEF Cached
<1>6. Flights' = Flights
  BY FlightsStay DEF Hit
<1>7. CacheTypeOK'
  BY <1>4, <1>5 DEF Hit, Inv, CacheTypeOK, Ages
<1> QED BY <1>5, <1>6, <1>7 DEF Hit, Inv, FetchOK, AskingOK

LEMMA MissKeeps == ASSUME Inv, NEW ip \in Ips, Miss(ip) PROVE Inv'
<1>1. order' \in Seq(Ips) /\ IsInjective(order') /\ ToSet(order') = Cached \ {ip}
  BY RemoveKey DEF Inv, CacheTypeOK, Cached, Miss
<1>2. Cached' = Cached \ {ip}
  BY <1>1 DEF Cached
<1>3. Flights' = Flights /\ Flights \in [Ips -> Nat]
  BY FlightsStay, FlightsType DEF Miss, Inv, CacheTypeOK
<1>4. /\ meta' \in [Cached \ {ip} -> {"pending", "data"}]
      /\ age' \in [Cached \ {ip} -> Ages]
  BY DEF Miss, Inv, CacheTypeOK
<1>5. /\ renewed \subseteq renewed' /\ renewed' \subseteq Ips
      /\ Flights[ip] > 0 => ip \in renewed'
  BY DEF Miss, Dropped, Flights, Inv, CacheTypeOK, FetchOK
<1>6. CacheTypeOK'
  BY <1>1, <1>2, <1>4, <1>5 DEF Miss, Inv, CacheTypeOK, Ages
<1>7. FetchOK'
  BY <1>2, <1>3, <1>5 DEF Inv, FetchOK
<1>8. AskingOK'
  BY <1>3, <1>5 DEF Miss, AskingOK
<1> QED BY <1>6, <1>7, <1>8 DEF Inv

LEMMA MarkKeeps == ASSUME Inv, Mark PROVE Inv'
<1>1. PICK ip \in Ips : ip = asking
  BY DEF Inv, CacheTypeOK, Mark
<1>2. KeysOK' /\ Cached' = Cached \cup {ip}
  <2>1. KeysOK /\ Put(ip, "pending")
    BY <1>1 DEF Inv, CacheTypeOK, KeysOK, Mark
  <2> QED BY <2>1, PutKeys
<1>3. queue' \in Seq(Ips) /\ Len(queue') = Len(queue) + 1 /\ Len(queue') <= MaxTasks
  BY <1>1, AppendProperties, ThreatAssumption DEF Inv, CacheTypeOK, Mark
<1>4. /\ Flights' = [Flights EXCEPT ![ip] = @ + 1]
      /\ Flights \in [Ips -> Nat]
  BY <1>1, FlightSubmitted, FlightsType DEF Inv, CacheTypeOK, Mark
<1>5. /\ Flights[ip] = 0 => renewed' = renewed \ {ip}
      /\ Flights[ip] # 0 => renewed' = renewed /\ ip \in renewed
  BY <1>1, <1>4, ThreatAssumption DEF Mark, Flights, Inv, AskingOK
<1>6. CacheTypeOK'
  BY <1>2, <1>3, <1>5 DEF KeysOK, Mark, Inv, CacheTypeOK, Ages
<1>7. FetchOK'
  BY <1>2, <1>4, <1>5 DEF Inv, FetchOK
<1>8. AskingOK'
  BY DEF Mark, AskingOK
<1> QED BY <1>6, <1>7, <1>8 DEF Inv

LEMMA StartFetchKeeps == ASSUME Inv, NEW w \in Workers, StartFetch(w) PROVE Inv'
<1>1. Flights' = Flights
  BY FlightStarted DEF Inv
<1>2. Cached' = Cached
  BY DEF StartFetch, Cached
<1>3. CacheTypeOK'
  <2>1. Head(queue) \in Ips /\ Tail(queue) \in Seq(Ips) /\ Len(Tail(queue)) = Len(queue) - 1
    BY HeadTailProperties DEF StartFetch, Inv, CacheTypeOK
  <2>2. queue' \in Seq(Ips) /\ Len(queue') <= MaxTasks
    BY <2>1, ThreatAssumption, EmptySeq DEF StartFetch, Inv, CacheTypeOK
  <2>3. fetching' \in [Workers -> Ips \cup {NoIp}]
    BY <2>1 DEF StartFetch, Inv, CacheTypeOK
  <2> QED BY <1>2, <2>2, <2>3 DEF StartFetch, Inv, CacheTypeOK, Ages
<1> QED BY <1>1, <1>2, <1>3 DEF StartFetch, Inv, FetchOK, AskingOK

LEMMA FetchFailsKeeps == ASSUME Inv, NEW w \in Workers, FetchFails(w) PROVE Inv'
<1>1. PICK ip \in Ips : ip = fetching[w]
  BY DEF Inv, CacheTypeOK, FetchFails
<1>2. Flights' = [Flights EXCEPT ![ip] = @ - 1] /\ Flights \in [Ips -> Nat]
  BY <1>1, FlightEnded, FlightsType DEF FetchFails, Inv, CacheTypeOK
<1>3. Cached' = Cached
  BY DEF FetchFails, Cached
<1>4. CacheTypeOK'
  BY <1>3, ThreatAssumption DEF FetchFails, Inv, CacheTypeOK, Ages
<1>5. FetchOK' /\ AskingOK'
  BY <1>2, <1>3 DEF FetchFails, Inv, CacheTypeOK, FetchOK, AskingOK
<1> QED BY <1>4, <1>5 DEF Inv

LEMMA StoreKeeps == ASSUME Inv, NEW w \in Workers, Store(w) PROVE Inv'
<1>1. PICK ip \in Ips : ip = fetching[w]
  BY DEF Inv, CacheTypeOK, Store
<1>2. PICK keys : keys = IF ip \in Cached THEN order ELSE Append(order, ip)
  OBVIOUS
<1>3. PICK kept : kept = IF Len(keys) > MaxSize THEN Tail(keys) ELSE keys
  OBVIOUS
<1>4. keys \in Seq(Ips) /\ IsInjective(keys) /\ ToSet(keys) = Cached \cup {ip}
  BY <1>2, AppendKey DEF Inv, CacheTypeOK, Cached
<1>5. kept \in Seq(Ips) /\ IsInjective(kept) /\ ToSet(kept) \subseteq Cached \cup {ip}
  <2>1. Len(keys) > MaxSize => keys # <<>>
    BY ThreatAssumption, EmptySeq
  <2> QED BY <1>3, <1>4, <2>1, TailKeys
<1>6. /\ order' = kept
      /\ meta' = [i \in ToSet(kept) |-> IF i = ip THEN "data" ELSE meta[i]]
      /\ age' = [i \in ToSet(kept) |-> IF i = ip THEN 0 ELSE age[i]]
      /\ fetching' = [fetching EXCEPT ![w] = NoIp]
      /\ renewed' = renewed \cup {i \in ToSet(keys) \ ToSet(kept) :
                                     OnTheWay(i) > IF i = ip THEN 1 ELSE 0}
      /\ UNCHANGED <<asking, queue, failed>>
      /\ fetching[w] # NoIp
  BY <1>1, <1>2, <1>3 DEF Store
<1>7. Cached' = ToSet(kept)
  BY <1>6 DEF Cached
<1>8. /\ Flights' = [Flights EXCEPT ![ip] = @ - 1] /\ Flights \in [Ips -> Nat]
      /\ Flights[ip] > 0
  BY <1>1, <1>6, FlightEnded, FlightsType DEF Inv, CacheTypeOK
<1>9. /\ renewed \subseteq renewed' /\ renewed' \subseteq Ips
      /\ \A i \in (Cached \cup {ip}) \ ToSet(kept) : i \in Ips /\ (Flights'[i] > 0 => i \in renewed')
  <2>1. Cached \subseteq Ips
    BY DEF Inv, CacheTypeOK, Cached, ToSet
  <2>2. \A i \in Ips : OnTheWay(i) = Flights[i]
    BY DEF Flights
  <2>3. renewed \subseteq Ips
    BY DEF Inv, CacheTypeOK
  <2>4. ASSUME NEW i \in (Cached \cup {ip}) \ ToSet(kept), Flights'[i] > 0 PROVE i \in renewed'
    <3>1. i \in Ips /\ OnTheWay(i) = Flights[i] /\ Flights[i] \in Nat
      BY <1>8, <2>1, <2>2
    <3>2. OnTheWay(i) > IF i = ip THEN 1 ELSE 0
      BY <1>8, <2>4, <3>1
    <3> QED BY <1>4, <1>6, <3>2
  <2> QED BY <1>4, <1>6, <2>1, <2>3, <2>4
<1>10. CacheTypeOK'
  <2>1. 0 \in Ages
    BY ThreatAssumption DEF Ages
  <2>2. /\ meta' \in [ToSet(kept) -> {"pending", "data"}]
        /\ age' \in [ToSet(kept) -> Ages]
    BY <1>5, <1>6, <2>1 DEF Inv, CacheTypeOK
  <2>3. fetching' \in [Workers -> Ips \cup {NoIp}]
    BY <1>6 DEF Inv, CacheTypeOK
  <2> QED BY <1>5, <1>6, <1>7, <1>9, <2>2, <2>3 DEF Inv, CacheTypeOK, Ages
<1>11. FetchOK'
  <2>1. ASSUME NEW i \in Ips, Flights'[i] > 1 PROVE i \in renewed'
    BY <1>8, <1>9, <2>1 DEF Inv, FetchOK
  <2>2. ASSUME NEW i \in Ips, Flights'[i] > 0, i \notin Cached' PROVE i \in renewed'
    <3>1. CASE i \in Cached \cup {ip}
      BY <1>7, <1>9, <2>2, <3>1
    <3>2. CASE i \notin Cached \cup {ip}
      BY <1>8, <1>9, <2>2, <3>2 DEF Inv, FetchOK
    <3> QED BY <3>1, <3>2
  <2> QED BY <2>1, <2>2 DEF FetchOK
<1>12. AskingOK'
  BY <1>6, <1>8, <1>9 DEF Inv, CacheTypeOK, AskingOK
<1> QED BY <1>10, <1>11, <1>12 DEF Inv

LEMMA TickKeeps == ASSUME Inv, EntriesAge PROVE Inv'
<1>1. Flights' = Flights
  BY FlightsStay DEF EntriesAge
<1>2. Cached' = Cached
  BY DEF EntriesAge, Cached
<1>3. age' \in [Cached -> Ages]
  BY ThreatAssumption DEF EntriesAge, Inv, CacheTypeOK, Ages
<1>4. CacheTypeOK'
  BY <1>2, <1>3 DEF EntriesAge, Inv, CacheTypeOK, Ages
<1> QED BY <1>1, <1>2, <1>4 DEF EntriesAge, Inv, FetchOK, AskingOK

(* The inductive invariant of the cache. *)
THEOREM CacheInvariance == CacheSpec => []Inv
<1>1. CacheInit => Inv
  <2> SUFFICES ASSUME CacheInit PROVE Inv
    OBVIOUS
  <2>1. Cached = {} /\ IsInjective(order)
    BY DEF CacheInit, Cached, ToSet, IsInjective
  <2>2. CacheTypeOK
    BY <2>1, ThreatAssumption DEF CacheInit, CacheTypeOK
  <2>3. \A ip \in Ips : Flights[ip] = 0
    <3> SUFFICES ASSUME NEW ip \in Ips PROVE Flights[ip] = 0
      OBVIOUS
    <3>1. InQueue(queue, ip) = {} /\ AtThreads(fetching, ip) = {}
      BY ThreatAssumption DEF CacheInit, InQueue, AtThreads
    <3> QED BY <3>1, FlightsAre, FS_EmptySet
  <2> QED BY <2>2, <2>3 DEF CacheInit, Inv, FetchOK, AskingOK
<1>2. Inv /\ [CacheNext]_cacheVars => Inv'
  <2> SUFFICES ASSUME Inv, [CacheNext]_cacheVars PROVE Inv'
    OBVIOUS
  <2>1. CASE UNCHANGED cacheVars
    <3>1. Flights' = Flights /\ Cached' = Cached
      BY <2>1, FlightsStay DEF cacheVars, Cached
    <3> QED BY <2>1, <3>1 DEF cacheVars, Inv, CacheTypeOK, FetchOK, AskingOK, Ages
  <2> QED
    BY <2>1, HitKeeps, MissKeeps, MarkKeeps, StartFetchKeeps, StoreKeeps, FetchFailsKeeps,
       TickKeeps
    DEF CacheNext, EndFetch
<1> QED BY <1>1, <1>2, PTL DEF CacheSpec

(* Type correctness of the cache. *)
THEOREM TypeCorrect == CacheSpec => []CacheTypeOK
<1>1. Inv => CacheTypeOK
  BY DEF Inv
<1> QED BY <1>1, CacheInvariance, PTL

(* Two fetches for an address are on their way only when its entry was     *)
(* dropped before the first one answered, for any addresses, threads and   *)
(* sizes of the cache.                                                     *)
THEOREM FetchedOnce == CacheSpec => []SingleFlight
<1>1. Inv => SingleFlight
  <2> SUFFICES ASSUME Inv, NEW ip \in Ips, OnTheWay(ip) > 1 PROVE ip \in renewed
    BY DEF SingleFlight
  <2>1. Flights[ip] = OnTheWay(ip)
    BY DEF Flights
  <2> QED BY <2>1 DEF Inv, FetchOK
<1> QED BY <1>1, CacheInvariance, PTL

-----------------------------------------------------------------------------
(* The automated response.                                                 *)

StatesOK == bridge \in Bridges /\ state \in [Ports -> PortState]

ResponseInv == StatesOK /\ TrailIsTrue

(* What a port may look like when nothing wrong is claimed of it. *)
True(st) == st \in PortState /\ (st.claimed /\ ~st.doubt => st.blocked /\ st.listed)

(* Wherever a block breaks off, nothing wrong is claimed. *)
LEMMA BlockingTrue ==
    ASSUME NEW st, True(st), NEW b \in AfterBlock(st), NEW n \in DOMAIN Blocking(st, b)
    PROVE  True(Blocking(st, b)[n])
<1>1. b \in BOOLEAN /\ (st.blocked => b)
  BY DEF AfterBlock, True, PortState
<1> DEFINE called == [st EXCEPT !.blocked = b]
           listed == [st EXCEPT !.blocked = b, !.listed = TRUE]
           done   == [blocked |-> b, listed |-> TRUE, claimed |-> TRUE, doubt |-> ~b]
<1>2. True(called) /\ True(listed) /\ True(done)
  BY <1>1 DEF True, PortState
<1>3. Blocking(st, b) = <<st, called, listed, done>>
  BY DEF Blocking
<1> HIDE DEF called, listed, done
<1> QED BY <1>2, <1>3

(* Wherever an unblock breaks off, what is claimed is in doubt. *)
LEMMA UnblockingTrue ==
    ASSUME NEW st, True(st), NEW b \in AfterUnblock(st), NEW n \in DOMAIN Unblocking(st, b)
    PROVE  True(Unblocking(st, b)[n])
<1>1. b \in BOOLEAN
  BY DEF AfterUnblock, True, PortState
<1> DEFINE called   == [st EXCEPT !.blocked = b, !.doubt = TRUE]
           unlisted == [st EXCEPT !.blocked = b, !.listed = FALSE, !.doubt = TRUE]
           done     == [Open EXCEPT !.blocked = b]
<1>2. True(called) /\ True(unlisted) /\ True(done)
  BY <1>1 DEF True, PortState, Open
<1>3. Unblocking(st, b) = <<st, called, unlisted, done>>
  BY DEF Unblocking
<1> HIDE DEF called, unlisted, done
<1> QED BY <1>2, <1>3

(* However far the handler comes, what it leaves claims nothing wrong.     *)
LEMMA OutcomesTrue ==
    ASSUME NEW r, NEW st, True(st), NEW o \in Outcomes(r, st)
    PROVE  True(o.state)
<1>1. PICK e \in Effects(r, st) :
          o \in {[state |-> e[n], done |-> n = Len(e)] : n \in BreaksOff(e)}
  BY DEF Outcomes
<1>2. PICK n \in DOMAIN e : o = [state |-> e[n], done |-> n = Len(e)]
  BY <1>1 DEF BreaksOff
<1>3. True(e[n])
  <2>1. CASE r.action = "block" /\ bridge # "none"
    <3>1. PICK b \in AfterBlock(st) : e = Blocking(st, b)
      BY <1>1, <2>1 DEF Effects
    <3> QED BY <1>2, <3>1, BlockingTrue
  <2>2. CASE ~(r.action = "block" /\ bridge # "none")
    <3>1. e = <<st, st, st>> \/ e = <<st, st>>
      BY <1>1, <2>2 DEF Effects
    <3>2. e[n] = st
      BY <1>2, <3>1
    <3> QED BY <3>2
  <2> QED BY <2>1, <2>2
<1> QED BY <1>2, <1>3

(* The same of what publishing an event leaves, and of no event. *)
LEMMA PublishedTrue ==
    ASSUME NEW p \in Ports, True(state[p]), NEW triggered, NEW o \in Published(p, triggered)
    PROVE  True(o.state)
<1>1. CASE o = [state |-> state[p], done |-> FALSE]
  BY <1>1
<1>2. CASE \E r \in triggered : o \in Outcomes(r, state[p])
  BY <1>2, OutcomesTrue
<1> QED BY <1>1, <1>2 DEF Published

(* The inductive invariant of the response. *)
THEOREM ResponseInvariance == Spec => []ResponseInv
<1>1. Init => ResponseInv
  BY ResponseAssumption DEF Init, ResponseInv, StatesOK, TrailIsTrue, Open, PortState
<1>2. ResponseInv /\ [Next]_vars => ResponseInv'
  <2> SUFFICES ASSUME ResponseInv, [Next]_vars PROVE ResponseInv'
    OBVIOUS
  <2> USE DEF ResponseInv, StatesOK, TrailIsTrue
  <2>1. CASE Pass
    <3>1. PICK o : /\ \A p \in Ports : \E t : o[p] \in Published(p, t)
                   /\ state' = [p \in Ports |-> o[p].state]
                   /\ bridge' = bridge
      BY <2>1 DEF Pass
    <3>2. \A p \in Ports : True(o[p].state)
      BY <3>1, PublishedTrue DEF True
    <3> QED BY <3>1, <3>2 DEF True
  <2>2. ASSUME NEW p \in Ports, Command(p) PROVE ResponseInv'
    <3>1. True(state[p]) /\ bridge' = bridge
      BY <2>2 DEF True, Command
    <3>2. PICK t : True(t) /\ state' = [state EXCEPT ![p] = t]
      <4>1. CASE \E b \in AfterBlock(state[p]) : \E n \in BreaksOff(Blocking(state[p], b)) :
                     state' = [state EXCEPT ![p] = Blocking(state[p], b)[n]]
        BY <3>1, <4>1, BlockingTrue DEF BreaksOff
      <4>2. CASE \E b \in AfterUnblock(state[p]) : \E n \in BreaksOff(Unblocking(state[p], b)) :
                     state' = [state EXCEPT ![p] = Unblocking(state[p], b)[n]]
        BY <3>1, <4>2, UnblockingTrue DEF BreaksOff
      <4> QED BY <2>2, <4>1, <4>2 DEF Command
    <3>3. state' \in [Ports -> PortState] /\ \A q \in Ports : True(state'[q])
      BY <3>2 DEF True
    <3> QED BY <3>1, <3>3 DEF True
  <2>3. CASE UNCHANGED <<bridge, state>>
    BY <2>3
  <2>4. ChangePolicies \/ Tick \/ StepBack \/ FaultsChange \/ UNCHANGED vars
           => UNCHANGED <<bridge, state>>
    BY DEF ChangePolicies, Tick, StepBack, FaultsChange, vars
  <2> QED BY <2>1, <2>2, <2>3, <2>4 DEF Next
<1> QED BY <1>1, <1>2, PTL DEF Spec

(* A port of which the trail says last that it was blocked is blocked and  *)
(* listed, unless one of the two failures nobody records made it doubtful, *)
(* for any policies, any commands and any failures.                        *)
THEOREM TrailIsAlwaysTrue == Spec => []TrailIsTrue
<1>1. ResponseInv => TrailIsTrue
  BY DEF ResponseInv
<1> QED BY <1>1, ResponseInvariance, PTL

-----------------------------------------------------------------------------
(* The list of policies.                                                   *)

(* Induction, for a set of the numbers that fail. *)
LEMMA LeastNumber ==
    ASSUME NEW S \in SUBSET Nat, S # {}
    PROVE  \E n \in S : \A m \in S : n <= m
<1>1. IsWellFoundedOn(OpToRel(<, Nat), Nat)
  BY NatLessThanWellFounded
<1>2. PICK R : R = OpToRel(<, Nat)
  OBVIOUS
<1>3. PICK n \in S : \A m \in S : <<m, n>> \notin R
  BY <1>1, <1>2, WFMin
<1>4. \A m \in S : ~(m < n)
  BY <1>2, <1>3 DEF OpToRel
<1>5. \A m \in S : n <= m
  BY <1>4
<1> QED BY <1>5

(* What is kept of the first policies, place by place. *)
Keeps(f, s, id, n) ==
    f = [m \in 0 .. n |-> IF m = 0 THEN <<>>
                          ELSE IF s[m].id = id THEN f[m - 1]
                          ELSE Append(f[m - 1], s[m])]

LEMMA KeepsSteps ==
    ASSUME NEW f, NEW s, NEW id, NEW n \in Nat, Keeps(f, s, id, n)
    PROVE  /\ f[0] = <<>>
           /\ \A m \in 1 .. n : f[m] = IF s[m].id = id THEN f[m - 1] ELSE Append(f[m - 1], s[m])
<1>1. PICK h : h = [m \in 0 .. n |-> IF m = 0 THEN <<>>
                                     ELSE IF s[m].id = id THEN f[m - 1]
                                     ELSE Append(f[m - 1], s[m])]
  OBVIOUS
<1>2. f = h
  BY <1>1 DEF Keeps
<1>3. h[0] = <<>>
  BY <1>1
<1>4. ASSUME NEW m \in 1 .. n
      PROVE  h[m] = IF s[m].id = id THEN f[m - 1] ELSE Append(f[m - 1], s[m])
  <2>1. m \in 0 .. n /\ m # 0
    OBVIOUS
  <2> QED BY <1>1, <2>1
<1> QED BY <1>2, <1>3, <1>4

(* There is such a function, however long the list. *)
LEMMA KeepsExists ==
    ASSUME NEW s, NEW id, NEW n \in Nat
    PROVE  \E f : Keeps(f, s, id, n)
<1> DEFINE Bad == {k \in Nat : ~\E f : Keeps(f, s, id, k)}
<1>1. SUFFICES Bad = {}
  OBVIOUS
<1>2. SUFFICES ASSUME Bad # {} PROVE FALSE
  OBVIOUS
<1>3. PICK k \in Bad : \A m \in Bad : k <= m
  <2>1. Bad \in SUBSET Nat
    OBVIOUS
  <2> HIDE DEF Bad
  <2> QED BY <1>2, <2>1, LeastNumber
<1>4. CASE k = 0
  <2>1. Keeps([m \in 0 .. 0 |-> <<>>], s, id, 0)
    BY DEF Keeps
  <2> QED BY <1>3, <1>4, <2>1
<1>5. CASE k # 0
  <2>1. k - 1 \in Nat /\ k - 1 \notin Bad
    BY <1>3, <1>5
  <2>2. PICK f : Keeps(f, s, id, k - 1)
    BY <2>1
  <2> DEFINE g == [m \in 0 .. k |-> IF m = 0 THEN <<>>
                                    ELSE IF s[m].id = id THEN f[m - 1]
                                    ELSE Append(f[m - 1], s[m])]
  <2>3. \A m \in 0 .. k - 1 : g[m] = f[m]
    <3>1. f[0] = <<>> /\ \A m \in 1 .. k - 1 :
              f[m] = IF s[m].id = id THEN f[m - 1] ELSE Append(f[m - 1], s[m])
      BY <2>1, <2>2, KeepsSteps
    <3>2. \A m \in 0 .. k - 1 : m \in 0 .. k /\ (m = 0 \/ m \in 1 .. k - 1)
      BY <1>3
    <3> QED BY <3>1, <3>2
  <2>4. g = [m \in 0 .. k |-> IF m = 0 THEN <<>>
                              ELSE IF s[m].id = id THEN g[m - 1]
                              ELSE Append(g[m - 1], s[m])]
    <3>1. \A m \in 0 .. k : m # 0 => m - 1 \in 0 .. k - 1
      BY <1>3
    <3>2. \A m \in 0 .. k : m # 0 => g[m - 1] = f[m - 1]
      BY <2>3, <3>1
    <3> QED BY <3>2
  <2>5. Keeps(g, s, id, k)
    BY <2>4 DEF Keeps
  <2> QED BY <1>3, <2>5
<1> QED BY <1>4, <1>5

(* Without is what is kept of the whole list. *)
LEMMA WithoutKeeps ==
    ASSUME NEW s, NEW id, Len(s) \in Nat
    PROVE  \E f : Keeps(f, s, id, Len(s)) /\ Without(s, id) = f[Len(s)]
<1>1. PICK f : f = CHOOSE g : Keeps(g, s, id, Len(s))
  OBVIOUS
<1>2. Keeps(f, s, id, Len(s))
  BY <1>1, KeepsExists
<1>3. Without(s, id) = f[Len(s)]
  BY <1>1 DEF Without, Keeps
<1> QED BY <1>2, <1>3

(* What is left are the policies with other ids, all of them and no other. *)
LEMMA WithoutFacts ==
    ASSUME NEW s \in Seq(Rules), NEW id
    PROVE  /\ Without(s, id) \in Seq(Rules)
           /\ Len(Without(s, id)) <= Len(s)
           /\ \A r : Contains(Without(s, id), r) <=> Contains(s, r) /\ r.id # id
<1>1. PICK f : Keeps(f, s, id, Len(s)) /\ Without(s, id) = f[Len(s)]
  BY WithoutKeeps
<1>2. Len(s) \in Nat /\ DOMAIN s = 1 .. Len(s) /\ \A i \in DOMAIN s : s[i] \in Rules
  OBVIOUS
<1> DEFINE Fine(n) ==
        /\ f[n] \in Seq(Rules) /\ Len(f[n]) <= n
        /\ \A r : (\E i \in DOMAIN f[n] : f[n][i] = r)
                     <=> (\E i \in 1 .. n : s[i] = r /\ r.id # id)
<1>3. f[0] = <<>> /\ \A n \in 1 .. Len(s) :
          f[n] = IF s[n].id = id THEN f[n - 1] ELSE Append(f[n - 1], s[n])
  BY <1>1, <1>2, KeepsSteps
<1>4. Fine(0)
  BY <1>3
<1>5. ASSUME NEW n \in 1 .. Len(s), Fine(n - 1) PROVE Fine(n)
  <2>1. CASE s[n].id = id
    <3>1. PICK t \in Seq(Rules) : t = f[n - 1] /\ t = f[n] /\ Len(t) <= n - 1 /\ Len(t) \in Nat
      BY <1>3, <1>5, <2>1
    <3>2. Len(t) <= n
      BY <1>2, <3>1
    <3>3. \A r : (\E i \in 1 .. n : s[i] = r /\ r.id # id)
                    <=> (\E i \in 1 .. n - 1 : s[i] = r /\ r.id # id)
      <4> HIDE DEF Fine
      <4>1. 1 .. n = (1 .. n - 1) \cup {n}
        BY <1>2, <1>5
      <4> QED BY Zenon, <4>1, <2>1
    <3> QED BY <1>5, <3>1, <3>2, <3>3
  <2>2. CASE s[n].id # id
    <3>1. PICK t \in Seq(Rules) : t = f[n - 1] /\ Len(t) <= n - 1
      BY <1>5
    <3>2. f[n] = Append(t, s[n]) /\ s[n] \in Rules /\ Len(t) \in Nat
      <4>1. f[n] = Append(f[n - 1], s[n])
        BY <1>3, <1>5, <2>2
      <4> QED BY <1>2, <1>5, <3>1, <4>1
    <3>3. /\ f[n] \in Seq(Rules) /\ Len(f[n]) = Len(t) + 1
          /\ DOMAIN f[n] = DOMAIN t \cup {Len(t) + 1}
          /\ \A i \in DOMAIN t : f[n][i] = t[i]
          /\ f[n][Len(t) + 1] = s[n]
      BY <3>1, <3>2, AppendProperties
    <3>4. Len(f[n]) <= n
      BY <1>2, <1>5, <3>1, <3>2, <3>3
    <3>5. \A r : (\E i \in DOMAIN f[n] : f[n][i] = r)
                    <=> (\E i \in DOMAIN t : t[i] = r) \/ r = s[n]
      BY <3>3
    <3>6. \A r : (\E i \in 1 .. n : s[i] = r /\ r.id # id)
                    <=> (\E i \in 1 .. n - 1 : s[i] = r /\ r.id # id) \/ r = s[n]
      <4> HIDE DEF Fine
      <4>1. 1 .. n = (1 .. n - 1) \cup {n}
        BY <1>2, <1>5
      <4> QED BY Zenon, <4>1, <2>2
    <3> QED BY <1>5, <3>1, <3>3, <3>4, <3>5, <3>6
  <2> QED BY <2>1, <2>2
<1> HIDE DEF Fine
<1>6. Fine(Len(s))
  <2> DEFINE Bad == {n \in 0 .. Len(s) : ~Fine(n)}
  <2>1. SUFFICES ASSUME Bad # {} PROVE FALSE
    BY <1>2
  <2>2. PICK n \in Bad : \A m \in Bad : n <= m
    <3>1. Bad \in SUBSET Nat
      BY <1>2
    <3> HIDE DEF Bad
    <3> QED BY <2>1, <3>1, LeastNumber
  <2>3. n \in 1 .. Len(s)
    BY <1>2, <1>4, <2>2
  <2>4. n - 1 \in 0 .. Len(s) /\ ~(n <= n - 1)
    BY <1>2, <2>3
  <2>5. Fine(n - 1)
    BY <2>2, <2>4
  <2> QED BY <1>5, <2>2, <2>3, <2>5
<1>7. PICK w : w = Without(s, id) /\ w = f[Len(s)]
  BY <1>1
<1>8. w \in Seq(Rules) /\ Len(w) <= Len(s)
  BY <1>6, <1>7 DEF Fine
<1>9. ASSUME NEW r PROVE Contains(w, r) <=> Contains(s, r) /\ r.id # id
  <2>1. (\E i \in DOMAIN w : w[i] = r) <=> (\E i \in 1 .. Len(s) : s[i] = r /\ r.id # id)
    BY <1>6, <1>7 DEF Fine
  <2>2. DOMAIN w = 1 .. Len(w)
    BY <1>8
  <2> QED BY <2>1, <2>2 DEF Contains
<1> QED BY <1>7, <1>8, <1>9

-----------------------------------------------------------------------------
(* The types of the automated response.                                    *)

(* A backward step of the clock takes one off what has passed since a      *)
(* trigger, so it is never further below zero than there were steps.       *)
EngineOK ==
    /\ policies \in Seq(Rules)
    /\ Len(policies) <= MaxPolicies
    /\ steps \in 0 .. MaxSteps
    /\ sinceTrigger \in [Keys -> Int]
    /\ \A k \in Keys : -steps <= sinceTrigger[k] /\ sinceTrigger[k] <= LongAgo

PassOK ==
    /\ bridge \in Bridges
    /\ seen \in [Ports -> {{}} \cup {{s} : s \in Snapshots}]
    /\ acted \subseteq Keys
    /\ faulty \in BOOLEAN
    /\ rested \in BOOLEAN

(* Only a registered policy is triggered. *)
LEMMA TriggeredAreRules ==
    ASSUME policies \in Seq(Rules), NEW p, NEW s
    PROVE  Triggered(p, s) \subseteq Rules
<1> DEFINE ready == {i \in DOMAIN policies : Matches(policies[i], s) /\ ~Muted(policies[i], p)}
<1>1. CASE ready = {}
  BY <1>1 DEF Triggered
<1>2. CASE ready # {}
  <2>1. ready \in SUBSET Nat /\ ready \subseteq DOMAIN policies
    OBVIOUS
  <2>2. Triggered(p, s) = {policies[Min(ready)]}
    BY <1>2 DEF Triggered
  <2> HIDE DEF ready
  <2>3. Min(ready) \in ready
    <3>1. \E n \in ready : \A m \in ready : n <= m
      BY <1>2, <2>1, LeastNumber
    <3> QED BY <3>1 DEF Min
  <2>4. \A i \in DOMAIN policies : policies[i] \in Rules
    OBVIOUS
  <2>5. policies[Min(ready)] \in Rules
    BY <2>1, <2>3, <2>4
  <2> QED BY <2>2, <2>5
<1> QED BY <1>1, <1>2

(* A pass starts cooldowns and changes no policy. *)
LEMMA PassTypes ==
    ASSUME EngineOK, PassOK, Pass
    PROVE  EngineOK' /\ PassOK'
<1> DEFINE Of(snapshot) == [p \in Ports |-> UNION {Triggered(p, s) : s \in snapshot[p]}]
           Done(triggered, o) ==
               UNION {{<<r.id, p>> : r \in {q \in triggered[p] : o[p].done}} : p \in Ports}
<1>0. PICK snapshot \in [Ports -> {{}} \cup {{s} : s \in Snapshots}] :
          \E o \in [Ports -> UNION {Published(p, Of(snapshot)[p]) : p \in Ports}] :
              /\ \A p \in Ports : o[p] \in Published(p, Of(snapshot)[p])
              /\ StartCooldown(Of(snapshot))
              /\ state' = [p \in Ports |-> o[p].state]
              /\ seen' = snapshot
              /\ acted' = Done(Of(snapshot), o)
              /\ rested' = TRUE
              /\ UNCHANGED <<policies, steps, bridge, faulty>>
  BY Zenon DEF Pass
<1>1. PICK triggered : triggered = Of(snapshot)
  OBVIOUS
<1>2. \A p \in Ports : triggered[p] \subseteq Rules
  BY <1>1, TriggeredAreRules DEF EngineOK
<1> HIDE DEF Of, Done
<1>3. PICK o :
          /\ StartCooldown(triggered)
          /\ seen' = snapshot
          /\ acted' = Done(triggered, o)
          /\ rested' = TRUE
          /\ UNCHANGED <<policies, steps, bridge, faulty>>
  BY <1>0, <1>1
<1>4. acted' \subseteq Keys
  <2>1. ASSUME NEW k \in acted' PROVE k \in Keys
    <3>1. PICK p \in Ports : k \in {<<r.id, p>> : r \in {q \in triggered[p] : o[p].done}}
      BY <1>3, <2>1 DEF Done
    <3>2. PICK r \in triggered[p] : k = <<r.id, p>>
      BY <3>1
    <3>3. r.id \in Ids
      BY <1>2, <3>2 DEF Ids
    <3> QED BY <3>2, <3>3 DEF Keys
  <2> QED BY <2>1
<1>5. PassOK'
  BY <1>3, <1>4 DEF PassOK
<1>6. /\ sinceTrigger' \in [Keys -> Int]
      /\ \A k \in Keys : sinceTrigger'[k] = 0 \/ sinceTrigger'[k] = sinceTrigger[k]
  BY <1>3 DEF StartCooldown, EngineOK
<1>7. -steps <= 0 /\ 0 <= LongAgo
  BY PolicyAssumption DEF EngineOK, LongAgo
<1>8. EngineOK'
  BY <1>3, <1>6, <1>7 DEF EngineOK
<1> QED BY <1>5, <1>8

(* The clock goes on, up to where the cooldown is over for good. *)
LEMMA ClockTicksTypes == ASSUME EngineOK, ClockTicks PROVE EngineOK'
<1>1. LongAgo \in Nat
  BY PolicyAssumption DEF LongAgo
<1>2. ASSUME NEW k \in Keys
      PROVE  /\ sinceTrigger'[k] \in Int
             /\ sinceTrigger[k] <= sinceTrigger'[k] /\ sinceTrigger'[k] <= LongAgo
  <2>1. PICK n \in Int : n = sinceTrigger[k] /\ n <= LongAgo
    BY DEF EngineOK
  <2>2. PICK m : m = Min({n + 1, LongAgo})
    OBVIOUS
  <2>3. \E x \in {n + 1, LongAgo} : \A y \in {n + 1, LongAgo} : x <= y
    BY <1>1, <2>1
  <2>4. m \in {n + 1, LongAgo} /\ m <= n + 1 /\ m <= LongAgo
    BY <2>2, <2>3 DEF Min
  <2>5. sinceTrigger'[k] = m
    BY <2>1, <2>2 DEF ClockTicks
  <2> QED BY <1>1, <2>1, <2>4, <2>5
<1>3. sinceTrigger' = [k \in Keys |-> sinceTrigger'[k]]
  BY DEF ClockTicks
<1>4. UNCHANGED <<policies, steps>>
  BY DEF ClockTicks
<1>5. \A k \in Keys : -steps <= sinceTrigger'[k]
  BY <1>2 DEF EngineOK
<1> QED BY <1>2, <1>3, <1>4, <1>5 DEF EngineOK

(* The clock is set back. *)
LEMMA ClockStepsBackTypes == ASSUME EngineOK, ClockStepsBack PROVE EngineOK'
<1>1. LongAgo \in Nat /\ MaxSteps \in Nat /\ steps \in Nat
  BY PolicyAssumption DEF LongAgo, EngineOK
<1>2. /\ steps' = steps + 1 /\ steps < MaxSteps /\ policies' = policies
      /\ sinceTrigger' = [k \in Keys |->
             IF sinceTrigger[k] = LongAgo THEN LongAgo ELSE sinceTrigger[k] - 1]
  BY DEF ClockStepsBack
<1>3. ASSUME NEW k \in Keys
      PROVE  /\ sinceTrigger'[k] \in Int
             /\ -(steps + 1) <= sinceTrigger'[k] /\ sinceTrigger'[k] <= LongAgo
  BY <1>1, <1>2 DEF EngineOK
<1>4. sinceTrigger' = [k \in Keys |-> sinceTrigger'[k]]
  BY <1>2
<1> QED BY <1>1, <1>2, <1>3, <1>4 DEF EngineOK

(* Policies come and go. *)
LEMMA ChangePoliciesTypes == ASSUME EngineOK, ChangePolicies PROVE EngineOK'
<1>1. UNCHANGED <<sinceTrigger, steps>>
  BY DEF ChangePolicies, AddPolicy, RemovePolicy
<1>2. policies' \in Seq(Rules) /\ Len(policies') <= MaxPolicies
  <2>1. ASSUME NEW r \in Rules, AddPolicy(r)
        PROVE  policies' \in Seq(Rules) /\ Len(policies') <= MaxPolicies
    BY <2>1, PolicyAssumption DEF AddPolicy, EngineOK
  <2>2. ASSUME NEW id \in Ids, RemovePolicy(id)
        PROVE  policies' \in Seq(Rules) /\ Len(policies') <= MaxPolicies
    <3>1. policies' = Without(policies, id) /\ policies \in Seq(Rules)
      BY <2>2 DEF RemovePolicy, EngineOK
    <3>2. policies' \in Seq(Rules) /\ Len(policies') <= Len(policies)
      BY <3>1, WithoutFacts
    <3> QED BY <3>1, <3>2, PolicyAssumption DEF EngineOK
  <2> QED BY <2>1, <2>2 DEF ChangePolicies
<1> QED BY <1>1, <1>2 DEF EngineOK

(* Types of the engine and of the response, whatever is added, removed and *)
(* set back.                                                               *)
THEOREM ResponseTypeCorrect == Spec => []TypeOK
<1>1. Init => EngineOK /\ PassOK
  <2> SUFFICES ASSUME Init PROVE EngineOK /\ PassOK
    OBVIOUS
  <2>1. LongAgo \in Nat /\ MaxSteps \in Nat /\ MaxPolicies \in Nat
    BY PolicyAssumption DEF LongAgo
  <2>2. EngineOK
    BY <2>1 DEF Init, EngineInit, EngineOK
  <2> QED BY <2>2 DEF Init, PassOK
<1>2. EngineOK /\ PassOK /\ [Next]_vars => EngineOK' /\ PassOK'
  <2> SUFFICES ASSUME EngineOK, PassOK, [Next]_vars PROVE EngineOK' /\ PassOK'
    OBVIOUS
  <2>1. CASE Pass
    BY <2>1, PassTypes
  <2>2. ASSUME UNCHANGED engineVars PROVE EngineOK'
    BY <2>2 DEF engineVars, EngineOK
  <2>3. CASE \E p \in Ports : Command(p)
    BY <2>2, <2>3 DEF Command, PassOK
  <2>4. CASE ChangePolicies
    BY <2>4, ChangePoliciesTypes DEF ChangePolicies, PassOK
  <2>5. CASE Tick
    BY <2>5, ClockTicksTypes DEF Tick, PassOK
  <2>6. CASE StepBack
    BY <2>6, ClockStepsBackTypes DEF StepBack, PassOK
  <2>7. CASE FaultsChange
    BY <2>2, <2>7 DEF FaultsChange, PassOK
  <2>8. CASE UNCHANGED vars
    BY <2>2, <2>8 DEF vars, PassOK
  <2> QED BY <2>1, <2>3, <2>4, <2>5, <2>6, <2>7, <2>8 DEF Next
<1>3. EngineOK /\ PassOK /\ ResponseInv => TypeOK
  <2> SUFFICES ASSUME EngineOK, PassOK, ResponseInv PROVE TypeOK
    OBVIOUS
  <2>1. \A k \in Keys : sinceTrigger[k] \in -MaxSteps .. LongAgo
    BY PolicyAssumption DEF EngineOK, LongAgo
  <2>2. EngineTypeOK
    BY <2>1 DEF EngineOK, EngineTypeOK
  <2> QED BY <2>2 DEF TypeOK, PassOK, ResponseInv, StatesOK
<1> QED BY <1>1, <1>2, <1>3, ResponseInvariance, PTL DEF Spec
=============================================================================
