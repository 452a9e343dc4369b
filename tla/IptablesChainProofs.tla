-------------------------- MODULE IptablesChainProofs --------------------------
(***************************************************************************)
(* Unblocking a port and cleaning up leave no rule of the program in a     *)
(* chain it shares, for any ports, foreign rules and length of the chain,  *)
(* and cleaning up deletes no rule of another program.                     *)
(***************************************************************************)
EXTENDS IptablesChain, SequenceTheorems, WellFoundedInduction, TLAPS

Rules == OwnRules \cup ForeignRules

(* A rule is in the chain once, but for those a command failed on. *)
Once(c, except) ==
    \A i, k \in 1 .. Len(c) : IsOwn(c[i]) /\ c[i] = c[k] => i = k \/ c[i] \in except

OwnOnce == Once(chain, unsure)

(* What block_port is about to insert is not there, unless its check       *)
(* failed.                                                                 *)
BlockOK ==
    op[1] = "block" =>
        /\ op[2] \in Ports
        /\ Contains(chain, <<"Vigilant", op[2], op[3]>>) => <<"Vigilant", op[2], op[3]>> \in unsure

(* unblock_port has still to delete every rule of its port that is left,   *)
(* but for those.                                                          *)
UnblockOK ==
    op[1] = "unblock" =>
        \A i \in 1 .. Len(chain) :
            IsOwn(chain[i]) /\ chain[i][2] = op[2] => Contains(todo, chain[i]) \/ chain[i] \in unsure

(* The lines cleanup_all_rules holds are those of the rules it is to       *)
(* delete, as long as nobody else changes the chain.                       *)
CleanupOK == op[1] = "cleanup" /\ ~ shared => lines = OwnLines(chain)

Inv == TypeOK /\ OwnOnce /\ BlockOK /\ UnblockOK /\ CleanupOK

-----------------------------------------------------------------------------
(* Sequences of rules.                                                     *)

(* The rule at a line goes and those below move up. *)
LEMMA RemoveAtFacts ==
    ASSUME NEW S, NEW s \in Seq(S), NEW n \in 1 .. Len(s)
    PROVE  /\ RemoveAt(s, n) \in Seq(S)
           /\ Len(RemoveAt(s, n)) = Len(s) - 1
           /\ \A i \in 1 .. n - 1 : RemoveAt(s, n)[i] = s[i]
           /\ \A i \in n .. Len(s) - 1 : RemoveAt(s, n)[i] = s[i + 1]
<1>1. Len(s) \in Nat /\ n \in Nat /\ 1 <= n /\ n <= Len(s) /\ \A i \in 1 .. Len(s) : s[i] \in S
  OBVIOUS
<1>2. PICK a : a = SubSeq(s, 1, n - 1)
  OBVIOUS
<1>3. PICK b : b = SubSeq(s, n + 1, Len(s))
  OBVIOUS
<1>4. /\ a \in Seq(S) /\ Len(a) = n - 1
      /\ \A i \in 1 .. n - 1 : a[i] = s[i]
  <2>1. n - 1 \in Int /\ 1 \in Int /\ \A i \in 1 .. n - 1 : s[i] \in S
    BY <1>1
  <2>2. /\ a \in Seq(S) /\ Len(a) = IF 1 <= n - 1 THEN (n - 1) - 1 + 1 ELSE 0
        /\ \A i \in 1 .. (n - 1) - 1 + 1 : a[i] = s[1 + i - 1]
    BY <1>2, <2>1, SubSeqProperties
  <2>3. Len(a) = n - 1
    BY <1>1, <2>2
  <2>4. \A i \in 1 .. n - 1 : a[i] = s[i]
    <3>1. SUFFICES ASSUME NEW i \in 1 .. n - 1 PROVE a[i] = s[i]
      OBVIOUS
    <3>2. i \in 1 .. (n - 1) - 1 + 1 /\ 1 + i - 1 = i
      BY <1>1
    <3> QED BY <2>2, <3>2
  <2> QED BY <2>2, <2>3, <2>4
<1>5. /\ b \in Seq(S) /\ Len(b) = Len(s) - n
      /\ \A i \in 1 .. Len(s) - n : b[i] = s[n + i]
  <2>1. n + 1 \in Int /\ Len(s) \in Int /\ \A i \in n + 1 .. Len(s) : s[i] \in S
    BY <1>1
  <2>2. /\ b \in Seq(S) /\ Len(b) = IF n + 1 <= Len(s) THEN Len(s) - (n + 1) + 1 ELSE 0
        /\ \A i \in 1 .. Len(s) - (n + 1) + 1 : b[i] = s[(n + 1) + i - 1]
    BY <1>3, <2>1, SubSeqProperties
  <2>3. Len(b) = Len(s) - n
    BY <1>1, <2>2
  <2>4. \A i \in 1 .. Len(s) - n : b[i] = s[n + i]
    <3>1. SUFFICES ASSUME NEW i \in 1 .. Len(s) - n PROVE b[i] = s[n + i]
      OBVIOUS
    <3>2. i \in 1 .. Len(s) - (n + 1) + 1 /\ (n + 1) + i - 1 = n + i
      BY <1>1
    <3> QED BY <2>2, <3>2
  <2> QED BY <2>2, <2>3, <2>4
<1>6. PICK t : t = a \o b
  OBVIOUS
<1>7. /\ t \in Seq(S) /\ Len(t) = Len(a) + Len(b)
      /\ \A i \in 1 .. Len(a) + Len(b) : t[i] = IF i <= Len(a) THEN a[i] ELSE b[i - Len(a)]
  BY <1>4, <1>5, <1>6, ConcatProperties
<1>8. Len(t) = Len(s) - 1
  BY <1>1, <1>4, <1>5, <1>7
<1>9. \A i \in 1 .. n - 1 : t[i] = s[i]
  BY <1>1, <1>4, <1>5, <1>7
<1>10. \A i \in n .. Len(s) - 1 : t[i] = s[i + 1]
  <2>1. SUFFICES ASSUME NEW i \in n .. Len(s) - 1 PROVE t[i] = s[i + 1]
    OBVIOUS
  <2>2. /\ i \in 1 .. Len(a) + Len(b) /\ ~(i <= Len(a))
        /\ i - Len(a) \in 1 .. Len(s) - n /\ n + (i - Len(a)) = i + 1
    BY <1>1, <1>4, <1>5
  <2> QED BY <1>5, <1>7, <2>2
<1>11. RemoveAt(s, n) = t
  BY <1>2, <1>3, <1>6 DEF RemoveAt
<1> QED BY <1>7, <1>8, <1>9, <1>10, <1>11

(* A set of numbers has a least one. *)
LEMMA LeastNumber ==
    ASSUME NEW S \in SUBSET Nat, S # {}
    PROVE  \E n \in S : \A m \in S : n <= m
<1>1. IsWellFoundedOn(OpToRel(<, Nat), Nat)
  BY NatLessThanWellFounded
<1>2. PICK R : R = OpToRel(<, Nat)
  OBVIOUS
<1>3. PICK n \in S : \A m \in S : <<m, n>> \notin R
  BY <1>1, <1>2, WFMin
<1>4. \A m \in S : ~(m < n)
  BY <1>2, <1>3 DEF OpToRel
<1>5. \A m \in S : n <= m
  BY <1>4
<1> QED BY <1>5

(* The first occurrence of a rule is the one that goes. *)
LEMMA RemoveFirstFacts ==
    ASSUME NEW S, NEW s \in Seq(S), NEW e, Contains(s, e)
    PROVE  \E n \in 1 .. Len(s) : s[n] = e /\ RemoveFirst(s, e) = RemoveAt(s, n)
<1>1. PICK I : I = {i \in 1 .. Len(s) : s[i] = e}
  OBVIOUS
<1>2. I \in SUBSET Nat /\ I # {}
  BY <1>1 DEF Contains
<1>3. Min(I) \in I
  BY <1>2, LeastNumber DEF Min
<1>4. SelectInSeq(s, LAMBDA v : v = e) = Min(I)
  BY <1>1, <1>2 DEF SelectInSeq
<1>5. RemoveFirst(s, e) = RemoveAt(s, Min(I))
  BY <1>4 DEF RemoveFirst, Contains
<1> QED BY <1>1, <1>3, <1>5

(* A rule at the top of the chain. *)
LEMMA OnTopFacts ==
    ASSUME NEW S, NEW s \in Seq(S), NEW r \in S
    PROVE  /\ <<r>> \o s \in Seq(S)
           /\ Len(<<r>> \o s) = Len(s) + 1
           /\ (<<r>> \o s)[1] = r
           /\ \A i \in 1 .. Len(s) : (<<r>> \o s)[i + 1] = s[i]
<1>1. <<r>> \in Seq(S) /\ Len(<<r>>) = 1 /\ <<r>>[1] = r /\ Len(s) \in Nat
  OBVIOUS
<1>2. PICK t : t = <<r>> \o s
  OBVIOUS
<1>3. /\ t \in Seq(S) /\ Len(t) = 1 + Len(s)
      /\ \A i \in 1 .. 1 + Len(s) : t[i] = IF i <= 1 THEN <<r>>[i] ELSE s[i - 1]
  BY <1>1, <1>2, ConcatProperties
<1>4. t[1] = r
  BY <1>1, <1>3
<1>5. \A i \in 1 .. Len(s) : t[i + 1] = s[i]
  <2>1. SUFFICES ASSUME NEW i \in 1 .. Len(s) PROVE t[i + 1] = s[i]
    OBVIOUS
  <2>2. i + 1 \in 1 .. 1 + Len(s) /\ ~(i + 1 <= 1) /\ (i + 1) - 1 = i
    BY <1>1
  <2> QED BY <1>3, <2>2
<1> QED BY <1>1, <1>2, <1>3, <1>4, <1>5

(* Own rules and those of others are told apart by their names. *)
LEMMA RuleKinds ==
    /\ \A r \in OwnRules : IsOwn(r) /\ r[2] \in Ports /\ r[3] \in Protos
    /\ \A r \in ForeignRules : ~ IsOwn(r)
    /\ \A r \in Rules : IsOwn(r) => r \in OwnRules
    /\ \A r \in Rules : ~ IsOwn(r) => r \in ForeignRules
<1>1. \A r \in OwnRules : IsOwn(r) /\ r[2] \in Ports /\ r[3] \in Protos
  BY DEF OwnRules, IsOwn
<1>2. \A r \in ForeignRules : ~ IsOwn(r)
  BY DEF ForeignRules, IsOwn, OwnNames
<1> QED BY <1>1, <1>2 DEF Rules

(* Facts of the chain and its rules. *)
LEMMA ChainFacts ==
    ASSUME TypeOK
    PROVE  /\ chain \in Seq(Rules) /\ Len(chain) \in Nat
           /\ \A i \in 1 .. Len(chain) : chain[i] \in Rules
<1> QED BY DEF TypeOK, Rules

(* What is excepted no longer counts when it is not there. *)
LEMMA OnlyPresent ==
    ASSUME NEW c, NEW except, Once(c, except)
    PROVE  Once(c, Present(except, c))
<1> SUFFICES ASSUME NEW i \in 1 .. Len(c), NEW k \in 1 .. Len(c), IsOwn(c[i]), c[i] = c[k], i # k
             PROVE  c[i] \in Present(except, c)
  BY DEF Once
<1>1. c[i] \in except
  BY DEF Once
<1> QED BY <1>1 DEF Present, Contains

(* A line deleted: the lines above stay, and no rule is there twice but    *)
(* those that may have been before.                                        *)
LEMMA AfterRemoval ==
    ASSUME TypeOK, OwnOnce, NEW n \in 1 .. Len(chain), chain' = RemoveAt(chain, n)
    PROVE  /\ chain' \in Seq(Rules) /\ Len(chain') = Len(chain) - 1
           /\ Once(chain', unsure)
           /\ \A i \in 1 .. n - 1 : chain'[i] = chain[i]
           /\ \A i \in 1 .. Len(chain') :
                 \E k \in 1 .. Len(chain) : k # n /\ chain'[i] = chain[k] /\ (k < n => i = k)
<1>1. chain \in Seq(Rules) /\ Len(chain) \in Nat
  BY ChainFacts
<1>2. PICK t : t = RemoveAt(chain, n)
  OBVIOUS
<1>3. /\ t \in Seq(Rules) /\ Len(t) = Len(chain) - 1
      /\ \A i \in 1 .. n - 1 : t[i] = chain[i]
      /\ \A i \in n .. Len(chain) - 1 : t[i] = chain[i + 1]
  BY <1>1, <1>2, RemoveAtFacts
<1> DEFINE From(i) == IF i < n THEN i ELSE i + 1
<1>4. \A i \in 1 .. Len(t) : From(i) \in 1 .. Len(chain) /\ From(i) # n /\ t[i] = chain[From(i)]
  <2>1. SUFFICES ASSUME NEW i \in 1 .. Len(t)
                 PROVE  From(i) \in 1 .. Len(chain) /\ From(i) # n /\ t[i] = chain[From(i)]
    OBVIOUS
  <2>2. CASE i < n
    <3>1. i \in 1 .. n - 1 /\ i \in 1 .. Len(chain)
      BY <1>1, <1>3, <2>2
    <3> QED BY <1>3, <2>2, <3>1
  <2>3. CASE ~(i < n)
    <3>1. i \in n .. Len(chain) - 1 /\ i + 1 \in 1 .. Len(chain) /\ i + 1 # n
      BY <1>1, <1>3, <2>3
    <3> QED BY <1>3, <2>3, <3>1
  <2> QED BY <2>2, <2>3
<1>5. \A i, k \in 1 .. Len(t) : From(i) = From(k) => i = k
  BY <1>1, <1>3
<1>6. \A i, k \in 1 .. Len(t) : IsOwn(t[i]) /\ t[i] = t[k] => i = k \/ t[i] \in unsure
  <2> HIDE DEF From
  <2> QED BY <1>4, <1>5 DEF OwnOnce, Once
<1>7. \A i \in 1 .. Len(t) : From(i) < n => i = From(i)
  BY <1>1, <1>3
<1>8. \A i \in 1 .. Len(t) :
          \E k \in 1 .. Len(chain) : k # n /\ t[i] = chain[k] /\ (k < n => i = k)
  <2> HIDE DEF From
  <2> QED BY <1>4, <1>7
<1>9. chain' = t
  BY <1>2
<1>10. Once(chain', unsure)
  BY <1>6, <1>9 DEF Once
<1> QED BY <1>3, <1>8, <1>9, <1>10

(* A rule of another program added: the own rules are those there were.    *)
LEMMA AfterAddition ==
    ASSUME TypeOK, OwnOnce, NEW r \in ForeignRules, chain' \in {<<r>> \o chain, Append(chain, r)}
    PROVE  /\ chain' \in Seq(Rules) /\ Len(chain') = Len(chain) + 1
           /\ Once(chain', unsure)
           /\ \A i \in 1 .. Len(chain') : IsOwn(chain'[i]) => \E k \in 1 .. Len(chain) : chain'[i] = chain[k]
<1>1. chain \in Seq(Rules) /\ Len(chain) \in Nat /\ r \in Rules /\ ~ IsOwn(r)
  BY ChainFacts, RuleKinds DEF Rules
<1>2. CASE chain' = <<r>> \o chain
  <2>1. PICK t : t = <<r>> \o chain
    OBVIOUS
  <2>2. /\ t \in Seq(Rules) /\ Len(t) = Len(chain) + 1 /\ t[1] = r
        /\ \A i \in 1 .. Len(chain) : t[i + 1] = chain[i]
    BY <1>1, <2>1, OnTopFacts
  <2>3. \A i \in 1 .. Len(t) : IsOwn(t[i]) => i - 1 \in 1 .. Len(chain) /\ t[i] = chain[i - 1]
    <3>1. SUFFICES ASSUME NEW i \in 1 .. Len(t), IsOwn(t[i])
                   PROVE  i - 1 \in 1 .. Len(chain) /\ t[i] = chain[i - 1]
      OBVIOUS
    <3>2. i # 1
      BY <1>1, <2>2, <3>1
    <3>3. i - 1 \in 1 .. Len(chain) /\ (i - 1) + 1 = i
      BY <1>1, <2>2, <3>2
    <3> QED BY <2>2, <3>3
  <2>4. \A i, k \in 1 .. Len(t) : IsOwn(t[i]) /\ t[i] = t[k] => i = k \/ t[i] \in unsure
    <3>1. SUFFICES ASSUME NEW i \in 1 .. Len(t), NEW k \in 1 .. Len(t), IsOwn(t[i]), t[i] = t[k],
                          t[i] \notin unsure
                   PROVE  i = k
      OBVIOUS
    <3>2. /\ i - 1 \in 1 .. Len(chain) /\ t[i] = chain[i - 1]
          /\ k - 1 \in 1 .. Len(chain) /\ t[k] = chain[k - 1]
      BY <2>3, <3>1
    <3>3. i - 1 = k - 1
      BY <3>1, <3>2 DEF OwnOnce, Once
    <3> QED BY <1>1, <2>2, <3>3
  <2>5. Once(chain', unsure)
    BY <1>2, <2>1, <2>4 DEF Once
  <2> QED BY <1>2, <2>1, <2>2, <2>3, <2>5
<1>3. CASE chain' = Append(chain, r)
  <2>1. PICK t : t = Append(chain, r)
    OBVIOUS
  <2>2. /\ t \in Seq(Rules) /\ Len(t) = Len(chain) + 1 /\ t[Len(chain) + 1] = r
        /\ \A i \in 1 .. Len(chain) : t[i] = chain[i]
    BY <1>1, <2>1, AppendProperties
  <2>3. \A i \in 1 .. Len(t) : IsOwn(t[i]) => i \in 1 .. Len(chain) /\ t[i] = chain[i]
    <3>1. SUFFICES ASSUME NEW i \in 1 .. Len(t), IsOwn(t[i])
                   PROVE  i \in 1 .. Len(chain) /\ t[i] = chain[i]
      OBVIOUS
    <3>2. i # Len(chain) + 1
      BY <1>1, <2>2, <3>1
    <3>3. i \in 1 .. Len(chain)
      BY <1>1, <2>2, <3>2
    <3> QED BY <2>2, <3>3
  <2>4. \A i, k \in 1 .. Len(t) : IsOwn(t[i]) /\ t[i] = t[k] => i = k \/ t[i] \in unsure
    BY <2>3 DEF OwnOnce, Once
  <2>5. Once(chain', unsure)
    BY <1>3, <2>1, <2>4 DEF Once
  <2> QED BY <1>3, <2>1, <2>2, <2>3, <2>5
<1> QED BY <1>2, <1>3

-----------------------------------------------------------------------------
(* The operations.                                                         *)

LEMMA BlockKeeps == ASSUME Inv, NEW p \in Ports, NEW proto \in Protos, BlockPort(p, proto) PROVE Inv'
<1>1. PICK rule : rule = <<"Vigilant", p, proto>>
  OBVIOUS
<1>2. /\ \/ op' = Idle
         \/ op' = <<"block", p, proto>> /\ (Contains(chain, rule) => rule \in unsure')
      /\ unsure' = unsure \/ unsure' = unsure \cup Present({rule}, chain)
      /\ UNCHANGED <<chain, todo, lines, lost>> /\ shared' = FALSE
  BY <1>1 DEF BlockPort, Present
<1>3. op' \in Ops /\ op'[1] # "unblock" /\ op'[1] # "cleanup"
  BY <1>2 DEF Ops, Idle, Protos
<1>4. unsure \subseteq unsure' /\ unsure' \subseteq OwnRules
  BY <1>1, <1>2 DEF Inv, TypeOK, Present, OwnRules, OwnNames
<1>5. TypeOK'
  BY <1>2, <1>3, <1>4 DEF Inv, TypeOK
<1>6. OwnOnce'
  BY <1>2, <1>4 DEF Inv, OwnOnce, Once
<1>7. BlockOK'
  <2>1. CASE op' = Idle
    BY <2>1 DEF BlockOK, Idle
  <2>2. CASE op' = <<"block", p, proto>> /\ (Contains(chain, rule) => rule \in unsure')
    <3>1. op'[2] = p /\ op'[3] = proto /\ chain' = chain
      BY <1>2, <2>2
    <3> QED BY <1>1, <2>2, <3>1 DEF BlockOK, Contains
  <2> QED BY <1>2, <2>1, <2>2
<1> QED BY <1>3, <1>5, <1>6, <1>7 DEF Inv, UnblockOK, CleanupOK

LEMMA InsertKeeps == ASSUME Inv, Insert PROVE Inv'
<1>1. op[1] = "block" /\ op' = Idle /\ op' \in Ops /\ op'[1] = "idle"
  BY DEF Insert, Idle, Ops, Protos
<1>2. Len(chain') <= MaxLen /\ UNCHANGED <<todo, lines, lost, unsure, shared>>
  BY DEF Insert
<1>3. chain' \in Seq(Rules) /\ OwnOnce'
  <2>1. CASE UNCHANGED chain
    BY <1>2, <2>1, ChainFacts DEF Inv, OwnOnce, Once
  <2>2. CASE chain' = <<<<"Vigilant", op[2], op[3]>>>> \o chain
    <3>1. PICK r : r = <<"Vigilant", op[2], op[3]>>
      OBVIOUS
    <3>2. op[2] \in Ports /\ op[3] \in Protos /\ (Contains(chain, r) => r \in unsure)
      BY <1>1, <3>1 DEF Inv, BlockOK, TypeOK, Ops
    <3>3. r \in Rules /\ chain \in Seq(Rules) /\ Len(chain) \in Nat
      BY <3>1, <3>2, ChainFacts DEF Rules, OwnRules, OwnNames, Inv
    <3>4. PICK t : t = <<r>> \o chain
      OBVIOUS
    <3>5. /\ t \in Seq(Rules) /\ Len(t) = Len(chain) + 1 /\ t[1] = r
          /\ \A i \in 1 .. Len(chain) : t[i + 1] = chain[i]
      BY <3>3, <3>4, OnTopFacts
    <3>6. \A i \in 1 .. Len(t) : i = 1 \/ (i - 1 \in 1 .. Len(chain) /\ t[i] = chain[i - 1] /\ (t[i] = r => r \in unsure))
      <4>1. SUFFICES ASSUME NEW i \in 1 .. Len(t), i # 1
                     PROVE  i - 1 \in 1 .. Len(chain) /\ t[i] = chain[i - 1] /\ (t[i] = r => r \in unsure)
        OBVIOUS
      <4>2. i - 1 \in 1 .. Len(chain) /\ (i - 1) + 1 = i
        BY <3>3, <3>5, <4>1
      <4>3. t[i] = chain[i - 1]
        BY <3>5, <4>2
      <4>4. chain[i - 1] = r => r \in unsure
        BY <3>2, <4>2 DEF Contains
      <4> QED BY <4>2, <4>3, <4>4
    <3>7. ASSUME NEW i \in 1 .. Len(t), NEW k \in 1 .. Len(t), IsOwn(t[i]), t[i] = t[k], t[i] \notin unsure
         PROVE  i = k
      <4>1. CASE i = 1 \/ k = 1
        BY <3>5, <3>6, <3>7, <4>1
      <4>2. CASE i # 1 /\ k # 1
        <5>1. /\ i - 1 \in 1 .. Len(chain) /\ t[i] = chain[i - 1]
              /\ k - 1 \in 1 .. Len(chain) /\ t[k] = chain[k - 1]
          BY <3>6, <4>2
        <5>2. i - 1 = k - 1
          BY <3>7, <5>1 DEF Inv, OwnOnce, Once
        <5> QED BY <3>3, <3>5, <5>2
      <4> QED BY <4>1, <4>2
    <3>8. chain' = t
      BY <2>2, <3>1, <3>4
    <3> QED BY <1>2, <3>5, <3>7, <3>8 DEF OwnOnce, Once
  <2> QED BY <2>1, <2>2 DEF Insert
<1>4. TypeOK'
  BY <1>1, <1>2, <1>3 DEF Inv, TypeOK, Rules
<1> QED BY <1>1, <1>3, <1>4 DEF Inv, BlockOK, UnblockOK, CleanupOK

LEMMA UnblockKeeps == ASSUME Inv, NEW p \in Ports, UnblockPort(p) PROVE Inv'
<1>1. PICK t : t = <<<<"Vigilant", p, "tcp">>, <<"Sentinel", p, "tcp">>,
                     <<"Vigilant", p, "udp">>, <<"Sentinel", p, "udp">>>>
  OBVIOUS
<1>2. /\ op' = <<"unblock", p, "tcp">> /\ todo' = t
      /\ UNCHANGED <<chain, lines, lost, unsure>> /\ shared' = FALSE
  BY <1>1 DEF UnblockPort
<1>3. op' \in Ops /\ op'[1] = "unblock" /\ op'[2] = p
  BY <1>2 DEF Ops, Protos
<1>4. t \in Seq(OwnRules) /\ Len(t) = 4
  BY <1>1 DEF OwnRules, OwnNames, Protos
<1>5. TypeOK'
  BY <1>2, <1>3, <1>4 DEF Inv, TypeOK
<1>6. \A r \in OwnRules : r[2] = p => Contains(t, r)
  <2>1. SUFFICES ASSUME NEW r \in OwnRules, r[2] = p PROVE Contains(t, r)
    OBVIOUS
  <2>2. r \in {t[1], t[2], t[3], t[4]}
    BY <1>1, <2>1 DEF OwnRules, OwnNames, Protos
  <2> QED BY <1>4, <2>2 DEF Contains
<1>7. \A i \in 1 .. Len(chain) : IsOwn(chain[i]) => chain[i] \in OwnRules
  BY ChainFacts, RuleKinds DEF Inv
<1>8. UnblockOK'
  BY <1>2, <1>3, <1>6, <1>7 DEF UnblockOK, Contains
<1>9. OwnOnce'
  BY <1>2 DEF Inv, OwnOnce, Once
<1> QED BY <1>3, <1>5, <1>8, <1>9 DEF Inv, BlockOK, CleanupOK

(* One deletion is enough for each rule that is not there twice; what is   *)
(* left of the others, and of those whose deletion failed, is unsure.      *)
LEMMA DeleteRuleKeeps == ASSUME Inv, DeleteRule PROVE Inv'
<1>1. op[1] = "unblock" /\ todo # <<>> /\ todo' = Tail(todo) /\ UNCHANGED <<op, lines, lost, shared>>
  BY DEF DeleteRule
<1>2. PICK e : e = Head(todo)
  OBVIOUS
<1>3. /\ e \in OwnRules /\ e = todo[1] /\ todo' \in Seq(OwnRules) /\ Len(todo) \in Nat
      /\ Len(todo') = Len(todo) - 1
      /\ \A i \in 1 .. Len(todo') : todo'[i] = todo[i + 1]
  <2>1. todo \in Seq(OwnRules)
    BY DEF Inv, TypeOK
  <2>2. e = todo[1]
    BY <1>2, <2>1
  <2> QED BY <1>1, <1>2, <2>1, <2>2, HeadTailProperties
<1>4. chain \in Seq(Rules) /\ Len(chain) \in Nat /\ IsOwn(e)
  BY <1>3, ChainFacts, RuleKinds DEF Inv
<1>5. \A r : Contains(todo, r) /\ r # e => Contains(todo', r)
  <2>1. SUFFICES ASSUME NEW r, NEW i \in 1 .. Len(todo), todo[i] = r, r # e PROVE Contains(todo', r)
    BY DEF Contains
  <2>2. i # 1
    BY <1>3, <2>1
  <2>3. i - 1 \in 1 .. Len(todo') /\ (i - 1) + 1 = i
    BY <1>3, <2>2
  <2>4. todo'[i - 1] = r
    BY <1>3, <2>1, <2>3
  <2> QED BY <2>3, <2>4 DEF Contains
<1>6. /\ chain' \in Seq(Rules) /\ Len(chain') <= Len(chain) /\ OwnOnce'
      /\ \A i \in 1 .. Len(chain') : Contains(chain, chain'[i])
      /\ Contains(chain', e) => e \in unsure'
      /\ \A r \in unsure : Contains(chain', r) => r \in unsure'
      /\ unsure' \subseteq OwnRules
  <2>1. CASE chain' = RemoveFirst(chain, e) /\ unsure' = Present(unsure, chain') /\ Contains(chain, e)
    <3>1. PICK n \in 1 .. Len(chain) : chain[n] = e /\ chain' = RemoveAt(chain, n)
      BY <1>4, <2>1, RemoveFirstFacts
    <3>2. /\ chain' \in Seq(Rules) /\ Len(chain') = Len(chain) - 1 /\ Once(chain', unsure)
          /\ \A i \in 1 .. Len(chain') : \E k \in 1 .. Len(chain) : k # n /\ chain'[i] = chain[k]
      BY <3>1, AfterRemoval DEF Inv
    <3>3. Len(chain') <= Len(chain)
      BY <1>4, <3>2
    <3>4. Contains(chain', e) => e \in unsure
      <4>1. SUFFICES ASSUME NEW i \in 1 .. Len(chain'), chain'[i] = e PROVE e \in unsure
        BY DEF Contains
      <4>2. PICK k \in 1 .. Len(chain) : k # n /\ chain[k] = e
        BY <3>2, <4>1
      <4> QED BY <1>4, <3>1, <4>2 DEF Inv, OwnOnce, Once
    <3>5. OwnOnce'
      BY <2>1, <3>2, OnlyPresent DEF OwnOnce
    <3>6. unsure' \subseteq OwnRules
      BY <2>1 DEF Present, Inv, TypeOK
    <3>7. \A r \in unsure : Contains(chain', r) => r \in unsure'
      BY <2>1 DEF Present
    <3>8. \A i \in 1 .. Len(chain') : Contains(chain, chain'[i])
      BY <3>2 DEF Contains
    <3> QED BY <3>2, <3>3, <3>4, <3>5, <3>6, <3>7, <3>8
  <2>2. CASE chain' = RemoveFirst(chain, e) /\ unsure' = Present(unsure, chain') /\ ~ Contains(chain, e)
    <3>1. chain' = chain
      BY <2>2 DEF RemoveFirst, Contains
    <3>2. OwnOnce'
      <4>1. Once(chain', unsure)
        BY <3>1 DEF Inv, OwnOnce, Once
      <4> QED BY <2>2, <4>1, OnlyPresent DEF OwnOnce
    <3>3. unsure' \subseteq OwnRules
      BY <2>2 DEF Present, Inv, TypeOK
    <3>4. \A r \in unsure : Contains(chain', r) => r \in unsure'
      BY <2>2 DEF Present
    <3>5. ~ Contains(chain', e) /\ \A i \in 1 .. Len(chain') : Contains(chain, chain'[i])
      BY <2>2, <3>1 DEF Contains
    <3> QED BY <1>4, <3>1, <3>2, <3>3, <3>4, <3>5
  <2>3. CASE chain' = chain /\ unsure' = unsure \cup Present({e}, chain)
    <3>1. Contains(chain', e) => e \in unsure'
      BY <2>3 DEF Present, Contains
    <3>2. unsure \subseteq unsure' /\ unsure' \subseteq OwnRules
      BY <1>3, <2>3 DEF Present, Inv, TypeOK
    <3>3. OwnOnce'
      BY <2>3, <3>2 DEF Inv, OwnOnce, Once
    <3>4. \A i \in 1 .. Len(chain') : Contains(chain, chain'[i])
      BY <2>3 DEF Contains
    <3>5. \A r \in unsure : r \in unsure'
      BY <3>2
    <3>6. chain' \in Seq(Rules) /\ Len(chain') <= Len(chain)
      BY <1>4, <2>3
    <3> QED BY <3>1, <3>2, <3>3, <3>4, <3>5, <3>6
  <2> QED BY <1>2, <2>1, <2>2, <2>3 DEF DeleteRule
<1>7. UnblockOK'
  <2>1. SUFFICES ASSUME NEW i \in 1 .. Len(chain'), IsOwn(chain'[i]), chain'[i][2] = op[2]
                 PROVE  Contains(todo', chain'[i]) \/ chain'[i] \in unsure'
    BY <1>1 DEF UnblockOK
  <2>2. Contains(chain, chain'[i]) /\ Contains(chain', chain'[i])
    BY <1>6 DEF Contains
  <2>3. Contains(todo, chain'[i]) \/ chain'[i] \in unsure
    BY <1>1, <2>1, <2>2 DEF Inv, UnblockOK, Contains
  <2> QED BY <1>5, <1>6, <2>2, <2>3
<1>8. TypeOK'
  <2>1. Len(chain') <= MaxLen
    <3>1. Len(chain') \in Nat /\ MaxLen \in Nat /\ Len(chain) <= MaxLen
      BY <1>6, ChainAssumption DEF Inv, TypeOK
    <3> QED BY <1>4, <1>6, <3>1
  <2> QED BY <1>1, <1>3, <1>6, <2>1 DEF Inv, TypeOK, Rules
<1> QED BY <1>1, <1>6, <1>7, <1>8 DEF Inv, BlockOK, CleanupOK

LEMMA ListKeeps == ASSUME Inv, ListRules PROVE Inv'
<1>1. /\ op' = <<"cleanup", 0, "tcp">> /\ lines' = OwnLines(chain)
      /\ shared' = FALSE /\ UNCHANGED <<chain, todo, lost, unsure>>
  BY DEF ListRules
<1>2. op' \in Ops /\ op'[1] = "cleanup"
  BY <1>1 DEF Ops, Protos
<1>3. OwnLines(chain) \subseteq 1 .. MaxLen
  <2>1. Len(chain) \in Nat /\ MaxLen \in Nat /\ Len(chain) <= MaxLen
    BY ChainFacts, ChainAssumption DEF Inv, TypeOK
  <2>2. 1 .. Len(chain) \subseteq 1 .. MaxLen
    BY <2>1
  <2> QED BY <2>2 DEF OwnLines
<1>4. TypeOK'
  BY <1>1, <1>2, <1>3 DEF Inv, TypeOK
<1>5. OwnOnce'
  BY <1>1 DEF Inv, OwnOnce, Once
<1>6. CleanupOK'
  BY <1>1 DEF CleanupOK, OwnLines
<1> QED BY <1>2, <1>4, <1>5, <1>6 DEF Inv, BlockOK, UnblockOK

(* From the bottom: a deletion moves no line that is still to be deleted.  *)
LEMMA DeleteLineKeeps ==
    ASSUME Inv, DeleteLine
    PROVE  Inv' /\ (~ shared => lost' = lost)
<1>1. PICK n \in lines :
          /\ IsNext(n)
          /\ lines' = lines \ {n}
          /\ IF n <= Len(chain)
             THEN /\ chain' = RemoveAt(chain, n)
                  /\ lost' = IF IsOwn(chain[n]) THEN lost ELSE lost \cup {chain[n]}
             ELSE UNCHANGED <<chain, lost>>
  BY DEF DeleteLine
<1>2. op[1] = "cleanup" /\ UNCHANGED <<op, todo, shared>> /\ unsure' = Present(unsure, chain')
  BY DEF DeleteLine
<1>7. unsure' \subseteq OwnRules
  BY <1>2 DEF Present, Inv, TypeOK
<1>3. /\ chain \in Seq(Rules) /\ Len(chain) \in Nat /\ MaxLen \in Nat /\ Len(chain) <= MaxLen
      /\ lines \subseteq 1 .. MaxLen /\ n \in 1 .. MaxLen /\ \A m \in lines : m \in Nat /\ n >= m
  BY <1>1, ChainFacts, ChainAssumption DEF Inv, TypeOK, IsNext
<1>4. ~ shared => lines = OwnLines(chain)
  BY <1>2 DEF Inv, CleanupOK
<1>5. CASE n <= Len(chain)
  <2>1. n \in 1 .. Len(chain) /\ chain' = RemoveAt(chain, n)
    BY <1>1, <1>3, <1>5
  <2>2. /\ chain' \in Seq(Rules) /\ Len(chain') = Len(chain) - 1 /\ Once(chain', unsure)
        /\ \A i \in 1 .. n - 1 : chain'[i] = chain[i]
        /\ \A i \in 1 .. Len(chain') :
              \E k \in 1 .. Len(chain) : k # n /\ chain'[i] = chain[k] /\ (k < n => i = k)
    BY <2>1, AfterRemoval DEF Inv
  <2>3. lost' \subseteq ForeignRules
    <3>1. chain[n] \in Rules
      BY <1>3, <2>1
    <3>2. ~ IsOwn(chain[n]) => chain[n] \in ForeignRules
      BY <3>1, RuleKinds
    <3> QED BY <1>1, <1>5, <3>2 DEF Inv, TypeOK
  <2>4. TypeOK'
    <3>1. Len(chain') <= MaxLen
      BY <1>3, <2>2
    <3> QED BY <1>1, <1>2, <1>7, <2>2, <2>3, <3>1 DEF Inv, TypeOK, Rules
  <2>5. ~ shared => lost' = lost /\ lines' = OwnLines(chain')
    <3>1. SUFFICES ASSUME ~ shared PROVE lost' = lost /\ lines' = OwnLines(chain')
      OBVIOUS
    <3>2. lines = OwnLines(chain) /\ IsOwn(chain[n])
      BY <1>1, <1>4, <3>1 DEF OwnLines
    <3>3. \A i \in OwnLines(chain') : i \in lines /\ i # n
      <4>1. SUFFICES ASSUME NEW i \in 1 .. Len(chain'), IsOwn(chain'[i]) PROVE i \in lines /\ i # n
        BY DEF OwnLines
      <4>2. PICK k \in 1 .. Len(chain) : k # n /\ chain'[i] = chain[k] /\ (k < n => i = k)
        BY <2>2
      <4>3. k \in lines
        BY <3>2, <4>1, <4>2 DEF OwnLines
      <4>4. k < n
        BY <1>3, <4>2, <4>3
      <4> QED BY <4>2, <4>3, <4>4
    <3>4. \A m \in lines : m # n => m \in OwnLines(chain')
      <4>1. SUFFICES ASSUME NEW m \in lines, m # n PROVE m \in OwnLines(chain')
        OBVIOUS
      <4>2. m \in 1 .. Len(chain) /\ IsOwn(chain[m])
        BY <3>2 DEF OwnLines
      <4>3. m \in 1 .. n - 1 /\ m \in 1 .. Len(chain')
        BY <1>3, <2>1, <2>2, <4>1, <4>2
      <4> QED BY <2>2, <4>2, <4>3 DEF OwnLines
    <3>5. lines' = OwnLines(chain')
      BY <1>1, <3>3, <3>4
    <3> QED BY <1>1, <1>5, <3>2, <3>5
  <2>6. CleanupOK'
    BY <1>2, <2>5 DEF CleanupOK, OwnLines
  <2>7. OwnOnce'
    BY <1>2, <2>2, OnlyPresent DEF OwnOnce
  <2> QED BY <1>2, <2>4, <2>5, <2>6, <2>7 DEF Inv, BlockOK, UnblockOK
<1>6. CASE ~(n <= Len(chain))
  <2>1. UNCHANGED <<chain, lost>>
    BY <1>1, <1>6
  <2>2. shared
    BY <1>4, <1>6, <1>1 DEF OwnLines, Inv, TypeOK
  <2>3. TypeOK'
    BY <1>1, <1>2, <1>7, <2>1 DEF Inv, TypeOK
  <2>4. OwnOnce'
    <3>1. Once(chain', unsure)
      BY <2>1 DEF Inv, OwnOnce, Once
    <3> QED BY <1>2, <3>1, OnlyPresent DEF OwnOnce
  <2> QED BY <1>2, <2>2, <2>3, <2>4, <2>1 DEF Inv, BlockOK, UnblockOK, CleanupOK
<1> QED BY <1>5, <1>6

(* What other programs do concerns none of the own rules. *)
LEMMA ExternalKeeps == ASSUME Inv, External PROVE Inv'
<1>1. shared' = TRUE /\ UNCHANGED <<op, todo, lines, lost, unsure>>
  BY DEF External
<1>2. /\ chain \in Seq(Rules) /\ Len(chain) \in Nat /\ MaxLen \in Nat /\ Len(chain) <= MaxLen
  BY ChainFacts, ChainAssumption DEF Inv, TypeOK
<1>3. /\ chain' \in Seq(Rules) /\ Len(chain') <= MaxLen /\ Once(chain', unsure)
      /\ \A i \in 1 .. Len(chain') : IsOwn(chain'[i]) => \E k \in 1 .. Len(chain) : chain'[i] = chain[k]
  <2>1. CASE \E r \in ForeignRules :
                /\ Len(chain) < MaxLen
                /\ ~ Contains(chain, r)
                /\ chain' \in {<<r>> \o chain, Append(chain, r)}
    <3>1. PICK r \in ForeignRules :
              Len(chain) < MaxLen /\ chain' \in {<<r>> \o chain, Append(chain, r)}
      BY <2>1
    <3>2. /\ chain' \in Seq(Rules) /\ Len(chain') = Len(chain) + 1 /\ Once(chain', unsure)
          /\ \A i \in 1 .. Len(chain') : IsOwn(chain'[i]) => \E k \in 1 .. Len(chain) : chain'[i] = chain[k]
      BY <3>1, AfterAddition DEF Inv
    <3>3. Len(chain') <= MaxLen
      BY <1>2, <3>1, <3>2
    <3> QED BY <3>2, <3>3
  <2>2. CASE \E i \in 1 .. Len(chain) : ~ IsOwn(chain[i]) /\ chain' = RemoveAt(chain, i)
    <3>1. PICK n \in 1 .. Len(chain) : chain' = RemoveAt(chain, n)
      BY <2>2
    <3>2. /\ chain' \in Seq(Rules) /\ Len(chain') = Len(chain) - 1 /\ Once(chain', unsure)
          /\ \A i \in 1 .. Len(chain') : \E k \in 1 .. Len(chain) : chain'[i] = chain[k]
      BY <3>1, AfterRemoval DEF Inv
    <3>3. Len(chain') <= MaxLen
      BY <1>2, <3>2
    <3> QED BY <3>2, <3>3
  <2> QED BY <2>1, <2>2 DEF External
<1>4. TypeOK'
  BY <1>1, <1>3 DEF Inv, TypeOK, Rules
<1>5. BlockOK'
  <2>1. SUFFICES ASSUME op[1] = "block"
                 PROVE  /\ op[2] \in Ports
                        /\ Contains(chain', <<"Vigilant", op[2], op[3]>>)
                               => <<"Vigilant", op[2], op[3]>> \in unsure
    BY <1>1 DEF BlockOK, Contains
  <2>2. PICK r : r = <<"Vigilant", op[2], op[3]>>
    OBVIOUS
  <2>3. IsOwn(r) /\ op[2] \in Ports /\ (Contains(chain, r) => r \in unsure)
    BY <2>1, <2>2 DEF Inv, BlockOK, IsOwn, OwnNames
  <2>4. Contains(chain', r) => Contains(chain, r)
    BY <1>3, <2>3 DEF Contains
  <2> QED BY <2>2, <2>3, <2>4
<1>6. UnblockOK'
  <2>1. SUFFICES ASSUME op[1] = "unblock", NEW i \in 1 .. Len(chain'),
                        IsOwn(chain'[i]), chain'[i][2] = op[2]
                 PROVE  Contains(todo, chain'[i]) \/ chain'[i] \in unsure
    BY <1>1 DEF UnblockOK, Contains
  <2>2. PICK k \in 1 .. Len(chain) : chain'[i] = chain[k]
    BY <1>3, <2>1
  <2> QED BY <2>1, <2>2 DEF Inv, UnblockOK
<1>7. OwnOnce'
  BY <1>1, <1>3 DEF OwnOnce
<1> QED BY <1>1, <1>4, <1>5, <1>6, <1>7 DEF Inv, CleanupOK

(* A foreign rule, and below it what an older version left. *)
LEMMA InitOK == Init => Inv
<1> SUFFICES ASSUME Init PROVE Inv
  OBVIOUS
<1>1. PICK f \in ForeignRules, n \in 0 .. MaxLen - 1 :
          \E old \in [1 .. n -> {"Sentinel"} \X Ports \X {"tcp"}] :
             IsInjective(old) /\ chain = <<f>> \o old
  BY DEF Init
<1>2. PICK old \in [1 .. n -> {"Sentinel"} \X Ports \X {"tcp"}] :
          IsInjective(old) /\ chain = <<f>> \o old
  BY <1>1
<1>3. op = Idle /\ todo = <<>> /\ lines = {} /\ lost = {} /\ unsure = {} /\ shared = FALSE
  BY DEF Init
<1>4. n \in Nat /\ MaxLen \in Nat /\ n + 1 <= MaxLen
  BY ChainAssumption
<1>5. ({"Sentinel"} \X Ports \X {"tcp"}) \subseteq OwnRules
  BY DEF OwnRules, OwnNames, Protos
<1>6. old \in [1 .. n -> OwnRules]
  BY <1>5
<1>7. old \in Seq(Rules) /\ Len(old) = n /\ DOMAIN old = 1 .. n
  BY <1>4, <1>6 DEF Rules
<1>8. f \in Rules /\ ~ IsOwn(f)
  BY RuleKinds DEF Rules
<1>9. /\ chain \in Seq(Rules) /\ Len(chain) = n + 1 /\ chain[1] = f
      /\ \A i \in 1 .. n : chain[i + 1] = old[i]
  BY <1>2, <1>7, <1>8, OnTopFacts
<1>10. OwnOnce
  <2>1. SUFFICES ASSUME NEW i \in 1 .. Len(chain), NEW k \in 1 .. Len(chain),
                        IsOwn(chain[i]), chain[i] = chain[k]
                 PROVE  i = k
    BY DEF OwnOnce, Once
  <2>2. i # 1 /\ k # 1
    BY <1>8, <1>9, <2>1
  <2>3. /\ i - 1 \in 1 .. n /\ (i - 1) + 1 = i
        /\ k - 1 \in 1 .. n /\ (k - 1) + 1 = k
    BY <1>4, <1>9, <2>2
  <2>4. chain[i] = old[i - 1] /\ chain[k] = old[k - 1]
    BY <1>9, <2>3
  <2>5. i - 1 = k - 1
    BY <1>2, <1>7, <2>1, <2>3, <2>4 DEF IsInjective
  <2> QED BY <2>3, <2>5
<1>11. op \in Ops /\ op[1] = "idle"
  BY <1>3 DEF Idle, Ops, Protos
<1>12. TypeOK
  <2>1. Len(chain) <= MaxLen
    BY <1>4, <1>9
  <2>2. chain \in Seq(OwnRules \cup ForeignRules)
    BY <1>9 DEF Rules
  <2>3. todo \in Seq(OwnRules)
    BY <1>3
  <2> QED BY <1>3, <1>11, <2>1, <2>2, <2>3 DEF TypeOK
<1> QED BY <1>10, <1>11, <1>12 DEF Inv, BlockOK, UnblockOK, CleanupOK

(* A step of the bridge or of another program keeps all of it. *)
LEMMA StepKeeps == ASSUME Inv, [Next]_vars PROVE Inv'
<1>1. ASSUME NEW p \in Ports, NEW proto \in Protos, BlockPort(p, proto) PROVE Inv'
  BY <1>1, BlockKeeps
<1>2. CASE Insert
  BY <1>2, InsertKeeps
<1>3. ASSUME NEW p \in Ports, UnblockPort(p) PROVE Inv'
  BY <1>3, UnblockKeeps
<1>4. CASE DeleteRule
  BY <1>4, DeleteRuleKeeps
<1>5. CASE ListRules
  BY <1>5, ListKeeps
<1>6. CASE DeleteLine
  BY <1>6, DeleteLineKeeps
<1>7. CASE Return
  <2>1. op' = Idle /\ UNCHANGED <<chain, todo, lines, lost, unsure, shared>>
    BY <1>7 DEF Return
  <2>2. op' \in Ops /\ op'[1] = "idle"
    BY <2>1 DEF Idle, Ops, Protos
  <2> QED BY <2>1, <2>2 DEF Inv, TypeOK, OwnOnce, Once, BlockOK, UnblockOK, CleanupOK
<1>8. CASE External
  BY <1>8, ExternalKeeps
<1>9. CASE UNCHANGED vars
  <2>1. UNCHANGED <<chain, op, todo, lines, lost, unsure, shared>>
    BY <1>9 DEF vars
  <2>2. TypeOK' /\ OwnOnce'
    BY <2>1 DEF Inv, TypeOK, OwnOnce, Once
  <2>3. BlockOK' /\ UnblockOK' /\ CleanupOK'
    BY <2>1 DEF Inv, BlockOK, UnblockOK, CleanupOK, Contains, OwnLines
  <2> QED BY <2>2, <2>3 DEF Inv
<1> QED BY <1>1, <1>2, <1>3, <1>4, <1>5, <1>6, <1>7, <1>8, <1>9 DEF Next

-----------------------------------------------------------------------------
(* The theorems.                                                           *)

THEOREM Invariance == Spec => []Inv
<1>1. Inv /\ [Next]_vars => Inv'
  BY StepKeeps
<1> QED BY <1>1, InitOK, PTL DEF Spec

(* The chain holds rules of the program and of others, and no operation    *)
(* makes anything else of it.                                              *)
THEOREM TypeCorrect == Spec => []TypeOK
<1>1. Inv => TypeOK
  BY DEF Inv
<1> QED BY <1>1, Invariance, PTL

(* One -D per name and protocol is enough: what unblock_port leaves of the *)
(* port are rules whose deletion failed, or that a failed check let        *)
(* block_port insert a second time; whatever other programs do meanwhile.  *)
THEOREM UnblockingRemovesAll == Spec => []UnblockRemovesAll
<1>1. Inv => UnblockRemovesAll
  <2> SUFFICES ASSUME Inv, op[1] = "unblock", todo = <<>>,
                      NEW i \in 1 .. Len(chain), IsOwn(chain[i]), chain[i][2] = op[2]
               PROVE  chain[i] \in unsure
    BY DEF UnblockRemovesAll
  <2>1. ~ Contains(todo, chain[i])
    BY DEF Contains
  <2> QED BY <2>1 DEF Inv, UnblockOK
<1> QED BY <1>1, Invariance, PTL

(* cleanup_all_rules leaves no own rule behind when it had the chain to    *)
(* itself.                                                                 *)
THEOREM CleaningRemovesAll == Spec => []CleanupRemovesAll
<1>1. Inv => CleanupRemovesAll
  BY DEF Inv, CleanupOK, CleanupRemovesAll, OwnLines
<1> QED BY <1>1, Invariance, PTL

(* Under the same proviso it deletes no rule of another program: from the  *)
(* bottom, a deletion moves none of the lines that are still to go.        *)
THEOREM CleaningSparesOthers == Spec => OnlyOwnLinesGo
<1>1. Inv /\ [Next]_vars => [DeleteLine /\ ~ shared => lost' = lost]_vars
  BY DeleteLineKeeps
<1> QED BY <1>1, Invariance, PTL DEF Spec, OnlyOwnLinesGo
=============================================================================
