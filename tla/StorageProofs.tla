---------------------------- MODULE StorageProofs ----------------------------
(***************************************************************************)
(* Proofs about CodeStorage, for every set of addresses and translations.  *)
(*                                                                         *)
(* fix_inums_and_flags gives an instruction its rank among those of its    *)
(* machine instruction.  Ranks grow with the numbers and fill an interval  *)
(* from 0, which is what order, idempotence and relocation come from.      *)
(***************************************************************************)
EXTENDS CodeStorage, FiniteSetTheorems, FunctionTheorems, TLAPS

Below(S, i) == {j \in S : j < i}
Rank(S, i) == Cardinality(Below(S, i))

(* A rank is a number, no more than what is ranked, below the size.        *)
LEMMA RankBounds ==
  ASSUME NEW S \in SUBSET Nat, IsFiniteSet(S), NEW i \in S
  PROVE  /\ IsFiniteSet(Below(S, i))
         /\ Rank(S, i) \in Nat /\ Rank(S, i) <= i
         /\ Cardinality(S) \in Nat /\ Rank(S, i) < Cardinality(S)
<1>0. i \in Nat
  OBVIOUS
<1>1. Below(S, i) \in SUBSET S /\ i \notin Below(S, i)
  BY <1>0 DEF Below
<1>2. /\ IsFiniteSet(Below(S, i)) /\ Cardinality(Below(S, i)) <= Cardinality(S)
      /\ Cardinality(Below(S, i)) # Cardinality(S)
  BY <1>1, FS_Subset
<1>3. Cardinality(Below(S, i)) \in Nat /\ Cardinality(S) \in Nat
  BY <1>2, FS_CardinalityType
<1>4. IsFiniteSet(0 .. (i - 1)) /\ Cardinality(0 .. (i - 1)) = i
  <2>1. i \in Int /\ i >= 0
    OBVIOUS
  <2>2. QED
    BY <2>1, FS_Interval
<1>5. Below(S, i) \in SUBSET (0 .. (i - 1))
  <2>1. ASSUME NEW j \in Below(S, i)
        PROVE  j \in 0 .. (i - 1)
    <3>1. j \in Nat /\ j < i
      BY DEF Below
    <3>2. QED
      BY <1>0, <3>1
  <2>2. QED
    BY <2>1
<1>6. Cardinality(Below(S, i)) <= i
  BY <1>4, <1>5, FS_Subset
<1>7. QED
  BY <1>2, <1>3, <1>6 DEF Rank

(* Ranks keep the order.                                                   *)
LEMMA RankGrows ==
  ASSUME NEW S \in SUBSET Nat, IsFiniteSet(S), NEW i \in S, NEW j \in S, i < j
  PROVE  Rank(S, i) < Rank(S, j)
<1>0. i \in Nat /\ j \in Nat
  OBVIOUS
<1>1. Below(S, i) \in SUBSET Below(S, j) /\ i \in Below(S, j) /\ i \notin Below(S, i)
  <2>1. ASSUME NEW k \in Below(S, i)
        PROVE  k \in Below(S, j)
    <3>1. k \in S /\ k \in Nat /\ k < i
      BY DEF Below
    <3>2. k < j
      BY <1>0, <3>1
    <3>3. QED
      BY <3>1, <3>2 DEF Below
  <2>2. Below(S, i) \subseteq Below(S, j)
    BY <2>1
  <2>3. i \in Below(S, j)
    BY <1>0 DEF Below
  <2>4. i \notin Below(S, i)
    BY <1>0 DEF Below
  <2>5. QED
    BY <2>2, <2>3, <2>4
<1>2. IsFiniteSet(Below(S, j))
  BY RankBounds
<1>3. Cardinality(Below(S, i)) <= Cardinality(Below(S, j))
      /\ Cardinality(Below(S, i)) # Cardinality(Below(S, j))
  BY <1>1, <1>2, FS_Subset
<1>4. QED
  BY <1>3, RankBounds DEF Rank

LEMMA RankInjective ==
  ASSUME NEW S \in SUBSET Nat, IsFiniteSet(S), NEW i \in S, NEW j \in S, Rank(S, i) = Rank(S, j)
  PROVE  i = j
<1>1. CASE i < j
  BY <1>1, RankGrows, RankBounds
<1>2. CASE j < i
  BY <1>2, RankGrows, RankBounds
<1>3. QED
  BY <1>1, <1>2

(* Every number below the size is a rank: ranking is an injection between  *)
(* sets of one size.                                                       *)
LEMMA RanksFill ==
  ASSUME NEW S \in SUBSET Nat, IsFiniteSet(S), NEW n \in 0 .. (Cardinality(S) - 1)
  PROVE  \E i \in S : Rank(S, i) = n
<1> DEFINE N == Cardinality(S)
           f == [i \in S |-> Rank(S, i)]
<1>1. N \in Nat
  BY FS_CardinalityType
<1>2. IsFiniteSet(0 .. (N - 1)) /\ Cardinality(0 .. (N - 1)) = N
  BY <1>1, FS_Interval
<1>3. \A i \in S : Rank(S, i) \in 0 .. (N - 1)
  BY RankBounds
<1>4. f \in [S -> 0 .. (N - 1)]
  BY <1>3
<1>5. \A i, j \in S : f[i] = f[j] => i = j
  BY RankInjective
<1>6. f \in Injection(S, 0 .. (N - 1))
  BY <1>4, <1>5 DEF Injection, IsInjective
<1>7. f \in Surjection(S, 0 .. (N - 1))
  <2> HIDE DEF f
  <2>1. QED
    BY <1>2, <1>6, FS_Injection
<1>8. QED
  BY <1>7 DEF Surjection

(* In an interval from 0 every number is its own rank.                     *)
LEMMA RankOfWhole ==
  ASSUME NEW S \in SUBSET Nat, NEW i \in S, 0 .. i \subseteq S
  PROVE  Rank(S, i) = i
<1>0. i \in Nat
  OBVIOUS
<1>1. Below(S, i) = 0 .. (i - 1)
  <2>1. ASSUME NEW k \in Below(S, i)
        PROVE  k \in 0 .. (i - 1)
    <3>1. k \in Nat /\ k < i
      BY DEF Below
    <3>2. QED
      BY <1>0, <3>1
  <2>2. ASSUME NEW k \in 0 .. (i - 1)
        PROVE  k \in Below(S, i)
    <3>1. k \in 0 .. i /\ k < i
      BY <1>0
    <3>2. QED
      BY <3>1 DEF Below
  <2>3. QED
    BY <2>1, <2>2
<1>2. i \in Int /\ i >= 0
  OBVIOUS
<1>3. Cardinality(0 .. (i - 1)) = i
  BY <1>2, FS_Interval
<1>4. QED
  BY <1>1, <1>3 DEF Rank

(* A set of numbers that is not empty has a largest one, where ranks end.  *)
LEMMA LargestBounds ==
  ASSUME NEW S \in SUBSET Nat, IsFiniteSet(S), S # {}
  PROVE  Largest(S) \in S /\ \A n \in S : n <= Largest(S)
<1>1. Cardinality(S) \in Nat /\ Cardinality(S) # 0
  BY FS_CardinalityType, FS_EmptySet
<1>2. PICK m \in S : Rank(S, m) = Cardinality(S) - 1
  BY <1>1, RanksFill
<1>3. ASSUME NEW n \in S
      PROVE  n <= m
  <2>1. CASE m < n
    BY <1>1, <1>2, <2>1, RankGrows, RankBounds
  <2>2. m \in Nat /\ n \in Nat
    OBVIOUS
  <2>3. QED
    BY <2>1, <2>2
<1>4. QED
  BY <1>3 DEF Largest

-----------------------------------------------------------------------------
IRInsn ==
  [id : Addrs \X Nat, end : BOOLEAN, jump : {NoLoc} \cup (Nat \X Nat), frozen : BOOLEAN]

Typed ==
  /\ fixed \in BOOLEAN
  /\ \A a \in Addrs : code[a] \in Translations[a]
  /\ Keys \subseteq Addrs \X Nat
  /\ items \in [Keys -> IRInsn]

(* Renumbering only lowers numbers, so what is left of a translation is    *)
(* within the numbers of the next one, which replaces all of it.           *)
AsTranslated ==
  \A p \in Keys :
    items[p].id[1] = p[1] /\ p[2] <= items[p].id[2] /\ items[p].id[2] < Len(code[p[1]])

(* An end flag is on the last instruction of an address, if on any.        *)
EndIsLast == \A p, q \in Keys : p[1] = q[1] /\ items[p].end => q[2] <= p[2]

(* What fix_inums_and_flags leaves: no gaps, and end flags but the last.   *)
Packed == fixed => \A p \in Keys : \A i \in 0 .. p[2] : <<p[1], i>> \in Keys
EndsGiven == fixed => \A p \in Keys : GetsEnd(p) => items[p].end

IInv == Typed /\ AsTranslated /\ OrderKept /\ EndIsLast /\ Packed /\ EndsGiven

(* The numbers at an address, and that they are finitely many.             *)
LEMMA InumsAre ==
  ASSUME Keys \subseteq Addrs \X Nat, NEW a, NEW i
  PROVE  i \in InumsOf(a) <=> <<a, i>> \in Keys
<1>1. ASSUME i \in InumsOf(a)
      PROVE  <<a, i>> \in Keys
  <2>1. PICK p \in Keys : p[1] = a /\ p[2] = i
    BY <1>1 DEF InumsOf
  <2>2. p = <<p[1], p[2]>>
    BY <2>1
  <2>3. QED
    BY <2>1, <2>2
<1>2. ASSUME <<a, i>> \in Keys
      PROVE  i \in InumsOf(a)
  <2>1. <<a, i>>[1] = a /\ <<a, i>>[2] = i
    OBVIOUS
  <2>2. QED
    BY <1>2, <2>1 DEF InumsOf
<1>3. QED
  BY <1>1, <1>2

LEMMA InumsFinite ==
  ASSUME IInv, NEW a \in Addrs
  PROVE  InumsOf(a) \in SUBSET Nat /\ IsFiniteSet(InumsOf(a))
<1>1. ASSUME NEW i \in InumsOf(a)
      PROVE  i \in Nat /\ i <= Len(code[a])
  <2>1. <<a, i>> \in Keys
    BY InumsAre DEF IInv, Typed
  <2>2. i \in Nat /\ items[<<a, i>>].id \in Addrs \X Nat
    BY <2>1 DEF IInv, Typed, IRInsn
  <2>3. i <= items[<<a, i>>].id[2] /\ items[<<a, i>>].id[2] < Len(code[a])
    BY <2>1 DEF IInv, AsTranslated
  <2>4. Len(code[a]) \in Nat /\ items[<<a, i>>].id[2] \in Nat
    BY <2>2, TranslationsAssumption DEF IInv, Typed
  <2>5. QED
    BY <2>2, <2>3, <2>4
<1>2. InumsOf(a) \in SUBSET Nat
  BY <1>1
<1>3. Len(code[a]) \in Nat
  BY TranslationsAssumption DEF IInv, Typed
<1>4. QED
  BY <1>1, <1>2, <1>3, FS_BoundedSetOfNaturals

(* The largest number of an address, without Largest.                      *)
LEMMA GetsEndMeans ==
  ASSUME IInv, NEW p \in Keys
  PROVE  GetsEnd(p) <=> /\ \A q \in Keys : q[1] = p[1] => q[2] <= p[2]
                        /\ \E q \in Keys : q[1] > p[1]
<1> DEFINE S == InumsOf(p[1])
<1>1. p \in Addrs \X Nat /\ p = <<p[1], p[2]>>
  BY DEF IInv, Typed
<1>2. p[2] \in S
  BY <1>1, InumsAre DEF IInv, Typed
<1>3. S \in SUBSET Nat /\ IsFiniteSet(S)
  BY <1>1, InumsFinite
<1>4. Largest(S) \in S /\ \A n \in S : n <= Largest(S)
  BY <1>2, <1>3, LargestBounds
<1>5. \A q \in Keys : q[1] = p[1] => q[2] \in S
  <2>1. \A q \in Keys : q = <<q[1], q[2]>>
    BY DEF IInv, Typed
  <2>2. QED
    BY <2>1, InumsAre DEF IInv, Typed
<1>6. \A n \in S : <<p[1], n>> \in Keys /\ <<p[1], n>>[1] = p[1] /\ <<p[1], n>>[2] = n
  BY InumsAre DEF IInv, Typed
<1>7. (p[2] = Largest(S)) <=> (\A q \in Keys : q[1] = p[1] => q[2] <= p[2])
  <2>1. ASSUME p[2] = Largest(S), NEW q \in Keys, q[1] = p[1]
        PROVE  q[2] <= p[2]
    BY <1>4, <1>5, <2>1
  <2>2. ASSUME \A q \in Keys : q[1] = p[1] => q[2] <= p[2]
        PROVE  p[2] = Largest(S)
    <3>1. Largest(S) <= p[2]
      BY <1>4, <1>6, <2>2
    <3>2. p[2] <= Largest(S) /\ Largest(S) \in Nat /\ p[2] \in Nat
      BY <1>2, <1>3, <1>4
    <3>3. QED
      BY <3>1, <3>2
  <2>3. QED
    BY <2>1, <2>2
<1>8. QED
  BY <1>7 DEF GetsEnd

-----------------------------------------------------------------------------
LEMMA InitHolds == StorageInit => IInv
<1> SUFFICES ASSUME StorageInit PROVE IInv
  OBVIOUS
<1>0. DOMAIN << >> = {}
  OBVIOUS
<1>1. Keys = {} /\ items \in [{} -> IRInsn]
  BY <1>0 DEF StorageInit, Keys
<1>2. \A a \in Addrs : code[a] \in Translations[a]
  BY DEF StorageInit
<1>3. Typed
  BY <1>1, <1>2 DEF Typed, StorageInit
<1>4. QED
  BY <1>1, <1>3 DEF IInv, AsTranslated, OrderKept, EndIsLast, Packed, EndsGiven

(* Instructions that are deleted disturb nothing: what stays has its       *)
(* number.                                                                 *)
LEMMA DeletingKeeps ==
  ASSUME IInv, NEW K \in SUBSET Keys, items' = [q \in K |-> items[q]],
         fixed' = FALSE, UNCHANGED code
  PROVE  IInv'
<1>1. Keys' = K /\ \A q \in K : items'[q] = items[q]
  BY DEF Keys
<1>2. Typed'
  BY <1>1 DEF IInv, Typed
<1>3. AsTranslated' /\ OrderKept' /\ EndIsLast'
  BY <1>1 DEF IInv, AsTranslated, OrderKept, EndIsLast
<1>4. QED
  BY <1>2, <1>3 DEF IInv, Packed, EndsGiven

LEMMA ElementOf == \A R : \A s \in Seq(R) : \A i \in DOMAIN s : s[i] \in R
OBVIOUS

(* A translation replaces all that is left at its address.                 *)
LEMMA PutKeeps ==
  ASSUME IInv, NEW a \in Addrs, PutTranslation(a)
  PROVE  IInv'
<1> DEFINE t == code[a]
           D == {<<a, k - 1>> : k \in DOMAIN t}
<1>1. /\ t \in Seq([jump : {NoLoc} \cup (Nat \X Nat), frozen : BOOLEAN])
      /\ Len(t) \in Nat /\ DOMAIN t = 1 .. Len(t)
  <2>1. t \in Translations[a]
    BY DEF IInv, Typed
  <2>2. t \in Seq([jump : {NoLoc} \cup (Nat \X Nat), frozen : BOOLEAN])
    BY <2>1, TranslationsAssumption
  <2>3. QED
    BY <2>2
<1>2. /\ items' = [p \in D \cup Keys |-> IF p \in D THEN Insn(a, t, p[2] + 1) ELSE items[p]]
      /\ fixed' = FALSE /\ UNCHANGED code
  BY DEF PutTranslation
<1>3. Keys' = D \cup Keys
  BY <1>2 DEF Keys
<1>4. \A p \in D : items'[p] = Insn(a, t, p[2] + 1)
  BY <1>2
<1>5. \A p \in Keys : p \notin D => items'[p] = items[p]
  BY <1>2
<1>6. \A p \in D : p \in Addrs \X Nat /\ p[1] = a /\ p[2] \in Nat /\ p[2] < Len(t)
  BY <1>1
<1>7. \A p \in Keys : p[1] = a => p \in D
  <2>1. SUFFICES ASSUME NEW p \in Keys, p[1] = a PROVE p \in D
    OBVIOUS
  <2>2. p = <<a, p[2]>> /\ p[2] \in Nat /\ items[p].id[2] \in Nat
    BY <2>1 DEF IInv, Typed, IRInsn
  <2>3. p[2] + 1 \in DOMAIN t
    BY <1>1, <2>1, <2>2 DEF IInv, AsTranslated
  <2>4. p[2] = (p[2] + 1) - 1
    BY <2>2
  <2>5. QED
    BY <2>2, <2>3, <2>4
<1>8. \A p \in D : /\ items'[p].id = <<a, p[2]>>
                   /\ items'[p].end = (p[2] + 1 = Len(t))
                   /\ items'[p] \in IRInsn
  <2>1. SUFFICES ASSUME NEW p \in D
                 PROVE  /\ items'[p].id = <<a, p[2]>>
                        /\ items'[p].end = (p[2] + 1 = Len(t))
                        /\ items'[p] \in IRInsn
    OBVIOUS
  <2>2. p[2] + 1 \in DOMAIN t /\ p[2] \in Nat /\ (p[2] + 1) - 1 = p[2]
    BY <1>1, <1>6
  <2>3. t[p[2] + 1].jump \in {NoLoc} \cup (Nat \X Nat) /\ t[p[2] + 1].frozen \in BOOLEAN
    <3>1. t[p[2] + 1] \in [jump : {NoLoc} \cup (Nat \X Nat), frozen : BOOLEAN]
      <4> HIDE DEF t
      <4>1. QED
        BY <1>1, <2>2, ElementOf
    <3>2. QED
      BY <3>1
  <2>4. items'[p] = [id |-> <<a, p[2]>>, end |-> p[2] + 1 = Len(t),
                     jump |-> t[p[2] + 1].jump, frozen |-> t[p[2] + 1].frozen]
    BY <1>4, <2>2 DEF Insn
  <2>5. <<a, p[2]>> \in Addrs \X Nat
    BY <2>2
  <2>6. (p[2] + 1 = Len(t)) \in BOOLEAN
    OBVIOUS
  <2>7. items'[p] \in IRInsn
    BY <2>3, <2>4, <2>5, <2>6 DEF IRInsn
  <2>8. QED
    BY <2>4, <2>7
<1>9. \A p \in Keys' : IF p[1] = a THEN p \in D ELSE p \in Keys /\ p \notin D
  BY <1>3, <1>6, <1>7
<1> HIDE DEF D, t
<1>10. Typed'
  <2>1. \A p \in Keys' : items'[p] \in IRInsn /\ p \in Addrs \X Nat
    BY <1>5, <1>6, <1>8, <1>9 DEF IInv, Typed
  <2>2. items' = [p \in Keys' |-> items'[p]]
    BY <1>2, <1>3
  <2>3. QED
    BY <1>2, <2>1, <2>2 DEF IInv, Typed
<1>11. AsTranslated'
  <2>1. SUFFICES ASSUME NEW p \in Keys'
                 PROVE  /\ items'[p].id[1] = p[1] /\ p[2] <= items'[p].id[2]
                        /\ items'[p].id[2] < Len(code[p[1]])
    BY <1>2 DEF AsTranslated
  <2>2. CASE p[1] = a
    <3>1. items'[p].id = <<a, p[2]>> /\ p[2] \in Nat /\ p[2] < Len(code[a])
      BY <1>6, <1>8, <1>9, <2>2 DEF t
    <3>2. QED
      BY <2>2, <3>1
  <2>3. CASE p[1] # a
    BY <1>5, <1>9, <2>3 DEF IInv, AsTranslated
  <2>4. QED
    BY <2>2, <2>3
<1>12. OrderKept'
  <2>1. SUFFICES ASSUME NEW p \in Keys', NEW q \in Keys', p[1] = q[1], p[2] < q[2]
                 PROVE  items'[p].id[2] < items'[q].id[2]
    BY DEF OrderKept
  <2>2. CASE p[1] = a
    <3>1. items'[p].id = <<a, p[2]>> /\ items'[q].id = <<a, q[2]>>
      BY <1>8, <1>9, <2>1, <2>2
    <3>2. QED
      BY <2>1, <3>1
  <2>3. CASE p[1] # a
    BY <1>5, <1>9, <2>1, <2>3 DEF IInv, OrderKept
  <2>4. QED
    BY <2>2, <2>3
<1>13. EndIsLast'
  <2>1. SUFFICES ASSUME NEW p \in Keys', NEW q \in Keys', p[1] = q[1], items'[p].end
                 PROVE  q[2] <= p[2]
    BY DEF EndIsLast
  <2>2. CASE p[1] = a
    <3>1. p \in D /\ q \in D
      BY <1>9, <2>1, <2>2
    <3>2. p[2] \in Nat /\ q[2] \in Nat /\ q[2] < Len(t) /\ p[2] + 1 = Len(t)
      BY <1>6, <1>8, <2>1, <3>1
    <3>3. QED
      BY <3>2
  <2>3. CASE p[1] # a
    BY <1>5, <1>9, <2>1, <2>3 DEF IInv, EndIsLast
  <2>4. QED
    BY <2>2, <2>3
<1>14. QED
  BY <1>2, <1>10, <1>11, <1>12, <1>13 DEF IInv, Packed, EndsGiven

-----------------------------------------------------------------------------
(* The new number of an instruction is its rank.                           *)
LEMMA NewInumBounds ==
  ASSUME IInv, NEW p \in Keys
  PROVE  /\ NewInum(p) \in Nat /\ NewInum(p) <= p[2]
         /\ Relocated(p) = <<p[1], NewInum(p)>> /\ Relocated(p) \in Addrs \X Nat
<1>1. p \in Addrs \X Nat /\ p = <<p[1], p[2]>>
  BY DEF IInv, Typed
<1>2. p[2] \in InumsOf(p[1])
  BY <1>1, InumsAre DEF IInv, Typed
<1>3. NewInum(p) = Rank(InumsOf(p[1]), p[2])
  BY DEF NewInum, Rank, Below
<1>4. NewInum(p) \in Nat /\ NewInum(p) <= p[2]
  BY <1>1, <1>2, <1>3, InumsFinite, RankBounds
<1>5. QED
  BY <1>1, <1>4 DEF Relocated

LEMMA NewInumGrows ==
  ASSUME IInv, NEW p \in Keys, NEW q \in Keys, p[1] = q[1], p[2] < q[2]
  PROVE  NewInum(p) < NewInum(q)
<1>1. p = <<p[1], p[2]>> /\ q = <<q[1], q[2]>> /\ p[1] \in Addrs
  BY DEF IInv, Typed
<1>2. p[2] \in InumsOf(p[1]) /\ q[2] \in InumsOf(p[1])
  BY <1>1, InumsAre DEF IInv, Typed
<1>3. QED
  BY <1>1, <1>2, InumsFinite, RankGrows DEF NewInum, Rank, Below

(* No instruction is lost: none gets the place of another.                 *)
LEMMA RelocatedInjective ==
  ASSUME IInv, NEW p \in Keys, NEW q \in Keys, Relocated(p) = Relocated(q)
  PROVE  p = q
<1>1. p[1] = q[1] /\ NewInum(p) = NewInum(q) /\ NewInum(p) \in Nat
  BY NewInumBounds
<1>2. p = <<p[1], p[2]>> /\ q = <<q[1], q[2]>> /\ p[2] \in Nat /\ q[2] \in Nat
  BY DEF IInv, Typed
<1>3. ~ p[2] < q[2] /\ ~ q[2] < p[2]
  BY <1>1, NewInumGrows
<1>4. p[2] = q[2]
  BY <1>2, <1>3
<1>5. QED
  BY <1>1, <1>2, <1>4

(* The new numbers of an address have no gap.                              *)
LEMMA NewInumsFill ==
  ASSUME IInv, NEW p \in Keys, NEW n \in 0 .. NewInum(p)
  PROVE  \E q \in Keys : Relocated(q) = <<p[1], n>>
<1> DEFINE S == InumsOf(p[1])
<1>1. p = <<p[1], p[2]>> /\ p[1] \in Addrs
  BY DEF IInv, Typed
<1>2. p[2] \in S /\ S \in SUBSET Nat /\ IsFiniteSet(S)
  BY <1>1, InumsAre, InumsFinite DEF IInv, Typed
<1>3. NewInum(p) = Rank(S, p[2])
  BY DEF NewInum, Rank, Below
<1>4. Rank(S, p[2]) \in Nat /\ Rank(S, p[2]) < Cardinality(S) /\ Cardinality(S) \in Nat
  BY <1>2, RankBounds
<1>5. n \in 0 .. (Cardinality(S) - 1)
  BY <1>3, <1>4
<1>6. PICK i \in S : Rank(S, i) = n
  BY <1>2, <1>5, RanksFill
<1>7. <<p[1], i>> \in Keys
  BY <1>6, InumsAre DEF IInv, Typed
<1>8. Relocated(<<p[1], i>>) = <<p[1], n>>
  BY <1>6 DEF Relocated, NewInum, Rank, Below
<1>9. QED
  BY <1>7, <1>8

LEMMA FixedJumpType ==
  ASSUME IInv, NEW p \in Keys
  PROVE  FixedJump(items[p]) \in {NoLoc} \cup (Nat \X Nat)
<1>1. items[p].jump \in {NoLoc} \cup (Nat \X Nat)
  BY DEF IInv, Typed, IRInsn
<1>2. items[p].jump \in Moved => Relocated(items[p].jump) \in Nat \X Nat
  BY NewInumBounds, TranslationsAssumption DEF Moved
<1>3. QED
  BY <1>1, <1>2 DEF FixedJump

(* What fix_inums_and_flags makes of each instruction.                     *)
LEMMA FixEffect ==
  ASSUME IInv
  PROVE  /\ DOMAIN FixedItems = {Relocated(p) : p \in Keys}
         /\ FixedItems = [n \in DOMAIN FixedItems |-> FixedItems[n]]
         /\ \A p \in Keys :
              /\ FixedItems[Relocated(p)] \in IRInsn
              /\ FixedItems[Relocated(p)].id = items[p].id
              /\ FixedItems[Relocated(p)].end = (items[p].end \/ GetsEnd(p))
              /\ FixedItems[Relocated(p)].jump = FixedJump(items[p])
              /\ FixedItems[Relocated(p)].frozen = items[p].frozen
<1>1. DOMAIN FixedItems = {Relocated(p) : p \in Keys}
      /\ FixedItems = [n \in DOMAIN FixedItems |-> FixedItems[n]]
  BY DEF FixedItems
<1>2. ASSUME NEW p \in Keys
      PROVE  /\ FixedItems[Relocated(p)] \in IRInsn
             /\ FixedItems[Relocated(p)].id = items[p].id
             /\ FixedItems[Relocated(p)].end = (items[p].end \/ GetsEnd(p))
             /\ FixedItems[Relocated(p)].jump = FixedJump(items[p])
             /\ FixedItems[Relocated(p)].frozen = items[p].frozen
  <2> DEFINE c == CHOOSE q \in Keys : Relocated(q) = Relocated(p)
             e == items[p].end \/ GetsEnd(p)
             j == FixedJump(items[p])
  <2>1. c \in Keys /\ Relocated(c) = Relocated(p)
    OBVIOUS
  <2>2. c = p
    BY <2>1, RelocatedInjective
  <2>3. FixedItems[Relocated(p)]
          = [items[c] EXCEPT !.end = items[c].end \/ GetsEnd(c), !.jump = FixedJump(items[c])]
    BY DEF FixedItems
  <2>4. FixedItems[Relocated(p)] = [items[p] EXCEPT !.end = e, !.jump = j]
    <3> HIDE DEF c
    <3>1. QED
      BY <2>2, <2>3
  <2>5. items[p] \in IRInsn /\ e \in BOOLEAN /\ j \in {NoLoc} \cup (Nat \X Nat)
    BY FixedJumpType DEF IInv, Typed
  <2> HIDE DEF e, j
  <2>6. /\ FixedItems[Relocated(p)] \in IRInsn
        /\ FixedItems[Relocated(p)].id = items[p].id
        /\ FixedItems[Relocated(p)].end = e
        /\ FixedItems[Relocated(p)].jump = j
        /\ FixedItems[Relocated(p)].frozen = items[p].frozen
    BY <2>4, <2>5 DEF IRInsn
  <2>7. QED
    BY <2>6 DEF e, j
<1>3. QED
  BY <1>1, <1>2

LEMMA LargestIs ==
  ASSUME NEW S \in SUBSET Nat, NEW m \in S, \A n \in S : n <= m
  PROVE  Largest(S) = m
<1>1. Largest(S) \in S /\ \A n \in S : n <= Largest(S)
  BY DEF Largest
<1>2. Largest(S) \in Nat /\ m \in Nat /\ Largest(S) <= m /\ m <= Largest(S)
  BY <1>1
<1>3. QED
  BY <1>2

(* In the new numbering an instruction that is to get an end flag was the  *)
(* last of its address before, and has been given it.                      *)
LEMMA EndsGivenByFix ==
  ASSUME IInv, Fix
  PROVE  EndsGiven'
<1>0. items' = FixedItems
  BY DEF Fix
<1>1. Keys' = {Relocated(p) : p \in Keys}
  BY <1>0, FixEffect DEF Keys
<1>2. SUFFICES ASSUME NEW n \in Keys', GetsEnd(n)' PROVE items'[n].end
  BY DEF EndsGiven
<1> DEFINE a == n[1]
           S == InumsOf(a)
           S1 == InumsOf(a)'
<1>3. PICK p \in Keys : Relocated(p) = n
  BY <1>1
<1>4. p[1] = a /\ p = <<a, p[2]>> /\ a \in Addrs /\ n = <<a, n[2]>>
  BY <1>3, NewInumBounds DEF IInv, Typed
<1>5. p[2] \in S /\ S \in SUBSET Nat /\ IsFiniteSet(S)
  BY <1>4, InumsAre, InumsFinite DEF IInv, Typed
<1>6. PICK m \in S : \A i \in S : i <= m
  BY <1>5, LargestBounds
<1> DEFINE last == <<a, m>>
<1>7. last \in Keys /\ last[1] = a /\ last[2] = m /\ m \in Nat
  BY <1>5, <1>6, InumsAre DEF IInv, Typed
<1>8. \A q \in Keys : q[1] = a => q[2] \in Nat /\ q[2] <= m
  <2>1. SUFFICES ASSUME NEW q \in Keys, q[1] = a PROVE q[2] \in Nat /\ q[2] <= m
    OBVIOUS
  <2>2. q = <<a, q[2]>> /\ q[2] \in Nat
    BY <2>1 DEF IInv, Typed
  <2>3. q[2] \in S
    BY <2>2, InumsAre DEF IInv, Typed
  <2>4. QED
    BY <1>6, <2>2, <2>3
<1>9. S1 = {NewInum(q) : q \in {r \in Keys : r[1] = a}}
  <2>1. \A q \in Keys : Relocated(q)[1] = q[1] /\ Relocated(q)[2] = NewInum(q)
    BY NewInumBounds
  <2>2. S1 = {r[2] : r \in {q \in Keys' : q[1] = a}}
    BY DEF InumsOf
  <2>3. QED
    BY <1>1, <2>1, <2>2
<1>10. NewInum(last) \in S1 /\ S1 \in SUBSET Nat
  BY <1>7, <1>9, NewInumBounds
<1>11. \A i \in S1 : i <= NewInum(last)
  <2>1. SUFFICES ASSUME NEW q \in Keys, q[1] = a PROVE NewInum(q) <= NewInum(last)
    BY <1>9
  <2>2. q[2] <= last[2] /\ q[2] \in Nat /\ last[2] \in Nat
    BY <1>7, <1>8, <2>1
  <2>3. CASE q[2] = last[2]
    <3>1. q = last
      BY <1>7, <2>1, <2>3 DEF IInv, Typed
    <3>2. QED
      BY <1>7, <3>1, NewInumBounds
  <2>4. CASE q[2] < last[2]
    <3>1. NewInum(q) < NewInum(last)
      BY <1>7, <2>1, <2>4, NewInumGrows
    <3>2. NewInum(q) \in Nat /\ NewInum(last) \in Nat
      BY <1>7, NewInumBounds
    <3>3. QED
      BY <3>1, <3>2
  <2>5. QED
    BY <2>2, <2>3, <2>4
<1>12. Largest(S1) = NewInum(last)
  <2> HIDE DEF S1
  <2>1. QED
    BY <1>10, <1>11, LargestIs
<1>13. n[2] = Largest(S1) /\ \E q \in Keys' : q[1] > a
  BY <1>2 DEF GetsEnd
<1>14. n = Relocated(last)
  BY <1>4, <1>7, <1>12, <1>13, NewInumBounds
<1>15. \E q \in Keys : q[1] > a
  BY <1>1, <1>13, NewInumBounds
<1>16. GetsEnd(last)
  <2> HIDE DEF last
  <2>1. QED
    BY <1>7, <1>8, <1>15, GetsEndMeans
<1>17. QED
  <2> HIDE DEF last
  <2>1. QED
    BY <1>0, <1>7, <1>14, <1>16, FixEffect

LEMMA FixKeeps ==
  ASSUME IInv, Fix
  PROVE  IInv'
<1>0. items' = FixedItems /\ fixed' = TRUE /\ UNCHANGED code
  BY DEF Fix
<1>1. Keys' = {Relocated(p) : p \in Keys}
  BY <1>0, FixEffect DEF Keys
<1>2. \A p \in Keys :
        /\ items'[Relocated(p)] \in IRInsn
        /\ items'[Relocated(p)].id = items[p].id
        /\ items'[Relocated(p)].end = (items[p].end \/ GetsEnd(p))
  BY <1>0, FixEffect
<1>3. \A p \in Keys : /\ Relocated(p)[1] = p[1] /\ Relocated(p)[2] = NewInum(p)
                      /\ NewInum(p) \in Nat /\ NewInum(p) <= p[2]
                      /\ Relocated(p) \in Addrs \X Nat
                      /\ p[2] \in Nat /\ items[p].id[2] \in Nat
  BY NewInumBounds DEF IInv, Typed, IRInsn
<1>4. Typed'
  <2>1. \A n \in Keys' : n \in Addrs \X Nat /\ items'[n] \in IRInsn
    BY <1>1, <1>2, <1>3
  <2>2. items' = [n \in Keys' |-> items'[n]]
    BY <1>0, FixEffect DEF Keys
  <2>3. QED
    BY <1>0, <2>1, <2>2 DEF IInv, Typed
<1>5. AsTranslated'
  <2>1. SUFFICES ASSUME NEW p \in Keys
                 PROVE  LET n == Relocated(p)
                        IN  /\ items'[n].id[1] = n[1] /\ n[2] <= items'[n].id[2]
                            /\ items'[n].id[2] < Len(code[n[1]])
    BY <1>0, <1>1 DEF AsTranslated
  <2>2. /\ items[p].id[1] = p[1] /\ p[2] <= items[p].id[2]
        /\ items[p].id[2] < Len(code[p[1]])
    BY DEF IInv, AsTranslated
  <2>3. NewInum(p) <= items[p].id[2]
    BY <1>3, <2>2
  <2>4. QED
    BY <1>2, <1>3, <2>2, <2>3
<1>6. \A p, q \in Keys : p[1] = q[1] /\ NewInum(p) < NewInum(q) => p[2] < q[2]
  <2>1. SUFFICES ASSUME NEW p \in Keys, NEW q \in Keys, p[1] = q[1],
                        NewInum(p) < NewInum(q), ~ p[2] < q[2]
                 PROVE  FALSE
    OBVIOUS
  <2>2. CASE p[2] = q[2]
    <3>1. p = q
      BY <2>1, <2>2 DEF IInv, Typed
    <3>2. QED
      BY <1>3, <2>1, <3>1
  <2>3. CASE q[2] < p[2]
    BY <1>3, <2>1, <2>3, NewInumGrows
  <2>4. QED
    BY <1>3, <2>1, <2>2, <2>3
<1>7. OrderKept'
  <2>1. SUFFICES ASSUME NEW p \in Keys, NEW q \in Keys, p[1] = q[1], NewInum(p) < NewInum(q)
                 PROVE  items'[Relocated(p)].id[2] < items'[Relocated(q)].id[2]
    BY <1>1, <1>3 DEF OrderKept
  <2>2. p[2] < q[2]
    BY <1>6, <2>1
  <2>3. items[p].id[2] < items[q].id[2]
    BY <2>1, <2>2 DEF IInv, OrderKept
  <2>4. QED
    BY <1>2, <2>3
<1>8. EndIsLast'
  <2>1. SUFFICES ASSUME NEW p \in Keys, NEW q \in Keys, p[1] = q[1], items'[Relocated(p)].end
                 PROVE  NewInum(q) <= NewInum(p)
    BY <1>1, <1>3 DEF EndIsLast
  <2>2. items[p].end \/ GetsEnd(p)
    BY <1>2, <2>1
  <2>3. q[2] <= p[2]
    BY <2>1, <2>2, GetsEndMeans DEF IInv, EndIsLast
  <2>4. ~ NewInum(p) < NewInum(q)
    BY <1>3, <1>6, <2>1, <2>3
  <2>5. QED
    BY <1>3, <2>4
<1>9. Packed'
  <2>1. SUFFICES ASSUME NEW p \in Keys, NEW i \in 0 .. NewInum(p)
                 PROVE  <<p[1], i>> \in Keys'
    BY <1>1, <1>3 DEF Packed
  <2>2. PICK q \in Keys : Relocated(q) = <<p[1], i>>
    BY NewInumsFill
  <2>3. QED
    BY <1>1, <2>2
<1>10. EndsGiven'
  BY EndsGivenByFix
<1>11. QED
  BY <1>4, <1>5, <1>7, <1>8, <1>9, <1>10 DEF IInv

LEMMA NextKeeps == IInv /\ [StorageNext]_storageVars => IInv'
<1> SUFFICES ASSUME IInv, [StorageNext]_storageVars PROVE IInv'
  OBVIOUS
<1>1. ASSUME NEW a \in Addrs, PutTranslation(a) PROVE IInv'
  BY <1>1, PutKeeps
<1>2. ASSUME NEW p \in Keys, DelOne(p) PROVE IInv'
  BY <1>2, DeletingKeeps, Keys \ {p} \in SUBSET Keys DEF DelOne
<1>3. ASSUME NEW a \in Addrs, DelAsm(a) PROVE IInv'
  <2> DEFINE K == Keys \ {<<a, i>> : i \in Walk(a)}
  <2>1. K \in SUBSET Keys /\ items' = [q \in K |-> items[q]] /\ fixed' = FALSE /\ UNCHANGED code
    BY <1>3 DEF DelAsm
  <2> HIDE DEF K
  <2>2. QED
    BY <2>1, DeletingKeeps
<1>4. CASE ClearStorage
  <2>1. << >> = [q \in {} |-> items[q]]
    OBVIOUS
  <2>2. QED
    BY <1>4, <2>1, DeletingKeeps DEF ClearStorage
<1>5. CASE Fix
  BY <1>5, FixKeeps
<1>6. CASE UNCHANGED storageVars
  <2>1. items' = items /\ code' = code /\ fixed' = fixed
    BY <1>6 DEF storageVars
  <2>2. Typed' /\ AsTranslated' /\ OrderKept' /\ EndIsLast'
    BY <2>1 DEF IInv, Typed, AsTranslated, OrderKept, EndIsLast, Keys
  <2>3. Packed' /\ EndsGiven'
    BY <2>1 DEF IInv, Packed, EndsGiven, GetsEnd, InumsOf, Keys
  <2>4. QED
    BY <2>2, <2>3 DEF IInv
<1>7. QED
  BY <1>1, <1>2, <1>3, <1>4, <1>5, <1>6 DEF StorageNext

LEMMA Always == StorageSpec => []IInv
BY InitHolds, NextKeeps, PTL DEF StorageSpec

(* The storage holds well-typed instructions, each at the address it was   *)
(* translated for.                                                         *)
THEOREM StorageTyped == StorageSpec => []StorageTypeOK
<1>1. IInv => StorageTypeOK
  BY DEF IInv, Typed, AsTranslated, StorageTypeOK, IRInsn
<1>2. QED
  BY <1>1, Always, PTL

(* However translations, deletions and renumberings follow each other, the *)
(* instructions of a machine instruction are in the order they were        *)
(* translated in.                                                          *)
THEOREM OrderIsKept == StorageSpec => []OrderKept
<1>1. IInv => OrderKept
  BY DEF IInv
<1>2. QED
  BY <1>1, Always, PTL

(* fix_inums_and_flags changes nothing when it has just been called.       *)
THEOREM FixingTwiceIsOnce == StorageSpec => []FixIdempotent
<1>1. ASSUME IInv, fixed
      PROVE  FixedItems = items
  <2>1. \A p \in Keys : p = <<p[1], p[2]>> /\ p[1] \in Addrs /\ p[2] \in Nat
    BY <1>1 DEF IInv, Typed
  <2>2. ASSUME NEW p \in Keys
        PROVE  NewInum(p) = p[2]
    <3> DEFINE S == InumsOf(p[1])
    <3>1. p[2] \in S /\ S \in SUBSET Nat
      BY <1>1, <2>1, InumsAre, InumsFinite DEF IInv, Typed
    <3>2. 0 .. p[2] \subseteq S
      BY <1>1, InumsAre DEF IInv, Typed, Packed
    <3>3. Rank(S, p[2]) = p[2]
      BY <3>1, <3>2, RankOfWhole
    <3>4. QED
      BY <3>3 DEF NewInum, Rank, Below
  <2>3. \A p \in Keys : Relocated(p) = p
    BY <2>1, <2>2 DEF Relocated
  <2>4. \A p \in Keys : FixedJump(items[p]) = items[p].jump
    BY <2>2 DEF FixedJump, Moved
  <2>5. \A p \in Keys : GetsEnd(p) => items[p].end
    BY <1>1 DEF IInv, EndsGiven
  <2>6. DOMAIN FixedItems = Keys
    BY <1>1, <2>3, FixEffect
  <2>7. \A p \in Keys : FixedItems[p] = items[p]
    <3>1. TAKE p \in Keys
    <3>2. items[p] \in IRInsn /\ FixedItems[p] \in IRInsn
      BY <1>1, <2>3, FixEffect DEF IInv, Typed
    <3>3. items[p].end \in BOOLEAN
      BY <3>2 DEF IRInsn
    <3>4. /\ FixedItems[p].id = items[p].id
          /\ FixedItems[p].end = items[p].end
          /\ FixedItems[p].jump = items[p].jump
          /\ FixedItems[p].frozen = items[p].frozen
      BY <1>1, <2>3, <2>4, <2>5, <3>3, FixEffect
    <3>5. QED
      BY <3>2, <3>4 DEF IRInsn
  <2>8. items = [p \in Keys |-> items[p]]
    BY <1>1 DEF IInv, Typed
  <2>9. FixedItems = [p \in Keys |-> FixedItems[p]]
    BY <1>1, <2>6, FixEffect
  <2>10. QED
    BY <2>7, <2>8, <2>9
<1>2. IInv => FixIdempotent
  BY <1>1 DEF FixIdempotent
<1>3. QED
  BY <1>2, Always, PTL

(* After fix_inums_and_flags, get_insn finds each machine instruction that *)
(* another one follows, with all its instructions.                         *)
THEOREM FollowedAreFound == StorageSpec => []FollowedFoundWhole
<1>1. ASSUME IInv, fixed, NEW a \in Addrs, \E q \in Keys : q[1] > a
      PROVE  Walk(a) = InumsOf(a)
  <2> DEFINE S == InumsOf(a)
             ends == {i \in EndsOf(a) : \A j \in 0 .. i : j \in InumsOf(a)}
  <2>1. S \in SUBSET Nat /\ IsFiniteSet(S)
    BY <1>1, InumsFinite
  <2>2. \A i : i \in S <=> <<a, i>> \in Keys
    BY <1>1, InumsAre DEF IInv, Typed
  <2>3. CASE S = {}
    <3>1. EndsOf(a) = {}
      BY <2>3 DEF EndsOf
    <3>2. QED
      BY <2>3, <3>1 DEF Walk
  <2>4. CASE S # {}
    <3>1. PICK m \in S : \A i \in S : i <= m
      BY <2>1, <2>4, LargestBounds
    <3>2. m \in Nat /\ <<a, m>> \in Keys
      BY <2>1, <2>2
    <3>3. \A q \in Keys : q[1] = a => q[2] \in S
      <4>1. \A q \in Keys : q = <<q[1], q[2]>>
        BY <1>1 DEF IInv, Typed
      <4>2. QED
        BY <2>2, <4>1
    <3>4. GetsEnd(<<a, m>>)
      <4>1. <<a, m>>[1] = a /\ <<a, m>>[2] = m
        OBVIOUS
      <4>2. QED
        BY <1>1, <3>1, <3>2, <3>3, <4>1, GetsEndMeans
    <3>5. items[<<a, m>>].end
      BY <1>1, <3>2, <3>4 DEF IInv, EndsGiven
    <3>6. 0 .. m \subseteq S
      BY <1>1, <2>2, <3>2 DEF IInv, Packed
    <3>7. S = 0 .. m
      <4>1. ASSUME NEW i \in S
            PROVE  i \in 0 .. m
        <5>1. i \in Nat /\ i <= m
          BY <2>1, <3>1
        <5>2. QED
          BY <3>2, <5>1
      <4>2. QED
        BY <3>6, <4>1
    <3>8. ASSUME NEW i \in EndsOf(a)
          PROVE  i = m
      <4>1. i \in S /\ items[<<a, i>>].end
        BY <3>8 DEF EndsOf
      <4>2. m <= i
        BY <1>1, <2>2, <3>2, <4>1 DEF IInv, EndIsLast
      <4>3. QED
        BY <2>1, <3>1, <4>1, <4>2
    <3>9. ends = {m}
      BY <3>5, <3>6, <3>8 DEF EndsOf
    <3>10. (CHOOSE i \in ends : \A j \in ends : i <= j) = m
      BY <3>2, <3>9
    <3>11. Walk(a) = 0 .. m
      BY <3>9, <3>10 DEF Walk
    <3>12. QED
      BY <3>7, <3>11
  <2>5. QED
    BY <2>3, <2>4
<1>2. IInv => FollowedFoundWhole
  BY <1>1 DEF FollowedFoundWhole, FoundWhole
<1>3. QED
  BY <1>2, Always, PTL

(* fix_inums_and_flags moves the target of each jump that is not a call or *)
(* a return with the instruction it points to, as long as that one is      *)
(* still there.                                                            *)
THEOREM JumpsAreRelocated == StorageSpec => JumpsFollow
<1>1. ASSUME IInv, Fix, NEW p \in Jumps, items[p].jump \in Keys
      PROVE  PlaceOf(items', items[items[p].jump].id)
               = items'[PlaceOf(items', items[p].id)].jump
  <2>1. items' = FixedItems /\ p \in Keys /\ ~ items[p].frozen
    BY <1>1 DEF Fix, Jumps
  <2>2. ASSUME NEW r \in Keys
        PROVE  PlaceOf(items', items[r].id) = Relocated(r)
    <3>1. Relocated(r) \in DOMAIN items' /\ items'[Relocated(r)].id = items[r].id
      BY <1>1, <2>1, FixEffect
    <3>2. ASSUME NEW n \in DOMAIN items', items'[n].id = items[r].id
          PROVE  n = Relocated(r)
      <4>1. PICK q \in Keys : n = Relocated(q)
        BY <1>1, <2>1, FixEffect
      <4>2. items[q].id = items[r].id
        BY <1>1, <2>1, <3>2, <4>1, FixEffect
      <4>3. /\ q = <<q[1], q[2]>> /\ r = <<r[1], r[2]>> /\ q[1] = r[1]
            /\ q[2] \in Nat /\ r[2] \in Nat /\ items[r].id[2] \in Nat
        BY <1>1, <4>2 DEF IInv, Typed, AsTranslated, IRInsn
      <4>4. ~ q[2] < r[2] /\ ~ r[2] < q[2]
        BY <1>1, <4>2, <4>3 DEF IInv, OrderKept
      <4>5. QED
        BY <4>1, <4>3, <4>4
    <3>3. QED
      BY <3>1, <3>2 DEF PlaceOf
  <2>3. items'[Relocated(p)].jump = FixedJump(items[p])
    BY <1>1, <2>1, FixEffect
  <2>4. FixedJump(items[p]) = Relocated(items[p].jump)
    <3> DEFINE j == items[p].jump
    <3>1. CASE j \in Moved
      BY <2>1, <3>1 DEF FixedJump
    <3>2. CASE j \notin Moved
      <4>1. NewInum(j) = j[2] /\ j = <<j[1], j[2]>>
        BY <1>1, <3>2 DEF Moved, IInv, Typed
      <4>2. QED
        BY <3>2, <4>1 DEF FixedJump, Relocated
    <3>3. QED
      BY <3>1, <3>2
  <2>5. QED
    BY <1>1, <2>1, <2>2, <2>3, <2>4
<1>2. IInv => [Fix => \A p \in Jumps :
                items[p].jump \in Keys =>
                  PlaceOf(items', items[items[p].jump].id)
                    = items'[PlaceOf(items', items[p].id)].jump]_storageVars
  BY <1>1
<1>3. QED
  BY <1>2, Always, PTL DEF JumpsFollow
=============================================================================
