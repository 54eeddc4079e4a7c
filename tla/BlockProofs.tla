----------------------------- MODULE BlockProofs -----------------------------
(***************************************************************************)
(* Proofs about ReilCode: what _get_bb and get_bb answer, for all code the *)
(* translator can have made.                                               *)
(*                                                                         *)
(* The listing of _get_bb is a recursive definition over the addresses.    *)
(* Induction over the natural numbers is used in the form of a lemma about *)
(* sets (NaturalsByOne): a statement P(n) is put as the set of the n that  *)
(* satisfy it, so no lemma has an operator as a parameter.                 *)
(***************************************************************************)
EXTENDS ReilCode, SequenceTheorems, FiniteSetTheorems, TLAPS

(* Every set of natural numbers that is not empty has a least element. *)
LEMMA LeastNatural ==
  ASSUME NEW T \in SUBSET Nat, T # {}
  PROVE  \E m \in T : \A n \in T : m <= n
<1>1. PICK m \in T : \A n \in T : ~ (<<n, m>> \in OpToRel(<, Nat))
  BY NatLessThanWellFounded, WFMin
<1>2. \A n \in T : ~ (n < m)
  BY <1>1 DEF OpToRel
<1> QED
  BY <1>2

(* Induction: what holds of 0, and of n + 1 when it holds of n. *)
LEMMA NaturalsByOne ==
  ASSUME NEW T \in SUBSET Nat, 0 \in T, \A n \in T : n + 1 \in T
  PROVE  T = Nat
<1>1. SUFFICES ASSUME Nat \ T # {} PROVE FALSE
  OBVIOUS
<1>2. PICK m \in Nat \ T : \A n \in Nat \ T : m <= n
  <2>1. Nat \ T \in SUBSET Nat
    OBVIOUS
  <2> QED
    BY <1>1, <2>1, LeastNatural
<1>3. m # 0 /\ m - 1 \in Nat /\ (m - 1) + 1 = m
  BY <1>2
<1>4. m - 1 \in T
  BY <1>2, <1>3
<1> QED
  BY <1>2, <1>3, <1>4

(* Induction up to a bound. *)
LEMMA UpTo ==
  ASSUME NEW n \in Nat, NEW G, 0 \in G, \A k \in 0 .. n - 1 : k \in G => k + 1 \in G
  PROVE  n \in G
<1> DEFINE T == {k \in Nat : k <= n => k \in G}
<1>1. 0 \in T
  OBVIOUS
<1>2. ASSUME NEW k \in T PROVE k + 1 \in T
  <2>1. SUFFICES ASSUME k + 1 <= n PROVE k + 1 \in G
    OBVIOUS
  <2>2. k \in 0 .. n - 1 /\ k <= n
    BY <2>1
  <2> QED
    BY <2>2
<1>3. T = Nat
  <2> HIDE DEF T
  <2> QED
    BY <1>1, <1>2, NaturalsByOne DEF T
<1> QED
  BY <1>3

(* What a recursive definition over 0 .. n rests on: a step can be applied *)
(* to its own result that many times.                                      *)
IsStep(S, n, g) == g \in [(1 .. n) \X S -> S]
Iterates(S, x, n, g, f) == f \in [0 .. n -> S] /\ f[0] = x /\ \A k \in 1 .. n : f[k] = g[<<k, f[k - 1]>>]

LEMMA Iteration ==
  ASSUME NEW S, NEW x, NEW n, NEW g, x \in S, n \in Nat, IsStep(S, n, g)
  PROVE  \E f : Iterates(S, x, n, g, f)
<1> USE DEF IsStep
<1> DEFINE Upto(m, f) == f \in [0 .. m -> S] /\ f[0] = x /\ \A k \in 1 .. m : f[k] = g[<<k, f[k - 1]>>]
           T == {m \in Nat : m <= n => \E f : Upto(m, f)}
<1>1. 0 \in T
  <2>1. Upto(0, [k \in 0 .. 0 |-> x])
    OBVIOUS
  <2> HIDE DEF Upto
  <2> QED
    BY <2>1
<1>2. ASSUME NEW m \in T PROVE m + 1 \in T
  <2>1. SUFFICES ASSUME m + 1 <= n PROVE \E f : Upto(m + 1, f)
    OBVIOUS
  <2>2. m \in Nat /\ m <= n
    BY <2>1
  <2>3. PICK f : Upto(m, f)
    <3> HIDE DEF Upto
    <3> QED
      BY <2>2
  <2>4. f[m] \in S /\ m + 1 \in 1 .. n
    BY <2>1, <2>2, <2>3
  <2>5. g[<<m + 1, f[m]>>] \in S
    BY <2>4
  <2> DEFINE e == [k \in 0 .. (m + 1) |-> IF k = m + 1 THEN g[<<m + 1, f[m]>>] ELSE f[k]]
  <2>6. e \in [0 .. (m + 1) -> S]
    <3>1. \A k \in 0 .. (m + 1) : k # m + 1 => k \in 0 .. m
      BY <2>2
    <3> QED
      BY <2>3, <2>5, <3>1
  <2>7. e[0] = x
    BY <2>2, <2>3
  <2>8. ASSUME NEW k \in 1 .. (m + 1) PROVE e[k] = g[<<k, e[k - 1]>>]
    <3>1. CASE k = m + 1
      <4>1. e[k] = g[<<m + 1, f[m]>>] /\ e[m] = f[m] /\ k - 1 = m
        BY <2>2, <3>1
      <4> HIDE DEF e
      <4> QED
        BY <3>1, <4>1
    <3>2. CASE k # m + 1
      <4>1. k \in 1 .. m /\ k - 1 \in 0 .. m /\ k - 1 # m + 1 /\ k \in 0 .. m + 1 /\ k - 1 \in 0 .. m + 1
        BY <2>2, <3>2
      <4>2. e[k] = f[k] /\ e[k - 1] = f[k - 1]
        BY <3>2, <4>1
      <4> QED
        BY <2>3, <4>1, <4>2
    <3> QED
      BY <3>1, <3>2
  <2>9. Upto(m + 1, e)
    <3> HIDE DEF e
    <3> QED
      BY <2>6, <2>7, <2>8
  <2> HIDE DEF Upto
  <2> QED
    BY <2>9
<1>3. T = Nat
  <2> HIDE DEF T
  <2> QED
    BY <1>1, <1>2, NaturalsByOne DEF T
<1>4. \E f : Upto(n, f)
  <2> HIDE DEF Upto
  <2> QED
    BY <1>3
<1> QED
  BY <1>4 DEF Iterates

(* A finite set of addresses has a last one. *)
LEMMA MaxOfFinite ==
  ASSUME NEW S \in SUBSET Nat, S # {}, IsFiniteSet(S)
  PROVE  MaxOf(S) \in S /\ \A n \in S : n <= MaxOf(S)
<1>1. PICK n \in Nat : ExistsSurjection(1 .. n, S)
  BY FS_NatSurjection
<1>2. PICK f \in [1 .. n -> S] : \A s \in S : \E i \in 1 .. n : f[i] = s
  BY <1>1 DEF ExistsSurjection, Surjection
<1> DEFINE T == {k \in Nat : k \in 1 .. n => \E m \in S : \A i \in 1 .. k : f[i] <= m}
<1>3. 0 \in T /\ \A i \in 1 .. n : f[i] \in S /\ f[i] \in Nat
  <2>1. 0 \in T
    OBVIOUS
  <2>2. \A i \in 1 .. n : f[i] \in S
    BY <1>2
  <2> HIDE DEF T
  <2> QED
    BY <2>1, <2>2
<1>4. ASSUME NEW k \in T PROVE k + 1 \in T
  <2>1. SUFFICES ASSUME k + 1 \in 1 .. n PROVE \E m \in S : \A i \in 1 .. k + 1 : f[i] <= m
    OBVIOUS
  <2>2. f[k + 1] \in S /\ f[k + 1] \in Nat
    BY <1>3, <2>1
  <2>3. CASE k = 0
    <3>1. \A i \in 1 .. k + 1 : f[i] <= f[k + 1]
      <4>1. \A i \in 1 .. k + 1 : i = k + 1
        BY <2>3
      <4> QED
        BY <2>2, <4>1
    <3> QED
      BY <2>2, <3>1
  <2>4. CASE k # 0
    <3>1. PICK m \in S : \A i \in 1 .. k : f[i] <= m
      BY <2>1, <2>4
    <3>2. \A i \in 1 .. k + 1 : i = k + 1 \/ i \in 1 .. k
      OBVIOUS
    <3>3. CASE f[k + 1] <= m
      BY <3>1, <3>2, <3>3
    <3>4. CASE ~ (f[k + 1] <= m)
      <4>1. ASSUME NEW i \in 1 .. k PROVE f[i] <= f[k + 1]
        <5>1. f[i] \in Nat /\ f[i] <= m /\ m \in Nat
          BY <1>3, <2>1, <3>1
        <5> QED
          BY <2>2, <3>4, <5>1
      <4>2. \A i \in 1 .. k + 1 : f[i] <= f[k + 1]
        BY <2>2, <3>2, <4>1
      <4> QED
        BY <2>2, <4>2
    <3> QED
      BY <3>3, <3>4
  <2> QED
    BY <2>3, <2>4
<1>5. T = Nat
  <2> HIDE DEF T
  <2> QED
    BY <1>3, <1>4, NaturalsByOne DEF T
<1>6. n # 0
  <2>1. PICK s \in S : TRUE
    OBVIOUS
  <2>2. PICK i \in 1 .. n : f[i] = s
    BY <1>2
  <2> QED
    BY <2>2
<1>7. \E m \in S : \A i \in 1 .. n : f[i] <= m
  BY <1>5, <1>6
<1>8. \E m \in S : \A s \in S : s <= m
  BY <1>2, <1>7
<1> QED
  BY <1>8 DEF MaxOf

(* The elements of a sequence. *)
Elems(s) == {s[k] : k \in DOMAIN s}

(* What pop takes from a stack, and what it leaves. *)
LEMMA PopLeavesTheRest ==
  ASSUME NEW S, NEW s \in Seq(S), s # << >>
  PROVE  /\ Last(s) \in S
         /\ Front(s) \in Seq(S)
         /\ Elems(s) = {Last(s)} \cup Elems(Front(s))
<1>1. Len(s) \in Nat /\ Len(s) > 0 /\ Last(s) = s[Len(s)] /\ Last(s) \in S
  BY DEF Last
<1>2. /\ Front(s) \in Seq(S)
      /\ Len(Front(s)) = Len(s) - 1
      /\ \A k \in 1 .. (Len(s) - 1) : Front(s)[k] = s[k]
  <2>1. \A k \in 1 .. (Len(s) - 1) : s[k] \in S
    BY <1>1, ElementOfSeq
  <2>2. Front(s) = SubSeq(s, 1, Len(s) - 1)
    BY DEF Front
  <2>3. 1 \in Int /\ Len(s) - 1 \in Int
    BY <1>1
  <2>4. /\ Front(s) \in Seq(S)
        /\ Len(Front(s)) = IF 1 <= Len(s) - 1 THEN Len(s) - 1 - 1 + 1 ELSE 0
        /\ \A i \in 1 .. (Len(s) - 1 - 1 + 1) : Front(s)[i] = s[1 + i - 1]
    BY <2>1, <2>2, <2>3, SubSeqProperties
  <2>5. Len(s) - 1 - 1 + 1 = Len(s) - 1
    BY <1>1
  <2>6. Len(Front(s)) = Len(s) - 1
    <3>1. ~(1 <= Len(s) - 1) => Len(s) - 1 = 0
      BY <1>1, SMTT(30)
    <3> QED
      BY <2>4, <2>5, <3>1
  <2>7. ASSUME NEW k \in 1 .. (Len(s) - 1) PROVE Front(s)[k] = s[k]
    <3>1. 1 + k - 1 = k
      OBVIOUS
    <3> QED
      BY <2>4, <2>5, <3>1
  <2> QED
    BY <2>4, <2>6, <2>7
<1>3. DOMAIN s = 1 .. Len(s) /\ DOMAIN Front(s) = 1 .. (Len(s) - 1)
  BY <1>1, <1>2
<1>4. \A k \in 1 .. Len(s) : k = Len(s) \/ k \in 1 .. (Len(s) - 1)
  BY <1>1
<1>5. Elems(s) \subseteq {Last(s)} \cup Elems(Front(s))
  BY <1>1, <1>2, <1>3, <1>4 DEF Elems
<1>6. Elems(Front(s)) \subseteq Elems(s) /\ Last(s) \in Elems(s)
  BY <1>1, <1>2, <1>3 DEF Elems
<1> QED
  BY <1>1, <1>2, <1>5, <1>6

(* What is pushed is what was there and what is new. *)
LEMMA ConcatElems ==
  ASSUME NEW S, NEW s \in Seq(S), NEW t \in Seq(S)
  PROVE  s \o t \in Seq(S) /\ Elems(s \o t) = Elems(s) \cup Elems(t)
<1>1. /\ s \o t \in Seq(S)
      /\ Len(s \o t) = Len(s) + Len(t)
      /\ \A k \in 1 .. Len(s) : (s \o t)[k] = s[k]
      /\ \A k \in 1 .. Len(t) : (s \o t)[Len(s) + k] = t[k]
  OBVIOUS
<1>2. DOMAIN s = 1 .. Len(s) /\ DOMAIN t = 1 .. Len(t) /\ DOMAIN (s \o t) = 1 .. Len(s \o t)
  BY <1>1
<1>3. \A k \in 1 .. Len(s \o t) : k \in 1 .. Len(s) \/ k - Len(s) \in 1 .. Len(t)
  BY <1>1
<1>4. \A k \in 1 .. Len(s \o t) : k \in 1 .. Len(s) \/ (s \o t)[k] = t[k - Len(s)]
  BY <1>1, <1>3
<1>5. Elems(s \o t) \subseteq Elems(s) \cup Elems(t)
  BY <1>1, <1>2, <1>3, <1>4 DEF Elems
<1>6. Elems(s) \subseteq Elems(s \o t)
  BY <1>1, <1>2 DEF Elems
<1>7. \A k \in 1 .. Len(t) : Len(s) + k \in 1 .. Len(s \o t)
  BY <1>1
<1>8. Elems(t) \subseteq Elems(s \o t)
  BY <1>1, <1>2, <1>7 DEF Elems
<1> QED
  BY <1>1, <1>5, <1>6, <1>8

-----------------------------------------------------------------------------
LEMMA CodeFacts ==
  ASSUME NEW c, IsCode(c)
  PROVE  /\ MaxOf(DOMAIN c) \in DOMAIN c
         /\ \A a \in DOMAIN c : /\ a \in 0 .. MaxOf(DOMAIN c) /\ a \in Nat
                                /\ NextAsm(c, a) \in Nat /\ NextAsm(c, a) > a
<1>1. DOMAIN c \in SUBSET Nat /\ DOMAIN c # {} /\ IsFiniteSet(DOMAIN c)
  BY DEF IsCode
<1>2. MaxOf(DOMAIN c) \in DOMAIN c /\ \A n \in DOMAIN c : n <= MaxOf(DOMAIN c)
  BY <1>1, MaxOfFinite
<1>3. ASSUME NEW a \in DOMAIN c
      PROVE  /\ a \in 0 .. MaxOf(DOMAIN c) /\ a \in Nat
             /\ NextAsm(c, a) \in Nat /\ NextAsm(c, a) > a
  <2>1. a \in Nat /\ MaxOf(DOMAIN c) \in Nat /\ c[a].size \in Nat \ {0}
    BY <1>1, <1>2 DEF IsCode, IsTranslation
  <2> QED
    BY <1>2, <2>1 DEF NextAsm
<1> QED
  BY <1>2, <1>3

(* The recursion of _get_bb: the machine instructions of an address, then  *)
(* the listing of the next one, unless a block ends.                       *)
LEMMA ListingUnfolds ==
  ASSUME NEW c, IsCode(c), NEW thumb, NEW addr \in DOMAIN c
  PROVE  Listing(c, thumb, addr) =
           IF EndsAsmBlock(c, thumb, addr) THEN InsnList(c, addr)
           ELSE IF Listing(c, thumb, NextAsm(c, addr)) = << >> THEN << >>
           ELSE InsnList(c, addr) \o Listing(c, thumb, NextAsm(c, addr))
<1> DEFINE M == MaxOf(DOMAIN c)
           Body(h, a) ==
             IF a \notin DOMAIN c THEN << >>
             ELSE IF EndsAsmBlock(c, thumb, a) THEN InsnList(c, a)
             ELSE IF NextAsm(c, a) > M \/ h[NextAsm(c, a)] = << >> THEN << >>
             ELSE InsnList(c, a) \o h[NextAsm(c, a)]
           R == CHOOSE h : h = [a \in 0 .. M |-> Body(h, a)]
           From(k, h) == h = [a \in k .. M |-> Body(h, a)]
           T == {n \in Nat : n <= M + 1 => \E h : From(M + 1 - n, h)}
<1>1. \A a : Listing(c, thumb, a) = IF a \in DOMAIN c THEN R[a] ELSE << >>
  BY DEF Listing
<1>2. /\ M \in Nat
      /\ \A a \in DOMAIN c : /\ a \in 0 .. M /\ a \in Nat
                             /\ NextAsm(c, a) \in Nat /\ NextAsm(c, a) > a
  BY CodeFacts
<1> HIDE DEF M
<1>3. 0 \in T
  <2>1. From(M + 1, [a \in (M + 1) .. M |-> 0])
    <3>1. (M + 1) .. M = {}
      BY <1>2
    <3> HIDE DEF Body
    <3> QED
      BY <3>1
  <2>2. M + 1 - 0 = M + 1
    BY <1>2
  <2> HIDE DEF From
  <2> QED
    BY <2>1, <2>2
<1>4. ASSUME NEW n \in T PROVE n + 1 \in T
  <2>1. SUFFICES ASSUME n + 1 <= M + 1 PROVE \E h : From(M + 1 - (n + 1), h)
    OBVIOUS
  <2> DEFINE k == M + 1 - n
  <2>2. n \in Nat /\ k \in Nat /\ k >= 1 /\ M + 1 - (n + 1) = k - 1 /\ n <= M + 1
    BY <1>2, <2>1
  <2>3. PICK h : From(k, h)
    <3> HIDE DEF From
    <3> QED
      BY <2>2
  <2> HIDE DEF k
  <2> DEFINE e == [a \in (k - 1) .. M |-> IF a = k - 1 THEN Body(h, a) ELSE h[a]]
  <2>4. ASSUME NEW a \in (k - 1) .. M PROVE Body(e, a) = Body(h, a)
    <3>1. CASE a \in DOMAIN c /\ NextAsm(c, a) <= M
      <4>1. NextAsm(c, a) \in (k - 1) .. M /\ NextAsm(c, a) # k - 1
        BY <1>2, <2>2, <3>1
      <4>2. e[NextAsm(c, a)] = h[NextAsm(c, a)]
        <5> HIDE DEF Body
        <5> QED
          BY <4>1
      <4> HIDE DEF e
      <4> QED
        BY <4>2
    <3>2. CASE a \in DOMAIN c /\ ~ (NextAsm(c, a) <= M)
      <4>1. NextAsm(c, a) > M
        BY <1>2, <3>2
      <4> HIDE DEF e
      <4> QED
        BY <4>1
    <3>3. CASE a \notin DOMAIN c
      BY <3>3
    <3> QED
      BY <3>1, <3>2, <3>3
  <2>5. \A a \in k .. M : h[a] = Body(h, a)
    <3> HIDE DEF Body
    <3> QED
      BY <2>3
  <2>6. ASSUME NEW a \in (k - 1) .. M PROVE e[a] = Body(e, a)
    <3>1. e[a] = IF a = k - 1 THEN Body(h, a) ELSE h[a]
      <4> HIDE DEF Body
      <4> QED
        OBVIOUS
    <3>2. a # k - 1 => a \in k .. M
      BY <2>2
    <3> HIDE DEF e, Body
    <3> QED
      BY <2>4, <2>5, <3>1, <3>2
  <2>7. From(k - 1, e)
    <3>1. e = [a \in (k - 1) .. M |-> e[a]]
      <4> HIDE DEF Body
      <4> QED
        OBVIOUS
    <3> HIDE DEF e, Body
    <3> QED
      BY <2>6, <3>1
  <2> HIDE DEF From, e
  <2> QED
    BY <2>2, <2>7
<1>5. T = Nat
  <2> HIDE DEF T
  <2> QED
    BY <1>3, <1>4, NaturalsByOne DEF T
<1>6. R = [a \in 0 .. M |-> Body(R, a)]
  <2>1. M + 1 \in T /\ M + 1 <= M + 1 /\ M + 1 - (M + 1) = 0
    <3> HIDE DEF T
    <3> QED
      BY <1>2, <1>5
  <2>2. \E h : From(0, h)
    <3> HIDE DEF From
    <3> QED
      BY <2>1
  <2>3. \E h : h = [a \in 0 .. M |-> Body(h, a)]
    <3> HIDE DEF Body
    <3> QED
      BY <2>2
  <2> HIDE DEF Body
  <2> QED
    BY <2>3
<1>7. \A a \in 0 .. M : R[a] = Body(R, a)
  <2> HIDE DEF Body, R
  <2> QED
    BY <1>6
<1>8. Listing(c, thumb, addr) = Body(R, addr)
  <2> HIDE DEF Body, R
  <2> QED
    BY <1>1, <1>2, <1>7
<1>9. CASE NextAsm(c, addr) > M
  <2>1. NextAsm(c, addr) \notin DOMAIN c
    BY <1>2, <1>9
  <2>2. Listing(c, thumb, NextAsm(c, addr)) = << >>
    <3> HIDE DEF R
    <3> QED
      BY <1>1, <2>1
  <2> HIDE DEF R
  <2> QED
    BY <1>8, <1>9, <2>2
<1>10. CASE ~ (NextAsm(c, addr) > M)
  <2>1. NextAsm(c, addr) \in 0 .. M
    BY <1>2, <1>10
  <2>2. NextAsm(c, addr) \notin DOMAIN c => R[NextAsm(c, addr)] = << >>
    <3> HIDE DEF R
    <3> QED
      BY <1>7, <2>1
  <2>3. Listing(c, thumb, NextAsm(c, addr)) = R[NextAsm(c, addr)]
    <3> HIDE DEF R
    <3> QED
      BY <1>1, <2>2
  <2> HIDE DEF R
  <2> QED
    BY <1>8, <1>10, <2>3
<1> QED
  BY <1>9, <1>10

(* Induction over the addresses, from the last one down. *)
LEMMA AddressesDown ==
  ASSUME NEW c, IsCode(c), NEW T \in SUBSET DOMAIN c,
         \A a \in DOMAIN c : (NextAsm(c, a) \in DOMAIN c => NextAsm(c, a) \in T) => a \in T
  PROVE  T = DOMAIN c
<1> DEFINE M == MaxOf(DOMAIN c)
           D == {M - a : a \in DOMAIN c \ T}
<1>1. SUFFICES ASSUME DOMAIN c \ T # {} PROVE FALSE
  OBVIOUS
<1>2. /\ M \in Nat
      /\ \A a \in DOMAIN c : /\ a \in 0 .. M /\ a \in Nat
                             /\ NextAsm(c, a) \in Nat /\ NextAsm(c, a) > a
  BY CodeFacts
<1> HIDE DEF M
<1>3. D \in SUBSET Nat /\ D # {}
  BY <1>1, <1>2
<1>4. PICK d \in D : \A x \in D : d <= x
  BY <1>3, LeastNatural
<1>5. PICK a \in DOMAIN c \ T : d = M - a
  BY <1>4
<1>6. NextAsm(c, a) \in DOMAIN c /\ NextAsm(c, a) \notin T
  BY <1>5
<1>7. M - NextAsm(c, a) \in D
  BY <1>6
<1>8. d <= M - NextAsm(c, a)
  BY <1>4, <1>7
<1> QED
  BY <1>2, <1>5, <1>6, <1>8

-----------------------------------------------------------------------------
(* The instruction that follows in the listing. *)
After(c, ir) ==
  IF IsPosition(c, <<ir[1], ir[2] + 1>>) THEN <<ir[1], ir[2] + 1>> ELSE <<NextAsm(c, ir[1]), 0>>

LEMMA PositionsOfCode ==
  ASSUME NEW c, IsCode(c)
  PROVE  /\ \A a \in DOMAIN c :
              /\ Len(c[a].ir) \in Nat \ {0} /\ DOMAIN c[a].ir = 1 .. Len(c[a].ir)
              /\ \A i \in 0 .. Len(c[a].ir) - 1 : <<a, i>> \in Positions(c)
         /\ \A p \in Positions(c) :
              /\ p = <<p[1], p[2]>> /\ p[1] \in DOMAIN c /\ p[2] \in Nat
              /\ p[2] \in 0 .. Len(c[p[1]].ir) - 1 /\ IsPosition(c, p)
<1>1. ASSUME NEW a \in DOMAIN c
      PROVE  /\ Len(c[a].ir) \in Nat \ {0} /\ DOMAIN c[a].ir = 1 .. Len(c[a].ir)
             /\ \A i \in 0 .. Len(c[a].ir) - 1 : <<a, i>> \in Positions(c)
  <2>1. c[a].ir # << >> /\ c[a].ir \in Seq({c[a].ir[i] : i \in DOMAIN c[a].ir})
    BY DEF IsCode, IsTranslation
  <2>2. Len(c[a].ir) \in Nat \ {0} /\ DOMAIN c[a].ir = 1 .. Len(c[a].ir)
    BY <2>1, EmptySeq, LenProperties
  <2> QED
    BY <2>2 DEF Positions
<1>2. ASSUME NEW p \in Positions(c)
      PROVE  /\ p = <<p[1], p[2]>> /\ p[1] \in DOMAIN c /\ p[2] \in Nat
             /\ p[2] \in 0 .. Len(c[p[1]].ir) - 1 /\ IsPosition(c, p)
  <2>1. PICK a \in DOMAIN c : \E i \in 0 .. Len(c[a].ir) - 1 : p = <<a, i>>
    BY DEF Positions
  <2>2. PICK i \in 0 .. Len(c[a].ir) - 1 : p = <<a, i>>
    BY <2>1
  <2> QED
    BY <1>1, <2>2 DEF IsPosition
<1> QED
  BY <1>1, <1>2

(* Code has finitely many instructions, and one at least. *)
LEMMA PositionsFinite ==
  ASSUME NEW c, IsCode(c)
  PROVE  /\ IsFiniteSet(Positions(c)) /\ Cardinality(Positions(c)) \in Nat \ {0}
<1> DEFINE Row(a) == {<<a, i>> : i \in 0 .. (Len(c[a].ir) - 1)}
           rows == {Row(a) : a \in DOMAIN c}
<1>1. ASSUME NEW a \in DOMAIN c PROVE IsFiniteSet(Row(a))
  <2>1. PICK n \in Int : n = Len(c[a].ir) - 1
    BY PositionsOfCode
  <2>2. PICK f : f = [i \in 0 .. n |-> <<a, i>>]
    OBVIOUS
  <2>3. f \in Surjection(0 .. n, Row(a))
    <3>1. f \in [0 .. n -> Row(a)]
      BY <2>1, <2>2
    <3>2. \A t \in Row(a) : \E i \in 0 .. n : f[i] = t
      BY <2>1, <2>2
    <3> QED
      BY <3>1, <3>2 DEF Surjection
  <2>4. IsFiniteSet(0 .. n)
    BY FS_Interval
  <2> HIDE DEF Row
  <2> QED
    BY <2>3, <2>4, FS_Surjection
<1>2. IsFiniteSet(rows)
  <2>1. PICK f : f = [a \in DOMAIN c |-> Row(a)]
    OBVIOUS
  <2>2. f \in Surjection(DOMAIN c, rows)
    <3> HIDE DEF Row
    <3> QED
      BY <2>1 DEF Surjection
  <2>3. IsFiniteSet(DOMAIN c)
    BY DEF IsCode
  <2> HIDE DEF rows
  <2> QED
    BY <2>2, <2>3, FS_Surjection
<1>3. \A T \in rows : IsFiniteSet(T)
  <2> HIDE DEF Row
  <2> QED
    BY <1>1
<1>4. IsFiniteSet(Positions(c))
  <2>1. Positions(c) = UNION rows
    BY DEF Positions
  <2> HIDE DEF rows
  <2> QED
    BY <1>2, <1>3, <2>1, FS_UNION
<1>5. Positions(c) # {}
  <2>1. PICK a \in DOMAIN c : TRUE
    BY DEF IsCode
  <2>2. <<a, 0>> \in Positions(c)
    <3>1. 0 \in 0 .. (Len(c[a].ir) - 1)
      BY PositionsOfCode
    <3> QED
      BY <3>1, PositionsOfCode
  <2> QED
    BY <2>2
<1> QED
  BY <1>4, <1>5, FS_CardinalityType, FS_EmptySet

LEMMA InsnListOfCode ==
  ASSUME NEW c, IsCode(c), NEW a \in DOMAIN c
  PROVE  /\ InsnList(c, a) \in Seq(Positions(c))
         /\ Len(InsnList(c, a)) = Len(c[a].ir)
         /\ \A i \in 1 .. Len(c[a].ir) : InsnList(c, a)[i] = <<a, i - 1>>
<1> DEFINE n == Len(c[a].ir)
<1>1. n \in Nat /\ DOMAIN c[a].ir = 1 .. n /\ \A i \in 0 .. n - 1 : <<a, i>> \in Positions(c)
  BY PositionsOfCode
<1>2. InsnList(c, a) = [i \in 1 .. n |-> <<a, i - 1>>]
  BY <1>1 DEF InsnList
<1> HIDE DEF n
<1>3. \A i \in 1 .. n : <<a, i - 1>> \in Positions(c)
  BY <1>1
<1>4. InsnList(c, a) \in [1 .. n -> Positions(c)]
  BY <1>2, <1>3
<1>5. InsnList(c, a) \in Seq(Positions(c)) /\ Len(InsnList(c, a)) = n
  BY <1>1, <1>4
<1> QED
  BY <1>2, <1>5 DEF n

LEMMA ConcatParts ==
  ASSUME NEW S, NEW s \in Seq(S), NEW t \in Seq(S), NEW u, u = s \o t
  PROVE  /\ u \in Seq(S) /\ Len(u) = Len(s) + Len(t)
         /\ Len(s) \in Nat /\ Len(t) \in Nat /\ Len(u) \in Nat
         /\ \A k \in 1 .. Len(s) : u[k] = s[k]
         /\ \A k \in 1 .. Len(t) : u[Len(s) + k] = t[k]
OBVIOUS

(* What a listing is: it starts with the machine instruction asked for,    *)
(* goes on from instruction to instruction, and ends with the end of a     *)
(* machine instruction that ends a block; and from each of its places on   *)
(* it is the listing of the machine instruction that place is in.          *)
IsListing(c, thumb, a, list) ==
  /\ list \in Seq(Positions(c))
  /\ Len(list) >= Len(c[a].ir)
  /\ \A i \in 1 .. Len(c[a].ir) : list[i] = <<a, i - 1>>
  /\ \A k \in 1 .. Len(list) - 1 : list[k + 1] = After(c, list[k])
  /\ LET e == list[Len(list)]
     IN  EndsAsmBlock(c, thumb, e[1]) /\ e[2] = Len(c[e[1]].ir) - 1

RestIsListing(c, thumb, list) ==
  \A k \in 1 .. Len(list) :
    LET rest == Listing(c, thumb, list[k][1])
        skip == k - 1 - list[k][2]
    IN  /\ skip \in Nat /\ Len(rest) = Len(list) - skip
        /\ \A m \in 1 .. Len(rest) : rest[m] = list[m + skip]

LEMMA ListingIs ==
  ASSUME NEW c, IsCode(c), NEW thumb, NEW a \in DOMAIN c, Listing(c, thumb, a) # << >>
  PROVE  /\ IsListing(c, thumb, a, Listing(c, thumb, a))
         /\ RestIsListing(c, thumb, Listing(c, thumb, a))
<1> DEFINE L(x) == Listing(c, thumb, x)
           Good(x) == L(x) # << >> => IsListing(c, thumb, x, L(x)) /\ RestIsListing(c, thumb, L(x))
           T == {x \in DOMAIN c : Good(x)}
<1>1. ASSUME NEW x \in DOMAIN c, NextAsm(c, x) \in DOMAIN c => NextAsm(c, x) \in T, L(x) # << >>
      PROVE  IsListing(c, thumb, x, L(x)) /\ RestIsListing(c, thumb, L(x))
  <2> DEFINE n == Len(c[x].ir)
             y == NextAsm(c, x)
             head == InsnList(c, x)
  <2>1. /\ n \in Nat \ {0} /\ head \in Seq(Positions(c)) /\ Len(head) = n
        /\ \A i \in 1 .. n : head[i] = <<x, i - 1>>
        /\ \A i \in 0 .. n - 1 : <<x, i>> \in Positions(c)
    BY PositionsOfCode, InsnListOfCode
  <2>2. \A i \in 1 .. n - 1 : head[i + 1] = After(c, head[i])
    <3>1. ASSUME NEW i \in 1 .. n - 1 PROVE head[i + 1] = After(c, head[i])
      <4>1. head[i] = <<x, i - 1>> /\ head[i + 1] = <<x, (i + 1) - 1>>
        BY <2>1
      <4>2. IsPosition(c, <<x, i>>) /\ (i - 1) + 1 = i /\ (i + 1) - 1 = i
        BY <2>1 DEF IsPosition
      <4>3. After(c, <<x, i - 1>>) = <<x, i>>
        BY <4>2 DEF After
      <4> QED
        BY <4>1, <4>2, <4>3
    <3> QED
      BY <3>1
  <2>3. After(c, <<x, n - 1>>) = <<y, 0>>
    BY <2>1 DEF After, IsPosition
  <2>4. CASE EndsAsmBlock(c, thumb, x)
    <3>1. L(x) = head
      BY <2>4, ListingUnfolds
    <3>2. head[n] = <<x, n - 1>>
      BY <2>1
    <3>3. IsListing(c, thumb, x, head)
      <4> HIDE DEF n, head
      <4> QED
        BY <2>1, <2>2, <2>4, <3>2 DEF IsListing, n
    <3>4. RestIsListing(c, thumb, head)
      <4>1. ASSUME NEW k \in 1 .. Len(head)
            PROVE  L(head[k][1]) = head /\ k - 1 - head[k][2] = 0
        BY <2>1, <3>1
      <4> HIDE DEF head, n
      <4>2. ASSUME NEW k \in 1 .. Len(head)
            PROVE  LET rest == L(head[k][1])
                       skip == k - 1 - head[k][2]
                   IN  /\ skip \in Nat /\ Len(rest) = Len(head) - skip
                       /\ \A m \in 1 .. Len(rest) : rest[m] = head[m + skip]
        <5>1. \A m \in 1 .. Len(head) : m + 0 = m
          BY <2>1
        <5>2. Len(head) - 0 = Len(head)
          BY <2>1
        <5> HIDE DEF L
        <5> QED
          BY <4>1, <5>1, <5>2
      <4> QED
        BY <4>2 DEF RestIsListing
    <3> QED
      BY <3>1, <3>3, <3>4
  <2>5. CASE ~ EndsAsmBlock(c, thumb, x)
    <3> DEFINE tail == L(y)
    <3>1. L(x) = head \o tail /\ tail # << >>
      BY <1>1, <2>5, ListingUnfolds
    <3>2. y \in DOMAIN c
      BY <3>1 DEF Listing
    <3>3. IsListing(c, thumb, y, tail) /\ RestIsListing(c, thumb, tail)
      BY <1>1, <3>1, <3>2
    <3>4. Len(c[y].ir) \in Nat \ {0}
      BY <3>2, PositionsOfCode
    <3> HIDE DEF head, tail, n
    <3>5. /\ tail \in Seq(Positions(c)) /\ Len(tail) \in Nat \ {0} /\ tail[1] = <<y, 0>>
      BY <3>3, <3>4 DEF IsListing
    <3>L. PICK list : list = head \o tail
      OBVIOUS
    <3>6. /\ list \in Seq(Positions(c)) /\ Len(list) = n + Len(tail) /\ Len(list) \in Nat
          /\ \A k \in 1 .. n : list[k] = head[k]
          /\ \A k \in 1 .. Len(tail) : list[n + k] = tail[k]
      <4>1. head \in Seq(Positions(c)) /\ tail \in Seq(Positions(c)) /\ Len(head) = n
        BY <2>1, <3>5
      <4>2. /\ list \in Seq(Positions(c)) /\ Len(list) = Len(head) + Len(tail)
            /\ Len(list) \in Nat
            /\ \A k \in 1 .. Len(head) : list[k] = head[k]
            /\ \A k \in 1 .. Len(tail) : list[Len(head) + k] = tail[k]
        BY <3>L, <4>1, ConcatParts
      <4> QED
        BY <4>1, <4>2
    <3>7. ASSUME NEW k \in 1 .. Len(list), k \notin 1 .. n
          PROVE  k - n \in 1 .. Len(tail) /\ n + (k - n) = k
      <4>1. n \in Nat /\ Len(tail) \in Nat /\ Len(list) = n + Len(tail)
        BY <2>1, <3>5, <3>6
      <4> QED
        BY <3>7, <4>1
    <3>8. \A k \in 1 .. Len(list) - 1 : list[k + 1] = After(c, list[k])
      <4>1. ASSUME NEW k \in 1 .. n - 1 PROVE list[k + 1] = After(c, list[k])
        BY <2>1, <2>2, <3>6
      <4>2. list[n + 1] = After(c, list[n])
        <5>1. list[n] = <<x, n - 1>> /\ list[n + 1] = tail[1]
          BY <2>1, <3>5, <3>6
        <5> QED
          BY <2>3, <3>5, <5>1
      <4>3. ASSUME NEW k \in 1 .. Len(tail) - 1 PROVE list[(n + k) + 1] = After(c, list[n + k])
        <5>1. list[n + k] = tail[k] /\ list[n + (k + 1)] = tail[k + 1] /\ n + (k + 1) = (n + k) + 1
          BY <2>1, <3>5, <3>6
        <5>2. tail[k + 1] = After(c, tail[k])
          BY <3>3 DEF IsListing
        <5> QED
          BY <5>1, <5>2
      <4>4. ASSUME NEW k \in 1 .. Len(list) - 1
            PROVE  k \in 1 .. n - 1 \/ k = n \/ (k - n \in 1 .. Len(tail) - 1 /\ n + (k - n) = k)
        BY <2>1, <3>5, <3>6
      <4> QED
        BY <4>1, <4>2, <4>3, <4>4
    <3>9. list[Len(list)] = tail[Len(tail)]
      BY <3>5, <3>6
    <3>10. IsListing(c, thumb, x, list)
      <4>1. Len(list) >= n /\ \A i \in 1 .. n : list[i] = <<x, i - 1>>
        BY <2>1, <3>5, <3>6
      <4> QED
        BY <3>3, <3>6, <3>8, <3>9, <4>1 DEF IsListing, n
    <3>11. RestIsListing(c, thumb, list)
      <4>1. ASSUME NEW k \in 1 .. n
            PROVE  L(list[k][1]) = list /\ k - 1 - list[k][2] = 0
        BY <2>1, <3>1, <3>L, <3>6
      <4>2. ASSUME NEW k \in 1 .. Len(tail)
            PROVE  LET rest == L(list[n + k][1])
                       skip == (n + k) - 1 - list[n + k][2]
                   IN  /\ skip \in Nat /\ Len(rest) = Len(list) - skip
                       /\ \A m \in 1 .. Len(rest) : rest[m] = list[m + skip]
        <5> DEFINE rest == L(tail[k][1])
                   t == k - 1 - tail[k][2]
        <5>1. /\ t \in Nat /\ Len(rest) = Len(tail) - t
              /\ \A m \in 1 .. Len(rest) : rest[m] = tail[m + t]
          BY <3>3 DEF RestIsListing
        <5>2. list[n + k] = tail[k] /\ tail[k][2] \in Nat
          BY <3>5, <3>6, PositionsOfCode
        <5>3. (n + k) - 1 - tail[k][2] = n + t
          BY <2>1, <5>2
        <5> HIDE DEF rest, t
        <5>4. ASSUME NEW m \in 1 .. Len(rest) PROVE rest[m] = list[m + (n + t)]
          <6>1. m + t \in 1 .. Len(tail) /\ m + (n + t) = n + (m + t)
            BY <2>1, <3>5, <5>1
          <6> QED
            BY <3>6, <5>1, <6>1
        <5>5. n + t \in Nat /\ Len(rest) = Len(list) - (n + t)
          BY <2>1, <3>5, <3>6, <5>1
        <5> QED
          BY <5>2, <5>3, <5>4, <5>5 DEF rest
      <4>3. ASSUME NEW k \in 1 .. Len(list)
            PROVE  LET rest == L(list[k][1])
                       skip == k - 1 - list[k][2]
                   IN  /\ skip \in Nat /\ Len(rest) = Len(list) - skip
                       /\ \A m \in 1 .. Len(rest) : rest[m] = list[m + skip]
        <5>1. CASE k \in 1 .. n
          <6>1. \A m \in 1 .. Len(list) : m + 0 = m
            BY <3>6
          <6> QED
            BY <3>6, <4>1, <5>1, <6>1
        <5>2. CASE k \notin 1 .. n
          <6>1. k - n \in 1 .. Len(tail) /\ n + (k - n) = k
            BY <2>1, <3>7, <5>2
          <6> HIDE DEF L
          <6> QED
            BY <4>2, <6>1
        <5> QED
          BY <5>1, <5>2
      <4> QED
        BY <4>3 DEF RestIsListing
    <3> QED
      BY <3>1, <3>L, <3>10, <3>11
  <2> QED
    BY <2>4, <2>5
<1>2. T = DOMAIN c
  <2>1. \A x \in DOMAIN c : (NextAsm(c, x) \in DOMAIN c => NextAsm(c, x) \in T) => x \in T
    BY <1>1
  <2> HIDE DEF T
  <2> QED
    BY <2>1, AddressesDown DEF T
<1> QED
  BY <1>2

-----------------------------------------------------------------------------
(* The first of a set of natural numbers, as get_bb chooses it. *)
LEMMA FirstOf ==
  ASSUME NEW lo \in Nat, NEW hi \in Nat, NEW ends \in SUBSET (lo .. hi), ends # {}
  PROVE  LET e == CHOOSE k \in ends : \A m \in ends : k <= m
         IN  e \in ends /\ \A m \in ends : e <= m
<1>1. ends \in SUBSET Nat
  OBVIOUS
<1>2. \E k \in ends : \A m \in ends : k <= m
  BY <1>1, LeastNatural
<1> QED
  BY <1>2

(* A block in its listing: from the instruction asked for to the first end *)
(* of a block.                                                             *)
BlockAt(c, thumb, p, e) ==
  LET list == Listing(c, thumb, p[1])
  IN  /\ e \in (p[2] + 1) .. Len(list)
      /\ EndsBlock(c, thumb, list[e])
      /\ \A k \in (p[2] + 1) .. (e - 1) : ~ EndsBlock(c, thumb, list[k])

LEMMA BlockOfEnd ==
  ASSUME NEW c, NEW thumb, NEW p, p[2] \in Nat, NEW e, BlockAt(c, thumb, p, e),
         Len(Listing(c, thumb, p[1])) \in Nat
  PROVE  Block(c, thumb, p) = SubSeq(Listing(c, thumb, p[1]), p[2] + 1, e)
<1> DEFINE list == Listing(c, thumb, p[1])
           ends == {k \in (p[2] + 1) .. Len(list) : EndsBlock(c, thumb, list[k])}
<1>1. e \in ends /\ \A m \in ends : e <= m
  BY DEF BlockAt
<1>2. ends \in SUBSET Nat
  OBVIOUS
<1> HIDE DEF ends
<1>3. (CHOOSE k \in ends : \A m \in ends : k <= m) = e
  <2>1. ASSUME NEW k \in ends, \A m \in ends : k <= m PROVE k = e
    <3>1. k <= e /\ e <= k /\ k \in Nat /\ e \in Nat
      BY <1>1, <1>2, <2>1
    <3> QED
      BY <3>1
  <2> QED
    BY <1>1, <2>1
<1> QED
  BY <1>1, <1>3 DEF Block, ends

(* An address that cannot be translated has no block. *)
LEMMA NoListingNoBlock ==
  ASSUME NEW c, NEW thumb, NEW p, p[2] \in Nat, Listing(c, thumb, p[1]) = << >>
  PROVE  Block(c, thumb, p) = << >>
<1>1. (p[2] + 1) .. Len(Listing(c, thumb, p[1])) = {}
  OBVIOUS
<1> QED
  BY <1>1 DEF Block

LEMMA EndOfListing ==
  ASSUME NEW c, IsCode(c), NEW thumb, NEW p \in Positions(c), EndsAsmBlock(c, thumb, p[1]),
         p[2] = Len(c[p[1]].ir) - 1
  PROVE  EndsBlock(c, thumb, p)
<1>1. p[2] + 1 = Len(c[p[1]].ir)
  BY PositionsOfCode
<1>2. Last(c[p[1]].ir) = InsnAt(c, p)
  BY <1>1 DEF Last, InsnAt
<1> QED
  BY <1>2 DEF EndsBlock, EndsAsmBlock

(* A block that is not empty has an end. *)
LEMMA BlockHasEnd ==
  ASSUME NEW c, IsCode(c), NEW thumb, NEW p, p[2] \in Nat, Block(c, thumb, p) # << >>
  PROVE  /\ p[1] \in DOMAIN c /\ Listing(c, thumb, p[1]) # << >>
         /\ \E e \in Nat : BlockAt(c, thumb, p, e)
<1> DEFINE list == Listing(c, thumb, p[1])
           ends == {k \in (p[2] + 1) .. Len(list) : EndsBlock(c, thumb, list[k])}
           e == CHOOSE k \in ends : \A m \in ends : k <= m
<1>1. list # << >> /\ p[1] \in DOMAIN c
  <2>1. list # << >>
    BY NoListingNoBlock
  <2> QED
    BY <2>1 DEF Listing
<1>2. ends # {}
  BY DEF Block
<1>3. IsListing(c, thumb, p[1], list)
  BY <1>1, ListingIs
<1> HIDE DEF list
<1>4. Len(list) \in Nat /\ p[2] + 1 \in Nat
  BY <1>3 DEF IsListing
<1>5. ends \in SUBSET ((p[2] + 1) .. Len(list))
  OBVIOUS
<1> HIDE DEF ends
<1>6. e \in ends /\ \A m \in ends : e <= m
  BY <1>2, <1>4, <1>5, FirstOf
<1> HIDE DEF e
<1>7. e \in (p[2] + 1) .. Len(list) /\ EndsBlock(c, thumb, list[e]) /\ e \in Nat
  BY <1>4, <1>6 DEF ends
<1>8. ASSUME NEW k \in (p[2] + 1) .. (e - 1) PROVE ~ EndsBlock(c, thumb, list[k])
  <2>1. k \in (p[2] + 1) .. Len(list) /\ ~ (e <= k)
    BY <1>4, <1>7
  <2> QED
    BY <1>6, <2>1 DEF ends
<1> QED
  BY <1>1, <1>7, <1>8 DEF BlockAt, list

LEMMA SubSeqParts ==
  ASSUME NEW S, NEW s \in Seq(S), NEW m \in Nat, NEW n \in (m + 1) .. Len(s), NEW u,
         u = SubSeq(s, m + 1, n)
  PROVE  /\ u \in Seq(S) /\ Len(u) = n - m /\ Len(u) \in Nat \ {0} /\ n \in Nat
         /\ \A i \in 1 .. Len(u) : u[i] = s[m + i]
<1>1. n \in Nat /\ Len(s) \in Nat /\ n - (m + 1) + 1 = n - m /\ n - m \in Nat \ {0}
  OBVIOUS
<1>2. u = [i \in 1 .. (n - m) |-> s[(m + 1) + i - 1]]
  BY <1>1
<1>3. \A i \in 1 .. (n - m) : (m + 1) + i - 1 = m + i /\ m + i \in 1 .. Len(s)
  BY <1>1
<1>4. u = [i \in 1 .. (n - m) |-> s[m + i]]
  BY <1>2, <1>3
<1>5. \A i \in 1 .. (n - m) : s[m + i] \in S
  BY <1>3
<1>6. u \in [1 .. (n - m) -> S]
  BY <1>4, <1>5
<1>7. u \in Seq(S) /\ Len(u) = n - m
  BY <1>1, <1>6
<1> QED
  BY <1>1, <1>4, <1>7

(* What a block is: it goes on from instruction to instruction, and its    *)
(* last instruction, and no other, is an end of a block.                   *)
IsBlock(c, thumb, b) ==
  /\ b \in Seq(Positions(c)) /\ Len(b) \in Nat \ {0}
  /\ \A k \in 1 .. Len(b) - 1 : b[k + 1] = After(c, b[k]) /\ ~ EndsBlock(c, thumb, b[k])
  /\ EndsBlock(c, thumb, b[Len(b)])

LEMMA BlockIs ==
  ASSUME NEW c, IsCode(c), NEW thumb, NEW p, p[2] \in Nat, Block(c, thumb, p) # << >>
  PROVE  IsBlock(c, thumb, Block(c, thumb, p))
<1>1. PICK list : list = Listing(c, thumb, p[1])
  OBVIOUS
<1>2. PICK b : b = Block(c, thumb, p)
  OBVIOUS
<1>3. list # << >> /\ p[1] \in DOMAIN c /\ \E n \in Nat : n = p[2]
  BY <1>1, BlockHasEnd
<1>4. PICK e \in Nat : BlockAt(c, thumb, p, e)
  BY BlockHasEnd
<1>5. PICK P \in Nat : P = p[2]
  BY <1>3
<1>6. IsListing(c, thumb, p[1], list)
  BY <1>1, <1>3, ListingIs
<1>7. list \in Seq(Positions(c)) /\ Len(list) \in Nat
  BY <1>6 DEF IsListing
<1>8. b = SubSeq(list, P + 1, e)
  BY <1>1, <1>2, <1>4, <1>5, <1>7, BlockOfEnd
<1>9. /\ e \in (P + 1) .. Len(list) /\ EndsBlock(c, thumb, list[e])
      /\ \A k \in (P + 1) .. (e - 1) : ~ EndsBlock(c, thumb, list[k])
  BY <1>1, <1>4, <1>5 DEF BlockAt
<1>10. /\ b \in Seq(Positions(c)) /\ Len(b) = e - P /\ Len(b) \in Nat \ {0}
       /\ \A i \in 1 .. Len(b) : b[i] = list[P + i]
  BY <1>7, <1>8, <1>9, SubSeqParts
<1>11. ASSUME NEW k \in 1 .. Len(b) - 1
       PROVE  b[k + 1] = After(c, b[k]) /\ ~ EndsBlock(c, thumb, b[k])
  <2>1. /\ P + k \in (P + 1) .. (e - 1) /\ P + k \in 1 .. Len(list) - 1
        /\ k \in 1 .. Len(b) /\ k + 1 \in 1 .. Len(b) /\ P + (k + 1) = (P + k) + 1
    <3>1. k \in Nat /\ k >= 1 /\ k <= e - P - 1 /\ e <= Len(list)
      BY <1>7, <1>9, <1>10
    <3> QED
      BY <1>7, <1>10, <3>1, SMTT(30)
  <2>2. list[(P + k) + 1] = After(c, list[P + k]) /\ ~ EndsBlock(c, thumb, list[P + k])
    BY <1>6, <1>9, <2>1 DEF IsListing
  <2> QED
    BY <1>10, <2>1, <2>2
<1>12. b[Len(b)] = list[e]
  <2>1. P + Len(b) = e /\ Len(b) \in 1 .. Len(b)
    BY <1>10
  <2> QED
    BY <1>10, <2>1
<1> QED
  BY <1>2, <1>9, <1>10, <1>11, <1>12 DEF IsBlock

(* The block of an instruction starts with it. *)
LEMMA BlockOfPosition ==
  ASSUME NEW c, IsCode(c), NEW thumb, NEW p \in Positions(c), Listing(c, thumb, p[1]) # << >>
  PROVE  Block(c, thumb, p) # << >> /\ Block(c, thumb, p)[1] = p
<1>1. PICK list : list = Listing(c, thumb, p[1])
  OBVIOUS
<1>2. PICK b : b = Block(c, thumb, p)
  OBVIOUS
<1>3. p = <<p[1], p[2]>> /\ p[1] \in DOMAIN c /\ p[2] \in 0 .. Len(c[p[1]].ir) - 1
      /\ p[2] \in Nat /\ Len(c[p[1]].ir) \in Nat
  BY PositionsOfCode
<1>4. PICK P \in Nat : P = p[2]
  BY <1>3
<1>5. IsListing(c, thumb, p[1], list)
  BY <1>1, <1>3, ListingIs
<1>6. list \in Seq(Positions(c)) /\ Len(list) \in Nat /\ Len(list) >= P + 1
      /\ list[Len(list)] \in Positions(c)
  BY <1>3, <1>4, <1>5 DEF IsListing
<1>7. EndsBlock(c, thumb, list[Len(list)])
  BY <1>5, <1>6, EndOfListing DEF IsListing
<1> DEFINE ends == {k \in (P + 1) .. Len(list) : EndsBlock(c, thumb, list[k])}
           e == CHOOSE k \in ends : \A m \in ends : k <= m
<1>8. Len(list) \in ends /\ ends \in SUBSET ((P + 1) .. Len(list))
  BY <1>6, <1>7
<1>9. b = SubSeq(list, P + 1, e)
  BY <1>1, <1>2, <1>4, <1>8 DEF Block
<1> HIDE DEF ends
<1>10. e \in ends
  <2>1. P + 1 \in Nat
    OBVIOUS
  <2> QED
    BY <1>6, <1>8, <2>1, FirstOf
<1>11. e \in (P + 1) .. Len(list)
  BY <1>8, <1>10
<1> HIDE DEF e
<1>12. Len(b) \in Nat \ {0} /\ b[1] = list[P + 1]
  BY <1>6, <1>9, <1>11, SubSeqParts
<1>13. P + 1 \in 1 .. Len(c[p[1]].ir) /\ (P + 1) - 1 = P
  BY <1>3, <1>4
<1>14. list[P + 1] = <<p[1], P>>
  BY <1>5, <1>13 DEF IsListing
<1>15. b # << >>
  BY <1>12
<1> QED
  BY <1>2, <1>3, <1>4, <1>12, <1>14, <1>15

(* The places of a block in its listing, and of the rest of it, after K of *)
(* its instructions, in the listing the rest is found in.                  *)
LEMMA Places ==
  ASSUME NEW P \in Nat, NEW K \in Nat, NEW Q \in Nat, NEW E \in Nat, NEW N \in Nat,
         E \in (P + 1) .. N, K + 1 \in 1 .. (E - P), NEW S \in Nat, S = P + K - Q
  PROVE  /\ E - S \in Nat /\ E - S \in (Q + 1) .. (N - S) /\ E - S \in 1 .. (N - S)
         /\ N - S \in Nat \ {0} /\ (E - S) + S = E /\ (E - S) - Q = (E - P) - K
         /\ \A m \in (Q + 1) .. (E - S - 1) : m \in 1 .. (N - S) /\ m + S \in (P + 1) .. (E - 1)
         /\ \A i \in 1 .. ((E - P) - K) :
              /\ Q + i \in 1 .. (N - S) /\ (Q + i) + S = P + (K + i)
              /\ K + i \in 1 .. (E - P)
OBVIOUS

(* The block at an instruction in the middle of another one is the rest of *)
(* that one.                                                               *)
LEMMA BlockOfTheRest ==
  ASSUME NEW c, IsCode(c), NEW thumb, NEW p, p[2] \in Nat, Block(c, thumb, p) # << >>,
         NEW k \in 1 .. Len(Block(c, thumb, p))
  PROVE  Block(c, thumb, Block(c, thumb, p)[k])
           = SubSeq(Block(c, thumb, p), k, Len(Block(c, thumb, p)))
<1>1. PICK list : list = Listing(c, thumb, p[1])
  OBVIOUS
<1>2. PICK b : b = Block(c, thumb, p)
  OBVIOUS
<1>3. p[1] \in DOMAIN c /\ list # << >> /\ \E n \in Nat : n = p[2]
  BY <1>1, BlockHasEnd
<1>4. PICK P \in Nat : P = p[2]
  BY <1>3
<1>5. PICK e \in Nat : BlockAt(c, thumb, p, e)
  BY BlockHasEnd
<1>6. IsListing(c, thumb, p[1], list) /\ RestIsListing(c, thumb, list)
  BY <1>1, <1>3, ListingIs
<1>7. list \in Seq(Positions(c)) /\ Len(list) \in Nat
  BY <1>6 DEF IsListing
<1>8. b = SubSeq(list, P + 1, e)
  BY <1>1, <1>2, <1>4, <1>5, <1>7, BlockOfEnd
<1>9. /\ e \in (P + 1) .. Len(list) /\ EndsBlock(c, thumb, list[e])
      /\ \A m \in (P + 1) .. (e - 1) : ~ EndsBlock(c, thumb, list[m])
  BY <1>1, <1>4, <1>5 DEF BlockAt
<1>10. /\ b \in Seq(Positions(c)) /\ Len(b) = e - P /\ Len(b) \in Nat \ {0}
       /\ \A i \in 1 .. Len(b) : b[i] = list[P + i]
  BY <1>7, <1>8, <1>9, SubSeqParts
<1>11. k \in 1 .. Len(b)
  BY <1>2
<1>12. k - 1 \in Nat /\ (k - 1) + 1 = k
  BY <1>10, <1>11
<1>13. PICK K \in Nat : k = K + 1
  BY <1>12
<1>14. P + k \in 1 .. Len(list) /\ (P + k) - 1 = P + K
  BY <1>7, <1>9, <1>10, <1>11, <1>13
<1>15. PICK q : q = b[k]
  OBVIOUS
<1>16. q = list[P + k] /\ q \in Positions(c)
  BY <1>7, <1>10, <1>11, <1>14, <1>15
<1>17. q[1] \in DOMAIN c /\ \E n \in Nat : n = q[2]
  BY <1>16, PositionsOfCode
<1>18. PICK Q \in Nat : Q = q[2]
  BY <1>17
<1>19. PICK rest : rest = Listing(c, thumb, q[1])
  OBVIOUS
<1>20. PICK S : S = P + K - Q
  OBVIOUS
<1>21. /\ S \in Nat /\ Len(rest) = Len(list) - S
       /\ \A m \in 1 .. Len(rest) : rest[m] = list[m + S]
  <2>1. list[P + k][1] = q[1] /\ (P + k) - 1 - list[P + k][2] = S
    BY <1>14, <1>16, <1>18, <1>20
  <2> QED
    BY <1>6, <1>14, <1>19, <2>1 DEF RestIsListing
<1>22. PICK N \in Nat : N = Len(list)
  BY <1>7
<1>23. K + 1 \in 1 .. (e - P)
  BY <1>10, <1>11, <1>13
<1>24. /\ e - S \in Nat /\ e - S \in (Q + 1) .. (N - S) /\ e - S \in 1 .. (N - S)
       /\ N - S \in Nat \ {0} /\ (e - S) + S = e /\ (e - S) - Q = (e - P) - K
       /\ \A m \in (Q + 1) .. (e - S - 1) : m \in 1 .. (N - S) /\ m + S \in (P + 1) .. (e - 1)
       /\ \A i \in 1 .. ((e - P) - K) :
            /\ Q + i \in 1 .. (N - S) /\ (Q + i) + S = P + (K + i)
            /\ K + i \in 1 .. (e - P)
  <2>1. e \in (P + 1) .. N /\ S \in Nat
    BY <1>9, <1>21, <1>22
  <2> QED
    BY <1>20, <1>23, <2>1, Places
<1>25. PICK f \in Nat : f = e - S
  BY <1>24
<1>26. Len(rest) = N - S
  BY <1>21, <1>22
<1>27. /\ f \in (Q + 1) .. Len(rest) /\ f \in 1 .. Len(rest) /\ Len(rest) # 0
       /\ Len(rest) \in Nat /\ f + S = e /\ f - Q = Len(b) - K
       /\ \A m \in (Q + 1) .. (f - 1) : m \in 1 .. Len(rest) /\ m + S \in (P + 1) .. (e - 1)
       /\ \A i \in 1 .. (Len(b) - K) :
            /\ Q + i \in 1 .. Len(rest) /\ (Q + i) + S = P + (K + i)
            /\ K + i \in 1 .. Len(b)
  BY <1>10, <1>24, <1>25, <1>26
<1>28. rest \in Seq(Positions(c))
  <2>1. rest # << >>
    BY <1>27
  <2> QED
    BY <1>17, <1>19, <2>1, ListingIs DEF IsListing
<1>29. BlockAt(c, thumb, q, f)
  <2>1. EndsBlock(c, thumb, rest[f])
    BY <1>9, <1>21, <1>27
  <2>2. ASSUME NEW m \in (Q + 1) .. (f - 1) PROVE ~ EndsBlock(c, thumb, rest[m])
    <3>1. m \in 1 .. Len(rest) /\ m + S \in (P + 1) .. (e - 1)
      BY <1>27
    <3> QED
      BY <1>9, <1>21, <3>1
  <2> QED
    BY <1>18, <1>19, <1>27, <2>1, <2>2 DEF BlockAt
<1>30. PICK u : u = Block(c, thumb, q)
  OBVIOUS
<1>31. PICK v : v = SubSeq(b, k, Len(b))
  OBVIOUS
<1>32. /\ u \in Seq(Positions(c)) /\ Len(u) = Len(b) - K
       /\ \A i \in 1 .. Len(u) : u[i] = rest[Q + i]
  <2>1. u = SubSeq(rest, Q + 1, f)
    BY <1>17, <1>18, <1>19, <1>27, <1>29, <1>30, BlockOfEnd
  <2>2. Len(u) = f - Q /\ u \in Seq(Positions(c)) /\ \A i \in 1 .. Len(u) : u[i] = rest[Q + i]
    BY <1>27, <1>28, <2>1, SubSeqParts
  <2> QED
    BY <1>27, <2>2
<1>33. /\ v \in Seq(Positions(c)) /\ Len(v) = Len(b) - K
       /\ \A i \in 1 .. Len(v) : v[i] = b[K + i]
  <2>1. PICK n \in Nat : n = Len(b)
    BY <1>10
  <2>2. n \in (K + 1) .. Len(b) /\ v = SubSeq(b, K + 1, n)
    BY <1>11, <1>13, <1>31, <2>1
  <2>3. v \in Seq(Positions(c)) /\ Len(v) = n - K /\ \A i \in 1 .. Len(v) : v[i] = b[K + i]
    <3>1. b \in Seq(Positions(c))
      BY <1>10
    <3> QED
      BY <2>2, <3>1, SubSeqParts, SMTT(30)
  <2> QED
    BY <2>1, <2>3
<1>34. ASSUME NEW i \in 1 .. Len(u) PROVE u[i] = v[i]
  <2>1. i \in 1 .. (Len(b) - K) /\ i \in 1 .. Len(v)
    BY <1>32, <1>33
  <2>2. /\ Q + i \in 1 .. Len(rest) /\ (Q + i) + S = P + (K + i)
        /\ K + i \in 1 .. Len(b)
    BY <1>27, <2>1
  <2>3. u[i] = list[P + (K + i)]
    BY <1>21, <1>32, <2>2
  <2>4. v[i] = list[P + (K + i)]
    BY <1>10, <1>33, <2>1, <2>2
  <2> QED
    BY <2>3, <2>4
<1>35. u = v
  <2>1. Len(u) = Len(v)
    BY <1>32, <1>33
  <2> QED
    BY <1>32, <1>33, <1>34, <2>1, SeqEqual
<1> QED
  BY <1>2, <1>15, <1>30, <1>31, <1>35

-----------------------------------------------------------------------------
(* Where control may go from an instruction, see Flow of CFGTraverse. *)
FlowOf(c, ir) ==
  IF Has(InsnAt(c, ir), "CALL") THEN {NextOf(c, ir)} \ {NoLoc} ELSE Succs(c, ir)

(* What the translator promises of the instruction at a position. *)
LEMMA InsnOfPosition ==
  ASSUME NEW c, IsCode(c), NEW p \in Positions(c)
  PROVE  LET insn == InsnAt(c, p)
         IN  /\ insn.jcc \in BOOLEAN /\ insn.always \in BOOLEAN
             /\ insn.target \in (Nat \X Nat) \cup {NoLoc}
             /\ "ASM_END" \in insn.flags <=> p[2] + 1 = Len(c[p[1]].ir)
             /\ insn.jcc => ("BB_END" \in insn.flags <=> "CALL" \notin insn.flags)
             /\ "RET" \in insn.flags => insn.jcc /\ "BB_END" \in insn.flags /\ insn.target = NoLoc
<1>1. p[1] \in DOMAIN c /\ p[2] \in Nat /\ p[2] + 1 \in DOMAIN c[p[1]].ir
  BY PositionsOfCode
<1>2. IsTranslation(c[p[1]])
  BY <1>1 DEF IsCode
<1> QED
  BY <1>1, <1>2 DEF IsTranslation, InsnAt

(* The instruction after one in its machine instruction, or the first of   *)
(* the next machine instruction.                                           *)
LEMMA AfterIs ==
  ASSUME NEW c, IsCode(c), NEW p \in Positions(c)
  PROVE  After(c, p) = IF Has(InsnAt(c, p), "ASM_END") THEN <<NextAsm(c, p[1]), 0>>
                       ELSE <<p[1], p[2] + 1>>
<1>1. p[1] \in DOMAIN c /\ p[2] \in Nat /\ p[2] \in 0 .. Len(c[p[1]].ir) - 1
      /\ Len(c[p[1]].ir) \in Nat
  BY PositionsOfCode
<1>2. Has(InsnAt(c, p), "ASM_END") <=> p[2] + 1 = Len(c[p[1]].ir)
  BY InsnOfPosition DEF Has
<1>3. IsPosition(c, <<p[1], p[2] + 1>>) <=> p[2] + 1 \in 0 .. Len(c[p[1]].ir) - 1
  BY <1>1 DEF IsPosition
<1>4. p[2] + 1 \in 0 .. Len(c[p[1]].ir) - 1 <=> p[2] + 1 # Len(c[p[1]].ir)
  BY <1>1
<1> QED
  BY <1>2, <1>3, <1>4 DEF After

(* Control never leaves a block in its middle: an instruction that does    *)
(* not end a block leads to the one after it only.                         *)
LEMMA FlowInside ==
  ASSUME NEW c, IsCode(c), NEW thumb, NEW p \in Positions(c), ~ EndsBlock(c, thumb, p)
  PROVE  FlowOf(c, p) \subseteq {After(c, p)}
<1> DEFINE insn == InsnAt(c, p)
<1>1. /\ insn.jcc \in BOOLEAN /\ insn.always \in BOOLEAN
      /\ "ASM_END" \in insn.flags <=> p[2] + 1 = Len(c[p[1]].ir)
      /\ insn.jcc => ("BB_END" \in insn.flags <=> "CALL" \notin insn.flags)
      /\ "RET" \in insn.flags => insn.jcc /\ "BB_END" \in insn.flags
  BY InsnOfPosition
<1>2. After(c, p) = IF "ASM_END" \in insn.flags THEN <<NextAsm(c, p[1]), 0>>
                    ELSE <<p[1], p[2] + 1>>
  BY AfterIs DEF Has
<1>3. CASE "BB_END" \notin insn.flags
  <2>1. NextOf(c, p) = After(c, p)
    BY <1>1, <1>2, <1>3 DEF NextOf, Has
  <2>2. "CALL" \notin insn.flags => JccLoc(c, p) = NoLoc
    BY <1>1, <1>3 DEF JccLoc
  <2> QED
    BY <2>1, <2>2 DEF FlowOf, Succs, Has
<1>4. CASE "BB_END" \in insn.flags
  <2>1. ~ IsPosition(c, <<p[1], p[2] + 1>>) /\ ~ EndsAsmBlock(c, thumb, p[1])
    BY <1>4 DEF EndsBlock, Has
  <2>2. p[1] \in DOMAIN c /\ p[2] \in Nat /\ p[2] + 1 = Len(c[p[1]].ir)
    <3>1. p[1] \in DOMAIN c /\ p[2] \in 0 .. Len(c[p[1]].ir) - 1 /\ Len(c[p[1]].ir) \in Nat
      BY PositionsOfCode
    <3>2. p[2] + 1 \notin 0 .. Len(c[p[1]].ir) - 1
      BY <2>1, <3>1 DEF IsPosition
    <3> QED
      BY <3>1, <3>2
  <2>3. Last(c[p[1]].ir) = insn
    BY <2>2 DEF Last, InsnAt
  <2>4. ThumbPropagation(c, thumb, p[1])
    BY <1>4, <2>1, <2>3 DEF EndsAsmBlock, Has
  <2>5. insn.jcc /\ insn.always /\ insn.target = <<NextAsm(c, p[1]), 0>>
    BY <2>3, <2>4 DEF ThumbPropagation
  <2>6. "CALL" \notin insn.flags
    BY <1>1, <1>4, <2>5
  <2>7. NextOf(c, p) = NoLoc /\ JccLoc(c, p) = After(c, p)
    BY <1>1, <1>2, <2>2, <2>5, <2>6 DEF NextOf, JccLoc, Has
  <2> QED
    BY <2>6, <2>7 DEF FlowOf, Succs, Has
<1> QED
  BY <1>3, <1>4

(* The ways out of a block are the ways control may go from its end. *)
LEMMA FlowAtEnd ==
  ASSUME NEW c, IsCode(c), NEW p \in Positions(c), Has(InsnAt(c, p), "BB_END")
  PROVE  FlowOf(c, p) = Succs(c, p)
<1>1. Has(InsnAt(c, p), "CALL") => ~ InsnAt(c, p).jcc
  BY InsnOfPosition DEF Has
<1> QED
  BY <1>1 DEF FlowOf, Succs, JccLoc

(* A way control goes from an instruction leads into its own machine       *)
(* instruction, to the next one, or to the target of a jump.               *)
LEMMA SuccessorIs ==
  ASSUME NEW c, IsCode(c), NEW p \in Positions(c), NEW t \in Succs(c, p)
  PROVE  t \in Positions(c) \/ t = <<NextAsm(c, p[1]), 0>> \/ t = JccLoc(c, p)
<1>1. CASE t = NextOf(c, p) /\ ~ Has(InsnAt(c, p), "ASM_END")
  <2>1. t = <<p[1], p[2] + 1>>
    BY <1>1 DEF Succs, NextOf
  <2>2. p[1] \in DOMAIN c /\ p[2] + 1 \in 0 .. Len(c[p[1]].ir) - 1
    <3>1. p[1] \in DOMAIN c /\ p[2] \in 0 .. Len(c[p[1]].ir) - 1 /\ Len(c[p[1]].ir) \in Nat
      BY PositionsOfCode
    <3>2. p[2] + 1 # Len(c[p[1]].ir)
      BY <1>1, InsnOfPosition DEF Has
    <3> QED
      BY <3>1, <3>2
  <2> QED
    BY <2>1, <2>2, PositionsOfCode
<1>2. CASE t = NextOf(c, p) /\ Has(InsnAt(c, p), "ASM_END")
  BY <1>2 DEF Succs, NextOf
<1> QED
  BY <1>1, <1>2 DEF Succs

(* When control can only get to addresses that can be translated, every    *)
(* instruction has a listing, and so a block.                              *)
LEMMA ReadableListing ==
  ASSUME NEW c, IsCode(c), NEW thumb, \A p \in Positions(c) : \A t \in FlowOf(c, p) : t[1] \in DOMAIN c,
         NEW a \in DOMAIN c
  PROVE  Listing(c, thumb, a) # << >>
<1> DEFINE T == {x \in DOMAIN c : Listing(c, thumb, x) # << >>}
<1>1. ASSUME NEW x \in DOMAIN c, NextAsm(c, x) \in DOMAIN c => NextAsm(c, x) \in T
      PROVE  x \in T
  <2> DEFINE n == Len(c[x].ir)
             p == <<x, n - 1>>
             list == InsnList(c, x)
  <2>1. n \in Nat \ {0} /\ p \in Positions(c) /\ n - 1 \in Nat /\ (n - 1) + 1 = n
    BY PositionsOfCode
  <2>2. list \in Seq(Positions(c)) /\ list # << >>
    BY <2>1, InsnListOfCode
  <2>3. CASE EndsAsmBlock(c, thumb, x)
    BY <2>2, <2>3, ListingUnfolds
  <2>4. CASE ~ EndsAsmBlock(c, thumb, x)
    <3>1. ~ IsPosition(c, <<x, n>>)
      BY <2>1 DEF IsPosition
    <3>2. After(c, p) = <<NextAsm(c, x), 0>> /\ ~ EndsBlock(c, thumb, p)
      BY <2>1, <2>4, <3>1 DEF After, EndsBlock
    <3>3. FlowOf(c, p) \subseteq {<<NextAsm(c, x), 0>>}
      BY <2>1, <3>2, FlowInside
    <3>4. FlowOf(c, p) # {}
      <4> DEFINE insn == InsnAt(c, p)
      <4>1. /\ insn.jcc \in BOOLEAN /\ insn.always \in BOOLEAN /\ "ASM_END" \in insn.flags
            /\ insn.jcc => ("BB_END" \in insn.flags <=> "CALL" \notin insn.flags)
            /\ "RET" \in insn.flags => insn.jcc /\ "BB_END" \in insn.flags
        BY <2>1, InsnOfPosition
      <4>2. Last(c[x].ir) = insn
        BY <2>1 DEF Last, InsnAt
      <4>3. <<NextAsm(c, x), 0>> # NoLoc
        BY DEF NoLoc
      <4> HIDE DEF p
      <4>4. CASE "BB_END" \notin insn.flags
        <5>1. NextOf(c, p) = <<NextAsm(c, x), 0>>
          BY <4>1, <4>4 DEF NextOf, Has, p
        <5> QED
          BY <4>3, <5>1 DEF FlowOf, Succs
      <4>5. CASE "BB_END" \in insn.flags
        <5>1. insn.jcc /\ insn.target = <<NextAsm(c, x), 0>>
          BY <2>4, <4>2, <4>5 DEF EndsAsmBlock, ThumbPropagation, Has
        <5>2. JccLoc(c, p) = <<NextAsm(c, x), 0>> /\ "CALL" \notin insn.flags
          BY <4>1, <4>5, <5>1 DEF JccLoc
        <5> QED
          BY <4>3, <5>2 DEF FlowOf, Succs, Has
      <4> QED
        BY <4>4, <4>5
    <3>5. NextAsm(c, x) \in DOMAIN c
      BY <2>1, <3>3, <3>4
    <3> DEFINE tail == Listing(c, thumb, NextAsm(c, x))
    <3>6. tail # << >>
      BY <1>1, <3>5
    <3>7. tail \in Seq(Positions(c))
      BY <3>5, <3>6, ListingIs DEF IsListing
    <3>8. Listing(c, thumb, x) = list \o tail
      BY <2>4, <3>6, ListingUnfolds
    <3> HIDE DEF tail, list
    <3>9. list \o tail # << >>
      BY <2>2, <3>7
    <3> QED
      BY <3>8, <3>9
  <2> QED
    BY <2>3, <2>4
<1>2. T = DOMAIN c
  <2> HIDE DEF T
  <2>1. T \in SUBSET DOMAIN c
    BY DEF T
  <2> QED
    BY <1>1, <2>1, AddressesDown
<1> QED
  BY <1>2
=============================================================================
