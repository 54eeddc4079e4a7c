----------------------------- MODULE FuncProofs -----------------------------
(***************************************************************************)
(* Proofs about FuncBuild, for every set of programs: the Func that        *)
(* get_func builds holds the instructions of the blocks of the graph, each *)
(* of them once, its returns, and the bytes of its blocks, in chunks that  *)
(* are apart.                                                              *)
(***************************************************************************)
EXTENDS FuncBuild, CFGProofs

NoDup(s) == \A i, j \in DOMAIN s : s[i] = s[j] => i = j

LEMMA AppendNew ==
  ASSUME NEW S, NEW s \in Seq(S), NEW x \in S, x \notin Range(s), NoDup(s)
  PROVE  Append(s, x) \in Seq(S) /\ NoDup(Append(s, x)) /\ Range(Append(s, x)) = Range(s) \cup {x}
<1>0. PICK t : t = Append(s, x)
  OBVIOUS
<1>1. /\ t \in Seq(S) /\ Len(t) = Len(s) + 1 /\ Len(s) \in Nat
      /\ t[Len(s) + 1] = x /\ \A i \in 1 .. Len(s) : t[i] = s[i]
  BY <1>0
<1>2. DOMAIN s = 1 .. Len(s) /\ DOMAIN t = 1 .. (Len(s) + 1)
  BY <1>1
<1>3. \A i \in DOMAIN t : i \in DOMAIN s \/ i = Len(s) + 1
  BY <1>1, <1>2
<1>4. \A i \in DOMAIN s : i \in DOMAIN t /\ t[i] = s[i] /\ s[i] # x /\ i # Len(s) + 1
  BY <1>1, <1>2 DEF Range
<1>5. NoDup(t)
  <2>1. ASSUME NEW i \in DOMAIN t, NEW j \in DOMAIN t, t[i] = t[j] PROVE i = j
    <3>1. CASE i \in DOMAIN s /\ j \in DOMAIN s
      BY <1>4, <2>1, <3>1 DEF NoDup
    <3>2. CASE i = Len(s) + 1 \/ j = Len(s) + 1
      BY <1>1, <1>3, <1>4, <2>1, <3>2
    <3> QED
      BY <1>3, <3>1, <3>2
  <2> QED
    BY <2>1 DEF NoDup
<1>6. Len(s) + 1 \in DOMAIN t
  BY <1>1, <1>2
<1>7. Range(t) = Range(s) \cup {x}
  BY <1>1, <1>3, <1>4, <1>6 DEF Range
<1> QED
  BY <1>0, <1>1, <1>5, <1>7

(* The loop of add_bb adds the instructions that are not there yet. *)
LEMMA WithInsnsAdds ==
  ASSUME NEW S, NEW list \in Seq(S), NEW bb \in Seq(S), NoDup(list)
  PROVE  /\ WithInsns(list, bb) \in Seq(S) /\ NoDup(WithInsns(list, bb))
         /\ Range(WithInsns(list, bb)) = Range(list) \cup Range(bb)
<1>1. PICK n \in Nat : n = Len(bb)
  OBVIOUS
<1>2. DOMAIN bb = 1 .. n /\ \A k \in 1 .. n : bb[k] \in S
  BY <1>1
<1> DEFINE Body(h, k) == IF k = 0 THEN list
                         ELSE IF bb[k] \in Range(h[k - 1]) THEN h[k - 1] ELSE Append(h[k - 1], bb[k])
<1>3. PICK R : R = CHOOSE h : h = [k \in 0 .. n |-> Body(h, k)]
  OBVIOUS
<1>4. WithInsns(list, bb) = R[n]
  BY <1>1, <1>3 DEF WithInsns
<1>5. PICK g : g = [p \in (1 .. n) \X Seq(S) |->
                     IF bb[p[1]] \in Range(p[2]) THEN p[2] ELSE Append(p[2], bb[p[1]])]
  OBVIOUS
<1>6. g \in [(1 .. n) \X Seq(S) -> Seq(S)]
  <2>1. ASSUME NEW p \in (1 .. n) \X Seq(S)
        PROVE  (IF bb[p[1]] \in Range(p[2]) THEN p[2] ELSE Append(p[2], bb[p[1]])) \in Seq(S)
    BY <1>2
  <2> QED
    BY <1>5, <2>1
<1>7. PICK f \in [0 .. n -> Seq(S)] : f[0] = list /\ \A k \in 1 .. n : f[k] = g[<<k, f[k - 1]>>]
  <2>1. IsStep(Seq(S), n, g) /\ list \in Seq(S) /\ n \in Nat
    BY <1>6 DEF IsStep
  <2>2. PICK f : Iterates(Seq(S), list, n, g, f)
    BY <2>1, Iteration
  <2> QED
    BY <2>2 DEF Iterates
<1>8. \A k \in 0 .. n : f[k] = Body(f, k)
  <2>1. ASSUME NEW k \in 1 .. n PROVE f[k] = Body(f, k)
    <3>1. k - 1 \in 0 .. n /\ k # 0 /\ f[k - 1] \in Seq(S)
      BY <1>7
    <3>2. g[<<k, f[k - 1]>>] = Body(f, k)
      BY <1>5, <3>1
    <3> QED
      BY <1>7, <3>2
  <2>2. \A k \in 0 .. n : k = 0 \/ k \in 1 .. n
    OBVIOUS
  <2> QED
    BY <1>7, <2>1, <2>2
<1>9. \E h : h = [k \in 0 .. n |-> Body(h, k)]
  <2> HIDE DEF Body
  <2>1. f = [k \in 0 .. n |-> f[k]]
    BY <1>7
  <2> QED
    BY <1>8, <2>1
<1>10. R = [k \in 0 .. n |-> Body(R, k)]
  <2> HIDE DEF Body
  <2> QED
    BY <1>3, <1>9
<1>11. \A k \in 0 .. n : R[k] = Body(R, k)
  <2> HIDE DEF Body
  <2> QED
    BY <1>10
<1> DEFINE Good(k) == /\ R[k] \in Seq(S) /\ NoDup(R[k])
                      /\ Range(R[k]) = Range(list) \cup {bb[j] : j \in 1 .. k}
           G == {k \in 0 .. n : Good(k)}
<1>12. 0 \in G
  <2>1. R[0] = list
    BY <1>11
  <2>2. {bb[j] : j \in 1 .. 0} = {}
    OBVIOUS
  <2> QED
    BY <2>1, <2>2
<1>13. ASSUME NEW k \in 0 .. n - 1, Good(k) PROVE Good(k + 1)
  <2>1. k \in Nat /\ k + 1 \in 1 .. n /\ (k + 1) - 1 = k /\ k + 1 \in 0 .. n /\ k + 1 # 0
    OBVIOUS
  <2>2. {bb[j] : j \in 1 .. (k + 1)} = {bb[j] : j \in 1 .. k} \cup {bb[k + 1]}
    <3>1. \A j : j \in 1 .. (k + 1) <=> j \in 1 .. k \/ j = k + 1
      BY <2>1
    <3> QED
      BY <3>1
  <2>3. PICK y : y = R[k]
    OBVIOUS
  <2>4. PICK t : t = R[k + 1]
    OBVIOUS
  <2>5. PICK z \in S : z = bb[k + 1]
    BY <1>2, <2>1
  <2>6. t = IF z \in Range(y) THEN y ELSE Append(y, z)
    BY <1>11, <2>1, <2>3, <2>4, <2>5
  <2>7. y \in Seq(S) /\ NoDup(y) /\ Range(y) = Range(list) \cup {bb[j] : j \in 1 .. k}
    BY <1>13, <2>3
  <2> HIDE DEF Body
  <2>8. CASE z \in Range(y)
    BY <2>2, <2>3, <2>4, <2>5, <2>6, <2>7, <2>8
  <2>9. CASE z \notin Range(y)
    <3>1. t = Append(y, z)
      BY <2>6, <2>9
    <3>2. t \in Seq(S) /\ NoDup(t) /\ Range(t) = Range(y) \cup {z}
      BY <2>7, <2>9, <3>1, AppendNew
    <3> QED
      BY <2>2, <2>4, <2>5, <2>7, <3>2
  <2> QED
    BY <2>8, <2>9
<1>14. \A k \in 0 .. n - 1 : k \in G => k + 1 \in G
  <2> HIDE DEF Good
  <2> QED
    BY <1>13
<1>15. Good(n)
  <2> HIDE DEF Good
  <2>1. n \in G
    <3> HIDE DEF G
    <3> QED
      BY <1>12, <1>14, UpTo
  <2> QED
    BY <2>1
<1>16. Range(bb) = {bb[j] : j \in 1 .. n}
  BY <1>2 DEF Range
<1> QED
  BY <1>4, <1>15, <1>16

-----------------------------------------------------------------------------
(* In a total order of 1 .. n, the number of elements up to an element     *)
(* takes every value of 1 .. n, each of them once.                         *)
IsTotalOrder(n, L) ==
  /\ \A i \in 1 .. n : <<i, i>> \in L
  /\ \A i, j \in 1 .. n : <<i, j>> \in L \/ <<j, i>> \in L
  /\ \A i, j \in 1 .. n : <<i, j>> \in L /\ <<j, i>> \in L => i = j
  /\ \A i, j, k \in 1 .. n : <<i, j>> \in L /\ <<j, k>> \in L => <<i, k>> \in L

CountUpto(n, L) == [i \in 1 .. n |-> Cardinality({j \in 1 .. n : <<j, i>> \in L})]

LEMMA RanksAreAll ==
  ASSUME NEW n \in Nat, NEW L, IsTotalOrder(n, L)
  PROVE  /\ \A k \in 1 .. n : \E i \in 1 .. n : CountUpto(n, L)[i] = k
         /\ \A i, j \in 1 .. n : CountUpto(n, L)[i] = CountUpto(n, L)[j] => i = j
<1> USE DEF IsTotalOrder
<1>0. PICK r : r = CountUpto(n, L)
  OBVIOUS
<1> DEFINE D == 1 .. n
           U(i) == {j \in D : <<j, i>> \in L}
<1>1. IsFiniteSet(D) /\ Cardinality(D) = n
  BY FS_Interval
<1>2. DOMAIN r = D /\ \A i \in D : r[i] = Cardinality(U(i))
  BY <1>0 DEF CountUpto
<1>3. ASSUME NEW i \in D PROVE IsFiniteSet(U(i)) /\ r[i] \in D
  <2>1. U(i) \in SUBSET D /\ i \in U(i)
    OBVIOUS
  <2> HIDE DEF U
  <2>2. IsFiniteSet(U(i)) /\ Cardinality(U(i)) <= n
    BY <1>1, <2>1, FS_Subset
  <2>3. Cardinality(U(i)) \in Nat /\ Cardinality(U(i)) # 0
    BY <2>1, <2>2, FS_CardinalityType, FS_EmptySet
  <2> QED
    BY <1>2, <2>2, <2>3
<1>4. ASSUME NEW i \in D, NEW j \in D, <<i, j>> \in L, r[i] = r[j] PROVE i = j
  <2>1. U(i) \in SUBSET U(j) /\ j \in U(j)
    BY <1>4
  <2>2. IsFiniteSet(U(j)) /\ Cardinality(U(j)) = Cardinality(U(i))
    BY <1>2, <1>3, <1>4
  <2>3. U(j) = U(i)
    <3> HIDE DEF U
    <3> QED
      BY <2>1, <2>2, FS_Subset
  <2>4. <<j, i>> \in L
    BY <2>1, <2>3
  <2> QED
    BY <1>4, <2>4
<1>5. \A i, j \in D : r[i] = r[j] => i = j
  BY <1>4
<1>6. r \in Injection(D, D)
  <2>1. r \in [D -> D]
    BY <1>0, <1>2, <1>3 DEF CountUpto
  <2> QED
    BY <1>5, <2>1 DEF Injection, IsInjective
<1>7. r \in Surjection(D, D)
  <2> HIDE DEF D
  <2> QED
    BY <1>1, <1>6, FS_Injection
<1> QED
  BY <1>0, <1>5, <1>7 DEF Surjection

(* IR addresses are in a total order. *)
LEMMA BeforeIsTotal ==
  ASSUME NEW p \in Nat \X Nat, NEW q \in Nat \X Nat, NEW t \in Nat \X Nat
  PROVE  /\ ~ Before(p, p)
         /\ Before(p, q) \/ p = q \/ Before(q, p)
         /\ ~ (Before(p, q) /\ Before(q, p))
         /\ Before(p, q) /\ Before(q, t) => Before(p, t)
<1>1. \A x \in Nat \X Nat : x[1] \in Nat /\ x[2] \in Nat /\ x = <<x[1], x[2]>>
  OBVIOUS
<1>2. p[1] = q[1] /\ p[2] = q[2] => p = q
  OBVIOUS
<1> QED
  BY <1>1, <1>2 DEF Before

(* Func.sort: the sorted list has the instructions of the list, each once. *)
LEMMA SortedIs ==
  ASSUME NEW S \in SUBSET (Nat \X Nat), NEW list \in Seq(S), NoDup(list)
  PROVE  /\ Sorted(list) \in Seq(S) /\ NoDup(Sorted(list)) /\ Range(Sorted(list)) = Range(list)
<1>1. PICK n \in Nat : n = Len(list)
  OBVIOUS
<1>2. DOMAIN list = 1 .. n /\ \A i \in 1 .. n : list[i] \in S
  BY <1>1
<1> DEFINE D == 1 .. n
           Upto(j, i) == Before(list[j], list[i]) \/ (list[j] = list[i] /\ j <= i)
<1>3. PICK L : L = {q \in D \X D : Upto(q[1], q[2])}
  OBVIOUS
<1>4. PICK r : r = CountUpto(n, L)
  OBVIOUS
<1>5. \A i, j \in D : <<j, i>> \in L <=> Upto(j, i)
  <2> HIDE DEF Upto
  <2> QED
    BY <1>3
<1>6. \A i \in D : r[i] = Rank(list, i)
  <2>1. ASSUME NEW i \in D PROVE r[i] = Rank(list, i)
    <3>1. {j \in D : <<j, i>> \in L} = {j \in D : Upto(j, i)}
      <4> HIDE DEF Upto
      <4> QED
        BY <1>5
    <3>2. Rank(list, i) = Cardinality({j \in D : Upto(j, i)})
      BY <1>2 DEF Rank
    <3> HIDE DEF Upto
    <3> QED
      BY <1>4, <3>1, <3>2 DEF CountUpto
  <2> QED
    BY <2>1
<1>7. \A i \in D : list[i] \in Nat \X Nat
  BY <1>2
<1>8. \A i, j \in D : /\ ~ Before(list[i], list[i])
                      /\ Before(list[i], list[j]) \/ list[i] = list[j] \/ Before(list[j], list[i])
                      /\ ~ (Before(list[i], list[j]) /\ Before(list[j], list[i]))
  BY <1>7, BeforeIsTotal
<1>9. \A i, j, k \in D : Before(list[i], list[j]) /\ Before(list[j], list[k]) => Before(list[i], list[k])
  BY <1>7, BeforeIsTotal
<1>10. \A i \in D : i \in Int
  OBVIOUS
<1>11. /\ \A i \in D : Upto(i, i)
       /\ \A i, j \in D : Upto(i, j) \/ Upto(j, i)
       /\ \A i, j \in D : Upto(i, j) /\ Upto(j, i) => i = j
       /\ \A i, j, k \in D : Upto(i, j) /\ Upto(j, k) => Upto(i, k)
  <2>1. \A i, j, k \in D : i <= i /\ (i <= j \/ j <= i) /\ (i <= j /\ j <= i => i = j)
                           /\ (i <= j /\ j <= k => i <= k)
    OBVIOUS
  <2> HIDE DEF D
  <2> QED
    BY <1>8, <1>9, <2>1, Zenon
<1>12. /\ \A k \in D : \E i \in D : r[i] = k
       /\ \A i, j \in D : r[i] = r[j] => i = j
  <2>1. IsTotalOrder(n, L)
    <3> HIDE DEF Upto
    <3> QED
      BY <1>5, <1>11 DEF IsTotalOrder
  <2>2. /\ \A k \in 1 .. n : \E i \in 1 .. n : CountUpto(n, L)[i] = k
        /\ \A i, j \in 1 .. n : CountUpto(n, L)[i] = CountUpto(n, L)[j] => i = j
    <3>1. n \in Nat
      OBVIOUS
    <3> QED
      BY <2>1, <3>1, RanksAreAll, Zenon
  <2> QED
    BY <1>4, <2>2
<1>13. PICK at : at = [k \in D |-> CHOOSE i \in D : Rank(list, i) = k]
  OBVIOUS
<1>14. \A k \in D : at[k] \in D /\ r[at[k]] = k
  BY <1>6, <1>12, <1>13
<1>15. PICK s : s = Sorted(list)
  OBVIOUS
<1>16. s = [k \in D |-> list[at[k]]]
  BY <1>2, <1>13, <1>15 DEF Sorted
<1>17. s \in Seq(S) /\ DOMAIN s = D
  BY <1>2, <1>14, <1>16
<1>18. NoDup(s)
  <2>1. ASSUME NEW k \in D, NEW m \in D, s[k] = s[m] PROVE k = m
    <3>1. at[k] = at[m]
      BY <1>2, <1>14, <1>16, <2>1 DEF NoDup
    <3> QED
      BY <1>14, <3>1
  <2> QED
    BY <1>17, <2>1 DEF NoDup
<1>19. Range(s) = Range(list)
  <2>1. \A i \in D : r[i] \in D => at[r[i]] = i
    BY <1>12, <1>14
  <2>2. \A i \in D : \E k \in D : at[k] = i
    <3>1. ASSUME NEW i \in D PROVE r[i] \in D
      <4>1. PICK f : f = [k \in D |-> at[k]]
        OBVIOUS
      <4>2. f \in Injection(D, D)
        BY <1>14, <4>1, ZenonT(60) DEF Injection, IsInjective
      <4>3. IsFiniteSet(D)
        BY FS_Interval
      <4>4. f \in Surjection(D, D)
        <5> HIDE DEF D
        <5> QED
          BY <4>2, <4>3, FS_Injection
      <4>5. PICK k \in D : f[k] = i
        BY <4>4 DEF Surjection
      <4> QED
        BY <1>14, <4>1, <4>5
    <3> QED
      BY <2>1, <3>1
  <2> QED
    BY <1>2, <1>14, <1>16, <1>17, <2>2, ZenonT(60) DEF Range
<1> QED
  BY <1>15, <1>17, <1>18, <1>19

-----------------------------------------------------------------------------
ChunkType == [addr : Nat, size : Nat \ {0}]
Bytes(cs) == UNION {ChunkBytes(cs[k]) : k \in DOMAIN cs}

(* The ranges a .. e - 1 and b .. f - 1 overlap or touch as Overlaps says. *)
Joinable(a, e, b, f) ==
  /\ a \in Nat /\ e \in Nat /\ b \in Nat /\ f \in Nat /\ a < e /\ b < f
  /\ (a <= b /\ b <= e) \/ (a <= f /\ f <= e)

LEMMA JoinedRange ==
  ASSUME NEW a, NEW e, NEW b, NEW f, Joinable(a, e, b, f)
  PROVE  /\ Least(b, a) \in Nat /\ Greatest(f, e) \in Nat /\ Least(b, a) < Greatest(f, e)
         /\ Least(b, a) .. (Greatest(f, e) - 1) = (a .. (e - 1)) \cup (b .. (f - 1))
<1>1. Least(b, a) \in Nat /\ Greatest(f, e) \in Nat /\ Least(b, a) < Greatest(f, e)
  BY DEF Least, Greatest, Joinable
<1>2. \A x \in Int : x \in Least(b, a) .. (Greatest(f, e) - 1) <=> x \in a .. (e - 1) \/ x \in b .. (f - 1)
  BY DEF Least, Greatest, Joinable
<1>3. a \in Int /\ e - 1 \in Int /\ b \in Int /\ f - 1 \in Int
  BY DEF Joinable
<1> QED
  BY <1>1, <1>2, <1>3

(* A chunk of a range is the bytes of the range. *)
LEMMA ChunkOfRange ==
  ASSUME NEW a \in Nat, NEW e \in Nat, a < e
  PROVE  Chunk(a, e) \in ChunkType /\ ChunkBytes(Chunk(a, e)) = a .. (e - 1)
<1>1. e - a \in Nat \ {0} /\ a + (e - a) = e
  OBVIOUS
<1> QED
  BY <1>1 DEF Chunk, ChunkType, ChunkBytes, BytesOf, End

LEMMA RangeOfChunk ==
  ASSUME NEW c \in ChunkType
  PROVE  c.addr \in Nat /\ End(c) \in Nat /\ c.addr < End(c) /\ ChunkBytes(c) = c.addr .. (End(c) - 1)
BY DEF ChunkType, End, ChunkBytes, BytesOf

(* _add_chunk: whether a chunk grows or a new one is added, the bytes of   *)
(* the range are all that is added.                                        *)
LEMMA AddChunkAdds ==
  ASSUME NEW cs \in Seq(ChunkType), NEW a \in Nat, NEW e \in Nat, a < e
  PROVE  /\ AddChunk(cs, a, e) \in Seq(ChunkType)
         /\ Bytes(AddChunk(cs, a, e)) = Bytes(cs) \cup (a .. (e - 1))
<1> DEFINE hit == {k \in DOMAIN cs : Overlaps(cs[k], a, e)}
<1>1. PICK n \in Nat : n = Len(cs)
  OBVIOUS
<1>2. DOMAIN cs = 1 .. n /\ \A k \in 1 .. n : cs[k] \in ChunkType
  BY <1>1
<1>3. PICK t : t = AddChunk(cs, a, e)
  OBVIOUS
<1>4. CASE hit = {}
  <2>1. PICK c \in ChunkType : c = Chunk(a, e) /\ ChunkBytes(c) = a .. (e - 1)
    BY ChunkOfRange
  <2>2. t = Append(cs, c)
    BY <1>3, <1>4, <2>1 DEF AddChunk
  <2>3. /\ t \in Seq(ChunkType) /\ DOMAIN t = 1 .. (n + 1)
        /\ t[n + 1] = c /\ \A k \in 1 .. n : t[k] = cs[k]
    BY <1>1, <2>2
  <2>4. \A k : k \in 1 .. (n + 1) <=> k \in 1 .. n \/ k = n + 1
    OBVIOUS
  <2>5. Bytes(t) = Bytes(cs) \cup ChunkBytes(c)
    BY <1>2, <2>3, <2>4 DEF Bytes
  <2> QED
    BY <1>3, <2>1, <2>3, <2>5
<1>5. CASE hit # {}
  <2>1. PICK k : k = CHOOSE h \in hit : \A j \in hit : h <= j
    OBVIOUS
  <2>2. k \in hit
    <3>1. hit \in SUBSET (0 .. n) /\ 0 \in Nat
      BY <1>2
    <3> HIDE DEF hit
    <3> QED
      BY <1>5, <2>1, <3>1, FirstOf
  <2>3. k \in 1 .. n /\ Overlaps(cs[k], a, e)
    BY <1>2, <2>2
  <2>4. PICK old \in ChunkType : old = cs[k]
    BY <1>2, <2>3
  <2>5. /\ old.addr \in Nat /\ End(old) \in Nat /\ old.addr < End(old)
        /\ ChunkBytes(old) = old.addr .. (End(old) - 1)
    BY RangeOfChunk
  <2>6. PICK lo : lo = Least(a, old.addr)
    OBVIOUS
  <2>7. PICK hi : hi = Greatest(e, End(old))
    OBVIOUS
  <2>8. lo \in Nat /\ hi \in Nat /\ lo < hi /\ lo .. (hi - 1) = ChunkBytes(old) \cup (a .. (e - 1))
    <3>1. PICK x \in Nat : x = old.addr
      BY <2>5
    <3>2. PICK y \in Nat : y = End(old)
      BY <2>5
    <3>3. Joinable(x, y, a, e)
      BY <2>3, <2>4, <2>5, <3>1, <3>2 DEF Overlaps, Joinable
    <3>4. /\ Least(a, x) \in Nat /\ Greatest(e, y) \in Nat /\ Least(a, x) < Greatest(e, y)
          /\ Least(a, x) .. (Greatest(e, y) - 1) = (x .. (y - 1)) \cup (a .. (e - 1))
      BY <3>3, JoinedRange
    <3> QED
      BY <2>5, <2>6, <2>7, <3>1, <3>2, <3>4
  <2>9. PICK c \in ChunkType : c = Chunk(lo, hi) /\ ChunkBytes(c) = ChunkBytes(old) \cup (a .. (e - 1))
    BY <2>8, ChunkOfRange
  <2>10. t = [cs EXCEPT ![k] = c]
    BY <1>3, <1>5, <2>1, <2>4, <2>6, <2>7, <2>9 DEF AddChunk
  <2> HIDE DEF hit
  <2>11. t \in Seq(ChunkType) /\ DOMAIN t = 1 .. n /\ t[k] = c /\ \A j \in 1 .. n : j # k => t[j] = cs[j]
    BY <1>1, <1>2, <2>3, <2>10
  <2>12. Bytes(t) = Bytes(cs) \cup (a .. (e - 1))
    <3>1. Bytes(t) \subseteq Bytes(cs) \cup (a .. (e - 1))
      BY <1>2, <2>3, <2>4, <2>9, <2>11 DEF Bytes
    <3>2. Bytes(cs) \cup (a .. (e - 1)) \subseteq Bytes(t)
      BY <1>2, <2>3, <2>4, <2>9, <2>11 DEF Bytes
    <3> QED
      BY <3>1, <3>2
  <2> QED
    BY <1>3, <2>11, <2>12
<1> QED
  BY <1>4, <1>5

(* A pass of add_chunk over the chunks, chunk by chunk. *)
LEMMA RemergeSteps ==
  ASSUME NEW cs \in Seq(ChunkType), NEW n \in Nat, n = Len(cs)
  PROVE  \E R : /\ Remerge(cs) = R[n] /\ R[0] = << >>
                /\ \A k \in 0 .. n - 1 : R[k + 1] = AddChunk(R[k], cs[k + 1].addr, End(cs[k + 1]))
<1>2. DOMAIN cs = 1 .. n /\ \A k \in 1 .. n : cs[k] \in ChunkType
  OBVIOUS
<1> DEFINE Body(h, k) == IF k = 0 THEN << >> ELSE AddChunk(h[k - 1], cs[k].addr, End(cs[k]))
<1>3. PICK R : R = CHOOSE h : h = [k \in 0 .. n |-> Body(h, k)]
  OBVIOUS
<1>4. Remerge(cs) = R[n]
  BY <1>3 DEF Remerge
<1>5. PICK g : g = [p \in (1 .. n) \X Seq(ChunkType) |-> AddChunk(p[2], cs[p[1]].addr, End(cs[p[1]]))]
  OBVIOUS
<1>6. ASSUME NEW k \in 1 .. n, NEW y \in Seq(ChunkType)
      PROVE  /\ AddChunk(y, cs[k].addr, End(cs[k])) \in Seq(ChunkType)
             /\ Bytes(AddChunk(y, cs[k].addr, End(cs[k]))) = Bytes(y) \cup ChunkBytes(cs[k])
  <2>1. PICK c \in ChunkType : c = cs[k]
    BY <1>2
  <2>2. PICK a : a = c.addr
    OBVIOUS
  <2>3. PICK e : e = End(c)
    OBVIOUS
  <2>4. a \in Nat /\ e \in Nat /\ a < e /\ ChunkBytes(c) = a .. (e - 1)
    BY <2>2, <2>3, RangeOfChunk
  <2>5. /\ AddChunk(y, a, e) \in Seq(ChunkType)
        /\ Bytes(AddChunk(y, a, e)) = Bytes(y) \cup (a .. (e - 1))
    <3>1. y \in Seq(ChunkType)
      OBVIOUS
    <3> QED
      BY <2>4, <3>1, AddChunkAdds
  <2> QED
    BY <2>1, <2>2, <2>3, <2>4, <2>5
<1>7. IsStep(Seq(ChunkType), n, g)
  BY <1>5, <1>6 DEF IsStep
<1>8. PICK f : Iterates(Seq(ChunkType), << >>, n, g, f)
  <2>1. << >> \in Seq(ChunkType) /\ n \in Nat
    OBVIOUS
  <2> QED
    BY <1>7, <2>1, Iteration
<1>9. f = [k \in 0 .. n |-> Body(f, k)]
  <2>1. f \in [0 .. n -> Seq(ChunkType)] /\ f[0] = << >> /\ \A k \in 1 .. n : f[k] = g[<<k, f[k - 1]>>]
    BY <1>8 DEF Iterates
  <2>2. ASSUME NEW k \in 1 .. n PROVE f[k] = Body(f, k)
    <3>1. k - 1 \in 0 .. n /\ k # 0
      OBVIOUS
    <3>2. f[k - 1] \in Seq(ChunkType)
      BY <2>1, <3>1
    <3> QED
      BY <1>5, <2>1, <3>1, <3>2
  <2>3. \A k \in 0 .. n : f[k] = Body(f, k)
    <3>1. \A k \in 0 .. n : k = 0 \/ k \in 1 .. n
      OBVIOUS
    <3> QED
      BY <2>1, <2>2, <3>1
  <2> HIDE DEF Body
  <2> QED
    BY <2>1, <2>3
<1>10. R = [k \in 0 .. n |-> Body(R, k)]
  <2> HIDE DEF Body
  <2> QED
    BY <1>3, <1>9
<1>11. \A k \in 0 .. n : R[k] = Body(R, k)
  <2> HIDE DEF Body
  <2> QED
    BY <1>10
<1>12. R[0] = << >>
  BY <1>11
<1>13. ASSUME NEW k \in 0 .. n - 1
       PROVE  R[k + 1] = AddChunk(R[k], cs[k + 1].addr, End(cs[k + 1]))
  <2>1. k + 1 \in 0 .. n /\ (k + 1) - 1 = k /\ k + 1 # 0
    OBVIOUS
  <2> QED
    BY <1>11, <2>1
<1> QED
  BY <1>4, <1>12, <1>13

(* A pass of add_chunk over the chunks keeps their bytes. *)
LEMMA RemergeKeepsBytes ==
  ASSUME NEW cs \in Seq(ChunkType)
  PROVE  Remerge(cs) \in Seq(ChunkType) /\ Bytes(Remerge(cs)) = Bytes(cs)
<1>1. PICK n \in Nat : n = Len(cs)
  OBVIOUS
<1>2. DOMAIN cs = 1 .. n /\ \A k \in 1 .. n : cs[k] \in ChunkType
  BY <1>1
<1>3. PICK R : /\ Remerge(cs) = R[n] /\ R[0] = << >>
               /\ \A k \in 0 .. n - 1 : R[k + 1] = AddChunk(R[k], cs[k + 1].addr, End(cs[k + 1]))
  BY <1>1, RemergeSteps
<1>4. ASSUME NEW k \in 1 .. n, NEW y \in Seq(ChunkType)
      PROVE  /\ AddChunk(y, cs[k].addr, End(cs[k])) \in Seq(ChunkType)
             /\ Bytes(AddChunk(y, cs[k].addr, End(cs[k]))) = Bytes(y) \cup ChunkBytes(cs[k])
  <2>1. PICK c \in ChunkType : c = cs[k]
    BY <1>2
  <2>2. PICK a : a = c.addr
    OBVIOUS
  <2>3. PICK e : e = End(c)
    OBVIOUS
  <2>4. a \in Nat /\ e \in Nat /\ a < e /\ ChunkBytes(c) = a .. (e - 1)
    BY <2>2, <2>3, RangeOfChunk
  <2>5. /\ AddChunk(y, a, e) \in Seq(ChunkType)
        /\ Bytes(AddChunk(y, a, e)) = Bytes(y) \cup (a .. (e - 1))
    <3>1. y \in Seq(ChunkType)
      OBVIOUS
    <3> QED
      BY <2>4, <3>1, AddChunkAdds
  <2> QED
    BY <2>1, <2>2, <2>3, <2>4, <2>5
<1> DEFINE Part(k) == UNION {ChunkBytes(cs[j]) : j \in 1 .. k}
           Good(k) == R[k] \in Seq(ChunkType) /\ Bytes(R[k]) = Part(k)
           G == {k \in 0 .. n : Good(k)}
<1>12. 0 \in G
  <2>1. R[0] = << >>
    BY <1>3
  <2>2. Part(0) = {} /\ 0 \in 0 .. n
    OBVIOUS
  <2>3. Bytes(<< >>) = {} /\ << >> \in Seq(ChunkType)
    BY DEF Bytes
  <2> HIDE DEF Part
  <2> QED
    BY <2>1, <2>2, <2>3
<1>13. ASSUME NEW k \in 0 .. n - 1, Good(k) PROVE Good(k + 1)
  <2>1. k + 1 \in 1 .. n /\ (k + 1) - 1 = k /\ k + 1 \in 0 .. n /\ k + 1 # 0
    OBVIOUS
  <2>2. Part(k + 1) = Part(k) \cup ChunkBytes(cs[k + 1])
    <3>1. \A j : j \in 1 .. (k + 1) <=> j \in 1 .. k \/ j = k + 1
      OBVIOUS
    <3> QED
      BY <3>1
  <2>3. R[k + 1] = AddChunk(R[k], cs[k + 1].addr, End(cs[k + 1]))
    BY <1>3
  <2> HIDE DEF Part
  <2>4. R[k] \in Seq(ChunkType) /\ Bytes(R[k]) = Part(k)
    BY <1>13
  <2> QED
    BY <1>4, <2>1, <2>2, <2>3, <2>4
<1>14. \A k \in 0 .. n - 1 : k \in G => k + 1 \in G
  <2> HIDE DEF Good
  <2> QED
    BY <1>13
<1>15. Good(n)
  <2> HIDE DEF Good
  <2>1. n \in G
    <3> HIDE DEF G
    <3> QED
      BY <1>12, <1>14, UpTo
  <2> QED
    BY <2>1
<1>16. Bytes(cs) = Part(n)
  BY <1>2 DEF Bytes
<1> QED
  BY <1>3, <1>15, <1>16

(* The passes of add_chunk, one by one. *)
LEMMA MergeSteps ==
  ASSUME NEW cs \in Seq(ChunkType), NEW n \in Nat, n = Len(cs)
  PROVE  \E R : /\ MergeChunks(cs) = R[n] /\ R[0] = cs
                /\ \A k \in 0 .. n - 1 : R[k + 1] = Remerge(R[k])
<1> DEFINE Body(h, k) == IF k = 0 THEN cs ELSE Remerge(h[k - 1])
<1>2. PICK R : R = CHOOSE h : h = [k \in 0 .. n |-> Body(h, k)]
  OBVIOUS
<1>3. MergeChunks(cs) = R[n]
  BY <1>2 DEF MergeChunks
<1>4. PICK g : g = [p \in (1 .. n) \X Seq(ChunkType) |-> Remerge(p[2])]
  OBVIOUS
<1>5. IsStep(Seq(ChunkType), n, g)
  BY <1>4, RemergeKeepsBytes DEF IsStep
<1>6. PICK f : Iterates(Seq(ChunkType), cs, n, g, f)
  <2>1. cs \in Seq(ChunkType) /\ n \in Nat
    OBVIOUS
  <2> QED
    BY <1>5, <2>1, Iteration
<1>7. f = [k \in 0 .. n |-> Body(f, k)]
  <2>1. f \in [0 .. n -> Seq(ChunkType)] /\ f[0] = cs /\ \A k \in 1 .. n : f[k] = g[<<k, f[k - 1]>>]
    BY <1>6 DEF Iterates
  <2>2. ASSUME NEW k \in 1 .. n PROVE f[k] = Body(f, k)
    <3>1. k - 1 \in 0 .. n /\ k # 0
      OBVIOUS
    <3>2. f[k - 1] \in Seq(ChunkType)
      BY <2>1, <3>1
    <3> QED
      BY <1>4, <2>1, <3>1, <3>2
  <2>3. \A k \in 0 .. n : f[k] = Body(f, k)
    <3>1. \A k \in 0 .. n : k = 0 \/ k \in 1 .. n
      OBVIOUS
    <3> QED
      BY <2>1, <2>2, <3>1
  <2> HIDE DEF Body
  <2> QED
    BY <2>1, <2>3
<1>8. R = [k \in 0 .. n |-> Body(R, k)]
  <2> HIDE DEF Body
  <2> QED
    BY <1>2, <1>7
<1>9. \A k \in 0 .. n : R[k] = Body(R, k)
  <2> HIDE DEF Body
  <2> QED
    BY <1>8
<1>10. R[0] = cs
  BY <1>9
<1>11. ASSUME NEW k \in 0 .. n - 1 PROVE R[k + 1] = Remerge(R[k])
  <2>1. k + 1 \in 0 .. n /\ (k + 1) - 1 = k /\ k + 1 # 0
    OBVIOUS
  <2> QED
    BY <1>9, <2>1
<1> QED
  BY <1>3, <1>10, <1>11

(* All the passes of add_chunk keep the bytes of the chunks. *)
LEMMA MergeKeepsBytes ==
  ASSUME NEW cs \in Seq(ChunkType)
  PROVE  MergeChunks(cs) \in Seq(ChunkType) /\ Bytes(MergeChunks(cs)) = Bytes(cs)
<1>1. PICK n \in Nat : n = Len(cs)
  OBVIOUS
<1>2. PICK R : /\ MergeChunks(cs) = R[n] /\ R[0] = cs
               /\ \A k \in 0 .. n - 1 : R[k + 1] = Remerge(R[k])
  BY <1>1, MergeSteps
<1> DEFINE Good(k) == R[k] \in Seq(ChunkType) /\ Bytes(R[k]) = Bytes(cs)
           G == {k \in 0 .. n : Good(k)}
<1>10. 0 \in G
  BY <1>2
<1>11. ASSUME NEW k \in 0 .. n - 1, Good(k) PROVE Good(k + 1)
  <2>2. R[k + 1] = Remerge(R[k])
    BY <1>2
  <2>3. R[k] \in Seq(ChunkType) /\ Bytes(R[k]) = Bytes(cs)
    BY <1>11
  <2> QED
    BY <2>2, <2>3, RemergeKeepsBytes
<1>12. \A k \in 0 .. n - 1 : k \in G => k + 1 \in G
  <2> HIDE DEF Good
  <2> QED
    BY <1>11
<1>13. Good(n)
  <2> HIDE DEF Good
  <2>1. n \in G
    <3> HIDE DEF G
    <3> QED
      BY <1>10, <1>12, UpTo
  <2> QED
    BY <2>1
<1> QED
  BY <1>2, <1>13

-----------------------------------------------------------------------------
LEMMA PositionsArePairs ==
  ASSUME NEW c, IsCode(c)
  PROVE  Positions(c) \in SUBSET (Nat \X Nat)
<1>1. DOMAIN c \subseteq Nat
  BY DEF IsCode
<1>2. \A p \in Positions(c) : p = <<p[1], p[2]>> /\ p[1] \in Nat /\ p[2] \in Nat
  BY <1>1, PositionsOfCode
<1> QED
  BY <1>2

(* The addresses of a block do not go down. *)
LEMMA BlockSpansFrom ==
  ASSUME NEW c, IsCode(c), NEW thumb, NEW b, IsBlock(c, thumb, b)
  PROVE  b[1][1] <= Last(b)[1]
<1>1. /\ b \in Seq(Positions(c)) /\ Len(b) \in Nat \ {0}
      /\ \A k \in 1 .. Len(b) - 1 : b[k + 1] = After(c, b[k])
  BY DEF IsBlock
<1>2. PICK n \in Nat : n = Len(b) - 1
  <2>1. Len(b) - 1 \in Nat
    BY <1>1
  <2> QED
    BY <2>1
<1>3. \A k \in 0 .. n : b[k + 1] \in Positions(c)
  BY <1>1, <1>2
<1>4. \A p \in Positions(c) : p[1] \in DOMAIN c /\ p[1] \in Nat /\ NextAsm(c, p[1]) \in Nat
                              /\ NextAsm(c, p[1]) > p[1]
  BY PositionsOfCode, CodeFacts
<1>5. \A p \in Positions(c) : After(c, p)[1] >= p[1]
  BY <1>4 DEF After
<1> DEFINE G == {k \in 0 .. n : b[1][1] <= b[k + 1][1]}
<1>6. 0 \in G
  <2>1. b[0 + 1][1] \in Nat
    BY <1>3, <1>4
  <2> QED
    BY <2>1
<1>7. ASSUME NEW k \in 0 .. n - 1, k \in G PROVE k + 1 \in G
  <2>1. k + 1 \in 1 .. Len(b) - 1 /\ k + 1 \in 0 .. n /\ k \in 0 .. n /\ 0 \in 0 .. n
    BY <1>1, <1>2
  <2>2. b[(k + 1) + 1] = After(c, b[k + 1])
    BY <1>1, <2>1
  <2>3. b[(k + 1) + 1][1] >= b[k + 1][1]
    BY <1>3, <1>5, <2>1, <2>2
  <2>4. b[(k + 1) + 1][1] \in Nat /\ b[k + 1][1] \in Nat /\ b[0 + 1][1] \in Nat
    BY <1>3, <1>4, <2>1
  <2>5. b[1][1] <= b[k + 1][1]
    BY <1>7
  <2>6. b[1][1] <= b[(k + 1) + 1][1]
    BY <2>3, <2>4, <2>5
  <2> QED
    BY <2>1, <2>6
<1>8. n \in G
  <2> HIDE DEF G
  <2> QED
    BY <1>6, <1>7, UpTo
<1>9. Last(b) = b[n + 1]
  BY <1>1, <1>2 DEF Last
<1> QED
  BY <1>8, <1>9

(* So it spans some bytes. *)
LEMMA BlockSpans ==
  ASSUME NEW c, IsCode(c), NEW thumb, NEW b, IsBlock(c, thumb, b)
  PROVE  /\ Head(b)[1] \in Nat /\ Head(b)[1] + BlockSize(c, b) \in Nat
         /\ Head(b)[1] < Head(b)[1] + BlockSize(c, b)
<1>1. b \in Seq(Positions(c)) /\ Len(b) \in Nat \ {0}
  BY DEF IsBlock
<1>2. Head(b) = b[1] /\ Last(b) = b[Len(b)] /\ b[1] \in Positions(c) /\ Last(b) \in Positions(c)
  BY <1>1 DEF Last
<1>3. \A p \in Positions(c) : p[1] \in Nat /\ NextAsm(c, p[1]) \in Nat /\ NextAsm(c, p[1]) > p[1]
  BY PositionsOfCode, CodeFacts
<1>4. PICK x \in Nat : x = b[1][1]
  BY <1>2, <1>3
<1>5. PICK y \in Nat : y = NextAsm(c, Last(b)[1]) /\ y > Last(b)[1] /\ Last(b)[1] \in Nat
  BY <1>2, <1>3
<1>6. x < y /\ BlockSize(c, b) = y - x
  BY <1>2, <1>4, <1>5, BlockSpansFrom DEF BlockSize
<1>7. x + (y - x) = y
  OBVIOUS
<1> QED
  BY <1>2, <1>4, <1>5, <1>6, <1>7

(* A return always ends a block. *)
LEMMA ReturnEndsBlock ==
  ASSUME NEW c, IsCode(c), NEW thumb, NEW p \in Positions(c), Has(InsnAt(c, p), "RET")
  PROVE  EndsBlock(c, thumb, p)
<1>1. p[1] \in DOMAIN c /\ p[2] \in Nat /\ p[2] \in 0 .. Len(c[p[1]].ir) - 1
      /\ Len(c[p[1]].ir) \in Nat
  BY PositionsOfCode
<1>2. "BB_END" \in InsnAt(c, p).flags /\ InsnAt(c, p).target = NoLoc
  BY InsnOfPosition DEF Has
<1>3. CASE IsPosition(c, <<p[1], p[2] + 1>>)
  BY <1>2, <1>3 DEF EndsBlock, Has
<1>4. CASE ~ IsPosition(c, <<p[1], p[2] + 1>>)
  <2>1. p[2] + 1 = Len(c[p[1]].ir)
    <3>1. p[2] + 1 \notin 0 .. Len(c[p[1]].ir) - 1
      BY <1>1, <1>4 DEF IsPosition
    <3> QED
      BY <1>1, <3>1
  <2>2. Last(c[p[1]].ir) = InsnAt(c, p)
    BY <2>1 DEF Last, InsnAt
  <2>3. ~ ThumbPropagation(c, thumb, p[1])
    <3>1. <<NextAsm(c, p[1]), 0>> # NoLoc
      BY DEF NoLoc
    <3> QED
      BY <1>2, <2>2, <3>1 DEF ThumbPropagation
  <2> QED
    BY <1>2, <2>2, <2>3 DEF EndsBlock, EndsAsmBlock, Has
<1> QED
  BY <1>3, <1>4

(* So a block has one return at most, its last instruction. *)
LEMMA ReturnIsLast ==
  ASSUME NEW c, IsCode(c), NEW thumb, NEW b, IsBlock(c, thumb, b), NEW p \in Range(b),
         Has(InsnAt(c, p), "RET")
  PROVE  p = Last(b)
<1>1. /\ b \in Seq(Positions(c)) /\ Len(b) \in Nat \ {0}
      /\ \A k \in 1 .. Len(b) - 1 : ~ EndsBlock(c, thumb, b[k])
  BY DEF IsBlock
<1>2. PICK k \in 1 .. Len(b) : p = b[k]
  BY <1>1 DEF Range
<1>3. EndsBlock(c, thumb, p)
  BY <1>1, <1>2, ReturnEndsBlock
<1>4. k = Len(b)
  BY <1>1, <1>2, <1>3
<1> QED
  BY <1>1, <1>2, <1>4 DEF Last

-----------------------------------------------------------------------------
NodeBytes == UNION {BytesOf(n[1], n[1] + BlockSize(code, blocks[n])) : n \in nodes}
Returns(S) == {ir \in S : Has(InsnAt(code, ir), "RET")}

(* The types of the Func, in the states of the AttributeError too. *)
FuncTypes ==
  /\ BlocksOfCode /\ entry \in Named(code)
  /\ insns \in Seq(Positions(code))
  /\ first \in {NoLoc, entry}
  /\ lasts \subseteq Positions(code)
  /\ stackArgs \in lasts \cup {NoLoc}
  /\ chunks \in Seq(ChunkType)

(* Unless add_bb has raised an exception, the Func is that of the blocks   *)
(* visited so far.                                                         *)
FuncOfNodes ==
  /\ TypesInv
  /\ NoDup(insns) /\ Range(insns) = Covered
  /\ lasts = Returns(Covered) /\ (lasts # {} => stackArgs \in lasts)
  /\ Bytes(chunks) = NodeBytes

FuncInv == FuncTypes /\ (pc # "attribute_error" => FuncOfNodes)

LEMMA FuncInitInv ==
  ASSUME FuncInit
  PROVE  FuncInv
<1> USE DEF FuncInit
<1>1. TypesInv /\ nodes = {}
  BY InitTypes DEF CFGInit
<1>2. Covered = {} /\ NodeBytes = {} /\ Returns({}) = {}
  BY <1>1 DEF Covered, NodeBytes, Returns
<1>3. NoDup(<< >>) /\ Range(<< >>) = {} /\ Bytes(<< >>) = {}
  BY DEF NoDup, Range, Bytes
<1>4. << >> \in Seq(Positions(code)) /\ << >> \in Seq(ChunkType)
  OBVIOUS
<1> QED
  BY <1>1, <1>2, <1>3, <1>4 DEF FuncInv, FuncTypes, FuncOfNodes, TypesInv

(* What is new in the graph when a block is added to it. *)
LEMMA NewNode ==
  ASSUME NEW node, nodes' = nodes \cup {node}, UNCHANGED <<code, blocks>>
  PROVE  /\ Covered' = Covered \cup {blocks[node][k] : k \in DOMAIN blocks[node]}
         /\ NodeBytes' = NodeBytes \cup BytesOf(node[1], node[1] + BlockSize(code, blocks[node]))
         /\ \A S : Returns(S)' = Returns(S)
<1>1. Covered' = UNION {{blocks[n][k] : k \in DOMAIN blocks[n]} : n \in nodes \cup {node}}
  BY DEF Covered
<1>2. NodeBytes' = UNION {BytesOf(n[1], n[1] + BlockSize(code, blocks[n])) : n \in nodes \cup {node}}
  BY DEF NodeBytes
<1> QED
  BY <1>1, <1>2 DEF Covered, NodeBytes, Returns

(* Nothing of the graph changes: nothing that the Func is measured by does.*)
LEMMA SameNodes ==
  ASSUME UNCHANGED <<code, blocks, nodes>>
  PROVE  Covered' = Covered /\ NodeBytes' = NodeBytes /\ \A S : Returns(S)' = Returns(S)
BY DEF Covered, NodeBytes, Returns

(* add_bb of a block: what becomes of the Func. *)
LEMMA AddBBEffect ==
  ASSUME FuncInv, pc # "attribute_error", NEW b, IsBlock(code, Thumb, b), AddBB(b), UNCHANGED code
  PROVE  /\ insns' \in Seq(Positions(code)) /\ NoDup(insns') /\ Range(insns') = Covered \cup Range(b)
         /\ lasts' = Returns(Covered \cup Range(b))
         /\ lasts' \subseteq Positions(code)
         /\ lasts' # {} => stackArgs' \in lasts'
         /\ lasts' = {} => stackArgs' = stackArgs
         /\ chunks' \in Seq(ChunkType)
         /\ Bytes(chunks') = NodeBytes \cup BytesOf(Head(b)[1], Head(b)[1] + BlockSize(code, b))
         /\ first' \in {first, entry}
<1>1. /\ IsCode(code) /\ insns \in Seq(Positions(code)) /\ NoDup(insns) /\ Range(insns) = Covered
      /\ lasts = Returns(Covered) /\ (lasts # {} => stackArgs \in lasts) /\ Bytes(chunks) = NodeBytes
      /\ chunks \in Seq(ChunkType) /\ lasts \subseteq Positions(code)
  BY DEF FuncInv, FuncTypes, FuncOfNodes, BlocksOfCode
<1>2. b \in Seq(Positions(code)) /\ Len(b) \in Nat \ {0}
  BY DEF IsBlock
<1>3. /\ insns' \in Seq(Positions(code)) /\ NoDup(insns') /\ Range(insns') = Covered \cup Range(b)
  <2>1. insns' = WithInsns(insns, b)
    BY DEF AddBB
  <2> QED
    BY <1>1, <1>2, <2>1, WithInsnsAdds
<1>4. Last(b) \in Range(b) /\ Range(b) \subseteq Positions(code)
  BY <1>2 DEF Range, Last
<1>5. /\ lasts' = Returns(Covered \cup Range(b))
      /\ lasts' # {} => stackArgs' \in lasts'
      /\ lasts' = {} => stackArgs' = stackArgs
  <2>1. CASE Has(InsnAt(code, Last(b)), "RET")
    <3>1. Returns(Range(b)) = {Last(b)}
      BY <1>1, <1>4, <2>1, ReturnIsLast DEF Returns
    <3>2. lasts' = lasts \cup {Last(b)} /\ stackArgs' = Last(b)
      BY <2>1 DEF AddBB
    <3>3. Returns(Covered \cup Range(b)) = Returns(Covered) \cup Returns(Range(b))
      BY DEF Returns
    <3> QED
      BY <1>1, <3>1, <3>2, <3>3
  <2>2. CASE ~ Has(InsnAt(code, Last(b)), "RET")
    <3>1. Returns(Range(b)) = {}
      BY <1>1, <2>2, ReturnIsLast DEF Returns
    <3>2. lasts' = lasts /\ stackArgs' = stackArgs
      BY <2>2 DEF AddBB
    <3>3. Returns(Covered \cup Range(b)) = Returns(Covered) \cup Returns(Range(b))
      BY DEF Returns
    <3> QED
      BY <1>1, <3>1, <3>2, <3>3
  <2> QED
    BY <2>1, <2>2
<1>6. lasts' \subseteq Positions(code)
  <2>1. Covered \subseteq Positions(code)
    BY <1>1 DEF Range
  <2> QED
    BY <1>4, <1>5, <2>1 DEF Returns
<1>7. /\ chunks' \in Seq(ChunkType)
      /\ Bytes(chunks') = NodeBytes \cup BytesOf(Head(b)[1], Head(b)[1] + BlockSize(code, b))
  <2>1. PICK a : a = Head(b)[1]
    OBVIOUS
  <2>2. PICK e : e = Head(b)[1] + BlockSize(code, b)
    OBVIOUS
  <2>3. a \in Nat /\ e \in Nat /\ a < e
    BY <1>1, <2>1, <2>2, BlockSpans
  <2>4. PICK t : t = AddChunk(chunks, a, e)
    OBVIOUS
  <2>5. t \in Seq(ChunkType) /\ Bytes(t) = Bytes(chunks) \cup (a .. (e - 1))
    BY <1>1, <2>3, <2>4, AddChunkAdds
  <2>6. chunks' = MergeChunks(t)
    BY <2>1, <2>2, <2>4 DEF AddBB
  <2>7. chunks' \in Seq(ChunkType) /\ Bytes(chunks') = Bytes(t)
    BY <2>5, <2>6, MergeKeepsBytes
  <2> QED
    BY <1>1, <2>1, <2>2, <2>5, <2>7 DEF BytesOf
<1>8. first' \in {first, entry}
  BY DEF AddBB
<1> QED
  BY <1>3, <1>5, <1>6, <1>7, <1>8

(* The iteration that adds a new block to the graph and to the Func. *)
LEMMA VisitNewKeepsInv ==
  ASSUME FuncInv, VisitNew
  PROVE  FuncInv'
<1>1. Visit /\ AddBB(blocks[cur]) /\ pc = "loop" /\ UNCHANGED <<code, blocks, entry>>
  BY DEF VisitNew, Visit
<1>2. TypesInv /\ FuncTypes /\ FuncOfNodes
  BY <1>1 DEF FuncInv, FuncOfNodes
<1>3. TypesInv' /\ pc' \in {"loop", "edges"}
  BY <1>1, <1>2, VisitKeepsTypes, VisitEffect
<1>4. PICK node : node = Head(blocks[cur])
  OBVIOUS
<1>5. PICK b : b = blocks[cur]
  OBVIOUS
<1>6. nodes' = nodes \cup {node} /\ blocks[node] = b /\ b # << >>
  BY <1>1, <1>2, <1>4, <1>5, VisitEffect
<1>7. IsBlock(code, Thumb, b)
  <2>1. cur \in Named(code) /\ BlocksOfCode
    BY <1>2 DEF TypesInv
  <2> QED
    BY <1>5, <1>6, <2>1, BlockOfNamed
<1>8. /\ Covered' = Covered \cup {b[k] : k \in DOMAIN b}
      /\ NodeBytes' = NodeBytes \cup BytesOf(node[1], node[1] + BlockSize(code, b))
      /\ \A S : Returns(S)' = Returns(S)
  BY <1>1, <1>6, NewNode
<1>9. Covered' = Covered \cup Range(b)
  BY <1>8 DEF Range
<1>10. /\ insns' \in Seq(Positions(code)) /\ NoDup(insns') /\ Range(insns') = Covered \cup Range(b)
       /\ lasts' = Returns(Covered \cup Range(b))
       /\ lasts' \subseteq Positions(code)
       /\ lasts' # {} => stackArgs' \in lasts'
       /\ lasts' = {} => stackArgs' = stackArgs
       /\ chunks' \in Seq(ChunkType)
       /\ Bytes(chunks') = NodeBytes \cup BytesOf(Head(b)[1], Head(b)[1] + BlockSize(code, b))
       /\ first' \in {first, entry}
  BY <1>1, <1>5, <1>7, AddBBEffect
<1>11. FuncTypes'
  <2>1. BlocksOfCode' /\ entry' \in Named(code')
    BY <1>3 DEF TypesInv
  <2>2. stackArgs' \in lasts' \cup {NoLoc}
    <3>1. lasts' = {} => lasts = {}
      BY <1>2, <1>10 DEF FuncOfNodes, Returns
    <3> QED
      BY <1>2, <1>10, <3>1 DEF FuncTypes
  <2>3. first' \in {NoLoc, entry'}
    BY <1>1, <1>2, <1>10 DEF FuncTypes
  <2> QED
    BY <1>1, <1>10, <2>1, <2>2, <2>3 DEF FuncTypes
<1>12. FuncOfNodes'
  <2>1. NoDup(insns)' /\ Range(insns)' = Covered'
    BY <1>9, <1>10 DEF NoDup, Range
  <2>2. lasts' = Returns(Covered)'
    BY <1>1, <1>9, <1>10 DEF Returns
  <2>3. Bytes(chunks)' = NodeBytes'
    BY <1>4, <1>5, <1>8, <1>10 DEF Bytes
  <2> QED
    BY <1>3, <1>10, <2>1, <2>2, <2>3 DEF FuncOfNodes
<1> QED
  BY <1>11, <1>12 DEF FuncInv

(* A step that leaves the blocks of the graph and the Func as they are. *)
LEMMA FuncUnchanged ==
  ASSUME FuncInv, UNCHANGED <<code, blocks, entry, nodes, first, lasts, chunks, stackArgs>>,
         pc # "attribute_error", TypesInv',
         NoDup(insns') /\ Range(insns') = Range(insns) /\ insns' \in Seq(Positions(code))
  PROVE  FuncInv'
<1>1. FuncTypes /\ FuncOfNodes
  BY DEF FuncInv
<1>2. Covered' = Covered /\ NodeBytes' = NodeBytes /\ \A S : Returns(S)' = Returns(S)
  BY SameNodes
<1>3. FuncTypes'
  BY <1>1 DEF FuncTypes, TypesInv
<1>4. lasts' = Returns(Covered)'
  BY <1>1, <1>2 DEF FuncOfNodes, Returns
<1>5. Bytes(chunks)' = NodeBytes'
  BY <1>1, <1>2 DEF FuncOfNodes, Bytes
<1>6. NoDup(insns)' /\ Range(insns)' = Covered'
  BY <1>1, <1>2 DEF FuncOfNodes, NoDup, Range
<1>7. FuncOfNodes'
  BY <1>1, <1>4, <1>5, <1>6 DEF FuncOfNodes
<1> QED
  BY <1>3, <1>7 DEF FuncInv

(* add_bb raises AttributeError: what is left is typed. *)
LEMMA AddBBFailsKeepsInv ==
  ASSUME FuncInv, AddBBFails
  PROVE  FuncInv'
<1>1. /\ UNCHANGED <<code, blocks, entry, insns, chunks, stackArgs>>
      /\ pc = "loop" /\ pc' = "attribute_error" /\ blocks[cur] # << >>
      /\ first' = IF Head(blocks[cur]) = entry THEN entry ELSE first
      /\ lasts' = lasts \cup {Last(blocks[cur])}
  BY DEF AddBBFails
<1>2. FuncTypes /\ TypesInv
  BY <1>1 DEF FuncInv, FuncOfNodes
<1>3. Last(blocks[cur]) \in Positions(code)
  <2>1. cur \in Named(code) /\ BlocksOfCode
    BY <1>2 DEF TypesInv
  <2> QED
    BY <1>1, <2>1, BlockOfNamed, LastOfBlock
<1>4. BlocksOfCode'
  BY <1>1, <1>2, RigidParts DEF FuncTypes
<1>5. FuncTypes'
  BY <1>1, <1>2, <1>3, <1>4 DEF FuncTypes
<1> QED
  BY <1>1, <1>5 DEF FuncInv

LEMMA FuncNextKeepsInv ==
  ASSUME FuncInv, [FuncNext]_<<cfgVars, funcVars>>
  PROVE  FuncInv'
<1>1. CASE VisitNew
  BY <1>1, VisitNewKeepsInv
<1>2. CASE VisitAgain
  <2>1. Visit /\ pc = "loop" /\ UNCHANGED <<code, blocks, entry, first, lasts, chunks, stackArgs, insns>>
    BY <1>2 DEF VisitAgain, Visit, funcVars
  <2>2. FuncOfNodes /\ FuncTypes
    BY <2>1 DEF FuncInv
  <2>3. TypesInv /\ TypesInv'
    BY <2>1, <2>2, VisitKeepsTypes DEF FuncOfNodes
  <2>4. nodes' = nodes
    BY <1>2, <2>1, <2>3, VisitEffect DEF VisitAgain, NewBlock
  <2>5. NoDup(insns') /\ Range(insns') = Range(insns) /\ insns' \in Seq(Positions(code))
    BY <2>1, <2>2 DEF FuncOfNodes, FuncTypes
  <2> QED
    BY <2>1, <2>3, <2>4, <2>5, FuncUnchanged
<1>3. CASE AddBBFails
  BY <1>3, AddBBFailsKeepsInv
<1>4. CASE Finish
  <2>1. AddEdges /\ pc = "edges" /\ UNCHANGED <<code, blocks, entry, nodes, first, lasts, chunks, stackArgs>>
    BY <1>4 DEF Finish, AddEdges
  <2>2. FuncOfNodes /\ FuncTypes
    BY <2>1 DEF FuncInv
  <2>3. TypesInv /\ TypesInv'
    BY <2>1, <2>2, NextKeepsTypes DEF FuncOfNodes, CFGNext
  <2>4. NoDup(insns) /\ insns \in Seq(Positions(code))
    BY <2>2 DEF FuncOfNodes, FuncTypes
  <2>5. /\ Sorted(insns) \in Seq(Positions(code)) /\ NoDup(Sorted(insns))
        /\ Range(Sorted(insns)) = Range(insns)
    <3>1. Positions(code) \in SUBSET (Nat \X Nat)
      BY <2>2, PositionsArePairs DEF FuncTypes, BlocksOfCode
    <3> QED
      BY <2>4, <3>1, SortedIs
  <2>6. insns' = Sorted(insns) \/ insns' = insns
    BY <1>4 DEF Finish
  <2>7. NoDup(insns') /\ Range(insns') = Range(insns) /\ insns' \in Seq(Positions(code))
    BY <2>4, <2>5, <2>6
  <2> QED
    BY <2>1, <2>3, <2>7, FuncUnchanged
<1>5. CASE FuncFail
  <2>1. Fail /\ pc = "loop" /\ UNCHANGED <<code, blocks, entry, nodes, first, lasts, chunks, stackArgs, insns>>
    BY <1>5 DEF FuncFail, Fail, funcVars
  <2>2. FuncOfNodes /\ FuncTypes
    BY <2>1 DEF FuncInv
  <2>3. TypesInv /\ TypesInv'
    BY <2>1, <2>2, NextKeepsTypes DEF FuncOfNodes, CFGNext
  <2>4. NoDup(insns') /\ Range(insns') = Range(insns) /\ insns' \in Seq(Positions(code))
    BY <2>1, <2>2 DEF FuncOfNodes, FuncTypes
  <2> QED
    BY <2>1, <2>3, <2>4, FuncUnchanged
<1>6. CASE UNCHANGED <<cfgVars, funcVars>>
  <2>1. UNCHANGED cfgVars /\ UNCHANGED <<pc, code, blocks, entry, nodes, first, lasts, chunks, stackArgs, insns>>
    BY <1>6 DEF cfgVars, funcVars
  <2>2. CASE pc = "attribute_error"
    <3>1. BlocksOfCode' = BlocksOfCode
      BY <2>1, RigidParts
    <3> QED
      BY <2>1, <2>2, <3>1 DEF FuncInv, FuncTypes
  <2>3. CASE pc # "attribute_error"
    <3>1. FuncOfNodes /\ FuncTypes
      BY <2>3 DEF FuncInv
    <3>2. TypesInv /\ TypesInv'
      BY <2>1, <3>1, NextKeepsTypes DEF FuncOfNodes
    <3>3. NoDup(insns') /\ Range(insns') = Range(insns) /\ insns' \in Seq(Positions(code))
      BY <2>1, <3>1 DEF FuncOfNodes, FuncTypes
    <3> QED
      BY <2>1, <2>3, <3>2, <3>3, FuncUnchanged
  <2> QED
    BY <2>2, <2>3
<1> QED
  BY <1>1, <1>2, <1>3, <1>4, <1>5, <1>6 DEF FuncNext

LEMMA FuncInvHolds == FuncSpec => []FuncInv
<1>1. FuncInit => FuncInv
  BY FuncInitInv
<1>2. FuncInv /\ [FuncNext]_<<cfgVars, funcVars>> => FuncInv'
  BY FuncNextKeepsInv
<1> QED
  BY <1>1, <1>2, PTL DEF FuncSpec

(* The Func is of its types at any moment, the AttributeError of add_bb    *)
(* included: its instructions and returns are ones the code has, and no    *)
(* chunk is empty.                                                         *)
THEOREM FuncTypeCorrect == FuncSpec => []FuncTypeOK
<1>1. ASSUME FuncInv PROVE FuncTypeOK
  <2>1. FuncTypes
    BY <1>1 DEF FuncInv
  <2>2. Range(insns) \subseteq Positions(code)
    BY <2>1 DEF FuncTypes, Range
  <2>3. \A k \in DOMAIN chunks : chunks[k].size > 0
    <3>1. \A k \in DOMAIN chunks : chunks[k] \in ChunkType
      BY <2>1 DEF FuncTypes
    <3> QED
      BY <3>1 DEF ChunkType
  <2> QED
    BY <2>1, <2>2, <2>3 DEF FuncTypes, FuncTypeOK
<1> QED
  BY <1>1, FuncInvHolds, PTL

(* The finished Func has every instruction of the blocks of its graph, and *)
(* has it once, whatever blocks overlap and whatever order they were       *)
(* visited in (add_bb and the final sort of get_func).                     *)
THEOREM InsnsAreExact == FuncSpec => []EachInsnOnce
<1>1. ASSUME FuncInv PROVE EachInsnOnce
  <2>1. SUFFICES ASSUME pc = "done"
                 PROVE  Range(insns) = Covered /\ Len(insns) = Cardinality(Covered)
    BY DEF EachInsnOnce
  <2>2. insns \in Seq(Positions(code)) /\ NoDup(insns) /\ Range(insns) = Covered
    BY <1>1, <2>1 DEF FuncInv, FuncTypes, FuncOfNodes
  <2>3. PICK n \in Nat : n = Len(insns) /\ DOMAIN insns = 1 .. n
    BY <2>2
  <2>4. IsFiniteSet(1 .. n) /\ Cardinality(1 .. n) = n
    BY FS_Interval
  <2>5. insns \in Bijection(1 .. n, Covered)
    <3>1. insns \in [1 .. n -> Covered]
      BY <2>2, <2>3 DEF Range
    <3>2. \A t \in Covered : \E k \in 1 .. n : insns[k] = t
      BY <2>2, <2>3 DEF Range
    <3> QED
      BY <2>2, <2>3, <3>1, <3>2 DEF Bijection, Injection, Surjection, IsInjective, NoDup
  <2>6. Cardinality(Covered) = n
    BY <2>4, <2>5, FS_Bijection DEF ExistsBijection
  <2> QED
    BY <2>2, <2>3, <2>6
<1> QED
  BY <1>1, FuncInvHolds, PTL

(* Func.last is the returns of the function, all of them and no other      *)
(* instruction, and the stack arguments were computed from one of them.    *)
THEOREM ReturnsAreExact == FuncSpec => []ReturnsKnown
<1>1. FuncInv => ReturnsKnown
  BY DEF FuncInv, FuncOfNodes, ReturnsKnown, Returns
<1> QED
  BY <1>1, FuncInvHolds, PTL

(* Func.chunks are the bytes of the blocks of the function, whatever       *)
(* add_chunk and _add_chunk have merged on the way.                        *)
THEOREM ChunksAreExact == FuncSpec => []ChunksExact
<1>1. FuncInv => ChunksExact
  BY DEF FuncInv, FuncOfNodes, ChunksExact, Bytes, NodeBytes
<1> QED
  BY <1>1, FuncInvHolds, PTL

-----------------------------------------------------------------------------
(* A block that has an instruction of a machine instruction has its first  *)
(* one, or the block itself starts at one before it in there.              *)
LEMMA EntersAtStart ==
  ASSUME NEW c, IsCode(c), NEW thumb, NEW b, IsBlock(c, thumb, b)
  PROVE  LET p == Last(b)
         IN  <<p[1], 0>> \in Range(b) \/ (Head(b)[1] = p[1] /\ Head(b)[2] <= p[2])
<1>1. /\ b \in Seq(Positions(c)) /\ Len(b) \in Nat \ {0} /\ DOMAIN b = 1 .. Len(b)
      /\ \A k \in 1 .. Len(b) - 1 : b[k + 1] = After(c, b[k])
  BY DEF IsBlock
<1>2. PICK n \in Nat : n = Len(b) - 1
  <2>1. Len(b) - 1 \in Nat
    BY <1>1
  <2> QED
    BY <2>1
<1>3. \A k \in 0 .. n : b[k + 1] \in Positions(c) /\ b[k + 1] \in Range(b)
  BY <1>1, <1>2 DEF Range
<1>4. Head(b) = b[0 + 1] /\ Last(b) = b[n + 1]
  BY <1>1, <1>2 DEF Last
<1>5. PICK a : a = Last(b)[1]
  OBVIOUS
<1>6. PICK h \in Positions(c) : h = b[0 + 1]
  BY <1>3
<1> DEFINE Good(p) == p[1] = a => <<a, 0>> \in Range(b) \/ (h[1] = a /\ h[2] <= p[2])
           G == {k \in 0 .. n : Good(b[k + 1])}
<1>7. \A p \in Positions(c) : p[2] \in Nat
  BY PositionsOfCode
<1>8. 0 \in G
  <2>1. h[2] <= h[2]
    BY <1>7
  <2> QED
    BY <1>6, <2>1
<1>9. ASSUME NEW k \in 0 .. n - 1, k \in G PROVE k + 1 \in G
  <2>1. k + 1 \in 1 .. Len(b) - 1 /\ k + 1 \in 0 .. n /\ k \in 0 .. n
    BY <1>1, <1>2
  <2>2. PICK p \in Positions(c) : p = b[k + 1] /\ Good(p)
    BY <1>3, <1>9, <2>1
  <2>3. PICK q \in Positions(c) : q = b[(k + 1) + 1] /\ q \in Range(b)
    BY <1>3, <2>1
  <2>4. q = After(c, p)
    BY <1>1, <2>1, <2>2, <2>3
  <2>5. CASE q = <<p[1], p[2] + 1>>
    <3>1. q[1] = p[1] /\ q[2] = p[2] + 1 /\ p[2] \in Nat /\ h[2] \in Nat
      BY <1>7, <2>5
    <3> QED
      BY <2>1, <2>2, <2>3, <3>1
  <2>6. CASE q = <<NextAsm(c, p[1]), 0>>
    <3>1. q[1] = a => <<a, 0>> \in Range(b)
      BY <2>3, <2>6
    <3> QED
      BY <2>1, <2>3, <3>1
  <2> QED
    BY <2>4, <2>5, <2>6 DEF After
<1>10. n \in G
  <2> HIDE DEF G
  <2> QED
    BY <1>8, <1>9, UpTo
<1> QED
  BY <1>4, <1>5, <1>6, <1>10

(* Where a traversal comes from is the start of a machine instruction.     *)
EntryWhole == entry \in {<<a, 0>> : a \in Entries}

(* A block that returns and is visited starts before the machine           *)
(* instruction that returns, or with its first instruction.                *)
LEMMA BlockReturnsWhole ==
  ASSUME CFGInv, EntryWhole, ReturnsWhole, pc = "loop", blocks[cur] # << >>
  PROVE  ~ ReturnsFromMiddle(blocks[cur])
<1>1. SUFFICES ASSUME ReturnsFromMiddle(blocks[cur]) PROVE FALSE
  OBVIOUS
<1>2. PICK b : b = blocks[cur]
  OBVIOUS
<1>3. TypesInv /\ BlocksOfCode /\ IsCode(code) /\ cur \in Named(code) /\ TargetsExist
  BY DEF CFGInv, TypesInv, BlocksOfCode
<1>4. IsBlock(code, Thumb, b) /\ Head(b) = cur /\ cur \in Positions(code)
  BY <1>2, <1>3, BlockOfNamed
<1>5. PICK r \in Positions(code) : r = Last(b)
  BY <1>4, LastOfBlock
<1>6. Has(InsnAt(code, r), "RET") /\ <<r[1], 0>> \notin Range(b)
  BY <1>1, <1>2, <1>5 DEF ReturnsFromMiddle
<1>7. cur[1] = r[1] /\ cur[2] <= r[2]
  BY <1>3, <1>4, <1>5, <1>6, EntersAtStart
<1>8. cur[2] # 0 /\ cur[2] \in Nat /\ r[2] \in Nat /\ cur = <<cur[1], cur[2]>>
  <2>1. cur \in Range(b)
    <3>1. b[1] = cur /\ 1 \in DOMAIN b
      BY <1>4 DEF IsBlock
    <3> QED
      BY <3>1 DEF Range
  <2>2. cur[2] \in Nat /\ r[2] \in Nat /\ cur = <<cur[1], cur[2]>>
    BY <1>3, <1>4, PositionsOfCode
  <2> QED
    BY <1>6, <1>7, <2>1, <2>2
<1>9. /\ \A i \in 0 .. (r[2] - 1) : ~Has(InsnAt(code, <<r[1], i>>), "BB_END")
      /\ \A p \in Positions(code) :
           JccLoc(code, p) # NoLoc /\ JccLoc(code, p)[1] = r[1] => JccLoc(code, p)[2] = 0
  BY <1>6 DEF ReturnsWhole
<1>10. cur # entry
  BY <1>8 DEF EntryWhole
<1>11. PICK n \in nodes : cur \in Ways(n)
  BY <1>10 DEF CFGInv, PendingReached, Pending
<1>12. PICK p \in Positions(code) : p = Last(blocks[n])
  BY <1>3, WaysOfNode
<1>13. Has(InsnAt(code, p), "BB_END")
  BY <1>3, <1>12, WaysOfNode, LastOfBlock
<1>14. cur \in {NextOf(code, p), JccLoc(code, p)} /\ cur # NoLoc
  BY <1>11, <1>12 DEF Ways, Lhs, Rhs
<1>15. cur # JccLoc(code, p)
  BY <1>7, <1>8, <1>9, <1>14
<1>16. cur = <<p[1], p[2] + 1>>
  <2>1. cur = NextOf(code, p)
    BY <1>14, <1>15
  <2>2. cur = <<NextAsm(code, p[1]), 0>> \/ cur = <<p[1], p[2] + 1>>
    BY <1>14, <2>1 DEF NextOf
  <2>3. cur # <<NextAsm(code, p[1]), 0>>
    BY <1>8
  <2> QED
    BY <2>2, <2>3
<1>17. p = <<r[1], p[2]>> /\ p[2] \in Nat /\ cur[2] = p[2] + 1
  BY <1>3, <1>7, <1>16, PositionsOfCode
<1>18. p[2] \in 0 .. (r[2] - 1)
  BY <1>7, <1>8, <1>17
<1>19. ~ Has(InsnAt(code, <<r[1], p[2]>>), "BB_END")
  BY <1>9, <1>18
<1> QED
  BY <1>13, <1>17, <1>19

(* get_func of code that can be read, whose returns are never entered in   *)
(* the middle, builds a function: neither the untranslated block of        *)
(* traverse nor the AttributeError of add_bb ends it.                      *)
THEOREM FunctionIsBuilt == FuncSpec => []FunctionBuiltWhole
<1> DEFINE Whole == ReturnsWhole /\ CodeReadable /\ TargetsExist
           Sound == Whole => CFGInv /\ EntryWhole /\ pc \in {"loop", "edges", "done"}
<1>1. FuncInit => Sound
  BY InitInv DEF FuncInit, CFGInit, EntryWhole
<1>2. Sound /\ [FuncNext]_<<cfgVars, funcVars>> => Sound'
  <2>1. SUFFICES ASSUME Sound, [FuncNext]_<<cfgVars, funcVars>>, Whole'
                 PROVE  CFGInv' /\ EntryWhole' /\ pc' \in {"loop", "edges", "done"}
    OBVIOUS
  <2>2. UNCHANGED <<code, blocks, entry>>
    BY <2>1 DEF FuncNext, VisitNew, VisitAgain, AddBBFails, Finish, FuncFail,
                Visit, AddEdges, Fail, cfgVars
  <2>3. Whole
    <3>1. TargetsExist' = TargetsExist
      BY <2>2, RigidParts
    <3>2. ReturnsWhole' = ReturnsWhole
      BY <2>2 DEF ReturnsWhole
    <3>3. CodeReadable' = CodeReadable
      BY <2>2 DEF CodeReadable, Flow
    <3> QED
      BY <2>1, <3>1, <3>2, <3>3
  <2>4. CFGInv /\ EntryWhole /\ pc \in {"loop", "edges", "done"} /\ EntryWhole'
    BY <2>1, <2>2, <2>3 DEF EntryWhole
  <2>5. CASE VisitNew \/ VisitAgain
    <3>1. Visit
      BY <2>5 DEF VisitNew, VisitAgain
    <3>2. pc' \in {"loop", "edges"}
      BY <2>4, <3>1, VisitEffect DEF CFGInv
    <3> QED
      BY <2>4, <3>1, <3>2, VisitKeepsInv
  <2>6. CASE AddBBFails
    BY <2>3, <2>4, <2>6, BlockReturnsWhole DEF AddBBFails
  <2>7. CASE Finish
    <3>1. AddEdges
      BY <2>7 DEF Finish
    <3>2. pc' = "done"
      BY <2>4, <3>1, LoopOver DEF AddEdges
    <3> QED
      BY <2>4, <3>1, <3>2, AddEdgesKeepsInv
  <2>8. CASE FuncFail
    BY <2>3, <2>4, <2>8, NextIsBuilt DEF FuncFail, Fail
  <2>9. CASE UNCHANGED <<cfgVars, funcVars>>
    <3>1. UNCHANGED cfgVars /\ pc' = pc
      BY <2>9 DEF cfgVars
    <3> QED
      BY <2>4, <3>1, NextKeepsInv
  <2> QED
    BY <2>1, <2>5, <2>6, <2>7, <2>8, <2>9 DEF FuncNext
<1>3. Sound => FunctionBuiltWhole
  BY DEF FunctionBuiltWhole, FunctionBuilt
<1> QED
  BY <1>1, <1>2, <1>3, PTL DEF FuncSpec

-----------------------------------------------------------------------------
(***************************************************************************)
(* Chunks apart.  Where no range to be added contains an old chunk in its  *)
(* middle, at most one pair of chunks touches after _add_chunk, and the    *)
(* first pass of add_chunk joins it.                                       *)
(***************************************************************************)
Clear(c, d) == End(c) < d.addr \/ End(d) < c.addr

(* The chunks are apart, but for the pair x, y, the second of which has an *)
(* end in the first or touches it.                                         *)
ApartBut(cs, x, y) ==
  \A j, k \in DOMAIN cs :
    j < k => Clear(cs[j], cs[k]) \/ (j = x /\ k = y /\ Overlaps(cs[x], cs[y].addr, End(cs[y])))

AllApart(cs) == \A j, k \in DOMAIN cs : j # k => Clear(cs[j], cs[k])

(* The range joined to a chunk that it overlaps. *)
LEMMA JoinedChunk ==
  ASSUME NEW c \in ChunkType, NEW a \in Nat, NEW e \in Nat, a < e, Overlaps(c, a, e),
         NEW m, m = Chunk(Least(a, c.addr), Greatest(e, End(c)))
  PROVE  /\ m \in ChunkType
         /\ m.addr = Least(a, c.addr) /\ End(m) = Greatest(e, End(c))
         /\ m.addr <= a /\ m.addr <= c.addr /\ e <= End(m) /\ End(c) <= End(m)
         /\ m.addr \in {a, c.addr} /\ End(m) \in {e, End(c)}
<1>1. /\ c.addr \in Nat /\ End(c) \in Nat /\ c.addr < End(c)
  BY RangeOfChunk
<1>2. PICK lo \in Nat : lo = Least(a, c.addr) /\ lo <= a /\ lo <= c.addr /\ lo \in {a, c.addr}
  BY <1>1 DEF Least
<1>3. PICK hi \in Nat : hi = Greatest(e, End(c)) /\ e <= hi /\ End(c) <= hi /\ hi \in {e, End(c)}
  BY <1>1 DEF Greatest
<1>4. lo < hi
  BY <1>1, <1>2, <1>3
<1>5. m = [addr |-> lo, size |-> hi - lo] /\ hi - lo \in Nat \ {0} /\ lo + (hi - lo) = hi
  BY <1>2, <1>3, <1>4 DEF Chunk
<1>6. m \in ChunkType /\ m.addr = lo /\ m.size = hi - lo
  BY <1>5 DEF ChunkType
<1>7. End(m) = hi
  BY <1>5, <1>6 DEF End
<1> QED
  BY <1>2, <1>3, <1>6, <1>7

(* A chunk that is clear of two that touch is clear of them joined. *)
LEMMA ClearOfJoined ==
  ASSUME NEW c \in ChunkType, NEW a \in Nat, NEW e \in Nat, a < e, Overlaps(c, a, e),
         NEW m, m = Chunk(Least(a, c.addr), Greatest(e, End(c))),
         NEW d \in ChunkType, Clear(d, c), End(d) < a \/ e < d.addr
  PROVE  Clear(d, m) /\ Clear(m, d)
<1>1. /\ c.addr \in Nat /\ End(c) \in Nat /\ c.addr < End(c)
      /\ d.addr \in Nat /\ End(d) \in Nat /\ d.addr < End(d)
  BY RangeOfChunk
<1>2. m.addr \in {a, c.addr} /\ End(m) \in {e, End(c)} /\ m.addr <= a /\ e <= End(m)
  BY JoinedChunk
<1> QED
  BY <1>1, <1>2 DEF Clear, Overlaps

(* _add_chunk of a range that contains no chunk in its middle: at most one *)
(* pair of chunks touches.                                                 *)
LEMMA AddChunkApart ==
  ASSUME NEW cs \in Seq(ChunkType), AllApart(cs), NEW a \in Nat, NEW e \in Nat, a < e,
         \A k \in DOMAIN cs : ~ (a < cs[k].addr /\ End(cs[k]) < e)
  PROVE  \E x, y : ApartBut(AddChunk(cs, a, e), x, y)
<1> DEFINE hit == {k \in DOMAIN cs : Overlaps(cs[k], a, e)}
<1>1. PICK n \in Nat : n = Len(cs)
  OBVIOUS
<1>2. DOMAIN cs = 1 .. n /\ \A k \in 1 .. n : cs[k] \in ChunkType
  BY <1>1
<1>3. \A k \in 1 .. n : cs[k].addr \in Nat /\ End(cs[k]) \in Nat /\ cs[k].addr < End(cs[k])
  BY <1>2, RangeOfChunk
<1>4. PICK t : t = AddChunk(cs, a, e)
  OBVIOUS
<1>5. ASSUME NEW k \in 1 .. n, k \notin hit PROVE End(cs[k]) < a \/ e < cs[k].addr
  BY <1>2, <1>3, <1>5, SMTT(30) DEF Overlaps
<1>6. CASE hit = {}
  <2>1. PICK c \in ChunkType : c = Chunk(a, e)
    BY ChunkOfRange
  <2>2. c.addr = a /\ End(c) = e
    BY <2>1 DEF Chunk, End
  <2>3. t = Append(cs, c)
    BY <1>4, <1>6, <2>1 DEF AddChunk
  <2>4. DOMAIN t = 1 .. (n + 1) /\ t[n + 1] = c /\ \A k \in 1 .. n : t[k] = cs[k]
    BY <1>1, <2>3
  <2>5. ASSUME NEW j \in DOMAIN t, NEW k \in DOMAIN t, j < k PROVE Clear(t[j], t[k])
    <3>1. j \in 1 .. n /\ (k \in 1 .. n \/ k = n + 1) /\ j # k
      BY <2>4, <2>5
    <3>2. CASE k \in 1 .. n
      BY <1>2, <2>4, <3>1, <3>2 DEF AllApart
    <3>3. CASE k = n + 1
      BY <1>5, <1>6, <2>2, <2>4, <3>1, <3>3 DEF Clear
    <3> QED
      BY <3>1, <3>2, <3>3
  <2>6. ApartBut(t, 0, 0)
    BY <2>5 DEF ApartBut
  <2> QED
    BY <1>4, <2>6
<1>7. CASE hit # {}
  <2>1. PICK k : k = CHOOSE h \in hit : \A j \in hit : h <= j
    OBVIOUS
  <2>2. k \in hit /\ \A j \in hit : k <= j
    <3>1. hit \in SUBSET (0 .. n) /\ 0 \in Nat
      BY <1>2
    <3> HIDE DEF hit
    <3> QED
      BY <1>7, <2>1, <3>1, FirstOf
  <2>3. k \in 1 .. n /\ Overlaps(cs[k], a, e)
    BY <1>2, <2>2
  <2>4. PICK c \in ChunkType : c = cs[k]
    BY <1>2, <2>3
  <2>5. PICK m : m = Chunk(Least(a, c.addr), Greatest(e, End(c)))
    OBVIOUS
  <2>6. m.addr \in {a, c.addr} /\ End(m) \in {e, End(c)} /\ m.addr <= a /\ e <= End(m)
        /\ m.addr <= c.addr /\ End(c) <= End(m)
    BY <2>3, <2>4, <2>5, JoinedChunk
  <2>7. t = [cs EXCEPT ![k] = m]
    BY <1>4, <1>7, <2>1, <2>4, <2>5 DEF AddChunk
  <2>8. DOMAIN t = 1 .. n /\ t[k] = m /\ \A j \in 1 .. n : j # k => t[j] = cs[j]
    BY <1>1, <1>2, <2>3, <2>7
  <2>9. \A j \in 1 .. n : j # k => Clear(cs[j], c)
    BY <1>2, <2>3, <2>4 DEF AllApart
  <2>10. ASSUME NEW j \in 1 .. n, j # k, j \notin hit PROVE Clear(cs[j], m) /\ Clear(m, cs[j])
    <3>1. PICK d \in ChunkType : d = cs[j]
      BY <1>2
    <3>2. Clear(d, c) /\ (End(d) < a \/ e < d.addr)
      BY <1>5, <2>9, <2>10, <3>1
    <3> QED
      BY <2>3, <2>4, <2>5, <3>1, <3>2, ClearOfJoined
  <2>11. \A j \in hit : j \in 1 .. n /\ Overlaps(cs[j], a, e)
    BY <1>2
  <2>12. c.addr \in Nat /\ End(c) \in Nat /\ c.addr < End(c)
    BY <1>3, <2>3, <2>4
  <2> HIDE DEF hit
  <2>13. ASSUME NEW j \in hit, j # k PROVE j > k /\ Overlaps(m, cs[j].addr, End(cs[j]))
    <3>1. j > k
      BY <2>2, <2>3, <2>11, <2>13
    <3>2. Clear(cs[j], c) /\ Overlaps(cs[j], a, e) /\ Overlaps(c, a, e)
      BY <2>3, <2>4, <2>9, <2>11, <2>13
    <3>3. cs[j].addr \in Nat /\ End(cs[j]) \in Nat /\ cs[j].addr < End(cs[j])
      BY <1>3, <2>11
    <3>4. m.addr \in Nat /\ End(m) \in Nat
      BY <2>6, <2>12
    <3>5. Overlaps(m, cs[j].addr, End(cs[j]))
      <4>1. PICK u, v \in Nat : u = cs[j].addr /\ v = End(cs[j])
        BY <3>3
      <4>2. PICK x, z \in Nat : x = c.addr /\ z = End(c)
        BY <2>12
      <4>3. PICK p, q \in Nat : p = m.addr /\ q = End(m)
        BY <3>4
      <4>4. /\ v < x \/ z < u
            /\ (u <= a /\ a <= v) \/ (u <= e /\ e <= v)
            /\ (x <= a /\ a <= z) \/ (x <= e /\ e <= z)
        BY <3>2, <4>1, <4>2 DEF Clear, Overlaps
      <4>5. p <= a /\ e <= q /\ p <= x /\ z <= q
        BY <2>6, <4>2, <4>3
      <4>6. (p <= u /\ u <= q) \/ (p <= v /\ v <= q)
        BY <4>4, <4>5
      <4> QED
        BY <4>1, <4>3, <4>6 DEF Overlaps
    <3> QED
      BY <3>1, <3>5
  <2>14. ASSUME NEW i \in hit, NEW j \in hit, i # k, j # k PROVE i = j
    <3>1. Clear(cs[j], c) /\ Overlaps(cs[j], a, e) /\ Overlaps(c, a, e)
          /\ Clear(cs[i], c) /\ Overlaps(cs[i], a, e) /\ (i # j => Clear(cs[i], cs[j]))
      BY <1>2, <2>3, <2>4, <2>9, <2>11, <2>14 DEF AllApart
    <3>2. cs[j].addr \in Nat /\ End(cs[j]) \in Nat /\ cs[j].addr < End(cs[j])
          /\ cs[i].addr \in Nat /\ End(cs[i]) \in Nat /\ cs[i].addr < End(cs[i])
      BY <1>3, <2>11
    <3>3. PICK u, v \in Nat : u = cs[i].addr /\ v = End(cs[i])
      BY <3>2
    <3>4. PICK p, q \in Nat : p = cs[j].addr /\ q = End(cs[j])
      BY <3>2
    <3>5. PICK x, z \in Nat : x = c.addr /\ z = End(c)
      BY <2>12
    <3>6. /\ (x <= a /\ a <= z) \/ (x <= e /\ e <= z)
          /\ (u <= a /\ a <= v) \/ (u <= e /\ e <= v)
          /\ (p <= a /\ a <= q) \/ (p <= e /\ e <= q)
      BY <3>1, <3>3, <3>4, <3>5 DEF Overlaps
    <3>7. (v < x \/ z < u) /\ (q < x \/ z < p) /\ (i # j => v < p \/ q < u)
      BY <3>1, <3>3, <3>4, <3>5 DEF Clear
    <3>8. CASE x <= a /\ a <= z
      <4>1. u <= e /\ e <= v /\ p <= e /\ e <= q
        BY <3>6, <3>7, <3>8
      <4> QED
        BY <3>7, <4>1
    <3>9. CASE x <= e /\ e <= z
      <4>1. u <= a /\ a <= v /\ p <= a /\ a <= q
        BY <3>6, <3>7, <3>9
      <4> QED
        BY <3>7, <4>1
    <3> QED
      BY <3>6, <3>8, <3>9
  <2>15. PICK y : (\E j \in hit : j # k) => y \in hit /\ y # k
    OBVIOUS
  <2>16. ASSUME NEW i \in DOMAIN t, NEW j \in DOMAIN t, i < j
         PROVE  Clear(t[i], t[j]) \/ (i = k /\ j = y /\ Overlaps(t[k], t[y].addr, End(t[y])))
    <3>1. i \in 1 .. n /\ j \in 1 .. n /\ i # j
      BY <2>8, <2>16
    <3>2. CASE i # k /\ j # k
      BY <1>2, <2>8, <3>1, <3>2 DEF AllApart
    <3>3. CASE i = k /\ j \notin hit
      BY <2>8, <2>10, <3>1, <3>3
    <3>4. CASE j = k /\ i \notin hit
      BY <2>8, <2>10, <3>1, <3>4
    <3>5. CASE i = k /\ j \in hit
      <4>1. j = y /\ y \in 1 .. n /\ y # k
        BY <2>11, <2>14, <2>15, <3>1, <3>5
      <4>2. Overlaps(m, cs[y].addr, End(cs[y]))
        BY <2>13, <3>1, <3>5, <4>1
      <4> QED
        BY <2>8, <3>5, <4>1, <4>2
    <3>6. CASE j = k /\ i \in hit
      BY <2>3, <2>11, <2>13, <2>16, <3>1, <3>6
    <3> QED
      BY <3>2, <3>3, <3>4, <3>5, <3>6
  <2>17. ApartBut(t, k, y)
    BY <2>16 DEF ApartBut
  <2> QED
    BY <1>4, <2>17
<1> QED
  BY <1>6, <1>7

(* _add_chunk of the next chunk in a pass: h is the list so far, whose     *)
(* chunks are clear of those still to come, but for x of y.                *)
ClearOfRest(cs, n, h, k, x, y) ==
  \A i \in (k + 1) .. n : \A j \in DOMAIN h :
    Clear(h[j], cs[i]) \/ (i = y /\ h[j] = cs[x] /\ Overlaps(cs[x], cs[y].addr, End(cs[y])))

LEMMA AddNextApart ==
  ASSUME NEW cs \in Seq(ChunkType), NEW n \in Nat, DOMAIN cs = 1 .. n,
         NEW x, NEW y, ApartBut(cs, x, y),
         NEW k \in 0 .. n - 1, NEW h \in Seq(ChunkType), AllApart(h), ClearOfRest(cs, n, h, k, x, y),
         NEW t, t = AddChunk(h, cs[k + 1].addr, End(cs[k + 1]))
  PROVE  AllApart(t) /\ ClearOfRest(cs, n, t, k + 1, x, y)
<1>1. PICK m \in Nat : m = Len(h)
  OBVIOUS
<1>2. DOMAIN h = 1 .. m /\ \A j \in 1 .. m : h[j] \in ChunkType
  BY <1>1
<1>3. PICK d \in ChunkType : d = cs[k + 1]
  <2>1. k + 1 \in DOMAIN cs
    OBVIOUS
  <2> QED
    BY <2>1
<1>4. PICK a : a = d.addr
  OBVIOUS
<1>5. PICK e : e = End(d)
  OBVIOUS
<1>6. a \in Nat /\ e \in Nat /\ a < e
  BY <1>4, <1>5, RangeOfChunk
<1>7. t = AddChunk(h, a, e)
  BY <1>3, <1>4, <1>5
<1>8. \A i \in (k + 2) .. n : i \in DOMAIN cs /\ cs[i] \in ChunkType /\ k + 1 < i /\ i \in (k + 1) .. n
  OBVIOUS
<1>9. \A i \in (k + 2) .. n : Clear(d, cs[i]) \/ (k + 1 = x /\ i = y /\ Overlaps(cs[x], cs[y].addr, End(cs[y])))
  <2>1. k + 1 \in DOMAIN cs
    OBVIOUS
  <2> QED
    BY <1>3, <1>8, <2>1 DEF ApartBut
<1>10. (k + 1) + 1 = k + 2 /\ k + 1 \in (k + 1) .. n
  OBVIOUS
<1> DEFINE hit == {j \in DOMAIN h : Overlaps(h[j], a, e)}
<1>11. ASSUME NEW j \in 1 .. m
       PROVE  Clear(h[j], d) \/ (j \in hit /\ k + 1 = y /\ h[j] = cs[x])
  <2>1. Clear(h[j], cs[k + 1]) \/ (k + 1 = y /\ h[j] = cs[x] /\ Overlaps(cs[x], cs[y].addr, End(cs[y])))
    BY <1>2, <1>10 DEF ClearOfRest
  <2> QED
    BY <1>2, <1>3, <1>4, <1>5, <2>1
<1>12. CASE \A j \in 1 .. m : Clear(h[j], d)
  <2>1. \A j \in 1 .. m : j \notin hit
    <3>1. ASSUME NEW j \in 1 .. m PROVE j \notin hit
      <4>1. Clear(h[j], d) /\ h[j].addr \in Nat /\ End(h[j]) \in Nat
        BY <1>2, <1>12, RangeOfChunk
      <4> QED
        BY <1>4, <1>5, <1>6, <4>1 DEF Clear, Overlaps
    <3> QED
      BY <3>1
  <2>2. hit = {}
    BY <1>2, <2>1
  <2>3. d = Chunk(a, e)
    <3>1. d.addr \in Nat /\ d.size \in Nat /\ d = [addr |-> d.addr, size |-> d.size]
      BY DEF ChunkType
    <3>2. (d.addr + d.size) - d.addr = d.size
      BY <3>1
    <3> QED
      BY <1>4, <1>5, <3>1, <3>2 DEF Chunk, End
  <2>4. t = Append(h, d)
    BY <1>7, <2>2, <2>3 DEF AddChunk
  <2>5. DOMAIN t = 1 .. (m + 1) /\ t[m + 1] = d /\ \A j \in 1 .. m : t[j] = h[j]
    BY <1>1, <2>4
  <2>6. \A j \in DOMAIN t : j \in 1 .. m \/ j = m + 1
    BY <2>5
  <2>7. AllApart(t)
    <3>1. ASSUME NEW i \in DOMAIN t, NEW j \in DOMAIN t, i # j PROVE Clear(t[i], t[j])
      <4>1. CASE i \in 1 .. m /\ j \in 1 .. m
        BY <1>2, <2>5, <3>1, <4>1 DEF AllApart
      <4>2. CASE i \in 1 .. m /\ j = m + 1
        BY <1>12, <2>5, <4>2
      <4>3. CASE i = m + 1 /\ j \in 1 .. m
        BY <1>12, <2>5, <4>3 DEF Clear
      <4> QED
        BY <2>6, <3>1, <4>1, <4>2, <4>3
    <3> QED
      BY <3>1 DEF AllApart
  <2>8. ClearOfRest(cs, n, t, k + 1, x, y)
    <3>1. ASSUME NEW i \in (k + 2) .. n, NEW j \in DOMAIN t
          PROVE  Clear(t[j], cs[i]) \/ (i = y /\ t[j] = cs[x] /\ Overlaps(cs[x], cs[y].addr, End(cs[y])))
      <4>1. CASE j \in 1 .. m
        BY <1>2, <1>8, <2>5, <4>1 DEF ClearOfRest
      <4>2. CASE j = m + 1
        BY <1>3, <1>9, <2>5, <4>2
      <4> QED
        BY <2>6, <4>1, <4>2
    <3> QED
      BY <1>10, <3>1 DEF ClearOfRest
  <2> QED
    BY <2>7, <2>8
<1>13. CASE ~ \A j \in 1 .. m : Clear(h[j], d)
  <2>1. PICK q \in 1 .. m : ~ Clear(h[q], d)
    BY <1>13
  <2>2. q \in hit /\ k + 1 = y /\ h[q] = cs[x]
    BY <1>11, <2>1
  <2>3. PICK c \in ChunkType : c = h[q]
    BY <1>2
  <2>4. \A j \in 1 .. m : j # q => Clear(h[j], c)
    BY <1>2, <2>3 DEF AllApart
  <2>5. c.addr \in Nat /\ End(c) \in Nat /\ c.addr < End(c)
    BY RangeOfChunk
  <2>6. ASSUME NEW j \in 1 .. m, j # q PROVE Clear(h[j], d) /\ j \notin hit
    <3>1. Clear(h[j], d)
      <4>1. ~ Clear(c, c)
        BY <2>5 DEF Clear
      <4>2. h[j] # cs[x]
        BY <2>2, <2>3, <2>4, <2>6, <4>1
      <4> QED
        BY <1>11, <4>2
    <3>2. h[j].addr \in Nat /\ End(h[j]) \in Nat
      BY <1>2, RangeOfChunk
    <3> QED
      BY <1>4, <1>5, <1>6, <3>1, <3>2 DEF Clear, Overlaps
  <2>7. hit = {q}
    BY <1>2, <2>2, <2>6
  <2>8. PICK u : u = Chunk(Least(a, c.addr), Greatest(e, End(c)))
    OBVIOUS
  <2>9. t = [h EXCEPT ![q] = u]
    <3>1. PICK z : z = CHOOSE i \in hit : \A j \in hit : i <= j
      OBVIOUS
    <3>2. z = q
      <4>1. (CHOOSE i \in {q} : \A j \in {q} : i <= j) = q
        OBVIOUS
      <4> HIDE DEF hit
      <4> QED
        BY <2>7, <3>1, <4>1
    <3>3. hit # {}
      BY <2>2
    <3>4. t = [h EXCEPT ![z] = Chunk(Least(a, h[z].addr), Greatest(e, End(h[z])))]
      BY <1>7, <3>1, <3>3 DEF AddChunk
    <3> QED
      BY <2>3, <2>8, <3>2, <3>4
  <2>10. DOMAIN t = 1 .. m /\ t[q] = u /\ \A j \in 1 .. m : j # q => t[j] = h[j]
    BY <1>1, <1>2, <2>9
  <2>11. Overlaps(c, a, e)
    BY <2>2, <2>3
  <2>12. ASSUME NEW w \in ChunkType, Clear(w, c), Clear(w, d) PROVE Clear(w, u) /\ Clear(u, w)
    <3>1. End(w) < a \/ e < w.addr
      BY <1>4, <1>5, <2>12 DEF Clear
    <3>2. u.addr \in {a, c.addr} /\ End(u) \in {e, End(c)} /\ u.addr <= a /\ e <= End(u)
      BY <1>6, <2>8, <2>11, JoinedChunk
    <3>3. w.addr \in Nat /\ End(w) \in Nat /\ w.addr < End(w)
      BY RangeOfChunk
    <3> QED
      BY <1>6, <2>5, <2>11, <2>12, <3>1, <3>2, <3>3 DEF Clear, Overlaps
  <2>13. \A j \in 1 .. m : j # q => Clear(h[j], u) /\ Clear(u, h[j])
    BY <1>2, <2>4, <2>6, <2>12
  <2>14. AllApart(t)
    <3>1. ASSUME NEW i \in DOMAIN t, NEW j \in DOMAIN t, i # j PROVE Clear(t[i], t[j])
      <4>1. CASE i # q /\ j # q
        BY <1>2, <2>10, <3>1, <4>1 DEF AllApart
      <4>2. CASE i = q \/ j = q
        BY <2>10, <2>13, <3>1, <4>2
      <4> QED
        BY <4>1, <4>2
    <3> QED
      BY <3>1 DEF AllApart
  <2>15. ASSUME NEW i \in (k + 2) .. n, NEW j \in DOMAIN t PROVE Clear(t[j], cs[i])
    <3>1. i # y /\ i \in (k + 1) .. n /\ i \in DOMAIN cs /\ k + 1 < i
      BY <1>8, <2>2
    <3>2. CASE j # q
      BY <1>2, <2>10, <3>1, <3>2 DEF ClearOfRest
    <3>3. CASE j = q
      <4>1. PICK w \in ChunkType : w = cs[i]
        BY <3>1
      <4>2. Clear(d, w)
        BY <1>9, <3>1, <4>1
      <4>3. Clear(c, w)
        BY <1>2, <2>2, <2>3, <3>1, <4>1 DEF ClearOfRest
      <4>4. Clear(w, d) /\ Clear(w, c)
        BY <4>2, <4>3 DEF Clear
      <4> QED
        BY <2>10, <2>12, <3>3, <4>1, <4>4
    <3> QED
      BY <3>2, <3>3
  <2>16. ClearOfRest(cs, n, t, k + 1, x, y)
    BY <1>10, <2>15 DEF ClearOfRest
  <2> QED
    BY <2>14, <2>16
<1> QED
  BY <1>12, <1>13

(* The pass that follows _add_chunk leaves all chunks apart. *)
LEMMA RemergeApart ==
  ASSUME NEW cs \in Seq(ChunkType), NEW x, NEW y, ApartBut(cs, x, y)
  PROVE  AllApart(Remerge(cs))
<1>1. PICK n \in Nat : n = Len(cs)
  OBVIOUS
<1>2. DOMAIN cs = 1 .. n /\ \A k \in 1 .. n : cs[k] \in ChunkType
  BY <1>1
<1>3. PICK R : /\ Remerge(cs) = R[n] /\ R[0] = << >>
               /\ \A k \in 0 .. n - 1 : R[k + 1] = AddChunk(R[k], cs[k + 1].addr, End(cs[k + 1]))
  BY <1>1, RemergeSteps
<1> DEFINE Good(k) == R[k] \in Seq(ChunkType) /\ AllApart(R[k]) /\ ClearOfRest(cs, n, R[k], k, x, y)
           G == {k \in 0 .. n : Good(k)}
<1>4. 0 \in G
  <2>1. << >> \in Seq(ChunkType) /\ AllApart(<< >>) /\ ClearOfRest(cs, n, << >>, 0, x, y) /\ 0 \in 0 .. n
    BY DEF AllApart, ClearOfRest
  <2> QED
    BY <1>3, <2>1
<1>5. ASSUME NEW k \in 0 .. n - 1, Good(k) PROVE Good(k + 1)
  <2>1. PICK h : h = R[k]
    OBVIOUS
  <2>2. h \in Seq(ChunkType) /\ AllApart(h) /\ ClearOfRest(cs, n, h, k, x, y)
    BY <1>5, <2>1
  <2>3. PICK t : t = AddChunk(h, cs[k + 1].addr, End(cs[k + 1]))
    OBVIOUS
  <2>4. t = R[k + 1]
    BY <1>3, <2>1, <2>3
  <2>5. AllApart(t) /\ ClearOfRest(cs, n, t, k + 1, x, y)
    BY <1>2, <2>2, <2>3, AddNextApart
  <2>6. t \in Seq(ChunkType)
    <3>1. PICK d \in ChunkType : d = cs[k + 1]
      <4>1. k + 1 \in 1 .. n
        OBVIOUS
      <4> QED
        BY <1>2, <4>1
    <3>2. PICK a : a = d.addr
      OBVIOUS
    <3>3. PICK e : e = End(d)
      OBVIOUS
    <3>4. a \in Nat /\ e \in Nat /\ a < e /\ t = AddChunk(h, a, e)
      BY <2>3, <3>1, <3>2, <3>3, RangeOfChunk
    <3> QED
      BY <2>2, <3>4, AddChunkAdds
  <2> QED
    BY <2>4, <2>5, <2>6
<1>6. \A k \in 0 .. n - 1 : k \in G => k + 1 \in G
  <2> HIDE DEF Good
  <2>1. \A k \in 0 .. n - 1 : k + 1 \in 0 .. n
    OBVIOUS
  <2> QED
    BY <1>5, <2>1
<1>7. Good(n)
  <2> HIDE DEF Good
  <2>1. n \in G
    <3> HIDE DEF G
    <3> QED
      BY <1>4, <1>6, UpTo
  <2> QED
    BY <2>1
<1> QED
  BY <1>3, <1>7

(* The passes of add_chunk leave the chunks apart, if there is one. *)
LEMMA MergeApart ==
  ASSUME NEW cs \in Seq(ChunkType), NEW x, NEW y, ApartBut(cs, x, y)
  PROVE  AllApart(MergeChunks(cs))
<1>1. PICK n \in Nat : n = Len(cs)
  OBVIOUS
<1>2. PICK R : /\ MergeChunks(cs) = R[n] /\ R[0] = cs
               /\ \A k \in 0 .. n - 1 : R[k + 1] = Remerge(R[k])
  BY <1>1, MergeSteps
<1> DEFINE Good(k) == R[k] \in Seq(ChunkType) /\ (\E v, w : ApartBut(R[k], v, w))
                      /\ (k # 0 => AllApart(R[k]))
           G == {k \in 0 .. n : Good(k)}
<1>3. 0 \in G
  BY <1>2
<1>4. ASSUME NEW k \in 0 .. n - 1, Good(k) PROVE Good(k + 1)
  <2>1. R[k + 1] \in Seq(ChunkType) /\ AllApart(R[k + 1])
    BY <1>2, <1>4, RemergeKeepsBytes, RemergeApart
  <2>2. ApartBut(R[k + 1], 0, 0)
    <3>1. \A i, j \in DOMAIN R[k + 1] : i < j => i # j
      BY <2>1
    <3> QED
      BY <2>1, <3>1 DEF AllApart, ApartBut
  <2> QED
    BY <2>1, <2>2
<1>5. \A k \in 0 .. n - 1 : k \in G => k + 1 \in G
  <2> HIDE DEF Good
  <2>1. \A k \in 0 .. n - 1 : k + 1 \in 0 .. n
    OBVIOUS
  <2> QED
    BY <1>4, <2>1
<1>6. Good(n)
  <2> HIDE DEF Good
  <2>1. n \in G
    <3> HIDE DEF G
    <3> QED
      BY <1>3, <1>5, UpTo
  <2> QED
    BY <2>1
<1>7. CASE n # 0
  BY <1>2, <1>6, <1>7
<1>8. CASE n = 0
  <2>1. DOMAIN cs = {}
    <3>1. DOMAIN cs = 1 .. n
      BY <1>1
    <3>2. 1 .. 0 = {}
      OBVIOUS
    <3> QED
      BY <1>8, <3>1, <3>2
  <2> QED
    BY <1>2, <1>8, <2>1 DEF AllApart
<1> QED
  BY <1>7, <1>8

-----------------------------------------------------------------------------
(***************************************************************************)
(* Blocks of code whose machine instructions do not overlap: none contains *)
(* another one in its middle.                                              *)
(***************************************************************************)
AlignedCode(c) == \A a, b \in DOMAIN c : a < b => NextAsm(c, a) <= b

(* q is at or behind p. *)
NotBehind(p, q) == p[1] < q[1] \/ (p[1] = q[1] /\ p[2] <= q[2])

(* No instruction is between one and the next.                             *)
LEMMA NothingBetween ==
  ASSUME NEW c, IsCode(c), AlignedCode(c), NEW p \in Positions(c), NEW q \in Positions(c),
         ~ NotBehind(q, p), NotBehind(q, After(c, p))
  PROVE  q = After(c, p)
<1>1. /\ p = <<p[1], p[2]>> /\ p[1] \in DOMAIN c /\ p[2] \in 0 .. Len(c[p[1]].ir) - 1
      /\ q = <<q[1], q[2]>> /\ q[1] \in DOMAIN c /\ q[2] \in 0 .. Len(c[q[1]].ir) - 1
      /\ Len(c[p[1]].ir) \in Nat /\ Len(c[q[1]].ir) \in Nat
  BY PositionsOfCode
<1>2. PICK p1, p2 : p1 = p[1] /\ p2 = p[2]
  OBVIOUS
<1>3. PICK q1, q2 : q1 = q[1] /\ q2 = q[2]
  OBVIOUS
<1>4. PICK n, l : n = NextAsm(c, p1) /\ l = Len(c[p1].ir)
  OBVIOUS
<1>5. p1 \in Nat /\ q1 \in Nat /\ p2 \in Nat /\ q2 \in Nat /\ n \in Nat /\ n > p1 /\ l \in Nat
  BY <1>1, <1>2, <1>3, <1>4, CodeFacts
<1>6. p1 < q1 \/ (p1 = q1 /\ p2 < q2)
  BY <1>2, <1>3, <1>5 DEF NotBehind
<1>7. CASE IsPosition(c, <<p1, p2 + 1>>)
  <2>1. After(c, p) = <<p1, p2 + 1>>
    BY <1>2, <1>7 DEF After
  <2>2. q1 < p1 \/ (q1 = p1 /\ q2 <= p2 + 1)
    BY <1>3, <2>1 DEF NotBehind
  <2>3. q1 = p1 /\ q2 = p2 + 1
    BY <1>5, <1>6, <2>2
  <2> QED
    BY <1>1, <1>3, <2>1, <2>3
<1>8. CASE ~ IsPosition(c, <<p1, p2 + 1>>)
  <2>1. After(c, p) = <<n, 0>>
    BY <1>2, <1>4, <1>8 DEF After
  <2>2. q1 < n \/ (q1 = n /\ q2 <= 0)
    BY <1>3, <2>1 DEF NotBehind
  <2>3. ~ (p1 = q1 /\ p2 < q2)
    <3>1. SUFFICES ASSUME p1 = q1, p2 < q2 PROVE FALSE
      OBVIOUS
    <3>2. q2 \in 0 .. l - 1
      BY <1>1, <1>3, <1>4, <3>1
    <3>3. p2 + 1 \in 0 .. l - 1
      BY <1>5, <3>1, <3>2
    <3>4. <<p1, p2 + 1>>[1] = p1 /\ <<p1, p2 + 1>>[2] = p2 + 1
      OBVIOUS
    <3> QED
      BY <1>1, <1>2, <1>4, <1>8, <3>3, <3>4 DEF IsPosition
  <2>4. p1 < q1 /\ n <= q1
    BY <1>1, <1>2, <1>3, <1>4, <1>6, <2>3 DEF AlignedCode
  <2>5. q1 = n /\ q2 = 0
    BY <1>5, <2>2, <2>4
  <2> QED
    BY <1>1, <1>3, <2>1, <2>5
<1> QED
  BY <1>2, <1>7, <1>8

(* A block has every instruction from its first to its last. *)
LEMMA BlockIsDense ==
  ASSUME NEW c, IsCode(c), AlignedCode(c), NEW thumb, NEW b, IsBlock(c, thumb, b),
         NEW q \in Positions(c), NotBehind(b[1], q), NotBehind(q, b[Len(b)])
  PROVE  \E k \in 1 .. Len(b) : b[k] = q
<1>1. /\ b \in Seq(Positions(c)) /\ Len(b) \in Nat \ {0}
      /\ \A k \in 1 .. Len(b) - 1 : b[k + 1] = After(c, b[k])
  BY DEF IsBlock
<1>2. PICK n \in Nat : n = Len(b) - 1
  <2>1. Len(b) - 1 \in Nat
    BY <1>1
  <2> QED
    BY <2>1
<1>3. \A k \in 0 .. n : k + 1 \in 1 .. Len(b) /\ b[k + 1] \in Positions(c)
  BY <1>1, <1>2
<1>4. \A p \in Positions(c) : p = <<p[1], p[2]>> /\ p[1] \in Nat /\ p[2] \in Nat
  BY PositionsOfCode, CodeFacts
<1> DEFINE Here(k) == NotBehind(q, b[k + 1]) => \E j \in 1 .. Len(b) : b[j] = q
           G == {k \in 0 .. n : Here(k)}
<1>5. 0 \in G
  <2>1. SUFFICES ASSUME NotBehind(q, b[0 + 1]) PROVE b[1] = q
    BY <1>1, <1>3
  <2>2. b[1] \in Positions(c)
    BY <1>1
  <2>3. NotBehind(q, b[1]) /\ NotBehind(b[1], q)
    BY <2>1
  <2>4. b[1][1] = q[1] /\ b[1][2] = q[2]
    BY <1>4, <2>2, <2>3 DEF NotBehind
  <2> QED
    BY <1>4, <2>2, <2>4
<1>6. ASSUME NEW k \in 0 .. n - 1, Here(k) PROVE Here(k + 1)
  <2>1. k + 1 \in 1 .. Len(b) - 1 /\ k + 1 \in 0 .. n /\ k \in 0 .. n
    BY <1>1, <1>2
  <2>2. b[(k + 1) + 1] = After(c, b[k + 1]) /\ b[k + 1] \in Positions(c) /\ (k + 1) + 1 \in 1 .. Len(b)
    BY <1>1, <1>3, <2>1
  <2>3. CASE NotBehind(q, b[k + 1])
    BY <1>6, <2>3
  <2>4. CASE ~ NotBehind(q, b[k + 1])
    BY <2>2, <2>4, NothingBetween
  <2> QED
    BY <2>3, <2>4
<1>7. \A k \in 0 .. n - 1 : k \in G => k + 1 \in G
  <2> HIDE DEF Here
  <2>1. \A k \in 0 .. n - 1 : k + 1 \in 0 .. n
    OBVIOUS
  <2> QED
    BY <1>6, <2>1
<1>8. Here(n)
  <2> HIDE DEF Here
  <2>1. n \in G
    <3> HIDE DEF G
    <3> QED
      BY <1>5, <1>7, UpTo
  <2> QED
    BY <2>1
<1>9. n + 1 = Len(b)
  BY <1>1, <1>2
<1> QED
  BY <1>8, <1>9

(* A block that starts behind the start of another one, in the bytes of it,*)
(* does not end before it.                                                 *)
LEMMA BlocksNest ==
  ASSUME NEW c, IsCode(c), AlignedCode(c), NEW thumb,
         NEW p, p[2] \in Nat, NEW b, b = Block(c, thumb, p), b # << >>,
         NEW q \in Positions(c), NEW d, d = Block(c, thumb, q), d # << >>, Head(d) = q,
         Head(b)[1] < q[1], q[1] < Head(b)[1] + BlockSize(c, b)
  PROVE  Head(b)[1] + BlockSize(c, b) <= q[1] + BlockSize(c, d)
<1>1. IsBlock(c, thumb, b) /\ IsBlock(c, thumb, d)
  <2>1. q[2] \in Nat
    BY PositionsOfCode
  <2> QED
    BY <2>1, BlockIs
<1>2. /\ b \in Seq(Positions(c)) /\ Len(b) \in Nat \ {0} /\ Head(b) = b[1]
      /\ d \in Seq(Positions(c)) /\ Len(d) \in Nat \ {0} /\ d[1] = q
  BY <1>1 DEF IsBlock
<1>3. Last(b) = b[Len(b)] /\ Last(b) \in Positions(c) /\ Last(d) \in Positions(c)
  BY <1>2 DEF Last
<1>4. PICK s : s = b[1][1]
  OBVIOUS
<1>5. PICK x : x = Last(b)[1]
  OBVIOUS
<1>6. PICK y : y = Last(d)[1]
  OBVIOUS
<1>7. s \in Nat /\ x \in DOMAIN c /\ y \in DOMAIN c /\ q[1] \in DOMAIN c
      /\ x \in Nat /\ y \in Nat /\ q[1] \in Nat
  <2>1. b[1] \in Positions(c)
    BY <1>2
  <2> QED
    BY <1>3, <1>4, <1>5, <1>6, <2>1, PositionsOfCode, CodeFacts
<1>8. NextAsm(c, x) \in Nat /\ NextAsm(c, x) > x /\ NextAsm(c, y) \in Nat /\ NextAsm(c, y) > y
  BY <1>7, CodeFacts
<1>9. s + BlockSize(c, b) = NextAsm(c, x) /\ q[1] + BlockSize(c, d) = NextAsm(c, y)
  <2>1. BlockSize(c, b) = NextAsm(c, x) - s /\ BlockSize(c, d) = NextAsm(c, y) - q[1]
    BY <1>2, <1>4, <1>5, <1>6 DEF BlockSize
  <2> QED
    BY <1>7, <1>8, <2>1
<1>10. s < q[1] /\ q[1] < NextAsm(c, x)
  BY <1>2, <1>4, <1>9
<1>11. CASE NotBehind(q, b[Len(b)])
  <2>1. NotBehind(b[1], q)
    BY <1>4, <1>10 DEF NotBehind
  <2>2. PICK k \in 1 .. Len(b) : b[k] = q
    BY <1>1, <1>11, <2>1, BlockIsDense
  <2>3. d = SubSeq(b, k, Len(b))
    BY <2>2, BlockOfTheRest
  <2>4. Last(d) = Last(b)
    <3>1. PICK m \in Nat : m = k - 1
      BY <1>2
    <3>2. m + 1 = k /\ Len(b) \in (m + 1) .. Len(b)
      BY <1>2, <3>1
    <3>3. Len(d) = Len(b) - m /\ d[Len(d)] = b[m + Len(d)]
      <4>1. d = SubSeq(b, m + 1, Len(b))
        BY <2>3, <3>2
      <4>2. /\ Len(d) = Len(b) - m
            /\ \A i \in 1 .. Len(d) : d[i] = b[m + i]
        BY <1>2, <3>2, <4>1, SubSeqParts
      <4>3. Len(d) \in 1 .. Len(d)
        BY <1>2
      <4> QED
        BY <4>2, <4>3
    <3>4. m + Len(d) = Len(b)
      BY <1>2, <3>1, <3>3
    <3> QED
      BY <3>3, <3>4 DEF Last
  <2>5. x = y
    BY <1>5, <1>6, <2>4
  <2> QED
    BY <1>2, <1>4, <1>8, <1>9, <2>5
<1>12. CASE ~ NotBehind(q, b[Len(b)])
  <2>1. x <= q[1]
    BY <1>3, <1>5, <1>7, <1>12 DEF NotBehind
  <2>2. x = q[1]
    BY <1>7, <1>8, <1>10, <2>1 DEF AlignedCode
  <2>3. q[1] <= y
    BY <1>1, <1>2, <1>6, <1>7, <1>8, <1>9, BlockSpansFrom
  <2>4. NextAsm(c, x) <= NextAsm(c, y)
    <3>1. CASE x = y
      BY <1>8, <3>1
    <3>2. CASE x < y
      <4>1. NextAsm(c, x) <= y
        BY <1>7, <3>2 DEF AlignedCode
      <4> QED
        BY <1>7, <1>8, <4>1
    <3> QED
      BY <1>7, <2>2, <2>3, <3>1, <3>2
  <2> QED
    BY <1>2, <1>4, <1>9, <2>4
<1> QED
  BY <1>11, <1>12

(* The block of a node starts with it, and spans some bytes. *)
LEMMA NodeIsHead ==
  ASSUME TypesInv, NEW d \in nodes
  PROVE  /\ d \in Positions(code) /\ blocks[d] = Block(code, Thumb, d)
         /\ blocks[d] # << >> /\ Head(blocks[d]) = d /\ IsBlock(code, Thumb, blocks[d])
<1>1. d \in Positions(code) /\ d \in Named(code) /\ blocks[d] # << >> /\ BlocksOfCode /\ IsCode(code)
  BY DEF TypesInv, BlocksOfCode, Named
<1>2. /\ blocks[d] = Block(code, Thumb, d) /\ IsBlock(code, Thumb, blocks[d])
      /\ Head(blocks[d]) = blocks[d][1]
  BY <1>1, BlockOfNamed
<1>3. d[2] \in Nat
  BY <1>1, PositionsOfCode
<1>4. Listing(code, Thumb, d[1]) # << >>
  BY <1>1, <1>2, <1>3, BlockHasEnd
<1>5. Block(code, Thumb, d)[1] = d
  BY <1>1, <1>4, BlockOfPosition
<1> QED
  BY <1>1, <1>2, <1>5

LEMMA NodeSpans ==
  ASSUME TypesInv, NEW d \in nodes
  PROVE  /\ d[1] \in Nat /\ d[1] + BlockSize(code, blocks[d]) \in Nat
         /\ d[1] < d[1] + BlockSize(code, blocks[d])
<1>1. IsBlock(code, Thumb, blocks[d]) /\ Head(blocks[d]) = d /\ IsCode(code)
  BY NodeIsHead DEF TypesInv, BlocksOfCode
<1> QED
  BY <1>1, BlockSpans

(* In aligned code the chunks are apart at any moment. *)
FuncApart == Aligned => AllApart(chunks)

(* A chunk that is apart from the others starts where some block of the    *)
(* graph does, and has it whole.                                           *)
LEMMA ChunkHasBlock ==
  ASSUME FuncTypes, FuncOfNodes, AllApart(chunks), NEW k \in DOMAIN chunks
  PROVE  \E d \in nodes : /\ d[1] = chunks[k].addr
                          /\ d[1] + BlockSize(code, blocks[d]) <= End(chunks[k])
<1>1. chunks \in Seq(ChunkType) /\ Bytes(chunks) = NodeBytes /\ IsCode(code)
  BY DEF FuncTypes, FuncOfNodes, BlocksOfCode
<1>2. \A j \in DOMAIN chunks : /\ chunks[j].addr \in Nat /\ End(chunks[j]) \in Nat
                               /\ chunks[j].addr < End(chunks[j])
                               /\ ChunkBytes(chunks[j]) = chunks[j].addr .. (End(chunks[j]) - 1)
  BY <1>1, RangeOfChunk
<1>3. PICK a \in Nat, e \in Nat : a = chunks[k].addr /\ e = End(chunks[k]) /\ a < e
  BY <1>2
<1>4. a \in ChunkBytes(chunks[k])
  BY <1>2, <1>3
<1>5. a \in NodeBytes
  BY <1>1, <1>4 DEF Bytes
<1>6. PICK d \in nodes : a \in BytesOf(d[1], d[1] + BlockSize(code, blocks[d]))
  BY <1>5 DEF NodeBytes
<1>7. PICK s \in Nat, f \in Nat : s = d[1] /\ f = d[1] + BlockSize(code, blocks[d]) /\ s < f
  BY <1>6, NodeSpans DEF FuncOfNodes
<1>8. s <= a /\ a < f
  BY <1>6, <1>7 DEF BytesOf
<1>9. ASSUME NEW x \in s .. (f - 1)
      PROVE  \E j \in DOMAIN chunks : chunks[j].addr <= x /\ x < End(chunks[j])
  <2>1. x \in NodeBytes
    BY <1>7 DEF NodeBytes, BytesOf
  <2>2. PICK j \in DOMAIN chunks : x \in ChunkBytes(chunks[j])
    BY <1>1, <2>1 DEF Bytes
  <2> QED
    BY <1>2, <2>2
<1>10. s = a
  <2>1. SUFFICES ASSUME s < a PROVE FALSE
    BY <1>7, <1>8
  <2>2. a - 1 \in s .. (f - 1)
    BY <1>3, <1>7, <1>8, <2>1
  <2>3. PICK j \in DOMAIN chunks : chunks[j].addr <= a - 1 /\ a - 1 < End(chunks[j])
    BY <1>9, <2>2
  <2>4. j # k
    BY <1>3, <2>3
  <2>5. Clear(chunks[j], chunks[k])
    BY <2>4 DEF AllApart
  <2> QED
    BY <1>2, <1>3, <2>3, <2>5 DEF Clear
<1>11. f <= e
  <2>1. SUFFICES ASSUME e < f PROVE FALSE
    BY <1>3, <1>7
  <2>2. e \in s .. (f - 1)
    BY <1>3, <1>7, <1>8, <2>1
  <2>3. PICK j \in DOMAIN chunks : chunks[j].addr <= e /\ e < End(chunks[j])
    BY <1>9, <2>2
  <2>4. j # k
    BY <1>3, <2>3
  <2>5. Clear(chunks[j], chunks[k])
    BY <2>4 DEF AllApart
  <2> QED
    BY <1>2, <1>3, <2>3, <2>5 DEF Clear
<1> QED
  BY <1>3, <1>7, <1>10, <1>11

(* Adding a block keeps the chunks apart: its range contains no chunk in   *)
(* its middle, since it contains no block there.                           *)
LEMMA VisitNewKeepsApart ==
  ASSUME FuncInv, FuncApart, VisitNew
  PROVE  FuncApart'
<1>1. Visit /\ AddBB(blocks[cur]) /\ pc = "loop" /\ UNCHANGED <<code, blocks>>
  BY DEF VisitNew, Visit
<1>2. TypesInv /\ FuncTypes /\ FuncOfNodes /\ IsCode(code) /\ chunks \in Seq(ChunkType)
  BY <1>1 DEF FuncInv, FuncOfNodes, FuncTypes, BlocksOfCode
<1>3. SUFFICES ASSUME Aligned PROVE AllApart(chunks')
  BY <1>1 DEF FuncApart, Aligned, AllApart, Clear
<1>4. AllApart(chunks) /\ AlignedCode(code)
  BY <1>3 DEF FuncApart, Aligned, AlignedCode
<1>5. PICK b : b = blocks[cur]
  OBVIOUS
<1>6. b # << >> /\ b = Block(code, Thumb, cur) /\ IsBlock(code, Thumb, b) /\ cur \in Named(code)
  <2>1. cur \in Named(code) /\ BlocksOfCode
    BY <1>2 DEF TypesInv
  <2>2. b # << >>
    BY <1>1, <1>2, <1>5, VisitEffect
  <2> QED
    BY <1>5, <2>1, <2>2, BlockOfNamed
<1>7. PICK a \in Nat, e \in Nat : a = Head(b)[1] /\ e = Head(b)[1] + BlockSize(code, b) /\ a < e
  BY <1>2, <1>6, BlockSpans
<1>8. ASSUME NEW k \in DOMAIN chunks, a < chunks[k].addr, End(chunks[k]) < e
      PROVE  FALSE
  <2>1. PICK d \in nodes : /\ d[1] = chunks[k].addr
                           /\ d[1] + BlockSize(code, blocks[d]) <= End(chunks[k])
    BY <1>2, <1>4, ChunkHasBlock
  <2>2. PICK z \in Nat : z = d[1] + BlockSize(code, blocks[d]) /\ d[1] < z /\ d[1] \in Nat
    BY <1>2, <2>1, NodeSpans
  <2>3. /\ d \in Positions(code) /\ blocks[d] = Block(code, Thumb, d)
        /\ blocks[d] # << >> /\ Head(blocks[d]) = d
    BY <1>2, NodeIsHead
  <2>4. cur[2] \in Nat
    BY <1>2, <1>6, NamedPlaces DEF TypesInv, BlocksOfCode
  <2>5. End(chunks[k]) \in Nat
    BY <1>2, RangeOfChunk
  <2>6. a < d[1] /\ d[1] < e
    BY <1>7, <1>8, <2>1, <2>2, <2>5
  <2>7. e <= z
    BY <1>2, <1>4, <1>6, <1>7, <2>2, <2>3, <2>4, <2>6, BlocksNest
  <2> QED
    BY <1>7, <1>8, <2>1, <2>2, <2>5, <2>7
<1>9. PICK t : t = AddChunk(chunks, a, e)
  OBVIOUS
<1>10. t \in Seq(ChunkType)
  BY <1>2, <1>7, <1>9, AddChunkAdds
<1>11. \E x, y : ApartBut(t, x, y)
  BY <1>2, <1>4, <1>7, <1>8, <1>9, AddChunkApart
<1>12. chunks' = MergeChunks(t)
  BY <1>1, <1>5, <1>7, <1>9 DEF AddBB
<1> QED
  BY <1>10, <1>11, <1>12, MergeApart

(* The chunks of a function in which no machine instruction starts inside  *)
(* another one never overlap or touch: get_func has merged those that came *)
(* to, in whatever order the blocks were met.                              *)
THEOREM ChunksAreApart == FuncSpec => []ChunksApartAligned
<1>1. FuncInit => FuncApart
  BY DEF FuncInit, FuncApart, AllApart
<1>2. FuncInv /\ FuncApart /\ [FuncNext]_<<cfgVars, funcVars>> => FuncApart'
  <2> SUFFICES ASSUME FuncInv, FuncApart, [FuncNext]_<<cfgVars, funcVars>> PROVE FuncApart'
    OBVIOUS
  <2>1. CASE VisitNew
    BY <2>1, VisitNewKeepsApart
  <2>2. ASSUME UNCHANGED <<code, chunks>> PROVE FuncApart'
    BY <2>2 DEF FuncApart, Aligned, AllApart
  <2>3. CASE VisitAgain
    BY <2>2, <2>3 DEF VisitAgain, Visit, funcVars
  <2>4. CASE AddBBFails
    BY <2>2, <2>4 DEF AddBBFails
  <2>5. CASE Finish
    BY <2>2, <2>5 DEF Finish, AddEdges
  <2>6. CASE FuncFail
    BY <2>2, <2>6 DEF FuncFail, Fail, funcVars
  <2>7. CASE UNCHANGED <<cfgVars, funcVars>>
    BY <2>2, <2>7 DEF cfgVars, funcVars
  <2> QED
    BY <2>1, <2>3, <2>4, <2>5, <2>6, <2>7 DEF FuncNext
<1>3. FuncApart => ChunksApartAligned
  BY DEF FuncApart, ChunksApartAligned, ChunksApart, AllApart, Clear
<1> QED
  BY <1>1, <1>2, <1>3, FuncInvHolds, PTL DEF FuncSpec

=============================================================================
