----------------------------- MODULE DFGProofs ------------------------------
(***************************************************************************)
(* Proofs about DFGBuild, for every set of programs, entries and variables:*)
(* the data flow graph has an edge for each definition that reaches a use, *)
(* and no other.                                                           *)
(*                                                                         *)
(* The reference is the code alone: the instructions control can arrive at *)
(* (ArrivesFrom).  The first part shows that it is what it is meant to be, *)
(* the least set closed under the flow of control; the second what         *)
(* _process_bb does to a state; the third is the invariant.                *)
(***************************************************************************)
EXTENDS DFGBuild, BlockProofs

(* Sets that grow until they stop: one follows from the one before it, so  *)
(* when one step changes nothing no later one does.                        *)
IsChain(R, n, P) ==
  /\ \A k \in 0 .. n : R[k] \in SUBSET P
  /\ \A k \in 1 .. n : R[k - 1] \subseteq R[k]
  /\ \A k \in 1 .. n - 1 : R[k - 1] = R[k] => R[k] = R[k + 1]
  /\ R[0] # {} \/ R[0] = R[1]

(* In a set of n elements they have stopped after n steps. *)
LEMMA ChainStops ==
  ASSUME NEW n \in Nat \ {0}, NEW P, IsFiniteSet(P), Cardinality(P) = n, NEW R, IsChain(R, n, P)
  PROVE  R[n - 1] = R[n]
<1>1. /\ \A k \in 0 .. n : R[k] \in SUBSET P
      /\ \A k \in 1 .. n : R[k - 1] \subseteq R[k]
      /\ \A k \in 1 .. n - 1 : R[k - 1] = R[k] => R[k] = R[k + 1]
      /\ R[0] # {} \/ R[0] = R[1]
  BY DEF IsChain
<1>2. PICK m \in Nat : n = m + 1
  <2>1. n - 1 \in Nat /\ n = (n - 1) + 1
    OBVIOUS
  <2> QED
    BY <2>1
<1>3. \A k \in 0 .. n : IsFiniteSet(R[k]) /\ Cardinality(R[k]) \in Nat /\ Cardinality(R[k]) <= n
  <2>1. ASSUME NEW k \in 0 .. n PROVE IsFiniteSet(R[k]) /\ Cardinality(R[k]) <= n
    BY <1>1, FS_Subset
  <2> QED
    BY <2>1, FS_CardinalityType
<1>4. ASSUME NEW k \in 1 .. n, R[k - 1] # R[k] PROVE Cardinality(R[k]) >= Cardinality(R[k - 1]) + 1
  <2>1. k \in 0 .. n /\ k - 1 \in 0 .. n
    OBVIOUS
  <2>2. R[k - 1] \in SUBSET R[k] /\ IsFiniteSet(R[k])
    BY <1>1, <1>3, <2>1
  <2>3. Cardinality(R[k - 1]) <= Cardinality(R[k]) /\ Cardinality(R[k]) # Cardinality(R[k - 1])
    BY <1>4, <2>2, FS_Subset
  <2> QED
    BY <1>3, <2>1, <2>3
<1> DEFINE Good(k) == R[k] = R[k + 1] \/ Cardinality(R[k + 1]) >= k + 2
           G == {k \in 0 .. m : Good(k)}
<1>5. 0 \in G
  <2>1. 1 \in 1 .. n /\ 1 - 1 = 0 /\ 0 \in 0 .. n /\ 1 \in 0 .. n
    BY <1>2
  <2>2. R[0] # {} => Cardinality(R[0]) # 0
    BY <1>3, <2>1, FS_EmptySet
  <2>3. R[0] # R[1] => Cardinality(R[1]) >= Cardinality(R[0]) + 1
    BY <1>4, <2>1
  <2>4. Cardinality(R[0]) \in Nat /\ Cardinality(R[1]) \in Nat
    BY <1>3, <2>1
  <2>5. R[0] = R[1] \/ Cardinality(R[1]) >= 2
    BY <1>1, <2>2, <2>3, <2>4
  <2> QED
    BY <2>1, <2>5
<1>6. ASSUME NEW k \in 0 .. m - 1, k \in G PROVE k + 1 \in G
  <2>1. /\ k + 1 \in 1 .. n - 1 /\ (k + 1) - 1 = k /\ k + 1 \in 0 .. m /\ k + 2 \in 1 .. n
        /\ (k + 2) - 1 = k + 1 /\ k + 1 \in 0 .. n /\ k + 2 \in 0 .. n /\ (k + 1) + 1 = k + 2
    BY <1>2
  <2>2. CASE R[k] = R[k + 1]
    BY <1>1, <2>1, <2>2
  <2>3. CASE R[k + 1] # R[k + 2] /\ Cardinality(R[k + 1]) >= k + 2
    <3>1. Cardinality(R[k + 2]) >= Cardinality(R[k + 1]) + 1
      BY <1>4, <2>1, <2>3
    <3>2. Cardinality(R[k + 2]) \in Nat /\ Cardinality(R[k + 1]) \in Nat
      BY <1>3, <2>1
    <3>3. Cardinality(R[(k + 1) + 1]) >= (k + 1) + 2
      BY <2>1, <2>3, <3>1, <3>2
    <3> QED
      BY <2>1, <3>3
  <2>4. CASE R[k + 1] = R[k + 2]
    BY <2>1, <2>4
  <2> QED
    BY <1>6, <2>2, <2>3, <2>4
<1>7. Good(m)
  <2> HIDE DEF Good
  <2>1. m \in G
    <3> HIDE DEF G
    <3> QED
      BY <1>5, <1>6, UpTo
  <2> QED
    BY <2>1
<1>8. m + 1 = n /\ n - 1 = m /\ n \in 0 .. n
  BY <1>2
<1>9. ~ (Cardinality(R[n]) >= m + 2)
  BY <1>3, <1>8
<1> QED
  BY <1>7, <1>8, <1>9

-----------------------------------------------------------------------------
(* The recursion of ArrivesFrom: one more instruction of the path a step.  *)
ArrivesIn(R, start, through) ==
  LET n == Cardinality(Positions(code))
  IN  /\ R[0] = start
      /\ \A k \in 1 .. n : R[k] = R[k - 1] \cup UNION {Flow(ir) : ir \in R[k - 1] \cap through}
      /\ ArrivesFrom(start, through) = R[n]

LEMMA ArrivesUnfolds ==
  ASSUME IsCode(code), NEW start, NEW through \in SUBSET Positions(code)
  PROVE  \E R : ArrivesIn(R, start, through)
<1>1. PICK n \in Nat : n = Cardinality(Positions(code))
  BY PositionsFinite
<1> DEFINE Step(s) == s \cup UNION {Flow(ir) : ir \in s \cap through}
           Body(h, k) == IF k = 0 THEN start
                         ELSE h[k - 1] \cup UNION {Flow(ir) : ir \in h[k - 1] \cap through}
<1>2. PICK R : R = CHOOSE h : h = [k \in 0 .. n |-> Body(h, k)]
  OBVIOUS
<1>3. ArrivesFrom(start, through) = R[n]
  BY <1>1, <1>2 DEF ArrivesFrom
<1>4. PICK U : U = start \cup UNION {Flow(ir) : ir \in through}
  OBVIOUS
<1>5. PICK g : g = [p \in (1 .. n) \X SUBSET U |-> Step(p[2])]
  OBVIOUS
<1>6. IsStep(SUBSET U, n, g)
  <2>1. \A s \in SUBSET U : Step(s) \in SUBSET U
    BY <1>4
  <2> HIDE DEF Step
  <2> QED
    BY <1>5, <2>1 DEF IsStep
<1>7. PICK f : Iterates(SUBSET U, start, n, g, f)
  <2>1. start \in SUBSET U /\ n \in Nat
    BY <1>4
  <2> QED
    BY <1>6, <2>1, Iteration
<1>8. f = [k \in 0 .. n |-> Body(f, k)]
  <2>1. f \in [0 .. n -> SUBSET U] /\ f[0] = start /\ \A k \in 1 .. n : f[k] = g[<<k, f[k - 1]>>]
    BY <1>7 DEF Iterates
  <2>2. ASSUME NEW k \in 1 .. n PROVE f[k] = Body(f, k)
    <3>1. k - 1 \in 0 .. n /\ k # 0 /\ f[k - 1] \in SUBSET U
      BY <2>1
    <3>2. g[<<k, f[k - 1]>>] = Step(f[k - 1])
      <4> HIDE DEF Step
      <4> QED
        BY <1>5, <3>1
    <3> QED
      BY <2>1, <3>1, <3>2
  <2>3. \A k \in 0 .. n : f[k] = Body(f, k)
    <3>1. \A k \in 0 .. n : k = 0 \/ k \in 1 .. n
      OBVIOUS
    <3>2. f[0] = Body(f, 0)
      BY <2>1
    <3> HIDE DEF Body
    <3> QED
      BY <2>2, <3>1, <3>2
  <2> HIDE DEF Body
  <2> QED
    BY <2>1, <2>3
<1>9. R = [k \in 0 .. n |-> Body(R, k)]
  <2> HIDE DEF Body
  <2> QED
    BY <1>2, <1>8
<1>10. \A k \in 0 .. n : R[k] = Body(R, k)
  <2> HIDE DEF Body
  <2> QED
    BY <1>9
<1>11. R[0] = start
  <2>1. 0 \in 0 .. n
    OBVIOUS
  <2>2. R[0] = Body(R, 0)
    <3> HIDE DEF Body
    <3> QED
      BY <1>10, <2>1
  <2> QED
    BY <2>2
<1>12. ASSUME NEW k \in 1 .. n
       PROVE  R[k] = R[k - 1] \cup UNION {Flow(ir) : ir \in R[k - 1] \cap through}
  <2>1. k \in 0 .. n /\ k # 0
    OBVIOUS
  <2> QED
    BY <1>10, <2>1
<1> QED
  BY <1>1, <1>3, <1>11, <1>12 DEF ArrivesIn

(* What is arrived at is in every set that is closed under the flow.       *)
LEMMA ArrivesLeast ==
  ASSUME IsCode(code), NEW start, NEW through \in SUBSET Positions(code), NEW B,
         start \subseteq B, \A ir \in B \cap through : Flow(ir) \subseteq B
  PROVE  start \subseteq ArrivesFrom(start, through) /\ ArrivesFrom(start, through) \subseteq B
<1>1. PICK R : ArrivesIn(R, start, through)
  BY ArrivesUnfolds
<1>2. PICK n \in Nat : n = Cardinality(Positions(code))
  BY PositionsFinite
<1>3. /\ R[0] = start /\ ArrivesFrom(start, through) = R[n]
      /\ \A k \in 1 .. n : R[k] = R[k - 1] \cup UNION {Flow(ir) : ir \in R[k - 1] \cap through}
  BY <1>1, <1>2 DEF ArrivesIn
<1> DEFINE Good(k) == start \subseteq R[k] /\ R[k] \subseteq B
           G == {k \in 0 .. n : Good(k)}
<1>4. 0 \in G
  BY <1>3
<1>5. ASSUME NEW k \in 0 .. n - 1, Good(k) PROVE Good(k + 1)
  <2>1. k + 1 \in 1 .. n /\ (k + 1) - 1 = k
    OBVIOUS
  <2>2. R[k + 1] = R[k] \cup UNION {Flow(ir) : ir \in R[k] \cap through}
    BY <1>3, <2>1
  <2> QED
    BY <1>5, <2>2
<1>6. \A k \in 0 .. n - 1 : k \in G => k + 1 \in G
  <2>1. \A k \in 0 .. n - 1 : k + 1 \in 0 .. n
    OBVIOUS
  <2> HIDE DEF Good
  <2> QED
    BY <1>5, <2>1
<1>7. n \in G
  <2> HIDE DEF G
  <2> QED
    BY <1>4, <1>6, UpTo
<1> QED
  BY <1>3, <1>7

(* What is arrived at is closed under the flow, as long as it stays in the *)
(* code: the steps ArrivesFrom makes are enough.                           *)
LEMMA ArrivesClosed ==
  ASSUME IsCode(code), NEW start, NEW through \in SUBSET Positions(code),
         ArrivesFrom(start, through) \subseteq Positions(code),
         NEW ir \in ArrivesFrom(start, through) \cap through
  PROVE  Flow(ir) \subseteq ArrivesFrom(start, through)
<1>1. PICK R : ArrivesIn(R, start, through)
  BY ArrivesUnfolds
<1>2. PICK P : P = Positions(code)
  OBVIOUS
<1>3. PICK n \in Nat \ {0} : n = Cardinality(P) /\ IsFiniteSet(P)
  BY <1>2, PositionsFinite
<1> DEFINE Step(s) == s \cup UNION {Flow(q) : q \in s \cap through}
<1>4. /\ R[0] = start /\ ArrivesFrom(start, through) = R[n]
      /\ \A k \in 1 .. n : R[k] = Step(R[k - 1])
  BY <1>1, <1>2, <1>3 DEF ArrivesIn
<1>5. \A k \in 1 .. n : R[k - 1] \subseteq R[k]
  BY <1>4
<1>6. \A k \in 0 .. n : R[k] \in SUBSET P
  <2> DEFINE G == {k \in 0 .. n : R[n - k] \subseteq P}
  <2>1. 0 \in G
    BY <1>2, <1>4
  <2>2. ASSUME NEW k \in 0 .. n - 1, k \in G PROVE k + 1 \in G
    <3>1. n - k \in 1 .. n /\ (n - k) - 1 = n - (k + 1) /\ k + 1 \in 0 .. n
      OBVIOUS
    <3>2. R[n - (k + 1)] \subseteq R[n - k]
      BY <1>5, <3>1
    <3> QED
      BY <2>2, <3>1, <3>2
  <2> DEFINE H == {m \in 0 .. n : \A k \in 0 .. m : k \in G}
  <2>3. 0 \in H
    <3>1. \A k \in 0 .. 0 : k = 0
      OBVIOUS
    <3> HIDE DEF G
    <3> QED
      BY <2>1, <3>1
  <2>4. ASSUME NEW m \in 0 .. n - 1, m \in H PROVE m + 1 \in H
    <3>1. m + 1 \in 0 .. n /\ m \in 0 .. m /\ \A k \in 0 .. m + 1 : k \in 0 .. m \/ k = m + 1
      OBVIOUS
    <3> HIDE DEF G
    <3> QED
      BY <2>2, <2>4, <3>1
  <2>5. n \in H
    <3> HIDE DEF H
    <3> QED
      BY <2>3, <2>4, UpTo
  <2>6. ASSUME NEW k \in 0 .. n PROVE R[k] \subseteq P
    <3>1. n - k \in 0 .. n /\ n - (n - k) = k
      OBVIOUS
    <3>2. n - k \in G
      <4> HIDE DEF G
      <4> QED
        BY <2>5, <3>1
    <3> QED
      BY <3>1, <3>2
  <2> QED
    BY <2>6
<1>7. IsChain(R, n, P)
  <2>1. ASSUME NEW k \in 1 .. n - 1, R[k - 1] = R[k] PROVE R[k] = R[k + 1]
    <3>1. k \in 1 .. n /\ k + 1 \in 1 .. n /\ (k + 1) - 1 = k
      OBVIOUS
    <3> HIDE DEF Step
    <3> QED
      BY <1>4, <2>1, <3>1
  <2>2. R[0] # {} \/ R[0] = R[1]
    <3>1. 1 \in 1 .. n /\ 1 - 1 = 0
      OBVIOUS
    <3>2. R[0] = {} => Step(R[0]) = {}
      OBVIOUS
    <3> HIDE DEF Step
    <3> QED
      BY <1>4, <3>1, <3>2
  <2> QED
    BY <1>5, <1>6, <2>1, <2>2 DEF IsChain
<1>8. R[n - 1] = R[n]
  BY <1>3, <1>7, ChainStops
<1>9. R[n] = Step(R[n])
  <2>1. n \in 1 .. n
    OBVIOUS
  <2> HIDE DEF Step
  <2> QED
    BY <1>4, <1>8, <2>1
<1> QED
  BY <1>4, <1>9

-----------------------------------------------------------------------------
(* The control flow graph is finished: every instruction control reaches   *)
(* exists, and the block at it was built.                                  *)
GraphFinished == \A p \in Reachable : p \in Positions(code) /\ blocks[p] # << >>

(* The program and its blocks, which never change. *)
Program ==
  /\ IsCode(code)
  /\ blocks = [ir \in Positions(code) |-> Block(code, FALSE, ir)]
  /\ entry \in Nat \X {0}
  /\ \A ir \in Positions(code) : Src(ir) \subseteq Vars /\ Dst(ir) \subseteq Vars
  /\ GraphFinished

(* A block b at n: control goes through it from instruction to instruction *)
(* and leaves it at its last one, the only one that ends a block.          *)
IsChainOfFlow(b, n) ==
  /\ b \in Seq(Positions(code)) /\ Len(b) \in Nat \ {0} /\ DOMAIN b = 1 .. Len(b)
  /\ b[1] = n /\ Last(b) = b[Len(b)]
  /\ \A k \in 1 .. Len(b) - 1 : Flow(b[k]) = {b[k + 1]} /\ ~ Has(InsnAt(code, b[k]), "BB_END")
  /\ Flow(b[Len(b)]) = BlockSuccs(b) /\ Has(InsnAt(code, b[Len(b)]), "BB_END")

(* ARM code apart, an instruction ends a block when the translator says so.*)
LEMMA EndsWhenMarked ==
  ASSUME NEW c, IsCode(c), NEW p \in Positions(c)
  PROVE  EndsBlock(c, FALSE, p) <=> Has(InsnAt(c, p), "BB_END")
<1>1. /\ p = <<p[1], p[2]>> /\ p[1] \in DOMAIN c /\ p[2] \in Nat
      /\ p[2] \in 0 .. Len(c[p[1]].ir) - 1 /\ Len(c[p[1]].ir) \in Nat \ {0}
  BY PositionsOfCode
<1>2. IsPosition(c, <<p[1], p[2] + 1>>) \/ p[2] + 1 = Len(c[p[1]].ir)
  BY <1>1 DEF IsPosition
<1>3. ASSUME p[2] + 1 = Len(c[p[1]].ir) PROVE Last(c[p[1]].ir) = InsnAt(c, p)
  BY <1>3 DEF Last, InsnAt
<1>4. ~ ThumbPropagation(c, FALSE, p[1])
  BY DEF ThumbPropagation
<1> QED
  BY <1>2, <1>3, <1>4 DEF EndsBlock, EndsAsmBlock

(* An instruction that does not end a block leads to the one after it. *)
LEMMA NextInside ==
  ASSUME NEW c, IsCode(c), NEW p \in Positions(c), ~ Has(InsnAt(c, p), "BB_END")
  PROVE  NextOf(c, p) = After(c, p)
<1> DEFINE insn == InsnAt(c, p)
<1>1. /\ insn.jcc \in BOOLEAN /\ insn.always \in BOOLEAN
      /\ insn.jcc => ("BB_END" \in insn.flags <=> "CALL" \notin insn.flags)
      /\ "RET" \in insn.flags => insn.jcc /\ "BB_END" \in insn.flags
  BY InsnOfPosition
<1>2. "BB_END" \notin insn.flags
  BY DEF Has
<1>3. ~ (Has(insn, "RET") \/ (insn.jcc /\ insn.always /\ ~Has(insn, "CALL")))
  <2> HIDE DEF insn
  <2> QED
    BY <1>1, <1>2 DEF Has
<1>4. After(c, p) = IF Has(insn, "ASM_END") THEN <<NextAsm(c, p[1]), 0>>
                    ELSE <<p[1], p[2] + 1>>
  BY AfterIs
<1> QED
  BY <1>3, <1>4 DEF NextOf

LEMMA BlockOfReachable ==
  ASSUME Program, NEW n \in Reachable
  PROVE  n \in Positions(code) /\ IsChainOfFlow(blocks[n], n)
<1>1. IsCode(code) /\ n \in Positions(code) /\ blocks[n] # << >> /\ blocks[n] = Block(code, FALSE, n)
  BY DEF Program, GraphFinished
<1>2. n[2] \in Nat /\ n[1] \in DOMAIN code
  BY <1>1, PositionsOfCode
<1>3. PICK b : b = blocks[n]
  OBVIOUS
<1>4. IsBlock(code, FALSE, b)
  BY <1>1, <1>2, <1>3, BlockIs
<1>5. b[1] = n
  <2>1. Listing(code, FALSE, n[1]) # << >>
    BY <1>1, <1>2, BlockHasEnd
  <2> QED
    BY <1>1, <1>3, <2>1, BlockOfPosition, ZenonT(60)
<1>6. /\ b \in Seq(Positions(code)) /\ Len(b) \in Nat \ {0}
      /\ \A k \in 1 .. Len(b) - 1 : b[k + 1] = After(code, b[k]) /\ ~ EndsBlock(code, FALSE, b[k])
      /\ EndsBlock(code, FALSE, b[Len(b)])
  BY <1>4 DEF IsBlock
<1>7. DOMAIN b = 1 .. Len(b) /\ Last(b) = b[Len(b)] /\ \A k \in 1 .. Len(b) : b[k] \in Positions(code)
  BY <1>6 DEF Last
<1>8. ASSUME NEW k \in 1 .. Len(b) - 1
      PROVE  Flow(b[k]) = {b[k + 1]} /\ ~ Has(InsnAt(code, b[k]), "BB_END")
  <2>1. b[k] \in Positions(code)
    BY <1>6, <1>7
  <2>2. ~ Has(InsnAt(code, b[k]), "BB_END")
    BY <1>1, <1>6, <2>1, EndsWhenMarked
  <2>3. NextOf(code, b[k]) = b[k + 1]
    BY <1>1, <1>6, <2>1, <2>2, NextInside
  <2> QED
    BY <2>2, <2>3 DEF Flow
<1>9. Flow(b[Len(b)]) = BlockSuccs(b) /\ Has(InsnAt(code, b[Len(b)]), "BB_END")
  <2>1. b[Len(b)] \in Positions(code)
    BY <1>6, <1>7
  <2>2. Has(InsnAt(code, b[Len(b)]), "BB_END")
    BY <1>1, <1>6, <2>1, EndsWhenMarked
  <2> QED
    BY <1>7, <2>2 DEF Flow, BlockSuccs
<1> QED
  BY <1>1, <1>3, <1>5, <1>6, <1>7, <1>8, <1>9 DEF IsChainOfFlow

-----------------------------------------------------------------------------
(* What control reaches is closed under the flow, and so is what it        *)
(* reaches without passing an instruction that sets v.                     *)
LEMMA ReachableClosed ==
  ASSUME Program
  PROVE  /\ entry \in Reachable
         /\ \A p \in Reachable : p \in Positions(code) /\ Flow(p) \subseteq Reachable
<1>1. IsCode(code) /\ Reachable \subseteq Positions(code)
  BY DEF Program, GraphFinished
<1>2. PICK P : P = Positions(code)
  OBVIOUS
<1>3. P \in SUBSET Positions(code) /\ Reachable = ArrivesFrom({entry}, P)
  BY <1>2 DEF Reachable
<1>4. ASSUME NEW p \in Reachable PROVE Flow(p) \subseteq Reachable
  <2>1. p \in ArrivesFrom({entry}, P) \cap P /\ ArrivesFrom({entry}, P) \subseteq Positions(code)
    BY <1>1, <1>2, <1>3
  <2> QED
    BY <1>1, <1>3, <2>1, ArrivesClosed
<1>5. entry \in Reachable
  <2>1. PICK B : B = {entry} \cup UNION {Flow(p) : p \in P}
    OBVIOUS
  <2>2. PICK S : S = {entry}
    OBVIOUS
  <2>3. S \subseteq B /\ \A ir \in B \cap P : Flow(ir) \subseteq B
    <3>1. ASSUME NEW ir \in P PROVE Flow(ir) \subseteq B
      <4>1. Flow(ir) \in {Flow(p) : p \in P}
        OBVIOUS
      <4> QED
        BY <2>1, <4>1
    <3>2. S \subseteq B
      BY <2>1, <2>2
    <3>3. \A ir \in B \cap P : Flow(ir) \subseteq B
      BY <3>1
    <3> QED
      BY <3>2, <3>3
  <2>4. S \subseteq ArrivesFrom(S, P)
    BY <1>1, <1>3, <2>3, ArrivesLeast
  <2> QED
    BY <1>3, <2>2, <2>4
<1> QED
  BY <1>1, <1>4, <1>5

LEMMA UnsetIsReachable ==
  ASSUME Program, NEW start, start \subseteq Reachable, NEW v
  PROVE  /\ start \subseteq ArrivesUnset(start, v) /\ ArrivesUnset(start, v) \subseteq Reachable
         /\ \A p \in ArrivesUnset(start, v) : v \notin Dst(p) => Flow(p) \subseteq ArrivesUnset(start, v)
<1>1. /\ IsCode(code)
      /\ \A p \in Reachable : p \in Positions(code) /\ Flow(p) \subseteq Reachable
  BY ReachableClosed DEF Program
<1>2. PICK T : T = {ir \in Positions(code) : v \notin Dst(ir)}
  OBVIOUS
<1>3. T \in SUBSET Positions(code) /\ ArrivesUnset(start, v) = ArrivesFrom(start, T)
  BY <1>2 DEF ArrivesUnset
<1>4. start \subseteq ArrivesFrom(start, T) /\ ArrivesFrom(start, T) \subseteq Reachable
  <2>1. \A ir \in Reachable \cap T : Flow(ir) \subseteq Reachable
    BY <1>1
  <2> QED
    BY <1>1, <1>3, <2>1, ArrivesLeast
<1>5. ASSUME NEW p \in ArrivesFrom(start, T), v \notin Dst(p)
      PROVE  Flow(p) \subseteq ArrivesFrom(start, T)
  <2>1. p \in ArrivesFrom(start, T) \cap T /\ ArrivesFrom(start, T) \subseteq Positions(code)
    BY <1>1, <1>2, <1>4, <1>5
  <2> QED
    BY <1>1, <1>3, <2>1, ArrivesClosed
<1> QED
  BY <1>3, <1>4, <1>5

(* A block that control reaches it passes through, and leaves to what it   *)
(* reaches.                                                                *)
LEMMA StaysReachable ==
  ASSUME Program, NEW n \in Reachable
  PROVE  /\ \A k \in 1 .. Len(blocks[n]) : blocks[n][k] \in Reachable
         /\ BlockSuccs(blocks[n]) \subseteq Reachable
<1>1. PICK b : b = blocks[n]
  OBVIOUS
<1>2. IsChainOfFlow(b, n)
  BY <1>1, BlockOfReachable
<1>3. \A k \in 1 .. Len(b) : b[k] \in Reachable
  <2>1. PICK A : A = Reachable
    OBVIOUS
  <2>2. PICK L \in Nat \ {0} : L = Len(b)
    BY <1>2 DEF IsChainOfFlow
  <2> DEFINE G == {k \in 0 .. L - 1 : b[k + 1] \in A}
  <2>3. 0 \in G
    BY <1>2, <2>1 DEF IsChainOfFlow
  <2>4. ASSUME NEW k \in 0 .. (L - 1) - 1, k \in G PROVE k + 1 \in G
    <3>1. k + 1 \in 1 .. L - 1 /\ k + 1 \in 0 .. L - 1
      OBVIOUS
    <3>2. Flow(b[k + 1]) = {b[(k + 1) + 1]} /\ Flow(b[k + 1]) \subseteq A
      BY <1>2, <2>1, <2>2, <2>4, <3>1, ReachableClosed DEF IsChainOfFlow
    <3> QED
      BY <3>1, <3>2
  <2>5. ASSUME NEW k \in 1 .. L PROVE b[k] \in A
    <3>1. k - 1 \in Nat /\ \A d \in 0 .. (k - 1) - 1 : d \in 0 .. (L - 1) - 1
      OBVIOUS
    <3>2. \A d \in 0 .. (k - 1) - 1 : d \in G => d + 1 \in G
      <4> HIDE DEF G
      <4> QED
        BY <2>4, <3>1
    <3>3. k - 1 \in G
      <4> HIDE DEF G
      <4> QED
        BY <2>3, <3>1, <3>2, UpTo
    <3>4. (k - 1) + 1 = k
      OBVIOUS
    <3> QED
      BY <3>3, <3>4
  <2> QED
    BY <2>1, <2>2, <2>5
<1>4. BlockSuccs(b) \subseteq Reachable
  <2>1. b[Len(b)] \in Reachable /\ Flow(b[Len(b)]) = BlockSuccs(b)
    BY <1>2, <1>3 DEF IsChainOfFlow
  <2> QED
    BY <2>1, ReachableClosed
<1> QED
  BY <1>1, <1>3, <1>4

-----------------------------------------------------------------------------
(* In a block b: none of the instructions from the i-th up to the k-th     *)
(* sets v, the k-th not included; the last one before the k-th that sets v *)
(* is the j-th.                                                            *)
Unset(b, v, i, k) == \A m \in i .. k - 1 : v \notin Dst(b[m])
LastSet(b, v, j, k) == j \in 1 .. k - 1 /\ v \in Dst(b[j]) /\ Unset(b, v, j + 1, k)

(* What a state says of v after some instructions of a block: the last one *)
(* that set it, or what it said before them.                               *)
Says(b, v, k, before, after) ==
  \/ Unset(b, v, 1, k) /\ after = before
  \/ \E j \in 1 .. k - 1 : LastSet(b, v, j, k) /\ after = b[j]

LEMMA AfterAll ==
  ASSUME NEW P, NEW b \in Seq(P), NEW s, NEW v \in Vars
  PROVE  Says(b, v, Len(b) + 1, s[v], StateAfter(s, b)[v])
<1> DEFINE sets == {k \in DOMAIN b : v \in Dst(b[k])}
<1>1. PICK n \in Nat : n = Len(b) /\ DOMAIN b = 1 .. n
  OBVIOUS
<1>2. StateAfter(s, b)[v] = IF sets = {} THEN s[v] ELSE b[MaxOf(sets)]
  BY DEF StateAfter
<1>3. sets \in SUBSET (1 .. n) /\ \A k \in 1 .. n : k \in sets <=> v \in Dst(b[k])
  BY <1>1
<1> HIDE DEF sets
<1>4. CASE sets = {}
  <2>1. Unset(b, v, 1, n + 1)
    BY <1>3, <1>4 DEF Unset
  <2> QED
    BY <1>1, <1>2, <1>4, <2>1 DEF Says
<1>5. CASE sets # {}
  <2>1. sets \in SUBSET Nat /\ IsFiniteSet(sets)
    <3>1. PICK T : T = 1 .. n
      OBVIOUS
    <3>2. IsFiniteSet(T) /\ sets \in SUBSET T
      BY <1>3, <3>1, FS_Interval
    <3>3. IsFiniteSet(sets)
      BY <3>2, FS_Subset
    <3>4. sets \in SUBSET Nat
      BY <1>3
    <3> QED
      BY <3>3, <3>4
  <2>2. PICK j : j = MaxOf(sets)
    OBVIOUS
  <2>3. j \in sets /\ \A k \in sets : k <= j
    BY <1>5, <2>1, <2>2, MaxOfFinite
  <2>4. j \in 1 .. n /\ v \in Dst(b[j])
    BY <1>3, <2>3
  <2>5. \A m \in j + 1 .. n : m \in 1 .. n /\ ~ (m <= j)
    BY <2>4
  <2>6. Unset(b, v, j + 1, n + 1)
    <3>1. n + 1 - 1 = n
      OBVIOUS
    <3> QED
      BY <1>3, <2>3, <2>5, <3>1 DEF Unset
  <2>7. n + 1 - 1 = n
    OBVIOUS
  <2>8. LastSet(b, v, j, n + 1)
    BY <2>4, <2>6, <2>7 DEF LastSet
  <2> QED
    BY <1>1, <1>2, <1>5, <2>2, <2>4, <2>7, <2>8 DEF Says
<1> QED
  BY <1>4, <1>5

LEMMA BeforeEach ==
  ASSUME NEW P, NEW b \in Seq(P), NEW s, NEW v \in Vars, NEW k \in 1 .. Len(b)
  PROVE  Says(b, v, k, s[v], StateBefore(s, b, k)[v])
<1>1. PICK q : q = SubSeq(b, 1, k - 1)
  OBVIOUS
<1>2. k \in Nat /\ Len(b) \in Nat /\ k - 1 \in Nat /\ (k - 1) + 1 = k
  OBVIOUS
<1>3. q \in Seq(P) /\ Len(q) = k - 1 /\ \A i \in 1 .. k - 1 : q[i] = b[i]
  <2>1. CASE k = 1
    <3>1. q = << >>
      BY <1>1, <2>1
    <3> QED
      BY <2>1, <3>1, EmptySeq
  <2>2. CASE k # 1
    <3>1. 0 \in Nat /\ k - 1 \in (0 + 1) .. Len(b) /\ 0 + 1 = 1 /\ (k - 1) - 0 = k - 1
          /\ \A i \in 1 .. k - 1 : 0 + i = i
      BY <2>2
    <3>2. PICK m \in Nat : m = 0
      OBVIOUS
    <3>3. q = SubSeq(b, m + 1, k - 1) /\ k - 1 \in (m + 1) .. Len(b)
      BY <1>1, <3>1, <3>2
    <3>4. /\ q \in Seq(P) /\ Len(q) = (k - 1) - m
          /\ \A i \in 1 .. Len(q) : q[i] = b[m + i]
      BY <3>3, SubSeqParts
    <3> QED
      BY <3>1, <3>2, <3>4
  <2> QED
    BY <2>1, <2>2
<1>4. Says(q, v, k, s[v], StateAfter(s, q)[v])
  <2>1. Says(q, v, Len(q) + 1, s[v], StateAfter(s, q)[v])
    BY <1>3, AfterAll
  <2> QED
    BY <1>2, <1>3, <2>1
<1>5. \A j \in 1 .. k - 1 : LastSet(q, v, j, k) => LastSet(b, v, j, k)
  <2>1. \A j \in 1 .. k - 1 : \A m \in j + 1 .. k - 1 : m \in 1 .. k - 1
    BY <1>2
  <2> QED
    BY <1>3, <2>1 DEF LastSet, Unset
<1>6. Unset(q, v, 1, k) => Unset(b, v, 1, k)
  BY <1>3 DEF Unset
<1>7. StateBefore(s, b, k) = StateAfter(s, q)
  BY <1>1 DEF StateBefore
<1> QED
  BY <1>3, <1>4, <1>5, <1>6, <1>7 DEF Says

(* There is one last instruction that sets v, or none. *)
LEMMA SaysOne ==
  ASSUME NEW b, NEW v, NEW k \in Nat, NEW before, NEW after, Says(b, v, k, before, after)
  PROVE  /\ Unset(b, v, 1, k) => after = before
         /\ \A j \in 1 .. k - 1 : LastSet(b, v, j, k) => after = b[j]
<1>1. \A j \in 1 .. k - 1 : ~ (LastSet(b, v, j, k) /\ Unset(b, v, 1, k))
  BY DEF LastSet, Unset
<1>2. \A i, j \in 1 .. k - 1 : LastSet(b, v, i, k) /\ LastSet(b, v, j, k) => i = j
  <2>1. \A i, j \in 1 .. k - 1 : i = j \/ i \in j + 1 .. k - 1 \/ j \in i + 1 .. k - 1
    OBVIOUS
  <2> QED
    BY <2>1 DEF LastSet, Unset
<1> QED
  BY <1>1, <1>2 DEF Says

-----------------------------------------------------------------------------
(* A set that control stays in until it meets an instruction that sets v. *)
IsCarrier(A, v) == \A p \in A : v \notin Dst(p) => Flow(p) \subseteq A

LEMMA CarriedAlong ==
  ASSUME NEW b, NEW n, IsChainOfFlow(b, n), NEW A, NEW v, IsCarrier(A, v),
         NEW i \in 1 .. Len(b), b[i] \in A, NEW k \in i .. Len(b), Unset(b, v, i, k)
  PROVE  b[k] \in A
<1>1. Len(b) \in Nat /\ i \in Nat /\ k \in Nat /\ k - i \in Nat
  BY DEF IsChainOfFlow
<1> DEFINE G == {d \in 0 .. k - i : b[i + d] \in A}
<1>2. 0 \in G
  <2>1. i + 0 = i /\ 0 \in 0 .. k - i
    BY <1>1
  <2> QED
    BY <2>1
<1>3. ASSUME NEW d \in 0 .. (k - i) - 1, d \in G PROVE d + 1 \in G
  <2>1. i + d \in i .. k - 1 /\ i + d \in 1 .. Len(b) - 1 /\ (i + d) + 1 = i + (d + 1) /\ d + 1 \in 0 .. k - i
    BY <1>1
  <2>2. v \notin Dst(b[i + d]) /\ Flow(b[i + d]) = {b[(i + d) + 1]}
    BY <2>1 DEF Unset, IsChainOfFlow
  <2>3. b[(i + d) + 1] \in A
    BY <1>3, <2>2 DEF IsCarrier
  <2> QED
    BY <2>1, <2>3
<1>4. k - i \in G
  <2> HIDE DEF G
  <2> QED
    BY <1>1, <1>2, <1>3, UpTo
<1>5. i + (k - i) = k
  BY <1>1
<1> QED
  BY <1>4, <1>5

(* From the start of a block. *)
LEMMA FromStart ==
  ASSUME NEW b, NEW n, IsChainOfFlow(b, n), NEW A, NEW v, IsCarrier(A, v), n \in A
  PROVE  /\ \A k \in 1 .. Len(b) : Unset(b, v, 1, k) => b[k] \in A
         /\ Unset(b, v, 1, Len(b) + 1) =>
              b[Len(b)] \in A /\ v \notin Dst(b[Len(b)]) /\ BlockSuccs(b) \subseteq A
<1>1. Len(b) \in Nat \ {0} /\ b[1] \in A /\ 1 \in 1 .. Len(b) /\ Len(b) \in 1 .. Len(b)
  BY DEF IsChainOfFlow
<1>2. ASSUME NEW k \in 1 .. Len(b), Unset(b, v, 1, k) PROVE b[k] \in A
  BY <1>1, <1>2, CarriedAlong
<1>3. ASSUME Unset(b, v, 1, Len(b) + 1)
      PROVE  b[Len(b)] \in A /\ v \notin Dst(b[Len(b)]) /\ BlockSuccs(b) \subseteq A
  <2>1. Unset(b, v, 1, Len(b)) /\ v \notin Dst(b[Len(b)])
    BY <1>1, <1>3 DEF Unset
  <2>2. b[Len(b)] \in A
    BY <1>1, <1>2, <2>1
  <2> QED
    BY <2>1, <2>2 DEF IsCarrier, IsChainOfFlow
<1> QED
  BY <1>2, <1>3

(* From behind an instruction of it. *)
LEMMA FromSetter ==
  ASSUME NEW b, NEW n, IsChainOfFlow(b, n), NEW A, NEW v, IsCarrier(A, v),
         NEW j \in 1 .. Len(b), Flow(b[j]) \subseteq A
  PROVE  /\ \A k \in 1 .. Len(b) : LastSet(b, v, j, k) => b[k] \in A
         /\ LastSet(b, v, j, Len(b) + 1) =>
              /\ BlockSuccs(b) \subseteq A
              /\ j = Len(b) \/ (b[Len(b)] \in A /\ v \notin Dst(b[Len(b)]))
<1>1. Len(b) \in Nat \ {0} /\ j \in Nat
  BY DEF IsChainOfFlow
<1>2. j # Len(b) => b[j + 1] \in A
  <2>1. j # Len(b) => j \in 1 .. Len(b) - 1
    BY <1>1
  <2> QED
    BY <2>1 DEF IsChainOfFlow
<1>3. ASSUME NEW k \in 1 .. Len(b), LastSet(b, v, j, k) PROVE b[k] \in A
  <2>1. j \in 1 .. k - 1 /\ Unset(b, v, j + 1, k)
    BY <1>3 DEF LastSet
  <2>2. j # Len(b) /\ j + 1 \in 1 .. Len(b) /\ k \in j + 1 .. Len(b)
    BY <1>1, <2>1
  <2> QED
    BY <1>2, <2>1, <2>2, CarriedAlong
<1>4. ASSUME LastSet(b, v, j, Len(b) + 1)
      PROVE  /\ BlockSuccs(b) \subseteq A
             /\ j = Len(b) \/ (b[Len(b)] \in A /\ v \notin Dst(b[Len(b)]))
  <2>1. CASE j = Len(b)
    BY <2>1 DEF IsChainOfFlow
  <2>2. CASE j # Len(b)
    <3>1. Len(b) \in 1 .. Len(b) /\ j \in 1 .. Len(b) - 1 /\ Len(b) \in j + 1 .. Len(b) + 1 - 1
      BY <1>1, <2>2
    <3>2. \A m \in j + 1 .. Len(b) - 1 : m \in j + 1 .. Len(b) + 1 - 1
      BY <1>1
    <3>3. LastSet(b, v, j, Len(b)) /\ v \notin Dst(b[Len(b)])
      BY <1>4, <3>1, <3>2 DEF LastSet, Unset
    <3>4. b[Len(b)] \in A
      BY <1>3, <3>1, <3>3
    <3> QED
      BY <3>3, <3>4 DEF IsCarrier, IsChainOfFlow
  <2> QED
    BY <2>1, <2>2
<1> QED
  BY <1>3, <1>4

-----------------------------------------------------------------------------
(* The states that wait to be carried through a block. *)
States == [Vars -> Positions(code) \cup {NoDef}]
Entering == [at : Reachable, state : States]
Waiting == (IF pc = "loop" THEN {[at |-> cur, state |-> state]} ELSE {}) \cup Elems(stack)

DFGTypes ==
  /\ Program
  /\ pc \in {"loop", "done"} /\ cur \in Reachable /\ state \in States
  /\ stack \in Seq(Entering)
  /\ pc = "done" => Waiting = {}
  /\ known \in [Positions(code) -> SUBSET (Vars \X Positions(code))]
  /\ nodes \subseteq Reachable

(* What the program is and what is said of it does not change. *)
LEMMA DFGRigid ==
  ASSUME UNCHANGED <<code, blocks, entry>>
  PROVE  /\ Program' = Program /\ Reachable' = Reachable /\ States' = States
         /\ Entering' = Entering /\ EntrySets' = EntrySets
         /\ \A ir : Src(ir)' = Src(ir) /\ Dst(ir)' = Dst(ir) /\ Flow(ir)' = Flow(ir)
         /\ \A v : DefUses(v)' = DefUses(v) /\ EntryUses(v)' = EntryUses(v) /\ DefExits(v)' = DefExits(v)
         /\ \A s, v : ArrivesUnset(s, v)' = ArrivesUnset(s, v)
<1>1. \A ir : Src(ir)' = Src(ir) /\ Dst(ir)' = Dst(ir) /\ Flow(ir)' = Flow(ir)
  BY DEF Src, Dst, Flow
<1>2. \A s, t : ArrivesFrom(s, t)' = ArrivesFrom(s, t)
  BY DEF ArrivesFrom, Flow
<1>3. Reachable' = Reachable
  BY DEF Reachable, ArrivesFrom, Flow
<1>4. \A s, v : ArrivesUnset(s, v)' = ArrivesUnset(s, v)
  BY DEF ArrivesUnset, ArrivesFrom, Flow, Dst
<1>5. States' = States /\ Entering' = Entering
  BY <1>3 DEF States, Entering
<1>6. EntrySets' = EntrySets
  BY <1>1 DEF EntrySets
<1>7. Program' = Program
  BY <1>1, <1>3 DEF Program, GraphFinished
<1>8. Exits' = Exits
  BY <1>1, <1>3 DEF Exits
<1>9. \A v : DefUses(v)' = DefUses(v) /\ EntryUses(v)' = EntryUses(v) /\ DefExits(v)' = DefExits(v)
  BY <1>1, <1>3, <1>4, <1>8 DEF DefUses, EntryUses, DefExits
<1> QED
  BY <1>1, <1>3, <1>4, <1>5, <1>6, <1>7, <1>9

(* What is pushed behind a block. *)
LEMMA PushedSuccs ==
  ASSUME NEW b, NEW s, NEW S, \A m \in BlockSuccs(b) : [at |-> m, state |-> s] \in S,
         stack \in Seq(S)
  PROVE  /\ PushSuccs(b, s) \in Seq(S)
         /\ Elems(PushSuccs(b, s))
              = Elems(stack) \cup {[at |-> m, state |-> s] : m \in BlockSuccs(b)}
<1> DEFINE rhs == JccLoc(code, Last(b))
           lhs == NextOf(code, Last(b))
           One(m) == IF m # NoLoc THEN <<[at |-> m, state |-> s]>> ELSE << >>
<1>1. BlockSuccs(b) = {lhs, rhs} \ {NoLoc}
  BY DEF BlockSuccs, Succs
<1>2. PushSuccs(b, s) = (stack \o One(rhs)) \o One(lhs)
  BY DEF PushSuccs
<1> HIDE DEF rhs, lhs
<1>3. ASSUME NEW m \in {lhs, rhs}
      PROVE  One(m) \in Seq(S) /\ Elems(One(m)) = {[at |-> k, state |-> s] : k \in {m} \ {NoLoc}}
  <2>1. CASE m = NoLoc
    <3>1. One(m) = << >>
      BY <2>1
    <3>2. Elems(<< >>) = {}
      BY DEF Elems
    <3> QED
      BY <2>1, <3>1, <3>2, EmptySeq
  <2>2. CASE m # NoLoc
    <3>1. PICK r : r = [at |-> m, state |-> s]
      OBVIOUS
    <3>2. One(m) = <<r>> /\ r \in S
      BY <1>1, <2>2, <3>1
    <3>3. <<r>> \in Seq(S) /\ Elems(<<r>>) = {r}
      BY <3>2 DEF Elems
    <3> QED
      BY <2>2, <3>1, <3>2, <3>3
  <2> QED
    BY <2>1, <2>2
<1> HIDE DEF One
<1>4. One(rhs) \in Seq(S) /\ One(lhs) \in Seq(S)
  BY <1>3
<1>5. PICK t : t = stack \o One(rhs)
  OBVIOUS
<1>6. t \in Seq(S) /\ Elems(t) = Elems(stack) \cup Elems(One(rhs))
  BY <1>4, <1>5, ConcatElems
<1>7. PICK w : w = One(lhs)
  OBVIOUS
<1>8. w \in Seq(S)
  BY <1>4, <1>7
<1>9. t \o w \in Seq(S) /\ Elems(t \o w) = Elems(t) \cup Elems(w)
  BY <1>6, <1>8, ConcatElems
<1>10. Elems(One(rhs)) \cup Elems(w) = {[at |-> m, state |-> s] : m \in BlockSuccs(b)}
  BY <1>1, <1>3, <1>7
<1>11. PushSuccs(b, s) = t \o w
  BY <1>2, <1>5, <1>7
<1> QED
  BY <1>6, <1>9, <1>10, <1>11

(* What an iteration does, in terms of sets. *)
LEMMA ProcessEffect ==
  ASSUME DFGTypes, Process
  PROVE  LET b == blocks[cur]
             out == StateAfter(state, b)
         IN  /\ UNCHANGED <<code, blocks, entry>>
             /\ IsChainOfFlow(b, cur) /\ BlockSuccs(b) \subseteq Reachable /\ out \in States
             /\ \A k \in 1 .. Len(b) : b[k] \in Reachable
             /\ nodes' = nodes \cup {b[k] : k \in DOMAIN b}
             /\ edges' = edges \cup UseEdges(state, b) \cup ExitEdges(state, b)
             /\ known' = [known EXCEPT ![cur] = known[cur] \cup Pairs(out)]
             /\ pc = "loop" /\ pc' \in {"loop", "done"}
             /\ cur' \in Reachable /\ state' \in States /\ stack' \in Seq(Entering)
             /\ pc' = "done" => Waiting' = {}
             /\ Waiting = {[at |-> cur, state |-> state]} \cup Elems(stack)
             /\ Waiting' = Elems(stack) \cup
                  (IF Pairs(out) \subseteq known[cur] THEN {}
                   ELSE {[at |-> m, state |-> out] : m \in BlockSuccs(b)})
<1> DEFINE b == blocks[cur]
           out == StateAfter(state, b)
           updated == ~ (Pairs(out) \subseteq known[cur])
           pushed == IF updated THEN PushSuccs(b, out) ELSE stack
<1>1. /\ Program /\ cur \in Reachable /\ state \in States /\ stack \in Seq(Entering)
  BY DEF DFGTypes
<1>2. /\ IsCode(code) /\ IsChainOfFlow(b, cur)
  BY <1>1, BlockOfReachable DEF Program
<1>3. /\ UNCHANGED <<code, blocks, entry>> /\ pc = "loop"
      /\ nodes' = nodes \cup {b[k] : k \in DOMAIN b}
      /\ edges' = edges \cup UseEdges(state, b) \cup ExitEdges(state, b)
      /\ known' = [known EXCEPT ![cur] = known[cur] \cup Pairs(out)]
      /\ IF pushed = << >>
           THEN pc' = "done" /\ state' = out /\ UNCHANGED <<cur, stack>>
           ELSE /\ cur' = Last(pushed).at
                /\ state' = Last(pushed).state
                /\ stack' = Front(pushed)
                /\ UNCHANGED pc
  BY DEF Process
<1> HIDE DEF b
<1>4. \A k \in 1 .. Len(b) : b[k] \in Reachable
  BY <1>1, StaysReachable DEF b
<1>5. BlockSuccs(b) \subseteq Reachable
  BY <1>1, StaysReachable DEF b
<1>6. out \in States
  <2>1. ASSUME NEW v \in Vars PROVE out[v] \in Positions(code) \cup {NoDef}
    <3>1. b \in Seq(Positions(code)) /\ Len(b) \in Nat /\ state[v] \in Positions(code) \cup {NoDef}
      BY <1>1, <1>2 DEF IsChainOfFlow, States
    <3>2. Says(b, v, Len(b) + 1, state[v], out[v])
      BY <3>1, AfterAll
    <3>3. \A j \in 1 .. Len(b) + 1 - 1 : b[j] \in Positions(code)
      BY <3>1
    <3> QED
      BY <3>1, <3>2, <3>3 DEF Says
  <2>2. out = [v \in Vars |-> out[v]]
    BY DEF StateAfter
  <2> HIDE DEF out
  <2> QED
    BY <2>1, <2>2 DEF States
<1> HIDE DEF out
<1> DEFINE new == {[at |-> m, state |-> out] : m \in BlockSuccs(b)}
<1>7. pushed \in Seq(Entering) /\ Elems(pushed) = Elems(stack) \cup (IF updated THEN new ELSE {})
  <2>1. \A m \in BlockSuccs(b) : [at |-> m, state |-> out] \in Entering
    BY <1>5, <1>6 DEF Entering
  <2>2. PushSuccs(b, out) \in Seq(Entering) /\ Elems(PushSuccs(b, out)) = Elems(stack) \cup new
    BY <1>1, <2>1, PushedSuccs
  <2> QED
    BY <1>1, <2>2
<1> HIDE DEF pushed
<1>8. Waiting = {[at |-> cur, state |-> state]} \cup Elems(stack)
  BY <1>3 DEF Waiting
<1>9. /\ pc' \in {"loop", "done"} /\ cur' \in Reachable /\ state' \in States
      /\ stack' \in Seq(Entering) /\ Waiting' = Elems(pushed)
      /\ pc' = "done" => Waiting' = {}
  <2>1. Waiting' = (IF pc' = "loop" THEN {[at |-> cur', state |-> state']} ELSE {}) \cup Elems(stack')
    BY DEF Waiting, Elems
  <2>2. CASE pushed = << >>
    <3>1. pc' = "done" /\ stack' = stack /\ cur' = cur /\ state' = out
      BY <1>3, <2>2
    <3>2. Elems(pushed) = {}
      BY <2>2 DEF Elems
    <3>3. Elems(stack) = {}
      BY <1>7, <3>2
    <3> QED
      BY <1>1, <1>6, <2>1, <3>1, <3>2, <3>3
  <2>3. CASE pushed # << >>
    <3>1. PICK e : e = Last(pushed)
      OBVIOUS
    <3>2. cur' = e.at /\ stack' = Front(pushed) /\ pc' = "loop" /\ state' = e.state
      BY <1>3, <2>3, <3>1
    <3>3. /\ e \in Entering /\ Front(pushed) \in Seq(Entering)
          /\ Elems(pushed) = {e} \cup Elems(Front(pushed))
      BY <1>7, <2>3, <3>1, PopLeavesTheRest
    <3>4. e = [at |-> e.at, state |-> e.state] /\ e.at \in Reachable /\ e.state \in States
      BY <3>3 DEF Entering
    <3> QED
      BY <2>1, <3>2, <3>3, <3>4
  <2> QED
    BY <2>2, <2>3
<1> QED
  BY <1>2, <1>3, <1>4, <1>5, <1>6, <1>7, <1>8, <1>9 DEF b, out

-----------------------------------------------------------------------------
(* What a state says of v at p is true of some path of the code: nothing   *)
(* on it set v, or x did, and nothing since.                               *)
Reaches(x, v, p) ==
  IF x = NoDef THEN p \in ArrivesUnset({entry}, v)
  ELSE x \in Reachable /\ v \in Dst(x) /\ p \in ArrivesUnset(Flow(x), v)

Arrived(p, s) == \A v \in Vars : Reaches(s[v], v, p)

AllArrived == \A e \in Waiting : Arrived(e.at, e.state)

EdgesSound ==
  \A e \in edges : \E v \in Vars : e[3] = v /\ e \in DefUses(v) \cup EntryUses(v) \cup DefExits(v)

(* What is set in a block and not set again leaves it. *)
LeavesAlong(x, v, b) ==
  /\ x \in Reachable /\ v \in Dst(x)
  /\ x = b[Len(b)] \/ (b[Len(b)] \in ArrivesUnset(Flow(x), v) /\ v \notin Dst(b[Len(b)]))

LEMMA UnsetCarries ==
  ASSUME Program, NEW start, start \subseteq Reachable, NEW v
  PROVE  /\ IsCarrier(ArrivesUnset(start, v), v)
         /\ start \subseteq ArrivesUnset(start, v)
BY UnsetIsReachable DEF IsCarrier

LEMMA CarriedThrough ==
  ASSUME Program, NEW n \in Reachable, NEW b, IsChainOfFlow(b, n), \A k \in 1 .. Len(b) : b[k] \in Reachable,
         NEW v \in Vars, NEW before, Reaches(before, v, n), NEW k \in 1 .. Len(b) + 1, NEW x,
         Says(b, v, k, before, x)
  PROVE  /\ k # Len(b) + 1 => Reaches(x, v, b[k])
         /\ k = Len(b) + 1 => /\ \A m \in BlockSuccs(b) : Reaches(x, v, m)
                              /\ x # NoDef => LeavesAlong(x, v, b)
<1>1. /\ Len(b) \in Nat \ {0} /\ k # Len(b) + 1 => k \in 1 .. Len(b)
      /\ Len(b) \in 1 .. Len(b) /\ \A i \in 1 .. k - 1 : i \in 1 .. Len(b)
  BY DEF IsChainOfFlow
<1>2. CASE Unset(b, v, 1, k) /\ x = before
  <2>1. PICK start : /\ start = IF before = NoDef THEN {entry} ELSE Flow(before)
                     /\ start \subseteq Reachable
    <3>1. entry \in Reachable /\ (before # NoDef => Flow(before) \subseteq Reachable)
      BY ReachableClosed DEF Reaches
    <3> QED
      BY <3>1
  <2>2. PICK A : A = ArrivesUnset(start, v)
    OBVIOUS
  <2>3. IsCarrier(A, v) /\ n \in A
    BY <2>1, <2>2, UnsetCarries DEF Reaches
  <2>4. /\ \A i \in 1 .. Len(b) : Unset(b, v, 1, i) => b[i] \in A
        /\ Unset(b, v, 1, Len(b) + 1) =>
             b[Len(b)] \in A /\ v \notin Dst(b[Len(b)]) /\ BlockSuccs(b) \subseteq A
    BY <2>3, FromStart
  <2>5. \A p \in A : Reaches(x, v, p)
    BY <1>2, <2>1, <2>2 DEF Reaches
  <2>6. k # Len(b) + 1 => Reaches(x, v, b[k])
    BY <1>1, <1>2, <2>4, <2>5
  <2>7. ASSUME k = Len(b) + 1
        PROVE  (\A m \in BlockSuccs(b) : Reaches(x, v, m)) /\ (x # NoDef => LeavesAlong(x, v, b))
    BY <1>2, <2>1, <2>2, <2>4, <2>5, <2>7 DEF LeavesAlong, Reaches
  <2> QED
    BY <2>6, <2>7
<1>3. ASSUME NEW j \in 1 .. k - 1, LastSet(b, v, j, k), x = b[j]
      PROVE  /\ k # Len(b) + 1 => Reaches(x, v, b[k])
             /\ k = Len(b) + 1 => /\ \A m \in BlockSuccs(b) : Reaches(x, v, m)
                                  /\ x # NoDef => LeavesAlong(x, v, b)
  <2>1. j \in 1 .. Len(b) /\ x \in Reachable /\ v \in Dst(x) /\ Flow(x) \subseteq Reachable
    BY <1>1, <1>3, ReachableClosed DEF LastSet
  <2>2. PICK A : A = ArrivesUnset(Flow(x), v)
    OBVIOUS
  <2>3. IsCarrier(A, v) /\ Flow(b[j]) \subseteq A
    BY <1>3, <2>1, <2>2, UnsetCarries
  <2>4. /\ \A i \in 1 .. Len(b) : LastSet(b, v, j, i) => b[i] \in A
        /\ LastSet(b, v, j, Len(b) + 1) =>
              /\ BlockSuccs(b) \subseteq A
              /\ j = Len(b) \/ (b[Len(b)] \in A /\ v \notin Dst(b[Len(b)]))
    BY <2>1, <2>3, FromSetter
  <2>5. x # NoDef
    <3>1. x = <<x[1], x[2]>>
      BY <2>1, PositionsOfCode DEF Program, GraphFinished
    <3>2. <<x[1], x[2]>> # NoDef
      BY DEF NoDef
    <3> QED
      BY <3>1, <3>2
  <2>6. \A p \in A : Reaches(x, v, p)
    BY <2>1, <2>2, <2>5 DEF Reaches
  <2>7. k # Len(b) + 1 => Reaches(x, v, b[k])
    BY <1>1, <1>3, <2>4, <2>6
  <2>8. ASSUME k = Len(b) + 1
        PROVE  (\A m \in BlockSuccs(b) : Reaches(x, v, m)) /\ LeavesAlong(x, v, b)
    BY <1>3, <2>1, <2>2, <2>4, <2>6, <2>8 DEF LeavesAlong
  <2> QED
    BY <2>7, <2>8
<1> QED
  BY <1>2, <1>3 DEF Says

(* The edges a visit draws are real. *)
LEMMA UsesSound ==
  ASSUME Program, NEW n \in Reachable, NEW b, IsChainOfFlow(b, n), \A k \in 1 .. Len(b) : b[k] \in Reachable,
         NEW s \in States, Arrived(n, s), NEW e \in UseEdges(s, b)
  PROVE  \E v \in Vars : e[3] = v /\ e \in DefUses(v) \cup EntryUses(v)
<1>1. /\ b \in Seq(Positions(code)) /\ Len(b) \in Nat \ {0} /\ DOMAIN b = 1 .. Len(b)
      /\ \A k \in 1 .. Len(b) : b[k] \in Positions(code)
  BY DEF IsChainOfFlow
<1>2. PICK k \in 1 .. Len(b) : \E v \in Src(b[k]) : e = <<Source(StateBefore(s, b, k), v), b[k], v>>
  BY <1>1 DEF UseEdges
<1>3. PICK v \in Src(b[k]) : e = <<Source(StateBefore(s, b, k), v), b[k], v>>
  BY <1>2
<1>4. v \in Vars
  BY <1>1 DEF Program
<1>5. PICK x : x = StateBefore(s, b, k)[v]
  OBVIOUS
<1>6. Says(b, v, k, s[v], x)
  BY <1>1, <1>4, <1>5, BeforeEach
<1>7. Reaches(x, v, b[k])
  <2>1. k \in 1 .. Len(b) + 1 /\ k # Len(b) + 1 /\ Reaches(s[v], v, n)
    BY <1>1, <1>4 DEF Arrived
  <2> QED
    BY <1>4, <1>6, <2>1, CarriedThrough
<1>8. CASE x = NoDef
  <2>1. e = <<ENTRY, b[k], v>>
    BY <1>3, <1>5, <1>8 DEF Source
  <2>2. e \in EntryUses(v)
    BY <1>2, <1>7, <1>8, <2>1 DEF EntryUses, Reaches
  <2> QED
    BY <1>4, <2>1, <2>2
<1>9. CASE x # NoDef
  <2>1. e = <<x, b[k], v>>
    BY <1>3, <1>5, <1>9 DEF Source
  <2>2. e \in DefUses(v)
    BY <1>2, <1>7, <1>9, <2>1 DEF DefUses, Reaches
  <2> QED
    BY <1>4, <2>1, <2>2
<1> QED
  BY <1>8, <1>9

LEMMA ExitsSound ==
  ASSUME Program, NEW n \in Reachable, NEW b, IsChainOfFlow(b, n), \A k \in 1 .. Len(b) : b[k] \in Reachable,
         NEW s \in States, Arrived(n, s), NEW e \in ExitEdges(s, b)
  PROVE  \E v \in Vars : e[3] = v /\ e \in DefExits(v)
<1>1. /\ b \in Seq(Positions(code)) /\ Len(b) \in Nat \ {0} /\ Len(b) \in 1 .. Len(b)
      /\ Flow(b[Len(b)]) = BlockSuccs(b) /\ Has(InsnAt(code, b[Len(b)]), "BB_END")
  BY DEF IsChainOfFlow
<1>2. /\ BlockSuccs(b) = {}
      /\ \E v \in Vars : StateAfter(s, b)[v] # NoDef /\ e = <<StateAfter(s, b)[v], EXIT, v>>
  BY DEF ExitEdges
<1>3. PICK v \in Vars : StateAfter(s, b)[v] # NoDef /\ e = <<StateAfter(s, b)[v], EXIT, v>>
  BY <1>2
<1>4. PICK x : x = StateAfter(s, b)[v]
  OBVIOUS
<1>5. PICK L : L = Len(b) + 1
  OBVIOUS
<1>6. Says(b, v, L, s[v], x)
  BY <1>1, <1>4, <1>5, AfterAll
<1>7. LeavesAlong(x, v, b)
  <2>1. L \in 1 .. Len(b) + 1 /\ Reaches(s[v], v, n)
    BY <1>1, <1>5 DEF Arrived
  <2> QED
    BY <1>3, <1>4, <1>5, <1>6, <2>1, CarriedThrough
<1>8. b[Len(b)] \in Exits
  BY <1>1, <1>2 DEF Exits
<1>9. e \in DefExits(v)
  BY <1>3, <1>4, <1>7, <1>8 DEF DefExits, LeavesAlong
<1> QED
  BY <1>3, <1>9

-----------------------------------------------------------------------------
(* The invariant that says the edges are real. *)
DFGSound == DFGTypes /\ AllArrived /\ EdgesSound

LEMMA DFGInitTypes ==
  ASSUME DFGInit, GraphFinished
  PROVE  DFGTypes
<1> USE DEF DFGInit
<1>1. IsCode(code) /\ \A ir \in Positions(code) : InsnAt(code, ir).src \subseteq Vars /\ InsnAt(code, ir).dst \subseteq Vars
  BY ProgramsAssumption
<1>2. \A ir \in Positions(code) : Src(ir) \subseteq Vars /\ Dst(ir) \subseteq Vars
  BY <1>1, ProgramsAssumption DEF Src, Dst
<1>3. entry \in Nat \X {0}
  BY ProgramsAssumption
<1>4. Program
  BY <1>1, <1>2, <1>3 DEF Program
<1>5. cur \in Reachable
  BY <1>4, ReachableClosed
<1>6. state \in States
  BY DEF States
<1>7. stack \in Seq(Entering)
  BY EmptySeq
<1>8. known \in [Positions(code) -> SUBSET (Vars \X Positions(code))]
  OBVIOUS
<1> QED
  BY <1>4, <1>5, <1>6, <1>7, <1>8 DEF DFGTypes

LEMMA DFGInitSound ==
  ASSUME DFGInit, GraphFinished
  PROVE  DFGSound
<1>1. DFGTypes
  BY DFGInitTypes
<1>2. Waiting = {[at |-> entry, state |-> state]} /\ \A v \in Vars : state[v] = NoDef
  <2>1. Elems(<< >>) = {}
    BY DEF Elems
  <2> QED
    BY <2>1 DEF DFGInit, Waiting
<1>3. Arrived(entry, state)
  <2>1. ASSUME NEW v \in Vars PROVE Reaches(state[v], v, entry)
    <3>1. PICK S : S = {entry}
      OBVIOUS
    <3>2. S \subseteq Reachable
      BY <1>1, <3>1, ReachableClosed DEF DFGTypes
    <3>3. S \subseteq ArrivesUnset(S, v)
      BY <1>1, <3>2, UnsetIsReachable DEF DFGTypes
    <3> QED
      BY <1>2, <3>1, <3>3 DEF Reaches
  <2> QED
    BY <2>1 DEF Arrived
<1>4. AllArrived
  BY <1>2, <1>3 DEF AllArrived
<1>5. EdgesSound
  BY DEF DFGInit, EdgesSound
<1> QED
  BY <1>1, <1>4, <1>5 DEF DFGSound

LEMMA ProcessKeepsTypes ==
  ASSUME DFGTypes, Process
  PROVE  DFGTypes'
<1>1. PICK b : b = blocks[cur]
  OBVIOUS
<1>2. PICK out : out = StateAfter(state, b)
  OBVIOUS
<1>3. /\ UNCHANGED <<code, blocks, entry>>
      /\ IsChainOfFlow(b, cur) /\ out \in States
      /\ \A k \in 1 .. Len(b) : b[k] \in Reachable
      /\ nodes' = nodes \cup {b[k] : k \in DOMAIN b}
      /\ known' = [known EXCEPT ![cur] = known[cur] \cup Pairs(out)]
      /\ pc' \in {"loop", "done"}
      /\ cur' \in Reachable /\ state' \in States /\ stack' \in Seq(Entering)
      /\ pc' = "done" => Waiting' = {}
  BY <1>1, <1>2, ProcessEffect
<1>4. Program' = Program /\ Reachable' = Reachable /\ States' = States /\ Entering' = Entering
  BY <1>3, DFGRigid
<1>5. nodes' \subseteq Reachable
  BY <1>3 DEF DFGTypes, IsChainOfFlow
<1>6. known' \in [Positions(code) -> SUBSET (Vars \X Positions(code))]
  <2>1. Pairs(out) \subseteq Vars \X Positions(code)
    BY <1>3 DEF Pairs, States
  <2> QED
    BY <1>3, <2>1 DEF DFGTypes
<1> QED
  BY <1>3, <1>4, <1>5, <1>6 DEF DFGTypes

LEMMA ProcessKeepsSound ==
  ASSUME DFGSound, Process
  PROVE  DFGSound'
<1>1. DFGTypes /\ AllArrived /\ EdgesSound
  BY DEF DFGSound
<1>2. PICK b : b = blocks[cur]
  OBVIOUS
<1>3. PICK out : out = StateAfter(state, b)
  OBVIOUS
<1>4. /\ UNCHANGED <<code, blocks, entry>>
      /\ IsChainOfFlow(b, cur) /\ BlockSuccs(b) \subseteq Reachable
      /\ \A k \in 1 .. Len(b) : b[k] \in Reachable
      /\ edges' = edges \cup UseEdges(state, b) \cup ExitEdges(state, b)
      /\ Waiting = {[at |-> cur, state |-> state]} \cup Elems(stack)
      /\ Waiting' = Elems(stack) \cup
                  (IF Pairs(out) \subseteq known[cur] THEN {}
                   ELSE {[at |-> m, state |-> out] : m \in BlockSuccs(b)})
  BY <1>1, <1>2, <1>3, ProcessEffect
<1>5. Program /\ cur \in Reachable /\ state \in States
  BY <1>1 DEF DFGTypes
<1>6. Arrived(cur, state)
  <2>1. PICK e : e = [at |-> cur, state |-> state]
    OBVIOUS
  <2>2. e \in Waiting /\ e.at = cur /\ e.state = state
    BY <1>4, <2>1
  <2>3. Arrived(e.at, e.state)
    BY <1>1, <2>2 DEF AllArrived
  <2> QED
    BY <2>2, <2>3
<1>7. /\ Reachable' = Reachable
      /\ \A ir : Dst(ir)' = Dst(ir) /\ Flow(ir)' = Flow(ir)
      /\ \A v : DefUses(v)' = DefUses(v) /\ EntryUses(v)' = EntryUses(v) /\ DefExits(v)' = DefExits(v)
      /\ \A s, v : ArrivesUnset(s, v)' = ArrivesUnset(s, v)
  BY <1>4, DFGRigid
<1>8. EdgesSound'
  <2>1. ASSUME NEW e \in edges'
        PROVE  \E v \in Vars : e[3] = v /\ e \in DefUses(v) \cup EntryUses(v) \cup DefExits(v)
    <3>1. CASE e \in edges
      BY <1>1, <3>1 DEF EdgesSound
    <3>2. CASE e \in UseEdges(state, b)
      BY <1>4, <1>5, <1>6, <3>2, UsesSound
    <3>3. CASE e \in ExitEdges(state, b)
      BY <1>4, <1>5, <1>6, <3>3, ExitsSound
    <3> QED
      BY <1>4, <3>1, <3>2, <3>3
  <2>2. \A e \in edges' : \E v \in Vars : e[3] = v /\ e \in DefUses(v)' \cup EntryUses(v)' \cup DefExits(v)'
    BY <1>7, <2>1
  <2> QED
    BY <2>2 DEF EdgesSound
<1>9. AllArrived'
  <2>1. ASSUME NEW m \in BlockSuccs(b), NEW v \in Vars PROVE Reaches(out[v], v, m)
    <3>1. b \in Seq(Positions(code)) /\ Len(b) \in Nat
      BY <1>4 DEF IsChainOfFlow
    <3>2. PICK x : x = out[v]
      OBVIOUS
    <3>3. PICK L : L = Len(b) + 1
      OBVIOUS
    <3>4. Says(b, v, L, state[v], x)
      BY <1>3, <3>1, <3>2, <3>3, AfterAll
    <3>5. L \in 1 .. Len(b) + 1 /\ Reaches(state[v], v, cur)
      BY <1>6, <3>1, <3>3 DEF Arrived
    <3>6. \A k \in BlockSuccs(b) : Reaches(x, v, k)
      BY <1>4, <1>5, <3>3, <3>4, <3>5, CarriedThrough
    <3> QED
      BY <3>2, <3>6
  <2>2. \A m \in BlockSuccs(b) : Arrived(m, out)
    BY <2>1 DEF Arrived
  <2>3. ASSUME NEW e \in Waiting' PROVE Arrived(e.at, e.state)
    <3>1. CASE e \in Elems(stack)
      BY <1>1, <1>4, <3>1 DEF AllArrived
    <3>2. CASE e \notin Elems(stack)
      <4>1. PICK m \in BlockSuccs(b) : e = [at |-> m, state |-> out]
        BY <1>4, <3>2
      <4> QED
        BY <2>2, <4>1
    <3> QED
      BY <3>1, <3>2
  <2>4. \A x, v, p : Reaches(x, v, p)' = Reaches(x, v, p)
    BY <1>4, <1>7 DEF Reaches
  <2>5. \A p, s : Arrived(p, s)' = Arrived(p, s)
    BY <2>4 DEF Arrived
  <2> QED
    BY <2>3, <2>5 DEF AllArrived
<1> QED
  BY <1>1, <1>8, <1>9, ProcessKeepsTypes DEF DFGSound

-----------------------------------------------------------------------------
(* A block has been processed with something to tell. *)
Done(n) == known[n] # {}

(* Block n was processed with a state in which d had set v: what uses v in *)
(* it is linked to d, and what leaves it with v knows of d.                *)
Handled(n, v, d) ==
  LET b == blocks[n]
  IN  /\ Done(n)
      /\ \A k \in 1 .. Len(b) : Unset(b, v, 1, k) /\ v \in Src(b[k]) => <<d, b[k], v>> \in edges
      /\ Unset(b, v, 1, Len(b) + 1) =>
           <<v, d>> \in known[n] /\ (BlockSuccs(b) = {} => <<d, EXIT, v>> \in edges)

(* What the block itself sets is linked to what uses it in the block, and  *)
(* known at its end.                                                       *)
Own(n) ==
  LET b == blocks[n]
  IN  /\ \A k \in 1 .. Len(b) : b[k] \in nodes
      /\ \A v \in Vars : \A k \in 1 .. Len(b) : \A j \in 1 .. k - 1 :
           LastSet(b, v, j, k) /\ v \in Src(b[k]) => <<b[j], b[k], v>> \in edges
      /\ \A v \in Vars : \A j \in 1 .. Len(b) :
           LastSet(b, v, j, Len(b) + 1) =>
             <<v, b[j]>> \in known[n] /\ (BlockSuccs(b) = {} => <<b[j], EXIT, v>> \in edges)

OwnDone == \A n \in Reachable : Done(n) => Own(n)

(* What is known at the end of a block has been carried into the blocks    *)
(* behind it, or waits to be.                                              *)
CarriedOn(m, v, d) == Handled(m, v, d) \/ \E e \in Waiting : e.at = m /\ e.state[v] = d

NewsGoesOn ==
  \A n \in Reachable : \A p \in known[n] : \A m \in BlockSuccs(blocks[n]) : CarriedOn(m, p[1], p[2])

EntryFirst == EntrySets => Done(entry) \/ (pc = "loop" /\ cur = entry)

(* The invariant that says no edge is missed. *)
DFGComplete == DFGTypes /\ OwnDone /\ NewsGoesOn /\ EntryFirst

(* What one visit establishes. *)
LEMMA VisitEstablishes ==
  ASSUME DFGTypes, Process, NEW n, n = cur, NEW s, s = state
  PROVE  /\ Own(n)'
         /\ \A v \in Vars : s[v] # NoDef => Handled(n, v, s[v])'
         /\ EntrySets /\ n = entry => Done(n)'
<1>1. PICK b : b = blocks[cur]
  OBVIOUS
<1>2. PICK out : out = StateAfter(s, b)
  OBVIOUS
<1>3. /\ UNCHANGED <<code, blocks, entry>>
      /\ IsChainOfFlow(b, n)
      /\ nodes' = nodes \cup {b[k] : k \in DOMAIN b}
      /\ edges' = edges \cup UseEdges(s, b) \cup ExitEdges(s, b)
      /\ known' = [known EXCEPT ![n] = known[n] \cup Pairs(out)]
  BY <1>1, <1>2, ProcessEffect
<1>4. /\ Program /\ n \in Reachable /\ n \in Positions(code) /\ blocks' = blocks
      /\ \A ir : Src(ir)' = Src(ir) /\ Dst(ir)' = Dst(ir)
      /\ EntrySets' = EntrySets
  BY <1>3, DFGRigid, ReachableClosed DEF DFGTypes
<1>5. /\ b \in Seq(Positions(code)) /\ Len(b) \in Nat \ {0} /\ DOMAIN b = 1 .. Len(b)
      /\ \A k \in 1 .. Len(b) : b[k] \in Positions(code) /\ b[k] # NoDef
  <2>1. /\ b \in Seq(Positions(code)) /\ Len(b) \in Nat \ {0} /\ DOMAIN b = 1 .. Len(b)
        /\ \A k \in 1 .. Len(b) : b[k] \in Positions(code)
    BY <1>3 DEF IsChainOfFlow
  <2>2. ASSUME NEW p \in Positions(code) PROVE p # NoDef
    <3>1. p = <<p[1], p[2]>>
      BY <1>4, PositionsOfCode DEF Program
    <3>2. <<p[1], p[2]>> # NoDef
      BY DEF NoDef
    <3> QED
      BY <3>1, <3>2
  <2> QED
    BY <2>1, <2>2
<1>6. PICK L \in Nat : L = Len(b) + 1
  BY <1>5
<1>7. ASSUME NEW v \in Vars, NEW k \in 1 .. Len(b)
      PROVE  Says(b, v, k, s[v], StateBefore(s, b, k)[v])
  BY <1>5, BeforeEach
<1>8. ASSUME NEW v \in Vars PROVE Says(b, v, L, s[v], out[v])
  BY <1>2, <1>5, <1>6, AfterAll
<1>9. Pairs(out) \subseteq known'[n]
  BY <1>3, <1>4 DEF DFGTypes
<1>10. ASSUME NEW v \in Vars, out[v] # NoDef
       PROVE  /\ <<v, out[v]>> \in known'[n]
              /\ BlockSuccs(b) = {} => <<out[v], EXIT, v>> \in edges'
  <2>1. <<v, out[v]>> \in Pairs(out)
    BY <1>10 DEF Pairs
  <2>2. BlockSuccs(b) = {} => <<out[v], EXIT, v>> \in ExitEdges(s, b)
    BY <1>2, <1>10 DEF ExitEdges
  <2> QED
    BY <1>3, <1>9, <2>1, <2>2
<1>11. ASSUME NEW k \in 1 .. Len(b), NEW v \in Src(b[k])
       PROVE  <<Source(StateBefore(s, b, k), v), b[k], v>> \in edges'
  <2>1. <<Source(StateBefore(s, b, k), v), b[k], v>> \in UseEdges(s, b)
    BY <1>5 DEF UseEdges
  <2> QED
    BY <1>3, <2>1
<1>12. BlockSuccs(b)' = BlockSuccs(b)
  BY <1>1, <1>3 DEF BlockSuccs
<1>13. \A v, i, j : /\ Unset(b, v, i, j)' = Unset(b, v, i, j)
                   /\ LastSet(b, v, i, j)' = LastSet(b, v, i, j)
  <2>1. \A v, i, j : Unset(b, v, i, j)' = Unset(b, v, i, j)
    BY <1>4 DEF Unset
  <2> QED
    BY <1>4, <2>1 DEF LastSet
<1>14. Own(n)'
  <2>1. \A k \in 1 .. Len(b) : b[k] \in nodes'
    BY <1>3, <1>5
  <2>2. ASSUME NEW v \in Vars, NEW k \in 1 .. Len(b), NEW j \in 1 .. k - 1,
               LastSet(b, v, j, k), v \in Src(b[k])
        PROVE  <<b[j], b[k], v>> \in edges'
    <3>1. k \in Nat /\ j \in 1 .. Len(b)
      BY <1>5
    <3>2. StateBefore(s, b, k)[v] = b[j]
      BY <1>7, <2>2, <3>1, SaysOne
    <3>3. Source(StateBefore(s, b, k), v) = b[j]
      BY <1>5, <3>1, <3>2 DEF Source
    <3> QED
      BY <1>11, <2>2, <3>3
  <2>3. ASSUME NEW v \in Vars, NEW j \in 1 .. Len(b), LastSet(b, v, j, Len(b) + 1)
        PROVE  <<v, b[j]>> \in known'[n] /\ (BlockSuccs(b) = {} => <<b[j], EXIT, v>> \in edges')
    <3>1. j \in 1 .. L - 1 /\ LastSet(b, v, j, L)
      BY <1>5, <1>6, <2>3
    <3>2. out[v] = b[j]
      BY <1>8, <3>1, SaysOne
    <3> QED
      BY <1>5, <1>10, <3>2
  <2> QED
    BY <1>1, <1>4, <1>12, <1>13, <2>1, <2>2, <2>3 DEF Own
<1>15. ASSUME NEW v \in Vars, s[v] # NoDef PROVE Handled(n, v, s[v])'
  <2>1. Done(n)'
    <3>1. out[v] # NoDef
      <4>1. \A j \in 1 .. L - 1 : j \in 1 .. Len(b)
        BY <1>5, <1>6
      <4> QED
        BY <1>5, <1>8, <1>15, <4>1 DEF Says
    <3> QED
      BY <1>10, <3>1 DEF Done
  <2>2. ASSUME NEW k \in 1 .. Len(b), Unset(b, v, 1, k), v \in Src(b[k])
        PROVE  <<s[v], b[k], v>> \in edges'
    <3>1. k \in Nat
      BY <1>5
    <3>2. StateBefore(s, b, k)[v] = s[v]
      BY <1>7, <2>2, <3>1, SaysOne
    <3>3. Source(StateBefore(s, b, k), v) = s[v]
      BY <1>15, <3>2 DEF Source
    <3> QED
      BY <1>11, <2>2, <3>3
  <2>3. ASSUME Unset(b, v, 1, Len(b) + 1)
        PROVE  <<v, s[v]>> \in known'[n] /\ (BlockSuccs(b) = {} => <<s[v], EXIT, v>> \in edges')
    <3>1. out[v] = s[v]
      BY <1>6, <1>8, <2>3, SaysOne
    <3> QED
      BY <1>10, <1>15, <3>1
  <2> QED
    BY <1>1, <1>4, <1>12, <1>13, <2>1, <2>2, <2>3 DEF Handled
<1>16. ASSUME EntrySets, n = entry PROVE Done(n)'
  <2>1. PICK k \in 1 .. Len(b) : Dst(b[k]) # {}
    BY <1>1, <1>5, <1>16 DEF EntrySets
  <2>2. PICK v \in Vars : v \in Dst(b[k])
    BY <1>4, <1>5, <2>1 DEF Program
  <2>3. ~ Unset(b, v, 1, L)
    <3>1. k \in 1 .. L - 1
      BY <1>5, <1>6
    <3> QED
      BY <2>2, <3>1 DEF Unset
  <2>4. out[v] # NoDef
    <3>1. \A j \in 1 .. L - 1 : j \in 1 .. Len(b)
      BY <1>5, <1>6
    <3> QED
      BY <1>5, <1>8, <2>3, <3>1 DEF Says
  <2> QED
    BY <1>10, <2>4 DEF Done
<1> QED
  BY <1>14, <1>15, <1>16

LEMMA ProcessKeepsComplete ==
  ASSUME DFGComplete, Process
  PROVE  DFGComplete'
<1>1. DFGTypes /\ OwnDone /\ NewsGoesOn /\ EntryFirst
  BY DEF DFGComplete
<1>2. PICK n : n = cur
  OBVIOUS
<1>3. PICK s : s = state
  OBVIOUS
<1>4. PICK b : b = blocks[n]
  OBVIOUS
<1>5. PICK out : out = StateAfter(s, b)
  OBVIOUS
<1>6. /\ UNCHANGED <<code, blocks, entry>>
      /\ IsChainOfFlow(b, n)
      /\ nodes' = nodes \cup {b[k] : k \in DOMAIN b}
      /\ edges' = edges \cup UseEdges(s, b) \cup ExitEdges(s, b)
      /\ known' = [known EXCEPT ![n] = known[n] \cup Pairs(out)]
      /\ Waiting = {[at |-> n, state |-> s]} \cup Elems(stack)
      /\ Waiting' = Elems(stack) \cup
                  (IF Pairs(out) \subseteq known[n] THEN {}
                   ELSE {[at |-> m, state |-> out] : m \in BlockSuccs(b)})
  BY <1>1, <1>2, <1>3, <1>4, <1>5, ProcessEffect
<1>7. /\ Reachable' = Reachable /\ EntrySets' = EntrySets
      /\ \A ir : Src(ir)' = Src(ir) /\ Dst(ir)' = Dst(ir)
  BY <1>6, DFGRigid
<1>8. /\ Own(n)'
      /\ \A v \in Vars : s[v] # NoDef => Handled(n, v, s[v])'
      /\ EntrySets /\ n = entry => Done(n)'
  BY <1>1, <1>2, <1>3, VisitEstablishes
<1>9. /\ \A q, v, i, j : Unset(q, v, i, j)' = Unset(q, v, i, j) /\ LastSet(q, v, i, j)' = LastSet(q, v, i, j)
      /\ \A q : BlockSuccs(q)' = BlockSuccs(q)
  <2>1. \A q, v, i, j : Unset(q, v, i, j)' = Unset(q, v, i, j)
    BY <1>7 DEF Unset
  <2>2. \A q, v, i, j : LastSet(q, v, i, j)' = LastSet(q, v, i, j)
    BY <1>7, <2>1 DEF LastSet
  <2>3. \A q : BlockSuccs(q)' = BlockSuccs(q)
    BY <1>6 DEF BlockSuccs
  <2> QED
    BY <2>1, <2>2, <2>3
<1>10. /\ nodes \subseteq nodes' /\ edges \subseteq edges'
       /\ n \in Reachable /\ Reachable \subseteq Positions(code)
       /\ \A m \in Positions(code) : known[m] \subseteq known'[m] /\ (m # n => known'[m] = known[m])
       /\ known'[n] = known[n] \cup Pairs(out)
  <2>1. n \in Reachable /\ Reachable \subseteq Positions(code)
    BY <1>1, <1>2, ReachableClosed DEF DFGTypes
  <2>2. known \in [Positions(code) -> SUBSET (Vars \X Positions(code))]
    BY <1>1 DEF DFGTypes
  <2> QED
    BY <1>6, <2>1, <2>2
<1>11. OwnDone'
  <2>1. ASSUME NEW m \in Reachable, Done(m)', m # n PROVE Own(m)'
    <3>1. Own(m)
      BY <1>1, <1>10, <2>1 DEF OwnDone, Done
    <3>2. blocks'[m] = blocks[m] /\ known'[m] = known[m]
      BY <1>6, <1>10, <2>1
    <3> QED
      BY <1>7, <1>9, <1>10, <3>1, <3>2 DEF Own
  <2>2. \A m \in Reachable : Done(m)' => Own(m)'
    BY <1>8, <2>1
  <2> QED
    BY <1>7, <2>2 DEF OwnDone
<1>12. ASSUME NEW m \in Positions(code), NEW v, NEW d, Handled(m, v, d) PROVE Handled(m, v, d)'
  <2>1. known[m] \subseteq known'[m] /\ blocks' = blocks
    BY <1>6, <1>10
  <2>2. Done(m)'
    BY <1>12, <2>1 DEF Handled, Done
  <2> QED
    BY <1>7, <1>9, <1>10, <1>12, <2>1, <2>2 DEF Handled
<1>13. NewsGoesOn'
  <2>1. ASSUME NEW k \in Reachable, NEW p \in known'[k], NEW m \in BlockSuccs(blocks[k])
        PROVE  Handled(m, p[1], p[2])' \/ \E e \in Waiting' : e.at = m /\ e.state[p[1]] = p[2]
    <3>1. m \in Positions(code)
      <4>1. BlockSuccs(blocks[k]) \subseteq Reachable
        BY <1>1, StaysReachable DEF DFGTypes
      <4> QED
        BY <1>10, <4>1
    <3>2. CASE p \in known[k]
      <4>1. CarriedOn(m, p[1], p[2])
        BY <1>1, <3>2 DEF NewsGoesOn
      <4>2. CASE Handled(m, p[1], p[2])
        BY <1>12, <3>1, <4>2
      <4>3. ASSUME NEW e \in Waiting, e.at = m, e.state[p[1]] = p[2]
            PROVE  Handled(m, p[1], p[2])' \/ e \in Waiting'
        <5>1. CASE e \in Elems(stack)
          BY <1>6, <5>1
        <5>2. CASE e = [at |-> n, state |-> s]
          <6>1. m = n /\ s[p[1]] = p[2]
            BY <4>3, <5>2
          <6>2. p[1] \in Vars /\ p[2] \in Positions(code)
            BY <1>1, <1>10, <3>2 DEF DFGTypes
          <6>3. p[2] # NoDef
            <7>1. p[2] = <<p[2][1], p[2][2]>>
              BY <1>1, <6>2, PositionsOfCode DEF DFGTypes, Program
            <7>2. <<p[2][1], p[2][2]>> # NoDef
              BY DEF NoDef
            <7> QED
              BY <7>1, <7>2
          <6> QED
            BY <1>8, <6>1, <6>2, <6>3
        <5> QED
          BY <1>6, <5>1, <5>2
      <4> QED
        BY <4>1, <4>2, <4>3 DEF CarriedOn
    <3>3. CASE p \notin known[k]
      <4>1. k = n /\ p \in Pairs(out)
        BY <1>10, <3>3
      <4>2. p[2] = out[p[1]]
        BY <4>1 DEF Pairs
      <4>3. PICK e : e = [at |-> m, state |-> out]
        OBVIOUS
      <4>4. e \in Waiting' /\ e.at = m /\ e.state[p[1]] = p[2]
        BY <1>4, <1>6, <3>3, <4>1, <4>2, <4>3
      <4> QED
        BY <4>4
    <3> QED
      BY <3>2, <3>3
  <2>2. \A k \in Reachable : blocks'[k] = blocks[k] /\ BlockSuccs(blocks[k])' = BlockSuccs(blocks[k])
    BY <1>6 DEF BlockSuccs
  <2> QED
    BY <1>7, <2>1, <2>2 DEF NewsGoesOn, CarriedOn
<1>14. EntryFirst'
  <2>1. SUFFICES ASSUME EntrySets PROVE Done(entry)'
    BY <1>7 DEF EntryFirst
  <2>2. CASE Done(entry)
    <3>1. entry \in Positions(code) /\ entry' = entry
      BY <1>1, <1>6, ReachableClosed DEF DFGTypes
    <3> QED
      BY <1>10, <2>2, <3>1 DEF Done
  <2>3. CASE cur = entry
    <3>1. n = entry /\ entry' = entry
      BY <1>2, <1>6, <2>3
    <3> QED
      BY <1>8, <2>1, <3>1 DEF Done
  <2> QED
    BY <1>1, <2>1, <2>2, <2>3 DEF EntryFirst
<1> QED
  BY <1>1, <1>11, <1>13, <1>14, ProcessKeepsTypes DEF DFGComplete

LEMMA DFGInitComplete ==
  ASSUME DFGInit, GraphFinished
  PROVE  DFGComplete
<1>1. \A n \in Positions(code) : known[n] = {}
  BY DEF DFGInit
<1>2. Reachable \subseteq Positions(code)
  BY DEF GraphFinished
<1>3. OwnDone /\ NewsGoesOn
  BY <1>1, <1>2 DEF OwnDone, NewsGoesOn, Done
<1>4. EntryFirst
  BY DEF DFGInit, EntryFirst
<1> QED
  BY <1>3, <1>4, DFGInitTypes DEF DFGComplete

LEMMA DFGUnchanged ==
  ASSUME UNCHANGED dfgVars
  PROVE  DFGSound' = DFGSound /\ DFGComplete' = DFGComplete
<1> USE DEF dfgVars
<1>1. /\ Program' = Program /\ Reachable' = Reachable /\ States' = States
      /\ Entering' = Entering /\ EntrySets' = EntrySets
      /\ \A ir : Src(ir)' = Src(ir) /\ Dst(ir)' = Dst(ir) /\ Flow(ir)' = Flow(ir)
      /\ \A v : DefUses(v)' = DefUses(v) /\ EntryUses(v)' = EntryUses(v) /\ DefExits(v)' = DefExits(v)
      /\ \A s, v : ArrivesUnset(s, v)' = ArrivesUnset(s, v)
  BY DFGRigid
<1>2. Waiting' = Waiting
  BY DEF Waiting, Elems
<1>3. DFGTypes' = DFGTypes
  BY <1>1, <1>2 DEF DFGTypes
<1>4. AllArrived' = AllArrived
  BY <1>1, <1>2 DEF AllArrived, Arrived, Reaches
<1>5. EdgesSound' = EdgesSound
  BY <1>1 DEF EdgesSound
<1>6. /\ \A q, v, i, j : Unset(q, v, i, j)' = Unset(q, v, i, j) /\ LastSet(q, v, i, j)' = LastSet(q, v, i, j)
      /\ \A q : BlockSuccs(q)' = BlockSuccs(q)
      /\ \A n : Done(n)' = Done(n)
  BY <1>1 DEF Unset, LastSet, BlockSuccs, Done
<1>7. \A n : Own(n)' = Own(n)
  BY <1>1, <1>6 DEF Own
<1>8. \A n, v, d : Handled(n, v, d)' = Handled(n, v, d)
  BY <1>1, <1>6 DEF Handled
<1>9. OwnDone' = OwnDone
  BY <1>1, <1>6, <1>7 DEF OwnDone
<1>10. NewsGoesOn' = NewsGoesOn
  BY <1>1, <1>2, <1>6, <1>8, SMTT(30) DEF NewsGoesOn, CarriedOn
<1>11. EntryFirst' = EntryFirst
  BY <1>1, <1>6 DEF EntryFirst, Done
<1> QED
  BY <1>3, <1>4, <1>5, <1>9, <1>10, <1>11 DEF DFGSound, DFGComplete

(* Both hold in every state of the traversal of a finished graph. *)
LEMMA DFGInvHolds == DFGSpec /\ GraphFinished => [](DFGSound /\ DFGComplete)
<1>1. DFGInit /\ GraphFinished => DFGSound /\ DFGComplete
  BY DFGInitSound, DFGInitComplete
<1>2. DFGSound /\ DFGComplete /\ [DFGNext]_dfgVars => (DFGSound /\ DFGComplete)'
  BY ProcessKeepsSound, ProcessKeepsComplete, DFGUnchanged DEF DFGNext
<1> QED
  BY <1>1, <1>2, PTL DEF DFGSpec

-----------------------------------------------------------------------------
(* The traversal of a finished graph stays in it: what it processes are    *)
(* instructions of the code, and a state names instructions only.          *)
THEOREM DFGTypeCorrect == DFGSpec /\ GraphFinished => []DFGTypeOK
<1>1. DFGTypes => DFGTypeOK
  <2>1. SUFFICES ASSUME DFGTypes PROVE DFGTypeOK
    OBVIOUS
  <2>2. Reachable \subseteq Positions(code)
    BY <2>1 DEF DFGTypes, Program, GraphFinished
  <2>3. \A k \in DOMAIN stack : stack[k].state \in States
    <3>1. \A k \in DOMAIN stack : stack[k] \in Entering
      BY <2>1 DEF DFGTypes
    <3> QED
      BY <3>1 DEF Entering
  <2> QED
    BY <2>1, <2>2, <2>3 DEF DFGTypes, DFGTypeOK, States
<1> QED
  BY <1>1, DFGInvHolds, PTL DEF DFGSound

(* Every edge of the data flow graph is real: it links a definition to a   *)
(* use, or to an exit, that a path of the code leads to without another    *)
(* definition, or the entry to a use that a path without any leads to.     *)
THEOREM EdgesAreReal == DFGSpec /\ GraphFinished => []EdgesReal
<1>1. EdgesSound => EdgesReal
  BY DEF EdgesSound, EdgesReal
<1> QED
  BY <1>1, DFGInvHolds, PTL DEF DFGSound

(* When the traversal ends, every instruction control reaches is in a      *)
(* block that was processed, as long as the entry block had news.          *)
LEMMA AllDone ==
  ASSUME DFGComplete, pc = "done", EntrySets, NEW p \in Reachable
  PROVE  \E n \in Reachable : Done(n) /\ \E k \in 1 .. Len(blocks[n]) : p = blocks[n][k]
<1> DEFINE Place(q) == \E n \in Reachable : Done(n) /\ \E k \in 1 .. Len(blocks[n]) : q = blocks[n][k]
           B == {q \in Reachable : Place(q)}
<1>1. DFGTypes /\ NewsGoesOn /\ Program /\ IsCode(code) /\ Waiting = {} /\ Done(entry) /\ entry \in Reachable
  BY ReachableClosed DEF DFGComplete, DFGTypes, Program, EntryFirst
<1>2. ASSUME NEW n \in Reachable, Done(n) PROVE n \in B
  <2>1. Len(blocks[n]) \in Nat \ {0} /\ blocks[n][1] = n
    BY BlockOfReachable, <1>1 DEF IsChainOfFlow
  <2> QED
    BY <1>2, <2>1
<1>3. ASSUME NEW q \in B PROVE Flow(q) \subseteq B
  <2>1. PICK n \in Reachable : Done(n) /\ \E k \in 1 .. Len(blocks[n]) : q = blocks[n][k]
    OBVIOUS
  <2>2. PICK k \in 1 .. Len(blocks[n]) : q = blocks[n][k]
    BY <2>1
  <2>3. PICK b : b = blocks[n]
    OBVIOUS
  <2>4. /\ IsChainOfFlow(b, n) /\ BlockSuccs(b) \subseteq Reachable
        /\ \A i \in 1 .. Len(b) : b[i] \in Reachable
    BY <1>1, <2>3, BlockOfReachable, StaysReachable
  <2>5. Len(b) \in Nat \ {0} /\ (k = Len(b) \/ k \in 1 .. Len(b) - 1)
    BY <2>3, <2>4 DEF IsChainOfFlow
  <2>6. CASE k \in 1 .. Len(b) - 1
    <3>1. Flow(q) = {b[k + 1]} /\ k + 1 \in 1 .. Len(b)
      <4>1. k + 1 \in 1 .. Len(b)
        BY <2>5, <2>6
      <4> HIDE DEF B
      <4>2. q = b[k]
        BY <2>2, <2>3
      <4> QED
        BY <2>4, <2>6, <4>1, <4>2 DEF IsChainOfFlow
    <3>2. b[k + 1] \in Reachable /\ Place(b[k + 1])
      BY <2>1, <2>3, <2>4, <3>1
    <3> QED
      BY <3>1, <3>2
  <2>7. CASE k = Len(b)
    <3>1. Flow(q) = BlockSuccs(b)
      BY <2>2, <2>3, <2>4, <2>7 DEF IsChainOfFlow
    <3>2. PICK t \in known[n] : TRUE
      BY <2>1 DEF Done
    <3>3. ASSUME NEW m \in BlockSuccs(b) PROVE Done(m)
      <4>1. CarriedOn(m, t[1], t[2])
        BY <1>1, <2>3 DEF NewsGoesOn
      <4> QED
        BY <1>1, <4>1 DEF CarriedOn, Handled
    <3> HIDE DEF B
    <3> QED
      BY <1>2, <2>4, <3>1, <3>3
  <2> QED
    BY <2>5, <2>6, <2>7
<1>4. PICK S : S = {entry}
  OBVIOUS
<1>5. PICK P : P = Positions(code)
  OBVIOUS
<1>6. S \subseteq B /\ \A ir \in B \cap P : Flow(ir) \subseteq B
  <2> HIDE DEF B
  <2> QED
    BY <1>1, <1>2, <1>3, <1>4
<1>7. ArrivesFrom(S, P) \subseteq B
  <2> HIDE DEF B
  <2>1. P \in SUBSET Positions(code)
    BY <1>5
  <2> QED
    BY <1>1, <1>6, <2>1, ArrivesLeast
<1>8. p \in B
  BY <1>4, <1>5, <1>7 DEF Reachable
<1> QED
  BY <1>8

(* Every instruction control reaches is in the data flow graph when the    *)
(* traversal ends, and no other, if the entry block sets anything at all.  *)
THEOREM EveryInsnIsAnalysed == DFGSpec /\ GraphFinished => []AnalysedWhenEntrySets
<1>1. DFGComplete => AnalysedWhenEntrySets
  <2>1. SUFFICES ASSUME DFGComplete, EntrySets, pc = "done" PROVE nodes = Reachable
    BY DEF AnalysedWhenEntrySets, EveryInsnAnalysed
  <2>2. ASSUME NEW p \in Reachable PROVE p \in nodes
    <3>1. PICK n \in Reachable : Done(n) /\ \E k \in 1 .. Len(blocks[n]) : p = blocks[n][k]
      BY <2>1, AllDone
    <3> QED
      BY <2>1, <3>1 DEF DFGComplete, OwnDone, Own
  <2>3. nodes \subseteq Reachable
    BY <2>1 DEF DFGComplete, DFGTypes
  <2> QED
    BY <2>2, <2>3
<1> QED
  BY <1>1, DFGInvHolds, PTL

-----------------------------------------------------------------------------
(* An instruction that was looked at with the value that d, the j-th of    *)
(* block n, gave to v: later in that block, or in one the value came to.   *)
SeenIn(m, p, v) == \E k \in 1 .. Len(blocks[m]) : p = blocks[m][k] /\ Unset(blocks[m], v, 1, k)

Seen(p, n, v, j) ==
  \/ \E k \in 1 .. Len(blocks[n]) : p = blocks[n][k] /\ LastSet(blocks[n], v, j, k)
  \/ \E m \in Reachable : Handled(m, v, blocks[n][j]) /\ SeenIn(m, p, v)

(* When nothing waits, what is known at the end of a block was seen behind *)
(* it.                                                                     *)
LEMMA SeenBehind ==
  ASSUME DFGComplete, Waiting = {}, NEW n, NEW v, NEW j, NEW m \in Reachable,
         <<v, blocks[n][j]>> \in known[m], NEW q \in BlockSuccs(blocks[m])
  PROVE  Seen(q, n, v, j)
<1>1. Program /\ NewsGoesOn
  BY DEF DFGComplete, DFGTypes
<1>2. PICK d : d = blocks[n][j]
  OBVIOUS
<1>3. Handled(q, v, d)
  <2>1. PICK t : t = <<v, d>>
    OBVIOUS
  <2>2. CarriedOn(q, t[1], t[2]) /\ t[1] = v /\ t[2] = d
    BY <1>1, <1>2, <2>1 DEF NewsGoesOn
  <2> QED
    BY <2>2 DEF CarriedOn
<1>4. q \in Reachable
  BY <1>1, StaysReachable
<1>5. SeenIn(q, q, v)
  <2>1. Len(blocks[q]) \in Nat \ {0} /\ blocks[q][1] = q
    BY <1>1, <1>4, BlockOfReachable DEF IsChainOfFlow
  <2>2. Unset(blocks[q], v, 1, 1) /\ 1 \in 1 .. Len(blocks[q])
    BY <2>1 DEF Unset
  <2> QED
    BY <2>1, <2>2 DEF SeenIn
<1> QED
  BY <1>2, <1>3, <1>4, <1>5 DEF Seen

(* One instruction on, in a block or out of it. *)
LEMMA OneOn ==
  ASSUME NEW b, NEW n, IsChainOfFlow(b, n), NEW v, NEW k \in 1 .. Len(b), v \notin Dst(b[k])
  PROVE  /\ k \in 1 .. Len(b) - 1 => k + 1 \in 1 .. Len(b) /\ Flow(b[k]) = {b[k + 1]}
         /\ k = Len(b) => Flow(b[k]) = BlockSuccs(b)
         /\ k \in 1 .. Len(b) - 1 \/ k = Len(b)
         /\ Unset(b, v, 1, k) => Unset(b, v, 1, k + 1)
         /\ \A j \in 1 .. Len(b) : LastSet(b, v, j, k) => LastSet(b, v, j, k + 1)
<1>1. Len(b) \in Nat \ {0} /\ k \in Nat /\ (k + 1) - 1 = k
      /\ \A i \in Nat : \A m \in i .. k : m \in i .. k - 1 \/ m = k
  BY DEF IsChainOfFlow
<1>2. \A i \in Nat : Unset(b, v, i, k) => Unset(b, v, i, k + 1)
  BY <1>1 DEF Unset
<1>3. ASSUME NEW j \in 1 .. Len(b), LastSet(b, v, j, k) PROVE LastSet(b, v, j, k + 1)
  <2>1. j \in 1 .. k - 1 /\ v \in Dst(b[j]) /\ Unset(b, v, j + 1, k) /\ j + 1 \in Nat /\ j \in 1 .. (k + 1) - 1
    BY <1>1, <1>3 DEF LastSet
  <2> QED
    BY <1>2, <2>1 DEF LastSet
<1>4. k \in 1 .. Len(b) - 1 \/ k = Len(b)
  BY <1>1
<1>5. k \in 1 .. Len(b) - 1 => k + 1 \in 1 .. Len(b)
  BY <1>1
<1> QED
  BY <1>2, <1>3, <1>4, <1>5 DEF IsChainOfFlow

LEMMA AllSeen ==
  ASSUME DFGComplete, Waiting = {}, NEW n \in Reachable, Done(n), NEW v \in Vars,
         NEW j \in 1 .. Len(blocks[n]), v \in Dst(blocks[n][j]),
         NEW p \in ArrivesUnset(Flow(blocks[n][j]), v)
  PROVE  Seen(p, n, v, j)
<1>1. PICK b : b = blocks[n]
  OBVIOUS
<1>2. PICK d : d = b[j]
  OBVIOUS
<1>3. PICK L : L = Len(b)
  OBVIOUS
<1>4. /\ Program /\ IsCode(code) /\ OwnDone /\ IsChainOfFlow(b, n) /\ L \in Nat \ {0}
      /\ d \in Reachable /\ Flow(d) \subseteq Reachable
  <2>1. Program /\ IsCode(code) /\ OwnDone
    BY DEF DFGComplete, DFGTypes, Program
  <2>2. IsChainOfFlow(b, n) /\ d \in Reachable
    BY <1>1, <1>2, <2>1, BlockOfReachable, StaysReachable
  <2>3. Flow(d) \subseteq Reachable
    BY <2>1, <2>2, ReachableClosed
  <2>4. L \in Nat \ {0}
    BY <1>3, <2>2 DEF IsChainOfFlow
  <2> QED
    BY <2>1, <2>2, <2>3, <2>4
<1> DEFINE B == {q \in Reachable : Seen(q, n, v, j)}
<1>5. ASSUME LastSet(b, v, j, L + 1) PROVE BlockSuccs(b) \subseteq B
  <2>1. <<v, b[j]>> \in known[n]
    BY <1>1, <1>3, <1>4, <1>5 DEF OwnDone, Own
  <2>2. \A q \in BlockSuccs(b) : Seen(q, n, v, j)
    BY <1>1, <2>1, SeenBehind
  <2> QED
    BY <1>1, <1>4, <2>2, StaysReachable
<1>6. ASSUME NEW m \in Reachable, Handled(m, v, d), Unset(blocks[m], v, 1, Len(blocks[m]) + 1)
      PROVE  BlockSuccs(blocks[m]) \subseteq B
  <2>1. <<v, blocks[n][j]>> \in known[m]
    BY <1>1, <1>2, <1>6 DEF Handled
  <2>2. \A q \in BlockSuccs(blocks[m]) : Seen(q, n, v, j)
    BY <2>1, SeenBehind
  <2> QED
    BY <1>4, <2>2, StaysReachable
<1>7. Flow(d) \subseteq B
  <2>1. CASE j \in 1 .. L - 1
    <3>1. Flow(d) = {b[j + 1]} /\ j + 1 \in 1 .. L
      <4>1. j + 1 \in 1 .. L
        BY <1>4, <2>1
      <4> QED
        BY <1>2, <1>3, <1>4, <2>1, <4>1 DEF IsChainOfFlow
    <3>2. LastSet(b, v, j, j + 1)
      BY <1>1, <1>3, <1>4, <2>1 DEF LastSet, Unset
    <3>3. Seen(b[j + 1], n, v, j)
      BY <1>1, <1>3, <3>1, <3>2 DEF Seen
    <3> QED
      BY <1>4, <3>1, <3>3
  <2>2. CASE j = L
    <3>1. Flow(d) = BlockSuccs(b)
      BY <1>2, <1>3, <1>4, <2>2 DEF IsChainOfFlow
    <3>2. LastSet(b, v, j, L + 1)
      BY <1>1, <1>3, <1>4, <2>2 DEF LastSet, Unset
    <3> QED
      BY <1>5, <3>1, <3>2
  <2>3. j \in 1 .. L - 1 \/ j = L
    BY <1>1, <1>3, <1>4
  <2> QED
    BY <2>1, <2>2, <2>3
<1>8. ASSUME NEW q \in B, v \notin Dst(q) PROVE Flow(q) \subseteq B
  <2>1. Flow(q) \subseteq Reachable
    BY <1>4, ReachableClosed
  <2>2. CASE \E k \in 1 .. Len(blocks[n]) : q = blocks[n][k] /\ LastSet(blocks[n], v, j, k)
    <3>1. PICK k \in 1 .. L : q = b[k] /\ LastSet(b, v, j, k)
      BY <1>1, <1>3, <2>2
    <3>2. /\ k \in 1 .. L - 1 => k + 1 \in 1 .. L /\ Flow(b[k]) = {b[k + 1]}
          /\ k = L => Flow(b[k]) = BlockSuccs(b)
          /\ k \in 1 .. L - 1 \/ k = L
          /\ LastSet(b, v, j, k + 1)
      BY <1>1, <1>3, <1>4, <1>8, <3>1, OneOn
    <3>3. CASE k \in 1 .. L - 1
      <4>1. Seen(b[k + 1], n, v, j)
        BY <1>1, <1>3, <3>2, <3>3 DEF Seen
      <4> QED
        BY <2>1, <3>1, <3>2, <3>3, <4>1
    <3>4. CASE k = L
      <4> HIDE DEF B
      <4> QED
        BY <1>5, <3>1, <3>2, <3>4
    <3> QED
      BY <3>2, <3>3, <3>4
  <2>3. ASSUME NEW m \in Reachable, Handled(m, v, d), SeenIn(m, q, v) PROVE Flow(q) \subseteq B
    <3>1. PICK a : a = blocks[m]
      OBVIOUS
    <3>2. PICK k \in 1 .. Len(a) : q = a[k] /\ Unset(a, v, 1, k)
      BY <2>3, <3>1 DEF SeenIn
    <3>3. IsChainOfFlow(a, m)
      BY <1>4, <3>1, BlockOfReachable
    <3>4. /\ k \in 1 .. Len(a) - 1 => k + 1 \in 1 .. Len(a) /\ Flow(a[k]) = {a[k + 1]}
          /\ k = Len(a) => Flow(a[k]) = BlockSuccs(a)
          /\ k \in 1 .. Len(a) - 1 \/ k = Len(a)
          /\ Unset(a, v, 1, k + 1)
      BY <1>8, <3>2, <3>3, OneOn
    <3>5. CASE k \in 1 .. Len(a) - 1
      <4>1. SeenIn(m, a[k + 1], v)
        BY <3>1, <3>4, <3>5 DEF SeenIn
      <4>2. Seen(a[k + 1], n, v, j)
        BY <1>1, <1>2, <2>3, <4>1 DEF Seen
      <4> QED
        BY <2>1, <3>2, <3>4, <3>5, <4>2
    <3>6. CASE k = Len(a)
      <4> HIDE DEF B
      <4> QED
        BY <1>6, <2>3, <3>1, <3>2, <3>4, <3>6
    <3> QED
      BY <3>4, <3>5, <3>6
  <2> QED
    BY <1>1, <1>2, <2>2, <2>3 DEF Seen
<1>9. PICK T : T = {ir \in Positions(code) : v \notin Dst(ir)}
  OBVIOUS
<1>10. ArrivesUnset(Flow(d), v) \subseteq B
  <2> HIDE DEF B
  <2>1. T \in SUBSET Positions(code) /\ \A ir \in B \cap T : Flow(ir) \subseteq B
    BY <1>8, <1>9
  <2>2. PICK S : S = Flow(d)
    OBVIOUS
  <2>3. S \subseteq B
    BY <1>7, <2>2
  <2>4. ArrivesFrom(S, T) \subseteq B
    BY <1>4, <2>1, <2>3, ArrivesLeast
  <2> QED
    BY <1>9, <2>2, <2>4 DEF ArrivesUnset
<1> QED
  BY <1>1, <1>2, <1>10

(* What was seen and uses v is linked to d, and so is the exit when it was *)
(* seen and does not set v.                                                *)
LEMMA SeenIsLinked ==
  ASSUME DFGComplete, NEW n \in Reachable, Done(n), NEW v \in Vars,
         NEW j \in 1 .. Len(blocks[n]), NEW p, Seen(p, n, v, j)
  PROVE  /\ v \in Src(p) => <<blocks[n][j], p, v>> \in edges
         /\ p \in Exits /\ v \notin Dst(p) => <<blocks[n][j], EXIT, v>> \in edges
<1>1. PICK b : b = blocks[n]
  OBVIOUS
<1>2. PICK d : d = b[j]
  OBVIOUS
<1>3. Program /\ Own(n) /\ IsChainOfFlow(b, n)
  BY <1>1, BlockOfReachable DEF DFGComplete, DFGTypes, OwnDone
<1>4. ASSUME NEW a, NEW m, IsChainOfFlow(a, m), NEW k \in 1 .. Len(a), a[k] \in Exits
      PROVE  k = Len(a) /\ BlockSuccs(a) = {}
  <2>1. Has(InsnAt(code, a[k]), "BB_END") /\ Flow(a[k]) = {}
    BY <1>4 DEF Exits
  <2>2. k \in 1 .. Len(a) - 1 \/ k = Len(a)
    <3>1. Len(a) \in Nat \ {0}
      BY <1>4 DEF IsChainOfFlow
    <3> QED
      BY <3>1
  <2> QED
    BY <1>4, <2>1, <2>2 DEF IsChainOfFlow
<1>5. CASE \E k \in 1 .. Len(b) : p = b[k] /\ LastSet(b, v, j, k)
  <2>1. PICK k \in 1 .. Len(b) : p = b[k] /\ LastSet(b, v, j, k)
    BY <1>5
  <2>2. j \in 1 .. k - 1
    BY <2>1 DEF LastSet
  <2>3. v \in Src(p) => <<d, p, v>> \in edges
    BY <1>1, <1>2, <1>3, <2>1, <2>2 DEF Own
  <2>4. ASSUME p \in Exits, v \notin Dst(p) PROVE <<d, EXIT, v>> \in edges
    <3>1. k = Len(b) /\ BlockSuccs(b) = {}
      BY <1>3, <1>4, <2>1, <2>4
    <3>2. LastSet(b, v, j, Len(b) + 1)
      BY <1>1, <1>3, <2>1, <2>4, <3>1, OneOn
    <3> QED
      BY <1>1, <1>2, <1>3, <3>1, <3>2 DEF Own
  <2> QED
    BY <1>1, <1>2, <2>3, <2>4
<1>6. ASSUME NEW m \in Reachable, Handled(m, v, d), SeenIn(m, p, v)
      PROVE  /\ v \in Src(p) => <<d, p, v>> \in edges
             /\ p \in Exits /\ v \notin Dst(p) => <<d, EXIT, v>> \in edges
  <2>1. PICK a : a = blocks[m]
    OBVIOUS
  <2>2. PICK k \in 1 .. Len(a) : p = a[k] /\ Unset(a, v, 1, k)
    BY <1>6, <2>1 DEF SeenIn
  <2>3. IsChainOfFlow(a, m)
    BY <1>3, <2>1, BlockOfReachable
  <2>4. v \in Src(p) => <<d, p, v>> \in edges
    BY <1>6, <2>1, <2>2 DEF Handled
  <2>5. ASSUME p \in Exits, v \notin Dst(p) PROVE <<d, EXIT, v>> \in edges
    <3>1. k = Len(a) /\ BlockSuccs(a) = {}
      BY <1>4, <2>2, <2>3, <2>5
    <3>2. Unset(a, v, 1, Len(a) + 1)
      BY <2>2, <2>3, <2>5, <3>1, OneOn
    <3> QED
      BY <1>6, <2>1, <3>1, <3>2 DEF Handled
  <2> QED
    BY <2>4, <2>5
<1> QED
  BY <1>1, <1>2, <1>5, <1>6 DEF Seen

(* No edge is missed: when the traversal ends, and the entry block set     *)
(* anything at all, every definition is linked to each use a path leads to *)
(* without another definition, and to the exit when such a path ends.      *)
THEOREM NoFlowIsMissed == DFGSpec /\ GraphFinished => []NoMissedFlow
<1>1. ASSUME DFGComplete, pc = "done", EntrySets, NEW v \in Vars
      PROVE  DefUses(v) \cup DefExits(v) \subseteq edges
  <2>1. Waiting = {} /\ Program
    BY <1>1 DEF DFGComplete, DFGTypes
  <2>2. ASSUME NEW d \in Reachable, v \in Dst(d)
        PROVE  /\ \A u \in ArrivesUnset(Flow(d), v) : v \in Src(u) => <<d, u, v>> \in edges
               /\ d \in Exits => <<d, EXIT, v>> \in edges
               /\ \A x \in ArrivesUnset(Flow(d), v) \cap Exits : v \notin Dst(x) => <<d, EXIT, v>> \in edges
    <3>1. PICK n \in Reachable : Done(n) /\ \E k \in 1 .. Len(blocks[n]) : d = blocks[n][k]
      BY <1>1, AllDone
    <3>2. PICK j \in 1 .. Len(blocks[n]) : d = blocks[n][j]
      BY <3>1
    <3>3. \A x \in ArrivesUnset(Flow(d), v) : Seen(x, n, v, j)
      BY <1>1, <2>1, <2>2, <3>1, <3>2, AllSeen
    <3>4. ASSUME NEW x \in ArrivesUnset(Flow(d), v)
          PROVE  /\ v \in Src(x) => <<d, x, v>> \in edges
                 /\ x \in Exits /\ v \notin Dst(x) => <<d, EXIT, v>> \in edges
      BY <1>1, <3>1, <3>2, <3>3, SeenIsLinked
    <3>5. ASSUME d \in Exits PROVE <<d, EXIT, v>> \in edges
      <4>1. PICK b : b = blocks[n]
        OBVIOUS
      <4>2. IsChainOfFlow(b, n) /\ Own(n)
        BY <1>1, <2>1, <3>1, <4>1, BlockOfReachable DEF DFGComplete, OwnDone
      <4>3. Has(InsnAt(code, b[j]), "BB_END") /\ Flow(b[j]) = {}
        BY <3>2, <3>5, <4>1 DEF Exits
      <4>4. Len(b) \in Nat \ {0} /\ j = Len(b) /\ BlockSuccs(b) = {}
        <5>1. Len(b) \in Nat \ {0} /\ (j \in 1 .. Len(b) - 1 \/ j = Len(b))
          BY <4>1, <4>2 DEF IsChainOfFlow
        <5> QED
          BY <4>2, <4>3, <5>1 DEF IsChainOfFlow
      <4>5. LastSet(b, v, j, Len(b) + 1)
        BY <2>2, <3>2, <4>1, <4>4 DEF LastSet, Unset
      <4> QED
        BY <3>2, <4>1, <4>2, <4>4, <4>5 DEF Own
    <3> QED
      BY <3>4, <3>5
  <2>3. DefUses(v) \subseteq edges
    <3>1. ASSUME NEW e \in DefUses(v) PROVE e \in edges
      <4>1. PICK d \in Reachable :
              v \in Dst(d) /\ \E u \in ArrivesUnset(Flow(d), v) : v \in Src(u) /\ e = <<d, u, v>>
        BY DEF DefUses
      <4> QED
        BY <2>2, <4>1
    <3> QED
      BY <3>1
  <2>4. DefExits(v) \subseteq edges
    BY <2>2 DEF DefExits
  <2> QED
    BY <2>3, <2>4
<1>2. DFGComplete => NoMissedFlow
  BY <1>1 DEF NoMissedFlow
<1> QED
  BY <1>2, DFGInvHolds, PTL

-----------------------------------------------------------------------------
(* Control cannot leave the code: the next machine instruction can be      *)
(* translated and the target of a jump is one of the instructions.         *)
StaysInCode ==
  entry \in Positions(code) /\ \A p \in Positions(code) : Flow(p) \subseteq Positions(code)

(* Code that control cannot leave has a finished graph: get_bb finds a     *)
(* block at every instruction of it.                                       *)
THEOREM GraphIsFinished == DFGInit /\ StaysInCode => GraphFinished
<1>1. SUFFICES ASSUME DFGInit, StaysInCode PROVE GraphFinished
  OBVIOUS
<1>2. IsCode(code) /\ blocks = [ir \in Positions(code) |-> Block(code, FALSE, ir)]
  BY <1>1, ProgramsAssumption DEF DFGInit
<1>3. Reachable \subseteq Positions(code)
  <2>1. PICK P : P = Positions(code)
    OBVIOUS
  <2>2. PICK S : S = {entry}
    OBVIOUS
  <2>3. S \subseteq P /\ P \in SUBSET Positions(code) /\ \A ir \in P \cap P : Flow(ir) \subseteq P
    BY <1>1, <2>1, <2>2 DEF StaysInCode
  <2>4. ArrivesFrom(S, P) \subseteq P
    BY <1>2, <2>3, ArrivesLeast
  <2> QED
    BY <2>1, <2>2, <2>4 DEF Reachable
<1>4. ASSUME NEW p \in Positions(code), NEW t \in FlowOf(code, p) PROVE t[1] \in DOMAIN code
  <2>1. t \in Flow(p)
    <3>1. CASE Has(InsnAt(code, p), "BB_END")
      BY <1>2, <1>4, <3>1, FlowAtEnd DEF Flow
    <3>2. CASE ~ Has(InsnAt(code, p), "BB_END")
      <4>1. ~ EndsBlock(code, FALSE, p)
        BY <1>2, <3>2, EndsWhenMarked
      <4>2. FlowOf(code, p) \subseteq {After(code, p)} /\ NextOf(code, p) = After(code, p)
        BY <1>2, <3>2, <4>1, FlowInside, NextInside
      <4> QED
        BY <1>4, <3>2, <4>2 DEF Flow
    <3> QED
      BY <3>1, <3>2
  <2> QED
    BY <1>1, <1>2, <2>1, PositionsOfCode DEF StaysInCode
<1>5. ASSUME NEW p \in Positions(code) PROVE blocks[p] # << >>
  <2>1. p[1] \in DOMAIN code
    BY <1>2, PositionsOfCode
  <2>2. Listing(code, FALSE, p[1]) # << >>
    BY <1>2, <1>4, <2>1, ReadableListing
  <2> QED
    BY <1>2, <2>2, BlockOfPosition
<1> QED
  BY <1>3, <1>5 DEF GraphFinished

-----------------------------------------------------------------------------
(* What the blocks do not know yet, and how long the traversal can still   *)
(* go on: a turn with news leaves at most two states where it took one,    *)
(* and a turn without news takes one away.                                 *)
NotKnown ==
  {x \in Positions(code) \X (Vars \X Positions(code)) : x[2] \notin known[x[1]]}

TurnsLeft == 3 * Cardinality(NotKnown) + Len(stack) + (IF pc = "loop" THEN 1 ELSE 0)

LEMMA NotKnownFinite ==
  ASSUME IsFiniteSet(Vars), IsCode(code)
  PROVE  IsFiniteSet(NotKnown) /\ Cardinality(NotKnown) \in Nat
<1>1. IsFiniteSet(Positions(code))
  BY PositionsFinite
<1>2. IsFiniteSet(Vars \X Positions(code))
  BY <1>1, FS_Product
<1>3. IsFiniteSet(Positions(code) \X (Vars \X Positions(code)))
  BY <1>1, <1>2, FS_Product
<1>4. IsFiniteSet(NotKnown)
  <2>1. NotKnown \subseteq Positions(code) \X (Vars \X Positions(code))
    BY DEF NotKnown
  <2> QED
    BY <1>3, <2>1, FS_Subset
<1> QED
  BY <1>4, FS_CardinalityType

(* A turn leaves a state for each way out when there is news, and no other *)
(* way does the stack grow.                                                *)
LEMMA StackAfterTurn ==
  ASSUME DFGTypes, Process
  PROVE  LET out == StateAfter(state, blocks[cur])
             ways == IF Pairs(out) \subseteq known[cur] THEN 0 ELSE 2
         IN  /\ Len(stack) \in Nat /\ Len(stack') \in Nat
             /\ \/ pc' = "done" /\ stack' = stack /\ Len(stack) = 0
                \/ pc' = "loop" /\ Len(stack') + 1 <= Len(stack) + ways
<1> DEFINE out == StateAfter(state, blocks[cur])
           jump == IF JccLoc(code, Last(blocks[cur])) # NoLoc
                     THEN <<[at |-> JccLoc(code, Last(blocks[cur])), state |-> out]>> ELSE << >>
           fall == IF NextOf(code, Last(blocks[cur])) # NoLoc
                     THEN <<[at |-> NextOf(code, Last(blocks[cur])), state |-> out]>> ELSE << >>
           updated == ~ (Pairs(out) \subseteq known[cur])
           pushed == IF updated THEN stack \o jump \o fall ELSE stack
<1>1. stack \in Seq(Entering) /\ pc = "loop" /\ Len(stack) \in Nat
  BY DEF DFGTypes, Process
<1>2. IF pushed = << >> THEN pc' = "done" /\ stack' = stack ELSE stack' = Front(pushed) /\ pc' = "loop"
  BY <1>1 DEF Process, PushSuccs
<1>3. PICK S : stack \in Seq(S) /\ jump \in Seq(S) /\ fall \in Seq(S)
  <2>1. PICK S : S = Entering \cup {[at |-> JccLoc(code, Last(blocks[cur])), state |-> out],
                                   [at |-> NextOf(code, Last(blocks[cur])), state |-> out]}
    OBVIOUS
  <2>2. stack \in Seq(S)
    BY <1>1, <2>1, SeqMonotonic
  <2>3. << >> \in Seq(S) /\ \A e \in S : <<e>> \in Seq(S)
    BY EmptySeq
  <2>4. jump \in Seq(S) /\ fall \in Seq(S)
    BY <2>1, <2>3
  <2> QED
    BY <2>2, <2>4
<1>4. Len(jump) \in 0 .. 1 /\ Len(fall) \in 0 .. 1
  OBVIOUS
<1>5. pushed \in Seq(S) /\ Len(pushed) <= Len(stack) + (IF updated THEN 2 ELSE 0) /\ (~ updated => pushed = stack)
  <2> HIDE DEF jump, fall, updated
  <2>1. stack \o jump \o fall \in Seq(S) /\ Len(stack \o jump \o fall) = Len(stack) + Len(jump) + Len(fall)
    BY <1>3
  <2>2. Len(stack \o jump \o fall) <= Len(stack) + 2
    <3>1. ASSUME NEW i \in 0 .. 1, NEW j \in 0 .. 1, NEW n \in Nat PROVE n + i + j <= n + 2
      OBVIOUS
    <3>2. Len(stack) + Len(jump) + Len(fall) <= Len(stack) + 2
      BY <1>1, <1>4, <3>1
    <3> QED
      BY <2>1, <3>2
  <2>3. pushed = IF updated THEN stack \o jump \o fall ELSE stack
    OBVIOUS
  <2> HIDE DEF pushed
  <2>4. CASE updated
    BY <2>1, <2>2, <2>3, <2>4
  <2>5. CASE ~ updated
    BY <1>1, <1>3, <2>3, <2>5
  <2> QED
    BY <2>4, <2>5
<1>6. pushed = << >> => Len(stack) = 0
  <2> HIDE DEF jump, fall, updated
  <2>1. CASE updated
    <3>1. pushed = << >> => Len(pushed) = 0
      OBVIOUS
    <3>2. pushed = stack \o jump \o fall /\ Len(pushed) = Len(stack) + Len(jump) + Len(fall)
      BY <1>3, <2>1
    <3> HIDE DEF pushed
    <3> QED
      BY <1>1, <1>4, <3>1, <3>2
  <2> QED
    BY <2>1
<1>7. pushed # << >> => Len(Front(pushed)) = Len(pushed) - 1 /\ Len(pushed) \in Nat \ {0}
  <2> HIDE DEF pushed
  <2>1. ASSUME pushed # << >> PROVE Len(Front(pushed)) = Len(pushed) - 1 /\ Len(pushed) \in Nat \ {0}
    <3>1. Len(pushed) \in Nat \ {0}
      BY <1>5, <2>1
    <3>2. Front(pushed) = SubSeq(pushed, 1, Len(pushed) - 1)
      BY DEF Front
    <3>3. \A i \in 1 .. (Len(pushed) - 1) : pushed[i] \in S
      BY <1>5, <3>1
    <3>4. Len(Front(pushed)) = IF 1 <= Len(pushed) - 1 THEN Len(pushed) - 1 - 1 + 1 ELSE 0
      BY <1>5, <3>1, <3>2, <3>3, SubSeqProperties
    <3>5. ASSUME NEW n \in Nat \ {0}, NEW m, m = IF 1 <= n - 1 THEN n - 1 - 1 + 1 ELSE 0 PROVE m = n - 1
      BY <3>5
    <3> QED
      BY <3>1, <3>4, <3>5
  <2> QED
    BY <2>1
<1> HIDE DEF pushed
<1>8. CASE pushed = << >>
  BY <1>1, <1>2, <1>6, <1>8
<1>9. CASE pushed # << >>
  BY <1>1, <1>2, <1>5, <1>7, <1>9
<1> QED
  BY <1>8, <1>9

(* A turn with news teaches its block something.                           *)
LEMMA NewsIsKept ==
  ASSUME DFGTypes, Process, IsFiniteSet(Vars)
  PROVE  /\ Cardinality(NotKnown) \in Nat /\ Cardinality(NotKnown') \in Nat
         /\ Cardinality(NotKnown') <= Cardinality(NotKnown)
         /\ ~ (Pairs(StateAfter(state, blocks[cur])) \subseteq known[cur])
              => Cardinality(NotKnown') < Cardinality(NotKnown)
<1> DEFINE out == StateAfter(state, blocks[cur])
<1>1. /\ code' = code /\ out \in States /\ cur \in Positions(code)
      /\ known' = [known EXCEPT ![cur] = known[cur] \cup Pairs(out)]
      /\ known \in [Positions(code) -> SUBSET (Vars \X Positions(code))]
  BY ProcessEffect DEF DFGTypes, Program, GraphFinished
<1>2. IsFiniteSet(NotKnown) /\ Cardinality(NotKnown) \in Nat
  BY NotKnownFinite DEF DFGTypes, Program
<1> HIDE DEF out
<1>3. NotKnown' \subseteq NotKnown
  BY <1>1 DEF NotKnown
<1>4. Cardinality(NotKnown') \in Nat /\ Cardinality(NotKnown') <= Cardinality(NotKnown)
  BY <1>2, <1>3, FS_Subset, FS_CardinalityType
<1>5. ASSUME ~ (Pairs(out) \subseteq known[cur]) PROVE Cardinality(NotKnown') < Cardinality(NotKnown)
  <2>1. PICK v \in Vars : out[v] # NoDef /\ <<v, out[v]>> \notin known[cur]
    BY <1>5 DEF Pairs
  <2>2. out[v] \in Positions(code) /\ <<v, out[v]>> \in Pairs(out)
    BY <1>1, <2>1 DEF States, Pairs
  <2>3. <<cur, <<v, out[v]>>>> \in NotKnown /\ <<cur, <<v, out[v]>>>> \notin NotKnown'
    BY <1>1, <2>1, <2>2 DEF NotKnown
  <2>4. NotKnown' # NotKnown
    BY <2>3
  <2>5. PICK N : N = NotKnown'
    OBVIOUS
  <2>6. N \in SUBSET NotKnown /\ N # NotKnown
    BY <1>3, <2>4, <2>5
  <2>7. Cardinality(N) # Cardinality(NotKnown)
    BY <1>2, <2>6, FS_Subset
  <2> QED
    BY <1>2, <1>4, <2>5, <2>7
<1> QED
  BY <1>2, <1>4, <1>5 DEF out

(* Each turn of the loop of DFGraphBuilder.traverse lowers a number that   *)
(* is never negative, whatever the order of the stack: the loop takes no   *)
(* more turns than three times the pairs its blocks can learn, and one.    *)
THEOREM FlowTraversalIsBounded ==
  DFGSpec /\ GraphFinished /\ IsFiniteSet(Vars) => [](TurnsLeft \in Nat) /\ [][TurnsLeft' < TurnsLeft]_dfgVars
<1>0. SUFFICES ASSUME IsFiniteSet(Vars)
               PROVE  DFGSpec /\ GraphFinished => [](TurnsLeft \in Nat) /\ [][TurnsLeft' < TurnsLeft]_dfgVars
  OBVIOUS
<1>1. DFGTypes => TurnsLeft \in Nat
  <2>1. SUFFICES ASSUME DFGTypes PROVE TurnsLeft \in Nat
    OBVIOUS
  <2>2. Cardinality(NotKnown) \in Nat /\ Len(stack) \in Nat
    BY <1>0, <2>1, NotKnownFinite DEF DFGTypes, Program
  <2> QED
    BY <2>2 DEF TurnsLeft
<1>2. DFGTypes /\ [DFGNext]_dfgVars => [TurnsLeft' < TurnsLeft]_dfgVars
  <2>1. SUFFICES ASSUME DFGTypes, Process PROVE TurnsLeft' < TurnsLeft
    BY DEF DFGNext
  <2>2. pc = "loop"
    BY <2>1 DEF Process
  <2> DEFINE news == ~ (Pairs(StateAfter(state, blocks[cur])) \subseteq known[cur])
  <2>3. /\ Cardinality(NotKnown) \in Nat /\ Cardinality(NotKnown') \in Nat
        /\ Cardinality(NotKnown') <= Cardinality(NotKnown)
        /\ news => Cardinality(NotKnown') < Cardinality(NotKnown)
    BY <1>0, <2>1, NewsIsKept
  <2>4. /\ Len(stack) \in Nat /\ Len(stack') \in Nat
        /\ \/ pc' = "done" /\ stack' = stack /\ Len(stack) = 0
           \/ pc' = "loop" /\ Len(stack') + 1 <= Len(stack) + (IF ~ news THEN 0 ELSE 2)
    BY <2>1, StackAfterTurn
  <2> HIDE DEF news
  <2> QED
    BY <2>2, <2>3, <2>4 DEF TurnsLeft
<1>3. DFGSound => DFGTypes
  BY DEF DFGSound
<1> QED
  BY <1>1, <1>2, <1>3, DFGInvHolds, PTL DEF DFGSpec
=============================================================================
