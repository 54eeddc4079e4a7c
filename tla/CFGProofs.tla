----------------------------- MODULE CFGProofs ------------------------------
(***************************************************************************)
(* Proofs about CFGTraverse, for every set of programs.                    *)
(*                                                                         *)
(* They are about programs whose jumps have targets (TargetsExist): get_bb *)
(* answers with an instruction of the listing at the place of the inum, so *)
(* that a jump to an inum past the end of its machine instruction is built *)
(* as a block that starts elsewhere.  What get_bb answers is in            *)
(* BlockProofs.                                                            *)
(***************************************************************************)
EXTENDS CFGTraverse, BlockProofs

(* The ways out of the block at n. *)
Ways(n) == {Lhs(n), Rhs(n)} \ {NoLoc}

(* The code is one the translator made, and the blocks are what get_bb     *)
(* answers for it.                                                         *)
BlocksOfCode ==
  /\ IsCode(code)
  /\ blocks = [ir \in Named(code) |-> Block(code, Thumb, ir)]

(* The traversal's state is of its types, and the edges are those of the   *)
(* blocks visited: whether or not the targets of jumps exist.              *)
TypesInv ==
  /\ BlocksOfCode
  /\ pc \in {"loop", "edges", "done", "untranslated", "key_error"}
  /\ entry \in Named(code)
  /\ cur \in Named(code)
  /\ stack \in Seq(Named(code))
  /\ nodes \subseteq {n \in Positions(code) : blocks[n] # << >>}
  /\ EdgesExact

(* What is pending was reached from the entry along visited blocks. *)
PendingReached == Pending \subseteq {entry} \cup UNION {Ways(n) : n \in nodes}

(* The loop ends with nothing pending, and none of its edges dangles. *)
LoopDone ==
  /\ pc \in {"edges", "done", "key_error"} => stack = << >>
  /\ pc # "key_error"

CFGInv ==
  /\ TypesInv
  /\ TargetsExist
  /\ NothingForgotten
  /\ PendingReached
  /\ LoopDone

LEMMA SuccessorsNamed ==
  ASSUME NEW c, NEW ir \in Positions(c)
  PROVE  Succs(c, ir) \subseteq Named(c)
BY DEF Named

(* What is named is an instruction, or at an address that cannot be        *)
(* translated, when the targets of jumps exist.                            *)
LEMMA NamedPlaces ==
  ASSUME IsCode(code), NEW ir \in Named(code)
  PROVE  ir[2] \in Nat /\ (TargetsExist /\ ir[1] \in DOMAIN code => ir \in Positions(code))
<1>1. ASSUME NEW a, a \in Nat, ir = <<a, 0>>
      PROVE  ir[2] \in Nat /\ (ir[1] \in DOMAIN code => ir \in Positions(code))
  <2>1. a \in DOMAIN code => Len(code[a].ir) \in Nat \ {0} /\ 0 \in 0 .. Len(code[a].ir) - 1
    BY PositionsOfCode
  <2> QED
    BY <1>1, <2>1, PositionsOfCode
<1>2. CASE ir \in Positions(code)
  BY <1>2, PositionsOfCode
<1>3. CASE \E a \in Entries : ir = <<a, 0>>
  BY <1>1, <1>3, ProgramsAssumption
<1>4. ASSUME NEW p \in Positions(code), ir \in Succs(code, p)
      PROVE  ir[2] \in Nat /\ (TargetsExist /\ ir[1] \in DOMAIN code => ir \in Positions(code))
  <2>1. CASE ir = <<NextAsm(code, p[1]), 0>>
    <3>1. NextAsm(code, p[1]) \in Nat
      BY PositionsOfCode, CodeFacts
    <3> QED
      BY <1>1, <2>1, <3>1
  <2>2. CASE ir = JccLoc(code, p)
    <3>1. ir # NoLoc /\ ir \in Nat \X Nat
      BY <1>4, <2>2, InsnOfPosition DEF Succs, JccLoc
    <3>2. ir = <<ir[1], ir[2]>> /\ ir[2] \in Nat
      BY <3>1
    <3>3. TargetsExist /\ ir[1] \in DOMAIN code => IsPosition(code, ir)
      BY <2>2, <3>1 DEF TargetsExist
    <3> QED
      BY <3>2, <3>3, PositionsOfCode DEF IsPosition
  <2> QED
    BY <1>2, <1>4, <2>1, <2>2, SuccessorIs
<1> QED
  BY <1>2, <1>3, <1>4 DEF Named

(* What get_bb answers: nothing or a block, which is also the block of its *)
(* first instruction; that is the one asked for when it exists.            *)
LEMMA BlockOfNamed ==
  ASSUME BlocksOfCode, NEW ir \in Named(code), blocks[ir] # << >>
  PROVE  /\ blocks[ir] = Block(code, Thumb, ir)
         /\ IsBlock(code, Thumb, blocks[ir])
         /\ Head(blocks[ir]) = blocks[ir][1]
         /\ Head(blocks[ir]) \in Positions(code)
         /\ blocks[Head(blocks[ir])] = blocks[ir]
         /\ TargetsExist => ir \in Positions(code) /\ Head(blocks[ir]) = ir
<1>1. PICK b : b = Block(code, Thumb, ir)
  OBVIOUS
<1>2. blocks[ir] = b /\ IsCode(code) /\ b # << >>
  BY <1>1 DEF BlocksOfCode
<1>3. ir[2] \in Nat /\ (TargetsExist /\ ir[1] \in DOMAIN code => ir \in Positions(code))
  BY <1>2, NamedPlaces
<1>4. IsBlock(code, Thumb, b)
  BY <1>1, <1>2, <1>3, BlockIs
<1>5. ir[1] \in DOMAIN code /\ Listing(code, Thumb, ir[1]) # << >>
  BY <1>1, <1>2, <1>3, BlockHasEnd
<1>6. b \in Seq(Positions(code)) /\ Len(b) \in Nat \ {0} /\ 1 \in 1 .. Len(b)
  BY <1>4 DEF IsBlock
<1>7. Head(b) = b[1] /\ b[1] \in Positions(code) /\ SubSeq(b, 1, Len(b)) = b
  BY <1>6
<1>8. Block(code, Thumb, b[1]) = b
  BY <1>1, <1>2, <1>3, <1>6, <1>7, BlockOfTheRest
<1>9. blocks[b[1]] = Block(code, Thumb, b[1])
  BY <1>7 DEF BlocksOfCode, Named
<1>10. TargetsExist => ir \in Positions(code) /\ b[1] = ir
  BY <1>1, <1>2, <1>3, <1>5, BlockOfPosition
<1> QED
  BY <1>1, <1>2, <1>4, <1>7, <1>8, <1>9, <1>10

LEMMA LastOfBlock ==
  ASSUME NEW c, NEW b, IsBlock(c, Thumb, b)
  PROVE  /\ Last(b) = b[Len(b)] /\ Last(b) \in Positions(c)
         /\ Has(InsnAt(c, Last(b)), "BB_END")
<1>1. b \in Seq(Positions(c)) /\ Len(b) \in Nat \ {0} /\ EndsBlock(c, Thumb, b[Len(b)])
  BY DEF IsBlock
<1>2. Last(b) = b[Len(b)] /\ b[Len(b)] \in Positions(c)
  BY <1>1 DEF Last
<1> QED
  BY <1>1, <1>2 DEF EndsBlock

(* The block at a place leads to places the code names. *)
LEMMA BlockLeadsToNamed ==
  ASSUME BlocksOfCode, NEW n \in Named(code), blocks[n] # << >>
  PROVE  Ways(n) \subseteq Named(code)
<1>1. Last(blocks[n]) \in Positions(code)
  BY BlockOfNamed, LastOfBlock
<1>2. Ways(n) = Succs(code, Last(blocks[n]))
  BY DEF Ways, Lhs, Rhs, Succs
<1> QED
  BY <1>1, <1>2, SuccessorsNamed

(* What an iteration pushes is among the ways out of its block, and a way  *)
(* out it does not push was visited.                                       *)
LEMMA PushedWays ==
  ASSUME NEW S, NEW n, NEW ir, Ways(ir) \subseteq S
  PROVE  /\ Pushed(n, ir) \in Seq(S)
         /\ Elems(Pushed(n, ir)) \subseteq Ways(ir)
         /\ Ways(ir) \subseteq Elems(Pushed(n, ir)) \cup nodes \cup {n}
<1> DEFINE jump == IF Rhs(ir) # NoLoc /\ Rhs(ir) \notin nodes \cup {n} THEN <<Rhs(ir)>> ELSE << >>
           fall == IF Lhs(ir) # NoLoc THEN <<Lhs(ir)>> ELSE << >>
<1>1. jump \in Seq(Ways(ir)) /\ fall \in Seq(Ways(ir))
  <2>1. << >> \in Seq(Ways(ir))
    BY EmptySeq
  <2>2. ASSUME NEW w \in Ways(ir) PROVE <<w>> \in Seq(Ways(ir))
    OBVIOUS
  <2>3. Rhs(ir) # NoLoc => Rhs(ir) \in Ways(ir)
    BY DEF Ways
  <2>4. Lhs(ir) # NoLoc => Lhs(ir) \in Ways(ir)
    BY DEF Ways
  <2> QED
    BY <2>1, <2>2, <2>3, <2>4
<1>2. Elems(jump) = IF Rhs(ir) # NoLoc /\ Rhs(ir) \notin nodes \cup {n} THEN {Rhs(ir)} ELSE {}
  BY DEF Elems
<1>3. Elems(fall) = IF Lhs(ir) # NoLoc THEN {Lhs(ir)} ELSE {}
  BY DEF Elems
<1>4. Pushed(n, ir) = jump \o fall
  BY DEF Pushed
<1>5. Pushed(n, ir) \in Seq(Ways(ir)) /\ Elems(Pushed(n, ir)) = Elems(jump) \cup Elems(fall)
  <2> HIDE DEF jump, fall
  <2> QED
    BY <1>1, <1>4, ConcatElems
<1>6. Pushed(n, ir) \in Seq(S)
  BY <1>5, SeqMonotonic
<1> HIDE DEF jump, fall
<1> QED
  BY <1>2, <1>3, <1>5, <1>6 DEF Ways

-----------------------------------------------------------------------------
LEMMA InitTypes ==
  ASSUME CFGInit
  PROVE  TypesInv
<1> USE DEF CFGInit
<1>1. BlocksOfCode
  BY ProgramsAssumption DEF BlocksOfCode
<1>2. entry \in Named(code) /\ << >> \in Seq(Named(code))
  BY EmptySeq DEF Named
<1> QED
  BY <1>1, <1>2 DEF TypesInv, EdgesExact

LEMMA InitInv ==
  ASSUME CFGInit, TargetsExist
  PROVE  CFGInv
<1> USE DEF CFGInit
<1>1. Pending = {entry}
  BY DEF Pending
<1>2. NothingForgotten /\ PendingReached /\ LoopDone
  BY <1>1 DEF NothingForgotten, PendingReached, LoopDone
<1> QED
  BY <1>2, InitTypes DEF CFGInv

(* The code and its blocks are rigid, so what is said of them stays true. *)
LEMMA RigidParts ==
  ASSUME UNCHANGED <<code, blocks>>
  PROVE  /\ BlocksOfCode' = BlocksOfCode
         /\ TargetsExist' = TargetsExist
         /\ \A n : Lhs(n)' = Lhs(n) /\ Rhs(n)' = Rhs(n) /\ Ways(n)' = Ways(n)
<1>1. BlocksOfCode' = BlocksOfCode
  BY DEF BlocksOfCode
<1>2. TargetsExist' = TargetsExist
  BY DEF TargetsExist
<1>3. \A n : Lhs(n)' = Lhs(n) /\ Rhs(n)' = Rhs(n)
  BY DEF Lhs, Rhs
<1>4. \A n : Ways(n)' = Ways(n)
  BY <1>3 DEF Ways
<1> QED
  BY <1>1, <1>2, <1>3, <1>4

(* What an iteration that visits a block does, in terms of sets. *)
LEMMA VisitEffect ==
  ASSUME TypesInv, Visit
  PROVE  LET node == Head(blocks[cur])
         IN  /\ node \in Positions(code) /\ blocks[cur] # << >> /\ blocks[node] = blocks[cur]
             /\ TargetsExist => node = cur
             /\ nodes' = nodes \cup {node}
             /\ edges' = edges \cup {<<node, m>> : m \in Ways(node)}
             /\ pc' \in {"loop", "edges"}
             /\ cur' \in Named(code) /\ stack' \in Seq(Named(code))
             /\ pc' = "edges" => stack' = << >>
             /\ Elems(stack) \subseteq Pending'
             /\ Ways(node) \subseteq nodes' \cup Pending'
             /\ Pending' \subseteq Pending \cup Ways(node)
<1> DEFINE node == Head(blocks[cur])
           s == stack \o Pushed(node, cur)
<1>1. /\ cur \in Named(code) /\ blocks[cur] # << >> /\ BlocksOfCode
      /\ stack \in Seq(Named(code)) /\ pc = "loop"
  BY DEF TypesInv, Visit
<1>2. /\ node \in Positions(code) /\ blocks[node] = blocks[cur]
      /\ TargetsExist => node = cur
  BY <1>1, BlockOfNamed
<1>3. Ways(cur) = Ways(node)
  BY <1>2 DEF Ways, Lhs, Rhs
<1> HIDE DEF node
<1>4. /\ nodes' = nodes \cup {node}
      /\ edges' = edges \cup {<<node, m>> : m \in Ways(cur)}
      /\ PopOrStop(s)
  BY DEF Visit, Ways, node
<1>5. Ways(cur) \subseteq Named(code)
  BY <1>1, BlockLeadsToNamed
<1>6. /\ Pushed(node, cur) \in Seq(Named(code))
      /\ Elems(Pushed(node, cur)) \subseteq Ways(cur)
      /\ Ways(cur) \subseteq Elems(Pushed(node, cur)) \cup nodes \cup {node}
  BY <1>5, PushedWays
<1>7. s \in Seq(Named(code)) /\ Elems(s) = Elems(stack) \cup Elems(Pushed(node, cur))
  BY <1>1, <1>6, ConcatElems
<1> HIDE DEF s
<1>8. /\ pc' \in {"loop", "edges"} /\ cur' \in Named(code) /\ stack' \in Seq(Named(code))
      /\ pc' = "edges" => stack' = << >>
      /\ Pending' = Elems(s)
  <2>1. Pending' = (IF pc' = "loop" THEN {cur'} ELSE {}) \cup Elems(stack')
    BY DEF Pending, Elems
  <2>2. CASE s = << >>
    <3>1. pc' = "edges" /\ stack' = << >> /\ cur' = cur
      BY <1>4, <2>2 DEF PopOrStop
    <3>2. Elems(<< >>) = {}
      BY DEF Elems
    <3> QED
      BY <1>1, <1>7, <2>1, <2>2, <3>1, <3>2
  <2>3. CASE s # << >>
    <3>1. cur' = Last(s) /\ stack' = Front(s) /\ pc' = "loop"
      BY <1>1, <1>4, <2>3 DEF PopOrStop
    <3>2. /\ Last(s) \in Named(code) /\ Front(s) \in Seq(Named(code))
          /\ Elems(s) = {Last(s)} \cup Elems(Front(s))
      BY <1>7, <2>3, PopLeavesTheRest
    <3> QED
      BY <2>1, <3>1, <3>2
  <2> QED
    BY <2>2, <2>3
<1>9. Pending = {cur} \cup Elems(stack)
  BY <1>1 DEF Pending, Elems
<1>10. Ways(node) \subseteq nodes' \cup Pending' /\ Pending' \subseteq Pending \cup Ways(node)
       /\ Elems(stack) \subseteq Pending'
  BY <1>3, <1>4, <1>6, <1>7, <1>8, <1>9
<1> QED
  BY <1>1, <1>2, <1>3, <1>4, <1>8, <1>10 DEF node

LEMMA VisitKeepsTypes ==
  ASSUME TypesInv, Visit
  PROVE  TypesInv'
<1>1. UNCHANGED <<code, blocks, entry>>
  BY DEF Visit
<1>2. BlocksOfCode' /\ \A n : Ways(n)' = Ways(n)
  BY <1>1, RigidParts DEF TypesInv
<1>3. PICK node : node = Head(blocks[cur])
  OBVIOUS
<1>4. /\ node \in Positions(code) /\ blocks[node] # << >>
      /\ nodes' = nodes \cup {node}
      /\ edges' = edges \cup {<<node, m>> : m \in Ways(node)}
      /\ pc' \in {"loop", "edges"}
      /\ cur' \in Named(code) /\ stack' \in Seq(Named(code))
  BY <1>3, VisitEffect
<1>5. EdgesExact'
  <2>1. edges = UNION {{<<n, m>> : m \in Ways(n)} : n \in nodes}
    BY DEF TypesInv, EdgesExact, Ways
  <2>2. edges' = UNION {{<<n, m>> : m \in Ways(n)} : n \in nodes'}
    BY <1>4, <2>1
  <2>3. edges' = UNION {{<<n, m>> : m \in Ways(n)'} : n \in nodes'}
    BY <1>2, <2>2
  <2> QED
    BY <2>3 DEF EdgesExact, Ways
<1> QED
  BY <1>1, <1>2, <1>4, <1>5 DEF TypesInv

LEMMA VisitKeepsInv ==
  ASSUME CFGInv, Visit
  PROVE  CFGInv'
<1>1. UNCHANGED <<code, blocks, entry>> /\ TypesInv /\ TargetsExist
  BY DEF Visit, CFGInv
<1>2. TargetsExist' /\ \A n : Ways(n)' = Ways(n)
  BY <1>1, RigidParts
<1>3. /\ nodes' = nodes \cup {cur}
      /\ pc' \in {"loop", "edges"}
      /\ pc' = "edges" => stack' = << >>
      /\ Elems(stack) \subseteq Pending'
      /\ Ways(cur) \subseteq nodes' \cup Pending'
      /\ Pending' \subseteq Pending \cup Ways(cur)
  BY <1>1, VisitEffect
<1>4. Pending = {cur} \cup Elems(stack) /\ pc = "loop"
  BY DEF Visit, Pending, Elems
<1>5. NothingForgotten'
  <2>1. entry \in nodes \cup Pending /\ \A n \in nodes : Ways(n) \subseteq nodes \cup Pending
    BY <1>4 DEF CFGInv, NothingForgotten, Ways
  <2>2. nodes \cup Pending \subseteq nodes' \cup Pending'
    BY <1>3, <1>4
  <2>3. \A n \in nodes' : Ways(n)' \subseteq nodes' \cup Pending'
    BY <1>2, <1>3, <2>1, <2>2
  <2>4. entry' \in nodes' \cup Pending'
    BY <1>1, <2>1, <2>2
  <2> QED
    BY <2>3, <2>4 DEF NothingForgotten, Ways
<1>6. PendingReached'
  <2>1. Pending' \subseteq {entry} \cup UNION {Ways(n) : n \in nodes'}
    BY <1>3 DEF CFGInv, PendingReached
  <2>2. Pending' \subseteq {entry'} \cup UNION {Ways(n)' : n \in nodes'}
    BY <1>1, <1>2, <2>1
  <2> QED
    BY <2>2 DEF PendingReached
<1>7. LoopDone'
  BY <1>3 DEF LoopDone
<1> QED
  BY <1>1, <1>2, <1>5, <1>6, <1>7, VisitKeepsTypes DEF CFGInv

(* A step that leaves the graph alone keeps what is said of it. *)
LEMMA GraphUnchanged ==
  ASSUME UNCHANGED <<code, blocks, entry, cur, stack, nodes, edges>>
  PROVE  /\ TypesInv /\ pc' \in {"loop", "edges", "done", "untranslated", "key_error"} => TypesInv'
         /\ TargetsExist' = TargetsExist
         /\ pc # "untranslated" /\ Pending' = Pending /\ NothingForgotten => NothingForgotten'
         /\ Pending' \subseteq Pending /\ PendingReached => PendingReached'
<1>1. BlocksOfCode' = BlocksOfCode /\ TargetsExist' = TargetsExist
      /\ (\A n : Lhs(n)' = Lhs(n) /\ Rhs(n)' = Rhs(n) /\ Ways(n)' = Ways(n))
  BY RigidParts
<1>2. EdgesExact => EdgesExact'
  BY <1>1 DEF EdgesExact
<1>3. TypesInv /\ pc' \in {"loop", "edges", "done", "untranslated", "key_error"} => TypesInv'
  BY <1>1, <1>2 DEF TypesInv
<1>4. pc # "untranslated" /\ Pending' = Pending /\ NothingForgotten => NothingForgotten'
  BY <1>1 DEF NothingForgotten
<1>5. Pending' \subseteq Pending /\ PendingReached => PendingReached'
  BY <1>1 DEF PendingReached
<1> QED
  BY <1>1, <1>3, <1>4, <1>5

LEMMA FailKeepsInv ==
  ASSUME CFGInv, Fail
  PROVE  CFGInv'
<1>1. /\ UNCHANGED <<code, blocks, entry, cur, stack, nodes, edges>>
      /\ pc = "loop" /\ pc' = "untranslated"
  BY DEF Fail
<1>2. Pending' \subseteq Pending
  BY <1>1 DEF Pending
<1>3. NothingForgotten' /\ LoopDone'
  BY <1>1 DEF NothingForgotten, LoopDone
<1> QED
  BY <1>1, <1>2, <1>3, GraphUnchanged DEF CFGInv

(* When the loop is over every edge has both its ends in the graph, and    *)
(* the graph is closed under the ways out of its blocks.                   *)
LEMMA LoopOver ==
  ASSUME CFGInv, pc = "edges"
  PROVE  /\ edges \subseteq nodes \X nodes
         /\ entry \in nodes
         /\ \A n \in nodes : Ways(n) \subseteq nodes
<1>1. stack = << >>
  BY DEF CFGInv, LoopDone
<1>2. Pending = {}
  BY <1>1 DEF Pending
<1>3. entry \in nodes /\ \A n \in nodes : Ways(n) \subseteq nodes
  BY <1>2 DEF CFGInv, NothingForgotten, Ways
<1>4. edges = UNION {{<<n, m>> : m \in Ways(n)} : n \in nodes}
  BY DEF CFGInv, TypesInv, EdgesExact, Ways
<1> QED
  BY <1>3, <1>4

LEMMA AddEdgesKeepsInv ==
  ASSUME CFGInv, AddEdges
  PROVE  CFGInv'
<1>1. /\ UNCHANGED <<code, blocks, entry, cur, stack, nodes, edges>>
      /\ pc = "edges" /\ pc' = "done"
  BY LoopOver DEF AddEdges
<1>2. Pending' = Pending
  BY <1>1 DEF Pending
<1>3. LoopDone'
  BY <1>1 DEF CFGInv, LoopDone
<1> QED
  BY <1>1, <1>2, <1>3, GraphUnchanged DEF CFGInv

LEMMA NextKeepsInv ==
  ASSUME CFGInv, [CFGNext]_cfgVars
  PROVE  CFGInv'
<1>1. CASE Visit
  BY <1>1, VisitKeepsInv
<1>2. CASE Fail
  BY <1>2, FailKeepsInv
<1>3. CASE AddEdges
  BY <1>3, AddEdgesKeepsInv
<1>4. CASE UNCHANGED cfgVars
  <2>1. UNCHANGED <<code, blocks, entry, pc, cur, stack, nodes, edges>>
    BY <1>4 DEF cfgVars
  <2>2. Pending' = Pending /\ pc' = pc /\ LoopDone'
    BY <2>1 DEF CFGInv, Pending, LoopDone
  <2>3. NothingForgotten'
    <3>1. CASE pc = "untranslated"
      BY <2>2, <3>1 DEF NothingForgotten
    <3>2. CASE pc # "untranslated"
      BY <2>1, <2>2, <3>2, GraphUnchanged DEF CFGInv
    <3> QED
      BY <3>1, <3>2
  <2> QED
    BY <2>1, <2>2, <2>3, GraphUnchanged DEF CFGInv, TypesInv
<1> QED
  BY <1>1, <1>2, <1>3, <1>4 DEF CFGNext

LEMMA NextKeepsTypes ==
  ASSUME TypesInv, [CFGNext]_cfgVars
  PROVE  TypesInv'
<1>1. CASE Visit
  BY <1>1, VisitKeepsTypes
<1>2. CASE Fail
  BY <1>2, GraphUnchanged DEF Fail
<1>3. CASE AddEdges
  BY <1>3, GraphUnchanged DEF AddEdges
<1>4. CASE UNCHANGED cfgVars
  <2>1. UNCHANGED <<code, blocks, entry, pc, cur, stack, nodes, edges>>
    BY <1>4 DEF cfgVars
  <2> QED
    BY <2>1, GraphUnchanged DEF TypesInv
<1> QED
  BY <1>1, <1>2, <1>3, <1>4 DEF CFGNext

LEMMA TypesHold == CFGSpec => []TypesInv
<1>1. CFGInit => TypesInv
  BY InitTypes
<1>2. TypesInv /\ [CFGNext]_cfgVars => TypesInv'
  BY NextKeepsTypes
<1> QED
  BY <1>1, <1>2, PTL DEF CFGSpec

LEMMA InvHolds == CFGSpec /\ TargetsExist => []CFGInv
<1>1. CFGInit /\ TargetsExist => CFGInv
  BY InitInv
<1>2. CFGInv /\ [CFGNext]_cfgVars => CFGInv'
  BY NextKeepsInv
<1> QED
  BY <1>1, <1>2, PTL DEF CFGSpec

(* The traversal's graph is of its types: its nodes are instructions, and  *)
(* an edge starts at a node (CFGraphBuilder.traverse).                     *)
THEOREM CFGTypeCorrect == CFGSpec => []CFGTypeOK
<1>1. TypesInv => CFGTypeOK
  <2>1. EdgesExact => \A e \in edges : e[1] \in nodes
    BY DEF EdgesExact
  <2> QED
    BY <2>1 DEF TypesInv, CFGTypeOK
<1> QED
  BY <1>1, TypesHold, PTL

(* A successor the traversal does not push, because it was visited, or has *)
(* pushed and not popped yet, is never lost: push guard and LIFO stack of  *)
(* CFGraphBuilder.traverse.                                                *)
THEOREM NothingIsForgotten == CFGSpec /\ TargetsExist => []NothingForgotten
<1>1. CFGInv => NothingForgotten
  BY DEF CFGInv
<1> QED
  BY <1>1, InvHolds, PTL

(* The edges are the ways out of the visited blocks, and the final loop of *)
(* traverse finds both ends of each: it never raises KeyError.             *)
THEOREM EdgesAreExact == CFGSpec /\ TargetsExist => [](EdgesExact /\ pc # "key_error")
<1>1. CFGInv => EdgesExact /\ pc # "key_error"
  BY DEF CFGInv, TypesInv, LoopDone
<1> QED
  BY <1>1, InvHolds, PTL

-----------------------------------------------------------------------------
(* Blocks that overlap agree: get_bb, asked for an instruction in the      *)
(* middle of a block, answers with the rest of that block.                 *)
THEOREM OverlappingBlocksAgree == CFGSpec => []BlocksAgree
<1>1. ASSUME TypesInv PROVE BlocksAgree
  <2>1. BlocksOfCode /\ IsCode(code) /\ DOMAIN blocks = Named(code)
    BY <1>1 DEF TypesInv, BlocksOfCode
  <2>2. ASSUME TargetsExist PROVE BlockStarts
    <3>1. ASSUME NEW ir \in Named(code), blocks[ir] # << >>
          PROVE  Head(blocks[ir]) = ir /\ {ir, Last(blocks[ir])} \subseteq Positions(code)
      BY <2>1, <2>2, <3>1, BlockOfNamed, LastOfBlock
    <3> QED
      BY <2>1, <3>1 DEF BlockStarts
  <2>3. ASSUME NEW ir \in Named(code), NEW k \in DOMAIN blocks[ir]
        PROVE  blocks[blocks[ir][k]] = SubSeq(blocks[ir], k, Len(blocks[ir]))
    <3>1. PICK b : b = blocks[ir]
      OBVIOUS
    <3>2. b # << >> /\ k \in DOMAIN b
      BY <2>3, <3>1
    <3>3. /\ b = Block(code, Thumb, ir) /\ b \in Seq(Positions(code)) /\ ir[2] \in Nat
      BY <2>1, <3>1, <3>2, BlockOfNamed, NamedPlaces DEF IsBlock
    <3>4. k \in 1 .. Len(b) /\ b[k] \in Positions(code)
      BY <3>2, <3>3
    <3>5. Block(code, Thumb, b[k]) = SubSeq(b, k, Len(b))
      BY <2>1, <3>2, <3>3, <3>4, BlockOfTheRest
    <3>6. blocks[b[k]] = Block(code, Thumb, b[k])
      BY <2>1, <3>4 DEF BlocksOfCode, Named
    <3> QED
      BY <3>1, <3>5, <3>6
  <2> QED
    BY <2>1, <2>2, <2>3 DEF BlocksAgree
<1> QED
  BY <1>1, TypesHold, PTL

(* The ways out of a visited block are the ways control may go from its    *)
(* last instruction.                                                       *)
LEMMA WaysOfNode ==
  ASSUME TypesInv, NEW n \in nodes
  PROVE  /\ n \in Positions(code) /\ IsBlock(code, Thumb, blocks[n])
         /\ Last(blocks[n]) \in Positions(code) /\ Ways(n) = Flow(Last(blocks[n]))
         /\ blocks[n] = Block(code, Thumb, n) /\ blocks[n][1] = n
<1>1. n \in Positions(code) /\ blocks[n] # << >> /\ n \in Named(code) /\ BlocksOfCode /\ IsCode(code)
  BY DEF TypesInv, Named, BlocksOfCode
<1>2. IsBlock(code, Thumb, blocks[n]) /\ blocks[n] = Block(code, Thumb, n)
  BY <1>1, BlockOfNamed
<1>3. Last(blocks[n]) \in Positions(code) /\ Has(InsnAt(code, Last(blocks[n])), "BB_END")
  BY <1>2, LastOfBlock
<1>4. Ways(n) = Succs(code, Last(blocks[n]))
  BY DEF Ways, Lhs, Rhs, Succs
<1>5. FlowOf(code, Last(blocks[n])) = Flow(Last(blocks[n]))
  BY DEF FlowOf, Flow
<1>6. blocks[n][1] = n
  BY <1>1, <1>2, BlockHasEnd, BlockOfPosition, PositionsOfCode
<1> QED
  BY <1>1, <1>2, <1>3, <1>4, <1>5, <1>6, FlowAtEnd

(* No instruction an execution from the entry can reach is left out of the *)
(* finished graph: get_bb ends a block where control may leave it, and     *)
(* traverse follows every way out.                                         *)
THEOREM GraphCoversExecution == CFGSpec /\ TargetsExist => []CoversExecution
<1>1. ASSUME CFGInv PROVE CoversExecution
  <2>1. SUFFICES ASSUME pc = "done"
                 PROVE  entry \in Covered /\ \A ir \in Covered : Flow(ir) \subseteq Covered
    BY DEF CoversExecution
  <2>2. Pending = {}
    BY <1>1, <2>1 DEF CFGInv, LoopDone, Pending
  <2>3. entry \in nodes /\ \A n \in nodes : Ways(n) \subseteq nodes
    BY <1>1, <2>1, <2>2 DEF CFGInv, NothingForgotten, Ways
  <2>4. nodes \subseteq Covered
    <3>1. ASSUME NEW n \in nodes PROVE n \in Covered
      <4>1. IsBlock(code, Thumb, blocks[n]) /\ blocks[n][1] = n
        BY <1>1, WaysOfNode DEF CFGInv
      <4>2. 1 \in DOMAIN blocks[n] /\ blocks[n][1] = n
        BY <4>1 DEF IsBlock
      <4> QED
        BY <4>2 DEF Covered
    <3> QED
      BY <3>1
  <2>5. ASSUME NEW n \in nodes, NEW k \in DOMAIN blocks[n]
        PROVE  Flow(blocks[n][k]) \subseteq Covered
    <3>1. PICK b : b = blocks[n]
      OBVIOUS
    <3>2. IsBlock(code, Thumb, b) /\ Ways(n) = Flow(Last(b)) /\ IsCode(code)
      BY <1>1, <3>1, WaysOfNode DEF CFGInv, TypesInv, BlocksOfCode
    <3>3. /\ b \in Seq(Positions(code)) /\ Len(b) \in Nat \ {0}
          /\ \A j \in 1 .. Len(b) - 1 : b[j + 1] = After(code, b[j]) /\ ~ EndsBlock(code, Thumb, b[j])
      BY <3>2 DEF IsBlock
    <3>4. k \in 1 .. Len(b)
      BY <2>5, <3>1, <3>3
    <3>5. CASE k = Len(b)
      <4>1. Last(b) = b[k]
        BY <3>2, <3>5, LastOfBlock
      <4> QED
        BY <2>3, <2>4, <3>1, <3>2, <4>1
    <3>6. CASE k # Len(b)
      <4>1. k \in 1 .. Len(b) - 1 /\ k + 1 \in DOMAIN b /\ b[k] \in Positions(code)
        BY <3>3, <3>4, <3>6
      <4>2. FlowOf(code, b[k]) \subseteq {b[k + 1]}
        BY <3>2, <3>3, <4>1, FlowInside
      <4>3. FlowOf(code, b[k]) = Flow(b[k])
        BY DEF FlowOf, Flow
      <4>4. b[k + 1] \in Covered
        BY <3>1, <4>1 DEF Covered
      <4> QED
        BY <3>1, <4>2, <4>3, <4>4
    <3> QED
      BY <3>5, <3>6
  <2>6. ASSUME NEW ir \in Covered PROVE Flow(ir) \subseteq Covered
    <3>1. PICK n \in nodes : ir \in {blocks[n][k] : k \in DOMAIN blocks[n]}
      BY <2>6 DEF Covered
    <3>2. PICK k \in DOMAIN blocks[n] : ir = blocks[n][k]
      BY <3>1
    <3> QED
      BY <2>5, <3>2
  <2> QED
    BY <2>3, <2>4, <2>6
<1> QED
  BY <1>1, InvHolds, PTL

(* When control can only get to addresses that can be translated, the      *)
(* block of what is visited next can be built.                             *)
LEMMA NextIsBuilt ==
  ASSUME CFGInv, CodeReadable, pc = "loop"
  PROVE  blocks[cur] # << >>
<1>1. /\ IsCode(code) /\ TargetsExist /\ BlocksOfCode /\ cur \in Named(code)
  BY DEF CFGInv, TypesInv, BlocksOfCode
<1>2. cur \in {entry} \cup UNION {Ways(n) : n \in nodes}
  BY DEF CFGInv, PendingReached, Pending
<1>3. \A p \in Positions(code) : \A t \in Flow(p) : t[1] \in DOMAIN code
  BY DEF CodeReadable
<1>4. cur[1] \in DOMAIN code
  <2>1. CASE cur = entry
    BY <2>1 DEF CodeReadable
  <2>2. ASSUME NEW n \in nodes, cur \in Ways(n) PROVE cur[1] \in DOMAIN code
    BY <1>3, <2>2, WaysOfNode DEF CFGInv
  <2> QED
    BY <1>2, <2>1, <2>2
<1>5. cur \in Positions(code)
  BY <1>1, <1>4, NamedPlaces
<1>6. \A p \in Positions(code) : \A t \in FlowOf(code, p) : t[1] \in DOMAIN code
  BY <1>3 DEF Flow, FlowOf
<1>7. Listing(code, Thumb, cur[1]) # << >>
  BY <1>1, <1>4, <1>6, ReadableListing
<1> QED
  BY <1>1, <1>5, <1>7, BlockOfPosition DEF BlocksOfCode

(* When every address control can get to can be translated and the targets *)
(* of jumps exist, no exception ends the traversal: get_bb always builds a *)
(* block, and every edge joins two nodes.                                  *)
THEOREM TraversalSucceeds == CFGSpec => []NoFailure
<1> DEFINE Sound == CodeReadable /\ TargetsExist => CFGInv /\ pc # "untranslated"
<1>1. CFGInit => Sound
  BY InitInv DEF CFGInit
<1>2. Sound /\ [CFGNext]_cfgVars => Sound'
  <2>1. SUFFICES ASSUME Sound, [CFGNext]_cfgVars, (CodeReadable /\ TargetsExist)'
                 PROVE  CFGInv' /\ (pc # "untranslated")'
    OBVIOUS
  <2>2. UNCHANGED <<code, entry>>
    BY <2>1 DEF CFGNext, Visit, Fail, AddEdges, cfgVars
  <2>3. CodeReadable /\ TargetsExist
    BY <2>1, <2>2 DEF CodeReadable, TargetsExist, Flow
  <2>4. CFGInv /\ pc # "untranslated"
    BY <2>1, <2>3
  <2>5. CFGInv'
    BY <2>1, <2>4, NextKeepsInv
  <2>6. pc' # "untranslated"
    <3>1. CASE Visit
      BY <3>1, <2>4, VisitEffect DEF CFGInv
    <3>2. CASE Fail
      BY <2>3, <2>4, <3>2, NextIsBuilt DEF Fail
    <3>3. CASE AddEdges
      BY <3>3 DEF AddEdges
    <3>4. CASE UNCHANGED cfgVars
      BY <2>4, <3>4 DEF cfgVars
    <3> QED
      BY <2>1, <3>1, <3>2, <3>3, <3>4 DEF CFGNext
  <2> QED
    BY <2>5, <2>6
<1>3. Sound => NoFailure
  BY DEF CFGInv, TypesInv, LoopDone, NoFailure
<1> QED
  BY <1>1, <1>2, <1>3, PTL DEF CFGSpec

-----------------------------------------------------------------------------
LEMMA SuccessorsOfNode ==
  ASSUME CFGInv, NEW n \in nodes
  PROVE  SuccessorsOf[n] = Ways(n)
BY DEF CFGInv, TypesInv, SuccessorsOf, Ways

LEMMA StepRefines ==
  ASSUME CFGInv, [CFGNext]_cfgVars
  PROVE  [Reach!Next]_(Reach!vars)
<1>1. CASE Visit
  <2>1. UNCHANGED <<code, blocks, entry>>
    BY <1>1 DEF Visit
  <2>2. SuccessorsOf' = SuccessorsOf
    BY <2>1 DEF SuccessorsOf, Lhs, Rhs
  <2>3. nodes' = nodes \cup {cur} /\ pc' \in {"loop", "edges"} /\ pc = "loop"
    BY <1>1, VisitEffect DEF Visit, CFGInv
  <2>4. cur \in {entry} \cup UNION {Ways(n) : n \in nodes}
    BY <2>3 DEF CFGInv, PendingReached, Pending
  <2>5. cur \in {entry} \cup UNION {SuccessorsOf[n] : n \in nodes}
    BY <2>4, SuccessorsOfNode
  <2>6. Reach!Discover
    BY <2>1, <2>2, <2>3, <2>5 DEF Reach!Discover
  <2> QED
    BY <2>6 DEF Reach!Next
<1>2. CASE Fail
  <2>1. UNCHANGED <<code, blocks, entry, nodes>> /\ pc # "done" /\ pc' # "done"
    BY <1>2 DEF Fail
  <2>2. SuccessorsOf' = SuccessorsOf
    BY <2>1 DEF SuccessorsOf, Lhs, Rhs
  <2> QED
    BY <2>1, <2>2 DEF Reach!vars
<1>3. CASE AddEdges
  <2>1. UNCHANGED <<code, blocks, entry, nodes>> /\ pc = "edges" /\ pc' = "done"
    BY <1>3, LoopOver DEF AddEdges
  <2>2. SuccessorsOf' = SuccessorsOf
    BY <2>1 DEF SuccessorsOf, Lhs, Rhs
  <2>3. entry \in nodes /\ \A n \in nodes : SuccessorsOf[n] \subseteq nodes
    BY <2>1, LoopOver, SuccessorsOfNode
  <2>4. Reach!End
    BY <2>1, <2>2, <2>3 DEF Reach!End, Reach!Closed
  <2> QED
    BY <2>4 DEF Reach!Next
<1>4. CASE UNCHANGED cfgVars
  <2>1. UNCHANGED <<code, blocks, entry, nodes, pc>>
    BY <1>4 DEF cfgVars
  <2>2. SuccessorsOf' = SuccessorsOf
    BY <2>1 DEF SuccessorsOf, Lhs, Rhs
  <2> QED
    BY <2>1, <2>2 DEF Reach!vars
<1> QED
  BY <1>1, <1>2, <1>3, <1>4 DEF CFGNext

(* The traversal discovers reachable blocks only, and ends with a result   *)
(* when all of them are discovered (CFGraphBuilder.traverse).              *)
THEOREM TraversalFindsReachable == CFGSpec /\ TargetsExist => FindsReachable
<1>1. CFGInit => Reach!Init
  BY DEF CFGInit, Reach!Init
<1>2. CFGInv /\ [CFGNext]_cfgVars => [Reach!Next]_(Reach!vars)
  BY StepRefines
<1> QED
  BY <1>1, <1>2, InvHolds, PTL DEF CFGSpec, FindsReachable, Reach!Spec

-----------------------------------------------------------------------------
(* How long the traversal can go on.  A block that is visited again pushes *)
(* its fall-through again, but that is later in the code: a visit costs    *)
(* what lies beyond it at most.                                            *)
Ahead(p, q) == p[1] < q[1] \/ (p[1] = q[1] /\ p[2] < q[2])
Beyond(p) == {q \in Positions(code) : Ahead(p, q)}

(* What a pending visit can cost: one turn when the block is new. *)
Load == [n \in Named(code) |-> IF n \in nodes THEN 2 * Cardinality(Beyond(n)) + 3 ELSE 1]

(* The sum of the weights of a sequence's elements, as a number of pairs. *)
Slots(s, w) == UNION {{k} \X (1 .. w[s[k]]) : k \in DOMAIN s}
Total(s, w) == Cardinality(Slots(s, w))

Unvisited == Cardinality(Positions(code) \ nodes)

Effort ==
  Total(stack, Load) + (IF pc = "loop" THEN Load[cur] + 2 ELSE IF pc = "edges" THEN 1 ELSE 0)

LEMMA SlotsFinite ==
  ASSUME NEW S, NEW s \in Seq(S), NEW w \in [S -> Nat]
  PROVE  IsFiniteSet(Slots(s, w)) /\ Total(s, w) \in Nat
<1> DEFINE Row(k) == {k} \X (1 .. w[s[k]])
           rows == {Row(k) : k \in DOMAIN s}
<1>1. ASSUME NEW k \in DOMAIN s PROVE IsFiniteSet(Row(k))
  <2>1. s[k] \in S /\ w[s[k]] \in Nat
    BY ElementOfSeq
  <2>2. PICK m \in Int : m = w[s[k]]
    BY <2>1
  <2>3. IsFiniteSet(1 .. m)
    BY FS_Interval
  <2>4. IsFiniteSet({k})
    BY FS_Singleton
  <2>5. IsFiniteSet({k} \X (1 .. m))
    BY <2>3, <2>4, FS_Product
  <2> QED
    BY <2>2, <2>5
<1>2. IsFiniteSet(rows)
  <2>1. PICK f : f = [k \in DOMAIN s |-> Row(k)]
    OBVIOUS
  <2>2. f \in Surjection(DOMAIN s, rows)
    <3> HIDE DEF Row
    <3> QED
      BY <2>1 DEF Surjection
  <2>3. IsFiniteSet(DOMAIN s)
    <3>1. DOMAIN s = 1 .. Len(s) /\ Len(s) \in Int /\ 1 \in Int
      OBVIOUS
    <3> QED
      BY <3>1, FS_Interval
  <2> HIDE DEF rows
  <2> QED
    BY <2>2, <2>3, FS_Surjection
<1>3. \A T \in rows : IsFiniteSet(T)
  <2> HIDE DEF Row
  <2> QED
    BY <1>1
<1>4. Slots(s, w) = UNION rows
  BY DEF Slots
<1>5. IsFiniteSet(Slots(s, w))
  <2> HIDE DEF rows
  <2> QED
    BY <1>2, <1>3, <1>4, FS_UNION
<1> QED
  BY <1>5, FS_CardinalityType DEF Total

LEMMA TotalOfNone ==
  ASSUME NEW w
  PROVE  Total(<< >>, w) = 0
<1>1. Slots(<< >>, w) = {}
  BY DEF Slots
<1> QED
  BY <1>1, FS_EmptySet DEF Total

(* An element at the end adds its weight. *)
LEMMA TotalOfOneMore ==
  ASSUME NEW S, NEW s \in Seq(S), NEW x \in S, NEW w \in [S -> Nat]
  PROVE  Total(s \o <<x>>, w) = Total(s, w) + w[x]
<1> DEFINE n == Len(s) + 1
           t == s \o <<x>>
           row == {n} \X (1 .. w[x])
<1>1. Len(s) \in Nat /\ n \in Nat /\ DOMAIN s = 1 .. Len(s) /\ DOMAIN t = 1 .. n
  OBVIOUS
<1>2. t[n] = x /\ \A k \in 1 .. Len(s) : t[k] = s[k]
  OBVIOUS
<1>3. 1 .. n = (1 .. Len(s)) \cup {n} /\ n \notin 1 .. Len(s)
  BY <1>1
<1> HIDE DEF n, t
<1>4. Slots(t, w) = Slots(s, w) \cup row
  <2>1. \A r : r \in Slots(t, w) <=> \E k \in 1 .. n : r \in {k} \X (1 .. w[t[k]])
    BY <1>1 DEF Slots
  <2>2. \A r : r \in Slots(s, w) <=> \E k \in 1 .. Len(s) : r \in {k} \X (1 .. w[s[k]])
    BY <1>1 DEF Slots
  <2>3. ASSUME NEW r, r \in Slots(t, w) PROVE r \in Slots(s, w) \cup row
    <3>1. PICK k \in 1 .. n : r \in {k} \X (1 .. w[t[k]])
      BY <2>1, <2>3
    <3>2. CASE k = n
      BY <1>2, <3>1, <3>2
    <3>3. CASE k \in 1 .. Len(s)
      BY <1>2, <2>2, <3>1, <3>3
    <3> QED
      BY <1>3, <3>2, <3>3
  <2>4. ASSUME NEW r, r \in Slots(s, w) PROVE r \in Slots(t, w)
    <3>1. PICK k \in 1 .. Len(s) : r \in {k} \X (1 .. w[s[k]])
      BY <2>2, <2>4
    <3> QED
      BY <1>2, <1>3, <2>1, <3>1
  <2>5. ASSUME NEW r, r \in row PROVE r \in Slots(t, w)
    BY <1>2, <1>3, <2>1, <2>5
  <2> QED
    BY <2>3, <2>4, <2>5
<1>5. Slots(s, w) \cap row = {}
  BY <1>1, <1>3 DEF Slots
<1>6. IsFiniteSet(row) /\ Cardinality(row) = w[x]
  <2>1. w[x] \in Nat
    OBVIOUS
  <2>2. IsFiniteSet(1 .. w[x]) /\ Cardinality(1 .. w[x]) = w[x]
    <3>1. PICK m \in Nat : m = w[x]
      BY <2>1
    <3>2. m \in Int /\ 1 \in Int
      OBVIOUS
    <3>3. IsFiniteSet(1 .. m) /\ Cardinality(1 .. m) = IF 1 > m THEN 0 ELSE m - 1 + 1
      BY <3>2, FS_Interval
    <3>4. (IF 1 > m THEN 0 ELSE m - 1 + 1) = m
      OBVIOUS
    <3> QED
      BY <3>1, <3>3, <3>4
  <2>3. IsFiniteSet({n}) /\ Cardinality({n}) = 1
    BY FS_Singleton
  <2>4. PICK ones, weight : ones = {n} /\ weight = 1 .. w[x]
    OBVIOUS
  <2>5. IsFiniteSet(ones \X weight) /\ Cardinality(ones \X weight) = Cardinality(ones) * Cardinality(weight)
    BY <2>2, <2>3, <2>4, FS_Product
  <2> QED
    BY <2>1, <2>2, <2>3, <2>4, <2>5
<1>7. IsFiniteSet(Slots(s, w)) /\ Cardinality(Slots(s, w)) \in Nat
  BY SlotsFinite DEF Total
<1> HIDE DEF row
<1>8. Cardinality(Slots(t, w)) = Cardinality(Slots(s, w)) + w[x] - 0
  BY <1>4, <1>5, <1>6, <1>7, FS_Union, FS_EmptySet
<1> QED
  BY <1>7, <1>8 DEF Total, t

(* What pop takes from the stack it takes from the sum. *)
LEMMA TotalOfPop ==
  ASSUME NEW S, NEW s \in Seq(S), s # << >>, NEW w \in [S -> Nat]
  PROVE  Total(s, w) = Total(Front(s), w) + w[Last(s)] /\ Total(Front(s), w) \in Nat
<1>1. Front(s) \in Seq(S) /\ Last(s) \in S
  BY PopLeavesTheRest
<1>2. s = Front(s) \o <<Last(s)>>
  <2>1. Len(s) \in Nat \ {0} /\ Front(s) = SubSeq(s, 1, Len(s) - 1) /\ Last(s) = s[Len(s)]
    BY DEF Front, Last
  <2> QED
    BY <2>1
<1> QED
  BY <1>1, <1>2, SlotsFinite, TotalOfOneMore

(* Code goes on upwards inside a block, and so does its fall-through.      *)
LEMMA FallsForward ==
  ASSUME TypesInv, NEW n \in nodes, Lhs(n) # NoLoc
  PROVE  Ahead(n, Lhs(n))
<1>1. PICK b : b = blocks[n]
  OBVIOUS
<1>2. IsBlock(code, Thumb, b) /\ b[1] = n /\ Last(b) = b[Len(b)] /\ Last(b) \in Positions(code) /\ IsCode(code)
  <2>1. IsCode(code)
    BY DEF TypesInv, BlocksOfCode
  <2>2. IsBlock(code, Thumb, b) /\ b[1] = n
    BY <1>1, WaysOfNode
  <2> QED
    BY <2>1, <2>2, LastOfBlock
<1>3. /\ b \in Seq(Positions(code)) /\ Len(b) \in Nat \ {0}
      /\ \A k \in 1 .. Len(b) - 1 : b[k + 1] = After(code, b[k])
  BY <1>2 DEF IsBlock
<1>4. ASSUME NEW p \in Positions(code)
      PROVE  /\ p[1] \in Nat /\ p[2] \in Nat
             /\ Ahead(p, <<NextAsm(code, p[1]), 0>>) /\ Ahead(p, <<p[1], p[2] + 1>>)
  <2>1. p[1] \in Nat /\ p[2] \in Nat /\ NextAsm(code, p[1]) \in Nat /\ NextAsm(code, p[1]) > p[1]
    BY <1>2, PositionsOfCode, CodeFacts
  <2> QED
    BY <2>1 DEF Ahead
<1>5. ASSUME NEW p \in Positions(code), NEW q \in Positions(code), NEW r, r[1] \in Nat, r[2] \in Nat,
             p = q \/ Ahead(p, q), Ahead(q, r)
      PROVE  Ahead(p, r)
  <2>1. p[1] \in Nat /\ p[2] \in Nat /\ q[1] \in Nat /\ q[2] \in Nat
    BY <1>4
  <2> QED
    BY <1>5, <2>1 DEF Ahead
<1> DEFINE G == {k \in Nat : n = b[k + 1] \/ Ahead(n, b[k + 1])}
<1>6. n \in Positions(code)
  BY DEF TypesInv
<1>7. Len(b) - 1 \in G
  <2>1. 0 \in G
    BY <1>2
  <2>2. ASSUME NEW k \in 0 .. Len(b) - 1 - 1, k \in G PROVE k + 1 \in G
    <3>1. k + 1 \in 1 .. Len(b) - 1 /\ k + 1 \in 1 .. Len(b) /\ (k + 1) + 1 \in 1 .. Len(b) /\ k + 1 \in Nat
      BY <1>3
    <3>2. b[k + 1] \in Positions(code) /\ b[(k + 1) + 1] \in Positions(code) /\ b[(k + 1) + 1] = After(code, b[k + 1])
      BY <1>3, <3>1
    <3>3. Ahead(b[k + 1], b[(k + 1) + 1])
      BY <1>4, <3>2 DEF After
    <3>4. n = b[k + 1] \/ Ahead(n, b[k + 1])
      BY <2>2
    <3>5. Ahead(n, b[(k + 1) + 1])
      BY <1>4, <1>5, <1>6, <3>2, <3>3, <3>4
    <3> QED
      BY <3>1, <3>5
  <2>3. Len(b) - 1 \in Nat
    BY <1>3
  <2> HIDE DEF G
  <2> QED
    BY <2>1, <2>2, <2>3, UpTo
<1>8. (Len(b) - 1) + 1 = Len(b)
  BY <1>3
<1>9. n = Last(b) \/ Ahead(n, Last(b))
  BY <1>2, <1>7, <1>8
<1>10. Lhs(n) = <<NextAsm(code, Last(b)[1]), 0>> \/ Lhs(n) = <<Last(b)[1], Last(b)[2] + 1>>
  BY <1>1 DEF Lhs, NextOf
<1>11. Ahead(Last(b), Lhs(n)) /\ Lhs(n)[1] \in Nat /\ Lhs(n)[2] \in Nat
  <2>1. NextAsm(code, Last(b)[1]) \in Nat
    BY <1>2, PositionsOfCode, CodeFacts
  <2>2. Last(b)[1] \in Nat /\ Last(b)[2] \in Nat
    BY <1>2, <1>4
  <2>3. Ahead(Last(b), <<NextAsm(code, Last(b)[1]), 0>>) /\ Ahead(Last(b), <<Last(b)[1], Last(b)[2] + 1>>)
    BY <1>2, <1>4
  <2>4. CASE Lhs(n) = <<NextAsm(code, Last(b)[1]), 0>>
    BY <2>1, <2>3, <2>4
  <2>5. CASE Lhs(n) = <<Last(b)[1], Last(b)[2] + 1>>
    BY <2>2, <2>3, <2>5
  <2> QED
    BY <1>10, <2>4, <2>5
<1> QED
  BY <1>2, <1>5, <1>6, <1>9, <1>11

(* Less lies beyond what is further on. *)
LEMMA BeyondShrinks ==
  ASSUME IsCode(code), NEW p \in Positions(code)
  PROVE  /\ IsFiniteSet(Beyond(p)) /\ Cardinality(Beyond(p)) \in Nat
         /\ \A q \in Positions(code) : Ahead(p, q) => Cardinality(Beyond(q)) + 1 <= Cardinality(Beyond(p))
<1>1. ASSUME NEW q \in Positions(code) PROVE IsFiniteSet(Beyond(q)) /\ Cardinality(Beyond(q)) \in Nat
  <2>1. Beyond(q) \subseteq Positions(code) /\ IsFiniteSet(Positions(code))
    BY PositionsFinite DEF Beyond
  <2> QED
    BY <2>1, FS_Subset, FS_CardinalityType
<1>2. ASSUME NEW q \in Positions(code), Ahead(p, q)
      PROVE  Cardinality(Beyond(q)) + 1 <= Cardinality(Beyond(p))
  <2>1. \A r \in Positions(code) : r[1] \in Nat /\ r[2] \in Nat
    BY PositionsOfCode, CodeFacts
  <2>2. \A r \in Positions(code) : Ahead(q, r) => Ahead(p, r)
    BY <1>2, <2>1 DEF Ahead
  <2>3. Beyond(q) \subseteq Beyond(p) /\ q \in Beyond(p) /\ q \notin Beyond(q)
    BY <1>2, <2>1, <2>2 DEF Beyond, Ahead
  <2>4. PICK A, B : A = Beyond(q) /\ B = Beyond(p)
    OBVIOUS
  <2>5. IsFiniteSet(B) /\ A \in SUBSET B /\ A # B /\ Cardinality(A) \in Nat /\ Cardinality(B) \in Nat
    BY <1>1, <2>3, <2>4
  <2>6. Cardinality(A) <= Cardinality(B) /\ Cardinality(A) # Cardinality(B)
    BY <2>5, FS_Subset
  <2>7. \A i \in Nat, j \in Nat : i <= j /\ i # j => i + 1 <= j
    OBVIOUS
  <2> QED
    BY <2>4, <2>5, <2>6, <2>7
<1> QED
  BY <1>1, <1>2

LEMMA LoadIs ==
  ASSUME TypesInv
  PROVE  /\ Load \in [Named(code) -> Nat]
         /\ \A n \in Named(code) : n \notin nodes => Load[n] = 1
         /\ \A n \in nodes : n \in Named(code) /\ Load[n] = 2 * Cardinality(Beyond(n)) + 3
<1>1. nodes \subseteq Positions(code) /\ IsCode(code) /\ nodes \subseteq Named(code)
  BY DEF TypesInv, BlocksOfCode, Named
<1>2. \A n \in nodes : Cardinality(Beyond(n)) \in Nat
  BY <1>1, BeyondShrinks
<1>3. \A n \in nodes : 2 * Cardinality(Beyond(n)) + 3 \in Nat
  BY <1>2
<1> QED
  BY <1>1, <1>3 DEF Load

(* A block visited again pushes less than it cost itself.                  *)
LEMMA RevisitPushesLess ==
  ASSUME TypesInv, cur \in nodes
  PROVE  Total(stack \o Pushed(cur, cur), Load) < Total(stack, Load) + Load[cur]
<1> DEFINE W == Load
           jump == Rhs(cur) # NoLoc /\ Rhs(cur) \notin nodes \cup {cur}
           fall == Lhs(cur) # NoLoc
           s1 == IF jump THEN stack \o <<Rhs(cur)>> ELSE stack
           s2 == IF fall THEN s1 \o <<Lhs(cur)>> ELSE s1
           h == Cardinality(Beyond(cur))
<1>1. /\ stack \in Seq(Named(code)) /\ IsCode(code) /\ cur \in Named(code) /\ blocks[cur] # << >>
      /\ cur \in Positions(code) /\ nodes \subseteq Positions(code)
  BY DEF TypesInv, BlocksOfCode
<1>2. (fall => Lhs(cur) \in Named(code)) /\ (jump => Rhs(cur) \in Named(code))
  BY <1>1, BlockLeadsToNamed DEF Ways, TypesInv
<1>3. W \in [Named(code) -> Nat] /\ W[cur] = 2 * h + 3 /\ h \in Nat
  BY <1>1, LoadIs, BeyondShrinks
<1>4. jump => W[Rhs(cur)] = 1
  BY <1>2, LoadIs
<1>5. fall => W[Lhs(cur)] \in Nat /\ W[Lhs(cur)] <= 2 * h + 1
  <2>1. ASSUME fall, Lhs(cur) \in nodes PROVE W[Lhs(cur)] \in Nat /\ W[Lhs(cur)] <= 2 * h + 1
    <3>1. Ahead(cur, Lhs(cur))
      BY <2>1, FallsForward
    <3>2. PICK g \in Nat : g = Cardinality(Beyond(Lhs(cur)))
      BY <1>1, <2>1, BeyondShrinks
    <3>3. g + 1 <= h /\ W[Lhs(cur)] = 2 * g + 3
      BY <1>1, <2>1, <3>1, <3>2, BeyondShrinks, LoadIs
    <3> QED
      BY <1>3, <3>3
  <2>2. ASSUME fall, Lhs(cur) \notin nodes PROVE W[Lhs(cur)] \in Nat /\ W[Lhs(cur)] <= 2 * h + 1
    <3>1. W[Lhs(cur)] = 1
      BY <1>2, <2>2, LoadIs
    <3> QED
      BY <1>3, <3>1
  <2> QED
    BY <2>1, <2>2
<1>6. stack \o Pushed(cur, cur) = s2
  <2>1. \A x, y : stack \o (<<x>> \o <<y>>) = (stack \o <<x>>) \o <<y>> /\ stack \o (<< >> \o <<y>>) = stack \o <<y>>
                  /\ stack \o (<<x>> \o << >>) = stack \o <<x>> /\ stack \o (<< >> \o << >>) = stack
    BY <1>1
  <2> QED
    BY <2>1 DEF Pushed
<1> HIDE DEF W, h
<1>7. s1 \in Seq(Named(code)) /\ Total(stack, W) \in Nat /\ Total(s1, W) <= Total(stack, W) + 1 /\ Total(s1, W) \in Nat
  <2>1. Total(stack, W) \in Nat
    BY <1>1, <1>3, SlotsFinite
  <2>2. CASE ~ jump
    BY <1>1, <2>1, <2>2
  <2>3. CASE jump
    <3>1. s1 = stack \o <<Rhs(cur)>> /\ s1 \in Seq(Named(code))
      BY <1>1, <1>2, <2>3
    <3>2. Total(s1, W) = Total(stack, W) + 1
      BY <1>1, <1>2, <1>3, <1>4, <2>3, <3>1, TotalOfOneMore
    <3> QED
      BY <2>1, <3>1, <3>2
  <2> QED
    BY <2>2, <2>3
<1> HIDE DEF s1
<1>8. Total(s2, W) < Total(stack, W) + W[cur]
  <2>1. CASE ~ fall
    BY <1>3, <1>7, <2>1
  <2>2. CASE fall
    <3>1. Total(s2, W) = Total(s1, W) + W[Lhs(cur)]
      BY <1>2, <1>3, <1>7, <2>2, TotalOfOneMore
    <3> QED
      BY <1>3, <1>5, <1>7, <2>2, <3>1
  <2> QED
    BY <2>1, <2>2
<1> QED
  BY <1>6, <1>8 DEF W

LEMMA MeasureTypes ==
  ASSUME TypesInv
  PROVE  Unvisited \in Nat /\ Effort \in Nat
<1>1. Unvisited \in Nat
  <2>1. IsFiniteSet(Positions(code)) /\ Positions(code) \ nodes \subseteq Positions(code)
    BY PositionsFinite DEF TypesInv, BlocksOfCode
  <2> QED
    BY <2>1, FS_Subset, FS_CardinalityType DEF Unvisited
<1>2. Load \in [Named(code) -> Nat] /\ cur \in Named(code) /\ stack \in Seq(Named(code))
  BY LoadIs DEF TypesInv
<1>3. Total(stack, Load) \in Nat /\ Load[cur] \in Nat
  <2>1. PICK w : w = Load
    OBVIOUS
  <2> QED
    BY <1>2, <2>1, SlotsFinite
<1> QED
  BY <1>1, <1>3 DEF Effort

LEMMA VisitCosts ==
  ASSUME CFGInv, Visit
  PROVE  Unvisited' < Unvisited \/ (Unvisited' = Unvisited /\ Effort' < Effort)
<1>1. TypesInv /\ TargetsExist /\ pc = "loop" /\ blocks[cur] # << >> /\ UNCHANGED <<code, blocks, entry>>
  BY DEF CFGInv, Visit
<1>2. Head(blocks[cur]) = cur /\ nodes' = nodes \cup {cur} /\ cur \in Positions(code)
  BY <1>1, VisitEffect
<1>3. CASE cur \notin nodes
  <2>1. IsFiniteSet(Positions(code) \ nodes)
    <3>1. IsFiniteSet(Positions(code)) /\ Positions(code) \ nodes \subseteq Positions(code)
      BY <1>1, PositionsFinite DEF TypesInv, BlocksOfCode
    <3> QED
      BY <3>1, FS_Subset
  <2>2. Positions(code)' \ nodes' = (Positions(code) \ nodes) \ {cur} /\ cur \in Positions(code) \ nodes
    BY <1>1, <1>2, <1>3
  <2>3. Unvisited' = Unvisited - 1
    <3>1. PICK P : P = Positions(code) \ nodes
      OBVIOUS
    <3>2. Cardinality(P \ {cur}) = Cardinality(P) - 1
      BY <2>1, <2>2, <3>1, FS_RemoveElement
    <3> QED
      BY <2>2, <3>1, <3>2 DEF Unvisited
  <2> QED
    BY <1>1, <2>3, MeasureTypes
<1>4. CASE cur \in nodes
  <2>1. nodes' = nodes /\ Unvisited' = Unvisited
    BY <1>1, <1>2, <1>4 DEF Unvisited
  <2>2. PICK w, s : w = Load /\ s = stack \o Pushed(cur, cur)
    OBVIOUS
  <2>3. Load' = w
    <3>1. \A n : Beyond(n)' = Beyond(n)
      BY <1>1 DEF Beyond
    <3> QED
      BY <1>1, <2>1, <2>2, <3>1 DEF Load
  <2>4. PopOrStop(s)
    BY <1>2, <2>2 DEF Visit
  <2>5. w \in [Named(code) -> Nat] /\ cur \in Named(code) /\ s \in Seq(Named(code))
    <3>1. Ways(cur) \subseteq Named(code) /\ cur \in Named(code) /\ stack \in Seq(Named(code))
      BY <1>1, BlockLeadsToNamed DEF TypesInv
    <3>2. Pushed(cur, cur) \in Seq(Named(code))
      BY <3>1, PushedWays
    <3> QED
      BY <1>1, <2>2, <3>1, <3>2, ConcatElems, LoadIs
  <2>6. Total(s, w) < Total(stack, w) + w[cur] /\ Total(s, w) \in Nat
    BY <1>1, <1>4, <2>2, <2>5, RevisitPushesLess, SlotsFinite
  <2>7. Total(stack, w) \in Nat /\ w[cur] \in Nat /\ Effort = Total(stack, w) + (w[cur] + 2)
    BY <1>1, <2>2, <2>5, SlotsFinite DEF Effort, TypesInv
  <2>8. Effort' = Total(stack', w) + (IF pc' = "loop" THEN w[cur'] + 2 ELSE IF pc' = "edges" THEN 1 ELSE 0)
    BY <2>3 DEF Effort
  <2>9. CASE s = << >>
    <3>1. pc' = "edges" /\ stack' = << >>
      BY <2>4, <2>9 DEF PopOrStop
    <3> QED
      BY <2>1, <2>6, <2>7, <2>8, <3>1, TotalOfNone
  <2>10. CASE s # << >>
    <3>1. cur' = Last(s) /\ stack' = Front(s) /\ pc' = "loop"
      BY <1>1, <2>4, <2>10 DEF PopOrStop
    <3>2. Total(s, w) = Total(Front(s), w) + w[Last(s)] /\ Total(Front(s), w) \in Nat /\ w[Last(s)] \in Nat
      BY <2>5, <2>10, TotalOfPop, PopLeavesTheRest
    <3>3. Effort' = Total(Front(s), w) + (w[Last(s)] + 2)
      BY <2>8, <3>1
    <3> QED
      BY <2>1, <2>6, <2>7, <3>2, <3>3
  <2> QED
    BY <2>9, <2>10
<1> QED
  BY <1>3, <1>4

(* The traversal comes nearer its end with each step: an iteration visits  *)
(* a new block, or it lowers what the pending ones can still cost, although *)
(* the fall-through of a block is pushed again each time it is visited     *)
(* (CFGraphBuilder.traverse).                                              *)
THEOREM TraversalIsBounded ==
  CFGSpec /\ TargetsExist =>
    /\ [](Unvisited \in Nat /\ Effort \in Nat)
    /\ [][Unvisited' < Unvisited \/ (Unvisited' = Unvisited /\ Effort' < Effort)]_cfgVars
<1> DEFINE Nearer == Unvisited' < Unvisited \/ (Unvisited' = Unvisited /\ Effort' < Effort)
<1>1. CFGInv => Unvisited \in Nat /\ Effort \in Nat
  BY MeasureTypes DEF CFGInv
<1>2. CFGInv /\ [CFGNext]_cfgVars => [Nearer]_cfgVars
  <2>1. SUFFICES ASSUME CFGInv, CFGNext PROVE Nearer
    OBVIOUS
  <2>2. CASE Visit
    BY <2>1, <2>2, VisitCosts
  <2>3. CASE Fail \/ AddEdges
    <3>1. UNCHANGED <<code, blocks, entry, cur, stack, nodes, edges>>
      BY <2>3 DEF Fail, AddEdges
    <3>2. Unvisited' = Unvisited /\ Load' = Load
      <4>1. \A n : Beyond(n)' = Beyond(n)
        BY <3>1 DEF Beyond
      <4> QED
        BY <3>1, <4>1 DEF Unvisited, Load
    <3>3. PICK w : w = Load
      OBVIOUS
    <3>4. Total(stack, w) \in Nat /\ w[cur] \in Nat
      BY <2>1, <3>3, LoadIs, SlotsFinite DEF CFGInv, TypesInv
    <3>5. /\ Effort = Total(stack, w) + (IF pc = "loop" THEN w[cur] + 2 ELSE IF pc = "edges" THEN 1 ELSE 0)
          /\ Effort' = Total(stack, w) + (IF pc' = "loop" THEN w[cur] + 2 ELSE IF pc' = "edges" THEN 1 ELSE 0)
      BY <3>1, <3>2, <3>3 DEF Effort
    <3>6. (pc = "loop" \/ pc = "edges") /\ pc' \notin {"loop", "edges"}
      BY <2>3 DEF Fail, AddEdges
    <3> QED
      BY <3>2, <3>4, <3>5, <3>6
  <2> QED
    BY <2>1, <2>2, <2>3 DEF CFGNext
<1> QED
  BY <1>1, <1>2, InvHolds, PTL DEF CFGSpec
=============================================================================
