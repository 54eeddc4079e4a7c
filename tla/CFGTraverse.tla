---------------------------- MODULE CFGTraverse -----------------------------
(***************************************************************************)
(* CFGraphBuilder.traverse of pyopenreil/REIL.py: the iterative pre-order  *)
(* traversal that builds the control flow graph of the code reachable from *)
(* an entry address.                                                       *)
(*                                                                         *)
(* Visit is one iteration of the loop: the block at the current address is *)
(* built and added to the graph, its edges are recorded, the target of its *)
(* jump is pushed when it was not visited, its fall-through is pushed      *)
(* always (the code has no visited check there), and the next address is   *)
(* popped.  Fail is the iteration whose block cannot be built.  AddEdges   *)
(* is the loop after the traversal that turns the recorded edges into      *)
(* edges of the graph and fails on one whose end is not a node.            *)
(***************************************************************************)
EXTENDS ReilCode

CONSTANTS
  Programs,  \* the codes that are analysed, see ReilCode
  Entries,   \* the addresses a traversal starts from
  Thumb      \* ARM code, odd addresses in Thumb mode

(* What is analysed is what the translator made, from where code may be. *)
ASSUME ProgramsAssumption ==
  (\A c \in Programs : IsCode(c)) /\ Entries \subseteq Nat /\ Thumb \in BOOLEAN

VARIABLES
  code,      \* the code analysed: it does not change
  blocks,    \* what get_bb answers for it at each ir_addr: it does not change
  entry,     \* ir_addr the traversal was asked for
  pc,        \* "loop", "edges", "done", "untranslated" or "key_error"
  cur,       \* ir_addr of this iteration
  stack,     \* stack, the top is the last element
  nodes,     \* nodes: ir_addr of the blocks visited
  edges      \* edges, and those of the graph once pc is "done"

cfgVars == <<code, blocks, entry, pc, cur, stack, nodes, edges>>

(* The IR addresses that a jump, a fall-through or the caller can name. *)
Named(c) ==
  Positions(c) \cup {<<a, 0>> : a \in Entries}
    \cup UNION {Succs(c, ir) : ir \in Positions(c)}

(* get_successors of the block at ir *)
Lhs(ir) == NextOf(code, Last(blocks[ir]))
Rhs(ir) == JccLoc(code, Last(blocks[ir]))

CFGInit ==
  /\ code \in Programs
  /\ blocks = [ir \in Named(code) |-> Block(code, Thumb, ir)]
  /\ entry \in {<<a, 0>> : a \in Entries}
  /\ pc = "loop"
  /\ cur = entry
  /\ stack = << >>
  /\ nodes = {}
  /\ edges = {}

(* Fault: a jump target is pushed when there is no fall-through. *)
PushedOne(node, ir) ==
  IF Lhs(ir) # NoLoc THEN <<Lhs(ir)>>
  ELSE IF Rhs(ir) # NoLoc /\ Rhs(ir) \notin nodes \cup {node} THEN <<Rhs(ir)>> ELSE << >>

(* Fault: a jump target is pushed although it was visited. *)
PushedAlways(node, ir) ==
  (IF Rhs(ir) # NoLoc THEN <<Rhs(ir)>> ELSE << >>)
  \o (IF Lhs(ir) # NoLoc THEN <<Lhs(ir)>> ELSE << >>)

(* What an iteration pushes: the jump target, then the fall-through, which *)
(* is therefore visited next.                                              *)
Pushed(node, ir) ==
  (IF Rhs(ir) # NoLoc /\ Rhs(ir) \notin nodes \cup {node} THEN <<Rhs(ir)>> ELSE << >>)
  \o (IF Lhs(ir) # NoLoc THEN <<Lhs(ir)>> ELSE << >>)

(* stack.pop(), or the end of the loop when the stack is empty. *)
PopOrStop(s) ==
  IF s = << >>
    THEN pc' = "edges" /\ stack' = s /\ UNCHANGED cur
    ELSE cur' = Last(s) /\ stack' = Front(s) /\ UNCHANGED pc

(* Fault: the block is not recorded as a node. *)
VisitNoNode ==
  /\ pc = "loop"
  /\ blocks[cur] # << >>
  /\ LET node == Head(blocks[cur])
     IN  /\ edges' = edges \cup {<<node, m>> : m \in {Lhs(cur), Rhs(cur)} \ {NoLoc}}
         /\ PopOrStop(stack \o Pushed(node, cur))
  /\ UNCHANGED <<code, blocks, entry, nodes>>

(* Fault: an edge to a visited block is not recorded. *)
VisitTree ==
  /\ pc = "loop"
  /\ blocks[cur] # << >>
  /\ LET node == Head(blocks[cur])
     IN  /\ nodes' = nodes \cup {node}
         /\ edges' = edges \cup {<<node, m>> : m \in {Lhs(cur), Rhs(cur)} \ ({NoLoc} \cup nodes)}
         /\ PopOrStop(stack \o Pushed(node, cur))
  /\ UNCHANGED <<code, blocks, entry>>

(* Fault: a jump is not followed when there is a fall-through. *)
VisitOneWay ==
  /\ pc = "loop"
  /\ blocks[cur] # << >>
  /\ LET way == (IF Lhs(cur) # NoLoc THEN {Lhs(cur)} ELSE {Rhs(cur)}) \ {NoLoc}
     IN  /\ nodes' = nodes \cup {Head(blocks[cur])}
         /\ edges' = edges \cup {<<Head(blocks[cur]), m>> : m \in way}
         /\ PopOrStop(stack \o SetToSeq(way \ nodes'))
  /\ UNCHANGED <<code, blocks, entry>>

Visit ==
  /\ pc = "loop"
  /\ blocks[cur] # << >>
  /\ LET node == Head(blocks[cur])
     IN  /\ nodes' = nodes \cup {node}
         /\ edges' = edges \cup {<<node, m>> : m \in {Lhs(cur), Rhs(cur)} \ {NoLoc}}
         /\ PopOrStop(stack \o Pushed(node, cur))
  /\ UNCHANGED <<code, blocks, entry>>

Fail ==
  /\ pc = "loop"
  /\ blocks[cur] = << >>
  /\ pc' = "untranslated"
  /\ UNCHANGED <<code, blocks, entry, cur, stack, nodes, edges>>

AddEdges ==
  /\ pc = "edges"
  /\ pc' = IF edges \subseteq nodes \X nodes THEN "done" ELSE "key_error"
  /\ UNCHANGED <<code, blocks, entry, cur, stack, nodes, edges>>

CFGNext == Visit \/ Fail \/ AddEdges

CFGSpec == CFGInit /\ [][CFGNext]_cfgVars

(* The traversal is one loop of one thread: it goes on as long as it can. *)
CFGFairSpec == CFGSpec /\ WF_cfgVars(CFGNext)

-----------------------------------------------------------------------------
CFGTypeOK ==
  /\ pc \in {"loop", "edges", "done", "untranslated", "key_error"}
  /\ nodes \subseteq Positions(code)
  /\ \A e \in edges : e[1] \in nodes

(* The target of every jump is an instruction that exists. *)
TargetsExist ==
  \A ir \in Positions(code) :
    LET t == JccLoc(code, ir)
    IN  t # NoLoc /\ t[1] \in DOMAIN code => IsPosition(code, t)

(* get_bb answers with a block that starts where it was asked. *)
BlockStarts ==
  \A ir \in DOMAIN blocks :
    blocks[ir] # << >> =>
      Head(blocks[ir]) = ir /\ {ir, Last(blocks[ir])} \subseteq Positions(code)

(* Blocks that overlap agree: the block at an instruction in the middle of *)
(* another one is the rest of that one (get_bb builds both on their own).  *)
BlocksAgree ==
  TargetsExist =>
    /\ BlockStarts
    /\ \A ir \in DOMAIN blocks : \A k \in DOMAIN blocks[ir] :
         blocks[blocks[ir][k]] = SubSeq(blocks[ir], k, Len(blocks[ir]))

(* What is still to be visited. *)
Pending == (IF pc = "loop" THEN {cur} ELSE {}) \cup {stack[k] : k \in DOMAIN stack}

(* A jump that was skipped because its target was visited, or pushed and   *)
(* not yet popped, is never forgotten: every successor of a visited block  *)
(* is visited or pending (the guard of the push and the LIFO order).       *)
NothingForgotten ==
  pc # "untranslated" =>
    /\ entry \in nodes \cup Pending
    /\ \A n \in nodes : {Lhs(n), Rhs(n)} \ {NoLoc} \subseteq nodes \cup Pending

(* The edges are those of the visited blocks, each of them once. *)
EdgesExact ==
  edges = UNION {{<<n, m>> : m \in {Lhs(n), Rhs(n)} \ {NoLoc}} : n \in nodes}

(* Where control may go from an instruction inside the function: a call    *)
(* comes back to the next instruction.                                     *)
Flow(ir) ==
  IF Has(InsnAt(code, ir), "CALL") THEN {NextOf(code, ir)} \ {NoLoc} ELSE Succs(code, ir)

(* The instructions of the blocks of the graph. *)
Covered == UNION {{blocks[n][k] : k \in DOMAIN blocks[n]} : n \in nodes}

(* No instruction that an execution from the entry reaches is left out of  *)
(* the graph: get_bb ends a block where control may leave it, and the      *)
(* traversal follows every way out.                                        *)
CoversExecution ==
  pc = "done" => entry \in Covered /\ \A ir \in Covered : Flow(ir) \subseteq Covered

(* Every address control can get to can be translated. *)
CodeReadable ==
  /\ entry[1] \in DOMAIN code
  /\ \A ir \in Positions(code) : \A t \in Flow(ir) : t[1] \in DOMAIN code

(* When they can, and the targets of jumps exist, no exception ends the    *)
(* traversal.                                                              *)
NoFailure ==
  CodeReadable /\ TargetsExist => pc \in {"loop", "edges", "done"}

SuccessorsOf ==
  [n \in Positions(code) |->
     IF blocks[n] = << >> THEN {} ELSE {Lhs(n), Rhs(n)} \ {NoLoc}]

Reach == INSTANCE Reachability WITH
           successors <- SuccessorsOf, found <- nodes, ended <- (pc = "done")

(* Refinement: the traversal discovers reachable blocks only and ends when *)
(* every one of them is discovered.                                        *)
FindsReachable == Reach!Spec

(* The traversal ends: a fall-through is pushed again each time its block  *)
(* is visited, but a block is visited again only on the way to one that    *)
(* was not.                                                                *)
Terminates == <>(pc \notin {"loop", "edges"})
=============================================================================
