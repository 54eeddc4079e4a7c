------------------------------ MODULE DFGBuild ------------------------------
(***************************************************************************)
(* DFGraphBuilder.traverse of pyopenreil/REIL.py: builds the data flow     *)
(* graph of the code that the control flow graph holds.  An edge from a    *)
(* definition to a use, labelled with the variable (register, flag or      *)
(* temporary), says that the value may flow; ENTRY stands for the caller's *)
(* values and EXIT for what the caller may read.                           *)
(*                                                                         *)
(* Process is one iteration of the loop: _process_bb runs over the block   *)
(* with the current state (which instruction each variable was set by),    *)
(* _process_state merges the state the block leaves into what is known of  *)
(* the block, and the successors are pushed when something was new.        *)
(*                                                                         *)
(* The control flow graph is the finished one of module CFGTraverse: its   *)
(* blocks are blocks, and every successor of a block is one of them.       *)
(***************************************************************************)
EXTENDS ReilCode, FiniteSets

CONSTANTS
  Programs,   \* the codes that are analysed; an IR instruction also has the
              \* fields src and dst, sets of variables
  Entries,    \* the addresses a traversal starts from
  Vars,       \* the variables
  General     \* Registers.general: what a call may read and write

ASSUME ProgramsAssumption ==
  /\ Entries \subseteq Nat /\ General \subseteq Vars
  /\ \A c \in Programs : IsCode(c) /\
       \A ir \in Positions(c) : InsnAt(c, ir).src \subseteq Vars /\ InsnAt(c, ir).dst \subseteq Vars

VARIABLES
  code,       \* the code analysed: it does not change
  blocks,     \* its blocks, by the IR address of their first instruction
  entry,      \* ir_addr the traversal was asked for
  pc,         \* "loop" or "done"
  cur,        \* the block of this iteration
  state,      \* state: the instruction each variable was set by, NoDef if none
  stack,      \* stack of [at, state], the top is the last element
  known,      \* bb.input: for each block, the pairs <<variable, instruction>>
  nodes,      \* nodes of the data flow graph
  edges       \* its edges <<from, to, variable>>

dfgVars == <<code, blocks, entry, pc, cur, state, stack, known, nodes, edges>>

NoDef == << >>
ENTRY == <<-1, 0>>
EXIT == <<-1, 1>>

IsCall(insn) == Has(insn, "CALL")

(* Insn.src and dst, with what a call is assumed to do. *)
Src(ir) ==
  LET insn == InsnAt(code, ir) IN IF IsCall(insn) THEN insn.src \cup General ELSE insn.src
Dst(ir) ==
  LET insn == InsnAt(code, ir) IN IF IsCall(insn) THEN General ELSE insn.dst

BlockSuccs(bb) == Succs(code, Last(bb))

(* Fault: a variable the block does not set is taken for the caller's. *)
StateAfterEntry(s, bb) ==
  [v \in Vars |->
     LET sets == {k \in DOMAIN bb : v \in Dst(bb[k])}
     IN  IF sets = {} THEN ENTRY ELSE bb[MaxOf(sets)]]

(* Fault: the first instruction that sets a variable wins. *)
StateAfterFirst(s, bb) ==
  [v \in Vars |->
     LET sets == {k \in DOMAIN bb : v \in Dst(bb[k])}
     IN  IF sets = {} THEN s[v] ELSE bb[CHOOSE k \in sets : \A m \in sets : k <= m]]

(* The state after the instructions of bb. *)
StateAfter(s, bb) ==
  [v \in Vars |->
     LET sets == {k \in DOMAIN bb : v \in Dst(bb[k])}
     IN  IF sets = {} THEN s[v] ELSE bb[MaxOf(sets)]]

(* The state just before the k-th instruction of bb. *)
StateBefore(s, bb, k) == StateAfter(s, SubSeq(bb, 1, k - 1))

Source(s, v) == IF s[v] = NoDef THEN ENTRY ELSE s[v]

UseEdges(s, bb) ==
  UNION {{<<Source(StateBefore(s, bb, k), v), bb[k], v>> : v \in Src(bb[k])} :
           k \in DOMAIN bb}

(* At the end of the function every value that was set may be read. *)
ExitEdges(s, bb) ==
  IF BlockSuccs(bb) = {}
    THEN {<<StateAfter(s, bb)[v], EXIT, v>> : v \in {w \in Vars : StateAfter(s, bb)[w] # NoDef}}
    ELSE {}

(* _process_state: the pairs of a state that are not known of the block. *)
Pairs(s) == {<<v, s[v]>> : v \in {w \in Vars : s[w] # NoDef}}

DFGInit ==
  /\ code \in Programs
  /\ blocks = [ir \in Positions(code) |-> Block(code, FALSE, ir)]
  /\ entry \in {<<a, 0>> : a \in Entries}
  /\ pc = "loop"
  /\ cur = entry
  /\ state = [v \in Vars |-> NoDef]
  /\ stack = << >>
  /\ known = [ir \in Positions(code) |-> {}]
  /\ nodes = {}
  /\ edges = {}

(* Fault: a jump target is pushed when there is no fall-through. *)
PushSuccsOne(bb, s) ==
  LET rhs == JccLoc(code, Last(bb))
      lhs == NextOf(code, Last(bb))
  IN  stack \o (IF lhs # NoLoc THEN <<[at |-> lhs, state |-> s]>>
                ELSE IF rhs # NoLoc THEN <<[at |-> rhs, state |-> s]>> ELSE << >>)

(* The jump target, then the fall-through, with the state the block left. *)
PushSuccs(bb, s) ==
  LET rhs == JccLoc(code, Last(bb))
      lhs == NextOf(code, Last(bb))
  IN  stack \o (IF rhs # NoLoc THEN <<[at |-> rhs, state |-> s]>> ELSE << >>)
            \o (IF lhs # NoLoc THEN <<[at |-> lhs, state |-> s]>> ELSE << >>)

(* Fault: a block is processed until it knows something, once. *)
ProcessOnce ==
  /\ pc = "loop"
  /\ LET bb == blocks[cur]
         out == StateAfter(state, bb)
         pushed == IF known[cur] = {} THEN PushSuccs(bb, out) ELSE stack
     IN  /\ nodes' = nodes \cup {bb[k] : k \in DOMAIN bb}
         /\ edges' = edges \cup UseEdges(state, bb) \cup ExitEdges(state, bb)
         /\ known' = [known EXCEPT ![cur] = @ \cup Pairs(out)]
         /\ IF pushed = << >>
              THEN pc' = "done" /\ state' = out /\ UNCHANGED <<cur, stack>>
              ELSE /\ cur' = Last(pushed).at
                   /\ state' = Last(pushed).state
                   /\ stack' = Front(pushed)
                   /\ UNCHANGED pc
  /\ UNCHANGED <<code, blocks, entry>>

(* Fault: a block is processed whether or not something is new. *)
ProcessAlways ==
  /\ pc = "loop"
  /\ LET bb == blocks[cur]
         out == StateAfter(state, bb)
         pushed == PushSuccs(bb, out)
     IN  /\ nodes' = nodes \cup {bb[k] : k \in DOMAIN bb}
         /\ edges' = edges \cup UseEdges(state, bb) \cup ExitEdges(state, bb)
         /\ known' = [known EXCEPT ![cur] = @ \cup Pairs(out)]
         /\ IF pushed = << >>
              THEN pc' = "done" /\ state' = out /\ UNCHANGED <<cur, stack>>
              ELSE /\ cur' = Last(pushed).at
                   /\ state' = Last(pushed).state
                   /\ stack' = Front(pushed)
                   /\ UNCHANGED pc
  /\ UNCHANGED <<code, blocks, entry>>

Process ==
  /\ pc = "loop"
  /\ LET bb == blocks[cur]
         out == StateAfter(state, bb)
         updated == ~(Pairs(out) \subseteq known[cur])
         pushed == IF updated THEN PushSuccs(bb, out) ELSE stack
     IN  /\ nodes' = nodes \cup {bb[k] : k \in DOMAIN bb}
         /\ edges' = edges \cup UseEdges(state, bb) \cup ExitEdges(state, bb)
         /\ known' = [known EXCEPT ![cur] = @ \cup Pairs(out)]
         /\ IF pushed = << >>
              THEN pc' = "done" /\ state' = out /\ UNCHANGED <<cur, stack>>
              ELSE /\ cur' = Last(pushed).at
                   /\ state' = Last(pushed).state
                   /\ stack' = Front(pushed)
                   /\ UNCHANGED pc
  /\ UNCHANGED <<code, blocks, entry>>

DFGNext == Process

DFGSpec == DFGInit /\ [][DFGNext]_dfgVars

(* The traversal is one loop of one thread. *)
DFGFairSpec == DFGSpec /\ WF_dfgVars(DFGNext)

-----------------------------------------------------------------------------
(***************************************************************************)
(* The reference: which definitions reach which instructions, from the     *)
(* code alone.                                                             *)
(***************************************************************************)

(* The instructions control may go to from ir; only the last instruction   *)
(* of a block leaves it, so a call goes on to the next instruction.        *)
Flow(ir) == IF Has(InsnAt(code, ir), "BB_END") THEN Succs(code, ir) ELSE {NextOf(code, ir)}

(* The instructions control may arrive at from start, as long as it passes *)
(* through the instructions given.                                         *)
ArrivesFrom(start, through) ==
  LET Within[n \in 0 .. Cardinality(Positions(code))] ==
        IF n = 0 THEN start
        ELSE Within[n - 1] \cup UNION {Flow(ir) : ir \in Within[n - 1] \cap through}
  IN  Within[Cardinality(Positions(code))]

ArrivesUnset(start, v) == ArrivesFrom(start, {ir \in Positions(code) : v \notin Dst(ir)})

Reachable == ArrivesFrom({entry}, Positions(code))

(* The def-use pairs of the code, and the values live at its exits. *)
DefUses(v) ==
  UNION {{<<d, u, v>> : u \in {p \in ArrivesUnset(Flow(d), v) : v \in Src(p)}} :
           d \in {p \in Reachable : v \in Dst(p)}}

EntryUses(v) ==
  {<<ENTRY, u, v>> : u \in {p \in ArrivesUnset({entry}, v) : v \in Src(p)}}

Exits == {p \in Reachable : Has(InsnAt(code, p), "BB_END") /\ Flow(p) = {}}

DefExits(v) ==
  {<<d, EXIT, v>> : d \in
     {p \in Reachable :
        /\ v \in Dst(p)
        /\ p \in Exits \/ \E x \in ArrivesUnset(Flow(p), v) \cap Exits : v \notin Dst(x)}}

-----------------------------------------------------------------------------
DFGTypeOK ==
  /\ pc \in {"loop", "done"}
  /\ cur \in Positions(code)
  /\ state \in [Vars -> Positions(code) \cup {NoDef}]
  /\ \A k \in DOMAIN stack : stack[k].state \in [Vars -> Positions(code) \cup {NoDef}]
  /\ nodes \subseteq Positions(code)

(* An edge that is drawn is real: each visit of a block carries the state  *)
(* of one path of the code.                                                *)
EdgesReal ==
  pc = "done" =>
    \A v \in Vars :
      {e \in edges : e[3] = v} \subseteq DefUses(v) \cup EntryUses(v) \cup DefExits(v)

(* The value the entry block sets, which keeps the traversal going. *)
EntrySets == \E k \in DOMAIN blocks[entry] : Dst(blocks[entry][k]) # {}

(* No def-use pair is missed, and no value that leaves the function: a     *)
(* block is processed again until it knows every definition that reaches   *)
(* its end.  After an entry block that sets nothing the traversal stops.   *)
NoMissedFlow ==
  pc = "done" /\ EntrySets =>
    \A v \in Vars : DefUses(v) \cup DefExits(v) \subseteq edges

(* Every instruction of the control flow graph is in the data flow graph.  *)
EveryInsnAnalysed == pc = "done" => nodes = Reachable

(* The code gives this only when the entry block sets something: without   *)
(* news the traversal stops behind it.                                     *)
AnalysedWhenEntrySets == EntrySets => EveryInsnAnalysed

(* The traversal ends: each push is paid for by a new pair of a block. *)
DFGTerminates == <>(pc = "done")
=============================================================================
