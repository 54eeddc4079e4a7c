# A verification development of OpenREIL

OpenREIL translates machine code to the REIL intermediate language, analyses the
translated code (control flow, data flow, symbolic state) and executes it in an
emulator.  This directory holds TLA+ models of its two halves, the translation (BIL to
REIL, the flags of the x86) and the analysis core, the runs that check them with TLC and
the proofs that TLAPS checks.

The program is single-threaded and persists nothing but what its storages hold, so
the hard behaviours are not races or crashes.  They are long sequences of legal
calls (translate, delete, renumber, translate again; load, store, attach a reader),
worklist algorithms that must neither lose work nor go on forever, calls that fail
half way, state that is stale when it is used, and arithmetic that must be right at every
width after it has been taken apart into the few operations REIL has.

## The system: inventory

| Component | Where | State | Operations | Interacts with | What makes it correct |
|---|---|---|---|---|---|
| Emulator memory `Mem` | `VM.py` 66-208 | dictionary of bytes, reader, `alloc_last` | read, write, alloc, clear, load, store | the reader of the code storage (attached by `Cpu.set_storage`) | a load returns what was stored last; it is one flat array over the image |
| IR instructions `Insn`, `BasicBlock`, `InsnList` | `REIL.py` 249-1000 | one instruction: op, arguments, flags | next, jcc_loc, get_successors, src, dst, get_range | everything | successors are those of the instruction |
| Control flow `CFGraphBuilder` | `REIL.py` 1411-1532 | stack, visited nodes, edges | get_bb, traverse | storage (`get_insn`), `Func` by a callback | finds exactly the reachable blocks, ends |
| Functions `Func`, `get_func` | `REIL.py` 1002-1150, 2622-2634, 3065 | instructions, returns, chunks | add_bb, add_chunk | the traversal calls `process_node` | each instruction once, every return, the exact bytes |
| Data flow `DFGraphBuilder` | `REIL.py` 2074-2209 | stack of states, `bb.input` of each block, nodes, edges | traverse, `_process_bb`, `_process_state` | the finished control flow graph | an edge for each def-use pair and for nothing else |
| Data flow optimizations `DFGraph` | `REIL.py` 1640-2071 | nodes, deleted nodes | constant folding, subexpressions, dead code, store | `CodeStorageMem` | the code computes the same; the storage holds what is left |
| Code storage `CodeStorageMem` | `REIL.py` 2371-2553 | IR address -> instruction | get, put, del, clear, `fix_inums_and_flags` | translator, DFGraph | a machine instruction is found whole; jumps follow what they point to |
| Translator front end `CodeStorageTranslator` | `REIL.py` 2605-3070 | a storage and a reader | get_insn, postprocessing of translated code | storage, reader, libopenreil | translation is cached and deterministic |
| BIL to REIL `CReilFromBilTranslator` | `reil_translator.cpp` 137-1720 | instructions, labels and counters of one machine instruction, kept in an object that is used again | `process_bil`, `process_bil_inst` (lowering of expressions), `process_bil_*jmp`, exceptions | libasmir gives it blocks; the handler gets its instructions | numbers, end marks and jumps are whole; the code computes what the statements mean |
| Emulator `Cpu`, `Math`, `Reg`, `Stack`, `Abi` | `VM.py` 210-1000 | registers (with the size each was created with), memory | run, execute, call | `Mem`, storage | the semantics of each operation |
| Machine code to BIL, libasmir | `irtoir.cpp`, `irtoir-i386.cpp`, `irtoir-arm.cpp` | the thunk operation and ITSTATE it has seen | translation of VEX expressions, flags from thunks (`mod_eflags_*`), conditions, if-then-else | VEX in front, the BIL translator behind | the flags computed at once are those VEX would compute later |
| Symbolic state `SymState` | `symbolic.py` | expression of each register and address | update, query, slice | `Insn.to_symbolic` | the expressions describe the state |
| MongoDB storage | `mongodb.py` | LRU cache over a collection | get, put, del, clear | a database | cache and collection agree |
| VEX, capstone | `VEX/`, `capstone/` | - | machine code to VEX IR, disassembly | libasmir | third-party; their contract is what libasmir relies on |

How they interact: VEX gives libasmir its IR, libasmir gives `process_bil` a BIL block, the
translator gives REIL instructions to a handler, the Python storages keep them, and the
graphs, functions and the emulator read the storages.  Each arrow is a synchronous call;
what is left in an object between two calls (the translator after an exception, the
dictionary of `Mem` after a refill, a register at its first size) is where the state is.

## Modules

| Module | Models | Its state and actions |
|---|---|---|
| `FlatMemory` | what `Mem` promises: one array of bytes | `mem`, and the operation just performed |
| `Mem` | `VM.py` `Mem`, with `ReaderRaw.read` and `Cpu.set_storage` | `data`, `reader`, `allocLast` are the attributes; `last` is the outcome of the call, `shadow` remembers what the program wrote. One action per method, with its exceptions |
| `MemProofs` | proofs about `Mem` | |
| `ReilCode` | IR code, `next`, `jcc_loc`, `_get_bb`, `get_bb` as operators | no state |
| `Reachability` | what a traversal promises | |
| `CFGTraverse` | `CFGraphBuilder.traverse` | `Visit` is one turn of the loop, `Fail` the turn whose block cannot be built, `AddEdges` what follows the loop |
| `BlockProofs` | lemmas about `ReilCode`: what `get_bb` answers with | |
| `CFGProofs` | proofs about `CFGTraverse` | |
| `FuncBuild` | `get_func`: the traversal composed with `Func` | each turn of the loop that visits a new block also runs `add_bb` |
| `FuncProofs` | proofs about `FuncBuild` | |
| `DFGBuild` | `DFGraphBuilder.traverse` on a finished control flow graph | `Process` is one turn of the loop |
| `DFGProofs` | proofs about `DFGBuild` | |
| `CodeStorage` | `CodeStorageMem`, filled by `CodeStorageTranslator.get_insn` | `items` is the dictionary; put, delete one, delete a machine instruction, clear, fix |
| `StorageProofs` | proofs about `CodeStorage` | |
| `BilRun` | what a BIL block does: its control flow, statement by statement | |
| `BilToReil` | `process_bil` and what it calls, down to one operator at a time | `phase` is where in the call; `insts`, `labels`, `instCount` are the attributes of the translator, `delivered` what the handler got. An action for each kind of statement, for each exception, for `_end` |
| `ReilRun` | the translated code executed, on top of `BilToReil` | `pc` is where `Cpu.run` is, `source` the block the code was made from, `cond` what the last condition came out as; refines `BilRun` (`RunsAsBil`) |
| `ReilProofs` | proofs about `BilToReil`, and that `ReilRun` implements `BilRun` | |
| `BilExp` | BIL expressions and their sizes; widths are scaled by the constant `ByteBits` | no state |
| `BilMeaning` | the types of BIL expressions and what they mean: the reference | no state |
| `BilMoves` | what statements do: each at once | registers and memory |
| `Lowering` | `process_bil_inst`, `process_bil_cast`, loads, stores and branches: REIL code of an expression | no state |
| `ReilCpu` | `Math`, `Reg`, the registers and the instructions of `Cpu` | operators over registers |
| `LowerRun` | `Lowering` executed by `ReilCpu` | one step for each REIL instruction |
| `LowerProofs` | proofs about `LowerRun` | |
| `LowerMoves` | `LowerRun` refines `BilMoves` (`ExecutesBil`) | |
| `Ite` | `translate_ITE` and `emit_mux0x`, through `Lowering` and `ReilCpu` | extends `LowerRun` |
| `X86Thunk` | the lazy flags of VEX (`guest_x86_helpers.c`): flags and conditions from the last thunk | the reference |
| `X86Flags` | the eager flags of libasmir (`irtoir-i386.cpp`), as BIL over flag registers, with the composition of EFLAGS | no state |
| `FlagRun` | sequences of instructions, on both | the flag registers and the thunk side by side |
| `CodeShapes`, `MCMem`, `MCCFG`, `MCFunc`, `MCDFG`, `MCStorage`, `MCBil`, `MCExps`, `MCLower`, `MCIte`, `MCFlags` | the instances for TLC | |

What is abstracted.  A byte is a value of `Byte`, an integer is the function from its
addresses to bytes (`pack` and `unpack`).  Of an IR instruction the control flow keeps
whether it jumps, always or not, where to, and its flags; the data flow adds the sets
of variables it reads and writes; the storage adds where it was translated, which
identifies it.  The blocks of a code do not change while it is traversed, so `blocks`
is computed once: `get_bb` always answers the same (it deletes the `IOPT_BB_END` of a
Thumb jump that only propagates the mode, which `EndsAsmBlock` accounts for).  The
number of stack arguments is abstracted to the return it was computed from.

The translation is modelled twice, because its two questions need different data.  For
the numbering (`BilToReil`) an expression is the sequence of its operators and an operator
the number of instructions it is lowered to, whatever that is: the constant `Emits`.  For
the values (`Lowering`) expressions are trees and instructions have operands; numbers and
labels are left out but for the names of temporaries.  Widths are scaled: a byte has
`ByteBits` bits, U8, U16, U32 and U64 are one, two, four and eight of them, U1 is a bit.  Every mask,
sign bit and shift count in the code that is computed from a size is computed from the
scaled size, so a lowering that is wrong at its boundary is wrong at the scaled one.
`BilMeaning` says nothing about what the machine does not define (shifts by the width or
more, `s>>` by 0, division by zero, signed division whose quotient is negative, where the emulator rounds as
numpy does): there every result is allowed, and what depends on it is not claimed.
The expressions there are, with their depths, are the constant `Depth`: `process_bil_inst`
calls itself on the parts of an expression, which the model writes as a function of
expressions, so that it can be reasoned about (`MCExps` gives it those of an instance).

Each component module also holds a few definitions marked `Fault:`, one-line
mistakes in a definition of the model.  Put in its place, each makes a property of the
module fail; they show that the properties constrain the code and are part of no
specification.

## Runs

| Run | Bounds | Shows |
|---|---|---|
| `mem_word` | bytes 0 and 1, addresses 0..6, an image of two bytes, strict | with accesses that do not straddle the image, the program sees its last store, and `Mem` implements `FlatMemory` |
| `mem_tail` | overlapping ranges across the end of the image | short reads and stores that fail half way keep to the promise |
| `cfg_all` | every program of 3 addresses, sizes 1 and 2, 7 shapes, jumps also out of the code; Thumb code of 4 instructions | the traversal finds what is reachable, loses nothing, ends, also where blocks run through jumps that only keep the mode |
| `func_all` | every program of 4 addresses, sizes 1 and 2, 5 shapes, conditional returns, entered in the middle | functions hold each instruction once, all returns, the exact bytes |
| `dfg_flows` | every program of 4 instructions in 7 shapes, a register and a flag | the edges are the def-use pairs of the code; it ends |
| `storage_fix` | two machine instructions of 2 and 3 IR instructions, all call sequences | renumbering keeps order, is idempotent, moves jumps, and restores end flags of all but the last |
| `bil_blocks` | every well-formed BIL block of up to 4 statements, of 5 and 6 with only those that branch; blocks that are refused (for a jump, an operator, a call or a return of BIL) or unknown, and what follows them; 2 labels, operators of 1, 2 and 4 instructions | numbers, end marks and jumps of the code are whole; running it is running the statements |
| `lower_ops` | bytes of 2 bits: every operator on every pair of bits, bytes and words, casts up to 64-bit types, nested expressions as irtoir builds them, memory, branches, machine instructions that reuse temporaries | the emulator, running the lowered code, computes what the statements mean; no value is cut by a register |
| `flags_ops` | bytes of 4 bits, every thunk operation but SBB and COPY, one after the other: at three sizes, but SHL of a word only and multiplications of bytes and halves only; EFLAGS composed over no bit, all, each one and all but one | flags, conditions and EFLAGS are those of VEX |
| `ite_choice` | bytes of 2 bits, every condition and alternative | **violation**: the alternatives are swapped |
| `flags_popf` | EFLAGS assigned as a whole | **violation**: the flags stay |
| `flags_sbb` | every subtraction with borrow of two bytes | **violation**: the carry is wrong for equal operands |

Why the bounds suffice.  Two bytes and two adjacent ranges are the least for accesses
to overlap, to straddle the image and to fail half way; a third would repeat them.
Three addresses with two sizes hold a loop, a diamond, a jump into the middle of a
block, overlapping decodings, and jumps out of the code; the four of the functions hold
three chunks and a merge through a block between two others.  Four instructions hold a
loop with a definition before, in and after it, which is what the data flow fixpoint has
to get right.  Two machine instructions are the least for "not the last", three IR
instructions for a gap on either side of one that stays.

A conditional jump and both its labels take three statements; with one move in front, in
between or behind, four; a loop with code before, in and behind it takes six, so those lengths are run with the
branching statements.  What an exception may leave behind is the same for each block
that follows, so three are enough after a refusal.  The lowering looks at no bit but the sign and the
lowest and at no width but the sizes, so two bits for a byte (four for a word, sixteen for
the widest) already tell all of them apart, and at this size the operands of bits, bytes and words are all there
are (of wider types, those at the ends and around the signs).  The flags need a word of sixteen bits, since OF is bit 11 of it, hence bytes of four bits;
operands are taken where a carry, borrow, overflow, half carry or sign changes, and the state of a
run is the flags, so every instruction is run after every other.

The state spaces are finite with no other cap: only `Mem` has an unbounded counter,
`allocLast`, which the model's addresses bound, and `MaxArgs` bounds the operands of an
instruction VEX does not know.

Deadlock is not checked for the traversals, the translator and the runs of translated
code: they stop when they are done.

### What the violations say

`PROJECT.json` quotes the line of the repository that each of them contradicts.

* `translate_ITE` (`irtoir.cpp` 1859) replaces the condition by its comparison with 0 and
  `emit_mux0x` takes its first alternative where the condition holds.  It is given
  `iftrue` first, so a conditional move moves when it should not.
* `mod_eflags_copy` (`irtoir-i386.cpp` 1805) assigns EFLAGS and takes the flags out of it,
  but the REIL translator composes EFLAGS from the flag registers before each instruction
  that names it (`reil_translator.cpp` 341): `popfd` and `sahf` change no flag, though the comment
  between the two says "set status flags from EFLAGS" (1804).
* `mod_eflags_sbb` (`irtoir-i386.cpp` 2022) has `<=` without a borrow and `<` with one;
  VEX has them the other way round (`guest_x86_helpers.c` 223-226).

### Found while modelling, with no run kept

These were reproduced with a run or read while the lines were translated.  The runs that
remain state where the properties do hold.

* `Mem.read` asks the reader for the whole range when one byte is missing and puts all of
  it into the dictionary (`VM.py` 155).  A program that stores a byte of its data section
  and then loads a word around it reads, and keeps, the old byte, against the test at 255.
  `mem_word` has accesses that do not straddle the image.
* `Func.add_bb` takes the instructions of the returning machine instruction from its
  first IR instruction on (`REIL.py` 1127); a block entered behind it, as the return of a
  conditional instruction is, gives none, and `get_func` ends with AttributeError.
* `DFGraphBuilder.traverse` continues only on news (`REIL.py` 2200); the function behind an
  entry block that sets no variable is not analysed, whatever 2197-2198 push.
* `fix_inums_and_flags` restores an end flag when it meets the next machine instruction
  (`REIL.py` 2517), which the last does not have; it is not found any more.  Its map of
  moved instructions has no entry for deleted ones (2547), and a jump to one keeps its
  number.
* `_add_chunk` does not see that a new range contains an old chunk, so with overlapping
  decodings the chunks of a function may overlap: `func_all` checks `ChunksApartAligned`
  where decodings do not.
* `_process_state` records what set a variable, nothing when nothing did, so a use that
  the value of the caller reaches along a second path may miss its edge from the entry
  node: `NoMissedFlow` speaks of definitions.
* In the flags of the x86: ZF after an 8 or 16 bit SHL compares the uncut word VEX shifted
  (`irtoir-i386.cpp` 2265); rotations by 0 change flags (FIXMEs at 2357 and 2391); AF is
  always 0 after most operations; the guard of a shift's flags is the first shift count in
  the instruction, which may belong to an address (`irtoir.cpp` 1407); shifts
  by a variable count keep the size of a word.
* In those of ARM: adc never sets NF (`irtoir-arm.cpp` 746), and the flags of adcs and
  sbcs do not get through the cast of their mux.
* `I_UNK` is not an instruction of `Math`: `Cpu.run` ends with its KeyError.

## Fairness

`CFGFairSpec` and `DFGFairSpec` assume weak fairness of the whole next-state relation:
the loop is one thread that does not wait for anything, so it takes its next step while
there is one.  Nothing else is assumed, and the safety properties use none of it.

## Proofs

`tlapm` checks, for every value of the constants:

* `MemProofs`: `TypeCorrect` (`Spec => []TypeOK`), `StoresVisible`,
  `ServedRangesStayWhole` and `FlatMemoryImplemented`.  The last three assume `NoStraddle`, the condition on the
  accesses that `mem_word` satisfies: a range the reader
  serves lies in the image, below the allocations, and is apart from or inside every
  other range.  `LastStoreVisible` alone is not inductive: a refill is harmless only
  because a served range is in the dictionary whole or not at all
  (`ServedRangesWhole`), and that needs the allocations above the image.  `IInv` is
  their conjunction with the types.  Each action keeps it because it writes a range that
  contains or avoids each served one (`WroteKeeps`), or refills one with nothing written
  in it (`RefillHarmless`).
* `BlockProofs`: lemmas on which the next three rest, about the blocks `get_bb` makes.  The
  library's induction theorems cannot be used, so the inductions over the code that
  `_get_bb` walks are stated of sets: `NaturalsByOne` (a set that has 0 and is closed under
  adding 1 has every number), `UpTo` and `Iteration` (the same for a bounded range and for
  a value computed step by step), `ListingUnfolds` (a block is its first instruction and
  the block behind it).  They take no operator as a parameter, only sets, and the set is
  defined where the lemma is used.
* `CFGProofs`: `CFGTypeCorrect`, `NothingIsForgotten`, `EdgesAreExact`,
  `OverlappingBlocksAgree`, `GraphCoversExecution`, `TraversalSucceeds` and
  `TraversalFindsReachable`: all that `cfg_all` checks but termination; and
  `TraversalIsBounded` (below).  They assume
  `ProgramsAssumption`: a program is what the translator can produce (below).
  `CFGInv` says that the stack and the
  current address are what remains to be visited, that it was reached along visited
  blocks (for the refinement: only reachable blocks are discovered), that every
  successor is visited or remains (for the other half: nothing is missing at the end), and
  that nothing remains when the loop is over.  `VisitEffect` turns a turn of the loop into
  these sets once; the rest is set algebra.  That the graph covers every execution, and
  that blocks which share an instruction end alike, is then a fact about blocks: one that is
  entered in the middle is the rest of the one around it (`BlockProofs`).
  `TraversalIsBounded` is the measure by which the loop ends: each turn lowers the pair of
  `Unvisited` (instructions that are not nodes yet) and `Effort` in lexicographic order.  `Effort` is
  the sum of what the pending visits can cost: one turn for a block that is new, and for a
  visited one, whose fall-through is pushed again although it is visited, twice
  the number of instructions behind it and three (`Beyond`).  A fall-through lies
  further on, so it costs less than the block that pushes it.  This needs `TargetsExist`: a jump to an
  inum that its machine instruction does not have is answered with a block of the next ones
  (`get_bb` slices the listing), whose fall-through need not be further on.
* `FuncProofs`: `FuncTypeCorrect`, `InsnsAreExact`, `ReturnsAreExact`, `ChunksAreExact`,
  `ChunksAreApart` and `FunctionIsBuilt`: all that `func_all` checks.  `FuncInv` relates the function to the nodes
  visited so far, at every turn and not only at the end: its instructions are those of the
  visited blocks, none twice; its returns are those that end a visited block; its chunks are
  their bytes.  What one call does to each list is a lemma (`WithInsnsAdds`,
  `AddChunkAdds`, `MergeKeepsBytes`); `Sorted` keeps every element since ranks are a
  bijection (`RanksAreAll`, by cardinality).  `ChunksAreApart` needs two things more: where machine
  instructions do not overlap, a block that starts inside the bytes of another one ends with
  it or behind it (`BlocksNest`), so a new range never has an old chunk in its
  middle; then at most one pair of chunks touches after `_add_chunk` (`AddChunkApart`), and the first pass of
  `add_chunk` joins it (`RemergeApart`).
* `DFGProofs`: `DFGTypeCorrect`, `EdgesAreReal`, `EveryInsnIsAnalysed`, `NoFlowIsMissed`, that is
  all that `dfg_flows` checks but termination, and `FlowTraversalIsBounded` (below).  The analysis starts from a finished control
  flow graph, and the theorems take that as a hypothesis, `GraphFinished`: every block of the
  graph is the one `get_bb` makes, and where a block can go on, the graph has a node and
  an edge.  `GraphIsFinished` shows that the hypothesis is met by every code that
  control cannot leave (`StaysInCode`).  Two invariants carry them.  `DFGSound`:
  whatever a pending state, the input of a block or an edge says set a variable does arrive there along some path of the
  code (`ArrivesFrom`, the reference: a chain of instructions that do not
  set it); it is inductive because the passage of a block extends each path by the block (`CarriedAlong`,
  `UsesSound`, `ExitsSound`).  `DFGComplete`: what a block sets itself has been used
  and handed on, and what is in the input of a block either has been
  handed on to each successor or waits on the stack (`NewsGoesOn`); so when the stack is empty the
  inputs are closed under the flow, and a chain from a definition to a use can be
  followed block by block (`FromSetter`).  `FlowTraversalIsBounded` says that each turn lowers
  `TurnsLeft`: three times the pairs of a variable and a setter that blocks do not
  know yet, and the length of the stack.  A turn with news takes one state and leaves at most two more; a turn without news
  takes one.  It assumes that there are finitely many variables.
* `ReilProofs`: `TranslatorTyped`, `NumberingIsWhole`, `JumpsGoSomewhere`, for every set of
  operators, lowering, labels and programs (`EmitsAssumption`: an operator becomes at
  least one instruction; `NamesAssumption`; `ProgramsAssumption`: statements have their
  shape and a move has an operator; `BoundsAssumption`).  That a block's numbers end with
  its end mark is not inductive: the mark is put on long before the block is over, by looking
  ahead.  `IInv` says of the loop that the counter is the number of instructions so far,
  that they are numbered in order, that an end mark is on the last of them only and there
  exactly when no statement that makes one is left, and that a label that has been placed
  is at a number that exists or has statements ahead of it that will make it.
  `AddingCode` is the step all kinds of statement share; `DeliverKeeps` is where the
  labels become numbers.
  `TranslationRunsAsBil` is the refinement `RunsAsBil`.  Beside these assumptions
  it has `BlocksAssumption` (below).  The mapping sends the emulator to the
  statement its instruction was made for (`At`).  `RunInv` adds to `IInv` what code a
  block has so far: `Spot` is the place in the BIL code that a number of the list stands for, the
  number behind the last one standing for the first statement from `cur` on that does anything.
  Each instruction stays at its statement or goes on where the statement goes (`GoesOn`); a
  jump still to be resolved aims at its target by name (`Aims`); a label is at the number that stands for
  its place (`LabelsRight`).  Code for one more statement keeps the places
  (`SpotsStay`, `CodeGrows`), a statement without code moves only the last one
  (`FirstHere`, `Passes`), and when the labels are put in every jump leads where its statement goes
  (`DeliveredImplements`).  Then each instruction that is executed is a step of the BIL
  code or is hidden in one (`StepsRun`): a negated condition takes the false target and falls through
  to the true one (`JccJumps`).  The mark of the end and the counter that is reset are
  needed here: without them the emulator goes on in the wrong place (`FollowingLeads`).
* `StorageProofs`: `StorageTyped`, `OrderIsKept`, `FixingTwiceIsOnce`, `FollowedAreFound`
  and `JumpsAreRelocated`, that is all that `storage_fix` checks, for every set of
  addresses and translations (`TranslationsAssumption`: a translation is a sequence of
  instructions and not empty).  `fix_inums_and_flags` gives an instruction its rank among those
  of its address.  Ranks grow (`RankGrows`), so order is kept and none takes the place of another
  (`RelocatedInjective`); they are an injection between sets of one size, so they
  fill an interval from 0 (`RanksFill`, by cardinality and with no induction), so a second
  fix finds nothing to move and `get_insn` no gap.  `OrderKept` is not inductive: a
  translation is also put over what is left of an earlier one, and that it replaces all of
  it needs the numbers to be no higher than those translated (`AsTranslated`).  That `get_insn`
  does not stop early needs `EndIsLast`: renumbering never leaves an end flag in front of
  another instruction.

* `LowerProofs`: `NoValueIsCut` (`LowerSpec => []NoneCut`), for every set of expressions of any depth and
  all code made of them.  `Cpu.reg` keeps the size a name had first and cuts what is read at a larger
  one, and the lowering makes up names by two counts, so the types of a name must agree
  wherever it comes back.  `NoneCut` says nothing of the registers that are not made yet;
  `LowerInv` does: the size of each register is the type of a result of the code executed so far that has its name,
  or, for one of BIL, its type everywhere (`SizeIsKnown`).  Then the property is about the code alone
  (`IsCode`): two of its arguments with the same name have the same type, or it is the
  condition of a branch, made as one bit under the number of the first instruction of its
  code, whose operator uses that number for its own intermediate result first (`Ends`,
  `OnePerName`; that is why `NoneCut` has `>=`).  Each operator's code is of the instructions' own numbers
  (`OperatorCodeIs`: `Own`), the code of operands goes before it with lower numbers and lower counts
  (`Fits`, `FitsJoin`), and so do the statements before (`CodeUpToIs`).
  `InTemporary` calls itself, and that such a function is what its equation says needs
  induction on the depth: `Level` has it on expressions of limited depth, one level extends the
  one before (`LevelsExist`), and the function takes each value from its level (`LoweringExists`,
  `InTemporaryIs`).  Before it was proved, TLC found `LowerInv` to hold on the instance of `lower_ops`.
  Assumed are the shape of expressions (`ExpsAssumption`) and that a register of BIL has one
  type (`CodesAssumption`): a register of the machine everywhere, a temporary within its machine instruction.

`ProgramsAssumption` (of `CFGTraverse` and `DFGBuild`) says that every program is code the translator produces, `IsCode`: a
machine instruction has a size and its IR instructions in order, the last of them
and no other ends it, and an instruction that jumps ends its block unless it is a call.
`CReilFromBilTranslator` gives `BB_END` to its jumps (`reil_translator.cpp` 1283-1340); the
returns and calls that libasmir marks follow the jump of their instruction
(`irtoir.cpp` 2464-2512), and the target of a return is no constant.  TLC evaluates the assumption on the programs of
each instance.  Whether the targets of jumps exist is not assumed; where a property depends on
it, it is a hypothesis of that property (`TargetsExist`).

`BlocksAssumption` (of `ReilRun`) says of BIL code what irtoir sees to.  A label is placed once:
it is made for its place by `mk_label` (`stmt.cpp` 585-594), which never makes the same
name twice, or it is the mark of the machine instruction.  And where a conditional jump is
followed by a label, the label is one of its two targets: each `new CJmp` of `irtoir.cpp`,
`irtoir-i386.cpp` and `irtoir-arm.cpp` is followed by the label of its true or of its
false target (`translate_exit` returns the label for that).  `process_bil_stmt` depends
on it and does not check it: it compares the label with the true target and takes any other one for the
false target.  A return is marked by `insert_specials` (`irtoir.cpp` 2464-2512) behind the jump that ends
its block, so the mark never comes right behind a move or a conditional jump: there
`Insn.next` would answer None and the emulator could not go on (`Following`).  Jumps to
labels that are nowhere, conditional jumps without a label
behind them and statements and operators that are refused are not excluded.

Left to TLC:

* termination (`Terminates`, `DFGTerminates`): liveness under fairness.  That there
  is a natural number (a pair of them) which each step lowers is proved; that a loop which
  takes its next step while there is one then ends is left;
* the refinement `ExecutesBil` and the flags (`FlagsAsVex`, `ConditionsAsVex`,
  `EflagsAsVex`): they rest on the meaning of expressions, which is recursive, and on
  arithmetic with powers of two and single bits at every width, which the provers cannot
  do.

## Not modelled

* `DFGraph` (constant folding, subexpressions, dead code, store), `SymState` and
  `symbolic.py`: what makes them right is the symbolic meaning of every instruction; a
  model without it would say only that they delete what they delete.  The hazards they
  have are listed in `PROJECT.json`.
* The postprocessing of translated code in `CodeStorageTranslator`, attributes of
  instructions, the file formats of the storages.
* `Cpu.run`'s breakpoints and handlers, `Stack`, `Abi`: conveniences of the tests.
* MongoDB, whose behaviour is outside the repository; the Cython binding, which copies
  structures; readers, scripts and applications, which are I/O around foreign tools; the
  architecture tables.
* In libasmir: the table from VEX operators to BIL operators, which can only be restated;
  the flags and conditional blocks of ARM; the sizes of SHL below a word, SBB and COPY in
  `flags_ops`, where the flags are not those of VEX (above); shifts and rotations by a
  register, whose flags `i386_modify_flags` chooses by the mnemonic (`irtoir-i386.cpp` 2855-2879) and computes at the
  size of a word; AF, which is not claimed.
* In the lowering: casts to the same size, which throw; `<>` as a 1-bit value in the
  middle of an expression at other sizes, which irtoir does not generate.
* VEX and capstone.  They are third-party libraries kept in the tree and make up nearly
  all of its C code; what OpenREIL itself adds is some thousands of lines of C++ and as
  many of Python.  The models stand for a very small share of all the lines of C.

## What comes next

1. `DFGStore`: `DFGraph.store` over `CodeStorage`, with swallowed errors.
2. The postprocessing of `CodeStorageTranslator` over `BilToReil`'s output.
3. The flags of ARM against VEX, in the manner of `X86Flags`.
