----------------------------- MODULE FuncBuild ------------------------------
(***************************************************************************)
(* CodeStorageTranslator.get_func of pyopenreil/REIL.py: the traversal of  *)
(* CFGTraverse whose process_node hook adds each new block to a Func, with *)
(* Func.add_bb, add_chunk and _add_chunk.                                  *)
(*                                                                         *)
(* Composition: one iteration of the traversal that visits a new block is  *)
(* one step in which add_bb runs too; an exception of add_bb ends the      *)
(* traversal.                                                              *)
(***************************************************************************)
EXTENDS CFGTraverse, FiniteSets

VARIABLES
  insns,      \* Func: the list of its instructions, by ir_addr
  first,      \* Func.first, NoLoc when it is None
  lasts,      \* Func.last: the return instructions
  chunks,     \* Func.chunks: a sequence of [addr, size]
  stackArgs   \* the return instruction Func.stack_args was computed from

funcVars == <<insns, first, lasts, chunks, stackArgs>>

Chunk(addr, end) == [addr |-> addr, size |-> end - addr]
End(c) == c.addr + c.size

(* The test of Func._add_chunk: an end of the new range is in the chunk or *)
(* touches it.                                                             *)
Overlaps(c, addr, end) ==
  \/ c.addr <= addr /\ addr <= End(c)
  \/ c.addr <= end /\ end <= End(c)

Least(a, b) == IF a <= b THEN a ELSE b
Greatest(a, b) == IF a <= b THEN b ELSE a

(* Fault: a chunk grows at its end only. *)
AddChunkAfter(cs, addr, end) ==
  LET hit == {k \in DOMAIN cs : Overlaps(cs[k], addr, end)}
  IN  IF hit = {} THEN Append(cs, Chunk(addr, end))
      ELSE LET k == CHOOSE h \in hit : \A j \in hit : h <= j
           IN  [cs EXCEPT ![k] = Chunk(@.addr, Greatest(end, End(@)))]

(* Func._add_chunk: grow the first chunk that overlaps, or add a new one. *)
AddChunk(cs, addr, end) ==
  LET hit == {k \in DOMAIN cs : Overlaps(cs[k], addr, end)}
  IN  IF hit = {} THEN Append(cs, Chunk(addr, end))
      ELSE LET k == CHOOSE h \in hit : \A j \in hit : h <= j
           IN  [cs EXCEPT ![k] =
                  Chunk(Least(addr, @.addr), Greatest(end, End(@)))]

(* One pass of the loop of Func.add_chunk: add the chunks to an empty list *)
(* one by one.                                                             *)
Remerge(cs) ==
  LET Added[k \in 0 .. Len(cs)] ==
        IF k = 0 THEN << >> ELSE AddChunk(Added[k - 1], cs[k].addr, End(cs[k]))
  IN  Added[Len(cs)]

(* Fault: chunks that came to touch are left apart. *)
MergeChunksNot(cs) == cs

(* The passes end with the first that merges nothing, and a pass that      *)
(* merges nothing changes nothing: at most one pass a chunk matters.       *)
MergeChunks(cs) ==
  LET Pass[k \in 0 .. Len(cs)] == IF k = 0 THEN cs ELSE Remerge(Pass[k - 1])
  IN  Pass[Len(cs)]

(* The loop of add_bb over the block: an instruction that the list does    *)
(* not have yet is appended.                                               *)
WithInsns(list, bb) ==
  LET Added[k \in 0 .. Len(bb)] ==
        IF k = 0 THEN list
        ELSE IF bb[k] \in Range(Added[k - 1]) THEN Added[k - 1] ELSE Append(Added[k - 1], bb[k])
  IN  Added[Len(bb)]

(* InsnList.sort: by IR address, stable. *)
Before(p, q) == p[1] < q[1] \/ (p[1] = q[1] /\ p[2] < q[2])

Rank(list, i) ==
  Cardinality({j \in DOMAIN list : Before(list[j], list[i]) \/ (list[j] = list[i] /\ j <= i)})

Sorted(list) == [k \in DOMAIN list |-> list[CHOOSE i \in DOMAIN list : Rank(list, i) = k]]

(* A block that ends with a return but starts after the first IR           *)
(* instruction of the machine instruction that returns: get_range finds    *)
(* nothing, and the symbolic state of no instructions is None.             *)
ReturnsFromMiddle(bb) ==
  /\ Has(InsnAt(code, Last(bb)), "RET")
  /\ <<Last(bb)[1], 0>> \notin Range(bb)

(* Fault: every block is taken for the first. *)
AddBBFirst(bb) ==
  /\ first' = Head(bb)
  /\ IF Has(InsnAt(code, Last(bb)), "RET")
       THEN lasts' = lasts \cup {Last(bb)} /\ stackArgs' = Last(bb)
       ELSE UNCHANGED <<lasts, stackArgs>>
  /\ chunks' = MergeChunks(AddChunk(chunks, Head(bb)[1], Head(bb)[1] + BlockSize(code, bb)))
  /\ insns' = WithInsns(insns, bb)

(* Fault: an instruction is added with each block it is in. *)
AddBBTwice(bb) ==
  /\ first' = IF Head(bb) = entry THEN Head(bb) ELSE first
  /\ IF Has(InsnAt(code, Last(bb)), "RET")
       THEN lasts' = lasts \cup {Last(bb)} /\ stackArgs' = Last(bb)
       ELSE UNCHANGED <<lasts, stackArgs>>
  /\ chunks' = MergeChunks(AddChunk(chunks, Head(bb)[1], Head(bb)[1] + BlockSize(code, bb)))
  /\ insns' = insns \o bb

(* Fault: only the return that was met last is kept. *)
AddBBLastReturn(bb) ==
  /\ first' = IF Head(bb) = entry THEN Head(bb) ELSE first
  /\ IF Has(InsnAt(code, Last(bb)), "RET")
       THEN lasts' = {Last(bb)} /\ stackArgs' = Last(bb)
       ELSE UNCHANGED <<lasts, stackArgs>>
  /\ chunks' = MergeChunks(AddChunk(chunks, Head(bb)[1], Head(bb)[1] + BlockSize(code, bb)))
  /\ insns' = WithInsns(insns, bb)

AddBB(bb) ==
  /\ first' = IF Head(bb) = entry THEN Head(bb) ELSE first
  /\ IF Has(InsnAt(code, Last(bb)), "RET")
       THEN /\ lasts' = lasts \cup {Last(bb)}
            /\ stackArgs' = Last(bb)
       ELSE UNCHANGED <<lasts, stackArgs>>
  /\ chunks' = MergeChunks(AddChunk(chunks, Head(bb)[1], Head(bb)[1] + BlockSize(code, bb)))
  /\ insns' = WithInsns(insns, bb)

FuncInit ==
  /\ CFGInit
  /\ insns = << >>
  /\ first = NoLoc
  /\ lasts = {}
  /\ chunks = << >>
  /\ stackArgs = NoLoc

NewBlock == Head(blocks[cur]) \notin nodes

VisitNew ==
  /\ Visit
  /\ NewBlock /\ ~ReturnsFromMiddle(blocks[cur])
  /\ AddBB(blocks[cur])

VisitAgain ==
  /\ Visit
  /\ ~NewBlock
  /\ UNCHANGED funcVars

(* add_bb raises AttributeError after it has recorded the return. *)
AddBBFails ==
  /\ pc = "loop" /\ blocks[cur] # << >>
  /\ NewBlock /\ ReturnsFromMiddle(blocks[cur])
  /\ pc' = "attribute_error"
  /\ nodes' = nodes \cup {Head(blocks[cur])}
  /\ first' = IF Head(blocks[cur]) = entry THEN entry ELSE first
  /\ lasts' = lasts \cup {Last(blocks[cur])}
  /\ UNCHANGED <<code, blocks, entry, cur, stack, edges, insns, chunks, stackArgs>>

(* Func.sort, once the traversal is over. *)
Finish ==
  /\ AddEdges
  /\ insns' = IF pc' = "done" THEN Sorted(insns) ELSE insns
  /\ UNCHANGED <<first, lasts, chunks, stackArgs>>

FuncFail == Fail /\ UNCHANGED funcVars

FuncNext == VisitNew \/ VisitAgain \/ AddBBFails \/ Finish \/ FuncFail

FuncSpec == FuncInit /\ [][FuncNext]_<<cfgVars, funcVars>>

-----------------------------------------------------------------------------
BytesOf(addr, end) == addr .. (end - 1)
ChunkBytes(c) == BytesOf(c.addr, End(c))

FuncTypeOK ==
  /\ Range(insns) \subseteq Positions(code)
  /\ first \in {NoLoc, entry}
  /\ lasts \subseteq Positions(code)
  /\ stackArgs \in lasts \cup {NoLoc}
  /\ \A k \in DOMAIN chunks : chunks[k].size > 0

(* The function holds each instruction an execution can reach, once: the   *)
(* blocks that overlap, because one is entered in the middle by a jump,    *)
(* share their instructions.                                               *)
EachInsnOnce ==
  pc = "done" =>
    /\ Range(insns) = Covered
    /\ Len(insns) = Cardinality(Covered)

(* Every return of the function, and nothing else, is in Func.last, and    *)
(* the count of stack arguments comes from one of them.                    *)
ReturnsKnown ==
  pc = "done" =>
    /\ lasts = {ir \in Covered : Has(InsnAt(code, ir), "RET")}
    /\ lasts # {} => stackArgs \in lasts

(* The chunks are the bytes of the blocks, whatever was merged. *)
ChunksExact ==
  pc = "done" =>
    UNION {ChunkBytes(chunks[k]) : k \in DOMAIN chunks} =
    UNION {BytesOf(n[1], n[1] + BlockSize(code, blocks[n])) : n \in nodes}

(* Chunks that overlap or touch have been merged ("check for overlapping   *)
(* chunks", "merge existing chunks" in Func._add_chunk and add_chunk).     *)
ChunksApart ==
  \A j, k \in DOMAIN chunks :
    j # k => End(chunks[j]) < chunks[k].addr \/ End(chunks[k]) < chunks[j].addr

(* No machine instruction starts inside another one. *)
Aligned == \A a, b \in DOMAIN code : a < b => NextAsm(code, a) <= b

(* The code gives this only when blocks cannot contain one another in the  *)
(* middle, as blocks of overlapping decodings do.                          *)
ChunksApartAligned == Aligned => ChunksApart

(* The function of readable code is built: no exception ends get_func. *)
FunctionBuilt ==
  CodeReadable /\ TargetsExist => pc \in {"loop", "edges", "done"}

(* No block is entered in the middle of a machine instruction that returns:*)
(* it has one block, and no jump goes inside.                              *)
ReturnsWhole ==
  \A ir \in Positions(code) :
    Has(InsnAt(code, ir), "RET") =>
      /\ \A i \in 0 .. (ir[2] - 1) : ~Has(InsnAt(code, <<ir[1], i>>), "BB_END")
      /\ \A p \in Positions(code) :
           JccLoc(code, p) # NoLoc /\ JccLoc(code, p)[1] = ir[1] => JccLoc(code, p)[2] = 0

(* The code gives this for such programs only. *)
FunctionBuiltWhole == ReturnsWhole => FunctionBuilt
=============================================================================
