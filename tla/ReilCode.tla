------------------------------ MODULE ReilCode ------------------------------
(***************************************************************************)
(* REIL code as the control flow analyses of pyopenreil/REIL.py see it.    *)
(*                                                                         *)
(* code is a function from the addresses of machine instructions to what   *)
(* the storage returns for them: their size in bytes and the sequence of   *)
(* IR instructions they were translated to.  It is a function because      *)
(* CodeStorageTranslator.get_insn translates an address once and returns   *)
(* the stored translation ever after.  An IR instruction is identified by  *)
(* its IR address <<addr, inum>>, inum counting from 0.                    *)
(*                                                                         *)
(* Of an IR instruction only what drives the control flow is kept: whether *)
(* it is I_JCC, whether its condition is a non-zero constant, its target   *)
(* when that is a constant or a location (NoLoc otherwise) and its flags.  *)
(* An address outside of the domain of code is one that cannot be read or  *)
(* translated.                                                             *)
(***************************************************************************)
EXTENDS Integers, FiniteSets, SequencesExt

NoLoc == << >>

Flags == {"CALL", "RET", "BB_END", "ASM_END"}

(* An instruction that is not a jump, and the jumps. *)
Other(flags) == [jcc |-> FALSE, always |-> FALSE, target |-> NoLoc, flags |-> flags]
Jump(target, flags) == [jcc |-> TRUE, always |-> TRUE, target |-> target, flags |-> flags]
CondJump(target, flags) == [jcc |-> TRUE, always |-> FALSE, target |-> target, flags |-> flags]

(* What the translator gives for a machine instruction: IR instructions,   *)
(* the last of them and no other with ASM_END; a jump ends a block unless  *)
(* it is a call; the mark of a return is on a jump, to where the register  *)
(* or the stack says.                                                      *)
IsTranslation(t) ==
  /\ t.size \in Nat \ {0}
  /\ t.ir # << >> /\ t.ir \in Seq({t.ir[i] : i \in DOMAIN t.ir})
  /\ \A i \in DOMAIN t.ir :
       LET insn == t.ir[i]
       IN  /\ insn.jcc \in BOOLEAN /\ insn.always \in BOOLEAN /\ insn.flags \subseteq Flags
           /\ insn.target \in (Nat \X Nat) \cup {NoLoc}
           /\ "ASM_END" \in insn.flags <=> i = Len(t.ir)
           /\ insn.jcc => ("BB_END" \in insn.flags <=> "CALL" \notin insn.flags)
           /\ "RET" \in insn.flags =>
                insn.jcc /\ "BB_END" \in insn.flags /\ insn.target = NoLoc

IsCode(code) ==
  /\ DOMAIN code # {} /\ DOMAIN code \subseteq Nat /\ IsFiniteSet(DOMAIN code)
  /\ \A a \in DOMAIN code : IsTranslation(code[a])

Has(insn, flag) == flag \in insn.flags

InsnAt(code, ir) == code[ir[1]].ir[ir[2] + 1]

IsPosition(code, ir) == ir[1] \in DOMAIN code /\ ir[2] \in 0 .. (Len(code[ir[1]].ir) - 1)

Positions(code) ==
  UNION {{<<a, i>> : i \in 0 .. (Len(code[a].ir) - 1)} : a \in DOMAIN code}

NextAsm(code, addr) == addr + code[addr].size

(* Insn.next: where control goes when the jump, if any, is not taken. *)
NextOf(code, ir) ==
  LET insn == InsnAt(code, ir)
  IN  IF Has(insn, "RET") \/ (insn.jcc /\ insn.always /\ ~Has(insn, "CALL"))
        THEN NoLoc
        ELSE IF Has(insn, "ASM_END")
               THEN <<NextAsm(code, ir[1]), 0>>
               ELSE <<ir[1], ir[2] + 1>>

(* Insn.jcc_loc: where a jump goes when its target is known. *)
JccLoc(code, ir) ==
  LET insn == InsnAt(code, ir) IN IF insn.jcc THEN insn.target ELSE NoLoc

(* BasicBlock.get_successors of the block that ends at ir *)
Succs(code, ir) == {NextOf(code, ir), JccLoc(code, ir)} \ {NoLoc}

-----------------------------------------------------------------------------
(***************************************************************************)
(* CFGraphBuilder._get_bb and get_bb.                                      *)
(***************************************************************************)
MaxOf(S) == CHOOSE m \in S : \A n \in S : n <= m

(* A Thumb jump that only propagates the mode bit to the next instruction  *)
(* does not end a block: its IOPT_BB_END is deleted.  thumb says that the  *)
(* code is ARM code at odd addresses.                                      *)
ThumbPropagation(code, thumb, addr) ==
  LET insn == Last(code[addr].ir)
  IN  /\ thumb /\ addr % 2 = 1 /\ NextAsm(code, addr) % 2 = 1
      /\ insn.jcc /\ insn.always /\ Has(insn, "ASM_END")
      /\ insn.target = <<NextAsm(code, addr), 0>>

EndsAsmBlock(code, thumb, addr) ==
  /\ Has(Last(code[addr].ir), "BB_END")
  /\ ~ThumbPropagation(code, thumb, addr)

(* Fault: only the end of a machine instruction ends a block. *)
EndsBlockAsm(code, thumb, ir) ==
  /\ Has(InsnAt(code, ir), "BB_END")
  /\ ~IsPosition(code, <<ir[1], ir[2] + 1>>)
  /\ EndsAsmBlock(code, thumb, ir[1])

EndsBlock(code, thumb, ir) ==
  /\ Has(InsnAt(code, ir), "BB_END")
  /\ IsPosition(code, <<ir[1], ir[2] + 1>>) \/ EndsAsmBlock(code, thumb, ir[1])

(* What get_insn gives for an address: its IR instructions in order. *)
InsnList(code, addr) == [i \in DOMAIN code[addr].ir |-> <<addr, i - 1>>]

(* The IR instructions _get_bb collects from an address on, in order, or   *)
(* the empty sequence when it meets an address that cannot be translated.  *)
Listing(code, thumb, addr) ==
  LET Run[a \in 0 .. MaxOf(DOMAIN code)] ==
        IF a \notin DOMAIN code THEN << >>
        ELSE IF EndsAsmBlock(code, thumb, a) THEN InsnList(code, a)
        ELSE IF NextAsm(code, a) > MaxOf(DOMAIN code) \/ Run[NextAsm(code, a)] = << >>
               THEN << >>
               ELSE InsnList(code, a) \o Run[NextAsm(code, a)]
  IN  IF addr \in DOMAIN code THEN Run[addr] ELSE << >>

(* Fault: the block starts at the machine instruction, whatever the inum. *)
BlockFromAsm(code, thumb, ir) ==
  LET list == Listing(code, thumb, ir[1])
      ends == {k \in (ir[2] + 1) .. Len(list) : EndsBlock(code, thumb, list[k])}
  IN  IF ends = {} THEN << >>
      ELSE SubSeq(list, 1, CHOOSE k \in ends : \A m \in ends : k <= m)

(* get_bb: the IR addresses of the block, from position inum of the        *)
(* listing to the first end of a block; empty when there is none.  The     *)
(* listing is indexed by inum, so an inum past the end of its machine      *)
(* instruction denotes an instruction of a later one.                      *)
Block(code, thumb, ir) ==
  LET list == Listing(code, thumb, ir[1])
      ends == {k \in (ir[2] + 1) .. Len(list) : EndsBlock(code, thumb, list[k])}
  IN  IF ends = {} THEN << >>
      ELSE SubSeq(list, ir[2] + 1, CHOOSE k \in ends : \A m \in ends : k <= m)

(* BasicBlock.size: from the address of its first instruction to the end   *)
(* of the machine instruction of its last one.                             *)
BlockSize(code, block) == NextAsm(code, Last(block)[1]) - Head(block)[1]
=============================================================================
