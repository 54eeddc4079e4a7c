------------------------------- MODULE MCDFG --------------------------------
(***************************************************************************)
(* Every small program over a register r and a flag f whose addresses are  *)
(* consecutive, in the shapes below.  The last instruction returns, so     *)
(* every program stays in its code.                                        *)
(***************************************************************************)
EXTENDS DFGBuild

CONSTANTS
  LastAddr,   \* bound: the machine instructions are 0..LastAddr
  Shapes      \* the shapes this instance is made of

Insn(s, d, flags) == Other(flags) @@ [src |-> s, dst |-> d]
Go(s, t, flags) == Jump(t, flags) @@ [src |-> s, dst |-> {}]
GoIf(s, t, flags) == CondJump(t, flags) @@ [src |-> s, dst |-> {}]

ASM == {"ASM_END"}
BBASM == {"BB_END", "ASM_END"}

IRs(shape) ==
  CASE shape = "def"    -> {<<Insn({}, {"r"}, ASM)>>}
    [] shape = "inc"    -> {<<Insn({"r"}, {"r", "f"}, ASM)>>}
    [] shape = "call"   -> {<<Go({}, <<t, 0>>, ASM \cup {"CALL"})>> : t \in 1 .. LastAddr}
    [] shape = "jmp"    -> {<<Go({}, <<t, 0>>, BBASM)>> : t \in 1 .. LastAddr}
    [] shape = "defjmp" -> {<<Insn({}, {"r"}, {}), Go({}, <<t, 0>>, BBASM)>> : t \in 1 .. LastAddr}
    [] shape = "jcc"    -> {<<GoIf({"f"}, <<t, 0>>, BBASM)>> : t \in 0 .. LastAddr}
    [] shape = "tstjcc" -> {<<Insn({"r"}, {"f"}, {}), GoIf({"f"}, <<t, 0>>, BBASM)>> : t \in 0 .. LastAddr}
    [] shape = "ret"    -> {<<Insn({"r"}, {}, {}), Go({}, NoLoc, BBASM \cup {"RET"})>>}

Machine(shapes) == {[size |-> 1, ir |-> i] : i \in UNION {IRs(sh) : sh \in shapes}}

MCPrograms ==
  {p \in [0 .. LastAddr -> Machine(Shapes \cup {"ret"})] : p[LastAddr] \in Machine({"ret"})}
=============================================================================
