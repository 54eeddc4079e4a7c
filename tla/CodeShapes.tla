----------------------------- MODULE CodeShapes -----------------------------
(***************************************************************************)
(* Every small program made of the shapes of machine instructions that     *)
(* libopenreil produces: straight code, calls, jumps, conditional jumps,   *)
(* returns, instructions that loop inside themselves (rep movsb) and       *)
(* instructions with a conditional return (ARM).                           *)
(***************************************************************************)
EXTENDS ReilCode

BB == {"BB_END"}
ASM == {"ASM_END"}
BBASM == {"BB_END", "ASM_END"}

(* The IR of an instruction of a shape at address a, n the next address,   *)
(* with jumps to targets.                                                  *)
IRs(shape, a, n, targets) ==
  CASE shape = "plain"    -> {<<Other(ASM)>>}
    [] shape = "call"     -> {<<Jump(<<t, 0>>, ASM \cup {"CALL"})>> : t \in targets}
    [] shape = "jmp"      -> {<<Jump(<<t, 0>>, BBASM)>> : t \in targets}
    [] shape = "jmpnext"  -> {<<Other({}), Jump(<<n, 0>>, BBASM)>>}
    [] shape = "jcc"      -> {<<Other({}), CondJump(<<t, 0>>, BBASM)>> : t \in targets}
    [] shape = "ret"      -> {<<Other({}), Jump(NoLoc, BBASM \cup {"RET"})>>}
    [] shape = "rep"      -> {<<CondJump(<<n, 0>>, BB), Other({}), Jump(<<a, 0>>, BBASM)>>}
    [] shape = "skip"     -> {<<CondJump(<<a, 2>>, BB), Other({}), Other(ASM)>>}
    [] shape = "condret"  -> {<<CondJump(<<n, 0>>, BB), Jump(NoLoc, BBASM \cup {"RET"})>>}

InsnsAt(a, sizes, targets, shapes) ==
  UNION {{[size |-> s, ir |-> i] : i \in UNION {IRs(sh, a, a + s, targets) : sh \in shapes}} :
           s \in sizes}

(* Every program at addrs.  An address past the last of them cannot be     *)
(* read: a program that falls off its end fails.                           *)
ProgramsOf(addrs, sizes, targets, shapes) ==
  {p \in [addrs -> UNION {InsnsAt(a, sizes, targets, shapes) : a \in addrs}] :
     \A a \in addrs : p[a] \in InsnsAt(a, sizes, targets, shapes)}
=============================================================================
