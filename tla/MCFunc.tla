------------------------------- MODULE MCFunc -------------------------------
(* The functions of every program of four addresses, entered in the middle.*)
EXTENDS FuncBuild, CodeShapes

MCPrograms == ProgramsOf(0 .. 3, {1, 2}, {0, 3}, {"plain", "jmp", "jcc", "condret", "ret"})
=============================================================================
