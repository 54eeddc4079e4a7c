------------------------------- MODULE MCCFG --------------------------------
(***************************************************************************)
(* The control flow traversal over small programs.  Even addresses hold    *)
(* code whose decodings overlap and whose jumps may leave it, odd ones     *)
(* Thumb code, where blocks run through jumps that only keep the mode.     *)
(***************************************************************************)
EXTENDS CFGTraverse, CodeShapes

MCPrograms ==
  ProgramsOf({0, 2, 4}, {2, 4}, {0, 2, 4, 6}, {"plain", "call", "jmp", "jcc", "ret", "rep", "skip"})
  \cup ProgramsOf({1, 3, 5, 7}, {2}, {1, 5, 7}, {"plain", "jmpnext", "jmp", "jcc", "condret"})
=============================================================================
