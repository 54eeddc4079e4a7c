------------------------------ MODULE LowerMoves ------------------------------
(***************************************************************************)
(* What the REIL code of BIL statements is for: that executing it does     *)
(* what the statements mean.                                               *)
(***************************************************************************)
EXTENDS LowerRun, BilMeaning

(* The BIL registers as the emulator has them.                             *)
Env == [m \in DOMAIN types |-> Value(regs, Reg(m, types[m]))]

Moves == INSTANCE BilMoves WITH
  at <- <<n, IF inum \in DOMAIN reil THEN reil[inum].stmt ELSE IF reil = <<>> THEN 1 ELSE Len(code[n]) + 1>>,
  env <- Env

(* Executing the code of a BIL statement is executing the statement, at    *)
(* its last instruction: no instruction before it touches a register, the  *)
(* memory or a branch, also where the result is one of the operands, and   *)
(* no temporary of another statement or machine instruction is in the way. *)
ExecutesBil == Moves!MovesSpec
=============================================================================
