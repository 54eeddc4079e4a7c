-------------------------------- MODULE BilMoves --------------------------------
(***************************************************************************)
(* What the BIL statements of a few machine instructions in a row mean:    *)
(* each of them happens at once.  A temporary of a machine instruction is  *)
(* 0 until it is assigned.                                                 *)
(***************************************************************************)
EXTENDS BilMeaning, Sequences

VARIABLES
  code,     (* the code: it does not change                                *)
  at,       (* the machine instruction and the statement                   *)
  env,      (* the registers                                               *)
  mem,      (* the memory                                                  *)
  taken     (* whether the last branch was taken                           *)

movesVars == <<code, at, env, mem, taken>>

Here == code[at[1]][at[2]]
AtStmt(kind) == at[2] \in DOMAIN code[at[1]] /\ Here.kind = kind
After == <<at[1], at[2] + 1>>

IsLocal(n) == n[1] = "t"

MovesInit == at = <<1, 1>> /\ taken = 0

(* A result the emulator cannot be relied on for is any result.            *)
ValuesOf(e) ==
  IF Exact(e, env, mem) THEN {Meaning(e, env, mem)} ELSE 0 .. Mask(TypeOf(e))

Move ==
  /\ AtStmt("move") /\ at' = After
  /\ \E v \in ValuesOf(Here.exp) : env' = [env EXCEPT ![Here.to.name] = v]
  /\ UNCHANGED <<code, mem, taken>>

Store ==
  /\ AtStmt("store") /\ at' = After
  /\ \E a \in ValuesOf(Here.to), v \in ValuesOf(Here.exp) : mem' = [mem EXCEPT ![a] = v]
  /\ UNCHANGED <<code, env, taken>>

Branch ==
  /\ AtStmt("branch") /\ at' = After
  /\ \E v \in ValuesOf(Here.exp) : taken' = IF Here.negate THEN 1 - v ELSE v
  /\ UNCHANGED <<code, env, mem>>

NextInsn ==
  /\ at[2] = Len(code[at[1]]) + 1 /\ at[1] < Len(code)
  /\ at' = <<at[1] + 1, 1>>
  /\ env' = [n \in DOMAIN env |-> IF IsLocal(n) THEN 0 ELSE env[n]]
  /\ UNCHANGED <<code, mem, taken>>

MovesNext == Move \/ Store \/ Branch \/ NextInsn

MovesSpec == MovesInit /\ [][MovesNext]_movesVars
=============================================================================
