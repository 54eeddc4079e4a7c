-------------------------------- MODULE LowerRun --------------------------------
(***************************************************************************)
(* The REIL code of machine instructions in a row, made by Lowering and    *)
(* executed by the emulator.  Cpu.run fetches one instruction after the    *)
(* other and removes the temporary registers at the first instruction of   *)
(* each machine instruction, so that their names can be used again.        *)
(***************************************************************************)
EXTENDS ReilCpu

CONSTANTS
  Codes,    (* machine instructions in a row: sequences of sequences of statements *)
  Inputs(_) (* what registers of some types may hold at the start          *)

(* The REIL code of the machine instructions there are.                    *)
Lowered == [stmts \in UNION {{c[i] : i \in DOMAIN c} : c \in Codes} |-> CodeOf(stmts)]

(* The registers of BIL that the code of a machine instruction names.      *)
BilRegisters(stmts) ==
  {x \in UNION {Arguments(Lowered[stmts][j].insn) : j \in DOMAIN Lowered[stmts]} : x.k = "reg" /\ ~ Made(x)}

IsStmt(s) ==
  /\ s.kind \in {"move", "store", "branch"} /\ s.exp \in Exps
  /\ s.kind = "move" => s.to \in Exps /\ s.to.k = "reg"
  /\ s.kind = "store" => s.to \in Exps
  /\ s.kind = "branch" => s.negate \in BOOLEAN

(* Codes are made of statements.  A register has one type; a temporary of  *)
(* a machine instruction has one there.                                    *)
ASSUME CodesAssumption ==
  \A c \in Codes :
    /\ c # <<>> /\ c \in Seq({c[i] : i \in DOMAIN c})
    /\ \A i \in DOMAIN c :
         /\ c[i] \in Seq({c[i][j] : j \in DOMAIN c[i]})
         /\ \A j \in DOMAIN c[i] : IsStmt(c[i][j])
         /\ \A h \in DOMAIN c : \A x \in BilRegisters(c[i]), y \in BilRegisters(c[h]) :
              x.name = y.name /\ (h = i \/ ~ Temporary(x.name)) => x.typ = y.typ

VARIABLES
  code,     (* the machine instructions: they do not change                *)
  types,    (* the types of their registers                                *)
  n,        (* the machine instruction                                     *)
  reil,     (* its REIL code                                               *)
  inum,     (* the next instruction, from 1                                *)
  regs,     (* Cpu.regs                                                    *)
  mem,      (* the memory                                                  *)
  taken     (* whether the last JCC was taken                              *)

lowerVars == <<code, types, n, reil, inum, regs, mem, taken>>

TypesOf(c) ==
  LET rs == UNION {BilRegisters(c[i]) : i \in DOMAIN c}
  IN [m \in {x.name : x \in rs} |-> (CHOOSE x \in rs : x.name = m).typ]

LowerInit ==
  /\ code \in Codes /\ types = TypesOf(code) /\ n = 1 /\ reil = Lowered[code[1]] /\ inum = 1
  /\ \E env \in Inputs(types) :
       regs = [r \in {m \in DOMAIN types : ~ Temporary(m)} |-> [size |-> types[r], val |-> env[r]]]
  /\ mem = [a \in 0 .. Mask("U8") |-> Mask("U8") - a]
  /\ taken = 0

AtOp(ops) == inum \in DOMAIN reil /\ reil[inum].insn.op \in ops
Now == reil[inum].insn

(* Cpu.insn_stm.                                                           *)
ExecStm ==
  /\ AtOp({"STM"}) /\ inum' = inum + 1
  /\ mem' = [mem EXCEPT ![Value(regs, Now.c)] = Value(regs, Now.a)]
  /\ UNCHANGED <<code, types, n, reil, regs, taken>>

(* Cpu.insn_ldm.                                                           *)
ExecLdm ==
  /\ AtOp({"LDM"}) /\ inum' = inum + 1
  /\ regs' = Write(regs, Now.c, mem[Value(regs, Now.a)])
  /\ UNCHANGED <<code, types, n, reil, mem, taken>>

(* Cpu.insn_jcc.                                                           *)
ExecJcc ==
  /\ AtOp({"JCC"}) /\ inum' = inum + 1
  /\ taken' = B(Value(regs, Now.a) # 0)
  /\ UNCHANGED <<code, types, n, reil, regs, mem>>

(* Cpu.insn_other.                                                         *)
ExecOther ==
  /\ inum \in DOMAIN reil /\ Now.op \notin {"STM", "LDM", "JCC"} /\ inum' = inum + 1
  /\ \E v \in Evaluated(Now.op, regs, Now.a, Now.b) : regs' = Write(regs, Now.c, v)
  /\ UNCHANGED <<code, types, n, reil, mem, taken>>

(* Fault: the temporary registers are not removed.                         *)
NextInsnKeeps ==
  /\ inum = Len(reil) + 1 /\ reil # <<>> /\ n < Len(code)
  /\ n' = n + 1 /\ reil' = Lowered[code[n + 1]] /\ inum' = 1
  /\ UNCHANGED <<code, types, regs, mem, taken>>

(* The first instruction of the next machine instruction.                  *)
NextInsn ==
  /\ inum = Len(reil) + 1 /\ reil # <<>> /\ n < Len(code)
  /\ n' = n + 1 /\ reil' = Lowered[code[n + 1]] /\ inum' = 1
  /\ regs' = ResetTemp(regs)
  /\ UNCHANGED <<code, types, mem, taken>>

LowerNext == ExecStm \/ ExecLdm \/ ExecJcc \/ ExecOther \/ NextInsn

LowerSpec == LowerInit /\ [][LowerNext]_lowerVars

-----------------------------------------------------------------------------
(* No register of the next instruction was made smaller than it is named:  *)
(* the emulator keeps the size a name had first, and would cut the value.  *)
(* A temporary's name does come back at another size, in the next machine  *)
(* instruction and as the condition of a branch.                           *)
NoneCut ==
  inum \in DOMAIN reil =>
    \A x \in Arguments(Now) : Named(regs, x) => Bits[regs[x.name].size] >= Bits[x.typ]
=============================================================================
