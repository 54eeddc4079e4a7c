------------------------------ MODULE BilToReil ------------------------------
(***************************************************************************)
(* CReilFromBilTranslator of libopenreil: one machine instruction comes    *)
(* as a list of BIL statements and leaves as REIL instructions numbered    *)
(* from 0, the last of them marked as the end of the machine instruction.  *)
(* BIL jumps name labels; REIL jumps name an address and a number, and the *)
(* numbers are known only when everything in front has been lowered.  The  *)
(* translator object is used again for the next machine instruction, also  *)
(* after a translation that ended with an exception.                       *)
(*                                                                         *)
(* A BIL statement is a record [kind, ops, to, els].  ops are the          *)
(* operators of its expression in the order process_bil_inst lowers them,  *)
(* operands before the operator that takes them.  to is the name of a      *)
(* label, the target of a jump or the text of a special statement, els the *)
(* false target of a conditional jump.                                     *)
(***************************************************************************)
EXTENDS Integers, Sequences

CONSTANTS
  Ops,        (* what a BIL expression node can be                         *)
  Emits,      (* how many REIL instructions an operator is lowered to      *)
  Refused,    (* operators process_bil_inst has no REIL for                *)
  Names,      (* label names                                               *)
  Programs,   (* machine code: the BIL blocks of instructions in a row     *)
  MaxArgs     (* bound on the operands of an instruction VEX does not know *)

(* A jump goes to a label, to another machine instruction, or to the       *)
(* address in a register.                                                  *)
Targets == Names \cup {"pc", "reg"}

Specials == {"call", "ret", "unknown", "syscall"}

Stmt == [kind : {"move", "jmp", "cjmp", "note", "call", "return"}, ops : Seq(Ops), to : Targets, els : Targets]
        \cup [kind : {"label"}, ops : Seq(Ops), to : Names, els : Targets]
        \cup [kind : {"special"}, ops : Seq(Ops), to : Specials, els : Targets]

ASSUME EmitsAssumption == Emits \in [Ops -> Nat \ {0}] /\ Refused \subseteq Ops
ASSUME NamesAssumption == Names \cap {"pc", "reg"} = {}
ASSUME ProgramsAssumption ==
  /\ Programs \subseteq Seq(Seq(Stmt))
  /\ \A p \in Programs : \A n \in DOMAIN p : \A i \in DOMAIN p[n] :
       p[n][i].kind = "move" => p[n][i].ops # <<>>
ASSUME BoundsAssumption == MaxArgs \in Nat

VARIABLES
  phase,      (* between calls, in the loop over the statements, at _end,  *)
              (* or left by an exception                                   *)
  block,      (* current_block                                             *)
  cur,        (* current_stmt, counted from 1                              *)
  lowered,    (* how many operators of that statement have been lowered    *)
  insts,      (* translated_insts                                          *)
  labels,     (* translated_labels                                         *)
  instCount,  (* inst_count                                                *)
  delivered,  (* what inst_handler was given for this machine instruction  *)
  todo        (* the machine instructions that are still to be translated  *)

bilVars == <<phase, block, cur, lowered, insts, labels, instCount, delivered, todo>>

(* Where a REIL jump goes: to an instruction of the same machine           *)
(* instruction, to the machine instruction that follows it in memory, to   *)
(* another one, to the address in a register, or (until _end) to a name.   *)
Here(n)  == [at |-> "here", inum |-> n, name |-> "-"]
NextInsn == [at |-> "next", inum |-> 0, name |-> "-"]
OtherPc  == [at |-> "pc", inum |-> 0, name |-> "-"]
InReg    == [at |-> "reg", inum |-> 0, name |-> "-"]
Named(l) == [at |-> "name", inum |-> 0, name |-> l]
NoWhere  == [at |-> "none", inum |-> 0, name |-> "-"]

(* A REIL instruction; when tells when a jump is taken: always, or with    *)
(* the condition of the BIL statement or its negation in the register.     *)
(* stmt, the statement it comes from, is not in the code.                  *)
Insn(n, op, flags, to, when, s) ==
  [inum |-> n, op |-> op, flags |-> flags, to |-> to, when |-> when, stmt |-> s]

Locs == [at : {"here", "next", "pc", "reg", "name", "none"}, inum : Nat, name : Names \cup {"-"}]

Label == [name : Names, loc : Locs]

ReilInsn ==
  [inum : Nat, op : {"op", "jcc", "none", "unk"}, flags : SUBSET {"end", "bb", "call", "ret"},
   to : Locs, when : {"-", "always", "true", "false"}, stmt : Nat]

-----------------------------------------------------------------------------
(* Fault: the scan for later statements does not look for plain jumps.     *)
IsLastButJumps(i) == \A n \in i + 1 .. Len(block) : block[n].kind \notin {"move", "cjmp"}

(* IOPT_ASM_END: no statement that makes an instruction comes after i.     *)
IsLast(i) == \A n \in i + 1 .. Len(block) : block[n].kind \notin {"move", "cjmp", "jmp"}

(* The options of the statement at i, the mark of a special statement that *)
(* follows it included.                                                    *)
StmtFlags(i) ==
  {f \in {"end"} : IsLast(i)} \cup
  {f \in {"call", "ret"} : i < Len(block) /\ block[i + 1].kind = "special" /\ block[i + 1].to = f}

(* A jump that is not a call ends a basic block.                           *)
JumpFlags(i) == StmtFlags(i) \cup {f \in {"bb"} : "call" \notin StmtFlags(i)}

(* get_bil_label: a label behind the last instruction is the next machine  *)
(* instruction; the others are looked up at the end.                       *)
TargetOf(t) ==
  CASE t = "pc" -> OtherPc
    [] t = "reg" -> InReg
    [] \E i \in DOMAIN block : block[i].kind = "label" /\ block[i].to = t /\ IsLast(i) -> NextInsn
    [] OTHER -> Named(t)

(* Fault: the label is behind the instruction it stands in front of.       *)
LabelLocAfter(i) == IF IsLast(i) THEN NextInsn ELSE Here(instCount + 1)

(* Where the label at i is.                                                *)
LabelLoc(i) == IF IsLast(i) THEN NextInsn ELSE Here(instCount)

-----------------------------------------------------------------------------
BilInit ==
  /\ phase = "idle" /\ block = <<>> /\ cur = 0 /\ lowered = 0
  /\ insts = <<>> /\ labels = <<>> /\ instCount = 0
  /\ delivered = <<>> /\ todo \in Programs

(* Fault: the counter of instructions is not reset.                        *)
ResetStateKeepsCount(b) ==
  /\ block' = b /\ cur' = 1 /\ lowered' = 0
  /\ insts' = <<>> /\ labels' = <<>> /\ UNCHANGED instCount

(* reset_state at the head of process_bil.                                 *)
ResetState(b) ==
  /\ block' = b /\ cur' = 1 /\ lowered' = 0
  /\ insts' = <<>> /\ labels' = <<>> /\ instCount' = 0

IsUnknown(b) == \E i \in DOMAIN b : b[i].kind = "special" /\ b[i].to = "unknown"

Start ==
  /\ phase \in {"idle", "failed"} /\ todo # <<>>
  /\ ResetState(Head(todo))
  /\ phase' = IF IsUnknown(Head(todo)) THEN "unknown" ELSE "stmts"
  /\ delivered' = <<>> /\ todo' = Tail(todo)

(* process_unknown_insn: one I_UNK for each operand, or one without.       *)
UnknownInsn(args) ==
  /\ phase = "unknown"
  /\ LET n == IF args = 0 THEN 1 ELSE args
     IN insts' = [k \in 1 .. n |-> Insn(k - 1, "unk", {f \in {"end"} : k = n}, NoWhere, "-", 1)]
  /\ phase' = "resolve"
  /\ UNCHANGED <<block, cur, lowered, labels, instCount, delivered, todo>>

AtStmt(kind) == phase = "stmts" /\ cur \in DOMAIN block /\ block[cur].kind = kind

NextStmt == cur' = cur + 1 /\ lowered' = 0

(* Fault: the first instruction gets the number before.                    *)
CodeFromBefore(op, flags) ==
  [k \in 1 .. Emits[op] |->
     Insn(instCount + k - 2, "op", IF k = Emits[op] THEN flags ELSE {}, NoWhere, "-", cur)]

(* The REIL instructions of an operator: the options of the statement are  *)
(* on the last one.                                                        *)
Code(op, flags) ==
  [k \in 1 .. Emits[op] |->
     Insn(instCount + k - 1, "op", IF k = Emits[op] THEN flags ELSE {}, NoWhere, "-", cur)]

(* One call of process_bil_inst for an operator of a MOVE or of the        *)
(* condition of a CJMP.  Nested operators have no options of their own.    *)
LowerOp ==
  /\ AtStmt("move") \/ AtStmt("cjmp")
  /\ lowered < Len(block[cur].ops)
  /\ LET s == block[cur]
         op == s.ops[lowered + 1]
         whole == s.kind = "move" /\ lowered + 1 = Len(s.ops)
     IN /\ op \notin Refused
        /\ insts' = insts \o Code(op, IF whole THEN StmtFlags(cur) ELSE {})
        /\ instCount' = instCount + Emits[op]
        /\ IF whole THEN NextStmt ELSE lowered' = lowered + 1 /\ UNCHANGED cur
  /\ UNCHANGED <<phase, block, labels, delivered, todo>>

(* An operator or a cast without REIL throws CReilTranslatorException.     *)
RefuseOp ==
  /\ AtStmt("move") \/ AtStmt("cjmp")
  /\ lowered < Len(block[cur].ops)
  /\ block[cur].ops[lowered + 1] \in Refused
  /\ phase' = "failed"
  /\ UNCHANGED <<block, cur, lowered, insts, labels, instCount, delivered, todo>>

JmpStmt ==
  /\ AtStmt("jmp")
  /\ insts' = Append(insts, Insn(instCount, "jcc", JumpFlags(cur), TargetOf(block[cur].to), "always", cur))
  /\ instCount' = instCount + 1
  /\ NextStmt
  /\ UNCHANGED <<phase, block, labels, delivered, todo>>

IsNextLabel(t) == block[cur + 1].kind = "label" /\ block[cur + 1].to = t

(* Fault: the false target is taken with the condition as it is.           *)
CJmpCodeNotNegated ==
  LET s == block[cur]
  IN <<Insn(instCount, "jcc", StmtFlags(cur) \cup {"bb"},
            TargetOf(IF IsNextLabel(s.to) THEN s.els ELSE s.to), "true", cur)>>

(* The JCC of a conditional jump whose condition is in a register.  It     *)
(* falls through to the label that follows: when that is the true target,  *)
(* the condition is negated and the jump is to the false one.              *)
CJmpCode ==
  LET s == block[cur]
      flags == StmtFlags(cur) \cup {"bb"}
  IN IF IsNextLabel(s.to)
     THEN <<Insn(instCount, "op", {}, NoWhere, "-", cur),
            Insn(instCount + 1, "jcc", flags, TargetOf(s.els), "false", cur)>>
     ELSE <<Insn(instCount, "jcc", flags, TargetOf(s.to), "true", cur)>>

(* What is_next_insn_label and get_bil_stmt insist on: the next statement  *)
(* is a label, the targets asked about are names, and not both are it.     *)
CJmpAccepted ==
  /\ cur + 1 \in DOMAIN block /\ block[cur + 1].kind = "label"
  /\ block[cur].to # "reg"
  /\ IsNextLabel(block[cur].to) => block[cur].els # "reg" /\ ~ IsNextLabel(block[cur].els)

CJmpStmt ==
  /\ AtStmt("cjmp") /\ lowered = Len(block[cur].ops)
  /\ CJmpAccepted
  /\ insts' = insts \o CJmpCode
  /\ instCount' = instCount + Len(CJmpCode)
  /\ NextStmt
  /\ UNCHANGED <<phase, block, labels, delivered, todo>>

CJmpRefused ==
  /\ AtStmt("cjmp") /\ lowered = Len(block[cur].ops)
  /\ ~ CJmpAccepted
  /\ phase' = "failed"
  /\ UNCHANGED <<block, cur, lowered, insts, labels, instCount, delivered, todo>>

LabelStmt ==
  /\ AtStmt("label")
  /\ labels' = Append(labels, [name |-> block[cur].to, loc |-> LabelLoc(cur)])
  /\ NextStmt
  /\ UNCHANGED <<phase, block, insts, instCount, delivered, todo>>

SkipStmt ==
  /\ AtStmt("special") \/ AtStmt("note")
  /\ NextStmt
  /\ UNCHANGED <<phase, block, insts, labels, instCount, delivered, todo>>

(* CALL and RETURN, which irtoir makes only when its options ask for calls *)
(* and returns or for thunks of flags, throw as well.                      *)
RefuseStmt ==
  /\ AtStmt("call") \/ AtStmt("return")
  /\ phase' = "failed"
  /\ UNCHANGED <<block, cur, lowered, insts, labels, instCount, delivered, todo>>

(* A block that made no instruction gets one I_NONE.                       *)
EndOfStmts ==
  /\ phase = "stmts" /\ cur = Len(block) + 1
  /\ insts' = IF instCount = 0 THEN <<Insn(0, "none", {"end"}, NoWhere, "-", 1)>> ELSE insts
  /\ phase' = "resolve"
  /\ UNCHANGED <<block, cur, lowered, labels, instCount, delivered, todo>>

(* The first of the labels with the name.                                  *)
LocOf(l) == labels[CHOOSE i \in DOMAIN labels :
                     labels[i].name = l /\ \A j \in 1 .. i - 1 : labels[j].name # l].loc

IsNamed(l) == \E i \in DOMAIN labels : labels[i].name = l

Resolved == [j \in DOMAIN insts |->
               IF insts[j].to.at = "name"
               THEN [insts[j] EXCEPT !.to = LocOf(insts[j].to.name)] ELSE insts[j]]

(* The labels are put in, and only then the handler gets the instructions. *)
Deliver ==
  /\ phase = "resolve"
  /\ \A j \in DOMAIN insts : insts[j].to.at = "name" => IsNamed(insts[j].to.name)
  /\ delivered' = Resolved
  /\ block' = <<>> /\ cur' = 0 /\ lowered' = 0
  /\ insts' = <<>> /\ labels' = <<>> /\ instCount' = 0
  /\ phase' = "idle"
  /\ UNCHANGED todo

Unresolved ==
  /\ phase = "resolve"
  /\ \E j \in DOMAIN insts : insts[j].to.at = "name" /\ ~ IsNamed(insts[j].to.name)
  /\ phase' = "failed"
  /\ UNCHANGED <<block, cur, lowered, insts, labels, instCount, delivered, todo>>

(* One step inside process_bil.                                            *)
Lower ==
  \/ \E args \in 0 .. MaxArgs : UnknownInsn(args)
  \/ LowerOp \/ RefuseOp \/ JmpStmt \/ CJmpStmt \/ CJmpRefused
  \/ LabelStmt \/ SkipStmt \/ RefuseStmt \/ EndOfStmts \/ Unresolved

BilNext == Start \/ Lower \/ Deliver

(* Types, and the counter that numbers the instructions.                   *)
BilTypeOK ==
  /\ phase \in {"idle", "unknown", "stmts", "resolve", "failed"}
  /\ block \in Seq(Stmt) /\ todo \in Seq(Seq(Stmt))
  /\ cur \in Nat /\ lowered \in Nat /\ instCount \in Nat
  /\ insts \in Seq(ReilInsn) /\ delivered \in Seq(ReilInsn)
  /\ labels \in Seq(Label)

(* The instructions of a machine instruction are numbered 0, 1, 2, ... in  *)
(* the order they are given to the handler, the last of them and no other  *)
(* has IOPT_ASM_END, and a failed translation gives none.  The storages    *)
(* find them by this numbering and Insn.next goes by the mark.             *)
NumberedToTheEnd ==
  \A j \in DOMAIN delivered :
    /\ delivered[j].inum = j - 1
    /\ "end" \in delivered[j].flags <=> j = Len(delivered)

(* Every jump that is given to the handler has been resolved, and one into *)
(* its own machine instruction goes to an instruction that exists, also    *)
(* when its label is behind the last statement that makes any.             *)
JumpsResolved ==
  \A j \in DOMAIN delivered :
    /\ delivered[j].to.at # "name"
    /\ delivered[j].to.at = "here" => delivered[j].to.inum < Len(delivered)

BilSpec == BilInit /\ [][BilNext]_bilVars
=============================================================================
