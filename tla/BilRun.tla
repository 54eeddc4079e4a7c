------------------------------- MODULE BilRun --------------------------------
(***************************************************************************)
(* What a piece of BIL code means, as far as its control flow goes: the    *)
(* statements are executed one after the other, and a jump goes to the     *)
(* statement behind the label it names.  This is what REIL code made from  *)
(* it has to do, whatever its own numbering is.                            *)
(***************************************************************************)
EXTENDS Naturals, Sequences

CONSTANT Stmts  (* the BIL statements *)

VARIABLES
  code,   (* the block of statements                                       *)
  at,     (* where the execution is                                        *)
  cond    (* the condition of the last conditional jump                    *)

runVars == <<code, at, cond>>

AtStmt(i)  == [at |-> "stmt", stmt |-> i]
Out(where) == [at |-> where, stmt |-> 0]

Acts(c, i) == c[i].kind \in {"move", "jmp", "cjmp"}

(* The first statement from i on that does something; behind the last one  *)
(* is the next machine instruction.                                        *)
FirstFrom(c, i) ==
  IF \E n \in i .. Len(c) : Acts(c, n)
  THEN AtStmt(CHOOSE n \in i .. Len(c) : Acts(c, n) /\ \A k \in i .. n - 1 : ~ Acts(c, k))
  ELSE Out("next")

Labelled(c, l) == CHOOSE i \in DOMAIN c : c[i].kind = "label" /\ c[i].to = l

Goto(c, t) == IF t \in {"pc", "reg"} THEN Out(t) ELSE FirstFrom(c, Labelled(c, t))

Known(c) == \A i \in DOMAIN c : ~ (c[i].kind = "special" /\ c[i].to = "unknown")

RunInit == code = <<>> /\ at = Out("idle") /\ cond = "-"

Load ==
  /\ at.at # "stmt" /\ code' \in Seq(Stmts) /\ cond' = "-"
  /\ at' = IF Known(code') THEN FirstFrom(code', 1) ELSE Out("unknown")

Unload == code' = <<>> /\ at' = Out("idle") /\ cond' = "-"

Move ==
  /\ at.at = "stmt" /\ code[at.stmt].kind = "move"
  /\ at' = FirstFrom(code, at.stmt + 1) /\ UNCHANGED <<code, cond>>

Jmp ==
  /\ at.at = "stmt" /\ code[at.stmt].kind = "jmp"
  /\ at' = Goto(code, code[at.stmt].to) /\ UNCHANGED <<code, cond>>

CJmp ==
  /\ at.at = "stmt" /\ code[at.stmt].kind = "cjmp"
  /\ \/ cond' = "true" /\ at' = Goto(code, code[at.stmt].to)
     \/ cond' = "false" /\ at' = Goto(code, code[at.stmt].els)
  /\ UNCHANGED code

RunNext == Load \/ Unload \/ Move \/ Jmp \/ CJmp

RunSpec == RunInit /\ [][RunNext]_runVars
=============================================================================
