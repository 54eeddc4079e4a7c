------------------------------- MODULE ReilRun -------------------------------
(***************************************************************************)
(* The translator of BilToReil together with the emulator that runs what   *)
(* it delivers: Cpu.run fetches the instruction at (address, number),      *)
(* executes it and goes where it says.  How conditions come out is left    *)
(* open.  The composition implements BilRun: running the REIL code is      *)
(* running the BIL code.                                                   *)
(***************************************************************************)
EXTENDS BilToReil

(* The BIL code irtoir makes: the name of a label is made for it, so it is *)
(* placed once, and a conditional jump falls through to one of its labels. *)
PlacedOnce(b) ==
  \A i, k \in DOMAIN b : b[i].kind = "label" /\ b[k].kind = "label" /\ b[i].to = b[k].to => i = k

FallsThrough(b) ==
  \A i \in DOMAIN b :
    b[i].kind = "cjmp" /\ i < Len(b) /\ b[i + 1].kind = "label" => b[i + 1].to \in {b[i].to, b[i].els}

(* insert_specials marks the jump of a return, which is the last that a    *)
(* machine instruction does.                                               *)
ReturnsByJump(b) ==
  \A i \in DOMAIN b :
    i < Len(b) /\ b[i + 1].kind = "special" /\ b[i + 1].to = "ret" => b[i].kind \notin {"move", "cjmp"}

ASSUME BlocksAssumption ==
  \A p \in Programs : \A n \in DOMAIN p : PlacedOnce(p[n]) /\ FallsThrough(p[n]) /\ ReturnsByJump(p[n])

VARIABLES
  source,   (* the BIL block the code was made from                        *)
  pc,       (* the next instruction, or where the execution left the code  *)
  cond      (* what the condition of the last conditional jump came out as *)

reilVars == <<bilVars, source, pc, cond>>

Inum(n)    == [at |-> "inum", inum |-> n]
Outside(w) == [at |-> w, inum |-> 0]

Fetched == {j \in DOMAIN delivered : delivered[j].inum = pc.inum}
Current == delivered[CHOOSE j \in Fetched : TRUE]

(* Fault: the mark of the end is not looked at.                            *)
FollowingPlain(x) == Inum(x.inum + 1)

(* A return, or a jump that is always taken and no call.                   *)
NeverGoesOn(x) == "ret" \in x.flags \/ (x.when = "always" /\ "call" \notin x.flags)

(* Insn.next: where it goes on, or None, which Cpu.run cannot go to.       *)
Following(x) ==
  IF NeverGoesOn(x) THEN Outside("None")
  ELSE IF "end" \in x.flags THEN Outside("next") ELSE Inum(x.inum + 1)

JumpTo(x) == IF x.to.at = "here" THEN Inum(x.to.inum) ELSE Outside(x.to.at)

ReilInit == BilInit /\ source = <<>> /\ pc = Outside("idle") /\ cond = "-"

Begin ==
  /\ pc.at # "inum" /\ Start
  /\ source' = <<>> /\ pc' = Outside("idle") /\ cond' = "-"

TranslateMore == Lower /\ UNCHANGED <<source, pc, cond>>

(* What was delivered is run from its first instruction.                   *)
Finish == Deliver /\ source' = block /\ pc' = Inum(0) /\ cond' = "-"

Running == pc.at = "inum" /\ Fetched # {}

ExecOther ==
  /\ Running /\ Current.op \in {"op", "none"}
  /\ pc' = Following(Current)
  /\ UNCHANGED <<bilVars, source, cond>>

(* Cpu.insn_jcc.                                                           *)
ExecJcc ==
  /\ Running /\ Current.op = "jcc"
  /\ \E c \in {"true", "false"} :
       /\ cond' = IF Current.when = "always" THEN cond ELSE c
       /\ pc' = IF Current.when \in {"always", c} THEN JumpTo(Current) ELSE Following(Current)
  /\ UNCHANGED <<bilVars, source>>

(* Math has no I_UNK: Cpu.run ends with its KeyError.                      *)
ExecUnknown ==
  /\ Running /\ Current.op = "unk"
  /\ pc' = Outside("unknown")
  /\ UNCHANGED <<bilVars, source, cond>>

ReilNext ==
  \/ Begin \/ TranslateMore \/ Finish
  \/ ExecOther \/ ExecJcc \/ ExecUnknown

ReilSpec == ReilInit /\ [][ReilNext]_reilVars

-----------------------------------------------------------------------------
(* Where the emulator is in the BIL code: at the statement its instruction *)
(* was made for.                                                           *)
At ==
  LET Out(w) == [at |-> w, stmt |-> 0]
  IN IF pc.at # "inum" THEN Out(pc.at)
     ELSE IF Fetched = {} THEN Out("no instruction")
     ELSE CASE Current.op = "none" -> Out("next")
            [] Current.op = "unk" -> Out("unknown")
            [] OTHER -> [at |-> "stmt", stmt |-> Current.stmt]

Bil == INSTANCE BilRun WITH Stmts <- Stmt, code <- source, at <- At

(* Running the REIL code of a machine instruction is running its BIL code: *)
(* labels, fall-throughs, negated conditions and the mark of the end take  *)
(* it to the statements the BIL code goes to, whatever each of them was    *)
(* lowered to and whatever the translator did before.                      *)
RunsAsBil == Bil!RunSpec
=============================================================================
