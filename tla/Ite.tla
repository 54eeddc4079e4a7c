---------------------------------- MODULE Ite ----------------------------------
(***************************************************************************)
(* translate_ITE of irtoir: BIL for VEX's if-then-else expression, without *)
(* a jump.  Conditional moves and the conditional instructions of ARM are  *)
(* made of it.                                                             *)
(***************************************************************************)
EXTENDS LowerRun

Mux == <<"R", "mux">>
Wide == <<"t", 0>>

(* emit_mux0x: the condition widened to a mask.                            *)
EmitMux0x(typ, cond, exp0, expX) ==
  <<[kind |-> "move", to |-> Reg(Wide, typ), exp |-> Cast("S", cond, typ)],
    [kind |-> "move", to |-> Reg(Mux, typ),
     exp |-> Bin("|", Bin("&", exp0, Reg(Wide, typ)), Bin("&", expX, Un("not", Reg(Wide, typ))))]>>

TranslateITE(cond, iftrue, iffalse) ==
  EmitMux0x(iftrue.typ, Bin("==", cond, Const(0, cond.typ)), iftrue, iffalse)

-----------------------------------------------------------------------------
Cond(t)    == Reg(<<"R", "cond">>, t)
IfTrue(t)  == Reg(<<"R", "iftrue">>, t)
IfFalse(t) == Reg(<<"R", "iffalse">>, t)

(* "It returns iftrue if cond is nonzero, iffalse otherwise"               *)
(* (VEX/pub/libvex_ir.h): what the code leaves in the register made for    *)
(* the value of the expression.                                            *)
ChoosesIfTrue ==
  inum = Len(reil) + 1 =>
    LET Shown(name) == Value(regs, Reg(name, types[name]))
    IN Shown(Mux) = IF Shown(<<"R", "cond">>) # 0 THEN Shown(<<"R", "iftrue">>) ELSE Shown(<<"R", "iffalse">>)
=============================================================================
