------------------------------- MODULE X86Flags -------------------------------
(***************************************************************************)
(* The flags of the x86 as libasmir makes them: irtoir-i386.cpp replaces   *)
(* what an instruction puts into VEX's thunk by BIL that computes every    *)
(* flag into a register of one bit, and the REIL translator expands EFLAGS *)
(* to those registers.  The auxiliary carry is left out: the code makes it *)
(* 0, and says so.                                                         *)
(***************************************************************************)
EXTENDS X86Thunk, SequencesExt

C(n)   == Const(n % Mod("U32"), "U32")
Flag(f) == Reg(f, "U1")
Res    == Reg("res", "U32")
PF8    == Reg("PF8", "U8")
EFlags == Reg("EFLAGS", "U32")

EAnd(e, f) == Bin("&", e, f)
EOr(e, f)  == Bin("|", e, f)
EXor(e, f) == Bin("^", e, f)
ENot(e)    == Un("not", e)
LowBit(e) == Cast("L", e, "U1")
Sign(t, e) == Bin(">>", e, C(Bits[t] - 1))
Assign(to, e) == [to |-> to, exp |-> e]
Bit(v) == Const(v, "U1")

(* mask_overflow.                                                          *)
Overflowed(e, t) == IF t = "U32" THEN e ELSE EAnd(e, C(Mask(t)))

(* CALC_COND_PF.                                                           *)
CondPF ==
  ENot(LowBit(Bins("^", [i \in 1 .. ByteBits |->
                          IF i = ByteBits THEN PF8 ELSE Bin(">>", PF8, Const(ByteBits - i, "U8"))], ByteBits)))

SetPF(e) == <<Assign(PF8, Cast("L", e, "U8")), Assign(Flag("PF"), CondPF)>>

(* PF, ZF and SF of a result, as all the operations set them.              *)
SetOfResult(t, e) ==
  SetPF(e) \o
  <<Assign(Flag("ZF"), Bin("==", e, C(0))),
    Assign(Flag("SF"), Bin("==", C(1), EAnd(C(1), Sign(t, e))))>>

Overflow(t, e) == Assign(Flag("OF"), Bin("==", C(1), EAnd(C(1), Sign(t, e))))

-----------------------------------------------------------------------------
(* mod_eflags_add.                                                         *)
ModAdd(t, a, b) ==
  <<Assign(Res, Overflowed(Bin("+", a, b), t)), Assign(Flag("CF"), Bin("<", Res, a))>>
  \o SetOfResult(t, Res)
  \o <<Overflow(t, EAnd(EXor(EXor(a, b), C(-1)), EXor(a, Res)))>>

(* mod_eflags_sub.                                                         *)
ModSub(t, a, b) ==
  <<Assign(Res, Overflowed(Bin("-", a, b), t)), Assign(Flag("CF"), Bin("<", a, b))>>
  \o SetOfResult(t, Res)
  \o <<Overflow(t, EAnd(EXor(a, b), EXor(a, Res)))>>

(* Fault: a sum with a carry is looked at as one without.                  *)
ModAdcNoCarry(t, a, b, c) ==
  LET old == EAnd(c, C(1))
      arg == EXor(b, old)
  IN <<Assign(Res, Overflowed(Bin("+", Bin("+", a, arg), old), t)), Assign(Flag("CF"), Bin("<", Res, a))>>
     \o SetOfResult(t, Res)
     \o <<Overflow(t, EAnd(EXor(EXor(a, arg), C(-1)), EXor(a, Res)))>>

(* mod_eflags_adc.                                                         *)
ModAdc(t, a, b, c) ==
  LET old == EAnd(c, C(1))
      arg == EXor(b, old)
  IN <<Assign(Res, Overflowed(Bin("+", Bin("+", a, arg), old), t)),
       Assign(Flag("CF"), EOr(EAnd(Bin("==", old, C(1)), Bin("<=", Res, a)),
                             EAnd(Bin("==", old, C(0)), Bin("<", Res, a))))>>
     \o SetOfResult(t, Res)
     \o <<Overflow(t, EAnd(EXor(EXor(a, arg), C(-1)), EXor(a, Res)))>>

(* mod_eflags_sbb.                                                         *)
ModSbb(t, a, b, c) ==
  LET old == EAnd(c, C(1))
      arg == EXor(b, old)
  IN <<Assign(Res, Overflowed(Bin("-", Bin("-", a, arg), old), t)),
       Assign(Flag("CF"), EOr(EAnd(Bin("==", old, C(0)), Bin("<=", a, arg)),
                             EAnd(ENot(Bin("==", old, C(0))), Bin("<", a, arg))))>>
     \o SetOfResult(t, Res)
     \o <<Overflow(t, EAnd(EXor(a, arg), EXor(a, Res)))>>

(* mod_eflags_logic.                                                       *)
ModLogic(t, a) ==
  <<Assign(Flag("CF"), Bit(0))>> \o SetOfResult(t, a) \o <<Assign(Flag("OF"), Bit(0))>>

(* mod_eflags_inc.  The carry is not touched.                              *)
ModInc(t, a) ==
  SetOfResult(t, a) \o <<Assign(Flag("OF"), Bin("==", EAnd(a, C(Mask(t))), C(SignBit(t))))>>

(* mod_eflags_dec.                                                         *)
ModDec(t, a, c) ==
  <<Assign(Flag("CF"), EAnd(LowBit(Bin(">>", c, C(Position.CF))), Bit(1)))>>
  \o SetOfResult(t, a)
  \o <<Assign(Flag("OF"), Bin("==", EAnd(a, C(Mask(t))), Bin("-", C(SignBit(t)), C(1))))>>

(* mod_eflags_shl and mod_eflags_shr, of a count that is not 0.            *)
ShiftOverflow(t, a, b) == Assign(Flag("OF"), EAnd(LowBit(Sign(t, EXor(a, b))), Bit(1)))

ModShl(t, a, b) ==
  <<Assign(Flag("CF"), EAnd(LowBit(Sign(t, b)), Bit(1)))>> \o SetOfResult(t, a) \o <<ShiftOverflow(t, a, b)>>

ModShr(t, a, b) ==
  <<Assign(Flag("CF"), LowBit(b))>> \o SetOfResult(t, a) \o <<ShiftOverflow(t, a, b)>>

(* mod_eflags_rol.                                                         *)
ModRol(t, a) ==
  <<Assign(Flag("CF"), LowBit(a)), Assign(Flag("OF"), EXor(Flag("CF"), LowBit(Sign(t, a))))>>

(* mod_eflags_ror.                                                         *)
ModRor(t, a) ==
  <<Assign(Flag("CF"), LowBit(Sign(t, a))),
    Assign(Flag("OF"), EXor(Flag("CF"), LowBit(Bin(">>", a, C(Bits[t] - 2)))))>>

(* mod_eflags_umul (extension "U") and mod_eflags_smul (extension "S").    *)
ModMul(t, a, b, extension) ==
  LET double == IF t = "U8" THEN "U16" ELSE IF t = "U16" THEN "U32" ELSE "U64"
      product == Reg("product", double)
      lo == Reg("lo", t)
      hi == Reg("hi", t)
      Extended(e) == Cast(extension, Cast("L", e, t), double)
      none == IF extension = "U" THEN Const(0, t) ELSE Bin("s>>", lo, Const(Bits[t] - 1, t))
  IN <<Assign(product, Bin("*", Extended(a), Extended(b))),
       Assign(lo, Cast("L", product, t)), Assign(hi, Cast("H", product, t)),
       Assign(Flag("CF"), Bin("<>", hi, none))>>
     \o SetPF(product)
     \o <<Assign(Flag("ZF"), Bin("==", lo, Const(0, t))),
          Assign(Flag("SF"), LowBit(Bin(">>", lo, Const(Bits[t] - 1, t)))),
          Assign(Flag("OF"), Flag("CF"))>>

-----------------------------------------------------------------------------
FlagOrder == <<"CF", "PF", "ZF", "SF", "OF">>
Kept(f) == C(-1 - 2^Position[f])
Placed(f) == Bin("<<", Cast("U", Flag(f), "U32"), C(Position[f]))

(* Fault: the flags EFLAGS had are not cleared first.                      *)
SetEflagsBitsOver ==
  <<Assign(EFlags, Bins("|", <<EFlags>> \o [i \in 1 .. 5 |-> Placed(FlagOrder[i])], 6))>>

(* set_eflags_bits.                                                        *)
SetEflagsBits ==
  <<Assign(EFlags, Bins("&", <<EFlags>> \o [i \in 1 .. 5 |-> Kept(FlagOrder[i])], 6)),
    Assign(EFlags, Bins("|", <<EFlags>> \o [i \in 1 .. 5 |-> Placed(FlagOrder[i])], 6))>>

(* get_eflags_bits.                                                        *)
GetEflagsBits ==
  LET From(f) == Assign(Flag(f), LowBit(Bin(">>", EAnd(EFlags, C(2^Position[f])), C(Position[f]))))
  IN [i \in 1 .. 5 |-> From(FlagOrder[i])]

(* mod_eflags_copy.                                                        *)
ModCopy(a) ==
  <<Assign(EFlags, EAnd(a, Bins("|", [i \in 1 .. 5 |-> C(2^Position[FlagOrder[i]])], 5)))>> \o GetEflagsBits

(* convert_operand: the flags are put into EFLAGS before every instruction *)
(* that names it, as an operand or as the result.                          *)
Expanded(moves) ==
  FlattenSeq([i \in DOMAIN moves |->
    (IF EFlags \in Registers(moves[i].exp) \cup {moves[i].to} THEN SetEflagsBits ELSE <<>>) \o <<moves[i]>>])

-----------------------------------------------------------------------------
(* i386_modify_flags: the code for what was put into the thunk, k, by its  *)
(* operation.  It is a constant: a shift or rotation by a register leaves  *)
(* an operation that is not, and is left out (README).                     *)
ModifyFlags(k) ==
  LET t == k.typ
      a == C(k.dep1)
      b == C(k.dep2)
      c == C(k.ndep)
  IN CASE k.op = "COPY" -> ModCopy(a)
       [] k.op = "ADD" -> ModAdd(t, a, b)
       [] k.op = "ADC" -> ModAdc(t, a, b, c)
       [] k.op = "SUB" -> ModSub(t, a, b)
       [] k.op = "SBB" -> ModSbb(t, a, b, c)
       [] k.op = "LOGIC" -> ModLogic(t, a)
       [] k.op = "INC" -> ModInc(t, a)
       [] k.op = "DEC" -> ModDec(t, a, c)
       [] k.op = "SHL" -> ModShl(t, a, b)
       [] k.op = "SHR" -> ModShr(t, a, b)
       [] k.op = "ROL" -> ModRol(t, a)
       [] k.op = "ROR" -> ModRor(t, a)
       [] k.op = "UMUL" -> ModMul(t, a, b, "U")
       [] k.op = "SMUL" -> ModMul(t, a, b, "S")

Less == EXor(Flag("SF"), Flag("OF"))

(* Fault: "less or equal" forgets "equal".                                 *)
LessOrEqualStrict == EXor(Flag("SF"), Flag("OF"))

LessOrEqual == EOr(Less, Flag("ZF"))

(* i386_translate_ccall: a condition of a jump, a move or a set.           *)
Condition(cond) ==
  CASE cond = "O" -> Flag("OF")      [] cond = "NO" -> ENot(Flag("OF"))
    [] cond = "B" -> Flag("CF")   [] cond = "NB" -> ENot(Flag("CF"))
    [] cond = "Z" -> Flag("ZF")   [] cond = "NZ" -> ENot(Flag("ZF"))
    [] cond = "S" -> Flag("SF")   [] cond = "NS" -> ENot(Flag("SF"))
    [] cond = "P" -> Flag("PF")   [] cond = "NP" -> ENot(Flag("PF"))
    [] cond = "BE" -> EOr(Flag("CF"), Flag("ZF")) [] cond = "NBE" -> ENot(EOr(Flag("CF"), Flag("ZF")))
    [] cond = "L" -> Less      [] cond = "NL" -> ENot(Less)
    [] cond = "LE" -> LessOrEqual [] cond = "NLE" -> ENot(LessOrEqual)
=============================================================================
