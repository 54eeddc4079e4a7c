-------------------------------- MODULE BilExp --------------------------------
(***************************************************************************)
(* BIL expressions, and numbers of the sizes they have.  Registers and     *)
(* constants have a type; the two operands of an operator have the same,   *)
(* comparisons give a bit, a cast says what it gives.                      *)
(***************************************************************************)
EXTENDS Integers

CONSTANT ByteBits  (* the bits of a byte: a scale for all the sizes         *)

ASSUME ByteBitsAssumption == ByteBits \in {2, 4, 8}

Bits == [U1 |-> 1, U8 |-> ByteBits, U16 |-> 2 * ByteBits, U32 |-> 4 * ByteBits, U64 |-> 8 * ByteBits]
Mod(t) == 2^Bits[t]
Mask(t) == Mod(t) - 1
SignBit(t) == 2^(Bits[t] - 1)
Signed(t, v) == IF v >= SignBit(t) THEN v - Mod(t) ELSE v

Reg(name, t)       == [k |-> "reg", name |-> name, typ |-> t]
Const(v, t)        == [k |-> "const", val |-> v, typ |-> t]
Bin(o, x, y)       == [k |-> "bin", op |-> o, a |-> x, b |-> y]
Un(o, x)           == [k |-> "un", op |-> o, a |-> x]
Cast(h, x, t)      == [k |-> "cast", how |-> h, a |-> x, typ |-> t]
Load(x, t)         == [k |-> "mem", a |-> x, typ |-> t]
Atom(e)            == e.k \in {"reg", "const"}

Operators ==
  {"+", "-", "*", "/", "%", "s/", "s%", "<<", ">>", "s>>", "&", "|", "^", "==", "<>", "<", "<=", ">", ">="}
Comparisons == {"==", "<>", "<", "<=", ">", ">="}

B(b) == IF b THEN 1 ELSE 0
=============================================================================
