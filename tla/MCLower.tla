-------------------------------- MODULE MCLower --------------------------------
(* Bytes of two bits.  Every operator at the sizes of a bit, a byte and a  *)
(* word, into a register of its own or an operand's; every cast; the       *)
(* nested expressions irtoir builds for flags; memory; branches; and       *)
(* statements and machine instructions in a row.                           *)
EXTENDS LowerMoves, MCExps

A(t) == Reg(<<"R", "A">>, t)
D(t) == Reg(<<"R", "D">>, t)
E(t) == Reg(<<"R", "E">>, t)
L(i, t) == Reg(<<"t", i>>, t)

MoveTo(to, e) == [kind |-> "move", to |-> to, exp |-> e]
Single(to, e) == <<<<MoveTo(to, e)>>>>

BitOperators == {"&", "|", "^", "==", "<>", "<="}
OperatorsAt(t) == IF t = "U1" THEN BitOperators ELSE Operators

(* What an operator gives goes to a register of its type: one of its own,  *)
(* or an operand.                                                          *)
Targets(o, t) == IF o \in Comparisons /\ t # "U1" THEN {D("U1")} ELSE {D(t), A(t), E(t)}

Binaries ==
  UNION {UNION {{Single(to, Bin(o, A(t), y)) : to \in Targets(o, t)}
                  : o \in OperatorsAt(t), y \in {E(t), A(t)}}
           : t \in {"U1", "U8", "U16"}}
  \cup {Single(IF o \in Comparisons THEN D("U1") ELSE A("U16"), Bin(o, A("U16"), Const(v, "U16"))) :
          o \in Operators, v \in {0, 1, 3, 15}}
  \cup {Single(D("U16"), Bin(o, Const(9, "U16"), E("U16"))) : o \in {"-", "s>>", "/"}}

Unaries == {Single(to, Un("not", A("U1"))) : to \in {A("U1"), D("U1")}}
           \cup {Single(to, Un(o, A("U16"))) : o \in {"not", "neg"}, to \in {A("U16"), D("U16")}}
           \cup {Single(D("U16"), x) : x \in {A("U16"), Const(5, "U16")}}

Sizes == {"U1", "U8", "U16", "U32"}
Casts ==
  UNION {{Single(D(u), Cast("U", A(t), u)), Single(D(u), Cast("S", A(t), u))}
           : <<t, u>> \in {p \in Sizes \X Sizes : Bits[p[1]] < Bits[p[2]]}}
  \cup UNION {{Single(D(u), Cast("L", A(t), u))} : <<t, u>> \in {p \in Sizes \X Sizes : Bits[p[1]] > Bits[p[2]]}}
  \cup {Single(D("U8"), Cast("H", A("U16"), "U8")), Single(D("U16"), Cast("H", A("U32"), "U16")),
        Single(D("U32"), Cast("H", A("U64"), "U32")), Single(D("U64"), Cast("S", A("U32"), "U64")),
        Single(D("U64"), Cast("U", A("U16"), "U64")), Single(D("U32"), Cast("L", A("U64"), "U32"))}

Res == Bin("+", A("U16"), E("U16"))
Zero16 == Const(0, "U16")
IsZero(x) == Bin("==", x, Zero16)

Nested ==
  {Single(D("U1"), Bin("<", Res, A("U16"))),
   Single(D("U1"), Bin("==", Const(1, "U16"), Bin("&", Const(1, "U16"), Bin(">>", Res, Const(3, "U16"))))),
   Single(D("U1"), Cast("L", Bin(">>", Bin("&", Bin("^", Bin("^", A("U16"), E("U16")), Const(15, "U16")),
                                             Bin("^", A("U16"), Res)), Const(3, "U16")), "U1")),
   Single(D("U1"), Un("not", Cast("L", Bin("^", Bin(">>", A("U16"), Const(1, "U16")), A("U16")), "U1"))),
   Single(D("U1"), Bin("|", Bin("&", IsZero(A("U16")), Bin("<", A("U16"), E("U16"))),
                            Bin("&", Un("not", IsZero(A("U16"))), Bin("<=", A("U16"), E("U16"))))),
   Single(D("U8"), Cast("H", Bin("*", Cast("S", A("U8"), "U16"), Cast("S", E("U8"), "U16")), "U8")),
   Single(A("U16"), Bin("|", Bin("&", A("U16"), Cast("S", E("U1"), "U16")),
                             Bin("&", Zero16, Un("not", Cast("S", E("U1"), "U16")))))}

Memory ==
  {Single(D("U8"), Load(A("U8"), "U8")), Single(A("U8"), Load(A("U8"), "U8")),
   Single(D("U8"), Bin("+", Load(Bin("+", A("U8"), Const(1, "U8")), "U8"), A("U8"))),
   <<<<[kind |-> "store", to |-> A("U8"), exp |-> E("U8")],
       MoveTo(E("U8"), Load(A("U8"), "U8"))>>>>,
   <<<<[kind |-> "store", to |-> Bin("-", A("U8"), E("U8")), exp |-> Bin(">>", A("U8"), E("U8"))]>>>>}

Branches ==
  {<<<<MoveTo(D("U8"), A("U8")), [kind |-> "branch", negate |-> g, exp |-> c]>>>>
     : g \in BOOLEAN, c \in {E("U1"), Bin("<=", A("U8"), D("U8")), Cast("L", A("U8"), "U1"),
                             Bin("<>", A("U8"), Const(2, "U8"))}}

(* The temporaries of irtoir and of the lowering, under names that another *)
(* machine instruction uses at another size.                               *)
Rows ==
  {<<<<MoveTo(L(0, "U8"), A("U8")), MoveTo(A("U8"), Bin("s>>", L(0, "U8"), Const(1, "U8"))),
       MoveTo(D("U16"), Cast("S", Bin("+", L(0, "U8"), A("U8")), "U16"))>>,
     <<MoveTo(L(0, "U16"), Cast("U", A("U8"), "U16")), MoveTo(D("U16"), Bin("*", L(0, "U16"), D("U16")))>>>>,
   <<<<MoveTo(D("U16"), Cast("S", Cast("L", E("U16"), "U1"), "U16"))>>,
     <<MoveTo(E("U16"), Bin("s>>", E("U16"), Const(2, "U16"))), MoveTo(D("U16"), Bin("^", E("U16"), D("U16")))>>>>,
   <<<<MoveTo(D("U1"), Bin(">", A("U1"), E("U1")))>>, <<MoveTo(E("U1"), L(0, "U1"))>>,
     <<MoveTo(L(0, "U1"), Un("not", E("U1"))), MoveTo(A("U1"), L(0, "U1"))>>>>}

(* An expression the lowering refuses.                                     *)
Refused == {Single(D("U16"), Cast("S", A("U16"), "U16"))}

AllCodes == Binaries \cup Unaries \cup Casts \cup Nested \cup Memory \cup Branches \cup Rows \cup Refused

(* Every value of a bit, a byte or a word; of what is wider, those at the  *)
(* ends and around the signs.                                              *)
ValuesOfType(t) ==
  IF t \in {"U1", "U8", "U16"} THEN 0 .. Mask(t)
  ELSE {0, 1, 2, 3, 9, 15, 16} \cup {SignBit(t) - 1, SignBit(t), SignBit(t) + 5, Mask(t) - 1, Mask(t)}

IsInput(m) == m \in {<<"R", "A">>, <<"R", "E">>}

MCInputs(ts) ==
  LET given == {m \in DOMAIN ts : IsInput(m)}
      fs == {f \in [given -> UNION {ValuesOfType(ts[m]) : m \in given}] :
               \A m \in given : f[m] \in ValuesOfType(ts[m])}
  IN {[m \in DOMAIN ts |-> IF IsInput(m) THEN f[m] ELSE 0] : f \in fs}

Depths == DepthsIn(AllCodes)

MCCodes == AllCodes
MCDepth == Depths
=============================================================================
