-------------------------------- MODULE MCFlags --------------------------------
(* Bytes of four bits, the smallest with room for the flags in a word.     *)
(* Operands are those where carries, borrows, overflows, halves and signs  *)
(* differ.  SBB, COPY and the SHL of less than a word are not among them:  *)
(* there the flags differ from VEX's.                                      *)
EXTENDS FlagRun

An(op, t, x, y) == [op |-> op, typ |-> t, x |-> x, y |-> y]

Top(t) == SignBit(t)
All(t) == Mask(t)

Pairs(t) ==
  {<<0, 0>>, <<Top(t) - 1, 1>>, <<Top(t), All(t)>>, <<All(t), 1>>}
  \cup (IF t = "U8" THEN {<<3, 5>>, <<5, 3>>, <<Top(t), Top(t)>>, <<6, 6>>, <<0, All(t)>>} ELSE {})

Arithmetic(t) == {"ADD", "SUB", "ADC"} \cup (IF t = "U32" THEN {} ELSE {"UMUL", "SMUL"})

InsnsOf(t) ==
  {An(op, t, p[1], p[2]) : op \in Arithmetic(t), p \in Pairs(t)}
  \cup {An("LOGIC", t, x, 0) : x \in {0, 5, Top(t)}}
  \cup {An("INC", t, x, 0) : x \in {Top(t) - 1, All(t)}} \cup {An("DEC", t, x, 0) : x \in {0, 1, Top(t)}}
  \cup {An(op, t, Top(t) + 1, n) : op \in {"SHR", "SAR"}, n \in {0, 1, 3}}
  \cup {An(op, t, Top(t) + 2, 1) : op \in {"ROL", "ROR"}}

MCInsns ==
  UNION {InsnsOf(t) : t \in {"U8", "U16", "U32"}}
  \cup {An("SHL", "U32", Top("U32") + 3, n) : n \in {0, 1, 15}}
  \cup {An("ROR", "U8", 6, n) : n \in {1, 4}}

(* Copies of flags to EFLAGS: POPF and the like.                           *)
Copies == {An("COPY", "U32", 2^Position[f], 0) : f \in FlagNames}

(* Subtractions with borrow.                                               *)
Borrows == {An("SBB", "U8", x, y) : x \in 0 .. 15, y \in 0 .. 15}
=============================================================================
