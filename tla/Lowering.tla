------------------------------- MODULE Lowering -------------------------------
(***************************************************************************)
(* CReilFromBilTranslator::process_bil_inst: REIL code for a BIL           *)
(* expression.  REIL has no comparison but EQ and LT, no arithmetic shift  *)
(* and no casts: they are put together from what there is, over temporary  *)
(* registers.  A temporary is named by the number of the instruction that  *)
(* needs it (<<"V", number>>) or, for the value of an inner expression, by *)
(* a count (<<"T", count>>).  at is the number of the first instruction.   *)
(***************************************************************************)
EXTENDS BilExp, Sequences

CONSTANT Depth  (* the expressions there are, each with its depth           *)

Exps == DOMAIN Depth

(* An expression is made of expressions, and of registers that are not     *)
(* named as those of the lowering.                                         *)
ASSUME ExpsAssumption ==
  \A e \in Exps :
    /\ Depth[e] \in Nat /\ e.k \in {"reg", "const", "bin", "un", "cast", "mem"}
    /\ e.k \in {"reg", "const", "cast", "mem"} => e.typ \in DOMAIN Bits
    /\ e.k = "reg" => e.name[1] \notin {"V", "T"}
    /\ e.k = "un" => e.op \in {"not", "neg"}
    /\ e.k = "bin" => e.op \in Operators /\ e.b \in Exps /\ Depth[e.b] < Depth[e]
    /\ e.k = "cast" => e.how \in {"L", "H", "U", "S"}
    /\ ~ Atom(e) => e.a \in Exps /\ Depth[e.a] < Depth[e]

NoArg == [k |-> "none"]

(* A REIL instruction: operands a and b, result c.                         *)
I(op, a, b, c) == [op |-> op, a |-> a, b |-> b, c |-> c]

V(num, t) == Reg(<<"V", num>>, t)
T(num, t) == Reg(<<"T", num>>, t)

(* The registers the lowering makes up.                                    *)
Made(x) == x.name[1] \in {"V", "T"}

Arguments(insn) == {insn.a, insn.b, insn.c}

Zero(x) == Const(0, x.typ)

(* The instructions that have their operator to themselves.                *)
Plain ==
  [o \in {"+", "-", "*", "/", "%", "s/", "s%", "<<", ">>", "&", "|", "^", "==", "<", "not", "neg"} |->
     CASE o = "+" -> "ADD" [] o = "-" -> "SUB" [] o = "*" -> "MUL" [] o = "/" -> "DIV" [] o = "%" -> "MOD"
       [] o = "s/" -> "SDIV" [] o = "s%" -> "SMOD" [] o = "<<" -> "SHL" [] o = ">>" -> "SHR"
       [] o = "&" -> "AND" [] o = "|" -> "OR" [] o = "^" -> "XOR" [] o = "==" -> "EQ" [] o = "<" -> "LT"
       [] o = "not" -> "NOT" [] o = "neg" -> "NEG"]

(* All bits of a mask of type t when the sign bit of a is set, none        *)
(* otherwise, in V(at + 3).                                                *)
SignMask(a, t, at) ==
  <<I("AND", a, Const(SignBit(a.typ), a.typ), V(at, a.typ)),
    I("EQ", V(at, a.typ), Zero(a), V(at + 1, "U1")),
    I("OR", V(at + 1, "U1"), Const(0, "U1"), V(at + 2, t)),
    I("SUB", V(at + 2, t), Const(1, t), V(at + 3, t))>>

(* Fault: the mask is shifted by the count itself.                         *)
ArshiftByCount(a, b, c, at) ==
  SignMask(a, c.typ, at) \o
  <<I("OR", b, Zero(b), V(at + 4, c.typ)),
    I("SHL", V(at + 3, c.typ), V(at + 4, c.typ), V(at + 5, c.typ)),
    I("SHR", a, b, V(at + 6, c.typ)),
    I("OR", V(at + 5, c.typ), V(at + 6, c.typ), c)>>

Arshift(a, b, c, at) ==
  SignMask(a, c.typ, at) \o
  <<I("SUB", Const(Bits[c.typ], c.typ), b, V(at + 4, c.typ)),
    I("SHL", V(at + 3, c.typ), V(at + 4, c.typ), V(at + 5, c.typ)),
    I("SHR", a, b, V(at + 6, c.typ)),
    I("OR", V(at + 5, c.typ), V(at + 6, c.typ), c)>>

Neq(a, b, c, at) ==
  <<I("EQ", a, b, V(at, c.typ)),
    I("NOT", V(at, c.typ), NoArg, c)>>

Le(a, b, c, at) ==
  <<I("EQ", a, b, V(at, c.typ)),
    I("LT", a, b, V(at + 1, c.typ)),
    I("OR", V(at, c.typ), V(at + 1, c.typ), c)>>

Gt(a, b, c, at) ==
  Neq(a, b, V(at, c.typ), at) \o
  <<I("LT", b, a, V(at + 2, c.typ)),
    I("AND", V(at, c.typ), V(at + 2, c.typ), c)>>

Ge(a, b, c, at) ==
  <<I("EQ", a, b, V(at, c.typ))>> \o
  Gt(a, b, V(at + 1, c.typ), at + 1) \o
  <<I("OR", V(at, c.typ), V(at + 1, c.typ), c)>>

LowCast(a, c, at) ==
  <<I("AND", a, Const(Mask(c.typ), a.typ), V(at, a.typ)),
    I("OR", V(at, a.typ), Zero(a), c)>>

HighCast(a, c, at) ==
  <<I("SHR", a, Const(Bits[a.typ] \div 2, a.typ), V(at, a.typ)),
    I("AND", V(at, a.typ), Const(Mask(c.typ), a.typ), V(at + 1, a.typ)),
    I("OR", V(at + 1, a.typ), Zero(a), c)>>

UnsignedCast(a, c) == <<I("OR", a, Zero(a), c)>>

SignedCast(a, c, at) ==
  LET t == c.typ
  IN SignMask(a, t, at) \o
     <<I("AND", V(at + 3, t), Const(Mask(t) - Mask(a.typ), t), V(at + 4, t)),
       I("OR", a, Zero(a), V(at + 5, t)),
       I("OR", V(at + 5, t), V(at + 4, t), c)>>

CastCode(how, a, c, at) ==
  CASE how = "L" -> LowCast(a, c, at)
    [] how = "H" -> HighCast(a, c, at)
    [] how = "U" -> UnsignedCast(a, c)
    [] how = "S" -> SignedCast(a, c, at)

(* The code of one operator whose operands are registers or constants.     *)
OperatorCode(e, a, b, c, at) ==
  CASE Atom(e) -> <<I("STR", a, NoArg, c)>>
    [] e.k = "mem" -> <<I("LDM", a, NoArg, c)>>
    [] e.k = "cast" -> CastCode(e.how, a, c, at)
    [] e.k \in {"un", "bin"} /\ e.op \in DOMAIN Plain -> <<I(Plain[e.op], a, b, c)>>
    [] e.k = "bin" /\ e.op = "s>>" -> Arshift(a, b, c, at)
    [] e.k = "bin" /\ e.op = "<>" -> Neq(a, b, c, at)
    [] e.k = "bin" /\ e.op = "<=" -> Le(a, b, c, at)
    [] e.k = "bin" /\ e.op = ">" -> Gt(a, b, c, at)
    [] e.k = "bin" /\ e.op = ">=" -> Ge(a, b, c, at)

(* What process_bil_cast and the masks refuse with an exception: a signed  *)
(* cast that does not extend, the high half of a byte or a bit.            *)
Accepts(e, a) ==
  /\ e.k = "cast" /\ e.how = "S" => Bits[e.typ] > Bits[a.typ]
  /\ e.k = "cast" /\ e.how = "H" => a.typ \in {"U16", "U32", "U64"}

(* process_bil_inst for the operands A and R it has made: the code of e    *)
(* goes on with its operator.  Without a c the result goes to a temporary  *)
(* of the type of a cast or else of operand a, whatever the operator; its  *)
(* n counts these temporaries.                                             *)
Finished(c, e, A, R, at) ==
  LET new == c = NoArg
      to == IF new THEN T(R.n, IF e.k = "cast" THEN e.typ ELSE A.arg.typ) ELSE c
  IN [code |-> A.code \o R.code \o OperatorCode(e, A.arg, R.arg, to, at + Len(A.code) + Len(R.code)),
      arg |-> to, n |-> IF new THEN R.n + 1 ELSE R.n, ok |-> A.ok /\ R.ok /\ Accepts(e, A.arg)]

Given(x, num) == [code |-> <<>>, arg |-> x, n |-> num, ok |-> TRUE]

(* process_bil_exp: a temporary for the value of an expression.  Operands  *)
(* come first, the left before the right, each into a temporary unless it  *)
(* is one or a constant; then the operator.  x has the expression, the     *)
(* count of temporaries and at.                                            *)
InTemporary[x \in Exps \X Nat \X Nat] ==
  LET e == x[1]
      A == IF Atom(e.a) THEN Given(e.a, x[2]) ELSE InTemporary[<<e.a, x[2], x[3]>>]
      R == IF e.k # "bin" THEN Given(NoArg, A.n)
           ELSE IF Atom(e.b) THEN Given(e.b, A.n) ELSE InTemporary[<<e.b, A.n, x[3] + Len(A.code)>>]
  IN IF Atom(e) THEN Given(e, x[2]) ELSE Finished(NoArg, e, A, R, x[3])

Operand(e, num, at) == InTemporary[<<e, num, at>>]

(* The code that leaves the value of e in c.                               *)
Lower(c, e, num, at) ==
  LET A == Operand(IF Atom(e) THEN e ELSE e.a, num, at)
      R == IF e.k = "bin" THEN Operand(e.b, A.n, at + Len(A.code)) ELSE Given(NoArg, A.n)
  IN Finished(c, e, A, R, at)

(* A statement: [kind |-> "move", to, exp] to a register, "store" to the   *)
(* memory at an address, "branch" on a condition, whose negation is tested *)
(* when its true target is the label that follows.                         *)
StoreCode(A, X) ==
  [code |-> A.code \o X.code \o <<I("STM", X.arg, NoArg, A.arg)>>, n |-> X.n, ok |-> A.ok /\ X.ok]

LowerStore(s, num, at) ==
  LET A == Operand(s.to, num, at)
  IN StoreCode(A, Operand(s.exp, A.n, at + Len(A.code)))

BranchCode(negate, C, not) ==
  [code |-> C.code \o
              (IF negate THEN <<I("NOT", C.arg, NoArg, not), I("JCC", not, NoArg, Const(0, "U1"))>>
               ELSE <<I("JCC", C.arg, NoArg, Const(1, "U1"))>>),
   n |-> C.n, ok |-> C.ok]

LowerBranch(s, num, at) ==
  LET C == IF s.exp.k = "reg" THEN Given(s.exp, num) ELSE Lower(V(at, "U1"), s.exp, num, at)
  IN BranchCode(s.negate, C, V(at + Len(C.code), "U1"))

LowerStmt(s, num, at) ==
  CASE s.kind = "move" -> Lower(s.to, s.exp, num, at)
    [] s.kind = "store" -> LowerStore(s, num, at)
    [] s.kind = "branch" -> LowerBranch(s, num, at)

(* The code of the first statements of a machine instruction, each         *)
(* instruction with the statement it was made for.                         *)
Followed(before, now, k) ==
  [code |-> before.code \o [j \in DOMAIN now.code |-> [insn |-> now.code[j], stmt |-> k]],
   n |-> now.n, ok |-> before.ok /\ now.ok]

CodeUpTo(stmts) ==
  LET Upto[k \in 0 .. Len(stmts)] ==
        IF k = 0 THEN [code |-> <<>>, n |-> 0, ok |-> TRUE]
        ELSE LET before == Upto[k - 1]
             IN Followed(before, LowerStmt(stmts[k], before.n, Len(before.code)), k)
  IN Upto

(* The code of a machine instruction, none when an exception ends it.      *)
CodeIfOk(all) == IF all.ok THEN all.code ELSE <<>>

CodeOf(stmts) == CodeIfOk(CodeUpTo(stmts)[Len(stmts)])
=============================================================================
