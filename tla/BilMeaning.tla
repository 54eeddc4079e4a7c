------------------------------ MODULE BilMeaning ------------------------------
(***************************************************************************)
(* What BIL expressions mean: the values that code made from them has to   *)
(* compute.                                                                *)
(***************************************************************************)
EXTENDS BilExp, Bitwise

(* Operators over several operands, as the ex_ functions of irtoir build.  *)
RECURSIVE Bins(_, _, _)
Bins(o, es, n) == IF n = 1 THEN es[1] ELSE Bin(o, Bins(o, es, n - 1), es[n])

RECURSIVE TypeOf(_)
TypeOf(e) ==
  IF e.k \in {"reg", "const", "cast", "mem"} THEN e.typ
  ELSE IF e.k = "bin" /\ e.op \in Comparisons THEN "U1" ELSE TypeOf(e.a)

(* The registers of an expression.                                         *)
RECURSIVE Registers(_)
Registers(e) ==
  CASE e.k = "reg" -> {e}
    [] e.k = "const" -> {}
    [] e.k = "bin" -> Registers(e.a) \cup Registers(e.b)
    [] OTHER -> Registers(e.a)

(* Division that truncates.                                                *)
Quotient(x, y) ==
  LET Abs(n) == IF n < 0 THEN - n ELSE n
      q == Abs(x) \div Abs(y)
  IN IF (x < 0) = (y < 0) THEN q ELSE - q

(* An operator on values x and y of type t, before it is cut to size: a    *)
(* product of the signed values is the same then.                          *)
Operation(o, t, x, y) ==
  CASE o = "+" -> x + y
    [] o = "-" -> x - y
    [] o = "*" -> Signed(t, x) * Signed(t, y)
    [] o = "/" -> x \div y
    [] o = "%" -> x % y
    [] o = "s/" -> Quotient(Signed(t, x), Signed(t, y))
    [] o = "s%" -> Signed(t, x) - Signed(t, y) * Quotient(Signed(t, x), Signed(t, y))
    [] o = "<<" -> IF y < Bits[t] THEN x * 2^y ELSE 0
    [] o = ">>" -> IF y < Bits[t] THEN x \div 2^y ELSE 0
    [] o = "s>>" -> Signed(t, x) \div 2^(IF y < Bits[t] THEN y ELSE Bits[t])
    [] o = "&" -> x & y
    [] o = "|" -> x | y
    [] o = "^" -> x ^^ y
    [] o = "==" -> B(x = y)
    [] o = "<>" -> B(x # y)
    [] o = "<" -> B(x < y)
    [] o = "<=" -> B(x <= y)
    [] o = ">" -> B(x > y)
    [] o = ">=" -> B(x >= y)

(* The low or high part of a value, or its extension.                      *)
Converted(h, x, from, to) ==
  CASE h = "L" -> x
    [] h = "H" -> x \div 2^(Bits[from] - Bits[to])
    [] h = "U" -> x
    [] h = "S" -> Signed(from, x)

(* The value of e where registers hold env and memory holds mem.           *)
RECURSIVE Meaning(_, _, _)
Meaning(e, env, mem) ==
  (CASE e.k = "reg" -> env[e.name]
     [] e.k = "const" -> e.val
     [] e.k = "mem" -> mem[Meaning(e.a, env, mem)]
     [] e.k = "cast" -> Converted(e.how, Meaning(e.a, env, mem), TypeOf(e.a), e.typ)
     [] e.k = "un" /\ e.op = "not" -> -1 - Meaning(e.a, env, mem)
     [] e.k = "un" /\ e.op = "neg" -> - Meaning(e.a, env, mem)
     [] e.k = "bin" -> Operation(e.op, TypeOf(e.a), Meaning(e.a, env, mem), Meaning(e.b, env, mem)))
  % Mod(TypeOf(e))

(* Where the emulator can be relied on: not for shifts by the width or     *)
(* more, arithmetic shifts by nothing, divisions by zero and signed        *)
(* divisions with a negative quotient, where it does what numpy does.      *)
RECURSIVE Exact(_, _, _)
Exact(e, env, mem) ==
  CASE Atom(e) -> TRUE
    [] e.k \in {"mem", "cast", "un"} -> Exact(e.a, env, mem)
    [] e.k = "bin" ->
         LET y == Meaning(e.b, env, mem)
             t == TypeOf(e.a)
         IN /\ Exact(e.a, env, mem) /\ Exact(e.b, env, mem)
            /\ e.op \in {"<<", ">>", "s>>"} => y < Bits[t]
            /\ e.op = "s>>" => y > 0
            /\ e.op \in {"/", "%", "s/", "s%"} => y > 0
            /\ e.op \in {"s/", "s%"} =>
                 (Signed(t, y) < 0) = (Signed(t, Meaning(e.a, env, mem)) < 0)
=============================================================================
