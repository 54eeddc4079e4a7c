-------------------------------- MODULE ReilCpu --------------------------------
(***************************************************************************)
(* How the emulator computes: classes Math, Reg and Cpu of VM.py.  A       *)
(* register is made, with the size of the operand, when it is first named, *)
(* keeps that size until it is removed, and is cut to it when it is read.  *)
(* Operations are done by numpy in the size of the larger operand; a bit   *)
(* is a byte to it.                                                        *)
(***************************************************************************)
EXTENDS Lowering

(* regs: name -> [size, val], for the registers there are.                 *)
Named(regs, x) == x.k = "reg" /\ x.name \in DOMAIN regs

SizeOf(regs, x) == IF Named(regs, x) THEN regs[x.name].size ELSE x.typ

(* Reg.get_val.                                                            *)
Value(regs, x) ==
  (IF x.k = "const" THEN x.val ELSE IF Named(regs, x) THEN regs[x.name].val ELSE 0)
  % Mod(SizeOf(regs, x))

(* Cpu.reg.                                                                *)
Write(regs, x, v) ==
  LET new == [size |-> SizeOf(regs, x), val |-> v]
  IN [n \in DOMAIN regs \cup {x.name} |-> IF n = x.name THEN new ELSE regs[n]]

(* Cpu.reset_temp.                                                         *)
Temporary(n) == n[1] \in {"V", "T", "t"}
ResetTemp(regs) == [n \in {m \in DOMAIN regs : ~ Temporary(m)} |-> regs[n]]

NumpyType(t) == IF t = "U1" THEN "U8" ELSE t
Wider(s, t) == IF Bits[s] >= Bits[t] THEN s ELSE t

(* A shift of v by y in numpy's size t: by the width or more, it is what   *)
(* the processor makes of it.                                              *)
Shifted(op, v, y, t) ==
  LET By(n) == IF op = "SHL" THEN v * 2^n ELSE v \div 2^n
  IN IF y < Bits[t] THEN {By(y)} ELSE {0, By(y % Bits[t])}

(* The bits two numbers have in common.                                    *)
CommonBits(x, y) ==
  LET Common[p \in Nat \X Nat] ==
        IF p[1] = 0 THEN 0 ELSE (p[1] % 2) * (p[2] % 2) + 2 * Common[<<p[1] \div 2, p[2] \div 2>>]
  IN Common[<<x, y>>]

(* Math.eval: the results there can be.                                    *)
Results(op, x, y, t) ==
  LET sx == Signed(t, x)
      sy == Signed(t, y)
  IN CASE op = "STR" -> {x}
       [] op = "ADD" -> {x + y}
       [] op = "SUB" -> {x - y}
       [] op = "NEG" -> {- x}
       [] op = "MUL" -> {x * y}
       [] op = "DIV" -> {IF y = 0 THEN 0 ELSE x \div y}
       [] op = "MOD" -> {IF y = 0 THEN 0 ELSE x % y}
       [] op = "SDIV" -> {IF sy = 0 THEN 0 ELSE IF sy > 0 THEN sx \div sy ELSE (- sx) \div (- sy)}
       [] op = "SMOD" -> {IF sy = 0 THEN 0 ELSE IF sy > 0 THEN sx % sy ELSE - ((- sx) % (- sy))}
       [] op \in {"SHL", "SHR"} -> Shifted(op, x, y, t)
       [] op = "AND" -> {CommonBits(x, y)}
       [] op = "OR" -> {x + y - CommonBits(x, y)}
       [] op = "XOR" -> {x + y - 2 * CommonBits(x, y)}
       [] op = "NOT" -> {Mask(t) - x}
       [] op = "EQ" -> {B(x = y)}
       [] op = "LT" -> {B(x < y)}

(* An operation of bits gives a bit, any other a number of numpy's size.   *)
Evaluated(op, regs, a, b) ==
  LET sa == SizeOf(regs, a)
      sb == IF b = NoArg THEN sa ELSE SizeOf(regs, b)
      t == NumpyType(Wider(sa, sb))
      y == IF b = NoArg THEN 0 ELSE Value(regs, b)
      bits == sa = "U1" /\ sb = "U1"
  IN {r % Mod(IF bits THEN "U1" ELSE t) : r \in Results(op, Value(regs, a), y, t)}
=============================================================================
