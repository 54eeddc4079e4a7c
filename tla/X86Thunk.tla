------------------------------- MODULE X86Thunk -------------------------------
(***************************************************************************)
(* The flags of the x86 as VEX keeps them: an instruction leaves its       *)
(* operation and arguments in a thunk, and the flags are computed from it  *)
(* when something needs them.  The auxiliary carry is left out.            *)
(***************************************************************************)
EXTENDS BilMeaning, FiniteSets

ASSUME WordHoldsFlags == ByteBits >= 4

FlagNames == {"CF", "PF", "ZF", "SF", "OF"}
Position == [CF |-> 0, PF |-> 2, ZF |-> 6, SF |-> 7, OF |-> 11]

Low(t, n) == n % Mod(t)
Word(n) == Low("U32", n)
BitOf(n, i) == (n \div 2^i) % 2
Msb(t, n) == BitOf(n, Bits[t] - 1)

(* parity_table: whether the low byte has an even number of ones.          *)
EvenOnes(n) == B(\E h \in 0 .. ByteBits : 2 * h = Cardinality({i \in 0 .. ByteBits - 1 : BitOf(n, i) = 1}))

FlagsIn(w) == [f \in FlagNames |-> BitOf(w, Position[f])]

FlagsWord(f) ==
  f.CF * 2^Position.CF + f.PF * 2^Position.PF + f.ZF * 2^Position.ZF
  + f.SF * 2^Position.SF + f.OF * 2^Position.OF

-----------------------------------------------------------------------------
(* The flags a result sets the same way for every operation, and the two   *)
(* each operation has a way of its own for.                                *)
ResultFlags(t, res, cf, of) ==
  [CF |-> cf, PF |-> EvenOnes(res), ZF |-> B(Low(t, res) = 0), SF |-> Msb(t, res), OF |-> of]

(* ACTIONS_ADD, ACTIONS_ADC.                                               *)
SumFlags(t, l, r, c) ==
  LET res == Word(l + r + c)
  IN ResultFlags(t, res,
       B(Low(t, res) < Low(t, l) \/ (c = 1 /\ Low(t, res) = Low(t, l))),
       B(Msb(t, l) = Msb(t, r) /\ Msb(t, res) # Msb(t, l)))

(* ACTIONS_SUB, ACTIONS_SBB.                                               *)
DifferenceFlags(t, l, r, c) ==
  LET res == Word(l - r - c)
  IN ResultFlags(t, res,
       B(Low(t, l) < Low(t, r) \/ (c = 1 /\ Low(t, l) = Low(t, r))),
       B(Msb(t, l) # Msb(t, r) /\ Msb(t, res) # Msb(t, l)))

(* ACTIONS_UMUL, ACTIONS_SMUL: whether the high half says more than the    *)
(* low one.                                                                *)
ProductFlags(t, product, high) ==
  LET c == B(product \div Mod(t) # high) IN ResultFlags(t, Low(t, product), c, c)

Flags(k) ==
  LET t == k.typ
      carry == k.ndep % 2
      l == Low(t, k.dep1)
      r == Low(t, k.dep2)
      overshot == B(Msb(t, k.dep1) # Msb(t, k.dep2))
      signed == Signed(t, l) * Signed(t, r)
  IN CASE k.op = "COPY" -> FlagsIn(k.dep1)
       [] k.op = "ADD" -> SumFlags(t, k.dep1, k.dep2, 0)
       [] k.op = "ADC" -> SumFlags(t, k.dep1, k.dep2 ^^ carry, carry)
       [] k.op = "SUB" -> DifferenceFlags(t, k.dep1, k.dep2, 0)
       [] k.op = "SBB" -> DifferenceFlags(t, k.dep1, k.dep2 ^^ carry, carry)
       [] k.op = "LOGIC" -> ResultFlags(t, k.dep1, 0, 0)
       [] k.op = "INC" -> ResultFlags(t, k.dep1, carry, B(l = SignBit(t)))
       [] k.op = "DEC" -> ResultFlags(t, k.dep1, carry, B(l = SignBit(t) - 1))
       [] k.op = "SHL" -> ResultFlags(t, k.dep1, Msb(t, k.dep2), overshot)
       [] k.op = "SHR" -> ResultFlags(t, k.dep1, k.dep2 % 2, overshot)
       [] k.op = "ROL" -> [FlagsIn(k.ndep) EXCEPT !.CF = l % 2, !.OF = B(Msb(t, l) # l % 2)]
       [] k.op = "ROR" -> [FlagsIn(k.ndep) EXCEPT !.CF = Msb(t, l), !.OF = B(Msb(t, l) # BitOf(l, Bits[t] - 2))]
       [] k.op = "UMUL" -> ProductFlags(t, l * r, 0)
       [] k.op = "SMUL" -> ProductFlags(t, signed, IF Msb(t, signed) = 1 THEN -1 ELSE 0)

(* x86g_calculate_condition.                                               *)
Holds(cond, f) ==
  LET less == B(f.SF # f.OF)
  IN CASE cond = "O" -> f.OF          [] cond = "NO" -> 1 - f.OF
       [] cond = "B" -> f.CF          [] cond = "NB" -> 1 - f.CF
       [] cond = "Z" -> f.ZF          [] cond = "NZ" -> 1 - f.ZF
       [] cond = "BE" -> B(f.CF + f.ZF > 0) [] cond = "NBE" -> B(f.CF + f.ZF = 0)
       [] cond = "S" -> f.SF          [] cond = "NS" -> 1 - f.SF
       [] cond = "P" -> f.PF          [] cond = "NP" -> 1 - f.PF
       [] cond = "L" -> less          [] cond = "NL" -> 1 - less
       [] cond = "LE" -> B(less + f.ZF > 0) [] cond = "NLE" -> B(less + f.ZF = 0)

-----------------------------------------------------------------------------
(* An instruction i has an operation, a type and operands x and y: the     *)
(* result and 0 of a logical operation, the value and the count of shifts  *)
(* and rotations, the new flags of a copy.                                 *)
Shifts == {"SHL", "SHR", "SAR"}
Counted(i) == i.op \in Shifts \cup {"ROL", "ROR"}

Rotated(t, n, left) == Low(t, n * 2^left) + n \div 2^(Bits[t] - left)

(* What the operation puts into the thunk, given the carry and the word of *)
(* flags before it.  A shift leaves its result, in a word, and what there  *)
(* was one shift before.                                                   *)
Put(i, carry, word) ==
  LET t == i.typ
      Thunk(op, d1, d2, n) == [op |-> op, typ |-> t, dep1 |-> d1, dep2 |-> d2, ndep |-> n]
      Shift(n) ==
        CASE i.op = "SHL" -> Word(i.x * 2^n)
          [] i.op = "SHR" -> i.x \div 2^n
          [] i.op = "SAR" -> Word(Signed(t, i.x) \div 2^n)
      turn == i.y % Bits[t]
      under == (i.y - 1) % Bits["U32"]
  IN CASE i.op \in {"ADC", "SBB"} -> Thunk(i.op, i.x, Low(t, i.y ^^ carry), carry)
       [] i.op = "INC" -> Thunk(i.op, Low(t, i.x + 1), 0, carry)
       [] i.op = "DEC" -> Thunk(i.op, Low(t, i.x - 1), 0, carry)
       [] i.op \in Shifts -> Thunk(IF i.op = "SAR" THEN "SHR" ELSE i.op, Shift(i.y), Shift(under), 0)
       [] i.op = "ROL" -> Thunk(i.op, Rotated(t, i.x, turn), 0, word)
       [] i.op = "ROR" -> Thunk(i.op, Rotated(t, i.x, Bits[t] - turn), 0, word)
       [] i.op = "COPY" -> Thunk(i.op, FlagsWord(FlagsIn(i.x)), 0, 0)
       [] OTHER -> Thunk(i.op, i.x, i.y, 0)

(* Shifting or rotating by nothing leaves the thunk alone.                 *)
After(i, k) ==
  IF Counted(i) /\ i.y = 0 THEN k ELSE Put(i, Flags(k).CF, FlagsWord(Flags(k)))
=============================================================================
