----------------------------- MODULE LowerProofs -----------------------------
(***************************************************************************)
(* Proofs about the REIL code of BIL expressions and about its execution,  *)
(* for every set of expressions and of statements made of them: that the   *)
(* emulator, which keeps the size a register had when it was first named,  *)
(* never cuts a value.                                                     *)
(*                                                                         *)
(* The lowering is a recursive function over expressions.  That there is   *)
(* such a function is proved from the depth of expressions (LevelsExist,   *)
(* InTemporaryIs), and what it gives by the same induction.                *)
(***************************************************************************)
EXTENDS LowerRun, SequenceTheorems, WellFoundedInduction, TLAPS

(* Every set of natural numbers that is not empty has a least element. *)
LEMMA LeastNatural ==
  ASSUME NEW Q \in SUBSET Nat, Q # {}
  PROVE  \E m \in Q : \A i \in Q : m <= i
<1>1. PICK m \in Q : \A i \in Q : ~ (<<i, m>> \in OpToRel(<, Nat))
  BY NatLessThanWellFounded, WFMin
<1>2. \A i \in Q : ~ (i < m)
  BY <1>1 DEF OpToRel
<1> QED
  BY <1>2

(* Induction: what holds of 0, and of i + 1 when it holds of i. *)
LEMMA NaturalsByOne ==
  ASSUME NEW Q \in SUBSET Nat, 0 \in Q, \A i \in Q : i + 1 \in Q
  PROVE  Q = Nat
<1>1. SUFFICES ASSUME Nat \ Q # {} PROVE FALSE
  OBVIOUS
<1>2. PICK m \in Nat \ Q : \A i \in Nat \ Q : m <= i
  <2>1. Nat \ Q \in SUBSET Nat
    OBVIOUS
  <2> QED
    BY <1>1, <2>1, LeastNatural
<1>3. m # 0 /\ m - 1 \in Nat /\ (m - 1) + 1 = m
  BY <1>2
<1>4. m - 1 \in Q
  BY <1>2, <1>3
<1> QED
  BY <1>2, <1>3, <1>4

(* Induction up to a bound. *)
LEMMA UpTo ==
  ASSUME NEW top \in Nat, NEW G, 0 \in G, \A k \in 0 .. top - 1 : k \in G => k + 1 \in G
  PROVE  top \in G
<1> DEFINE Q == {k \in Nat : k <= top => k \in G}
<1>1. 0 \in Q
  OBVIOUS
<1>2. ASSUME NEW k \in Q PROVE k + 1 \in Q
  <2>1. SUFFICES ASSUME k + 1 <= top PROVE k + 1 \in G
    OBVIOUS
  <2>2. k \in 0 .. top - 1 /\ k <= top
    BY <2>1
  <2> QED
    BY <2>2
<1>3. Q = Nat
  <2> HIDE DEF Q
  <2> QED
    BY <1>1, <1>2, NaturalsByOne DEF Q
<1> QED
  BY <1>3

-----------------------------------------------------------------------------
(* A code that ends with its result: instructions of X, the last of Y.     *)
Ends(q, X, Y) ==
  /\ q \in Seq(X \cup Y) /\ Len(q) \in Nat \ {0}
  /\ \A j \in 1 .. Len(q) - 1 : q[j] \in X
  /\ q[Len(q)] \in Y

LEMMA EndsTuple ==
  ASSUME NEW X, NEW Y, NEW y \in Y
  PROVE  /\ Ends(<<y>>, X, Y) /\ Len(<<y>>) = 1
         /\ \A u \in X : Ends(<<u, y>>, X, Y) /\ Len(<<u, y>>) = 2
         /\ \A u \in X, v \in X : Ends(<<u, v, y>>, X, Y) /\ Len(<<u, v, y>>) = 3
         /\ \A u \in X, v \in X, w \in X : Ends(<<u, v, w, y>>, X, Y) /\ Len(<<u, v, w, y>>) = 4
<1>1. Ends(<<y>>, X, Y) /\ Len(<<y>>) = 1
  BY DEF Ends
<1>2. ASSUME NEW u \in X PROVE Ends(<<u, y>>, X, Y) /\ Len(<<u, y>>) = 2
  BY DEF Ends
<1>3. ASSUME NEW u \in X, NEW v \in X PROVE Ends(<<u, v, y>>, X, Y) /\ Len(<<u, v, y>>) = 3
  BY DEF Ends
<1>4. ASSUME NEW u \in X, NEW v \in X, NEW w \in X
      PROVE  Ends(<<u, v, w, y>>, X, Y) /\ Len(<<u, v, w, y>>) = 4
  BY DEF Ends
<1> QED
  BY <1>1, <1>2, <1>3, <1>4

LEMMA EndsAfter ==
  ASSUME NEW X, NEW Y, NEW s \in Seq(X), NEW q, Ends(q, X, Y)
  PROVE  Ends(s \o q, X, Y) /\ Len(s \o q) = Len(s) + Len(q)
<1>1. s \in Seq(X \cup Y) /\ q \in Seq(X \cup Y) /\ Len(s) \in Nat /\ Len(q) \in Nat \ {0}
  BY SeqMonotonic DEF Ends
<1>2. /\ s \o q \in Seq(X \cup Y) /\ Len(s \o q) = Len(s) + Len(q)
      /\ \A i \in 1 .. Len(s) + Len(q) : (s \o q)[i] = IF i <= Len(s) THEN s[i] ELSE q[i - Len(s)]
  BY <1>1, ConcatProperties
<1>3. ASSUME NEW j \in 1 .. Len(s) + Len(q) - 1 PROVE (s \o q)[j] \in X
  <2>1. CASE j <= Len(s)
    <3>1. s[j] \in X
      BY <1>1, <2>1, ElementOfSeq
    <3> QED
      BY <1>1, <1>2, <2>1, <3>1
  <2>2. CASE j > Len(s)
    <3>1. j - Len(s) \in 1 .. Len(q) - 1 /\ j \in 1 .. Len(s) + Len(q) /\ ~ (j <= Len(s))
      BY <1>1, <2>2
    <3>2. q[j - Len(s)] \in X
      BY <3>1 DEF Ends
    <3> QED
      BY <1>2, <3>1, <3>2
  <2> QED
    BY <1>1, <2>1, <2>2
<1>4. (s \o q)[Len(s) + Len(q)] = q[Len(q)]
  <2>1. Len(s) + Len(q) \in 1 .. Len(s) + Len(q) /\ ~ (Len(s) + Len(q) <= Len(s)) /\ Len(s) + Len(q) - Len(s) = Len(q)
    BY <1>1
  <2> QED
    BY <1>2, <2>1
<1> QED
  BY <1>1, <1>2, <1>3, <1>4 DEF Ends

LEMMA EndsWhole ==
  ASSUME NEW X, NEW Y, NEW q, Ends(q, X, Y), Y \subseteq X
  PROVE  q \in Seq(X) /\ Len(q) \in Nat
<1>1. X \cup Y = X
  OBVIOUS
<1> QED
  BY <1>1 DEF Ends

-----------------------------------------------------------------------------
Types == DOMAIN Bits

OpNames ==
  {"STR", "LDM", "ADD", "SUB", "MUL", "DIV", "MOD", "SDIV", "SMOD", "SHL", "SHR", "AND", "OR", "XOR",
   "EQ", "LT", "NOT", "NEG"}

Constants == [k : {"const"}, val : Int, typ : Types]

(* What BIL gives: registers, constants and nothing. *)
Leaves == {x \in Exps : Atom(x)} \cup Constants \cup {NoArg}

Writable(S) == {x \in S : x.k = "reg"}

(* Instructions over registers and constants of S, and those of them whose *)
(* result goes to x.                                                       *)
Over(S) == [op : OpNames, a : S, b : S, c : Writable(S)]
Into(S, x) == [op : OpNames, a : S, b : S, c : {x}]

LEMMA TypesAre ==
  /\ Types = {"U1", "U8", "U16", "U32", "U64"}
  /\ \A t \in Types : Bits[t] \in Nat \ {0} /\ Bits["U1"] <= Bits[t]
BY ByteBitsAssumption DEF Types, Bits

LEMMA MadeRegisters ==
  ASSUME NEW i, NEW t
  PROVE  /\ V(i, t).k = "reg" /\ V(i, t).name = <<"V", i>> /\ V(i, t).typ = t /\ Made(V(i, t))
         /\ T(i, t).k = "reg" /\ T(i, t).name = <<"T", i>> /\ T(i, t).typ = t /\ Made(T(i, t))
BY DEF V, T, Reg, Made

LEMMA LeavesAreNotMade ==
  ASSUME NEW x \in Leaves, x.k = "reg"
  PROVE  ~ Made(x) /\ x \in Exps /\ x.typ \in Types
<1>1. x \notin Constants /\ x # NoArg
  BY DEF Constants, NoArg
<1> QED
  BY <1>1, ExpsAssumption DEF Leaves, Made, Types

LEMMA ConstantsAre ==
  ASSUME NEW t \in Types
  PROVE  /\ Const(0, t) \in Leaves /\ Const(1, t) \in Leaves /\ Const(Bits[t], t) \in Leaves
         /\ Const(SignBit(t), t) \in Leaves /\ Const(Bits[t] \div 2, t) \in Leaves
         /\ \A u \in Types : Const(Mask(u), t) \in Leaves /\ Const(Mask(t) - Mask(u), t) \in Leaves
<1>1. ASSUME NEW v \in Int PROVE Const(v, t) \in Leaves
  BY DEF Const, Constants, Leaves
<1>2. ASSUME NEW i \in Nat PROVE 2^i \in Int
  OBVIOUS
<1>3. Bits[t] \in Int /\ Bits[t] \div 2 \in Int /\ Bits[t] - 1 \in Nat /\ \A u \in Types : Bits[u] \in Nat
  BY TypesAre
<1>4. SignBit(t) \in Int
  BY <1>2, <1>3 DEF SignBit
<1>5. \A u \in Types : Mask(u) \in Int
  BY <1>2, <1>3 DEF Mask, Mod
<1>6. \A u \in Types : Mask(t) - Mask(u) \in Int
  BY <1>5
<1> QED
  BY <1>1, <1>3, <1>4, <1>5, <1>6


-----------------------------------------------------------------------------
(* The registers an operator makes up: one for each number, of the type f  *)
(* gives it.                                                               *)
Numbered(f) == {V(i, f[i]) : i \in DOMAIN f}

Typings(at, q) == [at .. at + Len(q) - 1 -> Types]

(* The code q of an operator: over what is there and registers numbered as *)
(* its instructions are, and its result in c.                              *)
Operates(q, S, c, at) ==
  /\ Len(q) \in Nat \ {0}
  /\ \E f \in Typings(at, q) : Ends(q, Over(S \cup Numbered(f)), Into(S \cup Numbered(f), c))

LEMMA NumberedAre ==
  ASSUME NEW f, NEW i \in DOMAIN f, NEW S
  PROVE  /\ V(i, f[i]) \in S \cup Numbered(f)
         /\ V(i, f[i]) \in Writable(S \cup Numbered(f))
<1>1. V(i, f[i]) \in S \cup Numbered(f)
  BY DEF Numbered
<1> QED
  BY <1>1, MadeRegisters DEF Writable

LEMMA InstructionIs ==
  ASSUME NEW S, NEW op \in OpNames, NEW x \in S, NEW y \in S
  PROVE  /\ \A z \in Writable(S) : I(op, x, y, z) \in Over(S)
         /\ \A z : I(op, x, y, z) \in Into(S, z)
BY DEF I, Over, Into

(* The first four instructions of a shift or a cast with the sign: their   *)
(* registers have the types of the operand, of a bit and of the result.    *)
SignTyping(a, t, f, at) == f[at] = a.typ /\ f[at + 1] = "U1" /\ f[at + 2] = t /\ f[at + 3] = t

LEMMA SignMaskIs ==
  ASSUME NEW S, Leaves \subseteq S, NEW a \in S, a.typ \in Types, NEW t \in Types, NEW at \in Nat,
         NEW f, at .. at + 3 \subseteq DOMAIN f, SignTyping(a, t, f, at)
  PROVE  /\ SignMask(a, t, at) \in Seq(Over(S \cup Numbered(f))) /\ Len(SignMask(a, t, at)) = 4
         /\ V(at + 3, t) \in S \cup Numbered(f)
<1> DEFINE R == S \cup Numbered(f)
<1>1. at \in DOMAIN f /\ at + 1 \in DOMAIN f /\ at + 2 \in DOMAIN f /\ at + 3 \in DOMAIN f
  OBVIOUS
<1>2. /\ V(at, a.typ) \in R /\ V(at, a.typ) \in Writable(R)
      /\ V(at + 1, "U1") \in R /\ V(at + 1, "U1") \in Writable(R)
  BY <1>1, NumberedAre DEF SignTyping
<1>3. /\ V(at + 2, t) \in R /\ V(at + 2, t) \in Writable(R)
      /\ V(at + 3, t) \in R /\ V(at + 3, t) \in Writable(R)
  BY <1>1, NumberedAre DEF SignTyping
<1>4. /\ a \in R /\ Const(SignBit(a.typ), a.typ) \in R /\ Zero(a) \in R /\ Const(0, "U1") \in R /\ Const(1, t) \in R
  <2>1. "U1" \in Types /\ Leaves \subseteq R
    BY TypesAre
  <2> QED
    BY <2>1, ConstantsAre DEF Zero
<1> HIDE DEF R
<1>5. {"AND", "EQ", "OR", "SUB"} \subseteq OpNames
  BY DEF OpNames
<1>6. /\ I("AND", a, Const(SignBit(a.typ), a.typ), V(at, a.typ)) \in Over(R)
      /\ I("EQ", V(at, a.typ), Zero(a), V(at + 1, "U1")) \in Over(R)
      /\ I("OR", V(at + 1, "U1"), Const(0, "U1"), V(at + 2, t)) \in Over(R)
      /\ I("SUB", V(at + 2, t), Const(1, t), V(at + 3, t)) \in Over(R)
  BY <1>2, <1>3, <1>4, <1>5, InstructionIs
<1>7. ASSUME NEW X, NEW u \in X, NEW v \in X, NEW w \in X, NEW z \in X
      PROVE  <<u, v, w, z>> \in Seq(X) /\ Len(<<u, v, w, z>>) = 4
  OBVIOUS
<1>8. SignMask(a, t, at) \in Seq(Over(R)) /\ Len(SignMask(a, t, at)) = 4
  BY <1>6, <1>7 DEF SignMask
<1> QED
  BY <1>3, <1>8 DEF R


LEMMA EndsSeqs ==
  ASSUME NEW X, NEW Y, NEW s \in Seq(X), NEW q, Ends(q, X, Y)
  PROVE  s \in Seq(X \cup Y) /\ q \in Seq(X \cup Y)
BY SeqMonotonic DEF Ends

LEMMA OperatesBy ==
  ASSUME NEW q, Len(q) \in Nat \ {0}, NEW S, NEW c, NEW at, NEW f \in Typings(at, q),
         Ends(q, Over(S \cup Numbered(f)), Into(S \cup Numbered(f), c))
  PROVE  Operates(q, S, c, at)
BY DEF Operates

LEMMA ArshiftIs ==
  ASSUME NEW S, Leaves \subseteq S, NEW a \in S, a.typ \in Types, NEW b \in S, NEW c, c.typ \in Types, NEW at \in Nat
  PROVE  Operates(Arshift(a, b, c, at), S, c, at)
<1> DEFINE t == c.typ
           f == [i \in at .. at + 7 |-> IF i = at THEN a.typ ELSE IF i = at + 1 THEN "U1" ELSE t]
           R == S \cup Numbered(f)
           q == <<I("SUB", Const(Bits[t], t), b, V(at + 4, t)), I("SHL", V(at + 3, t), V(at + 4, t), V(at + 5, t)),
                  I("SHR", a, b, V(at + 6, t)), I("OR", V(at + 5, t), V(at + 6, t), c)>>
<1>1. "U1" \in Types
  BY TypesAre
<1>2. f \in [at .. at + 7 -> Types] /\ DOMAIN f = at .. at + 7 /\ at .. at + 3 \subseteq DOMAIN f
  BY <1>1
<1>3. SignTyping(a, t, f, at) /\ f[at + 4] = t /\ f[at + 5] = t /\ f[at + 6] = t
  BY DEF SignTyping
<1> HIDE DEF f
<1>4. SignMask(a, t, at) \in Seq(Over(R)) /\ Len(SignMask(a, t, at)) = 4 /\ V(at + 3, t) \in R
  BY <1>2, <1>3, SignMaskIs
<1>5. at + 4 \in DOMAIN f /\ at + 5 \in DOMAIN f /\ at + 6 \in DOMAIN f
  BY <1>2
<1>6. /\ V(at + 4, t) \in R /\ V(at + 4, t) \in Writable(R)
      /\ V(at + 5, t) \in R /\ V(at + 5, t) \in Writable(R)
      /\ V(at + 6, t) \in R /\ V(at + 6, t) \in Writable(R)
  BY <1>3, <1>5, NumberedAre
<1>7. a \in R /\ b \in R /\ Const(Bits[t], t) \in R
  BY ConstantsAre
<1> HIDE DEF R, t
<1>8. {"SUB", "SHL", "SHR", "OR"} \subseteq OpNames
  BY DEF OpNames
<1>9. /\ I("SUB", Const(Bits[t], t), b, V(at + 4, t)) \in Over(R)
      /\ I("SHL", V(at + 3, t), V(at + 4, t), V(at + 5, t)) \in Over(R)
      /\ I("SHR", a, b, V(at + 6, t)) \in Over(R)
      /\ I("OR", V(at + 5, t), V(at + 6, t), c) \in Into(R, c)
  BY <1>4, <1>6, <1>7, <1>8, InstructionIs
<1>10. Ends(q, Over(R), Into(R, c)) /\ Len(q) = 4
  BY <1>9, EndsTuple
<1>11. /\ Ends(SignMask(a, t, at) \o q, Over(R), Into(R, c))
       /\ Len(SignMask(a, t, at) \o q) = 8
  <2> DEFINE s == SignMask(a, t, at)
  <2>1. s \in Seq(Over(R)) /\ Len(s) = 4 /\ Ends(q, Over(R), Into(R, c))
    BY <1>4, <1>10
  <2> HIDE DEF q, s
  <2>2. Ends(s \o q, Over(R), Into(R, c))
    BY <2>1, EndsAfter
  <2>3. s \in Seq(Over(R) \cup Into(R, c)) /\ q \in Seq(Over(R) \cup Into(R, c))
    BY <2>1, EndsSeqs
  <2>4. Len(s \o q) = Len(s) + Len(q)
    BY <2>3
  <2> QED
    BY <1>10, <2>1, <2>2, <2>4 DEF s
<1>12. Arshift(a, b, c, at) = SignMask(a, t, at) \o q
  BY DEF Arshift, t
<1>13. f \in Typings(at, Arshift(a, b, c, at)) /\ Len(Arshift(a, b, c, at)) = 8
  BY <1>2, <1>11, <1>12 DEF Typings
<1>14. Ends(Arshift(a, b, c, at), Over(S \cup Numbered(f)), Into(S \cup Numbered(f), c))
  BY <1>11, <1>12 DEF R
<1>15. Len(Arshift(a, b, c, at)) \in Nat \ {0}
  BY <1>13
<1> QED
  BY <1>13, <1>14, <1>15, OperatesBy

LEMMA SignedCastIs ==
  ASSUME NEW S, Leaves \subseteq S, NEW a \in S, a.typ \in Types, NEW c, c.typ \in Types, NEW at \in Nat
  PROVE  Operates(SignedCast(a, c, at), S, c, at)
<1> DEFINE t == c.typ
           f == [i \in at .. at + 6 |-> IF i = at THEN a.typ ELSE IF i = at + 1 THEN "U1" ELSE t]
           R == S \cup Numbered(f)
           q == <<I("AND", V(at + 3, t), Const(Mask(t) - Mask(a.typ), t), V(at + 4, t)),
                  I("OR", a, Zero(a), V(at + 5, t)), I("OR", V(at + 5, t), V(at + 4, t), c)>>
<1>1. "U1" \in Types
  BY TypesAre
<1>2. f \in [at .. at + 6 -> Types] /\ DOMAIN f = at .. at + 6 /\ at .. at + 3 \subseteq DOMAIN f
  BY <1>1
<1>3. SignTyping(a, t, f, at) /\ f[at + 4] = t /\ f[at + 5] = t
  BY DEF SignTyping
<1> HIDE DEF f
<1>4. SignMask(a, t, at) \in Seq(Over(R)) /\ Len(SignMask(a, t, at)) = 4 /\ V(at + 3, t) \in R
  BY <1>2, <1>3, SignMaskIs
<1>5. at + 4 \in DOMAIN f /\ at + 5 \in DOMAIN f
  BY <1>2
<1>6. /\ V(at + 4, t) \in R /\ V(at + 4, t) \in Writable(R)
      /\ V(at + 5, t) \in R /\ V(at + 5, t) \in Writable(R)
  BY <1>3, <1>5, NumberedAre
<1>7. a \in R /\ Zero(a) \in R /\ Const(Mask(t) - Mask(a.typ), t) \in R
  <2>1. Zero(a) \in Leaves /\ Const(Mask(t) - Mask(a.typ), t) \in Leaves
    BY ConstantsAre DEF Zero
  <2> QED
    BY <2>1
<1> HIDE DEF R, t
<1>8. {"AND", "OR"} \subseteq OpNames
  BY DEF OpNames
<1>9. /\ I("AND", V(at + 3, t), Const(Mask(t) - Mask(a.typ), t), V(at + 4, t)) \in Over(R)
      /\ I("OR", a, Zero(a), V(at + 5, t)) \in Over(R)
      /\ I("OR", V(at + 5, t), V(at + 4, t), c) \in Into(R, c)
  BY <1>4, <1>6, <1>7, <1>8, InstructionIs
<1>10. Ends(q, Over(R), Into(R, c)) /\ Len(q) = 3
  BY <1>9, EndsTuple
<1>11. /\ Ends(SignMask(a, t, at) \o q, Over(R), Into(R, c))
       /\ Len(SignMask(a, t, at) \o q) = 7
  <2> DEFINE s == SignMask(a, t, at)
  <2>1. s \in Seq(Over(R)) /\ Len(s) = 4 /\ Ends(q, Over(R), Into(R, c))
    BY <1>4, <1>10
  <2> HIDE DEF q, s
  <2>2. Ends(s \o q, Over(R), Into(R, c))
    BY <2>1, EndsAfter
  <2>3. s \in Seq(Over(R) \cup Into(R, c)) /\ q \in Seq(Over(R) \cup Into(R, c))
    BY <2>1, EndsSeqs
  <2>4. Len(s \o q) = Len(s) + Len(q)
    BY <2>3
  <2> QED
    BY <1>10, <2>1, <2>2, <2>4 DEF s
<1>12. SignedCast(a, c, at) = SignMask(a, t, at) \o q
  BY DEF SignedCast, t
<1>13. f \in Typings(at, SignedCast(a, c, at)) /\ Len(SignedCast(a, c, at)) = 7
  BY <1>2, <1>11, <1>12 DEF Typings
<1>14. Ends(SignedCast(a, c, at), Over(S \cup Numbered(f)), Into(S \cup Numbered(f), c))
  BY <1>11, <1>12 DEF R
<1>15. Len(SignedCast(a, c, at)) \in Nat \ {0}
  BY <1>13
<1> QED
  BY <1>13, <1>14, <1>15, OperatesBy

LEMMA NeqIs ==
  ASSUME NEW R, NEW a \in R, NEW b \in R, NoArg \in R, NEW c, NEW at, V(at, c.typ) \in Writable(R)
  PROVE  Ends(Neq(a, b, c, at), Over(R), Into(R, c)) /\ Len(Neq(a, b, c, at)) = 2
<1>1. {"EQ", "NOT"} \subseteq OpNames /\ V(at, c.typ) \in R
  BY DEF OpNames, Writable
<1>2. /\ I("EQ", a, b, V(at, c.typ)) \in Over(R)
      /\ I("NOT", V(at, c.typ), NoArg, c) \in Into(R, c)
  BY <1>1, InstructionIs
<1> QED
  BY <1>2, EndsTuple DEF Neq

(* What goes to a register of R is over R. *)
LEMMA IntoIsOver ==
  ASSUME NEW R, NEW c \in Writable(R)
  PROVE  Into(R, c) \subseteq Over(R)
BY DEF Into, Over

LEMMA GtIs ==
  ASSUME NEW R, NEW a \in R, NEW b \in R, NoArg \in R, NEW c, NEW at \in Nat,
         V(at, c.typ) \in Writable(R), V(at + 2, c.typ) \in Writable(R)
  PROVE  Ends(Gt(a, b, c, at), Over(R), Into(R, c)) /\ Len(Gt(a, b, c, at)) = 4
<1> DEFINE z == V(at, c.typ)
           q == <<I("LT", b, a, V(at + 2, c.typ)), I("AND", z, V(at + 2, c.typ), c)>>
<1>1. {"LT", "AND"} \subseteq OpNames /\ V(at, c.typ) \in R /\ V(at + 2, c.typ) \in R
  BY DEF OpNames, Writable
<1>2. /\ I("LT", b, a, V(at + 2, c.typ)) \in Over(R)
      /\ I("AND", V(at, c.typ), V(at + 2, c.typ), c) \in Into(R, c)
  BY <1>1, InstructionIs
<1>3. Ends(q, Over(R), Into(R, c)) /\ Len(q) = 2
  BY <1>2, EndsTuple
<1>4. z.typ = c.typ
  BY MadeRegisters
<1>5. Ends(Neq(a, b, z, at), Over(R), Into(R, z)) /\ Len(Neq(a, b, z, at)) = 2
  <2> HIDE DEF z
  <2> QED
    BY <1>4, NeqIs DEF z
<1>6. Neq(a, b, z, at) \in Seq(Over(R))
  BY <1>5, IntoIsOver, EndsWhole
<1>7. Gt(a, b, c, at) = Neq(a, b, z, at) \o q
  BY DEF Gt
<1> DEFINE s == Neq(a, b, z, at)
<1> HIDE DEF q, z
<1>8. s \in Seq(Over(R)) /\ Len(s) = 2 /\ Gt(a, b, c, at) = s \o q
  BY <1>5, <1>6, <1>7
<1> HIDE DEF s
<1>9. Ends(s \o q, Over(R), Into(R, c))
  BY <1>3, <1>8, EndsAfter
<1>10. s \in Seq(Over(R) \cup Into(R, c)) /\ q \in Seq(Over(R) \cup Into(R, c))
  BY <1>3, <1>8, EndsSeqs
<1>11. Len(s \o q) = Len(s) + Len(q)
  BY <1>10
<1> QED
  BY <1>3, <1>8, <1>9, <1>11

LEMMA LeIs ==
  ASSUME NEW R, NEW a \in R, NEW b \in R, NEW c, NEW at \in Nat,
         V(at, c.typ) \in Writable(R), V(at + 1, c.typ) \in Writable(R)
  PROVE  Ends(Le(a, b, c, at), Over(R), Into(R, c)) /\ Len(Le(a, b, c, at)) = 3
<1>1. {"EQ", "LT", "OR"} \subseteq OpNames /\ V(at, c.typ) \in R /\ V(at + 1, c.typ) \in R
  BY DEF OpNames, Writable
<1>2. /\ I("EQ", a, b, V(at, c.typ)) \in Over(R) /\ I("LT", a, b, V(at + 1, c.typ)) \in Over(R)
      /\ I("OR", V(at, c.typ), V(at + 1, c.typ), c) \in Into(R, c)
  BY <1>1, InstructionIs
<1> QED
  BY <1>2, EndsTuple DEF Le

LEMMA GeIs ==
  ASSUME NEW R, NEW a \in R, NEW b \in R, NoArg \in R, NEW c, NEW at \in Nat,
         V(at, c.typ) \in Writable(R), V(at + 1, c.typ) \in Writable(R), V(at + 3, c.typ) \in Writable(R)
  PROVE  Ends(Ge(a, b, c, at), Over(R), Into(R, c)) /\ Len(Ge(a, b, c, at)) = 6
<1> DEFINE y == I("EQ", a, b, V(at, c.typ))
           z == V(at + 1, c.typ)
           s == Gt(a, b, z, at + 1)
           w == I("OR", V(at, c.typ), z, c)
<1>1. {"EQ", "OR"} \subseteq OpNames /\ V(at, c.typ) \in R /\ z \in R
  BY DEF OpNames, Writable
<1>2. y \in Over(R)
  BY <1>1, InstructionIs
<1>3. w \in Into(R, c)
  BY <1>1, InstructionIs
<1>4. z.typ = c.typ /\ at + 1 \in Nat /\ (at + 1) + 2 = at + 3
  BY MadeRegisters
<1>5. Ends(s, Over(R), Into(R, z)) /\ Len(s) = 4
  <2> HIDE DEF z
  <2> QED
    BY <1>4, GtIs DEF z
<1>6. s \in Seq(Over(R))
  BY <1>5, IntoIsOver, EndsWhole
<1>7. Ge(a, b, c, at) = <<y>> \o s \o <<w>>
  BY DEF Ge
<1> HIDE DEF y, z, s, w
<1>8. <<y>> \o s \in Seq(Over(R)) /\ Len(<<y>> \o s) = 5
  <2> DEFINE v == <<y>>
  <2>1. v \in Seq(Over(R)) /\ Len(v) = 1
    BY <1>2
  <2> HIDE DEF v
  <2>2. v \o s \in Seq(Over(R)) /\ Len(v \o s) = Len(v) + Len(s)
    BY <1>6, <2>1, ConcatProperties
  <2> QED
    BY <1>5, <2>1, <2>2 DEF v
<1> DEFINE p == <<y>> \o s
           q == <<w>>
<1>9. Ends(q, Over(R), Into(R, c)) /\ Len(q) = 1
  BY <1>3, EndsTuple
<1>10. p \in Seq(Over(R)) /\ Len(p) = 5 /\ Ge(a, b, c, at) = p \o q
  BY <1>7, <1>8
<1> HIDE DEF p, q
<1>11. Ends(p \o q, Over(R), Into(R, c))
  BY <1>9, <1>10, EndsAfter
<1>12. p \in Seq(Over(R) \cup Into(R, c)) /\ q \in Seq(Over(R) \cup Into(R, c))
  BY <1>9, <1>10, EndsSeqs
<1>13. Len(p \o q) = Len(p) + Len(q)
  BY <1>12
<1> QED
  BY <1>9, <1>10, <1>11, <1>13

LEMMA LowCastIs ==
  ASSUME NEW R, NEW a \in R, a.typ \in Types, Leaves \subseteq R, NEW c, c.typ \in Types, NEW at \in Nat,
         V(at, a.typ) \in Writable(R)
  PROVE  Ends(LowCast(a, c, at), Over(R), Into(R, c)) /\ Len(LowCast(a, c, at)) = 2
<1>1. {"AND", "OR"} \subseteq OpNames /\ V(at, a.typ) \in R /\ Const(Mask(c.typ), a.typ) \in R /\ Zero(a) \in R
  BY ConstantsAre DEF OpNames, Writable, Zero
<1>2. /\ I("AND", a, Const(Mask(c.typ), a.typ), V(at, a.typ)) \in Over(R)
      /\ I("OR", V(at, a.typ), Zero(a), c) \in Into(R, c)
  BY <1>1, InstructionIs
<1> QED
  BY <1>2, EndsTuple DEF LowCast

LEMMA HighCastIs ==
  ASSUME NEW R, NEW a \in R, a.typ \in Types, Leaves \subseteq R, NEW c, c.typ \in Types, NEW at \in Nat,
         V(at, a.typ) \in Writable(R), V(at + 1, a.typ) \in Writable(R)
  PROVE  Ends(HighCast(a, c, at), Over(R), Into(R, c)) /\ Len(HighCast(a, c, at)) = 3
<1>1. {"SHR", "AND", "OR"} \subseteq OpNames /\ V(at, a.typ) \in R /\ V(at + 1, a.typ) \in R
  BY DEF OpNames, Writable
<1>2. Const(Bits[a.typ] \div 2, a.typ) \in R /\ Const(Mask(c.typ), a.typ) \in R /\ Zero(a) \in R
  BY ConstantsAre DEF Zero
<1>3. /\ I("SHR", a, Const(Bits[a.typ] \div 2, a.typ), V(at, a.typ)) \in Over(R)
      /\ I("AND", V(at, a.typ), Const(Mask(c.typ), a.typ), V(at + 1, a.typ)) \in Over(R)
      /\ I("OR", V(at + 1, a.typ), Zero(a), c) \in Into(R, c)
  BY <1>1, <1>2, InstructionIs
<1> QED
  BY <1>3, EndsTuple DEF HighCast

LEMMA PlainNames == \A o \in DOMAIN Plain : Plain[o] \in OpNames
BY DEF Plain, OpNames

(* One instruction. *)
LEMMA OneIs ==
  ASSUME NEW S, NEW op \in OpNames, NEW a \in S, NEW b \in S, NEW c, NEW at \in Nat
  PROVE  Operates(<<I(op, a, b, c)>>, S, c, at)
<1> DEFINE q == <<I(op, a, b, c)>>
           f == [i \in at .. at |-> "U1"]
           R == S \cup Numbered(f)
<1>1. "U1" \in Types
  BY TypesAre
<1>2. Len(q) = 1
  OBVIOUS
<1>3. f \in Typings(at, q) /\ Len(q) \in Nat \ {0}
  BY <1>1, <1>2 DEF Typings
<1> HIDE DEF f
<1>4. I(op, a, b, c) \in Into(R, c)
  BY InstructionIs
<1>5. Ends(q, Over(R), Into(R, c))
  BY <1>4, EndsTuple
<1> QED
  BY <1>3, <1>5, OperatesBy

(* Registers of one type. *)
LEMMA OfOneType ==
  ASSUME NEW S, NEW at \in Nat, NEW m \in Nat, NEW t \in Types
  PROVE  \E f \in [at .. at + m -> Types] : \A i \in at .. at + m : V(i, t) \in Writable(S \cup Numbered(f))
<1> DEFINE f == [i \in at .. at + m |-> t]
<1>1. f \in [at .. at + m -> Types] /\ DOMAIN f = at .. at + m
  OBVIOUS
<1>2. \A i \in at .. at + m : f[i] = t
  OBVIOUS
<1> HIDE DEF f
<1>3. \A i \in at .. at + m : V(i, t) \in Writable(S \cup Numbered(f))
  BY <1>1, <1>2, NumberedAre
<1> QED
  BY <1>1, <1>3

(* Registers of the type of the result for the comparisons. *)
LEMMA ComparisonsAre ==
  ASSUME NEW S, Leaves \subseteq S, NEW a \in S, NEW b \in S, NEW c, c.typ \in Types, NEW at \in Nat
  PROVE  /\ Operates(Neq(a, b, c, at), S, c, at) /\ Operates(Le(a, b, c, at), S, c, at)
         /\ Operates(Gt(a, b, c, at), S, c, at) /\ Operates(Ge(a, b, c, at), S, c, at)
<1> DEFINE t == c.typ
<1>1. NoArg \in S
  BY DEF Leaves
<1> HIDE DEF t
<1>2. t \in Types /\ t = c.typ
  BY DEF t
<1>3. Operates(Neq(a, b, c, at), S, c, at)
  <2>1. PICK f \in [at .. at + 1 -> Types] : \A i \in at .. at + 1 : V(i, t) \in Writable(S \cup Numbered(f))
    BY <1>2, OfOneType
  <2> DEFINE R == S \cup Numbered(f)
  <2>2. V(at, t) \in Writable(R) /\ a \in R /\ b \in R /\ NoArg \in R
    <3>1. at \in at .. at + 1
      OBVIOUS
    <3> QED
      BY <1>1, <2>1, <3>1, Zenon
  <2> HIDE DEF R
  <2>3. Ends(Neq(a, b, c, at), Over(R), Into(R, c)) /\ Len(Neq(a, b, c, at)) = 2
    BY <2>2, NeqIs DEF t
  <2>4. f \in Typings(at, Neq(a, b, c, at)) /\ Len(Neq(a, b, c, at)) \in Nat \ {0}
    BY <2>1, <2>3 DEF Typings
  <2> QED
    BY <2>3, <2>4, OperatesBy DEF R
<1>4. Operates(Le(a, b, c, at), S, c, at)
  <2>1. PICK f \in [at .. at + 2 -> Types] : \A i \in at .. at + 2 : V(i, t) \in Writable(S \cup Numbered(f))
    BY <1>2, OfOneType
  <2> DEFINE R == S \cup Numbered(f)
  <2>2. V(at, t) \in Writable(R) /\ V(at + 1, t) \in Writable(R) /\ a \in R /\ b \in R
    <3>1. at \in at .. at + 2 /\ at + 1 \in at .. at + 2
      OBVIOUS
    <3> QED
      BY <2>1, <3>1, Zenon
  <2> HIDE DEF R
  <2>3. Ends(Le(a, b, c, at), Over(R), Into(R, c)) /\ Len(Le(a, b, c, at)) = 3
    BY <2>2, LeIs DEF t
  <2>4. f \in Typings(at, Le(a, b, c, at)) /\ Len(Le(a, b, c, at)) \in Nat \ {0}
    BY <2>1, <2>3 DEF Typings
  <2> QED
    BY <2>3, <2>4, OperatesBy DEF R
<1>5. Operates(Gt(a, b, c, at), S, c, at)
  <2>1. PICK f \in [at .. at + 3 -> Types] : \A i \in at .. at + 3 : V(i, t) \in Writable(S \cup Numbered(f))
    BY <1>2, OfOneType
  <2> DEFINE R == S \cup Numbered(f)
  <2>2. V(at, t) \in Writable(R) /\ V(at + 2, t) \in Writable(R) /\ a \in R /\ b \in R /\ NoArg \in R
    <3>1. at \in at .. at + 3 /\ at + 2 \in at .. at + 3
      OBVIOUS
    <3> QED
      BY <1>1, <2>1, <3>1, Zenon
  <2> HIDE DEF R
  <2>3. Ends(Gt(a, b, c, at), Over(R), Into(R, c)) /\ Len(Gt(a, b, c, at)) = 4
    BY <2>2, GtIs DEF t
  <2>4. f \in Typings(at, Gt(a, b, c, at)) /\ Len(Gt(a, b, c, at)) \in Nat \ {0}
    BY <2>1, <2>3 DEF Typings
  <2> QED
    BY <2>3, <2>4, OperatesBy DEF R
<1>6. Operates(Ge(a, b, c, at), S, c, at)
  <2>1. PICK f \in [at .. at + 5 -> Types] : \A i \in at .. at + 5 : V(i, t) \in Writable(S \cup Numbered(f))
    BY <1>2, OfOneType
  <2> DEFINE R == S \cup Numbered(f)
  <2>2. /\ V(at, t) \in Writable(R) /\ V(at + 1, t) \in Writable(R) /\ V(at + 3, t) \in Writable(R)
        /\ a \in R /\ b \in R /\ NoArg \in R
    <3>1. at \in at .. at + 5 /\ at + 1 \in at .. at + 5 /\ at + 3 \in at .. at + 5
      OBVIOUS
    <3> QED
      BY <1>1, <2>1, <3>1, Zenon
  <2> HIDE DEF R
  <2>3. Ends(Ge(a, b, c, at), Over(R), Into(R, c)) /\ Len(Ge(a, b, c, at)) = 6
    BY <2>2, GeIs DEF t
  <2>4. f \in Typings(at, Ge(a, b, c, at)) /\ Len(Ge(a, b, c, at)) \in Nat \ {0}
    BY <2>1, <2>3 DEF Typings
  <2> QED
    BY <2>3, <2>4, OperatesBy DEF R
<1> QED
  BY <1>3, <1>4, <1>5, <1>6


LEMMA CastsAre ==
  ASSUME NEW S, Leaves \subseteq S, NEW a \in S, a.typ \in Types, NEW c, c.typ \in Types, NEW at \in Nat,
         NEW h \in {"L", "H", "U", "S"}
  PROVE  Operates(CastCode(h, a, c, at), S, c, at)
<1>1. CASE h = "L"
  <2>1. PICK f \in [at .. at + 1 -> Types] : \A i \in at .. at + 1 : V(i, a.typ) \in Writable(S \cup Numbered(f))
    BY OfOneType
  <2> DEFINE R == S \cup Numbered(f)
  <2>2. V(at, a.typ) \in Writable(R) /\ a \in R /\ Leaves \subseteq R
    <3>1. at \in at .. at + 1
      OBVIOUS
    <3> QED
      BY <2>1, <3>1, Zenon
  <2> HIDE DEF R
  <2>3. Ends(LowCast(a, c, at), Over(R), Into(R, c)) /\ Len(LowCast(a, c, at)) = 2
    BY <2>2, LowCastIs
  <2>4. f \in Typings(at, LowCast(a, c, at)) /\ Len(LowCast(a, c, at)) \in Nat \ {0}
    BY <2>1, <2>3 DEF Typings
  <2>5. Operates(LowCast(a, c, at), S, c, at)
    BY <2>3, <2>4, OperatesBy DEF R
  <2> QED
    BY <1>1, <2>5 DEF CastCode
<1>2. CASE h = "H"
  <2>1. PICK f \in [at .. at + 2 -> Types] : \A i \in at .. at + 2 : V(i, a.typ) \in Writable(S \cup Numbered(f))
    BY OfOneType
  <2> DEFINE R == S \cup Numbered(f)
  <2>2. V(at, a.typ) \in Writable(R) /\ V(at + 1, a.typ) \in Writable(R) /\ a \in R /\ Leaves \subseteq R
    <3>1. at \in at .. at + 2 /\ at + 1 \in at .. at + 2
      OBVIOUS
    <3> QED
      BY <2>1, <3>1, Zenon
  <2> HIDE DEF R
  <2>3. Ends(HighCast(a, c, at), Over(R), Into(R, c)) /\ Len(HighCast(a, c, at)) = 3
    BY <2>2, HighCastIs
  <2>4. f \in Typings(at, HighCast(a, c, at)) /\ Len(HighCast(a, c, at)) \in Nat \ {0}
    BY <2>1, <2>3 DEF Typings
  <2>5. Operates(HighCast(a, c, at), S, c, at)
    BY <2>3, <2>4, OperatesBy DEF R
  <2> QED
    BY <1>2, <2>5 DEF CastCode
<1>3. CASE h = "U"
  <2>1. "OR" \in OpNames /\ Zero(a) \in S
    BY ConstantsAre DEF OpNames, Zero
  <2>2. Operates(UnsignedCast(a, c), S, c, at)
    BY <2>1, OneIs DEF UnsignedCast
  <2> QED
    BY <1>3, <2>2 DEF CastCode
<1>4. CASE h = "S"
  <2>1. Operates(SignedCast(a, c, at), S, c, at)
    BY SignedCastIs
  <2> QED
    BY <1>4, <2>1 DEF CastCode
<1> QED
  BY <1>1, <1>2, <1>3, <1>4

(* The code of every operator. *)
LEMMA OperatorCodeIs ==
  ASSUME NEW S, Leaves \subseteq S, NEW e \in Exps, NEW a \in S, a.typ \in Types, NEW b \in S,
         NEW c, c.typ \in Types, NEW at \in Nat
  PROVE  Operates(OperatorCode(e, a, b, c, at), S, c, at)
<1>1. NoArg \in S /\ "STR" \in OpNames /\ "LDM" \in OpNames
  BY DEF Leaves, OpNames
<1>2. /\ e.k \in {"reg", "const", "bin", "un", "cast", "mem"}
      /\ e.k = "un" => e.op \in {"not", "neg"}
      /\ e.k = "bin" => e.op \in Operators
      /\ e.k = "cast" => e.how \in {"L", "H", "U", "S"}
  BY ExpsAssumption
<1>3. CASE Atom(e)
  <2>1. Operates(<<I("STR", a, NoArg, c)>>, S, c, at)
    BY <1>1, OneIs
  <2>3. OperatorCode(e, a, b, c, at) = <<I("STR", a, NoArg, c)>>
    BY <1>3 DEF OperatorCode, Atom
  <2> QED
    BY <2>1, <2>3
<1>4. CASE e.k = "mem"
  <2>1. Operates(<<I("LDM", a, NoArg, c)>>, S, c, at)
    BY <1>1, OneIs
  <2>2. ~ Atom(e)
    BY <1>4 DEF Atom
  <2>3. OperatorCode(e, a, b, c, at) = <<I("LDM", a, NoArg, c)>>
    BY <1>4, <2>2 DEF OperatorCode
  <2> QED
    BY <2>1, <2>3
<1>5. CASE e.k = "cast"
  <2>1. Operates(CastCode(e.how, a, c, at), S, c, at)
    BY <1>2, <1>5, CastsAre
  <2>2. ~ Atom(e) /\ e.k # "mem"
    BY <1>5 DEF Atom
  <2>3. OperatorCode(e, a, b, c, at) = CastCode(e.how, a, c, at)
    BY <1>5, <2>2 DEF OperatorCode
  <2> QED
    BY <2>1, <2>3
<1>6. CASE e.k \in {"un", "bin"} /\ e.op \in DOMAIN Plain
  <2>1. Operates(<<I(Plain[e.op], a, b, c)>>, S, c, at)
    BY <1>6, PlainNames, OneIs
  <2>2. ~ Atom(e) /\ e.k # "mem" /\ e.k # "cast"
    BY <1>6 DEF Atom
  <2>4. e.op \notin {"s>>", "<>", "<=", ">", ">="}
    BY <1>6 DEF Plain
  <2>3. OperatorCode(e, a, b, c, at) = <<I(Plain[e.op], a, b, c)>>
    BY <1>6, <2>2, <2>4 DEF OperatorCode
  <2> QED
    BY <2>1, <2>3
<1>7. CASE e.k \in {"un", "bin"} /\ e.op \notin DOMAIN Plain
  <2>1. e.k = "bin" /\ e.op \in {"s>>", "<>", "<=", ">", ">="}
    BY <1>2, <1>7 DEF Plain, Operators
  <2>2. ~ Atom(e) /\ e.k # "mem" /\ e.k # "cast"
    BY <1>7 DEF Atom
  <2>3. CASE e.op = "s>>"
    <3>1. OperatorCode(e, a, b, c, at) = Arshift(a, b, c, at)
      BY <1>7, <2>1, <2>2, <2>3 DEF OperatorCode
    <3> QED
      BY <3>1, ArshiftIs
  <2>4. CASE e.op = "<>"
    <3>1. OperatorCode(e, a, b, c, at) = Neq(a, b, c, at)
      BY <1>7, <2>1, <2>2, <2>4 DEF OperatorCode
    <3> QED
      BY <3>1, ComparisonsAre
  <2>5. CASE e.op = "<="
    <3>1. OperatorCode(e, a, b, c, at) = Le(a, b, c, at)
      BY <1>7, <2>1, <2>2, <2>5 DEF OperatorCode
    <3> QED
      BY <3>1, ComparisonsAre
  <2>6. CASE e.op = ">"
    <3>1. OperatorCode(e, a, b, c, at) = Gt(a, b, c, at)
      BY <1>7, <2>1, <2>2, <2>6 DEF OperatorCode
    <3> QED
      BY <3>1, ComparisonsAre
  <2>7. CASE e.op = ">="
    <3>1. OperatorCode(e, a, b, c, at) = Ge(a, b, c, at)
      BY <1>7, <2>1, <2>2, <2>7 DEF OperatorCode
    <3> QED
      BY <3>1, ComparisonsAre
  <2> QED
    BY <2>1, <2>3, <2>4, <2>5, <2>6, <2>7
<1> QED
  BY <1>2, <1>3, <1>4, <1>5, <1>6, <1>7 DEF Atom

-----------------------------------------------------------------------------
(* The registers that the code from instruction at to before instruction   *)
(* to may make up, with counts from low to before high.                    *)
Own(at, to, low, high) ==
  {V(i, t) : i \in at .. to - 1, t \in Types} \cup {T(i, t) : i \in low .. high - 1, t \in Types}

(* No two registers of W have one name. *)
OnePerName(W) == \A x \in W, y \in W : x.name = y.name => x = y

LEMMA OwnAre ==
  ASSUME NEW at, NEW to, NEW low, NEW high, NEW x \in Own(at, to, low, high)
  PROVE  /\ x.k = "reg" /\ x.typ \in Types /\ Made(x)
         /\ \/ \E i \in at .. to - 1 : x.name = <<"V", i>> /\ x = V(i, x.typ)
            \/ \E i \in low .. high - 1 : x.name = <<"T", i>> /\ x = T(i, x.typ)
<1>1. CASE \E i \in at .. to - 1, t \in Types : x = V(i, t)
  BY <1>1, MadeRegisters
<1>2. CASE \E i \in low .. high - 1, t \in Types : x = T(i, t)
  BY <1>2, MadeRegisters
<1> QED
  BY <1>1, <1>2 DEF Own

LEMMA OwnGrows ==
  ASSUME NEW at \in Int, NEW to \in Int, NEW low \in Int, NEW high \in Int,
         NEW at2 \in Int, NEW to2 \in Int, NEW low2 \in Int, NEW high2 \in Int,
         at2 <= at, to <= to2, low2 <= low, high <= high2
  PROVE  Own(at, to, low, high) \subseteq Own(at2, to2, low2, high2)
<1>1. at .. to - 1 \subseteq at2 .. to2 - 1 /\ low .. high - 1 \subseteq low2 .. high2 - 1
  OBVIOUS
<1> QED
  BY <1>1 DEF Own

LEMMA OwnApart ==
  ASSUME NEW at \in Int, NEW mid \in Int, NEW to \in Int, NEW low \in Int, NEW half \in Int, NEW high \in Int,
         NEW x \in Own(at, mid, low, half), NEW y \in Own(mid, to, half, high)
  PROVE  x.name # y.name
<1>1. \/ \E i \in at .. mid - 1 : x.name = <<"V", i>>
      \/ \E i \in low .. half - 1 : x.name = <<"T", i>>
  BY OwnAre
<1>2. \/ \E i \in mid .. to - 1 : y.name = <<"V", i>>
      \/ \E i \in half .. high - 1 : y.name = <<"T", i>>
  BY OwnAre
<1> QED
  BY <1>1, <1>2

(* A set of such registers. *)
Within(W, at, to, low, high) == W \in SUBSET Own(at, to, low, high) /\ OnePerName(W)

(* Registers of codes one after the other. *)
LEMMA OwnJoin ==
  ASSUME NEW at \in Int, NEW mid \in Int, NEW to \in Int, NEW low \in Int, NEW half \in Int, NEW high \in Int,
         at <= mid, mid <= to, low <= half, half <= high,
         NEW W, Within(W, at, mid, low, half), NEW U, Within(U, mid, to, half, high)
  PROVE  Within(W \cup U, at, to, low, high)
<1>1. W \cup U \in SUBSET Own(at, to, low, high)
  <2>1. Own(at, mid, low, half) \subseteq Own(at, to, low, high)
    BY OwnGrows
  <2>2. Own(mid, to, half, high) \subseteq Own(at, to, low, high)
    BY OwnGrows
  <2> QED
    BY <2>1, <2>2 DEF Within
<1>2. \A x \in W, y \in U : x.name # y.name
  BY OwnApart DEF Within
<1> QED
  BY <1>1, <1>2 DEF Within, OnePerName

LEMMA NumberedAreOwn ==
  ASSUME NEW at \in Nat, NEW q, Len(q) \in Nat, NEW f \in Typings(at, q), NEW low \in Nat
  PROVE  Within(Numbered(f), at, at + Len(q), low, low)
<1>1. ASSUME NEW x \in Numbered(f)
      PROVE  \E i \in at .. at + Len(q) - 1 : x = V(i, f[i]) /\ f[i] \in Types /\ x.name = <<"V", i>>
  BY MadeRegisters DEF Numbered, Typings
<1>2. Numbered(f) \in SUBSET Own(at, at + Len(q), low, low)
  BY <1>1 DEF Own
<1>3. ASSUME NEW x \in Numbered(f), NEW y \in Numbered(f), x.name = y.name PROVE x = y
  <2>1. PICK i \in at .. at + Len(q) - 1 : x = V(i, f[i]) /\ x.name = <<"V", i>>
    BY <1>1
  <2>2. PICK j \in at .. at + Len(q) - 1 : y = V(j, f[j]) /\ y.name = <<"V", j>>
    BY <1>1
  <2>3. i = j
    BY <1>3, <2>1, <2>2
  <2> QED
    BY <2>1, <2>2, <2>3
<1> QED
  BY <1>2, <1>3 DEF Within, OnePerName


-----------------------------------------------------------------------------
LEMMA OverGrows ==
  ASSUME NEW S, NEW R, S \subseteq R
  PROVE  Over(S) \subseteq Over(R) /\ Seq(Over(S)) \subseteq Seq(Over(R)) /\ \A x : Into(S, x) \subseteq Into(R, x)
<1>1. Over(S) \subseteq Over(R) /\ \A x : Into(S, x) \subseteq Into(R, x)
  BY DEF Over, Into, Writable
<1>2. Seq(Over(S)) \subseteq Seq(Over(R))
  BY <1>1, SeqMonotonic
<1> QED
  BY <1>1, <1>2

LEMMA EndsGrows ==
  ASSUME NEW S, NEW R, S \subseteq R, NEW x, NEW q, Ends(q, Over(S), Into(S, x))
  PROVE  Ends(q, Over(R), Into(R, x))
<1>1. Over(S) \subseteq Over(R) /\ Into(S, x) \subseteq Into(R, x)
  BY OverGrows
<1>2. Over(S) \cup Into(S, x) \subseteq Over(R) \cup Into(R, x)
  BY <1>1
<1>3. Seq(Over(S) \cup Into(S, x)) \subseteq Seq(Over(R) \cup Into(R, x))
  BY <1>2, SeqMonotonic
<1> QED
  BY <1>1, <1>3 DEF Ends

(* The registers W of a code q that starts with instruction at and count   *)
(* low and leaves the count high.                                          *)
Names(W, q, at, low, high) == Within(W, at, at + Len(q), low, high)

(* What the lowering makes of an expression: code, and its value.          *)
IsLowered(r, num, at) ==
  /\ r.n \in Nat /\ num <= r.n
  /\ \E W : Names(W, r.code, at, num, r.n) /\ r.code \in Seq(Over(W \cup Leaves)) /\ r.arg \in W \cup Leaves

LEMMA GivenIs ==
  ASSUME NEW x \in Leaves, NEW num \in Nat, NEW at \in Nat
  PROVE  IsLowered(Given(x, num), num, at)
<1> DEFINE r == Given(x, num)
<1>1. r.n = num /\ r.code = <<>> /\ r.arg = x
  BY DEF Given
<1>2. Names({}, r.code, at, num, r.n)
  BY DEF Names, Within, OnePerName
<1>3. r.code \in Seq(Over({} \cup Leaves)) /\ r.arg \in {} \cup Leaves
  BY <1>1
<1> HIDE DEF r
<1>4. IsLowered(r, num, at)
  BY <1>1, <1>2, <1>3 DEF IsLowered
<1> QED
  BY <1>4 DEF r

(* Codes one after the other. *)
LEMMA CodesJoin ==
  ASSUME NEW q, NEW s, NEW at \in Nat, NEW low \in Nat, NEW half \in Nat, NEW high \in Nat, low <= half, half <= high,
         NEW W, Names(W, q, at, low, half), q \in Seq(Over(W \cup Leaves)),
         NEW U, Names(U, s, at + Len(q), half, high), s \in Seq(Over(U \cup Leaves))
  PROVE  /\ Names(W \cup U, q \o s, at, low, high) /\ q \o s \in Seq(Over((W \cup U) \cup Leaves))
         /\ Len(q \o s) = Len(q) + Len(s) /\ Len(q) \in Nat /\ Len(s) \in Nat
<1>1. W \cup Leaves \subseteq (W \cup U) \cup Leaves /\ U \cup Leaves \subseteq (W \cup U) \cup Leaves
  OBVIOUS
<1>2. q \in Seq(Over((W \cup U) \cup Leaves)) /\ s \in Seq(Over((W \cup U) \cup Leaves))
  BY <1>1, OverGrows
<1>3. /\ q \o s \in Seq(Over((W \cup U) \cup Leaves)) /\ Len(q \o s) = Len(q) + Len(s)
      /\ Len(q) \in Nat /\ Len(s) \in Nat
  BY <1>2, ConcatProperties
<1> DEFINE mid == at + Len(q)
           to == mid + Len(s)
<1>4. mid \in Int /\ to \in Int /\ at <= mid /\ mid <= to /\ to = at + Len(q \o s)
  BY <1>3
<1>5. Within(W, at, mid, low, half) /\ Within(U, mid, to, half, high)
  BY DEF Names
<1>6. Within(W \cup U, at, to, low, high)
  <2>1. at \in Int /\ low \in Int /\ half \in Int /\ high \in Int
    OBVIOUS
  <2> HIDE DEF mid, to
  <2> QED
    BY <1>4, <1>5, <2>1, OwnJoin, Zenon
<1>7. Names(W \cup U, q \o s, at, low, high)
  <2> HIDE DEF mid, to
  <2> QED
    BY <1>4, <1>6 DEF Names
<1> QED
  BY <1>3, <1>7

(* The operator after its operands. *)
LEMMA OperatorJoins ==
  ASSUME NEW p, NEW at \in Nat, NEW low \in Nat, NEW high \in Nat, low <= high,
         NEW W, Names(W, p, at, low, high), p \in Seq(Over(W \cup Leaves)),
         NEW q, NEW to, Operates(q, W \cup Leaves, to, at + Len(p))
  PROVE  /\ \E U : Names(U, p \o q, at, low, high) /\ Ends(p \o q, Over(U \cup Leaves), Into(U \cup Leaves, to))
         /\ Len(p \o q) \in Nat \ {0}
<1>1. Len(q) \in Nat \ {0} /\ Len(p) \in Nat
  BY DEF Operates
<1>2. PICK f \in Typings(at + Len(p), q) :
        Ends(q, Over((W \cup Leaves) \cup Numbered(f)), Into((W \cup Leaves) \cup Numbered(f), to))
  BY DEF Operates
<1> DEFINE U == W \cup Numbered(f)
           R == U \cup Leaves
<1>3. R = (W \cup Leaves) \cup Numbered(f) /\ W \cup Leaves \subseteq R
  OBVIOUS
<1> DEFINE mid == at + Len(p)
           end == mid + Len(q)
<1>4. mid \in Nat /\ end \in Nat /\ at <= mid /\ mid <= end
  BY <1>1
<1>5. Within(U, at, end, low, high)
  <2>1. Within(Numbered(f), mid, end, high, high)
    BY <1>1, <1>4, NumberedAreOwn
  <2>2. Within(W, at, mid, low, high)
    BY DEF Names
  <2>3. at \in Int /\ low \in Int /\ high \in Int /\ high <= high /\ mid \in Int /\ end \in Int
    BY <1>4
  <2> HIDE DEF mid, end
  <2> QED
    BY <1>4, <2>1, <2>2, <2>3, OwnJoin, Zenon
<1>6. p \in Seq(Over(R)) /\ Ends(q, Over(R), Into(R, to))
  BY <1>2, <1>3, OverGrows
<1> HIDE DEF R, U
<1>7. Ends(p \o q, Over(R), Into(R, to))
  BY <1>6, EndsAfter
<1>8. Len(p \o q) = Len(p) + Len(q)
  BY <1>6, EndsSeqs
<1>9. Names(U, p \o q, at, low, high) /\ Len(p \o q) \in Nat \ {0}
  <2>1. end = at + Len(p \o q) /\ Len(p \o q) \in Nat \ {0}
    BY <1>1, <1>8
  <2> HIDE DEF end
  <2> QED
    BY <1>5, <2>1 DEF Names
<1> QED
  BY <1>7, <1>9 DEF R


(* What Finished makes: code that ends with its result, in c or in one of  *)
(* its own registers.                                                      *)
IsFinished(r, c, num, at) ==
  /\ r.n \in Nat /\ num <= r.n /\ r.arg.typ \in Types /\ Len(r.code) \in Nat \ {0}
  /\ c # NoArg => r.arg = c
  /\ \E U : /\ Names(U, r.code, at, num, r.n) /\ Ends(r.code, Over(U \cup Leaves), Into(U \cup Leaves, r.arg))
            /\ c = NoArg => r.arg \in U

LEMMA FinishedIs ==
  ASSUME NEW e \in Exps, NEW num \in Nat, NEW at \in Nat, NEW c, c = NoArg \/ c.typ \in Types,
         NEW A, IsLowered(A, num, at), A.arg.typ \in Types,
         NEW R, IsLowered(R, A.n, at + Len(A.code))
  PROVE  IsFinished(Finished(c, e, A, R, at), c, num, at)
<1> DEFINE F == Finished(c, e, A, R, at)
           p == A.code \o R.code
           q == OperatorCode(e, A.arg, R.arg, F.arg, at + Len(A.code) + Len(R.code))
           t == IF e.k = "cast" THEN e.typ ELSE A.arg.typ
<1>1. /\ F.code = p \o q
      /\ F.arg = IF c = NoArg THEN T(R.n, t) ELSE c
      /\ F.n = IF c = NoArg THEN R.n + 1 ELSE R.n
  BY DEF Finished
<1>2. F.arg.typ \in Types
  <2>1. t \in Types
    BY ExpsAssumption DEF Types
  <2> HIDE DEF F, t
  <2>2. T(R.n, t).typ = t
    BY MadeRegisters
  <2> QED
    BY <1>1, <2>1, <2>2
<1>3. /\ A.n \in Nat /\ num <= A.n /\ R.n \in Nat /\ A.n <= R.n
  BY DEF IsLowered
<1>4. PICK W : Names(W, A.code, at, num, A.n) /\ A.code \in Seq(Over(W \cup Leaves)) /\ A.arg \in W \cup Leaves
  BY DEF IsLowered
<1>5. PICK U : /\ Names(U, R.code, at + Len(A.code), A.n, R.n) /\ R.code \in Seq(Over(U \cup Leaves))
               /\ R.arg \in U \cup Leaves
  BY DEF IsLowered
<1> DEFINE X == W \cup U
<1> HIDE DEF F
<1>6. /\ Names(X, p, at, num, R.n) /\ p \in Seq(Over(X \cup Leaves)) /\ Len(p) = Len(A.code) + Len(R.code)
      /\ Len(A.code) \in Nat /\ Len(R.code) \in Nat
  BY <1>3, <1>4, <1>5, CodesJoin
<1>7. A.arg \in X \cup Leaves /\ R.arg \in X \cup Leaves /\ Leaves \subseteq X \cup Leaves
  BY <1>4, <1>5
<1> HIDE DEF X, p, t
<1>8. Operates(q, X \cup Leaves, F.arg, at + Len(p))
  <2> DEFINE S == X \cup Leaves
             first == at + Len(A.code) + Len(R.code)
  <2>1. first \in Nat /\ first = at + Len(p)
    <3> DEFINE k == Len(A.code)
               m == Len(R.code)
    <3>1. k \in Nat /\ m \in Nat /\ Len(p) = k + m
      BY <1>6
    <3> HIDE DEF k, m
    <3>2. at + k + m \in Nat /\ at + k + m = at + Len(p)
      BY <3>1
    <3>3. first = at + k + m
      BY DEF k, m
    <3> QED
      BY <3>2, <3>3
  <2>2. A.arg \in S /\ R.arg \in S /\ Leaves \subseteq S
    BY <1>7
  <2> HIDE DEF S, first
  <2>3. Operates(OperatorCode(e, A.arg, R.arg, F.arg, first), S, F.arg, first)
    BY <1>2, <2>1, <2>2, OperatorCodeIs
  <2> QED
    BY <2>1, <2>3 DEF S, first
<1> HIDE DEF q
<1>9. num <= R.n
  BY <1>3
<1>10. PICK Y : Names(Y, p \o q, at, num, R.n) /\ Ends(p \o q, Over(Y \cup Leaves), Into(Y \cup Leaves, F.arg))
  BY <1>3, <1>6, <1>8, <1>9, OperatorJoins
<1>11. Len(p \o q) \in Nat \ {0}
  BY <1>3, <1>6, <1>8, <1>9, OperatorJoins
<1>12. CASE c # NoArg
  <2>1. F.arg = c /\ F.n = R.n
    BY <1>1, <1>12
  <2>2. IsFinished(F, c, num, at)
    BY <1>1, <1>2, <1>3, <1>9, <1>10, <1>11, <1>12, <2>1 DEF IsFinished
  <2> QED
    BY <2>2 DEF F
<1>13. CASE c = NoArg
  <2>1. F.arg = T(R.n, t) /\ F.n = R.n + 1 /\ F.arg.typ = t
    BY <1>1, <1>13, MadeRegisters
  <2> DEFINE to == at + Len(p \o q)
             Z == Y \cup {F.arg}
  <2>2. to \in Int /\ at <= to /\ to <= to /\ at \in Int /\ num \in Int /\ R.n \in Int /\ R.n + 1 \in Int /\ R.n <= R.n + 1
    BY <1>3, <1>11
  <2>3. Within(Y, at, to, num, R.n)
    BY <1>10 DEF Names
  <2>4. Within({F.arg}, to, to, R.n, R.n + 1)
    <3>1. R.n \in R.n .. (R.n + 1) - 1 /\ t \in Types
      BY <1>2, <1>3, <2>1
    <3>2. F.arg \in Own(to, to, R.n, R.n + 1)
      BY <2>1, <3>1 DEF Own
    <3> QED
      BY <3>2, Zenon DEF Within, OnePerName
  <2> HIDE DEF to
  <2>5. Within(Z, at, to, num, R.n + 1)
    BY <1>9, <2>2, <2>3, <2>4, OwnJoin, Zenon
  <2>6. Y \cup Leaves \subseteq Z \cup Leaves /\ F.arg \in Z
    OBVIOUS
  <2> HIDE DEF Z
  <2>7. Ends(p \o q, Over(Z \cup Leaves), Into(Z \cup Leaves, F.arg))
    BY <1>10, <2>6, EndsGrows
  <2>8. Names(Z, F.code, at, num, F.n) /\ F.code = p \o q
    BY <1>1, <2>1, <2>5 DEF Names, to
  <2>9. F.n \in Nat /\ num <= F.n
    BY <1>3, <2>1
  <2>10. IsFinished(F, c, num, at)
    BY <1>2, <1>11, <1>13, <2>6, <2>7, <2>8, <2>9 DEF IsFinished
  <2> QED
    BY <2>10 DEF F
<1> QED
  BY <1>12, <1>13

(* Without a c it is what the lowering makes of an expression. *)
LEMMA NewIsLowered ==
  ASSUME NEW r, NEW num \in Nat, NEW at \in Nat, IsFinished(r, NoArg, num, at)
  PROVE  IsLowered(r, num, at)
<1>1. PICK U : Names(U, r.code, at, num, r.n) /\ Ends(r.code, Over(U \cup Leaves), Into(U \cup Leaves, r.arg)) /\ r.arg \in U
  BY DEF IsFinished
<1> DEFINE S == U \cup Leaves
<1>2. r.arg \in Writable(S)
  <2>1. \A x \in U : x.k = "reg"
    BY <1>1, OwnAre DEF Names, Within
  <2> QED
    BY <1>1, <2>1 DEF Writable
<1>3. r.code \in Seq(Over(S))
  <2> HIDE DEF S
  <2>1. Into(S, r.arg) \subseteq Over(S)
    BY <1>2, IntoIsOver
  <2>2. Ends(r.code, Over(S), Into(S, r.arg))
    BY <1>1 DEF S
  <2> QED
    BY <2>1, <2>2, EndsWhole
<1>4. r.n \in Nat /\ num <= r.n /\ r.arg \in U \cup Leaves
  BY <1>1 DEF IsFinished
<1> QED
  BY <1>1, <1>3, <1>4 DEF IsLowered


-----------------------------------------------------------------------------
(* The definition of InTemporary, for any function f in its place. *)
Lowerings == Exps \X Nat \X Nat

FirstOperand(f, x) == IF Atom(x[1].a) THEN Given(x[1].a, x[2]) ELSE f[<<x[1].a, x[2], x[3]>>]
SecondOperand(f, x) ==
  LET A == FirstOperand(f, x)
  IN IF x[1].k # "bin" THEN Given(NoArg, A.n)
     ELSE IF Atom(x[1].b) THEN Given(x[1].b, A.n) ELSE f[<<x[1].b, A.n, x[3] + Len(A.code)>>]
Step(f, x) ==
  IF Atom(x[1]) THEN Given(x[1], x[2])
  ELSE Finished(NoArg, x[1], FirstOperand(f, x), SecondOperand(f, x), x[3])

(* The expressions that are less than deep, and what f must be for them. *)
Shallow(deep) == {x \in Lowerings : Depth[x[1]] < deep}
IsValue(r, num, at) == IsLowered(r, num, at) /\ r.arg.typ \in Types
Lowers(f, deep) == \A x \in Shallow(deep) : IsValue(f[x], x[2], x[3])

LEMMA AtomsAre ==
  ASSUME NEW e \in Exps, Atom(e), NEW num \in Nat, NEW at \in Nat
  PROVE  IsValue(Given(e, num), num, at)
<1>1. e \in Leaves /\ e.typ \in Types
  BY ExpsAssumption DEF Leaves, Atom, Types
<1>2. Given(e, num).arg = e
  BY DEF Given
<1> QED
  BY <1>1, <1>2, GivenIs DEF IsValue

LEMMA LoweredCode ==
  ASSUME NEW r, NEW num, NEW at, IsLowered(r, num, at)
  PROVE  Len(r.code) \in Nat /\ r.n \in Nat
<1>1. PICK W : r.code \in Seq(Over(W \cup Leaves))
  BY DEF IsLowered
<1>2. Len(r.code) \in Nat
  BY <1>1, LenProperties
<1> QED
  BY <1>2 DEF IsLowered

(* The operands of an operator are less deep than it is. *)
LEMMA OperandsAre ==
  ASSUME NEW deep \in Nat, NEW f, Lowers(f, deep), NEW x \in Shallow(deep + 1), ~ Atom(x[1])
  PROVE  /\ IsValue(FirstOperand(f, x), x[2], x[3])
         /\ IsLowered(SecondOperand(f, x), FirstOperand(f, x).n, x[3] + Len(FirstOperand(f, x).code))
         /\ x[1] \in Exps /\ x[2] \in Nat /\ x[3] \in Nat
         /\ ~ Atom(x[1].a) => <<x[1].a, x[2], x[3]>> \in Shallow(deep)
         /\ x[1].k = "bin" /\ ~ Atom(x[1].b) =>
              <<x[1].b, FirstOperand(f, x).n, x[3] + Len(FirstOperand(f, x).code)>> \in Shallow(deep)
<1> DEFINE e == x[1]
           A == FirstOperand(f, x)
           m == Len(A.code)
           R == SecondOperand(f, x)
<1>1. e \in Exps /\ x[2] \in Nat /\ x[3] \in Nat /\ Depth[e] < deep + 1
  BY DEF Shallow, Lowerings
<1>2. /\ e.a \in Exps /\ Depth[e.a] < Depth[e] /\ Depth[e] \in Nat /\ Depth[e.a] \in Nat
      /\ e.k = "bin" => e.b \in Exps /\ Depth[e.b] < Depth[e] /\ Depth[e.b] \in Nat
  BY <1>1, ExpsAssumption
<1>3. Depth[e.a] < deep /\ (e.k = "bin" => Depth[e.b] < deep)
  BY <1>1, <1>2
<1>4. \A u \in Nat, v \in Nat : /\ <<e.a, u, v>> \in Shallow(deep)
                                /\ e.k = "bin" => <<e.b, u, v>> \in Shallow(deep)
  BY <1>2, <1>3 DEF Shallow, Lowerings
<1>5. IsValue(A, x[2], x[3])
  <2>1. CASE Atom(e.a)
    <3>1. A = Given(e.a, x[2])
      BY <2>1 DEF FirstOperand
    <3> QED
      BY <1>1, <1>2, <2>1, <3>1, AtomsAre
  <2>2. CASE ~ Atom(e.a)
    <3> DEFINE y == <<e.a, x[2], x[3]>>
    <3>1. A = f[y] /\ y \in Shallow(deep) /\ y[2] = x[2] /\ y[3] = x[3]
      BY <1>1, <1>4, <2>2 DEF FirstOperand
    <3> HIDE DEF A, y
    <3> QED
      BY <3>1 DEF Lowers
  <2> QED
    BY <2>1, <2>2
<1> HIDE DEF A
<1>6. A.n \in Nat /\ m \in Nat
  BY <1>5, LoweredCode DEF IsValue
<1> HIDE DEF m
<1>7. x[3] + m \in Nat
  BY <1>1, <1>6
<1>8. IsLowered(R, A.n, x[3] + m)
  <2>1. CASE e.k # "bin"
    <3>1. R = Given(NoArg, A.n) /\ NoArg \in Leaves
      BY <2>1 DEF SecondOperand, Leaves, A
    <3> QED
      BY <1>6, <1>7, <3>1, GivenIs
  <2>2. CASE e.k = "bin" /\ Atom(e.b)
    <3>1. R = Given(e.b, A.n)
      BY <2>2 DEF SecondOperand, A
    <3> QED
      BY <1>2, <1>6, <1>7, <2>2, <3>1, AtomsAre DEF IsValue
  <2>3. CASE e.k = "bin" /\ ~ Atom(e.b)
    <3> DEFINE y == <<e.b, A.n, x[3] + m>>
    <3>1. R = f[y]
      BY <2>3 DEF SecondOperand, A, m
    <3>2. y \in Shallow(deep) /\ y[2] = A.n /\ y[3] = x[3] + m
      BY <1>4, <1>6, <1>7, <2>3
    <3> HIDE DEF R, y
    <3> QED
      BY <3>1, <3>2 DEF Lowers, IsValue
  <2> QED
    BY <2>1, <2>2, <2>3
<1>9. e.k = "bin" => <<e.b, A.n, x[3] + m>> \in Shallow(deep)
  BY <1>4, <1>6, <1>7
<1> QED
  BY <1>1, <1>4, <1>5, <1>8, <1>9 DEF A, m

LEMMA StepIs ==
  ASSUME NEW deep \in Nat, NEW f, Lowers(f, deep), NEW x \in Shallow(deep + 1)
  PROVE  IsValue(Step(f, x), x[2], x[3])
<1>1. CASE Atom(x[1])
  <2>1. Step(f, x) = Given(x[1], x[2]) /\ x[1] \in Exps /\ x[2] \in Nat /\ x[3] \in Nat
    BY <1>1 DEF Step, Shallow, Lowerings
  <2> QED
    BY <1>1, <2>1, AtomsAre
<1>2. CASE ~ Atom(x[1])
  <2> DEFINE A == FirstOperand(f, x)
             R == SecondOperand(f, x)
             F == Finished(NoArg, x[1], A, R, x[3])
  <2>1. Step(f, x) = F
    BY <1>2 DEF Step
  <2>2. IsLowered(A, x[2], x[3]) /\ A.arg.typ \in Types /\ IsLowered(R, A.n, x[3] + Len(A.code))
    BY <1>2, OperandsAre DEF IsValue
  <2>3. x[1] \in Exps /\ x[2] \in Nat /\ x[3] \in Nat
    BY <1>2, OperandsAre
  <2> HIDE DEF A, R
  <2>4. IsFinished(F, NoArg, x[2], x[3])
    BY <2>2, <2>3, FinishedIs
  <2> HIDE DEF F
  <2>5. IsLowered(F, x[2], x[3]) /\ F.arg.typ \in Types
    BY <2>3, <2>4, NewIsLowered DEF IsFinished
  <2> QED
    BY <2>1, <2>5 DEF IsValue
<1> QED
  BY <1>1, <1>2

(* The step depends on what is less deep only. *)
LEMMA StepAgrees ==
  ASSUME NEW deep \in Nat, NEW f, Lowers(f, deep), NEW g, \A y \in Shallow(deep) : f[y] = g[y],
         NEW x \in Shallow(deep + 1)
  PROVE  Step(f, x) = Step(g, x)
<1>1. CASE Atom(x[1])
  BY <1>1 DEF Step
<1>2. CASE ~ Atom(x[1])
  <2>1. FirstOperand(f, x) = FirstOperand(g, x)
    BY <1>2, OperandsAre DEF FirstOperand
  <2>2. SecondOperand(f, x) = SecondOperand(g, x)
    <3> DEFINE A == FirstOperand(f, x)
               y == <<x[1].b, A.n, x[3] + Len(A.code)>>
    <3>1. x[1].k = "bin" /\ ~ Atom(x[1].b) => y \in Shallow(deep)
      BY <1>2, OperandsAre
    <3>2. x[1].k = "bin" /\ ~ Atom(x[1].b) => f[y] = g[y]
      BY <3>1
    <3> HIDE DEF A
    <3>3. A = FirstOperand(f, x) /\ A = FirstOperand(g, x)
      BY <2>1 DEF A
    <3> QED
      BY <3>2, <3>3 DEF SecondOperand
  <2> QED
    BY <1>2, <2>1, <2>2 DEF Step
<1> QED
  BY <1>1, <1>2


(* A function that does what InTemporary does, for the shallow. *)
Level(f, deep) == f = [x \in Shallow(deep) |-> Step(f, x)]

LEMMA ShallowGrows ==
  /\ \A i \in Nat, k \in Nat : i <= k => Shallow(i) \subseteq Shallow(k)
  /\ Shallow(0) = {}
  /\ \A x \in Lowerings : Depth[x[1]] \in Nat /\ x \in Shallow(Depth[x[1]] + 1)
<1>1. \A x \in Lowerings : Depth[x[1]] \in Nat
  BY ExpsAssumption DEF Lowerings
<1> QED
  BY <1>1 DEF Shallow

LEMMA LevelsLower ==
  ASSUME NEW deep \in Nat, NEW f, \A x \in Shallow(deep) : f[x] = Step(f, x)
  PROVE  Lowers(f, deep)
<1> DEFINE G == {k \in 0 .. deep : Lowers(f, k)}
<1>1. 0 \in G
  BY ShallowGrows DEF Lowers
<1>2. ASSUME NEW k \in 0 .. deep - 1, k \in G PROVE k + 1 \in G
  <2>1. Lowers(f, k) /\ k \in Nat /\ k + 1 \in Nat /\ k + 1 <= deep /\ k + 1 \in 0 .. deep
    BY <1>2
  <2>2. \A x \in Shallow(k + 1) : IsValue(Step(f, x), x[2], x[3])
    BY <2>1, StepIs
  <2>3. Shallow(k + 1) \subseteq Shallow(deep)
    BY <2>1, ShallowGrows
  <2>4. Lowers(f, k + 1)
    BY <2>2, <2>3 DEF Lowers
  <2> QED
    BY <2>1, <2>4
<1> HIDE DEF G
<1>3. deep \in G
  BY <1>1, <1>2, UpTo
<1> QED
  BY <1>3 DEF G

LEMMA LevelLowers ==
  ASSUME NEW deep \in Nat, NEW f, Level(f, deep)
  PROVE  Lowers(f, deep) /\ \A x \in Shallow(deep) : f[x] = Step(f, x)
<1>1. \A x \in Shallow(deep) : f[x] = Step(f, x)
  BY DEF Level
<1> QED
  BY <1>1, LevelsLower

(* There is one such function at most. *)
LEMMA LevelsAgree ==
  ASSUME NEW deep \in Nat, NEW top \in Nat, deep <= top, NEW f, Level(f, deep), NEW g, Level(g, top)
  PROVE  \A x \in Shallow(deep) : f[x] = g[x]
<1> DEFINE G == {k \in 0 .. deep : \A x \in Shallow(k) : f[x] = g[x]}
<1>1. 0 \in G
  BY ShallowGrows
<1>2. ASSUME NEW k \in 0 .. deep - 1, k \in G PROVE k + 1 \in G
  <2>1. k \in Nat /\ k + 1 \in Nat /\ k + 1 <= deep /\ k + 1 <= top /\ k <= deep /\ k + 1 \in 0 .. deep
    BY <1>2
  <2>2. \A x \in Shallow(k) : f[x] = g[x]
    BY <1>2
  <2>3. Shallow(k + 1) \subseteq Shallow(deep) /\ Shallow(k + 1) \subseteq Shallow(top) /\ Shallow(k) \subseteq Shallow(deep)
    BY <2>1, ShallowGrows
  <2>4. Lowers(f, k)
    BY <2>3, LevelLowers DEF Lowers
  <2>5. ASSUME NEW x \in Shallow(k + 1) PROVE f[x] = g[x]
    <3>1. Step(f, x) = Step(g, x)
      BY <2>1, <2>2, <2>4, StepAgrees
    <3>2. f[x] = Step(f, x) /\ g[x] = Step(g, x)
      BY <2>3, LevelLowers
    <3> QED
      BY <3>1, <3>2
  <2> QED
    BY <2>1, <2>5
<1> HIDE DEF G
<1>3. deep \in G
  BY <1>1, <1>2, UpTo
<1> QED
  BY <1>3 DEF G

LEMMA LevelsExist == \A deep \in Nat : \E f : Level(f, deep)
<1> DEFINE D == {deep \in Nat : \E f : Level(f, deep)}
<1>1. 0 \in D
  <2> DEFINE f == [x \in Shallow(0) |-> x]
  <2>1. f = [x \in Shallow(0) |-> Step(f, x)]
    BY ShallowGrows
  <2> HIDE DEF f
  <2>2. Level(f, 0)
    BY <2>1 DEF Level
  <2> QED
    BY <2>2
<1>2. ASSUME NEW k \in D PROVE k + 1 \in D
  <2>1. PICK f : Level(f, k)
    OBVIOUS
  <2>2. k \in Nat /\ k + 1 \in Nat /\ Shallow(k) \subseteq Shallow(k + 1)
    BY ShallowGrows
  <2> DEFINE g == [x \in Shallow(k + 1) |-> Step(f, x)]
  <2>3. Lowers(f, k) /\ \A x \in Shallow(k) : f[x] = Step(f, x)
    BY <2>1, <2>2, LevelLowers
  <2>4. \A x \in Shallow(k) : f[x] = g[x]
    BY <2>2, <2>3
  <2>5. \A h : (\A x \in Shallow(k) : f[x] = h[x]) => \A x \in Shallow(k + 1) : Step(f, x) = Step(h, x)
    BY <2>2, <2>3, StepAgrees
  <2> DEFINE Same(h) == \A x \in Shallow(k + 1) : Step(f, x) = Step(h, x)
  <2>6. Same(g)
    <3> HIDE DEF g
    <3> QED
      BY <2>4, <2>5
  <2>7. g = [x \in Shallow(k + 1) |-> Step(g, x)]
    BY <2>6, Zenon
  <2> HIDE DEF g
  <2>8. Level(g, k + 1)
    BY <2>7 DEF Level
  <2> QED
    BY <2>2, <2>8
<1> HIDE DEF D
<1>3. D = Nat
  BY <1>1, <1>2, NaturalsByOne DEF D
<1> QED
  BY <1>3 DEF D


(* There is a function as the definition of InTemporary asks for: it takes *)
(* the value of x from the level of x.                                     *)
LEMMA LoweringExists == \E f : f = [x \in Lowerings |-> Step(f, x)]
<1> DEFINE Of(deep) == CHOOSE f : Level(f, deep)
           F == [x \in Lowerings |-> Of(Depth[x[1]] + 1)[x]]
<1>1. \A deep \in Nat : Level(Of(deep), deep)
  BY LevelsExist
<1> HIDE DEF Of
<1>2. ASSUME NEW x \in Lowerings PROVE F[x] = Step(F, x)
  <2> DEFINE d == Depth[x[1]]
             f == Of(d + 1)
  <2>1. d \in Nat /\ d + 1 \in Nat /\ x \in Shallow(d + 1)
    BY ShallowGrows
  <2>2. Level(f, d + 1)
    BY <1>1, <2>1
  <2>3. F[x] = f[x]
    OBVIOUS
  <2> HIDE DEF f
  <2>4. f[x] = Step(f, x)
    BY <2>1, <2>2, LevelLowers
  <2>5. Lowers(f, d)
    <3>1. Lowers(f, d + 1)
      BY <2>1, <2>2, LevelLowers
    <3>2. Shallow(d) \subseteq Shallow(d + 1)
      BY <2>1, ShallowGrows
    <3> QED
      BY <3>1, <3>2 DEF Lowers
  <2>6. ASSUME NEW y \in Shallow(d) PROVE f[y] = F[y]
    <3> DEFINE k == Depth[y[1]]
               g == Of(k + 1)
    <3>1. y \in Lowerings /\ k < d
      BY DEF Shallow
    <3>2. k \in Nat /\ k + 1 \in Nat /\ y \in Shallow(k + 1)
      BY <3>1, ShallowGrows
    <3>3. Level(g, k + 1)
      BY <1>1, <3>2
    <3>4. F[y] = g[y]
      BY <3>1
    <3> HIDE DEF g, F, d, k
    <3>5. k + 1 <= d + 1
      BY <2>1, <3>1, <3>2
    <3>6. g[y] = f[y]
      BY <2>1, <2>2, <3>2, <3>3, <3>5, LevelsAgree
    <3> QED
      BY <3>4, <3>6
  <2> HIDE DEF F, d
  <2>7. Step(f, x) = Step(F, x)
    BY <2>1, <2>5, <2>6, StepAgrees
  <2> QED
    BY <2>3, <2>4, <2>7
<1>3. F = [x \in Lowerings |-> F[x]]
  OBVIOUS
<1> HIDE DEF F
<1>4. F = [x \in Lowerings |-> Step(F, x)]
  BY <1>2, <1>3, Zenon
<1> QED
  BY <1>4

LEMMA InTemporaryIs == InTemporary = [x \in Lowerings |-> Step(InTemporary, x)]
<1> DEFINE Is(f) == f = [x \in Lowerings |-> Step(f, x)]
<1>1. \E f : Is(f)
  BY LoweringExists
<1>2. InTemporary = CHOOSE f : Is(f)
  BY DEF InTemporary, Step, FirstOperand, SecondOperand, Lowerings
<1> HIDE DEF Is
<1>3. Is(InTemporary)
  BY <1>1, <1>2, Zenon
<1> QED
  BY <1>3 DEF Is

(* What the lowering makes of every expression: code over its own          *)
(* registers, one for each name.                                           *)
LEMMA OperandIs ==
  ASSUME NEW e \in Exps, NEW num \in Nat, NEW at \in Nat
  PROVE  IsValue(Operand(e, num, at), num, at)
<1> DEFINE x == <<e, num, at>>
<1>1. x \in Lowerings /\ x[1] = e /\ x[2] = num /\ x[3] = at
  BY DEF Lowerings
<1> HIDE DEF x
<1>2. Depth[e] + 1 \in Nat /\ x \in Shallow(Depth[e] + 1) /\ Shallow(Depth[e] + 1) \subseteq Lowerings
  BY <1>1, ShallowGrows DEF Shallow
<1>3. \A y \in Shallow(Depth[e] + 1) : InTemporary[y] = Step(InTemporary, y)
  BY <1>2, InTemporaryIs
<1>4. Lowers(InTemporary, Depth[e] + 1)
  BY <1>2, <1>3, LevelsLower
<1>5. IsValue(InTemporary[x], x[2], x[3])
  BY <1>2, <1>4 DEF Lowers
<1> QED
  BY <1>1, <1>5 DEF Operand, x

(* The code that leaves the value of an expression in c. *)
LEMMA LowerIs ==
  ASSUME NEW c, c # NoArg, c.typ \in Types, NEW e \in Exps, NEW num \in Nat, NEW at \in Nat
  PROVE  IsFinished(Lower(c, e, num, at), c, num, at)
<1> DEFINE u == IF Atom(e) THEN e ELSE e.a
           A == Operand(u, num, at)
           m == Len(A.code)
           R == IF e.k = "bin" THEN Operand(e.b, A.n, at + m) ELSE Given(NoArg, A.n)
<1>1. u \in Exps /\ (e.k = "bin" => e.b \in Exps)
  BY ExpsAssumption
<1>2. Lower(c, e, num, at) = Finished(c, e, A, R, at)
  BY DEF Lower
<1> HIDE DEF u
<1>3. IsValue(A, num, at)
  BY <1>1, OperandIs
<1> HIDE DEF A
<1>4. A.n \in Nat /\ m \in Nat /\ A.arg.typ \in Types
  BY <1>3, LoweredCode DEF IsValue
<1> HIDE DEF m
<1>5. at + m \in Nat
  BY <1>4
<1>6. IsLowered(R, A.n, at + m)
  <2>1. CASE e.k = "bin"
    <3>1. R = Operand(e.b, A.n, at + m)
      BY <2>1
    <3> QED
      BY <1>1, <1>4, <1>5, <2>1, <3>1, OperandIs DEF IsValue
  <2>2. CASE e.k # "bin"
    <3>1. R = Given(NoArg, A.n) /\ NoArg \in Leaves
      BY <2>2 DEF Leaves
    <3> QED
      BY <1>4, <1>5, <3>1, GivenIs
  <2> QED
    BY <2>1, <2>2
<1> HIDE DEF R
<1>7. IsFinished(Finished(c, e, A, R, at), c, num, at)
  BY <1>3, <1>4, <1>6, FinishedIs DEF IsValue, m
<1> QED
  BY <1>2, <1>7


-----------------------------------------------------------------------------
(* Whole instructions: statements add what stores and what jumps, with no  *)
(* result.                                                                 *)
Args == Leaves \cup {V(i, t) : i \in Nat, t \in Types} \cup {T(i, t) : i \in Nat, t \in Types}
NoResult == {"STM", "JCC"}
Instructions == [op : OpNames \cup NoResult, a : Args, b : Args, c : Args]

(* A code whose made registers are its own, and where none is used at a    *)
(* size above the one it was given before.                                 *)
Fits(q, at, low, high) ==
  /\ q \in Seq(Instructions)
  /\ \A j \in DOMAIN q : q[j].op \notin NoResult => q[j].c.k = "reg"
  /\ \A j \in DOMAIN q : \A x \in Arguments(q[j]) :
       x.k = "reg" /\ Made(x) => \E y \in Own(at, at + Len(q), low, high) : y.name = x.name
  /\ \A i \in DOMAIN q, j \in DOMAIN q : \A x \in Arguments(q[j]) :
       i < j /\ q[i].op \notin NoResult /\ x.k = "reg" /\ Made(x) /\ x.name = q[i].c.name =>
         Bits[q[i].c.typ] >= Bits[x.typ]

LEMMA ArgsAre ==
  ASSUME NEW x \in Args
  PROVE  x.k = "reg" => x.typ \in Types /\ (~ Made(x) => x \in Leaves)
<1>1. CASE x \in Leaves
  BY <1>1, LeavesAreNotMade
<1>2. CASE x \notin Leaves
  BY <1>2, MadeRegisters DEF Args
<1> QED
  BY <1>1, <1>2

LEMMA OwnAreArgs ==
  ASSUME NEW at \in Nat, NEW to \in Int, NEW low \in Nat, NEW high \in Int
  PROVE  Own(at, to, low, high) \subseteq Args
<1>1. at .. to - 1 \subseteq Nat /\ low .. high - 1 \subseteq Nat
  OBVIOUS
<1> QED
  BY <1>1 DEF Own, Args

LEMMA OverAreInstructions ==
  ASSUME NEW S, S \subseteq Args
  PROVE  /\ Over(S) \subseteq Instructions
         /\ \A y \in Over(S) : y.c.k = "reg" /\ Arguments(y) \subseteq S /\ y.op \notin NoResult /\ y.c \in S
<1>1. Over(S) \subseteq Instructions
  BY DEF Over, Writable, Instructions
<1>2. OpNames \cap NoResult = {}
  BY DEF OpNames, NoResult
<1>3. ASSUME NEW y \in Over(S)
      PROVE  y.c.k = "reg" /\ Arguments(y) \subseteq S /\ y.op \notin NoResult /\ y.c \in S
  <2>1. y.a \in S /\ y.b \in S /\ y.c \in S /\ y.c.k = "reg" /\ y.op \in OpNames
    BY DEF Over, Writable
  <2> QED
    BY <1>2, <2>1 DEF Arguments
<1> QED
  BY <1>1, <1>3

(* A code over a set U of own registers and what BIL gives, but for bits,  *)
(* which have the least size: a register used as more than a bit is in U,  *)
(* and so is what the code before gave a value.                            *)
LEMMA FitsBy ==
  ASSUME NEW at \in Nat, NEW low \in Nat, NEW high \in Nat, NEW q \in Seq(Instructions),
         NEW U, Names(U, q, at, low, high),
         \A j \in DOMAIN q : q[j].op \notin NoResult => q[j].c.k = "reg",
         \A j \in DOMAIN q : \A x \in Arguments(q[j]) :
           \/ x \in U \cup Leaves
           \/ x.typ = "U1" /\ \E i \in at .. at + Len(q) - 1 : x = V(i, "U1"),
         \A i \in DOMAIN q, j \in DOMAIN q : \A x \in Arguments(q[j]) :
           i < j /\ q[i].op \notin NoResult => q[i].c \in U \cup Leaves \/ x.typ = "U1" \/ x \in Leaves
  PROVE  Fits(q, at, low, high)
<1> DEFINE O == Own(at, at + Len(q), low, high)
<1>1. U \subseteq O /\ \A x \in U, y \in U : x.name = y.name => x = y
  BY DEF Names, Within, OnePerName
<1>2. ASSUME NEW j \in DOMAIN q, NEW x \in Arguments(q[j]), x.k = "reg", Made(x)
      PROVE  \E y \in O : y.name = x.name
  <2>1. x \notin Leaves
    BY <1>2, LeavesAreNotMade
  <2>2. CASE x \in U
    BY <1>1, <2>2
  <2>3. CASE x \notin U
    <3>1. PICK i \in at .. at + Len(q) - 1 : x = V(i, "U1")
      BY <2>1, <2>3
    <3>2. x \in O
      BY <3>1, TypesAre DEF Own
    <3> QED
      BY <3>2
  <2> QED
    BY <2>2, <2>3
<1>3. ASSUME NEW j \in DOMAIN q PROVE Arguments(q[j]) \subseteq Args /\ q[j].c \in Arguments(q[j])
  <2>1. q[j] \in Instructions
    BY ElementOfSeq, LenProperties
  <2> QED
    BY <2>1 DEF Instructions, Arguments
<1>4. ASSUME NEW i \in DOMAIN q, NEW j \in DOMAIN q, NEW x \in Arguments(q[j]), i < j, q[i].op \notin NoResult,
             x.k = "reg", Made(x), x.name = q[i].c.name
      PROVE  Bits[q[i].c.typ] >= Bits[x.typ]
  <2>1. q[i].c.k = "reg" /\ q[i].c.typ \in Types /\ Made(q[i].c)
    BY <1>3, <1>4, ArgsAre DEF Made
  <2>2. CASE x.typ = "U1"
    BY <2>1, <2>2, TypesAre
  <2>3. CASE x.typ # "U1"
    <3>1. x \notin Leaves /\ q[i].c \notin Leaves
      BY <1>4, <2>1, LeavesAreNotMade
    <3>2. x \in U /\ q[i].c \in U
      BY <1>4, <2>3, <3>1
    <3>3. x = q[i].c
      BY <1>1, <1>4, <3>2
    <3>4. Bits[x.typ] \in Nat /\ q[i].c.typ = x.typ
      BY <2>1, <3>3, TypesAre
    <3>5. Bits[x.typ] >= Bits[x.typ]
      BY <3>4
    <3> QED
      BY <3>4, <3>5
  <2> QED
    BY <2>2, <2>3
<1> HIDE DEF O
<1> QED
  BY <1>2, <1>4 DEF Fits, O


LEMMA OwnNames ==
  ASSUME NEW U, NEW q, NEW at \in Nat, NEW low \in Nat, NEW high \in Nat, Names(U, q, at, low, high), Len(q) \in Nat
  PROVE  U \cup Leaves \subseteq Args
<1>1. Own(at, at + Len(q), low, high) \subseteq Args
  BY OwnAreArgs
<1> QED
  BY <1>1 DEF Names, Within, Args

(* A code over its own registers fits. *)
LEMMA OverFits ==
  ASSUME NEW at \in Nat, NEW low \in Nat, NEW high \in Nat, NEW q, NEW U, Names(U, q, at, low, high),
         q \in Seq(Over(U \cup Leaves))
  PROVE  Fits(q, at, low, high)
<1> DEFINE S == U \cup Leaves
<1>1. S \subseteq Args
  BY LenProperties, OwnNames
<1> HIDE DEF S
<1>2. /\ Over(S) \subseteq Instructions
      /\ \A y \in Over(S) : y.c.k = "reg" /\ Arguments(y) \subseteq S /\ y.op \notin NoResult /\ y.c \in S
  BY <1>1, OverAreInstructions
<1>3. q \in Seq(Instructions)
  BY <1>2, SeqMonotonic DEF S
<1>4. \A j \in DOMAIN q : q[j] \in Over(S)
  BY ElementOfSeq, LenProperties DEF S
<1> QED
  BY <1>2, <1>3, <1>4, FitsBy DEF S

LEMMA FitsEmpty ==
  ASSUME NEW at \in Nat, NEW low \in Nat, NEW high \in Nat
  PROVE  Fits(<<>>, at, low, high)
BY DEF Fits

(* Codes that fit, one after the other: no name is in both. *)
LEMMA FitsJoin ==
  ASSUME NEW at \in Nat, NEW low \in Nat, NEW half \in Nat, NEW high \in Nat, low <= half, half <= high,
         NEW q, Fits(q, at, low, half), NEW s, Fits(s, at + Len(q), half, high)
  PROVE  Fits(q \o s, at, low, high)
<1> DEFINE k == Len(q)
           m == Len(s)
           w == q \o s
<1>1. q \in Seq(Instructions) /\ s \in Seq(Instructions)
  BY DEF Fits
<1>2. k \in Nat /\ m \in Nat /\ DOMAIN q = 1 .. k /\ DOMAIN s = 1 .. m
  BY <1>1, LenProperties
<1>3. /\ w \in Seq(Instructions) /\ Len(w) = k + m /\ DOMAIN w = 1 .. k + m
      /\ \A i \in 1 .. k + m : w[i] = IF i <= k THEN q[i] ELSE s[i - k]
  BY <1>1, <1>2, ConcatProperties, LenProperties
<1>4. ASSUME NEW i \in DOMAIN w, ~ (i <= k) PROVE i - k \in DOMAIN s /\ w[i] = s[i - k]
  BY <1>2, <1>3, <1>4
<1>5. ASSUME NEW i \in DOMAIN w, i <= k PROVE i \in DOMAIN q /\ w[i] = q[i]
  BY <1>2, <1>3, <1>5
<1> DEFINE first == Own(at, at + k, low, half)
           second == Own(at + k, (at + k) + m, half, high)
           both == Own(at, at + (k + m), low, high)
<1>6. first \subseteq both /\ second \subseteq both
  <2>1. /\ at + k \in Int /\ (at + k) + m \in Int /\ at + (k + m) \in Int /\ at + k <= at + (k + m)
        /\ at <= at + k /\ (at + k) + m <= at + (k + m)
    BY <1>2
  <2> HIDE DEF k, m
  <2> QED
    BY <2>1, OwnGrows
<1>7. \A x \in first, y \in second : x.name # y.name
  <2>1. at + k \in Int /\ (at + k) + m \in Int
    BY <1>2
  <2> HIDE DEF k, m
  <2> QED
    BY <2>1, OwnApart
<1>8. /\ \A j \in DOMAIN q : \A x \in Arguments(q[j]) : x.k = "reg" /\ Made(x) => \E y \in first : y.name = x.name
      /\ \A j \in DOMAIN s : \A x \in Arguments(s[j]) : x.k = "reg" /\ Made(x) => \E y \in second : y.name = x.name
  BY DEF Fits
<1> HIDE DEF w, first, second, both, k, m
<1>9. ASSUME NEW j \in DOMAIN w PROVE w[j].op \notin NoResult => w[j].c.k = "reg"
  BY <1>4, <1>5 DEF Fits
<1>10. ASSUME NEW j \in DOMAIN w, NEW x \in Arguments(w[j]), x.k = "reg", Made(x)
       PROVE  \E y \in both : y.name = x.name
  BY <1>4, <1>5, <1>6, <1>8, <1>10
<1>11. ASSUME NEW i \in DOMAIN w, NEW j \in DOMAIN w, NEW x \in Arguments(w[j]), i < j, w[i].op \notin NoResult,
              x.k = "reg", Made(x), x.name = w[i].c.name
       PROVE  Bits[w[i].c.typ] >= Bits[x.typ]
  <2>1. CASE j <= k
    <3>1. i <= k /\ i \in DOMAIN q /\ j \in DOMAIN q /\ w[i] = q[i] /\ w[j] = q[j]
      BY <1>2, <1>3, <1>5, <1>11, <2>1
    <3> QED
      BY <1>11, <3>1 DEF Fits
  <2>2. CASE ~ (i <= k)
    <3>1. /\ ~ (j <= k) /\ i - k \in DOMAIN s /\ j - k \in DOMAIN s /\ w[i] = s[i - k] /\ w[j] = s[j - k]
          /\ i - k < j - k
      BY <1>2, <1>3, <1>4, <1>11, <2>2
    <3> QED
      BY <1>11, <3>1 DEF Fits
  <2>3. CASE i <= k /\ ~ (j <= k)
    <3>1. i \in DOMAIN q /\ w[i] = q[i] /\ j - k \in DOMAIN s /\ w[j] = s[j - k]
      BY <1>4, <1>5, <2>3
    <3>2. q[i].c.k = "reg" /\ q[i].c \in Arguments(q[i]) /\ Made(q[i].c)
      BY <1>11, <3>1 DEF Fits, Arguments, Made
    <3>3. PICK y \in first : y.name = q[i].c.name
      BY <1>8, <3>1, <3>2
    <3>4. PICK z \in second : z.name = x.name
      BY <1>8, <1>11, <3>1
    <3> QED
      BY <1>7, <1>11, <3>1, <3>3, <3>4
  <2> QED
    BY <2>1, <2>2, <2>3
<1>12. at + Len(w) = at + (k + m)
  BY <1>3
<1> QED
  BY <1>3, <1>9, <1>10, <1>11, <1>12 DEF Fits, both, w


(* What a statement adds. *)
IsLoweredStmt(r, num, at) == r.n \in Nat /\ num <= r.n /\ Fits(r.code, at, num, r.n)

(* A move: its code ends in a register of BIL. *)
LEMMA MoveIs ==
  ASSUME NEW s, IsStmt(s), s.kind = "move", NEW num \in Nat, NEW at \in Nat
  PROVE  IsLoweredStmt(Lower(s.to, s.exp, num, at), num, at)
<1> DEFINE r == Lower(s.to, s.exp, num, at)
           c == s.to
<1>1. c \in Leaves /\ c.k = "reg" /\ c # NoArg /\ c.typ \in Types /\ s.exp \in Exps
  BY ExpsAssumption DEF IsStmt, Leaves, Atom, NoArg, Types
<1>2. IsFinished(r, c, num, at)
  BY <1>1, LowerIs
<1> HIDE DEF r, c
<1>3. r.arg = c
  BY <1>1, <1>2 DEF IsFinished
<1>4. PICK U : Names(U, r.code, at, num, r.n) /\ Ends(r.code, Over(U \cup Leaves), Into(U \cup Leaves, c))
  BY <1>2, <1>3 DEF IsFinished
<1> DEFINE S == U \cup Leaves
<1>5. c \in Writable(S)
  BY <1>1 DEF Writable
<1>6. Ends(r.code, Over(S), Into(S, c))
  BY <1>4
<1> HIDE DEF S
<1>7. r.code \in Seq(Over(S))
  BY <1>5, <1>6, IntoIsOver, EndsWhole
<1>8. r.n \in Nat /\ num <= r.n
  BY <1>2 DEF IsFinished
<1>9. Fits(r.code, at, num, r.n)
  BY <1>4, <1>7, <1>8, OverFits DEF S
<1> QED
  BY <1>8, <1>9 DEF IsLoweredStmt, r, c

(* A code and one instruction more. *)
LEMMA AppendOne ==
  ASSUME NEW X, NEW q \in Seq(X), NEW y \in X
  PROVE  q \o <<y>> \in Seq(X) /\ Len(q \o <<y>>) = Len(q) + 1 /\ Len(q) \in Nat
<1> DEFINE s == <<y>>
<1>1. s \in Seq(X) /\ Len(s) = 1
  OBVIOUS
<1> HIDE DEF s
<1>2. q \o s \in Seq(X) /\ Len(q \o s) = Len(q) + Len(s) /\ Len(q) \in Nat
  BY <1>1, ConcatProperties, LenProperties
<1> QED
  BY <1>1, <1>2 DEF s

(* The code p is over U and what BIL gives, and then come instructions     *)
(* over bits and what BIL gives.                                           *)
LEMMA BitsAfter ==
  ASSUME NEW at \in Nat, NEW low \in Nat, NEW high \in Nat, NEW p \in Seq(Instructions), NEW s \in Seq(Instructions),
         NEW U, Names(U, p, at, low, high),
         \A j \in DOMAIN p : /\ {p[j].a, p[j].b} \subseteq U \cup Leaves /\ p[j].op \notin NoResult /\ p[j].c.k = "reg"
                             /\ p[j].c \in U \cup Leaves \/ (j = Len(p) /\ p[j].c = V(at, "U1")),
         \A j \in DOMAIN s : /\ s[j].op \notin NoResult => s[j].c.k = "reg"
                             /\ \A x \in Arguments(s[j]) :
                                  x \in Leaves \/ \E i \in {at, at + Len(p)} : x = V(i, "U1"),
         Len(s) # 0
  PROVE  Fits(p \o s, at, low, high)
<1> DEFINE k == Len(p)
           m == Len(s)
           w == p \o s
<1>1. k \in Nat /\ m \in Nat \ {0} /\ DOMAIN p = 1 .. k /\ DOMAIN s = 1 .. m
  BY LenProperties
<1>2. /\ w \in Seq(Instructions) /\ Len(w) = k + m /\ DOMAIN w = 1 .. k + m
      /\ \A i \in 1 .. k + m : w[i] = IF i <= k THEN p[i] ELSE s[i - k]
  BY <1>1, ConcatProperties, LenProperties
<1>3. ASSUME NEW i \in DOMAIN w, ~ (i <= k) PROVE i - k \in DOMAIN s /\ w[i] = s[i - k]
  BY <1>1, <1>2, <1>3
<1>4. ASSUME NEW i \in DOMAIN w, i <= k PROVE i \in DOMAIN p /\ w[i] = p[i]
  BY <1>1, <1>2, <1>4
<1>5. at \in at .. at + Len(w) - 1 /\ at + k \in at .. at + Len(w) - 1
  BY <1>1, <1>2
<1>6. Names(U, w, at, low, high)
  <2>1. at + k \in Int /\ at + Len(w) \in Int /\ at + k <= at + Len(w)
    BY <1>1, <1>2
  <2>2. Own(at, at + k, low, high) \subseteq Own(at, at + Len(w), low, high)
    <3> HIDE DEF k, w
    <3> QED
      BY <2>1, OwnGrows
  <2> QED
    BY <2>2 DEF Names, Within
<1>7. V(at, "U1").typ = "U1" /\ V(at + k, "U1").typ = "U1" /\ V(at, "U1").k = "reg"
  BY MadeRegisters
<1>8. /\ \A j \in DOMAIN p : /\ p[j].a \in U \cup Leaves /\ p[j].b \in U \cup Leaves
                             /\ p[j].op \notin NoResult /\ p[j].c.k = "reg"
                             /\ p[j].c \in U \cup Leaves \/ (j = k /\ p[j].c = V(at, "U1"))
      /\ \A j \in DOMAIN s : /\ s[j].op \notin NoResult => s[j].c.k = "reg"
                             /\ \A x \in Arguments(s[j]) : x \in Leaves \/ x = V(at, "U1") \/ x = V(at + k, "U1")
  OBVIOUS
<1> HIDE DEF w, k
<1>9. ASSUME NEW j \in DOMAIN w PROVE w[j].op \notin NoResult => w[j].c.k = "reg"
  BY <1>3, <1>4, <1>8
<1>10. ASSUME NEW j \in DOMAIN w, NEW x \in Arguments(w[j])
       PROVE  x \in U \cup Leaves \/ x = V(at, "U1") \/ x = V(at + k, "U1")
  <2>1. CASE j <= k
    <3>1. j \in DOMAIN p /\ x \in {p[j].a, p[j].b, p[j].c}
      BY <1>4, <2>1 DEF Arguments
    <3> QED
      BY <1>8, <3>1
  <2>2. CASE ~ (j <= k)
    BY <1>3, <1>8, <2>2
  <2> QED
    BY <2>1, <2>2
<1>11. ASSUME NEW i \in DOMAIN w, NEW j \in DOMAIN w, NEW x \in Arguments(w[j]), i < j, w[i].op \notin NoResult
       PROVE  w[i].c \in U \cup Leaves \/ x.typ = "U1" \/ x \in Leaves
  <2>1. CASE j <= k
    <3>1. i \in DOMAIN p /\ w[i] = p[i] /\ i # k
      BY <1>1, <1>2, <1>4, <1>11, <2>1
    <3> QED
      BY <1>8, <3>1
  <2>2. CASE ~ (j <= k)
    BY <1>3, <1>7, <1>8, <2>2
  <2> QED
    BY <2>1, <2>2
<1>12. ASSUME NEW j \in DOMAIN w, NEW x \in Arguments(w[j])
       PROVE  x \in U \cup Leaves \/ (x.typ = "U1" /\ \E i \in at .. at + Len(w) - 1 : x = V(i, "U1"))
  BY <1>5, <1>7, <1>10
<1>13. Fits(w, at, low, high)
  BY <1>2, <1>6, <1>9, <1>11, <1>12, FitsBy
<1> QED
  BY <1>13 DEF w


(* A store: address, value, and the store. *)
LEMMA StoreIs ==
  ASSUME NEW s, IsStmt(s), s.kind = "store", NEW num \in Nat, NEW at \in Nat
  PROVE  IsLoweredStmt(LowerStore(s, num, at), num, at)
<1> DEFINE r == LowerStore(s, num, at)
           A == Operand(s.to, num, at)
           m == Len(A.code)
           X == Operand(s.exp, A.n, at + m)
           p == A.code \o X.code
           y == I("STM", X.arg, NoArg, A.arg)
<1>1. r.code = p \o <<y>> /\ r.n = X.n
  BY DEF LowerStore, StoreCode
<1> HIDE DEF r
<1>2. IsLowered(A, num, at)
  BY OperandIs DEF IsStmt, IsValue
<1> HIDE DEF A
<1>3. A.n \in Nat /\ num <= A.n /\ m \in Nat
  BY <1>2, LoweredCode DEF IsLowered
<1>4. IsLowered(X, A.n, at + m)
  <2>1. at + m \in Nat
    BY <1>3
  <2> HIDE DEF m
  <2> QED
    BY <1>3, <2>1, OperandIs DEF IsStmt, IsValue
<1> HIDE DEF X
<1>5. X.n \in Nat /\ A.n <= X.n /\ num <= X.n
  BY <1>3, <1>4 DEF IsLowered
<1>6. PICK W : Names(W, A.code, at, num, A.n) /\ A.code \in Seq(Over(W \cup Leaves)) /\ A.arg \in W \cup Leaves
  BY <1>2 DEF IsLowered
<1>7. PICK Y : Names(Y, X.code, at + m, A.n, X.n) /\ X.code \in Seq(Over(Y \cup Leaves)) /\ X.arg \in Y \cup Leaves
  BY <1>4 DEF IsLowered
<1> DEFINE U == W \cup Y
           S == U \cup Leaves
<1>8. Names(U, p, at, num, X.n) /\ p \in Seq(Over(S))
  BY <1>3, <1>5, <1>6, <1>7, CodesJoin
<1>9. A.arg \in S /\ X.arg \in S /\ NoArg \in S
  BY <1>6, <1>7 DEF Leaves
<1> HIDE DEF U, p
<1>10. S \subseteq Args
  BY <1>5, <1>8, LenProperties, OwnNames
<1> HIDE DEF S
<1>11. /\ Over(S) \subseteq Instructions
       /\ \A x \in Over(S) : x.c.k = "reg" /\ Arguments(x) \subseteq S /\ x.op \notin NoResult /\ x.c \in S
  BY <1>10, OverAreInstructions
<1>12. y \in Instructions /\ Arguments(y) \subseteq S /\ y.op \in NoResult
  BY <1>9, <1>10 DEF I, Instructions, Arguments, NoResult
<1> HIDE DEF y
<1> DEFINE q == p \o <<y>>
           k == Len(p)
<1>13. p \in Seq(Instructions) /\ k \in Nat
  BY <1>8, <1>11, SeqMonotonic, LenProperties
<1>14. /\ q \in Seq(Instructions) /\ Len(q) = k + 1 /\ DOMAIN q = 1 .. k + 1
       /\ \A j \in 1 .. k : q[j] = p[j] /\ p[j] \in Over(S)
       /\ q[k + 1] = y
  <2>1. q \in Seq(Instructions) /\ Len(q) = k + 1
    BY <1>12, <1>13, AppendOne
  <2>2. DOMAIN q = 1 .. k + 1
    BY <2>1, LenProperties
  <2>3. q = Append(p, y)
    BY <1>12, <1>13, AppendIsConcat
  <2>4. \A j \in 1 .. k : q[j] = p[j] /\ p[j] \in Over(S)
    BY <1>8, <1>13, <2>3, AppendProperties, ElementOfSeq
  <2>5. q[k + 1] = y
    BY <1>12, <1>13, <2>3, AppendProperties
  <2> QED
    BY <2>1, <2>2, <2>4, <2>5
<1> HIDE DEF q, k
<1>15. Names(U, q, at, num, X.n)
  <2>1. at + k \in Int /\ at + Len(q) \in Int /\ at + k <= at + Len(q)
    BY <1>13, <1>14
  <2>2. Own(at, at + k, num, X.n) \subseteq Own(at, at + Len(q), num, X.n)
    BY <1>5, <2>1, OwnGrows
  <2>3. Within(U, at, at + k, num, X.n)
    BY <1>8 DEF Names, k
  <2> QED
    BY <2>2, <2>3 DEF Names, Within
<1>16. ASSUME NEW j \in DOMAIN q
       PROVE  Arguments(q[j]) \subseteq S /\ (q[j].op \notin NoResult => q[j].c.k = "reg" /\ q[j].c \in S)
  <2>1. CASE j = k + 1
    BY <1>12, <1>14, <2>1
  <2>2. CASE j # k + 1
    <3>1. q[j] \in Over(S)
      BY <1>13, <1>14, <2>2
    <3> QED
      BY <1>11, <3>1
  <2> QED
    BY <2>1, <2>2
<1>17. Fits(q, at, num, X.n)
  BY <1>5, <1>14, <1>15, <1>16, FitsBy DEF S
<1> QED
  BY <1>1, <1>5, <1>17 DEF IsLoweredStmt, q, r

(* A branch: the condition in a bit, and the jump. *)
LEMMA BranchIs ==
  ASSUME NEW s, IsStmt(s), s.kind = "branch", NEW num \in Nat, NEW at \in Nat
  PROVE  IsLoweredStmt(LowerBranch(s, num, at), num, at)
<1> DEFINE r == LowerBranch(s, num, at)
           v == V(at, "U1")
           C == IF s.exp.k = "reg" THEN Given(s.exp, num) ELSE Lower(v, s.exp, num, at)
           p == C.code
           w == V(at + Len(p), "U1")
           yes == <<I("JCC", C.arg, NoArg, Const(1, "U1"))>>
           no == <<I("NOT", C.arg, NoArg, w), I("JCC", w, NoArg, Const(0, "U1"))>>
           q == IF s.negate THEN no ELSE yes
<1>1. r.code = p \o q /\ r.n = C.n
  BY DEF LowerBranch, BranchCode
<1> HIDE DEF r
<1>2. s.exp \in Exps /\ v \in Args /\ v.k = "reg" /\ v.typ = "U1" /\ "U1" \in Types
  BY TypesAre, MadeRegisters DEF IsStmt, Args
<1>3. /\ C.n \in Nat /\ num <= C.n /\ C.arg \in Leaves \cup {v}
      /\ \E U : /\ Names(U, p, at, num, C.n) /\ p \in Seq(Instructions)
                /\ \A j \in DOMAIN p : /\ {p[j].a, p[j].b} \subseteq U \cup Leaves
                                       /\ p[j].op \notin NoResult /\ p[j].c.k = "reg"
                                       /\ p[j].c \in U \cup Leaves \/ (j = Len(p) /\ p[j].c = v)
  <2>1. CASE s.exp.k = "reg"
    <3>1. C = Given(s.exp, num) /\ s.exp \in Leaves
      BY <1>2, <2>1 DEF Leaves, Atom
    <3> HIDE DEF C
    <3>2. C.n = num /\ C.arg \in Leaves /\ p = <<>>
      BY <3>1 DEF Given
    <3>3. Names({}, p, at, num, C.n) /\ p \in Seq(Instructions) /\ DOMAIN p = {}
      BY <3>2 DEF Names, Within, OnePerName
    <3> QED
      BY <3>2, <3>3
  <2>2. CASE s.exp.k # "reg"
    <3>1. C = Lower(v, s.exp, num, at)
      BY <2>2
    <3>2. v # NoArg
      BY <1>2 DEF NoArg
    <3>3. IsFinished(C, v, num, at)
      BY <1>2, <3>1, <3>2, LowerIs
    <3> HIDE DEF C, v
    <3>4. C.n \in Nat /\ num <= C.n /\ C.arg = v
      BY <3>2, <3>3 DEF IsFinished
    <3>5. PICK U : Names(U, p, at, num, C.n) /\ Ends(p, Over(U \cup Leaves), Into(U \cup Leaves, v))
      BY <3>3, <3>4 DEF IsFinished
    <3> DEFINE S == U \cup Leaves
               k == Len(p)
    <3>6. /\ p \in Seq(Over(S) \cup Into(S, v)) /\ k \in Nat \ {0} /\ DOMAIN p = 1 .. k
          /\ \A j \in 1 .. k - 1 : p[j] \in Over(S)
          /\ p[k] \in Into(S, v)
      BY <3>5, LenProperties DEF Ends
    <3>7. S \subseteq Args
      BY <3>4, <3>5, <3>6, OwnNames
    <3> HIDE DEF S, k
    <3>8. /\ Over(S) \subseteq Instructions
          /\ \A x \in Over(S) : x.c.k = "reg" /\ Arguments(x) \subseteq S /\ x.op \notin NoResult /\ x.c \in S
      BY <3>7, OverAreInstructions
    <3>9. /\ Into(S, v) \subseteq Instructions
          /\ \A x \in Into(S, v) : x.c = v /\ x.a \in S /\ x.b \in S /\ x.op \notin NoResult
      BY <1>2, <3>7 DEF Into, Instructions, OpNames, NoResult
    <3>10. p \in Seq(Instructions)
      BY <3>6, <3>8, <3>9, SeqMonotonic
    <3>11. ASSUME NEW j \in DOMAIN p
           PROVE  /\ {p[j].a, p[j].b} \subseteq S /\ p[j].op \notin NoResult /\ p[j].c.k = "reg"
                  /\ p[j].c \in S \/ (j = k /\ p[j].c = v)
      <4>1. CASE j = k
        BY <1>2, <3>6, <3>9, <4>1
      <4>2. CASE j # k
        <5>1. p[j] \in Over(S)
          BY <3>6, <4>2
        <5> QED
          BY <3>8, <5>1 DEF Arguments
      <4> QED
        BY <4>1, <4>2
    <3> QED
      BY <3>4, <3>5, <3>10, <3>11 DEF S, k
  <2> QED
    BY <2>1, <2>2
<1> HIDE DEF C
<1>4. PICK U : /\ Names(U, p, at, num, C.n) /\ p \in Seq(Instructions)
               /\ \A j \in DOMAIN p : /\ {p[j].a, p[j].b} \subseteq U \cup Leaves
                                      /\ p[j].op \notin NoResult /\ p[j].c.k = "reg"
                                      /\ p[j].c \in U \cup Leaves \/ (j = Len(p) /\ p[j].c = v)
  BY <1>3
<1>5. Len(p) \in Nat
  BY <1>4, LenProperties
<1>6. w \in Args /\ w.k = "reg" /\ NoArg \in Leaves /\ Leaves \subseteq Args
  <2>1. at + Len(p) \in Nat
    BY <1>5
  <2> QED
    BY <1>2, <2>1, MadeRegisters DEF Args, Leaves
<1>7. Const(0, "U1") \in Leaves /\ Const(1, "U1") \in Leaves
  BY <1>2, ConstantsAre
<1> DEFINE Test(y) == /\ y \in Instructions /\ (y.op \notin NoResult => y.c.k = "reg")
                      /\ Arguments(y) \subseteq Leaves \cup {v, w}
<1>8. Test(I("JCC", C.arg, NoArg, Const(1, "U1")))
  BY <1>2, <1>3, <1>6, <1>7 DEF I, Instructions, Arguments, NoResult
<1>9. Test(I("NOT", C.arg, NoArg, w))
  BY <1>2, <1>3, <1>6 DEF I, Instructions, Arguments, NoResult, OpNames
<1>10. Test(I("JCC", w, NoArg, Const(0, "U1")))
  BY <1>2, <1>6, <1>7 DEF I, Instructions, Arguments, NoResult
<1> HIDE DEF Test
<1>11. /\ q \in Seq(Instructions) /\ Len(q) # 0
       /\ \A j \in DOMAIN q : Test(q[j])
  <2>1. yes \in Seq(Instructions) /\ Len(yes) = 1 /\ \A j \in DOMAIN yes : Test(yes[j])
    <3> DEFINE y == I("JCC", C.arg, NoArg, Const(1, "U1"))
    <3>1. y \in Instructions
      BY <1>8 DEF Test
    <3> HIDE DEF y
    <3> QED
      BY <1>8, <3>1 DEF y
  <2>2. no \in Seq(Instructions) /\ Len(no) = 2 /\ \A j \in DOMAIN no : Test(no[j])
    <3> DEFINE y == I("NOT", C.arg, NoArg, w)
               z == I("JCC", w, NoArg, Const(0, "U1"))
    <3>1. y \in Instructions /\ z \in Instructions
      BY <1>9, <1>10 DEF Test
    <3>2. \A j \in {1, 2} : Test(<<y, z>>[j])
      BY <1>9, <1>10
    <3> HIDE DEF y, z
    <3> QED
      BY <3>1, <3>2 DEF y, z
  <2> QED
    BY <2>1, <2>2
<1> HIDE DEF q
<1>12. \A j \in DOMAIN q : /\ q[j].op \notin NoResult => q[j].c.k = "reg"
                           /\ \A x \in Arguments(q[j]) :
                                x \in Leaves \/ \E i \in {at, at + Len(p)} : x = V(i, "U1")
  BY <1>11 DEF Test
<1>13. Fits(p \o q, at, num, C.n)
  <2> HIDE DEF p
  <2> QED
    BY <1>3, <1>4, <1>11, <1>12, BitsAfter
<1> QED
  BY <1>1, <1>3, <1>13 DEF IsLoweredStmt, r


LEMMA StmtIs ==
  ASSUME NEW s, IsStmt(s), NEW num \in Nat, NEW at \in Nat
  PROVE  IsLoweredStmt(LowerStmt(s, num, at), num, at)
<1>1. CASE s.kind = "move"
  <2>1. LowerStmt(s, num, at) = Lower(s.to, s.exp, num, at)
    BY <1>1 DEF LowerStmt
  <2> QED
    BY <1>1, <2>1, MoveIs
<1>2. CASE s.kind = "store"
  <2>1. LowerStmt(s, num, at) = LowerStore(s, num, at)
    BY <1>2 DEF LowerStmt
  <2> QED
    BY <1>2, <2>1, StoreIs
<1>3. CASE s.kind = "branch"
  <2>1. LowerStmt(s, num, at) = LowerBranch(s, num, at)
    BY <1>3 DEF LowerStmt
  <2> QED
    BY <1>3, <2>1, BranchIs
<1> QED
  BY <1>1, <1>2, <1>3 DEF IsStmt

-----------------------------------------------------------------------------
(* The code of a machine instruction: instructions marked with statements. *)
Marked == [insn : Instructions, stmt : Nat]
Unmarked(q) == [j \in DOMAIN q |-> q[j].insn]

LEMMA MarkedJoin ==
  ASSUME NEW q \in Seq(Marked), NEW s \in Seq(Instructions), NEW k \in Nat
  PROVE  LET t == [j \in DOMAIN s |-> [insn |-> s[j], stmt |-> k]]
         IN /\ q \o t \in Seq(Marked) /\ Unmarked(q \o t) = Unmarked(q) \o s
            /\ Unmarked(q) \in Seq(Instructions) /\ Len(Unmarked(q)) = Len(q) /\ Len(q) \in Nat
<1> DEFINE t == [j \in DOMAIN s |-> [insn |-> s[j], stmt |-> k]]
           m == Len(q)
           p == Len(s)
           u == Unmarked(q)
<1>1. m \in Nat /\ p \in Nat /\ DOMAIN q = 1 .. m /\ DOMAIN s = 1 .. p
  BY LenProperties
<1>2. (\A j \in 1 .. m : q[j] \in Marked) /\ (\A j \in 1 .. p : s[j] \in Instructions)
  BY ElementOfSeq
<1>3. t \in [1 .. p -> Marked] /\ \A j \in 1 .. p : t[j].insn = s[j]
  BY <1>1, <1>2 DEF Marked
<1>4. t \in Seq(Marked) /\ Len(t) = p
  <2> HIDE DEF t, p
  <2>1. t \in Seq(Marked)
    BY <1>1, <1>3, SeqDef
  <2> QED
    BY <1>1, <1>3, <2>1, LenProperties
<1>5. u \in [1 .. m -> Instructions] /\ \A j \in 1 .. m : u[j] = q[j].insn
  BY <1>1, <1>2 DEF Marked, Unmarked
<1>6. u \in Seq(Instructions) /\ Len(u) = m
  <2> HIDE DEF u, m
  <2>1. u \in Seq(Instructions)
    BY <1>1, <1>5, SeqDef
  <2> QED
    BY <1>1, <1>5, <2>1, LenProperties
<1> DEFINE w == q \o t
           z == u \o s
<1> HIDE DEF t, u
<1>7. /\ w \in Seq(Marked) /\ Len(w) = m + p /\ DOMAIN w = 1 .. m + p
      /\ \A i \in 1 .. m + p : w[i] = IF i <= m THEN q[i] ELSE t[i - m]
  <2>1. /\ w \in Seq(Marked) /\ Len(w) = Len(q) + Len(t)
        /\ \A i \in 1 .. Len(q) + Len(t) : w[i] = IF i <= Len(q) THEN q[i] ELSE t[i - Len(q)]
    BY <1>4, ConcatProperties
  <2> HIDE DEF w
  <2>2. DOMAIN w = 1 .. Len(w)
    BY <2>1, LenProperties
  <2> QED
    BY <1>4, <2>1, <2>2
<1>8. /\ z \in Seq(Instructions) /\ Len(z) = m + p /\ DOMAIN z = 1 .. m + p
      /\ \A i \in 1 .. m + p : z[i] = IF i <= m THEN u[i] ELSE s[i - m]
  <2>1. /\ z \in Seq(Instructions) /\ Len(z) = Len(u) + Len(s)
        /\ \A i \in 1 .. Len(u) + Len(s) : z[i] = IF i <= Len(u) THEN u[i] ELSE s[i - Len(u)]
    BY <1>6, ConcatProperties
  <2> HIDE DEF z
  <2>2. DOMAIN z = 1 .. Len(z)
    BY <2>1, LenProperties
  <2> QED
    BY <1>6, <2>1, <2>2
<1> HIDE DEF w, z, m, p
<1>9. ASSUME NEW i \in 1 .. m + p PROVE w[i].insn = z[i]
  <2>1. CASE i <= m
    <3>1. i \in 1 .. m
      BY <1>1, <2>1
    <3> QED
      BY <1>5, <1>7, <1>8, <2>1, <3>1
  <2>2. CASE ~ (i <= m)
    <3>1. i - m \in 1 .. p
      BY <1>1, <2>2
    <3> QED
      BY <1>3, <1>7, <1>8, <2>2, <3>1
  <2> QED
    BY <2>1, <2>2
<1>10. z = [i \in 1 .. m + p |-> z[i]]
  <2>1. z \in [1 .. m + p -> Instructions]
    BY <1>8, LenProperties
  <2> QED
    BY <2>1
<1>11. Unmarked(w) = z
  <2>1. DOMAIN w = 1 .. m + p
    BY <1>7
  <2>2. Unmarked(w) = [i \in 1 .. m + p |-> w[i].insn]
    BY <2>1 DEF Unmarked
  <2> QED
    BY <1>9, <1>10, <2>2
<1> QED
  BY <1>1, <1>6, <1>7, <1>11 DEF t, u, m, w, z

(* The definition of CodeUpTo, for any function f in its place. *)
Upto(stmts, f, k) ==
  IF k = 0 THEN [code |-> <<>>, n |-> 0, ok |-> TRUE]
  ELSE LET before == f[k - 1]
       IN Followed(before, LowerStmt(stmts[k], before.n, Len(before.code)), k)

LEMMA UptoExists ==
  ASSUME NEW stmts, Len(stmts) \in Nat
  PROVE  \E f : f = [k \in 0 .. Len(stmts) |-> Upto(stmts, f, k)]
<1> DEFINE top == Len(stmts)
           Is(f, m) == f = [k \in 0 .. m |-> Upto(stmts, f, k)]
           G == {m \in 0 .. top : \E f : Is(f, m)}
<1>1. 0 \in G
  <2> DEFINE f == [k \in 0 .. 0 |-> Upto(stmts, <<>>, 0)]
  <2>1. \A k \in 0 .. 0 : Upto(stmts, <<>>, 0) = Upto(stmts, f, k)
    BY DEF Upto
  <2>2. Is(f, 0)
    BY <2>1, Zenon
  <2> QED
    BY <2>2
<1>2. ASSUME NEW m \in 0 .. top - 1, m \in G PROVE m + 1 \in G
  <2>1. PICK f : Is(f, m)
    BY <1>2
  <2> DEFINE g == [k \in 0 .. m + 1 |-> IF k <= m THEN f[k] ELSE Upto(stmts, f, k)]
  <2>2. \A k \in 0 .. m : f[k] = Upto(stmts, f, k) /\ g[k] = f[k]
    BY <2>1
  <2>3. g[m + 1] = Upto(stmts, f, m + 1)
    OBVIOUS
  <2>4. g = [k \in 0 .. m + 1 |-> g[k]]
    OBVIOUS
  <2> HIDE DEF g
  <2>5. ASSUME NEW k \in 0 .. m + 1 PROVE g[k] = Upto(stmts, g, k)
    <3>1. g[k] = Upto(stmts, f, k)
      <4>1. k \in 0 .. m \/ k = m + 1
        OBVIOUS
      <4> QED
        BY <2>2, <2>3, <4>1
    <3>2. k # 0 => f[k - 1] = g[k - 1]
      <4>1. k # 0 => k - 1 \in 0 .. m
        OBVIOUS
      <4> QED
        BY <2>2, <4>1
    <3>3. Upto(stmts, f, k) = Upto(stmts, g, k)
      BY <3>2 DEF Upto
    <3> QED
      BY <3>1, <3>3
  <2>6. Is(g, m + 1)
    BY <2>4, <2>5, Zenon
  <2>7. m + 1 \in 0 .. top
    OBVIOUS
  <2> HIDE DEF Is
  <2> QED
    BY <2>6, <2>7
<1> HIDE DEF G
<1>3. top \in G
  BY <1>1, <1>2, UpTo
<1> QED
  BY <1>3 DEF G

LEMMA CodeUpToIs ==
  ASSUME NEW stmts, Len(stmts) \in Nat
  PROVE  \A k \in 0 .. Len(stmts) : CodeUpTo(stmts)[k] = Upto(stmts, CodeUpTo(stmts), k)
<1> DEFINE Is(f) == f = [k \in 0 .. Len(stmts) |-> Upto(stmts, f, k)]
<1>1. \E f : Is(f)
  BY UptoExists
<1>2. CodeUpTo(stmts) = CHOOSE f : Is(f)
  BY DEF CodeUpTo, Upto
<1> HIDE DEF Is
<1>3. Is(CodeUpTo(stmts))
  BY <1>1, <1>2, Zenon
<1> DEFINE c == CodeUpTo(stmts)
<1> HIDE DEF c
<1>4. c = [k \in 0 .. Len(stmts) |-> Upto(stmts, c, k)]
  BY <1>3 DEF Is, c
<1>5. \A k \in 0 .. Len(stmts) : c[k] = Upto(stmts, c, k)
  BY <1>4
<1> QED
  BY <1>5 DEF c


(* The code of a machine instruction. *)
IsCode(q) == q \in Seq(Marked) /\ \E high \in Nat : Fits(Unmarked(q), 0, 0, high)

LEMMA NoCodeIs == IsCode(<<>>)
<1>1. Unmarked(<<>>) = <<>>
  BY DEF Unmarked
<1>2. Fits(<<>>, 0, 0, 0)
  BY FitsEmpty
<1>3. <<>> \in Seq(Marked)
  OBVIOUS
<1> QED
  BY <1>1, <1>2, <1>3 DEF IsCode

LEMMA CodeIs ==
  ASSUME NEW stmts, Len(stmts) \in Nat, \A k \in 1 .. Len(stmts) : IsStmt(stmts[k])
  PROVE  IsCode(CodeOf(stmts))
<1> DEFINE top == Len(stmts)
           c == CodeUpTo(stmts)
           Is(r) == r.n \in Nat /\ r.code \in Seq(Marked) /\ Fits(Unmarked(r.code), 0, 0, r.n)
           G == {k \in 0 .. top : Is(c[k])}
<1>1. \A k \in 0 .. top : c[k] = Upto(stmts, c, k)
  BY CodeUpToIs
<1> HIDE DEF c
<1>2. 0 \in G
  <2>1. c[0] = [code |-> <<>>, n |-> 0, ok |-> TRUE]
    <3>1. c[0] = Upto(stmts, c, 0)
      BY <1>1
    <3> QED
      BY <3>1 DEF Upto
  <2>2. Unmarked(<<>>) = <<>> /\ <<>> \in Seq(Marked) /\ Fits(<<>>, 0, 0, 0)
    BY FitsEmpty DEF Unmarked
  <2>3. Is(c[0])
    BY <2>1, <2>2
  <2> HIDE DEF Is
  <2> QED
    BY <2>3
<1>3. ASSUME NEW i \in 0 .. top - 1, i \in G PROVE i + 1 \in G
  <2> DEFINE k == i + 1
             before == c[i]
             at == Len(before.code)
             now == LowerStmt(stmts[k], before.n, at)
             t == [j \in DOMAIN now.code |-> [insn |-> now.code[j], stmt |-> k]]
             q == Unmarked(before.code)
  <2>1. k \in 1 .. top /\ k \in 0 .. top /\ k \in Nat /\ k # 0 /\ k - 1 = i
    OBVIOUS
  <2>2. before.n \in Nat /\ before.code \in Seq(Marked) /\ Fits(q, 0, 0, before.n)
    BY <1>3
  <2>3. c[k] = [code |-> before.code \o t, n |-> now.n, ok |-> before.ok /\ now.ok]
    <3> HIDE DEF k
    <3>1. c[k] = Upto(stmts, c, k)
      BY <1>1, <2>1
    <3> QED
      BY <2>1, <3>1 DEF Upto, Followed
  <2> HIDE DEF k, before, c
  <2>4. at \in Nat
    BY <2>2, LenProperties
  <2> HIDE DEF at
  <2>5. IsLoweredStmt(now, before.n, at)
    BY <2>1, <2>2, <2>4, StmtIs
  <2> HIDE DEF now
  <2>6. now.n \in Nat /\ before.n <= now.n /\ Fits(now.code, at, before.n, now.n) /\ now.code \in Seq(Instructions)
    BY <2>5 DEF IsLoweredStmt, Fits
  <2>7. /\ before.code \o t \in Seq(Marked) /\ Unmarked(before.code \o t) = q \o now.code
        /\ Len(q) = Len(before.code)
    <3>1. before.code \in Seq(Marked) /\ now.code \in Seq(Instructions) /\ k \in Nat
      BY <2>1, <2>2, <2>6
    <3> QED
      BY <3>1, MarkedJoin
  <2> HIDE DEF t, q
  <2>8. Fits(q \o now.code, 0, 0, now.n)
    <3>1. 0 \in Nat /\ 0 <= before.n /\ 0 + Len(q) = at
      BY <2>2, <2>4, <2>7 DEF at
    <3> QED
      BY <2>2, <2>6, <3>1, FitsJoin
  <2>9. Is(c[k])
    <3> DEFINE w == before.code \o t
    <3>1. w \in Seq(Marked) /\ Unmarked(w) = q \o now.code
      BY <2>7
    <3> HIDE DEF w
    <3>2. c[k].n = now.n /\ c[k].code = w
      BY <2>3 DEF w
    <3> QED
      BY <2>6, <2>8, <3>1, <3>2
  <2> HIDE DEF Is
  <2>10. k \in G
    BY <2>1, <2>9
  <2> QED
    BY <2>10 DEF k
<1> HIDE DEF G
<1>4. top \in G
  BY <1>2, <1>3, UpTo
<1>5. Is(c[top])
  BY <1>4 DEF G
<1>6. CodeOf(stmts) = IF c[top].ok THEN c[top].code ELSE <<>>
  BY DEF CodeOf, CodeIfOk, c
<1> QED
  BY <1>5, <1>6, NoCodeIs DEF IsCode

-----------------------------------------------------------------------------
(* The execution.  Every register there is has the size it has in BIL, or, *)
(* when it is a temporary, the size of an instruction before that has it   *)
(* as its result.                                                          *)
SizeIsKnown(m) ==
  IF Temporary(m)
  THEN \E i \in 1 .. inum - 1 : /\ reil[i].insn.op \notin NoResult /\ reil[i].insn.c.name = m
                                /\ regs[m].size = reil[i].insn.c.typ
  ELSE m \in DOMAIN types /\ regs[m].size = types[m]

LowerInv ==
  /\ code \in Codes /\ types = TypesOf(code) /\ n \in DOMAIN code /\ reil = Lowered[code[n]]
  /\ inum \in 1 .. Len(reil) + 1
  /\ \A m \in DOMAIN regs : SizeIsKnown(m)

LEMMA CodesAre ==
  ASSUME NEW c \in Codes
  PROVE  /\ Len(c) \in Nat \ {0} /\ DOMAIN c = 1 .. Len(c)
         /\ \A i \in DOMAIN c : IsCode(Lowered[c[i]])
<1>1. c # <<>> /\ c \in Seq({c[i] : i \in DOMAIN c})
  BY CodesAssumption
<1>2. Len(c) \in Nat \ {0} /\ DOMAIN c = 1 .. Len(c)
  BY <1>1, LenProperties, EmptySeq
<1>3. ASSUME NEW i \in DOMAIN c PROVE IsCode(Lowered[c[i]])
  <2> DEFINE s == c[i]
  <2>1. s \in Seq({s[j] : j \in DOMAIN s}) /\ \A j \in DOMAIN s : IsStmt(s[j])
    BY CodesAssumption
  <2> HIDE DEF s
  <2>2. Len(s) \in Nat /\ \A j \in 1 .. Len(s) : IsStmt(s[j])
    BY <2>1, LenProperties
  <2>3. IsCode(CodeOf(s))
    BY <2>2, CodeIs
  <2>4. Lowered[c[i]] = CodeOf(c[i])
    BY DEF Lowered
  <2> QED
    BY <2>3, <2>4 DEF s
<1> QED
  BY <1>2, <1>3

(* The type of a register of BIL is the one it has everywhere. *)
LEMMA TypesOfAre ==
  ASSUME NEW c \in Codes, NEW i \in DOMAIN c, NEW x \in BilRegisters(c[i])
  PROVE  /\ x.name \in DOMAIN TypesOf(c)
         /\ ~ Temporary(x.name) => TypesOf(c)[x.name] = x.typ
         /\ \A y \in BilRegisters(c[i]) : y.name = x.name => y.typ = x.typ
<1> DEFINE R == UNION {BilRegisters(c[h]) : h \in DOMAIN c}
           z == CHOOSE y \in R : y.name = x.name
<1>1. x \in R
  OBVIOUS
<1>2. x.name \in DOMAIN TypesOf(c) /\ TypesOf(c)[x.name] = z.typ
  <2>1. TypesOf(c) = [m \in {y.name : y \in R} |-> (CHOOSE y \in R : y.name = m).typ]
    BY DEF TypesOf
  <2> HIDE DEF R
  <2> QED
    BY <1>1, <2>1
<1>3. z \in R /\ z.name = x.name
  <2> HIDE DEF R
  <2> QED
    BY <1>1
<1> HIDE DEF z
<1>4. PICK h \in DOMAIN c : z \in BilRegisters(c[h])
  BY <1>3
<1>5. \A j \in DOMAIN c : \A u \in BilRegisters(c[i]), v \in BilRegisters(c[j]) :
        u.name = v.name /\ (j = i \/ ~ Temporary(u.name)) => u.typ = v.typ
  BY CodesAssumption
<1> QED
  BY <1>2, <1>3, <1>4, <1>5

(* What the next instruction says of its registers. *)
LEMMA NowIs ==
  ASSUME LowerInv, inum \in DOMAIN reil
  PROVE  /\ inum \in Nat /\ Len(reil) \in Nat /\ DOMAIN reil = 1 .. Len(reil) /\ inum + 1 \in 1 .. Len(reil) + 1
         /\ Now.op \notin NoResult => Now.c.k = "reg"
         /\ \A x \in Arguments(Now) : x.k = "reg" =>
              /\ x.typ \in Types
              /\ ~ Made(x) => x \in BilRegisters(code[n])
              /\ \A i \in 1 .. inum - 1 :
                   reil[i].insn.op \notin NoResult /\ reil[i].insn.c.name = x.name =>
                     Bits[reil[i].insn.c.typ] >= Bits[x.typ]
<1> DEFINE q == Unmarked(reil)
<1>1. code \in Codes /\ n \in DOMAIN code /\ reil = Lowered[code[n]]
  BY DEF LowerInv
<1>2. reil \in Seq(Marked) /\ \E high \in Nat : Fits(q, 0, 0, high)
  BY <1>1, CodesAre DEF IsCode
<1>3. Len(reil) \in Nat /\ DOMAIN reil = 1 .. Len(reil) /\ DOMAIN q = DOMAIN reil /\ \A j \in DOMAIN reil : q[j] = reil[j].insn
  BY <1>2, LenProperties DEF Unmarked
<1>4. inum \in Nat /\ inum + 1 \in 1 .. Len(reil) + 1
  BY <1>3
<1>5. PICK high \in Nat : Fits(q, 0, 0, high)
  BY <1>2
<1> HIDE DEF q
<1>6. Now = q[inum] /\ \A i \in 1 .. inum - 1 : i \in DOMAIN q /\ i < inum /\ reil[i].insn = q[i]
  BY <1>3, <1>4 DEF Now
<1>7. ASSUME NEW j \in DOMAIN q PROVE Arguments(q[j]) \subseteq Args /\ q[j].c \in Arguments(q[j])
  <2>1. q \in Seq(Instructions)
    BY <1>5 DEF Fits
  <2>2. q[j] \in Instructions
    BY <2>1, ElementOfSeq, LenProperties
  <2> QED
    BY <2>2 DEF Instructions, Arguments
<1>8. Now.op \notin NoResult => Now.c.k = "reg"
  BY <1>3, <1>5, <1>6 DEF Fits
<1>9. ASSUME NEW x \in Arguments(Now), x.k = "reg"
      PROVE  /\ x.typ \in Types
             /\ ~ Made(x) => x \in BilRegisters(code[n])
             /\ \A i \in 1 .. inum - 1 :
                  reil[i].insn.op \notin NoResult /\ reil[i].insn.c.name = x.name =>
                    Bits[reil[i].insn.c.typ] >= Bits[x.typ]
  <2>1. x.typ \in Types
    BY <1>3, <1>6, <1>7, <1>9, ArgsAre
  <2>2. ASSUME ~ Made(x) PROVE x \in BilRegisters(code[n])
    BY <1>1, <1>9, <2>2 DEF BilRegisters, Now
  <2>3. ASSUME NEW i \in 1 .. inum - 1, reil[i].insn.op \notin NoResult, reil[i].insn.c.name = x.name
        PROVE  Bits[reil[i].insn.c.typ] >= Bits[x.typ]
    <3>1. i \in DOMAIN q /\ i < inum /\ reil[i].insn = q[i] /\ q[i].c.k = "reg"
      BY <1>5, <1>6, <2>3 DEF Fits
    <3>2. CASE Made(x)
      BY <1>3, <1>5, <1>6, <1>9, <2>3, <3>1, <3>2 DEF Fits
    <3>3. CASE ~ Made(x)
      <4>1. ~ Made(q[i].c) /\ q[i].c \in Arguments(q[i])
        BY <1>7, <2>3, <3>1, <3>3 DEF Made
      <4>2. q[i].c \in BilRegisters(code[n]) /\ x \in BilRegisters(code[n])
        BY <1>1, <1>3, <2>2, <3>1, <3>3, <4>1 DEF BilRegisters
      <4>3. q[i].c.typ = x.typ /\ Bits[x.typ] \in Nat
        BY <1>1, <2>1, <2>3, <3>1, <4>2, TypesOfAre, TypesAre
      <4>4. Bits[x.typ] >= Bits[x.typ]
        BY <4>3
      <4> QED
        BY <3>1, <4>3, <4>4
    <3> QED
      BY <3>2, <3>3
  <2> QED
    BY <2>1, <2>2, <2>3
<1> QED
  BY <1>3, <1>4, <1>8, <1>9


LEMMA LowerInvInit == LowerInit => LowerInv
<1> SUFFICES ASSUME LowerInit PROVE LowerInv
  OBVIOUS
<1>1. code \in Codes /\ types = TypesOf(code) /\ n = 1 /\ reil = Lowered[code[1]] /\ inum = 1
  BY DEF LowerInit
<1>2. n \in DOMAIN code /\ IsCode(reil)
  <2>1. 1 \in DOMAIN code
    BY <1>1, CodesAre
  <2> QED
    BY <1>1, <2>1, CodesAre
<1>3. inum \in 1 .. Len(reil) + 1
  <2>1. Len(reil) \in Nat
    BY <1>2, LenProperties DEF IsCode
  <2> QED
    BY <1>1, <2>1
<1>4. \A m \in DOMAIN regs : ~ Temporary(m) /\ m \in DOMAIN types /\ regs[m].size = types[m]
  <2>1. PICK env \in Inputs(types) :
          regs = [r \in {m \in DOMAIN types : ~ Temporary(m)} |-> [size |-> types[r], val |-> env[r]]]
    BY DEF LowerInit
  <2> QED
    BY <2>1
<1> QED
  BY <1>1, <1>2, <1>3, <1>4 DEF LowerInv, SizeIsKnown

(* A register that is written has its size already, or gets that of the    *)
(* instruction that writes it.                                             *)
LEMMA WriteKeeps ==
  ASSUME LowerInv, inum \in DOMAIN reil, Now.op \notin NoResult, NEW v, regs' = Write(regs, Now.c, v),
         inum' = inum + 1, UNCHANGED <<code, types, n, reil>>
  PROVE  LowerInv'
<1> DEFINE x == Now.c
<1>1. /\ inum \in Nat /\ inum + 1 \in 1 .. Len(reil) + 1 /\ x.k = "reg"
      /\ x.typ \in Types /\ (~ Made(x) => x \in BilRegisters(code[n]))
  <2>1. x \in Arguments(Now)
    BY DEF Arguments
  <2> QED
    BY <2>1, NowIs
<1>2. /\ DOMAIN regs' = DOMAIN regs \cup {x.name}
      /\ \A m \in DOMAIN regs' : regs'[m].size = IF m \in DOMAIN regs THEN regs[m].size ELSE x.typ
  BY <1>1 DEF Write, SizeOf, Named
<1>3. ASSUME NEW m \in DOMAIN regs' PROVE SizeIsKnown(m)'
  <2>1. CASE m \in DOMAIN regs
    <3>1. SizeIsKnown(m) /\ regs'[m].size = regs[m].size
      BY <1>2, <2>1 DEF LowerInv
    <3>2. CASE Temporary(m)
      <4>1. PICK i \in 1 .. inum - 1 : /\ reil[i].insn.op \notin NoResult /\ reil[i].insn.c.name = m
                                       /\ regs[m].size = reil[i].insn.c.typ
        BY <3>1, <3>2 DEF SizeIsKnown
      <4>2. i \in 1 .. inum' - 1
        BY <1>1
      <4> QED
        BY <3>1, <3>2, <4>1, <4>2 DEF SizeIsKnown
    <3>3. CASE ~ Temporary(m)
      BY <3>1, <3>3 DEF SizeIsKnown
    <3> QED
      BY <3>2, <3>3
  <2>2. CASE m \notin DOMAIN regs
    <3>1. m = x.name /\ regs'[m].size = x.typ
      BY <1>2, <2>2
    <3>2. CASE Temporary(m)
      <4>1. inum \in 1 .. inum' - 1
        BY <1>1, NowIs
      <4>2. reil'[inum].insn.op \notin NoResult /\ reil'[inum].insn.c = x
        BY DEF Now
      <4> QED
        BY <3>1, <3>2, <4>1, <4>2 DEF SizeIsKnown
    <3>3. CASE ~ Temporary(m)
      <4>1. ~ Made(x)
        BY <3>1, <3>3 DEF Made, Temporary
      <4>2. x \in BilRegisters(code[n]) /\ code \in Codes /\ n \in DOMAIN code /\ types = TypesOf(code)
        BY <1>1, <4>1 DEF LowerInv
      <4>3. m \in DOMAIN types /\ types[m] = x.typ
        BY <3>1, <3>3, <4>2, TypesOfAre
      <4> QED
        BY <3>1, <3>3, <4>3 DEF SizeIsKnown
    <3> QED
      BY <3>2, <3>3
  <2> QED
    BY <2>1, <2>2
<1> QED
  BY <1>1, <1>3 DEF LowerInv

(* An instruction that writes no register. *)
LEMMA NoWriteKeeps ==
  ASSUME LowerInv, inum \in DOMAIN reil, inum' = inum + 1, UNCHANGED <<code, types, n, reil, regs>>
  PROVE  LowerInv'
<1>1. inum \in Nat /\ inum + 1 \in 1 .. Len(reil) + 1
  BY NowIs
<1>2. ASSUME NEW m \in DOMAIN regs PROVE SizeIsKnown(m)'
  <2>1. SizeIsKnown(m)
    BY DEF LowerInv
  <2>2. 1 .. inum - 1 \subseteq 1 .. inum' - 1
    BY <1>1
  <2> QED
    BY <2>1, <2>2 DEF SizeIsKnown
<1> QED
  BY <1>1, <1>2 DEF LowerInv

LEMMA LowerInvNext == LowerInv /\ [LowerNext]_lowerVars => LowerInv'
<1> SUFFICES ASSUME LowerInv, [LowerNext]_lowerVars PROVE LowerInv'
  OBVIOUS
<1>1. CASE ExecStm
  BY <1>1, NoWriteKeeps DEF ExecStm, AtOp
<1>2. CASE ExecLdm
  <2>1. Now.op \notin NoResult /\ inum \in DOMAIN reil
    BY <1>2 DEF ExecLdm, AtOp, Now, NoResult
  <2> QED
    BY <1>2, <2>1, WriteKeeps DEF ExecLdm
<1>3. CASE ExecJcc
  BY <1>3, NoWriteKeeps DEF ExecJcc, AtOp
<1>4. CASE ExecOther
  <2>1. Now.op \notin NoResult /\ inum \in DOMAIN reil
    BY <1>4 DEF ExecOther, NoResult
  <2>2. PICK v : regs' = Write(regs, Now.c, v)
    BY <1>4 DEF ExecOther
  <2> QED
    BY <1>4, <2>1, <2>2, WriteKeeps DEF ExecOther
<1>5. CASE NextInsn
  <2>1. n' = n + 1 /\ reil' = Lowered[code[n + 1]] /\ inum' = 1 /\ regs' = ResetTemp(regs) /\ UNCHANGED <<code, types>>
    BY <1>5 DEF NextInsn
  <2>2. code \in Codes /\ types = TypesOf(code) /\ n \in DOMAIN code
    BY DEF LowerInv
  <2>3. n + 1 \in DOMAIN code
    BY <1>5, <2>2, CodesAre DEF NextInsn
  <2>4. inum' \in 1 .. Len(reil') + 1
    <3>1. IsCode(reil')
      BY <2>1, <2>2, <2>3, CodesAre
    <3>2. Len(reil') \in Nat
      BY <3>1, LenProperties DEF IsCode
    <3> QED
      BY <2>1, <3>2
  <2>5. ASSUME NEW m \in DOMAIN regs' PROVE SizeIsKnown(m)'
    <3>1. m \in DOMAIN regs /\ ~ Temporary(m) /\ regs'[m] = regs[m]
      BY <2>1 DEF ResetTemp
    <3>2. SizeIsKnown(m)
      BY <3>1 DEF LowerInv
    <3> QED
      BY <2>1, <3>1, <3>2 DEF SizeIsKnown
  <2> QED
    BY <2>1, <2>2, <2>3, <2>4, <2>5 DEF LowerInv
<1>6. CASE UNCHANGED lowerVars
  <2>1. UNCHANGED <<code, types, n, reil, inum, regs>>
    BY <1>6 DEF lowerVars
  <2> QED
    BY <2>1 DEF LowerInv, SizeIsKnown
<1> QED
  BY <1>1, <1>2, <1>3, <1>4, <1>5, <1>6 DEF LowerNext

LEMMA LowerInvSafe == LowerInv => NoneCut
<1> SUFFICES ASSUME LowerInv, inum \in DOMAIN reil, NEW x \in Arguments(Now), Named(regs, x)
             PROVE  Bits[regs[x.name].size] >= Bits[x.typ]
  BY DEF NoneCut
<1>1. /\ x.k = "reg" /\ x.name \in DOMAIN regs /\ x.typ \in Types
      /\ ~ Made(x) => x \in BilRegisters(code[n])
      /\ \A i \in 1 .. inum - 1 :
           reil[i].insn.op \notin NoResult /\ reil[i].insn.c.name = x.name => Bits[reil[i].insn.c.typ] >= Bits[x.typ]
  BY NowIs DEF Named
<1>2. SizeIsKnown(x.name)
  BY <1>1 DEF LowerInv
<1>3. CASE Temporary(x.name)
  BY <1>1, <1>2, <1>3 DEF SizeIsKnown
<1>4. CASE ~ Temporary(x.name)
  <2>1. ~ Made(x)
    BY <1>4 DEF Made, Temporary
  <2>2. x \in BilRegisters(code[n]) /\ code \in Codes /\ n \in DOMAIN code /\ types = TypesOf(code)
    BY <1>1, <2>1 DEF LowerInv
  <2>3. regs[x.name].size = x.typ
    BY <1>2, <1>4, <2>2, TypesOfAre DEF SizeIsKnown
  <2>4. Bits[x.typ] \in Nat
    BY <1>1, TypesAre
  <2>5. Bits[x.typ] >= Bits[x.typ]
    BY <2>4
  <2> QED
    BY <2>3, <2>5
<1> QED
  BY <1>3, <1>4

(* Whatever the statements of the machine instructions, however deep their *)
(* expressions, and whatever the registers hold: the emulator never names  *)
(* a register at a size above the one it keeps for it (Cpu.reg of VM.py    *)
(* against the temporaries that CReilFromBilTranslator makes up).          *)
THEOREM NoValueIsCut == LowerSpec => []NoneCut
<1>1. LowerSpec => []LowerInv
  BY LowerInvInit, LowerInvNext, PTL DEF LowerSpec
<1> QED
  BY <1>1, LowerInvSafe, PTL
=============================================================================
