----------------------------- MODULE ReilProofs ------------------------------
(***************************************************************************)
(* Proofs about the translation of BIL to REIL and about running what it   *)
(* makes, for every set of operators and every number of instructions they *)
(* are lowered to.  First the translator, for all BIL code, well formed or *)
(* not.  Then that running the translated code is running the BIL code it  *)
(* was made from: ReilRun implements BilRun, for every set of operators,   *)
(* lowering, labels and programs.  There the invariant follows the numbers *)
(* of the translator: the instruction at a number belongs to the first     *)
(* statement that does something from the place in the BIL code the number *)
(* stands for.                                                             *)
(***************************************************************************)
EXTENDS ReilRun, SequenceTheorems, WellFoundedInduction, TLAPS

Makes(i) == block[i].kind \in {"move", "jmp", "cjmp"}

(* Nothing from i on makes an instruction.                                 *)
NothingFrom(i) == \A n \in i .. Len(block) : block[n].kind \notin {"move", "cjmp", "jmp"}

Numbered(is) == \A j \in DOMAIN is : is[j].inum = j - 1

(* The end is marked on the last instruction, and only if it is the last.  *)
EndMarked(is, last) ==
  \A j \in DOMAIN is : "end" \in is[j].flags <=> (j = Len(is) /\ last)

(* Jumps are not resolved while instructions are made.                     *)
NoneResolved(is) == \A j \in DOMAIN is : is[j].to.at # "here"

(* A label is in front of an instruction there is, or there will be.       *)
LabelsInside(ls, n, last) ==
  \A i \in DOMAIN ls :
    /\ ls[i].loc.at \in {"here", "next"}
    /\ ls[i].loc.at = "here" => (ls[i].loc.inum < n \/ (ls[i].loc.inum <= n /\ ~ last))

WhileLowering ==
  phase = "stmts" =>
    /\ cur \in 1 .. Len(block) + 1
    /\ instCount = Len(insts)
    /\ Numbered(insts) /\ NoneResolved(insts)
    /\ EndMarked(insts, NothingFrom(cur))
    /\ LabelsInside(labels, instCount, NothingFrom(cur))

BeforeUnknown == phase = "unknown" => labels = <<>>

WhenComplete ==
  phase = "resolve" =>
    /\ Numbered(insts) /\ NoneResolved(insts)
    /\ EndMarked(insts, TRUE)
    /\ LabelsInside(labels, Len(insts), TRUE)

IInv ==
  /\ BilTypeOK /\ WhileLowering /\ BeforeUnknown /\ WhenComplete
  /\ NumberedToTheEnd /\ JumpsResolved

-----------------------------------------------------------------------------
(* Instructions that go on with the numbering, whose last one carries the  *)
(* mark of the end if nothing follows, keep the invariant of the list.     *)
LEMMA AddingCode ==
  ASSUME NEW is \in Seq(ReilInsn), NEW new \in Seq(ReilInsn), new # <<>>,
         NEW last \in BOOLEAN,
         Numbered(is), NoneResolved(is), EndMarked(is, FALSE),
         \A k \in DOMAIN new : /\ new[k].inum = Len(is) + k - 1
                               /\ new[k].to.at # "here"
                               /\ "end" \in new[k].flags <=> (k = Len(new) /\ last)
  PROVE  /\ is \o new \in Seq(ReilInsn)
         /\ Len(is \o new) = Len(is) + Len(new) /\ Len(new) > 0
         /\ Numbered(is \o new) /\ NoneResolved(is \o new) /\ EndMarked(is \o new, last)
<1> DEFINE all == is \o new
<1>1. /\ all \in Seq(ReilInsn) /\ Len(all) = Len(is) + Len(new)
      /\ \A i \in 1 .. Len(is) + Len(new) : all[i] = IF i <= Len(is) THEN is[i] ELSE new[i - Len(is)]
  BY ConcatProperties
<1>2. Len(new) > 0 /\ Len(new) \in Nat /\ Len(is) \in Nat
  BY EmptySeq, LenProperties
<1>3. ASSUME NEW j \in 1 .. Len(is) + Len(new)
      PROVE  /\ all[j].inum = j - 1 /\ all[j].to.at # "here"
             /\ "end" \in all[j].flags <=> (j = Len(is) + Len(new) /\ last)
  <2>2. CASE j <= Len(is)
    <3>1. j \in DOMAIN is /\ all[j] = is[j]
      BY <1>1, <1>2, <2>2
    <3>2. j # Len(is) + Len(new)
      BY <1>2, <2>2
    <3>. QED  BY <3>1, <3>2 DEF Numbered, NoneResolved, EndMarked
  <2>3. CASE j > Len(is)
    <3>1. j - Len(is) \in DOMAIN new /\ all[j] = new[j - Len(is)]
      BY <1>1, <1>2, <2>3
    <3>2. (j - Len(is) = Len(new)) <=> (j = Len(is) + Len(new))
      BY <1>2
    <3>3. Len(is) + (j - Len(is)) - 1 = j - 1
      BY <1>2
    <3>. QED  BY <3>1, <3>2, <3>3
  <2>. QED  BY <1>2, <2>2, <2>3
<1>. QED  BY <1>1, <1>2, <1>3 DEF Numbered, NoneResolved, EndMarked

(* Labels keep inside when code is added.                                  *)
LEMMA LabelsKeep ==
  ASSUME NEW ls \in Seq(Label), NEW n \in Nat, NEW m \in Nat, m > 0,
         NEW last, NEW last2, LabelsInside(ls, n, last)
  PROVE  LabelsInside(ls, n + m, last2)
<1>1. \A i \in DOMAIN ls : ls[i] \in Label
  BY ElementOfSeq
<1>2. \A i \in DOMAIN ls : ls[i].loc.inum \in Nat
  BY <1>1 DEF Label, Locs
<1>. QED  BY <1>2 DEF LabelsInside

(* What a jump names is not yet a place inside the machine instruction.    *)
LEMMA TargetOfType ==
  ASSUME NEW t \in Targets
  PROVE  TargetOf(t) \in Locs /\ TargetOf(t).at # "here"
  BY DEF TargetOf, Targets, Locs, OtherPc, InReg, NextInsn, Named

LEMMA FlagsType ==
  ASSUME NEW i
  PROVE  /\ StmtFlags(i) \subseteq {"end", "bb", "call", "ret"}
         /\ JumpFlags(i) \subseteq {"end", "bb", "call", "ret"}
         /\ "end" \in StmtFlags(i) <=> IsLast(i)
         /\ "end" \in JumpFlags(i) <=> IsLast(i)
  BY DEF StmtFlags, JumpFlags

(* The code of an operator.                                                *)
LEMMA CodeType ==
  ASSUME NEW op \in Ops, NEW flags \in SUBSET {"end", "bb", "call", "ret"},
         instCount \in Nat, cur \in Nat
  PROVE  /\ Code(op, flags) \in Seq(ReilInsn) /\ Code(op, flags) # <<>>
         /\ Len(Code(op, flags)) = Emits[op]
         /\ \A k \in DOMAIN Code(op, flags) :
              /\ Code(op, flags)[k].inum = instCount + k - 1
              /\ Code(op, flags)[k].to.at # "here"
              /\ "end" \in Code(op, flags)[k].flags <=> (k = Len(Code(op, flags)) /\ "end" \in flags)
<1>1. Emits[op] \in Nat /\ Emits[op] > 0
  BY EmitsAssumption
<1>2. \A k \in 1 .. Emits[op] :
        Insn(instCount + k - 1, "op", IF k = Emits[op] THEN flags ELSE {}, NoWhere, "-", cur) \in ReilInsn
  BY <1>1 DEF Insn, ReilInsn, NoWhere, Locs
<1>3. Code(op, flags) \in Seq(ReilInsn) /\ Len(Code(op, flags)) = Emits[op]
      /\ DOMAIN Code(op, flags) = 1 .. Emits[op]
  BY <1>1, <1>2 DEF Code
<1>4. Code(op, flags) # <<>>
  BY <1>1, <1>3
<1>. QED  BY <1>1, <1>3, <1>4 DEF Code, Insn, NoWhere

(* A step that adds the code of a statement, or of a part of it, keeps     *)
(* everything.                                                             *)
LEMMA StepAddsCode ==
  ASSUME IInv, phase = "stmts", cur \in DOMAIN block, Makes(cur),
         NEW new \in Seq(ReilInsn), new # <<>>, NEW last \in BOOLEAN,
         \A k \in DOMAIN new : /\ new[k].inum = instCount + k - 1
                               /\ new[k].to.at # "here"
                               /\ "end" \in new[k].flags <=> (k = Len(new) /\ last),
         insts' = insts \o new, instCount' = instCount + Len(new),
         cur' \in {cur, cur + 1}, lowered' \in Nat, last <=> NothingFrom(cur)',
         UNCHANGED <<phase, block, labels, delivered, todo>>
  PROVE  IInv'
<1>1. /\ insts \in Seq(ReilInsn) /\ instCount = Len(insts) /\ instCount \in Nat
      /\ Numbered(insts) /\ NoneResolved(insts) /\ EndMarked(insts, NothingFrom(cur))
      /\ LabelsInside(labels, instCount, NothingFrom(cur)) /\ labels \in Seq(Label)
      /\ block \in Seq(Stmt) /\ cur \in 1 .. Len(block)
  BY DEF IInv, BilTypeOK, WhileLowering
<1>2. NothingFrom(cur) = FALSE
  BY <1>1 DEF NothingFrom, Makes
<1>3. /\ insts' \in Seq(ReilInsn) /\ Len(insts') = Len(insts) + Len(new) /\ Len(new) > 0
      /\ Numbered(insts') /\ NoneResolved(insts') /\ EndMarked(insts', last)
  BY <1>1, <1>2, AddingCode
<1>4. Len(new) \in Nat
  BY LenProperties
<1>5. LabelsInside(labels, instCount + Len(new), last)
  BY <1>1, <1>3, <1>4, LabelsKeep
<1>6. BilTypeOK'
  BY <1>1, <1>3, <1>4 DEF IInv, BilTypeOK
<1>7. cur' \in 1 .. Len(block') + 1
  BY <1>1
<1>8. last = NothingFrom(cur)'
  BY DEF NothingFrom
<1>9. WhileLowering'
  BY <1>1, <1>3, <1>4, <1>5, <1>7, <1>8 DEF WhileLowering
<1>10. NumberedToTheEnd' /\ JumpsResolved'
  BY DEF IInv, NumberedToTheEnd, JumpsResolved
<1>. QED  BY <1>6, <1>9, <1>10 DEF IInv, BeforeUnknown, WhenComplete

LEMMA LowerOpKeeps == ASSUME IInv, LowerOp PROVE IInv'
<1> DEFINE s == block[cur]
           op == s.ops[lowered + 1]
           whole == s.kind = "move" /\ lowered + 1 = Len(s.ops)
           flags == IF whole THEN StmtFlags(cur) ELSE {}
           last == whole /\ IsLast(cur)
<1>1. /\ phase = "stmts" /\ cur \in DOMAIN block /\ s.kind \in {"move", "cjmp"}
      /\ lowered < Len(s.ops)
  BY DEF LowerOp, AtStmt
<1>2. block \in Seq(Stmt) /\ lowered \in Nat /\ cur \in Nat /\ instCount \in Nat
  BY DEF IInv, BilTypeOK
<1>3. s.ops \in Seq(Ops)
  BY <1>1, <1>2, ElementOfSeq DEF Stmt
<1>4. op \in Ops
  BY <1>1, <1>2, <1>3, ElementOfSeq
<1>5. flags \in SUBSET {"end", "bb", "call", "ret"} /\ ("end" \in flags <=> last) /\ last \in BOOLEAN
  BY FlagsType DEF IsLast
<1>6. /\ Code(op, flags) \in Seq(ReilInsn) /\ Code(op, flags) # <<>>
      /\ Len(Code(op, flags)) = Emits[op]
      /\ \A k \in DOMAIN Code(op, flags) :
           /\ Code(op, flags)[k].inum = instCount + k - 1
           /\ Code(op, flags)[k].to.at # "here"
           /\ "end" \in Code(op, flags)[k].flags <=> (k = Len(Code(op, flags)) /\ last)
  BY <1>2, <1>4, <1>5, CodeType
<1>7. /\ insts' = insts \o Code(op, flags) /\ instCount' = instCount + Emits[op]
      /\ UNCHANGED <<phase, block, labels, delivered, todo>>
      /\ IF whole THEN cur' = cur + 1 /\ lowered' = 0 ELSE lowered' = lowered + 1 /\ cur' = cur
  BY DEF LowerOp, NextStmt
<1>8. last <=> NothingFrom(cur)'
  <2>1. CASE whole
    BY <1>7, <2>1 DEF NothingFrom, IsLast
  <2>2. CASE ~ whole
    BY <1>1, <1>2, <1>7, <2>2 DEF NothingFrom
  <2>. QED  BY <2>1, <2>2
<1>9. Makes(cur)
  BY <1>1 DEF Makes
<1>10. cur' \in {cur, cur + 1} /\ lowered' \in Nat
  BY <1>2, <1>7
<1>. QED
  <2> HIDE DEF flags, last, op
  <2>. QED  BY <1>1, <1>5, <1>6, <1>7, <1>8, <1>9, <1>10, StepAddsCode

LEMMA JmpStmtKeeps == ASSUME IInv, JmpStmt PROVE IInv'
<1> DEFINE x == Insn(instCount, "jcc", JumpFlags(cur), TargetOf(block[cur].to), "always", cur)
<1>1. /\ phase = "stmts" /\ cur \in DOMAIN block /\ block[cur].kind = "jmp"
  BY DEF JmpStmt, AtStmt
<1>2. /\ block \in Seq(Stmt) /\ cur \in Nat /\ instCount \in Nat /\ insts \in Seq(ReilInsn)
  BY DEF IInv, BilTypeOK
<1>3. block[cur].to \in Targets
  <2>1. block[cur] \in Stmt
    BY <1>1, <1>2, ElementOfSeq
  <2>. QED  BY <1>1, <2>1 DEF Stmt
<1>4. x \in ReilInsn /\ x.inum = instCount /\ x.to.at # "here" /\ ("end" \in x.flags <=> IsLast(cur))
  BY <1>2, <1>3, TargetOfType, FlagsType DEF Insn, ReilInsn
<1>5. insts' = insts \o <<x>> /\ instCount' = instCount + 1 /\ cur' = cur + 1 /\ lowered' = 0
      /\ UNCHANGED <<phase, block, labels, delivered, todo>>
  BY <1>2, <1>4, AppendIsConcat DEF JmpStmt, NextStmt
<1>6. IsLast(cur) <=> NothingFrom(cur)'
  BY <1>5 DEF IsLast, NothingFrom
<1>7. Makes(cur) /\ IsLast(cur) \in BOOLEAN
  BY <1>1 DEF Makes, IsLast
<1>8. /\ <<x>> \in Seq(ReilInsn) /\ <<x>> # <<>> /\ Len(<<x>>) = 1
      /\ \A k \in DOMAIN <<x>> : k = 1 /\ <<x>>[k] = x
  BY <1>4
<1>9. \A k \in DOMAIN <<x>> : /\ <<x>>[k].inum = instCount + k - 1
                              /\ <<x>>[k].to.at # "here"
                              /\ "end" \in <<x>>[k].flags <=> (k = Len(<<x>>) /\ IsLast(cur))
  BY <1>2, <1>4, <1>8
<1>. QED
  <2> HIDE DEF x
  <2>. QED  BY <1>1, <1>5, <1>6, <1>7, <1>8, <1>9, StepAddsCode

LEMMA CJmpStmtKeeps == ASSUME IInv, CJmpStmt PROVE IInv'
<1> DEFINE flags == StmtFlags(cur) \cup {"bb"}
<1>1. /\ phase = "stmts" /\ cur \in DOMAIN block /\ block[cur].kind = "cjmp"
  BY DEF CJmpStmt, AtStmt
<1>2. /\ block \in Seq(Stmt) /\ cur \in Nat /\ instCount \in Nat /\ insts \in Seq(ReilInsn)
  BY DEF IInv, BilTypeOK
<1>3. block[cur].to \in Targets /\ block[cur].els \in Targets
  BY <1>1, <1>2, ElementOfSeq DEF Stmt
<1>4. flags \subseteq {"end", "bb", "call", "ret"} /\ ("end" \in flags <=> IsLast(cur))
  BY FlagsType
<1>5. /\ CJmpCode \in Seq(ReilInsn) /\ CJmpCode # <<>>
      /\ \A k \in DOMAIN CJmpCode :
           /\ CJmpCode[k].inum = instCount + k - 1
           /\ CJmpCode[k].to.at # "here"
           /\ "end" \in CJmpCode[k].flags <=> (k = Len(CJmpCode) /\ IsLast(cur))
  <2>1. CASE IsNextLabel(block[cur].to)
    <3> DEFINE x == Insn(instCount, "op", {}, NoWhere, "-", cur)
               y == Insn(instCount + 1, "jcc", flags, TargetOf(block[cur].els), "false", cur)
    <3>1. CJmpCode = <<x, y>>
      BY <2>1 DEF CJmpCode
    <3>2. x \in ReilInsn /\ x.inum = instCount /\ x.to.at # "here" /\ "end" \notin x.flags
      BY <1>2 DEF Insn, ReilInsn, NoWhere, Locs
    <3>3. y \in ReilInsn /\ y.inum = instCount + 1 /\ y.to.at # "here" /\ ("end" \in y.flags <=> IsLast(cur))
      BY <1>2, <1>3, <1>4, TargetOfType DEF Insn, ReilInsn
    <3> HIDE DEF x, y
    <3>4. /\ <<x, y>> \in Seq(ReilInsn) /\ <<x, y>> # <<>> /\ Len(<<x, y>>) = 2
          /\ \A k \in DOMAIN <<x, y>> : (k = 1 /\ <<x, y>>[k] = x) \/ (k = 2 /\ <<x, y>>[k] = y)
      BY <3>2, <3>3
    <3>. QED  BY <1>2, <3>1, <3>2, <3>3, <3>4
  <2>2. CASE ~ IsNextLabel(block[cur].to)
    <3> DEFINE y == Insn(instCount, "jcc", flags, TargetOf(block[cur].to), "true", cur)
    <3>1. CJmpCode = <<y>>
      BY <2>2 DEF CJmpCode
    <3>3. y \in ReilInsn /\ y.inum = instCount /\ y.to.at # "here" /\ ("end" \in y.flags <=> IsLast(cur))
      BY <1>2, <1>3, <1>4, TargetOfType DEF Insn, ReilInsn
    <3> HIDE DEF y
    <3>4. /\ <<y>> \in Seq(ReilInsn) /\ <<y>> # <<>> /\ Len(<<y>>) = 1
          /\ \A k \in DOMAIN <<y>> : k = 1 /\ <<y>>[k] = y
      BY <3>3
    <3>. QED  BY <1>2, <3>1, <3>3, <3>4
  <2>. QED  BY <2>1, <2>2
<1>6. insts' = insts \o CJmpCode /\ instCount' = instCount + Len(CJmpCode)
      /\ cur' = cur + 1 /\ lowered' = 0 /\ UNCHANGED <<phase, block, labels, delivered, todo>>
  BY DEF CJmpStmt, NextStmt
<1>7. IsLast(cur) <=> NothingFrom(cur)'
  BY <1>6 DEF IsLast, NothingFrom
<1>8. Makes(cur) /\ IsLast(cur) \in BOOLEAN
  BY <1>1 DEF Makes, IsLast
<1>. QED  BY <1>1, <1>5, <1>6, <1>7, <1>8, StepAddsCode

LEMMA NothingIn == DOMAIN <<>> = {}
  OBVIOUS

LEMMA StartKeeps == ASSUME IInv, Start PROVE IInv'
<1>1. todo \in Seq(Seq(Stmt)) /\ todo # <<>>
  BY DEF IInv, BilTypeOK, Start
<1>2. Head(todo) \in Seq(Stmt) /\ Tail(todo) \in Seq(Seq(Stmt))
  BY <1>1, HeadTailProperties
<1>3. /\ block' = Head(todo) /\ cur' = 1 /\ lowered' = 0 /\ insts' = <<>> /\ labels' = <<>>
      /\ instCount' = 0 /\ delivered' = <<>> /\ todo' = Tail(todo) /\ phase' \in {"unknown", "stmts"}
  BY DEF Start, ResetState
<1>4. BilTypeOK'
  BY <1>2, <1>3 DEF BilTypeOK
<1>5. WhileLowering'
  BY <1>2, <1>3 DEF WhileLowering, Numbered, NoneResolved, EndMarked, LabelsInside
<1>6. BeforeUnknown' /\ WhenComplete'
  BY <1>3 DEF BeforeUnknown, WhenComplete
<1>7. NumberedToTheEnd' /\ JumpsResolved'
  BY <1>3, NothingIn DEF NumberedToTheEnd, JumpsResolved
<1>. QED  BY <1>4, <1>5, <1>6, <1>7 DEF IInv

LEMMA UnknownInsnKeeps ==
  ASSUME IInv, NEW args \in 0 .. MaxArgs, UnknownInsn(args) PROVE IInv'
<1> DEFINE n == IF args = 0 THEN 1 ELSE args
           x(k) == Insn(k - 1, "unk", {f \in {"end"} : k = n}, NoWhere, "-", 1)
<1>1. n \in Nat /\ n > 0
  BY BoundsAssumption
<1>2. /\ insts' = [k \in 1 .. n |-> x(k)] /\ phase' = "resolve" /\ labels = <<>>
      /\ UNCHANGED <<block, cur, lowered, labels, instCount, delivered, todo>>
  BY DEF UnknownInsn, IInv, BeforeUnknown
<1>3. \A k \in 1 .. n : /\ x(k) \in ReilInsn /\ x(k).inum = k - 1 /\ x(k).to.at # "here"
                        /\ "end" \in x(k).flags <=> k = n
  BY <1>1 DEF Insn, ReilInsn, NoWhere, Locs
<1> HIDE DEF n, x
<1>4. insts' \in Seq(ReilInsn) /\ Len(insts') = n /\ DOMAIN insts' = 1 .. n
  BY <1>1, <1>2, <1>3
<1>5. Numbered(insts') /\ NoneResolved(insts') /\ EndMarked(insts', TRUE)
  BY <1>2, <1>3, <1>4 DEF Numbered, NoneResolved, EndMarked
<1>6. WhenComplete'
  <2>1. LabelsInside(labels', Len(insts'), TRUE)
    BY <1>2, NothingIn DEF LabelsInside
  <2>. QED  BY <1>5, <2>1 DEF WhenComplete
<1>7. BilTypeOK'
  BY <1>2, <1>4 DEF IInv, BilTypeOK
<1>. QED
  BY <1>2, <1>6, <1>7 DEF IInv, WhileLowering, BeforeUnknown, NumberedToTheEnd, JumpsResolved

LEMMA LabelStmtKeeps == ASSUME IInv, LabelStmt PROVE IInv'
<1> DEFINE l == [name |-> block[cur].to, loc |-> LabelLoc(cur)]
<1>1. /\ phase = "stmts" /\ cur \in DOMAIN block /\ block[cur].kind = "label"
      /\ labels' = Append(labels, l) /\ cur' = cur + 1 /\ lowered' = 0
      /\ UNCHANGED <<phase, block, insts, instCount, delivered, todo>>
  BY DEF LabelStmt, AtStmt, NextStmt
<1>2. /\ block \in Seq(Stmt) /\ cur \in 1 .. Len(block) /\ instCount \in Nat /\ labels \in Seq(Label)
      /\ LabelsInside(labels, instCount, NothingFrom(cur)) /\ EndMarked(insts, NothingFrom(cur))
      /\ instCount = Len(insts) /\ Numbered(insts) /\ NoneResolved(insts)
  BY <1>1 DEF IInv, BilTypeOK, WhileLowering
<1>3. block[cur].to \in Names
  <2>1. block[cur] \in Stmt
    BY <1>1, <1>2, ElementOfSeq
  <2>. QED  BY <1>1, <2>1 DEF Stmt
<1>4. l \in Label /\ (l.loc = NextInsn \/ (l.loc = Here(instCount) /\ ~ IsLast(cur)))
  BY <1>2, <1>3 DEF Label, LabelLoc, Locs, Here, NextInsn
<1>5. NothingFrom(cur + 1) = NothingFrom(cur) /\ NothingFrom(cur + 1) = IsLast(cur)
  BY <1>1, <1>2 DEF NothingFrom, IsLast
<1>6. NothingFrom(cur)' = NothingFrom(cur + 1)
  BY <1>1 DEF NothingFrom
<1>7. /\ labels' \in Seq(Label) /\ Len(labels') = Len(labels) + 1 /\ labels'[Len(labels) + 1] = l
      /\ \A i \in 1 .. Len(labels) : labels'[i] = labels[i]
  <2> HIDE DEF l
  <2>. QED  BY <1>1, <1>2, <1>4, AppendProperties
<1>8. \A i \in DOMAIN labels' :
        /\ labels'[i].loc.at \in {"here", "next"}
        /\ labels'[i].loc.at = "here" =>
             (labels'[i].loc.inum < instCount \/ (labels'[i].loc.inum <= instCount /\ ~ NothingFrom(cur + 1)))
  <2> SUFFICES ASSUME NEW i \in 1 .. Len(labels) + 1
               PROVE  /\ labels'[i].loc.at \in {"here", "next"}
                      /\ labels'[i].loc.at = "here" =>
                           (labels'[i].loc.inum < instCount \/ (labels'[i].loc.inum <= instCount /\ ~ NothingFrom(cur + 1)))
    BY <1>7
  <2>1. CASE i = Len(labels) + 1
    <3>1. labels'[i].loc = NextInsn \/ (labels'[i].loc = Here(instCount) /\ ~ NothingFrom(cur + 1))
      BY <1>4, <1>5, <1>7, <2>1
    <3>. QED  BY <1>2, <3>1 DEF NextInsn, Here
  <2>2. CASE i # Len(labels) + 1
    <3>1. i \in DOMAIN labels /\ labels'[i] = labels[i]
      BY <1>2, <1>7, <2>2
    <3>. QED  BY <1>2, <1>5, <3>1 DEF LabelsInside
  <2>. QED  BY <2>1, <2>2
<1>9. WhileLowering'
  BY <1>1, <1>2, <1>5, <1>6, <1>8 DEF WhileLowering, LabelsInside, EndMarked
<1>10. BilTypeOK'
  BY <1>1, <1>2, <1>7 DEF IInv, BilTypeOK
<1>. QED
  BY <1>1, <1>9, <1>10 DEF IInv, BeforeUnknown, WhenComplete, NumberedToTheEnd, JumpsResolved

LEMMA SkipStmtKeeps == ASSUME IInv, SkipStmt PROVE IInv'
<1>1. /\ phase = "stmts" /\ cur \in DOMAIN block /\ ~ Makes(cur) /\ cur' = cur + 1 /\ lowered' = 0
      /\ UNCHANGED <<phase, block, insts, labels, instCount, delivered, todo>>
  BY DEF SkipStmt, AtStmt, NextStmt, Makes
<1>2. /\ block \in Seq(Stmt) /\ cur \in 1 .. Len(block) /\ instCount \in Nat
  BY <1>1 DEF IInv, BilTypeOK
<1>3. NothingFrom(cur)' = NothingFrom(cur)
  BY <1>1, <1>2 DEF NothingFrom, Makes
<1>4. WhileLowering'
  BY <1>1, <1>2, <1>3 DEF IInv, WhileLowering
<1>5. BilTypeOK'
  BY <1>1, <1>2 DEF IInv, BilTypeOK
<1>. QED
  BY <1>1, <1>4, <1>5 DEF IInv, BeforeUnknown, WhenComplete, NumberedToTheEnd, JumpsResolved

LEMMA EndOfStmtsKeeps == ASSUME IInv, EndOfStmts PROVE IInv'
<1> DEFINE none == Insn(0, "none", {"end"}, NoWhere, "-", 1)
<1>1. /\ phase = "stmts" /\ cur = Len(block) + 1 /\ phase' = "resolve"
      /\ insts' = IF instCount = 0 THEN <<none>> ELSE insts
      /\ UNCHANGED <<block, cur, lowered, labels, instCount, delivered, todo>>
  BY DEF EndOfStmts
<1>2. /\ block \in Seq(Stmt) /\ instCount \in Nat /\ insts \in Seq(ReilInsn) /\ labels \in Seq(Label)
      /\ instCount = Len(insts) /\ Numbered(insts) /\ NoneResolved(insts)
      /\ EndMarked(insts, NothingFrom(cur)) /\ LabelsInside(labels, instCount, NothingFrom(cur))
  BY <1>1 DEF IInv, BilTypeOK, WhileLowering
<1>3. NothingFrom(cur) = TRUE
  BY <1>1, <1>2, LenProperties DEF NothingFrom
<1>4. none \in ReilInsn /\ none.inum = 0 /\ none.flags = {"end"} /\ none.to.at = "none"
  BY DEF Insn, ReilInsn, NoWhere, Locs
<1>5. /\ insts' \in Seq(ReilInsn) /\ Numbered(insts') /\ NoneResolved(insts') /\ EndMarked(insts', TRUE)
      /\ instCount <= Len(insts')
  <2>1. CASE instCount = 0
    <3>1. insts' = <<none>>
      BY <1>1, <2>1
    <3> HIDE DEF none
    <3>2. insts' \in Seq(ReilInsn) /\ Len(insts') = 1 /\ \A j \in DOMAIN insts' : j = 1 /\ insts'[j] = none
      BY <1>4, <3>1
    <3>3. Numbered(insts') /\ NoneResolved(insts')
      BY <1>4, <3>2 DEF Numbered, NoneResolved
    <3>4. EndMarked(insts', TRUE)
      BY <1>4, <3>2 DEF EndMarked
    <3>5. insts' \in Seq(ReilInsn) /\ instCount <= Len(insts')
      BY <2>1, <3>2
    <3>. QED  BY <3>3, <3>4, <3>5, Zenon
  <2>2. CASE instCount # 0
    <3>1. insts' = insts
      BY <1>1, <2>2
    <3>2. EndMarked(insts, TRUE)
      BY <1>2, <1>3 DEF EndMarked
    <3>3. instCount <= Len(insts)
      BY <1>2
    <3>. QED  BY <1>2, <3>1, <3>2, <3>3, Zenon
  <2>. QED  BY <2>1, <2>2
<1>6. \A i \in DOMAIN labels : labels[i].loc.inum \in Nat
  <2>1. \A i \in DOMAIN labels : labels[i] \in Label
    BY <1>2, ElementOfSeq
  <2>. QED  BY <2>1 DEF Label, Locs
<1>7. LabelsInside(labels, Len(insts'), TRUE)
  BY <1>2, <1>3, <1>5, <1>6, LenProperties DEF LabelsInside
<1>8. BilTypeOK'
  BY <1>1, <1>2, <1>5 DEF IInv, BilTypeOK
<1>. QED
  BY <1>1, <1>5, <1>7, <1>8 DEF IInv, WhileLowering, BeforeUnknown, WhenComplete, NumberedToTheEnd, JumpsResolved

(* A translation that ends with an exception leaves everything as it was.  *)
LEMMA FailingKeeps ==
  ASSUME IInv, phase' = "failed",
         UNCHANGED <<block, cur, lowered, insts, labels, instCount, delivered, todo>>
  PROVE  IInv'
<1>1. BilTypeOK'
  BY DEF IInv, BilTypeOK
<1>. QED  BY <1>1 DEF IInv, WhileLowering, BeforeUnknown, WhenComplete, NumberedToTheEnd, JumpsResolved

(* A set of natural numbers has a least one.                               *)
LEMMA LeastOf ==
  ASSUME NEW S \in SUBSET Nat, S # {}
  PROVE  \E i \in S : \A j \in S : i <= j
<1> DEFINE R == {ss \in Nat \X Nat : ss[1] < ss[2]}
<1>1. IsWellFoundedOn(R, Nat)
  BY NatLessThanWellFounded DEF OpToRel
<1>2. PICK x \in S : \A y \in S : ~ (<<y, x>> \in R)
  <2> HIDE DEF R
  <2>. QED  BY <1>1, WFMin
<1>3. ASSUME NEW y \in S
      PROVE  x <= y
  <2>1. x \in Nat /\ y \in Nat
    OBVIOUS
  <2>2. <<y, x>> \in Nat \X Nat /\ (<<y, x>>)[1] = y /\ (<<y, x>>)[2] = x
    BY <2>1
  <2>3. ~ (y < x)
    BY <1>2, <2>2
  <2>. QED  BY <2>1, <2>3
<1>. QED  BY <1>3

(* A name is resolved to the place of one of the labels.                   *)
LEMMA LocOfLabel ==
  ASSUME NEW l, labels \in Seq(Label), IsNamed(l)
  PROVE  \E i \in DOMAIN labels : labels[i].name = l /\ LocOf(l) = labels[i].loc
<1> DEFINE Places == {i \in DOMAIN labels : labels[i].name = l}
<1>1. Places \in SUBSET Nat /\ Places # {} /\ DOMAIN labels = 1 .. Len(labels)
  BY DEF IsNamed
<1>2. PICK i \in Places : \A j \in Places : i <= j
  <2> HIDE DEF Places
  <2>. QED  BY <1>1, LeastOf
<1>3. i \in DOMAIN labels /\ labels[i].name = l /\ \A j \in 1 .. i - 1 : labels[j].name # l
  <2>1. \A j \in 1 .. i - 1 : j \in DOMAIN labels /\ ~ (i <= j)
    BY <1>1, <1>2
  <2>. QED  BY <1>2, <2>1
<1>. QED  BY <1>3 DEF LocOf

LEMMA DeliverKeeps == ASSUME IInv, Deliver PROVE IInv'
<1>1. /\ insts \in Seq(ReilInsn) /\ labels \in Seq(Label)
      /\ Numbered(insts) /\ NoneResolved(insts) /\ EndMarked(insts, TRUE)
      /\ LabelsInside(labels, Len(insts), TRUE)
      /\ \A j \in DOMAIN insts : insts[j].to.at = "name" => IsNamed(insts[j].to.name)
  BY DEF IInv, BilTypeOK, WhenComplete, Deliver
<1>2. /\ delivered' = Resolved /\ phase' = "idle" /\ block' = <<>> /\ cur' = 0 /\ lowered' = 0
      /\ insts' = <<>> /\ labels' = <<>> /\ instCount' = 0 /\ todo' = todo
  BY DEF Deliver
<1>3. ASSUME NEW l, IsNamed(l)
      PROVE  /\ LocOf(l) \in Locs /\ LocOf(l).at \in {"here", "next"}
             /\ LocOf(l).at = "here" => LocOf(l).inum < Len(insts)
  <2>1. PICK i \in DOMAIN labels : labels[i].name = l /\ LocOf(l) = labels[i].loc
    BY <1>1, <1>3, LocOfLabel
  <2>2. labels[i] \in Label
    BY <1>1, ElementOfSeq
  <2>. QED  BY <1>1, <2>1, <2>2 DEF LabelsInside, Label
<1>4. Len(insts) \in Nat /\ DOMAIN insts = 1 .. Len(insts)
  BY <1>1
<1>5. DOMAIN Resolved = 1 .. Len(insts)
  BY <1>4 DEF Resolved
<1>6. ASSUME NEW j \in 1 .. Len(insts)
      PROVE  /\ Resolved[j] \in ReilInsn /\ Resolved[j].inum = j - 1
             /\ "end" \in Resolved[j].flags <=> j = Len(insts)
             /\ Resolved[j].to.at # "name"
             /\ Resolved[j].to.at = "here" => Resolved[j].to.inum < Len(insts)
  <2>1. /\ insts[j] \in ReilInsn /\ insts[j].inum = j - 1 /\ insts[j].to.at # "here"
        /\ "end" \in insts[j].flags <=> j = Len(insts)
        /\ insts[j].to.at = "name" => IsNamed(insts[j].to.name)
    BY <1>1, <1>4, ElementOfSeq DEF Numbered, NoneResolved, EndMarked
  <2>2. CASE insts[j].to.at = "name"
    <3> DEFINE loc == LocOf(insts[j].to.name)
    <3>1. loc \in Locs /\ loc.at \in {"here", "next"} /\ (loc.at = "here" => loc.inum < Len(insts))
      BY <1>3, <2>1, <2>2
    <3>2. Resolved[j] = [insts[j] EXCEPT !.to = loc]
      BY <1>4, <2>2 DEF Resolved
    <3> HIDE DEF loc
    <3>3. /\ Resolved[j] \in ReilInsn /\ Resolved[j].inum = insts[j].inum
          /\ Resolved[j].flags = insts[j].flags /\ Resolved[j].to = loc
      BY <2>1, <3>1, <3>2 DEF ReilInsn
    <3>. QED  BY <2>1, <3>1, <3>3
  <2>3. CASE insts[j].to.at # "name"
    BY <1>4, <2>1, <2>3 DEF Resolved
  <2>. QED  BY <2>2, <2>3
<1>7. Resolved \in Seq(ReilInsn) /\ Len(Resolved) = Len(insts)
  <2>1. Resolved = [j \in 1 .. Len(insts) |-> Resolved[j]]
    BY <1>4 DEF Resolved
  <2>. QED  BY <1>4, <1>5, <1>6, <2>1
<1>8. BilTypeOK'
  BY <1>2, <1>7 DEF IInv, BilTypeOK
<1>9. NumberedToTheEnd' /\ JumpsResolved'
  BY <1>2, <1>5, <1>6, <1>7 DEF NumberedToTheEnd, JumpsResolved
<1>. QED  BY <1>2, <1>8, <1>9 DEF IInv, WhileLowering, BeforeUnknown, WhenComplete

LEMMA InitHolds == BilInit => IInv
<1> SUFFICES ASSUME BilInit PROVE IInv
  OBVIOUS
<1>1. BilTypeOK
  BY ProgramsAssumption DEF BilInit, BilTypeOK
<1>2. WhileLowering /\ BeforeUnknown /\ WhenComplete
  BY DEF BilInit, WhileLowering, BeforeUnknown, WhenComplete
<1>3. NumberedToTheEnd /\ JumpsResolved
  BY NothingIn DEF BilInit, NumberedToTheEnd, JumpsResolved
<1>. QED  BY <1>1, <1>2, <1>3 DEF IInv

LEMMA NextKeeps == IInv /\ [BilNext]_bilVars => IInv'
<1> SUFFICES ASSUME IInv, [BilNext]_bilVars PROVE IInv'
  OBVIOUS
<1>1. CASE Start
  BY <1>1, StartKeeps
<1>2. CASE \E args \in 0 .. MaxArgs : UnknownInsn(args)
  BY <1>2, UnknownInsnKeeps
<1>3. CASE LowerOp
  BY <1>3, LowerOpKeeps
<1>4. CASE RefuseOp \/ RefuseStmt
  BY <1>4, FailingKeeps DEF RefuseOp, RefuseStmt
<1>5. CASE JmpStmt
  BY <1>5, JmpStmtKeeps
<1>6. CASE CJmpStmt
  BY <1>6, CJmpStmtKeeps
<1>7. CASE CJmpRefused
  BY <1>7, FailingKeeps DEF CJmpRefused
<1>8. CASE LabelStmt
  BY <1>8, LabelStmtKeeps
<1>9. CASE SkipStmt
  BY <1>9, SkipStmtKeeps
<1>10. CASE EndOfStmts
  BY <1>10, EndOfStmtsKeeps
<1>11. CASE Unresolved
  BY <1>11, FailingKeeps DEF Unresolved
<1>12. CASE Deliver
  BY <1>12, DeliverKeeps
<1>13. CASE UNCHANGED bilVars
  <2>1. /\ UNCHANGED <<phase, block, cur, lowered, insts, labels>>
        /\ UNCHANGED <<instCount, delivered, todo>>
    BY <1>13 DEF bilVars
  <2>2. BilTypeOK'
    BY <2>1 DEF IInv, BilTypeOK
  <2>3. NothingFrom(cur)' = NothingFrom(cur)
    BY <2>1 DEF NothingFrom
  <2>. QED
    BY <2>1, <2>2, <2>3 DEF IInv, WhileLowering, BeforeUnknown, WhenComplete, NumberedToTheEnd, JumpsResolved
<1>. QED
  BY <1>1, <1>2, <1>3, <1>4, <1>5, <1>6, <1>7, <1>8, <1>9, <1>10, <1>11, <1>12, <1>13 DEF BilNext, Lower

(* Whatever BIL code is translated, also ill-formed code and after failed  *)
(* translations, the invariant of the lists holds.                         *)
LEMMA Always == BilSpec => []IInv
<1>. QED  BY InitHolds, NextKeeps, PTL DEF BilSpec

(* The state of the translator is of its types.                            *)
THEOREM TranslatorTyped == BilSpec => []BilTypeOK
<1>1. IInv => BilTypeOK
  BY DEF IInv
<1>. QED  BY Always, <1>1, PTL

(* What process_bil gives to the handler is numbered 0, 1, 2, ... and its  *)
(* last instruction, and no other, is marked as the end.                   *)
THEOREM NumberingIsWhole == BilSpec => []NumberedToTheEnd
<1>1. IInv => NumberedToTheEnd
  BY DEF IInv
<1>. QED  BY Always, <1>1, PTL

(* Every jump process_bil gives to the handler is resolved, and one inside *)
(* the machine instruction goes to an instruction that exists.             *)
THEOREM JumpsGoSomewhere == BilSpec => []JumpsResolved
<1>1. IInv => JumpsResolved
  BY DEF IInv
<1>. QED  BY Always, <1>1, PTL

-----------------------------------------------------------------------------
(* Where in the BIL code number n of a list of instructions is: at the     *)
(* statement of the instruction; behind the list, where rest says.         *)
Spot(is, rest, n) == IF n < Len(is) THEN Bil!AtStmt(is[n + 1].stmt) ELSE rest

(* The instruction at j does its part of its statement, and control gets   *)
(* where the statement leads when it goes on behind it.                    *)
GoesOn(is, b, rest, j) ==
  LET x == is[j]
      next == Spot(is, rest, j)
  IN /\ x.stmt \in DOMAIN b /\ Bil!Acts(b, x.stmt) /\ x.op \in {"op", "jcc"}
     /\ x.op = "op" =>
          \/ next = Bil!AtStmt(x.stmt)
          \/ b[x.stmt].kind = "move" /\ next = Bil!FirstFrom(b, x.stmt + 1)
     /\ x.op = "op" \/ b[x.stmt].kind = "cjmp" => ~ NeverGoesOn(x)
     /\ x.op = "jcc" =>
          \/ b[x.stmt].kind = "jmp" /\ x.when = "always"
          \/ b[x.stmt].kind = "cjmp" /\ x.when = "true" /\ next = Bil!Goto(b, b[x.stmt].els)
          \/ b[x.stmt].kind = "cjmp" /\ x.when = "false" /\ next = Bil!Goto(b, b[x.stmt].to)

(* The target of a statement that its jump is made for. *)
TargetFor(b, x) == IF x.when = "false" THEN b[x.stmt].els ELSE b[x.stmt].to

(* The place of a jump, as long as it may be a name. *)
Aims(b, to, t) ==
  \/ to.at = "name" /\ to.name = t /\ t \in Names
  \/ to.at \in {"next", "pc", "reg"} /\ Bil!Goto(b, t) = Bil!Out(to.at)

(* The place of a jump once it is resolved. *)
Leads(is, b, to, t) ==
  \/ to.at = "here" /\ to.inum < Len(is) /\ Bil!Goto(b, t) = Bil!AtStmt(is[to.inum + 1].stmt)
  \/ to.at \in {"next", "pc", "reg"} /\ Bil!Goto(b, t) = Bil!Out(to.at)

(* A label is where the BIL code has it. *)
LabelsRight(ls, is, b, rest) ==
  \A i \in DOMAIN ls : \E k \in DOMAIN b :
    /\ b[k].kind = "label" /\ b[k].to = ls[i].name
    /\ \/ ls[i].loc.at = "next" /\ Bil!FirstFrom(b, k) = Bil!Out("next")
       \/ ls[i].loc.at = "here" /\ ls[i].loc.inum \in 0 .. Len(is)
          /\ Bil!FirstFrom(b, k) = Spot(is, rest, ls[i].loc.inum)

(* The code that has been made for a block up to the statement at c. *)
CodeOf(is, ls, b, c) ==
  LET rest == Bil!FirstFrom(b, c)
  IN /\ Bil!Known(b)
     /\ Spot(is, rest, 0) = Bil!FirstFrom(b, 1)
     /\ \A j \in DOMAIN is :
          GoesOn(is, b, rest, j) /\ (is[j].op = "jcc" => Aims(b, is[j].to, TargetFor(b, is[j])))
     /\ LabelsRight(ls, is, b, rest)

(* Code that stands for a block without any. *)
UnknownCode(is, b) == ~ Bil!Known(b) /\ is # <<>> /\ \A j \in DOMAIN is : is[j].op = "unk"
EmptyCode(is, b) ==
  /\ Bil!Known(b) /\ Bil!FirstFrom(b, 1) = Bil!Out("next") /\ Len(is) = 1
  /\ is[1].op = "none" /\ ~ NeverGoesOn(is[1])

(* Code that does what the block does.                                     *)
RealCode(is, b) ==
  /\ Bil!Known(b) /\ is # <<>>
  /\ Bil!AtStmt(is[1].stmt) = Bil!FirstFrom(b, 1)
  /\ \A j \in DOMAIN is :
       /\ GoesOn(is, b, Bil!Out("next"), j)
       /\ is[j].op = "jcc" => Leads(is, b, is[j].to, TargetFor(b, is[j]))

(* What the emulator can run in place of the block. *)
Implements(is, b) == UnknownCode(is, b) \/ EmptyCode(is, b) \/ RealCode(is, b)

IsPlain(b) == PlacedOnce(b) /\ FallsThrough(b) /\ ReturnsByJump(b)

RunInv ==
  /\ IInv
  /\ IsPlain(block) /\ \A n \in DOMAIN todo : IsPlain(todo[n])
  /\ phase # "idle" => pc.at # "inum"
  /\ phase \in {"unknown", "stmts", "resolve"} => pc = Outside("idle")
  /\ phase = "unknown" => ~ Bil!Known(block)
  /\ phase = "stmts" => CodeOf(insts, labels, block, cur)
  /\ phase = "resolve" =>
       \/ UnknownCode(insts, block)
       \/ EmptyCode(insts, block)
       \/ insts # <<>> /\ CodeOf(insts, labels, block, Len(block) + 1)
  /\ pc.at = "inum" =>
       /\ pc = Inum(pc.inum) /\ pc.inum \in 0 .. Len(delivered) - 1
       /\ Implements(delivered, source)

-----------------------------------------------------------------------------
(* BilRun's idea of the next statement. *)
LEMMA FirstIs ==
  ASSUME NEW b, NEW i \in Nat, Len(b) \in Nat, NEW n \in i .. Len(b), Bil!Acts(b, n),
         \A k \in i .. n - 1 : ~ Bil!Acts(b, k)
  PROVE  Bil!FirstFrom(b, i) = Bil!AtStmt(n)
<1>1. ASSUME NEW m \in i .. Len(b), Bil!Acts(b, m), \A k \in i .. m - 1 : ~ Bil!Acts(b, k)
      PROVE  m = n
  <2>1. n \notin i .. m - 1 /\ m \notin i .. n - 1
    BY <1>1
  <2> QED
    BY <2>1
<1>2. PICK x : x = CHOOSE m \in i .. Len(b) : Bil!Acts(b, m) /\ \A k \in i .. m - 1 : ~ Bil!Acts(b, k)
  OBVIOUS
<1>3. x \in i .. Len(b) /\ Bil!Acts(b, x) /\ \A k \in i .. x - 1 : ~ Bil!Acts(b, k)
  BY <1>2
<1>4. x = n
  BY <1>1, <1>3
<1> QED
  BY <1>2, <1>4 DEF Bil!FirstFrom

LEMMA NoneIs ==
  ASSUME NEW b, NEW i, \A n \in i .. Len(b) : ~ Bil!Acts(b, n)
  PROVE  Bil!FirstFrom(b, i) = Bil!Out("next")
BY DEF Bil!FirstFrom

(* A statement that does something is the first, another one is passed. *)
LEMMA FirstHere ==
  ASSUME NEW b, Len(b) \in Nat, NEW i \in 1 .. Len(b)
  PROVE  /\ Bil!Acts(b, i) => Bil!FirstFrom(b, i) = Bil!AtStmt(i)
         /\ ~ Bil!Acts(b, i) => Bil!FirstFrom(b, i) = Bil!FirstFrom(b, i + 1)
<1>1. i \in Nat /\ i + 1 \in Nat /\ i \in i .. Len(b) /\ \A k \in i .. i - 1 : FALSE
  OBVIOUS
<1>2. Bil!Acts(b, i) => Bil!FirstFrom(b, i) = Bil!AtStmt(i)
  BY <1>1, FirstIs
<1>3. ASSUME ~ Bil!Acts(b, i) PROVE Bil!FirstFrom(b, i) = Bil!FirstFrom(b, i + 1)
  <2>1. CASE \A n \in i + 1 .. Len(b) : ~ Bil!Acts(b, n)
    <3>1. \A n \in i .. Len(b) : n = i \/ n \in i + 1 .. Len(b)
      OBVIOUS
    <3> QED
      BY <1>3, <2>1, <3>1, NoneIs
  <2>2. CASE ~ \A n \in i + 1 .. Len(b) : ~ Bil!Acts(b, n)
    <3> DEFINE S == {n \in i + 1 .. Len(b) : Bil!Acts(b, n)}
    <3>1. S \in SUBSET Nat /\ S # {}
      BY <1>1, <2>2
    <3>2. PICK n \in S : \A m \in S : n <= m
      <4> HIDE DEF S
      <4> QED
        BY <3>1, LeastOf
    <3>3. n \in i + 1 .. Len(b) /\ n \in i .. Len(b) /\ Bil!Acts(b, n)
      BY <3>2
    <3>4. ASSUME NEW k \in i + 1 .. n - 1 PROVE ~ Bil!Acts(b, k)
      <4>1. k \in i + 1 .. Len(b) /\ ~ (n <= k)
        BY <3>3
      <4> QED
        BY <3>2, <4>1
    <3>5. \A k \in i .. n - 1 : k = i \/ k \in i + 1 .. n - 1
      BY <3>3
    <3>6. Bil!FirstFrom(b, i + 1) = Bil!AtStmt(n)
      BY <1>1, <3>3, <3>4, FirstIs
    <3>7. Bil!FirstFrom(b, i) = Bil!AtStmt(n)
      BY <1>1, <1>3, <3>3, <3>4, <3>5, FirstIs
    <3> QED
      BY <3>6, <3>7
  <2> QED
    BY <2>1, <2>2
<1> QED
  BY <1>2, <1>3

(* A name that is placed once leads to its place. *)
LEMMA GotoLabel ==
  ASSUME NEW b, PlacedOnce(b), NEW k \in DOMAIN b, b[k].kind = "label", b[k].to \in Names
  PROVE  Bil!Goto(b, b[k].to) = Bil!FirstFrom(b, k)
<1>1. PICK l : l = b[k].to
  OBVIOUS
<1>2. PICK x : x = CHOOSE i \in DOMAIN b : b[i].kind = "label" /\ b[i].to = l
  OBVIOUS
<1>3. x \in DOMAIN b /\ b[x].kind = "label" /\ b[x].to = l
  BY <1>1, <1>2
<1>4. x = k
  BY <1>1, <1>3 DEF PlacedOnce
<1>5. l \notin {"pc", "reg"}
  BY <1>1, NamesAssumption
<1> QED
  BY <1>1, <1>2, <1>4, <1>5 DEF Bil!Goto, Bil!Labelled

-----------------------------------------------------------------------------
(* Two lists of instructions, one behind the other. *)
LEMMA JoinedAt ==
  ASSUME NEW is \in Seq(ReilInsn), NEW new \in Seq(ReilInsn), new # <<>>,
         NEW all, all = is \o new, NEW m, m = Len(is), NEW p, p = Len(new)
  PROVE  /\ m \in Nat /\ p \in Nat /\ p > 0 /\ Len(all) = m + p
         /\ DOMAIN is = 1 .. m /\ DOMAIN new = 1 .. p /\ DOMAIN all = 1 .. m + p
         /\ \A i \in 1 .. m : all[i] = is[i]
         /\ \A i \in 1 .. p : all[m + i] = new[i]
<1>1. m \in Nat /\ p \in Nat
  BY LenProperties
<1>2. p # 0
  BY <1>1, EmptySeq
<1>4. /\ all \in Seq(ReilInsn) /\ Len(all) = m + p
      /\ \A i \in 1 .. m + p : all[i] = IF i <= m THEN is[i] ELSE new[i - m]
  BY <1>1, ConcatProperties
<1>5. DOMAIN is = 1 .. m /\ DOMAIN new = 1 .. p /\ DOMAIN all = 1 .. m + p
  BY <1>1, <1>4
<1>6. \A i \in 1 .. m : all[i] = is[i]
  BY <1>4
<1>7. ASSUME NEW i \in 1 .. p PROVE all[m + i] = new[i]
  <2>1. m + i \in 1 .. m + p /\ ~ (m + i <= m) /\ (m + i) - m = i
    OBVIOUS
  <2> QED
    BY <1>4, <2>1
<1> QED
  BY <1>1, <1>2, <1>4, <1>5, <1>6, <1>7

(* Code for the statement that is next does not move the places.           *)
LEMMA SpotsStay ==
  ASSUME NEW is \in Seq(ReilInsn), NEW new \in Seq(ReilInsn), new # <<>>, NEW rest2,
         NEW n \in 0 .. Len(is)
  PROVE  Spot(is \o new, rest2, n) = Spot(is, Bil!AtStmt(new[1].stmt), n)
<1>1. PICK all, m, p : all = is \o new /\ m = Len(is) /\ p = Len(new)
  OBVIOUS
<1>2. /\ m \in Nat /\ p \in Nat /\ p > 0 /\ Len(all) = m + p
      /\ DOMAIN is = 1 .. m /\ DOMAIN new = 1 .. p /\ DOMAIN all = 1 .. m + p
      /\ \A i \in 1 .. m : all[i] = is[i]
      /\ \A i \in 1 .. p : all[m + i] = new[i]
  BY <1>1, JoinedAt
<1>3. n \in 0 .. m
  BY <1>1
<1>4. CASE n < m
  <2>1. n + 1 \in 1 .. m /\ n < m + p
    BY <1>2, <1>3, <1>4
  <2> QED
    BY <1>1, <1>2, <1>4, <2>1 DEF Spot
<1>5. CASE n = m
  <2>1. 1 \in 1 .. p /\ m < m + p /\ ~ (m < m)
    BY <1>2
  <2>2. all[m + 1] = new[1]
    BY <1>2, <2>1
  <2> QED
    BY <1>1, <1>2, <1>5, <2>1, <2>2 DEF Spot
<1> QED
  BY <1>2, <1>3, <1>4, <1>5

(* Code for the statement at hand, put behind what there is. *)
LEMMA CodeJoined ==
  ASSUME NEW is \in Seq(ReilInsn), NEW new \in Seq(ReilInsn), new # <<>>,
         NEW b, NEW rest, NEW rest2,
         \A j \in DOMAIN is : GoesOn(is, b, rest, j),
         \A j \in DOMAIN new : GoesOn(new, b, rest2, j),
         rest = Bil!AtStmt(new[1].stmt),
         NEW j \in DOMAIN (is \o new)
  PROVE  GoesOn(is \o new, b, rest2, j)
<1>1. PICK all, m, p : all = is \o new /\ m = Len(is) /\ p = Len(new)
  OBVIOUS
<1>2. /\ m \in Nat /\ p \in Nat /\ p > 0 /\ Len(all) = m + p
      /\ DOMAIN is = 1 .. m /\ DOMAIN new = 1 .. p /\ DOMAIN all = 1 .. m + p
      /\ \A i \in 1 .. m : all[i] = is[i]
      /\ \A i \in 1 .. p : all[m + i] = new[i]
  BY <1>1, JoinedAt
<1>3. j \in 1 .. m + p
  BY <1>1, <1>2
<1>4. CASE j \in 1 .. m
  <2>1. j \in 0 .. Len(is)
    BY <1>1, <1>2, <1>4
  <2>2. all[j] = is[j] /\ Spot(all, rest2, j) = Spot(is, rest, j) /\ GoesOn(is, b, rest, j)
    BY <1>1, <1>2, <1>4, <2>1, SpotsStay
  <2> QED
    BY <1>1, <2>2 DEF GoesOn
<1>5. CASE j \notin 1 .. m
  <2>1. PICK k \in 1 .. p : j = m + k
    <3>1. j - m \in 1 .. p /\ j = m + (j - m)
      BY <1>2, <1>3, <1>5
    <3> QED
      BY <3>1
  <2>2. Spot(all, rest2, m + k) = Spot(new, rest2, k)
    <3>1. CASE k < p
      <4>1. k + 1 \in 1 .. p /\ m + k < m + p /\ (m + k) + 1 = m + (k + 1)
        BY <1>2, <3>1
      <4>2. all[(m + k) + 1] = new[k + 1]
        BY <1>2, <4>1
      <4> QED
        BY <1>1, <1>2, <3>1, <4>1, <4>2 DEF Spot
    <3>2. CASE k = p
      <4>1. ~ (m + p < m + p) /\ ~ (p < p)
        BY <1>2
      <4> QED
        BY <1>1, <1>2, <3>2, <4>1 DEF Spot
    <3> QED
      BY <1>2, <3>1, <3>2
  <2>3. all[j] = new[k] /\ GoesOn(new, b, rest2, k)
    BY <1>2, <2>1
  <2> QED
    BY <1>1, <2>1, <2>2, <2>3 DEF GoesOn
<1> QED
  BY <1>4, <1>5

(* A list of code for a block, lengthened by the code of what comes next,  *)
(* is the code of the block up to there.                                   *)
LEMMA CodeGrows ==
  ASSUME NEW is \in Seq(ReilInsn), NEW new \in Seq(ReilInsn), new # <<>>,
         NEW ls, NEW b, NEW c, NEW c2, CodeOf(is, ls, b, c),
         Bil!FirstFrom(b, c) = Bil!AtStmt(new[1].stmt),
         \A j \in DOMAIN new :
           /\ GoesOn(new, b, Bil!FirstFrom(b, c2), j)
           /\ new[j].op = "jcc" => Aims(b, new[j].to, TargetFor(b, new[j]))
  PROVE  CodeOf(is \o new, ls, b, c2)
<1>1. PICK all, m, p : all = is \o new /\ m = Len(is) /\ p = Len(new)
  OBVIOUS
<1>2. PICK rest, rest2 : rest = Bil!FirstFrom(b, c) /\ rest2 = Bil!FirstFrom(b, c2)
  OBVIOUS
<1>3. /\ m \in Nat /\ p \in Nat /\ p > 0 /\ Len(all) = m + p
      /\ DOMAIN is = 1 .. m /\ DOMAIN new = 1 .. p /\ DOMAIN all = 1 .. m + p
      /\ \A i \in 1 .. m : all[i] = is[i]
      /\ \A i \in 1 .. p : all[m + i] = new[i]
  BY <1>1, JoinedAt
<1>4. /\ Bil!Known(b) /\ Spot(is, rest, 0) = Bil!FirstFrom(b, 1)
      /\ \A j \in DOMAIN is : GoesOn(is, b, rest, j)
      /\ \A j \in DOMAIN is : is[j].op = "jcc" => Aims(b, is[j].to, TargetFor(b, is[j]))
      /\ LabelsRight(ls, is, b, rest)
  BY <1>2 DEF CodeOf
<1>5. /\ \A j \in DOMAIN new : GoesOn(new, b, rest2, j)
      /\ \A j \in DOMAIN new : new[j].op = "jcc" => Aims(b, new[j].to, TargetFor(b, new[j]))
      /\ rest = Bil!AtStmt(new[1].stmt)
  BY <1>2
<1>6. ASSUME NEW n \in 0 .. m PROVE Spot(all, rest2, n) = Spot(is, rest, n)
  <2>1. n \in 0 .. Len(is)
    BY <1>1
  <2> QED
    BY <1>1, <1>5, <2>1, SpotsStay
<1>7. ASSUME NEW j \in DOMAIN all PROVE GoesOn(all, b, rest2, j)
  <2>1. j \in DOMAIN (is \o new)
    BY <1>1
  <2> QED
    BY <1>1, <1>4, <1>5, <2>1, CodeJoined
<1>8. ASSUME NEW j \in DOMAIN all, all[j].op = "jcc"
      PROVE  Aims(b, all[j].to, TargetFor(b, all[j]))
  <2>1. j \in 1 .. m + p
    BY <1>3
  <2>2. CASE j \in 1 .. m
    <3>1. j \in DOMAIN is /\ all[j] = is[j]
      BY <1>3, <2>2
    <3> QED
      BY <1>4, <1>8, <3>1
  <2>3. CASE j \notin 1 .. m
    <3>1. j - m \in 1 .. p /\ j = m + (j - m)
      BY <1>3, <2>1, <2>3
    <3>2. j - m \in DOMAIN new /\ all[j] = new[j - m]
      BY <1>3, <3>1
    <3> QED
      BY <1>5, <1>8, <3>2
  <2> QED
    BY <2>2, <2>3
<1>9. Spot(all, rest2, 0) = Bil!FirstFrom(b, 1)
  BY <1>3, <1>4, <1>6
<1>10. LabelsRight(ls, all, b, rest2)
  <2>1. \A n \in 0 .. Len(is) : n \in 0 .. Len(all) /\ n \in 0 .. m
    BY <1>1, <1>3
  <2> QED
    BY <1>4, <1>6, <2>1 DEF LabelsRight
<1> QED
  BY <1>1, <1>2, <1>4, <1>7, <1>8, <1>9, <1>10 DEF CodeOf

(* get_bil_label finds the way of the jump, or leaves its name.            *)
LEMMA TargetAims ==
  ASSUME PlacedOnce(block), block \in Seq(Stmt), NEW t \in Targets
  PROVE  Aims(block, TargetOf(t), t)
<1>0. ASSUME NEW i \in DOMAIN block, block[i].kind = "label"
      PROVE  block[i].to \notin {"pc", "reg"}
  <2>1. block[i] \in Stmt
    BY ElementOfSeq
  <2>2. block[i].to \in Names
    BY <1>0, <2>1 DEF Stmt
  <2> QED
    BY <2>2, NamesAssumption
<1>1. CASE t = "pc"
  <2>1. TargetOf(t) = OtherPc
    BY <1>0, <1>1 DEF TargetOf
  <2>2. Bil!Goto(block, t) = Bil!Out("pc")
    BY <1>1 DEF Bil!Goto
  <2> QED
    BY <2>1, <2>2 DEF OtherPc, Aims
<1>2. CASE t = "reg"
  <2>1. TargetOf(t) = InReg
    BY <1>0, <1>2 DEF TargetOf
  <2>2. Bil!Goto(block, t) = Bil!Out("reg")
    BY <1>2 DEF Bil!Goto
  <2> QED
    BY <2>1, <2>2 DEF InReg, Aims
<1>3. CASE t \notin {"pc", "reg"}
  <2>1. t \in Names
    BY <1>3 DEF Targets
  <2>2. CASE \E i \in DOMAIN block : block[i].kind = "label" /\ block[i].to = t /\ IsLast(i)
    <3>1. PICK i \in DOMAIN block : block[i].kind = "label" /\ block[i].to = t /\ IsLast(i)
      BY <2>2
    <3>2. TargetOf(t).at = "next"
      BY <1>3, <2>2 DEF TargetOf, NextInsn
    <3>3. \A n \in i .. Len(block) : n = i \/ n \in i + 1 .. Len(block)
      BY LenProperties
    <3>4. \A n \in i .. Len(block) : ~ Bil!Acts(block, n)
      BY <3>1, <3>3 DEF IsLast, Bil!Acts
    <3>5. Bil!FirstFrom(block, i) = Bil!Out("next")
      BY <3>4, NoneIs
    <3>6. Bil!Goto(block, t) = Bil!FirstFrom(block, i)
      BY <2>1, <3>1, GotoLabel
    <3> QED
      BY <3>2, <3>5, <3>6 DEF Aims
  <2>3. CASE ~ \E i \in DOMAIN block : block[i].kind = "label" /\ block[i].to = t /\ IsLast(i)
    BY <1>3, <2>1, <2>3 DEF TargetOf, Named, Aims
  <2> QED
    BY <2>2, <2>3
<1> QED
  BY <1>1, <1>2, <1>3


-----------------------------------------------------------------------------
(* A step of the lowering that adds code for the statement at hand.        *)
LEMMA Lengthens ==
  ASSUME RunInv, IInv', phase = "stmts", cur \in DOMAIN block, Bil!Acts(block, cur),
         NEW new \in Seq(ReilInsn), new # <<>>, new[1].stmt = cur, NEW c2, cur' = c2,
         \A j \in DOMAIN new :
           /\ GoesOn(new, block, Bil!FirstFrom(block, c2), j)
           /\ new[j].op = "jcc" => Aims(block, new[j].to, TargetFor(block, new[j])),
         insts' = insts \o new,
         UNCHANGED <<phase, block, labels, delivered, todo, source, pc, cond>>
  PROVE  RunInv'
<1>1. /\ IInv /\ CodeOf(insts, labels, block, cur) /\ pc = Outside("idle")
      /\ IsPlain(block) /\ \A n \in DOMAIN todo : IsPlain(todo[n])
  BY DEF RunInv
<1>2. insts \in Seq(ReilInsn) /\ block \in Seq(Stmt)
  BY <1>1 DEF IInv, BilTypeOK
<1>3. Bil!FirstFrom(block, cur) = Bil!AtStmt(new[1].stmt)
  <2>1. Len(block) \in Nat /\ cur \in 1 .. Len(block)
    BY <1>2
  <2> QED
    BY <2>1, FirstHere
<1>4. CodeOf(insts \o new, labels, block, c2)
  BY <1>1, <1>2, <1>3, CodeGrows
<1>5. CodeOf(insts', labels', block', cur')
  BY <1>4
<1>6. pc'.at # "inum" /\ pc' = Outside("idle")
  BY <1>1 DEF Outside
<1> QED
  BY <1>1, <1>5, <1>6 DEF RunInv

(* A step of the lowering that makes no code for a statement that does     *)
(* nothing.                                                                *)
LEMMA Passes ==
  ASSUME RunInv, IInv', phase = "stmts", cur \in DOMAIN block, ~ Bil!Acts(block, cur),
         cur' = cur + 1, NEW ls, labels' = ls,
         LabelsRight(ls, insts, block, Bil!FirstFrom(block, cur)),
         UNCHANGED <<phase, block, insts, delivered, todo, source, pc, cond>>
  PROVE  RunInv'
<1>1. /\ IInv /\ CodeOf(insts, labels, block, cur) /\ pc = Outside("idle")
      /\ IsPlain(block) /\ \A n \in DOMAIN todo : IsPlain(todo[n])
  BY DEF RunInv
<1>2. block \in Seq(Stmt)
  BY <1>1 DEF IInv, BilTypeOK
<1>3. Bil!FirstFrom(block, cur) = Bil!FirstFrom(block, cur + 1)
  <2>1. Len(block) \in Nat /\ cur \in 1 .. Len(block)
    BY <1>2
  <2> QED
    BY <2>1, FirstHere
<1>4. CodeOf(insts, ls, block, cur + 1)
  BY <1>1, <1>3 DEF CodeOf
<1>5. CodeOf(insts', labels', block', cur')
  BY <1>4
<1>6. pc'.at # "inum" /\ pc' = Outside("idle")
  BY <1>1 DEF Outside
<1> QED
  BY <1>1, <1>5, <1>6 DEF RunInv

(* What a MOVE or a CJMP makes is no return.                               *)
LEMMA NoReturn ==
  ASSUME IsPlain(block), block[cur].kind \in {"move", "cjmp"}, cur \in DOMAIN block
  PROVE  "ret" \notin StmtFlags(cur)
BY DEF IsPlain, ReturnsByJump, StmtFlags

(* The code of an operator stays at its statement, or leaves it when the   *)
(* operator is the whole of a MOVE.                                        *)
LEMMA OpCode ==
  ASSUME NEW op \in Ops, NEW flags \in SUBSET {"end", "bb", "call"},
         instCount \in Nat, cur \in DOMAIN block, block \in Seq(Stmt), Bil!Acts(block, cur),
         NEW rest,
         \/ rest = Bil!AtStmt(cur)
         \/ block[cur].kind = "move" /\ rest = Bil!FirstFrom(block, cur + 1)
  PROVE  \A j \in DOMAIN Code(op, flags) :
           GoesOn(Code(op, flags), block, rest, j) /\ Code(op, flags)[j].op = "op"
<1>1. PICK new : new = Code(op, flags)
  OBVIOUS
<1>2. PICK e : e = Emits[op]
  OBVIOUS
<1>3. e \in Nat /\ e > 0
  BY <1>2, EmitsAssumption
<1>4. /\ DOMAIN new = 1 .. e /\ Len(new) = e
      /\ \A k \in 1 .. e : new[k].op = "op" /\ new[k].stmt = cur /\ ~ NeverGoesOn(new[k])
  BY <1>1, <1>2, <1>3 DEF Code, Insn, NeverGoesOn
<1>5. ASSUME NEW j \in 1 .. e
      PROVE  GoesOn(new, block, rest, j)
  <2>1. Spot(new, rest, j) \in {Bil!AtStmt(cur), rest}
    <3>1. CASE j < e
      <4>1. j + 1 \in 1 .. e
        BY <1>3, <3>1
      <4> QED
        BY <1>4, <3>1, <4>1 DEF Spot
    <3>2. CASE ~ (j < e)
      BY <1>4, <3>2 DEF Spot
    <3> QED
      BY <3>1, <3>2
  <2>2. CASE Spot(new, rest, j) = Bil!AtStmt(cur)
    BY <1>4, <2>2 DEF GoesOn
  <2>3. CASE Spot(new, rest, j) = rest
    BY <1>4, <2>3 DEF GoesOn
  <2> QED
    BY <2>1, <2>2, <2>3
<1> QED
  BY <1>1, <1>4, <1>5


LEMMA LowerOpFollows ==
  ASSUME RunInv, IInv', LowerOp, UNCHANGED <<source, pc, cond>>
  PROVE  RunInv'
<1> DEFINE s == block[cur]
           whole == s.kind = "move" /\ lowered + 1 = Len(s.ops)
<1>1. PICK op, flags : op = s.ops[lowered + 1] /\ flags = IF whole THEN StmtFlags(cur) ELSE {}
  OBVIOUS
<1>2. /\ phase = "stmts" /\ cur \in DOMAIN block /\ s.kind \in {"move", "cjmp"}
      /\ lowered < Len(s.ops)
      /\ insts' = insts \o Code(op, flags)
      /\ IF whole THEN cur' = cur + 1 ELSE cur' = cur
      /\ UNCHANGED <<phase, block, labels, delivered, todo>>
  BY <1>1 DEF LowerOp, AtStmt, NextStmt
<1>3. IInv /\ block \in Seq(Stmt) /\ lowered \in Nat /\ cur \in Nat /\ instCount \in Nat
  BY DEF RunInv, IInv, BilTypeOK
<1>4. op \in Ops
  <2>1. s.ops \in Seq(Ops)
    BY <1>2, <1>3, ElementOfSeq DEF Stmt
  <2> QED
    BY <1>1, <1>2, <1>3, <2>1, ElementOfSeq
<1>5. flags \in SUBSET {"end", "bb", "call"}
  <2>1. flags \in SUBSET {"end", "bb", "call", "ret"}
    BY <1>1, FlagsType
  <2>2. "ret" \notin flags
    BY <1>1, <1>2, NoReturn DEF RunInv
  <2> QED
    BY <2>1, <2>2
<1>6. Bil!Acts(block, cur)
  BY <1>2 DEF Bil!Acts
<1>7. PICK c2, rest : c2 = cur' /\ rest = Bil!FirstFrom(block, c2)
  OBVIOUS
<1>8. rest = Bil!AtStmt(cur) \/ (s.kind = "move" /\ rest = Bil!FirstFrom(block, cur + 1))
  <2>1. CASE whole
    BY <1>2, <1>7, <2>1
  <2>2. CASE ~ whole
    <3>1. Len(block) \in Nat /\ cur \in 1 .. Len(block) /\ rest = Bil!FirstFrom(block, cur)
      BY <1>2, <1>3, <1>7, <2>2
    <3> QED
      BY <1>6, <3>1, FirstHere
  <2> QED
    BY <2>1, <2>2
<1>9. PICK new : new = Code(op, flags)
  OBVIOUS
<1>10. new \in Seq(ReilInsn) /\ new # <<>>
  <2>1. flags \in SUBSET {"end", "bb", "call", "ret"}
    BY <1>5
  <2> QED
    BY <1>3, <1>4, <1>9, <2>1, CodeType
<1>11. new[1].stmt = cur
  <2>1. 1 \in 1 .. Emits[op]
    BY <1>4, EmitsAssumption
  <2> QED
    BY <1>9, <2>1 DEF Code, Insn
<1>12. \A j \in DOMAIN new : GoesOn(new, block, rest, j) /\ new[j].op = "op"
  BY <1>2, <1>3, <1>4, <1>5, <1>6, <1>8, <1>9, OpCode
<1>13. \A j \in DOMAIN new :
         /\ GoesOn(new, block, Bil!FirstFrom(block, c2), j)
         /\ new[j].op = "jcc" => Aims(block, new[j].to, TargetFor(block, new[j]))
  BY <1>7, <1>12
<1> QED
  BY <1>2, <1>6, <1>7, <1>9, <1>10, <1>11, <1>13, Lengthens

LEMMA JmpStmtFollows ==
  ASSUME RunInv, IInv', JmpStmt, UNCHANGED <<source, pc, cond>>
  PROVE  RunInv'
<1>1. PICK x : x = Insn(instCount, "jcc", JumpFlags(cur), TargetOf(block[cur].to), "always", cur)
  OBVIOUS
<1>2. /\ phase = "stmts" /\ cur \in DOMAIN block /\ block[cur].kind = "jmp"
      /\ insts' = Append(insts, x) /\ cur' = cur + 1
      /\ UNCHANGED <<phase, block, labels, delivered, todo>>
  BY <1>1 DEF JmpStmt, AtStmt, NextStmt
<1>3. /\ IInv /\ block \in Seq(Stmt) /\ cur \in Nat /\ instCount \in Nat /\ insts \in Seq(ReilInsn)
      /\ PlacedOnce(block)
  BY DEF RunInv, IInv, BilTypeOK, IsPlain
<1>4. block[cur].to \in Targets
  <2>1. block[cur] \in Stmt
    BY <1>2, <1>3, ElementOfSeq
  <2> QED
    BY <1>2, <2>1 DEF Stmt
<1>5. x \in ReilInsn
  BY <1>1, <1>3, <1>4, TargetOfType, FlagsType DEF Insn, ReilInsn
<1>6. x.op = "jcc" /\ x.stmt = cur /\ x.when = "always" /\ x.to = TargetOf(block[cur].to)
  BY <1>1 DEF Insn
<1>7. PICK new : new = <<x>>
  OBVIOUS
<1>8. /\ new \in Seq(ReilInsn) /\ new # <<>> /\ new[1] = x
      /\ \A j \in DOMAIN new : new[j] = x
  BY <1>5, <1>7
<1>9. insts' = insts \o new
  BY <1>2, <1>3, <1>5, <1>7, AppendIsConcat
<1>10. Bil!Acts(block, cur)
  BY <1>2 DEF Bil!Acts
<1>11. PICK c2 : c2 = cur'
  OBVIOUS
<1>12. ASSUME NEW j \in DOMAIN new
       PROVE  GoesOn(new, block, Bil!FirstFrom(block, c2), j)
  <2>1. new[j] = x
    BY <1>8
  <2> QED
    BY <1>2, <1>6, <1>10, <2>1 DEF GoesOn
<1>13. ASSUME NEW j \in DOMAIN new
       PROVE  Aims(block, new[j].to, TargetFor(block, new[j]))
  <2>1. new[j] = x
    BY <1>8
  <2>2. TargetFor(block, x) = block[cur].to
    BY <1>6 DEF TargetFor
  <2> QED
    BY <1>3, <1>4, <1>6, <2>1, <2>2, TargetAims
<1> QED
  BY <1>2, <1>6, <1>8, <1>9, <1>10, <1>11, <1>12, <1>13, Lengthens

(* The JCC falls through to the label behind the jump, which is the other  *)
(* target.                                                                 *)
LEMMA CJmpStmtFollows ==
  ASSUME RunInv, IInv', CJmpStmt, UNCHANGED <<source, pc, cond>>
  PROVE  RunInv'
<1>1. PICK s, flags : s = block[cur] /\ flags = StmtFlags(cur) \cup {"bb"}
  OBVIOUS
<1>2. /\ phase = "stmts" /\ cur \in DOMAIN block /\ s.kind = "cjmp" /\ CJmpAccepted
      /\ insts' = insts \o CJmpCode /\ cur' = cur + 1
      /\ UNCHANGED <<phase, block, labels, delivered, todo>>
  BY <1>1 DEF CJmpStmt, AtStmt, NextStmt
<1>3. /\ IInv /\ block \in Seq(Stmt) /\ cur \in Nat /\ instCount \in Nat /\ insts \in Seq(ReilInsn)
      /\ PlacedOnce(block) /\ FallsThrough(block)
  BY DEF RunInv, IInv, BilTypeOK, IsPlain
<1>4. s.to \in Targets /\ s.els \in Targets
  <2>1. s \in Stmt
    BY <1>1, <1>2, <1>3, ElementOfSeq
  <2> QED
    BY <1>2, <2>1 DEF Stmt
<1>5. flags \subseteq {"end", "bb", "call", "ret"} /\ "ret" \notin flags
  BY <1>1, <1>2, FlagsType, NoReturn DEF RunInv
<1>6. Bil!Acts(block, cur)
  BY <1>1, <1>2 DEF Bil!Acts
<1>7. /\ cur + 1 \in DOMAIN block /\ block[cur + 1].kind = "label" /\ block[cur + 1].to \in Names
      /\ cur < Len(block)
  <2>1. cur + 1 \in DOMAIN block /\ block[cur + 1].kind = "label"
    BY <1>2 DEF CJmpAccepted
  <2>2. block[cur + 1] \in Stmt
    BY <1>3, <2>1, ElementOfSeq
  <2>3. block[cur + 1].to \in Names
    BY <2>1, <2>2 DEF Stmt
  <2>4. cur < Len(block)
    BY <1>3, <2>1, LenProperties
  <2> QED
    BY <2>1, <2>3, <2>4
<1>8. PICK c2, rest : c2 = cur' /\ rest = Bil!FirstFrom(block, c2)
  OBVIOUS
<1>9. rest = Bil!Goto(block, block[cur + 1].to)
  BY <1>2, <1>3, <1>7, <1>8, GotoLabel
<1>10. PICK new : new = CJmpCode
  OBVIOUS
<1>11. /\ new \in Seq(ReilInsn) /\ new # <<>> /\ new[1].stmt = cur
       /\ \A j \in DOMAIN new :
            /\ GoesOn(new, block, rest, j)
            /\ new[j].op = "jcc" => Aims(block, new[j].to, TargetFor(block, new[j]))
  <2>1. CASE IsNextLabel(s.to)
    <3>1. PICK x, y : /\ x = Insn(instCount, "op", {}, NoWhere, "-", cur)
                      /\ y = Insn(instCount + 1, "jcc", flags, TargetOf(s.els), "false", cur)
      OBVIOUS
    <3>2. new = <<x, y>>
      BY <1>1, <1>10, <2>1, <3>1 DEF CJmpCode
    <3>3. x \in ReilInsn /\ x.op = "op" /\ x.stmt = cur /\ ~ NeverGoesOn(x)
      BY <1>3, <3>1 DEF Insn, ReilInsn, NoWhere, Locs, NeverGoesOn
    <3>4. y \in ReilInsn
      BY <1>3, <1>4, <1>5, <3>1, TargetOfType DEF Insn, ReilInsn
    <3>5. y.op = "jcc" /\ y.stmt = cur /\ y.when = "false" /\ y.to = TargetOf(s.els) /\ ~ NeverGoesOn(y)
      BY <1>5, <3>1 DEF Insn, NeverGoesOn
    <3>6. /\ new \in Seq(ReilInsn) /\ new # <<>> /\ Len(new) = 2 /\ DOMAIN new = {1, 2}
          /\ new[1] = x /\ new[2] = y
      BY <3>2, <3>3, <3>4
    <3>7. GoesOn(new, block, rest, 1)
      <4>1. Spot(new, rest, 1) = Bil!AtStmt(cur)
        BY <3>5, <3>6 DEF Spot
      <4> QED
        BY <1>2, <1>6, <3>3, <3>6, <4>1 DEF GoesOn
    <3>8. GoesOn(new, block, rest, 2)
      <4>1. Spot(new, rest, 2) = rest
        BY <3>6 DEF Spot
      <4>2. rest = Bil!Goto(block, s.to)
        BY <1>9, <2>1 DEF IsNextLabel
      <4> QED
        BY <1>1, <1>2, <1>6, <3>5, <3>6, <4>1, <4>2 DEF GoesOn
    <3>9. Aims(block, y.to, TargetFor(block, y))
      <4>1. TargetFor(block, y) = s.els
        BY <1>1, <3>5 DEF TargetFor
      <4> QED
        BY <1>3, <1>4, <3>5, <4>1, TargetAims
    <3> QED
      BY <3>3, <3>6, <3>7, <3>8, <3>9
  <2>2. CASE ~ IsNextLabel(s.to)
    <3>1. PICK y : y = Insn(instCount, "jcc", flags, TargetOf(s.to), "true", cur)
      OBVIOUS
    <3>2. new = <<y>>
      BY <1>1, <1>10, <2>2, <3>1 DEF CJmpCode
    <3>3. y \in ReilInsn
      BY <1>3, <1>4, <1>5, <3>1, TargetOfType DEF Insn, ReilInsn
    <3>4. y.op = "jcc" /\ y.stmt = cur /\ y.when = "true" /\ y.to = TargetOf(s.to) /\ ~ NeverGoesOn(y)
      BY <1>5, <3>1 DEF Insn, NeverGoesOn
    <3>5. /\ new \in Seq(ReilInsn) /\ new # <<>> /\ Len(new) = 1 /\ DOMAIN new = {1}
          /\ new[1] = y
      BY <3>2, <3>3
    <3>6. GoesOn(new, block, rest, 1)
      <4>1. Spot(new, rest, 1) = rest
        BY <3>5 DEF Spot
      <4>2. block[cur + 1].to = s.els
        BY <1>1, <1>2, <1>3, <1>7, <2>2 DEF FallsThrough, IsNextLabel
      <4>3. rest = Bil!Goto(block, s.els)
        BY <1>9, <4>2
      <4> QED
        BY <1>1, <1>2, <1>6, <3>4, <3>5, <4>1, <4>3 DEF GoesOn
    <3>7. Aims(block, y.to, TargetFor(block, y))
      <4>1. TargetFor(block, y) = s.to
        BY <1>1, <3>4 DEF TargetFor
      <4> QED
        BY <1>3, <1>4, <3>4, <4>1, TargetAims
    <3> QED
      BY <3>4, <3>5, <3>6, <3>7
  <2> QED
    BY <2>1, <2>2
<1>12. insts' = insts \o new
  BY <1>2, <1>10
<1>13. \A j \in DOMAIN new :
         /\ GoesOn(new, block, Bil!FirstFrom(block, c2), j)
         /\ new[j].op = "jcc" => Aims(block, new[j].to, TargetFor(block, new[j]))
  BY <1>8, <1>11
<1> QED
  BY <1>2, <1>6, <1>8, <1>11, <1>12, <1>13, Lengthens


LEMMA LabelStmtFollows ==
  ASSUME RunInv, IInv', LabelStmt, UNCHANGED <<source, pc, cond>>
  PROVE  RunInv'
<1>1. PICK l, ls, rest : /\ l = [name |-> block[cur].to, loc |-> LabelLoc(cur)]
                         /\ ls = Append(labels, l) /\ rest = Bil!FirstFrom(block, cur)
  OBVIOUS
<1>2. /\ phase = "stmts" /\ cur \in DOMAIN block /\ block[cur].kind = "label"
      /\ labels' = ls /\ cur' = cur + 1
      /\ UNCHANGED <<phase, block, insts, instCount, delivered, todo>>
  BY <1>1 DEF LabelStmt, AtStmt, NextStmt
<1>3. /\ block \in Seq(Stmt) /\ labels \in Seq(Label) /\ insts \in Seq(ReilInsn)
      /\ instCount = Len(insts) /\ instCount \in Nat
      /\ LabelsRight(labels, insts, block, rest)
  BY <1>1, <1>2 DEF RunInv, IInv, BilTypeOK, WhileLowering, CodeOf
<1>4. cur \in 1 .. Len(block) /\ Len(block) \in Nat
  BY <1>2, <1>3
<1>5. block[cur].to \in Names
  <2>1. block[cur] \in Stmt
    BY <1>2, <1>3, ElementOfSeq
  <2> QED
    BY <1>2, <2>1 DEF Stmt
<1>6. l \in Label /\ l.name = block[cur].to
  BY <1>1, <1>3, <1>5 DEF Label, LabelLoc, Locs, Here, NextInsn
<1>7. \/ l.loc.at = "next" /\ Bil!FirstFrom(block, cur) = Bil!Out("next")
      \/ l.loc.at = "here" /\ l.loc.inum \in 0 .. Len(insts)
         /\ Bil!FirstFrom(block, cur) = Spot(insts, rest, l.loc.inum)
  <2>1. CASE IsLast(cur)
    <3>1. l.loc.at = "next"
      BY <1>1, <2>1 DEF LabelLoc, NextInsn
    <3>2. \A n \in cur .. Len(block) : n = cur \/ n \in cur + 1 .. Len(block)
      BY <1>4
    <3>3. \A n \in cur .. Len(block) : ~ Bil!Acts(block, n)
      BY <1>2, <2>1, <3>2 DEF IsLast, Bil!Acts
    <3> QED
      BY <3>1, <3>3, NoneIs
  <2>2. CASE ~ IsLast(cur)
    <3>1. l.loc.at = "here" /\ l.loc.inum = instCount
      BY <1>1, <2>2 DEF LabelLoc, Here
    <3>2. Spot(insts, rest, instCount) = rest
      BY <1>3 DEF Spot
    <3> QED
      BY <1>1, <1>3, <3>1, <3>2
  <2> QED
    BY <2>1, <2>2
<1>8. /\ Len(ls) = Len(labels) + 1 /\ ls[Len(labels) + 1] = l /\ Len(labels) \in Nat
      /\ DOMAIN ls = 1 .. Len(labels) + 1 /\ DOMAIN labels = 1 .. Len(labels)
      /\ \A i \in 1 .. Len(labels) : ls[i] = labels[i]
  <2>1. ls \in Seq(Label)
    BY <1>1, <1>3, <1>6, AppendProperties
  <2> QED
    BY <1>1, <1>3, <1>6, <2>1, AppendProperties
<1>9. LabelsRight(ls, insts, block, rest)
  <2> SUFFICES ASSUME NEW i \in DOMAIN ls
               PROVE  \E k \in DOMAIN block :
                        /\ block[k].kind = "label" /\ block[k].to = ls[i].name
                        /\ \/ ls[i].loc.at = "next" /\ Bil!FirstFrom(block, k) = Bil!Out("next")
                           \/ ls[i].loc.at = "here" /\ ls[i].loc.inum \in 0 .. Len(insts)
                              /\ Bil!FirstFrom(block, k) = Spot(insts, rest, ls[i].loc.inum)
    BY DEF LabelsRight
  <2>1. CASE i = Len(labels) + 1
    <3>1. ls[i] = l
      BY <1>8, <2>1
    <3> QED
      BY <1>2, <1>6, <1>7, <3>1
  <2>2. CASE i # Len(labels) + 1
    <3>1. i \in DOMAIN labels /\ ls[i] = labels[i]
      BY <1>8, <2>2
    <3> QED
      BY <1>3, <3>1 DEF LabelsRight
  <2> QED
    BY <2>1, <2>2
<1>10. ~ Bil!Acts(block, cur)
  BY <1>2 DEF Bil!Acts
<1> QED
  BY <1>1, <1>2, <1>9, <1>10, Passes

LEMMA SkipStmtFollows ==
  ASSUME RunInv, IInv', SkipStmt, UNCHANGED <<source, pc, cond>>
  PROVE  RunInv'
<1>1. /\ phase = "stmts" /\ cur \in DOMAIN block /\ ~ Bil!Acts(block, cur) /\ cur' = cur + 1
      /\ UNCHANGED <<phase, block, insts, labels, instCount, delivered, todo>>
  BY DEF SkipStmt, AtStmt, NextStmt, Bil!Acts
<1>2. LabelsRight(labels, insts, block, Bil!FirstFrom(block, cur))
  BY <1>1 DEF RunInv, CodeOf
<1> QED
  BY <1>1, <1>2, Passes

(* A block that made no code does nothing.                                 *)
LEMMA EndOfStmtsFollows ==
  ASSUME RunInv, IInv', EndOfStmts, UNCHANGED <<source, pc, cond>>
  PROVE  RunInv'
<1>1. PICK none : none = Insn(0, "none", {"end"}, NoWhere, "-", 1)
  OBVIOUS
<1>2. /\ phase = "stmts" /\ cur = Len(block) + 1 /\ phase' = "resolve"
      /\ insts' = IF instCount = 0 THEN <<none>> ELSE insts
      /\ UNCHANGED <<block, cur, lowered, labels, instCount, delivered, todo>>
  BY <1>1 DEF EndOfStmts
<1>3. /\ IInv /\ block \in Seq(Stmt) /\ insts \in Seq(ReilInsn) /\ instCount = Len(insts)
      /\ CodeOf(insts, labels, block, cur) /\ pc = Outside("idle")
      /\ IsPlain(block) /\ \A n \in DOMAIN todo : IsPlain(todo[n])
  BY <1>2 DEF RunInv, IInv, BilTypeOK, WhileLowering
<1>4. \/ EmptyCode(insts', block)
      \/ insts' # <<>> /\ CodeOf(insts', labels, block, Len(block) + 1)
  <2>1. CASE instCount = 0
    <3>1. PICK b, is : b = block /\ is = insts'
      OBVIOUS
    <3>2. Len(b) \in Nat /\ \A n \in Len(b) + 1 .. Len(b) : FALSE
      BY <1>3, <3>1, LenProperties
    <3>3. Bil!FirstFrom(b, Len(b) + 1) = Bil!Out("next")
      BY <3>2, NoneIs
    <3>4. Bil!Known(b) /\ Spot(insts, Bil!FirstFrom(b, Len(b) + 1), 0) = Bil!FirstFrom(b, 1)
      BY <1>2, <1>3, <3>1 DEF CodeOf
    <3>5. Bil!FirstFrom(b, 1) = Bil!Out("next")
      BY <1>3, <2>1, <3>3, <3>4 DEF Spot
    <3>6. is = <<none>> /\ none.op = "none" /\ ~ NeverGoesOn(none)
      BY <1>1, <1>2, <2>1, <3>1 DEF Insn, NeverGoesOn
    <3> QED
      BY <3>1, <3>4, <3>5, <3>6 DEF EmptyCode
  <2>2. CASE instCount # 0
    <3>1. insts' = insts /\ insts # <<>>
      BY <1>2, <1>3, <2>2
    <3> QED
      BY <1>2, <1>3, <3>1
  <2> QED
    BY <2>1, <2>2
<1>5. pc'.at # "inum" /\ pc' = Outside("idle")
  BY <1>3 DEF Outside
<1>6. block' = block /\ labels' = labels /\ todo' = todo
  BY <1>2
<1> QED
  BY <1>2, <1>3, <1>4, <1>5, <1>6 DEF RunInv

LEMMA UnknownInsnFollows ==
  ASSUME RunInv, IInv', NEW args \in 0 .. MaxArgs, UnknownInsn(args), UNCHANGED <<source, pc, cond>>
  PROVE  RunInv'
<1>1. PICK n : n = IF args = 0 THEN 1 ELSE args
  OBVIOUS
<1>2. n \in Nat /\ n > 0
  BY <1>1, BoundsAssumption
<1>3. /\ phase = "unknown" /\ phase' = "resolve"
      /\ insts' = [k \in 1 .. n |-> Insn(k - 1, "unk", {f \in {"end"} : k = n}, NoWhere, "-", 1)]
      /\ UNCHANGED <<block, cur, lowered, labels, instCount, delivered, todo>>
  BY <1>1 DEF UnknownInsn
<1>4. /\ ~ Bil!Known(block) /\ pc = Outside("idle")
      /\ IsPlain(block) /\ \A k \in DOMAIN todo : IsPlain(todo[k])
  BY <1>3 DEF RunInv
<1>5. DOMAIN insts' = 1 .. n /\ \A j \in 1 .. n : insts'[j].op = "unk"
  BY <1>3 DEF Insn
<1>6. insts' # <<>>
  BY <1>2, <1>5
<1>7. UnknownCode(insts', block)
  BY <1>4, <1>5, <1>6 DEF UnknownCode
<1>8. pc'.at # "inum" /\ pc' = Outside("idle")
  BY <1>4 DEF Outside
<1>9. block' = block /\ todo' = todo
  BY <1>3
<1> QED
  BY <1>3, <1>4, <1>7, <1>8, <1>9 DEF RunInv

LEMMA FailingFollows ==
  ASSUME RunInv, IInv', phase \in {"stmts", "resolve"}, phase' = "failed",
         UNCHANGED <<block, todo, source, pc, cond>>
  PROVE  RunInv'
<1>1. /\ pc = Outside("idle")
      /\ IsPlain(block) /\ \A k \in DOMAIN todo : IsPlain(todo[k])
  BY DEF RunInv
<1>2. pc'.at # "inum"
  BY <1>1 DEF Outside
<1> QED
  BY <1>1, <1>2 DEF RunInv


LEMMA BeginFollows == ASSUME RunInv, IInv', Begin PROVE RunInv'
<1>1. /\ todo # <<>> /\ todo \in Seq(Seq(Stmt)) /\ \A k \in DOMAIN todo : IsPlain(todo[k])
  BY DEF RunInv, IInv, BilTypeOK, Begin, Start
<1>2. PICK b, more : b = Head(todo) /\ more = Tail(todo)
  OBVIOUS
<1>3. /\ block' = b /\ cur' = 1 /\ insts' = <<>> /\ labels' = <<>> /\ todo' = more
      /\ phase' = IF IsUnknown(b) THEN "unknown" ELSE "stmts"
      /\ pc' = Outside("idle")
  BY <1>2 DEF Begin, Start, ResetState
<1>4. IsPlain(b) /\ \A k \in DOMAIN more : IsPlain(more[k])
  <2>1. PICK n \in Nat : n = Len(todo) /\ n > 0 /\ DOMAIN todo = 1 .. n
    BY <1>1, LenProperties, EmptySeq
  <2>2. b = todo[1] /\ 1 \in DOMAIN todo
    BY <1>1, <1>2, <2>1
  <2>3. Len(more) = n - 1 /\ DOMAIN more = 1 .. n - 1 /\ \A k \in 1 .. n - 1 : more[k] = todo[k + 1]
    BY <1>1, <1>2, <2>1
  <2>4. \A k \in 1 .. n - 1 : k + 1 \in 1 .. n
    BY <2>1
  <2> QED
    BY <1>1, <2>1, <2>2, <2>3, <2>4
<1>5. IsUnknown(b) <=> ~ Bil!Known(b)
  BY DEF IsUnknown, Bil!Known
<1>6. ASSUME Bil!Known(b) PROVE CodeOf(<<>>, <<>>, b, 1)
  <2>1. PICK rest : rest = Bil!FirstFrom(b, 1)
    OBVIOUS
  <2>2. Spot(<<>>, rest, 0) = rest
    BY DEF Spot
  <2>3. LabelsRight(<<>>, <<>>, b, rest)
    BY NothingIn DEF LabelsRight
  <2> QED
    BY <1>6, <2>1, <2>2, <2>3, NothingIn DEF CodeOf
<1>7. pc'.at # "inum"
  BY <1>3 DEF Outside
<1>8. CASE Bil!Known(b)
  BY <1>3, <1>4, <1>5, <1>6, <1>7, <1>8 DEF RunInv
<1>9. CASE ~ Bil!Known(b)
  BY <1>3, <1>4, <1>5, <1>7, <1>9 DEF RunInv
<1> QED
  BY <1>8, <1>9

(* The list with the labels put in is the list but for the places.         *)
LEMMA ResolvedSame ==
  ASSUME IInv, NEW is, is = Resolved
  PROVE  /\ DOMAIN is = DOMAIN insts /\ DOMAIN is = 1 .. Len(insts) /\ Len(is) = Len(insts)
         /\ Len(insts) \in Nat
         /\ \A j \in DOMAIN is :
              /\ is[j].op = insts[j].op /\ is[j].stmt = insts[j].stmt /\ is[j].when = insts[j].when
              /\ is[j].flags = insts[j].flags
              /\ is[j].to = IF insts[j].to.at = "name" THEN LocOf(insts[j].to.name) ELSE insts[j].to
<1>1. insts \in Seq(ReilInsn)
  BY DEF IInv, BilTypeOK
<1>2. Len(insts) \in Nat /\ DOMAIN insts = 1 .. Len(insts)
  BY <1>1
<1>3. DOMAIN is = 1 .. Len(insts) /\ Len(is) = Len(insts)
  BY <1>2 DEF Resolved
<1>4. ASSUME NEW j \in DOMAIN is
      PROVE  /\ is[j].op = insts[j].op /\ is[j].stmt = insts[j].stmt /\ is[j].when = insts[j].when
             /\ is[j].flags = insts[j].flags
             /\ is[j].to = IF insts[j].to.at = "name" THEN LocOf(insts[j].to.name) ELSE insts[j].to
  <2>1. insts[j] \in ReilInsn
    BY <1>1, <1>2, <1>3, ElementOfSeq
  <2>2. PICK loc : loc = LocOf(insts[j].to.name)
    OBVIOUS
  <2>3. is[j] = IF insts[j].to.at = "name" THEN [insts[j] EXCEPT !.to = loc] ELSE insts[j]
    BY <1>2, <1>3, <2>2 DEF Resolved
  <2> QED
    BY <2>1, <2>2, <2>3 DEF ReilInsn
<1> QED
  BY <1>2, <1>3, <1>4

(* What is delivered can be run in place of the block.                     *)
LEMMA DeliveredImplements ==
  ASSUME RunInv, Deliver, NEW is, is = Resolved
  PROVE  Implements(is, block) /\ is # <<>>
<1>1. /\ IInv /\ PlacedOnce(block) /\ phase = "resolve"
      /\ insts \in Seq(ReilInsn) /\ labels \in Seq(Label)
      /\ LabelsInside(labels, Len(insts), TRUE)
      /\ \A j \in DOMAIN insts : insts[j].to.at = "name" => IsNamed(insts[j].to.name)
  BY DEF RunInv, IInv, BilTypeOK, WhenComplete, Deliver, IsPlain
<1>2. /\ DOMAIN is = DOMAIN insts /\ DOMAIN is = 1 .. Len(insts) /\ Len(is) = Len(insts)
      /\ Len(insts) \in Nat
      /\ \A j \in DOMAIN is :
           /\ is[j].op = insts[j].op /\ is[j].stmt = insts[j].stmt /\ is[j].when = insts[j].when
           /\ is[j].flags = insts[j].flags
           /\ is[j].to = IF insts[j].to.at = "name" THEN LocOf(insts[j].to.name) ELSE insts[j].to
  BY <1>1, ResolvedSame
<1>3. ASSUME Len(insts) # 0 PROVE is # <<>>
  BY <1>2, <1>3
<1>4. ASSUME insts # <<>> PROVE Len(insts) # 0
  BY <1>1, <1>4, EmptySeq
<1>5. CASE UnknownCode(insts, block)
  BY <1>2, <1>3, <1>4, <1>5 DEF UnknownCode, Implements
<1>6. CASE EmptyCode(insts, block)
  <2>1. 1 \in DOMAIN is
    BY <1>2, <1>6 DEF EmptyCode
  <2> QED
    BY <1>2, <1>3, <1>6, <2>1 DEF EmptyCode, Implements, NeverGoesOn
<1>7. CASE insts # <<>> /\ CodeOf(insts, labels, block, Len(block) + 1)
  <2>1. PICK b, rest : b = block /\ rest = Bil!Out("next")
    OBVIOUS
  <2>2. Bil!FirstFrom(b, Len(b) + 1) = rest
    <3>1. b \in Seq(Stmt)
      BY <1>1, <2>1 DEF IInv, BilTypeOK
    <3>2. \A n \in Len(b) + 1 .. Len(b) : FALSE
      BY <3>1, LenProperties
    <3> QED
      BY <2>1, <3>2, NoneIs
  <2>3. /\ Bil!Known(b) /\ Spot(insts, rest, 0) = Bil!FirstFrom(b, 1)
        /\ \A j \in DOMAIN insts : GoesOn(insts, b, rest, j)
        /\ \A j \in DOMAIN insts :
             insts[j].op = "jcc" => Aims(b, insts[j].to, TargetFor(b, insts[j]))
        /\ LabelsRight(labels, insts, b, rest)
    BY <1>7, <2>1, <2>2 DEF CodeOf
  <2>4. Len(insts) > 0 /\ is # <<>>
    BY <1>2, <1>3, <1>4, <1>7
  <2>5. ASSUME NEW n \in 0 .. Len(insts)
        PROVE  Spot(is, rest, n) = Spot(insts, rest, n)
    <3>1. CASE n < Len(insts)
      <4>1. n + 1 \in DOMAIN is
        BY <1>2, <3>1
      <4>2. is[n + 1].stmt = insts[n + 1].stmt
        BY <1>2, <4>1
      <4> QED
        BY <1>2, <3>1, <4>2 DEF Spot
    <3>2. CASE ~ (n < Len(insts))
      BY <1>2, <3>2 DEF Spot
    <3> QED
      BY <3>1, <3>2
  <2>6. Bil!AtStmt(is[1].stmt) = Bil!FirstFrom(b, 1)
    <3>1. 0 \in 0 .. Len(insts) /\ 0 + 1 = 1 /\ 0 < Len(is)
      BY <1>2, <2>4
    <3>2. Spot(is, rest, 0) = Bil!AtStmt(is[1].stmt)
      BY <3>1 DEF Spot
    <3> QED
      BY <2>3, <2>5, <3>1, <3>2
  <2>7. ASSUME NEW j \in DOMAIN is PROVE GoesOn(is, b, rest, j)
    <3>1. j \in 0 .. Len(insts) /\ j \in DOMAIN insts
      BY <1>2
    <3>2. Spot(is, rest, j) = Spot(insts, rest, j)
      BY <2>5, <3>1
    <3>3. /\ is[j].op = insts[j].op /\ is[j].stmt = insts[j].stmt /\ is[j].when = insts[j].when
          /\ NeverGoesOn(is[j]) <=> NeverGoesOn(insts[j])
      BY <1>2 DEF NeverGoesOn
    <3> QED
      BY <2>3, <3>1, <3>2, <3>3 DEF GoesOn
  <2>8. ASSUME NEW j \in DOMAIN is, is[j].op = "jcc"
        PROVE  Leads(is, b, is[j].to, TargetFor(b, is[j]))
    <3>1. PICK t : t = TargetFor(b, insts[j])
      OBVIOUS
    <3>2. t = TargetFor(b, is[j])
      BY <1>2, <3>1 DEF TargetFor
    <3>3. Aims(b, insts[j].to, t)
      BY <1>2, <2>3, <2>8, <3>1
    <3>4. CASE insts[j].to.at = "name"
      <4>1. insts[j].to.name = t /\ t \in Names /\ IsNamed(t) /\ is[j].to = LocOf(t)
        BY <1>1, <1>2, <3>3, <3>4 DEF Aims
      <4>2. PICK i \in DOMAIN labels : labels[i].name = t /\ LocOf(t) = labels[i].loc
        BY <1>1, <4>1, LocOfLabel
      <4>3. PICK to : to = labels[i].loc
        OBVIOUS
      <4>4. PICK k \in DOMAIN b :
              /\ b[k].kind = "label" /\ b[k].to = t
              /\ \/ to.at = "next" /\ Bil!FirstFrom(b, k) = Bil!Out("next")
                 \/ to.at = "here" /\ to.inum \in 0 .. Len(insts)
                    /\ Bil!FirstFrom(b, k) = Spot(insts, rest, to.inum)
        BY <2>3, <4>2, <4>3 DEF LabelsRight
      <4>5. Bil!Goto(b, t) = Bil!FirstFrom(b, k)
        BY <1>1, <2>1, <4>1, <4>4, GotoLabel
      <4>6. CASE to.at = "next"
        BY <3>2, <4>1, <4>2, <4>3, <4>4, <4>5, <4>6 DEF Leads
      <4>7. CASE to.at = "here"
        <5>1. to.inum \in 0 .. Len(insts) /\ to.inum < Len(insts)
          BY <1>1, <4>3, <4>4, <4>7 DEF LabelsInside
        <5>2. Bil!FirstFrom(b, k) = Spot(is, rest, to.inum)
          BY <2>5, <4>4, <4>7, <5>1
        <5>3. to.inum < Len(is) /\ Spot(is, rest, to.inum) = Bil!AtStmt(is[to.inum + 1].stmt)
          BY <1>2, <5>1 DEF Spot
        <5> QED
          BY <3>2, <4>1, <4>2, <4>3, <4>5, <4>7, <5>2, <5>3 DEF Leads
      <4> QED
        BY <4>4, <4>6, <4>7
    <3>5. CASE insts[j].to.at # "name"
      BY <1>2, <3>2, <3>3, <3>5 DEF Aims, Leads
    <3> QED
      BY <3>4, <3>5
  <2> QED
    BY <2>1, <2>3, <2>4, <2>6, <2>7, <2>8 DEF Implements, RealCode
<1> QED
  BY <1>1, <1>5, <1>6, <1>7 DEF RunInv

LEMMA FinishFollows == ASSUME RunInv, IInv', Finish PROVE RunInv'
<1>1. PICK is : is = Resolved
  OBVIOUS
<1>2. /\ phase' = "idle" /\ block' = <<>> /\ todo' = todo /\ delivered' = is
      /\ source' = block /\ pc' = Inum(0) /\ Deliver
  BY <1>1 DEF Finish, Deliver
<1>3. Implements(is, block) /\ is # <<>>
  BY <1>1, <1>2, DeliveredImplements
<1>4. Implements(delivered', source')
  BY <1>2, <1>3
<1>5. 0 \in 0 .. Len(delivered') - 1 /\ pc'.inum = 0 /\ pc' = Inum(pc'.inum)
  <2>1. delivered' \in Seq(ReilInsn) /\ delivered' # <<>>
    BY <1>2, <1>3 DEF IInv, BilTypeOK
  <2> QED
    BY <1>2, <2>1, EmptySeq, LenProperties DEF Inum
<1>6. IsPlain(<<>>) /\ \A k \in DOMAIN todo : IsPlain(todo[k])
  BY NothingIn DEF RunInv, IsPlain, PlacedOnce, FallsThrough, ReturnsByJump
<1> QED
  BY <1>2, <1>4, <1>5, <1>6 DEF RunInv


-----------------------------------------------------------------------------
(* Where the emulator is, as a function of the code and of the next        *)
(* instruction.                                                            *)
AtOf(is, p) ==
  LET found == {j \in DOMAIN is : is[j].inum = p.inum}
      x == is[CHOOSE j \in found : TRUE]
  IN IF p.at # "inum" THEN Bil!Out(p.at)
     ELSE IF found = {} THEN Bil!Out("no instruction")
     ELSE CASE x.op = "none" -> Bil!Out("next")
            [] x.op = "unk" -> Bil!Out("unknown")
            [] OTHER -> Bil!AtStmt(x.stmt)

LEMMA AtIsAtOf == At = AtOf(delivered, pc) /\ At' = AtOf(delivered', pc')
<1>1. At = AtOf(delivered, pc)
  BY DEF At, AtOf, Bil!Out, Bil!AtStmt, Fetched, Current
<1>2. At' = AtOf(delivered', pc')
  BY DEF At, AtOf, Bil!Out, Bil!AtStmt, Fetched, Current
<1> QED
  BY <1>1, <1>2

(* There is one instruction with a number, and it tells where the          *)
(* execution is.                                                           *)
LEMMA AtInsn ==
  ASSUME NEW is \in Seq(ReilInsn), Numbered(is), NEW n \in Nat, n < Len(is), NEW x, x = is[n + 1]
  PROVE  /\ {j \in DOMAIN is : is[j].inum = n} = {n + 1} /\ x \in ReilInsn
         /\ x.op = "none" => AtOf(is, Inum(n)) = Bil!Out("next")
         /\ x.op = "unk" => AtOf(is, Inum(n)) = Bil!Out("unknown")
         /\ x.op \notin {"none", "unk"} => AtOf(is, Inum(n)) = Bil!AtStmt(x.stmt)
<1>1. DOMAIN is = 1 .. Len(is) /\ Len(is) \in Nat
  BY LenProperties
<1>2. {j \in DOMAIN is : is[j].inum = n} = {n + 1}
  <2>1. \A j \in 1 .. Len(is) : is[j].inum = j - 1
    BY <1>1 DEF Numbered
  <2>2. n + 1 \in 1 .. Len(is)
    BY <1>1
  <2>3. \A j \in 1 .. Len(is) : j - 1 = n <=> j = n + 1
    OBVIOUS
  <2> QED
    BY <1>1, <2>1, <2>2, <2>3
<1>3. x \in ReilInsn
  BY <1>1, ElementOfSeq
<1>4. PICK p : p = Inum(n)
  OBVIOUS
<1>5. p.at = "inum" /\ p.inum = n
  BY <1>4 DEF Inum
<1>6. PICK found : found = {j \in DOMAIN is : is[j].inum = p.inum}
  OBVIOUS
<1>7. found = {n + 1} /\ found # {} /\ is[CHOOSE j \in found : TRUE] = x
  BY <1>2, <1>5, <1>6
<1>8. AtOf(is, p) = CASE x.op = "none" -> Bil!Out("next")
                     [] x.op = "unk" -> Bil!Out("unknown")
                     [] OTHER -> Bil!AtStmt(x.stmt)
  BY <1>5, <1>6, <1>7 DEF AtOf
<1> QED
  BY <1>2, <1>3, <1>4, <1>8

LEMMA AtOutside ==
  ASSUME NEW is, NEW w, w # "inum"
  PROVE  AtOf(is, Outside(w)) = Bil!Out(w)
<1>1. PICK p : p = Outside(w)
  OBVIOUS
<1>2. p.at = w
  BY <1>1 DEF Outside
<1> QED
  BY <1>1, <1>2 DEF AtOf

(* Going on behind an instruction of real code leads to its next place.    *)
LEMMA FollowingLeads ==
  ASSUME NEW is \in Seq(ReilInsn), Numbered(is), EndMarked(is, TRUE), NEW b, RealCode(is, b),
         NEW n \in Nat, n < Len(is), NEW x, x = is[n + 1], ~ NeverGoesOn(x)
  PROVE  AtOf(is, Following(x)) = Spot(is, Bil!Out("next"), n + 1)
<1>1. DOMAIN is = 1 .. Len(is) /\ Len(is) \in Nat /\ n + 1 \in DOMAIN is
  BY LenProperties
<1>0. (n + 1) - 1 = n
  OBVIOUS
<1>2. x.inum = n /\ ("end" \in x.flags <=> n + 1 = Len(is))
  BY <1>0, <1>1 DEF Numbered, EndMarked
<1>3. CASE n + 1 = Len(is)
  <2>1. Following(x) = Outside("next")
    BY <1>2, <1>3 DEF Following
  <2>2. ~ (n + 1 < Len(is))
    BY <1>1, <1>3
  <2> QED
    BY <2>1, <2>2, AtOutside DEF Spot
<1>4. CASE n + 1 # Len(is)
  <2>1. Following(x) = Inum(n + 1)
    BY <1>2, <1>4 DEF Following
  <2>2. n + 1 \in Nat /\ n + 1 < Len(is) /\ (n + 1) + 1 \in DOMAIN is
    <3>1. PICK len \in Nat : len = Len(is)
      BY <1>1
    <3>2. n + 1 \in Nat /\ n + 1 < len /\ (n + 1) + 1 \in 1 .. len
      BY <1>4, <3>1
    <3> QED
      BY <1>1, <3>1, <3>2
  <2>3. PICK y : y = is[(n + 1) + 1]
    OBVIOUS
  <2>4. y.op \notin {"none", "unk"}
    BY <2>2, <2>3 DEF RealCode, GoesOn
  <2>5. AtOf(is, Inum(n + 1)) = Bil!AtStmt(y.stmt)
    BY <2>2, <2>3, <2>4, AtInsn
  <2> QED
    BY <2>1, <2>2, <2>3, <2>5 DEF Spot
<1> QED
  BY <1>3, <1>4

(* A jump of real code leads where its statement goes.                     *)
LEMMA JumpLeads ==
  ASSUME NEW is \in Seq(ReilInsn), Numbered(is), NEW b, RealCode(is, b),
         NEW j \in DOMAIN is, is[j].op = "jcc", NEW x, x = is[j]
  PROVE  AtOf(is, JumpTo(x)) = Bil!Goto(b, TargetFor(b, x))
<1>1. PICK t : t = TargetFor(b, x)
  OBVIOUS
<1>2. Leads(is, b, x.to, t)
  BY <1>1 DEF RealCode
<1>3. x \in ReilInsn
  BY ElementOfSeq
<1>4. CASE x.to.at = "here"
  <2>1. PICK m : m = x.to.inum
    OBVIOUS
  <2>2. m \in Nat /\ m < Len(is) /\ Bil!Goto(b, t) = Bil!AtStmt(is[m + 1].stmt)
    BY <1>2, <1>3, <1>4, <2>1 DEF Leads, ReilInsn, Locs
  <2>3. JumpTo(x) = Inum(m)
    BY <1>4, <2>1 DEF JumpTo
  <2>4. m + 1 \in DOMAIN is
    BY <2>2, LenProperties
  <2>5. PICK y : y = is[m + 1]
    OBVIOUS
  <2>6. y.op \notin {"none", "unk"}
    BY <2>4, <2>5 DEF RealCode, GoesOn
  <2>7. AtOf(is, Inum(m)) = Bil!AtStmt(y.stmt)
    BY <2>2, <2>5, <2>6, AtInsn
  <2> QED
    BY <1>1, <2>2, <2>3, <2>5, <2>7
<1>5. CASE x.to.at # "here"
  <2>1. PICK w : w = x.to.at
    OBVIOUS
  <2>2. w # "inum" /\ Bil!Goto(b, t) = Bil!Out(w)
    BY <1>2, <1>5, <2>1 DEF Leads
  <2>3. JumpTo(x) = Outside(w)
    BY <1>5, <2>1 DEF JumpTo
  <2> QED
    BY <1>1, <2>2, <2>3, AtOutside
<1> QED
  BY <1>4, <1>5


-----------------------------------------------------------------------------
(* The emulator at the instruction with number n. *)
LEMMA Reads ==
  ASSUME RunInv, Running
  PROVE  \E n \in Nat :
           /\ n < Len(delivered) /\ n + 1 \in DOMAIN delivered /\ pc = Inum(n)
           /\ Current = delivered[n + 1] /\ Current \in ReilInsn
           /\ phase = "idle" /\ Implements(delivered, source)
           /\ delivered \in Seq(ReilInsn) /\ Numbered(delivered) /\ EndMarked(delivered, TRUE)
<1>1. /\ pc.at = "inum" /\ phase = "idle"
      /\ pc.inum \in 0 .. Len(delivered) - 1 /\ Implements(delivered, source)
      /\ delivered \in Seq(ReilInsn) /\ NumberedToTheEnd
      /\ pc = Inum(pc.inum)
  BY DEF RunInv, Running, IInv, BilTypeOK
<1>2. PICK n : n = pc.inum
  OBVIOUS
<1>3. n \in Nat /\ n < Len(delivered) /\ n + 1 \in DOMAIN delivered
  BY <1>1, <1>2, LenProperties
<1>4. Numbered(delivered) /\ EndMarked(delivered, TRUE)
  BY <1>1 DEF NumberedToTheEnd, Numbered, EndMarked
<1>5. PICK x : x = delivered[n + 1]
  OBVIOUS
<1>6. {j \in DOMAIN delivered : delivered[j].inum = n} = {n + 1} /\ x \in ReilInsn
  BY <1>1, <1>3, <1>4, <1>5, AtInsn
<1>7. Current = x
  BY <1>2, <1>5, <1>6 DEF Current, Fetched
<1> QED
  BY <1>1, <1>2, <1>3, <1>4, <1>5, <1>6, <1>7


(* The emulator stays in the code, or leaves it. *)
LEMMA ExecFollows ==
  ASSUME RunInv, IInv', ExecOther \/ ExecJcc \/ ExecUnknown
  PROVE  RunInv'
<1>1. PICK n \in Nat :
        /\ n < Len(delivered) /\ n + 1 \in DOMAIN delivered /\ pc = Inum(n)
        /\ Current = delivered[n + 1] /\ Current \in ReilInsn
        /\ phase = "idle" /\ Implements(delivered, source)
        /\ delivered \in Seq(ReilInsn) /\ Numbered(delivered) /\ EndMarked(delivered, TRUE)
  BY Reads DEF ExecOther, ExecJcc, ExecUnknown
<1>2. PICK x : x = Current
  OBVIOUS
<1>3. UNCHANGED <<bilVars, source>>
  BY DEF ExecOther, ExecJcc, ExecUnknown
<1>4. phase' = phase /\ block' = block /\ delivered' = delivered /\ todo' = todo /\ source' = source
  BY <1>3 DEF bilVars
<1>5. \/ pc' = Following(x)
      \/ x.op = "jcc" /\ pc' = JumpTo(x)
      \/ pc' = Outside("unknown")
  BY <1>2 DEF ExecOther, ExecJcc, ExecUnknown
<1>6. pc'.at = "inum" => pc' = Inum(pc'.inum) /\ pc'.inum \in 0 .. Len(delivered) - 1
  <2>1. PICK len \in Nat : len = Len(delivered)
    BY <1>1, LenProperties
  <2>2. CASE pc' = Outside("unknown")
    BY <2>2 DEF Outside
  <2>3. CASE pc' = Following(x)
    <3>1. x.inum = n /\ ("end" \in x.flags <=> n + 1 = len)
      <4>1. (n + 1) - 1 = n
        OBVIOUS
      <4> QED
        BY <1>1, <1>2, <2>1, <4>1 DEF Numbered, EndMarked
    <3>2. CASE NeverGoesOn(x) \/ n + 1 = len
      BY <2>3, <3>1, <3>2 DEF Following, Outside
    <3>3. CASE ~ NeverGoesOn(x) /\ n + 1 # len
      <4>1. pc' = Inum(n + 1) /\ pc'.inum = n + 1
        BY <2>3, <3>1, <3>3 DEF Following, Inum
      <4>2. n + 1 \in 0 .. len - 1
        BY <1>1, <2>1, <3>3
      <4> QED
        BY <2>1, <4>1, <4>2
    <3> QED
      BY <3>2, <3>3
  <2>4. CASE x.op = "jcc" /\ pc' = JumpTo(x)
    <3>1. CASE x.to.at = "here"
      <4>1. pc' = Inum(x.to.inum) /\ pc'.inum = x.to.inum
        BY <2>4, <3>1 DEF JumpTo, Inum
      <4>2. x.to.inum \in Nat
        BY <1>1, <1>2 DEF ReilInsn, Locs
      <4>3. x.to.inum < len
        BY <1>1, <1>2, <2>1, <3>1 DEF RunInv, IInv, JumpsResolved
      <4> QED
        BY <2>1, <4>1, <4>2, <4>3
    <3>2. CASE x.to.at # "here"
      <4>1. pc'.at = x.to.at /\ x.to.at \in {"next", "pc", "reg", "name", "none"}
        BY <1>1, <1>2, <2>4, <3>2 DEF JumpTo, Outside, ReilInsn, Locs
      <4> QED
        BY <4>1
    <3> QED
      BY <3>1, <3>2
  <2> QED
    BY <1>5, <2>2, <2>3, <2>4
<1>7. /\ IsPlain(block) /\ \A k \in DOMAIN todo : IsPlain(todo[k])
  BY DEF RunInv
<1> QED
  BY <1>1, <1>4, <1>6, <1>7 DEF RunInv

LEMMA RunInvInit == ReilInit => RunInv
<1> SUFFICES ASSUME ReilInit PROVE RunInv
  OBVIOUS
<1>1. IInv
  BY InitHolds DEF ReilInit
<1>2. phase = "idle" /\ block = <<>> /\ todo \in Programs /\ pc.at # "inum"
  BY DEF ReilInit, BilInit, Outside
<1>3. IsPlain(block) /\ \A n \in DOMAIN todo : IsPlain(todo[n])
  BY <1>2, NothingIn, BlocksAssumption DEF IsPlain, PlacedOnce, FallsThrough, ReturnsByJump
<1> QED
  BY <1>1, <1>2, <1>3 DEF RunInv

LEMMA RunInvNext == RunInv /\ [ReilNext]_reilVars => RunInv'
<1> SUFFICES ASSUME RunInv, [ReilNext]_reilVars PROVE RunInv'
  OBVIOUS
<1>1. IInv'
  <2>1. IInv
    BY DEF RunInv
  <2>2. [BilNext]_bilVars
    <3>1. CASE Begin
      BY <3>1 DEF Begin, BilNext
    <3>2. CASE TranslateMore
      BY <3>2 DEF TranslateMore, BilNext
    <3>3. CASE Finish
      BY <3>3 DEF Finish, BilNext
    <3>4. CASE ExecOther \/ ExecJcc \/ ExecUnknown
      BY <3>4 DEF ExecOther, ExecJcc, ExecUnknown
    <3>5. CASE UNCHANGED reilVars
      BY <3>5 DEF reilVars
    <3> QED
      BY <3>1, <3>2, <3>3, <3>4, <3>5 DEF ReilNext
  <2> QED
    BY <2>1, <2>2, NextKeeps
<1>2. CASE Begin
  BY <1>1, <1>2, BeginFollows
<1>3. CASE TranslateMore
  <2>1. Lower /\ UNCHANGED <<source, pc, cond>>
    BY <1>3 DEF TranslateMore
  <2>2. CASE \E args \in 0 .. MaxArgs : UnknownInsn(args)
    BY <1>1, <2>1, <2>2, UnknownInsnFollows
  <2>3. CASE LowerOp
    BY <1>1, <2>1, <2>3, LowerOpFollows
  <2>4. CASE RefuseOp \/ RefuseStmt
    BY <1>1, <2>1, <2>4, FailingFollows DEF RefuseOp, RefuseStmt, AtStmt
  <2>5. CASE JmpStmt
    BY <1>1, <2>1, <2>5, JmpStmtFollows
  <2>6. CASE CJmpStmt
    BY <1>1, <2>1, <2>6, CJmpStmtFollows
  <2>7. CASE CJmpRefused
    BY <1>1, <2>1, <2>7, FailingFollows DEF CJmpRefused, AtStmt
  <2>8. CASE LabelStmt
    BY <1>1, <2>1, <2>8, LabelStmtFollows
  <2>9. CASE SkipStmt
    BY <1>1, <2>1, <2>9, SkipStmtFollows
  <2>10. CASE EndOfStmts
    BY <1>1, <2>1, <2>10, EndOfStmtsFollows
  <2>11. CASE Unresolved
    BY <1>1, <2>1, <2>11, FailingFollows DEF Unresolved
  <2> QED
    BY <2>1, <2>2, <2>3, <2>4, <2>5, <2>6, <2>7, <2>8, <2>9, <2>10, <2>11 DEF Lower
<1>4. CASE Finish
  BY <1>1, <1>4, FinishFollows
<1>5. CASE ExecOther \/ ExecJcc \/ ExecUnknown
  BY <1>1, <1>5, ExecFollows
<1>6. CASE UNCHANGED reilVars
  <2>1. /\ UNCHANGED <<phase, block, cur, insts, labels>>
        /\ UNCHANGED <<delivered, todo, source, pc>>
    BY <1>6 DEF reilVars, bilVars
  <2> QED
    BY <1>1, <2>1 DEF RunInv
<1> QED
  BY <1>2, <1>3, <1>4, <1>5, <1>6 DEF ReilNext


-----------------------------------------------------------------------------
(* The initial states of the emulator are those of the BIL code.           *)
LEMMA InitRuns == ReilInit => Bil!RunInit
<1> SUFFICES ASSUME ReilInit PROVE Bil!RunInit
  OBVIOUS
<1>1. source = <<>> /\ cond = "-" /\ pc = Outside("idle")
  BY DEF ReilInit
<1>2. At = Bil!Out("idle")
  BY <1>1, AtIsAtOf, AtOutside
<1> QED
  BY <1>1, <1>2 DEF Bil!RunInit

(* What is translated next is not yet there.                               *)
LEMMA BeginUnloads == ASSUME Begin PROVE Bil!Unload
<1>1. source' = <<>> /\ cond' = "-" /\ pc' = Outside("idle")
  BY DEF Begin
<1>2. At' = Bil!Out("idle")
  BY <1>1, AtIsAtOf, AtOutside
<1> QED
  BY <1>1, <1>2 DEF Bil!Unload

(* Lowering is not seen.                                                   *)
LEMMA LoweringHidden == ASSUME TranslateMore PROVE UNCHANGED <<source, At, cond>>
<1>1. UNCHANGED <<source, pc, cond>> /\ Lower
  BY DEF TranslateMore
<1>2. delivered' = delivered
  <2>1. CASE \E args \in 0 .. MaxArgs : UnknownInsn(args)
    BY <2>1 DEF UnknownInsn
  <2>2. CASE LowerOp \/ RefuseOp \/ RefuseStmt \/ JmpStmt \/ CJmpStmt \/ CJmpRefused
    BY <2>2 DEF LowerOp, RefuseOp, RefuseStmt, JmpStmt, CJmpStmt, CJmpRefused
  <2>3. CASE LabelStmt \/ SkipStmt \/ EndOfStmts \/ Unresolved
    BY <2>3 DEF LabelStmt, SkipStmt, EndOfStmts, Unresolved
  <2> QED
    BY <1>1, <2>1, <2>2, <2>3 DEF Lower
<1>3. At' = At
  BY <1>1, <1>2, AtIsAtOf
<1> QED
  BY <1>1, <1>3

(* What is delivered stands at the first statement that does something.    *)
LEMMA FinishLoads == ASSUME RunInv, RunInv', Finish PROVE Bil!Load
<1>1. PICK b, is : b = block /\ is = delivered'
  OBVIOUS
<1>2. /\ phase = "resolve" /\ source' = b /\ pc' = Inum(0) /\ cond' = "-"
  BY <1>1 DEF Finish, Deliver
<1>3. b \in Seq(Stmt)
  BY <1>1 DEF RunInv, IInv, BilTypeOK
<1>4. At.at # "stmt"
  <2>1. At = Bil!Out("idle")
    BY <1>2, AtIsAtOf, AtOutside DEF RunInv
  <2> QED
    BY <2>1 DEF Bil!Out
<1>5. /\ Implements(is, b) /\ is \in Seq(ReilInsn) /\ 0 < Len(is)
      /\ Numbered(is)
  <2>1. pc'.at = "inum" /\ pc'.inum = 0
    BY <1>2 DEF Inum
  <2>2. /\ Implements(delivered', source') /\ 0 \in 0 .. Len(delivered') - 1
        /\ delivered' \in Seq(ReilInsn) /\ NumberedToTheEnd'
    BY <2>1 DEF RunInv, IInv, BilTypeOK
  <2>3. 0 < Len(is)
    BY <1>1, <2>2, LenProperties
  <2> QED
    BY <1>1, <1>2, <2>2, <2>3 DEF NumberedToTheEnd, Numbered
<1>6. PICK x : x = is[1]
  OBVIOUS
<1>7. At' = AtOf(is, Inum(0))
  BY <1>1, <1>2, AtIsAtOf
<1>8. 0 + 1 = 1 /\ 0 \in Nat /\ 1 \in DOMAIN is
  BY <1>5, LenProperties
<1>9. /\ x.op = "none" => At' = Bil!Out("next")
      /\ x.op = "unk" => At' = Bil!Out("unknown")
      /\ x.op \notin {"none", "unk"} => At' = Bil!AtStmt(x.stmt)
  BY <1>5, <1>6, <1>7, <1>8, AtInsn
<1>10. At' = IF Bil!Known(b) THEN Bil!FirstFrom(b, 1) ELSE Bil!Out("unknown")
  <2>1. CASE UnknownCode(is, b)
    BY <1>6, <1>8, <1>9, <2>1 DEF UnknownCode
  <2>2. CASE EmptyCode(is, b)
    BY <1>6, <1>9, <2>2 DEF EmptyCode
  <2>3. CASE RealCode(is, b)
    BY <1>6, <1>8, <1>9, <2>3 DEF RealCode, GoesOn
  <2> QED
    BY <1>5, <2>1, <2>2, <2>3 DEF Implements
<1> QED
  BY <1>2, <1>3, <1>4, <1>10 DEF Bil!Load

(* An instruction that is no jump stays at its statement, or is the last   *)
(* of a MOVE.                                                              *)
LEMMA OtherMoves ==
  ASSUME RunInv, ExecOther
  PROVE  Bil!Move \/ UNCHANGED <<source, At, cond>>
<1>1. PICK n \in Nat :
        /\ n < Len(delivered) /\ n + 1 \in DOMAIN delivered /\ pc = Inum(n)
        /\ Current = delivered[n + 1] /\ Current \in ReilInsn
        /\ phase = "idle" /\ Implements(delivered, source)
        /\ delivered \in Seq(ReilInsn) /\ Numbered(delivered) /\ EndMarked(delivered, TRUE)
  BY Reads DEF ExecOther
<1>2. PICK x, is, b : x = Current /\ is = delivered /\ b = source
  OBVIOUS
<1>3. /\ x.op \in {"op", "none"} /\ pc' = Following(x)
      /\ source' = source /\ cond' = cond /\ delivered' = delivered
  BY <1>2 DEF ExecOther, bilVars
<1>4. At = AtOf(is, Inum(n)) /\ At' = AtOf(is, Following(x))
  BY <1>1, <1>2, <1>3, AtIsAtOf
<1>5. /\ x.op = "none" => At = Bil!Out("next")
      /\ x.op \notin {"none", "unk"} => At = Bil!AtStmt(x.stmt)
  BY <1>1, <1>2, <1>4, AtInsn
<1>6. CASE UnknownCode(is, b)
  BY <1>1, <1>2, <1>3, <1>6 DEF UnknownCode
<1>7. CASE EmptyCode(is, b)
  <2>1. n + 1 = 1 /\ Len(is) = 1 /\ x.op = "none" /\ ~ NeverGoesOn(x)
    BY <1>1, <1>2, <1>7 DEF EmptyCode
  <2>2. "end" \in x.flags
    BY <1>1, <1>2, <2>1 DEF EndMarked
  <2>3. Following(x) = Outside("next")
    BY <2>1, <2>2 DEF Following
  <2>4. At' = At
    BY <1>4, <1>5, <2>1, <2>3, AtOutside
  <2> QED
    BY <1>3, <2>4
<1>8. CASE RealCode(is, b)
  <2>1. GoesOn(is, b, Bil!Out("next"), n + 1) /\ x = is[n + 1]
    BY <1>1, <1>2, <1>8 DEF RealCode
  <2>2. x.op = "op" /\ At = Bil!AtStmt(x.stmt)
    BY <1>3, <1>5, <2>1 DEF GoesOn
  <2>3. At' = Spot(is, Bil!Out("next"), n + 1)
    BY <1>1, <1>2, <1>4, <1>8, <2>1, <2>2, FollowingLeads DEF GoesOn
  <2>4. CASE At' = Bil!AtStmt(x.stmt)
    BY <1>3, <2>2, <2>4
  <2>5. CASE b[x.stmt].kind = "move" /\ At' = Bil!FirstFrom(b, x.stmt + 1)
    <3>1. At.at = "stmt" /\ At.stmt = x.stmt
      BY <2>2 DEF Bil!AtStmt
    <3> QED
      BY <1>2, <1>3, <2>5, <3>1 DEF Bil!Move
  <2> QED
    BY <2>1, <2>2, <2>3, <2>4, <2>5 DEF GoesOn
<1> QED
  BY <1>1, <1>2, <1>6, <1>7, <1>8 DEF Implements

(* A jump that is taken goes to the target it was made for; one that is    *)
(* not falls through to the other.                                         *)
LEMMA JccJumps ==
  ASSUME RunInv, ExecJcc
  PROVE  Bil!Jmp \/ Bil!CJmp
<1>1. PICK n \in Nat :
        /\ n < Len(delivered) /\ n + 1 \in DOMAIN delivered /\ pc = Inum(n)
        /\ Current = delivered[n + 1] /\ Current \in ReilInsn
        /\ phase = "idle" /\ Implements(delivered, source)
        /\ delivered \in Seq(ReilInsn) /\ Numbered(delivered) /\ EndMarked(delivered, TRUE)
  BY Reads DEF ExecJcc
<1>2. PICK x, is, b : x = Current /\ is = delivered /\ b = source
  OBVIOUS
<1>3. PICK c \in {"true", "false"} :
        /\ cond' = IF x.when = "always" THEN cond ELSE c
        /\ pc' = IF x.when \in {"always", c} THEN JumpTo(x) ELSE Following(x)
  BY <1>2 DEF ExecJcc
<1>4. x.op = "jcc" /\ source' = source /\ delivered' = delivered
  BY <1>2 DEF ExecJcc, bilVars
<1>5. RealCode(is, b)
  <2>1. ~ UnknownCode(is, b)
    BY <1>1, <1>2, <1>4 DEF UnknownCode
  <2>2. ~ EmptyCode(is, b)
    <3>1. ASSUME EmptyCode(is, b) PROVE FALSE
      <4>1. n + 1 = 1 /\ x.op = "none"
        BY <1>1, <1>2, <3>1 DEF EmptyCode
      <4> QED
        BY <1>4, <4>1
    <3> QED
      BY <3>1
  <2> QED
    BY <1>1, <1>2, <2>1, <2>2 DEF Implements
<1>6. At = Bil!AtStmt(x.stmt)
  BY <1>1, <1>2, <1>4, AtInsn, AtIsAtOf
<1>7. At.at = "stmt" /\ At.stmt = x.stmt
  BY <1>6 DEF Bil!AtStmt
<1>8. PICK next : next = Spot(is, Bil!Out("next"), n + 1)
  OBVIOUS
<1>9. \/ b[x.stmt].kind = "jmp" /\ x.when = "always"
      \/ b[x.stmt].kind = "cjmp" /\ x.when = "true" /\ next = Bil!Goto(b, b[x.stmt].els)
      \/ b[x.stmt].kind = "cjmp" /\ x.when = "false" /\ next = Bil!Goto(b, b[x.stmt].to)
  <2>1. GoesOn(is, b, Bil!Out("next"), n + 1) /\ x = is[n + 1]
    BY <1>1, <1>2, <1>5 DEF RealCode
  <2> QED
    BY <1>4, <1>8, <2>1 DEF GoesOn
<1>10. AtOf(is, JumpTo(x)) = Bil!Goto(b, TargetFor(b, x))
  BY <1>1, <1>2, <1>4, <1>5, JumpLeads
<1>11. b[x.stmt].kind = "cjmp" => AtOf(is, Following(x)) = next
  <2>1. GoesOn(is, b, Bil!Out("next"), n + 1) /\ x = is[n + 1]
    BY <1>1, <1>2, <1>5 DEF RealCode
  <2> QED
    BY <1>1, <1>2, <1>5, <1>8, <2>1, FollowingLeads DEF GoesOn
<1>12. At' = IF x.when \in {"always", c} THEN Bil!Goto(b, TargetFor(b, x)) ELSE next
  BY <1>2, <1>3, <1>4, <1>9, <1>10, <1>11, AtIsAtOf
<1>13. CASE b[x.stmt].kind = "jmp" /\ x.when = "always"
  <2>1. At' = Bil!Goto(b, b[x.stmt].to)
    BY <1>12, <1>13 DEF TargetFor
  <2> QED
    BY <1>2, <1>3, <1>4, <1>7, <1>13, <2>1 DEF Bil!Jmp
<1>14. CASE b[x.stmt].kind = "cjmp" /\ x.when = "true" /\ next = Bil!Goto(b, b[x.stmt].els)
  <2>1. At' = IF c = "true" THEN Bil!Goto(b, b[x.stmt].to) ELSE Bil!Goto(b, b[x.stmt].els)
    BY <1>12, <1>14 DEF TargetFor
  <2> QED
    BY <1>2, <1>3, <1>4, <1>7, <1>14, <2>1 DEF Bil!CJmp
<1>15. CASE b[x.stmt].kind = "cjmp" /\ x.when = "false" /\ next = Bil!Goto(b, b[x.stmt].to)
  <2>1. At' = IF c = "true" THEN Bil!Goto(b, b[x.stmt].to) ELSE Bil!Goto(b, b[x.stmt].els)
    BY <1>12, <1>15 DEF TargetFor
  <2> QED
    BY <1>2, <1>3, <1>4, <1>7, <1>15, <2>1 DEF Bil!CJmp
<1> QED
  BY <1>9, <1>13, <1>14, <1>15

LEMMA UnknownStays == ASSUME RunInv, ExecUnknown PROVE UNCHANGED <<source, At, cond>>
<1>1. PICK n \in Nat :
        /\ n < Len(delivered) /\ n + 1 \in DOMAIN delivered /\ pc = Inum(n)
        /\ Current = delivered[n + 1] /\ Current \in ReilInsn
        /\ phase = "idle" /\ Implements(delivered, source)
        /\ delivered \in Seq(ReilInsn) /\ Numbered(delivered) /\ EndMarked(delivered, TRUE)
  BY Reads DEF ExecUnknown
<1>2. Current.op = "unk" /\ pc' = Outside("unknown") /\ source' = source /\ cond' = cond
  BY DEF ExecUnknown
<1>3. At = Bil!Out("unknown")
  BY <1>1, <1>2, AtInsn, AtIsAtOf
<1>4. At' = Bil!Out("unknown")
  BY <1>2, AtOutside, AtIsAtOf
<1> QED
  BY <1>2, <1>3, <1>4

(* Every step of the translator and of the emulator is a step of the BIL   *)
(* code, or is not seen there.                                             *)
LEMMA StepsRun ==
  RunInv /\ RunInv' /\ [ReilNext]_reilVars => [Bil!RunNext]_<<source, At, cond>>
<1> SUFFICES ASSUME RunInv, RunInv', [ReilNext]_reilVars
             PROVE  [Bil!RunNext]_<<source, At, cond>>
  OBVIOUS
<1>1. CASE Begin
  BY <1>1, BeginUnloads DEF Bil!RunNext
<1>2. CASE TranslateMore
  BY <1>2, LoweringHidden
<1>3. CASE Finish
  BY <1>3, FinishLoads DEF Bil!RunNext
<1>4. CASE ExecOther
  BY <1>4, OtherMoves DEF Bil!RunNext
<1>5. CASE ExecJcc
  BY <1>5, JccJumps DEF Bil!RunNext
<1>6. CASE ExecUnknown
  BY <1>6, UnknownStays
<1>7. CASE UNCHANGED reilVars
  <2>1. source' = source /\ cond' = cond /\ pc' = pc /\ delivered' = delivered
    BY <1>7 DEF reilVars, bilVars
  <2>2. At' = At
    BY <2>1, AtIsAtOf
  <2> QED
    BY <2>1, <2>2
<1> QED
  BY <1>1, <1>2, <1>3, <1>4, <1>5, <1>6, <1>7 DEF ReilNext

(* Running what process_bil delivers is running the BIL code: the emulator *)
(* goes from statement to statement as the BIL code does, whatever the     *)
(* operators are lowered to, whichever way the conditions come out and     *)
(* whatever was translated, or failed to be, before.                       *)
THEOREM TranslationRunsAsBil == ReilSpec => RunsAsBil
<1>1. ReilInit => Bil!RunInit
  BY InitRuns
<1>2. ReilInit => RunInv
  BY RunInvInit
<1>3. RunInv /\ [ReilNext]_reilVars => RunInv'
  BY RunInvNext
<1>4. RunInv /\ RunInv' /\ [ReilNext]_reilVars => [Bil!RunNext]_(Bil!runVars)
  BY StepsRun DEF Bil!runVars
<1> QED
  BY <1>1, <1>2, <1>3, <1>4, PTL DEF ReilSpec, RunsAsBil, Bil!RunSpec
=============================================================================
