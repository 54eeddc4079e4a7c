---------------------------- MODULE CodeStorage -----------------------------
(***************************************************************************)
(* CodeStorageMem of pyopenreil/REIL.py: the IR instructions of a program, *)
(* kept by IR address <<addr, inum>>.  A machine instruction is the        *)
(* instructions 0, 1, ... of its address up to one flagged IOPT_ASM_END.   *)
(*                                                                         *)
(* Passes that rewrite the code delete single IR instructions and then     *)
(* call fix_inums_and_flags, which numbers the instructions of each        *)
(* machine instruction from 0 again, puts the end flag back where it was   *)
(* deleted, and moves the targets of jumps.                                *)
(*                                                                         *)
(* Of an instruction the storage looks at its end flag and, for an I_JCC   *)
(* with an A_LOC target, at the target and the IOPT_CALL / IOPT_RET flags. *)
(* The field id stands for the rest, which the storage carries along: it   *)
(* is the IR address the instruction was translated at.                    *)
(***************************************************************************)
EXTENDS Integers, Sequences, FiniteSets

CONSTANTS
  Addrs,         \* addresses of machine instructions
  Translations   \* Translations[a]: what the one at a may translate to, sequences
                 \* of [jump, frozen]: the target or NoLoc; a call or a return

NoLoc == << >>

ASSUME TranslationsAssumption ==
  /\ Addrs \subseteq Nat
  /\ \A a \in Addrs : \A t \in Translations[a] :
       t \in Seq([jump : {NoLoc} \cup (Nat \X Nat), frozen : BOOLEAN]) /\ t # << >>

VARIABLES
  code,    \* what each address translates to: the same every time
  items,   \* self.items: IR address -> instruction
  fixed    \* history: fix_inums_and_flags was the last to change the storage

storageVars == <<code, items, fixed>>

Keys == DOMAIN items
InumsOf(a) == {p[2] : p \in {q \in Keys : q[1] = a}}

Largest(S) == CHOOSE m \in S : \A n \in S : n <= m

(* get_insn for a whole machine instruction: the numbers it walks, up to   *)
(* the first end flag, or {} for the StorageError of a missing number.     *)
EndsOf(a) == {i \in InumsOf(a) : items[<<a, i>>].end}
Walk(a) ==
  LET ends == {i \in EndsOf(a) : \A j \in 0 .. i : j \in InumsOf(a)}
  IN  IF ends = {} THEN {}
      ELSE 0 .. (CHOOSE i \in ends : \A j \in ends : i <= j)

Insn(a, t, k) ==
  [id |-> <<a, k - 1>>, end |-> k = Len(t), jump |-> t[k].jump, frozen |-> t[k].frozen]

StorageInit ==
  /\ code \in {c \in [Addrs -> UNION {Translations[a] : a \in Addrs}] :
                 \A a \in Addrs : c[a] \in Translations[a]}
  /\ items = << >>
  /\ fixed = FALSE

(* put_insn of the instructions an address translates to:                 *)
(* CodeStorageTranslator.get_insn does so when it does not find one of     *)
(* them, over whatever is left of them.                                    *)
PutTranslation(a) ==
  LET t == code[a]
      own == {<<a, k - 1>> : k \in DOMAIN t}
  IN  /\ ~ own \subseteq Keys
      /\ items' = [p \in own \cup Keys |->
                     IF p \in own THEN Insn(a, t, p[2] + 1) ELSE items[p]]
      /\ fixed' = FALSE
      /\ UNCHANGED code

(* del_insn of one IR instruction. *)
DelOne(p) ==
  /\ p \in Keys
  /\ items' = [q \in Keys \ {p} |-> items[q]]
  /\ fixed' = FALSE
  /\ UNCHANGED code

(* del_insn of a machine instruction: the instructions get_insn returns;   *)
(* its StorageError leaves all of them there.                              *)
DelAsm(a) ==
  /\ Walk(a) # {}
  /\ items' = [q \in Keys \ {<<a, i>> : i \in Walk(a)} |-> items[q]]
  /\ fixed' = FALSE
  /\ UNCHANGED code

ClearStorage ==
  /\ items' = << >>
  /\ fixed' = FALSE
  /\ UNCHANGED code

(* Fault: the numbers start one too low. *)
NewInumLow(p) == Cardinality({i \in InumsOf(p[1]) : i < p[2]}) - 1

(* Fault: an instruction moves into the gap before it, no further. *)
NewInumStep(p) ==
  IF p[2] > 0 /\ p[2] - 1 \notin InumsOf(p[1]) THEN p[2] - 1 ELSE p[2]

(* Fault: the storage is walked from its end. *)
NewInumBack(p) == Cardinality({i \in InumsOf(p[1]) : i > p[2]})

(* fix_inums_and_flags.                                                    *)
NewInum(p) == Cardinality({i \in InumsOf(p[1]) : i < p[2]})
Relocated(p) == <<p[1], NewInum(p)>>

(* The keys of ir_addr_map. *)
Moved == {p \in Keys : NewInum(p) # p[2]}

(* Fault: the end flag is not given back. *)
GetsEndNever(p) == FALSE

(* The end flag is set when the walk over the storage meets the next       *)
(* machine instruction, so the last instruction of all never gets it.      *)
GetsEnd(p) ==
  /\ p[2] = Largest(InumsOf(p[1]))
  /\ \E q \in Keys : q[1] > p[1]

(* Fault: jumps are left as they are. *)
FixedJumpNot(insn) == insn.jump

FixedJump(insn) ==
  IF insn.jump \in Moved /\ ~insn.frozen THEN Relocated(insn.jump) ELSE insn.jump

FixedItems ==
  [n \in {Relocated(p) : p \in Keys} |->
     LET p == CHOOSE q \in Keys : Relocated(q) = n
     IN  [items[p] EXCEPT !.end = @ \/ GetsEnd(p), !.jump = FixedJump(items[p])]]

Fix ==
  /\ items' = FixedItems
  /\ fixed' = TRUE
  /\ UNCHANGED code

StorageNext ==
  \/ \E a \in Addrs : PutTranslation(a)
  \/ \E p \in Keys : DelOne(p)
  \/ \E a \in Addrs : DelAsm(a)
  \/ ClearStorage
  \/ Fix

StorageSpec == StorageInit /\ [][StorageNext]_storageVars

-----------------------------------------------------------------------------
StorageTypeOK ==
  /\ fixed \in BOOLEAN
  /\ Keys \subseteq Addrs \X Nat
  /\ \A p \in Keys : items[p].id[1] = p[1] /\ items[p].end \in BOOLEAN

(* After fix_inums_and_flags a machine instruction is found whole: get_insn *)
(* returns each instruction of its address.  As TestCodeStorageMem has it: *)
(* delete (1, 0), fix, and get_insn(1) has one instruction less.           *)
FoundWhole(a) == Walk(a) = InumsOf(a)

(* The code gives this only for a machine instruction that another one     *)
(* follows.                                                                *)
FollowedFoundWhole ==
  fixed => \A a \in Addrs : (\E q \in Keys : q[1] > a) => FoundWhole(a)

(* Fixing twice is fixing once: the second pass of DFGraph.store does not  *)
(* disturb what the first one left.                                        *)
FixIdempotent == fixed => FixedItems = items

(* The instructions of a machine instruction stay in the order they were   *)
(* translated in, however many of them were deleted and renumbered.        *)
OrderKept ==
  \A p, q \in Keys :
    p[1] = q[1] /\ p[2] < q[2] => items[p].id[2] < items[q].id[2]

Holds(s, id) == \E p \in DOMAIN s : s[p].id = id
PlaceOf(s, id) == CHOOSE p \in DOMAIN s : s[p].id = id

(* The jumps a fix is to relocate, by id, with the target they had. *)
Jumps == {p \in Keys : items[p].jump # NoLoc /\ ~items[p].frozen}

(* Fixing moves the target of a jump with the instruction it pointed to.   *)
JumpsFollow ==
  [][Fix => \A p \in Jumps :
       items[p].jump \in Keys =>
         PlaceOf(items', items[items[p].jump].id)
           = items'[PlaceOf(items', items[p].id)].jump]_storageVars
=============================================================================
