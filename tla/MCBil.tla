-------------------------------- MODULE MCBil --------------------------------
(* BIL blocks of up to four statements, branching ones of up to six, and   *)
(* some that the translator does not accept.                               *)
EXTENDS ReilRun, FiniteSets

MCNames == {"L1", "L2"}
MCOps == {"str", "neq", "gt", "float"}
MCRefused == {"float"}
MCEmits == [op \in MCOps |-> CASE op = "neq" -> 2 [] op = "gt" -> 4 [] OTHER -> 1]

Statement(k, ops, to, els) == [kind |-> k, ops |-> ops, to |-> to, els |-> els]
MoveStmt(ops) == Statement("move", ops, "pc", "pc")
LabelOf(l) == Statement("label", <<>>, l, "pc")
SpecialStmt(w) == Statement("special", <<>>, w, "pc")
Note == Statement("note", <<>>, "pc", "pc")

Alphabet ==
  {MoveStmt(<<"str">>), MoveStmt(<<"gt", "neq">>), Note, SpecialStmt("call"), SpecialStmt("ret")}
  \cup {LabelOf(l) : l \in MCNames}
  \cup {Statement("jmp", <<>>, t, "pc") : t \in MCNames \cup {"pc", "reg"}}
  \cup {Statement("cjmp", ops, "L1", "L2") : ops \in {<<>>, <<"neq">>}}
  \cup {Statement("cjmp", <<>>, t, f) : t \in {"pc", "L2"}, f \in {"L1"}}
  \cup {Statement("cjmp", <<"neq">>, "L1", "pc")}

Uses(b, l) == \E i \in DOMAIN b : (b[i].kind \in {"jmp", "cjmp"} /\ b[i].to = l) \/ (b[i].kind = "cjmp" /\ b[i].els = l)
Places(b, l) == {i \in DOMAIN b : b[i].kind = "label" /\ b[i].to = l}

(* What irtoir makes: a label is placed once, and one that is used is      *)
(* placed; a conditional jump is followed by one of its labels; a special  *)
(* statement follows the jump it is about.                                 *)
WellFormed(b) ==
  /\ \A l \in MCNames : Cardinality(Places(b, l)) <= 1 /\ (Uses(b, l) => Places(b, l) # {})
  /\ \A i \in DOMAIN b : b[i].kind = "cjmp" =>
       i < Len(b) /\ b[i + 1].kind = "label" /\ b[i + 1].to \in {b[i].to, b[i].els}
  /\ \A i \in DOMAIN b : b[i].kind = "special" => i > 1 /\ b[i - 1].kind = "jmp"

(* The statements that decide where control goes, for longer blocks.       *)
Branching ==
  {MoveStmt(<<"gt", "neq">>), LabelOf("L1"), LabelOf("L2"), Statement("jmp", <<>>, "L2", "pc"),
   Statement("cjmp", <<>>, "L1", "L2"), Statement("cjmp", <<"neq">>, "L2", "L1"),
   Statement("cjmp", <<>>, "pc", "L1")}

Good == {b \in UNION {[1 .. n -> Alphabet] : n \in 0 .. 4} \cup UNION {[1 .. n -> Branching] : n \in 5 .. 6}
           : WellFormed(b)}

(* What the translator refuses, after it has lowered some of it, and what  *)
(* VEX did not know.                                                       *)
Refusals ==
  {<<MoveStmt(<<"neq", "float">>)>>,
   <<MoveStmt(<<"str">>), LabelOf("L2"), Statement("jmp", <<>>, "L1", "pc"), Note>>,
   <<MoveStmt(<<"str">>), Statement("cjmp", <<>>, "L1", "L2")>>,
   <<MoveStmt(<<"str">>), Statement("call", <<>>, "pc", "pc")>>,
   <<Statement("jmp", <<>>, "L2", "pc"), LabelOf("L2"), Statement("return", <<>>, "pc", "pc")>>,
   <<SpecialStmt("unknown")>>}

(* Every block on its own, and what may follow a block of each kind.       *)
Again == {<<MoveStmt(<<"gt", "neq">>), Statement("cjmp", <<>>, "L1", "L2"), LabelOf("L1"),
            MoveStmt(<<"str">>), LabelOf("L2")>>,
          <<LabelOf("L1"), Statement("jmp", <<>>, "L1", "pc")>>, <<Note>>}
MCPrograms == {<<b>> : b \in Good} \cup {<<a, b>> : a \in Refusals \cup Again, b \in Again}
=============================================================================
