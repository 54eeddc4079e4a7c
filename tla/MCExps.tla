-------------------------------- MODULE MCExps --------------------------------
(* The expressions of code and their parts, with their depths.             *)
EXTENDS Integers

MaxDepth == 8

IsAtom(e) == e.k \in {"reg", "const"}
PartsOf(e) == IF IsAtom(e) THEN {} ELSE IF e.k = "bin" THEN {e.a, e.b} ELSE {e.a}

DepthsIn(codes) ==
  LET stmts == UNION {UNION {{c[i][j] : j \in DOMAIN c[i]} : i \in DOMAIN c} : c \in codes}
      Within[d \in 0 .. MaxDepth] ==
        IF d = 0 THEN UNION {IF s.kind = "branch" THEN {s.exp} ELSE {s.exp, s.to} : s \in stmts}
        ELSE UNION {PartsOf(e) : e \in Within[d - 1]}
      DepthOf[e \in UNION {Within[d] : d \in 0 .. MaxDepth}] ==
        IF IsAtom(e) THEN 0
        ELSE LET a == DepthOf[e.a]
                 b == IF e.k = "bin" THEN DepthOf[e.b] ELSE 0
             IN 1 + IF a < b THEN b ELSE a
  IN DepthOf
=============================================================================
