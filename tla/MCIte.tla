--------------------------------- MODULE MCIte ---------------------------------
(* If-then-else of bytes and of words, on a bit.                           *)
EXTENDS Ite, MCExps

AllCodes == {<<TranslateITE(Cond("U1"), IfTrue(t), IfFalse(t))>> : t \in {"U8", "U16"}}

MCInputs(ts) ==
  LET given == {<<"R", "cond">>, <<"R", "iftrue">>, <<"R", "iffalse">>}
      fs == {f \in [given -> 0 .. Mask("U16")] : \A m \in given : f[m] < Mod(ts[m])}
  IN {[m \in DOMAIN ts |-> IF m \in given THEN f[m] ELSE 0] : f \in fs}

Depths == DepthsIn(AllCodes)

MCCodes == AllCodes
MCDepth == Depths
=============================================================================
