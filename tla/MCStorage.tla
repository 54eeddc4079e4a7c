----------------------------- MODULE MCStorage ------------------------------
(***************************************************************************)
(* Two machine instructions: the first loops or skips inside itself, the   *)
(* second is short, with a jump back into the first.                       *)
(***************************************************************************)
EXTENDS CodeStorage, TLC

Plain == [jump |-> NoLoc, frozen |-> FALSE]
JumpTo(a, i) == [jump |-> <<a, i>>, frozen |-> FALSE]
CallTo(a) == [jump |-> <<a, 0>>, frozen |-> TRUE]

MCAddrs == {0, 1}

MCTranslations ==
  (0 :> {<<JumpTo(0, 2), Plain, Plain>>, <<Plain, Plain, JumpTo(0, 1)>>})
  @@ (1 :> {<<Plain, JumpTo(0, 0)>>, <<JumpTo(1, 2), Plain, CallTo(0)>>})
=============================================================================
