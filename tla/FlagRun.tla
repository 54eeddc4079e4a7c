-------------------------------- MODULE FlagRun --------------------------------
(***************************************************************************)
(* x86 instructions in a row, and the flags after each: the registers that *)
(* the translated code computes at once, and the thunk VEX would keep.     *)
(* EFLAGS is made anew from the registers wherever it is used, so that     *)
(* what an instruction that only reads it leaves there is not looked at.   *)
(***************************************************************************)
EXTENDS X86Flags

CONSTANT Insns  (* the instructions                                        *)

VARIABLES
  flags,    (* the registers of one bit                                    *)
  eflags,   (* the register EFLAGS                                         *)
  thunk     (* the thunk of VEX                                            *)

flagVars == <<flags, eflags, thunk>>

RECURSIVE RunFrom(_, _, _)
RunFrom(moves, env, n) ==
  IF n > Len(moves) THEN env
  ELSE RunFrom(moves, [env EXCEPT ![moves[n].to.name] = Meaning(moves[n].exp, env, <<>>)], n + 1)

(* What code leaves in the registers it is given and in those it makes.    *)
Run(moves, f, w) ==
  LET start == [n \in FlagNames \cup {"EFLAGS", "res", "PF8", "product", "lo", "hi"} |->
                  IF n \in FlagNames THEN f[n] ELSE IF n = "EFLAGS" THEN w ELSE 0]
  IN RunFrom(Expanded(moves), start, 1)

(* What an instruction that uses EFLAGS gets, and leaves in it.            *)
Read(f, w) == Run(<<Assign(Res, EFlags)>>, f, w).res

FlagInit ==
  /\ flags \in [FlagNames -> 0 .. 1]
  /\ eflags = Mask("U32")
  /\ thunk = [op |-> "COPY", typ |-> "U32", dep1 |-> FlagsWord(flags), dep2 |-> 0, ndep |-> 0]

(* The code of an instruction computes what VEX would put into the thunk   *)
(* from the registers, and jumps over the flags where a shift's count is   *)
(* 0.                                                                      *)
Insn ==
  \E i \in Insns :
    LET put == Put(i, flags.CF, Read(flags, eflags))
        env == Run(ModifyFlags(put), flags, eflags)
        skip == i.op \in Shifts /\ i.y = 0
    IN /\ flags' = IF skip THEN flags ELSE [f \in FlagNames |-> env[f]]
       /\ eflags' = IF skip THEN eflags ELSE env.EFLAGS
       /\ thunk' = After(i, thunk)

FlagSpec == FlagInit /\ [][Insn]_flagVars

-----------------------------------------------------------------------------
(* However instructions follow each other, each flag that the code has     *)
(* computed at once is the flag VEX computes later, from the last thunk.   *)
FlagsAsVex == \A f \in FlagNames : flags[f] = Flags(thunk)[f]

Conditions == {"O", "NO", "B", "NB", "Z", "NZ", "BE", "NBE", "S", "NS", "P", "NP", "L", "NL", "LE", "NLE"}

(* Every condition holds when VEX has it hold.                             *)
ConditionsAsVex ==
  \A cond \in Conditions : Meaning(Condition(cond), flags, <<>>) = Holds(cond, Flags(thunk))

(* What EFLAGS may hold when it is made anew: what it holds now, nothing,  *)
(* all bits, any single one and all but any one.                           *)
Held ==
  {eflags, 0, Mask("U32")}
  \cup UNION {{2^i, Mask("U32") - 2^i} : i \in 0 .. Bits["U32"] - 1}

(* EFLAGS, where it is used, shows the flags VEX has and keeps its other   *)
(* bits, whichever of these words it held.                                 *)
EflagsAsVex ==
  \A w \in Held :
    LET other == w - FlagsWord(FlagsIn(w))
    IN Read(flags, w) = other + FlagsWord(Flags(thunk))
=============================================================================
