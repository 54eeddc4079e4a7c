------------------------------- MODULE MCMem --------------------------------
(***************************************************************************)
(* Instances of Mem for TLC: bytes 0 and 1, sizes 1 and 2 (for U8 and U16, *)
(* the shortest that can overlap), an image of two bytes, one address      *)
(* below LOWEST_USER_ADDR.                                                 *)
(***************************************************************************)
EXTENDS Mem

R(a, n) == [addr |-> a, size |-> n]

MCByte == {0, 1}

(* The image is bytes 2 and 3. *)
MCImage == [a \in 0 .. MaxAddr |-> IF a \in {2, 3} THEN a % 2 ELSE Absent]

WordAccesses == {R(0, 1), R(2, 2), R(4, 1)}
WordAllocs == {R(4, 1), R(0, 1)}

(* A range across the end of the image, and one that starts past it. *)
TailAccesses == {R(0, 1), R(3, 2), R(4, 2)}
=============================================================================
