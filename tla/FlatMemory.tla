----------------------------- MODULE FlatMemory -----------------------------
(***************************************************************************)
(* What the emulator memory (class Mem of pyopenreil/VM.py) promises to    *)
(* the instructions that run on it: one flat array of bytes.  A load that  *)
(* succeeds returns the bytes the array holds and changes nothing, a store *)
(* that succeeds replaces exactly the bytes of its range, and an access    *)
(* that raises an exception has no value and writes at most the first      *)
(* bytes of its own range.                                                 *)
(*                                                                         *)
(* Where the bytes live (the dictionary of bytes, or the image behind the  *)
(* external memory reader) is the business of module Mem, which implements *)
(* this one.                                                               *)
(***************************************************************************)
EXTENDS Integers

CONSTANTS
  Addr,      \* byte addresses
  Byte,      \* values of one byte
  Absent,    \* content of an address no one has given a value
  Initial    \* content of the array when the emulator starts

VARIABLES
  mem,       \* mem[a] is the byte at a, or Absent
  last       \* the operation just performed and its outcome

vars == <<mem, last>>

Bytes(r) == r.addr .. (r.addr + r.size - 1)

Init ==
  /\ mem = Initial
  /\ last = [op |-> "none"]

Load ==
  /\ last'.op = "load"
  /\ UNCHANGED mem
  /\ last'.res = "ok" => last'.val = [a \in Bytes(last'.at) |-> mem[a]]

Store ==
  /\ last'.op = "store"
  /\ \A a \in Addr \ Bytes(last'.at) : mem'[a] = mem[a]
  /\ \A a \in Bytes(last'.at) :
       \/ mem'[a] = last'.val[a]
       \/ last'.res # "ok" /\ mem'[a] = mem[a]
  /\ \A a, b \in Bytes(last'.at) :
       a < b /\ mem'[b] # mem[b] => mem'[a] = last'.val[a]

Alloc ==
  /\ last'.op = "alloc"
  /\ \A a \in Addr :
       mem'[a] = IF a \in Bytes(last'.at) /\ last'.res = "ok" THEN last'.val[a] ELSE mem[a]

Clear ==
  /\ last'.op = "clear"
  /\ mem' = Initial

(* The reader is attached or detached: the array is what it was. *)
Attach ==
  /\ last'.op = "attach"
  /\ UNCHANGED mem

Next == Load \/ Store \/ Alloc \/ Clear \/ Attach

Spec == Init /\ [][Next]_vars
=============================================================================
