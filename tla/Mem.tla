-------------------------------- MODULE Mem ---------------------------------
(***************************************************************************)
(* The memory of the REIL emulator: class Mem of pyopenreil/VM.py.         *)
(*                                                                         *)
(* The bytes the emulated program touched are kept in a dictionary, data.  *)
(* A byte that is not there may come from an external memory reader, which *)
(* Cpu.set_storage attaches (the reader of the code storage, so that the   *)
(* program sees the sections of its own image) or detaches (None).  In     *)
(* strict mode a store may only touch bytes that are already known, in the *)
(* dictionary or to the reader; otherwise it allocates them.               *)
(*                                                                         *)
(* One action is one call of the class, with the exception it raises as    *)
(* its outcome: the emulator is a single thread and no call yields.        *)
(* A packed integer is a function from the addresses of its range to       *)
(* bytes.                                                                  *)
(***************************************************************************)
EXTENDS Integers

CONSTANTS
  Byte,            \* values of one byte
  Absent,          \* "no such key" of the dictionary
  MaxAddr,         \* bound: the model's addresses are 0..MaxAddr
  LowestUserAddr,  \* Mem.LOWEST_USER_ADDR
  AllocBase,       \* Mem.DEF_ALLOC_BASE
  Image,           \* bytes the external reader serves: [Addr -> Byte \cup {Absent}]
  Strict,          \* Mem.strict
  Readers,         \* values the reader attribute takes: a subset of BOOLEAN
  Accesses,        \* the [addr, size] ranges that are loaded and stored
  Allocs,          \* the [addr, size] ranges that are allocated at a given address
  AutoSizes        \* the sizes that are allocated at an address Mem chooses

VARIABLES
  data,            \* self.data
  reader,          \* self.reader is not None
  allocLast,       \* self.alloc_last
  last,            \* the call just made and its outcome
  shadow           \* history: the last byte the program itself wrote at an address

vars == <<data, reader, allocLast, last, shadow>>

Addr == 0 .. MaxAddr
Ranges == [addr : Addr, size : Nat \ {0}]
Bytes(r) == r.addr .. (r.addr + r.size - 1)

ASSUME ConstantsAssumption ==
  /\ MaxAddr \in Nat
  /\ Absent \notin Byte
  /\ LowestUserAddr \in Nat /\ AllocBase \in Addr
  /\ Image \in [Addr -> Byte \cup {Absent}]
  /\ Strict \in BOOLEAN
  /\ Readers \subseteq BOOLEAN /\ Readers # {}
  /\ Accesses \subseteq Ranges /\ Allocs \subseteq Ranges
  /\ \A r \in Accesses \cup Allocs : Bytes(r) \subseteq Addr
  /\ AutoSizes \subseteq Nat \ {0}

ImageAddr == {a \in Addr : Image[a] # Absent}

(* f with the bytes of v written over it *)
Over(f, v) == [a \in Addr |-> IF a \in DOMAIN v THEN v[a] ELSE f[a]]

Present(r) == \A a \in Bytes(r) : data[a] # Absent

(* Fault: the byte is stored before it is looked up. *)
WrittenPrefixPlus(r, v) ==
  LET done == {a \in Bytes(r) : \A b \in r.addr .. (a - 1) : data[b] # Absent}
  IN  [a \in done |-> v[a]]

(* The bytes Mem._write has stored when it meets the first unknown one. *)
WrittenPrefix(r, v) ==
  LET done == {a \in Bytes(r) : \A b \in r.addr .. a : data[b] # Absent}
  IN  [a \in done |-> v[a]]

(* What ReaderRaw.read returns: an error when the first byte is outside of *)
(* the image, and fewer bytes than asked for at the end of the image.      *)
ReaderKnows(r) == r.addr \in ImageAddr
ReaderData(r) == [a \in Bytes(r) \cap ImageAddr |-> Image[a]]

Outcome(op, r, res, v) == [op |-> op, at |-> r, res |-> res, val |-> v]

NoBytes == [a \in {} |-> Absent]

Init ==
  /\ data = [a \in Addr |-> Absent]
  /\ reader \in Readers
  /\ allocLast = AllocBase
  /\ last = [op |-> "none"]
  /\ shadow = [a \in Addr |-> Absent]

(* Fault: a store keeps the bytes that are there. *)
WroteOnce(v) ==
  /\ data' = [a \in Addr |-> IF a \in DOMAIN v /\ data[a] = Absent THEN v[a] ELSE data[a]]
  /\ shadow' = Over(shadow, v)

(* The program wrote the bytes v. *)
Wrote(v) ==
  /\ data' = Over(data, v)
  /\ shadow' = Over(shadow, v)

NullPointer(op, r, v) ==
  /\ r.addr < LowestUserAddr
  /\ last' = Outcome(op, r, "null_pointer", v)
  /\ UNCHANGED <<data, shadow>>

LoadHit(r) ==
  /\ r.addr >= LowestUserAddr
  /\ Present(r)
  /\ last' = Outcome("load", r, "ok", [a \in Bytes(r) |-> data[a]])
  /\ UNCHANGED <<data, shadow>>

(* Fault: the reader is asked although every byte is there. *)
LoadMissAlways(r) ==
  /\ r.addr >= LowestUserAddr
  /\ reader /\ ReaderKnows(r)
  /\ data' = Over(data, ReaderData(r))
  /\ last' = Outcome("load", r, "short", ReaderData(r))
  /\ UNCHANGED shadow

(* Fault: a short read passes for a whole one. *)
LoadMissShort(r) ==
  /\ r.addr >= LowestUserAddr
  /\ ~Present(r) /\ reader /\ ReaderKnows(r)
  /\ data' = Over(data, ReaderData(r))
  /\ last' = Outcome("load", r, "ok", ReaderData(r))
  /\ UNCHANGED shadow

(* A byte is missing: the whole range comes from the reader and is put in  *)
(* the dictionary, over whatever is there.                                 *)
LoadMiss(r) ==
  /\ r.addr >= LowestUserAddr
  /\ ~Present(r)
  /\ UNCHANGED shadow
  /\ IF reader /\ ReaderKnows(r)
       THEN /\ data' = Over(data, ReaderData(r))
            /\ last' = Outcome("load", r,
                         IF Bytes(r) \subseteq ImageAddr THEN "ok" ELSE "short",
                         ReaderData(r))
       ELSE /\ last' = Outcome("load", r, "read_error", NoBytes)
            /\ UNCHANGED data

Load(r) ==
  /\ NullPointer("load", r, NoBytes) \/ LoadHit(r) \/ LoadMiss(r)
  /\ UNCHANGED <<reader, allocLast>>

(* Every byte is known, or none has to be. *)
StoreAll(r, v) ==
  /\ r.addr >= LowestUserAddr
  /\ Strict => (Present(r) \/ (reader /\ ReaderKnows(r)))
  /\ Wrote(v)
  /\ last' = Outcome("store", r, "ok", v)

(* MemWriteError, or the ReadError of the reader that nothing catches: the *)
(* bytes before the unknown one stay written.                              *)
StoreFails(r, v) ==
  /\ r.addr >= LowestUserAddr
  /\ Strict /\ ~Present(r) /\ ~(reader /\ ReaderKnows(r))
  /\ Wrote(WrittenPrefix(r, v))
  /\ last' = Outcome("store", r, IF reader THEN "read_error" ELSE "write_error", v)

Store(r, v) ==
  /\ NullPointer("store", r, v) \/ StoreAll(r, v) \/ StoreFails(r, v)
  /\ UNCHANGED <<reader, allocLast>>

AllocAt(r, v) ==
  /\ \/ NullPointer("alloc", r, v)
     \/ /\ r.addr >= LowestUserAddr
        /\ Wrote(v)
        /\ last' = Outcome("alloc", r, "ok", v)
  /\ UNCHANGED <<reader, allocLast>>

(* Fault: the address returned is the one after the allocation. *)
AllocAutoAfter(n, v) ==
  /\ allocLast' = allocLast + n
  /\ Wrote(v)
  /\ last' = Outcome("alloc", [addr |-> allocLast + n, size |-> n], "ok", v)
  /\ UNCHANGED reader

AllocAuto(n, v) ==
  /\ allocLast' = allocLast + n
  /\ Wrote(v)
  /\ last' = Outcome("alloc", [addr |-> allocLast, size |-> n], "ok", v)
  /\ UNCHANGED reader

(* Fault: the allocations start again below their base. *)
ClearBase ==
  /\ data' = [a \in Addr |-> Absent]
  /\ shadow' = [a \in Addr |-> Absent]
  /\ allocLast' = 0
  /\ last' = [op |-> "clear"]
  /\ UNCHANGED reader

(* Mem.clear, called by Abi.reset: alloc_last is not reset. *)
Clear ==
  /\ data' = [a \in Addr |-> Absent]
  /\ shadow' = [a \in Addr |-> Absent]
  /\ last' = [op |-> "clear"]
  /\ UNCHANGED <<reader, allocLast>>

(* Cpu.set_storage: the reader of the storage, or None. *)
SetReader(b) ==
  /\ reader' = b
  /\ last' = [op |-> "attach"]
  /\ UNCHANGED <<data, allocLast, shadow>>

LoadAny == \E r \in Accesses : Load(r)
StoreAny == \E r \in Accesses : \E v \in [Bytes(r) -> Byte] : Store(r, v)
AllocAtAny == \E r \in Allocs : \E v \in [Bytes(r) -> Byte] : AllocAt(r, v)
AllocAutoAny ==
  \E n \in AutoSizes :
    /\ allocLast + n - 1 <= MaxAddr
    /\ \E v \in [allocLast .. (allocLast + n - 1) -> Byte] : AllocAuto(n, v)
SetReaderAny == \E b \in Readers : SetReader(b)

Next == LoadAny \/ StoreAny \/ AllocAtAny \/ AllocAutoAny \/ Clear \/ SetReaderAny

Spec == Init /\ [][Next]_vars

-----------------------------------------------------------------------------
TypeOK ==
  /\ data \in [Addr -> Byte \cup {Absent}]
  /\ shadow \in [Addr -> Byte \cup {Absent}]
  /\ reader \in BOOLEAN
  /\ allocLast \in Nat /\ allocLast >= AllocBase

(* What a program reads back is the last thing it wrote, and what it never *)
(* wrote is what the image holds: the overlapping stores of                *)
(* TestMem.test_access, with the reader of Mem.read in play.               *)
LastStoreVisible ==
  \A a \in Addr :
    IF shadow[a] # Absent
      THEN data[a] = shadow[a]
      ELSE data[a] \in {Absent, Image[a]}

(* Why it holds when accesses do not straddle: a range the reader serves   *)
(* is in the dictionary whole or not at all, so a refill covers no byte    *)
(* the program wrote.                                                      *)
ServedRangesWhole ==
  \A r \in Accesses :
    ReaderKnows(r) => Present(r) \/ \A a \in Bytes(r) : data[a] = Absent

(* The accesses the refill of Mem.read is harmless for: a range that the   *)
(* reader serves lies in the image, below the allocations, and any other   *)
(* range is apart from it or covers it.                                    *)
NoStraddle ==
  \A r \in Accesses :
    ReaderKnows(r) =>
      /\ Bytes(r) \subseteq ImageAddr
      /\ r.addr + r.size <= AllocBase
      /\ \A s \in Accesses \cup Allocs :
           Bytes(r) \cap Bytes(s) = {} \/ Bytes(r) \subseteq Bytes(s)

(* The array the dictionary and the image make together. *)
FlatMem == [a \in Addr |-> IF data[a] # Absent THEN data[a] ELSE Image[a]]

Flat == INSTANCE FlatMemory WITH Initial <- Image, mem <- FlatMem

(* Refinement: the dictionary with the reader behind it is one flat array *)
(* of bytes (Mem.read, Mem.write, Mem.alloc).                              *)
ImplementsFlatMemory == Flat!Spec
=============================================================================
