----------------------------- MODULE MemProofs ------------------------------
(***************************************************************************)
(* Proofs about the emulator memory, for every set of addresses, bytes,    *)
(* accesses and allocations and every image of the reader.                 *)
(***************************************************************************)
EXTENDS Mem, TLAPS

(* Writing bytes over the dictionary gives a dictionary. *)
LEMMA OverType ==
  ASSUME NEW f \in [Addr -> Byte \cup {Absent}], NEW D,
         NEW v \in [D -> Byte]
  PROVE  Over(f, v) \in [Addr -> Byte \cup {Absent}]
  BY DEF Over

(* The bytes a failed store leaves behind are among those it was given. *)
LEMMA PrefixType ==
  ASSUME NEW r, NEW v \in [Bytes(r) -> Byte]
  PROVE  /\ DOMAIN WrittenPrefix(r, v) \subseteq Bytes(r)
         /\ WrittenPrefix(r, v) \in [DOMAIN WrittenPrefix(r, v) -> Byte]
         /\ \A a \in DOMAIN WrittenPrefix(r, v) : WrittenPrefix(r, v)[a] = v[a]
  BY DEF WrittenPrefix

(* What the reader returns are the bytes of the image inside the range. *)
LEMMA ReaderDataType ==
  ASSUME NEW r
  PROVE  /\ DOMAIN ReaderData(r) = Bytes(r) \cap ImageAddr
         /\ ReaderData(r) \in [Bytes(r) \cap ImageAddr -> Byte]
         /\ \A a \in Bytes(r) \cap ImageAddr : ReaderData(r)[a] = Image[a]
  BY ConstantsAssumption DEF ReaderData, ImageAddr

-----------------------------------------------------------------------------
(* Every operation of the memory keeps the dictionary, the reader flag and *)
(* the allocation cursor in their types.                                   *)
THEOREM TypeCorrect == Spec => []TypeOK
<1>1. Init => TypeOK
  BY ConstantsAssumption DEF Init, TypeOK, Addr
<1>2. TypeOK /\ [Next]_vars => TypeOK'
  <2> SUFFICES ASSUME TypeOK, [Next]_vars PROVE TypeOK'
    OBVIOUS
  <2> USE DEF TypeOK
  <2>1. CASE LoadAny
    <3>1. PICK r \in Accesses : Load(r)
      BY <2>1 DEF LoadAny
    <3>2. CASE UNCHANGED <<data, shadow>>
      BY <3>1, <3>2 DEF Load
    <3>3. CASE LoadMiss(r) /\ data' = Over(data, ReaderData(r))
      BY <3>1, <3>3, ReaderDataType, OverType DEF Load, LoadMiss
    <3>4. QED
      BY <3>1, <3>2, <3>3 DEF Load, NullPointer, LoadHit, LoadMiss
  <2>2. CASE StoreAny
    <3>0. PICK r \in Accesses : \E v \in [Bytes(r) -> Byte] : Store(r, v)
      BY <2>2 DEF StoreAny
    <3>1. PICK v \in [Bytes(r) -> Byte] : Store(r, v)
      BY <3>0
    <3>2. CASE NullPointer("store", r, v)
      BY <3>1, <3>2 DEF Store, NullPointer
    <3>3. CASE StoreAll(r, v)
      BY <3>1, <3>3, OverType DEF Store, StoreAll, Wrote
    <3>4. CASE StoreFails(r, v)
      BY <3>1, <3>4, PrefixType, OverType DEF Store, StoreFails, Wrote
    <3>5. QED
      BY <3>1, <3>2, <3>3, <3>4 DEF Store
  <2>3. CASE AllocAtAny
    <3>0. PICK r \in Allocs : \E v \in [Bytes(r) -> Byte] : AllocAt(r, v)
      BY <2>3 DEF AllocAtAny
    <3>1. PICK v \in [Bytes(r) -> Byte] : AllocAt(r, v)
      BY <3>0
    <3>2. QED
      BY <3>1, OverType DEF AllocAt, NullPointer, Wrote
  <2>4. CASE AllocAutoAny
    <3>0. PICK n \in AutoSizes :
            \E v \in [allocLast .. (allocLast + n - 1) -> Byte] : AllocAuto(n, v)
      BY <2>4 DEF AllocAutoAny
    <3>1. PICK v \in [allocLast .. (allocLast + n - 1) -> Byte] : AllocAuto(n, v)
      BY <3>0
    <3>2. allocLast' \in Nat /\ allocLast' >= AllocBase
      BY <3>1, ConstantsAssumption DEF AllocAuto, Addr
    <3>3. QED
      BY <3>1, <3>2, OverType DEF AllocAuto, Wrote
  <2>5. CASE Clear
    BY <2>5 DEF Clear
  <2>6. CASE SetReaderAny
    BY <2>6, ConstantsAssumption DEF SetReaderAny, SetReader
  <2>7. CASE UNCHANGED vars
    BY <2>7 DEF vars
  <2>8. QED
    BY <2>1, <2>2, <2>3, <2>4, <2>5, <2>6, <2>7 DEF Next
<1>3. QED
  BY <1>1, <1>2, PTL DEF Spec

-----------------------------------------------------------------------------
(* The inductive invariant of the next theorems: reading back the last     *)
(* store is not inductive by itself, the refill of Mem.read preserves it   *)
(* only because no range the reader serves is half in the dictionary.      *)
IInv == TypeOK /\ LastStoreVisible /\ ServedRangesWhole

(* A refill covers no byte that is in the dictionary or was ever written. *)
LEMMA RefillHarmless ==
  ASSUME IInv, NEW r \in Accesses, ReaderKnows(r), ~Present(r),
         NEW a \in Bytes(r)
  PROVE  data[a] = Absent /\ shadow[a] = Absent
<1>1. a \in Addr
  BY ConstantsAssumption
<1>2. data[a] = Absent
  BY DEF IInv, ServedRangesWhole
<1>3. QED
  BY <1>1, <1>2 DEF IInv, LastStoreVisible

(* Writing the bytes v keeps the invariant when v meets each range the     *)
(* reader serves not at all, wholly, or in bytes that are already there.   *)
LEMMA WroteKeeps ==
  ASSUME IInv, NEW D, NEW v \in [D -> Byte], Wrote(v), TypeOK',
         \A q \in Accesses : ReaderKnows(q) =>
            \/ Bytes(q) \cap D = {}
            \/ Bytes(q) \subseteq D
            \/ \A a \in Bytes(q) \cap D : data[a] # Absent
  PROVE  IInv'
<1>1. LastStoreVisible'
  BY DEF IInv, TypeOK, LastStoreVisible, Wrote, Over
<1>2. ServedRangesWhole'
  <2> SUFFICES ASSUME NEW q \in Accesses, ReaderKnows(q)
               PROVE  \/ \A a \in Bytes(q) : data'[a] # Absent
                      \/ \A a \in Bytes(q) : data'[a] = Absent
    BY DEF ServedRangesWhole, Present, ReaderKnows
  <2>1. Bytes(q) \subseteq Addr
    BY ConstantsAssumption
  <2>2. \A a \in Bytes(q) :
          data'[a] = IF a \in D THEN v[a] ELSE data[a]
    BY <2>1 DEF Wrote, Over
  <2>3. \A a \in D : v[a] # Absent
    BY ConstantsAssumption
  <2>4. Present(q) \/ \A a \in Bytes(q) : data[a] = Absent
    BY DEF IInv, ServedRangesWhole
  <2>5. CASE Bytes(q) \subseteq D
    BY <2>2, <2>3, <2>5
  <2>6. CASE Bytes(q) \cap D = {}
    BY <2>2, <2>4, <2>6 DEF Present
  <2>7. CASE \A a \in Bytes(q) \cap D : data[a] # Absent
    BY <2>2, <2>3, <2>4, <2>7 DEF Present
  <2>8. QED
    BY <2>5, <2>6, <2>7
<1>3. QED
  BY <1>1, <1>2 DEF IInv

(* Under NoStraddle every step of the memory keeps the invariant. *)
LEMMA StepKeepsIInv ==
  ASSUME NoStraddle, IInv, TypeOK', [Next]_vars
  PROVE  IInv'
<1>1. ASSUME NEW r \in Accesses, Load(r) PROVE IInv'
  <2>1. CASE UNCHANGED <<data, shadow>>
    BY <2>1 DEF IInv, LastStoreVisible, ServedRangesWhole, Present, ReaderKnows
  <2>2. CASE ReaderKnows(r) /\ ~Present(r) /\ UNCHANGED shadow
             /\ data' = Over(data, ReaderData(r))
    <3>1. \A a \in Bytes(r) : data[a] = Absent /\ shadow[a] = Absent
      BY <2>2, RefillHarmless
    <3>2. Bytes(r) \subseteq ImageAddr
      BY <2>2 DEF NoStraddle
    <3>3. \A a \in Addr : data'[a] = IF a \in Bytes(r) THEN Image[a] ELSE data[a]
      BY <2>2, <3>2, ReaderDataType DEF Over
    <3>4. LastStoreVisible'
      BY <2>2, <3>1, <3>3 DEF IInv, LastStoreVisible
    <3>5. ServedRangesWhole'
      <4> SUFFICES ASSUME NEW q \in Accesses, ReaderKnows(q)
                   PROVE  \/ \A a \in Bytes(q) : data'[a] # Absent
                          \/ \A a \in Bytes(q) : data'[a] = Absent
        BY DEF ServedRangesWhole, Present, ReaderKnows
      <4>1. Bytes(q) \subseteq Addr /\ Bytes(q) \subseteq ImageAddr
        BY ConstantsAssumption DEF NoStraddle
      <4>2. Bytes(q) \cap Bytes(r) = {} \/ Bytes(q) \subseteq Bytes(r)
        BY DEF NoStraddle
      <4>3. CASE Bytes(q) \cap Bytes(r) = {}
        BY <3>3, <4>1, <4>3 DEF IInv, ServedRangesWhole, Present
      <4>4. CASE Bytes(q) \subseteq Bytes(r)
        BY <3>3, <4>1, <4>4 DEF ImageAddr
      <4>5. QED
        BY <4>2, <4>3, <4>4
    <3>6. QED
      BY <3>4, <3>5 DEF IInv
  <2>3. QED
    BY <1>1, <2>1, <2>2 DEF Load, NullPointer, LoadHit, LoadMiss
<1>2. ASSUME NEW r \in Accesses, NEW v \in [Bytes(r) -> Byte], Store(r, v) PROVE IInv'
  <2>1. CASE NullPointer("store", r, v)
    BY <2>1 DEF NullPointer, IInv, LastStoreVisible, ServedRangesWhole, Present, ReaderKnows
  <2>2. CASE StoreAll(r, v)
    BY <2>2, WroteKeeps DEF StoreAll, NoStraddle
  <2>3. CASE StoreFails(r, v)
    <3>1. \A a \in DOMAIN WrittenPrefix(r, v) : data[a] # Absent
      BY ConstantsAssumption DEF WrittenPrefix, Bytes, Ranges, Addr
    <3>2. QED
      BY <2>3, <3>1, WroteKeeps, PrefixType DEF StoreFails
  <2>4. QED
    BY <1>2, <2>1, <2>2, <2>3 DEF Store
<1>3. ASSUME NEW r \in Allocs, NEW v \in [Bytes(r) -> Byte], AllocAt(r, v) PROVE IInv'
  <2>1. CASE NullPointer("alloc", r, v)
    BY <2>1 DEF NullPointer, IInv, LastStoreVisible, ServedRangesWhole, Present, ReaderKnows
  <2>2. CASE Wrote(v)
    BY <2>2, WroteKeeps DEF NoStraddle
  <2>3. QED
    BY <1>3, <2>1, <2>2 DEF AllocAt
<1>4. ASSUME NEW n \in AutoSizes,
             NEW v \in [allocLast .. (allocLast + n - 1) -> Byte], AllocAuto(n, v)
      PROVE  IInv'
  <2>1. \A q \in Accesses : ReaderKnows(q) =>
          Bytes(q) \cap (allocLast .. (allocLast + n - 1)) = {}
    BY ConstantsAssumption DEF NoStraddle, IInv, TypeOK, Bytes, Ranges, Addr
  <2>2. QED
    BY <1>4, <2>1, WroteKeeps DEF AllocAuto
<1>5. CASE Clear
  BY <1>5, ConstantsAssumption DEF Clear, IInv, LastStoreVisible, ServedRangesWhole, Present, ReaderKnows
<1>6. CASE SetReaderAny \/ UNCHANGED vars
  BY <1>6 DEF SetReaderAny, SetReader, vars, IInv, LastStoreVisible, ServedRangesWhole,
              Present, ReaderKnows
<1>7. QED
  BY <1>1, <1>2, <1>3, <1>4, <1>5, <1>6
  DEF Next, LoadAny, StoreAny, AllocAtAny, AllocAutoAny

(* What a program reads back is what it last wrote, whatever the image and *)
(* however the reader comes and goes, when no access straddles.            *)
THEOREM StoresVisible ==
  ASSUME NoStraddle
  PROVE  Spec => [](LastStoreVisible /\ ServedRangesWhole)
<1>1. Init => IInv
  BY ConstantsAssumption
  DEF Init, IInv, TypeOK, LastStoreVisible, ServedRangesWhole, Present, Addr
<1>2. IInv /\ TypeOK' /\ [Next]_vars => IInv'
  BY StepKeepsIInv
<1>3. IInv => LastStoreVisible /\ ServedRangesWhole
  BY DEF IInv
<1>4. QED
  BY <1>1, <1>2, <1>3, TypeCorrect, PTL DEF Spec

(* A range the reader serves is in the dictionary whole or not at all, as  *)
(* long as no access straddles one.                                        *)
THEOREM ServedRangesStayWhole ==
  ASSUME NoStraddle
  PROVE  Spec => []ServedRangesWhole
BY StoresVisible, PTL

-----------------------------------------------------------------------------
(* Writing bytes over the dictionary writes them over the array. *)
LEMMA WroteFlat ==
  ASSUME NEW D, NEW v \in [D -> Byte], Wrote(v)
  PROVE  \A a \in Addr : FlatMem'[a] = IF a \in D THEN v[a] ELSE FlatMem[a]
<1> SUFFICES ASSUME NEW a \in Addr
             PROVE  FlatMem'[a] = IF a \in D THEN v[a] ELSE FlatMem[a]
  OBVIOUS
<1>1. data'[a] = IF a \in D THEN v[a] ELSE data[a]
  BY DEF Wrote, Over
<1>2. a \in D => v[a] # Absent
  BY ConstantsAssumption
<1>3. QED
  BY <1>1, <1>2 DEF FlatMem

(* Each call of the memory is a step of the flat array. *)
LEMMA StepRefines ==
  ASSUME NoStraddle, IInv, [Next]_vars
  PROVE  [Flat!Next]_(Flat!vars)
<1> USE DEF Outcome
<1>1. ASSUME NEW r \in Accesses, Load(r) PROVE Flat!Load
  <2>1. UNCHANGED data => UNCHANGED FlatMem
    BY DEF FlatMem
  <2>2. Bytes(r) \subseteq Addr
    BY ConstantsAssumption
  <2>3. CASE NullPointer("load", r, NoBytes)
    BY <2>1, <2>3 DEF NullPointer, Flat!Load
  <2>4. CASE LoadHit(r)
    <3>1. \A a \in Bytes(r) : FlatMem[a] = data[a]
      BY <2>2, <2>4 DEF LoadHit, Present, FlatMem
    <3>2. last'.val = [a \in Bytes(r) |-> FlatMem[a]]
      BY <2>4, <3>1 DEF LoadHit
    <3>3. QED
      BY <2>1, <2>4, <3>2 DEF LoadHit, Flat!Load, Flat!Bytes, Bytes
  <2>5. CASE LoadMiss(r) /\ ~(reader /\ ReaderKnows(r))
    BY <2>1, <2>5 DEF LoadMiss, Flat!Load
  <2>6. CASE LoadMiss(r) /\ reader /\ ReaderKnows(r)
    <3>1. \A a \in Bytes(r) : data[a] = Absent
      BY <2>6, RefillHarmless DEF LoadMiss
    <3>2. Bytes(r) \subseteq ImageAddr
      BY <2>6 DEF NoStraddle
    <3>3. \A a \in Addr : data'[a] = IF a \in Bytes(r) THEN Image[a] ELSE data[a]
      BY <2>6, <3>2, ReaderDataType DEF LoadMiss, Over
    <3>4. FlatMem' = FlatMem
      BY <3>1, <3>3 DEF FlatMem
    <3>5. last'.val = [a \in Bytes(r) |-> FlatMem[a]]
      BY <2>2, <2>6, <3>1, <3>2 DEF LoadMiss, FlatMem, ReaderData
    <3>6. QED
      BY <2>6, <3>4, <3>5 DEF LoadMiss, Flat!Load, Flat!Bytes, Bytes
  <2>7. QED
    BY <1>1, <2>3, <2>4, <2>5, <2>6 DEF Load
<1>2. ASSUME NEW r \in Accesses, NEW v \in [Bytes(r) -> Byte], Store(r, v)
      PROVE  Flat!Store
  <2>0. last'.op = "store" /\ last'.at = r /\ last'.val = v
    BY <1>2 DEF Store, NullPointer, StoreAll, StoreFails
  <2>1. Bytes(r) \subseteq Addr
    BY ConstantsAssumption
  <2> HIDE DEF Outcome
  <2>2. SUFFICES
          /\ \A a \in Addr \ Bytes(r) : FlatMem'[a] = FlatMem[a]
          /\ \A a \in Bytes(r) :
               \/ FlatMem'[a] = v[a]
               \/ last'.res # "ok" /\ FlatMem'[a] = FlatMem[a]
          /\ \A a, b \in Bytes(r) :
               a < b /\ FlatMem'[b] # FlatMem[b] => FlatMem'[a] = v[a]
    BY <2>0 DEF Flat!Store, Flat!Bytes, Bytes
  <2>3. CASE NullPointer("store", r, v)
    <3>1. FlatMem' = FlatMem
      BY <2>3 DEF NullPointer, FlatMem
    <3>2. QED
      BY <2>3, <3>1 DEF NullPointer, Outcome
  <2>4. CASE StoreAll(r, v)
    BY <2>1, <2>4, WroteFlat DEF StoreAll
  <2>5. CASE StoreFails(r, v)
    <3> DEFINE D == DOMAIN WrittenPrefix(r, v)
    <3>1. \A a \in Addr : FlatMem'[a] = IF a \in D THEN v[a] ELSE FlatMem[a]
      BY <2>5, WroteFlat, PrefixType DEF StoreFails
    <3>2. last'.res # "ok"
      BY <2>5 DEF StoreFails, Outcome
    <3>3. \A a, b \in Bytes(r) : a < b /\ b \in D => a \in D
      BY ConstantsAssumption DEF WrittenPrefix, Bytes, Ranges, Addr
    <3>4. D \subseteq Bytes(r)
      BY PrefixType
    <3> HIDE DEF D
    <3>5. QED
      BY <2>1, <3>1, <3>2, <3>3, <3>4
  <2>6. QED
    BY <1>2, <2>3, <2>4, <2>5 DEF Store
<1>3. ASSUME NEW r \in Allocs, NEW v \in [Bytes(r) -> Byte], AllocAt(r, v)
      PROVE  Flat!Alloc
  <2>1. CASE NullPointer("alloc", r, v)
    <3>1. FlatMem' = FlatMem
      BY <2>1 DEF NullPointer, FlatMem
    <3>2. QED
      BY <2>1, <3>1 DEF NullPointer, Flat!Alloc
  <2>2. CASE Wrote(v) /\ last' = Outcome("alloc", r, "ok", v)
    <3>1. \A a \in Addr : FlatMem'[a] = IF a \in Bytes(r) THEN v[a] ELSE FlatMem[a]
      BY <2>2, WroteFlat
    <3>2. QED
      BY <2>2, <3>1 DEF Flat!Alloc, Flat!Bytes, Bytes
  <2>3. QED
    BY <1>3, <2>1, <2>2 DEF AllocAt
<1>4. ASSUME NEW n \in AutoSizes,
             NEW v \in [allocLast .. (allocLast + n - 1) -> Byte], AllocAuto(n, v)
      PROVE  Flat!Alloc
  <2>1. \A a \in Addr : FlatMem'[a] =
          IF a \in allocLast .. (allocLast + n - 1) THEN v[a] ELSE FlatMem[a]
    BY <1>4, WroteFlat DEF AllocAuto
  <2>2. QED
    BY <1>4, <2>1 DEF AllocAuto, Flat!Alloc, Flat!Bytes
<1>5. CASE Clear
  <2>1. FlatMem' = [a \in Addr |-> Image[a]]
    BY <1>5 DEF Clear, FlatMem
  <2>2. FlatMem' = Image
    BY <2>1, ConstantsAssumption
  <2>3. QED
    BY <1>5, <2>2 DEF Clear, Flat!Next, Flat!Clear
<1>6. CASE SetReaderAny
  BY <1>6 DEF SetReaderAny, SetReader, Flat!Next, Flat!Attach, FlatMem
<1>7. CASE UNCHANGED vars
  BY <1>7 DEF vars, Flat!vars, FlatMem
<1>8. QED
  BY <1>1, <1>2, <1>3, <1>4, <1>5, <1>6, <1>7
  DEF Next, LoadAny, StoreAny, AllocAtAny, AllocAutoAny, Flat!Next

(* Under NoStraddle the dictionary with the reader behind it implements    *)
(* one flat array of bytes.                                                *)
THEOREM FlatMemoryImplemented ==
  ASSUME NoStraddle
  PROVE  Spec => ImplementsFlatMemory
<1>1. Init => Flat!Init
  <2>1. Init => FlatMem = Image
    BY ConstantsAssumption DEF Init, FlatMem
  <2>2. QED
    BY <2>1 DEF Init, Flat!Init
<1>2. IInv /\ [Next]_vars => [Flat!Next]_(Flat!vars)
  BY StepRefines
<1>3. TypeOK /\ LastStoreVisible /\ ServedRangesWhole => IInv
  BY DEF IInv
<1>4. QED
  BY <1>1, <1>2, <1>3, TypeCorrect, StoresVisible, PTL
  DEF Spec, Flat!Spec, ImplementsFlatMemory
=============================================================================
