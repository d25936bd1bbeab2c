---------------------------- MODULE MemoryProofs ----------------------------
(***************************************************************************)
(* Loader and bus serve the image of the file as one array of bytes, for    *)
(* every file, size of a byte, place of the devices and sequence of         *)
(* accesses.                                                                *)
(***************************************************************************)
EXTENDS MemorySystem, NumberProofs

(* Sections with contents the loader copies, or without any: it clears those *)
(* of every other type. *)
PlainSections ==
  \A f \in Files : \A k \in DOMAIN f.sections :
    f.sections[k].alloc => f.sections[k].type \in {"PROGBITS", "NOBITS"}

(* A memory that was made for a section. *)
MadeFor(m, h) ==
  /\ m = [base |-> h.addr, size |-> h.size, mayWrite |-> h.write, data |-> m.data]
  /\ DOMAIN m.data = 0 .. h.size - 1

Segment ==
  [base : Nat, size : Nat, mayWrite : BOOLEAN, data : UNION {[0 .. n - 1 -> Byte] : n \in Nat}]

(* Section l has had its turn in createMemories. *)
Made(l) == l \in DOMAIN file.sections /\ l < header /\ file.sections[l].alloc

(* What is made so far: a memory for each section that is loaded, and none   *)
(* else, at addresses of their own. *)
OneForEach ==
  /\ \A k \in DOMAIN memories : \E l \in DOMAIN file.sections :
       /\ Made(l) /\ MadeFor(memories[k], file.sections[l])
       /\ loadState # "loaded" => memories[k].data = SegmentData(file.sections[l])
  /\ loadState # "failed" =>
       \A l \in DOMAIN file.sections : Made(l) =>
         \E k \in DOMAIN memories : MadeFor(memories[k], file.sections[l])
  /\ \A j, k \in DOMAIN memories : \A addr \in Nat :
       MemoryContains(memories[j], addr) /\ MemoryContains(memories[k], addr) => j = k

LoadInv ==
  /\ file \in Files /\ header \in Nat \ {0}
  /\ loadState = "closed" => header = 1 /\ memories = <<>>
  /\ loadState = "loaded" => header \notin DOMAIN file.sections
  /\ loadState # "loaded" => memories \in Seq(Segment)
  /\ DOMAIN memories \subseteq Nat
  /\ OneForEach

----------------------------------------------------------------------------
(* Numbers.                                                                  *)

(* The powers of the size of a byte. *)
LEMMA Powers == Pow = [n \in 0 .. 8 |-> IF n = 0 THEN 1 ELSE ByteSize * Pow[n - 1]]
<1> DEFINE IsPow(f, k) == f = [n \in 0 .. k |-> IF n = 0 THEN 1 ELSE ByteSize * f[n - 1]]
           Known == {k \in 0 .. 8 : \E f : IsPow(f, k)}
<1>1. 0 \in Known
  <2> DEFINE f == [n \in 0 .. 0 |-> 1]
  <2>1. IsPow(f, 0)
    OBVIOUS
  <2>2. 0 \in 0 .. 8
    OBVIOUS
  <2> HIDE DEF IsPow, f
  <2> QED
    BY <2>1, <2>2
<1>2. ASSUME NEW k \in 0 .. 7, k \in Known PROVE k + 1 \in Known
  <2>1. PICK f : IsPow(f, k)
    BY <1>2
  <2> DEFINE g == [n \in 0 .. k + 1 |-> IF n = k + 1 THEN ByteSize * f[k] ELSE f[n]]
  <2>2. \A n \in 0 .. k + 1 : g[n] = IF n = 0 THEN 1 ELSE ByteSize * g[n - 1]
    BY <2>1
  <2>3. g = [n \in 0 .. k + 1 |-> g[n]]
    OBVIOUS
  <2> HIDE DEF g
  <2>4. IsPow(g, k + 1)
    BY <2>2, <2>3
  <2> QED
    BY <2>4
<1>3. 8 \in Known
  <2> HIDE DEF Known
  <2> QED
    BY <1>1, <1>2, UpTo
<1>4. Pow = CHOOSE f : IsPow(f, 8)
  BY DEF Pow
<1>5. IsPow(Pow, 8)
  <2>1. \E f : IsPow(f, 8)
    BY <1>3
  <2> HIDE DEF IsPow
  <2> QED
    BY <1>4, <2>1
<1> QED
  BY <1>5

(* They grow. *)
LEMMA PowersType ==
  /\ \A n \in 0 .. 8 : Pow[n] \in Nat \ {0} /\ Pow[n] <= Pow[8]
  /\ Pow[0] = 1 /\ \A n \in 0 .. 7 : Pow[n + 1] = ByteSize * Pow[n]
<1>1. Pow[0] = 1 /\ \A n \in 0 .. 7 : Pow[n + 1] = ByteSize * Pow[n]
  BY Powers
<1>2. \A p \in Nat \ {0} : ByteSize * p \in Nat \ {0} /\ p <= ByteSize * p
  BY ByteSizeAssumption
<1>3. /\ Pow[1] = ByteSize * Pow[0] /\ Pow[2] = ByteSize * Pow[1]
      /\ Pow[3] = ByteSize * Pow[2] /\ Pow[4] = ByteSize * Pow[3]
      /\ Pow[5] = ByteSize * Pow[4] /\ Pow[6] = ByteSize * Pow[5]
      /\ Pow[7] = ByteSize * Pow[6] /\ Pow[8] = ByteSize * Pow[7]
  BY <1>1
<1>4. \A n \in 0 .. 8 : Pow[n] \in Nat \ {0}
  <2> DEFINE S == {n \in 0 .. 8 : Pow[n] \in Nat \ {0}}
  <2>1. 0 \in S
    BY <1>1
  <2>2. ASSUME NEW k \in 0 .. 7, k \in S PROVE k + 1 \in S
    BY <1>1, <1>2, <2>2
  <2> HIDE DEF S
  <2>3. 0 .. 8 \subseteq S
    BY <2>1, <2>2, UpTo
  <2> QED
    BY <2>3 DEF S
<1>5. /\ Pow[0] <= Pow[1] /\ Pow[1] <= Pow[2] /\ Pow[2] <= Pow[3] /\ Pow[3] <= Pow[4]
      /\ Pow[4] <= Pow[5] /\ Pow[5] <= Pow[6] /\ Pow[6] <= Pow[7] /\ Pow[7] <= Pow[8]
  BY <1>2, <1>3, <1>4
<1>6. \A n \in 0 .. 8 : n \in {0, 1, 2, 3, 4, 5, 6, 7, 8} /\ Pow[n] \in Int
  BY <1>4
<1> QED
  BY <1>1, <1>4, <1>5, <1>6

(* A number with size bytes is less than the power of that size. *)
LEMMA LittleEndianType ==
  ASSUME NEW size \in 0 .. 8, NEW b \in [0 .. size - 1 -> Byte]
  PROVE  LittleEndian(b, size) \in 0 .. Pow[size] - 1
<1> DEFINE IsValue(f, n) ==
             f = [k \in 0 .. n |-> IF k = 0 THEN 0 ELSE f[k - 1] + b[k - 1] * Pow[k - 1]]
           Known == {n \in 0 .. size : \E f : IsValue(f, n)}
           value == CHOOSE f : IsValue(f, size)
<1>1. 0 \in Known
  <2> DEFINE f == [k \in 0 .. 0 |-> 0]
  <2>1. IsValue(f, 0)
    OBVIOUS
  <2>2. 0 \in 0 .. size
    OBVIOUS
  <2> HIDE DEF IsValue, f
  <2> QED
    BY <2>1, <2>2
<1>2. ASSUME NEW n \in 0 .. size - 1, n \in Known PROVE n + 1 \in Known
  <2>1. PICK f : IsValue(f, n)
    BY <1>2
  <2> DEFINE g == [k \in 0 .. n + 1 |-> IF k = n + 1 THEN f[n] + b[n] * Pow[n] ELSE f[k]]
  <2>2. \A k \in 0 .. n + 1 : g[k] = IF k = 0 THEN 0 ELSE g[k - 1] + b[k - 1] * Pow[k - 1]
    BY <2>1
  <2>3. g = [k \in 0 .. n + 1 |-> g[k]]
    OBVIOUS
  <2> HIDE DEF g
  <2>4. IsValue(g, n + 1)
    BY <2>2, <2>3
  <2> QED
    BY <2>4
<1>3. IsValue(value, size)
  <2>1. size \in Known
    <3> HIDE DEF Known
    <3>1. size \in Nat /\ size \in 0 .. size
      OBVIOUS
    <3> QED
      BY <1>1, <1>2, <3>1, UpTo
  <2>2. \E f : IsValue(f, size)
    BY <2>1
  <2> HIDE DEF IsValue
  <2> QED
    BY <2>2
<1>4. LittleEndian(b, size) = value[size]
  BY DEF LittleEndian
<1> HIDE DEF value
<1>5. /\ value[0] = 0
      /\ \A n \in 0 .. size - 1 : value[n + 1] = value[n] + b[n] * Pow[n]
  BY <1>3
<1> DEFINE Bounded == {n \in 0 .. size : value[n] \in 0 .. Pow[n] - 1}
<1>6. 0 \in Bounded
  <2>1. 0 \in 0 .. Pow[0] - 1
    <3>1. Pow[0] = 1
      BY PowersType
    <3> QED
      BY <3>1
  <2>2. 0 \in 0 .. size
    OBVIOUS
  <2> QED
    BY <1>5, <2>1, <2>2
<1>7. ASSUME NEW n \in 0 .. size - 1, n \in Bounded PROVE n + 1 \in Bounded
  <2> DEFINE p == Pow[n]
             x == b[n]
             v == value[n]
  <2>1. p \in Nat \ {0} /\ x \in Byte /\ v \in 0 .. p - 1 /\ Pow[n + 1] = ByteSize * p
    <3>1. n \in 0 .. 8 /\ n \in 0 .. 7
      OBVIOUS
    <3>2. b[n] \in Byte
      OBVIOUS
    <3>3. value[n] \in 0 .. Pow[n] - 1
      BY <1>7
    <3> QED
      BY <3>1, <3>2, <3>3, PowersType
  <2>2. value[n + 1] = v + x * p
    BY <1>5
  <2> HIDE DEF p, x, v
  <2>3. x * p \in Nat /\ x * p <= (ByteSize - 1) * p
    BY <2>1, ByteSizeAssumption DEF Byte
  <2>4. (ByteSize - 1) * p = ByteSize * p - p /\ ByteSize * p \in Nat
    BY <2>1, ByteSizeAssumption
  <2>5. v + x * p \in 0 .. ByteSize * p - 1
    BY <2>1, <2>3, <2>4
  <2> QED
    BY <2>1, <2>2, <2>5
<1>8. size \in Bounded
  <2> HIDE DEF Bounded
  <2>1. size \in Nat /\ size \in 0 .. size
    OBVIOUS
  <2> QED
    BY <1>6, <1>7, <2>1, UpTo
<1> QED
  BY <1>4, <1>8

(* What is read fits a register. *)
LEMMA ExtendType ==
  ASSUME NEW size \in 0 .. 8, NEW raw \in 0 .. Pow[size] - 1, NEW signExtend \in BOOLEAN
  PROVE  Extend(raw, size, signExtend) \in 0 .. Pow[8] - 1
<1>1. Pow[size] \in Nat /\ Pow[8] \in Nat /\ Pow[size] <= Pow[8]
  BY PowersType
<1> QED
  BY <1>1 DEF Extend

----------------------------------------------------------------------------
(* The loader.                                                               *)

(* What the assumptions say of the file that is loaded. *)
LEMMA SectionsType ==
  ASSUME file \in Files
  PROVE  /\ Len(file.sections) \in Nat /\ DOMAIN file.sections = 1 .. Len(file.sections)
         /\ \A l \in DOMAIN file.sections :
              /\ file.sections[l].addr \in Nat /\ file.sections[l].size \in Nat
              /\ file.sections[l].alloc \in BOOLEAN /\ file.sections[l].write \in BOOLEAN
              /\ file.sections[l].type # "NOBITS" =>
                   file.sections[l].contents \in [0 .. file.sections[l].size - 1 -> Byte]
         /\ \A k, l \in DOMAIN file.sections :
              k # l /\ file.sections[k].alloc /\ file.sections[l].alloc =>
                Extent(file.sections[k]) \cap Extent(file.sections[l]) = {}
  BY FilesType, FilesAssumption

(* What goes into the memory of a section is bytes. *)
LEMMA SegmentDataType ==
  ASSUME file \in Files, NEW l \in DOMAIN file.sections
  PROVE  SegmentData(file.sections[l]) \in [0 .. file.sections[l].size - 1 -> Byte]
<1> DEFINE h == file.sections[l]
<1>1. h.type # "NOBITS" => h.contents \in [0 .. h.size - 1 -> Byte]
  BY SectionsType
<1>2. 0 \in Byte
  BY ByteSizeAssumption DEF Byte
<1> HIDE DEF h
<1>3. SegmentData(h) \in [0 .. h.size - 1 -> Byte]
  BY <1>1, <1>2 DEF SegmentData
<1> QED
  BY <1>3 DEF h

(* The memory made for a section is like it. *)
LEMMA MemoryIsMade ==
  ASSUME file \in Files, NEW l \in DOMAIN file.sections
  PROVE  /\ MemoryOf(file.sections[l]) \in Segment
         /\ MadeFor(MemoryOf(file.sections[l]), file.sections[l])
         /\ MemoryOf(file.sections[l]).data = SegmentData(file.sections[l])
<1> DEFINE h == file.sections[l]
<1>1. h.addr \in Nat /\ h.size \in Nat /\ h.write \in BOOLEAN
  BY SectionsType
<1>2. SegmentData(h) \in [0 .. h.size - 1 -> Byte]
  BY SegmentDataType
<1> HIDE DEF h
<1>3. MadeFor(MemoryOf(h), h) /\ MemoryOf(h).data = SegmentData(h)
  BY <1>2 DEF MadeFor, MemoryOf, MayWrite
<1>4. MemoryOf(h) \in Segment
  BY <1>1, <1>2 DEF MemoryOf, MayWrite, Segment
<1> QED
  BY <1>3, <1>4 DEF h

(* A memory contains what the extent of its section does. *)
LEMMA ContainsExtent ==
  ASSUME NEW m, NEW h, MadeFor(m, h), h.addr \in Nat, h.size \in Nat, NEW addr \in Nat
  PROVE  MemoryContains(m, addr) <=> addr \in Extent(h)
<1>1. m.base = h.addr /\ m.size = h.size
  BY DEF MadeFor
<1> QED
  BY <1>1 DEF MemoryContains, Extent

(* Nothing is made of a closed file. *)
LEMMA InitLoad == Init => LoadInv
<1> SUFFICES ASSUME Init PROVE LoadInv
  OBVIOUS
<1>1. file \in Files /\ loadState = "closed" /\ header = 1 /\ memories = <<>>
  BY DEF Init, LoaderInit
<1>2. \A l \in DOMAIN file.sections : ~Made(l)
  BY <1>1, SectionsType DEF Made
<1>3. DOMAIN memories = {} /\ memories \in Seq(Segment)
  BY <1>1
<1>4. OneForEach
  BY <1>2, <1>3 DEF OneForEach
<1> QED
  BY <1>1, <1>3, <1>4 DEF LoadInv

(* One call of the lambda of createMemories. *)
LEMMA CreateKeeps == ASSUME LoadInv, CreateMemory PROVE LoadInv'
<1> DEFINE h == file.sections[header]
           m == MemoryOf(h)
<1>1. /\ file' = file /\ loadState' = "opened" /\ loadState = "opened"
      /\ header \in DOMAIN file.sections /\ header' = header + 1 /\ header \in Nat \ {0}
      /\ file \in Files
  BY DEF CreateMemory, LoadInv
<1>2. CASE ~h.alloc
  <2>1. memories' = memories
    BY <1>2 DEF CreateMemory, IsLoaded
  <2>2. \A l \in DOMAIN file.sections : Made(l)' <=> Made(l)
    <3>1. \A l \in DOMAIN file.sections : l \in Nat
      BY <1>1, SectionsType
    <3>2. \A l \in DOMAIN file.sections : file.sections[l].alloc => l # header
      BY <1>2
    <3>3. \A l \in Nat : l # header => (l < header + 1 <=> l < header)
      BY <1>1
    <3> HIDE DEF h
    <3> QED
      BY <1>1, <3>1, <3>2, <3>3 DEF Made
  <2> QED
    BY <1>1, <2>1, <2>2 DEF LoadInv, OneForEach
<1>3. CASE h.alloc
  <2>1. memories' = Append(memories, m) /\ memories \in Seq(Segment)
    BY <1>1, <1>3 DEF CreateMemory, IsLoaded, LoadInv
  <2>2. m \in Segment /\ MadeFor(m, h) /\ m.data = SegmentData(h)
    BY <1>1, MemoryIsMade
  <2> DEFINE n == Len(memories)
  <2>3. /\ memories' \in Seq(Segment) /\ n \in Nat
        /\ DOMAIN memories = 1 .. n /\ DOMAIN memories' = 1 .. n + 1
        /\ \A k \in 1 .. n : memories'[k] = memories[k]
        /\ memories'[n + 1] = m
    BY <2>1, <2>2
  <2> HIDE DEF h, m, n
  <2>4. \A l \in DOMAIN file.sections : Made(l)' <=> Made(l) \/ l = header
    <3>1. \A l \in DOMAIN file.sections : l \in Nat
      BY <1>1, SectionsType
    <3>2. \A l \in Nat : l < header + 1 <=> l < header \/ l = header
      BY <1>1
    <3>3. file.sections[header].alloc
      BY <1>3 DEF h
    <3>4. \A l : Made(l)' <=> l \in DOMAIN file.sections /\ l < header + 1
                             /\ file.sections[l].alloc
      BY <1>1 DEF Made
    <3> QED
      BY <1>1, <3>1, <3>2, <3>3, <3>4 DEF Made
  <2>5. \A k \in DOMAIN memories' : \E l \in DOMAIN file.sections :
          /\ Made(l)' /\ MadeFor(memories'[k], file.sections[l])
          /\ memories'[k].data = SegmentData(file.sections[l])
    <3> SUFFICES ASSUME NEW k \in 1 .. n + 1
                 PROVE  \E l \in DOMAIN file.sections :
                          /\ Made(l)' /\ MadeFor(memories'[k], file.sections[l])
                          /\ memories'[k].data = SegmentData(file.sections[l])
      BY <2>3
    <3>1. CASE k = n + 1
      BY <1>1, <2>2, <2>3, <2>4, <3>1 DEF h
    <3>2. CASE k \in 1 .. n
      <4>1. PICK l \in DOMAIN file.sections :
              /\ Made(l) /\ MadeFor(memories[k], file.sections[l])
              /\ memories[k].data = SegmentData(file.sections[l])
        BY <1>1, <2>3, <3>2 DEF LoadInv, OneForEach
      <4> QED
        BY <2>3, <2>4, <3>2, <4>1
    <3> QED
      BY <2>3, <3>1, <3>2
  <2>6. \A l \in DOMAIN file.sections : Made(l)' =>
          \E k \in DOMAIN memories' : MadeFor(memories'[k], file.sections[l])
    <3> SUFFICES ASSUME NEW l \in DOMAIN file.sections, Made(l)'
                 PROVE  \E k \in 1 .. n + 1 : MadeFor(memories'[k], file.sections[l])
      BY <2>3
    <3>1. CASE l = header
      <4>1. n + 1 \in 1 .. n + 1
        BY <2>3
      <4> QED
        BY <2>2, <2>3, <3>1, <4>1 DEF h
    <3>2. CASE Made(l)
      <4>1. PICK k \in 1 .. n : MadeFor(memories[k], file.sections[l])
        BY <1>1, <2>3, <3>2 DEF LoadInv, OneForEach
      <4>2. k \in 1 .. n + 1 /\ memories'[k] = memories[k]
        BY <2>3
      <4> QED
        BY <4>1, <4>2
    <3> QED
      BY <2>4, <3>1, <3>2
  <2>7. \A k \in 1 .. n : \A addr \in Nat :
          ~(MemoryContains(memories[k], addr) /\ MemoryContains(m, addr))
    <3> SUFFICES ASSUME NEW k \in 1 .. n, NEW addr \in Nat, MemoryContains(memories[k], addr),
                        MemoryContains(m, addr)
                 PROVE  FALSE
      OBVIOUS
    <3>1. PICK l \in DOMAIN file.sections : Made(l) /\ MadeFor(memories[k], file.sections[l])
      BY <2>3 DEF LoadInv, OneForEach
    <3>2. l # header /\ file.sections[l].alloc
      BY <1>1, <3>1, SectionsType DEF Made
    <3>3. addr \in Extent(file.sections[l])
      BY <1>1, <3>1, ContainsExtent, SectionsType
    <3>4. addr \in Extent(h)
      BY <1>1, <2>2, ContainsExtent, SectionsType DEF h
    <3> QED
      BY <1>1, <1>3, <3>2, <3>3, <3>4, SectionsType DEF h
  <2>8. \A j, k \in DOMAIN memories' : \A addr \in Nat :
          MemoryContains(memories'[j], addr) /\ MemoryContains(memories'[k], addr) => j = k
    <3> SUFFICES ASSUME NEW j \in 1 .. n + 1, NEW k \in 1 .. n + 1, NEW addr \in Nat,
                        MemoryContains(memories'[j], addr), MemoryContains(memories'[k], addr)
                 PROVE  j = k
      BY <2>3
    <3>1. \A i \in 1 .. n + 1 : i \in 1 .. n \/ i = n + 1
      BY <2>3
    <3>2. CASE j \in 1 .. n /\ k \in 1 .. n
      BY <2>3, <3>2 DEF LoadInv, OneForEach
    <3> QED
      BY <2>3, <2>7, <3>1, <3>2
  <2>9. OneForEach'
    BY <1>1, <2>5, <2>6, <2>8 DEF OneForEach
  <2> QED
    BY <1>1, <2>3, <2>9 DEF LoadInv
<1> QED
  BY <1>1, <1>2, <1>3, SectionsType

(* The other steps of the loader change no memory but drop them all. *)
LEMMA LoaderKeeps ==
  ASSUME LoadInv, OpenFails \/ Load \/ AllocationFails \/ MemoriesCreated PROVE LoadInv'
<1>1. file \in Files /\ file' = file /\ header' = header /\ header \in Nat \ {0}
  BY DEF LoadInv, OpenFails, Load, AllocationFails, MemoriesCreated
<1>2. CASE OpenFails \/ Load \/ AllocationFails
  <2>1. memories' = <<>> /\ loadState' \in {"opened", "failed"}
    BY <1>2 DEF OpenFails, Load, AllocationFails, LoadInv
  <2>2. loadState' = "opened" => \A l \in DOMAIN file.sections : ~Made(l)'
    <3>1. loadState' = "opened" => header = 1
      BY <1>2 DEF OpenFails, Load, AllocationFails, LoadInv
    <3> QED
      BY <1>1, <3>1, SectionsType DEF Made
  <2>3. DOMAIN memories' = {} /\ memories' \in Seq(Segment)
    BY <2>1
  <2>4. OneForEach'
    BY <1>1, <2>1, <2>2, <2>3 DEF OneForEach
  <2> QED
    BY <1>1, <2>1, <2>3, <2>4 DEF LoadInv
<1>3. CASE MemoriesCreated
  <2>1. /\ loadState = "opened" /\ loadState' = "loaded" /\ memories' = memories
        /\ header \notin DOMAIN file.sections
    BY <1>3 DEF MemoriesCreated
  <2>2. \A l : Made(l)' <=> Made(l)
    BY <1>1 DEF Made
  <2>3. OneForEach'
    BY <1>1, <2>1, <2>2 DEF LoadInv, OneForEach
  <2> QED
    BY <1>1, <2>1, <2>3 DEF LoadInv
<1> QED
  BY <1>2, <1>3

----------------------------------------------------------------------------
(* The bus finds the memory made for the section an address is in.           *)

(* No memory but the one that contains an address is found. *)
LEMMA FoundAt ==
  ASSUME LoadInv, NEW addr \in Nat, NEW k \in DOMAIN memories,
         MemoryContains(memories[k], addr)
  PROVE  Holders(memories, addr) = {k} /\ FindClient(memories, addr) = k
<1>1. Holders(memories, addr) = {k}
  BY DEF LoadInv, OneForEach, Holders
<1>2. k \in Nat
  BY DEF LoadInv
<1>3. Min({k}) = k
  BY <1>2 DEF Min
<1> QED
  BY <1>1, <1>3 DEF FindClient

(* After loading every section has its memory, which is found for each of its *)
(* addresses. *)
LEMMA OwnerOf ==
  ASSUME LoadInv, loadState = "loaded", NEW l \in DOMAIN file.sections, file.sections[l].alloc,
         NEW addr \in Extent(file.sections[l])
  PROVE  \E k \in DOMAIN memories :
           /\ MadeFor(memories[k], file.sections[l])
           /\ Holders(memories, addr) = {k} /\ FindClient(memories, addr) = k
<1>1. /\ file \in Files /\ header \in Nat \ {0} /\ header \notin DOMAIN file.sections
  BY DEF LoadInv
<1>2. /\ Len(file.sections) \in Nat /\ DOMAIN file.sections = 1 .. Len(file.sections)
      /\ file.sections[l].addr \in Nat /\ file.sections[l].size \in Nat
  BY <1>1, SectionsType
<1>3. l < header
  BY <1>1, <1>2
<1>4. PICK k \in DOMAIN memories : MadeFor(memories[k], file.sections[l])
  BY <1>3 DEF LoadInv, OneForEach, Made
<1>5. addr \in Nat
  BY <1>2 DEF Extent
<1>6. MemoryContains(memories[k], addr)
  BY <1>2, <1>4, <1>5, ContainsExtent
<1> QED
  BY <1>4, <1>5, <1>6, FoundAt

(* What the bus finds is the memory of a section that has the address. *)
LEMMA HeldBySection ==
  ASSUME LoadInv, NEW addr \in Nat, Holders(memories, addr) # {}
  PROVE  \E k \in DOMAIN memories : \E l \in DOMAIN file.sections :
           /\ file.sections[l].alloc /\ MadeFor(memories[k], file.sections[l])
           /\ loadState # "loaded" => memories[k].data = SegmentData(file.sections[l])
           /\ addr \in Extent(file.sections[l]) /\ FindClient(memories, addr) = k
<1>1. PICK k \in DOMAIN memories : MemoryContains(memories[k], addr)
  BY DEF Holders
<1>2. PICK l \in DOMAIN file.sections :
        /\ Made(l) /\ MadeFor(memories[k], file.sections[l])
        /\ loadState # "loaded" => memories[k].data = SegmentData(file.sections[l])
  BY DEF LoadInv, OneForEach
<1>3. file \in Files
  BY DEF LoadInv
<1>4. addr \in Extent(file.sections[l])
  BY <1>1, <1>2, <1>3, ContainsExtent, SectionsType
<1> QED
  BY <1>1, <1>2, <1>4, FoundAt DEF Made

(* A section of the file is the only one that has an address. *)
LEMMA OneSectionAt ==
  ASSUME file \in Files, NEW k \in DOMAIN file.sections, NEW l \in DOMAIN file.sections,
         file.sections[k].alloc, file.sections[l].alloc,
         NEW addr, addr \in Extent(file.sections[k]), addr \in Extent(file.sections[l])
  PROVE  k = l
  BY SectionsType

(* The addresses of the program are those the bus finds a memory for. *)
LEMMA ImageIsHeld ==
  ASSUME LoadInv, loadState = "loaded", NEW addr \in Nat
  PROVE  addr \in ImageAddresses <=> Holders(memories, addr) # {}
<1>1. ASSUME addr \in ImageAddresses PROVE Holders(memories, addr) # {}
  <2>1. PICK l \in DOMAIN file.sections :
          file.sections[l].alloc /\ addr \in Extent(file.sections[l])
    BY <1>1 DEF ImageAddresses, Allocated
  <2> QED
    BY <2>1, OwnerOf
<1>2. ASSUME Holders(memories, addr) # {} PROVE addr \in ImageAddresses
  BY <1>2, HeldBySection DEF ImageAddresses, Allocated
<1> QED
  BY <1>1, <1>2

----------------------------------------------------------------------------
(* An access.                                                                *)

(* What an access does to the loader's state: nothing but bytes. *)
LEMMA AccessKeeps ==
  ASSUME LoadInv, loadState = "loaded", UNCHANGED <<file, loadState, header>>,
         DOMAIN memories' = DOMAIN memories,
         \A k \in DOMAIN memories :
           /\ memories'[k] = [memories[k] EXCEPT !.data = memories'[k].data]
           /\ DOMAIN memories'[k].data = DOMAIN memories[k].data
  PROVE  /\ LoadInv'
         /\ \A addr : /\ Holders(memories', addr) = Holders(memories, addr)
                      /\ FindClient(memories', addr) = FindClient(memories, addr)
<1>1. \A k \in DOMAIN memories : \E l \in DOMAIN file.sections :
        Made(l) /\ MadeFor(memories[k], file.sections[l])
  BY DEF LoadInv, OneForEach
<1>2. \A k \in DOMAIN memories : \A h :
        MadeFor(memories[k], h) => MadeFor(memories'[k], h)
  BY DEF MadeFor
<1>3. \A k \in DOMAIN memories :
        memories'[k].base = memories[k].base /\ memories'[k].size = memories[k].size
  BY <1>1, <1>2 DEF MadeFor
<1>4. \A k \in DOMAIN memories : \A addr :
        MemoryContains(memories'[k], addr) <=> MemoryContains(memories[k], addr)
  BY <1>3 DEF MemoryContains
<1>5. \A addr : Holders(memories', addr) = Holders(memories, addr)
  BY <1>4 DEF Holders
<1>6. \A l : Made(l)' <=> Made(l)
  BY DEF Made
<1>7. OneForEach'
  <2>1. \A l \in DOMAIN file.sections : Made(l) =>
          \E k \in DOMAIN memories : MadeFor(memories[k], file.sections[l])
    BY DEF LoadInv, OneForEach
  <2>2. \A j, k \in DOMAIN memories : \A addr \in Nat :
          MemoryContains(memories[j], addr) /\ MemoryContains(memories[k], addr) => j = k
    BY DEF LoadInv, OneForEach
  <2> QED
    BY <1>1, <1>2, <1>4, <1>6, <2>1, <2>2 DEF OneForEach
<1> QED
  BY <1>5, <1>7 DEF LoadInv, FindClient

(* Memory::writeData changes the bytes it is told to and no others. *)
LEMMA WriteIsLocal ==
  ASSUME LoadInv, NEW k \in DOMAIN memories, NEW h, MadeFor(memories[k], h), h.size \in Nat,
         NEW offset \in Nat, NEW size \in Nat, offset + size <= h.size, NEW value,
         memories' = SegmentWrite(k, offset, size, value)
  PROVE  /\ DOMAIN memories' = DOMAIN memories
         /\ \A j \in DOMAIN memories :
              /\ memories'[j] = [memories[j] EXCEPT !.data = memories'[j].data]
              /\ DOMAIN memories'[j].data = DOMAIN memories[j].data
              /\ j # k => memories'[j] = memories[j]
         /\ memories'[k].data = [i \in 0 .. h.size - 1 |->
              IF offset <= i /\ i < offset + size
                THEN (value \div Pow[i - offset]) % ByteSize
                ELSE memories[k].data[i]]
<1> DEFINE written == offset .. offset + size - 1
           data == [i \in DOMAIN memories[k].data \cup written |->
                      IF i \in written THEN (value \div Pow[i - offset]) % ByteSize
                      ELSE memories[k].data[i]]
<1>1. memories' = [memories EXCEPT ![k].data = data]
  BY DEF SegmentWrite
<1>2. DOMAIN memories[k].data = 0 .. h.size - 1
  BY DEF MadeFor
<1>3. written \subseteq 0 .. h.size - 1
  OBVIOUS
<1>4. DOMAIN data = 0 .. h.size - 1
  BY <1>2, <1>3
<1>5. data = [i \in 0 .. h.size - 1 |->
        IF offset <= i /\ i < offset + size
          THEN (value \div Pow[i - offset]) % ByteSize
          ELSE memories[k].data[i]]
  <2>1. DOMAIN memories[k].data \cup written = 0 .. h.size - 1
    BY <1>2, <1>3
  <2>2. \A i \in 0 .. h.size - 1 : i \in written <=> offset <= i /\ i < offset + size
    OBVIOUS
  <2> HIDE DEF written
  <2> QED
    BY <2>1, <2>2
<1> HIDE DEF data
<1>6. \A j \in DOMAIN memories : \E g :
        memories[j] = [base |-> g.addr, size |-> g.size, mayWrite |-> g.write,
                       data |-> memories[j].data]
  BY DEF LoadInv, OneForEach, MadeFor
<1>7. /\ DOMAIN memories' = DOMAIN memories
      /\ \A j \in DOMAIN memories : j # k => memories'[j] = memories[j]
      /\ memories'[k] = [memories[k] EXCEPT !.data = data]
  BY <1>1
<1>8. memories'[k].data = data
  BY <1>6, <1>7
<1>9. \A j \in DOMAIN memories :
        j # k => memories[j] = [memories[j] EXCEPT !.data = memories[j].data]
  BY <1>6
<1> QED
  BY <1>2, <1>4, <1>5, <1>7, <1>8, <1>9

(* The operators of module FlatMemory are those of the bus. *)
LEMMA FlatWords ==
  /\ \A b, size : Flat!LittleEndian(b, size) = LittleEndian(b, size)
  /\ \A raw, size, signExtend : Flat!Extend(raw, size, signExtend) = Extend(raw, size, signExtend)
  /\ Flat!Pow = Pow
  /\ \A v : Flat!LowestByte(v) = LowestByte(v)
  /\ \A v : Flat!Value(v) = Value(v)
  /\ Flat!Done = Done /\ Flat!Refused = Refused /\ Flat!NoRequest = NoRequest
  /\ Flat!Byte = Byte
<1>1. /\ Flat!Pow = Pow
      /\ \A v : Flat!LowestByte(v) = LowestByte(v)
      /\ \A v : Flat!Value(v) = Value(v)
      /\ Flat!Done = Done /\ Flat!Refused = Refused /\ Flat!Byte = Byte
  BY DEF Flat!Pow, Pow, Flat!LowestByte, LowestByte, Flat!Value, Value, Flat!Done, Done,
         Flat!Refused, Refused, Flat!Byte, Byte
<1>2. Flat!NoRequest = NoRequest
  BY DEF Flat!NoRequest, NoRequest, Flat!Request, Request
<1>3. \A raw, size, signExtend : Flat!Extend(raw, size, signExtend) = Extend(raw, size, signExtend)
  BY <1>1 DEF Flat!Extend, Extend
<1>4. \A b, size : Flat!LittleEndian(b, size) = LittleEndian(b, size)
  BY <1>1 DEF Flat!LittleEndian, LittleEndian
<1> QED
  BY <1>1, <1>2, <1>3, <1>4

(* Who serves an access. *)
LEMMA BusOutcome ==
  ASSUME NEW addr \in Nat, NEW size, NEW write
  PROVE  LET held == Holders(memories, addr) # {}
             fits == CanAccess(memories[FindClient(memories, addr)], addr, size, write)
             outcome == BusAccess(memories, addr, size, write)
         IN  /\ outcome = "memory" <=> held /\ fits
             /\ outcome = "serial" <=>
                  ~held /\ addr = SerialBase /\ SerialAccepts(size, write)
             /\ outcome = "sysStatus" <=>
                  ~held /\ addr = StatusBase + 8 /\ StatusAccepts(addr, size, write)
             /\ outcome \in {"memory", "serial", "sysStatus", "illegal"}
<1> DEFINE held == Holders(memories, addr) # {}
           fits == CanAccess(memories[FindClient(memories, addr)], addr, size, write)
<1>1. SerialContains(addr) <=> addr = SerialBase
  BY DEF SerialContains
<1>2. /\ StatusAccepts(addr, size, write) => addr = StatusBase + 8 /\ StatusContains(addr)
      /\ StatusContains(addr) => addr # SerialBase
  BY DevicesAssumption DEF StatusAccepts, StatusContains
<1>3. BusAccess(memories, addr, size, write) =
        IF held /\ fits THEN "memory"
        ELSE IF ~held /\ SerialContains(addr) /\ SerialAccepts(size, write) THEN "serial"
        ELSE IF /\ ~held /\ ~SerialContains(addr) /\ StatusContains(addr)
                /\ StatusAccepts(addr, size, write)
        THEN "sysStatus" ELSE "illegal"
  <2> HIDE DEF fits
  <2> QED
    BY DEF BusAccess, fits
<1> HIDE DEF held, fits
<1>4. \/ BusAccess(memories, addr, size, write) = "memory" /\ held /\ fits
      \/ BusAccess(memories, addr, size, write) = "serial" /\ ~held /\ SerialContains(addr)
         /\ SerialAccepts(size, write)
      \/ BusAccess(memories, addr, size, write) = "sysStatus" /\ ~held /\ ~SerialContains(addr)
         /\ StatusContains(addr) /\ StatusAccepts(addr, size, write)
      \/ /\ BusAccess(memories, addr, size, write) = "illegal"
         /\ ~(held /\ fits)
         /\ ~(~held /\ SerialContains(addr) /\ SerialAccepts(size, write))
         /\ ~(~held /\ ~SerialContains(addr) /\ StatusContains(addr)
              /\ StatusAccepts(addr, size, write))
  BY <1>3
<1> QED
  BY <1>1, <1>2, <1>4 DEF held, fits

(* The memory that takes an access has all its bytes, and each address of its *)
(* section is found in it. *)
LEMMA ServedByMemory ==
  ASSUME LoadInv, loadState = "loaded", NEW r \in Requests, ClientOf(r) = "memory"
  PROVE  \E k \in DOMAIN memories : \E l \in DOMAIN file.sections :
           /\ file.sections[l].alloc /\ MadeFor(memories[k], file.sections[l])
           /\ FindClient(memories, r.addr) = k
           /\ file.sections[l].addr <= r.addr
           /\ r.addr + r.size <= file.sections[l].addr + file.sections[l].size
           /\ r.write => file.sections[l].write
           /\ \A addr \in Extent(file.sections[l]) : FindClient(memories, addr) = k
<1>1. /\ r.addr \in Nat
      /\ Holders(memories, r.addr) # {}
      /\ CanAccess(memories[FindClient(memories, r.addr)], r.addr, r.size, r.write)
  BY RequestsAssumption, BusOutcome DEF ClientOf
<1>2. PICK k \in DOMAIN memories : \E l \in DOMAIN file.sections :
        /\ file.sections[l].alloc /\ MadeFor(memories[k], file.sections[l])
        /\ r.addr \in Extent(file.sections[l]) /\ FindClient(memories, r.addr) = k
  BY <1>1, HeldBySection
<1>3. PICK l \in DOMAIN file.sections :
        /\ file.sections[l].alloc /\ MadeFor(memories[k], file.sections[l])
        /\ r.addr \in Extent(file.sections[l])
  BY <1>2
<1>4. /\ memories[k].base = file.sections[l].addr /\ memories[k].size = file.sections[l].size
      /\ memories[k].mayWrite = file.sections[l].write
  BY <1>3 DEF MadeFor
<1>5. /\ file.sections[l].addr <= r.addr
      /\ r.addr + r.size <= file.sections[l].addr + file.sections[l].size
      /\ r.write => file.sections[l].write
  BY <1>1, <1>2, <1>4 DEF CanAccess
<1>6. /\ file \in Files
      /\ file.sections[l].addr \in Nat /\ file.sections[l].size \in Nat
  BY SectionsType DEF LoadInv
<1>7. ASSUME NEW addr \in Extent(file.sections[l]) PROVE FindClient(memories, addr) = k
  <2>1. addr \in Nat
    BY <1>6 DEF Extent
  <2>2. MemoryContains(memories[k], addr)
    BY <1>3, <1>6, <2>1, ContainsExtent
  <2> QED
    BY <2>1, <2>2, FoundAt
<1> QED
  BY <1>2, <1>3, <1>5, <1>7

(* The array of bytes, seen through the memory of a section. *)
LEMMA BytesOf ==
  ASSUME LoadInv, loadState = "loaded", NEW l \in DOMAIN file.sections,
         file.sections[l].alloc, NEW k \in DOMAIN memories, MadeFor(memories[k], file.sections[l]),
         \A addr \in Extent(file.sections[l]) : FindClient(memories, addr) = k
  PROVE  \A addr \in Extent(file.sections[l]) :
           /\ addr \in ImageAddresses
           /\ FlatBytes[addr] = memories[k].data[addr - file.sections[l].addr]
<1> SUFFICES ASSUME NEW addr \in Extent(file.sections[l])
             PROVE  /\ addr \in ImageAddresses
                    /\ FlatBytes[addr] = memories[k].data[addr - file.sections[l].addr]
  OBVIOUS
<1>1. addr \in ImageAddresses
  BY DEF ImageAddresses, Allocated
<1>2. memories[k].base = file.sections[l].addr
  BY DEF MadeFor
<1> QED
  BY <1>1, <1>2 DEF FlatBytes, FlatByte

(* The abstract memory takes the same accesses, each as the bus does. *)
LEMMA SameOutcome ==
  ASSUME LoadInv, loadState = "loaded", NEW r \in Requests
  PROVE  /\ Flat!Within(r) /\ Flat!Permitted(r) <=> ClientOf(r) = "memory"
         /\ Flat!ForSerial(r) <=> ClientOf(r) = "serial"
         /\ Flat!ForStatus(r) <=> ClientOf(r) = "sysStatus"
         /\ ClientOf(r) \in {"memory", "serial", "sysStatus", "illegal"}
<1> DEFINE held == Holders(memories, r.addr) # {}
           fits == CanAccess(memories[FindClient(memories, r.addr)], r.addr, r.size, r.write)
<1>1. r.addr \in Nat /\ r.size \in {1, 2, 4, 8} /\ r.write \in BOOLEAN /\ file \in Files
  BY RequestsAssumption DEF LoadInv
<1>2. /\ ClientOf(r) = "memory" <=> held /\ fits
      /\ ClientOf(r) = "serial" <=> ~held /\ r.addr = SerialBase /\ SerialAccepts(r.size, r.write)
      /\ ClientOf(r) = "sysStatus" <=>
           ~held /\ r.addr = StatusBase + 8 /\ StatusAccepts(r.addr, r.size, r.write)
      /\ ClientOf(r) \in {"memory", "serial", "sysStatus", "illegal"}
  BY <1>1, BusOutcome DEF ClientOf
<1>3. Flat!Owned(r) <=> held
  BY <1>1, ImageIsHeld DEF Flat!Owned, FlatBytes
<1> HIDE DEF held, fits
<1>4. Flat!ForSerial(r) <=> ClientOf(r) = "serial"
  BY <1>2, <1>3 DEF Flat!ForSerial, SerialAccepts
<1>5. Flat!ForStatus(r) <=> ClientOf(r) = "sysStatus"
  BY <1>2, <1>3 DEF Flat!ForStatus, StatusAccepts
<1>6. ASSUME ClientOf(r) = "memory" PROVE Flat!Within(r) /\ Flat!Permitted(r)
  <2>1. PICK l \in DOMAIN file.sections :
          /\ file.sections[l].alloc /\ file.sections[l].addr <= r.addr
          /\ r.addr + r.size <= file.sections[l].addr + file.sections[l].size
          /\ r.write => file.sections[l].write
    BY <1>6, ServedByMemory
  <2>2. file.sections[l].addr \in Nat /\ file.sections[l].size \in Nat
    BY <1>1, SectionsType
  <2>3. Flat!Touched(r) \subseteq Extent(file.sections[l])
    BY <1>1, <2>1, <2>2 DEF Flat!Touched, Extent
  <2>4. file.sections[l] \in Allocated
    BY <2>1 DEF Allocated
  <2> QED
    BY <2>1, <2>3, <2>4 DEF Flat!Within, Flat!Permitted, WritableAddresses
<1>7. ASSUME Flat!Within(r), Flat!Permitted(r) PROVE ClientOf(r) = "memory"
  <2>1. PICK l \in DOMAIN file.sections :
          file.sections[l].alloc /\ Flat!Touched(r) \subseteq Extent(file.sections[l])
    BY <1>7 DEF Flat!Within, Allocated
  <2>2. file.sections[l].addr \in Nat /\ file.sections[l].size \in Nat
    BY <1>1, SectionsType
  <2>3. r.addr \in Flat!Touched(r) /\ r.addr + r.size - 1 \in Flat!Touched(r)
    BY <1>1 DEF Flat!Touched
  <2>4. r.addr \in Extent(file.sections[l])
    BY <2>1, <2>3
  <2>5. /\ file.sections[l].addr <= r.addr
        /\ r.addr + r.size <= file.sections[l].addr + file.sections[l].size
    BY <1>1, <2>1, <2>2, <2>3 DEF Extent
  <2>6. r.write => file.sections[l].write
    <3> SUFFICES ASSUME r.write PROVE file.sections[l].write
      OBVIOUS
    <3>1. PICK k \in DOMAIN file.sections :
            /\ file.sections[k].alloc /\ file.sections[k].write
            /\ r.addr \in Extent(file.sections[k])
      BY <1>7, <2>3 DEF Flat!Permitted, WritableAddresses, Allocated
    <3> QED
      BY <1>1, <2>1, <2>4, <3>1, OneSectionAt
  <2>7. PICK k \in DOMAIN memories :
          /\ MadeFor(memories[k], file.sections[l])
          /\ Holders(memories, r.addr) = {k} /\ FindClient(memories, r.addr) = k
    BY <2>1, <2>4, OwnerOf
  <2>8. /\ memories[k].base = file.sections[l].addr /\ memories[k].size = file.sections[l].size
        /\ memories[k].mayWrite = file.sections[l].write
    BY <2>7 DEF MadeFor
  <2> QED
    BY <1>2, <2>5, <2>6, <2>7, <2>8 DEF held, fits, CanAccess
<1> QED
  BY <1>2, <1>4, <1>5, <1>6, <1>7

(* A read gives the bytes the abstract memory has there. *)
LEMMA ReadValue ==
  ASSUME LoadInv, loadState = "loaded", NEW r \in Requests, ClientOf(r) = "memory"
  PROVE  LET m == memories[FindClient(memories, r.addr)] IN
           SegmentValue(m, r.addr - m.base, r.size) = RawLoad(FlatBytes, r.addr, r.size)
<1>1. PICK k \in DOMAIN memories, l \in DOMAIN file.sections :
        /\ file.sections[l].alloc /\ MadeFor(memories[k], file.sections[l])
        /\ FindClient(memories, r.addr) = k
        /\ file.sections[l].addr <= r.addr
        /\ r.addr + r.size <= file.sections[l].addr + file.sections[l].size
        /\ \A addr \in Extent(file.sections[l]) : FindClient(memories, addr) = k
  BY ServedByMemory
<1> DEFINE h == file.sections[l]
           m == memories[k]
<1>2. /\ r.addr \in Nat /\ r.size \in {1, 2, 4, 8} /\ h.addr \in Nat /\ h.size \in Nat
      /\ m.base = h.addr
  BY <1>1, RequestsAssumption, SectionsType DEF LoadInv, MadeFor
<1>3. \A addr \in Extent(h) : FlatBytes[addr] = m.data[addr - h.addr]
  BY <1>1, BytesOf
<1>4. \A j \in 0 .. r.size - 1 : m.data[r.addr - m.base + j] = FlatBytes[r.addr + j]
  <2> SUFFICES ASSUME NEW j \in 0 .. r.size - 1
               PROVE  m.data[r.addr - m.base + j] = FlatBytes[r.addr + j]
    OBVIOUS
  <2> HIDE DEF h, m
  <2>1. r.addr + j \in Extent(h) /\ (r.addr + j) - h.addr = r.addr - m.base + j
    BY <1>1, <1>2 DEF Extent, h
  <2> QED
    BY <1>3, <2>1
<1>5. [j \in 0 .. r.size - 1 |-> m.data[r.addr - m.base + j]]
        = [j \in 0 .. r.size - 1 |-> FlatBytes[r.addr + j]]
  BY <1>4
<1>6. SegmentValue(m, r.addr - m.base, r.size) = RawLoad(FlatBytes, r.addr, r.size)
  BY <1>5 DEF SegmentValue, RawLoad
<1> QED
  BY <1>1, <1>6

(* A write changes the bytes the abstract memory does. *)
LEMMA WriteBytes ==
  ASSUME LoadInv, loadState = "loaded", UNCHANGED <<file, loadState, header>>,
         NEW r \in Requests, ClientOf(r) = "memory", WriteMemory(r)
  PROVE  LoadInv' /\ FlatBytes' = DataWritten(FlatBytes, r.addr, r.size, r.value)
<1>1. PICK k \in DOMAIN memories, l \in DOMAIN file.sections :
        /\ file.sections[l].alloc /\ MadeFor(memories[k], file.sections[l])
        /\ FindClient(memories, r.addr) = k
        /\ file.sections[l].addr <= r.addr
        /\ r.addr + r.size <= file.sections[l].addr + file.sections[l].size
        /\ \A addr \in Extent(file.sections[l]) : FindClient(memories, addr) = k
  BY ServedByMemory
<1> DEFINE h == file.sections[l]
           offset == r.addr - h.addr
<1>2. /\ r.addr \in Nat /\ r.size \in {1, 2, 4, 8} /\ h.addr \in Nat /\ h.size \in Nat
      /\ memories[k].base = h.addr /\ file \in Files
  BY <1>1, RequestsAssumption, SectionsType DEF LoadInv, MadeFor
<1>3. memories' = SegmentWrite(k, offset, r.size, r.value)
  BY <1>1, <1>2 DEF WriteMemory
<1>4. offset \in Nat /\ r.size \in Nat /\ offset + r.size <= h.size
  BY <1>1, <1>2
<1> HIDE DEF h, offset
<1>5. /\ DOMAIN memories' = DOMAIN memories
      /\ \A j \in DOMAIN memories :
           /\ memories'[j] = [memories[j] EXCEPT !.data = memories'[j].data]
           /\ DOMAIN memories'[j].data = DOMAIN memories[j].data
           /\ j # k => memories'[j] = memories[j]
      /\ \A i \in 0 .. h.size - 1 :
           memories'[k].data[i] =
             IF offset <= i /\ i < offset + r.size
               THEN (r.value \div Pow[i - offset]) % ByteSize
               ELSE memories[k].data[i]
  <2>1. MadeFor(memories[k], h)
    BY <1>1 DEF h
  <2>2. /\ DOMAIN memories' = DOMAIN memories
        /\ \A j \in DOMAIN memories :
             /\ memories'[j] = [memories[j] EXCEPT !.data = memories'[j].data]
             /\ DOMAIN memories'[j].data = DOMAIN memories[j].data
             /\ j # k => memories'[j] = memories[j]
        /\ memories'[k].data = [i \in 0 .. h.size - 1 |->
             IF offset <= i /\ i < offset + r.size
               THEN (r.value \div Pow[i - offset]) % ByteSize
               ELSE memories[k].data[i]]
    BY <1>2, <1>3, <1>4, <2>1, WriteIsLocal
  <2> QED
    BY <2>2
<1>6. LoadInv' /\ \A addr : FindClient(memories', addr) = FindClient(memories, addr)
  BY <1>5, AccessKeeps
<1>7. ImageAddresses' = ImageAddresses
  BY DEF ImageAddresses, Allocated
<1>8. ASSUME NEW addr \in ImageAddresses
      PROVE  FlatByte(addr)' = IF r.addr <= addr /\ addr < r.addr + r.size
                                 THEN (r.value \div Pow[addr - r.addr]) % ByteSize
                                 ELSE FlatByte(addr)
  <2>1. PICK n \in DOMAIN file.sections :
          file.sections[n].alloc /\ addr \in Extent(file.sections[n])
    BY DEF ImageAddresses, Allocated
  <2>2. PICK j \in DOMAIN memories :
          MadeFor(memories[j], file.sections[n]) /\ FindClient(memories, addr) = j
    BY <2>1, OwnerOf
  <2>3. addr \in Nat /\ file.sections[n].addr \in Nat
    BY <1>2, <2>1, SectionsType DEF Extent
  <2>4. /\ FlatByte(addr) = memories[j].data[addr - memories[j].base]
        /\ FlatByte(addr)' = memories'[j].data[addr - memories'[j].base]
    BY <1>6, <2>2 DEF FlatByte
  <2>5. memories'[j].base = memories[j].base
    BY <1>5, <2>2 DEF MadeFor
  <2>6. CASE addr \in Extent(h)
    <3>1. j = k /\ addr - memories[j].base \in 0 .. h.size - 1
      BY <1>1, <1>2, <2>2, <2>3, <2>6 DEF Extent, h
    <3>2. /\ addr - memories[j].base = addr - h.addr
          /\ offset <= addr - h.addr <=> r.addr <= addr
          /\ addr - h.addr < offset + r.size <=> addr < r.addr + r.size
          /\ (addr - h.addr) - offset = addr - r.addr
      BY <1>2, <2>3, <3>1 DEF offset
    <3> QED
      BY <1>5, <2>4, <2>5, <3>1, <3>2
  <2>7. CASE addr \notin Extent(h)
    <3>1. ~(r.addr <= addr /\ addr < r.addr + r.size)
      BY <1>1, <1>2, <2>3, <2>7 DEF Extent, h
    <3>2. j # k
      <4>1. memories[j].base = file.sections[n].addr /\ memories[j].size = file.sections[n].size
        BY <2>2 DEF MadeFor
      <4>2. memories[k].base = h.addr /\ memories[k].size = h.size
        BY <1>1 DEF MadeFor, h
      <4> QED
        BY <2>1, <2>7, <4>1, <4>2 DEF Extent
    <3> QED
      BY <1>5, <2>2, <2>4, <3>1, <3>2
  <2> QED
    BY <2>6, <2>7
<1>9. DOMAIN FlatBytes = ImageAddresses
      /\ \A addr \in ImageAddresses : FlatBytes[addr] = FlatByte(addr)
  BY DEF FlatBytes
<1>10. FlatBytes' = [addr \in ImageAddresses |-> FlatByte(addr)']
  BY <1>7 DEF FlatBytes
<1> QED
  BY <1>6, <1>8, <1>9, <1>10 DEF DataWritten

(* Every access is one of the abstract memory. *)
LEMMA AccessServed ==
  ASSUME LoadInv, NEW r \in Requests,
         ReadMemory(r) \/ WriteMemory(r) \/ WriteSerial(r) \/ WriteSysStatus(r) \/ Refuse(r)
  PROVE  LoadInv' /\ Flat!Next
<1>1. /\ loadState = "loaded" /\ request' = r
      /\ file' = file /\ loadState' = loadState /\ header' = header
  BY DEF ReadMemory, WriteMemory, WriteSerial, WriteSysStatus, Refuse, Count
<1>2. /\ {Extent(h) : h \in Allocated}' = {Extent(h) : h \in Allocated}
      /\ WritableAddresses' = WritableAddresses
  BY <1>1 DEF Allocated, WritableAddresses
<1>3. /\ Flat!Within(r) /\ Flat!Permitted(r) <=> ClientOf(r) = "memory"
      /\ Flat!ForSerial(r) <=> ClientOf(r) = "serial"
      /\ Flat!ForStatus(r) <=> ClientOf(r) = "sysStatus"
  BY <1>1, SameOutcome
<1>4. memories' = memories => LoadInv' /\ FlatBytes' = FlatBytes
  <2> SUFFICES ASSUME memories' = memories PROVE LoadInv' /\ FlatBytes' = FlatBytes
    OBVIOUS
  <2>1. \A l : Made(l)' <=> Made(l)
    BY <1>1 DEF Made
  <2>2. LoadInv'
    BY <1>1, <2>1 DEF LoadInv, OneForEach
  <2>3. ImageAddresses' = ImageAddresses /\ \A addr : FlatByte(addr)' = FlatByte(addr)
    BY <1>1 DEF ImageAddresses, Allocated, FlatByte, ImageByte, SectionAt
  <2> QED
    BY <2>2, <2>3 DEF FlatBytes
<1>5. ASSUME LoadInv', Flat!Read(r) \/ Flat!Write(r) \/ Flat!PrintByte(r) \/ Flat!Halt(r)
                       \/ Flat!Refuse(r)
      PROVE  LoadInv' /\ Flat!Next
  BY <1>1, <1>2, <1>5 DEF Flat!Next
<1>6. CASE ReadMemory(r)
  <2>1. /\ ~r.write /\ ClientOf(r) = "memory" /\ memories' = memories
        /\ printed' = printed /\ shouldHaltFlag' = shouldHaltFlag
    BY <1>6 DEF ReadMemory
  <2>2. answer' = Value(Extend(RawLoad(FlatBytes, r.addr, r.size), r.size, r.signExtend))
    BY <1>1, <1>6, <2>1, ReadValue DEF ReadMemory
  <2>3. Flat!DataOut(FlatBytes, r.addr, r.size, r.signExtend)
          = Extend(RawLoad(FlatBytes, r.addr, r.size), r.size, r.signExtend)
    BY FlatWords DEF Flat!DataOut, Flat!RawLoad, RawLoad
  <2>4. Flat!Read(r)
    BY <1>3, <1>4, <2>1, <2>2, <2>3, FlatWords DEF Flat!Read
  <2> QED
    BY <1>4, <1>5, <2>1, <2>4
<1>7. CASE WriteMemory(r)
  <2>1. /\ r.write /\ ClientOf(r) = "memory" /\ answer' = Done
        /\ printed' = printed /\ shouldHaltFlag' = shouldHaltFlag
    BY <1>7 DEF WriteMemory
  <2>2. LoadInv' /\ FlatBytes' = DataWritten(FlatBytes, r.addr, r.size, r.value)
    BY <1>1, <1>7, <2>1, WriteBytes
  <2>3. Flat!DataWritten(FlatBytes, r.addr, r.size, r.value)
          = DataWritten(FlatBytes, r.addr, r.size, r.value)
    BY FlatWords DEF Flat!DataWritten, DataWritten
  <2>4. Flat!Write(r)
    BY <1>3, <2>1, <2>2, <2>3, FlatWords DEF Flat!Write
  <2> QED
    BY <1>5, <2>2, <2>4
<1>8. CASE WriteSerial(r)
  <2>1. /\ ClientOf(r) = "serial" /\ memories' = memories /\ answer' = Done
        /\ printed' = Append(printed, LowestByte(r.value)) /\ shouldHaltFlag' = shouldHaltFlag
    BY <1>8 DEF WriteSerial
  <2>2. Flat!PrintByte(r)
    BY <1>3, <1>4, <2>1, FlatWords DEF Flat!PrintByte
  <2> QED
    BY <1>4, <1>5, <2>1, <2>2
<1>9. CASE WriteSysStatus(r)
  <2>1. /\ ClientOf(r) = "sysStatus" /\ memories' = memories /\ answer' = Done
        /\ printed' = printed /\ shouldHaltFlag' = TRUE
    BY <1>9 DEF WriteSysStatus
  <2>2. Flat!Halt(r)
    BY <1>3, <1>4, <2>1, FlatWords DEF Flat!Halt
  <2> QED
    BY <1>4, <1>5, <2>1, <2>2
<1>10. CASE Refuse(r)
  <2>1. /\ ClientOf(r) = "illegal" /\ memories' = memories /\ answer' = Refused
        /\ printed' = printed /\ shouldHaltFlag' = shouldHaltFlag
    BY <1>10 DEF Refuse
  <2>2. Flat!Refuse(r)
    BY <1>3, <1>4, <2>1, FlatWords DEF Flat!Refuse
  <2> QED
    BY <1>4, <1>5, <2>1, <2>2
<1> QED
  BY <1>6, <1>7, <1>8, <1>9, <1>10

----------------------------------------------------------------------------
(* Loading.                                                                  *)

(* What the loader puts into a memory is what the file has for its section. *)
LEMMA LoadedByte ==
  ASSUME PlainSections, file \in Files, NEW l \in DOMAIN file.sections, file.sections[l].alloc,
         NEW addr \in Extent(file.sections[l])
  PROVE  /\ SegmentData(file.sections[l])[addr - file.sections[l].addr] = ImageByte(addr)
         /\ ImageByte(addr) \in Byte
<1> DEFINE h == file.sections[l]
<1>1. /\ h.addr \in Nat /\ h.size \in Nat /\ h.type \in {"PROGBITS", "NOBITS"}
      /\ h.type # "NOBITS" => h.contents \in [0 .. h.size - 1 -> Byte]
  BY SectionsType DEF PlainSections
<1>2. SectionAt(addr) = h
  <2>1. h \in Allocated
    BY DEF Allocated
  <2>2. \A g \in Allocated : addr \in Extent(g) => g = h
    BY OneSectionAt DEF Allocated
  <2> HIDE DEF h
  <2> QED
    BY <2>1, <2>2 DEF SectionAt, h
<1>3. 0 \in Byte
  BY ByteSizeAssumption DEF Byte
<1> HIDE DEF h
<1>4. addr - h.addr \in 0 .. h.size - 1
  BY <1>1 DEF Extent, h
<1>5. SegmentData(h)[addr - h.addr]
        = IF h.type = "PROGBITS" THEN h.contents[addr - h.addr] ELSE 0
  BY <1>4 DEF SegmentData
<1> QED
  BY <1>1, <1>2, <1>3, <1>4, <1>5 DEF ImageByte, h

(* No step of the loader changes what is at an address. *)
LEMMA LoadingStutters ==
  ASSUME PlainSections, LoadInv, LoadFile PROVE LoadInv' /\ UNCHANGED Flat!vars
<1>1. /\ LoadInv' /\ file \in Files /\ file' = file
      /\ printed' = printed /\ shouldHaltFlag' = shouldHaltFlag
      /\ request' = request /\ answer' = answer
  BY CreateKeeps, LoaderKeeps DEF LoadFile, LoaderNext, CreateMemory, OpenFails, Load,
     AllocationFails, MemoriesCreated, LoadInv
<1>2. /\ {Extent(h) : h \in Allocated}' = {Extent(h) : h \in Allocated}
      /\ WritableAddresses' = WritableAddresses /\ ImageAddresses' = ImageAddresses
      /\ \A addr : ImageByte(addr)' = ImageByte(addr)
  BY <1>1 DEF Allocated, WritableAddresses, ImageAddresses, ImageByte, SectionAt
<1>3. loadState # "loaded"
  BY DEF LoadFile, LoaderNext, CreateMemory, OpenFails, Load, AllocationFails, MemoriesCreated
<1>4. ASSUME NEW addr \in ImageAddresses PROVE FlatByte(addr)' = FlatByte(addr)
  <2>1. CASE loadState' # "loaded"
    BY <1>2, <1>3, <2>1 DEF FlatByte
  <2>2. CASE loadState' = "loaded"
    <3>1. memories' = memories /\ header' = header /\ header \notin DOMAIN file.sections
          /\ loadState = "opened"
      BY <2>2 DEF LoadFile, LoaderNext, CreateMemory, OpenFails, Load, AllocationFails,
         MemoriesCreated
    <3>2. PICK l \in DOMAIN file.sections :
            file.sections[l].alloc /\ addr \in Extent(file.sections[l])
      BY DEF ImageAddresses, Allocated
    <3>3. addr \in Nat /\ file.sections[l].addr \in Nat
      BY <1>1, <3>2, SectionsType DEF Extent
    <3>4. Holders(memories, addr) # {}
      <4>1. l < header
        BY <1>1, <3>1, SectionsType DEF LoadInv
      <4>2. PICK k \in DOMAIN memories : MadeFor(memories[k], file.sections[l])
        BY <3>1, <3>2, <4>1 DEF LoadInv, OneForEach, Made
      <4> QED
        BY <1>1, <3>2, <3>3, <4>2, ContainsExtent, SectionsType DEF Holders
    <3>5. PICK k \in DOMAIN memories : \E n \in DOMAIN file.sections :
            /\ file.sections[n].alloc /\ MadeFor(memories[k], file.sections[n])
            /\ memories[k].data = SegmentData(file.sections[n])
            /\ addr \in Extent(file.sections[n]) /\ FindClient(memories, addr) = k
      BY <1>3, <3>3, <3>4, HeldBySection
    <3>6. /\ memories[k].base = file.sections[l].addr
          /\ memories[k].data = SegmentData(file.sections[l])
      <4>1. PICK n \in DOMAIN file.sections :
              /\ file.sections[n].alloc /\ MadeFor(memories[k], file.sections[n])
              /\ memories[k].data = SegmentData(file.sections[n])
              /\ addr \in Extent(file.sections[n])
        BY <3>5
      <4>2. n = l
        BY <1>1, <3>2, <4>1, OneSectionAt
      <4> QED
        BY <4>1, <4>2 DEF MadeFor
    <3>7. FlatByte(addr)' = memories[k].data[addr - memories[k].base]
      BY <2>2, <3>1, <3>5 DEF FlatByte
    <3> QED
      BY <1>1, <1>3, <3>2, <3>6, <3>7, LoadedByte DEF FlatByte
  <2> QED
    BY <2>1, <2>2
<1>5. FlatBytes' = FlatBytes
  BY <1>2, <1>4 DEF FlatBytes
<1> QED
  BY <1>1, <1>2, <1>5 DEF Flat!vars

(* A file is the first state of the memory it describes. *)
LEMMA FlatInit == ASSUME PlainSections, Init PROVE Flat!Init
<1>1. file \in Files /\ loadState = "closed"
  BY DEF Init, LoaderInit
<1>2. ImageAddresses = UNION {Extent(h) : h \in Allocated}
  BY DEF ImageAddresses
<1>3. FlatBytes \in [ImageAddresses -> Byte]
  <2>1. ASSUME NEW addr \in ImageAddresses PROVE FlatByte(addr) \in Byte
    BY <1>1, LoadedByte DEF FlatByte, ImageAddresses, Allocated
  <2> QED
    BY <2>1 DEF FlatBytes
<1>4. WritableAddresses \subseteq ImageAddresses
  BY DEF WritableAddresses, ImageAddresses
<1>5. DOMAIN FlatBytes = ImageAddresses
  BY DEF FlatBytes
<1> QED
  BY <1>2, <1>3, <1>4, <1>5, FlatWords DEF Init, Flat!Init

(* Without a step nothing changes. *)
LEMMA UnchangedKeeps == ASSUME LoadInv, UNCHANGED vars PROVE LoadInv' /\ UNCHANGED Flat!vars
<1>1. /\ file' = file /\ loadState' = loadState /\ header' = header
      /\ memories' = memories /\ printed' = printed /\ shouldHaltFlag' = shouldHaltFlag
      /\ request' = request /\ answer' = answer
  BY DEF vars
<1>2. LoadInv'
  BY <1>1 DEF LoadInv, OneForEach, Made
<1>3. UNCHANGED Flat!vars
  BY <1>1 DEF Flat!vars, FlatBytes, FlatByte, ImageAddresses, ImageByte, SectionAt,
     Allocated, WritableAddresses
<1> QED
  BY <1>2, <1>3

(* Loader and bus together behave like one array of bytes with two devices   *)
(* beside it: no sequence of accesses tells one from the other. *)
THEOREM ServesFlatMemory == ASSUME PlainSections PROVE Spec => ImplementsFlatMemory
<1>1. Init => LoadInv /\ Flat!Init
  BY InitLoad, FlatInit
<1>2. LoadInv /\ [Next]_vars => LoadInv' /\ [Flat!Next]_(Flat!vars)
  <2> SUFFICES ASSUME LoadInv, [Next]_vars PROVE LoadInv' /\ [Flat!Next]_(Flat!vars)
    OBVIOUS
  <2>1. CASE LoadFile
    BY <2>1, LoadingStutters
  <2>2. ASSUME NEW r \in Requests,
               ReadMemory(r) \/ WriteMemory(r) \/ WriteSerial(r) \/ WriteSysStatus(r) \/ Refuse(r)
        PROVE  LoadInv' /\ Flat!Next
    BY <2>2, AccessServed
  <2>3. CASE UNCHANGED vars
    BY <2>3, UnchangedKeeps
  <2> QED
    BY <2>1, <2>2, <2>3 DEF Next
<1> QED
  BY <1>1, <1>2, PTL DEF Spec, ImplementsFlatMemory, Flat!Spec

----------------------------------------------------------------------------
(* Types.                                                                    *)

(* The array of a memory has a byte for each address of its section. *)
DataType == \A k \in DOMAIN memories : memories[k].data \in [0 .. memories[k].size - 1 -> Byte]

(* What was moved so far fits the number of accesses. *)
Statistics ==
  /\ accesses \in 0 .. MaxAccesses
  /\ bytesRead \in Nat /\ bytesWritten \in Nat
  /\ bytesRead + bytesWritten \in accesses .. 8 * accesses

Answers == {Value(v) : v \in 0 .. Pow[8] - 1} \cup {Done, Refused}

TypeInv ==
  /\ LoadInv
  /\ loadState \in LoadState
  /\ DataType
  /\ printed \in Seq(Byte)
  /\ shouldHaltFlag \in BOOLEAN
  /\ Statistics
  /\ answer \in Answers

(* A file that is not opened has no memories. *)
LEMMA TypeInvInit == Init => TypeInv
<1> SUFFICES ASSUME Init PROVE TypeInv
  OBVIOUS
<1>1. LoadInv
  BY InitLoad
<1>2. loadState \in LoadState /\ DataType
  BY DEF Init, LoaderInit, LoadState, DataType
<1>3. printed \in Seq(Byte) /\ shouldHaltFlag \in BOOLEAN /\ answer \in Answers
  <2>1. printed = <<>> /\ shouldHaltFlag = FALSE /\ answer = Done
    BY DEF Init
  <2>2. printed \in Seq(Byte)
    BY <2>1
  <2>3. answer \in Answers
    BY <2>1 DEF Answers
  <2> QED
    BY <2>1, <2>2, <2>3
<1>4. Statistics
  BY BoundAssumption DEF Init, Statistics
<1> QED
  BY <1>1, <1>2, <1>3, <1>4 DEF TypeInv

(* The loader fills the arrays with bytes. *)
LEMMA LoadingTyped == ASSUME TypeInv, LoadFile PROVE TypeInv'
<1>1. /\ LoadInv /\ LoadInv' /\ file \in Files /\ file' = file /\ loadState # "loaded"
      /\ loadState' \in LoadState
      /\ loadState' = "loaded" => memories' = memories
  BY CreateKeeps, LoaderKeeps DEF TypeInv, LoadFile, LoaderNext, CreateMemory, OpenFails, Load,
     AllocationFails, MemoriesCreated, LoadInv, LoadState
<1>2. ASSUME NEW m, NEW l \in DOMAIN file.sections, MadeFor(m, file.sections[l]),
             m.data = SegmentData(file.sections[l])
      PROVE  m.data \in [0 .. m.size - 1 -> Byte]
  <2>1. m.size = file.sections[l].size
    BY <1>2 DEF MadeFor
  <2> QED
    BY <1>1, <1>2, <2>1, SegmentDataType
<1>3. DataType'
  <2>1. CASE loadState' = "loaded"
    BY <1>1, <2>1 DEF TypeInv, DataType
  <2>2. CASE loadState' # "loaded"
    <3>1. \A k \in DOMAIN memories' : \E l \in DOMAIN file.sections :
            /\ MadeFor(memories'[k], file.sections[l])
            /\ memories'[k].data = SegmentData(file.sections[l])
      BY <1>1, <2>2 DEF LoadInv, OneForEach
    <3> QED
      BY <1>2, <3>1 DEF DataType
  <2> QED
    BY <2>1, <2>2
<1> QED
  BY <1>1, <1>3 DEF TypeInv, LoadFile, Statistics, Answers

(* What a memory answers fits a register. *)
LEMMA AnswerFits ==
  ASSUME LoadInv, DataType, loadState = "loaded", NEW r \in Requests, ClientOf(r) = "memory"
  PROVE  LET m == memories[FindClient(memories, r.addr)] IN
           Extend(SegmentValue(m, r.addr - m.base, r.size), r.size, r.signExtend)
             \in 0 .. Pow[8] - 1
<1>1. PICK k \in DOMAIN memories, l \in DOMAIN file.sections :
        /\ MadeFor(memories[k], file.sections[l]) /\ FindClient(memories, r.addr) = k
        /\ file.sections[l].addr <= r.addr
        /\ r.addr + r.size <= file.sections[l].addr + file.sections[l].size
  BY ServedByMemory
<1> DEFINE m == memories[k]
           offset == r.addr - m.base
           b == [j \in 0 .. r.size - 1 |-> m.data[offset + j]]
<1>2. /\ m.base = file.sections[l].addr /\ m.size = file.sections[l].size
      /\ m.base \in Nat /\ m.size \in Nat
  BY <1>1, SectionsType DEF MadeFor, LoadInv
<1>3. /\ r.addr \in Nat /\ r.size \in {1, 2, 4, 8} /\ r.signExtend \in BOOLEAN
  BY RequestsAssumption
<1>4. m.data \in [0 .. m.size - 1 -> Byte]
  BY DEF DataType
<1>5. offset \in Nat /\ offset + r.size <= m.size
  <2> HIDE DEF m
  <2> QED
    BY <1>1, <1>2, <1>3
<1>6. b \in [0 .. r.size - 1 -> Byte]
  <2> HIDE DEF m, offset
  <2>1. \A j \in 0 .. r.size - 1 : offset + j \in 0 .. m.size - 1
    BY <1>2, <1>3, <1>5
  <2> QED
    BY <1>4, <2>1
<1>7. SegmentValue(m, offset, r.size) = LittleEndian(b, r.size)
  BY DEF SegmentValue
<1> HIDE DEF b
<1>8. SegmentValue(m, offset, r.size) \in 0 .. Pow[r.size] - 1 /\ r.size \in 0 .. 8
  <2>1. r.size \in 0 .. 8
    BY <1>3
  <2>2. LittleEndian(b, r.size) \in 0 .. Pow[r.size] - 1
    BY <1>6, <2>1, LittleEndianType
  <2> QED
    BY <1>7, <2>1, <2>2
<1>9. Extend(SegmentValue(m, offset, r.size), r.size, r.signExtend) \in 0 .. Pow[8] - 1
  BY <1>3, <1>8, ExtendType
<1> QED
  BY <1>1, <1>9

(* The bytes of a value go into the array they belong to. *)
LEMMA WriteTyped ==
  ASSUME LoadInv, DataType, loadState = "loaded", NEW r \in Requests, WriteMemory(r)
  PROVE  DataType'
<1>1. ClientOf(r) = "memory"
  BY DEF WriteMemory
<1>2. PICK k \in DOMAIN memories, l \in DOMAIN file.sections :
        /\ MadeFor(memories[k], file.sections[l]) /\ FindClient(memories, r.addr) = k
        /\ file.sections[l].addr <= r.addr
        /\ r.addr + r.size <= file.sections[l].addr + file.sections[l].size
  BY <1>1, ServedByMemory
<1> DEFINE h == file.sections[l]
           offset == r.addr - h.addr
<1>3. /\ r.addr \in Nat /\ r.size \in {1, 2, 4, 8} /\ r.value \in Nat
      /\ h.addr \in Nat /\ h.size \in Nat
      /\ memories[k].base = h.addr /\ memories[k].size = h.size
  BY <1>2, RequestsAssumption, SectionsType DEF LoadInv, MadeFor
<1>4. memories' = SegmentWrite(k, offset, r.size, r.value)
  BY <1>2, <1>3 DEF WriteMemory
<1>5. MadeFor(memories[k], h)
  BY <1>2
<1> HIDE DEF h
<1>6. offset \in Nat /\ r.size \in Nat /\ offset + r.size <= h.size
  BY <1>2, <1>3 DEF h
<1> HIDE DEF offset
<1>7. /\ DOMAIN memories' = DOMAIN memories
      /\ \A j \in DOMAIN memories :
           /\ memories'[j] = [memories[j] EXCEPT !.data = memories'[j].data]
           /\ j # k => memories'[j] = memories[j]
      /\ memories'[k].data = [i \in 0 .. h.size - 1 |->
           IF offset <= i /\ i < offset + r.size
             THEN (r.value \div Pow[i - offset]) % ByteSize
             ELSE memories[k].data[i]]
  BY <1>3, <1>4, <1>5, <1>6, WriteIsLocal
<1>8. \A i \in 0 .. h.size - 1 :
        offset <= i /\ i < offset + r.size => (r.value \div Pow[i - offset]) % ByteSize \in Byte
  <2> SUFFICES ASSUME NEW i \in 0 .. h.size - 1, offset <= i, i < offset + r.size
               PROVE  (r.value \div Pow[i - offset]) % ByteSize \in Byte
    OBVIOUS
  <2>1. i - offset \in 0 .. 8
    BY <1>3, <1>6
  <2>2. Pow[i - offset] \in Nat \ {0}
    BY <2>1, PowersType
  <2>3. r.value \div Pow[i - offset] \in Nat
    BY <1>3, <2>2
  <2> DEFINE x == r.value \div Pow[i - offset]
  <2>4. x \in Nat
    BY <2>3
  <2> HIDE DEF x
  <2>5. x % ByteSize \in Byte
    BY <2>4, ByteSizeAssumption DEF Byte
  <2> QED
    BY <2>5 DEF x
<1>9. memories[k].data \in [0 .. h.size - 1 -> Byte]
  BY <1>3 DEF DataType
<1>10. memories'[k].data \in [0 .. h.size - 1 -> Byte]
  <2> DEFINE written(i) == (r.value \div Pow[i - offset]) % ByteSize
             Inside(i) == offset <= i /\ i < offset + r.size
  <2>1. memories'[k].data =
          [i \in 0 .. h.size - 1 |-> IF Inside(i) THEN written(i) ELSE memories[k].data[i]]
    BY <1>7
  <2>2. \A i \in 0 .. h.size - 1 : Inside(i) => written(i) \in Byte
    BY <1>8
  <2> HIDE DEF written, Inside
  <2> QED
    BY <1>9, <2>1, <2>2
<1>11. memories'[k].size = h.size
  <2>1. memories'[k].size = memories[k].size
    BY <1>5, <1>7 DEF MadeFor
  <2> QED
    BY <1>3, <2>1
<1> QED
  BY <1>7, <1>10, <1>11 DEF DataType

(* Every access moves between one and eight bytes, and each keeps the types. *)
LEMMA AccessTyped ==
  ASSUME TypeInv, NEW r \in Requests,
         ReadMemory(r) \/ WriteMemory(r) \/ WriteSerial(r) \/ WriteSysStatus(r) \/ Refuse(r)
  PROVE  TypeInv'
<1>1. LoadInv /\ LoadInv' /\ Count(r)
  BY AccessServed DEF TypeInv, ReadMemory, WriteMemory, WriteSerial, WriteSysStatus, Refuse
<1>2. r.size \in {1, 2, 4, 8} /\ r.value \in Nat
  BY RequestsAssumption
<1>3. Statistics'
  <2>1. Statistics /\ accesses < MaxAccesses /\ accesses' = accesses + 1
    BY <1>1 DEF TypeInv, Count
  <2>2. /\ bytesRead' \in Nat /\ bytesWritten' \in Nat
        /\ bytesRead' + bytesWritten' = bytesRead + bytesWritten + r.size
    <3>1. CASE r.write
      BY <1>1, <1>2, <2>1, <3>1 DEF Count, Statistics
    <3>2. CASE ~r.write
      BY <1>1, <1>2, <2>1, <3>2 DEF Count, Statistics
    <3> QED
      BY <3>1, <3>2
  <2>3. accesses' \in 0 .. MaxAccesses
    BY <2>1, BoundAssumption DEF Statistics
  <2>4. bytesRead' + bytesWritten' \in accesses' .. 8 * accesses'
    <3>1. /\ accesses \in Nat /\ bytesRead + bytesWritten \in Nat
          /\ accesses <= bytesRead + bytesWritten /\ bytesRead + bytesWritten <= 8 * accesses
      BY <2>1, BoundAssumption DEF Statistics
    <3>2. /\ r.size \in Nat /\ 1 <= r.size /\ r.size <= 8
      BY <1>2
    <3>3. accesses + 1 <= bytesRead + bytesWritten + r.size
      BY <2>1, <3>1, <3>2 DEF Statistics
    <3>4. bytesRead + bytesWritten + r.size <= 8 * (accesses + 1)
      BY <2>1, <3>1, <3>2 DEF Statistics
    <3>5. bytesRead + bytesWritten + r.size \in (accesses + 1) .. 8 * (accesses + 1)
      BY <3>1, <3>2, <3>3, <3>4
    <3> QED
      BY <2>1, <2>2, <3>5
  <2> QED
    BY <2>2, <2>3, <2>4 DEF Statistics
<1>4. loadState = "loaded" /\ loadState' \in LoadState
  BY <1>1 DEF Count, TypeInv
<1>5. LowestByte(r.value) \in Byte
  BY <1>2, ByteSizeAssumption DEF LowestByte, Byte
<1>6. DataType' /\ printed' \in Seq(Byte) /\ shouldHaltFlag' \in BOOLEAN /\ answer' \in Answers
  <2>1. CASE ReadMemory(r)
    <3>1. /\ memories' = memories /\ printed' = printed /\ shouldHaltFlag' = shouldHaltFlag
          /\ ClientOf(r) = "memory"
      BY <2>1 DEF ReadMemory
    <3>2. answer' \in Answers
      BY <1>1, <1>4, <2>1, <3>1, AnswerFits DEF ReadMemory, TypeInv, Answers
    <3> QED
      BY <3>1, <3>2 DEF TypeInv, DataType
  <2>2. CASE WriteMemory(r)
    <3>1. DataType'
      BY <1>4, <2>2, WriteTyped DEF TypeInv
    <3> QED
      BY <2>2, <3>1 DEF WriteMemory, TypeInv, Answers
  <2>3. CASE WriteSerial(r)
    BY <1>5, <2>3 DEF WriteSerial, TypeInv, DataType, Answers
  <2>4. CASE WriteSysStatus(r)
    BY <2>4 DEF WriteSysStatus, TypeInv, DataType, Answers
  <2>5. CASE Refuse(r)
    BY <2>5 DEF Refuse, TypeInv, DataType, Answers
  <2> QED
    BY <2>1, <2>2, <2>3, <2>4, <2>5
<1> QED
  BY <1>1, <1>3, <1>4, <1>6 DEF TypeInv, Answers

(* Nothing is written outside a segment and nothing but bytes into it, what   *)
(* is read fits a register, and the statistics count between one and eight    *)
(* bytes for each access: for every file, size of a byte and sequence of      *)
(* accesses. *)
THEOREM TypeCorrect == Spec => []TypeOK
<1>1. Init => TypeInv
  BY TypeInvInit
<1>2. TypeInv /\ [Next]_vars => TypeInv'
  <2> SUFFICES ASSUME TypeInv, [Next]_vars PROVE TypeInv'
    OBVIOUS
  <2>1. CASE LoadFile
    BY <2>1, LoadingTyped
  <2>2. ASSUME NEW r \in Requests,
               ReadMemory(r) \/ WriteMemory(r) \/ WriteSerial(r) \/ WriteSysStatus(r) \/ Refuse(r)
        PROVE  TypeInv'
    BY <2>2, AccessTyped
  <2>3. CASE UNCHANGED vars
    <3>1. LoadInv'
      BY <2>3, UnchangedKeeps DEF TypeInv
    <3> QED
      BY <2>3, <3>1 DEF vars, TypeInv, DataType, Statistics, Answers
  <2> QED
    BY <2>1, <2>2, <2>3 DEF Next
<1>3. TypeInv => TypeOK
  BY DEF TypeInv, LoadInv, DataType, Statistics, Answers, TypeOK
<1> QED
  BY <1>1, <1>2, <1>3, PTL DEF Spec

----------------------------------------------------------------------------
(* What is disassembled.                                                     *)

(* Code is in the file: there is no executable section without bits. *)
CodeHasContents ==
  \A f \in Files : \A k \in DOMAIN f.sections :
    f.sections[k].alloc /\ f.sections[k].exec => f.sections[k].type = "PROGBITS"

(* What the program may not write is as the file has it. *)
ReadOnlyKept ==
  \A addr \in ImageAddresses \ WritableAddresses : FlatByte(addr) = ImageByte(addr)

(* A bounded set of numbers has a greatest one. *)
LEMMA GreatestNumber ==
  ASSUME NEW n \in Nat, NEW S \in SUBSET (1 .. n), S # {}
  PROVE  \E k \in S : \A l \in S : l <= k
<1> DEFINE T == {n - k : k \in S}
<1>1. \A k \in S : k \in Int /\ k <= n /\ n - k \in Nat
  OBVIOUS
<1>2. PICK m \in T : \A l \in T : m <= l
  <2>1. T \in SUBSET Nat /\ T # {}
    BY <1>1
  <2> HIDE DEF T
  <2> QED
    BY <2>1, LeastNumber
<1>3. PICK k \in S : m = n - k
  BY <1>2
<1>4. ASSUME NEW l \in S PROVE l <= k
  <2>1. n - l \in T
    OBVIOUS
  <2>2. n - k <= n - l
    BY <1>2, <1>3, <2>1
  <2> QED
    BY <1>1, <2>2
<1> QED
  BY <1>4

(* The text segment is an executable section of the file. *)
LEMMA TextIsSection ==
  ASSUME file \in Files, TextFound
  PROVE  \E l \in DOMAIN file.sections :
           /\ file.sections[l].alloc /\ file.sections[l].exec
           /\ TextSegment = file.sections[l]
<1>1. /\ Len(file.sections) \in Nat /\ TextSections \in SUBSET (1 .. Len(file.sections))
      /\ TextSections # {}
  BY SectionsType DEF TextFound, TextSections
<1> DEFINE last == CHOOSE k \in TextSections : \A l \in TextSections : l <= k
<1>2. last \in TextSections
  <2>1. \E k \in TextSections : \A l \in TextSections : l <= k
    BY <1>1, GreatestNumber
  <2> QED
    BY <2>1
<1>3. TextSegment = file.sections[last]
  BY DEF TextSegment
<1> QED
  BY <1>2, <1>3 DEF TextSections, IsLoaded

(* No access changes a byte that may not be written. *)
LEMMA AccessKeepsReadOnly ==
  ASSUME LoadInv, ReadOnlyKept, NEW r \in Requests,
         ReadMemory(r) \/ WriteMemory(r) \/ WriteSerial(r) \/ WriteSysStatus(r) \/ Refuse(r)
  PROVE  ReadOnlyKept'
<1>1. Flat!Next /\ file' = file /\ request' = r
  BY AccessServed DEF ReadMemory, WriteMemory, WriteSerial, WriteSysStatus, Refuse, Count
<1>2. /\ ImageAddresses' = ImageAddresses /\ WritableAddresses' = WritableAddresses
      /\ \A addr : ImageByte(addr)' = ImageByte(addr)
  BY <1>1 DEF Allocated, WritableAddresses, ImageAddresses, ImageByte, SectionAt
<1>3. DOMAIN FlatBytes = ImageAddresses
      /\ \A addr \in ImageAddresses : FlatBytes[addr] = FlatByte(addr)
  BY DEF FlatBytes
<1>4. \A addr \in ImageAddresses : FlatBytes'[addr] = FlatByte(addr)'
  BY <1>2 DEF FlatBytes
<1>5. ASSUME NEW addr \in ImageAddresses \ WritableAddresses
      PROVE  FlatBytes'[addr] = FlatBytes[addr]
  <2>1. CASE FlatBytes' = FlatBytes
    BY <2>1
  <2>2. CASE Flat!Write(r)
    <3>1. Flat!Touched(r) \subseteq WritableAddresses
      BY <2>2 DEF Flat!Write, Flat!Permitted
    <3>2. r.addr \in Nat /\ r.size \in {1, 2, 4, 8} /\ addr \in Nat
      BY RequestsAssumption, SectionsType DEF ImageAddresses, Allocated, Extent, LoadInv
    <3>3. ~(r.addr <= addr /\ addr < r.addr + r.size)
      BY <3>1, <3>2 DEF Flat!Touched
    <3> QED
      BY <1>3, <2>2, <3>3 DEF Flat!Write, Flat!DataWritten
  <2> QED
    BY <1>1, <2>1, <2>2 DEF Flat!Next, Flat!Read, Flat!PrintByte, Flat!Halt, Flat!Refuse
<1> QED
  BY <1>2, <1>3, <1>4, <1>5 DEF ReadOnlyKept

(* The text is behind the bus, as it is in the file. *)
LEMMA ReadOnlyTextIsFetched ==
  ASSUME CodeHasContents, LoadInv, ReadOnlyKept PROVE DisassembledIsFetched
<1> SUFFICES ASSUME loadState = "loaded", TextFound, ~TextSegment.write,
                    NEW addr \in Extent(TextSegment)
             PROVE  /\ BusAccess(memories, addr, 1, FALSE) = "memory"
                    /\ FlatByte(addr) = TextSegment.contents[addr - TextSegment.addr]
  BY DEF DisassembledIsFetched
<1>1. file \in Files
  BY DEF LoadInv
<1>2. PICK l \in DOMAIN file.sections :
        /\ file.sections[l].alloc /\ file.sections[l].exec
        /\ TextSegment = file.sections[l]
  BY <1>1, TextIsSection
<1> DEFINE h == file.sections[l]
<1>3. h.addr \in Nat /\ h.size \in Nat /\ h.type = "PROGBITS" /\ addr \in Nat
      /\ h.addr <= addr /\ addr + 1 <= h.addr + h.size
  BY <1>1, <1>2, SectionsType DEF CodeHasContents, Extent
<1>4. PICK k \in DOMAIN memories :
        /\ MadeFor(memories[k], h)
        /\ Holders(memories, addr) = {k} /\ FindClient(memories, addr) = k
  BY <1>2, OwnerOf
<1>5. CanAccess(memories[k], addr, 1, FALSE)
  <2>1. memories[k].base = h.addr /\ memories[k].size = h.size
    BY <1>4 DEF MadeFor
  <2> HIDE DEF h
  <2> QED
    BY <1>3, <2>1 DEF CanAccess
<1>6. BusAccess(memories, addr, 1, FALSE) = "memory"
  BY <1>3, <1>4, <1>5, BusOutcome
<1>7. \A g \in Allocated : addr \in Extent(g) => g = h
  BY <1>1, <1>2, OneSectionAt DEF Allocated
<1>8. h \in Allocated /\ addr \in Extent(h)
  BY <1>2 DEF Allocated
<1>9. addr \in ImageAddresses \ WritableAddresses
  BY <1>2, <1>7, <1>8 DEF ImageAddresses, WritableAddresses
<1>10. SectionAt(addr) = h
  <2> HIDE DEF h
  <2> QED
    BY <1>7, <1>8 DEF SectionAt
<1>11. ImageByte(addr) = h.contents[addr - h.addr]
  BY <1>3, <1>10 DEF ImageByte
<1> QED
  BY <1>2, <1>6, <1>9, <1>11 DEF ReadOnlyKept

(* What -X disassembles is what is fetched, as long as the program runs.      *)
THEOREM TextStaysAsLoaded ==
  ASSUME PlainSections, CodeHasContents PROVE Spec => []DisassembledIsFetched
<1>1. Init => LoadInv /\ ReadOnlyKept
  <2>1. Init => ReadOnlyKept
    BY DEF Init, LoaderInit, ReadOnlyKept, FlatByte
  <2> QED
    BY <2>1, InitLoad
<1>2. LoadInv /\ ReadOnlyKept /\ [Next]_vars => (LoadInv /\ ReadOnlyKept)'
  <2> SUFFICES ASSUME LoadInv, ReadOnlyKept, [Next]_vars PROVE LoadInv' /\ ReadOnlyKept'
    OBVIOUS
  <2>1. ASSUME UNCHANGED Flat!vars, file' = file PROVE ReadOnlyKept'
    <3>1. /\ ImageAddresses' = ImageAddresses /\ WritableAddresses' = WritableAddresses
          /\ \A addr : ImageByte(addr)' = ImageByte(addr)
      BY <2>1 DEF Allocated, WritableAddresses, ImageAddresses, ImageByte, SectionAt
    <3>2. \A addr \in ImageAddresses : FlatByte(addr)' = FlatByte(addr)
      <4>1. FlatBytes' = FlatBytes
        BY <2>1 DEF Flat!vars
      <4>2. FlatBytes' = [addr \in ImageAddresses |-> FlatByte(addr)']
        BY <3>1 DEF FlatBytes
      <4>3. FlatBytes = [addr \in ImageAddresses |-> FlatByte(addr)]
        BY DEF FlatBytes
      <4> QED
        BY <4>1, <4>2, <4>3
    <3> QED
      BY <3>1, <3>2 DEF ReadOnlyKept
  <2>2. CASE LoadFile
    <3>1. file' = file
      BY <2>2 DEF LoadFile, LoaderNext, CreateMemory, OpenFails, Load, AllocationFails,
         MemoriesCreated
    <3> QED
      BY <2>1, <2>2, <3>1, LoadingStutters
  <2>3. ASSUME NEW r \in Requests,
               ReadMemory(r) \/ WriteMemory(r) \/ WriteSerial(r) \/ WriteSysStatus(r) \/ Refuse(r)
        PROVE  LoadInv' /\ ReadOnlyKept'
    BY <2>3, AccessServed, AccessKeepsReadOnly
  <2>4. CASE UNCHANGED vars
    BY <2>1, <2>4, UnchangedKeeps DEF vars
  <2> QED
    BY <2>2, <2>3, <2>4 DEF Next
<1>3. LoadInv /\ ReadOnlyKept => DisassembledIsFetched
  BY ReadOnlyTextIsFetched
<1> QED
  BY <1>1, <1>2, <1>3, PTL DEF Spec
=============================================================================
