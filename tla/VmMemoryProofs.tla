--------------------------- MODULE VmMemoryProofs ---------------------------
(***************************************************************************)
(* Proofs about VmMemory, for every size of the pages and every value.     *)
(* When the segments a program allocates lie below the sparse threshold,   *)
(* the pages, the overlay and the auto-fill implement a flat memory.       *)
(***************************************************************************)
EXTENDS VmMemory, TLAPS

-----------------------------------------------------------------------------
\* Maps.

LEMMA LookupInsert ==
  ASSUME NEW f, NEW k, NEW v, NEW d
  PROVE  /\ Lookup(Insert(f, k, v), k, d) = v
         /\ \A x : x # k => Lookup(Insert(f, k, v), x, d) = Lookup(f, x, d)
BY DEF Lookup, Insert

LEMMA LookupRemove ==
  ASSUME NEW f, NEW k, NEW d
  PROVE  /\ Lookup(Remove(f, k), k, d) = d
         /\ \A x : x # k => Lookup(Remove(f, k), x, d) = Lookup(f, x, d)
BY DEF Lookup, Remove

\* Growing the vector changes what is read at one index only.
LEMMA LookupResized ==
  ASSUME NEW a \in Nat, NEW v
  PROVE  /\ a \in DOMAIN resized(a, v) /\ resized(a, v)[a] = v
         /\ DOMAIN resized(a, v) = DOMAIN data \cup 0 .. a
         /\ \A x : x # a => Lookup(resized(a, v), x, 0) = Lookup(data, x, 0)
         /\ \A x \in DOMAIN data : x # a => resized(a, v)[x] = data[x]
BY DEF Lookup, resized

LEMMA FeltValues ==
  /\ \A n : low_u64(from_u64(n)) = n
  /\ \A n \in Nat : from_u64(n) \in Felt
  /\ \A f \in Felt : low_u64(f) \in Nat
  /\ \A f \in Felt : fits_u64(f) => from_u64(low_u64(f)) = f
BY DEF from_u64, low_u64, Felt, fits_u64

\* The page, and the invocation and cell an offset of it belongs to.
LEMMA Offsets ==
  /\ BITWISE_PAGE_LEN \in Nat /\ BITWISE_END = BITWISE_MEM_BASE + BITWISE_PAGE_LEN
  /\ \A o \in 0 .. BITWISE_PAGE_LEN - 1 :
       /\ o \div 5 \in 0 .. BITWISE_MAX_INV - 1 /\ o % 5 \in 0 .. 4
       /\ o = (o \div 5) * 5 + (o % 5)
<1>1. BITWISE_MAX_INV \in Nat
  BY PagesAssumption
<1>2. BITWISE_PAGE_LEN \in Nat
  BY <1>1 DEF BITWISE_PAGE_LEN
<1>3. ASSUME NEW o \in 0 .. BITWISE_PAGE_LEN - 1
      PROVE  /\ o \div 5 \in 0 .. BITWISE_MAX_INV - 1 /\ o % 5 \in 0 .. 4
             /\ o = (o \div 5) * 5 + (o % 5)
  BY <1>1, <1>2 DEF BITWISE_PAGE_LEN
<1> QED BY <1>2, <1>3 DEF BITWISE_END

-----------------------------------------------------------------------------
\* Types.

DenseType == \A i \in DOMAIN data : i \in Nat /\ 0 .. i \subseteq DOMAIN data /\ data[i] \in Nat
SparseType == \A a \in DOMAIN high_data : a \in Nat /\ high_data[a] \in Nat \ {0}
PageType ==
  /\ DOMAIN bitwise = 0 .. BITWISE_PAGE_LEN - 1
  /\ bitwise_flags \in [0 .. BITWISE_MAX_INV - 1 -> SUBSET {0, 1}]
OverlayType == \A a \in DOMAIN felt_overlay :
                 a \in Nat /\ felt_overlay[a] \in Felt /\ ~ fits_u64(felt_overlay[a])
SegmentType == next_segment_base \in Nat /\ next_segment_base <= SegmentsEnd

Types == DenseType /\ SparseType /\ PageType /\ OverlayType /\ SegmentType

\* What one write does to the page.
LEMMA PageStep ==
  ASSUME PageType, NEW offset \in Int, NEW val, set_bitwise(offset, val)
  PROVE  PageType'
<1> DEFINE inv == offset \div 5
           cell == offset % 5
           page == [bitwise EXCEPT ![offset] = val]
           flags == bitwise_flags[inv] \cup {cell}
<1>1. CASE offset \notin DOMAIN bitwise
  BY <1>1 DEF set_bitwise, PageType
<1>2. CASE offset \in DOMAIN bitwise /\ cell >= 2
  BY <1>2 DEF set_bitwise, PageType
<1>3. CASE offset \in DOMAIN bitwise /\ ~ (cell >= 2)
  <2>1. inv \in 0 .. BITWISE_MAX_INV - 1 /\ cell \in 0 .. 4
    BY <1>3, Offsets DEF PageType
  <2>2. flags \in SUBSET {0, 1}
    BY <1>3, <2>1 DEF PageType
  <2>3. /\ bitwise_flags' = [bitwise_flags EXCEPT ![inv] = flags]
        /\ bitwise' = IF filled(page, inv, flags) THEN auto_fill(page, inv) ELSE page
    BY <1>3 DEF set_bitwise
  <2> HIDE DEF flags, inv, cell
  <2>4. bitwise_flags' \in [0 .. BITWISE_MAX_INV - 1 -> SUBSET {0, 1}]
    BY <2>2, <2>3 DEF PageType
  <2>5. DOMAIN page = DOMAIN bitwise /\ DOMAIN auto_fill(page, inv) = DOMAIN page
    BY DEF auto_fill
  <2> QED BY <2>3, <2>4, <2>5 DEF PageType
<1> QED BY <1>1, <1>2, <1>3

\* The vector grown by a write has no holes.
LEMMA DenseStep ==
  ASSUME DenseType, NEW a \in Nat, NEW v \in Nat, data' = resized(a, v)
  PROVE  DenseType'
<1> SUFFICES ASSUME NEW i \in DOMAIN data'
             PROVE  i \in Nat /\ 0 .. i \subseteq DOMAIN data' /\ data'[i] \in Nat
  BY DEF DenseType
<1>1. data' = [j \in DOMAIN data \cup 0 .. a |-> IF j = a THEN v ELSE Lookup(data, j, 0)]
  BY DEF resized
<1>2. i \in DOMAIN data \/ i \in 0 .. a
  BY <1>1
<1>3. i \in Nat /\ (0 .. i \subseteq DOMAIN data \/ 0 .. i \subseteq 0 .. a)
  BY <1>2 DEF DenseType
<1>4. data'[i] \in Nat
  <2>1. Lookup(data, i, 0) \in Nat
    BY DEF DenseType, Lookup
  <2> QED BY <1>1, <2>1
<1> QED BY <1>1, <1>3, <1>4

LEMMA WordTypes ==
  ASSUME Types, NEW a \in Nat, NEW v \in Nat, set(a, v)
  PROVE  Types'
<1>1. SegmentType'
  BY DEF set, Types, SegmentType
<1>2. CASE a >= BITWISE_MEM_BASE
  <2>1. /\ set_bitwise(a - BITWISE_MEM_BASE, v)
        /\ UNCHANGED <<data, high_data, felt_overlay>>
    BY <1>2 DEF set
  <2>2. PageType'
    <3>1. a - BITWISE_MEM_BASE \in Int
      BY PagesAssumption
    <3> QED BY <2>1, <3>1, PageStep DEF Types
  <2> QED BY <1>1, <2>1, <2>2 DEF Types, DenseType, SparseType, OverlayType
<1>3. CASE ~ (a >= BITWISE_MEM_BASE)
  <2>1. set_low(a, v) /\ UNCHANGED <<bitwise, bitwise_flags>>
    BY <1>3 DEF set
  <2>2. PageType'
    BY <2>1 DEF Types, PageType
  <2>3. OverlayType'
    BY <2>1 DEF set_low, Remove, Types, OverlayType
  <2>4. CASE a >= SPARSE_MEM_THRESHOLD
    <3>1. /\ high_data' = IF v = 0 THEN Remove(high_data, a) ELSE Insert(high_data, a, v)
          /\ UNCHANGED data
      BY <2>1, <2>4 DEF set_low
    <3>2. SparseType'
      BY <3>1 DEF Remove, Insert, Types, SparseType
    <3>3. DenseType'
      BY <3>1 DEF Types, DenseType
    <3> QED BY <1>1, <2>2, <2>3, <3>2, <3>3 DEF Types
  <2>5. CASE ~ (a >= SPARSE_MEM_THRESHOLD)
    <3>1. data' = resized(a, v) /\ UNCHANGED high_data
      BY <2>1, <2>5 DEF set_low
    <3>2. DenseType' /\ SparseType'
      BY <3>1, DenseStep DEF Types, SparseType
    <3> QED BY <1>1, <2>2, <2>3, <3>2 DEF Types
  <2> QED BY <2>4, <2>5
<1> QED BY <1>2, <1>3

LEMMA FeltTypes ==
  ASSUME Types, NEW a \in Nat, NEW f \in Felt, set_felt(a, f)
  PROVE  Types'
<1>1. low_u64(f) \in Nat
  BY FeltValues
<1>2. CASE a >= BITWISE_MEM_BASE
  BY <1>1, <1>2, WordTypes DEF set_felt
<1>3. CASE ~ (a >= BITWISE_MEM_BASE)
  <2>1. set_felt_low(a, f)
    BY <1>3 DEF set_felt
  <2>2. DenseType'
    BY <1>1, <2>1, DenseStep DEF set_felt_low, Types
  <2>3. OverlayType'
    BY <2>1 DEF set_felt_low, Remove, Insert, Types, OverlayType
  <2> QED BY <2>1, <2>2, <2>3 DEF set_felt_low, Types, SparseType, PageType, SegmentType
<1> QED BY <1>2, <1>3

LEMMA InitTypes == Init => Types
<1> SUFFICES ASSUME Init PROVE Types
  OBVIOUS
<1>1. DenseType
  <2>1. data \in [DOMAIN data -> Nat]
        /\ \A i \in DOMAIN data : i \in Nat /\ 0 .. i \subseteq DOMAIN data
    BY ValuesAssumption DEF Init
  <2> QED BY <2>1 DEF DenseType
<1>2. SparseType /\ OverlayType
  BY DEF Init, SparseType, OverlayType
<1>3. PageType /\ SegmentType
  BY PagesAssumption DEF Init, PageType, SegmentType
<1> QED BY <1>1, <1>2, <1>3 DEF Types

LEMMA NextTypes == Types /\ [Next]_vars => Types'
<1> SUFFICES ASSUME Types, [Next]_vars PROVE Types'
  OBVIOUS
<1>1. CASE alloc_segment
  BY <1>1, PagesAssumption DEF alloc_segment, Types, DenseType, SparseType, PageType,
     OverlayType, SegmentType
<1>2. CASE StoreWord
  <2>1. PICK a \in Addrs, v \in Words : set(a, v)
    BY <1>2 DEF StoreWord
  <2> QED BY <2>1, ValuesAssumption, WordTypes
<1>3. CASE StoreFelt
  <2>1. PICK a \in Addrs, f \in Felts : set_felt(a, f)
    BY <1>3 DEF StoreFelt
  <2>2. a \in Nat /\ f \in Felt
    BY ValuesAssumption DEF Felt
  <2> QED BY <2>1, <2>2, FeltTypes
<1>4. CASE UNCHANGED vars
  BY <1>4 DEF vars, Types, DenseType, SparseType, PageType, OverlayType, SegmentType
<1> QED BY <1>1, <1>2, <1>3, <1>4 DEF Next

\* The pages keep their shape for every sequence of writes (Memory::set, set_felt).
THEOREM MemoryTypeCorrect == Spec => []TypeOK
<1>1. Types => TypeOK
  BY DEF Types, DenseType, SparseType, PageType, OverlayType, SegmentType, TypeOK
<1> QED BY InitTypes, NextTypes, <1>1, PTL DEF Spec

-----------------------------------------------------------------------------
\* The pages agree when every segment lies in the dense one.

SegmentsAreDense == SegmentsEnd <= SPARSE_MEM_THRESHOLD

\* The overlay covers dense cells only and repeats their word.
OverlayInv == \A a \in DOMAIN felt_overlay :
                /\ a < SPARSE_MEM_THRESHOLD /\ a \in DOMAIN data
                /\ data[a] = low_u64(felt_overlay[a])

PagesInv == Types /\ OverlayInv /\ DenseStaysSmall

\* A write of a felt is to the dense page.
LEMMA FeltsAreDense ==
  ASSUME SegmentsAreDense, Types, NEW a \in Nat, a < next_segment_base, NEW f, set_felt(a, f)
  PROVE  set_felt_low(a, f) /\ a < SPARSE_MEM_THRESHOLD /\ a < BITWISE_MEM_BASE
<1>1. a < SPARSE_MEM_THRESHOLD /\ a < BITWISE_MEM_BASE
  BY PagesAssumption DEF SegmentsAreDense, Types, SegmentType
<1>2. ~ (a >= BITWISE_MEM_BASE)
  BY <1>1, PagesAssumption
<1> QED BY <1>1, <1>2 DEF set_felt

LEMMA DenseGrows ==
  ASSUME DenseStaysSmall, NEW a \in Nat, a < SPARSE_MEM_THRESHOLD, NEW v, data' = resized(a, v)
  PROVE  DenseStaysSmall'
<1>1. DOMAIN data' = DOMAIN data \cup 0 .. a
  BY DEF resized
<1>2. \A i \in 0 .. a : i < SPARSE_MEM_THRESHOLD
  BY PagesAssumption
<1> QED BY <1>1, <1>2 DEF DenseStaysSmall

LEMMA InitPages == Init => PagesInv
<1> SUFFICES ASSUME Init PROVE PagesInv
  OBVIOUS
<1>1. OverlayInv
  BY DEF Init, OverlayInv
<1>2. DenseStaysSmall
  <2>1. \A i \in DOMAIN data : i \in Nat /\ i < SEGMENT_BASE_DEFAULT
    BY ValuesAssumption DEF Init
  <2> QED BY <2>1, PagesAssumption DEF DenseStaysSmall
<1> QED BY <1>1, <1>2, InitTypes DEF PagesInv

LEMMA NextPages == SegmentsAreDense /\ PagesInv /\ [Next]_vars => PagesInv'
<1> SUFFICES ASSUME SegmentsAreDense, PagesInv, [Next]_vars PROVE PagesInv'
  OBVIOUS
<1>1. Types /\ OverlayInv /\ DenseStaysSmall /\ Types'
  BY NextTypes DEF PagesInv
<1>2. CASE alloc_segment \/ UNCHANGED vars
  BY <1>1, <1>2 DEF alloc_segment, vars, PagesInv, OverlayInv, DenseStaysSmall
<1>3. CASE StoreWord
  <2>1. PICK a \in Addrs, v \in Words : set(a, v)
    BY <1>3 DEF StoreWord
  <2>2. a \in Nat
    BY ValuesAssumption
  <2>3. CASE a >= BITWISE_MEM_BASE
    <3>1. UNCHANGED <<data, felt_overlay>>
      BY <2>1, <2>3 DEF set
    <3> QED BY <1>1, <3>1 DEF PagesInv, OverlayInv, DenseStaysSmall
  <2>4. CASE ~ (a >= BITWISE_MEM_BASE)
    <3>1. set_low(a, v)
      BY <2>1, <2>4 DEF set
    <3>2. felt_overlay' = Remove(felt_overlay, a)
      BY <3>1 DEF set_low
    <3>3. CASE a >= SPARSE_MEM_THRESHOLD
      <4>1. data' = data
        BY <3>1, <3>3 DEF set_low
      <4> QED BY <1>1, <3>2, <4>1 DEF Remove, PagesInv, OverlayInv, DenseStaysSmall
    <3>4. CASE ~ (a >= SPARSE_MEM_THRESHOLD)
      <4>1. data' = resized(a, v)
        BY <3>1, <3>4 DEF set_low
      <4>2. a < SPARSE_MEM_THRESHOLD
        BY <2>2, <3>4, PagesAssumption
      <4>3. DenseStaysSmall'
        BY <1>1, <2>2, <4>1, <4>2, DenseGrows
      <4>4. /\ DOMAIN data \subseteq DOMAIN data'
            /\ \A x \in DOMAIN data : x # a => data'[x] = data[x]
        BY <2>2, <4>1 DEF resized, Lookup
      <4>5. OverlayInv'
        BY <1>1, <3>2, <4>4 DEF Remove, OverlayInv
      <4> QED BY <1>1, <4>3, <4>5 DEF PagesInv
    <3> QED BY <3>3, <3>4
  <2> QED BY <2>3, <2>4
<1>4. CASE StoreFelt
  <2>1. PICK a \in Addrs, f \in Felts : a < next_segment_base /\ set_felt(a, f)
    BY <1>4 DEF StoreFelt
  <2>2. a \in Nat
    BY ValuesAssumption
  <2>3. set_felt_low(a, f) /\ a < SPARSE_MEM_THRESHOLD
    BY <1>1, <2>1, <2>2, FeltsAreDense
  <2>4. /\ data' = resized(a, low_u64(f))
        /\ felt_overlay' = IF fits_u64(f) THEN Remove(felt_overlay, a)
                           ELSE Insert(felt_overlay, a, f)
    BY <2>3 DEF set_felt_low
  <2>5. DenseStaysSmall'
    BY <1>1, <2>2, <2>3, <2>4, DenseGrows
  <2>6. /\ DOMAIN data \subseteq DOMAIN data' /\ a \in DOMAIN data'
        /\ data'[a] = low_u64(f)
        /\ \A x \in DOMAIN data : x # a => data'[x] = data[x]
    BY <2>2, <2>4 DEF resized, Lookup
  <2>7. OverlayInv'
    <3>1. CASE fits_u64(f)
      BY <1>1, <2>4, <2>6, <3>1 DEF Remove, OverlayInv
    <3>2. CASE ~ fits_u64(f)
      BY <1>1, <2>3, <2>4, <2>6, <3>2 DEF Insert, OverlayInv
    <3> QED BY <3>1, <3>2
  <2> QED BY <1>1, <2>5, <2>7 DEF PagesInv
<1> QED BY <1>2, <1>3, <1>4 DEF Next

\* A word of a dense cell is the low word of its felt.
LEMMA ViewsImplied ==
  ASSUME PagesInv
  PROVE  ViewsAgree
<1> SUFFICES ASSUME NEW a \in Addrs PROVE get(a) = low_u64(get_felt(a))
  BY DEF ViewsAgree
<1>1. CASE a \in DOMAIN felt_overlay
  <2>1. /\ a < SPARSE_MEM_THRESHOLD /\ a \in DOMAIN data
        /\ data[a] = low_u64(felt_overlay[a])
    BY <1>1 DEF PagesInv, OverlayInv
  <2>2. ~ (a >= SPARSE_MEM_THRESHOLD) /\ ~ (a >= BITWISE_MEM_BASE)
    BY <2>1, PagesAssumption, ValuesAssumption
  <2>3. get(a) = data[a]
    BY <2>1, <2>2 DEF get, Lookup
  <2> QED BY <1>1, <2>1, <2>3 DEF get_felt
<1>2. CASE a \notin DOMAIN felt_overlay
  BY <1>2, FeltValues DEF get_felt
<1> QED BY <1>1, <1>2

\* The vector never grows past the threshold (vm.rs:69-70) as long as segments do not.
THEOREM DenseCorrect ==
  ASSUME SegmentsAreDense
  PROVE  Spec => []DenseStaysSmall
<1>1. PagesInv => DenseStaysSmall
  BY DEF PagesInv
<1>2. PagesInv /\ [Next]_vars => PagesInv'
  BY NextPages
<1> QED BY InitPages, <1>1, <1>2, PTL DEF Spec

\* The VM's words and the hints' felts agree in every cell (vm.rs:89-90) as long
\* as segments lie below the threshold.
THEOREM ViewsCorrect ==
  ASSUME SegmentsAreDense
  PROVE  Spec => []ViewsAgree
<1>1. PagesInv => ViewsAgree
  BY ViewsImplied
<1>2. PagesInv /\ [Next]_vars => PagesInv'
  BY NextPages
<1> QED BY InitPages, <1>1, <1>2, PTL DEF Spec

-----------------------------------------------------------------------------
\* The refinement of FlatMemory.

Cells == [a \in Addrs |-> get_felt(a)]

\* Both modules define the builtin's functions alike.
LEMMA SameFunctions ==
  /\ Flat!and = and
  /\ \A x, y : Flat!or(x, y) = or(x, y) /\ Flat!xor(x, y) = xor(x, y)
<1>1. Flat!and = and
  BY DEF Flat!and, and
<1> QED BY <1>1 DEF Flat!or, or, Flat!xor, xor

\* The inputs flagged are addresses in use.
FlagsInv == \A inv \in DOMAIN bitwise_flags : \A cell \in bitwise_flags[inv] :
              BITWISE_MEM_BASE + inv * 5 + cell \in Addrs

RefInv == PagesInv /\ FlagsInv

LEMMA SetBitwiseFlags ==
  ASSUME Types, FlagsInv, NEW a \in Addrs, a >= BITWISE_MEM_BASE, NEW v,
         set_bitwise(a - BITWISE_MEM_BASE, v)
  PROVE  FlagsInv'
<1> DEFINE offset == a - BITWISE_MEM_BASE
           inv == offset \div 5
           cell == offset % 5
<1>1. a \in Nat /\ BITWISE_MEM_BASE \in Nat /\ offset \in Nat /\ a = BITWISE_MEM_BASE + offset
  BY ValuesAssumption, PagesAssumption
<1>2. CASE UNCHANGED bitwise_flags
  BY <1>2 DEF FlagsInv
<1>3. CASE /\ offset \in DOMAIN bitwise
           /\ bitwise_flags' = [bitwise_flags EXCEPT ![inv] = bitwise_flags[inv] \cup {cell}]
  <2>1. offset = inv * 5 + cell /\ inv \in Int /\ cell \in Int
    BY <1>3, Offsets DEF Types, PageType
  <2>2. BITWISE_MEM_BASE + inv * 5 + cell \in Addrs
    BY <1>1, <2>1
  <2> HIDE DEF inv, cell, offset
  <2> QED BY <1>3, <2>2 DEF FlagsInv
<1> QED BY <1>2, <1>3 DEF set_bitwise

LEMMA NextRefInv == SegmentsAreDense /\ RefInv /\ [Next]_vars => RefInv'
<1> SUFFICES ASSUME SegmentsAreDense, RefInv, [Next]_vars PROVE RefInv'
  OBVIOUS
<1>1. PagesInv' /\ Types /\ FlagsInv
  BY NextPages DEF RefInv, PagesInv
<1>2. CASE UNCHANGED bitwise_flags
  BY <1>1, <1>2 DEF RefInv, FlagsInv
<1>3. CASE StoreWord
  <2>1. PICK a \in Addrs, v \in Words : set(a, v)
    BY <1>3 DEF StoreWord
  <2>2. CASE a >= BITWISE_MEM_BASE
    BY <1>1, <2>1, <2>2, SetBitwiseFlags DEF set, RefInv
  <2> QED BY <1>2, <2>1, <2>2 DEF set
<1>4. CASE StoreFelt
  <2>1. PICK a \in Addrs, f \in Felts : a < next_segment_base /\ set_felt(a, f)
    BY <1>4 DEF StoreFelt
  <2>2. set_felt_low(a, f)
    BY <1>1, <2>1, FeltsAreDense, ValuesAssumption
  <2> QED BY <1>2, <2>2 DEF set_felt_low
<1> QED BY <1>2, <1>3, <1>4 DEF Next, alloc_segment, vars

LEMMA InitRefInv == Init => RefInv
BY InitPages DEF Init, RefInv, FlagsInv

\* What is read of the builtin's page is never in the overlay.
LEMMA PageRead ==
  ASSUME PagesInv, NEW b \in Nat, b >= BITWISE_MEM_BASE
  PROVE  get_felt(b) = from_u64(Lookup(bitwise, b - BITWISE_MEM_BASE, 0))
<1>1. b \notin DOMAIN felt_overlay
  BY PagesAssumption DEF PagesInv, OverlayInv
<1> QED BY <1>1 DEF get_felt, get

\* One cell written below the builtin's page is one cell changed.
LEMMA WordRead ==
  ASSUME NEW a \in Nat, a < BITWISE_MEM_BASE, NEW v, set_low(a, v), UNCHANGED bitwise,
         NEW b \in Nat
  PROVE  get_felt(b)' = IF b = a THEN from_u64(v) ELSE get_felt(b)
<1>1. ~ (a >= BITWISE_MEM_BASE)
  BY PagesAssumption
<1>2. felt_overlay' = Remove(felt_overlay, a)
  BY DEF set_low
<1>3. /\ DOMAIN felt_overlay' = DOMAIN felt_overlay \ {a}
      /\ \A x \in DOMAIN felt_overlay' : felt_overlay'[x] = felt_overlay[x]
  BY <1>2 DEF Remove
<1>4. get(b)' = IF b = a THEN v ELSE get(b)
  <2>1. CASE a >= SPARSE_MEM_THRESHOLD
    <3>1. /\ high_data' = IF v = 0 THEN Remove(high_data, a) ELSE Insert(high_data, a, v)
          /\ UNCHANGED <<data, bitwise>>
      BY <2>1 DEF set_low
    <3>2. Lookup(high_data', b, 0) = IF b = a THEN v ELSE Lookup(high_data, b, 0)
      BY <3>1 DEF Lookup, Remove, Insert
    <3> QED BY <1>1, <2>1, <3>1, <3>2 DEF get
  <2>2. CASE ~ (a >= SPARSE_MEM_THRESHOLD)
    <3>1. data' = resized(a, v) /\ UNCHANGED <<high_data, bitwise>>
      BY <2>2 DEF set_low
    <3>2. Lookup(data', b, 0) = IF b = a THEN v ELSE Lookup(data, b, 0)
      BY <3>1 DEF Lookup, resized
    <3> QED BY <1>1, <2>2, <3>1, <3>2 DEF get
  <2> QED BY <2>1, <2>2
<1> QED BY <1>3, <1>4 DEF get_felt

LEMMA FeltRead ==
  ASSUME NEW a \in Nat, a < SPARSE_MEM_THRESHOLD, NEW f \in Felt, set_felt_low(a, f),
         NEW b \in Nat
  PROVE  get_felt(b)' = IF b = a THEN f ELSE get_felt(b)
<1>1. ~ (a >= SPARSE_MEM_THRESHOLD) /\ ~ (a >= BITWISE_MEM_BASE)
  BY PagesAssumption
<1>2. /\ data' = resized(a, low_u64(f))
      /\ felt_overlay' = IF fits_u64(f) THEN Remove(felt_overlay, a)
                         ELSE Insert(felt_overlay, a, f)
      /\ UNCHANGED <<high_data, bitwise>>
  BY DEF set_felt_low
<1>3. Lookup(data', b, 0) = IF b = a THEN low_u64(f) ELSE Lookup(data, b, 0)
  BY <1>2 DEF Lookup, resized
<1>4. get(b)' = IF b = a THEN low_u64(f) ELSE get(b)
  BY <1>1, <1>2, <1>3 DEF get
<1>5. CASE fits_u64(f)
  <2>1. from_u64(low_u64(f)) = f
    BY <1>5, FeltValues
  <2>2. /\ DOMAIN felt_overlay' = DOMAIN felt_overlay \ {a}
        /\ \A x \in DOMAIN felt_overlay' : felt_overlay'[x] = felt_overlay[x]
    BY <1>2, <1>5 DEF Remove
  <2> QED BY <1>4, <2>1, <2>2 DEF get_felt
<1>6. CASE ~ fits_u64(f)
  <2>1. /\ DOMAIN felt_overlay' = DOMAIN felt_overlay \cup {a}
        /\ \A x \in DOMAIN felt_overlay' :
             felt_overlay'[x] = IF x = a THEN f ELSE felt_overlay[x]
    BY <1>2, <1>6 DEF Insert
  <2> QED BY <1>4, <2>1 DEF get_felt
<1> QED BY <1>5, <1>6

\* An address of the page is an offset, and belongs to one invocation.
LEMMA PageAddress ==
  ASSUME NEW a \in Nat, a \in BITWISE_MEM_BASE .. BITWISE_END - 1
  PROVE  LET o == a - BITWISE_MEM_BASE IN
         /\ o \in 0 .. BITWISE_PAGE_LEN - 1 /\ a = BITWISE_MEM_BASE + o
         /\ o \div 5 \in 0 .. BITWISE_MAX_INV - 1 /\ o % 5 \in 0 .. 4
         /\ o = (o \div 5) * 5 + (o % 5)
         /\ Flat!FirstInput(a) = BITWISE_MEM_BASE + (o \div 5) * 5
         /\ Flat!IsInput(a) <=> o % 5 < 2
<1> DEFINE o == a - BITWISE_MEM_BASE
<1>1. o \in 0 .. BITWISE_PAGE_LEN - 1 /\ a = BITWISE_MEM_BASE + o /\ BITWISE_MEM_BASE \in Nat
  BY Offsets, PagesAssumption
<1>2. /\ o \div 5 \in 0 .. BITWISE_MAX_INV - 1 /\ o % 5 \in 0 .. 4
      /\ o = (o \div 5) * 5 + (o % 5)
  BY <1>1, Offsets
<1>3. Flat!FirstInput(a) = a - (o % 5)
  BY DEF Flat!FirstInput
<1> DEFINE q == o \div 5
           r == o % 5
<1>4. q \in Int /\ r \in Int /\ o = q * 5 + r
  BY <1>2
<1>5. Flat!FirstInput(a) = a - r
  BY <1>3
<1> HIDE DEF q, r, o
<1>6. Flat!FirstInput(a) = BITWISE_MEM_BASE + q * 5
  BY <1>1, <1>4, <1>5
<1>7. Flat!IsInput(a) <=> r < 2
  BY <1>4, <1>5 DEF Flat!IsInput
<1> QED BY <1>1, <1>2, <1>6, <1>7 DEF q, r, o

\* Flat writes below the page.
LEMMA LowWrite ==
  ASSUME NEW a \in Addrs, a < BITWISE_MEM_BASE, NEW v,
         \A b \in Addrs : get_felt(b)' = IF b = a THEN v ELSE get_felt(b),
         UNCHANGED bitwise_flags
  PROVE  Flat!Write(a, v)
<1>1. a \in Nat /\ BITWISE_MEM_BASE \in Nat /\ BITWISE_END \in Nat
      /\ BITWISE_MEM_BASE <= BITWISE_END
  BY Offsets, PagesAssumption, ValuesAssumption
<1>2. a < BITWISE_END /\ ~ Flat!IsInput(a)
  BY <1>1 DEF Flat!IsInput
<1>3. GivenInputs' = GivenInputs
  BY DEF GivenInputs
<1>4. Cells' = [Cells EXCEPT ![a] = v]
  BY DEF Cells
<1> QED BY <1>2, <1>3, <1>4 DEF Flat!Write, Cells

\* The flags of the invocations are the inputs given.
LEMMA GivenStep ==
  ASSUME Types, NEW a \in Addrs, NEW inv, NEW cell, NEW o,
         o = a - BITWISE_MEM_BASE, inv = o \div 5, cell = o % 5,
         o \in 0 .. BITWISE_PAGE_LEN - 1,
         bitwise_flags' = [bitwise_flags EXCEPT ![inv] = bitwise_flags[inv] \cup {cell}]
  PROVE  GivenInputs' = GivenInputs \cup {a}
<1>1. a \in Nat /\ BITWISE_MEM_BASE \in Nat /\ BITWISE_PAGE_LEN \in Nat
      /\ a \in BITWISE_MEM_BASE .. BITWISE_END - 1
  BY Offsets, PagesAssumption, ValuesAssumption
<1>2. inv \in 0 .. BITWISE_MAX_INV - 1 /\ o = inv * 5 + cell /\ cell \in Int
  <2>1. /\ o \div 5 \in 0 .. BITWISE_MAX_INV - 1 /\ o % 5 \in 0 .. 4
        /\ o = (o \div 5) * 5 + (o % 5)
    BY Offsets
  <2>2. inv \in 0 .. BITWISE_MAX_INV - 1 /\ cell \in 0 .. 4
    BY <2>1
  <2>3. o = inv * 5 + cell
    BY <2>1
  <2> QED BY <2>2, <2>3
<1>3. DOMAIN bitwise_flags = 0 .. BITWISE_MAX_INV - 1
  BY DEF Types, PageType
<1>4. ASSUME NEW b \in Addrs, b \in BITWISE_MEM_BASE .. BITWISE_END - 1
      PROVE  LET ob == b - BITWISE_MEM_BASE IN
             (ob % 5 \in bitwise_flags'[ob \div 5])
               <=> (b = a \/ ob % 5 \in bitwise_flags[ob \div 5])
  <2> DEFINE ob == b - BITWISE_MEM_BASE
             q == ob \div 5
             r == ob % 5
  <2>1. b \in Nat /\ q \in 0 .. BITWISE_MAX_INV - 1 /\ r \in Int /\ ob = q * 5 + r
        /\ b = BITWISE_MEM_BASE + ob
    BY <1>4, PageAddress, ValuesAssumption
  <2>2. b = a => q = inv /\ r = cell
    OBVIOUS
  <2>3. a = BITWISE_MEM_BASE + o
    BY <1>1
  <2> HIDE DEF q, r, ob
  <2>4. q = inv /\ r = cell => b = a
    BY <2>1, <2>3, <1>2
  <2>5. bitwise_flags'[q] = IF q = inv THEN bitwise_flags[inv] \cup {cell} ELSE bitwise_flags[q]
    BY <1>2, <1>3, <2>1
  <2>6. r \in bitwise_flags'[q] <=> (b = a \/ r \in bitwise_flags[q])
    BY <2>2, <2>4, <2>5
  <2> QED BY <2>6 DEF q, r, ob
<1> QED BY <1>1, <1>4 DEF GivenInputs

\* The address of an invocation's cell.
LEMMA CellAddress ==
  ASSUME NEW inv \in 0 .. BITWISE_MAX_INV - 1, NEW c \in {0, 1}, NEW y,
         y = BITWISE_MEM_BASE + inv * 5 + c
  PROVE  /\ y \in BITWISE_MEM_BASE .. BITWISE_END - 1
         /\ (y - BITWISE_MEM_BASE) \div 5 = inv /\ (y - BITWISE_MEM_BASE) % 5 = c
<1>1. BITWISE_MAX_INV \in Nat /\ BITWISE_MEM_BASE \in Nat /\ inv \in Nat /\ c \in 0 .. 1
  BY PagesAssumption
<1>2. y - BITWISE_MEM_BASE = inv * 5 + c
  BY <1>1
<1>3. inv * 5 + c \in 0 .. BITWISE_PAGE_LEN - 1
  BY <1>1 DEF BITWISE_PAGE_LEN
<1>4. (inv * 5 + c) \div 5 = inv /\ (inv * 5 + c) % 5 = c
  BY <1>1
<1>5. y \in BITWISE_MEM_BASE .. BITWISE_END - 1
  BY <1>1, <1>3, Offsets
<1> QED BY <1>2, <1>4, <1>5

\* Flat writes on the page, the auto-fill included.
LEMMA PageWrite ==
  ASSUME RefInv, PagesInv', NEW a \in Addrs, a >= BITWISE_MEM_BASE, NEW v,
         set_bitwise(a - BITWISE_MEM_BASE, v), UNCHANGED <<data, high_data, felt_overlay>>
  PROVE  Flat!Write(a, from_u64(v)) \/ UNCHANGED <<Cells, GivenInputs>>
<1> DEFINE o == a - BITWISE_MEM_BASE
           inv == o \div 5
           cell == o % 5
           page == [bitwise EXCEPT ![o] = v]
           flags == bitwise_flags[inv] \cup {cell}
           x == Flat!FirstInput(a)
           stored == [Cells EXCEPT ![a] = from_u64(v)]
<1>1. a \in Nat /\ BITWISE_MEM_BASE \in Nat /\ BITWISE_PAGE_LEN \in Nat
      /\ BITWISE_END = BITWISE_MEM_BASE + BITWISE_PAGE_LEN
      /\ Types /\ PageType /\ FlagsInv /\ PagesInv /\ Addrs \subseteq Nat
  BY Offsets, PagesAssumption, ValuesAssumption DEF RefInv, PagesInv, Types
<1>2. \A b \in Addrs : b < BITWISE_MEM_BASE => get_felt(b)' = get_felt(b)
  BY <1>1 DEF get_felt, get
<1>3. \A b \in Addrs : b >= BITWISE_MEM_BASE =>
        /\ get_felt(b) = from_u64(Lookup(bitwise, b - BITWISE_MEM_BASE, 0))
        /\ get_felt(b)' = from_u64(Lookup(bitwise', b - BITWISE_MEM_BASE, 0))
  <2> TAKE b \in Addrs
  <2> HAVE b >= BITWISE_MEM_BASE
  <2>1. get_felt(b) = from_u64(Lookup(bitwise, b - BITWISE_MEM_BASE, 0))
    BY <1>1, PageRead
  <2>2. b \notin DOMAIN felt_overlay'
    BY <1>1, PagesAssumption DEF PagesInv, OverlayInv
  <2>3. get_felt(b)' = from_u64(Lookup(bitwise', b - BITWISE_MEM_BASE, 0))
    BY <2>2 DEF get_felt, get
  <2> QED BY <2>1, <2>3
<1>4. CASE o \notin DOMAIN bitwise
  <2>1. UNCHANGED <<bitwise, bitwise_flags>>
    BY <1>4 DEF set_bitwise
  <2>2. \A b \in Addrs : get_felt(b)' = get_felt(b)
    BY <2>1 DEF get_felt, get
  <2>3. UNCHANGED <<Cells, GivenInputs>>
    BY <2>1, <2>2 DEF Cells, GivenInputs
  <2> QED BY <2>3
<1>5. CASE o \in DOMAIN bitwise
  <2>1. o \in 0 .. BITWISE_PAGE_LEN - 1 /\ a \in BITWISE_MEM_BASE .. BITWISE_END - 1
        /\ a < BITWISE_END
    BY <1>1, <1>5 DEF PageType
  <2>2. /\ a = BITWISE_MEM_BASE + o
        /\ inv \in 0 .. BITWISE_MAX_INV - 1 /\ cell \in 0 .. 4
        /\ o = inv * 5 + cell /\ x = BITWISE_MEM_BASE + inv * 5
        /\ Flat!IsInput(a) <=> cell < 2
    BY <1>1, <2>1, PageAddress
  <2>3. /\ DOMAIN page = DOMAIN bitwise
        /\ \A i \in DOMAIN bitwise : page[i] = IF i = o THEN v ELSE bitwise[i]
    OBVIOUS
  <2>4. \A b \in Addrs : b >= BITWISE_MEM_BASE =>
          stored[b] = from_u64(Lookup(page, b - BITWISE_MEM_BASE, 0))
    <3> TAKE b \in Addrs
    <3> HAVE b >= BITWISE_MEM_BASE
    <3>1. stored[b] = IF b = a THEN from_u64(v) ELSE get_felt(b)
      BY DEF Cells
    <3>2. b - BITWISE_MEM_BASE = o <=> b = a
      BY <1>1, <2>2
    <3> QED BY <1>3, <1>5, <2>3, <3>1, <3>2 DEF Lookup
  <2>5. \A b \in Addrs : b < BITWISE_MEM_BASE => stored[b] = get_felt(b)'
    <3> TAKE b \in Addrs
    <3> HAVE b < BITWISE_MEM_BASE
    <3>1. b # a
      BY <1>1
    <3> QED BY <1>2, <3>1 DEF Cells
  <2>6. ASSUME bitwise' = page PROVE Cells' = stored
    <3>1. \A b \in Addrs : stored[b] = get_felt(b)'
      <4> TAKE b \in Addrs
      <4>1. CASE b >= BITWISE_MEM_BASE
        BY <1>3, <2>4, <2>6, <4>1
      <4>2. CASE b < BITWISE_MEM_BASE
        BY <2>5, <4>2
      <4> QED BY <1>1, <4>1, <4>2
    <3> QED BY <3>1 DEF Cells
  <2>7. CASE cell >= 2
    <3>1. bitwise' = page /\ UNCHANGED bitwise_flags
      BY <1>5, <2>7 DEF set_bitwise
    <3>2. Cells' = stored /\ GivenInputs' = GivenInputs /\ ~ Flat!IsInput(a)
      <4>1. ~ (cell < 2)
        BY <2>2, <2>7
      <4> QED BY <2>2, <2>6, <3>1, <4>1 DEF GivenInputs
    <3> QED BY <2>1, <3>2 DEF Flat!Write, Cells
  <2>8. CASE ~ (cell >= 2)
    <3>1. /\ bitwise_flags' = [bitwise_flags EXCEPT ![inv] = flags]
          /\ bitwise' = IF filled(page, inv, flags) THEN auto_fill(page, inv) ELSE page
      BY <1>5, <2>8 DEF set_bitwise
    <3>2. Flat!IsInput(a) /\ cell \in {0, 1}
      BY <2>2, <2>8
    <3>3. GivenInputs' = GivenInputs \cup {a}
      BY <1>1, <2>1, <3>1, GivenStep
    <3>4. bitwise_flags'[inv] = flags /\ flags \subseteq {0, 1}
      BY <1>1, <2>2, <3>1, <3>2 DEF PageType
    <3>5. FlagsInv'
      BY <1>1, SetBitwiseFlags
    <3>6. (flags = {0, 1}) <=> ({x, x + 1} \subseteq GivenInputs')
      <4>1. ASSUME NEW c \in {0, 1} PROVE x + c \in GivenInputs' <=> c \in flags
        <5> DEFINE y == x + c
        <5>1. y = BITWISE_MEM_BASE + inv * 5 + c
          BY <2>2
        <5>2. c \in flags => y \in Addrs
          <6>1. inv \in DOMAIN bitwise_flags'
            BY <1>1, <2>2, <3>1 DEF PageType
          <6>2. c \in flags => BITWISE_MEM_BASE + inv * 5 + c \in Addrs
            BY <3>4, <3>5, <6>1 DEF FlagsInv
          <6> QED BY <5>1, <6>2
        <5>3. inv \in 0 .. BITWISE_MAX_INV - 1
          BY <2>2
        <5> HIDE DEF y, x, inv
        <5>4. /\ y \in BITWISE_MEM_BASE .. BITWISE_END - 1
              /\ (y - BITWISE_MEM_BASE) \div 5 = inv /\ (y - BITWISE_MEM_BASE) % 5 = c
          BY <5>1, <5>3, CellAddress
        <5>5. y \in GivenInputs' <=> y \in Addrs /\ c \in bitwise_flags'[inv]
          BY <5>4 DEF GivenInputs
        <5> HIDE DEF flags
        <5>6. y \in GivenInputs' <=> c \in flags
          BY <3>4, <5>2, <5>5
        <5> QED BY <5>6 DEF y
      <4>2. x + 0 = x
        BY <1>1, <2>2
      <4>3. (x \in GivenInputs' <=> 0 \in flags) /\ (x + 1 \in GivenInputs' <=> 1 \in flags)
        BY <4>1, <4>2
      <4> HIDE DEF x, flags
      <4> QED BY <3>4, <4>3
    <3>7. CASE flags # {0, 1}
      <4>1. Cells' = stored
        BY <2>6, <3>1, <3>7 DEF filled
      <4>2. ~ ({x, x + 1} \subseteq GivenInputs')
        BY <3>6, <3>7
      <4> QED BY <2>1, <3>2, <3>3, <4>1, <4>2 DEF Flat!Write, Cells
    <3>8. CASE flags = {0, 1}
      <4>2. {x, x + 1} \subseteq GivenInputs'
        BY <3>6, <3>8
      <4>1. Cells' = Flat!WithOutputs(stored, x)
        <5> DEFINE b0 == inv * 5
                   m == page[b0] % U32
                   n == page[b0 + 1] % U32
        <5>1. /\ b0 \in Nat /\ b0 + 4 \in 0 .. BITWISE_PAGE_LEN - 1
              /\ x = BITWISE_MEM_BASE + b0 /\ x \in Nat
          BY <1>1, <2>2, PagesAssumption DEF BITWISE_PAGE_LEN
        <5>2. x \in Addrs /\ x + 1 \in Addrs
          BY <4>2 DEF GivenInputs
        <5>3. low_u64(stored[x]) = page[b0] /\ low_u64(stored[x + 1]) = page[b0 + 1]
          <6>1. /\ stored[x] = from_u64(Lookup(page, x - BITWISE_MEM_BASE, 0))
                /\ stored[x + 1] = from_u64(Lookup(page, (x + 1) - BITWISE_MEM_BASE, 0))
            <7>1. x >= BITWISE_MEM_BASE /\ x + 1 >= BITWISE_MEM_BASE
              BY <1>1, <5>1
            <7> HIDE DEF x, stored, page
            <7> QED BY <2>4, <5>2, <7>1
          <6>2. x - BITWISE_MEM_BASE = b0 /\ (x + 1) - BITWISE_MEM_BASE = b0 + 1
            BY <1>1, <5>1
          <6>3. b0 \in DOMAIN page /\ b0 + 1 \in DOMAIN page
            BY <1>1, <2>3, <5>1 DEF PageType
          <6> HIDE DEF x, stored, page, b0
          <6> QED BY <6>1, <6>2, <6>3, FeltValues DEF Lookup
        <5>4. bitwise' = [i \in DOMAIN page |->
                CASE i = b0 + 2 -> and[<<m, n>>]
                  [] i = b0 + 3 -> xor(m, n)
                  [] i = b0 + 4 -> or(m, n)
                  [] OTHER -> page[i]]
          BY <3>1, <3>8 DEF filled, auto_fill
        <5> DEFINE output(b) == CASE b = x + 2 -> Flat!and[<<m, n>>]
                                  [] b = x + 3 -> Flat!xor(m, n)
                                  [] b = x + 4 -> Flat!or(m, n)
        <5>5. Flat!WithOutputs(stored, x) =
                [b \in Addrs |-> IF b \in {x + 2, x + 3, x + 4} THEN from_u64(output(b))
                                 ELSE stored[b]]
          BY <5>3 DEF Flat!WithOutputs, Flat!low_u64, low_u64, Flat!from_u64, from_u64
        <5>6. ASSUME NEW b \in Addrs
              PROVE  get_felt(b)' = IF b \in {x + 2, x + 3, x + 4} THEN from_u64(output(b))
                                    ELSE stored[b]
          <6>1. b \in Nat
            BY <1>1
          <6>2. CASE b < BITWISE_MEM_BASE
            <7>1. b \notin {x + 2, x + 3, x + 4}
              BY <1>1, <5>1, <6>1, <6>2
            <7> QED BY <2>5, <6>2, <7>1
          <6>3. CASE b >= BITWISE_MEM_BASE
            <7> DEFINE i == b - BITWISE_MEM_BASE
            <7>1. /\ i = b0 + 2 <=> b = x + 2
                  /\ i = b0 + 3 <=> b = x + 3
                  /\ i = b0 + 4 <=> b = x + 4
              BY <1>1, <5>1, <6>1
            <7>2. {b0 + 2, b0 + 3, b0 + 4} \subseteq DOMAIN page
              BY <1>1, <2>3, <5>1 DEF PageType
            <7>3. get_felt(b)' = from_u64(Lookup(bitwise', i, 0))
                  /\ stored[b] = from_u64(Lookup(page, i, 0))
              BY <1>3, <2>4, <6>3
            <7>4. b0 + 2 # b0 + 3 /\ b0 + 2 # b0 + 4 /\ b0 + 3 # b0 + 4
              BY <5>1
            <7>5. /\ DOMAIN bitwise' = DOMAIN page
                  /\ i = b0 + 2 => bitwise'[i] = and[<<m, n>>]
                  /\ i = b0 + 3 => bitwise'[i] = xor(m, n)
                  /\ i = b0 + 4 => bitwise'[i] = or(m, n)
                  /\ i \in DOMAIN page /\ i \notin {b0 + 2, b0 + 3, b0 + 4} =>
                       bitwise'[i] = page[i]
              <8> HIDE DEF i, m, n, page, b0
              <8> QED BY <5>4, <7>2, <7>4
            <7>6. CASE b \in {x + 2, x + 3, x + 4}
              <8>1. output(b) = CASE i = b0 + 2 -> and[<<m, n>>]
                                  [] i = b0 + 3 -> xor(m, n)
                                  [] i = b0 + 4 -> or(m, n)
                BY <7>1, SameFunctions
              <8>2. Lookup(bitwise', i, 0) = output(b)
                <9> HIDE DEF i, m, n, page, b0, output
                <9> QED BY <7>1, <7>2, <7>4, <7>5, <7>6, <8>1 DEF Lookup
              <8> QED BY <7>3, <7>6, <8>2
            <7>7. CASE b \notin {x + 2, x + 3, x + 4}
              <8>1. Lookup(bitwise', i, 0) = Lookup(page, i, 0)
                <9> HIDE DEF i, m, n, page, b0
                <9> QED BY <7>1, <7>5, <7>7 DEF Lookup
              <8> QED BY <7>3, <7>7, <8>1
            <7> QED BY <7>6, <7>7
          <6> QED BY <1>1, <6>1, <6>2, <6>3
        <5> HIDE DEF output, stored, x
        <5> QED BY <5>5, <5>6 DEF Cells
      <4> QED BY <2>1, <3>2, <3>3, <4>1, <4>2 DEF Flat!Write, Cells
    <3> QED BY <3>7, <3>8
  <2> QED BY <2>7, <2>8
<1> QED BY <1>4, <1>5

-----------------------------------------------------------------------------
\* A loaded program is the same memory on both sides.
LEMMA FlatInit == Init => Flat!Init
<1> SUFFICES ASSUME Init PROVE Flat!Init
  OBVIOUS
<1>1. data \in Programs /\ felt_overlay = [a \in {} |-> 0]
      /\ bitwise_flags = [inv \in 0 .. BITWISE_MAX_INV - 1 |-> {}]
  BY DEF Init
<1>2. ASSUME NEW a \in Addrs
      PROVE  get_felt(a) = from_u64(IF a \in DOMAIN data THEN data[a] ELSE 0)
  <2>1. a \in Nat
    BY ValuesAssumption
  <2>2. get(a) = Lookup(data, a, 0)
    <3>1. a \in DOMAIN data => a < SPARSE_MEM_THRESHOLD
      BY InitPages DEF PagesInv, DenseStaysSmall
    <3>2. CASE a >= SPARSE_MEM_THRESHOLD
      <4>1. a \notin DOMAIN data
        BY <2>1, <3>1, <3>2, PagesAssumption
      <4>2. Lookup(high_data, a, 0) = 0 /\ Lookup(bitwise, a - BITWISE_MEM_BASE, 0) = 0
        BY DEF Init, Lookup
      <4> QED BY <3>2, <4>1, <4>2 DEF get, Lookup
    <3>3. CASE ~ (a >= SPARSE_MEM_THRESHOLD)
      <4>1. ~ (a >= BITWISE_MEM_BASE)
        BY <2>1, <3>3, PagesAssumption
      <4> QED BY <3>3, <4>1 DEF get
    <3> QED BY <3>2, <3>3
  <2> QED BY <1>1, <2>2 DEF get_felt, Lookup
<1>3. Cells = Flat!Loaded(data)
  BY <1>2 DEF Cells, Flat!Loaded, Flat!from_u64, from_u64
<1>4. GivenInputs = {}
  <2> SUFFICES ASSUME NEW a \in GivenInputs PROVE FALSE
    OBVIOUS
  <2>1. /\ a \in Addrs /\ a \in BITWISE_MEM_BASE .. BITWISE_END - 1
        /\ (a - BITWISE_MEM_BASE) % 5 \in bitwise_flags[(a - BITWISE_MEM_BASE) \div 5]
    BY DEF GivenInputs
  <2>2. (a - BITWISE_MEM_BASE) \div 5 \in 0 .. BITWISE_MAX_INV - 1
    BY <2>1, PageAddress, ValuesAssumption
  <2> QED BY <1>1, <2>1, <2>2
<1> QED BY <1>1, <1>3, <1>4 DEF Flat!Init, Cells

\* Every write is a write of the flat memory; the allocator changes no cell.
LEMMA FlatNext ==
  ASSUME SegmentsAreDense, RefInv, RefInv', [Next]_vars
  PROVE  Flat!Next \/ UNCHANGED <<Cells, GivenInputs>>
<1>1. Types /\ PagesInv /\ PagesInv'
  BY DEF RefInv, PagesInv
<1>2. CASE alloc_segment \/ UNCHANGED vars
  <2>1. UNCHANGED <<data, high_data, bitwise, bitwise_flags, felt_overlay>>
    BY <1>2 DEF alloc_segment, vars
  <2> QED BY <2>1 DEF Cells, GivenInputs, get_felt, get
<1>3. CASE StoreWord
  <2>1. PICK a \in Addrs, v \in Words : set(a, v)
    BY <1>3 DEF StoreWord
  <2>2. a \in Nat /\ BITWISE_MEM_BASE \in Nat
    BY ValuesAssumption, PagesAssumption
  <2>3. Flat!Write(a, from_u64(v)) \/ UNCHANGED <<Cells, GivenInputs>>
    <3>1. CASE a >= BITWISE_MEM_BASE
      <4>1. set_bitwise(a - BITWISE_MEM_BASE, v) /\ UNCHANGED <<data, high_data, felt_overlay>>
        BY <2>1, <3>1 DEF set
      <4> QED BY <1>1, <3>1, <4>1, PageWrite
    <3>2. CASE ~ (a >= BITWISE_MEM_BASE)
      <4>1. set_low(a, v) /\ UNCHANGED <<bitwise, bitwise_flags>> /\ a < BITWISE_MEM_BASE
        BY <2>1, <2>2, <3>2 DEF set
      <4>2. \A b \in Addrs : get_felt(b)' = IF b = a THEN from_u64(v) ELSE get_felt(b)
        BY <2>2, <4>1, WordRead, ValuesAssumption
      <4> QED BY <4>1, <4>2, LowWrite
    <3> QED BY <3>1, <3>2
  <2>4. Flat!from_u64(v) = from_u64(v)
    BY DEF Flat!from_u64, from_u64
  <2> QED BY <2>3, <2>4 DEF Flat!Next, Flat!WriteWord
<1>4. CASE StoreFelt
  <2>1. PICK a \in Addrs, f \in Felts : a < next_segment_base /\ set_felt(a, f)
    BY <1>4 DEF StoreFelt
  <2>2. a \in Nat /\ f \in Felt
    BY ValuesAssumption DEF Felt
  <2>3. set_felt_low(a, f) /\ a < SPARSE_MEM_THRESHOLD /\ a < BITWISE_MEM_BASE
    BY <1>1, <2>1, <2>2, FeltsAreDense
  <2>4. \A b \in Addrs : get_felt(b)' = IF b = a THEN f ELSE get_felt(b)
    BY <2>2, <2>3, FeltRead, ValuesAssumption
  <2>5. UNCHANGED bitwise_flags
    BY <2>3 DEF set_felt_low
  <2>6. Flat!Write(a, f)
    BY <2>3, <2>4, <2>5, LowWrite
  <2> QED BY <2>3, <2>6 DEF Flat!Next, Flat!WriteFelt
<1> QED BY <1>2, <1>3, <1>4 DEF Next

\* Pages, overlay and auto-fill together are one flat memory (vm.rs:76-92, 130-224),
\* as long as segments lie below the threshold.
THEOREM FlatMemoryCorrect ==
  ASSUME SegmentsAreDense
  PROVE  Spec => IsFlatMemory
<1>1. RefInv /\ [Next]_vars => RefInv'
  BY NextRefInv
<1>2. RefInv /\ RefInv' /\ [Next]_vars => [Flat!Next]_<<Cells, GivenInputs>>
  BY FlatNext
<1> QED BY InitRefInv, FlatInit, <1>1, <1>2, PTL DEF Spec, IsFlatMemory, Flat!Spec, Cells
=============================================================================
