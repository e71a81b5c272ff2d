------------------------------ MODULE VmMemory ------------------------------
(***************************************************************************)
(* Memory of src/src/cairo_air/vm.rs: a dense vector for low addresses, a  *)
(* sparse map for high ones, a page for the bitwise builtin, and an        *)
(* overlay that holds the felts a u64 word cannot.  The writers are the    *)
(* VM's step and the hints, which write words anywhere, and the syscalls,  *)
(* which write felts into the program's own memory and into segments of    *)
(* the bump allocator.                                                     *)
(***************************************************************************)
EXTENDS Integers, FiniteSets

CONSTANTS
  SPARSE_MEM_THRESHOLD, BITWISE_MEM_BASE, BITWISE_MAX_INV,
  SEGMENT_BASE_DEFAULT, SEGMENT_SIZE,
  SegmentsEnd,           \* bound: the segments a program allocates end here
  Addrs,                 \* the addresses in use
  U32,                   \* 2^32
  Programs,              \* programs that may be loaded
  Words, Felts           \* values written

ASSUME PagesAssumption ==
  /\ SPARSE_MEM_THRESHOLD \in Nat /\ BITWISE_MEM_BASE \in Nat /\ BITWISE_MAX_INV \in Nat
  /\ SPARSE_MEM_THRESHOLD <= BITWISE_MEM_BASE
  /\ SEGMENT_BASE_DEFAULT \in Nat /\ SEGMENT_SIZE \in Nat /\ SegmentsEnd \in Nat
  /\ SEGMENT_BASE_DEFAULT <= SegmentsEnd /\ SegmentsEnd <= BITWISE_MEM_BASE
  /\ SEGMENT_BASE_DEFAULT <= SPARSE_MEM_THRESHOLD

ASSUME ValuesAssumption ==
  /\ Addrs \subseteq Nat /\ U32 \in Nat \ {0}
  /\ Words \subseteq Nat /\ Felts \subseteq Nat \X Nat
  /\ \A p \in Programs : p \in [DOMAIN p -> Nat]
       /\ \A i \in DOMAIN p : i \in Nat /\ i < SEGMENT_BASE_DEFAULT /\ 0 .. i \subseteq DOMAIN p

VARIABLES
  data,                  \* dense words, 0 .. n-1 -> word
  high_data,             \* sparse words
  bitwise,               \* the builtin's page: offset -> word
  bitwise_flags,         \* invocation -> inputs written
  felt_overlay,          \* address -> felt that exceeds a word
  next_segment_base

vars == <<data, high_data, bitwise, bitwise_flags, felt_overlay, next_segment_base>>

BITWISE_PAGE_LEN == BITWISE_MAX_INV * 5
BITWISE_END == BITWISE_MEM_BASE + BITWISE_PAGE_LEN

Felt == Nat \X Nat
from_u64(n) == <<0, n>>
low_u64(f) == f[2]
fits_u64(f) == f[1] = 0

Lookup(f, k, default) == IF k \in DOMAIN f THEN f[k] ELSE default
Insert(f, k, v) == [x \in DOMAIN f \cup {k} |-> IF x = k THEN v ELSE f[x]]
Remove(f, k) == [x \in DOMAIN f \ {k} |-> f[x]]

get(a) ==
  IF a >= BITWISE_MEM_BASE THEN Lookup(bitwise, a - BITWISE_MEM_BASE, 0)
  ELSE IF a >= SPARSE_MEM_THRESHOLD THEN Lookup(high_data, a, 0)
  ELSE Lookup(data, a, 0)

get_felt(a) == IF a \in DOMAIN felt_overlay THEN felt_overlay[a] ELSE from_u64(get(a))

\* The page reads 0 before it is allocated, so it is kept from the start.
Init ==
  /\ data \in Programs
  /\ high_data = [a \in {} |-> 0] /\ felt_overlay = [a \in {} |-> 0]
  /\ bitwise = [o \in 0 .. BITWISE_PAGE_LEN - 1 |-> 0]
  /\ bitwise_flags = [inv \in 0 .. BITWISE_MAX_INV - 1 |-> {}]
  /\ next_segment_base = SEGMENT_BASE_DEFAULT

alloc_segment ==
  /\ next_segment_base + SEGMENT_SIZE <= SegmentsEnd
  /\ next_segment_base' = next_segment_base + SEGMENT_SIZE
  /\ UNCHANGED <<data, high_data, bitwise, bitwise_flags, felt_overlay>>

-----------------------------------------------------------------------------
\* The builtin.

and[p \in Nat \X Nat] ==
  IF 0 \in {p[1], p[2]} THEN 0
  ELSE 2 * and[<<p[1] \div 2, p[2] \div 2>>] + (p[1] % 2) * (p[2] % 2)
or(x, y) == x + y - and[<<x, y>>]
xor(x, y) == or(x, y) - and[<<x, y>>]

\* An invocation filled as soon as its second input is written, whatever the first.
filled_on_y(page, inv, flags) == 1 \in flags
filled(page, inv, flags) == flags = {0, 1}

auto_fill(page, inv) ==
  LET b == inv * 5
      x == page[b] % U32
      y == page[b + 1] % U32
  IN [o \in DOMAIN page |->
        CASE o = b + 2 -> and[<<x, y>>]
          [] o = b + 3 -> xor(x, y)
          [] o = b + 4 -> or(x, y)
          [] OTHER -> page[o]]

\* An offset of the page is written; an offset beyond it is ignored.
set_bitwise(offset, val) ==
  LET inv == offset \div 5
      cell == offset % 5
      page == [bitwise EXCEPT ![offset] = val]
      flags == bitwise_flags[inv] \cup {cell}
  IN
  IF offset \notin DOMAIN bitwise THEN UNCHANGED <<bitwise, bitwise_flags>>
  ELSE IF cell >= 2 THEN bitwise' = page /\ UNCHANGED bitwise_flags
  ELSE /\ bitwise_flags' = [bitwise_flags EXCEPT ![inv] = flags]
       /\ bitwise' = IF filled(page, inv, flags) THEN auto_fill(page, inv) ELSE page

-----------------------------------------------------------------------------
\* Words and felts.

\* The vector grown to hold index i, with v there.
resized(i, v) == [j \in DOMAIN data \cup 0 .. i |-> IF j = i THEN v ELSE Lookup(data, j, 0)]

\* A write that leaves the overlay as it was, ...
set_low_keeping_overlay(a, v) ==
  /\ UNCHANGED felt_overlay
  /\ IF a >= SPARSE_MEM_THRESHOLD
     THEN /\ high_data' = IF v = 0 THEN Remove(high_data, a) ELSE Insert(high_data, a, v)
          /\ UNCHANGED data
     ELSE data' = resized(a, v) /\ UNCHANGED high_data
\* ... and one that ends the dense page one address too late.
set_low_past_threshold(a, v) ==
  /\ felt_overlay' = Remove(felt_overlay, a)
  /\ IF a > SPARSE_MEM_THRESHOLD
     THEN /\ high_data' = IF v = 0 THEN Remove(high_data, a) ELSE Insert(high_data, a, v)
          /\ UNCHANGED data
     ELSE data' = resized(a, v) /\ UNCHANGED high_data

\* A write below the builtin's page.
set_low(a, v) ==
  /\ felt_overlay' = Remove(felt_overlay, a)
  /\ IF a >= SPARSE_MEM_THRESHOLD
     THEN /\ high_data' = IF v = 0 THEN Remove(high_data, a) ELSE Insert(high_data, a, v)
          /\ UNCHANGED data
     ELSE data' = resized(a, v) /\ UNCHANGED high_data

set(a, v) ==
  /\ IF a >= BITWISE_MEM_BASE
     THEN set_bitwise(a - BITWISE_MEM_BASE, v) /\ UNCHANGED <<data, high_data, felt_overlay>>
     ELSE set_low(a, v) /\ UNCHANGED <<bitwise, bitwise_flags>>
  /\ UNCHANGED next_segment_base

\* The felt is written to the dense vector, also at an address that get looks up
\* in the sparse map.
set_felt_low(a, f) ==
  /\ data' = resized(a, low_u64(f))
  /\ felt_overlay' = IF fits_u64(f) THEN Remove(felt_overlay, a)
                     ELSE Insert(felt_overlay, a, f)
  /\ UNCHANGED <<high_data, bitwise, bitwise_flags, next_segment_base>>

set_felt(a, f) ==
  IF a >= BITWISE_MEM_BASE THEN set(a, low_u64(f)) ELSE set_felt_low(a, f)

\* The VM's step or a hint writes a word; a syscall writes a felt to memory the
\* program owns.
StoreWord == \E a \in Addrs, v \in Words : set(a, v)
StoreFelt == \E a \in Addrs, f \in Felts : a < next_segment_base /\ set_felt(a, f)

Next == alloc_segment \/ StoreWord \/ StoreFelt
Spec == Init /\ [][Next]_vars

-----------------------------------------------------------------------------
\* Properties.

\* The shape of Memory (vm.rs:76-92): a vector without holes, a sparse map
\* without zeros, an overlay of felts that need it.
TypeOK ==
  /\ \A i \in DOMAIN data : i \in Nat /\ 0 .. i \subseteq DOMAIN data /\ data[i] \in Nat
  /\ \A a \in DOMAIN high_data : a \in Nat /\ high_data[a] \in Nat \ {0}
  /\ DOMAIN bitwise = 0 .. BITWISE_PAGE_LEN - 1
  /\ bitwise_flags \in [0 .. BITWISE_MAX_INV - 1 -> SUBSET {0, 1}]
  /\ \A a \in DOMAIN felt_overlay :
       a \in Nat /\ felt_overlay[a] \in Felt /\ ~ fits_u64(felt_overlay[a])
  /\ next_segment_base \in Nat

\* "The u64 store at the same address carries low_u64" (vm.rs:89-90): the VM, which
\* reads words, and the hints, which read felts, see one value in every cell.
ViewsAgree == \A a \in Addrs : get(a) = low_u64(get_felt(a))

\* "This prevents a naive set(0x4000_0000, x) from allocating 8 GiB into data"
\* (vm.rs:69-70): the vector never grows past the threshold.
DenseStaysSmall == \A i \in DOMAIN data : i < SPARSE_MEM_THRESHOLD

\* Pages, overlay and auto-fill together are one flat memory: a read of any cell
\* gives the last write to it.
GivenInputs ==
  {a \in Addrs : /\ a \in BITWISE_MEM_BASE .. BITWISE_END - 1
                 /\ LET offset == a - BITWISE_MEM_BASE
                    IN offset % 5 \in bitwise_flags[offset \div 5]}
Flat == INSTANCE FlatMemory WITH
          cells <- [a \in Addrs |-> get_felt(a)], given <- GivenInputs
IsFlatMemory == Flat!Spec
=============================================================================
