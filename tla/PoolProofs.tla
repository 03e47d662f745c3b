----------------------------- MODULE PoolProofs -----------------------------
(* Proofs about the activation pool and the VMMAllocator, for every page    *)
(* size, chunk size, device and pool size and all demands, and for every    *)
(* sequence of calls of a program that uses the allocator directly.         *)
EXTENDS MCPool, FiniteSetTheorems, TLAPS

-----------------------------------------------------------------------------
(* Rounding and pages.                                                      *)

(* Division rounds down.                                                    *)
LEMMA DivBounds ==
  ASSUME NEW a \in Nat, NEW d \in Nat \ {0}
  PROVE  /\ a \div d \in Nat
         /\ (a \div d) * d \in Nat
         /\ (a \div d) * d <= a
         /\ a < (a \div d) * d + d
OBVIOUS

LEMMA DivMonotone ==
  ASSUME NEW a \in Nat, NEW b \in Nat, a <= b, NEW d \in Nat \ {0}
  PROVE  (a \div d) * d <= (b \div d) * d
<1> DEFINE q == a \div d
           r == b \div d
<1>1. /\ q \in Nat /\ r \in Nat /\ q * d \in Nat /\ r * d \in Nat
      /\ q * d <= a /\ b < r * d + d
  BY DivBounds
<1> HIDE DEF q, r
<1>2. q * d < (r + 1) * d
  BY <1>1
<1>3. q < r + 1
  BY <1>1, <1>2
<1>4. q <= r
  BY <1>1, <1>3
<1>5. QED
  BY <1>1, <1>4 DEF q, r

(* Rounding up to pages, and to chunks, never rounds down.                  *)
LEMMA RoundUp ==
  ASSUME NEW n \in Nat, NEW d \in Nat \ {0}
  PROVE  /\ ((n + d - 1) \div d) * d \in Nat
         /\ n <= ((n + d - 1) \div d) * d
<1>1. n + d - 1 \in Nat
  OBVIOUS
<1>2. QED
  BY <1>1, DivBounds

LEMMA AlignUp ==
  ASSUME NEW n \in Nat
  PROVE  align_up(n) \in Nat /\ n <= align_up(n)
BY GranularityAssumption, RoundUp DEF align_up

LEMMA AlignUpMonotone ==
  ASSUME NEW m \in Nat, NEW n \in Nat, m <= n
  PROVE  align_up(m) <= align_up(n)
<1>1. /\ m + Granularity - 1 \in Nat /\ n + Granularity - 1 \in Nat
      /\ m + Granularity - 1 <= n + Granularity - 1
  BY GranularityAssumption
<1>2. QED
  BY <1>1, GranularityAssumption, DivMonotone DEF align_up

LEMMA AlignUpZero == align_up(0) = 0
<1> DEFINE q == (0 + Granularity - 1) \div Granularity
<1>1. 0 + Granularity - 1 \in Nat
  BY GranularityAssumption
<1>2. q \in Nat /\ q * Granularity <= Granularity - 1
  BY <1>1, GranularityAssumption, DivBounds
<1>3. align_up(0) = q * Granularity
  BY DEF align_up
<1> HIDE DEF q
<1>4. q = 0
  BY <1>2, GranularityAssumption
<1>5. QED
  BY <1>3, <1>4, GranularityAssumption

LEMMA MapEndFacts ==
  ASSUME NEW o \in Nat, NEW s \in Nat
  PROVE  /\ MapEnd(o, s) \in Nat
         /\ MapEnd(0, s) = align_up(s)
BY AlignUp, AlignUpZero DEF MapEnd

(* A page is below b when its first byte is.                                *)
LEMMA PageBelow ==
  ASSUME NEW b \in Nat, NEW p \in Nat, p * Granularity < b
  PROVE  p \in 0 .. b
<1>1. p <= p * Granularity
  BY GranularityAssumption
<1>2. p * Granularity \in Nat
  BY GranularityAssumption
<1>3. QED
  BY <1>1, <1>2

(* Pages below e are those below m and those from m to e.                   *)
LEMMA PagesSplit ==
  ASSUME NEW m \in Nat, NEW e \in Nat, m <= e
  PROVE  /\ Pages(0, e) = Pages(0, m) \cup Pages(m, e)
         /\ Pages(0, m) \cap Pages(m, e) = {}
         /\ Pages(0, m) \subseteq Pages(0, e)
<1>1. \A p \in Nat : p * Granularity \in Nat
  BY GranularityAssumption
<1>2. \A p \in Nat : p * Granularity < m => p \in 0 .. m /\ p \in 0 .. e
  BY PageBelow
<1>3. Pages(0, e) \subseteq Pages(0, m) \cup Pages(m, e)
  <2>1. SUFFICES ASSUME NEW p \in Pages(0, e) PROVE p \in Pages(0, m) \cup Pages(m, e)
    OBVIOUS
  <2>2. p \in 0 .. e /\ p \in Nat /\ p * Granularity \in Nat /\ p * Granularity < e
    BY <1>1 DEF Pages
  <2>3. CASE p * Granularity < m
    BY <1>2, <2>2, <2>3 DEF Pages
  <2>4. CASE ~(p * Granularity < m)
    BY <2>2, <2>4 DEF Pages
  <2>5. QED
    BY <2>3, <2>4
<1>4. Pages(0, m) \subseteq Pages(0, e)
  <2>1. SUFFICES ASSUME NEW p \in Pages(0, m) PROVE p \in Pages(0, e)
    OBVIOUS
  <2>2. p \in 0 .. m /\ p \in Nat /\ p * Granularity \in Nat /\ p * Granularity < m
    BY <1>1 DEF Pages
  <2>3. QED
    BY <1>2, <2>2 DEF Pages
<1>5. Pages(m, e) \subseteq Pages(0, e)
  <2>1. SUFFICES ASSUME NEW p \in Pages(m, e) PROVE p \in Pages(0, e)
    OBVIOUS
  <2>2. p \in 0 .. e /\ p \in Nat /\ p * Granularity \in Nat /\ p * Granularity < e
    BY <1>1 DEF Pages
  <2>3. QED
    BY <2>2 DEF Pages
<1>6. ASSUME NEW p \in Pages(0, m), p \in Pages(m, e) PROVE FALSE
  <2>1. p \in Nat /\ p * Granularity \in Nat /\ p * Granularity < m /\ m <= p * Granularity
    BY <1>1, <1>6 DEF Pages
  <2>2. QED
    BY <2>1
<1>7. QED
  BY <1>3, <1>4, <1>5, <1>6

LEMMA PagesFinite ==
  ASSUME NEW a \in Nat, NEW b \in Nat
  PROVE  /\ IsFiniteSet(Pages(a, b))
         /\ Cardinality(Pages(a, b)) \in Nat
<1>1. IsFiniteSet(0 .. b)
  BY FS_Interval
<1>2. Pages(a, b) \subseteq 0 .. b
  BY DEF Pages
<1>3. IsFiniteSet(Pages(a, b))
  BY <1>1, <1>2, FS_Subset
<1>4. QED
  BY <1>3, FS_CardinalityType

LEMMA NoPages == Pages(0, 0) = {}
<1>1. \A p \in Nat : p * Granularity \in Nat
  BY GranularityAssumption
<1>2. QED
  BY <1>1 DEF Pages

-----------------------------------------------------------------------------
(* The allocator, whoever calls it.                                         *)

(* AccessibleIsPrefix, with the types it needs and the fact that nothing    *)
(* above mapped_size was ever asked to be unmapped in this reservation.     *)
VMMInv ==
  /\ initialized \in BOOLEAN /\ faulted \in BOOLEAN
  /\ reserved_size \in Nat /\ mapped_size \in Nat /\ held \in Nat
  /\ AccessibleIsPrefix
  /\ initialized => unmapped \subseteq Pages(0, mapped_size)

LEMMA VMMReserve ==
  ASSUME VMMInv, NEW n \in Nat, reserve(n) \/ reserve_raises(n)
  PROVE  VMMInv'
<1>1. align_up(n) \in Nat
  BY AlignUp
<1>2. CASE reserve(n)
  BY <1>1, <1>2, NoPages DEF VMMInv, AccessibleIsPrefix, reserve
<1>3. CASE reserve_raises(n)
  BY <1>1, <1>3 DEF VMMInv, AccessibleIsPrefix, reserve_raises
<1>4. QED
  BY <1>2, <1>3

(* The new pages of map_physical are the ones between mapped_size and its   *)
(* new value.                                                               *)
LEMMA NewPagesFacts ==
  ASSUME VMMInv, NEW o \in Nat, NEW s \in Nat, MapNeeded(o, s)
  PROVE  /\ MapEnd(o, s) \in Nat /\ mapped_size <= MapEnd(o, s) /\ initialized
         /\ Pages(0, MapEnd(o, s)) = Pages(0, mapped_size) \cup NewPages(o, s)
         /\ Pages(0, mapped_size) \cap NewPages(o, s) = {}
         /\ IsFiniteSet(NewPages(o, s)) /\ Cardinality(NewPages(o, s)) \in Nat
<1>1. MapEnd(o, s) \in Nat /\ mapped_size \in Nat /\ mapped_size <= MapEnd(o, s) /\ initialized
  BY MapEndFacts DEF VMMInv, MapNeeded
<1>2. QED
  BY <1>1, PagesSplit, PagesFinite, Zenon DEF NewPages

LEMMA VMMMap ==
  ASSUME VMMInv, NEW o \in Nat, NEW s \in Nat, map_physical(o, s)
  PROVE  VMMInv'
<1>1. CASE MapEnd(o, s) <= mapped_size /\ UNCHANGED <<mapped_size, mappings, accessible, held>>
  BY <1>1 DEF VMMInv, AccessibleIsPrefix, map_physical
<1>2. CASE /\ MapNeeded(o, s)
           /\ cuMemCreate(o, s)
           /\ accessible' = accessible \cup NewPages(o, s)
           /\ mapped_size' = MapEnd(o, s)
  <2>1. UNCHANGED <<initialized, reserved_size, unmapped, faulted>>
    BY DEF map_physical
  <2>2. /\ MapEnd(o, s) \in Nat /\ initialized
        /\ Pages(0, MapEnd(o, s)) = Pages(0, mapped_size) \cup NewPages(o, s)
        /\ Pages(0, mapped_size) \cap NewPages(o, s) = {}
        /\ Cardinality(NewPages(o, s)) \in Nat
    BY <1>2, NewPagesFacts
  <2>3. accessible' = Pages(0, mapped_size') \ unmapped'
    BY <1>2, <2>1, <2>2 DEF VMMInv, AccessibleIsPrefix
  <2>4. unmapped' \subseteq Pages(0, mapped_size')
    BY <1>2, <2>1, <2>2 DEF VMMInv
  <2>5. held' \in Nat
    BY <1>2, <2>2 DEF VMMInv, cuMemCreate
  <2>6. QED
    BY <1>2, <2>1, <2>2, <2>3, <2>4, <2>5 DEF VMMInv, AccessibleIsPrefix
<1>3. QED
  BY <1>1, <1>2 DEF map_physical

LEMMA VMMMapRaises ==
  ASSUME VMMInv, NEW o \in Nat, NEW s \in Nat, map_physical_raises(o, s)
  PROVE  /\ VMMInv'
         /\ UNCHANGED <<initialized, reserved_size, mapped_size, accessible, unmapped>>
<1>1. UNCHANGED <<initialized, reserved_size, mapped_size, accessible, unmapped>>
  BY DEF map_physical_raises, AccessFails, vmmVars
<1>2. held' \in Nat /\ faulted' \in BOOLEAN
  <2>1. CASE UNCHANGED vmmVars
    BY <2>1 DEF vmmVars, VMMInv
  <2>2. CASE /\ MapNeeded(o, s) /\ cuMemCreate(o, s)
             /\ \/ faulted' = (faulted \/ NewPages(o, s) \cap Mapped = {})
                \/ faulted' = TRUE
    <3>1. held' \in Nat
      BY <2>2, NewPagesFacts DEF VMMInv, cuMemCreate
    <3>2. faulted' \in BOOLEAN
      BY <2>2, Zenon
    <3>3. QED
      BY <3>1, <3>2
  <2>3. QED
    BY <2>1, <2>2, Zenon DEF map_physical_raises, AccessFails
<1>3. QED
  BY <1>1, <1>2 DEF VMMInv, AccessibleIsPrefix

LEMMA VMMUnmap ==
  ASSUME VMMInv, NEW o \in Nat, NEW s \in Nat, unmap_physical(o, s)
  PROVE  VMMInv'
<1> DEFINE P == Pages(align_up(o), MapEnd(o, s))
<1>1. /\ MapEnd(o, s) <= mapped_size /\ accessible' = accessible \ P
      /\ unmapped' = unmapped \cup P
      /\ UNCHANGED <<initialized, reserved_size, mapped_size, held, faulted>>
  BY DEF unmap_physical
<1>2. P \subseteq Pages(0, mapped_size)
  <2>1. align_up(o) \in Nat /\ MapEnd(o, s) \in Nat /\ align_up(o) <= MapEnd(o, s)
    BY AlignUp, MapEndFacts DEF MapEnd
  <2>2. P \subseteq Pages(0, MapEnd(o, s))
    BY <2>1, PagesSplit
  <2>3. Pages(0, MapEnd(o, s)) \subseteq Pages(0, mapped_size)
    BY <1>1, <2>1, PagesSplit DEF VMMInv
  <2>4. QED
    BY <2>2, <2>3
<1> HIDE DEF P
<1>3. initialized => accessible' = Pages(0, mapped_size) \ unmapped'
  BY <1>1 DEF VMMInv, AccessibleIsPrefix
<1>4. QED
  BY <1>1, <1>2, <1>3 DEF VMMInv, AccessibleIsPrefix

LEMMA VMMFree ==
  ASSUME VMMInv, free
  PROVE  VMMInv' /\ ~initialized'
BY Zenon DEF VMMInv, AccessibleIsPrefix, free

LEMMA VMMFrame ==
  ASSUME VMMInv, UNCHANGED vmmVars
  PROVE  VMMInv'
BY DEF VMMInv, AccessibleIsPrefix, vmmVars

-----------------------------------------------------------------------------
(* The pool.                                                                *)

(* A ready pool has reserved whole pages for pool_size bytes, the buffer in *)
(* use ends where the pool believes it has mapped memory, and the allocator *)
(* has mapped at least that; nothing was unmapped.  Until the driver fails  *)
(* a legal call, every mapped page is accessible and every page held is     *)
(* mapped.  A pool that is not ready has no buffer in use.                  *)
PoolInv ==
  /\ VMMInv
  /\ status \in {"new", "ready", "failed", "deleted"}
  /\ pool_size \in Nat /\ current_mapped_size \in Nat /\ granted \in Nat
  /\ user \in {"pool", "program"}
  /\ user = "program" => status = "new"
  /\ status # "ready" => granted = 0
  /\ user = "pool" /\ status = "new" =>
       ~initialized /\ held = 0 /\ accessible = {} /\ mappings = {}
  /\ status = "ready" /\ UseVMM =>
       /\ initialized /\ unmapped = {}
       /\ reserved_size = align_up(pool_size)
       /\ granted <= current_mapped_size
       /\ current_mapped_size <= mapped_size
  /\ status = "ready" /\ ~UseVMM => held = 0 /\ accessible = {}
  /\ status = "ready" /\ UseVMM /\ ~faulted =>
       Mapped = accessible /\ held = Cardinality(accessible)

LEMMA PoolInit == MCInit => PoolInv
<1> SUFFICES ASSUME MCInit PROVE PoolInv
  OBVIOUS
<1>1. VMMInv
  BY Zenon DEF MCInit, Init, VMMInit, VMMInv, AccessibleIsPrefix
<1>2. QED
  BY <1>1 DEF MCInit, Init, VMMInit, PoolInv

(* initialize_pool                                                          *)
LEMMA PoolInitialize ==
  ASSUME PoolInv, user = "pool", InitializePool, UNCHANGED user
  PROVE  PoolInv'
<1>1. PICK n \in ConfiguredSizes \cup MeasuredSizes : AllocatePool(n)
  BY DEF InitializePool
<1>2. n \in Nat /\ status = "new" /\ granted' = granted
  BY SizesAssumption DEF InitializePool
<1>3. status' = "ready" /\ pool_size' = n /\ current_mapped_size' = 0 /\ granted' = 0
  BY <1>1, <1>2 DEF AllocatePool, PoolInv
<1>4. CASE UseVMM
  <2>1. reserve(n)
    BY <1>1, <1>4 DEF AllocatePool
  <2>2. VMMInv'
    BY <1>2, <2>1, VMMReserve DEF PoolInv
  <2>3. /\ initialized' /\ unmapped' = {} /\ reserved_size' = align_up(n)
        /\ mapped_size' = 0 /\ held' = 0 /\ mappings' = {} /\ accessible' = {}
    BY <1>2, <2>1 DEF reserve, PoolInv
  <2>4. Mapped' = accessible' /\ held' = Cardinality(accessible')
    BY <2>3, FS_EmptySet DEF Mapped
  <2>5. QED
    BY <1>2, <1>3, <1>4, <2>2, <2>3, <2>4 DEF PoolInv
<1>5. CASE ~UseVMM
  <2>1. UNCHANGED vmmVars
    BY <1>1, <1>5 DEF AllocatePool
  <2>2. VMMInv'
    BY <2>1, VMMFrame DEF PoolInv
  <2>3. held' = 0 /\ accessible' = {}
    BY <1>2, <2>1 DEF vmmVars, PoolInv
  <2>4. QED
    BY <1>2, <1>3, <1>5, <2>2, <2>3 DEF PoolInv
<1>6. QED
  BY <1>4, <1>5

LEMMA PoolInitializeFails ==
  ASSUME PoolInv, user = "pool", InitializeFails, UNCHANGED user
  PROVE  PoolInv'
<1>1. PICK n \in ConfiguredSizes \cup MeasuredSizes :
         /\ status' = "failed" /\ pool_size' = n
         /\ reserve_raises(n) \/ reserve(n) \/ UNCHANGED vmmVars
  BY DEF InitializeFails
<1>2. n \in Nat /\ UNCHANGED <<current_mapped_size, granted>> /\ status = "new"
  BY SizesAssumption DEF InitializeFails
<1>3. VMMInv'
  BY <1>1, <1>2, VMMReserve, VMMFrame DEF PoolInv
<1>4. QED
  BY <1>1, <1>2, <1>3 DEF PoolInv

(* What _ensure_mapped asks for: at least the demand, at most the pool.     *)
LEMMA NewMappedFacts ==
  ASSUME NEW n \in Nat, pool_size \in Nat, n <= pool_size
  PROVE  /\ NewMapped(n) \in Nat
         /\ n <= NewMapped(n)
         /\ NewMapped(n) <= pool_size
<1> DEFINE up == ((n + ChunkSize - 1) \div ChunkSize) * ChunkSize
<1>1. up \in Nat /\ n <= up
  BY ChunkAssumption, RoundUp
<1>2. NewMapped(n) = Smaller(up, pool_size)
  BY DEF NewMapped
<1> HIDE DEF up
<1>3. QED
  BY <1>1, <1>2 DEF Smaller

(* allocate_for_tokens_with_size grants a buffer that ends where memory is  *)
(* mapped, whether it had to map more or not.                               *)
LEMMA PoolAllocate ==
  ASSUME PoolInv, user = "pool", NEW n \in Nat, Allocate(n), UNCHANGED user
  PROVE  PoolInv'
<1>1. /\ status = "ready" /\ n <= pool_size /\ granted' = n
      /\ UNCHANGED <<status, pool_size>>
  BY DEF Allocate
<1>2. NewMapped(n) \in Nat /\ n <= NewMapped(n) /\ NewMapped(n) <= pool_size
  BY <1>1, NewMappedFacts DEF PoolInv
<1>3. CASE MustMap(n)
  <2>1. map_physical(0, NewMapped(n)) /\ current_mapped_size' = NewMapped(n) /\ UseVMM
    BY <1>3 DEF Allocate, MustMap
  <2>2. VMMInv'
    BY <1>2, <2>1, VMMMap DEF PoolInv
  <2>3. MapEnd(0, NewMapped(n)) = align_up(NewMapped(n)) /\ align_up(NewMapped(n)) \in Nat
        /\ NewMapped(n) <= align_up(NewMapped(n))
    BY <1>2, MapEndFacts, AlignUp
  <2>4. UNCHANGED <<initialized, reserved_size, unmapped, faulted>>
    BY <2>1 DEF map_physical
  <2>5. NewMapped(n) <= mapped_size'
    <3>1. mapped_size \in Nat
      BY DEF PoolInv, VMMInv
    <3>2. QED
      BY <1>2, <2>1, <2>3, <3>1 DEF map_physical
  <2>6. ~faulted' => Mapped' = accessible' /\ held' = Cardinality(accessible')
    <3>1. SUFFICES ASSUME ~faulted
                   PROVE  Mapped' = accessible' /\ held' = Cardinality(accessible')
      BY <2>4
    <3>2. Mapped = accessible /\ held = Cardinality(accessible)
      BY <1>1, <2>1, <3>1 DEF PoolInv
    <3>3. CASE UNCHANGED <<mapped_size, mappings, accessible, held>>
      BY <3>2, <3>3 DEF Mapped
    <3>4. CASE /\ MapNeeded(0, NewMapped(n))
               /\ cuMemCreate(0, NewMapped(n))
               /\ mappings' = mappings \cup {NewPages(0, NewMapped(n))}
               /\ accessible' = accessible \cup NewPages(0, NewMapped(n))
      <4> DEFINE N == NewPages(0, NewMapped(n))
      <4>1. /\ Pages(0, mapped_size) \cap N = {} /\ IsFiniteSet(N) /\ initialized
            /\ Cardinality(N) \in Nat
        BY <1>2, <3>4, NewPagesFacts DEF PoolInv
      <4>2. accessible = Pages(0, mapped_size) /\ IsFiniteSet(accessible)
        <5>1. accessible = Pages(0, mapped_size)
          BY <1>1, <2>1, <4>1 DEF PoolInv, VMMInv, AccessibleIsPrefix
        <5>2. QED
          BY <5>1, PagesFinite DEF PoolInv, VMMInv
      <4>3. held' = held + Cardinality(N) /\ accessible' = accessible \cup N
            /\ mappings' = mappings \cup {N}
        BY <3>4 DEF cuMemCreate
      <4> HIDE DEF N
      <4>4. Mapped' = Mapped \cup N
        BY <4>3 DEF Mapped
      <4>5. Cardinality(accessible \cup N) = Cardinality(accessible) + Cardinality(N)
        <5>1. accessible \cap N = {}
          BY <4>1, <4>2
        <5>2. Cardinality(accessible \cap N) = 0
          BY <5>1, FS_EmptySet, Zenon
        <5>3. Cardinality(accessible \cup N)
                = Cardinality(accessible) + Cardinality(N) - Cardinality(accessible \cap N)
          BY <4>1, <4>2, FS_Union, Zenon
        <5>4. Cardinality(accessible) \in Nat
          BY <4>2, FS_CardinalityType
        <5>5. QED
          BY <4>1, <5>2, <5>3, <5>4
      <4>6. QED
        BY <3>2, <4>3, <4>4, <4>5
    <3>5. QED
      BY <2>1, <3>3, <3>4 DEF map_physical
  <2>7. QED
    BY <1>1, <1>2, <2>1, <2>2, <2>4, <2>5, <2>6 DEF PoolInv
<1>4. CASE ~MustMap(n)
  <2>1. UNCHANGED <<vmmVars, current_mapped_size>>
    BY <1>4 DEF Allocate
  <2>2. VMMInv' /\ Mapped' = Mapped
    BY <2>1, VMMFrame DEF PoolInv, Mapped, vmmVars
  <2>3. UseVMM => n <= current_mapped_size
    BY <1>1, <1>2, <1>4 DEF MustMap, PoolInv
  <2>4. QED
    BY <1>1, <2>1, <2>2, <2>3 DEF PoolInv, vmmVars
<1>5. QED
  BY <1>3, <1>4

(* A failed mapping leaves the pool as it was, without a buffer; unless the *)
(* driver failed a legal call, nothing was taken from the device.           *)
LEMMA PoolAllocateRaises ==
  ASSUME PoolInv, user = "pool", NEW n \in Nat, AllocateRaises(n), UNCHANGED user
  PROVE  PoolInv'
<1> DEFINE s == NewMapped(n)
<1>1. /\ status = "ready" /\ n <= pool_size /\ MustMap(n) /\ UseVMM /\ granted' = 0
      /\ UNCHANGED <<status, pool_size, current_mapped_size>>
      /\ map_physical_raises(0, s)
  BY DEF AllocateRaises, MustMap
<1>2. s \in Nat
  BY <1>1, NewMappedFacts DEF PoolInv
<1> HIDE DEF s
<1>3. /\ VMMInv'
      /\ UNCHANGED <<initialized, reserved_size, mapped_size, accessible, unmapped>>
  BY <1>1, <1>2, VMMMapRaises, Zenon DEF PoolInv
<1>4. ~faulted' => ~faulted /\ Mapped' = Mapped /\ held' = held
  <2>1. CASE UNCHANGED vmmVars
    BY <2>1 DEF vmmVars, Mapped
  <2>2. CASE faulted' = TRUE
    BY <2>2
  <2>3. CASE MapNeeded(0, s) /\ faulted' = (faulted \/ NewPages(0, s) \cap Mapped = {})
    <3>1. CASE faulted
      BY <2>3, <3>1, Zenon
    <3>2. CASE ~faulted
      <4>1. Mapped = accessible /\ accessible = Pages(0, mapped_size)
        BY <1>1, <3>2 DEF PoolInv, VMMInv, AccessibleIsPrefix
      <4>2. NewPages(0, s) \cap Mapped = {}
        BY <1>2, <2>3, <4>1, NewPagesFacts DEF PoolInv
      <4>3. QED
        BY <2>3, <4>2, Zenon
    <3>3. QED
      BY <3>1, <3>2
  <2>4. QED
    BY <1>1, <2>1, <2>2, <2>3 DEF map_physical_raises, AccessFails
<1>5. QED
  BY <1>1, <1>3, <1>4 DEF PoolInv

LEMMA PoolAllocateRejected ==
  ASSUME PoolInv, user = "pool", NEW n \in Nat, AllocateRejected(n), UNCHANGED user
  PROVE  PoolInv'
<1>1. UNCHANGED <<vmmVars, status, pool_size, current_mapped_size>> /\ granted' = 0
  BY DEF AllocateRejected
<1>2. VMMInv' /\ Mapped' = Mapped
  BY <1>1, VMMFrame DEF PoolInv, Mapped, vmmVars
<1>3. QED
  BY <1>1, <1>2 DEF PoolInv, vmmVars

LEMMA PoolDelete ==
  ASSUME PoolInv, user = "pool", Delete, UNCHANGED user
  PROVE  PoolInv'
<1>1. /\ status' = "deleted" /\ granted' = 0 /\ UNCHANGED <<pool_size, current_mapped_size>>
      /\ free \/ UNCHANGED vmmVars
  BY DEF Delete
<1>2. VMMInv'
  BY <1>1, VMMFree, VMMFrame DEF PoolInv
<1>3. QED
  BY <1>1, <1>2 DEF PoolInv

LEMMA PoolProgram ==
  ASSUME PoolInv, user = "program", Program, UNCHANGED poolVars, UNCHANGED user
  PROVE  PoolInv'
<1>1. Sizes \subseteq Nat
  BY ProgramAssumption
<1>2. VMMInv
  BY DEF PoolInv
<1>3. ASSUME NEW n \in Sizes \ {0}, reserve(n) \/ reserve_raises(n) PROVE VMMInv'
  BY <1>1, <1>2, <1>3, VMMReserve
<1>4. ASSUME NEW o \in Sizes, NEW s \in Sizes \ {0}, map_physical(o, s) PROVE VMMInv'
  <2>1. o \in Nat /\ s \in Nat
    BY <1>1
  <2>2. QED
    BY <1>2, <1>4, <2>1, VMMMap
<1>5. ASSUME NEW o \in Sizes, NEW s \in Sizes \ {0}, map_physical_raises(o, s) PROVE VMMInv'
  <2>1. o \in Nat /\ s \in Nat
    BY <1>1
  <2>2. QED
    BY <1>2, <1>5, <2>1, VMMMapRaises
<1>6. ASSUME NEW o \in Sizes, NEW s \in Sizes \ {0}, unmap_physical(o, s) PROVE VMMInv'
  <2>1. o \in Nat /\ s \in Nat
    BY <1>1
  <2>2. QED
    BY <1>2, <1>6, <2>1, VMMUnmap
<1>7. ASSUME free PROVE VMMInv'
  BY <1>2, <1>7, VMMFree
<1>8. VMMInv'
  BY <1>3, <1>4, <1>5, <1>6, <1>7 DEF Program
<1>9. QED
  BY <1>8 DEF PoolInv, poolVars

LEMMA PoolNext == PoolInv /\ [MCNext]_<<vars, user>> => PoolInv'
<1> SUFFICES ASSUME PoolInv, [MCNext]_<<vars, user>> PROVE PoolInv'
  OBVIOUS
<1>1. CASE UNCHANGED <<vars, user>>
  <2>1. VMMInv' /\ Mapped' = Mapped
    BY <1>1, VMMFrame DEF PoolInv, vars, vmmVars, Mapped
  <2>2. QED
    BY <1>1, <2>1 DEF PoolInv, vars, vmmVars, poolVars
<1>2. CASE user = "program" /\ Program /\ UNCHANGED poolVars /\ UNCHANGED user
  BY <1>2, PoolProgram
<1>3. CASE user = "pool" /\ Next /\ UNCHANGED user
  <2>1. ASSUME NEW n \in Demands, Allocate(n) \/ AllocateRaises(n) \/ AllocateRejected(n)
        PROVE  PoolInv'
    <3>1. n \in Nat
      BY SizesAssumption
    <3>2. QED
      BY <1>3, <2>1, <3>1, PoolAllocate, PoolAllocateRaises, PoolAllocateRejected
  <2>2. CASE InitializePool \/ InitializeFails \/ Delete
    BY <1>3, <2>2, PoolInitialize, PoolInitializeFails, PoolDelete
  <2>3. QED
    BY <1>3, <2>1, <2>2 DEF Next
<1>4. QED
  BY <1>1, <1>2, <1>3 DEF MCNext

LEMMA PoolInvariant == MCSpec => []PoolInv
BY PoolInit, PoolNext, PTL DEF MCSpec

-----------------------------------------------------------------------------
(* AccessibleIsPrefix: whatever sequence of VMMAllocator calls is made, and *)
(* whichever of them the driver fails, the accessible pages are those below *)
(* mapped_size that were not unmapped, so map_physical's early return may   *)
(* rely on mapped_size.                                                     *)
THEOREM Prefix == MCSpec => []AccessibleIsPrefix
BY PoolInvariant, PTL DEF PoolInv, VMMInv

(* BufferBacked: a buffer that allocate_for_tokens_with_size hands out is   *)
(* backed to its last byte, however chunks, pages and the pool's size       *)
(* divide and however many mappings failed before.                          *)
THEOREM Backed == MCSpec => []BufferBacked
<1>1. PoolInv => BufferBacked
  <2> SUFFICES ASSUME PoolInv, UseVMM PROVE Pages(0, granted) \subseteq accessible
    BY DEF BufferBacked
  <2>1. CASE status = "ready"
    <3>1. granted <= mapped_size /\ granted \in Nat /\ mapped_size \in Nat
      BY <2>1 DEF PoolInv, VMMInv
    <3>2. accessible = Pages(0, mapped_size)
      BY <2>1 DEF PoolInv, VMMInv, AccessibleIsPrefix
    <3>3. QED
      BY <3>1, <3>2, PagesSplit
  <2>2. CASE status # "ready"
    BY <2>2, NoPages DEF PoolInv
  <2>3. QED
    BY <2>1, <2>2
<1>2. QED
  BY <1>1, PoolInvariant, PTL

(* NeverRejected: what _ensure_mapped asks for after rounding to chunks is  *)
(* within the reservation after rounding to pages, so map_physical never    *)
(* refuses a demand that fits the pool.                                     *)
THEOREM NotRejected == MCSpec => []NeverRejected
<1>1. PoolInv => NeverRejected
  <2> SUFFICES ASSUME PoolInv, UseVMM, status = "ready", NEW n \in Demands, n <= pool_size
               PROVE  ~MapRejected(0, NewMapped(n))
    BY DEF NeverRejected
  <2>1. /\ NewMapped(n) \in Nat /\ NewMapped(n) <= pool_size /\ pool_size \in Nat
    BY NewMappedFacts, SizesAssumption DEF PoolInv
  <2>2. MapEnd(0, NewMapped(n)) <= reserved_size /\ initialized
    BY <2>1, AlignUpMonotone, MapEndFacts DEF PoolInv
  <2>3. MapEnd(0, NewMapped(n)) \in Nat /\ reserved_size \in Nat
    BY <2>1, MapEndFacts DEF PoolInv, VMMInv
  <2>4. QED
    BY <2>2, <2>3 DEF MapRejected
<1>2. QED
  BY <1>1, PoolInvariant, PTL

(* HeldIsMapped: a mapping that fails because the device is full takes no   *)
(* memory with it; handles are lost only when the driver fails a legal      *)
(* cuMemMap or cuMemSetAccess.                                              *)
THEOREM HeldMapped == MCSpec => []HeldIsMapped
<1>1. PoolInv => HeldIsMapped
  BY FS_EmptySet DEF PoolInv, HeldIsMapped
<1>2. QED
  BY <1>1, PoolInvariant, PTL
=============================================================================
