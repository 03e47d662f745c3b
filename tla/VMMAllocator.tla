---------------------------- MODULE VMMAllocator ----------------------------
(***************************************************************************)
(* VMMAllocator (vmm_allocator/vmm_allocator.cpp): a range of virtual      *)
(* addresses that is backed by physical memory from its start upwards.     *)
(*                                                                         *)
(* Sizes and offsets are bytes from the start of the range; the CUDA       *)
(* driver works on pages of Granularity bytes.  The driver is external:    *)
(* cuMemCreate may run out of memory, and any other call may fail.         *)
(***************************************************************************)
EXTENDS Integers, FiniteSets

CONSTANTS Granularity,    \* page size
          DevicePages     \* physical pages of the device

ASSUME GranularityAssumption == Granularity \in Nat \ {0}
ASSUME DeviceAssumption == DevicePages \in Nat

VARIABLES initialized, reserved_size, mapped_size,   \* the object's fields
          mappings,     \* driver: mapped page sets, one per cuMemMap
          accessible,   \* driver: pages with read and write access
          held,         \* driver: physical pages whose handle is not released
          unmapped,     \* history: pages the caller asked to unmap
          faulted       \* history: the driver failed a legal call

vmmVars == <<initialized, reserved_size, mapped_size, mappings, accessible,
             held, unmapped, faulted>>

align_up(n) == ((n + Granularity - 1) \div Granularity) * Granularity

Pages(a, b) == {p \in 0 .. b : a <= p * Granularity /\ p * Granularity < b}

Mapped == UNION mappings

VMMInit ==
  /\ initialized = FALSE
  /\ reserved_size = 0
  /\ mapped_size = 0
  /\ mappings = {}
  /\ accessible = {}
  /\ held = 0
  /\ unmapped = {}
  /\ faulted = FALSE

(* A new range of addresses, without mappings; whatever may be left mapped *)
(* in an earlier range is out of reach.                                    *)
reserve(n) ==
  /\ ~initialized
  /\ initialized' = TRUE
  /\ reserved_size' = align_up(n)
  /\ mapped_size' = 0
  /\ mappings' = {}
  /\ accessible' = {}
  /\ unmapped' = {}
  /\ UNCHANGED <<held, faulted>>

(* cuMemAddressReserve fails, after reserved_size was assigned.            *)
reserve_raises(n) ==
  /\ ~initialized
  /\ reserved_size' = align_up(n)
  /\ UNCHANGED <<initialized, mapped_size, mappings, accessible, held,
                 unmapped, faulted>>

MapEnd(o, s) == align_up(o) + align_up(s)

(* Faulty variant: mapping starts at the offset asked for.                 *)
NewPagesFromOffset(o, s) == Pages(align_up(o), MapEnd(o, s))

(* The pages map_physical has to add.                                      *)
NewPages(o, s) == Pages(mapped_size, MapEnd(o, s))

MapNeeded(o, s) ==
  /\ initialized
  /\ MapEnd(o, s) <= reserved_size
  /\ MapEnd(o, s) > mapped_size

cuMemCreate(o, s) ==
  /\ held + Cardinality(NewPages(o, s)) <= DevicePages
  /\ held' = held + Cardinality(NewPages(o, s))

(* map_physical returns: the range was mapped before, or is now.           *)
map_physical(o, s) ==
  /\ \/ /\ initialized
        /\ MapEnd(o, s) <= reserved_size
        /\ MapEnd(o, s) <= mapped_size
        /\ UNCHANGED <<mapped_size, mappings, accessible, held>>
     \/ /\ MapNeeded(o, s)
        /\ cuMemCreate(o, s)
        /\ NewPages(o, s) \cap Mapped = {}
        /\ mappings' = mappings \cup {NewPages(o, s)}
        /\ accessible' = accessible \cup NewPages(o, s)
        /\ mapped_size' = MapEnd(o, s)
  /\ UNCHANGED <<initialized, reserved_size, unmapped, faulted>>

MapRejected(o, s) == ~initialized \/ MapEnd(o, s) > reserved_size

(* Faulty variant: mapped_size is advanced before the access is granted.   *)
AccessFailsLate(o, s) ==
  /\ MapNeeded(o, s)
  /\ cuMemCreate(o, s)
  /\ NewPages(o, s) \cap Mapped = {}
  /\ mappings' = mappings \cup {NewPages(o, s)}
  /\ mapped_size' = MapEnd(o, s)
  /\ faulted' = TRUE
  /\ UNCHANGED <<initialized, reserved_size, accessible, unmapped>>

(* cuMemSetAccess fails: the pages are mapped but not accessible.          *)
AccessFails(o, s) ==
  /\ MapNeeded(o, s)
  /\ cuMemCreate(o, s)
  /\ NewPages(o, s) \cap Mapped = {}
  /\ mappings' = mappings \cup {NewPages(o, s)}
  /\ faulted' = TRUE
  /\ UNCHANGED <<initialized, reserved_size, mapped_size, accessible, unmapped>>

(* map_physical raises: the call is rejected; the device is full or in use *)
(* by others; cuMemMap fails (always if a page is mapped already) and the  *)
(* new handle is lost; or the access cannot be granted.                    *)
map_physical_raises(o, s) ==
  \/ /\ MapRejected(o, s)
     /\ UNCHANGED vmmVars
  \/ /\ MapNeeded(o, s)
     /\ UNCHANGED vmmVars
  \/ /\ MapNeeded(o, s)
     /\ cuMemCreate(o, s)
     /\ faulted' = (faulted \/ NewPages(o, s) \cap Mapped = {})
     /\ UNCHANGED <<initialized, reserved_size, mapped_size, mappings,
                    accessible, unmapped>>
  \/ AccessFails(o, s)

(* cuMemUnmap works on whole mappings.                                     *)
CanUnmap(P) ==
  LET hit == {m \in mappings : m \cap P # {}}
  IN  UNION hit = P

(* unmap_physical: the pages lose their backing, mapped_size stays.        *)
unmap_physical(o, s) ==
  LET P == Pages(align_up(o), MapEnd(o, s))
  IN  /\ initialized
      /\ MapEnd(o, s) <= mapped_size
      /\ CanUnmap(P)
      /\ mappings' = {m \in mappings : m \cap P = {}}
      /\ accessible' = accessible \ P
      /\ unmapped' = unmapped \cup P
      /\ UNCHANGED <<initialized, reserved_size, mapped_size, held, faulted>>

(* free: a failing cuMemUnmap is ignored; handles are never released.      *)
free ==
  LET P  == Pages(0, mapped_size)
      ok == mapped_size > 0 /\ CanUnmap(P)
  IN  /\ initialized
      /\ mappings' = IF ok THEN {m \in mappings : m \cap P = {}} ELSE mappings
      /\ accessible' = IF ok THEN accessible \ P ELSE accessible
      /\ reserved_size' = 0
      /\ mapped_size' = 0
      /\ initialized' = FALSE
      /\ UNCHANGED <<held, unmapped, faulted>>
-----------------------------------------------------------------------------
(* Properties.                                                             *)

(* Whatever fails on the way, the accessible pages are those below         *)
(* mapped_size that the caller has not unmapped.                           *)
AccessibleIsPrefix ==
  initialized => accessible = Pages(0, mapped_size) \ unmapped
=============================================================================
