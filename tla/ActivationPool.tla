--------------------------- MODULE ActivationPool ---------------------------
(***************************************************************************)
(* ActivationMemoryPool (vllm/v1/worker/activation_memory_pool.py) on top  *)
(* of the VMMAllocator, or of torch.empty, and the models' use of it:      *)
(* allocate_activation_tensors_with_reuse_plan catches what the pool       *)
(* raises and returns None, on which the forward pass fails.  The pool is  *)
(* usable afterwards, and here its caller may ask again.                   *)
(***************************************************************************)
EXTENDS VMMAllocator

CONSTANTS UseVMM,        \* use_vmm
          ChunkSize,     \* _vmm_chunk_size
          ConfiguredSizes,  \* VLLM_ACTIVATION_POOL_SIZE_BYTES, if set
          MeasuredSizes,    \* pool sizes derived from the free memory
          Demands           \* _total_buffer_size_bytes of the plans

ASSUME ChunkAssumption == ChunkSize \in Nat \ {0} /\ UseVMM \in BOOLEAN
ASSUME SizesAssumption ==
  /\ ConfiguredSizes \subseteq Nat
  /\ MeasuredSizes \subseteq Nat
  /\ Demands \subseteq Nat

VARIABLES status,                 \* "new", "ready", "failed" or "deleted"
          pool_size,
          current_mapped_size,    \* _current_mapped_size
          granted                 \* bytes of the buffer in use, 0 for none

poolVars == <<status, pool_size, current_mapped_size, granted>>
vars == <<vmmVars, poolVars>>

Init ==
  /\ VMMInit
  /\ status = "new"
  /\ pool_size = 0
  /\ current_mapped_size = 0
  /\ granted = 0

(* The buffer is reserved (_allocate_vmm_pool) or allocated (torch.empty). *)
AllocatePool(n) ==
  /\ status' = "ready"
  /\ pool_size' = n
  /\ current_mapped_size' = 0
  /\ IF UseVMM THEN reserve(n) ELSE UNCHANGED vmmVars

(* initialize_pool with a configured size, or with a measured one, where a *)
(* failure (of a first allocator, then dropped) leads to a smaller retry.  *)
InitializePool ==
  /\ status = "new"
  /\ \E n \in ConfiguredSizes \cup MeasuredSizes : AllocatePool(n)
  /\ UNCHANGED granted

(* The configured size, or also the second try, cannot be had: it raises,  *)
(* before the allocator exists, in reserve or in wrap_as_tensor after it.  *)
InitializeFails ==
  /\ status = "new"
  /\ \E n \in ConfiguredSizes \cup MeasuredSizes :
       /\ status' = "failed"
       /\ pool_size' = n
       /\ \/ UseVMM /\ (reserve_raises(n) \/ reserve(n))
          \/ UNCHANGED vmmVars
  /\ UNCHANGED <<current_mapped_size, granted>>

Smaller(a, b) == IF a < b THEN a ELSE b

(* Faulty variant: rounded up to whole chunks, beyond the pool.            *)
NewMappedUnbounded(n) == ((n + ChunkSize - 1) \div ChunkSize) * ChunkSize

(* _ensure_mapped: the new mapped size.                                    *)
NewMapped(n) ==
  Smaller(((n + ChunkSize - 1) \div ChunkSize) * ChunkSize, pool_size)

MustMap(n) == UseVMM /\ n > current_mapped_size /\ NewMapped(n) > current_mapped_size

(* allocate_for_tokens_with_size                                           *)
Allocate(n) ==
  /\ status = "ready"
  /\ n <= pool_size
  /\ granted' = n
  /\ IF MustMap(n)
     THEN /\ map_physical(0, NewMapped(n))
          /\ current_mapped_size' = NewMapped(n)
     ELSE UNCHANGED <<vmmVars, current_mapped_size>>
  /\ UNCHANGED <<status, pool_size>>

(* Faulty variant: _current_mapped_size is assigned before the mapping.    *)
AllocateRaisesEarly(n) ==
  /\ status = "ready"
  /\ n <= pool_size
  /\ MustMap(n)
  /\ map_physical_raises(0, NewMapped(n))
  /\ current_mapped_size' = NewMapped(n)
  /\ granted' = 0
  /\ UNCHANGED <<status, pool_size>>

(* The mapping fails: there is no buffer for this forward pass.            *)
AllocateRaises(n) ==
  /\ status = "ready"
  /\ n <= pool_size
  /\ MustMap(n)
  /\ map_physical_raises(0, NewMapped(n))
  /\ granted' = 0
  /\ UNCHANGED <<status, pool_size, current_mapped_size>>

(* The plan is larger than the pool.                                       *)
AllocateRejected(n) ==
  /\ status = "ready"
  /\ n > pool_size
  /\ granted' = 0
  /\ UNCHANGED <<vmmVars, status, pool_size, current_mapped_size>>

(* __del__                                                                 *)
Delete ==
  /\ status \in {"ready", "failed"}
  /\ status' = "deleted"
  /\ granted' = 0
  /\ IF UseVMM /\ initialized THEN free ELSE UNCHANGED vmmVars
  /\ UNCHANGED <<pool_size, current_mapped_size>>

Next ==
  \/ InitializePool
  \/ InitializeFails
  \/ \E n \in Demands : Allocate(n) \/ AllocateRaises(n) \/ AllocateRejected(n)
  \/ Delete

Spec == Init /\ [][Next]_vars
-----------------------------------------------------------------------------
(* Properties.                                                             *)

(* However often mappings failed before, a buffer that is handed out is    *)
(* backed by accessible memory to its last byte.                           *)
BufferBacked ==
  UseVMM => \A p \in Pages(0, granted) : p \in accessible

(* A demand that passed the pool's own check is never rejected by the      *)
(* allocator: rounding to chunks and to pages stays within the reservation.*)
NeverRejected ==
  UseVMM /\ status = "ready" =>
    \A n \in Demands : n <= pool_size /\ MustMap(n)
      => ~MapRejected(0, NewMapped(n))

(* Running out of memory loses nothing: until the driver fails a legal     *)
(* call, the physical pages held are those in use by the pool.             *)
HeldIsMapped ==
  ~faulted /\ status = "ready" => held = Cardinality(accessible)
=============================================================================
