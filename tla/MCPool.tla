------------------------------- MODULE MCPool -------------------------------
(* The activation pool as the models use it, and a program that calls the   *)
(* methods of a VMMAllocator (vmm_python_binding.cpp) in any order, with    *)
(* ranges at any offset.                                                    *)
EXTENDS ActivationPool

CONSTANT Sizes   \* sizes and offsets the program uses

ASSUME ProgramAssumption == Sizes \subseteq Nat

VARIABLE user    \* who owns the allocator

Program ==
  \/ \E n \in Sizes \ {0} : reserve(n) \/ reserve_raises(n)
  \/ \E o \in Sizes, s \in Sizes \ {0} :
       \/ map_physical(o, s)
       \/ map_physical_raises(o, s)
       \/ unmap_physical(o, s)
  \/ free

MCInit == Init /\ user \in {"pool", "program"}

MCNext ==
  /\ \/ user = "pool" /\ Next
     \/ user = "program" /\ Program /\ UNCHANGED poolVars
  /\ UNCHANGED user

MCSpec == MCInit /\ [][MCNext]_<<vars, user>>
=============================================================================
