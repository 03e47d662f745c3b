----------------------------- MODULE FifoServer -----------------------------
(***************************************************************************)
(* What the diffusion engine promises its clients: a first-come            *)
(* first-served server.  Accepted requests form a queue, and each request  *)
(* is completed exactly once, in the order of acceptance.                  *)
(***************************************************************************)
EXTENDS Sequences

CONSTANT ReqId

VARIABLES queue,    \* accepted and not completed
          served    \* completed, in order

Init == queue = <<>> /\ served = <<>>

Accept(r) == queue' = Append(queue, r) /\ UNCHANGED served

Serve ==
  /\ queue # <<>>
  /\ served' = Append(served, Head(queue))
  /\ queue' = Tail(queue)

Next == Serve \/ \E r \in ReqId : Accept(r)

Spec == Init /\ [][Next]_<<queue, served>>
=============================================================================
