------------------------------ MODULE MCServing ------------------------------
(* Instances of DiffusionServing for TLC.                                  *)
EXTENDS DiffusionServing, TLC

tok == CHOOSE t \in PromptToken : TRUE

Par(s, g, b) == [steps |-> s, gen_length |-> g, block_length |-> b,
                 cfg |-> FALSE]

Req(prompt, par) == [input_token_ids |-> prompt, params |-> par,
                     client_index |-> Client0]

(* Ordering: one-token and two-block requests.                             *)
OrderChoice == {Req(<<tok>>, Par(1, 1, 1)), Req(<<>>, Par(2, 2, 1))}

(* Two front-ends.                                                         *)
ClientChoice == {[Req(<<tok>>, Par(1, 1, 1)) EXCEPT !.client_index = c] : c \in Client}

(* Texts: every split of up to 4 generated tokens into blocks and of a     *)
(* block into steps, more steps than tokens and a mask in the prompt       *)
(* included.                                                               *)
TextChoice ==
  {Req(prompt, Par(s, g, b)) :
     prompt \in {<<tok>>, <<tok, MaskId>>}, s \in 0 .. 8,
     g \in 1 .. 4, b \in 1 .. 4}

(* Faults: good parameters, also with more steps than tokens and with two  *)
(* tokens in one step, beside each way of being rejected.                  *)
FaultChoice ==
  {Req(<<tok>>, par) : par \in {Par(2, 2, 1), Par(3, 1, 1), Par(1, 2, 2),
                                Par(1, 0, 1), Par(1, 1, 0), Par(1, 2, 1),
                                Par(2, 3, 2),
                                [Par(1, 1, 1) EXCEPT !.cfg = TRUE]}}

(* Three requests that are served in some order, or one with any text; the *)
(* callers of the other two then send nothing.                             *)
NotSent == Req(<<>>, Par(1, 1, 1))

OrderOrTextChoice == OrderChoice \cup TextChoice \cup {NotSent}

MCInit ==
  /\ \/ requests \in [ReqId -> OrderChoice]
     \/ \E c \in TextChoice, t \in ReqId :
          requests = [r \in ReqId |-> IF r = t THEN c ELSE NotSent]
  /\ Init

Sent == {r \in ReqId : requests[r] # NotSent}

(* Idle, of those that send.                                               *)
Quiet ==
  /\ \A r \in Sent : client[r] \notin {"new", "open"}
  /\ \A c \in Client : output_queue[c] = <<>>
  /\ pc = "dead" \/ (pc = "input" /\ input_queue = <<>> /\ ~has_active_requests)
  /\ UNCHANGED vars

MCNext ==
  \/ \E r \in Sent : Submit(r) \/ Cancel(r)
  \/ \E c \in Client : ProcessOutput(c)
  \/ Main
  \/ Quiet

MCSpec == MCInit /\ [][MCNext]_vars

Symmetry == Permutations(ReqId) \cup Permutations(Vocab)
=============================================================================
