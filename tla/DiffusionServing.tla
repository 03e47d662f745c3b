-------------------------- MODULE DiffusionServing --------------------------
(***************************************************************************)
(* Serving in diffusion mode: the front-ends (AsyncLLM, OutputProcessor),  *)
(* the queues to and from the engine process, and the engine's main thread *)
(* (EngineCoreProc.run_busy_loop) driving the DiffusionScheduler and the   *)
(* model runner.                                                           *)
(*                                                                         *)
(* The I/O threads and sockets only forward in order, so a ZeroMQ pipe and *)
(* the queue behind it are one FIFO.  Request ids are fresh per submission *)
(* (random_uuid in api_server.py), so ReqId is a set of submissions.       *)
(***************************************************************************)
EXTENDS DiffusionScheduler

CONSTANTS Client,          \* front-end processes (client_index)
          Client0,         \* the front-end with index 0
          RequestChoice,   \* what a client may send
          ForwardMayFail   \* the forward pass may raise (out of memory)

Request == [input_token_ids : Seq(PromptToken \cup {MaskId}),
            params : Params, client_index : Client]

ASSUME ClientAssumption == Client0 \in Client
ASSUME RequestChoiceAssumption == \A q \in RequestChoice : q \in Request
ASSUME ForwardMayFailAssumption == ForwardMayFail \in BOOLEAN

VARIABLES pc,            \* main thread: "input", "step" or "dead"
          input_queue,   \* messages to the engine
          output_queue,  \* per front-end, messages from the engine
          engine_dead,   \* per front-end, resources.engine_dead
          client,        \* per request, what its caller has seen so far
          received,      \* per request, the tokens its caller received
          emitted        \* history: ids whose output left the engine, in order

clientVars == <<engine_dead, client, received>>
vars == <<requests, pool_ready, schedVars, pc, input_queue, output_queue,
          clientVars, emitted>>

Add(r) == [type |-> "ADD", req_id |-> r]
Abort(r) == [type |-> "ABORT", req_id |-> r]
ENGINE_CORE_DEAD == [type |-> "DEAD"]
Output(r, tail) == [type |-> "OUTPUT", req_id |-> r, tail |-> tail]

ClientOf(r) == requests[r].client_index

Init ==
  /\ requests \in [ReqId -> RequestChoice]
  /\ pool_ready \in PoolChoice
  /\ SchedInit
  /\ pc = "input"
  /\ input_queue = <<>>
  /\ output_queue = [c \in Client |-> <<>>]
  /\ engine_dead = [c \in Client |-> FALSE]
  /\ client = [r \in ReqId |-> "new"]
  /\ received = [r \in ReqId |-> <<>>]
  /\ emitted = <<>>

-----------------------------------------------------------------------------
(* The front-end.                                                          *)

(* AsyncLLM.add_request: register with the OutputProcessor and send ADD.   *)
Submit(r) ==
  /\ client[r] = "new"
  /\ IF engine_dead[ClientOf(r)]
     THEN /\ client' = [client EXCEPT ![r] = "rejected"]
          /\ UNCHANGED input_queue
     ELSE /\ client' = [client EXCEPT ![r] = "open"]
          /\ input_queue' = Append(input_queue, Add(r))
  /\ UNCHANGED <<requests, pool_ready, schedVars, pc, output_queue, engine_dead,
                 received, emitted>>

(* AsyncLLM.abort: forget the request and send ABORT.                      *)
Cancel(r) ==
  /\ client[r] = "open"
  /\ client' = [client EXCEPT ![r] = "aborted"]
  /\ input_queue' = IF engine_dead[ClientOf(r)] THEN input_queue
                    ELSE Append(input_queue, Abort(r))
  /\ UNCHANGED <<requests, pool_ready, schedVars, pc, output_queue, engine_dead,
                 received, emitted>>

(* An output resolves its request; for an unknown id it is ignored.        *)
process_outputs(c, r, tail) ==
  LET known == client[r] = "open" /\ ClientOf(r) = c
  IN  /\ client' = IF known THEN [client EXCEPT ![r] = "done"] ELSE client
      /\ received' = IF known THEN [received EXCEPT ![r] = tail] ELSE received

(* validate_alive and OutputProcessor.propagate_error on ENGINE_CORE_DEAD: *)
(* every request that is still open ends with the error.                   *)
propagate_error(c) ==
  /\ engine_dead' = [engine_dead EXCEPT ![c] = TRUE]
  /\ client' = [r \in ReqId |->
                  IF ClientOf(r) = c /\ client[r] = "open" THEN "error"
                  ELSE client[r]]

(* output_handler, on the next message of the engine.                      *)
ProcessOutput(c) ==
  LET m == Head(output_queue[c])
  IN  /\ output_queue[c] # <<>>
      /\ output_queue' = [output_queue EXCEPT ![c] = Tail(@)]
      /\ \/ /\ m.type = "OUTPUT"
            /\ process_outputs(c, m.req_id, m.tail)
            /\ UNCHANGED engine_dead
         \/ /\ m.type = "DEAD"
            /\ propagate_error(c)
            /\ UNCHANGED received
      /\ UNCHANGED <<requests, pool_ready, schedVars, pc, input_queue, emitted>>

-----------------------------------------------------------------------------
(* The engine's main thread.                                               *)

(* _process_input_queue on ADD: EngineCore.add_request.                    *)
HandleAdd ==
  /\ pc = "input"
  /\ input_queue # <<>>
  /\ Head(input_queue).type = "ADD"
  /\ add_request(Head(input_queue).req_id)
  /\ input_queue' = Tail(input_queue)
  /\ UNCHANGED <<requests, pool_ready, pc, output_queue, clientVars, emitted>>

(* _process_input_queue on ABORT: EngineCore.abort_requests tells the V1   *)
(* scheduler, which knows no request in diffusion mode.                    *)
HandleAbort ==
  /\ pc = "input"
  /\ input_queue # <<>>
  /\ Head(input_queue).type = "ABORT"
  /\ input_queue' = Tail(input_queue)
  /\ UNCHANGED <<requests, pool_ready, schedVars, pc, output_queue, clientVars,
                 emitted>>

(* The input queue is drained and there is work: enter step().             *)
BeginStep ==
  /\ pc = "input"
  /\ input_queue = <<>>
  /\ has_active_requests
  /\ pc' = "step"
  /\ UNCHANGED <<requests, pool_ready, schedVars, input_queue, output_queue,
                 clientVars, emitted>>

(* An iteration of _ensure_running_capacity.                               *)
Migrate ==
  /\ pc = "step"
  /\ can_add_more_requests
  /\ waiting # <<>>
  /\ migrate_one
  /\ UNCHANGED <<requests, pool_ready, pc, input_queue, output_queue, clientVars,
                 emitted>>

(* Faulty variant: the process ends without a word.                        *)
DieSilently ==
  /\ pc' = "dead"
  /\ UNCHANGED <<requests, pool_ready, schedVars, input_queue, output_queue,
                 clientVars, emitted>>

(* An exception in the main thread: run_engine_core sends ENGINE_CORE_DEAD *)
(* to every front-end and the process ends.                                *)
Die ==
  /\ pc' = "dead"
  /\ output_queue' = [c \in Client |-> Append(output_queue[c], ENGINE_CORE_DEAD)]
  /\ UNCHANGED <<requests, pool_ready, schedVars, input_queue, clientVars,
                 emitted>>

(* pop_request on an empty queue raises IndexError.                        *)
MigrateRaises ==
  /\ pc = "step"
  /\ can_add_more_requests
  /\ waiting = <<>>
  /\ Die

(* The models plan memory for the logits of the masked tokens; without any *)
(* the plan has no tensor logits, and tensors['logits'] raises KeyError.   *)
RunnerAccepts(h) ==
  /\ HeadParamsAccepted(states[running[h]].params)
  /\ \A i \in Batch : BatchParamsAccepted(states[running[i]].params)
  /\ OutputMasks(states[running[h]]) # {}

(* step(): the runner returns one update, for the head of the batch; the   *)
(* scheduler applies it; a finished item is sent to front-end 0.           *)
ExecuteDiffusionOnce(h, new_x) ==
  LET r  == running[h]
      st == Advance(states[r], new_x)
  IN  /\ apply_update(h, new_x)
      /\ pc' = "input"
      /\ IF Finished(st)
         THEN /\ output_queue' = [output_queue EXCEPT
                   ![Client0] = Append(@, Output(r, Tail_token_ids(st)))]
              /\ emitted' = Append(emitted, r)
         ELSE UNCHANGED <<output_queue, emitted>>
      /\ UNCHANGED <<requests, pool_ready, input_queue, clientVars>>

Step ==
  /\ pc = "step"
  /\ ~can_add_more_requests
  /\ \E h \in Batch :
       /\ IsBatchHead(h)
       /\ RunnerAccepts(h)
       /\ \E new_x \in NewTexts(states[running[h]]) :
            ExecuteDiffusionOnce(h, new_x)

(* The forward pass is fed the whole batch but lays out its tensors for    *)
(* the lengths of the first request.  With several requests it may compute *)
(* any tokens or raise.                                                    *)
ForwardMayRaise == ForwardMayFail \/ Cardinality(Batch) > 1

(* execute_diffusion_once raises: rejected parameters, or the forward pass *)
(* fails.                                                                  *)
StepRaises ==
  /\ pc = "step"
  /\ ~can_add_more_requests
  /\ \E h \in Batch : IsBatchHead(h) /\ (ForwardMayRaise \/ ~RunnerAccepts(h))
  /\ Die

-----------------------------------------------------------------------------
Main == \/ HandleAdd \/ HandleAbort \/ BeginStep \/ Migrate \/ MigrateRaises
        \/ Step \/ StepRaises

(* Every caller has its answer and the engine waits for input, or is gone. *)
Idle ==
  /\ \A r \in ReqId : client[r] \notin {"new", "open"}
  /\ \A c \in Client : output_queue[c] = <<>>
  /\ pc = "dead" \/ (pc = "input" /\ input_queue = <<>> /\ ~has_active_requests)
  /\ UNCHANGED vars

Next ==
  \/ \E r \in ReqId : Submit(r) \/ Cancel(r)
  \/ \E c \in Client : ProcessOutput(c)
  \/ Main
  \/ Idle

Spec == Init /\ [][Next]_vars

(* The main thread runs as long as it can, and so do the front-ends'       *)
(* output handlers.  Clients need not submit and need not cancel.          *)
Fairness == WF_vars(Main) /\ \A c \in Client : WF_vars(ProcessOutput(c))

FairSpec == Spec /\ Fairness
-----------------------------------------------------------------------------
(* Properties.                                                             *)

Message == [type : {"ADD", "ABORT"}, req_id : ReqId]
OutputMessage == [type : {"OUTPUT"}, req_id : ReqId, tail : Seq(Token)]
                   \cup {ENGINE_CORE_DEAD}
Status == {"new", "open", "done", "aborted", "error", "rejected"}

(* Types of the queues, the scheduler's fields and what the clients see.   *)
TypeOK ==
  /\ requests \in [ReqId -> Request]
  /\ pool_ready \in BOOLEAN
  /\ waiting \in Seq(ReqId)
  /\ running \in Seq(ReqId)
  /\ DOMAIN states \subseteq ReqId
  /\ states \in [DOMAIN states -> DiffusionRuntimeState]
  /\ finished_req_ids \subseteq ReqId
  /\ pc \in {"input", "step", "dead"}
  /\ input_queue \in Seq(Message)
  /\ output_queue \in [Client -> Seq(OutputMessage)]
  /\ engine_dead \in [Client -> BOOLEAN]
  /\ client \in [ReqId -> Status]
  /\ received \in [ReqId -> Seq(Token)]
  /\ emitted \in Seq(ReqId)

(* The requests the engine has taken in, oldest first.                     *)
Accepted == emitted \o running \o waiting

PendingAdds == {i \in 1 .. Len(input_queue) : input_queue[i].type = "ADD"}

(* No request is lost or duplicated between the front-end, the queues and  *)
(* the scheduler's lists: a submitted request that its caller did not      *)
(* abort is in exactly one of the input queue, waiting, running and the    *)
(* outputs; nothing else is there than what was submitted, and nothing     *)
(* twice; and exactly the accepted ones have a runtime state.              *)
Conservation ==
  /\ IsInjective(Accepted)
  /\ \A i, j \in PendingAdds :
       input_queue[i].req_id = input_queue[j].req_id => i = j
  /\ \A i \in PendingAdds : input_queue[i].req_id \notin Range(Accepted)
  /\ \A r \in ReqId :
       LET kept == \/ r \in Range(Accepted)
                   \/ \E i \in PendingAdds : input_queue[i].req_id = r
       IN  /\ client[r] \in {"open", "done", "error"} => kept
           /\ kept => client[r] \notin {"new", "rejected"}
  /\ DOMAIN states = Range(Accepted)

(* The engine is a first-come first-served server: although whole batches  *)
(* are scheduled, requests are completed one by one in arrival order.      *)
Server == INSTANCE FifoServer WITH queue <- running \o waiting,
                                   served <- emitted
ServesInOrder == Server!Spec

StepsTaken(st) == st.block_idx * StepsPerBlock(st.params) + st.step_idx_in_block

(* A running request is unfinished and has denoising steps left; a request *)
(* that left the engine used at most NumBlocks * StepsPerBlock of them.    *)
WithinBudget ==
  /\ \A i \in 1 .. Len(running) :
       LET st == states[running[i]] IN
         /\ st.block_idx < NumBlocks(st.params)
         /\ st.step_idx_in_block < StepsPerBlock(st.params)
  /\ \A i \in 1 .. Len(emitted) :
       LET st == states[emitted[i]] IN
         /\ Finished(st)
         /\ StepsTaken(st) <= NumBlocks(st.params) * StepsPerBlock(st.params)

(* Whatever the network samples, a step never changes the prompt or a      *)
(* token that was already revealed, of any request.                        *)
RevealedIsFinal ==
  [][ \A r \in DOMAIN states :
        /\ r \in DOMAIN states'
        /\ \A i \in 1 .. Len(states[r].x) :
             i <= states[r].prompt_len \/ states[r].x[i] # MaskId
               => states'[r].x[i] = states[r].x[i] ]_vars

(* Decoding is semi-autoregressive: nothing after the current block has    *)
(* been revealed.                                                          *)
BlocksInOrder ==
  \A r \in DOMAIN states :
    \A i \in 1 .. states[r].total_len :
      i > BlockStart(states[r]) + states[r].params.block_length
        => states[r].x[i] = MaskId

(* Positions revealed in a block of n positions after s of `steps` steps.  *)
Revealed(n, steps, s) == s * (n \div steps) + Smaller(s, n % steps)

(* If the network never samples the mask token, the blocks before the      *)
(* current one are fully revealed, and the current one has exactly the     *)
(* masks left that the per-step quotas still owe.                          *)
BlocksComplete ==
  MaskId \notin Vocab =>
    \A r \in DOMAIN states :
      LET st == states[r]
          n  == BlockEnd(st) - BlockStart(st)
      IN  /\ \A i \in (st.prompt_len + 1) .. st.total_len :
               i <= BlockStart(st) => st.x[i] # MaskId
          /\ st.block_idx < NumBlocks(st.params) =>
               Cardinality(MaskedIn(st, Block(st))) =
                 n - Revealed(n, StepsPerBlock(st.params), st.step_idx_in_block)

(* What a caller receives is the generated part of its own text, complete: *)
(* no mask is left in it unless the network sampled one.                   *)
DeliveredIsComplete ==
  \A r \in ReqId : client[r] = "done" =>
    /\ received[r] = Tail_token_ids(states[r])
    /\ MaskId \in Range(received[r]) => MaskId \in Vocab

(* Only a failing forward pass, a missing pool, a request whose own        *)
(* parameters the runner rejects, or two requests being run together can   *)
(* bring the engine down.  Well-formed requests served one at a time are   *)
(* safe.                                                                   *)
OnlyBadRequestsKill ==
  pc = "dead" =>
    \/ ForwardMayFail
    \/ Len(running) > 1
    \/ ~pool_ready
    \/ \E r \in ReqId : client[r] # "new" /\ ~HeadParamsAccepted(requests[r].params)

(* Every caller is eventually answered, by an output, by an error, or by   *)
(* its own cancellation.                                                   *)
EveryRequestAnswered ==
  \A r \in ReqId : client[r] = "open" ~> client[r] # "open"

-----------------------------------------------------------------------------
(* What the comments of the code say, and the code does not do.            *)

(* engine/__init__.py, client_index: outputs go back to the client that    *)
(* sent the request.                                                       *)
OutputsReturnToSender ==
  \A c \in Client : \A i \in 1 .. Len(output_queue[c]) :
    output_queue[c][i].type = "OUTPUT"
      => ClientOf(output_queue[c][i].req_id) = c

(* EngineCore.abort_requests: "Abort requests from the scheduler."  Once   *)
(* the engine has handled the messages about an aborted request, the       *)
(* scheduler no longer computes it.                                        *)
AbortedLeave ==
  pc # "dead" =>
    \A r \in ReqId :
      /\ client[r] = "aborted"
      /\ \A i \in 1 .. Len(input_queue) : input_queue[i].req_id # r
      => r \notin Range(running \o waiting)
=============================================================================
