----------------------------- MODULE EngineClient -----------------------------
(* AsyncLLM over AsyncMPClient (vllm/v1/engine/async_llm.py, core_client.py)  *)
(* as seen by whoever waits for an answer: requests, utility calls, the       *)
(* output task, the output handler, the thread that monitors the engine       *)
(* process, and shutdown. An action of the event loop runs up to the next     *)
(* suspension; the monitor is a thread of its own. A generate that is         *)
(* cancelled is modelled in DiffusionServing, not here.                       *)
EXTENDS Naturals, Sequences

CONSTANTS
  Request,     \* calls of generate
  Utility      \* calls of call_utility_async

VARIABLES
  request,         \* request[r]: what generate(r) has come to
  utility,         \* utility[u]: the future of utility call u
  inbox,           \* messages for the engine: input socket and input queue
  outbox,          \* messages from the engine: output queue and output socket
  outputs_queue,   \* outputs_queue of the client
  output_task,     \* EngineCoreOutputQueueTask
  output_handler,  \* output_handler task of AsyncLLM
  engine_dead,     \* resources.engine_dead
  client           \* MPClientEngineMonitor thread and shutdown

clientVars == <<request, utility, inbox, outbox, outputs_queue, output_task,
                output_handler, engine_dead, client>>

ClientInit ==
  /\ request = [r \in Request |-> "new"]
  /\ utility = [u \in Utility |-> "new"]
  /\ inbox = <<>>
  /\ outbox = <<>>
  /\ outputs_queue = <<>>
  /\ output_task = "running"
  /\ output_handler = "running"
  /\ engine_dead = FALSE
  /\ client = "starting"

Msg(type, of) == [type |-> type, of |-> of]

(* The event loop is free: the client is constructed, and shutdown, which   *)
(* does not yield, is not under way.                                        *)
LoopRuns == client \in {"watching", "closing", "done", "shut"}
errored == engine_dead \/ output_handler = "done"

-----------------------------------------------------------------------------
(* generate: raise when errored, else register the request and send ADD.    *)
AddRequest(r) ==
  /\ LoopRuns
  /\ request[r] = "new"
  /\ \/ /\ errored
        /\ request' = [request EXCEPT ![r] = "dead_error"]
        /\ UNCHANGED inbox
     \/ /\ ~errored
        /\ request' = [request EXCEPT ![r] = "open"]
        /\ inbox' = Append(inbox, Msg("ADD", r))
  /\ UNCHANGED <<utility, outbox, outputs_queue, output_task, output_handler,
                 engine_dead, client>>

(* abort: drop the request here and, unless it is dead, in the engine.      *)
Abort(r, outcome) ==
  /\ request' = [request EXCEPT ![r] = outcome]
  /\ inbox' = IF engine_dead THEN inbox ELSE Append(inbox, Msg("ABORT", r))

(* generate finds an exception in its queue: EngineDeadError as it is,      *)
(* anything else after an abort as EngineGenerateError.                     *)
GenerateRaises(r) ==
  /\ LoopRuns
  /\ \/ /\ request[r] = "got_dead"
        /\ request' = [request EXCEPT ![r] = "dead_error"]
        /\ UNCHANGED inbox
     \/ /\ request[r] = "got_error"
        /\ Abort(r, "generate_error")
  /\ UNCHANGED <<utility, outbox, outputs_queue, output_task, output_handler,
                 engine_dead, client>>

(* _call_utility_async: raise when dead, else send and await the future.    *)
CallUtility(u) ==
  /\ LoopRuns
  /\ utility[u] = "new"
  /\ \/ /\ engine_dead
        /\ utility' = [utility EXCEPT ![u] = "failed"]
        /\ UNCHANGED inbox
     \/ /\ ~engine_dead
        /\ utility' = [utility EXCEPT ![u] = "waiting"]
        /\ inbox' = Append(inbox, Msg("UTILITY", u))
  /\ UNCHANGED <<request, outbox, outputs_queue, output_task, output_handler,
                 engine_dead, client>>

(* The caller's task is cancelled while it awaits the future.               *)
CancelUtility(u) ==
  /\ LoopRuns
  /\ utility[u] = "waiting"
  /\ utility' = [utility EXCEPT ![u] = "cancelled"]
  /\ UNCHANGED <<request, inbox, outbox, outputs_queue, output_task,
                 output_handler, engine_dead, client>>

-----------------------------------------------------------------------------
(* process_outputs_socket: one message.                                     *)

Forward(item, task) ==
  /\ outputs_queue' = Append(outputs_queue, item)
  /\ output_task' = task

(* validate_alive                                                           *)
ReceiveDead(msg) ==
  /\ msg.type = "DEAD"
  /\ engine_dead' = TRUE
  /\ Forward(Msg("error", msg.of), "done")
  /\ UNCHANGED utility

(* Faulty variant: the failure of a method is raised in the output task.    *)
ReceiveUtilityRaising(msg) ==
  /\ \/ /\ msg.type = "result"
        /\ utility' = [utility EXCEPT ![msg.of] = "answered"]
        /\ UNCHANGED <<outputs_queue, output_task>>
     \/ /\ msg.type = "failure"
        /\ utility' = [utility EXCEPT ![msg.of] = "failed"]
        /\ Forward(Msg("error", msg.of), "done")
  /\ UNCHANGED engine_dead

(* _process_utility_output: set the future; one that was cancelled raises   *)
(* InvalidStateError, which ends the task.                                  *)
ReceiveUtility(msg) ==
  /\ msg.type \in {"result", "failure"}
  /\ \/ /\ utility[msg.of] = "waiting"
        /\ utility' = [utility EXCEPT ![msg.of] =
                         IF msg.type = "result" THEN "answered" ELSE "failed"]
        /\ UNCHANGED <<outputs_queue, output_task>>
     \/ /\ utility[msg.of] = "cancelled"
        /\ Forward(Msg("error", msg.of), "done")
        /\ UNCHANGED utility
  /\ UNCHANGED engine_dead

ReceiveOutput(msg) ==
  /\ msg.type = "output"
  /\ Forward(msg, output_task)
  /\ UNCHANGED <<utility, engine_dead>>

Receive ==
  /\ LoopRuns
  /\ output_task = "running"
  /\ outbox # <<>>
  /\ outbox' = Tail(outbox)
  /\ LET msg == Head(outbox) IN
       ReceiveDead(msg) \/ ReceiveUtility(msg) \/ ReceiveOutput(msg)
  /\ UNCHANGED <<request, inbox, output_handler, client>>

(* Faulty variant: a cancelled output task just ends.                       *)
ReceiveCancelledSilent ==
  /\ LoopRuns
  /\ output_task = "cancelled"
  /\ output_task' = "done"
  /\ UNCHANGED <<request, utility, inbox, outbox, outputs_queue,
                 output_handler, engine_dead, client>>

(* CancelledError: the client shut down.                                    *)
ReceiveCancelled ==
  /\ LoopRuns
  /\ output_task = "cancelled"
  /\ Forward(Msg("error", "cancel"), "done")
  /\ UNCHANGED <<request, utility, inbox, outbox, output_handler, engine_dead,
                 client>>

(* output_handler: one output, or the exception that ends it, which         *)
(* _format_exception makes an EngineDeadError if the engine is dead and     *)
(* propagate_error puts into the queue of every request.                    *)
Open == {r \in Request : request[r] = "open"}
Propagate ==
  /\ output_handler' = "done"
  /\ request' = [r \in Request |->
                   CASE r \notin Open -> request[r]
                     [] r \in Open /\ engine_dead -> "got_dead"
                     [] r \in Open /\ ~engine_dead -> "got_error"]

Handle ==
  /\ LoopRuns
  /\ output_handler = "running"
  /\ outputs_queue # <<>>
  /\ outputs_queue' = Tail(outputs_queue)
  /\ LET item == Head(outputs_queue) IN
     \/ /\ item.type = "output"
        /\ request' = [r \in Request |->
                         IF r = item.of /\ r \in Open THEN "done" ELSE request[r]]
        /\ UNCHANGED output_handler
     \/ /\ item.type = "error"
        /\ Propagate
  /\ UNCHANGED <<utility, inbox, outbox, output_task, engine_dead, client>>

-----------------------------------------------------------------------------
(* monitor_engine_cores, a thread: the engine process is gone.              *)
MonitorSees ==
  /\ client = "watching"
  /\ engine_dead' = TRUE
  /\ client' = IF engine_dead THEN "done" ELSE "closing"
  /\ UNCHANGED <<request, utility, inbox, outbox, outputs_queue, output_task,
                 output_handler>>

(* Cancelling the output task and closing the sockets, unread messages and  *)
(* all.                                                                     *)
CloseSockets ==
  /\ output_task' = IF output_task = "running" THEN "cancelled" ELSE output_task
  /\ outbox' = <<>>

(* BackgroundResources.__call__ from the monitor.                           *)
MonitorCloses ==
  /\ client = "closing"
  /\ client' = "done"
  /\ CloseSockets
  /\ UNCHANGED <<request, utility, inbox, outputs_queue, output_handler,
                 engine_dead>>

(* AsyncLLM.shutdown: terminate the engine process and wait for it, without *)
(* yielding ...                                                             *)
Shutdown ==
  /\ client = "watching"
  /\ client' = "joining"
  /\ engine_dead' = TRUE
  /\ UNCHANGED <<request, utility, inbox, outbox, outputs_queue, output_task,
                 output_handler>>

(* ... then close, and cancel the output task before it has forwarded its   *)
(* CancelledError to the output handler, which is cancelled too.            *)
ShutdownCloses ==
  /\ client = "joining"
  /\ client' = "shut"
  /\ CloseSockets
  /\ output_handler' = "done"
  /\ UNCHANGED <<request, utility, inbox, outputs_queue, engine_dead>>

(* shutdown once the monitor has closed everything only cancels the         *)
(* handler.                                                                 *)
ShutdownLate ==
  /\ client = "done"
  /\ client' = "shut"
  /\ output_handler' = "done"
  /\ UNCHANGED <<request, utility, inbox, outbox, outputs_queue, output_task,
                 engine_dead>>

(* A step of the event loop.                                                *)
LoopStep ==
  \/ Receive \/ ReceiveCancelled \/ Handle
  \/ \E r \in Request : GenerateRaises(r)

-----------------------------------------------------------------------------
=============================================================================
