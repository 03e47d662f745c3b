---------------------------- MODULE EngineFailures ----------------------------
(* The engine process (EngineCoreProc, vllm/v1/engine/core.py) between its    *)
(* executor and its client, with everything that may die or be told to stop:  *)
(* workers, the engine, callers, the client. The engine's main loop drives    *)
(* MultiprocExecutor and exchanges messages with EngineClient. With one GPU   *)
(* the executor is UniProcExecutor: the worker is an object of the engine     *)
(* process, and its methods run in the main thread.                           *)
EXTENDS MultiprocExecutor, EngineClient

CONSTANTS
  fork,       \* the workers' start method is fork, not spawn
  MaxDeaths   \* bound: workers that die of themselves

ASSUME FailuresAssumption == fork \in BOOLEAN /\ MaxDeaths \in Nat

VARIABLES
  uniproc,    \* one GPU: fixed for a run
  engine,     \* [up, of, term]: the engine's main loop
  pending,    \* requests in the engine's scheduler
  deaths      \* workers that have died of themselves

engineVars == <<uniproc, engine, pending, deaths>>
vars == <<execVars, clientVars, engineVars>>

Init ==
  /\ uniproc \in BOOLEAN
  /\ engine = [up |-> FALSE, of |-> "boot", term |-> FALSE]
  /\ pending = {}
  /\ deaths = 0
  /\ ClientInit
  /\ ExecInit

KeepExec == UNCHANGED execVars
KeepClient == UNCHANGED clientVars
KeepWire == UNCHANGED <<request, utility, outputs_queue, output_task,
                        output_handler, engine_dead, client>>

(* With one GPU there are no workers to start: the model is loaded and the  *)
(* cache initialised in the main thread, or the engine does not start.      *)
BootInline ==
  /\ uniproc
  /\ main.pc = "spawn"
  /\ \E ok \in BOOLEAN :
       /\ main' = [main EXCEPT !.pc = IF ok THEN "idle" ELSE "exiting"]
       /\ engine' = [engine EXCEPT !.up = ok, !.of = "none"]
  /\ UNCHANGED <<worker, pipe, joined, ready, calls, resps, monitor, flags,
                 callback, notices, clean, uniproc, pending, deaths>>
  /\ KeepClient

(* The executor, in the main thread and in its monitor thread. The failure  *)
(* callback puts EXECUTOR_FAILED into the engine's input queue.             *)
Notify ==
  /\ inbox' = IF notices' > notices THEN Append(inbox, Msg("FAILED", "executor"))
              ELSE inbox
  /\ KeepWire
  /\ UNCHANGED <<outbox, engineVars>>
(* The process is gone with its queues, what was sent is on its way.        *)
Gone ==
  /\ inbox' = <<>>
  /\ pending' = {}
  /\ engine' = [engine EXCEPT !.of = "none", !.term = TRUE]
  /\ KeepWire
  /\ UNCHANGED <<outbox, uniproc, deaths>>
Executor ==
  /\ ~uniproc \/ main.pc = "exiting"
  /\ MainStep
  /\ IF main'.pc = "dead" THEN Gone ELSE Notify
Monitor ==
  /\ MonitorStep
  /\ Notify

Worker(w) ==
  /\ WorkerStep(w)
  /\ KeepClient
  /\ UNCHANGED engineVars

-----------------------------------------------------------------------------
(* The main loop of the engine.                                             *)

(* _initialize_kv_caches and initialize_cache: collective_rpc without a     *)
(* timeout, before the engine reports ready.                                *)
Boot ==
  /\ ~engine.up
  /\ ~uniproc
  /\ Call(FALSE)
  /\ KeepClient
  /\ UNCHANGED engineVars

(* process_input_sockets and _handle_client_request.                        *)
Idle == engine.up /\ main.pc = "idle"
TakeInput ==
  /\ Idle
  /\ inbox # <<>>
  /\ inbox' = Tail(inbox)
  /\ KeepWire
  /\ UNCHANGED <<uniproc, deaths>>

HandleAdd ==
  /\ TakeInput
  /\ Head(inbox).type = "ADD"
  /\ pending' = pending \union {Head(inbox).of}
  /\ KeepExec
  /\ UNCHANGED <<engine, outbox>>

(* abort_requests: the diffusion scheduler does not hear of it.             *)
HandleAbort ==
  /\ TakeInput
  /\ Head(inbox).type = "ABORT"
  /\ KeepExec
  /\ UNCHANGED <<engine, pending, outbox>>

HandleUtility ==
  /\ TakeInput
  /\ Head(inbox).type = "UTILITY"
  /\ ~uniproc
  /\ \E timed \in BOOLEAN : Call(timed)
  /\ engine' = [engine EXCEPT !.of = Head(inbox).of]
  /\ UNCHANGED <<pending, outbox>>

HandleUtilityInline ==
  /\ TakeInput
  /\ Head(inbox).type = "UTILITY"
  /\ uniproc
  /\ \E type \in {"result", "failure"} :
       outbox' = Append(outbox, Msg(type, Head(inbox).of))
  /\ KeepExec
  /\ UNCHANGED <<engine, pending>>

(* An exception ends the main loop: ENGINE_CORE_DEAD, then shutdown.        *)
Fatal ==
  /\ outbox' = Append(outbox, Msg("DEAD", "engine"))
  /\ main' = [main EXCEPT !.pc = "exiting"]
  /\ UNCHANGED <<worker, pipe, joined, ready, calls, resps, monitor, flags,
                 callback, notices, clean>>

HandleFailed ==
  /\ TakeInput
  /\ Head(inbox).type = "FAILED"
  /\ Fatal
  /\ UNCHANGED <<engine, pending>>

(* step: with one GPU the executor runs the diffusion step, which finishes  *)
(* some request, finishes none, or raises.                                  *)
StepInline ==
  /\ Idle
  /\ uniproc
  /\ pending # {}
  /\ \/ /\ \E r \in pending :
             /\ outbox' = Append(outbox, Msg("output", r))
             /\ pending' = pending \ {r}
        /\ KeepExec
     \/ /\ Fatal
        /\ UNCHANGED pending
  /\ UNCHANGED <<inbox, uniproc, engine, deaths>>
  /\ KeepWire

(* execute_diffusion_once of MultiprocExecutor asks a WorkerProcHandle for  *)
(* a method it does not have.                                               *)
StepDiffusion ==
  /\ Idle
  /\ ~uniproc
  /\ pending # {}
  /\ Fatal
  /\ UNCHANGED <<inbox, engineVars>>
  /\ KeepWire

(* What becomes of a call: of one in the start-up the engine is up or ends, *)
(* and the caller of a utility has a result or a failure.                   *)
BackToLoop ==
  /\ main' = NotCalling("idle", main.id)
  /\ UNCHANGED <<worker, pipe, joined, ready, calls, resps, monitor, flags,
                 callback, notices, clean>>

BootReturns ==
  /\ main.pc = "returned"
  /\ engine.of = "boot"
  /\ engine' = [engine EXCEPT !.up = TRUE, !.of = "none"]
  /\ BackToLoop
  /\ KeepClient
  /\ UNCHANGED <<uniproc, pending, deaths>>

(* Faulty variant: only a result is sent to the caller.                     *)
UtilityEndsQuiet ==
  /\ main.pc \in {"returned", "raised"}
  /\ engine.of \in Utility
  /\ BackToLoop
  /\ outbox' = IF main.pc = "returned"
               THEN Append(outbox, Msg("result", engine.of)) ELSE outbox
  /\ engine' = [engine EXCEPT !.of = "none"]
  /\ UNCHANGED <<inbox, uniproc, pending, deaths>>
  /\ KeepWire

UtilityEnds ==
  /\ main.pc \in {"returned", "raised"}
  /\ engine.of \in Utility
  /\ BackToLoop
  /\ outbox' = Append(outbox, Msg(IF main.pc = "returned" THEN "result"
                                  ELSE "failure", engine.of))
  /\ engine' = [engine EXCEPT !.of = "none"]
  /\ UNCHANGED <<inbox, uniproc, pending, deaths>>
  /\ KeepWire

BootRaises ==
  /\ main.pc = "raised"
  /\ engine.of = "boot"
  /\ main' = [main EXCEPT !.pc = "exiting"]
  /\ UNCHANGED <<worker, pipe, joined, ready, calls, resps, monitor, flags,
                 callback, notices, clean, engineVars>>
  /\ KeepClient

-----------------------------------------------------------------------------
(* Signals and deaths.                                                      *)

(* SIGTERM: SystemExit in the main thread, once. It ends the process        *)
(* without ENGINE_CORE_DEAD, except in a utility call, where                *)
(* `except BaseException` takes it for a failure of the method.             *)
InCall == main.pc \in {"enqueue", "collect", "wait"}
Terminated ==
  /\ engine' = [engine EXCEPT !.term = TRUE]
  /\ \/ /\ engine.term \/ main.pc \in {"dead", "exiting"}
        /\ KeepExec
     \/ /\ ~engine.term
        /\ InCall
        /\ engine.of \in Utility
        /\ main' = [main EXCEPT !.pc = "raised"]
        /\ clean' = (clean /\ main.pc = "enqueue")
        /\ UNCHANGED <<worker, pipe, joined, ready, calls, resps, monitor,
                       flags, callback, notices>>
     \/ /\ ~engine.term
        /\ main.pc \notin {"dead", "exiting"}
        /\ ~(InCall /\ engine.of \in Utility)
        /\ main' = [main EXCEPT !.pc = "exiting"]
        /\ UNCHANGED <<worker, pipe, joined, ready, calls, resps, monitor,
                       flags, callback, notices, clean>>

Sigterm ==
  /\ ~engine.term
  /\ main.pc # "dead"
  /\ Terminated
  /\ KeepClient
  /\ UNCHANGED <<uniproc, pending, deaths>>

Sigkill ==
  /\ Killed
  /\ Gone

Crash(w) ==
  /\ deaths < MaxDeaths
  /\ deaths' = deaths + 1
  /\ WorkerDies(w)
  /\ KeepClient
  /\ UNCHANGED <<uniproc, engine, pending>>

Orphan(w) ==
  /\ ParentGone(w, fork)
  /\ KeepClient
  /\ UNCHANGED engineVars

-----------------------------------------------------------------------------
(* The client, with what it sees of the engine process and does to it.      *)

(* MPClient.__init__: the engine has reported ready, or is gone.            *)
Connect ==
  /\ client = "starting"
  /\ \/ engine.up /\ client' = "watching"
     \/ main.pc = "dead" /\ client' = "failed"
  /\ KeepExec
  /\ UNCHANGED <<request, utility, inbox, outbox, outputs_queue, output_task,
                 output_handler, engine_dead, engineVars>>

Loop ==
  /\ LoopStep
  /\ KeepExec
  /\ UNCHANGED engineVars

EngineGone ==
  /\ main.pc = "dead"
  /\ MonitorSees \/ ShutdownCloses
  /\ KeepExec
  /\ UNCHANGED engineVars

Closing ==
  /\ MonitorCloses
  /\ KeepExec
  /\ UNCHANGED engineVars

(* engine_manager.close: terminate, five seconds, then kill the process     *)
(* tree.                                                                    *)
ShutdownClient ==
  /\ \/ Shutdown /\ main.pc # "dead" /\ Terminated
     \/ Shutdown /\ main.pc = "dead" /\ KeepExec /\ UNCHANGED engine
     \/ ShutdownLate /\ KeepExec /\ UNCHANGED engine
  /\ UNCHANGED <<uniproc, pending, deaths>>

(* Faulty variant: terminates, and joins for ever.                          *)
JoinForever ==
  /\ client = "joining"
  /\ main.pc = "exiting"
  /\ AllDead
  /\ ProcessEnds
  /\ Gone

JoinTimesOut ==
  /\ client = "joining"
  /\ main.pc # "dead"
  /\ AllDead
  /\ ProcessEnds
  /\ Gone

Callers ==
  /\ \/ \E r \in Request : AddRequest(r)
     \/ \E u \in Utility : CallUtility(u) \/ CancelUtility(u)
  /\ KeepExec
  /\ UNCHANGED engineVars

EngineStep ==
  \/ BootInline \/ Boot
  \/ HandleAdd \/ HandleAbort \/ HandleUtility \/ HandleUtilityInline
  \/ HandleFailed
  \/ StepInline \/ StepDiffusion
  \/ BootReturns \/ BootRaises \/ UtilityEnds

Next ==
  \/ Executor \/ Monitor \/ EngineStep
  \/ \E w \in Rank : Worker(w) \/ Crash(w) \/ Orphan(w)
  \/ Sigterm \/ Sigkill
  \/ Connect \/ Loop \/ EngineGone \/ Closing \/ ShutdownClient \/ JoinTimesOut
  \/ Callers

Spec == Init /\ [][Next]_vars

(* The threads of the engine, the workers, the event loop and the client's  *)
(* monitor keep running, and a method of the workers ends while all of them *)
(* live. Nothing is assumed of callers and signals, nor of a method whose   *)
(* peers are dead.                                                          *)
WorkerRuns(w) ==
  /\ worker[w].pc = "run" => \A v \in Rank : Alive(v)
  /\ Worker(w)
Fairness ==
  /\ WF_vars(Executor \/ EngineStep)
  /\ WF_vars(Monitor)
  /\ \A w \in Rank : WF_vars(WorkerRuns(w) \/ Orphan(w))
  /\ WF_vars(Connect \/ Loop)
  /\ WF_vars(EngineGone \/ Closing \/ JoinTimesOut)
FairSpec == Spec /\ Fairness

-----------------------------------------------------------------------------
(* What a call returns are answers to this very call, as long as no call    *)
(* ended with answers still to come.                                        *)
AnswersMatch ==
  (main.pc = "returned" /\ clean) =>
    \A i \in 1 .. Len(main.answers) : main.answers[i] = main.id

(* The output handler, and with it the front-end, ends only if the engine   *)
(* has ended, the client was shut down, or the answer to a cancelled        *)
(* utility call came in.                                                    *)
FrontEndStopsWithEngine ==
  output_handler = "done" =>
    \/ main.pc \in {"exiting", "dead"}
    \/ client = "shut"
    \/ \E u \in Utility : utility[u] = "cancelled"

(* The calls that never end: one that waits without timeout for an answer   *)
(* of a dead worker, or for a dead worker to make room in its queue.        *)
Hung ==
  \/ /\ main.pc = "wait"
     /\ ~main.timed
     /\ resps[main.next] = <<>>
     /\ worker[main.next].pc = "dead"
  \/ /\ main.pc = "enqueue"
     /\ \E w \in Rank : worker[w].pc = "dead" /\ Len(calls[w]) = max_chunks

(* Every call of collective_rpc ends but those.                             *)
CallsEnd == InCall ~> (~InCall \/ Hung)

(* generate always ends, whoever dies, unless the engine hangs in such a    *)
(* call or the client was shut down under it.                               *)
RequestsEnd ==
  \A r \in Request :
    (request[r] = "open") ~> (request[r] # "open" \/ Hung \/ client = "shut")

(* A utility call is answered unless the engine ends or hangs, or the       *)
(* output task has ended.                                                   *)
UtilitiesEnd ==
  \A u \in Utility :
    (utility[u] = "waiting") ~>
      (utility[u] # "waiting" \/ Hung \/ engine_dead \/ output_task = "done")

(* A dead worker ends a running engine, unless it hangs, even if the worker *)
(* died before the failure callback was registered.                         *)
WorkerDeathEndsEngine ==
  (engine.up /\ \E w \in Rank : worker[w].pc = "dead")
    ~> (main.pc = "dead" \/ Hung)

(* No worker outlives an engine process whose workers were spawned.         *)
NoOrphans ==
  (main.pc = "dead" /\ ~fork) ~> (\A w \in Rank : ~Alive(w))

(* Start-up ends with the engine up or gone, unless a worker dies between   *)
(* its two READYs or in a call of the start-up.                             *)
LostInHandshake ==
  \E w \in Rank : worker[w].pc = "dead" /\ pipe[w] = "READY" /\ w \notin ready.resp
StartUpEnds == <>(engine.up \/ main.pc = "dead" \/ Hung \/ LostInHandshake)

(* shutdown returns, with the engine process gone.                          *)
ShutdownEnds == (client = "joining") ~> (client = "shut" /\ main.pc = "dead")
=============================================================================
