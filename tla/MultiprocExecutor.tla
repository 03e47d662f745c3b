-------------------------- MODULE MultiprocExecutor --------------------------
(* MultiprocExecutor and WorkerProc (vllm/v1/executor/multiproc_executor.py) *)
(* inside one engine process: start-up of the workers, collective_rpc over   *)
(* the message queues, the monitor thread, shutdown and death. The queues    *)
(* are the abstract ones of BroadcastQueue: a call goes to every worker, and *)
(* an answer stays in its queue until somebody dequeues it.                  *)
EXTENDS Naturals, Sequences, FiniteSets

CONSTANTS
  world_size,    \* number of workers
  max_chunks,    \* capacity of a message queue
  MaxCalls       \* bound: calls of collective_rpc

ASSUME ExecutorAssumption ==
  /\ world_size \in Nat \ {0}
  /\ max_chunks \in Nat \ {0}
  /\ MaxCalls \in Nat

Rank == 0 .. world_size - 1

VARIABLES
  main,       \* main thread of the engine process
  worker,     \* worker[w]: its main thread
  pipe,       \* pipe[w]: start-up pipe from worker w
  joined,     \* workers to whose response queue the executor has subscribed
  ready,      \* queues on which the writer has sent READY
  calls,      \* calls[w]: broadcast queue as seen by worker w
  resps,      \* resps[w]: response queue of worker w
  monitor,    \* MultiprocWorkerMonitor thread
  flags,      \* is_failed, shutting_down, and which queues are None
  callback,   \* self.failure_callback
  notices,    \* calls of the failure callback
  clean       \* no call has ended while answers to it were still to come

execVars == <<main, worker, pipe, joined, ready, calls, resps, monitor, flags,
              callback, notices, clean>>

NotCalling(pc, id) ==
  [pc |-> pc, next |-> 0, id |-> id, timed |-> FALSE, answers |-> <<>>]

ExecInit ==
  /\ main = NotCalling("spawn", 0)
  /\ worker = [w \in Rank |-> [pc |-> "none", call |-> 0]]
  /\ pipe = [w \in Rank |-> "open"]
  /\ joined = {}
  /\ ready = [bcast |-> FALSE, resp |-> {}]
  /\ calls = [w \in Rank |-> <<>>]
  /\ resps = [w \in Rank |-> <<>>]
  /\ monitor = "off"
  /\ flags = [is_failed |-> FALSE, shutting_down |-> FALSE,
              resp_none |-> FALSE, rpc_none |-> FALSE]
  /\ callback = "none"
  /\ notices = 0
  /\ clean = TRUE

Alive(w) == worker[w].pc \notin {"none", "dead"}
AllDead == worker' = [w \in Rank |-> [pc |-> "dead", call |-> 0]]

-----------------------------------------------------------------------------
(* Start-up, executor side.                                                 *)

(* Faulty variant: waits for a worker to be ready before it makes the next. *)
SpawnWorkerWaiting ==
  /\ main.pc = "spawn"
  /\ main.next > 0 => pipe[main.next - 1] = "READY"
  /\ worker' = [worker EXCEPT ![main.next].pc = "init"]
  /\ main' = IF main.next + 1 < world_size
             THEN [main EXCEPT !.next = @ + 1]
             ELSE [main EXCEPT !.pc = "pipes", !.next = 0]
  /\ UNCHANGED <<pipe, joined, ready, calls, resps, monitor, flags, callback,
                 notices, clean>>

(* make_worker_process, for every rank before any waiting.                  *)
SpawnWorker ==
  /\ main.pc = "spawn"
  /\ worker' = [worker EXCEPT ![main.next].pc = "init"]
  /\ main' = IF main.next + 1 < world_size
             THEN [main EXCEPT !.next = @ + 1]
             ELSE [main EXCEPT !.pc = "pipes", !.next = 0]
  /\ UNCHANGED <<pipe, joined, ready, calls, resps, monitor, flags, callback,
                 notices, clean>>

(* wait_for_ready: a READY on a pipe, in any order.                         *)
TakeReady(w) ==
  /\ main.pc = "pipes"
  /\ w \notin joined
  /\ pipe[w] = "READY"
  /\ joined' = joined \union {w}
  /\ main' = IF joined' = Rank THEN [main EXCEPT !.pc = "bcast"] ELSE main
  /\ UNCHANGED <<worker, pipe, ready, calls, resps, monitor, flags, callback,
                 notices, clean>>

(* EOFError: clean up all workers; the engine does not start.               *)
PipeBroken(w) ==
  /\ main.pc = "pipes"
  /\ pipe[w] = "closed"
  /\ AllDead
  /\ main' = [main EXCEPT !.pc = "exiting"]
  /\ UNCHANGED <<pipe, joined, ready, calls, resps, monitor, flags, callback,
                 notices, clean>>

(* rpc_broadcast_mq.wait_until_ready, as writer: every worker subscribed    *)
(* before it sent READY over its pipe.                                      *)
BroadcastReady ==
  /\ main.pc = "bcast"
  /\ ready' = [ready EXCEPT !.bcast = TRUE]
  /\ main' = [main EXCEPT !.pc = "resp"]
  /\ UNCHANGED <<worker, pipe, joined, calls, resps, monitor, flags, callback,
                 notices, clean>>

(* worker_response_mq.wait_until_ready, as reader, one worker after the     *)
(* other; then start_worker_monitor.                                        *)
ResponseReady ==
  /\ main.pc = "resp"
  /\ main.next \in ready.resp
  /\ \/ /\ main.next + 1 < world_size
        /\ main' = [main EXCEPT !.next = @ + 1]
        /\ UNCHANGED monitor
     \/ /\ main.next + 1 = world_size
        /\ main' = [main EXCEPT !.pc = "register"]
        /\ monitor' = "watching"
  /\ UNCHANGED <<worker, pipe, joined, ready, calls, resps, flags, callback,
                 notices, clean>>

(* register_failure_callback: look at is_failed ...                         *)
RegisterLook ==
  /\ main.pc = "register"
  /\ \/ /\ flags.is_failed
        /\ notices' = notices + 1
        /\ main' = [main EXCEPT !.pc = "idle"]
     \/ /\ ~flags.is_failed
        /\ main' = [main EXCEPT !.pc = "registering"]
        /\ UNCHANGED notices
  /\ UNCHANGED <<worker, pipe, joined, ready, calls, resps, monitor, flags,
                 callback, clean>>

(* ... and store the callback.                                              *)
RegisterStore ==
  /\ main.pc = "registering"
  /\ callback' = "set"
  /\ main' = [main EXCEPT !.pc = "idle"]
  /\ UNCHANGED <<worker, pipe, joined, ready, calls, resps, monitor, flags,
                 notices, clean>>

-----------------------------------------------------------------------------
(* Start-up, worker side.                                                   *)

WorkerGoes(w, from, to) ==
  /\ worker[w].pc = from
  /\ worker' = [worker EXCEPT ![w].pc = to]

(* WorkerProc.__init__ up to init_device: subscribe to the broadcast queue, *)
(* create the response queue, and enter the device sync.                    *)
InitWorker(w) ==
  /\ WorkerGoes(w, "init", "sync")
  /\ UNCHANGED <<main, pipe, joined, ready, calls, resps, monitor, flags,
                 callback, notices, clean>>

(* init_device: the process group forms once every rank has come to it.     *)
Synced(v) == worker[v].pc \notin {"none", "init", "dead"}
SyncWorker(w) ==
  /\ \A v \in Rank : Synced(v)
  /\ WorkerGoes(w, "sync", "load")
  /\ UNCHANGED <<main, pipe, joined, ready, calls, resps, monitor, flags,
                 callback, notices, clean>>

(* load_model, then READY over the pipe.                                    *)
SendReady(w) ==
  /\ WorkerGoes(w, "load", "bwait")
  /\ pipe' = [pipe EXCEPT ![w] = "READY"]
  /\ UNCHANGED <<main, joined, ready, calls, resps, monitor, flags, callback,
                 notices, clean>>

(* rpc_broadcast_mq.wait_until_ready, as reader.                            *)
WaitBroadcast(w) ==
  /\ ready.bcast
  /\ WorkerGoes(w, "bwait", "rwait")
  /\ UNCHANGED <<main, pipe, joined, ready, calls, resps, monitor, flags,
                 callback, notices, clean>>

(* worker_response_mq.wait_until_ready, as writer: wait for the executor to *)
(* subscribe, send READY; then the busy loop.                               *)
WaitResponse(w) ==
  /\ w \in joined
  /\ WorkerGoes(w, "rwait", "loop")
  /\ ready' = [ready EXCEPT !.resp = @ \union {w}]
  /\ UNCHANGED <<main, pipe, joined, calls, resps, monitor, flags, callback,
                 notices, clean>>

-----------------------------------------------------------------------------
(* The busy loop, and death.                                                *)

TakeCall(w) ==
  /\ worker[w].pc = "loop"
  /\ calls[w] # <<>>
  /\ worker' = [worker EXCEPT ![w] = [pc |-> "run", call |-> Head(calls[w])]]
  /\ calls' = [calls EXCEPT ![w] = Tail(@)]
  /\ UNCHANGED <<main, pipe, joined, ready, resps, monitor, flags, callback,
                 notices, clean>>

(* Faulty variant: an exception is logged and not answered.                 *)
FinishSilent(w, ok) ==
  /\ worker[w].pc = "run"
  /\ Len(resps[w]) < max_chunks
  /\ resps' = IF ok
              THEN [resps EXCEPT ![w] = Append(@, [id |-> worker[w].call, ok |-> ok])]
              ELSE resps
  /\ worker' = [worker EXCEPT ![w] = [pc |-> "loop", call |-> 0]]
  /\ UNCHANGED <<main, pipe, joined, ready, calls, monitor, flags, callback,
                 notices, clean>>

(* The method returns or raises; the answer says which.                     *)
Finish(w, ok) ==
  /\ worker[w].pc = "run"
  /\ Len(resps[w]) < max_chunks
  /\ resps' = [resps EXCEPT ![w] = Append(@, [id |-> worker[w].call, ok |-> ok])]
  /\ worker' = [worker EXCEPT ![w] = [pc |-> "loop", call |-> 0]]
  /\ UNCHANGED <<main, pipe, joined, ready, calls, monitor, flags, callback,
                 notices, clean>>

(* An exception outside the try of the busy loop, or a kill: the process    *)
(* ends, and with it its end of the pipe.                                   *)
Bury(w) ==
  /\ worker' = [worker EXCEPT ![w] = [pc |-> "dead", call |-> 0]]
  /\ pipe' = [pipe EXCEPT ![w] = IF @ = "READY" THEN @ ELSE "closed"]
  /\ UNCHANGED <<main, joined, ready, calls, resps, monitor, flags, callback,
                 notices, clean>>
WorkerDies(w) == Alive(w) /\ Bury(w)

(* monitor_parent_death: EOF on the death pipe once its last writer is      *)
(* gone. A forked worker has inherited the writers of its own pipe and of   *)
(* those made before it (fork: the start method of the context).            *)
DeathWriters(w, fork) ==
  {v \in Rank : fork /\ Alive(v) /\ w <= v}
(* Faulty variant: a worker looks after its parent only between calls.      *)
ParentGoneIdle(w, fork) ==
  /\ main.pc = "dead"
  /\ worker[w].pc = "loop"
  /\ DeathWriters(w, fork) = {}
  /\ Bury(w)

ParentGone(w, fork) ==
  /\ main.pc = "dead"
  /\ Alive(w)
  /\ DeathWriters(w, fork) = {}
  /\ Bury(w)

-----------------------------------------------------------------------------
(* collective_rpc, blocking, of all workers.                                *)

Call(timed) ==
  /\ main.pc = "idle"
  /\ main.id < MaxCalls
  /\ main' = [NotCalling(
                IF flags.is_failed \/ flags.rpc_none THEN "raised" ELSE "enqueue",
                main.id + 1) EXCEPT !.timed = timed]
  /\ UNCHANGED <<worker, pipe, joined, ready, calls, resps, monitor, flags,
                 callback, notices, clean>>

(* enqueue has no timeout: it waits for every worker to have read.          *)
Enqueue ==
  /\ main.pc = "enqueue"
  /\ \A w \in Rank : Len(calls[w]) < max_chunks
  /\ calls' = [w \in Rank |-> Append(calls[w], main.id)]
  /\ main' = [main EXCEPT !.pc = "collect"]
  /\ UNCHANGED <<worker, pipe, joined, ready, resps, monitor, flags, callback,
                 notices, clean>>

(* get_response(w): AttributeError when the queue is already None, else     *)
(* wait in its dequeue.                                                     *)
Collect ==
  /\ main.pc = "collect"
  /\ main' = [main EXCEPT !.pc = IF flags.resp_none THEN "raised" ELSE "wait"]
  /\ clean' = (clean /\ ~flags.resp_none)
  /\ UNCHANGED <<worker, pipe, joined, ready, calls, resps, monitor, flags,
                 callback, notices>>

LastOne == main.next + 1 = world_size
(* Faulty variant: the answer is read and not marked as read.               *)
GotUnmarked ==
  LET w == main.next
      answers == Append(main.answers, Head(resps[w]).id)
  IN
  /\ main.pc = "wait"
  /\ resps[w] # <<>>
  /\ main' = IF ~Head(resps[w]).ok THEN [main EXCEPT !.pc = "raised"]
             ELSE IF LastOne
             THEN [main EXCEPT !.pc = "returned", !.answers = answers]
             ELSE [main EXCEPT !.pc = "collect", !.next = @ + 1,
                               !.answers = answers]
  /\ clean' = (clean /\ (Head(resps[w]).ok \/ LastOne))
  /\ UNCHANGED <<worker, pipe, joined, ready, calls, resps, monitor, flags,
                 callback, notices>>

Got ==
  LET w == main.next
      answers == Append(main.answers, Head(resps[w]).id)
  IN
  /\ main.pc = "wait"
  /\ resps[w] # <<>>
  /\ resps' = [resps EXCEPT ![w] = Tail(@)]
  /\ \/ /\ ~Head(resps[w]).ok
        /\ main' = [main EXCEPT !.pc = "raised"]
        /\ clean' = (clean /\ LastOne)
     \/ /\ Head(resps[w]).ok
        /\ ~LastOne
        /\ main' = [main EXCEPT !.pc = "collect", !.next = @ + 1,
                                !.answers = answers]
        /\ UNCHANGED clean
     \/ /\ Head(resps[w]).ok
        /\ LastOne
        /\ main' = [main EXCEPT !.pc = "returned", !.answers = answers]
        /\ UNCHANGED clean
  /\ UNCHANGED <<worker, pipe, joined, ready, calls, monitor, flags, callback,
                 notices>>

TimesOut ==
  /\ main.pc = "wait"
  /\ main.timed
  /\ resps[main.next] = <<>>
  /\ main' = [main EXCEPT !.pc = "raised"]
  /\ clean' = FALSE
  /\ UNCHANGED <<worker, pipe, joined, ready, calls, resps, monitor, flags,
                 callback, notices>>

-----------------------------------------------------------------------------
(* monitor_workers, a thread of the engine process.                         *)

MonitorWakes ==
  /\ monitor = "watching"
  /\ main.pc # "dead"
  /\ \E w \in Rank : worker[w].pc = "dead"
  /\ \/ /\ flags.shutting_down
        /\ monitor' = "done"
        /\ UNCHANGED flags
     \/ /\ ~flags.shutting_down
        /\ monitor' = "failing"
        /\ flags' = [flags EXCEPT !.is_failed = TRUE]
  /\ UNCHANGED <<main, worker, pipe, joined, ready, calls, resps, callback,
                 notices, clean>>

(* shutdown(): close the death pipes and the response queues ...            *)
MonitorShutdown ==
  /\ monitor = "failing"
  /\ main.pc # "dead"
  /\ \/ /\ flags.shutting_down
        /\ monitor' = "callback"
        /\ flags' = [flags EXCEPT !.rpc_none = TRUE]
     \/ /\ ~flags.shutting_down
        /\ monitor' = "terminating"
        /\ flags' = [flags EXCEPT !.shutting_down = TRUE, !.resp_none = TRUE]
  /\ UNCHANGED <<main, worker, pipe, joined, ready, calls, resps, callback,
                 notices, clean>>

(* ... terminate the workers, drop the broadcast queue ...                  *)
MonitorTerminates ==
  /\ monitor = "terminating"
  /\ main.pc # "dead"
  /\ AllDead
  /\ flags' = [flags EXCEPT !.rpc_none = TRUE]
  /\ monitor' = "callback"
  /\ UNCHANGED <<main, pipe, joined, ready, calls, resps, callback, notices,
                 clean>>

(* Faulty variant: shuts down and tells nobody.                             *)
MonitorCallbackNone ==
  /\ monitor = "callback"
  /\ main.pc # "dead"
  /\ monitor' = "done"
  /\ UNCHANGED <<main, worker, pipe, joined, ready, calls, resps, flags,
                 callback, notices, clean>>

(* ... and call the callback, if one is there.                              *)
MonitorCallback ==
  /\ monitor = "callback"
  /\ main.pc # "dead"
  /\ monitor' = "done"
  /\ \/ /\ callback = "set"
        /\ callback' = "none"
        /\ notices' = notices + 1
     \/ /\ callback = "none"
        /\ UNCHANGED <<callback, notices>>
  /\ UNCHANGED <<main, worker, pipe, joined, ready, calls, resps, flags, clean>>

-----------------------------------------------------------------------------
(* The end of the engine process, and of all it had in memory; what is in   *)
(* the queues stays for workers that still live.                            *)
ProcessEnds ==
  /\ main' = NotCalling("dead", 0)
  /\ joined' = {}
  /\ monitor' = "off"
  /\ flags' = [f \in DOMAIN flags |-> FALSE]
  /\ callback' = "none"
  /\ notices' = 0
  /\ clean' = TRUE
  /\ UNCHANGED <<pipe, ready, calls, resps>>

(* By a return or an exception: shutdown() by engine_core.shutdown or by    *)
(* the finalizer, and at exit daemonic children are terminated whoever had  *)
(* begun to shut down.                                                      *)
Exit ==
  /\ main.pc = "exiting"
  /\ AllDead
  /\ ProcessEnds

(* By a kill: nothing is cleaned up.                                        *)
Killed ==
  /\ main.pc # "dead"
  /\ ProcessEnds
  /\ UNCHANGED worker

MainStep ==
  \/ SpawnWorker \/ BroadcastReady \/ ResponseReady
  \/ RegisterLook \/ RegisterStore
  \/ Enqueue \/ Collect \/ Got \/ TimesOut
  \/ Exit
  \/ \E w \in Rank : TakeReady(w) \/ PipeBroken(w)

MonitorStep ==
  MonitorWakes \/ MonitorShutdown \/ MonitorTerminates \/ MonitorCallback

WorkerStep(w) ==
  \/ InitWorker(w) \/ SyncWorker(w) \/ SendReady(w)
  \/ WaitBroadcast(w) \/ WaitResponse(w)
  \/ TakeCall(w) \/ (\E ok \in BOOLEAN : Finish(w, ok))

-----------------------------------------------------------------------------
=============================================================================
