------------------------ MODULE EngineFailuresProofs ------------------------
(* Proofs about EngineFailures, for every number of workers, calls, deaths,  *)
(* requests and utility calls and every capacity of the message queues.      *)
EXTENDS EngineFailures, Functions, TLAPS

-----------------------------------------------------------------------------
(* The invariant of the executor.                                            *)

MainPc == {"spawn", "pipes", "bcast", "resp", "register", "registering", "idle",
           "enqueue", "collect", "wait", "returned", "raised", "exiting", "dead"}
WorkerPc == {"none", "init", "sync", "load", "bwait", "rwait", "loop", "run", "dead"}
MainState == [pc : MainPc, next : Rank, id : Nat, timed : BOOLEAN, answers : Seq(Nat)]
WorkerState == [pc : WorkerPc, call : Nat]
Answer == [id : Nat, ok : BOOLEAN]

ExecTypes ==
  /\ main \in MainState
  /\ worker \in [Rank -> WorkerState]
  /\ calls \in [Rank -> Seq(Nat)]
  /\ resps \in [Rank -> Seq(Answer)]
  /\ clean \in BOOLEAN

(* Where a call of collective_rpc may be on its way through worker w.        *)
Quiet(w) ==
  calls[w] = <<>> /\ worker[w].pc # "run" /\ resps[w] = <<>>
Queued(w) ==
  calls[w] = <<main.id>> /\ worker[w].pc # "run" /\ resps[w] = <<>>
Running(w) ==
  calls[w] = <<>> /\ worker[w].pc = "run" /\ worker[w].call = main.id /\ resps[w] = <<>>
Answered(w) ==
  /\ calls[w] = <<>> /\ worker[w].pc # "run"
  /\ \E ok \in BOOLEAN : resps[w] = <<[id |-> main.id, ok |-> ok]>>

(* The main thread has not yet taken the answer of worker w.                 *)
Awaited(w) == main.pc \in {"collect", "wait"} /\ main.next <= w

Ended == main.pc \in {"exiting", "dead"}

(* As long as no call ended early, a worker whose answer is awaited is at    *)
(* one place of the present call, or has died in it, and one whose answer is *)
(* not awaited has nothing in its queues and runs nothing.                   *)
CallsInv ==
  /\ main.pc = "enqueue" => main.next = 0 /\ main.answers = <<>>
  /\ clean /\ ~Ended =>
       \A w \in Rank :
         /\ Awaited(w) => Quiet(w) \/ Queued(w) \/ Running(w) \/ Answered(w)
         /\ ~Awaited(w) => Quiet(w)
  /\ clean /\ main.pc \in {"collect", "wait", "returned"} =>
       \A i \in 1 .. Len(main.answers) : main.answers[i] = main.id

ExecInv == ExecTypes /\ CallsInv

-----------------------------------------------------------------------------
(* The invariant of the client.                                              *)

Of == Request \cup Utility \cup {"engine", "executor", "cancel"}
InMessage ==
  {m \in [type : {"ADD", "ABORT", "UTILITY", "FAILED"}, of : Of] :
     m.type = "UTILITY" => m.of \in Utility}
OutMessage ==
  {m \in [type : {"output", "result", "failure", "DEAD"}, of : Of] :
     m.type \in {"result", "failure"} => m.of \in Utility}
Item == [type : {"output", "error"}, of : Of]

ClientTypes ==
  /\ utility \in [Utility -> {"new", "waiting", "cancelled", "answered", "failed"}]
  /\ inbox \in Seq(InMessage)
  /\ outbox \in Seq(OutMessage)
  /\ outputs_queue \in Seq(Item)
  /\ pending \subseteq Of

Cancelled == \E u \in Utility : utility[u] = "cancelled"

(* ENGINE_CORE_DEAD is sent by an engine that ends; the output task is only  *)
(* cancelled, by the monitor or by shutdown, once the engine process is      *)
(* gone; and an error in the client's queue comes from one of these or from  *)
(* the answer to a cancelled utility call.                                   *)
ErrorsHaveCauses ==
  /\ (\E m \in Range(outbox) : m.type = "DEAD") => Ended
  /\ client \in {"closing", "done"} \/ output_task = "cancelled" => main.pc = "dead"
  /\ (\E m \in Range(outputs_queue) : m.type = "error") => Ended \/ Cancelled

ClientInv == ClientTypes /\ ErrorsHaveCauses /\ FrontEndStopsWithEngine

-----------------------------------------------------------------------------
(* Queues and ranks.                                                         *)

LEMMA RankFacts == 0 \in Rank /\ Rank \subseteq Nat /\ world_size \in Nat
BY ExecutorAssumption DEF Rank

LEMMA QueueAppend ==
  ASSUME NEW S, NEW s \in Seq(S), NEW e \in S
  PROVE  /\ Append(s, e) \in Seq(S)
         /\ Range(Append(s, e)) = Range(s) \cup {e}
<1>1. /\ Append(s, e) \in Seq(S)
      /\ Len(Append(s, e)) = Len(s) + 1
      /\ \A k \in 1 .. Len(s) : Append(s, e)[k] = s[k]
      /\ Append(s, e)[Len(s) + 1] = e
  OBVIOUS
<1>2. /\ DOMAIN s = 1 .. Len(s) /\ DOMAIN Append(s, e) = 1 .. Len(s) + 1
      /\ Len(s) \in Nat
  BY <1>1
<1>3. QED
  BY <1>1, <1>2 DEF Range

LEMMA QueueTail ==
  ASSUME NEW S, NEW s \in Seq(S), s # <<>>
  PROVE  /\ Head(s) \in S /\ Tail(s) \in Seq(S)
         /\ Head(s) \in Range(s) /\ Range(Tail(s)) \subseteq Range(s)
<1>1. /\ Head(s) \in S /\ Tail(s) \in Seq(S) /\ Head(s) = s[1]
      /\ Len(Tail(s)) = Len(s) - 1
      /\ \A k \in 1 .. Len(Tail(s)) : Tail(s)[k] = s[k + 1]
  OBVIOUS
<1>2. /\ DOMAIN s = 1 .. Len(s) /\ DOMAIN Tail(s) = 1 .. Len(s) - 1
      /\ Len(s) \in Nat /\ Len(s) # 0
  BY <1>1
<1>3. QED
  BY <1>1, <1>2 DEF Range

-----------------------------------------------------------------------------
(* The executor: how a step may change the state of a call.                  *)

(* What the rest of the system relies on: an engine that ends stays ended.   *)
StaysEnded ==
  /\ Ended => Ended'
  /\ main.pc = "dead" => main'.pc = "dead"

LEMMA EndedCalls ==
  ASSUME ExecTypes', Ended'
  PROVE  ExecInv'
<1>1. main'.pc \notin {"enqueue", "collect", "wait", "returned"}
  BY DEF Ended
<1>2. QED
  BY <1>1 DEF ExecInv, CallsInv

(* The main thread is outside of a call: nothing is on its way to a worker.  *)
LEMMA NotInCall ==
  ASSUME ExecInv, ExecTypes', main.pc \notin {"collect", "wait", "exiting", "dead"},
         main'.pc \notin {"collect", "wait", "returned"},
         main'.pc = "enqueue" => main'.next = 0 /\ main'.answers = <<>>,
         UNCHANGED <<calls, resps, clean>>,
         \A w \in Rank : worker'[w].pc = "run" => worker[w].pc = "run"
  PROVE  ExecInv' /\ StaysEnded
<1>1. ~Ended /\ main.pc # "dead"
  BY DEF Ended
<1>2. \A w \in Rank : ~Awaited(w) /\ ~Awaited(w)'
  BY DEF Awaited
<1>3. clean => \A w \in Rank : Quiet(w)
  BY <1>1, <1>2 DEF ExecInv, CallsInv
<1>4. clean' => \A w \in Rank : Quiet(w)'
  BY <1>3 DEF Quiet
<1>5. CallsInv'
  BY <1>2, <1>4 DEF CallsInv
<1>6. QED
  BY <1>1, <1>5 DEF ExecInv, StaysEnded

(* Workers that die or go on outside of a call do not disturb it.            *)
LEMMA MainRests ==
  ASSUME ExecInv, ExecTypes', UNCHANGED <<main, calls, resps, clean>>,
         \A w \in Rank : worker'[w] = worker[w] \/ worker'[w].pc # "run"
  PROVE  ExecInv' /\ StaysEnded
<1>1. \A w \in Rank : Awaited(w)' <=> Awaited(w)
  BY DEF Awaited
<1>2. Ended' <=> Ended
  BY DEF Ended
<1>3. \A w \in Rank : Quiet(w) => Quiet(w)'
  BY DEF Quiet
<1>4. \A w \in Rank : Queued(w) => Queued(w)'
  BY DEF Queued
<1>5. \A w \in Rank : Running(w) => Running(w)' \/ Quiet(w)'
  BY DEF Running, Quiet
<1>6. \A w \in Rank : Answered(w) => Answered(w)'
  BY DEF Answered
<1>7. clean' /\ ~Ended' =>
        \A w \in Rank :
          /\ Awaited(w)' => Quiet(w)' \/ Queued(w)' \/ Running(w)' \/ Answered(w)'
          /\ ~Awaited(w)' => Quiet(w)'
  BY <1>1, <1>2, <1>3, <1>4, <1>5, <1>6 DEF ExecInv, CallsInv
<1>8. CallsInv'
  BY <1>7 DEF ExecInv, CallsInv
<1>9. QED
  BY <1>2, <1>8 DEF ExecInv, StaysEnded

(* All variables of the executor stay.                                       *)
LEMMA ExecRests ==
  ASSUME ExecInv, UNCHANGED execVars
  PROVE  ExecInv' /\ StaysEnded
<1>1. UNCHANGED <<main, worker, calls, resps, clean>>
  BY DEF execVars
<1>2. ExecTypes'
  BY <1>1 DEF ExecInv, ExecTypes
<1>3. QED
  BY <1>1, <1>2, MainRests

(* The main thread changes only its pc (and next), outside of a call.        *)
LEMMA MainMoves ==
  ASSUME ExecInv, NEW pc \in MainPc, NEW next \in Rank,
         main' = [main EXCEPT !.pc = pc, !.next = next]
  PROVE  main' \in MainState /\ main'.pc = pc /\ main'.next = next
         /\ main'.id = main.id /\ main'.answers = main.answers
<1>1. main \in MainState
  BY DEF ExecInv, ExecTypes
<1>2. QED
  BY <1>1, Zenon DEF MainState

LEMMA MainPcMoves ==
  ASSUME ExecInv, NEW pc \in MainPc, main' = [main EXCEPT !.pc = pc]
  PROVE  main' \in MainState /\ main'.pc = pc /\ main'.next = main.next
         /\ main'.id = main.id /\ main'.answers = main.answers
<1>1. main \in MainState
  BY DEF ExecInv, ExecTypes
<1>2. QED
  BY <1>1 DEF MainState

LEMMA NotCallingType ==
  ASSUME NEW pc \in MainPc, NEW id \in Nat
  PROVE  /\ NotCalling(pc, id) \in MainState
         /\ NotCalling(pc, id).pc = pc /\ NotCalling(pc, id).next = 0
         /\ NotCalling(pc, id).answers = <<>> /\ NotCalling(pc, id).id = id
BY RankFacts DEF NotCalling, MainState

LEMMA ExecInitial == ExecInit => ExecInv
<1> SUFFICES ASSUME ExecInit PROVE ExecInv
  OBVIOUS
<1>1. main \in MainState /\ main.pc = "spawn"
  BY NotCallingType DEF ExecInit, MainPc
<1>2. ExecTypes
  BY <1>1 DEF ExecInit, ExecTypes, WorkerState, WorkerPc
<1>3. \A w \in Rank : Quiet(w) /\ ~Awaited(w)
  BY <1>1 DEF ExecInit, Quiet, Awaited
<1>4. QED
  BY <1>1, <1>2, <1>3 DEF ExecInv, CallsInv

-----------------------------------------------------------------------------
(* Start-up.                                                                 *)

LEMMA ExecSpawnWorker ==
  ASSUME ExecInv, SpawnWorker
  PROVE  ExecInv' /\ StaysEnded
<1>1. /\ main.pc = "spawn" /\ UNCHANGED <<calls, resps, clean>>
      /\ worker' = [worker EXCEPT ![main.next].pc = "init"]
  BY DEF SpawnWorker
<1>2. main \in MainState /\ main.next \in Rank /\ worker \in [Rank -> WorkerState]
  BY DEF ExecInv, ExecTypes, MainState
<1>3. /\ worker' \in [Rank -> WorkerState]
      /\ \A w \in Rank : worker'[w].pc = "run" => worker[w].pc = "run"
  BY <1>1, <1>2 DEF WorkerState, WorkerPc
<1>4. main' \in MainState /\ main'.pc \in {"spawn", "pipes"}
  <2>1. CASE main.next + 1 < world_size
    <3>1. main' = [main EXCEPT !.next = main.next + 1]
      BY <2>1 DEF SpawnWorker
    <3>2. main.next + 1 \in Rank
      BY <1>2, <2>1, RankFacts DEF Rank
    <3>3. QED
      BY <1>1, <1>2, <3>1, <3>2, Zenon DEF MainState
  <2>2. CASE ~(main.next + 1 < world_size)
    <3>1. main' = [main EXCEPT !.pc = "pipes", !.next = 0]
      BY <2>2 DEF SpawnWorker
    <3>2. QED
      BY <3>1, MainMoves, RankFacts, Zenon DEF MainPc
  <2>3. QED
    BY <2>1, <2>2
<1>5. ExecTypes'
  BY <1>1, <1>3, <1>4 DEF ExecInv, ExecTypes
<1>6. QED
  BY <1>1, <1>3, <1>4, <1>5, NotInCall

(* The main thread goes on without touching queues and workers.              *)
LEMMA StartUpGoesOn ==
  ASSUME ExecInv, UNCHANGED <<worker, calls, resps, clean>>,
         main.pc \notin {"enqueue", "collect", "wait", "exiting", "dead"},
         main' \in MainState, main'.pc \notin {"enqueue", "collect", "wait", "returned"}
  PROVE  ExecInv' /\ StaysEnded
<1>1. ExecTypes'
  BY DEF ExecInv, ExecTypes
<1>2. \A w \in Rank : worker'[w].pc = "run" => worker[w].pc = "run"
  OBVIOUS
<1>3. QED
  BY <1>1, <1>2, NotInCall

LEMMA ExecStartUp ==
  ASSUME ExecInv,
         \/ BroadcastReady \/ ResponseReady \/ RegisterLook \/ RegisterStore
         \/ \E w \in Rank : TakeReady(w)
  PROVE  ExecInv' /\ StaysEnded
<1>1. UNCHANGED <<worker, calls, resps, clean>>
  BY DEF BroadcastReady, ResponseReady, RegisterLook, RegisterStore, TakeReady
<1>2. main \in MainState /\ main.next \in Rank
  BY DEF ExecInv, ExecTypes, MainState
<1>3. main.pc \in {"pipes", "bcast", "resp", "register", "registering"}
  BY DEF BroadcastReady, ResponseReady, RegisterLook, RegisterStore, TakeReady
<1>4. \/ \E pc \in {"bcast", "resp", "register", "registering", "idle"} :
           main' = [main EXCEPT !.pc = pc]
      \/ main' = main
      \/ main.next + 1 < world_size /\ main' = [main EXCEPT !.next = main.next + 1]
  BY DEF BroadcastReady, ResponseReady, RegisterLook, RegisterStore, TakeReady
<1>5. /\ main' \in MainState
      /\ main'.pc \in {"pipes", "bcast", "resp", "register", "registering", "idle"}
  <2>1. ASSUME NEW pc \in {"bcast", "resp", "register", "registering", "idle"},
               main' = [main EXCEPT !.pc = pc]
        PROVE  main' \in MainState /\ main'.pc = pc
    BY <2>1, MainPcMoves DEF MainPc
  <2>2. CASE main' = main
    BY <1>2, <1>3, <2>2
  <2>3. CASE main.next + 1 < world_size /\ main' = [main EXCEPT !.next = main.next + 1]
    <3>1. main.next + 1 \in Rank
      BY <1>2, <2>3, RankFacts DEF Rank
    <3>2. QED
      BY <1>2, <1>3, <2>3, <3>1 DEF MainState
  <2>4. QED
    BY <1>4, <2>1, <2>2, <2>3
<1>6. QED
  BY <1>1, <1>3, <1>5, StartUpGoesOn

(* All workers die, which only ends what they were doing.                    *)
LEMMA AllDeadFacts ==
  ASSUME AllDead
  PROVE  /\ worker' \in [Rank -> WorkerState]
         /\ \A w \in Rank : worker'[w].pc # "run"
BY DEF AllDead, WorkerState, WorkerPc

LEMMA ExecPipeBroken ==
  ASSUME ExecInv, NEW w \in Rank, PipeBroken(w)
  PROVE  ExecInv' /\ StaysEnded
<1>1. /\ main.pc = "pipes" /\ AllDead /\ main' = [main EXCEPT !.pc = "exiting"]
      /\ UNCHANGED <<calls, resps, clean>>
  BY DEF PipeBroken
<1>2. main' \in MainState /\ main'.pc = "exiting"
  BY <1>1, MainPcMoves DEF MainPc
<1>3. ExecTypes'
  BY <1>1, <1>2, AllDeadFacts DEF ExecInv, ExecTypes
<1>4. QED
  BY <1>1, <1>2, <1>3, EndedCalls DEF Ended, StaysEnded

(* A worker outside of its busy loop.                                        *)
LEMMA ExecWorkerGoes ==
  ASSUME ExecInv, NEW w \in Rank, NEW from \in WorkerPc, NEW to \in WorkerPc \ {"run"},
         WorkerGoes(w, from, to), UNCHANGED <<main, calls, resps, clean>>
  PROVE  ExecInv' /\ StaysEnded
<1>1. worker' = [worker EXCEPT ![w].pc = to] /\ worker \in [Rank -> WorkerState]
  BY DEF WorkerGoes, ExecInv, ExecTypes
<1>2. /\ worker' \in [Rank -> WorkerState]
      /\ \A v \in Rank : worker'[v] = worker[v] \/ worker'[v].pc # "run"
  BY <1>1 DEF WorkerState
<1>3. ExecTypes'
  BY <1>2 DEF ExecInv, ExecTypes
<1>4. QED
  BY <1>2, <1>3, MainRests

LEMMA ExecBury ==
  ASSUME ExecInv, NEW w \in Rank, Bury(w)
  PROVE  ExecInv' /\ StaysEnded
<1>1. /\ worker' = [worker EXCEPT ![w] = [pc |-> "dead", call |-> 0]]
      /\ worker \in [Rank -> WorkerState] /\ UNCHANGED <<main, calls, resps, clean>>
  BY DEF Bury, ExecInv, ExecTypes
<1>2. /\ worker' \in [Rank -> WorkerState]
      /\ \A v \in Rank : worker'[v] = worker[v] \/ worker'[v].pc # "run"
  BY <1>1 DEF WorkerState, WorkerPc
<1>3. ExecTypes'
  BY <1>1, <1>2 DEF ExecInv, ExecTypes
<1>4. QED
  BY <1>1, <1>2, <1>3, MainRests

LEMMA ExecMonitor ==
  ASSUME ExecInv, MonitorStep
  PROVE  ExecInv' /\ StaysEnded
<1>1. UNCHANGED <<main, calls, resps, clean>> /\ (UNCHANGED worker \/ AllDead)
  BY DEF MonitorStep, MonitorWakes, MonitorShutdown, MonitorTerminates, MonitorCallback
<1>2. /\ worker' \in [Rank -> WorkerState]
      /\ \A v \in Rank : worker'[v] = worker[v] \/ worker'[v].pc # "run"
  BY <1>1, AllDeadFacts DEF ExecInv, ExecTypes
<1>3. ExecTypes'
  BY <1>1, <1>2, Zenon DEF ExecInv, ExecTypes
<1>4. QED
  BY <1>1, <1>2, <1>3, MainRests

-----------------------------------------------------------------------------
(* A call, on the side of a worker.                                          *)

(* A step of worker w changes at most how far the call is in w.              *)
LEMMA WorkerAdvances ==
  ASSUME ExecInv, ExecTypes', NEW w \in Rank, UNCHANGED <<main, clean>>,
         \A v \in Rank \ {w} : worker'[v] = worker[v] /\ calls'[v] = calls[v]
                                 /\ resps'[v] = resps[v],
         ~Quiet(w),
         Queued(w) \/ Running(w) \/ Answered(w)
           => Quiet(w)' \/ Queued(w)' \/ Running(w)' \/ Answered(w)'
  PROVE  ExecInv' /\ StaysEnded
<1>1. /\ \A v \in Rank : Awaited(v)' <=> Awaited(v)
      /\ Ended' <=> Ended
  BY DEF Awaited, Ended
<1>2. \A v \in Rank \ {w} : /\ Quiet(v) => Quiet(v)'
                            /\ Queued(v) => Queued(v)'
                            /\ Running(v) => Running(v)'
                            /\ Answered(v) => Answered(v)'
  BY ZenonT(30) DEF Quiet, Queued, Running, Answered
<1>3. ASSUME clean, ~Ended, NEW v \in Rank
      PROVE  /\ Awaited(v)' => Quiet(v)' \/ Queued(v)' \/ Running(v)' \/ Answered(v)'
             /\ ~Awaited(v)' => Quiet(v)'
  <2>1. /\ Awaited(v) => Quiet(v) \/ Queued(v) \/ Running(v) \/ Answered(v)
        /\ ~Awaited(v) => Quiet(v)
    BY <1>3, Zenon DEF ExecInv, CallsInv
  <2>2. CASE v = w
    BY <1>1, <2>1, <2>2, Zenon
  <2>3. CASE v # w
    BY <1>1, <1>2, <2>1, <2>3, Zenon
  <2>4. QED
    BY <2>2, <2>3
<1>4. CallsInv'
  BY <1>1, <1>3 DEF ExecInv, CallsInv
<1>5. QED
  BY <1>1, <1>4, Zenon DEF ExecInv, StaysEnded

LEMMA ExecTakeCall ==
  ASSUME ExecInv, NEW w \in Rank, TakeCall(w)
  PROVE  ExecInv' /\ StaysEnded
<1>1. /\ worker[w].pc = "loop" /\ calls[w] # <<>>
      /\ worker' = [worker EXCEPT ![w] = [pc |-> "run", call |-> Head(calls[w])]]
      /\ calls' = [calls EXCEPT ![w] = Tail(calls[w])]
      /\ UNCHANGED <<main, resps, clean>>
  BY DEF TakeCall
<1>2. worker \in [Rank -> WorkerState] /\ calls \in [Rank -> Seq(Nat)]
  BY DEF ExecInv, ExecTypes
<1>3. Head(calls[w]) \in Nat /\ Tail(calls[w]) \in Seq(Nat)
  BY <1>1, <1>2, QueueTail, Zenon
<1>4. ExecTypes'
  BY <1>1, <1>2, <1>3, Zenon DEF ExecInv, ExecTypes, WorkerState, WorkerPc
<1>5. ~Quiet(w) /\ ~Running(w) /\ ~Answered(w)
  BY <1>1, Zenon DEF Quiet, Running, Answered
<1>6. ASSUME Queued(w) PROVE Running(w)'
  <2>1. calls[w] = <<main.id>> /\ resps[w] = <<>>
    BY <1>6 DEF Queued
  <2>2. Head(calls[w]) = main.id /\ Tail(calls[w]) = <<>>
    BY <2>1
  <2>3. QED
    BY <1>1, <1>2, <2>1, <2>2, Zenon DEF Running
<1>7. QED
  BY <1>1, <1>2, <1>4, <1>5, <1>6, WorkerAdvances

LEMMA ExecFinish ==
  ASSUME ExecInv, NEW w \in Rank, NEW ok \in BOOLEAN, Finish(w, ok)
  PROVE  ExecInv' /\ StaysEnded
<1> DEFINE a == [id |-> worker[w].call, ok |-> ok]
<1>1. /\ worker[w].pc = "run"
      /\ worker' = [worker EXCEPT ![w] = [pc |-> "loop", call |-> 0]]
      /\ resps' = [resps EXCEPT ![w] = Append(resps[w], a)]
      /\ UNCHANGED <<main, calls, clean>>
  BY DEF Finish
<1>2. worker \in [Rank -> WorkerState] /\ resps \in [Rank -> Seq(Answer)]
  BY DEF ExecInv, ExecTypes
<1>3. a \in Answer
  BY <1>2 DEF Answer, WorkerState
<1>4. Append(resps[w], a) \in Seq(Answer)
  BY <1>2, <1>3, QueueAppend, Zenon
<1>5. ~Quiet(w) /\ ~Queued(w) /\ ~Answered(w)
  BY <1>1, Zenon DEF Quiet, Queued, Answered
<1>6. ASSUME Running(w) PROVE Answered(w)'
  <2>1. resps[w] = <<>> /\ calls[w] = <<>> /\ worker[w].call = main.id
    BY <1>6 DEF Running
  <2>2. Append(resps[w], a) = <<a>> /\ a = [id |-> main'.id, ok |-> ok]
    BY <1>1, <2>1
  <2> HIDE DEF a
  <2>3. resps'[w] = <<[id |-> main'.id, ok |-> ok]>>
    BY <1>1, <1>2, <2>2
  <2>4. worker'[w].pc # "run" /\ calls'[w] = <<>>
    BY <1>1, <1>2, <2>1
  <2>5. QED
    BY <2>3, <2>4, Zenon DEF Answered
<1> HIDE DEF a
<1>7. ExecTypes'
  BY <1>1, <1>2, <1>4 DEF ExecInv, ExecTypes, WorkerState, WorkerPc
<1>8. QED
  BY <1>1, <1>2, <1>5, <1>6, <1>7, WorkerAdvances, Zenon

LEMMA ExecWorkerStep ==
  ASSUME ExecInv, NEW w \in Rank, WorkerStep(w)
  PROVE  ExecInv' /\ StaysEnded
<1>1. CASE InitWorker(w)
  BY <1>1, ExecWorkerGoes DEF InitWorker, WorkerPc
<1>2. CASE SyncWorker(w)
  BY <1>2, ExecWorkerGoes DEF SyncWorker, WorkerPc
<1>3. CASE SendReady(w)
  BY <1>3, ExecWorkerGoes DEF SendReady, WorkerPc
<1>4. CASE WaitBroadcast(w)
  BY <1>4, ExecWorkerGoes DEF WaitBroadcast, WorkerPc
<1>5. CASE WaitResponse(w)
  BY <1>5, ExecWorkerGoes DEF WaitResponse, WorkerPc
<1>6. CASE TakeCall(w)
  BY <1>6, ExecTakeCall
<1>7. ASSUME NEW ok \in BOOLEAN, Finish(w, ok) PROVE ExecInv' /\ StaysEnded
  BY <1>7, ExecFinish
<1>8. QED
  BY <1>1, <1>2, <1>3, <1>4, <1>5, <1>6, <1>7, Zenon DEF WorkerStep

-----------------------------------------------------------------------------
(* A call, on the side of the caller.                                        *)

LEMMA ExecCall ==
  ASSUME ExecInv, NEW timed \in BOOLEAN, Call(timed)
  PROVE  ExecInv' /\ StaysEnded
<1> DEFINE pc == IF flags.is_failed \/ flags.rpc_none THEN "raised" ELSE "enqueue"
           m == NotCalling(pc, main.id + 1)
<1>1. /\ main.pc = "idle" /\ UNCHANGED <<worker, calls, resps, clean>>
      /\ main' = [m EXCEPT !.timed = timed]
  BY DEF Call
<1>2. pc \in MainPc /\ pc \in {"raised", "enqueue"}
  BY DEF MainPc
<1>3. main.id + 1 \in Nat
  BY DEF ExecInv, ExecTypes, MainState
<1> HIDE DEF pc
<1>4. m \in MainState /\ m.pc = pc /\ m.next = 0 /\ m.answers = <<>>
  BY <1>2, <1>3, NotCallingType
<1> HIDE DEF m
<1>5. main' \in MainState /\ main'.pc = pc /\ main'.next = 0 /\ main'.answers = <<>>
  BY <1>1, <1>4 DEF MainState
<1>6. ExecTypes'
  BY <1>1, <1>5 DEF ExecInv, ExecTypes
<1>7. QED
  BY <1>1, <1>2, <1>5, <1>6, NotInCall

(* enqueue of the broadcast queue puts the call before every worker.         *)
LEMMA ExecEnqueue ==
  ASSUME ExecInv, Enqueue
  PROVE  ExecInv' /\ StaysEnded
<1>1. /\ main.pc = "enqueue" /\ UNCHANGED <<worker, resps, clean>>
      /\ calls' = [w \in Rank |-> Append(calls[w], main.id)]
      /\ main' = [main EXCEPT !.pc = "collect"]
  BY DEF Enqueue
<1>2. main.id \in Nat /\ calls \in [Rank -> Seq(Nat)]
  BY DEF ExecInv, ExecTypes, MainState
<1>3. /\ main' \in MainState /\ main'.pc = "collect" /\ main'.next = main.next
      /\ main'.id = main.id /\ main'.answers = main.answers
  BY <1>1, MainPcMoves DEF MainPc
<1>4. \A w \in Rank : Append(calls[w], main.id) \in Seq(Nat)
  BY <1>2, QueueAppend
<1>5. ExecTypes'
  BY <1>1, <1>3, <1>4 DEF ExecInv, ExecTypes
<1>6. main.next = 0 /\ main.answers = <<>>
  BY <1>1 DEF ExecInv, CallsInv
<1>7. ASSUME clean, NEW w \in Rank PROVE Awaited(w)' /\ Queued(w)'
  <2>1. ~Awaited(w) /\ ~Ended
    BY <1>1 DEF Awaited, Ended
  <2>2. Quiet(w)
    BY <1>7, <2>1 DEF ExecInv, CallsInv
  <2>3. calls'[w] = <<main.id>>
    <3>1. calls[w] = <<>> /\ calls'[w] = Append(calls[w], main.id)
      BY <1>1, <2>2, Zenon DEF Quiet
    <3>2. Append(<<>>, main.id) = <<main.id>>
      OBVIOUS
    <3>3. QED
      BY <3>1, <3>2
  <2>4. Queued(w)'
    BY <1>1, <1>3, <2>2, <2>3 DEF Quiet, Queued
  <2>5. QED
    BY <1>3, <1>6, <2>4, RankFacts DEF Awaited
<1>8. CallsInv'
  BY <1>1, <1>3, <1>6, <1>7 DEF CallsInv
<1>9. QED
  BY <1>1, <1>5, <1>8 DEF ExecInv, StaysEnded, Ended

LEMMA ExecCollect ==
  ASSUME ExecInv, Collect
  PROVE  ExecInv' /\ StaysEnded
<1>1. main.pc = "collect" /\ UNCHANGED <<worker, calls, resps>> /\ clean \in BOOLEAN
  BY DEF Collect, ExecInv, ExecTypes
<1>2. CASE flags.resp_none
  <2>1. main' = [main EXCEPT !.pc = "raised"] /\ ~clean' /\ clean' \in BOOLEAN
    BY <1>2, Zenon DEF Collect
  <2>2. main' \in MainState /\ main'.pc = "raised"
    BY <2>1, MainPcMoves DEF MainPc
  <2>3. ExecTypes'
    BY <1>1, <2>1, <2>2 DEF ExecInv, ExecTypes
  <2>4. CallsInv'
    BY <2>1, <2>2 DEF CallsInv
  <2>5. QED
    BY <1>1, <2>3, <2>4 DEF ExecInv, StaysEnded, Ended
<1>3. CASE ~flags.resp_none
  <2>1. main' = [main EXCEPT !.pc = "wait"] /\ clean' = clean
    BY <1>1, <1>3 DEF Collect
  <2>2. /\ main' \in MainState /\ main'.pc = "wait" /\ main'.next = main.next
        /\ main'.id = main.id /\ main'.answers = main.answers
    BY <2>1, MainPcMoves DEF MainPc
  <2>3. ExecTypes'
    BY <1>1, <2>1, <2>2 DEF ExecInv, ExecTypes
  <2>4. \A w \in Rank : /\ Awaited(w)' <=> Awaited(w)
                        /\ Quiet(w)' <=> Quiet(w)
                        /\ Queued(w)' <=> Queued(w)
                        /\ Running(w)' <=> Running(w)
                        /\ Answered(w)' <=> Answered(w)
    BY <1>1, <2>2 DEF Awaited, Quiet, Queued, Running, Answered
  <2>5. CallsInv'
    BY <1>1, <2>1, <2>2, <2>4, Zenon DEF ExecInv, CallsInv, Ended
  <2>6. QED
    BY <1>1, <2>3, <2>5 DEF ExecInv, StaysEnded, Ended
<1>4. QED
  BY <1>2, <1>3

(* The call ends early, with answers still to come: nothing is claimed from  *)
(* here on.                                                                  *)
LEMMA NotClean ==
  ASSUME ExecInv, ExecTypes', ~clean', main'.pc # "enqueue",
         main.pc \notin {"exiting", "dead"}
  PROVE  ExecInv' /\ StaysEnded
BY Zenon DEF ExecInv, CallsInv, StaysEnded, Ended

LEMMA ExecTimesOut ==
  ASSUME ExecInv, TimesOut
  PROVE  ExecInv' /\ StaysEnded
<1>1. /\ main.pc = "wait" /\ main' = [main EXCEPT !.pc = "raised"] /\ clean' = FALSE
      /\ UNCHANGED <<worker, calls, resps>>
  BY DEF TimesOut
<1>2. main' \in MainState /\ main'.pc = "raised"
  BY <1>1, MainPcMoves DEF MainPc
<1>3. ExecTypes'
  BY <1>1, <1>2, ZenonT(30) DEF ExecInv, ExecTypes
<1>4. QED
  BY <1>1, <1>2, <1>3, NotClean

(* get_response takes the answer of worker next: it is the answer to this    *)
(* call, and afterwards nothing is left of the call in this worker.          *)
LEMMA GotFacts ==
  ASSUME ExecInv, Got, clean
  PROVE  /\ Head(resps[main.next]).id = main.id
         /\ \A w \in Rank : w <= main.next => Quiet(w)'
         /\ \A w \in Rank : w > main.next =>
              Quiet(w) \/ Queued(w) \/ Running(w) \/ Answered(w)
<1> SUFFICES ASSUME NEW n, n = main.next
             PROVE  /\ Head(resps[n]).id = main.id
                    /\ \A w \in Rank : w <= n => Quiet(w)'
                    /\ \A w \in Rank : w > n =>
                         Quiet(w) \/ Queued(w) \/ Running(w) \/ Answered(w)
  OBVIOUS
<1>1. /\ main.pc = "wait" /\ resps[n] # <<>> /\ UNCHANGED <<worker, calls>>
      /\ resps' = [resps EXCEPT ![n] = Tail(resps[n])]
  BY DEF Got
<1>2. n \in Rank /\ resps \in [Rank -> Seq(Answer)]
  BY DEF ExecInv, ExecTypes, MainState
<1>3. \A w \in Rank : Awaited(w) <=> n <= w
  BY <1>1, Zenon DEF Awaited
<1>4. /\ \A w \in Rank : n <= w => Quiet(w) \/ Queued(w) \/ Running(w) \/ Answered(w)
      /\ \A w \in Rank : ~(n <= w) => Quiet(w)
  BY <1>1, <1>3 DEF ExecInv, CallsInv, Ended
<1>5. n \in Nat /\ n <= n
  <2>1. n \in Nat
    BY <1>2, RankFacts, Zenon
  <2>2. QED
    BY <2>1
<1>6. Answered(n)
  BY <1>1, <1>2, <1>4, <1>5, Zenon DEF Quiet, Queued, Running
<1>7. PICK ok \in BOOLEAN : resps[n] = <<[id |-> main.id, ok |-> ok]>>
  BY <1>6, Zenon DEF Answered
<1>8. Head(resps[n]).id = main.id /\ Tail(resps[n]) = <<>>
  BY <1>7
<1>9. Quiet(n)'
  <2>1. resps'[n] = <<>>
    BY <1>1, <1>2, <1>8
  <2>2. QED
    BY <1>1, <1>6, <2>1 DEF Quiet, Answered
<1>10. \A w \in Rank : w # n /\ Quiet(w) => Quiet(w)'
  BY <1>1, <1>2, Zenon DEF Quiet
<1>11. \A w \in Rank : w <= n => w = n \/ ~(n <= w)
  BY <1>5, RankFacts
<1>12. \A w \in Rank : w > n => n <= w
  BY <1>5, RankFacts
<1>13. QED
  BY <1>4, <1>8, <1>9, <1>10, <1>11, <1>12, Zenon

(* The call is over with the last worker's answer: nothing is left of it.    *)
LEMMA GotLast ==
  ASSUME ExecInv, Got, clean, LastOne
  PROVE  \A w \in Rank : Quiet(w)'
<1>1. main.next \in Nat /\ main.next + 1 = world_size
  BY RankFacts, Zenon DEF LastOne, ExecInv, ExecTypes, MainState
<1>2. \A w \in Rank : w <= main.next
  BY <1>1, ExecutorAssumption DEF Rank
<1>3. QED
  BY <1>2, GotFacts

LEMMA ExecGot ==
  ASSUME ExecInv, Got
  PROVE  ExecInv' /\ StaysEnded
<1> DEFINE n == main.next
           a == Append(main.answers, Head(resps[n]).id)
<1>1. /\ main.pc = "wait" /\ resps[n] # <<>> /\ UNCHANGED <<worker, calls>>
      /\ resps' = [resps EXCEPT ![n] = Tail(resps[n])]
  BY DEF Got
<1>2. /\ n \in Rank /\ resps \in [Rank -> Seq(Answer)] /\ main \in MainState
      /\ clean \in BOOLEAN /\ main.id \in Nat /\ main.answers \in Seq(Nat)
  BY DEF ExecInv, ExecTypes, MainState
<1>3. Tail(resps[n]) \in Seq(Answer) /\ Head(resps[n]) \in Answer
  <2>1. resps[n] \in Seq(Answer)
    BY <1>2
  <2>2. QED
    BY <1>1, <2>1, QueueTail
<1>4. resps' \in [Rank -> Seq(Answer)]
  BY <1>1, <1>2, <1>3
<1>5. Head(resps[n]).id \in Nat
  BY <1>3 DEF Answer
<1>6. a \in Seq(Nat)
  BY <1>2, <1>5, QueueAppend
<1>7. ASSUME clean PROVE \A i \in 1 .. Len(a) : a[i] = main.id
  <2>1. \A i \in 1 .. Len(main.answers) : main.answers[i] = main.id
    BY <1>1, <1>7 DEF ExecInv, CallsInv
  <2>2. Head(resps[n]).id = main.id
    BY <1>7, GotFacts
  <2>3. QED
    BY <1>2, <2>1, <2>2
<1>8. CASE main' = [main EXCEPT !.pc = "raised"] /\ clean' = (clean /\ LastOne)
  <2>1. main' \in MainState /\ main'.pc = "raised"
    BY <1>8, MainPcMoves DEF MainPc
  <2>2. clean' \in BOOLEAN /\ (clean' => clean /\ LastOne)
    BY <1>8, Zenon
  <2>3. ExecTypes'
    BY <1>1, <1>4, <2>1, <2>2 DEF ExecInv, ExecTypes
  <2>4. clean' => \A w \in Rank : Quiet(w)'
    BY <2>2, GotLast, Zenon
  <2>5. CallsInv'
    BY <2>1, <2>4 DEF CallsInv, Awaited
  <2>6. QED
    BY <1>1, <2>3, <2>5 DEF ExecInv, StaysEnded, Ended
<1>9. CASE main' = [main EXCEPT !.pc = "returned", !.answers = a] /\ LastOne /\ clean' = clean
  <2>1. /\ main' \in MainState /\ main'.pc = "returned" /\ main'.answers = a
        /\ main'.id = main.id
    <3> HIDE DEF a
    <3>1. QED
      BY <1>2, <1>6, <1>9, Zenon DEF MainState, MainPc
  <2>2. ExecTypes'
    BY <1>1, <1>2, <1>4, <1>9, <2>1, Zenon DEF ExecInv, ExecTypes
  <2>3. clean' => \A w \in Rank : Quiet(w)'
    BY <1>9, GotLast
  <2>4. clean' => \A i \in 1 .. Len(main'.answers) : main'.answers[i] = main'.id
    <3> HIDE DEF a
    <3>1. QED
      BY <1>7, <1>9, <2>1, Zenon
  <2>5. CallsInv'
    BY <2>1, <2>3, <2>4 DEF CallsInv, Awaited
  <2>6. QED
    BY <1>1, <2>2, <2>5 DEF ExecInv, StaysEnded, Ended
<1>10. CASE /\ main' = [main EXCEPT !.pc = "collect", !.next = n + 1, !.answers = a]
            /\ ~LastOne /\ clean' = clean
  <2>1. n \in Nat /\ n + 1 \in Rank
    BY <1>2, <1>10, ExecutorAssumption DEF LastOne, Rank
  <2>2. /\ main' \in MainState /\ main'.pc = "collect" /\ main'.answers = a
        /\ main'.id = main.id /\ main'.next = n + 1
    <3> HIDE DEF a, n
    <3>1. QED
      BY <1>2, <1>6, <1>10, <2>1, Zenon DEF MainState, MainPc
  <2>3. ExecTypes'
    BY <1>1, <1>2, <1>4, <1>10, <2>2 DEF ExecInv, ExecTypes
  <2>4. \A w \in Rank : Awaited(w)' => w > n
    BY <2>1, <2>2, RankFacts DEF Awaited
  <2>5. \A w \in Rank : ~Awaited(w)' => w <= n
    BY <2>1, <2>2, RankFacts DEF Awaited
  <2>6. ASSUME clean, NEW w \in Rank, w > n
        PROVE  Quiet(w)' \/ Queued(w)' \/ Running(w)' \/ Answered(w)'
    <3>1. w # n
      BY <2>1, <2>6, RankFacts
    <3>2. resps'[w] = resps[w]
      BY <1>1, <1>2, <3>1
    <3>3. Quiet(w) \/ Queued(w) \/ Running(w) \/ Answered(w)
      BY <2>6, GotFacts, Zenon
    <3>4. CASE Answered(w)
      BY <1>1, <2>2, <3>2, <3>4, Zenon DEF Answered
    <3>5. CASE Quiet(w) \/ Queued(w) \/ Running(w)
      BY <1>1, <2>2, <3>2, <3>5 DEF Quiet, Queued, Running
    <3>6. QED
      BY <3>3, <3>4, <3>5
  <2>7. ASSUME clean, NEW w \in Rank, w <= n PROVE Quiet(w)'
    BY <2>7, GotFacts
  <2>8. clean' => \A i \in 1 .. Len(main'.answers) : main'.answers[i] = main'.id
    <3> HIDE DEF a
    <3>1. QED
      BY <1>7, <1>10, <2>2
  <2>9. CallsInv'
    <3> HIDE DEF a, n
    <3>1. QED
      BY <1>10, <2>2, <2>4, <2>5, <2>6, <2>7, <2>8, Zenon DEF CallsInv
  <2>10. QED
    BY <1>1, <2>3, <2>9 DEF ExecInv, StaysEnded, Ended
<1>11. QED
  BY <1>8, <1>9, <1>10 DEF Got

-----------------------------------------------------------------------------
(* The other steps of the engine's main thread.                              *)

LEMMA ExecProcessEnds ==
  ASSUME ExecInv, ProcessEnds, AllDead \/ UNCHANGED worker
  PROVE  ExecInv' /\ StaysEnded
<1>1. main' = NotCalling("dead", 0) /\ clean' = TRUE /\ UNCHANGED <<calls, resps>>
  BY DEF ProcessEnds
<1>2. main' \in MainState /\ main'.pc = "dead"
  BY <1>1, NotCallingType DEF MainPc
<1>3. worker' \in [Rank -> WorkerState]
  BY AllDeadFacts DEF ExecInv, ExecTypes
<1>4. ExecTypes' /\ Ended'
  BY <1>1, <1>2, <1>3 DEF ExecInv, ExecTypes, Ended
<1>5. QED
  BY <1>2, <1>4, EndedCalls DEF StaysEnded

(* An exception or a signal ends the main loop.                              *)
LEMMA ExecExiting ==
  ASSUME ExecInv, main' = [main EXCEPT !.pc = "exiting"], main.pc # "dead",
         UNCHANGED <<worker, calls, resps, clean>>
  PROVE  ExecInv' /\ StaysEnded
<1>1. main' \in MainState /\ main'.pc = "exiting"
  BY MainPcMoves DEF MainPc
<1>2. ExecTypes' /\ Ended'
  BY <1>1 DEF ExecInv, ExecTypes, Ended
<1>3. QED
  BY <1>2, EndedCalls DEF StaysEnded

LEMMA ExecBackToLoop ==
  ASSUME ExecInv, BackToLoop, main.pc \in {"returned", "raised"}
  PROVE  ExecInv' /\ StaysEnded
<1>1. main' = NotCalling("idle", main.id) /\ UNCHANGED <<worker, calls, resps, clean>>
  BY DEF BackToLoop
<1>2. main.id \in Nat
  BY DEF ExecInv, ExecTypes, MainState
<1>3. main' \in MainState /\ main'.pc = "idle"
  BY <1>1, <1>2, NotCallingType DEF MainPc
<1>4. ExecTypes'
  BY <1>1, <1>3 DEF ExecInv, ExecTypes
<1>5. QED
  BY <1>1, <1>3, <1>4, NotInCall

LEMMA ExecTerminated ==
  ASSUME ExecInv, Terminated
  PROVE  ExecInv' /\ StaysEnded
<1>1. CASE KeepExec
  BY <1>1, ExecRests DEF KeepExec
<1>2. CASE /\ main' = [main EXCEPT !.pc = "exiting"] /\ main.pc # "dead"
           /\ UNCHANGED <<worker, calls, resps, clean>>
  BY <1>2, ExecExiting
<1>3. CASE /\ InCall /\ main' = [main EXCEPT !.pc = "raised"]
           /\ clean' = (clean /\ main.pc = "enqueue")
           /\ UNCHANGED <<worker, calls, resps>>
  <2>1. main' \in MainState /\ main'.pc = "raised"
    BY <1>3, MainPcMoves DEF MainPc
  <2>2. clean \in BOOLEAN /\ clean' \in BOOLEAN
    BY <1>3 DEF ExecInv, ExecTypes
  <2>3. ExecTypes'
    BY <1>3, <2>1, <2>2 DEF ExecInv, ExecTypes
  <2>4. main.pc \in {"enqueue", "collect", "wait"}
    BY <1>3 DEF InCall
  <2>5. CASE main.pc = "enqueue"
    <3>1. clean' = clean
      BY <1>3, <2>2, <2>5
    <3>2. QED
      BY <1>3, <2>1, <2>3, <2>5, <3>1, NotInCall
  <2>6. CASE main.pc # "enqueue"
    <3>1. ~clean'
      BY <1>3, <2>6, Zenon
    <3>2. QED
      BY <2>1, <2>3, <2>4, <3>1, NotClean
  <2>7. QED
    BY <2>5, <2>6
<1>4. QED
  BY <1>1, <1>2, <1>3 DEF Terminated

LEMMA ExecBootInline ==
  ASSUME ExecInv, BootInline
  PROVE  ExecInv' /\ StaysEnded
<1>1. main.pc = "spawn" /\ UNCHANGED <<worker, calls, resps, clean>>
  BY DEF BootInline
<1>2. PICK ok \in BOOLEAN : main' = [main EXCEPT !.pc = IF ok THEN "idle" ELSE "exiting"]
  BY DEF BootInline
<1>3. (IF ok THEN "idle" ELSE "exiting") \in {"idle", "exiting"}
  OBVIOUS
<1>4. PICK pc \in {"idle", "exiting"} : main' = [main EXCEPT !.pc = pc]
  BY <1>2, <1>3
<1>5. main' \in MainState /\ main'.pc = pc
  BY <1>4, MainPcMoves DEF MainPc
<1>6. QED
  BY <1>1, <1>4, <1>5, StartUpGoesOn

LEMMA ExecFatal ==
  ASSUME ExecInv, Fatal, Idle
  PROVE  ExecInv' /\ StaysEnded
BY ExecExiting DEF Fatal, Idle

LEMMA ExecExecutor ==
  ASSUME ExecInv, Executor
  PROVE  ExecInv' /\ StaysEnded
<1>1. CASE SpawnWorker
  BY <1>1, ExecSpawnWorker
<1>2. CASE \/ BroadcastReady \/ ResponseReady \/ RegisterLook \/ RegisterStore
           \/ \E w \in Rank : TakeReady(w)
  BY <1>2, ExecStartUp
<1>3. CASE Enqueue
  BY <1>3, ExecEnqueue
<1>4. CASE Collect
  BY <1>4, ExecCollect
<1>5. CASE Got
  BY <1>5, ExecGot
<1>6. CASE TimesOut
  BY <1>6, ExecTimesOut
<1>7. CASE Exit
  BY <1>7, ExecProcessEnds DEF Exit
<1>8. CASE \E w \in Rank : PipeBroken(w)
  BY <1>8, ExecPipeBroken
<1>9. QED
  BY <1>1, <1>2, <1>3, <1>4, <1>5, <1>6, <1>7, <1>8 DEF Executor, MainStep

LEMMA ExecEngineStep ==
  ASSUME ExecInv, EngineStep
  PROVE  ExecInv' /\ StaysEnded
<1>1. CASE BootInline
  BY <1>1, ExecBootInline
<1>2. CASE Boot
  <2>1. FALSE \in BOOLEAN /\ Call(FALSE)
    BY <1>2, Zenon DEF Boot
  <2>2. QED
    BY <2>1, ExecCall, Zenon
<1>3. CASE HandleAdd \/ HandleAbort \/ HandleUtilityInline
  BY <1>3, ExecRests DEF HandleAdd, HandleAbort, HandleUtilityInline, KeepExec
<1>4. CASE HandleUtility
  BY <1>4, ExecCall DEF HandleUtility
<1>5. CASE HandleFailed
  BY <1>5, ExecFatal DEF HandleFailed, TakeInput
<1>6. CASE StepInline
  <2>1. Idle /\ (KeepExec \/ Fatal)
    BY <1>6 DEF StepInline
  <2>2. QED
    BY <2>1, ExecRests, ExecFatal DEF KeepExec
<1>7. CASE StepDiffusion
  BY <1>7, ExecFatal DEF StepDiffusion
<1>8. CASE BootReturns
  BY <1>8, ExecBackToLoop DEF BootReturns
<1>9. CASE BootRaises
  <2>1. /\ main' = [main EXCEPT !.pc = "exiting"] /\ main.pc # "dead"
        /\ UNCHANGED <<worker, calls, resps, clean>>
    BY <1>9 DEF BootRaises
  <2>2. QED
    BY <2>1, ExecExiting
<1>10. CASE UtilityEnds
  BY <1>10, ExecBackToLoop DEF UtilityEnds
<1>11. QED
  BY <1>1, <1>2, <1>3, <1>4, <1>5, <1>6, <1>7, <1>8, <1>9, <1>10, Zenon DEF EngineStep

LEMMA ExecNext == ExecInv /\ [Next]_vars => ExecInv' /\ StaysEnded
<1> SUFFICES ASSUME ExecInv, [Next]_vars PROVE ExecInv' /\ StaysEnded
  OBVIOUS
<1>1. CASE Executor
  BY <1>1, ExecExecutor
<1>2. CASE Monitor
  BY <1>2, ExecMonitor DEF Monitor
<1>3. CASE EngineStep
  BY <1>3, ExecEngineStep
<1>4. CASE \E w \in Rank : Worker(w)
  BY <1>4, ExecWorkerStep DEF Worker
<1>5. CASE \E w \in Rank : Crash(w) \/ Orphan(w)
  BY <1>5, ExecBury DEF Crash, WorkerDies, Orphan, ParentGone
<1>6. CASE Sigterm
  BY <1>6, ExecTerminated DEF Sigterm
<1>7. CASE Sigkill
  BY <1>7, ExecProcessEnds DEF Sigkill, Killed
<1>8. CASE JoinTimesOut
  BY <1>8, ExecProcessEnds DEF JoinTimesOut
<1>9. CASE ShutdownClient
  BY <1>9, ExecTerminated, ExecRests DEF ShutdownClient, KeepExec
<1>10. CASE Connect \/ Loop \/ EngineGone \/ Closing \/ Callers
  BY <1>10, ExecRests DEF Connect, Loop, EngineGone, Closing, Callers, KeepExec
<1>11. CASE UNCHANGED vars
  BY <1>11, ExecRests DEF vars
<1>12. QED
  BY <1>1, <1>2, <1>3, <1>4, <1>5, <1>6, <1>7, <1>8, <1>9, <1>10, <1>11 DEF Next

(* collective_rpc returns the answers to its own call: a worker's answer to  *)
(* an earlier call is never taken for one to this call, for every number of  *)
(* workers and whatever dies, as long as no call ended before its answers    *)
(* were all in.                                                              *)
THEOREM OwnAnswers == Spec => []AnswersMatch
<1>1. Init => ExecInv
  BY ExecInitial DEF Init
<1>2. ExecInv /\ [Next]_vars => ExecInv'
  BY ExecNext
<1>3. ExecInv => AnswersMatch
  BY DEF ExecInv, CallsInv, AnswersMatch
<1>4. QED
  BY <1>1, <1>2, <1>3, PTL DEF Spec

-----------------------------------------------------------------------------
(* The client: why its output handler ends.                                  *)

Dead(box) == \E m \in Range(box) : m.type = "DEAD"
Error(queue) == \E m \in Range(queue) : m.type = "error"

LEMMA ClientInitial == Init => ClientInv
<1> SUFFICES ASSUME Init PROVE ClientInv
  OBVIOUS
<1>1. /\ utility = [u \in Utility |-> "new"] /\ inbox = <<>> /\ outbox = <<>>
      /\ outputs_queue = <<>> /\ output_task = "running" /\ output_handler = "running"
      /\ client = "starting" /\ pending = {}
  BY DEF Init, ClientInit
<1>2. ClientTypes
  BY <1>1 DEF ClientTypes
<1>3. Range(outbox) = {} /\ Range(outputs_queue) = {}
  BY <1>1 DEF Range
<1>4. ErrorsHaveCauses
  BY <1>1, <1>3 DEF ErrorsHaveCauses
<1>5. FrontEndStopsWithEngine
  BY <1>1 DEF FrontEndStopsWithEngine
<1>6. QED
  BY <1>2, <1>4, <1>5 DEF ClientInv

(* What does not touch the client but for what the engine receives and       *)
(* sends.                                                                    *)
LEMMA ClientRests ==
  ASSUME ClientInv, StaysEnded,
         UNCHANGED <<utility, outputs_queue, output_task, output_handler, client>>,
         inbox' \in Seq(InMessage), outbox' \in Seq(OutMessage), pending' \subseteq Of,
         Dead(outbox)' => Dead(outbox) \/ Ended'
  PROVE  ClientInv'
<1>1. ClientTypes'
  BY DEF ClientInv, ClientTypes
<1>2. Ended => Ended'
  BY DEF StaysEnded
<1>3. Cancelled' <=> Cancelled
  BY DEF Cancelled
<1>4. ErrorsHaveCauses'
  BY <1>2, <1>3 DEF ClientInv, ErrorsHaveCauses, Dead, StaysEnded
<1>5. FrontEndStopsWithEngine'
  BY <1>2 DEF ClientInv, FrontEndStopsWithEngine, Ended
<1>6. QED
  BY <1>1, <1>4, <1>5 DEF ClientInv

LEMMA ClientKept ==
  ASSUME ClientInv, StaysEnded, KeepClient, pending' \subseteq Of
  PROVE  ClientInv'
<1>1. UNCHANGED <<utility, inbox, outbox, outputs_queue, output_task, output_handler,
                  client>>
  BY DEF KeepClient, clientVars
<1>2. inbox' \in Seq(InMessage) /\ outbox' \in Seq(OutMessage)
  BY <1>1 DEF ClientInv, ClientTypes
<1>3. Dead(outbox)' => Dead(outbox)
  BY <1>1 DEF Dead
<1>4. QED
  BY <1>1, <1>2, <1>3, ClientRests

LEMMA MsgTypes ==
  /\ \A r \in Request : Msg("ADD", r) \in InMessage /\ Msg("ABORT", r) \in InMessage
  /\ \A u \in Utility : Msg("UTILITY", u) \in InMessage
  /\ Msg("FAILED", "executor") \in InMessage
  /\ \A x \in Of : Msg("output", x) \in OutMessage /\ Msg("error", x) \in Item
  /\ \A u \in Utility, t \in {"result", "failure"} : Msg(t, u) \in OutMessage
  /\ Msg("DEAD", "engine") \in OutMessage
BY DEF Msg, InMessage, OutMessage, Item, Of

(* The engine's messages to the client.                                      *)
LEMMA Sent ==
  ASSUME ClientInv, StaysEnded, KeepWire, pending' \subseteq Of,
         inbox' \in Seq(InMessage),
         NEW msg \in OutMessage, outbox' = Append(outbox, msg),
         msg.type = "DEAD" => Ended'
  PROVE  ClientInv'
<1>1. UNCHANGED <<utility, outputs_queue, output_task, output_handler, client>>
  BY DEF KeepWire
<1>2. outbox \in Seq(OutMessage)
  BY DEF ClientInv, ClientTypes
<1>3. outbox' \in Seq(OutMessage) /\ Range(outbox') = Range(outbox) \cup {msg}
  BY <1>2, QueueAppend
<1>4. Dead(outbox)' => Dead(outbox) \/ Ended'
  BY <1>3 DEF Dead
<1>5. QED
  BY <1>1, <1>3, <1>4, ClientRests

LEMMA NothingSent ==
  ASSUME ClientInv, StaysEnded, KeepWire, pending' \subseteq Of,
         inbox' \in Seq(InMessage), UNCHANGED outbox
  PROVE  ClientInv'
<1>1. UNCHANGED <<utility, outputs_queue, output_task, output_handler, client>>
  BY DEF KeepWire
<1>2. outbox' \in Seq(OutMessage)
  BY DEF ClientInv, ClientTypes
<1>3. Dead(outbox)' => Dead(outbox)
  BY DEF Dead
<1>4. QED
  BY <1>1, <1>2, <1>3, ClientRests

LEMMA ClientNotify ==
  ASSUME ClientInv, StaysEnded, Notify
  PROVE  ClientInv'
<1>1. /\ KeepWire /\ UNCHANGED <<outbox, pending>>
      /\ inbox' = inbox \/ inbox' = Append(inbox, Msg("FAILED", "executor"))
  BY DEF Notify, engineVars
<1>2. inbox \in Seq(InMessage) /\ pending \subseteq Of
  BY DEF ClientInv, ClientTypes
<1>3. inbox' \in Seq(InMessage)
  BY <1>1, <1>2, MsgTypes, QueueAppend
<1>4. QED
  BY <1>1, <1>2, <1>3, NothingSent

LEMMA ClientGone ==
  ASSUME ClientInv, StaysEnded, Gone
  PROVE  ClientInv'
<1>1. KeepWire /\ inbox' = <<>> /\ pending' = {} /\ UNCHANGED outbox
  BY DEF Gone
<1>2. inbox' \in Seq(InMessage) /\ pending' \subseteq Of
  BY <1>1
<1>3. QED
  BY <1>1, <1>2, NothingSent

LEMMA InputTaken ==
  ASSUME ClientInv, TakeInput
  PROVE  /\ Head(inbox) \in InMessage /\ inbox' \in Seq(InMessage) /\ KeepWire
         /\ pending \subseteq Of
<1>1. inbox \in Seq(InMessage) /\ inbox # <<>> /\ inbox' = Tail(inbox) /\ KeepWire
  BY DEF ClientInv, ClientTypes, TakeInput
<1>2. QED
  BY <1>1, QueueTail DEF ClientInv, ClientTypes

(* ENGINE_CORE_DEAD is the last thing the main loop sends.                   *)
LEMMA ClientFatal ==
  ASSUME ClientInv, StaysEnded, ExecInv, Fatal, KeepWire, pending' \subseteq Of,
         inbox' \in Seq(InMessage)
  PROVE  ClientInv'
<1>1. outbox' = Append(outbox, Msg("DEAD", "engine")) /\ main' = [main EXCEPT !.pc = "exiting"]
  BY DEF Fatal
<1>2. main'.pc = "exiting"
  BY <1>1, MainPcMoves DEF MainPc
<1>3. Ended' /\ Msg("DEAD", "engine") \in OutMessage
  BY <1>2, MsgTypes DEF Ended
<1>4. QED
  BY <1>1, <1>3, Sent

LEMMA ClientEngineStep ==
  ASSUME ClientInv, StaysEnded, ExecInv, EngineStep
  PROVE  ClientInv'
<1>1. pending \subseteq Of /\ inbox \in Seq(InMessage)
  BY DEF ClientInv, ClientTypes
<1>2. CASE BootInline \/ Boot \/ BootReturns \/ BootRaises
  BY <1>1, <1>2, ClientKept, Zenon DEF BootInline, Boot, BootReturns, BootRaises, engineVars
<1>3. CASE HandleAdd
  <2>1. /\ Head(inbox) \in InMessage /\ inbox' \in Seq(InMessage) /\ KeepWire
        /\ pending' = pending \cup {Head(inbox).of} /\ UNCHANGED outbox
    BY <1>3, InputTaken DEF HandleAdd
  <2>2. Head(inbox).of \in Of
    BY <2>1 DEF InMessage
  <2>3. pending' \subseteq Of
    BY <1>1, <2>1, <2>2
  <2>4. QED
    BY <2>1, <2>3, NothingSent
<1>4. CASE HandleAbort \/ HandleUtility
  <2>1. inbox' \in Seq(InMessage) /\ KeepWire /\ UNCHANGED <<pending, outbox>>
    BY <1>4, InputTaken DEF HandleAbort, HandleUtility
  <2>2. QED
    BY <1>1, <2>1, NothingSent
<1>5. CASE HandleUtilityInline
  <2>1. /\ Head(inbox) \in InMessage /\ inbox' \in Seq(InMessage) /\ KeepWire
        /\ Head(inbox).type = "UTILITY" /\ UNCHANGED pending
    BY <1>5, InputTaken DEF HandleUtilityInline
  <2>2. PICK t \in {"result", "failure"} : outbox' = Append(outbox, Msg(t, Head(inbox).of))
    BY <1>5, Zenon DEF HandleUtilityInline
  <2>3. Head(inbox).of \in Utility
    BY <2>1 DEF InMessage
  <2>4. Msg(t, Head(inbox).of) \in OutMessage /\ Msg(t, Head(inbox).of).type # "DEAD"
    BY <2>3, MsgTypes, Zenon DEF Msg
  <2>5. QED
    BY <1>1, <2>1, <2>2, <2>4, Sent
<1>6. CASE HandleFailed
  BY <1>1, <1>6, InputTaken, ClientFatal, Zenon DEF HandleFailed
<1>7. CASE StepInline
  <2>1. KeepWire /\ UNCHANGED inbox
    BY <1>7 DEF StepInline
  <2>2. CASE Fatal /\ UNCHANGED pending
    BY <1>1, <2>1, <2>2, ClientFatal
  <2>3. ASSUME NEW r \in pending, outbox' = Append(outbox, Msg("output", r)),
               pending' = pending \ {r}
        PROVE  ClientInv'
    <3>1. pending' \subseteq Of /\ r \in Of
      BY <1>1, <2>3
    <3>2. Msg("output", r) \in OutMessage /\ Msg("output", r).type # "DEAD"
      BY <3>1, MsgTypes, Zenon DEF Msg
    <3>3. QED
      BY <1>1, <2>1, <2>3, <3>1, <3>2, Sent, Zenon
  <2>4. QED
    BY <1>7, <2>2, <2>3 DEF StepInline
<1>8. CASE StepDiffusion
  BY <1>1, <1>8, ClientFatal DEF StepDiffusion, engineVars
<1>9. CASE UtilityEnds
  <2>1. /\ KeepWire /\ UNCHANGED <<inbox, pending>> /\ engine.of \in Utility
        /\ outbox' = Append(outbox, Msg(IF main.pc = "returned" THEN "result"
                                        ELSE "failure", engine.of))
    BY <1>9 DEF UtilityEnds
  <2>2. PICK t \in {"result", "failure"} : outbox' = Append(outbox, Msg(t, engine.of))
    BY <2>1
  <2>3. Msg(t, engine.of) \in OutMessage /\ Msg(t, engine.of).type # "DEAD"
    BY <2>1, MsgTypes, Zenon DEF Msg
  <2>4. QED
    BY <1>1, <2>1, <2>2, <2>3, Sent
<1>10. QED
  BY <1>2, <1>3, <1>4, <1>5, <1>6, <1>7, <1>8, <1>9 DEF EngineStep

-----------------------------------------------------------------------------
(* Steps of the client itself: the engine's state stays, or ends.            *)

LEMMA ClientCallers ==
  ASSUME ClientInv, StaysEnded, UNCHANGED pending,
         \/ \E r \in Request : AddRequest(r) \/ GenerateRaises(r)
         \/ \E u \in Utility : CallUtility(u) \/ CancelUtility(u)
  PROVE  ClientInv'
<1>1. UNCHANGED <<outbox, outputs_queue, output_task, output_handler, client>>
  BY DEF AddRequest, GenerateRaises, CallUtility, CancelUtility
<1>2. /\ pending' \subseteq Of /\ inbox \in Seq(InMessage)
      /\ utility \in [Utility -> {"new", "waiting", "cancelled", "answered", "failed"}]
  BY DEF ClientInv, ClientTypes
<1>3. \/ inbox' = inbox
      \/ \E r \in Request : inbox' = Append(inbox, Msg("ADD", r))
      \/ \E r \in Request : inbox' = Append(inbox, Msg("ABORT", r))
      \/ \E u \in Utility : inbox' = Append(inbox, Msg("UTILITY", u))
  BY DEF AddRequest, GenerateRaises, Abort, CallUtility, CancelUtility
<1>4. inbox' \in Seq(InMessage)
  BY <1>2, <1>3, MsgTypes, QueueAppend
<1>5. \/ utility' = utility
      \/ \E u \in Utility :
           /\ utility[u] \in {"new", "waiting"}
           /\ \E x \in {"failed", "waiting", "cancelled"} : utility' = [utility EXCEPT ![u] = x]
  BY DEF AddRequest, GenerateRaises, CallUtility, CancelUtility
<1>6. /\ utility' \in [Utility -> {"new", "waiting", "cancelled", "answered", "failed"}]
      /\ \A u \in Utility : utility[u] = "cancelled" => utility'[u] = "cancelled"
  BY <1>2, <1>5
<1>7. ClientTypes'
  BY <1>1, <1>2, <1>4, <1>6 DEF ClientInv, ClientTypes
<1>8. (Cancelled => Cancelled') /\ (Ended => Ended')
  BY <1>6 DEF Cancelled, StaysEnded
<1>9. ErrorsHaveCauses'
  BY <1>1, <1>8, Zenon DEF ClientInv, ErrorsHaveCauses, StaysEnded
<1>10. FrontEndStopsWithEngine'
  BY <1>1, <1>8, Zenon DEF ClientInv, FrontEndStopsWithEngine, Ended, Cancelled
<1>11. QED
  BY <1>7, <1>9, <1>10, Zenon DEF ClientInv

(* process_outputs_socket forwards one item, and may end with it.            *)
LEMMA Forwarded ==
  ASSUME ClientInv, UNCHANGED <<main, utility, inbox, output_handler, client, pending>>,
         outbox' \in Seq(OutMessage), Range(outbox') \subseteq Range(outbox),
         NEW item \in Item, NEW task \in {"done", output_task}, Forward(item, task),
         item.type = "error" => Ended \/ Cancelled
  PROVE  ClientInv'
<1>1. /\ outputs_queue' = Append(outputs_queue, item) /\ output_task' = task
      /\ outputs_queue \in Seq(Item)
  BY DEF Forward, ClientInv, ClientTypes
<1>2. outputs_queue' \in Seq(Item) /\ Range(outputs_queue') = Range(outputs_queue) \cup {item}
  BY <1>1, QueueAppend
<1>3. ClientTypes'
  BY <1>2 DEF ClientInv, ClientTypes
<1>4. (Ended' <=> Ended) /\ (Cancelled' <=> Cancelled)
  BY DEF Ended, Cancelled
<1>5. Dead(outbox)' => Ended'
  BY <1>4 DEF Dead, ClientInv, ErrorsHaveCauses
<1>6. Error(outputs_queue)' => Ended' \/ Cancelled'
  BY <1>2, <1>4 DEF Error, ClientInv, ErrorsHaveCauses
<1>7. client' \in {"closing", "done"} \/ output_task' = "cancelled" => main'.pc = "dead"
  BY <1>1 DEF ClientInv, ErrorsHaveCauses
<1>8. ErrorsHaveCauses'
  BY <1>5, <1>6, <1>7 DEF ErrorsHaveCauses, Dead, Error
<1>9. FrontEndStopsWithEngine'
  BY DEF ClientInv, FrontEndStopsWithEngine
<1>10. QED
  BY <1>3, <1>8, <1>9 DEF ClientInv

LEMMA ClientReceive ==
  ASSUME ClientInv, UNCHANGED <<main, pending>>, Receive
  PROVE  ClientInv'
<1> DEFINE msg == Head(outbox)
<1>1. /\ output_task = "running" /\ outbox # <<>> /\ outbox' = Tail(outbox)
      /\ UNCHANGED <<inbox, output_handler, client>>
      /\ ReceiveDead(msg) \/ ReceiveUtility(msg) \/ ReceiveOutput(msg)
  BY DEF Receive
<1>2. /\ outbox \in Seq(OutMessage) /\ outputs_queue \in Seq(Item)
      /\ utility \in [Utility -> {"new", "waiting", "cancelled", "answered", "failed"}]
  BY DEF ClientInv, ClientTypes
<1>3. /\ msg \in OutMessage /\ msg \in Range(outbox) /\ outbox' \in Seq(OutMessage)
      /\ Range(outbox') \subseteq Range(outbox)
  BY <1>1, <1>2, QueueTail
<1> HIDE DEF msg
<1>4. msg.of \in Of /\ (msg.type \in {"result", "failure"} => msg.of \in Utility)
  BY <1>3 DEF OutMessage
<1>5. Msg("error", msg.of) \in Item
  BY <1>4, MsgTypes, Zenon
<1>6. CASE ReceiveDead(msg)
  <2>1. Ended
    BY <1>3, <1>6 DEF ReceiveDead, ClientInv, ErrorsHaveCauses
  <2>2. Forward(Msg("error", msg.of), "done") /\ UNCHANGED utility
    BY <1>6 DEF ReceiveDead
  <2>3. QED
    BY <1>1, <1>3, <1>5, <2>1, <2>2, Forwarded, Zenon
<1>7. CASE ReceiveOutput(msg)
  <2>1. Forward(msg, output_task) /\ UNCHANGED utility /\ msg.type = "output"
    BY <1>7 DEF ReceiveOutput
  <2>2. msg \in Item
    BY <1>3, <2>1 DEF OutMessage, Item
  <2>3. QED
    BY <1>1, <1>3, <2>1, <2>2, Forwarded
<1>8. CASE ReceiveUtility(msg)
  <2>1. msg.of \in Utility
    BY <1>4, <1>8, Zenon DEF ReceiveUtility
  <2>2. CASE /\ utility[msg.of] = "cancelled" /\ UNCHANGED utility
             /\ Forward(Msg("error", msg.of), "done")
    <3>1. Cancelled
      BY <2>1, <2>2 DEF Cancelled
    <3>2. QED
      BY <1>1, <1>3, <1>5, <2>2, <3>1, Forwarded
  <2>3. CASE /\ utility[msg.of] = "waiting" /\ UNCHANGED <<outputs_queue, output_task>>
             /\ \E x \in {"answered", "failed"} : utility' = [utility EXCEPT ![msg.of] = x]
    <3>1. /\ utility' \in [Utility -> {"new", "waiting", "cancelled", "answered", "failed"}]
          /\ \A u \in Utility : utility[u] = "cancelled" => utility'[u] = "cancelled"
      BY <1>2, <2>1, <2>3
    <3>2. ClientTypes'
      BY <1>1, <1>3, <2>3, <3>1 DEF ClientInv, ClientTypes
    <3>3. (Ended' <=> Ended) /\ (Cancelled => Cancelled')
      BY <3>1 DEF Ended, Cancelled
    <3>4. Dead(outbox)' => Ended'
      BY <1>3, <3>3, Zenon DEF Dead, ClientInv, ErrorsHaveCauses
    <3>5. ErrorsHaveCauses'
      BY <1>1, <2>3, <3>3, <3>4, Zenon DEF Dead, ClientInv, ErrorsHaveCauses
    <3>6. FrontEndStopsWithEngine'
      BY <1>1, <3>3 DEF ClientInv, FrontEndStopsWithEngine, Cancelled
    <3>7. QED
      BY <3>2, <3>5, <3>6 DEF ClientInv
  <2>4. QED
    BY <1>8, <2>2, <2>3, Zenon DEF ReceiveUtility
<1>9. QED
  BY <1>1, <1>6, <1>7, <1>8, Zenon

LEMMA ClientReceiveCancelled ==
  ASSUME ClientInv, UNCHANGED <<main, pending>>, ReceiveCancelled
  PROVE  ClientInv'
<1>1. /\ output_task = "cancelled" /\ Forward(Msg("error", "cancel"), "done")
      /\ UNCHANGED <<utility, inbox, outbox, output_handler, client>>
  BY DEF ReceiveCancelled
<1>2. Ended
  BY <1>1 DEF ClientInv, ErrorsHaveCauses, Ended
<1>3. Msg("error", "cancel") \in Item
  BY MsgTypes DEF Of
<1>4. outbox' \in Seq(OutMessage) /\ Range(outbox') \subseteq Range(outbox)
  BY <1>1 DEF ClientInv, ClientTypes
<1>5. QED
  BY <1>1, <1>2, <1>3, <1>4, Forwarded

LEMMA ClientHandle ==
  ASSUME ClientInv, UNCHANGED <<main, pending>>, Handle
  PROVE  ClientInv'
<1>1. /\ outputs_queue # <<>> /\ outputs_queue' = Tail(outputs_queue)
      /\ UNCHANGED <<utility, inbox, outbox, output_task, client>>
      /\ output_handler' = output_handler \/ Head(outputs_queue).type = "error"
  BY DEF Handle
<1>2. outputs_queue \in Seq(Item)
  BY DEF ClientInv, ClientTypes
<1>3. /\ outputs_queue' \in Seq(Item) /\ Head(outputs_queue) \in Range(outputs_queue)
      /\ Range(outputs_queue') \subseteq Range(outputs_queue)
  BY <1>1, <1>2, QueueTail
<1>4. ClientTypes'
  BY <1>1, <1>3 DEF ClientInv, ClientTypes
<1>5. (Ended' <=> Ended) /\ (Cancelled' <=> Cancelled)
  BY <1>1 DEF Ended, Cancelled
<1>6. Error(outputs_queue)' => Error(outputs_queue)
  BY <1>3 DEF Error
<1>7. ErrorsHaveCauses'
  BY <1>1, <1>5, <1>6 DEF Error, ClientInv, ErrorsHaveCauses
<1>8. Head(outputs_queue).type = "error" => Ended \/ Cancelled
  BY <1>3 DEF ClientInv, ErrorsHaveCauses
<1>9. FrontEndStopsWithEngine'
  BY <1>1, <1>5, <1>8 DEF ClientInv, FrontEndStopsWithEngine, Ended, Cancelled
<1>10. QED
  BY <1>4, <1>7, <1>9 DEF ClientInv

(* Once the engine process is gone, everything about the client's end is     *)
(* explained.                                                                *)
LEMMA EngineIsGone ==
  ASSUME ClientTypes', main'.pc = "dead"
  PROVE  ClientInv'
BY DEF ClientInv, ErrorsHaveCauses, FrontEndStopsWithEngine, Ended

LEMMA ClientEngineGone ==
  ASSUME ClientInv, UNCHANGED <<main, pending>>, main.pc = "dead",
         MonitorSees \/ ShutdownCloses \/ MonitorCloses \/ ShutdownLate
  PROVE  ClientInv'
<1>1. UNCHANGED <<utility, inbox, outputs_queue>> /\ (outbox' = outbox \/ outbox' = <<>>)
  BY DEF MonitorSees, ShutdownCloses, MonitorCloses, ShutdownLate, CloseSockets
<1>2. outbox \in Seq(OutMessage) /\ <<>> \in Seq(OutMessage)
  BY DEF ClientInv, ClientTypes
<1>3. outbox' \in Seq(OutMessage)
  BY <1>1, <1>2, Zenon
<1>4. ClientTypes'
  BY <1>1, <1>3 DEF ClientInv, ClientTypes
<1>5. QED
  BY <1>4, EngineIsGone, Zenon

(* The client connects, or begins to shut the engine down.                   *)
LEMMA ClientMoves ==
  ASSUME ClientInv, StaysEnded, client \in {"starting", "watching"},
         client' \in {"watching", "failed", "joining"},
         UNCHANGED <<utility, inbox, outbox, outputs_queue, output_task, output_handler,
                     pending>>
  PROVE  ClientInv'
<1>1. ClientTypes'
  BY DEF ClientInv, ClientTypes
<1>2. (Ended => Ended') /\ (Cancelled' <=> Cancelled)
  BY DEF StaysEnded, Cancelled
<1>3. ErrorsHaveCauses'
  BY <1>2 DEF ClientInv, ErrorsHaveCauses, StaysEnded
<1>4. FrontEndStopsWithEngine'
  BY <1>2 DEF ClientInv, FrontEndStopsWithEngine, Ended
<1>5. QED
  BY <1>1, <1>3, <1>4, Zenon DEF ClientInv

LEMMA ClientShutdown ==
  ASSUME ClientInv, StaysEnded, ShutdownClient
  PROVE  ClientInv'
<1>1. UNCHANGED pending
  BY DEF ShutdownClient
<1>2. CASE Shutdown
  BY <1>1, <1>2, ClientMoves DEF Shutdown
<1>3. CASE ShutdownLate /\ KeepExec
  <2>1. main.pc = "dead" /\ UNCHANGED main
    BY <1>3 DEF ShutdownLate, KeepExec, execVars, ClientInv, ErrorsHaveCauses
  <2>2. QED
    BY <1>1, <1>3, <2>1, ClientEngineGone
<1>4. QED
  BY <1>2, <1>3 DEF ShutdownClient

LEMMA ClientNext == ExecInv /\ ClientInv /\ [Next]_vars => ClientInv'
<1> SUFFICES ASSUME ExecInv, ClientInv, [Next]_vars PROVE ClientInv'
  OBVIOUS
<1>1. StaysEnded
  BY ExecNext
<1>2. pending \subseteq Of
  BY DEF ClientInv, ClientTypes
<1>3. CASE Executor
  BY <1>1, <1>3, ClientGone, ClientNotify, Zenon DEF Executor
<1>4. CASE Monitor
  BY <1>1, <1>4, ClientNotify DEF Monitor
<1>5. CASE EngineStep
  BY <1>1, <1>5, ClientEngineStep, Zenon
<1>6. CASE \E w \in Rank : Worker(w) \/ Crash(w) \/ Orphan(w)
  BY <1>1, <1>2, <1>6, ClientKept DEF Worker, Crash, Orphan, engineVars
<1>7. CASE Sigterm
  BY <1>1, <1>2, <1>7, ClientKept DEF Sigterm
<1>8. CASE Sigkill \/ JoinTimesOut
  BY <1>1, <1>8, ClientGone DEF Sigkill, JoinTimesOut
<1>9. CASE Connect
  <2>1. /\ client = "starting" /\ client' \in {"watching", "failed"}
        /\ UNCHANGED <<utility, inbox, outbox, outputs_queue, output_task,
                       output_handler, pending>>
    BY <1>9 DEF Connect, engineVars
  <2>2. QED
    BY <1>1, <2>1, ClientMoves
<1>10. CASE Loop
  <2>1. UNCHANGED <<main, pending>> /\ LoopStep
    BY <1>10 DEF Loop, KeepExec, execVars, engineVars
  <2>2. QED
    BY <1>1, <2>1, ClientReceive, ClientReceiveCancelled, ClientHandle, ClientCallers, Zenon
       DEF LoopStep
<1>11. CASE EngineGone
  BY <1>11, ClientEngineGone DEF EngineGone, KeepExec, execVars, engineVars
<1>12. CASE Closing
  <2>1. MonitorCloses /\ main.pc = "dead" /\ UNCHANGED <<main, pending>>
    BY <1>12 DEF Closing, MonitorCloses, KeepExec, execVars, engineVars, ClientInv,
                 ErrorsHaveCauses
  <2>2. QED
    BY <2>1, ClientEngineGone, Zenon
<1>13. CASE ShutdownClient
  BY <1>1, <1>13, ClientShutdown
<1>14. CASE Callers
  <2>1. UNCHANGED pending
    BY <1>14 DEF Callers, engineVars
  <2>2. QED
    BY <1>1, <1>14, <2>1, ClientCallers DEF Callers
<1>15. CASE UNCHANGED vars
  <2>1. KeepClient /\ UNCHANGED pending
    BY <1>15 DEF vars, KeepClient, engineVars
  <2>2. QED
    BY <1>1, <1>2, <2>1, ClientKept
<1>16. QED
  BY <1>3, <1>4, <1>5, <1>6, <1>7, <1>8, <1>9, <1>10, <1>11, <1>12, <1>13, <1>14, <1>15, Zenon
     DEF Next

(* AsyncLLM's output handler ends only when the engine has ended, when the   *)
(* client was shut down, or when the answer to a cancelled utility call came *)
(* in: whoever dies, and in whatever order the client's threads hear of it.  *)
THEOREM HandlerEnds == Spec => []FrontEndStopsWithEngine
<1>1. Init => ExecInv /\ ClientInv
  BY ExecInitial, ClientInitial DEF Init
<1>2. ExecInv /\ ClientInv /\ [Next]_vars => ExecInv' /\ ClientInv'
  BY ExecNext, ClientNext
<1>3. ClientInv => FrontEndStopsWithEngine
  BY DEF ClientInv
<1>4. QED
  BY <1>1, <1>2, <1>3, PTL DEF Spec
=============================================================================
