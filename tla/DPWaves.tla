------------------------------- MODULE DPWaves -------------------------------
(* Data parallel engines (DPEngineCoreProc, vllm/v1/engine/core.py), their    *)
(* coordinator (DPCoordinatorProc, coordinator.py) and the front-ends         *)
(* (DPAsyncMPClient, core_client.py). The engines run and pause together: a   *)
(* front-end that sends a request to paused engines tells the coordinator,    *)
(* which wakes the others, and every SyncPeriod steps an all-reduce decides   *)
(* whether all pause, which ends a wave.                                      *)
EXTENDS Naturals, Sequences, FiniteSets

CONSTANTS
  dp_size,         \* number of engines
  Client,          \* front-ends
  MaxRequests,     \* bound: requests, sent in the order of their numbers
  steps,           \* denoising steps of a request
  SyncPeriod,      \* steps between two all-reduces: 32 in the code
  DiffusionModes   \* values of EngineCore.diffusion_mode considered

ASSUME WavesAssumption ==
  /\ dp_size \in Nat \ {0, 1}
  /\ MaxRequests \in Nat
  /\ steps \in Nat \ {0}
  /\ SyncPeriod \in Nat \ {0}
  /\ DiffusionModes \subseteq BOOLEAN

Engine == 0 .. dp_size - 1
Request == 1 .. MaxRequests
Nobody == dp_size      \* exclude_engine_index that is no engine's

VARIABLES
  diffusion_mode,  \* fixed for a run
  engine,          \* engine[i]: [running, wave, step, pc]
  left,            \* left[r]: steps request r still takes
  sent,            \* number of requests the front-ends have sent
  requests,        \* requests[i]: unfinished requests in engine i
  adds,            \* adds[i]: ADD messages of the front-ends for engine i
  starts,          \* starts[i]: START_DP_WAVE messages for engine i
  notes,           \* notes[i]: messages of engine i for the coordinator
  coord,           \* coordinator: [wave, running]
  firsts,          \* notifications of the front-ends for the coordinator
  client,          \* client[c]: [wave, running]
  first_req,       \* first_req[c]: FIRST_REQ messages for the stats task
  pubs             \* pubs[c]: publications for front-end c

vars == <<diffusion_mode, engine, left, sent, requests, adds, starts, notes,
          coord, firsts, client, first_req, pubs>>

Init ==
  /\ diffusion_mode \in DiffusionModes
  /\ engine = [i \in Engine |->
                 [running |-> FALSE, wave |-> 0, step |-> 0, pc |-> "loop"]]
  /\ left = [r \in Request |-> 0]
  /\ sent = 0
  /\ requests = [i \in Engine |-> {}]
  /\ adds = [i \in Engine |-> <<>>]
  /\ starts = [i \in Engine |-> <<>>]
  /\ notes = [i \in Engine |-> <<>>]
  /\ coord = [wave |-> 0, running |-> FALSE]
  /\ firsts = <<>>
  /\ client = [c \in Client |-> [wave |-> 0, running |-> FALSE]]
  /\ first_req = [c \in Client |-> <<>>]
  /\ pubs = [c \in Client |-> <<>>]

-----------------------------------------------------------------------------
(* The front-end.                                                           *)

(* add_request_async: the request carries the wave the front-end knows. The *)
(* engine is chosen by load, which is left open here.                       *)
AddRequest(c, i) ==
  /\ sent < MaxRequests
  /\ sent' = sent + 1
  /\ left' = [left EXCEPT ![sent'] = steps]
  /\ adds' = [adds EXCEPT ![i] =
                Append(@, [request |-> sent', wave |-> client[c].wave])]
  /\ first_req' = IF client[c].running THEN first_req
                  ELSE [first_req EXCEPT ![c] = Append(@, i)]
  /\ UNCHANGED <<diffusion_mode, engine, requests, starts, notes, coord,
                 firsts, client, pubs>>

(* run_engine_stats_update_task: a FIRST_REQ is taken up unless a           *)
(* publication is there too and the engines are known to run.               *)
NotifyFirst(c) ==
  /\ first_req[c] # <<>>
  /\ pubs[c] = <<>> \/ ~client[c].running
  /\ first_req' = [first_req EXCEPT ![c] = Tail(@)]
  /\ client' = [client EXCEPT ![c].running = TRUE]
  /\ firsts' = Append(firsts, client[c].wave)
  /\ UNCHANGED <<diffusion_mode, engine, left, sent, requests, adds, starts,
                 notes, coord, pubs>>

(* Drain the publications and keep the latest.                              *)
Drain(c) ==
  /\ pubs[c] # <<>>
  /\ client' = [client EXCEPT ![c] = pubs[c][Len(pubs[c])]]
  /\ pubs' = [pubs EXCEPT ![c] = <<>>]
  /\ UNCHANGED <<diffusion_mode, engine, left, sent, requests, adds, starts,
                 notes, coord, firsts, first_req>>

-----------------------------------------------------------------------------
(* The coordinator.                                                         *)

SendStartWave(wave, exclude) ==
  starts' = [i \in Engine |->
               Append(starts[i], [wave |-> wave, exclude |-> exclude])]
Publish == pubs' = [c \in Client |-> Append(pubs[c], coord')]

(* A front-end sends a request while the engines are paused. The front-end  *)
(* names the engine by its identity, a byte string, which no engine finds   *)
(* equal to its index: nobody is excluded, stale wave or not.               *)
CoordFront ==
  /\ firsts # <<>>
  /\ firsts' = Tail(firsts)
  /\ \/ /\ coord.running
        /\ UNCHANGED <<coord, starts, pubs>>
     \/ /\ ~coord.running
        /\ coord' = [coord EXCEPT !.running = TRUE]
        /\ SendStartWave(coord.wave, Nobody)
        /\ Publish
  /\ UNCHANGED <<diffusion_mode, engine, left, sent, requests, adds, notes,
                 client, first_req>>

(* Faulty variant: the end of a wave is taken at its word, however late.    *)
WaveCompleteLate(wave) ==
  /\ coord' = [wave |-> wave + 1, running |-> FALSE]
  /\ Publish
  /\ UNCHANGED starts
WaveComplete(wave) ==
  \/ /\ coord.wave <= wave
     /\ coord' = [wave |-> wave + 1, running |-> FALSE]
     /\ Publish
     /\ UNCHANGED starts
  \/ /\ coord.wave > wave
     /\ UNCHANGED <<coord, starts, pubs>>

Stale(wave) ==
  wave < coord.wave \/ (wave = coord.wave /\ coord.running)
(* Faulty variant: an engine that asks for its wave moves the coordinator   *)
(* to the one after it.                                                     *)
StartWaveNext(i, wave) ==
  \/ /\ ~Stale(wave)
     /\ coord' = [wave |-> wave + 1, running |-> TRUE]
     /\ SendStartWave(wave + 1, i)
     /\ Publish
  \/ /\ Stale(wave)
     /\ UNCHANGED <<coord, starts, pubs>>
StartWave(i, wave) ==
  \/ /\ ~Stale(wave)
     /\ coord' = [wave |-> wave, running |-> TRUE]
     /\ SendStartWave(wave, i)
     /\ Publish
  \/ /\ Stale(wave)
     /\ UNCHANGED <<coord, starts, pubs>>

CoordBack(i) ==
  /\ notes[i] # <<>>
  /\ notes' = [notes EXCEPT ![i] = Tail(@)]
  /\ LET note == Head(notes[i]) IN
     \/ note.type = "wave_complete" /\ WaveComplete(note.wave)
     \/ note.type = "start_wave" /\ StartWave(i, note.wave)
  /\ UNCHANGED <<diffusion_mode, engine, left, sent, requests, adds, firsts,
                 client, first_req>>

(* The poller times out: publish the present state (bound: one such message *)
(* at a time).                                                              *)
PublishAgain ==
  /\ \A c \in Client : pubs[c] = <<>>
  /\ \E c \in Client : client[c] # coord
  /\ pubs' = [c \in Client |-> <<coord>>]
  /\ UNCHANGED <<diffusion_mode, engine, left, sent, requests, adds, starts,
                 notes, coord, firsts, client, first_req>>

-----------------------------------------------------------------------------
(* An engine.                                                               *)

(* Faulty variant: a request of a wave that is over is just queued.         *)
HandleAddQuiet(i) ==
  LET add == Head(adds[i]) IN
  /\ engine[i].pc = "loop"
  /\ adds[i] # <<>>
  /\ adds' = [adds EXCEPT ![i] = Tail(@)]
  /\ requests' = [requests EXCEPT ![i] = @ \union {add.request}]
  /\ engine' = IF add.wave > engine[i].wave
               THEN [engine EXCEPT ![i].wave = add.wave] ELSE engine
  /\ UNCHANGED <<diffusion_mode, left, sent, starts, notes, coord, firsts,
                 client, first_req, pubs>>
(* add_request: a request of a later wave takes the engine there, one of a  *)
(* wave that is over asks for the next if the engine is paused.             *)
HandleAdd(i) ==
  LET add == Head(adds[i]) IN
  /\ engine[i].pc = "loop"
  /\ adds[i] # <<>>
  /\ adds' = [adds EXCEPT ![i] = Tail(@)]
  /\ requests' = [requests EXCEPT ![i] = @ \union {add.request}]
  /\ engine' = IF add.wave > engine[i].wave
               THEN [engine EXCEPT ![i].wave = add.wave] ELSE engine
  /\ notes' = IF add.wave < engine[i].wave /\ ~engine[i].running
              THEN [notes EXCEPT ![i] =
                      Append(@, [type |-> "start_wave", wave |-> engine[i].wave])]
              ELSE notes
  /\ UNCHANGED <<diffusion_mode, left, sent, starts, coord, firsts, client,
                 first_req, pubs>>

(* Faulty variant: a START_DP_WAVE of a wave that is over is obeyed.        *)
HandleStartStale(i) ==
  LET start == Head(starts[i]) IN
  /\ engine[i].pc = "loop"
  /\ starts[i] # <<>>
  /\ starts' = [starts EXCEPT ![i] = Tail(@)]
  /\ engine' = IF start.exclude # i
               THEN [engine EXCEPT ![i].wave = start.wave, ![i].running = TRUE]
               ELSE engine
  /\ UNCHANGED <<diffusion_mode, left, sent, requests, adds, notes, coord,
                 firsts, client, first_req, pubs>>
HandleStart(i) ==
  LET start == Head(starts[i]) IN
  /\ engine[i].pc = "loop"
  /\ starts[i] # <<>>
  /\ starts' = [starts EXCEPT ![i] = Tail(@)]
  /\ engine' = IF start.exclude # i /\ start.wave >= engine[i].wave
               THEN [engine EXCEPT ![i].wave = start.wave, ![i].running = TRUE]
               ELSE engine
  /\ UNCHANGED <<diffusion_mode, left, sent, requests, adds, notes, coord,
                 firsts, client, first_req, pubs>>

(* A pass of run_busy_loop: the requests the scheduler has put in the batch *)
(* take a step, or, if there are none, the engine runs a dummy batch; then, *)
(* every SyncPeriod steps, it comes to the all-reduce.                      *)
Step(i) ==
  LET step_counter == (engine[i].step + 1) % SyncPeriod IN
  /\ engine[i].pc = "loop"
  /\ engine[i].running \/ requests[i] # {}
  /\ \E batch \in SUBSET requests[i] :
       /\ requests[i] # {} => batch # {}
       /\ left' = [r \in Request |-> IF r \in batch THEN left[r] - 1 ELSE left[r]]
  /\ requests' = [requests EXCEPT ![i] = {r \in @ : left'[r] > 0}]
  /\ engine' = [engine EXCEPT
       ![i].step = step_counter,
       ![i].running = IF step_counter = 0 THEN @ ELSE TRUE,
       ![i].pc = IF step_counter = 0 THEN "reduce" ELSE @]
  /\ UNCHANGED <<diffusion_mode, sent, adds, starts, notes, coord, firsts,
                 client, first_req, pubs>>

(* What engine i says of its requests: it asks the token scheduler, which   *)
(* in diffusion mode has none.                                              *)
local_unfinished_reqs(i) == ~diffusion_mode /\ requests[i] # {}

(* has_unfinished_dp, once all engines have come to it; if nobody has       *)
(* anything left, all pause, and rank 0 tells the coordinator.              *)
AllReduce ==
  LET unfinished == \E i \in Engine : local_unfinished_reqs(i) IN
  /\ \A i \in Engine : engine[i].pc = "reduce"
  /\ engine' = [i \in Engine |->
       [running |-> unfinished, step |-> 0, pc |-> "loop",
        wave |-> IF unfinished THEN engine[i].wave ELSE engine[i].wave + 1]]
  /\ notes' = IF unfinished THEN notes
              ELSE [notes EXCEPT ![0] =
                      Append(@, [type |-> "wave_complete", wave |-> engine[0].wave])]
  /\ UNCHANGED <<diffusion_mode, left, sent, requests, adds, starts, coord,
                 firsts, client, first_req, pubs>>

Work ==
  \/ \E c \in Client : NotifyFirst(c) \/ Drain(c)
  \/ CoordFront
  \/ PublishAgain
  \/ AllReduce
  \/ \E i \in Engine : CoordBack(i) \/ HandleAdd(i) \/ HandleStart(i) \/ Step(i)
Next == Work \/ \E c \in Client, i \in Engine : AddRequest(c, i)

Spec == Init /\ [][Next]_vars

(* The processes do not all stop while one of them has something to do. The *)
(* bounds make every behaviour finite, so no stronger fairness is needed.   *)
FairSpec == Spec /\ WF_vars(Work)

-----------------------------------------------------------------------------
(* All engines are in the same wave at all times, although each moves on    *)
(* its own when a request or START_DP_WAVE names a later one: so those that *)
(* meet in an all-reduce mean the same wave.                                *)
SameWave == \A i, j \in Engine : engine[i].wave = engine[j].wave

(* Waves only go forward, for the engines, the coordinator and the          *)
(* front-ends.                                                              *)
WavesAdvance ==
  [][/\ \A i \in Engine : engine'[i].wave >= engine[i].wave
     /\ coord'.wave >= coord.wave
     /\ \A c \in Client : client'[c].wave >= client[c].wave]_vars

(* The coordinator is never ahead of the engines, nor a front-end ahead of  *)
(* the coordinator, so no wave is started or named before the engines have  *)
(* come to it; and while the coordinator is behind, the message that brings *)
(* it up to date is on its way.                                             *)
Behind ==
  \A i \in Engine :
    /\ coord.wave <= engine[i].wave
    /\ coord.wave < engine[i].wave =>
         \E k \in DOMAIN notes[0] :
           notes[0][k] = [type |-> "wave_complete", wave |-> engine[i].wave - 1]
    /\ \A c \in Client : client[c].wave <= coord.wave

(* An engine waits in the all-reduce for one that is paused and that nobody *)
(* is about to wake.                                                        *)
Alone ==
  /\ \E i \in Engine : engine[i].pc = "reduce"
  /\ \E j \in Engine :
       /\ engine[j].pc = "loop" /\ ~engine[j].running /\ requests[j] = {}
       /\ adds[j] = <<>> /\ starts[j] = <<>>

(* A request that was sent finishes, or, in diffusion mode, its engine is   *)
(* left alone in the all-reduce.                                            *)
RequestsFinish ==
  \A r \in Request :
    (r = sent) ~> (left[r] = 0 \/ (diffusion_mode /\ Alone))

(* The all-reduce decides whether an engine has unfinished requests: it     *)
(* ends a wave only when none has.                                          *)
GlobalUnfinished ==
  [][AllReduce /\ (\E i \in Engine : ~engine'[i].running) =>
       \A i \in Engine : requests[i] = {}]_vars
=============================================================================
