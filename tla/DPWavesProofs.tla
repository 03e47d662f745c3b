---------------------------- MODULE DPWavesProofs ----------------------------
(* Proofs about DPWaves, for every number of engines, front-ends and        *)
(* requests, every length of a request and every period of the all-reduce.  *)
EXTENDS DPWaves, Functions, TLAPS

EngineState == [running : BOOLEAN, wave : Nat, step : Nat, pc : {"loop", "reduce"}]
Known == [wave : Nat, running : BOOLEAN]
AddMessage == [request : Nat, wave : Nat]
StartMessage == [wave : Nat, exclude : Nat]
Note == [type : {"wave_complete", "start_wave"}, wave : Nat]

(* Types of everything that holds or carries a wave.                        *)
WaveTypes ==
  /\ engine \in [Engine -> EngineState]
  /\ sent \in Nat
  /\ adds \in [Engine -> Seq(AddMessage)]
  /\ starts \in [Engine -> Seq(StartMessage)]
  /\ notes \in [Engine -> Seq(Note)]
  /\ coord \in Known
  /\ client \in [Client -> Known]
  /\ pubs \in [Client -> Seq(Known)]

(* No message is ahead of whoever reads it: requests and START_DP_WAVE name *)
(* waves the coordinator has come to, the end of a wave is announced once   *)
(* the engines are past it, and a publication is between what its reader    *)
(* and its writer know.                                                     *)
MessagesBehind ==
  /\ \A i \in Engine : \A m \in Range(adds[i]) : m.wave <= coord.wave
  /\ \A i \in Engine : \A m \in Range(starts[i]) : m.wave <= coord.wave
  /\ \A i \in Engine : \A m \in Range(notes[i]) :
       /\ m.wave <= engine[0].wave
       /\ m.type = "wave_complete" => m.wave < engine[0].wave
  /\ \A c \in Client : \A m \in Range(pubs[c]) :
       client[c].wave <= m.wave /\ m.wave <= coord.wave

(* Behind, with engine 0 for all engines.                                   *)
CoordBehind ==
  /\ coord.wave <= engine[0].wave
  /\ coord.wave < engine[0].wave =>
       [type |-> "wave_complete", wave |-> engine[0].wave - 1] \in Range(notes[0])
  /\ \A c \in Client : client[c].wave <= coord.wave

WaveInv == WaveTypes /\ SameWave /\ CoordBehind /\ MessagesBehind

-----------------------------------------------------------------------------
(* Queues.                                                                  *)

LEMMA QueueAppend ==
  ASSUME NEW S, NEW s \in Seq(S), NEW e \in S
  PROVE  /\ Append(s, e) \in Seq(S)
         /\ Range(Append(s, e)) = Range(s) \cup {e}
<1>1. /\ Append(s, e) \in Seq(S)
      /\ Len(Append(s, e)) = Len(s) + 1
      /\ \A k \in 1 .. Len(s) : Append(s, e)[k] = s[k]
      /\ Append(s, e)[Len(s) + 1] = e
  OBVIOUS
<1>2. /\ DOMAIN s = 1 .. Len(s) /\ DOMAIN Append(s, e) = 1 .. Len(s) + 1
      /\ Len(s) \in Nat
  BY <1>1
<1>3. QED
  BY <1>1, <1>2 DEF Range

LEMMA QueueTail ==
  ASSUME NEW S, NEW s \in Seq(S), s # <<>>
  PROVE  /\ Head(s) \in S /\ Tail(s) \in Seq(S)
         /\ Range(s) = {Head(s)} \cup Range(Tail(s))
<1>1. /\ Head(s) \in S /\ Tail(s) \in Seq(S) /\ Head(s) = s[1]
      /\ Len(Tail(s)) = Len(s) - 1
      /\ \A k \in 1 .. Len(Tail(s)) : Tail(s)[k] = s[k + 1]
  OBVIOUS
<1>2. /\ DOMAIN s = 1 .. Len(s) /\ DOMAIN Tail(s) = 1 .. Len(s) - 1
      /\ Len(s) \in Nat /\ Len(s) # 0
  BY <1>1
<1>3. \A k \in 2 .. Len(s) : k - 1 \in 1 .. Len(s) - 1 /\ Tail(s)[k - 1] = s[k]
  BY <1>1, <1>2
<1>4. Range(s) \subseteq {Head(s)} \cup Range(Tail(s))
  <2>1. SUFFICES ASSUME NEW k \in 1 .. Len(s)
                 PROVE  s[k] \in {Head(s)} \cup Range(Tail(s))
    BY <1>2 DEF Range
  <2>2. CASE k = 1
    BY <1>1, <2>2
  <2>3. CASE k # 1
    <3>1. k - 1 \in DOMAIN Tail(s) /\ Tail(s)[k - 1] = s[k]
      BY <1>2, <1>3, <2>3
    <3>2. QED
      BY <3>1, Zenon DEF Range
  <2>4. QED
    BY <2>2, <2>3
<1>5. {Head(s)} \cup Range(Tail(s)) \subseteq Range(s)
  BY <1>1, <1>2 DEF Range
<1>6. QED
  BY <1>1, <1>4, <1>5

LEMMA EngineFacts == 0 \in Engine /\ Engine \subseteq Nat /\ Nobody \in Nat
BY WavesAssumption DEF Engine, Nobody

-----------------------------------------------------------------------------
(* What a step may do to the waves.                                         *)
Advances ==
  /\ \A i \in Engine : engine'[i].wave >= engine[i].wave
  /\ coord'.wave >= coord.wave
  /\ \A c \in Client : client'[c].wave >= client[c].wave

LEMMA WaveInit == Init => WaveInv
<1> SUFFICES ASSUME Init PROVE WaveInv
  OBVIOUS
<1>1. /\ <<>> \in Seq(AddMessage) /\ <<>> \in Seq(StartMessage)
      /\ <<>> \in Seq(Note) /\ <<>> \in Seq(Known) /\ Range(<<>>) = {}
  BY DEF Range
<1>2. /\ engine \in [Engine -> EngineState] /\ sent \in Nat /\ coord \in Known
      /\ client \in [Client -> Known]
  BY DEF Init, EngineState, Known
<1>3. WaveTypes
  BY <1>1, <1>2 DEF Init, WaveTypes
<1>4. /\ \A i \in Engine : engine[i].wave = 0
      /\ \A i \in Engine : adds[i] = <<>> /\ starts[i] = <<>> /\ notes[i] = <<>>
      /\ \A c \in Client : pubs[c] = <<>> /\ client[c].wave = 0
      /\ coord.wave = 0
  BY DEF Init
<1>5. MessagesBehind
  BY <1>1, <1>4 DEF MessagesBehind
<1>6. SameWave /\ CoordBehind
  BY <1>4, EngineFacts DEF SameWave, CoordBehind
<1>7. QED
  BY <1>3, <1>5, <1>6 DEF WaveInv

(* add_request_async sends the front-end's wave, which is not ahead of the  *)
(* coordinator's.                                                           *)
LEMMA WaveAddRequest ==
  ASSUME WaveInv, NEW c \in Client, NEW i \in Engine, AddRequest(c, i)
  PROVE  WaveInv' /\ Advances
<1> DEFINE m == [request |-> sent', wave |-> client[c].wave]
<1>1. sent' = sent + 1 /\ sent' \in Nat /\ client[c] \in Known
  BY DEF WaveInv, WaveTypes, AddRequest
<1>2. m \in AddMessage /\ m.wave = client[c].wave
  BY <1>1 DEF AddMessage, Known
<1>3. adds' = [adds EXCEPT ![i] = Append(adds[i], m)]
  BY DEF AddRequest
<1>4. UNCHANGED <<engine, starts, notes, coord, client, pubs>>
  BY DEF AddRequest
<1> HIDE DEF m
<1>5. adds \in [Engine -> Seq(AddMessage)]
  BY DEF WaveInv, WaveTypes
<1>6. /\ Append(adds[i], m) \in Seq(AddMessage)
      /\ Range(Append(adds[i], m)) = Range(adds[i]) \cup {m}
  BY <1>2, <1>5, QueueAppend
<1>7. WaveTypes'
  BY <1>1, <1>3, <1>4, <1>5, <1>6 DEF WaveInv, WaveTypes
<1>8. m.wave <= coord.wave
  BY <1>2 DEF WaveInv, CoordBehind
<1>9. \A j \in Engine : \A n \in Range(adds'[j]) : n.wave <= coord.wave
  BY <1>3, <1>5, <1>6, <1>8 DEF WaveInv, MessagesBehind
<1>10. MessagesBehind'
  BY <1>4, <1>9 DEF WaveInv, MessagesBehind
<1>11. SameWave' /\ CoordBehind'
  BY <1>4 DEF WaveInv, SameWave, CoordBehind
<1>12. Advances
  BY <1>4 DEF Advances, WaveInv, WaveTypes, EngineState, Known
<1>13. QED
  BY <1>7, <1>10, <1>11, <1>12 DEF WaveInv

LEMMA WaveNotifyFirst ==
  ASSUME WaveInv, NEW c \in Client, NotifyFirst(c)
  PROVE  WaveInv' /\ Advances
<1>1. client' = [client EXCEPT ![c].running = TRUE] /\ client \in [Client -> Known]
  BY DEF NotifyFirst, WaveInv, WaveTypes
<1>2. client' \in [Client -> Known] /\ \A d \in Client : client'[d].wave = client[d].wave
  BY <1>1, Zenon DEF Known
<1>3. UNCHANGED <<engine, sent, adds, starts, notes, coord, pubs>>
  BY DEF NotifyFirst
<1>4. WaveTypes' /\ SameWave' /\ CoordBehind' /\ MessagesBehind'
  BY <1>2, <1>3 DEF WaveInv, WaveTypes, SameWave, CoordBehind, MessagesBehind
<1>5. Advances
  BY <1>2, <1>3 DEF Advances, WaveInv, WaveTypes, EngineState, Known
<1>6. QED
  BY <1>4, <1>5 DEF WaveInv

(* run_engine_stats_update_task keeps the last publication of those that    *)
(* are there; all of them are at least as recent as what it knows.          *)
LEMMA WaveDrain ==
  ASSUME WaveInv, NEW c \in Client, Drain(c)
  PROVE  WaveInv' /\ Advances
<1> DEFINE last == pubs[c][Len(pubs[c])]
<1>1. pubs[c] \in Seq(Known) /\ pubs[c] # <<>> /\ pubs \in [Client -> Seq(Known)]
      /\ client \in [Client -> Known]
  BY DEF Drain, WaveInv, WaveTypes
<1>2. last \in Known /\ last \in Range(pubs[c])
  <2>1. Len(pubs[c]) \in DOMAIN pubs[c]
    BY <1>1
  <2>2. QED
    BY <1>1, <2>1 DEF Range
<1>3. client[c].wave <= last.wave /\ last.wave <= coord.wave
  BY <1>2 DEF WaveInv, MessagesBehind
<1>4. /\ client' = [client EXCEPT ![c] = last]
      /\ pubs' = [pubs EXCEPT ![c] = <<>>]
      /\ UNCHANGED <<engine, sent, adds, starts, notes, coord>>
  BY DEF Drain
<1> HIDE DEF last
<1>5. WaveTypes'
  BY <1>1, <1>2, <1>4 DEF WaveInv, WaveTypes
<1>6. Range(<<>>) = {}
  BY DEF Range
<1>7. \A d \in Client : \A m \in Range(pubs'[d]) :
        client'[d].wave <= m.wave /\ m.wave <= coord.wave
  BY <1>1, <1>4, <1>6 DEF WaveInv, MessagesBehind
<1>8. MessagesBehind'
  BY <1>4, <1>7 DEF WaveInv, MessagesBehind
<1>9. SameWave' /\ CoordBehind'
  BY <1>1, <1>3, <1>4 DEF WaveInv, SameWave, CoordBehind
<1>10. Advances
  BY <1>1, <1>3, <1>4 DEF Advances, WaveInv, WaveTypes, EngineState, Known
<1>11. QED
  BY <1>5, <1>8, <1>9, <1>10 DEF WaveInv

-----------------------------------------------------------------------------
(* The coordinator.                                                         *)

(* What it sends names the wave it has just come to; as long as that is not *)
(* ahead of the engines, everything but the notes on their way is in order. *)
LEMMA CoordinatorMoves ==
  ASSUME WaveInv, coord' \in Known,
         coord.wave <= coord'.wave, coord'.wave <= engine[0].wave,
         starts' = starts \/ \E x \in Nat : SendStartWave(coord'.wave, x),
         pubs' = pubs \/ Publish,
         UNCHANGED <<engine, sent, adds, client>>
  PROVE  /\ starts' \in [Engine -> Seq(StartMessage)]
         /\ pubs' \in [Client -> Seq(Known)]
         /\ \A i \in Engine : \A m \in Range(adds'[i]) : m.wave <= coord'.wave
         /\ \A i \in Engine : \A m \in Range(starts'[i]) : m.wave <= coord'.wave
         /\ \A c \in Client : \A m \in Range(pubs'[c]) :
              client'[c].wave <= m.wave /\ m.wave <= coord'.wave
         /\ \A c \in Client : client'[c].wave <= coord'.wave
         /\ Advances
<1>1. /\ coord \in Known /\ client \in [Client -> Known]
      /\ starts \in [Engine -> Seq(StartMessage)] /\ pubs \in [Client -> Seq(Known)]
      /\ adds \in [Engine -> Seq(AddMessage)] /\ engine \in [Engine -> EngineState]
  BY DEF WaveInv, WaveTypes
<1>2. coord.wave \in Nat /\ coord'.wave \in Nat
  BY <1>1 DEF Known
<1>3. \A i \in Engine : \A m \in Range(adds[i]) : m \in AddMessage
  BY <1>1 DEF Range
<1>4. \A i \in Engine : \A m \in Range(starts[i]) : m \in StartMessage
  BY <1>1 DEF Range
<1>5. \A c \in Client : \A m \in Range(pubs[c]) : m \in Known
  BY <1>1 DEF Range
<1>6. \A i \in Engine : \A m \in Range(adds'[i]) : m.wave <= coord'.wave
  BY <1>2, <1>3 DEF WaveInv, MessagesBehind, AddMessage
<1>7. \A i \in Engine : \A m \in Range(starts[i]) : m.wave <= coord'.wave
  BY <1>2, <1>4 DEF WaveInv, MessagesBehind, StartMessage
<1>8. /\ starts' \in [Engine -> Seq(StartMessage)]
      /\ \A i \in Engine : \A m \in Range(starts'[i]) : m.wave <= coord'.wave
  <2>1. CASE starts' = starts
    BY <1>1, <1>7, <2>1
  <2>2. ASSUME NEW x \in Nat, SendStartWave(coord'.wave, x)
        PROVE  /\ starts' \in [Engine -> Seq(StartMessage)]
               /\ \A i \in Engine : \A m \in Range(starts'[i]) : m.wave <= coord'.wave
    <3> DEFINE s == [wave |-> coord'.wave, exclude |-> x]
    <3>1. s \in StartMessage /\ s.wave = coord'.wave
      BY <1>2 DEF StartMessage
    <3>2. starts' = [i \in Engine |-> Append(starts[i], s)]
      BY <2>2 DEF SendStartWave
    <3> HIDE DEF s
    <3>3. \A i \in Engine : /\ Append(starts[i], s) \in Seq(StartMessage)
                            /\ Range(Append(starts[i], s)) = Range(starts[i]) \cup {s}
      BY <1>1, <3>1, QueueAppend
    <3>4. starts' \in [Engine -> Seq(StartMessage)]
      BY <3>2, <3>3
    <3>5. \A i \in Engine : Range(starts'[i]) = Range(starts[i]) \cup {s}
      BY <3>2, <3>3, Zenon
    <3>6. QED
      BY <1>2, <1>7, <3>1, <3>4, <3>5
  <2>3. QED
    BY <2>1, <2>2
<1>9. \A c \in Client : \A m \in Range(pubs[c]) :
        client[c].wave <= m.wave /\ m.wave <= coord'.wave
  BY <1>2, <1>5 DEF WaveInv, MessagesBehind, Known
<1>10. \A c \in Client : client[c].wave <= coord'.wave
  BY <1>1, <1>2 DEF WaveInv, CoordBehind, Known
<1>11. /\ pubs' \in [Client -> Seq(Known)]
       /\ \A c \in Client : \A m \in Range(pubs'[c]) :
            client[c].wave <= m.wave /\ m.wave <= coord'.wave
  <2>1. CASE pubs' = pubs
    BY <1>1, <1>9, <2>1
  <2>2. CASE Publish
    <3>1. \A c \in Client : /\ Append(pubs[c], coord') \in Seq(Known)
                            /\ Range(Append(pubs[c], coord')) = Range(pubs[c]) \cup {coord'}
      BY <1>1, QueueAppend
    <3>2. pubs' \in [Client -> Seq(Known)]
      BY <2>2, <3>1 DEF Publish
    <3>3. \A c \in Client : Range(pubs'[c]) = Range(pubs[c]) \cup {coord'}
      BY <2>2, <3>1, Zenon DEF Publish
    <3>4. QED
      BY <1>2, <1>9, <1>10, <3>2, <3>3
  <2>3. QED
    BY <2>1, <2>2
<1>12. Advances
  BY <1>1, <1>2 DEF Advances, EngineState, Known
<1>13. QED
  BY <1>6, <1>8, <1>10, <1>11, <1>12

LEMMA WaveCoordFront ==
  ASSUME WaveInv, CoordFront
  PROVE  WaveInv' /\ Advances
<1>1. UNCHANGED <<engine, sent, adds, client, notes>>
  BY DEF CoordFront
<1>2. coord \in Known /\ coord.wave <= engine[0].wave
  BY DEF WaveInv, WaveTypes, CoordBehind
<1>3. coord' \in Known /\ coord'.wave = coord.wave /\ coord.wave \in Nat
  BY <1>2, Zenon DEF CoordFront, Known
<1>4. starts' = starts \/ \E x \in Nat : SendStartWave(coord'.wave, x)
  BY <1>3, EngineFacts DEF CoordFront
<1>5. pubs' = pubs \/ Publish
  BY DEF CoordFront
<1>6. /\ starts' \in [Engine -> Seq(StartMessage)]
      /\ pubs' \in [Client -> Seq(Known)]
      /\ \A i \in Engine : \A m \in Range(adds'[i]) : m.wave <= coord'.wave
      /\ \A i \in Engine : \A m \in Range(starts'[i]) : m.wave <= coord'.wave
      /\ \A c \in Client : \A m \in Range(pubs'[c]) :
           client'[c].wave <= m.wave /\ m.wave <= coord'.wave
      /\ \A c \in Client : client'[c].wave <= coord'.wave
      /\ Advances
  BY <1>1, <1>2, <1>3, <1>4, <1>5, CoordinatorMoves
<1>7. WaveTypes'
  BY <1>1, <1>3, <1>6 DEF WaveInv, WaveTypes
<1>8. SameWave' /\ CoordBehind' /\ MessagesBehind'
  BY <1>1, <1>3, <1>6 DEF WaveInv, SameWave, CoordBehind, MessagesBehind
<1>9. QED
  BY <1>6, <1>7, <1>8 DEF WaveInv

(* The coordinator takes the next note of engine i: a wave it did not know  *)
(* to be over, or a wave it is asked to start, brings it closer to the      *)
(* engines, never past them.                                                *)
LEMMA WaveCoordBack ==
  ASSUME WaveInv, NEW i \in Engine, CoordBack(i)
  PROVE  WaveInv' /\ Advances
<1> DEFINE note == Head(notes[i])
           E == engine[0].wave
<1>1. UNCHANGED <<engine, sent, adds, client>> /\ notes' = [notes EXCEPT ![i] = Tail(@)]
  BY DEF CoordBack
<1>2. notes \in [Engine -> Seq(Note)] /\ notes[i] # <<>> /\ notes[i] \in Seq(Note)
  BY DEF WaveInv, WaveTypes, CoordBack
<1>3. /\ note \in Note /\ Tail(notes[i]) \in Seq(Note)
      /\ Range(notes[i]) = {note} \cup Range(Tail(notes[i]))
  BY <1>2, QueueTail
<1>4. note.wave <= E /\ (note.type = "wave_complete" => note.wave < E)
  BY <1>3 DEF WaveInv, MessagesBehind
<1>5. coord \in Known /\ coord.wave <= E /\ E \in Nat /\ note.wave \in Nat
  BY <1>3, EngineFacts, Zenon DEF WaveInv, WaveTypes, CoordBehind, EngineState, Note
<1> HIDE DEF note, E
<1>6. \/ note.type = "wave_complete" /\ WaveComplete(note.wave)
      \/ note.type = "start_wave" /\ StartWave(i, note.wave)
  BY DEF CoordBack, note
<1>7. /\ coord' \in Known /\ coord.wave <= coord'.wave /\ coord'.wave <= E
      /\ note.type = "wave_complete" => note.wave + 1 <= coord'.wave
  <2>1. coord.wave \in Nat
    BY <1>5 DEF Known
  <2>2. CASE WaveComplete(note.wave) /\ note.type = "wave_complete"
    <3>1. \/ coord.wave <= note.wave /\ coord' = [wave |-> note.wave + 1, running |-> FALSE]
          \/ coord.wave > note.wave /\ coord' = coord
      BY <2>2 DEF WaveComplete
    <3>2. note.wave + 1 <= E
      BY <1>4, <1>5, <2>2
    <3>3. CASE coord.wave <= note.wave /\ coord' = [wave |-> note.wave + 1, running |-> FALSE]
      <4>1. coord'.wave = note.wave + 1 /\ coord' \in Known
        BY <1>5, <3>3 DEF Known
      <4>2. QED
        BY <1>5, <2>1, <3>2, <3>3, <4>1
    <3>4. CASE coord.wave > note.wave /\ coord' = coord
      BY <1>5, <2>1, <3>4
    <3>5. QED
      BY <3>1, <3>3, <3>4
  <2>3. CASE StartWave(i, note.wave) /\ note.type = "start_wave"
    <3>1. \/ coord.wave <= note.wave /\ coord' = [wave |-> note.wave, running |-> TRUE]
          \/ coord' = coord
      BY <1>5, <2>1, <2>3 DEF StartWave, Stale
    <3>2. CASE coord.wave <= note.wave /\ coord' = [wave |-> note.wave, running |-> TRUE]
      <4>1. coord'.wave = note.wave /\ coord' \in Known
        BY <1>5, <3>2 DEF Known
      <4>2. QED
        BY <1>4, <1>5, <2>1, <2>3, <3>2, <4>1
    <3>3. CASE coord' = coord
      BY <1>5, <2>1, <2>3, <3>3
    <3>4. QED
      BY <3>1, <3>2, <3>3
  <2>4. QED
    BY <1>6, <2>2, <2>3
<1>8. starts' = starts \/ \E x \in Nat : SendStartWave(coord'.wave, x)
  <2>1. CASE WaveComplete(note.wave)
    BY <2>1 DEF WaveComplete
  <2>2. CASE StartWave(i, note.wave)
    BY <1>5, <2>2, EngineFacts DEF StartWave
  <2>3. QED
    BY <1>6, <2>1, <2>2
<1>9. pubs' = pubs \/ Publish
  BY <1>6 DEF WaveComplete, StartWave
<1>10. /\ starts' \in [Engine -> Seq(StartMessage)]
       /\ pubs' \in [Client -> Seq(Known)]
       /\ \A j \in Engine : \A m \in Range(adds'[j]) : m.wave <= coord'.wave
       /\ \A j \in Engine : \A m \in Range(starts'[j]) : m.wave <= coord'.wave
       /\ \A c \in Client : \A m \in Range(pubs'[c]) :
            client'[c].wave <= m.wave /\ m.wave <= coord'.wave
       /\ \A c \in Client : client'[c].wave <= coord'.wave
       /\ Advances
  BY <1>1, <1>7, <1>8, <1>9, CoordinatorMoves DEF E
<1>11. notes' \in [Engine -> Seq(Note)] /\ \A j \in Engine : Range(notes'[j]) \subseteq Range(notes[j])
  BY <1>1, <1>2, <1>3
<1>12. WaveTypes'
  BY <1>1, <1>7, <1>10, <1>11 DEF WaveInv, WaveTypes
<1>13. SameWave' /\ MessagesBehind'
  BY <1>1, <1>10, <1>11 DEF WaveInv, SameWave, MessagesBehind
<1>14. CoordBehind'
  <2> DEFINE over == [type |-> "wave_complete", wave |-> E - 1]
  <2>1. ASSUME coord'.wave < E PROVE over \in Range(notes'[0])
    <3>1. coord.wave < E /\ coord'.wave \in Nat /\ coord.wave \in Nat
      BY <1>5, <1>7, <2>1 DEF Known
    <3>2. over \in Range(notes[0])
      BY <3>1 DEF WaveInv, CoordBehind, E
    <3>3. CASE i = 0
      <4>1. note # over
        BY <1>5, <1>7, <2>1, <3>1
      <4> HIDE DEF over
      <4>2. QED
        BY <1>1, <1>2, <1>3, <3>2, <3>3, <4>1
    <3>4. CASE i # 0
      BY <1>1, <1>2, <3>2, <3>4, EngineFacts
    <3>5. QED
      BY <3>3, <3>4
  <2>2. QED
    BY <1>1, <1>7, <1>10, <2>1 DEF CoordBehind, E
<1>15. QED
  BY <1>10, <1>12, <1>13, <1>14 DEF WaveInv

LEMMA WavePublishAgain ==
  ASSUME WaveInv, PublishAgain
  PROVE  WaveInv' /\ Advances
<1>1. /\ UNCHANGED <<engine, sent, adds, starts, notes, coord, client>>
      /\ pubs' = [c \in Client |-> <<coord>>]
  BY DEF PublishAgain
<1>2. coord \in Known /\ coord.wave \in Nat
  BY DEF WaveInv, WaveTypes, Known
<1>3. <<coord>> \in Seq(Known) /\ Range(<<coord>>) = {coord}
  BY <1>2 DEF Range
<1>4. WaveTypes'
  BY <1>1, <1>3 DEF WaveInv, WaveTypes
<1>5. SameWave' /\ CoordBehind' /\ MessagesBehind'
  BY <1>1, <1>2, <1>3 DEF WaveInv, SameWave, CoordBehind, MessagesBehind
<1>6. Advances
  BY <1>1 DEF Advances, WaveInv, WaveTypes, EngineState, Known
<1>7. QED
  BY <1>4, <1>5, <1>6 DEF WaveInv

-----------------------------------------------------------------------------
(* The engines.                                                             *)

(* A request never takes its engine to a later wave, since no front-end is  *)
(* ahead of the engines; one of a wave that is over asks for the engine's.  *)
LEMMA WaveHandleAdd ==
  ASSUME WaveInv, NEW i \in Engine, HandleAdd(i)
  PROVE  WaveInv' /\ Advances
<1> DEFINE add == Head(adds[i])
           n == [type |-> "start_wave", wave |-> engine[i].wave]
<1>1. UNCHANGED <<sent, starts, coord, client, pubs>> /\ adds' = [adds EXCEPT ![i] = Tail(@)]
  BY DEF HandleAdd
<1>2. /\ adds \in [Engine -> Seq(AddMessage)] /\ adds[i] # <<>>
      /\ notes \in [Engine -> Seq(Note)] /\ engine \in [Engine -> EngineState]
      /\ coord \in Known
  BY DEF WaveInv, WaveTypes, HandleAdd
<1>3. /\ add \in AddMessage /\ Tail(adds[i]) \in Seq(AddMessage)
      /\ Range(adds[i]) = {add} \cup Range(Tail(adds[i]))
  BY <1>2, QueueTail
<1>4. engine[i].wave = engine[0].wave /\ engine[0].wave \in Nat
  BY <1>2, EngineFacts DEF WaveInv, SameWave, EngineState
<1>5. add.wave \in Nat /\ add.wave <= coord.wave /\ coord.wave <= engine[0].wave
      /\ coord.wave \in Nat
  BY <1>2, <1>3, Zenon DEF WaveInv, MessagesBehind, CoordBehind, AddMessage, Known
<1>6. engine' = engine
  <2>1. ~(add.wave > engine[i].wave)
    BY <1>4, <1>5
  <2>2. QED
    BY <2>1 DEF HandleAdd
<1>7. n \in Note /\ n.wave = engine[0].wave /\ n.type = "start_wave"
  BY <1>4 DEF Note
<1>8. notes' = notes \/ notes' = [notes EXCEPT ![i] = Append(notes[i], n)]
  BY DEF HandleAdd
<1> HIDE DEF n, add
<1>9. Append(notes[i], n) \in Seq(Note) /\ Range(Append(notes[i], n)) = Range(notes[i]) \cup {n}
  BY <1>2, <1>7, QueueAppend
<1>10. /\ notes' \in [Engine -> Seq(Note)]
       /\ \A j \in Engine : /\ Range(notes[j]) \subseteq Range(notes'[j])
                            /\ Range(notes'[j]) \subseteq Range(notes[j]) \cup {n}
  BY <1>2, <1>8, <1>9, Zenon
<1>11. adds' \in [Engine -> Seq(AddMessage)] /\ \A j \in Engine : Range(adds'[j]) \subseteq Range(adds[j])
  BY <1>1, <1>2, <1>3
<1>12. WaveTypes'
  BY <1>1, <1>6, <1>10, <1>11 DEF WaveInv, WaveTypes
<1>13. SameWave' /\ CoordBehind'
  BY <1>1, <1>6, <1>10, EngineFacts DEF WaveInv, SameWave, CoordBehind
<1>14. \A j \in Engine : \A m \in Range(notes'[j]) :
         /\ m.wave <= engine[0].wave
         /\ m.type = "wave_complete" => m.wave < engine[0].wave
  BY <1>4, <1>7, <1>10 DEF WaveInv, MessagesBehind
<1>15. MessagesBehind'
  BY <1>1, <1>6, <1>11, <1>14 DEF WaveInv, MessagesBehind
<1>16. Advances
  BY <1>1, <1>6 DEF Advances, WaveInv, WaveTypes, EngineState, Known
<1>17. QED
  BY <1>12, <1>13, <1>15, <1>16 DEF WaveInv

(* A change of the engines that leaves their waves alone.                   *)
LEMMA WavesKept ==
  ASSUME WaveInv, engine' \in [Engine -> EngineState],
         \A i \in Engine : engine'[i].wave = engine[i].wave,
         starts' \in [Engine -> Seq(StartMessage)],
         \A i \in Engine : Range(starts'[i]) \subseteq Range(starts[i]),
         UNCHANGED <<sent, adds, notes, coord, client, pubs>>
  PROVE  WaveInv' /\ Advances
<1>1. WaveTypes'
  BY DEF WaveInv, WaveTypes
<1>2. SameWave' /\ CoordBehind'
  BY EngineFacts DEF WaveInv, SameWave, CoordBehind
<1>3. MessagesBehind'
  BY EngineFacts DEF WaveInv, MessagesBehind
<1>4. Advances
  BY DEF Advances, WaveInv, WaveTypes, EngineState, Known
<1>5. QED
  BY <1>1, <1>2, <1>3, <1>4 DEF WaveInv

(* START_DP_WAVE is obeyed only when it names the engine's own wave.        *)
LEMMA WaveHandleStart ==
  ASSUME WaveInv, NEW i \in Engine, HandleStart(i)
  PROVE  WaveInv' /\ Advances
<1> DEFINE start == Head(starts[i])
<1>1. UNCHANGED <<sent, adds, notes, coord, client, pubs>> /\ starts' = [starts EXCEPT ![i] = Tail(@)]
  BY DEF HandleStart
<1>2. /\ starts \in [Engine -> Seq(StartMessage)] /\ starts[i] # <<>>
      /\ engine \in [Engine -> EngineState] /\ coord \in Known
  BY DEF WaveInv, WaveTypes, HandleStart
<1>3. /\ start \in StartMessage /\ Tail(starts[i]) \in Seq(StartMessage)
      /\ Range(starts[i]) = {start} \cup Range(Tail(starts[i]))
  BY <1>2, QueueTail
<1>4. engine[i].wave = engine[0].wave /\ engine[0].wave \in Nat
  BY <1>2, EngineFacts DEF WaveInv, SameWave, EngineState
<1>5. start.wave \in Nat /\ start.wave <= coord.wave /\ coord.wave <= engine[0].wave
      /\ coord.wave \in Nat
  BY <1>2, <1>3, Zenon DEF WaveInv, MessagesBehind, CoordBehind, StartMessage, Known
<1>6. /\ engine' \in [Engine -> EngineState]
      /\ \A j \in Engine : engine'[j].wave = engine[j].wave
  <2>1. CASE engine' = engine
    BY <1>2, <2>1
  <2>2. CASE /\ start.wave >= engine[i].wave
             /\ engine' = [engine EXCEPT ![i].wave = start.wave, ![i].running = TRUE]
    <3>1. start.wave = engine[i].wave
      BY <1>4, <1>5, <2>2
    <3>2. engine' = [engine EXCEPT ![i].wave = engine[i].wave, ![i].running = TRUE]
      BY <2>2, <3>1, Zenon
    <3>3. QED
      BY <1>2, <3>2, Zenon DEF EngineState
  <2>3. QED
    BY <2>1, <2>2 DEF HandleStart
<1> HIDE DEF start
<1>7. /\ starts' \in [Engine -> Seq(StartMessage)]
      /\ \A j \in Engine : Range(starts'[j]) \subseteq Range(starts[j])
  BY <1>1, <1>2, <1>3
<1>8. QED
  BY <1>1, <1>6, <1>7, WavesKept

LEMMA WaveStep ==
  ASSUME WaveInv, NEW i \in Engine, Step(i)
  PROVE  WaveInv' /\ Advances
<1> DEFINE k == (engine[i].step + 1) % SyncPeriod
           run == IF k = 0 THEN engine[i].running ELSE TRUE
           pc == IF k = 0 THEN "reduce" ELSE engine[i].pc
<1>1. engine \in [Engine -> EngineState] /\ engine[i] \in EngineState
  BY DEF WaveInv, WaveTypes
<1>2. k \in Nat /\ run \in BOOLEAN /\ pc \in {"loop", "reduce"}
  <2>1. engine[i].step \in Nat /\ engine[i].running \in BOOLEAN /\ engine[i].pc \in {"loop", "reduce"}
    BY <1>1 DEF EngineState
  <2>2. k \in Nat
    BY <2>1, WavesAssumption
  <2> HIDE DEF k
  <2>3. QED
    BY <2>1, <2>2, Zenon
<1>3. engine' = [engine EXCEPT ![i].step = k, ![i].running = run, ![i].pc = pc]
  BY DEF Step
<1> HIDE DEF k, run, pc
<1>4. engine' = [engine EXCEPT ![i] = [engine[i] EXCEPT !.step = k, !.running = run, !.pc = pc]]
  BY <1>1, <1>3, Zenon
<1>5. /\ [engine[i] EXCEPT !.step = k, !.running = run, !.pc = pc] \in EngineState
      /\ [engine[i] EXCEPT !.step = k, !.running = run, !.pc = pc].wave = engine[i].wave
  BY <1>1, <1>2, Zenon DEF EngineState
<1>6. /\ engine' \in [Engine -> EngineState]
      /\ \A j \in Engine : engine'[j].wave = engine[j].wave
  BY <1>1, <1>4, <1>5
<1>7. UNCHANGED <<sent, adds, starts, notes, coord, client, pubs>>
  BY DEF Step
<1>8. starts' \in [Engine -> Seq(StartMessage)]
  BY <1>7 DEF WaveInv, WaveTypes
<1>9. QED
  BY <1>6, <1>7, <1>8, WavesKept

(* The all-reduce takes all engines to the next wave at once, and puts the  *)
(* news for the coordinator in rank 0's notes.                              *)
LEMMA WaveAllReduce ==
  ASSUME WaveInv, AllReduce
  PROVE  WaveInv' /\ Advances
<1> DEFINE unfinished == \E i \in Engine : local_unfinished_reqs(i)
           n == [type |-> "wave_complete", wave |-> engine[0].wave]
<1>1. /\ UNCHANGED <<sent, adds, starts, coord, client, pubs>>
      /\ engine' = [i \in Engine |->
           [running |-> unfinished, step |-> 0, pc |-> "loop",
            wave |-> IF unfinished THEN engine[i].wave ELSE engine[i].wave + 1]]
      /\ notes' = IF unfinished THEN notes
                  ELSE [notes EXCEPT ![0] = Append(notes[0], n)]
  BY DEF AllReduce
<1>2. /\ engine \in [Engine -> EngineState] /\ notes \in [Engine -> Seq(Note)]
      /\ coord \in Known /\ starts \in [Engine -> Seq(StartMessage)]
      /\ \A i \in Engine : engine[i].wave \in Nat
  BY DEF WaveInv, WaveTypes, EngineState
<1>3. unfinished \in BOOLEAN
  OBVIOUS
<1> HIDE DEF unfinished
<1>4. CASE unfinished
  <2>1. /\ engine' = [i \in Engine |-> [running |-> unfinished, step |-> 0, pc |-> "loop",
                                        wave |-> engine[i].wave]]
        /\ notes' = notes
    BY <1>1, <1>4
  <2>2. /\ engine' \in [Engine -> EngineState]
        /\ \A i \in Engine : engine'[i].wave = engine[i].wave
    BY <1>2, <1>3, <2>1 DEF EngineState
  <2>3. QED
    BY <1>1, <1>2, <2>1, <2>2, WavesKept, Zenon
<1>5. CASE ~unfinished
  <2>1. /\ engine' = [i \in Engine |-> [running |-> unfinished, step |-> 0, pc |-> "loop",
                                        wave |-> engine[i].wave + 1]]
        /\ notes' = [notes EXCEPT ![0] = Append(notes[0], n)]
    BY <1>1, <1>5
  <2>2. /\ engine' \in [Engine -> EngineState]
        /\ \A i \in Engine : engine'[i].wave = engine[i].wave + 1
    BY <1>2, <1>3, <2>1 DEF EngineState
  <2>3. n \in Note /\ n.wave = engine[0].wave
    BY <1>2, EngineFacts DEF Note
  <2>4. n = [type |-> "wave_complete", wave |-> engine'[0].wave - 1]
    BY <1>2, <2>2, EngineFacts
  <2> HIDE DEF n
  <2>5. Append(notes[0], n) \in Seq(Note) /\ Range(Append(notes[0], n)) = Range(notes[0]) \cup {n}
    BY <1>2, <2>3, EngineFacts, QueueAppend
  <2>6. /\ notes' \in [Engine -> Seq(Note)]
        /\ \A j \in Engine : Range(notes'[j]) \subseteq Range(notes[j]) \cup {n}
        /\ n \in Range(notes'[0])
    BY <1>2, <2>1, <2>5, EngineFacts
  <2>7. WaveTypes'
    BY <1>1, <2>2, <2>6 DEF WaveInv, WaveTypes
  <2>8. SameWave'
    BY <1>2, <2>2, ZenonT(30) DEF WaveInv, SameWave
  <2>9. CoordBehind'
    <3>1. coord.wave \in Nat /\ coord.wave <= engine[0].wave /\ engine[0].wave \in Nat
      BY <1>2, EngineFacts DEF WaveInv, CoordBehind, Known
    <3>2. coord'.wave <= engine'[0].wave
      BY <1>1, <2>2, <3>1, EngineFacts
    <3>3. QED
      BY <1>1, <2>4, <2>6, <3>2 DEF WaveInv, CoordBehind
  <2>10. \A j \in Engine : \A m \in Range(notes'[j]) :
           /\ m.wave <= engine'[0].wave
           /\ m.type = "wave_complete" => m.wave < engine'[0].wave
    <3>1. \A j \in Engine : \A m \in Range(notes[j]) : m.wave \in Nat /\ m.wave <= engine[0].wave
      <4>1. \A j \in Engine : \A m \in Range(notes[j]) : m \in Note
        BY <1>2 DEF Range
      <4>2. QED
        BY <4>1 DEF WaveInv, MessagesBehind, Note
    <3>2. engine'[0].wave = engine[0].wave + 1 /\ engine[0].wave \in Nat
      BY <1>2, <2>2, EngineFacts, Zenon
    <3>3. QED
      BY <2>3, <2>6, <3>1, <3>2
  <2>11. MessagesBehind'
    BY <1>1, <2>10, Zenon DEF WaveInv, MessagesBehind
  <2>12. Advances
    BY <1>1, <1>2, <2>2 DEF Advances, WaveInv, WaveTypes, Known
  <2>13. QED
    BY <2>7, <2>8, <2>9, <2>11, <2>12, Zenon DEF WaveInv
<1>6. QED
  BY <1>4, <1>5

-----------------------------------------------------------------------------
LEMMA WaveNext == WaveInv /\ [Next]_vars => WaveInv' /\ (Advances \/ UNCHANGED vars)
<1> SUFFICES ASSUME WaveInv, [Next]_vars
             PROVE  WaveInv' /\ (Advances \/ UNCHANGED vars)
  BY Zenon
<1>1. CASE UNCHANGED vars
  BY <1>1 DEF vars, WaveInv, WaveTypes, SameWave, CoordBehind, MessagesBehind
<1>2. ASSUME NEW c \in Client, NotifyFirst(c) \/ Drain(c) PROVE WaveInv' /\ Advances
  BY <1>2, WaveNotifyFirst, WaveDrain
<1>3. ASSUME NEW i \in Engine, CoordBack(i) \/ HandleAdd(i) \/ HandleStart(i) \/ Step(i)
      PROVE  WaveInv' /\ Advances
  BY <1>3, WaveCoordBack, WaveHandleAdd, WaveHandleStart, WaveStep
<1>4. ASSUME NEW c \in Client, NEW i \in Engine, AddRequest(c, i)
      PROVE  WaveInv' /\ Advances
  BY <1>4, WaveAddRequest
<1>5. CASE CoordFront \/ PublishAgain \/ AllReduce
  BY <1>5, WaveCoordFront, WavePublishAgain, WaveAllReduce
<1>6. QED
  BY <1>1, <1>2, <1>3, <1>4, <1>5 DEF Next, Work

LEMMA WaveInvariant == Spec => []WaveInv
BY WaveInit, WaveNext, PTL DEF Spec

(* SameWave: whatever the order in which requests, START_DP_WAVE and the    *)
(* coordinator's publications arrive, no two engines are ever in different  *)
(* waves, so the all-reduce of run_busy_loop never mixes two waves.         *)
THEOREM OneWave == Spec => []SameWave
BY WaveInvariant, PTL DEF WaveInv

(* Behind: the coordinator never runs ahead of the engines nor a front-end  *)
(* ahead of the coordinator, and a coordinator that is behind has the       *)
(* wave_complete that brings it up to date on its way from rank 0.          *)
THEOREM CoordinatorBehind == Spec => []Behind
<1>1. WaveInv => Behind
  <2> SUFFICES ASSUME WaveInv, NEW i \in Engine
               PROVE  /\ coord.wave <= engine[i].wave
                      /\ coord.wave < engine[i].wave =>
                           \E k \in DOMAIN notes[0] :
                             notes[0][k] = [type |-> "wave_complete",
                                            wave |-> engine[i].wave - 1]
                      /\ \A c \in Client : client[c].wave <= coord.wave
    BY DEF Behind
  <2>1. engine[i].wave = engine[0].wave
    BY EngineFacts DEF WaveInv, SameWave
  <2>2. QED
    BY <2>1 DEF WaveInv, CoordBehind, Range
<1>2. QED
  BY <1>1, WaveInvariant, PTL

(* WavesAdvance: no step takes an engine, the coordinator or a front-end    *)
(* back to an earlier wave, however late a message is handled.              *)
THEOREM NeverBack == Spec => WavesAdvance
<1>1. WaveInv /\ [Next]_vars =>
        [/\ \A i \in Engine : engine'[i].wave >= engine[i].wave
         /\ coord'.wave >= coord.wave
         /\ \A c \in Client : client'[c].wave >= client[c].wave]_vars
  BY WaveNext DEF Advances
<1>2. QED
  BY <1>1, WaveInvariant, PTL DEF Spec, WavesAdvance
=============================================================================
