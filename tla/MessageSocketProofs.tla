------------------------ MODULE MessageSocketProofs ------------------------
(* Proofs about MessageQueue, continued: the sockets of local readers lose   *)
(* nothing, and ring and sockets together are a broadcast queue.             *)
EXTENDS MessageQueueProofs

-----------------------------------------------------------------------------
(* The invariant of the local readers' sockets.                              *)

(* A local reader has in its socket only messages that overflowed, and,      *)
(* unless it times out, only those it has not passed in the ring, and the    *)
(* one it has come to receive.                                               *)
Overflows(m) == data[current_idx(m - 1)].overflow
Lowest(r) ==
  IF Joining(r) THEN 0
  ELSE IF r \in Timed THEN 1
  ELSE IF reader[r].pc = "recv" THEN passed[r]
  ELSE passed[r] + 1
AheadOk(r) ==
  /\ Joining(r) => passed[r] = 0
  /\ \A m \in Range(sock[r]) : Lowest(r) <= m /\ (passed[r] < m => Overflows(m))
  /\ r \notin Timed /\ writer.pc = "send" /\ passed[r] = sent => reader[r].pc = "recv"
Ahead ==
  /\ writer.pc = "send" => sent >= 1 /\ Overflows(sent)
  /\ \A r \in Local : AheadOk(r)

SocketInv == Streams /\ Ahead

(* With room for a ring of messages, and for all of them where the reader    *)
(* may time out, the socket of a local reader drops nothing.                 *)
Roomy(r) ==
  /\ SendHWM > max_chunks
  /\ r \in Timed => SendHWM >= MaxMsgs
Sending(m) == m = sent /\ writer.pc = "send"
CompleteOk(r) ==
  /\ reader[r].pc = "connect" <=> r \notin subscribed
  /\ writer.pc # "wait" => r \in subscribed
  /\ writer.pc # "wait" /\ reader[r].pc = "ready" => 0 \in Range(sock[r])
  /\ \A m \in 1 .. sent : passed[r] < m /\ Overflows(m) =>
       m \in Range(sock[r]) \/ Sending(m)
  /\ reader[r].pc = "recv" => passed[r] \in Range(sock[r]) \/ Sending(passed[r])
  /\ \A m \in 1 .. passed[r] : m \in Range(got[r]) \cup Range(sock[r]) \/ Sending(m)
  /\ r \notin Timed =>
       Len(got[r]) = IF reader[r].pc = "recv" THEN passed[r] - 1 ELSE passed[r]
Complete ==
  /\ sent <= MaxMsgs
  /\ writer.pc = "sum" \/ Claimed => sent < MaxMsgs
  /\ \A r \in Local : Roomy(r) => CompleteOk(r)

-----------------------------------------------------------------------------
(* A local reader's socket runs ahead of the ring by what is in the ring.    *)

LEMMA SocketFacts ==
  ASSUME QueueInv, Streams, NEW r \in Local
  PROVE  /\ r \in Readers /\ r \notin Remote /\ Range(sock[r]) \subseteq Nat
         /\ sock[r] \in Seq(Nat) /\ got[r] \in Seq(Nat) /\ Increasing(sock[r])
         /\ \A m \in Range(sock[r]) : m <= sent /\ (writer.pc = "send" => m < sent)
         /\ writer.pc = "wait" => sock[r] = <<>> /\ Joining(r)
         /\ passed[r] \in Nat /\ sent \in Nat /\ passed[r] <= sent
<1>1. r \in Readers /\ r \notin Remote /\ Stream(r) = sock[r]
  BY LocalStream
<1>2. sock[r] \in Seq(Nat) /\ got[r] \in Seq(Nat) /\ Range(sock[r]) \subseteq Nat
  BY <1>1, StreamFacts DEF QueueInv
<1>3. StreamOk(r)
  BY <1>1 DEF Streams
<1>4. passed[r] \in Nat /\ sent \in Nat /\ passed[r] <= sent
  BY DEF QueueInv, QueueTypes, RingInv, InStep
<1>5. QED
  BY <1>1, <1>2, <1>3, <1>4 DEF StreamOk, Pending, NotTold

LEMMA AheadInRing ==
  ASSUME QueueInv, NEW r \in Local, NEW m \in Nat, passed[r] < m, m <= sent
  PROVE  m - 1 \in Nat /\ InRing(m - 1)
<1>1. /\ passed[r] \in Nat /\ sent \in Nat /\ max_chunks \in Nat
      /\ sent <= passed[r] + max_chunks
      /\ Claimed => sent < passed[r] + max_chunks
  BY Constants DEF QueueInv, QueueTypes, RingInv, InStep
<1>2. m - 1 \in Nat /\ m - 1 < sent /\ passed[r] <= m - 1
  BY <1>1
<1>3. /\ sent <= (m - 1) + max_chunks
      /\ Claimed => sent < (m - 1) + max_chunks
  BY <1>1, <1>2
<1>4. QED
  BY <1>2, <1>3 DEF InRing

(* The writer's stores into a block do not reach the messages in the ring.   *)
LEMMA WriterKeeps ==
  ASSUME QueueInv, WriterWorks, NEW r \in Local, NEW m \in Nat, passed[r] < m, m <= sent
  PROVE  Overflows(m)' = Overflows(m)
<1>1. m - 1 \in Nat /\ InRing(m - 1)
  BY AheadInRing
<1>2. CASE BeginWrite \/ EndWrite
  <2>1. Claimed
    BY <1>2 DEF BeginWrite, EndWrite, Claimed
  <2>2. current_idx(m - 1) # widx
    BY <1>1, <2>1, ClaimedApart
  <2>3. \A b \in Block : b # widx => data'[b] = data[b]
    <3>1. data \in [Block -> Content]
      BY DEF QueueInv, QueueTypes
    <3>2. \/ data' = [data EXCEPT ![widx] = Torn]
          \/ data' = [data EXCEPT ![widx] = [overflow |-> writer.overflow, msg |-> sent + 1]]
      BY <1>2 DEF BeginWrite, EndWrite
    <3>3. QED
      BY <3>1, <3>2
  <2>4. current_idx(m - 1)' = current_idx(m - 1)
    BY DEF current_idx
  <2>5. data'[current_idx(m - 1)] = data[current_idx(m - 1)]
    BY <1>1, <2>2, <2>3, IndexInRing
  <2>6. QED
    BY <2>4, <2>5 DEF Overflows
<1>3. CASE ~(BeginWrite \/ EndWrite)
  <2>1. data' = data
    BY <1>3 DEF WriterWorks, Enqueue, SumFlag, WriterSpins, WriterTimesOut, Claim, ResetFlag,
           shared
  <2>2. QED
    BY <2>1 DEF Overflows, current_idx
<1>4. QED
  BY <1>2, <1>3

LEMMA AheadWriterWorks ==
  ASSUME QueueInv, Streams, Ahead, WriterWorks
  PROVE  Ahead'
<1>1. /\ UNCHANGED <<sock, reader, sent, passed>>
      /\ writer'.pc # "send"
  BY WriterWorksFacts
<1>2. ASSUME NEW r \in Local
      PROVE  AheadOk(r)'
  <2>1. AheadOk(r)
    BY DEF Ahead
  <2>2. (Joining(r)' <=> Joining(r)) /\ Lowest(r)' = Lowest(r)
    BY <1>1 DEF Joining, Lowest
  <2>3. ASSUME NEW m \in Range(sock[r]), passed[r] < m
        PROVE  Overflows(m)'
    <3>1. m \in Nat /\ m <= sent /\ Overflows(m)
      BY <2>1, <2>3, SocketFacts DEF AheadOk
    <3>2. QED
      BY <2>3, <3>1, WriterKeeps
  <2>4. QED
    BY <1>1, <2>1, <2>2, <2>3 DEF AheadOk
<1>3. QED
  BY <1>1, <1>2 DEF Ahead

LEMMA AheadPublish ==
  ASSUME QueueInv, Streams, Ahead, Publish
  PROVE  Ahead'
<1>1. /\ UNCHANGED <<data, sock, reader, passed>> /\ sent' = sent + 1
      /\ writer.pc = "reset" /\ sent \in Nat
  BY DEF Publish, QueueInv, QueueTypes
<1>2. writer'.pc = "send" => Overflows(sent)'
  <2>1. SUFFICES ASSUME writer'.pc = "send"
                 PROVE  Overflows(sent)'
    OBVIOUS
  <2>2. writer.overflow
    <3>1. /\ writer' = [writer EXCEPT
                  !.pc = IF writer.overflow THEN "send" ELSE AfterLocal("remote")]
          /\ writer \in WriterState
      BY DEF Publish, QueueInv, QueueTypes
    <3>2. writer'.pc = IF writer.overflow THEN "send" ELSE AfterLocal("remote")
      BY <3>1 DEF WriterState
    <3>3. AfterLocal("remote") # "send"
      BY DEF AfterLocal
    <3>4. QED
      BY <2>1, <3>2, <3>3
  <2>3. data[widx] = [overflow |-> writer.overflow, msg |-> sent + 1]
    BY <1>1 DEF QueueInv, RingInv, FillRight
  <2>4. sent' - 1 = sent
    BY <1>1
  <2>5. Overflows(sent)' <=> data'[current_idx(sent' - 1)].overflow
    BY DEF Overflows, current_idx
  <2>6. QED
    BY <1>1, <2>2, <2>3, <2>4, <2>5 DEF widx
<1>3. ASSUME NEW r \in Local
      PROVE  AheadOk(r)'
  <2>1. AheadOk(r)
    BY DEF Ahead
  <2>2. (Joining(r)' <=> Joining(r)) /\ Lowest(r)' = Lowest(r)
    BY <1>1 DEF Joining, Lowest
  <2>3. \A m : Overflows(m)' <=> Overflows(m)
    BY <1>1 DEF Overflows, current_idx
  <2>4. passed'[r] # sent'
    BY <1>1, SocketFacts
  <2>5. QED
    BY <1>1, <2>1, <2>2, <2>3, <2>4 DEF AheadOk
<1>4. QED
  BY <1>1, <1>2, <1>3 DEF Ahead

(* What a send does to a local reader's socket.                              *)
LEMMA SocketSent ==
  ASSUME QueueInv, NEW S, NEW m \in Nat, SendTo(S, m), NEW r \in Local
  PROVE  /\ \/ sock'[r] = sock[r]
            \/ sock'[r] = Append(sock[r], m) /\ Range(sock'[r]) = Range(sock[r]) \cup {m}
         /\ r \notin S => sock'[r] = sock[r]
<1>1. r \in Readers /\ sock[r] \in Seq(Nat)
  BY LocalStream DEF QueueInv, QueueTypes
<1>2. sock'[r] = IF r \in S \intersect subscribed /\ Len(sock[r]) < SendHWM
                 THEN Append(sock[r], m) ELSE sock[r]
  BY <1>1 DEF SendTo
<1>3. Range(Append(sock[r], m)) = Range(sock[r]) \cup {m}
  BY <1>1, AppendFacts
<1>4. QED
  BY <1>2, <1>3

LEMMA SendsFacts ==
  ASSUME QueueInv, WriterReady \/ WriterReadyRemote \/ SendLocal \/ SendRemote
  PROVE  /\ UNCHANGED <<written, read, data, subscribed, reader, sent, passed, got>>
         /\ writer'.pc \in {"idle", "wait_remote", "remote"}
         /\ writer.pc \in {"wait", "wait_remote", "send", "remote"}
         /\ \/ writer.pc = "wait" /\ SendTo(Local, READY) /\ Local \subseteq subscribed
            \/ writer.pc = "wait_remote" /\ SendTo(Remote, READY)
            \/ writer.pc = "send" /\ SendTo(Local, sent)
            \/ writer.pc = "remote" /\ SendTo(Remote, sent)
<1>1. writer \in WriterState
  BY DEF QueueInv, QueueTypes
<1>2. UNCHANGED <<written, read, data, subscribed, reader, sent, passed, got>>
  BY DEF WriterReady, WriterReadyRemote, SendLocal, SendRemote, shared
<1>3. writer'.pc \in {"idle", "wait_remote", "remote"}
  BY <1>1 DEF WriterReady, WriterReadyRemote, SendLocal, SendRemote, AfterLocal, WriterState
<1>4. QED
  BY <1>2, <1>3 DEF WriterReady, WriterReadyRemote, SendLocal, SendRemote

LEMMA AheadSends ==
  ASSUME QueueInv, Streams, Ahead,
         WriterReady \/ WriterReadyRemote \/ SendLocal \/ SendRemote
  PROVE  Ahead'
<1>1. UNCHANGED <<data, reader, sent, passed>> /\ writer'.pc # "send"
  BY SendsFacts
<1>2. SUFFICES ASSUME NEW r \in Local
               PROVE  AheadOk(r)'
  BY <1>1 DEF Ahead
<1>3. AheadOk(r)
  BY DEF Ahead
<1>4. (Joining(r)' <=> Joining(r)) /\ Lowest(r)' = Lowest(r)
  BY <1>1 DEF Joining, Lowest
<1>5. \A m : Overflows(m)' <=> Overflows(m)
  BY <1>1 DEF Overflows, current_idx
<1>6. /\ r \in Readers /\ r \notin Remote /\ passed[r] \in Nat /\ sent \in Nat
      /\ passed[r] <= sent
  BY SocketFacts
<1>7. SUFFICES ASSUME NEW m \in Range(sock'[r])
               PROVE  Lowest(r) <= m /\ (passed[r] < m => Overflows(m))
  BY <1>1, <1>3, <1>4, <1>5 DEF AheadOk
<1>8. CASE m \in Range(sock[r])
  BY <1>3, <1>8 DEF AheadOk
<1>9. CASE m \notin Range(sock[r])
  <2>1. CASE writer.pc = "wait" /\ SendTo(Local, READY)
    <3>1. m = 0
      BY <1>9, <2>1, SocketSent DEF READY
    <3>2. Joining(r)
      BY <2>1, SocketFacts
    <3>3. QED
      BY <1>6, <3>1, <3>2 DEF Lowest
  <2>2. CASE writer.pc = "send" /\ SendTo(Local, sent)
    <3>1. m = sent
      BY <1>6, <1>9, <2>2, SocketSent
    <3>2. sent >= 1 /\ Overflows(sent)
      BY <2>2 DEF Ahead
    <3>3. r \in Timed \/ reader[r].pc = "recv" \/ passed[r] + 1 <= sent
      BY <1>3, <1>6, <2>2 DEF AheadOk
    <3>4. Lowest(r) <= sent
      BY <1>6, <3>2, <3>3 DEF Lowest
    <3>5. QED
      BY <3>1, <3>2, <3>4
  <2>3. CASE SendTo(Remote, READY) \/ SendTo(Remote, sent)
    BY <1>6, <1>9, <2>3, SocketSent DEF READY
  <2>4. QED
    BY <2>1, <2>2, <2>3, SendsFacts
<1>10. QED
  BY <1>8, <1>9

(* A step of reader r leaves the other local readers as they are.            *)
LEMMA AheadOthers ==
  ASSUME NEW q \in Local, AheadOk(q), UNCHANGED <<data, writer, sent>>,
         reader'[q] = reader[q], passed'[q] = passed[q], sock'[q] = sock[q]
  PROVE  AheadOk(q)'
<1>1. (Joining(q)' <=> Joining(q)) /\ Lowest(q)' = Lowest(q)
  BY DEF Joining, Lowest
<1>2. \A m : Overflows(m)' <=> Overflows(m)
  BY DEF Overflows, current_idx
<1>3. QED
  BY <1>1, <1>2 DEF AheadOk

LEMMA AheadReaderWorks ==
  ASSUME QueueInv, Streams, Ahead, NEW r \in Readers, ReaderWorks(r)
  PROVE  Ahead'
<1>1. /\ UNCHANGED <<sock, writer, sent, passed>>
      /\ \A q \in Readers : Joining(q)' <=> Joining(q)
      /\ \A q \in Readers \ {r} : reader'[q] = reader[q]
  BY ReaderWorksFacts
<1>2. data' = data
  BY DEF ReaderWorks, Connect, RecvTimesOut, ReadFlag, ReaderSpins, ReadWritten, Load, shared
<1>3. \A m : Overflows(m)' <=> Overflows(m)
  BY <1>2 DEF Overflows, current_idx
<1>4. ASSUME NEW q \in Local
      PROVE  AheadOk(q)'
  <2>1. AheadOk(q) /\ q \in Readers
    BY LocalStream DEF Ahead
  <2>2. CASE q # r
    BY <1>1, <1>2, <2>1, <2>2, AheadOthers
  <2>3. CASE q = r /\ r \in Timed
    <3>1. Lowest(q)' = Lowest(q)
      BY <1>1, <2>1, <2>3 DEF Lowest
    <3>2. QED
      BY <1>1, <1>3, <2>1, <2>3, <3>1 DEF AheadOk
  <2>4. CASE q = r /\ r \notin Timed
    <3>1. reader[r].pc # "recv" /\ reader'[r].pc # "recv"
      <4>1. reader \in [Readers -> ReaderState]
        BY DEF QueueInv, QueueTypes
      <4>2. CASE Connect(r) \/ ReaderSpins(r) \/ ReadWritten(r)
        BY <4>1, <4>2 DEF Connect, ReaderSpins, ReadWritten, ReaderState
      <4>3. CASE ReadFlag(r)
        BY <4>1, <4>3 DEF ReadFlag, ReaderState
      <4>4. CASE Load(r)
        BY <4>1, <4>4 DEF Load, ReaderState
      <4>5. QED
        BY <2>4, <4>2, <4>3, <4>4 DEF ReaderWorks, RecvTimesOut
    <3>2. Lowest(q)' = Lowest(q)
      BY <1>1, <2>1, <2>4, <3>1 DEF Lowest
    <3>3. ~(writer.pc = "send" /\ passed[q] = sent)
      BY <2>1, <2>4, <3>1 DEF AheadOk
    <3>4. QED
      BY <1>1, <1>3, <2>1, <3>2, <3>3 DEF AheadOk
  <2>5. QED
    BY <2>2, <2>3, <2>4
<1>5. QED
  BY <1>1, <1>3, <1>4 DEF Ahead

LEMMA TakeFacts ==
  ASSUME QueueInv, NEW r \in Readers, ReaderReady(r) \/ Recv(r)
  PROVE  /\ UNCHANGED <<written, data, subscribed, writer, sent, passed>>
         /\ sock[r] # <<>> /\ sock'[r] = Tail(sock[r])
         /\ \A q \in Readers \ {r} :
              reader'[q] = reader[q] /\ sock'[q] = sock[q] /\ got'[q] = got[q]
         /\ reader'[r].pc = IF r \in Local THEN "flag" ELSE "recv"
         /\ \/ reader[r].pc = "ready" /\ got'[r] = got[r]
            \/ reader[r].pc = "recv" /\ got'[r] = Append(got[r], Head(sock[r]))
<1>1. /\ reader \in [Readers -> ReaderState] /\ sock \in [Readers -> Seq(Nat)]
      /\ got \in [Readers -> Seq(Nat)]
  BY DEF QueueInv, QueueTypes
<1>2. /\ UNCHANGED <<written, data, subscribed, writer, sent, passed>>
      /\ sock[r] # <<>> /\ sock' = [sock EXCEPT ![r] = Tail(sock[r])]
      /\ reader' = [reader EXCEPT ![r].pc = IF r \in Local THEN "flag" ELSE "recv"]
      /\ \/ reader[r].pc = "ready" /\ got' = got
         \/ reader[r].pc = "recv" /\ got' = [got EXCEPT ![r] = Append(got[r], Head(sock[r]))]
  BY DEF ReaderReady, Recv, shared
<1>3. /\ reader'[r].pc = IF r \in Local THEN "flag" ELSE "recv"
      /\ \A q \in Readers \ {r} : reader'[q] = reader[q] /\ sock'[q] = sock[q]
      /\ sock'[r] = Tail(sock[r])
  BY <1>1, <1>2 DEF ReaderState
<1>4. /\ \/ reader[r].pc = "ready" /\ got'[r] = got[r]
         \/ reader[r].pc = "recv" /\ got'[r] = Append(got[r], Head(sock[r]))
      /\ \A q \in Readers \ {r} : got'[q] = got[q]
  BY <1>1, <1>2
<1>5. QED
  BY <1>2, <1>3, <1>4

LEMMA AheadTakes ==
  ASSUME QueueInv, Streams, Ahead, NEW r \in Readers, ReaderReady(r) \/ Recv(r)
  PROVE  Ahead'
<1>1. UNCHANGED <<data, writer, sent, passed>>
  BY TakeFacts
<1>2. \A m : Overflows(m)' <=> Overflows(m)
  BY <1>1 DEF Overflows, current_idx
<1>3. ASSUME NEW q \in Local, q # r
      PROVE  AheadOk(q)'
  BY <1>1, <1>3, TakeFacts, LocalStream, AheadOthers DEF Ahead
<1>4. ASSUME r \in Local
      PROVE  AheadOk(r)'
  <2>1. AheadOk(r)
    BY <1>4 DEF Ahead
  <2>2. /\ Range(sock[r]) \subseteq Nat /\ sock[r] \in Seq(Nat) /\ Increasing(sock[r])
        /\ \A m \in Range(sock[r]) : m <= sent /\ (writer.pc = "send" => m < sent)
        /\ passed[r] \in Nat /\ sent \in Nat /\ passed[r] <= sent
    BY <1>4, SocketFacts
  <2>3. sock[r] # <<>> /\ sock'[r] = Tail(sock[r]) /\ reader'[r].pc = "flag"
    BY <1>4, TakeFacts
  <2>4. /\ Range(sock[r]) = {Head(sock[r])} \cup Range(sock'[r])
        /\ \A m \in Range(sock'[r]) : Head(sock[r]) < m
        /\ Head(sock[r]) \in Nat
    BY <2>2, <2>3, TailFacts, IncreasingTail
  <2>5. ~Joining(r)' /\ Lowest(r)' = IF r \in Timed THEN 1 ELSE passed[r] + 1
    BY <1>1, <2>3, Zenon DEF Joining, Lowest
  <2>6. Lowest(r) <= Head(sock[r])
    BY <2>1, <2>4 DEF AheadOk
  <2>7. CASE reader[r].pc = "ready"
    <3>1. passed[r] = 0
      BY <2>1, <2>7 DEF Joining, AheadOk
    <3>2. ASSUME NEW m \in Range(sock'[r])
          PROVE  Lowest(r)' <= m /\ (passed[r] < m => Overflows(m))
      <4>1. m \in Range(sock[r]) /\ m \in Nat /\ m > 0
        BY <2>2, <2>4, <3>2
      <4>2. QED
        BY <2>1, <2>5, <3>1, <4>1 DEF AheadOk
    <3>3. ~(writer.pc = "send" /\ passed[r] = sent)
      BY <3>1 DEF Ahead
    <3>4. QED
      BY <1>1, <1>2, <2>5, <3>2, <3>3 DEF AheadOk
  <2>8. CASE reader[r].pc = "recv"
    <3>1. Lowest(r) = IF r \in Timed THEN 1 ELSE passed[r]
      BY <2>8 DEF Lowest, Joining
    <3>2. ASSUME NEW m \in Range(sock'[r])
          PROVE  Lowest(r)' <= m /\ (passed[r] < m => Overflows(m))
      <4>1. m \in Range(sock[r]) /\ m \in Nat /\ Head(sock[r]) < m
        BY <2>2, <2>4, <3>2, Zenon
      <4>2. Lowest(r)' <= m
        BY <2>2, <2>4, <2>5, <2>6, <3>1, <4>1
      <4>3. QED
        BY <2>1, <4>1, <4>2, Zenon DEF AheadOk
    <3>3. ~(r \notin Timed /\ writer.pc = "send" /\ passed[r] = sent)
      <4>1. Head(sock[r]) \in Range(sock[r])
        BY <2>4
      <4>2. writer.pc = "send" => Head(sock[r]) < sent
        BY <2>2, <4>1
      <4>3. r \notin Timed => passed[r] <= Head(sock[r])
        BY <2>6, <3>1
      <4>4. QED
        BY <2>2, <2>4, <4>2, <4>3
    <3>4. QED
      BY <1>1, <1>2, <2>5, <3>2, <3>3, Zenon DEF AheadOk
  <2>9. QED
    BY <2>7, <2>8, TakeFacts
<1>5. QED
  BY <1>1, <1>2, <1>3, <1>4 DEF Ahead

LEMMA AheadMark ==
  ASSUME QueueInv, Streams, Ahead, NEW r \in Local, Mark(r)
  PROVE  Ahead'
<1>1. /\ UNCHANGED <<data, sock, writer, sent>> /\ r \in Readers
      /\ passed[r] \in Nat /\ passed'[r] = passed[r] + 1 /\ reader[r].pc = "mark"
  BY MarkFacts
<1>2. \A m : Overflows(m)' <=> Overflows(m)
  BY <1>1 DEF Overflows, current_idx
<1>3. Overflows(passed[r] + 1) <=> data[ridx(r)].overflow
  <2>1. (passed[r] + 1) - 1 = passed[r]
    BY <1>1
  <2>2. QED
    BY <2>1 DEF Overflows, ridx
<1>4. ASSUME NEW q \in Local, q # r
      PROVE  AheadOk(q)'
  BY <1>1, <1>4, MarkFacts, LocalStream, AheadOthers DEF Ahead
<1>5. AheadOk(r) /\ Range(sock[r]) \subseteq Nat
  BY SocketFacts DEF Ahead
<1>6. Lowest(r) = IF r \in Timed THEN 1 ELSE passed[r] + 1
  BY <1>1 DEF Lowest, Joining
<1>7. CASE data[ridx(r)].overflow /\ reader'[r].pc = "recv"
  <2>1. ~Joining(r)' /\ Lowest(r)' = Lowest(r)
    BY <1>1, <1>6, <1>7, Zenon DEF Joining, Lowest
  <2>2. AheadOk(r)'
    BY <1>1, <1>2, <1>5, <1>7, <2>1 DEF AheadOk
  <2>3. QED
    BY <1>1, <1>2, <1>4, <2>2 DEF Ahead
<1>8. CASE ~data[ridx(r)].overflow /\ reader'[r].pc = "flag"
  <2>1. ~Joining(r)' /\ Lowest(r)' = IF r \in Timed THEN 1 ELSE passed[r] + 2
    BY <1>1, <1>8 DEF Joining, Lowest
  <2>2. ASSUME NEW m \in Range(sock[r])
        PROVE  Lowest(r)' <= m /\ (passed'[r] < m => Overflows(m)')
    <3>1. m \in Nat /\ Lowest(r) <= m /\ (passed[r] < m => Overflows(m))
      BY <1>5, <2>2 DEF AheadOk
    <3>2. m # passed[r] + 1
      BY <1>1, <1>3, <1>8, <3>1
    <3>3. QED
      BY <1>1, <1>2, <1>6, <2>1, <3>1, <3>2
  <2>3. ~(writer.pc = "send" /\ passed'[r] = sent)
    BY <1>1, <1>3, <1>8, Zenon DEF Ahead
  <2>4. AheadOk(r)'
    BY <1>1, <2>1, <2>2, <2>3 DEF AheadOk
  <2>5. QED
    BY <1>1, <1>2, <1>4, <2>4, Zenon DEF Ahead
<1>9. QED
  BY <1>7, <1>8, MarkFacts

LEMMA AheadNext == QueueInv /\ Streams /\ Ahead /\ [Next]_vars => Ahead'
<1>1. SUFFICES ASSUME QueueInv, Streams, Ahead, [Next]_vars
               PROVE  Ahead'
  OBVIOUS
<1>2. CASE WriterWorks
  BY <1>1, <1>2, AheadWriterWorks
<1>3. CASE Publish
  BY <1>1, <1>3, AheadPublish
<1>4. CASE WriterReady \/ WriterReadyRemote \/ SendLocal \/ SendRemote
  BY <1>1, <1>4, AheadSends
<1>5. ASSUME NEW r \in Readers, ReaderWorks(r)
      PROVE  Ahead'
  BY <1>1, <1>5, AheadReaderWorks
<1>6. ASSUME NEW r \in Readers, ReaderReady(r) \/ Recv(r)
      PROVE  Ahead'
  BY <1>1, <1>6, AheadTakes
<1>7. ASSUME NEW r \in Local, Mark(r)
      PROVE  Ahead'
  BY <1>1, <1>7, AheadMark
<1>8. CASE UNCHANGED vars
  <2>1. UNCHANGED <<data, sock, sent, writer, reader, passed>>
    BY <1>8 DEF vars
  <2>2. \A r \in Local : AheadOk(r)'
    BY <1>1, <2>1, AheadOthers DEF Ahead
  <2>3. QED
    BY <1>1, <2>1, <2>2 DEF Ahead, Overflows, current_idx
<1>9. QED
  BY <1>1, <1>2, <1>3, <1>4, <1>5, <1>6, <1>7, <1>8, NextSorted, Zenon

LEMMA AheadInitial == Init => Ahead
<1>1. SUFFICES ASSUME Init, NEW r \in Local
               PROVE  AheadOk(r)
  BY DEF Init, Ahead
<1>2. sock[r] = <<>> /\ passed[r] = 0 /\ writer.pc = "wait"
  BY <1>1, LocalStream DEF Init
<1>3. Range(<<>>) = {}
  BY DEF Range
<1>4. QED
  BY <1>2, <1>3 DEF AheadOk

LEMMA SocketInitial == Init => SocketInv
BY StreamsInitial, AheadInitial DEF SocketInv

LEMMA SocketNext == QueueInv /\ SocketInv /\ [Next]_vars => SocketInv'
BY StreamsNext, AheadNext DEF SocketInv

(* What is in a socket is numbered between passed and sent.                  *)
LEMMA SocketRoom ==
  ASSUME QueueInv, SocketInv, NEW r \in Local \ Timed
  PROVE  /\ Len(sock[r]) \in Nat /\ Len(sock[r]) <= max_chunks + 1
         /\ writer.pc = "send" => Len(sock[r]) <= max_chunks
<1>1. /\ sock[r] \in Seq(Nat) /\ Increasing(sock[r]) /\ Range(sock[r]) \subseteq Nat
      /\ \A m \in Range(sock[r]) : m <= sent /\ (writer.pc = "send" => m < sent)
      /\ passed[r] \in Nat /\ sent \in Nat /\ passed[r] <= sent
  BY SocketFacts DEF SocketInv
<1>2. Len(sock[r]) \in Nat
  BY <1>1
<1>3. sent <= passed[r] + max_chunks /\ max_chunks \in Nat
  BY Constants DEF QueueInv, RingInv, InStep
<1>4. \A m \in Range(sock[r]) : passed[r] <= m
  <2>1. AheadOk(r)
    BY DEF SocketInv, Ahead
  <2>2. passed[r] <= Lowest(r)
    BY <1>1, <2>1 DEF AheadOk, Lowest
  <2>3. Lowest(r) \in Nat
    BY <1>1 DEF Lowest
  <2>4. \A m \in Range(sock[r]) : m \in Nat /\ Lowest(r) <= m
    BY <1>1, <2>1 DEF AheadOk
  <2>5. QED
    BY <1>1, <2>2, <2>3, <2>4
<1>5. Len(sock[r]) = 0 \/ passed[r] + Len(sock[r]) <= sent + 1
  BY <1>1, <1>4, IncreasingRoom, Zenon
<1>6. writer.pc = "send" => Len(sock[r]) = 0 \/ passed[r] + Len(sock[r]) <= sent
  <2>1. SUFFICES ASSUME writer.pc = "send"
                 PROVE  Len(sock[r]) = 0 \/ passed[r] + Len(sock[r]) <= (sent - 1) + 1
    BY <1>1, <1>2
  <2>2. sent - 1 \in Nat
    BY <1>1, <2>1 DEF SocketInv, Ahead
  <2>3. \A m \in Range(sock[r]) : passed[r] <= m /\ m <= sent - 1
    BY <1>1, <1>4, <2>1
  <2>4. QED
    BY <1>1, <2>2, <2>3, IncreasingRoom, Zenon
<1>7. Len(sock[r]) <= max_chunks + 1
  <2>1. passed[r] \in Nat /\ sent \in Nat
    BY <1>1, Zenon
  <2>2. QED
    BY <1>2, <1>3, <1>5, <2>1
<1>8. ASSUME writer.pc = "send" PROVE Len(sock[r]) <= max_chunks
  <2>1. /\ passed[r] \in Nat /\ sent \in Nat
        /\ Len(sock[r]) = 0 \/ passed[r] + Len(sock[r]) <= sent
    BY <1>1, <1>6, <1>8, Zenon
  <2>2. QED
    BY <1>2, <1>3, <2>1
<1>9. QED
  BY <1>2, <1>7, <1>8, Zenon

(* The ring bounds the socket of a local reader without timeouts, whatever   *)
(* its high-water mark: the messages in it are still in the ring, but for    *)
(* the one the reader is receiving.                                          *)
THEOREM Bounded == Spec => []SocketBounded
<1>1. Init => QueueInv /\ SocketInv
  BY QueueInitial, SocketInitial
<1>2. QueueInv /\ SocketInv /\ [Next]_vars => QueueInv' /\ SocketInv'
  BY QueueNext, SocketNext
<1>3. QueueInv /\ SocketInv => SocketBounded
  BY SocketRoom DEF SocketBounded
<1>4. QED
  BY <1>1, <1>2, <1>3, PTL DEF Spec

-----------------------------------------------------------------------------
(* A socket with room drops nothing.                                         *)

LEMMA RoomToSend ==
  ASSUME QueueInv, SocketInv, sent <= MaxMsgs, writer.pc = "send",
         NEW r \in Local, Roomy(r)
  PROVE  Len(sock[r]) < SendHWM
<1>1. /\ sock[r] \in Seq(Nat) /\ Increasing(sock[r]) /\ Range(sock[r]) \subseteq Nat
      /\ \A m \in Range(sock[r]) : m < sent
      /\ passed[r] \in Nat /\ sent \in Nat /\ Len(sock[r]) \in Nat
  BY SocketFacts DEF SocketInv
<1>2. sent - 1 \in Nat
  BY <1>1 DEF SocketInv, Ahead
<1>3. AheadOk(r)
  BY DEF SocketInv, Ahead
<1>4. max_chunks \in Nat \ {0} /\ SendHWM \in Nat \ {0} /\ MaxMsgs \in Nat /\ SendHWM > max_chunks
  BY QueueAssumption DEF Roomy
<1>5. CASE r \notin Timed
  BY <1>1, <1>4, <1>5, SocketRoom
<1>6. CASE r \in Timed /\ Joining(r)
  <2>1. passed[r] = 0
    BY <1>3, <1>6, Zenon DEF AheadOk
  <2>2. sent <= max_chunks
    BY <1>1, <1>4, <2>1 DEF QueueInv, RingInv, InStep
  <2>3. \A m \in Range(sock[r]) : 0 <= m /\ m <= sent - 1
    BY <1>1
  <2>4. Len(sock[r]) = 0 \/ 0 + Len(sock[r]) <= (sent - 1) + 1
    BY <1>1, <1>2, <2>3, IncreasingRoom, Zenon
  <2>5. QED
    BY <1>1, <1>4, <2>2, <2>4
<1>7. CASE r \in Timed /\ ~Joining(r)
  <2>1. \A m \in Range(sock[r]) : 1 <= m /\ m <= sent - 1
    BY <1>1, <1>3, <1>7 DEF AheadOk, Lowest
  <2>2. Len(sock[r]) = 0 \/ 1 + Len(sock[r]) <= (sent - 1) + 1
    BY <1>1, <1>2, <2>1, IncreasingRoom, Zenon
  <2>3. SendHWM >= MaxMsgs
    BY <1>7 DEF Roomy
  <2>4. QED
    BY <1>1, <1>4, <2>2, <2>3
<1>8. QED
  BY <1>5, <1>6, <1>7, Zenon

(* A step that leaves r and its socket as they are.                          *)
LEMMA CompleteOthers ==
  ASSUME NEW r \in Local, CompleteOk(r), UNCHANGED <<data, writer, sent>>,
         reader'[r] = reader[r], passed'[r] = passed[r], sock'[r] = sock[r],
         got'[r] = got[r], r \in subscribed' <=> r \in subscribed
  PROVE  CompleteOk(r)'
<1>1. \A m : (Overflows(m)' <=> Overflows(m)) /\ (Sending(m)' <=> Sending(m))
  BY DEF Overflows, current_idx, Sending
<1>2. QED
  BY <1>1 DEF CompleteOk

LEMMA RoomyConstant == \A r : Roomy(r)' <=> Roomy(r)
BY DEF Roomy

LEMMA CompleteWriterWorks ==
  ASSUME QueueInv, Complete, WriterWorks
  PROVE  Complete'
<1>1. /\ UNCHANGED <<subscribed, sock, reader, sent, passed, got>>
      /\ writer.pc \in {"idle", "sum", "write", "writing", "reset"}
      /\ writer'.pc \in {"idle", "sum", "write", "writing", "reset"}
  BY WriterWorksFacts
<1>2. sent' <= MaxMsgs
  BY <1>1, Zenon DEF Complete
<1>3. writer'.pc = "sum" \/ Claimed' => sent' < MaxMsgs
  <2>1. SUFFICES ASSUME writer'.pc # "idle"
                 PROVE  sent < MaxMsgs
    BY <1>1 DEF Claimed
  <2>2. CASE writer.pc = "idle"
    BY <2>2 DEF WriterWorks, Enqueue, SumFlag, WriterSpins, WriterTimesOut, Claim,
                BeginWrite, EndWrite, ResetFlag
  <2>3. CASE writer.pc # "idle"
    BY <1>1, <2>3, Zenon DEF Complete, Claimed
  <2>4. QED
    BY <2>2, <2>3, Zenon
<1>4. ASSUME NEW r \in Local, CompleteOk(r)
      PROVE  CompleteOk(r)'
  <2>1. \A m : ~Sending(m) /\ ~Sending(m)'
    BY <1>1 DEF Sending
  <2>2. passed[r] \in Nat /\ sent \in Nat
    BY DEF QueueInv, QueueTypes
  <2>3. \A m \in 1 .. sent : passed[r] < m => (Overflows(m)' <=> Overflows(m))
    BY <2>2, WriterKeeps
  <2>4. QED
    BY <1>1, <1>4, <2>1, <2>3 DEF CompleteOk
<1>5. QED
  BY <1>2, <1>3, <1>4, RoomyConstant, Zenon DEF Complete

LEMMA CompletePublish ==
  ASSUME QueueInv, Complete, Publish
  PROVE  Complete'
<1>1. /\ UNCHANGED <<data, subscribed, sock, reader, passed, got>> /\ sent' = sent + 1
      /\ writer.pc = "reset" /\ sent \in Nat /\ writer \in WriterState /\ MaxMsgs \in Nat
      /\ writer' = [writer EXCEPT
                      !.pc = IF writer.overflow THEN "send" ELSE AfterLocal("remote")]
  BY QueueAssumption DEF Publish, QueueInv, QueueTypes
<1>2. writer'.pc = IF writer.overflow THEN "send" ELSE AfterLocal("remote")
  BY <1>1 DEF WriterState
<1>3. writer'.pc \in {"send", "remote", "idle"}
  BY <1>2 DEF AfterLocal
<1>4. sent' <= MaxMsgs
  BY <1>1 DEF Complete, Claimed
<1>5. ~(writer'.pc = "sum" \/ Claimed')
  BY <1>3 DEF Claimed
<1>6. ASSUME NEW r \in Local, CompleteOk(r)
      PROVE  CompleteOk(r)'
  <2>1. \A m : ~Sending(m)
    BY <1>1 DEF Sending
  <2>2. \A m : Overflows(m)' <=> Overflows(m)
    BY <1>1 DEF Overflows, current_idx
  <2>3. ASSUME NEW m, m = sent + 1, Overflows(m)
        PROVE  Sending(m)'
    <3>1. m - 1 = sent /\ m = sent'
      BY <1>1, <2>3
    <3>2. data[widx] = [overflow |-> writer.overflow, msg |-> sent + 1]
      BY <1>1 DEF QueueInv, RingInv, FillRight
    <3>3. writer.overflow
      BY <2>3, <3>1, <3>2 DEF Overflows, widx
    <3>4. QED
      BY <1>2, <3>1, <3>3 DEF Sending
  <2>4. \A m \in 1 .. sent' : m \in 1 .. sent \/ m = sent + 1
    BY <1>1
  <2>5. \A m \in 1 .. sent' : passed[r] < m /\ Overflows(m) =>
          m \in Range(sock[r]) \/ Sending(m)'
    BY <1>6, <2>1, <2>3, <2>4, Zenon DEF CompleteOk
  <2>6. QED
    BY <1>1, <1>3, <1>6, <2>1, <2>2, <2>5 DEF CompleteOk
<1>7. QED
  BY <1>4, <1>5, <1>6, RoomyConstant DEF Complete

LEMMA CompleteSends ==
  ASSUME QueueInv, SocketInv, Complete,
         WriterReady \/ WriterReadyRemote \/ SendLocal \/ SendRemote
  PROVE  Complete'
<1>1. /\ UNCHANGED <<data, subscribed, reader, sent, passed, got>>
      /\ writer'.pc \in {"idle", "wait_remote", "remote"}
  BY SendsFacts
<1>2. sent' <= MaxMsgs /\ ~(writer'.pc = "sum" \/ Claimed')
  BY <1>1 DEF Complete, Claimed
<1>3. SUFFICES ASSUME NEW r \in Local, Roomy(r), CompleteOk(r)
               PROVE  CompleteOk(r)'
  BY <1>2, RoomyConstant, Zenon DEF Complete
<1>4. \A m : (Overflows(m)' <=> Overflows(m)) /\ ~Sending(m)'
  BY <1>1 DEF Overflows, current_idx, Sending
<1>5. r \in Readers /\ r \notin Remote /\ sock[r] \in Seq(Nat) /\ sent \in Nat
  BY SocketFacts, Zenon DEF SocketInv
(* It is enough that the socket loses nothing, and gets what it should.      *)
<1>6. ASSUME Range(sock[r]) \subseteq Range(sock'[r]), r \in subscribed,
             writer.pc = "wait" => 0 \in Range(sock'[r]),
             writer.pc = "send" => sent \in Range(sock'[r])
      PROVE  CompleteOk(r)'
  <2>1. \A m : Sending(m) => m \in Range(sock'[r])
    BY <1>6 DEF Sending
  <2>2. QED
    BY <1>1, <1>3, <1>4, <1>6, <2>1, Zenon DEF CompleteOk
<1>7. CASE writer.pc = "wait" /\ SendTo(Local, READY) /\ Local \subseteq subscribed
  <2>1. sock[r] = <<>> /\ 0 < SendHWM
    BY <1>7, SocketFacts, QueueAssumption DEF SocketInv
  <2>2. sock'[r] = Append(sock[r], 0)
    BY <1>3, <1>5, <1>7, <2>1, ZenonT(30) DEF SendTo, READY
  <2>3. Range(sock'[r]) = Range(sock[r]) \cup {0}
    BY <1>5, <2>2, AppendFacts, Zenon
  <2>4. QED
    BY <1>3, <1>6, <1>7, <2>3, Zenon
<1>8. CASE writer.pc = "send" /\ SendTo(Local, sent)
  <2>1. r \in subscribed
    BY <1>3, <1>8, Zenon DEF CompleteOk
  <2>2. Len(sock[r]) < SendHWM
    BY <1>3, <1>8, RoomToSend DEF Complete
  <2>3. sock'[r] = Append(sock[r], sent)
    BY <1>3, <1>5, <1>8, <2>1, <2>2, Zenon DEF SendTo
  <2>4. Range(sock'[r]) = Range(sock[r]) \cup {sent}
    BY <1>5, <2>3, AppendFacts, Zenon
  <2>5. QED
    BY <1>6, <1>8, <2>1, <2>4, Zenon
<1>9. CASE /\ writer.pc \in {"wait_remote", "remote"}
           /\ SendTo(Remote, READY) \/ SendTo(Remote, sent)
  <2>1. sock'[r] = sock[r]
    BY <1>5, <1>9, SocketSent, Zenon DEF READY
  <2>2. r \in subscribed
    BY <1>3, <1>9, Zenon DEF CompleteOk
  <2>3. QED
    BY <1>6, <1>9, <2>1, <2>2, Zenon
<1>10. QED
  BY <1>7, <1>8, <1>9, SendsFacts, Zenon

LEMMA CompleteReaderWorks ==
  ASSUME QueueInv, Complete, NEW r \in Readers, ReaderWorks(r)
  PROVE  Complete'
<1>1. /\ UNCHANGED <<sock, writer, sent, passed, got>>
      /\ \A q \in Readers : Joining(q)' <=> Joining(q)
      /\ \A q \in Readers \ {r} : reader'[q] = reader[q]
  BY ReaderWorksFacts
<1>2. /\ data' = data
      /\ \A q \in Readers \ {r} : q \in subscribed' <=> q \in subscribed
  BY DEF ReaderWorks, Connect, RecvTimesOut, ReadFlag, ReaderSpins, ReadWritten, Load, shared
<1>3. \A m : (Overflows(m)' <=> Overflows(m)) /\ (Sending(m)' <=> Sending(m))
  BY <1>1, <1>2 DEF Overflows, current_idx, Sending
<1>4. reader \in [Readers -> ReaderState]
  BY DEF QueueInv, QueueTypes
<1>5. ASSUME NEW q \in Local, CompleteOk(q), q # r
      PROVE  CompleteOk(q)'
  BY <1>1, <1>2, <1>5, CompleteOthers, LocalStream, Zenon
<1>6. ASSUME r \in Local, CompleteOk(r)
      PROVE  CompleteOk(r)'
  <2>1. CASE Connect(r)
    <3>1. reader[r].pc = "connect" /\ reader'[r].pc = "ready" /\ r \in subscribed'
      BY <1>4, <2>1 DEF Connect, ReaderState
    <3>2. writer.pc = "wait"
      BY <1>6, <3>1, Zenon DEF CompleteOk
    <3>3. QED
      BY <1>1, <1>3, <1>6, <3>1, <3>2 DEF CompleteOk
  <2>2. CASE RecvTimesOut(r)
    <3>1. /\ reader[r].pc = "recv" /\ reader'[r].pc = "flag" /\ r \in Timed
          /\ subscribed' = subscribed
      BY <1>4, <2>2, Zenon DEF RecvTimesOut, ReaderState
    <3>2. QED
      BY <1>1, <1>3, <1>6, <3>1 DEF CompleteOk
  <2>3. CASE ReadFlag(r) \/ ReaderSpins(r) \/ ReadWritten(r) \/ Load(r)
    <3>1. /\ reader[r].pc \in {"flag", "written", "load"}
          /\ reader'[r].pc \in {"flag", "written", "load", "mark"}
          /\ subscribed' = subscribed
      <4>1. CASE ReadFlag(r)
        BY <1>4, <4>1 DEF ReadFlag, ReaderState
      <4>2. CASE ReaderSpins(r) \/ ReadWritten(r)
        BY <1>4, <4>2 DEF ReaderSpins, ReadWritten, ReaderState
      <4>3. CASE Load(r)
        BY <1>4, <4>3, Zenon DEF Load, ReaderState
      <4>4. QED
        BY <2>3, <4>1, <4>2, <4>3
    <3>2. QED
      BY <1>1, <1>3, <1>6, <3>1, Zenon DEF CompleteOk
  <2>4. QED
    BY <2>1, <2>2, <2>3, Zenon DEF ReaderWorks
<1>7. sent' <= MaxMsgs /\ (writer'.pc = "sum" \/ Claimed' => sent' < MaxMsgs)
  BY <1>1, Zenon DEF Complete, Claimed
<1>8. QED
  BY <1>5, <1>6, <1>7, RoomyConstant, Zenon DEF Complete

(* The next message of a reader in its socket is the one it waits for, or    *)
(* an earlier one.                                                           *)
LEMMA HeadDue ==
  ASSUME QueueInv, SocketInv, NEW r \in Local, CompleteOk(r), sock[r] # <<>>
  PROVE  /\ Head(sock[r]) \in Nat /\ Range(sock[r]) = {Head(sock[r])} \cup Range(Tail(sock[r]))
         /\ reader[r].pc = "ready" => Head(sock[r]) = 0
         /\ reader[r].pc = "recv" => Head(sock[r]) <= passed[r]
         /\ reader[r].pc = "recv" /\ r \notin Timed => Head(sock[r]) = passed[r]
<1>1. /\ sock[r] \in Seq(Nat) /\ Increasing(sock[r]) /\ passed[r] \in Nat /\ sent \in Nat
      /\ \A m \in Range(sock[r]) : m \in Nat /\ m <= sent /\ (writer.pc = "send" => m < sent)
      /\ writer.pc = "wait" => sock[r] = <<>>
  BY SocketFacts DEF SocketInv
<1>2. /\ Head(sock[r]) \in Nat /\ Range(sock[r]) = {Head(sock[r])} \cup Range(Tail(sock[r]))
      /\ \A x \in Range(sock[r]) : Head(sock[r]) <= x
  BY <1>1, TailFacts, IncreasingTail
<1>3. reader[r].pc = "ready" => Head(sock[r]) = 0
  <2>1. SUFFICES ASSUME reader[r].pc = "ready"
                 PROVE  Head(sock[r]) = 0
    OBVIOUS
  <2>2. 0 \in Range(sock[r])
    BY <1>1, <2>1 DEF CompleteOk
  <2>3. QED
    BY <1>2, <2>2
<1>4. reader[r].pc = "recv" => Head(sock[r]) <= passed[r]
  <2>1. SUFFICES ASSUME reader[r].pc = "recv"
                 PROVE  Head(sock[r]) <= passed[r]
    OBVIOUS
  <2>2. CASE passed[r] \in Range(sock[r])
    BY <1>2, <2>2
  <2>3. CASE Sending(passed[r])
    <3>1. passed[r] = sent /\ writer.pc = "send"
      BY <2>3 DEF Sending
    <3>2. Head(sock[r]) < sent
      BY <1>1, <1>2, <3>1, Zenon
    <3>3. QED
      BY <1>1, <1>2, <3>1, <3>2
  <2>4. QED
    BY <2>1, <2>2, <2>3 DEF CompleteOk
<1>5. reader[r].pc = "recv" /\ r \notin Timed => passed[r] <= Head(sock[r])
  <2>1. \A m \in Range(sock[r]) : Lowest(r) <= m
    BY DEF SocketInv, Ahead, AheadOk
  <2>2. QED
    BY <1>2, <2>1 DEF Lowest, Joining
<1>6. QED
  BY <1>1, <1>2, <1>3, <1>4, <1>5

LEMMA CompleteTakes ==
  ASSUME QueueInv, SocketInv, Complete, NEW r \in Readers, ReaderReady(r) \/ Recv(r)
  PROVE  Complete'
<1>1. UNCHANGED <<data, subscribed, writer, sent, passed>>
  BY TakeFacts
<1>2. \A m : (Overflows(m)' <=> Overflows(m)) /\ (Sending(m)' <=> Sending(m))
  BY <1>1 DEF Overflows, current_idx, Sending
<1>3. sent' <= MaxMsgs /\ (writer'.pc = "sum" \/ Claimed' => sent' < MaxMsgs)
  BY <1>1, Zenon DEF Complete, Claimed
<1>4. ASSUME NEW q \in Local, CompleteOk(q), q # r
      PROVE  CompleteOk(q)'
  BY <1>1, <1>4, TakeFacts, CompleteOthers, LocalStream
<1>5. ASSUME r \in Local, CompleteOk(r)
      PROVE  CompleteOk(r)'
  <2>1. /\ sock[r] # <<>> /\ sock'[r] = Tail(sock[r]) /\ reader'[r].pc = "flag"
        /\ \/ reader[r].pc = "ready" /\ got'[r] = got[r]
           \/ reader[r].pc = "recv" /\ got'[r] = Append(got[r], Head(sock[r]))
    BY <1>5, TakeFacts, Zenon
  <2>2. Head(sock[r]) \in Nat /\ Range(sock[r]) = {Head(sock[r])} \cup Range(sock'[r])
    BY <1>5, <2>1, HeadDue, Zenon
  <2>3. passed[r] \in Nat /\ sent \in Nat /\ got[r] \in Seq(Nat)
    BY <1>5, SocketFacts, Zenon DEF SocketInv
  <2>4. CASE reader[r].pc = "ready" /\ got'[r] = got[r]
    <3>1. Head(sock[r]) = 0
      BY <1>5, <2>1, <2>4, HeadDue
    <3>2. \A m \in Range(sock[r]) : m # 0 => m \in Range(sock'[r])
      BY <2>2, <3>1
    <3>3. \A m \in 1 .. sent : m # 0
      BY <2>3
    <3>4. \A m \in 1 .. passed[r] : m # 0
      BY <2>3
    <3>5. QED
      BY <1>1, <1>2, <1>5, <2>1, <2>4, <3>2, <3>3, <3>4, Zenon DEF CompleteOk
  <2>5. CASE reader[r].pc = "recv" /\ got'[r] = Append(got[r], Head(sock[r]))
    <3>1. Head(sock[r]) <= passed[r]
      BY <1>5, <2>1, <2>5, HeadDue, Zenon
    <3>2. \A m \in 1 .. sent : passed[r] < m /\ m \in Range(sock[r]) => m \in Range(sock'[r])
      BY <2>2, <2>3, <3>1
    <3>3. Range(got'[r]) = Range(got[r]) \cup {Head(sock[r])} /\ Len(got'[r]) = Len(got[r]) + 1
      BY <2>2, <2>3, <2>5, AppendFacts
    <3>4. Range(got[r]) \cup Range(sock[r]) \subseteq Range(got'[r]) \cup Range(sock'[r])
      BY <2>2, <3>3, Zenon
    <3>5. r \notin Timed => Len(got'[r]) = passed[r]
      BY <1>5, <2>3, <2>5, <3>3 DEF CompleteOk
    <3>6. QED
      BY <1>1, <1>2, <1>5, <2>1, <2>5, <3>2, <3>4, <3>5, Zenon DEF CompleteOk
  <2>6. QED
    BY <2>1, <2>4, <2>5, Zenon
<1>6. QED
  BY <1>3, <1>4, <1>5, RoomyConstant, Zenon DEF Complete

LEMMA CompleteMark ==
  ASSUME QueueInv, SocketInv, Complete, NEW r \in Local, Mark(r)
  PROVE  Complete'
<1>1. /\ UNCHANGED <<data, subscribed, sock, writer, sent>> /\ r \in Readers
      /\ passed[r] \in Nat /\ passed'[r] = passed[r] + 1 /\ passed[r] < sent
      /\ reader[r].pc = "mark"
  BY MarkFacts
<1>2. \A m : (Overflows(m)' <=> Overflows(m)) /\ (Sending(m)' <=> Sending(m))
  BY <1>1, Zenon DEF Overflows, current_idx, Sending
<1>3. sent' <= MaxMsgs /\ (writer'.pc = "sum" \/ Claimed' => sent' < MaxMsgs)
  BY <1>1, Zenon DEF Complete, Claimed
<1>4. ASSUME NEW q \in Local, CompleteOk(q), q # r
      PROVE  CompleteOk(q)'
  <2>1. q \in Readers
    BY LocalStream, Zenon
  <2>2. reader'[q] = reader[q] /\ got'[q] = got[q] /\ passed'[q] = passed[q]
    BY <1>4, <2>1, MarkFacts, Zenon
  <2>3. UNCHANGED <<data, subscribed, sock, writer, sent>>
    BY <1>1
  <2>. QED  BY <1>4, <2>2, <2>3, CompleteOthers
<1>5. ASSUME CompleteOk(r)
      PROVE  CompleteOk(r)'
  <2>1. sent \in Nat /\ got[r] \in Seq(Nat) /\ Len(got[r]) \in Nat
    <3>1. sent \in Nat /\ got[r] \in Seq(Nat)
      BY SocketFacts, Zenon DEF SocketInv
    <3>. QED  BY <3>1
  <2>2. Overflows(passed[r] + 1) <=> data[ridx(r)].overflow
    <3>1. (passed[r] + 1) - 1 = passed[r]
      BY <1>1
    <3>2. QED
      BY <3>1 DEF Overflows, ridx
  <2>3. r \notin Timed => Len(got[r]) = passed[r]
    BY <1>1, <1>5, Zenon DEF CompleteOk
  <2>4. /\ passed[r] + 1 \in 1 .. sent /\ passed[r] < passed[r] + 1
        /\ \A m \in Nat : passed'[r] < m => passed[r] < m
        /\ \A m \in 1 .. passed'[r] : m \in 1 .. passed[r] \/ m = passed'[r]
    BY <1>1, <2>1
  <2>5. \A m \in 1 .. sent' : passed'[r] < m /\ Overflows(m)' =>
          m \in Range(sock'[r]) \/ Sending(m)'
    <3>1. sent' = sent /\ sock' = sock
      BY <1>1
    <3>2. \A m \in 1 .. sent : m \in Nat
      OBVIOUS
    <3>3. \A m \in 1 .. sent : passed[r] < m /\ Overflows(m) =>
            m \in Range(sock[r]) \/ Sending(m)
      BY <1>5, Zenon DEF CompleteOk
    <3>. QED  BY <1>2, <2>4, <3>1, <3>2, <3>3, ZenonT(30)
  <2>6. CASE data[ridx(r)].overflow /\ reader'[r].pc = "recv" /\ got'[r] = got[r]
    <3>1. passed'[r] \in Range(sock[r]) \/ Sending(passed[r] + 1)
      BY <1>1, <1>5, <2>2, <2>4, <2>6, Zenon DEF CompleteOk
    <3>2. \E k : k = passed'[r] /\ (k \in Range(sock[r]) \/ Sending(k)')
      BY <1>1, <1>2, <3>1, Zenon
    <3>3. (passed[r] \in Range(sock[r]) \/ Sending(passed[r]))'
      BY <1>1, <3>2, Zenon DEF Sending
    <3>4. \A m \in 1 .. passed'[r] : m \in Range(got'[r]) \cup Range(sock'[r]) \/ Sending(m)'
      BY <1>1, <1>2, <1>5, <2>4, <2>6, <3>2, Zenon DEF CompleteOk
    <3>5. r \notin Timed => Len(got'[r]) = passed'[r] - 1
      BY <1>1, <2>1, <2>3, <2>6
    <3>6. QED
      BY <1>1, <1>5, <2>5, <2>6, <3>3, <3>4, <3>5, Zenon DEF CompleteOk
  <2>7. CASE reader'[r].pc = "flag" /\ got'[r] = Append(got[r], passed[r] + 1)
    <3>1. Range(got'[r]) = Range(got[r]) \cup {passed[r] + 1} /\ Len(got'[r]) = Len(got[r]) + 1
      BY <1>1, <2>1, <2>7, AppendFacts
    <3>2. \A m \in 1 .. passed'[r] : m \in Range(got'[r]) \cup Range(sock'[r]) \/ Sending(m)'
      BY <1>1, <1>2, <1>5, <2>4, <3>1, ZenonT(30) DEF CompleteOk
    <3>3. r \notin Timed => Len(got'[r]) = passed'[r]
      BY <1>1, <2>1, <2>3, <3>1, Zenon
    <3>4. QED
      BY <1>1, <1>5, <2>5, <2>7, <3>2, <3>3, Zenon DEF CompleteOk
  <2>8. QED
    BY <2>6, <2>7, MarkFacts, Zenon
<1>6. QED
  BY <1>3, <1>4, <1>5, RoomyConstant, Zenon DEF Complete

LEMMA CompleteInitial == Init => Complete
<1>1. SUFFICES ASSUME Init
               PROVE  Complete
  OBVIOUS
<1>2. sent = 0 /\ MaxMsgs \in Nat /\ writer.pc = "wait" /\ subscribed = {}
  BY <1>1, QueueAssumption, Zenon DEF Init
<1>3. ASSUME NEW r \in Local
      PROVE  CompleteOk(r)
  <2>1. reader[r].pc = "connect" /\ passed[r] = 0 /\ got[r] = <<>>
    BY <1>1, LocalStream DEF Init
  <2>2. 1 .. 0 = {} /\ Len(<<>>) = 0
    OBVIOUS
  <2>3. QED
    BY <1>2, <2>1, <2>2, Zenon DEF CompleteOk
<1>4. QED
  BY <1>2, <1>3 DEF Complete, Claimed

LEMMA CompleteNext == QueueInv /\ SocketInv /\ Complete /\ [Next]_vars => Complete'
<1>1. SUFFICES ASSUME QueueInv, SocketInv, Complete, [Next]_vars
               PROVE  Complete'
  OBVIOUS
<1>2. CASE WriterWorks
  BY <1>1, <1>2, CompleteWriterWorks, Zenon
<1>3. CASE Publish
  BY <1>1, <1>3, CompletePublish, Zenon
<1>4. CASE WriterReady \/ WriterReadyRemote \/ SendLocal \/ SendRemote
  BY <1>1, <1>4, CompleteSends
<1>5. ASSUME NEW r \in Readers, ReaderWorks(r)
      PROVE  Complete'
  BY <1>1, <1>5, CompleteReaderWorks, Zenon
<1>6. ASSUME NEW r \in Readers, ReaderReady(r) \/ Recv(r)
      PROVE  Complete'
  BY <1>1, <1>6, CompleteTakes
<1>7. ASSUME NEW r \in Local, Mark(r)
      PROVE  Complete'
  BY <1>1, <1>7, CompleteMark
<1>8. CASE UNCHANGED vars
  <2>1. UNCHANGED <<data, subscribed, sock, sent, writer, reader, passed, got>>
    BY <1>8 DEF vars
  <2>2. \A r \in Local : CompleteOk(r) => CompleteOk(r)'
    BY <2>1, CompleteOthers
  <2>3. QED
    BY <1>1, <2>1, <2>2, RoomyConstant DEF Complete, Claimed
<1>9. QED
  BY <1>1, <1>2, <1>3, <1>4, <1>5, <1>6, <1>7, <1>8, NextSorted

LEMMA AllInitial == Init => QueueInv /\ SocketInv /\ Complete
BY QueueInitial, SocketInitial, CompleteInitial

LEMMA AllNext ==
  QueueInv /\ SocketInv /\ Complete /\ [Next]_vars => QueueInv' /\ SocketInv' /\ Complete'
BY QueueNext, SocketNext, CompleteNext

(* With more room in the publish socket than the ring has blocks, and room   *)
(* for all the messages where a reader may time out, a message a local       *)
(* reader has passed is returned to it or still to come, even after its      *)
(* receive has timed out.                                                    *)
THEOREM Lossless ==
  ASSUME \A r \in Local : Roomy(r)
  PROVE  Spec => []NothingLost
<1>1. QueueInv /\ SocketInv /\ Complete => NothingLost
  <2>1. SUFFICES ASSUME QueueInv, SocketInv, Complete, NEW r \in Local,
                        NEW m \in 1 .. passed[r]
                 PROVE  \/ \E i \in DOMAIN got[r] : got[r][i] = m
                        \/ \E i \in DOMAIN sock[r] : sock[r][i] = m
                        \/ m = sent /\ writer.pc = "send"
    BY DEF NothingLost
  <2>2. m \in Range(got[r]) \cup Range(sock[r]) \/ Sending(m)
    BY <2>1 DEF Complete, CompleteOk
  <2>3. QED
    BY <2>2 DEF Range, Sending
<1>2. QED
  BY AllInitial, AllNext, <1>1, PTL DEF Spec

(* To the local readers without timeouts the queue is a broadcast queue:     *)
(* every step of it is a send, a receive of the next message by one reader,  *)
(* or nothing, provided the publish socket keeps more messages than the      *)
(* ring has blocks.                                                          *)
THEOREM Broadcast ==
  ASSUME SendHWM > max_chunks
  PROVE  Spec => Abstract!Init /\ [][Abstract!Next]_(Abstract!vars)
<1>1. Init => Abstract!Init
  BY DEF Init, Abstract!Init, Untimed, Readers
<1>2. ASSUME QueueInv, SocketInv, Complete, [Next]_vars
      PROVE  [Abstract!Next]_(Abstract!vars)
  <2> DEFINE gets == [r \in Untimed |-> got[r]]
  <2>1. \A r \in Untimed : r \in Local /\ r \in Readers /\ r \notin Timed /\ CompleteOk(r)
    BY <1>2, LocalStream DEF Untimed, Complete, Roomy
  <2>2. ASSUME UNCHANGED <<sent, got>>
        PROVE  [Abstract!Next]_(Abstract!vars)
    BY <2>2 DEF Abstract!vars
  <2>3. CASE Publish
    <3>1. Abstract!Send
      BY <2>3 DEF Publish, Abstract!Send
    <3>2. QED
      BY <3>1 DEF Abstract!Next
  (* A receive of r is one of the abstract queue, if r does not time out.    *)
  <2>4. ASSUME NEW r \in Readers, UNCHANGED sent,
               \A q \in Readers \ {r} : got'[q] = got[q],
               r \in Untimed => /\ got'[r] = Append(got[r], Len(got[r]) + 1)
                                /\ Len(got[r]) < sent
        PROVE  [Abstract!Next]_(Abstract!vars)
    <3>1. CASE r \in Untimed
      <4>1. gets' = [gets EXCEPT ![r] = Append(gets[r], Len(gets[r]) + 1)]
        <5>1. \A q \in Untimed : got'[q] = IF q = r THEN Append(got[r], Len(got[r]) + 1)
                                                    ELSE got[q]
          BY <2>1, <2>4, <3>1, Zenon
        <5>2. QED
          BY <3>1, <5>1, Zenon
      <4>2. Abstract!Receive(r)
        BY <2>4, <3>1, <4>1, Zenon DEF Abstract!Receive
      <4>3. QED
        BY <3>1, <4>2 DEF Abstract!Next
    <3>2. CASE r \notin Untimed
      <4>1. gets' = gets
        BY <2>1, <2>4, <3>2
      <4>2. QED
        BY <2>4, <4>1 DEF Abstract!vars
    <3>3. QED
      BY <3>1, <3>2
  <2>5. ASSUME NEW r \in Readers, ReaderReady(r) \/ Recv(r)
        PROVE  [Abstract!Next]_(Abstract!vars)
    <3>1. /\ UNCHANGED <<sent, passed>> /\ sock[r] # <<>>
          /\ \A q \in Readers \ {r} : got'[q] = got[q]
      BY <1>2, <2>5, TakeFacts, Zenon
    <3>2. CASE ReaderReady(r)
      BY <2>2, <3>2, Zenon DEF ReaderReady
    <3>3. CASE Recv(r)
      <4>1. reader[r].pc = "recv" /\ got'[r] = Append(got[r], Head(sock[r]))
        BY <1>2, <2>5, <3>3, TakeFacts, Zenon DEF Recv
      <4>2. ASSUME r \in Untimed
            PROVE  Head(sock[r]) = Len(got[r]) + 1 /\ Len(got[r]) < sent
        <5>1. Head(sock[r]) = passed[r]
          BY <1>2, <2>1, <3>1, <4>1, <4>2, HeadDue, Zenon
        <5>2. Len(got[r]) = passed[r] - 1
          BY <2>1, <4>1, <4>2, ZenonT(30) DEF CompleteOk
        <5>3. passed[r] \in Nat /\ sent \in Nat /\ passed[r] <= sent
          BY <1>2, <2>1, <4>2, SocketFacts, Zenon DEF SocketInv
        <5>4. QED
          BY <5>1, <5>2, <5>3
      <4>3. QED
        BY <2>4, <3>1, <4>1, <4>2, Zenon
    <3>4. QED
      BY <2>5, <3>2, <3>3, Zenon
  <2>6. ASSUME NEW r \in Local, Mark(r)
        PROVE  [Abstract!Next]_(Abstract!vars)
    <3>1. /\ UNCHANGED sent /\ r \in Readers /\ reader[r].pc = "mark" /\ passed[r] < sent
          /\ \A q \in Readers \ {r} : got'[q] = got[q]
          /\ got'[r] = got[r] \/ got'[r] = Append(got[r], passed[r] + 1)
      BY <1>2, <2>6, MarkFacts
    <3>2. CASE got'[r] = got[r]
      <4>1. gets' = gets
        BY <2>1, <3>1, <3>2, Zenon
      <4>2. QED
        BY <3>1, <4>1 DEF Abstract!vars
    <3>3. CASE got'[r] = Append(got[r], passed[r] + 1)
      <4>1. r \in Untimed => Len(got[r]) = passed[r]
        BY <2>1, <3>1 DEF CompleteOk
      <4>2. QED
        BY <2>4, <3>1, <3>3, <4>1, Zenon
    <3>4. QED
      BY <3>1, <3>2, <3>3, Zenon
  <2>7. QED
    <3>1. CASE WriterWorks
      BY <1>2, <2>2, <3>1, WriterWorksFacts
    <3>2. CASE WriterReady \/ WriterReadyRemote \/ SendLocal \/ SendRemote
      BY <1>2, <2>2, <3>2, SendsFacts, Zenon
    <3>3. ASSUME NEW r \in Readers, ReaderWorks(r)
          PROVE  UNCHANGED <<sent, got>>
      BY <1>2, <3>3, ReaderWorksFacts
    <3>4. CASE UNCHANGED vars
      BY <2>2, <3>4 DEF vars
    <3>5. QED
      BY <1>2, <2>2, <2>3, <2>5, <2>6, <3>1, <3>2, <3>3, <3>4, NextSorted, Zenon
<1>3. QED
  BY AllInitial, AllNext, <1>1, <1>2, PTL DEF Spec
=============================================================================
