------------------------- MODULE MessageQueueProofs -------------------------
(* Proofs about MessageQueue, for every number of readers, of blocks and of  *)
(* messages: the ring, and the order of what comes over the sockets.         *)
EXTENDS MessageQueue, Functions, TLAPS

-----------------------------------------------------------------------------
(* The invariant of the ring.                                                *)

Flag == {0, 1}
Content == [overflow : BOOLEAN, msg : Nat]
WriterPc == {"wait", "wait_remote", "idle", "sum", "write", "writing", "reset",
             "send", "remote"}
ReaderPc == {"connect", "ready", "flag", "written", "load", "mark", "recv"}
WriterState == [pc : WriterPc, i : Nat, read_count : Nat, overflow : BOOLEAN]
ReaderState == [pc : ReaderPc, read_flag : Flag, buf : Content]

QueueTypes ==
  /\ written \in [Block -> Flag]
  /\ read \in [Block -> [Local -> Flag]]
  /\ data \in [Block -> Content]
  /\ subscribed \subseteq Readers
  /\ sock \in [Readers -> Seq(Nat)]
  /\ writer \in WriterState
  /\ reader \in [Readers -> ReaderState]
  /\ sent \in Nat
  /\ passed \in [Local -> Nat]
  /\ got \in [Readers -> Seq(Nat)]

(* The writer has claimed the block of the next message.                     *)
Claimed == writer.pc \in {"write", "writing", "reset"}

(* The messages that are in the ring, by the number of blocks before them.   *)
(* The claimed block has lost the message of a round ago.                    *)
InRing(n) ==
  /\ n < sent /\ sent <= n + max_chunks
  /\ Claimed => sent < n + max_chunks

(* Each of them is complete in its block, and its reader bytes say who has   *)
(* passed it.                                                                *)
Holds(n) ==
  LET b == current_idx(n) IN
  /\ written[b] = 1
  /\ data[b].msg = n + 1
  /\ \A r \in Local : read[b][r] = (IF passed[r] > n THEN 1 ELSE 0)
RingHolds == \A n \in Nat : InRing(n) => Holds(n)

(* No reader is ahead of the writer, and the writer is never more than a     *)
(* ring ahead, the claimed block included.                                   *)
InStep ==
  \A r \in Local :
    /\ passed[r] <= sent /\ sent <= passed[r] + max_chunks
    /\ Claimed => sent < passed[r] + max_chunks

NotYetWritten == \A b \in Block : sent <= b => written[b] = 0

(* What the writer knows while it sums up the reader bytes, and while it     *)
(* fills the block.                                                          *)
SumRight ==
  writer.pc = "sum" =>
    /\ writer.i \in 1 .. n_reader + 1
    /\ writer.read_count < writer.i
    /\ writer.read_count + 1 = writer.i /\ sent >= max_chunks =>
         \A r \in Local : r < writer.i => sent < passed[r] + max_chunks
FillRight ==
  /\ Claimed => written[widx] = 0
  /\ writer.pc = "reset" =>
       /\ writer.i \in 1 .. n_reader + 1
       /\ data[widx] = [overflow |-> writer.overflow, msg |-> sent + 1]
       /\ \A r \in Local : r < writer.i => read[widx][r] = 0

(* A reader that found its byte 0 in a block that is not yet published will  *)
(* find it written only once it is; one that found it readable is behind     *)
(* the writer.                                                               *)
ReaderOk(r) ==
  /\ reader[r].pc = "written" /\ reader[r].read_flag = 0 /\ passed[r] = sent =>
       written[ridx(r)] = 0
  /\ reader[r].pc \in {"load", "mark"} => passed[r] < sent
  /\ reader[r].pc = "mark" => reader[r].buf = data[ridx(r)]
ReaderRight == \A r \in Local : ReaderOk(r)

RingInv == /\ RingHolds /\ InStep /\ NotYetWritten /\ SumRight /\ FillRight
           /\ ReaderRight
QueueInv == QueueTypes /\ RingInv

-----------------------------------------------------------------------------
(* The invariant of the sockets.                                             *)

(* Strictly increasing, stated so that it bounds the length as well.         *)
Increasing(s) ==
  \A i, j \in 1 .. Len(s) : i < j => s[i] + (j - i) <= s[j]

(* What has come or will come to a remote reader, and what is on its way to  *)
(* a local one.                                                              *)
Stream(r) == IF r \in Remote THEN got[r] \o sock[r] ELSE sock[r]

Joining(r) == reader[r].pc \in {"connect", "ready"}

(* The message that was published last is still to be sent to r.             *)
Pending(r) == writer.pc = "send" \/ (r \in Remote /\ writer.pc = "remote")

(* r is still to be told that everybody is there.                            *)
NotTold(r) == writer.pc = "wait" \/ (r \in Remote /\ writer.pc = "wait_remote")

StreamOk(r) ==
  /\ Increasing(Stream(r))
  /\ \A m \in Range(Stream(r)) : m <= sent /\ (Pending(r) => m < sent)
  /\ NotTold(r) => Stream(r) = <<>> /\ Joining(r)
  /\ Joining(r) => got[r] = <<>>
Streams == \A r \in Readers : StreamOk(r)

-----------------------------------------------------------------------------
(* The ring.                                                                 *)

LEMMA IndexInRing ==
  ASSUME NEW n \in Nat
  PROVE  current_idx(n) \in Block
BY QueueAssumption DEF current_idx, Block

LEMMA IndexOfBlock ==
  ASSUME NEW b \in Block
  PROVE  current_idx(b) = b
BY QueueAssumption DEF current_idx, Block

LEMMA Division ==
  ASSUME NEW n \in Nat, NEW w \in Nat \ {0},
         NEW q, q = n \div w, NEW r, r = n % w
  PROVE  n = w * q + r /\ q \in Nat /\ r \in 0 .. w - 1
<1>1. q \in Nat /\ r \in 0 .. w - 1
  OBVIOUS
<1>2. n = w * q + r
  OBVIOUS
<1>3. QED
  BY <1>1, <1>2

LEMMA AtLeastOnce ==
  ASSUME NEW k \in Nat, k >= 1, NEW w \in Nat
  PROVE  w * k >= w
OBVIOUS

LEMMA RemainderUnique ==
  ASSUME NEW w \in Nat \ {0}, NEW p \in Nat, NEW q \in Nat,
         NEW x \in 0 .. w - 1, NEW y \in 0 .. w - 1, w * p + x = w * q + y
  PROVE  p = q /\ x = y
<1>1. ~(p > q)
  <2> SUFFICES ASSUME p > q PROVE FALSE
    OBVIOUS
  <2>1. w * (p - q) = w * p - w * q
    OBVIOUS
  <2>2. p - q \in Nat /\ w * (p - q) >= w
    BY AtLeastOnce
  <2>3. w * p \in Nat /\ w * q \in Nat
    OBVIOUS
  <2>4. QED
    BY <2>1, <2>2, <2>3
<1>2. ~(q > p)
  <2> SUFFICES ASSUME q > p PROVE FALSE
    OBVIOUS
  <2>1. w * (q - p) = w * q - w * p
    OBVIOUS
  <2>2. q - p \in Nat /\ w * (q - p) >= w
    BY AtLeastOnce
  <2>3. w * p \in Nat /\ w * q \in Nat
    OBVIOUS
  <2>4. QED
    BY <2>1, <2>2, <2>3
<1>3. p = q
  BY <1>1, <1>2
<1>4. QED
  BY <1>3

LEMMA NextRound ==
  ASSUME NEW n \in Nat
  PROVE  current_idx(n + max_chunks) = current_idx(n)
<1> DEFINE w == max_chunks
           p == n \div w
           q == (n + w) \div w
           x == n % w
           y == (n + w) % w
<1>1. w \in Nat \ {0} /\ n + w \in Nat
  BY QueueAssumption
<1>2. n = w * p + x /\ p \in Nat /\ x \in 0 .. w - 1
  BY <1>1, Division, Zenon
<1>3. n + w = w * q + y /\ q \in Nat /\ y \in 0 .. w - 1
  BY <1>1, Division, Zenon
<1> HIDE DEF p, q, x, y
<1>4. w * (p + 1) = w * p + w
  BY <1>1, <1>2
<1>5. w * (p + 1) + x = w * q + y /\ p + 1 \in Nat
  BY <1>1, <1>2, <1>3, <1>4
<1>6. x = y
  BY <1>1, <1>2, <1>3, <1>5, RemainderUnique
<1>7. QED
  BY <1>6 DEF x, y, current_idx

LEMMA OtherBlock ==
  ASSUME NEW a \in Nat, NEW b \in Nat, a < b, b < a + max_chunks
  PROVE  current_idx(a) # current_idx(b)
<1> DEFINE w == max_chunks
           p == a \div w
           q == b \div w
           x == a % w
           y == b % w
<1>1. w \in Nat \ {0}
  BY QueueAssumption
<1>2. a = w * p + x /\ p \in Nat /\ x \in 0 .. w - 1
  BY <1>1, Division, Zenon
<1>3. b = w * q + y /\ q \in Nat /\ y \in 0 .. w - 1
  BY <1>1, Division, Zenon
<1> HIDE DEF p, q, x, y
<1>4. SUFFICES ASSUME x = y PROVE FALSE
  BY DEF x, y, current_idx
<1>5. w * p \in Nat /\ w * q \in Nat /\ w * q > w * p /\ w * q < w * p + w
  BY <1>1, <1>2, <1>3, <1>4
<1>6. ~(p >= q)
  BY <1>1, <1>2, <1>3, <1>5
<1>7. q - p \in Nat /\ q - p >= 1
  BY <1>2, <1>3, <1>6
<1>8. w * (q - p) >= w
  BY <1>1, <1>7, AtLeastOnce
<1>9. w * (q - p) = w * q - w * p
  BY <1>1, <1>2, <1>3
<1>10. QED
  BY <1>1, <1>5, <1>8, <1>9

-----------------------------------------------------------------------------
(* What follows from the invariant of the ring.                              *)

LEMMA Constants ==
  /\ n_reader \in Nat /\ n_reader >= 1 /\ max_chunks \in Nat /\ max_chunks >= 1
  /\ Local \subseteq Nat /\ Local \subseteq Readers
BY QueueAssumption DEF Local, Readers

(* The two messages are in different blocks.                                 *)
LEMMA InRingApart ==
  ASSUME QueueInv, NEW m \in Nat, NEW n \in Nat, InRing(m), InRing(n), m # n
  PROVE  current_idx(m) # current_idx(n)
<1>1. /\ m < sent /\ sent <= m + max_chunks /\ n < sent /\ sent <= n + max_chunks
      /\ sent \in Nat
  BY DEF InRing, QueueInv, QueueTypes
<1>2. (m < n /\ n < m + max_chunks) \/ (n < m /\ m < n + max_chunks)
  BY <1>1, Constants
<1>3. QED
  BY <1>2, OtherBlock

(* No message in the ring is in the claimed block.                           *)
LEMMA ClaimedApart ==
  ASSUME QueueInv, Claimed, NEW n \in Nat, InRing(n)
  PROVE  current_idx(n) # widx
<1>1. n < sent /\ sent < n + max_chunks /\ sent \in Nat
  BY DEF InRing, QueueInv, QueueTypes
<1>2. QED
  BY <1>1, OtherBlock DEF widx

(* A reader behind the writer has its next message in the ring.              *)
LEMMA BehindInRing ==
  ASSUME QueueInv, NEW r \in Local, passed[r] < sent
  PROVE  passed[r] \in Nat /\ InRing(passed[r]) /\ Holds(passed[r])
<1>1. passed[r] \in Nat
  BY DEF QueueInv, QueueTypes
<1>2. InRing(passed[r])
  BY DEF QueueInv, RingInv, InStep, InRing
<1>3. QED
  BY <1>1, <1>2 DEF QueueInv, RingInv, RingHolds

(* As long as the writer has not claimed it, its next block has the message  *)
(* of a round ago.                                                           *)
LEMMA RoundAgo ==
  ASSUME QueueInv, ~Claimed, sent >= max_chunks
  PROVE  /\ written[widx] = 1
         /\ \A r \in Local : read[widx][r] = 1 <=> sent < passed[r] + max_chunks
         /\ \A r \in Local : read[widx][r] = 0 <=> ~(sent < passed[r] + max_chunks)
<1> DEFINE n == sent - max_chunks
<1>1. sent \in Nat /\ n \in Nat /\ n + max_chunks = sent /\ passed \in [Local -> Nat]
  BY Constants DEF QueueInv, QueueTypes
<1>2. InRing(n)
  BY <1>1, Constants DEF InRing
<1>3. current_idx(n) = widx
  BY <1>1, NextRound DEF widx
<1>4. Holds(n)
  BY <1>1, <1>2 DEF QueueInv, RingInv, RingHolds
<1>5. /\ written[widx] = 1
      /\ \A r \in Local : read[widx][r] = (IF passed[r] > n THEN 1 ELSE 0)
  BY <1>3, <1>4 DEF Holds
<1>6. \A r \in Local : passed[r] > n <=> sent < passed[r] + max_chunks
  BY <1>1, Constants
<1>7. QED
  BY <1>5, <1>6

(* From the moment a reader finds its block readable until it has marked it  *)
(* read, the block holds that reader's next message.                         *)
LEMMA IntactFollows == QueueInv => BlockIntact
<1> SUFFICES ASSUME QueueInv, NEW r \in Local, reader[r].pc \in {"load", "mark"}
             PROVE  /\ written[ridx(r)] = 1
                    /\ data[ridx(r)].msg = passed[r] + 1
                    /\ reader[r].pc = "mark" => reader[r].buf = data[ridx(r)]
  BY DEF BlockIntact
<1>1. passed[r] < sent /\ (reader[r].pc = "mark" => reader[r].buf = data[ridx(r)])
  BY DEF QueueInv, RingInv, ReaderRight, ReaderOk
<1>2. QED
  BY <1>1, BehindInRing DEF Holds, ridx

-----------------------------------------------------------------------------
(* Steps that leave the blocks alone.                                        *)

LEMMA RingKept ==
  ASSUME QueueInv, UNCHANGED <<written, read, data, sent, passed>>, Claimed' <=> Claimed
  PROVE  RingHolds' /\ InStep' /\ NotYetWritten'
<1>1. \A n \in Nat : (InRing(n)' <=> InRing(n)) /\ (Holds(n)' <=> Holds(n))
  BY DEF InRing, Holds
<1>2. QED
  BY <1>1 DEF QueueInv, RingInv, RingHolds, InStep, NotYetWritten

LEMMA ReadersKept ==
  ASSUME QueueInv, UNCHANGED <<written, data, sent, passed, reader>>
  PROVE  ReaderRight'
BY DEF QueueInv, RingInv, ReaderRight, ReaderOk, ridx

(* A step of the writer outside the blocks.                                  *)
LEMMA WriterRests ==
  ASSUME QueueInv, UNCHANGED <<written, read, data, sent, passed, reader>>,
         ~Claimed, ~Claimed', writer'.pc # "sum"
  PROVE  RingInv'
<1>1. SumRight' /\ FillRight'
  BY DEF SumRight, FillRight, Claimed
<1>2. QED
  BY <1>1, RingKept, ReadersKept DEF RingInv

(* A step of reader r that does not mark a block.                            *)
LEMMA ReaderMoves ==
  ASSUME QueueInv, UNCHANGED <<written, read, data, sent, passed, writer>>,
         NEW r, \A q \in Local \ {r} : reader'[q] = reader[q],
         r \in Local => ReaderOk(r)'
  PROVE  RingInv'
<1>1. Claimed' <=> Claimed
  BY DEF Claimed
<1>2. SumRight' /\ FillRight'
  BY <1>1 DEF QueueInv, RingInv, SumRight, FillRight, widx
<1>3. ASSUME NEW q \in Local \ {r} PROVE ReaderOk(q)'
  BY <1>3 DEF QueueInv, RingInv, ReaderRight, ReaderOk, ridx
<1>4. ReaderRight'
  BY <1>3 DEF ReaderRight
<1>5. QED
  BY <1>1, <1>2, <1>4, RingKept DEF RingInv

-----------------------------------------------------------------------------
(* Types.                                                                    *)

LEMMA InitialTypes == Init => QueueTypes
<1> SUFFICES ASSUME Init PROVE QueueTypes
  OBVIOUS
<1>1. Torn \in Content
  BY DEF Torn, Content
<1>2. writer \in WriterState
  BY DEF Init, WriterState, WriterPc
<1>3. [pc |-> "connect", read_flag |-> 0, buf |-> Torn] \in ReaderState
  BY <1>1 DEF ReaderState, ReaderPc, Flag
<1>4. QED
  BY <1>1, <1>2, <1>3 DEF Init, QueueTypes, Flag

LEMMA WriterMoves ==
  ASSUME QueueTypes, NEW pc \in WriterPc, writer' = [writer EXCEPT !.pc = pc]
  PROVE  /\ writer' \in WriterState /\ writer'.pc = pc /\ writer'.i = writer.i
         /\ writer'.overflow = writer.overflow
BY Zenon DEF QueueTypes, WriterState

LEMMA AfterLocalType ==
  ASSUME NEW pc \in WriterPc
  PROVE  AfterLocal(pc) \in WriterPc /\ AfterLocal(pc) \in {"idle", pc}
BY DEF AfterLocal, WriterPc

LEMMA ReaderPcMoves ==
  ASSUME QueueTypes, NEW r \in Readers, NEW pc \in ReaderPc,
         reader' = [reader EXCEPT ![r].pc = pc]
  PROVE  /\ reader' \in [Readers -> ReaderState]
         /\ reader'[r].pc = pc /\ reader'[r].read_flag = reader[r].read_flag
         /\ reader'[r].buf = reader[r].buf
         /\ \A q \in Readers \ {r} : reader'[q] = reader[q]
BY Zenon DEF QueueTypes, ReaderState

LEMMA SentType ==
  ASSUME QueueTypes, NEW S, NEW m \in Nat, SendTo(S, m)
  PROVE  sock' \in [Readers -> Seq(Nat)]
<1>1. \A r \in Readers : sock[r] \in Seq(Nat) /\ Append(sock[r], m) \in Seq(Nat)
  BY DEF QueueTypes
<1>2. QED
  BY <1>1 DEF SendTo

LEMMA TakenType ==
  ASSUME QueueTypes, NEW r \in Readers, sock[r] # <<>>
  PROVE  /\ sock[r] \in Seq(Nat) /\ Tail(sock[r]) \in Seq(Nat) /\ Head(sock[r]) \in Nat
         /\ [sock EXCEPT ![r] = Tail(sock[r])] \in [Readers -> Seq(Nat)]
<1>1. sock[r] \in Seq(Nat) /\ sock \in [Readers -> Seq(Nat)]
  BY DEF QueueTypes
<1>2. Tail(sock[r]) \in Seq(Nat) /\ Head(sock[r]) \in Nat
  BY <1>1
<1>3. QED
  BY <1>1, <1>2

LEMMA GotType ==
  ASSUME QueueTypes, NEW r \in Readers, NEW m \in Nat
  PROVE  [got EXCEPT ![r] = Append(got[r], m)] \in [Readers -> Seq(Nat)]
<1>1. got[r] \in Seq(Nat) /\ got \in [Readers -> Seq(Nat)]
  BY DEF QueueTypes
<1>2. Append(got[r], m) \in Seq(Nat)
  BY <1>1
<1>3. QED
  BY <1>1, <1>2

LEMMA IndexTypes ==
  ASSUME QueueTypes
  PROVE  widx \in Block /\ \A r \in Local : ridx(r) \in Block /\ passed[r] \in Nat
BY IndexInRing DEF QueueTypes, widx, ridx

-----------------------------------------------------------------------------
(* Joining, and the sockets: the ring is left alone.                         *)

LEMMA RingConnect ==
  ASSUME QueueInv, NEW r \in Readers, Connect(r)
  PROVE  QueueInv'
<1>1. /\ reader' = [reader EXCEPT ![r].pc = "ready"]
      /\ subscribed' = subscribed \cup {r}
      /\ UNCHANGED <<written, read, data, sock, writer, sent, passed, got>>
  BY DEF Connect, shared
<1>2. /\ reader' \in [Readers -> ReaderState] /\ reader'[r].pc = "ready"
      /\ \A q \in Readers \ {r} : reader'[q] = reader[q]
  BY <1>1, ReaderPcMoves, Zenon DEF ReaderPc, QueueInv
<1>3. QueueTypes'
  BY <1>1, <1>2 DEF QueueInv, QueueTypes
<1>4. RingInv'
  BY <1>1, <1>2, ReaderMoves, Constants DEF ReaderOk
<1>5. QED
  BY <1>3, <1>4 DEF QueueInv

LEMMA RingSend ==
  ASSUME QueueInv, NEW S, NEW m \in Nat, SendTo(S, m),
         UNCHANGED <<shared, subscribed, reader, sent, passed, got>>,
         NEW pc \in {"idle", "wait_remote", "remote"},
         writer' = [writer EXCEPT !.pc = pc],
         writer.pc \in {"wait", "wait_remote", "send", "remote"}
  PROVE  QueueInv'
<1>1. writer' \in WriterState /\ writer'.pc = pc
  BY WriterMoves DEF WriterPc, QueueInv
<1>2. QueueTypes'
  BY <1>1, SentType DEF QueueInv, QueueTypes, shared
<1>3. RingInv'
  BY <1>1, WriterRests DEF Claimed, shared
<1>4. QED
  BY <1>2, <1>3 DEF QueueInv

LEMMA RingSends ==
  ASSUME QueueInv, WriterReady \/ WriterReadyRemote \/ SendLocal \/ SendRemote
  PROVE  QueueInv'
<1>1. /\ AfterLocal("wait_remote") \in {"idle", "wait_remote"}
      /\ AfterLocal("remote") \in {"idle", "remote"}
  BY AfterLocalType DEF WriterPc
<1>2. READY \in Nat /\ sent \in Nat
  BY DEF READY, QueueInv, QueueTypes
<1>3. CASE WriterReady
  BY <1>1, <1>2, <1>3, RingSend DEF WriterReady
<1>4. CASE WriterReadyRemote
  BY <1>2, <1>4, RingSend DEF WriterReadyRemote
<1>5. CASE SendLocal
  BY <1>1, <1>2, <1>5, RingSend DEF SendLocal
<1>6. CASE SendRemote
  BY <1>2, <1>6, RingSend DEF SendRemote
<1>7. QED
  BY <1>3, <1>4, <1>5, <1>6

LEMMA RingReaderTakes ==
  ASSUME QueueInv, NEW r \in Readers, ReaderReady(r) \/ Recv(r) \/ RecvTimesOut(r)
  PROVE  QueueInv'
<1>1. UNCHANGED <<written, read, data, subscribed, writer, sent, passed>>
  BY DEF ReaderReady, Recv, RecvTimesOut, shared
<1>2. PICK pc \in {"flag", "recv"} : reader' = [reader EXCEPT ![r].pc = pc]
  BY DEF ReaderReady, Recv, RecvTimesOut
<1>3. /\ reader' \in [Readers -> ReaderState] /\ reader'[r].pc = pc
      /\ \A q \in Readers \ {r} : reader'[q] = reader[q]
  BY <1>2, ReaderPcMoves, Zenon DEF ReaderPc, QueueInv
<1>4. sock' \in [Readers -> Seq(Nat)] /\ got' \in [Readers -> Seq(Nat)]
  <2>1. QueueTypes
    BY DEF QueueInv
  <2>2. CASE ReaderReady(r)
    BY <2>1, <2>2, TakenType DEF ReaderReady, QueueTypes
  <2>3. CASE RecvTimesOut(r)
    BY <2>1, <2>3 DEF RecvTimesOut, QueueTypes
  <2>4. CASE Recv(r)
    <3>1. /\ sock[r] # <<>> /\ sock' = [sock EXCEPT ![r] = Tail(sock[r])]
          /\ got' = [got EXCEPT ![r] = Append(got[r], Head(sock[r]))]
      BY <2>4 DEF Recv
    <3>2. /\ Head(sock[r]) \in Nat
          /\ [sock EXCEPT ![r] = Tail(sock[r])] \in [Readers -> Seq(Nat)]
      BY <2>1, <3>1, TakenType
    <3>3. [got EXCEPT ![r] = Append(got[r], Head(sock[r]))] \in [Readers -> Seq(Nat)]
      BY <2>1, <3>2, GotType, Zenon
    <3>4. QED
      BY <3>1, <3>2, <3>3, Zenon
  <2>5. QED
    BY <2>2, <2>3, <2>4
<1>5. QueueTypes'
  BY <1>1, <1>3, <1>4 DEF QueueInv, QueueTypes
<1>6. RingInv'
  BY <1>1, <1>3, ReaderMoves, Constants DEF ReaderOk
<1>7. QED
  BY <1>5, <1>6 DEF QueueInv

-----------------------------------------------------------------------------
(* The writer looks for a free block.                                        *)

LEMMA RingEnqueue ==
  ASSUME QueueInv, NEW overflow \in BOOLEAN, Enqueue(overflow)
  PROVE  QueueInv'
<1>1. /\ writer.pc = "idle"
      /\ writer' = [pc |-> "sum", i |-> 1, read_count |-> 0, overflow |-> overflow]
      /\ UNCHANGED <<written, read, data, subscribed, sock, reader, sent, passed, got>>
  BY DEF Enqueue, shared
<1>2. writer' \in WriterState /\ writer'.pc = "sum" /\ writer'.i = 1 /\ writer'.read_count = 0
  BY <1>1 DEF WriterState, WriterPc
<1>3. QueueTypes'
  BY <1>1, <1>2 DEF QueueInv, QueueTypes
<1>4. SumRight' /\ FillRight' /\ ~Claimed /\ ~Claimed'
  BY <1>1, <1>2, Constants DEF SumRight, FillRight, Claimed, Local
<1>5. QED
  BY <1>1, <1>3, <1>4, RingKept, ReadersKept DEF QueueInv, RingInv

LEMMA RingSumFlag ==
  ASSUME QueueInv, SumFlag
  PROVE  QueueInv'
<1> DEFINE f == read[widx][writer.i]
<1>1. /\ writer.pc = "sum" /\ writer.i <= n_reader
      /\ writer' = [writer EXCEPT !.read_count = writer.read_count + f, !.i = writer.i + 1]
      /\ UNCHANGED <<written, read, data, subscribed, sock, reader, sent, passed, got>>
  BY DEF SumFlag, shared
<1>2. /\ writer \in WriterState /\ writer.i \in Local /\ writer.read_count \in Nat
      /\ writer.read_count < writer.i /\ writer.i \in Nat
  BY <1>1 DEF QueueInv, QueueTypes, RingInv, SumRight, Local, WriterState
<1>3. f \in {0, 1}
  <2>1. widx \in Block /\ read \in [Block -> [Local -> Flag]]
    BY IndexTypes DEF QueueInv, QueueTypes
  <2>2. QED
    BY <1>2, <2>1 DEF Flag
<1> HIDE DEF f
<1>4. /\ writer' \in WriterState /\ writer'.pc = "sum" /\ writer'.i = writer.i + 1
      /\ writer'.read_count = writer.read_count + f
  <2>1. writer.read_count + f \in Nat /\ writer.i + 1 \in Nat
    BY <1>2, <1>3
  <2>2. QED
    BY <1>1, <1>2, <2>1, Zenon DEF WriterState
<1>5. QueueTypes'
  BY <1>1, <1>4 DEF QueueInv, QueueTypes
<1>6. ASSUME writer'.read_count + 1 = writer'.i, sent >= max_chunks, NEW r \in Local,
             r < writer'.i
      PROVE  sent < passed[r] + max_chunks
  <2>1. f = 1 /\ writer.read_count + 1 = writer.i
    BY <1>2, <1>3, <1>4, <1>6
  <2>2. CASE r < writer.i
    BY <1>1, <1>6, <2>1, <2>2 DEF QueueInv, RingInv, SumRight
  <2>3. CASE r = writer.i
    <3>1. ~Claimed
      BY <1>1 DEF Claimed
    <3>2. QED
      BY <1>6, <2>1, <2>3, <3>1, RoundAgo DEF f
  <2>4. QED
    BY <1>2, <1>4, <1>6, <2>2, <2>3, Constants
<1>7. writer'.i \in 1 .. n_reader + 1 /\ writer'.read_count < writer'.i
  BY <1>1, <1>2, <1>3, <1>4, Constants
<1>8. SumRight'
  BY <1>1, <1>6, <1>7 DEF SumRight
<1>9. FillRight' /\ ~Claimed /\ ~Claimed'
  BY <1>1, <1>4 DEF FillRight, Claimed
<1>10. QED
  BY <1>1, <1>5, <1>8, <1>9, RingKept, ReadersKept DEF QueueInv, RingInv

LEMMA RingWriterSpins ==
  ASSUME QueueInv, WriterSpins
  PROVE  QueueInv'
<1>1. /\ writer.pc = "sum" /\ writer' = [writer EXCEPT !.read_count = 0, !.i = 1]
      /\ UNCHANGED <<written, read, data, subscribed, sock, reader, sent, passed, got>>
  BY DEF WriterSpins, shared
<1>2. writer' \in WriterState /\ writer'.pc = "sum" /\ writer'.i = 1 /\ writer'.read_count = 0
  BY <1>1, Zenon DEF QueueInv, QueueTypes, WriterState
<1>3. QueueTypes'
  BY <1>1, <1>2 DEF QueueInv, QueueTypes
<1>4. SumRight' /\ FillRight' /\ ~Claimed /\ ~Claimed'
  BY <1>1, <1>2, Constants DEF SumRight, FillRight, Claimed, Local
<1>5. QED
  BY <1>1, <1>3, <1>4, RingKept, ReadersKept DEF QueueInv, RingInv

LEMMA RingWriterTimesOut ==
  ASSUME QueueInv, WriterTimesOut
  PROVE  QueueInv'
<1>1. /\ writer.pc = "sum" /\ writer' = [writer EXCEPT !.pc = "idle"]
      /\ UNCHANGED <<written, read, data, subscribed, sock, reader, sent, passed, got>>
  BY DEF WriterTimesOut, shared
<1>2. writer' \in WriterState /\ writer'.pc = "idle"
  BY <1>1, WriterMoves DEF QueueInv, WriterPc
<1>3. QueueTypes'
  BY <1>1, <1>2 DEF QueueInv, QueueTypes
<1>4. RingInv'
  BY <1>1, <1>2, WriterRests DEF Claimed
<1>5. QED
  BY <1>3, <1>4 DEF QueueInv

(* The writer claims a block only when every reader has passed the message   *)
(* in it.                                                                    *)
LEMMA ClaimFree ==
  ASSUME QueueInv, Claim, NEW r \in Local
  PROVE  sent < passed[r] + max_chunks
<1>1. writer.pc = "sum" /\ writer.i > n_reader /\ ~Unread
  BY DEF Claim
<1>2. passed[r] \in Nat /\ sent \in Nat /\ writer.i \in Nat /\ writer.read_count \in Nat
  BY DEF QueueInv, QueueTypes, WriterState
<1>3. CASE sent < max_chunks
  BY <1>2, <1>3, Constants
<1>4. CASE ~(sent < max_chunks)
  <2>1. sent >= max_chunks /\ ~Claimed
    BY <1>1, <1>2, <1>4, Constants DEF Claimed
  <2>2. writer.read_count = n_reader
    BY <1>1, <2>1, RoundAgo DEF Unread
  <2>3. writer.read_count + 1 = writer.i /\ r < writer.i
    BY <1>1, <1>2, <2>2, Constants DEF QueueInv, RingInv, SumRight, Local
  <2>4. QED
    BY <1>1, <2>1, <2>3 DEF QueueInv, RingInv, SumRight
<1>5. QED
  BY <1>3, <1>4

LEMMA RingClaim ==
  ASSUME QueueInv, Claim
  PROVE  QueueInv'
<1>1. /\ writer.pc = "sum" /\ written' = [written EXCEPT ![widx] = 0]
      /\ writer' = [writer EXCEPT !.pc = "write"]
      /\ UNCHANGED <<read, data, subscribed, sock, reader, sent, passed, got>>
  BY DEF Claim
<1>2. writer' \in WriterState /\ writer'.pc = "write"
  BY <1>1, WriterMoves DEF QueueInv, WriterPc
<1>3. widx \in Block /\ written \in [Block -> Flag] /\ sent \in Nat
  BY IndexTypes DEF QueueInv, QueueTypes
<1>4. written' \in [Block -> Flag]
  BY <1>1, <1>3 DEF Flag
<1>5. QueueTypes'
  BY <1>1, <1>2, <1>4 DEF QueueInv, QueueTypes
<1>6. Claimed' /\ ~Claimed /\ widx' = widx
  BY <1>1, <1>2 DEF Claimed, widx
<1>7. ASSUME NEW n \in Nat, InRing(n)' PROVE Holds(n)'
  <2>1. n < sent /\ sent < n + max_chunks
    BY <1>1, <1>6, <1>7 DEF InRing
  <2>2. InRing(n) /\ current_idx(n) # widx /\ current_idx(n) \in Block
    BY <1>3, <1>6, <2>1, OtherBlock, IndexInRing, Constants DEF InRing, widx
  <2>3. Holds(n)
    BY <2>2 DEF QueueInv, RingInv, RingHolds
  <2>4. written'[current_idx(n)] = written[current_idx(n)]
    BY <1>1, <1>3, <2>2
  <2>5. QED
    BY <1>1, <2>3, <2>4 DEF Holds
<1>8. RingHolds'
  BY <1>7 DEF RingHolds
<1>9. InStep'
  BY <1>1, ClaimFree DEF QueueInv, RingInv, InStep
<1>10. \A b \in Block : written[b] = 0 => written'[b] = 0
  BY <1>1, <1>3
<1>11. NotYetWritten' /\ SumRight'
  BY <1>1, <1>2, <1>10 DEF QueueInv, RingInv, NotYetWritten, SumRight
<1>12. written'[widx] = 0
  BY <1>1, <1>3
<1>13. FillRight'
  BY <1>2, <1>6, <1>12 DEF FillRight
<1>14. ReaderRight'
  BY <1>1, <1>10, IndexTypes DEF QueueInv, RingInv, ReaderRight, ReaderOk, ridx
<1>15. QED
  BY <1>5, <1>8, <1>9, <1>11, <1>13, <1>14 DEF QueueInv, RingInv

-----------------------------------------------------------------------------
(* The writer fills the block it has claimed.                                *)

LEMMA StaysInRing ==
  ASSUME QueueInv, Claimed, Claimed', UNCHANGED sent, NEW n \in Nat, InRing(n)'
  PROVE  InRing(n) /\ Holds(n) /\ current_idx(n) # widx /\ current_idx(n) \in Block
<1>1. InRing(n)
  BY DEF InRing
<1>2. Holds(n)
  BY <1>1 DEF QueueInv, RingInv, RingHolds
<1>3. QED
  BY <1>1, <1>2, ClaimedApart, IndexInRing

LEMMA RingFill ==
  ASSUME QueueInv, Claimed, Claimed', NEW c, data' = [data EXCEPT ![widx] = c],
         UNCHANGED <<written, read, reader, sent, passed>>
  PROVE  RingHolds' /\ InStep' /\ NotYetWritten' /\ ReaderRight'
<1>1. widx \in Block /\ data \in [Block -> Content]
  BY IndexTypes DEF QueueInv, QueueTypes
<1>2. ASSUME NEW n \in Nat, InRing(n)' PROVE Holds(n)'
  <2>1. Holds(n) /\ current_idx(n) # widx /\ current_idx(n) \in Block
    BY <1>2, StaysInRing
  <2>2. data'[current_idx(n)] = data[current_idx(n)]
    BY <1>1, <2>1
  <2>3. QED
    BY <2>1, <2>2 DEF Holds
<1>3. RingHolds'
  BY <1>2 DEF RingHolds
<1>4. InStep' /\ NotYetWritten'
  BY DEF QueueInv, RingInv, InStep, NotYetWritten
<1>5. ASSUME NEW r \in Local PROVE ReaderOk(r)'
  <2>1. ReaderOk(r) /\ ridx(r)' = ridx(r)
    BY DEF QueueInv, RingInv, ReaderRight, ridx
  <2>2. ASSUME reader[r].pc = "mark" PROVE data'[ridx(r)] = data[ridx(r)]
    <3>1. passed[r] < sent
      BY <2>1, <2>2 DEF ReaderOk
    <3>2. ridx(r) # widx /\ ridx(r) \in Block
      BY <3>1, BehindInRing, ClaimedApart, IndexInRing DEF ridx
    <3>3. QED
      BY <1>1, <3>2
  <2>3. QED
    BY <2>1, <2>2 DEF ReaderOk
<1>6. QED
  BY <1>3, <1>4, <1>5 DEF ReaderRight

LEMMA RingBeginWrite ==
  ASSUME QueueInv, BeginWrite
  PROVE  QueueInv'
<1>1. /\ writer.pc = "write" /\ data' = [data EXCEPT ![widx] = Torn]
      /\ writer' = [writer EXCEPT !.pc = "writing"]
      /\ UNCHANGED <<written, read, subscribed, sock, reader, sent, passed, got>>
  BY DEF BeginWrite
<1>2. writer' \in WriterState /\ writer'.pc = "writing"
  BY <1>1, WriterMoves DEF QueueInv, WriterPc
<1>3. data' \in [Block -> Content]
  BY <1>1, Zenon DEF QueueInv, QueueTypes, Torn, Content
<1>4. QueueTypes'
  BY <1>1, <1>2, <1>3 DEF QueueInv, QueueTypes
<1>5. Claimed /\ Claimed' /\ widx' = widx
  BY <1>1, <1>2 DEF Claimed, widx
<1>6. SumRight' /\ FillRight'
  BY <1>1, <1>2, <1>5 DEF QueueInv, RingInv, SumRight, FillRight
<1>7. QED
  BY <1>1, <1>4, <1>5, <1>6, RingFill, Zenon DEF QueueInv, RingInv

LEMMA RingEndWrite ==
  ASSUME QueueInv, EndWrite
  PROVE  QueueInv'
<1> DEFINE c == [overflow |-> writer.overflow, msg |-> sent + 1]
<1>1. /\ writer.pc = "writing" /\ data' = [data EXCEPT ![widx] = c]
      /\ writer' = [writer EXCEPT !.pc = "reset", !.i = 1]
      /\ UNCHANGED <<written, read, subscribed, sock, reader, sent, passed, got>>
  BY DEF EndWrite
<1>2. /\ writer' \in WriterState /\ writer'.pc = "reset" /\ writer'.i = 1
      /\ writer'.overflow = writer.overflow
  BY <1>1, Zenon DEF QueueInv, QueueTypes, WriterState, WriterPc
<1>3. c \in Content /\ c = [overflow |-> writer'.overflow, msg |-> sent' + 1]
  BY <1>1, <1>2 DEF QueueInv, QueueTypes, WriterState, Content
<1> HIDE DEF c
<1>4. widx \in Block /\ data \in [Block -> Content]
  BY IndexTypes DEF QueueInv, QueueTypes
<1>5. data' \in [Block -> Content] /\ data'[widx] = c
  BY <1>1, <1>3, <1>4
<1>6. QueueTypes'
  BY <1>1, <1>2, <1>5 DEF QueueInv, QueueTypes
<1>7. Claimed /\ Claimed' /\ widx' = widx
  BY <1>1, <1>2 DEF Claimed, widx
<1>8. 1 \in 1 .. n_reader + 1 /\ \A r \in Local : ~(r < 1)
  BY Constants DEF Local
<1>9. SumRight' /\ FillRight'
  BY <1>1, <1>2, <1>3, <1>5, <1>7, <1>8 DEF QueueInv, RingInv, SumRight, FillRight
<1>10. QED
  BY <1>1, <1>6, <1>7, <1>9, RingFill, Zenon DEF QueueInv, RingInv

LEMMA RingResetFlag ==
  ASSUME QueueInv, ResetFlag
  PROVE  QueueInv'
<1> DEFINE i == writer.i
           flags == [read[widx] EXCEPT ![i] = 0]
<1>1. /\ writer.pc = "reset" /\ i <= n_reader
      /\ read' = [read EXCEPT ![widx] = flags]
      /\ writer' = [writer EXCEPT !.i = i + 1]
      /\ UNCHANGED <<written, data, subscribed, sock, reader, sent, passed, got>>
  BY DEF ResetFlag
<1>2. i \in Nat /\ i \in Local
  BY <1>1 DEF QueueInv, QueueTypes, RingInv, FillRight, Local, WriterState
<1>3. /\ writer' \in WriterState /\ writer'.pc = "reset" /\ writer'.i = i + 1
      /\ writer'.overflow = writer.overflow
  <2>1. i + 1 \in Nat /\ writer \in WriterState
    BY <1>2 DEF QueueInv, QueueTypes
  <2>2. QED
    BY <1>1, <2>1 DEF WriterState
<1>4. widx \in Block /\ read \in [Block -> [Local -> Flag]]
  BY IndexTypes DEF QueueInv, QueueTypes
<1>5. /\ flags \in [Local -> Flag] /\ flags[i] = 0
      /\ \A r \in Local : r # i => flags[r] = read[widx][r]
  BY <1>2, <1>4 DEF Flag
<1> HIDE DEF flags
<1>6. /\ read' \in [Block -> [Local -> Flag]] /\ read'[widx] = flags
      /\ \A b \in Block : b # widx => read'[b] = read[b]
  BY <1>1, <1>4, <1>5
<1>7. QueueTypes'
  BY <1>1, <1>3, <1>6 DEF QueueInv, QueueTypes
<1>8. Claimed /\ Claimed' /\ widx' = widx
  BY <1>1, <1>3 DEF Claimed, widx
<1>9. ASSUME NEW n \in Nat, InRing(n)' PROVE Holds(n)'
  BY <1>1, <1>6, <1>8, <1>9, StaysInRing DEF Holds
<1>10. RingHolds'
  BY <1>9 DEF RingHolds
<1>11. InStep' /\ NotYetWritten' /\ SumRight'
  BY <1>1, <1>3, <1>8 DEF QueueInv, RingInv, InStep, NotYetWritten, SumRight
<1>12. ASSUME NEW r \in Local, r < i + 1 PROVE read'[widx][r] = 0
  <2>1. CASE r = i
    BY <1>5, <1>6, <2>1
  <2>2. CASE r # i
    <3>1. r < i
      BY <1>2, <1>12, <2>2, Constants
    <3>2. read[widx][r] = 0
      BY <1>1, <3>1 DEF QueueInv, RingInv, FillRight
    <3>3. QED
      BY <1>5, <1>6, <2>2, <3>2
  <2>3. QED
    BY <2>1, <2>2
<1>13. i + 1 \in 1 .. n_reader + 1
  BY <1>1, <1>2, Constants
<1>14. FillRight'
  <2>1. /\ written[widx] = 0
        /\ data[widx] = [overflow |-> writer.overflow, msg |-> sent + 1]
    BY <1>1, <1>8 DEF QueueInv, RingInv, FillRight
  <2>2. /\ written'[widx'] = 0 /\ writer'.i \in 1 .. n_reader + 1
        /\ data'[widx'] = [overflow |-> writer'.overflow, msg |-> sent' + 1]
    BY <1>1, <1>3, <1>8, <1>13, <2>1
  <2>3. \A r \in Local : r < writer'.i => read'[widx'][r] = 0
    BY <1>3, <1>8, <1>12
  <2>4. QED
    BY <2>2, <2>3 DEF FillRight
<1>15. QED
  BY <1>1, <1>7, <1>10, <1>11, <1>14, ReadersKept DEF QueueInv, RingInv

LEMMA RingPublish ==
  ASSUME QueueInv, Publish
  PROVE  QueueInv'
<1>1. /\ writer.pc = "reset" /\ writer.i > n_reader
      /\ written' = [written EXCEPT ![widx] = 1] /\ sent' = sent + 1
      /\ writer' = [writer EXCEPT
                      !.pc = IF writer.overflow THEN "send" ELSE AfterLocal("remote")]
      /\ UNCHANGED <<read, data, subscribed, sock, reader, passed, got>>
  BY DEF Publish
<1>2. PICK pc \in {"send", "remote", "idle"} : writer' = [writer EXCEPT !.pc = pc]
  BY <1>1, AfterLocalType DEF WriterPc
<1>3. writer' \in WriterState /\ writer'.pc = pc
  BY <1>2, WriterMoves DEF QueueInv, WriterPc
<1>4. /\ widx \in Block /\ written \in [Block -> Flag] /\ sent \in Nat
      /\ passed \in [Local -> Nat]
  BY IndexTypes DEF QueueInv, QueueTypes
<1>5. /\ written' \in [Block -> Flag] /\ written'[widx] = 1
      /\ \A b \in Block : b # widx => written'[b] = written[b]
  BY <1>1, <1>4 DEF Flag
<1>6. QueueTypes'
  BY <1>1, <1>3, <1>4, <1>5 DEF QueueInv, QueueTypes
<1>7. Claimed /\ ~Claimed'
  BY <1>1, <1>3 DEF Claimed
<1>8. /\ \A r \in Local : passed[r] <= sent /\ sent < passed[r] + max_chunks
      /\ data[widx] = [overflow |-> writer.overflow, msg |-> sent + 1]
      /\ \A r \in Local : r < writer.i => read[widx][r] = 0
  BY <1>1, <1>7 DEF QueueInv, RingInv, InStep, FillRight
<1>9. \A r \in Local : read[widx][r] = 0
  <2>1. \A r \in Local : r < writer.i
    BY <1>1, QueueAssumption DEF Local, QueueInv, QueueTypes, WriterState
  <2>2. QED
    BY <1>8, <2>1
<1>10. ASSUME NEW n \in Nat, InRing(n)' PROVE Holds(n)'
  <2>1. n < sent + 1 /\ sent + 1 <= n + max_chunks
    BY <1>1, <1>10 DEF InRing
  <2>2. CASE n = sent
    <3>1. current_idx(n) = widx
      BY <2>2 DEF widx
    <3>2. \A r \in Local : ~(passed[r] > n)
      BY <1>4, <1>8, <2>2
    <3>3. data[widx].msg = n + 1
      BY <1>8, <2>2
    <3>4. QED
      BY <1>1, <1>5, <1>9, <3>1, <3>2, <3>3 DEF Holds
  <2>3. CASE n # sent
    <3>1. InRing(n)
      BY <1>4, <2>1, <2>3, Constants DEF InRing
    <3>2. Holds(n) /\ current_idx(n) # widx /\ current_idx(n) \in Block
      BY <1>7, <3>1, ClaimedApart, IndexInRing DEF QueueInv, RingInv, RingHolds
    <3>3. QED
      BY <1>1, <1>5, <3>2 DEF Holds
  <2>4. QED
    BY <2>2, <2>3
<1>11. RingHolds'
  BY <1>10 DEF RingHolds
<1>12. InStep'
  BY <1>1, <1>4, <1>7, <1>8, Constants DEF InStep
<1>13. ASSUME NEW b \in Block, sent + 1 <= b PROVE written'[b] = 0
  <2>1. sent \in Block /\ sent # b /\ sent <= b
    BY <1>4, <1>13, Constants DEF Block
  <2>2. widx # b
    BY <2>1, IndexOfBlock DEF widx
  <2>3. written[b] = 0
    BY <2>1 DEF QueueInv, RingInv, NotYetWritten
  <2>4. QED
    BY <1>5, <2>2, <2>3
<1>14. NotYetWritten'
  BY <1>1, <1>13 DEF NotYetWritten
<1>15. SumRight' /\ FillRight'
  BY <1>3, <1>7 DEF SumRight, FillRight
<1>16. ASSUME NEW r \in Local PROVE ReaderOk(r)'
  <2>1. ReaderOk(r) /\ ridx(r)' = ridx(r)
    BY <1>1 DEF QueueInv, RingInv, ReaderRight, ridx
  <2>2. passed[r] # sent + 1 /\ (passed[r] < sent => passed[r] < sent + 1)
    BY <1>4, <1>8
  <2>3. QED
    BY <1>1, <2>1, <2>2 DEF ReaderOk
<1>17. QED
  BY <1>6, <1>11, <1>12, <1>14, <1>15, <1>16 DEF QueueInv, RingInv, ReaderRight

-----------------------------------------------------------------------------
(* A reader looks for its block, loads and marks it.                         *)

LEMMA RingReadFlag ==
  ASSUME QueueInv, NEW r \in Local, ReadFlag(r)
  PROVE  QueueInv'
<1> DEFINE f == read[ridx(r)][r]
           s == [reader[r] EXCEPT !.read_flag = f, !.pc = "written"]
<1>1. /\ reader' = [reader EXCEPT ![r] = s]
      /\ UNCHANGED <<written, read, data, subscribed, sock, writer, sent, passed, got>>
  BY Zenon DEF ReadFlag, shared
<1>2. r \in Readers /\ reader \in [Readers -> ReaderState] /\ reader[r] \in ReaderState
  BY Constants DEF QueueInv, QueueTypes
<1>3. f \in Flag
  <2>1. ridx(r) \in Block /\ read \in [Block -> [Local -> Flag]]
    BY IndexTypes DEF QueueInv, QueueTypes
  <2>2. QED
    BY <2>1
<1> HIDE DEF f
<1>4. s \in ReaderState /\ s.pc = "written" /\ s.read_flag = f
  BY <1>2, <1>3, Zenon DEF ReaderState, ReaderPc
<1> HIDE DEF s
<1>5. /\ reader' \in [Readers -> ReaderState] /\ reader'[r] = s
      /\ \A q \in Readers \ {r} : reader'[q] = reader[q]
  BY <1>1, <1>2, <1>4
<1>6. QueueTypes'
  BY <1>1, <1>5 DEF QueueInv, QueueTypes
<1>7. ASSUME f = 0, passed[r] = sent PROVE written[ridx(r)] = 0
  <2>1. ridx(r) = widx /\ sent \in Nat
    BY <1>7 DEF ridx, widx, QueueInv, QueueTypes
  <2>2. CASE Claimed
    BY <2>1, <2>2 DEF QueueInv, RingInv, FillRight
  <2>3. CASE ~Claimed /\ sent >= max_chunks
    <3>1. ~(sent < passed[r] + max_chunks)
      BY <1>7, <2>1, <2>3, RoundAgo DEF f
    <3>2. QED
      BY <1>7, <2>1, <3>1, Constants
  <2>4. CASE ~(sent >= max_chunks)
    <3>1. sent \in Block
      BY <2>1, <2>4, Constants DEF Block
    <3>2. widx = sent
      BY <3>1, IndexOfBlock DEF widx
    <3>3. sent <= sent
      BY <2>1
    <3>4. QED
      BY <2>1, <3>1, <3>2, <3>3 DEF QueueInv, RingInv, NotYetWritten
  <2>5. QED
    BY <2>2, <2>3, <2>4
<1>8. ReaderOk(r)'
  <2>1. ridx(r)' = ridx(r)
    BY <1>1 DEF ridx
  <2>2. QED
    BY <1>1, <1>4, <1>5, <1>7, <2>1 DEF ReaderOk
<1>9. RingInv'
  BY <1>1, <1>5, <1>8, ReaderMoves, Constants
<1>10. QED
  BY <1>6, <1>9 DEF QueueInv

LEMMA RingLooks ==
  ASSUME QueueInv, NEW r \in Local, ReaderSpins(r) \/ ReadWritten(r)
  PROVE  QueueInv'
<1>1. PICK pc \in {"flag", "load"} :
        /\ reader' = [reader EXCEPT ![r].pc = pc]
        /\ pc = "load" => Readable(r) /\ reader[r].pc = "written"
  BY DEF ReaderSpins, ReadWritten
<1>2. UNCHANGED <<written, read, data, subscribed, sock, writer, sent, passed, got>>
  BY DEF ReaderSpins, ReadWritten, shared
<1>3. /\ reader' \in [Readers -> ReaderState] /\ reader'[r].pc = pc
      /\ \A q \in Readers \ {r} : reader'[q] = reader[q]
  BY <1>1, ReaderPcMoves, Constants, Zenon DEF ReaderPc, QueueInv
<1>4. QueueTypes'
  BY <1>2, <1>3 DEF QueueInv, QueueTypes
<1>5. pc = "load" => passed[r] # sent
  BY <1>1 DEF Readable, QueueInv, RingInv, ReaderRight, ReaderOk
<1>6. pc = "load" => passed[r] < sent
  BY <1>5 DEF QueueInv, QueueTypes, RingInv, InStep
<1>7. ReaderOk(r)'
  BY <1>2, <1>3, <1>6 DEF ReaderOk
<1>8. RingInv'
  BY <1>2, <1>3, <1>7, ReaderMoves, Constants
<1>9. QED
  BY <1>4, <1>8 DEF QueueInv

LEMMA RingLoad ==
  ASSUME QueueInv, NEW r \in Local, Load(r)
  PROVE  QueueInv'
<1> DEFINE d == data[ridx(r)]
           s == [reader[r] EXCEPT !.buf = d, !.pc = "mark"]
<1>1. /\ reader[r].pc = "load" /\ reader' = [reader EXCEPT ![r] = s]
      /\ UNCHANGED <<written, read, data, subscribed, sock, writer, sent, passed, got>>
  BY Zenon DEF Load, shared
<1>2. r \in Readers /\ reader \in [Readers -> ReaderState] /\ reader[r] \in ReaderState
  BY Constants DEF QueueInv, QueueTypes
<1>3. d \in Content
  BY IndexTypes DEF QueueInv, QueueTypes
<1> HIDE DEF d
<1>4. s \in ReaderState /\ s.pc = "mark" /\ s.buf = d
  BY <1>2, <1>3, Zenon DEF ReaderState, ReaderPc
<1> HIDE DEF s
<1>5. /\ reader' \in [Readers -> ReaderState] /\ reader'[r] = s
      /\ \A q \in Readers \ {r} : reader'[q] = reader[q]
  BY <1>1, <1>2, <1>4
<1>6. QueueTypes'
  BY <1>1, <1>5 DEF QueueInv, QueueTypes
<1>7. passed[r] < sent
  BY <1>1 DEF QueueInv, RingInv, ReaderRight, ReaderOk
<1>8. ReaderOk(r)'
  <2>1. data'[ridx(r)'] = d
    BY <1>1 DEF ridx, d
  <2>2. QED
    BY <1>1, <1>4, <1>5, <1>7, <2>1 DEF ReaderOk
<1>9. RingInv'
  BY <1>1, <1>5, <1>8, ReaderMoves, Constants
<1>10. QED
  BY <1>6, <1>9 DEF QueueInv

LEMMA RingMark ==
  ASSUME QueueInv, NEW r \in Local, Mark(r)
  PROVE  QueueInv'
<1> DEFINE p == passed[r]
           b == current_idx(p)
           flags == [read[b] EXCEPT ![r] = 1]
<1>1. /\ reader[r].pc = "mark" /\ read' = [read EXCEPT ![b] = flags]
      /\ passed' = [passed EXCEPT ![r] = p + 1]
      /\ UNCHANGED <<written, data, subscribed, sock, writer, sent>>
  BY DEF Mark, ridx
<1>2. p < sent
  BY <1>1 DEF QueueInv, RingInv, ReaderRight, ReaderOk
<1>3. /\ p \in Nat /\ InRing(p) /\ Holds(p) /\ b \in Block /\ r \in Readers /\ r \in Nat
      /\ read \in [Block -> [Local -> Flag]] /\ passed \in [Local -> Nat] /\ sent \in Nat
  <2>1. p \in Nat /\ InRing(p) /\ Holds(p)
    BY <1>2, BehindInRing, Zenon
  <2>2. b \in Block
    BY <2>1, IndexInRing, Zenon
  <2>3. QED
    BY <2>1, <2>2, Constants DEF QueueInv, QueueTypes
<1>4. /\ flags \in [Local -> Flag] /\ flags[r] = 1
      /\ \A q \in Local : q # r => flags[q] = read[b][q]
  BY <1>3 DEF Flag
<1> HIDE DEF flags
<1>5. /\ read' \in [Block -> [Local -> Flag]] /\ read'[b] = flags
      /\ \A c \in Block : c # b => read'[c] = read[c]
  BY <1>1, <1>3, <1>4
<1>6. /\ passed' \in [Local -> Nat] /\ passed'[r] = p + 1
      /\ \A q \in Local : q # r => passed'[q] = passed[q]
  BY <1>1, <1>3
<1>7. PICK pc \in {"recv", "flag"} : reader' = [reader EXCEPT ![r].pc = pc]
  BY DEF Mark
<1>8. /\ reader' \in [Readers -> ReaderState] /\ reader'[r].pc = pc
      /\ \A q \in Readers \ {r} : reader'[q] = reader[q]
  BY <1>3, <1>7, ReaderPcMoves, Zenon DEF ReaderPc, QueueInv
<1>9. got' \in [Readers -> Seq(Nat)]
  <2>1. reader[r].buf.msg \in Nat /\ QueueTypes
    <3>1. QueueTypes
      BY DEF QueueInv
    <3>2. reader[r] \in ReaderState
      BY <1>3, <3>1, Zenon DEF QueueTypes
    <3>3. QED
      BY <3>1, <3>2 DEF ReaderState, Content
  <2>2. \/ got' = got
        \/ got' = [got EXCEPT ![r] = Append(got[r], reader[r].buf.msg)]
    BY DEF Mark
  <2>3. got \in [Readers -> Seq(Nat)]
    BY <2>1 DEF QueueTypes
  <2>4. \A m \in Nat : [got EXCEPT ![r] = Append(got[r], m)] \in [Readers -> Seq(Nat)]
    BY <1>3, <2>1, GotType
  <2>5. QED
    BY <2>1, <2>2, <2>3, <2>4, Zenon
<1>10. QueueTypes'
  BY <1>1, <1>5, <1>6, <1>8, <1>9 DEF QueueInv, QueueTypes
<1>11. Claimed' <=> Claimed
  BY <1>1 DEF Claimed
<1>12. ASSUME NEW n \in Nat, InRing(n)' PROVE Holds(n)'
  <2>1. InRing(n)
    BY <1>1, <1>11, <1>12 DEF InRing
  <2>2. Holds(n)
    BY <2>1, Zenon DEF QueueInv, RingInv, RingHolds
  <2>3. CASE n = p
    <3>1. \A q \in Local : read'[b][q] = (IF passed'[q] > n THEN 1 ELSE 0)
      <4> SUFFICES ASSUME NEW q \in Local
                   PROVE  read'[b][q] = (IF passed'[q] > n THEN 1 ELSE 0)
        OBVIOUS
      <4>1. CASE q = r
        BY <1>3, <1>4, <1>5, <1>6, <2>3, <4>1
      <4>2. CASE q # r
        BY <1>4, <1>5, <1>6, <2>2, <2>3, <4>2 DEF Holds
      <4>3. QED
        BY <4>1, <4>2
    <3>2. QED
      BY <1>1, <2>2, <2>3, <3>1 DEF Holds
  <2>4. CASE n # p
    <3>1. current_idx(n) # b /\ current_idx(n) \in Block
      BY <1>3, <2>1, <2>4, InRingApart, IndexInRing
    <3>2. \A q \in Local : passed'[q] > n <=> passed[q] > n
      BY <1>3, <1>6, <2>4
    <3>3. QED
      BY <1>1, <1>5, <2>2, <3>1, <3>2 DEF Holds
  <2>5. QED
    BY <2>3, <2>4
<1>13. RingHolds'
  BY <1>12 DEF RingHolds
<1>14. \A q \in Local : passed[q] <= passed'[q] /\ passed'[q] <= sent
  BY <1>2, <1>3, <1>6 DEF QueueInv, RingInv, InStep
<1>15. \A q \in Local : /\ sent <= passed[q] + max_chunks => sent <= passed'[q] + max_chunks
                        /\ sent < passed[q] + max_chunks => sent < passed'[q] + max_chunks
  BY <1>3, <1>6, <1>14, Constants
<1>16. InStep'
  BY <1>1, <1>11, <1>14, <1>15 DEF QueueInv, RingInv, InStep
<1>17. NotYetWritten' /\ SumRight'
  BY <1>1, <1>15 DEF QueueInv, RingInv, NotYetWritten, SumRight
<1>18. widx' = widx /\ (Claimed => read'[widx] = read[widx])
  <2>1. widx' = widx /\ widx \in Block
    BY <1>1, IndexTypes DEF widx, QueueInv
  <2>2. Claimed => b # widx
    BY <1>3, ClaimedApart
  <2>3. QED
    BY <1>5, <2>1, <2>2
<1>19. FillRight'
  BY <1>1, <1>11, <1>18 DEF QueueInv, RingInv, FillRight, Claimed
<1>20. ASSUME NEW q \in Local PROVE ReaderOk(q)'
  <2>1. CASE q = r
    BY <1>8, <2>1, Zenon DEF ReaderOk
  <2>2. CASE q # r
    <3>1. ReaderOk(q) /\ reader'[q] = reader[q] /\ passed'[q] = passed[q]
      BY <1>6, <1>8, <2>2, Constants, Zenon DEF QueueInv, RingInv, ReaderRight
    <3>2. QED
      BY <1>1, <3>1, Zenon DEF ReaderOk, ridx
  <2>3. QED
    BY <2>1, <2>2
<1>21. ReaderRight'
  BY <1>20 DEF ReaderRight
<1>22. QED
  BY <1>10, <1>13, <1>16, <1>17, <1>19, <1>21 DEF QueueInv, RingInv

-----------------------------------------------------------------------------
LEMMA QueueInitial == Init => QueueInv
<1> SUFFICES ASSUME Init PROVE QueueInv
  OBVIOUS
<1>1. /\ written = [x \in Block |-> 0] /\ sent = 0 /\ writer.pc = "wait"
      /\ passed = [r \in Local |-> 0]
  BY DEF Init
<1>2. \A r \in Local : reader[r].pc = "connect"
  BY Constants DEF Init
<1>3. RingHolds
  BY <1>1 DEF RingHolds, InRing
<1>4. InStep /\ NotYetWritten /\ SumRight /\ FillRight
  BY <1>1, Constants DEF InStep, NotYetWritten, SumRight, FillRight, Claimed
<1>5. ReaderRight
  BY <1>2 DEF ReaderRight, ReaderOk
<1>6. QED
  BY <1>3, <1>4, <1>5, InitialTypes DEF QueueInv, RingInv

LEMMA QueueNext == QueueInv /\ [Next]_vars => QueueInv'
<1> SUFFICES ASSUME QueueInv, [Next]_vars PROVE QueueInv'
  OBVIOUS
<1>1. CASE \E overflow \in BOOLEAN : Enqueue(overflow)
  BY <1>1, RingEnqueue
<1>2. CASE Writer
  BY <1>2, RingSends, RingSumFlag, RingWriterSpins, RingClaim, RingBeginWrite,
     RingEndWrite, RingResetFlag, RingPublish DEF Writer
<1>3. CASE WriterTimesOut
  BY <1>3, RingWriterTimesOut
<1>4. CASE \E r \in Readers : Dequeue(r) \/ RecvTimesOut(r)
  BY <1>4, RingConnect, RingReaderTakes, RingReadFlag, RingLooks, RingLoad, RingMark
     DEF Dequeue
<1>5. CASE UNCHANGED vars
  <2>1. UNCHANGED <<written, read, data, subscribed, sock, writer, reader, sent, passed,
                    got>>
    BY <1>5 DEF vars
  <2>2. QueueTypes'
    BY <2>1 DEF QueueInv, QueueTypes
  <2>3. Claimed' <=> Claimed
    BY <2>1 DEF Claimed
  <2>4. SumRight' /\ FillRight'
    BY <2>1, <2>3 DEF QueueInv, RingInv, SumRight, FillRight, widx
  <2>5. QED
    BY <2>1, <2>2, <2>3, <2>4, RingKept, ReadersKept DEF QueueInv, RingInv
<1>6. QED
  BY <1>1, <1>2, <1>3, <1>4, <1>5 DEF Next

(* The ring needs no lock: from the moment acquire_read finds a block        *)
(* readable until it has marked it read, the block holds the complete next   *)
(* message of that reader, for every number of readers and blocks and every  *)
(* interleaving of the single loads and stores.                              *)
THEOREM Intact == Spec => []BlockIntact
<1>1. Init => QueueInv
  BY QueueInitial
<1>2. QueueInv /\ [Next]_vars => QueueInv'
  BY QueueNext
<1>3. QueueInv => BlockIntact
  BY IntactFollows
<1>4. QED
  BY <1>1, <1>2, <1>3, PTL DEF Spec

-----------------------------------------------------------------------------
(* Increasing sequences.                                                     *)

LEMMA AppendFacts ==
  ASSUME NEW s \in Seq(Nat), NEW m \in Nat
  PROVE  /\ Append(s, m) \in Seq(Nat) /\ Len(Append(s, m)) = Len(s) + 1 /\ Len(s) \in Nat
         /\ \A k \in 1 .. Len(s) : Append(s, m)[k] = s[k] /\ s[k] \in Nat
         /\ Append(s, m)[Len(s) + 1] = m
         /\ Range(Append(s, m)) = Range(s) \cup {m}
<1>1. /\ Append(s, m) \in Seq(Nat) /\ Len(Append(s, m)) = Len(s) + 1
      /\ \A k \in 1 .. Len(s) : Append(s, m)[k] = s[k]
      /\ Append(s, m)[Len(s) + 1] = m
  OBVIOUS
<1>2. /\ Len(s) \in Nat /\ DOMAIN s = 1 .. Len(s)
      /\ DOMAIN Append(s, m) = 1 .. Len(s) + 1
  BY <1>1
<1>3. \A k \in 1 .. Len(s) : s[k] \in Nat
  OBVIOUS
<1>4. Range(Append(s, m)) = Range(s) \cup {m}
  BY <1>1, <1>2 DEF Range
<1>5. QED
  BY <1>1, <1>2, <1>3, <1>4

LEMMA TailFacts ==
  ASSUME NEW s \in Seq(Nat), s # <<>>
  PROVE  /\ Tail(s) \in Seq(Nat) /\ Head(s) \in Nat /\ Head(s) = s[1]
         /\ Len(s) \in Nat /\ Len(s) >= 1 /\ Len(Tail(s)) = Len(s) - 1
         /\ \A k \in 1 .. Len(Tail(s)) : Tail(s)[k] = s[k + 1]
         /\ Range(s) = {Head(s)} \cup Range(Tail(s))
<1>1. /\ Tail(s) \in Seq(Nat) /\ Head(s) \in Nat /\ Head(s) = s[1]
      /\ Len(Tail(s)) = Len(s) - 1
      /\ \A k \in 1 .. Len(Tail(s)) : Tail(s)[k] = s[k + 1]
  OBVIOUS
<1>2. /\ Len(s) \in Nat /\ Len(s) >= 1 /\ DOMAIN s = 1 .. Len(s)
      /\ DOMAIN Tail(s) = 1 .. Len(s) - 1
  BY <1>1
<1>3. ASSUME NEW x \in Range(s) PROVE x \in {Head(s)} \cup Range(Tail(s))
  <2>1. PICK k \in 1 .. Len(s) : x = s[k]
    BY <1>2 DEF Range
  <2>2. CASE k = 1
    BY <1>1, <2>1, <2>2
  <2>3. CASE k # 1
    <3>1. k - 1 \in 1 .. Len(s) - 1 /\ (k - 1) + 1 = k
      BY <1>2, <2>3
    <3>2. Tail(s)[k - 1] = x
      BY <1>1, <2>1, <3>1
    <3>3. QED
      BY <1>2, <3>1, <3>2, Zenon DEF Range
  <2>4. QED
    BY <2>2, <2>3
<1>4. Head(s) \in Range(s)
  BY <1>1, <1>2 DEF Range
<1>5. ASSUME NEW x \in Range(Tail(s)) PROVE x \in Range(s)
  <2>1. PICK k \in 1 .. Len(s) - 1 : x = Tail(s)[k]
    BY <1>2 DEF Range
  <2>2. k + 1 \in 1 .. Len(s) /\ k \in 1 .. Len(Tail(s))
    BY <1>1, <1>2
  <2>3. s[k + 1] = x
    BY <1>1, <2>1, <2>2
  <2>4. QED
    BY <1>2, <2>2, <2>3, Zenon DEF Range
<1>6. QED
  BY <1>1, <1>2, <1>3, <1>4, <1>5

LEMMA GapBelow ==
  ASSUME NEW a \in Nat, NEW b \in Nat, NEW c \in Nat, NEW n \in Nat, NEW i \in Nat,
         a + (n - i) <= b, b < c
  PROVE  a + ((n + 1) - i) <= c
OBVIOUS

LEMMA IncreasingAppend ==
  ASSUME NEW s \in Seq(Nat), Increasing(s), NEW m \in Nat, \A x \in Range(s) : x < m
  PROVE  Increasing(Append(s, m))
<1> DEFINE n == Len(s)
           t == Append(s, m)
<1>1. /\ n \in Nat /\ Len(t) = n + 1 /\ t[n + 1] = m
      /\ \A k \in 1 .. n : t[k] = s[k] /\ s[k] \in Nat
  BY AppendFacts
<1>2. \A k \in 1 .. n : s[k] < m
  BY <1>1 DEF Range
<1> HIDE DEF t
<1> SUFFICES ASSUME NEW i \in 1 .. n + 1, NEW j \in 1 .. n + 1, i < j
             PROVE  t[i] + (j - i) <= t[j]
  BY <1>1, Zenon DEF Increasing, t
<1>3. CASE j \in 1 .. n
  <2>1. i \in 1 .. n
    BY <1>1, <1>3
  <2>2. QED
    BY <1>1, <1>3, <2>1 DEF Increasing
<1>4. CASE j = n + 1
  <2>1. i \in 1 .. n /\ n \in 1 .. n
    BY <1>1, <1>4
  <2>2. s[i] + (n - i) <= s[n]
    <3>1. CASE i = n
      BY <1>1, <2>1, <3>1
    <3>2. CASE i < n
      BY <2>1, <3>2 DEF Increasing
    <3>3. QED
      BY <1>1, <2>1, <3>1, <3>2
  <2>3. s[n] < m /\ s[n] \in Nat /\ s[i] \in Nat
    BY <1>1, <1>2, <2>1
  <2>4. t[i] = s[i] /\ t[j] = m
    BY <1>1, <1>4, <2>1
  <2>5. n \in Nat /\ i \in Nat
    BY <1>1, <2>1
  <2>6. s[i] + ((n + 1) - i) <= m
    BY <2>2, <2>3, <2>5, GapBelow, Zenon
  <2>7. QED
    BY <1>4, <2>4, <2>6, Zenon
<1>5. j \in 1 .. n \/ j = n + 1
  BY <1>1
<1>6. QED
  BY <1>3, <1>4, <1>5

LEMMA IncreasingTail ==
  ASSUME NEW s \in Seq(Nat), Increasing(s), s # <<>>
  PROVE  /\ Increasing(Tail(s))
         /\ \A x \in Range(Tail(s)) : Head(s) < x
         /\ \A x \in Range(s) : Head(s) <= x
<1>1. /\ Tail(s) \in Seq(Nat) /\ Head(s) \in Nat /\ Head(s) = s[1]
      /\ Len(s) \in Nat /\ Len(s) >= 1 /\ Len(Tail(s)) = Len(s) - 1
      /\ \A k \in 1 .. Len(Tail(s)) : Tail(s)[k] = s[k + 1]
      /\ Range(s) = {Head(s)} \cup Range(Tail(s))
  BY TailFacts
<1>2. ASSUME NEW i \in 1 .. Len(Tail(s)), NEW j \in 1 .. Len(Tail(s)), i < j
      PROVE  Tail(s)[i] + (j - i) <= Tail(s)[j]
  <2>1. /\ i + 1 \in 1 .. Len(s) /\ j + 1 \in 1 .. Len(s) /\ i + 1 < j + 1
        /\ (j + 1) - (i + 1) = j - i
    BY <1>1, <1>2
  <2>2. s[i + 1] + ((j + 1) - (i + 1)) <= s[j + 1]
    BY <2>1 DEF Increasing
  <2>3. QED
    BY <1>1, <2>1, <2>2
<1>3. ASSUME NEW x \in Range(Tail(s)) PROVE Head(s) < x
  <2>1. DOMAIN Tail(s) = 1 .. Len(Tail(s))
    BY <1>1
  <2>2. PICK k \in 1 .. Len(Tail(s)) : x = Tail(s)[k]
    BY <2>1 DEF Range
  <2>3. k + 1 \in 1 .. Len(s) /\ 1 \in 1 .. Len(s) /\ 1 < k + 1 /\ x = s[k + 1]
    BY <1>1, <2>2
  <2>4. s[1] + ((k + 1) - 1) <= s[k + 1]
    BY <2>3 DEF Increasing
  <2>5. s[k + 1] \in Nat /\ s[1] \in Nat
    BY <2>3
  <2>6. QED
    BY <1>1, <2>2, <2>3, <2>4, <2>5
<1>4. \A x \in Range(s) : Head(s) <= x
  <2>1. Range(Tail(s)) \subseteq Nat
    BY <1>1 DEF Range
  <2>2. ASSUME NEW x \in Range(s) PROVE Head(s) <= x
    <3>1. CASE x = Head(s)
      BY <1>1, <3>1
    <3>2. CASE x \in Range(Tail(s))
      BY <1>1, <1>3, <2>1, <3>2
    <3>3. QED
      BY <1>1, <3>1, <3>2
  <2>3. QED
    BY <2>2
<1>5. QED
  BY <1>2, <1>3, <1>4 DEF Increasing

(* Between two bounds there is only so much room.                            *)
LEMMA IncreasingRoom ==
  ASSUME NEW s \in Seq(Nat), Increasing(s), NEW low \in Nat, NEW high \in Nat,
         \A x \in Range(s) : low <= x /\ x <= high
  PROVE  Len(s) = 0 \/ low + Len(s) <= high + 1
<1> DEFINE n == Len(s)
<1>1. n \in Nat /\ DOMAIN s = 1 .. n
  OBVIOUS
<1> SUFFICES ASSUME n >= 1 PROVE low + n <= high + 1
  BY <1>1
<1>2. 1 \in 1 .. n /\ n \in 1 .. n
  BY <1>1
<1>3. low <= s[1] /\ s[n] <= high /\ s[1] \in Nat /\ s[n] \in Nat
  BY <1>1, <1>2 DEF Range
<1>4. s[1] + (n - 1) <= s[n]
  <2>1. CASE n = 1
    BY <1>3, <2>1
  <2>2. CASE 1 < n
    BY <1>2, <2>2 DEF Increasing
  <2>3. QED
    BY <1>1, <2>1, <2>2
<1>5. QED
  BY <1>1, <1>3, <1>4

Associates(x, y, z) == (x \o y) \o z = x \o (y \o z)

LEMMA ConcatThree == \A S : \A x, y, z \in Seq(S) : Associates(x, y, z)
BY DEF Associates

LEMMA AppendOne ==
  ASSUME NEW s \in Seq(Nat), NEW m \in Nat
  PROVE  Append(s, m) = s \o <<m>>
OBVIOUS

LEMMA ConcatAppend ==
  ASSUME NEW s \in Seq(Nat), NEW t \in Seq(Nat), NEW m \in Nat
  PROVE  s \o Append(t, m) = Append(s \o t, m)
<1>1. s \o t \in Seq(Nat) /\ <<m>> \in Seq(Nat)
  OBVIOUS
<1>2. Append(t, m) = t \o <<m>> /\ Append(s \o t, m) = (s \o t) \o <<m>>
  BY <1>1, AppendOne, Zenon
<1>3. Associates(s, t, <<m>>)
  BY <1>1, ConcatThree, Zenon
<1>4. QED
  BY <1>2, <1>3, Zenon DEF Associates

LEMMA ConcatTake ==
  ASSUME NEW s \in Seq(Nat), NEW t \in Seq(Nat), t # <<>>
  PROVE  Append(s, Head(t)) \o Tail(t) = s \o t
<1>1. /\ Tail(t) \in Seq(Nat) /\ Head(t) \in Nat /\ Head(t) = t[1]
      /\ Len(t) \in Nat /\ Len(t) >= 1 /\ Len(Tail(t)) = Len(t) - 1
      /\ \A k \in 1 .. Len(Tail(t)) : Tail(t)[k] = t[k + 1]
  BY TailFacts
<1>2. <<Head(t)>> \in Seq(Nat) /\ Len(<<Head(t)>>) = 1 /\ <<Head(t)>>[1] = Head(t)
  BY <1>1
<1>3. /\ <<Head(t)>> \o Tail(t) \in Seq(Nat)
      /\ Len(<<Head(t)>> \o Tail(t)) = Len(t)
      /\ \A i \in 1 .. Len(t) : (<<Head(t)>> \o Tail(t))[i] =
           IF i <= 1 THEN <<Head(t)>>[i] ELSE Tail(t)[i - 1]
  BY <1>1, <1>2
<1>4. ASSUME NEW i \in 1 .. Len(t) PROVE (<<Head(t)>> \o Tail(t))[i] = t[i]
  <2>1. CASE i = 1
    BY <1>1, <1>2, <1>3, <2>1
  <2>2. CASE i # 1
    <3>1. ~(i <= 1) /\ i - 1 \in 1 .. Len(Tail(t)) /\ (i - 1) + 1 = i
      BY <1>1, <2>2
    <3>2. QED
      BY <1>1, <1>3, <3>1
  <2>3. QED
    BY <2>1, <2>2
<1>5. <<Head(t)>> \o Tail(t) = t
  BY <1>3, <1>4
<1>6. Append(s, Head(t)) = s \o <<Head(t)>>
  BY <1>1, AppendOne, Zenon
<1>7. Associates(s, <<Head(t)>>, Tail(t))
  BY <1>1, <1>2, ConcatThree, Zenon
<1>8. QED
  BY <1>5, <1>6, <1>7, Zenon DEF Associates

-----------------------------------------------------------------------------
(* The streams.                                                              *)

LEMMA StreamFacts ==
  ASSUME QueueTypes, NEW r \in Readers
  PROVE  /\ sock[r] \in Seq(Nat) /\ got[r] \in Seq(Nat) /\ Stream(r) \in Seq(Nat)
         /\ Range(Stream(r)) \subseteq Nat
<1>1. sock[r] \in Seq(Nat) /\ got[r] \in Seq(Nat)
  BY DEF QueueTypes
<1>2. Stream(r) \in Seq(Nat)
  BY <1>1 DEF Stream
<1>3. Range(Stream(r)) \subseteq Nat
  BY <1>2 DEF Range
<1>4. QED
  BY <1>1, <1>2, <1>3

LEMMA LocalStream ==
  ASSUME NEW r \in Local
  PROVE  r \in Readers /\ r \notin Remote /\ Stream(r) = sock[r] /\ Stream(r)' = sock'[r]
BY QueueAssumption, Zenon DEF Readers, Stream

(* Steps that neither send nor receive.                                      *)
LEMMA StreamsRest ==
  ASSUME Streams, UNCHANGED <<sock, got, sent>>,
         \A q \in Readers : Joining(q)' <=> Joining(q),
         writer'.pc \in {"send", "remote", "wait", "wait_remote"} => writer'.pc = writer.pc
  PROVE  Streams'
<1> SUFFICES ASSUME NEW r \in Readers PROVE StreamOk(r)'
  BY DEF Streams
<1>1. StreamOk(r) /\ Stream(r)' = Stream(r)
  BY DEF Streams, Stream
<1>2. (Pending(r)' => Pending(r)) /\ (NotTold(r)' => NotTold(r))
  BY DEF Pending, NotTold
<1>3. QED
  BY <1>1, <1>2 DEF StreamOk

LEMMA StreamsPublish ==
  ASSUME QueueInv, Streams, Publish
  PROVE  Streams'
<1>1. /\ sent' = sent + 1 /\ UNCHANGED <<sock, got, reader>> /\ sent \in Nat
      /\ writer' = [writer EXCEPT
                      !.pc = IF writer.overflow THEN "send" ELSE AfterLocal("remote")]
  BY DEF Publish, QueueInv, QueueTypes
<1>2. PICK pc \in {"send", "remote", "idle"} : writer' = [writer EXCEPT !.pc = pc]
  BY <1>1, AfterLocalType DEF WriterPc
<1>3. writer'.pc = pc
  BY <1>2, WriterMoves DEF QueueInv, WriterPc
<1> SUFFICES ASSUME NEW r \in Readers PROVE StreamOk(r)'
  BY DEF Streams
<1>4. /\ StreamOk(r) /\ Stream(r)' = Stream(r) /\ (Joining(r)' <=> Joining(r))
      /\ Range(Stream(r)) \subseteq Nat
  BY <1>1, StreamFacts DEF Streams, Stream, Joining, QueueInv
<1>5. \A m \in Range(Stream(r)) : m <= sent + 1 /\ m < sent + 1
  BY <1>1, <1>4 DEF StreamOk
<1>6. ~NotTold(r)'
  BY <1>3 DEF NotTold
<1>7. QED
  BY <1>1, <1>4, <1>5, <1>6 DEF StreamOk

(* What a publish socket does to the stream of a reader it is meant for.     *)
LEMMA StreamSent ==
  ASSUME QueueInv, NEW S, NEW m \in Nat, SendTo(S, m), NEW r \in Readers, UNCHANGED got
  PROVE  /\ Stream(r)' = Stream(r) \/ Stream(r)' = Append(Stream(r), m)
         /\ r \notin S => Stream(r)' = Stream(r)
<1>1. sock[r] \in Seq(Nat) /\ got[r] \in Seq(Nat)
  BY StreamFacts DEF QueueInv
<1>2. sock'[r] = sock[r] \/ (r \in S /\ sock'[r] = Append(sock[r], m))
  BY DEF SendTo
<1>3. got[r] \o Append(sock[r], m) = Append(got[r] \o sock[r], m)
  BY <1>1, ConcatAppend, Zenon
<1>4. QED
  BY <1>2, <1>3, ZenonT(30) DEF Stream

LEMMA StreamsSend ==
  ASSUME QueueInv, Streams, NEW S, NEW m \in Nat, SendTo(S, m), m <= sent,
         UNCHANGED <<reader, sent, got>>,
         \A r \in Readers : r \in S =>
           /\ \A x \in Range(Stream(r)) : x < m
           /\ ~Pending(r)' /\ ~NotTold(r)',
         \A r \in Readers : r \notin S =>
           (Pending(r)' => Pending(r)) /\ (NotTold(r)' => NotTold(r))
  PROVE  Streams'
<1> SUFFICES ASSUME NEW r \in Readers PROVE StreamOk(r)'
  BY DEF Streams
<1>1. /\ StreamOk(r) /\ (Joining(r)' <=> Joining(r)) /\ Stream(r) \in Seq(Nat)
      /\ Stream(r)' = Stream(r) \/ Stream(r)' = Append(Stream(r), m)
      /\ r \notin S => Stream(r)' = Stream(r)
  BY StreamFacts, StreamSent, Zenon DEF Streams, Joining, QueueInv
<1>2. CASE r \notin S
  BY <1>1, <1>2, Zenon DEF StreamOk
<1>3. CASE r \in S /\ Stream(r)' = Stream(r)
  BY <1>1, <1>3, Zenon DEF StreamOk
<1>4. CASE r \in S /\ Stream(r)' = Append(Stream(r), m)
  <2>1. Increasing(Append(Stream(r), m))
    BY <1>1, <1>4, IncreasingAppend, Zenon DEF StreamOk
  <2>2. Range(Append(Stream(r), m)) = Range(Stream(r)) \cup {m}
    BY <1>1, AppendFacts, Zenon
  <2>3. \A x \in Range(Append(Stream(r), m)) : x <= sent
    BY <1>1, <2>2, Zenon DEF StreamOk
  <2>4. QED
    BY <1>1, <1>4, <2>1, <2>3, Zenon DEF StreamOk
<1>5. QED
  BY <1>1, <1>2, <1>3, <1>4

LEMMA StreamsSends ==
  ASSUME QueueInv, Streams, WriterReady \/ WriterReadyRemote \/ SendLocal \/ SendRemote
  PROVE  Streams'
<1>1. /\ AfterLocal("wait_remote") \in {"idle", "wait_remote"}
      /\ AfterLocal("remote") \in {"idle", "remote"}
  BY AfterLocalType DEF WriterPc
<1>2. READY = 0 /\ 0 \in Nat /\ sent \in Nat /\ 0 <= sent /\ sent <= sent /\ QueueTypes
  BY DEF READY, QueueInv, QueueTypes
<1>3. UNCHANGED <<reader, sent, got>>
  BY Zenon DEF WriterReady, WriterReadyRemote, SendLocal, SendRemote
<1>4. \A r \in Readers : /\ NotTold(r) => Range(Stream(r)) = {}
                         /\ Pending(r) => \A x \in Range(Stream(r)) : x < sent
  <2>1. Range(<<>>) = {}
    BY DEF Range
  <2>2. QED
    BY <2>1 DEF Streams, StreamOk
<1>5. \A r \in Local : r \notin Remote
  BY LocalStream
<1>6. \A r \in Readers : r \in Local \/ r \in Remote
  BY DEF Readers
<1>7. CASE WriterReady
  <2>1. /\ writer.pc = "wait" /\ SendTo(Local, 0)
        /\ writer' = [writer EXCEPT !.pc = AfterLocal("wait_remote")]
    BY <1>2, <1>7 DEF WriterReady
  <2>2. writer'.pc \in {"idle", "wait_remote"}
    BY <1>1, <1>2, <2>1, WriterMoves DEF WriterPc
  <2>3. \A r \in Readers : /\ NotTold(r) /\ ~Pending(r)'
                           /\ r \in Local => ~NotTold(r)'
    BY <1>5, <2>1, <2>2 DEF NotTold, Pending
  <2>4. QED
    BY <1>2, <1>3, <1>4, <2>1, <2>3, StreamsSend
<1>8. CASE WriterReadyRemote
  <2>1. /\ writer.pc = "wait_remote" /\ SendTo(Remote, 0)
        /\ writer' = [writer EXCEPT !.pc = "idle"]
    BY <1>2, <1>8 DEF WriterReadyRemote
  <2>2. writer'.pc = "idle"
    BY <1>2, <2>1, WriterMoves DEF WriterPc
  <2>3. \A r \in Readers : ~Pending(r)' /\ ~NotTold(r)' /\ (r \in Remote => NotTold(r))
    BY <2>1, <2>2 DEF NotTold, Pending
  <2>4. QED
    BY <1>2, <1>3, <1>4, <2>1, <2>3, StreamsSend, Zenon
<1>9. CASE SendLocal
  <2>1. /\ writer.pc = "send" /\ SendTo(Local, sent)
        /\ writer' = [writer EXCEPT !.pc = AfterLocal("remote")]
    BY <1>9 DEF SendLocal
  <2>2. writer'.pc \in {"idle", "remote"}
    BY <1>1, <1>2, <2>1, WriterMoves DEF WriterPc
  <2>3. \A r \in Readers : /\ ~NotTold(r)' /\ Pending(r)
                           /\ r \in Local => ~Pending(r)'
    BY <1>5, <2>1, <2>2 DEF NotTold, Pending
  <2>4. QED
    BY <1>2, <1>3, <1>4, <2>1, <2>3, StreamsSend
<1>10. CASE SendRemote
  <2>1. /\ writer.pc = "remote" /\ SendTo(Remote, sent)
        /\ writer' = [writer EXCEPT !.pc = "idle"]
    BY <1>10 DEF SendRemote
  <2>2. writer'.pc = "idle"
    BY <1>2, <2>1, WriterMoves DEF WriterPc
  <2>3. \A r \in Readers : ~Pending(r)' /\ ~NotTold(r)' /\ (r \in Remote => Pending(r))
    BY <2>1, <2>2 DEF NotTold, Pending
  <2>4. QED
    BY <1>2, <1>3, <1>4, <2>1, <2>3, StreamsSend
<1>11. QED
  BY <1>7, <1>8, <1>9, <1>10

(* A reader takes the first message of its socket.                           *)
LEMMA StreamTaken ==
  ASSUME QueueInv, NEW r \in Readers, StreamOk(r), sock[r] # <<>>,
         sock'[r] = Tail(sock[r]), UNCHANGED <<writer, sent>>, ~Joining(r)',
         \/ (got'[r] = got[r] /\ (r \in Remote => got[r] = <<>>))
         \/ got'[r] = Append(got[r], Head(sock[r]))
  PROVE  StreamOk(r)'
<1>1. sock[r] \in Seq(Nat) /\ got[r] \in Seq(Nat) /\ Stream(r) \in Seq(Nat)
  BY StreamFacts DEF QueueInv
<1>2. Tail(sock[r]) \in Seq(Nat) /\ Range(Tail(sock[r])) \subseteq Range(sock[r])
  BY <1>1, TailFacts
<1>3. <<>> \o sock[r] = sock[r] /\ <<>> \o Tail(sock[r]) = Tail(sock[r])
  BY <1>1, <1>2
<1>4. got[r] \o sock[r] # <<>>
  BY <1>1
<1>5. ~NotTold(r) /\ (NotTold(r)' <=> NotTold(r)) /\ (Pending(r)' <=> Pending(r))
  BY <1>4, Zenon DEF StreamOk, Stream, NotTold, Pending
<1>6. CASE r \in Remote /\ got'[r] = Append(got[r], Head(sock[r]))
  <2>1. Stream(r)' = Stream(r)
    BY <1>1, <1>6, ConcatTake, ZenonT(30) DEF Stream
  <2>2. QED
    BY <1>5, <2>1, Zenon DEF StreamOk
<1>7. CASE r \notin Remote \/ (got'[r] = got[r] /\ got[r] = <<>>)
  <2>1. Stream(r) = sock[r] /\ Stream(r)' = Tail(sock[r])
    BY <1>3, <1>7, ZenonT(30) DEF Stream
  <2>2. Increasing(Tail(sock[r]))
    BY <1>1, <2>1, IncreasingTail DEF StreamOk
  <2>3. QED
    BY <1>2, <1>5, <2>1, <2>2, Zenon DEF StreamOk
<1>8. QED
  BY <1>6, <1>7, Zenon

LEMMA StreamsTake ==
  ASSUME QueueInv, Streams, NEW r \in Readers, ReaderReady(r) \/ Recv(r)
  PROVE  Streams'
<1>1. /\ sock[r] # <<>> /\ sock' = [sock EXCEPT ![r] = Tail(sock[r])]
      /\ UNCHANGED <<writer, sent>> /\ StreamOk(r)
  BY DEF ReaderReady, Recv, Streams
<1>2. PICK pc \in {"flag", "recv"} : reader' = [reader EXCEPT ![r].pc = pc]
  BY DEF ReaderReady, Recv
<1>3. reader'[r].pc = pc /\ \A q \in Readers \ {r} : reader'[q] = reader[q]
  BY <1>2, ReaderPcMoves, Zenon DEF ReaderPc, QueueInv
<1>4. /\ sock \in [Readers -> Seq(Nat)] /\ got \in [Readers -> Seq(Nat)]
  BY DEF QueueInv, QueueTypes
<1>5. /\ sock'[r] = Tail(sock[r]) /\ \A q \in Readers \ {r} : sock'[q] = sock[q]
  BY <1>1, <1>4
<1>6. /\ (got'[r] = got[r] /\ Joining(r)) \/ got'[r] = Append(got[r], Head(sock[r]))
      /\ \A q \in Readers \ {r} : got'[q] = got[q]
  BY <1>4, Zenon DEF ReaderReady, Recv, Joining
<1>7. ~Joining(r)' /\ (Joining(r) => got[r] = <<>>)
  BY <1>1, <1>3, Zenon DEF Joining, StreamOk
<1>8. StreamOk(r)'
  BY <1>1, <1>5, <1>6, <1>7, StreamTaken, Zenon
<1>9. ASSUME NEW q \in Readers \ {r} PROVE StreamOk(q)'
  <2>1. /\ StreamOk(q) /\ Stream(q)' = Stream(q) /\ got'[q] = got[q]
        /\ Joining(q)' <=> Joining(q)
    BY <1>3, <1>5, <1>6, <1>9, Zenon DEF Streams, Stream, Joining
  <2>2. (NotTold(q)' <=> NotTold(q)) /\ (Pending(q)' <=> Pending(q))
    BY <1>1, Zenon DEF NotTold, Pending
  <2>3. QED
    BY <1>1, <2>1, <2>2, Zenon DEF StreamOk
<1>10. QED
  BY <1>8, <1>9 DEF Streams

(* The writer's steps between two sends.                                     *)
WriterWorks ==
  \/ \E overflow \in BOOLEAN : Enqueue(overflow)
  \/ SumFlag \/ WriterSpins \/ WriterTimesOut
  \/ Claim \/ BeginWrite \/ EndWrite \/ ResetFlag

LEMMA WriterWorksFacts ==
  ASSUME QueueInv, WriterWorks
  PROVE  /\ UNCHANGED <<subscribed, sock, reader, sent, passed, got>>
         /\ writer.pc \in {"idle", "sum", "write", "writing", "reset"}
         /\ writer'.pc \in {"idle", "sum", "write", "writing", "reset"}
<1>1. writer \in WriterState
  BY DEF QueueInv, QueueTypes
<1>2. CASE \E overflow \in BOOLEAN : Enqueue(overflow)
  BY <1>2 DEF Enqueue
<1>3. CASE SumFlag \/ WriterSpins \/ WriterTimesOut
  BY <1>1, <1>3, Zenon DEF SumFlag, WriterSpins, WriterTimesOut, WriterState
<1>4. CASE Claim \/ BeginWrite \/ EndWrite \/ ResetFlag
  BY <1>1, <1>4, Zenon DEF Claim, BeginWrite, EndWrite, ResetFlag, WriterState
<1>5. QED
  BY <1>2, <1>3, <1>4 DEF WriterWorks

(* A reader's steps in the ring, and the timeout of its socket.              *)
ReaderWorks(r) ==
  \/ Connect(r) \/ RecvTimesOut(r)
  \/ r \in Local /\ (ReadFlag(r) \/ ReaderSpins(r) \/ ReadWritten(r) \/ Load(r))

LEMMA ReaderWorksFacts ==
  ASSUME QueueInv, NEW r \in Readers, ReaderWorks(r)
  PROVE  /\ UNCHANGED <<sock, writer, sent, passed, got>>
         /\ \A q \in Readers : Joining(q)' <=> Joining(q)
         /\ \A q \in Readers \ {r} : reader'[q] = reader[q]
<1>1. reader \in [Readers -> ReaderState]
  BY DEF QueueInv, QueueTypes
<1>2. UNCHANGED <<sock, writer, sent, passed, got>>
  BY Zenon DEF ReaderWorks, Connect, RecvTimesOut, ReadFlag, ReaderSpins, ReadWritten, Load
<1>3. /\ \A q \in Readers \ {r} : reader'[q] = reader[q]
      /\ Joining(r)' <=> Joining(r)
  <2>1. CASE Connect(r) \/ RecvTimesOut(r)
    BY <1>1, <2>1 DEF Connect, RecvTimesOut, Joining, ReaderState
  <2>2. CASE ReaderSpins(r) \/ ReadWritten(r)
    BY <1>1, <2>2 DEF ReaderSpins, ReadWritten, Joining, ReaderState
  <2>3. CASE ReadFlag(r)
    <3>1. /\ reader[r].pc = "flag"
          /\ reader' = [reader EXCEPT ![r] = [reader[r] EXCEPT
                          !.read_flag = read[ridx(r)][r], !.pc = "written"]]
      BY <2>3, Zenon DEF ReadFlag
    <3>2. reader'[r].pc = "written" /\ \A q \in Readers \ {r} : reader'[q] = reader[q]
      BY <1>1, <3>1 DEF ReaderState
    <3>3. QED
      BY <3>1, <3>2 DEF Joining
  <2>4. CASE Load(r)
    <3>1. /\ reader[r].pc = "load"
          /\ reader' = [reader EXCEPT ![r] = [reader[r] EXCEPT
                          !.buf = data[ridx(r)], !.pc = "mark"]]
      BY <2>4, Zenon DEF Load
    <3>2. reader'[r].pc = "mark" /\ \A q \in Readers \ {r} : reader'[q] = reader[q]
      BY <1>1, <3>1 DEF ReaderState
    <3>3. QED
      BY <3>1, <3>2 DEF Joining
  <2>5. QED
    BY <2>1, <2>2, <2>3, <2>4, Zenon DEF ReaderWorks
<1>4. \A q \in Readers \ {r} : Joining(q)' <=> Joining(q)
  BY <1>3 DEF Joining
<1>5. QED
  BY <1>2, <1>3, <1>4

(* Next, sorted by what happens to the sockets.                              *)
LEMMA NextSorted ==
  ASSUME Next
  PROVE  \/ WriterWorks \/ Publish
         \/ WriterReady \/ WriterReadyRemote \/ SendLocal \/ SendRemote
         \/ \E r \in Readers : ReaderWorks(r) \/ ReaderReady(r) \/ Recv(r)
         \/ \E r \in Local : Mark(r)
BY Zenon DEF Next, Writer, Dequeue, WriterWorks, ReaderWorks

LEMMA MarkFacts ==
  ASSUME QueueInv, NEW r \in Local, Mark(r)
  PROVE  /\ UNCHANGED <<written, data, subscribed, sock, writer, sent>>
         /\ r \in Readers /\ reader[r].pc = "mark" /\ reader[r].buf = data[ridx(r)]
         /\ passed[r] < sent /\ passed'[r] = passed[r] + 1 /\ passed[r] \in Nat
         /\ data[ridx(r)].msg = passed[r] + 1
         /\ \A q \in Local \ {r} : passed'[q] = passed[q]
         /\ \A q \in Readers \ {r} : reader'[q] = reader[q] /\ got'[q] = got[q]
         /\ \/ /\ data[ridx(r)].overflow /\ reader'[r].pc = "recv" /\ got'[r] = got[r]
            \/ /\ ~data[ridx(r)].overflow /\ reader'[r].pc = "flag"
               /\ got'[r] = Append(got[r], passed[r] + 1)
<1>1. /\ UNCHANGED <<written, data, subscribed, sock, writer, sent>>
      /\ reader[r].pc = "mark" /\ r \in Readers
      /\ passed' = [passed EXCEPT ![r] = passed[r] + 1]
  BY Constants, Zenon DEF Mark
<1>2. passed[r] < sent /\ reader[r].buf = data[ridx(r)]
  BY <1>1, Zenon DEF QueueInv, RingInv, ReaderRight, ReaderOk
<1>3. data[ridx(r)].msg = passed[r] + 1
  BY <1>2, BehindInRing, Zenon DEF Holds, ridx
<1>4. /\ reader \in [Readers -> ReaderState] /\ got \in [Readers -> Seq(Nat)]
      /\ passed \in [Local -> Nat]
  BY DEF QueueInv, QueueTypes
<1>5. passed'[r] = passed[r] + 1 /\ passed[r] \in Nat /\ \A q \in Local \ {r} : passed'[q] = passed[q]
  BY <1>1, <1>4
<1>6. CASE reader[r].buf.overflow
  <2>1. reader' = [reader EXCEPT ![r].pc = "recv"] /\ UNCHANGED got
    BY <1>6 DEF Mark
  <2>2. reader'[r].pc = "recv" /\ \A q \in Readers \ {r} : reader'[q] = reader[q]
    BY <1>1, <1>4, <2>1, Zenon DEF ReaderState
  <2>3. QED
    BY <1>1, <1>2, <1>3, <1>5, <1>6, <2>1, <2>2, Zenon
<1>7. CASE ~reader[r].buf.overflow
  <2>1. /\ reader' = [reader EXCEPT ![r].pc = "flag"]
        /\ got' = [got EXCEPT ![r] = Append(got[r], reader[r].buf.msg)]
    BY <1>7 DEF Mark
  <2>2. reader'[r].pc = "flag" /\ \A q \in Readers \ {r} : reader'[q] = reader[q]
    BY <1>1, <1>4, <2>1 DEF ReaderState
  <2>3. /\ got'[r] = Append(got[r], passed[r] + 1)
        /\ \A q \in Readers \ {r} : got'[q] = got[q]
    BY <1>1, <1>2, <1>3, <1>4, <2>1
  <2>4. QED
    BY <1>1, <1>2, <1>3, <1>5, <1>7, <2>2, <2>3, Zenon
<1>8. QED
  BY <1>6, <1>7, Zenon

LEMMA StreamsMark ==
  ASSUME QueueInv, Streams, NEW r \in Local, Mark(r)
  PROVE  Streams'
<1>1. /\ UNCHANGED <<sock, writer, sent>>
      /\ r \in Readers /\ reader[r].pc = "mark" /\ reader'[r].pc \in {"recv", "flag"}
      /\ \A q \in Readers \ {r} : reader'[q] = reader[q] /\ got'[q] = got[q]
  BY MarkFacts, Zenon
<1>2. SUFFICES ASSUME NEW q \in Readers
               PROVE  StreamOk(q)'
  BY DEF Streams
<1>3. StreamOk(q)
  BY Zenon DEF Streams
<1>4. Stream(q)' = Stream(q)
  BY <1>1, LocalStream DEF Stream
<1>5. (Pending(q)' <=> Pending(q)) /\ (NotTold(q)' <=> NotTold(q))
  BY <1>1, Zenon DEF Pending, NotTold
<1>6. CASE q = r
  <2>1. ~Joining(q) /\ ~Joining(q)'
    BY <1>1, <1>6, Zenon DEF Joining
  <2>2. QED
    BY <1>1, <1>3, <1>4, <1>5, <2>1 DEF StreamOk
<1>7. CASE q # r
  <2>1. (Joining(q)' <=> Joining(q)) /\ got'[q] = got[q]
    BY <1>1, <1>7 DEF Joining
  <2>2. QED
    BY <1>1, <1>3, <1>4, <1>5, <2>1, Zenon DEF StreamOk
<1>8. QED
  BY <1>6, <1>7, Zenon

LEMMA StreamsInitial == Init => Streams
<1>1. SUFFICES ASSUME Init, NEW r \in Readers
               PROVE  StreamOk(r)
  BY Zenon DEF Streams
<1>2. got[r] = <<>> /\ sock[r] = <<>> /\ reader[r].pc = "connect"
  BY <1>1 DEF Init
<1>3. <<>> \o <<>> = <<>> /\ <<>> \in Seq(Nat) /\ Len(<<>>) = 0
  OBVIOUS
<1>4. Stream(r) = <<>>
  BY <1>2, <1>3 DEF Stream
<1>5. Increasing(<<>>)
  BY <1>3 DEF Increasing
<1>6. Range(<<>>) = {}
  BY DEF Range
<1>7. QED
  BY <1>2, <1>4, <1>5, <1>6 DEF StreamOk, Joining

LEMMA StreamsNext == QueueInv /\ Streams /\ [Next]_vars => Streams'
<1>1. SUFFICES ASSUME QueueInv, Streams, [Next]_vars
               PROVE  Streams'
  OBVIOUS
<1>2. CASE WriterWorks
  <2>1. UNCHANGED <<sock, got, sent, reader>>
    BY <1>1, <1>2, WriterWorksFacts
  <2>2. \A q \in Readers : Joining(q)' <=> Joining(q)
    BY <2>1 DEF Joining
  <2>3. writer'.pc \notin {"send", "remote", "wait", "wait_remote"}
    BY <1>1, <1>2, WriterWorksFacts
  <2>4. QED
    BY <1>1, <2>1, <2>2, <2>3, StreamsRest
<1>3. CASE Publish
  BY <1>1, <1>3, StreamsPublish
<1>4. CASE WriterReady \/ WriterReadyRemote \/ SendLocal \/ SendRemote
  BY <1>1, <1>4, StreamsSends
<1>5. ASSUME NEW r \in Readers, ReaderWorks(r)
      PROVE  Streams'
  <2>1. UNCHANGED <<sock, got, sent, writer>>
    BY <1>1, <1>5, ReaderWorksFacts
  <2>2. \A q \in Readers : Joining(q)' <=> Joining(q)
    BY <1>1, <1>5, ReaderWorksFacts
  <2>3. QED
    BY <1>1, <2>1, <2>2, StreamsRest, Zenon
<1>6. ASSUME NEW r \in Readers, ReaderReady(r) \/ Recv(r)
      PROVE  Streams'
  BY <1>1, <1>6, StreamsTake
<1>7. ASSUME NEW r \in Local, Mark(r)
      PROVE  Streams'
  BY <1>1, <1>7, StreamsMark
<1>8. CASE UNCHANGED vars
  <2>1. UNCHANGED <<sock, got, sent, writer, reader>>
    BY <1>8 DEF vars
  <2>2. \A q \in Readers : Joining(q)' <=> Joining(q)
    BY <2>1 DEF Joining
  <2>3. QED
    BY <1>1, <2>1, <2>2, StreamsRest
<1>9. QED
  BY <1>1, <1>2, <1>3, <1>4, <1>5, <1>6, <1>7, <1>8, NextSorted

(* Whatever the high-water mark drops, a remote reader gets the messages in  *)
(* the order in which they were enqueued, and none of them twice.            *)
THEOREM RemoteOrder == Spec => []RemoteInOrder
<1>1. Init => QueueInv /\ Streams
  BY QueueInitial, StreamsInitial
<1>2. QueueInv /\ Streams /\ [Next]_vars => QueueInv' /\ Streams'
  BY QueueNext, StreamsNext, Zenon
<1>3. QueueInv /\ Streams => RemoteInOrder
  <2>1. SUFFICES ASSUME QueueInv, Streams, NEW r \in Remote,
                        NEW i \in DOMAIN (got[r] \o sock[r]),
                        NEW j \in DOMAIN (got[r] \o sock[r]), i < j
                 PROVE  (got[r] \o sock[r])[i] < (got[r] \o sock[r])[j]
    BY Zenon DEF RemoteInOrder
  <2>2. r \in Readers /\ Stream(r) = got[r] \o sock[r]
    BY Zenon DEF Readers, Stream
  <2>3. Stream(r) \in Seq(Nat) /\ Increasing(Stream(r))
    BY <2>1, <2>2, StreamFacts, Zenon DEF QueueInv, Streams, StreamOk
  <2>4. /\ i \in 1 .. Len(Stream(r)) /\ j \in 1 .. Len(Stream(r))
        /\ Stream(r)[i] \in Nat /\ Stream(r)[j] \in Nat /\ i \in Nat /\ j \in Nat
    <3>1. DOMAIN Stream(r) = 1 .. Len(Stream(r)) /\ Len(Stream(r)) \in Nat
      BY <2>3
    <3>2. i \in 1 .. Len(Stream(r)) /\ j \in 1 .. Len(Stream(r))
      BY <2>1, <2>2, <3>1, Zenon
    <3>3. QED
      BY <2>3, <3>1, <3>2
  <2>5. Stream(r)[i] + (j - i) <= Stream(r)[j]
    BY <2>1, <2>3, <2>4 DEF Increasing
  <2>6. Stream(r)[i] < Stream(r)[j]
    BY <2>1, <2>4, <2>5
  <2>7. QED
    BY <2>2, <2>6
<1>4. QED
  BY <1>1, <1>2, <1>3, PTL DEF Spec
=============================================================================
