---------------------------- MODULE MessageQueue ----------------------------
(* The queue between one writer process and its readers: MessageQueue over  *)
(* ShmRingBuffer in vllm/distributed/device_communicators/shm_broadcast.py. *)
(* Local readers share a ring of blocks with the writer. There is no lock:  *)
(* each block has one byte the writer sets ("written") and one byte per     *)
(* reader, and every load or store of a byte is a step of its own here.     *)
(* Loads and stores are sequentially consistent. A message that does not    *)
(* fit in a block is announced in the ring and travels over a publish       *)
(* socket, as all messages to remote readers do.                            *)
(*                                                                          *)
(* Messages are numbered in the order in which they are enqueued. An index  *)
(* into the ring is kept as the number of blocks passed so far, see         *)
(* current_idx.                                                             *)
EXTENDS Naturals, Sequences

CONSTANTS
  n_reader,     \* number of local readers
  max_chunks,   \* number of blocks of the ring
  Remote,       \* remote readers
  Timed,        \* local readers that call dequeue with a timeout
  SendHWM,      \* messages a publish socket keeps for a slow subscriber
  MaxMsgs       \* bound: messages enqueued

Local == 1 .. n_reader
Readers == Local \union Remote
Block == 0 .. max_chunks - 1

ASSUME QueueAssumption ==
  /\ n_reader \in Nat \ {0}
  /\ max_chunks \in Nat \ {0}
  /\ SendHWM \in Nat \ {0}
  /\ MaxMsgs \in Nat
  /\ Timed \subseteq Local
  /\ Remote \intersect Local = {}

VARIABLES
  written,      \* written[b]: metadata byte 0 of block b
  read,         \* read[b][i]: metadata byte i of block b
  data,         \* data[b]: contents of block b
  subscribed,   \* readers whose subscription has reached the publish socket
  sock,         \* sock[r]: messages on their way to r over a socket
  writer,       \* the writer inside enqueue and acquire_write
  reader,       \* reader[r]: reader r inside dequeue and acquire_read
  sent,         \* number of messages published in the ring
  passed,       \* passed[r]: number of blocks local reader r has marked read
  got           \* got[r]: messages that dequeue has returned to r

shared == <<written, read, data>>
vars == <<written, read, data, subscribed, sock, writer, reader, sent, passed,
          got>>

(* A block while it is being written, and a finished one. buf[0] says       *)
(* whether the message itself is in the socket.                             *)
Torn == [overflow |-> FALSE, msg |-> 0]
READY == 0

(* self.current_idx, after n blocks were passed.                            *)
current_idx(n) == n % max_chunks

Init ==
  /\ written = [b \in Block |-> 0]
  /\ read = [b \in Block |-> [i \in Local |-> 0]]
  /\ data = [b \in Block |-> Torn]
  /\ subscribed = {}
  /\ sock = [r \in Readers |-> <<>>]
  /\ writer = [pc |-> "wait", i |-> 1, read_count |-> 0, overflow |-> FALSE]
  /\ reader = [r \in Readers |->
                 [pc |-> "connect", read_flag |-> 0, buf |-> Torn]]
  /\ sent = 0
  /\ passed = [r \in Local |-> 0]
  /\ got = [r \in Readers |-> <<>>]

-----------------------------------------------------------------------------
(* External: a publish socket. A message goes to the subscribers of the     *)
(* moment, and a subscriber that is SendHWM messages behind misses it.      *)
SendTo(S, m) ==
  sock' = [r \in Readers |->
             IF r \in S \intersect subscribed /\ Len(sock[r]) < SendHWM
             THEN Append(sock[r], m) ELSE sock[r]]

(* Joining: create_from_handle subscribes; wait_until_ready makes everybody *)
(* wait until the writer has seen all subscriptions, the local ones first.  *)
Connect(r) ==
  /\ reader[r].pc = "connect"
  /\ subscribed' = subscribed \union {r}
  /\ reader' = [reader EXCEPT ![r].pc = "ready"]
  /\ UNCHANGED <<shared, sock, writer, sent, passed, got>>

AfterLocal(pc) == IF Remote = {} THEN "idle" ELSE pc

(* Faulty variant: the writer does not wait for the subscriptions.         *)
WriterReadyEarly ==
  /\ writer.pc = "wait"
  /\ SendTo(Local, READY)
  /\ writer' = [writer EXCEPT !.pc = AfterLocal("wait_remote")]
  /\ UNCHANGED <<shared, subscribed, reader, sent, passed, got>>

WriterReady ==
  /\ writer.pc = "wait"
  /\ Local \subseteq subscribed
  /\ SendTo(Local, READY)
  /\ writer' = [writer EXCEPT !.pc = AfterLocal("wait_remote")]
  /\ UNCHANGED <<shared, subscribed, reader, sent, passed, got>>

WriterReadyRemote ==
  /\ writer.pc = "wait_remote"
  /\ Remote \subseteq subscribed
  /\ SendTo(Remote, READY)
  /\ writer' = [writer EXCEPT !.pc = "idle"]
  /\ UNCHANGED <<shared, subscribed, reader, sent, passed, got>>

ReaderReady(r) ==
  /\ reader[r].pc = "ready"
  /\ sock[r] # <<>>
  /\ sock' = [sock EXCEPT ![r] = Tail(@)]
  /\ reader' = [reader EXCEPT ![r].pc = IF r \in Local THEN "flag" ELSE "recv"]
  /\ UNCHANGED <<shared, subscribed, writer, sent, passed, got>>

-----------------------------------------------------------------------------
(* The writer.                                                              *)

widx == current_idx(sent)

(* enqueue: the size of the pickled object decides where it travels.        *)
Enqueue(overflow) ==
  /\ writer.pc = "idle"
  /\ sent < MaxMsgs
  /\ writer' = [pc |-> "sum", i |-> 1, read_count |-> 0, overflow |-> overflow]
  /\ UNCHANGED <<shared, subscribed, sock, reader, sent, passed, got>>

(* sum(metadata_buffer[1:]), one byte at a time.                            *)
SumFlag ==
  /\ writer.pc = "sum"
  /\ writer.i <= n_reader
  /\ writer' = [writer EXCEPT !.read_count = @ + read[widx][writer.i],
                              !.i = @ + 1]
  /\ UNCHANGED <<shared, subscribed, sock, reader, sent, passed, got>>

(* Faulty variant: one reader is enough.                                    *)
UnreadByAll == written[widx] = 1 /\ writer.read_count = 0

(* Faulty variant: the writer never waits.                                  *)
UnreadIgnored == FALSE

Unread == written[widx] = 1 /\ writer.read_count # n_reader

(* The block is written and not read by all: look again.                    *)
WriterSpins ==
  /\ writer.pc = "sum"
  /\ writer.i > n_reader
  /\ Unread
  /\ writer' = [writer EXCEPT !.read_count = 0, !.i = 1]
  /\ UNCHANGED <<shared, subscribed, sock, reader, sent, passed, got>>

(* ... or give up with TimeoutError; nothing has been written.              *)
WriterTimesOut ==
  /\ writer.pc = "sum"
  /\ writer.i > n_reader
  /\ Unread
  /\ writer' = [writer EXCEPT !.pc = "idle"]
  /\ UNCHANGED <<shared, subscribed, sock, reader, sent, passed, got>>

(* The block is free: mark it as not written.                               *)
Claim ==
  /\ writer.pc = "sum"
  /\ writer.i > n_reader
  /\ ~Unread
  /\ written' = [written EXCEPT ![widx] = 0]
  /\ writer' = [writer EXCEPT !.pc = "write"]
  /\ UNCHANGED <<read, data, subscribed, sock, reader, sent, passed, got>>

(* The caller's stores into the block, begun and finished.                  *)
BeginWrite ==
  /\ writer.pc = "write"
  /\ data' = [data EXCEPT ![widx] = Torn]
  /\ writer' = [writer EXCEPT !.pc = "writing"]
  /\ UNCHANGED <<written, read, subscribed, sock, reader, sent, passed, got>>

(* Faulty variant: the written byte is set before the reader bytes.         *)
EndWriteFirst ==
  /\ writer.pc = "writing"
  /\ data' = [data EXCEPT ![widx] = [overflow |-> writer.overflow,
                                     msg |-> sent + 1]]
  /\ written' = [written EXCEPT ![widx] = 1]
  /\ writer' = [writer EXCEPT !.pc = "reset", !.i = 1]
  /\ UNCHANGED <<read, subscribed, sock, reader, sent, passed, got>>

EndWrite ==
  /\ writer.pc = "writing"
  /\ data' = [data EXCEPT ![widx] = [overflow |-> writer.overflow,
                                     msg |-> sent + 1]]
  /\ writer' = [writer EXCEPT !.pc = "reset", !.i = 1]
  /\ UNCHANGED <<written, read, subscribed, sock, reader, sent, passed, got>>

(* The reader bytes go to 0, one at a time ...                              *)
ResetFlag ==
  /\ writer.pc = "reset"
  /\ writer.i <= n_reader
  /\ read' = [read EXCEPT ![widx][writer.i] = 0]
  /\ writer' = [writer EXCEPT !.i = @ + 1]
  /\ UNCHANGED <<written, data, subscribed, sock, reader, sent, passed, got>>

(* ... and only then the written byte to 1.                                 *)
Publish ==
  /\ writer.pc = "reset"
  /\ writer.i > n_reader
  /\ written' = [written EXCEPT ![widx] = 1]
  /\ sent' = sent + 1
  /\ writer' = [writer EXCEPT
                  !.pc = IF writer.overflow THEN "send" ELSE AfterLocal("remote")]
  /\ UNCHANGED <<read, data, subscribed, sock, reader, passed, got>>

(* Faulty variant: an overflowing message reaches remote readers twice.     *)
SendLocalToAll ==
  /\ writer.pc = "send"
  /\ SendTo(Readers, sent)
  /\ writer' = [writer EXCEPT !.pc = AfterLocal("remote")]
  /\ UNCHANGED <<shared, subscribed, reader, sent, passed, got>>

(* The message itself, after the block that announces it.                   *)
SendLocal ==
  /\ writer.pc = "send"
  /\ SendTo(Local, sent)
  /\ writer' = [writer EXCEPT !.pc = AfterLocal("remote")]
  /\ UNCHANGED <<shared, subscribed, reader, sent, passed, got>>

SendRemote ==
  /\ writer.pc = "remote"
  /\ SendTo(Remote, sent)
  /\ writer' = [writer EXCEPT !.pc = "idle"]
  /\ UNCHANGED <<shared, subscribed, reader, sent, passed, got>>

-----------------------------------------------------------------------------
(* A local reader. pc = "flag" is also the state between two calls.         *)

ridx(r) == current_idx(passed[r])

ReadFlag(r) ==
  /\ reader[r].pc = "flag"
  /\ reader' = [reader EXCEPT ![r].read_flag = read[ridx(r)][r],
                              ![r].pc = "written"]
  /\ UNCHANGED <<shared, subscribed, sock, writer, sent, passed, got>>

Readable(r) == written[ridx(r)] = 1 /\ reader[r].read_flag = 0

(* Not written, or already read: look again. A TimeoutError or a            *)
(* cancellation ends the call here and leaves the queue as it is.           *)
ReaderSpins(r) ==
  /\ reader[r].pc = "written"
  /\ ~Readable(r)
  /\ reader' = [reader EXCEPT ![r].pc = "flag"]
  /\ UNCHANGED <<shared, subscribed, sock, writer, sent, passed, got>>

ReadWritten(r) ==
  /\ reader[r].pc = "written"
  /\ Readable(r)
  /\ reader' = [reader EXCEPT ![r].pc = "load"]
  /\ UNCHANGED <<shared, subscribed, sock, writer, sent, passed, got>>

(* The caller's loads from the block.                                       *)
Load(r) ==
  /\ reader[r].pc = "load"
  /\ reader' = [reader EXCEPT ![r].buf = data[ridx(r)], ![r].pc = "mark"]
  /\ UNCHANGED <<shared, subscribed, sock, writer, sent, passed, got>>

(* Mark the block as read and advance. A message in the block is returned,  *)
(* one that overflowed is still to be received.                             *)
Mark(r) ==
  /\ reader[r].pc = "mark"
  /\ read' = [read EXCEPT ![ridx(r)][r] = 1]
  /\ passed' = [passed EXCEPT ![r] = @ + 1]
  /\ \/ /\ reader[r].buf.overflow
        /\ reader' = [reader EXCEPT ![r].pc = "recv"]
        /\ UNCHANGED got
     \/ /\ ~reader[r].buf.overflow
        /\ reader' = [reader EXCEPT ![r].pc = "flag"]
        /\ got' = [got EXCEPT ![r] = Append(@, reader[r].buf.msg)]
  /\ UNCHANGED <<written, data, subscribed, sock, writer, sent>>

(* MessageQueue.recv, for a local reader after an overflow and for a remote *)
(* reader always.                                                           *)
Recv(r) ==
  /\ reader[r].pc = "recv"
  /\ sock[r] # <<>>
  /\ got' = [got EXCEPT ![r] = Append(@, Head(sock[r]))]
  /\ sock' = [sock EXCEPT ![r] = Tail(@)]
  /\ reader' = [reader EXCEPT ![r].pc = IF r \in Local THEN "flag" ELSE "recv"]
  /\ UNCHANGED <<shared, subscribed, writer, sent, passed>>

(* The poll times out: dequeue raises, but the block is already passed.     *)
RecvTimesOut(r) ==
  /\ r \in Timed
  /\ reader[r].pc = "recv"
  /\ sock[r] = <<>>
  /\ reader' = [reader EXCEPT ![r].pc = "flag"]
  /\ UNCHANGED <<shared, subscribed, sock, writer, sent, passed, got>>

-----------------------------------------------------------------------------
Writer ==
  \/ WriterReady \/ WriterReadyRemote
  \/ SumFlag \/ WriterSpins \/ Claim \/ BeginWrite \/ EndWrite
  \/ ResetFlag \/ Publish \/ SendLocal \/ SendRemote

Dequeue(r) ==
  \/ Connect(r) \/ ReaderReady(r) \/ Recv(r)
  \/ /\ r \in Local
     /\ \/ ReadFlag(r) \/ ReaderSpins(r) \/ ReadWritten(r)
        \/ Load(r) \/ Mark(r)

Next ==
  \/ \E overflow \in BOOLEAN : Enqueue(overflow)
  \/ Writer
  \/ WriterTimesOut
  \/ \E r \in Readers : Dequeue(r) \/ RecvTimesOut(r)

Spec == Init /\ [][Next]_vars

(* Each process goes on with the call it is in, and readers call dequeue    *)
(* in a loop. Nobody has to enqueue or to time out.                         *)
FairSpec == Spec /\ WF_vars(Writer) /\ \A r \in Readers : WF_vars(Dequeue(r))

-----------------------------------------------------------------------------
(* From the moment a reader finds its block readable until it has marked it *)
(* read, the block holds the complete next message of that reader: the      *)
(* writer never claims, overwrites or republishes a block somebody is in.   *)
BlockIntact ==
  \A r \in Local :
    reader[r].pc \in {"load", "mark"} =>
      /\ written[ridx(r)] = 1
      /\ data[ridx(r)].msg = passed[r] + 1
      /\ reader[r].pc = "mark" => reader[r].buf = data[ridx(r)]

(* A message that did not fit in a block is never lost, even for a reader   *)
(* whose receive timed out: it stays in the socket of that reader until it  *)
(* is received.                                                             *)
NothingLost ==
  \A r \in Local : \A m \in 1 .. passed[r] :
    \/ \E i \in DOMAIN got[r] : got[r][i] = m
    \/ \E i \in DOMAIN sock[r] : sock[r][i] = m
    \/ m = sent /\ writer.pc = "send"

(* The ring bounds the socket: a local reader without timeouts never has    *)
(* more than a ring of messages and the one it is receiving in its socket,  *)
(* so the publish socket never drops one.                                   *)
SocketBounded ==
  \A r \in Local \ Timed : Len(sock[r]) <= max_chunks + 1

(* Remote readers have no ring. What they get, and what is still on its way *)
(* to them, is in order and without repetition; only messages dropped at    *)
(* the high-water mark are missing.                                         *)
RemoteInOrder ==
  \A r \in Remote :
    LET s == got[r] \o sock[r]
    IN  \A i, j \in DOMAIN s : i < j => s[i] < s[j]

(* To the local readers without timeouts the ring and the socket together   *)
(* are a broadcast queue: every message once, in order, and in the end.     *)
Untimed == Local \ Timed
Abstract == INSTANCE BroadcastQueue WITH
              Readers <- Untimed, got <- [r \in Untimed |-> got[r]]
IsBroadcastQueue == Abstract!Spec
=============================================================================
