---------------------------- MODULE VerbsSocket -----------------------------
(***************************************************************************)
(* One connection over an RDMA adapter: SendRecvSocket, RDMAWriteSocket    *)
(* and RDMAWriteImmSocket under the request and answer of Communicator.    *)
(* A thread of either end packs messages into registered buffers and posts *)
(* them; the adapter reads the buffers later, writes into the memory of    *)
(* the other end and reports completions that the thread polls.            *)
(*                                                                         *)
(* A buffer is a row of cells: the header, the body, the arrival flag that *)
(* the write kinds append, and zeros up to PACKET_SIZE, which is posted    *)
(* whatever the message needs.  The adapter places the cells of a write in *)
(* order, as the arrival flags presume.                                    *)
(***************************************************************************)
EXTENDS Naturals, Sequences

CONSTANTS
    Kinds,        \* the communication types of a run
    Window,       \* PACKET_WINDOW_SIZE
    Cells,        \* PACKET_SIZE in cells
    MaxRequests   \* bound on the requests before the connection is closed

ASSUME VerbsAssumption ==
    /\ Kinds \subseteq {"SEND_RECV", "RDMA_WRITE", "RDMA_WRITE_IMM"}
    /\ Window \in Nat \ {0}
    /\ Cells \in Nat /\ Cells > 2
    /\ MaxRequests \in Nat

Ends == {"client", "server"}
Peer(e) == IF e = "client" THEN "server" ELSE "client"

VARIABLES
    kind,         \* ComType, fixed by main
    pc,           \* where the thread of each end stands
    sent,         \* the message of the last send_msg or send_close
    header, body, \* what the last recv_header and recv_body have read
    send_bufs,    \* SendRecvSocket::send_bufs
    mem,          \* what the send buffers contain
    sq,           \* work requests posted to the send queue
    placed,       \* cells of the first of them that the adapter has placed
    unacked,      \* buffers sent whose completion is still to come
    send_cq,      \* completions of sends, not polled
    recv_mem,     \* what the receive buffers contain
    rq, recv_cq,  \* receive buffers posted, and filled but not polled
    msg_buf,      \* the receive buffer that the thread holds, 0 for none
    write_buf     \* RDMAWriteSocket::write_buf

threadVars == <<kind, pc, sent, header, body>>
sendVars == <<send_bufs, mem, sq, placed, unacked, send_cq>>
recvVars == <<recv_mem, rq, recv_cq, msg_buf, write_buf>>
vars == <<threadVars, sendVars, recvVars>>

-----------------------------------------------------------------------------
(* Messages and buffers *)

Lengths == 0..(Cells - 2)

Message == [type : {"REQUEST", "ANSWER"}, n : 1..MaxRequests, len : Lengths]
      \cup [type : {"none", "KEY", "CLOSE"}, n : {0}, len : {0}]

NoMsg == [type |-> "none", n |-> 0, len |-> 0]

\* CloseUnset is the faulty variant that leaves the body size as it was.
CloseUnset == [type |-> "CLOSE", n |-> 0, len |-> Cells]
Close == [type |-> "CLOSE", n |-> 0, len |-> 0]

Buffers == 1..Window
Zero == [type |-> "zero", n |-> 0, len |-> 0]
Flag == [type |-> "is_arrived", n |-> 0, len |-> 0]
Packet == [0..(Cells - 1) -> Message \cup {Zero, Flag}]

Empty == [i \in 0..(Cells - 1) |-> Zero]

\* Buffer::clear; NotCleared is the faulty variant that keeps the old bytes.
NotCleared(p) == p
Cleared(p) == Empty

\* append(header), append(body), and append(is_arrived) for a write.  NoFlag is
\* the faulty variant without the last of these.
NoFlag(p, op, m) ==
    [i \in 0..(Cells - 1) |-> IF i <= m.len THEN m ELSE Cleared(p)[i]]

Filled(p, op, m) ==
    [i \in 0..(Cells - 1) |->
        IF i <= m.len THEN m
        ELSE IF i = m.len + 1 /\ op # "SEND" THEN Flag
        ELSE Cleared(p)[i]]

Init ==
    /\ kind \in Kinds
    /\ pc = [e \in Ends |-> IF kind # "SEND_RECV" THEN "setup"
                            ELSE IF e = "client" THEN "ready" ELSE "header"]
    /\ sent = [e \in Ends |-> NoMsg]
    /\ header = [e \in Ends |-> NoMsg]
    /\ body = [e \in Ends |-> {}]
    /\ send_bufs = [e \in Ends |-> [i \in Buffers |-> i]]
    /\ mem = [e \in Ends |-> [b \in Buffers |-> Empty]]
    /\ sq = [e \in Ends |-> <<>>]
    /\ placed = [e \in Ends |-> 0]
    /\ unacked = [e \in Ends |-> <<>>]
    /\ send_cq = [e \in Ends |-> <<>>]
    /\ recv_mem = [e \in Ends |-> [b \in Buffers |-> Empty]]
    /\ rq = [e \in Ends |-> [i \in Buffers |-> i]]
    /\ recv_cq = [e \in Ends |-> <<>>]
    /\ msg_buf = [e \in Ends |-> 0]
    /\ write_buf = [e \in Ends |-> Empty]

-----------------------------------------------------------------------------
(* Sending *)

\* The completions beside the first go back to send_bufs.  Everything is the
\* faulty variant that also gives back the buffer it hands out.
Everything(cq) == cq
Reclaimed(cq) == Tail(cq)

\* get_send_buf: a free buffer, or else what a poll of the completion queue
\* gives back; it spins while there is neither.
GetSendBuf(e) ==
    /\ send_bufs[e] # <<>> \/ send_cq[e] # <<>>
    /\ send_bufs' = [send_bufs EXCEPT ![e] = IF @ # <<>> THEN Tail(@)
                                             ELSE Reclaimed(send_cq[e])]

NextBuf(e) == Head(IF send_bufs[e] # <<>> THEN send_bufs[e] ELSE send_cq[e])

\* What is appended to the buffer, and rdma_post_send or its like.
Post(e, op, m) ==
    /\ GetSendBuf(e)
    /\ mem' = [mem EXCEPT ![e][NextBuf(e)] = Filled(@, op, m)]
    /\ sq' = [sq EXCEPT ![e] = Append(@, [op |-> op, buf |-> NextBuf(e)])]
    /\ sent' = [sent EXCEPT ![e] = m]
    /\ UNCHANGED <<kind, header, body, placed, unacked, recvVars>>

SendMsg(e, op, m) ==
    /\ Post(e, op, m)
    /\ send_cq' = [send_cq EXCEPT ![e] = IF send_bufs[e] # <<>> THEN @ ELSE <<>>]

Op == CASE kind = "SEND_RECV" -> "SEND"
        [] kind = "RDMA_WRITE" -> "WRITE"
        [] kind = "RDMA_WRITE_IMM" -> "WRITE_IMM"

\* The constructor of RDMAWriteSocket sends the key of its write_buf.
SendKey(e) ==
    /\ pc[e] = "setup"
    /\ SendMsg(e, "SEND", [type |-> "KEY", n |-> 0, len |-> 0])
    /\ pc' = [pc EXCEPT ![e] = "key"]

\* A handler sends its next request.
Request(e) ==
    /\ e = "client"
    /\ pc[e] = "ready"
    /\ header[e].n < MaxRequests
    /\ \E l \in Lengths :
          SendMsg(e, Op, [type |-> "REQUEST", n |-> header[e].n + 1, len |-> l])
    /\ pc' = [pc EXCEPT ![e] = "header"]

\* An executor answers the request.
Answer(e) ==
    /\ pc[e] = "handle"
    /\ \E l \in Lengths :
          SendMsg(e, Op, [type |-> "ANSWER", n |-> header[e].n, len |-> l])
    /\ pc' = [pc EXCEPT ![e] = "header"]

\* send_close drops the completions that have come and then waits for one.
SendClose(e) ==
    /\ e = "client"
    /\ pc[e] = "ready"
    /\ Post(e, Op, Close)
    /\ send_cq' = [send_cq EXCEPT ![e] = <<>>]
    /\ pc' = [pc EXCEPT ![e] = "closing"]

PollClose(e) ==
    /\ pc[e] = "closing"
    /\ send_cq[e] # <<>>
    /\ send_cq' = [send_cq EXCEPT ![e] = Tail(@)]
    /\ pc' = [pc EXCEPT ![e] = "closed"]
    /\ UNCHANGED <<kind, sent, header, body, send_bufs, mem, sq, placed, unacked,
                   recvVars>>

\* rdma_disconnect and the end of the buffers: what is posted is flushed.
Delete(e) ==
    /\ pc[e] = "closed"
    /\ sq' = [sq EXCEPT ![e] = <<>>]
    /\ placed' = [placed EXCEPT ![e] = 0]
    /\ unacked' = [unacked EXCEPT ![e] = <<>>]
    /\ pc' = [pc EXCEPT ![e] = "deleted"]
    /\ UNCHANGED <<kind, sent, header, body, send_bufs, mem, send_cq, recvVars>>

-----------------------------------------------------------------------------
(* Receiving *)

\* get_recv_buf takes the first completion.
GetRecvBuf(e) ==
    /\ recv_cq[e] # <<>>
    /\ msg_buf' = [msg_buf EXCEPT ![e] = Head(recv_cq[e])]
    /\ recv_cq' = [recv_cq EXCEPT ![e] = Tail(@)]

\* The constructor of RDMAWriteSocket waits for the key of the other end.
RecvKey(e) ==
    /\ pc[e] = "key"
    /\ recv_cq[e] # <<>>
    /\ recv_cq' = [recv_cq EXCEPT ![e] = Tail(@)]
    /\ rq' = [rq EXCEPT ![e] = Append(@, Head(recv_cq[e]))]
    /\ pc' = [pc EXCEPT ![e] = IF e = "client" THEN "ready" ELSE "header"]
    /\ UNCHANGED <<kind, sent, header, body, sendVars, recv_mem, msg_buf, write_buf>>

\* recv_header: a completion says that the message is there, or, for plain
\* writes, the arrival flag at the end of the header.
RecvHeader(e) ==
    /\ pc[e] = "header"
    /\ \/ /\ kind = "SEND_RECV"
          /\ GetRecvBuf(e)
          /\ header' = [header EXCEPT ![e] = recv_mem[e][Head(recv_cq[e])][0]]
       \/ /\ kind = "RDMA_WRITE"
          /\ write_buf[e][0] # Zero
          /\ header' = [header EXCEPT ![e] = write_buf[e][0]]
          /\ UNCHANGED <<msg_buf, recv_cq>>
       \/ /\ kind = "RDMA_WRITE_IMM"
          /\ GetRecvBuf(e)
          /\ header' = [header EXCEPT ![e] = write_buf[e][0]]
    /\ pc' = [pc EXCEPT ![e] = "body"]
    /\ UNCHANGED <<kind, sent, body, sendVars, recv_mem, rq, write_buf>>

\* get_body: plain writes have another arrival flag after the body.  Unchecked
\* is the faulty variant that does not wait for it.
Unchecked(e) == TRUE
BodyArrived(e) ==
    kind = "RDMA_WRITE" => write_buf[e][header[e].len + 1] # Zero

\* The receive buffer goes back to the adapter; NoBuffer is the faulty variant
\* that forgets post_recv.
NoBuffer(b) == <<>>
Reposted(b) == <<b>>

\* recv_body: the body is copied and clear_msg_buf makes room for the next.
RecvBody(e) ==
    LET buf == IF kind = "SEND_RECV" THEN recv_mem[e][msg_buf[e]] ELSE write_buf[e]
    IN  /\ pc[e] = "body"
        /\ BodyArrived(e)
        /\ body' = [body EXCEPT ![e] = {buf[i] : i \in 1..header[e].len}]
        /\ IF kind = "RDMA_WRITE" THEN UNCHANGED rq
           ELSE rq' = [rq EXCEPT ![e] = @ \o Reposted(msg_buf[e])]
        /\ write_buf' = IF kind = "SEND_RECV" THEN write_buf
                        ELSE [write_buf EXCEPT ![e] = Cleared(@)]
        /\ msg_buf' = [msg_buf EXCEPT ![e] = 0]
        /\ pc' = [pc EXCEPT ![e] = IF e = "client" THEN "ready"
                                   ELSE IF header[e].type = "CLOSE" THEN "closed"
                                   ELSE "handle"]
        /\ UNCHANGED <<kind, sent, header, sendVars, recv_mem, recv_cq>>

-----------------------------------------------------------------------------
(* The adapter *)

\* The first posted request has been sent.
Sent(e) ==
    /\ sq' = [sq EXCEPT ![e] = Tail(@)]
    /\ placed' = [placed EXCEPT ![e] = 0]
    /\ unacked' = [unacked EXCEPT ![e] = Append(@, Head(sq[e]).buf)]

\* A receive buffer of the other end is used up.
Consume(e) ==
    /\ rq[e] # <<>>
    /\ rq' = [rq EXCEPT ![e] = Tail(@)]
    /\ recv_cq' = [recv_cq EXCEPT ![e] = Append(@, Head(rq[e]))]

Connected(e) == sq[e] # <<>> /\ pc[Peer(e)] # "deleted"

TransmitSend(e) ==
    /\ Connected(e)
    /\ Head(sq[e]).op = "SEND"
    /\ Sent(e)
    /\ Consume(Peer(e))
    /\ recv_mem' = [recv_mem EXCEPT ![Peer(e)][Head(rq[Peer(e)])] = mem[e][Head(sq[e]).buf]]
    /\ UNCHANGED <<threadVars, send_bufs, mem, send_cq, msg_buf, write_buf>>

\* One cell of a write after the other, the last with the completion that a
\* write with immediate raises at the other end.
PlaceCell(e) ==
    LET i == placed[e]
        last == i = Cells - 1
    IN  /\ Connected(e)
        /\ Head(sq[e]).op # "SEND"
        /\ write_buf' = [write_buf EXCEPT ![Peer(e)][i] = mem[e][Head(sq[e]).buf][i]]
        /\ IF last THEN Sent(e)
           ELSE placed' = [placed EXCEPT ![e] = i + 1] /\ UNCHANGED <<sq, unacked>>
        /\ IF last /\ Head(sq[e]).op = "WRITE_IMM" THEN Consume(Peer(e))
           ELSE UNCHANGED <<rq, recv_cq>>
        /\ UNCHANGED <<threadVars, send_bufs, mem, send_cq, recv_mem, msg_buf>>

\* Once the other end is gone, what is left ends with an error, which nobody
\* tells from a completion.
Flush(e) ==
    /\ sq[e] # <<>>
    /\ pc[Peer(e)] = "deleted"
    /\ Sent(e)
    /\ UNCHANGED <<threadVars, send_bufs, mem, send_cq, recvVars>>

Complete(e) ==
    /\ unacked[e] # <<>>
    /\ unacked' = [unacked EXCEPT ![e] = Tail(@)]
    /\ send_cq' = [send_cq EXCEPT ![e] = Append(@, Head(unacked[e]))]
    /\ UNCHANGED <<threadVars, send_bufs, mem, sq, placed, recvVars>>

-----------------------------------------------------------------------------
(* The whole connection *)

Thread(e) ==
    \/ SendKey(e) \/ RecvKey(e)
    \/ Request(e) \/ Answer(e) \/ RecvHeader(e) \/ RecvBody(e)
    \/ SendClose(e) \/ PollClose(e) \/ Delete(e)

Adapter(e) == TransmitSend(e) \/ PlaceCell(e) \/ Flush(e) \/ Complete(e)

Next == \E e \in Ends : Thread(e) \/ Adapter(e)

Spec == Init /\ [][Next]_vars

\* Threads are scheduled and the adapter works off what is posted.
FairSpec == Spec /\ \A e \in Ends : WF_vars(Thread(e)) /\ WF_vars(Adapter(e))

-----------------------------------------------------------------------------
(* Properties *)

\* Every variable stays in the set of values its code can hold.
TypeOK ==
    /\ kind \in Kinds
    /\ pc \in [Ends -> {"setup", "key", "ready", "header", "body", "handle",
                        "closing", "closed", "deleted"}]
    /\ sent \in [Ends -> Message]
    /\ header \in [Ends -> Message]
    /\ body \in [Ends -> SUBSET (Message \cup {Zero, Flag})]
    /\ send_bufs \in [Ends -> Seq(Buffers)]
    /\ mem \in [Ends -> [Buffers -> Packet]]
    /\ sq \in [Ends -> Seq([op : {"SEND", "WRITE", "WRITE_IMM"}, buf : Buffers])]
    /\ placed \in [Ends -> 0..(Cells - 1)]
    /\ unacked \in [Ends -> Seq(Buffers)]
    /\ send_cq \in [Ends -> Seq(Buffers)]
    /\ recv_mem \in [Ends -> [Buffers -> Packet]]
    /\ rq \in [Ends -> Seq(Buffers)]
    /\ recv_cq \in [Ends -> Seq(Buffers)]
    /\ msg_buf \in [Ends -> 0..Window]
    /\ write_buf \in [Ends -> Packet]

\* What an end has received is the last message of the other, with its whole
\* body: no arrival flag is seen too early and none is left from an earlier
\* message, although the buffers and write_buf are used again and again.
IntactMessages ==
    \A e \in Ends :
        pc[e] \in {"ready", "handle"} /\ header[e] # NoMsg =>
            header[e] = sent[Peer(e)] /\ body[e] \subseteq {header[e]}

\* Buffers that the adapter may still read, or whose completion is not polled.
Pending(e) == [i \in 1..Len(sq[e]) |-> sq[e][i].buf] \o unacked[e] \o send_cq[e]

\* No buffer is handed out while the adapter may still read it: those that are
\* free and those that are pending are all different.
NoBufferInUse ==
    \A e \in Ends :
        LET all == send_bufs[e] \o Pending(e)
        IN  \A i, j \in 1..Len(all) : all[i] = all[j] => i = j

\* A message that needs a receive buffer of the other end finds one posted.
ReceiverReady ==
    \A e \in Ends :
        sq[e] # <<>> /\ Head(sq[e]).op # "WRITE" => rq[Peer(e)] # <<>>

\* When send_close returns, its CLOSE has been sent.
CloseSent == pc["client"] = "closed" => sq["client"] = <<>>

\* Every answer arrives and every completion is polled, however often the
\* buffers have been used: the client gets to the end of send_close.
ClientCloses == <>(pc["client"] = "deleted")
=============================================================================
