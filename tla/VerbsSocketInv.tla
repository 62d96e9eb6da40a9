--------------------------- MODULE VerbsSocketInv ---------------------------
(***************************************************************************)
(* The inductive invariant of VerbsSocket: what the two ends say to each   *)
(* other, where the message under way is, and whose the buffers are.       *)
(* VerbsSocketProofs proves it.                                            *)
(***************************************************************************)
EXTENDS VerbsSocket

Key == [type |-> "KEY", n |-> 0, len |-> 0]
Setup(e) == pc[e] \in {"setup", "key"}

-----------------------------------------------------------------------------
(* The conversation *)

\* An end that has said nothing but its key.
Silent(e) == sent[e] = (IF kind = "SEND_RECV" \/ pc[e] = "setup" THEN NoMsg ELSE Key)

\* Nothing has been asked yet.
Fresh == header["server"] = NoMsg /\ header["client"] = NoMsg /\ Silent("server")

\* The last answer of the server is the last message the client has read.
Quiet == sent["server"].type = "ANSWER" /\ header["client"] = sent["server"]

\* The server waits, and the client has its answer to the last request.
Settled ==
    /\ pc["server"] \in {"key", "header"}
    /\ \/ Fresh
       \/ Quiet /\ header["server"].type = "REQUEST" /\ sent["server"].n = header["server"].n

\* The client has sent a request, which follows the answer it had.
Asked == sent["client"].type = "REQUEST" /\ sent["client"].n = header["client"].n + 1

\* The server is at the last message of the client.
Taking ==
    /\ header["server"] = sent["client"]
    /\ (header["client"] = NoMsg /\ Silent("server")) \/ Quiet

\* The server has answered the request that the client waits for.
Replied ==
    /\ pc["server"] = "header"
    /\ sent["client"].type = "REQUEST" /\ header["server"] = sent["client"]
    /\ sent["server"].type = "ANSWER" /\ sent["server"].n = sent["client"].n

TalkOK ==
    /\ \A e \in Ends : Setup(e) => /\ kind # "SEND_RECV" /\ Silent(e)
                                   /\ header[e] = NoMsg /\ body[e] = {}
    /\ pc["client"] # "handle"
    /\ pc["server"] \notin {"ready", "closing"}
    /\ Setup("client") => Fresh /\ pc["server"] \in {"setup", "key", "header"}
    /\ pc["client"] = "ready" =>
          Settled /\ IF header["server"] = NoMsg THEN Silent("client")
                     ELSE sent["client"] = header["server"]
    /\ pc["client"] = "header" =>
          \/ Asked /\ Settled
          \/ Asked /\ Taking /\ pc["server"] \in {"body", "handle"}
          \/ Replied /\ sent["client"].n = header["client"].n + 1
    /\ pc["client"] = "body" => Replied /\ header["client"] = sent["server"]
    /\ pc["client"] \in {"closing", "closed", "deleted"} =>
          /\ sent["client"] = Close
          /\ Settled \/ (Taking /\ pc["server"] \in {"body", "closed", "deleted"})

\* What has been read is the message of the header and nothing else.
BodiesOK ==
    /\ pc["client"] = "ready" => body["client"] \subseteq {header["client"]}
    /\ pc["server"] \in {"handle", "closed", "deleted"} =>
          body["server"] \subseteq {header["server"]}

-----------------------------------------------------------------------------
(* The message under way from e to its peer *)

\* What a send buffer contains when a message has been appended.
Packed(m) == Filled(Empty, Op, m)

\* The peer has not read the header of the last message.
Coming(e) == sent[e].type \in {"REQUEST", "ANSWER", "CLOSE"} /\ header[Peer(e)] # sent[e]

Reading(e) == Coming(e) \/ pc[Peer(e)] = "body"

\* The key is posted and not sent.
KeyPosted(e) == kind # "SEND_RECV" /\ sq[e] # <<>> /\ sq[e][1].op = "SEND"

\* Before the key has come the peer is in its constructor, and nothing that was
\* sent has been completed.
KeyOK(e) ==
    /\ pc[e] = "setup" => sq[e] = <<>>
    /\ pc[e] = "setup" \/ KeyPosted(e) =>
          /\ Setup(Peer(e)) /\ recv_cq[Peer(e)] = <<>>
          /\ placed[e] = 0 /\ unacked[e] = <<>> /\ send_cq[e] = <<>>
          /\ pc[e] \notin {"closed", "deleted"}

\* A posted request of the type of this connection, and its message.
Posts(e, i, m) == sq[e][i].op = Op /\ mem[e][sq[e][i].buf] = Packed(m)

\* The cells behind the arrival flags, which a plain write may still be placing
\* when the message has been read.
Trailing(e, m) ==
    /\ kind = "RDMA_WRITE" /\ m.type \in {"REQUEST", "ANSWER", "CLOSE"}
    /\ placed[e] > m.len + 1

\* The send queue is empty, or has the key, the message under way, the rest of
\* the message before, or one of the last two behind the other.
QueueOK(e) ==
    \/ sq[e] = <<>> /\ placed[e] = 0
    \/ Len(sq[e]) = 1 /\ KeyPosted(e) /\ ~Coming(e)
    \/ /\ Len(sq[e]) = 1 /\ Posts(e, 1, sent[e])
       /\ \/ Coming(e)
          \/ Trailing(e, sent[e])
          \/ kind = "RDMA_WRITE" /\ pc[Peer(e)] = "body"
    \/ /\ Len(sq[e]) = 2 /\ Coming(e) /\ Posts(e, 2, sent[e])
       /\ \/ KeyPosted(e)
          \/ Posts(e, 1, header[Peer(e)]) /\ Trailing(e, header[Peer(e)])

\* The first k cells of a message in write_buf.
Shows(p, m, k) ==
    write_buf[p] = [j \in 0..(Cells - 1) |-> IF j < k THEN Packed(m)[j] ELSE Zero]

\* The message that is sent is all that write_buf shows, and nothing is left of
\* one that has been read.
WriteBufOK(e) ==
    kind # "SEND_RECV" =>
        IF Reading(e) /\ sq[e] = <<>> THEN \E k \in 0..Cells : Shows(Peer(e), sent[e], k)
        ELSE IF Reading(e) /\ Len(sq[e]) = 1 THEN Shows(Peer(e), sent[e], placed[e])
        ELSE write_buf[Peer(e)] = Empty

\* A completion tells of the key.
KeyCompletions(p) == IF Setup(p) THEN 1 ELSE 0

\* The whole message has been received.
Whole(p, b, m) ==
    IF kind = "SEND_RECV" THEN recv_mem[p][b] = Packed(m) ELSE write_buf[p] = Packed(m)

\* After the one for the key, a completion tells of the message under way.
ArrivedOK(e) ==
    LET p == Peer(e)
        n == Len(recv_cq[p])
    IN  /\ n <= KeyCompletions(p) + 1
        /\ n = KeyCompletions(p) + 1 =>
              /\ kind # "RDMA_WRITE" /\ Coming(e) /\ sq[e] = <<>>
              /\ Whole(p, recv_cq[p][1], sent[e])
        /\ Setup(p) => n > 0 \/ pc[e] = "setup" \/ KeyPosted(e)
        /\ kind # "RDMA_WRITE" /\ pc[p] = "body" =>
              sq[e] = <<>> /\ Whole(p, msg_buf[p], sent[e])

LinkOK(e) == KeyOK(e) /\ QueueOK(e) /\ WriteBufOK(e) /\ ArrivedOK(e)

-----------------------------------------------------------------------------
(* Buffers *)

\* Each receive buffer is posted, filled or being read.
ReceiveOK(e) ==
    /\ msg_buf[e] # 0 <=> pc[e] = "body" /\ kind # "RDMA_WRITE"
    /\ Len(rq[e]) + Len(recv_cq[e]) + (IF msg_buf[e] # 0 THEN 1 ELSE 0) = Window

Distinct(s) == \A i, j \in 1..Len(s) : s[i] = s[j] => i = j
Apart(s, t) == \A i \in 1..Len(s), j \in 1..Len(t) : s[i] # t[j]

Posted(e) == [i \in 1..Len(sq[e]) |-> sq[e][i].buf]

\* Each send buffer is free, posted, sent or completed.
BuffersOK(e) ==
    /\ Distinct(send_bufs[e]) /\ Distinct(Posted(e)) /\ Distinct(unacked[e]) /\ Distinct(send_cq[e])
    /\ Apart(send_bufs[e], Posted(e)) /\ Apart(send_bufs[e], unacked[e])
    /\ Apart(send_bufs[e], send_cq[e])
    /\ Apart(Posted(e), unacked[e]) /\ Apart(Posted(e), send_cq[e])
    /\ Apart(unacked[e], send_cq[e])

IInv ==
    /\ TypeOK /\ TalkOK /\ BodiesOK
    /\ \A e \in Ends : LinkOK(e) /\ ReceiveOK(e) /\ BuffersOK(e)
=============================================================================
