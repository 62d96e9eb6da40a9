------------------------- MODULE VerbsSocketProofs --------------------------
(***************************************************************************)
(* Proofs about VerbsSocket: the inductive invariant of VerbsSocketInv and *)
(* what follows from it, for every size of the window and of a packet, and *)
(* the refinement of VerbsChannel.                                         *)
(***************************************************************************)
EXTENDS VerbsChannel, Integers, TLAPS

-----------------------------------------------------------------------------
(* Sequences *)

\* What Tail and Head are of a sequence that is not empty.
LEMMA TailFacts ==
    ASSUME NEW S, NEW s \in Seq(S), s # <<>>
    PROVE  /\ Len(s) \in Nat /\ Len(s) > 0
           /\ Tail(s) \in Seq(S) /\ Len(Tail(s)) = Len(s) - 1
           /\ \A i \in 1..Len(Tail(s)) : Tail(s)[i] = s[i + 1]
           /\ Head(s) = s[1] /\ Head(s) \in S
OBVIOUS

\* What Append makes of a sequence.
LEMMA AppendFacts ==
    ASSUME NEW S, NEW s \in Seq(S), NEW x \in S
    PROVE  /\ Append(s, x) \in Seq(S) /\ Len(Append(s, x)) = Len(s) + 1
           /\ Append(s, x)[Len(s) + 1] = x
           /\ \A i \in 1..Len(s) : Append(s, x)[i] = s[i]
           /\ Append(s, x) # <<>>
OBVIOUS

\* The empty sequence is the one of length 0.
LEMMA LengthFacts ==
    ASSUME NEW S, NEW s \in Seq(S)
    PROVE  /\ Len(s) \in Nat
           /\ s = <<>> <=> Len(s) = 0
           /\ \A i \in 1..Len(s) : s[i] \in S
OBVIOUS

\* The empty sequence belongs to every type.
LEMMA EmptySequence == \A S : <<>> \in Seq(S) /\ Len(<<>>) = 0
OBVIOUS

\* A sequence of at most one element.
LEMMA AtMostOne ==
    ASSUME NEW S, NEW s \in Seq(S), Len(s) <= 1
    PROVE  (s = <<>> /\ Len(s) = 0) \/ (s # <<>> /\ Len(s) = 1)
<1>1. Len(s) \in Nat /\ (s = <<>> <=> Len(s) = 0)
  BY LengthFacts
<1>2. \A n \in Nat : n <= 1 => n = 0 \/ n = 1
  OBVIOUS
<1>. QED  BY <1>1, <1>2, Zenon

\* The tail of a sequence of two elements.
LEMMA SecondOfTwo ==
    ASSUME NEW S, NEW s \in Seq(S), Len(s) = 2
    PROVE  Tail(s) # <<>> /\ Len(Tail(s)) = 1 /\ Tail(s)[1] = s[2]
<1>1. s # <<>>
  BY EmptySequence
<1>8. /\ Tail(s) \in Seq(S) /\ Len(Tail(s)) = Len(s) - 1
      /\ \A i \in 1..Len(Tail(s)) : Tail(s)[i] = s[i + 1]
  BY <1>1, TailFacts
<1>9. Len(Tail(s)) = 2 - 1
  BY <1>8, Zenon
<1>2. /\ Tail(s) \in Seq(S) /\ Len(Tail(s)) = 2 - 1
      /\ \A i \in 1..(2 - 1) : Tail(s)[i] = s[i + 1]
  BY <1>8, <1>9, Zenon
<1>3. 2 - 1 = 1 /\ 1 \in 1..(2 - 1) /\ 1 + 1 = 2 /\ 0 # 1
  OBVIOUS
<1>4. Len(Tail(s)) = 1
  BY <1>2, <1>3, Zenon
<1>5. Tail(s)[1] = s[1 + 1]
  BY <1>2, <1>3, Zenon
<1>6. Tail(s) # <<>>
  BY <1>3, <1>4, EmptySequence, Zenon
<1>7. s[1 + 1] = s[2]
  OBVIOUS
<1>. QED  BY <1>4, <1>5, <1>6, <1>7, Zenon

-----------------------------------------------------------------------------
(* The buffers of one end *)

\* The first of different elements is none of the others.
LEMMA DistinctTail ==
    ASSUME NEW S, NEW s \in Seq(S), s # <<>>, Distinct(s)
    PROVE  /\ Distinct(Tail(s))
           /\ \A i \in 1..Len(Tail(s)) : Tail(s)[i] # Head(s)
<1>1. /\ Len(s) \in Nat /\ Len(s) > 0 /\ Len(Tail(s)) = Len(s) - 1
      /\ \A i \in 1..Len(Tail(s)) : Tail(s)[i] = s[i + 1]
      /\ Head(s) = s[1]
  BY TailFacts
<1>2. \A i \in 1..Len(Tail(s)) : i + 1 \in 1..Len(s) /\ i + 1 # 1
  BY <1>1
<1>3. \A i, j \in 1..Len(Tail(s)) : i + 1 = j + 1 => i = j
  BY <1>1
<1>4. 1 \in 1..Len(s)
  BY <1>1
<1>. QED  BY <1>1, <1>2, <1>3, <1>4 DEF Distinct

\* A new element keeps a sequence free of repetitions.
LEMMA DistinctAppend ==
    ASSUME NEW S, NEW s \in Seq(S), NEW x \in S, Distinct(s),
           \A i \in 1..Len(s) : s[i] # x
    PROVE  Distinct(Append(s, x))
<1>1. /\ Len(s) \in Nat /\ Len(Append(s, x)) = Len(s) + 1
      /\ Append(s, x)[Len(s) + 1] = x
      /\ \A i \in 1..Len(s) : Append(s, x)[i] = s[i]
  BY AppendFacts, LengthFacts
<1>2. \A i \in 1..(Len(s) + 1) : i \in 1..Len(s) \/ i = Len(s) + 1
  BY <1>1
<1>. QED  BY <1>1, <1>2 DEF Distinct

\* What is apart from a sequence is apart from its tail.
LEMMA ApartTail ==
    ASSUME NEW S, NEW s \in Seq(S), s # <<>>, NEW t, Apart(s, t)
    PROVE  Apart(Tail(s), t) /\ \A j \in 1..Len(t) : Head(s) # t[j]
<1>1. /\ Len(s) \in Nat /\ Len(s) > 0 /\ Len(Tail(s)) = Len(s) - 1
      /\ \A i \in 1..Len(Tail(s)) : Tail(s)[i] = s[i + 1]
      /\ Head(s) = s[1]
  BY TailFacts
<1>2. \A i \in 1..Len(Tail(s)) : i + 1 \in 1..Len(s)
  BY <1>1
<1>3. 1 \in 1..Len(s)
  BY <1>1
<1>. QED  BY <1>1, <1>2, <1>3 DEF Apart

\* What is apart from a sequence and from an element is apart from both.
LEMMA ApartAppend ==
    ASSUME NEW S, NEW s \in Seq(S), NEW x \in S, NEW t, Apart(s, t),
           \A j \in 1..Len(t) : x # t[j]
    PROVE  Apart(Append(s, x), t)
<1>1. /\ Len(s) \in Nat /\ Len(Append(s, x)) = Len(s) + 1
      /\ Append(s, x)[Len(s) + 1] = x
      /\ \A i \in 1..Len(s) : Append(s, x)[i] = s[i]
  BY AppendFacts, LengthFacts
<1>2. \A i \in 1..(Len(s) + 1) : i \in 1..Len(s) \/ i = Len(s) + 1
  BY <1>1
<1>. QED  BY <1>1, <1>2 DEF Apart

\* Being apart has no direction.
LEMMA ApartSymmetric == ASSUME NEW s, NEW t PROVE Apart(s, t) <=> Apart(t, s)
BY DEF Apart

\* The empty sequence is apart from every other.
LEMMA NothingApart == \A t : Apart(<<>>, t) /\ Apart(t, <<>>) /\ Distinct(<<>>)
BY DEF Apart, Distinct

\* Two sequences without common or repeated elements have none together.
LEMMA DistinctConcat ==
    ASSUME NEW S, NEW s \in Seq(S), NEW t \in Seq(S),
           Distinct(s), Distinct(t), Apart(s, t)
    PROVE  Distinct(s \o t)
<1>1. /\ Len(s) \in Nat /\ Len(t) \in Nat /\ Len(s \o t) = Len(s) + Len(t)
      /\ \A i \in 1..Len(s) : (s \o t)[i] = s[i]
      /\ \A i \in 1..Len(t) : (s \o t)[Len(s) + i] = t[i]
  OBVIOUS
<1>2. \A i \in 1..(Len(s) + Len(t)) :
        i \in 1..Len(s) \/ (i - Len(s) \in 1..Len(t) /\ i = Len(s) + (i - Len(s)))
  BY <1>1
<1>3. \A i \in 1..Len(s \o t) :
        \/ i \in 1..Len(s) /\ (s \o t)[i] = s[i]
        \/ i - Len(s) \in 1..Len(t) /\ (s \o t)[i] = t[i - Len(s)] /\ i \in Int
  BY <1>1, <1>2
<1>4. \A i, j \in Int : i - Len(s) = j - Len(s) => i = j
  BY <1>1
<1>. QED  BY <1>3, <1>4 DEF Distinct, Apart

\* A sequence apart from two is apart from their concatenation.
LEMMA ApartConcat ==
    ASSUME NEW S, NEW s \in Seq(S), NEW t \in Seq(S), NEW r,
           Apart(r, s), Apart(r, t)
    PROVE  Apart(r, s \o t)
<1>1. /\ Len(s) \in Nat /\ Len(t) \in Nat /\ Len(s \o t) = Len(s) + Len(t)
      /\ \A i \in 1..Len(s) : (s \o t)[i] = s[i]
      /\ \A i \in 1..Len(t) : (s \o t)[Len(s) + i] = t[i]
  OBVIOUS
<1>2. \A i \in 1..(Len(s) + Len(t)) :
        i \in 1..Len(s) \/ (i - Len(s) \in 1..Len(t) /\ i = Len(s) + (i - Len(s)))
  BY <1>1
<1>3. \A i \in 1..Len(s \o t) :
        \/ i \in 1..Len(s) /\ (s \o t)[i] = s[i]
        \/ i - Len(s) \in 1..Len(t) /\ (s \o t)[i] = t[i - Len(s)]
  BY <1>1, <1>2
<1>. QED  BY <1>3 DEF Apart

-----------------------------------------------------------------------------
(* Ends and messages *)

Ops == {"SEND", "WRITE", "WRITE_IMM"}

\* There are two ends.
LEMMA Peers ==
    \A e \in Ends : /\ Peer(e) \in Ends /\ Peer(Peer(e)) = e /\ Peer(e) # e
                    /\ \A d \in Ends : d = e \/ d = Peer(e)
BY DEF Ends, Peer

\* The kinds of a connection and the operation that belongs to each.
LEMMA OpFacts ==
    ASSUME kind \in Kinds
    PROVE  /\ kind \in {"SEND_RECV", "RDMA_WRITE", "RDMA_WRITE_IMM"} /\ Op \in Ops
           /\ Op = "SEND" <=> kind = "SEND_RECV"
           /\ Op = "WRITE_IMM" <=> kind = "RDMA_WRITE_IMM"
           /\ Op = "WRITE" <=> kind = "RDMA_WRITE"
<1>1. kind \in {"SEND_RECV", "RDMA_WRITE", "RDMA_WRITE_IMM"}
  BY VerbsAssumption
<1>. QED  BY <1>1 DEF Op, Ops

\* Buffers and packets are not empty.
LEMMA Sizes ==
    /\ Window \in Nat \ {0} /\ Cells \in Nat /\ Cells > 2 /\ MaxRequests \in Nat
    /\ 0 \in 0..(Cells - 1)
BY VerbsAssumption

\* The fields of a message.
LEMMA MessageFacts ==
    ASSUME NEW m \in Message
    PROVE  /\ m # Zero /\ m # Flag
           /\ m.type \in {"REQUEST", "ANSWER", "none", "KEY", "CLOSE"}
           /\ m.n \in Nat /\ m.len \in Lengths
           /\ m.n <= MaxRequests
           /\ m.type \in {"REQUEST", "ANSWER"} => m.n \in 1..MaxRequests
           /\ m.type \notin {"REQUEST", "ANSWER"} =>
                m = [type |-> m.type, n |-> 0, len |-> 0]
<1>1. CASE m \in [type : {"REQUEST", "ANSWER"}, n : 1..MaxRequests, len : Lengths]
  BY <1>1, Sizes DEF Zero, Flag
<1>2. CASE m \in [type : {"none", "KEY", "CLOSE"}, n : {0}, len : {0}]
  BY <1>2, Sizes DEF Zero, Flag, Lengths
<1>. QED  BY <1>1, <1>2 DEF Message

\* The messages without a body.
LEMMA SomeMessages ==
    /\ NoMsg \in Message /\ Key \in Message /\ Close \in Message
    /\ NoMsg.type = "none" /\ Key.type = "KEY" /\ Close.type = "CLOSE"
    /\ NoMsg.n = 0 /\ Key.n = 0 /\ Close.n = 0
BY DEF NoMsg, Key, Close, Message

\* The messages that a handler and its executor exchange.
LEMMA Talk ==
    ASSUME NEW t \in {"REQUEST", "ANSWER"}, NEW n \in 1..MaxRequests, NEW l \in Lengths
    PROVE  [type |-> t, n |-> n, len |-> l] \in Message
BY DEF Message

\* What is appended to a buffer does not depend on what was in it.
LEMMA FilledAnew == \A p, op, m : Filled(p, op, m) = Filled(Empty, op, m)
BY DEF Filled, Cleared

\* What a packet contains.
LEMMA FilledFacts ==
    ASSUME NEW m \in Message, NEW op
    PROVE  /\ Filled(Empty, op, m) \in Packet
           /\ Empty \in Packet
           /\ m.len + 1 \in 0..(Cells - 1)
           /\ \A i \in 0..m.len : i \in 0..(Cells - 1) /\ Filled(Empty, op, m)[i] = m
           /\ \A i \in 0..(Cells - 1) :
                i > m.len + 1 => Filled(Empty, op, m)[i] = Zero
           /\ op # "SEND" =>
                \A i \in 0..(Cells - 1) : i <= m.len + 1 => Filled(Empty, op, m)[i] # Zero
<1>1. m.len \in Nat /\ m.len <= Cells - 2 /\ Cells \in Nat /\ Cells > 2
  BY MessageFacts, Sizes DEF Lengths
<1>2. Empty \in Packet /\ \A i \in 0..(Cells - 1) : Empty[i] = Zero
  BY DEF Empty, Packet
<1>3. m # Zero /\ Flag # Zero
  BY MessageFacts DEF Flag, Zero
<1>4. Filled(Empty, op, m) =
        [i \in 0..(Cells - 1) |-> IF i <= m.len THEN m
                                  ELSE IF i = m.len + 1 /\ op # "SEND" THEN Flag ELSE Zero]
  BY <1>2 DEF Filled, Cleared
<1>5. Filled(Empty, op, m) \in Packet
  BY <1>4 DEF Packet
<1>. QED  BY <1>1, <1>2, <1>3, <1>4, <1>5

\* The contents of a buffer with a message of this connection.
LEMMA PackedFacts ==
    ASSUME kind \in Kinds, NEW m \in Message
    PROVE  /\ Packed(m) \in Packet /\ Packed(m)[0] = m
           /\ m.len + 1 \in 0..(Cells - 1) /\ m.len \in Nat
           /\ \A i \in 1..m.len : i \in 0..(Cells - 1) /\ Packed(m)[i] = m
           /\ kind # "SEND_RECV" =>
                \A i \in 0..(Cells - 1) : Packed(m)[i] = Zero <=> i > m.len + 1
<1>1. m.len \in Nat
  BY MessageFacts DEF Lengths
<1>2. kind # "SEND_RECV" <=> Op # "SEND"
  BY OpFacts
<1>3. /\ Packed(m) \in Packet
      /\ m.len + 1 \in 0..(Cells - 1)
      /\ \A i \in 0..m.len : i \in 0..(Cells - 1) /\ Packed(m)[i] = m
      /\ \A i \in 0..(Cells - 1) : i > m.len + 1 => Packed(m)[i] = Zero
      /\ Op # "SEND" => \A i \in 0..(Cells - 1) : i <= m.len + 1 => Packed(m)[i] # Zero
  BY FilledFacts DEF Packed
<1>4. 0 \in 0..m.len /\ \A i \in 1..m.len : i \in 0..m.len
  BY <1>1
<1>5. \A i \in 0..(Cells - 1) : i <= m.len + 1 \/ i > m.len + 1
  BY <1>1
<1>6. \A i \in 0..(Cells - 1) : ~(i <= m.len + 1 /\ i > m.len + 1)
  BY <1>1
<1>. QED  BY <1>1, <1>2, <1>3, <1>4, <1>5, <1>6

-----------------------------------------------------------------------------
(* What the steps do *)

Requests == [op : Ops, buf : Buffers]

\* Where an end has its sequences and buffers.
LEMMA EndTypes ==
    ASSUME TypeOK, NEW e \in Ends
    PROVE  /\ kind \in Kinds /\ sent[e] \in Message /\ header[e] \in Message
           /\ send_bufs[e] \in Seq(Buffers) /\ unacked[e] \in Seq(Buffers)
           /\ send_cq[e] \in Seq(Buffers) /\ rq[e] \in Seq(Buffers)
           /\ recv_cq[e] \in Seq(Buffers) /\ sq[e] \in Seq(Requests)
           /\ placed[e] \in 0..(Cells - 1) /\ write_buf[e] \in Packet
           /\ \A b \in Buffers : mem[e][b] \in Packet /\ recv_mem[e][b] \in Packet
           /\ msg_buf[e] \in 0..Window
BY DEF TypeOK, Requests, Ops

\* What send_msg does to the buffers and the queue of the sender.
LEMMA PostEffect ==
    ASSUME TypeOK, NEW x \in Ends, NEW op \in Ops, NEW m \in Message, Post(x, op, m)
    PROVE  /\ send_bufs[x] # <<>> \/ send_cq[x] # <<>>
           /\ NextBuf(x) \in Buffers
           /\ send_bufs' \in [Ends -> Seq(Buffers)] /\ mem' \in [Ends -> [Buffers -> Packet]]
           /\ sq' \in [Ends -> Seq(Requests)] /\ sent' \in [Ends -> Message]
           /\ sent'[x] = m /\ sq'[x] = Append(sq[x], [op |-> op, buf |-> NextBuf(x)])
           /\ \A b \in Buffers : mem'[x][b] = IF b = NextBuf(x) THEN Filled(Empty, op, m)
                                              ELSE mem[x][b]
           /\ send_bufs[x] # <<>> => /\ NextBuf(x) = Head(send_bufs[x])
                                     /\ send_bufs'[x] = Tail(send_bufs[x])
           /\ send_bufs[x] = <<>> => /\ NextBuf(x) = Head(send_cq[x])
                                     /\ send_bufs'[x] = Tail(send_cq[x])
           /\ \A d \in Ends : d # x => /\ sent'[d] = sent[d] /\ sq'[d] = sq[d]
                                       /\ mem'[d] = mem[d] /\ send_bufs'[d] = send_bufs[d]
<1>. DEFINE b == NextBuf(x)
            r == [op |-> op, buf |-> b]
<1>1. /\ send_bufs[x] \in Seq(Buffers) /\ send_cq[x] \in Seq(Buffers)
      /\ sq[x] \in Seq(Requests)
  BY EndTypes
<1>2. send_bufs[x] # <<>> \/ send_cq[x] # <<>>
  BY DEF Post, GetSendBuf
<1>3. b = IF send_bufs[x] # <<>> THEN Head(send_bufs[x]) ELSE Head(send_cq[x])
  BY DEF NextBuf
<1>4. b \in Buffers
  BY <1>1, <1>2, <1>3, TailFacts
<1>5. r \in Requests
  BY <1>4 DEF Requests
<1>. HIDE DEF b
<1>6. /\ send_bufs \in [Ends -> Seq(Buffers)] /\ mem \in [Ends -> [Buffers -> Packet]]
      /\ sq \in [Ends -> Seq(Requests)] /\ sent \in [Ends -> Message]
  BY DEF TypeOK, Requests, Ops
<1>7. send_bufs' = [send_bufs EXCEPT ![x] = IF send_bufs[x] # <<>> THEN Tail(send_bufs[x])
                                            ELSE Tail(send_cq[x])]
  BY <1>6 DEF Post, GetSendBuf, Reclaimed
<1>8. Tail(send_bufs[x]) \in Seq(Buffers) \/ send_bufs[x] = <<>>
  BY <1>1, TailFacts
<1>9. Tail(send_cq[x]) \in Seq(Buffers) \/ send_cq[x] = <<>>
  BY <1>1, TailFacts
<1>10. /\ send_bufs' \in [Ends -> Seq(Buffers)]
       /\ send_bufs[x] # <<>> => send_bufs'[x] = Tail(send_bufs[x])
       /\ send_bufs[x] = <<>> => send_bufs'[x] = Tail(send_cq[x])
       /\ \A d \in Ends : d # x => send_bufs'[d] = send_bufs[d]
  BY <1>2, <1>6, <1>7, <1>8, <1>9
<1>11. mem' = [mem EXCEPT ![x] = [mem[x] EXCEPT ![b] = Filled(mem[x][b], op, m)]]
  BY <1>6 DEF Post, b
<1>12. Filled(mem[x][b], op, m) = Filled(Empty, op, m) /\ Filled(Empty, op, m) \in Packet
  BY FilledAnew, FilledFacts
<1>13. mem' = [mem EXCEPT ![x] = [mem[x] EXCEPT ![b] = Filled(Empty, op, m)]]
  BY <1>11, <1>12
<1>14. /\ mem' \in [Ends -> [Buffers -> Packet]]
       /\ \A c \in Buffers : mem'[x][c] = IF c = b THEN Filled(Empty, op, m) ELSE mem[x][c]
       /\ \A d \in Ends : d # x => mem'[d] = mem[d]
  BY <1>4, <1>6, <1>12, <1>13
<1>15. sq' = [sq EXCEPT ![x] = Append(sq[x], r)]
  BY <1>6 DEF Post, b
<1>16. Append(sq[x], r) \in Seq(Requests)
  BY <1>1, <1>5, AppendFacts
<1>17. /\ sq' \in [Ends -> Seq(Requests)] /\ sq'[x] = Append(sq[x], r)
       /\ \A d \in Ends : d # x => sq'[d] = sq[d]
  BY <1>6, <1>15, <1>16
<1>18. /\ sent' \in [Ends -> Message] /\ sent'[x] = m
       /\ \A d \in Ends : d # x => sent'[d] = sent[d]
  BY <1>6 DEF Post
<1>. QED  BY <1>2, <1>3, <1>4, <1>10, <1>14, <1>17, <1>18 DEF b

\* What the adapter does to the queue when the first request has been sent.
LEMMA SentEffect ==
    ASSUME TypeOK, NEW e \in Ends, sq[e] # <<>>, Sent(e)
    PROVE  /\ sq' \in [Ends -> Seq(Requests)] /\ placed' \in [Ends -> 0..(Cells - 1)]
           /\ unacked' \in [Ends -> Seq(Buffers)]
           /\ sq'[e] = Tail(sq[e]) /\ placed'[e] = 0
           /\ unacked'[e] = Append(unacked[e], sq[e][1].buf)
           /\ sq[e][1] \in Requests
           /\ \A d \in Ends : d # e => /\ sq'[d] = sq[d] /\ placed'[d] = placed[d]
                                       /\ unacked'[d] = unacked[d]
<1>1. sq[e] \in Seq(Requests) /\ unacked[e] \in Seq(Buffers)
  BY EndTypes
<1>2. Tail(sq[e]) \in Seq(Requests) /\ Head(sq[e]) = sq[e][1] /\ sq[e][1] \in Requests
  BY <1>1, TailFacts
<1>3. sq[e][1].buf \in Buffers
  BY <1>2 DEF Requests
<1>4. Append(unacked[e], sq[e][1].buf) \in Seq(Buffers)
  BY <1>1, <1>3, AppendFacts
<1>5. /\ sq \in [Ends -> Seq(Requests)] /\ placed \in [Ends -> 0..(Cells - 1)]
      /\ unacked \in [Ends -> Seq(Buffers)] /\ 0 \in 0..(Cells - 1)
  BY Sizes DEF TypeOK, Requests, Ops
<1>6. /\ sq' = [sq EXCEPT ![e] = Tail(sq[e])] /\ placed' = [placed EXCEPT ![e] = 0]
      /\ unacked' = [unacked EXCEPT ![e] = Append(unacked[e], sq[e][1].buf)]
  BY <1>2, <1>5 DEF Sent
<1>. QED  BY <1>2, <1>4, <1>5, <1>6

\* What the adapter does to the receive queues when a message needs a buffer.
LEMMA ConsumeEffect ==
    ASSUME TypeOK, NEW p \in Ends, Consume(p)
    PROVE  /\ rq' \in [Ends -> Seq(Buffers)] /\ recv_cq' \in [Ends -> Seq(Buffers)]
           /\ rq[p] # <<>> /\ Head(rq[p]) \in Buffers
           /\ rq'[p] = Tail(rq[p]) /\ recv_cq'[p] = Append(recv_cq[p], Head(rq[p]))
           /\ \A d \in Ends : d # p => rq'[d] = rq[d] /\ recv_cq'[d] = recv_cq[d]
<1>1. rq[p] \in Seq(Buffers) /\ recv_cq[p] \in Seq(Buffers) /\ rq[p] # <<>>
  BY EndTypes DEF Consume
<1>2. Tail(rq[p]) \in Seq(Buffers) /\ Head(rq[p]) \in Buffers
  BY <1>1, TailFacts
<1>3. Append(recv_cq[p], Head(rq[p])) \in Seq(Buffers)
  BY <1>1, <1>2, AppendFacts
<1>4. rq \in [Ends -> Seq(Buffers)] /\ recv_cq \in [Ends -> Seq(Buffers)]
  BY DEF TypeOK
<1>5. /\ rq' = [rq EXCEPT ![p] = Tail(rq[p])]
      /\ recv_cq' = [recv_cq EXCEPT ![p] = Append(recv_cq[p], Head(rq[p]))]
  BY <1>4 DEF Consume
<1>. QED  BY <1>1, <1>2, <1>3, <1>4, <1>5

\* What recv_header reads is the message under way: a completion, or a cell of
\* write_buf that is not zero, is there only for that message.
LEMMA HeaderArrives ==
    ASSUME TypeOK, NEW x \in Ends, LinkOK(Peer(x)), RecvHeader(x)
    PROVE  /\ Coming(Peer(x))
           /\ header' = [header EXCEPT ![x] = sent[Peer(x)]]
           /\ kind = "RDMA_WRITE" => /\ recv_cq[x] = <<>>
                                     /\ sq[Peer(x)] = <<>> \/ Len(sq[Peer(x)]) = 1
                                     /\ UNCHANGED <<msg_buf, recv_cq>>
           /\ kind # "RDMA_WRITE" =>
                /\ Len(recv_cq[x]) = 1 /\ recv_cq[x][1] \in Buffers
                /\ sq[Peer(x)] = <<>> /\ Whole(x, recv_cq[x][1], sent[Peer(x)])
                /\ recv_cq' = [recv_cq EXCEPT ![x] = <<>>]
                /\ msg_buf' = [msg_buf EXCEPT ![x] = recv_cq[x][1]]
<1>. DEFINE e == Peer(x)
<1>1. e \in Ends /\ Peer(e) = x
  BY Peers
<1>2. /\ kind \in Kinds /\ sent[e] \in Message /\ sq[e] \in Seq(Requests)
      /\ placed[e] \in 0..(Cells - 1) /\ recv_cq[x] \in Seq(Buffers)
  BY <1>1, EndTypes
<1>3. Packed(sent[e])[0] = sent[e] /\ 0 \in 0..(Cells - 1)
  BY <1>2, PackedFacts, Sizes
<1>4. kind \in {"SEND_RECV", "RDMA_WRITE", "RDMA_WRITE_IMM"}
  BY <1>2, OpFacts
<1>5. pc[x] = "header" /\ ~Setup(x) /\ KeyCompletions(x) = 0
  BY DEF RecvHeader, Setup, KeyCompletions
<1>6. KeyOK(e) /\ QueueOK(e) /\ WriteBufOK(e) /\ ArrivedOK(e)
  BY DEF LinkOK
<1>7. ~KeyPosted(e)
  BY <1>1, <1>5, <1>6 DEF KeyOK
<1>. HIDE DEF e
<1>8. /\ Len(recv_cq[x]) <= 1
      /\ Len(recv_cq[x]) = 1 =>
            /\ kind # "RDMA_WRITE" /\ Coming(e) /\ sq[e] = <<>>
            /\ Whole(x, recv_cq[x][1], sent[e])
  BY <1>1, <1>5, <1>6 DEF ArrivedOK
<1>9. (recv_cq[x] = <<>> /\ Len(recv_cq[x]) = 0) \/ (recv_cq[x] # <<>> /\ Len(recv_cq[x]) = 1)
  BY <1>2, <1>8, AtMostOne
<1>10. CASE kind = "RDMA_WRITE"
  <2>1. /\ write_buf[x][0] # Zero /\ header' = [header EXCEPT ![x] = write_buf[x][0]]
        /\ UNCHANGED <<msg_buf, recv_cq>>
    BY <1>10 DEF RecvHeader
  <2>2. recv_cq[x] = <<>>
    <3>1. Len(recv_cq[x]) # 1
      BY <1>8, <1>10, Zenon
    <3>. QED  BY <1>9, <3>1, Zenon
  <2>3. write_buf[x] # Empty
    BY <1>3, <2>1 DEF Empty
  <2>4. Reading(e) /\ (sq[e] = <<>> \/ Len(sq[e]) = 1)
    BY <1>1, <1>6, <1>10, <2>3 DEF WriteBufOK
  <2>5. Coming(e)
    BY <1>1, <1>5, <2>4 DEF Reading
  <2>6. PICK k : Shows(x, sent[e], k)
    BY <1>1, <1>6, <1>10, <2>4 DEF WriteBufOK
  <2>7. write_buf[x][0] = IF 0 < k THEN Packed(sent[e])[0] ELSE Zero
    BY <1>3, <2>6 DEF Shows
  <2>8. write_buf[x][0] = sent[e]
    BY <1>3, <2>1, <2>7
  <2>. QED  BY <1>10, <2>1, <2>2, <2>4, <2>5, <2>8 DEF e
<1>11. CASE kind # "RDMA_WRITE"
  <2>1. GetRecvBuf(x) /\ recv_cq[x] # <<>>
    BY <1>11 DEF RecvHeader, GetRecvBuf
  <2>2. Len(recv_cq[x]) = 1 /\ Coming(e) /\ sq[e] = <<>> /\ Whole(x, recv_cq[x][1], sent[e])
    <3>1. Len(recv_cq[x]) = 1
      BY <1>9, <2>1, Zenon
    <3>. QED  BY <1>8, <3>1, Zenon
  <2>3. /\ Head(recv_cq[x]) = recv_cq[x][1] /\ recv_cq[x][1] \in Buffers
        /\ Tail(recv_cq[x]) \in Seq(Buffers) /\ Len(Tail(recv_cq[x])) = 0
    BY <1>2, <2>1, <2>2, TailFacts
  <2>4. Tail(recv_cq[x]) = <<>>
    BY <2>3, LengthFacts
  <2>5. /\ msg_buf' = [msg_buf EXCEPT ![x] = recv_cq[x][1]]
        /\ recv_cq' = [recv_cq EXCEPT ![x] = Tail(recv_cq[x])]
    BY <2>1, <2>3 DEF GetRecvBuf, TypeOK
  <2>6. header' = [header EXCEPT ![x] = sent[e]]
    <3>1. CASE kind = "SEND_RECV"
      <4>1. header' = [header EXCEPT ![x] = recv_mem[x][Head(recv_cq[x])][0]]
        BY <3>1 DEF RecvHeader
      <4>2. recv_mem[x][recv_cq[x][1]] = Packed(sent[e])
        BY <2>2, <3>1 DEF Whole
      <4>. QED  BY <1>3, <2>3, <4>1, <4>2
    <3>2. CASE kind = "RDMA_WRITE_IMM"
      <4>1. header' = [header EXCEPT ![x] = write_buf[x][0]]
        BY <3>2 DEF RecvHeader
      <4>2. write_buf[x] = Packed(sent[e])
        BY <2>2, <3>2 DEF Whole
      <4>. QED  BY <1>3, <4>1, <4>2
    <3>. QED  BY <1>4, <1>11, <3>1, <3>2
  <2>. QED  BY <1>11, <2>2, <2>3, <2>4, <2>5, <2>6 DEF e
<1>. QED  BY <1>10, <1>11

\* What recv_body copies is the message whose header was read; a plain write has
\* placed all of it and its flag.
LEMMA BodyArrives ==
    ASSUME TypeOK, TalkOK, NEW x \in Ends, LinkOK(Peer(x)), RecvBody(x)
    PROVE  /\ header[x] = sent[Peer(x)] /\ ~Coming(Peer(x))
           /\ header[x].type \in {"REQUEST", "ANSWER", "CLOSE"}
           /\ body' = [body EXCEPT ![x] = body'[x]] /\ body'[x] \subseteq {header[x]}
           /\ recv_cq[x] = <<>>
           /\ sq[Peer(x)] = <<>> \/ (/\ kind = "RDMA_WRITE" /\ Len(sq[Peer(x)]) = 1
                                     /\ Posts(Peer(x), 1, sent[Peer(x)])
                                     /\ placed[Peer(x)] > header[x].len + 1)
<1>. DEFINE e == Peer(x)
            m == sent[e]
            buf == IF kind = "SEND_RECV" THEN recv_mem[x][msg_buf[x]] ELSE write_buf[x]
<1>1. e \in Ends /\ Peer(e) = x
  BY Peers
<1>2. /\ kind \in Kinds /\ m \in Message /\ sq[e] \in Seq(Requests)
      /\ placed[e] \in 0..(Cells - 1) /\ recv_cq[x] \in Seq(Buffers)
  BY <1>1, EndTypes
<1>3. pc[x] = "body" /\ ~Setup(x) /\ KeyCompletions(x) = 0
  BY DEF RecvBody, Setup, KeyCompletions
<1>4. KeyOK(e) /\ QueueOK(e) /\ WriteBufOK(e) /\ ArrivedOK(e)
  BY DEF LinkOK
<1>5. ~KeyPosted(e)
  BY <1>1, <1>3, <1>4 DEF KeyOK
<1>6. header[x] = m /\ m.type \in {"REQUEST", "ANSWER", "CLOSE"}
  <2>1. CASE x = "client"
    BY <1>3, <2>1 DEF TalkOK, Replied, Peer
  <2>2. CASE x = "server"
    <3>1. pc["server"] = "body" /\ e = "client"
      BY <1>3, <2>2 DEF Peer
    <3>2. pc["client"] \in {"setup", "key", "ready", "header", "body", "handle",
                            "closing", "closed", "deleted"}
      BY DEF TypeOK, Ends
    <3>3. ~Settled /\ ~Replied
      BY <3>1 DEF Settled, Replied
    <3>4. /\ ~Setup("client") /\ pc["client"] \notin {"ready", "body", "handle"}
          /\ pc["client"] = "header" => Asked /\ Taking
          /\ pc["client"] \in {"closing", "closed", "deleted"} =>
                sent["client"] = Close /\ Taking
      BY <3>1, <3>3 DEF TalkOK
    <3>5. Taking /\ (Asked \/ sent["client"] = Close)
      BY <3>2, <3>4 DEF Setup
    <3>. QED  BY <2>2, <3>1, <3>5, SomeMessages DEF Taking, Asked
  <2>. QED  BY <2>1, <2>2 DEF Ends
<1>7. ~Coming(e)
  BY <1>1, <1>6 DEF Coming
<1>. HIDE DEF e
<1>8. /\ sq[e] = <<>> \/ (Len(sq[e]) = 1 /\ Posts(e, 1, m))
      /\ kind # "RDMA_WRITE" => sq[e] = <<>> /\ Whole(x, msg_buf[x], m)
  BY <1>1, <1>3, <1>4, <1>5, <1>7 DEF QueueOK, ArrivedOK
<1>9. recv_cq[x] = <<>>
  <2>1. Len(recv_cq[x]) <= 1 /\ Len(recv_cq[x]) # 1
    BY <1>1, <1>3, <1>4, <1>7 DEF ArrivedOK
  <2>. QED  BY <1>2, <2>1, AtMostOne, Zenon
<1>10. /\ body' = [body EXCEPT ![x] = {buf[i] : i \in 1..header[x].len}]
       /\ BodyArrived(x)
  BY DEF RecvBody
<1>11. body' = [body EXCEPT ![x] = body'[x]] /\ body'[x] = {buf[i] : i \in 1..m.len}
  BY <1>6, <1>10 DEF TypeOK
<1>12. /\ \A i \in 1..m.len : Packed(m)[i] = m /\ i \in 0..(Cells - 1)
       /\ m.len + 1 \in 0..(Cells - 1) /\ m.len \in Nat
  BY <1>2, PackedFacts
<1>13. kind # "RDMA_WRITE" => buf = Packed(m)
  BY <1>8 DEF Whole
<1>14. ASSUME kind = "RDMA_WRITE"
       PROVE  /\ \A i \in 1..m.len : write_buf[x][i] = m
              /\ sq[e] = <<>> \/ placed[e] > m.len + 1
  <2>1. Reading(e) /\ (sq[e] = <<>> \/ Len(sq[e]) = 1)
    BY <1>1, <1>3, <1>8 DEF Reading
  <2>2. PICK k \in 0..Cells : Shows(x, m, k) /\ (sq[e] = <<>> \/ k = placed[e])
    <3>1. CASE sq[e] = <<>>
      BY <1>1, <1>4, <1>14, <2>1, <3>1 DEF WriteBufOK
    <3>2. CASE sq[e] # <<>>
      <4>1. Shows(x, m, placed[e])
        BY <1>1, <1>4, <1>14, <2>1, <3>2 DEF WriteBufOK
      <4>2. placed[e] \in 0..Cells
        BY <1>2, Sizes
      <4>. QED  BY <4>1, <4>2
    <3>. QED  BY <3>1, <3>2
  <2>3. write_buf[x][m.len + 1] # Zero
    BY <1>6, <1>10, <1>14 DEF BodyArrived
  <2>4. \A i \in 0..(Cells - 1) : write_buf[x][i] = IF i < k THEN Packed(m)[i] ELSE Zero
    BY <2>2 DEF Shows
  <2>5. m.len + 1 < k
    BY <1>12, <2>3, <2>4
  <2>6. \A i \in 1..m.len : i < k
    BY <1>12, <2>5
  <2>. QED  BY <1>12, <2>2, <2>4, <2>5, <2>6
<1>15. \A i \in 1..m.len : buf[i] = m
  BY <1>12, <1>13, <1>14
<1>16. body'[x] \subseteq {m}
  BY <1>11, <1>15
<1>. QED  BY <1>6, <1>7, <1>8, <1>9, <1>11, <1>14, <1>16 DEF e

Sends(x) == SendKey(x) \/ Request(x) \/ Answer(x) \/ SendClose(x)

\* Who posts which message, and what becomes of the completions.
Sending(x, op, m) ==
    \/ /\ pc[x] = "setup" /\ kind # "SEND_RECV" /\ op = "SEND" /\ m = Key
       /\ pc' = [pc EXCEPT ![x] = "key"]
    \/ /\ x = "client" /\ pc[x] = "ready" /\ op = Op
       /\ m.type = "REQUEST" /\ m.n = header[x].n + 1
       /\ pc' = [pc EXCEPT ![x] = "header"]
    \/ /\ x = "server" /\ pc[x] = "handle" /\ op = Op
       /\ m.type = "ANSWER" /\ m.n = header[x].n
       /\ pc' = [pc EXCEPT ![x] = "header"]
    \/ /\ x = "client" /\ pc[x] = "ready" /\ op = Op /\ m = Close
       /\ pc' = [pc EXCEPT ![x] = "closing"]

\* The four steps that send are posts of a message.
LEMMA SendEffect ==
    ASSUME TypeOK, TalkOK, NEW x \in Ends, Sends(x)
    PROVE  \E op \in Ops : \E m \in Message :
              /\ Post(x, op, m) /\ Sending(x, op, m)
              /\ send_cq' \in [Ends -> Seq(Buffers)]
              /\ send_cq'[x] = send_cq[x] \/ send_cq'[x] = <<>>
              /\ send_bufs[x] = <<>> => send_cq'[x] = <<>>
              /\ \A d \in Ends : d # x => send_cq'[d] = send_cq[d]
<1>. DEFINE C == /\ send_cq' \in [Ends -> Seq(Buffers)]
                 /\ send_cq'[x] = send_cq[x] \/ send_cq'[x] = <<>>
                 /\ send_bufs[x] = <<>> => send_cq'[x] = <<>>
                 /\ \A d \in Ends : d # x => send_cq'[d] = send_cq[d]
<1>1. send_cq \in [Ends -> Seq(Buffers)] /\ <<>> \in Seq(Buffers)
  BY EmptySequence DEF TypeOK
<1>2. ASSUME NEW op, NEW m, SendMsg(x, op, m)
      PROVE  Post(x, op, m) /\ C
  <2>1. send_cq' = [send_cq EXCEPT ![x] = IF send_bufs[x] # <<>> THEN send_cq[x] ELSE <<>>]
    BY <1>1, <1>2 DEF SendMsg
  <2>. QED  BY <1>1, <1>2, <2>1 DEF SendMsg
<1>3. kind \in Kinds /\ header[x] \in Message /\ pc \in [Ends -> {"setup", "key", "ready", "header",
          "body", "handle", "closing", "closed", "deleted"}]
  BY DEF TypeOK
<1>4. Op \in Ops /\ "SEND" \in Ops
  BY <1>3, OpFacts DEF Ops
<1>5. CASE SendKey(x)
  <2>1. SendMsg(x, "SEND", Key) /\ pc[x] = "setup" /\ pc' = [pc EXCEPT ![x] = "key"]
    BY <1>5 DEF SendKey, Key
  <2>2. kind # "SEND_RECV"
    BY <2>1 DEF TalkOK, Setup
  <2>3. Sending(x, "SEND", Key)
    BY <2>1, <2>2 DEF Sending
  <2>. QED  BY <1>2, <1>4, <2>1, <2>3, SomeMessages
<1>6. CASE Request(x)
  <2>1. PICK l \in Lengths :
          SendMsg(x, Op, [type |-> "REQUEST", n |-> header[x].n + 1, len |-> l])
    BY <1>6 DEF Request
  <2>2. /\ x = "client" /\ pc[x] = "ready" /\ header[x].n < MaxRequests
        /\ pc' = [pc EXCEPT ![x] = "header"]
    BY <1>6 DEF Request
  <2>3. header[x].n + 1 \in 1..MaxRequests
    BY <1>3, <2>2, MessageFacts, Sizes
  <2>. DEFINE m == [type |-> "REQUEST", n |-> header[x].n + 1, len |-> l]
  <2>4. m \in Message
    BY <2>3, Talk
  <2>5. Sending(x, Op, m)
    BY <2>2 DEF Sending
  <2>. HIDE DEF m, C
  <2>6. Post(x, Op, m) /\ C
    BY <1>2, <2>1 DEF m
  <2>. QED  BY <1>4, <2>4, <2>5, <2>6 DEF C
<1>7. CASE Answer(x)
  <2>1. PICK l \in Lengths :
          SendMsg(x, Op, [type |-> "ANSWER", n |-> header[x].n, len |-> l])
    BY <1>7 DEF Answer
  <2>2. x = "server" /\ pc[x] = "handle" /\ pc' = [pc EXCEPT ![x] = "header"]
    BY <1>7 DEF Answer, TalkOK, Ends
  <2>3. header[x].type = "REQUEST"
    <3>1. pc["client"] \in {"setup", "key", "ready", "header", "body", "handle",
                            "closing", "closed", "deleted"}
      BY DEF TypeOK, Ends
    <3>2. ~Settled /\ ~Replied
      BY <2>2 DEF Settled, Replied
    <3>3. pc["client"] = "header" /\ Asked /\ Taking
      BY <2>2, <3>1, <3>2 DEF TalkOK, Setup
    <3>. QED  BY <2>2, <3>3 DEF Asked, Taking
  <2>4. header[x].n \in 1..MaxRequests
    BY <1>3, <2>3, MessageFacts
  <2>. DEFINE m == [type |-> "ANSWER", n |-> header[x].n, len |-> l]
  <2>5. m \in Message
    BY <2>4, Talk
  <2>6. Sending(x, Op, m)
    BY <2>2 DEF Sending
  <2>. HIDE DEF m, C
  <2>7. Post(x, Op, m) /\ C
    BY <1>2, <2>1 DEF m
  <2>. QED  BY <1>4, <2>5, <2>6, <2>7 DEF C
<1>8. CASE SendClose(x)
  <2>1. /\ x = "client" /\ pc[x] = "ready" /\ Post(x, Op, Close)
        /\ send_cq' = [send_cq EXCEPT ![x] = <<>>] /\ pc' = [pc EXCEPT ![x] = "closing"]
    BY <1>8 DEF SendClose
  <2>2. Sending(x, Op, Close)
    BY <2>1 DEF Sending
  <2>3. C
    BY <1>1, <2>1
  <2>. HIDE DEF C
  <2>. QED  BY <1>4, <2>1, <2>2, <2>3, SomeMessages DEF C
<1>. QED  BY <1>5, <1>6, <1>7, <1>8 DEF Sends

\* What the wait for the key does to the receive queues.
LEMMA RecvKeyEffect ==
    ASSUME TypeOK, NEW x \in Ends, RecvKey(x)
    PROVE  /\ recv_cq' \in [Ends -> Seq(Buffers)] /\ rq' \in [Ends -> Seq(Buffers)]
           /\ recv_cq[x] # <<>> /\ recv_cq'[x] = Tail(recv_cq[x])
           /\ Len(rq'[x]) = Len(rq[x]) + 1
           /\ \A d \in Ends : d # x => recv_cq'[d] = recv_cq[d] /\ rq'[d] = rq[d]
<1>1. rq[x] \in Seq(Buffers) /\ recv_cq[x] \in Seq(Buffers) /\ recv_cq[x] # <<>>
  BY EndTypes DEF RecvKey
<1>2. Tail(recv_cq[x]) \in Seq(Buffers) /\ Head(recv_cq[x]) \in Buffers
  BY <1>1, TailFacts
<1>3. /\ Append(rq[x], Head(recv_cq[x])) \in Seq(Buffers)
      /\ Len(Append(rq[x], Head(recv_cq[x]))) = Len(rq[x]) + 1
  BY <1>1, <1>2, AppendFacts
<1>4. rq \in [Ends -> Seq(Buffers)] /\ recv_cq \in [Ends -> Seq(Buffers)]
  BY DEF TypeOK
<1>5. /\ recv_cq' = [recv_cq EXCEPT ![x] = Tail(recv_cq[x])]
      /\ rq' = [rq EXCEPT ![x] = Append(rq[x], Head(recv_cq[x]))]
  BY <1>4 DEF RecvKey
<1>. QED  BY <1>1, <1>2, <1>3, <1>4, <1>5

\* What clear_msg_buf does to the receive buffers.
LEMMA RecvBodyEffect ==
    ASSUME TypeOK, NEW x \in Ends, ReceiveOK(x), RecvBody(x)
    PROVE  /\ rq' \in [Ends -> Seq(Buffers)] /\ write_buf' \in [Ends -> Packet]
           /\ msg_buf' = [msg_buf EXCEPT ![x] = 0]
           /\ kind = "RDMA_WRITE" => rq' = rq
           /\ kind # "RDMA_WRITE" => Len(rq'[x]) = Len(rq[x]) + 1
           /\ \A d \in Ends : d # x => rq'[d] = rq[d] /\ write_buf'[d] = write_buf[d]
           /\ kind # "SEND_RECV" => write_buf'[x] = Empty
           /\ kind = "SEND_RECV" => write_buf' = write_buf
<1>1. rq[x] \in Seq(Buffers) /\ msg_buf[x] \in 0..Window
  BY EndTypes
<1>2. rq \in [Ends -> Seq(Buffers)] /\ write_buf \in [Ends -> Packet]
  BY DEF TypeOK
<1>3. Empty \in Packet
  BY DEF Empty, Packet
<1>4. /\ msg_buf' = [msg_buf EXCEPT ![x] = 0]
      /\ write_buf' = IF kind = "SEND_RECV" THEN write_buf ELSE [write_buf EXCEPT ![x] = Empty]
  BY <1>2 DEF RecvBody, Cleared
<1>5. CASE kind = "RDMA_WRITE"
  BY <1>2, <1>3, <1>4, <1>5 DEF RecvBody
<1>6. CASE kind # "RDMA_WRITE"
  <2>1. msg_buf[x] \in Buffers
    BY <1>1, <1>6, Sizes DEF ReceiveOK, RecvBody, Buffers
  <2>. DEFINE r == rq[x] \o <<msg_buf[x]>>
  <2>2. r \in Seq(Buffers) /\ Len(r) = Len(rq[x]) + 1
    BY <1>1, <2>1
  <2>3. rq' = [rq EXCEPT ![x] = r]
    BY <1>2, <1>6 DEF RecvBody, Reposted
  <2>. HIDE DEF r
  <2>. QED  BY <1>2, <1>3, <1>4, <1>6, <2>2, <2>3
<1>. QED  BY <1>5, <1>6

\* What the adapter does with one cell of a write.
LEMMA PlaceEffect ==
    ASSUME TypeOK, NEW e \in Ends, PlaceCell(e)
    PROVE  /\ sq[e] # <<>> /\ sq[e][1] \in Requests /\ sq[e][1].op # "SEND"
           /\ write_buf' \in [Ends -> Packet]
           /\ write_buf'[Peer(e)] = [write_buf[Peer(e)] EXCEPT
                                        ![placed[e]] = mem[e][sq[e][1].buf][placed[e]]]
           /\ write_buf'[e] = write_buf[e]
           /\ placed[e] = Cells - 1 => Sent(e)
           /\ placed[e] # Cells - 1 =>
                /\ placed' = [placed EXCEPT ![e] = placed[e] + 1]
                /\ placed[e] + 1 \in 0..(Cells - 1)
                /\ UNCHANGED <<sq, unacked>>
           /\ IF placed[e] = Cells - 1 /\ sq[e][1].op = "WRITE_IMM" THEN Consume(Peer(e))
              ELSE UNCHANGED <<rq, recv_cq>>
<1>1. sq[e] \in Seq(Requests) /\ sq[e] # <<>>
  BY EndTypes DEF PlaceCell, Connected
<1>2. Head(sq[e]) = sq[e][1] /\ sq[e][1] \in Requests
  BY <1>1, TailFacts
<1>3. sq[e][1].buf \in Buffers
  BY <1>2 DEF Requests
<1>4. placed[e] \in 0..(Cells - 1) /\ mem[e][sq[e][1].buf] \in Packet
  BY <1>3, EndTypes
<1>5. Peer(e) \in Ends /\ Peer(e) # e
  BY Peers
<1>6. placed[e] # Cells - 1 => placed[e] + 1 \in 0..(Cells - 1)
  BY <1>4, Sizes
<1>7. write_buf \in [Ends -> Packet]
  BY DEF TypeOK
<1>. DEFINE c == mem[e][sq[e][1].buf][placed[e]]
            w == [write_buf[Peer(e)] EXCEPT ![placed[e]] = c]
<1>8. c \in Message \cup {Zero, Flag}
  BY <1>4 DEF Packet
<1>9. w \in Packet
  BY <1>5, <1>7, <1>8 DEF Packet
<1>10. write_buf' = [write_buf EXCEPT ![Peer(e)] = w]
  BY <1>2, <1>5, <1>7 DEF PlaceCell
<1>. HIDE DEF w, c
<1>11. write_buf' \in [Ends -> Packet] /\ write_buf'[Peer(e)] = w /\ write_buf'[e] = write_buf[e]
  BY <1>5, <1>7, <1>9, <1>10
<1>12. /\ sq[e][1].op # "SEND"
       /\ placed[e] = Cells - 1 => Sent(e)
       /\ placed[e] # Cells - 1 =>
            placed' = [placed EXCEPT ![e] = placed[e] + 1] /\ UNCHANGED <<sq, unacked>>
       /\ IF placed[e] = Cells - 1 /\ sq[e][1].op = "WRITE_IMM" THEN Consume(Peer(e))
          ELSE UNCHANGED <<rq, recv_cq>>
  BY <1>2 DEF PlaceCell
<1>. QED  BY <1>1, <1>2, <1>6, <1>11, <1>12 DEF w, c

\* What the adapter does with a send.
LEMMA TransmitEffect ==
    ASSUME TypeOK, NEW e \in Ends, TransmitSend(e)
    PROVE  /\ sq[e] # <<>> /\ sq[e][1] \in Requests /\ sq[e][1].op = "SEND"
           /\ Sent(e) /\ Consume(Peer(e))
           /\ recv_mem' \in [Ends -> [Buffers -> Packet]]
           /\ recv_mem'[Peer(e)][Head(rq[Peer(e)])] = mem[e][sq[e][1].buf]
           /\ recv_mem'[e] = recv_mem[e]
<1>1. sq[e] \in Seq(Requests) /\ sq[e] # <<>>
  BY EndTypes DEF TransmitSend, Connected
<1>2. Head(sq[e]) = sq[e][1] /\ sq[e][1] \in Requests
  BY <1>1, TailFacts
<1>3. mem[e][sq[e][1].buf] \in Packet
  BY <1>2, EndTypes DEF Requests
<1>4. Peer(e) \in Ends /\ Peer(e) # e
  BY Peers
<1>5. sq[e][1].op = "SEND" /\ Sent(e) /\ Consume(Peer(e))
  BY <1>2 DEF TransmitSend
<1>6. Head(rq[Peer(e)]) \in Buffers
  BY <1>4, <1>5, ConsumeEffect
<1>7. recv_mem \in [Ends -> [Buffers -> Packet]]
  BY DEF TypeOK
<1>. DEFINE b == Head(rq[Peer(e)])
            c == mem[e][sq[e][1].buf]
<1>8. recv_mem' = [recv_mem EXCEPT ![Peer(e)] = [recv_mem[Peer(e)] EXCEPT ![b] = c]]
  BY <1>2, <1>4, <1>7 DEF TransmitSend
<1>. HIDE DEF b, c
<1>9. b \in Buffers /\ c \in Packet
  BY <1>3, <1>6 DEF b, c
<1>10. /\ recv_mem' \in [Ends -> [Buffers -> Packet]]
       /\ recv_mem'[Peer(e)][b] = c /\ recv_mem'[e] = recv_mem[e]
  BY <1>4, <1>7, <1>8, <1>9
<1>. QED  BY <1>1, <1>2, <1>5, <1>10 DEF b, c

-----------------------------------------------------------------------------
(* Types *)

\* What the set of the types is, with names for two of them.
PcTypes == {"setup", "key", "ready", "header", "body", "handle", "closing", "closed", "deleted"}

LEMMA Types ==
    TypeOK <=>
        /\ kind \in Kinds /\ pc \in [Ends -> PcTypes]
        /\ sent \in [Ends -> Message] /\ header \in [Ends -> Message]
        /\ body \in [Ends -> SUBSET (Message \cup {Zero, Flag})]
        /\ send_bufs \in [Ends -> Seq(Buffers)] /\ mem \in [Ends -> [Buffers -> Packet]]
        /\ sq \in [Ends -> Seq(Requests)] /\ placed \in [Ends -> 0..(Cells - 1)]
        /\ unacked \in [Ends -> Seq(Buffers)] /\ send_cq \in [Ends -> Seq(Buffers)]
        /\ recv_mem \in [Ends -> [Buffers -> Packet]]
        /\ rq \in [Ends -> Seq(Buffers)] /\ recv_cq \in [Ends -> Seq(Buffers)]
        /\ msg_buf \in [Ends -> 0..Window] /\ write_buf \in [Ends -> Packet]
BY DEF TypeOK, PcTypes, Requests, Ops

\* Every step keeps the types.
LEMMA TypeStep ==
    ASSUME TypeOK, TalkOK, \A e \in Ends : LinkOK(e) /\ ReceiveOK(e), Next
    PROVE  TypeOK'
<1>1. /\ kind \in Kinds /\ pc \in [Ends -> PcTypes]
      /\ sent \in [Ends -> Message] /\ header \in [Ends -> Message]
      /\ body \in [Ends -> SUBSET (Message \cup {Zero, Flag})]
      /\ send_bufs \in [Ends -> Seq(Buffers)] /\ mem \in [Ends -> [Buffers -> Packet]]
      /\ sq \in [Ends -> Seq(Requests)] /\ placed \in [Ends -> 0..(Cells - 1)]
      /\ unacked \in [Ends -> Seq(Buffers)] /\ send_cq \in [Ends -> Seq(Buffers)]
      /\ recv_mem \in [Ends -> [Buffers -> Packet]]
      /\ rq \in [Ends -> Seq(Buffers)] /\ recv_cq \in [Ends -> Seq(Buffers)]
      /\ msg_buf \in [Ends -> 0..Window] /\ write_buf \in [Ends -> Packet]
  BY Types
<1>. DEFINE T == /\ kind' \in Kinds /\ pc' \in [Ends -> PcTypes]
                 /\ sent' \in [Ends -> Message] /\ header' \in [Ends -> Message]
                 /\ body' \in [Ends -> SUBSET (Message \cup {Zero, Flag})]
                 /\ send_bufs' \in [Ends -> Seq(Buffers)] /\ mem' \in [Ends -> [Buffers -> Packet]]
                 /\ sq' \in [Ends -> Seq(Requests)] /\ placed' \in [Ends -> 0..(Cells - 1)]
                 /\ unacked' \in [Ends -> Seq(Buffers)] /\ send_cq' \in [Ends -> Seq(Buffers)]
                 /\ recv_mem' \in [Ends -> [Buffers -> Packet]]
                 /\ rq' \in [Ends -> Seq(Buffers)] /\ recv_cq' \in [Ends -> Seq(Buffers)]
                 /\ msg_buf' \in [Ends -> 0..Window] /\ write_buf' \in [Ends -> Packet]
<1>2. SUFFICES T
  BY DEF TypeOK, PcTypes, Requests, Ops
<1>3. PICK x \in Ends : Thread(x) \/ Adapter(x)
  BY DEF Next
<1>4. Peer(x) \in Ends
  BY Peers
<1>5. <<>> \in Seq(Buffers) /\ <<>> \in Seq(Requests) /\ 0 \in 0..(Cells - 1) /\ 0 \in 0..Window
      /\ \A b \in Buffers : b \in 0..Window
  BY EmptySequence, Sizes DEF Buffers
<1>6. CASE Sends(x)
  <2>1. PICK op \in Ops : \E m \in Message :
          /\ Post(x, op, m) /\ Sending(x, op, m) /\ send_cq' \in [Ends -> Seq(Buffers)]
    BY <1>6, SendEffect
  <2>2. PICK m \in Message : Post(x, op, m) /\ Sending(x, op, m)
    BY <2>1
  <2>3. /\ send_bufs' \in [Ends -> Seq(Buffers)] /\ mem' \in [Ends -> [Buffers -> Packet]]
        /\ sq' \in [Ends -> Seq(Requests)] /\ sent' \in [Ends -> Message]
    BY <2>2, PostEffect
  <2>4. pc' \in [Ends -> PcTypes]
    BY <1>1, <2>2 DEF Sending, PcTypes
  <2>. QED  BY <1>1, <2>1, <2>2, <2>3, <2>4 DEF Post, recvVars
<1>7. CASE RecvKey(x)
  <2>1. recv_cq' \in [Ends -> Seq(Buffers)] /\ rq' \in [Ends -> Seq(Buffers)]
    BY <1>7, RecvKeyEffect
  <2>2. pc' \in [Ends -> PcTypes]
    BY <1>1, <1>7 DEF RecvKey, PcTypes
  <2>. QED  BY <1>1, <1>7, <2>1, <2>2 DEF RecvKey, sendVars
<1>8. CASE RecvHeader(x)
  <2>1. header' = [header EXCEPT ![x] = sent[Peer(x)]]
    BY <1>4, <1>8, HeaderArrives
  <2>2. recv_cq' \in [Ends -> Seq(Buffers)] /\ msg_buf' \in [Ends -> 0..Window]
    <3>1. CASE kind = "RDMA_WRITE"
      BY <1>1, <1>4, <1>8, <3>1, HeaderArrives
    <3>2. CASE kind # "RDMA_WRITE"
      <4>1. /\ recv_cq[x][1] \in Buffers /\ recv_cq' = [recv_cq EXCEPT ![x] = <<>>]
            /\ msg_buf' = [msg_buf EXCEPT ![x] = recv_cq[x][1]]
        BY <1>4, <1>8, <3>2, HeaderArrives
      <4>. QED  BY <1>1, <1>5, <4>1
    <3>. QED  BY <3>1, <3>2
  <2>3. pc' \in [Ends -> PcTypes] /\ header' \in [Ends -> Message]
    BY <1>1, <1>4, <1>8, <2>1 DEF RecvHeader, PcTypes
  <2>. QED  BY <1>1, <1>8, <2>2, <2>3 DEF RecvHeader, sendVars
<1>9. CASE RecvBody(x)
  <2>1. body' = [body EXCEPT ![x] = body'[x]] /\ body'[x] \subseteq {header[x]}
    BY <1>4, <1>9, BodyArrives
  <2>2. /\ rq' \in [Ends -> Seq(Buffers)] /\ write_buf' \in [Ends -> Packet]
        /\ msg_buf' = [msg_buf EXCEPT ![x] = 0]
    BY <1>9, RecvBodyEffect
  <2>3. body'[x] \in SUBSET (Message \cup {Zero, Flag})
    BY <1>1, <2>1
  <2>4. /\ body' \in [Ends -> SUBSET (Message \cup {Zero, Flag})]
        /\ msg_buf' \in [Ends -> 0..Window]
    BY <1>1, <1>5, <2>1, <2>2, <2>3
  <2>5. pc' \in [Ends -> PcTypes]
    BY <1>1, <1>9 DEF RecvBody, PcTypes
  <2>. QED  BY <1>1, <1>9, <2>2, <2>4, <2>5 DEF RecvBody, sendVars
<1>10. CASE PollClose(x)
  <2>1. send_cq' = [send_cq EXCEPT ![x] = Tail(send_cq[x])] /\ send_cq[x] # <<>>
    BY <1>1, <1>10 DEF PollClose
  <2>2. Tail(send_cq[x]) \in Seq(Buffers)
    BY <1>1, <2>1, TailFacts
  <2>3. pc' \in [Ends -> PcTypes] /\ send_cq' \in [Ends -> Seq(Buffers)]
    BY <1>1, <1>10, <2>1, <2>2 DEF PollClose, PcTypes
  <2>. QED  BY <1>1, <1>10, <2>3 DEF PollClose, recvVars
<1>11. CASE Delete(x)
  <2>1. /\ pc' \in [Ends -> PcTypes] /\ sq' \in [Ends -> Seq(Requests)]
        /\ placed' \in [Ends -> 0..(Cells - 1)] /\ unacked' \in [Ends -> Seq(Buffers)]
    BY <1>1, <1>5, <1>11 DEF Delete, PcTypes
  <2>. QED  BY <1>1, <1>11, <2>1 DEF Delete, recvVars
<1>12. CASE TransmitSend(x)
  <2>1. /\ sq[x] # <<>> /\ Sent(x) /\ Consume(Peer(x))
        /\ recv_mem' \in [Ends -> [Buffers -> Packet]]
    BY <1>12, TransmitEffect
  <2>2. /\ sq' \in [Ends -> Seq(Requests)] /\ placed' \in [Ends -> 0..(Cells - 1)]
        /\ unacked' \in [Ends -> Seq(Buffers)]
    BY <2>1, SentEffect
  <2>3. rq' \in [Ends -> Seq(Buffers)] /\ recv_cq' \in [Ends -> Seq(Buffers)]
    BY <1>4, <2>1, ConsumeEffect
  <2>. QED  BY <1>1, <1>12, <2>1, <2>2, <2>3 DEF TransmitSend, threadVars
<1>13. CASE PlaceCell(x)
  <2>1. sq[x] # <<>> /\ write_buf' \in [Ends -> Packet]
    BY <1>13, PlaceEffect
  <2>2. /\ sq' \in [Ends -> Seq(Requests)] /\ placed' \in [Ends -> 0..(Cells - 1)]
        /\ unacked' \in [Ends -> Seq(Buffers)]
    <3>1. CASE placed[x] = Cells - 1
      BY <1>13, <2>1, <3>1, PlaceEffect, SentEffect
    <3>2. CASE placed[x] # Cells - 1
      <4>1. /\ placed' = [placed EXCEPT ![x] = placed[x] + 1]
            /\ placed[x] + 1 \in 0..(Cells - 1) /\ sq' = sq /\ unacked' = unacked
        BY <1>13, <3>2, PlaceEffect
      <4>. QED  BY <1>1, <4>1
    <3>. QED  BY <3>1, <3>2
  <2>3. rq' \in [Ends -> Seq(Buffers)] /\ recv_cq' \in [Ends -> Seq(Buffers)]
    BY <1>1, <1>4, <1>13, PlaceEffect, ConsumeEffect
  <2>. QED  BY <1>1, <1>13, <2>1, <2>2, <2>3 DEF PlaceCell, threadVars
<1>14. CASE Flush(x)
  <2>1. /\ sq' \in [Ends -> Seq(Requests)] /\ placed' \in [Ends -> 0..(Cells - 1)]
        /\ unacked' \in [Ends -> Seq(Buffers)]
    BY <1>14, SentEffect DEF Flush
  <2>. QED  BY <1>1, <1>14, <2>1 DEF Flush, threadVars, recvVars
<1>15. CASE Complete(x)
  <2>1. /\ unacked[x] # <<>> /\ unacked' = [unacked EXCEPT ![x] = Tail(unacked[x])]
        /\ send_cq' = [send_cq EXCEPT ![x] = Append(send_cq[x], Head(unacked[x]))]
    BY <1>1, <1>15 DEF Complete
  <2>2. Tail(unacked[x]) \in Seq(Buffers) /\ Head(unacked[x]) \in Buffers
    BY <1>1, <2>1, TailFacts
  <2>3. Append(send_cq[x], Head(unacked[x])) \in Seq(Buffers)
    BY <1>1, <2>2, AppendFacts
  <2>4. unacked' \in [Ends -> Seq(Buffers)] /\ send_cq' \in [Ends -> Seq(Buffers)]
    BY <1>1, <2>1, <2>2, <2>3
  <2>. QED  BY <1>1, <1>15, <2>4 DEF Complete, threadVars, recvVars
<1>. QED  BY <1>3, <1>6, <1>7, <1>8, <1>9, <1>10, <1>11, <1>12, <1>13, <1>14, <1>15
          DEF Thread, Adapter, Sends

-----------------------------------------------------------------------------
(* Receive buffers *)

\* A step that takes nothing from the receive queues of an end.
LEMMA SameReceive ==
    ASSUME NEW e \in Ends, ReceiveOK(e), kind' = kind, msg_buf'[e] = msg_buf[e],
           rq'[e] = rq[e], recv_cq'[e] = recv_cq[e], pc'[e] = "body" <=> pc[e] = "body"
    PROVE  ReceiveOK(e)'
BY DEF ReceiveOK

\* Receive buffers are moved, none is lost.
LEMMA ReceiveStep ==
    ASSUME TypeOK, TalkOK, \A e \in Ends : LinkOK(e) /\ ReceiveOK(e), Next
    PROVE  \A e \in Ends : ReceiveOK(e)'
<1>1. PICK x \in Ends : Thread(x) \/ Adapter(x)
  BY DEF Next
<1>2. Peer(x) \in Ends /\ Peer(x) # x /\ \A d \in Ends : d # x => d = Peer(x)
  BY Peers
<1>3. \A e \in Ends : rq[e] \in Seq(Buffers) /\ recv_cq[e] \in Seq(Buffers)
  BY EndTypes
<1>4. \A e \in Ends : Len(rq[e]) \in Nat /\ Len(recv_cq[e]) \in Nat
  BY <1>3, LengthFacts
<1>5. pc \in [Ends -> PcTypes] /\ msg_buf \in [Ends -> 0..Window]
  BY Types
<1>6. ASSUME kind' = kind, msg_buf' = msg_buf, rq' = rq, recv_cq' = recv_cq,
             pc'[x] = "body" <=> pc[x] = "body", \A d \in Ends : d # x => pc'[d] = pc[d]
      PROVE  \A e \in Ends : ReceiveOK(e)'
  BY <1>6, SameReceive
<1>7. CASE Sends(x)
  <2>1. PICK op \in Ops : \E m \in Message : Post(x, op, m) /\ Sending(x, op, m)
    BY <1>7, SendEffect
  <2>2. PICK m \in Message : Post(x, op, m) /\ Sending(x, op, m)
    BY <2>1
  <2>3. /\ pc'[x] = "body" <=> pc[x] = "body"
        /\ \A d \in Ends : d # x => pc'[d] = pc[d]
    BY <1>5, <2>2 DEF Sending
  <2>4. kind' = kind /\ msg_buf' = msg_buf /\ rq' = rq /\ recv_cq' = recv_cq
    BY <2>2 DEF Post, recvVars
  <2>. QED  BY <1>6, <2>3, <2>4
<1>8. CASE PollClose(x) \/ Delete(x)
  <2>1. /\ pc'[x] = "body" <=> pc[x] = "body"
        /\ \A d \in Ends : d # x => pc'[d] = pc[d]
        /\ kind' = kind /\ msg_buf' = msg_buf /\ rq' = rq /\ recv_cq' = recv_cq
    BY <1>5, <1>8 DEF PollClose, Delete, recvVars
  <2>. QED  BY <1>6, <2>1
<1>9. CASE Flush(x) \/ Complete(x)
  <2>1. pc' = pc /\ kind' = kind /\ msg_buf' = msg_buf /\ rq' = rq /\ recv_cq' = recv_cq
    BY <1>9 DEF Flush, Complete, recvVars, threadVars
  <2>. QED  BY <1>6, <2>1
<1>10. CASE RecvKey(x)
  <2>1. /\ recv_cq[x] # <<>> /\ recv_cq'[x] = Tail(recv_cq[x])
        /\ Len(rq'[x]) = Len(rq[x]) + 1
        /\ \A d \in Ends : d # x => recv_cq'[d] = recv_cq[d] /\ rq'[d] = rq[d]
    BY <1>10, RecvKeyEffect
  <2>2. /\ kind' = kind /\ msg_buf' = msg_buf /\ pc[x] # "body" /\ pc'[x] # "body"
        /\ \A d \in Ends : d # x => pc'[d] = pc[d]
    BY <1>5, <1>10 DEF RecvKey
  <2>3. Len(recv_cq'[x]) = Len(recv_cq[x]) - 1
    BY <1>3, <2>1, TailFacts
  <2>4. ReceiveOK(x)
    OBVIOUS
  <2>5. Len(rq'[x]) + Len(recv_cq'[x]) = Len(rq[x]) + Len(recv_cq[x])
    <3>. DEFINE a == Len(rq[x])
                b == Len(recv_cq[x])
                c == Len(rq'[x])
                d == Len(recv_cq'[x])
    <3>1. a \in Nat /\ b \in Nat /\ c = a + 1 /\ d = b - 1
      BY <1>4, <2>1, <2>3
    <3>. HIDE DEF a, b, c, d
    <3>2. c + d = a + b
      BY <3>1
    <3>. QED  BY <3>2 DEF a, b, c, d
  <2>6. ReceiveOK(x)'
    BY <2>2, <2>4, <2>5 DEF ReceiveOK
  <2>7. ReceiveOK(Peer(x))'
    BY <1>2, <2>1, <2>2, SameReceive
  <2>. QED  BY <1>2, <2>6, <2>7
<1>11. CASE RecvHeader(x)
  <2>1. /\ kind' = kind /\ rq' = rq /\ pc[x] = "header" /\ pc'[x] = "body"
        /\ \A d \in Ends : d # x => pc'[d] = pc[d]
    BY <1>5, <1>11 DEF RecvHeader
  <2>2. ReceiveOK(x) /\ msg_buf[x] = 0
    BY <2>1 DEF ReceiveOK
  <2>3. CASE kind = "RDMA_WRITE"
    <3>1. msg_buf' = msg_buf /\ recv_cq' = recv_cq
      BY <1>2, <1>11, <2>3, HeaderArrives
    <3>2. ReceiveOK(x)'
      BY <2>1, <2>2, <2>3, <3>1 DEF ReceiveOK
    <3>3. ReceiveOK(Peer(x))'
      BY <1>2, <2>1, <3>1, SameReceive
    <3>. QED  BY <1>2, <3>2, <3>3
  <2>4. CASE kind # "RDMA_WRITE"
    <3>1. /\ Len(recv_cq[x]) = 1 /\ recv_cq[x][1] \in Buffers
          /\ recv_cq' = [recv_cq EXCEPT ![x] = <<>>]
          /\ msg_buf' = [msg_buf EXCEPT ![x] = recv_cq[x][1]]
      BY <1>2, <1>11, <2>4, HeaderArrives
    <3>2. recv_cq \in [Ends -> Seq(Buffers)] /\ recv_cq[x][1] # 0
      BY <3>1, Types DEF Buffers
    <3>3. /\ recv_cq'[x] = <<>> /\ msg_buf'[x] = recv_cq[x][1]
          /\ \A d \in Ends : d # x => recv_cq'[d] = recv_cq[d] /\ msg_buf'[d] = msg_buf[d]
      BY <1>5, <3>1, <3>2
    <3>4. Len(recv_cq'[x]) = 0 /\ msg_buf'[x] # 0
      BY <3>2, <3>3
    <3>5. Len(rq[x]) + 1 = Window
      BY <1>4, <2>2, <3>1 DEF ReceiveOK
    <3>6. ReceiveOK(x)'
      BY <1>4, <2>1, <2>4, <3>4, <3>5 DEF ReceiveOK
    <3>7. ReceiveOK(Peer(x))'
      BY <1>2, <2>1, <3>3, SameReceive
    <3>. QED  BY <1>2, <3>6, <3>7
  <2>. QED  BY <2>3, <2>4
<1>12. CASE RecvBody(x)
  <2>1. /\ kind' = kind /\ recv_cq' = recv_cq /\ pc[x] = "body" /\ pc'[x] # "body"
        /\ \A d \in Ends : d # x => pc'[d] = pc[d]
    BY <1>5, <1>12 DEF RecvBody
  <2>2. /\ msg_buf' = [msg_buf EXCEPT ![x] = 0]
        /\ kind = "RDMA_WRITE" => rq' = rq
        /\ kind # "RDMA_WRITE" => Len(rq'[x]) = Len(rq[x]) + 1
        /\ \A d \in Ends : d # x => rq'[d] = rq[d]
    BY <1>12, RecvBodyEffect
  <2>3. msg_buf'[x] = 0 /\ \A d \in Ends : d # x => msg_buf'[d] = msg_buf[d]
    BY <1>5, <2>2
  <2>4. ReceiveOK(x)
    OBVIOUS
  <2>5. Len(rq'[x]) + Len(recv_cq'[x]) + 0 = Window
    <3>1. CASE kind = "RDMA_WRITE"
      <4>1. Len(rq[x]) + Len(recv_cq[x]) + 0 = Window
        BY <2>4, <3>1 DEF ReceiveOK
      <4>. QED  BY <2>1, <2>2, <3>1, <4>1, Zenon
    <3>2. CASE kind # "RDMA_WRITE"
      <4>1. Len(rq[x]) + Len(recv_cq[x]) + 1 = Window
        BY <2>1, <2>4, <3>2 DEF ReceiveOK
      <4>2. Len(rq'[x]) = Len(rq[x]) + 1 /\ recv_cq'[x] = recv_cq[x]
        BY <2>1, <2>2, <3>2
      <4>. DEFINE a == Len(rq[x])
                  b == Len(recv_cq[x])
                  c == Len(rq'[x])
      <4>3. a \in Nat /\ b \in Nat /\ c = a + 1 /\ a + b + 1 = Window
        BY <1>4, <4>1, <4>2
      <4>. HIDE DEF a, b, c
      <4>4. c + b + 0 = Window
        BY <4>3
      <4>. QED  BY <4>2, <4>4 DEF a, b, c
    <3>. QED  BY <3>1, <3>2
  <2>6. ReceiveOK(x)'
    BY <2>1, <2>3, <2>5 DEF ReceiveOK
  <2>7. ReceiveOK(Peer(x))'
    BY <1>2, <2>1, <2>2, <2>3, SameReceive
  <2>. QED  BY <1>2, <2>6, <2>7
<1>13. ASSUME Consume(Peer(x)), pc' = pc, kind' = kind, msg_buf' = msg_buf
       PROVE  \A e \in Ends : ReceiveOK(e)'
  <2>. DEFINE p == Peer(x)
  <2>1. /\ rq[p] # <<>> /\ Head(rq[p]) \in Buffers
        /\ rq'[p] = Tail(rq[p]) /\ recv_cq'[p] = Append(recv_cq[p], Head(rq[p]))
        /\ \A d \in Ends : d # p => rq'[d] = rq[d] /\ recv_cq'[d] = recv_cq[d]
    BY <1>2, <1>13, ConsumeEffect
  <2>2. Len(rq'[p]) = Len(rq[p]) - 1 /\ Len(recv_cq'[p]) = Len(recv_cq[p]) + 1
    BY <1>2, <1>3, <2>1, TailFacts, AppendFacts
  <2>3. Len(rq'[p]) + Len(recv_cq'[p]) = Len(rq[p]) + Len(recv_cq[p])
    <3>. DEFINE a == Len(recv_cq[p])
                b == Len(rq[p])
                c == Len(recv_cq'[p])
                d == Len(rq'[p])
    <3>1. a \in Nat /\ b \in Nat /\ c = a + 1 /\ d = b - 1
      BY <1>2, <1>4, <2>2
    <3>. HIDE DEF a, b, c, d
    <3>2. d + c = b + a
      BY <3>1
    <3>. QED  BY <3>2 DEF a, b, c, d
  <2>4. ReceiveOK(p) /\ ReceiveOK(x) /\ p \in Ends /\ x # p
    BY <1>2
  <2>5. ReceiveOK(p)'
    BY <1>13, <2>3, <2>4 DEF ReceiveOK
  <2>6. ReceiveOK(x)'
    BY <1>13, <2>1, <2>4, SameReceive
  <2>. QED  BY <1>2, <2>5, <2>6
<1>14. CASE TransmitSend(x)
  <2>1. Consume(Peer(x)) /\ pc' = pc /\ kind' = kind /\ msg_buf' = msg_buf
    BY <1>14 DEF TransmitSend, threadVars
  <2>. QED  BY <1>13, <2>1
<1>15. CASE PlaceCell(x)
  <2>1. pc' = pc /\ kind' = kind /\ msg_buf' = msg_buf
    BY <1>15 DEF PlaceCell, threadVars
  <2>2. Consume(Peer(x)) \/ UNCHANGED <<rq, recv_cq>>
    BY <1>15, PlaceEffect
  <2>. QED  BY <1>6, <1>13, <2>1, <2>2
<1>. QED  BY <1>1, <1>7, <1>8, <1>9, <1>10, <1>11, <1>12, <1>14, <1>15
          DEF Thread, Adapter, Sends

-----------------------------------------------------------------------------
(* Send buffers *)

\* The buffers of a sequence of requests.
Bufs(s) == [i \in 1..Len(s) |-> s[i].buf]

\* They are a sequence of the same length.
LEMMA BufsFacts ==
    ASSUME NEW s \in Seq(Requests)
    PROVE  /\ Bufs(s) \in Seq(Buffers) /\ Len(Bufs(s)) = Len(s)
           /\ \A i \in 1..Len(s) : Bufs(s)[i] = s[i].buf
<1>1. Len(s) \in Nat /\ \A i \in 1..Len(s) : s[i] \in Requests
  BY LengthFacts
<1>2. \A i \in 1..Len(s) : s[i].buf \in Buffers
  BY <1>1 DEF Requests
<1>. DEFINE n == Len(s)
            f == [i \in 1..n |-> s[i].buf]
<1>. HIDE DEF n
<1>3. f \in [1..n -> Buffers] /\ n \in Nat
  BY <1>1, <1>2 DEF n
<1>. HIDE DEF f
<1>4. f \in Seq(Buffers) /\ Len(f) = n
  BY <1>3
<1>. QED  BY <1>4 DEF f, n, Bufs

\* Sequences that have the same length and the same elements are the same.
LEMMA SameSequence ==
    ASSUME NEW S, NEW s \in Seq(S), NEW t \in Seq(S), Len(s) = Len(t),
           \A i \in 1..Len(s) : s[i] = t[i]
    PROVE  s = t
OBVIOUS

\* The buffers of a queue to which a request is appended.
LEMMA BufsAppend ==
    ASSUME NEW s \in Seq(Requests), NEW r \in Requests
    PROVE  Bufs(Append(s, r)) = Append(Bufs(s), r.buf)
<1>1. r.buf \in Buffers
  BY DEF Requests
<1>2. /\ Append(s, r) \in Seq(Requests) /\ Len(Append(s, r)) = Len(s) + 1
      /\ Append(s, r)[Len(s) + 1] = r /\ \A i \in 1..Len(s) : Append(s, r)[i] = s[i]
  BY AppendFacts
<1>3. /\ Bufs(s) \in Seq(Buffers) /\ Len(Bufs(s)) = Len(s)
      /\ \A i \in 1..Len(s) : Bufs(s)[i] = s[i].buf
  BY BufsFacts
<1>4. /\ Bufs(Append(s, r)) \in Seq(Buffers) /\ Len(Bufs(Append(s, r))) = Len(s) + 1
      /\ \A i \in 1..(Len(s) + 1) : Bufs(Append(s, r))[i] = Append(s, r)[i].buf
  BY <1>2, BufsFacts
<1>5. /\ Append(Bufs(s), r.buf) \in Seq(Buffers) /\ Len(Append(Bufs(s), r.buf)) = Len(s) + 1
      /\ Append(Bufs(s), r.buf)[Len(s) + 1] = r.buf
      /\ \A i \in 1..Len(s) : Append(Bufs(s), r.buf)[i] = Bufs(s)[i]
  BY <1>1, <1>3, AppendFacts
<1>6. \A i \in 1..(Len(s) + 1) : i \in 1..Len(s) \/ i = Len(s) + 1
  BY LengthFacts
<1>7. \A i \in 1..(Len(s) + 1) : Bufs(Append(s, r))[i] = Append(Bufs(s), r.buf)[i]
  BY <1>2, <1>3, <1>4, <1>5, <1>6, Zenon
<1>. HIDE DEF Bufs
<1>. QED  BY <1>4, <1>5, <1>7, SameSequence

\* The buffers of a queue whose first request has been sent.
LEMMA BufsTail ==
    ASSUME NEW s \in Seq(Requests), s # <<>>
    PROVE  Bufs(s) # <<>> /\ Bufs(Tail(s)) = Tail(Bufs(s)) /\ Head(Bufs(s)) = s[1].buf
<1>1. /\ Len(s) \in Nat /\ Len(s) > 0 /\ Tail(s) \in Seq(Requests)
      /\ Len(Tail(s)) = Len(s) - 1 /\ \A i \in 1..Len(Tail(s)) : Tail(s)[i] = s[i + 1]
  BY TailFacts
<1>2. /\ Bufs(s) \in Seq(Buffers) /\ Len(Bufs(s)) = Len(s)
      /\ \A i \in 1..Len(s) : Bufs(s)[i] = s[i].buf
  BY BufsFacts
<1>3. Bufs(s) # <<>>
  BY <1>1, <1>2, LengthFacts
<1>4. /\ Tail(Bufs(s)) \in Seq(Buffers) /\ Len(Tail(Bufs(s))) = Len(s) - 1
      /\ \A i \in 1..Len(Tail(Bufs(s))) : Tail(Bufs(s))[i] = Bufs(s)[i + 1]
      /\ Head(Bufs(s)) = Bufs(s)[1]
  BY <1>2, <1>3, TailFacts
<1>5. /\ Bufs(Tail(s)) \in Seq(Buffers) /\ Len(Bufs(Tail(s))) = Len(s) - 1
      /\ \A i \in 1..Len(Tail(s)) : Bufs(Tail(s))[i] = Tail(s)[i].buf
  BY <1>1, BufsFacts
<1>6. 1 \in 1..Len(s) /\ \A i \in 1..(Len(s) - 1) : i + 1 \in 1..Len(s)
  BY <1>1
<1>7. \A i \in 1..(Len(s) - 1) : Bufs(Tail(s))[i] = Tail(Bufs(s))[i]
  BY <1>1, <1>2, <1>4, <1>5, <1>6, Zenon
<1>8. Bufs(Tail(s)) = Tail(Bufs(s))
  BY <1>4, <1>5, <1>7, SameSequence
<1>. QED  BY <1>2, <1>3, <1>4, <1>6, <1>8

\* Four sequences of buffers without a common or repeated one.
Parted(s, p, u, c) ==
    /\ Distinct(s) /\ Distinct(p) /\ Distinct(u) /\ Distinct(c)
    /\ Apart(s, p) /\ Apart(s, u) /\ Apart(s, c)
    /\ Apart(p, u) /\ Apart(p, c) /\ Apart(u, c)

\* BuffersOK says this of the buffers of an end.
LEMMA BuffersParted ==
    \A e : BuffersOK(e) <=> Parted(send_bufs[e], Bufs(sq[e]), unacked[e], send_cq[e])
BY DEF BuffersOK, Parted, Posted, Bufs

\* It stays so when the first element of one is appended to the next, and when
\* a sequence is dropped.
LEMMA PartedMoves ==
    ASSUME NEW s \in Seq(Buffers), NEW p \in Seq(Buffers), NEW u \in Seq(Buffers),
           NEW c \in Seq(Buffers), Parted(s, p, u, c)
    PROVE  /\ s # <<>> => /\ Parted(Tail(s), Append(p, Head(s)), u, c)
                          /\ Parted(Tail(s), Append(p, Head(s)), u, <<>>)
           /\ c # <<>> => /\ Parted(Tail(c), Append(p, Head(c)), u, <<>>)
                          /\ Parted(s, p, u, Tail(c))
           /\ p # <<>> => Parted(s, Tail(p), Append(u, Head(p)), c)
           /\ u # <<>> => Parted(s, p, Tail(u), Append(c, Head(u)))
           /\ Parted(s, <<>>, <<>>, c)
<1>1. \A a, b : Apart(a, b) <=> Apart(b, a)
  BY ApartSymmetric
<1>2. \A a : Apart(<<>>, a) /\ Apart(a, <<>>) /\ Distinct(<<>>)
  BY NothingApart
<1>3. ASSUME NEW a \in Seq(Buffers), a # <<>>, Distinct(a)
      PROVE  /\ Distinct(Tail(a)) /\ Head(a) \in Buffers /\ Tail(a) \in Seq(Buffers)
             /\ \A i \in 1..Len(Tail(a)) : Tail(a)[i] # Head(a)
  BY <1>3, DistinctTail, TailFacts
<1>4. ASSUME NEW a \in Seq(Buffers), a # <<>>, NEW b, Apart(a, b)
      PROVE  Apart(Tail(a), b) /\ \A j \in 1..Len(b) : b[j] # Head(a)
  BY <1>4, ApartTail
<1>5. ASSUME NEW a \in Seq(Buffers), NEW b \in Seq(Buffers), b # <<>>,
             Distinct(a), Distinct(b), Apart(b, a)
      PROVE  /\ Distinct(Append(a, Head(b))) /\ Apart(Tail(b), Append(a, Head(b)))
  <2>1. Head(b) \in Buffers /\ \A i \in 1..Len(Tail(b)) : Tail(b)[i] # Head(b)
    BY <1>3, <1>5
  <2>2. Apart(Tail(b), a) /\ \A j \in 1..Len(a) : a[j] # Head(b)
    BY <1>4, <1>5
  <2>3. Distinct(Append(a, Head(b)))
    BY <1>5, <2>1, <2>2, DistinctAppend
  <2>4. Apart(a, Tail(b)) /\ \A i \in 1..Len(Tail(b)) : Head(b) # Tail(b)[i]
    BY <1>1, <2>1, <2>2
  <2>5. Apart(Append(a, Head(b)), Tail(b))
    BY <2>1, <2>4, ApartAppend
  <2>. QED  BY <1>1, <2>3, <2>5
<1>6. ASSUME NEW a \in Seq(Buffers), NEW b \in Seq(Buffers), b # <<>>, NEW d,
             Apart(a, d), Apart(b, d)
      PROVE  Apart(Append(a, Head(b)), d)
  <2>1. Head(b) \in Buffers
    BY <1>6, TailFacts
  <2>2. \A j \in 1..Len(d) : Head(b) # d[j]
    BY <1>4, <1>6
  <2>. QED  BY <1>6, <2>1, <2>2, ApartAppend
<1>7. /\ Distinct(s) /\ Distinct(p) /\ Distinct(u) /\ Distinct(c)
      /\ Apart(s, p) /\ Apart(s, u) /\ Apart(s, c)
      /\ Apart(p, u) /\ Apart(p, c) /\ Apart(u, c)
      /\ Apart(p, s) /\ Apart(u, s) /\ Apart(c, s)
      /\ Apart(u, p) /\ Apart(c, p) /\ Apart(c, u)
  BY <1>1 DEF Parted
<1>8. ASSUME s # <<>>
      PROVE  /\ Parted(Tail(s), Append(p, Head(s)), u, c)
             /\ Parted(Tail(s), Append(p, Head(s)), u, <<>>)
  <2>1. Distinct(Tail(s)) /\ Apart(Tail(s), u) /\ Apart(Tail(s), c)
    BY <1>3, <1>4, <1>7, <1>8
  <2>2. Distinct(Append(p, Head(s))) /\ Apart(Tail(s), Append(p, Head(s)))
    BY <1>5, <1>7, <1>8
  <2>3. Apart(Append(p, Head(s)), u) /\ Apart(Append(p, Head(s)), c)
    BY <1>6, <1>7, <1>8
  <2>. QED  BY <1>2, <1>7, <2>1, <2>2, <2>3 DEF Parted
<1>9. ASSUME c # <<>>
      PROVE  Parted(Tail(c), Append(p, Head(c)), u, <<>>) /\ Parted(s, p, u, Tail(c))
  <2>1. Distinct(Tail(c)) /\ Apart(Tail(c), u) /\ Apart(Tail(c), s) /\ Apart(Tail(c), p)
    BY <1>3, <1>4, <1>7, <1>9
  <2>2. Distinct(Append(p, Head(c))) /\ Apart(Tail(c), Append(p, Head(c)))
    BY <1>5, <1>7, <1>9
  <2>3. Apart(Append(p, Head(c)), u)
    BY <1>6, <1>7, <1>9
  <2>4. Apart(s, Tail(c)) /\ Apart(p, Tail(c)) /\ Apart(u, Tail(c))
    BY <1>1, <2>1
  <2>. QED  BY <1>2, <1>7, <2>1, <2>2, <2>3, <2>4 DEF Parted
<1>10. ASSUME p # <<>>
       PROVE  Parted(s, Tail(p), Append(u, Head(p)), c)
  <2>1. Distinct(Tail(p)) /\ Apart(Tail(p), s) /\ Apart(Tail(p), c)
    BY <1>3, <1>4, <1>7, <1>10
  <2>2. Distinct(Append(u, Head(p))) /\ Apart(Tail(p), Append(u, Head(p)))
    BY <1>5, <1>7, <1>10
  <2>3. Apart(Append(u, Head(p)), s) /\ Apart(Append(u, Head(p)), c)
    BY <1>6, <1>7, <1>10
  <2>4. Apart(s, Tail(p)) /\ Apart(s, Append(u, Head(p)))
    BY <1>1, <2>1, <2>3
  <2>. QED  BY <1>7, <2>1, <2>2, <2>3, <2>4 DEF Parted
<1>11. ASSUME u # <<>>
       PROVE  Parted(s, p, Tail(u), Append(c, Head(u)))
  <2>1. Distinct(Tail(u)) /\ Apart(Tail(u), s) /\ Apart(Tail(u), p)
    BY <1>3, <1>4, <1>7, <1>11
  <2>2. Distinct(Append(c, Head(u))) /\ Apart(Tail(u), Append(c, Head(u)))
    BY <1>5, <1>7, <1>11
  <2>3. Apart(Append(c, Head(u)), s) /\ Apart(Append(c, Head(u)), p)
    BY <1>6, <1>7, <1>11
  <2>4. /\ Apart(s, Tail(u)) /\ Apart(p, Tail(u))
        /\ Apart(s, Append(c, Head(u))) /\ Apart(p, Append(c, Head(u)))
    BY <1>1, <2>1, <2>3
  <2>. QED  BY <1>7, <2>1, <2>2, <2>4 DEF Parted
<1>12. Parted(s, <<>>, <<>>, c)
  BY <1>2, <1>7 DEF Parted
<1>. QED  BY <1>8, <1>9, <1>10, <1>11, <1>12

\* A step that leaves the send buffers of an end where they are.
LEMMA SameBuffers ==
    ASSUME NEW e, BuffersOK(e), send_bufs'[e] = send_bufs[e], sq'[e] = sq[e],
           unacked'[e] = unacked[e], send_cq'[e] = send_cq[e]
    PROVE  BuffersOK(e)'
BY DEF BuffersOK, Posted

\* Every step moves a send buffer to the next place, or forgets one.
LEMMA BuffersStep ==
    ASSUME TypeOK, TalkOK, \A e \in Ends : LinkOK(e) /\ ReceiveOK(e) /\ BuffersOK(e), Next
    PROVE  \A e \in Ends : BuffersOK(e)'
<1>1. PICK x \in Ends : Thread(x) \/ Adapter(x)
  BY DEF Next
<1>2. Peer(x) \in Ends /\ Peer(x) # x
  BY Peers
<1>. DEFINE s == send_bufs[x]
            q == sq[x]
            p == Bufs(q)
            u == unacked[x]
            c == send_cq[x]
            P == Parted(send_bufs'[x], Bufs(sq'[x]), unacked'[x], send_cq'[x])
<1>3. s \in Seq(Buffers) /\ q \in Seq(Requests) /\ u \in Seq(Buffers) /\ c \in Seq(Buffers)
  BY EndTypes
<1>4. p \in Seq(Buffers)
  BY <1>3, BufsFacts
<1>5. Parted(s, p, u, c)
  BY BuffersParted
<1>6. /\ s # <<>> => /\ Parted(Tail(s), Append(p, Head(s)), u, c)
                     /\ Parted(Tail(s), Append(p, Head(s)), u, <<>>)
      /\ c # <<>> => /\ Parted(Tail(c), Append(p, Head(c)), u, <<>>)
                     /\ Parted(s, p, u, Tail(c))
      /\ p # <<>> => Parted(s, Tail(p), Append(u, Head(p)), c)
      /\ u # <<>> => Parted(s, p, Tail(u), Append(c, Head(u)))
      /\ Parted(s, <<>>, <<>>, c)
  BY <1>3, <1>4, <1>5, PartedMoves
<1>7. P => BuffersOK(x)'
  BY DEF BuffersOK, Parted, Posted, Bufs
<1>8. ASSUME P, \A d \in Ends : d # x => /\ send_bufs'[d] = send_bufs[d] /\ sq'[d] = sq[d]
                                         /\ unacked'[d] = unacked[d] /\ send_cq'[d] = send_cq[d]
      PROVE  \A e \in Ends : BuffersOK(e)'
  BY <1>7, <1>8, SameBuffers
<1>. HIDE DEF P
<1>9. CASE Sends(x)
  <2>1. PICK op \in Ops : \E m \in Message :
          /\ Post(x, op, m)
          /\ send_cq'[x] = c \/ send_cq'[x] = <<>>
          /\ s = <<>> => send_cq'[x] = <<>>
          /\ \A d \in Ends : d # x => send_cq'[d] = send_cq[d]
    BY <1>9, SendEffect
  <2>2. PICK m \in Message :
          /\ Post(x, op, m)
          /\ send_cq'[x] = c \/ send_cq'[x] = <<>>
          /\ s = <<>> => send_cq'[x] = <<>>
          /\ \A d \in Ends : d # x => send_cq'[d] = send_cq[d]
    BY <2>1
  <2>3. /\ s # <<>> \/ c # <<>>
        /\ NextBuf(x) \in Buffers
        /\ sq'[x] = Append(q, [op |-> op, buf |-> NextBuf(x)])
        /\ s # <<>> => NextBuf(x) = Head(s) /\ send_bufs'[x] = Tail(s)
        /\ s = <<>> => NextBuf(x) = Head(c) /\ send_bufs'[x] = Tail(c)
        /\ \A d \in Ends : d # x => sq'[d] = sq[d] /\ send_bufs'[d] = send_bufs[d]
    BY <2>2, PostEffect
  <2>4. [op |-> op, buf |-> NextBuf(x)] \in Requests
    BY <2>3 DEF Requests
  <2>5. Bufs(sq'[x]) = Append(p, NextBuf(x))
    BY <1>3, <2>3, <2>4, BufsAppend
  <2>6. unacked' = unacked
    BY <2>2 DEF Post
  <2>7. P
    <3>1. CASE s # <<>>
      BY <1>6, <2>2, <2>3, <2>5, <2>6, <3>1, Zenon DEF P
    <3>2. CASE s = <<>>
      BY <1>6, <2>2, <2>3, <2>5, <2>6, <3>2, Zenon DEF P
    <3>. QED  BY <3>1, <3>2
  <2>. QED  BY <1>8, <2>2, <2>3, <2>6, <2>7
<1>10. CASE RecvKey(x) \/ RecvHeader(x) \/ RecvBody(x)
  <2>1. send_bufs' = send_bufs /\ sq' = sq /\ unacked' = unacked /\ send_cq' = send_cq
    BY <1>10 DEF RecvKey, RecvHeader, RecvBody, sendVars
  <2>. QED  BY <2>1, SameBuffers
<1>11. CASE PollClose(x)
  <2>1. /\ c # <<>> /\ send_bufs' = send_bufs /\ sq' = sq /\ unacked' = unacked
        /\ send_cq' = [send_cq EXCEPT ![x] = Tail(c)]
    BY <1>11 DEF PollClose, TypeOK
  <2>2. send_cq'[x] = Tail(c) /\ \A d \in Ends : d # x => send_cq'[d] = send_cq[d]
    BY <2>1 DEF TypeOK
  <2>3. P
    BY <1>6, <2>1, <2>2 DEF P
  <2>. QED  BY <1>8, <2>1, <2>2, <2>3
<1>12. CASE Delete(x)
  <2>1. /\ send_bufs' = send_bufs /\ send_cq' = send_cq /\ sq'[x] = <<>> /\ unacked'[x] = <<>>
        /\ \A d \in Ends : d # x => sq'[d] = sq[d] /\ unacked'[d] = unacked[d]
    BY <1>12 DEF Delete, TypeOK
  <2>2. Bufs(sq'[x]) = <<>>
    <3>1. sq'[x] \in Seq(Requests) /\ Len(sq'[x]) = 0
      BY <2>1, EmptySequence
    <3>. QED  BY <3>1, BufsFacts, LengthFacts
  <2>3. P
    BY <1>6, <2>1, <2>2 DEF P
  <2>. QED  BY <1>8, <2>1, <2>3
<1>13. ASSUME Sent(x), q # <<>>, send_bufs' = send_bufs, send_cq' = send_cq
       PROVE  \A e \in Ends : BuffersOK(e)'
  <2>1. /\ sq'[x] = Tail(q) /\ unacked'[x] = Append(u, q[1].buf)
        /\ \A d \in Ends : d # x => sq'[d] = sq[d] /\ unacked'[d] = unacked[d]
    BY <1>13, SentEffect
  <2>2. p # <<>> /\ Bufs(sq'[x]) = Tail(p) /\ Head(p) = q[1].buf
    BY <1>3, <1>13, <2>1, BufsTail
  <2>3. P
    BY <1>6, <1>13, <2>1, <2>2, Zenon DEF P
  <2>. QED  BY <1>8, <1>13, <2>1, <2>3
<1>14. CASE TransmitSend(x) \/ Flush(x)
  <2>1. Sent(x) /\ q # <<>> /\ send_bufs' = send_bufs /\ send_cq' = send_cq
    BY <1>14 DEF TransmitSend, Flush, Connected
  <2>. QED  BY <1>13, <2>1
<1>15. CASE PlaceCell(x)
  <2>1. q # <<>> /\ send_bufs' = send_bufs /\ send_cq' = send_cq
    BY <1>15 DEF PlaceCell, Connected
  <2>2. CASE placed[x] = Cells - 1
    BY <1>13, <1>15, <2>1, <2>2, PlaceEffect
  <2>3. CASE placed[x] # Cells - 1
    <3>1. sq' = sq /\ unacked' = unacked
      BY <1>15, <2>3, PlaceEffect
    <3>. QED  BY <2>1, <3>1, SameBuffers
  <2>. QED  BY <2>2, <2>3
<1>16. CASE Complete(x)
  <2>1. /\ u # <<>> /\ send_bufs' = send_bufs /\ sq' = sq
        /\ unacked'[x] = Tail(u) /\ send_cq'[x] = Append(c, Head(u))
        /\ \A d \in Ends : d # x => unacked'[d] = unacked[d] /\ send_cq'[d] = send_cq[d]
    BY <1>16 DEF Complete, TypeOK
  <2>2. P
    BY <1>6, <2>1, Zenon DEF P
  <2>. QED  BY <1>8, <2>1, <2>2
<1>. QED  BY <1>1, <1>9, <1>10, <1>11, <1>12, <1>14, <1>15, <1>16
          DEF Thread, Adapter, Sends

-----------------------------------------------------------------------------
(* The conversation *)

\* A step that keeps to the places, messages and headers of both ends.
LEMMA SameTalk ==
    ASSUME TalkOK, BodiesOK, UNCHANGED <<kind, pc, sent, header, body>>
    PROVE  TalkOK' /\ BodiesOK'
BY DEF TalkOK, BodiesOK, Setup, Silent, Fresh, Quiet, Settled, Asked, Taking, Replied

\* Every step keeps to the conversation, and reads nothing but whole messages.
LEMMA TalkStep ==
    ASSUME TypeOK, TalkOK, BodiesOK, \A e \in Ends : LinkOK(e) /\ ReceiveOK(e), Next
    PROVE  TalkOK' /\ BodiesOK'
<1>. USE DEF Ends
<1>1. PICK x \in Ends : Thread(x) \/ Adapter(x)
  BY DEF Next
<1>2. /\ Peer("client") = "server" /\ Peer("server") = "client"
      /\ LinkOK("client") /\ LinkOK("server")
  BY DEF Peer
<1>3. /\ pc \in [Ends -> PcTypes] /\ sent \in [Ends -> Message] /\ header \in [Ends -> Message]
      /\ kind \in Kinds /\ body \in [Ends -> SUBSET (Message \cup {Zero, Flag})]
  BY Types
<1>4. /\ sent["client"] \in Message /\ sent["server"] \in Message
      /\ header["client"] \in Message /\ header["server"] \in Message
      /\ pc["client"] \in PcTypes /\ pc["server"] \in PcTypes
  BY <1>3
<1>5. \A m \in Message : m.n \in Nat
  BY MessageFacts
<1>6. CASE SendKey(x)
  <2>1. PICK op \in Ops : \E m \in Message : Post(x, op, m) /\ Sending(x, op, m)
    BY <1>6, SendEffect DEF Sends
  <2>2. PICK m \in Message : Post(x, op, m) /\ Sending(x, op, m)
    BY <2>1
  <2>3. /\ pc[x] = "setup" /\ m = Key /\ kind # "SEND_RECV" /\ pc' = [pc EXCEPT ![x] = "key"]
    BY <1>6, <2>2 DEF SendKey, Sending
  <2>4. /\ sent'[x] = Key /\ \A d \in Ends : d # x => sent'[d] = sent[d]
        /\ kind' = kind /\ header' = header /\ body' = body
    BY <2>2, <2>3, PostEffect DEF Post
  <2>5. CASE x = "client"
    <3>1. /\ pc'["client"] = "key" /\ pc'["server"] = pc["server"]
          /\ sent'["client"] = Key /\ sent'["server"] = sent["server"]
      BY <1>3, <2>3, <2>4, <2>5
    <3>. QED  BY <2>3, <2>4, <2>5, <3>1 DEF TalkOK, BodiesOK, Setup, Silent, Fresh
  <2>6. CASE x = "server"
    <3>1. /\ pc'["server"] = "key" /\ pc'["client"] = pc["client"]
          /\ sent'["server"] = Key /\ sent'["client"] = sent["client"]
      BY <1>3, <2>3, <2>4, <2>6
    <3>2. pc["client"] \in {"setup", "key"}
      BY <1>4, <2>3, <2>6 DEF TalkOK, Setup, Settled, Replied, PcTypes
    <3>. QED  BY <2>3, <2>4, <2>6, <3>1, <3>2 DEF TalkOK, BodiesOK, Setup, Silent, Fresh
  <2>. QED  BY <2>5, <2>6
<1>7. CASE RecvKey(x)
  <2>1. /\ pc[x] = "key" /\ recv_cq[x] # <<>>
        /\ pc' = [pc EXCEPT ![x] = IF x = "client" THEN "ready" ELSE "header"]
        /\ kind' = kind /\ sent' = sent /\ header' = header /\ body' = body
    BY <1>7 DEF RecvKey
  <2>2. CASE x = "client"
    <3>1. pc'["client"] = "ready" /\ pc'["server"] = pc["server"]
      BY <1>3, <2>1, <2>2
    <3>2. pc["server"] # "setup"
      BY <1>2, <2>1, <2>2 DEF LinkOK, KeyOK
    <3>. QED  BY <2>1, <2>2, <3>1, <3>2
              DEF TalkOK, BodiesOK, Setup, Silent, Fresh, Settled
  <2>3. CASE x = "server"
    <3>1. pc'["server"] = "header" /\ pc'["client"] = pc["client"]
      BY <1>3, <2>1, <2>3
    <3>. QED  BY <1>4, <2>1, <2>3, <3>1
              DEF TalkOK, BodiesOK, Setup, Silent, Fresh, Settled, Quiet, Asked, Taking,
                  Replied, PcTypes
  <2>. QED  BY <2>2, <2>3
<1>8. CASE Request(x) \/ SendClose(x)
  <2>1. PICK op \in Ops : \E m \in Message : Post(x, op, m) /\ Sending(x, op, m)
    BY <1>8, SendEffect DEF Sends
  <2>2. PICK m \in Message : Post(x, op, m) /\ Sending(x, op, m)
    BY <2>1
  <2>3. x = "client" /\ pc["client"] = "ready"
    BY <1>8 DEF Request, SendClose
  <2>4. /\ sent'["client"] = m /\ sent'["server"] = sent["server"]
        /\ kind' = kind /\ header' = header /\ body' = body
    BY <2>2, <2>3, PostEffect DEF Post
  <2>5. pc'["server"] = pc["server"]
    BY <1>3, <2>2, <2>3 DEF Sending
  <2>6. \/ pc'["client"] = "header" /\ m.type = "REQUEST" /\ m.n = header["client"].n + 1
        \/ pc'["client"] = "closing" /\ m = Close
    BY <1>3, <2>2, <2>3 DEF Sending
  <2>. QED  BY <2>3, <2>4, <2>5, <2>6
            DEF TalkOK, BodiesOK, Setup, Silent, Fresh, Settled, Quiet, Asked
<1>9. CASE Answer(x)
  <2>1. PICK op \in Ops : \E m \in Message : Post(x, op, m) /\ Sending(x, op, m)
    BY <1>9, SendEffect DEF Sends
  <2>2. PICK m \in Message : Post(x, op, m) /\ Sending(x, op, m)
    BY <2>1
  <2>3. /\ x = "server" /\ pc["server"] = "handle" /\ pc' = [pc EXCEPT !["server"] = "header"]
        /\ m.type = "ANSWER" /\ m.n = header["server"].n
    BY <1>9, <2>2 DEF Answer, Sending
  <2>4. /\ sent'["server"] = m /\ sent'["client"] = sent["client"]
        /\ kind' = kind /\ header' = header /\ body' = body
    BY <2>2, <2>3, PostEffect DEF Post
  <2>5. pc'["server"] = "header" /\ pc'["client"] = pc["client"]
    BY <1>3, <2>3
  <2>6. pc["client"] = "header" /\ Asked /\ Taking
    BY <1>4, <2>3 DEF TalkOK, Setup, Settled, Replied, PcTypes
  <2>. QED  BY <2>3, <2>4, <2>5, <2>6
            DEF TalkOK, BodiesOK, Setup, Asked, Taking, Replied
<1>10. CASE RecvHeader(x)
  <2>1. Coming(Peer(x)) /\ header' = [header EXCEPT ![x] = sent[Peer(x)]]
    BY <1>2, <1>10, HeaderArrives
  <2>2. /\ pc[x] = "header" /\ pc' = [pc EXCEPT ![x] = "body"]
        /\ kind' = kind /\ sent' = sent /\ body' = body
    BY <1>10 DEF RecvHeader
  <2>3. CASE x = "client"
    <3>1. /\ pc'["client"] = "body" /\ pc'["server"] = pc["server"]
          /\ header'["client"] = sent["server"] /\ header'["server"] = header["server"]
      BY <1>2, <1>3, <2>1, <2>2, <2>3
    <3>2. header["client"] # sent["server"] /\ sent["server"].type \in {"REQUEST", "ANSWER", "CLOSE"}
      BY <1>2, <2>1, <2>3 DEF Coming
    <3>3. Replied
      BY <2>2, <2>3, <3>2, SomeMessages
         DEF TalkOK, Settled, Taking, Fresh, Quiet, Silent
    <3>. QED  BY <2>2, <2>3, <3>1, <3>3 DEF TalkOK, BodiesOK, Setup, Replied
  <2>4. CASE x = "server"
    <3>1. /\ pc'["server"] = "body" /\ pc'["client"] = pc["client"]
          /\ header'["server"] = sent["client"] /\ header'["client"] = header["client"]
      BY <1>2, <1>3, <2>1, <2>2, <2>4
    <3>2. header["server"] # sent["client"] /\ sent["client"].type \in {"REQUEST", "ANSWER", "CLOSE"}
      BY <1>2, <2>1, <2>4 DEF Coming
    <3>3. ~Setup("client") /\ pc["client"] \notin {"ready", "body"}
      BY <2>2, <2>4, <3>2, SomeMessages DEF TalkOK, Setup, Silent, Replied, Settled
    <3>4. \/ pc["client"] = "header" /\ Asked
          \/ pc["client"] \in {"closing", "closed", "deleted"} /\ sent["client"] = Close
      BY <1>4, <2>2, <2>4, <3>2, <3>3 DEF TalkOK, Setup, Replied, PcTypes
    <3>5. Settled
      BY <2>2, <2>4, <3>2, <3>4 DEF TalkOK, Taking, Replied
    <3>. QED  BY <2>2, <2>4, <3>1, <3>3, <3>4, <3>5
              DEF TalkOK, BodiesOK, Setup, Asked, Taking, Settled, Fresh, Quiet, Silent
  <2>. QED  BY <2>3, <2>4
<1>11. CASE RecvBody(x)
  <2>1. /\ header[x] = sent[Peer(x)] /\ body'[x] \subseteq {header[x]}
        /\ body' = [body EXCEPT ![x] = body'[x]]
    BY <1>2, <1>11, BodyArrives
  <2>2. /\ pc[x] = "body" /\ kind' = kind /\ sent' = sent /\ header' = header
        /\ pc' = [pc EXCEPT ![x] = IF x = "client" THEN "ready"
                                   ELSE IF header[x].type = "CLOSE" THEN "closed"
                                   ELSE "handle"]
    BY <1>11 DEF RecvBody
  <2>3. CASE x = "client"
    <3>1. pc'["client"] = "ready" /\ pc'["server"] = pc["server"]
      BY <1>3, <2>2, <2>3
    <3>2. Replied /\ header["client"] = sent["server"]
      BY <2>2, <2>3 DEF TalkOK
    <3>3. body'["server"] = body["server"]
      BY <1>3, <2>1, <2>3
    <3>4. header["server"] # NoMsg
      BY <3>2, SomeMessages DEF Replied
    <3>. QED  BY <2>1, <2>2, <2>3, <3>1, <3>2, <3>3, <3>4
              DEF TalkOK, BodiesOK, Setup, Replied, Settled, Quiet
  <2>4. CASE x = "server"
    <3>1. /\ pc'["client"] = pc["client"]
          /\ pc'["server"] = IF header["server"].type = "CLOSE" THEN "closed" ELSE "handle"
      BY <1>3, <2>2, <2>4
    <3>2. body'["client"] = body["client"]
      BY <1>3, <2>1, <2>4
    <3>3. ~Setup("client") /\ pc["client"] \notin {"ready", "body", "handle"}
      BY <2>2, <2>4 DEF TalkOK, Setup, Replied, Settled
    <3>4. \/ pc["client"] = "header" /\ Asked /\ Taking
          \/ /\ pc["client"] \in {"closing", "closed", "deleted"}
             /\ sent["client"] = Close /\ Taking
      BY <1>4, <2>2, <2>4, <3>3 DEF TalkOK, Setup, Replied, Settled, PcTypes
    <3>. QED  BY <2>1, <2>2, <2>4, <3>1, <3>2, <3>3, <3>4, SomeMessages
              DEF TalkOK, BodiesOK, Setup, Asked, Taking, Quiet, Silent
  <2>. QED  BY <2>3, <2>4
<1>12. CASE PollClose(x) \/ Delete(x)
  <2>1. /\ kind' = kind /\ sent' = sent /\ header' = header /\ body' = body
        /\ \/ pc[x] = "closing" /\ pc' = [pc EXCEPT ![x] = "closed"]
           \/ pc[x] = "closed" /\ pc' = [pc EXCEPT ![x] = "deleted"]
    BY <1>12 DEF PollClose, Delete
  <2>2. CASE x = "client"
    <3>1. pc'["client"] \in {"closed", "deleted"} /\ pc'["server"] = pc["server"]
      BY <1>3, <2>1, <2>2
    <3>. QED  BY <2>1, <2>2, <3>1
              DEF TalkOK, BodiesOK, Setup, Settled, Fresh, Quiet, Silent, Taking
  <2>3. CASE x = "server"
    <3>1. pc["server"] = "closed" /\ pc'["server"] = "deleted" /\ pc'["client"] = pc["client"]
      BY <1>3, <2>1, <2>3 DEF TalkOK
    <3>2. pc["client"] \in {"closing", "closed", "deleted"} /\ sent["client"] = Close /\ Taking
      BY <1>4, <3>1 DEF TalkOK, Setup, Settled, Replied, PcTypes
    <3>. QED  BY <2>1, <2>3, <3>1, <3>2
              DEF TalkOK, BodiesOK, Setup, Quiet, Silent, Taking
  <2>. QED  BY <2>2, <2>3
<1>13. CASE Adapter(x)
  <2>1. UNCHANGED <<kind, pc, sent, header, body>>
    BY <1>13 DEF Adapter, TransmitSend, PlaceCell, Flush, Complete, threadVars
  <2>. QED  BY <2>1, SameTalk
<1>. QED  BY <1>1, <1>6, <1>7, <1>8, <1>9, <1>10, <1>11, <1>12, <1>13 DEF Thread

-----------------------------------------------------------------------------
(* The message under way *)

\* As long as the kind is the same, a message fills a buffer in the same way.
LEMMA SameOp ==
    ASSUME kind' = kind
    PROVE  Op' = Op /\ \A m : Filled(Empty, Op', m) = Packed(m)
BY DEF Op, Packed

\* A step that has no part in the messages from e to its peer.
LEMMA SameLink ==
    ASSUME NEW e \in Ends, LinkOK(e), kind' = kind,
           sq'[e] = sq[e], placed'[e] = placed[e], sent'[e] = sent[e], mem'[e] = mem[e],
           pc[e] = "setup" \/ KeyPosted(e) =>
               unacked'[e] = unacked[e] /\ send_cq'[e] = send_cq[e],
           recv_cq'[Peer(e)] = recv_cq[Peer(e)], recv_mem'[Peer(e)] = recv_mem[Peer(e)],
           write_buf'[Peer(e)] = write_buf[Peer(e)], msg_buf'[Peer(e)] = msg_buf[Peer(e)],
           header'[Peer(e)] = header[Peer(e)],
           Setup(Peer(e))' <=> Setup(Peer(e)), pc'[Peer(e)] = "body" <=> pc[Peer(e)] = "body",
           pc'[e] = "setup" <=> pc[e] = "setup",
           pc'[e] \in {"closed", "deleted"} =>
               pc[e] \in {"closed", "deleted"} \/ ~KeyPosted(e)
    PROVE  LinkOK(e)'
<1>1. Op' = Op /\ \A m : Filled(Empty, Op', m) = Packed(m)
  BY SameOp
<1>2. KeyPosted(e)' <=> KeyPosted(e)
  BY DEF KeyPosted
<1>3. Coming(e)' <=> Coming(e)
  BY DEF Coming
<1>4. Reading(e)' <=> Reading(e)
  BY <1>3 DEF Reading
<1>5. KeyOK(e)'
  BY <1>2 DEF LinkOK, KeyOK
<1>6. QueueOK(e)'
  BY <1>1, <1>2, <1>3 DEF LinkOK, QueueOK, Posts, Packed, Trailing
<1>7. WriteBufOK(e)'
  BY <1>1, <1>4 DEF LinkOK, WriteBufOK, Shows, Packed
<1>8. ArrivedOK(e)'
  BY <1>1, <1>2, <1>3 DEF LinkOK, ArrivedOK, KeyCompletions, Whole, Packed
<1>. QED  BY <1>5, <1>6, <1>7, <1>8 DEF LinkOK

\* Where an end stands when it sends something else than its key: the peer has
\* read all that was sent before.
LEMMA SendTalk ==
    ASSUME TypeOK, TalkOK, NEW x \in Ends, NEW op \in Ops, NEW m \in Message,
           Sending(x, op, m), pc[x] # "setup"
    PROVE  /\ ~Coming(x) /\ header[Peer(x)] # m /\ m.type \in {"REQUEST", "ANSWER", "CLOSE"}
           /\ pc[Peer(x)] # "body" /\ op = Op
           /\ pc[x] \in {"ready", "handle"} /\ pc'[x] \in {"header", "closing"}
<1>. USE DEF Ends, Peer
<1>1. /\ pc \in [Ends -> PcTypes]
      /\ sent["client"] \in Message /\ sent["server"] \in Message
      /\ header["client"] \in Message /\ header["server"] \in Message
  BY Types
<1>2. header["client"].n \in Nat /\ header["server"].n \in Nat
  BY <1>1, MessageFacts
<1>3. CASE x = "client"
  <2>1. /\ pc["client"] = "ready" /\ op = Op /\ pc'["client"] \in {"header", "closing"}
        /\ (m.type = "REQUEST" /\ m.n = header["client"].n + 1) \/ m = Close
    BY <1>1, <1>3 DEF Sending
  <2>2. Settled /\ IF header["server"] = NoMsg THEN Silent("client")
                   ELSE sent["client"] = header["server"]
    BY <2>1 DEF TalkOK
  <2>3. ~Coming("client")
    BY <2>1, <2>2, SomeMessages DEF Coming, Silent
  <2>4. header["server"].type # "CLOSE" /\ header["server"] # m
    <3>1. CASE Fresh
      BY <2>1, <3>1, SomeMessages DEF Fresh
    <3>2. CASE ~Fresh
      <4>1. header["server"].type = "REQUEST" /\ header["server"].n = header["client"].n
        BY <2>2, <3>2 DEF Settled, Quiet
      <4>. QED  BY <1>2, <2>1, <4>1, SomeMessages
    <3>. QED  BY <3>1, <3>2
  <2>. QED  BY <1>3, <2>1, <2>2, <2>3, <2>4, SomeMessages DEF Settled
<1>4. CASE x = "server"
  <2>1. /\ pc["server"] = "handle" /\ op = Op /\ pc'["server"] = "header"
        /\ m.type = "ANSWER" /\ m.n = header["server"].n
    BY <1>1, <1>4 DEF Sending
  <2>2. pc["client"] = "header" /\ Asked /\ Taking
    BY <1>1, <2>1 DEF TalkOK, Setup, Settled, Replied, PcTypes
  <2>3. header["client"].n # m.n
    BY <1>2, <2>1, <2>2 DEF Asked, Taking
  <2>4. ~Coming("server")
    BY <2>1, <2>2, SomeMessages DEF Taking, Coming, Silent, Quiet
  <2>. QED  BY <1>4, <2>1, <2>2, <2>3, <2>4
<1>. QED  BY <1>3, <1>4

\* A buffer that is handed out is not among the posted ones.
LEMMA NextIsFree ==
    ASSUME TypeOK, NEW x \in Ends, BuffersOK(x), NEW op \in Ops, NEW m \in Message, Post(x, op, m)
    PROVE  \A i \in 1..Len(sq[x]) : sq[x][i].buf # NextBuf(x)
<1>1. /\ sq[x] \in Seq(Requests) /\ send_bufs[x] \in Seq(Buffers) /\ send_cq[x] \in Seq(Buffers)
  BY EndTypes
<1>2. /\ Apart(send_bufs[x], Bufs(sq[x])) /\ Apart(Bufs(sq[x]), send_cq[x])
      /\ Len(Bufs(sq[x])) = Len(sq[x])
      /\ \A i \in 1..Len(sq[x]) : Bufs(sq[x])[i] = sq[x][i].buf
  BY <1>1, BuffersParted, BufsFacts DEF Parted
<1>3. ASSUME NEW s \in Seq(Buffers), s # <<>>, Apart(s, Bufs(sq[x]))
      PROVE  \A i \in 1..Len(sq[x]) : sq[x][i].buf # Head(s)
  BY <1>2, <1>3, ApartTail
<1>4. Apart(send_cq[x], Bufs(sq[x]))
  BY <1>2, ApartSymmetric
<1>5. /\ send_bufs[x] # <<>> \/ send_cq[x] # <<>>
      /\ send_bufs[x] # <<>> => NextBuf(x) = Head(send_bufs[x])
      /\ send_bufs[x] = <<>> => NextBuf(x) = Head(send_cq[x])
  BY PostEffect
<1>. QED  BY <1>1, <1>2, <1>3, <1>4, <1>5

\* The key is the first that an end posts.
LEMMA KeyLink ==
    ASSUME TypeOK, TalkOK, NEW x \in Ends, LinkOK(x), NEW op \in Ops, NEW m \in Message,
           Post(x, op, m), Sending(x, op, m), pc[x] = "setup",
           send_cq'[x] = send_cq[x] \/ send_cq'[x] = <<>>
    PROVE  LinkOK(x)'
<1>. DEFINE p == Peer(x)
            r == [op |-> op, buf |-> NextBuf(x)]
<1>1. /\ m = Key /\ op = "SEND" /\ kind # "SEND_RECV" /\ pc' = [pc EXCEPT ![x] = "key"]
  BY DEF Sending
<1>2. p \in Ends /\ p # x
  BY Peers
<1>3. /\ pc \in [Ends -> PcTypes] /\ sq[x] = <<>> /\ r \in Requests
  BY Types, PostEffect DEF LinkOK, KeyOK, Requests
<1>4. /\ pc'[x] = "key" /\ pc'[p] = pc[p]
  BY <1>1, <1>2, <1>3
<1>5. /\ sent'[x] = Key /\ sq'[x] = Append(sq[x], r)
      /\ kind' = kind /\ header' = header /\ placed' = placed /\ unacked' = unacked
      /\ recv_cq' = recv_cq /\ write_buf' = write_buf
  BY <1>1, PostEffect DEF Post, recvVars
<1>. HIDE DEF r
<1>6. Len(sq'[x]) = 1 /\ sq'[x] # <<>> /\ sq'[x][1] = r
  <2>1. <<>> \in Seq(Requests) /\ Len(<<>>) = 0
    BY EmptySequence
  <2>2. sq'[x] # <<>> /\ Len(sq'[x]) = 0 + 1 /\ sq'[x][0 + 1] = r
    BY <1>3, <1>5, <2>1, AppendFacts
  <2>. QED  BY <2>2
<1>7. KeyPosted(x)'
  BY <1>1, <1>5, <1>6 DEF KeyPosted, r
<1>8. Setup(p) /\ recv_cq[p] = <<>> /\ placed[x] = 0 /\ unacked[x] = <<>> /\ send_cq[x] = <<>>
  BY DEF LinkOK, KeyOK
<1>9. sent[x] = NoMsg /\ ~Coming(x) /\ ~Reading(x)
  BY <1>8, SomeMessages DEF TalkOK, Setup, Silent, Coming, Reading
<1>10. ~Coming(x)' /\ ~Reading(x)'
  BY <1>4, <1>5, <1>8, SomeMessages DEF Setup, Coming, Reading
<1>11. Setup(p)' /\ pc[p] # "body"
  BY <1>4, <1>8 DEF Setup
<1>12. KeyOK(x)'
  BY <1>4, <1>5, <1>8, <1>11 DEF KeyOK
<1>13. QueueOK(x)'
  BY <1>6, <1>7, <1>10 DEF QueueOK
<1>14. WriteBufOK(x)'
  BY <1>1, <1>5, <1>9, <1>10 DEF LinkOK, WriteBufOK
<1>15. Len(recv_cq'[p]) = 0
  BY <1>5, <1>8, EmptySequence
<1>16. ArrivedOK(x)'
  BY <1>4, <1>7, <1>11, <1>15 DEF ArrivedOK, KeyCompletions
<1>. QED  BY <1>12, <1>13, <1>14, <1>16 DEF LinkOK

\* Any other message is posted when the one before has been read; what is left
\* of that, or the key, is still before it in the queue.
LEMMA SendLink ==
    ASSUME TypeOK, TalkOK, NEW x \in Ends, LinkOK(x), BuffersOK(x),
           NEW op \in Ops, NEW m \in Message,
           Post(x, op, m), Sending(x, op, m), pc[x] # "setup",
           send_cq'[x] = send_cq[x] \/ send_cq'[x] = <<>>
    PROVE  LinkOK(x)'
<1>. DEFINE p == Peer(x)
            b == NextBuf(x)
            r == [op |-> op, buf |-> b]
<1>1. /\ ~Coming(x) /\ header[p] # m /\ m.type \in {"REQUEST", "ANSWER", "CLOSE"}
      /\ pc[p] # "body" /\ op = Op
      /\ pc[x] \in {"ready", "handle"} /\ pc'[x] \in {"header", "closing"}
  BY SendTalk
<1>2. p \in Ends /\ p # x
  BY Peers
<1>3. pc'[p] = pc[p]
  BY <1>2, Types DEF Sending
<1>4. /\ sent'[x] = m /\ sq'[x] = Append(sq[x], r) /\ b \in Buffers
      /\ \A c \in Buffers : mem'[x][c] = IF c = b THEN Filled(Empty, op, m) ELSE mem[x][c]
      /\ kind' = kind /\ header' = header /\ placed' = placed /\ unacked' = unacked
      /\ recv_cq' = recv_cq /\ write_buf' = write_buf
  <2>1. /\ kind' = kind /\ header' = header /\ placed' = placed /\ unacked' = unacked
        /\ recv_cq' = recv_cq /\ write_buf' = write_buf
    BY DEF Post, recvVars
  <2>. QED  BY <2>1, PostEffect
<1>5. sq[x] \in Seq(Requests) /\ r \in Requests /\ kind \in Kinds
  BY <1>4, EndTypes DEF Requests
<1>6. \A i \in 1..Len(sq[x]) : sq[x][i].buf # b
  BY NextIsFree
<1>. HIDE DEF r, b
<1>7. PICK n \in Nat : /\ n = Len(sq[x]) /\ (sq[x] = <<>> <=> n = 0)
                      /\ \A i \in 1..n : sq[x][i] \in Requests
  BY <1>5, LengthFacts
<1>8. /\ sq'[x] # <<>> /\ Len(sq'[x]) = n + 1 /\ sq'[x][n + 1] = r
      /\ \A i \in 1..n : sq'[x][i] = sq[x][i]
  BY <1>4, <1>5, <1>7, AppendFacts
<1>9. Op' = Op /\ \A k : Filled(Empty, Op', k) = Packed(k)
  BY <1>4, SameOp
<1>10. \A i \in 1..n : \A k : Posts(x, i, k) => Posts(x, i, k)'
  <2>1. \A i \in 1..n : sq[x][i].buf \in Buffers
    BY <1>7 DEF Requests
  <2>. QED  BY <1>4, <1>6, <1>7, <1>8, <1>9, <2>1 DEF Posts, Packed
<1>11. Posts(x, n + 1, m)'
  <2>1. sq'[x][n + 1].op = op /\ sq'[x][n + 1].buf = b
    BY <1>8 DEF r
  <2>2. mem'[x][b] = Filled(Empty, op, m)
    BY <1>4
  <2>. QED  BY <1>1, <1>9, <2>1, <2>2 DEF Posts, Packed
<1>12. Coming(x)' /\ Reading(x)' /\ ~Reading(x)
  BY <1>1, <1>4 DEF Coming, Reading
<1>13. /\ Setup(p)' <=> Setup(p)
       /\ pc'[p] # "body" /\ pc'[x] \notin {"setup", "closed", "deleted"}
  BY <1>1, <1>3 DEF Setup
<1>14. kind # "SEND_RECV" => write_buf[p] = Empty
  BY <1>12 DEF LinkOK, WriteBufOK
<1>15. Setup(p) => Len(recv_cq[p]) > 0 \/ KeyPosted(x)
  BY <1>1 DEF LinkOK, ArrivedOK
<1>16. ASSUME KeyPosted(x) => KeyPosted(x)'
       PROVE  ArrivedOK(x)'
  <2>1. /\ Len(recv_cq[p]) <= KeyCompletions(p) + 1
        /\ Len(recv_cq[p]) # KeyCompletions(p) + 1
    BY <1>1 DEF LinkOK, ArrivedOK
  <2>2. KeyCompletions(p)' = KeyCompletions(p)
    BY <1>13 DEF KeyCompletions
  <2>. QED  BY <1>4, <1>13, <1>15, <1>16, <2>1, <2>2 DEF ArrivedOK
<1>17. CASE sq[x] = <<>>
  <2>1. n = 0 /\ placed[x] = 0
    BY <1>7, <1>17, LengthFacts DEF LinkOK, QueueOK, KeyPosted
  <2>2. Len(sq'[x]) = 1 /\ Posts(x, 1, m)' /\ sq'[x][1] = r
    BY <1>8, <1>11, <2>1
  <2>3. ~KeyPosted(x)' /\ ~KeyPosted(x)
    BY <1>1, <1>4, <1>5, <1>17, <2>2, OpFacts DEF KeyPosted, r
  <2>4. KeyOK(x)'
    BY <1>13, <2>3 DEF KeyOK
  <2>5. QueueOK(x)'
    BY <1>4, <1>12, <2>2 DEF QueueOK
  <2>6. WriteBufOK(x)'
    <3>1. ASSUME kind # "SEND_RECV"
          PROVE  Shows(p, m, 0)'
      <4>1. write_buf'[p] = [j \in 0..(Cells - 1) |-> Zero]
        BY <1>4, <1>14, <3>1 DEF Empty
      <4>2. \A j \in 0..(Cells - 1) : ~(j < 0)
        BY Sizes
      <4>. QED  BY <4>1, <4>2 DEF Shows
    <3>. QED  BY <1>4, <1>8, <1>12, <2>1, <2>2, <3>1 DEF WriteBufOK, Shows
  <2>7. ArrivedOK(x)'
    BY <1>16, <2>3
  <2>. QED  BY <2>4, <2>5, <2>6, <2>7 DEF LinkOK
<1>18. CASE sq[x] # <<>>
  <2>1. /\ n = 1
        /\ \/ KeyPosted(x)
           \/ Posts(x, 1, sent[x]) /\ Trailing(x, sent[x])
    BY <1>1, <1>7, <1>18, Zenon DEF LinkOK, QueueOK
  <2>2. Len(sq'[x]) = 2 /\ Posts(x, 2, m)' /\ sq'[x][1] = sq[x][1]
    BY <1>8, <1>11, <2>1
  <2>3. KeyPosted(x)' <=> KeyPosted(x)
    BY <1>4, <1>8, <1>18, <2>2 DEF KeyPosted
  <2>4. KeyOK(x)'
    BY <1>4, <1>13, <2>3 DEF LinkOK, KeyOK
  <2>5. QueueOK(x)'
    <3>1. CASE KeyPosted(x)
      BY <1>4, <1>12, <2>2, <2>3, <3>1 DEF QueueOK
    <3>2. CASE Posts(x, 1, sent[x]) /\ Trailing(x, sent[x])
      <4>1. sent[x] = header[p]
        BY <1>1, <3>2 DEF Trailing, Coming
      <4>2. Posts(x, 1, header[p])' /\ Trailing(x, header[p])'
        <5>1. Posts(x, 1, sent[x]) /\ 1 \in 1..n
          BY <2>1, <3>2
        <5>2. /\ sq'[x][1].op = Op' /\ mem'[x][sq'[x][1].buf] = Filled(Empty, Op', sent[x])
          BY <1>10, <5>1 DEF Posts, Packed
        <5>. QED  BY <1>4, <3>2, <4>1, <5>2 DEF Posts, Packed, Trailing
      <4>. QED  BY <1>4, <1>12, <2>2, <4>2 DEF QueueOK
    <3>. QED  BY <2>1, <3>1, <3>2
  <2>6. WriteBufOK(x)'
    BY <1>4, <1>8, <1>14, <2>2 DEF WriteBufOK
  <2>7. ArrivedOK(x)'
    BY <1>16, <2>3
  <2>. QED  BY <2>4, <2>5, <2>6, <2>7 DEF LinkOK
<1>. QED  BY <1>17, <1>18

\* The key of e is the first completion at its peer, which then leaves its
\* constructor.
LEMMA KeyLeaves ==
    ASSUME TypeOK, TalkOK, NEW x \in Ends, LinkOK(Peer(x)), RecvKey(x)
    PROVE  LinkOK(Peer(x))'
<1>. DEFINE e == Peer(x)
<1>1. e \in Ends /\ Peer(e) = x /\ e # x
  BY Peers
<1>2. /\ kind' = kind /\ sq' = sq /\ placed' = placed /\ sent' = sent /\ mem' = mem
      /\ unacked' = unacked /\ send_cq' = send_cq /\ recv_mem' = recv_mem
      /\ write_buf' = write_buf /\ msg_buf' = msg_buf /\ header' = header
  BY DEF RecvKey, sendVars
<1>3. pc[x] = "key" /\ pc'[x] \notin {"setup", "key", "body"} /\ pc'[e] = pc[e]
  BY <1>1, Types DEF RecvKey
<1>4. recv_cq[x] # <<>> /\ recv_cq'[x] = Tail(recv_cq[x])
  BY RecvKeyEffect
<1>5. recv_cq[x] \in Seq(Buffers)
  BY EndTypes
<1>6. Len(recv_cq[x]) \in Nat /\ Len(recv_cq'[x]) = Len(recv_cq[x]) - 1
  BY <1>4, <1>5, TailFacts
<1>. HIDE DEF e
<1>7. KeyOK(e) /\ QueueOK(e) /\ WriteBufOK(e) /\ ArrivedOK(e)
  BY DEF LinkOK, e
<1>8. kind # "SEND_RECV"
  BY <1>3 DEF TalkOK, Setup
<1>9. pc[e] # "setup" /\ ~KeyPosted(e)
  BY <1>1, <1>4, <1>7 DEF KeyOK
<1>10. /\ Op' = Op /\ \A m : Filled(Empty, Op', m) = Packed(m)
  BY <1>2, SameOp
<1>11. /\ ~KeyPosted(e)' /\ (Coming(e)' <=> Coming(e)) /\ (Reading(e)' <=> Reading(e))
  BY <1>1, <1>2, <1>3, <1>9 DEF KeyPosted, Coming, Reading
<1>12. KeyOK(e)'
  BY <1>3, <1>9, <1>11 DEF KeyOK
<1>13. QueueOK(e)'
  BY <1>1, <1>2, <1>3, <1>7, <1>9, <1>10, <1>11 DEF QueueOK, Posts, Packed, Trailing
<1>14. WriteBufOK(e)'
  BY <1>2, <1>7, <1>10, <1>11 DEF WriteBufOK, Shows, Packed
<1>15. ArrivedOK(e)'
  <2>1. KeyCompletions(x) = 1 /\ KeyCompletions(x)' = 0
    BY <1>3 DEF KeyCompletions, Setup
  <2>2. /\ Len(recv_cq[x]) <= 2
        /\ Len(recv_cq[x]) = 2 => /\ kind # "RDMA_WRITE" /\ Coming(e) /\ sq[e] = <<>>
                                  /\ write_buf[x] = Packed(sent[e])
    BY <1>1, <1>7, <1>8, <2>1 DEF ArrivedOK, Whole
  <2>3. /\ Len(recv_cq'[x]) <= 1
        /\ Len(recv_cq'[x]) = 1 => Len(recv_cq[x]) = 2
    BY <1>6, <2>2
  <2>. QED  BY <1>1, <1>2, <1>3, <1>8, <1>10, <1>11, <2>1, <2>2, <2>3
            DEF ArrivedOK, Whole, Packed, Setup
<1>. QED  BY <1>12, <1>13, <1>14, <1>15 DEF LinkOK, e

\* The header has been read: the message is not coming any more but being read.
LEMMA HeaderLink ==
    ASSUME TypeOK, TalkOK, NEW x \in Ends, LinkOK(Peer(x)), RecvHeader(x)
    PROVE  LinkOK(Peer(x))'
<1>. DEFINE e == Peer(x)
<1>1. e \in Ends /\ Peer(e) = x /\ e # x
  BY Peers
<1>2. /\ kind' = kind /\ sq' = sq /\ placed' = placed /\ sent' = sent /\ mem' = mem
      /\ unacked' = unacked /\ send_cq' = send_cq /\ recv_mem' = recv_mem
      /\ write_buf' = write_buf
  BY DEF RecvHeader, sendVars
<1>3. pc[x] = "header" /\ pc'[x] = "body" /\ pc'[e] = pc[e]
  BY <1>1, Types DEF RecvHeader
<1>4. Coming(e) /\ header' = [header EXCEPT ![x] = sent[e]]
  BY HeaderArrives
<1>5. header'[x] = sent[e]
  BY <1>4, Types
<1>6. kind = "RDMA_WRITE" => /\ recv_cq[x] = <<>>
                             /\ sq[e] = <<>> \/ Len(sq[e]) = 1
                             /\ recv_cq' = recv_cq
  BY HeaderArrives
<1>7. kind # "RDMA_WRITE" =>
        /\ recv_cq[x][1] \in Buffers /\ sq[e] = <<>> /\ Whole(x, recv_cq[x][1], sent[e])
        /\ recv_cq' = [recv_cq EXCEPT ![x] = <<>>]
        /\ msg_buf' = [msg_buf EXCEPT ![x] = recv_cq[x][1]]
  BY HeaderArrives
<1>8. recv_cq'[x] = <<>>
  BY <1>6, <1>7, Types
<1>9. kind # "RDMA_WRITE" => msg_buf'[x] = recv_cq[x][1]
  BY <1>7, Types
<1>. HIDE DEF e
<1>10. KeyOK(e) /\ QueueOK(e) /\ WriteBufOK(e) /\ ArrivedOK(e)
  BY DEF LinkOK, e
<1>11. pc[e] # "setup" /\ ~KeyPosted(e) /\ ~Setup(x) /\ ~Setup(x)'
  BY <1>1, <1>3, <1>10 DEF KeyOK, Setup
<1>12. Op' = Op /\ \A m : Filled(Empty, Op', m) = Packed(m)
  BY <1>2, SameOp
<1>13. ~KeyPosted(e)' /\ ~Coming(e)' /\ Reading(e)' /\ Reading(e)
  BY <1>1, <1>2, <1>3, <1>4, <1>5, <1>11 DEF KeyPosted, Coming, Reading
<1>14. KeyOK(e)'
  BY <1>3, <1>11, <1>13 DEF KeyOK
<1>15. QueueOK(e)'
  <2>1. CASE sq[e] = <<>>
    BY <1>2, <1>10, <1>11, <2>1, LengthFacts, EmptySequence DEF QueueOK, KeyPosted
  <2>2. CASE sq[e] # <<>>
    <3>1. kind = "RDMA_WRITE" /\ Len(sq[e]) = 1
      BY <1>6, <1>7, <2>2
    <3>2. Posts(e, 1, sent[e])
      BY <1>10, <1>11, <2>2, <3>1 DEF QueueOK
    <3>. QED  BY <1>1, <1>2, <1>3, <1>12, <3>1, <3>2 DEF QueueOK, Posts, Packed
  <2>. QED  BY <2>1, <2>2
<1>16. WriteBufOK(e)'
  BY <1>2, <1>10, <1>12, <1>13 DEF WriteBufOK, Shows, Packed
<1>17. ArrivedOK(e)'
  <2>1. KeyCompletions(x)' = 0 /\ Len(recv_cq'[x]) = 0
    BY <1>8, <1>11, EmptySequence DEF KeyCompletions
  <2>2. kind # "RDMA_WRITE" => sq'[e] = <<>> /\ Whole(x, msg_buf[x], sent[e])'
    BY <1>2, <1>7, <1>9, <1>12 DEF Whole, Packed
  <2>. QED  BY <1>1, <1>2, <1>3, <1>11, <2>1, <2>2 DEF ArrivedOK
<1>. QED  BY <1>14, <1>15, <1>16, <1>17 DEF LinkOK, e

\* The message has been read, and write_buf is clear for the next.
LEMMA BodyLink ==
    ASSUME TypeOK, TalkOK, NEW x \in Ends, LinkOK(Peer(x)), ReceiveOK(x), RecvBody(x)
    PROVE  LinkOK(Peer(x))'
<1>. DEFINE e == Peer(x)
<1>1. e \in Ends /\ Peer(e) = x /\ e # x
  BY Peers
<1>2. /\ kind' = kind /\ sq' = sq /\ placed' = placed /\ sent' = sent /\ mem' = mem
      /\ unacked' = unacked /\ send_cq' = send_cq /\ recv_mem' = recv_mem
      /\ recv_cq' = recv_cq /\ header' = header
  BY DEF RecvBody, sendVars
<1>3. /\ pc[x] = "body" /\ pc'[x] \in {"ready", "closed", "handle"}
      /\ pc'[e] = pc[e]
  BY <1>1, Types DEF RecvBody
<1>4. /\ header[x] = sent[e] /\ ~Coming(e)
      /\ header[x].type \in {"REQUEST", "ANSWER", "CLOSE"} /\ recv_cq[x] = <<>>
      /\ sq[e] = <<>> \/ (/\ kind = "RDMA_WRITE" /\ Len(sq[e]) = 1
                          /\ Posts(e, 1, sent[e]) /\ placed[e] > header[x].len + 1)
  BY BodyArrives
<1>5. kind # "SEND_RECV" => write_buf'[x] = Empty
  BY RecvBodyEffect
<1>6. sq[e] \in Seq(Requests)
  BY <1>1, EndTypes
<1>. HIDE DEF e
<1>7. KeyOK(e) /\ QueueOK(e)
  BY DEF LinkOK, e
<1>8. pc[e] # "setup" /\ ~KeyPosted(e) /\ ~Setup(x)'
  BY <1>1, <1>3, <1>7 DEF KeyOK, Setup
<1>9. Op' = Op /\ \A m : Filled(Empty, Op', m) = Packed(m)
  BY <1>2, SameOp
<1>10. ~KeyPosted(e)' /\ ~Coming(e)' /\ ~Reading(e)'
  BY <1>1, <1>2, <1>3, <1>4, <1>8 DEF KeyPosted, Coming, Reading
<1>11. KeyOK(e)'
  BY <1>3, <1>8, <1>10 DEF KeyOK
<1>12. QueueOK(e)'
  <2>1. CASE sq[e] = <<>>
    BY <1>2, <1>7, <1>8, <2>1, LengthFacts, EmptySequence DEF QueueOK, KeyPosted
  <2>2. CASE sq[e] # <<>>
    BY <1>1, <1>2, <1>4, <1>9, <2>2 DEF QueueOK, Posts, Packed, Trailing
  <2>. QED  BY <2>1, <2>2
<1>13. WriteBufOK(e)'
  BY <1>1, <1>2, <1>5, <1>10 DEF WriteBufOK
<1>14. ArrivedOK(e)'
  <2>1. KeyCompletions(x)' = 0 /\ Len(recv_cq'[x]) = 0
    BY <1>2, <1>4, <1>8, EmptySequence DEF KeyCompletions
  <2>. QED  BY <1>1, <1>3, <1>8, <2>1 DEF ArrivedOK
<1>. QED  BY <1>11, <1>12, <1>13, <1>14 DEF LinkOK, e

\* When a connection is deleted at the end of the client, its queue is dropped.
LEMMA DeleteLink ==
    ASSUME TypeOK, TalkOK, NEW x \in Ends, LinkOK(x), Delete(x)
    PROVE  LinkOK(x)'
<1>. DEFINE p == Peer(x)
<1>1. p \in Ends /\ Peer(p) = x /\ p # x
  BY Peers
<1>2. /\ kind' = kind /\ sent' = sent /\ mem' = mem /\ recv_mem' = recv_mem
      /\ write_buf' = write_buf /\ recv_cq' = recv_cq /\ msg_buf' = msg_buf /\ header' = header
  BY DEF Delete, recvVars
<1>3. /\ pc[x] = "closed" /\ pc'[x] = "deleted" /\ pc'[p] = pc[p]
      /\ sq'[x] = <<>> /\ placed'[x] = 0
  BY <1>1, Types DEF Delete
<1>4. placed[x] \in 0..Cells /\ 0 \in 0..Cells
  BY EndTypes, Sizes
<1>. HIDE DEF p
<1>5. KeyOK(x) /\ WriteBufOK(x) /\ ArrivedOK(x)
  BY DEF LinkOK
<1>6. ~KeyPosted(x) /\ ~KeyPosted(x)'
  BY <1>3, <1>5 DEF KeyOK, KeyPosted
<1>7. Op' = Op /\ \A m : Filled(Empty, Op', m) = Packed(m)
  BY <1>2, SameOp
<1>8. /\ Coming(x)' <=> Coming(x)
      /\ Reading(x)' <=> Reading(x)
      /\ Setup(p)' <=> Setup(p)
  BY <1>2, <1>3 DEF Coming, Reading, Setup, p
<1>9. KeyOK(x)'
  BY <1>3, <1>6 DEF KeyOK
<1>10. QueueOK(x)'
  BY <1>3 DEF QueueOK
<1>11. WriteBufOK(x)'
  <2>1. ASSUME kind # "SEND_RECV", Reading(x)
        PROVE  \E k \in 0..Cells : Shows(p, sent[x], k)
    <3>1. CASE sq[x] = <<>>
      BY <1>5, <2>1, <3>1 DEF WriteBufOK, p
    <3>2. CASE sq[x] # <<>> /\ Len(sq[x]) = 1
      BY <1>4, <1>5, <2>1, <3>2 DEF WriteBufOK, p
    <3>3. CASE sq[x] # <<>> /\ Len(sq[x]) # 1
      <4>1. write_buf[p] = [j \in 0..(Cells - 1) |-> Zero]
        BY <1>5, <2>1, <3>3 DEF WriteBufOK, Empty, p
      <4>2. \A j \in 0..(Cells - 1) : ~(j < 0)
        BY Sizes
      <4>. QED  BY <1>4, <4>1, <4>2 DEF Shows
    <3>. QED  BY <3>1, <3>2, <3>3
  <2>2. kind # "SEND_RECV" /\ ~Reading(x) => write_buf[p] = Empty
    BY <1>5 DEF WriteBufOK, p
  <2>. QED  BY <1>2, <1>3, <1>7, <1>8, <2>1, <2>2 DEF WriteBufOK, Shows, Packed, p
<1>12. ArrivedOK(x)'
  BY <1>2, <1>3, <1>5, <1>6, <1>7, <1>8 DEF ArrivedOK, KeyCompletions, Whole, Packed, p
<1>. QED  BY <1>9, <1>10, <1>11, <1>12 DEF LinkOK

\* What is flushed has been read by the peer, who is gone.
LEMMA FlushLink ==
    ASSUME TypeOK, TalkOK, NEW e \in Ends, LinkOK(e), Flush(e)
    PROVE  LinkOK(e)'
<1>. DEFINE p == Peer(e)
<1>1. p \in Ends /\ Peer(p) = e /\ p # e
  BY Peers
<1>2. /\ kind' = kind /\ pc' = pc /\ sent' = sent /\ recv_cq' = recv_cq
      /\ write_buf' = write_buf /\ header' = header /\ sq[e] # <<>> /\ pc[p] = "deleted"
  BY DEF Flush, threadVars, recvVars
<1>3. sq'[e] = Tail(sq[e]) /\ placed'[e] = 0 /\ sq[e] \in Seq(Requests)
  BY <1>2, SentEffect, EndTypes DEF Flush
<1>. HIDE DEF p
<1>4. ~Coming(e)
  <2>1. CASE e = "client"
    <3>1. pc["server"] = "deleted" /\ Peer(e) = "server"
      BY <1>2, <2>1 DEF p, Peer
    <3>2. pc["client"] \in PcTypes
      BY Types DEF Ends
    <3>3. Taking
      BY <3>1, <3>2 DEF TalkOK, Setup, Settled, Replied, PcTypes
    <3>. QED  BY <2>1, <3>1, <3>3 DEF Taking, Coming
  <2>2. CASE e = "server"
    <3>1. pc["client"] = "deleted" /\ Peer(e) = "client"
      BY <1>2, <2>2 DEF p, Peer
    <3>2. Settled \/ Taking
      BY <3>1 DEF TalkOK
    <3>3. Quiet \/ (Silent("server") /\ header["client"] = NoMsg)
      BY <3>2 DEF Settled, Taking, Fresh
    <3>. QED  BY <2>2, <3>1, <3>3, SomeMessages DEF Quiet, Silent, Coming
  <2>. QED  BY <2>1, <2>2 DEF Ends
<1>5. KeyOK(e) /\ QueueOK(e) /\ WriteBufOK(e) /\ ArrivedOK(e)
  BY DEF LinkOK
<1>6. pc[e] # "setup" /\ ~KeyPosted(e) /\ ~Setup(p)
  BY <1>2, <1>5 DEF KeyOK, Setup, p
<1>7. Len(sq[e]) = 1
  BY <1>2, <1>4, <1>5 DEF QueueOK
<1>8. sq'[e] = <<>>
  <2>1. Tail(sq[e]) \in Seq(Requests) /\ Len(Tail(sq[e])) = 0
    BY <1>2, <1>3, <1>7, TailFacts
  <2>. QED  BY <1>3, <2>1, LengthFacts
<1>9. ~KeyPosted(e)' /\ ~Coming(e)' /\ ~Reading(e)' /\ ~Reading(e)
  BY <1>2, <1>4, <1>8 DEF KeyPosted, Coming, Reading, p
<1>10. KeyOK(e)' /\ QueueOK(e)'
  BY <1>2, <1>3, <1>6, <1>8, <1>9 DEF KeyOK, QueueOK
<1>11. WriteBufOK(e)'
  BY <1>2, <1>5, <1>9 DEF WriteBufOK
<1>12. ArrivedOK(e)'
  BY <1>2, <1>4, <1>5, <1>6, <1>9 DEF ArrivedOK, KeyCompletions, Setup, p
<1>. QED  BY <1>10, <1>11, <1>12 DEF LinkOK

\* A send brings the whole message, or the key, and a completion.
LEMMA TransmitLink ==
    ASSUME TypeOK, TalkOK, NEW e \in Ends, LinkOK(e), TransmitSend(e)
    PROVE  LinkOK(e)'
<1>. DEFINE p == Peer(e)
            b == Head(rq[p])
<1>1. p \in Ends /\ Peer(p) = e /\ p # e
  BY Peers
<1>2. /\ kind' = kind /\ pc' = pc /\ sent' = sent /\ write_buf' = write_buf
      /\ header' = header /\ mem' = mem /\ msg_buf' = msg_buf
  BY DEF TransmitSend, threadVars
<1>3. /\ sq[e] # <<>> /\ sq[e][1].op = "SEND" /\ Sent(e) /\ Consume(p)
      /\ recv_mem'[p][b] = mem[e][sq[e][1].buf]
  BY TransmitEffect
<1>4. sq'[e] = Tail(sq[e]) /\ placed'[e] = 0
  BY <1>3, SentEffect
<1>5. recv_cq'[p] = Append(recv_cq[p], b) /\ b \in Buffers
  BY <1>1, <1>3, ConsumeEffect
<1>6. /\ sq[e] \in Seq(Requests) /\ recv_cq[p] \in Seq(Buffers) /\ kind \in Kinds
  BY <1>1, EndTypes
<1>7. /\ Len(sq[e]) \in Nat /\ Tail(sq[e]) \in Seq(Requests) /\ Len(Tail(sq[e])) = Len(sq[e]) - 1
      /\ \A i \in 1..Len(Tail(sq[e])) : Tail(sq[e])[i] = sq[e][i + 1]
  BY <1>3, <1>6, TailFacts
<1>8. /\ Len(recv_cq'[p]) = Len(recv_cq[p]) + 1
      /\ recv_cq'[p][Len(recv_cq[p]) + 1] = b
  BY <1>5, <1>6, AppendFacts
<1>. HIDE DEF p, b
<1>9. KeyOK(e) /\ QueueOK(e) /\ WriteBufOK(e) /\ ArrivedOK(e)
  BY DEF LinkOK
<1>10. Op' = Op /\ \A m : Filled(Empty, Op', m) = Packed(m)
  BY <1>2, SameOp
<1>11. /\ Coming(e)' <=> Coming(e)
       /\ Reading(e)' <=> Reading(e)
       /\ Setup(p)' <=> Setup(p)
  BY <1>2 DEF Coming, Reading, Setup, p
<1>12. CASE kind = "SEND_RECV"
  <2>1. ~KeyPosted(e) /\ ~KeyPosted(e)'
    BY <1>2, <1>12 DEF KeyPosted
  <2>2. ~Setup(p) /\ ~Setup(e)
    BY <1>1, <1>12 DEF TalkOK
  <2>3. KeyCompletions(p) = 0 /\ KeyCompletions(p)' = 0
    BY <1>11, <2>2 DEF KeyCompletions
  <2>4. pc[p] # "body"
    BY <1>3, <1>9, <1>12 DEF ArrivedOK, p
  <2>5. Len(sq[e]) = 1 /\ Posts(e, 1, sent[e]) /\ Coming(e)
    BY <1>3, <1>9, <1>12, <2>1, <2>4 DEF QueueOK, Trailing, p
  <2>6. sq'[e] = <<>>
    <3>1. Len(Tail(sq[e])) = 0
      BY <1>7, <2>5
    <3>. QED  BY <1>4, <1>7, <3>1, LengthFacts
  <2>7. Len(recv_cq[p]) = 0
    <3>1. Len(recv_cq[p]) <= 1 /\ Len(recv_cq[p]) # 1
      BY <1>3, <1>9, <2>3 DEF ArrivedOK, p
    <3>. QED  BY <1>6, <3>1, AtMostOne
  <2>8. Len(recv_cq'[p]) = 1 /\ recv_cq'[p][1] = b
    BY <1>8, <2>7
  <2>9. recv_mem'[p][b] = Packed(sent[e])
    BY <1>3, <2>5 DEF Posts
  <2>10. KeyOK(e)'
    BY <1>2, <2>1, <2>2 DEF KeyOK, Setup
  <2>11. QueueOK(e)'
    BY <1>4, <2>6 DEF QueueOK
  <2>12. WriteBufOK(e)'
    BY <1>2, <1>12 DEF WriteBufOK
  <2>13. ArrivedOK(e)'
    <3>1. Whole(p, recv_cq[p][1], sent[e])'
      BY <1>2, <1>10, <1>12, <2>8, <2>9 DEF Whole, Packed
    <3>. QED  BY <1>2, <1>11, <1>12, <2>2, <2>3, <2>4, <2>5, <2>6, <2>8, <3>1 DEF ArrivedOK, p
  <2>. QED  BY <2>10, <2>11, <2>12, <2>13 DEF LinkOK
<1>13. CASE kind # "SEND_RECV"
  <2>1. KeyPosted(e)
    BY <1>3, <1>13 DEF KeyPosted
  <2>2. /\ Setup(p) /\ recv_cq[p] = <<>> /\ placed[e] = 0 /\ pc[e] # "setup"
        /\ pc[p] # "body" /\ pc[e] \notin {"closed", "deleted"}
    BY <1>3, <1>9, <2>1 DEF KeyOK, Setup, p
  <2>3. ~KeyPosted(e)' /\ QueueOK(e)' /\ (sq'[e] = <<>> \/ Len(sq'[e]) = 1)
        /\ (sq'[e] = <<>> => ~Coming(e))
    <3>1. Op # "SEND"
      BY <1>6, <1>13, OpFacts
    <3>2. \/ Len(sq[e]) = 1 /\ ~Coming(e)
          \/ Len(sq[e]) = 2 /\ Coming(e) /\ Posts(e, 2, sent[e])
      BY <1>3, <1>9, <2>1, <3>1 DEF QueueOK, Posts
    <3>3. CASE Len(sq[e]) = 1 /\ ~Coming(e)
      <4>1. sq'[e] = <<>>
        <5>1. Len(Tail(sq[e])) = 0
          BY <1>7, <3>3
        <5>. QED  BY <1>4, <1>7, <5>1, LengthFacts
      <4>. QED  BY <1>4, <3>3, <4>1 DEF QueueOK, KeyPosted
    <3>4. CASE Len(sq[e]) = 2 /\ Coming(e) /\ Posts(e, 2, sent[e])
      <4>1. Len(sq'[e]) = 1 /\ sq'[e][1] = sq[e][2] /\ sq'[e] # <<>>
        <5>1. Tail(sq[e]) # <<>> /\ Len(Tail(sq[e])) = 1 /\ Tail(sq[e])[1] = sq[e][2]
          BY <1>6, <3>4, SecondOfTwo
        <5>. QED  BY <1>4, <5>1
      <4>2. sq[e][2].op = Op /\ mem[e][sq[e][2].buf] = Packed(sent[e])
        BY <3>4 DEF Posts
      <4>3. Posts(e, 1, sent[e])'
        BY <1>2, <1>10, <4>1, <4>2 DEF Posts, Packed
      <4>4. ~KeyPosted(e)'
        BY <3>1, <4>1, <4>2 DEF KeyPosted
      <4>. QED  BY <1>2, <1>11, <3>4, <4>1, <4>3, <4>4 DEF QueueOK
    <3>. QED  BY <3>2, <3>3, <3>4
  <2>4. KeyOK(e)'
    BY <1>2, <2>2, <2>3 DEF KeyOK
  <2>5. write_buf[p] = Empty
    <3>1. Op # "SEND"
      BY <1>6, <1>13, OpFacts
    <3>2. Len(sq[e]) = 1 => ~Coming(e)
      BY <1>3, <1>9, <3>1 DEF QueueOK, Posts
    <3>3. ~(Reading(e) /\ sq[e] = <<>>) /\ ~(Reading(e) /\ Len(sq[e]) = 1)
      BY <1>3, <2>2, <3>2 DEF Reading, p
    <3>. QED  BY <1>9, <1>13, <3>3 DEF WriteBufOK, p
  <2>6. WriteBufOK(e)'
    <3>1. Shows(p, sent[e], 0)'
      <4>1. write_buf'[p] = [j \in 0..(Cells - 1) |-> Zero]
        BY <1>2, <2>5 DEF Empty
      <4>2. \A j \in 0..(Cells - 1) : ~(j < 0)
        BY Sizes
      <4>. QED  BY <4>1, <4>2 DEF Shows
    <3>2. sq'[e] = <<>> => ~Reading(e)'
      BY <1>11, <2>2, <2>3 DEF Reading, p
    <3>. QED  BY <1>2, <1>4, <2>5, <3>1, <3>2 DEF WriteBufOK, Shows, p
  <2>7. ArrivedOK(e)'
    <3>1. Len(recv_cq[p]) = 0
      BY <2>2, EmptySequence
    <3>2. Len(recv_cq'[p]) = 1
      BY <1>8, <3>1
    <3>3. KeyCompletions(p)' = 1
      BY <1>11, <2>2 DEF KeyCompletions
    <3>. QED  BY <1>2, <2>2, <3>2, <3>3 DEF ArrivedOK, p
  <2>. QED  BY <2>3, <2>4, <2>6, <2>7 DEF LinkOK
<1>. QED  BY <1>12, <1>13

\* A cell of a write shows the next cell of the message under way, or it is a
\* zero behind one that has been read.
LEMMA PlaceLink ==
    ASSUME TypeOK, TalkOK, NEW e \in Ends, LinkOK(e), PlaceCell(e)
    PROVE  LinkOK(e)'
<1>. DEFINE p == Peer(e)
            k == placed[e]
            b == sq[e][1].buf
            n == Len(recv_cq[p])
<1>1. p \in Ends /\ Peer(p) = e /\ p # e
  BY Peers
<1>2. /\ kind' = kind /\ pc' = pc /\ sent' = sent /\ recv_mem' = recv_mem
      /\ header' = header /\ mem' = mem /\ msg_buf' = msg_buf
  BY DEF PlaceCell, threadVars
<1>3. /\ sq[e] # <<>> /\ sq[e][1].op # "SEND"
      /\ write_buf'[p] = [write_buf[p] EXCEPT ![k] = mem[e][b][k]]
      /\ k = Cells - 1 => Sent(e)
      /\ k # Cells - 1 => /\ placed' = [placed EXCEPT ![e] = k + 1]
                          /\ UNCHANGED <<sq, unacked>>
      /\ IF k = Cells - 1 /\ sq[e][1].op = "WRITE_IMM" THEN Consume(p)
         ELSE UNCHANGED <<rq, recv_cq>>
  BY PlaceEffect
<1>4. k = Cells - 1 => sq'[e] = Tail(sq[e]) /\ placed'[e] = 0
  BY <1>3, SentEffect
<1>5. placed \in [Ends -> 0..(Cells - 1)]
  BY DEF TypeOK
<1>6. k # Cells - 1 => placed'[e] = k + 1 /\ sq'[e] = sq[e]
  BY <1>3, <1>5
<1>7. /\ sq[e] \in Seq(Requests) /\ recv_cq[p] \in Seq(Buffers) /\ kind \in Kinds
      /\ k \in 0..(Cells - 1) /\ write_buf[p] \in Packet
      /\ sent[e] \in Message /\ header[p] \in Message
  BY <1>1, EndTypes
<1>8. n \in Nat
  BY <1>7, LengthFacts
<1>9. k = Cells - 1 /\ sq[e][1].op = "WRITE_IMM" => Len(recv_cq'[p]) = n + 1 /\ recv_cq'[p][n + 1] \in Buffers
  <2>. SUFFICES ASSUME Consume(p)
                PROVE  Len(recv_cq'[p]) = n + 1 /\ recv_cq'[p][n + 1] \in Buffers
    BY <1>3
  <2>1. recv_cq'[p] = Append(recv_cq[p], Head(rq[p])) /\ Head(rq[p]) \in Buffers
    BY <1>1, ConsumeEffect
  <2>. QED  BY <1>7, <2>1, AppendFacts
<1>. HIDE DEF p, k, b, n
<1>10. KeyOK(e) /\ QueueOK(e) /\ WriteBufOK(e) /\ ArrivedOK(e)
  BY DEF LinkOK
<1>11. Op' = Op /\ \A m : Filled(Empty, Op', m) = Packed(m)
  BY <1>2, SameOp
<1>12. /\ Coming(e)' <=> Coming(e)
       /\ Reading(e)' <=> Reading(e)
       /\ Setup(p)' <=> Setup(p)
  BY <1>2 DEF Coming, Reading, Setup, p
<1>13. ~KeyPosted(e) /\ pc[e] # "setup"
  BY <1>3, <1>10 DEF KeyPosted, KeyOK
<1>14. sq[e][1].op = Op /\ kind # "SEND_RECV"
  <2>1. sq[e][1].op = Op
    BY <1>3, <1>10, <1>13 DEF QueueOK, Posts
  <2>. QED  BY <1>3, <1>7, <2>1, OpFacts
<1>15. n <= KeyCompletions(p) /\ (kind # "RDMA_WRITE" => pc[p] # "body")
       /\ (Setup(p) => n > 0)
  <2>1. n <= KeyCompletions(p) + 1 /\ n # KeyCompletions(p) + 1
    BY <1>3, <1>10 DEF ArrivedOK, p, n
  <2>2. KeyCompletions(p) \in Nat
    BY DEF KeyCompletions
  <2>3. n <= KeyCompletions(p)
    BY <1>8, <2>1, <2>2
  <2>. QED  BY <1>3, <1>10, <1>13, <2>3 DEF ArrivedOK, p, n
<1>16. KeyCompletions(p)' = KeyCompletions(p) /\ KeyCompletions(p) \in Nat
  BY <1>12 DEF KeyCompletions
<1>17. ASSUME UNCHANGED recv_cq PROVE ArrivedOK(e)'
  <2>1. Len(recv_cq'[p]) = n /\ n # KeyCompletions(p) + 1 /\ n <= KeyCompletions(p) + 1
    BY <1>8, <1>15, <1>16, <1>17 DEF n
  <2>2. CASE kind = "RDMA_WRITE"
    BY <1>2, <1>12, <1>15, <1>16, <2>1, <2>2 DEF ArrivedOK, p
  <2>3. CASE kind # "RDMA_WRITE"
    BY <1>2, <1>12, <1>15, <1>16, <2>1, <2>3 DEF ArrivedOK, p
  <2>. QED  BY <2>2, <2>3
<1>18. kind = "RDMA_WRITE" => UNCHANGED recv_cq
  BY <1>3, <1>7, <1>14, OpFacts
<1>19. ASSUME NEW m \in Message, Trailing(e, m), Posts(e, 1, m), write_buf[p] = Empty
       PROVE  /\ write_buf'[p] = Empty
              /\ k # Cells - 1 => Trailing(e, m)'
  <2>1. k > m.len + 1 /\ kind = "RDMA_WRITE" /\ mem[e][b] = Packed(m)
    BY <1>19 DEF Trailing, Posts, k, b
  <2>2. mem[e][b][k] = Zero
    BY <1>7, <1>14, <1>19, <2>1, PackedFacts
  <2>3. write_buf'[p] = Empty
    BY <1>3, <1>7, <1>19, <2>2 DEF Empty
  <2>4. m.len \in Nat
    BY <1>7, PackedFacts
  <2>5. k # Cells - 1 => placed'[e] > m.len + 1
    BY <1>6, <1>7, <2>1, <2>4, Sizes
  <2>. QED  BY <1>2, <1>19, <2>3, <2>5 DEF Trailing
<1>20. k = Cells - 1 /\ Len(sq[e]) = 1 => sq'[e] = <<>>
  <2>. SUFFICES ASSUME k = Cells - 1, Len(sq[e]) = 1 PROVE sq'[e] = <<>>
    OBVIOUS
  <2>1. Tail(sq[e]) \in Seq(Requests) /\ Len(Tail(sq[e])) = 0
    BY <1>3, <1>7, TailFacts
  <2>. QED  BY <1>4, <2>1, LengthFacts
<1>21. \/ Len(sq[e]) = 1 /\ Posts(e, 1, sent[e]) /\ Reading(e)
       \/ Len(sq[e]) = 1 /\ Posts(e, 1, sent[e]) /\ ~Reading(e) /\ Trailing(e, sent[e])
       \/ /\ Len(sq[e]) = 2 /\ Coming(e) /\ Posts(e, 2, sent[e])
          /\ Posts(e, 1, header[p]) /\ Trailing(e, header[p])
  BY <1>3, <1>10, <1>13 DEF QueueOK, Reading, p
<1>22. k # Cells - 1 => /\ \A j, m : Posts(e, j, m) => Posts(e, j, m)'
                        /\ sq'[e] = sq[e] /\ KeyOK(e)' /\ ArrivedOK(e)'
  <2>. SUFFICES ASSUME k # Cells - 1
                PROVE  /\ \A j, m : Posts(e, j, m) => Posts(e, j, m)'
                       /\ KeyOK(e)' /\ ArrivedOK(e)'
    BY <1>6
  <2>1. sq'[e] = sq[e] /\ UNCHANGED recv_cq
    BY <1>3, <1>6
  <2>2. ~KeyPosted(e)'
    BY <1>2, <1>13, <2>1 DEF KeyPosted
  <2>. QED  BY <1>2, <1>11, <1>13, <1>17, <2>1, <2>2 DEF KeyOK, Posts, Packed
<1>23. CASE Len(sq[e]) = 1 /\ Posts(e, 1, sent[e]) /\ Reading(e)
  <2>1. Shows(p, sent[e], k) /\ mem[e][b] = Packed(sent[e])
    BY <1>3, <1>10, <1>14, <1>23 DEF WriteBufOK, Posts, p, k, b
  <2>2. write_buf'[p] = [j \in 0..(Cells - 1) |-> IF j < k + 1 THEN Packed(sent[e])[j] ELSE Zero]
    <3>1. mem[e][b][k] = Packed(sent[e])[k]
      BY <2>1
    <3>2. write_buf'[p] = [write_buf[p] EXCEPT ![k] = Packed(sent[e])[k]]
      BY <1>3, <3>1
    <3>3. write_buf[p] = [j \in 0..(Cells - 1) |-> IF j < k THEN Packed(sent[e])[j] ELSE Zero]
      BY <2>1 DEF Shows
    <3>4. \A j \in 0..(Cells - 1) : /\ j = k => j < k + 1
                                  /\ j # k => (j < k <=> j < k + 1)
      BY <1>7
    <3>. DEFINE c == Packed(sent[e])
                d == 0..(Cells - 1)
    <3>. HIDE DEF c, d
    <3>5. write_buf[p] = [j \in d |-> IF j < k THEN c[j] ELSE Zero]
      BY <3>3 DEF c, d
    <3>6. write_buf'[p] = [j \in d |-> IF j = k THEN c[k] ELSE IF j < k THEN c[j] ELSE Zero]
      BY <3>2, <3>5 DEF c
    <3>7. \A j \in d : (IF j = k THEN c[k] ELSE IF j < k THEN c[j] ELSE Zero) =
                       (IF j < k + 1 THEN c[j] ELSE Zero)
      BY <3>4 DEF d
    <3>8. write_buf'[p] = [j \in d |-> IF j < k + 1 THEN c[j] ELSE Zero]
      BY <3>6, <3>7
    <3>. QED  BY <3>8 DEF c, d
  <2>3. \A l : l = k + 1 => Shows(p, sent[e], l)'
    BY <1>2, <1>11, <2>2 DEF Shows, Packed
  <2>4. CASE k # Cells - 1
    <3>1. QueueOK(e)'
      BY <1>2, <1>12, <1>15, <1>22, <1>23, <2>4 DEF QueueOK, Reading, p
    <3>2. WriteBufOK(e)'
      <4>1. Shows(p, sent[e], placed[e])'
        BY <1>6, <2>2, <1>2, <1>11, <2>4 DEF Shows, Packed
      <4>. QED  BY <1>2, <1>3, <1>12, <1>22, <1>23, <2>4, <4>1 DEF WriteBufOK, p
    <3>. QED  BY <1>22, <2>4, <3>1, <3>2 DEF LinkOK
  <2>5. CASE k = Cells - 1
    <3>1. sq'[e] = <<>> /\ placed'[e] = 0
      BY <1>4, <1>20, <1>23, <2>5
    <3>2. KeyOK(e)' /\ QueueOK(e)'
      BY <1>2, <1>13, <3>1 DEF KeyOK, QueueOK, KeyPosted
    <3>3. k + 1 = Cells /\ Cells \in 0..Cells
      BY <1>7, <2>5, Sizes
    <3>4. WriteBufOK(e)'
      BY <1>2, <1>12, <1>23, <2>3, <3>1, <3>3 DEF WriteBufOK, p
    <3>5. ArrivedOK(e)'
      <4>1. CASE sq[e][1].op = "WRITE_IMM"
        <5>1. kind = "RDMA_WRITE_IMM" /\ Coming(e) /\ pc[p] # "body"
          BY <1>7, <1>14, <1>15, <1>23, <4>1, OpFacts DEF Reading, p
        <5>2. Packed(sent[e]) \in Packet
          BY <1>7, PackedFacts
        <5>3. \A j \in 0..(Cells - 1) : j < k + 1
          BY <1>7, <2>5
        <5>4. write_buf'[p] = Packed(sent[e])
          BY <2>2, <5>2, <5>3 DEF Packet
        <5>5. Whole(p, recv_cq[p][1], sent[e])'
          BY <1>2, <1>11, <5>1, <5>4 DEF Whole, Packed
        <5>6. Len(recv_cq'[p]) = n + 1 /\ n + 1 <= KeyCompletions(p) + 1 /\ n + 1 > 0
          BY <1>8, <1>9, <1>15, <1>16, <2>5, <4>1
        <5>. QED  BY <1>2, <1>12, <1>16, <3>1, <5>1, <5>5, <5>6 DEF ArrivedOK, p
      <4>2. CASE sq[e][1].op # "WRITE_IMM"
        BY <1>3, <1>17, <4>2
      <4>. QED  BY <4>1, <4>2
    <3>. QED  BY <3>2, <3>4, <3>5 DEF LinkOK
  <2>. QED  BY <2>4, <2>5
<1>24. CASE Len(sq[e]) = 1 /\ Posts(e, 1, sent[e]) /\ ~Reading(e) /\ Trailing(e, sent[e])
  <2>1. write_buf[p] = Empty
    BY <1>10, <1>14, <1>24 DEF WriteBufOK, p
  <2>2. write_buf'[p] = Empty /\ (k # Cells - 1 => Trailing(e, sent[e])')
    BY <1>2, <1>7, <1>19, <1>24, <2>1
  <2>3. WriteBufOK(e)'
    BY <1>12, <1>24, <2>2 DEF WriteBufOK, p
  <2>4. CASE k # Cells - 1
    <3>1. QueueOK(e)'
      BY <1>2, <1>22, <1>24, <2>2, <2>4 DEF QueueOK
    <3>. QED  BY <1>22, <2>3, <2>4, <3>1 DEF LinkOK
  <2>5. CASE k = Cells - 1
    <3>1. sq'[e] = <<>> /\ placed'[e] = 0
      BY <1>4, <1>20, <1>24, <2>5
    <3>2. KeyOK(e)' /\ QueueOK(e)'
      BY <1>2, <1>13, <3>1 DEF KeyOK, QueueOK, KeyPosted
    <3>3. ArrivedOK(e)'
      BY <1>17, <1>18, <1>24 DEF Trailing
    <3>. QED  BY <2>3, <3>2, <3>3 DEF LinkOK
  <2>. QED  BY <2>4, <2>5
<1>25. CASE /\ Len(sq[e]) = 2 /\ Coming(e) /\ Posts(e, 2, sent[e])
            /\ Posts(e, 1, header[p]) /\ Trailing(e, header[p])
  <2>1. write_buf[p] = Empty /\ kind = "RDMA_WRITE"
    BY <1>3, <1>10, <1>14, <1>25 DEF WriteBufOK, Trailing, p
  <2>2. write_buf'[p] = Empty /\ (k # Cells - 1 => Trailing(e, header[p])')
    BY <1>2, <1>7, <1>19, <1>25, <2>1
  <2>3. CASE k # Cells - 1
    <3>1. QueueOK(e)'
      BY <1>2, <1>12, <1>22, <1>25, <2>2, <2>3 DEF QueueOK, p
    <3>2. WriteBufOK(e)'
      BY <1>3, <1>22, <1>25, <2>2, <2>3 DEF WriteBufOK, p
    <3>. QED  BY <1>22, <2>3, <3>1, <3>2 DEF LinkOK
  <2>4. CASE k = Cells - 1
    <3>1. /\ Len(sq'[e]) = 1 /\ sq'[e][1] = sq[e][2] /\ sq'[e] # <<>> /\ placed'[e] = 0
      BY <1>4, <1>7, <1>25, <2>4, SecondOfTwo
    <3>2. sq[e][2].op = Op /\ mem[e][sq[e][2].buf] = Packed(sent[e]) /\ Op # "SEND"
      BY <1>3, <1>14, <1>25 DEF Posts
    <3>3. Posts(e, 1, sent[e])' /\ ~KeyPosted(e)'
      BY <1>2, <1>11, <3>1, <3>2 DEF Posts, Packed, KeyPosted
    <3>4. KeyOK(e)' /\ QueueOK(e)'
      BY <1>2, <1>12, <1>13, <1>25, <3>1, <3>3 DEF KeyOK, QueueOK
    <3>5. Shows(p, sent[e], 0)'
      <4>1. \A j \in 0..(Cells - 1) : ~(j < 0)
        BY Sizes
      <4>. QED  BY <2>2, <4>1 DEF Shows, Empty
    <3>6. WriteBufOK(e)'
      BY <1>2, <2>2, <3>1, <3>5 DEF WriteBufOK, Shows, p
    <3>7. ArrivedOK(e)'
      BY <1>17, <1>18, <2>1
    <3>. QED  BY <3>4, <3>6, <3>7 DEF LinkOK
  <2>. QED  BY <2>3, <2>4
<1>. QED  BY <1>21, <1>23, <1>24, <1>25

\* Every step keeps what is known of the messages under way.
LEMMA LinkStep ==
    ASSUME TypeOK, TalkOK, \A e \in Ends : LinkOK(e) /\ ReceiveOK(e) /\ BuffersOK(e), Next
    PROVE  \A e \in Ends : LinkOK(e)'
<1>1. PICK x \in Ends : Thread(x) \/ Adapter(x)
  BY DEF Next
<1>. DEFINE p == Peer(x)
<1>2. /\ p \in Ends /\ Peer(p) = x /\ p # x /\ \A d \in Ends : d = x \/ d = p
      /\ LinkOK(x) /\ LinkOK(p) /\ ReceiveOK(x) /\ BuffersOK(x)
  BY Peers
<1>3. pc \in [Ends -> PcTypes]
  BY Types
<1>4. pc[x] = "setup" \/ KeyPosted(x) => unacked[x] = <<>> /\ send_cq[x] = <<>>
  BY <1>2 DEF LinkOK, KeyOK
<1>. SUFFICES LinkOK(x)' /\ LinkOK(p)'
  BY <1>2
<1>. HIDE DEF p
<1>5. CASE Sends(x)
  <2>1. PICK op \in Ops, m \in Message :
            /\ Post(x, op, m) /\ Sending(x, op, m)
            /\ send_cq'[x] = send_cq[x] \/ send_cq'[x] = <<>>
            /\ send_cq'[p] = send_cq[p]
    BY <1>2, <1>5, SendEffect
  <2>2. LinkOK(x)'
    BY <1>2, <2>1, KeyLink, SendLink
  <2>3. /\ UNCHANGED <<kind, header, placed, unacked, recv_cq, recv_mem, write_buf, msg_buf>>
        /\ sq'[p] = sq[p] /\ sent'[p] = sent[p] /\ mem'[p] = mem[p]
    BY <1>2, <2>1, PostEffect DEF Post, recvVars
  <2>4. /\ pc'[p] = pc[p]
        /\ pc'[x] = "body" <=> pc[x] = "body"
        /\ Setup(x)' <=> Setup(x)
    BY <1>2, <1>3, <2>1 DEF Sending, Setup
  <2>5. LinkOK(p)'
    BY <1>2, <2>1, <2>3, <2>4, SameLink
  <2>. QED  BY <2>2, <2>5
<1>6. CASE PollClose(x)
  <2>1. /\ UNCHANGED <<kind, sent, header, mem, sq, placed, unacked, recv_cq, recv_mem,
                       write_buf, msg_buf>>
        /\ send_cq[x] # <<>> /\ pc[x] = "closing"
        /\ send_cq' = [send_cq EXCEPT ![x] = Tail(send_cq[x])]
        /\ pc' = [pc EXCEPT ![x] = "closed"]
    BY <1>6 DEF PollClose, recvVars
  <2>2. send_cq'[p] = send_cq[p] /\ pc'[p] = pc[p] /\ pc'[x] = "closed"
    BY <1>2, <1>3, <2>1 DEF TypeOK
  <2>3. LinkOK(x)'
    BY <1>2, <1>4, <2>1, <2>2, SameLink DEF Setup, p
  <2>4. LinkOK(p)'
    BY <1>2, <2>1, <2>2, SameLink DEF Setup
  <2>. QED  BY <2>3, <2>4
<1>7. CASE Delete(x)
  <2>1. LinkOK(x)'
    BY <1>2, <1>7, DeleteLink
  <2>2. /\ UNCHANGED <<kind, sent, header, mem, send_cq, recv_cq, recv_mem, write_buf, msg_buf>>
        /\ sq' = [sq EXCEPT ![x] = <<>>] /\ placed' = [placed EXCEPT ![x] = 0]
        /\ unacked' = [unacked EXCEPT ![x] = <<>>]
        /\ pc[x] = "closed" /\ pc' = [pc EXCEPT ![x] = "deleted"]
    BY <1>7 DEF Delete, recvVars
  <2>3. /\ sq'[p] = sq[p] /\ placed'[p] = placed[p] /\ unacked'[p] = unacked[p]
        /\ pc'[p] = pc[p] /\ pc'[x] = "deleted"
    BY <1>2, <1>3, <2>2 DEF TypeOK
  <2>4. LinkOK(p)'
    BY <1>2, <2>2, <2>3, SameLink DEF Setup
  <2>. QED  BY <2>1, <2>4
<1>8. CASE RecvKey(x)
  <2>1. LinkOK(p)'
    BY <1>2, <1>8, KeyLeaves DEF p
  <2>2. /\ UNCHANGED <<kind, sent, header, mem, sq, placed, unacked, send_cq, recv_mem,
                       write_buf, msg_buf>>
        /\ pc[x] = "key" /\ pc' = [pc EXCEPT ![x] = IF x = "client" THEN "ready" ELSE "header"]
    BY <1>8 DEF RecvKey, sendVars
  <2>3. recv_cq'[p] = recv_cq[p]
    BY <1>2, <1>8, RecvKeyEffect
  <2>4. pc'[p] = pc[p] /\ pc'[x] \in {"ready", "header"}
    BY <1>2, <1>3, <2>2
  <2>5. LinkOK(x)'
    BY <1>2, <2>2, <2>3, <2>4, SameLink DEF Setup, p
  <2>. QED  BY <2>1, <2>5
<1>9. CASE RecvHeader(x)
  <2>1. LinkOK(p)'
    BY <1>2, <1>9, HeaderLink DEF p
  <2>2. /\ UNCHANGED <<kind, sent, mem, sq, placed, unacked, send_cq, recv_mem, write_buf>>
        /\ pc[x] = "header" /\ pc' = [pc EXCEPT ![x] = "body"]
    BY <1>9 DEF RecvHeader, sendVars
  <2>3. /\ header' = [header EXCEPT ![x] = sent[p]]
        /\ kind = "RDMA_WRITE" => UNCHANGED <<msg_buf, recv_cq>>
        /\ kind # "RDMA_WRITE" => /\ recv_cq' = [recv_cq EXCEPT ![x] = <<>>]
                                  /\ msg_buf' = [msg_buf EXCEPT ![x] = recv_cq[x][1]]
    BY <1>2, <1>9, HeaderArrives DEF p
  <2>4. /\ pc'[p] = pc[p] /\ pc'[x] = "body" /\ header'[p] = header[p]
        /\ recv_cq'[p] = recv_cq[p] /\ msg_buf'[p] = msg_buf[p]
    BY <1>2, <1>3, <2>2, <2>3 DEF TypeOK
  <2>5. LinkOK(x)'
    BY <1>2, <2>2, <2>4, SameLink DEF Setup, p
  <2>. QED  BY <2>1, <2>5
<1>10. CASE RecvBody(x)
  <2>1. LinkOK(p)'
    BY <1>2, <1>10, BodyLink DEF p
  <2>2. /\ UNCHANGED <<kind, sent, header, mem, sq, placed, unacked, send_cq, recv_mem, recv_cq>>
        /\ pc[x] = "body"
        /\ pc' = [pc EXCEPT ![x] = IF x = "client" THEN "ready"
                                   ELSE IF header[x].type = "CLOSE" THEN "closed"
                                   ELSE "handle"]
    BY <1>10 DEF RecvBody, sendVars
  <2>3. msg_buf' = [msg_buf EXCEPT ![x] = 0] /\ write_buf'[p] = write_buf[p]
    BY <1>2, <1>10, RecvBodyEffect
  <2>4. /\ pc'[p] = pc[p] /\ msg_buf'[p] = msg_buf[p]
        /\ pc'[x] \in {"ready", "closed", "handle"}
        /\ pc'[x] = "closed" => x # "client"
    BY <1>2, <1>3, <2>2, <2>3 DEF TypeOK
  <2>5. pc'[x] = "closed" => ~KeyPosted(x)
    <3>. SUFFICES ASSUME x = "server" PROVE ~KeyPosted(x)
      BY <2>4 DEF Ends
    <3>1. ~Setup(Peer(x))
      BY <2>2 DEF TalkOK, Peer
    <3>. QED  BY <1>2, <3>1 DEF LinkOK, KeyOK
  <2>6. LinkOK(x)'
    BY <1>2, <2>2, <2>3, <2>4, <2>5, SameLink DEF Setup, p
  <2>. QED  BY <2>1, <2>6
<1>11. CASE TransmitSend(x)
  <2>1. LinkOK(x)'
    BY <1>2, <1>11, TransmitLink
  <2>2. /\ UNCHANGED <<threadVars, mem, send_cq, msg_buf, write_buf>>
        /\ sq[x] # <<>> /\ Sent(x) /\ Consume(p) /\ recv_mem'[x] = recv_mem[x]
    BY <1>11, TransmitEffect DEF TransmitSend, p
  <2>3. recv_cq'[x] = recv_cq[x]
    BY <1>2, <2>2, ConsumeEffect
  <2>4. sq'[p] = sq[p] /\ placed'[p] = placed[p] /\ unacked'[p] = unacked[p]
    BY <1>2, <2>2, SentEffect
  <2>5. LinkOK(p)'
    BY <1>2, <2>2, <2>3, <2>4, SameLink DEF Setup, threadVars
  <2>. QED  BY <2>1, <2>5
<1>12. CASE PlaceCell(x)
  <2>1. LinkOK(x)'
    BY <1>2, <1>12, PlaceLink
  <2>2. UNCHANGED <<threadVars, mem, send_cq, recv_mem, msg_buf>>
    BY <1>12 DEF PlaceCell
  <2>3. /\ sq[x] # <<>> /\ write_buf'[x] = write_buf[x]
        /\ placed[x] = Cells - 1 => Sent(x)
        /\ placed[x] # Cells - 1 => /\ placed' = [placed EXCEPT ![x] = placed[x] + 1]
                                    /\ UNCHANGED <<sq, unacked>>
        /\ Consume(p) \/ UNCHANGED <<rq, recv_cq>>
    BY <1>12, PlaceEffect DEF p
  <2>4. recv_cq'[x] = recv_cq[x]
    BY <1>2, <2>3, ConsumeEffect
  <2>5. sq'[p] = sq[p] /\ placed'[p] = placed[p] /\ unacked'[p] = unacked[p]
    <3>1. CASE placed[x] = Cells - 1
      BY <1>2, <2>3, <3>1, SentEffect
    <3>2. CASE placed[x] # Cells - 1
      BY <1>2, <2>3, <3>2 DEF TypeOK
    <3>. QED  BY <3>1, <3>2
  <2>6. LinkOK(p)'
    BY <1>2, <2>2, <2>3, <2>4, <2>5, SameLink DEF Setup, threadVars
  <2>. QED  BY <2>1, <2>6
<1>13. CASE Flush(x)
  <2>1. LinkOK(x)'
    BY <1>2, <1>13, FlushLink
  <2>2. UNCHANGED <<threadVars, mem, send_cq, recvVars>> /\ sq[x] # <<>> /\ Sent(x)
    BY <1>13 DEF Flush
  <2>3. sq'[p] = sq[p] /\ placed'[p] = placed[p] /\ unacked'[p] = unacked[p]
    BY <1>2, <2>2, SentEffect
  <2>4. LinkOK(p)'
    BY <1>2, <2>2, <2>3, SameLink DEF Setup, threadVars, recvVars
  <2>. QED  BY <2>1, <2>4
<1>14. CASE Complete(x)
  <2>1. /\ UNCHANGED <<threadVars, mem, sq, placed, recvVars>> /\ unacked[x] # <<>>
        /\ unacked' = [unacked EXCEPT ![x] = Tail(unacked[x])]
        /\ send_cq' = [send_cq EXCEPT ![x] = Append(send_cq[x], Head(unacked[x]))]
    BY <1>14 DEF Complete, TypeOK
  <2>2. unacked'[p] = unacked[p] /\ send_cq'[p] = send_cq[p]
    BY <1>2, <2>1 DEF TypeOK
  <2>3. LinkOK(x)'
    BY <1>2, <1>4, <2>1, SameLink DEF Setup, threadVars, recvVars, p
  <2>4. LinkOK(p)'
    BY <1>2, <2>1, <2>2, SameLink DEF Setup, threadVars, recvVars
  <2>. QED  BY <2>3, <2>4
<1>. QED  BY <1>1, <1>5, <1>6, <1>7, <1>8, <1>9, <1>10, <1>11, <1>12, <1>13, <1>14
          DEF Thread, Adapter, Sends

-----------------------------------------------------------------------------
(* The invariant *)

\* A connection starts with all its buffers free or posted.
LEMMA InitOK == Init => IInv
<1>. SUFFICES ASSUME Init PROVE IInv
  OBVIOUS
<1>. DEFINE all == [i \in Buffers |-> i]
<1>1. all \in Seq(Buffers) /\ Len(all) = Window /\ Distinct(all)
  <2>1. all \in [1..Window -> Buffers] /\ Window \in Nat
    BY Sizes DEF Buffers
  <2>2. all \in Seq(Buffers) /\ Len(all) = Window
    BY <2>1
  <2>. QED  BY <2>2 DEF Distinct, Buffers
<1>. HIDE DEF all
<1>2. Empty \in Packet /\ NoMsg \in Message /\ \A S : <<>> \in Seq(S)
  BY EmptySequence, SomeMessages DEF Empty, Packet
<1>3. /\ kind \in Kinds
      /\ \A e \in Ends : /\ pc[e] = IF kind # "SEND_RECV" THEN "setup"
                                    ELSE IF e = "client" THEN "ready" ELSE "header"
                         /\ sent[e] = NoMsg /\ header[e] = NoMsg /\ body[e] = {}
                         /\ send_bufs[e] = all /\ sq[e] = <<>> /\ placed[e] = 0
                         /\ unacked[e] = <<>> /\ send_cq[e] = <<>> /\ rq[e] = all
                         /\ recv_cq[e] = <<>> /\ msg_buf[e] = 0 /\ write_buf[e] = Empty
  BY DEF Init, all
<1>4. TypeOK
  <2>1. pc \in [Ends -> PcTypes]
    BY DEF Init, PcTypes
  <2>2. sent \in [Ends -> Message] /\ header \in [Ends -> Message]
        /\ body \in [Ends -> SUBSET (Message \cup {Zero, Flag})]
    BY <1>2 DEF Init
  <2>3. /\ send_bufs \in [Ends -> Seq(Buffers)] /\ rq \in [Ends -> Seq(Buffers)]
        /\ unacked \in [Ends -> Seq(Buffers)] /\ send_cq \in [Ends -> Seq(Buffers)]
        /\ recv_cq \in [Ends -> Seq(Buffers)] /\ sq \in [Ends -> Seq(Requests)]
    <3>1. \A S : \A s \in Seq(S) : [e \in Ends |-> s] \in [Ends -> Seq(S)]
      OBVIOUS
    <3>. QED  BY <1>1, <1>2, <3>1, Zenon DEF Init, all
  <2>4. mem \in [Ends -> [Buffers -> Packet]] /\ recv_mem \in [Ends -> [Buffers -> Packet]]
        /\ write_buf \in [Ends -> Packet]
    BY <1>2 DEF Init
  <2>5. placed \in [Ends -> 0..(Cells - 1)] /\ msg_buf \in [Ends -> 0..Window]
    BY Sizes DEF Init
  <2>. QED  BY <1>3, <2>1, <2>2, <2>3, <2>4, <2>5, Types
<1>5. TalkOK /\ BodiesOK
  BY <1>3, SomeMessages DEF TalkOK, BodiesOK, Setup, Silent, Fresh, Settled, Ends
<1>6. ASSUME NEW e \in Ends PROVE LinkOK(e)
  <2>1. Peer(e) \in Ends
    BY Peers
  <2>2. ~KeyPosted(e) /\ ~Coming(e) /\ ~Reading(e)
    BY <1>3, <2>1, SomeMessages DEF KeyPosted, Coming, Reading
  <2>3. Len(recv_cq[Peer(e)]) = 0
    BY <1>3, <2>1, EmptySequence
  <2>4. KeyOK(e) /\ QueueOK(e) /\ WriteBufOK(e)
    BY <1>3, <2>1, <2>2 DEF KeyOK, QueueOK, WriteBufOK, Setup
  <2>5. ArrivedOK(e)
    BY <1>3, <2>1, <2>3 DEF ArrivedOK, KeyCompletions, Setup
  <2>. QED  BY <2>4, <2>5 DEF LinkOK
<1>7. ASSUME NEW e \in Ends PROVE ReceiveOK(e)
  <2>1. Len(rq[e]) = Window /\ Len(recv_cq[e]) = 0 /\ msg_buf[e] = 0 /\ pc[e] # "body"
    BY <1>1, <1>3, EmptySequence
  <2>. QED  BY <2>1, Sizes DEF ReceiveOK
<1>8. ASSUME NEW e \in Ends PROVE BuffersOK(e)
  <2>1. Posted(e) = <<>> /\ send_bufs[e] = all /\ unacked[e] = <<>> /\ send_cq[e] = <<>>
    BY <1>3, EmptySequence DEF Posted
  <2>. QED  BY <1>1, <2>1, NothingApart DEF BuffersOK
<1>. QED  BY <1>4, <1>5, <1>6, <1>7, <1>8 DEF IInv

\* No step breaks the invariant.
LEMMA StepOK == IInv /\ [Next]_vars => IInv'
<1>. SUFFICES ASSUME IInv, [Next]_vars PROVE IInv'
  OBVIOUS
<1>1. /\ TypeOK /\ TalkOK /\ BodiesOK
      /\ \A e \in Ends : LinkOK(e) /\ ReceiveOK(e) /\ BuffersOK(e)
  BY DEF IInv
<1>2. CASE Next
  <2>1. TypeOK'
    BY <1>1, <1>2, TypeStep
  <2>2. TalkOK' /\ BodiesOK'
    BY <1>1, <1>2, TalkStep
  <2>3. /\ \A e \in Ends : LinkOK(e)'
        /\ \A e \in Ends : ReceiveOK(e)'
        /\ \A e \in Ends : BuffersOK(e)'
    BY <1>1, <1>2, LinkStep, ReceiveStep, BuffersStep
  <2>. QED  BY <2>1, <2>2, <2>3 DEF IInv
<1>3. CASE UNCHANGED vars
  <2>1. UNCHANGED <<kind, pc, sent, header, body, send_bufs, mem, sq, placed, unacked,
                    send_cq, recv_mem, rq, recv_cq, msg_buf, write_buf>>
    BY <1>3 DEF vars, threadVars, sendVars, recvVars
  <2>2. TypeOK'
    BY <1>1, <2>1 DEF TypeOK
  <2>3. TalkOK' /\ BodiesOK'
    BY <1>1, <2>1, SameTalk
  <2>4. \A e \in Ends : LinkOK(e)'
    BY <1>1, <2>1, SameLink, Peers DEF Setup
  <2>5. \A e \in Ends : ReceiveOK(e)' /\ BuffersOK(e)'
    BY <1>1, <2>1, SameReceive, SameBuffers
  <2>. QED  BY <2>2, <2>3, <2>4, <2>5 DEF IInv
<1>. QED  BY <1>2, <1>3

\* The conversation, the messages under way and the buffers are always in
\* order; what follows are parts of this.
THEOREM Invariance == Spec => []IInv
BY InitOK, StepOK, PTL DEF Spec

\* What an end has received is the last message of the other, with its whole
\* body, whatever the size of the window, of a packet and of the messages, and
\* however often buffers and write_buf have been used.
THEOREM Intact == Spec => []IntactMessages
<1>1. IInv => IntactMessages
  <2>. SUFFICES ASSUME IInv, NEW e \in Ends, pc[e] \in {"ready", "handle"}, header[e] # NoMsg
                PROVE  header[e] = sent[Peer(e)] /\ body[e] \subseteq {header[e]}
    BY DEF IntactMessages
  <2>1. TalkOK /\ BodiesOK /\ pc["client"] \in PcTypes
    BY Types DEF IInv, Ends
  <2>2. CASE e = "client"
    <3>1. pc["client"] = "ready" /\ Settled
      BY <2>1, <2>2 DEF TalkOK
    <3>. QED  BY <2>1, <2>2, <3>1 DEF Settled, Fresh, Quiet, BodiesOK, Peer
  <2>3. CASE e = "server"
    <3>1. pc["server"] = "handle"
      BY <2>1, <2>3 DEF TalkOK
    <3>2. Taking
      BY <2>1, <3>1 DEF TalkOK, Setup, Settled, Replied, PcTypes
    <3>. QED  BY <2>1, <2>3, <3>1, <3>2 DEF Taking, BodiesOK, Peer
  <2>. QED  BY <2>2, <2>3 DEF Ends
<1>. QED  BY <1>1, Invariance, PTL

\* get_send_buf hands out no buffer that the adapter may still read or whose
\* completion is not polled, at any size of the window.
THEOREM BuffersApart == Spec => []NoBufferInUse
<1>1. IInv => NoBufferInUse
  <2>. SUFFICES ASSUME IInv, NEW e \in Ends
                PROVE  Distinct(send_bufs[e] \o Pending(e))
    BY DEF NoBufferInUse, Distinct
  <2>1. TypeOK /\ BuffersOK(e)
    BY DEF IInv
  <2>2. /\ send_bufs[e] \in Seq(Buffers) /\ unacked[e] \in Seq(Buffers)
        /\ send_cq[e] \in Seq(Buffers) /\ sq[e] \in Seq(Requests)
    BY <2>1, EndTypes
  <2>3. Posted(e) \in Seq(Buffers)
    BY <2>2, BufsFacts DEF Bufs, Posted
  <2>. DEFINE s == send_bufs[e]
              t == Posted(e)
              u == unacked[e]
              v == send_cq[e]
  <2>4. /\ s \in Seq(Buffers) /\ t \in Seq(Buffers) /\ u \in Seq(Buffers) /\ v \in Seq(Buffers)
        /\ Distinct(s) /\ Distinct(t) /\ Distinct(u) /\ Distinct(v)
        /\ Apart(s, t) /\ Apart(s, u) /\ Apart(s, v)
        /\ Apart(t, u) /\ Apart(t, v) /\ Apart(u, v)
    BY <2>1, <2>2, <2>3 DEF BuffersOK
  <2>5. Pending(e) = (t \o u) \o v
    BY DEF Pending, Posted
  <2>. HIDE DEF s, t, u, v
  <2>6. t \o u \in Seq(Buffers) /\ Distinct(t \o u)
    BY <2>4, DistinctConcat
  <2>7. Apart(v, t \o u) /\ Apart(s, t \o u)
    <3>1. Apart(v, t) /\ Apart(v, u)
      BY <2>4, ApartSymmetric
    <3>. QED  BY <2>4, <3>1, ApartConcat
  <2>8. (t \o u) \o v \in Seq(Buffers) /\ Distinct((t \o u) \o v)
    <3>1. Apart(t \o u, v)
      BY <2>7, ApartSymmetric
    <3>2. Distinct((t \o u) \o v)
      BY <2>4, <2>6, <3>1, DistinctConcat
    <3>. QED  BY <2>4, <2>6, <3>2
  <2>9. Apart(s, (t \o u) \o v)
    BY <2>4, <2>6, <2>7, ApartConcat
  <2>10. Distinct(s \o ((t \o u) \o v))
    BY <2>4, <2>8, <2>9, DistinctConcat
  <2>. QED  BY <2>5, <2>10 DEF s
<1>. QED  BY <1>1, Invariance, PTL

\* A message that needs a receive buffer of the other end finds one posted: the
\* window has room for the key, which the peer may not have polled yet, and for
\* one message.  PACKET_WINDOW_SIZE is 10.
THEOREM ReceiversReady ==
    ASSUME Window > 1
    PROVE  Spec => []ReceiverReady
<1>1. IInv => ReceiverReady
  <2>. SUFFICES ASSUME IInv, NEW e \in Ends, sq[e] # <<>>, Head(sq[e]).op # "WRITE",
                       rq[Peer(e)] = <<>>
                PROVE  FALSE
    BY DEF ReceiverReady
  <2>. DEFINE p == Peer(e)
              n == Len(recv_cq[p])
  <2>1. /\ TypeOK /\ TalkOK /\ p \in Ends /\ KeyOK(e) /\ QueueOK(e) /\ ArrivedOK(e) /\ ReceiveOK(p)
    BY Peers DEF IInv, LinkOK
  <2>2. /\ sq[e] \in Seq(Requests) /\ recv_cq[p] \in Seq(Buffers) /\ kind \in Kinds
    BY <2>1, EndTypes
  <2>3. n \in Nat /\ sq[e][1].op # "WRITE"
    BY <2>2, TailFacts, LengthFacts
  <2>4. n + (IF msg_buf[p] # 0 THEN 1 ELSE 0) = Window
    <3>1. Len(rq[p]) = 0
      BY EmptySequence
    <3>. DEFINE h == IF msg_buf[p] # 0 THEN 1 ELSE 0
    <3>2. 0 + n + h = Window
      BY <2>1, <3>1 DEF ReceiveOK
    <3>3. h \in Nat
      OBVIOUS
    <3>. HIDE DEF n, h
    <3>4. n + h = Window
      BY <2>3, <3>2, <3>3
    <3>. QED  BY <3>4 DEF n, h
  <2>. HIDE DEF p, n
  <2>5. CASE KeyPosted(e)
    <3>1. recv_cq[p] = <<>> /\ Setup(p)
      BY <2>1, <2>5 DEF KeyOK, p
    <3>2. n = 0 /\ msg_buf[p] = 0
      BY <2>1, <3>1, EmptySequence DEF Setup, ReceiveOK, n
    <3>. QED  BY <2>4, <3>2
  <2>6. CASE ~KeyPosted(e)
    <3>1. sq[e][1].op = Op
      BY <2>1, <2>6 DEF QueueOK, Posts
    <3>2. kind # "RDMA_WRITE"
      BY <2>2, <2>3, <3>1, OpFacts
    <3>3. pc[p] # "body" /\ n <= KeyCompletions(p) + 1 /\ n # KeyCompletions(p) + 1
      BY <2>1, <3>2 DEF ArrivedOK, p, n
    <3>4. msg_buf[p] = 0
      BY <2>1, <3>3 DEF ReceiveOK
    <3>5. KeyCompletions(p) \in {0, 1}
      BY DEF KeyCompletions
    <3>. QED  BY <2>3, <2>4, <3>3, <3>4, <3>5
  <2>. QED  BY <2>5, <2>6
<1>. QED  BY <1>1, Invariance, PTL

-----------------------------------------------------------------------------
(* The refinement of Channel *)

\* What the executor works at and what the handler got are the messages of
\* their headers.
LEMMA Mapped ==
    BodiesOK =>
        /\ Serving = IF pc["server"] \in {"handle", "closed", "deleted"} THEN header["server"]
                     ELSE NoMsg
        /\ Got = IF pc["client"] = "ready" THEN header["client"] ELSE NoMsg
BY DEF BodiesOK, Serving, Got, Taken

\* Nothing is under way before the client asks.
LEMMA NothingUnderWay ==
    ASSUME TalkOK, pc["client"] \in {"setup", "key", "ready"}
    PROVE  Slot = NoMsg /\ sent["client"] # Close
<1>1. sent["client"] # Close
  BY SomeMessages DEF TalkOK, Setup, Fresh, Silent, Settled, Ends
<1>. QED  BY <1>1 DEF Slot, Waiting

\* The answer to an older request is not the one the client waits for.
LEMMA NotAnswered ==
    ASSUME TypeOK, Asked, Fresh \/ Quiet \/ (header["client"] = NoMsg /\ Silent("server"))
    PROVE  ~Answered
<1>1. header["client"].n \in Nat
  BY EndTypes, MessageFacts DEF Ends
<1>. QED  BY <1>1, SomeMessages DEF Answered, Asked, Fresh, Quiet, Silent

\* A step that changes nothing the mapping refers to.
LEMMA SameSlot ==
    ASSUME sent' = sent, header' = header, body' = body,
           \A e \in Ends : pc'[e] = pc[e]
    PROVE  Slot' = Slot /\ Serving' = Serving /\ Got' = Got
BY DEF Slot, Waiting, Answered, Serving, Got, Taken, Ends

\* Every step of the connection is one of the channel, or not visible there.
LEMMA ChannelStep ==
    ASSUME TypeOK, TalkOK, BodiesOK, BodiesOK', \A e \in Ends : LinkOK(e), Next
    PROVE  [Connection!Next]_Connection!vars
<1>. USE DEF Ends
<1>1. PICK x \in Ends : Thread(x) \/ Adapter(x)
  BY DEF Next
<1>2. /\ Peer("client") = "server" /\ Peer("server") = "client"
      /\ LinkOK("client") /\ LinkOK("server")
  BY DEF Peer
<1>3. /\ pc \in [Ends -> PcTypes] /\ sent \in [Ends -> Message] /\ header \in [Ends -> Message]
      /\ pc["client"] \in PcTypes /\ pc["server"] \in PcTypes
      /\ sent["client"] \in Message /\ sent["server"] \in Message
      /\ header["client"] \in Message /\ header["server"] \in Message
  BY Types
<1>4. /\ Serving = IF pc["server"] \in {"handle", "closed", "deleted"} THEN header["server"]
                   ELSE NoMsg
      /\ Got = IF pc["client"] = "ready" THEN header["client"] ELSE NoMsg
  BY Mapped
<1>5. /\ Serving' = IF pc'["server"] \in {"handle", "closed", "deleted"} THEN header'["server"]
                    ELSE NoMsg
      /\ Got' = IF pc'["client"] = "ready" THEN header'["client"] ELSE NoMsg
  BY DEF BodiesOK, Serving, Got, Taken
<1>6. ASSUME Slot' = Slot, Serving' = Serving, Got' = Got
      PROVE  [Connection!Next]_Connection!vars
  BY <1>6 DEF Connection!vars
<1>7. CASE SendKey(x)
  <2>1. PICK op \in Ops, m \in Message : Post(x, op, m) /\ Sending(x, op, m)
    BY <1>7, SendEffect DEF Sends
  <2>2. /\ pc[x] = "setup" /\ m = Key /\ pc' = [pc EXCEPT ![x] = "key"]
        /\ sent'[x] = Key /\ header' = header
        /\ \A d \in Ends : d # x => sent'[d] = sent[d]
    BY <1>7, <2>1, PostEffect DEF SendKey, Sending, Post
  <2>3. pc["client"] \in {"setup", "key"} /\ pc'["client"] \in {"setup", "key"}
    BY <1>3, <2>2 DEF TalkOK, Setup, Settled, Replied, PcTypes
  <2>4. Slot = NoMsg /\ sent["client"] # Close
    BY <2>3, NothingUnderWay
  <2>5. sent'["client"] # Close
    BY <2>2, <2>4, SomeMessages
  <2>6. Slot' = NoMsg
    BY <2>3, <2>5 DEF Slot, Waiting
  <2>7. Serving' = Serving /\ Got' = Got
    BY <1>3, <1>4, <1>5, <2>2
  <2>. QED  BY <1>6, <2>4, <2>6, <2>7
<1>8. CASE RecvKey(x)
  <2>1. /\ pc[x] = "key" /\ sent' = sent /\ header' = header
        /\ pc' = [pc EXCEPT ![x] = IF x = "client" THEN "ready" ELSE "header"]
    BY <1>8 DEF RecvKey
  <2>2. header[x] = NoMsg
    BY <2>1 DEF TalkOK, Setup
  <2>3. pc'["client"] \in {"header", "body"} <=> pc["client"] \in {"header", "body"}
    BY <1>3, <2>1
  <2>4. Slot' = Slot
    BY <2>1, <2>3 DEF Slot, Waiting, Answered
  <2>5. Serving' = Serving /\ Got' = Got
    BY <1>3, <1>4, <1>5, <2>1, <2>2
  <2>. QED  BY <1>6, <2>4, <2>5
<1>9. CASE Request(x) \/ SendClose(x)
  <2>1. PICK op \in Ops, m \in Message : Post(x, op, m) /\ Sending(x, op, m)
    BY <1>9, SendEffect DEF Sends
  <2>2. x = "client" /\ pc["client"] = "ready"
    BY <1>9 DEF Request, SendClose
  <2>3. /\ sent'["client"] = m /\ sent'["server"] = sent["server"] /\ header' = header
        /\ pc'["server"] = pc["server"]
    BY <1>3, <2>1, <2>2, PostEffect DEF Post, Sending
  <2>4. \/ pc'["client"] = "header" /\ m.type = "REQUEST" /\ m.n = header["client"].n + 1
        \/ pc'["client"] = "closing" /\ m = Close
    BY <1>3, <2>1, <2>2 DEF Sending
  <2>5. Slot = NoMsg /\ Settled
    BY <2>2, NothingUnderWay DEF TalkOK
  <2>6. Slot' = m
    <3>1. CASE m = Close
      BY <2>3, <3>1 DEF Slot
    <3>2. CASE m # Close
      <4>1. m.type = "REQUEST" /\ m.n = header["client"].n + 1 /\ pc'["client"] = "header"
        BY <2>4, <3>2
      <4>2. sent["server"].n # m.n
        <5>1. header["client"].n \in Nat
          BY <1>3, MessageFacts
        <5>. QED  BY <2>5, <4>1, <5>1, SomeMessages DEF Settled, Fresh, Quiet, Silent
      <4>. QED  BY <2>3, <3>2, <4>1, <4>2 DEF Slot, Waiting, Answered
    <3>. QED  BY <3>1, <3>2
  <2>7. m \in Typed("REQUEST") \cup {Close}
    BY <2>4 DEF Typed
  <2>8. Got' = NoMsg
    BY <1>5, <2>4
  <2>9. Serving' = Serving
    BY <1>4, <1>5, <2>3
  <2>10. Connection!Ask
    BY <2>5, <2>6, <2>7, <2>8, <2>9 DEF Connection!Ask
  <2>. QED  BY <2>10 DEF Connection!Next
<1>10. CASE Answer(x)
  <2>1. PICK op \in Ops, m \in Message : Post(x, op, m) /\ Sending(x, op, m)
    BY <1>10, SendEffect DEF Sends
  <2>2. /\ x = "server" /\ pc["server"] = "handle" /\ pc' = [pc EXCEPT !["server"] = "header"]
        /\ m.type = "ANSWER" /\ m.n = header["server"].n
    BY <1>10, <2>1 DEF Answer, Sending
  <2>3. sent'["server"] = m /\ sent'["client"] = sent["client"] /\ header' = header
    BY <2>1, <2>2, PostEffect DEF Post
  <2>4. pc'["server"] = "header" /\ pc'["client"] = pc["client"]
    BY <1>3, <2>2
  <2>5. pc["client"] = "header" /\ Asked /\ Taking
    BY <1>3, <2>2 DEF TalkOK, Setup, Settled, Replied, PcTypes
  <2>6. /\ sent["client"] # Close /\ header["server"] = sent["client"]
        /\ sent["client"].type = "REQUEST"
    BY <2>5, SomeMessages DEF Asked, Taking
  <2>7. Slot' = m
    BY <2>2, <2>3, <2>4, <2>5, <2>6 DEF Slot, Waiting, Answered
  <2>8. Serving = header["server"] /\ Serving' = NoMsg /\ Got' = Got
    BY <1>4, <1>5, <2>2, <2>4, <2>5
  <2>9. Serving \in Typed("REQUEST") /\ m \in AnswersTo(Serving)
    BY <1>3, <2>2, <2>6, <2>8 DEF Typed, AnswersTo
  <2>10. Connection!Reply
    BY <2>7, <2>8, <2>9 DEF Connection!Reply
  <2>. QED  BY <2>10 DEF Connection!Next
<1>11. CASE RecvHeader(x)
  <2>1. Coming(Peer(x)) /\ header' = [header EXCEPT ![x] = sent[Peer(x)]]
    BY <1>2, <1>11, HeaderArrives
  <2>2. pc[x] = "header" /\ pc' = [pc EXCEPT ![x] = "body"] /\ sent' = sent
    BY <1>11 DEF RecvHeader
  <2>3. pc'["client"] \in {"header", "body"} <=> pc["client"] \in {"header", "body"}
    BY <1>3, <2>2
  <2>4. Slot' = Slot
    BY <2>2, <2>3 DEF Slot, Waiting, Answered
  <2>5. \A e \in Ends : e # x => header'[e] = header[e] /\ pc'[e] = pc[e]
    BY <1>3, <2>1, <2>2
  <2>6. pc'[x] = "body"
    BY <1>3, <2>2
  <2>7. Serving' = Serving /\ Got' = Got
    BY <1>4, <1>5, <2>2, <2>5, <2>6
  <2>. QED  BY <1>6, <2>4, <2>7
<1>12. CASE RecvBody(x)
  <2>1. header[x] = sent[Peer(x)]
    BY <1>2, <1>12, BodyArrives
  <2>2. /\ pc[x] = "body" /\ sent' = sent /\ header' = header
        /\ pc' = [pc EXCEPT ![x] = IF x = "client" THEN "ready"
                                   ELSE IF header[x].type = "CLOSE" THEN "closed"
                                   ELSE "handle"]
    BY <1>12 DEF RecvBody
  <2>3. CASE x = "client"
    <3>1. pc'["client"] = "ready" /\ pc'["server"] = pc["server"]
      BY <1>3, <2>2, <2>3
    <3>2. Replied /\ header["client"] = sent["server"]
      BY <2>2, <2>3 DEF TalkOK
    <3>3. sent["client"] # Close
      BY <3>2, SomeMessages DEF Replied
    <3>4. Slot = sent["server"] /\ Slot' = NoMsg
      BY <2>2, <2>3, <3>1, <3>2, <3>3 DEF Slot, Waiting, Answered, Replied
    <3>5. Got' = Slot /\ Serving' = Serving
      BY <1>4, <1>5, <2>2, <3>1, <3>2, <3>4
    <3>6. Slot \in Typed("ANSWER")
      BY <1>3, <3>2, <3>4 DEF Typed, Replied
    <3>7. Connection!Accept
      BY <3>4, <3>5, <3>6 DEF Connection!Accept
    <3>. QED  BY <3>7 DEF Connection!Next
  <2>4. CASE x = "server"
    <3>1. /\ pc'["client"] = pc["client"]
          /\ pc'["server"] \in {"closed", "handle"}
      BY <1>3, <2>2, <2>4
    <3>2. ~Setup("client") /\ pc["client"] \notin {"ready", "body", "handle"}
      BY <2>2, <2>4 DEF TalkOK, Setup, Replied, Settled
    <3>3. \/ pc["client"] = "header" /\ Asked /\ Taking
          \/ pc["client"] \in {"closing", "closed", "deleted"} /\ sent["client"] = Close
      BY <1>3, <2>2, <2>4, <3>2 DEF TalkOK, Setup, Replied, Settled, PcTypes
    <3>4. Slot = sent["client"] /\ Slot \in Typed("REQUEST") \cup {Close}
      <4>1. CASE sent["client"] = Close
        BY <4>1 DEF Slot
      <4>2. CASE pc["client"] = "header" /\ Asked /\ Taking
        <5>1. ~Answered
          BY <4>2, NotAnswered DEF Taking
        <5>. QED  BY <1>3, <4>2, <5>1 DEF Slot, Waiting, Typed, Asked
      <4>. QED  BY <3>3, <4>1, <4>2
    <3>5. Slot' = Slot
      BY <2>2, <3>1 DEF Slot, Waiting, Answered
    <3>6. Serving = NoMsg /\ Serving' = Slot /\ Got' = Got
      BY <1>2, <1>4, <1>5, <2>1, <2>2, <2>4, <3>1, <3>4
    <3>7. Connection!Take
      BY <3>4, <3>5, <3>6 DEF Connection!Take
    <3>. QED  BY <3>7 DEF Connection!Next
  <2>. QED  BY <2>3, <2>4
<1>13. CASE PollClose(x) \/ Delete(x)
  <2>1. /\ sent' = sent /\ header' = header
        /\ \/ pc[x] = "closing" /\ pc' = [pc EXCEPT ![x] = "closed"]
           \/ pc[x] = "closed" /\ pc' = [pc EXCEPT ![x] = "deleted"]
    BY <1>13 DEF PollClose, Delete
  <2>2. x = "server" => pc[x] = "closed"
    BY <2>1 DEF TalkOK
  <2>3. /\ pc'["client"] \in {"header", "body"} <=> pc["client"] \in {"header", "body"}
        /\ pc'["client"] = "ready" <=> pc["client"] = "ready"
        /\ pc'["server"] \in {"handle", "closed", "deleted"}
              <=> pc["server"] \in {"handle", "closed", "deleted"}
    BY <1>3, <2>1, <2>2
  <2>4. Slot' = Slot
    BY <2>1, <2>3 DEF Slot, Waiting, Answered
  <2>5. Serving' = Serving /\ Got' = Got
    BY <1>4, <1>5, <2>1, <2>3
  <2>. QED  BY <1>6, <2>4, <2>5
<1>14. CASE Adapter(x)
  <2>1. UNCHANGED <<pc, sent, header, body>>
    BY <1>14 DEF Adapter, TransmitSend, PlaceCell, Flush, Complete, threadVars
  <2>. QED  BY <1>6, <2>1, SameSlot
<1>. QED  BY <1>1, <1>7, <1>8, <1>9, <1>10, <1>11, <1>12, <1>13, <1>14 DEF Thread

\* The three transports are channels: the executor takes each request once and
\* whole, and the handler gets the answer to the request it asked last.
THEOREM Refinement == Spec => OneAtATime
<1>1. Init => Connection!Init
  <2>. SUFFICES ASSUME Init PROVE Connection!Init
    OBVIOUS
  <2>1. TalkOK /\ BodiesOK
    BY InitOK DEF IInv
  <2>2. /\ pc["client"] \in {"setup", "ready"} /\ pc["server"] \in {"setup", "header"}
        /\ header["client"] = NoMsg
    BY DEF Init, Ends
  <2>3. Slot = NoMsg
    BY <2>1, <2>2, NothingUnderWay
  <2>4. Serving = NoMsg /\ Got = NoMsg
    BY <2>1, <2>2, Mapped
  <2>. QED  BY <2>3, <2>4 DEF Connection!Init
<1>2. IInv /\ IInv' /\ [Next]_vars => [Connection!Next]_Connection!vars
  <2>. SUFFICES ASSUME IInv, IInv', [Next]_vars PROVE [Connection!Next]_Connection!vars
    OBVIOUS
  <2>1. CASE Next
    BY <2>1, ChannelStep DEF IInv
  <2>2. CASE UNCHANGED vars
    <3>1. sent' = sent /\ header' = header /\ body' = body /\ pc' = pc
      BY <2>2 DEF vars, threadVars
    <3>. QED  BY <3>1, SameSlot DEF Connection!vars
  <2>. QED  BY <2>1, <2>2
<1>. QED  BY <1>1, <1>2, Invariance, PTL DEF Spec, OneAtATime, Connection!Spec
=============================================================================
