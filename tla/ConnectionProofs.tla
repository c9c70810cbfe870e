--------------------------- MODULE ConnectionProofs ---------------------------
(***************************************************************************)
(* Proofs about Connection, for any calls of the programs and any number   *)
(* of them on a connection: between two calls nothing is left over, a      *)
(* server thread is never killed by SIGPIPE, and the stubs promise what    *)
(* Calls says.                                                             *)
(***************************************************************************)
EXTENDS Connection, StubsProofs

-----------------------------------------------------------------------------
(* Sequences of bytes.                                                     *)

\* A buffer as long as the first part of what arrives is this part.
LEMMA CutAt ==
  ASSUME NEW S, NEW b \in Seq(S), NEW w \in Seq(S), NEW h \in Seq(S), NEW r \in Seq(S),
         b \o w = h \o r, Len(b) = Len(h)
  PROVE  b = h /\ w = r
<1>1. PICK n \in Nat : n = Len(b) /\ n = Len(h)
  BY LenProperties
<1>2. \A i \in 1 .. n : b[i] = h[i]
  <2> SUFFICES ASSUME NEW i \in 1 .. n PROVE b[i] = h[i]
    OBVIOUS
  <2>1. PICK m \in Nat : m = Len(w)
    BY LenProperties
  <2>2. PICK k \in Nat : k = Len(r)
    BY LenProperties
  <2>3. (b \o w)[i] = b[i]
    <3>1. IsConcat(b \o w, b, w, S, n, m)
      BY <1>1, <2>1, ConcatIs
    <3> QED
      BY <3>1 DEF IsConcat
  <2>4. (h \o r)[i] = h[i]
    <3>1. IsConcat(h \o r, h, r, S, n, k)
      BY <1>1, <2>2, ConcatIs
    <3> QED
      BY <3>1 DEF IsConcat
  <2> QED
    BY <2>3, <2>4
<1>3. b = h
  BY <1>1, <1>2, SeqEqual
<1>4. b \o w = b \o r
  BY <1>3
<1> QED
  BY <1>3, <1>4, ConcatSimplifications

\* The buffer b and the wire w hold the same bytes as c and v, in this order.
SameBytes(b, w, c, v) == c \o v = b \o w

\* A recv moves bytes from the wire to the buffer and changes neither the
\* bytes nor their order.
LEMMA RecvKeeps ==
  ASSUME NEW S, NEW b \in Seq(S), NEW w \in Seq(S), NEW n \in 1 .. Len(w)
  PROVE  /\ b \o SubSeq(w, 1, n) \in Seq(S)
         /\ SubSeq(w, n + 1, Len(w)) \in Seq(S)
         /\ Len(b \o SubSeq(w, 1, n)) = Len(b) + n
         /\ SameBytes(b, w, b \o SubSeq(w, 1, n), SubSeq(w, n + 1, Len(w)))
<1>1. PICK L \in Nat : L = Len(w)
  BY LenProperties
<1>2. n \in 1 .. L /\ n \in Nat /\ n + 1 \in Int /\ L \in Int
  BY <1>1
<1>3. \A i \in 1 .. L : w[i] \in S
  BY <1>1, ElementOfSeq
<1>4. SubSeq(w, 1, n) \in Seq(S) /\ Len(SubSeq(w, 1, n)) = n
  <2>1. \A i \in 1 .. n : w[i] \in S
    BY <1>2, <1>3
  <2>2. SubSeq(w, 1, n) \in Seq(S) /\ Len(SubSeq(w, 1, n)) = IF 1 <= n THEN n - 1 + 1 ELSE 0
    BY <1>2, <2>1, SubSeqProperties
  <2> QED
    BY <1>2, <2>2
<1>5. SubSeq(w, n + 1, L) \in Seq(S)
  <2>1. \A i \in n + 1 .. L : w[i] \in S
    BY <1>2, <1>3
  <2> QED
    BY <1>2, <2>1, SubSeqProperties
<1>6. SubSeq(w, 1, n) \o SubSeq(w, n + 1, L) = w
  <2>1. 1 \in 1 .. L + 1 /\ n \in 1 - 1 .. L /\ L \in n .. L
    BY <1>2
  <2>2. SubSeq(w, 1, n) \o SubSeq(w, n + 1, L) = SubSeq(w, 1, L)
    BY <1>1, <2>1, ConcatAdjacentSubSeq
  <2> QED
    BY <1>1, <2>2, SubSeqFull
<1>7. Len(b \o SubSeq(w, 1, n)) = Len(b) + n /\ b \o SubSeq(w, 1, n) \in Seq(S)
  BY <1>4, ConcatProperties
<1>8. (b \o SubSeq(w, 1, n)) \o SubSeq(w, n + 1, L) = b \o w
  <2>1. PICK u \in Seq(S), v \in Seq(S) : u = SubSeq(w, 1, n) /\ v = SubSeq(w, n + 1, L)
    BY <1>4, <1>5
  <2>2. u \o v = w
    BY <1>6, <2>1
  <2>3. (b \o u) \o v = b \o (u \o v)
    BY ConcatAssociative
  <2>4. (b \o u) \o v = b \o w
    BY <2>2, <2>3
  <2> QED
    BY <2>1, <2>4
<1> QED
  BY <1>1, <1>5, <1>7, <1>8 DEF SameBytes

-----------------------------------------------------------------------------
(* The frames of calls and replies.                                        *)

\* The frame that follows the one that identifies a call of assignment03.
Body(call) ==
  CASE call.op = "SendRead" -> Bytes(tx_read_Marshal(call.arg))
    [] call.op = "SendTX" -> Bytes(tx_Marshal(call.arg))
BodyFrame(call) == IF call.op = "SendRead" THEN "tx_read" ELSE "tx"
Identity(call) == IF call.op = "SendRead" THEN TX_READ_IDENTIFY ELSE TX_IDENTIFY

\* The reply with a result.
ReplyFrame(call, r) ==
  CASE call.op = "SendRead" -> SendReadResponse(r)
    [] call.op = "SendTX" -> SendDecision(r)
    [] call.op = "Order" -> ShipRobot(r)
    [] call.op = "ReadRecord" -> ReturnRecord(r)
    [] call.op = "order" -> ShipExpertRobot(r)
    [] call.op = "SendReplicationRequest" -> ReturnReplicaResponse(r)

\* What a call on each kind of connection is.
IsCall(call, op, S) == call.op = op /\ call.arg \in S /\ call = [op |-> op, arg |-> call.arg]

LEMMA CallsAre ==
  ASSUME NEW l \in Links, NEW call \in CallsOn[l]
  PROVE  /\ l = "customer_engineer" => IsCall(call, "order", Orders)
         /\ l = "customer_server" =>
              IsCall(call, "SendRead", tx_reads) \/ IsCall(call, "SendTX", txs)
         /\ l = "customer_rm" => IsCall(call, "SendRead", tx_reads)
         /\ l = "customer_tm" => IsCall(call, "SendTX", txs)
         /\ l = "customer_factory" =>
              \/ IsCall(call, "Order", CustomerRequests) /\ call.arg.request_type = 1
              \/ IsCall(call, "ReadRecord", CustomerRequests) /\ call.arg.request_type = 2
         /\ l = "primary_backup" => IsCall(call, "SendReplicationRequest", ReplicationRequests)
         /\ l \in AllLinks
<1>1. call \in CallsFor(l) /\ l \in AllLinks
  BY ConnectionAssumption
<1>2. ASSUME l = "customer_engineer" PROVE IsCall(call, "order", Orders)
  BY <1>1, <1>2 DEF CallsFor, ExpertCalls, IsCall
<1>3. ASSUME l = "customer_server"
      PROVE  IsCall(call, "SendRead", tx_reads) \/ IsCall(call, "SendTX", txs)
  BY <1>1, <1>3 DEF CallsFor, ReadCalls, TxCalls, IsCall
<1>4. ASSUME l = "customer_rm" PROVE IsCall(call, "SendRead", tx_reads)
  BY <1>1, <1>4 DEF CallsFor, ReadCalls, IsCall
<1>5. ASSUME l = "customer_tm" PROVE IsCall(call, "SendTX", txs)
  BY <1>1, <1>5 DEF CallsFor, TxCalls, IsCall
<1>6. ASSUME l = "customer_factory"
      PROVE  \/ IsCall(call, "Order", CustomerRequests) /\ call.arg.request_type = 1
             \/ IsCall(call, "ReadRecord", CustomerRequests) /\ call.arg.request_type = 2
  BY <1>1, <1>6 DEF CallsFor, OrderCalls, RecordCalls, RequestsOfType, IsCall
<1>7. ASSUME l = "primary_backup"
      PROVE  IsCall(call, "SendReplicationRequest", ReplicationRequests)
  BY <1>1, <1>7 DEF CallsFor, ReplicaCalls, IsCall
<1> QED
  BY <1>1, <1>2, <1>3, <1>4, <1>5, <1>6, <1>7

\* The request of a call: the frame that the server thread waits for, or of
\* assignment03 the one that identifies the call and its body.
LEMMA Requests ==
  ASSUME link \in Links, NEW call \in CallsOn[link]
  PROVE  /\ Request(call) \in Seq(Byte) /\ call.arg \in MessagesOf[call.op]
         /\ LoopStart # "identify" =>
              /\ Len(Request(call)) = FrameSize[LoopStart]
              /\ LoopStart \in {"order", "request", "replica"}
         /\ LoopStart = "identify" =>
              /\ Request(call) = Bytes(<<Identity(call)>>) \o Body(call)
              /\ Bytes(<<Identity(call)>>) \in Seq(Byte) /\ Len(Bytes(<<Identity(call)>>)) = 4
              /\ Ints(Bytes(<<Identity(call)>>))[1] = Identity(call)
              /\ FrameOf(Identity(call)) = BodyFrame(call) /\ Identity(call) # -1
              /\ Body(call) \in Seq(Byte) /\ Len(Body(call)) = FrameSize[BodyFrame(call)]
              /\ ~MayBeKilled
<1> DEFINE IsHeaded ==
      /\ Request(call) \in Seq(Byte)
      /\ Request(call) = Bytes(<<Identity(call)>>) \o Body(call)
      /\ Bytes(<<Identity(call)>>) \in Seq(Byte) /\ Len(Bytes(<<Identity(call)>>)) = 4
      /\ Ints(Bytes(<<Identity(call)>>))[1] = Identity(call) /\ Identity(call) # -1
      /\ Body(call) \in Seq(Byte) /\ Len(Body(call)) = FrameSize[BodyFrame(call)]
      /\ call.arg \in MessagesOf[call.op]
<1>1. Identity(call) \in Int32
  BY SmallInts DEF Identity, TX_READ_IDENTIFY, TX_IDENTIFY
<1>2. /\ Bytes(<<Identity(call)>>) \in Seq(Byte) /\ Len(Bytes(<<Identity(call)>>)) = 4
      /\ Ints(Bytes(<<Identity(call)>>))[1] = Identity(call) /\ Identity(call) # -1
  BY <1>1, FrameOfInt DEF Identity, TX_READ_IDENTIFY, TX_IDENTIFY
<1>3. ASSUME IsCall(call, "SendRead", tx_reads) PROVE IsHeaded
  <2>1. call.op = "SendRead" /\ call.arg \in tx_reads
    BY <1>3 DEF IsCall
  <2>2. Request(call) = SendRead(call.arg) /\ Body(call) = Bytes(tx_read_Marshal(call.arg))
        /\ Identity(call) = TX_READ_IDENTIFY /\ BodyFrame(call) = "tx_read"
        /\ FrameSize["tx_read"] = 8 /\ MessagesOf["SendRead"] = tx_reads
    BY <2>1 DEF Request, Body, Identity, BodyFrame, FrameSize, MessagesOf
  <2>3. /\ SendRead(call.arg) = Bytes(<<TX_READ_IDENTIFY>>) \o Bytes(tx_read_Marshal(call.arg))
        /\ IsFrame(Bytes(tx_read_Marshal(call.arg)), 2, tx_read_Marshal(call.arg))
    BY <2>1, RequestsArrive
  <2>4. Bytes(tx_read_Marshal(call.arg)) \in Seq(Byte)
        /\ Len(Bytes(tx_read_Marshal(call.arg))) = 8
    BY <2>3 DEF IsFrame
  <2>5. Bytes(<<Identity(call)>>) \o Body(call) \in Seq(Byte)
    BY <1>2, <2>2, <2>4, ConcatProperties
  <2> QED
    BY <1>2, <2>1, <2>2, <2>3, <2>4, <2>5
<1>4. ASSUME IsCall(call, "SendTX", txs) PROVE IsHeaded
  <2>1. call.op = "SendTX" /\ call.arg \in txs
    BY <1>4 DEF IsCall
  <2>2. Request(call) = SendTX(call.arg) /\ Body(call) = Bytes(tx_Marshal(call.arg))
        /\ Identity(call) = TX_IDENTIFY /\ BodyFrame(call) = "tx"
        /\ FrameSize["tx"] = 64 /\ MessagesOf["SendTX"] = txs
    BY <2>1 DEF Request, Body, Identity, BodyFrame, FrameSize, MessagesOf
  <2>3. /\ SendTX(call.arg) = Bytes(<<TX_IDENTIFY>>) \o Bytes(tx_Marshal(call.arg))
        /\ IsFrame(Bytes(tx_Marshal(call.arg)), 16, tx_Marshal(call.arg))
    BY <2>1, RequestsArrive
  <2>4. Bytes(tx_Marshal(call.arg)) \in Seq(Byte) /\ Len(Bytes(tx_Marshal(call.arg))) = 64
    BY <2>3 DEF IsFrame
  <2>5. Bytes(<<Identity(call)>>) \o Body(call) \in Seq(Byte)
    BY <1>2, <2>2, <2>4, ConcatProperties
  <2> QED
    BY <1>2, <2>1, <2>2, <2>3, <2>4, <2>5
<1> HIDE DEF IsHeaded
<1>5. CASE link = "customer_engineer"
  <2>1. call.op = "order" /\ call.arg \in Orders
    BY <1>5, CallsAre DEF IsCall
  <2>2. IsFrame(PlaceOrder(call.arg), 3, Order_marshal(call.arg))
    BY <2>1, RequestsArrive
  <2>3. LoopStart = "order" /\ FrameSize["order"] = 12 /\ MessagesOf["order"] = Orders
        /\ Request(call) = PlaceOrder(call.arg)
    BY <1>5, <2>1 DEF LoopStart, FrameSize, MessagesOf, Request
  <2> QED
    BY <2>1, <2>2, <2>3 DEF IsFrame
<1>6. CASE link = "customer_factory"
  <2>1. call.op \in {"Order", "ReadRecord"} /\ call.arg \in CustomerRequests
    BY <1>6, CallsAre DEF IsCall
  <2>2. IsFrame(Order(call.arg), 3, CustomerRequest_Marshal(call.arg))
        /\ ReadRecord(call.arg) = Order(call.arg)
    BY <2>1, RequestsArrive
  <2>3. LoopStart = "request" /\ FrameSize["request"] = 12
        /\ MessagesOf["Order"] = CustomerRequests /\ MessagesOf["ReadRecord"] = CustomerRequests
    BY <1>6 DEF LoopStart, FrameSize, MessagesOf
  <2>4. Request(call) = Order(call.arg)
    BY <2>1, <2>2 DEF Request
  <2> QED
    BY <2>1, <2>2, <2>3, <2>4 DEF IsFrame
<1>7. CASE link = "primary_backup"
  <2>1. call.op = "SendReplicationRequest" /\ call.arg \in ReplicationRequests
    BY <1>7, CallsAre DEF IsCall
  <2>2. IsFrame(SendReplicationRequest(call.arg), 6, ReplicationRequest_Marshal(call.arg))
    BY <2>1, RequestsArrive
  <2>3. LoopStart = "replica" /\ FrameSize["replica"] = 24
        /\ MessagesOf["SendReplicationRequest"] = ReplicationRequests
        /\ Request(call) = SendReplicationRequest(call.arg)
    BY <1>7, <2>1 DEF LoopStart, FrameSize, MessagesOf, Request
  <2> QED
    BY <2>1, <2>2, <2>3 DEF IsFrame
<1>8. CASE link \in {"customer_server", "customer_rm", "customer_tm"}
  <2>1. LoopStart = "identify" /\ ~MayBeKilled
    BY <1>8 DEF LoopStart, MayBeKilled
  <2>2. IsHeaded
    BY <1>3, <1>4, <1>8, CallsAre
  <2>3. FrameOf(Identity(call)) = BodyFrame(call)
    <3>1. call.op = "SendRead" \/ call.op = "SendTX"
      BY <1>8, CallsAre DEF IsCall
    <3>2. call.op = "SendRead" => link # "customer_tm"
      BY <1>8, CallsAre DEF IsCall
    <3>3. Identity(call) \in KnownTypes
      BY <1>8, <3>1, <3>2 DEF Identity, KnownTypes
    <3>4. TX_READ_IDENTIFY # TX_IDENTIFY
      BY DEF TX_READ_IDENTIFY, TX_IDENTIFY
    <3> QED
      BY <3>1, <3>3, <3>4 DEF FrameOf, Identity, BodyFrame
  <2> QED
    BY <2>1, <2>2, <2>3 DEF IsHeaded
<1>9. link \in AllLinks
  BY CallsAre
<1> QED
  BY <1>5, <1>6, <1>7, <1>8, <1>9 DEF AllLinks

\* The reply with a result is as long as the caller waits for, and the stub
\* makes the result of it.
LEMMA Replies ==
  ASSUME link \in Links, NEW call \in CallsOn[link], NEW r \in ResultsOf(call)
  PROVE  /\ ReplyFrame(call, r) \in Seq(Byte)
         /\ Len(ReplyFrame(call, r)) = 4 * ReplyInts[call.op]
         /\ ReplyOf(call, ReplyFrame(call, r)) = r
         /\ r \in ReturnedBy[call.op] /\ ReplyInts[call.op] \in Nat \ {0}
<1>1. Ids \subseteq Int32 /\ link \in AllLinks
  BY ConnectionAssumption
<1>2. CASE call.op = "order" /\ call.arg \in Orders
  <2>1. PICK i \in Ids, x \in Ids : r = MakeRobot(call.arg, i, x)
    BY <1>2 DEF ResultsOf
  <2>2. i \in Int32 /\ x \in Int32
    BY <1>1
  <2>3. ReplyFrame(call, r) = ShipExpertRobot(r)
    BY <1>2 DEF ReplyFrame
  <2>4. /\ ShipExpertRobot(r) \in Seq(Byte) /\ Len(ShipExpertRobot(r)) = 4 * ReplyInts[call.op]
        /\ ReplyOf(call, ShipExpertRobot(r)) = r
    BY <1>2, <2>1, <2>2, RepliesArrive
  <2>5. r \in Robots
    BY <1>2, <2>1, <2>2 DEF MakeRobot, CopyOrder, Orders, Robots
  <2> QED
    BY <1>2, <2>3, <2>4, <2>5 DEF ReturnedBy, ReplyInts
<1>3. CASE call.op = "SendRead"
  <2>1. r \in ReadResponses
    BY <1>1, <1>3 DEF ResultsOf, ReadResponses
  <2>2. ReplyFrame(call, r) = SendReadResponse(r)
    BY <1>3 DEF ReplyFrame
  <2>3. /\ SendReadResponse(r) \in Seq(Byte) /\ Len(SendReadResponse(r)) = 4 * ReplyInts[call.op]
        /\ ReplyOf(call, SendReadResponse(r)) = r
    BY <1>3, <2>1, RepliesArrive
  <2>4. ReplyInts[call.op] = 3 /\ ReturnedBy[call.op] = ReadResponses
    BY <1>3 DEF ReturnedBy, ReplyInts
  <2> QED
    BY <2>1, <2>2, <2>3, <2>4
<1>4. CASE call.op = "SendTX"
  <2>1. r \in Int32
    BY <1>4, SmallInts DEF ResultsOf
  <2>2. ReplyFrame(call, r) = SendDecision(r)
    BY <1>4 DEF ReplyFrame
  <2>3. /\ SendDecision(r) \in Seq(Byte) /\ Len(SendDecision(r)) = 4 * ReplyInts[call.op]
        /\ ReplyOf(call, SendDecision(r)) = r
    BY <1>4, <2>1, RepliesArrive
  <2>4. ReplyInts[call.op] = 1 /\ ReturnedBy[call.op] = Int32
    BY <1>4 DEF ReturnedBy, ReplyInts
  <2> QED
    BY <2>1, <2>2, <2>3, <2>4
<1>5. CASE call.op = "Order" /\ call.arg \in CustomerRequests
  <2>1. PICK i \in Ids : r = CreateRobot(call.arg, i)
    BY <1>5 DEF ResultsOf
  <2>2. i \in Int32 /\ 0 \in Int32
    BY <1>1, SmallInts
  <2>3. r = [customer_id |-> call.arg.customer_id, order_number |-> call.arg.order_number,
             request_type |-> call.arg.request_type, engineer_id |-> i, admin_id |-> 0]
    BY <2>1 DEF CreateRobot, RobotInfo_CopyRequest, RobotInfo
  <2>4. r \in RobotInfos
    BY <1>5, <2>2, <2>3 DEF CustomerRequests, RobotInfos
  <2>5. ReplyFrame(call, r) = ShipRobot(r)
    BY <1>5 DEF ReplyFrame
  <2>6. /\ ShipRobot(r) \in Seq(Byte) /\ Len(ShipRobot(r)) = 4 * ReplyInts[call.op]
        /\ ReplyOf(call, ShipRobot(r)) = r
    BY <1>5, <2>4, RepliesArrive
  <2>7. ReplyInts[call.op] = 5 /\ ReturnedBy[call.op] = RobotInfos
    BY <1>5 DEF ReturnedBy, ReplyInts
  <2> QED
    BY <2>4, <2>5, <2>6, <2>7
<1>6. CASE call.op = "ReadRecord" /\ call.arg \in CustomerRequests
  <2>1. r \in [customer_id : {call.arg.customer_id}, last_order : Ids]
    BY <1>6 DEF ResultsOf
  <2>2. r \in CustomerRecords
    BY <1>1, <1>6, <2>1 DEF CustomerRecords, CustomerRequests
  <2>3. ReplyFrame(call, r) = ReturnRecord(r)
    BY <1>6 DEF ReplyFrame
  <2>4. /\ ReturnRecord(r) \in Seq(Byte) /\ Len(ReturnRecord(r)) = 4 * ReplyInts[call.op]
        /\ ReplyOf(call, ReturnRecord(r)) = r
    BY <1>6, <2>2, RepliesArrive
  <2>5. ReplyInts[call.op] = 2 /\ ReturnedBy[call.op] = CustomerRecords
    BY <1>6 DEF ReturnedBy, ReplyInts
  <2> QED
    BY <2>2, <2>3, <2>4, <2>5
<1>7. CASE call.op = "SendReplicationRequest" /\ call.arg \in ReplicationRequests
  <2>1. r \in Int32
    BY <1>1, <1>7 DEF ResultsOf, ReplicationRequests
  <2>2. ReplyFrame(call, r) = ReturnReplicaResponse(r)
    BY <1>7 DEF ReplyFrame
  <2>3. /\ ReturnReplicaResponse(r) \in Seq(Byte) /\ Len(ReturnReplicaResponse(r)) = 4 * ReplyInts[call.op]
        /\ ReplyOf(call, ReturnReplicaResponse(r)) = r
    BY <1>7, <2>1, RepliesArrive
  <2>4. ReplyInts[call.op] = 1 /\ ReturnedBy[call.op] = Int32
    BY <1>7 DEF ReturnedBy, ReplyInts
  <2> QED
    BY <2>1, <2>2, <2>3, <2>4
<1> QED
  BY <1>1, <1>2, <1>3, <1>4, <1>5, <1>6, <1>7, CallsAre DEF AllLinks, IsCall

-----------------------------------------------------------------------------
(* The invariant.                                                          *)

\* Bytes that were sent to e and that no frame was made of yet.
Inbox(e) == buffer[e] \o wire[e]

\* The last call is not served yet; its request.
Unserved == Len(served) < Len(asked)
Pending == IF Unserved THEN Request(Current) ELSE <<>>

\* What a caller sends when it has connected.
Greeting == IF MayBeKilled THEN SendIdentifyMessage(Hello) ELSE <<>>

\* The result of the call served last.
Result == served[Len(served)].result
AnyResult == UNION {ResultsOf(call) : call \in CallsOn[link]}

TypeInv ==
  /\ link \in Links
  /\ pc \in [caller : {"connect", "refused", "hello", "idle", "recv", "done", "gone", "killed"},
             server : DOMAIN FrameSize \cup {"init", "accept", "reply", "gone", "killed"}]
  /\ buffer \in [Ends -> Seq(Byte)] /\ wire \in [Ends -> Seq(Byte)]
  /\ peer \in [Ends -> {"open", "fin", "stray", "pipe", "reset"}]
  /\ reply \in Seq(Byte)
  /\ asked \in Seq(CallsOn[link])
  /\ served \in Seq([call : CallsOn[link], result : AnyResult])
  /\ answered \in Seq(AnyResult)

\* No more than a frame in a buffer.
SizeInv ==
  /\ pc.caller = "recv" => Len(buffer.caller) <= ReplySize
  /\ Receiving => Len(buffer.server) <= FrameSize[pc.server]

\* Calls are made, served and answered in turn.
CountInv ==
  /\ Len(answered) <= Len(served) /\ Len(served) <= Len(asked)
  /\ Len(asked) <= Len(answered) + 1 /\ Len(asked) <= MaxCalls
  /\ pc.caller \in {"connect", "refused", "hello"} => asked = <<>>
  /\ pc.caller \in {"idle", "done"} => Len(answered) = Len(asked)
  /\ pc.caller = "recv" => Len(asked) = Len(answered) + 1
  /\ pc.server \in {"init", "accept", "hello"} => served = <<>>
  /\ pc.server \in {"tx_read", "tx"} => Unserved
  /\ pc.server = "reply" => ~Unserved /\ Len(answered) < Len(served)

\* Each is served with a result of its own, which is the answer.
HistoryInv ==
  /\ \A i \in 1 .. Len(served) :
       served[i].call = asked[i] /\ served[i].result \in ResultsOf(asked[i])
  /\ \A i \in 1 .. Len(answered) : answered[i] = served[i].result

\* What an end knows of the other is true; and a customer that has closed in
\* a way that makes a send fail has no request that is not served.
PeerInv ==
  /\ peer.server # "open" =>
       \/ pc.caller \in {"gone", "killed", "refused"}
       \/ pc.caller = "idle" /\ peer.caller = "reset" /\ asked = <<>>
  /\ pc.caller \in {"gone", "killed"} => peer.server # "open"
  /\ peer.caller # "open" => ServerGone
  /\ ServerGone /\ peer.caller = "open" => ~Connected
  /\ ~Connected => pc.server \in {"init", "accept", "gone"}
  /\ pc.server = "init" => ~Connected
  /\ peer.server \in {"stray", "pipe", "reset"} => ~Unserved /\ pc.server # "reply"
  /\ pc.server # "killed"

\* What is under way to the server is what it waits for.
RequestInv ==
  /\ pc.server \in {"init", "accept", "hello", "reply", "gone", "tx_read", "tx", LoopStart}
  /\ pc.server = "hello" => MayBeKilled
  /\ pc.caller = "hello" => MayBeKilled /\ pc.server # LoopStart
  /\ pc.server = "init" => Inbox("server") = <<>>
  /\ pc.server \in {"accept", "hello"} =>
       \/ /\ Inbox("server") = Greeting \o Pending
          /\ pc.caller \notin {"connect", "refused", "hello"}
       \/ /\ Inbox("server") = <<>> /\ asked = <<>>
          /\ pc.caller \notin {"idle", "recv", "done"}
  /\ pc.server = LoopStart => Inbox("server") = Pending
  /\ pc.server \in {"tx_read", "tx"} =>
       /\ LoopStart = "identify" /\ pc.server = BodyFrame(Current)
       /\ Inbox("server") = Body(Current)
  /\ pc.server = "reply" => Inbox("server") = <<>>
  /\ pc.server \in {"init", "accept", "reply"} => buffer.server = <<>>

\* What is under way to the caller is the reply that it waits for.
Replied == pc.caller = "recv" /\ ~Unserved /\ pc.server # "reply"
ReplyInv ==
  /\ Replied => \/ Inbox("caller") = ReplyFrame(Current, Result)
                \/ Inbox("caller") = <<>> /\ ServerGone
  /\ ~Replied => Inbox("caller") = <<>>
  /\ pc.server = "reply" => reply = ReplyFrame(Current, Result)

IInv ==
  /\ TypeInv /\ SizeInv /\ CountInv /\ HistoryInv
  /\ PeerInv /\ RequestInv /\ ReplyInv

\* Facts about the types that the proofs of the steps use.
LEMMA Types ==
  ASSUME TypeInv
  PROVE  /\ buffer["caller"] \in Seq(Byte) /\ buffer["server"] \in Seq(Byte)
         /\ wire["caller"] \in Seq(Byte) /\ wire["server"] \in Seq(Byte)
         /\ Len(asked) \in Nat /\ Len(served) \in Nat /\ Len(answered) \in Nat
         /\ Len(asked) = 0 <=> asked = <<>>
         /\ Len(served) = 0 <=> served = <<>>
         /\ Inbox("caller") = <<>> => buffer["caller"] = <<>> /\ wire["caller"] = <<>>
         /\ Inbox("server") = <<>> => buffer["server"] = <<>> /\ wire["server"] = <<>>
<1>1. /\ buffer["caller"] \in Seq(Byte) /\ buffer["server"] \in Seq(Byte)
      /\ wire["caller"] \in Seq(Byte) /\ wire["server"] \in Seq(Byte)
  BY DEF TypeInv, Ends
<1>2. \A s, t \in Seq(Byte) : s \o t = <<>> => s = <<>> /\ t = <<>>
  BY ConcatSimplifications
<1>3. Len(asked) \in Nat /\ (Len(asked) = 0 <=> asked = <<>>)
  BY LenProperties, EmptySeq DEF TypeInv
<1>4. Len(served) \in Nat /\ (Len(served) = 0 <=> served = <<>>)
  BY LenProperties, EmptySeq DEF TypeInv
<1>5. Len(answered) \in Nat
  BY LenProperties DEF TypeInv
<1> QED
  BY <1>1, <1>2, <1>3, <1>4, <1>5 DEF Inbox

LEMMA InitIInv == Init => IInv
<1> SUFFICES ASSUME Init PROVE IInv
  OBVIOUS
<1>1. /\ link \in Links /\ pc.caller = "connect" /\ pc.server = "init"
      /\ buffer["caller"] = <<>> /\ buffer["server"] = <<>>
      /\ wire["caller"] = <<>> /\ wire["server"] = <<>>
      /\ peer["caller"] = "open" /\ peer["server"] = "open"
      /\ reply = <<>> /\ asked = <<>> /\ served = <<>> /\ answered = <<>>
  BY DEF Init, Ends
<1>2. \A S : <<>> \in Seq(S)
  OBVIOUS
<1>3. <<>> \o <<>> = <<>> /\ Len(<<>>) = 0
  OBVIOUS
<1>4. TypeInv
  BY <1>1, <1>2 DEF Init, TypeInv, Ends
<1>5. Inbox("caller") = <<>> /\ Inbox("server") = <<>>
  BY <1>1, <1>3 DEF Inbox
<1>6. SizeInv
  <2>1. pc.server \notin DOMAIN FrameSize
    BY <1>1 DEF FrameSize
  <2> QED
    BY <1>1, <2>1 DEF SizeInv, Receiving
<1>7. CountInv
  BY <1>1, <1>3, ConnectionAssumption DEF CountInv
<1>8. HistoryInv
  BY <1>1, <1>3 DEF HistoryInv
<1>9. PeerInv
  BY <1>1 DEF PeerInv, ServerGone, Connected
<1>10. RequestInv
  <2>1. LoopStart # "init"
    BY DEF LoopStart
  <2> QED
    BY <1>1, <1>5, <2>1 DEF RequestInv
<1>11. ReplyInv
  BY <1>1, <1>5 DEF ReplyInv, Replied
<1> QED
  BY <1>4, <1>6, <1>7, <1>8, <1>9, <1>10, <1>11 DEF IInv

-----------------------------------------------------------------------------
(* The steps of the caller.                                                *)

\* What does not change with the kind of connection and the history.
LEMMA Kept ==
  ASSUME link' = link, UNCHANGED history
  PROVE  /\ asked' = asked /\ served' = served /\ answered' = answered
         /\ LoopStart' = LoopStart /\ (MayBeKilled' <=> MayBeKilled) /\ Greeting' = Greeting
         /\ (Unserved' <=> Unserved) /\ Pending' = Pending
         /\ Current' = Current /\ Result' = Result
<1>1. asked' = asked /\ served' = served /\ answered' = answered
  BY DEF history
<1>2. LoopStart' = LoopStart /\ (MayBeKilled' <=> MayBeKilled)
  BY DEF LoopStart, MayBeKilled
<1>3. Greeting' = Greeting
  BY <1>2 DEF Greeting, Hello
<1>4. (Unserved' <=> Unserved) /\ Current' = Current /\ Result' = Result
  BY <1>1 DEF Unserved, Current, Result
<1>5. Pending' = Pending
  BY <1>1 DEF Pending, Unserved, Current
<1> QED
  BY <1>1, <1>2, <1>3, <1>4, <1>5

\* The caller closes its socket: it leaves, was told of the end, or is killed.
LEMMA CallerCloses ==
  ASSUME IInv, ~CallerGone, Close("caller"), NEW x,
         pc.caller = "connect" => x = "refused",
         pc.caller # "connect" => x \in {"gone", "killed"},
         pc' = [pc EXCEPT !.caller = x], UNCHANGED <<link, reply, history>>
  PROVE  IInv'
<1>0. TypeInv /\ SizeInv /\ CountInv /\ HistoryInv /\ PeerInv /\ RequestInv /\ ReplyInv
  BY DEF IInv
<1>1. link' = link /\ reply' = reply /\ UNCHANGED history
  OBVIOUS
<1>2. /\ pc'.caller = x /\ pc'.server = pc.server
      /\ buffer'["caller"] = <<>> /\ buffer'["server"] = buffer["server"]
      /\ wire'["caller"] = <<>> /\ wire'["server"] = wire["server"]
      /\ peer'["caller"] = peer["caller"]
      /\ peer["server"] # "open" => peer'["server"] = peer["server"]
      /\ peer["server"] = "open" =>
           IF wire["caller"] = <<>> THEN peer'["server"] = "fin"
           ELSE peer'["server"] \in {"stray", "reset"}
  <2>1. pc.caller # "accept"
    BY <1>0 DEF TypeInv
  <2> QED
    BY <1>0, <2>1 DEF TypeInv, Close, ClosedAs, Ends, Other
<1>3. TypeInv'
  <2>1. pc' \in [caller : {"connect", "refused", "hello", "idle", "recv", "done", "gone", "killed"},
                 server : DOMAIN FrameSize \cup {"init", "accept", "reply", "gone", "killed"}]
    BY <1>0 DEF TypeInv
  <2>2. buffer' \in [Ends -> Seq(Byte)] /\ wire' \in [Ends -> Seq(Byte)]
    BY <1>0 DEF TypeInv, Close, Ends
  <2>3. peer' \in [Ends -> {"open", "fin", "stray", "pipe", "reset"}]
    BY <1>0 DEF TypeInv, Close, ClosedAs, Ends, Other
  <2> QED
    BY <1>0, <1>1, <2>1, <2>2, <2>3 DEF TypeInv, history, AnyResult
<1>4. Inbox("caller")' = <<>> /\ Inbox("server")' = Inbox("server")
  BY <1>2 DEF Inbox
<1>5. x \in {"refused", "gone", "killed"} /\ ~(pc.caller \in {"refused", "gone", "killed"})
  BY DEF CallerGone
<1>6. SizeInv'
  BY <1>0, <1>2, <1>5 DEF SizeInv, Receiving
<1>7. CountInv'
  BY <1>0, <1>1, <1>2, <1>5, Kept DEF CountInv
<1>8. HistoryInv'
  BY <1>0, <1>1, Kept DEF HistoryInv
<1>9. PeerInv'
  <2>1. wire["caller"] # <<>> => ~Unserved /\ pc.server # "reply"
    BY <1>0, Types DEF ReplyInv, Replied
  <2>2. CASE peer["server"] = "open"
    BY <1>0, <1>1, <1>2, <1>5, <2>1, <2>2, Kept DEF PeerInv, ServerGone, Connected
  <2>3. CASE peer["server"] # "open"
    <3>1. peer'["server"] = peer["server"] /\ pc.caller = "idle"
      BY <1>0, <1>2, <1>5, <2>3 DEF PeerInv
    <3> QED
      BY <1>0, <1>1, <1>2, <1>5, <2>3, <3>1, Kept DEF PeerInv, ServerGone, Connected
  <2> QED
    BY <2>2, <2>3
<1>10. RequestInv'
  BY <1>0, <1>1, <1>2, <1>4, <1>5, Kept DEF RequestInv
<1>11. ReplyInv'
  BY <1>0, <1>1, <1>2, <1>4, <1>5, Kept DEF ReplyInv, Replied
<1> QED
  BY <1>3, <1>6, <1>7, <1>8, <1>9, <1>10, <1>11 DEF IInv

\* Both ends go on to connect, or the caller finds nobody.
LEMMA ConnectStep ==
  ASSUME IInv, Connect PROVE IInv'
<1>0. TypeInv /\ SizeInv /\ CountInv /\ HistoryInv /\ PeerInv /\ RequestInv /\ ReplyInv
  BY DEF IInv
<1>1. /\ link' = link /\ buffer' = buffer /\ wire' = wire /\ peer' = peer /\ reply' = reply
      /\ UNCHANGED history
  BY DEF Connect
<1>2. /\ pc.caller = "connect" /\ pc.server = "accept" /\ pc'.server = pc.server
      /\ pc'.caller = IF MayBeKilled THEN "hello" ELSE "idle"
  BY <1>0 DEF Connect, TypeInv
<1>3. TypeInv'
  <2>1. pc' \in [caller : {"connect", "refused", "hello", "idle", "recv", "done", "gone", "killed"},
                 server : DOMAIN FrameSize \cup {"init", "accept", "reply", "gone", "killed"}]
    BY <1>0 DEF TypeInv, Connect
  <2> QED
    BY <1>0, <1>1, <2>1 DEF TypeInv, history, AnyResult
<1>4. Inbox("caller")' = Inbox("caller") /\ Inbox("server")' = Inbox("server")
  BY <1>1 DEF Inbox
<1>5. asked = <<>> /\ served = <<>> /\ Len(asked) = 0 /\ Len(served) = 0 /\ Len(answered) = 0
  BY <1>0, <1>2, Types DEF CountInv
<1>6. ~Unserved /\ Pending = <<>>
  BY <1>5 DEF Unserved, Pending
<1>7. SizeInv'
  BY <1>0, <1>1, <1>2 DEF SizeInv, Receiving
<1>8. CountInv'
  BY <1>0, <1>1, <1>2, <1>5, Kept DEF CountInv
<1>9. HistoryInv'
  BY <1>0, <1>1, Kept DEF HistoryInv
<1>10. PeerInv'
  BY <1>0, <1>1, <1>2, Kept DEF PeerInv, ServerGone, Connected
<1>11. RequestInv'
  <2>1. Inbox("server") = <<>> /\ LoopStart # "accept"
    BY <1>0, <1>2 DEF RequestInv, LoopStart
  <2>2. MayBeKilled \/ Greeting \o Pending = <<>>
    <3>1. <<>> \o <<>> = <<>>
      OBVIOUS
    <3> QED
      BY <1>6, <3>1 DEF Greeting
  <2> QED
    BY <1>0, <1>1, <1>2, <1>4, <1>5, <2>1, <2>2, Kept DEF RequestInv
<1>12. ReplyInv'
  BY <1>0, <1>1, <1>2, <1>4, Kept DEF ReplyInv, Replied
<1> QED
  BY <1>3, <1>7, <1>8, <1>9, <1>10, <1>11, <1>12 DEF IInv

LEMMA RefusedStep ==
  ASSUME IInv, Refused PROVE IInv'
<1>0. TypeInv /\ SizeInv /\ CountInv /\ HistoryInv /\ PeerInv /\ RequestInv /\ ReplyInv
  BY DEF IInv
<1>1. /\ link' = link /\ buffer' = buffer /\ wire' = wire /\ peer' = peer /\ reply' = reply
      /\ UNCHANGED history
  BY DEF Refused
<1>2. /\ pc.caller = "connect" /\ pc.server \in {"init", "gone"} /\ pc'.server = pc.server
      /\ pc'.caller = "refused"
  BY <1>0 DEF Refused, TypeInv
<1>3. TypeInv'
  <2>1. pc' \in [caller : {"connect", "refused", "hello", "idle", "recv", "done", "gone", "killed"},
                 server : DOMAIN FrameSize \cup {"init", "accept", "reply", "gone", "killed"}]
    BY <1>0 DEF TypeInv, Refused
  <2> QED
    BY <1>0, <1>1, <2>1 DEF TypeInv, history, AnyResult
<1>4. Inbox("caller")' = Inbox("caller") /\ Inbox("server")' = Inbox("server")
  BY <1>1 DEF Inbox
<1>5. SizeInv'
  BY <1>0, <1>1, <1>2 DEF SizeInv, Receiving
<1>6. CountInv'
  BY <1>0, <1>1, <1>2, Kept DEF CountInv
<1>7. HistoryInv'
  BY <1>0, <1>1, Kept DEF HistoryInv
<1>8. PeerInv'
  BY <1>0, <1>1, <1>2, Kept DEF PeerInv, ServerGone, Connected
<1>9. RequestInv'
  BY <1>0, <1>1, <1>2, <1>4, Kept DEF RequestInv
<1>10. ReplyInv'
  BY <1>0, <1>1, <1>2, <1>4, Kept DEF ReplyInv, Replied
<1> QED
  BY <1>3, <1>5, <1>6, <1>7, <1>8, <1>9, <1>10 DEF IInv

\* What a Send does to the two ends, by what the sender knows of the other.
LEMMA SendFacts ==
  ASSUME TypeInv, NEW e \in Ends, NEW bytes \in Seq(Byte), Send(e, bytes)
  PROVE  /\ wire' \in [Ends -> Seq(Byte)]
         /\ peer' \in [Ends -> {"open", "fin", "stray", "pipe", "reset"}]
         /\ wire'[e] = wire[e] /\ peer'[Other(e)] = peer[Other(e)]
         /\ \/ /\ peer[e] = "open" /\ peer'[e] = "open"
               /\ wire'[Other(e)] = wire[Other(e)] \o bytes
               /\ buffer[Other(e)] \o (wire[Other(e)] \o bytes) = Inbox(Other(e)) \o bytes
            \/ /\ peer[e] \in {"fin", "stray"} /\ peer'[e] = "stray"
               /\ wire'[Other(e)] = wire[Other(e)]
<1>1. Other(e) \in Ends /\ Other(e) # e
  BY DEF Other, Ends
<1>2. buffer[Other(e)] \in Seq(Byte) /\ wire[Other(e)] \in Seq(Byte)
  BY <1>1 DEF TypeInv
<1>3. buffer[Other(e)] \o (wire[Other(e)] \o bytes) = Inbox(Other(e)) \o bytes
  <2>1. PICK b \in Seq(Byte), w \in Seq(Byte) : b = buffer[Other(e)] /\ w = wire[Other(e)]
    BY <1>2
  <2>2. (b \o w) \o bytes = b \o (w \o bytes)
    BY ConcatAssociative
  <2> QED
    BY <2>1, <2>2 DEF Inbox
<1>4. CASE peer[e] = "open" /\ wire' = [wire EXCEPT ![Other(e)] = @ \o bytes] /\ UNCHANGED peer
  <2>1. wire[Other(e)] \o bytes \in Seq(Byte)
    BY <1>2, ConcatProperties
  <2>2. wire' \in [Ends -> Seq(Byte)] /\ wire'[Other(e)] = wire[Other(e)] \o bytes
        /\ wire'[e] = wire[e]
    BY <1>1, <1>4, <2>1 DEF TypeInv
  <2> QED
    BY <1>3, <1>4, <2>2 DEF TypeInv
<1>5. CASE peer[e] \in {"fin", "stray"} /\ peer' = [peer EXCEPT ![e] = "stray"] /\ UNCHANGED wire
  BY <1>1, <1>5 DEF TypeInv
<1> QED
  BY <1>4, <1>5 DEF Send

\* The first message of a connection of a factory is one int.
LEMMA HelloIs ==
  /\ SendIdentifyMessage(Hello) \in Seq(Byte) /\ Len(SendIdentifyMessage(Hello)) = 4
  /\ ReceiveIdentifyMessage(SendIdentifyMessage(Hello)) = Hello
<1>1. Hello.identify \in Int32 /\ Hello = [identify |-> Hello.identify]
  BY SmallInts DEF Hello, PFA, CLIENT
<1>2. PICK x \in Int32 : x = Hello.identify
  BY <1>1
<1>3. SendIdentifyMessage(Hello) = Bytes(<<x>>)
  BY <1>2 DEF SendIdentifyMessage, IdentifyMessage_Marshal
<1>4. /\ Bytes(<<x>>) \in Seq(Byte) /\ Len(Bytes(<<x>>)) = 4 /\ Ints(Bytes(<<x>>))[1] = x
  BY FrameOfInt
<1>5. ReceiveIdentifyMessage(Bytes(<<x>>)) = [identify |-> x]
  BY <1>4 DEF ReceiveIdentifyMessage, IdentifyMessage_Unmarshal
<1> QED
  BY <1>1, <1>2, <1>3, <1>4, <1>5

\* The first message is sent, also to an end that is closed.
LEMMA HelloSent ==
  ASSUME IInv, SendHello, buffer' = buffer, Send("caller", SendIdentifyMessage(Hello))
  PROVE  IInv'
<1>0. TypeInv /\ SizeInv /\ CountInv /\ HistoryInv /\ PeerInv /\ RequestInv /\ ReplyInv
  BY DEF IInv
<1>1. link' = link /\ buffer' = buffer /\ reply' = reply /\ UNCHANGED history
  BY DEF SendHello
<1>2. pc.caller = "hello" /\ pc'.server = pc.server /\ pc'.caller = "idle"
  BY <1>0 DEF SendHello, TypeInv
<1> DEFINE hello == SendIdentifyMessage(Hello)
<1>3. hello \in Seq(Byte) /\ Send("caller", hello) /\ Other("caller") = "server"
  BY HelloIs DEF SendHello, Other
<1> HIDE DEF hello
<1>4. /\ wire' \in [Ends -> Seq(Byte)]
      /\ peer' \in [Ends -> {"open", "fin", "stray", "pipe", "reset"}]
      /\ wire'["caller"] = wire["caller"] /\ peer'["server"] = peer["server"]
      /\ \/ /\ peer["caller"] = "open" /\ peer'["caller"] = "open"
            /\ wire'["server"] = wire["server"] \o hello
            /\ buffer["server"] \o (wire["server"] \o hello) = Inbox("server") \o hello
         \/ /\ peer["caller"] \in {"fin", "stray"} /\ peer'["caller"] = "stray"
            /\ wire'["server"] = wire["server"]
  <2>1. "caller" \in Ends
    BY DEF Ends
  <2> QED
    BY <1>0, <1>3, <2>1, SendFacts
<1>5. TypeInv'
  <2>1. pc' \in [caller : {"connect", "refused", "hello", "idle", "recv", "done", "gone", "killed"},
                 server : DOMAIN FrameSize \cup {"init", "accept", "reply", "gone", "killed"}]
    BY <1>0 DEF TypeInv, SendHello
  <2> QED
    BY <1>0, <1>1, <1>4, <2>1 DEF TypeInv, history, AnyResult
<1>6. asked = <<>> /\ served = <<>> /\ Len(asked) = 0 /\ Len(served) = 0 /\ Len(answered) = 0
  BY <1>0, <1>2, Types DEF CountInv
<1>7. ~Unserved /\ Pending = <<>>
  BY <1>6 DEF Unserved, Pending
<1>8. Inbox("caller")' = Inbox("caller")
  BY <1>1, <1>4 DEF Inbox
<1>9. SizeInv'
  BY <1>0, <1>1, <1>2 DEF SizeInv, Receiving
<1>10. CountInv'
  BY <1>0, <1>1, <1>2, <1>6, Kept DEF CountInv
<1>11. HistoryInv'
  BY <1>0, <1>1, Kept DEF HistoryInv
<1>12. PeerInv'
  BY <1>0, <1>1, <1>2, <1>4, Kept DEF PeerInv, ServerGone, Connected
<1>13. RequestInv'
  <2>1. CASE peer["caller"] = "open"
    <3>1. pc.server \notin {"init", "gone", "killed", "reply", "tx_read", "tx"}
      BY <1>0, <1>2, <1>7, <2>1, <1>6 DEF PeerInv, CountInv, Connected, ServerGone
    <3>2. LoopStart \notin {"accept", "hello"}
      BY DEF LoopStart
    <3>3. Inbox("server")' = Inbox("server") \o hello
      BY <1>1, <1>4, <2>1 DEF Inbox
    <3>4. hello \o <<>> = hello /\ <<>> \o hello = hello
      BY <1>3, ConcatEmptySeq
    <3>5. Greeting = hello
      BY <1>0, <1>2 DEF RequestInv, Greeting, hello
    <3>6. pc.server \in {"accept", "hello"} => Inbox("server") = <<>>
      BY <1>0, <1>2 DEF RequestInv
    <3>7. pc.server # LoopStart
      BY <1>0, <1>2 DEF RequestInv
    <3> QED
      BY <1>0, <1>1, <1>2, <1>4, <1>7, <3>1, <3>2, <3>3, <3>4, <3>5, <3>6, <3>7, Kept DEF RequestInv
  <2>2. CASE peer["caller"] # "open"
    <3>1. pc.server \in {"gone", "killed"} /\ LoopStart \notin {"gone", "killed"}
      BY <1>0, <2>2 DEF PeerInv, ServerGone, LoopStart
    <3> QED
      BY <1>0, <1>1, <1>2, <3>1, Kept DEF RequestInv
  <2> QED
    BY <2>1, <2>2
<1>14. ReplyInv'
  BY <1>0, <1>1, <1>2, <1>8, Kept DEF ReplyInv, Replied
<1> QED
  BY <1>5, <1>9, <1>10, <1>11, <1>12, <1>13, <1>14 DEF IInv

\* The send fails: the factory was killed before it accepted the connection,
\* and the stub closes its socket.
LEMMA HelloFails ==
  ASSUME IInv, SendHello, SendFails("caller"), Close("caller")
  PROVE  IInv'
<1>0. TypeInv /\ SizeInv /\ CountInv /\ HistoryInv /\ PeerInv /\ RequestInv /\ ReplyInv
  BY DEF IInv
<1>1. link' = link /\ reply' = reply /\ UNCHANGED history
  BY DEF SendHello
<1>2. pc.caller = "hello" /\ pc'.server = pc.server /\ pc'.caller = "idle"
  BY <1>0 DEF SendHello, TypeInv
<1>3. asked = <<>> /\ served = <<>> /\ Len(asked) = 0 /\ Len(served) = 0 /\ Len(answered) = 0
  BY <1>0, <1>2, Types DEF CountInv
<1>4. ~Unserved /\ ~Replied /\ ~Replied'
  BY <1>2, <1>3 DEF Unserved, Replied
<1>5. /\ peer["caller"] = "reset" /\ peer["server"] = "open" /\ ServerGone
      /\ wire["caller"] = <<>> /\ pc.server = "gone"
  <2>1. peer["caller"] = "reset" /\ peer["server"] = "open"
    BY <1>0, <1>2 DEF SendFails, PeerInv
  <2>2. ServerGone /\ pc.server # "killed" /\ wire["caller"] = <<>>
    BY <1>0, <1>4, <2>1, Types DEF PeerInv, ReplyInv
  <2> QED
    BY <2>1, <2>2 DEF ServerGone
<1>6. /\ buffer'["caller"] = <<>> /\ buffer'["server"] = buffer["server"]
      /\ wire'["caller"] = <<>> /\ wire'["server"] = wire["server"]
      /\ peer'["caller"] = "reset" /\ peer'["server"] = "fin"
  BY <1>0, <1>2, <1>5 DEF TypeInv, Close, ClosedAs, Ends, Other
<1>7. TypeInv'
  <2>1. pc' \in [caller : {"connect", "refused", "hello", "idle", "recv", "done", "gone", "killed"},
                 server : DOMAIN FrameSize \cup {"init", "accept", "reply", "gone", "killed"}]
    BY <1>0 DEF TypeInv, SendHello
  <2>2. buffer' \in [Ends -> Seq(Byte)] /\ wire' \in [Ends -> Seq(Byte)]
    BY <1>0 DEF TypeInv, Close, Ends
  <2>3. peer' \in [Ends -> {"open", "fin", "stray", "pipe", "reset"}]
    BY <1>0 DEF TypeInv, Close, ClosedAs, Ends, Other
  <2> QED
    BY <1>0, <1>1, <2>1, <2>2, <2>3 DEF TypeInv, history, AnyResult
<1>8. Inbox("caller")' = <<>>
  BY <1>6 DEF Inbox
<1>9. SizeInv'
  BY <1>0, <1>2, <1>6 DEF SizeInv, Receiving
<1>10. CountInv'
  BY <1>0, <1>1, <1>2, <1>3, Kept DEF CountInv
<1>11. HistoryInv'
  BY <1>0, <1>1, Kept DEF HistoryInv
<1>12. PeerInv'
  BY <1>0, <1>1, <1>2, <1>3, <1>4, <1>5, <1>6, Kept DEF PeerInv, ServerGone, Connected
<1>13. RequestInv'
  <2>1. LoopStart # "gone"
    BY DEF LoopStart
  <2> QED
    BY <1>0, <1>1, <1>2, <1>5, <2>1, Kept DEF RequestInv
<1>14. ReplyInv'
  BY <1>0, <1>1, <1>2, <1>4, <1>5, <1>8, Kept DEF ReplyInv
<1> QED
  BY <1>7, <1>9, <1>10, <1>11, <1>12, <1>13, <1>14 DEF IInv

LEMMA SendHelloStep ==
  ASSUME IInv, SendHello PROVE IInv'
<1>1. \/ buffer' = buffer /\ Send("caller", SendIdentifyMessage(Hello))
      \/ SendFails("caller") /\ Close("caller")
  BY DEF SendHello
<1> QED
  BY <1>1, HelloSent, HelloFails

\* Every call has a reply of some ints.
LEMMA ReplySizes ==
  ASSUME link \in Links, NEW call \in CallsOn[link]
  PROVE  ReplyInts[call.op] \in Nat \ {0} /\ 4 * ReplyInts[call.op] \in Nat \ {0}
<1>1. link \in AllLinks
  BY ConnectionAssumption
<1>2. call.op \in {"order", "SendRead", "SendTX", "Order", "ReadRecord", "SendReplicationRequest"}
  BY <1>1, CallsAre DEF AllLinks, IsCall
<1>3. ReplyInts[call.op] \in Nat \ {0}
  BY <1>2 DEF ReplyInts
<1> QED
  BY <1>3

LEMMA AskStep ==
  ASSUME IInv, NEW call \in CallsOn[link], Ask(call) PROVE IInv'
<1>0. TypeInv /\ SizeInv /\ CountInv /\ HistoryInv /\ PeerInv /\ RequestInv /\ ReplyInv
  BY DEF IInv
<1>1. /\ link' = link /\ buffer' = buffer /\ reply' = reply /\ served' = served
      /\ answered' = answered /\ asked' = Append(asked, call) /\ Len(asked) < MaxCalls
  BY DEF Ask
<1>2. pc.caller = "idle" /\ pc'.server = pc.server /\ pc'.caller = "recv"
  BY <1>0 DEF Ask, TypeInv
<1>3. Request(call) \in Seq(Byte) /\ Send("caller", Request(call)) /\ Other("caller") = "server"
  BY <1>0, Requests DEF Ask, Other, TypeInv
<1>4. /\ wire' \in [Ends -> Seq(Byte)]
      /\ peer' \in [Ends -> {"open", "fin", "stray", "pipe", "reset"}]
      /\ wire'["caller"] = wire["caller"] /\ peer'["server"] = peer["server"]
      /\ \/ /\ peer["caller"] = "open" /\ peer'["caller"] = "open"
            /\ wire'["server"] = wire["server"] \o Request(call)
            /\ buffer["server"] \o (wire["server"] \o Request(call)) = Inbox("server") \o Request(call)
         \/ /\ peer["caller"] \in {"fin", "stray"} /\ peer'["caller"] = "stray"
            /\ wire'["server"] = wire["server"]
  <2>1. "caller" \in Ends
    BY DEF Ends
  <2> QED
    BY <1>0, <1>3, <2>1, SendFacts
<1>5. /\ asked' \in Seq(CallsOn[link]) /\ Len(asked') = Len(asked) + 1 /\ asked'[Len(asked')] = call
      /\ \A i \in 1 .. Len(asked) : asked'[i] = asked[i]
  BY <1>0, <1>1, AppendProperties DEF TypeInv
<1>6. TypeInv'
  <2>1. pc' \in [caller : {"connect", "refused", "hello", "idle", "recv", "done", "gone", "killed"},
                 server : DOMAIN FrameSize \cup {"init", "accept", "reply", "gone", "killed"}]
    BY <1>0 DEF TypeInv, Ask
  <2> QED
    BY <1>0, <1>1, <1>4, <1>5, <2>1 DEF TypeInv, AnyResult
<1>7. /\ Len(asked) \in Nat /\ Len(answered) = Len(asked) /\ Len(served) = Len(asked)
      /\ Len(asked') = Len(asked) + 1
  BY <1>0, <1>2, <1>5, Types DEF CountInv
<1>8. /\ ~Unserved /\ Pending = <<>> /\ Unserved' /\ Current' = call /\ Pending' = Request(call)
  BY <1>1, <1>5, <1>7 DEF Unserved, Pending, Current
<1>9. LoopStart' = LoopStart /\ (MayBeKilled' <=> MayBeKilled) /\ Greeting' = Greeting
      /\ (Receiving' <=> Receiving)
  <2>1. LoopStart' = LoopStart /\ (MayBeKilled' <=> MayBeKilled) /\ (Receiving' <=> Receiving)
    BY <1>1, <1>2 DEF LoopStart, MayBeKilled, Receiving
  <2> QED
    BY <1>1, <2>1 DEF Greeting, Hello
<1>10. Inbox("caller")' = Inbox("caller") /\ Inbox("caller") = <<>> /\ buffer["caller"] = <<>>
  BY <1>0, <1>1, <1>2, <1>4, Types DEF Inbox, ReplyInv, Replied
<1>11. SizeInv'
  <2>1. ReplySize' = 4 * ReplyInts[call.op] /\ Len(<<>>) = 0
    BY <1>8 DEF ReplySize
  <2>2. ReplySize' \in Nat \ {0}
    BY <1>0, <2>1, ReplySizes DEF TypeInv
  <2> QED
    BY <1>0, <1>1, <1>2, <1>9, <1>10, <2>1, <2>2 DEF SizeInv
<1>12. CountInv'
  <2>1. MaxCalls \in Nat
    BY ConnectionAssumption
  <2>2. pc.server \notin {"reply"}
    BY <1>0, <1>7 DEF CountInv
  <2> QED
    BY <1>0, <1>1, <1>2, <1>7, <1>8, <2>1, <2>2 DEF CountInv
<1>13. HistoryInv'
  BY <1>0, <1>1, <1>5, <1>7 DEF HistoryInv
<1>14. PeerInv'
  <2>1. peer["server"] = "open"
    BY <1>0, <1>2, <1>4 DEF PeerInv
  <2> QED
    BY <1>0, <1>1, <1>2, <1>4, <2>1 DEF PeerInv, ServerGone, Connected
<1>15. RequestInv'
  <2>1. CASE peer["caller"] = "open"
    <3>1. pc.server \notin {"init", "gone", "killed", "reply", "tx_read", "tx"}
      BY <1>0, <1>2, <1>7, <1>8, <2>1 DEF PeerInv, CountInv, Connected, ServerGone
    <3>2. LoopStart \notin {"accept", "hello", "tx_read", "tx", "init", "reply"}
      BY DEF LoopStart
    <3>3. Inbox("server")' = Inbox("server") \o Request(call)
      BY <1>1, <1>4, <2>1 DEF Inbox
    <3>4. Greeting \in Seq(Byte)
      <4>1. <<>> \in Seq(Byte)
        OBVIOUS
      <4> QED
        BY <4>1, HelloIs DEF Greeting
    <3>5. Greeting \o <<>> = Greeting /\ <<>> \o Request(call) = Request(call)
      BY <1>3, <3>4, ConcatEmptySeq
    <3>6. pc.server \in {"accept", "hello"} => Inbox("server") = Greeting
      BY <1>0, <1>2, <1>8, <3>5 DEF RequestInv
    <3>7. pc.server = LoopStart => Inbox("server") = <<>>
      BY <1>0, <1>8 DEF RequestInv
    <3> QED
      BY <1>0, <1>1, <1>2, <1>8, <1>9, <3>1, <3>2, <3>3, <3>5, <3>6, <3>7 DEF RequestInv
  <2>2. CASE peer["caller"] # "open"
    <3>1. pc.server \in {"gone", "killed"} /\ LoopStart \notin {"gone", "killed"}
      BY <1>0, <2>2 DEF PeerInv, ServerGone, LoopStart
    <3> QED
      BY <1>0, <1>1, <1>2, <1>9, <3>1 DEF RequestInv
  <2> QED
    BY <2>1, <2>2
<1>16. ReplyInv'
  <2>1. pc.server # "reply"
    BY <1>0, <1>7 DEF CountInv
  <2> QED
    BY <1>1, <1>2, <1>8, <1>10, <2>1 DEF ReplyInv, Replied
<1> QED
  BY <1>6, <1>11, <1>12, <1>13, <1>14, <1>15, <1>16 DEF IInv

\* A turn of the loop in Socket::Recv.
LEMMA RecvFacts ==
  ASSUME TypeInv, NEW e \in Ends, NEW size \in Nat, Recv(e, size)
  PROVE  /\ buffer' \in [Ends -> Seq(Byte)] /\ wire' \in [Ends -> Seq(Byte)]
         /\ Len(buffer'[e]) <= size /\ Inbox(e)' = Inbox(e)
         /\ buffer'[Other(e)] = buffer[Other(e)] /\ Inbox(Other(e))' = Inbox(Other(e))
<1>1. Other(e) \in Ends /\ Other(e) # e
  BY DEF Other, Ends
<1>2. PICK b \in Seq(Byte), w \in Seq(Byte) : b = buffer[e] /\ w = wire[e]
  BY DEF TypeInv
<1>3. PICK lb \in Nat, lw \in Nat : lb = Len(b) /\ lw = Len(w)
  BY LenProperties
<1>4. lb < size
  BY <1>2, <1>3 DEF Recv
<1>5. PICK n \in Arrives(e, size - lb) :
        /\ buffer' = [buffer EXCEPT ![e] = @ \o SubSeq(wire[e], 1, n)]
        /\ wire' = [wire EXCEPT ![e] = SubSeq(@, n + 1, Len(@))]
  BY <1>2, <1>3 DEF Recv
<1>6. n \in 1 .. lw /\ n <= size - lb
  <2>1. n \in IF link = "customer_engineer" THEN {size - lb} \cap {lw}
              ELSE 1 .. IF lw < size - lb THEN lw ELSE size - lb
    BY <1>2, <1>3 DEF Arrives
  <2> QED
    BY <1>4, <2>1
<1>7. /\ b \o SubSeq(w, 1, n) \in Seq(Byte) /\ SubSeq(w, n + 1, Len(w)) \in Seq(Byte)
      /\ Len(b \o SubSeq(w, 1, n)) = lb + n
      /\ SameBytes(b, w, b \o SubSeq(w, 1, n), SubSeq(w, n + 1, Len(w)))
  BY <1>3, <1>6, RecvKeeps
<1>8. /\ buffer'[e] = b \o SubSeq(w, 1, n) /\ wire'[e] = SubSeq(w, n + 1, Len(w))
      /\ buffer'[Other(e)] = buffer[Other(e)] /\ wire'[Other(e)] = wire[Other(e)]
      /\ buffer' \in [Ends -> Seq(Byte)] /\ wire' \in [Ends -> Seq(Byte)]
  BY <1>1, <1>2, <1>5, <1>7 DEF TypeInv
<1>9. Len(buffer'[e]) <= size
  BY <1>6, <1>7, <1>8
<1>10. Inbox(e)' = Inbox(e)
  <2>1. SameBytes(b, w, buffer'[e], wire'[e])
    BY <1>7, <1>8
  <2> QED
    BY <1>2, <2>1 DEF SameBytes, Inbox
<1>11. Inbox(Other(e))' = Inbox(Other(e))
  BY <1>8 DEF Inbox
<1> QED
  BY <1>8, <1>9, <1>10, <1>11

\* A recv changes nothing but where the bytes are.
LEMMA RecvStep ==
  ASSUME IInv, NEW e \in Ends, NEW size \in Nat, Recv(e, size),
         UNCHANGED <<link, pc, peer, reply, history>>,
         e = "caller" => pc.caller = "recv" /\ size = ReplySize,
         e = "server" => Receiving /\ size = FrameSize[pc.server]
  PROVE  IInv'
<1>0. TypeInv /\ SizeInv /\ CountInv /\ HistoryInv /\ PeerInv /\ RequestInv /\ ReplyInv
  BY DEF IInv
<1>1. link' = link /\ pc' = pc /\ peer' = peer /\ reply' = reply /\ UNCHANGED history
  OBVIOUS
<1>2. /\ buffer' \in [Ends -> Seq(Byte)] /\ wire' \in [Ends -> Seq(Byte)]
      /\ Len(buffer'[e]) <= size /\ Inbox(e)' = Inbox(e)
      /\ buffer'[Other(e)] = buffer[Other(e)] /\ Inbox(Other(e))' = Inbox(Other(e))
  BY <1>0, RecvFacts
<1>3. (e = "caller" /\ Other(e) = "server") \/ (e = "server" /\ Other(e) = "caller")
  BY DEF Ends, Other
<1>4. Inbox("caller")' = Inbox("caller") /\ Inbox("server")' = Inbox("server")
  BY <1>2, <1>3
<1>5. TypeInv'
  BY <1>0, <1>1, <1>2 DEF TypeInv, history, AnyResult
<1>6. ReplySize' = ReplySize /\ (Receiving' <=> Receiving)
  BY <1>1, Kept DEF ReplySize, Receiving
<1>7. SizeInv'
  BY <1>0, <1>1, <1>2, <1>3, <1>6 DEF SizeInv
<1>8. CountInv'
  BY <1>0, <1>1, Kept DEF CountInv
<1>9. HistoryInv'
  BY <1>0, <1>1, Kept DEF HistoryInv
<1>10. PeerInv'
  BY <1>0, <1>1, Kept DEF PeerInv, ServerGone, Connected
<1>11. RequestInv'
  <2>1. pc.server \in {"init", "accept", "reply"} => buffer'["server"] = buffer["server"]
    <3>1. Receiving => pc.server \notin {"init", "accept", "reply"}
      BY DEF Receiving, FrameSize
    <3> QED
      BY <1>2, <1>3, <3>1
  <2> QED
    BY <1>0, <1>1, <1>4, <2>1, Kept DEF RequestInv
<1>12. ReplyInv'
  BY <1>0, <1>1, <1>4, Kept DEF ReplyInv, Replied, ServerGone
<1> QED
  BY <1>5, <1>7, <1>8, <1>9, <1>10, <1>11, <1>12 DEF IInv

\* The last call, which the caller waits for.
LEMMA CurrentIs ==
  ASSUME TypeInv, CountInv, asked # <<>>
  PROVE  /\ Current \in CallsOn[link] /\ link \in Links /\ Len(asked) \in 1 .. Len(asked)
         /\ ReplySize \in Nat \ {0} /\ ReplySize = 4 * ReplyInts[Current.op]
<1>1. Len(asked) \in Nat /\ Len(asked) # 0
  BY Types
<1>2. Len(asked) \in 1 .. Len(asked)
  BY <1>1
<1>3. Current \in CallsOn[link] /\ link \in Links
  BY <1>2, ElementOfSeq DEF TypeInv, Current
<1> QED
  BY <1>2, <1>3, ReplySizes DEF ReplySize

\* When the caller has a whole reply, it is the one to its own call.
LEMMA AnswerIs ==
  ASSUME IInv, pc.caller = "recv", Len(buffer["caller"]) = ReplySize
  PROVE  /\ Replied /\ wire["caller"] = <<>> /\ ReplyOf(Current, buffer["caller"]) = Result
         /\ Len(served) = Len(asked) /\ Len(asked) = Len(answered) + 1 /\ Result \in AnyResult
<1>0. TypeInv /\ SizeInv /\ CountInv /\ HistoryInv /\ PeerInv /\ RequestInv /\ ReplyInv
  BY DEF IInv
<1>1. /\ Len(asked) = Len(answered) + 1 /\ Len(asked) \in Nat /\ Len(served) \in Nat
      /\ Len(answered) \in Nat /\ Len(served) <= Len(asked) /\ asked # <<>>
  <2>1. Len(asked) = Len(answered) + 1 /\ Len(served) <= Len(asked)
    BY <1>0 DEF CountInv
  <2> QED
    BY <1>0, <2>1, Types
<1>2. Current \in CallsOn[link] /\ link \in Links /\ ReplySize \in Nat \ {0}
      /\ ReplySize = 4 * ReplyInts[Current.op]
  BY <1>0, <1>1, CurrentIs
<1>3. buffer["caller"] # <<>>
  <2>1. Len(<<>>) = 0
    OBVIOUS
  <2> QED
    BY <1>2, <2>1
<1>4. Inbox("caller") # <<>>
  BY <1>0, <1>3, Types
<1>5. Replied /\ Inbox("caller") = ReplyFrame(Current, Result)
  BY <1>0, <1>4 DEF ReplyInv
<1>6. Len(served) = Len(asked)
  BY <1>1, <1>5 DEF Replied, Unserved
<1>7. Result \in ResultsOf(Current)
  <2>1. Len(served) \in 1 .. Len(served)
    BY <1>1, <1>6
  <2>2. served[Len(served)].result \in ResultsOf(asked[Len(served)])
    BY <1>0, <2>1 DEF HistoryInv
  <2> QED
    BY <1>6, <2>2 DEF Result, Current
<1>8. /\ ReplyFrame(Current, Result) \in Seq(Byte)
      /\ Len(ReplyFrame(Current, Result)) = 4 * ReplyInts[Current.op]
      /\ ReplyOf(Current, ReplyFrame(Current, Result)) = Result
  BY <1>2, <1>7, Replies
<1>9. buffer["caller"] = ReplyFrame(Current, Result) /\ wire["caller"] = <<>>
  <2>1. PICK f \in Seq(Byte) : f = ReplyFrame(Current, Result) /\ Len(f) = ReplySize
    BY <1>2, <1>8
  <2>2. PICK b \in Seq(Byte), w \in Seq(Byte) : b = buffer["caller"] /\ w = wire["caller"]
    BY <1>0, Types
  <2>3. f \o <<>> = f /\ <<>> \in Seq(Byte)
    BY ConcatEmptySeq
  <2>4. b \o w = f \o <<>> /\ Len(b) = Len(f)
    BY <1>5, <2>1, <2>2, <2>3 DEF Inbox
  <2>5. b = f /\ w = <<>>
    BY <2>3, <2>4, CutAt
  <2> QED
    BY <2>1, <2>2, <2>5
<1>10. Result \in AnyResult
  BY <1>2, <1>7 DEF AnyResult
<1> QED
  BY <1>1, <1>5, <1>6, <1>8, <1>9, <1>10

LEMMA AnswerStep ==
  ASSUME IInv, Answer PROVE IInv'
<1>0. TypeInv /\ SizeInv /\ CountInv /\ HistoryInv /\ PeerInv /\ RequestInv /\ ReplyInv
  BY DEF IInv
<1>1. /\ Replied /\ wire["caller"] = <<>> /\ ReplyOf(Current, buffer["caller"]) = Result
      /\ Len(served) = Len(asked) /\ Len(asked) = Len(answered) + 1 /\ Result \in AnyResult
  BY AnswerIs DEF Answer
<1>2. /\ link' = link /\ wire' = wire /\ peer' = peer /\ reply' = reply /\ asked' = asked
      /\ served' = served /\ answered' = Append(answered, Result)
      /\ buffer' = [buffer EXCEPT !["caller"] = <<>>]
  BY <1>1 DEF Answer
<1>3. pc.caller = "recv" /\ pc'.server = pc.server /\ pc'.caller \in {"idle", "done"}
  BY <1>0 DEF Answer, TypeInv
<1>4. /\ answered' \in Seq(AnyResult) /\ Len(answered') = Len(answered) + 1
      /\ answered'[Len(answered) + 1] = Result
      /\ \A i \in 1 .. Len(answered) : answered'[i] = answered[i]
  BY <1>0, <1>1, <1>2, AppendProperties DEF TypeInv
<1>5. /\ buffer' \in [Ends -> Seq(Byte)] /\ buffer'["caller"] = <<>>
      /\ buffer'["server"] = buffer["server"]
  BY <1>0, <1>2 DEF TypeInv, Ends
<1>6. TypeInv'
  <2>1. pc' \in [caller : {"connect", "refused", "hello", "idle", "recv", "done", "gone", "killed"},
                 server : DOMAIN FrameSize \cup {"init", "accept", "reply", "gone", "killed"}]
    BY <1>0, <1>3 DEF TypeInv, Answer
  <2> QED
    BY <1>0, <1>2, <1>4, <1>5, <2>1 DEF TypeInv, AnyResult
<1>7. /\ LoopStart' = LoopStart /\ (MayBeKilled' <=> MayBeKilled) /\ Greeting' = Greeting
      /\ (Receiving' <=> Receiving) /\ (Unserved' <=> Unserved) /\ Pending' = Pending
      /\ Current' = Current /\ Result' = Result
  <2>1. LoopStart' = LoopStart /\ (MayBeKilled' <=> MayBeKilled) /\ (Receiving' <=> Receiving)
    BY <1>2, <1>3 DEF LoopStart, MayBeKilled, Receiving
  <2>2. Greeting' = Greeting
    BY <1>2, <2>1 DEF Greeting, Hello
  <2>3. (Unserved' <=> Unserved) /\ Current' = Current /\ Result' = Result
    BY <1>2 DEF Unserved, Current, Result
  <2>4. Pending' = Pending
    BY <1>2 DEF Pending, Unserved, Current
  <2> QED
    BY <2>1, <2>2, <2>3, <2>4
<1>8. Inbox("caller")' = <<>> /\ Inbox("server")' = Inbox("server")
  <2>1. <<>> \o <<>> = <<>>
    OBVIOUS
  <2> QED
    BY <1>1, <1>2, <1>5, <2>1 DEF Inbox
<1>9. SizeInv'
  BY <1>0, <1>3, <1>5, <1>7 DEF SizeInv
<1>10. CountInv'
  <2>1. Len(asked) \in Nat /\ Len(answered) \in Nat
    BY <1>0, Types
  <2>2. pc.server # "reply"
    BY <1>1 DEF Replied
  <2> QED
    BY <1>0, <1>1, <1>2, <1>3, <1>4, <1>7, <2>1, <2>2 DEF CountInv
<1>11. HistoryInv'
  <2>1. Len(asked) \in Nat /\ Len(answered) \in Nat
    BY <1>0, Types
  <2>2. \A i \in 1 .. Len(answered') : answered'[i] = served'[i].result
    <3> SUFFICES ASSUME NEW i \in 1 .. Len(answered) + 1 PROVE answered'[i] = served[i].result
      BY <1>2, <1>4
    <3>1. CASE i \in 1 .. Len(answered)
      BY <1>0, <1>4, <3>1 DEF HistoryInv
    <3>2. CASE i = Len(answered) + 1
      BY <1>1, <1>4, <3>2 DEF Result
    <3> QED
      BY <2>1, <3>1, <3>2
  <2> QED
    BY <1>0, <1>2, <2>2 DEF HistoryInv
<1>12. PeerInv'
  BY <1>0, <1>2, <1>3, <1>7 DEF PeerInv, ServerGone, Connected
<1>13. RequestInv'
  BY <1>0, <1>2, <1>3, <1>5, <1>7, <1>8 DEF RequestInv
<1>14. ReplyInv'
  BY <1>0, <1>2, <1>3, <1>7, <1>8 DEF ReplyInv, Replied
<1> QED
  BY <1>6, <1>9, <1>10, <1>11, <1>12, <1>13, <1>14 DEF IInv

\* A step of the caller.
LEMMA CallerStep ==
  ASSUME IInv, CallerThread PROVE IInv'
<1>1. CASE Connect
  BY <1>1, ConnectStep
<1>2. CASE Refused
  BY <1>2, RefusedStep
<1>3. CASE SendHello
  BY <1>3, SendHelloStep
<1>4. CASE \E call \in CallsOn[link] : Ask(call)
  BY <1>4, AskStep
<1>5. CASE AskFails
  BY <1>5, CallerCloses DEF AskFails, CallerGone
<1>6. CASE BrokenPipe
  BY <1>6, CallerCloses DEF BrokenPipe, CallerGone
<1>7. CASE CallerRecv
  <2>1. ReplySize \in Nat
    <3>1. TypeInv /\ CountInv
      BY DEF IInv
    <3>2. asked # <<>>
      BY <1>7, <3>1, Types DEF CountInv, CallerRecv
    <3> QED
      BY <3>1, <3>2, CurrentIs
  <2>2. "caller" \in Ends
    BY DEF Ends
  <2> QED
    BY <1>7, <2>1, <2>2, RecvStep DEF CallerRecv
<1>8. CASE CallFails
  BY <1>8, CallerCloses DEF CallFails, CallerGone
<1>9. CASE Answer
  BY <1>9, AnswerStep
<1>10. CASE Leave
  BY <1>10, CallerCloses DEF Leave, CallerGone
<1> QED
  BY <1>1, <1>2, <1>3, <1>4, <1>5, <1>6, <1>7, <1>8, <1>9, <1>10 DEF CallerThread

-----------------------------------------------------------------------------
(* The steps of the server thread: what it makes of the bytes.             *)

\* A buffer as long as the first of two parts under way holds this part.
LEMMA ServerCut ==
  ASSUME TypeInv, NEW h \in Seq(Byte), NEW r \in Seq(Byte),
         Inbox("server") = h \o r, Len(buffer["server"]) = Len(h)
  PROVE  buffer["server"] = h /\ wire["server"] = r
<1>1. PICK b \in Seq(Byte), w \in Seq(Byte) : b = buffer["server"] /\ w = wire["server"]
  BY Types
<1>2. b \o w = h \o r /\ Len(b) = Len(h)
  BY <1>1 DEF Inbox
<1>3. b = h /\ w = r
  BY <1>2, CutAt
<1> QED
  BY <1>1, <1>3

\* A frame that has arrived has a length.
LEMMA FrameSizes ==
  ASSUME TypeInv, NEW frame \in DOMAIN FrameSize, Len(buffer["server"]) = FrameSize[frame]
  PROVE  buffer["server"] # <<>> /\ Inbox("server") # <<>>
<1>1. FrameSize[frame] # 0
  BY DEF FrameSize
<1>2. Len(<<>>) = 0
  OBVIOUS
<1>3. buffer["server"] # <<>>
  BY <1>1, <1>2
<1> QED
  BY <1>3, Types

\* A whole frame where the loop starts is the request that is not served yet,
\* or the frame that identifies it.
LEMMA LoopCut ==
  ASSUME IInv, Received(LoopStart)
  PROVE  /\ Unserved /\ asked # <<>> /\ Current \in CallsOn[link] /\ link \in Links
         /\ LoopStart # "identify" =>
              buffer["server"] = Request(Current) /\ wire["server"] = <<>>
         /\ LoopStart = "identify" =>
              buffer["server"] = Bytes(<<Identity(Current)>>) /\ wire["server"] = Body(Current)
<1>0. TypeInv /\ CountInv /\ RequestInv
  BY DEF IInv
<1>1. LoopStart \in DOMAIN FrameSize
  BY DEF LoopStart, FrameSize
<1>2. Inbox("server") # <<>> /\ Inbox("server") = Pending
  BY <1>0, <1>1, FrameSizes DEF Received, RequestInv
<1>3. Unserved /\ Inbox("server") = Request(Current)
  BY <1>2 DEF Pending
<1>4. asked # <<>>
  BY <1>0, <1>3, Types DEF Unserved
<1>5. Current \in CallsOn[link] /\ link \in Links
  BY <1>0, <1>4, CurrentIs
<1>6. Request(Current) \in Seq(Byte) /\ Request(Current) \o <<>> = Request(Current)
  <2>1. Request(Current) \in Seq(Byte)
    BY <1>5, Requests
  <2> QED
    BY <2>1, ConcatEmptySeq
<1>7. ASSUME LoopStart # "identify"
      PROVE  buffer["server"] = Request(Current) /\ wire["server"] = <<>>
  <2>1. Len(Request(Current)) = FrameSize[LoopStart]
    BY <1>5, <1>7, Requests
  <2>2. <<>> \in Seq(Byte) /\ Inbox("server") = Request(Current) \o <<>>
        /\ Len(buffer["server"]) = Len(Request(Current))
    BY <1>3, <1>6, <2>1 DEF Received
  <2> QED
    BY <1>0, <1>6, <2>2, ServerCut
<1>8. ASSUME LoopStart = "identify"
      PROVE  buffer["server"] = Bytes(<<Identity(Current)>>) /\ wire["server"] = Body(Current)
  <2>1. /\ Request(Current) = Bytes(<<Identity(Current)>>) \o Body(Current)
        /\ Bytes(<<Identity(Current)>>) \in Seq(Byte) /\ Len(Bytes(<<Identity(Current)>>)) = 4
        /\ Body(Current) \in Seq(Byte)
    BY <1>5, <1>8, Requests
  <2>2. Len(buffer["server"]) = 4
    BY <1>8 DEF Received, FrameSize
  <2> QED
    BY <1>0, <1>3, <2>1, <2>2, ServerCut
<1> QED
  BY <1>3, <1>4, <1>5, <1>7, <1>8

\* A whole frame after the one that identifies it is the body of the call.
LEMMA BodyCut ==
  ASSUME IInv, NEW frame \in {"tx_read", "tx"}, Received(frame)
  PROVE  /\ Unserved /\ asked # <<>> /\ Current \in CallsOn[link] /\ link \in Links
         /\ frame = BodyFrame(Current)
         /\ buffer["server"] = Body(Current) /\ wire["server"] = <<>>
         /\ Body(Current) \in Seq(Byte)
<1>0. TypeInv /\ CountInv /\ RequestInv
  BY DEF IInv
<1>1. pc.server = frame /\ pc.server \in {"tx_read", "tx"}
  BY DEF Received
<1>2. Unserved /\ frame = BodyFrame(Current) /\ Inbox("server") = Body(Current)
  BY <1>0, <1>1 DEF RequestInv, CountInv
<1>3. asked # <<>>
  BY <1>0, <1>2, Types DEF Unserved
<1>4. Current \in CallsOn[link] /\ link \in Links
  BY <1>0, <1>3, CurrentIs
<1>5. Body(Current) \in Seq(Byte) /\ Len(Body(Current)) = FrameSize[BodyFrame(Current)]
  <2>1. LoopStart = "identify"
    BY <1>0, <1>1 DEF RequestInv
  <2> QED
    BY <1>4, <2>1, Requests
<1>6. <<>> \in Seq(Byte) /\ Inbox("server") = Body(Current) \o <<>>
  BY <1>2, <1>5, ConcatEmptySeq
<1>7. Len(buffer["server"]) = Len(Body(Current))
  BY <1>2, <1>5 DEF Received
<1> QED
  BY <1>0, <1>2, <1>3, <1>4, <1>5, <1>6, <1>7, ServerCut

\* What the server thread does: it takes the first message of a connection or
\* the frame that identifies a request, serves the request, or ends.
Greeted ==
  /\ pc.server = "hello" /\ pc.caller # "hello" /\ wire["server"] = Pending
  /\ Expect(LoopStart)

Announced ==
  /\ pc.server = LoopStart /\ LoopStart = "identify" /\ Unserved
  /\ wire["server"] = Body(Current) /\ Expect(BodyFrame(Current))

Served(r) ==
  /\ pc.server \in {LoopStart, "tx_read", "tx"} /\ Unserved /\ wire["server"] = <<>>
  /\ Serve(Current, r, ReplyFrame(Current, r))

Ended == Receiving /\ EndThread

LEMMA EngineerDoes ==
  ASSUME IInv, EngineerServes
  PROVE  (\E r \in ResultsOf(Current) : Served(r)) \/ Ended
<1>1. CASE Failed("order") /\ EndThread
  <2>1. Receiving
    BY <1>1 DEF Failed, Receiving, FrameSize
  <2> QED
    BY <1>1, <2>1 DEF Ended
<1>2. CASE Received("order")
           /\ \E r \in ResultsOf([op |-> "order", arg |-> ReceiveOrder(buffer.server)]) :
                Serve([op |-> "order", arg |-> ReceiveOrder(buffer.server)], r, ShipExpertRobot(r))
  <2>1. TypeInv /\ RequestInv
    BY DEF IInv
  <2>2. LoopStart = "order" /\ link = "customer_engineer" /\ pc.server = LoopStart
    <3>1. pc.server = "order"
      BY <1>2 DEF Received
    <3>2. pc.server = LoopStart
      BY <2>1, <3>1 DEF RequestInv
    <3> QED
      BY <3>1, <3>2 DEF LoopStart
  <2>3. /\ Unserved /\ Current \in CallsOn[link] /\ link \in Links
        /\ buffer.server = Request(Current) /\ wire["server"] = <<>>
    BY <1>2, <2>2, LoopCut
  <2>4. IsCall(Current, "order", Orders)
    BY <2>2, <2>3, CallsAre
  <2>5. Request(Current) = PlaceOrder(Current.arg)
        /\ ReceiveOrder(PlaceOrder(Current.arg)) = Current.arg
    BY <2>4, RequestsArrive DEF Request, IsCall
  <2>6. [op |-> "order", arg |-> ReceiveOrder(buffer.server)] = Current
    BY <2>3, <2>4, <2>5 DEF IsCall
  <2>7. PICK r \in ResultsOf(Current) : Serve(Current, r, ShipExpertRobot(r))
    BY <1>2, <2>6
  <2>8. ReplyFrame(Current, r) = ShipExpertRobot(r)
    BY <2>4 DEF IsCall, ReplyFrame
  <2> QED
    BY <2>2, <2>3, <2>7, <2>8 DEF Served
<1> QED
  BY <1>1, <1>2 DEF EngineerServes

LEMMA ReadIdentifyDoes ==
  ASSUME IInv, ReadIdentify
  PROVE  Announced \/ Ended
<1>1. CASE Failed("identify") /\ OnIdentity(NoIdentity)
  <2>1. Receiving
    BY <1>1 DEF Failed, Receiving, FrameSize
  <2> QED
    BY <1>1, <2>1 DEF Ended, OnIdentity, NoIdentity
<1>2. CASE Received("identify") /\ OnIdentity(Ints(buffer.server)[1])
  <2>1. RequestInv
    BY DEF IInv
  <2>2. LoopStart = "identify" /\ pc.server = LoopStart
    <3>1. pc.server = "identify"
      BY <1>2 DEF Received
    <3> QED
      BY <2>1, <3>1 DEF RequestInv
  <2>3. /\ Unserved /\ Current \in CallsOn[link] /\ link \in Links
        /\ buffer["server"] = Bytes(<<Identity(Current)>>) /\ wire["server"] = Body(Current)
    BY <1>2, <2>2, LoopCut
  <2>4. /\ Ints(buffer.server)[1] = Identity(Current) /\ Identity(Current) # -1
        /\ FrameOf(Identity(Current)) = BodyFrame(Current)
    BY <2>2, <2>3, Requests
  <2> QED
    BY <1>2, <2>2, <2>3, <2>4 DEF OnIdentity, Announced
<1> QED
  BY <1>1, <1>2 DEF ReadIdentify

LEMMA ServeReadDoes ==
  ASSUME IInv, ServeRead
  PROVE  \E r \in ResultsOf(Current) : Served(r)
<1>1. Received("tx_read") /\ pc.server = "tx_read"
  BY DEF ServeRead, Received
<1>2. /\ Unserved /\ Current \in CallsOn[link] /\ link \in Links
      /\ "tx_read" = BodyFrame(Current)
      /\ buffer.server = Body(Current) /\ wire["server"] = <<>>
  BY <1>1, BodyCut
<1>3. IsCall(Current, "SendRead", tx_reads)
  <2>1. LoopStart = "identify"
    BY <1>1 DEF IInv, RequestInv
  <2>2. link \in {"customer_server", "customer_rm", "customer_tm"}
    <3>1. link \in AllLinks
      BY <1>2, CallsAre
    <3> QED
      BY <2>1, <3>1 DEF LoopStart, AllLinks
  <2>3. Current.op = "SendRead"
    BY <1>2 DEF BodyFrame
  <2> QED
    BY <1>2, <2>2, <2>3, CallsAre DEF IsCall
<1>4. Body(Current) = Bytes(tx_read_Marshal(Current.arg))
      /\ ReceiveTxRead(Bytes(tx_read_Marshal(Current.arg))) = Current.arg
  BY <1>3, RequestsArrive DEF Body, IsCall
<1>5. [op |-> "SendRead", arg |-> ReceiveTxRead(buffer.server)] = Current
  BY <1>2, <1>3, <1>4 DEF IsCall
<1>6. PICK r \in ResultsOf(Current) : Serve(Current, r, SendReadResponse(r))
  BY <1>5 DEF ServeRead
<1>7. ReplyFrame(Current, r) = SendReadResponse(r)
  BY <1>3 DEF IsCall, ReplyFrame
<1> QED
  BY <1>1, <1>2, <1>6, <1>7 DEF Served

LEMMA ServeTXDoes ==
  ASSUME IInv, ServeTX
  PROVE  \E r \in ResultsOf(Current) : Served(r)
<1>1. Received("tx") /\ pc.server = "tx"
  BY DEF ServeTX, Received
<1>2. /\ Unserved /\ Current \in CallsOn[link] /\ link \in Links
      /\ "tx" = BodyFrame(Current)
      /\ buffer.server = Body(Current) /\ wire["server"] = <<>>
  BY <1>1, BodyCut
<1>3. IsCall(Current, "SendTX", txs)
  <2>1. LoopStart = "identify"
    BY <1>1 DEF IInv, RequestInv
  <2>2. link \in {"customer_server", "customer_rm", "customer_tm"}
    <3>1. link \in AllLinks
      BY <1>2, CallsAre
    <3> QED
      BY <2>1, <3>1 DEF LoopStart, AllLinks
  <2>3. Current.op # "SendRead"
    BY <1>2 DEF BodyFrame
  <2> QED
    BY <1>2, <2>2, <2>3, CallsAre DEF IsCall
<1>4. Body(Current) = Bytes(tx_Marshal(Current.arg))
      /\ ReceiveTX(Bytes(tx_Marshal(Current.arg))) = Current.arg
  BY <1>3, RequestsArrive DEF Body, IsCall
<1>5. [op |-> "SendTX", arg |-> ReceiveTX(buffer.server)] = Current
  BY <1>2, <1>3, <1>4 DEF IsCall
<1>6. PICK r \in ResultsOf(Current) : Serve(Current, r, SendDecision(r))
  BY <1>5 DEF ServeTX
<1>7. ReplyFrame(Current, r) = SendDecision(r)
  BY <1>3 DEF IsCall, ReplyFrame
<1> QED
  BY <1>1, <1>2, <1>6, <1>7 DEF Served

LEMMA IdentifyDoes ==
  ASSUME IInv, Identify
  PROVE  Greeted \/ Ended
<1>1. TypeInv /\ RequestInv
  BY DEF IInv
<1>2. pc.server = "hello" /\ Receiving /\ MayBeKilled
  <2>1. pc.server = "hello"
    BY DEF Identify, Received, Failed
  <2> QED
    BY <1>1, <2>1 DEF Receiving, FrameSize, RequestInv
<1>3. CASE Failed("hello") /\ OnHello(IdentifyMessage)
  <2>1. IdentifyMessage.identify \notin {CLIENT, PFA}
    BY DEF IdentifyMessage, CLIENT, PFA
  <2> QED
    BY <1>2, <1>3, <2>1 DEF OnHello, Ended
<1>4. CASE Received("hello") /\ OnHello(ReceiveIdentifyMessage(buffer.server))
  <2>1. Inbox("server") # <<>> /\ Len(buffer["server"]) = 4
    <3>1. "hello" \in DOMAIN FrameSize /\ FrameSize["hello"] = 4
      BY DEF FrameSize
    <3> QED
      BY <1>1, <1>4, <3>1, FrameSizes DEF Received
  <2>2. Inbox("server") = Greeting \o Pending /\ pc.caller # "hello"
    BY <1>1, <1>2, <2>1 DEF RequestInv
  <2>3. Greeting = SendIdentifyMessage(Hello)
    BY <1>2 DEF Greeting
  <2>4. Pending \in Seq(Byte)
    <3>1. CASE ~Unserved
      <4>1. <<>> \in Seq(Byte)
        OBVIOUS
      <4> QED
        BY <3>1, <4>1 DEF Pending
    <3>2. CASE Unserved
      <4>1. CountInv
        BY DEF IInv
      <4>2. asked # <<>>
        BY <1>1, <3>2, <4>1, Types DEF Unserved
      <4>3. Current \in CallsOn[link] /\ link \in Links
        BY <1>1, <4>1, <4>2, CurrentIs
      <4> QED
        BY <3>2, <4>3, Requests DEF Pending
    <3> QED
      BY <3>1, <3>2
  <2>5. buffer["server"] = SendIdentifyMessage(Hello) /\ wire["server"] = Pending
    BY <1>1, <2>1, <2>2, <2>3, <2>4, HelloIs, ServerCut
  <2>6. ReceiveIdentifyMessage(buffer.server) = Hello
    BY <2>5, HelloIs
  <2>7. Expect(LoopStart)
    <3>1. CASE link = "primary_backup"
      <4>1. Hello.identify = PFA /\ LoopStart = "replica" /\ PFA # CLIENT
        BY <3>1 DEF Hello, LoopStart, PFA, CLIENT
      <4> QED
        BY <1>4, <2>6, <4>1 DEF OnHello
    <3>2. CASE link = "customer_factory"
      <4>1. Hello.identify = CLIENT /\ LoopStart = "request" /\ PFA # CLIENT
        BY <3>2 DEF Hello, LoopStart, PFA, CLIENT
      <4> QED
        BY <1>4, <2>6, <4>1 DEF OnHello
    <3> QED
      BY <1>2, <3>1, <3>2 DEF MayBeKilled
  <2> QED
    BY <1>2, <2>2, <2>5, <2>7 DEF Greeted
<1> QED
  BY <1>3, <1>4 DEF Identify

LEMMA ServeRequestDoes ==
  ASSUME IInv, ServeRequest
  PROVE  (\E r \in ResultsOf(Current) : Served(r)) \/ Ended
<1>1. TypeInv /\ RequestInv
  BY DEF IInv
<1>2. pc.server = "request" /\ Receiving
  BY DEF ServeRequest, Received, Failed, Receiving, FrameSize
<1>3. CASE Failed("request") /\ OnRequest(CustomerRequest)
  <2>1. ~CustomerRequest_IsValid(CustomerRequest)
    BY DEF CustomerRequest_IsValid, CustomerRequest
  <2> QED
    BY <1>2, <1>3, <2>1 DEF OnRequest, Ended
<1>4. CASE Received("request") /\ OnRequest(ReceiveRequest(buffer.server))
  <2>1. LoopStart = "request" /\ pc.server = LoopStart
    BY <1>1, <1>2 DEF RequestInv
  <2>2. /\ Unserved /\ Current \in CallsOn[link] /\ link \in Links
        /\ buffer.server = Request(Current) /\ wire["server"] = <<>>
    BY <1>4, <2>1, LoopCut
  <2>3. \/ IsCall(Current, "Order", CustomerRequests) /\ Current.arg.request_type = 1
        \/ IsCall(Current, "ReadRecord", CustomerRequests) /\ Current.arg.request_type = 2
    <3>1. link = "customer_factory"
      BY <2>1 DEF LoopStart
    <3> QED
      BY <2>2, <3>1, CallsAre
  <2>4. ReceiveRequest(buffer.server) = Current.arg
    <3>1. Request(Current) = Order(Current.arg) \/ Request(Current) = ReadRecord(Current.arg)
      BY <2>3 DEF IsCall, Request
    <3>2. Current.arg \in CustomerRequests
      BY <2>3 DEF IsCall
    <3>3. /\ ReceiveRequest(Order(Current.arg)) = Current.arg
          /\ ReadRecord(Current.arg) = Order(Current.arg)
      BY <3>2, RequestsArrive
    <3> QED
      BY <2>2, <3>1, <3>3
  <2>5. OnRequest(Current.arg)
    BY <1>4, <2>4
  <2>6. CASE IsCall(Current, "Order", CustomerRequests) /\ Current.arg.request_type = 1
    <3>1. Current = [op |-> "Order", arg |-> Current.arg]
      BY <2>6 DEF IsCall
    <3>2. EndThread \/ \E r \in ResultsOf(Current) : Serve(Current, r, ShipRobot(r))
      <4>1. Current.arg.request_type # 2 /\ Current.arg.request_type \in {1, 2}
        BY <2>6
      <4> QED
        BY <2>5, <3>1, <4>1 DEF OnRequest
    <3>3. \A r : ReplyFrame(Current, r) = ShipRobot(r)
      BY <2>6 DEF IsCall, ReplyFrame
    <3> QED
      BY <1>2, <2>1, <2>2, <3>2, <3>3 DEF Served, Ended
  <2>7. CASE IsCall(Current, "ReadRecord", CustomerRequests) /\ Current.arg.request_type = 2
    <3>1. Current = [op |-> "ReadRecord", arg |-> Current.arg]
      BY <2>7 DEF IsCall
    <3>2. EndThread \/ \E r \in ResultsOf(Current) : Serve(Current, r, ReturnRecord(r))
      <4>1. Current.arg.request_type # 1 /\ Current.arg.request_type \in {1, 2}
        BY <2>7
      <4> QED
        BY <2>5, <3>1, <4>1 DEF OnRequest
    <3>3. \A r : ReplyFrame(Current, r) = ReturnRecord(r)
      BY <2>7 DEF IsCall, ReplyFrame
    <3> QED
      BY <1>2, <2>1, <2>2, <3>2, <3>3 DEF Served, Ended
  <2> QED
    BY <2>3, <2>6, <2>7
<1> QED
  BY <1>3, <1>4 DEF ServeRequest

LEMMA ServeReplicaDoes ==
  ASSUME IInv, ServeReplica
  PROVE  (\E r \in ResultsOf(Current) : Served(r)) \/ Ended
<1>1. TypeInv /\ RequestInv
  BY DEF IInv
<1>2. pc.server = "replica" /\ Receiving
  BY DEF ServeReplica, Received, Failed, Receiving, FrameSize
<1>3. CASE Failed("replica") /\ OnReplica(ReplicationRequest)
  <2>1. ~ReplicationRequest_IsValid(ReplicationRequest)
    BY DEF ReplicationRequest_IsValid, ReplicationRequest
  <2> QED
    BY <1>2, <1>3, <2>1 DEF OnReplica, Ended
<1>4. CASE Received("replica") /\ OnReplica(ReceiveReplicationRequest(buffer.server))
  <2>1. LoopStart = "replica" /\ pc.server = LoopStart
    BY <1>1, <1>2 DEF RequestInv
  <2>2. /\ Unserved /\ Current \in CallsOn[link] /\ link \in Links
        /\ buffer.server = Request(Current) /\ wire["server"] = <<>>
    BY <1>4, <2>1, LoopCut
  <2>3. IsCall(Current, "SendReplicationRequest", ReplicationRequests)
    <3>1. link = "primary_backup"
      BY <2>1 DEF LoopStart
    <3> QED
      BY <2>2, <3>1, CallsAre
  <2>4. Request(Current) = SendReplicationRequest(Current.arg)
        /\ ReceiveReplicationRequest(SendReplicationRequest(Current.arg)) = Current.arg
    BY <2>3, RequestsArrive DEF IsCall, Request
  <2>5. OnReplica(Current.arg) /\ Current = [op |-> "SendReplicationRequest", arg |-> Current.arg]
    BY <1>4, <2>2, <2>3, <2>4 DEF IsCall
  <2>6. EndThread \/ \E r \in ResultsOf(Current) : Serve(Current, r, ReturnReplicaResponse(r))
    BY <2>5 DEF OnReplica
  <2>7. \A r : ReplyFrame(Current, r) = ReturnReplicaResponse(r)
    BY <2>3 DEF IsCall, ReplyFrame
  <2> QED
    BY <1>2, <2>1, <2>2, <2>6, <2>7 DEF Served, Ended
<1> QED
  BY <1>3, <1>4 DEF ServeReplica

-----------------------------------------------------------------------------
(* The steps of the server thread: the invariant.                          *)

\* The places where a loop starts are frames, and none of the others.
LEMMA LoopStarts ==
  /\ LoopStart \in DOMAIN FrameSize /\ FrameSize[LoopStart] \in Nat
  /\ LoopStart \notin {"init", "accept", "hello", "reply", "gone", "killed", "tx_read", "tx"}
BY DEF LoopStart, FrameSize

LEMMA ListenStep ==
  ASSUME IInv, Listen \/ ListenFails PROVE IInv'
<1>0. TypeInv /\ SizeInv /\ CountInv /\ HistoryInv /\ PeerInv /\ RequestInv /\ ReplyInv
  BY DEF IInv
<1>1. /\ link' = link /\ buffer' = buffer /\ wire' = wire /\ peer' = peer /\ reply' = reply
      /\ UNCHANGED history
  BY DEF Listen, ListenFails
<1>2. pc.server = "init" /\ pc'.caller = pc.caller /\ pc'.server \in {"accept", "gone"}
  BY <1>0 DEF Listen, ListenFails, TypeInv
<1>3. TypeInv'
  <2>1. pc' \in [caller : {"connect", "refused", "hello", "idle", "recv", "done", "gone", "killed"},
                 server : DOMAIN FrameSize \cup {"init", "accept", "reply", "gone", "killed"}]
    BY <1>0 DEF TypeInv, Listen, ListenFails
  <2> QED
    BY <1>0, <1>1, <2>1 DEF TypeInv, history, AnyResult
<1>4. Inbox("caller")' = Inbox("caller") /\ Inbox("server")' = Inbox("server")
  BY <1>1 DEF Inbox
<1>5. pc.caller \in {"connect", "refused"} /\ asked = <<>>
  BY <1>0, <1>2 DEF PeerInv, CountInv, Connected
<1>6. SizeInv'
  <2>1. ~Receiving'
    BY <1>2 DEF Receiving, FrameSize
  <2> QED
    BY <1>2, <1>5, <2>1 DEF SizeInv
<1>7. CountInv'
  BY <1>0, <1>1, <1>2, Kept DEF CountInv
<1>8. HistoryInv'
  BY <1>0, <1>1, Kept DEF HistoryInv
<1>9. PeerInv'
  BY <1>0, <1>1, <1>2, <1>5, Kept DEF PeerInv, ServerGone, Connected
<1>10. RequestInv'
  BY <1>0, <1>1, <1>2, <1>4, <1>5, Kept, LoopStarts DEF RequestInv
<1>11. ReplyInv'
  BY <1>0, <1>1, <1>2, <1>4, <1>5, Kept DEF ReplyInv, Replied
<1> QED
  BY <1>3, <1>6, <1>7, <1>8, <1>9, <1>10, <1>11 DEF IInv

\* What is pending is a sequence of bytes.
LEMMA PendingIs ==
  ASSUME TypeInv, CountInv
  PROVE  Pending \in Seq(Byte) /\ <<>> \o Pending = Pending /\ (asked = <<>> => Pending = <<>>)
<1>1. asked = <<>> => ~Unserved
  <2>1. Len(asked) \in Nat /\ Len(served) \in Nat /\ (asked = <<>> => Len(asked) = 0)
    BY Types
  <2> QED
    BY <2>1 DEF Unserved
<1>2. Pending \in Seq(Byte)
  <2>1. CASE ~Unserved
    <3>1. <<>> \in Seq(Byte)
      OBVIOUS
    <3> QED
      BY <2>1, <3>1 DEF Pending
  <2>2. CASE Unserved
    <3>1. Current \in CallsOn[link] /\ link \in Links
      BY <1>1, <2>2, CurrentIs
    <3> QED
      BY <2>2, <3>1, Requests DEF Pending
  <2> QED
    BY <2>1, <2>2
<1>3. <<>> \o Pending = Pending
  BY <1>2, ConcatEmptySeq
<1> QED
  BY <1>1, <1>2, <1>3 DEF Pending

LEMMA AcceptStep ==
  ASSUME IInv, Accept PROVE IInv'
<1>0. TypeInv /\ SizeInv /\ CountInv /\ HistoryInv /\ PeerInv /\ RequestInv /\ ReplyInv
  BY DEF IInv
<1>1. /\ link' = link /\ buffer' = buffer /\ wire' = wire /\ peer' = peer /\ reply' = reply
      /\ UNCHANGED history
  BY DEF Accept
<1>2. /\ pc.server = "accept" /\ Connected /\ pc'.caller = pc.caller
      /\ pc'.server = IF MayBeKilled THEN "hello" ELSE LoopStart
  BY <1>0 DEF Accept, TypeInv
<1>3. TypeInv'
  <2>1. pc'.server \in DOMAIN FrameSize
    BY <1>2, LoopStarts DEF FrameSize
  <2>2. pc' = [pc EXCEPT !.server = pc'.server]
    BY <1>0, <1>2 DEF Accept, TypeInv
  <2>3. pc' \in [caller : {"connect", "refused", "hello", "idle", "recv", "done", "gone", "killed"},
                 server : DOMAIN FrameSize \cup {"init", "accept", "reply", "gone", "killed"}]
    BY <1>0, <2>1, <2>2 DEF TypeInv
  <2> QED
    BY <1>0, <1>1, <2>3 DEF TypeInv, history, AnyResult
<1>4. Inbox("caller")' = Inbox("caller") /\ Inbox("server")' = Inbox("server")
  BY <1>1 DEF Inbox
<1>5. SizeInv'
  <2>1. Len(buffer'["server"]) = 0
    BY <1>0, <1>1, <1>2 DEF RequestInv
  <2>2. FrameSize[pc'.server] >= 0
    BY <1>2, LoopStarts DEF FrameSize
  <2>3. ReplySize' = ReplySize
    BY <1>1, Kept DEF ReplySize
  <2>4. pc'.caller = "recv" => Len(buffer'.caller) <= ReplySize'
    BY <1>0, <1>1, <1>2, <2>3 DEF SizeInv
  <2>5. Receiving' => Len(buffer'.server) <= FrameSize[pc'.server]
    BY <2>1, <2>2
  <2> QED
    BY <2>4, <2>5 DEF SizeInv
<1>6. CountInv'
  BY <1>0, <1>1, <1>2, Kept, LoopStarts DEF CountInv
<1>7. HistoryInv'
  BY <1>0, <1>1, Kept DEF HistoryInv
<1>8. PeerInv'
  BY <1>0, <1>1, <1>2, Kept, LoopStarts DEF PeerInv, ServerGone, Connected
<1>9. RequestInv'
  <2>1. CASE MayBeKilled
    BY <1>0, <1>1, <1>2, <1>4, <2>1, Kept, LoopStarts DEF RequestInv
  <2>2. CASE ~MayBeKilled
    <3>1. pc.caller # "hello" /\ buffer["server"] = <<>>
      BY <1>0, <1>2, <2>2 DEF RequestInv
    <3>2. Inbox("server") = Pending
      BY <1>0, <1>2, <2>2, PendingIs DEF RequestInv, Greeting
    <3> QED
      BY <1>0, <1>1, <1>2, <1>4, <2>2, <3>1, <3>2, Kept, LoopStarts DEF RequestInv
  <2> QED
    BY <2>1, <2>2
<1>10. ReplyInv'
  BY <1>0, <1>1, <1>2, <1>4, Kept, LoopStarts DEF ReplyInv, Replied, ServerGone
<1> QED
  BY <1>3, <1>5, <1>6, <1>7, <1>8, <1>9, <1>10 DEF IInv

\* The server thread closes its socket, or its process is killed.
LEMMA ServerCloses ==
  ASSUME IInv, ~ServerGone, Close("server"), pc' = [pc EXCEPT !.server = "gone"],
         UNCHANGED <<link, reply, history>>
  PROVE  IInv'
<1>0. TypeInv /\ SizeInv /\ CountInv /\ HistoryInv /\ PeerInv /\ RequestInv /\ ReplyInv
  BY DEF IInv
<1>1. link' = link /\ reply' = reply /\ UNCHANGED history
  OBVIOUS
<1>2. /\ pc'.caller = pc.caller /\ pc'.server = "gone"
      /\ buffer'["server"] = <<>> /\ buffer'["caller"] = buffer["caller"]
      /\ wire'["server"] = <<>> /\ wire'["caller"] = wire["caller"]
      /\ peer'["server"] = peer["server"] /\ peer'["caller"] # "open"
  BY <1>0 DEF TypeInv, Close, ClosedAs, Ends, Other
<1>3. TypeInv'
  <2>1. pc' \in [caller : {"connect", "refused", "hello", "idle", "recv", "done", "gone", "killed"},
                 server : DOMAIN FrameSize \cup {"init", "accept", "reply", "gone", "killed"}]
    BY <1>0 DEF TypeInv
  <2>2. buffer' \in [Ends -> Seq(Byte)] /\ wire' \in [Ends -> Seq(Byte)]
    BY <1>0 DEF TypeInv, Close, Ends
  <2>3. peer' \in [Ends -> {"open", "fin", "stray", "pipe", "reset"}]
    BY <1>0 DEF TypeInv, Close, ClosedAs, Ends, Other
  <2> QED
    BY <1>0, <1>1, <2>1, <2>2, <2>3 DEF TypeInv, history, AnyResult
<1>4. Inbox("caller")' = Inbox("caller")
  BY <1>2 DEF Inbox
<1>5. SizeInv'
  <2>1. ~Receiving'
    BY <1>2 DEF Receiving, FrameSize
  <2>2. ReplySize' = ReplySize
    BY <1>1, Kept DEF ReplySize
  <2> QED
    BY <1>0, <1>2, <2>1, <2>2 DEF SizeInv
<1>6. CountInv'
  BY <1>0, <1>1, <1>2, Kept DEF CountInv
<1>7. HistoryInv'
  BY <1>0, <1>1, Kept DEF HistoryInv
<1>8. PeerInv'
  BY <1>0, <1>1, <1>2, Kept DEF PeerInv, ServerGone, Connected
<1>9. RequestInv'
  BY <1>0, <1>1, <1>2, Kept, LoopStarts DEF RequestInv
<1>10. ReplyInv'
  <2>1. ServerGone'
    BY <1>2 DEF ServerGone
  <2>2. ~Replied => Inbox("caller") = <<>>
    BY <1>0 DEF ReplyInv
  <2>3. Replied => Inbox("caller") = ReplyFrame(Current, Result)
    BY <1>0 DEF ReplyInv
  <2>4. ~Replied' => ~Replied
    BY <1>1, <1>2, Kept DEF Replied
  <2> QED
    BY <1>1, <1>2, <1>4, <2>1, <2>2, <2>3, <2>4, Kept DEF ReplyInv
<1> QED
  BY <1>3, <1>5, <1>6, <1>7, <1>8, <1>9, <1>10 DEF IInv

\* The server thread goes on with another frame.
LEMMA ExpectStep ==
  ASSUME IInv, Greeted \/ Announced PROVE IInv'
<1>0. TypeInv /\ SizeInv /\ CountInv /\ HistoryInv /\ PeerInv /\ RequestInv /\ ReplyInv
  BY DEF IInv
<1> DEFINE frame == IF pc.server = "hello" THEN LoopStart ELSE BodyFrame(Current)
<1>1. \/ pc.server = "hello" /\ frame = LoopStart
      \/ pc.server = LoopStart /\ frame = BodyFrame(Current)
  BY LoopStarts DEF Greeted, Announced
<1>2. frame \in {LoopStart, "tx_read", "tx"}
  BY <1>1 DEF BodyFrame
<1>3. Expect(frame)
  BY LoopStarts DEF Greeted, Announced
<1> HIDE DEF frame
<1>4. /\ link' = link /\ wire' = wire /\ peer' = peer /\ reply' = reply /\ UNCHANGED history
  BY <1>3 DEF Expect
<1>5. /\ pc'.caller = pc.caller /\ pc'.server = frame /\ pc' = [pc EXCEPT !.server = frame]
      /\ buffer'["server"] = <<>> /\ buffer'["caller"] = buffer["caller"]
      /\ buffer' \in [Ends -> Seq(Byte)]
  <2>1. pc' = [pc EXCEPT !.server = frame] /\ buffer' = [buffer EXCEPT !["server"] = <<>>]
    BY <1>3 DEF Expect
  <2>2. pc'.caller = pc.caller /\ pc'.server = frame
    BY <1>0, <2>1 DEF TypeInv
  <2>3. <<>> \in Seq(Byte) /\ buffer \in [Ends -> Seq(Byte)] /\ "server" \in Ends /\ "caller" \in Ends
    BY <1>0 DEF TypeInv, Ends
  <2> QED
    BY <2>1, <2>2, <2>3
<1>6. frame \in DOMAIN FrameSize /\ FrameSize[frame] >= 0
  BY <1>2, LoopStarts DEF FrameSize
<1>7. TypeInv'
  <2>1. pc' \in [caller : {"connect", "refused", "hello", "idle", "recv", "done", "gone", "killed"},
                 server : DOMAIN FrameSize \cup {"init", "accept", "reply", "gone", "killed"}]
    BY <1>0, <1>5, <1>6 DEF TypeInv
  <2> QED
    BY <1>0, <1>4, <1>5, <2>1 DEF TypeInv, history, AnyResult
<1>8. wire["server"] \in Seq(Byte) /\ <<>> \o wire["server"] = wire["server"]
  BY <1>0, Types, ConcatEmptySeq
<1>9. Inbox("caller")' = Inbox("caller") /\ Inbox("server")' = wire["server"]
  BY <1>4, <1>5, <1>8 DEF Inbox
<1>10. SizeInv'
  <2>1. Len(buffer'["server"]) = 0
    BY <1>5
  <2>2. ReplySize' = ReplySize
    BY <1>4, Kept DEF ReplySize
  <2>3. pc'.caller = "recv" => Len(buffer'.caller) <= ReplySize'
    BY <1>0, <1>5, <2>2 DEF SizeInv
  <2>4. Len(buffer'.server) <= FrameSize[pc'.server]
    BY <1>5, <1>6, <2>1
  <2> QED
    BY <2>3, <2>4 DEF SizeInv
<1>11. frame \in {"tx_read", "tx"} => Unserved
  BY <1>1, LoopStarts DEF Greeted, Announced
<1>12. CountInv'
  BY <1>0, <1>2, <1>4, <1>5, <1>11, Kept, LoopStarts DEF CountInv
<1>13. HistoryInv'
  BY <1>0, <1>4, Kept DEF HistoryInv
<1>14. PeerInv'
  BY <1>0, <1>1, <1>2, <1>4, <1>5, Kept, LoopStarts DEF PeerInv, ServerGone, Connected
<1>15. RequestInv'
  <2>1. CASE Greeted
    <3>1. pc.caller # "hello" /\ wire["server"] = Pending /\ frame = LoopStart
      BY <1>1, <2>1, LoopStarts DEF Greeted
    <3> QED
      BY <1>0, <1>4, <1>5, <1>9, <3>1, Kept, LoopStarts DEF RequestInv
  <2>2. CASE Announced
    <3>1. /\ LoopStart = "identify" /\ wire["server"] = Body(Current)
          /\ frame = BodyFrame(Current) /\ frame \in {"tx_read", "tx"}
      BY <1>1, <2>2, LoopStarts DEF Announced, BodyFrame
    <3>2. pc.caller # "hello"
      BY <1>0, <2>2 DEF RequestInv, Announced
    <3>3. (BodyFrame(Current))' = BodyFrame(Current) /\ (Body(Current))' = Body(Current)
      BY <1>4, Kept DEF Body, BodyFrame
    <3> QED
      BY <1>0, <1>4, <1>5, <1>9, <3>1, <3>2, <3>3, Kept, LoopStarts DEF RequestInv
  <2> QED
    BY <2>1, <2>2
<1>16. ReplyInv'
  BY <1>0, <1>1, <1>2, <1>4, <1>5, <1>9, Kept, LoopStarts DEF ReplyInv, Replied, ServerGone
<1> QED
  BY <1>7, <1>10, <1>12, <1>13, <1>14, <1>15, <1>16 DEF IInv

\* A call that is served is the only one under way.
LEMMA UnservedIs ==
  ASSUME TypeInv, CountInv, Unserved
  PROVE  /\ Len(asked) = Len(served) + 1 /\ Len(answered) = Len(served) /\ asked # <<>>
         /\ Len(served) \in Nat /\ pc.caller \notin {"connect", "refused", "hello", "idle", "done"}
<1>1. Len(asked) \in Nat /\ Len(served) \in Nat /\ Len(answered) \in Nat
      /\ (asked = <<>> => Len(asked) = 0)
  BY Types
<1>2. Len(served) < Len(asked) /\ Len(answered) <= Len(served) /\ Len(asked) <= Len(answered) + 1
  BY DEF Unserved, CountInv
<1>3. Len(asked) = Len(served) + 1 /\ Len(answered) = Len(served) /\ asked # <<>>
  BY <1>1, <1>2
<1>4. Len(answered) # Len(asked)
  BY <1>1, <1>3
<1> QED
  BY <1>1, <1>3, <1>4 DEF CountInv

\* The server thread serves the call that it has the request of.
LEMMA ServedStep ==
  ASSUME IInv, NEW r \in ResultsOf(Current), Served(r) PROVE IInv'
<1>0. TypeInv /\ SizeInv /\ CountInv /\ HistoryInv /\ PeerInv /\ RequestInv /\ ReplyInv
  BY DEF IInv
<1>1. /\ Unserved /\ pc.server \in {LoopStart, "tx_read", "tx"} /\ wire["server"] = <<>>
      /\ Serve(Current, r, ReplyFrame(Current, r))
  BY DEF Served
<1>2. /\ Len(asked) = Len(served) + 1 /\ Len(answered) = Len(served) /\ asked # <<>>
      /\ Len(served) \in Nat /\ pc.caller \notin {"connect", "refused", "hello", "idle", "done"}
  BY <1>0, <1>1, UnservedIs
<1>3. /\ Current \in CallsOn[link] /\ link \in Links /\ Current = asked[Len(asked)]
      /\ ReplyFrame(Current, r) \in Seq(Byte) /\ r \in AnyResult
  BY <1>0, <1>2, CurrentIs, Replies DEF AnyResult, Current
<1>4. /\ link' = link /\ wire' = wire /\ peer' = peer /\ asked' = asked /\ answered' = answered
      /\ served' = Append(served, [call |-> Current, result |-> r])
      /\ reply' = ReplyFrame(Current, r)
      /\ pc' = [pc EXCEPT !.server = "reply"] /\ buffer' = [buffer EXCEPT !["server"] = <<>>]
  BY <1>1 DEF Serve
<1>5. pc'.caller = pc.caller /\ pc'.server = "reply"
  BY <1>0, <1>4 DEF TypeInv
<1>6. /\ buffer' \in [Ends -> Seq(Byte)] /\ buffer'["server"] = <<>>
      /\ buffer'["caller"] = buffer["caller"]
  <2>1. <<>> \in Seq(Byte) /\ buffer \in [Ends -> Seq(Byte)] /\ "server" \in Ends /\ "caller" \in Ends
    BY <1>0 DEF TypeInv, Ends
  <2> QED
    BY <1>4, <2>1
<1>7. /\ served' \in Seq([call : CallsOn[link], result : AnyResult])
      /\ Len(served') = Len(served) + 1
      /\ served'[Len(served) + 1] = [call |-> Current, result |-> r]
      /\ \A i \in 1 .. Len(served) : served'[i] = served[i]
  <2>1. [call |-> Current, result |-> r] \in [call : CallsOn[link], result : AnyResult]
    BY <1>3
  <2> QED
    BY <1>0, <1>4, <2>1, AppendProperties DEF TypeInv
<1>8. /\ LoopStart' = LoopStart /\ (MayBeKilled' <=> MayBeKilled) /\ Current' = Current
      /\ ~Unserved' /\ Result' = r
  <2>1. Len(served') = Len(asked')
    BY <1>2, <1>4, <1>7
  <2>2. ~(Len(served') < Len(asked'))
    BY <1>2, <1>4, <1>7
  <2>3. Result' = r
    BY <1>7 DEF Result
  <2>4. LoopStart' = LoopStart /\ (MayBeKilled' <=> MayBeKilled) /\ Current' = Current
    BY <1>4 DEF LoopStart, MayBeKilled, Current
  <2> QED
    BY <2>2, <2>3, <2>4 DEF Unserved
<1>9. Inbox("server")' = <<>> /\ Inbox("caller")' = Inbox("caller")
  <2>1. <<>> \o <<>> = <<>>
    OBVIOUS
  <2> QED
    BY <1>1, <1>4, <1>6, <2>1 DEF Inbox
<1>10. TypeInv'
  <2>1. pc' \in [caller : {"connect", "refused", "hello", "idle", "recv", "done", "gone", "killed"},
                 server : DOMAIN FrameSize \cup {"init", "accept", "reply", "gone", "killed"}]
    BY <1>0, <1>4 DEF TypeInv
  <2> QED
    BY <1>0, <1>3, <1>4, <1>6, <1>7, <2>1 DEF TypeInv, AnyResult
<1>11. SizeInv'
  <2>1. ~Receiving'
    BY <1>5 DEF Receiving, FrameSize
  <2>2. ReplySize' = ReplySize
    BY <1>8 DEF ReplySize
  <2> QED
    BY <1>0, <1>5, <1>6, <2>1, <2>2 DEF SizeInv
<1>12. CountInv'
  <2>1. Len(answered') <= Len(served') /\ Len(answered') < Len(served') /\ Len(served') <= Len(asked')
        /\ Len(asked') <= Len(answered') + 1
    BY <1>2, <1>4, <1>7
  <2> QED
    BY <1>0, <1>2, <1>4, <1>5, <1>8, <2>1 DEF CountInv
<1>13. HistoryInv'
  <2>1. \A i \in 1 .. Len(served') :
          served'[i].call = asked'[i] /\ served'[i].result \in ResultsOf(asked'[i])
    <3> SUFFICES ASSUME NEW i \in 1 .. Len(served) + 1
                 PROVE  served'[i].call = asked[i] /\ served'[i].result \in ResultsOf(asked[i])
      BY <1>4, <1>7
    <3>1. CASE i \in 1 .. Len(served)
      BY <1>0, <1>7, <3>1 DEF HistoryInv
    <3>2. CASE i = Len(served) + 1
      BY <1>2, <1>3, <1>7, <3>2
    <3> QED
      BY <1>2, <3>1, <3>2
  <2>2. \A i \in 1 .. Len(answered') : answered'[i] = served'[i].result
    BY <1>0, <1>2, <1>4, <1>7 DEF HistoryInv
  <2> QED
    BY <2>1, <2>2 DEF HistoryInv
<1>14. PeerInv'
  BY <1>0, <1>1, <1>4, <1>5, <1>8, LoopStarts DEF PeerInv, ServerGone, Connected
<1>15. RequestInv'
  BY <1>0, <1>2, <1>5, <1>6, <1>8, <1>9, LoopStarts DEF RequestInv
<1>16. ReplyInv'
  <2>1. ~Replied /\ ~Replied'
    BY <1>1, <1>5 DEF Replied
  <2>2. reply' = (ReplyFrame(Current, Result))'
    BY <1>4, <1>8 DEF ReplyFrame
  <2> QED
    BY <1>0, <1>9, <2>1, <2>2 DEF ReplyInv
<1> QED
  BY <1>10, <1>11, <1>12, <1>13, <1>14, <1>15, <1>16 DEF IInv

\* The server thread sends a reply: to a caller that waits for it, or to one
\* that has closed its end, of which the thread has not heard; a send that
\* fails or raises SIGPIPE would have to come after another one.
LEMMA ReplyStep ==
  ASSUME IInv, Reply PROVE IInv'
<1>0. TypeInv /\ SizeInv /\ CountInv /\ HistoryInv /\ PeerInv /\ RequestInv /\ ReplyInv
  BY DEF IInv
<1>1. pc.server = "reply" /\ link' = link /\ UNCHANGED history
  BY DEF Reply
<1>2. peer["server"] \in {"open", "fin"}
  BY <1>0, <1>1 DEF TypeInv, PeerInv, Ends
<1>3. /\ Send("server", reply) /\ reply' = <<>> /\ buffer' = buffer
      /\ pc' = [pc EXCEPT !.server = LoopStart]
  BY <1>2 DEF Reply, ReplyUnsent, SendFails, SendKills
<1>4. pc'.caller = pc.caller /\ pc'.server = LoopStart
  BY <1>0, <1>3 DEF TypeInv
<1>5. /\ ~Unserved /\ asked # <<>> /\ pc.caller \notin {"connect", "refused", "hello", "idle", "done"}
      /\ Pending = <<>>
  <2>1. ~Unserved /\ Len(answered) < Len(served)
    BY <1>0, <1>1 DEF CountInv
  <2>2. Len(asked) \in Nat /\ Len(served) \in Nat /\ Len(answered) \in Nat
        /\ (asked = <<>> => Len(asked) = 0) /\ Len(served) <= Len(asked)
    BY <1>0, Types DEF CountInv
  <2>3. asked # <<>> /\ Len(answered) # Len(asked)
    BY <2>1, <2>2
  <2> QED
    BY <1>0, <2>1, <2>3 DEF CountInv, Pending
<1>6. /\ wire' \in [Ends -> Seq(Byte)]
      /\ peer' \in [Ends -> {"open", "fin", "stray", "pipe", "reset"}]
      /\ wire'["server"] = wire["server"] /\ peer'["caller"] = peer["caller"]
      /\ \/ /\ peer["server"] = "open" /\ peer'["server"] = "open"
            /\ wire'["caller"] = wire["caller"] \o reply
            /\ buffer["caller"] \o (wire["caller"] \o reply) = Inbox("caller") \o reply
         \/ /\ peer["server"] \in {"fin", "stray"} /\ peer'["server"] = "stray"
            /\ wire'["caller"] = wire["caller"]
  <2>1. "server" \in Ends /\ reply \in Seq(Byte) /\ Other("server") = "caller"
    BY <1>0 DEF Ends, TypeInv, Other
  <2> QED
    BY <1>0, <1>3, <2>1, SendFacts
<1>7. Inbox("caller") = <<>> /\ reply = ReplyFrame(Current, Result) /\ <<>> \o reply = reply
  <2>1. ~Replied
    BY <1>1 DEF Replied
  <2>2. reply \in Seq(Byte)
    BY <1>0 DEF TypeInv
  <2> QED
    BY <1>0, <1>1, <2>1, <2>2, ConcatEmptySeq DEF ReplyInv
<1>8. Inbox("server")' = Inbox("server") /\ Inbox("server") = <<>> /\ buffer["server"] = <<>>
  BY <1>0, <1>1, <1>3, <1>6 DEF Inbox, RequestInv
<1>9. TypeInv'
  <2>1. pc' \in [caller : {"connect", "refused", "hello", "idle", "recv", "done", "gone", "killed"},
                 server : DOMAIN FrameSize \cup {"init", "accept", "reply", "gone", "killed"}]
    BY <1>0, <1>3, LoopStarts DEF TypeInv
  <2>2. <<>> \in Seq(Byte)
    OBVIOUS
  <2> QED
    BY <1>0, <1>1, <1>3, <1>6, <2>1, <2>2 DEF TypeInv, history, AnyResult
<1>10. SizeInv'
  <2>1. Len(buffer'["server"]) = 0
    BY <1>3, <1>8
  <2>2. ReplySize' = ReplySize
    BY <1>1, Kept DEF ReplySize
  <2>3. FrameSize[LoopStart] >= 0
    BY LoopStarts
  <2> QED
    BY <1>0, <1>3, <1>4, <2>1, <2>2, <2>3 DEF SizeInv
<1>11. CountInv'
  BY <1>0, <1>1, <1>4, <1>5, Kept, LoopStarts DEF CountInv
<1>12. HistoryInv'
  BY <1>0, <1>1, Kept DEF HistoryInv
<1>13. PeerInv'
  BY <1>0, <1>1, <1>4, <1>5, <1>6, Kept, LoopStarts DEF PeerInv, ServerGone, Connected
<1>14. RequestInv'
  BY <1>0, <1>1, <1>4, <1>5, <1>8, Kept, LoopStarts DEF RequestInv
<1>15. ReplyInv'
  <2>1. (ReplyFrame(Current, Result))' = ReplyFrame(Current, Result) /\ ~Unserved'
    BY <1>1, <1>5, Kept DEF ReplyFrame
  <2>2. CASE peer["server"] = "open"
    <3>1. pc.caller = "recv"
      BY <1>0, <1>5, <2>2 DEF PeerInv, TypeInv
    <3>2. Inbox("caller")' = reply
      BY <1>3, <1>6, <1>7, <2>2 DEF Inbox
    <3>3. Replied'
      BY <1>4, <2>1, <3>1, LoopStarts DEF Replied
    <3> QED
      BY <1>4, <1>7, <2>1, <3>2, <3>3, LoopStarts DEF ReplyInv
  <2>3. CASE peer["server"] # "open"
    <3>1. ~Replied'
      BY <1>0, <1>4, <2>3 DEF PeerInv, Replied
    <3>2. Inbox("caller")' = <<>>
      BY <1>3, <1>6, <1>7, <2>3 DEF Inbox
    <3> QED
      BY <1>4, <3>1, <3>2, LoopStarts DEF ReplyInv
  <2> QED
    BY <2>2, <2>3
<1> QED
  BY <1>9, <1>10, <1>11, <1>12, <1>13, <1>14, <1>15 DEF IInv

\* A reset arrives: its receiver has sent to an end that was closed.
LEMMA ResetStep ==
  ASSUME IInv, NEW e \in Ends, ResetArrives(e) PROVE IInv'
<1>0. TypeInv /\ SizeInv /\ CountInv /\ HistoryInv /\ PeerInv /\ RequestInv /\ ReplyInv
  BY DEF IInv
<1>1. /\ link' = link /\ pc' = pc /\ buffer' = buffer /\ wire' = wire /\ reply' = reply
      /\ UNCHANGED history
  BY DEF ResetArrives
<1>2. /\ peer' \in [Ends -> {"open", "fin", "stray", "pipe", "reset"}]
      /\ peer'["caller"] = "open" <=> peer["caller"] = "open"
      /\ peer'["server"] = "open" <=> peer["server"] = "open"
      /\ peer'["server"] \in {"stray", "pipe", "reset"} =>
           peer["server"] \in {"stray", "pipe", "reset"}
      /\ peer["caller"] = "reset" => peer'["caller"] = "reset"
  BY <1>0 DEF ResetArrives, TypeInv, Ends
<1>3. /\ Inbox("caller")' = Inbox("caller") /\ Inbox("server")' = Inbox("server")
      /\ (Receiving' <=> Receiving) /\ ReplySize' = ReplySize
  BY <1>1, Kept DEF Inbox, Receiving, ReplySize
<1>4. TypeInv'
  BY <1>0, <1>1, <1>2 DEF TypeInv, history, AnyResult
<1>5. SizeInv' /\ CountInv' /\ HistoryInv'
  BY <1>0, <1>1, <1>3, Kept DEF SizeInv, CountInv, HistoryInv
<1>6. PeerInv'
  BY <1>0, <1>1, <1>2, Kept DEF PeerInv, ServerGone, Connected
<1>7. RequestInv' /\ ReplyInv'
  BY <1>0, <1>1, <1>3, Kept DEF RequestInv, ReplyInv, Replied, ServerGone
<1> QED
  BY <1>4, <1>5, <1>6, <1>7 DEF IInv

\* A process is killed.
LEMMA KilledStep ==
  ASSUME IInv, NEW e \in Ends, Killed(e) PROVE IInv'
<1>1. CASE e = "caller"
  <2>1. /\ pc' = [pc EXCEPT !.caller = IF pc.caller = "connect" THEN "refused" ELSE "gone"]
        /\ ~CallerGone /\ Close("caller") /\ UNCHANGED <<link, reply, history>>
    BY <1>1 DEF Killed, CallerGone
  <2> QED
    BY <2>1, CallerCloses
<1>2. CASE e = "server"
  <2>1. TypeInv
    BY DEF IInv
  <2>2. /\ pc' = [pc EXCEPT !.server = "gone"] /\ ~ServerGone /\ Close("server")
        /\ UNCHANGED <<link, reply, history>>
    BY <1>2, <2>1 DEF Killed, ServerGone, TypeInv, FrameSize
  <2> QED
    BY <2>2, ServerCloses
<1> QED
  BY <1>1, <1>2 DEF Ends

\* What a step of the server thread is.
LEMMA ServerDoes ==
  ASSUME IInv, ServerThread
  PROVE  \/ Listen \/ ListenFails \/ Accept \/ ServerRecv \/ Reply
         \/ Greeted \/ Announced \/ Ended \/ \E r \in ResultsOf(Current) : Served(r)
BY EngineerDoes, ReadIdentifyDoes, ServeReadDoes, ServeTXDoes, IdentifyDoes,
   ServeRequestDoes, ServeReplicaDoes DEF ServerThread

\* A step of the server thread.
LEMMA ServerStep ==
  ASSUME IInv, ServerThread PROVE IInv'
<1>1. CASE Listen \/ ListenFails
  BY <1>1, ListenStep
<1>2. CASE Accept
  BY <1>2, AcceptStep
<1>3. CASE ServerRecv
  <2>1. FrameSize[pc.server] \in Nat /\ "server" \in Ends
    BY <1>3 DEF ServerRecv, Receiving, FrameSize, Ends
  <2> QED
    BY <1>3, <2>1, RecvStep DEF ServerRecv
<1>4. CASE Reply
  BY <1>4, ReplyStep
<1>5. CASE Greeted \/ Announced
  BY <1>5, ExpectStep
<1>6. CASE Ended
  <2>1. ~ServerGone
    BY <1>6 DEF Ended, Receiving, ServerGone, FrameSize
  <2> QED
    BY <1>6, <2>1, ServerCloses DEF Ended, EndThread
<1>7. CASE \E r \in ResultsOf(Current) : Served(r)
  BY <1>7, ServedStep
<1> QED
  BY <1>1, <1>2, <1>3, <1>4, <1>5, <1>6, <1>7, ServerDoes

-----------------------------------------------------------------------------
(* The theorems.                                                           *)

LEMMA StutterStep ==
  ASSUME IInv, UNCHANGED vars PROVE IInv'
<1>1. /\ link' = link /\ pc' = pc /\ buffer' = buffer /\ wire' = wire /\ peer' = peer
      /\ reply' = reply /\ UNCHANGED history
  BY DEF vars
<1>2. /\ Inbox("caller")' = Inbox("caller") /\ Inbox("server")' = Inbox("server")
      /\ (Receiving' <=> Receiving) /\ ReplySize' = ReplySize
  BY <1>1, Kept DEF Inbox, Receiving, ReplySize
<1>3. TypeInv' /\ SizeInv' /\ CountInv' /\ HistoryInv' /\ PeerInv'
  BY <1>1, <1>2, Kept DEF IInv, TypeInv, SizeInv, CountInv, HistoryInv, PeerInv,
     ServerGone, Connected, history, AnyResult
<1>4. RequestInv' /\ ReplyInv'
  BY <1>1, <1>2, Kept DEF IInv, RequestInv, ReplyInv, Replied, ServerGone
<1> QED
  BY <1>3, <1>4 DEF IInv

LEMMA NextIInv == IInv /\ [Next]_vars => IInv'
<1> SUFFICES ASSUME IInv, [Next]_vars PROVE IInv'
  OBVIOUS
<1>1. CASE CallerThread
  BY <1>1, CallerStep
<1>2. CASE ServerThread
  BY <1>2, ServerStep
<1>3. CASE \E e \in Ends : ResetArrives(e) \/ Killed(e)
  BY <1>3, ResetStep, KilledStep
<1>4. CASE UNCHANGED vars
  BY <1>4, StutterStep
<1> QED
  BY <1>1, <1>2, <1>3, <1>4 DEF Next, Finished

\* The invariant: what is under way on a connection is always the message
\* that the other end waits for.
THEOREM Invariance == Spec => []IInv
BY InitIInv, NextIInv, PTL DEF Spec

\* Types of the variables on every connection that the programs make.
THEOREM TypeCorrect == Spec => []TypeOK
<1>1. ASSUME IInv PROVE TypeOK
  <2>0. TypeInv /\ SizeInv /\ CountInv /\ HistoryInv
    BY <1>1 DEF IInv
  <2>1. /\ DOMAIN asked = 1 .. Len(asked) /\ DOMAIN served = 1 .. Len(served)
        /\ DOMAIN answered = 1 .. Len(answered)
        /\ Len(asked) \in Nat /\ Len(served) \in Nat /\ Len(answered) \in Nat
        /\ Len(answered) <= Len(served) /\ Len(served) <= Len(asked)
    BY <2>0, LenProperties DEF TypeInv, CountInv
  <2>2. \A i \in 1 .. Len(asked) : asked[i] \in CallsOn[link]
    BY <2>0, ElementOfSeq DEF TypeInv
  <2>3. ASSUME NEW i \in 1 .. Len(served)
        PROVE  served[i].call.arg \in MessagesOf[served[i].call.op]
    <3>1. served[i].call \in CallsOn[link] /\ link \in Links
      BY <2>0, <2>1, <2>2 DEF HistoryInv, TypeInv
    <3> QED
      BY <3>1, Requests
  <2>4. ASSUME NEW i \in 1 .. Len(answered) PROVE answered[i] \in ReturnedBy[asked[i].op]
    <3>1. i \in 1 .. Len(served) /\ i \in 1 .. Len(asked)
      BY <2>1
    <3>2. answered[i] \in ResultsOf(asked[i]) /\ asked[i] \in CallsOn[link] /\ link \in Links
      BY <2>0, <2>2, <3>1 DEF HistoryInv, TypeInv
    <3> QED
      BY <3>2, Replies
  <2> QED
    BY <2>0, <2>1, <2>2, <2>3, <2>4 DEF TypeOK, TypeInv, SizeInv, CountInv
<1> QED
  BY <1>1, Invariance, PTL

\* Between two calls neither end has bytes of an earlier one, and the server
\* thread is where the next request is read.
THEOREM NothingIsLeftOver == Spec => []NothingLeftOver
<1>1. ASSUME IInv PROVE NothingLeftOver
  <2>0. TypeInv /\ CountInv /\ PeerInv /\ RequestInv /\ ReplyInv
    BY <1>1 DEF IInv
  <2> SUFFICES ASSUME pc.caller = "idle", asked # <<>>, peer.caller = "open"
               PROVE  /\ wire.caller = <<>> /\ wire.server = <<>> /\ buffer.server = <<>>
                      /\ pc.server = LoopStart
    BY DEF NothingLeftOver
  <2>1. /\ Len(asked) \in Nat /\ Len(served) \in Nat /\ Len(answered) \in Nat
        /\ Len(asked) # 0 /\ (served = <<>> => Len(served) = 0)
        /\ Len(answered) = Len(asked) /\ Len(answered) <= Len(served) /\ Len(served) <= Len(asked)
    BY <2>0, Types DEF CountInv
  <2>2. ~(Len(served) < Len(asked)) /\ ~(Len(answered) < Len(served)) /\ served # <<>>
    BY <2>1
  <2>3. ~Unserved /\ Pending = <<>>
    BY <2>2 DEF Unserved, Pending
  <2>4. pc.server = LoopStart
    BY <2>0, <2>2, <2>3 DEF CountInv, PeerInv, RequestInv, ServerGone, Connected
  <2>5. Inbox("server") = <<>> /\ Inbox("caller") = <<>>
    BY <2>0, <2>3, <2>4 DEF RequestInv, ReplyInv, Replied
  <2> QED
    BY <2>0, <2>4, <2>5, Types
<1> QED
  BY <1>1, Invariance, PTL

\* No caller takes the server's process with it: its thread hears of the end
\* in Recv before it sends to a connection that was reset.
THEOREM ServersSurvive == Spec => []ServerSurvives
<1>1. IInv => ServerSurvives
  BY DEF IInv, PeerInv, ServerSurvives
<1> QED
  BY <1>1, Invariance, PTL

-----------------------------------------------------------------------------
(* A connection is a sequence of calls.                                    *)

\* A step that makes no call, serves none, answers none and leaves the caller
\* where it calls or where it is gone.
LEMMA NoCall ==
  ASSUME UNCHANGED history, CallerGone' <=> CallerGone
  PROVE  UNCHANGED Abstract!vars
<1>1. asked' = asked /\ served' = served /\ answered' = answered
  BY DEF history
<1>2. CallerGone' = CallerGone
  BY DEF CallerGone
<1> QED
  BY <1>1, <1>2 DEF Abstract!vars

\* The caller makes no more calls.
LEMMA CallerEnds ==
  ASSUME UNCHANGED history, ~CallerGone, CallerGone' PROVE Abstract!Next
<1>1. asked' = asked /\ served' = served /\ answered' = answered
  BY DEF history
<1>2. ~CallerGone /\ CallerGone' = TRUE
  BY DEF CallerGone
<1>3. Abstract!End
  BY <1>1, <1>2 DEF Abstract!End
<1> QED
  BY <1>3 DEF Abstract!Next

\* A step of the caller makes a call, takes the answer to one, or is the end.
LEMMA CallerStepIsCall ==
  ASSUME IInv, CallerThread PROVE [Abstract!Next]_(Abstract!vars)
<1>0. TypeInv /\ CountInv /\ HistoryInv
  BY DEF IInv
<1>1. CASE Connect \/ SendHello
  <2>1. UNCHANGED history /\ ~CallerGone /\ ~CallerGone'
    BY <1>0, <1>1 DEF Connect, SendHello, TypeInv, CallerGone
  <2> QED
    BY <2>1, NoCall
<1>2. CASE Refused \/ AskFails \/ BrokenPipe \/ CallFails \/ Leave
  <2>1. UNCHANGED history /\ ~CallerGone /\ CallerGone'
    BY <1>0, <1>2 DEF Refused, AskFails, BrokenPipe, CallFails, Leave, TypeInv, CallerGone
  <2> QED
    BY <2>1, CallerEnds
<1>3. CASE \E call \in CallsOn[link] : Ask(call)
  <2>1. PICK call \in CallsOn[link] : Ask(call)
    BY <1>3
  <2>2. call \in UNION {CallsOn[l] : l \in Links}
    BY <1>0 DEF TypeInv
  <2>3. /\ ~CallerGone /\ ~CallerGone' /\ pc.caller = "idle"
        /\ asked' = Append(asked, call) /\ served' = served /\ answered' = answered
        /\ Len(asked) < MaxCalls
    BY <1>0, <2>1 DEF Ask, TypeInv, CallerGone
  <2>4. CallerGone' = CallerGone
    BY <2>3 DEF CallerGone
  <2>5. Len(answered) = Len(asked)
    BY <1>0, <2>3 DEF CountInv
  <2>6. Abstract!Ask(call)
    BY <2>3, <2>4, <2>5 DEF Abstract!Ask
  <2> QED
    BY <2>2, <2>6 DEF Abstract!Next
<1>4. CASE CallerRecv
  <2>1. UNCHANGED history /\ (CallerGone' <=> CallerGone)
    BY <1>4 DEF CallerRecv, CallerGone
  <2> QED
    BY <2>1, NoCall
<1>5. CASE Answer
  <2>1. /\ ~CallerGone /\ ~CallerGone'
        /\ asked' = asked /\ served' = served
        /\ answered' = Append(answered, ReplyOf(Current, buffer.caller))
        /\ pc.caller = "recv" /\ Len(buffer.caller) = ReplySize
    BY <1>0, <1>5 DEF Answer, TypeInv, CallerGone
  <2>2. /\ ReplyOf(Current, buffer.caller) = Result
        /\ Len(served) = Len(asked) /\ Len(asked) = Len(answered) + 1
    BY <2>1, AnswerIs
  <2>3. Len(answered) \in Nat
    BY <1>0, Types
  <2>4. Result = served[Len(answered) + 1].result /\ Len(answered) < Len(served)
    BY <2>2, <2>3 DEF Result
  <2>5. CallerGone' = CallerGone
    BY <2>1 DEF CallerGone
  <2>6. Abstract!Answer
    BY <2>1, <2>2, <2>4, <2>5 DEF Abstract!Answer
  <2> QED
    BY <2>6 DEF Abstract!Next
<1> QED
  BY <1>1, <1>2, <1>3, <1>4, <1>5 DEF CallerThread

\* A step of the server thread serves a call, or is none.
LEMMA ServerStepIsCall ==
  ASSUME IInv, ServerThread PROVE [Abstract!Next]_(Abstract!vars)
<1>0. TypeInv /\ CountInv
  BY DEF IInv
<1>1. pc'.caller = pc.caller /\ (CallerGone' <=> CallerGone)
  <2>1. pc'.caller = pc.caller
    BY <1>0, ServerDoes DEF TypeInv, Listen, ListenFails, Accept, ServerRecv, Reply, ReplyUnsent,
       Greeted, Announced, Ended, Served, Expect, EndThread, Serve
  <2> QED
    BY <2>1 DEF CallerGone
<1>2. CASE Listen \/ ListenFails \/ Accept \/ ServerRecv \/ Reply \/ Greeted \/ Announced \/ Ended
  <2>1. UNCHANGED history
    BY <1>2 DEF Listen, ListenFails, Accept, ServerRecv, Reply, Greeted, Announced, Ended,
       Expect, EndThread
  <2> QED
    BY <1>1, <2>1, NoCall
<1>3. CASE \E r \in ResultsOf(Current) : Served(r)
  <2>1. PICK r \in ResultsOf(Current) : Served(r)
    BY <1>3
  <2>2. /\ Unserved /\ asked' = asked /\ answered' = answered
        /\ served' = Append(served, [call |-> Current, result |-> r])
    BY <2>1 DEF Served, Serve
  <2>3. Len(asked) = Len(served) + 1 /\ Current = asked[Len(served) + 1]
        /\ Len(served) < Len(asked)
    BY <1>0, <2>2, UnservedIs DEF Current, Unserved
  <2>4. CallerGone' = CallerGone
    BY <1>1 DEF CallerGone
  <2>5. Abstract!Serve
    BY <2>2, <2>3, <2>4 DEF Abstract!Serve
  <2> QED
    BY <2>5 DEF Abstract!Next
<1> QED
  BY <1>2, <1>3, ServerDoes

\* What the network does and who is killed is no call, or the end.
LEMMA OtherStepIsCall ==
  ASSUME IInv, NEW e \in Ends, ResetArrives(e) \/ Killed(e)
  PROVE  [Abstract!Next]_(Abstract!vars)
<1>0. TypeInv
  BY DEF IInv
<1>1. UNCHANGED history
  BY DEF ResetArrives, Killed
<1>2. CASE Killed("caller")
  <2>1. ~CallerGone /\ CallerGone'
    BY <1>0, <1>2 DEF Killed, TypeInv, CallerGone
  <2> QED
    BY <1>1, <2>1, CallerEnds
<1>3. CASE ResetArrives(e) \/ Killed("server")
  <2>1. pc'.caller = pc.caller
    BY <1>0, <1>3 DEF ResetArrives, Killed, TypeInv
  <2>2. CallerGone' <=> CallerGone
    BY <2>1 DEF CallerGone
  <2> QED
    BY <1>1, <2>2, NoCall
<1> QED
  BY <1>2, <1>3 DEF Ends

\* The stubs are remote calls: one at a time, each served at most once and
\* with a result of its own, which is the answer; a connection that ends may
\* leave the last one without an answer.
THEOREM ConnectionsAreCalls == Spec => Abstract!Init /\ [][Abstract!Next]_(Abstract!vars)
<1>1. Init => Abstract!Init
  <2>1. Init => CallerGone = FALSE
    BY DEF Init, CallerGone
  <2> QED
    BY <2>1 DEF Init, Abstract!Init
<1>2. ASSUME IInv, [Next]_vars PROVE [Abstract!Next]_(Abstract!vars)
  <2>1. CASE UNCHANGED vars
    <3>1. UNCHANGED history /\ (CallerGone' <=> CallerGone)
      BY <2>1 DEF vars, CallerGone
    <3> QED
      BY <3>1, NoCall
  <2> QED
    BY <1>2, <2>1, CallerStepIsCall, ServerStepIsCall, OtherStepIsCall DEF Next, Finished
<1> QED
  BY <1>1, <1>2, Invariance, PTL DEF Spec
===============================================================================
