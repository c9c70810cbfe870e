-------------------------------- MODULE Stubs --------------------------------
(***************************************************************************)
(* The stub classes of the three assignments: which frames a call and its  *)
(* reply are on the connection.  A call is a record with the stub's        *)
(* function and the message it sends.  The stubs of the customers of       *)
(* two-phase commit, of the TM and of the RM have the same text as those   *)
(* of the customers and the server here, up to what TwoPhase models.       *)
(***************************************************************************)
EXTENDS BidMessages, FactoryMessages, ExpertMessages

ReadCalls(messages) == [op : {"SendRead"}, arg : messages]
TxCalls(messages) == [op : {"SendTX"}, arg : messages]
OrderCalls(messages) == [op : {"Order"}, arg : messages]
\* (Those of request type 3 have the order number -1.)
RecordCalls(messages) == [op : {"ReadRecord"}, arg : messages]
ReplicaCalls(messages) == [op : {"SendReplicationRequest"}, arg : messages]
ExpertCalls(messages) == [op : {"order"}, arg : messages]

-----------------------------------------------------------------------------
(* The caller's side: the bytes sent, the size of the reply and what is    *)
(* read out of it.                                                         *)

SendRead(m) == Bytes(<<TX_READ_IDENTIFY>> \o tx_read_Marshal(m))
SendTX(m) == Bytes(<<TX_IDENTIFY>> \o tx_Marshal(m))
Order(m) == Bytes(CustomerRequest_Marshal(m))
ReadRecord(m) == Bytes(CustomerRequest_Marshal(m))
PlaceOrder(o) == Bytes(Order_marshal(o))
SendReplicationRequest(m) == Bytes(ReplicationRequest_Marshal(m))
SendIdentifyMessage(m) == Bytes(IdentifyMessage_Marshal(m))

Request(call) ==
  CASE call.op = "SendRead" -> SendRead(call.arg)
    [] call.op = "SendTX" -> SendTX(call.arg)
    [] call.op = "Order" -> Order(call.arg)
    [] call.op = "ReadRecord" -> ReadRecord(call.arg)
    [] call.op = "order" -> PlaceOrder(call.arg)
    [] call.op = "SendReplicationRequest" -> SendReplicationRequest(call.arg)

ReplyInts == [SendRead |-> 3, SendTX |-> 1, Order |-> 5, ReadRecord |-> 2,
              order |-> 5, SendReplicationRequest |-> 1]

ReplyOf(call, buffer) ==
  CASE call.op = "SendRead" -> ReadResponse_Unmarshal(Ints(buffer))
    [] call.op = "Order" -> RobotInfo_Unmarshal(Ints(buffer))
    [] call.op = "ReadRecord" -> CustomerRecord_Unmarshal(Ints(buffer))
    [] call.op = "order" -> Robot_unmarshal(Ints(buffer))
    [] call.op \in {"SendTX", "SendReplicationRequest"} -> Ints(buffer)[1]

\* A customer of a factory stops at an object that is not valid: the default
\* object that its stub returns when the send or the recv failed.  One of
\* request type 3 goes on; its calls on a closed socket fail.
IsEnd(call, result) ==
  \/ call.op = "Order" /\ ~RobotInfo_IsValid(result)
  \/ /\ call.op = "ReadRecord" /\ call.arg.order_number # -1
     /\ ~CustomerRecord_IsValid(result)

-----------------------------------------------------------------------------
(* The server's side. *)

\* What ReadIdentify of assignment03 returns when Recv fails.
\* (Mutant: an undefined type instead, for which the thread goes on.)
NoIdentityZero == 0
NoIdentity == -1

ReceiveTxRead(buffer) == tx_read_Unmarshal(Ints(buffer))
ReceiveTX(buffer) == tx_Unmarshal(Ints(buffer))
ReceiveIdentifyMessage(buffer) == IdentifyMessage_Unmarshal(Ints(buffer))
ReceiveRequest(buffer) == CustomerRequest_Unmarshal(Ints(buffer))
ReceiveOrder(buffer) == Order_unmarshal(Ints(buffer))
ReceiveReplicationRequest(buffer) == ReplicationRequest_Unmarshal(Ints(buffer))

SendReadResponse(r) == Bytes(ReadResponse_Marshal(r))
\* (Mutant: framed like the RM's decision for the TM.)
SendDecisionFramed(d) == Bytes(<<TX_IDENTIFY, d>>)
SendDecision(d) == Bytes(<<d>>)
ShipExpertRobot(robot) == Bytes(Robot_marshal(robot))
ShipRobot(info) == Bytes(RobotInfo_Marshal(info))
ReturnRecord(record) == Bytes(CustomerRecord_Marshal(record))
ReturnReplicaResponse(last_index) == Bytes(<<last_index>>)
=============================================================================
