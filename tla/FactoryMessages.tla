--------------------------- MODULE FactoryMessages ---------------------------
(***************************************************************************)
(* The message classes of assignment02: the type of the members, the       *)
(* default object, its fields as Marshal writes them, the object that      *)
(* Unmarshal makes of them, and IsValid where the programs ask for it.     *)
(***************************************************************************)
EXTENDS Wire

CLIENT == 0
PFA == 1

IdentifyMessage == [identify |-> -1]
IdentifyMessage_Marshal(m) == <<m.identify>>
IdentifyMessage_Unmarshal(b) == [identify |-> b[1]]

CustomerRequests == [customer_id : Int32, order_number : Int32, request_type : Int32]
CustomerRequest == [customer_id |-> -1, order_number |-> -1, request_type |-> -1]
CustomerRequest_Marshal(m) == <<m.customer_id, m.order_number, m.request_type>>
CustomerRequest_Unmarshal(b) ==
  [customer_id |-> b[1], order_number |-> b[2], request_type |-> b[3]]
CustomerRequest_IsValid(m) == m.customer_id # -1

RobotInfos == [customer_id : Int32, order_number : Int32, request_type : Int32,
               engineer_id : Int32, admin_id : Int32]
RobotInfo == [customer_id |-> -1, order_number |-> -1, request_type |-> -1,
              engineer_id |-> -1, admin_id |-> -1]
RobotInfo_CopyRequest(req) ==
  [RobotInfo EXCEPT !.customer_id = req.customer_id, !.order_number = req.order_number,
                    !.request_type = req.request_type]
RobotInfo_IsValid(m) == m.customer_id # -1
RobotInfo_Marshal(m) ==
  <<m.customer_id, m.order_number, m.request_type, m.engineer_id, m.admin_id>>
RobotInfo_Unmarshal(b) ==
  [customer_id |-> b[1], order_number |-> b[2], request_type |-> b[3],
   engineer_id |-> b[4], admin_id |-> b[5]]

CustomerRecords == [customer_id : Int32, last_order : Int32]
CustomerRecord == [customer_id |-> -1, last_order |-> -1]
CustomerRecord_Marshal(m) == <<m.customer_id, m.last_order>>
CustomerRecord_IsValid(m) == m.customer_id # -1
CustomerRecord_Unmarshal(b) == [customer_id |-> b[1], last_order |-> b[2]]

MapOps == [opcode : Int32, arg1 : Int32, arg2 : Int32]
MapOp == [opcode |-> -1, arg1 |-> -1, arg2 |-> -2]
MapOp_Marshal(m) == <<m.opcode, m.arg1, m.arg2>>
MapOp_Unmarshal(b) == [opcode |-> b[1], arg1 |-> b[2], arg2 |-> b[3]]

ReplicationRequests == [factory_id : Int32, committed_index : Int32, last_index : Int32,
                        map_op : MapOps]
ReplicationRequest ==
  [factory_id |-> -1, committed_index |-> -1, last_index |-> -1, map_op |-> MapOp]
ReplicationRequest_Marshal(m) ==
  <<m.factory_id, m.committed_index, m.last_index>> \o MapOp_Marshal(m.map_op)
ReplicationRequest_Unmarshal(b) ==
  [factory_id |-> b[1], committed_index |-> b[2], last_index |-> b[3],
   map_op |-> MapOp_Unmarshal(SubSeq(b, 4, 6))]
ReplicationRequest_IsValid(m) == m.factory_id # -1
=============================================================================
