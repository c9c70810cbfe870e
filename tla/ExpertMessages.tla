---------------------------- MODULE ExpertMessages ----------------------------
(***************************************************************************)
(* The message classes of assignment01.  Their fields are unsigned, with   *)
(* the same bits on the wire.                                              *)
(***************************************************************************)
EXTENDS Wire

Orders == [customer_id : Int32, order_number : Int32, robot_type : Int32]
Order_marshal(o) == <<o.customer_id, o.order_number, o.robot_type>>
Order_unmarshal(b) == [customer_id |-> b[1], order_number |-> b[2], robot_type |-> b[3]]

\* The copy constructor takes the order number from the customer id.
CopyOrder(o) == [o EXCEPT !.order_number = o.customer_id]

\* RobotInfo keeps a copy of the order.
Robots == [order : Orders, engineer_id : Int32, expert_id : Int32]
MakeRobot(o, engi_id, exper_id) ==
  [order |-> CopyOrder(o), engineer_id |-> engi_id, expert_id |-> exper_id]
Robot_marshal(r) == Order_marshal(r.order) \o <<r.engineer_id, r.expert_id>>
Robot_unmarshal(b) == MakeRobot(Order_unmarshal(SubSeq(b, 1, 3)), b[4], b[5])
=============================================================================
