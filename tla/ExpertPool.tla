----------------------------- MODULE ExpertPool -----------------------------
(***************************************************************************)
(* assignment01: the robot factory with experts.  Each connected customer  *)
(* has an engineer thread of its own, identified here by the customer.     *)
(* For a special robot the engineer queues a request, notifies one expert  *)
(* and waits until it finds its entry in the map engineer_assign_expert;   *)
(* experts take requests from the queue, work, enter their id into the map *)
(* and notify all engineers.  Waiting on a condition variable is being     *)
(* "asleep"; a wake-up may also be spurious.                               *)
(***************************************************************************)
EXTENDS Integers, Sequences

CONSTANTS
  Customers, \* customer ids: 0, 1, ...
  Experts,   \* ids that experts may have
  NumOrders  \* orders per customer

NoExpert == -1

ASSUME ExpertAssumption == NoExpert \notin Experts
ASSUME OrderAssumption == Customers \subseteq Nat /\ NumOrders \in Nat

VARIABLES
  special,                \* the customer orders special robots (robot_type 1)
  order,                  \* number of the order being processed, -1 before the first
  engineer,               \* what each engineer does
  expert_id,              \* process_orders: expert found for the order
  connected,              \* the engineer's socket is open
  shared_reqs_queue,      \* engineers that need an expert
  engineer_assign_expert, \* expert for each engineer, NoExpert if absent
  expert,                 \* what each expert does, "absent" if it is not in experts_pool
  job,                    \* the engineer whose request the expert took
  robot,                  \* last robot shipped to each customer
  worker                  \* history: the expert that took the current order

engineerVars == <<order, engineer, expert_id, connected, robot>>
expertVars == <<expert, job, worker>>
vars == <<special, order, engineer, expert_id, connected, shared_reqs_queue,
          engineer_assign_expert, expert, job, robot, worker>>

NoCustomer == -1
Robots == [customer_id : Customers, order_number : Nat, expert_id : Experts \cup {NoExpert}]

\* Order's copy constructor.
CopyOrder(o) == [customer_id |-> o.customer_id, order_number |-> o.customer_id]

Init ==
  /\ special \in [Customers -> BOOLEAN]
  /\ order = [c \in Customers |-> -1]
  /\ engineer = [c \in Customers |-> "receive"]
  /\ expert_id = [c \in Customers |-> NoExpert]
  /\ connected = [c \in Customers |-> TRUE]
  /\ shared_reqs_queue = <<>>
  /\ engineer_assign_expert = [c \in Customers |-> NoExpert]
  /\ \E experts_pool \in SUBSET Experts :
       expert = [x \in Experts |-> IF x \in experts_pool THEN "look" ELSE "absent"]
  /\ job = [x \in Experts |-> NoCustomer]
  /\ robot = [c \in Customers |-> [customer_id |-> c, order_number |-> 0, expert_id |-> NoExpert]]
  /\ worker = [c \in Customers |-> NoExpert]

-----------------------------------------------------------------------------
(* Engineers: process_orders. *)

PoolIsEmpty == \A x \in Experts : expert[x] = "absent"

\* Mutant: one order too many.
MoreOrdersByOne(c) == order[c] < NumOrders

MoreOrders(c) == order[c] + 1 < NumOrders

ReceiveOrder(c) ==
  /\ engineer[c] = "receive" /\ MoreOrders(c)
  /\ order' = [order EXCEPT ![c] = @ + 1]
  /\ expert_id' = [expert_id EXCEPT ![c] = NoExpert]
  /\ engineer' = [engineer EXCEPT ![c] = IF ~special[c] THEN "ship"
                                         ELSE IF PoolIsEmpty THEN "refuse" ELSE "push"]
  /\ worker' = [worker EXCEPT ![c] = NoExpert]
  /\ UNCHANGED <<special, connected, shared_reqs_queue, engineer_assign_expert, expert, job, robot>>

\* The pool is empty: an error message, and the connection is closed.
Refuse(c) ==
  /\ engineer[c] = "refuse"
  /\ connected' = [connected EXCEPT ![c] = FALSE]
  /\ engineer' = [engineer EXCEPT ![c] = "push"]
  /\ UNCHANGED <<special, order, expert_id, shared_reqs_queue, engineer_assign_expert,
                 expertVars, robot>>

PushRequest(c) ==
  /\ engineer[c] = "push"
  /\ shared_reqs_queue' = Append(shared_reqs_queue, c)
  /\ engineer' = [engineer EXCEPT ![c] = "notify"]
  /\ UNCHANGED <<special, order, expert_id, connected, engineer_assign_expert, expertVars, robot>>

\* Mutant: notify only for the first request in the queue.
NotifyIfFirst(c) ==
  /\ engineer[c] = "notify"
  /\ engineer' = [engineer EXCEPT ![c] = "look"]
  /\ \/ /\ Len(shared_reqs_queue) # 1 \/ \A x \in Experts : expert[x] # "asleep"
        /\ UNCHANGED expert
     \/ /\ Len(shared_reqs_queue) = 1
        /\ \E x \in Experts :
             /\ expert[x] = "asleep"
             /\ expert' = [expert EXCEPT ![x] = "look"]
  /\ UNCHANGED <<special, order, expert_id, connected, shared_reqs_queue,
                 engineer_assign_expert, job, robot, worker>>

\* expert_cv.notify_one(), after the queue is unlocked.
NotifyExpert(c) ==
  /\ engineer[c] = "notify"
  /\ engineer' = [engineer EXCEPT ![c] = "look"]
  /\ \/ /\ \A x \in Experts : expert[x] # "asleep"
        /\ UNCHANGED expert
     \/ \E x \in Experts :
          /\ expert[x] = "asleep"
          /\ expert' = [expert EXCEPT ![x] = "look"]
  /\ UNCHANGED <<special, order, expert_id, connected, shared_reqs_queue,
                 engineer_assign_expert, job, robot, worker>>

\* Mutant: the assignment stays in the map.
LookUpWithoutErase(c) ==
  /\ engineer[c] = "look"
  /\ \/ /\ engineer_assign_expert[c] = NoExpert
        /\ engineer' = [engineer EXCEPT ![c] = "asleep"]
        /\ UNCHANGED expert_id
     \/ /\ engineer_assign_expert[c] # NoExpert
        /\ engineer' = [engineer EXCEPT ![c] = "ship"]
        /\ expert_id' = [expert_id EXCEPT ![c] = engineer_assign_expert[c]]
  /\ UNCHANGED <<special, order, connected, shared_reqs_queue, engineer_assign_expert,
                 expertVars, robot>>

\* Under map_mtx: sleep on engineer_cv, or take the assignment.
LookUp(c) ==
  /\ engineer[c] = "look"
  /\ \/ /\ engineer_assign_expert[c] = NoExpert
        /\ engineer' = [engineer EXCEPT ![c] = "asleep"]
        /\ UNCHANGED <<expert_id, engineer_assign_expert>>
     \/ /\ engineer_assign_expert[c] # NoExpert
        /\ engineer' = [engineer EXCEPT ![c] = "ship"]
        /\ expert_id' = [expert_id EXCEPT ![c] = engineer_assign_expert[c]]
        /\ engineer_assign_expert' = [engineer_assign_expert EXCEPT ![c] = NoExpert]
  /\ UNCHANGED <<special, order, connected, shared_reqs_queue, expertVars, robot>>

\* The robot carries a copy of the order.
ShipRobot(c) ==
  /\ engineer[c] = "ship"
  /\ LET o == CopyOrder([customer_id |-> c, order_number |-> order[c]])
     IN  robot' = [robot EXCEPT ![c] = [customer_id |-> o.customer_id,
                                        order_number |-> o.order_number,
                                        expert_id |-> expert_id[c]]]
  /\ engineer' = [engineer EXCEPT ![c] = "receive"]
  /\ UNCHANGED <<special, order, expert_id, connected, shared_reqs_queue,
                 engineer_assign_expert, expertVars>>

\* The customer has placed all its orders and disconnects.
CustomerLeaves(c) ==
  /\ engineer[c] = "receive" /\ ~MoreOrders(c)
  /\ engineer' = [engineer EXCEPT ![c] = "ended"]
  /\ connected' = [connected EXCEPT ![c] = FALSE]
  /\ UNCHANGED <<special, order, expert_id, shared_reqs_queue, engineer_assign_expert,
                 expertVars, robot>>

-----------------------------------------------------------------------------
(* Experts: assign_expert_orders. *)

\* Mutant: front() without pop().
TakeRequestWithoutPop(x) ==
  /\ expert[x] = "look"
  /\ \/ /\ shared_reqs_queue = <<>>
        /\ expert' = [expert EXCEPT ![x] = "asleep"]
        /\ UNCHANGED <<job, worker>>
     \/ /\ shared_reqs_queue # <<>>
        /\ expert' = [expert EXCEPT ![x] = "work"]
        /\ job' = [job EXCEPT ![x] = Head(shared_reqs_queue)]
        /\ worker' = [worker EXCEPT ![Head(shared_reqs_queue)] = x]
  /\ UNCHANGED <<special, engineerVars, shared_reqs_queue, engineer_assign_expert>>

\* Under que_mtx: sleep on expert_cv, or take the first request.
TakeRequest(x) ==
  /\ expert[x] = "look"
  /\ \/ /\ shared_reqs_queue = <<>>
        /\ expert' = [expert EXCEPT ![x] = "asleep"]
        /\ UNCHANGED <<shared_reqs_queue, job, worker>>
     \/ /\ shared_reqs_queue # <<>>
        /\ expert' = [expert EXCEPT ![x] = "work"]
        /\ job' = [job EXCEPT ![x] = Head(shared_reqs_queue)]
        /\ worker' = [worker EXCEPT ![Head(shared_reqs_queue)] = x]
        /\ shared_reqs_queue' = Tail(shared_reqs_queue)
  /\ UNCHANGED <<special, engineerVars, engineer_assign_expert>>

\* map::insert leaves an entry that is there already as it is.
AssignExpert(x) ==
  /\ expert[x] = "work"
  /\ engineer_assign_expert' =
       [engineer_assign_expert EXCEPT ![job[x]] = IF @ = NoExpert THEN x ELSE @]
  /\ expert' = [expert EXCEPT ![x] = "notify"]
  /\ UNCHANGED <<special, engineerVars, shared_reqs_queue, job, worker>>

\* Mutant: notify_one.
NotifyOneEngineer(x) ==
  /\ expert[x] = "notify"
  /\ \/ /\ \A c \in Customers : engineer[c] # "asleep"
        /\ UNCHANGED engineer
     \/ \E c \in Customers :
          /\ engineer[c] = "asleep"
          /\ engineer' = [engineer EXCEPT ![c] = "look"]
  /\ expert' = [expert EXCEPT ![x] = "look"]
  /\ UNCHANGED <<special, order, expert_id, connected, shared_reqs_queue,
                 engineer_assign_expert, job, robot, worker>>

\* engineer_cv.notify_all(), after the map is unlocked.
NotifyEngineers(x) ==
  /\ expert[x] = "notify"
  /\ engineer' = [c \in Customers |-> IF engineer[c] = "asleep" THEN "look" ELSE engineer[c]]
  /\ expert' = [expert EXCEPT ![x] = "look"]
  /\ UNCHANGED <<special, order, expert_id, connected, shared_reqs_queue,
                 engineer_assign_expert, job, robot, worker>>

-----------------------------------------------------------------------------

\* A wait on a condition variable may return without a notification.
SpuriousWakeup ==
  \/ \E c \in Customers :
       /\ engineer[c] = "asleep"
       /\ engineer' = [engineer EXCEPT ![c] = "look"]
       /\ UNCHANGED expert
  \/ \E x \in Experts :
       /\ expert[x] = "asleep"
       /\ expert' = [expert EXCEPT ![x] = "look"]
       /\ UNCHANGED engineer

Spurious ==
  /\ SpuriousWakeup
  /\ UNCHANGED <<special, order, expert_id, connected, shared_reqs_queue,
                 engineer_assign_expert, job, robot, worker>>

\* All customers have left.
Finished == (\A c \in Customers : engineer[c] = "ended") /\ UNCHANGED vars

EngineerThread(c) ==
  \/ ReceiveOrder(c) \/ Refuse(c) \/ PushRequest(c) \/ NotifyExpert(c)
  \/ LookUp(c) \/ ShipRobot(c) \/ CustomerLeaves(c)

ExpertThread(x) == TakeRequest(x) \/ AssignExpert(x) \/ NotifyEngineers(x)

Next ==
  \/ \E c \in Customers : EngineerThread(c)
  \/ \E x \in Experts : ExpertThread(x)
  \/ Spurious
  \/ Finished

\* Threads are scheduled; nothing makes a spurious wake-up happen.
Fairness ==
  /\ \A c \in Customers : WF_vars(EngineerThread(c))
  /\ \A x \in Experts : WF_vars(ExpertThread(x))

Spec == Init /\ [][Next]_vars /\ Fairness

-----------------------------------------------------------------------------
(* Properties. *)

TypeOK ==
  /\ special \in [Customers -> BOOLEAN]
  /\ order \in [Customers -> -1 .. NumOrders - 1]
  /\ engineer \in [Customers -> {"receive", "refuse", "push", "notify", "look", "asleep",
                                 "ship", "ended"}]
  /\ expert_id \in [Customers -> Experts \cup {NoExpert}]
  /\ connected \in [Customers -> BOOLEAN]
  /\ shared_reqs_queue \in Seq(Customers)
  /\ engineer_assign_expert \in [Customers -> Experts \cup {NoExpert}]
  /\ expert \in [Experts -> {"absent", "look", "asleep", "work", "notify"}]
  /\ job \in [Experts -> Customers \cup {NoCustomer}]
  /\ robot \in [Customers -> Robots]
  /\ worker \in [Customers -> Experts \cup {NoExpert}]

\* Where the request of an engineer can be.
Queued(c) == \E i \in DOMAIN shared_reqs_queue : shared_reqs_queue[i] = c
Worked(c) == \E x \in Experts : expert[x] = "work" /\ job[x] = c
Assigned(c) == engineer_assign_expert[c] # NoExpert
Pending(c) == engineer[c] \in {"notify", "look", "asleep"}

\* An engineer that waits for an expert has one request, which is in the
\* queue, with one expert, or answered; no other engineer has any.  So no
\* request is lost or served twice, and no answer is left over for the next
\* order, which map::insert would then not replace.
OneRequestEach ==
  /\ \A c \in Customers :
       /\ Pending(c) <=> Queued(c) \/ Worked(c) \/ Assigned(c)
       /\ ~(Queued(c) /\ Worked(c)) /\ ~(Queued(c) /\ Assigned(c)) /\ ~(Worked(c) /\ Assigned(c))
  /\ \A i, j \in DOMAIN shared_reqs_queue :
       shared_reqs_queue[i] = shared_reqs_queue[j] => i = j
  /\ \A x, y \in Experts :
       expert[x] = "work" /\ expert[y] = "work" /\ job[x] = job[y] => x = y

\* No lost wake-up of the experts: they do not all sleep over a request,
\* unless an engineer is about to notify one.
PoolIsAwake ==
  ~PoolIsEmpty /\ shared_reqs_queue # <<>> =>
    \/ \E x \in Experts : expert[x] \notin {"absent", "asleep"}
    \/ \E c \in Customers : engineer[c] = "notify"

\* No lost wake-up of an engineer: with its assignment in the map it is not
\* asleep, unless an expert is about to notify everybody.
AssignedIsAwake ==
  \A c \in Customers :
    Assigned(c) /\ engineer[c] = "asleep" => \E x \in Experts : expert[x] = "notify"

\* A special robot is shipped with the id of the expert that worked on this
\* very order, a plain one with none.
OwnExpert ==
  \A c \in Customers :
    engineer[c] \in {"receive", "ended"} /\ order[c] >= 0 =>
      /\ robot[c].expert_id = worker[c]
      /\ special[c] <=> robot[c].expert_id # NoExpert

\* If there are experts every customer gets all its robots, however many
\* compete for them; one of plain robots does also without any experts,
\* whatever becomes of the others.
AllShipped ==
  \A c \in Customers :
    ~special[c] \/ ~PoolIsEmpty ~> engineer[c] = "ended" /\ order[c] = NumOrders - 1

\* An engineer whose connection is closed leaves its loop and terminates
\* (section 2.2 of the assignment).
DisconnectedEnds == \A c \in Customers : ~connected[c] ~> engineer[c] = "ended"
=============================================================================
