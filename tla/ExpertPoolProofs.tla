-------------------------- MODULE ExpertPoolProofs --------------------------
(***************************************************************************)
(* Proofs about ExpertPool, for any number of customers, experts and       *)
(* orders: no request is lost or served twice, no wake-up is lost, and     *)
(* each robot carries the id of its own expert.                            *)
(***************************************************************************)
EXTENDS ExpertPool, TLAPS

(* The inductive invariant.                                                *)

\* Who works, works on a request of an engineer that knows nothing of it yet.
JobInv == \A x \in Experts : expert[x] = "work" => job[x] \in Customers /\ worker[job[x]] = x

\* An entry of the map names the expert that took the request.
AssignedInv == \A c \in Customers : Assigned(c) => engineer_assign_expert[c] = worker[c]

\* Only special orders get this far.
SpecialInv ==
  \A c \in Customers :
    engineer[c] \in {"refuse", "push", "notify", "look", "asleep"} => special[c]

\* The robot about to be shipped gets the right id.
ShipInv ==
  \A c \in Customers :
    engineer[c] = "ship" => expert_id[c] = worker[c] /\ (special[c] <=> expert_id[c] # NoExpert)

IInv == /\ TypeOK /\ OneRequestEach /\ PoolIsAwake /\ AssignedIsAwake
        /\ JobInv /\ AssignedInv /\ SpecialInv /\ ShipInv /\ OwnExpert

-----------------------------------------------------------------------------
(* The queue.                                                              *)

LEMMA QueueAppend ==
  ASSUME NEW S, NEW q \in Seq(S), NEW e \in S
  PROVE  /\ Append(q, e) \in Seq(S)
         /\ DOMAIN Append(q, e) = 1 .. Len(q) + 1 /\ DOMAIN q = 1 .. Len(q) /\ Len(q) \in Nat
         /\ \A i \in 1 .. Len(q) : Append(q, e)[i] = q[i]
         /\ Append(q, e)[Len(q) + 1] = e
OBVIOUS

LEMMA QueueHeadTail ==
  ASSUME NEW S, NEW q \in Seq(S), q # <<>>
  PROVE  /\ Head(q) \in S /\ Tail(q) \in Seq(S)
         /\ DOMAIN q = 1 .. Len(q) /\ Len(q) \in Nat /\ Len(q) >= 1 /\ Head(q) = q[1]
         /\ DOMAIN Tail(q) = 1 .. Len(q) - 1
         /\ \A i \in 1 .. Len(q) - 1 : Tail(q)[i] = q[i + 1]
OBVIOUS

-----------------------------------------------------------------------------
(* Type correctness.                                                       *)

LEMMA InitTypeOK == Init => TypeOK
<1> SUFFICES ASSUME Init PROVE TypeOK
  OBVIOUS
<1>1. \A c \in Customers :
        [customer_id |-> c, order_number |-> 0, expert_id |-> NoExpert] \in Robots
  BY DEF Robots
<1>2. robot \in [Customers -> Robots]
  BY <1>1 DEF Init
<1>3. order \in [Customers -> -1 .. NumOrders - 1]
  BY OrderAssumption DEF Init
<1>4. shared_reqs_queue \in Seq(Customers)
  BY DEF Init
<1> QED
  BY <1>2, <1>3, <1>4 DEF Init, TypeOK

LEMMA NextTypeOK == TypeOK /\ JobInv /\ [Next]_vars => TypeOK'
<1> SUFFICES ASSUME TypeOK, JobInv, [Next]_vars PROVE TypeOK'
  OBVIOUS
<1> USE DEF TypeOK, engineerVars, expertVars
<1>1. CASE UNCHANGED vars
  BY <1>1 DEF vars
<1>2. ASSUME NEW c \in Customers, ReceiveOrder(c) PROVE TypeOK'
  <2>1. order'[c] = order[c] + 1 /\ order[c] \in -1 .. NumOrders - 1 /\ order[c] + 1 < NumOrders
    BY <1>2 DEF ReceiveOrder, MoreOrders
  <2>2. order'[c] \in -1 .. NumOrders - 1
    BY <2>1, OrderAssumption
  <2>3. order' \in [Customers -> -1 .. NumOrders - 1]
    BY <1>2, <2>1, <2>2 DEF ReceiveOrder
  <2> QED
    BY <1>2, <2>3 DEF ReceiveOrder
<1>3. ASSUME NEW c \in Customers, Refuse(c) PROVE TypeOK'
  BY <1>3 DEF Refuse
<1>4. ASSUME NEW c \in Customers, PushRequest(c) PROVE TypeOK'
  <2>1. shared_reqs_queue' \in Seq(Customers)
    BY <1>4, QueueAppend DEF PushRequest
  <2> QED
    BY <1>4, <2>1 DEF PushRequest
<1>5. ASSUME NEW c \in Customers, NotifyExpert(c) PROVE TypeOK'
  BY <1>5 DEF NotifyExpert
<1>6. ASSUME NEW c \in Customers, LookUp(c) PROVE TypeOK'
  BY <1>6 DEF LookUp
<1>7. ASSUME NEW c \in Customers, ShipRobot(c) PROVE TypeOK'
  <2>1. [customer_id |-> c, order_number |-> c, expert_id |-> expert_id[c]] \in Robots
    BY OrderAssumption DEF Robots
  <2>2. robot' = [robot EXCEPT ![c] = [customer_id |-> c, order_number |-> c,
                                       expert_id |-> expert_id[c]]]
    BY <1>7 DEF ShipRobot, CopyOrder
  <2>3. robot' \in [Customers -> Robots]
    BY <2>1, <2>2
  <2> QED
    BY <1>7, <2>3 DEF ShipRobot
<1>8. ASSUME NEW c \in Customers, CustomerLeaves(c) PROVE TypeOK'
  BY <1>8 DEF CustomerLeaves
<1>9. ASSUME NEW x \in Experts, TakeRequest(x) PROVE TypeOK'
  <2>1. CASE shared_reqs_queue = <<>>
    BY <1>9, <2>1 DEF TakeRequest
  <2>2. CASE shared_reqs_queue # <<>>
    <3>1. Head(shared_reqs_queue) \in Customers /\ Tail(shared_reqs_queue) \in Seq(Customers)
      BY <2>2, QueueHeadTail
    <3>2. job' \in [Experts -> Customers \cup {NoCustomer}]
      BY <1>9, <2>2, <3>1 DEF TakeRequest
    <3>3. worker' \in [Customers -> Experts \cup {NoExpert}]
      BY <1>9, <2>2, <3>1 DEF TakeRequest
    <3>4. /\ shared_reqs_queue' \in Seq(Customers)
          /\ expert' \in [Experts -> {"absent", "look", "asleep", "work", "notify"}]
      BY <1>9, <2>2, <3>1 DEF TakeRequest
    <3>5. UNCHANGED <<special, order, engineer, expert_id, connected,
                      engineer_assign_expert, robot>>
      BY <1>9 DEF TakeRequest
    <3> QED
      BY <3>2, <3>3, <3>4, <3>5
  <2> QED
    BY <2>1, <2>2
<1>10. ASSUME NEW x \in Experts, AssignExpert(x) PROVE TypeOK'
  BY <1>10 DEF AssignExpert
<1>11. ASSUME NEW x \in Experts, NotifyEngineers(x) PROVE TypeOK'
  BY <1>11 DEF NotifyEngineers
<1>12. ASSUME Spurious PROVE TypeOK'
  BY <1>12 DEF Spurious, SpuriousWakeup
<1> QED
  BY <1>1, <1>2, <1>3, <1>4, <1>5, <1>6, <1>7, <1>8, <1>9, <1>10, <1>11, <1>12
     DEF Next, EngineerThread, ExpertThread, Finished

-----------------------------------------------------------------------------
(* The requests: one each, and the experts' ids.                           *)

Requests == OneRequestEach /\ JobInv /\ AssignedInv

\* What the queue says of who is queued, before and after it grows or shrinks.
LEMMA PushQueued ==
  ASSUME TypeOK, NEW c \in Customers, PushRequest(c)
  PROVE  \A d \in Customers : Queued(d)' <=> Queued(d) \/ d = c
<1> DEFINE q == shared_reqs_queue
<1>1. q' = Append(q, c) /\ q \in Seq(Customers)
  BY DEF PushRequest, TypeOK
<1>2. /\ DOMAIN q' = 1 .. Len(q) + 1 /\ DOMAIN q = 1 .. Len(q) /\ Len(q) \in Nat
      /\ \A i \in 1 .. Len(q) : q'[i] = q[i]
      /\ q'[Len(q) + 1] = c
  BY <1>1, QueueAppend
<1>3. ASSUME NEW d \in Customers, Queued(d) \/ d = c PROVE Queued(d)'
  BY <1>2, <1>3 DEF Queued
<1>4. ASSUME NEW d \in Customers, Queued(d)' PROVE Queued(d) \/ d = c
  BY <1>2, <1>4 DEF Queued
<1> QED
  BY <1>3, <1>4

LEMMA TakeQueued ==
  ASSUME TypeOK, OneRequestEach, NEW x \in Experts, TakeRequest(x), shared_reqs_queue # <<>>
  PROVE  \A d \in Customers : Queued(d)' <=> Queued(d) /\ d # Head(shared_reqs_queue)
<1> DEFINE q == shared_reqs_queue
<1>1. q' = Tail(q) /\ q \in Seq(Customers)
  BY DEF TakeRequest, TypeOK
<1>2. \A i, j \in DOMAIN q : q[i] = q[j] => i = j
  BY DEF OneRequestEach
<1>3. \A d : (\E i \in 1 .. Len(q) - 1 : q[i + 1] = d) <=>
             (\E i \in 1 .. Len(q) : q[i] = d /\ i # 1)
  <2> TAKE d
  <2>1. Len(q) \in Nat
    BY <1>1
  <2>2. ASSUME NEW i \in 1 .. Len(q), q[i] = d, i # 1
        PROVE  \E j \in 1 .. Len(q) - 1 : q[j + 1] = d
    <3>1. i - 1 \in 1 .. Len(q) - 1 /\ q[(i - 1) + 1] = d
      BY <2>1, <2>2
    <3> QED
      BY <3>1
  <2>3. ASSUME NEW i \in 1 .. Len(q) - 1, q[i + 1] = d
        PROVE  \E j \in 1 .. Len(q) : q[j] = d /\ j # 1
    <3>1. i + 1 \in 1 .. Len(q) /\ i + 1 # 1
      BY <2>1
    <3> QED
      BY <3>1, <2>3
  <2> QED
    BY <2>2, <2>3
<1>4. DOMAIN q = 1 .. Len(q) /\ DOMAIN q' = 1 .. Len(q) - 1 /\ 1 \in DOMAIN q
      /\ Head(q) = q[1] /\ \A i \in 1 .. Len(q) - 1 : q'[i] = q[i + 1]
  BY <1>1, QueueHeadTail
<1>5. ASSUME NEW d \in Customers
      PROVE  Queued(d)' <=> \E i \in 1 .. Len(q) : q[i] = d /\ i # 1
  <2>1. Queued(d)' <=> \E i \in 1 .. Len(q) - 1 : q[i + 1] = d
    BY <1>4 DEF Queued
  <2> QED
    BY <1>3, <2>1
<1>6. ASSUME NEW i \in 1 .. Len(q) PROVE i # 1 <=> q[i] # Head(q)
  BY <1>2, <1>4
<1>7. ASSUME NEW d \in Customers
      PROVE  Queued(d) /\ d # Head(q) <=> \E i \in 1 .. Len(q) : q[i] = d /\ i # 1
  BY <1>4, <1>6 DEF Queued
<1> QED
  BY <1>5, <1>7

LEMMA NextRequests == TypeOK /\ Requests /\ [Next]_vars => Requests'
<1> SUFFICES ASSUME TypeOK, Requests, [Next]_vars PROVE Requests'
  OBVIOUS
<1> USE DEF Requests, JobInv, AssignedInv, engineerVars, expertVars
<1>0. UNCHANGED <<engineer, shared_reqs_queue, engineer_assign_expert, expert, job, worker>>
        => Requests'
  BY DEF OneRequestEach, Pending, Queued, Worked, Assigned
<1>1. CASE UNCHANGED vars
  BY <1>1, <1>0 DEF vars
<1>2. ASSUME NEW c \in Customers, ReceiveOrder(c) PROVE Requests'
  <2>1. ~Pending(c) /\ ~Worked(c) /\ ~Assigned(c) /\ engineer[c] = "receive"
    BY <1>2 DEF ReceiveOrder, OneRequestEach, Pending
  <2>2. \A d \in Customers : Pending(d)' <=> Pending(d)
    BY <1>2, <2>1 DEF ReceiveOrder, Pending, TypeOK
  <2>3. \A d \in Customers : /\ Queued(d)' <=> Queued(d)
                             /\ Worked(d)' <=> Worked(d)
                             /\ Assigned(d)' <=> Assigned(d)
    BY <1>2 DEF ReceiveOrder, Queued, Worked, Assigned
  <2>4. OneRequestEach'
    BY <1>2, <2>2, <2>3 DEF ReceiveOrder, OneRequestEach
  <2>5. JobInv' /\ AssignedInv'
    BY <1>2, <2>1 DEF ReceiveOrder, Worked, Assigned, TypeOK
  <2> QED
    BY <2>4, <2>5
<1>3. ASSUME NEW c \in Customers,
             \/ Refuse(c) \/ NotifyExpert(c) \/ ShipRobot(c) \/ CustomerLeaves(c)
      PROVE  Requests'
  <2>1. \A d \in Customers : Pending(d)' <=> Pending(d)
    BY <1>3 DEF Refuse, NotifyExpert, ShipRobot, CustomerLeaves, Pending, TypeOK
  <2>2. UNCHANGED <<shared_reqs_queue, engineer_assign_expert, job, worker>>
    BY <1>3 DEF Refuse, NotifyExpert, ShipRobot, CustomerLeaves
  <2>3. \A x \in Experts : expert'[x] = "work" <=> expert[x] = "work"
    BY <1>3 DEF Refuse, NotifyExpert, ShipRobot, CustomerLeaves, TypeOK
  <2>4. \A d \in Customers : /\ Queued(d)' <=> Queued(d)
                             /\ Worked(d)' <=> Worked(d)
                             /\ Assigned(d)' <=> Assigned(d)
    BY <2>2, <2>3 DEF Queued, Worked, Assigned
  <2>5. OneRequestEach'
    BY <2>1, <2>2, <2>3, <2>4 DEF OneRequestEach
  <2> QED
    BY <2>2, <2>3, <2>4, <2>5 DEF Assigned
<1>4. ASSUME NEW c \in Customers, PushRequest(c) PROVE Requests'
  <2>1. engineer[c] = "push" /\ ~Pending(c) /\ ~Queued(c) /\ ~Worked(c) /\ ~Assigned(c)
    BY <1>4 DEF PushRequest, OneRequestEach, Pending
  <2>2. \A d \in Customers : Pending(d)' <=> Pending(d) \/ d = c
    BY <1>4, <2>1 DEF PushRequest, Pending, TypeOK
  <2>3. \A d \in Customers : /\ Worked(d)' <=> Worked(d)
                             /\ Assigned(d)' <=> Assigned(d)
    BY <1>4 DEF PushRequest, Worked, Assigned
  <2>4. \A d \in Customers : Queued(d)' <=> Queued(d) \/ d = c
    BY <1>4, PushQueued
  <2>5. \A i, j \in DOMAIN shared_reqs_queue' :
          shared_reqs_queue'[i] = shared_reqs_queue'[j] => i = j
    <3>1. /\ shared_reqs_queue' = Append(shared_reqs_queue, c)
          /\ shared_reqs_queue \in Seq(Customers)
      BY <1>4 DEF PushRequest, TypeOK
    <3>2. \A i \in DOMAIN shared_reqs_queue : shared_reqs_queue[i] # c
      BY <2>1 DEF Queued
    <3>3. \A i, j \in DOMAIN shared_reqs_queue :
            shared_reqs_queue[i] = shared_reqs_queue[j] => i = j
      BY DEF OneRequestEach
    <3> QED
      BY <3>1, <3>2, <3>3, QueueAppend
  <2>6. OneRequestEach'
    BY <1>4, <2>1, <2>2, <2>3, <2>4, <2>5 DEF PushRequest, OneRequestEach
  <2> QED
    BY <1>4, <2>3, <2>6 DEF PushRequest, Assigned
<1>5. ASSUME NEW c \in Customers, LookUp(c) PROVE Requests'
  <2>1. UNCHANGED <<shared_reqs_queue, expert, job, worker>> /\ Pending(c)
    BY <1>5 DEF LookUp, Pending
  <2>2. \A d \in Customers : /\ Queued(d)' <=> Queued(d)
                             /\ Worked(d)' <=> Worked(d)
    BY <2>1 DEF Queued, Worked
  <2>3. CASE engineer_assign_expert[c] = NoExpert
    <3>1. \A d \in Customers : Pending(d)' <=> Pending(d)
      BY <1>5, <2>3 DEF LookUp, Pending, TypeOK
    <3>2. UNCHANGED engineer_assign_expert
      BY <1>5, <2>3 DEF LookUp
    <3> QED
      BY <2>1, <2>2, <3>1, <3>2 DEF OneRequestEach, Assigned
  <2>4. CASE engineer_assign_expert[c] # NoExpert
    <3>1. Assigned(c) /\ ~Queued(c) /\ ~Worked(c)
      BY <2>4 DEF Assigned, OneRequestEach
    <3>2. \A d \in Customers : Pending(d)' <=> Pending(d) /\ d # c
      BY <1>5, <2>4 DEF LookUp, Pending, TypeOK
    <3>3. \A d \in Customers : Assigned(d)' <=> Assigned(d) /\ d # c
      BY <1>5, <2>4 DEF LookUp, Assigned, TypeOK
    <3>4. OneRequestEach'
      BY <2>1, <2>2, <3>1, <3>2, <3>3 DEF OneRequestEach
    <3>5. AssignedInv'
      BY <1>5, <2>1, <2>4, <3>3 DEF LookUp, Assigned, TypeOK
    <3> QED
      BY <2>1, <3>4, <3>5
  <2> QED
    BY <2>3, <2>4
<1>6. ASSUME NEW x \in Experts, TakeRequest(x) PROVE Requests'
  <2>1. CASE shared_reqs_queue = <<>>
    <3>1. \A y \in Experts : expert'[y] = "work" <=> expert[y] = "work"
      BY <1>6, <2>1 DEF TakeRequest, TypeOK
    <3>2. UNCHANGED <<engineer, shared_reqs_queue, engineer_assign_expert, job, worker>>
      BY <1>6, <2>1 DEF TakeRequest
    <3> QED
      BY <3>1, <3>2 DEF OneRequestEach, Pending, Queued, Worked, Assigned
  <2>2. CASE shared_reqs_queue # <<>>
    <3> DEFINE h == Head(shared_reqs_queue)
    <3>1. h \in Customers /\ Queued(h)
      BY <2>2, QueueHeadTail DEF TypeOK, Queued
    <3>2. ~Worked(h) /\ ~Assigned(h) /\ Pending(h)
      BY <3>1 DEF OneRequestEach
    <3>3. /\ expert' = [expert EXCEPT ![x] = "work"] /\ job' = [job EXCEPT ![x] = h]
          /\ worker' = [worker EXCEPT ![h] = x] /\ expert[x] = "look"
          /\ UNCHANGED <<engineer, engineer_assign_expert>>
      BY <1>6, <2>2 DEF TakeRequest
    <3>4. \A d \in Customers : Queued(d)' <=> Queued(d) /\ d # h
      BY <1>6, <2>2, TakeQueued
    <3>5. \A d \in Customers : Worked(d)' <=> Worked(d) \/ d = h
      BY <3>1, <3>3 DEF Worked, TypeOK
    <3>6. \A d \in Customers : (Assigned(d)' <=> Assigned(d)) /\ (Pending(d)' <=> Pending(d))
      BY <3>3 DEF Assigned, Pending
    <3>7. \A i, j \in DOMAIN shared_reqs_queue' :
            shared_reqs_queue'[i] = shared_reqs_queue'[j] => i = j
      <4>1. shared_reqs_queue' = Tail(shared_reqs_queue)
        BY <1>6, <2>2 DEF TakeRequest
      <4>2. \A i, j \in DOMAIN shared_reqs_queue :
              shared_reqs_queue[i] = shared_reqs_queue[j] => i = j
        BY DEF OneRequestEach
      <4> QED
        BY <2>2, <4>1, <4>2, QueueHeadTail DEF TypeOK
    <3>8. \A y, z \in Experts :
            expert'[y] = "work" /\ expert'[z] = "work" /\ job'[y] = job'[z] => y = z
      <4>1. \A y \in Experts : expert[y] = "work" => job[y] # h
        BY <3>2 DEF Worked
      <4>2. \A y, z \in Experts :
              expert[y] = "work" /\ expert[z] = "work" /\ job[y] = job[z] => y = z
        BY DEF OneRequestEach
      <4> QED
        BY <3>3, <4>1, <4>2 DEF TypeOK
    <3>9. OneRequestEach'
      BY <3>1, <3>2, <3>4, <3>5, <3>6, <3>7, <3>8 DEF OneRequestEach
    <3>10. JobInv'
      BY <3>1, <3>2, <3>3 DEF Worked, TypeOK
    <3>11. AssignedInv'
      BY <3>1, <3>2, <3>3 DEF Assigned, TypeOK
    <3> QED
      BY <3>9, <3>10, <3>11
  <2> QED
    BY <2>1, <2>2
<1>7. ASSUME NEW x \in Experts, AssignExpert(x) PROVE Requests'
  <2> DEFINE c == job[x]
  <2>1. c \in Customers /\ worker[c] = x /\ Worked(c) /\ expert[x] = "work" /\ x # NoExpert
    BY <1>7, ExpertAssumption DEF AssignExpert, Worked
  <2>2. ~Queued(c) /\ ~Assigned(c) /\ Pending(c)
    BY <2>1 DEF OneRequestEach
  <2>3. /\ engineer_assign_expert' = [engineer_assign_expert EXCEPT ![c] = x]
        /\ expert' = [expert EXCEPT ![x] = "notify"]
        /\ UNCHANGED <<engineer, shared_reqs_queue, job, worker>>
    BY <1>7, <2>1, <2>2 DEF AssignExpert, Assigned, TypeOK
  <2>4. \A y \in Experts : expert'[y] = "work" <=> expert[y] = "work" /\ y # x
    BY <2>3 DEF TypeOK
  <2>5. \A d \in Customers : Worked(d)' <=> Worked(d) /\ d # c
    <3>1. \A y \in Experts : expert[y] = "work" /\ job[y] = c => y = x
      BY <2>1 DEF OneRequestEach
    <3> QED
      BY <2>3, <2>4, <3>1 DEF Worked
  <2>6. \A d \in Customers : Assigned(d)' <=> Assigned(d) \/ d = c
    BY <2>1, <2>3 DEF Assigned, TypeOK
  <2>7. \A d \in Customers : (Queued(d)' <=> Queued(d)) /\ (Pending(d)' <=> Pending(d))
    BY <2>3 DEF Queued, Pending
  <2>8. OneRequestEach'
    BY <2>1, <2>2, <2>3, <2>4, <2>5, <2>6, <2>7 DEF OneRequestEach
  <2>9. JobInv' /\ AssignedInv'
    BY <2>1, <2>3, <2>4, <2>6 DEF Assigned, TypeOK
  <2> QED
    BY <2>8, <2>9
<1>8. ASSUME NEW x \in Experts, NotifyEngineers(x) \/ Spurious PROVE Requests'
  <2>1. \A d \in Customers : Pending(d)' <=> Pending(d)
    BY <1>8 DEF NotifyEngineers, Spurious, SpuriousWakeup, Pending, TypeOK
  <2>2. \A y \in Experts : expert'[y] = "work" <=> expert[y] = "work"
    BY <1>8 DEF NotifyEngineers, Spurious, SpuriousWakeup, TypeOK
  <2>3. UNCHANGED <<shared_reqs_queue, engineer_assign_expert, job, worker>>
    BY <1>8 DEF NotifyEngineers, Spurious
  <2> QED
    BY <2>1, <2>2, <2>3 DEF OneRequestEach, Queued, Worked, Assigned
<1>9. ASSUME Experts = {}, Spurious PROVE Requests'
  <2>1. \A d \in Customers : Pending(d)' <=> Pending(d)
    BY <1>9 DEF Spurious, SpuriousWakeup, Pending, TypeOK
  <2>2. UNCHANGED <<shared_reqs_queue, engineer_assign_expert, job, worker>>
    BY <1>9 DEF Spurious
  <2> QED
    BY <1>9, <2>1, <2>2 DEF OneRequestEach, Queued, Worked, Assigned
<1> QED
  BY <1>1, <1>2, <1>3, <1>4, <1>5, <1>6, <1>7, <1>8, <1>9 DEF Next, EngineerThread, ExpertThread, Finished

-----------------------------------------------------------------------------
(* Wake-ups.                                                               *)

LEMMA NextPoolIsAwake == TypeOK /\ PoolIsAwake /\ [Next]_vars => PoolIsAwake'
<1> SUFFICES ASSUME TypeOK, PoolIsAwake, [Next]_vars PROVE PoolIsAwake'
  OBVIOUS
<1> USE DEF PoolIsAwake, PoolIsEmpty, TypeOK, engineerVars, expertVars
<1>1. CASE UNCHANGED vars
  BY <1>1 DEF vars
<1>2. ASSUME NEW c \in Customers,
             \/ ReceiveOrder(c) \/ Refuse(c) \/ LookUp(c) \/ ShipRobot(c) \/ CustomerLeaves(c)
      PROVE  PoolIsAwake'
  BY <1>2 DEF ReceiveOrder, Refuse, LookUp, ShipRobot, CustomerLeaves
<1>3. ASSUME NEW c \in Customers, PushRequest(c) PROVE PoolIsAwake'
  <2>1. engineer'[c] = "notify"
    BY <1>3 DEF PushRequest
  <2> QED
    BY <2>1
<1>4. ASSUME NEW c \in Customers, NotifyExpert(c) PROVE PoolIsAwake'
  <2>1. CASE \A x \in Experts : expert[x] # "asleep"
    BY <1>4, <2>1 DEF NotifyExpert
  <2>2. ASSUME NEW x \in Experts, expert' = [expert EXCEPT ![x] = "look"] PROVE PoolIsAwake'
    BY <2>2
  <2> QED
    BY <1>4, <2>1, <2>2 DEF NotifyExpert
<1>5. ASSUME NEW x \in Experts,
             TakeRequest(x) \/ AssignExpert(x) \/ NotifyEngineers(x)
      PROVE  PoolIsAwake'
  <2>1. shared_reqs_queue' = <<>> \/ expert'[x] \notin {"absent", "asleep"}
    BY <1>5 DEF TakeRequest, AssignExpert, NotifyEngineers
  <2> QED
    BY <2>1
<1>6. ASSUME Spurious PROVE PoolIsAwake'
  <2>1. shared_reqs_queue' = shared_reqs_queue
    BY <1>6 DEF Spurious
  <2>2. \A x \in Experts : expert'[x] = expert[x] \/ expert'[x] = "look"
    BY <1>6 DEF Spurious, SpuriousWakeup
  <2>3. \A x \in Experts : expert[x] = "absent" <=> expert'[x] = "absent"
    BY <1>6 DEF Spurious, SpuriousWakeup
  <2>4. \A c \in Customers : engineer[c] = "notify" => engineer'[c] = "notify"
    BY <1>6 DEF Spurious, SpuriousWakeup
  <2> QED
    BY <2>1, <2>2, <2>3, <2>4
<1> QED
  BY <1>1, <1>2, <1>3, <1>4, <1>5, <1>6 DEF Next, EngineerThread, ExpertThread, Finished

LEMMA NextAssignedIsAwake == TypeOK /\ AssignedIsAwake /\ [Next]_vars => AssignedIsAwake'
<1> SUFFICES ASSUME TypeOK, AssignedIsAwake, [Next]_vars PROVE AssignedIsAwake'
  OBVIOUS
<1> USE DEF AssignedIsAwake, Assigned, TypeOK, engineerVars, expertVars
<1>1. CASE UNCHANGED vars
  BY <1>1 DEF vars
<1>2. ASSUME NEW c \in Customers,
             \/ ReceiveOrder(c) \/ Refuse(c) \/ PushRequest(c) \/ NotifyExpert(c)
             \/ ShipRobot(c) \/ CustomerLeaves(c)
      PROVE  AssignedIsAwake'
  <2>1. \A d \in Customers : engineer'[d] = "asleep" => engineer[d] = "asleep"
    BY <1>2 DEF ReceiveOrder, Refuse, PushRequest, NotifyExpert, ShipRobot, CustomerLeaves
  <2>2. \A x \in Experts : expert[x] = "notify" => expert'[x] = "notify"
    BY <1>2 DEF ReceiveOrder, Refuse, PushRequest, NotifyExpert, ShipRobot, CustomerLeaves
  <2>3. engineer_assign_expert' = engineer_assign_expert
    BY <1>2 DEF ReceiveOrder, Refuse, PushRequest, NotifyExpert, ShipRobot, CustomerLeaves
  <2> QED
    BY <2>1, <2>2, <2>3
<1>3. ASSUME NEW c \in Customers, LookUp(c) PROVE AssignedIsAwake'
  BY <1>3 DEF LookUp
<1>4. ASSUME NEW x \in Experts, TakeRequest(x) PROVE AssignedIsAwake'
  <2>1. \A y \in Experts : expert[y] = "notify" => expert'[y] = "notify"
    BY <1>4 DEF TakeRequest
  <2>2. engineer' = engineer /\ engineer_assign_expert' = engineer_assign_expert
    BY <1>4 DEF TakeRequest
  <2> QED
    BY <2>1, <2>2
<1>5. ASSUME NEW x \in Experts, AssignExpert(x) PROVE AssignedIsAwake'
  <2>1. expert'[x] = "notify"
    BY <1>5 DEF AssignExpert
  <2> QED
    BY <2>1
<1>6. ASSUME NEW x \in Experts, NotifyEngineers(x) PROVE AssignedIsAwake'
  <2>1. \A c \in Customers : engineer'[c] # "asleep"
    BY <1>6 DEF NotifyEngineers
  <2> QED
    BY <2>1
<1>7. ASSUME Spurious PROVE AssignedIsAwake'
  <2>1. \A d \in Customers : engineer'[d] = "asleep" => engineer[d] = "asleep"
    BY <1>7 DEF Spurious, SpuriousWakeup
  <2>2. \A x \in Experts : expert[x] = "notify" => expert'[x] = "notify"
    BY <1>7 DEF Spurious, SpuriousWakeup
  <2>3. engineer_assign_expert' = engineer_assign_expert
    BY <1>7 DEF Spurious
  <2> QED
    BY <2>1, <2>2, <2>3
<1> QED
  BY <1>1, <1>2, <1>3, <1>4, <1>5, <1>6, <1>7 DEF Next, EngineerThread, ExpertThread, Finished

-----------------------------------------------------------------------------
(* The ids of the experts.                                                 *)

LEMMA HeadIsPending ==
  ASSUME TypeOK, OneRequestEach, shared_reqs_queue # <<>>
  PROVE  Head(shared_reqs_queue) \in Customers
         /\ engineer[Head(shared_reqs_queue)] \in {"notify", "look", "asleep"}
<1>1. Head(shared_reqs_queue) \in Customers /\ Queued(Head(shared_reqs_queue))
  BY QueueHeadTail DEF TypeOK, Queued
<1> QED
  BY <1>1 DEF OneRequestEach, Pending

LEMMA NextShipInv ==
  TypeOK /\ Requests /\ SpecialInv /\ ShipInv /\ [Next]_vars => SpecialInv' /\ ShipInv'
<1> SUFFICES ASSUME TypeOK, Requests, SpecialInv, ShipInv, [Next]_vars
             PROVE  SpecialInv' /\ ShipInv'
  OBVIOUS
<1> USE DEF SpecialInv, ShipInv, TypeOK, engineerVars, expertVars
<1>1. CASE UNCHANGED vars
  BY <1>1 DEF vars
<1>2. ASSUME NEW c \in Customers, ReceiveOrder(c) PROVE SpecialInv' /\ ShipInv'
  BY <1>2 DEF ReceiveOrder
<1>3. ASSUME NEW c \in Customers,
             \/ Refuse(c) \/ PushRequest(c) \/ NotifyExpert(c) \/ ShipRobot(c)
             \/ CustomerLeaves(c)
      PROVE  SpecialInv' /\ ShipInv'
  BY <1>3 DEF Refuse, PushRequest, NotifyExpert, ShipRobot, CustomerLeaves
<1>4. ASSUME NEW c \in Customers, LookUp(c) PROVE SpecialInv' /\ ShipInv'
  BY <1>4 DEF LookUp, Requests, AssignedInv, Assigned
<1>5. ASSUME NEW x \in Experts, TakeRequest(x) PROVE SpecialInv' /\ ShipInv'
  <2>1. CASE shared_reqs_queue = <<>>
    BY <1>5, <2>1 DEF TakeRequest
  <2>2. CASE shared_reqs_queue # <<>>
    BY <1>5, <2>2, HeadIsPending DEF Requests, TakeRequest
  <2> QED
    BY <2>1, <2>2
<1>6. ASSUME NEW x \in Experts, AssignExpert(x) \/ NotifyEngineers(x)
      PROVE  SpecialInv' /\ ShipInv'
  BY <1>6 DEF AssignExpert, NotifyEngineers
<1>7. ASSUME Spurious PROVE SpecialInv' /\ ShipInv'
  BY <1>7 DEF Spurious, SpuriousWakeup
<1> QED
  BY <1>1, <1>2, <1>3, <1>4, <1>5, <1>6, <1>7
     DEF Next, EngineerThread, ExpertThread, Finished

LEMMA NextOwnExpert == TypeOK /\ Requests /\ ShipInv /\ OwnExpert /\ [Next]_vars => OwnExpert'
<1> SUFFICES ASSUME TypeOK, Requests, ShipInv, OwnExpert, [Next]_vars PROVE OwnExpert'
  OBVIOUS
<1> USE DEF OwnExpert, TypeOK, engineerVars, expertVars
<1>1. CASE UNCHANGED vars
  BY <1>1 DEF vars
<1>2. ASSUME NEW c \in Customers, ReceiveOrder(c) PROVE OwnExpert'
  <2>1. engineer'[c] \notin {"receive", "ended"}
    BY <1>2 DEF ReceiveOrder
  <2>2. \A d \in Customers \ {c} : /\ engineer'[d] = engineer[d] /\ order'[d] = order[d]
                                   /\ worker'[d] = worker[d]
    BY <1>2 DEF ReceiveOrder
  <2>3. UNCHANGED <<special, robot>>
    BY <1>2 DEF ReceiveOrder
  <2> QED
    BY <2>1, <2>2, <2>3
<1>3. ASSUME NEW c \in Customers,
             \/ Refuse(c) \/ PushRequest(c) \/ NotifyExpert(c) \/ LookUp(c) \/ CustomerLeaves(c)
      PROVE  OwnExpert'
  BY <1>3 DEF Refuse, PushRequest, NotifyExpert, LookUp, CustomerLeaves
<1>4. ASSUME NEW c \in Customers, ShipRobot(c) PROVE OwnExpert'
  <2>1. /\ robot'[c].expert_id = expert_id[c]
        /\ \A d \in Customers \ {c} : robot'[d] = robot[d] /\ engineer'[d] = engineer[d]
        /\ UNCHANGED <<special, order, worker>>
    BY <1>4 DEF ShipRobot
  <2>2. expert_id[c] = worker[c] /\ (special[c] <=> expert_id[c] # NoExpert)
    BY <1>4 DEF ShipRobot, ShipInv
  <2> QED
    BY <2>1, <2>2
<1>5. ASSUME NEW x \in Experts, TakeRequest(x) PROVE OwnExpert'
  <2>1. CASE shared_reqs_queue = <<>>
    BY <1>5, <2>1 DEF TakeRequest
  <2>2. CASE shared_reqs_queue # <<>>
    BY <1>5, <2>2, HeadIsPending DEF Requests, TakeRequest
  <2> QED
    BY <2>1, <2>2
<1>6. ASSUME NEW x \in Experts, AssignExpert(x) \/ NotifyEngineers(x) PROVE OwnExpert'
  BY <1>6 DEF AssignExpert, NotifyEngineers
<1>7. ASSUME Spurious PROVE OwnExpert'
  BY <1>7 DEF Spurious, SpuriousWakeup
<1> QED
  BY <1>1, <1>2, <1>3, <1>4, <1>5, <1>6, <1>7
     DEF Next, EngineerThread, ExpertThread, Finished

-----------------------------------------------------------------------------
(* The theorems.                                                           *)

LEMMA InitIInv == Init => IInv
<1> SUFFICES ASSUME Init PROVE IInv
  OBVIOUS
<1>1. TypeOK
  BY InitTypeOK
<1>2. \A c \in Customers : ~Queued(c) /\ ~Worked(c) /\ ~Assigned(c) /\ ~Pending(c)
  <2>1. \A c \in Customers : ~Queued(c)
    <3>1. DOMAIN shared_reqs_queue = {}
      BY DEF Init
    <3> QED
      BY <3>1 DEF Queued
  <2>2. \A c \in Customers : ~Worked(c)
    <3>1. \A x \in Experts : expert[x] \in {"look", "absent"}
      BY DEF Init
    <3> QED
      BY <3>1 DEF Worked
  <2>3. \A c \in Customers : ~Assigned(c) /\ ~Pending(c)
    BY DEF Init, Assigned, Pending
  <2> QED
    BY <2>1, <2>2, <2>3
<1>3. OneRequestEach /\ PoolIsAwake /\ AssignedIsAwake
  BY <1>2 DEF Init, OneRequestEach, PoolIsAwake, AssignedIsAwake
<1>4. JobInv /\ AssignedInv /\ SpecialInv /\ ShipInv /\ OwnExpert
  BY <1>2 DEF Init, JobInv, AssignedInv, SpecialInv, ShipInv, OwnExpert
<1> QED
  BY <1>1, <1>3, <1>4 DEF IInv

LEMMA NextIInv == IInv /\ [Next]_vars => IInv'
BY NextTypeOK, NextRequests, NextPoolIsAwake, NextAssignedIsAwake, NextShipInv,
   NextOwnExpert
   DEF IInv, Requests

LEMMA Invariance == Spec => []IInv
BY InitIInv, NextIInv, PTL DEF Spec

\* The variables of engineers and experts keep their types.
THEOREM TypeCorrect == Spec => []TypeOK
<1>1. IInv => TypeOK
  BY DEF IInv
<1> QED
  BY <1>1, Invariance, PTL

\* Each waiting engineer has exactly one request under way: the queue, the
\* experts and the map never hold two of its requests, nor none.
THEOREM OneRequestPerEngineer == Spec => []OneRequestEach
<1>1. IInv => OneRequestEach
  BY DEF IInv
<1> QED
  BY <1>1, Invariance, PTL

\* notify_one after the push is enough to keep the pool from sleeping over a
\* request, also when several engineers push before anyone is notified.
THEOREM NoLostExpertWakeup == Spec => []PoolIsAwake
<1>1. IInv => PoolIsAwake
  BY DEF IInv
<1> QED
  BY <1>1, Invariance, PTL

\* notify_all after the insertion leaves no engineer asleep with its
\* assignment in the map.
THEOREM NoLostEngineerWakeup == Spec => []AssignedIsAwake
<1>1. IInv => AssignedIsAwake
  BY DEF IInv
<1> QED
  BY <1>1, Invariance, PTL

\* A robot carries the id of the expert that took this very order.
THEOREM ExpertIsOwn == Spec => []OwnExpert
<1>1. IInv => OwnExpert
  BY DEF IInv
<1> QED
  BY <1>1, Invariance, PTL
=============================================================================
