------------------------- MODULE FactoryReplication -------------------------
(***************************************************************************)
(* assignment02: robot factories that replicate their customer records by  *)
(* a primary-backup protocol.  Every factory runs the same server: an      *)
(* admin thread that acts as primary for the orders its engineers queue,   *)
(* and one thread per connection that serves a customer (engineer) or a    *)
(* primary (idle factory admin, IFA).  Customers are the threads of client *)
(* programs; programs run one after the other, each against one factory,   *)
(* as the assignment requires.  Factories are fail-stop.                   *)
(*                                                                         *)
(* Log indices count from 0 as in the code: entry i is smr_log[f][i + 1].  *)
(***************************************************************************)
EXTENDS Integers, Sequences, FiniteSets

CONSTANTS
  Factory,     \* unique ids of the factories, from the command line
  GarbageIds,  \* what the uninitialized admin_config.factory_id may hold
  MayServe,    \* factories that customers are sent to
  MayCrash,    \* factories that may be killed
  Customers,   \* customer ids of a client program: 1, 2, ...
  MaxOrders,   \* a client program places at most this many orders per customer
  MaxPrograms  \* client programs run one after the other

NoId == -1
NoRecord == -1

\* MapOp's default constructor: what gaps in the log are filled with.
MapOp == [cid |-> -1, num |-> -2]

ASSUME FactoryAssumption ==
  /\ Factory \subseteq Nat /\ IsFiniteSet(Factory) /\ GarbageIds \subseteq Int
  /\ MayServe \subseteq Factory /\ MayCrash \subseteq Factory
ASSUME ProgramAssumption ==
  Customers \subseteq Nat \ {0} /\ MaxOrders \in Nat /\ MaxPrograms \in Nat

VARIABLES
  up,              \* the factory's process runs
  smr_log,         \* operations on the customer records
  customer_record, \* last order of each customer, NoRecord if there is none
  last_index,      \* index of the last log entry
  committed_index, \* index of the last entry applied to customer_record
  primary_id,      \* who the factory takes for the primary
  factory_id,      \* admin_config.factory_id: never assigned by the program
  arq,             \* queue of the customers whose engineers wait for the admin
  admin,           \* the admin thread
  peer_connected,  \* the admin has tried to connect to its peers
  stub,            \* the admin's connections: "none", "open", "identified", "down"
  ifa,             \* ifa[g][f]: factory g's thread that serves primary f
  program,         \* client programs started so far
  target,          \* the factory the running program talks to
  quota,           \* orders per customer of that program
  customer         \* its customer threads

factoryVars == <<smr_log, customer_record, last_index, committed_index, primary_id>>
adminVars == <<arq, admin, peer_connected, stub>>
clientVars == <<program, target, quota, customer>>
vars == <<up, smr_log, customer_record, last_index, committed_index, primary_id,
          factory_id, arq, admin, peer_connected, stub, ifa, program, target,
          quota, customer>>

Keys == Customers \cup {MapOp.cid}
Ops == [cid : Customers, num : 1 .. MaxOrders] \cup {MapOp}
NoRequest == [fid |-> NoId, committed |-> -1, last |-> -1, op |-> MapOp]
IdleAdmin == [pc |-> "idle", cust |-> NoId, req |-> NoRequest, todo |-> {}]

LastOf(f) == Len(smr_log[f]) - 1
\* Index -1 of a vector that is not empty is the heap's block header: a key
\* that is no customer's, like that of a filled gap.  (An index past the end,
\* which takes five factories, would read memory of no defined content: see
\* IndexInLog.)
Entry(f, i) == IF i + 1 \in DOMAIN smr_log[f] THEN smr_log[f][i + 1] ELSE MapOp

Init ==
  /\ up = [f \in Factory |-> TRUE]
  /\ smr_log = [f \in Factory |-> <<>>]
  /\ customer_record = [f \in Factory |-> [k \in Keys |-> NoRecord]]
  /\ last_index = [f \in Factory |-> -1]
  /\ committed_index = [f \in Factory |-> -1]
  /\ primary_id = [f \in Factory |-> NoId]
  /\ factory_id \in [Factory -> GarbageIds]
  /\ arq = [f \in Factory |-> <<>>]
  /\ admin = [f \in Factory |-> IdleAdmin]
  /\ peer_connected = [f \in Factory |-> FALSE]
  /\ stub = [f \in Factory |-> [g \in Factory |-> "none"]]
  /\ ifa = [g \in Factory |-> [f \in Factory |-> [pc |-> "none", req |-> NoRequest, res |-> -1]]]
  /\ program = 0 /\ target \in MayServe /\ quota = 0
  /\ customer = [c \in Customers |-> [pc |-> "stopped", num |-> 0]]

-----------------------------------------------------------------------------
(* Customers. *)

\* Programs do not overlap: a new one starts when the last one has ended.
StartProgram(f, orders) ==
  /\ program < MaxPrograms /\ f \in MayServe /\ up[f]
  /\ \A c \in Customers : customer[c].pc = "stopped"
  /\ program' = program + 1
  /\ target' = f
  /\ quota' = orders
  /\ customer' = [c \in Customers |-> [pc |-> "ready", num |-> 0]]
  /\ UNCHANGED <<up, factoryVars, factory_id, adminVars, ifa>>

\* Mutant: no end to the orders of a customer.
OrderWithoutLimit(c) ==
  /\ customer[c].pc = "ready" /\ up[target]
  /\ customer' = [customer EXCEPT ![c] = [pc |-> "waiting", num |-> @.num + 1]]
  /\ arq' = [arq EXCEPT ![target] = Append(@, c)]
  /\ UNCHANGED <<up, factoryVars, factory_id, admin, peer_connected, stub, ifa,
                 program, target, quota>>

\* The customer sends its next order; the engineer creates the robot and
\* queues the request to the admin (CreateRobotAndAdminRequest).  It may have
\* to wait for arq_lock; who waits for it is as good as queued.
Order(c) ==
  /\ customer[c].pc = "ready" /\ up[target]
  /\ customer[c].num < quota
  /\ customer' = [customer EXCEPT ![c] = [pc |-> "waiting", num |-> @.num + 1]]
  /\ arq' = [arq EXCEPT ![target] = Append(@, c)]
  /\ UNCHANGED <<up, factoryVars, factory_id, admin, peer_connected, stub, ifa,
                 program, target, quota>>

\* The engineer ships the robot.
ShipRobot(c) ==
  /\ customer[c].pc = "made" /\ up[target]
  /\ customer' = [customer EXCEPT ![c].pc = "ready"]
  /\ UNCHANGED <<up, factoryVars, factory_id, adminVars, ifa, program, target, quota>>

\* All orders placed, or the connection is lost: an invalid robot.
Leave(c) ==
  /\ customer[c].pc # "stopped"
  /\ \/ ~up[target]
     \/ customer[c] = [pc |-> "ready", num |-> quota]
  /\ customer' = [customer EXCEPT ![c].pc = "stopped"]
  /\ UNCHANGED <<up, factoryVars, factory_id, adminVars, ifa, program, target, quota>>

-----------------------------------------------------------------------------
(* The admin thread: primary of the replication protocol. *)

\* smr_log[0] of a vector that never held anything is an access through a
\* null pointer.
UpdateFaults(f) == smr_log[f] = <<>>

\* Mutant: the entry at committed_index.
UpdateCommittedAgain(f) ==
  LET op == Entry(f, committed_index[f])
  IN  /\ customer_record' = [customer_record EXCEPT ![f][op.cid] = op.num]
      /\ committed_index' = [committed_index EXCEPT ![f] = last_index[f]]

\* updateCusRecord: only the last entry is applied.
UpdateCusRecord(f) ==
  LET op == Entry(f, last_index[f])
  IN  /\ customer_record' = [customer_record EXCEPT ![f][op.cid] = op.num]
      /\ committed_index' = [committed_index EXCEPT ![f] = last_index[f]]

\* A request is queued and this factory is the primary already.
StayPrimary(f) ==
  /\ up[f] /\ admin[f].pc = "idle" /\ arq[f] # <<>>
  /\ primary_id[f] = f
  /\ admin' = [admin EXCEPT ![f].pc = "connect"]
  /\ UNCHANGED <<up, factoryVars, factory_id, arq, peer_connected, stub, ifa, clientVars>>

\* Mutant: the old primary's last entry is taken for committed, not applied.
TakeOverWithoutUpdate(f) ==
  /\ up[f] /\ admin[f].pc = "idle" /\ arq[f] # <<>>
  /\ primary_id[f] # f
  /\ committed_index' = [committed_index EXCEPT ![f] = last_index[f]]
  /\ admin' = [admin EXCEPT ![f].pc = "takeover"]
  /\ UNCHANGED <<up, smr_log, customer_record, last_index, primary_id, factory_id, arq,
                 peer_connected, stub, ifa, clientVars>>

\* Mutant: the old primary's last entry is left as it is.
TakeOverWithoutCommit(f) ==
  /\ up[f] /\ admin[f].pc = "idle" /\ arq[f] # <<>>
  /\ primary_id[f] # f
  /\ admin' = [admin EXCEPT ![f].pc = "takeover"]
  /\ UNCHANGED <<up, factoryVars, factory_id, arq, peer_connected, stub, ifa, clientVars>>

\* It is not: unless nobody was, commit what the old primary left uncommitted.
TakeOver(f) ==
  /\ up[f] /\ admin[f].pc = "idle" /\ arq[f] # <<>>
  /\ primary_id[f] # f
  /\ \/ /\ primary_id[f] = NoId
        /\ UNCHANGED <<up, customer_record, committed_index>>
     \/ /\ primary_id[f] # NoId /\ ~UpdateFaults(f)
        /\ UpdateCusRecord(f)
        /\ UNCHANGED up
     \/ /\ primary_id[f] # NoId /\ UpdateFaults(f)
        /\ up' = [up EXCEPT ![f] = FALSE]
        /\ UNCHANGED <<customer_record, committed_index>>
  /\ admin' = [admin EXCEPT ![f].pc = "takeover"]
  /\ UNCHANGED <<smr_log, last_index, primary_id, factory_id, arq, peer_connected,
                 stub, ifa, clientVars>>

BecomePrimary(f) ==
  /\ up[f] /\ admin[f].pc = "takeover"
  /\ primary_id' = [primary_id EXCEPT ![f] = f]
  /\ admin' = [admin EXCEPT ![f].pc = "connect"]
  /\ UNCHANGED <<up, smr_log, customer_record, last_index, committed_index, factory_id,
                 arq, peer_connected, stub, ifa, clientVars>>

\* Every process is started with the addresses of all the others; a stub is
\* kept for those that accept the connection.
Peers(f) == Factory \ {f}
Reached(f) == {g \in Peers(f) : up[g]}

\* Connections are attempted once, with the first request; then the request
\* leaves the queue.
TakeRequest(f) ==
  /\ up[f] /\ admin[f].pc = "connect"
  /\ LET reached == IF peer_connected[f] THEN {} ELSE Reached(f)
     IN  /\ stub' = [stub EXCEPT ![f] = [g \in Factory |-> IF g \in reached THEN "open" ELSE @[g]]]
         /\ ifa' = [g \in Factory |->
                      IF g \in reached THEN [ifa[g] EXCEPT ![f].pc = "wait"] ELSE ifa[g]]
  /\ peer_connected' = [peer_connected EXCEPT ![f] = TRUE]
  /\ admin' = [admin EXCEPT ![f].pc = "append", ![f].cust = Head(arq[f])]
  /\ arq' = [arq EXCEPT ![f] = Tail(@)]
  /\ UNCHANGED <<up, factoryVars, factory_id, clientVars>>

\* Entries beyond last_index: the last entry is overwritten.  (For index -1
\* that is the block header of the heap, and the process aborts.)  The
\* difference is unsigned, so a negative one is large.
LogIsAhead(f) == Len(smr_log[f]) - last_index[f] \notin {0, 1}
AppendFaults(f) == LogIsAhead(f) /\ last_index[f] = -1

AppendLog(f) ==
  /\ up[f] /\ admin[f].pc = "append"
  /\ LET c == admin[f].cust
         op == [cid |-> c, num |-> customer[c].num]
     IN  /\ \/ /\ LogIsAhead(f) /\ ~AppendFaults(f)
               /\ smr_log' = [smr_log EXCEPT ![f][last_index[f] + 1] = op]
               /\ UNCHANGED last_index
            \/ /\ ~LogIsAhead(f)
               /\ smr_log' = [smr_log EXCEPT ![f] = Append(@, op)]
               /\ last_index' = [last_index EXCEPT ![f] = @ + 1]
         /\ admin' = [admin EXCEPT
              ![f].pc = "replicate",
              ![f].req = [fid |-> factory_id[f], committed |-> committed_index[f],
                          last |-> last_index'[f], op |-> op],
              ![f].todo = {g \in Factory : stub[f][g] \in {"open", "identified"}}]
  /\ UNCHANGED <<up, customer_record, committed_index, primary_id, factory_id, arq,
                 peer_connected, stub, ifa, clientVars>>

AppendFault(f) ==
  /\ up[f] /\ admin[f].pc = "append" /\ AppendFaults(f)
  /\ up' = [up EXCEPT ![f] = FALSE]
  /\ UNCHANGED <<factoryVars, factory_id, adminVars, ifa, clientVars>>

\* The peers are called in the order of their ids, the first time with an
\* identify message before the request.
NextPeer(f) == CHOOSE g \in admin[f].todo : \A h \in admin[f].todo : g <= h

SendReplicationRequest(f) ==
  /\ up[f] /\ admin[f].pc = "replicate" /\ admin[f].todo # {}
  /\ LET g == NextPeer(f)
     IN  /\ up[g] /\ ifa[g][f].pc = "wait"
         /\ ifa' = [ifa EXCEPT ![g][f] = [pc |-> "sent", req |-> admin[f].req, res |-> -1]]
         /\ stub' = [stub EXCEPT ![f][g] = "identified"]
  /\ admin' = [admin EXCEPT ![f].pc = "wait"]
  /\ UNCHANGED <<up, factoryVars, factory_id, arq, peer_connected, clientVars>>

\* The peer answered; an answer other than last_index closes the connection.
ReceiveReply(f) ==
  /\ up[f] /\ admin[f].pc = "wait"
  /\ LET g == NextPeer(f)
     IN  /\ up[g] /\ ifa[g][f].pc = "reply"
         /\ \/ /\ ifa[g][f].res = last_index[f]
               /\ ifa' = [ifa EXCEPT ![g][f].pc = "wait"]
               /\ UNCHANGED stub
            \/ /\ ifa[g][f].res # last_index[f]
               /\ ifa' = [ifa EXCEPT ![g][f].pc = "none"]
               /\ stub' = [stub EXCEPT ![f][g] = "down"]
         /\ admin' = [admin EXCEPT ![f].pc = "replicate", ![f].todo = @ \ {g}]
  /\ UNCHANGED <<up, factoryVars, factory_id, arq, peer_connected, clientVars>>

\* Mutant: a peer that dies before it answers is not noticed.
PeerFailsBeforeCall(f) ==
  /\ up[f] /\ admin[f].pc = "replicate" /\ admin[f].todo # {}
  /\ LET g == NextPeer(f)
     IN  /\ ~up[g] \/ ifa[g][f].pc = "none"
         /\ stub' = [stub EXCEPT ![f][g] = "down"]
         /\ admin' = [admin EXCEPT ![f].todo = @ \ {g}]
  /\ UNCHANGED <<up, factoryVars, factory_id, arq, peer_connected, ifa, clientVars>>

\* Send or Recv failed: the result is whatever net_res held.  If that is
\* last_index the stub is not shut down and the next call fails again.
PeerFails(f) ==
  /\ up[f] /\ admin[f].todo # {}
  /\ admin[f].pc \in {"replicate", "wait"}
  /\ LET g == NextPeer(f)
     IN  /\ ~up[g] \/ ifa[g][f].pc = "none"
         /\ \/ UNCHANGED stub
            \/ stub' = [stub EXCEPT ![f][g] = "down"]
         /\ admin' = [admin EXCEPT ![f].pc = "replicate", ![f].todo = @ \ {g}]
  /\ UNCHANGED <<up, factoryVars, factory_id, arq, peer_connected, ifa, clientVars>>

\* Mutant: commit when there are still peers to call.
CommitEarly(f) ==
  /\ up[f] /\ admin[f].pc = "replicate"
  /\ UpdateCusRecord(f)
  /\ customer' = [customer EXCEPT ![admin[f].cust].pc = "made"]
  /\ admin' = [admin EXCEPT ![f] = IdleAdmin]
  /\ UNCHANGED <<up, smr_log, last_index, primary_id, factory_id, arq, peer_connected,
                 stub, ifa, program, target, quota>>

\* All peers were called: apply the operation, wake the engineer.
Commit(f) ==
  /\ up[f] /\ admin[f].pc = "replicate" /\ admin[f].todo = {}
  /\ UpdateCusRecord(f)
  /\ customer' = [customer EXCEPT ![admin[f].cust].pc = "made"]
  /\ admin' = [admin EXCEPT ![f] = IdleAdmin]
  /\ UNCHANGED <<up, smr_log, last_index, primary_id, factory_id, arq, peer_connected,
                 stub, ifa, program, target, quota>>

\* The peer died after the primary connected: the identify message makes its
\* kernel reset the connection, and if the reset arrives in time, sending the
\* request kills the primary (SIGPIPE, see Connection).
BrokenPipe(f) ==
  /\ up[f] /\ admin[f].pc = "replicate" /\ admin[f].todo # {}
  /\ ~up[NextPeer(f)] /\ stub[f][NextPeer(f)] = "open"
  /\ up' = [up EXCEPT ![f] = FALSE]
  /\ UNCHANGED <<factoryVars, factory_id, adminVars, ifa, clientVars>>

-----------------------------------------------------------------------------
(* The idle factory admin: factory g's thread for the connection of f. *)

\* A request with factory id -1 counts as invalid and ends the thread.
ReceiveReplicationRequest(g, f) ==
  /\ up[g] /\ ifa[g][f].pc = "sent"
  /\ LET fid == ifa[g][f].req.fid
     IN  \/ /\ fid = NoId
            /\ ifa' = [ifa EXCEPT ![g][f].pc = "none"]
            /\ UNCHANGED primary_id
         \/ /\ fid # NoId
            /\ ifa' = [ifa EXCEPT ![g][f].pc = "store"]
            /\ primary_id' = [primary_id EXCEPT ![g] = fid]
  /\ UNCHANGED <<up, smr_log, customer_record, last_index, committed_index, factory_id,
                 adminVars, clientVars>>

\* Mutant: one position early.
InsertedOneEarly(log, i, ops) ==
  LET k == IF i = 0 THEN 0 ELSE i - 1 IN SubSeq(log, 1, k) \o ops \o SubSeq(log, k + 1, Len(log))

\* vector::insert before position i; positions count from 0.
Inserted(log, i, ops) == SubSeq(log, 1, i) \o ops \o SubSeq(log, i + 1, Len(log))

\* Mutant: one missing entry is no gap.
HasGapOfTwo(g, f) == ifa[g][f].req.last - last_index[g] > 2

\* The request skips entries.
HasGap(g, f) == ifa[g][f].req.last - last_index[g] > 1

\* The loop inserts at last_index, last_index + 1, ..., so from the position
\* of the last entry on, which moves up.
Filler(g, f) == [i \in 1 .. ifa[g][f].req.last - last_index[g] |-> MapOp]
Filled(g, f) ==
  IF HasGap(g, f) THEN Inserted(smr_log[g], last_index[g], Filler(g, f)) ELSE smr_log[g]

\* Inserting before the start of an empty vector ends the process.
GapFaults(g, f) == HasGap(g, f) /\ last_index[g] = -1

WriteLog(g, f) ==
  /\ up[g] /\ ifa[g][f].pc = "store" /\ ~GapFaults(g, f)
  /\ smr_log' = [smr_log EXCEPT ![g] =
                   Inserted(Filled(g, f), ifa[g][f].req.last, <<ifa[g][f].req.op>>)]
  /\ last_index' = [last_index EXCEPT ![g] = IF HasGap(g, f) THEN ifa[g][f].req.last ELSE @]
  /\ ifa' = [ifa EXCEPT ![g][f].pc = "last"]
  /\ UNCHANGED <<up, customer_record, committed_index, primary_id, factory_id,
                 adminVars, clientVars>>

GapFault(g, f) ==
  /\ up[g] /\ ifa[g][f].pc = "store" /\ GapFaults(g, f)
  /\ up' = [up EXCEPT ![g] = FALSE]
  /\ UNCHANGED <<factoryVars, factory_id, adminVars, ifa, clientVars>>

\* After the log is unlocked.
SetLastIndex(g, f) ==
  /\ up[g] /\ ifa[g][f].pc = "last"
  /\ last_index' = [last_index EXCEPT ![g] = ifa[g][f].req.last]
  /\ ifa' = [ifa EXCEPT ![g][f].pc = "apply"]
  /\ UNCHANGED <<up, smr_log, customer_record, committed_index, primary_id, factory_id,
                 adminVars, clientVars>>

\* Mutant: apply the entry just written.
ApplyLast(g, f) ==
  /\ up[g] /\ ifa[g][f].pc = "apply"
  /\ LET i == ifa[g][f].req.last
         op == Entry(g, i)
     IN  /\ customer_record' = [customer_record EXCEPT ![g][op.cid] = op.num]
         /\ committed_index' = [committed_index EXCEPT ![g] = i]
  /\ ifa' = [ifa EXCEPT ![g][f].pc = "reply", ![g][f].res = last_index[g]]
  /\ UNCHANGED <<up, smr_log, last_index, primary_id, factory_id, adminVars, clientVars>>

\* Apply what the primary has committed, and answer.
ApplyCommitted(g, f) ==
  /\ up[g] /\ ifa[g][f].pc = "apply"
  /\ LET i == ifa[g][f].req.committed
         op == Entry(g, i)
     IN  \/ /\ i = -1
            /\ UNCHANGED <<customer_record, committed_index>>
         \/ /\ i # -1
            /\ customer_record' = [customer_record EXCEPT ![g][op.cid] = op.num]
            /\ committed_index' = [committed_index EXCEPT ![g] = i]
  /\ ifa' = [ifa EXCEPT ![g][f].pc = "reply", ![g][f].res = last_index[g]]
  /\ UNCHANGED <<up, smr_log, last_index, primary_id, factory_id, adminVars, clientVars>>

-----------------------------------------------------------------------------

Crash(f) ==
  /\ f \in MayCrash /\ up[f]
  /\ up' = [up EXCEPT ![f] = FALSE]
  /\ UNCHANGED <<factoryVars, factory_id, adminVars, ifa, clientVars>>

\* The last program has ended, or no factory is left: nothing more to happen.
Finished ==
  /\ \A c \in Customers : customer[c].pc = "stopped"
  /\ program = MaxPrograms \/ \A f \in MayServe : ~up[f]
  /\ UNCHANGED vars

AdminThread(f) ==
  \/ StayPrimary(f) \/ TakeOver(f) \/ BecomePrimary(f) \/ TakeRequest(f)
  \/ AppendLog(f) \/ AppendFault(f)
  \/ SendReplicationRequest(f) \/ ReceiveReply(f) \/ PeerFails(f) \/ BrokenPipe(f) \/ Commit(f)

IfaThread(g, f) ==
  \/ ReceiveReplicationRequest(g, f) \/ WriteLog(g, f) \/ GapFault(g, f)
  \/ SetLastIndex(g, f) \/ ApplyCommitted(g, f)

CustomerThread(c) == Order(c) \/ ShipRobot(c) \/ Leave(c)

Next ==
  \/ \E f \in Factory, orders \in 1 .. MaxOrders : StartProgram(f, orders)
  \/ \E c \in Customers : CustomerThread(c)
  \/ \E f \in Factory : AdminThread(f) \/ Crash(f)
  \/ \E g, f \in Factory : IfaThread(g, f)
  \/ Finished

\* Threads are scheduled; nobody has to start a program or to kill a factory.
Fairness ==
  /\ \A c \in Customers : WF_vars(CustomerThread(c))
  /\ \A f \in Factory : WF_vars(AdminThread(f))
  /\ \A g, f \in Factory : WF_vars(IfaThread(g, f))

Spec == Init /\ [][Next]_vars /\ Fairness

-----------------------------------------------------------------------------
(* Properties. *)

\* A peer not connected; connected; sent the identify message; shut down.
StubStates == {"none", "open", "identified", "down"}
Indices == Nat \cup {-1}
Requests == [fid : GarbageIds \cup {NoId}, committed : Indices, last : Indices, op : Ops]
AdminPcs == {"idle", "takeover", "connect", "append", "replicate", "wait"}
AdminStates == [pc : AdminPcs, cust : Customers \cup {NoId}, req : Requests, todo : SUBSET Factory]
IfaPcs == {"none", "wait", "sent", "store", "last", "apply", "reply"}
IfaStates == [pc : IfaPcs, req : Requests, res : Indices]

\* Types of the variables.  Logs hold operations, records what was ordered;
\* indices count from 0, -1 is none.
TypeOK ==
  /\ up \in [Factory -> BOOLEAN]
  /\ smr_log \in [Factory -> Seq(Ops)]
  /\ customer_record \in [Factory -> [Keys -> {NoRecord, MapOp.num} \cup 1 .. MaxOrders]]
  /\ last_index \in [Factory -> Indices] /\ committed_index \in [Factory -> Indices]
  /\ primary_id \in [Factory -> Factory \cup GarbageIds \cup {NoId}]
  /\ factory_id \in [Factory -> GarbageIds]
  /\ arq \in [Factory -> Seq(Customers)]
  /\ admin \in [Factory -> AdminStates]
  /\ peer_connected \in [Factory -> BOOLEAN]
  /\ stub \in [Factory -> [Factory -> StubStates]]
  /\ ifa \in [Factory -> [Factory -> IfaStates]]
  /\ program \in 0 .. MaxPrograms /\ target \in MayServe /\ quota \in 0 .. MaxOrders
  /\ customer \in [Customers ->
       [pc : {"ready", "waiting", "made", "stopped"}, num : 0 .. MaxOrders]]

Live == {f \in Factory : up[f]}
Log(f) == smr_log[f]

\* The logs of two live factories agree: one is a prefix of the other and at
\* most one entry shorter (the entry that is being replicated).
LogsAgree ==
  \A f, g \in Live :
    Len(Log(f)) <= Len(Log(g)) =>
      /\ Log(f) = SubSeq(Log(g), 1, Len(Log(f)))
      /\ Len(Log(g)) <= Len(Log(f)) + 1

\* What one live factory has applied is in the log of every live factory:
\* operations are applied only after they have been replicated (section 2.2
\* of the assignment).
AppliedIsReplicated ==
  \A f, g \in Live :
    /\ committed_index[f] < Len(Log(g))
    /\ \A i \in 0 .. committed_index[f] : Entry(g, i) = Entry(f, i)

\* The order number that replaying the log up to index n leaves for c.
Replayed(f, c, n) ==
  LET mine == {i \in 0 .. n : Entry(f, i).cid = c}
  IN  IF mine = {} THEN NoRecord
      ELSE Entry(f, CHOOSE i \in mine : \A j \in mine : j <= i).num

\* A factory's records are the replay of its log up to committed_index,
\* although each step applies one entry only, and entries reach a factory in
\* two ways: as primary and as backup.
RecordIsReplay ==
  \A f \in Live : \A c \in Customers :
    customer_record[f][c] = Replayed(f, c, committed_index[f])

\* Between two programs all live factories have the same log, the last
\* primary has applied all of it, and each backup all but the last entry
\* (section 2.6 of the assignment).
OneBehind ==
  (\A c \in Customers : customer[c].pc = "stopped") /\ up[target] =>
    \A f \in Live :
      /\ last_index[f] = last_index[target]
      /\ committed_index[f] = last_index[target]
                              - IF f = target \/ last_index[f] = -1 THEN 0 ELSE 1

\* What a thread is about to insert, overwrite or apply is within the log,
\* whatever crashes.  (Only for a request that commits no more than it brings:
\* with five factories there are others, see the README.)
IndexInLog ==
  \A f \in Live :
    /\ last_index[f] < Len(Log(f))
    /\ \A g \in Factory :
         LET req == ifa[f][g].req
         IN  /\ ifa[f][g].pc = "store" /\ ~HasGap(f, g) => req.last <= Len(Log(f))
             /\ ifa[f][g].pc = "apply" /\ req.committed <= req.last =>
                  req.committed < Len(Log(f))

\* A robot that was made is in the record of the factory that made it.
MadeIsRecorded ==
  up[target] =>
    \A c \in Customers :
      customer[c].pc = "made" => customer_record[target][c] = customer[c].num

\* A factory that leads has committed all that it received before: it
\* appends at index x + 1 with committed_index x (section 2.6).
LeaderHasCommitted ==
  \A f \in Live : admin[f].pc = "append" => committed_index[f] = last_index[f]

\* The factories together are one log: an order that was answered keeps its
\* place in it, whichever factory serves next and whatever died; only an
\* order whose customer was not answered may be lost.
Acknowledged(f) ==
  Len(Log(f)) - IF admin[f].pc \in {"replicate", "wait"} THEN 1 ELSE 0
Abstract == INSTANCE OneLog WITH Op <- Ops, log <- Log(target),
                                 acknowledged <- Acknowledged(target)
ImplementsOneLog == Abstract!Spec

\* No factory takes back what it has applied, also when the primary changes
\* to a factory that was one entry behind.
CommitsAdvance ==
  [][\A f \in Factory : committed_index'[f] >= committed_index[f]]_vars

\* Every order is answered, or the customer notices that the factory is gone.
OrdersAnswered == \A c \in Customers : customer[c].pc = "waiting" ~> customer[c].pc # "waiting"
=============================================================================
