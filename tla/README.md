# A verification project for CS6650hw

The repository holds three course assignments in C++, each a small distributed
system of its own. This directory models them in TLA+, checks the models with
TLC and proves what matters most with TLAPS.

## 1. Inventory

| component | source | state | operations | status |
|---|---|---|---|---|
| transactional server (`server`) | `assignment03/src/ServerThread.cpp`, `ServerMain.cpp` | `kv_table` (bid, customer, version per robot), request queue `txrq`, one promise per request, `local_version` of the TX thread | read an entry; queue a transaction; take, validate, commit or abort it; reply | `TxServer`, proved |
| its customers (`client`) | `ClientThread.cpp`, `ClientMain.cpp`, `ClientTimer.cpp` | the transaction being put together, counts of commits and aborts, threads joined | read 3 robots, submit, count the answer; spawn, join, print totals; print entries (request type 3) | `TxServer`, `ClientProgram`, proved |
| transaction manager (`tm`) | `TMThread.cpp`, `TMClientStub.cpp`, `TMMain.cpp` | queue, promises, `rm_connections`, `local_version`, `final_decision` | connect; prepare at each RM; decide; commit or abort at each RM | `TwoPhase`, proved |
| resource managers (`rm`) | `RMThread.cpp`, `RMStub.cpp`, `RMMain.cpp` | one window of the robots, `local_tx` | read; PREPARE; COMMIT_ABORT | `TwoPhase`, proved |
| their customers (`2pc-client`) | `2PCClientThread.cpp`, `2PCClientMain.cpp`, `ResourceManager.cpp`, `2PCClientTimer.cpp` | as `client`, and a connection to each RM | as `client`, reads and report rows routed by window | `TwoPhase`, `TwoPhaseProgram`, proved |
| messages, stubs and sockets of all three | `Messages.cpp`, `Order.cpp`, `RobotInfo.cpp`, `*Stub.cpp`, `*Socket.cpp` | bytes under way, what each end has received of a frame, what its kernel knows of the other | listen, connect, accept, marshal, send, receive, close | `Wire`, `*Messages`, `Stubs`, `Connection`, proved |
| replicated robot factory | `assignment02/factory_src` | `smr_log`, `customer_record`, `admin_config` (last, committed, primary), request queue `arq`, connections to the peers | order, read, replicate, take over | `FactoryReplication`, proved; reads in `Connection` |
| its client programs | `assignment02/factory_src` (`Client*`) | orders placed so far | place orders one after the other; read records | `FactoryReplication`, `Connection` |
| copies of it | `assignment02/jcai`, `assignment02/jcai 2` | | identical but for white space | not modelled |
| robot factory with experts | `assignment01/src` | queue of engineers, map of assignments, two mutexes, two condition variables | order a plain or a special robot | `ExpertPool`, proved |
| its client program | `assignment01/src` (`Client*`) | the descriptor of each customer's stub, orders placed so far | connect, place orders, close | `ExpertPool`, `Connection` |

How they interact. In assignment 3 every customer thread has one TCP connection
to the server (or the TM), and one to each RM; a worker thread at the other end
serves it. Workers read the table under `kv_table_lock` and hand transactions to
the single TX thread through `txrq`, blocking on a future until the TX thread
sets the promise. The TM's TX thread has one connection to each RM and calls the
RMs one after the other, first with the transaction and then with the decision.
In assignment 2 the factory that receives an order makes itself the primary and
replicates its log to its peers; each factory has one admin thread and a thread
per connection, whether of a customer or of a primary. In assignment 1 engineers
and experts share one process, a queue and a map.

What is hard. Reads of a transaction that are not one step, a table that is
written entry by entry, replies that overtake the work they report, the framing
of replies, a TM that runs ahead of its RMs, reports made meanwhile (assignment 3);
take-over, requests of a dead primary that are still worked on, gaps in the log, and an id that is
never assigned (assignment 2); notifications outside the mutex, spurious
wake-ups, the case of no experts, and descriptor numbers that are closed twice
(assignment 1). On every connection: partial
receives, and the other end closing or dying between any two
steps. `PROJECT.json` lists the hazards at their lines.

What makes each component correct:

- server: serializable transactions, no lost update, an answer for everybody,
  aborts only for a reason;
- TM and RMs: each RM applies a prefix of the TM's decisions in the TM's order,
  all RMs or none for each bundle, a decision that follows from the votes;
- replicated factory: logs agree, an operation is applied only after it was
  replicated, records are the replay of the log, a robot that was made is on
  record, also after the primary dies;
- connections: a caller gets the result of its own call, each call is served at
  most once, nothing of one call is left over for the next, and neither end is
  taken down by the other's death;
- client programs: totals and reports agree with what the servers hold;
- expert factory: each special order gets one expert and each engineer its own,
  and nobody sleeps through a notification.

## 2. Plan

In the order of the work, all done:

1. `TxServer`, its abstract specification `AtomicBids`, proofs in
   `TxServerProofs`;
2. `TwoPhase`;
3. `FactoryReplication`, and its abstract specification `OneLog`;
4. `ExpertPool`, proofs in `ExpertPoolProofs`;
5. `Wire`, `BidMessages`, `FactoryMessages`, `ExpertMessages`: messages to bytes
   and back; `Stubs`: the frames of each call; `Connection`: both ends of a
   connection, and its abstract specification `Calls`;
6. `ClientProgram` and `TwoPhaseProgram`: the whole client programs around the
   servers, with the reports of request type 3;
7. `TwoPhaseProofs`: every safety property of `TwoPhase`;
8. in `TxServerProofs`, that aborts are by another customer, and that `TxServer`
   implements `AtomicBids`; `ClientProgramProofs`: what the report and the totals
   print, and that the programs run out of steps;
9. `FactoryReplicationProofs`: every safety property of `FactoryReplication`, and
   that it implements `OneLog`, under a hypothesis about ids and faults; types and
   indices without it;
10. in `TwoPhaseProofs`, the client programs too: how stale a report row can be, that
    totals are decisions, that nobody waits in vain and that the programs run out of
    steps; `SumTheorems` for the sums in these and in 8;
11. `StubsProofs`: that `Unmarshal` inverts `Marshal` for every message;
12. `ConnectionProofs`: every safety property of `Connection`, and that it
    implements `Calls`.

Left open, a proof:

13. what a factory's admin and its threads keep between them when an old primary's request
    is still worked on (the state behind `factory_stale_request`), beyond the indices.

Which module composes which:

    AtomicBids <= TxServer <- ClientProgram            (<= implemented by,
                  TwoPhase <- TwoPhaseProgram           <- extended by)
    OneLog     <= FactoryReplication
    Calls      <= Connection -> Stubs -> BidMessages, FactoryMessages,
                                         ExpertMessages -> Wire
                  ExpertPool

## 3. The modules

Operators marked "Mutant" are variants with a plausible bug. They are not part
of a specification; each shows that one property would notice the bug. In every
module `Finished` is a stuttering step in the final states, so that TLC's
deadlock check stays on everywhere.

### TxServer and AtomicBids

A customer is `bidding` (making its reads) or `waiting` (blocked in `SendTX`);
its worker is part of it, since one is blocked while the other runs. `tx[c]` is
the transaction: per read the robot, and the bid and version as read. The write
that goes with a read is the bid plus one and the customer's id, so it is derived
from the read (`NewEntry`). Because the customer is blocked the queue can hold
customers instead of copies of transactions.

| action | code |
|---|---|
| `SendRead` | one turn of the read loop, `ClientThread.cpp:36-57`, with the worker's locked copy, `ServerThread.cpp:56-68` (`ReadEntry`) |
| `SendToTXThread` | `ServerThread.cpp:15-32` up to `fut.get()` |
| `ReceiveDecision` | the future is ready, the worker replies, the customer counts, `ClientThread.cpp:61-69` |
| `TakeRequest` | `ServerThread.cpp:86-98` |
| `ValidateCommit`, `ValidateAbort` | lines 102-114 and the two branches |
| `WriteEntry` | one turn of lines 118-130 |
| `SetCommitted` | line 131 |

A thread whose stub cannot connect returns at once (`ClientThread.cpp:21-24`), so
it is a customer with no requests: `NumReqs[c]` is 0. The theorems are about any
numbers; the run of the server has such a customer.

Validation takes the lock once per read, but only the TX thread writes, so it is
one step; the writes are one step each because customers read in between. `won`
is a history variable.

`AtomicBids` is what the server promises: transactions decided one at a time in
the order of the queue, the n-th one raising the bids of its bundle by one, all
at once and with version n, or changing nothing, which needs a robot that
somebody else has won. `TxServer` implements it with a transaction taking effect
when it is validated: `Store` is the table with the writes still to come.

### ClientProgram

The client program around `TxServer`: `Spawn`, `Join` (in the order of the ids,
each only after its thread has returned) and `PrintStats` are `ClientMain.cpp`'s
main thread; `ReportRow` is the program of request type 3 (`ClientThread.cpp:71-84`),
started after the first has printed its totals. That program compares the number
of the request, not the robot, with the end of its range; `ReportAssumption` says
which arguments keep it inside the table. `StepsLeft` is how many steps the two
programs and the server have before them; `RunsOut` says that every step of any
thread makes it less.

### TwoPhase

Customers as above, but reads go to the RM whose window holds the robot. `tm`
follows the TM's TX thread: `connect` (one RM of the list per step, `tmi` the next;
it goes on with those that accept), `idle`, then per RM `prepare` (send) and
`vote` (receive), the decision, then per RM `finish` (send) and `ack` (receive).
`toRM[r]` carries whole requests, since the RM reads an identifier and the body
that belongs to it. `fromRM[r]` carries words: the RM sends `TM_RM_IDENTIFY` and
its decision for a PREPARE and `COMPLETE_SIG` for a COMMIT_ABORT, and the TM takes
one word for each. At the RM the worker of the TM's connection and the TX thread
take turns, so they are one process. Customers draw robots from `RangeStart` to
`RangeEnd`, and each may have its own number of transactions (`NumReqs`), since
client programs may differ in it and a customer that cannot connect to the TM or to an
RM returns with none (`2PCClientThread.cpp:24-27`, `32-35`). The history variables are `ledger`
(decisions of the TM), `votes`, `heard` (words taken for votes) and `applied`.

### TwoPhaseProgram

Two programs around `TwoPhase`. The bidding one is as in `ClientProgram`; its
threads are created in one step, since a thread that is created late is one that
takes its first step late. The other has request type 3 and runs at any time,
also while the RMs still apply decisions: `ReportRow` is one turn of the inner
loop of `2PCClientThread.cpp:97-113`, `rmc` the place in the list of RMs, which
only moves on. `StepsLeft` and `RunsOut` are as in `ClientProgram`, with a part
for each thread of each process.

### FactoryReplication

One admin thread per factory (`admin[f]`), and for each primary `f` that has
connected to factory `g` a thread of `g` (`ifa[g][f]`). The engineer of a
customer is part of the customer. Client programs run one after the other, each
against one factory (`target`), as the assignment text requires of them; which
factory, and how many orders per customer, is chosen when a program starts.

| action | code in `ServerThread.cpp` |
|---|---|
| `Order` | the engineer receives an order and queues an admin request |
| `StayPrimary`, `TakeOver`, `BecomePrimary` | lines 189-197: the test for the primary, the commit of the old primary's last entry, the new `primary_id` |
| `TakeRequest` | lines 199-219: connect to the peers once, take the request from `arq` |
| `AppendLog`, `AppendFault` | lines 222-238: the entry is appended or overwrites the last one, the request is put together |
| `SendReplicationRequest`, `ReceiveReply`, `PeerFails` | the loop over the peers, lines 240-257 |
| `Commit` | `updateCusRecord`, lines 165-178, and the promise of the engineer, line 261 |
| `ReceiveReplicationRequest` | lines 105-113: an invalid request ends the thread; `primary_id` is set |
| `WriteLog`, `GapFault` | gap filling and insertion under the lock, lines 114-133 |
| `SetLastIndex`, `ApplyCommitted` | lines 134-154, after the unlock, and the reply |

The `vector` operations are modelled by what they do: `insert` shifts what is
behind it, the gap loop inserts its dummies from `last_index` on, and the size
difference is unsigned. What the standard leaves undefined is modelled by what
the build does: an access through the null pointer of an empty vector, or an
insertion before its start, ends the process (`up[f]` becomes false); index -1 of
a vector that is not empty is the block header of the heap, a key that is no
customer's (`Entry`). `admin_config.factory_id` is never assigned: `factory_id`
is any function from factories to `GarbageIds`. Factories are fail-stop.

`OneLog` is what the factories promise together: one log, orders added one at a
time, and an order that was answered stays at its index. `FactoryReplication`
implements it with the log of the factory that serves, and the part of it that was
answered, as long as no primary is killed (`factory_switch`).

### ExpertPool

An engineer is identified with its customer, and customers order plain or special
robots throughout (`special`). `engineer[c]` and `expert[x]` are the positions of
the threads. Each critical section is one step; a notification is a step of its
own, since the code notifies after it has released the mutex. "asleep" is waiting
on the condition variable, and `Spurious` lets a wait return without a
notification. The pool is any subset of `Experts`, the empty one included.

| action | code in `ServerThread.cpp`, `ServerMain.cpp` |
|---|---|
| `ReceiveOrder`, `Refuse` | an order arrives; with an empty pool an error and a closed connection |
| `PushRequest`, `NotifyExpert` | push under `que_mtx`, then `expert_cv.notify_one` |
| `LookUp` | under `map_mtx`: sleep on `engineer_cv`, or read and erase the entry |
| `ShipRobot` | the robot with a copy of the order and the expert's id |
| `TakeRequest` | under `que_mtx`: sleep on `expert_cv`, or `front` and `pop` |
| `AssignExpert`, `NotifyEngineers` | `map::insert` under `map_mtx`, then `engineer_cv.notify_all` |

`worker` is a history variable: the expert that took the current order.

### Wire, BidMessages, FactoryMessages, ExpertMessages, Stubs

Pure definitions. `Wire` has `htonl`, `ntohl` and buffers of bytes; the message
modules have, per class, the default object, `Marshal` as the sequence of fields
in the order written, `Unmarshal` by the positions read, and `IsValid`. `Stubs`
says which frames each function of a stub sends and what it returns, what a
server's `Receive...` makes of a buffer and which bytes its replies are. What is
read at which offset is thus checked against what is written there whenever
`Connection` makes a call.

### Connection and Calls

One connection of any kind (`link`) from the start of both programs to the end of
both threads. `pc.caller` is the customer thread, or the admin thread of a
primary; `pc.server` the thread that serves it: the frame it waits for, or
"reply". `wire[e]` holds bytes sent to end `e`, `buffer[e]` what a `Recv` has got
so far; each turn of the loop in `Socket::Recv` takes any number of them. `peer[e]`
is what the kernel of `e` knows of the other end; it decides whether a send goes
through, is lost and answered with a reset, fails, or raises SIGPIPE.

| action | code |
|---|---|
| `Listen`, `ListenFails`, `Accept` | `ServerSocket::Init`, `Accept` and the loop of the `main` functions |
| `Connect`, `Refused` | `ClientSocket::Init`, `FactorySocket::Init`; nobody tries again |
| `SendHello`, `Identify` | `SendIdentifyMessage`, whose failure shows only in the first call, and the switch at the start of assignment 2's `EngineerThread` |
| `Ask`, `AskFails`, `BrokenPipe` | the stub's function up to its `Send` |
| `CallerRecv`, `CallFails`, `Answer` | its `Recv`, and what it returns |
| `Leave` | the thread ends, or a primary is returned an index that is not its last, and the stub's socket is closed |
| `ServerRecv` | `Recv` of the frame that is due |
| `ReadIdentify`, `ServeRead`, `ServeTX` | `WokerThread` of assignment 3's server, TM and RM |
| `ServeRequest`, `ServeReplica` | the two loops of assignment 2's `EngineerThread` |
| `EngineerServes` | assignment 1's `process_orders` |
| `Reply` | the stub's `Send`, whose result is ignored |
| `ResetArrives`, `Killed` | the kernel; a process of assignment 2 is killed, or the connection of a customer of assignment 1 ends with its program (`MayEnd`) |

When `Recv` fails, a thread goes by the default object of the message it waited
for, as in the code, which is why the defaults are part of the model. What a call
does on the server is left open: any result of its type (a backup returns its own
`last_index`, which need not be that of the request). A server that dies before it accepts
resets the connection and never closes it (`ClosedAs`).

A customer of assignment 1 closes its descriptor number in `disconnect()`
(`ClientMain.cpp:47`) and again when its stub is destroyed
(`ClientSocket.cpp:32-34`). If the main thread makes the next customer's socket in
between, that socket gets the number and the second close closes it; the next
`connect`, `send` or `recv` on it fails and ends the whole program with `exit(1)`
(`ClientSocket.cpp:36-64`), and so the connections of all its customers. `Connection`
has one connection and not the table of descriptors, so on `customer_engineer` the
caller may end at any point: more often than the program can, and the server's side
must cope all the same.

`Calls` is the promise: one call at a time, served at most once, answered with its
own result; the last one may stay unanswered when the connection ends, served or not.

### MC modules

`MCTxServer`, `MCTwoPhase`, `MCTwoPhaseProgram`, `MCFactory`, `MCExpertPool` and
`MCConnection` extend these modules and define the constants that a configuration
cannot write down.

## 4. The runs

| run | instance | states | what it shows |
|---|---|---|---|
| `server` | 2 customers, 2 transactions of 3 reads each, and one that cannot connect; robots 1 and 2 of a table of 3; then a report of 4 requests with range end 2 | 455 794 | no lost update, justified decisions, no abort by one's own bid, entries only advance; `TxServer` implements `AtomicBids`; everybody is served; printed totals and the report agree with the table |
| `two_phase_races` | 2 customers, one with 4 transactions and one with 1, of 1 read; 2 RMs of one robot | 4 017 456 | tables are prefixes of the decisions; which word is taken for which decision, and hence which transactions can abort; the TM's lead; the words left unread; nobody waits for what never comes |
| `two_phase_programs` | 2 customers, a transaction of 2 reads each, and one that cannot connect; RM windows 1..2 and 3..3, the second RM maybe not reached; customers' range 2..3; a report of robots 1 to 3 | 449 240 | how stale a row of a report can be; totals are the TM's decisions; the programs end with every decision applied at each connected RM, for good |
| `two_phase_lost_update` | 2 customers, 1 transaction each | | violation: two customers that read the same bid both commit |
| `factory_switch` | 3 factories, 2 of them serve, the third may die; 2 customers of 1 order, 3 programs | 324 524 | logs agree, what is applied is replicated, records are the replay of the log, backups one behind, robots made are recorded, commits only advance; the factories implement `OneLog` |
| `factory_crash` | 3 factories, the 2 that serve may die; 1 customer of up to 2 orders, 2 programs; ids that make requests invalid | 331 208 | inserts, overwrites and applies are within the log; no order stays unanswered |
| `factory_id_unset` | factories 0 and 1, 3 programs | | violation: a factory leads with an entry uncommitted |
| `factory_stale_request` | factories 1 and 2, the first may die | | violation: a robot is made that is not on record |
| `experts` | 2 customers, 2 orders, 0 to 2 experts | 33 479 | no request lost or served twice, no lost wake-up, each robot with its own expert, everybody served |
| `experts_none` | 1 customer, 1 order, no expert possible | | violation: the engineer never ends |
| `connection` | each of 6 kinds of connection, up to 2 calls of each kind; fields of one to four bytes, negative ones and both limits of int; factories killed at any point, programs of assignment 1's customers ending at any point | 10 079 | the stubs implement `Calls`; nothing is left over between calls; servers survive their callers and their threads end |
| `connection_broken_pipe` | the 2 kinds of connection of assignment 2 | | violation: a caller is killed by SIGPIPE |

Bounds. `TxServer` and `TwoPhase`: `Clients`, `NumReqs`, `TxSize` and the robots.
Two customers with two transactions each give a transaction that waits behind
another while a third party reads, stale reads after a commit by the other, and
one's own earlier commit; three reads of two robots force a repeated robot. The
customer that cannot connect has an id between theirs, so that a later thread is joined
after it. The
framing of `TwoPhase` has period three, so five transactions see each case, reach
the first that can abort and go on with what it left behind; unequal customers
make one's early read meet the other's third transaction. Channels and queues are not bounded
separately: each customer has one transaction under way. `FactoryReplication`:
`MaxOrders` per customer, `MaxPrograms`; three programs allow a primary, another
one and the first again, and two customers make an admin request wait while
another is replicated; three factories have a peer that got a request and one
that did not when the primary dies. `ExpertPool`: `NumOrders`; two customers and
two experts compete for every notification, and the second order would meet a
map entry left over by the first. `Connection`: `MaxCalls`; two calls are the least
for one to meet what another left, or to be made after the peer died.

In the passing runs of `FactoryReplication` factory ids are not 0, the value the
uninitialized `factory_id` has in the g++ build; `factory_id_unset` shows what
happens otherwise. `factory_switch` lets only the factory die that never leads;
the runs that end in a violation show what a dead primary does to its backups. In
`factory_crash`, where primaries die, `LogsAgree`, `AppliedIsReplicated`,
`RecordIsReplay`, `OneBehind` and `ImplementsOneLog` do not hold, because of
requests that are still worked on after their primary's death; what holds is what
that run checks.

Fairness. Weak fairness of each thread: the main threads, the TX thread, each
customer with its worker, each RM, each admin and connection thread, each engineer
and expert, and both ends of a `Connection`. The
threads are scheduled by the operating system and block only on locks held
briefly, on condition variables, on futures and on TCP, which delivers. Nothing
makes a client program of assignment 2 or a report of two-phase commit start, a
process die, a reset arrive or a spurious wake-up happen, and
nothing stronger than weak fairness is assumed.

## 5. Findings

- `two_phase_lost_update`. `RMStub.cpp:51-61` sends a decision as two words and
  `TMClientStub.cpp:67-71` takes one. From the second reply on the TM reads words
  of earlier replies. `HeardWord` says exactly which: of every three transactions
  two are committed whatever the RMs vote, and the third (number n) is judged by
  the votes on transaction 2n/3. `LagBound` says how far behind an RM can be. What
  still holds is that all RMs apply the same decisions in the same order
  (`ReplicaIsPrefix`); what is lost is the conflict check, and with it updates.
  The standalone server, with the same validation and no framing of this kind,
  is proved free of lost updates.
- `factory_id_unset`. `admin_config.factory_id` is announced to the backups but
  never assigned. A backup whose id happens to be that value takes itself for the
  primary and does not commit the last entry it received before it leads.
- `factory_stale_request`. A request of a primary that died can still be worked
  on by the backup's connection thread while the backup's admin thread takes over.
  It changes the log and `last_index` between the admin's append and its
  `updateCusRecord`, which then applies another entry.
- `connection_broken_pipe`. `Socket::Send` calls `send` without `MSG_NOSIGNAL` and
  nobody handles SIGPIPE. A customer whose factory dies between two calls, or a
  primary whose backup does, is killed by its second send, where the assignment
  text wants both to go on. In the run the first send is that of the first message and the
  second that of the first call. Servers are safe (`ServerSurvives`) for a reason worth
  knowing: they send once per request, so they hear of the end in `Recv` first.
- `experts_none`. Without experts an engineer closes its connection and then goes
  on to queue the order and to wait for an expert.

In a backup, `vector::insert` at the position of a request moves an entry it has
already, and the loop that fills gaps moves the last entry likewise, so that after
a crash of a primary the log may be longer than `last_index` says
(`ServerThread.cpp:120-130`). `IndexInLog` shows that inserts and overwrites stay within
the log, and so does applying an entry for a request that commits no more than it
brings. There are other requests, but it takes five factories and four programs that die one
by one. Take e, f, g, h, k, called in this order. g's thread for h has inserted h's
second entry and not yet set `last_index` to 1 when h is killed; e serves and sends its entry 2
to f only; f takes over and sends entry 3 to g, where a second thread waits for its
turn; g takes over with `last_index` 0, overwrites entry 0, and sends. Now the thread for f
fills the gap up to 3, g commits 3, and the thread for h sets `last_index` back
to 1. g's next request says last 1, committed 3, and k applies entry 3 of a log that has
three entries: `smr_log[3]` is past the end of the vector (`ServerThread.cpp:141`). The
model reads a dummy operation there. TLC finds this only when it is led along the path
(three factories have no such behaviour in 26 million states), so there is no run
of it.

`Order`'s copy constructor in assignment 1 copies the customer id into the order
number. It is in both models (`CopyOrder`); no property is about it, as one would only
repeat that line.

## 6. The proofs

Eight modules hold proofs, each about the module it is named after, except `SumTheorems`
about sums; `TwoPhaseProofs` is also about `TwoPhaseProgram`. All of them but
`StubsProofs` and `SumTheorems` have the same form: one inductive invariant `IInv` (for the
client programs more beside it), one lemma per action or per
action and conjunct, `Invariance`, and from it the theorems, with PTL only in the
last steps.

Every invariant that a run checks is proved. Four theorems state the safety core of the
liveness properties: `NobodyIsForgotten` and `NobodyInVain`, that whoever waits waits for
something that is under way, and the two `ProgramRunsOut`, that the threads together
have a bounded number of steps. What is left of `AllServed` and `AllApplied` to
TLC is that some thread can step until the end and, by weak fairness, does. `NoneForgotten`
and the two `RunsOut` hold on the instances of `server` and `two_phase_programs` too, which
check the liveness itself and do not list them.

`TxServerProofs` proves, for any set of customers, any number of requests, any
table with the customers' range in it and any number of reads per transaction,
`TypeCorrect`, `NoLostUpdates`, `DecisionsJustified` and `EntriesOnlyAdvance`.
The assumptions are those of `TxServer`: the range lies in the table, sizes are
natural numbers, `NoCustomer` is not a customer.

`NoLostUpdate` is not inductive: that a bid equals the number of winners says
nothing about the bids customers still hold. The invariant `IInv` adds

- `QueueInv`: a queued or current customer is blocked, undecided, queued once and
  has a complete transaction -- so its `tx` does not change under the TX thread;
- `ReadInv`: a version that was read is old or current, and if it is current so is
  the bid that was read with it: versions determine bids;
- `VersionInv`: versions are at most `local_version`, and below it until the first
  write -- so a write makes every older read of the entry stale;
- `WriteInv`: in the write loop, robots still to be written are as validated and
  written ones hold exactly this transaction's entry, which also settles bundles
  that name a robot twice.

There is one lemma per action (`SendReadData` to `SetCommittedData`), `NextIInv`
puts them together and the temporal theorems follow with PTL.

`NobodyIsForgotten` proves `NoneForgotten`: a customer that waits without a decision is queued
or in the TX thread's hands. `QueueInv` is the converse, and makes it inductive: a decision
is set for the current customer only, so nobody else is dropped when the TX thread
goes back to the queue.

`AbortsAreByAnother` needs one more invariant, `OwnInv`: as long as a transaction
is undecided, an entry that has changed since it was read is another customer's.
A customer's own writes are done before its next read, since `SetCommitted` comes
after the last of them.

`ServesInOrder` is the refinement `Spec => Atomic!AtomicSpec`, without the fairness
of `ServesAtomicBids`. `Store` (the table with the writes still to come), `Queue`,
`Clock` and `Outcome` are the refinement mapping; `ValidateCommit` is
`Atomic!Win`, `ValidateAbort` is `Atomic!Lose` (this is where `OwnInv` is needed: a
transaction is only lost to somebody else), `SendToTXThread` is `Submit`,
`ReceiveDecision` is `Answer`, and `SendRead`, `TakeRequest`, `WriteEntry` and
`SetCommitted` change nothing of it. For `WriteEntry` that says that one entry moves from "to come" to
the table, also when the bundle names a robot twice.

`ClientProgramProofs` proves `ReportsAreFinal`. `ProgramIsServer` says that the
program's behaviours are the server's, so that all of `TxServerProofs` holds of
them. `ReturnInv` says that a customer that has made its requests has no
transaction begun, `MainInv` how far the main thread is. Once it has printed, all
customers have returned, the queue is empty and the TX thread idle
(`Quiet`), so the table changes no more while the second program reads it.

`StatsMatch` is what the printed totals say of the table: the version is the number of
requests, and the bids lie between the commits and `TxSize` times as many. Before the end the customers
have not counted all that the TX thread has done, so `CountInv` counts a request for
its customer once the TX thread has taken it (`TakenOf`), and a commit once it is
validated (`ValidatedOf`); `won` is raised by at least one and at most `TxSize` entries in
the same step. `ProgramRunsOut` proves `RunsOut`: a transaction has `TXSteps` steps,
`StepsMade` says which of them the customer is at, and every action of a thread
makes exactly one. What the theorem rules out is a transaction that is taken, validated or
written more often than once.

`SumTheorems` has what these proofs and the next ones need of sums. `SumFunctionOnSet` is a recursion on
the set, and the library's induction theorems cannot be instantiated here, so
`SubsetInduction` states induction over the subsets of a finite set with the set of
those for which a fact holds. From it follow that the recursion
has a solution (`SumExists`) and hence what it is defined to be (`SumEquations`), that an element
can be taken out (`SumRemove`), and from this, order, addition, constants, the
change at one element (`SumUpdate`) and counting (`SumCounts`).

`TwoPhaseProofs` proves, for any customers, any list of RMs (some of which may
not accept the TM's connection), any windows and any number of requests per customer and reads per
transaction, `TypeCorrect`, `WordsHeard`, `VotesLost`, `LagBounded`, `WordsLeft` and
`ReplicasArePrefixes`. The assumptions are those of `TwoPhase`: windows do not
overlap, the TM's list names no RM twice, customers' robots are robots.

None of these is inductive. The invariant counts, per connection, what each end
has done, and says what is under way:

- `PipeInv`: `toRM` holds the requests `RequestsTaken(r) + 1` to `RequestsSent(i)`, the
  m-th of which is known from the TM's history (`Request`); `fromRM` holds the words
  `WordsRead(i) + 1` to `WordsSent(r)`, the m-th of which is known from the RM's
  (`Word`: identifier, vote, signal). `heard` is what `Word` says. Neither end waits for
  what the other has not sent, so the TM's lead follows by arithmetic (`LagBounded`,
  `WordsLeft`), and with period three the word taken for a decision (`WordsHeard`);
- `DecisionInv`: a decision is a commit if no word heard for it is -1, which with
  `WordsHeard` is `VotesLost`;
- `TableInv`: the table of an RM is `EntryAfter(ledger, rid, n)`, the entry after the
  first `n = applied[r]` decisions, and in the write loop the first `widx[r] - 1`
  reads are already as after the next (`WritingInv`);
- `QueueInv`, `ConnectInv`, `TMInv`, `UnreachedInv`: the transaction in the TM's hands does not
  change under it, the TM has one connection to an RM at most, its counters agree with the
  history, and an RM that was not reached has done nothing.

`EntryAfter` names the last decision that wrote a robot and the last read in it by
`Latest`, the greatest element of a set of numbers, so nothing is defined by
recursion; `LatestIs` and `LeastExists` rest on the well-foundedness of `<`.

`NobodyInVain` proves `NobodyWaitsInVain`. For the TM it is arithmetic on `PipeInv`: while it
waits on a connection it has sent one request more than it has read words, so
an RM that has nothing to take or to finish has sent a word it has not read. For the workers it is
`Remembered`, as in `TxServerProofs`.

The module then turns to `TwoPhaseProgram`, and proves `RowsFresh`. `ProgramStep` says that a step of the
programs is one of `TwoPhase` or leaves it alone, so `IInv` holds; `RowInWindow`, that
a row is of a robot of the RM that is asked. `EntryNoOlder` says what an RM holds
for a robot at any time, also between two writes of a commit: what some decision of the
TM wrote, and nothing older than the decisions it has applied. How many those are is
`PipeInv` again, with the thirds rounded up (`ThirdsApplied`).

`TotalsMatch` rests on `DecidedInv`: the commits that customers have counted or hold as a
promise are as many as the commits in the TM's history, and so with aborts. When
all have returned there is no promise left (`ReturnInv`), and `MainInv` says that nobody
prints before. `ProgramRunsOut` proves `RunsOut`, with one part of `StepsLeft` for the customers,
the RMs, the TM, the main thread and the report. Each action lowers
one part and leaves the others alone, but for none to fall below zero counts of
the whole system are needed: the TM takes no more requests than customers have (`RequestsBounded`), it
asks each RM twice for each of them, and an RM works on what it was asked only
(`VotesBounded`, from `PipeInv`).

`FactoryReplicationProofs` first proves `TypesAndIndices`, with `TypeCorrect` and
`IndicesAreInLog` as its consequences, whichever factories are killed and whatever `factory_id`
holds. The invariant `Typed` beside the types is `QueueInv` (only the target of the running
program has work; who is queued or in the admin's hands waits, and is there once),
`RequestInv` (a request that was sent brings an entry) and `IndexInv` (`last_index` is within the
log, and so is the index that a thread has written at and will make the last). The types need
them: an order's number is positive because its customer waits, and a log stays a
sequence of operations because `WriteLog` inserts within what it has filled (`WriteLogStep`,
`InsertedFacts`) and `AppendLog` overwrites within the log (`AppendLogStep`).

The module then proves, for any number of factories, customers, orders and programs, every other
safety property of `FactoryReplication` and that it implements `OneLog`, under the
hypothesis `Orderly`, which the theorems name:

1. what the uninitialized `factory_id` holds is not -1 and no factory's id;
2. a factory that serves customers is not killed (it may still be ended by SIGPIPE
   when it calls a backup that was);
3. a factory that may be killed is the one that is called last.

The runs show why each is needed. `factory_id_unset` violates the first and
`factory_stale_request` the second. As for the third, take four factories that are called in
the order 1, 2, 3, 4, where 1 and 2 serve and 3 may be killed. Primary 1 appends
an entry, sends it to 2, and is ended by SIGPIPE at 3, so that 4 never hears of it. 2
takes over and sends its next entry to 4, which sees a gap and fills it, but at the position
of its last entry, which moves up: the logs differ for good. TLC finds this in 2
programs. With the killed factory last everybody alive has been called
when the primary dies. `Orderly` is satisfied by `factory_switch`, where the deaths
of a backup and of a primary by SIGPIPE both happen.

The invariant adds to `Typed`, in parts:

- `QuotaInv`: nothing is logged before the first program;
- `StubInv`: a primary that has connected is connected to all that live; a target
  that is dead died while replicating, with nobody alive left to call. A stub that
  has sent nothing yet belongs to the entry being replicated, or its peer is dead;
- `CallInv`: at most one backup works on a request at a time, the one the target
  waits for, and the request is the target's last entry;
- `LogInv`: a live log is the target's, or lacks exactly the last entry if the
  factory is still to be called or has not stored yet (`Behind`). So the gap filler, the
  overwrite and the faults are never reached (`StoreAppends`, `AppendLogAppends`);
- `CommitInv`: everybody has applied all of his log, but for the last entry if that came from
  a primary; whether it did shows in `primary_id` (`Leads`). It is what makes `TakeOver`
  apply exactly the entry that is missing.

`LogsAgree`, `AppliedIsReplicated` (which has every applied index in every log),
`OneBehind` and `LeaderHasCommitted` follow from `IInv`. For `RecordIsReplay` and `MadeIsRecorded`
`NextApplies` lists the only steps that apply something, and `RecordInv` and
`MadeInv` are inductive beside `IInv`: `IsReplay` says of a record, without recursion, that it is the
last order of the customer among the first n entries, and `ReplayStep` that applying
entry n again, or for the first time, leaves it so. `CommitsNeverRecede` is an action
property from `NextApplies`. In `FactoriesAreOneLog` `AppendLog` is `Add`, `Commit` is
`Acknowledge`, and a program that starts at another factory after the last one died acknowledges
what that one left; all else stutters. `OneLog`'s `Lose` is never needed under
`Orderly`.

`TypeOK` of `FactoryReplication` bounds an index by nothing but -1 from below: that
a log is no longer than the orders placed is not proved.

`ExpertPoolProofs` proves, for any customers, any set of experts, any pool chosen
from it and any number of orders, `TypeCorrect`, `OneRequestPerEngineer`,
`NoLostExpertWakeup`, `NoLostEngineerWakeup` and `ExpertIsOwn`. The assumptions
are those of `ExpertPool`: `NoExpert` is no expert's id, customers and the number
of orders are natural numbers. The two statements about wake-ups are inductive
with the types; the others need more.

- `OneRequestEach` needs `JobInv` (an expert at work has a customer, so that the
  map entry it is about to make is somebody's), and the facts `PushQueued` and
  `TakeQueued` about who is in the queue after a push and a pop.
- `OwnExpert` compares the shipped robot with the expert that took the request.
  `AssignedInv` carries the expert's id through the map, `ShipInv` from the map
  to the engineer, and `SpecialInv` keeps engineers of plain robots out of the
  queue. `OneRequestEach` is what makes each of them hold: `map::insert` would
  not replace an entry left over by an earlier order.

`StubsProofs` proves `RequestsArrive` and `RepliesArrive`: for every message of every
class, with fields of any 32-bit value, the receiver's `Unmarshal` returns what the sender's
`Marshal` was given, the frame is as long as the receiver waits for, and a
request of assignment 3 is two frames, cut where they were joined. `htonl` and
`ntohl` are shown to be inverse from arithmetic alone (`Wire` has the four bytes of an
int as quotients); then the bytes of a sequence of ints are four per int (`Bytes`),
`Ints` reads them back, and each class has its own positions.

`ConnectionProofs` proves, for every kind of connection, any calls that the programs make on it
(`ConnectionAssumption`: `CallsOn` is within `CallsFor`), any number of them, results of any
value and every way of `recv` to cut the bytes, `TypeCorrect`, `NothingIsLeftOver`,
`ServersSurvive` and `ConnectionsAreCalls`. `Inbox(e)` is what was sent to end `e` and is not
made a message of yet, in its buffer or on the wire, so that a `recv` does not change it
(`RecvKeeps`). The invariant says what an inbox holds:

- `RequestInv`: the server's holds exactly the request of the call that is not served
  (`Pending`), after the first message of a factory's connection or without the
  frame that identifies it, by where the server thread is;
- `ReplyInv`: the caller's holds exactly the reply with the result of its own call, from the
  send until the caller has taken it, or nothing;
- `CountInv` and `HistoryInv`: at most one call is served and not answered, and one
  asked and not served; results are the own ones;
- `PeerInv`: who is told that the other end closed is told the truth (and a caller that
  closed but goes on is one whose first message failed); and a caller that
  closed with bytes unread has no call that is not served. That is why a server thread that is
  to send has never been sent a reset: a reset answers data sent to a closed end, the thread sends
  one reply per request, and there is no further request. So `ReplyUnsent` is
  never enabled and SIGPIPE never raised at a server.

With the inboxes known, `StubsProofs` says what a thread makes of a whole frame: the
`...Does` lemmas reduce the server's loops to "takes the greeting", "takes the
identifying frame", "serves the call" and "ends", and `AnswerIs` says that what the stub
returns is the result. In `ConnectionsAreCalls`, the safety part of
`ImplementsCalls`, `Ask` is `Ask`, a served call is `Serve`, `Answer` is
`Answer`, and a caller that leaves, is refused, is told of the end or is
killed is `End`; all else stutters.

Only model-checked, and why:

- liveness: `AllServed`, `AllApplied`, `OrdersAnswered`, `AllShipped` and `ThreadEnds`. The
  prover has no ENABLED;
- the fairness in `ServesAtomicBids` and `ImplementsCalls`, whose safety is proved
  (`ServesInOrder`, `ConnectionsAreCalls`).

Of `FactoryReplication` with primaries that are killed no more is proved than types and
indices; what else holds there is not stated yet.

## 7. Not modelled

- Assignment 3: processes that fail once they run (the assignment text rules them
  out; the stubs then return uninitialized values), full socket buffers
  (`UnreadWords` says how fast they fill), robots outside the table (the server
  indexes with the robot id and does not use `kv_base`) or in a gap between the
  windows of RMs, durations and printing. The three robots of a transaction are
  drawn independently, as in the code; the assignment text wants three different
  ones, and the models have the repetitions.
- Assignment 2: a factory that starts again and its return to the peers, client
  programs that overlap, the value of a record that is read, timers.
  `FactoryStub::identified`, which is read before it is assigned, is taken as
  false: that is what the g++ build reads, since the stubs are allocated from
  memory the admin thread has not used before, also when a connection failed. A
  backup's thread that ends does not reset `primary_id`, in the code as in the
  model.
- Assignments 2 and 3: after a failed send or receive `Socket::Close` leaves a
  descriptor number behind, which `Connection` takes to be still free when the stub is
  called once more. Another thread's socket may have been given it.
- Assignment 1: a descriptor number that is closed twice can end another customer's
  connection, which is modelled (see `Connection`). It can also become a third
  customer's before the victim's next call. Then two customers send and receive on one
  connection, each takes the next robot whoever ordered it, and one may wait for a
  robot that is gone. `ServerStub` closes its number twice too when there are no
  experts. Who shares a number with whom is not modelled.
- Assignment 1 also: the client's statistics, and a `recv` that returns part of a frame
  (the stubs call it once and take what they get for the whole). A customer that
  goes away between two orders looks to its engineer in `ExpertPool` like one that
  has placed all.
- In all of them: a server whose `main` returns because it cannot listen ends with
  its threads; setters, getters and `Print` functions; functions nobody calls.
- The copies of assignment 2, build files, assignment texts and reports. The
  copies differ from the original in white space only.
