---------------------------- MODULE ClientProgram ----------------------------
(***************************************************************************)
(* The whole client program of assignment03 against the server: the main   *)
(* thread spawns a thread per customer, joins them in the order of their   *)
(* ids, adds up what their timers counted and prints the totals.  Then a   *)
(* program with request type 3 prints entries of the table.                *)
(*                                                                         *)
(* Durations are left out; op_count is never printed.                      *)
(***************************************************************************)
EXTENDS TxServer, FiniteSets, Functions

CONSTANTS
  ReportStart, ReportEnd,  \* [range start] [range end] of the second program
  ReportReqs               \* its [# req]

num_customers == Cardinality(Clients)
ASSUME CustomersAssumption == IsFiniteSet(Clients) /\ Clients = 0 .. num_customers - 1

\* The second program compares the number of the request, not the robot, with
\* the end of its range; what it reads must lie in the table.
ASSUME ReportAssumption ==
  /\ ReportStart \in Nat /\ ReportEnd \in Nat /\ ReportReqs \in Nat
  /\ \A i \in 0 .. ReportReqs - 1 : i <= ReportEnd => ReportStart + i \in Slots

VARIABLES
  spawned,    \* customer threads created
  joined,     \* and those joined
  printed,    \* the totals printed, <<>> before
  row,        \* requests that the second program has made
  report      \* the lines it has printed

programVars == <<spawned, joined, printed, row, report>>
allVars == <<vars, programVars>>

ProgramInit ==
  /\ Init
  /\ spawned = 0 /\ joined = 0
  /\ printed = <<>>
  /\ row = 0 /\ report = <<>>

Spawn ==
  /\ spawned < num_customers
  /\ spawned' = spawned + 1
  /\ UNCHANGED <<vars, joined, printed, row, report>>

\* Thread c has returned from ThreadBody (one that cannot connect, at once).
Returned(c) == commits[c] + aborts[c] = NumReqs[c]

\* Mutant: the thread is not waited for.
JoinNotWaiting ==
  /\ spawned = num_customers /\ joined < num_customers
  /\ joined' = joined + 1
  /\ UNCHANGED <<vars, spawned, printed, row, report>>
Join ==
  /\ spawned = num_customers /\ joined < num_customers
  /\ Returned(joined)
  /\ joined' = joined + 1
  /\ UNCHANGED <<vars, spawned, printed, row, report>>

\* Merge of every thread's timer, then PrintStats.
Total(count) == SumFunctionOnSet(count, Clients)
PrintStats ==
  /\ joined = num_customers /\ printed = <<>>
  /\ printed' = <<Total(commits), Total(aborts)>>
  /\ UNCHANGED <<vars, spawned, joined, row, report>>

\* A request of the second program, or none if its number is too high.
ReportRow ==
  /\ printed # <<>> /\ row < ReportReqs
  /\ report' = IF row <= ReportEnd
               THEN Append(report, [rid |-> ReportStart + row, entry |-> ReadEntry(ReportStart + row)])
               ELSE report
  /\ row' = row + 1
  /\ UNCHANGED <<vars, spawned, joined, printed>>

MainThread == Spawn \/ Join \/ PrintStats \/ ReportRow

Customer(c) == c < spawned /\ ClientThread(c) /\ UNCHANGED programVars
Server == TXThread /\ UNCHANGED programVars

Ended == row = ReportReqs /\ printed # <<>> /\ UNCHANGED allVars

ProgramNext == MainThread \/ Server \/ (\E c \in Clients : Customer(c)) \/ Ended

\* All threads run; the second program is started some time.
ProgramSpec ==
  /\ ProgramInit /\ [][ProgramNext]_allVars
  /\ WF_allVars(MainThread) /\ WF_allVars(Server)
  /\ \A c \in Clients : WF_allVars(Customer(c))

-----------------------------------------------------------------------------
(* Properties. *)

AllRequests == SumFunctionOnSet(NumReqs, Clients)

\* The printed totals are the server's: every transaction it took is counted
\* once, by the customer that sent it, and the committed ones are those that
\* raised bids (each raises one to TxSize of them).
StatsMatchTable ==
  printed # <<>> =>
    LET bids == SumFunctionOnSet([s \in Slots |-> kv_table[s].bid], Slots)
    IN  /\ printed[1] + printed[2] = local_version
        /\ local_version = AllRequests
        /\ printed[1] <= bids /\ bids <= TxSize * printed[1]

\* Steps of a transaction: the reads, the request, its being taken, its
\* validation, the writes, the promise, the answer.
TXSteps == 2 * TxSize + 5

\* Steps of c's transaction so far, and all steps made for c.
StepsNow(c) ==
  CASE pc[c] = "bidding" -> Len(tx[c])
    [] pc[c] = "waiting" /\ decision[c] # 0 -> TXSteps - 1
    [] pc[c] = "waiting" /\ decision[c] = 0 ->
         TxSize + 1 + (IF txthread # "idle" /\ cur = c
                       THEN 1 + (IF txthread = "writing" THEN widx ELSE 0) ELSE 0)
StepsMade(c) == (commits[c] + aborts[c]) * TXSteps + StepsNow(c)

\* Steps left to make for c.
CustomerLeft(c) == NumReqs[c] * TXSteps - StepsMade(c)

StepsLeft ==
  SumFunctionOnSet([c \in Clients |-> CustomerLeft(c)], Clients)
  + (num_customers - spawned) + (num_customers - joined)
  + (IF printed = <<>> THEN 1 ELSE 0) + (ReportReqs - row)

\* Every step of any thread brings the programs nearer to their end, so that
\* none goes on for ever: each transaction is answered after a bounded number
\* of steps, whatever it has to wait for and however often validation fails.
RunsOut == [][StepsLeft' >= 0 /\ StepsLeft' < StepsLeft]_allVars

\* The report of a program started after the bidding is the final table: a
\* bid printed for a robot counts the committed transactions that bid on it,
\* whichever thread of the server wrote or served them.
ReportIsFinal ==
  \A i \in DOMAIN report :
    /\ report[i].entry = kv_table[report[i].rid]
    /\ report[i].entry.bid = won[report[i].rid]
=============================================================================
