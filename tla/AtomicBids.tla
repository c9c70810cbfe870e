----------------------------- MODULE AtomicBids -----------------------------
(***************************************************************************)
(* What the transactional server promises, with no threads, reads or       *)
(* versions to validate: transactions are decided one at a time, in the    *)
(* order they were queued, and the n-th one decided either raises the bids *)
(* of its robots by one, all at once, or changes nothing.                  *)
(***************************************************************************)
EXTENDS Integers, Sequences

CONSTANTS Customers, RobotIds, MaxBundle

VARIABLES
  store,    \* current bid, leading customer and version of each robot
  queue,    \* customers whose transactions are not yet decided
  clock,    \* transactions decided so far
  outcome   \* what was decided for each customer's transaction

bidVars == <<store, queue, clock, outcome>>

Unbid == [bid |-> 0, customer_id |-> -1, version |-> 0]

Open ==
  /\ store = [r \in RobotIds |-> Unbid]
  /\ queue = <<>>
  /\ clock = 0
  /\ outcome = [c \in Customers |-> "none"]

Submit(c) ==
  /\ outcome[c] = "none"
  /\ queue' = Append(queue, c)
  /\ outcome' = [outcome EXCEPT ![c] = "pending"]
  /\ UNCHANGED <<store, clock>>

\* A bundle of at least one and at most MaxBundle robots wins.
Win(bundle) ==
  /\ queue # <<>>
  /\ store' = [r \in RobotIds |->
                 IF r \in bundle
                 THEN [bid |-> store[r].bid + 1, customer_id |-> Head(queue),
                       version |-> clock + 1]
                 ELSE store[r]]
  /\ outcome' = [outcome EXCEPT ![Head(queue)] = "won"]
  /\ queue' = Tail(queue)
  /\ clock' = clock + 1

\* Losing needs a reason: some robot has been won, by another customer.
Lose ==
  /\ queue # <<>>
  /\ \E r \in RobotIds : store[r].version > 0 /\ store[r].customer_id # Head(queue)
  /\ outcome' = [outcome EXCEPT ![Head(queue)] = "lost"]
  /\ queue' = Tail(queue)
  /\ clock' = clock + 1
  /\ UNCHANGED store

Answer(c) ==
  /\ outcome[c] \in {"won", "lost"}
  /\ outcome' = [outcome EXCEPT ![c] = "none"]
  /\ UNCHANGED <<store, queue, clock>>

Bundles == {{f[i] : i \in 1 .. MaxBundle} : f \in [1 .. MaxBundle -> RobotIds]}

Decide == Lose \/ \E bundle \in Bundles : Win(bundle)

Step == Decide \/ \E c \in Customers : Submit(c) \/ Answer(c)

AtomicSpec == Open /\ [][Step]_bidVars

\* Whatever is queued is decided, and every decision is announced.
AtomicFairSpec ==
  AtomicSpec /\ WF_bidVars(Decide) /\ \A c \in Customers : WF_bidVars(Answer(c))
=============================================================================
