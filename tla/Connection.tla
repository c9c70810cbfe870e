------------------------------ MODULE Connection ------------------------------
(***************************************************************************)
(* One TCP connection of the three assignments: a thread that calls        *)
(* through a stub and the server thread that serves it, with the bytes in  *)
(* between, processes that are killed (assignment02) and what the kernel   *)
(* then does with the connection.  What a call does on the server is the   *)
(* matter of the other modules; here it has any result of its type.        *)
(*                                                                         *)
(* A blocking send of so few bytes takes them all; a recv returns as many  *)
(* bytes as have arrived.                                                  *)
(***************************************************************************)
EXTENDS Stubs

CONSTANTS
  Links,       \* the kinds of connection to look at
  CallsOn,     \* CallsOn[l]: the calls made on l
  MaxCalls,    \* calls on one connection
  Ids          \* ids, bids, versions and order numbers in results

AllLinks == {"customer_engineer", "customer_server", "customer_rm",
             "customer_tm", "customer_factory", "primary_backup"}

\* The calls that the programs make on a connection.
RequestsOfType(t) == {m \in CustomerRequests : m.request_type = t}
CallsFor(l) ==
  CASE l = "customer_engineer" -> ExpertCalls(Orders)
    [] l = "customer_server" -> ReadCalls(tx_reads) \cup TxCalls(txs)
    [] l = "customer_rm" -> ReadCalls(tx_reads)
    [] l = "customer_tm" -> TxCalls(txs)
    [] l = "customer_factory" -> OrderCalls(RequestsOfType(1)) \cup RecordCalls(RequestsOfType(2))
    [] l = "primary_backup" -> ReplicaCalls(ReplicationRequests)

ASSUME ConnectionAssumption ==
  /\ Links \subseteq AllLinks /\ MaxCalls \in Nat /\ Ids \subseteq Int32
  /\ \A l \in Links : \A call \in CallsOn[l] : call \in CallsFor(l)

VARIABLES
  link,     \* the kind of connection
  pc,       \* where the caller and the server thread are
  buffer,   \* what each of them has received so far of a frame
  wire,     \* wire[e]: bytes sent to e that it has not received
  peer,     \* what e's kernel knows of the other end: "open"; "fin", closed;
            \* "stray", closed and about to answer data with a reset;
            \* "pipe", reset after closed; "reset", reset
  reply,    \* the frame that the server thread is to send
  asked, served, answered  \* as in Calls

history == <<asked, served, answered>>
vars == <<link, pc, buffer, wire, peer, reply, history>>

Ends == {"caller", "server"}
Other(e) == IF e = "caller" THEN "server" ELSE "caller"

\* The assignment with processes that are killed; other servers live.
MayBeKilled == link \in {"customer_factory", "primary_backup"}

\* Customers are threads of programs that live until they are done, but one of
\* assignment01 closes its descriptor twice (see Leave).  The second close may
\* hit the socket that another customer has been given since; the next call on
\* it fails and ends the program, and so the connections of all its customers.
MayEnd(e) == MayBeKilled \/ (link = "customer_engineer" /\ e = "caller")

\* The first message on a connection of a factory.
Hello == [identify |-> IF link = "primary_backup" THEN PFA ELSE CLIENT]

\* The robot of an engineer of assignment02; the admin is always 0.
CreateRobot(crq, engineer_id) ==
  [RobotInfo_CopyRequest(crq) EXCEPT !.engineer_id = engineer_id, !.admin_id = 0]

\* What a call may result in (an engineer of assignment01 with experts).  A
\* backup returns its own last_index, which is that of the request unless its
\* admin or another of its threads has changed it since.
ResultsOf(call) ==
  CASE call.op = "SendRead" -> [bid : Ids, customer_id : Ids, version : Ids]
    [] call.op = "SendTX" -> {1, -1}
    [] call.op = "Order" -> {CreateRobot(call.arg, i) : i \in Ids}
    [] call.op = "ReadRecord" -> [customer_id : {call.arg.customer_id}, last_order : Ids]
    [] call.op = "order" -> {MakeRobot(call.arg, i, x) : i, x \in Ids}
    [] call.op = "SendReplicationRequest" -> {call.arg.last_index} \cup Ids

LoopStart == CASE link = "primary_backup" -> "replica"
               [] link = "customer_factory" -> "request"
               [] link = "customer_engineer" -> "order"
               [] OTHER -> "identify"

Init ==
  /\ link \in Links
  /\ pc = [caller |-> "connect", server |-> "init"]
  /\ buffer = [e \in Ends |-> <<>>]
  /\ wire = [e \in Ends |-> <<>>]
  /\ peer = [e \in Ends |-> "open"]
  /\ reply = <<>>
  /\ asked = <<>> /\ served = <<>> /\ answered = <<>>

-----------------------------------------------------------------------------
(* Sockets. *)

\* Socket::Send when the kernel takes the bytes.  Those sent to a closed end
\* are lost and answered with a reset.
Send(e, bytes) ==
  \/ /\ peer[e] = "open"
     /\ wire' = [wire EXCEPT ![Other(e)] = @ \o bytes]
     /\ UNCHANGED peer
  \/ /\ peer[e] \in {"fin", "stray"}
     /\ peer' = [peer EXCEPT ![e] = "stray"]
     /\ UNCHANGED wire

\* It returns 0 after a reset; after a reset of a closed connection the
\* kernel raises SIGPIPE, which no program handles.
SendFails(e) == peer[e] = "reset"
SendKills(e) == peer[e] = "pipe"

\* Mutant: takes what is there, also of the next frame.
RecvAll(e, size) ==
  /\ Len(buffer[e]) < size /\ wire[e] # <<>>
  /\ \E n \in 1 .. Len(wire[e]) :
       /\ buffer' = [buffer EXCEPT ![e] = @ \o SubSeq(wire[e], 1, n)]
       /\ wire' = [wire EXCEPT ![e] = SubSeq(@, n + 1, Len(@))]

\* What a recv for a number of bytes may return.  The stubs of assignment01
\* call recv once and go by what it returns; there it is taken to return the
\* frame.
Arrives(e, wanted) ==
  IF link = "customer_engineer" THEN {wanted} \cap {Len(wire[e])}
  ELSE 1 .. IF Len(wire[e]) < wanted THEN Len(wire[e]) ELSE wanted

\* One recv of the loop in Socket::Recv, for a frame of the given size.
Recv(e, size) ==
  /\ Len(buffer[e]) < size /\ wire[e] # <<>>
  /\ \E n \in Arrives(e, size - Len(buffer[e])) :
       /\ buffer' = [buffer EXCEPT ![e] = @ \o SubSeq(wire[e], 1, n)]
       /\ wire' = [wire EXCEPT ![e] = SubSeq(@, n + 1, Len(@))]

\* Data that arrived before a reset may be lost or not.
RecvFails(e, size) ==
  /\ Len(buffer[e]) < size
  /\ \/ peer[e] \in {"reset", "pipe"}
     \/ peer[e] \in {"fin", "stray"} /\ wire[e] = <<>>

\* Socket::Close, or the process is gone.  Bytes that e has not read are
\* answered with a reset, before or after the other end hears of the close; a
\* connection that was not accepted is reset and never closed.
ClosedAs(e) ==
  IF pc[e] = "accept" THEN {"reset"} ELSE IF wire[e] = <<>> THEN {"fin"} ELSE {"stray", "reset"}

Close(e) ==
  /\ \E s \in ClosedAs(e) :
       peer' = [peer EXCEPT ![Other(e)] = IF @ = "open" THEN s ELSE @]
  /\ wire' = [wire EXCEPT ![e] = <<>>]
  /\ buffer' = [buffer EXCEPT ![e] = <<>>]

ResetArrives(e) ==
  /\ peer[e] = "stray"
  /\ peer' = [peer EXCEPT ![e] = "pipe"]
  /\ UNCHANGED <<link, pc, buffer, wire, reply, history>>

-----------------------------------------------------------------------------
(* Both ends are started in some order. *)

\* The server's main thread: a socket, bound and listening; or it returns.
Listen ==
  /\ pc.server = "init"
  /\ pc' = [pc EXCEPT !.server = "accept"]
  /\ UNCHANGED <<link, buffer, wire, peer, reply, history>>
ListenFails ==
  /\ pc.server = "init"
  /\ pc' = [pc EXCEPT !.server = "gone"]
  /\ UNCHANGED <<link, buffer, wire, peer, reply, history>>

\* The kernel connects to a listening socket before the server accepts.
Connect ==
  /\ pc.caller = "connect" /\ pc.server = "accept"
  /\ pc' = [pc EXCEPT !.caller = IF MayBeKilled THEN "hello" ELSE "idle"]
  /\ UNCHANGED <<link, buffer, wire, peer, reply, history>>

\* Nobody listens: the customer thread ends, or the primary goes on without
\* this backup.  It is not tried again.
Refused ==
  /\ pc.caller = "connect" /\ pc.server \in {"init", "gone"}
  /\ pc' = [pc EXCEPT !.caller = "refused"]
  /\ UNCHANGED <<link, buffer, wire, peer, reply, history>>

\* The main thread makes a thread for the connection and accepts the next.
Connected == pc.caller \notin {"connect", "refused"}
Accept ==
  /\ pc.server = "accept" /\ Connected
  /\ pc' = [pc EXCEPT !.server = IF MayBeKilled THEN "hello" ELSE LoopStart]
  /\ UNCHANGED <<link, buffer, wire, peer, reply, history>>

-----------------------------------------------------------------------------
(* The caller: a customer thread, or the admin thread of a primary.  It is  *)
(* "gone" when it has left, or was told by a failed call.                  *)

CallerGone == pc.caller \in {"refused", "gone", "killed"}
Current == asked[Len(asked)]
ReplySize == 4 * ReplyInts[Current.op]

\* The result of this send is ignored: after one that failed the caller has a
\* closed socket, on which its first call fails.
SendHello ==
  /\ pc.caller = "hello"
  /\ \/ Send("caller", SendIdentifyMessage(Hello)) /\ UNCHANGED buffer
     \/ SendFails("caller") /\ Close("caller")
  /\ pc' = [pc EXCEPT !.caller = "idle"]
  /\ UNCHANGED <<link, reply, history>>

Ask(call) ==
  /\ pc.caller = "idle" /\ Len(asked) < MaxCalls
  /\ Send("caller", Request(call))
  /\ asked' = Append(asked, call)
  /\ pc' = [pc EXCEPT !.caller = "recv"]
  /\ UNCHANGED <<link, buffer, reply, served, answered>>

\* The kernel reports the reset, or that the descriptor is closed, to the
\* sender.
AskFails ==
  /\ pc.caller = "idle" /\ Len(asked) < MaxCalls /\ SendFails("caller")
  /\ Close("caller")
  /\ pc' = [pc EXCEPT !.caller = "gone"]
  /\ UNCHANGED <<link, reply, history>>

BrokenPipe ==
  /\ pc.caller = "idle" /\ Len(asked) < MaxCalls /\ SendKills("caller")
  /\ Close("caller")
  /\ pc' = [pc EXCEPT !.caller = "killed"]
  /\ UNCHANGED <<link, reply, history>>

CallerRecv ==
  /\ pc.caller = "recv"
  /\ Recv("caller", ReplySize)
  /\ UNCHANGED <<link, pc, peer, reply, history>>

\* The stub has no reply to return and the caller ends (see IsEnd).
CallFails ==
  /\ pc.caller = "recv" /\ RecvFails("caller", ReplySize)
  /\ Close("caller")
  /\ pc' = [pc EXCEPT !.caller = "gone"]
  /\ UNCHANGED <<link, reply, history>>

Answer ==
  /\ pc.caller = "recv" /\ Len(buffer.caller) = ReplySize
  /\ LET result == ReplyOf(Current, buffer.caller)
     IN  /\ answered' = Append(answered, result)
         /\ pc' = [pc EXCEPT !.caller = IF IsEnd(Current, result) THEN "done" ELSE "idle"]
  /\ buffer' = [buffer EXCEPT !.caller = <<>>]
  /\ UNCHANGED <<link, wire, peer, reply, asked, served>>

\* All calls made, or a primary was returned another index than its last:
\* the destructor, or ShutStubDown, closes the socket.  In assignment01
\* disconnect does, and the destructor closes the same number once more; what
\* that does to another customer is MayEnd.
Leave ==
  /\ pc.caller \in {"idle", "done"}
  /\ Close("caller")
  /\ pc' = [pc EXCEPT !.caller = "gone"]
  /\ UNCHANGED <<link, reply, history>>

-----------------------------------------------------------------------------
(* The server thread: pc.server is the frame it waits for, or "reply".      *)

ServerGone == pc.server \in {"gone", "killed"}
FrameSize == [order |-> 12, identify |-> 4, tx_read |-> 8, tx |-> 64,
              hello |-> 4, request |-> 12, replica |-> 24]
Receiving == pc.server \in DOMAIN FrameSize
Received(frame) == pc.server = frame /\ Len(buffer.server) = FrameSize[frame]
Failed(frame) == pc.server = frame /\ RecvFails("server", FrameSize[frame])

ServerRecv ==
  /\ Receiving /\ Recv("server", FrameSize[pc.server])
  /\ UNCHANGED <<link, pc, peer, reply, history>>

\* Goes on with the next frame, or ends and so closes the connection.
Expect(frame) ==
  /\ pc' = [pc EXCEPT !.server = frame]
  /\ buffer' = [buffer EXCEPT !.server = <<>>]
  /\ UNCHANGED <<link, wire, peer, reply, history>>
EndThread ==
  /\ Close("server")
  /\ pc' = [pc EXCEPT !.server = "gone"]
  /\ UNCHANGED <<link, reply, history>>

\* The call is served with some result, and the reply is to be sent.
Serve(call, result, frame) ==
  /\ result \in ResultsOf(call)
  /\ served' = Append(served, [call |-> call, result |-> result])
  /\ reply' = frame
  /\ pc' = [pc EXCEPT !.server = "reply"]
  /\ buffer' = [buffer EXCEPT !.server = <<>>]
  /\ UNCHANGED <<link, wire, peer, asked, answered>>

\* An engineer of assignment01; the end of the connection is an exception.
EngineerServes ==
  \/ /\ Received("order")
     /\ LET call == [op |-> "order", arg |-> ReceiveOrder(buffer.server)]
        IN  \E r \in ResultsOf(call) : Serve(call, r, ShipExpertRobot(r))
  \/ Failed("order") /\ EndThread

\* A worker of assignment03.  Which types it knows depends on the program;
\* of an undefined one it prints a line.
KnownTypes == CASE link = "customer_server" -> {TX_READ_IDENTIFY, TX_IDENTIFY}
                [] link = "customer_rm" -> {TX_READ_IDENTIFY, TX_IDENTIFY}
                [] link = "customer_tm" -> {TX_IDENTIFY}
FrameOf(identity) ==
  CASE identity = TX_READ_IDENTIFY /\ identity \in KnownTypes -> "tx_read"
    [] identity = TX_IDENTIFY /\ identity \in KnownTypes -> "tx"
    [] OTHER -> "identify"

OnIdentity(identity) == IF identity = -1 THEN EndThread ELSE Expect(FrameOf(identity))

ReadIdentify ==
  \/ Received("identify") /\ OnIdentity(Ints(buffer.server)[1])
  \/ Failed("identify") /\ OnIdentity(NoIdentity)

ServeRead ==
  /\ Received("tx_read")
  /\ LET call == [op |-> "SendRead", arg |-> ReceiveTxRead(buffer.server)]
     IN  \E r \in ResultsOf(call) : Serve(call, r, SendReadResponse(r))

ServeTX ==
  /\ Received("tx")
  /\ LET call == [op |-> "SendTX", arg |-> ReceiveTX(buffer.server)]
     IN  \E d \in ResultsOf(call) : Serve(call, d, SendDecision(d))

\* A server thread of a factory.  When Recv fails it goes by the default
\* object of the message it waited for.
OnHello(m) ==
  \/ m.identify = CLIENT /\ Expect("request")
  \/ m.identify = PFA /\ Expect("replica")
  \/ m.identify \notin {CLIENT, PFA} /\ EndThread

Identify ==
  \/ Received("hello") /\ OnHello(ReceiveIdentifyMessage(buffer.server))
  \/ Failed("hello") /\ OnHello(IdentifyMessage)

OnRequest(crq) ==
  LET order == [op |-> "Order", arg |-> crq]
      record == [op |-> "ReadRecord", arg |-> crq]
  IN  \/ ~CustomerRequest_IsValid(crq) /\ EndThread
      \/ /\ CustomerRequest_IsValid(crq)
         /\ \/ /\ crq.request_type = 1
               /\ \E r \in ResultsOf(order) : Serve(order, r, ShipRobot(r))
            \/ /\ crq.request_type = 2
               /\ \E r \in ResultsOf(record) : Serve(record, r, ReturnRecord(r))
            \/ crq.request_type \notin {1, 2} /\ Expect("request")

ServeRequest ==
  \/ Received("request") /\ OnRequest(ReceiveRequest(buffer.server))
  \/ Failed("request") /\ OnRequest(CustomerRequest)

OnReplica(req) ==
  LET call == [op |-> "SendReplicationRequest", arg |-> req]
  IN  IF ReplicationRequest_IsValid(req)
      THEN \E r \in ResultsOf(call) : Serve(call, r, ReturnReplicaResponse(r))
      ELSE EndThread

ServeReplica ==
  \/ Received("replica") /\ OnReplica(ReceiveReplicationRequest(buffer.server))
  \/ Failed("replica") /\ OnReplica(ReplicationRequest)

\* The results of the stubs' sends are ignored; after one that failed the
\* next Recv fails as well.
ReplyUnsent ==
  /\ SendFails("server") \/ SendKills("server")
  /\ Close("server")
  /\ pc' = [pc EXCEPT !.server = IF SendKills("server") THEN "killed" ELSE "gone"]
  /\ UNCHANGED reply

\* Mutant: the reply in two pieces.
ReplyInTwo ==
  /\ pc.server = "reply"
  /\ \/ ReplyUnsent
     \/ /\ Send("server", <<Head(reply)>>)
        /\ reply' = Tail(reply)
        /\ pc' = [pc EXCEPT !.server = IF Len(reply) = 1 THEN LoopStart ELSE @]
        /\ UNCHANGED buffer
  /\ UNCHANGED <<link, history>>

Reply ==
  /\ pc.server = "reply"
  /\ \/ ReplyUnsent
     \/ /\ Send("server", reply)
        /\ reply' = <<>>
        /\ pc' = [pc EXCEPT !.server = LoopStart]
        /\ UNCHANGED buffer
  /\ UNCHANGED <<link, history>>

-----------------------------------------------------------------------------

\* The caller's or the server's process is killed or exits (before it has
\* connected, the server never hears of the caller).
Killed(e) ==
  /\ MayEnd(e)
  /\ pc[e] \notin {"refused", "gone", "killed"}
  /\ Close(e)
  /\ pc' = [pc EXCEPT ![e] = IF @ = "connect" THEN "refused" ELSE "gone"]
  /\ UNCHANGED <<link, reply, history>>

Finished ==
  /\ CallerGone /\ (ServerGone \/ (pc.server = "accept" /\ ~Connected))
  /\ UNCHANGED vars

CallerThread ==
  \/ Connect \/ Refused \/ SendHello \/ \E call \in CallsOn[link] : Ask(call)
  \/ AskFails \/ BrokenPipe \/ CallerRecv \/ CallFails \/ Answer \/ Leave

ServerThread ==
  \/ Listen \/ ListenFails \/ Accept \/ ServerRecv \/ EngineerServes \/ ReadIdentify \/ ServeRead \/ ServeTX
  \/ Identify \/ ServeRequest \/ ServeReplica \/ Reply

Next ==
  \/ CallerThread \/ ServerThread
  \/ \E e \in Ends : ResetArrives(e) \/ Killed(e)
  \/ Finished

\* Both threads are scheduled; bytes that were sent arrive.
Spec == Init /\ [][Next]_vars /\ WF_vars(CallerThread) /\ WF_vars(ServerThread)

-----------------------------------------------------------------------------
(* Properties. *)

\* The messages that go with a function of a stub, and what it returns.
MessagesOf == [order |-> Orders, SendRead |-> tx_reads, SendTX |-> txs,
               Order |-> CustomerRequests, ReadRecord |-> CustomerRequests,
               SendReplicationRequest |-> ReplicationRequests]
ReturnedBy == [order |-> Robots, SendRead |-> ReadResponses, SendTX |-> Int32,
               Order |-> RobotInfos, ReadRecord |-> CustomerRecords,
               SendReplicationRequest |-> Int32]

\* Types of the variables: bytes on the wire, no more than a frame in a
\* buffer, and in the history messages of the classes of each function.
TypeOK ==
  /\ link \in Links
  /\ pc \in [caller : {"connect", "refused", "hello", "idle", "recv", "done", "gone", "killed"},
             server : DOMAIN FrameSize \cup {"init", "accept", "reply", "gone", "killed"}]
  /\ buffer \in [Ends -> Seq(Byte)] /\ wire \in [Ends -> Seq(Byte)]
  /\ pc.caller = "recv" => Len(buffer.caller) <= ReplySize
  /\ Receiving => Len(buffer.server) <= FrameSize[pc.server]
  /\ peer \in [Ends -> {"open", "fin", "stray", "pipe", "reset"}]
  /\ reply \in Seq(Byte)
  /\ \A i \in DOMAIN asked : asked[i] \in CallsOn[link]
  /\ \A i \in DOMAIN served : served[i].call.arg \in MessagesOf[served[i].call.op]
  /\ \A i \in DOMAIN answered : answered[i] \in ReturnedBy[asked[i].op]
  /\ Len(asked) <= MaxCalls

\* Between two calls nothing is left over: the caller has taken the whole
\* reply and the server thread the whole request, so that the next frame
\* starts where both expect it (the connection of the TM to an RM does not
\* have this property, see TwoPhase).
NothingLeftOver ==
  pc.caller = "idle" /\ asked # <<>> /\ peer.caller = "open" =>
    /\ wire.caller = <<>> /\ wire.server = <<>> /\ buffer.server = <<>>
    /\ pc.server = LoopStart

\* A server thread whose customer or primary goes away never takes its
\* process with it: it hears of the end in Recv before it sends again.
ServerSurvives == pc.server # "killed"

\* Nor does a caller whose server goes away (sections 3.1.1 and 3.1.2 of
\* the second assignment).
CallerSurvives == pc.caller # "killed"

\* The stubs are remote calls: one at a time, each served at most once, with
\* the result of this very call; and unless the connection ends, an answer.
Abstract == INSTANCE Calls WITH Call <- UNION {CallsOn[l] : l \in Links},
                                over <- CallerGone
ImplementsCalls == Abstract!Spec

\* A server thread does not outlive the connection, also if the caller has
\* left before it was accepted.
ThreadEnds == CallerGone ~> pc.server \in {"accept", "gone", "killed"}
=============================================================================
