------------------------------- MODULE Server -------------------------------
(***************************************************************************)
(* The network side of sqlite-server: the accept loop of server.rs, the    *)
(* per-connection task of connection.rs, and the process around them       *)
(* (main.rs).  Running a request (RequestHandler::handle_request) is       *)
(* opaque here: it starts when a permit is taken and it ends.              *)
(*                                                                         *)
(* One tokio task serves one connection.  Between two awaits the task runs *)
(* alone on its state, so every action below is the code between two       *)
(* awaits.  The query limiter is tokio's fair semaphore: permits are       *)
(* handed to waiters in the order they queued, and a waiter whose turn has *)
(* come takes its permit when it is next polled.                           *)
(***************************************************************************)
EXTENDS Naturals, Sequences, FiniteSets, SequencesExt

CONSTANTS
  Conn,           \* connection slots; a slot is used again after a close
  Allowed,        \* the slots whose peer address the ip whitelist admits
  Workers,        \* config.workers
  MaxPacketSize,  \* config.client_max_packet_size
  Sizes,          \* the packet sizes clients announce
  Fragmented,     \* bound: whether a packet may arrive in two pieces
  Departures,     \* bound: the ways clients leave, "shut" and "gone" (see peer)
  Pipeline,       \* bound: requests a client has sent and the task not read
  SocketBuffer    \* bound: responses the kernel holds for a client

ASSUME ConnAssumption == IsFiniteSet(Conn) /\ Allowed \subseteq Conn
ASSUME SizeAssumption ==
  /\ Workers \in Nat /\ MaxPacketSize \in Nat /\ Sizes \subseteq Nat
  /\ Fragmented \in BOOLEAN /\ Pipeline \in Nat /\ SocketBuffer \in Nat

VARIABLES
  phase,    \* the process: "down", "listening" (accept loop), "stopping"
  task,     \* task[c]: the await the connection's task stands at
  peer,     \* peer[c]: the client's end, "open", "shut" (FIN) or "gone" (RST)
  inbox,    \* inbox[c]: frames arrived and not consumed; the last may be cut
  unread,   \* unread[c]: responses written that the client has not read
  queue,    \* the semaphore's waiters, oldest first
  permits   \* the semaphore's permits not held by a running handler

vars == <<phase, task, peer, inbox, unread, queue, permits>>
net == <<peer, inbox, unread>>

(* A frame is its announced size and whether all of its body has arrived.  *)
Frame == [size : Sizes, whole : BOOLEAN]

(* The awaits of connection::handle.  "absent": no socket in this slot.    *)
(* "backlog": connected, not accepted.  "executing": inside                *)
(* block_in_place, which no await interrupts.                              *)
TaskState == {"absent", "backlog", "header", "body", "permit", "executing",
              "writing"}

(* Semaphore::new(config.workers.max(1)) *)
Slots == IF Workers = 0 THEN 1 ELSE Workers

Executing == {c \in Conn : task[c] = "executing"}

Init ==
  /\ phase = "down"
  /\ task = [c \in Conn |-> "absent"]
  /\ peer = [c \in Conn |-> "open"]
  /\ inbox = [c \in Conn |-> <<>>]
  /\ unread = [c \in Conn |-> 0]
  /\ queue = <<>>
  /\ permits = 0

-----------------------------------------------------------------------------
(* Helpers.                                                                *)

Goto(c, s) == task' = [task EXCEPT ![c] = s]

(* Dropping the acquire future takes the waiter out of the semaphore's     *)
(* queue; a permit already assigned to it passes to the next.              *)
LeaveQueueForgotten(c) == UNCHANGED queue
LeaveQueue(c) ==
  IF task[c] = "permit"
  THEN \E i \in DOMAIN queue : queue[i] = c /\ queue' = RemoveAt(queue, i)
  ELSE UNCHANGED queue

(* The task returns or is dropped, and the socket with it. *)
Close(c) ==
  /\ Goto(c, "absent")
  /\ peer' = [peer EXCEPT ![c] = "open"]
  /\ inbox' = [inbox EXCEPT ![c] = <<>>]
  /\ unread' = [unread EXCEPT ![c] = 0]
  /\ LeaveQueue(c)
  /\ UNCHANGED <<phase, permits>>

(* The fair semaphore lets the oldest waiters, as many as there are        *)
(* permits, through.                                                       *)
GrantedBarging(i) == permits > 0
GrantedAlways(i) == TRUE
Granted(i) == i <= permits

Fits(n) == n <= MaxPacketSize

(* is_ip_allowed: an empty whitelist, or one of its networks, admits it.   *)
IsIpAllowedSkipped(c) == TRUE
IsIpAllowed(c) == c \in Allowed

BodyArrived(c) == inbox[c] # <<>> /\ Head(inbox[c]).whole

-----------------------------------------------------------------------------
(* The process and the accept loop (main.rs, server.rs).                   *)

(* main builds the runtime and run binds the listener.  A configuration or *)
(* bind error exits the process, which leaves it down.                     *)
Start ==
  /\ phase = "down"
  /\ phase' = "listening"
  /\ permits' = Slots
  /\ UNCHANGED <<task, queue, net>>

(* accept: the whitelist is consulted before any per-connection state; a   *)
(* peer it does not name has its socket dropped.                           *)
Accept(c) ==
  /\ phase = "listening" /\ task[c] = "backlog"
  /\ IF IsIpAllowed(c)
     THEN Goto(c, "header") /\ UNCHANGED <<phase, queue, permits, net>>
     ELSE Close(c)

(* SIGINT or SIGTERM: the loop breaks, run returns, the listener goes and  *)
(* resets what it had not accepted.  main then drops the runtime.          *)
Shutdown ==
  /\ phase = "listening"
  /\ phase' = "stopping"
  /\ task' = [c \in Conn |-> IF task[c] = "backlog" THEN "absent" ELSE task[c]]
  /\ peer' = [c \in Conn |-> IF task[c] = "backlog" THEN "open" ELSE peer[c]]
  /\ inbox' = [c \in Conn |-> IF task[c] = "backlog" THEN <<>> ELSE inbox[c]]
  /\ UNCHANGED <<unread, queue, permits>>

(* Dropping the runtime drops each task at the await where it stands; the  *)
(* thread inside block_in_place finishes its closure first.                *)
DroppableAnywhere(c) == task[c] # "absent"
DroppableIdle(c) == task[c] = "header"
Droppable(c) == task[c] \notin {"absent", "executing"}

Abort(c) == phase = "stopping" /\ Droppable(c) /\ Close(c)

Exit ==
  /\ phase = "stopping" /\ \A c \in Conn : task[c] = "absent"
  /\ phase' = "down" /\ permits' = 0
  /\ UNCHANGED <<task, queue, net>>

(* The process dies at any point: every socket and the semaphore go. *)
Crash ==
  /\ phase # "down"
  /\ phase' = "down" /\ permits' = 0 /\ queue' = <<>>
  /\ task' = [c \in Conn |-> "absent"]
  /\ peer' = [c \in Conn |-> "open"]
  /\ inbox' = [c \in Conn |-> <<>>]
  /\ unread' = [c \in Conn |-> 0]

-----------------------------------------------------------------------------
(* connection::handle, from one await to the next.                         *)

ReadHeader(c) ==
  /\ task[c] = "header" /\ inbox[c] # <<>> /\ Fits(Head(inbox[c]).size)
  /\ Goto(c, "body")
  /\ UNCHANGED <<phase, queue, permits, net>>

(* packet_size > client_max_packet_size closes the connection unanswered. *)
Oversized(c) ==
  /\ task[c] = "header" /\ inbox[c] # <<>> /\ ~Fits(Head(inbox[c]).size)
  /\ Close(c)

EnqueueFirst(c) == queue' = <<c>> \o queue
Enqueue(c) == queue' = Append(queue, c)

(* The body is complete: the task asks the limiter for a permit. *)
ReadBody(c) ==
  /\ task[c] = "body" /\ BodyArrived(c)
  /\ Goto(c, "permit") /\ Enqueue(c)
  /\ inbox' = [inbox EXCEPT ![c] = Tail(@)]
  /\ UNCHANGED <<phase, peer, unread, permits>>

(* read_exact fails on EOF or reset, in the header or in the body. *)
CutOffInHeader(c) == task[c] = "header" /\ inbox[c] = <<>>
CutOff(c) ==
  \/ task[c] = "header" /\ inbox[c] = <<>>
  \/ task[c] = "body" /\ ~BodyArrived(c)

ReadFails(c) == peer[c] # "open" /\ CutOff(c) /\ Close(c)

(* acquire resolves and block_in_place starts the handler. *)
Execute(c) ==
  /\ task[c] = "permit"
  /\ \E i \in DOMAIN queue :
       queue[i] = c /\ Granted(i) /\ queue' = RemoveAt(queue, i)
  /\ Goto(c, "executing")
  /\ permits' = permits - 1
  /\ UNCHANGED <<phase, net>>

(* The block ends: _permit is dropped before the response is written. *)
ReleaseForgotten == UNCHANGED permits
ReleasePermit == permits' = permits + 1

Finish(c) ==
  /\ task[c] = "executing"
  /\ Goto(c, "writing") /\ ReleasePermit
  /\ UNCHANGED <<phase, queue, net>>

(* write_all ends once the kernel has taken the response. *)
Write(c) ==
  /\ task[c] = "writing" /\ peer[c] # "gone" /\ unread[c] < SocketBuffer
  /\ Goto(c, "header")
  /\ unread' = [unread EXCEPT ![c] = @ + 1]
  /\ UNCHANGED <<phase, peer, inbox, queue, permits>>

WriteFails(c) == task[c] = "writing" /\ peer[c] = "gone" /\ Close(c)

-----------------------------------------------------------------------------
(* Clients, external: they connect, send, read and leave as they like.     *)

Connect(c) ==
  /\ phase = "listening" /\ task[c] = "absent"
  /\ Goto(c, "backlog")
  /\ UNCHANGED <<phase, queue, permits, net>>

(* A client announces a packet of n bytes, once its previous one is out.   *)
Send(c, n) ==
  /\ task[c] # "absent" /\ peer[c] = "open" /\ Len(inbox[c]) < Pipeline
  /\ inbox[c] # <<>> => inbox[c][Len(inbox[c])].whole
  /\ inbox' = [inbox EXCEPT ![c] =
                 Append(@, [size |-> n, whole |-> ~Fragmented \/ n = 0])]
  /\ UNCHANGED <<phase, task, peer, unread, queue, permits>>

(* The rest of the body arrives. *)
SendBody(c) ==
  /\ peer[c] = "open" /\ inbox[c] # <<>> /\ ~inbox[c][Len(inbox[c])].whole
  /\ inbox' = [inbox EXCEPT ![c][Len(inbox[c])].whole = TRUE]
  /\ UNCHANGED <<phase, task, peer, unread, queue, permits>>

ReadResponse(c) ==
  /\ peer[c] # "gone" /\ unread[c] > 0
  /\ unread' = [unread EXCEPT ![c] = @ - 1]
  /\ UNCHANGED <<phase, task, peer, inbox, queue, permits>>

HangUp(c) ==
  /\ "shut" \in Departures /\ task[c] # "absent" /\ peer[c] = "open"
  /\ peer' = [peer EXCEPT ![c] = "shut"]
  /\ UNCHANGED <<phase, task, inbox, unread, queue, permits>>

(* A reset may or may not cost the server what had already arrived. *)
Reset(c) ==
  /\ "gone" \in Departures /\ task[c] # "absent" /\ peer[c] # "gone"
  /\ peer' = [peer EXCEPT ![c] = "gone"]
  /\ \E kept \in {inbox[c], <<>>} : inbox' = [inbox EXCEPT ![c] = kept]
  /\ unread' = [unread EXCEPT ![c] = 0]
  /\ UNCHANGED <<phase, task, queue, permits>>

-----------------------------------------------------------------------------
Handle(c) ==
  \/ ReadHeader(c) \/ Oversized(c) \/ ReadBody(c) \/ ReadFails(c)
  \/ Execute(c) \/ Finish(c) \/ Write(c) \/ WriteFails(c)

Client(c) ==
  \/ Connect(c) \/ SendBody(c) \/ ReadResponse(c) \/ HangUp(c) \/ Reset(c)
  \/ \E n \in Sizes : Send(c, n)

Next ==
  \/ Start \/ Shutdown \/ Exit \/ Crash
  \/ \E c \in Conn : Accept(c) \/ Abort(c) \/ Handle(c) \/ Client(c)

Spec == Init /\ [][Next]_vars

(* The runtime polls every task that can make progress and the accept loop *)
(* polls the listener; handlers return (SQLite statements end or time      *)
(* out).  Dropping the runtime reaches every task: a task that keeps       *)
(* finding work is stopped by its cooperative budget, hence strong         *)
(* fairness.  Clients, signals and crashes owe nothing.                    *)
Fairness ==
  /\ \A c \in Conn : WF_vars(Accept(c) \/ Handle(c)) /\ SF_vars(Abort(c))
  /\ WF_vars(Exit)

FairSpec == Spec /\ Fairness

-----------------------------------------------------------------------------
(* Properties.                                                             *)

(* Every variable keeps its type. *)
TypeOK ==
  /\ phase \in {"down", "listening", "stopping"}
  /\ task \in [Conn -> TaskState]
  /\ peer \in [Conn -> {"open", "shut", "gone"}]
  /\ inbox \in [Conn -> Seq(Frame)]
  /\ unread \in [Conn -> Nat]
  /\ queue \in Seq(Conn)
  /\ permits \in Nat

(* The waiters of the semaphore are exactly the tasks at the acquire       *)
(* await, each once: a connection that is closed, aborted or rejected      *)
(* leaves no ghost waiter that would swallow a permit (connection.rs       *)
(* 50-53).                                                                 *)
QueueExact ==
  /\ \A i \in 1 .. Len(queue) : task[queue[i]] = "permit"
  /\ \A i, j \in 1 .. Len(queue) : queue[i] = queue[j] => i = j
  /\ \A c \in Conn : task[c] = "permit" => \E i \in 1 .. Len(queue) : queue[i] = c

(* No permit is lost or made up, whichever way connections end: free       *)
(* permits and running handlers add up to workers.max(1) for as long as    *)
(* the process runs, so that never more than that many handlers run and    *)
(* the pool never shrinks (server.rs 15, connection.rs 49-55).             *)
PermitAccounting == phase # "down" => permits + Cardinality(Executing) = Slots

(* A request is buffered, queued, run or answered only for a peer the      *)
(* whitelist admits, and its body is read only when its announced size is  *)
(* within client_max_packet_size (server.rs 41, connection.rs 32).         *)
Admission ==
  \A c \in Conn :
    /\ task[c] \notin {"absent", "backlog"} => c \in Allowed
    /\ task[c] = "body" /\ inbox[c] # <<>> => Head(inbox[c]).size <= MaxPacketSize

(* A handler that has started is never cut by a close, a disconnect or a   *)
(* graceful shutdown: short of the death of the process it runs to its     *)
(* end and its response is handed to the socket (block_in_place is not an  *)
(* await).                                                                 *)
RunToCompletion ==
  [][\A c \in Conn : task[c] = "executing" /\ phase' # "down"
                       => task'[c] \in {"executing", "writing"}]_vars

(* The limiter is first come first served and hands a permit on at once,   *)
(* though the woken task takes it later: the tasks that run or may run now *)
(* hold the slots of Limiter, the rest of the queue waits.                 *)
MayRun == {i \in DOMAIN queue : i <= permits}
Pool == INSTANCE Limiter WITH
          holders <- Executing \cup {queue[i] : i \in MayRun},
          waiting <- SubSeq(queue, permits + 1, Len(queue))
ImplementsLimiter == Pool!Spec

(* A request that asked for a permit gets one and runs, or its connection  *)
(* ends: neither newcomers nor clients that never read their responses     *)
(* keep it waiting (the permit is dropped before write_all).               *)
RequestServed ==
  \A c \in Conn : task[c] = "permit" ~> task[c] \in {"executing", "absent"}

(* The server notices every client that is gone and drops its task: no     *)
(* task outlives its peer for ever (connection.rs 27, 38, 61).             *)
DeadPeerReaped ==
  \A c \in Conn : peer[c] = "gone" ~> peer[c] # "gone"

(* After the signal the process ends, whatever the clients do. *)
ShutdownCompletes == phase = "stopping" ~> phase = "down"
=============================================================================
