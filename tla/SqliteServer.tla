---------------------------- MODULE SqliteServer ----------------------------
(***************************************************************************)
(* The whole server: Server (sockets, tasks, query limiter) and Handler    *)
(* (per-connection caches, SQLite locks, the folder) put together the way  *)
(* connection.rs puts them together.  A handler is made when a connection  *)
(* is accepted, runs while its task holds a permit, and is dropped with    *)
(* the task, which closes its SQLite handles.                              *)
(***************************************************************************)
EXTENDS Naturals, Sequences

CONSTANTS Conn, Allowed, Workers, MaxPacketSize, Sizes, Fragmented, Departures,
          Pipeline, SocketBuffer, Db, UnsafeDb, NoDb, AuthRequired, Requests, MaxFiles

VARIABLES phase, task, peer, inbox, unread, queue, permits,
          step, req, reply, authenticated, databases, conn, folder, files,
          removedBy, proved

S == INSTANCE Server
H == INSTANCE Handler

serverVars == <<phase, task, peer, inbox, unread, queue, permits>>
handlerVars == <<step, req, reply, authenticated, databases, conn, folder, files,
                 removedBy, proved>>
vars == <<serverVars, handlerVars>>

Init == S!Init /\ H!Init

(* RequestHandler::new for the peers the whitelist admits *)
Accept(c) ==
  /\ S!Accept(c)
  /\ IF S!IsIpAllowed(c) THEN H!New(c) ELSE UNCHANGED handlerVars

(* handle returns, or the runtime drops it: the handler goes too. *)
DropSocketOnly(c) ==
  /\ step' = [step EXCEPT ![c] = "gone"]
  /\ UNCHANGED <<req, reply, authenticated, databases, conn, folder, files,
                 removedBy, proved>>
DropHandler(c) == H!Drop(c)

Leave(c) == S!Oversized(c) \/ S!ReadFails(c) \/ S!WriteFails(c)
Close(c) == Leave(c) /\ DropHandler(c)
Abort(c) == S!Abort(c) /\ DropHandler(c)

(* block_in_place(|| handler.handle_request(&request)) *)
Execute(c) == S!Execute(c) /\ \E r \in Requests : H!Receive(c, r)
Finish(c) == S!Finish(c) /\ H!Return(c)
Work(c) == H!Work(c) /\ UNCHANGED serverVars

Transport(c) ==
  /\ S!ReadHeader(c) \/ S!ReadBody(c) \/ S!Write(c)
  /\ UNCHANGED handlerVars

Handle(c) == Transport(c) \/ Close(c) \/ Execute(c) \/ Finish(c)

Client(c) == S!Client(c) /\ UNCHANGED handlerVars

Process == (S!Start \/ S!Shutdown \/ S!Exit) /\ UNCHANGED handlerVars
Crash == S!Crash /\ H!Crash

Next ==
  \/ Process \/ Crash
  \/ \E c \in Conn :
       Accept(c) \/ Abort(c) \/ Handle(c) \/ Work(c) \/ Client(c)

Spec == Init /\ [][Next]_vars

(* As in Server, but that handlers return is no longer assumed: a thread   *)
(* inside SQLite only keeps running.                                       *)
Fairness ==
  /\ \A c \in Conn :
       WF_vars(Accept(c) \/ Handle(c) \/ Work(c)) /\ SF_vars(Abort(c))
  /\ WF_vars(S!Exit /\ UNCHANGED handlerVars)

FairSpec == Spec /\ Fairness

-----------------------------------------------------------------------------
(* Properties.                                                             *)

HoldsLock(c) == \E d \in Db : databases[c][d].mode = "write"

(* The transaction of b has the write lock on the file c's statement uses. *)
Blocks(b, c) ==
  \E d \in Db : /\ databases[b][d].mode = "write"
                /\ databases[b][d].file = databases[c][req[c].db].file

(* A handler exists exactly while its connection is served, and it is in a *)
(* request exactly while its task holds a permit: no request runs without  *)
(* a permit, no handler (and so no transaction or lock of it) outlives its *)
(* connection, however that ended (connection.rs 22, 49-55).               *)
HandlerFollowsTask ==
  \A c \in Conn :
    /\ task[c] \in {"absent", "backlog"} <=> step[c] = "gone"
    /\ task[c] = "executing" <=> step[c] \notin {"gone", "idle"}
    /\ step[c] = "gone" => ~HoldsLock(c)

(* Every request that asked for a permit is answered or its connection     *)
(* ends, even when all permits are held by writers waiting for a lock      *)
(* whose holder is itself queued for a permit: their busy_timeout breaks   *)
(* the cycle.                                                              *)
RequestAnswered ==
  \A c \in Conn : task[c] = "permit" ~> task[c] \in {"writing", "absent"}

(* A client that vanishes inside a transaction does not keep its write     *)
(* lock: its remaining requests are served, the task notices, and SQLite   *)
(* rolls back (connection.rs 26-29, 61; handler.rs 26).                    *)
AbandonedLockFreed ==
  \A c \in Conn : HoldsLock(c) /\ peer[c] = "gone" ~> ~HoldsLock(c)

(* A write is refused as busy only because another client holds the lock   *)
(* and leaves it held, never because the cap keeps that client's next      *)
(* request waiting for the permit the refused write has: connection.rs     *)
(* 47-48, "SQLite serializes writes anyway, so this costs no throughput    *)
(* while bounding thread/resource use."                                    *)
BusyNotByLimiter ==
  \A b, c \in Conn :
    reply[c] = "busy" /\ Blocks(b, c) => ~(task[b] = "permit" /\ permits = 0)
=============================================================================
