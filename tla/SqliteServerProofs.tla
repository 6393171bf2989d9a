------------------------- MODULE SqliteServerProofs -------------------------
(***************************************************************************)
(* Theorems about the composition: seen from the network it is Server,     *)
(* seen from SQLite it is Handler, and a handler lives and runs exactly    *)
(* when its task says so, for every set of connections, databases and      *)
(* requests.                                                               *)
(***************************************************************************)
EXTENDS SqliteServer, TLAPS

ServerVars == S!vars
HandlerVars == H!vars

(* Every behaviour of the whole is one of Server: what handlers do is      *)
(* invisible to the sockets, the tasks and the limiter (connection.rs      *)
(* 24-62).                                                                 *)
THEOREM WholeImplementsServer == Spec => S!Spec
<1>1. Init => S!Init
  BY DEF Init
<1>2. [Next]_vars => [S!Next]_ServerVars
  <2> SUFFICES ASSUME [Next]_vars PROVE [S!Next]_ServerVars
    OBVIOUS
  <2>1. CASE UNCHANGED vars
    BY <2>1 DEF vars, serverVars, ServerVars, S!vars
  <2>2. CASE Process
    BY <2>2 DEF Process, S!Next
  <2>3. CASE Crash
    BY <2>3 DEF Crash, S!Next
  <2>4. ASSUME NEW c \in Conn, Work(c) PROVE UNCHANGED ServerVars
    BY <2>4 DEF Work, serverVars, ServerVars, S!vars
  <2>5. ASSUME NEW c \in Conn, Accept(c) \/ Abort(c) \/ Handle(c) \/ Client(c)
        PROVE  S!Next
    BY <2>5 DEF Accept, Abort, Handle, Transport, Close, Leave, Execute, Finish,
                Client, S!Next, S!Handle
  <2> QED BY <2>1, <2>2, <2>3, <2>4, <2>5 DEF Next
<1> QED BY <1>1, <1>2, PTL DEF Spec, S!Spec, ServerVars

(* Every behaviour of the whole is one of Handler: requests come one at a  *)
(* time, a handler is dropped only between two of them, and what the       *)
(* network does changes no cache and no file (connection.rs 21-22, 54).    *)
THEOREM WholeImplementsHandler == Spec => H!Spec
<1>1. Init => H!Init
  BY DEF Init
<1>2. [Next]_vars => [H!Next]_HandlerVars
  <2> SUFFICES ASSUME [Next]_vars PROVE [H!Next]_HandlerVars
    OBVIOUS
  <2> USE DEF handlerVars, HandlerVars, H!vars, H!call, H!cache, H!disk
  <2>1. CASE UNCHANGED vars
    BY <2>1 DEF vars
  <2>2. CASE Process
    BY <2>2 DEF Process
  <2>3. CASE Crash
    BY <2>3 DEF Crash, H!Next
  <2>4. ASSUME NEW c \in Conn, Client(c) \/ Transport(c) PROVE UNCHANGED HandlerVars
    BY <2>4 DEF Client, Transport
  <2>5. ASSUME NEW c \in Conn, Accept(c) PROVE H!Next \/ UNCHANGED HandlerVars
    BY <2>5 DEF Accept, H!Next
  <2>6. ASSUME NEW c \in Conn, Abort(c) \/ Close(c) \/ Execute(c) \/ Finish(c) \/ Work(c)
        PROVE  H!Next
    BY <2>6 DEF Abort, Close, DropHandler, Execute, Finish, Work, H!Next
  <2> QED BY <2>1, <2>2, <2>3, <2>4, <2>5, <2>6 DEF Next, Handle
<1> QED BY <1>1, <1>2, PTL DEF Spec, H!Spec, HandlerVars

-----------------------------------------------------------------------------
(* Inside a request: the steps of handle_request. *)
Busy == H!Step \ {"gone", "idle"}

(* HandlerFollowsTask with the types its steps rest on; the cache is a     *)
(* table with one row per connection, which is all that is said of it.     *)
WholeInv ==
  /\ task \in [Conn -> S!TaskState]
  /\ step \in [Conn -> H!Step]
  /\ DOMAIN databases = Conn
  /\ HandlerFollowsTask

(* What a step of the handler inside a request does to the rest of it.     *)
LEMMA WorkStaysBusy ==
  ASSUME WholeInv, NEW c \in Conn, H!Work(c)
  PROVE  /\ step[c] \in Busy
         /\ \E s \in Busy : step' = [step EXCEPT ![c] = s]
         /\ DOMAIN databases' = Conn
         /\ \A b \in Conn \ {c} : databases'[b] = databases[b]
<1> USE DEF Busy, H!Step, H!At, H!Goto, H!Answer, H!SetHandle, H!cache, H!disk
<1>1. CASE H!FindCached(c) BY <1>1 DEF WholeInv, H!FindCached
<1>2. CASE H!Open(c) BY <1>2 DEF WholeInv, H!Open, H!KeepLocal
<1>3. CASE H!OpenFails(c) BY <1>3 DEF WholeInv, H!OpenFails
<1>4. CASE H!Tune(c) BY <1>4 DEF WholeInv, H!Tune
<1>5. CASE H!TuneFails(c) BY <1>5 DEF WholeInv, H!TuneFails
<1>6. CASE H!Run(c) BY <1>6 DEF WholeInv, H!Run
<1>7. CASE H!RunFails(c) BY <1>7 DEF WholeInv, H!RunFails
<1>8. CASE H!BusyTimeout(c) BY <1>8 DEF WholeInv, H!BusyTimeout, H!TimesOut
<1>9. CASE H!List(c) BY <1>9 DEF WholeInv, H!List
<1>10. CASE H!Unlink(c) BY <1>10 DEF WholeInv, H!Unlink
<1>11. CASE H!UnlinkFails(c) BY <1>11 DEF WholeInv, H!UnlinkFails
<1>12. CASE H!Forget(c) BY <1>12 DEF WholeInv, H!Forget, H!RemoveOwn
<1> QED BY <1>1, <1>2, <1>3, <1>4, <1>5, <1>6, <1>7, <1>8, <1>9, <1>10, <1>11,
           <1>12 DEF H!Work

(* A task that moves between two awaits that agree on whether there is a   *)
(* handler, and whether it runs, disturbs nothing the handlers left alone. *)
LEMMA QuietMove ==
  ASSUME WholeInv, UNCHANGED <<step, databases>>, NEW c \in Conn, NEW t \in S!TaskState,
         task' = [task EXCEPT ![c] = t],
         task[c] \in {"absent", "backlog"} <=> t \in {"absent", "backlog"},
         task[c] # "executing", t # "executing"
  PROVE  WholeInv'
BY DEF WholeInv, HandlerFollowsTask, HoldsLock, S!TaskState

(* The connection ends between two requests, and its handler with it. *)
LEMMA DropTogether ==
  ASSUME WholeInv, NEW c \in Conn, S!Close(c), H!Drop(c)
  PROVE  WholeInv'
BY DEF WholeInv, HandlerFollowsTask, HoldsLock, S!TaskState, H!Step, S!Close, S!Goto,
       H!Drop, H!At, H!Goto, H!Emptied, H!NoHandle

LEMMA WholeInvInit == Init => WholeInv
BY DEF Init, S!Init, H!Init, WholeInv, HandlerFollowsTask, HoldsLock, S!TaskState,
       H!Step, H!NoHandle

LEMMA WholeInvNext == WholeInv /\ [Next]_vars => WholeInv'
<1> SUFFICES ASSUME WholeInv, [Next]_vars PROVE WholeInv'
  OBVIOUS
<1> USE DEF S!TaskState, H!Step
<1>1. CASE UNCHANGED vars
  BY <1>1 DEF vars, serverVars, handlerVars, WholeInv, HandlerFollowsTask, HoldsLock
<1>2. CASE Process
  BY <1>2 DEF Process, S!Start, S!Shutdown, S!Exit, handlerVars, WholeInv,
              HandlerFollowsTask, HoldsLock
<1>3. CASE Crash
  BY <1>3 DEF Crash, S!Crash, H!Crash, H!Emptied, H!NoHandle, WholeInv,
              HandlerFollowsTask, HoldsLock
<1>4. ASSUME NEW c \in Conn, Accept(c) PROVE WholeInv'
  <2>1. CASE S!IsIpAllowed(c)
    BY <1>4, <2>1 DEF Accept, S!Accept, S!Goto, H!New, H!At, H!Goto, H!cache, H!disk,
                      WholeInv, HandlerFollowsTask, HoldsLock
  <2>2. CASE ~S!IsIpAllowed(c)
    BY <1>4, <2>2, QuietMove DEF Accept, S!Accept, S!Close, S!Goto, handlerVars
  <2> QED BY <2>1, <2>2
<1>5. ASSUME NEW c \in Conn, Abort(c) \/ Close(c) PROVE WholeInv'
  BY <1>5, DropTogether DEF Abort, S!Abort, Close, Leave, DropHandler, S!Oversized,
                            S!ReadFails, S!WriteFails
<1>6. ASSUME NEW c \in Conn, Execute(c) PROVE WholeInv'
  <2> PICK r \in Requests : H!Receive(c, r) BY <1>6 DEF Execute
  <2>1. \E s \in Busy : step' = [step EXCEPT ![c] = s]
    BY DEF H!Receive, H!Goto, H!Answer, H!FirstStep, Busy
  <2> QED BY <1>6, <2>1 DEF Execute, S!Execute, S!Goto, H!Receive, H!At, H!cache, Busy,
                            WholeInv, HandlerFollowsTask, HoldsLock
<1>7. ASSUME NEW c \in Conn, Finish(c) PROVE WholeInv'
  BY <1>7 DEF Finish, S!Finish, S!Goto, H!Return, H!At, H!Goto, H!cache, WholeInv,
              HandlerFollowsTask, HoldsLock
<1>8. ASSUME NEW c \in Conn, Work(c) PROVE WholeInv'
  BY <1>8, WorkStaysBusy DEF Work, serverVars, Busy, WholeInv, HandlerFollowsTask,
                             HoldsLock
<1>9. ASSUME NEW c \in Conn, Transport(c) PROVE WholeInv'
  BY <1>9, QuietMove DEF Transport, S!ReadHeader, S!ReadBody, S!Write, S!Goto, handlerVars
<1>10. ASSUME NEW c \in Conn, Client(c) PROVE WholeInv'
  <2>1. UNCHANGED <<step, databases>>
    BY <1>10 DEF Client, handlerVars
  <2>2. CASE S!Connect(c)
    BY <2>1, <2>2, QuietMove DEF S!Connect, S!Goto
  <2>3. CASE UNCHANGED task
    BY <2>1, <2>3 DEF WholeInv, HandlerFollowsTask, HoldsLock
  <2> QED BY <1>10, <2>2, <2>3 DEF Client, S!Client, S!SendBody, S!ReadResponse,
                                   S!HangUp, S!Reset, S!Send
<1> QED BY <1>1, <1>2, <1>3, <1>4, <1>5, <1>6, <1>7, <1>8, <1>9, <1>10 DEF Next, Handle

(* A handler exists exactly while its connection is served, is inside a    *)
(* request exactly while its task holds a permit, and leaves no lock       *)
(* behind, however the connection ended (connection.rs 22, 49-55).         *)
THEOREM HandlerFollows == Spec => []HandlerFollowsTask
<1>1. WholeInv => HandlerFollowsTask
  BY DEF WholeInv
<1> QED BY <1>1, WholeInvInit, WholeInvNext, PTL DEF Spec
=============================================================================
