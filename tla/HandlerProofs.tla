--------------------------- MODULE HandlerProofs ---------------------------
(***************************************************************************)
(* Theorems about Handler, for every set of connections, database names    *)
(* and requests.                                                           *)
(***************************************************************************)
EXTENDS Handler, TLAPS

(* Types and safe names are inductive together: what Open and Unlink do to *)
(* the folder is well typed because the name they use is a safe one.       *)
BasicInv == TypeOK /\ OnlySafeNames

LEMMA ConstantsTyped ==
  /\ NoHandle \in Handle /\ NoHandle.file = 0 /\ NoHandle.tuned = FALSE
  /\ NoRequest \in Request
BY DEF NoHandle, Handle, NoRequest, Request, Query

LEMMA BasicInit == Init => BasicInv
BY ConstantsTyped, FilesAssumption
   DEF Init, BasicInv, TypeOK, OnlySafeNames, Step, Reply, Nobody

(* A request that gets past every early return of QUERY or DELETE_DB names *)
(* a safe database.                                                        *)
LEMMA ProceedSafe ==
  ASSUME NEW c, NEW r \in Request, Verdict(c, r) = "proceed"
  PROVE  /\ FirstStep(r) \in {"open", "delete", "list"}
         /\ FirstStep(r) # "list" => r.db \in Db
<1>1. CASE r.cmd = "QUERY"
  BY <1>1 DEF Verdict, QueryVerdict, IsSafeDatabaseName, FirstStep, Request
<1>2. CASE r.cmd = "DELETE_DB"
  BY <1>2 DEF Verdict, DeleteVerdict, IsSafeDatabaseName, FirstStep, Request
<1>3. CASE r.cmd \notin {"QUERY", "DELETE_DB"}
  BY <1>3 DEF FirstStep
<1> QED BY <1>1, <1>2, <1>3

LEMMA VerdictTyped ==
  ASSUME NEW c, NEW r \in Request
  PROVE  Verdict(c, r) \in Reply \cup {"proceed"}
BY DEF Verdict, QueryVerdict, DeleteVerdict, Reply

LEMMA ReceiveBasic ==
  ASSUME BasicInv, NEW c \in Conn, NEW r \in Requests, Receive(c, r)
  PROVE  BasicInv'
<1>1. r \in Request
  BY RequestAssumption
<1>2. Authenticates(r) \in BOOLEAN /\ (r.parses /\ r.auth = "right") \in BOOLEAN
  BY <1>1, RequestAssumption DEF Authenticates, Request
<1>3. /\ authenticated' \in [Conn -> BOOLEAN] /\ proved' \in [Conn -> BOOLEAN]
      /\ req' \in [Conn -> Request] /\ req'[c] = r
      /\ \A b \in Conn : b # c => req'[b] = req[b]
  BY <1>1, <1>2, Zenon DEF Receive, BasicInv, TypeOK
<1>4. CASE Verdict(c, r) = "proceed"
  <2>1. step' = [step EXCEPT ![c] = FirstStep(r)] /\ UNCHANGED reply
    BY <1>4 DEF Receive, Goto
  <2>2. FirstStep(r) \in Step /\ (FirstStep(r) # "list" => r.db \in Db)
    BY <1>1, <1>4, ProceedSafe DEF Step
  <2> QED BY <1>3, <2>1, <2>2, ProceedSafe
          DEF Receive, BasicInv, TypeOK, OnlySafeNames, cache, disk
<1>5. CASE Verdict(c, r) # "proceed"
  <2>1. /\ step' = [step EXCEPT ![c] = "done"]
        /\ reply' = [reply EXCEPT ![c] = Verdict(c, r)]
    BY <1>5 DEF Receive, Answer, Goto
  <2>2. Verdict(c, r) \in Reply
    BY <1>1, <1>5, VerdictTyped
  <2> QED BY <1>3, <2>1, <2>2
          DEF Receive, BasicInv, TypeOK, OnlySafeNames, Step, cache, disk
<1> QED BY <1>4, <1>5

(* The steps of a request that change the cache or the folder. *)
LEMMA OpenBasic ==
  ASSUME BasicInv, NEW c \in Conn, Open(c)
  PROVE  BasicInv'
<1>1. req[c].db \in Db /\ folder[req[c].db] \in 0 .. MaxFiles
  BY DEF BasicInv, TypeOK, OnlySafeNames, Open, At
<1>2. folder' \in [Db -> 0 .. MaxFiles] /\ files' \in 0 .. MaxFiles
  <2>1. CASE folder[req[c].db] # 0
    BY <2>1 DEF Open, BasicInv, TypeOK
  <2>2. CASE folder[req[c].db] = 0
    <3>1. /\ files < MaxFiles /\ files' = files + 1
          /\ folder' = [folder EXCEPT ![req[c].db] = files + 1]
      BY <2>2 DEF Open
    <3>2. files + 1 \in 0 .. MaxFiles
      BY <3>1, FilesAssumption DEF BasicInv, TypeOK
    <3> QED BY <3>1, <3>2 DEF BasicInv, TypeOK
  <2> QED BY <2>1, <2>2
<1>3. [NoHandle EXCEPT !.file = folder'[req[c].db]] \in Handle
  <2>1. folder'[req[c].db] \in Nat
    BY <1>1, <1>2, FilesAssumption
  <2>2. ASSUME NEW f \in Nat PROVE [NoHandle EXCEPT !.file = f] \in Handle
    BY DEF NoHandle, Handle
  <2> QED BY <2>1, <2>2
<1>4. conn' \in [Conn -> Handle]
  BY <1>3 DEF Open, BasicInv, TypeOK
<1> QED BY <1>1, <1>2, <1>4
        DEF Open, KeepLocal, Goto, At, BasicInv, TypeOK, OnlySafeNames, Step

LEMMA WorkBasic ==
  ASSUME BasicInv, NEW c \in Conn, Work(c)
  PROVE  BasicInv'
<1> USE DEF BasicInv, OnlySafeNames, At, Goto, Step
<1>1. CASE FindCached(c)
  BY <1>1 DEF FindCached, TypeOK, cache, disk
<1>2. CASE Open(c)
  BY <1>2, OpenBasic
<1>3. CASE OpenFails(c) \/ BusyTimeout(c) \/ List(c) \/ UnlinkFails(c)
  BY <1>3 DEF OpenFails, BusyTimeout, List, UnlinkFails, TypeOK, Answer, Reply,
              cache, disk
<1>4. CASE Tune(c)
  <2>1. [conn[c] EXCEPT !.tuned = TRUE] \in Handle
    BY DEF TypeOK, Handle
  <2> HIDE DEF BasicInv
  <2>2. databases' \in [Conn -> [Db -> Handle]] /\ conn' \in [Conn -> Handle]
    BY <1>4, <2>1, ConstantsTyped DEF Tune, SetHandle, BasicInv, TypeOK
  <2> QED BY <1>4, <2>2 DEF Tune, BasicInv, TypeOK, disk
<1>5. CASE TuneFails(c)
  BY <1>5, ConstantsTyped DEF TuneFails, TypeOK, Answer, Reply, disk
<1>6. ASSUME NEW m \in {"auto", "begun", "write"},
             LET h == databases[c][req[c].db] IN
               SetHandle(c, req[c].db, [h EXCEPT !.mode = m]),
             At(c, "run"), NEW a \in Reply, Answer(c, a),
             UNCHANGED <<req, authenticated, conn, disk, proved>>
      PROVE  BasicInv'
  <2>1. databases[c][req[c].db] \in Handle
    BY <1>6 DEF TypeOK
  <2>2. [databases[c][req[c].db] EXCEPT !.mode = m] \in Handle
    BY <2>1 DEF Handle
  <2>3. databases' \in [Conn -> [Db -> Handle]]
    BY <1>6, <2>2 DEF SetHandle, TypeOK
  <2> QED BY <1>6, <2>3 DEF TypeOK, Answer, disk
<1>7. CASE Run(c) \/ RunFails(c)
  <2>1. databases[c][req[c].db] \in Handle
    BY <1>7 DEF Run, RunFails, TypeOK
  <2>2. databases[c][req[c].db].mode \in {"auto", "begun", "write"}
    BY <2>1 DEF Handle
  <2>3. ModeAfter(databases[c][req[c].db].mode, req[c].query)
          \in {"auto", "begun", "write"}
    BY <2>2 DEF ModeAfter
  <2>4. "rows" \in Reply /\ "sqlite_error" \in Reply
    BY DEF Reply
  <2>5. CASE Run(c)
    BY <1>6, <2>3, <2>4, <2>5 DEF Run
  <2>6. CASE RunFails(c)
    BY <1>6, <2>2, <2>4, <2>6 DEF RunFails
  <2> QED BY <1>7, <2>5, <2>6
<1>8. CASE Unlink(c)
  <2>1. req[c].db \in Db
    BY <1>8 DEF Unlink
  <2>2. folder' \in [Db -> 0 .. MaxFiles]
        /\ removedBy' \in [1 .. MaxFiles -> Conn \cup {Nobody}]
    BY <1>8, <2>1, FilesAssumption DEF Unlink, TypeOK
  <2> QED BY <1>8, <2>1, <2>2 DEF Unlink, TypeOK, cache
<1>9. CASE Forget(c)
  BY <1>9, ConstantsTyped
     DEF Forget, RemoveOwn, SetHandle, TypeOK, Answer, Reply, disk
<1> QED BY <1>1, <1>2, <1>3, <1>4, <1>5, <1>7, <1>8, <1>9 DEF Work

LEMMA BasicStep ==
  ASSUME BasicInv, [Next]_vars
  PROVE  BasicInv'
<1>1. CASE UNCHANGED vars
  BY <1>1 DEF vars, call, cache, disk, BasicInv, TypeOK, OnlySafeNames
<1>2. CASE Crash
  BY <1>2, ConstantsTyped
     DEF Crash, Emptied, disk, BasicInv, TypeOK, OnlySafeNames, Step, Reply
<1>3. ASSUME NEW c \in Conn, New(c) \/ Drop(c) \/ Return(c)
      PROVE  BasicInv'
  <2> USE DEF At, Goto, cache, disk, BasicInv, TypeOK, OnlySafeNames, Step
  <2>1. CASE New(c)
    BY <2>1 DEF New, LoggedOut
  <2>2. CASE Drop(c)
    <3>1. Emptied \in [Db -> Handle]
      BY ConstantsTyped DEF Emptied
    <3> QED BY <2>2, <3>1 DEF Drop
  <2>3. CASE Return(c)
    BY <2>3, ConstantsTyped DEF Return, Reply
  <2> QED BY <1>3, <2>1, <2>2, <2>3
<1> QED BY <1>1, <1>2, <1>3, WorkBasic, ReceiveBasic DEF Next

(* Every variable keeps its type, and no handler step touches the folder   *)
(* under a name is_safe_database_name has not accepted.                    *)
THEOREM HandlerTypeCorrect == Spec => [](TypeOK /\ OnlySafeNames)
<1>1. BasicInv <=> TypeOK /\ OnlySafeNames
  BY DEF BasicInv
<1> QED BY <1>1, BasicInit, BasicStep, PTL DEF Spec

(* The type invariant of the handler by itself: whatever requests come and *)
(* whichever operations fail, a handler stands at one of its steps with a  *)
(* reply of the protocol (handler.rs 40-196).                              *)
THEOREM HandlerTypes == Spec => []TypeOK
BY HandlerTypeCorrect, PTL

-----------------------------------------------------------------------------
(* The authentication gate.  It is inductive once it is known that a       *)
(* connection counts as authenticated only if it sent the password, and    *)
(* that a slot starts its next connection with an empty cache.             *)

AuthInv ==
  AuthRequired =>
    \A c \in Conn :
      /\ step[c] \in {"gone", "idle"} => reply[c] = "none"
      /\ step[c] = "gone" => \A d \in Db : ~Cached(c, d)
      /\ step[c] # "gone" /\ authenticated[c] => proved[c]

LEMMA AuthReceive ==
  ASSUME BasicInv, AuthInv, AuthGate, AuthRequired,
         NEW c \in Conn, NEW r \in Requests, Receive(c, r)
  PROVE  AuthInv' /\ AuthGate'
<1>1. /\ authenticated'[c] = (authenticated[c] \/ Authenticates(r))
      /\ proved'[c] = (proved[c] \/ (r.parses /\ r.auth = "right"))
      /\ \A b \in Conn : b # c => authenticated'[b] = authenticated[b]
                                  /\ proved'[b] = proved[b]
  BY DEF Receive, BasicInv, TypeOK
<1>2. step[c] = "idle" /\ UNCHANGED databases
  BY DEF Receive, At, cache
<1>3. Authenticates(r) => r.parses /\ r.auth = "right"
  BY DEF Authenticates
<1>4. AuthInv'
  <2>1. \A b \in Conn : b # c => step'[b] = step[b] /\ reply'[b] = reply[b]
    BY DEF Receive, Goto, Answer, BasicInv, TypeOK
  <2>2. step'[c] \notin {"gone", "idle"}
    <3>1. r \in Request
      BY RequestAssumption
    <3> QED BY <3>1, ProceedSafe DEF Receive, Goto, Answer, BasicInv, TypeOK
  <2> QED BY <1>1, <1>2, <1>3, <2>1, <2>2 DEF AuthInv, Cached
<1>5. ASSUME ~proved'[c]
      PROVE  step'[c] = "done" /\ reply'[c] \in {"invalid_format", "result_error"}
  <2>1. ~proved[c] /\ ~authenticated[c] /\ ~(r.parses /\ r.auth = "right")
    BY <1>1, <1>2, <1>5 DEF AuthInv
  <2>2. Verdict(c, r) \in {"invalid_format", "result_error"}
    BY <1>3, <2>1 DEF Verdict
  <2> QED BY <2>2 DEF Receive, Answer, Goto, BasicInv, TypeOK
<1>6. AuthGate'
  <2>1. \A b \in Conn : b # c => step'[b] = step[b] /\ reply'[b] = reply[b]
    BY DEF Receive, Goto, Answer, BasicInv, TypeOK
  <2>2. ~proved'[c] => \A d \in Db : ~Cached(c, d)
    BY <1>1, <1>2 DEF AuthGate
  <2> QED BY <1>1, <1>2, <1>5, <2>1, <2>2 DEF AuthGate, Cached
<1> QED BY <1>4, <1>6

(* Without the password nothing is opened, run or disclosed, whoever used  *)
(* the connection slot before.                                             *)
THEOREM AuthGateHolds == Spec => []AuthGate
<1> DEFINE Inv == AuthInv /\ AuthGate
<1>1. Init => Inv
  BY DEF Init, AuthInv, AuthGate, Cached, NoHandle
<1>2. ASSUME BasicInv, BasicInv', Inv, [Next]_vars
      PROVE  Inv'
  <2> SUFFICES ASSUME AuthRequired PROVE Inv'
    BY DEF AuthInv, AuthGate
  <2> USE <1>2
  <2>1. CASE UNCHANGED vars
    BY <2>1 DEF vars, call, cache, AuthInv, AuthGate, Cached
  <2>2. CASE Crash
    BY <2>2 DEF Crash, Emptied, NoHandle, AuthInv, AuthGate, Cached
  <2>3. ASSUME NEW c \in Conn, New(c)
        PROVE  Inv'
    BY <2>3 DEF New, LoggedOut, At, Goto, cache, AuthInv, AuthGate, Cached,
                BasicInv, TypeOK
  <2>4. ASSUME NEW c \in Conn, Drop(c)
        PROVE  Inv'
    BY <2>4 DEF Drop, At, Goto, Emptied, NoHandle, AuthInv, AuthGate, Cached,
                BasicInv, TypeOK
  <2>5. ASSUME NEW c \in Conn, Return(c)
        PROVE  Inv'
    BY <2>5 DEF Return, At, Goto, cache, AuthInv, AuthGate, Cached, BasicInv, TypeOK
  <2>6. ASSUME NEW c \in Conn, Work(c)
        PROVE  Inv'
    <3>1. step[c] \notin {"gone", "idle", "done"}
      BY <2>6 DEF Work, FindCached, Open, OpenFails, Tune, TuneFails, Run, RunFails,
                  BusyTimeout, TimesOut, List, Unlink, UnlinkFails, Forget, At
    <3>2. proved[c] /\ UNCHANGED <<authenticated, proved>>
      BY <2>6, <3>1 DEF Work, FindCached, Open, OpenFails, Tune, TuneFails, Run,
                  RunFails, BusyTimeout, List, Unlink, UnlinkFails, Forget, AuthGate
    <3>3. /\ step'[c] \notin {"gone", "idle"}
          /\ \A b \in Conn : b # c => step'[b] = step[b] /\ reply'[b] = reply[b]
      BY <2>6 DEF Work, FindCached, Open, OpenFails, Tune, TuneFails, Run, RunFails,
                  BusyTimeout, List, Unlink, UnlinkFails, Forget, Answer, Goto,
                  BasicInv, TypeOK
    <3>4. \A b \in Conn : b # c => databases'[b] = databases[b]
      BY <2>6 DEF Work, FindCached, Open, KeepLocal, OpenFails, Tune, TuneFails, Run,
                  RunFails, BusyTimeout, List, Unlink, UnlinkFails, Forget,
                  RemoveOwn, SetHandle, cache, BasicInv, TypeOK
    <3> QED BY <3>1, <3>2, <3>3, <3>4 DEF AuthInv, AuthGate, Cached
  <2> QED BY <2>1, <2>2, <2>3, <2>4, <2>5, <2>6, AuthReceive DEF Next
<1>3. BasicInv <=> TypeOK /\ OnlySafeNames
  BY DEF BasicInv
<1> QED BY <1>1, <1>2, <1>3, HandlerTypeCorrect, PTL DEF Spec

-----------------------------------------------------------------------------
(* Stale handles.  The invariant ties every handle to the folder through   *)
(* the history of removals: a file is created under one name, loses it     *)
(* once, and a handle was opened on the file that then bore its name.      *)

FolderInv ==
  /\ \A d \in Db : folder[d] # 0 =>
       folder[d] \in 1 .. files /\ removedBy[folder[d]] = Nobody
  /\ \A d, e \in Db : folder[d] # 0 /\ folder[d] = folder[e] => d = e
  /\ \A f \in 1 .. MaxFiles : f > files => removedBy[f] = Nobody

CacheInv ==
  \A c \in Conn, d \in Db : Cached(c, d) =>
    LET f == databases[c][d].file IN
    /\ f \in 1 .. files
    /\ f = folder[d] \/ removedBy[f] # Nobody
    /\ removedBy[f] = c => step[c] = "forget" /\ req[c].db = d

LocalInv ==
  \A c \in Conn : step[c] = "tune" =>
    LET f == conn[c].file IN
    /\ f \in 1 .. files
    /\ f = folder[req[c].db] \/ removedBy[f] # Nobody
    /\ removedBy[f] # c

StaleInv == FolderInv /\ CacheInv /\ LocalInv

LEMMA StaleInvImplies ==
  ASSUME StaleInv PROVE StaleOnlyByOthers
BY DEF StaleInv, CacheInv, StaleOnlyByOthers

(* A step that leaves the folder and the handles' files alone. *)
LEMMA StaleQuiet ==
  ASSUME BasicInv, StaleInv, NEW c \in Conn, UNCHANGED disk,
         \A b \in Conn \ {c} : /\ step'[b] = step[b] /\ req'[b] = req[b]
                               /\ databases'[b] = databases[b] /\ conn'[b] = conn[b],
         step[c] # "forget", step'[c] # "tune",
         \A d \in Db : databases'[c][d].file \in {0, databases[c][d].file}
  PROVE  StaleInv'
<1>1. FolderInv'
  BY DEF StaleInv, FolderInv, disk
<1>2. CacheInv'
  <2> SUFFICES ASSUME NEW b \in Conn, NEW d \in Db, Cached(b, d)'
               PROVE  LET f == databases'[b][d].file IN
                      /\ f \in 1 .. files'
                      /\ f = folder'[d] \/ removedBy'[f] # Nobody
                      /\ removedBy'[f] = b => step'[b] = "forget" /\ req'[b].db = d
    BY DEF CacheInv
  <2>1. databases'[b][d].file = databases[b][d].file /\ Cached(b, d)
    BY DEF Cached
  <2> QED BY <2>1 DEF StaleInv, CacheInv, disk
<1>3. LocalInv'
  BY DEF StaleInv, LocalInv, disk
<1> QED BY <1>1, <1>2, <1>3 DEF StaleInv

LEMMA StaleOpen ==
  ASSUME BasicInv, StaleInv, NEW c \in Conn, Open(c)
  PROVE  StaleInv'
<1> DEFINE d == req[c].db
           f == folder'[d]
<1>1. d \in Db /\ folder[d] \in 0 .. MaxFiles /\ files \in 0 .. MaxFiles
  BY DEF Open, At, BasicInv, TypeOK, OnlySafeNames
<1>2. /\ UNCHANGED <<req, databases, removedBy>>
      /\ step' = [step EXCEPT ![c] = "tune"]
      /\ conn' = [conn EXCEPT ![c] = [NoHandle EXCEPT !.file = f]]
      /\ step[c] = "open"
  BY DEF Open, KeepLocal, Goto, At
<1>3. files \in Nat /\ files' \in Nat /\ files <= files' /\ files' <= MaxFiles
  BY <1>1, FilesAssumption DEF Open
<1>4. /\ f \in 1 .. files' /\ removedBy[f] = Nobody
      /\ \A e \in Db : e # d => folder'[e] = folder[e] /\ folder[e] # f
      /\ folder[d] # 0 => f = folder[d]
  <2>1. CASE folder[d] # 0
    BY <1>1, <2>1 DEF Open, StaleInv, FolderInv
  <2>2. CASE folder[d] = 0
    <3>1. /\ files < MaxFiles /\ files' = files + 1
          /\ folder' = [folder EXCEPT ![d] = files + 1]
      BY <2>2 DEF Open
    <3>2. f = files + 1 /\ \A e \in Db : e # d => folder'[e] = folder[e]
      BY <1>1, <3>1 DEF BasicInv, TypeOK
    <3>3. \A e \in Db : folder[e] # files + 1
      BY <1>3, FilesAssumption DEF StaleInv, FolderInv
    <3>4. removedBy[files + 1] = Nobody
      BY <1>3, <3>1, FilesAssumption DEF StaleInv, FolderInv
    <3> QED BY <1>3, <2>2, <3>1, <3>2, <3>3, <3>4
  <2> QED BY <2>1, <2>2
<1>5. conn'[c].file = f /\ \A b \in Conn : b # c => conn'[b] = conn[b]
  BY <1>2 DEF NoHandle, BasicInv, TypeOK
<1> HIDE DEF f
<1>6. FolderInv'
  <2>1. \A e \in Db : folder'[e] # 0 =>
          folder'[e] \in 1 .. files' /\ removedBy[folder'[e]] = Nobody
    BY <1>1, <1>3, <1>4 DEF StaleInv, FolderInv, f
  <2>2. \A e, g \in Db : folder'[e] # 0 /\ folder'[e] = folder'[g] => e = g
    BY <1>1, <1>4 DEF StaleInv, FolderInv, f
  <2>3. \A g \in 1 .. MaxFiles : g > files' => removedBy[g] = Nobody
    BY <1>3, FilesAssumption DEF StaleInv, FolderInv
  <2> QED BY <1>2, <2>1, <2>2, <2>3 DEF FolderInv
<1>7. CacheInv'
  <2> SUFFICES ASSUME NEW b \in Conn, NEW e \in Db, Cached(b, e)
               PROVE  LET g == databases[b][e].file IN
                      /\ g \in 1 .. files'
                      /\ g = folder'[e] \/ removedBy[g] # Nobody
                      /\ removedBy[g] = b => step'[b] = "forget" /\ req[b].db = e
    BY <1>2 DEF CacheInv, Cached
  <2>1. LET g == databases[b][e].file IN
        /\ g \in 1 .. files
        /\ g = folder[e] \/ removedBy[g] # Nobody
        /\ removedBy[g] = b => step[b] = "forget" /\ req[b].db = e
    BY DEF StaleInv, CacheInv
  <2>2. folder[e] # 0 => folder'[e] = folder[e]
    BY <1>4 DEF f
  <2>3. step[b] = "forget" => step'[b] = "forget"
    BY <1>2 DEF BasicInv, TypeOK
  <2> QED BY <1>3, <2>1, <2>2, <2>3
<1>8. LocalInv'
  <2>1. /\ f \in 1 .. files' /\ f = folder'[d] /\ removedBy[f] # c
    BY <1>4, NobodyAssumption DEF f
  <2>2. ASSUME NEW b \in Conn, b # c, step[b] = "tune"
        PROVE  LET g == conn[b].file IN
               /\ g \in 1 .. files'
               /\ g = folder'[req[b].db] \/ removedBy[g] # Nobody
               /\ removedBy[g] # b
    <3>1. req[b].db \in Db
      BY <2>2 DEF BasicInv, OnlySafeNames
    <3>2. folder[req[b].db] # 0 => folder'[req[b].db] = folder[req[b].db]
      BY <1>4, <3>1 DEF f
    <3> QED BY <1>3, <2>2, <3>2 DEF StaleInv, LocalInv
  <2> QED BY <1>2, <1>5, <2>1, <2>2 DEF LocalInv, BasicInv, TypeOK
<1> QED BY <1>6, <1>7, <1>8 DEF StaleInv

LEMMA StaleUnlink ==
  ASSUME BasicInv, StaleInv, NEW c \in Conn, Unlink(c)
  PROVE  StaleInv'
<1> DEFINE d == req[c].db
           f == folder[d]
<1>1. /\ d \in Db /\ f \in 1 .. files /\ removedBy[f] = Nobody
      /\ f \in 1 .. MaxFiles /\ c # Nobody
  BY NobodyAssumption, FilesAssumption
     DEF Unlink, At, BasicInv, TypeOK, OnlySafeNames, StaleInv, FolderInv
<1>2. /\ UNCHANGED <<req, databases, conn, files>>
      /\ step[c] = "delete" /\ step'[c] = "forget"
      /\ \A b \in Conn : b # c => step'[b] = step[b]
  BY DEF Unlink, Goto, At, cache, BasicInv, TypeOK
<1>3. folder'[d] = 0 /\ \A e \in Db : e # d => folder'[e] = folder[e]
  BY <1>1 DEF Unlink, BasicInv, TypeOK
<1>4. /\ removedBy'[f] = c
      /\ \A g \in 1 .. MaxFiles : g # f => removedBy'[g] = removedBy[g]
  BY <1>1 DEF Unlink, BasicInv, TypeOK
<1>5. files \in Nat /\ 1 .. files \subseteq 1 .. MaxFiles
  BY FilesAssumption DEF BasicInv, TypeOK
<1>6. \A e \in Db : e # d => folder[e] # f
  BY <1>1 DEF StaleInv, FolderInv
<1> HIDE DEF f
<1>7. FolderInv'
  <2>1. \A e \in Db : folder'[e] # 0 => e # d /\ folder'[e] = folder[e]
    BY <1>3
  <2>2. \A g \in 1 .. MaxFiles : g > files => removedBy'[g] = Nobody
    BY <1>1, <1>4, <1>5 DEF StaleInv, FolderInv
  <2> QED BY <1>2, <1>4, <1>5, <1>6, <2>1, <2>2 DEF StaleInv, FolderInv
<1>8. CacheInv'
  <2> SUFFICES ASSUME NEW b \in Conn, NEW e \in Db, Cached(b, e)
               PROVE  LET g == databases[b][e].file IN
                      /\ g \in 1 .. files
                      /\ g = folder'[e] \/ removedBy'[g] # Nobody
                      /\ removedBy'[g] = b => step'[b] = "forget" /\ req[b].db = e
    BY <1>2 DEF CacheInv, Cached
  <2> DEFINE g == databases[b][e].file
  <2>1. /\ g \in 1 .. files
        /\ g = folder[e] \/ removedBy[g] # Nobody
        /\ removedBy[g] = b => step[b] = "forget" /\ req[b].db = e
    BY DEF StaleInv, CacheInv
  <2> HIDE DEF g
  <2>2. CASE g = f
    <3>1. e = d
      BY <1>1, <1>6, <2>1, <2>2
    <3> QED BY <1>1, <1>2, <1>4, <2>1, <2>2, <3>1 DEF g
  <2>3. CASE g # f
    <3>1. removedBy'[g] = removedBy[g]
      BY <1>4, <1>5, <2>1, <2>3
    <3>2. g = folder[e] => g = folder'[e]
      BY <1>3, <2>3 DEF f
    <3>3. step[b] = "forget" => step'[b] = "forget"
      BY <1>2
    <3> QED BY <2>1, <3>1, <3>2, <3>3 DEF g
  <2> QED BY <2>2, <2>3
<1>9. LocalInv'
  <2> SUFFICES ASSUME NEW b \in Conn, b # c, step[b] = "tune"
               PROVE  LET g == conn[b].file IN
                      /\ g \in 1 .. files
                      /\ g = folder'[req[b].db] \/ removedBy'[g] # Nobody
                      /\ removedBy'[g] # b
    BY <1>2 DEF LocalInv
  <2> DEFINE g == conn[b].file
  <2>1. /\ g \in 1 .. files /\ req[b].db \in Db
        /\ g = folder[req[b].db] \/ removedBy[g] # Nobody
        /\ removedBy[g] # b
    BY DEF StaleInv, LocalInv, BasicInv, OnlySafeNames
  <2> HIDE DEF g
  <2>2. CASE g = f
    BY <1>1, <1>4, <2>1, <2>2 DEF g
  <2>3. CASE g # f
    <3>1. removedBy'[g] = removedBy[g]
      BY <1>4, <1>5, <2>1, <2>3
    <3>2. g = folder[req[b].db] => g = folder'[req[b].db]
      BY <1>3, <2>1, <2>3 DEF f
    <3> QED BY <2>1, <3>1, <3>2 DEF g
  <2> QED BY <2>2, <2>3
<1> QED BY <1>7, <1>8, <1>9 DEF StaleInv

LEMMA StaleTune ==
  ASSUME BasicInv, StaleInv, NEW c \in Conn, Tune(c)
  PROVE  StaleInv'
<1> DEFINE d == req[c].db
<1>1. /\ d \in Db /\ step[c] = "tune" /\ step'[c] = "run"
      /\ UNCHANGED <<req, folder, files, removedBy>>
      /\ \A b \in Conn : b # c => /\ step'[b] = step[b] /\ conn'[b] = conn[b]
                                  /\ databases'[b] = databases[b]
      /\ databases'[c] = [databases[c] EXCEPT ![d] = [conn[c] EXCEPT !.tuned = TRUE]]
  BY DEF Tune, At, Goto, SetHandle, disk, BasicInv, TypeOK, OnlySafeNames
<1>2. /\ databases'[c][d].file = conn[c].file
      /\ \A e \in Db : e # d => databases'[c][e] = databases[c][e]
  <2>1. conn[c] \in Handle /\ databases[c] \in [Db -> Handle]
    BY DEF BasicInv, TypeOK
  <2>2. [conn[c] EXCEPT !.tuned = TRUE].file = conn[c].file
    BY <2>1 DEF Handle
  <2> QED BY <1>1, <2>1, <2>2
<1>3. FolderInv'
  BY <1>1 DEF StaleInv, FolderInv
<1>4. CacheInv'
  <2> SUFFICES ASSUME NEW b \in Conn, NEW e \in Db, Cached(b, e)'
               PROVE  LET g == databases'[b][e].file IN
                      /\ g \in 1 .. files'
                      /\ g = folder'[e] \/ removedBy'[g] # Nobody
                      /\ removedBy'[g] = b => step'[b] = "forget" /\ req'[b].db = e
    BY DEF CacheInv
  <2>1. CASE b = c /\ e = d
    BY <1>1, <1>2, <2>1 DEF StaleInv, LocalInv
  <2>2. CASE b # c \/ e # d
    <3>1. databases'[b][e] = databases[b][e] /\ Cached(b, e)
      BY <1>1, <1>2, <2>2 DEF Cached
    <3> QED BY <1>1, <2>2, <3>1 DEF StaleInv, CacheInv
  <2> QED BY <2>1, <2>2
<1>5. LocalInv'
  BY <1>1 DEF StaleInv, LocalInv
<1> QED BY <1>3, <1>4, <1>5 DEF StaleInv

LEMMA StaleForget ==
  ASSUME BasicInv, StaleInv, NEW c \in Conn, Forget(c)
  PROVE  StaleInv'
<1> DEFINE d == req[c].db
<1>1. /\ d \in Db /\ step[c] = "forget" /\ step'[c] = "done"
      /\ UNCHANGED <<req, conn, folder, files, removedBy>>
      /\ \A b \in Conn : b # c => step'[b] = step[b] /\ databases'[b] = databases[b]
      /\ databases'[c] = [databases[c] EXCEPT ![d] = NoHandle]
  BY DEF Forget, RemoveOwn, SetHandle, Answer, At, Goto, disk, BasicInv, TypeOK,
         OnlySafeNames
<1>2. /\ databases'[c][d].file = 0
      /\ \A e \in Db : e # d => databases'[c][e] = databases[c][e]
  BY <1>1, ConstantsTyped DEF BasicInv, TypeOK
<1>3. FolderInv'
  BY <1>1 DEF StaleInv, FolderInv
<1>4. CacheInv'
  <2> SUFFICES ASSUME NEW b \in Conn, NEW e \in Db, Cached(b, e)'
               PROVE  LET g == databases'[b][e].file IN
                      /\ g \in 1 .. files'
                      /\ g = folder'[e] \/ removedBy'[g] # Nobody
                      /\ removedBy'[g] = b => step'[b] = "forget" /\ req'[b].db = e
    BY DEF CacheInv
  <2>1. databases'[b][e] = databases[b][e] /\ Cached(b, e) /\ (b # c \/ e # d)
    BY <1>1, <1>2 DEF Cached
  <2> QED BY <1>1, <2>1 DEF StaleInv, CacheInv
<1>5. LocalInv'
  BY <1>1 DEF StaleInv, LocalInv
<1> QED BY <1>3, <1>4, <1>5 DEF StaleInv

(* Every other step of a connection is quiet. *)
LEMMA OtherStepsQuiet ==
  ASSUME BasicInv, StaleInv, NEW c \in Conn,
         \/ New(c) \/ Drop(c) \/ Return(c) \/ \E r \in Requests : Receive(c, r)
         \/ FindCached(c) \/ OpenFails(c) \/ TuneFails(c) \/ Run(c) \/ RunFails(c)
         \/ BusyTimeout(c) \/ List(c) \/ UnlinkFails(c)
  PROVE  StaleInv'
<1> USE DEF At, Goto, Answer
<1>1. CASE New(c) \/ FindCached(c) \/ OpenFails(c) \/ BusyTimeout(c) \/ List(c)
           \/ UnlinkFails(c) \/ TuneFails(c) \/ Return(c)
  BY <1>1, StaleQuiet
     DEF New, FindCached, OpenFails, BusyTimeout, TimesOut, List, UnlinkFails,
         TuneFails, Return, cache, BasicInv, TypeOK
<1>2. CASE Drop(c)
  BY <1>2, StaleQuiet, ConstantsTyped DEF Drop, Emptied, BasicInv, TypeOK
<1>3. CASE \E r \in Requests : Receive(c, r)
  <2>1. PICK r \in Requests : Receive(c, r)
    BY <1>3
  <2>2. step'[c] # "tune"
    <3>1. r \in Request
      BY RequestAssumption
    <3> QED BY <2>1, <3>1, ProceedSafe DEF Receive, BasicInv, TypeOK
  <2> QED BY <2>1, <2>2, StaleQuiet DEF Receive, cache, BasicInv, TypeOK
<1>4. CASE Run(c) \/ RunFails(c)
  <2>1. PICK m : SetHandle(c, req[c].db, [databases[c][req[c].db] EXCEPT !.mode = m])
    BY <1>4 DEF Run, RunFails
  <2>2. /\ databases[c] \in [Db -> Handle]
        /\ databases'[c] = [databases[c] EXCEPT
                              ![req[c].db] = [databases[c][req[c].db] EXCEPT !.mode = m]]
        /\ \A b \in Conn : b # c => databases'[b] = databases[b]
    BY <2>1 DEF SetHandle, BasicInv, TypeOK
  <2>3. \A d \in Db : databases'[c][d].file = databases[c][d].file
    <3>1. ASSUME NEW h \in Handle PROVE [h EXCEPT !.mode = m].file = h.file
      BY DEF Handle
    <3> QED BY <2>2, <3>1
  <2>4. /\ step[c] = "run" /\ step'[c] = "done" /\ UNCHANGED <<req, conn, disk>>
        /\ \A b \in Conn : b # c => step'[b] = step[b]
    BY <1>4 DEF Run, RunFails, BasicInv, TypeOK
  <2>5. \A b \in Conn \ {c} : /\ step'[b] = step[b] /\ req'[b] = req[b]
                              /\ databases'[b] = databases[b] /\ conn'[b] = conn[b]
    BY <2>2, <2>4
  <2>6. \A d \in Db : databases'[c][d].file \in {0, databases[c][d].file}
    BY <2>3
  <2>7. step[c] # "forget" /\ step'[c] # "tune" /\ UNCHANGED disk
    BY <2>4
  <2> QED BY <2>5, <2>6, <2>7, StaleQuiet
<1> QED BY <1>1, <1>2, <1>3, <1>4

LEMMA StaleStep ==
  ASSUME BasicInv, StaleInv, [Next]_vars
  PROVE  StaleInv'
<1>1. CASE UNCHANGED vars
  BY <1>1 DEF vars, call, cache, disk, StaleInv, FolderInv, CacheInv, LocalInv, Cached
<1>2. CASE Crash
  BY <1>2, ConstantsTyped
     DEF Crash, Emptied, disk, StaleInv, FolderInv, CacheInv, LocalInv, Cached
<1> QED BY <1>1, <1>2, StaleOpen, StaleUnlink, StaleTune, StaleForget, OtherStepsQuiet
        DEF Next, Work

LEMMA StaleInvariant == Spec => []StaleInv
<1>1. Init => StaleInv
  BY FilesAssumption
     DEF Init, NoHandle, StaleInv, FolderInv, CacheInv, LocalInv, Cached
<1>2. BasicInv <=> TypeOK /\ OnlySafeNames
  BY DEF BasicInv
<1> QED BY <1>1, <1>2, StaleStep, HandlerTypeCorrect, PTL DEF Spec

(* Only another connection's DELETE_DB can leave a connection with a       *)
(* cached handle on a file that no longer bears the name.                  *)
THEOREM StaleHandles == Spec => []StaleOnlyByOthers
BY StaleInvariant, StaleInvImplies, PTL

(* A statement runs only on a handle that has had its PRAGMA batch.  That  *)
(* get_connection leaves a handle in the cache rests on the local handle   *)
(* being on a file, a part of StaleInv.                                    *)
THEOREM StatementsAreTuned == Spec => []CachedIsTuned
<1>1. Init => CachedIsTuned
  <2> SUFFICES ASSUME Init PROVE CachedIsTuned
    OBVIOUS
  <2>1. \A c \in Conn : step[c] = "gone" /\ \A d \in Db : databases[c][d] = NoHandle
    BY DEF Init
  <2> QED BY <2>1, ConstantsTyped DEF CachedIsTuned, Cached
<1>2. ASSUME BasicInv, StaleInv, CachedIsTuned, [Next]_vars
      PROVE  CachedIsTuned'
  <2> USE <1>2 DEF At, Goto, Answer
  <2>1. CASE UNCHANGED vars
    BY <2>1 DEF vars, call, cache, CachedIsTuned, Cached
  <2>2. CASE Crash
    BY <2>2, ConstantsTyped DEF Crash, Emptied, CachedIsTuned, Cached
  <2>3. ASSUME NEW c \in Conn, UNCHANGED databases, step'[c] # "run",
               \A b \in Conn : b # c => step'[b] = step[b] /\ req'[b] = req[b]
        PROVE  CachedIsTuned'
    BY <2>3 DEF CachedIsTuned, Cached
  <2>4. ASSUME NEW c \in Conn,
               \/ New(c) \/ Return(c) \/ Open(c) \/ OpenFails(c) \/ TuneFails(c)
               \/ BusyTimeout(c) \/ List(c) \/ Unlink(c) \/ UnlinkFails(c)
        PROVE  CachedIsTuned'
    BY <2>3, <2>4
       DEF New, Return, Open, KeepLocal, OpenFails, TuneFails, BusyTimeout, List,
           Unlink, UnlinkFails, cache, BasicInv, TypeOK
  <2>5. ASSUME NEW c \in Conn, NEW r \in Requests, Receive(c, r)
        PROVE  CachedIsTuned'
    <3>1. step'[c] # "run"
      <4>1. r \in Request
        BY RequestAssumption
      <4> QED BY <2>5, <4>1, ProceedSafe DEF Receive, BasicInv, TypeOK
    <3> QED BY <2>3, <2>5, <3>1 DEF Receive, cache, BasicInv, TypeOK
  <2>6. ASSUME NEW c \in Conn, FindCached(c)
        PROVE  CachedIsTuned'
    BY <2>6 DEF FindCached, cache, CachedIsTuned, Cached, BasicInv, TypeOK
  <2>7. ASSUME NEW c \in Conn, NEW d \in Db, NEW h \in Handle, SetHandle(c, d, h),
               h.file # 0 => h.tuned, step'[c] = "run" => d = req'[c].db /\ h.file # 0,
               \A b \in Conn : b # c => step'[b] = step[b] /\ req'[b] = req[b]
        PROVE  CachedIsTuned'
    <3>1. /\ databases'[c][d] = h
          /\ \A e \in Db : e # d => databases'[c][e] = databases[c][e]
          /\ \A b \in Conn : b # c => databases'[b] = databases[b]
      BY <2>7 DEF SetHandle, BasicInv, TypeOK
    <3> QED BY <2>7, <3>1 DEF CachedIsTuned, Cached
  <2>8. ASSUME NEW c \in Conn, Tune(c)
        PROVE  CachedIsTuned'
    <3> DEFINE h == [conn[c] EXCEPT !.tuned = TRUE]
    <3>1. conn[c] \in Handle /\ conn[c].file # 0 /\ req[c].db \in Db
      BY <2>8 DEF Tune, StaleInv, LocalInv, BasicInv, TypeOK, OnlySafeNames
    <3>2. h \in Handle /\ h.file # 0 /\ h.tuned
      BY <3>1 DEF Handle
    <3>3. /\ SetHandle(c, req[c].db, h) /\ UNCHANGED req
          /\ \A b \in Conn : b # c => step'[b] = step[b]
      BY <2>8 DEF Tune, BasicInv, TypeOK
    <3> HIDE DEF h
    <3> QED BY <2>7, <3>1, <3>2, <3>3
  <2>9. ASSUME NEW c \in Conn, Forget(c)
        PROVE  CachedIsTuned'
    <3>1. /\ SetHandle(c, req[c].db, NoHandle) /\ UNCHANGED req /\ req[c].db \in Db
          /\ step'[c] # "run" /\ \A b \in Conn : b # c => step'[b] = step[b]
      BY <2>9 DEF Forget, RemoveOwn, BasicInv, TypeOK, OnlySafeNames
    <3> QED BY <2>7, <3>1, ConstantsTyped
  <2>10. ASSUME NEW c \in Conn, Run(c) \/ RunFails(c)
         PROVE  CachedIsTuned'
    <3> DEFINE g == databases[c][req[c].db]
    <3>1. req[c].db \in Db /\ g \in Handle /\ g.file # 0 /\ g.tuned
      BY <2>10 DEF Run, RunFails, CachedIsTuned, Cached, BasicInv, TypeOK, OnlySafeNames
    <3>2. PICK m \in {"auto", "begun", "write"} :
            SetHandle(c, req[c].db, [g EXCEPT !.mode = m])
      <4>1. g.mode \in {"auto", "begun", "write"}
        BY <3>1 DEF Handle
      <4>2. ModeAfter(g.mode, req[c].query) \in {"auto", "begun", "write"}
        BY <4>1 DEF ModeAfter
      <4> QED BY <2>10, <4>1, <4>2 DEF Run, RunFails
    <3>3. LET h == [g EXCEPT !.mode = m] IN h \in Handle /\ h.file # 0 /\ h.tuned
      BY <3>1 DEF Handle
    <3>4. /\ step'[c] # "run" /\ UNCHANGED req
          /\ \A b \in Conn : b # c => step'[b] = step[b]
      BY <2>10 DEF Run, RunFails, BasicInv, TypeOK
    <3> HIDE DEF g
    <3> QED BY <2>7, <3>1, <3>2, <3>3, <3>4
  <2>11. ASSUME NEW c \in Conn, Drop(c)
         PROVE  CachedIsTuned'
    BY <2>11, ConstantsTyped DEF Drop, Emptied, CachedIsTuned, Cached, BasicInv, TypeOK
  <2> QED BY <2>1, <2>2, <2>4, <2>5, <2>6, <2>8, <2>9, <2>10, <2>11 DEF Next, Work
<1>3. BasicInv <=> TypeOK /\ OnlySafeNames
  BY DEF BasicInv
<1> QED BY <1>1, <1>2, <1>3, HandlerTypeCorrect, StaleInvariant, PTL DEF Spec
=============================================================================
