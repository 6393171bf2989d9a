------------------------------ MODULE Handler ------------------------------
(***************************************************************************)
(* The request handlers (handler.rs): one RequestHandler per connection,   *)
(* each with its own cache of open SQLite connections, all of them over    *)
(* one folder of database files.  Handlers of different connections run on *)
(* different threads, so a request is cut into the steps at which it       *)
(* touches the folder or SQLite, and these interleave.                     *)
(*                                                                         *)
(* SQLite and the file system are external: a file is an incarnation       *)
(* number, a handle stays on the incarnation it was opened on, and of a    *)
(* transaction only its lock matters.  Statements are classes.             *)
(***************************************************************************)
EXTENDS Naturals

CONSTANTS
  Conn,          \* connection slots; a slot is used again after a drop
  Db,            \* database names is_safe_database_name accepts
  UnsafeDb,      \* names it rejects
  NoDb,          \* "db" missing or not a string
  AuthRequired,  \* ~config.auth.is_empty()
  Requests,      \* the requests clients send
  MaxFiles       \* bound: database files ever created

VARIABLES
  step,          \* step[c]: where connection c's handler stands
  req,           \* req[c]: the request being handled
  reply,         \* reply[c]: its response, once there is one
  authenticated, \* RequestHandler.authenticated
  databases,     \* RequestHandler.databases, the cache
  conn,          \* conn[c]: get_connection's local, opened and not cached yet
  folder,        \* folder[d]: the file that bears the name d, 0 for none
  files,         \* how many files have been created
  removedBy,     \* history: the connection whose DELETE_DB removed a file
  proved         \* history: c has sent the right password since it connected

call == <<step, req, reply>>
cache == <<databases, conn>>
disk == <<folder, files, removedBy>>
vars == <<call, authenticated, cache, disk, proved>>

Query == {"none", "empty", "begin", "insert", "select", "commit", "rollback",
          "bad"}

Request == [parses : BOOLEAN, auth : {"none", "right", "wrong"},
            cmd : {"none", "QUERY", "LIST", "DELETE_DB", "other"},
            db : Db \cup UnsafeDb \cup {NoDb}, query : Query]

NoRequest == [parses |-> FALSE, auth |-> "none", cmd |-> "none", db |-> NoDb,
              query |-> "none"]

ASSUME RequestAssumption ==
  /\ Requests \subseteq Request /\ AuthRequired \in BOOLEAN
  /\ Db \cap UnsafeDb = {} /\ NoDb \notin Db \cup UnsafeDb
ASSUME FilesAssumption == MaxFiles \in Nat

(* An open SQLite connection: the file it is on, its transaction (none,    *)
(* begun, or holding the write lock), and whether the PRAGMA batch ran.    *)
Handle == [file : Nat, mode : {"auto", "begun", "write"}, tuned : BOOLEAN]
NoHandle == [file |-> 0, mode |-> "auto", tuned |-> FALSE]

Step == {"gone", "idle", "open", "tune", "run", "list", "delete", "forget",
         "done"}

Reply == {"none", "invalid_format", "result_ok", "result_error", "no_command",
          "unknown_command", "no_database", "reading_error", "misuse",
          "sqlite_error", "busy", "rows", "list"}

Nobody == "nobody"
ASSUME NobodyAssumption == Nobody \notin Conn

Init ==
  /\ step = [c \in Conn |-> "gone"]
  /\ req = [c \in Conn |-> NoRequest]
  /\ reply = [c \in Conn |-> "none"]
  /\ authenticated = [c \in Conn |-> FALSE]
  /\ databases = [c \in Conn |-> [d \in Db |-> NoHandle]]
  /\ conn = [c \in Conn |-> NoHandle]
  /\ folder = [d \in Db |-> 0]
  /\ files = 0
  /\ removedBy = [f \in 1 .. MaxFiles |-> Nobody]
  /\ proved = [c \in Conn |-> FALSE]

-----------------------------------------------------------------------------
(* What handle_request decides before it touches SQLite or the folder.     *)

(* {"auth": password}, when a password is configured *)
Authenticates(r) == AuthRequired /\ r.parses /\ r.auth = "right"

(* is_safe_database_name, of a name that is there: one normal path         *)
(* component that stays in the folder once symbolic links are followed     *)
IsSafeDatabaseName(d) == d \in Db

(* handle_query without its call to is_safe_database_name *)
QueryUnguarded(r) ==
  IF r.db = NoDb THEN "no_database" ELSE IF r.query = "none" THEN "reading_error"
  ELSE IF r.query = "empty" THEN "misuse" ELSE "proceed"

(* handle_query answering a missing query with a code of its own *)
QueryUncoded(r) ==
  IF r.db # NoDb /\ r.query = "none" THEN "no_query" ELSE QueryUnguarded(r)

(* handle_query and run_query up to get_connection *)
QueryVerdict(r) ==
  IF r.db = NoDb THEN "no_database"
  ELSE IF r.query = "none" THEN "reading_error"
  ELSE IF ~IsSafeDatabaseName(r.db) THEN "no_database"
  ELSE IF r.query = "empty" THEN "misuse"
  ELSE "proceed"

(* handle_delete_db up to remove_file *)
DeleteVerdict(r) ==
  IF r.db = NoDb \/ ~IsSafeDatabaseName(r.db) THEN "no_database" ELSE "proceed"

(* The early return handle_request takes, or "proceed". *)
Verdict(c, r) ==
  IF ~r.parses THEN "invalid_format"
  ELSE IF Authenticates(r) THEN "result_ok"
  ELSE IF AuthRequired /\ ~authenticated[c] THEN "result_error"
  ELSE IF r.cmd = "none" THEN "no_command"
  ELSE IF r.cmd = "other" THEN "unknown_command"
  ELSE IF r.cmd = "QUERY" THEN QueryVerdict(r)
  ELSE IF r.cmd = "DELETE_DB" THEN DeleteVerdict(r)
  ELSE "proceed"

FirstStep(r) ==
  CASE r.cmd = "QUERY" -> "open" [] r.cmd = "DELETE_DB" -> "delete"
    [] OTHER -> "list"

-----------------------------------------------------------------------------
(* Helpers.                                                                *)

At(c, s) == step[c] = s
Goto(c, s) == step' = [step EXCEPT ![c] = s]
Answer(c, a) == Goto(c, "done") /\ reply' = [reply EXCEPT ![c] = a]
Cached(c, d) == databases[c][d].file # 0
SetHandle(c, d, h) == databases' = [databases EXCEPT ![c][d] = h]

(* Another connection's open transaction has the file's write lock. *)
Locked(c, f) ==
  \E b \in Conn \ {c}, d \in Db :
    databases[b][d].file = f /\ databases[b][d].mode = "write"

(* Dropping a RequestHandler closes its handles; SQLite rolls back. *)
Emptied == [d \in Db |-> NoHandle]

-----------------------------------------------------------------------------
(* RequestHandler::new, and the end of the connection that owns it.        *)

LoginKept(c) == UNCHANGED authenticated
LoggedOut(c) == authenticated' = [authenticated EXCEPT ![c] = FALSE]

New(c) ==
  /\ At(c, "gone") /\ Goto(c, "idle") /\ LoggedOut(c)
  /\ proved' = [proved EXCEPT ![c] = FALSE]
  /\ UNCHANGED <<req, reply, cache, disk>>

Drop(c) ==
  /\ At(c, "idle") /\ Goto(c, "gone")
  /\ databases' = [databases EXCEPT ![c] = Emptied]
  /\ UNCHANGED <<req, reply, authenticated, conn, disk, proved>>

(* The process dies; the folder stays. *)
Crash ==
  /\ step' = [c \in Conn |-> "gone"]
  /\ req' = [c \in Conn |-> NoRequest]
  /\ reply' = [c \in Conn |-> "none"]
  /\ databases' = [c \in Conn |-> Emptied]
  /\ conn' = [c \in Conn |-> NoHandle]
  /\ UNCHANGED <<authenticated, disk, proved>>

-----------------------------------------------------------------------------
(* handle_request.                                                         *)

Receive(c, r) ==
  /\ At(c, "idle")
  /\ req' = [req EXCEPT ![c] = r]
  /\ IF Verdict(c, r) = "proceed"
     THEN Goto(c, FirstStep(r)) /\ UNCHANGED reply
     ELSE Answer(c, Verdict(c, r))
  /\ authenticated' = [authenticated EXCEPT ![c] = @ \/ Authenticates(r)]
  /\ proved' = [proved EXCEPT ![c] = @ \/ (r.parses /\ r.auth = "right")]
  /\ UNCHANGED <<cache, disk>>

(* get_connection finds the name in the cache. *)
FindCached(c) ==
  /\ At(c, "open") /\ Cached(c, req[c].db) /\ Goto(c, "run")
  /\ UNCHANGED <<req, reply, authenticated, cache, disk, proved>>

(* The opened handle stays local until the PRAGMA batch has run. *)
CacheAtOnce(c, d) == SetHandle(c, d, conn'[c])
KeepLocal(c, d) == UNCHANGED databases

(* Connection::open makes the file if the folder has none of that name. *)
Open(c) ==
  LET d == req[c].db IN
  /\ At(c, "open") /\ ~Cached(c, d) /\ Goto(c, "tune")
  /\ IF folder[d] # 0
     THEN UNCHANGED <<folder, files>>
     ELSE /\ files < MaxFiles /\ files' = files + 1
          /\ folder' = [folder EXCEPT ![d] = files + 1]
  /\ conn' = [conn EXCEPT ![c] = [NoHandle EXCEPT !.file = folder'[d]]]
  /\ KeepLocal(c, d)
  /\ UNCHANGED <<req, reply, authenticated, removedBy, proved>>

OpenFails(c) ==
  /\ At(c, "open") /\ ~Cached(c, req[c].db) /\ Answer(c, "sqlite_error")
  /\ UNCHANGED <<req, authenticated, cache, disk, proved>>

(* The PRAGMA batch succeeds and the handle enters the cache. *)
Tune(c) ==
  /\ At(c, "tune") /\ Goto(c, "run")
  /\ SetHandle(c, req[c].db, [conn[c] EXCEPT !.tuned = TRUE])
  /\ conn' = [conn EXCEPT ![c] = NoHandle]
  /\ UNCHANGED <<req, reply, authenticated, disk, proved>>

(* The batch fails: the handle is dropped, a file it created stays. *)
TuneFails(c) ==
  /\ At(c, "tune") /\ Answer(c, "sqlite_error")
  /\ conn' = [conn EXCEPT ![c] = NoHandle]
  /\ UNCHANGED <<req, authenticated, databases, disk, proved>>

(* What a statement asks of a handle, and what it leaves behind. *)
Legal(m, q) ==
  /\ q = "begin" => m = "auto"
  /\ q \in {"commit", "rollback"} => m # "auto"
  /\ q # "bad"

ModeAfter(m, q) ==
  CASE q = "begin" -> "begun"
    [] q = "insert" /\ m # "auto" -> "write"
    [] q \in {"commit", "rollback"} -> "auto"
    [] OTHER -> m

(* prepare and step: a write waits for the file's lock. *)
Run(c) ==
  LET d == req[c].db
      q == req[c].query
      h == databases[c][d] IN
  /\ At(c, "run") /\ (q = "insert" => ~Locked(c, h.file))
  /\ Legal(h.mode, q)
  /\ SetHandle(c, d, [h EXCEPT !.mode = ModeAfter(h.mode, q)])
  /\ Answer(c, "rows")
  /\ UNCHANGED <<req, authenticated, conn, disk, proved>>

(* An error leaves the transaction as it was or, for some errors, rolls it *)
(* back.  A write that waits for the lock fails only by the timeout, or at *)
(* once if its transaction has read what has since changed.                *)
RunFails(c) ==
  LET d == req[c].db
      h == databases[c][d] IN
  /\ At(c, "run")
  /\ req[c].query = "insert" => ~Locked(c, h.file) \/ h.mode = "begun"
  /\ Answer(c, "sqlite_error")
  /\ \E m \in {h.mode, "auto"} : SetHandle(c, d, [h EXCEPT !.mode = m])
  /\ UNCHANGED <<req, authenticated, conn, disk, proved>>

(* The busy_timeout of the handle expires while the lock is held. *)
TimesOutNever(c) == FALSE
TimesOut(c) == At(c, "run")
BusyTimeout(c) ==
  /\ TimesOut(c) /\ req[c].query = "insert"
  /\ Locked(c, databases[c][req[c].db].file)
  /\ Answer(c, "busy")
  /\ UNCHANGED <<req, authenticated, cache, disk, proved>>

List(c) ==
  /\ At(c, "list") /\ Answer(c, "list")
  /\ UNCHANGED <<req, authenticated, cache, disk, proved>>

(* remove_file, by name: whatever file bears the name loses it. *)
Unlink(c) ==
  LET d == req[c].db IN
  /\ At(c, "delete") /\ folder[d] # 0 /\ Goto(c, "forget")
  /\ folder' = [folder EXCEPT ![d] = 0]
  /\ removedBy' = [removedBy EXCEPT ![folder[d]] = c]
  /\ UNCHANGED <<req, reply, authenticated, cache, files, proved>>

UnlinkFails(c) ==
  /\ At(c, "delete") /\ Answer(c, "result_error")
  /\ UNCHANGED <<req, authenticated, cache, disk, proved>>

(* databases.remove, in this connection's cache only *)
RemoveNone(c, d) == UNCHANGED databases
RemoveOwn(c, d) == SetHandle(c, d, NoHandle)

Forget(c) ==
  /\ At(c, "forget") /\ Answer(c, "result_ok") /\ RemoveOwn(c, req[c].db)
  /\ UNCHANGED <<req, authenticated, conn, disk, proved>>

(* The response leaves the handler. *)
Return(c) ==
  /\ At(c, "done") /\ Goto(c, "idle")
  /\ req' = [req EXCEPT ![c] = NoRequest]
  /\ reply' = [reply EXCEPT ![c] = "none"]
  /\ UNCHANGED <<authenticated, cache, disk, proved>>

-----------------------------------------------------------------------------
Work(c) ==
  \/ FindCached(c) \/ Open(c) \/ OpenFails(c) \/ Tune(c) \/ TuneFails(c)
  \/ Run(c) \/ RunFails(c) \/ BusyTimeout(c)
  \/ List(c) \/ Unlink(c) \/ UnlinkFails(c) \/ Forget(c)

Next ==
  \/ Crash
  \/ \E c \in Conn :
       \/ New(c) \/ Drop(c) \/ Work(c) \/ Return(c)
       \/ \E r \in Requests : Receive(c, r)

Spec == Init /\ [][Next]_vars

(* A thread inside handle_request keeps running. *)
FairSpec == Spec /\ \A c \in Conn : WF_vars(Work(c)) /\ WF_vars(Return(c))

-----------------------------------------------------------------------------
(* Properties.                                                             *)

(* Every variable keeps its type. *)
TypeOK ==
  /\ step \in [Conn -> Step]
  /\ req \in [Conn -> Request]
  /\ reply \in [Conn -> Reply]
  /\ authenticated \in [Conn -> BOOLEAN]
  /\ databases \in [Conn -> [Db -> Handle]]
  /\ conn \in [Conn -> Handle]
  /\ folder \in [Db -> 0 .. MaxFiles]
  /\ files \in 0 .. MaxFiles
  /\ removedBy \in [1 .. MaxFiles -> Conn \cup {Nobody}]
  /\ proved \in [Conn -> BOOLEAN]

(* With a password configured, a connection that has not sent it since it  *)
(* was accepted has opened no database, is running no command, and has     *)
(* been told nothing but that its request is malformed or refused, even    *)
(* when its slot served an authenticated client before (handler.rs 36,     *)
(* 55-65).                                                                 *)
AuthGate ==
  AuthRequired =>
    \A c \in Conn : step[c] # "gone" /\ ~proved[c] =>
      /\ step[c] \in {"idle", "done"}
      /\ \A d \in Db : ~Cached(c, d)
      /\ reply[c] \in {"none", "invalid_format", "result_error"}

(* A handler works on the folder only under a name it has found safe: no   *)
(* other name reaches Connection::open, a statement or remove_file.        *)
OnlySafeNames ==
  \A c \in Conn : step[c] \in {"open", "tune", "run", "delete", "forget"}
                   => req[c].db \in Db

(* A cached handle that is not on the file now bearing its name is the     *)
(* doing of another connection's DELETE_DB.  A connection's own DELETE_DB  *)
(* leaves it stale only between remove_file and databases.remove, never    *)
(* once the command has answered (handler.rs 169-172).                     *)
StaleOnlyByOthers ==
  \A c \in Conn, d \in Db :
    Cached(c, d) /\ databases[c][d].file # folder[d] =>
      \/ removedBy[databases[c][d].file] \notin {c, Nobody}
      \/ step[c] = "forget" /\ req[c].db = d

(* Whatever sequence of opens, failed PRAGMA batches and deletes came      *)
(* before, a handle a statement runs on has had its PRAGMA batch: no       *)
(* statement runs without busy_timeout (handler.rs 182-193).               *)
CachedIsTuned ==
  \A c \in Conn :
    /\ \A d \in Db : Cached(c, d) => databases[c][d].tuned
    /\ step[c] = "run" => Cached(c, req[c].db)

(* Every request is answered even while another connection sits on an open *)
(* write transaction for ever: the wait for a lock ends (handler.rs 190).  *)
CallReturns ==
  \A c \in Conn : step[c] \notin {"gone", "idle"} ~> step[c] \in {"gone", "idle"}

(* Two connections that have the same database open, both between          *)
(* requests, have the same file open: README.md 16, "one SQLite database   *)
(* file per name".                                                         *)
OneFilePerName ==
  \A b, c \in Conn, d \in Db :
    step[b] = "idle" /\ step[c] = "idle" /\ Cached(b, d) /\ Cached(c, d)
      => databases[b][d].file = databases[c][d].file
=============================================================================
