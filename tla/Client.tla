------------------------------- MODULE Client -------------------------------
(***************************************************************************)
(* A client of examples/ (rust/client.rs or python/sqlite.py) and the      *)
(* server's end of its connection (connection.rs, handler.rs): the login   *)
(* and the calls, one after the other, over two byte streams.  A packet is *)
(* two pieces on a stream, a "head" (the length and perhaps a part of the  *)
(* body) and the "body" (the rest), so that either end can stop inside a   *)
(* packet.  Call 0 is the login.                                           *)
(*                                                                         *)
(* An end that reads a length out of the middle of a packet gets four      *)
(* bytes of JSON text: a size of hundreds of megabytes.                    *)
(***************************************************************************)
EXTENDS Naturals, Sequences

CONSTANTS Langs,     \* which clients: "rust", "python"
          Ops,       \* the operations called: "query", "list", "delete"
          Setups,    \* [required, password]: server's and client's --auth
          MaxCalls   \* bound: calls after the login

VARIABLES
  lang,           \* which of Langs
  setup,          \* which of Setups
  client,         \* where the client stands
  calls,          \* the current call
  op,             \* its operation
  result,         \* result[n]: how call n ended
  toServer,       \* pieces of requests not read yet
  toClient,       \* pieces of responses not read yet
  server,         \* "open", "lost" (inside a packet), or "closed"
  authenticated,  \* RequestHandler.authenticated
  executed,       \* history: the calls the handler carried out
  timedOut        \* history: some call has timed out

chosen == <<lang, setup>>
caller == <<calls, op, result>>
handler == <<server, authenticated, executed>>
vars == <<chosen, client, caller, toServer, toClient, handler, timedOut>>

Setup == [required : BOOLEAN, password : {"none", "right", "wrong"}]
ASSUME ClientAssumption ==
  /\ Langs \subseteq {"rust", "python"} /\ MaxCalls \in Nat
  /\ Setups \subseteq Setup /\ Ops \subseteq {"query", "list", "delete"}

Waiting == {"header", "body", "junk"}
Pending == [how |-> "pending", op |-> "login", to |-> 0, kind |-> "none"]

Init ==
  /\ lang \in Langs /\ setup \in Setups
  /\ client = "connected" /\ calls = 0 /\ op = "login"
  /\ result = [n \in 1 .. MaxCalls |-> Pending]
  /\ toServer = <<>> /\ toClient = <<>>
  /\ server = "open" /\ authenticated = FALSE /\ executed = <<>>
  /\ timedOut = FALSE

(* The packet of call id: what it asks for, or what it was answered. *)
Packet(id, what) ==
  [i \in 1 .. 2 |-> [part |-> <<"head", "body">>[i], id |-> id, what |-> what]]
Rest(s, n) == SubSeq(s, n + 1, Len(s))

-----------------------------------------------------------------------------
(* How a call ends.                                                        *)

(* authenticate: only {"result":"ok"} makes a Rust client.  The Python     *)
(* client does not look at the reply.                                      *)
LoginAnyReply(kind) == TRUE
LoginAccepted(kind) == lang = "python" \/ kind = "result_ok"

End(how, to, kind) ==
  /\ result' = [result EXCEPT ![calls] = [how |-> how, op |-> op, to |-> to, kind |-> kind]]
  /\ client' = "ready"

(* The body of a response has been read. *)
Answered(to, kind) ==
  IF calls = 0
  THEN /\ client' = IF LoginAccepted(kind) THEN "ready" ELSE "closed"
       /\ UNCHANGED result
  ELSE End("answer", to, kind)

(* An error: the constructor passes it on, and query of the Python client  *)
(* turns every exception into an empty result.                             *)
FailAndRetry ==
  /\ client' = "sending" /\ UNCHANGED result
Fail ==
  IF calls = 0
  THEN client' = "closed" /\ UNCHANGED result
  ELSE End("failed", 0, "none")

(* The stream ended: an error in Rust, no payload in Python, where the     *)
(* constructor goes on.                                                    *)
Ended ==
  IF lang = "rust" THEN Fail
  ELSE IF calls = 0 THEN client' = "ready" /\ UNCHANGED result
  ELSE End("nothing", 0, "none")

(* Whether the answer to a query tells of an error: server_error in Rust,  *)
(* the message query prints in Python.                                     *)
Reported(kind) == kind \in {"sql_error", "generic_error"}

(* What the caller of query, list and delete_db gets to see. *)
Seen(r) ==
  CASE r.op = "query" -> IF Reported(r.kind) THEN "error"
                         ELSE IF r.kind = "rows" THEN "rows" ELSE "empty"
    [] r.op = "list" -> IF r.kind = "list" THEN "names" ELSE "empty"
    [] OTHER -> IF r.kind = "result_ok" THEN "true" ELSE "false"

-----------------------------------------------------------------------------
(* The client.                                                             *)

(* connect_with_auth, __init__: no login without a password *)
Construct ==
  /\ client = "connected"
  /\ client' = IF setup.password = "none" THEN "ready" ELSE "sending"
  /\ UNCHANGED <<chosen, caller, toServer, toClient, handler, timedOut>>

Begin(o) ==
  /\ client = "ready" /\ calls < MaxCalls /\ (lang = "python" => o = "query")
  /\ client' = "sending" /\ calls' = calls + 1 /\ op' = o
  /\ UNCHANGED <<chosen, result, toServer, toClient, handler, timedOut>>

Close ==
  /\ client = "ready" /\ client' = "closed"
  /\ UNCHANGED <<chosen, caller, toServer, toClient, handler, timedOut>>

AwaitNoLogin == IF calls = 0 THEN "ready" ELSE "header"
Await == "header"

(* What is sent after the server has gone is lost. *)
Send ==
  /\ client = "sending" /\ client' = Await
  /\ toServer' = IF server = "closed" THEN toServer
                 ELSE toServer \o Packet(calls, op)
  /\ UNCHANGED <<chosen, caller, toClient, handler, timedOut>>

ReadHeader ==
  /\ client = "header" /\ toClient # <<>>
  /\ client' = IF Head(toClient).part = "head" THEN "body" ELSE "junk"
  /\ toClient' = Tail(toClient)
  /\ UNCHANGED <<chosen, caller, toServer, handler, timedOut>>

ReadBody ==
  /\ client = "body" /\ toClient # <<>>
  /\ Answered(Head(toClient).id, Head(toClient).what)
  /\ toClient' = Tail(toClient)
  /\ UNCHANGED <<chosen, calls, op, toServer, handler, timedOut>>

(* A length read from text: whatever comes is taken for its body.          *)
ReadJunk ==
  /\ client = "junk" /\ toClient # <<>>
  /\ toClient' = Tail(toClient)
  /\ UNCHANGED <<chosen, client, caller, toServer, handler, timedOut>>

(* Were there enough of it, it would not decode. *)
JunkFails ==
  /\ client = "junk" /\ Fail
  /\ UNCHANGED <<chosen, calls, op, toServer, toClient, handler, timedOut>>

EndSeenInHeader == server = "closed" /\ toClient = <<>> /\ client = "header"
EndSeen == server = "closed" /\ toClient = <<>> /\ client \in Waiting

ReadEnd ==
  /\ EndSeen /\ Ended
  /\ UNCHANGED <<chosen, calls, op, toServer, toClient, handler, timedOut>>

(* A reset: what was still to be read is lost. *)
Reset ==
  /\ server = "closed" /\ client \in Waiting \cup {"sending"}
  /\ Fail /\ toClient' = <<>>
  /\ UNCHANGED <<chosen, calls, op, toServer, handler, timedOut>>

(* settimeout(120.0), which only the Python client has, and which leaves   *)
(* the socket open and the streams where they are.                         *)
TimesOut == lang = "python"

ReadTimeout ==
  /\ TimesOut /\ client \in Waiting /\ Fail /\ timedOut' = TRUE
  /\ UNCHANGED <<chosen, calls, op, toServer, toClient, handler>>

(* sendall gives up before or inside the packet. *)
SendTimeout ==
  /\ TimesOut /\ client = "sending" /\ server # "closed" /\ Fail /\ timedOut' = TRUE
  /\ \E n \in 0 .. 1 : toServer' = toServer \o SubSeq(Packet(calls, op), 1, n)
  /\ UNCHANGED <<chosen, calls, op, toClient, handler>>

ClientStep ==
  \/ Construct \/ Send \/ ReadHeader \/ ReadBody \/ ReadJunk \/ JunkFails
  \/ ReadEnd \/ ReadTimeout \/ SendTimeout

-----------------------------------------------------------------------------
(* The server.                                                             *)

(* handle_request, as far as a client can tell its answers apart; a name   *)
(* that is not safe gets a generic error, and nothing is carried out.      *)
PasswordRight == setup.required /\ setup.password = "right"
Allowed == authenticated \/ ~setup.required
Replies(o) ==
  IF o = "login"
  THEN IF ~setup.required THEN {"generic_error"}
       ELSE IF PasswordRight THEN {"result_ok"} ELSE {"result_error"}
  ELSE IF ~Allowed THEN {"result_error"}
  ELSE CASE o = "query" -> {"rows", "sql_error", "generic_error"}
         [] o = "list" -> {"list"}
         [] OTHER -> {"result_ok", "result_error", "generic_error"}

Respond(id, kind) == toClient' = toClient \o Packet(id, kind)

(* A request is there, whole. *)
Whole == Len(toServer) >= 2 /\ toServer[2].part = "body"

Serve ==
  /\ server = "open" /\ Whole
  /\ LET r == toServer[1] IN
       /\ \E k \in Replies(r.what) :
            /\ Respond(r.id, k)
            /\ executed' = IF r.what # "login" /\ Allowed /\ k # "generic_error"
                           THEN Append(executed, r.id) ELSE executed
       /\ authenticated' = (authenticated \/ (r.what = "login" /\ PasswordRight))
  /\ toServer' = Rest(toServer, 2)
  /\ UNCHANGED <<chosen, client, caller, server, timedOut>>

(* A request was cut: the next one fills it up, and with the zero bytes of *)
(* its length it is no JSON.  The next length is then read from text.      *)
Garbled ==
  /\ server = "open" /\ Len(toServer) >= 2 /\ toServer[2].part = "head"
  /\ Respond(toServer[1].id, "generic_error")
  /\ toServer' = Rest(toServer, 2) /\ server' = "lost"
  /\ UNCHANGED <<chosen, client, caller, authenticated, executed, timedOut>>

Closes ==
  /\ server' = "closed" /\ toServer' = <<>>
  /\ UNCHANGED <<chosen, client, caller, authenticated, executed, timedOut>>

(* The size is over the limit, or the client has gone. *)
Refuse == server = "lost" /\ Closes /\ UNCHANGED toClient
ServerEnds ==
  /\ server # "closed" /\ client = "closed" /\ ~Whole /\ Closes
  /\ UNCHANGED toClient

(* Shutdown, a crash or a packet over the limit: responses on their way    *)
(* may be cut anywhere.                                                    *)
ServerDies ==
  /\ server # "closed" /\ Closes
  /\ \E n \in 0 .. Len(toClient) : toClient' = SubSeq(toClient, 1, n)

Next ==
  \/ \E o \in Ops : Begin(o)
  \/ Close \/ ClientStep \/ Reset
  \/ Serve \/ Garbled \/ Refuse \/ ServerEnds \/ ServerDies

(* The client's thread runs.  Nothing is assumed of the server of a client *)
(* with timeouts; the other's keeps serving, which RequestAnswered of      *)
(* SqliteServer shows, or goes away.                                       *)
ServeRust == lang = "rust" /\ Serve
Spec == Init /\ [][Next]_vars /\ WF_vars(ClientStep) /\ WF_vars(ServeRust)

-----------------------------------------------------------------------------
(* Properties.                                                             *)

(* A call behaves as a remote call does at best: its answer is its own,    *)
(* requests are carried out in order and at most once, also when           *)
(* connections break with responses on their way, and an error leaves open *)
(* whether its request was carried out (client.rs 343-363, sqlite.py       *)
(* 258-288, 362-423, connection.rs 24-62).  After a timeout an answer that *)
(* is not the call's own counts as an error.                               *)
Carried == {"rows", "sql_error", "list", "result_ok"}
OutcomeOf(n) ==
  LET r == result[n] IN
  IF r.how = "pending" THEN "pending"
  ELSE IF r.how \in {"failed", "nothing"} THEN "failed"
  ELSE IF r.to # n THEN IF timedOut THEN "failed" ELSE "wrong"
  ELSE IF r.kind \in Carried THEN "answered" ELSE "refused"

Remote == INSTANCE Rpc WITH outcome <- [n \in 1 .. MaxCalls |-> OutcomeOf(n)]
ImplementsRpc == Remote!Spec

(* A Rust client that has logged in where a login is asked for never       *)
(* mistakes a refusal for a result: what the caller sees as an empty       *)
(* result or list came from the database (client.rs 231-241, 294-305,      *)
(* 323-335).                                                               *)
NoSilentFailure ==
  lang = "rust" /\ (setup.required => setup.password # "none") =>
    \A n \in 1 .. MaxCalls : result[n].how = "answer" => Seen(result[n]) # "empty"

(* Every call returns: with a timeout even if the server never answers,    *)
(* and without one if the server serves or goes away (sqlite.py 229,       *)
(* client.rs 343-363).                                                     *)
CallEnds ==
  client \in Waiting \cup {"sending"} ~> client \in {"ready", "closed"}

(* Only a timeout puts a client out of step with its answers (sqlite.py    *)
(* 362-423): failed logins, closed connections and resets do not.          *)
LateOnlyAfterTimeout ==
  \A n \in 1 .. MaxCalls :
    result[n].how = "answer" /\ result[n].to # n => timedOut

(* A query is carried out at most once and in the order of the calls, also *)
(* when the client has given up on it or on its predecessor, and is        *)
(* carried out if the caller was given its rows (sqlite.py 258-288,        *)
(* connection.rs 54-61).                                                   *)
AtMostOnce ==
  /\ \A i, j \in DOMAIN executed : i < j => executed[i] < executed[j]
  /\ \A n \in 1 .. MaxCalls : result[n].kind = "rows" =>
       \E i \in DOMAIN executed : executed[i] = result[n].to

(* sqlite.py 260: "Executes a SQL query on the server and returns the      *)
(* result."                                                                *)
OwnAnswer ==
  \A n \in 1 .. MaxCalls : result[n].kind = "rows" => result[n].to = n
=============================================================================
