---------------------------- MODULE ClientProofs ----------------------------
(***************************************************************************)
(* Theorems about Client, for any number of calls, any operations and any  *)
(* set-up of passwords: calls and answers stay in step without a timeout,  *)
(* a request is carried out at most once with or without one, and the      *)
(* clients implement Rpc.                                                  *)
(***************************************************************************)
EXTENDS Client, SequenceTheorems, TLAPS

Operations == {"query", "list", "delete"}
Kinds == {"rows", "sql_error", "generic_error", "list", "result_ok", "result_error"}

Piece(what) == [part : {"head", "body"}, id : 0 .. MaxCalls, what : what]
Result == [how : {"pending", "answer", "failed", "nothing"},
           op : Operations \cup {"login"}, to : Nat, kind : Kinds \cup {"none"}]

(* Every variable has its type, and call 0 is the login. *)
TypeOK ==
  /\ lang \in {"rust", "python"} /\ setup \in Setup
  /\ client \in {"connected", "sending", "ready", "closed"} \cup Waiting
  /\ calls \in 0 .. MaxCalls /\ op \in Operations \cup {"login"}
  /\ calls = 0 <=> op = "login"
  /\ result \in [1 .. MaxCalls -> Result]
  /\ toServer \in Seq(Piece(Operations \cup {"login"}))
  /\ toClient \in Seq(Piece(Kinds))
  /\ server \in {"open", "lost", "closed"} /\ authenticated \in BOOLEAN
  /\ executed \in Seq(0 .. MaxCalls) /\ timedOut \in BOOLEAN

(* A call is pending from its beginning until it ends. *)
Busy == client \in Waiting \cup {"sending"}
PendingInv ==
  /\ client = "connected" => calls = 0
  /\ \A n \in 1 .. MaxCalls :
       result[n].how = "pending" <=> n > calls \/ (n = calls /\ Busy)
  /\ \A n \in 1 .. MaxCalls : result[n].kind # "none" => result[n].how = "answer"

IsIn(n, s) == \E i \in DOMAIN s : s[i] = n

(* What the server has to read while it is in step: requests in the order  *)
(* of the calls, each whole or cut after its head, none of them made       *)
(* before another was carried out.                                         *)
QueueInv ==
  /\ server = "closed" => toServer = <<>>
  /\ server = "open" =>
    /\ \A i \in DOMAIN toServer :
         /\ toServer[i].what = "login" <=> toServer[i].id = 0
         /\ toServer[i].id <= calls
         /\ toServer[i].id = calls => client \notin {"connected", "sending"}
         /\ toServer[i].part = "body" => i > 1 /\ toServer[i - 1].part = "head"
    /\ \A i, j \in DOMAIN toServer : i < j =>
         toServer[i].id < toServer[j].id \/ (j = i + 1 /\ toServer[j].part = "body")
    /\ \A i \in DOMAIN executed, j \in DOMAIN toServer : executed[i] < toServer[j].id

ExecutedInv ==
  /\ \A i \in DOMAIN executed :
       executed[i] \in 1 .. calls /\ (executed[i] = calls => client # "sending")
  /\ \A i, j \in DOMAIN executed : i < j => executed[i] < executed[j]

(* Who is told of a result is told of one that was carried out. *)
CarriedInv ==
  /\ \A i \in DOMAIN toClient :
       toClient[i].id > 0 /\ toClient[i].what \in Carried => IsIn(toClient[i].id, executed)
  /\ \A i \in DOMAIN toClient : toClient[i].what = "rows" => toClient[i].id > 0
  /\ \A n \in 1 .. MaxCalls :
       /\ result[n].to > 0 /\ result[n].kind \in Carried => IsIn(result[n].to, executed)
       /\ result[n].kind = "rows" => result[n].to > 0

(* Without a timeout nothing is on its way but the one call's request or   *)
(* its answer.                                                             *)
InStep ==
  ~timedOut =>
    /\ server # "lost" /\ client # "junk"
    /\ client \notin {"header", "body"} => toServer = <<>> /\ toClient = <<>>
    /\ client = "header" =>
         /\ Len(toClient) <= 2
         /\ \A i \in DOMAIN toClient : toClient[i].part = <<"head", "body">>[i]
         /\ toServer # <<>> => toServer = Packet(calls, op) /\ toClient = <<>>
    /\ client = "body" => toServer = <<>> /\ Len(toClient) <= 1
    /\ \A i \in DOMAIN toClient : toClient[i].id = calls

(* A Rust client has no timeouts; after the login it is let in, and each   *)
(* operation is answered in its own way.                                   *)
LoggedIn == setup.required => setup.password # "none"
AnswersTo(o) ==
  CASE o = "query" -> {"rows", "sql_error", "generic_error"}
    [] o = "list" -> {"list"}
    [] OTHER -> Kinds
RustInv ==
  lang = "rust" =>
    /\ ~timedOut
    /\ LoggedIn =>
         /\ calls > 0 \/ client = "ready" => Allowed
         /\ \A i \in DOMAIN toClient :
              /\ toClient[i].what \in AnswersTo(op)
              /\ calls = 0 /\ toClient[i].what = "result_ok" => Allowed
         /\ NoSilentFailure

ClientInv ==
  /\ TypeOK /\ PendingInv /\ QueueInv /\ ExecutedInv /\ CarriedInv /\ InStep /\ RustInv
  /\ LateOnlyAfterTimeout
-----------------------------------------------------------------------------
(* Sequences.                                                              *)

LEMMA PacketProperties ==
  ASSUME NEW W, NEW id \in 0 .. MaxCalls, NEW w \in W
  PROVE  /\ Packet(id, w) \in Seq(Piece(W)) /\ Len(Packet(id, w)) = 2
         /\ Packet(id, w)[1] = [part |-> "head", id |-> id, what |-> w]
         /\ Packet(id, w)[2] = [part |-> "body", id |-> id, what |-> w]
<1> DEFINE q == <<[part |-> "head", id |-> id, what |-> w],
                  [part |-> "body", id |-> id, what |-> w]>>
<1>1. \A i \in 1 .. 2 : Packet(id, w)[i] = q[i]
  BY DEF Packet
<1>2. /\ q[1] = [part |-> "head", id |-> id, what |-> w]
      /\ q[2] = [part |-> "body", id |-> id, what |-> w]
  OBVIOUS
<1>3. q[1] \in Piece(W) /\ q[2] \in Piece(W)
  BY <1>2 DEF Piece
<1>4. Packet(id, w) = q
  BY DEF Packet
<1>5. q \in Seq(Piece(W)) /\ Len(q) = 2
  BY <1>3
<1> QED BY <1>2, <1>4, <1>5

(* What is left once the first two pieces have been read. *)
LEMMA RestProperties ==
  ASSUME NEW S, NEW s \in Seq(S), Len(s) >= 2
  PROVE  /\ Rest(s, 2) \in Seq(S) /\ Len(Rest(s, 2)) = Len(s) - 2
         /\ \A i \in 1 .. Len(s) - 2 : Rest(s, 2)[i] = s[i + 2]
<1>1. Len(s) \in Nat /\ \A i \in 3 .. Len(s) : s[i] \in S
  BY LenProperties
<1> DEFINE l == Len(s)
<1>2. /\ SubSeq(s, 3, l) \in Seq(S)
      /\ Len(SubSeq(s, 3, l)) = IF 3 <= l THEN l - 3 + 1 ELSE 0
      /\ \A i \in 1 .. l - 3 + 1 : SubSeq(s, 3, l)[i] = s[3 + i - 1]
  BY <1>1, SubSeqProperties
<1>3. 2 + 1 = 3
  OBVIOUS
<1>4. Rest(s, 2) = SubSeq(s, 3, l)
  BY <1>3 DEF Rest
<1>5. l \in Nat /\ l >= 2
  BY <1>1
<1> HIDE DEF l
<1>6. Len(SubSeq(s, 3, l)) = l - 2
  BY <1>2, <1>5
<1>7. ASSUME NEW i \in 1 .. l - 2 PROVE SubSeq(s, 3, l)[i] = s[i + 2]
  <2>1. i \in 1 .. l - 3 + 1 /\ 3 + i - 1 = i + 2
    BY <1>5
  <2> QED BY <1>2, <2>1
<1>8. /\ SubSeq(s, 3, l) \in Seq(S) /\ Len(SubSeq(s, 3, l)) = l - 2
      /\ \A i \in 1 .. l - 2 : SubSeq(s, 3, l)[i] = s[i + 2]
  BY <1>2, <1>6, <1>7
<1> QED BY <1>4, <1>8 DEF l

(* What is left of the answers when a connection breaks. *)
LEMMA FrontProperties ==
  ASSUME NEW S, NEW s \in Seq(S), NEW n \in 0 .. Len(s)
  PROVE  /\ SubSeq(s, 1, n) \in Seq(S) /\ Len(SubSeq(s, 1, n)) = n
         /\ \A i \in 1 .. n : SubSeq(s, 1, n)[i] = s[i]
<1>1. Len(s) \in Nat /\ \A i \in 1 .. n : s[i] \in S
  BY LenProperties
<1> QED BY <1>1, SubSeqProperties

-----------------------------------------------------------------------------
(* Types.                                                                  *)

(* How a call ends, with or without an answer. *)
Ending ==
  /\ client' \in {"ready", "closed"} /\ (calls = 0 => result' = result)
  /\ calls > 0 =>
       /\ client' = "ready"
       /\ \E r \in Result : /\ r.how # "pending" /\ (r.kind # "none" => r.how = "answer")
                            /\ result' = [result EXCEPT ![calls] = r]

Failing ==
  /\ Ending /\ (lang = "rust" /\ calls = 0 => client' = "closed")
  /\ calls > 0 =>
       \E h \in {"failed", "nothing"} :
         result' = [result EXCEPT ![calls] =
                      [how |-> h, op |-> op, to |-> 0, kind |-> "none"]]

LEMMA FailEnds ==
  ASSUME TypeOK, Fail \/ Ended
  PROVE  Failing
<1>1. calls \in Nat /\ op \in Operations \cup {"login"}
  BY ClientAssumption DEF TypeOK
<1>2. \A h \in {"failed", "nothing"} :
        [how |-> h, op |-> op, to |-> 0, kind |-> "none"] \in Result
  BY <1>1 DEF Result
<1> QED BY <1>1, <1>2 DEF Fail, Ended, End, Failing, Ending

LEMMA AnswerEnds ==
  ASSUME TypeOK, NEW p \in Piece(Kinds), Answered(p.id, p.what)
  PROVE  Ending
<1>1. calls \in Nat /\ op \in Operations \cup {"login"}
  BY ClientAssumption DEF TypeOK
<1>2. [how |-> "answer", op |-> op, to |-> p.id, kind |-> p.what] \in Result
  BY <1>1, ClientAssumption DEF Result, Piece
<1> QED BY <1>1, <1>2 DEF Answered, End, Ending

LEMMA EndingType ==
  ASSUME TypeOK, Ending
  PROVE  result' \in [1 .. MaxCalls -> Result]
<1>1. calls = 0 \/ calls > 0
  BY ClientAssumption DEF TypeOK
<1> QED BY <1>1 DEF TypeOK, Ending

LEMMA InitType == Init => TypeOK
<1> SUFFICES ASSUME Init PROVE TypeOK
  OBVIOUS
<1>1. Pending \in Result
  BY DEF Pending, Result, Operations
<1>2. result \in [1 .. MaxCalls -> Result]
  BY <1>1 DEF Init
<1>3. 0 \in 0 .. MaxCalls
  BY ClientAssumption
<1> QED BY <1>2, <1>3, ClientAssumption, EmptySeq DEF Init, TypeOK, Operations

(* What the client sends. *)
LEMMA SentType ==
  ASSUME TypeOK, NEW n \in 0 .. 2
  PROVE  toServer \o SubSeq(Packet(calls, op), 1, n)
           \in Seq(Piece(Operations \cup {"login"}))
<1> DEFINE P == Piece(Operations \cup {"login"})
<1>1. Packet(calls, op) \in Seq(P) /\ Len(Packet(calls, op)) = 2
  BY PacketProperties DEF TypeOK
<1>2. SubSeq(Packet(calls, op), 1, n) \in Seq(P)
  BY <1>1, FrontProperties
<1> QED BY <1>2, ConcatProperties DEF TypeOK

(* The steps of Next, grouped by what they change. *)
Reads == ReadHeader \/ ReadBody \/ ReadJunk
Fails == JunkFails \/ ReadEnd \/ Reset \/ ReadTimeout \/ SendTimeout
Serves == Serve \/ Garbled
Stops == Refuse \/ ServerEnds \/ ServerDies

LEMMA Grouped ==
  ASSUME Next
  PROVE  \/ Construct \/ Close \/ Send \/ \E o \in Ops : Begin(o)
         \/ Reads \/ Fails \/ Serves \/ Stops
BY DEF Next, ClientStep, Reads, Fails, Serves, Stops

(* The login and the operations are answered in one of the known ways. *)
LEMMA RepliesAreKinds == \A o : Replies(o) \subseteq Kinds
BY DEF Replies, Kinds

LEMMA ServesType ==
  ASSUME TypeOK, Serves
  PROVE  TypeOK'
<1> DEFINE P == Piece(Operations \cup {"login"})
<1>1. Len(toServer) >= 2 /\ toServer' = Rest(toServer, 2)
  BY DEF Serves, Serve, Whole, Garbled
<1>2. toServer \in Seq(P) /\ Len(toServer) \in Nat /\ toServer[1] \in P
  BY <1>1, LenProperties DEF TypeOK
<1>3. toServer' \in Seq(P)
  BY <1>1, <1>2, RestProperties
<1>4. toServer[1].id \in 0 .. MaxCalls
  BY <1>2 DEF Piece
<1>5. PICK k \in Kinds : toClient' = toClient \o Packet(toServer[1].id, k)
  BY RepliesAreKinds DEF Serves, Serve, Garbled, Respond, Kinds
<1>6. toClient' \in Seq(Piece(Kinds))
  BY <1>4, <1>5, PacketProperties, ConcatProperties DEF TypeOK
<1>7. executed' \in Seq(0 .. MaxCalls)
  <2>1. executed' = executed \/ executed' = Append(executed, toServer[1].id)
    BY DEF Serves, Serve, Garbled
  <2>2. Append(executed, toServer[1].id) \in Seq(0 .. MaxCalls)
    BY <1>4, AppendProperties DEF TypeOK
  <2> QED BY <2>1, <2>2 DEF TypeOK
<1>8. authenticated' \in BOOLEAN
  BY DEF TypeOK, Serves, Serve, Garbled
<1> QED BY <1>3, <1>6, <1>7, <1>8 DEF TypeOK, Serves, Serve, Garbled, chosen, caller

LEMMA StopsType ==
  ASSUME TypeOK, Stops
  PROVE  TypeOK'
<1>1. toClient' \in Seq(Piece(Kinds))
  BY FrontProperties DEF Stops, Refuse, ServerEnds, ServerDies, TypeOK
<1>2. Closes
  BY DEF Stops, Refuse, ServerEnds, ServerDies
<1> QED BY <1>1, <1>2, EmptySeq DEF Closes, TypeOK, chosen, caller

(* What the client reads is one piece. *)
LEMMA ReadsPiece ==
  ASSUME TypeOK, Reads
  PROVE  /\ toClient # <<>> /\ Head(toClient) \in Piece(Kinds) /\ toClient' = Tail(toClient)
         /\ Head(toClient) = toClient[1]
         /\ ReadBody => Answered(toClient[1].id, toClient[1].what)
<1>1. toClient # <<>> /\ toClient' = Tail(toClient)
  BY DEF Reads, ReadHeader, ReadBody, ReadJunk
<1>2. Head(toClient) \in Piece(Kinds) /\ Head(toClient) = toClient[1]
  BY <1>1, HeadTailProperties DEF TypeOK
<1> QED BY <1>1, <1>2 DEF ReadBody

LEMMA ReadsType ==
  ASSUME TypeOK, Reads
  PROVE  TypeOK'
<1>1. toClient' \in Seq(Piece(Kinds))
  BY ReadsPiece, HeadTailProperties DEF TypeOK
<1>2. CASE ReadBody
  <2>1. Ending
    BY <1>2, ReadsPiece, AnswerEnds
  <2>2. result' \in [1 .. MaxCalls -> Result]
    BY <2>1, EndingType
  <2> QED BY <1>1, <1>2, <2>1, <2>2 DEF Ending, ReadBody, TypeOK, chosen, handler
<1>3. CASE ~ReadBody
  BY <1>1, <1>3 DEF Reads, ReadHeader, ReadJunk, TypeOK, Waiting, chosen, caller, handler
<1> QED BY <1>2, <1>3

LEMMA FailsEnd ==
  ASSUME TypeOK, Fails
  PROVE  Failing
BY FailEnds DEF Fails, JunkFails, ReadEnd, Reset, ReadTimeout, SendTimeout

LEMMA FailsType ==
  ASSUME TypeOK, Fails
  PROVE  TypeOK'
<1>1. client' \in {"ready", "closed"} /\ result' \in [1 .. MaxCalls -> Result]
  BY FailsEnd, EndingType DEF Failing, Ending
<1>2. toServer' \in Seq(Piece(Operations \cup {"login"}))
  <2>1. CASE SendTimeout
    <3>1. \A n \in 0 .. 1 : n \in 0 .. 2
      OBVIOUS
    <3> QED BY <2>1, <3>1, SentType DEF SendTimeout
  <2> QED BY <2>1 DEF Fails, JunkFails, ReadEnd, Reset, ReadTimeout, TypeOK
<1>3. toClient' \in Seq(Piece(Kinds)) /\ timedOut' \in BOOLEAN
  BY EmptySeq DEF Fails, JunkFails, ReadEnd, Reset, ReadTimeout, SendTimeout, TypeOK
<1>4. UNCHANGED <<chosen, calls, op, handler>>
  BY DEF Fails, JunkFails, ReadEnd, Reset, ReadTimeout, SendTimeout
<1> QED BY <1>1, <1>2, <1>3, <1>4 DEF TypeOK, chosen, handler

LEMMA TypeNext ==
  ASSUME TypeOK, [Next]_vars
  PROVE  TypeOK'
<1>1. CASE UNCHANGED vars
  BY <1>1 DEF vars, chosen, caller, handler, TypeOK
<1>2. CASE Construct \/ Close
  BY <1>2 DEF Construct, Close, chosen, caller, handler, TypeOK
<1>3. ASSUME NEW o \in Ops, Begin(o) PROVE TypeOK'
  <2>1. calls' \in 0 .. MaxCalls /\ calls' # 0
    BY <1>3, ClientAssumption DEF Begin, TypeOK
  <2>2. o \in Operations /\ o # "login"
    BY <1>3, ClientAssumption DEF Operations
  <2> QED BY <1>3, <2>1, <2>2 DEF Begin, chosen, handler, TypeOK
<1>4. CASE Send
  <2>1. Packet(calls, op) \in Seq(Piece(Operations \cup {"login"}))
    BY PacketProperties DEF TypeOK
  <2>2. toServer' \in Seq(Piece(Operations \cup {"login"}))
    BY <1>4, <2>1, ConcatProperties DEF Send, TypeOK
  <2> QED BY <1>4, <2>2 DEF Send, Await, Waiting, chosen, caller, handler, TypeOK
<1> QED BY <1>1, <1>2, <1>3, <1>4, Grouped, ReadsType, FailsType, ServesType, StopsType

-----------------------------------------------------------------------------
(* Which call is pending.                                                  *)

LEMMA EndingPending ==
  ASSUME TypeOK, PendingInv, Ending, Busy, calls' = calls
  PROVE  PendingInv'
<1>1. client' \in {"ready", "closed"} /\ ~Busy'
  BY DEF Ending, Busy, Waiting
<1>2. calls \in 0 .. MaxCalls /\ MaxCalls \in Nat
  BY ClientAssumption DEF TypeOK
<1>3. CASE calls = 0
  BY <1>1, <1>2, <1>3 DEF Ending, PendingInv
<1>4. CASE calls > 0
  <2>1. PICK r \in Result : /\ r.how # "pending" /\ (r.kind # "none" => r.how = "answer")
                            /\ result' = [result EXCEPT ![calls] = r]
    BY <1>4 DEF Ending
  <2>2. calls \in 1 .. MaxCalls
    BY <1>2, <1>4
  <2>3. \A n \in 1 .. MaxCalls : result'[n] = IF n = calls THEN r ELSE result[n]
    BY <2>1, <2>2 DEF TypeOK
  <2> QED BY <1>1, <1>2, <2>1, <2>2, <2>3 DEF PendingInv, Busy
<1> QED BY <1>2, <1>3, <1>4

LEMMA PendingNext ==
  ASSUME TypeOK, PendingInv, [Next]_vars
  PROVE  PendingInv'
<1>0. calls \in 0 .. MaxCalls /\ MaxCalls \in Nat
  BY ClientAssumption DEF TypeOK
<1>1. CASE UNCHANGED <<client, caller>>
  BY <1>1 DEF caller, PendingInv, Busy
<1>2. CASE Construct \/ Close \/ Send \/ ReadHeader \/ ReadJunk
  <2>1. UNCHANGED caller /\ client' # "connected"
    BY <1>2 DEF Construct, Close, Send, ReadHeader, ReadJunk, Await
  <2>2. (Busy <=> Busy') \/ calls = 0
    BY <1>2 DEF Construct, Close, Send, ReadHeader, ReadJunk, Await, Busy, Waiting, PendingInv
  <2> QED BY <1>0, <2>1, <2>2 DEF caller, PendingInv
<1>3. ASSUME NEW o \in Ops, Begin(o) PROVE PendingInv'
  <2>1. calls' = calls + 1 /\ result' = result /\ client' = "sending" /\ ~Busy /\ Busy'
    BY <1>3 DEF Begin, Busy, Waiting
  <2> QED BY <1>0, <2>1 DEF PendingInv
<1>4. CASE Fails
  <2>1. Failing /\ calls' = calls
    BY <1>4, FailsEnd DEF Fails, JunkFails, ReadEnd, Reset, ReadTimeout, SendTimeout
  <2>2. Busy
    BY <1>4 DEF Fails, JunkFails, ReadEnd, EndSeen, Reset, ReadTimeout, SendTimeout, Busy, Waiting
  <2> QED BY <2>1, <2>2, EndingPending DEF Failing
<1>5. CASE ReadBody
  <2>1. Ending /\ calls' = calls /\ Busy
    BY <1>5, ReadsPiece, AnswerEnds DEF ReadBody, Reads, Busy, Waiting
  <2> QED BY <1>5, <2>1, EndingPending DEF ReadBody
<1> QED BY <1>1, <1>2, <1>3, <1>4, <1>5, Grouped
        DEF vars, Reads, Serves, Serve, Garbled, Stops, Refuse, ServerEnds, ServerDies, Closes

-----------------------------------------------------------------------------
(* Requests are read and carried out in the order of the calls.            *)

(* The request a server in step takes. *)
LEMMA Taken ==
  ASSUME TypeOK, QueueInv, Serves, NEW r, r = toServer[1]
  PROVE  /\ Len(toServer) \in Nat /\ Len(toServer) >= 2 /\ server = "open"
         /\ DOMAIN toServer = 1 .. Len(toServer)
         /\ r \in Piece(Operations \cup {"login"}) /\ r.id \in 0 .. calls
         /\ r.what = "login" <=> r.id = 0
         /\ r.id = calls => client # "sending"
         /\ \A i \in DOMAIN executed : executed[i] < r.id
         /\ DOMAIN toServer' = 1 .. Len(toServer) - 2
         /\ \A i \in 1 .. Len(toServer) - 2 : toServer'[i] = toServer[i + 2]
<1>1. Len(toServer) >= 2 /\ server = "open" /\ toServer' = Rest(toServer, 2)
  BY DEF Serves, Serve, Whole, Garbled
<1>2. /\ toServer \in Seq(Piece(Operations \cup {"login"})) /\ Len(toServer) \in Nat
      /\ DOMAIN toServer = 1 .. Len(toServer)
  BY LenProperties DEF TypeOK
<1>3. 1 \in DOMAIN toServer /\ r \in Piece(Operations \cup {"login"})
  BY <1>1, <1>2
<1>4. /\ r.what = "login" <=> r.id = 0
      /\ r.id <= calls /\ (r.id = calls => client # "sending")
      /\ \A i \in DOMAIN executed : executed[i] < r.id
  BY <1>1, <1>3 DEF QueueInv
<1>5. r.id \in 0 .. calls
  BY <1>3, <1>4, ClientAssumption DEF Piece, TypeOK
<1>6. /\ toServer' \in Seq(Piece(Operations \cup {"login"}))
      /\ Len(toServer') = Len(toServer) - 2
      /\ \A i \in 1 .. Len(toServer) - 2 : toServer'[i] = toServer[i + 2]
  BY <1>1, <1>2, RestProperties
<1>7. DOMAIN toServer' = 1 .. Len(toServer) - 2
  BY <1>6, LenProperties
<1> QED BY <1>1, <1>2, <1>3, <1>4, <1>5, <1>6, <1>7

(* Only Serve carries a request out, and only the one it has read. *)
LEMMA CarriesOut ==
  ASSUME TypeOK, [Next]_vars
  PROVE  \/ UNCHANGED executed
         \/ /\ Serve /\ toServer[1].what # "login"
            /\ executed' = Append(executed, toServer[1].id)
BY Grouped DEF vars, handler, Construct, Close, Send, Begin, Reads, ReadHeader, ReadBody, ReadJunk,
  Fails, JunkFails, ReadEnd, Reset, ReadTimeout, SendTimeout, Serves, Serve, Garbled,
  Stops, Refuse, ServerEnds, ServerDies, Closes

LEMMA Appended ==
  ASSUME TypeOK, NEW x \in 0 .. MaxCalls, executed' = Append(executed, x)
  PROVE  /\ Len(executed) \in Nat /\ DOMAIN executed = 1 .. Len(executed)
         /\ DOMAIN executed' = 1 .. Len(executed) + 1
         /\ \A i \in DOMAIN executed : executed'[i] = executed[i]
         /\ executed'[Len(executed) + 1] = x
<1>1. executed \in Seq(0 .. MaxCalls) /\ executed' \in Seq(0 .. MaxCalls)
  BY AppendProperties DEF TypeOK
<1>2. /\ Len(executed) \in Nat /\ DOMAIN executed = 1 .. Len(executed)
      /\ DOMAIN executed' = 1 .. Len(executed')
  BY <1>1, LenProperties
<1> QED BY <1>1, <1>2, AppendProperties

(* No step but Begin and Construct makes a call to be sent. *)
LEMMA Sending ==
  ASSUME TypeOK, [Next]_vars
  PROVE  /\ calls' \in {calls, calls + 1} /\ (calls' # calls => client = "ready")
         /\ client' = "sending" => calls' # calls \/ client \in {"sending", "connected"}
         /\ client' = "connected" => client = "connected" /\ calls' = calls
<1>1. CASE Fails
  BY <1>1, FailsEnd DEF Failing, Ending, Fails, JunkFails, ReadEnd, Reset, ReadTimeout, SendTimeout
<1>2. CASE ReadBody
  BY <1>2, ReadsPiece, AnswerEnds DEF Ending, Reads, ReadBody
<1>3. CASE UNCHANGED <<client, caller>>
  BY <1>3 DEF caller
<1>4. CASE Construct \/ Close \/ Send \/ ReadHeader \/ ReadJunk
  BY <1>4 DEF caller, Construct, Close, Send, ReadHeader, ReadJunk, Await
<1>5. ASSUME NEW o \in Ops, Begin(o)
      PROVE  calls' = calls + 1 /\ calls' # calls /\ client = "ready" /\ client' = "sending"
  BY <1>5 DEF Begin, TypeOK
<1> QED BY <1>1, <1>2, <1>3, <1>4, <1>5, Grouped
        DEF vars, Reads, Serves, Serve, Garbled, Stops, Refuse, ServerEnds, ServerDies, Closes

LEMMA ExecutedNext ==
  ASSUME TypeOK, PendingInv, QueueInv, ExecutedInv, [Next]_vars
  PROVE  ExecutedInv'
<1>0. calls \in Nat /\ calls' \in Nat /\ calls <= calls'
  BY Sending, ClientAssumption DEF TypeOK
<1>1. CASE UNCHANGED executed
  <2>1. ASSUME NEW i \in DOMAIN executed
        PROVE  executed[i] \in 1 .. calls' /\ (executed[i] = calls' => client' # "sending")
    <3>1. executed[i] \in 1 .. calls /\ (executed[i] = calls => client # "sending")
      BY DEF ExecutedInv
    <3> QED BY <1>0, <3>1, Sending DEF PendingInv
  <2> QED BY <1>1, <2>1 DEF ExecutedInv
<1>2. CASE /\ Serve /\ toServer[1].what # "login"
           /\ executed' = Append(executed, toServer[1].id)
  <2> DEFINE x == toServer[1].id
             l == Len(executed)
  <2>1. /\ x \in 0 .. calls /\ x # 0 /\ (x = calls => client # "sending")
        /\ \A i \in DOMAIN executed : executed[i] < x
    BY <1>2, Taken DEF Serves
  <2>2. UNCHANGED <<client, calls>>
    BY <1>2 DEF Serve, caller
  <2>3. /\ l \in Nat /\ DOMAIN executed = 1 .. l /\ DOMAIN executed' = 1 .. l + 1
        /\ \A i \in 1 .. l : executed'[i] = executed[i]
        /\ executed'[l + 1] = x
    BY <1>2, <2>1, Appended, ClientAssumption DEF TypeOK
  <2> HIDE DEF x, l
  <2>4. \A i \in 1 .. l + 1 : i \in 1 .. l \/ i = l + 1
    BY <2>3
  <2>5. \A i \in DOMAIN executed' :
          executed'[i] \in 1 .. calls' /\ (executed'[i] = calls' => client' # "sending")
    BY <1>0, <2>1, <2>2, <2>3, <2>4 DEF ExecutedInv
  <2>6. \A i, j \in DOMAIN executed' : i < j => executed'[i] < executed'[j]
    BY <2>1, <2>3, <2>4 DEF ExecutedInv
  <2> QED BY <2>5, <2>6 DEF ExecutedInv
<1> QED BY <1>1, <1>2, CarriesOut

LEMMA QueueIds ==
  ASSUME TypeOK
  PROVE  /\ Len(toServer) \in Nat /\ DOMAIN toServer = 1 .. Len(toServer)
         /\ \A i \in 1 .. Len(toServer) :
              toServer[i].id \in 0 .. MaxCalls /\ toServer[i].id \in Nat
<1>1. /\ Len(toServer) \in Nat /\ DOMAIN toServer = 1 .. Len(toServer)
      /\ \A i \in 1 .. Len(toServer) : toServer[i] \in Piece(Operations \cup {"login"})
  BY LenProperties, ElementOfSeq DEF TypeOK
<1>2. MaxCalls \in Nat
  BY ClientAssumption
<1> QED BY <1>1, <1>2 DEF Piece

(* What a request adds to what the server has to read: all of it, its head *)
(* or nothing.                                                             *)
LEMMA SentPieces ==
  ASSUME TypeOK, NEW n \in 0 .. 2,
         toServer' = toServer \o SubSeq(Packet(calls, op), 1, n)
  PROVE  /\ Len(toServer) \in Nat /\ DOMAIN toServer = 1 .. Len(toServer)
         /\ DOMAIN toServer' = 1 .. Len(toServer) + n
         /\ \A i \in 1 .. Len(toServer) : toServer'[i] = toServer[i]
         /\ \A i \in 1 .. n :
              toServer'[Len(toServer) + i] =
                [part |-> <<"head", "body">>[i], id |-> calls, what |-> op]
<1> DEFINE P == Piece(Operations \cup {"login"})
           q == SubSeq(Packet(calls, op), 1, n)
           l == Len(toServer)
<1>1. /\ Packet(calls, op) \in Seq(P) /\ Len(Packet(calls, op)) = 2
  BY PacketProperties DEF TypeOK
<1>2. q \in Seq(P) /\ Len(q) = n /\ \A i \in 1 .. n : q[i] = Packet(calls, op)[i]
  <2>1. n \in 0 .. Len(Packet(calls, op))
    BY <1>1
  <2> QED BY <1>1, <2>1, FrontProperties
<1>3. \A i \in 1 .. n : q[i] = [part |-> <<"head", "body">>[i], id |-> calls, what |-> op]
  BY <1>2 DEF Packet
<1>4. toServer \in Seq(P) /\ l \in Nat /\ DOMAIN toServer = 1 .. l
  BY LenProperties DEF TypeOK
<1>5. toServer' = toServer \o q
  OBVIOUS
<1> HIDE DEF q
<1>6. /\ toServer' \in Seq(P) /\ Len(toServer') = l + n
      /\ \A i \in 1 .. l + n : toServer'[i] = IF i <= l THEN toServer[i] ELSE q[i - l]
  <2>1. /\ toServer \o q \in Seq(P) /\ Len(toServer \o q) = Len(toServer) + Len(q)
        /\ \A i \in 1 .. Len(toServer) + Len(q) :
             (toServer \o q)[i] = IF i <= Len(toServer) THEN toServer[i] ELSE q[i - Len(toServer)]
    BY <1>2, <1>4, ConcatProperties
  <2> QED BY <1>2, <1>5, <2>1
<1>7. DOMAIN toServer' = 1 .. l + n
  BY <1>6, LenProperties
<1> HIDE DEF l
<1>8. \A i \in 1 .. l : toServer'[i] = toServer[i]
  BY <1>4, <1>6
<1>9. \A i \in 1 .. n : toServer'[l + i] = q[i]
  BY <1>4, <1>6
<1> QED BY <1>3, <1>4, <1>7, <1>8, <1>9 DEF l

(* A request is sent whole, in part or not at all. *)
LEMMA SendsPart ==
  ASSUME TypeOK, Send \/ SendTimeout, server # "closed"
  PROVE  \E n \in 0 .. 2 : toServer' = toServer \o SubSeq(Packet(calls, op), 1, n)
<1>1. CASE SendTimeout
  <2>1. \A n \in 0 .. 1 : n \in 0 .. 2
    OBVIOUS
  <2> QED BY <1>1, <2>1 DEF SendTimeout
<1>2. CASE Send
  <2>1. Packet(calls, op) = SubSeq(Packet(calls, op), 1, 2)
    <3> DEFINE w == Packet(calls, op)
    <3>1. w \in Seq(Piece(Operations \cup {"login"})) /\ Len(w) = 2
      BY PacketProperties DEF TypeOK
    <3> HIDE DEF w
    <3>2. w = SubSeq(w, 1, 2)
      BY <3>1, SubSeqFull
    <3> QED BY <3>2 DEF w
  <2>2. 2 \in 0 .. 2
    OBVIOUS
  <2>3. toServer' = toServer \o Packet(calls, op)
    BY <1>2 DEF Send
  <2> QED BY <2>1, <2>2, <2>3
<1> QED BY <1>1, <1>2

LEMMA QueueSend ==
  ASSUME TypeOK, QueueInv, ExecutedInv, Send \/ SendTimeout
  PROVE  QueueInv'
<1>1. UNCHANGED <<calls, op, server, executed>> /\ client = "sending"
  BY DEF Send, SendTimeout, caller, handler
<1>2. client' \notin {"connected", "sending"}
  BY FailEnds DEF Send, Await, SendTimeout, Failing, Ending
<1>3. CASE server = "closed"
  BY <1>1, <1>3 DEF Send, SendTimeout, QueueInv
<1>4. CASE server = "lost"
  BY <1>1, <1>4 DEF QueueInv
<1>5. CASE server = "open"
  <2> DEFINE l == Len(toServer)
  <2>1. PICK n \in 0 .. 2 : toServer' = toServer \o SubSeq(Packet(calls, op), 1, n)
    BY <1>5, SendsPart
  <2>2. /\ l \in Nat /\ DOMAIN toServer = 1 .. l /\ DOMAIN toServer' = 1 .. l + n
        /\ \A i \in 1 .. l : toServer'[i] = toServer[i]
        /\ \A i \in 1 .. n :
             toServer'[l + i] = [part |-> <<"head", "body">>[i], id |-> calls, what |-> op]
    BY <2>1, SentPieces
  <2> HIDE DEF l
  <2>3. \A i \in 1 .. l : /\ toServer[i].id < calls
                          /\ toServer[i].what = "login" <=> toServer[i].id = 0
                          /\ toServer[i].part = "body" => i > 1 /\ toServer[i - 1].part = "head"
    <3>1. \A i \in 1 .. l : toServer[i].id \in Nat
      BY QueueIds DEF l
    <3>2. \A i \in 1 .. l : /\ toServer[i].id <= calls /\ toServer[i].id # calls
                            /\ toServer[i].what = "login" <=> toServer[i].id = 0
                            /\ toServer[i].part = "body" => i > 1 /\ toServer[i - 1].part = "head"
      BY <1>1, <1>5, <2>2 DEF QueueInv
    <3>3. calls \in Nat
      BY ClientAssumption DEF TypeOK
    <3> QED BY <3>1, <3>2, <3>3
  <2>4. \A i \in 1 .. l + n : i \in 1 .. l \/ (i = l + 1 /\ n >= 1) \/ (i = l + 2 /\ n = 2)
    BY <2>2
  <2>5. n >= 1 => toServer'[l + 1] = [part |-> "head", id |-> calls, what |-> op]
    BY <2>2
  <2>6. n = 2 => toServer'[l + 2] = [part |-> "body", id |-> calls, what |-> op]
    BY <2>2
  <2>7. ASSUME NEW i \in 1 .. l + n
        PROVE  /\ toServer'[i].what = "login" <=> toServer'[i].id = 0
               /\ toServer'[i].id <= calls
               /\ toServer'[i].part = "body" => i > 1 /\ toServer'[i - 1].part = "head"
               /\ \A k \in DOMAIN executed : executed[k] < toServer'[i].id
    <3>1. CASE i \in 1 .. l
      <4>1. toServer'[i] = toServer[i] /\ (i > 1 => toServer'[i - 1] = toServer[i - 1])
        BY <2>2, <3>1
      <4>2. toServer[i].id \in Nat /\ calls \in Nat
        BY <3>1, QueueIds, ClientAssumption DEF TypeOK, l
      <4>3. \A k \in DOMAIN executed : executed[k] < toServer[i].id
        BY <1>5, <2>2, <3>1 DEF QueueInv
      <4> QED BY <2>3, <3>1, <4>1, <4>2, <4>3
    <3>2. CASE i = l + 1 /\ n >= 1
      BY <1>1, <2>2, <2>5, <3>2, ClientAssumption DEF ExecutedInv, TypeOK
    <3>3. CASE i = l + 2 /\ n = 2
      BY <1>1, <2>2, <2>5, <2>6, <3>3, ClientAssumption DEF ExecutedInv, TypeOK
    <3> QED BY <2>4, <3>1, <3>2, <3>3
  <2>8. ASSUME NEW i \in 1 .. l + n, NEW j \in 1 .. l + n, i < j
        PROVE  toServer'[i].id < toServer'[j].id \/ (j = i + 1 /\ toServer'[j].part = "body")
    <3>1. CASE j \in 1 .. l
      BY <1>5, <2>2, <2>8, <3>1 DEF QueueInv
    <3>2. CASE i \in 1 .. l /\ j \notin 1 .. l
      <4>1. toServer'[j].id = calls
        BY <2>4, <2>5, <2>6, <3>2
      <4>2. toServer'[i].id < calls
        BY <2>2, <2>3, <3>2
      <4> QED BY <4>1, <4>2
    <3>3. CASE i \notin 1 .. l
      BY <2>2, <2>4, <2>5, <2>6, <2>8, <3>3
    <3> QED BY <2>2, <2>8, <3>1, <3>2, <3>3
  <2> QED BY <1>1, <1>2, <1>5, <2>2, <2>7, <2>8 DEF QueueInv
<1> QED BY <1>3, <1>4, <1>5 DEF TypeOK

LEMMA QueueServe ==
  ASSUME TypeOK, QueueInv, Serve
  PROVE  QueueInv'
<1> DEFINE l == Len(toServer)
<1>1. /\ l \in Nat /\ l >= 2 /\ DOMAIN toServer = 1 .. l /\ DOMAIN toServer' = 1 .. l - 2
      /\ server = "open" /\ \A i \in 1 .. l - 2 : toServer'[i] = toServer[i + 2]
      /\ \A i \in DOMAIN executed : executed[i] < toServer[1].id
  BY Taken DEF Serves
<1>2. UNCHANGED <<client, calls, server>> /\ toServer[2].part = "body"
  BY DEF Serve, Whole, caller
<1>3. \A i \in DOMAIN executed' :
        \/ i \in DOMAIN executed /\ executed'[i] = executed[i]
        \/ executed'[i] = toServer[1].id
  <2>1. CASE UNCHANGED executed
    BY <2>1
  <2>2. CASE executed' = Append(executed, toServer[1].id)
    <3>1. toServer[1].id \in 0 .. MaxCalls
      BY <1>1, QueueIds
    <3>2. /\ Len(executed) \in Nat /\ DOMAIN executed = 1 .. Len(executed)
          /\ DOMAIN executed' = 1 .. Len(executed) + 1
          /\ \A i \in DOMAIN executed : executed'[i] = executed[i]
          /\ executed'[Len(executed) + 1] = toServer[1].id
      BY <2>2, <3>1, Appended
    <3> QED BY <3>2
  <2> QED BY <2>1, <2>2 DEF Serve
<1>4. \A i \in 1 .. l : toServer[i].id \in Nat
  BY QueueIds
<1> HIDE DEF l
<1>5. \A i \in 1 .. l - 2 : /\ i + 2 \in 1 .. l /\ toServer[1].id < toServer[i + 2].id
  BY <1>1 DEF QueueInv
<1>6. \A i \in DOMAIN executed', j \in DOMAIN toServer' : executed'[i] < toServer'[j].id
  BY <1>1, <1>3, <1>5 DEF QueueInv
<1>7. ASSUME NEW i \in 1 .. l - 2
      PROVE  /\ toServer'[i].what = "login" <=> toServer'[i].id = 0
             /\ toServer'[i].id <= calls'
             /\ toServer'[i].id = calls' => client' \notin {"connected", "sending"}
             /\ toServer'[i].part = "body" => i > 1 /\ toServer'[i - 1].part = "head"
  <2>1. i + 2 \in 1 .. l /\ toServer'[i] = toServer[i + 2]
    BY <1>1
  <2>2. toServer[i + 2].part = "body" => toServer[i + 1].part = "head" /\ i # 1
    <3>1. i + 2 - 1 = i + 1
      BY <1>1
    <3>2. toServer[i + 2].part = "body" => toServer[i + 1].part = "head"
      BY <1>1, <2>1, <3>1 DEF QueueInv
    <3> QED BY <1>2, <3>2
  <2>3. i # 1 => i - 1 \in 1 .. l - 2 /\ i - 1 + 2 = i + 1
    BY <1>1
  <2>4. i # 1 => toServer'[i - 1] = toServer[i + 1]
    BY <1>1, <2>3
  <2> QED BY <1>1, <1>2, <2>1, <2>2, <2>4 DEF QueueInv
<1>8. ASSUME NEW i \in 1 .. l - 2, NEW j \in 1 .. l - 2, i < j
      PROVE  toServer'[i].id < toServer'[j].id \/ (j = i + 1 /\ toServer'[j].part = "body")
  <2>1. i + 2 \in 1 .. l /\ j + 2 \in 1 .. l /\ i + 2 < j + 2
    BY <1>1, <1>8
  <2>2. \/ toServer[i + 2].id < toServer[j + 2].id
        \/ j + 2 = i + 2 + 1 /\ toServer[j + 2].part = "body"
    BY <1>1, <2>1 DEF QueueInv
  <2> QED BY <1>1, <2>2
<1> QED BY <1>1, <1>2, <1>6, <1>7, <1>8 DEF QueueInv

LEMMA QueueNext ==
  ASSUME TypeOK, QueueInv, ExecutedInv, [Next]_vars
  PROVE  QueueInv'
<1>1. CASE UNCHANGED <<toServer, server, executed>>
  <2>1. CASE server = "open"
    <3>1. \A i \in DOMAIN toServer : toServer[i].id \in Nat
      BY QueueIds
    <3>2. \A i \in DOMAIN toServer :
            /\ toServer[i].id <= calls'
            /\ toServer[i].id = calls' => client' \notin {"connected", "sending"}
      BY <2>1, <3>1, Sending, ClientAssumption DEF QueueInv, TypeOK
    <3> QED BY <1>1, <2>1, <3>2 DEF QueueInv
  <2>2. CASE server # "open"
    BY <1>1, <2>2 DEF QueueInv
  <2> QED BY <2>1, <2>2
<1>2. CASE Garbled
  BY <1>2 DEF Garbled, QueueInv
<1>3. CASE Stops
  BY <1>3 DEF Stops, Refuse, ServerEnds, ServerDies, Closes, QueueInv
<1> QED BY <1>1, <1>2, <1>3, QueueSend, QueueServe, Grouped
        DEF vars, handler, Construct, Close, Begin, Reads, ReadHeader, ReadBody, ReadJunk,
            Fails, JunkFails, ReadEnd, Reset, ReadTimeout, Serves

-----------------------------------------------------------------------------
(* Answers.                                                                *)

(* Nobody but the server puts anything in front of the client. *)
LEMMA OnlyTaken ==
  ASSUME TypeOK, [Next]_vars, ~Serves, NEW i \in DOMAIN toClient'
  PROVE  \E j \in DOMAIN toClient : toClient'[i] = toClient[j]
<1>1. Len(toClient) \in Nat /\ DOMAIN toClient = 1 .. Len(toClient)
  BY LenProperties DEF TypeOK
<1>2. CASE UNCHANGED toClient
  BY <1>2
<1>3. CASE toClient' = <<>>
  BY <1>3
<1>4. CASE Reads
  <2>1. toClient # <<>> /\ toClient' = Tail(toClient)
    BY <1>4, ReadsPiece
  <2>2. /\ toClient' \in Seq(Piece(Kinds)) /\ Len(toClient') = Len(toClient) - 1
        /\ \A k \in 1 .. Len(toClient') : toClient'[k] = toClient[k + 1]
    BY <2>1, HeadTailProperties DEF TypeOK
  <2>3. i \in 1 .. Len(toClient) - 1
    BY <2>2, LenProperties
  <2>4. toClient'[i] = toClient[i + 1] /\ i + 1 \in DOMAIN toClient
    BY <1>1, <2>2, <2>3
  <2> QED BY <2>4
<1>5. ASSUME NEW n \in 0 .. Len(toClient), toClient' = SubSeq(toClient, 1, n)
      PROVE  \E j \in DOMAIN toClient : toClient'[i] = toClient[j]
  <2>1. /\ toClient' \in Seq(Piece(Kinds)) /\ Len(toClient') = n
        /\ \A k \in 1 .. n : toClient'[k] = toClient[k]
    BY <1>5, FrontProperties DEF TypeOK
  <2>2. i \in 1 .. n
    BY <2>1, LenProperties
  <2> QED BY <1>1, <2>1, <2>2
<1> QED BY <1>2, <1>3, <1>4, <1>5, Grouped
        DEF vars, Construct, Close, Send, Begin, Fails, JunkFails, ReadEnd, Reset,
            ReadTimeout, SendTimeout, Stops, Refuse, ServerEnds, ServerDies

(* The server answers the request it has read. *)
LEMMA Responds ==
  ASSUME TypeOK, QueueInv, Serves, NEW i \in DOMAIN toClient'
  PROVE  \/ i \in DOMAIN toClient /\ toClient'[i] = toClient[i]
         \/ /\ toClient'[i].id = toServer[1].id
            /\ \/ Garbled /\ toClient'[i].what = "generic_error"
               \/ /\ Serve /\ toClient'[i].what \in Replies(toServer[1].what)
                  /\ toServer[1].what # "login" /\ Allowed
                       /\ toClient'[i].what # "generic_error"
                     => executed' = Append(executed, toServer[1].id)
<1> DEFINE id == toServer[1].id
           l == Len(toClient)
<1>1. PICK k \in Kinds :
        /\ toClient' = toClient \o Packet(id, k)
        /\ \/ Garbled /\ k = "generic_error"
           \/ /\ Serve /\ k \in Replies(toServer[1].what)
              /\ toServer[1].what # "login" /\ Allowed /\ k # "generic_error"
                 => executed' = Append(executed, id)
  BY RepliesAreKinds DEF Serves, Serve, Garbled, Respond, Kinds
<1>2. id \in 0 .. MaxCalls
  BY Taken, QueueIds, ClientAssumption DEF TypeOK
<1>3. /\ Packet(id, k) \in Seq(Piece(Kinds)) /\ Len(Packet(id, k)) = 2
      /\ Packet(id, k)[1] = [part |-> "head", id |-> id, what |-> k]
      /\ Packet(id, k)[2] = [part |-> "body", id |-> id, what |-> k]
  BY <1>2, PacketProperties
<1>4. toClient \in Seq(Piece(Kinds)) /\ l \in Nat /\ DOMAIN toClient = 1 .. l
  BY LenProperties DEF TypeOK
<1>5. /\ toClient' \in Seq(Piece(Kinds)) /\ Len(toClient') = l + 2
      /\ \A j \in 1 .. l + 2 :
           toClient'[j] = IF j <= l THEN toClient[j] ELSE Packet(id, k)[j - l]
  <2> DEFINE w == Packet(id, k)
  <2>1. w \in Seq(Piece(Kinds)) /\ Len(w) = 2
    BY <1>3
  <2> HIDE DEF w
  <2>2. /\ toClient \o w \in Seq(Piece(Kinds)) /\ Len(toClient \o w) = l + Len(w)
        /\ \A j \in 1 .. l + Len(w) :
             (toClient \o w)[j] = IF j <= l THEN toClient[j] ELSE w[j - l]
    BY <1>4, <2>1, ConcatProperties
  <2> QED BY <1>1, <2>1, <2>2 DEF w
<1>6. DOMAIN toClient' = 1 .. l + 2
  BY <1>5, LenProperties
<1> HIDE DEF l
<1>7. i \in 1 .. l \/ i - l = 1 \/ i - l = 2
  BY <1>4, <1>6
<1>8. CASE i \in 1 .. l
  BY <1>4, <1>5, <1>8
<1>9. CASE i - l \in {1, 2}
  <2>1. toClient'[i] = Packet(id, k)[i - l]
    BY <1>4, <1>5, <1>6, <1>9
  <2>2. toClient'[i].id = id /\ toClient'[i].what = k
    BY <1>3, <1>9, <2>1
  <2> QED BY <1>1, <2>2
<1> QED BY <1>7, <1>8, <1>9

(* What a step does to the results. *)
LEMMA ResultStep ==
  ASSUME TypeOK, [Next]_vars, NEW n \in 1 .. MaxCalls
  PROVE  \/ result'[n] = result[n]
         \/ /\ n = calls /\ Fails /\ result'[n].how \in {"failed", "nothing"}
            /\ result'[n].to = 0 /\ result'[n].kind = "none"
         \/ /\ n = calls /\ ReadBody /\ toClient # <<>> /\ 1 \in DOMAIN toClient
            /\ toClient[1] \in Piece(Kinds)
            /\ result'[n] = [how |-> "answer", op |-> op, to |-> toClient[1].id,
                             kind |-> toClient[1].what]
<1>1. calls = 0 \/ calls > 0
  BY ClientAssumption DEF TypeOK
<1>2. CASE UNCHANGED result
  BY <1>2
<1>3. CASE Fails
  <2>1. CASE calls = 0
    BY <1>3, <2>1, FailsEnd DEF Failing, Ending
  <2>2. CASE calls > 0
    <3>1. PICK h \in {"failed", "nothing"} :
            result' = [result EXCEPT ![calls] =
                         [how |-> h, op |-> op, to |-> 0, kind |-> "none"]]
      BY <1>3, <2>2, FailsEnd DEF Failing
    <3>2. result'[n] = IF n = calls THEN [how |-> h, op |-> op, to |-> 0, kind |-> "none"]
                       ELSE result[n]
      BY <3>1 DEF TypeOK
    <3> QED BY <1>3, <3>2
  <2> QED BY <1>1, <2>1, <2>2
<1>4. CASE ReadBody
  <2>1. /\ toClient # <<>> /\ toClient[1] \in Piece(Kinds)
        /\ Answered(toClient[1].id, toClient[1].what)
    BY <1>4, ReadsPiece DEF Reads
  <2>2. 1 \in DOMAIN toClient
    BY <2>1, EmptySeq, LenProperties DEF TypeOK
  <2> QED BY <1>4, <2>1, <2>2 DEF Answered, End, TypeOK
<1> QED BY <1>2, <1>3, <1>4, Grouped
        DEF vars, caller, Construct, Close, Send, Begin, Reads, ReadHeader, ReadJunk,
            Serves, Serve, Garbled, Stops, Refuse, ServerEnds, ServerDies, Closes

(* What has been carried out stays carried out. *)
LEMMA ExecutedGrows ==
  ASSUME TypeOK, [Next]_vars, NEW x, IsIn(x, executed)
  PROVE  IsIn(x, executed')
<1>1. CASE UNCHANGED executed
  BY <1>1 DEF IsIn
<1>2. CASE Serve /\ executed' = Append(executed, toServer[1].id)
  <2>1. toServer[1].id \in 0 .. MaxCalls
    BY <1>2, QueueIds DEF Serve, Whole
  <2>2. /\ Len(executed) \in Nat /\ DOMAIN executed = 1 .. Len(executed)
        /\ DOMAIN executed' = 1 .. Len(executed) + 1
        /\ \A i \in DOMAIN executed : executed'[i] = executed[i]
    BY <1>2, <2>1, Appended
  <2> QED BY <2>2 DEF IsIn
<1> QED BY <1>1, <1>2, CarriesOut

LEMMA CarriedNext ==
  ASSUME TypeOK, QueueInv, CarriedInv, [Next]_vars
  PROVE  CarriedInv'
<1>1. ASSUME NEW i \in DOMAIN toClient'
      PROVE  /\ toClient'[i].id > 0 /\ toClient'[i].what \in Carried
                => IsIn(toClient'[i].id, executed')
             /\ toClient'[i].what = "rows" => toClient'[i].id > 0
  <2>1. ASSUME NEW j \in DOMAIN toClient, toClient'[i] = toClient[j]
        PROVE  /\ toClient'[i].id > 0 /\ toClient'[i].what \in Carried
                  => IsIn(toClient'[i].id, executed')
               /\ toClient'[i].what = "rows" => toClient'[i].id > 0
    BY <2>1, ExecutedGrows DEF CarriedInv
  <2>2. CASE ~Serves
    BY <2>1, <2>2, OnlyTaken
  <2>3. CASE Garbled
    <3>1. ~Serve
      BY <2>3 DEF Garbled, Serve, Whole
    <3> QED BY <2>1, <2>3, <3>1, Responds DEF Serves, Carried
  <2>4. CASE Serve /\ toClient'[i].id = toServer[1].id
             /\ toClient'[i].what \in Replies(toServer[1].what)
             /\ (toServer[1].what # "login" /\ Allowed /\ toClient'[i].what # "generic_error"
                 => executed' = Append(executed, toServer[1].id))
    <3> DEFINE x == toServer[1].id
    <3>1. (toServer[1].what = "login" <=> x = 0) /\ x \in 0 .. calls /\ x \in 0 .. MaxCalls
      BY <2>4, Taken, QueueIds DEF Serves, Serve, Whole
    <3>2. x # 0 => x > 0
      BY <3>1
    <3>3. toClient'[i].what = "rows" => toServer[1].what # "login"
      BY <2>4 DEF Replies
    <3>4. x > 0 /\ toClient'[i].what \in Carried => executed' = Append(executed, x)
      BY <2>4, <3>1 DEF Replies, Carried
    <3>5. executed' = Append(executed, x) => IsIn(x, executed')
      BY <3>1, Appended DEF IsIn
    <3> QED BY <2>4, <3>1, <3>2, <3>3, <3>4, <3>5
  <2>5. Serves => \/ Garbled \/ <2>4!1 \/ \E j \in DOMAIN toClient : toClient'[i] = toClient[j]
    BY Responds
  <2> QED BY <2>1, <2>2, <2>3, <2>4, <2>5
<1>2. ASSUME NEW n \in 1 .. MaxCalls
      PROVE  /\ result'[n].to > 0 /\ result'[n].kind \in Carried
                => IsIn(result'[n].to, executed')
             /\ result'[n].kind = "rows" => result'[n].to > 0
  <2>1. CASE result'[n] = result[n]
    BY <2>1, ExecutedGrows DEF CarriedInv
  <2>2. CASE result'[n].to = 0 /\ result'[n].kind = "none"
    BY <2>2 DEF Carried
  <2>3. CASE /\ 1 \in DOMAIN toClient
             /\ result'[n] = [how |-> "answer", op |-> op, to |-> toClient[1].id,
                              kind |-> toClient[1].what]
    <3>1. result'[n].to = toClient[1].id /\ result'[n].kind = toClient[1].what
      BY <2>3
    <3> QED BY <2>3, <3>1, ExecutedGrows DEF CarriedInv
  <2> QED BY <2>1, <2>2, <2>3, ResultStep
<1> QED BY <1>1, <1>2 DEF CarriedInv

-----------------------------------------------------------------------------
(* Without a timeout calls and answers are in step.                        *)

LEMMA TimeoutStays ==
  ASSUME TypeOK, [Next]_vars, ~timedOut'
  PROVE  ~timedOut /\ ~ReadTimeout /\ ~SendTimeout
<1>1. ~ReadTimeout /\ ~SendTimeout
  BY DEF ReadTimeout, SendTimeout
<1>2. timedOut' = timedOut
  BY <1>1, Grouped DEF vars, Construct, Close, Send, Begin, Reads, ReadHeader, ReadBody,
    ReadJunk, Fails, JunkFails, ReadEnd, Reset, Serves, Serve, Garbled,
    Stops, Refuse, ServerEnds, ServerDies, Closes
<1> QED BY <1>1, <1>2

LEMMA InStepServe ==
  ASSUME TypeOK, QueueInv, InStep, ~timedOut, Serves
  PROVE  /\ Serve /\ client = "header" /\ toClient = <<>> /\ toServer' = <<>>
         /\ toServer[1].id = calls /\ toServer[1].what = op
         /\ Len(toClient') = 2 /\ DOMAIN toClient' = 1 .. 2
         /\ \A i \in 1 .. 2 : /\ toClient'[i].part = <<"head", "body">>[i]
                              /\ toClient'[i].id = calls
                              /\ toClient'[i].what \in Replies(op)
<1>1. Len(toServer) >= 2 /\ toServer # <<>>
  BY Taken, EmptySeq DEF TypeOK
<1>2. client = "header" /\ toServer = Packet(calls, op) /\ toClient = <<>>
  BY <1>1 DEF InStep
<1>3. /\ Len(toServer) = 2
      /\ toServer[1] = [part |-> "head", id |-> calls, what |-> op]
      /\ toServer[2] = [part |-> "body", id |-> calls, what |-> op]
  BY <1>2, PacketProperties DEF TypeOK
<1>4. Serve
  BY <1>3 DEF Serves, Garbled
<1>5. toServer' = <<>>
  <2>1. toServer' = Rest(toServer, 2)
    BY <1>4 DEF Serve
  <2>2. toServer' \in Seq(Piece(Operations \cup {"login"})) /\ Len(toServer') = 0
    <3>1. Len(toServer) >= 2 /\ Len(toServer) - 2 = 0
      BY <1>3
    <3> QED BY <2>1, <3>1, RestProperties DEF TypeOK
  <2> QED BY <2>2, EmptySeq
<1>6. PICK k \in Replies(op) : toClient' = toClient \o Packet(calls, k)
  BY <1>3, <1>4 DEF Serve, Respond
<1>7. k \in Kinds
  BY RepliesAreKinds
<1>8. /\ Packet(calls, k) \in Seq(Piece(Kinds)) /\ Len(Packet(calls, k)) = 2
      /\ Packet(calls, k)[1] = [part |-> "head", id |-> calls, what |-> k]
      /\ Packet(calls, k)[2] = [part |-> "body", id |-> calls, what |-> k]
  BY <1>7, PacketProperties DEF TypeOK
<1>9. toClient' = Packet(calls, k)
  BY <1>2, <1>6, <1>8, ConcatEmptySeq
<1>10. \A i \in 1 .. 2 : /\ toClient'[i].part = <<"head", "body">>[i]
                         /\ toClient'[i].id = calls /\ toClient'[i].what = k
  BY <1>9 DEF Packet
<1> QED BY <1>2, <1>3, <1>4, <1>5, <1>8, <1>9, <1>10, LenProperties

LEMMA InStepNext ==
  ASSUME TypeOK, PendingInv, QueueInv, InStep, [Next]_vars
  PROVE  InStep'
<1> SUFFICES ASSUME ~timedOut' PROVE InStep'
  BY DEF InStep
<1>1. ~timedOut /\ ~ReadTimeout /\ ~SendTimeout
  BY TimeoutStays
<1>2. /\ toClient \in Seq(Piece(Kinds)) /\ Len(toClient) \in Nat
      /\ DOMAIN toClient = 1 .. Len(toClient)
  BY LenProperties DEF TypeOK
<1>3. CASE UNCHANGED vars
  BY <1>1, <1>3 DEF vars, caller, handler, InStep
<1>4. CASE Construct \/ Close \/ \E o \in Ops : Begin(o)
  <2>1. client \in {"connected", "ready"} /\ client' \in {"ready", "sending", "closed"}
    BY <1>4 DEF Construct, Close, Begin
  <2>2. UNCHANGED <<toServer, toClient, server>>
    BY <1>4 DEF Construct, Close, Begin, handler
  <2> QED BY <1>1, <2>1, <2>2 DEF InStep
<1>5. CASE Send
  <2>1. toServer = <<>> /\ toClient = <<>> /\ server # "lost"
    BY <1>1, <1>5 DEF InStep, Send
  <2>2. toServer' \in {<<>>, Packet(calls, op)}
    BY <1>5, <2>1, PacketProperties, ConcatEmptySeq DEF Send, TypeOK
  <2>3. UNCHANGED <<calls, op, server, toClient>> /\ client' = "header"
    BY <1>5 DEF Send, Await, caller, handler
  <2> QED BY <2>1, <2>2, <2>3, EmptySeq DEF InStep, Packet
<1>6. CASE Reads
  <2>1. toClient # <<>> /\ toClient' = Tail(toClient)
    BY <1>6, ReadsPiece
  <2>2. /\ toClient' \in Seq(Piece(Kinds)) /\ Len(toClient') = Len(toClient) - 1
        /\ \A i \in 1 .. Len(toClient') : toClient'[i] = toClient[i + 1]
    BY <2>1, HeadTailProperties DEF TypeOK
  <2>3. DOMAIN toClient' = 1 .. Len(toClient) - 1
    BY <2>2, LenProperties
  <2>4. UNCHANGED <<calls, op, server, toServer>>
    BY <1>6 DEF Reads, ReadHeader, ReadBody, ReadJunk, caller, handler
  <2>5. client \in {"header", "body"} /\ client # "junk" /\ toServer = <<>>
    BY <1>1, <1>6, <2>1 DEF InStep, Reads, ReadHeader, ReadBody, ReadJunk
  <2>6. \A i \in DOMAIN toClient' : toClient'[i].id = calls'
    BY <1>1, <1>2, <2>2, <2>3, <2>4 DEF InStep
  <2>7. CASE ReadHeader
    <3>1. Len(toClient) <= 2 /\ toClient[1].part = "head"
      BY <1>1, <1>2, <2>1, <2>7, EmptySeq DEF InStep, ReadHeader
    <3>2. client' = "body"
      BY <2>7, <3>1, ReadsPiece DEF Reads, ReadHeader
    <3> QED BY <1>1, <1>2, <2>2, <2>4, <2>5, <2>6, <3>1, <3>2 DEF InStep
  <2>8. CASE ReadBody
    <3>1. Len(toClient') = 0
      BY <1>1, <1>2, <2>1, <2>2, <2>8, EmptySeq DEF InStep, ReadBody
    <3>2. toClient' = <<>>
      BY <2>2, <3>1, EmptySeq
    <3>3. client' \in {"ready", "closed"}
      BY <2>8, ReadsPiece, AnswerEnds DEF Reads, Ending
    <3> QED BY <1>1, <2>4, <2>5, <2>6, <3>2, <3>3 DEF InStep
  <2> QED BY <1>6, <2>5, <2>7, <2>8 DEF Reads, ReadJunk
<1>7. CASE JunkFails \/ ReadEnd \/ Reset
  <2>1. client' \in {"ready", "closed"}
    BY <1>7, FailsEnd DEF Fails, Failing, Ending
  <2>2. client # "junk"
    BY <1>1 DEF InStep
  <2>3. toClient' = <<>> /\ server = "closed" /\ server' = "closed" /\ toServer' = toServer
    BY <1>7, <2>2 DEF JunkFails, ReadEnd, EndSeen, Reset, handler
  <2>4. toServer = <<>>
    BY <2>3 DEF QueueInv
  <2> QED BY <2>1, <2>3, <2>4 DEF InStep
<1>8. CASE Serves
  <2>1. UNCHANGED <<client, calls, op, server>>
    BY <1>1, <1>8, InStepServe DEF Serve, caller
  <2>2. /\ client = "header" /\ toServer' = <<>> /\ Len(toClient') = 2
        /\ DOMAIN toClient' = 1 .. 2
        /\ \A i \in 1 .. 2 : /\ toClient'[i].part = <<"head", "body">>[i]
                             /\ toClient'[i].id = calls
    BY <1>1, <1>8, InStepServe
  <2>3. server' # "lost"
    BY <1>1, <2>1 DEF InStep
  <2> QED BY <2>1, <2>2, <2>3 DEF InStep
<1>9. CASE Stops
  <2>1. toServer' = <<>> /\ server' = "closed" /\ UNCHANGED <<client, calls, op>>
    BY <1>9 DEF Stops, Refuse, ServerEnds, ServerDies, Closes, caller
  <2>2. PICK n \in 0 .. Len(toClient) : toClient' = SubSeq(toClient, 1, n)
    BY <1>2, <1>9, SubSeqFull DEF Stops, Refuse, ServerEnds, ServerDies
  <2>3. /\ toClient' \in Seq(Piece(Kinds)) /\ Len(toClient') = n
        /\ \A i \in 1 .. n : toClient'[i] = toClient[i]
    BY <2>2, FrontProperties DEF TypeOK
  <2>4. DOMAIN toClient' = 1 .. n
    BY <2>3, LenProperties
  <2>5. toClient = <<>> => toClient' = <<>>
    BY <1>2, <2>2, <2>3, EmptySeq
  <2> QED BY <1>1, <1>2, <2>1, <2>3, <2>4, <2>5 DEF InStep
<1> QED BY <1>1, <1>3, <1>4, <1>5, <1>6, <1>7, <1>8, <1>9, Grouped DEF Fails

-----------------------------------------------------------------------------
(* What the caller of a Rust client is told.                               *)

(* Being let in lasts. *)
LEMMA AllowedStays ==
  ASSUME TypeOK, [Next]_vars
  PROVE  /\ lang' = lang /\ setup' = setup /\ (Allowed => Allowed')
         /\ Serve => (toServer[1].what = "login" /\ PasswordRight => Allowed')
<1>1. lang' = lang /\ setup' = setup
  BY Grouped DEF vars, chosen, Construct, Close, Send, Begin, Reads, ReadHeader, ReadBody,
    ReadJunk, Fails, JunkFails, ReadEnd, Reset, ReadTimeout, SendTimeout, Serves, Serve,
    Garbled, Stops, Refuse, ServerEnds, ServerDies, Closes
<1>2. \/ authenticated' = authenticated
      \/ Serve /\ authenticated' = (authenticated \/ (toServer[1].what = "login" /\ PasswordRight))
  BY Grouped DEF vars, handler, Construct, Close, Send, Begin, Reads, ReadHeader, ReadBody,
    ReadJunk, Fails, JunkFails, ReadEnd, Reset, ReadTimeout, SendTimeout, Serves, Serve,
    Garbled, Stops, Refuse, ServerEnds, ServerDies, Closes
<1>3. Serve => authenticated' = (authenticated \/ (toServer[1].what = "login" /\ PasswordRight))
  BY DEF Serve
<1>4. Allowed => Allowed'
  BY <1>1, <1>2 DEF Allowed
<1>5. Serve => (toServer[1].what = "login" /\ PasswordRight => Allowed')
  BY <1>3 DEF Allowed
<1> QED BY <1>1, <1>4, <1>5

(* Who is ready, or has called, has been let in. *)
LEMMA LetIn ==
  ASSUME TypeOK, RustInv, lang = "rust", LoggedIn, [Next]_vars,
         calls' > 0 \/ client' = "ready"
  PROVE  Allowed'
<1>1. CASE calls > 0 \/ client = "ready"
  BY <1>1, AllowedStays DEF RustInv
<1>2. CASE calls = 0 /\ client # "ready"
  <2>1. calls' = 0 /\ client' = "ready"
    BY <1>2, Sending
  <2>2. CASE Construct
    BY <2>1, <2>2, AllowedStays DEF Construct, LoggedIn, Allowed
  <2>3. ~Fails
    BY <1>2, <2>1, FailsEnd DEF Failing
  <2>4. CASE ReadBody
    <3>1. 1 \in DOMAIN toClient /\ Answered(toClient[1].id, toClient[1].what)
      BY <2>4, ReadsPiece, EmptySeq, LenProperties DEF Reads, TypeOK
    <3>2. toClient[1].what = "result_ok"
      BY <1>2, <2>1, <3>1 DEF Answered, LoginAccepted
    <3> QED BY <1>2, <3>1, <3>2, AllowedStays DEF RustInv
  <2> QED BY <1>2, <2>1, <2>2, <2>3, <2>4, Grouped
          DEF vars, Close, Send, Await, Begin, Reads, ReadHeader, ReadJunk, Serves, Serve,
              Garbled, Stops, Refuse, ServerEnds, ServerDies, Closes
<1> QED BY <1>1, <1>2, ClientAssumption DEF TypeOK

(* A login is accepted only with the right password, and an operation of a *)
(* client that has been let in is answered in its own way.                 *)
LEMMA RepliesFit ==
  ASSUME op \in Operations \cup {"login"}, NEW k \in Replies(op)
  PROVE  /\ op = "login" /\ k = "result_ok" => PasswordRight
         /\ op = "login" \/ Allowed => k \in AnswersTo(op)
<1>1. k \in Kinds
  BY RepliesAreKinds
<1>2. op = "login" => /\ AnswersTo(op) = Kinds
                      /\ k = "result_ok" => PasswordRight
  BY DEF AnswersTo, Replies
<1>3. ASSUME op \in Operations, Allowed PROVE k \in AnswersTo(op)
  BY <1>1, <1>3 DEF AnswersTo, Replies, Operations
<1> QED BY <1>1, <1>2, <1>3 DEF Operations

LEMMA RustNext ==
  ASSUME TypeOK, PendingInv, QueueInv, InStep, RustInv, [Next]_vars
  PROVE  RustInv'
<1> SUFFICES ASSUME lang' = "rust" PROVE RustInv'
  BY DEF RustInv
<1>1. lang = "rust" /\ setup' = setup /\ ~timedOut
  BY AllowedStays DEF RustInv
<1>2. ~timedOut'
  BY <1>1, Grouped DEF vars, Construct, Close, Send, Begin, Reads, ReadHeader, ReadBody,
    ReadJunk, Fails, JunkFails, ReadEnd, Reset, ReadTimeout, SendTimeout, TimesOut, Serves,
    Serve, Garbled, Stops, Refuse, ServerEnds, ServerDies, Closes
<1> SUFFICES ASSUME LoggedIn
             PROVE  /\ calls' > 0 \/ client' = "ready" => Allowed'
                    /\ \A i \in DOMAIN toClient' :
                         /\ toClient'[i].what \in AnswersTo(op')
                         /\ calls' = 0 /\ toClient'[i].what = "result_ok" => Allowed'
                    /\ NoSilentFailure'
  BY <1>1, <1>2 DEF RustInv, LoggedIn
<1>3. calls' > 0 \/ client' = "ready" => Allowed'
  BY <1>1, LetIn
<1>4. ASSUME NEW i \in DOMAIN toClient'
      PROVE  /\ toClient'[i].what \in AnswersTo(op')
             /\ calls' = 0 /\ toClient'[i].what = "result_ok" => Allowed'
  <2>1. CASE Serves
    <3>1. /\ Serve /\ toServer[1].what = op /\ toClient'[i].what \in Replies(op)
      BY <1>1, <2>1, InStepServe
    <3>2. UNCHANGED <<calls, op>>
      BY <3>1 DEF Serve, caller
    <3>3. op = "login" \/ Allowed
      BY <1>1, ClientAssumption DEF TypeOK, RustInv
    <3> QED BY <3>1, <3>2, <3>3, RepliesFit, AllowedStays DEF TypeOK
  <2>2. CASE ~Serves
    <3>1. PICK j \in DOMAIN toClient : toClient'[i] = toClient[j]
      BY <2>2, OnlyTaken
    <3>2. client \in {"header", "body"}
      BY <1>1, <3>1 DEF InStep
    <3>3. UNCHANGED <<calls, op>>
      BY <2>2, <3>2, Grouped DEF vars, caller, Construct, Close, Send, Begin, Reads, ReadHeader,
        ReadBody, ReadJunk, Fails, JunkFails, ReadEnd, Reset, ReadTimeout, SendTimeout,
        Stops, Refuse, ServerEnds, ServerDies, Closes
    <3> QED BY <1>1, <3>1, <3>3, AllowedStays DEF RustInv
  <2> QED BY <2>1, <2>2
<1>5. ASSUME NEW n \in 1 .. MaxCalls, result'[n].how = "answer"
      PROVE  Seen(result'[n]) # "empty"
  <2>1. CASE result'[n] = result[n]
    BY <1>1, <1>5, <2>1 DEF RustInv, NoSilentFailure, LoggedIn
  <2>2. CASE /\ n = calls /\ 1 \in DOMAIN toClient
             /\ result'[n] = [how |-> "answer", op |-> op, to |-> toClient[1].id,
                              kind |-> toClient[1].what]
    <3>1. toClient[1].what \in AnswersTo(op)
      BY <1>1, <2>2 DEF RustInv
    <3> QED BY <2>2, <3>1 DEF Seen, Reported, AnswersTo
  <2> QED BY <1>5, <2>1, <2>2, ResultStep
<1>6. NoSilentFailure'
  BY <1>5 DEF NoSilentFailure
<1> QED BY <1>3, <1>4, <1>6

-----------------------------------------------------------------------------
(* The theorems.                                                           *)

LEMMA LateNext ==
  ASSUME TypeOK, InStep, LateOnlyAfterTimeout, [Next]_vars
  PROVE  LateOnlyAfterTimeout'
<1> SUFFICES ASSUME NEW n \in 1 .. MaxCalls, result'[n].how = "answer", ~timedOut'
             PROVE  result'[n].to = n
  BY DEF LateOnlyAfterTimeout
<1>1. ~timedOut
  BY TimeoutStays
<1>2. CASE result'[n] = result[n]
  BY <1>1, <1>2 DEF LateOnlyAfterTimeout
<1>3. CASE /\ n = calls /\ 1 \in DOMAIN toClient
           /\ result'[n] = [how |-> "answer", op |-> op, to |-> toClient[1].id,
                            kind |-> toClient[1].what]
  BY <1>1, <1>3 DEF InStep
<1> QED BY <1>2, <1>3, ResultStep

LEMMA ClientInvInit == Init => ClientInv
<1> SUFFICES ASSUME Init PROVE ClientInv
  OBVIOUS
<1>1. TypeOK
  BY InitType
<1>2. \A n \in 1 .. MaxCalls : result[n] = Pending
  BY DEF Init
<1>3. PendingInv
  BY <1>2, ClientAssumption DEF Init, PendingInv, Pending, Busy, Waiting
<1>4. QueueInv /\ ExecutedInv
  BY DEF Init, QueueInv, ExecutedInv
<1>5. CarriedInv
  BY <1>2 DEF Init, CarriedInv, Pending, Carried
<1>6. InStep
  BY DEF Init, InStep
<1>7. NoSilentFailure /\ LateOnlyAfterTimeout
  BY <1>2 DEF NoSilentFailure, LateOnlyAfterTimeout, Pending
<1>8. RustInv
  BY <1>7 DEF Init, RustInv
<1> QED BY <1>1, <1>3, <1>4, <1>5, <1>6, <1>7, <1>8 DEF ClientInv

LEMMA ClientInvNext == ClientInv /\ [Next]_vars => ClientInv'
BY TypeNext, PendingNext, QueueNext, ExecutedNext, CarriedNext, InStepNext, RustNext, LateNext
   DEF ClientInv

LEMMA ClientInvariant == Spec => []ClientInv
BY ClientInvInit, ClientInvNext, PTL DEF Spec

(* Only a timeout puts a client out of step with its answers: failed       *)
(* logins, closed connections, resets and responses cut anywhere do not    *)
(* (sqlite.py 362-423, client.rs 343-363).                                 *)
THEOREM AnswersInStep == Spec => []LateOnlyAfterTimeout
<1>1. ClientInv => LateOnlyAfterTimeout
  BY DEF ClientInv
<1> QED BY <1>1, ClientInvariant, PTL

(* A request is carried out at most once and in the order of the calls,    *)
(* also when the client has given up on it or on its predecessor, and the  *)
(* caller is given rows only of a request that was carried out (sqlite.py  *)
(* 258-288, connection.rs 54-61).                                          *)
THEOREM CarriedOutOnce == Spec => []AtMostOnce
<1>1. ASSUME ClientInv PROVE AtMostOnce
  <2>1. \A i, j \in DOMAIN executed : i < j => executed[i] < executed[j]
    BY <1>1 DEF ClientInv, ExecutedInv
  <2>2. ASSUME NEW n \in 1 .. MaxCalls, result[n].kind = "rows"
        PROVE  \E i \in DOMAIN executed : executed[i] = result[n].to
    BY <1>1, <2>2 DEF ClientInv, CarriedInv, Carried, IsIn
  <2> QED BY <2>1, <2>2 DEF AtMostOnce
<1> QED BY <1>1, ClientInvariant, PTL

(* A Rust client that has logged in where a login is asked for never       *)
(* mistakes a refusal for an empty result (client.rs 231-241, 294-305,     *)
(* 323-335).                                                               *)
THEOREM FailuresSeen == Spec => []NoSilentFailure
<1>1. ClientInv => NoSilentFailure
  BY DEF ClientInv, RustInv, NoSilentFailure, LoggedIn
<1> QED BY <1>1, ClientInvariant, PTL

-----------------------------------------------------------------------------
(* The clients implement Rpc.                                              *)

outcomes == [n \in 1 .. MaxCalls |-> OutcomeOf(n)]

(* An outcome changes only with its result. *)
LEMMA OutcomeStays ==
  ASSUME TypeOK, LateOnlyAfterTimeout, [Next]_vars, NEW n \in 1 .. MaxCalls,
         result'[n] = result[n]
  PROVE  OutcomeOf(n)' = OutcomeOf(n)
<1>1. timedOut => timedOut'
  BY TimeoutStays
<1>2. result[n].how \in {"pending", "answer", "failed", "nothing"}
  BY DEF TypeOK, Result
<1>3. CASE result[n].how = "answer" /\ result[n].to # n
  <2>1. timedOut /\ timedOut'
    BY <1>1, <1>3 DEF LateOnlyAfterTimeout
  <2> QED BY <1>3, <2>1 DEF OutcomeOf
<1>4. CASE ~(result[n].how = "answer" /\ result[n].to # n)
  BY <1>2, <1>4 DEF OutcomeOf
<1> QED BY <1>3, <1>4

LEMMA OutcomesStay ==
  ASSUME TypeOK, LateOnlyAfterTimeout, [Next]_vars, UNCHANGED result
  PROVE  outcomes' = outcomes
<1>1. \A n \in 1 .. MaxCalls : OutcomeOf(n)' = OutcomeOf(n)
  BY OutcomeStays
<1> QED BY <1>1 DEF outcomes

(* A step that ends the call is a return. *)
LEMMA EndIsReturn ==
  ASSUME ClientInv, ClientInv', [Next]_vars, calls > 0, Fails \/ ReadBody
  PROVE  Remote!Return
<1> USE DEF ClientInv
<1>1. calls \in 1 .. MaxCalls /\ UNCHANGED <<calls, executed>>
  BY ClientAssumption DEF TypeOK, Fails, JunkFails, ReadEnd, Reset, ReadTimeout, SendTimeout,
                          ReadBody, handler
<1>2. Busy
  BY DEF Fails, JunkFails, ReadEnd, EndSeen, Reset, ReadTimeout, SendTimeout, ReadBody, Busy,
         Waiting
<1>3. OutcomeOf(calls) = "pending"
  BY <1>1, <1>2 DEF PendingInv, OutcomeOf
<1>4. \A n \in 1 .. MaxCalls : n # calls => OutcomeOf(n)' = OutcomeOf(n)
  BY OutcomeStays, ResultStep
<1> DEFINE r == result'[calls]
<1>5. /\ r.how \in {"pending", "answer", "failed", "nothing"}
      /\ r.how = "answer" /\ r.to # calls => timedOut'
      /\ r.to > 0 /\ r.kind \in Carried => IsIn(r.to, executed')
  BY <1>1 DEF TypeOK, Result, LateOnlyAfterTimeout, CarriedInv
<1>6. r.how # "pending"
  <2>1. client' \in {"ready", "closed"}
    BY FailsEnd, ReadsPiece, AnswerEnds DEF Failing, Ending, Reads
  <2> QED BY <1>1, <2>1 DEF PendingInv, Busy, Waiting
<1>7. OutcomeOf(calls)' = (IF r.how \in {"failed", "nothing"} THEN "failed"
                           ELSE IF r.to # calls THEN "failed"
                           ELSE IF r.kind \in Carried THEN "answered" ELSE "refused")
  BY <1>1, <1>5, <1>6 DEF OutcomeOf
<1> HIDE DEF r
<1> DEFINE o == OutcomeOf(calls)'
<1>8. /\ o \in {"answered", "refused", "failed"}
      /\ o = "answered" => IsIn(calls, executed)
  BY <1>1, <1>5, <1>7
<1>9. outcomes' = [outcomes EXCEPT ![calls] = o]
  BY <1>1, <1>4 DEF outcomes
<1>10. outcomes[calls] = "pending"
  BY <1>1, <1>3 DEF outcomes
<1> HIDE DEF o
<1>11. o = "answered" => Remote!WasExecuted(calls)
  BY <1>8 DEF IsIn, Remote!WasExecuted
<1> QED BY <1>1, <1>8, <1>9, <1>10, <1>11 DEF Remote!Return, outcomes

LEMMA RpcStep ==
  ASSUME ClientInv, ClientInv', [Next]_vars
  PROVE  [Remote!Next]_(Remote!vars)
<1> USE DEF ClientInv
<1>1. CASE (Fails \/ ReadBody) /\ calls > 0
  BY <1>1, EndIsReturn DEF Remote!Next
<1>2. CASE UNCHANGED <<calls, executed, result>>
  BY <1>2, OutcomesStay DEF Remote!vars, outcomes
<1>3. ASSUME NEW c \in Ops, Begin(c) PROVE Remote!Call
  <2>1. outcomes' = outcomes /\ calls' = calls + 1 /\ executed' = executed /\ calls < MaxCalls
    BY <1>3, OutcomesStay DEF Begin, handler
  <2>2. calls > 0 => outcomes[calls] # "pending"
    <3> SUFFICES ASSUME calls > 0 PROVE outcomes[calls] # "pending"
      OBVIOUS
    <3>1. calls \in 1 .. MaxCalls
      BY ClientAssumption DEF TypeOK
    <3>2. ~Busy
      BY <1>3 DEF Begin, Busy, Waiting
    <3>3. result[calls].how # "pending"
      BY <3>1, <3>2 DEF PendingInv
    <3> QED BY <3>1, <3>3 DEF outcomes, OutcomeOf
  <2> QED BY <2>1, <2>2 DEF Remote!Call, outcomes
<1>4. CASE Serve /\ toServer[1].what # "login" /\ executed' = Append(executed, toServer[1].id)
  <2> DEFINE x == toServer[1].id
  <2>1. x \in 0 .. calls /\ x # 0 /\ \A i \in DOMAIN executed : executed[i] < x
    BY <1>4, Taken DEF Serves
  <2>2. x \in 1 .. calls
    BY <2>1, ClientAssumption DEF TypeOK
  <2>3. UNCHANGED <<calls, result>>
    BY <1>4 DEF Serve, caller
  <2>4. outcomes' = outcomes
    BY <2>3, OutcomesStay
  <2> HIDE DEF x
  <2>5. executed' = Append(executed, x)
    BY <1>4 DEF x
  <2> QED BY <2>1, <2>2, <2>3, <2>4, <2>5 DEF Remote!Next, Remote!Execute, outcomes
<1>5. CASE (Fails \/ ReadBody) /\ ~(calls > 0)
  <2>1. calls = 0 /\ UNCHANGED <<calls, executed>>
    BY <1>5, ClientAssumption DEF TypeOK, Fails, JunkFails, ReadEnd, Reset, ReadTimeout,
                            SendTimeout, ReadBody, handler
  <2>2. result' = result
    BY <1>5, <2>1, FailsEnd, ReadsPiece, AnswerEnds DEF Failing, Ending, Reads
  <2> QED BY <1>2, <2>1, <2>2
<1>6. CASE \/ Construct \/ Close \/ Send \/ ReadHeader \/ ReadJunk
           \/ Stops \/ Garbled \/ UNCHANGED vars
  BY <1>2, <1>6 DEF vars, caller, handler, Construct, Close, Send, ReadHeader, ReadJunk, Stops,
    Refuse, ServerEnds, ServerDies, Closes, Garbled
<1>7. CASE Serve /\ UNCHANGED executed
  BY <1>2, <1>7 DEF Serve, caller
<1> QED BY <1>1, <1>3, <1>4, <1>5, <1>6, <1>7, Grouped, CarriesOut
        DEF Reads, Serves, Remote!Next

(* The Rust and the Python client implement Rpc: a call ends with its own  *)
(* answer, with a refusal or with an error, is carried out at most once    *)
(* and in order, and is answered only if it was carried out, whatever      *)
(* breaks and whenever it times out (client.rs 343-363, sqlite.py 258-288, *)
(* 362-423, connection.rs 24-62).                                          *)
THEOREM RpcImplemented == Spec => ImplementsRpc
<1>1. Init => Remote!Init
  <2> SUFFICES ASSUME Init PROVE Remote!Init
    OBVIOUS
  <2>1. \A n \in 1 .. MaxCalls : OutcomeOf(n) = "pending"
    BY DEF Init, OutcomeOf, Pending
  <2> QED BY <2>1 DEF Init, Remote!Init
<1>2. ClientInv /\ ClientInv' /\ [Next]_vars => [Remote!Next]_(Remote!vars)
  BY RpcStep
<1> QED BY <1>1, <1>2, ClientInvariant, PTL DEF Spec, ImplementsRpc, Remote!Spec
=============================================================================
