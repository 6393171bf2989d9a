---------------------------- MODULE ServerProofs ----------------------------
(***************************************************************************)
(* Theorems about Server: types, the exactness of the semaphore's queue,   *)
(* the permit accounting, admission and run-to-completion, for every set   *)
(* of connections and every configuration.                                 *)
(***************************************************************************)
EXTENDS Server, FiniteSetTheorems, SequenceTheorems, TLAPS

(* What removing the i-th waiter leaves: the others, in order.             *)
LEMMA RemoveAtProperties ==
  ASSUME NEW S, NEW s \in Seq(S), NEW i \in 1 .. Len(s)
  PROVE  /\ RemoveAt(s, i) \in Seq(S)
         /\ Len(RemoveAt(s, i)) = Len(s) - 1
         /\ \A j \in 1 .. Len(s) - 1 :
              RemoveAt(s, i)[j] = IF j < i THEN s[j] ELSE s[j + 1]
<1> DEFINE a == SubSeq(s, 1, i - 1)
           b == SubSeq(s, i + 1, Len(s))
<1>1. a \in Seq(S) /\ Len(a) = i - 1 /\ \A j \in 1 .. i - 1 : a[j] = s[j]
  BY SubSeqProperties, LenProperties
<1>2. b \in Seq(S) /\ Len(b) = Len(s) - i
      /\ \A j \in 1 .. Len(s) - i : b[j] = s[i + j]
  BY SubSeqProperties, LenProperties
<1>3. RemoveAt(s, i) = a \o b
  BY DEF RemoveAt
<1>4. Len(s) \in Nat
  BY LenProperties
<1> HIDE DEF a, b
<1>5. /\ a \o b \in Seq(S) /\ Len(a \o b) = Len(a) + Len(b)
      /\ \A j \in 1 .. Len(a) + Len(b) :
           (a \o b)[j] = IF j <= Len(a) THEN a[j] ELSE b[j - Len(a)]
  BY <1>1, <1>2, ConcatProperties
<1> QED BY <1>1, <1>2, <1>3, <1>4, <1>5

-----------------------------------------------------------------------------
(* Type correctness.                                                       *)

LEMMA InitType == Init => TypeOK
  BY EmptySeq DEF Init, TypeOK, TaskState

LEMMA LeaveQueueType ==
  ASSUME TypeOK, NEW c \in Conn, LeaveQueue(c)
  PROVE  queue' \in Seq(Conn)
<1>1. CASE task[c] = "permit"
  <2>1. PICK i \in DOMAIN queue : queue' = RemoveAt(queue, i)
    BY <1>1 DEF LeaveQueue
  <2>2. i \in 1 .. Len(queue)
    BY <2>1, LenProperties DEF TypeOK
  <2> QED BY <2>1, <2>2, RemoveAtProperties DEF TypeOK
<1>2. CASE task[c] # "permit"
  BY <1>2 DEF LeaveQueue, TypeOK
<1> QED BY <1>1, <1>2

LEMMA CloseType ==
  ASSUME TypeOK, NEW c \in Conn, Close(c)
  PROVE  TypeOK'
<1>1. queue' \in Seq(Conn)
  BY LeaveQueueType DEF Close
<1> QED BY <1>1, EmptySeq DEF Close, Goto, TypeOK, TaskState

(* One step of the process or of a connection's task. *)
LEMMA ServerType ==
  ASSUME TypeOK, NEW c \in Conn,
         Start \/ Shutdown \/ Exit \/ Crash \/ Accept(c) \/ Abort(c) \/ Handle(c)
  PROVE  TypeOK'
<1>1. Slots \in Nat
  BY SizeAssumption DEF Slots
<1>2. CASE Start
  BY <1>1, <1>2 DEF Start, TypeOK, net
<1>3. CASE Shutdown
  BY <1>3, EmptySeq DEF Shutdown, TypeOK, TaskState
<1>4. CASE Exit
  BY <1>4 DEF Exit, TypeOK, net
<1>5. CASE Crash
  BY <1>5, EmptySeq DEF Crash, TypeOK, TaskState
<1>6. CASE Accept(c)
  BY <1>6, CloseType DEF Accept, Goto, TypeOK, TaskState, net
<1>7. CASE Abort(c)
  BY <1>7, CloseType DEF Abort
<1>8. CASE ReadHeader(c)
  BY <1>8 DEF ReadHeader, Goto, TypeOK, TaskState, net
<1>9. CASE Oversized(c) \/ ReadFails(c) \/ WriteFails(c)
  BY <1>9, CloseType DEF Oversized, ReadFails, CutOff, WriteFails
<1>10. CASE ReadBody(c)
  <2>1. inbox[c] \in Seq(Frame) /\ inbox[c] # <<>>
    BY <1>10 DEF ReadBody, BodyArrived, TypeOK
  <2>2. Tail(inbox[c]) \in Seq(Frame)
    BY <2>1, HeadTailProperties
  <2>3. Append(queue, c) \in Seq(Conn)
    BY AppendProperties DEF TypeOK
  <2> QED BY <1>10, <2>2, <2>3 DEF ReadBody, Enqueue, Goto, TypeOK, TaskState
<1>11. CASE Execute(c)
  <2>1. PICK i \in DOMAIN queue : Granted(i) /\ queue' = RemoveAt(queue, i)
    BY <1>11 DEF Execute
  <2>2. i \in 1 .. Len(queue)
    BY <2>1, LenProperties DEF TypeOK
  <2>3. queue' \in Seq(Conn)
    BY <2>1, <2>2, RemoveAtProperties DEF TypeOK
  <2>4. permits - 1 \in Nat
    BY <2>1, <2>2, LenProperties DEF Granted, TypeOK
  <2> QED BY <1>11, <2>3, <2>4 DEF Execute, Goto, TypeOK, TaskState, net
<1>12. CASE Finish(c)
  BY <1>12 DEF Finish, ReleasePermit, Goto, TypeOK, TaskState, net
<1>13. CASE Write(c)
  BY <1>13 DEF Write, Goto, TypeOK, TaskState
<1> QED
  BY <1>2, <1>3, <1>4, <1>5, <1>6, <1>7, <1>8, <1>9, <1>10, <1>11, <1>12, <1>13
     DEF Handle

(* The arrival of the rest of the last body changes no announced size. *)
LEMMA WholeProperties ==
  ASSUME NEW s \in Seq(Frame), s # <<>>
  PROVE  LET w == [s EXCEPT ![Len(s)].whole = TRUE] IN
           w \in Seq(Frame) /\ w # <<>> /\ Head(w).size = Head(s).size
<1> DEFINE w == [s EXCEPT ![Len(s)].whole = TRUE]
<1>1. Len(s) \in 1 .. Len(s) /\ s \in [1 .. Len(s) -> Frame]
  BY LenProperties, EmptySeq
<1>2. w \in [1 .. Len(s) -> Frame] /\ w[1].size = s[1].size
  <2>1. s[Len(s)] \in Frame /\ 1 \in 1 .. Len(s) /\ s[1] \in Frame
    BY <1>1
  <2>2. [s[Len(s)] EXCEPT !.whole = TRUE] \in Frame
    BY <2>1 DEF Frame
  <2>3. [s[Len(s)] EXCEPT !.whole = TRUE].size = s[Len(s)].size
    BY <2>1 DEF Frame
  <2> QED BY <1>1, <2>1, <2>2, <2>3
<1> HIDE DEF w
<1>3. w \in Seq(Frame) /\ Len(w) = Len(s)
  <2>1. Len(s) \in Nat
    BY LenProperties
  <2>2. w \in Seq(Frame)
    BY <1>2, <2>1
  <2>3. DOMAIN w = 1 .. Len(s)
    BY <1>2
  <2> QED BY <2>1, <2>2, <2>3, LenProperties
<1>4. w # <<>> /\ Head(w) = w[1] /\ Head(s) = s[1]
  BY <1>1, <1>3, EmptySeq
<1> QED BY <1>2, <1>3, <1>4 DEF w

(* One step of a client. *)
LEMMA ClientType ==
  ASSUME TypeOK, NEW c \in Conn, Client(c)
  PROVE  TypeOK'
<1>0. inbox[c] \in Seq(Frame)
  BY DEF TypeOK
<1>1. CASE Connect(c)
  BY <1>1 DEF Connect, Goto, TypeOK, TaskState, net
<1>2. ASSUME NEW n \in Sizes, Send(c, n)
      PROVE  TypeOK'
  <2>1. [size |-> n, whole |-> ~Fragmented \/ n = 0] \in Frame
    BY DEF Frame
  <2>2. Append(inbox[c], [size |-> n, whole |-> ~Fragmented \/ n = 0]) \in Seq(Frame)
    BY <1>0, <2>1, AppendProperties
  <2> QED BY <1>2, <2>2 DEF Send, TypeOK
<1>3. CASE SendBody(c)
  <2> DEFINE box == [inbox[c] EXCEPT ![Len(inbox[c])].whole = TRUE]
  <2>1. inbox[c] # <<>>
    BY <1>3 DEF SendBody
  <2>2. box \in Seq(Frame)
    BY <1>0, <2>1, WholeProperties
  <2>3. inbox' = [inbox EXCEPT ![c] = box]
    BY <1>3 DEF SendBody, TypeOK
  <2> QED BY <1>3, <2>2, <2>3 DEF SendBody, TypeOK
<1>4. CASE ReadResponse(c)
  BY <1>4 DEF ReadResponse, TypeOK
<1>5. CASE HangUp(c)
  BY <1>5 DEF HangUp, TypeOK
<1>6. CASE Reset(c)
  <2>1. PICK kept \in {inbox[c], <<>>} : inbox' = [inbox EXCEPT ![c] = kept]
    BY <1>6 DEF Reset
  <2>2. kept \in Seq(Frame)
    BY <1>0, EmptySeq
  <2> QED BY <1>6, <2>1, <2>2 DEF Reset, TypeOK
<1> QED BY <1>1, <1>2, <1>3, <1>4, <1>5, <1>6 DEF Client

(* Every behaviour of the server keeps every variable in its type: in      *)
(* particular the permit count never goes below zero.                      *)
THEOREM TypeCorrect == Spec => []TypeOK
<1>1. ASSUME TypeOK, [Next]_vars
      PROVE  TypeOK'
  <2>1. CASE UNCHANGED vars
    BY <1>1, <2>1 DEF TypeOK, vars
  <2>2. CASE Start \/ Shutdown \/ Exit \/ Crash
    <3>1. CASE Conn = {}
      BY <1>1, <2>2, <3>1, EmptySeq, SizeAssumption
         DEF TypeOK, Start, Shutdown, Exit, Crash, net, Slots
    <3>2. CASE Conn # {}
      BY <1>1, <2>2, <3>2, ServerType
    <3> QED BY <3>1, <3>2
  <2>3. ASSUME NEW c \in Conn, Accept(c) \/ Abort(c) \/ Handle(c) \/ Client(c)
        PROVE  TypeOK'
    BY <1>1, <2>3, ServerType, ClientType
  <2> QED BY <1>1, <2>1, <2>2, <2>3 DEF Next
<1> QED BY <1>1, InitType, PTL DEF Spec

-----------------------------------------------------------------------------
(* The semaphore's queue.                                                  *)

(* The i-th waiter leaves the queue and the acquire await together. *)
LEMMA OneLeaves ==
  ASSUME TypeOK, QueueExact, NEW c \in Conn, NEW i \in DOMAIN queue,
         queue[i] = c, queue' = RemoveAt(queue, i),
         NEW s \in TaskState \ {"permit"}, Goto(c, s)
  PROVE  QueueExact'
<1>1. i \in 1 .. Len(queue) /\ Len(queue) \in Nat
  BY LenProperties DEF TypeOK
<1>2. /\ Len(queue') = Len(queue) - 1
      /\ \A j \in 1 .. Len(queue) - 1 :
           queue'[j] = IF j < i THEN queue[j] ELSE queue[j + 1]
  BY <1>1, RemoveAtProperties DEF TypeOK
<1>3. /\ task' \in [Conn -> TaskState] /\ task'[c] = s
      /\ \A b \in Conn : b # c => task'[b] = task[b]
  BY DEF Goto, TypeOK
<1>4. \A j \in 1 .. Len(queue) : queue[j] \in Conn
  BY LenProperties DEF TypeOK
<1>5. \A j \in 1 .. Len(queue) - 1 :
        \E k \in 1 .. Len(queue) : k # i /\ queue'[j] = queue[k]
  BY <1>1, <1>2
<1>6. \A j \in 1 .. Len(queue) - 1 : queue'[j] \in Conn /\ queue'[j] # c
  BY <1>1, <1>4, <1>5 DEF QueueExact
<1>7. \A j \in 1 .. Len(queue') : task'[queue'[j]] = "permit"
  BY <1>1, <1>2, <1>3, <1>5, <1>6 DEF QueueExact
<1>8. \A j, k \in 1 .. Len(queue') : queue'[j] = queue'[k] => j = k
  BY <1>1, <1>2 DEF QueueExact
<1>9. ASSUME NEW b \in Conn, task'[b] = "permit"
      PROVE  \E j \in 1 .. Len(queue') : queue'[j] = b
  <2>1. b # c /\ task[b] = "permit"
    BY <1>3, <1>9
  <2>2. PICK k \in 1 .. Len(queue) : queue[k] = b
    BY <2>1 DEF QueueExact
  <2>3. CASE k < i
    BY <1>1, <1>2, <2>2, <2>3
  <2>4. CASE k > i
    <3>1. k - 1 \in 1 .. Len(queue) - 1 /\ queue'[k - 1] = queue[k]
      BY <1>1, <1>2, <2>4
    <3> QED BY <1>2, <2>2, <3>1
  <2> QED BY <1>1, <2>1, <2>2, <2>3, <2>4
<1> QED BY <1>7, <1>8, <1>9 DEF QueueExact

(* A task moves between awaits other than the acquire. *)
LEMMA NobodyLeaves ==
  ASSUME TypeOK, QueueExact, UNCHANGED queue, task' \in [Conn -> TaskState],
         \A c \in Conn : task[c] = "permit" <=> task'[c] = "permit"
  PROVE  QueueExact'
<1>1. \A i \in 1 .. Len(queue) : queue[i] \in Conn
  BY LenProperties DEF TypeOK
<1> QED BY <1>1 DEF QueueExact

LEMMA CloseKeepsQueue ==
  ASSUME TypeOK, QueueExact, NEW c \in Conn, Close(c)
  PROVE  QueueExact'
<1>1. "absent" \in TaskState \ {"permit"}
  BY DEF TaskState
<1>2. CASE task[c] = "permit"
  BY <1>1, <1>2, OneLeaves DEF Close, LeaveQueue
<1>3. CASE task[c] # "permit"
  BY <1>1, <1>3, NobodyLeaves DEF Close, LeaveQueue, Goto, TypeOK
<1> QED BY <1>2, <1>3

(* The waiters of the semaphore are exactly the tasks at the acquire       *)
(* await, however connections come, go, are aborted or die.                *)
THEOREM QueueIsExact == Spec => []QueueExact
<1>1. Init => QueueExact
  BY DEF Init, QueueExact
<1>2. ASSUME TypeOK, TypeOK', QueueExact, [Next]_vars
      PROVE  QueueExact'
  <2> USE <1>2
  <2>1. CASE UNCHANGED vars
    BY <2>1 DEF QueueExact, vars
  <2>2. CASE Start \/ Exit
    BY <2>2 DEF Start, Exit, QueueExact
  <2>3. CASE Shutdown
    BY <2>3, NobodyLeaves DEF Shutdown, TypeOK
  <2>4. CASE Crash
    BY <2>4 DEF Crash, QueueExact
  <2>5. ASSUME NEW c \in Conn, Client(c)
        PROVE  QueueExact'
    <3>1. CASE Connect(c)
      BY <3>1, NobodyLeaves DEF Connect, Goto, TypeOK
    <3>2. CASE UNCHANGED <<task, queue>>
      BY <3>2 DEF QueueExact
    <3> QED BY <2>5, <3>1, <3>2
            DEF Client, Send, SendBody, ReadResponse, HangUp, Reset
  <2>6. ASSUME NEW c \in Conn, Accept(c) \/ Abort(c) \/ Handle(c)
        PROVE  QueueExact'
    <3>1. CASE Close(c)
      BY <3>1, CloseKeepsQueue
    <3>2. CASE /\ UNCHANGED queue /\ task[c] # "permit"
               /\ \E s \in TaskState \ {"permit"} : Goto(c, s)
      BY <3>2, NobodyLeaves DEF Goto, TypeOK
    <3>3. CASE ReadBody(c)
      <4>1. /\ task[c] = "body" /\ task' = [task EXCEPT ![c] = "permit"]
            /\ queue' = Append(queue, c)
        BY <3>3 DEF ReadBody, Goto, Enqueue
      <4>2. /\ Len(queue) \in Nat /\ Len(queue') = Len(queue) + 1
            /\ \A i \in 1 .. Len(queue) : queue'[i] = queue[i] /\ queue[i] \in Conn
            /\ queue'[Len(queue) + 1] = c
        BY <4>1, AppendProperties, LenProperties DEF TypeOK
      <4>3. \A i \in 1 .. Len(queue) : queue[i] # c
        BY <4>1 DEF QueueExact
      <4>4. task'[c] = "permit" /\ \A b \in Conn : b # c => task'[b] = task[b]
        BY <4>1 DEF TypeOK
      <4>5. \A i \in 1 .. Len(queue') : i \in 1 .. Len(queue) \/ i = Len(queue) + 1
        BY <4>2
      <4>6. \A i \in 1 .. Len(queue) : i \in 1 .. Len(queue')
        BY <4>2
      <4>7. \A i \in 1 .. Len(queue') : task'[queue'[i]] = "permit"
        BY <4>2, <4>3, <4>4, <4>5 DEF QueueExact
      <4>8. \A i, j \in 1 .. Len(queue') : queue'[i] = queue'[j] => i = j
        BY <4>2, <4>3, <4>5 DEF QueueExact
      <4>9. \A b \in Conn : task'[b] = "permit"
                            => \E i \in 1 .. Len(queue') : queue'[i] = b
        BY <4>2, <4>4, <4>6 DEF QueueExact
      <4> QED BY <4>7, <4>8, <4>9 DEF QueueExact
    <3>4. CASE Execute(c)
      <4>1. PICK i \in DOMAIN queue : queue[i] = c /\ queue' = RemoveAt(queue, i)
        BY <3>4 DEF Execute
      <4>2. "executing" \in TaskState \ {"permit"} /\ Goto(c, "executing")
        BY <3>4 DEF Execute, TaskState
      <4> QED BY <4>1, <4>2, OneLeaves
    <3> QED BY <2>6, <3>1, <3>2, <3>3, <3>4
            DEF Accept, Abort, Handle, ReadHeader, Oversized, ReadFails, CutOff, Finish,
                Write, WriteFails, TaskState
  <2> QED BY <2>1, <2>2, <2>3, <2>4, <2>5, <2>6 DEF Next
<1> QED BY <1>1, <1>2, TypeCorrect, PTL DEF Spec

-----------------------------------------------------------------------------
(* The permits.  Accounting alone is not inductive: Start fills the        *)
(* semaphore, which is right only because a process that is down has no    *)
(* task left.                                                              *)

DownIsEmpty == phase = "down" => \A c \in Conn : task[c] = "absent"
PermitInv == DownIsEmpty /\ PermitAccounting

LEMMA ExecutingFinite ==
  IsFiniteSet(Executing) /\ Cardinality(Executing) \in Nat
BY ConnAssumption, FS_Subset, FS_CardinalityType DEF Executing

(* A step that neither starts nor ends a handler keeps the account. *)
LEMMA AccountKept ==
  ASSUME TypeOK, PermitInv, phase # "down", phase' # "down", UNCHANGED permits,
         \A c \in Conn : task[c] = "executing" <=> task'[c] = "executing"
  PROVE  PermitInv'
<1>1. Executing' = Executing
  BY DEF Executing
<1> QED BY <1>1 DEF PermitInv, DownIsEmpty, PermitAccounting

LEMMA PermitInvariant == Spec => []PermitInv
<1>1. Init => PermitInv
  BY DEF Init, PermitInv, DownIsEmpty, PermitAccounting
<1>2. ASSUME TypeOK, PermitInv, [Next]_vars
      PROVE  PermitInv'
  <2> USE <1>2
  <2>1. CASE UNCHANGED vars
    BY <2>1 DEF PermitInv, DownIsEmpty, PermitAccounting, Executing, vars
  <2>2. CASE Start
    <3>1. Executing' = {} /\ permits' = Slots /\ phase' # "down"
      BY <2>2 DEF Start, Executing, PermitInv, DownIsEmpty
    <3>2. Cardinality({}) = 0 /\ Slots \in Nat
      BY FS_EmptySet, SizeAssumption DEF Slots
    <3> QED BY <3>1, <3>2 DEF PermitInv, DownIsEmpty, PermitAccounting
  <2>3. CASE Shutdown
    BY <2>3, AccountKept DEF Shutdown, TypeOK
  <2>4. CASE Exit \/ Crash
    BY <2>4 DEF Exit, Crash, PermitInv, DownIsEmpty, PermitAccounting
  <2>5. ASSUME NEW c \in Conn, Accept(c) \/ Abort(c) \/ Handle(c) \/ Client(c)
        PROVE  PermitInv'
    <3>1. CASE Execute(c) \/ Finish(c)
      <4>1. phase # "down" /\ phase' = phase
        BY <3>1 DEF Execute, Finish, PermitInv, DownIsEmpty
      <4>2. CASE Execute(c)
        <5>1. c \notin Executing /\ Executing' = Executing \cup {c}
          BY <4>2 DEF Execute, Goto, Executing, TypeOK
        <5>2. Cardinality(Executing') = Cardinality(Executing) + 1
          BY <5>1, ExecutingFinite, FS_AddElement
        <5>3. permits' = permits - 1
          BY <4>2 DEF Execute
        <5> QED BY <4>1, <5>2, <5>3, ExecutingFinite
                DEF PermitInv, DownIsEmpty, PermitAccounting, TypeOK
      <4>3. CASE Finish(c)
        <5>1. c \in Executing /\ Executing' = Executing \ {c}
          BY <4>3 DEF Finish, Goto, Executing, TypeOK
        <5>2. Cardinality(Executing') = Cardinality(Executing) - 1
          BY <5>1, ExecutingFinite, FS_RemoveElement
        <5>3. permits' = permits + 1
          BY <4>3 DEF Finish, ReleasePermit
        <5> QED BY <4>1, <5>2, <5>3, ExecutingFinite
                DEF PermitInv, DownIsEmpty, PermitAccounting, TypeOK
      <4> QED BY <3>1, <4>2, <4>3
    <3>2. CASE /\ UNCHANGED <<phase, permits>> /\ task[c] # "executing"
               /\ \E s \in TaskState \ {"executing"} : Goto(c, s)
               /\ phase = "listening" \/ task[c] # "absent"
      <4>1. phase # "down"
        BY <3>2 DEF PermitInv, DownIsEmpty
      <4> QED BY <3>2, <4>1, AccountKept DEF Goto, TypeOK
    <3>3. CASE UNCHANGED <<phase, task, permits>>
      BY <3>3 DEF PermitInv, DownIsEmpty, PermitAccounting, Executing
    <3>4. CASE Accept(c) \/ Abort(c)
      BY <3>2, <3>4 DEF Accept, Abort, Droppable, Close, TaskState
    <3>5. CASE ReadHeader(c) \/ Oversized(c) \/ ReadBody(c) \/ ReadFails(c)
      BY <3>2, <3>5
         DEF ReadHeader, Oversized, ReadBody, ReadFails, CutOff, Close, TaskState
    <3>6. CASE Write(c) \/ WriteFails(c)
      BY <3>2, <3>6 DEF Write, WriteFails, Close, TaskState
    <3>7. CASE Client(c)
      BY <3>2, <3>3, <3>7
         DEF Client, Connect, Send, SendBody, ReadResponse, HangUp, Reset, TaskState
    <3> QED BY <2>5, <3>1, <3>4, <3>5, <3>6, <3>7 DEF Handle
  <2> QED BY <2>1, <2>2, <2>3, <2>4, <2>5 DEF Next
<1> QED BY <1>1, <1>2, TypeCorrect, PTL DEF Spec

(* Free permits and running handlers always add up to workers.max(1).      *)
THEOREM PermitsAccounted == Spec => []PermitAccounting
<1>1. PermitInv => PermitAccounting
  BY DEF PermitInv
<1> QED BY <1>1, PermitInvariant, PTL

-----------------------------------------------------------------------------
(* Admission.  Besides Admission itself the proof needs that a task        *)
(* waiting for a body has that body's frame at the head of its inbox for   *)
(* as long as the client still sends, so that no later frame can take the  *)
(* place of the one whose size was checked.                                *)

BodyHasFrame ==
  \A c \in Conn : task[c] = "body" /\ peer[c] = "open" => inbox[c] # <<>>
AdmissionInv == Admission /\ BodyHasFrame

(* Appending to a nonempty inbox leaves its head. *)
LEMMA AppendKeepsHead ==
  ASSUME NEW S, NEW s \in Seq(S), s # <<>>, NEW e \in S
  PROVE  Append(s, e) # <<>> /\ Head(Append(s, e)) = Head(s)
<1>1. Append(s, e) \in Seq(S) /\ Len(Append(s, e)) = Len(s) + 1
      /\ Append(s, e)[1] = s[1]
  BY AppendProperties, LenProperties, EmptySeq
<1> QED BY <1>1, LenProperties, EmptySeq

(* Only admitted peers are served and only packets within the limit read.  *)
THEOREM OnlyAdmitted == Spec => []Admission
<1>1. Init => AdmissionInv
  BY DEF Init, AdmissionInv, Admission, BodyHasFrame
<1>2. ASSUME TypeOK, AdmissionInv, [Next]_vars
      PROVE  AdmissionInv'
  <2> USE <1>2 DEF AdmissionInv, Admission, BodyHasFrame
  <2>1. CASE UNCHANGED vars
    BY <2>1 DEF vars
  <2>2. CASE Start \/ Exit
    BY <2>2 DEF Start, Exit, net
  <2>3. CASE Shutdown \/ Crash
    BY <2>3 DEF Shutdown, Crash
  <2>4. ASSUME NEW c \in Conn, Accept(c) \/ Abort(c) \/ Handle(c) \/ Client(c)
        PROVE  AdmissionInv'
    <3>1. CASE Close(c)
      BY <3>1 DEF Close, Goto, TypeOK
    <3>2. CASE Accept(c)
      BY <3>1, <3>2 DEF Accept, IsIpAllowed, Goto, TypeOK, net
    <3>3. CASE ReadHeader(c)
      BY <3>3 DEF ReadHeader, Fits, Goto, TypeOK, net
    <3>4. CASE ReadBody(c) \/ Execute(c) \/ Finish(c) \/ Write(c)
      BY <3>4 DEF ReadBody, Execute, Finish, Write, Goto, TypeOK, net
    <3>5. CASE Connect(c)
      BY <3>5 DEF Connect, Goto, TypeOK, net
    <3>6. ASSUME NEW n \in Sizes, Send(c, n)
          PROVE  AdmissionInv'
      <4> DEFINE f == [size |-> n, whole |-> ~Fragmented \/ n = 0]
      <4>1. f \in Frame /\ inbox[c] \in Seq(Frame)
        BY DEF Frame, TypeOK
      <4>2. inbox[c] # <<>> => Append(inbox[c], f) # <<>>
                               /\ Head(Append(inbox[c], f)) = Head(inbox[c])
        BY <4>1, AppendKeepsHead
      <4>3. /\ inbox' = [inbox EXCEPT ![c] = Append(inbox[c], f)]
            /\ peer[c] = "open" /\ UNCHANGED <<task, peer>>
        BY <3>6 DEF Send
      <4> HIDE DEF f
      <4> QED BY <4>2, <4>3 DEF TypeOK
    <3>7. CASE SendBody(c)
      <4> DEFINE box == [inbox[c] EXCEPT ![Len(inbox[c])].whole = TRUE]
      <4>1. inbox[c] \in Seq(Frame) /\ inbox[c] # <<>>
        BY <3>7 DEF SendBody, TypeOK
      <4>2. box # <<>> /\ Head(box).size = Head(inbox[c]).size
        BY <4>1, WholeProperties
      <4>3. inbox' = [inbox EXCEPT ![c] = box] /\ UNCHANGED <<task, peer>>
        BY <3>7 DEF SendBody, TypeOK
      <4> HIDE DEF box
      <4> QED BY <4>1, <4>2, <4>3 DEF TypeOK
    <3>8. CASE ReadResponse(c) \/ HangUp(c)
      BY <3>8 DEF ReadResponse, HangUp, TypeOK
    <3>9. CASE Reset(c)
      BY <3>9 DEF Reset, TypeOK
    <3> QED BY <2>4, <3>1, <3>2, <3>3, <3>4, <3>5, <3>6, <3>7, <3>8, <3>9
            DEF Abort, Handle, Oversized, ReadFails, CutOff, WriteFails, Client
  <2> QED BY <2>1, <2>2, <2>3, <2>4 DEF Next
<1>3. AdmissionInv => Admission
  BY DEF AdmissionInv
<1> QED BY <1>1, <1>2, <1>3, TypeCorrect, PTL DEF Spec

-----------------------------------------------------------------------------
(* A handler that has started runs to its end unless the process dies.     *)
THEOREM Completes == Spec => RunToCompletion
<1> DEFINE Kept == \A c \in Conn : task[c] = "executing" /\ phase' # "down"
                                    => task'[c] \in {"executing", "writing"}
<1>1. ASSUME TypeOK, [Next]_vars
      PROVE  [Kept]_vars
  <2> USE <1>1
  <2>1. CASE UNCHANGED vars
    BY <2>1
  <2>2. CASE Start \/ Shutdown \/ Exit \/ Crash
    BY <2>2 DEF Start, Shutdown, Exit, Crash, net
  <2>3. ASSUME NEW b \in Conn, Accept(b) \/ Abort(b) \/ Handle(b) \/ Client(b)
        PROVE  Kept
    <3>1. CASE Accept(b) \/ Abort(b)
      BY <3>1 DEF Accept, Abort, Droppable, Close, Goto, TypeOK, net
    <3>2. CASE Handle(b)
      BY <3>2 DEF Handle, ReadHeader, Oversized, ReadBody, ReadFails, CutOff, Execute,
                  Finish, Write, WriteFails, Close, Goto, TypeOK, net
    <3>3. CASE Client(b)
      BY <3>3 DEF Client, Connect, Send, SendBody, ReadResponse, HangUp, Reset,
                  Goto, TypeOK
    <3> QED BY <2>3, <3>1, <3>2, <3>3
  <2> QED BY <2>1, <2>2, <2>3 DEF Next
<1> QED BY <1>1, TypeCorrect, PTL DEF Spec, RunToCompletion
-----------------------------------------------------------------------------
(* The limiter.  The slots of Limiter belong to the tasks that run and to  *)
(* the oldest waiters, as many as there are permits; the rest waits.       *)

HoldersOf(E, q, p) == E \cup {q[i] : i \in {i \in DOMAIN q : i <= p}}
WaitingOf(q, p) == SubSeq(q, p + 1, Len(q))
Holders == HoldersOf(Executing, queue, permits)
Waiting == WaitingOf(queue, permits)

(* What is left of a queue without its first p waiters. *)
LEMMA WaitingProperties ==
  ASSUME NEW q \in Seq(Conn), NEW p \in Nat
  PROVE  /\ WaitingOf(q, p) \in Seq(Conn) /\ Len(q) \in Nat
         /\ Len(WaitingOf(q, p)) = IF p < Len(q) THEN Len(q) - p ELSE 0
         /\ \A j \in 1 .. Len(q) - p : WaitingOf(q, p)[j] = q[p + j]
         /\ WaitingOf(q, p) = <<>> <=> Len(q) <= p
         /\ DOMAIN WaitingOf(q, p) = 1 .. Len(WaitingOf(q, p))
<1> DEFINE w == WaitingOf(q, p)
<1>1. Len(q) \in Nat /\ p + 1 \in Int /\ \A i \in p + 1 .. Len(q) : q[i] \in Conn
  BY LenProperties
<1>2. \A j \in 1 .. Len(q) - p : j \in 1 .. Len(q) - (p + 1) + 1 /\ p + 1 + j - 1 = p + j
  BY <1>1
<1>3. /\ w \in Seq(Conn) /\ Len(w) = IF p + 1 <= Len(q) THEN Len(q) - (p + 1) + 1 ELSE 0
      /\ \A j \in 1 .. Len(q) - p : w[j] = q[p + j]
  BY <1>1, <1>2, SubSeqProperties DEF WaitingOf
<1> HIDE DEF w
<1>4. w = <<>> <=> Len(w) = 0
  BY <1>3, EmptySeq
<1>5. DOMAIN w = 1 .. Len(w)
  BY <1>3, LenProperties
<1>6. Len(w) = 0 <=> Len(q) <= p
  BY <1>1, <1>3
<1>7. Len(w) = IF p < Len(q) THEN Len(q) - p ELSE 0
  BY <1>1, <1>3
<1> QED BY <1>1, <1>3, <1>4, <1>5, <1>6, <1>7 DEF w

LEMMA HoldersProperties ==
  ASSUME NEW E, NEW q \in Seq(Conn), NEW p \in Nat, NEW c
  PROVE  c \in HoldersOf(E, q, p)
           <=> c \in E \/ \E i \in 1 .. Len(q) : i <= p /\ q[i] = c
BY LenProperties DEF HoldersOf

(* Two waiting lines are the same when they have the same waiters. *)
LEMMA SameWaiting ==
  ASSUME NEW q \in Seq(Conn), NEW p \in Nat, NEW w \in Seq(Conn),
         Len(w) = IF p < Len(q) THEN Len(q) - p ELSE 0,
         \A j \in 1 .. Len(q) - p : w[j] = q[p + j]
  PROVE  w = WaitingOf(q, p)
<1>1. /\ WaitingOf(q, p) \in Seq(Conn) /\ Len(q) \in Nat
      /\ Len(WaitingOf(q, p)) = Len(w)
      /\ \A j \in 1 .. Len(q) - p : WaitingOf(q, p)[j] = w[j]
  BY WaitingProperties
<1>2. \A j \in 1 .. Len(w) : j \in 1 .. Len(q) - p
  BY <1>1
<1> QED BY <1>1, <1>2, SeqEqual

(* While the process runs, a slot is free exactly when there are more      *)
(* permits than waiters.                                                   *)
LEMMA SlotFree ==
  ASSUME TypeOK, QueueExact, PermitInv, phase # "down"
  PROVE  Cardinality(Holders) < Slots <=> Len(queue) < permits
<1> DEFINE m == IF Len(queue) < permits THEN Len(queue) ELSE permits
           May == {i \in DOMAIN queue : i <= permits}
           G == {queue[i] : i \in May}
           f == [i \in 1 .. m |-> queue[i]]
<1>1. Len(queue) \in Nat /\ permits \in Nat /\ m \in Nat /\ DOMAIN queue = 1 .. Len(queue)
      /\ \A i \in 1 .. Len(queue) : queue[i] \in Conn
  BY LenProperties DEF TypeOK
<1>2. May = 1 .. m
  BY <1>1
<1> HIDE DEF m, May
<1>3. f \in Bijection(1 .. m, G)
  <2>1. 1 .. m \subseteq 1 .. Len(queue)
    BY <1>1 DEF m
  <2>2. \A i, j \in 1 .. m : f[i] = f[j] => i = j
    BY <2>1 DEF QueueExact
  <2>3. f \in [1 .. m -> G] /\ \A g \in G : \E i \in 1 .. m : f[i] = g
    BY <1>2
  <2> HIDE DEF f, G
  <2> QED BY <2>2, <2>3 DEF Bijection, Injection, Surjection, IsInjective
<1>4. IsFiniteSet(1 .. m) /\ Cardinality(1 .. m) = m
  BY <1>1, FS_Interval
<1>5. IsFiniteSet(G) /\ Cardinality(G) = m
  <2>1. ExistsBijection(1 .. m, G)
    BY <1>3 DEF ExistsBijection
  <2> QED BY <1>4, <2>1, FS_Bijection
<1>6. Executing \cap G = {}
  BY <1>1 DEF Executing, QueueExact, May
<1> HIDE DEF G
<1>7. Cardinality(Executing \cup G) = Cardinality(Executing) + m - Cardinality({})
  BY <1>5, <1>6, ExecutingFinite, FS_Union
<1>8. Cardinality(Holders) = Cardinality(Executing) + m
  BY <1>1, <1>7, ExecutingFinite, FS_EmptySet DEF Holders, HoldersOf, G, May
<1>9. permits + Cardinality(Executing) = Slots
  BY DEF PermitInv, PermitAccounting
<1> QED BY <1>1, <1>8, <1>9, ExecutingFinite DEF m

(* The mapping of Server.tla, in these words. *)
LEMMA PoolSteps ==
  /\ Pool!vars = <<Holders, Waiting>>
  /\ Pool!Init <=> Holders = {} /\ Waiting = <<>>
  /\ Pool!Vanish <=> Holders' = {} /\ Waiting' = <<>>
  /\ \A c \in Conn :
       /\ Pool!Acquire(c) <=>
            /\ c \notin Holders /\ \A i \in DOMAIN Waiting : Waiting[i] # c
            /\ IF Cardinality(Holders) < Slots
               THEN Holders' = Holders \cup {c} /\ Waiting' = Waiting
               ELSE Waiting' = Append(Waiting, c) /\ Holders' = Holders
       /\ Pool!Release(c) <=>
            /\ c \in Holders
            /\ IF Waiting = <<>>
               THEN Holders' = Holders \ {c} /\ Waiting' = Waiting
               ELSE /\ Holders' = (Holders \ {c}) \cup {Head(Waiting)}
                    /\ Waiting' = Tail(Waiting)
       /\ Pool!Cancel(c) <=>
            /\ \E i \in DOMAIN Waiting :
                 Waiting[i] = c /\ Waiting' = RemoveAt(Waiting, i)
            /\ Holders' = Holders
<1>1. /\ Holders = Executing \cup {queue[i] : i \in MayRun}
      /\ Waiting = SubSeq(queue, permits + 1, Len(queue))
  BY DEF Holders, HoldersOf, Waiting, WaitingOf, MayRun
<1>2. /\ Holders' = Executing' \cup {queue'[i] : i \in MayRun'}
      /\ Waiting' = SubSeq(queue', permits' + 1, Len(queue'))
  BY DEF Holders, HoldersOf, Waiting, WaitingOf, MayRun
<1>3. Pool!vars = <<Holders, Waiting>>
  BY <1>1 DEF Pool!vars
<1>4. Pool!Init <=> Holders = {} /\ Waiting = <<>>
  BY <1>1 DEF Pool!Init
<1>5. Pool!Vanish <=> Holders' = {} /\ Waiting' = <<>>
  BY <1>2 DEF Pool!Vanish
<1> SUFFICES ASSUME NEW c \in Conn
             PROVE  PoolSteps!4!(c)
  BY <1>3, <1>4, <1>5
<1>6. PoolSteps!4!(c)!1
  <2>1. Pool!Cardinality(Holders) = Cardinality(Holders)
    BY DEF Pool!Cardinality, Cardinality
  <2> QED BY <1>1, <1>2, <2>1 DEF Pool!Acquire
<1>7. PoolSteps!4!(c)!2
  BY <1>1, <1>2 DEF Pool!Release
<1>8. PoolSteps!4!(c)!3
  BY <1>1, <1>2 DEF Pool!Cancel, RemoveAt, Pool!RemoveAt
<1> QED BY <1>6, <1>7, <1>8
(* A waiter leaves the queue unserved: if its turn had not come it cancels, *)
(* otherwise the slot it had been assigned passes to the next in line.     *)
LEMMA WaiterLeaves ==
  ASSUME TypeOK, TypeOK', QueueExact, NEW c \in Conn, NEW i \in 1 .. Len(queue),
         queue[i] = c, queue' = RemoveAt(queue, i), UNCHANGED permits,
         Executing' = Executing
  PROVE  Pool!Cancel(c) \/ Pool!Release(c)
<1> DEFINE n == Len(queue)
<1>1. /\ n \in Nat /\ permits \in Nat /\ i \in 1 .. n
      /\ queue \in Seq(Conn) /\ queue' \in Seq(Conn)
      /\ permits' = permits /\ Len(queue') = n - 1
      /\ \A j \in 1 .. n - 1 : queue'[j] = IF j < i THEN queue[j] ELSE queue[j + 1]
  BY RemoveAtProperties, LenProperties DEF TypeOK
<1>2. \A j \in 1 .. n : queue[j] = c => j = i
  BY DEF QueueExact
<1>3. /\ Waiting \in Seq(Conn) /\ DOMAIN Waiting = 1 .. Len(Waiting)
      /\ Len(Waiting) = IF permits < n THEN n - permits ELSE 0
      /\ \A j \in 1 .. n - permits : Waiting[j] = queue[permits + j]
      /\ Waiting = <<>> <=> n <= permits
  BY <1>1, WaitingProperties DEF Waiting
<1>4. c \notin Executing
  BY DEF QueueExact, Executing
<1>5. \A b : b \in Holders <=>
               b \in Executing \/ \E j \in 1 .. n : j <= permits /\ queue[j] = b
  BY <1>1, HoldersProperties DEF Holders
<1>6. \A b : b \in Holders' <=>
               b \in Executing \/ \E j \in 1 .. n - 1 : j <= permits /\ queue'[j] = b
  <2>1. Holders' = HoldersOf(Executing, queue', permits)
    BY <1>1 DEF Holders
  <2>2. \A b : b \in HoldersOf(Executing, queue', permits) <=>
          b \in Executing \/ \E j \in 1 .. Len(queue') : j <= permits /\ queue'[j] = b
    BY <1>1, HoldersProperties
  <2> QED BY <1>1, <2>1, <2>2
<1> HIDE DEF n
<1>n. ASSUME NEW w \in Seq(Conn), Len(w) = IF permits < n - 1 THEN n - 1 - permits ELSE 0,
             \A j \in 1 .. n - 1 - permits : w[j] = queue'[permits + j]
      PROVE  Waiting' = w
  <2>1. Waiting' = WaitingOf(queue', permits)
    BY <1>1 DEF Waiting
  <2>2. /\ Len(w) = IF permits < Len(queue') THEN Len(queue') - permits ELSE 0
        /\ \A j \in 1 .. Len(queue') - permits : w[j] = queue'[permits + j]
    BY <1>1, <1>n
  <2> QED BY <1>1, <1>n, <2>1, <2>2, SameWaiting
<1>7. CASE i > permits
  <2> DEFINE k == i - permits
             w == RemoveAt(Waiting, k)
  <2>1. k \in 1 .. Len(Waiting) /\ k \in 1 .. n - permits /\ Waiting[k] = c
    BY <1>1, <1>3, <1>7
  <2>2. /\ w \in Seq(Conn) /\ Len(w) = Len(Waiting) - 1
        /\ \A j \in 1 .. Len(Waiting) - 1 :
             w[j] = IF j < k THEN Waiting[j] ELSE Waiting[j + 1]
    BY <1>3, <2>1, RemoveAtProperties
  <2>3. Len(w) = IF permits < n - 1 THEN n - 1 - permits ELSE 0
    BY <1>1, <1>3, <1>7, <2>2
  <2>4. \A j \in 1 .. n - 1 - permits : w[j] = queue'[permits + j]
    <3> SUFFICES ASSUME NEW j \in 1 .. n - 1 - permits PROVE w[j] = queue'[permits + j]
      OBVIOUS
    <3>1. /\ permits < n /\ j \in 1 .. Len(Waiting) - 1 /\ j + 1 \in 1 .. n - permits
          /\ j \in 1 .. n - permits /\ permits + j \in 1 .. n - 1
      BY <1>1, <1>3
    <3>2. j < k <=> permits + j < i
      BY <1>1
    <3>3. permits + (j + 1) = (permits + j) + 1
      BY <1>1
    <3> QED BY <1>1, <1>3, <2>2, <3>1, <3>2, <3>3
  <2> HIDE DEF w
  <2>5. Waiting' = w
    BY <1>n, <2>2, <2>3, <2>4
  <2>6. \A j \in 1 .. n - 1 : j <= permits => j \in 1 .. n /\ queue'[j] = queue[j]
    BY <1>1, <1>7
  <2>7. \A j \in 1 .. n : j <= permits => j \in 1 .. n - 1
    BY <1>1, <1>7
  <2>8. Holders' = Holders
    BY <1>5, <1>6, <2>6, <2>7
  <2> QED BY <1>3, <2>1, <2>5, <2>8, PoolSteps DEF w
<1>8. CASE i <= permits
  <2>1. c \in Holders
    BY <1>1, <1>5, <1>8
  <2>2. CASE n <= permits
    <3>1. Waiting' = <<>>
      BY <1>1, <2>2, WaitingProperties DEF Waiting
    <3>2. ASSUME NEW b PROVE b \in Holders' <=> b \in Holders \ {c}
      <4>1. \A j \in 1 .. n - 1 :
              \/ j \in 1 .. n /\ j # i /\ queue'[j] = queue[j]
              \/ j + 1 \in 1 .. n /\ j + 1 # i /\ queue'[j] = queue[j + 1]
        <5> TAKE j \in 1 .. n - 1
        <5>1. CASE j < i
          BY <1>1, <5>1
        <5>2. CASE ~(j < i)
          BY <1>1, <5>2
        <5> QED BY <5>1, <5>2
      <4>2. \A k \in 1 .. n : k # i => \E j \in 1 .. n - 1 : queue'[j] = queue[k]
        <5> TAKE k \in 1 .. n
        <5>1. CASE k < i
          BY <1>1, <5>1
        <5>2. CASE k > i
          <6>1. k - 1 \in 1 .. n - 1 /\ ~(k - 1 < i) /\ (k - 1) + 1 = k
            BY <1>1, <5>2
          <6> QED BY <1>1, <6>1
        <5> QED BY <1>1, <5>1, <5>2
      <4>3. \A j \in 1 .. n : j <= permits
        BY <1>1, <2>2
      <4>4. \A j \in 1 .. n - 1 : j <= permits
        BY <1>1, <2>2
      <4>5. b \in Holders' => b \in Holders \ {c}
        BY <1>2, <1>4, <1>5, <1>6, <4>1, <4>3
      <4>6. b \in Holders \ {c} => b \in Holders'
        BY <1>5, <1>6, <4>2, <4>4
      <4> QED BY <4>5, <4>6
    <3>3. Holders' = Holders \ {c}
      BY <3>2
    <3> QED BY <1>3, <2>1, <2>2, <3>1, <3>3, PoolSteps
  <2>3. CASE n > permits
    <3> DEFINE h == queue[permits + 1]
    <3>1. /\ Waiting # <<>> /\ 1 \in 1 .. n - permits /\ Head(Waiting) = h
          /\ Tail(Waiting) \in Seq(Conn) /\ Len(Tail(Waiting)) = Len(Waiting) - 1
          /\ \A j \in 1 .. Len(Tail(Waiting)) : Tail(Waiting)[j] = Waiting[j + 1]
      BY <1>1, <1>3, <2>3, HeadTailProperties
    <3>2. Len(Tail(Waiting)) = IF permits < n - 1 THEN n - 1 - permits ELSE 0
      <4>1. Len(Waiting) = n - permits
        BY <1>3, <2>3, <1>1
      <4>2. Len(Tail(Waiting)) = n - permits - 1
        BY <3>1, <4>1
      <4> QED BY <1>1, <2>3, <4>2
    <3>3. \A j \in 1 .. n - 1 - permits : Tail(Waiting)[j] = queue'[permits + j]
      <4> SUFFICES ASSUME NEW j \in 1 .. n - 1 - permits
                   PROVE  Tail(Waiting)[j] = queue'[permits + j]
        OBVIOUS
      <4>1. /\ j \in 1 .. Len(Tail(Waiting)) /\ j + 1 \in 1 .. n - permits
            /\ permits + j \in 1 .. n - 1 /\ ~(permits + j < i)
            /\ permits + (j + 1) = (permits + j) + 1
        <5>1. n \in Nat /\ permits \in Nat /\ i \in 1 .. n /\ i <= permits
          BY <1>1, <1>8
        <5> QED BY <3>2, <5>1
      <4> QED BY <1>1, <1>3, <3>1, <4>1
    <3>4. Waiting' = Tail(Waiting)
      BY <1>n, <3>1, <3>2, <3>3
    <3>5. ASSUME NEW b PROVE b \in Holders' <=> b \in (Holders \ {c}) \cup {h}
      <4>1. \A j \in 1 .. n - 1 : j <= permits =>
              \/ j \in 1 .. n /\ j # i /\ queue'[j] = queue[j]
              \/ j + 1 \in 1 .. n /\ j + 1 # i /\ j + 1 <= permits /\ queue'[j] = queue[j + 1]
              \/ queue'[j] = h
        <5> TAKE j \in 1 .. n - 1
        <5>1. CASE j < i
          BY <1>1, <5>1
        <5>2. CASE ~(j < i) /\ j < permits
          BY <1>1, <1>8, <5>2
        <5>3. CASE ~(j < i) /\ j >= permits
          BY <1>1, <1>8, <5>3
        <5> QED BY <1>1, <5>1, <5>2, <5>3
      <4>2. \A k \in 1 .. n : k <= permits /\ k # i =>
              \E j \in 1 .. n - 1 : j <= permits /\ queue'[j] = queue[k]
        <5> TAKE k \in 1 .. n
        <5>1. CASE k < i
          BY <1>1, <5>1
        <5>2. CASE k > i
          <6>1. k - 1 \in 1 .. n - 1 /\ ~(k - 1 < i) /\ (k - 1) + 1 = k
                /\ (k <= permits => k - 1 <= permits)
            BY <1>1, <5>2
          <6> QED BY <1>1, <6>1
        <5> QED BY <1>1, <5>1, <5>2
      <4>3. permits \in 1 .. n - 1 /\ queue'[permits] = h /\ permits <= permits
        BY <1>1, <1>8, <2>3
      <4>4. h # c
        BY <1>1, <1>2, <1>8, <2>3
      <4> HIDE DEF h
      <4>5. b \in Holders' => b \in (Holders \ {c}) \cup {h}
        BY <1>1, <1>2, <1>4, <1>5, <1>6, <4>1
      <4>6. b \in (Holders \ {c}) \cup {h} => b \in Holders'
        BY <1>1, <1>2, <1>4, <1>5, <1>6, <4>2, <4>3
      <4> QED BY <4>5, <4>6
    <3>6. Holders' = (Holders \ {c}) \cup {h}
      BY <3>5
    <3> QED BY <2>1, <3>1, <3>4, <3>6, PoolSteps
  <2> QED BY <1>1, <2>2, <2>3
<1> QED BY <1>1, <1>7, <1>8
(* The oldest waiters, whose turn has come, take their permits when they   *)
(* are polled: nothing the limiter promised changes hands.                 *)
LEMMA PolledTakesPermit ==
  ASSUME TypeOK, TypeOK', QueueExact, NEW c \in Conn, Execute(c)
  PROVE  Holders' = Holders /\ Waiting' = Waiting
<1>1. PICK i \in DOMAIN queue : queue[i] = c /\ i <= permits /\ queue' = RemoveAt(queue, i)
  BY DEF Execute, Granted
<1> DEFINE n == Len(queue)
<1>2. /\ n \in Nat /\ permits \in Nat /\ i \in 1 .. n /\ i <= permits
      /\ queue \in Seq(Conn) /\ queue' \in Seq(Conn)
      /\ permits' = permits - 1 /\ permits - 1 \in Nat /\ Len(queue') = n - 1
      /\ \A j \in 1 .. n - 1 : queue'[j] = IF j < i THEN queue[j] ELSE queue[j + 1]
  <2>1. i \in 1 .. n /\ n \in Nat
    BY LenProperties DEF TypeOK
  <2> QED BY <1>1, <2>1, RemoveAtProperties DEF TypeOK, Execute
<1>3. Executing' = Executing \cup {c}
  BY DEF Execute, Goto, Executing, TypeOK
<1>4. /\ Waiting \in Seq(Conn) /\ Len(Waiting) = IF permits < n THEN n - permits ELSE 0
      /\ \A j \in 1 .. n - permits : Waiting[j] = queue[permits + j]
  BY <1>2, WaitingProperties DEF Waiting
<1>5. \A b : b \in Holders <=>
               b \in Executing \/ \E j \in 1 .. n : j <= permits /\ queue[j] = b
  <2>1. queue \in Seq(Conn) /\ permits \in Nat
    BY <1>2
  <2> QED BY <2>1, HoldersProperties DEF Holders
<1>6. \A b : b \in Holders' <=>
               b \in Executing \cup {c}
               \/ \E j \in 1 .. n - 1 : j <= permits - 1 /\ queue'[j] = b
  <2>1. Holders' = HoldersOf(Executing \cup {c}, queue', permits - 1)
    BY <1>2, <1>3 DEF Holders
  <2>2. \A b : b \in HoldersOf(Executing \cup {c}, queue', permits - 1) <=>
          b \in Executing \cup {c}
          \/ \E j \in 1 .. Len(queue') : j <= permits - 1 /\ queue'[j] = b
    BY <1>2, HoldersProperties
  <2> QED BY <1>2, <2>1, <2>2
<1> HIDE DEF n
<1>7. Waiting' = Waiting
  <2>1. Waiting' = WaitingOf(queue', permits - 1)
    BY <1>2 DEF Waiting
  <2>2. Len(Waiting) = IF permits - 1 < Len(queue') THEN Len(queue') - (permits - 1) ELSE 0
    BY <1>2, <1>4
  <2>3. \A j \in 1 .. Len(queue') - (permits - 1) : Waiting[j] = queue'[(permits - 1) + j]
    <3> SUFFICES ASSUME NEW j \in 1 .. Len(queue') - (permits - 1)
                 PROVE  Waiting[j] = queue'[(permits - 1) + j]
      OBVIOUS
    <3>1. /\ j \in 1 .. n - permits /\ permits - 1 + j \in 1 .. n - 1
          /\ ~(permits - 1 + j < i) /\ (permits - 1 + j) + 1 = permits + j
      BY <1>2
    <3> QED BY <1>2, <1>4, <3>1
  <2> QED BY <1>2, <1>4, <2>1, <2>2, <2>3, SameWaiting
<1>8. ASSUME NEW b PROVE b \in Holders' <=> b \in Holders
  <2>1. \A j \in 1 .. n - 1 : j <= permits - 1 =>
          \/ j \in 1 .. n /\ j <= permits /\ queue'[j] = queue[j]
          \/ j + 1 \in 1 .. n /\ j + 1 <= permits /\ queue'[j] = queue[j + 1]
    <3> TAKE j \in 1 .. n - 1
    <3>1. CASE j < i
      BY <1>2, <3>1
    <3>2. CASE ~(j < i)
      BY <1>2, <3>2
    <3> QED BY <3>1, <3>2
  <2>2. \A k \in 1 .. n : k <= permits /\ k # i =>
          \E j \in 1 .. n - 1 : j <= permits - 1 /\ queue'[j] = queue[k]
    <3> TAKE k \in 1 .. n
    <3>1. CASE k < i
      BY <1>2, <3>1
    <3>2. CASE k > i
      <4>1. k - 1 \in 1 .. n - 1 /\ ~(k - 1 < i) /\ (k - 1) + 1 = k
            /\ (k <= permits => k - 1 <= permits - 1)
        BY <1>2, <3>2
      <4> QED BY <1>2, <4>1
    <3> QED BY <1>2, <3>1, <3>2
  <2>3. b \in Holders' => b \in Holders
    BY <1>1, <1>2, <1>5, <1>6, <2>1
  <2>4. b \in Holders => b \in Holders'
    BY <1>1, <1>2, <1>5, <1>6, <2>2
  <2> QED BY <2>3, <2>4
<1> QED BY <1>7, <1>8

(* A handler ends: its slot belongs to the head of the line at once. *)
LEMMA FinishReleases ==
  ASSUME TypeOK, TypeOK', QueueExact, NEW c \in Conn, Finish(c)
  PROVE  Pool!Release(c)
<1> DEFINE n == Len(queue)
<1>1. /\ n \in Nat /\ permits \in Nat /\ queue \in Seq(Conn) /\ queue' = queue
      /\ permits' = permits + 1 /\ permits + 1 \in Nat
  BY LenProperties DEF TypeOK, Finish, ReleasePermit
<1>2. c \in Executing /\ Executing' = Executing \ {c}
  BY DEF Finish, Goto, Executing, TypeOK
<1>3. \A j \in 1 .. n : queue[j] # c
  BY DEF Finish, QueueExact
<1>4. /\ Waiting \in Seq(Conn) /\ Len(Waiting) = IF permits < n THEN n - permits ELSE 0
      /\ \A j \in 1 .. n - permits : Waiting[j] = queue[permits + j]
      /\ Waiting = <<>> <=> n <= permits
  BY <1>1, WaitingProperties DEF Waiting
<1>5. \A b : b \in Holders <=>
               b \in Executing \/ \E j \in 1 .. n : j <= permits /\ queue[j] = b
  BY <1>1, HoldersProperties DEF Holders
<1>6. \A b : b \in Holders' <=>
               b \in Executing \ {c} \/ \E j \in 1 .. n : j <= permits + 1 /\ queue[j] = b
  <2>1. Holders' = HoldersOf(Executing \ {c}, queue, permits + 1)
    BY <1>1, <1>2 DEF Holders
  <2> QED BY <1>1, <2>1, HoldersProperties
<1>7. Waiting' = WaitingOf(queue, permits + 1)
  BY <1>1 DEF Waiting
<1>8. c \in Holders
  BY <1>2, <1>5
<1>9. CASE n <= permits
  <2>1. Waiting' = Waiting
    BY <1>1, <1>4, <1>7, <1>9, WaitingProperties
  <2>2. \A j \in 1 .. n : j <= permits /\ j <= permits + 1
    BY <1>1, <1>9
  <2>3. \A b : b \in Holders' <=> b \in Holders \ {c}
    BY <1>3, <1>5, <1>6, <2>2
  <2>4. Holders' = Holders \ {c}
    BY <2>3
  <2> QED BY <1>4, <1>8, <1>9, <2>1, <2>4, PoolSteps
<1>10. CASE n > permits
  <2> DEFINE h == queue[permits + 1]
             w == Tail(Waiting)
  <2>1. /\ Waiting # <<>> /\ 1 \in 1 .. n - permits /\ Head(Waiting) = h
        /\ w \in Seq(Conn) /\ Len(w) = Len(Waiting) - 1
        /\ \A j \in 1 .. Len(w) : w[j] = Waiting[j + 1]
    BY <1>1, <1>4, <1>10, HeadTailProperties
  <2> HIDE DEF w, n
  <2>2. Len(Waiting) = n - permits
    BY <1>1, <1>4, <1>10
  <2>3. Len(w) = n - permits - 1
    BY <2>1, <2>2
  <2>4. Len(w) = IF permits + 1 < n THEN n - (permits + 1) ELSE 0
    BY <1>1, <1>10, <2>3
  <2>5. \A j \in 1 .. n - (permits + 1) : w[j] = queue[(permits + 1) + j]
    <3> SUFFICES ASSUME NEW j \in 1 .. n - (permits + 1)
                 PROVE  w[j] = queue[(permits + 1) + j]
      OBVIOUS
    <3>1. /\ j \in 1 .. Len(w) /\ j + 1 \in 1 .. n - permits
          /\ permits + (j + 1) = (permits + 1) + j
      BY <1>1, <2>3
    <3> QED BY <1>4, <2>1, <3>1
  <2>6. Waiting' = w
    BY <1>1, <1>7, <2>1, <2>4, <2>5, SameWaiting DEF n
  <2>7. /\ permits + 1 \in 1 .. n /\ permits + 1 <= permits + 1
        /\ \A j \in 1 .. n : j <= permits + 1 <=> j <= permits \/ j = permits + 1
    BY <1>1, <1>10
  <2>8. \A b : b \in Holders' <=> b \in (Holders \ {c}) \cup {h}
    BY <1>3, <1>5, <1>6, <2>7
  <2>9. Holders' = (Holders \ {c}) \cup {h}
    BY <2>8
  <2> QED BY <1>8, <2>1, <2>6, <2>9, PoolSteps DEF w
<1> QED BY <1>1, <1>9, <1>10

(* A request whose body is complete takes a free slot or joins the end.    *)
LEMMA ReadBodyAcquires ==
  ASSUME TypeOK, TypeOK', QueueExact, PermitInv, NEW c \in Conn, ReadBody(c)
  PROVE  Pool!Acquire(c)
<1> DEFINE n == Len(queue)
<1>1. /\ n \in Nat /\ permits \in Nat /\ queue \in Seq(Conn) /\ queue' \in Seq(Conn)
      /\ permits' = permits /\ Len(queue') = n + 1 /\ queue'[n + 1] = c
      /\ \A j \in 1 .. n : queue'[j] = queue[j]
  BY LenProperties, AppendProperties DEF TypeOK, ReadBody, Enqueue
<1>2. task[c] = "body" /\ phase # "down"
  BY DEF ReadBody, PermitInv, DownIsEmpty
<1>3. c \notin Executing /\ Executing' = Executing
  BY DEF ReadBody, Goto, Executing, TypeOK
<1>4. \A j \in 1 .. n : queue[j] # c
  BY <1>2 DEF QueueExact
<1>5. /\ Waiting \in Seq(Conn) /\ Len(Waiting) = IF permits < n THEN n - permits ELSE 0
      /\ \A j \in 1 .. n - permits : Waiting[j] = queue[permits + j]
      /\ Waiting = <<>> <=> n <= permits
      /\ DOMAIN Waiting = 1 .. Len(Waiting)
  BY <1>1, WaitingProperties DEF Waiting
<1>6. \A b : b \in Holders <=>
               b \in Executing \/ \E j \in 1 .. n : j <= permits /\ queue[j] = b
  BY <1>1, HoldersProperties DEF Holders
<1>7. Cardinality(Holders) < Slots <=> n < permits
  BY <1>2, SlotFree
<1>8. \A b : b \in Holders' <=>
               b \in Executing \/ \E j \in 1 .. n + 1 : j <= permits /\ queue'[j] = b
  <2>1. Holders' = HoldersOf(Executing, queue', permits)
    BY <1>1, <1>3 DEF Holders
  <2>2. \A b : b \in HoldersOf(Executing, queue', permits) <=>
          b \in Executing \/ \E j \in 1 .. Len(queue') : j <= permits /\ queue'[j] = b
    BY <1>1, HoldersProperties
  <2> QED BY <1>1, <2>1, <2>2
<1>9. Waiting' = WaitingOf(queue', permits)
  BY <1>1 DEF Waiting
<1> HIDE DEF n
<1>10. c \notin Holders /\ \A i \in DOMAIN Waiting : Waiting[i] # c
  <2>1. \A i \in 1 .. Len(Waiting) : i \in 1 .. n - permits /\ permits + i \in 1 .. n
    BY <1>1, <1>5
  <2> QED BY <1>3, <1>4, <1>5, <1>6, <2>1
<1>11. CASE n < permits
  <2>1. Waiting' = <<>> /\ Waiting = <<>>
    BY <1>1, <1>5, <1>9, <1>11, WaitingProperties
  <2>2. /\ n + 1 \in 1 .. n + 1 /\ n + 1 <= permits
        /\ \A j \in 1 .. n + 1 : j \in 1 .. n \/ j = n + 1
        /\ \A j \in 1 .. n : j \in 1 .. n + 1
    BY <1>1, <1>11
  <2>3. \A b : b \in Holders' <=> b \in Holders \cup {c}
    BY <1>1, <1>6, <1>8, <2>2
  <2>4. Holders' = Holders \cup {c}
    BY <2>3
  <2> QED BY <1>7, <1>10, <1>11, <2>1, <2>4, PoolSteps
<1>12. CASE ~(n < permits)
  <2> DEFINE w == Append(Waiting, c)
  <2>1. /\ w \in Seq(Conn) /\ Len(w) = Len(Waiting) + 1
        /\ w[Len(Waiting) + 1] = c /\ \A j \in 1 .. Len(Waiting) : w[j] = Waiting[j]
    BY <1>5, AppendProperties
  <2> HIDE DEF w
  <2>2. Len(Waiting) = n - permits
    BY <1>1, <1>5, <1>12
  <2>3. Len(w) = IF permits < Len(queue') THEN Len(queue') - permits ELSE 0
    BY <1>1, <1>12, <2>1, <2>2
  <2>4. \A j \in 1 .. Len(queue') - permits : w[j] = queue'[permits + j]
    <3> SUFFICES ASSUME NEW j \in 1 .. Len(queue') - permits
                 PROVE  w[j] = queue'[permits + j]
      OBVIOUS
    <3>1. CASE j = n + 1 - permits
      <4>1. j = Len(Waiting) + 1 /\ permits + j = n + 1
        BY <1>1, <2>2, <3>1
      <4> QED BY <1>1, <2>1, <4>1
    <3>2. CASE j # n + 1 - permits
      <4>1. j \in 1 .. n - permits /\ j \in 1 .. Len(Waiting) /\ permits + j \in 1 .. n
        BY <1>1, <2>2, <3>2
      <4> QED BY <1>1, <1>5, <2>1, <4>1
    <3> QED BY <3>1, <3>2
  <2>5. Waiting' = w
    BY <1>1, <1>9, <2>1, <2>3, <2>4, SameWaiting
  <2>6. /\ \A j \in 1 .. n + 1 : j <= permits => j \in 1 .. n
        /\ \A j \in 1 .. n : j \in 1 .. n + 1
    BY <1>1, <1>12
  <2>7. \A b : b \in Holders' <=> b \in Holders
    BY <1>1, <1>6, <1>8, <2>6
  <2>8. Holders' = Holders
    BY <2>7
  <2> QED BY <1>7, <1>10, <1>12, <2>5, <2>8, PoolSteps DEF w
<1> QED BY <1>11, <1>12
(* A process with no task has no waiter either. *)
LEMMA NoTaskNoWaiter ==
  ASSUME TypeOK, QueueExact, \A c \in Conn : task[c] # "permit"
  PROVE  queue = <<>>
<1>1. queue \in Seq(Conn) /\ \A i \in 1 .. Len(queue) : queue[i] \in Conn
  BY LenProperties DEF TypeOK
<1>2. Len(queue) \in Nat /\ 1 \notin 1 .. Len(queue)
  BY <1>1, LenProperties DEF QueueExact
<1> QED BY <1>1, <1>2, EmptySeq

(* Nobody runs and nobody waits: the limiter's slots are all free. *)
LEMMA EmptyPool ==
  ASSUME NEW q \in Seq(Conn), NEW p \in Nat, q = <<>>
  PROVE  HoldersOf({}, q, p) = {} /\ WaitingOf(q, p) = <<>>
<1>1. Len(q) = 0 /\ Len(q) <= p /\ 1 .. Len(q) = {}
  BY EmptySeq
<1>2. WaitingOf(q, p) = <<>> <=> Len(q) <= p
  BY WaitingProperties
<1>3. HoldersOf({}, q, p) = {}
  <2>1. DOMAIN q = {}
    BY <1>1, LenProperties
  <2> QED BY <2>1 DEF HoldersOf
<1> QED BY <1>1, <1>2, <1>3

(* The query limiter of the server, where a woken task takes its permit    *)
(* only when it is next polled, is the first-come first-served pool of     *)
(* workers.max(1) slots that Limiter describes: every step of the server   *)
(* is a step of Limiter or leaves its slots and its line alone             *)
(* (server.rs 15, connection.rs 49-55).                                    *)
THEOREM LimiterImplemented == Spec => ImplementsLimiter
<1>1. Init => Pool!Init
  <2>1. Init => Executing = {} /\ queue = <<>> /\ queue \in Seq(Conn) /\ permits \in Nat
    BY EmptySeq DEF Init, Executing
  <2> QED BY <2>1, EmptyPool, PoolSteps DEF Holders, Waiting
<1>2. ASSUME TypeOK, TypeOK', QueueExact, QueueExact', PermitInv, PermitInv', [Next]_vars
      PROVE  [Pool!Next]_(Pool!vars)
  <2> USE <1>2
  <2>1. ASSUME Executing' = Executing, UNCHANGED <<queue, permits>>
        PROVE  UNCHANGED Pool!vars
    BY <2>1 DEF Pool!vars, MayRun
  <2>2. CASE UNCHANGED vars
    BY <2>1, <2>2 DEF vars, Executing
  <2>3. CASE Start
    <3>1. Executing = {} /\ Executing' = {} /\ \A c \in Conn : task[c] # "permit"
      BY <2>3 DEF Start, Executing, PermitInv, DownIsEmpty
    <3>2. queue = <<>> /\ queue' = <<>>
      BY <2>3, <3>1, NoTaskNoWaiter DEF Start
    <3>3. /\ permits \in Nat /\ permits' \in Nat
          /\ queue \in Seq(Conn) /\ queue' \in Seq(Conn)
      BY DEF TypeOK
    <3>4. Holders' = Holders /\ Waiting' = Waiting
      BY <3>1, <3>2, <3>3, EmptyPool DEF Holders, Waiting
    <3>5. Pool!vars = <<Holders, Waiting>> /\ Pool!vars' = <<Holders', Waiting'>>
      BY DEF Pool!vars, Holders, HoldersOf, Waiting, WaitingOf, MayRun
    <3> QED BY <3>4, <3>5
  <2>4. CASE Shutdown
    BY <2>1, <2>4 DEF Shutdown, Executing
  <2>5. CASE Exit \/ Crash
    <3>1. phase' = "down"
      BY <2>5 DEF Exit, Crash
    <3>2. Executing' = {} /\ \A c \in Conn : task'[c] # "permit"
      BY <3>1 DEF Executing, PermitInv, DownIsEmpty
    <3>3. queue' = <<>>
      <4>1. CASE Crash BY <4>1 DEF Crash
      <4>2. CASE Exit BY <4>2, NoTaskNoWaiter DEF Exit
      <4> QED BY <2>5, <4>1, <4>2
    <3>4. permits' \in Nat /\ queue' \in Seq(Conn)
      BY DEF TypeOK
    <3>5. Holders' = {} /\ Waiting' = <<>>
      BY <3>2, <3>3, <3>4, EmptyPool DEF Holders, Waiting
    <3> QED BY <3>5, PoolSteps DEF Pool!Next
  <2>6. ASSUME NEW c \in Conn, Client(c)
        PROVE  UNCHANGED Pool!vars
    BY <2>1, <2>6 DEF Client, Connect, Send, SendBody, ReadResponse, HangUp, Reset, Goto,
                      Executing, TypeOK
  <2>7. ASSUME NEW c \in Conn, Accept(c) \/ Abort(c) \/ Handle(c)
        PROVE  [Pool!Next]_(Pool!vars)
    <3>1. CASE Close(c) /\ task[c] # "executing"
      <4>1. Executing' = Executing /\ UNCHANGED permits
        BY <3>1 DEF Close, Goto, Executing, TypeOK
      <4>2. CASE task[c] # "permit"
        BY <2>1, <3>1, <4>1, <4>2 DEF Close, LeaveQueue
      <4>3. CASE task[c] = "permit"
        <5>1. PICK i \in DOMAIN queue : queue[i] = c /\ queue' = RemoveAt(queue, i)
          BY <3>1, <4>3 DEF Close, LeaveQueue
        <5>2. i \in 1 .. Len(queue)
          BY LenProperties DEF TypeOK
        <5>3. Pool!Cancel(c) \/ Pool!Release(c)
          BY <4>1, <5>1, <5>2, WaiterLeaves
        <5> QED BY <5>3 DEF Pool!Next
      <4> QED BY <4>2, <4>3
    <3>2. CASE ReadBody(c)
      <4>1. Pool!Acquire(c)
        BY <3>2, ReadBodyAcquires
      <4> QED BY <4>1 DEF Pool!Next
    <3>3. CASE Execute(c)
      <4>1. Holders' = Holders /\ Waiting' = Waiting
        BY <3>3, PolledTakesPermit
      <4>2. Pool!vars = <<Holders, Waiting>> /\ Pool!vars' = <<Holders', Waiting'>>
        BY DEF Pool!vars, Holders, HoldersOf, Waiting, WaitingOf, MayRun
      <4> QED BY <4>1, <4>2
    <3>4. CASE Finish(c)
      <4>1. Pool!Release(c)
        BY <3>4, FinishReleases
      <4> QED BY <4>1 DEF Pool!Next
    <3>5. CASE /\ UNCHANGED <<queue, permits>> /\ task[c] # "executing"
               /\ \E t \in TaskState \ {"executing"} : Goto(c, t)
      <4>1. Executing' = Executing
        BY <3>5 DEF Goto, Executing, TypeOK
      <4> QED BY <2>1, <3>5, <4>1
    <3> QED BY <2>7, <3>1, <3>2, <3>3, <3>4, <3>5
            DEF Accept, Abort, Droppable, Handle, ReadHeader, Oversized, ReadFails, CutOff,
                Write, WriteFails, TaskState
  <2> QED BY <2>2, <2>3, <2>4, <2>5, <2>6, <2>7 DEF Next
<1> QED BY <1>1, <1>2, TypeCorrect, QueueIsExact, PermitInvariant, PTL
        DEF Spec, ImplementsLimiter, Pool!Spec
=============================================================================
