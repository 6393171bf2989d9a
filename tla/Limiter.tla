------------------------------ MODULE Limiter ------------------------------
(***************************************************************************)
(* What the server promises about its query limiter: a first-come first-   *)
(* served pool of Slots execution slots.  A slot that is given back goes   *)
(* at once to the request that has waited longest, and a waiting request   *)
(* whose connection goes away simply leaves.  Server.tla, where a permit   *)
(* is handed over lazily (the woken task takes it when it is next polled), *)
(* is shown to implement this specification.                               *)
(***************************************************************************)
EXTENDS Naturals, Sequences, FiniteSets, SequencesExt

CONSTANTS Conn,     \* the connections whose requests need a slot
          Slots     \* the number of slots

VARIABLES holders,  \* the connections a slot belongs to
          waiting   \* the others, in the order they asked

vars == <<holders, waiting>>

Init == holders = {} /\ waiting = <<>>

(* A request takes a free slot, or joins the end of the line. *)
Acquire(c) ==
  /\ c \notin holders /\ \A i \in DOMAIN waiting : waiting[i] # c
  /\ IF Cardinality(holders) < Slots
     THEN holders' = holders \cup {c} /\ UNCHANGED waiting
     ELSE waiting' = Append(waiting, c) /\ UNCHANGED holders

(* A slot given back belongs to the head of the line from then on. *)
Release(c) ==
  /\ c \in holders
  /\ IF waiting = <<>>
     THEN holders' = holders \ {c} /\ UNCHANGED waiting
     ELSE /\ holders' = (holders \ {c}) \cup {Head(waiting)}
          /\ waiting' = Tail(waiting)

(* A waiting request is abandoned; nobody behind it loses a place. *)
Cancel(c) ==
  /\ \E i \in DOMAIN waiting : waiting[i] = c /\ waiting' = RemoveAt(waiting, i)
  /\ UNCHANGED holders

(* The process ends, and the semaphore with it. *)
Vanish == holders' = {} /\ waiting' = <<>>

Next == Vanish \/ \E c \in Conn : Acquire(c) \/ Release(c) \/ Cancel(c)

Spec == Init /\ [][Next]_vars
=============================================================================
