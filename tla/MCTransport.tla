---------------------------- MODULE MCTransport ----------------------------
(***************************************************************************)
(* Client and Framing for TLC: the two levels at which a connection is     *)
(* modelled, calls and bytes.  They are checked side by side: part says    *)
(* which of them runs, and the other stays in an initial state.            *)
(***************************************************************************)
EXTENDS MCClient, Framing

VARIABLE part

ASSUME FramingAssumption

(* Bytes are bits, so that a length has 4 bits.  An empty body, bodies     *)
(* that look like lengths, the largest size the reader accepts and the     *)
(* smallest it refuses.                                                    *)
BodyOf(n) == [i \in 1 .. n |-> i % 2]
SmallBodies == {BodyOf(n) : n \in {0, 3, Limit, Limit + 1}} \cup {<<0, 0>>}

AtRest == lang = "rust" /\ setup = [required |-> TRUE, password |-> "none"]

BothInit ==
  \/ part = "calls" /\ Init /\ FramingInit
  \/ part = "bytes" /\ AtRest /\ Init /\ FramingInit

Calls == part = "calls" /\ Next /\ UNCHANGED <<part, framingVars>>
Bytes == part = "bytes" /\ FramingNext /\ UNCHANGED <<part, vars>>

(* The fairness of the two, each where it runs *)
Both == <<part, vars, framingVars>>
BothSpec ==
  /\ BothInit /\ [][Calls \/ Bytes]_Both
  /\ WF_Both(Calls /\ ClientStep) /\ WF_Both(Calls /\ ServeRust)
  /\ WF_Both(Bytes /\ Read)
=============================================================================
