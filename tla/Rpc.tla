-------------------------------- MODULE Rpc --------------------------------
(***************************************************************************)
(* What a caller may rely on: calls are made one after the other, each is  *)
(* executed at most once and in the order of the calls, and ends with its  *)
(* own answer, with a refusal, or with an error.  An error says nothing    *)
(* about the execution, which may also come later.                         *)
(***************************************************************************)
EXTENDS Naturals, Sequences

CONSTANTS MaxCalls

VARIABLES calls,     \* how many calls have been made
          executed,  \* the calls executed, in the order of execution
          outcome    \* outcome[n]: how call n ended

vars == <<calls, executed, outcome>>

Init ==
  /\ calls = 0 /\ executed = <<>>
  /\ outcome = [n \in 1 .. MaxCalls |-> "pending"]

WasExecuted(n) == \E i \in DOMAIN executed : executed[i] = n

Call ==
  /\ calls < MaxCalls /\ (calls > 0 => outcome[calls] # "pending")
  /\ calls' = calls + 1 /\ UNCHANGED <<executed, outcome>>

Execute ==
  /\ \E n \in 1 .. calls :
       /\ \A i \in DOMAIN executed : executed[i] < n
       /\ executed' = Append(executed, n)
  /\ UNCHANGED <<calls, outcome>>

Return ==
  /\ calls > 0 /\ outcome[calls] = "pending"
  /\ \E o \in {"answered", "refused", "failed"} :
       /\ o = "answered" => WasExecuted(calls)
       /\ outcome' = [outcome EXCEPT ![calls] = o]
  /\ UNCHANGED <<calls, executed>>

Next == Call \/ Execute \/ Return

Spec == Init /\ [][Next]_vars
=============================================================================
