----------------------------- MODULE MCStartup -----------------------------
(***************************************************************************)
(* Config and Whitelist for TLC: loading the settings, and the entries of  *)
(* the one setting that is a list.  They are checked side by side: part    *)
(* says which of them runs, and the other stays in an initial state.       *)
(***************************************************************************)
EXTENDS MCConfig, Whitelist

VARIABLE part

(* Every single entry over the whole address space, and lists of up to     *)
(* three entries from a handful.                                           *)
Addr(family, octets) == [family |-> family, octets |-> octets]
Entry(a, p) == [kind |-> "cidr", addr |-> a, prefix |-> p]
Bare(a) == [Entry(a, 0) EXCEPT !.kind = "bare"]

Octets(n) == [1 .. n -> Octet]
Singles(family, n) ==
  LET addresses == {Addr(family, o) : o \in Octets(n)} IN
  {<<Entry(a, p)>> : a \in addresses, p \in 0 .. OctetBits * n + 1} \cup
  {<<Bare(a)>> : a \in addresses}

Low == Addr("v4", [i \in 1 .. V4Octets |-> Zero])
High == Addr("v6", [i \in 1 .. V6Octets |-> HighBits(0)])

Handful == {Bare(Low), Entry(High, 3), Entry(Low, 1), Entry(Low, OctetBits * V4Octets + 1),
            [Bare(Low) EXCEPT !.kind = "blank"], [Bare(Low) EXCEPT !.kind = "garbage"]}

MCLists ==
  Singles("v4", V4Octets) \cup Singles("v6", V6Octets) \cup
  UNION {[1 .. n -> Handful] : n \in 0 .. 3}

SettingsAtRest == \E i \in {CHOOSE j \in Inputs : TRUE} : flags = i.flags /\ file = i.file
ListAtRest == form = "csv" /\ entries = <<>>

BothInit ==
  \/ part = "settings" /\ ListAtRest /\ ListInit /\ Init
  \/ part = "whitelist" /\ SettingsAtRest /\ Init /\ ListInit

Settings == part = "settings" /\ Next /\ UNCHANGED <<part, listVars>>
Entries == part = "whitelist" /\ ListNext /\ UNCHANGED <<part, vars>>

BothSpec == BothInit /\ [][Settings \/ Entries]_<<part, vars, listVars>>
=============================================================================
