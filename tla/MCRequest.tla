----------------------------- MODULE MCRequest -----------------------------
(***************************************************************************)
(* The data of a request for TLC, from the client and back: its SQL is     *)
(* bound (Binding), its text parsed (KeyRepair), its database name checked *)
(* and used (Names), and its rows returned (Results).  The four share no   *)
(* state and are checked side by side: part says which of them runs, and   *)
(* the others stay in an initial state.                                    *)
(***************************************************************************)
EXTENDS Names, Binding, KeyRepair, Results

VARIABLE part

ASSUME DigitsAssumption /\ RowsAssumption

-----------------------------------------------------------------------------
(* Names: a database "a" with its sidecar files, and "l", a database or a  *)
(* link to "a" or elsewhere; names of up to three segments that do not end *)
(* in a separator.                                                         *)

A == Seg("a", "")
L == Seg("l", "")
MCEntries == {A, Seg("a", "-wal"), Seg("a", "-shm"), L}

Folder(a, l) == [e \in MCEntries |-> IF e = A THEN a ELSE IF e = L THEN l ELSE "none"]
AnyLayout == {Folder(a, l) : a \in {"none", "file", "dir"}, l \in Entry}

Segments == {Empty, Dot, DotDot, A, L}
UpTo(k) == UNION {[1 .. i -> Segments] : i \in 1 .. k}
NoTrailing == {n \in UpTo(3) : EndsInSegment(n)}

-----------------------------------------------------------------------------
(* KeyRepair: one member with every value of up to four tokens, and two    *)
(* members with every value of up to two, in all forms of keys.            *)

MCWords == {"w", "12"}
ValueTokens == MCWords \cup {SQ, Esc, Colon, Comma, Space}
Values(n) ==
  {v \in UNION {[1 .. k -> ValueTokens] : k \in 0 .. n} :
     \A i \in 2 .. Len(v) : v[i] \in MCWords => v[i - 1] \notin MCWords}

MembersUpTo(n) == [form : {"bare", DQ, SQ}, key : {"w"}, value : Values(n)]
MCRequests ==
  {<<>>} \cup {<<m>> : m \in MembersUpTo(4)} \cup {<<m, n>> : m, n \in MembersUpTo(2)}

-----------------------------------------------------------------------------
(* Binding: "w" is a word of SQL or of a value with the space around it.   *)

P(type, val) == [type |-> type, val |-> val]
MCIndex == [q1 |-> 1, q2 |-> 2, q3 |-> 3]
MCSqlWords == {Hex, Null, Infinity, WholeInt, WholeReal, "0", "1", "w", "5", "nan", "inf", "00ff"}
TextTokens == {SqlQuote, Mark, "q1", Minus, "w"}
Texts == {P("text", v) : v \in UNION {[1 .. n -> TextTokens] : n \in 0 .. 3}}
Others == {P("null", <<>>), P("bool", <<"true">>), P("int", <<"5">>), P("int", <<Minus, "5">>),
           P("real", <<"nan">>), P("real", <<Minus, "inf">>), P("real", <<WholeReal>>),
           P("blob", <<>>), P("blob", <<"00ff">>)}
MCParams ==
  {<<>>} \cup {<<p>> : p \in Texts \cup Others} \cup
  {<<p, q>> : p \in {P("text", <<SqlQuote>>), P("text", <<Mark, "q1">>)} \cup Others, q \in Others}

(* Up to three marks, a string, and a minus sign; and marks that do not    *)
(* stand by themselves: in a string or a comment, behind another mark,     *)
(* before and behind a quote.                                              *)
MCTemplates ==
  {<<"w">> \o a \o <<"w">> \o b \o <<"w">> \o c :
     a, b \in {<<Mark>>, <<"q1">>, <<"q2">>},
     c \in {<<>>, <<Mark>>, <<"q3">>, <<SqlQuote, "w", SqlQuote>>}}
  \cup {<<"w", Minus, Mark>>, <<Mark, Minus, "q2", "w">>, <<SqlQuote, Mark, SqlQuote, "w", Mark>>,
        <<Mark, Mark>>, <<Mark, SqlQuote, "w", SqlQuote>>, <<SqlQuote, SqlQuote, "q1">>,
        <<"w", Minus, Minus, Mark>>}

-----------------------------------------------------------------------------
(* Results: hex digits of one bit, so that a byte is 0 to 3.               *)

MCDigits == <<"0", "1">>
MCCells ==
  {P("blob", b) : b \in {<<>>, <<2>>, <<1, 3>>}} \cup
  {P("text", t) : t \in {<<>>, <<"X", "'">>, <<"X", "'", "'">>, <<"X", "'", "0", "'">>,
                         <<"X", "'", "0", "t", "'">>, <<"x", "'", "1", "0", "'">>}} \cup
  {P("null", <<>>), P("integer", <<"7">>), P("real", <<"2.5">>), P("real", <<"inf">>)}
MCSelects == {<<"b">>, <<"b", "a">>, <<"a", "b">>, <<"a", "a">>}

-----------------------------------------------------------------------------
(* Side by side.                                                           *)

NamesRest == folder = Folder("none", "none") /\ Init
BindingRest == kind = "rust" /\ sql = <<"w", Minus, Mark>> /\ params = <<>> /\ BindInit
RepairRest == written = <<>> /\ RepairInit
ResultRest == columns = <<"b">> /\ table = <<>> /\ ResultsInit

AllInit ==
  \/ part = "binding" /\ RepairRest /\ NamesRest /\ ResultRest /\ BindInit
  \/ part = "parsing" /\ BindingRest /\ NamesRest /\ ResultRest /\ RepairInit
  \/ part = "names" /\ BindingRest /\ RepairRest /\ ResultRest /\ Init
  \/ part = "results" /\ BindingRest /\ RepairRest /\ NamesRest /\ ResultsInit

Binds == part = "binding" /\ BindNext /\ UNCHANGED <<part, vars, repairVars, resultsVars>>
Repairs == part = "parsing" /\ RepairNext /\ UNCHANGED <<part, vars, bindVars, resultsVars>>
Uses == part = "names" /\ Next /\ UNCHANGED <<part, bindVars, repairVars, resultsVars>>
Returns == part = "results" /\ ResultsNext /\ UNCHANGED <<part, vars, bindVars, repairVars>>

AllSpec ==
  AllInit /\ [][Binds \/ Repairs \/ Uses \/ Returns]_<<part, vars, bindVars, repairVars, resultsVars>>
=============================================================================
