--------------------------- MODULE MCSqliteServer ---------------------------
(***************************************************************************)
(* SqliteServer for TLC: clients that run transactions on one database.    *)
(***************************************************************************)
EXTENDS SqliteServer

CONSTANTS c1, c2, d1

Q(q) == [parses |-> TRUE, auth |-> "none", cmd |-> "QUERY", db |-> d1, query |-> q]
Transactions == {Q("begin"), Q("insert"), Q("commit")}
=============================================================================
