------------------------------ MODULE MCHandler ------------------------------
(***************************************************************************)
(* Handler for TLC, with the requests that reach every branch of           *)
(* handle_request.                                                         *)
(***************************************************************************)
EXTENDS Handler, TLC

CONSTANTS c1, c2, d1, d2, bad

Q(q) == [parses |-> TRUE, auth |-> "none", cmd |-> "QUERY", db |-> d1, query |-> q]

Transactions == {Q("begin"), Q("insert"), Q("commit")}
Delete == [Q("none") EXCEPT !.cmd = "DELETE_DB"]

Malformed == {
  NoRequest,
  [Q("none") EXCEPT !.cmd = "none"],
  [Q("none") EXCEPT !.cmd = "other"],
  [Q("select") EXCEPT !.db = NoDb],
  [Q("select") EXCEPT !.db = bad],
  Q("none"),
  Q("empty"),
  [Delete EXCEPT !.db = NoDb],
  [Delete EXCEPT !.db = bad]}

Logins == {[Q("select") EXCEPT !.auth = a] : a \in {"right", "wrong"}}

AllRequests ==
  Transactions \cup Malformed \cup Logins
  \cup {Delete, Q("select"), Q("rollback"), Q("bad"), [Q("none") EXCEPT !.cmd = "LIST"]}

TransactionsAndDelete == Transactions \cup {Delete}

(* Transactions over two databases, one of which may be deleted *)
Crossing ==
  {Delete, Q("commit")} \cup {[Q(q) EXCEPT !.db = d] : q \in {"begin", "insert"}, d \in {d1, d2}}

Symmetry == Permutations({c1, c2})
=============================================================================
