------------------------------ MODULE Binding ------------------------------
(***************************************************************************)
(* Client-side parameter binding (bind and serialize_sql_value of          *)
(* client.rs, _client_side_prepare and _serialize_sql_value of sqlite.py): *)
(* one pass over the SQL, in which "?" takes the next parameter and "?N"   *)
(* the N-th, each as an SQL literal; and how SQLite reads what the pass    *)
(* writes.  SQL is a sequence of tokens: marks, single quotes, minus signs *)
(* and words for everything else.                                          *)
(***************************************************************************)
EXTENDS Naturals, Sequences, FiniteSets

CONSTANTS Kinds,      \* which clients: "rust", "python"
          SqlWords,   \* what is neither a mark nor a sign
          Index,      \* the number of each mark "?N"
          Templates,  \* the SQL passed to query
          ParamLists  \* the parameters passed with it

VARIABLES kind, sql, params,
          pos,    \* the token the regular expression looks at
          next,   \* the next parameter a "?" takes, less one
          filling, rest,  \* whether a text or a blob is being written, and what is left of it
          bound,  \* how SQLite reads what is written so far
          meant,  \* how it reads the SQL as passed, with each value at its place
          meets,  \* history: a negative number was put right behind a minus sign
          apart   \* history: every mark stood by itself (Apart)

bindVars == <<kind, sql, params, pos, next, filling, rest, bound, meant, meets, apart>>

Mark == "mark"          \* "?"
SqlQuote == "quote"
Minus == "minus"
Hex == "X"
Null == "NULL"
Infinity == "9e999"
WholeReal == "wholereal"  \* 3.0, as an example of a whole number
WholeInt == "wholeint"    \* 3
SqlToken == SqlWords \cup DOMAIN Index \cup {Mark, SqlQuote, Minus}

(* A number is a word, perhaps with a sign; a blob its hex digits. *)
Signed == {<<w>> : w \in SqlWords} \cup {<<Minus, w>> : w \in SqlWords}
Param == [type : {"null"}, val : {<<>>}] \cup [type : {"bool"}, val : {<<"true">>, <<"false">>}] \cup
         [type : {"int", "real"}, val : Signed] \cup
         [type : {"text"}, val : Seq(SqlToken)] \cup [type : {"blob"}, val : Seq(SqlWords)]

ASSUME BindAssumption ==
  /\ {Hex, Null, Infinity, WholeInt, "0", "1"} \subseteq SqlWords
  /\ SqlWords \cap (DOMAIN Index \cup {Mark, SqlQuote, Minus}) = {}
  /\ DOMAIN Index \cap {Mark, SqlQuote, Minus} = {} /\ \A t \in DOMAIN Index : Index[t] \in Nat
  /\ Templates \subseteq Seq(SqlToken) /\ ParamLists \subseteq Seq(Param)

-----------------------------------------------------------------------------
(* How SQLite reads SQL, token by token: strings, in which two quotes are  *)
(* one, and comments that begin with two minus signs and end with the      *)
(* text.  A word comes with the space around it and has no line break.     *)
(* items is what is complete.  mode: "code"; "minus" behind a minus sign;  *)
(* "string", with its text in str; "closed" behind a quote that ends the   *)
(* string unless another follows; or "comment".                            *)

Str(s) == [is |-> "string", s |-> s]
Tok(t) == [is |-> "token", s |-> <<t>>]

Settled(r) ==
  CASE r.mode = "minus" -> Append(r.items, Tok(Minus))
    [] r.mode = "closed" -> Append(r.items, Str(r.str))
    [] OTHER -> r.items

Begun(items, t) ==
  CASE t = SqlQuote -> [mode |-> "string", items |-> items, str |-> <<>>]
    [] t = Minus -> [mode |-> "minus", items |-> items, str |-> <<>>]
    [] OTHER -> [mode |-> "code", items |-> Append(items, Tok(t)), str |-> <<>>]

Reads(r, t) ==
  CASE r.mode = "comment" -> r
    [] r.mode = "string" /\ t # SqlQuote -> [r EXCEPT !.str = Append(@, t)]
    [] r.mode = "string" /\ t = SqlQuote -> [r EXCEPT !.mode = "closed"]
    [] r.mode = "closed" /\ t = SqlQuote -> [r EXCEPT !.mode = "string", !.str = Append(@, t)]
    [] r.mode = "minus" /\ t = Minus -> [r EXCEPT !.mode = "comment"]
    [] OTHER -> Begun(Settled(r), t)

(* One token or two *)
ReadsAll(r, s) == IF Len(s) = 2 THEN Reads(Reads(r, s[1]), s[2]) ELSE Reads(r, s[1])

Final(r) == IF r.mode = "string" THEN Append(r.items, Tok("unterminated")) ELSE Settled(r)

(* The value v in place of the mark t; in a string or a comment a mark is  *)
(* none.                                                                   *)
Placed(r, t, v) ==
  IF r.mode \in {"string", "comment"} THEN Reads(r, t)
  ELSE [mode |-> "code", items |-> Settled(r) \o v, str |-> <<>>]

-----------------------------------------------------------------------------
(* serialize_sql_value.                                                    *)

EscapeNothing(c) == <<c>>
Doubled(c) == IF c = SqlQuote THEN <<c, c>> ELSE <<c>>

(* f64::to_string writes a whole number without a point, str() with one.   *)
RealLiteral(k, val) ==
  LET f == val[Len(val)]
      number(w) == IF Len(val) = 2 THEN <<Minus, w>> ELSE <<w>> IN
  CASE f = "nan" -> <<Null>>
    [] f = "inf" -> number(Infinity)
    [] f = WholeReal /\ k = "rust" -> number(WholeInt)
    [] OTHER -> val

(* A literal up to its first quote; the rest of a text or a blob is        *)
(* written by Fill and Close.                                              *)
Literal(k, p) ==
  CASE p.type = "null" -> <<Null>>
    [] p.type = "bool" -> IF p.val = <<"true">> THEN <<"1">> ELSE <<"0">>
    [] p.type = "int" -> p.val
    [] p.type = "real" -> RealLiteral(k, p.val)
    [] p.type = "text" -> <<SqlQuote>>
    [] p.type = "blob" -> <<Hex, SqlQuote>>
HasText(p) == p.type \in {"text", "blob"}

(* What SQLite is to read of it *)
Value(k, p) ==
  CASE p.type = "text" -> <<Str(p.val)>>
    [] p.type = "blob" -> <<Tok(Hex), Str(p.val)>>
    [] OTHER -> LET l == Literal(k, p) IN [i \in DOMAIN l |-> Tok(l[i])]

-----------------------------------------------------------------------------
(* bind: without parameters query sends the SQL as it is, which is what    *)
(* the pass makes of it too.                                               *)

BindInit ==
  /\ kind \in Kinds /\ sql \in Templates /\ params \in ParamLists
  /\ pos = 1 /\ next = 0 /\ filling = FALSE /\ rest = <<>>
  /\ bound = [mode |-> "code", items |-> <<>>, str |-> <<>>] /\ meant = bound
  /\ meets = FALSE /\ apart = TRUE

(* The parameter the mark t takes; it stays as it is if there is none. *)
Marks == DOMAIN Index \cup {Mark}
Chosen(t) == IF t = Mark THEN next + 1 ELSE Index[t]
Takes(t) == t \in Marks /\ Chosen(t) \in 1 .. Len(params)

Copy ==
  /\ ~filling /\ pos <= Len(sql) /\ ~Takes(sql[pos])
  /\ bound' = Reads(bound, sql[pos]) /\ meant' = Reads(meant, sql[pos]) /\ pos' = pos + 1
  /\ apart' = (apart /\ ~(sql[pos] = SqlQuote /\ bound.mode = "closed" /\ meant.mode # "closed"))
  /\ UNCHANGED <<kind, sql, params, next, filling, rest, meets>>

(* A literal l stands by itself: not in a string or a comment, not right   *)
(* behind another mark, and not quote to quote with a string.              *)
Apart(l) ==
  /\ meant.mode \notin {"string", "comment"}
  /\ pos > 1 => sql[pos - 1] \notin Marks
  /\ ~(bound.mode = "closed" /\ l[1] = SqlQuote)

(* The parameter that is meant: the first "?" is for the first of them, *)
(* and so on.                                                           *)
MeantBy(t) ==
  IF t = Mark THEN Cardinality({j \in 1 .. pos : sql[j] = Mark}) ELSE Index[t]

Substitute ==
  /\ ~filling /\ pos <= Len(sql) /\ Takes(sql[pos])
  /\ LET p == params[Chosen(sql[pos])]
         l == Literal(kind, p) IN
       /\ bound' = ReadsAll(bound, l)
       /\ filling' = HasText(p) /\ rest' = IF HasText(p) THEN p.val ELSE <<>>
       /\ meets' = (meets \/ (bound.mode = "minus" /\ l[1] = Minus))
       /\ apart' = (apart /\ Apart(l))
  /\ meant' = Placed(meant, sql[pos], Value(kind, params[MeantBy(sql[pos])]))
  /\ next' = (IF sql[pos] = Mark THEN next + 1 ELSE next) /\ pos' = pos + 1
  /\ UNCHANGED <<kind, sql, params>>

Fill ==
  /\ filling /\ rest # <<>>
  /\ bound' = ReadsAll(bound, Doubled(Head(rest))) /\ rest' = Tail(rest)
  /\ UNCHANGED <<kind, sql, params, pos, next, filling, meant, meets, apart>>

Close ==
  /\ filling /\ rest = <<>>
  /\ bound' = Reads(bound, SqlQuote) /\ filling' = FALSE
  /\ UNCHANGED <<kind, sql, params, pos, next, rest, meant, meets, apart>>

BindNext == Copy \/ Substitute \/ Fill \/ Close

BindSpec == BindInit /\ [][BindNext]_bindVars

-----------------------------------------------------------------------------
(* Properties.                                                             *)

(* SQLite reads the bound SQL as the SQL that was passed with the value of *)
(* each parameter at its place, whatever quotes, dashes and question marks *)
(* the values contain: none is cut short, read again or taken for another  *)
(* placeholder's (client.rs 91-141; sqlite.py 262).  The one exception is  *)
(* a negative number behind a minus sign, where the two make a comment.    *)
(* This is for SQL whose marks stand by themselves (Apart): the pass also  *)
(* replaces a question mark inside a string or a comment.                  *)
BoundExactly ==
  pos > Len(sql) /\ ~filling /\ apart => (Final(bound) = Final(meant) <=> ~meets)
=============================================================================
