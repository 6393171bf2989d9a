------------------------------ MODULE Results ------------------------------
(***************************************************************************)
(* A query's result on its way to the caller: run_query and                *)
(* value_ref_to_json (handler.rs) turn rows of SQLite values into JSON     *)
(* objects keyed by column name; QueryResult and Row of the clients        *)
(* (client.rs, and alike sqlite.py) read them.  A hex digit has Nibble     *)
(* values (16 in the code) and a text is a sequence of characters.         *)
(***************************************************************************)
EXTENDS Naturals, Sequences

CONSTANTS Nibble,   \* values of a hex digit
          Digits,   \* Digits[n + 1]: the digit of n, a character
          Selects,  \* column names of the queries, in SELECT order
          Cells,    \* the SQLite values in the rows
          MaxRows   \* bound: rows of a result

VARIABLES columns,  \* stmt.column_names()
          table,    \* the rows SQLite will step through
          cursor,   \* how many it has
          data,     \* rows_data
          response  \* "none", "rows" or "error"

resultsVars == <<columns, table, cursor, data, response>>

(* Every value of a digit has one character of its own. *)
DigitsAssumption ==
  /\ Nibble \in Nat \ {0, 1} /\ Digits \in Seq(STRING) /\ Len(Digits) = Nibble
  /\ \A i, j \in DOMAIN Digits : Digits[i] = Digits[j] => i = j

(* A row has a column, a blob is a sequence of bytes of two digits each,   *)
(* everything else a sequence of characters.                               *)
Byte == 0 .. Nibble * Nibble - 1
RowsAssumption ==
  /\ MaxRows \in Nat /\ Selects \subseteq Seq(STRING) \ {<<>>}
  /\ \A v \in Cells :
       /\ v.type \in {"null", "integer", "real", "text", "blob"}
       /\ v.val \in IF v.type = "blob" THEN Seq(Byte) ELSE Seq(STRING)

ResultsInit ==
  /\ columns \in Selects
  /\ \E n \in 0 .. MaxRows : table \in [1 .. n -> [DOMAIN columns -> Cells]]
  /\ cursor = 0 /\ data = <<>> /\ response = "none"

-----------------------------------------------------------------------------
(* value_ref_to_json.                                                      *)

Json(type, val) == [json |-> type, val |-> val]
JsonNull == Json("null", <<>>)

ToHex(bytes) ==
  [i \in 1 .. 2 * Len(bytes) |->
     LET b == bytes[(i + 1) \div 2] IN
     Digits[(IF i % 2 = 1 THEN b \div Nibble ELSE b % Nibble) + 1]]

BlobLiteral(bytes) == <<"X", "'">> \o ToHex(bytes) \o <<"'">>

NonFinite(v) == v.type = "real" /\ v.val = <<"inf">>

ValueRefToJson(v) ==
  CASE v.type = "null" -> JsonNull
    [] v.type = "integer" -> Json("integer", v.val)
    [] v.type = "real" -> IF NonFinite(v) THEN JsonNull ELSE Json("float", v.val)
    [] v.type = "text" -> Json("string", v.val)
    [] v.type = "blob" -> Json("string", BlobLiteral(v.val))

-----------------------------------------------------------------------------
(* run_query.                                                              *)

(* An object has one value per name: that of the last column so named.     *)
ColumnNames == {columns[i] : i \in DOMAIN columns}
Object(row) ==
  [n \in ColumnNames |->
     ValueRefToJson(row[CHOOSE i \in DOMAIN columns :
       columns[i] = n /\ \A j \in DOMAIN columns : columns[j] = n => j <= i])]

NextRow ==
  /\ response = "none" /\ cursor < Len(table)
  /\ data' = Append(data, Object(table[cursor + 1])) /\ cursor' = cursor + 1
  /\ UNCHANGED <<columns, table, response>>

(* A step fails (a lock, an interrupt, a bad row): the error is returned   *)
(* and the rows so far are dropped.                                        *)
AnswerSoFar == response' = "rows" /\ UNCHANGED data
AnswerError == response' = "error" /\ data' = <<>>

StepFails ==
  /\ response = "none" /\ AnswerError
  /\ UNCHANGED <<columns, table, cursor>>

Respond ==
  /\ response = "none" /\ cursor = Len(table) /\ response' = "rows"
  /\ UNCHANGED <<columns, table, cursor, data>>

ResultsNext == NextRow \/ StepFails \/ Respond

ResultsSpec == ResultsInit /\ [][ResultsNext]_resultsVars

-----------------------------------------------------------------------------
(* QueryResult and Row.                                                    *)

None == Json("none", <<>>)

(* An error response has neither "columns" nor "data", and reads as empty. *)
ResultColumns == IF response = "rows" THEN columns ELSE <<>>
Rows == IF response = "rows" THEN data ELSE <<>>
ServerError == response = "error"

(* Row::get *)
Get(object, n) == IF n \in DOMAIN object THEN object[n] ELSE None

(* Whether Row::get_i64, get_f64, get_str return something, and is_null.   *)
SomeI64(j) == j.json = "integer"
SomeF64(j) == j.json \in {"integer", "float"}
SomeStr(j) == j.json = "string"
IsNull(j) == j \in {JsonNull, None}

(* scalar: columns first, and the alphabet only where there are none,      *)
(* which is where there are no rows.                                       *)
ScalarAlphabetical ==
  IF Rows = <<>> THEN None
  ELSE Get(Rows[1], IF "a" \in ColumnNames THEN "a" ELSE ResultColumns[1])
Scalar ==
  IF Rows = <<>> THEN None ELSE Get(Rows[1], ResultColumns[1])

(* decode_blob_literal; hex_val takes either case, Digits stands for both. *)
HexVal(c) == CHOOSE n \in 0 .. Nibble - 1 : Digits[n + 1] = c
IsHex(c) == \E i \in DOMAIN Digits : Digits[i] = c

IsBlobLiteralLong(s) ==
  /\ Len(s) >= 4 /\ s[1] \in {"X", "x"} /\ s[2] = "'" /\ s[Len(s)] = "'"
  /\ Len(s) % 2 = 1
  /\ \A i \in 3 .. Len(s) - 1 : IsHex(s[i])
IsBlobLiteral(s) ==
  /\ Len(s) >= 3 /\ s[1] \in {"X", "x"} /\ s[2] = "'" /\ s[Len(s)] = "'"
  /\ Len(s) % 2 = 1
  /\ \A i \in 3 .. Len(s) - 1 : IsHex(s[i])

(* Row::blob: the bytes, or that there are none *)
Bytes(b) == [some |-> TRUE, bytes |-> b]
NoBytes == [some |-> FALSE, bytes |-> <<>>]
Blob(j) ==
  IF j.json = "string" /\ IsBlobLiteral(j.val)
  THEN Bytes([i \in 1 .. (Len(j.val) - 3) \div 2 |->
                HexVal(j.val[2 * i + 1]) * Nibble + HexVal(j.val[2 * i + 2])])
  ELSE NoBytes

-----------------------------------------------------------------------------
(* Properties.                                                             *)

(* A result is whole: a caller that is given rows is given all of them, in *)
(* order, and one that is given none can tell a query without rows from    *)
(* one that failed before or after its first row (handler.rs 101-136,      *)
(* client.rs 231-249).                                                     *)
NoPartialResult ==
  response # "none" =>
    IF ServerError THEN Rows = <<>> /\ Scalar = None
    ELSE Rows = [r \in DOMAIN table |-> Object(table[r])]

(* What a value was can be told from the response as far as JSON goes: the *)
(* blob accessor returns a blob's bytes, the empty blob's included, and    *)
(* nothing for what is no blob, but for a text that looks like one         *)
(* (sqlite.py 31); numbers and texts come as they are through accessors    *)
(* that answer for their own type only; NULL and non-finite numbers come   *)
(* as null (handler.rs 246-260, client.rs 155-171, 380-410).               *)
LooksLikeBlob(v) == v.type = "text" /\ IsBlobLiteral(v.val)
LastOfName(i) == \A j \in DOMAIN columns : columns[j] = columns[i] => j <= i

ValuesKept ==
  response = "rows" =>
    \A r \in DOMAIN table, i \in DOMAIN columns :
      LET v == table[r][i]
          j == Get(Rows[r], columns[i]) IN
      LastOfName(i) =>
        /\ v.type = "blob" => Blob(j) = Bytes(v.val)
        /\ Blob(j).some => v.type = "blob" \/ LooksLikeBlob(v)
        /\ v.type \in {"integer", "text"} => j.val = v.val
        /\ SomeI64(j) <=> v.type = "integer"
        /\ SomeF64(j) <=> v.type = "integer" \/ (v.type = "real" /\ ~NonFinite(v))
        /\ SomeStr(j) <=> v.type \in {"text", "blob"}
        /\ IsNull(j) <=> v.type = "null" \/ NonFinite(v)

(* The scalar is the first column of the first row when column names       *)
(* differ, although the keys of a row are sorted (client.rs 217-226).      *)
Distinct == \A i, j \in DOMAIN columns : columns[i] = columns[j] => i = j
ScalarOfDistinct ==
  response = "rows" /\ table # <<>> /\ Distinct => Scalar = ValueRefToJson(table[1][1])
=============================================================================
