---------------------------- MODULE RequestProofs ----------------------------
(***************************************************************************)
(* Theorems about Names: which file a checked name reaches although the    *)
(* folder changes between the check and the use, and what LIST returns     *)
(* while it changes, for every folder, every link and every name; and      *)
(* about Results: a result is whole or an error, what a value was can be   *)
(* told from its JSON, and the scalar is the first column, for every       *)
(* number of rows, every list of columns and every cell, with hex digits   *)
(* of any base; and about Binding: SQLite reads bound SQL as it was meant, *)
(* for SQL of any length with any number of parameters and any texts.      *)
(***************************************************************************)
EXTENDS Names, Results, Binding, FiniteSetTheorems, SequenceTheorems, TLAPS

(* Every step that changes the folder turns an entry into a regular file   *)
(* or removes it.                                                          *)
FolderStep ==
  \/ UNCHANGED <<folder, always, ever>>
  \/ \E e \in Entries, x \in {"none", "file"} : Becomes([folder EXCEPT ![e] = x])

(* The one segment of a name of one segment. *)
LEMMA OneSegment ==
  ASSUME NEW n \in Seq(Entries \cup Special), Len(n) = 1, n[1] \notin {Empty, Dot}
  PROVE  Walked(n) = {1} /\ Cardinality(Walked(n)) = 1 /\ First(n) = n[1]
<1>1. DOMAIN n = {1}
  <2>1. DOMAIN n = 1 .. 1
    BY LenProperties
  <2> QED BY <2>1
<1>2. Walked(n) = {1}
  BY <1>1 DEF Walked
<1>3. Cardinality({1}) = 1
  BY FS_Singleton
<1>4. Min({1}) = 1
  BY DEF Min
<1> QED BY <1>2, <1>3, <1>4 DEF First

(* A plain name that does not end in a separator is one entry's name. *)
LEMMA PlainIsOneSegment ==
  ASSUME NEW n \in Names, IsPlain(n), EndsInSegment(n)
  PROVE  /\ n \in Seq(Entries \cup Special) /\ Len(n) = 1
         /\ n[1] \in Entries
<1>1. n \in Seq(Entries \cup Special) /\ n # <<>>
  BY NamesAssumption
<1>2. /\ Len(n) \in Nat \ {0} /\ DOMAIN n = 1 .. Len(n)
      /\ \A i \in 1 .. Len(n) : n[i] \in Entries \cup Special
  BY <1>1, LenProperties, EmptySeq
<1>3. PICK p : Components(n) = {p}
  <2>1. DOMAIN n \cup {1} = DOMAIN n
    BY <1>2
  <2>2. Components(n) \subseteq DOMAIN n
    BY <2>1 DEF Components, Walked
  <2>3. IsFiniteSet(DOMAIN n)
    BY <1>2, FS_Interval
  <2>4. IsFiniteSet(Components(n))
    BY <2>2, <2>3, FS_Subset
  <2> QED BY <2>4, FS_Singleton DEF IsPlain
<1>4. Len(n) = 1
  <2> SUFFICES ASSUME Len(n) # 1 PROVE FALSE
    OBVIOUS
  <2>1. Len(n) > 1 /\ 1 \in DOMAIN n /\ Len(n) \in DOMAIN n
    BY <1>2
  <2>2. Len(n) \in Components(n)
    BY <2>1 DEF EndsInSegment, Components, Walked
  <2>3. n[1] # Empty
    BY <2>1 DEF IsPlain, IsAbsolute
  <2>4. 1 \in Components(n)
    BY <2>1, <2>3 DEF Components, Walked
  <2> QED BY <1>3, <2>1, <2>2, <2>4
<1>5. n = <<n[1]>>
  BY <1>1, <1>2, <1>4
<1>6. n[1] # Empty
  BY <1>5 DEF IsPlain
<1>7. n[1] # Dot /\ n[1] # DotDot
  <2>1. 1 \in DOMAIN n
    BY <1>2, <1>4
  <2>2. 1 \in Components(n)
    BY <1>6, <2>1 DEF Components, Walked
  <2> QED BY <2>2 DEF IsPlain
<1> QED BY <1>1, <1>2, <1>4, <1>6, <1>7 DEF Special

-----------------------------------------------------------------------------
(* The check is not undone before the use: the entry a name was checked    *)
(* for is no link that leads out, and nobody makes it one.                 *)
Checked ==
  step \in {"QUERY", "DELETE_DB"} =>
    /\ name \in Seq(Entries \cup Special) /\ Len(name) = 1 /\ name[1] \in Entries
    /\ folder[name[1]] \notin {"deeper", "outside"}

InsideInv ==
  /\ folder \in [Entries -> Entry] /\ step \in {"idle", "QUERY", "DELETE_DB"}
  /\ Checked /\ WorksInside

LEMMA FolderStepKeeps ==
  ASSUME folder \in [Entries -> Entry], FolderStep
  PROVE  /\ folder' \in [Entries -> Entry]
         /\ \A e \in Entries : folder[e] \notin {"deeper", "outside"}
                               => folder'[e] \notin {"deeper", "outside"}
BY DEF FolderStep, Becomes, Entry

(* Which steps change the folder, and how. *)
LEMMA StepsOnFolder ==
  ASSUME InsideInv, [Next]_vars, step = "idle" \/ ~(Query \/ DeleteDb)
  PROVE  FolderStep \/ BeginList
<1>1. CASE UNCHANGED vars
  BY <1>1 DEF vars, FolderStep
<1>2. ASSUME NEW e \in Entries, Sidecar(e) \/ Other(e)
      PROVE  FolderStep
  BY <1>2 DEF Sidecar, Other, FolderStep, InsideInv
<1>3. CASE \E cmd \in {"QUERY", "DELETE_DB"}, n \in Names : Check(cmd, n)
  BY <1>3 DEF Check, FolderStep
<1>4. CASE EndList \/ \E e \in Entries : ReadEntry(e)
  BY <1>4 DEF EndList, ReadEntry, FolderStep
<1> QED BY <1>1, <1>2, <1>3, <1>4 DEF Next, Query, DeleteDb

(* What a checked QUERY does. *)
LEMMA QueryStaysInside ==
  ASSUME InsideInv, Query
  PROVE  /\ FolderStep /\ step' = "idle" /\ touched' \in {touched, "child"}
<1> DEFINE e == name[1]
<1>1. /\ name \in Seq(Entries \cup Special) /\ Len(name) = 1 /\ e \in Entries
      /\ folder[e] \notin {"deeper", "outside"}
  BY DEF Query, InsideInv, Checked
<1>2. e \notin Special
  BY <1>1, EntriesAssumption
<1>3. Cardinality(Walked(name)) = 1 /\ Walked(name) = {1} /\ First(name) = e
  BY <1>1, <1>2, OneSegment DEF Special
<1>4. Location(name) = "child"
  BY <1>1, <1>2, <1>3 DEF Location, IsAbsolute, Where, Special
<1>5. FolderStep
  BY <1>1, <1>3, EntriesAssumption DEF Query, FolderStep, InsideInv
<1>6. touched' \in {touched, "child"}
  BY <1>4 DEF Query
<1> QED BY <1>5, <1>6 DEF Query

(* What a checked DELETE_DB does. *)
LEMMA DeleteStaysInside ==
  ASSUME InsideInv, DeleteDb
  PROVE  /\ FolderStep /\ step' = "idle" /\ touched' \in {touched, "child"}
<1>1. name[1] \in Entries
  BY DEF DeleteDb, InsideInv, Checked
<1> QED BY <1>1 DEF DeleteDb, FolderStep

(* For names that do not end in a separator, the file a command works on   *)
(* is a direct child of the folder, whatever happened to the folder since  *)
(* the name was checked (handler.rs 97, 164-169, 201-238).                 *)
THEOREM StaysInside ==
  ASSUME \A n \in Names : EndsInSegment(n) PROVE Spec => []WorksInside
<1>1. Init => InsideInv
  BY EntriesAssumption DEF Init, InsideInv, Checked, WorksInside
<1>2. ASSUME InsideInv, [Next]_vars PROVE InsideInv'
  <2> USE <1>2
  <2>1. CASE Query \/ DeleteDb
    <3>1. FolderStep /\ step' = "idle" /\ touched' \in {touched, "child"}
      BY <2>1, QueryStaysInside, DeleteStaysInside
    <3>2. folder' \in [Entries -> Entry]
      BY <3>1, FolderStepKeeps DEF InsideInv
    <3> QED BY <3>1, <3>2 DEF InsideInv, Checked, WorksInside
  <2>2. ASSUME NEW cmd \in {"QUERY", "DELETE_DB"}, NEW n \in Names, Check(cmd, n)
        PROVE  InsideInv'
    <3>1. n \in Seq(Entries \cup Special) /\ Len(n) = 1 /\ n[1] \in Entries
      BY <2>2, PlainIsOneSegment DEF Check, IsSafeDatabaseName
    <3>2. First(n) = n[1]
      BY <3>1, OneSegment, EntriesAssumption DEF Special
    <3>3. folder[n[1]] \notin {"deeper", "outside"}
      BY <2>2, <3>1, <3>2 DEF Check, IsSafeDatabaseName, Exists, IsFile, Where
    <3> QED BY <2>2, <3>1, <3>3 DEF Check, InsideInv, Checked, WorksInside
  <2>3. CASE UNCHANGED request /\ ~(Query \/ DeleteDb)
    <3>1. FolderStep \/ UNCHANGED folder
      BY <2>3, StepsOnFolder DEF BeginList
    <3>2. /\ folder' \in [Entries -> Entry]
          /\ \A e \in Entries : folder[e] \notin {"deeper", "outside"}
                                => folder'[e] \notin {"deeper", "outside"}
      BY <3>1, FolderStepKeeps DEF InsideInv
    <3> QED BY <2>3, <3>2 DEF request, InsideInv, Checked, WorksInside
  <2> QED BY <2>1, <2>2, <2>3 DEF Next, vars, Sidecar, Other, ReadEntry, BeginList, EndList
<1>3. InsideInv => WorksInside
  BY DEF InsideInv
<1> QED BY <1>1, <1>2, <1>3, PTL DEF Spec
-----------------------------------------------------------------------------
(* What a LIST under way still owes: an entry that has been a regular file *)
(* all the time is one now, and is in the list once read_dir has returned  *)
(* it; every entry that is a regular file now was one since LIST began.    *)
Files(f) == {e \in Entries : IsFile(f, e)}

ListInv ==
  /\ always \subseteq Files(folder)
  /\ listing => Files(folder) \subseteq ever
  /\ listing => \A e \in always \cap seen : IsDatabase(e) => e \in list
  /\ ListConsistent

(* How a step of anybody but LIST treats the folder and its history. *)
Moves == UNCHANGED <<folder, always, ever>> \/ \E f : Becomes(f)

LEMMA MovesKeep ==
  ASSUME ListInv, Moves, UNCHANGED lister
  PROVE  ListInv'
<1>1. CASE UNCHANGED <<folder, always, ever>>
  BY <1>1 DEF ListInv, ListConsistent, lister, Files, IsFile
<1>2. ASSUME NEW f, Becomes(f) PROVE ListInv'
  <2>1. /\ always' \subseteq always /\ always' \subseteq Files(folder')
        /\ ever \subseteq ever' /\ Files(folder') \subseteq ever'
    BY <1>2 DEF Becomes, Files, ListInv
  <2> QED BY <2>1 DEF ListInv, ListConsistent, lister
<1> QED BY <1>1, <1>2 DEF Moves

(* LIST returns every database that was there all the time, and nothing    *)
(* that was not there at some time, while databases and sidecar files come *)
(* and go (handler.rs 139-156, 241-244); for every name clients send.      *)
THEOREM ListRight == Spec => []ListConsistent
<1>1. Init => ListInv
  BY DEF Init, ListInv, ListConsistent
<1>2. ASSUME ListInv, [Next]_vars PROVE ListInv'
  <2> USE <1>2
  <2>1. CASE UNCHANGED vars
    BY <2>1, MovesKeep DEF vars, Moves
  <2>2. ASSUME NEW cmd \in {"QUERY", "DELETE_DB"}, NEW n \in Names, Check(cmd, n)
        PROVE  ListInv'
    BY <2>2, MovesKeep DEF Check, Moves
  <2>3. CASE Query
    BY <2>3, MovesKeep DEF Query, Moves
  <2>4. CASE DeleteDb
    BY <2>4, MovesKeep DEF DeleteDb, Moves
  <2>5. ASSUME NEW e \in Entries, Sidecar(e) \/ Other(e) PROVE ListInv'
    BY <2>5, MovesKeep DEF Sidecar, Other, Moves
  <2>6. ASSUME NEW e \in Entries, ReadEntry(e) PROVE ListInv'
    <3>1. IsDatabase(e) <=> ~IsSqliteSidecarFile(e)
      BY EntriesAssumption DEF IsDatabase, IsSqliteSidecarFile, Sidecars
    <3>2. folder' = folder /\ always' = always /\ ever' = ever /\ listing /\ listing'
      BY <2>6 DEF ReadEntry
    <3>3. e \in always => IsFile(folder, e)
      BY DEF ListInv, Files
    <3>4. IsFile(folder, e) => e \in ever
      BY <3>2 DEF ListInv, Files
    <3>5. list' \subseteq {x \in ever' : IsDatabase(x)}
      BY <2>6, <3>1, <3>2, <3>4 DEF ReadEntry, ListInv, ListConsistent
    <3>6. \A x \in always' \cap seen' : IsDatabase(x) => x \in list'
      BY <2>6, <3>1, <3>2, <3>3 DEF ReadEntry, ListInv
    <3> QED BY <3>2, <3>5, <3>6 DEF ListInv, ListConsistent
  <2>7. CASE BeginList
    BY <2>7 DEF BeginList, ListInv, ListConsistent, Files
  <2>8. CASE EndList
    BY <2>8 DEF EndList, ListInv, ListConsistent
  <2> QED BY <2>1, <2>2, <2>3, <2>4, <2>5, <2>6, <2>7, <2>8 DEF Next
<1>3. ListInv => ListConsistent
  BY DEF ListInv
<1> QED BY <1>1, <1>2, <1>3, PTL DEF Spec

-----------------------------------------------------------------------------
(* Results.                                                                *)

(* The rows of the table, and their objects. *)
TableRows == [DOMAIN columns -> Cells]
Objects == {Object(row) : row \in TableRows}

(* Row by row: what has been stepped through has been collected. *)
ResultInv ==
  /\ columns \in Selects /\ table \in Seq(TableRows) /\ cursor \in 0 .. Len(table)
  /\ response \in {"none", "rows", "error"}
  /\ response = "error" => data = <<>>
  /\ response # "error" =>
       /\ data \in Seq(Objects) /\ Len(data) = cursor
       /\ \A r \in 1 .. cursor : data[r] = Object(table[r])
  /\ response = "rows" => cursor = Len(table)

LEMMA ResultInvInit == ASSUME RowsAssumption PROVE ResultsInit => ResultInv
<1> SUFFICES ASSUME ResultsInit PROVE ResultInv
  OBVIOUS
<1>1. PICK n \in 0 .. MaxRows : table \in [1 .. n -> TableRows]
  BY DEF ResultsInit, TableRows
<1>2. n \in Nat
  BY <1>1 DEF RowsAssumption
<1>3. table \in Seq(TableRows) /\ Len(table) \in Nat
  BY <1>1, <1>2, LenProperties
<1>4. data \in Seq(Objects) /\ Len(data) = 0
  BY EmptySeq DEF ResultsInit
<1> QED BY <1>3, <1>4 DEF ResultsInit, ResultInv

LEMMA ResultInvNext == ResultInv /\ [ResultsNext]_resultsVars => ResultInv'
<1> SUFFICES ASSUME ResultInv, [ResultsNext]_resultsVars PROVE ResultInv'
  OBVIOUS
<1>0. columns' = columns => TableRows' = TableRows /\ Objects' = Objects
                            /\ \A row : Object(row)' = Object(row)
  BY DEF TableRows, Objects, Object, ColumnNames
<1>1. CASE UNCHANGED resultsVars
  BY <1>0, <1>1 DEF resultsVars, ResultInv
<1>2. CASE NextRow
  <2>1. /\ cursor \in Nat /\ Len(table) \in Nat /\ cursor + 1 \in 1 .. Len(table)
        /\ table[cursor + 1] \in TableRows
    BY <1>2, LenProperties, ElementOfSeq DEF NextRow, ResultInv
  <2> DEFINE o == Object(table[cursor + 1])
  <2>2. o \in Objects
    BY <2>1 DEF Objects
  <2>3. /\ data \in Seq(Objects) /\ Len(data) = cursor /\ data' = Append(data, o)
        /\ \A r \in 1 .. cursor : data[r] = Object(table[r])
        /\ cursor' = cursor + 1 /\ UNCHANGED <<columns, table, response>> /\ response = "none"
    BY <1>2 DEF NextRow, ResultInv
  <2> HIDE DEF o
  <2>4. /\ data' \in Seq(Objects) /\ Len(data') = cursor + 1 /\ data'[cursor + 1] = o
        /\ \A r \in 1 .. cursor : data'[r] = data[r]
    BY <2>2, <2>3, AppendProperties
  <2>5. \A r \in 1 .. cursor + 1 : data'[r] = Object(table[r])
    <3> TAKE r \in 1 .. cursor + 1
    <3>1. CASE r = cursor + 1
      BY <2>4, <3>1 DEF o
    <3>2. CASE r # cursor + 1
      BY <2>1, <2>3, <2>4, <3>2
    <3> QED BY <3>1, <3>2
  <2> QED BY <1>0, <2>1, <2>3, <2>4, <2>5 DEF ResultInv
<1>3. CASE StepFails
  BY <1>0, <1>3 DEF StepFails, AnswerError, ResultInv
<1>4. CASE Respond
  BY <1>0, <1>4 DEF Respond, ResultInv
<1> QED BY <1>1, <1>2, <1>3, <1>4 DEF ResultsNext

LEMMA ResultInvariant == ASSUME RowsAssumption PROVE ResultsSpec => []ResultInv
BY ResultInvInit, ResultInvNext, PTL DEF ResultsSpec

(* A caller is given all rows in order or an error, never some of the rows *)
(* (handler.rs 101-136, client.rs 231-249).                                *)
THEOREM NeverPartial == ASSUME RowsAssumption PROVE ResultsSpec => []NoPartialResult
<1>1. ASSUME ResultInv PROVE NoPartialResult
  <2>1. CASE response = "rows"
    <3>1. /\ data \in Seq(Objects) /\ Len(data) = Len(table) /\ table \in Seq(TableRows)
          /\ \A r \in 1 .. Len(table) : data[r] = Object(table[r])
      BY <1>1, <2>1 DEF ResultInv
    <3>2. DOMAIN table = 1 .. Len(table) /\ data \in [1 .. Len(table) -> Objects]
      BY <3>1, LenProperties
    <3>3. data = [r \in DOMAIN table |-> Object(table[r])]
      BY <3>1, <3>2
    <3> QED BY <2>1, <3>3 DEF NoPartialResult, Rows, ServerError
  <2>2. CASE response = "error"
    BY <1>1, <2>2 DEF NoPartialResult, Rows, Scalar, ServerError
  <2>3. CASE response = "none"
    BY <2>3 DEF NoPartialResult
  <2> QED BY <1>1, <2>1, <2>2, <2>3 DEF ResultInv
<1> QED BY <1>1, ResultInvariant, PTL
-----------------------------------------------------------------------------
(* What the response says of a column that is the last of its name.        *)
LEMMA FieldRead ==
  ASSUME RowsAssumption, ResultInv, response = "rows",
         NEW r \in DOMAIN table, NEW i \in DOMAIN columns, LastOfName(i)
  PROVE  /\ table[r][i] \in Cells
         /\ Get(Rows[r], columns[i]) = ValueRefToJson(table[r][i])
<1>1. columns \in Seq(STRING) /\ DOMAIN columns \subseteq Nat
  BY LenProperties DEF RowsAssumption, ResultInv
<1>2. r \in 1 .. Len(table) /\ table[r] \in TableRows /\ Rows[r] = Object(table[r])
  BY LenProperties, ElementOfSeq DEF ResultInv, Rows
<1> DEFINE Last(k) == columns[k] = columns[i]
                      /\ \A j \in DOMAIN columns : columns[j] = columns[i] => j <= k
           l == CHOOSE k \in DOMAIN columns : Last(k)
<1>3. i \in DOMAIN columns /\ Last(i)
  BY DEF LastOfName
<1>4. \A k \in DOMAIN columns : Last(k) => k = i
  BY <1>1, <1>3
<1>5. l = i
  <2>1. l \in DOMAIN columns /\ Last(l)
    BY <1>3
  <2> QED BY <1>4, <2>1
<1>6. columns[i] \in ColumnNames
  BY DEF ColumnNames
<1>7. Object(table[r])[columns[i]] = ValueRefToJson(table[r][l])
  BY <1>6 DEF Object
<1>8. columns[i] \in DOMAIN Object(table[r])
  BY <1>6 DEF Object
<1> QED BY <1>2, <1>5, <1>7, <1>8 DEF Get, TableRows

(* The scalar is the first column of the first row (client.rs 217-226).    *)
THEOREM ScalarIsFirst == ASSUME RowsAssumption PROVE ResultsSpec => []ScalarOfDistinct
<1>1. ASSUME ResultInv PROVE ScalarOfDistinct
  <2> SUFFICES ASSUME response = "rows", table # <<>>, Distinct
               PROVE  Scalar = ValueRefToJson(table[1][1])
    BY DEF ScalarOfDistinct
  <2>1. 1 \in DOMAIN table /\ Len(table) \in Nat \ {0}
    BY <1>1, LenProperties, EmptySeq DEF ResultInv
  <2>2. 1 \in DOMAIN columns
    BY <1>1, LenProperties, EmptySeq DEF ResultInv, RowsAssumption
  <2>3. LastOfName(1)
    BY <2>2 DEF LastOfName, Distinct
  <2>4. Get(Rows[1], columns[1]) = ValueRefToJson(table[1][1])
    BY <1>1, <2>1, <2>2, <2>3, FieldRead
  <2>5. Rows # <<>>
    BY <1>1, <2>1, EmptySeq DEF Rows, ResultInv
  <2> QED BY <2>4, <2>5 DEF Scalar, ResultColumns
<1> QED BY <1>1, ResultInvariant, PTL

-----------------------------------------------------------------------------
(* Blobs: the hex literal, and back.                                       *)

(* A byte is its two digits. *)
LEMMA ByteDigits ==
  ASSUME DigitsAssumption, NEW b \in Byte
  PROVE  /\ b \div Nibble \in 0 .. Nibble - 1 /\ b % Nibble \in 0 .. Nibble - 1
         /\ (b \div Nibble) * Nibble + (b % Nibble) = b
<1> DEFINE q == b \div Nibble
           m == b % Nibble
<1>1. Nibble \in Nat /\ Nibble > 0 /\ b \in Nat /\ b < Nibble * Nibble
  BY DEF DigitsAssumption, Byte
<1>2. q \in Nat /\ m \in 0 .. Nibble - 1
  BY <1>1
<1>3. b - Nibble * q = m
  BY <1>1
<1> HIDE DEF q, m
<1>4. q * Nibble + m = b
  BY <1>1, <1>2, <1>3
<1>5. q < Nibble
  <2> SUFFICES ASSUME q >= Nibble PROVE FALSE
    BY <1>1, <1>2
  <2>1. q * Nibble >= Nibble * Nibble
    BY <1>1, <1>2
  <2>2. q * Nibble \in Nat /\ Nibble * Nibble \in Nat
    BY <1>1, <1>2
  <2> QED BY <1>1, <1>2, <1>4, <2>1, <2>2
<1>6. q \in 0 .. Nibble - 1
  BY <1>1, <1>2, <1>5
<1>7. b \div Nibble \in 0 .. Nibble - 1
  BY <1>6 DEF q
<1>8. b % Nibble \in 0 .. Nibble - 1
  BY <1>2 DEF m
<1>9. (b \div Nibble) * Nibble + (b % Nibble) = b
  BY <1>4 DEF q, m
<1> QED BY <1>7, <1>8, <1>9

(* hex_val reads a digit back. *)
LEMMA HexValOfDigit ==
  ASSUME DigitsAssumption, NEW n \in 0 .. Nibble - 1
  PROVE  HexVal(Digits[n + 1]) = n /\ IsHex(Digits[n + 1])
<1>1. DOMAIN Digits = 1 .. Nibble /\ Nibble \in Nat
  BY LenProperties DEF DigitsAssumption
<1>2. n + 1 \in DOMAIN Digits /\ \A k \in 0 .. Nibble - 1 : k + 1 \in DOMAIN Digits
  BY <1>1
<1>3. \A k \in 0 .. Nibble - 1 : Digits[k + 1] = Digits[n + 1] => k = n
  BY <1>1, <1>2 DEF DigitsAssumption
<1> QED BY <1>2, <1>3 DEF HexVal, IsHex

(* The literal of a blob, character by character. *)
LiteralChar == {Digits[i] : i \in DOMAIN Digits} \cup {"X", "'"}

LEMMA LiteralProperties ==
  ASSUME DigitsAssumption, NEW bytes \in Seq(Byte)
  PROVE  /\ BlobLiteral(bytes) \in Seq(LiteralChar)
         /\ Len(BlobLiteral(bytes)) = 2 * Len(bytes) + 3
         /\ BlobLiteral(bytes)[1] = "X" /\ BlobLiteral(bytes)[2] = "'"
         /\ BlobLiteral(bytes)[2 * Len(bytes) + 3] = "'"
         /\ \A i \in 1 .. 2 * Len(bytes) : BlobLiteral(bytes)[i + 2] = ToHex(bytes)[i]
<1> DEFINE h == ToHex(bytes)
           n == Len(bytes)
<1>1. n \in Nat /\ bytes \in [1 .. n -> Byte]
  BY LenProperties
<1>2. \A i \in 1 .. 2 * n : (i + 1) \div 2 \in 1 .. n
  BY <1>1
<1>3. \A i \in 1 .. 2 * n : h[i] \in LiteralChar
  <2> TAKE i \in 1 .. 2 * n
  <2> DEFINE b == bytes[(i + 1) \div 2]
             d == IF i % 2 = 1 THEN b \div Nibble ELSE b % Nibble
  <2>1. b \in Byte
    BY <1>1, <1>2
  <2>2. h[i] = Digits[d + 1]
    BY DEF ToHex
  <2>3. d \in 0 .. Nibble - 1
    BY <2>1, ByteDigits
  <2> HIDE DEF d
  <2>4. IsHex(Digits[d + 1])
    BY <2>3, HexValOfDigit
  <2> QED BY <2>2, <2>4 DEF LiteralChar, IsHex
<1>4. h \in Seq(LiteralChar) /\ Len(h) = 2 * n
  <2>1. DOMAIN h = 1 .. 2 * n /\ 2 * n \in Nat /\ h = [i \in 1 .. 2 * n |-> h[i]]
    BY <1>1 DEF ToHex
  <2> HIDE DEF h
  <2>2. h \in [1 .. 2 * n -> LiteralChar]
    BY <1>3, <2>1
  <2>3. h \in Seq(LiteralChar)
    BY <2>1, <2>2
  <2> QED BY <2>1, <2>3, LenProperties
<1> HIDE DEF h
<1> DEFINE open == <<"X", "'">>
           close == <<"'">>
           p == open \o h
<1>5. /\ open \in Seq(LiteralChar) /\ Len(open) = 2 /\ open[1] = "X" /\ open[2] = "'"
      /\ close \in Seq(LiteralChar) /\ Len(close) = 1 /\ close[1] = "'"
  <2>1. "X" \in LiteralChar /\ "'" \in LiteralChar
    BY DEF LiteralChar
  <2>2. open \in Seq(LiteralChar) /\ Len(open) = 2 /\ open[1] = "X" /\ open[2] = "'"
    BY <2>1
  <2>3. close \in Seq(LiteralChar) /\ Len(close) = 1 /\ close[1] = "'"
    BY <2>1
  <2> QED BY <2>2, <2>3
<1>6. /\ p \in Seq(LiteralChar) /\ Len(p) = 2 + 2 * n
      /\ p[1] = "X" /\ p[2] = "'" /\ \A i \in 1 .. 2 * n : p[i + 2] = h[i]
  <2> HIDE DEF open
  <2>1. /\ p \in Seq(LiteralChar) /\ Len(p) = 2 + 2 * n
        /\ \A i \in 1 .. 2 + 2 * n : p[i] = IF i <= 2 THEN open[i] ELSE h[i - 2]
    <3>1. /\ p \in Seq(LiteralChar) /\ Len(p) = Len(open) + Len(h)
          /\ \A i \in 1 .. Len(open) + Len(h) :
               p[i] = IF i <= Len(open) THEN open[i] ELSE h[i - Len(open)]
      BY <1>4, <1>5, ConcatProperties
    <3> QED BY <1>4, <1>5, <3>1
  <2> HIDE DEF p
  <2>2. \A i \in 1 .. 2 * n : i + 2 \in 1 .. 2 + 2 * n /\ ~(i + 2 <= 2) /\ (i + 2) - 2 = i
    BY <1>1
  <2>3. 1 \in 1 .. 2 + 2 * n /\ 2 \in 1 .. 2 + 2 * n
    BY <1>1
  <2> QED BY <1>5, <2>1, <2>2, <2>3
<1> DEFINE q == p \o close
<1>7. BlobLiteral(bytes) = q
  BY DEF BlobLiteral, h
<1> HIDE DEF p, close
<1>8. /\ q \in Seq(LiteralChar) /\ Len(q) = 2 * n + 3
      /\ \A i \in 1 .. 2 * n + 3 : q[i] = IF i <= 2 + 2 * n THEN p[i] ELSE close[i - (2 + 2 * n)]
  <2>1. /\ q \in Seq(LiteralChar) /\ Len(q) = Len(p) + Len(close)
        /\ \A i \in 1 .. Len(p) + Len(close) :
             q[i] = IF i <= Len(p) THEN p[i] ELSE close[i - Len(p)]
    BY <1>5, <1>6, ConcatProperties
  <2>2. Len(p) + Len(close) = 2 * n + 3
    BY <1>1, <1>5, <1>6
  <2> QED BY <1>6, <2>1, <2>2
<1> HIDE DEF q
<1>9. /\ 1 \in 1 .. 2 * n + 3 /\ 2 \in 1 .. 2 * n + 3 /\ 2 * n + 3 \in 1 .. 2 * n + 3
      /\ 1 <= 2 + 2 * n /\ 2 <= 2 + 2 * n /\ ~(2 * n + 3 <= 2 + 2 * n)
      /\ (2 * n + 3) - (2 + 2 * n) = 1
      /\ \A i \in 1 .. 2 * n : i + 2 \in 1 .. 2 * n + 3 /\ i + 2 <= 2 + 2 * n
  BY <1>1
<1> QED BY <1>5, <1>6, <1>7, <1>8, <1>9 DEF h
(* The accessor of blobs returns the bytes the literal was made of. *)
LEMMA BlobRoundTrip ==
  ASSUME DigitsAssumption, NEW bytes \in Seq(Byte)
  PROVE  Blob(Json("string", BlobLiteral(bytes))) = Bytes(bytes)
<1> DEFINE n == Len(bytes)
           s == BlobLiteral(bytes)
           j == Json("string", s)
           back == [i \in 1 .. (Len(s) - 3) \div 2 |->
                      HexVal(s[2 * i + 1]) * Nibble + HexVal(s[2 * i + 2])]
<1>1. n \in Nat /\ bytes \in [1 .. n -> Byte]
  BY LenProperties
<1>2. /\ Len(s) = 2 * n + 3 /\ s[1] = "X" /\ s[2] = "'" /\ s[Len(s)] = "'"
      /\ \A i \in 1 .. 2 * n : s[i + 2] = ToHex(bytes)[i]
  BY LiteralProperties
<1>3. ASSUME NEW k \in 1 .. n
      PROVE  /\ s[2 * k + 1] = Digits[(bytes[k] \div Nibble) + 1]
             /\ s[2 * k + 2] = Digits[(bytes[k] % Nibble) + 1]
  <2>1. /\ 2 * k - 1 \in 1 .. 2 * n /\ (2 * k - 1) + 2 = 2 * k + 1
        /\ ((2 * k - 1) + 1) \div 2 = k /\ (2 * k - 1) % 2 = 1
    BY <1>1
  <2>2. /\ 2 * k \in 1 .. 2 * n /\ (2 * k + 1) \div 2 = k /\ (2 * k) % 2 # 1
    BY <1>1
  <2>3. ToHex(bytes)[2 * k - 1] = Digits[(bytes[k] \div Nibble) + 1]
    BY <2>1 DEF ToHex
  <2>4. ToHex(bytes)[2 * k] = Digits[(bytes[k] % Nibble) + 1]
    BY <2>2 DEF ToHex
  <2>5. s[2 * k + 1] = ToHex(bytes)[2 * k - 1]
    BY <1>2, <2>1
  <2>6. s[2 * k + 2] = ToHex(bytes)[2 * k]
    BY <1>2, <2>2
  <2> QED BY <2>3, <2>4, <2>5, <2>6
<1>4. ASSUME NEW k \in 1 .. n
      PROVE  /\ IsHex(s[2 * k + 1]) /\ IsHex(s[2 * k + 2])
             /\ HexVal(s[2 * k + 1]) * Nibble + HexVal(s[2 * k + 2]) = bytes[k]
  <2> DEFINE q == bytes[k] \div Nibble
             m == bytes[k] % Nibble
  <2>1. bytes[k] \in Byte
    BY <1>1
  <2>2. q \in 0 .. Nibble - 1 /\ m \in 0 .. Nibble - 1 /\ q * Nibble + m = bytes[k]
    BY <2>1, ByteDigits
  <2>3. s[2 * k + 1] = Digits[q + 1] /\ s[2 * k + 2] = Digits[m + 1]
    BY <1>3
  <2> HIDE DEF q, m
  <2>4. /\ HexVal(Digits[q + 1]) = q /\ IsHex(Digits[q + 1])
        /\ HexVal(Digits[m + 1]) = m /\ IsHex(Digits[m + 1])
    BY <2>2, HexValOfDigit
  <2> QED BY <2>2, <2>3, <2>4, Zenon
<1> HIDE DEF s, n
<1>5. IsBlobLiteral(s)
  <2>1. Len(s) >= 3 /\ Len(s) % 2 = 1
    BY <1>1, <1>2
  <2>2. ASSUME NEW i \in 3 .. Len(s) - 1 PROVE IsHex(s[i])
    <3> DEFINE k == (i - 1) \div 2
    <3>1. i \in Nat /\ i >= 3 /\ i <= 2 * n + 2
      BY <1>1, <1>2
    <3>2. k \in 1 .. n /\ (i = 2 * k + 1 \/ i = 2 * k + 2)
      BY <1>1, <3>1
    <3> HIDE DEF k
    <3> QED BY <1>4, <3>2
  <2> QED BY <1>2, <2>1, <2>2 DEF IsBlobLiteral
<1>6. (Len(s) - 3) \div 2 = n
  <2>1. Len(s) - 3 = 2 * n
    BY <1>1, <1>2
  <2>2. (2 * n) \div 2 = n
    BY <1>1
  <2> QED BY <2>1, <2>2
<1>7. back = bytes
  <2>1. back = [i \in 1 .. n |-> HexVal(s[2 * i + 1]) * Nibble + HexVal(s[2 * i + 2])]
    BY <1>6
  <2> HIDE DEF back
  <2>2. back = [i \in 1 .. n |-> bytes[i]]
    BY <1>4, <2>1
  <2> QED BY <1>1, <2>2
<1>8. j.json = "string" /\ j.val = s
  BY DEF Json
<1> HIDE DEF j
<1>9. Blob(j) = Bytes(back)
  BY <1>5, <1>8 DEF Blob
<1> QED BY <1>7, <1>9 DEF j, s

(* What a value was can be told from its JSON: blobs come back byte by     *)
(* byte, and every accessor answers for its own type only (handler.rs      *)
(* 246-260, client.rs 155-171, 380-410).                                   *)
THEOREM ValuesAreKept ==
  ASSUME DigitsAssumption, RowsAssumption PROVE ResultsSpec => []ValuesKept
<1>1. ASSUME ResultInv PROVE ValuesKept
  <2> SUFFICES ASSUME response = "rows", NEW r \in DOMAIN table, NEW i \in DOMAIN columns,
                      LastOfName(i)
               PROVE  LET v == table[r][i]
                          j == Get(Rows[r], columns[i]) IN
                        /\ v.type = "blob" => Blob(j) = Bytes(v.val)
                        /\ Blob(j).some => v.type = "blob" \/ LooksLikeBlob(v)
                        /\ v.type \in {"integer", "text"} => j.val = v.val
                        /\ SomeI64(j) <=> v.type = "integer"
                        /\ SomeF64(j) <=> v.type = "integer" \/ (v.type = "real" /\ ~NonFinite(v))
                        /\ SomeStr(j) <=> v.type \in {"text", "blob"}
                        /\ IsNull(j) <=> v.type = "null" \/ NonFinite(v)
    BY DEF ValuesKept
  <2> DEFINE v == table[r][i]
             j == Get(Rows[r], columns[i])
  <2>1. v \in Cells /\ j = ValueRefToJson(v)
    BY <1>1, FieldRead
  <2>2. /\ v.type \in {"null", "integer", "real", "text", "blob"}
        /\ v.type = "blob" => v.val \in Seq(Byte)
    BY <2>1 DEF RowsAssumption
  <2> HIDE DEF v, j
  <2> USE DEF ValueRefToJson, NonFinite, JsonNull, Json, None, SomeI64, SomeF64, SomeStr,
              IsNull, LooksLikeBlob
  <2>3. CASE v.type = "blob"
    <3>1. j = [json |-> "string", val |-> BlobLiteral(v.val)]
      BY <2>1, <2>3
    <3>2. Blob(j) = Bytes(v.val)
      BY <2>2, <2>3, <3>1, BlobRoundTrip
    <3> QED BY <2>3, <3>1, <3>2 DEF v, j
  <2>4. CASE v.type = "text"
    <3>1. j = [json |-> "string", val |-> v.val]
      BY <2>1, <2>4
    <3>2. Blob(j).some => IsBlobLiteral(v.val)
      BY <3>1 DEF Blob, NoBytes
    <3> QED BY <2>4, <3>1, <3>2 DEF v, j
  <2>5. CASE v.type \in {"null", "integer", "real"}
    <3>1. j.json # "string" /\ ~Blob(j).some
      BY <2>1, <2>5 DEF Blob, NoBytes
    <3> QED BY <2>1, <2>5, <3>1 DEF v, j
  <2> QED BY <2>2, <2>3, <2>4, <2>5
<1> QED BY <1>1, ResultInvariant, PTL

-----------------------------------------------------------------------------
(* Binding: the invariant.                                                *)

(* SQLite is at the same place in both texts: behind a string that has     *)
(* been written it does not know yet that the string has ended.            *)
Agree(b, m) ==
  \/ b = m
  \/ b.mode = "closed" /\ m = [mode |-> "code", items |-> Append(b.items, Str(b.str)), str |-> <<>>]

(* A text is being written: what SQLite has read of it and what is left    *)
(* are the value.                                                          *)
Partly(b, r, m) ==
  /\ b.mode = "string"
  /\ m = [mode |-> "code", items |-> Append(b.items, Str(b.str \o r)), str |-> <<>>]

(* Two minus signs have met: the rest of the SQL is lost. *)
Lost(b, m) == b.mode = "comment" /\ Len(b.items) < Len(m.items)

Item == [is : {"string", "token"}, s : Seq(SqlToken)]
Reader == [mode : {"code", "minus", "string", "closed", "comment"}, items : Seq(Item),
           str : Seq(SqlToken)]

(* No "?" was passed over: the next one takes the parameter it is for. *)
InOrder ==
  next < Len(params) => next = Cardinality({j \in 1 .. pos - 1 : sql[j] = Mark})

SameReading ==
  apart => IF meets THEN Lost(bound, meant)
           ELSE IF filling THEN Partly(bound, rest, meant) ELSE Agree(bound, meant)

BindInv ==
  /\ sql \in Seq(SqlToken) /\ params \in Seq(Param)
  /\ pos \in 1 .. Len(sql) + 1 /\ next \in 0 .. Len(params)
  /\ filling \in BOOLEAN /\ meets \in BOOLEAN /\ apart \in BOOLEAN
  /\ rest \in Seq(SqlToken) /\ bound \in Reader /\ meant \in Reader
  /\ InOrder /\ SameReading

(* The signs of SQL are different from each other and from every word. *)
LEMMA SqlSigns ==
  /\ Mark # SqlQuote /\ Mark # Minus /\ SqlQuote # Minus
  /\ \A w \in SqlWords : w \notin Marks /\ w # SqlQuote /\ w # Minus
BY BindAssumption DEF Mark, SqlQuote, Minus, Marks

(* Sequences, a token at a time. *)
LEMMA AppendTwo ==
  ASSUME NEW S, NEW s \in Seq(S), NEW a \in S, NEW b \in S
  PROVE  s \o <<a>> = Append(s, a) /\ s \o <<a, b>> = Append(Append(s, a), b)
OBVIOUS

LEMMA MoveOne ==
  ASSUME NEW S, NEW s \in Seq(S), NEW r \in Seq(S), r # <<>>
  PROVE  /\ Head(r) \in S /\ Tail(r) \in Seq(S)
         /\ Append(s, Head(r)) \o Tail(r) = s \o r
OBVIOUS

LEMMA ItemType ==
  /\ \A t \in SqlToken : Tok(t) \in Item
  /\ \A s \in Seq(SqlToken) : Str(s) \in Item
BY DEF Tok, Str, Item

LEMMA SettledType ==
  ASSUME NEW r \in Reader
  PROVE  Settled(r) \in Seq(Item) /\ Len(Settled(r)) >= Len(r.items)
<1>1. r.items \in Seq(Item) /\ r.str \in Seq(SqlToken)
  BY DEF Reader
<1>2. Tok(Minus) \in Item /\ Str(r.str) \in Item
  BY <1>1, ItemType DEF SqlToken
<1> QED BY <1>1, <1>2 DEF Settled

LEMMA BegunType ==
  ASSUME NEW items \in Seq(Item), NEW t \in SqlToken
  PROVE  Begun(items, t) \in Reader /\ Len(Begun(items, t).items) >= Len(items)
<1>1. Tok(t) \in Item
  BY ItemType
<1>2. Append(items, Tok(t)) \in Seq(Item) /\ Len(Append(items, Tok(t))) = Len(items) + 1
  BY <1>1
<1>3. <<>> \in Seq(SqlToken)
  OBVIOUS
<1> QED BY <1>2, <1>3 DEF Begun, Reader

(* Reading never takes back what is complete. *)
LEMMA ReadsType ==
  ASSUME NEW r \in Reader, NEW t \in SqlToken
  PROVE  Reads(r, t) \in Reader /\ Len(Reads(r, t).items) >= Len(r.items)
<1>1. Append(r.str, t) \in Seq(SqlToken) /\ Len(r.items) \in Nat
  BY DEF Reader
<1>2. Begun(Settled(r), t) \in Reader /\ Len(Begun(Settled(r), t).items) >= Len(r.items)
  <2>1. Settled(r) \in Seq(Item) /\ Len(Settled(r)) >= Len(r.items)
    BY SettledType
  <2>2. /\ Begun(Settled(r), t) \in Reader
        /\ Len(Begun(Settled(r), t).items) >= Len(Settled(r))
    BY <2>1, BegunType
  <2>3. Len(Begun(Settled(r), t).items) \in Nat
    BY <2>2 DEF Reader
  <2> QED BY <1>1, <2>1, <2>2, <2>3
<1>3. CASE Reads(r, t) = Begun(Settled(r), t)
  BY <1>2, <1>3
<1>4. CASE Reads(r, t) = r
  BY <1>1, <1>4
<1> DEFINE s == Append(r.str, t)
<1> HIDE DEF s
<1>5. CASE Reads(r, t) = [r EXCEPT !.str = s]
  <2>1. s \in Seq(SqlToken)
    BY <1>1 DEF s
  <2> QED BY <1>1, <1>5, <2>1 DEF Reader
<1>6. CASE Reads(r, t) = [r EXCEPT !.mode = "string", !.str = s]
  <2>1. s \in Seq(SqlToken)
    BY <1>1 DEF s
  <2>2. Reads(r, t) = [mode |-> "string", items |-> r.items, str |-> s]
    BY <1>6 DEF Reader
  <2>3. r.items \in Seq(Item)
    BY DEF Reader
  <2> QED BY <1>1, <2>1, <2>2, <2>3 DEF Reader
<1>7. CASE \/ Reads(r, t) = [r EXCEPT !.mode = "closed"]
           \/ Reads(r, t) = [r EXCEPT !.mode = "comment"]
  BY <1>1, <1>7 DEF Reader
<1> QED BY <1>3, <1>4, <1>5, <1>6, <1>7 DEF Reads, s

LEMMA ReadsAllType ==
  ASSUME NEW r \in Reader, NEW s \in Seq(SqlToken), Len(s) \in {1, 2}
  PROVE  ReadsAll(r, s) \in Reader
<1>1. CASE Len(s) = 1
  BY <1>1, ReadsType DEF ReadsAll
<1>2. CASE Len(s) = 2
  <2>1. s[1] \in SqlToken /\ s[2] \in SqlToken
    BY <1>2, ElementOfSeq
  <2>2. Reads(r, s[1]) \in Reader
    BY <2>1, ReadsType
  <2> QED BY <1>2, <2>1, <2>2, ReadsType DEF ReadsAll
<1> QED BY <1>1, <1>2

(* Outside of strings and comments a token begins anew, unless it makes a  *)
(* comment or is the second of two quotes.                                 *)
LEMMA ReadsBegins ==
  ASSUME NEW r, NEW t, r.mode \in {"code", "minus", "closed"},
         ~(r.mode = "minus" /\ t = Minus), ~(r.mode = "closed" /\ t = SqlQuote)
  PROVE  Reads(r, t) = Begun(Settled(r), t)
BY DEF Reads

(* What a parameter is written as and is to be read as. *)
LEMMA LiteralForms ==
  ASSUME NEW k, NEW p \in Param
  PROVE  \/ ~HasText(p) /\ \E w \in SqlWords : Literal(k, p) = <<w>> /\ Value(k, p) = <<Tok(w)>>
         \/ /\ ~HasText(p)
            /\ \E w \in SqlWords : /\ Literal(k, p) = <<Minus, w>>
                                   /\ Value(k, p) = <<Tok(Minus), Tok(w)>>
         \/ /\ HasText(p) /\ p.val \in Seq(SqlToken)
            /\ Literal(k, p) = <<SqlQuote>> /\ Value(k, p) = <<Str(p.val)>>
         \/ /\ HasText(p) /\ p.val \in Seq(SqlToken)
            /\ Literal(k, p) = <<Hex, SqlQuote>> /\ Value(k, p) = <<Tok(Hex), Str(p.val)>>
<1> DEFINE l == Literal(k, p)
<1>1. ASSUME l \in Signed, ~HasText(p)
      PROVE  \/ \E w \in SqlWords : Literal(k, p) = <<w>> /\ Value(k, p) = <<Tok(w)>>
             \/ \E w \in SqlWords : /\ Literal(k, p) = <<Minus, w>>
                                    /\ Value(k, p) = <<Tok(Minus), Tok(w)>>
  <2>1. Value(k, p) = [i \in DOMAIN l |-> Tok(l[i])]
    BY <1>1 DEF Value, HasText
  <2>2. ASSUME NEW w \in SqlWords, l = <<w>> PROVE Value(k, p) = <<Tok(w)>>
    BY <2>1, <2>2
  <2>3. ASSUME NEW w \in SqlWords, l = <<Minus, w>> PROVE Value(k, p) = <<Tok(Minus), Tok(w)>>
    BY <2>1, <2>3
  <2> HIDE DEF l
  <2>4. (\E w \in SqlWords : l = <<w>>) \/ (\E w \in SqlWords : l = <<Minus, w>>)
    BY <1>1 DEF Signed
  <2> QED BY <2>2, <2>3, <2>4 DEF l
<1>2. \A w \in SqlWords : <<w>> \in Signed /\ <<Minus, w>> \in Signed
  BY DEF Signed
<1>3. {Hex, Null, Infinity, WholeInt, "0", "1"} \subseteq SqlWords
  BY BindAssumption
<1>4. CASE p.type = "null"
  <2>1. l = <<Null>> /\ ~HasText(p)
    BY <1>4 DEF Literal, HasText
  <2> QED BY <1>1, <1>2, <1>3, <2>1
<1>5. CASE p.type = "bool"
  <2>1. (l = <<"1">> \/ l = <<"0">>) /\ ~HasText(p)
    BY <1>5 DEF Literal, HasText
  <2> QED BY <1>1, <1>2, <1>3, <2>1
<1>6. CASE p.type = "int"
  <2>1. l = p.val /\ ~HasText(p)
    BY <1>6 DEF Literal, HasText
  <2>2. p.val \in Signed
    BY <1>6 DEF Param
  <2> QED BY <1>1, <2>1, <2>2
<1>7. CASE p.type = "real"
  <2>1. l = RealLiteral(k, p.val) /\ ~HasText(p)
    BY <1>7 DEF Literal, HasText
  <2>2. p.val \in Signed
    BY <1>7 DEF Param
  <2>3. RealLiteral(k, p.val) \in Signed
    BY <1>2, <1>3, <2>2 DEF RealLiteral
  <2> QED BY <1>1, <2>1, <2>3
<1>8. CASE p.type = "text"
  <2>1. p.val \in Seq(SqlToken)
    BY <1>8 DEF Param
  <2> QED BY <1>8, <2>1 DEF Literal, Value, HasText
<1>9. CASE p.type = "blob"
  <2>1. p.val \in Seq(SqlToken)
    BY <1>9 DEF Param, SqlToken
  <2> QED BY <1>9, <2>1 DEF Literal, Value, HasText
<1>10. p.type \in {"null", "bool", "int", "real", "text", "blob"}
  BY DEF Param
<1> QED BY <1>4, <1>5, <1>6, <1>7, <1>8, <1>9, <1>10

(* A value that stands by itself is read as itself, or up to its quote, *)
(* if no two minus signs meet.                                          *)
LEMMA SubstituteAgrees ==
  ASSUME NEW k, NEW p \in Param, NEW b \in Reader, NEW m \in Reader, NEW t, Agree(b, m),
         m.mode \notin {"string", "comment"},
         ~(b.mode = "closed" /\ Literal(k, p)[1] = SqlQuote),
         ~(b.mode = "minus" /\ Literal(k, p)[1] = Minus)
  PROVE  LET c == ReadsAll(b, Literal(k, p))
             n == Placed(m, t, Value(k, p)) IN
         IF HasText(p) THEN Partly(c, p.val, n) ELSE c = n
<1> DEFINE l == Literal(k, p)
           v == Value(k, p)
           i == Settled(m)
<1>1. i \in Seq(Item) /\ Settled(b) = i
  <2>1. Settled(b) = i
    <3>1. CASE b = m
      BY <3>1
    <3>2. CASE /\ b.mode = "closed"
               /\ m = [mode |-> "code", items |-> Append(b.items, Str(b.str)), str |-> <<>>]
      <4>1. m.mode = "code" /\ m.items = Append(b.items, Str(b.str))
        BY <3>2
      <4> QED BY <3>2, <4>1 DEF Settled
    <3> QED BY <3>1, <3>2 DEF Agree
  <2> QED BY <2>1, SettledType
<1>2. Placed(m, t, v) = [mode |-> "code", items |-> i \o v, str |-> <<>>]
  BY DEF Placed
<1>3. Reads(b, l[1]) = Begun(i, l[1])
  <2>1. b.mode \in {"code", "minus", "closed"}
    BY DEF Agree, Reader
  <2> QED BY <1>1, <2>1, ReadsBegins
<1> HIDE DEF i
<1>4. ASSUME NEW w \in SqlWords
      PROVE  /\ Begun(i, w) = [mode |-> "code", items |-> Append(i, Tok(w)), str |-> <<>>]
             /\ w \in SqlToken /\ Tok(w) \in Item
  BY SqlSigns, ItemType DEF Begun, SqlToken
<1>5. /\ Tok(Minus) \in Item /\ Hex \in SqlWords
      /\ Begun(i, Minus) = [mode |-> "minus", items |-> i, str |-> <<>>]
      /\ Begun(i, SqlQuote) = [mode |-> "string", items |-> i, str |-> <<>>]
  BY SqlSigns, ItemType, BindAssumption DEF Begun, SqlToken
<1>6. CASE ~HasText(p) /\ \E w \in SqlWords : l = <<w>> /\ v = <<Tok(w)>>
  <2>1. PICK w \in SqlWords : l = <<w>> /\ v = <<Tok(w)>>
    BY <1>6
  <2>2. ReadsAll(b, l) = Begun(i, w)
    BY <1>3, <2>1 DEF ReadsAll
  <2>3. i \o v = Append(i, Tok(w))
    BY <1>1, <1>4, <2>1, AppendTwo
  <2> QED BY <1>2, <1>4, <1>6, <2>2, <2>3
<1>7. CASE ~HasText(p) /\ \E w \in SqlWords : l = <<Minus, w>> /\ v = <<Tok(Minus), Tok(w)>>
  <2>1. PICK w \in SqlWords : l = <<Minus, w>> /\ v = <<Tok(Minus), Tok(w)>>
    BY <1>7
  <2>2. ReadsAll(b, l) = Reads(Begun(i, Minus), w)
    BY <1>3, <2>1 DEF ReadsAll
  <2>3. Reads(Begun(i, Minus), w) = Begun(Append(i, Tok(Minus)), w)
    <3>1. Settled(Begun(i, Minus)) = Append(i, Tok(Minus))
      BY <1>5 DEF Settled
    <3>2. Begun(i, Minus).mode = "minus" /\ w # Minus
      BY <1>5, SqlSigns
    <3> QED BY <3>1, <3>2 DEF Reads
  <2>4. Begun(Append(i, Tok(Minus)), w) =
          [mode |-> "code", items |-> Append(Append(i, Tok(Minus)), Tok(w)), str |-> <<>>]
    BY SqlSigns DEF Begun
  <2>5. i \o v = Append(Append(i, Tok(Minus)), Tok(w))
    BY <1>1, <1>4, <1>5, <2>1, AppendTwo
  <2> QED BY <1>2, <1>7, <2>2, <2>3, <2>4, <2>5
<1>8. CASE /\ HasText(p) /\ p.val \in Seq(SqlToken)
           /\ l = <<SqlQuote>> /\ v = <<Str(p.val)>>
  <2>1. ReadsAll(b, l) = Begun(i, SqlQuote)
    BY <1>3, <1>8 DEF ReadsAll
  <2>2. i \o v = Append(i, Str(p.val))
    BY <1>1, <1>8, AppendTwo, ItemType
  <2>3. <<>> \o p.val = p.val
    BY <1>8
  <2>4. Partly(ReadsAll(b, l), p.val, Placed(m, t, v))
    BY <1>2, <1>5, <2>1, <2>2, <2>3 DEF Partly
  <2> QED BY <1>8, <2>4
<1>9. CASE /\ HasText(p) /\ p.val \in Seq(SqlToken)
           /\ l = <<Hex, SqlQuote>> /\ v = <<Tok(Hex), Str(p.val)>>
  <2>1. ReadsAll(b, l) = Reads(Begun(i, Hex), SqlQuote)
    BY <1>3, <1>9 DEF ReadsAll
  <2>2. Reads(Begun(i, Hex), SqlQuote) = Begun(Append(i, Tok(Hex)), SqlQuote)
    <3>1. Begun(i, Hex) = [mode |-> "code", items |-> Append(i, Tok(Hex)), str |-> <<>>]
      BY <1>4, <1>5
    <3>2. Settled(Begun(i, Hex)) = Append(i, Tok(Hex))
      BY <3>1 DEF Settled
    <3>3. Begun(i, Hex).mode = "code"
      BY <3>1
    <3> QED BY <3>2, <3>3 DEF Reads
  <2>3. Begun(Append(i, Tok(Hex)), SqlQuote) =
          [mode |-> "string", items |-> Append(i, Tok(Hex)), str |-> <<>>]
    BY SqlSigns DEF Begun
  <2>4. i \o v = Append(Append(i, Tok(Hex)), Str(p.val))
    BY <1>1, <1>4, <1>5, <1>9, AppendTwo, ItemType
  <2>5. <<>> \o p.val = p.val
    BY <1>9
  <2>6. Partly(ReadsAll(b, l), p.val, Placed(m, t, v))
    BY <1>2, <2>1, <2>2, <2>3, <2>4, <2>5 DEF Partly
  <2> QED BY <1>9, <2>6
<1> HIDE DEF l, v
<1>10. \/ ~HasText(p) /\ \E w \in SqlWords : l = <<w>> /\ v = <<Tok(w)>>
       \/ ~HasText(p) /\ \E w \in SqlWords : l = <<Minus, w>> /\ v = <<Tok(Minus), Tok(w)>>
       \/ /\ HasText(p) /\ p.val \in Seq(SqlToken)
          /\ l = <<SqlQuote>> /\ v = <<Str(p.val)>>
       \/ /\ HasText(p) /\ p.val \in Seq(SqlToken)
          /\ l = <<Hex, SqlQuote>> /\ v = <<Tok(Hex), Str(p.val)>>
  BY LiteralForms DEF l, v
<1> QED BY <1>6, <1>7, <1>8, <1>9, <1>10

(* The types of a literal and a value, and of what they leave behind. *)
LEMMA LiteralType ==
  ASSUME NEW k, NEW p \in Param
  PROVE  /\ Literal(k, p) \in Seq(SqlToken) /\ Len(Literal(k, p)) \in {1, 2}
         /\ Value(k, p) \in Seq(Item) /\ Len(Value(k, p)) > 0
         /\ (IF HasText(p) THEN p.val ELSE <<>>) \in Seq(SqlToken)
<1>1. Hex \in SqlToken /\ Minus \in SqlToken /\ SqlQuote \in SqlToken
  BY BindAssumption DEF SqlToken
<1>2. \A w \in SqlWords : w \in SqlToken
  BY DEF SqlToken
<1>3. ASSUME NEW w \in SqlWords
      PROVE  /\ <<w>> \in Seq(SqlToken) /\ <<Minus, w>> \in Seq(SqlToken)
             /\ <<Tok(w)>> \in Seq(Item) /\ <<Tok(Minus), Tok(w)>> \in Seq(Item)
  BY <1>1, <1>2, ItemType
<1>4. <<SqlQuote>> \in Seq(SqlToken) /\ <<Hex, SqlQuote>> \in Seq(SqlToken)
  BY <1>1
<1>5. ASSUME p.val \in Seq(SqlToken)
      PROVE  <<Str(p.val)>> \in Seq(Item) /\ <<Tok(Hex), Str(p.val)>> \in Seq(Item)
  BY <1>1, <1>5, ItemType
<1>6. /\ \A a : Len(<<a>>) = 1
      /\ \A a, c : Len(<<a, c>>) = 2
  OBVIOUS
<1> DEFINE l == Literal(k, p)
           v == Value(k, p)
<1>7. CASE ~HasText(p) /\ \E w \in SqlWords : l = <<w>> /\ v = <<Tok(w)>>
  BY <1>3, <1>6, <1>7
<1>8. CASE ~HasText(p) /\ \E w \in SqlWords : l = <<Minus, w>> /\ v = <<Tok(Minus), Tok(w)>>
  BY <1>3, <1>6, <1>8
<1>9. CASE /\ HasText(p) /\ p.val \in Seq(SqlToken)
           /\ l = <<SqlQuote>> /\ v = <<Str(p.val)>>
  BY <1>4, <1>5, <1>6, <1>9
<1>10. CASE /\ HasText(p) /\ p.val \in Seq(SqlToken)
            /\ l = <<Hex, SqlQuote>> /\ v = <<Tok(Hex), Str(p.val)>>
  BY <1>4, <1>5, <1>6, <1>10
<1> QED BY <1>7, <1>8, <1>9, <1>10, LiteralForms

LEMMA PlacedType ==
  ASSUME NEW r \in Reader, NEW t \in SqlToken, NEW v \in Seq(Item)
  PROVE  Placed(r, t, v) \in Reader /\ Len(Placed(r, t, v).items) >= Len(r.items)
<1>1. Settled(r) \in Seq(Item) /\ Len(Settled(r)) >= Len(r.items) /\ Len(r.items) \in Nat
  BY SettledType DEF Reader
<1>2. /\ Settled(r) \o v \in Seq(Item)
      /\ Len(Settled(r) \o v) = Len(Settled(r)) + Len(v) /\ Len(v) \in Nat
  BY <1>1
<1>3. <<>> \in Seq(SqlToken)
  OBVIOUS
<1>4. CASE r.mode \in {"string", "comment"}
  BY <1>4, ReadsType DEF Placed
<1>5. CASE r.mode \notin {"string", "comment"}
  <2>1. Placed(r, t, v) = [mode |-> "code", items |-> Settled(r) \o v, str |-> <<>>]
    BY <1>5 DEF Placed
  <2> QED BY <1>1, <1>2, <1>3, <2>1 DEF Reader
<1> QED BY <1>4, <1>5

-----------------------------------------------------------------------------
(* Every step keeps the two readings alike.                                *)

LEMMA BindInvInit == BindInit => BindInv
<1> SUFFICES ASSUME BindInit PROVE BindInv
  OBVIOUS
<1>1. sql \in Seq(SqlToken) /\ params \in Seq(Param)
  BY BindAssumption DEF BindInit
<1>2. /\ pos \in 1 .. Len(sql) + 1 /\ next \in 0 .. Len(params)
      /\ filling \in BOOLEAN /\ meets \in BOOLEAN /\ apart \in BOOLEAN
      /\ rest \in Seq(SqlToken)
  <2>1. Len(sql) \in Nat /\ Len(params) \in Nat /\ <<>> \in Seq(SqlToken)
    BY <1>1
  <2>2. pos \in 1 .. Len(sql) + 1 /\ next \in 0 .. Len(params) /\ rest \in Seq(SqlToken)
    BY <2>1 DEF BindInit
  <2>3. filling \in BOOLEAN /\ meets \in BOOLEAN /\ apart \in BOOLEAN
    BY Zenon DEF BindInit
  <2> QED BY <2>2, <2>3
<1>3. bound \in Reader /\ meant \in Reader
  <2>1. <<>> \in Seq(Item) /\ <<>> \in Seq(SqlToken)
    OBVIOUS
  <2> QED BY <2>1 DEF BindInit, Reader
<1>4. InOrder
  <2>1. {j \in 1 .. pos - 1 : sql[j] = Mark} = {}
    BY DEF BindInit
  <2> QED BY <2>1, FS_EmptySet DEF InOrder, BindInit
<1>5. SameReading
  BY DEF SameReading, Agree, BindInit
<1> QED BY <1>1, <1>2, <1>3, <1>4, <1>5 DEF BindInv

(* One more mark among the first n tokens, or as many as before. *)
LEMMA CountMarks ==
  ASSUME NEW s, NEW n \in Nat \ {0}
  PROVE  LET marks(k) == {j \in 1 .. k : s[j] = Mark} IN
         /\ Cardinality(marks(n - 1)) \in Nat
         /\ Cardinality(marks(n)) = Cardinality(marks(n - 1)) + (IF s[n] = Mark THEN 1 ELSE 0)
<1> DEFINE marks(k) == {j \in 1 .. k : s[j] = Mark}
<1>1. IsFiniteSet(marks(n - 1)) /\ n \notin marks(n - 1)
  <2>1. IsFiniteSet(1 .. n - 1)
    BY FS_Interval
  <2>2. marks(n - 1) \subseteq 1 .. n - 1
    OBVIOUS
  <2> QED BY <2>1, <2>2, FS_Subset
<1>2. Cardinality(marks(n - 1)) \in Nat
  BY <1>1, FS_CardinalityType
<1>3. CASE s[n] = Mark
  <2>1. marks(n) = marks(n - 1) \cup {n}
    BY <1>3
  <2>2. Cardinality(marks(n - 1) \cup {n}) = Cardinality(marks(n - 1)) + 1
    BY <1>1, FS_AddElement
  <2> QED BY <1>2, <1>3, <2>1, <2>2
<1>4. CASE s[n] # Mark
  <2>1. marks(n) = marks(n - 1)
    BY <1>4
  <2> QED BY <1>2, <1>4, <2>1
<1> QED BY <1>2, <1>3, <1>4

LEMMA CopyKeeps == BindInv /\ Copy => BindInv'
<1> SUFFICES ASSUME BindInv, Copy PROVE BindInv'
  OBVIOUS
<1> DEFINE t == sql[pos]
<1>1. /\ t \in SqlToken /\ pos \in Nat \ {0} /\ pos' \in 1 .. Len(sql) + 1
      /\ Len(sql) \in Nat /\ Len(params) \in Nat
  BY ElementOfSeq, LenProperties DEF BindInv, Copy
<1>2. /\ Reads(bound, t) \in Reader /\ Len(Reads(bound, t).items) >= Len(bound.items)
      /\ Reads(meant, t) \in Reader /\ Len(Reads(meant, t).items) >= Len(meant.items)
  BY <1>1, ReadsType DEF BindInv
<1>3. InOrder'
  <2> SUFFICES ASSUME next < Len(params)
               PROVE  next = Cardinality({j \in 1 .. pos : sql[j] = Mark})
    BY <1>1 DEF Copy, InOrder
  <2>1. t # Mark
    <3> SUFFICES ASSUME t = Mark PROVE FALSE
      OBVIOUS
    <3>1. Chosen(t) \in 1 .. Len(params)
      BY <1>1 DEF Chosen, BindInv
    <3> QED BY <3>1 DEF Copy, Takes, Marks
  <2>2. next = Cardinality({j \in 1 .. pos - 1 : sql[j] = Mark})
    BY DEF BindInv, InOrder
  <2>3. /\ Cardinality({j \in 1 .. pos - 1 : sql[j] = Mark}) \in Nat
        /\ Cardinality({j \in 1 .. pos : sql[j] = Mark}) =
             Cardinality({j \in 1 .. pos - 1 : sql[j] = Mark}) + 0
    BY <1>1, <2>1, CountMarks
  <2> QED BY <2>2, <2>3
<1>4. SameReading'
  <2> SUFFICES ASSUME apart, ~(t = SqlQuote /\ bound.mode = "closed" /\ meant.mode # "closed")
               PROVE  IF meets THEN Lost(bound', meant') ELSE Agree(bound', meant')
    BY DEF Copy, SameReading
  <2>1. bound' = Reads(bound, t) /\ meant' = Reads(meant, t) /\ ~filling
    BY DEF Copy
  <2>2. CASE meets
    <3>1. Lost(bound, meant)
      BY <2>2 DEF BindInv, SameReading
    <3>2. bound' = bound
      BY <2>1, <3>1 DEF Lost, Reads
    <3>3. Len(bound.items) \in Nat /\ Len(meant.items) \in Nat /\ Len(meant'.items) \in Nat
      BY <1>2, <2>1 DEF BindInv, Reader
    <3> QED BY <1>2, <2>1, <2>2, <3>1, <3>2, <3>3 DEF Lost
  <2>3. CASE ~meets
    <3>1. Agree(bound, meant)
      BY <2>1, <2>3 DEF BindInv, SameReading
    <3>2. CASE bound = meant
      BY <2>1, <2>3, <3>2 DEF Agree
    <3>3. CASE /\ bound.mode = "closed"
               /\ meant = [mode |-> "code", items |-> Append(bound.items, Str(bound.str)),
                           str |-> <<>>]
      <4>1. meant.mode = "code" /\ meant.items = Append(bound.items, Str(bound.str))
        BY <3>3
      <4>2. Reads(bound, t) = Begun(Settled(bound), t) /\ Reads(meant, t) = Begun(Settled(meant), t)
        BY <3>3, <4>1, ReadsBegins
      <4>3. Settled(bound) = Settled(meant)
        BY <3>3, <4>1 DEF Settled
      <4> QED BY <2>1, <2>3, <4>2, <4>3 DEF Agree
    <3> QED BY <3>1, <3>2, <3>3 DEF Agree
  <2> QED BY <2>2, <2>3
<1> QED BY <1>1, <1>2, <1>3, <1>4 DEF BindInv, Copy

(* The parameter a mark takes is the one it is meant to take. *)
LEMMA ChosenAsMeant ==
  ASSUME BindInv, pos <= Len(sql), Takes(sql[pos])
  PROVE  /\ Chosen(sql[pos]) = MeantBy(sql[pos]) /\ params[Chosen(sql[pos])] \in Param
         /\ sql[pos] = Mark => next < Len(params) /\ MeantBy(sql[pos]) = next + 1
<1>1. Chosen(sql[pos]) \in 1 .. Len(params) /\ params \in Seq(Param)
  BY DEF Takes, BindInv
<1>2. params[Chosen(sql[pos])] \in Param
  BY <1>1, ElementOfSeq
<1>3. CASE sql[pos] = Mark
  <2>1. next < Len(params) /\ pos \in Nat \ {0} /\ next \in Nat /\ Len(params) \in Nat
    BY <1>1, <1>3, LenProperties DEF Chosen, BindInv
  <2>2. next = Cardinality({j \in 1 .. pos - 1 : sql[j] = Mark})
    BY <2>1 DEF BindInv, InOrder
  <2>3. MeantBy(sql[pos]) = next + 1
    BY <1>3, <2>1, <2>2, CountMarks DEF MeantBy
  <2> QED BY <1>2, <1>3, <2>1, <2>3 DEF Chosen
<1>4. CASE sql[pos] # Mark
  BY <1>2, <1>4 DEF Chosen, MeantBy
<1> QED BY <1>3, <1>4

LEMMA SubstituteKeeps == BindInv /\ Substitute => BindInv'
<1> SUFFICES ASSUME BindInv, Substitute PROVE BindInv'
  OBVIOUS
<1> DEFINE t == sql[pos]
           p == params[Chosen(t)]
           l == Literal(kind, p)
           v == Value(kind, p)
<1>1. /\ t \in SqlToken /\ pos \in Nat \ {0} /\ pos' \in 1 .. Len(sql) + 1
      /\ Len(sql) \in Nat /\ Len(params) \in Nat /\ next \in 0 .. Len(params)
  BY ElementOfSeq, LenProperties DEF BindInv, Substitute
<1>2. /\ Chosen(t) = MeantBy(t) /\ p \in Param
      /\ t = Mark => next < Len(params) /\ MeantBy(t) = next + 1
  BY ChosenAsMeant DEF Substitute
<1>3. /\ l \in Seq(SqlToken) /\ Len(l) \in {1, 2} /\ v \in Seq(Item) /\ Len(v) > 0
      /\ (IF HasText(p) THEN p.val ELSE <<>>) \in Seq(SqlToken)
  BY <1>2, LiteralType
<1>4. /\ bound' = ReadsAll(bound, l) /\ meant' = Placed(meant, t, v)
      /\ filling' = HasText(p) /\ rest' = (IF HasText(p) THEN p.val ELSE <<>>)
      /\ meets' = (meets \/ (bound.mode = "minus" /\ l[1] = Minus))
      /\ apart' = (apart /\ Apart(l)) /\ ~filling
      /\ next' = (IF t = Mark THEN next + 1 ELSE next) /\ pos' = pos + 1
      /\ sql' = sql /\ params' = params
  BY <1>2 DEF Substitute
<1>5. bound' \in Reader /\ meant' \in Reader /\ Len(meant'.items) >= Len(meant.items)
  BY <1>1, <1>3, <1>4, ReadsAllType, PlacedType DEF BindInv
<1>6. InOrder'
  <2> SUFFICES ASSUME next' < Len(params)
               PROVE  next' = Cardinality({j \in 1 .. pos : sql[j] = Mark})
    <3>1. pos' - 1 = pos
      BY <1>1, <1>4
    <3> QED BY <1>4, <3>1 DEF InOrder
  <2>1. CASE t = Mark
    BY <1>2, <1>4, <2>1 DEF MeantBy
  <2>2. CASE t # Mark
    <3>1. next' = next /\ next = Cardinality({j \in 1 .. pos - 1 : sql[j] = Mark})
      BY <1>4, <2>2 DEF BindInv, InOrder
    <3>2. /\ Cardinality({j \in 1 .. pos - 1 : sql[j] = Mark}) \in Nat
          /\ Cardinality({j \in 1 .. pos : sql[j] = Mark}) =
               Cardinality({j \in 1 .. pos - 1 : sql[j] = Mark}) + 0
      BY <1>1, <2>2, CountMarks
    <3> QED BY <3>1, <3>2
  <2> QED BY <2>1, <2>2
<1>7. SameReading'
  <2> SUFFICES ASSUME apart, Apart(l)
               PROVE  IF meets' THEN Lost(bound', meant')
                      ELSE IF filling' THEN Partly(bound', rest', meant') ELSE Agree(bound', meant')
    BY <1>4 DEF SameReading
  <2> HIDE DEF t, p, l, v
  <2>1. /\ Len(bound.items) \in Nat /\ Len(meant.items) \in Nat /\ Len(meant'.items) \in Nat
        /\ bound \in Reader /\ meant \in Reader
    BY <1>5 DEF BindInv, Reader
  <2>2. CASE meets
    <3>1. Lost(bound, meant)
      BY <2>2 DEF BindInv, SameReading
    <3>2. bound' = bound
      BY <1>4, <3>1 DEF Lost, Reads, ReadsAll
    <3>3. Lost(bound', meant')
      BY <1>5, <2>1, <3>1, <3>2 DEF Lost
    <3>4. meets'
      BY <1>4, <2>2
    <3> QED BY <3>3, <3>4
  <2>3. CASE ~meets /\ bound.mode = "minus" /\ l[1] = Minus
    <3>1. Agree(bound, meant)
      BY <1>4, <2>3 DEF BindInv, SameReading
    <3>2. bound = meant
      BY <2>3, <3>1 DEF Agree
    <3>3. bound' = [bound EXCEPT !.mode = "comment"]
      <4>1. Reads(bound, l[1]) = [bound EXCEPT !.mode = "comment"]
        BY <2>3 DEF Reads
      <4>2. \A x : Reads([bound EXCEPT !.mode = "comment"], x) = [bound EXCEPT !.mode = "comment"]
        BY <2>1 DEF Reads, Reader
      <4> QED BY <1>4, <4>1, <4>2 DEF ReadsAll
    <3>4. meant' = [mode |-> "code", items |-> Settled(meant) \o v, str |-> <<>>]
      BY <1>4, <2>3, <3>2 DEF Placed
    <3>5. Len(Settled(meant) \o v) > Len(meant.items)
      <4>1. /\ Settled(meant) \in Seq(Item) /\ Len(Settled(meant)) >= Len(meant.items)
            /\ Len(Settled(meant)) \in Nat /\ Len(v) \in Nat
        BY <1>3, <2>1, SettledType
      <4>2. Len(Settled(meant) \o v) = Len(Settled(meant)) + Len(v)
        BY <1>3, <4>1
      <4> QED BY <1>3, <2>1, <4>1, <4>2
    <3>6. bound'.mode = "comment" /\ bound'.items = meant.items
      BY <2>1, <3>2, <3>3 DEF Reader
    <3>7. meant'.items = Settled(meant) \o v
      BY <3>4
    <3> QED BY <1>4, <2>1, <2>3, <3>5, <3>6, <3>7 DEF Lost
  <2>4. CASE ~meets /\ ~(bound.mode = "minus" /\ l[1] = Minus)
    <3>1. Agree(bound, meant)
      BY <1>4, <2>4 DEF BindInv, SameReading
    <3>2. meant.mode \notin {"string", "comment"} /\ ~(bound.mode = "closed" /\ l[1] = SqlQuote)
      BY DEF Apart
    <3>3. IF HasText(p) THEN Partly(bound', p.val, meant') ELSE bound' = meant'
      BY <1>2, <1>4, <2>1, <2>4, <3>1, <3>2, SubstituteAgrees DEF l, v
    <3> QED BY <1>4, <2>4, <3>3 DEF Agree
  <2> QED BY <2>2, <2>3, <2>4
<1>8. next' \in 0 .. Len(params)
  BY <1>1, <1>2, <1>4
<1>9. HasText(p) \in BOOLEAN /\ (bound.mode = "minus" /\ l[1] = Minus) \in BOOLEAN /\ Apart(l) \in BOOLEAN
  BY DEF HasText, Apart
<1> HIDE DEF t, p, l, v
<1> QED BY <1>1, <1>3, <1>4, <1>5, <1>6, <1>7, <1>8, <1>9 DEF BindInv

LEMMA FillKeeps == BindInv /\ Fill => BindInv'
<1> SUFFICES ASSUME BindInv, Fill PROVE BindInv'
  OBVIOUS
<1> DEFINE c == Head(rest)
           s == Append(bound.str, c)
<1>1. /\ bound \in Reader /\ bound.str \in Seq(SqlToken) /\ bound.items \in Seq(Item)
      /\ rest \in Seq(SqlToken) /\ rest # <<>>
  BY DEF BindInv, Reader, Fill
<1>2. c \in SqlToken /\ Tail(rest) \in Seq(SqlToken) /\ s \o Tail(rest) = bound.str \o rest
  BY <1>1, MoveOne
<1>3. /\ bound' = ReadsAll(bound, Doubled(c)) /\ rest' = Tail(rest) /\ filling
      /\ UNCHANGED <<kind, sql, params, pos, next, filling, meant, meets, apart>>
  BY DEF Fill
<1>4. Doubled(c) \in Seq(SqlToken) /\ Len(Doubled(c)) \in {1, 2}
  <2>1. Doubled(c) = <<c>> \/ Doubled(c) = <<c, c>>
    BY DEF Doubled
  <2>2. <<c>> \in Seq(SqlToken) /\ <<c, c>> \in Seq(SqlToken) /\ Len(<<c>>) = 1 /\ Len(<<c, c>>) = 2
    BY <1>2
  <2> QED BY <2>1, <2>2
<1>5. bound' \in Reader
  BY <1>1, <1>3, <1>4, ReadsAllType
<1> HIDE DEF c, s
<1>6. SameReading'
  <2> SUFFICES ASSUME apart
               PROVE  IF meets THEN Lost(bound', meant) ELSE Partly(bound', rest', meant)
    BY <1>3 DEF SameReading
  <2>1. CASE meets
    <3>1. Lost(bound, meant)
      BY <2>1 DEF BindInv, SameReading
    <3>2. bound' = bound
      BY <1>3, <3>1 DEF Lost, Reads, ReadsAll
    <3> QED BY <2>1, <3>1, <3>2
  <2>2. CASE ~meets
    <3>1. Partly(bound, rest, meant)
      BY <1>3, <2>2 DEF BindInv, SameReading
    <3>2. bound'.mode = "string" /\ bound'.items = bound.items /\ bound'.str = s
      <4>1. CASE c # SqlQuote
        <5>1. Doubled(c) = <<c>>
          BY <4>1 DEF Doubled
        <5>2. bound' = Reads(bound, c)
          BY <1>3, <5>1 DEF ReadsAll
        <5>3. bound' = [bound EXCEPT !.str = s]
          BY <3>1, <4>1, <5>2 DEF Reads, Partly, s
        <5> QED BY <1>1, <3>1, <5>3 DEF Reader, Partly
      <4>2. CASE c = SqlQuote
        <5> DEFINE d == [bound EXCEPT !.mode = "closed"]
        <5>1. Doubled(c) = <<c, c>>
          BY <4>2 DEF Doubled
        <5>2. bound' = Reads(Reads(bound, c), c)
          BY <1>3, <5>1 DEF ReadsAll
        <5>3. Reads(bound, c) = d
          BY <3>1, <4>2 DEF Reads, Partly
        <5>4. d \in Reader /\ d.mode = "closed" /\ d.items = bound.items /\ d.str = bound.str
          BY <1>1 DEF Reader
        <5> HIDE DEF d
        <5>5. Reads(d, c) = [d EXCEPT !.mode = "string", !.str = s]
          BY <4>2, <5>4 DEF Reads, s
        <5> QED BY <5>2, <5>3, <5>4, <5>5 DEF Reader
      <4> QED BY <4>1, <4>2
    <3> QED BY <1>2, <1>3, <2>2, <3>1, <3>2 DEF Partly
  <2> QED BY <2>1, <2>2
<1>7. InOrder'
  BY <1>3 DEF BindInv, InOrder
<1> QED BY <1>2, <1>3, <1>5, <1>6, <1>7 DEF BindInv

LEMMA CloseKeeps == BindInv /\ Close => BindInv'
<1> SUFFICES ASSUME BindInv, Close PROVE BindInv'
  OBVIOUS
<1>1. /\ bound' = Reads(bound, SqlQuote) /\ filling /\ rest = <<>> /\ filling' = FALSE
      /\ UNCHANGED <<kind, sql, params, pos, next, rest, meant, meets, apart>>
  BY DEF Close
<1>2. bound \in Reader /\ bound.str \in Seq(SqlToken) /\ SqlQuote \in SqlToken
  BY DEF BindInv, Reader, SqlToken
<1>3. bound' \in Reader
  BY <1>1, <1>2, ReadsType
<1>4. SameReading'
  <2> SUFFICES ASSUME apart
               PROVE  IF meets THEN Lost(bound', meant) ELSE Agree(bound', meant)
    BY <1>1 DEF SameReading
  <2>1. CASE meets
    <3>1. Lost(bound, meant)
      BY <2>1 DEF BindInv, SameReading
    <3>2. bound' = bound
      BY <1>1, <3>1 DEF Lost, Reads
    <3> QED BY <2>1, <3>1, <3>2
  <2>2. CASE ~meets
    <3>1. Partly(bound, rest, meant)
      BY <1>1, <2>2 DEF BindInv, SameReading
    <3>2. bound' = [bound EXCEPT !.mode = "closed"]
      BY <1>1, <3>1 DEF Reads, Partly
    <3>3. bound'.mode = "closed" /\ bound'.items = bound.items /\ bound'.str = bound.str
      BY <1>2, <3>2 DEF Reader
    <3>4. bound.str \o rest = bound.str
      BY <1>1, <1>2
    <3> QED BY <2>2, <3>1, <3>3, <3>4 DEF Agree, Partly
  <2> QED BY <2>1, <2>2
<1>5. InOrder'
  BY <1>1 DEF BindInv, InOrder
<1> QED BY <1>1, <1>3, <1>4, <1>5 DEF BindInv

LEMMA BindInvariant == BindSpec => []BindInv
<1>1. BindInv /\ [BindNext]_bindVars => BindInv'
  <2> SUFFICES ASSUME BindInv, [BindNext]_bindVars PROVE BindInv'
    OBVIOUS
  <2>1. CASE UNCHANGED bindVars
    BY <2>1 DEF bindVars, BindInv, InOrder, SameReading
  <2> QED BY <2>1, CopyKeeps, SubstituteKeeps, FillKeeps, CloseKeeps DEF BindNext
<1> QED BY <1>1, BindInvInit, PTL DEF BindSpec

(* A value is read as it was passed, whatever is in it, and so is the SQL  *)
(* around it, unless a negative number follows a minus sign; then it never *)
(* is (BoundExactly; client.rs 91-141).                                    *)
THEOREM BoundRight == BindSpec => []BoundExactly
<1>1. BindInv => BoundExactly
  <2> SUFFICES ASSUME BindInv, ~filling, apart PROVE Final(bound) = Final(meant) <=> ~meets
    BY DEF BoundExactly
  <2>1. bound \in Reader /\ meant \in Reader
    BY DEF BindInv
  <2>2. CASE meets
    <3>1. Lost(bound, meant)
      BY <2>2 DEF BindInv, SameReading
    <3>2. Final(bound) = bound.items
      BY <3>1 DEF Lost, Final, Settled
    <3>3. Len(Final(meant)) >= Len(meant.items)
      <4>1. CASE meant.mode = "string"
        BY <2>1, <4>1 DEF Final, Reader
      <4>2. CASE meant.mode # "string"
        BY <2>1, <4>2, SettledType DEF Final
      <4> QED BY <4>1, <4>2
    <3>4. Len(bound.items) \in Nat /\ Len(meant.items) \in Nat
      BY <2>1 DEF Reader
    <3> QED BY <2>2, <3>1, <3>2, <3>3, <3>4 DEF Lost
  <2>3. CASE ~meets
    <3>1. Agree(bound, meant)
      BY <2>3 DEF BindInv, SameReading
    <3>2. CASE bound = meant
      BY <2>3, <3>2
    <3>3. CASE /\ bound.mode = "closed"
               /\ meant = [mode |-> "code", items |-> Append(bound.items, Str(bound.str)),
                           str |-> <<>>]
      <4>1. meant.mode = "code" /\ meant.items = Append(bound.items, Str(bound.str))
        BY <3>3
      <4> QED BY <2>3, <3>3, <4>1 DEF Final, Settled
    <3> QED BY <3>1, <3>2, <3>3 DEF Agree
  <2> QED BY <2>2, <2>3
<1> QED BY <1>1, BindInvariant, PTL
=============================================================================
