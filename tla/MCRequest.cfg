\* Files, directories and links; names that do not end in a separator.  Both
\* clients, up to three marks and two parameters.  Every kind of key and
\* values of up to four tokens.  One or two columns in either order or of one
\* name, up to two rows of every kind of value.  Texts and results end.
CONSTANTS
  Entries <- MCEntries
  LinkTo <- A
  Names <- NoTrailing
  Layouts <- AnyLayout
  Kinds = {"rust", "python"}
  SqlWords <- MCSqlWords
  Index <- MCIndex
  Templates <- MCTemplates
  ParamLists <- MCParams
  Words <- MCWords
  Numbers = {"12"}
  Requests <- MCRequests
  Nibble = 2
  Digits <- MCDigits
  Selects <- MCSelects
  Cells <- MCCells
  MaxRows = 2
SPECIFICATION AllSpec
INVARIANTS BoundExactly NeverAltered    NoPartialResult  ScalarOfDistinct
CHECK_DEADLOCK FALSE
