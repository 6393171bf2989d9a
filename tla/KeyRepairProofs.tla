-------------------------- MODULE KeyRepairProofs --------------------------
(***************************************************************************)
(* Theorems about KeyRepair: the repair never alters a request and costs   *)
(* only those their acceptance that have a word before a colon in a value, *)
(* for every vocabulary, any number of members and values of any length.   *)
(***************************************************************************)
EXTENDS KeyRepair, SequenceTheorems, TLAPS

(* The tokens are different from each other. *)
LEMMA Tokens ==
  /\ \A w \in Words : w \notin {DQ, SQ, Esc, Colon, Comma, Opening, Closing, Space}
  /\ SQ # DQ /\ Esc # DQ /\ Esc # SQ
  /\ \A q \in {DQ, SQ, Esc} : q \notin {Colon, Comma, Opening, Closing, Space, "bare"}
  /\ Colon \notin {Comma, Closing, Space} /\ Comma \notin {Closing, Space}
  /\ Closing # Space /\ Opening # Space
BY VocabularyAssumption
  DEF Signs, Quotes, DQ, SQ, Esc, Colon, Comma, Opening, Closing, Space

-----------------------------------------------------------------------------
(* The parser.                                                             *)

(* There is nothing to skip where there is no space. *)
LEMMA SkipNothing ==
  ASSUME NEW t \in Seq(Token), NEW n \in Nat, Len(t) = n, NEW i \in 1 .. n + 1, i <= n => t[i] # Space
  PROVE  SkipSpaces(t, i) = i
<1> DEFINE P(j) == /\ j <= Len(t) => t[j] # Space
                   /\ \A k \in i .. j - 1 : t[k] = Space
<1>1. i \in i .. Len(t) + 1 /\ P(i)
  OBVIOUS
<1>2. ASSUME NEW j \in i .. Len(t) + 1, P(j) PROVE j = i
  <2> SUFFICES ASSUME j > i PROVE FALSE
    OBVIOUS
  <2>1. i \in i .. j - 1 /\ i <= n
    OBVIOUS
  <2> QED BY <1>2, <2>1
<1>3. SkipSpaces(t, i) = CHOOSE j \in i .. Len(t) + 1 : P(j)
  BY DEF SkipSpaces
<1> HIDE DEF P
<1> QED BY <1>1, <1>2, <1>3

(* A string ends at the first double quote. *)
LEMMA EndOfString ==
  ASSUME NEW t \in Seq(Token), NEW n \in Nat, Len(t) = n, NEW i \in 1 .. n, NEW e \in i + 1 .. n,
         t[i] = DQ, t[e] = DQ, \A k \in i + 1 .. e - 1 : t[k] # DQ
  PROVE  StringEnd(t, i) = e
<1>1. IsString(t, i, e)
  BY DEF IsString
<1>2. ASSUME NEW f \in i + 1 .. Len(t), IsString(t, i, f) PROVE f = e
  <2>1. t[f] = DQ /\ \A k \in i + 1 .. f - 1 : t[k] # DQ
    BY <1>2 DEF IsString
  <2>2. CASE f < e
    BY <2>1, <2>2
  <2>3. CASE e < f
    BY <2>1, <2>3
  <2> QED BY <2>2, <2>3
<1>3. e \in i + 1 .. Len(t)
  OBVIOUS
<1> DEFINE C == CHOOSE f \in i + 1 .. Len(t) : IsString(t, i, f)
<1>4. C = e
  BY <1>1, <1>2, <1>3
<1> HIDE DEF C
<1> QED BY <1>1, <1>3, <1>4 DEF StringEnd, C

LEMMA NoString ==
  ASSUME NEW t, NEW i, t[i] # DQ
  PROVE  StringEnd(t, i) = 0
BY DEF StringEnd, IsString

-----------------------------------------------------------------------------
(* Where the tokens of a member are: of its key in the quotes q, of the    *)
(* colon and of its value, after p tokens.                                 *)

KeySize(q) == IF q = "bare" THEN 1 ELSE 3
Size(q, m) == KeySize(q) + Len(m.value) + 3

KeyHeld(T, p, q, w) ==
  /\ IF q = "bare" THEN T[p + 1] = w ELSE T[p + 1] = q /\ T[p + 2] = w /\ T[p + 3] = q
  /\ T[p + KeySize(q) + 1] = Colon

ValueHeld(T, p, v) ==
  /\ T[p + 1] = DQ /\ T[p + Len(v) + 2] = DQ
  /\ \A j \in 1 .. Len(v) : T[p + 1 + j] = v[j]

MemberHeld(T, p, q, m) ==
  KeyHeld(T, p, q, m.key) /\ ValueHeld(T, p + KeySize(q) + 1, m.value)

(* What is to be parsed of it. *)
Wrote(m) == [key |-> <<m.key>>, value |-> <<DQ>> \o m.value \o <<DQ>>]

LEMMA MemberType ==
  ASSUME NEW m \in Member
  PROVE  /\ m.form \in {"bare", DQ, SQ} /\ m.key \in Words /\ m.value \in Seq(Token \ {DQ})
         /\ Len(m.value) \in Nat
         /\ \A j \in 1 .. Len(m.value) : m.value[j] \in Token /\ m.value[j] # DQ
<1>1. m.form \in {"bare", DQ, SQ} /\ m.key \in Words /\ m.value \in Seq(Token \ {DQ})
  BY DEF Member
<1>2. Len(m.value) \in Nat /\ \A j \in 1 .. Len(m.value) : m.value[j] \in Token \ {DQ}
  BY <1>1, LenProperties, ElementOfSeq
<1> QED BY <1>1, <1>2

(* What the parser finds of a key in double quotes and of what follows it. *)
LEMMA AfterKey ==
  ASSUME NEW T \in Seq(Token), NEW n \in Nat, Len(T) = n, NEW p \in Nat, NEW w \in Words,
         p + 5 <= n, KeyHeld(T, p, DQ, w), T[p + 5] = DQ
  PROVE  /\ SkipSpaces(T, p + 1) = p + 1 /\ StringEnd(T, p + 1) = p + 3
         /\ SkipSpaces(T, p + 4) = p + 4 /\ TokenIn(T, p + 4, {Colon})
         /\ SkipSpaces(T, p + 5) = p + 5 /\ ValueEnd(T, p + 5) = StringEnd(T, p + 5)
<1>1. T[p + 1] = DQ /\ T[p + 2] = w /\ T[p + 3] = DQ /\ T[p + 4] = Colon
  <2>1. KeySize(DQ) = 3 /\ DQ # "bare"
    BY Tokens DEF KeySize
  <2>2. p + 3 + 1 = p + 4
    OBVIOUS
  <2> QED BY <2>1, <2>2 DEF KeyHeld
<1>2. DQ # Space /\ w # DQ /\ Colon # Space /\ DQ \notin Numbers
  BY Tokens, VocabularyAssumption
<1>3. SkipSpaces(T, p + 1) = p + 1
  BY <1>1, <1>2, SkipNothing
<1>4. StringEnd(T, p + 1) = p + 3
  <2>1. \A k \in (p + 1) + 1 .. (p + 3) - 1 : T[k] # DQ
    <3>1. \A k \in (p + 1) + 1 .. (p + 3) - 1 : k = p + 2
      OBVIOUS
    <3> QED BY <1>1, <1>2, <3>1
  <2> QED BY <1>1, <2>1, EndOfString
<1>5. SkipSpaces(T, p + 4) = p + 4
  BY <1>1, <1>2, SkipNothing
<1>6. SkipSpaces(T, p + 5) = p + 5
  BY <1>2, SkipNothing
<1>7. ValueEnd(T, p + 5) = StringEnd(T, p + 5)
  BY <1>2 DEF ValueEnd, TokenIn
<1>8. TokenIn(T, p + 4, {Colon})
  BY <1>1 DEF TokenIn
<1> QED BY <1>3, <1>4, <1>5, <1>6, <1>7, <1>8

(* The member whose value ends at the double quote at e. *)
LEMMA FoundMember ==
  ASSUME NEW T \in Seq(Token), NEW n \in Nat, Len(T) = n, NEW p \in Nat, NEW w \in Words,
         KeyHeld(T, p, DQ, w), T[p + 5] = DQ, NEW e \in p + 6 .. n - 1, T[e] = DQ,
         \A k \in p + 6 .. e - 1 : T[k] # DQ, T[e + 1] # Space
  PROVE  MemberAt(T, p + 1) = [sign |-> e + 1, key |-> SubSeq(T, p + 2, p + 2),
                               value |-> SubSeq(T, p + 5, e)]
<1>1. /\ SkipSpaces(T, p + 1) = p + 1 /\ StringEnd(T, p + 1) = p + 3
      /\ SkipSpaces(T, p + 4) = p + 4 /\ TokenIn(T, p + 4, {Colon})
      /\ SkipSpaces(T, p + 5) = p + 5 /\ ValueEnd(T, p + 5) = StringEnd(T, p + 5)
  <2>1. p + 5 <= n
    OBVIOUS
  <2> QED BY <2>1, AfterKey
<1>2. StringEnd(T, p + 5) = e
  <2>1. \A k \in (p + 5) + 1 .. e - 1 : T[k] # DQ
    OBVIOUS
  <2> QED BY <2>1, EndOfString
<1>3. SkipSpaces(T, e + 1) = e + 1
  BY SkipNothing
<1>4. (p + 3) + 1 = p + 4 /\ (p + 4) + 1 = p + 5 /\ (p + 1) + 1 = p + 2
      /\ (p + 3) - 1 = p + 2 /\ p + 3 > 0 /\ e > 0
  OBVIOUS
<1> QED BY <1>1, <1>2, <1>3, <1>4, Zenon DEF MemberAt

(* A part of one token. *)
LEMMA OneToken ==
  ASSUME NEW T \in Seq(Token), NEW i \in 1 .. Len(T)
  PROVE  SubSeq(T, i, i) = <<T[i]>>
<1>1. Len(T) \in Nat /\ \A j \in 1 .. Len(T) : T[j] \in Token
  BY LenProperties, ElementOfSeq
<1>2. /\ SubSeq(T, i, i) \in Seq(Token)
      /\ Len(SubSeq(T, i, i)) = IF i <= i THEN i - i + 1 ELSE 0
      /\ \A j \in 1 .. i - i + 1 : SubSeq(T, i, i)[j] = T[i + j - 1]
  BY <1>1, SubSeqProperties
<1> DEFINE a == SubSeq(T, i, i)
<1>3. a \in Seq(Token) /\ Len(a) = 1 /\ a[1] = T[i]
  <2>1. i - i + 1 = 1 /\ i + 1 - 1 = i /\ 1 \in 1 .. 1
    BY <1>1
  <2> HIDE DEF a
  <2> QED BY <1>2, <2>1 DEF a
<1> HIDE DEF a
<1>4. <<T[i]>> \in Seq(Token) /\ Len(<<T[i]>>) = 1 /\ <<T[i]>>[1] = T[i]
  BY <1>1
<1>5. a = <<T[i]>>
  BY <1>3, <1>4, SeqEqual
<1> QED BY <1>5 DEF a

(* A whole member, followed by its sign, is parsed as it was written. *)
LEMMA WholeMember ==
  ASSUME NEW T \in Seq(Token), NEW n \in Nat, Len(T) = n, NEW p \in Nat,
         NEW m \in Member, MemberHeld(T, p, DQ, m),
         NEW s \in 1 .. n, s = p + Size(DQ, m) + 1, T[s] \in {Comma, Closing}
  PROVE  MemberAt(T, p + 1) = [sign |-> s, key |-> <<m.key>>,
                               value |-> <<DQ>> \o m.value \o <<DQ>>]
<1> DEFINE v == m.value
           L == Len(m.value)
<1>1. /\ m.key \in Words /\ v \in Seq(Token \ {DQ}) /\ L \in Nat
      /\ \A j \in 1 .. L : v[j] \in Token /\ v[j] # DQ
  BY MemberType
<1>2. KeySize(DQ) = 3 /\ DQ # "bare" /\ s = p + L + 7
  <2>1. KeySize(DQ) = 3 /\ DQ # "bare"
    BY Tokens DEF KeySize
  <2> QED BY <1>1, <2>1 DEF Size
<1>3. ValueHeld(T, p + 4, v) /\ KeyHeld(T, p, DQ, m.key)
  <2>1. p + 3 + 1 = p + 4
    OBVIOUS
  <2> QED BY <1>2, <2>1 DEF MemberHeld
<1> HIDE DEF v, L
<1>4. /\ T[p + 5] = DQ /\ T[p + L + 6] = DQ
      /\ \A j \in 1 .. L : T[p + 5 + j] = v[j]
  <2>1. /\ T[p + 4 + 1] = DQ /\ T[p + 4 + L + 2] = DQ
        /\ \A j \in 1 .. L : T[p + 4 + 1 + j] = v[j]
    BY <1>3 DEF ValueHeld, v, L
  <2>2. p + 4 + 1 = p + 5 /\ p + 4 + L + 2 = p + L + 6
    BY <1>1
  <2> QED BY <2>1, <2>2
<1>5. ASSUME NEW k \in p + 6 .. p + L + 5 PROVE T[k] # DQ
  <2>1. k - (p + 5) \in 1 .. L /\ p + 5 + (k - (p + 5)) = k
    BY <1>1
  <2> QED BY <1>1, <1>4, <2>1
<1>6. T[p + 2] = m.key
  BY <1>2, <1>3 DEF KeyHeld
<1> DEFINE e == p + L + 6
<1>7. e \in p + 6 .. n - 1 /\ e - 1 = p + L + 5 /\ e + 1 = s
  BY <1>1, <1>2
<1>8. T[s] # Space
  BY Tokens
<1>9. MemberAt(T, p + 1) = [sign |-> e + 1, key |-> SubSeq(T, p + 2, p + 2),
                            value |-> SubSeq(T, p + 5, e)]
  <2>1. T[e] = DQ /\ T[e + 1] # Space /\ \A k \in p + 6 .. e - 1 : T[k] # DQ
    BY <1>4, <1>5, <1>7, <1>8
  <2> HIDE DEF e
  <2> QED BY <1>1, <1>3, <1>4, <1>7, <2>1, FoundMember
<1>10. SubSeq(T, p + 2, p + 2) = <<m.key>>
  <2>1. p + 2 \in 1 .. n
    BY <1>7
  <2> QED BY <1>6, <2>1, OneToken
<1>11. SubSeq(T, p + 5, e) = <<DQ>> \o v \o <<DQ>>
  <2> DEFINE a == SubSeq(T, p + 5, e)
             b == <<DQ>> \o v \o <<DQ>>
  <2>1. /\ a \in Seq(Token) /\ Len(a) = L + 2
        /\ \A i \in 1 .. L + 2 : a[i] = T[p + 4 + i]
    <3>1. p + 5 \in 1 .. n /\ e \in p + 5 .. n
      BY <1>7
    <3>2. \A i \in 1 .. n : T[i] \in Token
      BY ElementOfSeq
    <3>3. /\ a \in Seq(Token) /\ Len(a) = IF p + 5 <= e THEN e - (p + 5) + 1 ELSE 0
          /\ \A i \in 1 .. e - (p + 5) + 1 : a[i] = T[p + 5 + i - 1]
      BY <3>1, <3>2, SubSeqProperties
    <3>4. e - (p + 5) + 1 = L + 2 /\ p + 5 <= e
      BY <1>1
    <3>5. \A i \in 1 .. L + 2 : p + 5 + i - 1 = p + 4 + i
      OBVIOUS
    <3> HIDE DEF a, e
    <3> QED BY <3>3, <3>4, <3>5
  <2>2. /\ b \in Seq(Token) /\ Len(b) = L + 2 /\ b[1] = DQ /\ b[L + 2] = DQ
        /\ \A j \in 1 .. L : b[j + 1] = v[j]
    <3>1. v \in Seq(Token) /\ Len(v) = L /\ DQ \in Token
      BY <1>1 DEF v, L, Token, Signs, Quotes
    <3> QED BY <1>1, <3>1
  <2> HIDE DEF a, b, e
  <2>3. ASSUME NEW i \in 1 .. L + 2 PROVE a[i] = b[i]
    <3>1. CASE i = 1
      <4>1. p + 4 + i = p + 5
        BY <3>1
      <4> QED BY <1>4, <2>1, <2>2, <3>1, <4>1
    <3>2. CASE i = L + 2
      <4>1. p + 4 + i = p + L + 6
        BY <1>1, <3>2
      <4> QED BY <1>4, <2>1, <2>2, <3>2, <4>1
    <3>3. CASE i # 1 /\ i # L + 2
      <4>1. i - 1 \in 1 .. L /\ (i - 1) + 1 = i /\ p + 5 + (i - 1) = p + 4 + i
        BY <1>1, <3>3
      <4>2. T[p + 5 + (i - 1)] = v[i - 1] /\ b[(i - 1) + 1] = v[i - 1]
        BY <1>4, <2>2, <4>1
      <4> QED BY <2>1, <4>1, <4>2
    <3> QED BY <3>1, <3>2, <3>3
  <2>4. a = b
    BY <1>1, <2>1, <2>2, <2>3, SeqEqual
  <2> QED BY <2>4 DEF a, b
<1> QED BY <1>7, <1>9, <1>10, <1>11 DEF v

(* It parses, as one of several or as the last. *)
LEMMA WholeParses ==
  ASSUME NEW T \in Seq(Token), NEW n \in Nat, Len(T) = n, NEW p \in Nat,
         NEW m \in Member, MemberHeld(T, p, DQ, m),
         NEW s \in 1 .. n, s = p + Size(DQ, m) + 1,
         T[s] = Comma \/ (T[s] = Closing /\ s = n)
  PROVE  Parses(T, p + 1)
<1>1. MemberAt(T, p + 1).sign = s
  <2>1. T[s] \in {Comma, Closing}
    OBVIOUS
  <2>2. MemberAt(T, p + 1) = [sign |-> s, key |-> <<m.key>>,
                              value |-> <<DQ>> \o m.value \o <<DQ>>]
    BY <2>1, WholeMember
  <2> QED BY <2>2
<1>2. CASE T[s] = Comma
  BY <1>1, <1>2 DEF Parses, TokenIn
<1>3. CASE T[s] = Closing /\ s = n
  <2>1. SkipSpaces(T, n + 1) = n + 1
    BY SkipNothing
  <2>2. Closes(T, s)
    BY <1>3, <2>1 DEF Closes, TokenIn
  <2> QED BY <1>1, <2>2 DEF Parses
<1> QED BY <1>2, <1>3

(* What begins with anything but a double quote does not parse. *)
LEMMA OtherKey ==
  ASSUME NEW T \in Seq(Token), NEW n \in Nat, Len(T) = n, NEW p \in Nat, p < n,
         T[p + 1] \notin {DQ, Space}
  PROVE  ~Parses(T, p + 1)
<1>1. T[p + 1] # DQ /\ T[p + 1] # Space
  OBVIOUS
<1>2. SkipSpaces(T, p + 1) = p + 1
  BY <1>1, SkipNothing
<1>3. StringEnd(T, p + 1) = 0
  BY <1>1, NoString
<1>4. MemberAt(T, p + 1).sign = 0
  BY <1>2, <1>3 DEF MemberAt
<1> QED BY <1>4 DEF Parses

(* Nor does a value that ends before anything but a sign. *)
LEMMA BrokenValue ==
  ASSUME NEW T \in Seq(Token), NEW n \in Nat, Len(T) = n, NEW p \in Nat, NEW w \in Words,
         KeyHeld(T, p, DQ, w), T[p + 5] = DQ, NEW e \in p + 6 .. n - 1, T[e] = DQ,
         \A k \in p + 6 .. e - 1 : T[k] # DQ, T[e + 1] \notin {Space, Comma, Closing}
  PROVE  ~Parses(T, p + 1)
<1>1. MemberAt(T, p + 1).sign = e + 1
  <2>1. T[e + 1] # Space
    OBVIOUS
  <2>2. MemberAt(T, p + 1) = [sign |-> e + 1, key |-> SubSeq(T, p + 2, p + 2),
                              value |-> SubSeq(T, p + 5, e)]
    BY <2>1, FoundMember
  <2> QED BY <2>2
<1> QED BY <1>1 DEF Parses, Closes, TokenIn

(* Where a key begins is not the end of an empty object. *)
LEMMA NotEmpty ==
  ASSUME NEW T \in Seq(Token), NEW n \in Nat, Len(T) = n, NEW p \in Nat, p < n,
         T[p + 1] \in Words \cup Quotes
  PROVE  ~Closes(T, SkipSpaces(T, p + 1))
<1>1. T[p + 1] # Closing /\ T[p + 1] # Space
  BY Tokens DEF Quotes
<1>2. SkipSpaces(T, p + 1) = p + 1
  BY <1>1, SkipNothing
<1> QED BY <1>1, <1>2 DEF Closes, TokenIn

-----------------------------------------------------------------------------
(* The regular expression.                                                 *)

(* It matches a key, and makes one in double quotes of it. *)
LEMMA KeyMatches ==
  ASSUME NEW T \in Seq(Token), NEW n \in Nat, Len(T) = n, NEW p \in Nat,
         NEW q \in {"bare", DQ, SQ}, NEW w \in Words, KeyHeld(T, p, q, w), p + KeySize(q) + 1 <= n
  PROVE  /\ Match(T, p + 1) = KeySize(q) + 1
         /\ Replacement(T, p + 1) = <<DQ, w, DQ, Colon>>
<1>1. w \notin Quotes \cup {Esc, Colon} /\ DQ \notin Words /\ SQ \notin Words /\ DQ # Esc
      /\ SQ # Esc /\ DQ # Colon /\ SQ # Colon
  BY Tokens DEF Quotes
<1>2. CASE q = "bare"
  <2>1. T[p + 1] = w /\ T[p + 2] = Colon /\ p + 2 <= n /\ KeySize(q) = 1
    BY <1>2 DEF KeyHeld, KeySize
  <2>2. WordColon(T, p + 1) = 2
    BY <2>1 DEF WordColon, TokenIn
  <2>3. Match(T, p + 1) = 2
    BY <1>1, <2>1, <2>2 DEF Match, TokenIn
  <2> QED BY <1>1, <2>1, <2>3 DEF Replacement
<1>3. CASE q # "bare"
  <2>1. /\ T[p + 1] = q /\ T[p + 2] = w /\ T[p + 3] = q /\ T[p + 4] = Colon /\ p + 4 <= n
        /\ KeySize(q) = 3 /\ q \in Quotes
    BY <1>3 DEF KeyHeld, KeySize, Quotes
  <2>2. WordColon(T, p + 2) = 3
    BY <1>1, <2>1 DEF WordColon, TokenIn, Quotes
  <2>3. Match(T, p + 1) = 4
    BY <1>1, <2>1, <2>2 DEF Match, TokenIn
  <2>4. T[p + 1] \notin Words /\ T[p + 1] # Esc
    BY <1>1, <2>1 DEF Quotes
  <2> QED BY <2>1, <2>3, <2>4 DEF Replacement
<1> QED BY <1>2, <1>3

(* A word before a colon inside a string is one of its value. *)
LEMMA WordColonInside ==
  ASSUME NEW T \in Seq(Token), NEW n \in Nat, Len(T) = n, NEW p \in Nat,
         NEW v \in Seq(Token \ {DQ}), NEW L \in Nat, Len(v) = L, p + L + 3 <= n,
         ValueHeld(T, p, v), T[p + L + 3] # Colon, NEW j \in 1 .. L
  PROVE  WordColon(T, p + 1 + j) > 0 <=> WordColon(v, j) > 0
<1>1. /\ T[p + L + 2] = DQ /\ DQ # Colon /\ DQ \in Quotes
      /\ \A i \in 1 .. L : T[p + 1 + i] = v[i]
  BY Tokens DEF ValueHeld, Quotes
<1>2. T[p + 1 + j] = v[j] /\ p + 1 + j <= n
  BY <1>1
<1>3. CASE j = L
  <2>1. p + 1 + j + 1 = p + L + 2 /\ p + 1 + j + 2 = p + L + 3 /\ ~(j + 1 <= L)
    BY <1>3
  <2>2. T[p + 1 + j + 1] = DQ /\ T[p + 1 + j + 2] # Colon
    BY <1>1, <2>1
  <2>3. WordColon(T, p + 1 + j) = 0
    BY <1>1, <2>2 DEF WordColon, TokenIn
  <2>4. WordColon(v, j) = 0
    BY <2>1 DEF WordColon, TokenIn
  <2> QED BY <2>3, <2>4
<1>4. CASE j + 1 = L
  <2>1. /\ p + 1 + j + 1 = p + 1 + L /\ p + 1 + j + 2 = p + L + 2 /\ L \in 1 .. L
        /\ ~(j + 2 <= L)
    BY <1>4
  <2>2. T[p + 1 + j + 1] = v[j + 1] /\ T[p + 1 + j + 2] # Colon
    BY <1>1, <1>4, <2>1
  <2>3. p + 1 + j + 1 <= n /\ j + 1 <= L
    BY <1>4
  <2> QED BY <1>2, <2>1, <2>2, <2>3 DEF WordColon, TokenIn
<1>5. CASE j + 2 <= L
  <2>1. /\ j + 1 \in 1 .. L /\ j + 2 \in 1 .. L
        /\ p + 1 + j + 1 = p + 1 + (j + 1) /\ p + 1 + j + 2 = p + 1 + (j + 2)
        /\ p + 1 + j + 1 <= n /\ p + 1 + j + 2 <= n
    BY <1>5
  <2>2. T[p + 1 + j + 1] = v[j + 1] /\ T[p + 1 + j + 2] = v[j + 2]
    BY <1>1, <2>1
  <2> QED BY <1>2, <1>5, <2>1, <2>2 DEF WordColon, TokenIn
<1> QED BY <1>3, <1>4, <1>5

(* From the double quote before a value to the sign after it, there is a   *)
(* match exactly if the value has a word before a colon.                   *)
LEMMA ValueMatches ==
  ASSUME NEW T \in Seq(Token), NEW n \in Nat, Len(T) = n, NEW p \in Nat,
         NEW v \in Seq(Token \ {DQ}), NEW L \in Nat, Len(v) = L, p + L + 3 <= n,
         ValueHeld(T, p, v), T[p + L + 3] \in {Comma, Closing}
  PROVE  /\ HasWordColon(v) => \E k \in p + 1 .. p + L + 1 : Match(T, k) > 0
         /\ ~HasWordColon(v) => \A k \in p + 1 .. p + L + 3 : Match(T, k) = 0
         /\ \A k \in p + L + 2 .. p + L + 3 : Match(T, k) = 0
<1>1. /\ T[p + 1] = DQ /\ T[p + L + 2] = DQ /\ T[p + L + 3] # Colon
      /\ T[p + L + 3] \notin Words \cup Quotes \cup {Esc} /\ DQ \notin Words
  BY Tokens DEF ValueHeld, Quotes
<1>2. \A j \in 1 .. L : WordColon(T, p + 1 + j) > 0 <=> WordColon(v, j) > 0
  BY <1>1, WordColonInside
<1>3. DOMAIN v = 1 .. L
  BY LenProperties
<1>4. /\ WordColon(T, p + 1) = 0 /\ WordColon(T, p + L + 2) = 0
      /\ WordColon(T, p + L + 3) = 0
  BY <1>1 DEF WordColon, TokenIn
<1>5. \A k : WordColon(T, k) \in {0, 2, 3}
  BY DEF WordColon
<1>6. ASSUME HasWordColon(v)
      PROVE  \E k \in p + 1 .. p + L + 1 : Match(T, k) > 0
  <2>1. PICK j \in 1 .. L : WordColon(v, j) > 0
    BY <1>3, <1>6 DEF HasWordColon
  <2> DEFINE k == p + 1 + j
  <2>2. WordColon(T, k) > 0 /\ k \in p + 1 .. p + L + 1
    BY <1>2, <2>1
  <2> HIDE DEF k
  <2>3. T[k] \in Words
    BY <2>2 DEF WordColon, TokenIn
  <2>4. T[k] \notin Quotes \cup {Esc}
    BY <2>3, Tokens DEF Quotes
  <2>5. Match(T, k) > 0
    BY <2>2, <2>4 DEF Match, TokenIn
  <2> QED BY <2>2, <2>5
<1>7. \A k \in p + L + 2 .. p + L + 3 : Match(T, k) = 0
  <2>1. Match(T, p + L + 3) = 0
    BY <1>1, <1>4 DEF Match, TokenIn
  <2>2. p + L + 2 + 1 = p + L + 3
    OBVIOUS
  <2>3. Match(T, p + L + 2) = 0
    BY <1>4, <2>2 DEF Match
  <2>4. \A k \in p + L + 2 .. p + L + 3 : k = p + L + 2 \/ k = p + L + 3
    OBVIOUS
  <2> QED BY <2>1, <2>3, <2>4
<1>8. ASSUME ~HasWordColon(v), NEW k \in p + 1 .. p + L + 3
      PROVE  Match(T, k) = 0
  <2>1. ASSUME NEW i \in p + 1 .. p + L + 3 PROVE WordColon(T, i) = 0
    <3>1. CASE i \in p + 2 .. p + L + 1
      <4>1. i - (p + 1) \in 1 .. L /\ p + 1 + (i - (p + 1)) = i
        BY <3>1
      <4>2. ~(WordColon(v, i - (p + 1)) > 0)
        BY <1>3, <1>8, <4>1 DEF HasWordColon
      <4>3. ~(WordColon(T, i) > 0)
        BY <1>2, <4>1, <4>2
      <4> QED BY <1>5, <4>3
    <3>2. CASE i \in {p + 1, p + L + 2, p + L + 3}
      BY <1>4, <3>2
    <3> QED BY <3>1, <3>2
  <2>2. CASE k = p + L + 3
    BY <1>7, <2>2
  <2>3. CASE k # p + L + 3
    <3>1. k + 1 \in p + 1 .. p + L + 3
      BY <2>3
    <3>2. WordColon(T, k) = 0 /\ WordColon(T, k + 1) = 0
      BY <2>1, <3>1
    <3> QED BY <3>2 DEF Match
  <2> QED BY <2>2, <2>3
<1> QED BY <1>6, <1>7, <1>8

LEMMA NoOtherMatch ==
  ASSUME NEW T \in Seq(Token), NEW p \in Nat, NEW v \in Seq(Token \ {DQ}),
         p + Len(v) + 3 <= Len(T), ValueHeld(T, p, v), T[p + Len(v) + 3] \in {Comma, Closing},
         NEW k \in p + 1 .. p + Len(v) + 3, Match(T, k) # 0
  PROVE  HasWordColon(v) /\ k \in p + 1 .. p + Len(v) + 1
<1> DEFINE n == Len(T)
           L == Len(v)
<1>1. n \in Nat /\ L \in Nat /\ Len(T) = n /\ Len(v) = L
  BY LenProperties
<1>2. p + L + 3 <= n /\ T[p + L + 3] \in {Comma, Closing} /\ k \in p + 1 .. p + L + 3
  OBVIOUS
<1> HIDE DEF n, L
<1>3. HasWordColon(v) /\ ~(k \in p + L + 2 .. p + L + 3)
  BY <1>1, <1>2, ValueMatches
<1>4. k \in p + 1 .. p + L + 1
  BY <1>1, <1>2, <1>3
<1> QED BY <1>3, <1>4 DEF L

(* What a match is replaced by. *)
LEMMA Replaced ==
  ASSUME NEW T \in Seq(Token), NEW n \in Nat, Len(T) = n, NEW m \in 1 .. n, Match(T, m) > 0
  PROVE  \E w \in Words : \/ Replacement(T, m) = <<DQ, w, DQ, Colon>>
                          \/ T[m] = Esc /\ Replacement(T, m) = <<Esc, w, DQ, Colon>>
<1>1. CASE T[m] \in Words
  BY <1>1 DEF Replacement
<1>2. CASE T[m] \notin Words
  <2>1. WordColon(T, m) = 0
    BY <1>2 DEF WordColon, TokenIn
  <2>2. WordColon(T, m + 1) > 0
    BY <2>1 DEF Match
  <2>3. T[m + 1] \in Words
    BY <2>2 DEF WordColon, TokenIn
  <2> QED BY <1>2, <2>3 DEF Replacement
<1> QED BY <1>1, <1>2

-----------------------------------------------------------------------------
(* Texts put together.                                                     *)

LEMMA Joined ==
  ASSUME NEW a \in Seq(Token), NEW b \in Seq(Token)
  PROVE  /\ a \o b \in Seq(Token) /\ Len(a \o b) = Len(a) + Len(b)
         /\ \A i \in 1 .. Len(a) : (a \o b)[i] = a[i]
         /\ \A i \in 1 .. Len(b) : (a \o b)[Len(a) + i] = b[i]
<1> DEFINE la == Len(a)
           lb == Len(b)
           c == a \o b
<1>1. /\ c \in Seq(Token) /\ Len(c) = la + lb
      /\ \A i \in 1 .. la + lb : c[i] = IF i <= la THEN a[i] ELSE b[i - la]
  BY ConcatProperties
<1>2. la \in Nat /\ lb \in Nat
  BY LenProperties
<1> HIDE DEF la, lb, c
<1>3. \A i \in 1 .. la : c[i] = a[i]
  BY <1>1, <1>2
<1>4. ASSUME NEW i \in 1 .. lb PROVE c[la + i] = b[i]
  <2> DEFINE k == la + i
  <2>1. k \in 1 .. la + lb /\ ~(k <= la) /\ k - la = i
    BY <1>2
  <2> HIDE DEF k
  <2>2. c[k] = b[i]
    BY <1>1, <2>1
  <2> QED BY <2>2 DEF k
<1> QED BY <1>1, <1>3, <1>4 DEF la, lb, c

(* What replace_all keeps of the tokens from a to b. *)
LEMMA Kept ==
  ASSUME NEW T \in Seq(Token), NEW a \in 1 .. Len(T) + 1, NEW b \in a - 1 .. Len(T)
  PROVE  /\ Between(T, a, b) \in Seq(Token) /\ Len(Between(T, a, b)) = b - a + 1
         /\ \A i \in 1 .. b - a + 1 : Between(T, a, b)[i] = T[a + i - 1]
<1> DEFINE M == SubSeq(T, a, b)
<1>1. Len(T) \in Nat /\ \A i \in 1 .. Len(T) : T[i] \in Token
  BY LenProperties, ElementOfSeq
<1>2. a \in Int /\ b \in Int /\ a <= b + 1 /\ \A i \in a .. b : T[i] \in Token
  BY <1>1
<1>3. /\ M \in Seq(Token) /\ Len(M) = IF a <= b THEN b - a + 1 ELSE 0
      /\ \A i \in 1 .. b - a + 1 : M[i] = T[a + i - 1]
  BY <1>2, SubSeqProperties
<1> HIDE DEF M
<1>4. (IF a <= b THEN b - a + 1 ELSE 0) = b - a + 1
  BY <1>2
<1> QED BY <1>3, <1>4 DEF Between, M

LEMMA Spliced ==
  ASSUME NEW A \in Seq(Token), NEW T \in Seq(Token),
         NEW a \in 1 .. Len(T) + 1, NEW b \in a - 1 .. Len(T)
  PROVE  LET R == A \o Between(T, a, b) IN
         /\ R \in Seq(Token) /\ Len(R) = Len(A) + (b - a + 1)
         /\ \A i \in 1 .. Len(A) : R[i] = A[i]
         /\ \A i \in 1 .. b - a + 1 : R[Len(A) + i] = T[a + i - 1]
<1> DEFINE M == Between(T, a, b)
           R == A \o M
<1>1. /\ M \in Seq(Token) /\ Len(M) = b - a + 1
      /\ \A i \in 1 .. b - a + 1 : M[i] = T[a + i - 1]
  BY Kept
<1> HIDE DEF M
<1>2. /\ R \in Seq(Token) /\ Len(R) = Len(A) + Len(M)
      /\ \A i \in 1 .. Len(A) : R[i] = A[i]
      /\ \A i \in 1 .. Len(M) : R[Len(A) + i] = M[i]
  BY <1>1, Joined
<1> HIDE DEF R
<1>3. /\ R \in Seq(Token) /\ Len(R) = Len(A) + (b - a + 1)
      /\ \A i \in 1 .. Len(A) : R[i] = A[i]
      /\ \A i \in 1 .. b - a + 1 : R[Len(A) + i] = T[a + i - 1]
  BY <1>1, <1>2
<1> QED BY <1>3 DEF R, M

(* A member is where its tokens are. *)
LEMMA HeldMoves ==
  ASSUME NEW T, NEW R, NEW a \in Nat, NEW b \in Nat, NEW q, NEW m \in Member,
         MemberHeld(T, a, q, m), \A i \in 1 .. Size(q, m) : R[b + i] = T[a + i]
  PROVE  MemberHeld(R, b, q, m)
<1> DEFINE v == m.value
           L == Len(m.value)
           K == KeySize(q)
<1>1. L \in Nat /\ K \in {1, 3} /\ Size(q, m) = K + L + 3
  BY MemberType DEF KeySize, Size
<1>2. KeyHeld(R, b, q, m.key)
  <2>1. KeyHeld(T, a, q, m.key)
    BY DEF MemberHeld
  <2>2. CASE q = "bare"
    <3>1. K = 1 /\ 1 \in 1 .. Size(q, m) /\ 2 \in 1 .. Size(q, m)
      BY <1>1, <2>2 DEF KeySize
    <3> QED BY <2>1, <2>2, <3>1 DEF KeyHeld
  <2>3. CASE q # "bare"
    <3>1. K = 3 /\ \A i \in 1 .. 4 : i \in 1 .. Size(q, m)
      BY <1>1, <2>3 DEF KeySize
    <3>2. \A i \in 1 .. 4 : R[b + i] = T[a + i]
      BY <3>1
    <3> QED BY <2>1, <2>3, <3>1, <3>2 DEF KeyHeld
  <2> QED BY <2>2, <2>3
<1>3. ValueHeld(R, b + K + 1, v)
  <2>1. ValueHeld(T, a + K + 1, v)
    BY DEF MemberHeld
  <2> HIDE DEF v, L, K
  <2>2. \A i \in 1 .. L + 2 : R[b + K + 1 + i] = T[a + K + 1 + i]
    <3> SUFFICES ASSUME NEW i \in 1 .. L + 2 PROVE R[b + K + 1 + i] = T[a + K + 1 + i]
      OBVIOUS
    <3>1. K + 1 + i \in 1 .. Size(q, m) /\ b + (K + 1 + i) = b + K + 1 + i
          /\ a + (K + 1 + i) = a + K + 1 + i
      BY <1>1
    <3> QED BY <3>1
  <2>3. Len(v) = L
    BY DEF v, L
  <2>4. \A j \in 1 .. L : b + K + 1 + 1 + j = b + K + 1 + (j + 1) /\ j + 1 \in 1 .. L + 2
                         /\ a + K + 1 + 1 + j = a + K + 1 + (j + 1)
    BY <1>1
  <2>5. \A j \in 1 .. L : R[b + K + 1 + 1 + j] = v[j]
    BY <2>1, <2>2, <2>3, <2>4 DEF ValueHeld
  <2>6. R[b + K + 1 + 1] = DQ
    <3>1. 1 \in 1 .. L + 2
      BY <1>1
    <3> QED BY <2>1, <2>2, <3>1 DEF ValueHeld
  <2>7. R[b + K + 1 + L + 2] = DQ
    <3>1. /\ L + 2 \in 1 .. L + 2 /\ a + K + 1 + (L + 2) = a + K + 1 + L + 2
          /\ b + K + 1 + (L + 2) = b + K + 1 + L + 2
      BY <1>1
    <3>2. T[a + K + 1 + L + 2] = DQ
      BY <2>1, <2>3 DEF ValueHeld
    <3> QED BY <2>2, <3>1, <3>2
  <2> QED BY <2>3, <2>5, <2>6, <2>7 DEF ValueHeld
<1> QED BY <1>2, <1>3 DEF MemberHeld

(* The text a client writes for a member. *)
LEMMA WrittenMember ==
  ASSUME NEW m \in Member
  PROVE  /\ MemberText(m) \in Seq(Token) /\ Len(MemberText(m)) = Size(m.form, m)
         /\ MemberHeld(MemberText(m), 0, m.form, m)
<1> DEFINE v == m.value
           L == Len(m.value)
           q == m.form
           k == Quoted(q, m.key)
           c == k \o <<Colon, DQ>>
           d == c \o v
           K == KeySize(q)
<1>1. /\ q \in {"bare", DQ, SQ} /\ m.key \in Words /\ v \in Seq(Token) /\ L \in Nat
      /\ Len(v) = L
  <2>1. v \in Seq(Token \ {DQ})
    BY MemberType
  <2>2. v \in Seq(Token)
    BY <2>1
  <2> QED BY <2>2, MemberType
<1>2. DQ \in Token /\ SQ \in Token /\ Colon \in Token /\ m.key \in Token
  BY <1>1 DEF Token, Signs, Quotes
<1>3. /\ k \in Seq(Token) /\ Len(k) = K /\ K \in {1, 3}
      /\ IF q = "bare" THEN k[1] = m.key ELSE k[1] = q /\ k[2] = m.key /\ k[3] = q
  BY <1>1, <1>2 DEF Quoted, KeySize
<1> HIDE DEF v, L, k, K, c, d
<1>4. /\ c \in Seq(Token) /\ Len(c) = K + 2 /\ c[K + 1] = Colon /\ c[K + 2] = DQ
      /\ \A i \in 1 .. K : c[i] = k[i]
  <2>1. <<Colon, DQ>> \in Seq(Token) /\ Len(<<Colon, DQ>>) = 2
    BY <1>2
  <2> QED BY <1>3, <2>1, Joined DEF c
<1>5. /\ d \in Seq(Token) /\ Len(d) = K + 2 + L
      /\ \A i \in 1 .. K + 2 : d[i] = c[i]
      /\ \A i \in 1 .. L : d[K + 2 + i] = v[i]
  <2>1. /\ d \in Seq(Token) /\ Len(d) = Len(c) + Len(v)
        /\ \A i \in 1 .. Len(c) : d[i] = c[i]
        /\ \A i \in 1 .. Len(v) : d[Len(c) + i] = v[i]
    BY <1>1, <1>4, Joined DEF d
  <2> QED BY <1>1, <1>4, <2>1
<1> DEFINE t == d \o <<DQ>>
<1>6. /\ t \in Seq(Token) /\ Len(t) = K + L + 3
      /\ \A i \in 1 .. K + 2 + L : t[i] = d[i]
      /\ t[K + L + 3] = DQ
  <2>1. <<DQ>> \in Seq(Token) /\ Len(<<DQ>>) = 1 /\ <<DQ>>[1] = DQ
    BY <1>2
  <2>2. /\ t \in Seq(Token) /\ Len(t) = K + 2 + L + 1
        /\ \A i \in 1 .. K + 2 + L : t[i] = d[i]
        /\ t[K + 2 + L + 1] = DQ
    BY <1>5, <2>1, Joined
  <2> HIDE DEF t
  <2>3. K + 2 + L + 1 = K + L + 3
    BY <1>1, <1>3
  <2> QED BY <2>2, <2>3
<1> HIDE DEF t
<1>7. MemberText(m) = t
  BY DEF MemberText, t, d, c, k, v
<1>8. Size(q, m) = K + L + 3
  BY DEF Size, K, L
<1>9. \A i \in 1 .. K + 2 : t[i] = c[i]
  <2>1. \A i \in 1 .. K + 2 : i \in 1 .. K + 2 + L
    BY <1>1, <1>3
  <2> QED BY <1>5, <1>6, <2>1
<1>10. KeyHeld(t, 0, q, m.key)
  <2>1. t[K + 1] = Colon /\ t[0 + K + 1] = Colon
    <3>1. K + 1 \in 1 .. K + 2 /\ 0 + K + 1 = K + 1
      BY <1>3
    <3> QED BY <1>4, <1>9, <3>1
  <2>2. \A i \in 1 .. K : t[i] = k[i] /\ t[0 + i] = k[i]
    <3>1. \A i \in 1 .. K : i \in 1 .. K + 2 /\ 0 + i = i
      BY <1>3
    <3> QED BY <1>4, <1>9, <3>1
  <2>3. CASE q = "bare"
    <3>1. 1 \in 1 .. K
      BY <1>3
    <3> QED BY <1>3, <2>1, <2>2, <2>3, <3>1 DEF KeyHeld, K
  <2>4. CASE q # "bare"
    <3>1. K = 3 /\ \A i \in {1, 2, 3} : i \in 1 .. K
      BY <1>3, <2>4 DEF KeySize, K
    <3> QED BY <1>3, <2>1, <2>2, <2>4, <3>1 DEF KeyHeld, K
  <2> QED BY <2>3, <2>4
<1>11. ValueHeld(t, K + 1, v)
  <2>1. t[K + 1 + 1] = DQ
    <3>1. K + 1 + 1 = K + 2 /\ K + 2 \in 1 .. K + 2
      BY <1>3
    <3> QED BY <1>4, <1>9, <3>1
  <2>2. t[K + 1 + L + 2] = DQ
    <3>1. K + 1 + L + 2 = K + L + 3
      BY <1>1, <1>3
    <3> QED BY <1>6, <3>1
  <2>3. ASSUME NEW j \in 1 .. L PROVE t[K + 1 + 1 + j] = v[j]
    <3>1. K + 1 + 1 + j = K + 2 + j /\ K + 2 + j \in 1 .. K + 2 + L
      BY <1>1, <1>3
    <3> QED BY <1>5, <1>6, <3>1
  <2> QED BY <1>1, <2>1, <2>2, <2>3 DEF ValueHeld
<1>12. MemberHeld(t, 0, q, m)
  <2>1. 0 + K + 1 = K + 1
    BY <1>3
  <2> QED BY <1>10, <1>11, <2>1 DEF MemberHeld, K, v
<1> QED BY <1>6, <1>7, <1>8, <1>12

-----------------------------------------------------------------------------
(* Where the members of the request r are in a text: member i + 1 begins   *)
(* after off[i] tokens, in the quotes F[i + 1].                            *)

Forms(r) == [i \in 1 .. Len(r) |-> r[i].form]
Doubles(r) == [i \in 1 .. Len(r) |-> DQ]
Offsets(r) == [0 .. Len(r) -> Nat]

(* The first n members, each with a comma after it *)
Laid(T, off, F, r, n) ==
  /\ off[0] = 1
  /\ \A i \in 1 .. n :
       /\ off[i] = off[i - 1] + Size(F[i], r[i]) + 1 /\ off[i] <= Len(T)
       /\ MemberHeld(T, off[i - 1], F[i], r[i]) /\ T[off[i]] = Comma

(* All members, of which there is one at least *)
Whole(T, off, F, r) ==
  LET n == Len(r) IN
  /\ n >= 1 /\ Laid(T, off, F, r, n - 1) /\ MemberHeld(T, off[n - 1], F[n], r[n])
  /\ Len(T) = off[n - 1] + Size(F[n], r[n]) + 1 /\ T[Len(T)] = Closing

(* Those before member i, whose value ends too early: a replacement in it  *)
(* has put a double quote before something that is no sign.                *)
Broken(T, off, r, i) ==
  /\ Laid(T, off, Doubles(r), r, i - 1) /\ HasWordColon(r[i].value)
  /\ KeyHeld(T, off[i - 1], DQ, r[i].key) /\ T[off[i - 1] + 5] = DQ
  /\ \E e \in off[i - 1] + 6 .. Len(T) - 1 :
       /\ T[e] = DQ /\ \A k \in off[i - 1] + 6 .. e - 1 : T[k] # DQ
       /\ T[e + 1] \notin {Space, Comma, Closing}

LEMMA RequestType ==
  ASSUME NEW r \in Seq(Member)
  PROVE  /\ Len(r) \in Nat /\ DOMAIN r = 1 .. Len(r)
         /\ \A i \in 1 .. Len(r) : /\ r[i] \in Member /\ Doubles(r)[i] = DQ
                                  /\ Forms(r)[i] = r[i].form
                                  /\ Forms(r)[i] \in {"bare", DQ, SQ}
<1>1. Len(r) \in Nat /\ DOMAIN r = 1 .. Len(r) /\ \A i \in 1 .. Len(r) : r[i] \in Member
  BY LenProperties, ElementOfSeq
<1>2. \A i \in 1 .. Len(r) : Doubles(r)[i] = DQ /\ Forms(r)[i] = r[i].form
  BY DEF Doubles, Forms
<1>3. \A i \in 1 .. Len(r) : Forms(r)[i] \in {"bare", DQ, SQ}
  BY <1>1, <1>2, MemberType
<1> QED BY <1>1, <1>2, <1>3

LEMMA SizeType ==
  ASSUME NEW q, NEW m \in Member
  PROVE  /\ Size(q, m) \in Nat /\ KeySize(q) \in {1, 3} /\ Len(m.value) \in Nat
         /\ Size(q, m) = KeySize(q) + Len(m.value) + 3
         /\ Size(DQ, m) = Len(m.value) + 6
<1>1. KeySize(q) \in {1, 3} /\ KeySize(DQ) = 3 /\ Len(m.value) \in Nat
  BY Tokens, MemberType DEF KeySize
<1> QED BY <1>1 DEF Size

(* What is at the end of a text leaves what is at its front. *)
LEMMA LaidExtends ==
  ASSUME NEW r \in Seq(Member), NEW off \in Offsets(r), NEW F, NEW n \in 0 .. Len(r),
         NEW T \in Seq(Token), NEW U \in Seq(Token), Len(T) <= Len(U),
         \A i \in 1 .. Len(T) : U[i] = T[i], Laid(T, off, F, r, n)
  PROVE  Laid(U, off, F, r, n)
<1> DEFINE l == Len(T)
           u == Len(U)
<1>0. l \in Nat /\ u \in Nat
  BY LenProperties
<1> SUFFICES ASSUME NEW i \in 1 .. n
             PROVE  /\ off[i] <= u /\ MemberHeld(U, off[i - 1], F[i], r[i])
                    /\ U[off[i]] = Comma
  BY DEF Laid
<1>1. /\ off[i] = off[i - 1] + Size(F[i], r[i]) + 1 /\ off[i] <= l
      /\ MemberHeld(T, off[i - 1], F[i], r[i]) /\ T[off[i]] = Comma
  BY DEF Laid
<1> HIDE DEF l, u
<1>2. Len(r) \in Nat /\ i \in 1 .. Len(r) /\ r[i] \in Member
  BY RequestType
<1>3. off[i] \in Nat /\ off[i - 1] \in Nat /\ Size(F[i], r[i]) \in Nat
  <2>1. i \in 0 .. Len(r) /\ i - 1 \in 0 .. Len(r)
    BY <1>2
  <2> QED BY <1>2, <2>1, SizeType DEF Offsets
<1>4. \A j \in 1 .. Size(F[i], r[i]) : U[off[i - 1] + j] = T[off[i - 1] + j]
  <2>1. \A j \in 1 .. Size(F[i], r[i]) : off[i - 1] + j \in 1 .. l
    <3> DEFINE a == off[i - 1]
               z == Size(F[i], r[i])
    <3>1. a \in Nat /\ z \in Nat /\ l \in Nat /\ a + z + 1 <= l
      BY <1>0, <1>1, <1>3
    <3> HIDE DEF a, z
    <3>2. \A j \in 1 .. z : a + j \in 1 .. l
      BY <3>1
    <3> QED BY <3>2 DEF a, z
  <2> QED BY <2>1 DEF l
<1>5. MemberHeld(U, off[i - 1], F[i], r[i])
  <2> DEFINE a == off[i - 1]
             q == F[i]
             m == r[i]
  <2>1. /\ a \in Nat /\ m \in Member /\ MemberHeld(T, a, q, m)
        /\ \A j \in 1 .. Size(q, m) : U[a + j] = T[a + j]
    BY <1>1, <1>2, <1>3, <1>4
  <2> HIDE DEF a, q, m
  <2>2. MemberHeld(U, a, q, m)
    BY <2>1, HeldMoves
  <2> QED BY <2>2 DEF a, q, m
<1>6. off[i] \in 1 .. l
  BY <1>0, <1>1, <1>3
<1>7. U[off[i]] = Comma /\ off[i] <= u
  BY <1>0, <1>1, <1>3, <1>6 DEF l, u
<1> QED BY <1>5, <1>7

LEMMA KeyExtends ==
  ASSUME NEW T, NEW U, NEW p \in Nat, NEW w,
         \A j \in 1 .. 4 : U[p + j] = T[p + j], KeyHeld(T, p, DQ, w)
  PROVE  KeyHeld(U, p, DQ, w)
<1>1. KeySize(DQ) = 3 /\ DQ # "bare" /\ p + 3 + 1 = p + 4
  BY Tokens DEF KeySize
<1>2. T[p + 1] = DQ /\ T[p + 2] = w /\ T[p + 3] = DQ /\ T[p + 4] = Colon
  BY <1>1 DEF KeyHeld
<1>3. U[p + 1] = DQ /\ U[p + 2] = w /\ U[p + 3] = DQ /\ U[p + 4] = Colon
  BY <1>2
<1> QED BY <1>1, <1>3 DEF KeyHeld

LEMMA BrokenExtends ==
  ASSUME NEW r \in Seq(Member), NEW off \in Offsets(r), NEW i \in 1 .. Len(r),
         NEW T \in Seq(Token), NEW U \in Seq(Token), Len(T) <= Len(U),
         \A j \in 1 .. Len(T) : U[j] = T[j], Broken(T, off, r, i)
  PROVE  Broken(U, off, r, i)
<1>1. Len(r) \in Nat /\ i - 1 \in 0 .. Len(r)
  BY RequestType
<1>2. Laid(U, off, Doubles(r), r, i - 1)
  BY <1>1, LaidExtends DEF Broken
<1> DEFINE o == off[i - 1]
           l == Len(T)
           u == Len(U)
<1>0. l \in Nat /\ u \in Nat /\ l <= u /\ \A j \in 1 .. l : U[j] = T[j]
  BY LenProperties
<1>3. o \in Nat
  BY <1>1 DEF Offsets
<1>4. /\ HasWordColon(r[i].value) /\ KeyHeld(T, o, DQ, r[i].key) /\ T[o + 5] = DQ
      /\ \E e \in o + 6 .. l - 1 : /\ T[e] = DQ /\ \A k \in o + 6 .. e - 1 : T[k] # DQ
                                  /\ T[e + 1] \notin {Space, Comma, Closing}
  BY DEF Broken
<1> HIDE DEF o, l, u
<1>5. PICK e \in o + 6 .. l - 1 : /\ T[e] = DQ /\ \A k \in o + 6 .. e - 1 : T[k] # DQ
                                 /\ T[e + 1] \notin {Space, Comma, Closing}
  BY <1>4
<1>6. e \in 1 .. l /\ e + 1 \in 1 .. l /\ o + 5 \in 1 .. l /\ e \in o + 6 .. u - 1
      /\ \A k \in o + 6 .. e - 1 : k \in 1 .. l
  BY <1>0, <1>3
<1>7. /\ U[e] = DQ /\ \A k \in o + 6 .. e - 1 : U[k] # DQ
      /\ U[e + 1] \notin {Space, Comma, Closing} /\ U[o + 5] = DQ
  BY <1>0, <1>4, <1>5, <1>6
<1>8. KeyHeld(U, o, DQ, r[i].key)
  <2>1. \A j \in 1 .. 4 : o + j \in 1 .. l
    BY <1>0, <1>3, <1>6
  <2>2. \A j \in 1 .. 4 : U[o + j] = T[o + j]
    BY <1>0, <2>1
  <2> QED BY <1>3, <1>4, <2>2, KeyExtends
<1> QED BY <1>2, <1>4, <1>6, <1>7, <1>8 DEF Broken, o, u

(* Every member of a whole text, and the sign after it *)
LEMMA MemberIn ==
  ASSUME NEW r \in Seq(Member), NEW off \in Offsets(r), NEW F, NEW T,
         Whole(T, off, F, r), NEW i \in 1 .. Len(r)
  PROVE  /\ off[i - 1] \in Nat /\ MemberHeld(T, off[i - 1], F[i], r[i])
         /\ i < Len(r) => /\ off[i] = off[i - 1] + Size(F[i], r[i]) + 1
                          /\ off[i] <= Len(T) /\ T[off[i]] = Comma
         /\ i = Len(r) => /\ Len(T) = off[i - 1] + Size(F[i], r[i]) + 1
                          /\ T[Len(T)] = Closing
<1>1. Len(r) \in Nat /\ i - 1 \in 0 .. Len(r)
  BY RequestType
<1>2. off[i - 1] \in Nat
  BY <1>1 DEF Offsets
<1>3. CASE i = Len(r)
  BY <1>2, <1>3 DEF Whole
<1>4. CASE i # Len(r)
  <2>1. i \in 1 .. Len(r) - 1 /\ Laid(T, off, F, r, Len(r) - 1)
    BY <1>1, <1>4 DEF Whole
  <2> QED BY <1>2, <1>4, <2>1 DEF Laid
<1> QED BY <1>3, <1>4

(* How a member begins *)
LEMMA FirstToken ==
  ASSUME NEW T, NEW p \in Nat, NEW q \in {"bare", DQ, SQ}, NEW m \in Member,
         MemberHeld(T, p, q, m)
  PROVE  /\ T[p + 1] \in Words \cup Quotes
         /\ q # DQ => T[p + 1] \in Words \cup {SQ}
BY MemberType DEF MemberHeld, KeyHeld, Quotes

-----------------------------------------------------------------------------
(* One step of replace_all.                                                *)

LEMMA KeyAppended ==
  ASSUME NEW A \in Seq(Token), NEW w \in Words
  PROVE  LET R == A \o <<DQ, w, DQ, Colon>> IN
         /\ R \in Seq(Token) /\ Len(R) = Len(A) + 4
         /\ \A i \in 1 .. Len(A) : R[i] = A[i]
         /\ KeyHeld(R, Len(A), DQ, w)
<1> DEFINE c == <<DQ, w, DQ, Colon>>
           R == A \o c
           l == Len(A)
<1>0. l \in Nat
  BY LenProperties
<1>1. c \in Seq(Token) /\ Len(c) = 4 /\ c[1] = DQ /\ c[2] = w /\ c[3] = DQ /\ c[4] = Colon
  BY DEF Token, Signs, Quotes
<1> HIDE DEF c
<1>2. /\ R \in Seq(Token) /\ Len(R) = l + Len(c)
      /\ \A i \in 1 .. l : R[i] = A[i]
      /\ \A i \in 1 .. Len(c) : R[l + i] = c[i]
  BY <1>1, Joined
<1> HIDE DEF R, l
<1>3. R[l + 1] = DQ /\ R[l + 2] = w /\ R[l + 3] = DQ /\ R[l + 4] = Colon
  BY <1>0, <1>1, <1>2
<1>4. KeySize(DQ) = 3 /\ DQ # "bare" /\ l + 3 + 1 = l + 4
  BY <1>0, Tokens DEF KeySize
<1>5. KeyHeld(R, l, DQ, w)
  BY <1>3, <1>4 DEF KeyHeld
<1>6. R \in Seq(Token) /\ Len(R) = l + 4 /\ \A i \in 1 .. l : R[i] = A[i]
  BY <1>0, <1>1, <1>2
<1> QED BY <1>5, <1>6 DEF R, c, l

(* A value and its sign are copied behind the repaired key. *)
LEMMA ValueCopied ==
  ASSUME NEW T \in Seq(Token), NEW p \in Nat,
         NEW m \in Member, p + Len(m.value) + 3 <= Len(T),
         ValueHeld(T, p, m.value),
         NEW A \in Seq(Token), NEW o \in Nat, Len(A) = o + 4, KeyHeld(A, o, DQ, m.key)
  PROVE  LET B == A \o Between(T, p + 1, p + Len(m.value) + 3) IN
         /\ B \in Seq(Token) /\ Len(B) = o + Size(DQ, m) + 1
         /\ \A i \in 1 .. o + 4 : B[i] = A[i]
         /\ MemberHeld(B, o, DQ, m) /\ B[Len(B)] = T[p + Len(m.value) + 3]
<1> DEFINE L == Len(m.value)
           n == Len(T)
           B == A \o Between(T, p + 1, p + L + 3)
           l == o + 4
           v == m.value
<1>0. /\ l \in Nat /\ l = o + 4 /\ Len(A) = l /\ L \in Nat /\ Len(m.value) = L
      /\ n \in Nat /\ Len(T) = n /\ p + L + 3 <= n
  BY MemberType, LenProperties
<1> HIDE DEF l, L, n
<1>1. /\ B \in Seq(Token) /\ Len(B) = l + (L + 3)
      /\ \A i \in 1 .. l : B[i] = A[i]
      /\ \A i \in 1 .. L + 3 : B[l + i] = T[p + i]
  <2> DEFINE a == p + 1
             b == p + L + 3
  <2>1. /\ a \in 1 .. Len(T) + 1 /\ b \in a - 1 .. Len(T) /\ b - a + 1 = L + 3
        /\ \A i \in 1 .. L + 3 : a + i - 1 = p + i
    BY <1>0
  <2> HIDE DEF a, b
  <2>2. B = A \o Between(T, a, b)
    BY DEF a, b
  <2> HIDE DEF B
  <2>3. /\ B \in Seq(Token) /\ Len(B) = Len(A) + (b - a + 1)
        /\ \A i \in 1 .. Len(A) : B[i] = A[i]
        /\ \A i \in 1 .. b - a + 1 : B[Len(A) + i] = T[a + i - 1]
    BY <2>1, <2>2, Spliced
  <2> QED BY <1>0, <2>1, <2>3
<1> HIDE DEF B
<1>2. KeyHeld(B, o, DQ, m.key)
  <2>1. \A j \in 1 .. 4 : o + j \in 1 .. l
    BY <1>0
  <2>2. \A j \in 1 .. 4 : B[o + j] = A[o + j]
    BY <1>1, <2>1
  <2> QED BY <2>2, KeyExtends
<1>3. KeySize(DQ) = 3 /\ Size(DQ, m) = L + 6
  BY <1>0, SizeType, Tokens DEF KeySize
<1>4. ValueHeld(B, o + 3 + 1, v)
  <2>1. /\ T[p + 1] = DQ /\ T[p + L + 2] = DQ /\ Len(v) = L
        /\ \A j \in 1 .. L : T[p + 1 + j] = v[j]
    BY <1>0 DEF ValueHeld
  <2> HIDE DEF v
  <2>2. B[o + 3 + 1 + 1] = DQ
    <3>1. o + 3 + 1 + 1 = l + 1 /\ 1 \in 1 .. L + 3
      BY <1>0
    <3> QED BY <1>1, <2>1, <3>1
  <2>3. B[o + 3 + 1 + L + 2] = DQ
    <3> DEFINE i == L + 2
    <3>1. o + 3 + 1 + L + 2 = l + i /\ i \in 1 .. L + 3 /\ p + i = p + L + 2
      BY <1>0
    <3> HIDE DEF i
    <3>2. B[l + i] = T[p + i]
      BY <1>1, <3>1
    <3> QED BY <2>1, <3>1, <3>2
  <2>4. ASSUME NEW j \in 1 .. L PROVE B[o + 3 + 1 + 1 + j] = v[j]
    <3> DEFINE i == 1 + j
    <3>1. o + 3 + 1 + 1 + j = l + i /\ i \in 1 .. L + 3 /\ p + i = p + 1 + j
      BY <1>0
    <3> HIDE DEF i
    <3>2. B[l + i] = T[p + i]
      BY <1>1, <3>1
    <3> QED BY <2>1, <3>1, <3>2
  <2> QED BY <2>1, <2>2, <2>3, <2>4 DEF ValueHeld
<1>5. MemberHeld(B, o, DQ, m)
  BY <1>2, <1>3, <1>4 DEF MemberHeld
<1>6. Len(B) = o + Size(DQ, m) + 1 /\ B[Len(B)] = T[p + L + 3]
  <2> DEFINE i == L + 3
  <2>1. i \in 1 .. L + 3 /\ p + i = p + L + 3 /\ l + i = o + (L + 6) + 1 /\ i = L + 3
    BY <1>0
  <2> HIDE DEF i
  <2>2. Len(B) = l + i /\ B[l + i] = T[p + i]
    BY <1>1, <2>1
  <2> QED BY <1>3, <2>1, <2>2
<1>7. \A i \in 1 .. o + 4 : B[i] = A[i]
  BY <1>0, <1>1
<1> QED BY <1>1, <1>5, <1>6, <1>7 DEF B, L

(* A match inside a value breaks it. *)
LEMMA ValueBroken ==
  ASSUME NEW T \in Seq(Token), NEW p \in Nat,
         NEW v \in Seq(Token \ {DQ}), p + Len(v) + 3 <= Len(T),
         ValueHeld(T, p, v), NEW m \in p + 1 .. p + Len(v) + 1, Match(T, m) > 0,
         NEW A \in Seq(Token)
  PROVE  LET R == A \o Between(T, p + 1, m - 1) \o Replacement(T, m) IN
         /\ R \in Seq(Token) /\ Len(R) > Len(A) /\ \A i \in 1 .. Len(A) : R[i] = A[i]
         /\ R[Len(A) + 1] = DQ
         /\ \E e \in Len(A) + 2 .. Len(R) - 1 :
              /\ R[e] = DQ /\ \A k \in Len(A) + 2 .. e - 1 : R[k] # DQ
              /\ R[e + 1] \notin {Space, Comma, Closing}
<1> DEFINE n == Len(T)
           L == Len(v)
           l == Len(A)
           B == A \o Between(T, p + 1, m - 1)
           c == Replacement(T, m)
           R == B \o c
           d == m - (p + 1)
<1>0. /\ n \in Nat /\ Len(T) = n /\ L \in Nat /\ Len(v) = L /\ l \in Nat /\ Len(A) = l
      /\ p + L + 3 <= n /\ m \in p + 1 .. p + L + 1
  BY LenProperties
<1> HIDE DEF n, L, l
<1>1. d \in Nat /\ d <= L /\ m = p + 1 + d
  BY <1>0
<1>2. /\ B \in Seq(Token) /\ Len(B) = l + d
      /\ \A i \in 1 .. l : B[i] = A[i]
      /\ \A i \in 1 .. d : B[l + i] = T[p + i]
  <2> DEFINE a == p + 1
             b == m - 1
  <2>1. /\ a \in 1 .. Len(T) + 1 /\ b \in a - 1 .. Len(T) /\ b - a + 1 = d
        /\ \A i \in 1 .. d : a + i - 1 = p + i
    BY <1>0, <1>1
  <2> HIDE DEF a, b
  <2>2. B = A \o Between(T, a, b)
    BY DEF a, b
  <2> HIDE DEF B
  <2>3. /\ B \in Seq(Token) /\ Len(B) = Len(A) + (b - a + 1)
        /\ \A i \in 1 .. Len(A) : B[i] = A[i]
        /\ \A i \in 1 .. b - a + 1 : B[Len(A) + i] = T[a + i - 1]
    BY <2>1, <2>2, Spliced
  <2> QED BY <1>0, <2>1, <2>3
<1>3. PICK w \in Words : \/ (c = <<DQ, w, DQ, Colon>>)
                        \/ (T[m] = Esc /\ c = <<Esc, w, DQ, Colon>>)
  <2>1. m \in 1 .. n
    BY <1>0
  <2> QED BY <1>0, <2>1, Replaced
<1>4. /\ c \in Seq(Token) /\ Len(c) = 4 /\ c[2] = w /\ c[3] = DQ /\ c[4] = Colon
      /\ c[1] = DQ \/ (T[m] = Esc /\ c[1] = Esc)
  <2>1. DQ \in Token /\ Esc \in Token /\ Colon \in Token /\ w \in Token
    BY DEF Token, Signs, Quotes
  <2>2. CASE c = <<DQ, w, DQ, Colon>>
    BY <2>1, <2>2
  <2>3. CASE T[m] = Esc /\ c = <<Esc, w, DQ, Colon>>
    BY <2>1, <2>3
  <2> QED BY <1>3, <2>2, <2>3
<1>5. w \notin {DQ, Space, Comma, Closing} /\ Esc # DQ /\ Colon \notin {Space, Comma, Closing}
  BY Tokens
<1> HIDE DEF B, c
<1>6. /\ R \in Seq(Token) /\ Len(R) = l + d + 4
      /\ \A i \in 1 .. l + d : R[i] = B[i]
      /\ \A i \in 1 .. 4 : R[l + d + i] = c[i]
  <2>1. /\ R \in Seq(Token) /\ Len(R) = Len(B) + Len(c)
        /\ \A i \in 1 .. Len(B) : R[i] = B[i]
        /\ \A i \in 1 .. Len(c) : R[Len(B) + i] = c[i]
    BY <1>2, <1>4, Joined
  <2> HIDE DEF R
  <2> QED BY <1>2, <1>4, <2>1
<1> HIDE DEF R, d
<1>7. \A i \in 1 .. l : R[i] = A[i]
  <2>1. \A i \in 1 .. l : i \in 1 .. l + d
    BY <1>0, <1>1
  <2> QED BY <1>2, <1>6, <2>1
<1>8. /\ R[l + d + 1] = c[1] /\ R[l + d + 2] = w
      /\ R[l + d + 3] = DQ /\ R[l + d + 4] = Colon
  <2>1. 1 \in 1 .. 4 /\ 2 \in 1 .. 4 /\ 3 \in 1 .. 4 /\ 4 \in 1 .. 4
    OBVIOUS
  <2>2. R[l + d + 1] = c[1] /\ R[l + d + 2] = c[2] /\ R[l + d + 3] = c[3] /\ R[l + d + 4] = c[4]
    BY <1>6, <2>1
  <2> QED BY <1>4, <2>2
<1>9. T[p + 1] = DQ /\ \A j \in 1 .. L : T[p + 1 + j] # DQ
  <2>1. \A j \in 1 .. L : v[j] # DQ
    BY <1>0, ElementOfSeq
  <2> QED BY <1>0, <2>1 DEF ValueHeld
<1>10. \A k \in l + 2 .. l + d : R[k] # DQ
  <2> SUFFICES ASSUME NEW k \in l + 2 .. l + d PROVE R[k] # DQ
    OBVIOUS
  <2>1. /\ k - l \in 1 .. d /\ l + (k - l) = k /\ k \in 1 .. l + d
        /\ k - l - 1 \in 1 .. L /\ p + 1 + (k - l - 1) = p + (k - l)
    BY <1>0, <1>1
  <2>2. R[k] = B[k] /\ B[l + (k - l)] = T[p + (k - l)]
    BY <1>2, <1>6, <2>1
  <2>3. T[p + (k - l)] # DQ
    BY <1>9, <2>1
  <2> QED BY <2>1, <2>2, <2>3
<1>11. R[l + 1] = DQ
  <2>1. CASE d = 0
    <3>1. T[m] = DQ
      BY <1>0, <1>1, <1>9, <2>1
    <3>2. c[1] = DQ /\ l + d + 1 = l + 1
      BY <1>0, <1>4, <1>5, <2>1, <3>1
    <3> QED BY <1>8, <3>2
  <2>2. CASE d # 0
    <3>1. 1 \in 1 .. d /\ l + 1 \in 1 .. l + d
      BY <1>0, <1>1, <2>2
    <3>2. R[l + 1] = B[l + 1] /\ B[l + 1] = T[p + 1]
      BY <1>2, <1>6, <3>1
    <3> QED BY <1>9, <3>2
  <2> QED BY <2>1, <2>2
<1>12. \E e \in l + 2 .. Len(R) - 1 :
        /\ R[e] = DQ /\ \A k \in l + 2 .. e - 1 : R[k] # DQ
        /\ R[e + 1] \notin {Space, Comma, Closing}
  <2>1. CASE c[1] = DQ /\ d # 0
    <3> DEFINE e == l + d + 1
    <3>1. /\ e \in l + 2 .. Len(R) - 1 /\ e + 1 = l + d + 2 /\ e - 1 = l + d
      BY <1>0, <1>1, <1>6, <2>1
    <3> HIDE DEF e
    <3>2. R[e] = DQ
      BY <1>8, <2>1 DEF e
    <3> QED BY <1>5, <1>8, <1>10, <3>1, <3>2
  <2>2. CASE c[1] # DQ \/ d = 0
    <3> DEFINE e == l + d + 3
    <3>1. /\ e \in l + 2 .. Len(R) - 1 /\ e + 1 = l + d + 4 /\ e - 1 = l + d + 2
      BY <1>0, <1>1, <1>6
    <3>2. R[e] = DQ
      BY <1>8
    <3>3. ASSUME NEW k \in l + 2 .. e - 1 PROVE R[k] # DQ
      <4>1. CASE k \in l + 2 .. l + d
        BY <1>10, <4>1
      <4>2. CASE k = l + d + 2
        BY <1>5, <1>8, <4>2
      <4>3. CASE k = l + d + 1
        <5>1. d # 0
          BY <1>0, <1>1, <4>3
        <5> QED BY <1>4, <1>5, <1>8, <2>2, <4>3, <5>1
      <4>4. k \in l + 2 .. l + d \/ k = l + d + 2 \/ k = l + d + 1
        BY <1>0, <1>1, <3>1
      <4> QED BY <4>1, <4>2, <4>3, <4>4
    <3> HIDE DEF e
    <3> QED BY <1>5, <1>8, <3>1, <3>2, <3>3
  <2> QED BY <2>1, <2>2
<1>13. Len(R) > l
  BY <1>0, <1>1, <1>6
<1> QED BY <1>6, <1>7, <1>11, <1>12, <1>13 DEF R, B, c, l

(* Where a match ends *)
LEMMA MatchEnds ==
  ASSUME NEW T \in Seq(Token), NEW m \in 1 .. Len(T)
  PROVE  Match(T, m) \in Nat /\ m + Match(T, m) <= Len(T) + 1
<1>1. Len(T) \in Nat
  BY LenProperties
<1>2. ASSUME NEW i \in Nat
      PROVE  WordColon(T, i) \in Nat /\ (WordColon(T, i) > 0 => i + WordColon(T, i) <= Len(T) + 1)
  BY <1>1 DEF WordColon, TokenIn
<1>3. /\ WordColon(T, m) \in Nat /\ WordColon(T, m + 1) \in Nat
      /\ WordColon(T, m) > 0 => m + WordColon(T, m) <= Len(T) + 1
      /\ WordColon(T, m + 1) > 0 => m + 1 + WordColon(T, m + 1) <= Len(T) + 1
  BY <1>1, <1>2
<1> QED BY <1>1, <1>3 DEF Match

(* The key of member i matches. *)
LEMMA KeyIn ==
  ASSUME NEW r \in Seq(Member), NEW off \in Offsets(r), NEW T \in Seq(Token),
         Whole(T, off, Forms(r), r), NEW i \in 1 .. Len(r)
  PROVE  /\ off[i - 1] \in Nat /\ off[i - 1] + 1 <= Len(T)
         /\ Match(T, off[i - 1] + 1) = KeySize(Forms(r)[i]) + 1
         /\ Replacement(T, off[i - 1] + 1) = <<DQ, r[i].key, DQ, Colon>>
<1> DEFINE q == Forms(r)[i]
           m == r[i]
           o == off[i - 1]
           n == Len(T)
<1>1. Len(r) \in Nat /\ m \in Member /\ q \in {"bare", DQ, SQ} /\ m.key \in Words
  BY RequestType, MemberType
<1>2. Size(q, m) \in Nat /\ KeySize(q) \in {1, 3} /\ Len(m.value) \in Nat
      /\ Size(q, m) = KeySize(q) + Len(m.value) + 3
  BY <1>1, SizeType
<1>3. o \in Nat /\ MemberHeld(T, o, q, m) /\ n \in Nat /\ o + Size(q, m) + 1 <= n
  <2>1. n \in Nat
    BY LenProperties
  <2>2. o \in Nat /\ MemberHeld(T, o, q, m)
    BY MemberIn
  <2>3. o + Size(q, m) + 1 <= n
    <3>1. CASE i < Len(r)
      BY <3>1, MemberIn
    <3>2. CASE i = Len(r)
      <4>1. n = o + Size(q, m) + 1
        BY <3>2, MemberIn
      <4> QED BY <2>1, <4>1
    <3> QED BY <1>1, <3>1, <3>2
  <2> QED BY <2>1, <2>2, <2>3
<1> HIDE DEF q, m, o, n
<1>4. o + KeySize(q) + 1 <= n /\ o + 1 <= n
  <2> DEFINE K == KeySize(q)
             Z == Size(q, m)
             L == Len(m.value)
  <2>1. K \in {1, 3} /\ L \in Nat /\ Z = K + L + 3 /\ o \in Nat /\ n \in Nat /\ o + Z + 1 <= n
    BY <1>2, <1>3
  <2> HIDE DEF K, Z, L
  <2>2. o + K + 1 <= n /\ o + 1 <= n
    BY <2>1
  <2> QED BY <2>2 DEF K
<1>5. KeyHeld(T, o, q, m.key) /\ Len(T) = n
  BY <1>3 DEF MemberHeld, n
<1>6. Match(T, o + 1) = KeySize(q) + 1 /\ Replacement(T, o + 1) = <<DQ, m.key, DQ, Colon>>
  BY <1>1, <1>3, <1>4, <1>5, KeyMatches
<1> QED BY <1>3, <1>4, <1>6 DEF q, m, o, n

(* Its value, and what there is to match from there to the next key *)
ValuePlace(off, r, i) == off[i - 1] + KeySize(Forms(r)[i]) + 1

LEMMA ValueIn ==
  ASSUME NEW r \in Seq(Member), NEW off \in Offsets(r), NEW T \in Seq(Token),
         Whole(T, off, Forms(r), r), NEW i \in 1 .. Len(r),
         NEW p, p = ValuePlace(off, r, i), NEW v, v = r[i].value
  PROVE  /\ p \in Nat /\ v \in Seq(Token \ {DQ}) /\ Len(v) \in Nat /\ Len(T) \in Nat
         /\ ValueHeld(T, p, v) /\ p + Len(v) + 3 <= Len(T)
         /\ i < Len(r) => off[i] = p + Len(v) + 3 /\ T[p + Len(v) + 3] = Comma
         /\ i = Len(r) => Len(T) = p + Len(v) + 3 /\ T[p + Len(v) + 3] = Closing
<1> DEFINE q == Forms(r)[i]
           m == r[i]
           o == off[i - 1]
           n == Len(T)
           L == Len(v)
<1>1. /\ Len(r) \in Nat /\ m \in Member /\ m.value \in Seq(Token \ {DQ})
      /\ v = m.value /\ n \in Nat
  <2>1. Len(r) \in Nat /\ m \in Member /\ n \in Nat
    BY RequestType, LenProperties
  <2> QED BY <2>1, MemberType
<1>2. /\ Size(q, m) \in Nat /\ KeySize(q) \in {1, 3} /\ L \in Nat
      /\ Size(q, m) = KeySize(q) + L + 3
  BY <1>1, SizeType
<1>3. o \in Nat /\ MemberHeld(T, o, q, m)
  BY MemberIn
<1>4. i < Len(r) => off[i] = o + Size(q, m) + 1 /\ off[i] <= n /\ T[off[i]] = Comma
  BY MemberIn
<1>5. i = Len(r) => n = o + Size(q, m) + 1 /\ T[n] = Closing
  BY MemberIn
<1>6. p = o + KeySize(q) + 1
  BY DEF ValuePlace
<1> HIDE DEF q, m, o, n, L
<1>7. ValueHeld(T, p, v)
  BY <1>1, <1>3, <1>6 DEF MemberHeld
<1>8. o + Size(q, m) + 1 = p + L + 3 /\ p \in Nat
  <2> DEFINE K == KeySize(q)
             Z == Size(q, m)
  <2>1. K \in {1, 3} /\ L \in Nat /\ Z = K + L + 3 /\ o \in Nat /\ p = o + K + 1
    BY <1>2, <1>3, <1>6
  <2> HIDE DEF K, Z
  <2>2. o + Z + 1 = p + L + 3 /\ p \in Nat
    BY <2>1
  <2> QED BY <2>2 DEF Z
<1>9. i < Len(r) \/ i = Len(r)
  BY <1>1
<1>10. p + L + 3 <= n
  BY <1>1, <1>4, <1>5, <1>8, <1>9
<1>11. i < Len(r) => off[i] = p + L + 3 /\ T[p + L + 3] = Comma
  BY <1>4, <1>8
<1>12. i = Len(r) => n = p + L + 3 /\ T[p + L + 3] = Closing
  BY <1>5, <1>8
<1> QED BY <1>1, <1>2, <1>7, <1>8, <1>10, <1>11, <1>12 DEF n, L

(* How far replace_all is: at the beginning, behind the key of member i    *)
(* with everything before it repaired, or behind a value it has broken.    *)
KeysRepaired(T, off, r, P, R, i, out) ==
  /\ P = ValuePlace(off, r, i) + 1 /\ Laid(R, out, Doubles(r), r, i - 1)
  /\ KeyHeld(R, out[i - 1], DQ, r[i].key) /\ Len(R) = out[i - 1] + 4

Progress(T, off, r, P, R) ==
  \/ P = 1 /\ R = <<>>
  \/ \E i \in 1 .. Len(r), out \in Offsets(r) : KeysRepaired(T, off, r, P, R, i, out)
  \/ \E i \in 1 .. Len(r), out \in Offsets(r) :
       Broken(R, out, r, i) /\ P \in 1 .. Len(T) + 1

(* The first match is the first key. *)
LEMMA FirstReplaced ==
  ASSUME NEW r \in Seq(Member), NEW off \in Offsets(r), NEW T \in Seq(Token),
         Whole(T, off, Forms(r), r), T[1] = Opening,
         NEW m \in 1 .. Len(T), Match(T, m) > 0, \A k \in 1 .. m - 1 : Match(T, k) = 0,
         NEW R, R = <<>> \o Between(T, 1, m - 1) \o Replacement(T, m)
  PROVE  R \in Seq(Token) /\ Progress(T, off, r, m + Match(T, m), R)
<1>1. Len(r) \in Nat /\ 1 \in 1 .. Len(r) /\ off[0] = 1 /\ Len(T) \in Nat
  <2>1. Len(r) \in Nat /\ Len(r) >= 1 /\ off[0] = 1
    BY RequestType DEF Whole, Laid
  <2> QED BY <2>1, LenProperties
<1>2. r[1].key \in Words
  BY <1>1, RequestType, MemberType
<1>3. /\ 2 <= Len(T) /\ Match(T, 2) = KeySize(Forms(r)[1]) + 1
      /\ Replacement(T, 2) = <<DQ, r[1].key, DQ, Colon>>
  <2>1. off[1 - 1] = 1 /\ 1 + 1 = 2
    BY <1>1
  <2> QED BY <1>1, <2>1, KeyIn
<1>4. KeySize(Forms(r)[1]) \in {1, 3}
  BY DEF KeySize
<1>5. Match(T, 1) = 0
  <2>1. Opening \notin Words \cup Quotes \cup {Esc}
    BY Tokens DEF Quotes
  <2> QED BY <2>1 DEF Match, WordColon, TokenIn
<1>6. m = 2
  <2>1. m # 1
    BY <1>5
  <2>2. ~(2 \in 1 .. m - 1)
    BY <1>3, <1>4
  <2> QED BY <1>1, <2>1, <2>2
<1> DEFINE A == <<>> \o Between(T, 1, 1)
<1>7. A \in Seq(Token) /\ Len(A) = 1
  <2>1. <<>> \in Seq(Token) /\ Len(<<>>) = 0 /\ 1 \in 1 .. Len(T) + 1 /\ 1 \in 1 - 1 .. Len(T)
    BY <1>1, <1>3
  <2> DEFINE e == <<>>
             a == 1
             b == 1
  <2>2. e \in Seq(Token) /\ a \in 1 .. Len(T) + 1 /\ b \in a - 1 .. Len(T)
    BY <2>1
  <2>3. A = e \o Between(T, a, b) /\ Len(e) + (b - a + 1) = 1
    BY <2>1
  <2> HIDE DEF A, e, a, b
  <2>4. A \in Seq(Token) /\ Len(A) = Len(e) + (b - a + 1)
    BY <2>2, <2>3, Spliced
  <2> QED BY <2>3, <2>4
<1>8. R = A \o <<DQ, r[1].key, DQ, Colon>>
  <2>1. m - 1 = 1
    BY <1>6
  <2> QED BY <1>3, <1>6, <2>1
<1> HIDE DEF A
<1>9. R \in Seq(Token) /\ Len(R) = 1 + 4 /\ KeyHeld(R, 1, DQ, r[1].key)
  BY <1>2, <1>7, <1>8, KeyAppended
<1>10. Laid(R, off, Doubles(r), r, 1 - 1) /\ off[1 - 1] = 1
  BY <1>1 DEF Laid
<1>11. m + Match(T, m) = ValuePlace(off, r, 1) + 1
  BY <1>1, <1>3, <1>4, <1>6 DEF ValuePlace
<1>12. KeysRepaired(T, off, r, m + Match(T, m), R, 1, off)
  BY <1>9, <1>10, <1>11 DEF KeysRepaired
<1> QED BY <1>1, <1>9, <1>12 DEF Progress

EndsIn(T, n, x) == Len(T) = n /\ T[n] = x

(* Behind a key, what is copied up to the sign makes a whole member. *)
LEMMA MemberCopied ==
  ASSUME NEW r \in Seq(Member), NEW off \in Offsets(r), NEW T \in Seq(Token),
         Whole(T, off, Forms(r), r), NEW P, NEW R \in Seq(Token),
         NEW i \in 1 .. Len(r), NEW out \in Offsets(r),
         KeysRepaired(T, off, r, P, R, i, out)
  PROVE  LET s == ValuePlace(off, r, i) + Len(r[i].value) + 3
             B == R \o Between(T, P, s) IN
         /\ B \in Seq(Token)
         /\ Laid(B, out, Doubles(r), r, i - 1)
         /\ MemberHeld(B, out[i - 1], DQ, r[i]) /\ EndsIn(B, out[i - 1] + Size(DQ, r[i]) + 1, T[s])
<1> DEFINE p == ValuePlace(off, r, i)
           m == r[i]
           L == Len(m.value)
           o == out[i - 1]
           n == Len(T)
           s == ValuePlace(off, r, i) + Len(r[i].value) + 3
           B == R \o Between(T, P, s)
<1>1. m \in Member /\ Len(r) \in Nat
  BY RequestType
<1>2. p \in Nat /\ L \in Nat /\ n \in Nat /\ ValueHeld(T, p, m.value) /\ p + L + 3 <= n
  BY ValueIn
<1>3. /\ P = p + 1 /\ Laid(R, out, Doubles(r), r, i - 1)
      /\ KeyHeld(R, o, DQ, m.key) /\ Len(R) = o + 4 /\ s = p + L + 3
  BY DEF KeysRepaired
<1>4. o \in Nat /\ i - 1 \in 0 .. Len(r)
  <2>1. i - 1 \in 0 .. Len(r)
    BY <1>1
  <2> QED BY <2>1 DEF Offsets
<1> HIDE DEF p, m, L, o, n, s
<1>5. B = R \o Between(T, p + 1, p + Len(m.value) + 3) /\ p + Len(m.value) + 3 <= Len(T)
  BY <1>2, <1>3 DEF n, L
<1> HIDE DEF B
<1>6. /\ B \in Seq(Token) /\ Len(B) = o + Size(DQ, m) + 1
      /\ \A j \in 1 .. o + 4 : B[j] = R[j]
      /\ MemberHeld(B, o, DQ, m) /\ B[Len(B)] = T[p + Len(m.value) + 3]
  <2> DEFINE C == R \o Between(T, p + 1, p + Len(m.value) + 3)
  <2>1. /\ p \in Nat /\ m \in Member /\ ValueHeld(T, p, m.value) /\ o \in Nat
        /\ Len(R) = o + 4 /\ KeyHeld(R, o, DQ, m.key) /\ p + Len(m.value) + 3 <= Len(T)
    BY <1>1, <1>2, <1>3, <1>4, <1>5
  <2>2. /\ C \in Seq(Token) /\ Len(C) = o + Size(DQ, m) + 1
        /\ \A j \in 1 .. o + 4 : C[j] = R[j]
        /\ MemberHeld(C, o, DQ, m) /\ C[Len(C)] = T[p + Len(m.value) + 3]
    BY <2>1, ValueCopied
  <2> QED BY <1>5, <2>2
<1>7. Laid(B, out, Doubles(r), r, i - 1)
  <2> DEFINE l == o + 4
             u == Len(B)
             z == Size(DQ, m)
  <2>1. z = L + 6 /\ u = o + z + 1 /\ Len(R) = l /\ \A j \in 1 .. l : B[j] = R[j]
    BY <1>1, <1>3, <1>6, SizeType DEF L
  <2> HIDE DEF z, u
  <2>2. l <= u
    BY <1>2, <1>4, <2>1
  <2>3. Len(R) <= Len(B) /\ \A j \in 1 .. Len(R) : B[j] = R[j]
    BY <2>1, <2>2 DEF u
  <2> HIDE DEF l
  <2> QED BY <1>3, <1>4, <1>6, <2>3, LaidExtends
<1> QED BY <1>3, <1>6, <1>7 DEF m, o, L, p, s, B, EndsIn

(* The next match behind a key is in its value, or it is the next key. *)
LEMMA NextMatch ==
  ASSUME NEW r \in Seq(Member), NEW off \in Offsets(r), NEW T \in Seq(Token),
         Whole(T, off, Forms(r), r), NEW i \in 1 .. Len(r),
         NEW p, p = ValuePlace(off, r, i), NEW v, v = r[i].value,
         NEW m \in p + 1 .. Len(T), Match(T, m) > 0, \A k \in p + 1 .. m - 1 : Match(T, k) = 0
  PROVE  \/ m \in p + 1 .. p + Len(v) + 1 /\ HasWordColon(v)
         \/ i < Len(r) /\ m = off[i] + 1
<1> DEFINE L == Len(v)
           n == Len(T)
<1>1. /\ p \in Nat /\ v \in Seq(Token \ {DQ}) /\ L \in Nat /\ n \in Nat
      /\ ValueHeld(T, p, v) /\ p + L + 3 <= n
      /\ i < Len(r) => off[i] = p + L + 3 /\ T[p + L + 3] = Comma
      /\ i = Len(r) => n = p + L + 3 /\ T[p + L + 3] = Closing
  <2>1. /\ p \in Nat /\ v \in Seq(Token \ {DQ}) /\ L \in Nat /\ n \in Nat
        /\ ValueHeld(T, p, v) /\ p + L + 3 <= n
    BY ValueIn
  <2>2. i < Len(r) => off[i] = p + L + 3 /\ T[p + L + 3] = Comma
    BY ValueIn
  <2>3. i = Len(r) => n = p + L + 3 /\ T[p + L + 3] = Closing
    BY ValueIn
  <2> QED BY <2>1, <2>2, <2>3
<1>2. Len(r) \in Nat /\ (i < Len(r) \/ i = Len(r))
  <2>1. Len(r) \in Nat
    BY RequestType
  <2> QED BY <2>1
<1>3. CASE m <= p + L + 3
  <2>1. m \in p + 1 .. p + L + 3 /\ Match(T, m) # 0 /\ T[p + L + 3] \in {Comma, Closing}
    BY <1>1, <1>2, <1>3
  <2> QED BY <1>1, <2>1, NoOtherMatch
<1> HIDE DEF L, n
<1>4. CASE m > p + L + 3
  <2>1. m \in Nat /\ m <= n
    BY <1>1 DEF n
  <2>2. i < Len(r)
    BY <1>1, <1>2, <1>4, <2>1
  <2>3. off[i] = p + L + 3
    BY <1>1, <2>2
  <2>4. Match(T, off[i] + 1) > 0
    <3>1. i + 1 \in 1 .. Len(r) /\ (i + 1) - 1 = i
      BY <1>2, <2>2
    <3>2. Match(T, off[i] + 1) = KeySize(Forms(r)[i + 1]) + 1
      BY <3>1, KeyIn
    <3> QED BY <3>2 DEF KeySize
  <2>5. ~(off[i] + 1 \in p + 1 .. m - 1)
    BY <2>4
  <2>6. m = off[i] + 1
    BY <1>1, <1>4, <2>1, <2>3, <2>5
  <2> QED BY <2>2, <2>6
<1>5. m \in Nat /\ p + L + 3 \in Nat
  BY <1>1
<1> QED BY <1>3, <1>4, <1>5

(* A match in the value breaks it. *)
LEMMA ValueReplaced ==
  ASSUME NEW r \in Seq(Member), NEW off \in Offsets(r), NEW T \in Seq(Token),
         Whole(T, off, Forms(r), r), NEW P, NEW R \in Seq(Token),
         NEW i \in 1 .. Len(r), NEW out \in Offsets(r),
         KeysRepaired(T, off, r, P, R, i, out), HasWordColon(r[i].value),
         NEW m \in P .. ValuePlace(off, r, i) + Len(r[i].value) + 1, Match(T, m) > 0,
         NEW U, U = R \o Between(T, P, m - 1) \o Replacement(T, m)
  PROVE  U \in Seq(Token) /\ Broken(U, out, r, i)
<1> DEFINE p == ValuePlace(off, r, i)
           v == r[i].value
           o == out[i - 1]
           n == Len(T)
<1>1. /\ p \in Nat /\ v \in Seq(Token \ {DQ}) /\ Len(v) \in Nat /\ n \in Nat
      /\ ValueHeld(T, p, v) /\ p + Len(v) + 3 <= n
  BY ValueIn
<1>2. /\ P = p + 1 /\ Laid(R, out, Doubles(r), r, i - 1)
      /\ KeyHeld(R, o, DQ, r[i].key) /\ Len(R) = o + 4
  BY DEF KeysRepaired
<1>3. o \in Nat /\ i - 1 \in 0 .. Len(r) /\ Len(r) \in Nat
  <2>1. Len(r) \in Nat
    BY RequestType
  <2>2. i - 1 \in 0 .. Len(r)
    BY <2>1
  <2> QED BY <2>1, <2>2 DEF Offsets
<1>4. m \in p + 1 .. p + Len(v) + 1
  BY <1>2
<1> HIDE DEF p, v, o, n
<1>5. /\ U \in Seq(Token) /\ Len(U) > Len(R) /\ \A j \in 1 .. Len(R) : U[j] = R[j]
      /\ U[Len(R) + 1] = DQ
      /\ \E e \in Len(R) + 2 .. Len(U) - 1 :
           /\ U[e] = DQ /\ \A k \in Len(R) + 2 .. e - 1 : U[k] # DQ
           /\ U[e + 1] \notin {Space, Comma, Closing}
  <2> DEFINE V == R \o Between(T, p + 1, m - 1) \o Replacement(T, m)
  <2>1. /\ V \in Seq(Token) /\ Len(V) > Len(R) /\ \A j \in 1 .. Len(R) : V[j] = R[j]
        /\ V[Len(R) + 1] = DQ
        /\ \E e \in Len(R) + 2 .. Len(V) - 1 :
             /\ V[e] = DQ /\ \A k \in Len(R) + 2 .. e - 1 : V[k] # DQ
             /\ V[e + 1] \notin {Space, Comma, Closing}
    BY <1>1, <1>4, ValueBroken DEF n
  <2>2. U = V
    BY <1>2
  <2> HIDE DEF V
  <2> QED BY <2>1, <2>2
<1>6. Len(U) \in Nat /\ Len(R) \in Nat /\ Len(R) <= Len(U)
  <2>1. Len(U) \in Nat /\ Len(R) \in Nat
    BY <1>5, LenProperties
  <2> QED BY <1>5, <2>1
<1>7. Laid(U, out, Doubles(r), r, i - 1)
  BY <1>2, <1>3, <1>5, <1>6, LaidExtends
<1>8. KeyHeld(U, o, DQ, r[i].key)
  <2>1. \A j \in 1 .. 4 : o + j \in 1 .. Len(R)
    BY <1>2, <1>3
  <2>2. \A j \in 1 .. 4 : U[o + j] = R[o + j]
    BY <1>5, <2>1
  <2> QED BY <1>2, <1>3, <2>2, KeyExtends
<1>9. Len(R) + 1 = o + 5 /\ Len(R) + 2 = o + 6
  BY <1>2, <1>3
<1>10. U[o + 5] = DQ /\ \E e \in o + 6 .. Len(U) - 1 :
           /\ U[e] = DQ /\ \A k \in o + 6 .. e - 1 : U[k] # DQ
           /\ U[e + 1] \notin {Space, Comma, Closing}
  BY <1>5, <1>9
<1> QED BY <1>5, <1>7, <1>8, <1>10 DEF Broken, o

LEMMA CommaCopied ==
  ASSUME NEW r \in Seq(Member), NEW off \in Offsets(r), NEW T \in Seq(Token),
         Whole(T, off, Forms(r), r), NEW P, NEW R \in Seq(Token),
         NEW i \in 1 .. Len(r) - 1, NEW out \in Offsets(r),
         KeysRepaired(T, off, r, P, R, i, out)
  PROVE  LET B == R \o Between(T, P, off[i]) IN
         /\ off[i] \in Nat /\ P \in Nat /\ P <= off[i]
         /\ B \in Seq(Token)
         /\ Laid(B, out, Doubles(r), r, i - 1)
         /\ MemberHeld(B, out[i - 1], DQ, r[i]) /\ EndsIn(B, out[i - 1] + Size(DQ, r[i]) + 1, Comma)
<1> DEFINE p == ValuePlace(off, r, i)
           v == r[i].value
           s == ValuePlace(off, r, i) + Len(r[i].value) + 3
           B == R \o Between(T, P, s)
<1>1. Len(r) \in Nat /\ i \in 1 .. Len(r) /\ i < Len(r)
  <2>1. Len(r) \in Nat
    BY RequestType
  <2> QED BY <2>1
<1>2. p \in Nat /\ Len(v) \in Nat /\ off[i] = p + Len(v) + 3 /\ T[p + Len(v) + 3] = Comma
  BY <1>1, ValueIn
<1>3. off[i] = s /\ T[s] = Comma
  BY <1>2
<1>4. P = p + 1
  BY DEF KeysRepaired
<1>5. off[i] \in Nat /\ P \in Nat /\ P <= off[i]
  BY <1>2, <1>4
<1>6. /\ B \in Seq(Token)
      /\ Laid(B, out, Doubles(r), r, i - 1)
      /\ MemberHeld(B, out[i - 1], DQ, r[i]) /\ EndsIn(B, out[i - 1] + Size(DQ, r[i]) + 1, T[s])
  BY <1>1, MemberCopied
<1> QED BY <1>3, <1>5, <1>6 DEF B

LEMMA ClosingCopied ==
  ASSUME NEW r \in Seq(Member), NEW off \in Offsets(r), NEW T \in Seq(Token),
         Whole(T, off, Forms(r), r), NEW P, NEW R \in Seq(Token),
         NEW out \in Offsets(r), KeysRepaired(T, off, r, P, R, Len(r), out)
  PROVE  LET B == R \o Between(T, P, Len(T)) IN
         B \in Seq(Token) /\ Whole(B, out, Doubles(r), r)
<1> DEFINE i == Len(r)
           p == ValuePlace(off, r, i)
           v == r[i].value
           s == ValuePlace(off, r, i) + Len(r[i].value) + 3
           B == R \o Between(T, P, s)
<1>1. Len(r) \in Nat /\ i \in 1 .. Len(r) /\ Len(r) >= 1
  <2>1. Len(r) \in Nat /\ Len(r) >= 1
    BY RequestType DEF Whole
  <2> QED BY <2>1
<1>2. KeysRepaired(T, off, r, P, R, i, out) /\ i = Len(r)
  OBVIOUS
<1> HIDE DEF i
<1>3. Len(T) = p + Len(v) + 3 /\ T[p + Len(v) + 3] = Closing
  BY <1>1, <1>2, ValueIn
<1>4. Len(T) = s /\ T[s] = Closing
  BY <1>3
<1>5. /\ B \in Seq(Token)
      /\ Laid(B, out, Doubles(r), r, i - 1)
      /\ MemberHeld(B, out[i - 1], DQ, r[i]) /\ EndsIn(B, out[i - 1] + Size(DQ, r[i]) + 1, T[s])
  BY <1>1, <1>2, MemberCopied
<1>6. Doubles(r)[i] = DQ
  BY <1>1, RequestType
<1>7. Whole(B, out, Doubles(r), r)
  <2> HIDE DEF B
  <2> QED BY <1>1, <1>2, <1>4, <1>5, <1>6 DEF Whole, EndsIn
<1> QED BY <1>4, <1>5, <1>7 DEF B

(* A member copied up to the comma is one more member at its place. *)
LEMMA MemberAdded ==
  ASSUME NEW r \in Seq(Member), NEW i \in 1 .. Len(r), NEW out \in Offsets(r),
         NEW B \in Seq(Token), NEW F, NEW new, new = [out EXCEPT ![i] = Len(B)],
         Laid(B, out, F, r, i - 1), MemberHeld(B, out[i - 1], F[i], r[i]),
         EndsIn(B, out[i - 1] + Size(F[i], r[i]) + 1, Comma)
  PROVE  new \in Offsets(r) /\ new[i] = Len(B) /\ Laid(B, new, F, r, i)
<1>1. Len(r) \in Nat /\ i \in 0 .. Len(r) /\ Len(B) \in Nat
  <2>1. Len(r) \in Nat /\ Len(B) \in Nat
    BY RequestType, LenProperties
  <2> QED BY <2>1
<1>2. /\ new \in Offsets(r) /\ new[i] = Len(B)
      /\ \A j \in 0 .. Len(r) : j # i => new[j] = out[j]
  BY <1>1 DEF Offsets
<1>3. new[0] = 1
  BY <1>1, <1>2 DEF Laid
<1>4. ASSUME NEW j \in 1 .. i
      PROVE  /\ new[j] = new[j - 1] + Size(F[j], r[j]) + 1 /\ new[j] <= Len(B)
             /\ MemberHeld(B, new[j - 1], F[j], r[j]) /\ B[new[j]] = Comma
  <2>1. new[j - 1] = out[j - 1]
    <3>1. j - 1 \in 0 .. Len(r) /\ j - 1 # i /\ j \in 1 .. Len(r)
      BY <1>1
    <3> QED BY <1>2, <3>1
  <2>2. CASE j = i
    BY <1>1, <1>2, <2>1, <2>2 DEF EndsIn
  <2>3. CASE j # i
    <3>1. j \in 1 .. i - 1 /\ j \in 0 .. Len(r)
      BY <1>1, <2>3
    <3>2. new[j] = out[j]
      BY <1>2, <2>3, <3>1
    <3> QED BY <2>1, <3>1, <3>2 DEF Laid
  <2> QED BY <2>2, <2>3
<1>5. Laid(B, new, F, r, i)
  BY <1>3, <1>4 DEF Laid
<1> QED BY <1>2, <1>5

(* The next key is repaired behind it. *)
LEMMA KeyReplaced ==
  ASSUME NEW r \in Seq(Member), NEW off \in Offsets(r), NEW T \in Seq(Token),
         Whole(T, off, Forms(r), r), NEW i \in 1 .. Len(r) - 1,
         NEW new \in Offsets(r), NEW B \in Seq(Token), Laid(B, new, Doubles(r), r, i),
         new[i] = Len(B), NEW U, U = B \o Replacement(T, off[i] + 1)
  PROVE  /\ U \in Seq(Token)
         /\ KeysRepaired(T, off, r, off[i] + 1 + Match(T, off[i] + 1), U, i + 1, new)
<1> DEFINE w == r[i + 1].key
<1>1. Len(r) \in Nat /\ i \in 0 .. Len(r) /\ i + 1 \in 1 .. Len(r) /\ (i + 1) - 1 = i
  <2>1. Len(r) \in Nat
    BY RequestType
  <2> QED BY <2>1
<1>2. /\ off[i] \in Nat /\ Match(T, off[i] + 1) = KeySize(Forms(r)[i + 1]) + 1
      /\ Replacement(T, off[i] + 1) = <<DQ, w, DQ, Colon>>
  BY <1>1, KeyIn
<1>3. U = B \o <<DQ, w, DQ, Colon>>
  BY <1>2
<1>4. w \in Words
  BY <1>1, RequestType, MemberType
<1> HIDE DEF w
<1>5. /\ U \in Seq(Token) /\ Len(U) = Len(B) + 4
      /\ \A j \in 1 .. Len(B) : U[j] = B[j]
      /\ KeyHeld(U, Len(B), DQ, w)
  <2> DEFINE V == B \o <<DQ, w, DQ, Colon>>
  <2>1. /\ V \in Seq(Token) /\ Len(V) = Len(B) + 4
        /\ \A j \in 1 .. Len(B) : V[j] = B[j]
        /\ KeyHeld(V, Len(B), DQ, w)
    BY <1>4, KeyAppended
  <2> QED BY <1>3, <2>1
<1>6. Len(B) <= Len(U)
  <2>1. Len(B) \in Nat
    BY LenProperties
  <2> QED BY <1>5, <2>1
<1>7. Laid(U, new, Doubles(r), r, i)
  BY <1>1, <1>5, <1>6, LaidExtends
<1>8. off[i] + 1 + Match(T, off[i] + 1) = ValuePlace(off, r, i + 1) + 1
  <2> DEFINE K == KeySize(Forms(r)[i + 1])
             x == off[i]
             M == Match(T, off[i] + 1)
             V == ValuePlace(off, r, i + 1)
  <2>1. K \in Nat /\ x \in Nat /\ M = K + 1 /\ V = x + K + 1
    <3>1. K \in Nat
      BY DEF KeySize
    <3>2. V = off[(i + 1) - 1] + K + 1
      BY DEF ValuePlace
    <3> QED BY <1>1, <1>2, <3>1, <3>2
  <2> HIDE DEF K, x, M, V
  <2>2. x + 1 + M = V + 1
    BY <2>1
  <2> QED BY <2>2 DEF M, V, x
<1>9. new[(i + 1) - 1] = Len(B) /\ Laid(U, new, Doubles(r), r, (i + 1) - 1)
  BY <1>1, <1>7
<1> QED BY <1>5, <1>8, <1>9 DEF KeysRepaired, w

LEMMA KeyBehind ==
  ASSUME NEW r \in Seq(Member), NEW off \in Offsets(r), NEW T \in Seq(Token),
         Whole(T, off, Forms(r), r), NEW P, NEW R \in Seq(Token),
         NEW i \in 1 .. Len(r) - 1, NEW out \in Offsets(r), KeysRepaired(T, off, r, P, R, i, out)
  PROVE  LET U == R \o Between(T, P, off[i]) \o Replacement(T, off[i] + 1) IN
         /\ U \in Seq(Token) /\ off[i] \in Nat
         /\ Progress(T, off, r, off[i] + 1 + Match(T, off[i] + 1), U)
<1> DEFINE B == R \o Between(T, P, off[i])
           new == [out EXCEPT ![i] = Len(B)]
           U == B \o Replacement(T, off[i] + 1)
<1>1. Len(r) \in Nat /\ i \in 1 .. Len(r) /\ i + 1 \in 1 .. Len(r)
  <2>1. Len(r) \in Nat
    BY RequestType
  <2> QED BY <2>1
<1>2. off[i] \in Nat
  BY CommaCopied
<1>3. B \in Seq(Token)
  BY CommaCopied
<1>4. Laid(B, out, Doubles(r), r, i - 1)
  BY CommaCopied
<1>5. MemberHeld(B, out[i - 1], DQ, r[i]) /\ EndsIn(B, out[i - 1] + Size(DQ, r[i]) + 1, Comma)
  BY CommaCopied
<1> HIDE DEF B
<1>6. new \in Offsets(r) /\ new[i] = Len(B) /\ Laid(B, new, Doubles(r), r, i)
  <2>1. Doubles(r)[i] = DQ
    BY <1>1, RequestType
  <2> QED BY <1>1, <1>3, <1>4, <1>5, <2>1, MemberAdded
<1> HIDE DEF new
<1>7. /\ U \in Seq(Token)
      /\ KeysRepaired(T, off, r, off[i] + 1 + Match(T, off[i] + 1), U, i + 1, new)
  BY <1>3, <1>6, KeyReplaced
<1> HIDE DEF U
<1>8. Progress(T, off, r, off[i] + 1 + Match(T, off[i] + 1), U)
  BY <1>1, <1>6, <1>7 DEF Progress
<1> QED BY <1>2, <1>7, <1>8 DEF U, B

LEMMA BehindKey ==
  ASSUME NEW r \in Seq(Member), NEW off \in Offsets(r), NEW T \in Seq(Token),
         Whole(T, off, Forms(r), r), NEW P, NEW R \in Seq(Token),
         NEW i \in 1 .. Len(r), NEW out \in Offsets(r), KeysRepaired(T, off, r, P, R, i, out),
         NEW m \in P .. Len(T), Match(T, m) > 0, \A k \in P .. m - 1 : Match(T, k) = 0,
         NEW U, U = R \o Between(T, P, m - 1) \o Replacement(T, m)
  PROVE  U \in Seq(Token) /\ Progress(T, off, r, m + Match(T, m), U)
<1> DEFINE p == ValuePlace(off, r, i)
           v == r[i].value
<1>1. P = p + 1 /\ p \in Nat /\ Len(T) \in Nat /\ Len(v) \in Nat /\ Len(r) \in Nat
  <2>1. P = p + 1
    BY DEF KeysRepaired
  <2>2. p \in Nat /\ Len(T) \in Nat /\ Len(v) \in Nat
    BY ValueIn
  <2> QED BY <2>1, <2>2, RequestType
<1>2. \/ m \in p + 1 .. p + Len(v) + 1 /\ HasWordColon(v)
      \/ i < Len(r) /\ m = off[i] + 1
  <2>1. m \in p + 1 .. Len(T) /\ \A k \in p + 1 .. m - 1 : Match(T, k) = 0
    BY <1>1
  <2> QED BY <2>1, NextMatch
<1>3. m \in 1 .. Len(T)
  BY <1>1
<1>4. CASE m \in p + 1 .. p + Len(v) + 1 /\ HasWordColon(v)
  <2>1. m \in P .. p + Len(v) + 1
    BY <1>1, <1>4
  <2>2. U \in Seq(Token) /\ Broken(U, out, r, i)
    BY <1>4, <2>1, ValueReplaced
  <2>3. m + Match(T, m) \in 1 .. Len(T) + 1
    <3>1. Match(T, m) \in Nat /\ m + Match(T, m) <= Len(T) + 1
      BY <1>3, MatchEnds
    <3> QED BY <1>1, <1>3, <3>1
  <2> QED BY <2>2, <2>3 DEF Progress
<1>5. CASE i < Len(r) /\ m = off[i] + 1
  <2>1. i \in 1 .. Len(r) - 1
    BY <1>1, <1>5
  <2> DEFINE V == R \o Between(T, P, off[i]) \o Replacement(T, off[i] + 1)
  <2>2. /\ V \in Seq(Token) /\ off[i] \in Nat
        /\ Progress(T, off, r, off[i] + 1 + Match(T, off[i] + 1), V)
    BY <2>1, KeyBehind
  <2>3. m - 1 = off[i]
    BY <1>5, <2>2
  <2> QED BY <1>5, <2>2, <2>3
<1> QED BY <1>2, <1>4, <1>5

(* A value once broken stays so. *)
LEMMA BehindBreak ==
  ASSUME NEW r \in Seq(Member), NEW off \in Offsets(r), NEW T \in Seq(Token),
         NEW P \in 1 .. Len(T) + 1, NEW R \in Seq(Token),
         NEW i \in 1 .. Len(r), NEW out \in Offsets(r), Broken(R, out, r, i),
         NEW m \in P .. Len(T), Match(T, m) > 0,
         NEW U, U = R \o Between(T, P, m - 1) \o Replacement(T, m)
  PROVE  U \in Seq(Token) /\ Progress(T, off, r, m + Match(T, m), U)
<1>1. Len(T) \in Nat /\ m \in 1 .. Len(T) /\ m - 1 \in P - 1 .. Len(T)
  <2>1. Len(T) \in Nat
    BY LenProperties
  <2> QED BY <2>1
<1> DEFINE A == R \o Between(T, P, m - 1)
           C == Replacement(T, m)
<1>2. A \in Seq(Token) /\ Len(A) = Len(R) + ((m - 1) - P + 1) /\ \A j \in 1 .. Len(R) : A[j] = R[j]
  BY <1>1, Spliced
<1>3. C \in Seq(Token)
  <2>1. PICK w \in Words : C = <<DQ, w, DQ, Colon>> \/ C = <<Esc, w, DQ, Colon>>
    BY <1>1, Replaced
  <2>2. w \in Token /\ DQ \in Token /\ Esc \in Token /\ Colon \in Token
    BY DEF Token, Signs, Quotes
  <2>3. <<DQ, w, DQ, Colon>> \in Seq(Token) /\ <<Esc, w, DQ, Colon>> \in Seq(Token)
    BY <2>2
  <2> HIDE DEF C
  <2> QED BY <2>1, <2>3
<1> HIDE DEF A, C
<1>4. U = A \o C
  BY DEF A, C
<1>5. U \in Seq(Token) /\ Len(U) = Len(A) + Len(C) /\ \A j \in 1 .. Len(A) : U[j] = A[j]
  <2> DEFINE V == A \o C
  <2>1. V \in Seq(Token) /\ Len(V) = Len(A) + Len(C) /\ \A j \in 1 .. Len(A) : V[j] = A[j]
    BY <1>2, <1>3, Joined
  <2> QED BY <1>4, <2>1
<1>6. Len(R) <= Len(A) /\ Len(A) <= Len(U) /\ Len(R) \in Nat /\ Len(A) \in Nat /\ Len(U) \in Nat
  <2>1. Len(R) \in Nat /\ Len(A) \in Nat /\ Len(C) \in Nat
    BY <1>2, <1>3, LenProperties
  <2> QED BY <1>1, <1>2, <1>5, <2>1
<1>7. Len(R) <= Len(U) /\ \A j \in 1 .. Len(R) : U[j] = R[j]
  BY <1>2, <1>5, <1>6
<1>8. Broken(U, out, r, i)
  BY <1>5, <1>7, BrokenExtends
<1>9. m + Match(T, m) \in 1 .. Len(T) + 1
  <2>1. Match(T, m) \in Nat /\ m + Match(T, m) <= Len(T) + 1
    BY <1>1, MatchEnds
  <2> QED BY <1>1, <2>1
<1> QED BY <1>5, <1>8, <1>9 DEF Progress

(* Every step of replace_all goes on from such a state to another. *)
LEMMA ReplaceStep ==
  ASSUME NEW r \in Seq(Member), NEW off \in Offsets(r), NEW T \in Seq(Token),
         Whole(T, off, Forms(r), r), T[1] = Opening, NEW P, NEW R \in Seq(Token),
         Progress(T, off, r, P, R),
         NEW m \in P .. Len(T), Match(T, m) > 0, \A k \in P .. m - 1 : Match(T, k) = 0,
         NEW U, U = R \o Between(T, P, m - 1) \o Replacement(T, m)
  PROVE  U \in Seq(Token) /\ Progress(T, off, r, m + Match(T, m), U)
<1>1. CASE P = 1 /\ R = <<>>
  BY <1>1, FirstReplaced
<1>2. CASE \E i \in 1 .. Len(r), out \in Offsets(r) : KeysRepaired(T, off, r, P, R, i, out)
  BY <1>2, BehindKey
<1>3. CASE \E i \in 1 .. Len(r), out \in Offsets(r) :
             Broken(R, out, r, i) /\ P \in 1 .. Len(T) + 1
  BY <1>3, BehindBreak
<1> QED BY <1>1, <1>2, <1>3 DEF Progress

(* What comes out has all keys in double quotes or a broken value. *)
Repaired(T, off, r) ==
  Whole(T, off, Doubles(r), r) \/ \E i \in 1 .. Len(r) : Broken(T, off, r, i)

LEMMA LastStep ==
  ASSUME NEW r \in Seq(Member), NEW off \in Offsets(r), NEW T \in Seq(Token),
         Whole(T, off, Forms(r), r), NEW P, NEW R \in Seq(Token),
         Progress(T, off, r, P, R), \A k \in P .. Len(T) : Match(T, k) = 0,
         NEW U, U = R \o Between(T, P, Len(T))
  PROVE  U \in Seq(Token) /\ \E out \in Offsets(r) : Repaired(U, out, r)
<1>1. Len(r) \in Nat /\ Len(r) >= 1 /\ off[0] = 1 /\ Len(T) \in Nat
  <2>1. Len(r) \in Nat /\ Len(r) >= 1 /\ off[0] = 1
    BY RequestType DEF Whole, Laid
  <2> QED BY <2>1, LenProperties
<1>2. ASSUME NEW i \in 1 .. Len(r), P <= off[i - 1] + 1, P \in Nat PROVE FALSE
  <2>1. /\ off[i - 1] \in Nat /\ off[i - 1] + 1 <= Len(T)
        /\ Match(T, off[i - 1] + 1) = KeySize(Forms(r)[i]) + 1
    BY KeyIn
  <2>2. off[i - 1] + 1 \in P .. Len(T)
    BY <1>1, <1>2, <2>1
  <2> QED BY <2>1, <2>2 DEF KeySize
<1>3. CASE P = 1 /\ R = <<>>
  <2>1. 1 \in 1 .. Len(r) /\ 1 <= off[1 - 1] + 1
    BY <1>1
  <2> QED BY <1>2, <1>3, <2>1
<1>4. ASSUME NEW i \in 1 .. Len(r), NEW out \in Offsets(r), KeysRepaired(T, off, r, P, R, i, out)
      PROVE  U \in Seq(Token) /\ Repaired(U, out, r)
  <2>1. i = Len(r)
    <3> SUFFICES ASSUME i < Len(r) PROVE FALSE
      BY <1>1
    <3>1. i + 1 \in 1 .. Len(r) /\ (i + 1) - 1 = i /\ i \in 1 .. Len(r) - 1
      BY <1>1
    <3>2. off[i] \in Nat /\ P \in Nat /\ P <= off[i]
      BY <1>4, <3>1, CommaCopied
    <3>3. P <= off[(i + 1) - 1] + 1
      BY <3>1, <3>2
    <3> QED BY <1>2, <3>1, <3>2, <3>3
  <2> DEFINE B == R \o Between(T, P, Len(T))
  <2>2. B \in Seq(Token) /\ Whole(B, out, Doubles(r), r)
    BY <1>4, <2>1, ClosingCopied
  <2> QED BY <2>2 DEF Repaired
<1>5. ASSUME NEW i \in 1 .. Len(r), NEW out \in Offsets(r), Broken(R, out, r, i), P \in 1 .. Len(T) + 1
      PROVE  U \in Seq(Token) /\ Repaired(U, out, r)
  <2>1. Len(T) \in P - 1 .. Len(T)
    BY <1>1, <1>5
  <2>2. /\ U \in Seq(Token) /\ Len(U) = Len(R) + (Len(T) - P + 1)
        /\ \A j \in 1 .. Len(R) : U[j] = R[j]
    <3> DEFINE V == R \o Between(T, P, Len(T))
    <3>1. /\ V \in Seq(Token) /\ Len(V) = Len(R) + (Len(T) - P + 1)
          /\ \A j \in 1 .. Len(R) : V[j] = R[j]
      BY <1>5, <2>1, Spliced
    <3> QED BY <3>1
  <2>3. Len(R) <= Len(U)
    <3>1. Len(R) \in Nat
      BY LenProperties
    <3> QED BY <1>1, <1>5, <2>2, <3>1
  <2>4. Broken(U, out, r, i)
    BY <1>5, <2>2, <2>3, BrokenExtends
  <2> QED BY <2>2, <2>4 DEF Repaired
<1> QED BY <1>3, <1>4, <1>5 DEF Progress

-----------------------------------------------------------------------------
(* Writing the request.                                                    *)

(* The text holds the first n members, with nothing behind the last. *)
Holds(T, off, F, r, n) ==
  /\ Laid(T, off, F, r, n - 1) /\ MemberHeld(T, off[n - 1], F[n], r[n])
  /\ Len(T) = off[n - 1] + Size(F[n], r[n])

LEMMA MemberAppended ==
  ASSUME NEW A \in Seq(Token), NEW m \in Member
  PROVE  LET U == A \o MemberText(m) IN
         /\ U \in Seq(Token) /\ Len(U) = Len(A) + Size(m.form, m)
         /\ \A j \in 1 .. Len(A) : U[j] = A[j]
         /\ MemberHeld(U, Len(A), m.form, m)
<1> DEFINE M == MemberText(m)
           U == A \o M
<1>1. M \in Seq(Token) /\ Len(M) = Size(m.form, m) /\ MemberHeld(M, 0, m.form, m)
  BY WrittenMember
<1> HIDE DEF M
<1>2. /\ U \in Seq(Token) /\ Len(U) = Len(A) + Len(M)
      /\ \A j \in 1 .. Len(A) : U[j] = A[j]
      /\ \A j \in 1 .. Len(M) : U[Len(A) + j] = M[j]
  BY <1>1, Joined
<1> HIDE DEF U
<1>3. Len(A) \in Nat
  BY LenProperties
<1>4. \A j \in 1 .. Size(m.form, m) : U[Len(A) + j] = M[0 + j]
  BY <1>1, <1>2
<1>5. MemberHeld(U, Len(A), m.form, m)
  BY <1>1, <1>3, <1>4, HeldMoves
<1> QED BY <1>1, <1>2, <1>5 DEF U, M

LEMMA FirstWritten ==
  ASSUME NEW r \in Seq(Member), Len(r) >= 1, NEW T \in Seq(Token), Len(T) = 1,
         NEW U, U = T \o MemberText(r[1])
  PROVE  /\ U \in Seq(Token) /\ U[1] = T[1]
         /\ \E off \in Offsets(r) : Holds(U, off, Forms(r), r, 1)
<1> DEFINE m == r[1]
           off == [j \in 0 .. Len(r) |-> 1]
<1>1. Len(r) \in Nat /\ m \in Member /\ Forms(r)[1] = m.form
  <2>1. Len(r) \in Nat
    BY RequestType
  <2>2. 1 \in 1 .. Len(r)
    BY <2>1
  <2> QED BY <2>1, <2>2, RequestType
<1> HIDE DEF m
<1>2. U = T \o MemberText(m)
  BY DEF m
<1>3. /\ U \in Seq(Token) /\ Len(U) = 1 + Size(m.form, m) /\ U[1] = T[1]
      /\ MemberHeld(U, 1, m.form, m)
  <2> DEFINE V == T \o MemberText(m)
  <2>1. /\ V \in Seq(Token) /\ Len(V) = Len(T) + Size(m.form, m)
        /\ \A j \in 1 .. Len(T) : V[j] = T[j]
        /\ MemberHeld(V, Len(T), m.form, m)
    BY <1>1, MemberAppended
  <2> HIDE DEF V
  <2>2. U = V
    BY <1>2 DEF V
  <2> QED BY <2>1, <2>2
<1>4. off \in Offsets(r) /\ off[0] = 1 /\ 1 - 1 = 0
  BY <1>1 DEF Offsets
<1> HIDE DEF off
<1>5. Laid(U, off, Forms(r), r, 0)
  BY <1>4 DEF Laid
<1>6. Holds(U, off, Forms(r), r, 1)
  BY <1>1, <1>3, <1>4, <1>5 DEF Holds, m
<1> QED BY <1>3, <1>4, <1>6

LEMMA NextWritten ==
  ASSUME NEW r \in Seq(Member), NEW off \in Offsets(r), NEW n \in 1 .. Len(r) - 1,
         NEW T \in Seq(Token), Holds(T, off, Forms(r), r, n)
  PROVE  LET U == T \o <<Comma>> \o MemberText(r[n + 1]) IN
         /\ U \in Seq(Token) /\ U[1] = T[1]
         /\ \E new \in Offsets(r) : Holds(U, new, Forms(r), r, n + 1)
<1> DEFINE m == r[n + 1]
           F == Forms(r)
           B == T \o <<Comma>>
           U == B \o MemberText(m)
           new == [off EXCEPT ![n] = Len(B)]
<1>1. Len(r) \in Nat /\ n \in 1 .. Len(r) /\ n - 1 \in 0 .. Len(r) /\ n + 1 \in 1 .. Len(r)
      /\ n \in 0 .. Len(r) /\ (n + 1) - 1 = n
  <2>1. Len(r) \in Nat
    BY RequestType
  <2> QED BY <2>1
<1>2. m \in Member /\ F[n + 1] = m.form /\ r[n] \in Member
  BY <1>1, RequestType
<1>3. off[n - 1] \in Nat /\ Size(F[n], r[n]) \in Nat
  BY <1>1, <1>2, SizeType DEF Offsets
<1>4. /\ Laid(T, off, F, r, n - 1) /\ MemberHeld(T, off[n - 1], F[n], r[n])
      /\ Len(T) = off[n - 1] + Size(F[n], r[n])
  BY DEF Holds
<1> HIDE DEF m, F
<1>5. /\ B \in Seq(Token) /\ Len(B) = Len(T) + 1 /\ \A j \in 1 .. Len(T) : B[j] = T[j]
      /\ B[Len(T) + 1] = Comma
  <2> DEFINE c == <<Comma>>
  <2>1. c \in Seq(Token) /\ Len(c) = 1 /\ c[1] = Comma /\ 1 \in 1 .. Len(c)
    BY DEF Token, Signs
  <2> HIDE DEF c
  <2> DEFINE C == T \o c
  <2>2. /\ C \in Seq(Token) /\ Len(C) = Len(T) + Len(c)
        /\ \A j \in 1 .. Len(T) : C[j] = T[j]
        /\ \A j \in 1 .. Len(c) : C[Len(T) + j] = c[j]
    BY <2>1, Joined
  <2> HIDE DEF C
  <2>3. B = C
    BY DEF C, c
  <2> HIDE DEF B
  <2> QED BY <2>1, <2>2, <2>3
<1> HIDE DEF B
<1>6. Len(T) \in Nat /\ Len(B) \in Nat /\ Len(T) <= Len(B)
  <2>1. Len(T) \in Nat
    BY LenProperties
  <2> QED BY <1>5, <2>1
<1>7. Laid(B, off, F, r, n - 1)
  BY <1>1, <1>4, <1>5, <1>6, LaidExtends
<1>8. MemberHeld(B, off[n - 1], F[n], r[n])
  <2> DEFINE o == off[n - 1]
             z == Size(F[n], r[n])
  <2>1. o \in Nat /\ z \in Nat /\ Len(T) = o + z
    BY <1>3, <1>4
  <2> HIDE DEF o, z
  <2>2. \A j \in 1 .. z : o + j \in 1 .. Len(T)
    BY <2>1
  <2>3. \A j \in 1 .. z : B[o + j] = T[o + j]
    BY <1>5, <2>2
  <2>4. \A j \in 1 .. Size(F[n], r[n]) : B[o + j] = T[o + j]
    BY <2>3 DEF z
  <2>5. MemberHeld(T, o, F[n], r[n])
    BY <1>4 DEF o
  <2>6. MemberHeld(B, o, F[n], r[n])
    BY <1>2, <2>1, <2>4, <2>5, HeldMoves
  <2> QED BY <2>6 DEF o
<1>9. EndsIn(B, off[n - 1] + Size(F[n], r[n]) + 1, Comma)
  <2> DEFINE e == off[n - 1] + Size(F[n], r[n])
  <2>1. Len(T) = e
    BY <1>4
  <2> HIDE DEF e
  <2>2. EndsIn(B, e + 1, Comma)
    BY <1>5, <2>1 DEF EndsIn
  <2> QED BY <2>2 DEF e
<1>10. new \in Offsets(r) /\ new[n] = Len(B) /\ Laid(B, new, F, r, n)
  BY <1>1, <1>5, <1>7, <1>8, <1>9, MemberAdded
<1> HIDE DEF new
<1>11. /\ U \in Seq(Token) /\ Len(U) = Len(B) + Size(m.form, m)
       /\ \A j \in 1 .. Len(B) : U[j] = B[j]
       /\ MemberHeld(U, Len(B), m.form, m)
  BY <1>2, <1>5, MemberAppended
<1> HIDE DEF U
<1>12. Laid(U, new, F, r, n)
  <2>1. Len(B) <= Len(U)
    <3>1. Size(m.form, m) \in Nat
      BY <1>2, SizeType
    <3> QED BY <1>6, <1>11, <3>1
  <2> QED BY <1>1, <1>5, <1>10, <1>11, <2>1, LaidExtends
<1>13. Holds(U, new, F, r, n + 1)
  BY <1>1, <1>2, <1>10, <1>11, <1>12 DEF Holds, m
<1>14. U[1] = T[1]
  <2>1. 1 \in 1 .. Len(T) /\ 1 \in 1 .. Len(B)
    <3>1. Size(F[n], r[n]) >= 1
      <4>1. r[n] \in Member
        BY <1>2
      <4> DEFINE z == Size(F[n], r[n])
                 k == KeySize(F[n])
                 l == Len(r[n].value)
      <4>2. z = k + l + 3 /\ k \in {1, 3} /\ l \in Nat
        BY <4>1, SizeType
      <4> HIDE DEF z, k, l
      <4>3. z >= 1
        BY <4>2
      <4> QED BY <4>3 DEF z
    <3> QED BY <1>3, <1>4, <1>5, <1>6, <3>1
  <2> QED BY <1>5, <1>11, <2>1
<1> QED BY <1>10, <1>11, <1>13, <1>14 DEF U, B, m, F

LEMMA ClosingAppended ==
  ASSUME NEW T \in Seq(Token)
  PROVE  LET U == Append(T, Closing) IN
         /\ U \in Seq(Token) /\ Len(U) = Len(T) + 1
         /\ \A j \in 1 .. Len(T) : U[j] = T[j]
         /\ U[Len(T) + 1] = Closing
<1>1. Closing \in Token
  BY DEF Token, Signs
<1> QED BY <1>1, AppendProperties

LEMMA AllWritten ==
  ASSUME NEW r \in Seq(Member), NEW off \in Offsets(r), Len(r) >= 1,
         NEW T \in Seq(Token), Len(T) >= 1, Holds(T, off, Forms(r), r, Len(r))
  PROVE  LET U == Append(T, Closing) IN
         U \in Seq(Token) /\ U[1] = T[1] /\ Whole(U, off, Forms(r), r)
<1> DEFINE n == Len(r)
           F == Forms(r)
           U == Append(T, Closing)
           o == off[n - 1]
           z == Size(F[n], r[n])
<1>1. n \in Nat /\ n \in 1 .. n /\ n - 1 \in 0 .. n /\ Len(T) \in Nat
  <2>1. n \in Nat /\ Len(T) \in Nat
    BY RequestType, LenProperties
  <2> QED BY <2>1
<1>2. /\ U \in Seq(Token) /\ Len(U) = Len(T) + 1 /\ \A j \in 1 .. Len(T) : U[j] = T[j]
      /\ U[Len(T) + 1] = Closing
  BY ClosingAppended
<1>3. r[n] \in Member /\ o \in Nat /\ z \in Nat
  <2>1. r[n] \in Member
    BY <1>1, RequestType
  <2> QED BY <1>1, <2>1, SizeType DEF Offsets
<1>4. Laid(T, off, F, r, n - 1) /\ MemberHeld(T, o, F[n], r[n]) /\ Len(T) = o + z
  BY DEF Holds
<1> HIDE DEF U
<1>5. Len(T) <= Len(U)
  BY <1>1, <1>2
<1>6. Laid(U, off, F, r, n - 1)
  <2> HIDE DEF F
  <2> QED BY <1>1, <1>2, <1>4, <1>5, LaidExtends
<1>7. MemberHeld(U, o, F[n], r[n])
  <2> HIDE DEF o
  <2>1. \A j \in 1 .. Size(F[n], r[n]) : U[o + j] = T[o + j]
    <3> HIDE DEF z
    <3>1. \A j \in 1 .. z : o + j \in 1 .. Len(T)
      BY <1>3, <1>4
    <3>2. \A j \in 1 .. z : U[o + j] = T[o + j]
      BY <1>2, <3>1
    <3> QED BY <3>2 DEF z
  <2> HIDE DEF F, n
  <2> QED BY <1>3, <1>4, <2>1, HeldMoves
<1>8. Len(U) = o + z + 1 /\ U[Len(U)] = Closing
  BY <1>2, <1>4
<1>9. Whole(U, off, F, r)
  BY <1>6, <1>7, <1>8 DEF Whole
<1>10. U[1] = T[1]
  BY <1>1, <1>2
<1> QED BY <1>2, <1>9, <1>10 DEF U

-----------------------------------------------------------------------------
(* The inductive invariant, by stage.                                      *)

Parsed == [key : Seq(Token), value : Seq(Token)]

RepairTypeOK ==
  /\ written \in Requests /\ text \in Seq(Token) /\ repaired \in Seq(Token)
  /\ place \in Nat /\ members \in Seq(Parsed)
  /\ stage \in {"writing", "received", "repairing", "repaired", "parsed", "error"}

(* The members parsed so far are the first of those written, and the next  *)
(* one is where the parser is.                                             *)
ParsedTo(off) ==
  /\ Len(members) < Len(written) /\ place = off[Len(members)] + 1
  /\ \A j \in 1 .. Len(members) : members[j] = Wrote(written[j])

Writing ==
  stage = "writing" =>
    /\ place \in 1 .. Len(written) + 1 /\ members = <<>> /\ repaired = <<>>
    /\ Len(text) >= 1 /\ text[1] = Opening
    /\ IF place = 1 THEN text = <<Opening>>
       ELSE \E off \in Offsets(written) : Holds(text, off, Forms(written), written, place - 1)

Received ==
  stage = "received" =>
    /\ text[1] = Opening /\ repaired = <<>>
    /\ \/ written = <<>> /\ Len(text) = 2 /\ text[2] = Closing /\ place = 2 /\ members = <<>>
       \/ \E off \in Offsets(written) : Whole(text, off, Forms(written), written) /\ ParsedTo(off)

SomeOther == \E i \in DOMAIN written : written[i].form # DQ

Repairing ==
  stage = "repairing" =>
    /\ text[1] = Opening /\ members = <<>> /\ SomeOther
    /\ \E off \in Offsets(written) :
         Whole(text, off, Forms(written), written) /\ Progress(text, off, written, place, repaired)

BrokenAt(off) ==
  \E i \in 1 .. Len(written) : Broken(text, off, written, i) /\ Len(members) < i

SecondTry ==
  stage = "repaired" =>
    /\ SomeOther
    /\ \E off \in Offsets(written) :
         ParsedTo(off) /\ (Whole(text, off, Doubles(written), written) \/ BrokenAt(off))

RepairInv ==
  /\ RepairTypeOK /\ Writing /\ Received /\ Repairing /\ SecondTry
  /\ NeverAltered /\ RefusedOnlyFor

LEMMA WrittenType ==
  ASSUME RepairTypeOK
  PROVE  /\ written \in Seq(Member) /\ Len(written) \in Nat /\ Len(text) \in Nat
         /\ Len(members) \in Nat /\ DOMAIN written = 1 .. Len(written)
<1>1. written \in Seq(Member)
  BY VocabularyAssumption DEF RepairTypeOK
<1>2. Len(written) \in Nat /\ DOMAIN written = 1 .. Len(written)
  BY <1>1, RequestType
<1>3. text \in Seq(Token) /\ members \in Seq(Parsed)
  BY DEF RepairTypeOK
<1> QED BY <1>1, <1>2, <1>3, LenProperties

LEMMA RepairStart == RepairInit => RepairInv
<1> SUFFICES ASSUME RepairInit PROVE RepairInv
  OBVIOUS
<1>1. RepairTypeOK
  <2>1. Opening \in Token
    BY DEF Token, Signs
  <2>2. <<Opening>> \in Seq(Token) /\ <<>> \in Seq(Token) /\ <<>> \in Seq(Parsed)
    BY <2>1
  <2> QED BY <2>2 DEF RepairInit, RepairTypeOK
<1>2. Len(written) \in Nat
  BY <1>1, WrittenType
<1>3. Writing
  <2>1. Len(<<Opening>>) >= 1 /\ <<Opening>>[1] = Opening
    OBVIOUS
  <2>2. 1 \in 1 .. Len(written) + 1
    BY <1>2
  <2> QED BY <2>1, <2>2 DEF RepairInit, Writing
<1>4. stage = "writing"
  BY DEF RepairInit
<1> QED BY <1>1, <1>3, <1>4
    DEF RepairInv, Received, Repairing, SecondTry, NeverAltered, RefusedOnlyFor

(* The client. *)
LEMMA WriteKeeps == RepairInv /\ WriteMember => RepairInv'
<1> SUFFICES ASSUME RepairInv, WriteMember PROVE RepairInv'
  OBVIOUS
<1>1. /\ RepairTypeOK /\ Writing /\ stage = "writing" /\ place <= Len(written)
      /\ text' = text \o Separator \o MemberText(written[place]) /\ place' = place + 1
      /\ UNCHANGED <<written, stage, members, repaired>>
  BY DEF RepairInv, WriteMember
<1>2. /\ written \in Seq(Member) /\ Len(written) \in Nat /\ Len(text) \in Nat
      /\ text \in Seq(Token) /\ place \in Nat
  BY <1>1, WrittenType DEF RepairTypeOK
<1>3. /\ place \in 1 .. Len(written) + 1 /\ members = <<>> /\ repaired = <<>>
      /\ Len(text) >= 1 /\ text[1] = Opening
      /\ IF place = 1 THEN text = <<Opening>>
         ELSE \E off \in Offsets(written) : Holds(text, off, Forms(written), written, place - 1)
  BY <1>1 DEF Writing
<1>4. /\ text' \in Seq(Token) /\ text'[1] = Opening
      /\ \E off \in Offsets(written) : Holds(text', off, Forms(written), written, place)
  <2>1. CASE place = 1
    <3>1. text \o <<>> = text /\ Len(text) = 1
      BY <1>2, <1>3, <2>1
    <3>2. text' = text \o MemberText(written[1]) /\ Len(written) >= 1
      BY <1>1, <2>1, <3>1 DEF Separator
    <3> DEFINE U == text \o MemberText(written[1])
    <3>3. /\ U \in Seq(Token) /\ U[1] = text[1]
          /\ \E off \in Offsets(written) : Holds(U, off, Forms(written), written, 1)
      BY <1>2, <3>1, <3>2, FirstWritten
    <3> HIDE DEF U
    <3>4. text' = U
      BY <3>2 DEF U
    <3> QED BY <1>3, <2>1, <3>3, <3>4
  <2>2. CASE place # 1
    <3> DEFINE n == place - 1
               U == text \o <<Comma>> \o MemberText(written[n + 1])
    <3>1. n \in 1 .. Len(written) - 1 /\ n + 1 = place
      BY <1>1, <1>2, <1>3, <2>2
    <3>2. text' = U
      BY <1>1, <2>2, <3>1 DEF Separator
    <3>3. PICK off \in Offsets(written) : Holds(text, off, Forms(written), written, n)
      BY <1>3, <2>2
    <3> HIDE DEF n
    <3>4. /\ U \in Seq(Token) /\ U[1] = text[1]
          /\ \E new \in Offsets(written) : Holds(U, new, Forms(written), written, n + 1)
      BY <1>2, <3>1, <3>3, NextWritten
    <3> HIDE DEF U
    <3> QED BY <1>3, <3>1, <3>2, <3>4
  <2> QED BY <2>1, <2>2
<1>5. RepairTypeOK'
  BY <1>1, <1>4 DEF RepairTypeOK
<1>6. Writing'
  <2>1. Len(text') >= 1
    <3>1. PICK off \in Offsets(written) : Holds(text', off, Forms(written), written, place)
      BY <1>4
    <3> DEFINE o == off[place - 1]
               z == Size(Forms(written)[place], written[place])
    <3>2. o \in Nat
      <4>1. place - 1 \in 0 .. Len(written)
        BY <1>2, <1>3
      <4> QED BY <4>1 DEF Offsets
    <3>3. z \in Nat /\ z >= 1
      <4>1. place \in 1 .. Len(written)
        BY <1>1, <1>2, <1>3
      <4>2. written[place] \in Member
        BY <1>2, <4>1, RequestType
      <4> DEFINE k == KeySize(Forms(written)[place])
                 l == Len(written[place].value)
      <4>3. k \in {1, 3} /\ l \in Nat /\ z = k + l + 3
        BY <4>2, SizeType
      <4> HIDE DEF k, l, z
      <4> QED BY <4>3
    <3>4. Len(text') = o + z
      BY <3>1 DEF Holds
    <3> HIDE DEF o, z
    <3> QED BY <3>2, <3>3, <3>4
  <2>2. place' \in 1 .. Len(written') + 1 /\ place' # 1 /\ place' - 1 = place
    BY <1>1, <1>2, <1>3
  <2> QED BY <1>1, <1>3, <1>4, <2>1, <2>2 DEF Writing
<1>7. stage' = "writing"
  BY <1>1
<1> QED BY <1>5, <1>6, <1>7
    DEF RepairInv, Received, Repairing, SecondTry, NeverAltered, RefusedOnlyFor

LEMMA SendKeeps == RepairInv /\ Send => RepairInv'
<1> SUFFICES ASSUME RepairInv, Send PROVE RepairInv'
  OBVIOUS
<1>1. /\ RepairTypeOK /\ Writing /\ stage = "writing" /\ place > Len(written)
      /\ text' = Append(text, Closing) /\ place' = 2 /\ stage' = "received"
      /\ UNCHANGED <<written, members, repaired>>
  BY DEF RepairInv, Send
<1>2. /\ written \in Seq(Member) /\ Len(written) \in Nat /\ Len(text) \in Nat
      /\ text \in Seq(Token) /\ place \in Nat
  BY <1>1, WrittenType DEF RepairTypeOK
<1>3. /\ place = Len(written) + 1 /\ members = <<>> /\ repaired = <<>>
      /\ Len(text) >= 1 /\ text[1] = Opening
      /\ IF place = 1 THEN text = <<Opening>>
         ELSE \E off \in Offsets(written) : Holds(text, off, Forms(written), written, place - 1)
  <2>1. place \in 1 .. Len(written) + 1
    BY <1>1 DEF Writing
  <2>2. place = Len(written) + 1
    BY <1>1, <1>2, <2>1
  <2> QED BY <1>1, <2>2 DEF Writing
<1>4. /\ text' \in Seq(Token) /\ text'[1] = Opening
      /\ \/ written = <<>> /\ Len(text') = 2 /\ text'[2] = Closing
         \/ /\ Len(written) >= 1
            /\ \E off \in Offsets(written) : Whole(text', off, Forms(written), written)
  <2>1. CASE place = 1
    <3>1. Len(written) = 0 /\ text = <<Opening>>
      BY <1>2, <1>3, <2>1
    <3>2. written = <<>>
      BY <1>2, <3>1, EmptySeq
    <3>3. /\ text' \in Seq(Token) /\ Len(text') = 2 /\ text'[2] = Closing /\ text'[1] = Opening
      <4>1. Closing \in Token /\ 1 \in 1 .. Len(text) /\ Len(text) = 1
        BY <3>1 DEF Token, Signs
      <4>2. /\ text' \in Seq(Token) /\ Len(text') = Len(text) + 1
            /\ \A j \in 1 .. Len(text) : text'[j] = text[j]
            /\ text'[Len(text) + 1] = Closing
        <5> DEFINE U == Append(text, Closing)
        <5>1. /\ U \in Seq(Token) /\ Len(U) = Len(text) + 1
              /\ \A j \in 1 .. Len(text) : U[j] = text[j]
              /\ U[Len(text) + 1] = Closing
          BY <1>2, ClosingAppended
        <5>2. text' = U
          BY <1>1
        <5> HIDE DEF U
        <5> QED BY <5>1, <5>2
      <4> QED BY <1>3, <4>1, <4>2
    <3> QED BY <3>2, <3>3
  <2>2. CASE place # 1
    <3>1. Len(written) >= 1 /\ place - 1 = Len(written)
      BY <1>2, <1>3, <2>2
    <3>2. PICK off \in Offsets(written) : Holds(text, off, Forms(written), written, Len(written))
      BY <1>3, <2>2, <3>1
    <3> DEFINE U == Append(text, Closing)
    <3>3. U \in Seq(Token) /\ U[1] = text[1] /\ Whole(U, off, Forms(written), written)
      BY <1>2, <1>3, <3>1, <3>2, AllWritten
    <3> HIDE DEF U
    <3>4. text' = U
      BY <1>1 DEF U
    <3> QED BY <1>3, <3>1, <3>3, <3>4
  <2> QED BY <2>1, <2>2
<1>5. RepairTypeOK'
  BY <1>1, <1>4 DEF RepairTypeOK
<1>6. Received'
  <2>1. CASE written = <<>> /\ Len(text') = 2 /\ text'[2] = Closing
    BY <1>1, <1>3, <1>4, <2>1 DEF Received
  <2>2. ASSUME NEW off \in Offsets(written), Len(written) >= 1,
               Whole(text', off, Forms(written), written)
        PROVE  Received'
    <3>1. off[0] = 1
      BY <2>2 DEF Whole, Laid
    <3>2. members' = <<>> /\ Len(members') = 0 /\ place' = 2
      BY <1>1, <1>3
    <3>3. ParsedTo(off)'
      BY <1>1, <1>2, <2>2, <3>1, <3>2 DEF ParsedTo
    <3>4. off \in Offsets(written') /\ Whole(text', off, Forms(written'), written') /\ repaired' = <<>>
      BY <1>1, <1>3, <2>2
    <3> QED BY <1>4, <3>3, <3>4 DEF Received
  <2> QED BY <1>4, <2>1, <2>2
<1>7. stage' = "received"
  BY <1>1
<1> QED BY <1>5, <1>6, <1>7
    DEF RepairInv, Writing, Repairing, SecondTry, NeverAltered, RefusedOnlyFor

(* The parser. *)
LEMMA WroteType ==
  ASSUME NEW m \in Member
  PROVE  Wrote(m) \in Parsed
<1>1. m.key \in Token /\ m.value \in Seq(Token) /\ DQ \in Token
  <2>1. m.key \in Words /\ m.value \in Seq(Token \ {DQ})
    BY MemberType
  <2>2. m.value \in Seq(Token)
    BY <2>1
  <2> QED BY <2>1, <2>2 DEF Token, Signs, Quotes
<1>2. <<DQ>> \in Seq(Token) /\ <<m.key>> \in Seq(Token)
  BY <1>1
<1>3. <<DQ>> \o m.value \o <<DQ>> \in Seq(Token)
  BY <1>1, <1>2, Joined
<1> QED BY <1>2, <1>3 DEF Wrote, Parsed

(* A whole member is parsed as it was written. *)
LEMMA Advance ==
  ASSUME RepairTypeOK, ParseMember, NEW off \in Offsets(written), ParsedTo(off),
         NEW n, n = Len(members) + 1, MemberHeld(text, off[n - 1], DQ, written[n]),
         NEW s \in 1 .. Len(text), s = off[n - 1] + Size(DQ, written[n]) + 1,
         text[s] \in {Comma, Closing}
  PROVE  /\ members' \in Seq(Parsed) /\ Len(members') = n
         /\ \A j \in 1 .. n : members'[j] = Wrote(written[j])
         /\ place' = s + 1 /\ stage' = IF text[s] = Comma THEN stage ELSE "parsed"
<1>1. /\ written \in Seq(Member) /\ Len(written) \in Nat /\ Len(text) \in Nat
      /\ Len(members) \in Nat /\ text \in Seq(Token) /\ members \in Seq(Parsed)
  BY WrittenType DEF RepairTypeOK
<1>2. /\ n \in 1 .. Len(written) /\ n - 1 = Len(members) /\ n - 1 \in 0 .. Len(written)
      /\ place = off[n - 1] + 1
      /\ \A j \in 1 .. Len(members) : members[j] = Wrote(written[j])
  BY <1>1 DEF ParsedTo
<1> DEFINE m == written[n]
           o == off[n - 1]
           W == Wrote(m)
<1>3. m \in Member /\ o \in Nat
  BY <1>1, <1>2, RequestType DEF Offsets
<1>4. W \in Parsed
  BY <1>3, WroteType
<1>5. MemberAt(text, place) = [sign |-> s, key |-> <<m.key>>, value |-> <<DQ>> \o m.value \o <<DQ>>]
  <2>1. MemberHeld(text, o, DQ, m) /\ s = o + Size(DQ, m) + 1 /\ place = o + 1
    BY <1>2
  <2> HIDE DEF m, o
  <2>2. MemberAt(text, o + 1) =
           [sign |-> s, key |-> <<m.key>>, value |-> <<DQ>> \o m.value \o <<DQ>>]
    BY <1>1, <1>3, <2>1, WholeMember
  <2> QED BY <2>1, <2>2
<1> DEFINE a == MemberAt(text, place)
<1>6. a.sign = s /\ [key |-> a.key, value |-> a.value] = W
  <2> HIDE DEF m
  <2> QED BY <1>5 DEF Wrote
<1>7. /\ members' = Append(members, [key |-> a.key, value |-> a.value])
      /\ place' = a.sign + 1
      /\ stage' = IF text[a.sign] = Comma THEN stage ELSE "parsed"
  BY DEF ParseMember
<1> HIDE DEF a, W, m, o
<1>8. members' = Append(members, W) /\ place' = s + 1
      /\ stage' = IF text[s] = Comma THEN stage ELSE "parsed"
  BY <1>6, <1>7
<1> DEFINE A == Append(members, W)
<1>9. /\ A \in Seq(Parsed) /\ Len(A) = Len(members) + 1
      /\ \A j \in 1 .. Len(members) : A[j] = members[j]
      /\ A[Len(members) + 1] = W
  BY <1>1, <1>4, AppendProperties
<1>10. \A j \in 1 .. n : A[j] = Wrote(written[j])
  <2> SUFFICES ASSUME NEW j \in 1 .. n PROVE A[j] = Wrote(written[j])
    OBVIOUS
  <2> HIDE DEF A
  <2>1. CASE j = n
    BY <1>9, <2>1 DEF W, m
  <2>2. CASE j # n
    <3>1. j \in 1 .. Len(members)
      BY <1>1, <1>2, <2>2
    <3> QED BY <1>2, <1>9, <3>1
  <2> QED BY <2>1, <2>2
<1> HIDE DEF A
<1>11. members' = A /\ Len(A) = n
  BY <1>8, <1>9 DEF A
<1> QED BY <1>8, <1>9, <1>10, <1>11

(* All of them: nothing is altered. *)
LEMMA AllParsed ==
  ASSUME NEW r \in Seq(Member), NEW M \in Seq(Parsed), Len(M) = Len(r),
         \A j \in 1 .. Len(r) : M[j] = Wrote(r[j])
  PROVE  M = [i \in DOMAIN r |->
                [key |-> <<r[i].key>>, value |-> <<DQ>> \o r[i].value \o <<DQ>>]]
<1>1. DOMAIN r = 1 .. Len(r)
  BY RequestType
<1>2. M = [i \in 1 .. Len(r) |-> M[i]]
  BY LenProperties
<1>3. M = [i \in DOMAIN r |-> Wrote(r[i])]
  BY <1>1, <1>2
<1> QED BY <1>3 DEF Wrote

(* A member that a comma follows *)
LEMMA CommaStep ==
  ASSUME RepairTypeOK, ParseMember, NEW off \in Offsets(written), ParsedTo(off),
         NEW n, n = Len(members) + 1, n < Len(written),
         MemberHeld(text, off[n - 1], DQ, written[n]),
         off[n] = off[n - 1] + Size(DQ, written[n]) + 1, off[n] <= Len(text), text[off[n]] = Comma
  PROVE  RepairTypeOK' /\ stage' = stage /\ ParsedTo(off)' /\ Len(members') = n
<1>1. /\ written \in Seq(Member) /\ Len(written) \in Nat /\ Len(text) \in Nat
      /\ Len(members) \in Nat
  BY WrittenType
<1>2. UNCHANGED <<written, text, repaired>> /\ n \in 1 .. Len(written) /\ n - 1 \in 0 .. Len(written)
  BY <1>1 DEF ParseMember
<1>3. off[n - 1] \in Nat /\ Size(DQ, written[n]) \in Nat
  BY <1>1, <1>2, RequestType, SizeType DEF Offsets
<1> DEFINE s == off[n]
<1>4. s \in 1 .. Len(text) /\ s \in Nat
  BY <1>1, <1>3
<1>5. s = off[n - 1] + Size(DQ, written[n]) + 1 /\ text[s] \in {Comma, Closing} /\ text[s] = Comma
  OBVIOUS
<1> HIDE DEF s
<1>6. /\ members' \in Seq(Parsed) /\ Len(members') = n
      /\ \A j \in 1 .. n : members'[j] = Wrote(written[j])
      /\ place' = s + 1 /\ stage' = IF text[s] = Comma THEN stage ELSE "parsed"
  BY <1>4, <1>5, Advance
<1>7. RepairTypeOK'
  BY <1>2, <1>4, <1>5, <1>6 DEF RepairTypeOK
<1>8. ParsedTo(off)'
  BY <1>2, <1>6 DEF ParsedTo, s
<1> QED BY <1>5, <1>6, <1>7, <1>8

(* The last one *)
LEMMA ClosingStep ==
  ASSUME RepairTypeOK, ParseMember, NEW off \in Offsets(written), ParsedTo(off),
         NEW n, n = Len(members) + 1, n = Len(written),
         MemberHeld(text, off[n - 1], DQ, written[n]),
         Len(text) = off[n - 1] + Size(DQ, written[n]) + 1, text[Len(text)] = Closing
  PROVE  RepairTypeOK' /\ stage' = "parsed" /\ NeverAltered'
<1>1. /\ written \in Seq(Member) /\ Len(written) \in Nat /\ Len(text) \in Nat
      /\ Len(members) \in Nat
  BY WrittenType
<1>2. UNCHANGED <<written, text, repaired>> /\ n \in 1 .. Len(written) /\ n - 1 \in 0 .. Len(written)
  BY <1>1 DEF ParseMember
<1>3. off[n - 1] \in Nat /\ Size(DQ, written[n]) \in Nat
  BY <1>1, <1>2, RequestType, SizeType DEF Offsets
<1> DEFINE s == Len(text)
<1>4. s \in 1 .. Len(text) /\ s \in Nat
  BY <1>1, <1>3
<1>5. s = off[n - 1] + Size(DQ, written[n]) + 1 /\ text[s] \in {Comma, Closing} /\ text[s] # Comma
  BY Tokens
<1> HIDE DEF s
<1>6. /\ members' \in Seq(Parsed) /\ Len(members') = n
      /\ \A j \in 1 .. n : members'[j] = Wrote(written[j])
      /\ place' = s + 1 /\ stage' = IF text[s] = Comma THEN stage ELSE "parsed"
  BY <1>4, <1>5, Advance
<1>7. RepairTypeOK' /\ stage' = "parsed"
  BY <1>2, <1>4, <1>5, <1>6 DEF RepairTypeOK
<1>8. NeverAltered'
  <2> DEFINE M == members'
             r == written
  <2>1. M \in Seq(Parsed) /\ r \in Seq(Member) /\ Len(M) = Len(r)
        /\ \A j \in 1 .. Len(r) : M[j] = Wrote(r[j])
    BY <1>1, <1>6
  <2> HIDE DEF M, r
  <2>2. M = [i \in DOMAIN r |->
                [key |-> <<r[i].key>>, value |-> <<DQ>> \o r[i].value \o <<DQ>>]]
    BY <2>1, AllParsed
  <2>3. written' = r
    BY <1>2 DEF r
  <2> QED BY <2>2, <2>3 DEF M, NeverAltered
<1> QED BY <1>7, <1>8

LEMMA WholeStep ==
  ASSUME RepairTypeOK, ParseMember, NEW off \in Offsets(written), ParsedTo(off),
         NEW F, Whole(text, off, F, written), F[Len(members) + 1] = DQ
  PROVE  /\ RepairTypeOK'
         /\ \/ stage' = stage /\ ParsedTo(off)'
            \/ stage' = "parsed" /\ NeverAltered'
<1> DEFINE n == Len(members) + 1
<1>1. /\ written \in Seq(Member) /\ Len(written) \in Nat /\ n \in 1 .. Len(written)
      /\ (n < Len(written) \/ n = Len(written)) /\ F[n] = DQ
  <2>1. /\ written \in Seq(Member) /\ Len(written) \in Nat /\ Len(members) \in Nat
        /\ Len(members) < Len(written)
    BY WrittenType DEF ParsedTo
  <2> QED BY <2>1
<1>2. n = Len(members) + 1
  OBVIOUS
<1> HIDE DEF n
<1>3. /\ MemberHeld(text, off[n - 1], DQ, written[n])
      /\ n < Len(written) => /\ off[n] = off[n - 1] + Size(DQ, written[n]) + 1
                             /\ off[n] <= Len(text) /\ text[off[n]] = Comma
      /\ n = Len(written) => /\ Len(text) = off[n - 1] + Size(DQ, written[n]) + 1
                             /\ text[Len(text)] = Closing
  BY <1>1, MemberIn
<1>4. CASE n < Len(written)
  BY <1>2, <1>3, <1>4, CommaStep
<1>5. CASE n = Len(written)
  BY <1>2, <1>3, <1>5, ClosingStep
<1> QED BY <1>1, <1>4, <1>5

(* Whether the next member of a whole text parses *)
LEMMA NextParses ==
  ASSUME RepairTypeOK, NEW off \in Offsets(written), ParsedTo(off),
         NEW F, Whole(text, off, F, written), F[Len(members) + 1] \in {"bare", DQ, SQ}
  PROVE  Parses(text, place) <=> F[Len(members) + 1] = DQ
<1> DEFINE n == Len(members) + 1
           m == written[n]
           o == off[n - 1]
<1>1. /\ written \in Seq(Member) /\ Len(written) \in Nat /\ n \in 1 .. Len(written)
      /\ n - 1 \in 0 .. Len(written) /\ n - 1 = Len(members) /\ place = o + 1
      /\ (n < Len(written) \/ n = Len(written)) /\ F[n] \in {"bare", DQ, SQ}
      /\ text \in Seq(Token) /\ Len(text) \in Nat
  BY WrittenType DEF ParsedTo, RepairTypeOK
<1>2. m \in Member /\ o \in Nat
  BY <1>1, RequestType DEF Offsets
<1>3. Size(F[n], m) \in Nat
  BY <1>2, SizeType
<1>4. /\ MemberHeld(text, o, F[n], m)
      /\ n < Len(written) => /\ off[n] = o + Size(F[n], m) + 1
                             /\ off[n] <= Len(text) /\ text[off[n]] = Comma
      /\ n = Len(written) => Len(text) = o + Size(F[n], m) + 1 /\ text[Len(text)] = Closing
  <2> HIDE DEF n
  <2> QED BY <1>1, MemberIn
<1> HIDE DEF n, m, o
<1> DEFINE s == o + Size(F[n], m) + 1
<1>5. /\ s \in 1 .. Len(text)
      /\ text[s] = Comma \/ (text[s] = Closing /\ s = Len(text))
  <2>1. CASE n < Len(written)
    BY <1>1, <1>2, <1>3, <1>4, <2>1
  <2>2. CASE n = Len(written)
    BY <1>1, <1>2, <1>3, <1>4, <2>2
  <2> QED BY <1>1, <2>1, <2>2
<1>6. o < Len(text)
  BY <1>1, <1>2, <1>3, <1>5
<1>7. CASE F[n] = DQ
  <2>1. s = o + Size(DQ, m) + 1 /\ MemberHeld(text, o, DQ, m)
    BY <1>4, <1>7
  <2> HIDE DEF s
  <2>2. Parses(text, o + 1)
    BY <1>1, <1>2, <1>5, <2>1, WholeParses
  <2> QED BY <1>1, <1>7, <2>2 DEF n
<1>8. CASE F[n] # DQ
  <2> HIDE DEF s
  <2>1. text[o + 1] \in Words \cup {SQ}
    BY <1>1, <1>2, <1>4, <1>8, FirstToken
  <2>2. text[o + 1] \notin {DQ, Space}
    BY <2>1, Tokens
  <2>3. ~Parses(text, o + 1)
    BY <1>1, <1>2, <1>6, <2>2, OtherKey
  <2> QED BY <1>1, <1>8, <2>3 DEF n
<1> QED BY <1>7, <1>8

(* The parser does not get past a broken value. *)
LEMMA BreakStops ==
  ASSUME RepairTypeOK, NEW off \in Offsets(written), ParsedTo(off),
         NEW i \in 1 .. Len(written), Broken(text, off, written, i), Len(members) + 1 = i
  PROVE  ~Parses(text, place)
<1> DEFINE o == off[i - 1]
           w == written[i].key
<1>1. /\ written \in Seq(Member) /\ Len(written) \in Nat /\ Len(text) \in Nat
      /\ text \in Seq(Token) /\ i - 1 \in 0 .. Len(written) /\ i - 1 = Len(members)
  BY WrittenType DEF RepairTypeOK
<1>2. o \in Nat /\ place = o + 1 /\ w \in Words
  <2>1. o \in Nat /\ place = o + 1
    BY <1>1 DEF Offsets, ParsedTo
  <2> QED BY <1>1, <2>1, RequestType, MemberType
<1>3. /\ KeyHeld(text, o, DQ, w) /\ text[o + 5] = DQ
      /\ \E e \in o + 6 .. Len(text) - 1 :
           /\ text[e] = DQ /\ \A k \in o + 6 .. e - 1 : text[k] # DQ
           /\ text[e + 1] \notin {Space, Comma, Closing}
  BY DEF Broken
<1> HIDE DEF o, w
<1>4. PICK e \in o + 6 .. Len(text) - 1 :
           /\ text[e] = DQ /\ \A k \in o + 6 .. e - 1 : text[k] # DQ
           /\ text[e + 1] \notin {Space, Comma, Closing}
  BY <1>3
<1>5. ~Parses(text, o + 1)
  BY <1>1, <1>2, <1>3, <1>4, BrokenValue
<1> QED BY <1>2, <1>5

LEMMA BrokenStep ==
  ASSUME RepairTypeOK, ParseMember, NEW off \in Offsets(written), ParsedTo(off), BrokenAt(off)
  PROVE  RepairTypeOK' /\ stage' = stage /\ ParsedTo(off)' /\ BrokenAt(off)'
<1>1. PICK i \in 1 .. Len(written) : Broken(text, off, written, i) /\ Len(members) < i
  BY DEF BrokenAt
<1> DEFINE n == Len(members) + 1
<1>2. /\ written \in Seq(Member) /\ Len(written) \in Nat /\ Len(members) \in Nat
      /\ n \in 1 .. i /\ n \in 1 .. Len(written)
  <2>1. written \in Seq(Member) /\ Len(written) \in Nat /\ Len(members) \in Nat
    BY WrittenType
  <2> QED BY <1>1, <2>1
<1>3. n # i
  <2>1. Parses(text, place)
    BY DEF ParseMember
  <2> QED BY <1>1, <2>1, BreakStops
<1>4. n \in 1 .. i - 1 /\ n < i /\ n < Len(written) /\ n = Len(members) + 1
  BY <1>2, <1>3
<1> HIDE DEF n
<1>5. Doubles(written)[n] = DQ
  BY <1>2, RequestType
<1>6. /\ off[n] = off[n - 1] + Size(DQ, written[n]) + 1 /\ off[n] <= Len(text)
      /\ MemberHeld(text, off[n - 1], DQ, written[n]) /\ text[off[n]] = Comma
  <2>1. Laid(text, off, Doubles(written), written, i - 1)
    BY <1>1 DEF Broken
  <2> QED BY <1>4, <1>5, <2>1 DEF Laid
<1>7. RepairTypeOK' /\ stage' = stage /\ ParsedTo(off)' /\ Len(members') = n
  BY <1>4, <1>6, CommaStep
<1>8. BrokenAt(off)'
  <2>1. written' = written /\ text' = text
    BY DEF ParseMember
  <2> QED BY <1>1, <1>4, <1>7, <2>1 DEF BrokenAt
<1> QED BY <1>7, <1>8

(* The object is not empty. *)
LEMMA KeyNext ==
  ASSUME RepairTypeOK, NEW off \in Offsets(written), ParsedTo(off), off[0] < Len(text),
         text[off[0] + 1] \in Words \cup Quotes
  PROVE  ~EmptyObject
<1> SUFFICES ASSUME members = <<>> PROVE ~Closes(text, SkipSpaces(text, place))
  BY DEF EmptyObject
<1>1. /\ written \in Seq(Member) /\ Len(written) \in Nat /\ Len(text) \in Nat
      /\ text \in Seq(Token) /\ Len(members) = 0
  BY WrittenType DEF RepairTypeOK
<1> DEFINE o == off[0]
<1>2. o \in Nat /\ place = o + 1 /\ o < Len(text) /\ text[o + 1] \in Words \cup Quotes
  BY <1>1 DEF Offsets, ParsedTo
<1> HIDE DEF o
<1>3. ~Closes(text, SkipSpaces(text, o + 1))
  BY <1>1, <1>2, NotEmpty
<1> QED BY <1>2, <1>3

LEMMA WholeNotEmpty ==
  ASSUME RepairTypeOK, NEW off \in Offsets(written), ParsedTo(off),
         NEW F, Whole(text, off, F, written), F[1] \in {"bare", DQ, SQ}
  PROVE  ~EmptyObject
<1>1. /\ written \in Seq(Member) /\ Len(written) \in Nat /\ Len(text) \in Nat
      /\ Len(written) >= 1 /\ 1 \in 1 .. Len(written) /\ 1 - 1 = 0
  <2>1. written \in Seq(Member) /\ Len(written) \in Nat /\ Len(text) \in Nat
    BY WrittenType
  <2>2. Len(written) >= 1
    BY DEF Whole
  <2> QED BY <2>1, <2>2
<1> DEFINE m == written[1]
           o == off[0]
<1>2. m \in Member /\ Size(F[1], m) \in Nat
  <2>1. m \in Member
    BY <1>1, RequestType
  <2> QED BY <2>1, SizeType
<1>3. /\ o \in Nat /\ MemberHeld(text, o, F[1], m)
      /\ 1 < Len(written) => off[1] = o + Size(F[1], m) + 1 /\ off[1] <= Len(text)
      /\ 1 = Len(written) => Len(text) = o + Size(F[1], m) + 1
  BY <1>1, MemberIn
<1>4. o < Len(text)
  <2> DEFINE z == Size(F[1], m)
             n == Len(written)
             t == Len(text)
             x == off[1]
  <2>1. /\ z \in Nat /\ n \in Nat /\ n >= 1 /\ t \in Nat /\ o \in Nat
        /\ 1 < n => x = o + z + 1 /\ x <= t
        /\ 1 = n => t = o + z + 1
    BY <1>1, <1>2, <1>3
  <2> HIDE DEF z, n, t, x, o
  <2>2. o < t
    BY <2>1
  <2> QED BY <2>2 DEF t
<1>5. text[o + 1] \in Words \cup Quotes
  <2> HIDE DEF m, o
  <2> QED BY <1>2, <1>3, FirstToken
<1> QED BY <1>4, <1>5, KeyNext

LEMMA BrokenNotEmpty ==
  ASSUME RepairTypeOK, NEW off \in Offsets(written), ParsedTo(off), BrokenAt(off)
  PROVE  ~EmptyObject
<1>1. PICK i \in 1 .. Len(written) : Broken(text, off, written, i)
  BY DEF BrokenAt
<1>2. /\ written \in Seq(Member) /\ Len(written) \in Nat /\ Len(text) \in Nat
      /\ 1 \in 1 .. Len(written) /\ 0 \in 0 .. Len(written) /\ (i = 1 \/ 1 \in 1 .. i - 1)
  <2>1. written \in Seq(Member) /\ Len(written) \in Nat /\ Len(text) \in Nat
    BY WrittenType
  <2> QED BY <2>1
<1> DEFINE m == written[1]
           o == off[0]
<1>3. o \in Nat /\ m \in Member /\ Doubles(written)[1] = DQ /\ Size(DQ, m) \in Nat
  <2>1. o \in Nat /\ m \in Member /\ Doubles(written)[1] = DQ
    BY <1>2, RequestType DEF Offsets
  <2> QED BY <2>1, SizeType
<1>4. o < Len(text) /\ KeyHeld(text, o, DQ, m.key)
  <2>1. CASE i = 1
    <3>1. 1 - 1 = 0
      OBVIOUS
    <3>2. KeyHeld(text, o, DQ, m.key) /\ \E e \in o + 6 .. Len(text) - 1 : TRUE
      BY <1>1, <2>1, <3>1 DEF Broken
    <3>3. o < Len(text)
      BY <1>2, <1>3, <3>2
    <3> QED BY <3>2, <3>3
  <2>2. CASE 1 \in 1 .. i - 1
    <3>1. off[1] = o + Size(DQ, m) + 1 /\ off[1] <= Len(text) /\ MemberHeld(text, o, DQ, m)
      <4>1. Laid(text, off, Doubles(written), written, i - 1) /\ 1 - 1 = 0
        BY <1>1 DEF Broken
      <4> QED BY <1>3, <2>2, <4>1 DEF Laid
    <3>2. o < Len(text)
      BY <1>2, <1>3, <3>1
    <3> QED BY <3>1, <3>2 DEF MemberHeld
  <2> QED BY <1>2, <2>1, <2>2
<1>5. text[o + 1] \in Words \cup Quotes
  <2>1. DQ # "bare"
    BY Tokens
  <2> QED BY <1>4, <2>1 DEF KeyHeld, Quotes
<1> QED BY <1>4, <1>5, KeyNext

(* An empty request: nothing to parse but its brace *)
LEMMA NothingWritten ==
  ASSUME RepairTypeOK, Len(text) = 2, text[2] = Closing, place = 2, members = <<>>
  PROVE  ~Parses(text, place) /\ EmptyObject
<1>1. text \in Seq(Token) /\ Len(text) \in Nat
  BY WrittenType DEF RepairTypeOK
<1>2. text[1 + 1] \notin {DQ, Space} /\ text[2] # Space
  BY Tokens
<1>3. ~Parses(text, 1 + 1)
  <2> DEFINE x == 1
  <2>1. x \in Nat /\ x < Len(text) /\ text[x + 1] \notin {DQ, Space}
    BY <1>2
  <2> HIDE DEF x
  <2>2. ~Parses(text, x + 1)
    BY <1>1, <2>1, OtherKey
  <2> QED BY <2>2 DEF x
<1>4. SkipSpaces(text, 2) = 2
  BY <1>1, <1>2, SkipNothing
<1>5. SkipSpaces(text, 3) = 3
  <2> DEFINE x == 3
  <2>1. x \in 1 .. Len(text) + 1 /\ ~(x <= Len(text))
    OBVIOUS
  <2> HIDE DEF x
  <2>2. SkipSpaces(text, x) = x
    BY <1>1, <2>1, SkipNothing
  <2> QED BY <2>2 DEF x
<1>6. Closes(text, 2)
  BY <1>5 DEF Closes, TokenIn
<1> QED BY <1>3, <1>4, <1>6 DEF EmptyObject

LEMMA ParseKeeps == RepairInv /\ ParseMember => RepairInv'
<1> SUFFICES ASSUME RepairInv, ParseMember PROVE RepairInv'
  OBVIOUS
<1>1. /\ RepairTypeOK /\ Parsing /\ Parses(text, place)
      /\ UNCHANGED <<written, text, repaired>>
  BY DEF RepairInv, ParseMember
<1>2. written \in Seq(Member) /\ Len(members) \in Nat /\ Len(written) \in Nat
  BY <1>1, WrittenType
<1>3. CASE stage = "received"
  <2>1. /\ text[1] = Opening /\ repaired = <<>>
        /\ \/ written = <<>> /\ Len(text) = 2 /\ text[2] = Closing /\ place = 2 /\ members = <<>>
           \/ \E off \in Offsets(written) : Whole(text, off, Forms(written), written) /\ ParsedTo(off)
    BY <1>3 DEF RepairInv, Received
  <2>2. PICK off \in Offsets(written) : Whole(text, off, Forms(written), written) /\ ParsedTo(off)
    BY <1>1, <2>1, NothingWritten
  <2>3. Len(members) + 1 \in 1 .. Len(written)
    BY <1>2, <2>2 DEF ParsedTo
  <2>4. Forms(written)[Len(members) + 1] \in {"bare", DQ, SQ}
    BY <1>2, <2>3, RequestType
  <2>5. Forms(written)[Len(members) + 1] = DQ
    BY <1>1, <2>2, <2>4, NextParses
  <2>6. /\ RepairTypeOK'
        /\ \/ stage' = stage /\ ParsedTo(off)'
           \/ stage' = "parsed" /\ NeverAltered'
    BY <1>1, <2>2, <2>5, WholeStep
  <2>7. CASE stage' = stage /\ ParsedTo(off)'
    <3>1. Received'
      BY <1>1, <2>1, <2>2, <2>7 DEF Received
    <3> QED BY <1>3, <2>6, <2>7, <3>1
        DEF RepairInv, Writing, Repairing, SecondTry, NeverAltered, RefusedOnlyFor
  <2>8. CASE stage' = "parsed" /\ NeverAltered'
    BY <2>6, <2>8 DEF RepairInv, Writing, Received, Repairing, SecondTry, RefusedOnlyFor
  <2> QED BY <2>6, <2>7, <2>8
<1>4. CASE stage = "repaired"
  <2>1. /\ SomeOther
        /\ \E off \in Offsets(written) :
             ParsedTo(off) /\ (Whole(text, off, Doubles(written), written) \/ BrokenAt(off))
    BY <1>4 DEF RepairInv, SecondTry
  <2>2. PICK off \in Offsets(written) :
             ParsedTo(off) /\ (Whole(text, off, Doubles(written), written) \/ BrokenAt(off))
    BY <2>1
  <2>3. /\ RepairTypeOK'
        /\ \/ /\ stage' = stage /\ ParsedTo(off)'
              /\ Whole(text, off, Doubles(written), written)' \/ BrokenAt(off)'
           \/ stage' = "parsed" /\ NeverAltered'
    <3>1. CASE Whole(text, off, Doubles(written), written)
      <4>1. Len(members) + 1 \in 1 .. Len(written)
        BY <1>2, <2>2 DEF ParsedTo
      <4>2. Doubles(written)[Len(members) + 1] = DQ
        BY <1>2, <4>1, RequestType
      <4>3. /\ RepairTypeOK'
            /\ \/ stage' = stage /\ ParsedTo(off)'
               \/ stage' = "parsed" /\ NeverAltered'
        BY <1>1, <2>2, <3>1, <4>2, WholeStep
      <4> QED BY <1>1, <3>1, <4>3
    <3>2. CASE BrokenAt(off)
      BY <1>1, <2>2, <3>2, BrokenStep
    <3> QED BY <2>2, <3>1, <3>2
  <2>4. CASE /\ stage' = stage /\ ParsedTo(off)'
             /\ Whole(text, off, Doubles(written), written)' \/ BrokenAt(off)'
    <3>1. SomeOther' /\ off \in Offsets(written')
      BY <1>1, <2>1 DEF SomeOther
    <3>2. SecondTry'
      BY <2>4, <3>1 DEF SecondTry
    <3> QED BY <1>4, <2>3, <2>4, <3>2
        DEF RepairInv, Writing, Received, Repairing, NeverAltered, RefusedOnlyFor
  <2>5. CASE stage' = "parsed" /\ NeverAltered'
    BY <2>3, <2>5 DEF RepairInv, Writing, Received, Repairing, SecondTry, RefusedOnlyFor
  <2> QED BY <2>3, <2>4, <2>5
<1> QED BY <1>1, <1>3, <1>4 DEF Parsing

LEMMA EmptyKeeps == RepairInv /\ ParseEmpty => RepairInv'
<1> SUFFICES ASSUME RepairInv, ParseEmpty PROVE RepairInv'
  OBVIOUS
<1>1. /\ RepairTypeOK /\ Parsing /\ EmptyObject /\ stage' = "parsed"
      /\ UNCHANGED <<written, text, place, members, repaired>>
  BY DEF RepairInv, ParseEmpty
<1>2. written \in Seq(Member) /\ Len(written) \in Nat
  BY <1>1, WrittenType
<1>3. written = <<>>
  <2>1. CASE stage = "received"
    <3>1. \/ written = <<>>
          \/ \E off \in Offsets(written) : Whole(text, off, Forms(written), written) /\ ParsedTo(off)
      BY <2>1 DEF RepairInv, Received
    <3>2. ASSUME NEW off \in Offsets(written),
                 Whole(text, off, Forms(written), written), ParsedTo(off)
          PROVE  FALSE
      <4>1. 1 \in 1 .. Len(written)
        BY <1>2, <3>2 DEF Whole
      <4>2. Forms(written)[1] \in {"bare", DQ, SQ}
        BY <1>2, <4>1, RequestType
      <4> QED BY <1>1, <3>2, <4>2, WholeNotEmpty
    <3> QED BY <3>1, <3>2
  <2>2. CASE stage = "repaired"
    <3>1. PICK off \in Offsets(written) :
             ParsedTo(off) /\ (Whole(text, off, Doubles(written), written) \/ BrokenAt(off))
      BY <2>2 DEF RepairInv, SecondTry
    <3>2. CASE Whole(text, off, Doubles(written), written)
      <4>1. 1 \in 1 .. Len(written)
        BY <1>2, <3>2 DEF Whole
      <4>2. Doubles(written)[1] = DQ
        BY <1>2, <4>1, RequestType
      <4> QED BY <1>1, <3>1, <3>2, <4>2, WholeNotEmpty
    <3>3. CASE BrokenAt(off)
      BY <1>1, <3>1, <3>3, BrokenNotEmpty
    <3> QED BY <3>1, <3>2, <3>3
  <2> QED BY <1>1, <2>1, <2>2 DEF Parsing
<1>4. members = <<>>
  BY <1>1 DEF EmptyObject
<1>5. NeverAltered'
  <2> DEFINE M == members
             r == written
  <2>1. M \in Seq(Parsed) /\ r \in Seq(Member) /\ Len(M) = Len(r)
        /\ \A j \in 1 .. Len(r) : M[j] = Wrote(r[j])
    BY <1>1, <1>2, <1>3, <1>4 DEF RepairTypeOK
  <2> HIDE DEF M, r
  <2>2. M = [i \in DOMAIN r |->
                [key |-> <<r[i].key>>, value |-> <<DQ>> \o r[i].value \o <<DQ>>]]
    BY <2>1, AllParsed
  <2>3. members' = M /\ written' = r
    BY <1>1 DEF M, r
  <2> QED BY <2>2, <2>3 DEF NeverAltered
<1>6. RepairTypeOK'
  BY <1>1 DEF RepairTypeOK
<1> QED BY <1>1, <1>5, <1>6
    DEF RepairInv, Writing, Received, Repairing, SecondTry, RefusedOnlyFor

(* The repair begins only if some key is not in double quotes. *)
LEMMA TryKeeps == RepairInv /\ TryRepair => RepairInv'
<1> SUFFICES ASSUME RepairInv, TryRepair PROVE RepairInv'
  OBVIOUS
<1>1. /\ RepairTypeOK /\ stage = "received" /\ ~Parses(text, place) /\ ~EmptyObject
      /\ stage' = "repairing" /\ place' = 1 /\ members' = <<>>
      /\ UNCHANGED <<written, text, repaired>>
  BY DEF RepairInv, TryRepair, Malformed
<1>2. written \in Seq(Member) /\ Len(members) \in Nat /\ Len(written) \in Nat
      /\ DOMAIN written = 1 .. Len(written)
  BY <1>1, WrittenType
<1>3. /\ text[1] = Opening /\ repaired = <<>>
      /\ \/ written = <<>> /\ Len(text) = 2 /\ text[2] = Closing /\ place = 2 /\ members = <<>>
         \/ \E off \in Offsets(written) : Whole(text, off, Forms(written), written) /\ ParsedTo(off)
  BY <1>1 DEF RepairInv, Received
<1>4. PICK off \in Offsets(written) : Whole(text, off, Forms(written), written) /\ ParsedTo(off)
  BY <1>1, <1>3, NothingWritten
<1> DEFINE n == Len(members) + 1
<1>5. n \in 1 .. Len(written)
  BY <1>2, <1>4 DEF ParsedTo
<1>6. Forms(written)[n] \in {"bare", DQ, SQ} /\ Forms(written)[n] = written[n].form
  BY <1>2, <1>5, RequestType
<1>7. Forms(written)[n] # DQ
  BY <1>1, <1>4, <1>6, NextParses
<1> HIDE DEF n
<1>8. SomeOther'
  BY <1>1, <1>2, <1>5, <1>6, <1>7 DEF SomeOther
<1>9. Progress(text, off, written, 1, <<>>)
  BY DEF Progress
<1>10. Repairing'
  BY <1>1, <1>3, <1>4, <1>8, <1>9 DEF Repairing
<1>11. RepairTypeOK'
  <2>1. <<>> \in Seq(Parsed)
    OBVIOUS
  <2> QED BY <1>1, <2>1 DEF RepairTypeOK
<1> QED BY <1>1, <1>10, <1>11
    DEF RepairInv, Writing, Received, SecondTry, NeverAltered, RefusedOnlyFor

LEMMA ReplaceKeeps == RepairInv /\ Replace => RepairInv'
<1> SUFFICES ASSUME RepairInv, Replace PROVE RepairInv'
  OBVIOUS
<1>1. /\ RepairTypeOK /\ stage = "repairing" /\ UNCHANGED <<written, text, stage, members>>
  BY DEF RepairInv, Replace
<1>2. written \in Seq(Member) /\ text \in Seq(Token) /\ repaired \in Seq(Token)
      /\ Len(text) \in Nat /\ place \in Nat
  BY <1>1, WrittenType DEF RepairTypeOK
<1>3. /\ text[1] = Opening /\ members = <<>> /\ SomeOther
      /\ \E off \in Offsets(written) :
           Whole(text, off, Forms(written), written) /\ Progress(text, off, written, place, repaired)
  BY <1>1 DEF RepairInv, Repairing
<1>4. PICK off \in Offsets(written) :
           Whole(text, off, Forms(written), written) /\ Progress(text, off, written, place, repaired)
  BY <1>3
<1>5. PICK m \in place .. Len(text) :
        /\ Match(text, m) > 0 /\ \A k \in place .. m - 1 : Match(text, k) = 0
        /\ repaired' = repaired \o Between(text, place, m - 1) \o Replacement(text, m)
        /\ place' = m + Match(text, m)
  BY DEF Replace
<1> DEFINE U == repaired \o Between(text, place, m - 1) \o Replacement(text, m)
<1>6. U \in Seq(Token) /\ Progress(text, off, written, m + Match(text, m), U)
  BY <1>2, <1>3, <1>4, <1>5, ReplaceStep
<1> HIDE DEF U
<1>7. repaired' = U
  BY <1>5 DEF U
<1>8. place' \in Nat
  <2> DEFINE M == Match(text, m)
  <2>1. M \in {0, 1, 2, 3, 4}
    BY DEF Match, WordColon
  <2>2. m \in Nat /\ place' = m + M
    BY <1>2, <1>5
  <2> HIDE DEF M
  <2> QED BY <2>1, <2>2
<1>9. RepairTypeOK'
  BY <1>1, <1>6, <1>7, <1>8 DEF RepairTypeOK
<1>10. SomeOther'
  BY <1>1, <1>3 DEF SomeOther
<1>11. Repairing'
  BY <1>1, <1>3, <1>4, <1>5, <1>6, <1>7, <1>10 DEF Repairing
<1> QED BY <1>1, <1>9, <1>11
    DEF RepairInv, Writing, Received, SecondTry, NeverAltered, RefusedOnlyFor

LEMMA AgainKeeps == RepairInv /\ TryAgain => RepairInv'
<1> SUFFICES ASSUME RepairInv, TryAgain PROVE RepairInv'
  OBVIOUS
<1>1. /\ RepairTypeOK /\ stage = "repairing" /\ \A k \in place .. Len(text) : Match(text, k) = 0
      /\ text' = repaired \o Between(text, place, Len(text))
      /\ stage' = "repaired" /\ place' = 2
      /\ UNCHANGED <<written, members, repaired>>
  BY DEF RepairInv, TryAgain
<1>2. written \in Seq(Member) /\ text \in Seq(Token) /\ repaired \in Seq(Token)
      /\ Len(written) \in Nat
  BY <1>1, WrittenType DEF RepairTypeOK
<1>3. /\ members = <<>> /\ SomeOther
      /\ \E off \in Offsets(written) :
           Whole(text, off, Forms(written), written) /\ Progress(text, off, written, place, repaired)
  BY <1>1 DEF RepairInv, Repairing
<1>4. PICK off \in Offsets(written) :
           Whole(text, off, Forms(written), written) /\ Progress(text, off, written, place, repaired)
  BY <1>3
<1> DEFINE U == repaired \o Between(text, place, Len(text))
<1>5. U \in Seq(Token) /\ \E out \in Offsets(written) : Repaired(U, out, written)
  BY <1>1, <1>2, <1>4, LastStep
<1> HIDE DEF U
<1>6. text' = U
  BY <1>1 DEF U
<1>7. PICK out \in Offsets(written) : Repaired(U, out, written)
  BY <1>5
<1>8. RepairTypeOK'
  BY <1>1, <1>5, <1>6 DEF RepairTypeOK
<1>9. Len(written) >= 1 /\ members' = <<>> /\ Len(members') = 0
  BY <1>1, <1>3, <1>4 DEF Whole
<1>10. out[0] = 1
  <2>1. CASE Whole(U, out, Doubles(written), written)
    BY <2>1 DEF Whole, Laid
  <2>2. CASE \E i \in 1 .. Len(written) : Broken(U, out, written, i)
    BY <2>2 DEF Broken, Laid
  <2> QED BY <1>7, <2>1, <2>2 DEF Repaired
<1>11. ParsedTo(out)'
  BY <1>1, <1>2, <1>9, <1>10 DEF ParsedTo
<1>12. Whole(text, out, Doubles(written), written)' \/ BrokenAt(out)'
  <2>1. CASE Whole(U, out, Doubles(written), written)
    BY <1>1, <1>6, <2>1
  <2>2. CASE \E i \in 1 .. Len(written) : Broken(U, out, written, i)
    BY <1>1, <1>6, <1>9, <2>2 DEF BrokenAt
  <2> QED BY <1>7, <2>1, <2>2 DEF Repaired
<1>13. SomeOther' /\ out \in Offsets(written')
  BY <1>1, <1>3 DEF SomeOther
<1>14. SecondTry'
  BY <1>11, <1>12, <1>13 DEF SecondTry
<1> QED BY <1>1, <1>8, <1>14
    DEF RepairInv, Writing, Received, Repairing, NeverAltered, RefusedOnlyFor

(* What the second attempt refuses has a broken value. *)
LEMMA GiveUpKeeps == RepairInv /\ GiveUp => RepairInv'
<1> SUFFICES ASSUME RepairInv, GiveUp PROVE RepairInv'
  OBVIOUS
<1>1. /\ RepairTypeOK /\ stage = "repaired" /\ ~Parses(text, place) /\ stage' = "error"
      /\ UNCHANGED <<written, text, place, members, repaired>>
  BY DEF RepairInv, GiveUp, Malformed
<1>2. written \in Seq(Member) /\ Len(members) \in Nat /\ Len(written) \in Nat
      /\ DOMAIN written = 1 .. Len(written)
  BY <1>1, WrittenType
<1>3. SomeOther
  BY <1>1 DEF RepairInv, SecondTry
<1>4. PICK off \in Offsets(written) :
           ParsedTo(off) /\ (Whole(text, off, Doubles(written), written) \/ BrokenAt(off))
  BY <1>1 DEF RepairInv, SecondTry
<1>5. ~Whole(text, off, Doubles(written), written)
  <2> SUFFICES ASSUME Whole(text, off, Doubles(written), written) PROVE FALSE
    OBVIOUS
  <2>1. Len(members) + 1 \in 1 .. Len(written)
    BY <1>2, <1>4 DEF ParsedTo
  <2>2. Doubles(written)[Len(members) + 1] = DQ
    BY <1>2, <2>1, RequestType
  <2> QED BY <1>1, <1>4, <2>2, NextParses
<1>6. PICK i \in 1 .. Len(written) : Broken(text, off, written, i)
  BY <1>4, <1>5 DEF BrokenAt
<1>7. HasWordColon(written[i].value)
  BY <1>6 DEF Broken
<1>8. RefusedOnlyFor'
  BY <1>1, <1>2, <1>3, <1>6, <1>7 DEF RefusedOnlyFor, SomeOther
<1>9. RepairTypeOK'
  BY <1>1 DEF RepairTypeOK
<1> QED BY <1>1, <1>8, <1>9
    DEF RepairInv, Writing, Received, Repairing, SecondTry, NeverAltered

LEMMA RepairStep == RepairInv /\ [RepairNext]_repairVars => RepairInv'
<1> SUFFICES ASSUME RepairInv, [RepairNext]_repairVars PROVE RepairInv'
  OBVIOUS
<1>1. CASE UNCHANGED repairVars
  BY <1>1 DEF repairVars, RepairInv, RepairTypeOK, Writing, Received, Repairing, SecondTry,
    ParsedTo, BrokenAt, SomeOther, NeverAltered, RefusedOnlyFor
<1> QED BY <1>1, WriteKeeps, SendKeeps, ParseKeeps, EmptyKeeps, TryKeeps, ReplaceKeeps,
      AgainKeeps, GiveUpKeeps DEF RepairNext

LEMMA RepairSafe == RepairSpec => []RepairInv
BY RepairStart, RepairStep, PTL DEF RepairSpec

-----------------------------------------------------------------------------

(* Whatever a client writes, in bare, single-quoted or double-quoted keys  *)
(* and with any words, quotes and signs in its values, what parse_request  *)
(* returns are the keys and values it wrote, in their order: where the     *)
(* regular expression has touched a value, the second attempt to parse     *)
(* stops at it (handler.rs 288-300).                                       *)
THEOREM NeverChanged == RepairSpec => []NeverAltered
<1>1. RepairInv => NeverAltered
  BY DEF RepairInv
<1> QED BY RepairSafe, <1>1, PTL

(* A request that is refused has a key that is not in double quotes and a  *)
(* value with a word before a colon: the repair refuses no well-formed     *)
(* JSON, and nothing else (handler.rs 288-300).                            *)
THEOREM RefusedRightly == RepairSpec => []RefusedOnlyFor
<1>1. RepairInv => RefusedOnlyFor
  BY DEF RepairInv
<1> QED BY RepairSafe, <1>1, PTL
=============================================================================
