----------------------------- MODULE KeyRepair -----------------------------
(***************************************************************************)
(* parse_request (handler.rs): the text of a request is parsed as JSON,    *)
(* and if that fails once more after a regular expression has put quotes   *)
(* around every word that is followed by a colon.  A text is a sequence of *)
(* tokens: words, quotes and signs; a backslash with its quote is one, and *)
(* "space" is any other character.  A request is a JSON object whose       *)
(* values are strings, with its keys bare or in either kind of quotes.     *)
(***************************************************************************)
EXTENDS Naturals, Sequences

CONSTANTS Words,    \* runs of letters and digits
          Numbers,  \* those that are JSON numbers
          Requests  \* what clients write: sequences of members

VARIABLES written,  \* the members the client writes
          text,     \* the text being parsed
          stage,    \* "writing", "received", "repairing", "repaired", "parsed" or "error"
          place,    \* which member is written next; then where the parser, or
                    \* the regular expression, is in text
          members,  \* the members parsed, in order
          repaired  \* what replace_all has put together

repairVars == <<written, text, stage, place, members, repaired>>

DQ == "dquote"
SQ == "squote"
Esc == "escaped"    \* a backslash and a double quote
Colon == "colon"
Comma == "comma"
Opening == "opening"
Closing == "closing"
Space == "space"
Quotes == {DQ, SQ}
Signs == Quotes \cup {Esc, Colon, Comma, Opening, Closing, Space}
Token == Words \cup Signs

(* form: the quotes of the key, if any.  A value has no bare double quote. *)
Member == [form : {"bare", DQ, SQ}, key : Words, value : Seq(Token \ {DQ})]

(* A word of a value is as long as it can be. *)
ASSUME VocabularyAssumption ==
  /\ Numbers \subseteq Words /\ Words \cap Signs = {}
  /\ Requests \subseteq Seq(Member)
  /\ \A r \in Requests : \A n \in DOMAIN r : \A i \in 2 .. Len(r[n].value) :
       r[n].value[i] \in Words => r[n].value[i - 1] \notin Words

RepairInit ==
  /\ written \in Requests /\ text = <<Opening>> /\ stage = "writing"
  /\ place = 1 /\ members = <<>> /\ repaired = <<>>

-----------------------------------------------------------------------------
(* The client writes its request, member by member, and sends it.          *)

Quoted(q, w) == IF q = "bare" THEN <<w>> ELSE <<q, w, q>>
MemberText(m) == Quoted(m.form, m.key) \o <<Colon, DQ>> \o m.value \o <<DQ>>
Separator == IF place = 1 THEN <<>> ELSE <<Comma>>

WriteMember ==
  /\ stage = "writing" /\ place <= Len(written)
  /\ text' = text \o Separator \o MemberText(written[place]) /\ place' = place + 1
  /\ UNCHANGED <<written, stage, members, repaired>>

Send ==
  /\ stage = "writing" /\ place > Len(written)
  /\ text' = Append(text, Closing) /\ stage' = "received" /\ place' = 2
  /\ UNCHANGED <<written, members, repaired>>

-----------------------------------------------------------------------------
(* serde_json, on objects of strings and numbers.                          *)

TokenIn(t, i, S) == i <= Len(t) /\ t[i] \in S

(* The first position from i on that is no space. *)
SkipSpaces(t, i) ==
  CHOOSE j \in i .. Len(t) + 1 :
    /\ j <= Len(t) => t[j] # Space
    /\ \A k \in i .. j - 1 : t[k] = Space

(* A string that begins at i ends at the next double quote; 0: there is none. *)
IsString(t, i, e) == t[i] = DQ /\ t[e] = DQ /\ \A k \in i + 1 .. e - 1 : t[k] # DQ
StringEnd(t, i) ==
  IF \E e \in i + 1 .. Len(t) : IsString(t, i, e)
  THEN CHOOSE e \in i + 1 .. Len(t) : IsString(t, i, e)
  ELSE 0

ValueEnd(t, i) == IF TokenIn(t, i, Numbers) THEN i ELSE StringEnd(t, i)

(* The member that begins at p, and the place of the sign that follows it; *)
(* 0: there is none.                                                       *)
MemberAt(t, p) ==
  LET k == SkipSpaces(t, p)
      e == StringEnd(t, k)
      c == SkipSpaces(t, e + 1)
      v == SkipSpaces(t, c + 1)
      w == ValueEnd(t, v) IN
  IF e > 0 /\ TokenIn(t, c, {Colon}) /\ w > 0
  THEN [sign |-> SkipSpaces(t, w + 1),
        key |-> SubSeq(t, k + 1, e - 1), value |-> SubSeq(t, v, w)]
  ELSE [sign |-> 0, key |-> <<>>, value |-> <<>>]

(* The brace at n ends the object, and nothing follows it. *)
Closes(t, n) == TokenIn(t, n, {Closing}) /\ SkipSpaces(t, n + 1) > Len(t)

(* Repair first, and parse only what comes out of it. *)
ParsesNever(t, p) ==
  LET n == MemberAt(t, p).sign IN
  stage = "repaired" /\ n > 0 /\ (TokenIn(t, n, {Comma}) \/ Closes(t, n))
Parses(t, p) ==
  LET n == MemberAt(t, p).sign IN n > 0 /\ (TokenIn(t, n, {Comma}) \/ Closes(t, n))

(* Every text begins with a brace, which the repair leaves. *)
EmptyObject == members = <<>> /\ Closes(text, SkipSpaces(text, place))

-----------------------------------------------------------------------------
(* key_repair_regex: (['"])?([a-zA-Z0-9]+)(['"])?: becomes "$2":           *)

(* How many tokens match at i, with the leading quote if there is one; a   *)
(* backslash in front of the quote stays.                                  *)
WordColon(t, i) ==
  IF ~TokenIn(t, i, Words) THEN 0
  ELSE IF TokenIn(t, i + 1, {Colon}) THEN 2
  ELSE IF TokenIn(t, i + 1, Quotes) /\ TokenIn(t, i + 2, {Colon}) THEN 3
  ELSE 0

Match(t, i) ==
  IF TokenIn(t, i, Quotes \cup {Esc}) /\ WordColon(t, i + 1) > 0
  THEN 1 + WordColon(t, i + 1)
  ELSE WordColon(t, i)

Replacement(t, i) ==
  IF t[i] \in Words THEN <<DQ, t[i], DQ, Colon>>
  ELSE <<IF t[i] = Esc THEN Esc ELSE DQ, t[i + 1], DQ, Colon>>

(* What replace_all keeps between two matches. *)
Stripped(t, a, b) == SelectSeq(SubSeq(t, a, b), LAMBDA x : x # SQ)
Between(t, a, b) == SubSeq(t, a, b)

-----------------------------------------------------------------------------
(* parse_request.                                                          *)

Parsing == stage \in {"received", "repaired"}

ParseMember ==
  /\ Parsing /\ Parses(text, place)
  /\ LET m == MemberAt(text, place) IN
       /\ members' = Append(members, [key |-> m.key, value |-> m.value])
       /\ place' = m.sign + 1
       /\ stage' = IF text[m.sign] = Comma THEN stage ELSE "parsed"
  /\ UNCHANGED <<written, text, repaired>>

ParseEmpty ==
  /\ Parsing /\ EmptyObject
  /\ stage' = "parsed" /\ UNCHANGED <<written, text, place, members, repaired>>

Malformed == ~Parses(text, place) /\ ~EmptyObject

TryRepair ==
  /\ stage = "received" /\ Malformed
  /\ stage' = "repairing" /\ place' = 1 /\ members' = <<>>
  /\ UNCHANGED <<written, text, repaired>>

(* replace_all goes on to the next match, *)
Replace ==
  /\ stage = "repairing"
  /\ \E m \in place .. Len(text) :
       /\ Match(text, m) > 0 /\ \A k \in place .. m - 1 : Match(text, k) = 0
       /\ repaired' = repaired \o Between(text, place, m - 1) \o Replacement(text, m)
       /\ place' = m + Match(text, m)
  /\ UNCHANGED <<written, text, stage, members>>

(* and when there is none left, the second attempt begins. *)
TryAgain ==
  /\ stage = "repairing" /\ \A k \in place .. Len(text) : Match(text, k) = 0
  /\ text' = repaired \o Between(text, place, Len(text))
  /\ stage' = "repaired" /\ place' = 2
  /\ UNCHANGED <<written, members, repaired>>

(* INVALID_FORMAT *)
GiveUp ==
  /\ stage = "repaired" /\ Malformed
  /\ stage' = "error" /\ UNCHANGED <<written, text, place, members, repaired>>

RepairNext ==
  \/ WriteMember \/ Send
  \/ ParseMember \/ ParseEmpty \/ TryRepair \/ Replace \/ TryAgain \/ GiveUp

RepairSpec == RepairInit /\ [][RepairNext]_repairVars

-----------------------------------------------------------------------------
(* Properties.                                                             *)

(* The repair may cost a request its acceptance but never changes it: what *)
(* is parsed are the keys and values the client wrote, in their order and  *)
(* each once, whatever quotes, commas, colons and words the values contain *)
(* and wherever the first attempt failed (handler.rs 288-295).             *)
NeverAltered ==
  stage = "parsed" =>
    members = [i \in DOMAIN written |->
                 [key |-> <<written[i].key>>, value |-> <<DQ>> \o written[i].value \o <<DQ>>]]

(* A request is refused only if some key is not in double quotes and some  *)
(* value has a word that a colon follows: well-formed JSON never is, and   *)
(* bare keys are repaired beside any other value (handler.rs 288-300).     *)
HasWordColon(v) == \E i \in DOMAIN v : WordColon(v, i) > 0
RefusedOnlyFor ==
  stage = "error" =>
    /\ \E i \in DOMAIN written : written[i].form # DQ
    /\ \E i \in DOMAIN written : HasWordColon(written[i].value)
=============================================================================
