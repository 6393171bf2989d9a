--------------------------- MODULE FramingProofs ---------------------------
(***************************************************************************)
(* Framing implements Channel, for bytes of any number of values, any      *)
(* bodies a length can tell, any limit and any number of messages.         *)
(***************************************************************************)
EXTENDS Framing, SequenceTheorems, TLAPS

Byte == 0 .. Base - 1

-----------------------------------------------------------------------------
(* The length of a body, written and read.                                 *)

(* The lowest digit and the others. *)
LEMMA Digit ==
  ASSUME NEW B \in Nat \ {0}, NEW n \in Nat
  PROVE  n \div B \in Nat /\ n % B \in 0 .. B - 1 /\ n = (n % B) + B * (n \div B)
<1>1. n \div B \in Nat /\ n % B \in 0 .. B - 1
  OBVIOUS
<1>2. n - B * (n \div B) = n % B
  OBVIOUS
<1> QED BY <1>1, <1>2

(* One digit less leaves a number of one digit less. *)
LEMMA FewerDigits ==
  ASSUME NEW B \in Nat \ {0}, NEW n \in Nat, NEW m \in Nat, n < B * m
  PROVE  n \div B < m
<1> DEFINE q == n \div B
<1>1. q \in Nat /\ B * q <= n
  <2>1. q \in Nat /\ n % B \in 0 .. B - 1 /\ n = (n % B) + B * q
    BY Digit
  <2>2. B * q \in Nat
    BY <2>1
  <2> QED BY <2>1, <2>2
<1> HIDE DEF q
<1>2. q < m
  <2> SUFFICES ASSUME q >= m PROVE FALSE
    BY <1>1
  <2>1. B * q >= B * m
    BY <1>1
  <2>2. B * q \in Nat /\ B * m \in Nat
    BY <1>1
  <2> QED BY <1>1, <2>1, <2>2
<1> QED BY <1>2 DEF q

(* What from_le_bytes makes of what to_le_bytes makes of a length. *)
LEMMA LengthRoundTrip ==
  ASSUME Base \in Nat \ {0}, NEW n \in 0 .. LengthValues - 1
  PROVE  /\ ToLeBytes(n) \in Seq(Byte) /\ Len(ToLeBytes(n)) = HeaderSize
         /\ FromLeBytes(ToLeBytes(n)) = n
<1> DEFINE n1 == n \div Base
           n2 == n1 \div Base
           n3 == n2 \div Base
<1>1. /\ Base * Base \in Nat /\ Base * (Base * Base) \in Nat
      /\ n \in Nat /\ n < Base * (Base * (Base * Base))
  BY DEF LengthValues
<1>2. /\ n1 \in Nat /\ n % Base \in Byte /\ n = (n % Base) + Base * n1
      /\ n1 < Base * (Base * Base)
  BY <1>1, Digit, FewerDigits DEF Byte
<1> HIDE DEF n1
<1>3. /\ n2 \in Nat /\ n1 % Base \in Byte /\ n1 = (n1 % Base) + Base * n2
      /\ n2 < Base * Base
  BY <1>1, <1>2, Digit, FewerDigits DEF Byte
<1> HIDE DEF n2
<1>4. /\ n3 \in Nat /\ n2 % Base \in Byte /\ n2 = (n2 % Base) + Base * n3
      /\ n3 < Base
  BY <1>3, Digit, FewerDigits DEF Byte
<1> HIDE DEF n3
<1>5. n3 % Base = n3 /\ n3 % Base \in Byte
  BY <1>4 DEF Byte
<1>6. ToLeBytes(n) = <<n % Base, n1 % Base, n2 % Base, n3 % Base>>
  BY DEF ToLeBytes, n1, n2, n3
<1>7. ToLeBytes(n) \in Seq(Byte) /\ Len(ToLeBytes(n)) = 4
  BY <1>2, <1>3, <1>4, <1>5, <1>6
<1>8. FromLeBytes(ToLeBytes(n))
        = (n % Base) + Base * ((n1 % Base) + Base * ((n2 % Base) + Base * (n3 % Base)))
  BY <1>6 DEF FromLeBytes
<1> QED BY <1>2, <1>3, <1>4, <1>5, <1>7, <1>8 DEF HeaderSize

(* A frame: the four bytes of the length of its body, and the body. *)
LEMMA FrameProperties ==
  ASSUME FramingAssumption, NEW b \in Bodies
  PROVE  /\ b \in Seq(Byte) /\ Len(b) \in Nat
         /\ Frame(b) \in Seq(Byte) /\ Len(Frame(b)) = 4 + Len(b)
         /\ \A j \in 1 .. Len(b) : Frame(b)[4 + j] = b[j]
         /\ Frame(b)[1] + Base * (Frame(b)[2] + Base * (Frame(b)[3] + Base * Frame(b)[4]))
              = Len(b)
<1> DEFINE h == ToLeBytes(Len(b))
<1>1. b \in Seq(Byte) /\ Len(b) \in 0 .. LengthValues - 1 /\ Base \in Nat \ {0}
  <2>1. b \in Seq(Byte) /\ Base \in Nat \ {0} /\ Len(b) < LengthValues
    BY DEF FramingAssumption, Byte
  <2>2. Len(b) \in Nat /\ LengthValues \in Nat
    BY <2>1, LenProperties DEF LengthValues
  <2> QED BY <2>1, <2>2
<1>2. LengthValues \in Nat \ {0}
  BY <1>1 DEF LengthValues
<1>3. Len(b) % LengthValues = Len(b)
  BY <1>1, <1>2
<1>4. Frame(b) = h \o b
  BY <1>3 DEF Frame
<1>5. h \in Seq(Byte) /\ Len(h) = 4 /\ FromLeBytes(h) = Len(b)
  BY <1>1, LengthRoundTrip DEF HeaderSize
<1> HIDE DEF h
<1>6. /\ h \o b \in Seq(Byte) /\ Len(h \o b) = Len(h) + Len(b)
      /\ \A i \in 1 .. Len(h) + Len(b) :
           (h \o b)[i] = IF i <= Len(h) THEN h[i] ELSE b[i - Len(h)]
  BY <1>1, <1>5, ConcatProperties
<1>7. Len(b) \in Nat
  BY <1>1
<1>8. \A i \in 1 .. 4 : Frame(b)[i] = h[i]
  BY <1>4, <1>5, <1>6, <1>7
<1>9. \A j \in 1 .. Len(b) : Frame(b)[4 + j] = b[j]
  <2> SUFFICES ASSUME NEW j \in 1 .. Len(b) PROVE Frame(b)[4 + j] = b[j]
    OBVIOUS
  <2>1. 4 + j \in 1 .. Len(h) + Len(b) /\ ~(4 + j <= Len(h)) /\ 4 + j - Len(h) = j
    BY <1>5, <1>7
  <2> QED BY <1>4, <1>6, <2>1
<1> QED BY <1>1, <1>4, <1>5, <1>6, <1>7, <1>8, <1>9 DEF FromLeBytes

-----------------------------------------------------------------------------
(* Where the bytes are.  Everything that was ever written is one sequence  *)
(* W, in which the frame of message i + 1 begins after off[i] bytes; what  *)
(* read_exact has, what is on the way and what write_all still holds are   *)
(* the next bytes of W, one after the other.                               *)

Laid(off, W) ==
  /\ off[Len(sent)] = Len(W)
  /\ \A i \in 0 .. Len(sent) : off[i] <= Len(W)
  /\ \A i \in 0 .. Len(sent) - 1 :
       /\ off[i + 1] = off[i] + 4 + Len(sent[i + 1])
       /\ \A j \in 1 .. 4 + Len(sent[i + 1]) : W[off[i] + j] = Frame(sent[i + 1])[j]

(* s is what W holds after p bytes. *)
IsAt(s, W, p) == \A j \in 1 .. Len(s) : s[j] = W[p + j]

(* How much was read before what read_exact is reading. *)
Start(off) == off[Len(received)] + (IF reader = "body" THEN 4 ELSE 0)

Placed(off, W) ==
  /\ Start(off) + Len(buf) + Len(stream) + Len(outgoing) = Len(W)
  /\ IsAt(buf, W, Start(off)) /\ IsAt(stream, W, Start(off) + Len(buf))
  /\ IsAt(outgoing, W, Start(off) + Len(buf) + Len(stream))

(* What read_exact waits for is a header, or the body of the next message. *)
Wanted ==
  /\ Len(received) <= Len(sent) /\ Len(buf) <= want
  /\ reader = "header" => want = 4
  /\ reader = "body" => /\ Len(received) < Len(sent)
                        /\ want = Len(sent[Len(received) + 1])

Types ==
  /\ sent \in Seq(Bodies) /\ received \in Seq(Bodies)
  /\ outgoing \in Seq(Byte) /\ stream \in Seq(Byte) /\ buf \in Seq(Byte)
  /\ want \in Nat /\ reader \in {"header", "body", "refused", "ended"}

BytesInv ==
  /\ Types
  /\ Reading => /\ Wanted
                /\ \E W \in Seq(Byte), off \in [0 .. Len(sent) -> Nat] :
                     Laid(off, W) /\ Placed(off, W)

LEMMA Lengths ==
  ASSUME Types
  PROVE  /\ Len(sent) \in Nat /\ Len(received) \in Nat /\ Len(outgoing) \in Nat
         /\ Len(stream) \in Nat /\ Len(buf) \in Nat
         /\ \A i \in 0 .. Len(sent) - 1 : i + 1 \in 1 .. Len(sent) /\ sent[i + 1] \in Bodies
<1>1. /\ Len(sent) \in Nat /\ Len(received) \in Nat /\ Len(outgoing) \in Nat
      /\ Len(stream) \in Nat /\ Len(buf) \in Nat
  BY LenProperties DEF Types
<1>2. \A i \in 1 .. Len(sent) : sent[i] \in Bodies
  BY ElementOfSeq DEF Types
<1> QED BY <1>1, <1>2

LEMMA Joined ==
  ASSUME NEW S, NEW a \in Seq(S), NEW b \in Seq(S)
  PROVE  /\ a \o b \in Seq(S) /\ Len(a \o b) = Len(a) + Len(b)
         /\ \A i \in 1 .. Len(a) : (a \o b)[i] = a[i]
         /\ \A i \in 1 .. Len(b) : (a \o b)[Len(a) + i] = b[i]
<1> DEFINE la == Len(a)
           lb == Len(b)
           c == a \o b
<1>1. /\ c \in Seq(S) /\ Len(c) = la + lb
      /\ \A i \in 1 .. la + lb : c[i] = IF i <= la THEN a[i] ELSE b[i - la]
  BY ConcatProperties
<1>2. la \in Nat /\ lb \in Nat
  BY LenProperties
<1> HIDE DEF la, lb, c
<1>3. \A i \in 1 .. la : c[i] = a[i]
  BY <1>1, <1>2
<1>4. ASSUME NEW i \in 1 .. lb PROVE c[la + i] = b[i]
  <2> DEFINE k == la + i
  <2>1. k \in 1 .. la + lb /\ ~(k <= la) /\ k - la = i
    BY <1>2
  <2> HIDE DEF k
  <2>2. c[k] = b[i]
    BY <1>1, <2>1
  <2> QED BY <2>2 DEF k
<1> QED BY <1>1, <1>3, <1>4 DEF la, lb, c

LEMMA Moved ==
  ASSUME NEW S, NEW a \in Seq(S), NEW b \in Seq(S), NEW n \in 1 .. Len(b)
  PROVE  a \o Front(b, n) \in Seq(S) /\ After(b, n) \in Seq(S)
<1>1. Len(b) \in Nat /\ \A i \in 1 .. Len(b) : b[i] \in S
  BY LenProperties, ElementOfSeq
<1>2. SubSeq(b, 1, n) \in Seq(S)
  BY <1>1, SubSeqProperties
<1>3. SubSeq(b, n + 1, Len(b)) \in Seq(S)
  BY <1>1, SubSeqProperties
<1> QED BY <1>2, <1>3, ConcatProperties DEF Front, After

(* Some bytes move from the front of what follows to the end of what       *)
(* precedes it, and stay where they are.                                   *)
LEMMA MoveBytes ==
  ASSUME NEW S, NEW W, NEW p \in Nat, NEW a \in Seq(S), NEW b \in Seq(S),
         NEW n \in 1 .. Len(b), IsAt(a, W, p), IsAt(b, W, p + Len(a))
  PROVE  /\ Len(a \o Front(b, n)) = Len(a) + n /\ Len(After(b, n)) = Len(b) - n
         /\ IsAt(a \o Front(b, n), W, p)
         /\ IsAt(After(b, n), W, p + Len(a \o Front(b, n)))
<1> DEFINE f == SubSeq(b, 1, n)
           c == a \o Front(b, n)
           d == After(b, n)
           lb == Len(b)
           la == Len(a)
<1>1. la \in Nat /\ lb \in Nat /\ n \in Nat /\ n >= 1 /\ n <= lb
      /\ \A i \in 1 .. lb : b[i] \in S
  BY LenProperties, ElementOfSeq
<1>2. f \in Seq(S) /\ Len(f) = n /\ \A i \in 1 .. n : f[i] = b[i]
  BY <1>1, SubSeqProperties
<1>3. /\ d \in Seq(S) /\ Len(d) = lb - n
      /\ \A i \in 1 .. lb - n : d[i] = b[n + i]
  <2>1. /\ SubSeq(b, n + 1, lb) \in Seq(S)
        /\ Len(SubSeq(b, n + 1, lb)) = IF n + 1 <= lb THEN lb - (n + 1) + 1 ELSE 0
        /\ \A i \in 1 .. lb - (n + 1) + 1 : SubSeq(b, n + 1, lb)[i] = b[n + 1 + i - 1]
    BY <1>1, SubSeqProperties
  <2>2. d = SubSeq(b, n + 1, lb)
    BY DEF After
  <2> HIDE DEF lb
  <2>3. Len(d) = lb - n
    BY <1>1, <2>1, <2>2
  <2>4. ASSUME NEW i \in 1 .. lb - n PROVE d[i] = b[n + i]
    <3>1. i \in 1 .. lb - (n + 1) + 1 /\ n + 1 + i - 1 = n + i
      BY <1>1
    <3> QED BY <2>1, <2>2, <3>1
  <2> QED BY <2>1, <2>2, <2>3, <2>4
<1>4. c = a \o f
  BY DEF Front
<1> HIDE DEF f, lb, c, d
<1>5. /\ a \o f \in Seq(S) /\ Len(a \o f) = la + Len(f)
      /\ \A i \in 1 .. la + Len(f) : (a \o f)[i] = IF i <= la THEN a[i] ELSE f[i - la]
  BY <1>2, ConcatProperties
<1> HIDE DEF la
<1>6. c \in Seq(S) /\ Len(c) = la + n
  BY <1>2, <1>4, <1>5
<1>7. ASSUME NEW i \in 1 .. la + n PROVE c[i] = W[p + i]
  <2>1. CASE i <= la
    BY <1>1, <1>2, <1>4, <1>5, <2>1 DEF IsAt, la
  <2>2. CASE i > la
    <3>1. i - la \in 1 .. n /\ i - la \in 1 .. lb
      BY <1>1, <2>2
    <3>2. c[i] = b[i - la]
      BY <1>1, <1>2, <1>4, <1>5, <2>2, <3>1
    <3>3. b[i - la] = W[p + la + (i - la)]
      BY <3>1 DEF IsAt, la, lb
    <3>4. p + la + (i - la) = p + i
      BY <1>1
    <3> QED BY <3>2, <3>3, <3>4
  <2>3. la \in Nat /\ i \in Nat
    BY <1>1
  <2>4. i <= la \/ i > la
    BY <2>3
  <2> QED BY <2>1, <2>2, <2>4
<1>8. ASSUME NEW i \in 1 .. lb - n PROVE d[i] = W[p + (la + n) + i]
  <2>1. n + i \in 1 .. lb
    BY <1>1
  <2>2. b[n + i] = W[p + la + (n + i)]
    BY <2>1 DEF IsAt, la, lb
  <2>3. p + la + (n + i) = p + (la + n) + i
    BY <1>1
  <2> QED BY <1>3, <2>2, <2>3
<1>9. /\ Len(c) = Len(a) + n /\ Len(d) = Len(b) - n
      /\ IsAt(c, W, p) /\ IsAt(d, W, p + Len(c))
  BY <1>3, <1>6, <1>7, <1>8 DEF IsAt, la, lb
<1> QED BY <1>9 DEF c, d

-----------------------------------------------------------------------------
(* The steps.                                                              *)

(* Where a reader that is in step stands. *)
LEMMA StartProperties ==
  ASSUME Types, Wanted, NEW W \in Seq(Byte), NEW off \in [0 .. Len(sent) -> Nat]
  PROVE  Len(W) \in Nat /\ Start(off) \in Nat /\ off[Len(received)] \in Nat
<1>1. Len(W) \in Nat
  BY LenProperties
<1>2. Len(received) \in 0 .. Len(sent)
  BY Lengths DEF Wanted
<1> QED BY <1>1, <1>2 DEF Start

LEMMA InitBytes == ASSUME FramingInit PROVE BytesInv
<1> DEFINE off == [i \in 0 .. 0 |-> 0]
<1>1. Types
  BY EmptySeq DEF FramingInit, Types, HeaderSize
<1>2. Len(sent) = 0 /\ Len(received) = 0 /\ Len(buf) = 0 /\ Len(stream) = 0 /\ Len(outgoing) = 0
  BY EmptySeq DEF FramingInit
<1>3. Wanted
  BY <1>2 DEF FramingInit, Wanted, HeaderSize
<1>4. <<>> \in Seq(Byte) /\ Len(<<>>) = 0
  BY EmptySeq
<1>5. off \in [0 .. Len(sent) -> Nat] /\ off[0] = 0
  BY <1>2
<1>6. Laid(off, <<>>)
  BY <1>2, <1>4, <1>5 DEF Laid
<1>7. Placed(off, <<>>)
  BY <1>2, <1>4, <1>5 DEF FramingInit, Placed, Start, IsAt
<1> QED BY <1>1, <1>3, <1>4, <1>5, <1>6, <1>7 DEF BytesInv

LEMMA WriteTypes ==
  ASSUME FramingAssumption, Types, NEW b \in Bodies, Write(b)
  PROVE  /\ Types' /\ Len(sent') = Len(sent) + 1 /\ sent'[Len(sent) + 1] = b
         /\ \A i \in 1 .. Len(sent) : sent'[i] = sent[i]
<1>1. /\ sent' \in Seq(Bodies) /\ Len(sent') = Len(sent) + 1 /\ sent'[Len(sent) + 1] = b
      /\ \A i \in 1 .. Len(sent) : sent'[i] = sent[i]
  BY AppendProperties DEF Write, Types
<1>2. outgoing' \in Seq(Byte)
  BY FrameProperties DEF Write
<1> QED BY <1>1, <1>2 DEF Write, Types, read

LEMMA WriteKeeps ==
  ASSUME FramingAssumption, BytesInv, NEW b \in Bodies, Write(b)
  PROVE  BytesInv'
<1>1. Types
  BY DEF BytesInv
<1>2. /\ Types' /\ Len(sent') = Len(sent) + 1 /\ sent'[Len(sent) + 1] = b
      /\ \A i \in 1 .. Len(sent) : sent'[i] = sent[i]
  BY <1>1, WriteTypes
<1>3. UNCHANGED <<stream, buf, want, reader, received>> /\ outgoing = <<>> /\ outgoing' = Frame(b)
  BY DEF Write, read
<1> SUFFICES ASSUME Reading
             PROVE  /\ Wanted'
                    /\ \E W \in Seq(Byte), off \in [0 .. Len(sent') -> Nat] :
                         Laid(off, W)' /\ Placed(off, W)'
  BY <1>2, <1>3 DEF BytesInv, Reading
<1> DEFINE l == Len(sent)
<1>4. /\ l \in Nat /\ Len(received) \in Nat /\ Len(stream) \in Nat /\ Len(buf) \in Nat
      /\ Len(outgoing) = 0
  BY <1>1, <1>3, Lengths, EmptySeq
<1>5. Wanted /\ Len(received) \in 0 .. l
  BY <1>4 DEF BytesInv, Wanted
<1>6. Wanted'
  <2>1. Len(received) + 1 \in 1 .. l => sent'[Len(received) + 1] = sent[Len(received) + 1]
    BY <1>2
  <2> QED BY <1>2, <1>3, <1>4, <1>5, <2>1 DEF Wanted
<1>7. PICK W \in Seq(Byte), off \in [0 .. l -> Nat] : Laid(off, W) /\ Placed(off, W)
  BY DEF BytesInv
<1> DEFINE F == Frame(b)
           V == W \o F
           w == Len(W)
<1>8. F \in Seq(Byte) /\ Len(F) = 4 + Len(b) /\ Len(b) \in Nat
  BY FrameProperties
<1>9. w \in Nat
  BY LenProperties
<1> HIDE DEF F
<1>10. /\ V \in Seq(Byte) /\ Len(V) = w + 4 + Len(b)
       /\ \A i \in 1 .. w : V[i] = W[i]
       /\ \A i \in 1 .. 4 + Len(b) : V[w + i] = F[i]
  <2>1. /\ W \o F \in Seq(Byte) /\ Len(W \o F) = Len(W) + Len(F)
        /\ \A i \in 1 .. Len(W) : (W \o F)[i] = W[i]
        /\ \A i \in 1 .. Len(F) : (W \o F)[Len(W) + i] = F[i]
    BY <1>8, Joined
  <2> HIDE DEF V, w
  <2>2. /\ V \in Seq(Byte) /\ Len(V) = w + Len(F)
        /\ \A i \in 1 .. w : V[i] = W[i]
        /\ \A i \in 1 .. Len(F) : V[w + i] = F[i]
    BY <2>1 DEF V, w
  <2> QED BY <1>8, <1>9, <2>2
<1> HIDE DEF V, w
<1>11. PICK new \in [0 .. l + 1 -> Nat] :
         /\ new[l + 1] = w + 4 + Len(b)
         /\ \A i \in 0 .. l : new[i] = off[i]
  <2> DEFINE n == [i \in 0 .. l + 1 |-> IF i = l + 1 THEN w + 4 + Len(b) ELSE off[i]]
  <2>1. n \in [0 .. l + 1 -> Nat] /\ n[l + 1] = w + 4 + Len(b) /\ \A i \in 0 .. l : n[i] = off[i]
    BY <1>4, <1>8, <1>9
  <2> QED BY <2>1
<1>12. off[l] = w /\ \A i \in 0 .. l : off[i] \in Nat /\ off[i] <= w
  BY <1>7 DEF Laid, w
<1>13. Laid(new, V)'
  <2>1. new[l + 1] = Len(V) /\ \A i \in 0 .. l + 1 : new[i] <= Len(V)
    <3>1. \A i \in 0 .. l + 1 : i = l + 1 \/ i \in 0 .. l
      BY <1>4
    <3>2. Len(V) \in Nat /\ w <= Len(V) /\ new[l + 1] = Len(V)
      BY <1>8, <1>9, <1>10, <1>11
    <3>3. \A i \in 0 .. l : new[i] <= Len(V)
      BY <1>9, <1>11, <1>12, <3>2
    <3> QED BY <3>1, <3>2, <3>3
  <2>2. ASSUME NEW i \in 0 .. l - 1
        PROVE  /\ new[i + 1] = new[i] + 4 + Len(sent'[i + 1])
               /\ \A j \in 1 .. 4 + Len(sent'[i + 1]) : V[new[i] + j] = Frame(sent'[i + 1])[j]
    <3>1. i \in 0 .. l /\ i + 1 \in 0 .. l /\ i + 1 \in 1 .. l
      BY <1>4
    <3>2. /\ sent'[i + 1] = sent[i + 1] /\ new[i] = off[i] /\ new[i + 1] = off[i + 1]
          /\ Len(sent[i + 1]) \in Nat
      BY <1>1, <1>2, <1>11, <3>1, Lengths, FrameProperties
    <3>3. /\ off[i + 1] = off[i] + 4 + Len(sent[i + 1])
          /\ \A j \in 1 .. 4 + Len(sent[i + 1]) : W[off[i] + j] = Frame(sent[i + 1])[j]
      BY <1>7 DEF Laid
    <3>4. \A j \in 1 .. 4 + Len(sent[i + 1]) : off[i] + j \in 1 .. w
      <4>1. off[i] \in Nat /\ off[i] + 4 + Len(sent[i + 1]) <= w
        BY <1>12, <3>1, <3>3
      <4> QED BY <1>9, <3>2, <4>1
    <3> QED BY <1>10, <3>2, <3>3, <3>4
  <2>3. /\ new[l + 1] = new[l] + 4 + Len(sent'[l + 1])
        /\ \A j \in 1 .. 4 + Len(sent'[l + 1]) : V[new[l] + j] = Frame(sent'[l + 1])[j]
    <3>1. l \in 0 .. l
      BY <1>4
    <3>2. new[l] = w /\ sent'[l + 1] = b
      BY <1>2, <1>11, <1>12, <3>1
    <3> QED BY <1>10, <1>11, <3>2 DEF F
  <2>4. \A i \in 0 .. l : i \in 0 .. l - 1 \/ i = l
    BY <1>4
  <2>5. Len(sent') = l + 1 /\ l + 1 - 1 = l
    BY <1>2, <1>4
  <2>6. \A i \in 0 .. l :
          /\ new[i + 1] = new[i] + 4 + Len(sent'[i + 1])
          /\ \A j \in 1 .. 4 + Len(sent'[i + 1]) : V[new[i] + j] = Frame(sent'[i + 1])[j]
    BY <2>2, <2>3, <2>4
  <2> QED BY <2>1, <2>5, <2>6 DEF Laid
<1>14. Placed(new, V)'
  <2> DEFINE s == Start(off)
  <2>1. s \in Nat
    BY <1>1, <1>5, StartProperties
  <2>2. Start(new)' = s
    BY <1>3, <1>5, <1>11 DEF Start
  <2> HIDE DEF s
  <2>3. s + Len(buf) + Len(stream) = w
    BY <1>4, <1>7, <2>1 DEF Placed, s, w
  <2>4. IsAt(buf, V, s) /\ IsAt(stream, V, s + Len(buf))
    <3>1. \A j \in 1 .. Len(buf) : s + j \in 1 .. w
      BY <1>4, <2>1, <2>3
    <3>2. \A j \in 1 .. Len(stream) : s + Len(buf) + j \in 1 .. w
      BY <1>4, <2>1, <2>3
    <3>3. IsAt(buf, W, s) /\ IsAt(stream, W, s + Len(buf))
      BY <1>7 DEF Placed, s
    <3> QED BY <1>10, <3>1, <3>2, <3>3 DEF IsAt
  <2>5. IsAt(outgoing', V, s + Len(buf) + Len(stream))
    BY <1>3, <1>8, <1>10, <2>3 DEF IsAt, F
  <2>6. s + Len(buf) + Len(stream) + Len(outgoing') = Len(V)
    BY <1>3, <1>8, <1>9, <1>10, <2>3 DEF F
  <2> QED BY <1>3, <2>2, <2>4, <2>5, <2>6 DEF Placed
<1> QED BY <1>2, <1>6, <1>10, <1>11, <1>13, <1>14

(* The kernel takes bytes, or recv returns some. *)
LEMMA MoveKeeps ==
  ASSUME BytesInv, NEW n \in Nat, Accept(n) \/ Arrive(n)
  PROVE  BytesInv'
<1>1. Types
  BY DEF BytesInv
<1>2. /\ Len(sent) \in Nat /\ Len(received) \in Nat /\ Len(outgoing) \in Nat
      /\ Len(stream) \in Nat /\ Len(buf) \in Nat /\ want \in Nat
  BY <1>1, Lengths DEF Types
<1>3. UNCHANGED <<sent, want, reader, received>> /\ (Reading <=> Reading')
  BY DEF Accept, Arrive, write, read, Reading
<1>4. CASE Accept(n)
  <2>1. /\ n \in 1 .. Len(outgoing) /\ stream' = stream \o Front(outgoing, n)
        /\ outgoing' = After(outgoing, n) /\ buf' = buf
    BY <1>4 DEF Accept, read
  <2>2. ASSUME NEW W, NEW p \in Nat, IsAt(stream, W, p), IsAt(outgoing, W, p + Len(stream))
        PROVE  /\ Len(stream') = Len(stream) + n /\ Len(outgoing') = Len(outgoing) - n
               /\ IsAt(stream', W, p) /\ IsAt(outgoing', W, p + Len(stream'))
    <3>1. stream \in Seq(Byte) /\ outgoing \in Seq(Byte)
      BY <1>1 DEF Types
    <3>2. n \in 1 .. Len(outgoing)
      BY <2>1
    <3>3. LET c == stream \o Front(outgoing, n)
              d == After(outgoing, n)
          IN  /\ Len(c) = Len(stream) + n /\ Len(d) = Len(outgoing) - n
              /\ IsAt(c, W, p) /\ IsAt(d, W, p + Len(c))
      BY <2>2, <3>1, <3>2, MoveBytes
    <3> QED BY <2>1, <3>3
  <2>3. Types'
    <3>1. stream' \in Seq(Byte) /\ outgoing' \in Seq(Byte)
      BY <1>1, <2>1, Moved DEF Types
    <3> QED BY <1>1, <1>3, <2>1, <3>1 DEF Types
  <2>4. ASSUME Reading
        PROVE  Wanted' /\ \E W \in Seq(Byte), off \in [0 .. Len(sent') -> Nat] :
                            Laid(off, W)' /\ Placed(off, W)'
    <3>1. Wanted /\ Wanted'
      BY <1>3, <2>1, <2>4 DEF BytesInv, Wanted
    <3>2. PICK W \in Seq(Byte), off \in [0 .. Len(sent) -> Nat] : Laid(off, W) /\ Placed(off, W)
      BY <2>4 DEF BytesInv
    <3> DEFINE s == Start(off)
               p == s + Len(buf)
    <3>3. s \in Nat /\ s' = s /\ p \in Nat
      BY <1>1, <1>2, <1>3, <3>1, StartProperties DEF Start
    <3>4. s + Len(buf) + Len(stream) + Len(outgoing) = Len(W) /\ IsAt(buf, W, s)
          /\ IsAt(stream, W, p) /\ IsAt(outgoing, W, p + Len(stream))
      BY <3>2 DEF Placed
    <3> HIDE DEF s
    <3>5. /\ Len(stream') = Len(stream) + n /\ Len(outgoing') = Len(outgoing) - n
          /\ IsAt(stream', W, p) /\ IsAt(outgoing', W, p + Len(stream'))
      BY <2>2, <3>3, <3>4
    <3>6. s + Len(buf) + Len(stream') + Len(outgoing') = Len(W)
      <4>1. s + Len(buf) + Len(stream) + Len(outgoing) = Len(W) /\ s \in Nat
        BY <3>3, <3>4
      <4>2. Len(stream') = Len(stream) + n /\ Len(outgoing') = Len(outgoing) - n
        BY <3>5
      <4> QED BY <1>2, <4>1, <4>2
    <3>7. Placed(off, W)'
      BY <2>1, <3>3, <3>4, <3>5, <3>6 DEF Placed, s
    <3>8. Laid(off, W)'
      BY <1>3, <3>2 DEF Laid
    <3> QED BY <1>3, <3>1, <3>7, <3>8
  <2> QED BY <1>3, <2>3, <2>4 DEF BytesInv
<1>5. CASE Arrive(n)
  <2>1. /\ n \in 1 .. Len(stream) /\ n <= want - Len(buf) /\ Reading
        /\ buf' = buf \o Front(stream, n) /\ stream' = After(stream, n) /\ outgoing' = outgoing
    BY <1>2, <1>5 DEF Arrive, write
  <2>2. PICK W \in Seq(Byte), off \in [0 .. Len(sent) -> Nat] : Laid(off, W) /\ Placed(off, W)
    BY <2>1 DEF BytesInv
  <2> DEFINE s == Start(off)
  <2>3. s \in Nat /\ s' = s
    BY <1>1, <1>3, <2>1, StartProperties DEF BytesInv, Start
  <2>4. /\ s + Len(buf) + Len(stream) + Len(outgoing) = Len(W) /\ IsAt(buf, W, s)
        /\ IsAt(stream, W, s + Len(buf)) /\ IsAt(outgoing, W, s + Len(buf) + Len(stream))
    BY <2>2 DEF Placed
  <2> HIDE DEF s
  <2>5. /\ buf' \in Seq(Byte) /\ stream' \in Seq(Byte)
        /\ Len(buf') = Len(buf) + n /\ Len(stream') = Len(stream) - n
        /\ IsAt(buf', W, s) /\ IsAt(stream', W, s + Len(buf'))
    <3>1. buf \in Seq(Byte) /\ stream \in Seq(Byte)
      BY <1>1 DEF Types
    <3>2. buf' \in Seq(Byte) /\ stream' \in Seq(Byte)
      BY <2>1, <3>1, Moved
    <3>3. n \in 1 .. Len(stream)
      BY <2>1
    <3>4. LET c == buf \o Front(stream, n)
              d == After(stream, n)
          IN  /\ Len(c) = Len(buf) + n /\ Len(d) = Len(stream) - n
              /\ IsAt(c, W, s) /\ IsAt(d, W, s + Len(c))
      BY <2>3, <2>4, <3>1, <3>3, MoveBytes
    <3> QED BY <2>1, <3>2, <3>4
  <2>6. Types'
    BY <1>1, <1>3, <2>1, <2>5 DEF Types
  <2>7. Wanted'
    BY <1>2, <1>3, <2>1, <2>5 DEF BytesInv, Wanted
  <2>8. /\ s + Len(buf') + Len(stream') + Len(outgoing) = Len(W)
        /\ s + Len(buf') + Len(stream') = s + Len(buf) + Len(stream)
    <3>1. s + Len(buf) + Len(stream) + Len(outgoing) = Len(W) /\ s \in Nat
      BY <2>3, <2>4
    <3>2. Len(buf') = Len(buf) + n /\ Len(stream') = Len(stream) - n
      BY <2>5
    <3> QED BY <1>2, <3>1, <3>2
  <2>9. Placed(off, W)'
    BY <2>1, <2>3, <2>4, <2>5, <2>8 DEF Placed, s
  <2>10. Laid(off, W)'
    BY <1>3, <2>2 DEF Laid
  <2> QED BY <1>3, <2>6, <2>7, <2>9, <2>10 DEF BytesInv
<1> QED BY <1>4, <1>5

(* A complete header is the length of the next message. *)
LEMMA HeaderIsLength ==
  ASSUME FramingAssumption, BytesInv, reader = "header", Complete
  PROVE  /\ Len(received) < Len(sent)
         /\ FromLeBytes(buf) = Len(sent[Len(received) + 1])
<1> DEFINE k == Len(received)
           b == sent[k + 1]
<1>1. Types /\ Wanted /\ Len(buf) = 4
  BY DEF BytesInv, Reading, Wanted, Complete
<1>2. PICK W \in Seq(Byte), off \in [0 .. Len(sent) -> Nat] : Laid(off, W) /\ Placed(off, W)
  BY DEF BytesInv, Reading
<1>3. Start(off) = off[k] /\ off[k] \in Nat /\ Len(W) \in Nat
  BY <1>1, <1>2, StartProperties DEF Start
<1>4. off[k] + 4 + Len(stream) + Len(outgoing) = Len(W) /\ IsAt(buf, W, off[k])
  BY <1>1, <1>2, <1>3 DEF Placed
<1>5. /\ k \in Nat /\ Len(sent) \in Nat /\ k <= Len(sent)
      /\ Len(stream) \in Nat /\ Len(outgoing) \in Nat
  BY <1>1, Lengths DEF Wanted
<1>6. k # Len(sent)
  <2>1. off[Len(sent)] = Len(W)
    BY <1>2 DEF Laid
  <2>2. off[k] # Len(W)
    BY <1>3, <1>4, <1>5
  <2> QED BY <2>1, <2>2
<1>7. k < Len(sent) /\ k \in 0 .. Len(sent) - 1
  BY <1>5, <1>6
<1>8. b \in Bodies
  BY <1>1, <1>7, Lengths
<1>9. Len(b) \in Nat /\ \A j \in 1 .. 4 + Len(b) : W[off[k] + j] = Frame(b)[j]
  BY <1>2, <1>7, <1>8, FrameProperties DEF Laid
<1> HIDE DEF k, b
<1>10. \A j \in 1 .. 4 : buf[j] = W[off[k] + j]
  BY <1>1, <1>4 DEF IsAt
<1>11. \A j \in 1 .. 4 : buf[j] = Frame(b)[j]
  BY <1>9, <1>10
<1>12. /\ buf[1] = Frame(b)[1] /\ buf[2] = Frame(b)[2]
       /\ buf[3] = Frame(b)[3] /\ buf[4] = Frame(b)[4]
  BY <1>11
<1>13. FromLeBytes(buf) = Len(b)
  BY <1>8, <1>12, FrameProperties DEF FromLeBytes
<1> QED BY <1>7, <1>13 DEF k, b

(* A complete body is the body of the next message. *)
LEMMA BodyIsNext ==
  ASSUME FramingAssumption, BytesInv, reader = "body", Complete
  PROVE  /\ Len(received) < Len(sent) /\ buf = sent[Len(received) + 1]
         /\ sent[Len(received) + 1] \in Bodies
<1> DEFINE k == Len(received)
           b == sent[k + 1]
<1>1. Types /\ Wanted /\ Len(buf) = Len(b) /\ k < Len(sent)
  BY DEF BytesInv, Reading, Wanted, Complete
<1>2. PICK W \in Seq(Byte), off \in [0 .. Len(sent) -> Nat] : Laid(off, W) /\ Placed(off, W)
  BY DEF BytesInv, Reading
<1>3. Start(off) = off[k] + 4 /\ off[k] \in Nat
  BY <1>1, <1>2, StartProperties DEF Start
<1>4. IsAt(buf, W, off[k] + 4)
  BY <1>2, <1>3 DEF Placed
<1>5. k \in Nat /\ Len(sent) \in Nat /\ k \in 0 .. Len(sent) - 1 /\ b \in Bodies
  <2>1. k \in Nat /\ Len(sent) \in Nat /\ k \in 0 .. Len(sent) - 1
    BY <1>1, Lengths
  <2> QED BY <1>1, <2>1, Lengths
<1>6. /\ b \in Seq(Byte) /\ Len(b) \in Nat /\ \A j \in 1 .. Len(b) : Frame(b)[4 + j] = b[j]
      /\ \A j \in 1 .. 4 + Len(b) : W[off[k] + j] = Frame(b)[j]
  BY <1>2, <1>5, FrameProperties DEF Laid
<1> HIDE DEF k, b
<1>7. ASSUME NEW j \in 1 .. Len(b) PROVE buf[j] = b[j]
  <2>1. buf[j] = W[off[k] + 4 + j]
    BY <1>1, <1>4 DEF IsAt
  <2>2. 4 + j \in 1 .. 4 + Len(b) /\ off[k] + 4 + j = off[k] + (4 + j)
    <3>1. off[k] \in Nat /\ Len(b) \in Nat
      BY <1>3, <1>6
    <3> QED BY <3>1
  <2>3. W[off[k] + (4 + j)] = Frame(b)[4 + j]
    BY <1>6, <2>2
  <2> QED BY <1>6, <2>1, <2>2, <2>3
<1>8. buf = b
  BY <1>1, <1>6, <1>7, SeqEqual DEF Types
<1> QED BY <1>1, <1>5, <1>8 DEF k, b

LEMMA HeaderKeeps ==
  ASSUME FramingAssumption, BytesInv, ReadLength
  PROVE  BytesInv'
<1>1. /\ reader = "header" /\ Complete /\ buf' = <<>>
      /\ UNCHANGED <<sent, outgoing, stream, received>>
  BY DEF ReadLength, Expect, write
<1>2. /\ Len(received) < Len(sent) /\ FromLeBytes(buf) = Len(sent[Len(received) + 1])
  BY <1>1, HeaderIsLength
<1>3. Types /\ Wanted /\ Len(buf) = 4
  BY <1>1 DEF BytesInv, Reading, Wanted, Complete
<1>4. /\ Len(received) \in Nat /\ Len(sent) \in Nat /\ Len(stream) \in Nat
      /\ Len(outgoing) \in Nat /\ Len(sent[Len(received) + 1]) \in Nat
  <2>1. Len(received) \in 0 .. Len(sent) - 1
    BY <1>2, <1>3, Lengths
  <2> QED BY <1>3, <2>1, Lengths, FrameProperties
<1>5. \/ reader' = "refused" /\ want' = 0
      \/ reader' = "body" /\ want' = Len(sent[Len(received) + 1])
  BY <1>2 DEF ReadLength, Expect
<1>6. Types'
  BY <1>1, <1>3, <1>4, <1>5, EmptySeq DEF Types
<1>7. ASSUME reader' = "body"
      PROVE  Wanted' /\ \E W \in Seq(Byte), off \in [0 .. Len(sent') -> Nat] :
                          Laid(off, W)' /\ Placed(off, W)'
  <2>1. Len(buf') = 0
    BY <1>1, EmptySeq
  <2>2. Wanted'
    BY <1>1, <1>2, <1>4, <1>5, <1>7, <2>1 DEF Wanted
  <2>3. PICK W \in Seq(Byte), off \in [0 .. Len(sent) -> Nat] : Laid(off, W) /\ Placed(off, W)
    BY <1>1 DEF BytesInv, Reading
  <2> DEFINE s == off[Len(received)]
  <2>4. s \in Nat /\ Start(off) = s /\ Start(off)' = s + 4
    BY <1>1, <1>3, <1>7, <2>3, StartProperties DEF Start
  <2>5. /\ s + 4 + Len(stream) + Len(outgoing) = Len(W) /\ IsAt(stream, W, s + 4)
        /\ IsAt(outgoing, W, s + 4 + Len(stream))
    BY <1>3, <2>3, <2>4 DEF Placed
  <2> HIDE DEF s
  <2>6. s + 4 + 0 = s + 4
    BY <2>4
  <2>7. Placed(off, W)'
    <3>1. IsAt(buf', W, s + 4)
      BY <2>1 DEF IsAt
    <3> QED BY <1>1, <2>1, <2>4, <2>5, <2>6, <3>1 DEF Placed
  <2>8. Laid(off, W)'
    BY <1>1, <2>3 DEF Laid
  <2> QED BY <1>1, <2>2, <2>7, <2>8
<1> QED BY <1>5, <1>6, <1>7 DEF BytesInv, Reading

LEMMA BodyKeeps ==
  ASSUME FramingAssumption, BytesInv, ReadMessage
  PROVE  BytesInv' /\ Fifo!Receive
<1> DEFINE k == Len(received)
<1>1. /\ reader = "body" /\ Complete /\ buf' = <<>> /\ want' = 4 /\ reader' = "header"
      /\ received' = Append(received, buf) /\ UNCHANGED <<sent, outgoing, stream>>
  BY DEF ReadMessage, Expect, write, HeaderSize
<1>2. k < Len(sent) /\ buf = sent[k + 1] /\ sent[k + 1] \in Bodies
  BY <1>1, BodyIsNext
<1>3. Fifo!Receive
  BY <1>1, <1>2 DEF Fifo!Receive
<1>4. Types /\ Wanted
  BY <1>1 DEF BytesInv, Reading
<1>5. received' \in Seq(Bodies) /\ Len(received') = k + 1
  BY <1>1, <1>2, <1>4, AppendProperties DEF Types
<1>6. Types'
  BY <1>1, <1>4, <1>5, EmptySeq DEF Types
<1>7. k \in Nat /\ Len(sent) \in Nat /\ Len(stream) \in Nat /\ Len(outgoing) \in Nat
      /\ Len(buf) \in Nat /\ Len(buf') = 0
  BY <1>1, <1>4, Lengths, EmptySeq
<1>8. Wanted'
  BY <1>1, <1>2, <1>5, <1>7 DEF Wanted
<1>9. PICK W \in Seq(Byte), off \in [0 .. Len(sent) -> Nat] : Laid(off, W) /\ Placed(off, W)
  BY <1>1 DEF BytesInv, Reading
<1> DEFINE s == off[k]
<1>10. s \in Nat /\ Start(off) = s + 4
  BY <1>1, <1>4, <1>9, StartProperties DEF Start
<1>11. off[k + 1] = s + 4 + Len(buf) /\ k + 1 \in 0 .. Len(sent)
  BY <1>2, <1>7, <1>9 DEF Laid
<1>12. /\ s + 4 + Len(buf) + Len(stream) + Len(outgoing) = Len(W)
       /\ IsAt(stream, W, s + 4 + Len(buf)) /\ IsAt(outgoing, W, s + 4 + Len(buf) + Len(stream))
  BY <1>9, <1>10 DEF Placed
<1> DEFINE t == off[k + 1]
<1>13. t \in Nat /\ t + 0 = t
  BY <1>11
<1>14. /\ t + Len(stream) + Len(outgoing) = Len(W)
       /\ IsAt(stream, W, t) /\ IsAt(outgoing, W, t + Len(stream))
  BY <1>11, <1>12
<1>15. Placed(off, W)'
  <2>1. Start(off)' = off[k + 1] + 0
    BY <1>1, <1>5 DEF Start
  <2>2. Start(off)' = t
    BY <1>13, <2>1
  <2> HIDE DEF t
  <2>3. IsAt(buf', W, t)
    BY <1>7 DEF IsAt
  <2> QED BY <1>1, <1>7, <1>13, <1>14, <2>2, <2>3 DEF Placed
<1>16. Laid(off, W)'
  BY <1>1, <1>9 DEF Laid
<1> QED BY <1>1, <1>3, <1>6, <1>8, <1>9, <1>15, <1>16 DEF BytesInv

LEMMA FramingStep ==
  ASSUME FramingAssumption, BytesInv, [FramingNext]_framingVars
  PROVE  BytesInv' /\ [Fifo!Next]_<<sent, received>>
<1>1. CASE UNCHANGED <<sent, outgoing, stream, buf, want, reader, received>>
  <2>1. Types' /\ (Reading' => Reading) /\ (Wanted => Wanted')
    BY <1>1 DEF BytesInv, Types, Reading, Wanted
  <2>2. ASSUME NEW W \in Seq(Byte), NEW off \in [0 .. Len(sent) -> Nat]
        PROVE  Laid(off, W) /\ Placed(off, W) => Laid(off, W)' /\ Placed(off, W)'
    BY <1>1 DEF Laid, Placed, Start
  <2> QED BY <1>1, <2>1, <2>2 DEF BytesInv
<1>2. ASSUME NEW b \in Bodies, Write(b) PROVE BytesInv' /\ Fifo!Send
  <2>1. Fifo!Send
    BY <1>2 DEF Write, read, Fifo!Send
  <2> QED BY <1>2, <2>1, WriteKeeps
<1>3. ASSUME NEW n \in Nat, Accept(n) \/ Arrive(n)
      PROVE  BytesInv' /\ UNCHANGED <<sent, received>>
  BY <1>3, MoveKeeps DEF Accept, Arrive, write, read
<1>4. CASE WriterGone \/ UNCHANGED framingVars
  BY <1>1, <1>4 DEF WriterGone, framingVars, write, read
<1>5. CASE ReadLength
  BY <1>5, HeaderKeeps DEF ReadLength, write
<1>6. CASE ReadMessage
  BY <1>6, BodyKeeps DEF Fifo!Next
<1>7. CASE Eof
  BY <1>7, EmptySeq DEF Eof, Expect, write, BytesInv, Types, Reading
<1>8. \A n \in 1 .. Len(outgoing) : n \in Nat
  OBVIOUS
<1>9. \A n \in 1 .. Len(stream) : n \in Nat
  OBVIOUS
<1> QED BY <1>2, <1>3, <1>4, <1>5, <1>6, <1>7, <1>8, <1>9 DEF FramingNext, Read, Fifo!Next

(* Whatever the pieces in which the bytes come, and wherever the writer    *)
(* goes away or a size is refused, the bodies the reader hands on are the  *)
(* ones that were written, whole and in order, for every limit and every   *)
(* number of values of a byte, as long as no body exceeds what a length    *)
(* can say (connection.rs 26-40, 58-60).                                   *)
THEOREM ChannelImplemented ==
  ASSUME FramingAssumption PROVE FramingSpec => ImplementsChannel
<1>1. FramingInit => BytesInv /\ Fifo!Init
  BY InitBytes DEF FramingInit, Fifo!Init
<1>2. BytesInv /\ [FramingNext]_framingVars => BytesInv' /\ [Fifo!Next]_<<sent, received>>
  BY FramingStep
<1> QED BY <1>1, <1>2, PTL DEF FramingSpec, ImplementsChannel, Fifo!Spec
=============================================================================
