------------------------------ MODULE Framing ------------------------------
(***************************************************************************)
(* One direction of a connection, byte by byte (connection.rs, client.rs): *)
(* a 4-byte little-endian length and that many bytes of body, written by   *)
(* one end and read by the other with read_exact.  The stream delivers the *)
(* bytes in pieces of any size.  A byte has Base values (256 in the code). *)
(* The server reads with Limit = client_max_packet_size; a client has no   *)
(* limit, which is Limit = LengthValues - 1.                               *)
(***************************************************************************)
EXTENDS Naturals, Sequences

CONSTANTS Base,        \* values of a byte
          Bodies,      \* the bodies an end may write
          Limit,       \* largest announced size the reader accepts
          MaxMessages  \* bound: messages written

(* The values of a u32, which has 4 bytes. *)
LengthValues == Base * (Base * (Base * Base))

(* Bodies are shorter than 2 ^ 32 bytes: see Frame. *)
FramingAssumption ==
  /\ Base \in Nat \ {0, 1} /\ Limit \in Nat
  /\ Bodies \subseteq Seq(0 .. Base - 1)
  /\ \A b \in Bodies : Len(b) < LengthValues

VARIABLES
  sent,      \* history: the bodies written
  outgoing,  \* bytes write_all still holds
  writer,    \* "open" or "closed"
  stream,    \* bytes in the kernels and on the way
  buf,       \* what read_exact has so far
  want,      \* how many bytes it is to return
  reader,    \* "header", "body", "refused" (over the limit) or "ended"
  received   \* history: the bodies read

write == <<sent, outgoing, writer>>
read == <<buf, want, reader, received>>
framingVars == <<write, stream, read>>

HeaderSize == 4

FramingInit ==
  /\ sent = <<>> /\ outgoing = <<>> /\ writer = "open" /\ stream = <<>>
  /\ buf = <<>> /\ want = HeaderSize /\ reader = "header" /\ received = <<>>

-----------------------------------------------------------------------------
(* (len as u32).to_le_bytes() and u32::from_le_bytes                       *)

ToLeBytes(n) ==
  LET n1 == n \div Base
      n2 == n1 \div Base
      n3 == n2 \div Base IN
  <<n % Base, n1 % Base, n2 % Base, n3 % Base>>

FromBeBytes(h) == h[4] + Base * (h[3] + Base * (h[2] + Base * h[1]))
FromLeBytes(h) == h[1] + Base * (h[2] + Base * (h[3] + Base * h[4]))

(* len as u32 would cut the length of a longer body. *)
Frame(body) == ToLeBytes(Len(body) % LengthValues) \o body

-----------------------------------------------------------------------------
(* The writing end.                                                        *)

Write(body) ==
  /\ writer = "open" /\ outgoing = <<>> /\ Len(sent) < MaxMessages
  /\ sent' = Append(sent, body) /\ outgoing' = Frame(body)
  /\ UNCHANGED <<writer, stream, read>>

Front(s, n) == SubSeq(s, 1, n)
After(s, n) == SubSeq(s, n + 1, Len(s))

(* The kernel takes n bytes of what is being written. *)
Accept(n) ==
  /\ writer = "open" /\ n \in 1 .. Len(outgoing)
  /\ stream' = stream \o Front(outgoing, n) /\ outgoing' = After(outgoing, n)
  /\ UNCHANGED <<sent, writer, read>>

(* The writer goes away, possibly inside a message. *)
WriterGone ==
  /\ writer = "open" /\ writer' = "closed"
  /\ UNCHANGED <<sent, outgoing, stream, read>>

-----------------------------------------------------------------------------
(* The reading end.                                                        *)

Reading == reader \in {"header", "body"}

(* One recv inside read_exact: some of the bytes that are there, and never *)
(* more than are wanted.                                                   *)
Arrive(n) ==
  /\ Reading /\ n \in 1 .. want - Len(buf) /\ n <= Len(stream)
  /\ buf' = buf \o Front(stream, n) /\ stream' = After(stream, n)
  /\ UNCHANGED <<write, want, reader, received>>

(* read_exact returns. *)
NonEmpty == buf # <<>> /\ Len(buf) = want
Complete == Len(buf) = want

Expect(n, r) == buf' = <<>> /\ want' = n /\ reader' = r

ReadLength ==
  /\ reader = "header" /\ Complete
  /\ LET size == FromLeBytes(buf) IN
       IF size > Limit THEN Expect(0, "refused") ELSE Expect(size, "body")
  /\ UNCHANGED <<write, stream, received>>

ReadMessage ==
  /\ reader = "body" /\ Complete
  /\ received' = Append(received, buf) /\ Expect(HeaderSize, "header")
  /\ UNCHANGED <<write, stream>>

(* The stream ends before read_exact has what it wants. *)
Eof ==
  /\ Reading /\ writer = "closed" /\ stream = <<>> /\ ~Complete
  /\ Expect(0, "ended")
  /\ UNCHANGED <<write, stream, received>>

Read == ReadLength \/ ReadMessage \/ Eof \/ \E n \in 1 .. Len(stream) : Arrive(n)

FramingNext ==
  \/ \E b \in Bodies : Write(b)
  \/ \E n \in 1 .. Len(outgoing) : Accept(n)
  \/ WriterGone
  \/ Read

(* The reader's task is polled whenever bytes or the end of the stream are *)
(* there.  Nothing is assumed of the writer.                               *)
FramingSpec == FramingInit /\ [][FramingNext]_framingVars /\ WF_framingVars(Read)

-----------------------------------------------------------------------------
(* Properties.                                                             *)

(* Whatever the pieces in which the bytes come, and wherever the writer    *)
(* goes away or a size is refused, every body the reader hands on is the   *)
(* next one that was written, whole: the reader never takes a part of one  *)
(* message for another, as long as no body exceeds what a length can say   *)
(* (connection.rs 26-40, 58-60).                                           *)
Fifo == INSTANCE Channel WITH Messages <- Bodies
ImplementsChannel == Fifo!Spec

(* A message whose last byte was taken by the kernel is read, also when    *)
(* its writer has gone and also when its body is empty, unless the reader  *)
(* refused a size before (connection.rs 24-40).                            *)
Written == Len(sent) - (IF outgoing = <<>> THEN 0 ELSE 1)
AllRead ==
  \A n \in 1 .. MaxMessages :
    Written >= n ~> Len(received) >= n \/ reader = "refused"
=============================================================================
