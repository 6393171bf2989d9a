---------------------------- MODULE ConfigProofs ----------------------------
(***************************************************************************)
(* Theorems about Config: what a server that starts has in force, for      *)
(* every command line, file, resolver and width of the integers; and about *)
(* Whitelist: which addresses a stored list admits, for every list of      *)
(* entries, every prefix and addresses of any width.                       *)
(***************************************************************************)
EXTENDS Config, Whitelist, SequenceTheorems, WellFoundedInduction, TLAPS

(* A set of naturals has a least element, and Min is it: what find returns *)
(* is there.                                                               *)
LEMMA MinOfNaturals ==
  ASSUME NEW T \in SUBSET Nat, T # {}
  PROVE  Min(T) \in T /\ \A y \in T : Min(T) <= y
<1> DEFINE R == {ss \in Nat \X Nat : ss[1] < ss[2]}
<1>0. IsWellFoundedOn(R, Nat)
  BY NatLessThanWellFounded DEF OpToRel
<1> HIDE DEF R
<1>1. PICK x \in T : \A y \in T : <<y, x>> \notin R
  BY <1>0, WFMin
<1>2. ASSUME NEW y \in T PROVE x <= y
  <2>1. <<y, x>> \in R <=> y < x
    BY DEF R
  <2>2. ~(y < x) /\ x \in Nat /\ y \in Nat
    BY <1>1, <2>1
  <2> QED BY <2>2
<1> QED BY <1>1, <1>2 DEF Min

(* A resolved endpoint is an address of the host, an IPv4 one if it has    *)
(* any, or the fallback if it has none.                                    *)
LEMMA ResolvedAddress ==
  ASSUME NEW h \in DOMAIN Resolver, NEW p
  PROVE  LET addrs == Resolver[h]
             V4 == {i \in DOMAIN addrs : addrs[i].v4}
             Usable == IF V4 # {} THEN V4 ELSE DOMAIN addrs
         IN  \/ \E i \in Usable : ResolveEndpoint(h, p) = [ip |-> addrs[i].ip, port |-> p]
             \/ addrs = <<>> /\ ResolveEndpoint(h, p) = Fallback
<1> DEFINE addrs == Resolver[h]
           V4 == {i \in DOMAIN addrs : addrs[i].v4}
           Usable == IF V4 # {} THEN V4 ELSE DOMAIN addrs
           found == IF V4 # {} THEN Min(V4) ELSE 1
<1>1. addrs \in Seq(Resolved)
  BY ResolverAssumption
<1>2. Len(addrs) \in Nat /\ DOMAIN addrs = 1 .. Len(addrs)
  BY <1>1, LenProperties
<1>3. V4 \in SUBSET Nat
  BY <1>2
<1>4. addrs # <<>> => found \in Usable
  <2>1. addrs # <<>> => 1 \in DOMAIN addrs
    BY <1>1, <1>2, EmptySeq
  <2>2. V4 # {} => Min(V4) \in V4
    BY <1>3, MinOfNaturals
  <2> HIDE DEF V4
  <2> QED BY <2>1, <2>2
<1>5. ResolveEndpoint(h, p) =
        IF addrs = <<>> THEN Fallback ELSE [ip |-> addrs[found].ip, port |-> p]
  BY DEF ResolveEndpoint
<1> HIDE DEF addrs, V4, found
<1>6. CASE addrs = <<>>
  BY <1>5, <1>6 DEF addrs
<1>7. CASE addrs # <<>>
  <2>1. found \in Usable /\ ResolveEndpoint(h, p) = [ip |-> addrs[found].ip, port |-> p]
    BY <1>4, <1>5, <1>7
  <2> QED BY <2>1 DEF addrs, V4
<1> QED BY <1>6, <1>7

-----------------------------------------------------------------------------
(* The keys, and that no two places in the order hold the same key.        *)
KeySet == {Keys[n] : n \in DOMAIN Keys}

LEMMA KeysAre ==
  /\ Len(Keys) = 8 /\ DOMAIN Keys = 1 .. 8
  /\ Keys[1] = "listen_ip" /\ Keys[4] = "auth" /\ Keys[5] = "ip_whitelist"
  /\ Keys[2] = "listen_port"
  /\ \A i, j \in 1 .. 8 : Keys[i] = Keys[j] => i = j
  /\ KeySet = DOMAIN NoSettings
BY DEF Keys, KeySet, NoSettings
(* The source a start has, and what it has taken from it so far.  While    *)
(* the file is read, the keys before next have been accepted and are in    *)
(* force as Setting converts them.                                         *)
GoodSource == \E i \in Inputs : flags = i.flags /\ file = i.file
Loading == status = "reading" \/ (status = "ready" /\ FromFile)

TakenInv ==
  Loading =>
    /\ FromFile /\ next \in 1 .. 9
    /\ \A i \in 1 .. 8 : i < next =>
         /\ Accepts(Keys[i], file[Keys[i]])
         /\ config[Keys[i]] = Setting(Keys[i], file[Keys[i]])
ReadyInv ==
  status = "ready" =>
    /\ FromFile => next = 9
    /\ ~FromFile => \A k \in KeySet : config[k] = flags[k]
    /\ endpoint = ResolveEndpoint(config["listen_ip"], config["listen_port"])

ConfigInv ==
  /\ GoodSource /\ DOMAIN config = KeySet
  /\ status = "starting" => next = 1
  /\ TakenInv /\ ReadyInv

LEMMA ConfigInvInit == Init => ConfigInv
BY KeysAre DEF Init, ConfigInv, GoodSource, TakenInv, ReadyInv, Loading, NoSettings

LEMMA ConfigInvNext == ConfigInv /\ [Next]_vars => ConfigInv'
<1> SUFFICES ASSUME ConfigInv, [Next]_vars PROVE ConfigInv'
  OBVIOUS
<1> USE DEF ConfigInv, GoodSource, Loading, FromFile
<1>1. CASE UNCHANGED vars
  BY <1>1 DEF vars, TakenInv, ReadyInv
<1>2. CASE ShowVersion \/ RefuseFlags \/ NoFile \/ Refuse
  BY <1>2 DEF ShowVersion, RefuseFlags, NoFile, Refuse, Stop, TakenInv, ReadyInv
<1>3. CASE UseFlags
  <2>1. /\ config' = [k \in KeySet |-> flags[k]] /\ status' = "ready"
        /\ endpoint' = ResolveEndpoint(flags["listen_ip"], flags["listen_port"])
        /\ flags' = flags /\ file' = file /\ flags.config = "none"
    BY <1>3, KeysAre DEF UseFlags
  <2>2. "listen_ip" \in KeySet /\ "listen_port" \in KeySet
    BY KeysAre DEF KeySet
  <2>3. ReadyInv'
    BY <2>1, <2>2 DEF ReadyInv
  <2>4. TakenInv'
    BY <2>1 DEF TakenInv
  <2> QED BY <2>1, <2>3, <2>4
<1>4. CASE OpenFile
  BY <1>4 DEF OpenFile, Stop, TakenInv, ReadyInv
<1>5. CASE Take
  <2>1. /\ status = "reading" /\ next <= 8 /\ next \in 1 .. 9
        /\ Accepts(Keys[next], file[Keys[next]])
        /\ config' = [config EXCEPT ![Keys[next]] = Setting(Keys[next], file[Keys[next]])]
        /\ next' = next + 1 /\ UNCHANGED <<flags, file, endpoint, status>>
    BY <1>5, KeysAre DEF Take, TakenInv
  <2>2. next \in 1 .. 8 /\ next' \in 1 .. 9
    BY <2>1
  <2>3. Keys[next] \in KeySet
    BY <2>2, KeysAre DEF KeySet
  <2>4. DOMAIN config' = KeySet
    BY <2>1
  <2>5. ASSUME NEW i \in 1 .. 8, i < next'
        PROVE  /\ Accepts(Keys[i], file[Keys[i]])
               /\ config'[Keys[i]] = Setting(Keys[i], file[Keys[i]])
    <3>1. CASE i = next
      BY <2>1, <2>3, <3>1
    <3>2. CASE i # next
      <4>1. i < next /\ Keys[i] # Keys[next]
        BY <2>1, <2>2, <2>5, <3>2, KeysAre
      <4>2. Keys[i] \in KeySet
        BY KeysAre DEF KeySet
      <4> QED BY <2>1, <4>1, <4>2 DEF TakenInv
    <3> QED BY <3>1, <3>2
  <2>6. TakenInv'
    BY <2>1, <2>2, <2>5 DEF TakenInv
  <2> QED BY <2>1, <2>2, <2>4, <2>6 DEF ReadyInv
<1>6. CASE Complete
  <2>1. /\ status = "reading" /\ next = 9 /\ status' = "ready"
        /\ endpoint' = ResolveEndpoint(config["listen_ip"], config["listen_port"])
        /\ UNCHANGED <<flags, file, next, config>>
    BY <1>6, KeysAre DEF Complete, TakenInv
  <2> QED BY <2>1 DEF TakenInv, ReadyInv
<1> QED BY <1>1, <1>2, <1>3, <1>4, <1>5, <1>6 DEF Next

LEMMA ConfigInvariant == Spec => []ConfigInv
BY ConfigInvInit, ConfigInvNext, PTL DEF Spec

(* A password or a whitelist is in force exactly when the one source of    *)
(* the settings states it: no malformed one is passed over, and none of    *)
(* the command line leaks into a server told to use a file (config.rs      *)
(* 237-250, 277-284).                                                      *)
THEOREM RestrictionsHold == Spec => []RestrictionsInForce
<1>1. ASSUME ConfigInv PROVE RestrictionsInForce
  <2> SUFFICES ASSUME status = "ready", NEW k \in {"auth", "ip_whitelist"}
               PROVE  (IF FromFile THEN file[k].type # "absent" /\
                                        ~(file[k].type = TypeOf(k) /\ file[k].str = "")
                       ELSE flags[k] # "") <=> config[k] # ""
    BY DEF RestrictionsInForce
  <2>0. PICK n \in 1 .. 8 : k = Keys[n]
    BY KeysAre
  <2>1. k \in KeySet
    BY <2>0, KeysAre DEF KeySet
  <2>2. CASE ~FromFile
    BY <1>1, <2>1, <2>2 DEF ConfigInv, ReadyInv
  <2>3. CASE FromFile
    <3>1. /\ Accepts(k, file[k]) /\ config[k] = Setting(k, file[k])
      BY <1>1, <2>0, <2>3 DEF ConfigInv, TakenInv, ReadyInv, Loading
    <3>2. TypeOf(k) # "number" /\ TypeOf(k) # "absent"
      BY DEF TypeOf
    <3>3. file[k].type = "absent" \/ file[k].type = TypeOf(k)
      BY <3>1 DEF Accepts
    <3>4. config[k] = IF file[k].type = TypeOf(k) THEN file[k].str ELSE ""
      BY <3>1, <3>2 DEF Setting
    <3> QED BY <2>3, <3>2, <3>3, <3>4
  <2> QED BY <2>2, <2>3
<1> QED BY <1>1, ConfigInvariant, PTL

(* The server listens at an address its configured host has, at an IPv4    *)
(* one if there is any, and on the fallback only if there is none          *)
(* (config.rs 312-328).                                                    *)
THEOREM ListensRight == Spec => []ListensWhereTold
<1>1. ASSUME ConfigInv PROVE ListensWhereTold
  <2> SUFFICES ASSUME status = "ready" PROVE ListensWhereTold
    BY DEF ListensWhereTold
  <2>1. PICK i \in Inputs : flags = i.flags /\ file = i.file
    BY <1>1 DEF ConfigInv, GoodSource
  <2>2. config["listen_ip"] \in DOMAIN Resolver
    <3>1. "listen_ip" \in KeySet
      BY KeysAre DEF KeySet
    <3>2. CASE ~FromFile
      BY <1>1, <2>1, <3>1, <3>2, InputsAssumption DEF ConfigInv, ReadyInv
    <3>3. CASE FromFile
      <4>1. /\ Accepts(Keys[1], file[Keys[1]]) /\ config[Keys[1]] = Setting(Keys[1], file[Keys[1]])
        BY <1>1, <3>3 DEF ConfigInv, TakenInv, ReadyInv, Loading
      <4>2. TypeOf("listen_ip") = "string" /\ "listen_ip" \notin Optional
        BY DEF TypeOf, Optional
      <4>3. file["listen_ip"].type = "string" /\ config["listen_ip"] = file["listen_ip"].str
        BY <4>1, <4>2, KeysAre DEF Accepts, Setting
      <4> QED BY <2>1, <4>3, InputsAssumption
    <3> QED BY <3>2, <3>3
  <2>3. endpoint = ResolveEndpoint(config["listen_ip"], config["listen_port"])
    BY <1>1 DEF ConfigInv, ReadyInv
  <2> QED BY <2>2, <2>3, ResolvedAddress DEF ListensWhereTold
<1> QED BY <1>1, ConfigInvariant, PTL
-----------------------------------------------------------------------------
(* The whitelist.  Bits and octets: bit i of an address is bit i % 8 of    *)
(* octet i / 8.                                                            *)

LEMMA BitsOfOctets ==
  ASSUME NEW i \in Nat
  PROVE  /\ OctetBits \in Nat \ {0}
         /\ i \div OctetBits \in Nat /\ i % OctetBits \in 0 .. OctetBits - 1
         /\ i = OctetBits * (i \div OctetBits) + (i % OctetBits)
<1>1. OctetBits \in Nat \ {0}
  BY ListsAssumption
<1>2. i \div OctetBits \in Nat /\ i % OctetBits \in 0 .. OctetBits - 1
  BY <1>1
<1>3. i - OctetBits * (i \div OctetBits) = i % OctetBits
  BY <1>1
<1> QED BY <1>1, <1>2, <1>3

(* There is one way to write a number as whole octets and a rest. *)
LEMMA OneOctet ==
  ASSUME NEW q \in Nat, NEW r \in 0 .. OctetBits - 1,
         NEW k \in Nat, NEW s \in 0 .. OctetBits - 1,
         OctetBits * q + r = OctetBits * k + s
  PROVE  q = k /\ r = s
<1>0. OctetBits \in Nat \ {0}
  BY ListsAssumption
<1> DEFINE B == OctetBits
<1>1. ASSUME NEW x \in Nat, NEW y \in Nat, x < y PROVE B * x + B <= B * y
  <2>1. y - x - 1 \in Nat
    BY <1>1
  <2>2. B * (y - x - 1) \in Nat
    BY <1>0, <2>1
  <2>3. B * y = B * x + B + B * (y - x - 1)
    BY <1>0
  <2>4. B * x \in Nat /\ B * y \in Nat
    BY <1>0
  <2> QED BY <1>0, <2>2, <2>3, <2>4
<1>2. B * q \in Nat /\ B * k \in Nat
  BY <1>0
<1>3. ~(q < k) /\ ~(k < q)
  BY <1>0, <1>1, <1>2
<1>4. q = k
  BY <1>3
<1> QED BY <1>0, <1>2, <1>4

LEMMA BitAt ==
  ASSUME NEW o, NEW k \in Nat, NEW b \in 1 .. OctetBits
  PROVE  OctetBits * k + (b - 1) \in Nat /\ BitOf(o, OctetBits * k + (b - 1)) = o[k + 1][b]
<1> DEFINE i == OctetBits * k + (b - 1)
<1>0. OctetBits \in Nat \ {0}
  BY ListsAssumption
<1>1. i \in Nat /\ b - 1 \in 0 .. OctetBits - 1
  <2>1. OctetBits * k \in Nat
    BY <1>0
  <2> QED BY <1>0, <2>1
<1>2. (i \div OctetBits) = k /\ (i % OctetBits) = b - 1
  <2> HIDE DEF i
  <2>1. /\ i \div OctetBits \in Nat /\ i % OctetBits \in 0 .. OctetBits - 1
        /\ i = OctetBits * (i \div OctetBits) + (i % OctetBits)
    BY <1>1, BitsOfOctets
  <2>2. i = OctetBits * k + (b - 1)
    BY DEF i
  <2> QED BY <1>1, <2>1, <2>2, OneOctet
<1>3. b - 1 + 1 = b
  OBVIOUS
<1> QED BY <1>1, <1>2, <1>3 DEF BitOf

(* The mask 0xff << k leaves the bits before the last k. *)
LEMMA MaskBits ==
  ASSUME NEW k \in Nat, NEW x, NEW b \in 1 .. OctetBits
  PROVE  And(x, HighBits(k))[b] = IF x[b] = 1 /\ b + k <= OctetBits THEN 1 ELSE 0
<1>1. b + k <= OctetBits => b + k \in 1 .. OctetBits
  BY ListsAssumption
<1>2. HighBits(k)[b] = IF b + k <= OctetBits THEN 1 ELSE 0
  BY <1>1 DEF HighBits, ShiftLeft
<1> QED BY <1>2 DEF And

Octets(n) == [1 .. n -> Octet]

(* Two octets agree under a mask exactly if their leading bits do. *)
LEMMA MaskedAgree ==
  ASSUME NEW x \in Octet, NEW y \in Octet, NEW rest \in 1 .. OctetBits - 1
  PROVE  And(x, HighBits(OctetBits - rest)) = And(y, HighBits(OctetBits - rest))
           <=> \A b \in 1 .. rest : x[b] = y[b]
<1> DEFINE k == OctetBits - rest
           mx == And(x, HighBits(k))
           my == And(y, HighBits(k))
<1>0. OctetBits \in Nat \ {0} /\ k \in Nat /\ \A b \in 1 .. rest : b \in 1 .. OctetBits
  BY ListsAssumption
<1>1. \A b \in 1 .. OctetBits : b + k <= OctetBits <=> b <= rest
  BY <1>0
<1> HIDE DEF k
<1>2. /\ mx = [b \in 1 .. OctetBits |-> mx[b]] /\ my = [b \in 1 .. OctetBits |-> my[b]]
  BY DEF And
<1>3. \A b \in 1 .. OctetBits : /\ mx[b] = IF x[b] = 1 /\ b <= rest THEN 1 ELSE 0
                                /\ my[b] = IF y[b] = 1 /\ b <= rest THEN 1 ELSE 0
  BY <1>0, <1>1, MaskBits
<1>4. \A b \in 1 .. OctetBits : x[b] \in {0, 1} /\ y[b] \in {0, 1}
  BY DEF Octet
<1> HIDE DEF mx, my
<1>5. ASSUME mx = my, NEW b \in 1 .. rest PROVE x[b] = y[b]
  <2>1. b \in 1 .. OctetBits /\ b <= rest
    BY <1>0
  <2> QED BY <1>3, <1>4, <1>5, <2>1
<1>6. ASSUME \A b \in 1 .. rest : x[b] = y[b] PROVE mx = my
  <2>1. ASSUME NEW b \in 1 .. OctetBits PROVE mx[b] = my[b]
    <3>1. b <= rest => b \in 1 .. rest
      BY <1>0
    <3> QED BY <1>3, <1>6, <3>1
  <2> QED BY <1>2, <2>1
<1> QED BY <1>5, <1>6 DEF mx, my, k

(* masked_eq compares the first bits of two addresses, as many as the      *)
(* prefix says.                                                            *)
LEMMA MaskedEqMeans ==
  ASSUME NEW n \in Nat, NEW x \in Octets(n), NEW y \in Octets(n),
         NEW prefix \in 0 .. OctetBits * n
  PROVE  MaskedEq(x, y, prefix) <=> \A i \in 0 .. prefix - 1 : BitOf(x, i) = BitOf(y, i)
<1> DEFINE B == OctetBits
           full == prefix \div B
           rest == prefix % B
<1>0. B \in Nat \ {0} /\ prefix \in Nat /\ prefix <= B * n
  <2>1. B \in Nat \ {0}
    BY ListsAssumption
  <2>2. B * n \in Nat
    BY <2>1
  <2> QED BY <2>1, <2>2
<1>1. full \in Nat /\ rest \in 0 .. B - 1 /\ prefix = B * full + rest
  BY <1>0, BitsOfOctets
<1>2. MaskedEq(x, y, prefix) <=>
        /\ \A k \in 1 .. full : x[k] = y[k]
        /\ rest > 0 => And(x[full + 1], HighBits(B - rest)) = And(y[full + 1], HighBits(B - rest))
  BY DEF MaskedEq
<1> HIDE DEF B, full, rest
<1>3. ASSUME NEW k \in Nat, NEW m \in Nat, k < m PROVE B * k + B <= B * m
  <2>1. m - k - 1 \in Nat
    BY <1>3
  <2>2. B * (m - k - 1) \in Nat /\ B * k \in Nat /\ B * m \in Nat
    BY <1>0, <2>1
  <2>3. B * m = B * k + B + B * (m - k - 1)
    BY <1>0
  <2> QED BY <1>0, <2>2, <2>3
<1>4. B * full \in Nat /\ B * n \in Nat
  BY <1>0, <1>1
<1>5. full <= n /\ (rest > 0 => full < n)
  <2>1. ~(n < full)
    <3>1. n < full => B * n + B <= B * full
      BY <1>1, <1>3
    <3> QED BY <1>0, <1>1, <1>4, <3>1
  <2>2. rest > 0 => full # n
    BY <1>0, <1>1, <1>4
  <2> QED BY <1>1, <2>1, <2>2
<1>6. \A k \in 1 .. n : x[k] \in Octet /\ y[k] \in Octet
  BY DEF Octets
<1>7. ASSUME NEW k \in 0 .. n - 1, NEW b \in 1 .. B
      PROVE  /\ B * k + (b - 1) \in Nat
             /\ BitOf(x, B * k + (b - 1)) = x[k + 1][b] /\ BitOf(y, B * k + (b - 1)) = y[k + 1][b]
  BY BitAt DEF B
<1>8. ASSUME NEW k \in 0 .. full - 1, NEW b \in 1 .. B PROVE B * k + (b - 1) \in 0 .. prefix - 1
  <2>1. k \in Nat /\ k < full /\ B * k \in Nat
    BY <1>0, <1>1
  <2>2. B * k + B <= B * full
    BY <1>1, <1>3, <2>1
  <2> QED BY <1>0, <1>1, <1>4, <2>1, <2>2
<1>9. rest > 0 => And(x[full + 1], HighBits(B - rest)) = And(y[full + 1], HighBits(B - rest))
                    <=> \A b \in 1 .. rest : x[full + 1][b] = y[full + 1][b]
  <2> SUFFICES ASSUME rest > 0
               PROVE  And(x[full + 1], HighBits(B - rest)) = And(y[full + 1], HighBits(B - rest))
                        <=> \A b \in 1 .. rest : x[full + 1][b] = y[full + 1][b]
    OBVIOUS
  <2>1. full + 1 \in 1 .. n /\ rest \in 1 .. B - 1
    BY <1>0, <1>1, <1>5
  <2>2. x[full + 1] \in Octet /\ y[full + 1] \in Octet
    BY <1>6, <2>1
  <2> QED BY <2>1, <2>2, MaskedAgree DEF B
<1>10. ASSUME MaskedEq(x, y, prefix), NEW i \in 0 .. prefix - 1 PROVE BitOf(x, i) = BitOf(y, i)
  <2> DEFINE q == i \div B
             r == i % B
  <2>1. i \in Nat /\ i < prefix
    BY <1>0
  <2>2. q \in Nat /\ r \in 0 .. B - 1 /\ i = B * q + r
    BY <2>1, BitsOfOctets DEF B
  <2> HIDE DEF q, r
  <2>3. B * q \in Nat /\ r + 1 \in 1 .. B /\ r + 1 - 1 = r
    BY <1>0, <2>2
  <2>4. q <= full
    <3>1. full < q => B * full + B <= B * q
      BY <1>1, <1>3, <2>2
    <3> QED BY <1>0, <1>1, <1>4, <2>1, <2>2, <2>3, <3>1
  <2>5. CASE q < full
    <3>1. q \in 0 .. n - 1 /\ q + 1 \in 1 .. full
      BY <1>1, <1>5, <2>2, <2>5
    <3>2. BitOf(x, i) = x[q + 1][r + 1] /\ BitOf(y, i) = y[q + 1][r + 1]
      BY <1>7, <2>2, <2>3, <3>1
    <3> QED BY <1>2, <1>10, <3>1, <3>2
  <2>6. CASE q = full
    <3>1. r < rest /\ rest > 0
      BY <1>1, <1>4, <2>1, <2>2, <2>6
    <3>2. q \in 0 .. n - 1 /\ r + 1 \in 1 .. rest
      BY <1>1, <1>5, <2>2, <2>6, <3>1
    <3>3. BitOf(x, i) = x[q + 1][r + 1] /\ BitOf(y, i) = y[q + 1][r + 1]
      BY <1>7, <2>2, <2>3, <3>2
    <3> QED BY <1>2, <1>9, <1>10, <2>6, <3>1, <3>2, <3>3
  <2> QED BY <1>1, <2>2, <2>4, <2>5, <2>6
<1>11. ASSUME \A i \in 0 .. prefix - 1 : BitOf(x, i) = BitOf(y, i) PROVE MaskedEq(x, y, prefix)
  <2>1. ASSUME NEW k \in 1 .. full PROVE x[k] = y[k]
    <3>1. k - 1 \in 0 .. full - 1 /\ k - 1 \in 0 .. n - 1 /\ k - 1 + 1 = k /\ k \in 1 .. n
      BY <1>1, <1>5
    <3>2. ASSUME NEW b \in 1 .. B PROVE x[k][b] = y[k][b]
      <4>1. B * (k - 1) + (b - 1) \in 0 .. prefix - 1
        BY <1>8, <3>1
      <4>2. /\ BitOf(x, B * (k - 1) + (b - 1)) = x[k - 1 + 1][b]
            /\ BitOf(y, B * (k - 1) + (b - 1)) = y[k - 1 + 1][b]
        BY <1>7, <3>1
      <4> QED BY <1>11, <3>1, <4>1, <4>2
    <3>3. x[k] \in [1 .. B -> {0, 1}] /\ y[k] \in [1 .. B -> {0, 1}]
      BY <1>6, <3>1 DEF Octet, B
    <3>4. x[k] = [b \in 1 .. B |-> x[k][b]] /\ y[k] = [b \in 1 .. B |-> y[k][b]]
      BY <3>3
    <3> QED BY <3>2, <3>4
  <2>2. ASSUME rest > 0, NEW b \in 1 .. rest PROVE x[full + 1][b] = y[full + 1][b]
    <3>1. full \in 0 .. n - 1 /\ b \in 1 .. B
      BY <1>0, <1>1, <1>5, <2>2
    <3>2. B * full + (b - 1) \in 0 .. prefix - 1
      BY <1>0, <1>1, <1>4, <3>1
    <3>3. /\ BitOf(x, B * full + (b - 1)) = x[full + 1][b]
          /\ BitOf(y, B * full + (b - 1)) = y[full + 1][b]
      BY <1>7, <3>1
    <3> QED BY <1>11, <3>2, <3>3
  <2> QED BY <1>2, <1>9, <2>1, <2>2
<1> QED BY <1>10, <1>11

(* What canonicalize leaves: the bits of the prefix, and zeros. *)
LEMMA MaskedOctetsBits ==
  ASSUME NEW n \in Nat, NEW x \in Octets(n), NEW prefix \in Nat
  PROVE  /\ MaskedOctets(x, prefix) \in Octets(n)
         /\ \A i \in 0 .. OctetBits * n - 1 :
              BitOf(MaskedOctets(x, prefix), i) = IF i < prefix THEN BitOf(x, i) ELSE 0
<1> DEFINE B == OctetBits
           m == MaskedOctets(x, prefix)
<1>0. B \in Nat \ {0} /\ B * n \in Nat
  <2>1. B \in Nat \ {0}
    BY ListsAssumption
  <2> QED BY <2>1
<1>1. ASSUME NEW k \in 1 .. n
      PROVE  /\ m[k] \in Octet
             /\ \A b \in 1 .. B :
                  m[k][b] = IF B * (k - 1) + (b - 1) < prefix THEN x[k][b] ELSE 0
  <2> DEFINE bits == (k - 1) * B
             cut == bits + B - prefix
  <2>1. /\ m[k] = IF bits >= prefix THEN Zero
                  ELSE IF bits + B > prefix THEN And(x[k], HighBits(cut)) ELSE x[k]
        /\ x[k] \in Octet
    BY DEF MaskedOctets, Octets
  <2>2. bits \in Nat /\ bits = B * (k - 1)
    BY <1>0
  <2> HIDE DEF m, bits
  <2>3. CASE bits >= prefix
    <3>1. \A b \in 1 .. B : ~(bits + (b - 1) < prefix)
      BY <1>0, <2>2, <2>3
    <3>2. m[k] = Zero
      BY <2>1, <2>3
    <3> QED BY <2>2, <3>1, <3>2 DEF Zero, Octet, B
  <2>4. CASE bits < prefix /\ bits + B > prefix
    <3>1. cut \in Nat /\ \A b \in 1 .. B : b + cut <= B <=> bits + (b - 1) < prefix
      BY <1>0, <2>2, <2>4
    <3>2. m[k] = And(x[k], HighBits(cut))
      BY <2>1, <2>2, <2>4
    <3> HIDE DEF cut
    <3>3. \A b \in 1 .. B : m[k][b] = IF x[k][b] = 1 /\ b + cut <= B THEN 1 ELSE 0
      BY <3>1, <3>2, MaskBits DEF B
    <3>4. m[k] \in Octet
      BY <3>2 DEF And, Octet
    <3>5. \A b \in 1 .. B : x[k][b] \in {0, 1}
      BY <2>1 DEF Octet, B
    <3> QED BY <2>2, <3>1, <3>3, <3>4, <3>5
  <2>5. CASE bits < prefix /\ bits + B <= prefix
    <3>1. \A b \in 1 .. B : bits + (b - 1) < prefix
      BY <1>0, <2>2, <2>5
    <3>2. m[k] = x[k]
      BY <1>0, <2>1, <2>2, <2>5
    <3> QED BY <2>1, <2>2, <3>1, <3>2
  <2> QED BY <1>0, <2>2, <2>3, <2>4, <2>5
<1>2. m \in Octets(n)
  <2>1. m = [k \in 1 .. n |-> m[k]]
    BY DEF MaskedOctets, Octets
  <2> HIDE DEF m
  <2> QED BY <1>1, <2>1 DEF Octets
<1> HIDE DEF m
<1>3. ASSUME NEW i \in 0 .. B * n - 1 PROVE BitOf(m, i) = IF i < prefix THEN BitOf(x, i) ELSE 0
  <2> DEFINE q == i \div B
             r == i % B
  <2>1. i \in Nat /\ i < B * n
    BY <1>0
  <2>2. q \in Nat /\ r \in 0 .. B - 1 /\ i = B * q + r
    BY <2>1, BitsOfOctets DEF B
  <2> HIDE DEF q, r
  <2>3. B * q \in Nat /\ r + 1 \in 1 .. B /\ r + 1 - 1 = r
    BY <1>0, <2>2
  <2>4. q < n
    <3> SUFFICES ASSUME n <= q PROVE FALSE
      BY <2>2
    <3>1. B * (q - n) \in Nat /\ B * q = B * n + B * (q - n)
      BY <1>0, <2>2
    <3> QED BY <1>0, <2>1, <2>2, <2>3, <3>1
  <2>5. q + 1 \in 1 .. n /\ q + 1 - 1 = q
    BY <2>2, <2>4
  <2>6. BitOf(x, i) = x[q + 1][r + 1] /\ BitOf(m, i) = m[q + 1][r + 1]
    BY <2>2, <2>3, BitAt DEF B
  <2> QED BY <1>1, <2>2, <2>3, <2>5, <2>6
<1> QED BY <1>2, <1>3 DEF m, B

(* A stored network holds exactly the addresses its entry means, itself    *)
(* included, and has no bits beyond its prefix.                            *)
LEMMA OctetsOf ==
  ASSUME NEW a \in Address
  PROVE  \E n \in Nat : /\ a.octets \in Octets(n) /\ MaxPrefix(a) = OctetBits * n
                        /\ \A c \in Address : c.family = a.family => c.octets \in Octets(n)
<1> DEFINE n == IF a.family = "v4" THEN V4Octets ELSE V6Octets
<1>1. n \in Nat /\ a.octets \in Octets(n)
  BY ListsAssumption DEF Address, Octets
<1>2. \A c \in Address : c.family = a.family => c.octets \in Octets(n)
  BY DEF Address, Octets
<1> HIDE DEF n
<1>3. Len(a.octets) = n
  <2>1. a.octets \in Seq(Octet)
    BY <1>1 DEF Octets
  <2> QED BY <1>1, <2>1, LenProperties DEF Octets
<1> QED BY <1>1, <1>2, <1>3 DEF MaxPrefix

Entry == [kind : Kind, addr : Address, prefix : Nat]

LEMMA ParsedNetwork ==
  ASSUME NEW e \in Entry, Parses(e)
  PROVE  LET net == Parsed(e) IN
         /\ \A ip \in Address : Contains(net, ip) <=> Covers(e, ip)
         /\ Contains(net, net.network)
         /\ \A i \in net.prefix .. MaxPrefix(net.network) - 1 : BitOf(net.network.octets, i) = 0
<1> DEFINE p == PrefixOf(e)
           o == e.addr.octets
           m == MaskedOctets(o, p)
           net == Parsed(e)
<1>0. e.addr \in Address /\ e.kind \in {"bare", "cidr"} /\ p <= MaxPrefix(e.addr)
  BY DEF Entry, Parses
<1>1. PICK n \in Nat : /\ o \in Octets(n) /\ MaxPrefix(e.addr) = OctetBits * n
                       /\ \A c \in Address : c.family = e.addr.family => c.octets \in Octets(n)
  BY <1>0, OctetsOf
<1>2. OctetBits \in Nat \ {0} /\ OctetBits * n \in Nat
  <2>1. OctetBits \in Nat \ {0}
    BY ListsAssumption
  <2> QED BY <2>1
<1>3. p \in 0 .. OctetBits * n
  <2>1. p \in Nat
    BY <1>1, <1>2 DEF Entry, PrefixOf
  <2> QED BY <1>0, <1>1, <1>2, <2>1
<1>4. /\ m \in Octets(n)
      /\ \A i \in 0 .. OctetBits * n - 1 : BitOf(m, i) = IF i < p THEN BitOf(o, i) ELSE 0
  BY <1>1, <1>3, MaskedOctetsBits
<1>5. /\ net.prefix = p /\ net.network.octets = m /\ net.network.family = e.addr.family
  <2>1. net = [network |-> Canonicalize(e.addr, p), prefix |-> p]
    BY DEF Parsed
  <2>2. Canonicalize(e.addr, p) = [e.addr EXCEPT !.octets = m]
    BY DEF Canonicalize
  <2>3. /\ [e.addr EXCEPT !.octets = m].octets = m
        /\ [e.addr EXCEPT !.octets = m].family = e.addr.family
    BY <1>0 DEF Address
  <2> HIDE DEF net, m, p
  <2>4. net.prefix = p /\ net.network = [e.addr EXCEPT !.octets = m]
    BY <2>1, <2>2
  <2> QED BY <2>3, <2>4
<1>6. MaxPrefix(net.network) = OctetBits * n
  <2>1. m \in Seq(Octet) /\ DOMAIN m = 1 .. n
    BY <1>4 DEF Octets
  <2>2. Len(m) = n
    BY <2>1, LenProperties
  <2> QED BY <1>5, <2>2 DEF MaxPrefix
<1> HIDE DEF p, m, net, o
<1>7. \A i \in 0 .. p - 1 : i \in 0 .. OctetBits * n - 1 /\ i < p
  BY <1>2, <1>3
<1>8. ASSUME NEW ip \in Address PROVE Contains(net, ip) <=> Covers(e, ip)
  <2>1. CASE ip.family # e.addr.family
    BY <1>5, <2>1 DEF Contains, Covers
  <2>2. CASE ip.family = e.addr.family
    <3>1. MaskedEq(m, ip.octets, p) <=> \A i \in 0 .. p - 1 : BitOf(m, i) = BitOf(ip.octets, i)
      BY <1>1, <1>3, <1>4, <2>2, MaskedEqMeans
    <3>2. \A i \in 0 .. p - 1 : BitOf(m, i) = BitOf(o, i)
      BY <1>4, <1>7
    <3>3. Contains(net, ip) <=> \A i \in 0 .. p - 1 : BitOf(o, i) = BitOf(ip.octets, i)
      BY <1>5, <2>2, <3>1, <3>2 DEF Contains
    <3> QED BY <1>0, <2>2, <3>3 DEF Covers, p, o
  <2> QED BY <2>1, <2>2
<1>9. Contains(net, net.network)
  BY <1>3, <1>4, <1>5, MaskedEqMeans DEF Contains
<1>10. ASSUME NEW i \in p .. OctetBits * n - 1 PROVE BitOf(m, i) = 0
  <2>1. i \in 0 .. OctetBits * n - 1 /\ ~(i < p)
    BY <1>2, <1>3
  <2> QED BY <1>4, <2>1
<1> QED BY <1>5, <1>6, <1>8, <1>9, <1>10 DEF net

(* What has been parsed: every entry so far was a blank or is stored, and  *)
(* nothing else is stored.                                                 *)
Passed(i) == Skipped(entries[i]) \/ Parses(entries[i])
Stored(i) == \E j \in DOMAIN whitelist : whitelist[j] = Parsed(entries[i])

ListInv ==
  /\ entries \in Seq(Entry) /\ nextEntry \in 1 .. Len(entries) + 1
  /\ listStatus = "ready" => nextEntry = Len(entries) + 1
  /\ whitelist \in Seq({Parsed(e) : e \in Entry})
  /\ \A i \in 1 .. nextEntry - 1 : Passed(i) /\ (Parses(entries[i]) => Stored(i))
  /\ \A j \in DOMAIN whitelist :
       \E i \in 1 .. nextEntry - 1 : Parses(entries[i]) /\ whitelist[j] = Parsed(entries[i])

LEMMA ListInvInit == ListInit => ListInv
<1> SUFFICES ASSUME ListInit PROVE ListInv
  OBVIOUS
<1>1. entries \in Seq(Entry)
  BY ListsAssumption DEF ListInit, Entry
<1>2. Len(entries) \in Nat /\ whitelist \in Seq({Parsed(e) : e \in Entry}) /\ DOMAIN whitelist = {}
  BY <1>1, LenProperties, EmptySeq DEF ListInit
<1> QED BY <1>1, <1>2 DEF ListInit, ListInv

LEMMA ListInvNext == ListInv /\ [ListNext]_listVars => ListInv'
<1> SUFFICES ASSUME ListInv, [ListNext]_listVars PROVE ListInv'
  OBVIOUS
<1> DEFINE n == nextEntry
           Nets == {Parsed(e) : e \in Entry}
<1>0. /\ entries \in Seq(Entry) /\ Len(entries) \in Nat /\ DOMAIN entries = 1 .. Len(entries)
      /\ n \in 1 .. Len(entries) + 1 /\ n \in Nat /\ whitelist \in Seq(Nets)
      /\ Len(whitelist) \in Nat /\ DOMAIN whitelist = 1 .. Len(whitelist)
  BY LenProperties DEF ListInv
<1>1. CASE UNCHANGED listVars
  BY <1>1 DEF listVars, ListInv, Passed, Stored, Skipped
<1>2. CASE Reject \/ Ready
  <2>1. /\ UNCHANGED <<form, entries, nextEntry, whitelist>>
        /\ listStatus' = "ready" => nextEntry = Len(entries) + 1
    BY <1>0, <1>2 DEF Reject, Ready
  <2> QED BY <2>1 DEF ListInv, Passed, Stored, Skipped
<1>3. CASE Skip
  <2>1. /\ UNCHANGED <<form, entries, whitelist>> /\ n' = n + 1 /\ n <= Len(entries)
        /\ Skipped(entries[n]) /\ listStatus' = "parsing"
    BY <1>3 DEF Skip
  <2>2. ~Parses(entries[n])
    BY <2>1 DEF Skipped, Parses
  <2>3. n' \in 1 .. Len(entries) + 1 /\ 1 .. n' - 1 = (1 .. n - 1) \cup {n}
    BY <1>0, <2>1
  <2>4. ASSUME NEW i \in 1 .. n' - 1 PROVE Passed(i)' /\ (Parses(entries'[i]) => Stored(i)')
    BY <2>1, <2>2, <2>3 DEF ListInv, Passed, Stored, Skipped
  <2>5. ASSUME NEW j \in DOMAIN whitelist'
        PROVE  \E i \in 1 .. n' - 1 : Parses(entries'[i]) /\ whitelist'[j] = Parsed(entries'[i])
    BY <2>1, <2>3 DEF ListInv
  <2> QED BY <1>0, <2>1, <2>3, <2>4, <2>5 DEF ListInv
<1>4. CASE Add
  <2>1. /\ UNCHANGED <<form, entries>> /\ n' = n + 1 /\ n <= Len(entries)
        /\ Parses(entries[n]) /\ listStatus' = "parsing"
        /\ whitelist' = Append(whitelist, Parsed(entries[n]))
    BY <1>4 DEF Add
  <2>2. n \in DOMAIN entries /\ entries[n] \in Entry
    BY <1>0, <2>1, ElementOfSeq
  <2>3. n' \in 1 .. Len(entries) + 1 /\ 1 .. n' - 1 = (1 .. n - 1) \cup {n}
    BY <1>0, <2>1
  <2>4. Parsed(entries[n]) \in Nets
    BY <2>2
  <2> HIDE DEF Nets
  <2>5. /\ whitelist' \in Seq(Nets) /\ DOMAIN whitelist' = 1 .. Len(whitelist) + 1
        /\ \A j \in DOMAIN whitelist : whitelist'[j] = whitelist[j]
        /\ whitelist'[Len(whitelist) + 1] = Parsed(entries[n])
    BY <1>0, <2>1, <2>4, AppendProperties, LenProperties
  <2>6. DOMAIN whitelist' = DOMAIN whitelist \cup {Len(whitelist) + 1}
    BY <1>0, <2>5
  <2>7. ASSUME NEW i \in 1 .. n' - 1 PROVE Passed(i)' /\ (Parses(entries'[i]) => Stored(i)')
    BY <2>1, <2>3, <2>5, <2>6 DEF ListInv, Passed, Stored, Skipped
  <2>8. ASSUME NEW j \in DOMAIN whitelist'
        PROVE  \E i \in 1 .. n' - 1 : Parses(entries'[i]) /\ whitelist'[j] = Parsed(entries'[i])
    <3>1. CASE j \in DOMAIN whitelist
      <4>1. PICK i \in 1 .. n - 1 : Parses(entries[i]) /\ whitelist[j] = Parsed(entries[i])
        BY <3>1 DEF ListInv
      <4> QED BY <2>1, <2>3, <2>5, <3>1, <4>1
    <3>2. CASE j = Len(whitelist) + 1
      BY <2>1, <2>3, <2>5, <3>2
    <3> QED BY <2>6, <3>1, <3>2
  <2> QED BY <1>0, <2>1, <2>3, <2>5, <2>7, <2>8 DEF ListInv, Nets
<1> QED BY <1>1, <1>2, <1>3, <1>4 DEF ListNext

LEMMA ListInvariant == ListSpec => []ListInv
BY ListInvInit, ListInvNext, PTL DEF ListSpec

(* What is stored is what an entry says. *)
LEMMA StoredFrom ==
  ASSUME ListInv, NEW j \in DOMAIN whitelist
  PROVE  \E i \in DOMAIN entries :
           entries[i] \in Entry /\ Parses(entries[i]) /\ whitelist[j] = Parsed(entries[i])
<1>1. PICK i \in 1 .. nextEntry - 1 : Parses(entries[i]) /\ whitelist[j] = Parsed(entries[i])
  BY DEF ListInv
<1>2. i \in DOMAIN entries
  BY LenProperties DEF ListInv
<1> QED BY <1>1, <1>2, ElementOfSeq, LenProperties DEF ListInv

LEMMA AllPassed ==
  ASSUME ListInv, listStatus = "ready", NEW i \in DOMAIN entries
  PROVE  /\ entries[i] \in Entry /\ Passed(i) /\ (Parses(entries[i]) => Stored(i))
<1>1. i \in 1 .. nextEntry - 1
  BY LenProperties DEF ListInv
<1> QED BY <1>1, ElementOfSeq, LenProperties DEF ListInv

(* The server that starts admits exactly the peers whose leading bits      *)
(* agree with an entry, and everyone if there is none but blanks           *)
(* (config.rs 29-33, 82-131, 146-171).                                     *)
THEOREM AdmitsExactly == ListSpec => []WhitelistExact
<1>1. ASSUME ListInv PROVE WhitelistExact
  <2> USE <1>1
  <2> SUFFICES ASSUME listStatus = "ready", NEW ip \in Address
               PROVE  IsIpAllowed(ip) <=> \/ \A i \in DOMAIN entries : entries[i].kind = "blank"
                                          \/ \E i \in DOMAIN entries : Covers(entries[i], ip)
    BY DEF WhitelistExact
  <2>1. whitelist = <<>> <=> DOMAIN whitelist = {}
    BY EmptySeq, LenProperties DEF ListInv
  <2>2. \A i \in DOMAIN entries : Parses(entries[i]) <=> entries[i].kind # "blank"
    BY AllPassed DEF Passed, Skipped, Parses
  <2>3. whitelist = <<>> <=> \A i \in DOMAIN entries : entries[i].kind = "blank"
    BY <2>1, <2>2, StoredFrom, AllPassed DEF Stored
  <2>4. ASSUME NEW j \in DOMAIN whitelist, Contains(whitelist[j], ip)
        PROVE  \E i \in DOMAIN entries : Covers(entries[i], ip)
    <3>1. PICK i \in DOMAIN entries :
            entries[i] \in Entry /\ Parses(entries[i]) /\ whitelist[j] = Parsed(entries[i])
      BY StoredFrom
    <3> QED BY <2>4, <3>1, ParsedNetwork
  <2>5. ASSUME NEW i \in DOMAIN entries, Covers(entries[i], ip)
        PROVE  \E j \in DOMAIN whitelist : Contains(whitelist[j], ip)
    <3>1. Parses(entries[i]) /\ entries[i] \in Entry
      BY <2>2, <2>5, AllPassed DEF Covers
    <3>2. PICK j \in DOMAIN whitelist : whitelist[j] = Parsed(entries[i])
      BY <3>1, AllPassed DEF Stored
    <3> QED BY <2>5, <3>1, <3>2, ParsedNetwork
  <2> QED BY <2>3, <2>4, <2>5 DEF IsIpAllowed
<1> QED BY <1>1, ListInvariant, PTL

(* A server that starts has every entry it was given in its whitelist      *)
(* (config.rs 57-80, 146-171).                                             *)
THEOREM EveryEntryCounts == ListSpec => []NoEntryDropped
<1>1. ASSUME ListInv PROVE NoEntryDropped
  <2> USE <1>1
  <2> SUFFICES ASSUME listStatus = "ready", NEW i \in DOMAIN entries
               PROVE  /\ \/ entries[i].kind = "blank" /\ form = "csv"
                         \/ /\ entries[i].kind \in {"bare", "cidr"}
                            /\ PrefixOf(entries[i]) <= MaxPrefix(entries[i].addr)
                      /\ entries[i].kind # "blank" =>
                           \E j \in DOMAIN whitelist : whitelist[j].prefix = PrefixOf(entries[i])
    BY DEF NoEntryDropped
  <2>1. Passed(i) /\ (Parses(entries[i]) => Stored(i))
    BY AllPassed
  <2>2. Parsed(entries[i]).prefix = PrefixOf(entries[i])
    BY DEF Parsed
  <2> QED BY <2>1, <2>2 DEF Passed, Skipped, Parses, Stored
<1> QED BY <1>1, ListInvariant, PTL

(* Every stored network has zeros beyond its prefix and lies in itself, at *)
(* every moment of the parsing (config.rs 48-55, 120-144).                 *)
THEOREM StoredCanonically == ListSpec => []NetworksCanonical
<1>1. ASSUME ListInv PROVE NetworksCanonical
  <2> USE <1>1
  <2> SUFFICES ASSUME NEW j \in DOMAIN whitelist
               PROVE  LET net == whitelist[j] IN
                      /\ \A i \in net.prefix .. MaxPrefix(net.network) - 1 :
                           BitOf(net.network.octets, i) = 0
                      /\ Contains(net, net.network)
    BY DEF NetworksCanonical
  <2>1. PICK i \in DOMAIN entries :
          entries[i] \in Entry /\ Parses(entries[i]) /\ whitelist[j] = Parsed(entries[i])
    BY StoredFrom
  <2> QED BY <2>1, ParsedNetwork
<1> QED BY <1>1, ListInvariant, PTL
=============================================================================
