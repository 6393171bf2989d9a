----------------------------- MODULE Whitelist -----------------------------
(***************************************************************************)
(* The ip whitelist (config.rs): how its entries are parsed into networks  *)
(* when the configuration is read, and which peers it then admits.  The    *)
(* octet arithmetic is the code's, on octets of OctetBits bits (8 there)   *)
(* and addresses of V4Octets and V6Octets octets (4 and 16 there), and is  *)
(* checked against the bit-by-bit meaning of a CIDR prefix.  An octet is   *)
(* the function of its bits, the most significant one first.               *)
(***************************************************************************)
EXTENDS Naturals, Sequences

CONSTANTS OctetBits, V4Octets, V6Octets,
          Lists      \* the lists of entries a configuration may hold

VARIABLES form,      \* where the list comes from: "csv" (CLI) or "json" (file)
          entries,   \* the entries as written
          nextEntry, \* the entry about to be parsed
          whitelist, \* Config.ip_whitelist
          listStatus \* "parsing", "ready", or "error" (the server exits)

listVars == <<form, entries, nextEntry, whitelist, listStatus>>

Octet == [1 .. OctetBits -> {0, 1}]
Address == [family : {"v4"}, octets : [1 .. V4Octets -> Octet]] \cup
           [family : {"v6"}, octets : [1 .. V6Octets -> Octet]]

(* "blank": empty after trimming.  "garbage": the address or the prefix    *)
(* does not parse, or the JSON item is no string.  "bare": no "/prefix".   *)
Kind == {"blank", "garbage", "bare", "cidr"}

ASSUME ListsAssumption ==
  /\ OctetBits \in Nat \ {0} /\ V4Octets \in Nat /\ V6Octets \in Nat
  /\ Lists \subseteq Seq([kind : Kind, addr : Address, prefix : Nat])

-----------------------------------------------------------------------------
(* The octet arithmetic.                                                   *)

ShiftLeft(x, k) ==
  [b \in 1 .. OctetBits |-> IF b + k <= OctetBits THEN x[b + k] ELSE 0]
And(x, y) == [b \in 1 .. OctetBits |-> IF x[b] = 1 /\ y[b] = 1 THEN 1 ELSE 0]
Zero == [b \in 1 .. OctetBits |-> 0]

(* 0xffu8 << k *)
HighBits(k) == ShiftLeft([b \in 1 .. OctetBits |-> 1], k)

(* canonicalize's mask: zero what lies beyond the prefix *)
UnmaskedOctets(octets, prefix) == octets
MaskedOctets(octets, prefix) ==
  [i \in DOMAIN octets |->
     LET bits == (i - 1) * OctetBits IN
     IF bits >= prefix THEN Zero
     ELSE IF bits + OctetBits > prefix
          THEN And(octets[i], HighBits(bits + OctetBits - prefix))
          ELSE octets[i]]

Canonicalize(a, prefix) == [a EXCEPT !.octets = MaskedOctets(@, prefix)]

(* masked_eq: whole octets first, then the bits of the one the prefix cuts *)
OctetwiseEq(a, b, prefix) == \A i \in 1 .. prefix \div OctetBits : a[i] = b[i]
MaskedEq(a, b, prefix) ==
  LET full == prefix \div OctetBits
      rest == prefix % OctetBits IN
  /\ \A i \in 1 .. full : a[i] = b[i]
  /\ rest > 0 => LET mask == HighBits(OctetBits - rest) IN
                   And(a[full + 1], mask) = And(b[full + 1], mask)

Contains(net, ip) ==
  /\ net.network.family = ip.family
  /\ MaskedEq(net.network.octets, ip.octets, net.prefix)

IsIpAllowed(ip) ==
  whitelist = <<>> \/ \E i \in DOMAIN whitelist : Contains(whitelist[i], ip)

-----------------------------------------------------------------------------
(* Parsing.                                                                *)

MaxPrefix(a) == OctetBits * Len(a.octets)
PrefixOf(e) == IF e.kind = "bare" THEN MaxPrefix(e.addr) ELSE e.prefix

(* Cidr::parse accepts the entry. *)
Parses(e) == e.kind \in {"bare", "cidr"} /\ PrefixOf(e) <= MaxPrefix(e.addr)

Parsed(e) == [network |-> Canonicalize(e.addr, PrefixOf(e)), prefix |-> PrefixOf(e)]

ListInit ==
  /\ form \in {"csv", "json"} /\ entries \in Lists
  /\ nextEntry = 1 /\ whitelist = <<>> /\ listStatus = "parsing"

(* The CLI form trims entries and skips empty ones. *)
SkippedUnparsed(e) == ~Parses(e)
Skipped(e) == form = "csv" /\ e.kind = "blank"

Skip ==
  /\ listStatus = "parsing" /\ nextEntry <= Len(entries) /\ Skipped(entries[nextEntry])
  /\ nextEntry' = nextEntry + 1 /\ UNCHANGED <<form, entries, whitelist, listStatus>>

Add ==
  /\ listStatus = "parsing" /\ nextEntry <= Len(entries) /\ Parses(entries[nextEntry])
  /\ whitelist' = Append(whitelist, Parsed(entries[nextEntry]))
  /\ nextEntry' = nextEntry + 1 /\ UNCHANGED <<form, entries, listStatus>>

(* The first entry that does not parse fails the whole configuration. *)
Reject ==
  /\ listStatus = "parsing" /\ nextEntry <= Len(entries) /\ ~Parses(entries[nextEntry])
  /\ ~Skipped(entries[nextEntry])
  /\ listStatus' = "error" /\ UNCHANGED <<form, entries, nextEntry, whitelist>>

Ready ==
  /\ listStatus = "parsing" /\ nextEntry > Len(entries)
  /\ listStatus' = "ready" /\ UNCHANGED <<form, entries, nextEntry, whitelist>>

ListNext == Skip \/ Add \/ Reject \/ Ready

ListSpec == ListInit /\ [][ListNext]_listVars

-----------------------------------------------------------------------------
(* Properties.                                                             *)

(* The i-th bit of an address, the most significant bit of the first octet *)
(* being bit 0, and what a CIDR prefix means.                              *)
BitOf(octets, i) == octets[(i \div OctetBits) + 1][(i % OctetBits) + 1]

Covers(e, ip) ==
  /\ e.kind \in {"bare", "cidr"} /\ e.addr.family = ip.family
  /\ \A i \in 0 .. PrefixOf(e) - 1 : BitOf(e.addr.octets, i) = BitOf(ip.octets, i)

(* The server that starts admits exactly the peers whose leading bits      *)
(* agree with one of the configured entries, whatever host bits the entry  *)
(* was written with and wherever its prefix cuts an octet (0, a whole      *)
(* octet, the full address), and everyone when no entry is left after      *)
(* blanks (config.rs 31, 83-117, 120-131).                                 *)
WhitelistExact ==
  listStatus = "ready" =>
    \A ip \in Address :
      IsIpAllowed(ip) <=> \/ \A i \in DOMAIN entries : entries[i].kind = "blank"
                          \/ \E i \in DOMAIN entries : Covers(entries[i], ip)

(* The server starts only if every entry it was given is a network: an     *)
(* entry that is not, or a prefix longer than its address, is an error and *)
(* never a whitelist that silently lacks it (config.rs 72, 148-171).       *)
NoEntryDropped ==
  listStatus = "ready" =>
    /\ \A i \in DOMAIN entries :
         \/ entries[i].kind = "blank" /\ form = "csv"
         \/ /\ entries[i].kind \in {"bare", "cidr"}
            /\ PrefixOf(entries[i]) <= MaxPrefix(entries[i].addr)
    /\ \A i \in DOMAIN entries : entries[i].kind # "blank" =>
         \E j \in DOMAIN whitelist : whitelist[j].prefix = PrefixOf(entries[i])

(* "The stored address is canonical (host bits zeroed)" (config.rs 48-49): *)
(* every bit beyond the prefix is zero, and the network lies in itself.    *)
NetworksCanonical ==
  \A j \in DOMAIN whitelist :
    LET net == whitelist[j] IN
    /\ \A i \in net.prefix .. MaxPrefix(net.network) - 1 : BitOf(net.network.octets, i) = 0
    /\ Contains(net, net.network)
=============================================================================
