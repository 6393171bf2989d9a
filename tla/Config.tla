------------------------------- MODULE Config -------------------------------
(***************************************************************************)
(* How the server gets its settings (config.rs, parse and from_file): from *)
(* the command line or, when --config names a file, from that file alone,  *)
(* key by key in the order the code reads them, the first offence ending   *)
(* the start.  Strings are abstract; numbers are cast to their width.      *)
(* What an ip_whitelist entry means is in Whitelist.tla: here a list is    *)
(* "" (no entries), "list" (all parse) or "bad" (one does not).            *)
(***************************************************************************)
EXTENDS Naturals, Sequences, FiniteSetsExt

CONSTANTS
  PortBits, SizeBits,  \* the widths of u16 and u32, 16 and 32 in the code
  DefaultBusyTimeout,  \* DEFAULT_BUSY_TIMEOUT_MS
  Inputs,              \* the pairs of command line and file a start may meet
  Folders,             \* the database folders that exist
  Resolver,            \* Resolver[h]: the addresses of a host name, in order
  Fallback             \* the endpoint 127.0.0.1:3333

VARIABLES
  flags,     \* the command line, after clap has checked its types
  file,      \* the JSON object of the config file
  next,      \* the key about to be read
  config,    \* the settings so far
  endpoint,  \* Config.listen_addr
  status     \* "starting", "reading", "ready", "version" or "error"

vars == <<flags, file, next, config, endpoint, status>>

(* The keys in the order from_file takes them. *)
Keys == <<"listen_ip", "listen_port", "busy_timeout_ms", "auth", "ip_whitelist",
          "workers", "databases_folder", "client_max_packet_size">>

Optional == {"busy_timeout_ms", "auth", "ip_whitelist"}

TypeOf(k) ==
  CASE k \in {"listen_ip", "auth", "databases_folder"} -> "string"
    [] k = "ip_whitelist" -> "array"
    [] OTHER -> "number"

(* A JSON value: "number" is one as_u64 accepts, "other" any that no key   *)
(* takes (null, negative or fractional numbers, objects...).               *)
Json == [type : {"absent", "string", "number", "array", "other"},
         num : Nat, str : STRING]

Resolved == [ip : STRING, v4 : BOOLEAN]

(* A start meets a command line and a file that are well formed, and host  *)
(* names that have a list of addresses, be it empty.                       *)
ASSUME InputsAssumption ==
  \A i \in Inputs :
    /\ DOMAIN i.file = {Keys[n] : n \in DOMAIN Keys}
    /\ \A k \in DOMAIN i.file : i.file[k] \in Json
    /\ i.flags.listen_ip \in DOMAIN Resolver
    /\ i.file["listen_ip"].type = "string" => i.file["listen_ip"].str \in DOMAIN Resolver
ASSUME ResolverAssumption ==
  \A h \in DOMAIN Resolver : Resolver[h] \in Seq(Resolved)

NoSettings ==
  [listen_ip |-> "", listen_port |-> 0, busy_timeout_ms |-> 0, auth |-> "",
   ip_whitelist |-> "", workers |-> 0, databases_folder |-> "",
   client_max_packet_size |-> 0]

NoEndpoint == [ip |-> "", port |-> 0]

Init ==
  /\ \E i \in Inputs : flags = i.flags /\ file = i.file
  /\ next = 1 /\ config = NoSettings /\ endpoint = NoEndpoint
  /\ status = "starting"

-----------------------------------------------------------------------------
(* resolve_endpoint: the first IPv4 address, else the first, else the      *)
(* fallback, whose port is not the configured one.                         *)
EndpointFirst(ip, port) ==
  IF Resolver[ip] = <<>> THEN Fallback
  ELSE [ip |-> Resolver[ip][1].ip, port |-> port]

ResolveEndpoint(ip, port) ==
  LET addrs == Resolver[ip]
      V4 == {i \in DOMAIN addrs : addrs[i].v4}
      found == IF V4 # {} THEN Min(V4) ELSE 1 IN
  IF addrs = <<>> THEN Fallback ELSE [ip |-> addrs[found].ip, port |-> port]

(* "as u16" and "as u32"; workers stays a 64-bit number. *)
Cast(k, n) ==
  CASE k = "listen_port" -> n % 2 ^ PortBits
    [] k = "client_max_packet_size" -> n % 2 ^ SizeBits
    [] OTHER -> n

(* An optional key that is not there takes its default, a key of the wrong *)
(* type is an error, optional or not.                                      *)
AcceptsAnyOptional(k, v) ==
  \/ k \in Optional
  \/ /\ v.type = TypeOf(k)
     /\ k = "databases_folder" => v.str \in Folders

Accepts(k, v) ==
  \/ v.type = "absent" /\ k \in Optional
  \/ /\ v.type = TypeOf(k)
     /\ k = "ip_whitelist" => v.str # "bad"
     /\ k = "databases_folder" => v.str \in Folders

Setting(k, v) ==
  IF TypeOf(k) = "number"
  THEN IF v.type = "number" THEN Cast(k, v.num) ELSE DefaultBusyTimeout
  ELSE IF v.type = TypeOf(k) THEN v.str ELSE ""

-----------------------------------------------------------------------------
Stop(s) ==
  /\ status' = s
  /\ UNCHANGED <<flags, file, next, config, endpoint>>

(* --version prints and ends, whatever else is given. *)
ShowVersion == status = "starting" /\ flags.version /\ Stop("version")

(* Without --config every setting is a flag. *)
FlagsValid ==
  flags.databases_folder \in Folders /\ flags.ip_whitelist # "bad"

UseFlags ==
  /\ status = "starting" /\ ~flags.version /\ flags.config = "none" /\ FlagsValid
  /\ config' = [k \in DOMAIN NoSettings |-> flags[k]]
  /\ endpoint' = ResolveEndpoint(flags.listen_ip, flags.listen_port)
  /\ status' = "ready"
  /\ UNCHANGED <<flags, file, next>>

RefuseFlags ==
  /\ status = "starting" /\ ~flags.version /\ flags.config = "none" /\ ~FlagsValid
  /\ Stop("error")

(* The file is not there, cannot be read, or is not JSON. *)
NoFile ==
  /\ status = "starting" /\ ~flags.version /\ flags.config = "unusable"
  /\ Stop("error")

OpenFile ==
  /\ status = "starting" /\ ~flags.version /\ flags.config = "file"
  /\ Stop("reading")

Take ==
  /\ status = "reading" /\ next <= Len(Keys)
  /\ Accepts(Keys[next], file[Keys[next]])
  /\ config' = [config EXCEPT ![Keys[next]] = Setting(Keys[next], file[Keys[next]])]
  /\ next' = next + 1
  /\ UNCHANGED <<flags, file, endpoint, status>>

Refuse ==
  /\ status = "reading" /\ next <= Len(Keys)
  /\ ~Accepts(Keys[next], file[Keys[next]])
  /\ Stop("error")

Complete ==
  /\ status = "reading" /\ next > Len(Keys)
  /\ endpoint' = ResolveEndpoint(config.listen_ip, config.listen_port)
  /\ status' = "ready"
  /\ UNCHANGED <<flags, file, next, config>>

Next == \/ ShowVersion \/ UseFlags \/ RefuseFlags \/ NoFile \/ OpenFile
        \/ Take \/ Refuse \/ Complete

Spec == Init /\ [][Next]_vars

-----------------------------------------------------------------------------
(* Properties.                                                             *)

FromFile == flags.config = "file"

(* A server that starts has the access restrictions its one source states, *)
(* and no others: a password or whitelist that is written but malformed    *)
(* stops the start and never leaves the server open, and one given on the  *)
(* command line does not leak into a server told to use a file             *)
(* (config.rs 237-250, 277-284).                                           *)
RestrictionsInForce ==
  status = "ready" =>
    LET written(k) == IF FromFile THEN file[k].type # "absent" /\
                                       ~(file[k].type = TypeOf(k) /\ file[k].str = "")
                      ELSE flags[k] # ""
    IN  \A k \in {"auth", "ip_whitelist"} : written(k) <=> config[k] # ""

(* The server listens at an address its configured host has, at an IPv4    *)
(* one if the host has any; only when it has none does it listen on the    *)
(* loopback fallback (config.rs 312-328).                                  *)
ListensWhereTold ==
  status = "ready" =>
    LET addrs == Resolver[config.listen_ip]
        V4 == {i \in DOMAIN addrs : addrs[i].v4}
        Usable == IF V4 # {} THEN V4 ELSE DOMAIN addrs
    IN  \/ \E i \in Usable :
             endpoint = [ip |-> addrs[i].ip, port |-> config.listen_port]
        \/ addrs = <<>> /\ endpoint = Fallback

(* The numbers in force are the numbers in the file: README.md 70, "When   *)
(* `--config` is given, all settings come from the JSON file".             *)
SettingsAsWritten ==
  status = "ready" /\ FromFile =>
    \A k \in DOMAIN config :
      file[k].type = "number" => config[k] = file[k].num
=============================================================================
