------------------------------ MODULE MCConfig ------------------------------
(***************************************************************************)
(* Config for TLC: files in which each key is good, absent or wrong, with  *)
(* numbers on both sides of the reduced widths, under command lines that   *)
(* state restrictions of their own.                                        *)
(***************************************************************************)
EXTENDS Config

Absent == [type |-> "absent", num |-> 0, str |-> ""]
Wrong == [Absent EXCEPT !.type = "other"]
Num(n) == [Absent EXCEPT !.type = "number", !.num = n]
Str(s) == [Absent EXCEPT !.type = "string", !.str = s]
Arr(s) == [Absent EXCEPT !.type = "array", !.str = s]

Files ==
  [listen_ip : {Absent, Str("both"), Str("nowhere")},
   listen_port : {Wrong, Num(2 ^ PortBits - 1), Num(2 ^ PortBits)},
   busy_timeout_ms : {Absent, Num(1)},
   auth : {Absent, Wrong, Str(""), Str("pw")},
   ip_whitelist : {Absent, Wrong, Arr(""), Arr("list"), Arr("bad")},
   workers : {Wrong, Num(0)},
   databases_folder : {Absent, Str("dir"), Str("nodir")},
   client_max_packet_size : {Absent, Num(2 ^ SizeBits - 1), Num(2 ^ SizeBits)}]

GoodFile == CHOOSE f \in Files : \A k \in DOMAIN f : Accepts(k, f[k])

Flags ==
  [version : BOOLEAN, config : {"none", "unusable", "file"},
   listen_ip : {"both", "v6only", "nowhere"}, listen_port : {1},
   busy_timeout_ms : {DefaultBusyTimeout}, auth : {"", "pw"},
   ip_whitelist : {"", "list", "bad"}, workers : {1},
   databases_folder : {"dir", "nodir"}, client_max_packet_size : {1}]

FileFlags == {f \in Flags : /\ ~f.version /\ f.config = "file"
                            /\ f.listen_ip = "both" /\ f.databases_folder = "dir"}

MCInputs == [flags : Flags, file : {GoodFile}] \cup [flags : FileFlags, file : Files]

MCFolders == {"dir"}
MCResolver ==
  [both |-> <<[ip |-> "::1", v4 |-> FALSE], [ip |-> "127.0.0.1", v4 |-> TRUE]>>,
   v6only |-> <<[ip |-> "::1", v4 |-> FALSE]>>,
   nowhere |-> <<>>]
MCFallback == [ip |-> "127.0.0.1", port |-> 3333]
=============================================================================
