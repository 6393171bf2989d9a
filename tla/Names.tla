------------------------------- MODULE Names -------------------------------
(***************************************************************************)
(* Database names and the folder (handler.rs): which names                 *)
(* is_safe_database_name accepts, what a QUERY or DELETE_DB of another     *)
(* step then works on, and what LIST returns while the folder changes      *)
(* under it.  A name is the sequence of its segments between slashes; a    *)
(* segment is a base and a suffix, so that "a-wal" is beside "a".          *)
(*                                                                         *)
(* The file system is external.  An entry of the folder is a regular file, *)
(* a directory, or a link: to the entry LinkTo ("inside"), to a file in a  *)
(* directory of the folder ("deeper") or to one elsewhere ("outside").     *)
(* Links and directories are the administrator's; those that lead out have *)
(* a target.                                                               *)
(***************************************************************************)
EXTENDS Naturals, Sequences, FiniteSetsExt

CONSTANTS Entries,  \* segments that can be entries of the folder
          LinkTo,   \* the entry an "inside" link leads to
          Names,    \* names clients send
          Layouts   \* folders to begin with

VARIABLES
  folder,  \* folder[e]: what the entry e is
  step,    \* "idle", or the command whose name was found safe
  name,    \* that name
  touched, \* history: where the last file worked on is
  list,    \* handle_list: the names so far
  seen,    \* the entries read_dir has returned
  listing, \* whether a LIST is under way
  always,  \* history: entries that were regular files ever since it began
  ever     \* history: entries that were, at some time since then

request == <<step, name, touched>>
lister == <<list, seen, listing>>
vars == <<folder, request, lister, always, ever>>

Seg(base, suffix) == [base |-> base, suffix |-> suffix]
Empty == Seg("", "")
Dot == Seg(".", "")
DotDot == Seg("..", "")

Special == {Empty, Dot, DotDot}
Sidecars == {"-wal", "-shm", "-journal"}
Entry == {"none", "file", "dir", "inside", "deeper", "outside"}

(* A suffix is what SQLite appends, or nothing; an entry is no ".".        *)
ASSUME EntriesAssumption ==
  /\ Entries \cap Special = {} /\ LinkTo \in Entries
  /\ \A e \in Entries : e.suffix \in Sidecars \cup {""}
  /\ Layouts \subseteq [Entries -> Entry]
ASSUME NamesAssumption == Names \subseteq Seq(Entries \cup Special) \ {<<>>}

Init ==
  /\ folder \in Layouts
  /\ step = "idle" /\ name = <<Empty>> /\ touched = "nothing"
  /\ list = {} /\ seen = {} /\ listing = FALSE /\ always = {} /\ ever = {}

-----------------------------------------------------------------------------
(* The file system.                                                        *)

(* metadata().is_file(), links followed *)
IsFile(f, e) ==
  \/ f[e] \in {"file", "deeper", "outside"}
  \/ f[e] = "inside" /\ f[LinkTo] = "file"

(* Path::exists of a plain entry, links followed *)
Exists(e) == IsFile(folder, e) \/ folder[e] = "dir" \/
             (folder[e] = "inside" /\ folder[LinkTo] = "dir")

(* Where an entry is once links are followed, as canonicalize says.        *)
Where(e) == IF folder[e] \in {"deeper", "outside"} THEN folder[e] ELSE "child"

(* Where a path that begins in the folder leads, walked segment by         *)
(* segment; empty segments and "." stay where they are.                    *)
Walked(n) == {i \in DOMAIN n : n[i] \notin {Empty, Dot}}
First(n) == n[Min(Walked(n))]
IsAbsolute(n) == Len(n) > 1 /\ n[1] = Empty
Location(n) ==
  LET w == Walked(n) IN
  IF IsAbsolute(n) \/ (w # {} /\ First(n) = DotDot) THEN "outside"
  ELSE IF Cardinality(w) # 1 THEN "deeper"
  ELSE Where(First(n))

-----------------------------------------------------------------------------
(* is_safe_database_name.                                                  *)

(* Path::components of a relative path, by place: "." counts only in front *)
Components(n) == Walked(n) \cup {i \in {1} : n[i] = Dot}

(* One component, and a normal one. *)
IsPlain(n) ==
  /\ n # <<Empty>> /\ ~IsAbsolute(n) /\ Cardinality(Components(n)) = 1
  /\ \A i \in Components(n) : n[i] \notin {Dot, DotDot}

(* Without the guard against links. *)
OneComponent(n) == IsPlain(n)

(* A path that ends in a separator exists only if it is a directory.       *)
IsSafeDatabaseName(n) ==
  /\ IsPlain(n)
  /\ Exists(First(n)) /\ (Len(n) = 1 \/ folder[First(n)] = "dir")
       => Where(First(n)) = "child"

-----------------------------------------------------------------------------
(* QUERY and DELETE_DB of one connection.  A name that is not safe is      *)
(* answered at once and changes nothing.                                   *)

(* What changes in the folder is noted for the LIST under way. *)
Becomes(f) ==
  /\ folder' = f
  /\ always' = {e \in always : IsFile(f, e)}
  /\ ever' = ever \cup {e \in Entries : IsFile(f, e)}

Check(cmd, n) ==
  /\ step = "idle" /\ IsSafeDatabaseName(n)
  /\ step' = cmd /\ name' = n
  /\ UNCHANGED <<folder, touched, lister, always, ever>>

(* Connection::open, which makes the file if it is not there.  SQLite      *)
(* drops empty segments and "." from a path; a directory does not open.    *)
Query ==
  LET single == Cardinality(Walked(name)) = 1
      e == First(name)
      made == IF folder[e] = "inside" THEN LinkTo ELSE e IN
  /\ step = "QUERY" /\ step' = "idle"
  /\ IF single /\ Exists(e) /\ ~IsFile(folder, e)
     THEN UNCHANGED <<folder, touched, always, ever>>
     ELSE /\ touched' = Location(name)
          /\ IF single /\ ~Exists(e)
             THEN Becomes([folder EXCEPT ![made] = "file"])
             ELSE UNCHANGED <<folder, always, ever>>
  /\ UNCHANGED <<name, lister>>

(* remove_file takes the entry itself, a link included, and fails for a    *)
(* directory and for a path that ends in a separator.                      *)
DeleteDb ==
  /\ step = "DELETE_DB" /\ step' = "idle"
  /\ IF Len(name) = 1 /\ folder[name[1]] \notin {"none", "dir"}
     THEN touched' = "child" /\ Becomes([folder EXCEPT ![name[1]] = "none"])
     ELSE UNCHANGED <<folder, touched, always, ever>>
  /\ UNCHANGED <<name, lister>>

-----------------------------------------------------------------------------
(* What happens beside it.                                                 *)

(* SQLite makes and removes its sidecar files. *)
Sidecar(e) ==
  /\ e.suffix # "" /\ folder[e] \in {"none", "file"}
  /\ folder[e] = "none" => folder[Seg(e.base, "")] = "file"
  /\ Becomes([folder EXCEPT ![e] = IF @ = "none" THEN "file" ELSE "none"])
  /\ UNCHANGED <<request, lister>>

(* Another connection's QUERY or DELETE_DB. *)
Other(e) ==
  /\ e.suffix = "" /\ folder[e] \in {"none", "file"}
  /\ Becomes([folder EXCEPT ![e] = IF @ = "none" THEN "file" ELSE "none"])
  /\ UNCHANGED <<request, lister>>

-----------------------------------------------------------------------------
(* handle_list of yet another connection: read_dir returns every entry     *)
(* that stays, and may or may not return one that comes or goes.           *)

SidecarNoShm(e) == e.suffix \in {"-wal", "-journal"}
IsSqliteSidecarFile(e) == e.suffix \in Sidecars

BeginList ==
  /\ ~listing /\ listing' = TRUE /\ list' = {} /\ seen' = {}
  /\ always' = {e \in Entries : IsFile(folder, e)} /\ ever' = always'
  /\ UNCHANGED <<folder, request>>

ReadEntry(e) ==
  /\ listing /\ e \notin seen /\ seen' = seen \cup {e}
  /\ list' = IF IsFile(folder, e) /\ ~IsSqliteSidecarFile(e) THEN list \cup {e} ELSE list
  /\ UNCHANGED <<folder, request, listing, always, ever>>

EndList ==
  /\ listing /\ always \subseteq seen /\ listing' = FALSE
  /\ UNCHANGED <<folder, request, list, seen, always, ever>>

Next ==
  \/ \E cmd \in {"QUERY", "DELETE_DB"}, n \in Names : Check(cmd, n)
  \/ Query \/ DeleteDb
  \/ \E e \in Entries : Sidecar(e) \/ Other(e) \/ ReadEntry(e)
  \/ BeginList \/ EndList

Spec == Init /\ [][Next]_vars

-----------------------------------------------------------------------------
(* Properties.                                                             *)

(* The name does not end in a separator. *)
EndsInSegment(n) == Len(n) = 1 \/ n[Len(n)] \notin {Empty, Dot}

(* A database worked on is a direct child of the folder, wherever its name *)
(* or a link would lead, also when the folder has changed between the      *)
(* check and the use (handler.rs 97, 164-169, 201-238).                    *)
WorksInside == touched \in {"nothing", "child"}

(* LIST returns every database that was there all the time, and nothing    *)
(* that was not there at some time, while databases and sidecar files come *)
(* and go; a sidecar file is never in it (handler.rs 139-156, 241-244).    *)
IsDatabase(e) == e.suffix = ""
ListConsistent ==
  /\ list \subseteq {e \in ever : IsDatabase(e)}
  /\ ~listing => {e \in always : IsDatabase(e)} \subseteq list
=============================================================================
