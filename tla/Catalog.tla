------------------------------ MODULE Catalog ------------------------------
(***************************************************************************)
(* internal/catalog and cmd/resolve.go: the built-in programs and the      *)
(* user's own, found in up to three directories.  A program file is a .hex *)
(* with an optional .json sidecar of the same stem; of the sidecar's       *)
(* fields only the name matters for finding a program.                     *)
(*                                                                         *)
(* File names are case-sensitive, as on Linux.                             *)
(***************************************************************************)
EXTENDS Suggest

CONSTANTS
  UserProgramDirs, \* next to the binary, RAIJIN_HOME, ~/.raijin: in this order
  Stems,           \* file names without extension
  builtins,        \* the built-in names in order; the file's stem is the name
  RepoHex,         \* built-ins a repository checkout provides
  Contents,        \* what a hex file may hold
  Metadata,        \* what a readable sidecar may hold: a name (<<>> is absent)
  NoFile, NoEntry  \* neither a file; nor an entry of the catalog

Dirs == Range(UserProgramDirs)

(* What the catalog knows of a program.                                    *)
Entries == [name : Seq(Nat), kind : {"builtin", "custom"}, dir : Dirs \cup {"repo"},
            stem : Stems \cup Range(builtins)]

(* A stem is a file name's, so there are finitely many; a file called      *)
(* ".hex", whose stem is empty, is left out.                               *)
ASSUME CatalogAssumption ==
  /\ UserProgramDirs \in Seq(STRING) /\ UserProgramDirs # <<>>
  /\ builtins \in Seq(Seq(Nat)) /\ Stems \subseteq Seq(Nat) /\ IsFiniteSet(Stems)
  /\ <<>> \notin Stems \cup Range(builtins)
  /\ NoFile \notin Contents \cup Metadata /\ NoEntry \notin Entries
  /\ RepoHex \subseteq Range(builtins)
  /\ \A m \in Metadata : m.name \in Seq(Nat)
  /\ \A b \in Range(builtins) : lower(b) = b

VARIABLES
  hex,   \* directory -> stem -> content, or NoFile
  meta   \* directory -> stem -> sidecar, or NoFile when there is no readable one

CatalogTypeOK ==
  /\ hex \in [Dirs -> [Stems -> Contents \cup {NoFile}]]
  /\ meta \in [Dirs -> [Stems -> Metadata \cup {NoFile}]]

DirIndex(d) == CHOOSE i \in DOMAIN UserProgramDirs : UserProgramDirs[i] = d

(* ".hex" in bytes. *)
Ext == <<46, 104, 101, 120>>

(* The order of discovery: directory by directory, ReadDir's order within. *)
ScannedBefore(f, g) ==
  \/ DirIndex(f.dir) < DirIndex(g.dir)
  \/ f.dir = g.dir /\ WordLess(f.stem \o Ext, g.stem \o Ext)

reserved(w) == lower(w) \in Range(builtins)

(* readMetadata and applyMetadata, for the name. *)
NameOf(f) ==
  LET m == meta[f.dir][f.stem]
  IN IF m # NoFile /\ m.name # <<>> THEN m.name ELSE f.stem

HexFiles == {f \in [dir : Dirs, stem : Stems] : hex[f.dir][f.stem] # NoFile}

(* Mutant: only the file's name is checked, not the displayed one. *)
Candidates_StemOnly == {f \in HexFiles : ~reserved(f.stem)}

(* Neither a file nor a name may claim a built-in's. *)
Candidates == {f \in HexFiles : ~reserved(f.stem) /\ ~reserved(NameOf(f))}

(* discoverUserPrograms: of two with the same name the first wins. *)
discoverUserPrograms ==
  LET candidates == Candidates
      first(f) == \A g \in candidates :
                    lower(NameOf(g)) = lower(NameOf(f)) => ~ScannedBefore(g, f)
  IN {[name |-> NameOf(f), kind |-> "custom", dir |-> f.dir, stem |-> f.stem] :
        f \in {g \in candidates : first(g)}}

Builtins ==
  [i \in DOMAIN builtins |->
     [name |-> builtins[i], kind |-> "builtin", dir |-> "repo", stem |-> builtins[i]]]

(* The listing: built-ins first, then the user's programs by name. *)
CustomList ==
  LET programs == discoverUserPrograms
  IN Ranked(programs, {p \in programs \X programs :
                         WordLess(lower(p[1].name), lower(p[2].name))})

All == Builtins \o CustomList

Find(name) ==
  LET all == All
      i == SelectInSeq(all, LAMBDA e : lower(e.name) = lower(name))
  IN IF i = 0 THEN NoEntry ELSE all[i]

FileExists(d, s) == s \in Stems /\ hex[d][s] # NoFile

(* Mutant: the entry's own path is not looked at first. *)
ResolveHex_ByStem(e) ==
  LET dirs == {d \in Dirs : FileExists(d, e.stem)}
      first == CHOOSE d \in dirs : \A c \in dirs : DirIndex(d) <= DirIndex(c)
  IN IF dirs # {} THEN [dir |-> first, stem |-> e.stem]
     ELSE IF e.stem \in RepoHex THEN [dir |-> "repo", stem |-> e.stem]
     ELSE NoFile

(* The file an entry names, or else any file of that stem in the order of  *)
(* discovery, or else the repository's.  Program directories are absolute: *)
(* the paths that a relative RAIJIN_HOME makes are not covered.            *)
ResolveHex(e) ==
  LET dirs == {d \in Dirs : FileExists(d, e.stem)}
      first == CHOOSE d \in dirs : \A c \in dirs : DirIndex(d) <= DirIndex(c)
  IN IF e.kind = "custom" /\ e.dir \in dirs THEN [dir |-> e.dir, stem |-> e.stem]
     ELSE IF dirs # {} THEN [dir |-> first, stem |-> e.stem]
     ELSE IF e.stem \in RepoHex THEN [dir |-> "repo", stem |-> e.stem]
     ELSE NoFile

catalogNames == LET all == All IN [i \in DOMAIN all |-> all[i].name]

(* A file path wins over a name.  A built-in that has no file gives        *)
(* neither a program nor suggestions.                                      *)
Resolve(typed, workingDir) ==
  LET e == Find(typed)
  IN IF typed = <<>> THEN [hexPath |-> NoFile, suggest |-> catalogNames]
     ELSE IF typed \in workingDir
     THEN [hexPath |-> [dir |-> "cwd", stem |-> typed], suggest |-> <<>>]
     ELSE IF e # NoEntry THEN [hexPath |-> ResolveHex(e), suggest |-> <<>>]
     ELSE [hexPath |-> NoFile, suggest |-> Closest(typed, Range(catalogNames), 3)]
=============================================================================
