------------------------------ MODULE Library ------------------------------
(***************************************************************************)
(* cmd/add.go and cmd/remove.go: commands that change the program library, *)
(* each a check of the catalog followed by file operations.  Commands of   *)
(* several shells interleave with one another and with the user's own      *)
(* edits, and every one may fail or be killed between two operations.  A   *)
(* command that is refused changes nothing and is left out.                *)
(***************************************************************************)
EXTENDS Catalog

CONSTANTS
  Procs,         \* the processes that run commands
  Inputs,        \* files a user may pass to add
  OptNames,      \* what --name or the menu's prompt may hold; <<>> is none
  Typed,         \* names a user may pass to remove
  FirstLibraries,\* [hex, meta] states to start from
  MaxCommands,   \* bound: commands started
  Tools,         \* of the SDK, the RISC-V compiler and Python, those at hand
  HandEdits,     \* files a user may put or take away, with their sidecars
  MaxEdits       \* bound: changes by hand

ASSUME LibraryAssumption ==
  /\ "torn" \in Contents
  /\ \A i \in Inputs :
       /\ i.content \in Contents
       /\ i.dir \in Dirs => i.ext = "hex" /\ i.base \in Stems
       /\ \A s \in Stems : [name |-> s, source |-> i.content] \in Metadata
  /\ \A n \in OptNames \cup Typed : n \in Seq(Nat)
  /\ {"home", "user"} \cap Dirs # {}
  /\ \A l \in FirstLibraries :
       /\ l.hex \in [Dirs -> [Stems -> Contents \cup {NoFile}]]
       /\ l.meta \in [Dirs -> [Stems -> Metadata \cup {NoFile}]]
  /\ \A e \in HandEdits :
       /\ e.dir \in Dirs /\ e.stem \in Stems
       /\ e.hex \in Contents \cup {NoFile} /\ e.meta \in Metadata \cup {NoFile}
  /\ MaxCommands \in Nat /\ MaxEdits \in Nat

VARIABLES
  job,       \* process -> the command it is in, or the add it has done; clean
             \* when the name was free and nobody changed the library since
  commands,  \* number of commands started
  edits      \* number of changes by hand

files == <<hex, meta>>
libraryVars == <<hex, meta, job, commands, edits>>

Idle == [at |-> "idle", name |-> <<>>, input |-> NoFile, dir |-> "", stem |-> <<>>,
         clean |-> FALSE]

LibraryTypeOK ==
  /\ CatalogTypeOK
  /\ job \in [Procs -> [at : {"idle", "done", "hex", "json", "rm_hex", "rm_json"},
                        name : Seq(Nat), input : Inputs \cup {NoFile},
                        dir : Dirs \cup {""}, stem : Stems \cup {<<>>}, clean : BOOLEAN]]
  /\ commands \in 0 .. MaxCommands /\ edits \in 0 .. MaxEdits

LibraryInit ==
  /\ \E l \in FirstLibraries : hex = l.hex /\ meta = l.meta
  /\ job = [p \in Procs |-> Idle]
  /\ commands = 0 /\ edits = 0

-----------------------------------------------------------------------------
(* Names. *)

IsNameByte(c) == c \in 97 .. 122 \/ c \in 48 .. 57 \/ c = 45 \/ c = 95

(* strings.Trim(s, "-_") *)
TrimDashes(w) ==
  LET inner == {i \in DOMAIN w : w[i] \notin {45, 95}}
  IN IF inner = {} THEN <<>> ELSE SubSeq(w, Min(inner), Max(inner))

(* Lower case; blanks and dots become dashes; what else is no letter,      *)
(* digit, dash or underscore is dropped.                                   *)
sanitizedProgramName(w) ==
  LET dashed == [i \in DOMAIN w |-> IF w[i] \in {32, 46} THEN 45 ELSE LowerByte(w[i])]
  IN TrimDashes(SelectSeq(dashed, IsNameByte))

(* The name asked for, else the input file's. *)
ProgramName(i, n) ==
  IF sanitizedProgramName(n) # <<>> THEN sanitizedProgramName(n)
  ELSE sanitizedProgramName(i.base)

activeProgramDir == IF "home" \in Dirs THEN "home" ELSE "user"

-----------------------------------------------------------------------------
(* A command's steps. *)

Resting(p) == job[p].at \in {"idle", "done"}

(* What a change by somebody else means to a command: its checks are stale. *)
Disturbed(j) == IF j.at = "done" THEN Idle ELSE [j EXCEPT !.clean = FALSE]

(* The process goes on with j. *)
Continue(p, j) ==
  job' = [q \in Procs |-> IF q = p THEN j
                          ELSE IF files' = files THEN job[q] ELSE Disturbed(job[q])]

InputExists(i) == i.dir \in Dirs => FileExists(i.dir, i.base)

InputContent(i) == IF i.dir \in Dirs THEN hex[i.dir][i.base] ELSE i.content

(* Mutant: a built-in's name is refused only without --force. *)
AddAllowed_ForceAny(i, name, force) ==
  /\ InputExists(i)
  /\ name # <<>> /\ name \in Stems
  /\ Find(name) # NoEntry => force
  /\ i.ext \in {"hex", "elf", "c", "s"}

(* The checks of addProgramFromInput; names outside Stems are not tried. *)
AddAllowed(i, name, force) ==
  LET existing == Find(name)
  IN /\ InputExists(i)
     /\ name # <<>> /\ name \in Stems
     /\ existing # NoEntry => existing.kind = "custom" /\ force
     /\ i.ext \in {"hex", "elf", "c", "s"}

(* No program has the name, or the one that the command will replace. *)
NameIsFree(name) ==
  LET e == Find(name) IN e # NoEntry => e.dir = activeProgramDir /\ e.stem = name

(* addProgramFromInput up to the first write. *)
AddBegin(p, i, n, force) ==
  LET name == ProgramName(i, n)
  IN /\ Resting(p) /\ commands < MaxCommands
     /\ AddAllowed(i, name, force)
     /\ commands' = commands + 1
     /\ UNCHANGED <<hex, meta, edits>>
     /\ Continue(p, [at |-> "hex", name |-> name, input |-> i, dir |-> activeProgramDir,
                     stem |-> name, clean |-> NameIsFree(name)])

(* AbsSameFile compares the paths: a link to the file has another path. *)
AbsSameFile(i, d, s) == i.dir = d /\ i.base = s /\ ~i.alias

(* copyFile truncates its target before it reads the source. *)
Written(i, d, s) ==
  IF AbsSameFile(i, d, s) THEN hex[d][s]
  ELSE IF i.dir = d /\ i.base = s THEN "torn"
  ELSE InputContent(i)

(* What a conversion needs; a compiled program goes on as an .elf does. *)
convertElfToHex == {"sdk", "python"}
compileSourceToHex == {"gcc"} \cup convertElfToHex

Needs(ext) ==
  CASE ext = "hex" -> {} [] ext = "elf" -> convertElfToHex [] OTHER -> compileSourceToHex

(* The copy or the conversion succeeds. *)
AddHex(p) ==
  LET j == job[p]
  IN /\ j.at = "hex" /\ InputExists(j.input) /\ Needs(j.input.ext) \subseteq Tools
     /\ hex' = [hex EXCEPT ![j.dir][j.stem] = Written(j.input, j.dir, j.stem)]
     /\ UNCHANGED <<meta, commands, edits>>
     /\ Continue(p, [j EXCEPT !.at = "json"])

(* Mutant: the sidecar of a program that is replaced is kept. *)
writeProgramMetadata_IfNew(d, s, m) ==
  IF meta[d][s] = NoFile THEN [meta EXCEPT ![d][s] = m] ELSE meta

writeProgramMetadata(d, s, m) == [meta EXCEPT ![d][s] = m]

AddJson(p) ==
  LET j == job[p]
  IN /\ j.at = "json"
     /\ meta' = writeProgramMetadata(j.dir, j.stem,
                                     [name |-> j.name, source |-> j.input.content])
     /\ UNCHANGED <<hex, commands, edits>>
     /\ Continue(p, IF j.clean THEN [j EXCEPT !.at = "done"] ELSE Idle)

(* A write fails or the command is killed: the file is as it was, or cut   *)
(* off; a cut-off sidecar is not readable.                                 *)
AddFails(p) ==
  LET j == job[p]
  IN /\ \/ j.at = "hex" /\ UNCHANGED meta
           /\ hex' \in {hex, [hex EXCEPT ![j.dir][j.stem] = "torn"]}
        \/ j.at = "json" /\ UNCHANGED hex
           /\ meta' \in {meta, [meta EXCEPT ![j.dir][j.stem] = NoFile]}
     /\ UNCHANGED <<commands, edits>>
     /\ Continue(p, Idle)

(* removeProgramByName up to the first removal.  The path of an entry is   *)
(* absolute (see ResolveHex), so it is not looked for again.               *)
RemoveBegin(p, name) ==
  LET e == Find(name)
  IN /\ Resting(p) /\ commands < MaxCommands
     /\ e # NoEntry /\ e.kind = "custom"
     /\ commands' = commands + 1
     /\ UNCHANGED <<hex, meta, edits>>
     /\ Continue(p, [at |-> "rm_hex", name |-> e.name, input |-> NoFile, dir |-> e.dir,
                     stem |-> e.stem, clean |-> TRUE])

RemoveHex(p) ==
  LET j == job[p]
  IN /\ j.at = "rm_hex" /\ FileExists(j.dir, j.stem)
     /\ hex' = [hex EXCEPT ![j.dir][j.stem] = NoFile]
     /\ UNCHANGED <<meta, commands, edits>>
     /\ Continue(p, [j EXCEPT !.at = "rm_json"])

RemoveJson(p) ==
  LET j == job[p]
  IN /\ j.at = "rm_json"
     /\ meta' = [meta EXCEPT ![j.dir][j.stem] = NoFile]
     /\ UNCHANGED <<hex, commands, edits>>
     /\ Continue(p, Idle)

(* The file has gone, may not be removed, or the command is killed. *)
RemoveFails(p) ==
  /\ job[p].at \in {"rm_hex", "rm_json"}
  /\ UNCHANGED <<hex, meta, commands, edits>>
  /\ Continue(p, Idle)

Command(p) ==
  \/ AddHex(p) \/ AddJson(p) \/ AddFails(p)
  \/ RemoveHex(p) \/ RemoveJson(p) \/ RemoveFails(p)

Shell(p) ==
  \/ \E i \in Inputs, n \in OptNames, force \in BOOLEAN : AddBegin(p, i, n, force)
  \/ \E name \in Typed : RemoveBegin(p, name)
  \/ Command(p)

(* The user puts a program and its sidecar into a directory, or takes them *)
(* out.                                                                    *)
EditByHand(edit) ==
  /\ edits < MaxEdits
  /\ hex' = [hex EXCEPT ![edit.dir][edit.stem] = edit.hex]
  /\ meta' = [meta EXCEPT ![edit.dir][edit.stem] = edit.meta]
  /\ files' # files
  /\ edits' = edits + 1
  /\ job' = [q \in Procs |-> Disturbed(job[q])]
  /\ UNCHANGED commands
-----------------------------------------------------------------------------
(* Properties. *)

(* Catalog: every program listed is the one its name finds, whatever files *)
(* the directories hold, so that run and remove act on what was listed.    *)
ListedIsFound == LET all == All IN \A k \in DOMAIN all : Find(all[k].name) = all[k]

(* addProgramFromInput and removeProgramByName: no command makes, changes  *)
(* or deletes a file that stands in for a built-in, although a sidecar may *)
(* carry a built-in's name and --force was given.                          *)
BuiltinsKept ==
  [][(files' # files /\ edits' = edits) =>
       \A d \in Dirs, s \in Stems : reserved(s) => /\ hex'[d][s] = hex[d][s]
                                                   /\ meta'[d][s] = meta[d][s]]_files

(* An add that nobody disturbed and whose name was free, or was that of    *)
(* the file it replaces, ends with that name finding the new program and   *)
(* with a sidecar that describes it, also over the remains of an earlier   *)
(* add that was cut off in the middle.                                     *)
AddTakesEffect ==
  \A p \in Procs :
    LET j == job[p]
    IN (j.at = "done" /\ j.clean) =>
         /\ Find(j.name) = [name |-> j.name, kind |-> "custom", dir |-> j.dir, stem |-> j.stem]
         /\ j.input.dir \notin Dirs => hex[j.dir][j.stem] = j.input.content
         /\ meta[j.dir][j.stem].source = j.input.content

(* Every name a program can have, in lower case, and those of them a typo  *)
(* may stand for, its edits counted one at a time: Near within the edits   *)
(* the code and its comment at suggest.go:25-28 allow, NearOrDocumented    *)
(* within those of rule 3 at suggest.go:15, which allows one more for some *)
(* words of odd length.                                                    *)
Names == {lower(n) : n \in Stems \cup Range(builtins) \cup {m.name : m \in Metadata}}
documentedBudget(t) == Min({(Len(t) + 1) \div 2 + 1, 3})
Near == [w \in Typed |->
  {c \in Names : c \in Within(lower(w), distBudget(w), Range(c))}]
NearOrDocumented == [w \in Typed |->
  {c \in Names : c \in Within(lower(w), documentedBudget(w), Range(c))}]

Related(w, c, near) == IsPrefix(lower(w), c) \/ contains(c, lower(w)) \/ c \in near

(* suggest.Closest, after a name that is not found: what is suggested is   *)
(* related to what was typed, by edits counted one at a time and not by a  *)
(* table; nothing twice, at most three, and a related name is left out     *)
(* only when three others are there.  A name that rule 3 admits and the    *)
(* code does not may be there or not.                                      *)
SuggestionsMatch ==
  \A w \in Typed :
    LET s == Resolve(w, {}).suggest
        names == Range(catalogNames)
    IN w # <<>> /\ Find(w) = NoEntry =>
         /\ IsInjective(s) /\ Len(s) <= 3 /\ Range(s) \subseteq names
         /\ \A n \in Range(s) : Related(w, lower(n), NearOrDocumented[w])
         /\ Len(s) < 3 => {n \in names : Related(w, lower(n), Near[w])} \subseteq Range(s)
=============================================================================
