---------------------------- MODULE Installation ----------------------------
(***************************************************************************)
(* cmd/install.go and cmd/uninstall.go: what `raijin install` puts under   *)
(* ~/.raijin and on the user's PATH, and what `raijin uninstall` takes     *)
(* away.  Commands run one after the other; any of them may fail or be     *)
(* killed between two file operations, the next one starts from what it    *)
(* left.  On Windows a running executable cannot be deleted: an uninstall  *)
(* run from the installed copy leaves a PowerShell helper behind, which    *)
(* deletes the files once it has exited, whatever has happened meanwhile.  *)
(***************************************************************************)
EXTENDS PathEdit

CONSTANTS
  Versions,     \* of the packages, with "repo" for a checkout
  Programs,     \* the built-ins' .hex files, in the catalog's order
  SdkFiles,     \* the compile SDK's files, in the order they are copied
  Packages,     \* [version, programs, sdk]: what lies next to a raijin that
                \* is run, programs a set and sdk BOOLEAN
  RepoPrograms, \* the built-ins a checkout around it holds
  RepoSdk,      \* BOOLEAN: it also holds the SDK
  Shells,       \* values of $SHELL with rc files of their own
  FirstShell,   \* the one at the start
  FirstTrees,   \* versions installed at the start, or "none"
  FirstRcs,     \* what an rc file may hold at the start
  FirstLists,   \* what the registry's PATH may hold at the start
  UserLine,     \* a line the user may write into an rc file
  MaxTries,     \* rounds of the cleanup helper; 100 in the code
  MaxCommands,  \* bound: commands started
  MaxEdits      \* bound: changes of PATH or $SHELL by hand

ASSUME InstallAssumption ==
  /\ FirstShell \in Shells
  /\ Programs \in Seq(STRING) /\ SdkFiles \in Seq(STRING)
  /\ "repo" \in Versions /\ {"none", "torn"} \cap Versions = {}
  /\ FirstTrees \subseteq Versions \cup {"none"}
  /\ \A p \in Packages :
       p.version \in Versions /\ p.programs \subseteq ToSet(Programs) /\ p.sdk \in BOOLEAN
  /\ MaxTries \in Nat \ {0} /\ MaxCommands \in Nat /\ MaxEdits \in Nat

(* The user does not write raijin's PATH line, and no file has it twice.   *)
ASSUME PathAssumption ==
  /\ FirstRcs \cup FirstLists \subseteq Seq(STRING)
  /\ UserLine # buildRcLine /\ \A text \in FirstRcs : AtMostOnePath(text)

Bins == {"exe", "lib"}
Files == Bins \cup {"readme"} \cup ToSet(Programs) \cup ToSet(SdkFiles)

(* Files of one directory have no names of another.                        *)
ASSUME FilesAssumption ==
  /\ ToSet(Programs) \cap ToSet(SdkFiles) = {}
  /\ (Bins \cup {"readme"}) \cap (ToSet(Programs) \cup ToSet(SdkFiles)) = {}

DirOf(f) == CASE f \in Bins -> "bin" [] f = "readme" -> "root"
              [] f \in ToSet(Programs) -> "programs" [] OTHER -> "sdk"

VARIABLES
  tree,     \* file -> version, cut off ("torn") or absent ("none")
  dirs,     \* the directories that exist under ~/.raijin, itself "root"
  cmd,      \* the command that is running, or the last one
  os,       \* "unix" or "windows"
  rc,       \* shell -> its start-up file
  shell,    \* the current $SHELL
  list,     \* PATH in the Windows registry
  helper,   \* the cleanup helper: its files and the rounds it has left
  commands, \* number of commands started
  edits     \* number of changes by hand

disk == <<tree, dirs>>
pathVars == <<rc, list>>
machine == <<os, shell, edits>>
installVars == <<tree, dirs, cmd, os, rc, shell, list, helper, commands, edits>>

NoCommand ==
  [kind |-> "none", at |-> "idle", todo |-> <<>>, version |-> "none", programs |-> {},
   sdk |-> FALSE, path |-> FALSE, purge |-> FALSE, self |-> FALSE, clean |-> FALSE]

Failed == [NoCommand EXCEPT !.kind = cmd.kind, !.at = "failed"]

HelperOff == [files |-> {}, rounds |-> 0]

Exists(f) == tree[f] # "none"

InstallTypeOK ==
  /\ tree \in [Files -> Versions \cup {"torn", "none"}]
  /\ dirs \subseteq {"root", "bin", "programs", "sdk"}
  /\ cmd.kind \in {"none", "install", "setup", "uninstall"}
  /\ cmd.at \in {"idle", "copy", "remove", "purge", "dirs", "inspect", "path", "schedule", "exit",
                 "done", "failed"}
  /\ helper.files \subseteq Bins /\ helper.rounds \in 0 .. MaxTries
  /\ commands \in 0 .. MaxCommands /\ edits \in 0 .. MaxEdits
  /\ \A f \in Files : Exists(f) => DirOf(f) \in dirs
  /\ dirs # {} => "root" \in dirs

Installed(v) == [f \in Files |-> IF f = "readme" THEN "none" ELSE v]

InstallInit ==
  /\ \E v \in FirstTrees :
       /\ tree = Installed(v)
       /\ dirs = IF v = "none" THEN {} ELSE {"root", "bin", "programs", "sdk"}
  /\ cmd = NoCommand
  /\ shell = FirstShell
  /\ \/ os = "unix" /\ list = <<>> /\ \E text \in FirstRcs : rc = [s \in Shells |-> text]
     \/ os = "windows" /\ rc = [s \in Shells |-> <<>>] /\ list \in FirstLists
  /\ helper = HelperOff
  /\ commands = 0 /\ edits = 0
-----------------------------------------------------------------------------
(* Install. *)

Resting == cmd.at \in {"idle", "done", "failed"}

Begin(c) ==
  /\ Resting /\ commands < MaxCommands
  /\ commands' = commands + 1
  /\ cmd' = [c EXCEPT !.clean = helper.rounds = 0]

MkdirAll == dirs' = {"root", "bin", "programs", "sdk"}

(* The version a built-in is copied from, or "none": the package, then the *)
(* checkout.                                                               *)
findBuiltinHex(p, inRepo, f) ==
  CASE f \in p.programs -> p.version
    [] f \notin p.programs /\ inRepo /\ f \in RepoPrograms -> "repo"
    [] OTHER -> "none"

locateInstallableSDKSource(p, inRepo) ==
  CASE p.sdk -> p.version [] ~p.sdk /\ inRepo /\ RepoSdk -> "repo" [] OTHER -> "none"

(* The copies of files from sources that have them, as [file, version]. *)
Copies(names, source) ==
  LET found == AtPlaces(names, {i \in DOMAIN names : source[names[i]] # "none"})
  IN [i \in DOMAIN found |-> [file |-> found[i], version |-> source[found[i]]]]

(* Mutant: files of the SDK that are there are not copied again. *)
InstallPlan_SdkIfMissing(p, inRepo, self, noPrograms) ==
  LET own == [f \in Bins |-> IF self THEN "none" ELSE p.version]
      program == [f \in ToSet(Programs) |->
                    IF noPrograms THEN "none" ELSE findBuiltinHex(p, inRepo, f)]
      sdk == [f \in ToSet(SdkFiles) |->
                IF Exists(f) THEN "none" ELSE locateInstallableSDKSource(p, inRepo)]
  IN Copies(<<"exe", "lib">>, own) \o Copies(Programs, program) \o Copies(SdkFiles, sdk)

(* What a run copies, in order.  The installed copy (self) does not copy   *)
(* itself, and has neither programs nor SDK next to it.                    *)
InstallPlan(p, inRepo, self, noPrograms) ==
  LET own == [f \in Bins |-> IF self THEN "none" ELSE p.version]
      program == [f \in ToSet(Programs) |->
                    IF noPrograms THEN "none" ELSE findBuiltinHex(p, inRepo, f)]
      sdk == [f \in ToSet(SdkFiles) |-> locateInstallableSDKSource(p, inRepo)]
  IN Copies(<<"exe", "lib">>, own) \o Copies(Programs, program) \o Copies(SdkFiles, sdk)

InstallBegin(p, inRepo, self, noPrograms, addToPath) ==
  /\ self => tree["exe"] \in Versions /\ p.programs = {} /\ ~p.sdk
  /\ MkdirAll
  /\ Begin([NoCommand EXCEPT !.kind = "install", !.at = "copy", !.self = self,
              !.todo = InstallPlan(p, inRepo, self, noPrograms), !.version = p.version,
              !.programs = IF noPrograms THEN {} ELSE p.programs, !.sdk = p.sdk,
              !.path = addToPath])
  /\ UNCHANGED <<tree, rc, list, helper, machine>>

(* The directory of a target must be there, unless it is made on the way:  *)
(* copyTree makes that of the SDK; raijin-setup those of the payload's own *)
(* paths, in which exe and lib lie at the top.                             *)
CanOpen(f) ==
  DirOf(f) \in dirs \cup IF cmd.kind = "setup" THEN {"root", "programs", "sdk"} ELSE {"sdk"}

CopyNext ==
  /\ cmd.at = "copy" /\ cmd.todo # <<>> /\ CanOpen(Head(cmd.todo).file)
  /\ LET f == Head(cmd.todo).file
     IN /\ tree' = [tree EXCEPT ![f] = Head(cmd.todo).version]
        /\ dirs' = dirs \cup {"root", DirOf(f)}
  /\ cmd' = [cmd EXCEPT !.todo = Tail(@)]
  /\ UNCHANGED <<rc, list, helper, commands, machine>>

(* A copy fails or the command is killed in it: the target is cut off. *)
CopyBreaks ==
  /\ cmd.at = "copy" /\ cmd.todo # <<>> /\ CanOpen(Head(cmd.todo).file)
  /\ LET f == Head(cmd.todo).file
     IN tree' = [tree EXCEPT ![f] = "torn"] /\ dirs' = dirs \cup {"root", DirOf(f)}
  /\ cmd' = Failed
  /\ UNCHANGED <<rc, list, helper, commands, machine>>

CopyEnds ==
  /\ cmd.at = "copy" /\ cmd.todo = <<>> /\ cmd.kind = "install"
  /\ cmd' = [cmd EXCEPT !.at = IF cmd.path THEN "path" ELSE "done"]
  /\ UNCHANGED <<disk, rc, list, helper, commands, machine>>
-----------------------------------------------------------------------------
(* PATH. *)

Adds == cmd.kind # "uninstall"

UpdateUserPathDir ==
  IF os = "unix"
  THEN /\ rc' = [rc EXCEPT ![shell] = IF Adds THEN writeRcAddDir(@) ELSE writeRcRemoveDir(@)]
       /\ UNCHANGED list
  ELSE /\ list' = IF Adds THEN ListAppendDir(list) ELSE ListRemoveDir(list)
       /\ UNCHANGED rc

(* A self-uninstall on Windows goes on to queue what it could not delete. *)
UpdatePath ==
  /\ cmd.at = "path" /\ cmd.kind # "setup"
  /\ UpdateUserPathDir
  /\ cmd' = [cmd EXCEPT !.at = IF cmd.kind = "uninstall" THEN "schedule" ELSE "done"]
  /\ UNCHANGED <<disk, helper, commands, machine>>

(* Killed while it rewrites an rc file, the command leaves the lines it    *)
(* has written.                                                            *)
UpdatePathBreaks ==
  /\ cmd.at = "path" /\ os = "unix" /\ ~Adds
  /\ LET text == writeRcRemoveDir(rc[shell])
     IN /\ text # rc[shell]
        /\ \E n \in 0 .. Len(text) - 1 : rc' = [rc EXCEPT ![shell] = SubSeq(text, 1, n)]
  /\ cmd' = Failed
  /\ UNCHANGED <<disk, list, helper, commands, machine>>
-----------------------------------------------------------------------------
(* Uninstall. *)

needsScheduledCleanup(self) == self /\ os = "windows"

UninstallBegin(self, keepPath, purge) ==
  /\ self => tree["exe"] \in Versions
  /\ Begin([NoCommand EXCEPT !.kind = "uninstall", !.self = self, !.path = ~keepPath,
              !.purge = purge,
              !.at = IF needsScheduledCleanup(self) THEN "purge" ELSE "remove",
              !.todo = AtPlaces(<<"exe", "lib">>,
                                {i \in 1 .. 2 : needsScheduledCleanup(self)
                                                  => Exists(<<"exe", "lib">>[i])})])
  /\ UNCHANGED <<disk, rc, list, helper, machine>>

(* removeFileIfExists *)
RemoveNext ==
  /\ cmd.at = "remove"
  /\ tree' = [tree EXCEPT ![Head(cmd.todo)] = "none"]
  /\ cmd' = [cmd EXCEPT !.todo = Tail(@), !.at = IF Len(cmd.todo) = 1 THEN "purge" ELSE @]
  /\ UNCHANGED <<dirs, rc, list, helper, commands, machine>>

Without(files) == [f \in Files |-> IF f \in files THEN "none" ELSE tree[f]]

(* removeDirIfExists, if --purge-programs was given. *)
PurgePrograms ==
  /\ cmd.at = "purge"
  /\ IF cmd.purge THEN tree' = Without(ToSet(Programs)) /\ dirs' = dirs \ {"programs"}
     ELSE UNCHANGED disk
  /\ cmd' = [cmd EXCEPT !.at = IF needsScheduledCleanup(cmd.self)
                               THEN IF cmd.path THEN "path" ELSE "schedule" ELSE "dirs"]
  /\ UNCHANGED <<rc, list, helper, commands, machine>>

(* os.RemoveAll stops half-way. *)
PurgeBreaks ==
  /\ cmd.at = "purge" /\ cmd.purge
  /\ \E gone \in SUBSET ToSet(Programs) : tree' = Without(gone)
  /\ cmd' = Failed
  /\ UNCHANGED <<dirs, rc, list, helper, commands, machine>>

(* Mutant: a directory goes with what is in it. *)
removeDirIfEmpty_Any(files, ds, d) == ds \ {d}

removeDirIfEmpty(files, ds, d) ==
  IF (\E f \in Files : DirOf(f) = d /\ files[f] # "none") \/ (d = "root" /\ ds # {"root"})
  THEN ds ELSE ds \ {d}

WithoutEmpty(files) == removeDirIfEmpty(files, removeDirIfEmpty(files, dirs, "bin"), "root")

RemoveEmptyDirs ==
  /\ cmd.at = "dirs"
  /\ dirs' = WithoutEmpty(tree)
  /\ cmd' = [cmd EXCEPT !.at = IF cmd.path THEN "path" ELSE "schedule"]
  /\ UNCHANGED <<tree, rc, list, helper, commands, machine>>

(* scheduleSelfCleanup; the files queued are those seen at the beginning,  *)
(* and while the command is exiting its executable is in use.  A helper    *)
(* that still runs shares its rounds with the new one.                     *)
ScheduleCleanup ==
  /\ cmd.at = "schedule"
  /\ IF needsScheduledCleanup(cmd.self) /\ cmd.todo # <<>>
     THEN /\ helper' = [files |-> ToSet(cmd.todo) \cup helper.files, rounds |-> MaxTries]
          /\ cmd' = [cmd EXCEPT !.at = "exit"]
     ELSE cmd' = [cmd EXCEPT !.at = "done"] /\ UNCHANGED helper
  /\ UNCHANGED <<disk, rc, list, commands, machine>>

Exit ==
  /\ cmd.at = "exit"
  /\ cmd' = [cmd EXCEPT !.at = "done"]
  /\ UNCHANGED <<disk, rc, list, helper, commands, machine>>

(* An operation is refused (a file in use, no PowerShell, a directory that *)
(* a helper took away) or the command is killed.                           *)
CommandBreaks ==
  /\ ~Resting
  /\ cmd' = Failed
  /\ UNCHANGED <<disk, rc, list, helper, commands, machine>>

(* A round of the helper deletes those of its files that it can; another   *)
(* process may keep any of them in use.  When all are gone, or it has      *)
(* tried often enough, it takes the empty directories and ends.            *)
HelperRound ==
  /\ helper.rounds > 0
  /\ \E gone \in SUBSET helper.files :
       LET left == {f \in helper.files \ gone : Exists(f)}
           ends == left = {} \/ helper.rounds = 1
       IN /\ (cmd.self /\ ~Resting) => "exe" \notin gone
          /\ tree' = Without(gone)
          /\ helper' = IF ends THEN HelperOff ELSE [helper EXCEPT !.rounds = @ - 1]
          /\ dirs' = IF ends THEN WithoutEmpty(Without(gone)) ELSE dirs
  /\ cmd' = [cmd EXCEPT !.clean = FALSE]
  /\ UNCHANGED <<rc, list, commands, machine>>
-----------------------------------------------------------------------------
(* The user edits the start-up file or PATH, or takes another shell.  What *)
(* that does while files are copied or removed it does before or after.    *)

LineEdits(text, new) ==
  {InsertAt(text, i, new) : i \in 1 .. Len(text) + 1} \cup {RemoveAt(text, i) : i \in DOMAIN text}

EditPath ==
  /\ cmd.at \notin {"copy", "remove"}
  /\ edits < MaxEdits /\ edits' = edits + 1
  /\ \/ /\ os = "unix"
        /\ \E text \in LineEdits(rc[shell], UserLine)
                       \cup {[rc[shell] EXCEPT ![i] = Commented] :
                               i \in {j \in DOMAIN rc[shell] : rc[shell][j] = buildRcLine}} :
             rc' = [rc EXCEPT ![shell] = text]
        /\ UNCHANGED <<shell, list>>
     \/ os = "unix" /\ shell' \in Shells \ {shell} /\ UNCHANGED <<rc, list>>
     \/ os = "windows" /\ list' \in LineEdits(list, "BIN") /\ UNCHANGED <<rc, shell>>
  /\ cmd' = [cmd EXCEPT !.clean = FALSE]
  /\ UNCHANGED <<disk, os, helper, commands>>
-----------------------------------------------------------------------------
(* Of two copies of raijin, the one inside the installation has no package *)
(* of its own.                                                             *)
InstallCommands ==
  \E p \in Packages, inRepo, self, noPrograms, addToPath \in BOOLEAN :
    InstallBegin(p, inRepo, self, noPrograms, addToPath)

UninstallCommands ==
  \E self, keepPath, purge \in BOOLEAN : UninstallBegin(self, keepPath, purge)

CommandStep ==
  \/ CopyNext \/ CopyBreaks \/ CopyEnds
  \/ UpdatePath \/ UpdatePathBreaks \/ CommandBreaks
  \/ RemoveNext \/ PurgePrograms \/ PurgeBreaks
  \/ RemoveEmptyDirs \/ ScheduleCleanup \/ Exit
-----------------------------------------------------------------------------
(* Properties. *)

(* install.go: an install that ran to its end undisturbed by a cleanup     *)
(* helper leaves a whole installation of its version, whatever an earlier  *)
(* command left half done: executable and library belong together, every   *)
(* program of the package is its own, and the SDK is not a mixture.        *)
InstallConverges ==
  (cmd.kind \in {"install", "setup"} /\ cmd.at = "done" /\ cmd.clean) =>
    /\ ~cmd.self => tree["exe"] = cmd.version /\ tree["lib"] = cmd.version
    /\ \A f \in cmd.programs : tree[f] = cmd.version
    /\ cmd.sdk => \A f \in ToSet(SdkFiles) : tree[f] = cmd.version

(* A step in which a command has edited PATH and goes on. *)
PathStep == cmd.at = "path" /\ cmd'.at \notin {"path", "failed"} /\ edits' = edits

(* pathing: when nobody has touched the lines raijin wrote, an install     *)
(* leaves exactly one line or entry for bin, and an uninstall none, in     *)
(* whatever spelling and however often it was there.                       *)
PathAsAsked ==
  [][PathStep =>
       IF os = "unix"
       THEN Intact(rc[shell]) =>
              IF Adds THEN PathLines(rc'[shell]) = <<buildRcLine>>
              ELSE ToSet(rc'[shell]) \cap {raijinMarker, buildRcLine} = {}
       ELSE Len(BinItems(list')) = (IF Adds THEN 1 ELSE 0)
    ]_<<cmd, rc, list, edits>>

(* The same edits keep the user's own lines, in their order, and the other *)
(* entries in their spelling; only blank or repeated entries go.           *)
OthersKept ==
  [][PathStep =>
       /\ \A s \in Shells : s # shell => rc'[s] = rc[s]
       /\ Intact(rc[shell]) => UserLines(rc'[shell]) = UserLines(rc[shell])
       /\ OtherItems(list') = OtherItems(list)
    ]_<<cmd, rc, list, edits>>

(* pathing_unix.go:101 "Other content in the rc file is preserved          *)
(* verbatim": no PATH edit loses a line of the user's.                     *)
UserLinesKept ==
  [][PathStep => UserLines(rc'[shell]) = UserLines(rc[shell])]_<<cmd, rc, list, edits>>
=============================================================================
