-------------------------------- MODULE Setup --------------------------------
(***************************************************************************)
(* installer/main.go: raijin-setup, the Windows installer that unpacks an  *)
(* embedded payload into the same directories, behind a welcome screen or  *)
(* with --silent.  The unpacking runs in a goroutine of its own and sends  *)
(* the screen one message when it has ended.                               *)
(***************************************************************************)
EXTENDS Installation

CONSTANTS
  PayloadVersion,
  PayloadPrograms \* the programs in the payload

ASSUME SetupAssumption ==
  PayloadVersion \in Versions /\ PayloadPrograms \subseteq ToSet(Programs)

VARIABLES
  screen,    \* of raijin-setup; "silent" while it runs without one
  selected,  \* row of the welcome screen: 0 install, 1 cancel
  addToPath, \* --no-path was not given
  result     \* what the done screen will say of PATH

setupVars == <<screen, selected, addToPath, result>>
vars == <<installVars, setupVars>>

SetupTypeOK ==
  /\ InstallTypeOK
  /\ screen \in {"none", "welcome", "installing", "silent", "done", "error", "canceled", "closed"}
  /\ selected \in {0, 1} /\ addToPath \in BOOLEAN
  /\ result \in {"none", "skipped", "uninspected", "already", "added", "unchanged"}

Init ==
  /\ InstallInit
  /\ screen = "none" /\ selected = 0 /\ addToPath = FALSE /\ result = "none"

Payload ==
  LET packed == [f \in Files |->
                   IF f \in ToSet(SdkFiles) \cup PayloadPrograms \cup Bins \cup {"readme"}
                   THEN PayloadVersion ELSE "none"]
  IN Copies(<<"exe", "lib", "readme">> \o Programs \o SdkFiles, packed)

(* performInstall up to the first file of the payload. *)
performInstall(path) ==
  /\ MkdirAll
  /\ Begin([NoCommand EXCEPT !.kind = "setup", !.at = "copy", !.todo = Payload,
              !.version = PayloadVersion, !.programs = PayloadPrograms, !.sdk = TRUE,
              !.path = path])
  /\ UNCHANGED <<tree, rc, list, helper, machine>>

runInteractive ==
  /\ os = "windows" /\ screen = "none" /\ Resting
  /\ screen' = "welcome" /\ addToPath' \in BOOLEAN
  /\ UNCHANGED <<installVars, selected, result>>

runSilent ==
  /\ os = "windows" /\ screen = "none"
  /\ addToPath' \in BOOLEAN
  /\ performInstall(addToPath')
  /\ screen' = "silent"
  /\ UNCHANGED <<selected, result>>

(* A key on the welcome screen. *)
WelcomeKey ==
  /\ screen = "welcome"
  /\ \/ selected' \in {0, 1} \ {selected} /\ UNCHANGED <<installVars, screen>>
     \/ selected = 0 /\ performInstall(addToPath) /\ screen' = "installing" /\ UNCHANGED selected
     \/ screen' = "canceled" /\ UNCHANGED <<installVars, selected>>
  /\ UNCHANGED <<addToPath, result>>

(* The process has ended, and its variables with it. *)
Closed == screen' = "closed" /\ selected' = 0 /\ addToPath' = FALSE /\ result' = "none"

(* Mutant: the screen that unpacks can be left like the others. *)
CloseKey_Always ==
  /\ screen \in {"done", "error", "canceled", "installing"}
  /\ screen' = IF screen = "installing" THEN "canceled" ELSE "closed"
  /\ UNCHANGED <<installVars, selected, addToPath, result>>

(* A key on a last screen; the screen that unpacks takes none. *)
CloseKey ==
  /\ screen \in {"done", "error", "canceled"}
  /\ Closed
  /\ UNCHANGED installVars

Running(at) == cmd.kind = "setup" /\ cmd.at = at

Unpacked ==
  /\ Running("copy") /\ cmd.todo = <<>>
  /\ cmd' = [cmd EXCEPT !.at = IF addToPath THEN "inspect" ELSE "done"]
  /\ result' = IF addToPath THEN result ELSE "skipped"
  /\ UNCHANGED <<disk, os, rc, shell, list, helper, commands, edits, screen, selected, addToPath>>

(* UserPathContainsDir; PATH that cannot be read does not fail the setup. *)
InspectPath ==
  /\ Running("inspect")
  /\ \/ result' = "uninspected" /\ cmd' = [cmd EXCEPT !.at = "done"]
     \/ /\ ListContainsDir(list)
        /\ result' = "already" /\ cmd' = [cmd EXCEPT !.at = "done"]
     \/ /\ ~ListContainsDir(list)
        /\ cmd' = [cmd EXCEPT !.at = "path"] /\ UNCHANGED result
  /\ UNCHANGED <<disk, os, rc, shell, list, helper, commands, edits, screen, selected, addToPath>>

AddPath ==
  /\ Running("path")
  /\ UpdateUserPathDir
  /\ result' = IF list' = list THEN "unchanged" ELSE "added"
  /\ cmd' = [cmd EXCEPT !.at = "done"]
  /\ UNCHANGED <<disk, os, shell, helper, commands, edits, screen, selected, addToPath>>

(* Mutant: only a success is reported. *)
installFinishedMsg_Success ==
  /\ screen \in {"installing", "silent"} /\ cmd.kind = "setup"
  /\ cmd.at = "done" /\ screen' = "done"
  /\ UNCHANGED <<installVars, selected, addToPath, result>>

(* installFinishedMsg, or the end of runSilent. *)
installFinishedMsg ==
  /\ screen \in {"installing", "silent"} /\ cmd.kind = "setup"
  /\ \/ cmd.at = "done" /\ screen' = "done"
     \/ cmd.at = "failed" /\ screen' = "error"
  /\ UNCHANGED <<installVars, selected, addToPath, result>>

(* The setup's window is closed or its process killed. *)
SetupKilled ==
  /\ screen \notin {"none", "closed"}
  /\ Closed
  /\ \/ cmd.kind = "setup" /\ CommandBreaks
     \/ (cmd.kind # "setup" \/ Resting) /\ UNCHANGED installVars

(* The process of raijin-setup. *)
SetupWork == (cmd.kind = "setup" /\ CommandStep /\ UNCHANGED setupVars)
             \/ Unpacked \/ InspectPath \/ AddPath \/ installFinishedMsg

SetupKeys == runInteractive \/ runSilent \/ WelcomeKey \/ CloseKey \/ SetupKilled

(* The user starts one program after the other. *)
Commands ==
  /\ screen \in {"none", "closed"}
  /\ InstallCommands \/ UninstallCommands \/ CommandStep
  /\ UNCHANGED setupVars

World == (HelperRound \/ EditPath) /\ UNCHANGED setupVars

(* With every bound reached, everything has stopped. *)
Next == Commands \/ World \/ SetupKeys \/ SetupWork

Fairness == WF_vars(SetupWork)
Spec == Init /\ [][Next]_vars /\ Fairness
-----------------------------------------------------------------------------
(* Properties. *)

(* The unpacking goes on behind the screen that says so, and behind no     *)
(* other; "nothing was changed" (canceledView) is said by a setup that has *)
(* not begun; and when nobody interfered, the done screen is right: the    *)
(* payload is there, README included, and bin is on PATH if it says so.    *)
SetupTellsTruth ==
  /\ (cmd.kind = "setup" /\ ~Resting) => screen \in {"installing", "silent"}
  /\ screen = "canceled" => cmd.kind # "setup"
  /\ (screen = "done" /\ cmd.kind = "setup" /\ cmd.clean) =>
       /\ \A i \in DOMAIN Payload : tree[Payload[i].file] = PayloadVersion
       /\ result \in {"already", "added"} => ListContainsDir(list)
       /\ addToPath <=> result # "skipped"

(* The screen that ignores keys does not stay: the goroutine's one message *)
(* arrives whatever fails.                                                 *)
InstallingEnds == screen = "installing" ~> screen # "installing"
=============================================================================
