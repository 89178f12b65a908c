------------------------------ MODULE PathEdit ------------------------------
(***************************************************************************)
(* internal/pathing: adding one directory, the installation's bin, to the  *)
(* user's PATH and taking it out.  On Windows PATH is a list of entries;   *)
(* elsewhere it is a line in the shell's start-up file, below a marker.    *)
(*                                                                         *)
(* An rc file is a sequence of lines.  Only what the code tells apart is   *)
(* kept of a line: it is the marker, the PATH line of that shell's syntax, *)
(* a line that contains the PATH line (commented out, say), blank, or the  *)
(* user's.                                                                 *)
(***************************************************************************)
EXTENDS Naturals, FiniteSets, Sequences, SequencesExt

raijinMarker == "marker"
buildRcLine == "path"
Commented == "#path"
Blank == ""

hasRaijinLine(rc) == \E i \in DOMAIN rc : rc[i] \in {buildRcLine, Commented}

(* The text appended begins with an empty line. *)
writeRcAddDir(rc) ==
  IF hasRaijinLine(rc) THEN rc ELSE rc \o <<Blank, raijinMarker, buildRcLine>>

(* The lines without a trailing run of blank ones. *)
TrimBlanks(rc) ==
  LET text == {i \in DOMAIN rc : rc[i] # Blank}
      last == CHOOSE i \in text : \A j \in text : j <= i
  IN IF text = {} THEN <<>> ELSE SubSeq(rc, 1, last)

(* Marker i makes the scanner skip the next line, whatever it is; a marker *)
(* that is skipped does not.                                               *)
SkipsNext(rc) ==
  LET skips[i \in 0 .. Len(rc)] == i > 0 /\ rc[i] = raijinMarker /\ ~skips[i - 1]
  IN skips

(* The lines of the given places. *)
AtPlaces(rc, places) ==
  [n \in 1 .. Cardinality(places) |->
     rc[CHOOSE i \in places : Cardinality({j \in places : j <= i}) = n]]

(* Mutant: everything below the marker goes. *)
writeRcRemoveDir_ToTheEnd(rc) ==
  IF ~Contains(rc, raijinMarker) THEN rc
  ELSE LET skips == SkipsNext(rc)
       IN TrimBlanks(AtPlaces(rc, {i \in DOMAIN rc : \A j \in 1 .. i : ~skips[j]}))

writeRcRemoveDir(rc) ==
  LET skips == SkipsNext(rc)
  IN IF ~Contains(rc, raijinMarker) THEN rc
     ELSE TrimBlanks(AtPlaces(rc, {i \in DOMAIN rc : ~skips[i] /\ ~skips[i - 1]}))
-----------------------------------------------------------------------------
(* Windows.  Entries that differ in case name the same directory. *)

Bin == "bin"
normalizeDir(entry) == IF entry = "BIN" THEN Bin ELSE entry

(* Empty entries are dropped, and all but the first of equal ones. *)
listItems(value) ==
  AtPlaces(value, {i \in DOMAIN value :
                     /\ value[i] # Blank
                     /\ \A j \in 1 .. i - 1 : normalizeDir(value[j]) # normalizeDir(value[i])})

ListContainsDir(value) == \E i \in DOMAIN value : normalizeDir(value[i]) = Bin

ListAppendDir(value) ==
  IF ListContainsDir(value) THEN listItems(value) ELSE Append(listItems(value), Bin)

(* Mutant: entries are compared as they are spelled. *)
ListRemoveDir_Exact(value) ==
  LET items == listItems(value) IN AtPlaces(items, {i \in DOMAIN items : items[i] # Bin})

ListRemoveDir(value) ==
  LET items == listItems(value)
  IN AtPlaces(items, {i \in DOMAIN items : normalizeDir(items[i]) # Bin})
-----------------------------------------------------------------------------
(* What the edits are to achieve. *)

(* Nobody has touched the block: each marker has its PATH line below it,   *)
(* and there is no such line, in use or commented out, anywhere else.      *)
Intact(rc) ==
  \A i \in DOMAIN rc :
    /\ rc[i] = raijinMarker => i < Len(rc) /\ rc[i + 1] = buildRcLine
    /\ rc[i] = buildRcLine => i > 1 /\ rc[i - 1] = raijinMarker
    /\ rc[i] # Commented

(* raijin's line is there once at most.                                    *)
AtMostOnePath(rc) ==
  \A i, j \in DOMAIN rc : rc[i] = buildRcLine /\ rc[j] = buildRcLine => i = j

UserLines(rc) ==
  AtPlaces(rc, {i \in DOMAIN rc : rc[i] \notin {Blank, raijinMarker, buildRcLine, Commented}})
PathLines(rc) == AtPlaces(rc, {i \in DOMAIN rc : rc[i] = buildRcLine})

BinItems(value) == AtPlaces(value, {i \in DOMAIN value : normalizeDir(value[i]) = Bin})
OtherItems(value) ==
  LET items == listItems(value)
  IN AtPlaces(items, {i \in DOMAIN items : normalizeDir(items[i]) # Bin})
=============================================================================
