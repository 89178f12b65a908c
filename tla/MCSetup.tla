------------------------------ MODULE MCSetup ------------------------------
(* Instances of Setup for TLC. *)
EXTENDS Setup

MCPrograms == <<"matrix">>
MCSdkFiles == <<"crt", "elf2hex">>

(* A whole package, one with nothing next to it, and one without the SDK. *)
MCPackages ==
  {[version |-> "v2", programs |-> {"matrix"}, sdk |-> TRUE],
   [version |-> "v1", programs |-> {}, sdk |-> FALSE]}

MCRepoPrograms == {"matrix"}

(* Start-up files: none, the user's own, and one with an earlier block. *)
MCFirstRcs == {<<>>, <<"alias", Blank, raijinMarker, buildRcLine>>}

(* PATHs: other entries, one of them twice, and bin in another spelling. *)
MCFirstLists == {<<"tools", Blank>>, <<"tools", "BIN", "tools", "bin">>}
============================================================================
