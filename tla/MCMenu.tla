------------------------------- MODULE MCMenu -------------------------------
(***************************************************************************)
(* A menu and one shell over two program directories and one built-in, on  *)
(* a file system that tells "a.hex" from "A.hex".                          *)
(***************************************************************************)
EXTENDS Menu

a == <<97>>
upperA == <<65>>
one == <<49>>
doom == <<100, 111, 111, 109>>
dom == <<100, 111, 109>>

TwoDirs == <<"exe", "user">>
MCStems == {a, upperA, one, doom}
MCBuiltins == <<doom>>
MCMetadata == [name : {<<>>} \cup MCStems, source : {"x", "y"}]

Outside(ext, base, content) ==
  [ext |-> ext, base |-> base, dir |-> "", content |-> content, alias |-> FALSE]
Listed(dir, base, alias) ==
  [ext |-> "hex", base |-> base, dir |-> dir, content |-> "x", alias |-> alias]

MCInputs ==
  {Outside("hex", upperA, "x"), Outside("c", <<45, 49, 46, 33>>, "y"),
   Listed("user", a, TRUE)}
MCOptNames == {<<>>, doom}
(* The last two find nothing: "dom", for which the budgets of the code and *)
(* of its documentation differ, and "mode".                                *)
MCTyped == {upperA, doom, dom, <<109, 111, 100, 101>>}
MCSelections == {one, <<50>>, a}

Nothing == [d \in Dirs |-> [s \in Stems |-> NoFile]]
With(f, d, s, v) == [f EXCEPT ![d][s] = v]

(* In one directory a name that is also a number, in the other two files   *)
(* whose names differ in case, one of them cut off; or a program that its  *)
(* sidecar names like one of the other directory, found before it.         *)
MCFirstLibraries ==
  {[hex |-> With(With(Nothing, "exe", one, "y"), "user", upperA, "x"),
    meta |-> Nothing],
   [hex |-> With(With(With(Nothing, "exe", one, "x"), "user", a, "torn"), "user", one, "x"),
    meta |-> With(With(Nothing, "exe", one, [name |-> a, source |-> "x"]),
                  "user", one, [name |-> one, source |-> "x"])]}

Edit(dir, stem, h, m) == [dir |-> dir, stem |-> stem, hex |-> h, meta |-> m]
MCHandEdits ==
  {Edit("exe", a, "y", [name |-> doom, source |-> "y"]), Edit("user", one, NoFile, NoFile)}

=============================================================================
