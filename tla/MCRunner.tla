------------------------------ MODULE MCRunner ------------------------------
(* Runner with a keyboard that has one key of each kind the code tells     *)
(* apart ("q" and "r" are final bytes, "1" is not) and one arrow key.      *)
EXTENDS Runner

ArrowUp == {<<"[", "A">>}

=============================================================================
