-------------------------------- MODULE Words --------------------------------
(***************************************************************************)
(* Machine words: numbers below WordBase, read as they are or as signed.   *)
(***************************************************************************)
EXTENDS Integers

CONSTANT WordBase   \* number of values of a machine word

\* Room for the cause codes below the top bit, and whole bytes and words.
ASSUME WordBaseAssumption ==
  WordBase \in Nat /\ WordBase >= 32 /\ WordBase % 4 = 0

Word == 0 .. WordBase - 1

(* The low bits of a number, and the number a word is in two's complement. *)
Wrap(n) == n % WordBase
Signed(w) == IF w < WordBase \div 2 THEN w ELSE w - WordBase
=============================================================================
