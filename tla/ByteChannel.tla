---------------------------- MODULE ByteChannel ----------------------------
(***************************************************************************)
(* What the UART promises the host and the program: a first-in first-out   *)
(* channel that delivers each byte once.  A full channel makes room by     *)
(* losing one byte, and a reset may discard bytes; nothing else does.      *)
(***************************************************************************)
EXTENDS Naturals, Sequences, SequencesExt

CONSTANTS Bytes, Capacity

VARIABLES
  chan,   \* typed and not yet delivered
  got     \* delivered in this run

Init == chan = <<>> /\ got = <<>>

Send == \E c \in Bytes : chan' = Append(chan, c) /\ UNCHANGED got

SendFull ==
  /\ Len(chan) >= Capacity
  /\ \E c \in Bytes, k \in {1, 2} :
       k <= Len(chan) /\ chan' = Append(RemoveAt(chan, k), c)
  /\ UNCHANGED got

Receive ==
  /\ chan # <<>>
  /\ got' = Append(got, Head(chan))
  /\ chan' = Tail(chan)

(* Reset starts a new run and leaves at most one byte of the old one. *)
Discard == chan # <<>> /\ chan' = Tail(chan) /\ UNCHANGED got
Restart == got' = <<>> /\ Len(chan') <= 1 /\ IsPrefix(chan', chan)

Next == Send \/ SendFull \/ Receive \/ Discard \/ Restart

Spec == Init /\ [][Next]_<<chan, got>>
=============================================================================
