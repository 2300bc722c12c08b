----------------------------- MODULE ByteStream -----------------------------
(***************************************************************************)
(* What a byte buffer promises: bytes come out in the order in which they  *)
(* went in, each once, and room never changes what is held.  The n-th byte *)
(* that is written is n.                                                   *)
(***************************************************************************)
EXTENDS Integers, Sequences

VARIABLES
  bytes,    \* the bytes held, oldest first
  written   \* how many bytes have been written

vars == <<bytes, written>>

Init == bytes = <<>> /\ written = 0

Fresh(n) == [i \in 1 .. n |-> written + i]

Write ==
  /\ written' \in Nat /\ written' > written
  /\ bytes' = bytes \o Fresh(written' - written)

Read == \E n \in 1 .. Len(bytes) :
  /\ bytes' = SubSeq(bytes, n + 1, Len(bytes))
  /\ UNCHANGED written

Next == Write \/ Read

Spec == Init /\ [][Next]_vars
=============================================================================
