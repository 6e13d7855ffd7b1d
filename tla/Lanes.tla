-------------------------------- MODULE Lanes --------------------------------
(***************************************************************************)
(* Words of 64 bits, the lanes of Keccak-f[1600], as the sets of the bits  *)
(* that are 1, and the operators of C on them.                             *)
(***************************************************************************)
EXTENDS Integers

Word == 0..63
Byte == 0..7

Xor(a, b) == (a \ b) \cup (b \ a)
Shl(a, k) == {b + k : b \in {c \in a : c + k <= 63}}
Shr(a, k) == {b - k : b \in {c \in a : c >= k}}

Parity(l, x) == Xor(Xor(Xor(Xor(l[x], l[x + 5]), l[x + 10]), l[x + 15]), l[x + 20])
=============================================================================
