------------------------------- MODULE MCKeccak -------------------------------
\* Blocks to absorb: none, one bit at either end, one bit in every byte.
EXTENDS Keccak

Only(bytes) == [b \in 0..63 |-> IF b \in bytes THEN {b % 8} ELSE {}]
MCBlocks == {Only({}), Only({0}), Only({63}), Only(0..63)}
=============================================================================
