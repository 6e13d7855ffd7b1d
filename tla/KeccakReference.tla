--------------------------- MODULE KeccakReference ---------------------------
(***************************************************************************)
(* The permutation and the sponge of the userspace programs                *)
(* (Keccak/KeccakF-1600-reference.c), which computes its tables when       *)
(* KeccakInitialize is called, on a little-endian machine.                 *)
(***************************************************************************)
EXTENDS Lanes

nrRounds == 24
nrLanes  == 25

index(x, y) == (x % 5) + 5 * (y % 5)

ROL64(a, offset) == IF offset = 0 THEN a ELSE Xor(Shl(a, offset), Shr(a, 64 - offset))

-----------------------------------------------------------------------------
\* LFSR86540: a byte shifted left; the bit that falls out adds 0x71.
Shifted(lfsr) ==
    IF 7 \in lfsr THEN Xor(Shl(lfsr, 1) \cap Byte, {0, 4, 5, 6}) ELSE Shl(lfsr, 1)

\* The register after j calls.
Called(lfsr, j) ==
    LET state[h \in 0..7] == IF h = 0 THEN lfsr ELSE Shifted(state[h - 1])
    IN  state[j]

\* One round of KeccakInitializeRoundConstants: seven calls, for the bits 2^j - 1.
RoundConstant(lfsr) == {2^j - 1 : j \in {h \in 0..6 : 0 \in Called(lfsr, h)}}

\* KeccakInitializeRhoOffsets: a walk over the lanes, from (1, 0).
Onward(p) == <<p[2], (2 * p[1] + 3 * p[2]) % 5>>
Walk[t \in 0..23] == IF t = 0 THEN <<1, 0>> ELSE Onward(Walk[t - 1])
Visits(t, i) == LET p == Walk[t] IN index(p[1], p[2]) = i

KeccakRhoOffsets ==
    [i \in 0..(nrLanes - 1) |->
        IF i = 0 THEN 0
        ELSE LET t == CHOOSE k \in 0..23 : Visits(k, i)
             IN  (((t + 1) * (t + 2)) \div 2) % 64]

-----------------------------------------------------------------------------
theta(A) ==
    LET C == [x \in 0..4 |-> Parity(A, x)]
        D == [x \in 0..4 |-> Xor(ROL64(C[(x + 1) % 5], 1), C[(x + 4) % 5])]
    IN  [i \in DOMAIN A |-> Xor(A[i], D[i % 5])]

rho(A) == [i \in DOMAIN A |-> ROL64(A[i], KeccakRhoOffsets[i])]

pi(A) ==
    LET from(i) == CHOOSE p \in (0..4) \X (0..4) : index(p[2], 2 * p[1] + 3 * p[2]) = i
    IN  [i \in DOMAIN A |-> A[index(from(i)[1], from(i)[2])]]

chi(A) ==
    [i \in DOMAIN A |->
        LET y == i \div 5
        IN  Xor(A[i], (Word \ A[index(i + 1, y)]) \cap A[index(i + 2, y)])]

iota(A, constants, indexRound) == [A EXCEPT ![0] = Xor(@, constants[indexRound])]

\* What the cast of the bytes to UINT64 reads, and what is in the bytes after it wrote.
Words(state) ==
    [i \in 0..(nrLanes - 1) |->
        UNION {{8 * j + k : k \in state[8 * i + j]} : j \in 0..7}]
Bytes(A) == [b \in 0..199 |-> {k \in Byte : 8 * (b % 8) + k \in A[b \div 8]}]

KeccakInitializeState == [b \in 0..199 |-> {}]

\* The data KeccakPermutationAfterXor adds before it permutes.
AfterXor(state, data, dataLengthInBytes) ==
    [b \in DOMAIN state |->
        IF b < dataLengthInBytes THEN Xor(state[b], data[b]) ELSE state[b]]

KeccakExtract(state, laneCount) == [b \in 0..(laneCount * 8 - 1) |-> state[b]]
=============================================================================
