----------------------------- MODULE KeccakKernel -----------------------------
(***************************************************************************)
(* The permutation and the sponge of the kernel driver                     *)
(* (kernel/infnoise_keccak.c): tables that were computed beforehand, and   *)
(* the conversions a big-endian machine needs.  A state is 200 bytes, or   *)
(* 25 lanes while it is permuted.                                          *)
(***************************************************************************)
EXTENDS Lanes, Sequences

keccak_round_constants == <<
    {0}, {1, 7, 15}, {1, 3, 7, 15, 63},
    {15, 31, 63}, {0, 1, 3, 7, 15}, {0, 31},
    {0, 7, 15, 31, 63}, {0, 3, 15, 63}, {1, 3, 7},
    {3, 7}, {0, 3, 15, 31}, {1, 3, 31},
    {0, 1, 3, 7, 15, 31}, {0, 1, 3, 7, 63}, {0, 3, 7, 15, 63},
    {0, 1, 15, 63}, {1, 15, 63}, {7, 63},
    {1, 3, 15}, {1, 3, 31, 63}, {0, 7, 15, 31, 63},
    {7, 15, 63}, {0, 31}, {3, 15, 31, 63}>>

keccak_rho_offsets == <<
     0,  1, 62, 28, 27,
    36, 44,  6, 55, 20,
     3, 10, 43, 25, 39,
    41, 45, 15, 21,  8,
    18,  2, 61, 56, 14>>

Lane == 0..24
KECCAK_STATE_SIZE == 200

\* KECCAK_INDEX, and the coordinates it came from.
At(x, y) == (x % 5) + 5 * (y % 5)
X(i) == i % 5
Y(i) == i \div 5

\* keccak_rol64; without the test for 0 the right shift would be one by 64.
rol64(a, n) ==
    IF n % 64 = 0 THEN a ELSE Shl(a, n % 64) \cup Shr(a, 64 - (n % 64))

-----------------------------------------------------------------------------
\* Definitions named ...Mutant are slips a change of the code could make.  No
\* specification uses them: putting one in the place of the definition it precedes
\* shows which property would notice.

keccak_theta(s) ==
    LET c == [x \in 0..4 |-> Parity(s, x)]
        d == [x \in 0..4 |-> Xor(rol64(c[(x + 1) % 5], 1), c[(x + 4) % 5])]
    IN  [i \in Lane |-> Xor(s[i], d[X(i)])]

keccak_rhoMutant(s) == [i \in Lane |-> rol64(s[i], keccak_rho_offsets[(i % 24) + 1])]
keccak_rho(s) == [i \in Lane |-> rol64(s[i], keccak_rho_offsets[i + 1])]

\* Lane (x, y) moves to (y, 2x + 3y).
keccak_pi(s) ==
    [i \in Lane |-> s[CHOOSE j \in Lane : At(Y(j), 2 * X(j) + 3 * Y(j)) = i]]

keccak_chi(s) ==
    [i \in Lane |-> Xor(s[i], s[At(X(i) + 2, Y(i))] \ s[At(X(i) + 1, Y(i))])]

keccak_iotaMutant(s, round) ==
    [s EXCEPT ![0] = Xor(@, keccak_round_constants[(round % 23) + 1])]
keccak_iota(s, round) == [s EXCEPT ![0] = Xor(@, keccak_round_constants[round + 1])]

\* The conversions of a big-endian machine.
keccak_bytes_to_words(bytes) ==
    [i \in Lane |-> UNION {Shl(bytes[i * 8 + j], 8 * j) : j \in 0..7}]
keccak_words_to_bytes(words) ==
    [b \in 0..(KECCAK_STATE_SIZE - 1) |-> Shr(words[b \div 8], 8 * (b % 8)) \cap Byte]

infnoise_keccak_init == [b \in 0..(KECCAK_STATE_SIZE - 1) |-> {}]

\* The data that infnoise_keccak_absorb adds before it permutes: never beyond the state.
absorbed(bytes, data, lanes) ==
    [b \in DOMAIN bytes |-> IF b < lanes * 8 THEN Xor(bytes[b], data[b]) ELSE bytes[b]]

\* infnoise_keccak_extract, cut at the size of the state.
infnoise_keccak_extract(bytes, lanes) ==
    [b \in {k \in DOMAIN bytes : k < lanes * 8} |-> bytes[b]]
=============================================================================
