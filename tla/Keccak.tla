-------------------------------- MODULE Keccak --------------------------------
(***************************************************************************)
(* The two sponges side by side, given the same data: the kernel's on a    *)
(* big-endian machine, that of the userspace programs on a little-endian   *)
(* one.  A permutation takes its 24 rounds one step of a round at a time,  *)
(* in the order of both permutation loops.                                 *)
(***************************************************************************)
EXTENDS KeccakKernel

CONSTANTS
    Blocks,     \* blocks of 64 bytes to absorb
    MaxCalls    \* bound of the model: absorptions and extractions

ASSUME BlockAssumption == Blocks \subseteq [0..63 -> SUBSET Byte]

Ref == INSTANCE KeccakReference

BlockLanes == 8   \* INFNOISE_BUFLEN / 64

VARIABLES
    kernel, user,     \* the states, in bytes
    words, uwords,    \* the lanes while they are permuted
    KeccakRoundConstants, LFSRstate,   \* of the userspace program
    pc,               \* "init", "idle", "extracted" or the next step of a round
    round,
    calls,
    out, uout,        \* what the last extraction returned
    \* history
    zero              \* nothing but zeros were absorbed

tables == <<KeccakRoundConstants, LFSRstate>>
vars   == <<kernel, user, words, uwords, tables, pc, round, calls, out, uout, zero>>

Init ==
    /\ kernel = infnoise_keccak_init /\ user = Ref!KeccakInitializeState
    /\ words = keccak_bytes_to_words(kernel) /\ uwords = Ref!Words(user)
    /\ KeccakRoundConstants = [i \in 0..(Ref!nrRounds - 1) |-> {}] /\ LFSRstate = {0}
    /\ pc = "init" /\ round = 0 /\ calls = 0
    /\ out = infnoise_keccak_extract(kernel, 0) /\ uout = Ref!KeccakExtract(user, 0)
    /\ zero = TRUE

\* KeccakInitialize, one round constant at a time.
InitializeRound ==
    /\ pc = "init"
    /\ KeccakRoundConstants' = [KeccakRoundConstants EXCEPT ![round] = Ref!RoundConstant(LFSRstate)]
    /\ LFSRstate' = Ref!Called(LFSRstate, 7)
    /\ IF round + 1 < Ref!nrRounds
       THEN round' = round + 1 /\ pc' = "init"
       ELSE round' = 0 /\ pc' = "idle"
    /\ UNCHANGED <<kernel, user, words, uwords, calls, out, uout, zero>>

\* A permutation begins.
Permute(k, u) ==
    /\ kernel' = k /\ user' = u
    /\ words' = keccak_bytes_to_words(k) /\ uwords' = Ref!Words(u)
    /\ round' = 0 /\ pc' = "theta"

Absorb(data) ==
    /\ pc = "idle" /\ calls < MaxCalls /\ calls' = calls + 1
    /\ Permute(absorbed(kernel, data, BlockLanes), Ref!AfterXor(user, data, 8 * BlockLanes))
    /\ zero' = (zero /\ \A b \in DOMAIN data : data[b] = {})
    /\ UNCHANGED <<tables, out, uout>>

Extract(lanes) ==
    /\ pc = "idle" /\ calls < MaxCalls /\ calls' = calls + 1
    /\ out' = infnoise_keccak_extract(kernel, lanes)
    /\ uout' = Ref!KeccakExtract(user, lanes)
    /\ pc' = "extracted"
    /\ UNCHANGED <<kernel, user, words, uwords, tables, round, zero>>

\* Both callers permute once they extracted a chunk.
Squeezed ==
    /\ pc = "extracted" /\ Permute(kernel, user)
    /\ UNCHANGED <<tables, calls, out, uout, zero>>

Round(step, next, k, u) ==
    /\ pc = step /\ pc' = next
    /\ words' = k /\ uwords' = u
    /\ UNCHANGED <<kernel, user, tables, round, calls, out, uout, zero>>

Iota ==
    /\ pc = "iota"
    /\ words' = keccak_iota(words, round) /\ uwords' = Ref!iota(uwords, KeccakRoundConstants, round)
    /\ IF round + 1 < Ref!nrRounds
       THEN pc' = "theta" /\ round' = round + 1 /\ UNCHANGED <<kernel, user>>
       ELSE /\ pc' = "idle" /\ round' = 0
            /\ kernel' = keccak_words_to_bytes(words') /\ user' = Ref!Bytes(uwords')
    /\ UNCHANGED <<tables, calls, out, uout, zero>>

Done == pc = "idle" /\ calls = MaxCalls /\ UNCHANGED vars

Next ==
    \/ InitializeRound
    \/ \E data \in Blocks : Absorb(data)
    \/ \E lanes \in {1, 16} : Extract(lanes)
    \/ Squeezed
    \/ Round("theta", "rho", keccak_theta(words), Ref!theta(uwords))
    \/ Round("rho", "pi", keccak_rho(words), Ref!rho(uwords))
    \/ Round("pi", "chi", keccak_pi(words), Ref!pi(uwords))
    \/ Round("chi", "iota", keccak_chi(words), Ref!chi(uwords))
    \/ Iota
    \/ Done

Spec == Init /\ [][Next]_vars

-----------------------------------------------------------------------------
\* After every step of every round the two sponges hold the same lanes, and the same
\* bytes between permutations, and return the same: the constants of
\* infnoise_keccak.c:20-43 are those the reference computes, and the conversions of
\* lines 141-159 are a little-endian machine's view.
SameSponge == words = uwords /\ kernel = user /\ out = uout

\* The permutation is Keccak-f[1600]: of a state of zeros it makes the one whose first
\* lane is F1258F7940E1DDE7, as the designers of Keccak publish it.
FirstOfZeros ==
    {0, 1, 2, 5, 6, 7, 8, 10, 11, 12, 14, 15, 16, 21, 22, 23, 30, 32, 35, 36, 37,
     38, 40, 41, 42, 43, 47, 48, 50, 53, 56, 60, 61, 62, 63}
IsKeccak == pc = "idle" /\ calls = 1 /\ zero => words[0] = FirstOfZeros
=============================================================================
