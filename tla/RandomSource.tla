----------------------------- MODULE RandomSource -----------------------------
(***************************************************************************)
(* What a source of whitened bytes promises its readers, whichever program *)
(* it is: infnoise_read_data of the kernel driver or readData of the       *)
(* library.  A block of samples that passed the monitor reseeds the sponge *)
(* and buys a budget of bytes; the budget is handed out completely before  *)
(* the next block is taken, never more than ChunkMax bytes of one sponge   *)
(* state, and no state is handed out twice.                                *)
(***************************************************************************)
EXTENDS Integers

CONSTANTS
    ChunkMax,   \* bytes of one sponge state a reader may see
    Budgets     \* bytes a block can buy

VARIABLES
    budget,     \* bytes the last block bought
    issued,     \* bytes of that budget handed out
    returned,   \* bytes the last read handed out, raw samples excepted
    shown       \* the state of the sponge was handed out

source == <<budget, issued, returned, shown>>

Init == budget = 0 /\ issued = 0 /\ returned = 0 /\ shown = FALSE

\* A block reseeds the sponge; the read that collected it returns the first bytes.
Reseed ==
    /\ issued = budget
    /\ budget' \in Budgets
    /\ returned' \in 0..ChunkMax
    /\ issued' = returned' /\ issued' <= budget'
    /\ shown' \in BOOLEAN

\* More bytes of the budget, from a state no reader has seen.
Issue ==
    /\ ~shown
    /\ returned' \in 0..ChunkMax
    /\ issued' = issued + returned' /\ issued' <= budget
    /\ shown' \in BOOLEAN
    /\ UNCHANGED budget

\* A read that returns no whitened byte.
Nothing ==
    /\ returned' = 0
    /\ UNCHANGED <<budget, issued, shown>>

Next == Reseed \/ Issue \/ Nothing

Spec == Init /\ [][Next]_source
=============================================================================
