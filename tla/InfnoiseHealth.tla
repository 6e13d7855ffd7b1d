--------------------------- MODULE InfnoiseHealth ---------------------------
(***************************************************************************)
(* The health monitor of the kernel driver (kernel/infnoise_health.c) with *)
(* the loop that feeds it (infnoise_extract_bytes, infnoise_main.c).       *)
(*                                                                         *)
(* One extraction clears the entropy counter and hands BlockBits samples,  *)
(* of alternating phase, to infnoise_health_add_bit.  add_bit is cut into  *)
(* steps only at its while loop: AddBit (everything before the loop),      *)
(* DoubleProb (one iteration of the loop), FinishBit (everything after     *)
(* it).  The device mutex is held throughout, so nothing comes between.    *)
(*                                                                         *)
(* The misfire counters are left out: they are only reported.              *)
(***************************************************************************)
EXTENDS Integers

CONSTANTS
    FpOne,            \* 1.0 in fixed point
    MaxDoublings,     \* FP_SHIFT: bits of entropy one sample can add
    TableSize,        \* number of prediction contexts
    MinData,          \* INM_MIN_DATA
    MinSampleSize,    \* INM_MIN_SAMPLE_SIZE
    MaxSequence,      \* INM_MAX_SEQUENCE
    MaxCount,         \* INM_MAX_COUNT
    ExpectedEntropy,  \* INM_EXPECTED_ENTROPY_FP
    Accuracy,         \* INM_ACCURACY_FP
    BlockBits,        \* samples in one extraction (INFNOISE_BUFLEN)
    MaxBits           \* bound of the model: samples fed altogether

\* What infnoise.h gives: FP_ONE = 2^16, INM_MAX_COUNT = 2^14 and so on.  The
\* third conjunct of FpAssumption is the one the estimator stands on.
ASSUME FpAssumption ==
    /\ FpOne \in Nat /\ FpOne >= 2
    /\ MaxCount \in Nat /\ MaxCount >= 2
    /\ 4 * (MaxCount - 1) <= FpOne
\* FP_ONE is 1 << FP_SHIFT, and the window of samples is halved without a rest.
ASSUME ShiftAssumption ==
    /\ MaxDoublings \in Nat /\ 2^MaxDoublings = FpOne
    /\ 2^0 = 1 /\ \A i \in 1..MaxDoublings : 2^i \in Nat /\ 2^i = 2 * 2^(i - 1)
    /\ MinData % 2 = 0
ASSUME SizeAssumption ==
    /\ TableSize \in Nat \ {0}
    /\ BlockBits \in Nat \ {0}
    /\ MinData \in Nat \ {0}
    /\ MinSampleSize \in Nat
    /\ MaxSequence \in Nat \ {0}
    /\ ExpectedEntropy \in Nat /\ Accuracy \in Nat \ {0}
    /\ MaxBits \in Nat

Bit     == {0, 1}
Context == 0..(TableSize - 1)
FpHalf  == FpOne \div 2

fp_mul(a, b) == (a * b) \div FpOne
fp_div(a, b) == IF b = 0 THEN FpOne ELSE (a * FpOne) \div b

VARIABLES
    table,                \* table[even][context][bit]: ones_even, zeros_even, ...
    prev_bits,            \* context of the last sample
    prev_bit,             \* the last sample
    num_bits_sampled,
    num_bits_of_entropy,
    entropy_level,        \* entropy credited to the current extraction
    total_bits,
    total,                \* total[1] = total_ones, total[0] = total_zeros
    seq,                  \* seq[1] = seq_ones, seq[0] = seq_zeros
    current_prob,
    ok_to_use,
    pc,                   \* "idle", "extract" (between two samples) or "double"
    n,                    \* samples of this extraction already accounted for
    verdict,              \* what the last add_bit returned
    recent                \* history: the last MaxSequence+1 counted samples

health == <<prev_bits, prev_bit, num_bits_sampled, num_bits_of_entropy,
            entropy_level, total_bits, total, seq, current_prob, ok_to_use>>
vars   == <<table, health, pc, n, verdict, recent>>

NoBit == 2
Recent == 1..(MaxSequence + 1)

-----------------------------------------------------------------------------
\* Definitions named ...Mutant are slips a change of the code could make.  No
\* specification uses them: putting one in the place of the definition it precedes
\* shows which property would notice.

\* scale_stats: every counter of every table.
Halved(t) == [x \in BOOLEAN |-> [y \in Context |-> [z \in Bit |-> t[x][y][z] \div 2]]]

CountedLateMutant(t, e, c, b) ==
    LET bumped == [t EXCEPT ![e][c][b] = @ + 1]
    IN  IF bumped[e][c][b] > MaxCount
        THEN Halved(bumped)
        ELSE bumped
CountedForeverMutant(t, e, c, b) == [t EXCEPT ![e][c][b] = @ + 1]

\* The value of one table after its counter (e, c, b) was incremented; every
\* counter is halved once that one reaches INM_MAX_COUNT.
Counted(t, e, c, b) ==
    LET bumped == [t EXCEPT ![e][c][b] = @ + 1]
    IN  IF bumped[e][c][b] >= MaxCount
        THEN Halved(bumped)
        ELSE bumped

\* Entropy per bit, and the verdict over it.
EstimatePerBit(entropy, sampled) == IF sampled = 0 THEN 0 ELSE fp_div(entropy, sampled)

HealthOkMutant(bits, entropy, sampled) ==
    /\ EstimatePerBit(entropy, sampled) >= fp_div(ExpectedEntropy, Accuracy)
    /\ EstimatePerBit(entropy, sampled) <= fp_mul(ExpectedEntropy, Accuracy)

HealthOk(bits, entropy, sampled) ==
    /\ bits >= MinData
    /\ EstimatePerBit(entropy, sampled) >= fp_div(ExpectedEntropy, Accuracy)
    /\ EstimatePerBit(entropy, sampled) <= fp_mul(ExpectedEntropy, Accuracy)

\* The phase of sample n: the caller passes "j & 1".
Even == n % 2 = 1

\* Faults are looked for once enough samples are in the window.
Counting == num_bits_sampled > MinSampleSize
Stuck(bit) == Counting /\ seq[bit] + 1 > MaxSequence

\* The run counters after a counted sample: one grows, the other starts again.
RunMutant(bit) == [seq EXCEPT ![bit] = @ + 1]
Run(bit) == [b \in Bit |-> IF b = bit THEN seq[b] + 1 ELSE 0]

\* The probability after a sample, given the counters of its context.
Predicted(cell, bit) ==
    IF cell[bit] > 0
    THEN fp_mul(current_prob, fp_div(cell[bit], cell[0] + cell[1]))
    ELSE current_prob

Init ==
    /\ table = [e \in BOOLEAN |-> [c \in Context |-> [b \in Bit |-> 0]]]
    /\ prev_bits = 0 /\ prev_bit = 0
    /\ num_bits_sampled = 0 /\ num_bits_of_entropy = 0 /\ entropy_level = 0
    /\ total_bits = 0
    /\ total = [b \in Bit |-> 0] /\ seq = [b \in Bit |-> 0]
    /\ current_prob = FpOne
    /\ ok_to_use = FALSE
    /\ pc = "idle" /\ n = 0 /\ verdict = TRUE
    /\ recent = [k \in Recent |-> NoBit]

StartExtractMutant ==
    /\ pc = "idle"
    /\ total_bits + BlockBits <= MaxBits
    /\ entropy_level' = 0
    /\ pc' = "extract"
    /\ UNCHANGED <<table, prev_bits, prev_bit, num_bits_sampled,
                   num_bits_of_entropy, total_bits, total, seq, current_prob,
                   ok_to_use, n, verdict, recent>>

\* infnoise_extract_bytes begins: the entropy of the last block is forgotten.
StartExtract ==
    /\ pc = "idle"
    /\ total_bits + BlockBits <= MaxBits
    /\ entropy_level' = 0
    /\ n' = 0
    /\ pc' = "extract"
    /\ UNCHANGED <<table, prev_bits, prev_bit, num_bits_sampled,
                   num_bits_of_entropy, total_bits, total, seq, current_prob,
                   ok_to_use, verdict, recent>>

\* The counters every call updates, whatever it returns.
Observe(bit) ==
    /\ prev_bits' = (2 * prev_bits + prev_bit) % TableSize
    /\ prev_bit' = bit
    /\ total_bits' = total_bits + 1
    /\ total' = IF Counting THEN [total EXCEPT ![bit] = @ + 1] ELSE total
    /\ seq' = IF Counting THEN Run(bit) ELSE seq
    /\ recent' = IF Counting
                 THEN [k \in Recent |-> IF k <= MaxSequence THEN recent[k + 1] ELSE bit]
                 ELSE recent
    /\ UNCHANGED <<num_bits_sampled, num_bits_of_entropy, entropy_level, ok_to_use, table>>

\* A run of equal bits: add_bit returns false and the extraction is over.
AddBitStuck(bit) ==
    /\ pc = "extract" /\ Stuck(bit)
    /\ Observe(bit)
    /\ verdict' = FALSE
    /\ pc' = "idle"
    /\ UNCHANGED <<n, current_prob>>

AddBit(bit) ==
    /\ pc = "extract" /\ ~Stuck(bit)
    /\ Observe(bit)
    /\ verdict' = TRUE
    /\ current_prob' = Predicted(table[Even][prev_bits'], bit)
    /\ pc' = "double"
    /\ UNCHANGED n

\* One iteration of the loop that turns halvings into bits of entropy.
DoubleProb ==
    /\ pc = "double" /\ current_prob <= FpHalf
    /\ current_prob' = 2 * current_prob
    /\ num_bits_of_entropy' = num_bits_of_entropy + 1
    /\ entropy_level' = IF ok_to_use THEN entropy_level + 1 ELSE entropy_level
    /\ UNCHANGED <<table, prev_bits, prev_bit, num_bits_sampled, total_bits, total,
                   seq, ok_to_use, pc, n, verdict, recent>>

\* The window of the estimate is full: samples and entropy are both halved.
Full == num_bits_sampled + 1 >= MinData
ScaledEntropyMutant == num_bits_of_entropy
ScaledEntropy == IF Full THEN num_bits_of_entropy \div 2 ELSE num_bits_of_entropy

\* The counts of ones and zeros are halved together, on a threshold of their own.
ScaledTotals == IF total[0] >= MinData \/ total[1] >= MinData
                THEN [b \in Bit |-> total[b] \div 2] ELSE total

\* After the loop: tables, scaling, verdict; the caller then takes the next
\* sample or returns.
FinishBit ==
    /\ pc = "double" /\ current_prob > FpHalf
    /\ table' = Counted(table, Even, prev_bits, prev_bit)
    /\ num_bits_sampled' = IF Full THEN (num_bits_sampled + 1) \div 2 ELSE num_bits_sampled + 1
    /\ num_bits_of_entropy' = ScaledEntropy
    /\ total' = ScaledTotals
    /\ ok_to_use' = HealthOk(total_bits, num_bits_of_entropy', num_bits_sampled')
    /\ n' = n + 1
    /\ pc' = IF n + 1 = BlockBits THEN "idle" ELSE "extract"
    /\ UNCHANGED <<prev_bits, prev_bit, entropy_level, total_bits, seq,
                   current_prob, verdict, recent>>

\* The bound of the model is reached: nothing more is fed.
Exhausted ==
    /\ pc = "idle" /\ total_bits + BlockBits > MaxBits
    /\ UNCHANGED vars

Next ==
    \/ StartExtract
    \/ \E bit \in Bit : AddBitStuck(bit)
    \/ \E bit \in Bit : AddBit(bit)
    \/ DoubleProb
    \/ FinishBit
    \/ Exhausted

Spec == Init /\ [][Next]_vars

-----------------------------------------------------------------------------
\* Every variable has its type; an index into the tables is within them.
TypeOK ==
    /\ table \in [BOOLEAN -> [Context -> [Bit -> Nat]]]
    /\ prev_bits \in Context /\ prev_bit \in Bit
    /\ num_bits_sampled \in Nat /\ num_bits_of_entropy \in Nat /\ entropy_level \in Nat
    /\ total_bits \in Nat
    /\ total \in [Bit -> Nat] /\ seq \in [Bit -> Nat]
    /\ current_prob \in Nat
    /\ ok_to_use \in BOOLEAN /\ verdict \in BOOLEAN
    /\ pc \in {"idle", "extract", "double"}
    /\ n \in 0..BlockBits
    /\ recent \in [Recent -> Bit \cup {NoBit}]

\* No table counter is left at INM_MAX_COUNT or above, whichever path added to
\* it (scale_stats, infnoise_health.c:265-286).
TableCapped ==
    \A e \in BOOLEAN, c \in Context, b \in Bit : table[e][c][b] < MaxCount

\* The running probability never truncates to zero: at zero the loop of
\* infnoise_health.c:255 would double zero forever with the mutex held.  It is
\* back in (1/2, 1] whenever add_bit has returned.
ProbPositive ==
    /\ current_prob \in 1..FpOne
    /\ pc # "double" => current_prob > FpHalf

\* The estimate never leaves what its fixed point can hold: the window counts
\* at most FP_SHIFT bits of entropy for each sample in it, before and after both
\* are halved (infnoise_health.c:135-143, 303-309), so that its product with
\* FP_ONE fits 64 bits for as long as the program runs.
EstimateFits ==
    num_bits_of_entropy <= MaxDoublings * (num_bits_sampled + (IF pc = "double" THEN 1 ELSE 0))

\* No entropy is credited before INM_MIN_DATA samples were seen by the monitor
\* (ok_to_use gates infnoise_health.c:259, one call late).
NoEarlyCredit == entropy_level > 0 => total_bits > MinData

\* add_bit reports a fault exactly when the last MaxSequence+1 counted samples
\* are equal, over failed calls and extraction boundaries alike: the run
\* counters are never reset by a failure in the kernel.
StuckIffRun ==
    verdict = FALSE <=> \E b \in Bit : \A k \in Recent : recent[k] = b

\* Every iteration of the doubling loop raises the probability, which FpOne
\* bounds: the loop of infnoise_health.c:255-261 ends.
DoublingProgress ==
    [][pc = "double" /\ pc' = "double" =>
            current_prob' > current_prob /\ current_prob' <= FpOne]_vars
=============================================================================
