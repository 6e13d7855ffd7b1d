------------------------------ MODULE HealthCheck ------------------------------
(***************************************************************************)
(* The health checker of the userspace programs (software/healthcheck.c)   *)
(* with the loop that feeds it (extractBytes, libinfnoise.c).              *)
(*                                                                         *)
(* It differs from InfnoiseHealth, the monitor of the kernel, where the    *)
(* code does: thresholds are compared with ==, a fault resets the run, and *)
(* the verdict that gates the entropy level is that of the moment.         *)
(*                                                                         *)
(* currentProbability is a double that every call leaves in (1/2, 1].  Of  *)
(* a sample of probability q the loop makes the halvings d with            *)
(* q * 2^d > 1/2, one more when the mantissa is small; which of the two it *)
(* is, no decision sees, and the model leaves it open.                     *)
(***************************************************************************)
EXTENDS Integers, FiniteSets

CONSTANTS
    TableSize,      \* 2^N contexts
    MinData,        \* INM_MIN_DATA
    MinSampleSize,  \* INM_MIN_SAMPLE_SIZE
    MaxSequence,    \* INM_MAX_SEQUENCE
    MaxCount,       \* INM_MAX_COUNT
    MaxHalvings,    \* halvings one sample can make: 14
    Expected,       \* expectedEntropyPerBit, in units of 1 / Unit bits
    Unit,
    Accuracy,       \* INM_ACCURACY, in hundredths
    BlockBits,      \* samples of one extraction (BUFLEN)
    MaxBits         \* bound of the model: samples fed altogether

ASSUME CounterAssumption ==
    /\ TableSize \in Nat \ {0} /\ BlockBits \in Nat \ {0} /\ MaxBits \in Nat
    /\ MaxCount \in Nat /\ MaxCount >= 2
    /\ MinData \in Nat \ {0} /\ MinSampleSize \in Nat /\ MaxSequence \in Nat \ {0}
    /\ MinData \div 2 > MinSampleSize
ASSUME EntropyAssumption ==
    /\ Expected \in Nat /\ Unit \in Nat \ {0} /\ Accuracy \in Nat \ {0}
    /\ MaxHalvings \in Nat \ {0}
\* Two counters below MaxCount are never so far apart that a sample halves more often.
ASSUME HalvingAssumption ==
    \A d \in (MaxHalvings + 1)..(2 * MaxHalvings) :
        2^(d - 1) \in Nat /\ 2^(d - 1) >= MaxCount
\* Arithmetic that the provers, which know nothing of powers, are told.
ASSUME PowerAssumption ==
    \A d \in 0..(2 * MaxHalvings) : 2^d \in Nat \ {0} /\ 2^(d + 1) = 2 * 2^d

Bit     == {0, 1}
Context == 0..(TableSize - 1)

VARIABLES
    table,               \* table[even][context][bit]: onesEven, zerosEven, ...
    prevBits, prevBit,   \* context of the last sample, and that sample
    numBitsSampled,
    numBitsOfEntropy,
    entropyLevel,
    totalBits,
    total,               \* total[1] = totalOnes, total[0] = totalZeros
    seq,                 \* seq[1] = numSequentialOnes, seq[0] = numSequentialZeros
    pc,                  \* "idle" or "extract"
    n,                   \* samples of this extraction already fed
    verdict,             \* what the last inmHealthCheckAddBit returned
    \* history
    run,                 \* length of the run of equal samples that were counted
    skipped              \* a fault kept the totals from being halved

window == <<numBitsSampled, numBitsOfEntropy, entropyLevel>>
vars   == <<table, prevBits, prevBit, window, totalBits, total, seq, pc, n, verdict,
            run, skipped>>

-----------------------------------------------------------------------------
\* Definitions named ...Mutant are slips a change of the code could make.  No
\* specification uses them: putting one in the place of the definition it precedes
\* shows which property would notice.

Halved(t) == [e \in BOOLEAN |-> [c \in Context |-> [b \in Bit |-> t[e][c][b] \div 2]]]

CountedMutant(t, e, c, b) ==
    LET bumped == [t EXCEPT ![e][c][b] = @ + 1]
    IN  IF bumped[e][c][b] > MaxCount THEN Halved(bumped) ELSE bumped

\* The tables with one counter incremented, scaled when it comes to INM_MAX_COUNT.
Counted(t, e, c, b) ==
    LET bumped == [t EXCEPT ![e][c][b] = @ + 1]
    IN  IF bumped[e][c][b] = MaxCount THEN Halved(bumped) ELSE bumped

\* Halvings of the probability that a sample with these counters can make.
Halvings(cell, bit) ==
    LET all == cell[0] + cell[1]
    IN  IF cell[bit] = 0 THEN {0}
        ELSE {d \in 0..(2 * MaxHalvings) :
                 /\ 2^(d + 1) * cell[bit] > all
                 /\ d = 0 \/ 2^(d - 1) * cell[bit] < all}

\* inmHealthCheckOkToUseData; with nothing sampled the estimate is no number.
OkToUseData(bits, entropy, sampled) ==
    /\ bits >= MinData /\ sampled # 0
    /\ entropy * Unit * Accuracy >= Expected * sampled * 100
    /\ entropy * Unit * 100 <= Expected * sampled * Accuracy

Even == n % 2 = 1   \* extractBytes passes j & 1

\* Runs are looked for once the window is large enough.
Counting == numBitsSampled > MinSampleSize
Stuck(bit) == Counting /\ seq[bit] + 1 > MaxSequence

Init ==
    /\ table = [e \in BOOLEAN |-> [c \in Context |-> [b \in Bit |-> 0]]]
    /\ prevBits = 0 /\ prevBit = 0
    /\ numBitsSampled = 0 /\ numBitsOfEntropy = 0 /\ entropyLevel = 0
    /\ totalBits = 0 /\ total = [b \in Bit |-> 0] /\ seq = [b \in Bit |-> 0]
    /\ pc = "idle" /\ n = 0 /\ verdict = TRUE
    /\ run = 0 /\ skipped = FALSE

ExtractMutant ==
    /\ pc = "idle" /\ totalBits + BlockBits <= MaxBits
    /\ n' = 0 /\ pc' = "extract"
    /\ UNCHANGED <<table, prevBits, prevBit, window, totalBits, total, seq, verdict, run,
                   skipped>>

\* extractBytes begins: inmClearEntropyLevel.
Extract ==
    /\ pc = "idle" /\ totalBits + BlockBits <= MaxBits
    /\ entropyLevel' = 0
    /\ n' = 0 /\ pc' = "extract"
    /\ UNCHANGED <<table, prevBits, prevBit, numBitsSampled, numBitsOfEntropy, totalBits,
                   total, seq, verdict, run, skipped>>

\* What every call updates, whatever it returns.
Observe(bit) ==
    /\ prevBits' = (2 * prevBits + prevBit) % TableSize
    /\ prevBit' = bit
    /\ totalBits' = totalBits + 1
    /\ run' = IF ~Counting THEN 0 ELSE IF run > 0 /\ bit = prevBit THEN run + 1 ELSE 1

\* The totals with a sample that is counted.
Seen(bit) == IF Counting THEN [total EXCEPT ![bit] = @ + 1] ELSE total

\* scaleZeroOneCounts.
ScaledTotalsMutant(t) ==
    IF t[0] = MinData /\ t[1] = MinData THEN [b \in Bit |-> t[b] \div 2] ELSE t
ScaledTotals(t) ==
    IF (IF t[0] >= t[1] THEN t[0] ELSE t[1]) = MinData THEN [b \in Bit |-> t[b] \div 2] ELSE t

\* The run is too long: it starts again from zero, and nothing is scaled or learnt.
FaultMutant(bit) ==
    /\ pc = "extract" /\ Stuck(bit)
    /\ Observe(bit)
    /\ total' = Seen(bit)
    /\ seq' = [b \in Bit |-> IF b = bit THEN seq[b] + 1 ELSE 0]
    /\ skipped' = (skipped \/ total'[bit] >= MinData)
    /\ verdict' = FALSE /\ pc' = "idle"
    /\ UNCHANGED <<table, window, n>>

FaultWindowMutant(bit) ==
    /\ pc = "extract" /\ Stuck(bit)
    /\ Observe(bit)
    /\ total' = Seen(bit)
    /\ seq' = [b \in Bit |-> 0]
    /\ skipped' = (skipped \/ total'[bit] >= MinData)
    /\ verdict' = FALSE /\ pc' = "idle"
    /\ numBitsSampled' = numBitsSampled + 1
    /\ UNCHANGED <<table, numBitsOfEntropy, entropyLevel, n>>

Fault(bit) ==
    /\ pc = "extract" /\ Stuck(bit)
    /\ Observe(bit)
    /\ total' = Seen(bit)
    /\ seq' = [b \in Bit |-> 0]
    /\ skipped' = (skipped \/ total'[bit] >= MinData)
    /\ verdict' = FALSE /\ pc' = "idle"
    /\ UNCHANGED <<table, window, n>>

\* scaleEntropy: the window is full.
Full == numBitsSampled + 1 = MinData

\* The halvings are credited one by one, each under the verdict it brings about; then
\* tables, window and totals.
Learn(bit, d) ==
    /\ pc = "extract" /\ ~Stuck(bit)
    /\ Observe(bit)
    /\ d \in Halvings(table[Even][prevBits'], bit)
    /\ seq' = IF Counting THEN [b \in Bit |-> IF b = bit THEN seq[b] + 1 ELSE 0] ELSE seq
    /\ entropyLevel' = entropyLevel +
           Cardinality({i \in 1..d : OkToUseData(totalBits', numBitsOfEntropy + i, numBitsSampled)})
    /\ table' = Counted(table, Even, prevBits', bit)
    /\ numBitsSampled' = IF Full THEN MinData \div 2 ELSE numBitsSampled + 1
    /\ numBitsOfEntropy' = IF Full THEN (numBitsOfEntropy + d) \div 2 ELSE numBitsOfEntropy + d
    /\ total' = ScaledTotals(Seen(bit))
    /\ verdict' = TRUE /\ n' = n + 1
    /\ pc' = IF n + 1 = BlockBits THEN "idle" ELSE "extract"
    /\ UNCHANGED skipped

\* The bound of the model is reached: nothing more is fed.
Exhausted ==
    /\ pc = "idle" /\ totalBits + BlockBits > MaxBits
    /\ UNCHANGED vars

Next ==
    \/ Extract
    \/ \E bit \in Bit : Fault(bit)
    \/ \E bit \in Bit, d \in 0..(2 * MaxHalvings) : Learn(bit, d)
    \/ Exhausted

Spec == Init /\ [][Next]_vars

-----------------------------------------------------------------------------
\* Every variable has its type; the tables are left below INM_MAX_COUNT though the
\* test of lines 214-238 is for equality.
TypeOK ==
    /\ table \in [BOOLEAN -> [Context -> [Bit -> 0..(MaxCount - 1)]]]
    /\ prevBits \in Context /\ prevBit \in Bit
    /\ numBitsSampled \in Nat /\ numBitsOfEntropy \in Nat /\ entropyLevel \in Nat
    /\ totalBits \in Nat /\ total \in [Bit -> Nat] /\ seq \in [Bit -> 0..MaxSequence]
    /\ pc \in {"idle", "extract"} /\ n \in 0..BlockBits
    /\ verdict \in BOOLEAN /\ run \in Nat /\ skipped \in BOOLEAN

\* The window never passes INM_MIN_DATA, where the test for equality of line 121 would
\* miss it for good, and holds no more entropy than its samples can have given.
WindowFits ==
    /\ numBitsSampled < MinData
    /\ numBitsOfEntropy <= MaxHalvings * (numBitsSampled + 1)

\* A total is at INM_MIN_DATA or beyond, where line 133 no longer finds it, only when a
\* fault returned (line 174 or 183) on the sample that brought one there.
TotalsScaled == (\E b \in Bit : total[b] >= MinData) => skipped

\* In a run of equal samples a fault is reported at every multiple of
\* INM_MAX_SEQUENCE + 1 samples and nowhere else: a failure starts the count again
\* (lines 173, 182), over extractions as well.
FaultPeriod ==
    verdict = FALSE <=> \E q \in 1..run : run = q * (MaxSequence + 1)

\* The level of a block is no more than what its samples gave once INM_MIN_DATA of them
\* had been seen since the start: nothing is carried over from the block before, and
\* nothing is credited early (lines 208-210, 270-272).
CreditInBlock ==
    LET open == totalBits - MinData + 1
        here == IF verdict THEN n ELSE n + 1
    IN  entropyLevel <=
            MaxHalvings * (IF open <= 0 THEN 0 ELSE IF open <= here THEN open ELSE here)
=============================================================================
