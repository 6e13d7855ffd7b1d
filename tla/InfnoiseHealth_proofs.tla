------------------------ MODULE InfnoiseHealth_proofs ------------------------
(***************************************************************************)
(* Proofs about the health monitor, for every table size, fixed point and  *)
(* threshold the assumptions allow.                                        *)
(***************************************************************************)
EXTENDS InfnoiseHealth, TLAPS

\* What integer division gives, for any positive divisor.
LEMMA DivProp ==
    ASSUME NEW a \in Nat, NEW d \in Nat, d > 0
    PROVE  /\ a \div d \in Nat
           /\ d * (a \div d) <= a
           /\ a < d * (a \div d) + d
  OBVIOUS

\* A remainder is below the divisor.
LEMMA ModProp ==
    ASSUME NEW a \in Nat, NEW d \in Nat, d > 0
    PROVE  a % d \in 0..(d - 1)
  OBVIOUS

\* Division is at least q when q divisors fit.
LEMMA DivAtLeast ==
    ASSUME NEW a \in Nat, NEW d \in Nat, d > 0, NEW q \in Nat, q * d <= a
    PROVE  a \div d >= q
  <1> DEFINE r == a \div d
  <1>1. r \in Nat /\ a < d * r + d
    BY DivProp
  <1>2. SUFFICES ASSUME r + 1 <= q PROVE FALSE
    BY <1>1
  <1>3. (r + 1) * d <= q * d
    BY <1>1, <1>2
  <1>4. QED
    BY <1>1, <1>3

\* Division is at most q when the dividend is at most q divisors.
LEMMA DivAtMost ==
    ASSUME NEW a \in Nat, NEW d \in Nat, d > 0, NEW q \in Nat, a <= q * d
    PROVE  a \div d <= q
  <1> DEFINE r == a \div d
  <1>1. r \in Nat /\ d * r <= a
    BY DivProp
  <1>2. SUFFICES ASSUME q + 1 <= r PROVE FALSE
    BY <1>1
  <1>3. d * (q + 1) <= d * r
    BY <1>1, <1>2
  <1>4. QED
    BY <1>1, <1>3

\* Half of a number that is at most m lies below m.
LEMMA HalfBelow ==
    ASSUME NEW a \in Nat, NEW m \in Nat, m >= 2, a <= m
    PROVE  a \div 2 \in Nat /\ a \div 2 < m
  OBVIOUS

-----------------------------------------------------------------------------
\* The frequency of a counted outcome is at least two units of the fixed point
\* while its context holds fewer than MaxCount of either outcome.
LEMMA FreqBounds ==
    ASSUME NEW hit \in Nat, NEW miss \in Nat,
           hit > 0, hit < MaxCount, miss < MaxCount
    PROVE  fp_div(hit, hit + miss) \in 2..FpOne
  <1> DEFINE sum == hit + miss
  <1> USE FpAssumption
  <1>1. sum \in Nat /\ sum > 0 /\ 2 * sum <= FpOne /\ hit <= sum
    OBVIOUS
  <1>2. hit * FpOne \in Nat /\ FpOne <= hit * FpOne
    OBVIOUS
  <1>3. hit * FpOne <= FpOne * sum
    BY <1>1
  <1>4. (hit * FpOne) \div sum >= 2
    BY <1>1, <1>2, DivAtLeast
  <1>5. (hit * FpOne) \div sum <= FpOne
    BY <1>1, <1>2, <1>3, DivAtMost
  <1>6. (hit * FpOne) \div sum \in Nat
    BY <1>1, <1>2, DivProp
  <1>7. QED
    BY <1>1, <1>4, <1>5, <1>6 DEF fp_div

\* FpHalf is half of FpOne, rounded down.
LEMMA HalfProp == FpHalf \in Nat /\ FpHalf >= 1 /\ 2 * FpHalf <= FpOne /\ FpOne <= 2 * FpHalf + 1
  BY FpAssumption DEF FpHalf

\* A probability above one half, multiplied by such a frequency, keeps a digit.
LEMMA ProductPositive ==
    ASSUME NEW p \in 1..FpOne, p > FpHalf, NEW f \in 2..FpOne
    PROVE  fp_mul(p, f) \in 1..FpOne
  <1> USE FpAssumption
  <1>1. p * f \in Nat
    OBVIOUS
  <1>2. 2 * p >= FpOne
    BY HalfProp
  <1>3. p * f >= 2 * p
    OBVIOUS
  <1>4. p * f <= FpOne * FpOne
    OBVIOUS
  <1>5. (p * f) \div FpOne >= 1
    BY <1>1, <1>2, <1>3, DivAtLeast
  <1>6. (p * f) \div FpOne <= FpOne
    BY <1>1, <1>4, DivAtMost
  <1>7. QED
    BY <1>1, <1>5, <1>6, DivProp DEF fp_mul

\* The tables after one count are tables again, below the cap when they were.
LEMMA CountedTables ==
    ASSUME NEW t \in [BOOLEAN -> [Context -> [Bit -> Nat]]],
           \A x \in BOOLEAN, y \in Context, z \in Bit : t[x][y][z] < MaxCount,
           NEW e \in BOOLEAN, NEW c \in Context, NEW b \in Bit
    PROVE  /\ Counted(t, e, c, b) \in [BOOLEAN -> [Context -> [Bit -> Nat]]]
           /\ \A x \in BOOLEAN, y \in Context, z \in Bit : Counted(t, e, c, b)[x][y][z] < MaxCount
  <1> DEFINE bumped == [t EXCEPT ![e][c][b] = @ + 1]
             halved == [x \in BOOLEAN |-> [y \in Context |-> [z \in Bit |-> bumped[x][y][z] \div 2]]]
  <1>1. bumped \in [BOOLEAN -> [Context -> [Bit -> Nat]]]
    OBVIOUS
  <1>2. \A x \in BOOLEAN, y \in Context, z \in Bit :
            bumped[x][y][z] = IF x = e /\ y = c /\ z = b THEN t[x][y][z] + 1 ELSE t[x][y][z]
    OBVIOUS
  <1> HIDE DEF bumped
  <1>3. CASE bumped[e][c][b] >= MaxCount
    <2>1. \A x \in BOOLEAN, y \in Context, z \in Bit :
              /\ bumped[x][y][z] \in Nat
              /\ bumped[x][y][z] <= MaxCount
      <3> SUFFICES ASSUME NEW x \in BOOLEAN, NEW y \in Context, NEW z \in Bit
                   PROVE  bumped[x][y][z] \in Nat /\ bumped[x][y][z] <= MaxCount
        OBVIOUS
      <3>1. t[x][y][z] \in Nat /\ t[x][y][z] < MaxCount
        OBVIOUS
      <3>2. bumped[x][y][z] = t[x][y][z] + 1 \/ bumped[x][y][z] = t[x][y][z]
        BY <1>2
      <3>3. QED
        BY <3>1, <3>2, FpAssumption
    <2>2. \A x \in BOOLEAN, y \in Context, z \in Bit :
              /\ halved[x][y][z] \in Nat
              /\ halved[x][y][z] < MaxCount
      <3> SUFFICES ASSUME NEW x \in BOOLEAN, NEW y \in Context, NEW z \in Bit
                   PROVE  bumped[x][y][z] \div 2 \in Nat /\ bumped[x][y][z] \div 2 < MaxCount
        OBVIOUS
      <3>1. bumped[x][y][z] \in Nat /\ bumped[x][y][z] <= MaxCount
        BY <2>1
      <3>2. QED
        BY <3>1, HalfBelow, FpAssumption
    <2>3. Counted(t, e, c, b) = halved
      BY <1>3 DEF Counted, Halved, bumped
    <2>4. halved \in [BOOLEAN -> [Context -> [Bit -> Nat]]]
      BY <2>2
    <2>5. QED
      BY <2>2, <2>3, <2>4
  <1>4. CASE ~(bumped[e][c][b] >= MaxCount)
    <2>1. Counted(t, e, c, b) = bumped
      BY <1>4 DEF Counted, bumped
    <2>2. bumped[e][c][b] < MaxCount
      BY <1>1, <1>4, FpAssumption
    <2>3. \A x \in BOOLEAN, y \in Context, z \in Bit : bumped[x][y][z] < MaxCount
      BY <1>2, <2>2
    <2>4. QED
      BY <1>1, <2>1, <2>3
  <1>5. QED
    BY <1>3, <1>4

-----------------------------------------------------------------------------
\* Inside an extraction there is a sample left to account for.
InBlock == pc # "idle" => n < BlockBits

\* The invariant of the estimator: types, capped tables, a positive probability.
Inv ==
    /\ TypeOK
    /\ TableCapped
    /\ ProbPositive
    /\ InBlock

\* The calls that only observe leave everything typed.
LEMMA ObserveTypes ==
    ASSUME TypeOK, NEW bit \in Bit, Observe(bit)
    PROVE  /\ prev_bits' \in Context /\ prev_bit' \in Bit
           /\ total_bits' \in Nat
           /\ total' \in [Bit -> Nat] /\ seq' \in [Bit -> Nat]
           /\ recent' \in [Recent -> Bit \cup {NoBit}]
           /\ UNCHANGED <<num_bits_sampled, num_bits_of_entropy, entropy_level, ok_to_use, table>>
  <1>1. (2 * prev_bits + prev_bit) % TableSize \in 0..(TableSize - 1)
    <2>1. 2 * prev_bits + prev_bit \in Nat
      BY SizeAssumption DEF TypeOK, Context, Bit
    <2>2. QED
      BY <2>1, SizeAssumption, ModProp
  <1>2. recent' \in [Recent -> Bit \cup {NoBit}]
    <2>1. \A k \in Recent : k <= MaxSequence => k + 1 \in Recent
      BY SizeAssumption DEF Recent
    <2>2. QED
      BY <2>1 DEF Observe, TypeOK
  <1>3. total' \in [Bit -> Nat] /\ seq' \in [Bit -> Nat]
    BY DEF Observe, Run, TypeOK
  <1>4. total_bits' \in Nat
    BY DEF Observe, Run, TypeOK
  <1>5. QED
    BY <1>1, <1>2, <1>3, <1>4 DEF Observe, Context

\* The phase of a sample is a Boolean, an index into the tables.
LEMMA EvenBoolean == ASSUME NEW m \in Nat PROVE (m % 2 = 1) \in BOOLEAN
  OBVIOUS

\* What add_bit computes before its loop is a probability the loop can double.
LEMMA PredictedPositive ==
    ASSUME Inv, pc # "double", NEW bit \in Bit, NEW c \in Context
    PROVE  Predicted(table[Even][c], bit) \in 1..FpOne
  <1> DEFINE cell == table[Even][c]
  <1>1. Even \in BOOLEAN
    BY DEF Even
  <1>2. /\ cell[0] \in Nat /\ cell[1] \in Nat
        /\ cell[0] < MaxCount /\ cell[1] < MaxCount
    BY <1>1 DEF Inv, TypeOK, TableCapped, Bit
  <1>3. current_prob \in 1..FpOne /\ current_prob > FpHalf
    BY DEF Inv, ProbPositive
  <1>4. CASE cell[bit] > 0 /\ bit = 0
    <2>1. fp_div(cell[0], cell[0] + cell[1]) \in 2..FpOne
      BY <1>2, <1>4, FreqBounds
    <2>2. QED
      BY <2>1, <1>3, <1>4, ProductPositive DEF Predicted
  <1>5. CASE cell[bit] > 0 /\ bit = 1
    <2>1. fp_div(cell[1], cell[1] + cell[0]) \in 2..FpOne
      BY <1>2, <1>5, FreqBounds
    <2>2. cell[1] + cell[0] = cell[0] + cell[1]
      BY <1>2
    <2>3. QED
      BY <2>1, <2>2, <1>3, <1>5, ProductPositive DEF Predicted
  <1>6. CASE ~(cell[bit] > 0)
    BY <1>3, <1>6 DEF Predicted
  <1>7. QED
    BY <1>4, <1>5, <1>6 DEF Bit

\* The estimator starts (infnoise_health_init) in its invariant.
LEMMA InitInv == Init => Inv
  <1> SUFFICES ASSUME Init PROVE Inv
    OBVIOUS
  <1>1. TypeOK
    <2>1. table \in [BOOLEAN -> [Context -> [Bit -> Nat]]]
      BY DEF Init
    <2>2. prev_bits \in Context /\ n \in 0..BlockBits
      BY SizeAssumption DEF Init, Context
    <2>3. total \in [Bit -> Nat] /\ seq \in [Bit -> Nat] /\ current_prob \in Nat
      BY FpAssumption DEF Init
    <2>4. recent \in [Recent -> Bit \cup {NoBit}]
      BY DEF Init
    <2>5. QED
      BY <2>1, <2>2, <2>3, <2>4 DEF Init, TypeOK, Bit
  <1>2. TableCapped
    BY FpAssumption DEF Init, TableCapped
  <1>3. ProbPositive
    BY FpAssumption, HalfProp DEF Init, ProbPositive
  <1>4. QED
    BY <1>1, <1>2, <1>3 DEF Inv, InBlock, Init

\* Every call of add_bit, at whichever of its steps, keeps the invariant.
LEMMA NextInv == Inv /\ [Next]_vars => Inv'
  <1> SUFFICES ASSUME Inv, [Next]_vars PROVE Inv'
    OBVIOUS
  <1> USE DEF Inv
  <1>1. CASE StartExtract
    BY <1>1, SizeAssumption DEF StartExtract, TypeOK, TableCapped, ProbPositive, InBlock
  <1>2. ASSUME NEW bit \in Bit, AddBitStuck(bit) PROVE Inv'
    <2>1. Observe(bit)
      BY <1>2 DEF AddBitStuck
    <2>2. TypeOK'
      BY <1>2, <2>1, ObserveTypes DEF AddBitStuck, TypeOK
    <2>3. TableCapped'
      BY <2>1 DEF Observe, TableCapped
    <2>4. ProbPositive'
      BY <1>2 DEF AddBitStuck, ProbPositive
    <2>5. QED
      BY <1>2, <2>2, <2>3, <2>4 DEF AddBitStuck, InBlock
  <1>3. ASSUME NEW bit \in Bit, AddBit(bit) PROVE Inv'
    <2>1. Observe(bit)
      BY <1>3 DEF AddBit
    <2>2. current_prob' \in 1..FpOne
      <3>1. prev_bits' \in Context
        BY <2>1, ObserveTypes
      <3>2. current_prob' = Predicted(table[Even][prev_bits'], bit)
        BY <1>3 DEF AddBit
      <3>3. QED
        BY <1>3, <3>1, <3>2, PredictedPositive DEF AddBit
    <2>3. TypeOK'
      BY <1>3, <2>1, <2>2, ObserveTypes, FpAssumption DEF AddBit, TypeOK
    <2>4. TableCapped'
      BY <2>1 DEF Observe, TableCapped
    <2>5. ProbPositive'
      BY <1>3, <2>2 DEF AddBit, ProbPositive
    <2>6. QED
      BY <1>3, <2>3, <2>4, <2>5 DEF AddBit, InBlock
  <1>4. CASE DoubleProb
    <2>1. current_prob' \in 1..FpOne
      BY <1>4, HalfProp, FpAssumption DEF DoubleProb, ProbPositive
    <2>2. entropy_level' \in Nat /\ num_bits_of_entropy' \in Nat
      BY <1>4 DEF DoubleProb, TypeOK
    <2>3. TypeOK'
      BY <1>4, <2>1, <2>2, FpAssumption DEF DoubleProb, TypeOK
    <2>4. TableCapped'
      BY <1>4 DEF DoubleProb, TableCapped
    <2>5. ProbPositive'
      BY <1>4, <2>1 DEF DoubleProb, ProbPositive
    <2>6. QED
      BY <1>4, <2>3, <2>4, <2>5 DEF DoubleProb, InBlock
  <1>5. CASE FinishBit
    <2>1. Even \in BOOLEAN /\ prev_bits \in Context /\ prev_bit \in Bit
      BY DEF Even, TypeOK
    <2>2. table' \in [BOOLEAN -> [Context -> [Bit -> Nat]]] /\ TableCapped'
      BY <1>5, <2>1, CountedTables DEF FinishBit, TypeOK, TableCapped
    <2>3. num_bits_sampled' \in Nat /\ num_bits_of_entropy' \in Nat
      BY <1>5 DEF FinishBit, Full, ScaledEntropy, ScaledTotals, TypeOK
    <2>4. total' \in [Bit -> Nat]
      BY <1>5 DEF FinishBit, ScaledTotals, TypeOK
    <2>5. ok_to_use' \in BOOLEAN
      BY <1>5 DEF FinishBit, HealthOk
    <2>6. n' \in 0..BlockBits /\ pc' \in {"idle", "extract"}
      <3>1. n < BlockBits
        BY <1>5 DEF FinishBit, InBlock
      <3>2. QED
        BY <1>5, <3>1, SizeAssumption DEF FinishBit, TypeOK
    <2>7. TypeOK'
      BY <1>5, <2>2, <2>3, <2>4, <2>5, <2>6 DEF FinishBit, TypeOK
    <2>8. ProbPositive'
      BY <1>5 DEF FinishBit, ProbPositive
    <2>9. InBlock'
      <3>1. n \in Nat /\ n < BlockBits
        BY <1>5 DEF FinishBit, InBlock, TypeOK
      <3>2. QED
        BY <1>5, <3>1, SizeAssumption DEF FinishBit, InBlock
    <2>10. QED
      BY <2>2, <2>7, <2>8, <2>9
  <1>6. CASE Exhausted
    BY <1>6 DEF Exhausted, vars, health, TypeOK, TableCapped, ProbPositive, InBlock
  <1>7. CASE UNCHANGED vars
    BY <1>7 DEF vars, health, TypeOK, TableCapped, ProbPositive, InBlock
  <1>8. QED
    BY <1>1, <1>2, <1>3, <1>4, <1>5, <1>6, <1>7 DEF Next

\* The types, the cap on the tables and the positive probability, together,
\* hold throughout (infnoise_health.c:168-295).
THEOREM HealthInv == Spec => []Inv
  BY InitInv, NextInv, PTL DEF Spec

\* Every variable keeps its type (infnoise_health.c, struct infnoise_health).
THEOREM HealthTypeOK == Spec => []TypeOK
  <1>1. Inv => TypeOK
    BY DEF Inv
  <1>2. QED
    BY <1>1, HealthInv, PTL

\* No table counter is left at INM_MAX_COUNT (infnoise_health.c:265-286).
THEOREM HealthTableCapped == Spec => []TableCapped
  <1>1. Inv => TableCapped
    BY DEF Inv
  <1>2. QED
    BY <1>1, HealthInv, PTL

\* The running probability is never zero, whatever the samples: it is above one
\* half between calls (infnoise_health.c:235-261).
THEOREM HealthProbPositive == Spec => []ProbPositive
  <1>1. Inv => ProbPositive
    BY DEF Inv
  <1>2. QED
    BY <1>1, HealthInv, PTL

\* Each iteration of the doubling loop makes progress towards FpOne, so the loop
\* ends on every input (infnoise_health.c:255-261).
THEOREM HealthDoublingProgress == Spec => DoublingProgress
  <1>1. ASSUME Inv, [Next]_vars, pc = "double", pc' = "double"
        PROVE  UNCHANGED vars \/ (current_prob' > current_prob /\ current_prob' <= FpOne)
    <2>1. CASE DoubleProb
      BY <1>1, <2>1, HalfProp, FpAssumption DEF DoubleProb, Inv, ProbPositive
    <2>2. CASE UNCHANGED vars
      BY <2>2
    <2>3. QED
      BY <1>1, <2>1, <2>2
      DEF Next, StartExtract, AddBitStuck, AddBit, FinishBit, Exhausted
  <1>2. Inv /\ [Next]_vars =>
            [pc = "double" /\ pc' = "double" =>
                current_prob' > current_prob /\ current_prob' <= FpOne]_vars
    BY <1>1
  <1>3. QED
    BY <1>2, HealthInv, PTL DEF Spec, DoublingProgress

-----------------------------------------------------------------------------
\* What NoEarlyCredit rests on: the verdict that gates the credit is one call
\* old, and the sample count has moved on inside the loop.
CreditInv ==
    /\ NoEarlyCredit
    /\ ok_to_use => total_bits >= MinData
    /\ ok_to_use /\ pc = "double" => total_bits > MinData

\* The credit is gated by the volume of samples seen (infnoise_health.c:259, 292).
THEOREM HealthNoEarlyCredit == Spec => []NoEarlyCredit
  <1>1. Init => CreditInv
    BY DEF Init, CreditInv, NoEarlyCredit
  <1>2. ASSUME Inv, CreditInv, [Next]_vars PROVE CreditInv'
    <2> USE SizeAssumption DEF CreditInv, NoEarlyCredit
    <2>1. CASE StartExtract
      BY <1>2, <2>1 DEF StartExtract
    <2>2. ASSUME NEW bit \in Bit, AddBitStuck(bit) PROVE CreditInv'
      BY <1>2, <2>2 DEF AddBitStuck, Observe, Inv, TypeOK
    <2>3. ASSUME NEW bit \in Bit, AddBit(bit) PROVE CreditInv'
      BY <1>2, <2>3 DEF AddBit, Observe, Inv, TypeOK
    <2>4. CASE DoubleProb
      BY <1>2, <2>4 DEF DoubleProb, Inv, TypeOK
    <2>5. CASE FinishBit
      BY <1>2, <2>5 DEF FinishBit, HealthOk
    <2>6. CASE UNCHANGED vars
      BY <1>2, <2>6 DEF vars, health
    <2>7. QED
      BY <1>2, <2>1, <2>2, <2>3, <2>4, <2>5, <2>6 DEF Next, Exhausted
  <1>3. CreditInv => NoEarlyCredit
    BY DEF CreditInv
  <1>4. QED
    BY <1>1, <1>2, <1>3, HealthInv, PTL DEF Spec

-----------------------------------------------------------------------------
\* Why a fault is reported exactly on a run: seq[b] is at least k just when the
\* last k counted samples equal b, and only a counted sample is reported.
RunInv ==
    \A b \in Bit, k \in Recent :
        seq[b] >= k <=> \A m \in Recent : m > MaxSequence + 1 - k => recent[m] = b

VerdictInv ==
    /\ verdict = FALSE <=> \E b \in Bit : seq[b] > MaxSequence
    /\ verdict = FALSE => Counting /\ pc # "double"

\* One counted sample keeps the run counters and the history in step.
LEMMA CountedRun ==
    ASSUME TypeOK, RunInv, Counting, NEW bit \in Bit, Observe(bit)
    PROVE  RunInv'
  <1> USE SizeAssumption DEF Recent
  <1>1. SUFFICES ASSUME NEW b \in Bit, NEW k \in Recent
        PROVE  seq'[b] >= k <=> \A m \in Recent : m > MaxSequence + 1 - k => recent'[m] = b
    BY DEF RunInv
  <1>2. /\ seq'[b] = IF b = bit THEN seq[b] + 1 ELSE 0
        /\ \A m \in Recent : recent'[m] = IF m <= MaxSequence THEN recent[m + 1] ELSE bit
    BY DEF Observe, Run
  <1>3. CASE b # bit
    <2>1. seq'[b] = 0
      BY <1>2, <1>3
    <2>2. MaxSequence + 1 \in Recent /\ recent'[MaxSequence + 1] = bit
      BY <1>2
    <2>3. QED
      BY <1>3, <2>1, <2>2
  <1>4. CASE b = bit /\ k = 1
    <2>1. seq'[b] >= 1
      BY <1>2, <1>4 DEF TypeOK
    <2>2. \A m \in Recent : m > MaxSequence => recent'[m] = b
      BY <1>2, <1>4
    <2>3. QED
      BY <1>4, <2>1, <2>2
  <1>5. CASE b = bit /\ k > 1
    <2>1. k - 1 \in Recent
      BY <1>5
    <2>2. seq[b] >= k - 1 <=> \A m \in Recent : m > MaxSequence + 2 - k => recent[m] = b
      <3>1. MaxSequence + 1 - (k - 1) = MaxSequence + 2 - k
        OBVIOUS
      <3>2. QED
        BY <2>1, <3>1 DEF RunInv
    <2>3. seq'[b] >= k <=> seq[b] >= k - 1
      BY <1>2, <1>5 DEF TypeOK
    <2>4. ASSUME \A m \in Recent : m > MaxSequence + 2 - k => recent[m] = b,
                 NEW m \in Recent, m > MaxSequence + 1 - k
          PROVE  recent'[m] = b
      BY <1>2, <1>5, <2>4
    <2>5. ASSUME \A m \in Recent : m > MaxSequence + 1 - k => recent'[m] = b,
                 NEW m \in Recent, m > MaxSequence + 2 - k
          PROVE  recent[m] = b
      <3>1. m - 1 \in Recent /\ m - 1 > MaxSequence + 1 - k /\ m - 1 <= MaxSequence
        BY <1>5, <2>5
      <3>2. recent'[m - 1] = recent[(m - 1) + 1]
        BY <1>2, <3>1
      <3>3. QED
        BY <2>5, <3>1, <3>2
    <2>6. QED
      BY <2>2, <2>3, <2>4, <2>5
  <1>6. QED
    BY <1>3, <1>4, <1>5

\* A fault is reported exactly when the last MaxSequence+1 counted samples are
\* equal (infnoise_health.c:195-217), across blocks and earlier faults.
THEOREM HealthStuckIffRun == Spec => []StuckIffRun
  <1> DEFINE StuckInv == RunInv /\ VerdictInv
  <1>1. Init => StuckInv
    <2> SUFFICES ASSUME Init PROVE StuckInv
      OBVIOUS
    <2>1. RunInv
      <3>1. \A b \in Bit : NoBit # b /\ seq[b] = 0
        BY DEF Init, NoBit, Bit
      <3>2. MaxSequence + 1 \in Recent
        BY SizeAssumption DEF Recent
      <3>3. recent[MaxSequence + 1] = NoBit
        BY <3>2 DEF Init
      <3>4. \A k \in Recent : k >= 1 /\ MaxSequence + 1 > MaxSequence + 1 - k
        BY SizeAssumption DEF Recent
      <3>5. ASSUME NEW b \in Bit, NEW k \in Recent
            PROVE  /\ ~(seq[b] >= k)
                   /\ ~(\A m \in Recent : m > MaxSequence + 1 - k => recent[m] = b)
        <4>1. ~(seq[b] >= k)
          BY <3>1, SizeAssumption DEF Recent
        <4>2. QED
          BY <3>1, <3>2, <3>3, <3>4, <4>1
      <3>6. QED
        BY <3>5 DEF RunInv
    <2>2. VerdictInv
      BY SizeAssumption DEF Init, VerdictInv
    <2>3. QED
      BY <2>1, <2>2
  <1>2. ASSUME Inv, StuckInv, [Next]_vars PROVE StuckInv'
    <2> USE SizeAssumption DEF Inv
    <2>1. ASSUME NEW bit \in Bit, AddBitStuck(bit) PROVE StuckInv'
      <3>1. Observe(bit) /\ Counting
        BY <2>1 DEF AddBitStuck, Stuck
      <3>2. RunInv'
        BY <1>2, <3>1, CountedRun
      <3>3. VerdictInv'
        <4>1. seq'[bit] = seq[bit] + 1 /\ seq[bit] + 1 > MaxSequence
          BY <2>1, <3>1 DEF AddBitStuck, Stuck, Observe, Run
        <4>2. verdict' = FALSE /\ pc' = "idle" /\ Counting'
          BY <2>1, <3>1 DEF AddBitStuck, Observe, Run, Counting
        <4>3. QED
          BY <4>1, <4>2 DEF VerdictInv
      <3>4. QED
        BY <3>2, <3>3
    <2>2. ASSUME NEW bit \in Bit, AddBit(bit) PROVE StuckInv'
      <3>1. Observe(bit) /\ ~Stuck(bit)
        BY <2>2 DEF AddBit
      <3>2. CASE Counting
        <4>1. RunInv'
          BY <1>2, <3>1, <3>2, CountedRun
        <4>2. seq'[bit] = seq[bit] + 1 /\ \A b \in Bit : b # bit => seq'[b] = 0
          BY <3>1, <3>2 DEF Observe, Run
        <4>3. \A b \in Bit : ~(seq'[b] > MaxSequence)
          BY <3>1, <3>2, <4>2 DEF Stuck, TypeOK
        <4>4. QED
          BY <1>2, <2>2, <4>1, <4>3 DEF AddBit, VerdictInv
      <3>3. CASE ~Counting
        <4>1. UNCHANGED <<seq, recent>>
          BY <3>1, <3>3 DEF Observe, Run
        <4>2. QED
          BY <1>2, <2>2, <3>3, <4>1 DEF AddBit, VerdictInv, RunInv, TypeOK
      <3>4. QED
        BY <3>2, <3>3
    <2>3. CASE StartExtract
      BY <1>2, <2>3 DEF StartExtract, RunInv, VerdictInv, Counting
    <2>4. CASE DoubleProb
      BY <1>2, <2>4 DEF DoubleProb, RunInv, VerdictInv, Counting
    <2>5. CASE FinishBit
      BY <1>2, <2>5 DEF FinishBit, Full, ScaledEntropy, ScaledTotals, RunInv, VerdictInv, Counting
    <2>6. CASE UNCHANGED vars
      BY <1>2, <2>6 DEF vars, health, RunInv, VerdictInv, Counting
    <2>7. QED
      BY <1>2, <2>1, <2>2, <2>3, <2>4, <2>5, <2>6 DEF Next, Exhausted
  <1>3. Inv /\ StuckInv => StuckIffRun
    <2> SUFFICES ASSUME Inv, StuckInv PROVE StuckIffRun
      OBVIOUS
    <2>1. MaxSequence + 1 \in Recent /\ \A m \in Recent : m > MaxSequence + 1 - (MaxSequence + 1)
      BY SizeAssumption DEF Recent
    <2>2. \A b \in Bit : seq[b] >= MaxSequence + 1 <=> \A m \in Recent : recent[m] = b
      BY <2>1 DEF RunInv
    <2>3. \A b \in Bit : seq[b] >= MaxSequence + 1 <=> seq[b] > MaxSequence
      BY SizeAssumption DEF Inv, TypeOK
    <2>4. QED
      BY <2>2, <2>3 DEF VerdictInv, StuckIffRun
  <1>4. QED
    BY <1>1, <1>2, <1>3, HealthInv, PTL DEF Spec

-----------------------------------------------------------------------------
\* Inside the loop the d doublings of this call fit in the probability, which
\* reached 2^d at least; so there are never more than FP_SHIFT of them.
WindowInv ==
    /\ num_bits_sampled < MinData
    /\ pc # "double" => num_bits_of_entropy <= MaxDoublings * num_bits_sampled
    /\ pc = "double" =>
        \E d \in 0..MaxDoublings :
            /\ 2^d <= current_prob
            /\ num_bits_of_entropy <= MaxDoublings * num_bits_sampled + d

\* A product of the window's counters is a number.
LEMMA WindowProduct ==
    ASSUME NEW a \in Nat
    PROVE  /\ MaxDoublings * a \in Nat
           /\ MaxDoublings * (a + 1) = MaxDoublings * a + MaxDoublings
  BY ShiftAssumption

\* Halving an entropy that fits a full window makes it fit half of one.
LEMMA HalfWindow ==
    ASSUME NEW e \in Nat, e <= MaxDoublings * MinData
    PROVE  e \div 2 <= MaxDoublings * (MinData \div 2)
  <1> DEFINE h == MinData \div 2
  <1>1. h \in Nat /\ MinData = 2 * h
    BY SizeAssumption, ShiftAssumption
  <1> HIDE DEF h
  <1>2. MaxDoublings * MinData = 2 * (MaxDoublings * h) /\ MaxDoublings * h \in Nat
    BY <1>1, ShiftAssumption
  <1>3. e \div 2 <= MaxDoublings * h
    BY <1>2
  <1>4. QED
    BY <1>3 DEF h

\* Every step keeps the entropy of the window within its samples.
LEMMA NextWindow == Inv /\ WindowInv /\ [Next]_vars => WindowInv'
  <1> SUFFICES ASSUME Inv, WindowInv, [Next]_vars PROVE WindowInv'
    OBVIOUS
  <1>0. /\ num_bits_sampled \in Nat /\ num_bits_of_entropy \in Nat /\ current_prob \in Nat
        /\ MaxDoublings \in Nat /\ MaxDoublings * num_bits_sampled \in Nat
    BY WindowProduct, ShiftAssumption DEF Inv, TypeOK
  <1>1. CASE StartExtract
    BY <1>1 DEF StartExtract, WindowInv
  <1>2. ASSUME NEW bit \in Bit, AddBitStuck(bit) PROVE WindowInv'
    BY <1>2 DEF AddBitStuck, Observe, WindowInv
  <1>3. ASSUME NEW bit \in Bit, AddBit(bit) PROVE WindowInv'
    <2>1. UNCHANGED <<num_bits_sampled, num_bits_of_entropy>> /\ pc # "double" /\ pc' = "double"
      BY <1>3 DEF AddBit, Observe
    <2>2. current_prob' \in 1..FpOne
      <3>1. Inv'
        BY NextInv
      <3>2. QED
        BY <3>1 DEF Inv, ProbPositive
    <2>3. 0 \in 0..MaxDoublings /\ 2^0 <= current_prob'
      BY <2>2, ShiftAssumption, FpAssumption
    <2>4. num_bits_of_entropy' <= MaxDoublings * num_bits_sampled' + 0
      BY <1>0, <2>1 DEF WindowInv
    <2>5. QED
      BY <2>1, <2>3, <2>4 DEF WindowInv
  <1>4. CASE DoubleProb
    <2>1. PICK d \in 0..MaxDoublings :
            /\ 2^d <= current_prob
            /\ num_bits_of_entropy <= MaxDoublings * num_bits_sampled + d
      BY <1>4 DEF DoubleProb, WindowInv
    <2>2. /\ current_prob <= FpHalf /\ current_prob' = 2 * current_prob
          /\ num_bits_of_entropy' = num_bits_of_entropy + 1
          /\ UNCHANGED <<num_bits_sampled, pc>> /\ pc = "double"
      BY <1>4 DEF DoubleProb
    <2>3. d # MaxDoublings
      <3>1. FpHalf < FpOne
        BY HalfProp, FpAssumption
      <3>2. 2^MaxDoublings > current_prob
        BY <1>0, <2>2, <3>1, HalfProp, ShiftAssumption, FpAssumption
      <3>3. QED
        BY <1>0, <2>1, <3>2, ShiftAssumption, FpAssumption
    <2>4. d + 1 \in 1..MaxDoublings
      BY <2>1, <2>3, ShiftAssumption
    <2>5. 2^d \in Nat
      <3>1. CASE d = 0
        BY <3>1, ShiftAssumption
      <3>2. CASE d \in 1..MaxDoublings
        BY <3>2, ShiftAssumption
      <3>3. QED
        BY <2>1, <3>1, <3>2, ShiftAssumption
    <2>6. 2^(d + 1) = 2 * 2^d
      <3>1. 2^(d + 1) = 2 * 2^((d + 1) - 1)
        BY <2>4, ShiftAssumption
      <3>2. (d + 1) - 1 = d
        BY <2>1
      <3>3. QED
        BY <3>1, <3>2
    <2>7. 2^(d + 1) <= current_prob'
      BY <1>0, <2>1, <2>2, <2>5, <2>6
    <2>8. num_bits_of_entropy' <= MaxDoublings * num_bits_sampled' + (d + 1)
      BY <1>0, <2>1, <2>2
    <2>9. QED
      BY <2>2, <2>4, <2>7, <2>8 DEF WindowInv
  <1>5. CASE FinishBit
    <2>1. num_bits_of_entropy <= MaxDoublings * (num_bits_sampled + 1)
      <3>1. PICK d \in 0..MaxDoublings :
              num_bits_of_entropy <= MaxDoublings * num_bits_sampled + d
        BY <1>5 DEF FinishBit, WindowInv
      <3>2. QED
        BY <1>0, <3>1, WindowProduct
    <2>2. /\ pc' # "double"
          /\ num_bits_sampled' = IF Full THEN (num_bits_sampled + 1) \div 2 ELSE num_bits_sampled + 1
          /\ num_bits_of_entropy' = ScaledEntropy
      BY <1>5 DEF FinishBit
    <2>3. CASE Full
      <3>1. num_bits_sampled + 1 = MinData
        BY <1>0, <2>3, SizeAssumption DEF Full, WindowInv
      <3>2. num_bits_sampled' = MinData \div 2 /\ num_bits_of_entropy' = num_bits_of_entropy \div 2
        BY <2>2, <2>3, <3>1 DEF ScaledEntropy
      <3>3. num_bits_of_entropy' <= MaxDoublings * num_bits_sampled'
        BY <1>0, <2>1, <3>1, <3>2, HalfWindow
      <3>4. num_bits_sampled' < MinData
        BY <3>2, SizeAssumption
      <3>5. QED
        BY <2>2, <3>3, <3>4 DEF WindowInv
    <2>4. CASE ~Full
      <3>1. num_bits_sampled' = num_bits_sampled + 1 /\ num_bits_of_entropy' = num_bits_of_entropy
        BY <2>2, <2>4 DEF ScaledEntropy
      <3>2. num_bits_sampled' < MinData
        BY <1>0, <2>4, <3>1, SizeAssumption DEF Full
      <3>3. QED
        BY <2>1, <2>2, <3>1, <3>2 DEF WindowInv
    <2>5. QED
      BY <2>3, <2>4
  <1>6. CASE UNCHANGED vars
    BY <1>6 DEF vars, health, WindowInv
  <1>7. QED
    BY <1>1, <1>2, <1>3, <1>4, <1>5, <1>6 DEF Next, Exhausted

\* The window counts at most FP_SHIFT bits of entropy for each sample in it,
\* whatever the samples (infnoise_health.c:135-143, 255-261, 303-309).
THEOREM HealthEstimateFits == Spec => []EstimateFits
  <1>1. Init => WindowInv
    <2>1. MaxDoublings * 0 = 0 /\ 0 < MinData
      BY ShiftAssumption, SizeAssumption
    <2>2. QED
      BY <2>1 DEF Init, WindowInv
  <1>2. Inv /\ WindowInv => EstimateFits
    <2> SUFFICES ASSUME Inv, WindowInv PROVE EstimateFits
      OBVIOUS
    <2>0. /\ num_bits_sampled \in Nat /\ num_bits_of_entropy \in Nat
          /\ MaxDoublings \in Nat /\ MaxDoublings * num_bits_sampled \in Nat
          /\ MaxDoublings * (num_bits_sampled + 1) = MaxDoublings * num_bits_sampled + MaxDoublings
      BY WindowProduct, ShiftAssumption DEF Inv, TypeOK
    <2>1. CASE pc = "double"
      <3>1. PICK d \in 0..MaxDoublings :
              num_bits_of_entropy <= MaxDoublings * num_bits_sampled + d
        BY <2>1 DEF WindowInv
      <3>2. num_bits_of_entropy <= MaxDoublings * (num_bits_sampled + 1)
        BY <2>0, <3>1
      <3>3. QED
        BY <2>1, <3>2 DEF EstimateFits
    <2>2. CASE pc # "double"
      <3>1. num_bits_sampled + 0 = num_bits_sampled
        BY <2>0
      <3>2. QED
        BY <2>2, <3>1 DEF EstimateFits, WindowInv
    <2>3. QED
      BY <2>1, <2>2
  <1>3. QED
    BY <1>1, <1>2, NextWindow, HealthInv, PTL DEF Spec
=============================================================================
