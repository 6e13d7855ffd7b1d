------------------------- MODULE HealthCheck_proofs -------------------------
(***************************************************************************)
(* Theorems about HealthCheck, for every size of the tables, of the window *)
(* and of a block, every run length and every expected entropy.            *)
(***************************************************************************)
EXTENDS HealthCheck, FiniteSetTheorems, WellFoundedInduction, TLAPS

USE DEF Bit

Cell == 0..(MaxCount - 1)

\* What integer division gives, for any positive divisor.
LEMMA ModRange ==
    ASSUME NEW a \in Nat, NEW d \in Nat, d > 0
    PROVE  a % d \in 0..(d - 1)
  OBVIOUS

\* Half of a number, in whole units.
LEMMA Half ==
    ASSUME NEW a \in Nat
    PROVE  a \div 2 \in Nat /\ 2 * (a \div 2) <= a /\ a <= 2 * (a \div 2) + 1
  OBVIOUS

\* A product with a larger factor is no smaller.
LEMMA Monotone ==
    ASSUME NEW k \in Nat, NEW x \in Nat, NEW y \in Nat, x <= y
    PROVE  k * x \in Nat /\ k * y \in Nat /\ k * x <= k * y
  OBVIOUS

\* A multiple has no other remainder than zero.
LEMMA NoRemainder ==
    ASSUME NEW p \in Nat, NEW q \in Nat, NEW k \in Nat, NEW s \in 0..(k - 1),
           p * k = q * k + s
    PROVE  s = 0
  <1>1. CASE p <= q
    <2>1. p * k \in Nat /\ q * k \in Nat /\ p * k <= q * k
      BY <1>1
    <2>2. QED
      BY <2>1
  <1>2. CASE q + 1 <= p
    <2>1. (q + 1) * k \in Nat /\ p * k \in Nat /\ (q + 1) * k <= p * k
      BY <1>2
    <2>2. (q + 1) * k = q * k + k
      OBVIOUS
    <2>3. q * k \in Nat
      OBVIOUS
    <2>4. QED
      BY <2>1, <2>2, <2>3
  <1>3. QED
    BY <1>1, <1>2

\* No sample makes more than MaxHalvings halvings while the counters are capped.
LEMMA HalvingsBounded ==
    ASSUME NEW cell \in [Bit -> Cell], NEW bit \in Bit, NEW d \in Halvings(cell, bit)
    PROVE  d \in 0..MaxHalvings
  <1> USE CounterAssumption, EntropyAssumption
  <1> DEFINE x == 2^(d - 1)
             c == cell[bit]
  <1>1. CASE c = 0
    BY <1>1 DEF Halvings
  <1>2. CASE c # 0 /\ d > MaxHalvings
    <2>1. d \in (MaxHalvings + 1)..(2 * MaxHalvings) /\ x * c < cell[0] + cell[1]
      BY <1>2 DEF Halvings
    <2>2. x \in Nat /\ x >= MaxCount
      BY <2>1, HalvingAssumption
    <2>3. c \in Nat /\ c >= 1 /\ c < MaxCount /\ cell[0] + cell[1] <= c + (MaxCount - 1)
      BY <1>2 DEF Cell
    <2> HIDE DEF x, c
    <2>4. MaxCount * c \in Nat /\ x * c \in Nat /\ MaxCount * c <= x * c
      BY <2>2, <2>3
    <2>5. (MaxCount - 1) * 1 <= (MaxCount - 1) * c
      BY <2>3
    <2>6. MaxCount * c = (MaxCount - 1) * c + c
      BY <2>3
    <2>7. (MaxCount - 1) * c \in Nat
      BY <2>3
    <2>8. cell[0] + cell[1] \in Nat
      BY DEF Cell
    <2>9. FALSE
      BY <2>1, <2>3, <2>4, <2>5, <2>6, <2>7, <2>8
    <2>10. QED
      BY <2>9
  <1>3. CASE c # 0 /\ ~(d > MaxHalvings)
    BY <1>3 DEF Halvings
  <1>4. QED
    BY <1>1, <1>2, <1>3

\* A set of natural numbers that is not empty has a least element.
LEMMA LeastOf ==
    ASSUME NEW S \in SUBSET Nat, S # {}
    PROVE  \E k \in S : \A m \in S : ~ m < k
  <1>1. \E k \in S : \A m \in S : <<m, k>> \notin OpToRel(<, Nat)
    BY NatLessThanWellFounded, WFMin
  <1>2. QED
    BY <1>1 DEF OpToRel

\* The loop that halves a sample's probability ends: some number of halvings, the least
\* that brings it above one half, is that of the code.
LEMMA HalvingsFound ==
    ASSUME NEW cell \in [Bit -> Cell], NEW bit \in Bit
    PROVE  Halvings(cell, bit) # {}
  <1> USE CounterAssumption, EntropyAssumption
  <1> DEFINE c == cell[bit]
             all == cell[0] + cell[1]
             S == {d \in 0..MaxHalvings : 2^(d + 1) * c > all}
  <1>1. CASE c = 0
    BY <1>1 DEF Halvings
  <1>2. CASE c # 0
    <2>1. c \in Nat \ {0} /\ all \in Nat /\ all <= c + (MaxCount - 1)
      BY <1>2 DEF Cell
    <2>2. Halvings(cell, bit) = {d \in 0..(2 * MaxHalvings) :
              /\ 2^(d + 1) * c > all
              /\ d = 0 \/ 2^(d - 1) * c < all}
      BY <1>2 DEF Halvings
    <2> HIDE DEF c, all
    <2>3. MaxHalvings \in S
      <3>1. MaxHalvings + 1 \in (MaxHalvings + 1)..(2 * MaxHalvings)
        OBVIOUS
      <3>2. (MaxHalvings + 1) - 1 = MaxHalvings
        OBVIOUS
      <3>3. 2^MaxHalvings \in Nat /\ 2^MaxHalvings >= MaxCount
        BY <3>1, <3>2, HalvingAssumption
      <3>4. 2^(MaxHalvings + 1) = 2 * 2^MaxHalvings
        BY PowerAssumption
      <3>5. MaxCount * c \in Nat /\ 2^MaxHalvings * c \in Nat
            /\ MaxCount * c <= 2^MaxHalvings * c
        BY <2>1, <3>3, Monotone
      <3>6. (MaxCount - 1) * 1 <= (MaxCount - 1) * c /\ (MaxCount - 1) * c \in Nat
        BY <2>1, Monotone
      <3>7. MaxCount * c = (MaxCount - 1) * c + c
        BY <2>1
      <3>8. all <= 2^MaxHalvings * c
        <4>1. (MaxCount - 1) * 1 = MaxCount - 1
          OBVIOUS
        <4>2. QED
          BY <2>1, <3>5, <3>6, <3>7, <4>1
      <3>9. 2^(MaxHalvings + 1) * c = 2 * (2^MaxHalvings * c) /\ 2^MaxHalvings * c >= 1
        BY <2>1, <3>3, <3>4
      <3>10. 2^(MaxHalvings + 1) * c > all
        BY <2>1, <3>5, <3>8, <3>9
      <3>11. QED
        BY <3>10
    <2>4. \E d \in S : \A m \in S : ~ m < d
      <3>1. S \in SUBSET Nat
        <4>1. \A d \in 0..MaxHalvings : d \in Nat
          OBVIOUS
        <4>2. QED
          BY <4>1, Zenon
      <3> HIDE DEF S
      <3>2. S # {}
        BY <2>3
      <3>3. QED
        BY <3>1, <3>2, LeastOf
    <2>5. PICK d \in S : \A m \in S : ~ m < d
      BY <2>4
    <2>6. d \in 0..MaxHalvings /\ d \in 0..(2 * MaxHalvings) /\ 2^(d + 1) * c > all
      BY <2>5
    <2>7. CASE d = 0
      <3>1. d \in Halvings(cell, bit)
        BY <2>2, <2>6, <2>7, Zenon
      <3>2. QED
        BY <3>1
    <2>8. CASE d # 0
      <3>1. d - 1 \in 0..MaxHalvings /\ d - 1 \notin S /\ (d - 1) + 1 = d
        BY <2>5, <2>6, <2>8
      <3>2. 2^(d - 1) \in Nat \ {0} /\ 2^d = 2 * 2^(d - 1)
        BY <3>1, PowerAssumption
      <3>3. ~(2^d * c > all)
        BY <3>1
      <3>4. 2^d * c = 2 * (2^(d - 1) * c) /\ 2^(d - 1) * c >= 1
        BY <2>1, <3>2
      <3>5. 2^(d - 1) * c < all
        BY <2>1, <3>2, <3>3, <3>4
      <3>6. d \in Halvings(cell, bit)
        BY <2>2, <2>6, <3>5, Zenon
      <3>7. QED
        BY <3>6
    <2>9. QED
      BY <2>7, <2>8
  <1>3. QED
    BY <1>1, <1>2

\* The tables after one count are tables, below the cap when they were.
LEMMA CountedTables ==
    ASSUME NEW t \in [BOOLEAN -> [Context -> [Bit -> Cell]]],
           NEW e \in BOOLEAN, NEW c \in Context, NEW b \in Bit
    PROVE  Counted(t, e, c, b) \in [BOOLEAN -> [Context -> [Bit -> Cell]]]
  <1> USE CounterAssumption
  <1> DEFINE bumped == [t EXCEPT ![e][c][b] = @ + 1]
  <1>1. bumped \in [BOOLEAN -> [Context -> [Bit -> 0..MaxCount]]]
    BY DEF Cell
  <1>2. \A x \in BOOLEAN, y \in Context, z \in Bit :
            bumped[x][y][z] = IF x = e /\ y = c /\ z = b THEN t[x][y][z] + 1 ELSE t[x][y][z]
    OBVIOUS
  <1> HIDE DEF bumped
  <1>3. CASE bumped[e][c][b] = MaxCount
    <2>1. \A x \in BOOLEAN, y \in Context, z \in Bit : bumped[x][y][z] \div 2 \in Cell
      <3> TAKE x \in BOOLEAN, y \in Context, z \in Bit
      <3>1. bumped[x][y][z] \in 0..MaxCount
        BY <1>1
      <3>2. QED
        BY <3>1, Half DEF Cell
    <2>2. Halved(bumped) \in [BOOLEAN -> [Context -> [Bit -> Cell]]]
      BY <2>1 DEF Halved
    <2>3. QED
      BY <1>3, <2>2 DEF Counted, bumped
  <1>4. CASE bumped[e][c][b] # MaxCount
    <2>1. \A x \in BOOLEAN, y \in Context, z \in Bit : bumped[x][y][z] \in Cell
      <3> TAKE x \in BOOLEAN, y \in Context, z \in Bit
      <3>1. bumped[x][y][z] \in 0..MaxCount /\ t[x][y][z] \in Cell
        BY <1>1
      <3>2. CASE x = e /\ y = c /\ z = b
        <4>1. bumped[x][y][z] = bumped[e][c][b]
          BY <3>2
        <4>2. bumped[x][y][z] # MaxCount
          BY <1>4, <4>1
        <4>3. \A k \in 0..MaxCount : k # MaxCount => k \in 0..(MaxCount - 1)
          OBVIOUS
        <4>4. QED
          BY <3>1, <4>2, <4>3, Zenon DEF Cell
      <3>3. CASE ~(x = e /\ y = c /\ z = b)
        BY <1>2, <3>1, <3>3
      <3>4. QED
        BY <3>2, <3>3
    <2>2. bumped \in [BOOLEAN -> [Context -> [Bit -> Cell]]]
      BY <1>1, <2>1
    <2>3. QED
      BY <1>4, <2>2 DEF Counted, bumped
  <1>5. QED
    BY <1>3, <1>4

\* How many of d halvings are credited: none before INM_MIN_DATA, never more than d.
Credit(d) == Cardinality({i \in 1..d :
                 OkToUseData(totalBits', numBitsOfEntropy + i, numBitsSampled)})

LEMMA CreditBounds ==
    ASSUME NEW d \in Nat, totalBits' \in Nat
    PROVE  /\ Credit(d) \in Nat /\ Credit(d) <= d
           /\ totalBits' < MinData => Credit(d) = 0
  <1> DEFINE S == {i \in 1..d :
                     OkToUseData(totalBits', numBitsOfEntropy + i, numBitsSampled)}
  <1>1. IsFiniteSet(1..d) /\ Cardinality(1..d) = d
    <2>1. 1 \in Int /\ d \in Int
      OBVIOUS
    <2>2. /\ IsFiniteSet(1..d)
          /\ Cardinality(1..d) = IF 1 > d THEN 0 ELSE d - 1 + 1
      BY <2>1, FS_Interval
    <2>3. QED
      BY <2>2
  <1>2. S \subseteq 1..d
    OBVIOUS
  <1>3. IsFiniteSet(S) /\ Cardinality(S) <= d
    BY <1>1, <1>2, FS_Subset
  <1>4. Cardinality(S) \in Nat
    BY <1>3, FS_CardinalityType
  <1>5. ASSUME totalBits' < MinData PROVE Cardinality(S) = 0
    <2>1. S = {}
      BY <1>5, CounterAssumption DEF OkToUseData
    <2>2. QED
      BY <2>1, FS_EmptySet
  <1>6. QED
    BY <1>3, <1>4, <1>5 DEF Credit

-----------------------------------------------------------------------------
\* The run counters are the run of equal samples, less the faults already reported.
RunCounted ==
    /\ ~Counting => run = 0
    /\ run = 0 => seq[0] = 0 /\ seq[1] = 0 /\ verdict = TRUE
    /\ run > 0 => /\ seq[1 - prevBit] = 0
                  /\ verdict = FALSE <=> seq[prevBit] = 0
                  /\ \E q \in 0..run : run = q * (MaxSequence + 1) + seq[prevBit]

\* Samples that can have earned credit when k of the block were fed.
Earning(bits, k) ==
    LET open == bits - MinData + 1
    IN  IF open <= 0 THEN 0 ELSE IF open <= k THEN open ELSE k

\* The level of a block under way, and of one that ended.
LevelEarned ==
    /\ entropyLevel <= MaxHalvings * Earning(totalBits, IF verdict THEN n ELSE n + 1)
    /\ pc = "extract" => entropyLevel <= MaxHalvings * Earning(totalBits, n)

Inv == TypeOK /\ (pc = "extract" => n < BlockBits) /\ WindowFits /\ TotalsScaled
       /\ RunCounted /\ LevelEarned

\* One more sample earns for at most one sample more, if the gate is open.
LEMMA EarningGrows ==
    ASSUME NEW bits \in Nat, NEW k \in Nat
    PROVE  /\ Earning(bits, k) \in Nat
           /\ Earning(bits + 1, k + 1) \in Nat
           /\ Earning(bits, k) <= Earning(bits + 1, k + 1)
           /\ bits + 1 >= MinData => Earning(bits + 1, k + 1) = Earning(bits, k) + 1
  BY CounterAssumption DEF Earning

LEMMA InitInv == Init => Inv
  <1> SUFFICES ASSUME Init PROVE Inv
    OBVIOUS
  <1> USE CounterAssumption, EntropyAssumption
  <1>1. TypeOK
    <2>1. 0 \in Context /\ 0 \in 0..(MaxCount - 1) /\ 0 \in 0..MaxSequence /\ 0 \in 0..BlockBits
      BY DEF Context
    <2>2. table \in [BOOLEAN -> [Context -> [Bit -> 0..(MaxCount - 1)]]]
      BY <2>1 DEF Init
    <2>3. seq \in [Bit -> 0..MaxSequence] /\ total \in [Bit -> Nat]
      BY <2>1 DEF Init
    <2>4. QED
      BY <2>1, <2>2, <2>3 DEF Init, TypeOK
  <1>2. WindowFits
    BY DEF Init, WindowFits
  <1>3. LevelEarned
    <2>1. Earning(totalBits, n) \in Nat
      BY EarningGrows DEF Init
    <2>2. MaxHalvings * Earning(totalBits, n) \in Nat
      BY <2>1
    <2>3. QED
      BY <2>2 DEF Init, LevelEarned
  <1>4. TotalsScaled /\ RunCounted
    BY DEF Init, TotalsScaled, RunCounted, Counting
  <1>5. QED
    BY <1>1, <1>2, <1>3, <1>4 DEF Init, Inv

\* What every call leaves well typed.
LEMMA ObserveType ==
    ASSUME TypeOK, NEW bit \in Bit, Observe(bit)
    PROVE  /\ prevBits' \in Context /\ prevBit' = bit
           /\ totalBits' = totalBits + 1 /\ totalBits' \in Nat
           /\ run' \in Nat
           /\ Seen(bit) \in [Bit -> Nat]
  <1> USE CounterAssumption
  <1>1. prevBits' \in Context
    <2>1. 2 * prevBits + prevBit \in Nat
      BY DEF TypeOK, Context
    <2>2. QED
      BY <2>1, ModRange DEF Observe, Context
  <1>2. QED
    BY <1>1 DEF Observe, TypeOK, Seen

\* A sample that is counted extends the run or begins one; the run counter of its bit
\* follows, up to the reset of a fault.
LEMMA RunStep ==
    ASSUME Inv, NEW bit \in Bit, Observe(bit), Counting
    PROVE  /\ run' > 0
           /\ \E q \in 0..run' : run' = q * (MaxSequence + 1) + (seq[bit] + 1)
  <1> USE CounterAssumption DEF Inv, TypeOK
  <1>1. CASE run > 0 /\ bit = prevBit
    <2>1. PICK q \in 0..run : run = q * (MaxSequence + 1) + seq[prevBit]
      BY <1>1 DEF RunCounted
    <2>2. run' = run + 1
      BY <1>1 DEF Observe
    <2>3. q * (MaxSequence + 1) \in Nat
      OBVIOUS
    <2>4. q \in 0..run' /\ run' = q * (MaxSequence + 1) + (seq[bit] + 1)
      BY <1>1, <2>1, <2>2, <2>3
    <2>5. run' > 0
      BY <1>1, <2>2
    <2>6. QED
      BY <2>4, <2>5, Zenon
  <1>2. CASE ~(run > 0 /\ bit = prevBit)
    <2>1. run' = 1
      BY <1>2 DEF Observe
    <2>2. seq[bit] = 0
      <3>1. CASE run = 0
        BY <3>1 DEF RunCounted
      <3>2. CASE run > 0
        <4>1. bit = 1 - prevBit
          BY <1>2, <3>2
        <4>2. QED
          BY <3>2, <4>1 DEF RunCounted
      <3>3. QED
        BY <3>1, <3>2
    <2>3. run' = 0 * (MaxSequence + 1) + (seq[bit] + 1) /\ 0 \in 0..run'
      BY <2>1, <2>2
    <2>4. QED
      BY <2>1, <2>3
  <1>3. QED
    BY <1>1, <1>2

\* The beginning of a block.
LEMMA ExtractInv ==
    ASSUME Inv, Extract
    PROVE  Inv'
  <1> USE CounterAssumption, EntropyAssumption
  <1>1. TypeOK' /\ n' < BlockBits
    BY DEF Extract, Inv, TypeOK
  <1>2. WindowFits' /\ TotalsScaled' /\ RunCounted'
    BY DEF Extract, Inv, WindowFits, TotalsScaled, RunCounted, Counting
  <1>3. LevelEarned'
    <2>1. totalBits \in Nat
      BY DEF Inv, TypeOK
    <2>2. Earning(totalBits, 0) \in Nat /\ Earning(totalBits, 1) \in Nat
      BY <2>1, EarningGrows
    <2>3. 0 <= MaxHalvings * Earning(totalBits, 0) /\ 0 <= MaxHalvings * Earning(totalBits, 1)
      BY <2>2
    <2>4. entropyLevel' = 0 /\ n' = 0 /\ totalBits' = totalBits
      BY DEF Extract
    <2>5. QED
      BY <2>3, <2>4 DEF LevelEarned
  <1>4. QED
    BY <1>1, <1>2, <1>3 DEF Inv

\* A fault: the run counters start again, the totals may be left unscaled.
LEMMA FaultInv ==
    ASSUME Inv, NEW bit \in Bit, Fault(bit)
    PROVE  Inv'
  <1> USE CounterAssumption, EntropyAssumption
  <1>0. TypeOK /\ Observe(bit) /\ Counting
    BY DEF Inv, Fault, Stuck
  <1>1. /\ prevBits' \in Context /\ prevBit' = bit
        /\ totalBits' = totalBits + 1 /\ totalBits' \in Nat
        /\ run' \in Nat
        /\ total' \in [Bit -> Nat]
    BY <1>0, ObserveType DEF Fault
  <1>2. TypeOK'
    <2>1. 0 \in 0..MaxSequence /\ seq' = [b \in Bit |-> 0]
      BY DEF Fault
    <2>2. seq' \in [Bit -> 0..MaxSequence]
      BY <2>1
    <2>3. skipped' \in BOOLEAN
      BY DEF Fault
    <2>4. /\ verdict' = FALSE /\ pc' = "idle"
          /\ table' = table /\ n' = n /\ numBitsSampled' = numBitsSampled
          /\ numBitsOfEntropy' = numBitsOfEntropy /\ entropyLevel' = entropyLevel
      BY DEF Fault, window
    <2>5. QED
      BY <1>0, <1>1, <2>2, <2>3, <2>4 DEF TypeOK
  <1>3. WindowFits'
    BY DEF Fault, Inv, WindowFits, window
  <1>4. TotalsScaled'
    BY <1>0, <1>1 DEF Fault, Inv, TypeOK, TotalsScaled, Seen
  <1>5. RunCounted'
    <2>1. run' > 0 /\ \E q \in 0..run' : run' = q * (MaxSequence + 1) + (seq[bit] + 1)
      BY <1>0, RunStep
    <2>2. seq[bit] = MaxSequence
      <3>1. seq[bit] + 1 > MaxSequence
        BY DEF Fault, Stuck
      <3>2. seq[bit] \in 0..MaxSequence
        BY <1>0 DEF TypeOK
      <3>3. QED
        BY <3>1, <3>2
    <2>3. PICK q \in 0..run' : run' = q * (MaxSequence + 1) + (MaxSequence + 1)
      BY <2>1, <2>2
    <2>4. run' = (q + 1) * (MaxSequence + 1) + 0
      BY <2>3
    <2>5. q + 1 \in 0..run'
      <3>1. q * (MaxSequence + 1) >= q
        OBVIOUS
      <3>2. q * (MaxSequence + 1) \in Nat
        OBVIOUS
      <3>3. QED
        BY <2>3, <3>1, <3>2
    <2>6. seq'[prevBit'] = 0 /\ seq'[1 - prevBit'] = 0 /\ verdict' = FALSE
      BY <1>1 DEF Fault
    <2>7. Counting'
      BY <1>0 DEF Fault, Counting, window
    <2>8. QED
      BY <1>1, <2>1, <2>4, <2>5, <2>6, <2>7 DEF RunCounted
  <1>6. LevelEarned'
    <2>1. n \in Nat /\ totalBits \in Nat
      BY <1>0 DEF TypeOK
    <2>2. /\ Earning(totalBits, n) \in Nat /\ Earning(totalBits + 1, n + 1) \in Nat
          /\ Earning(totalBits, n) <= Earning(totalBits + 1, n + 1)
      BY <2>1, EarningGrows
    <2>3. MaxHalvings * Earning(totalBits, n) <= MaxHalvings * Earning(totalBits + 1, n + 1)
      BY <2>2, Monotone
    <2>4. entropyLevel <= MaxHalvings * Earning(totalBits, n)
      BY DEF Fault, Inv, LevelEarned
    <2>5. entropyLevel \in Nat /\ MaxHalvings * Earning(totalBits, n) \in Nat
          /\ MaxHalvings * Earning(totalBits + 1, n + 1) \in Nat
      BY <1>0, <2>2 DEF TypeOK
    <2>6. entropyLevel <= MaxHalvings * Earning(totalBits + 1, n + 1)
      BY <2>3, <2>4, <2>5
    <2>7. entropyLevel' = entropyLevel /\ n' = n /\ verdict' = FALSE /\ pc' = "idle"
      BY DEF Fault, window
    <2>8. QED
      BY <1>1, <2>6, <2>7 DEF LevelEarned
  <1>7. QED
    BY <1>2, <1>3, <1>4, <1>5, <1>6 DEF Inv, Fault

\* The window takes a sample; when it is full, samples and entropy are both halved.
LEMMA WindowStep ==
    ASSUME Inv, NEW d \in 0..MaxHalvings,
           numBitsSampled' = IF Full THEN MinData \div 2 ELSE numBitsSampled + 1,
           numBitsOfEntropy' = IF Full THEN (numBitsOfEntropy + d) \div 2
                                       ELSE numBitsOfEntropy + d
    PROVE  /\ numBitsSampled' \in Nat /\ numBitsOfEntropy' \in Nat /\ WindowFits'
           /\ Counting => Counting'
  <1> USE CounterAssumption, EntropyAssumption
  <1>1. /\ numBitsSampled \in Nat /\ numBitsOfEntropy \in Nat
        /\ numBitsSampled < MinData
        /\ numBitsOfEntropy <= MaxHalvings * (numBitsSampled + 1)
    BY DEF Inv, TypeOK, WindowFits
  <1>2. /\ MaxHalvings * (numBitsSampled + 1) \in Nat
        /\ MaxHalvings * (numBitsSampled + 2) = MaxHalvings * (numBitsSampled + 1) + MaxHalvings
    BY <1>1
  <1>3. numBitsOfEntropy + d <= MaxHalvings * (numBitsSampled + 2)
    BY <1>1, <1>2
  <1>4. CASE Full
    <2> DEFINE h == MinData \div 2
               e == (numBitsOfEntropy + d) \div 2
               b == MaxHalvings * (h + 1)
    <2>1. h \in Nat /\ 2 * h <= MinData /\ MinData <= 2 * h + 1
      BY Half
    <2>2. e \in Nat /\ 2 * e <= numBitsOfEntropy + d
      BY <1>1, Half
    <2>3. numBitsSampled + 2 <= 2 * (h + 1)
      BY <1>1, <1>4, <2>1 DEF Full
    <2> HIDE DEF h, e
    <2>4. MaxHalvings * (numBitsSampled + 2) <= MaxHalvings * (2 * (h + 1))
      BY <1>1, <2>1, <2>3, Monotone
    <2>5. MaxHalvings * (2 * (h + 1)) = 2 * b
      BY <2>1
    <2>6. b \in Nat
      BY <2>1
    <2>7. e <= b
      BY <1>1, <1>2, <1>3, <2>2, <2>4, <2>5, <2>6
    <2>8. h < MinData
      BY <2>1
    <2>9. numBitsSampled' = h /\ numBitsOfEntropy' = e
      BY <1>4 DEF h, e
    <2>10. h > MinSampleSize
      BY DEF h
    <2>11. QED
      BY <2>1, <2>2, <2>7, <2>8, <2>9, <2>10 DEF WindowFits, Counting
  <1>5. CASE ~Full
    <2>1. numBitsSampled' = numBitsSampled + 1 /\ numBitsOfEntropy' = numBitsOfEntropy + d
      BY <1>5
    <2>2. numBitsSampled' < MinData
      BY <1>1, <1>5, <2>1 DEF Full
    <2>3. numBitsSampled' + 1 = numBitsSampled + 2
      BY <1>1, <2>1
    <2>4. QED
      BY <1>1, <1>3, <2>1, <2>2, <2>3 DEF WindowFits, Counting
  <1>6. QED
    BY <1>4, <1>5

\* A sample that is learnt.
LEMMA LearnInv ==
    ASSUME Inv, NEW bit \in Bit, NEW d, Learn(bit, d)
    PROVE  Inv'
  <1> USE CounterAssumption, EntropyAssumption
  <1>0. TypeOK /\ Observe(bit) /\ ~Stuck(bit) /\ n < BlockBits /\ n \in Nat
    BY DEF Inv, TypeOK, Learn
  <1>1. /\ prevBits' \in Context /\ prevBit' = bit
        /\ totalBits' = totalBits + 1 /\ totalBits' \in Nat
        /\ run' \in Nat
        /\ Seen(bit) \in [Bit -> Nat]
    BY <1>0, ObserveType
  <1>2. Even \in BOOLEAN
    BY DEF Even
  <1>3. table \in [BOOLEAN -> [Context -> [Bit -> Cell]]]
    BY <1>0 DEF TypeOK, Cell
  <1>4. d \in 0..MaxHalvings
    <2>1. table[Even][prevBits'] \in [Bit -> Cell]
      BY <1>1, <1>2, <1>3
    <2>2. d \in Halvings(table[Even][prevBits'], bit)
      BY DEF Learn
    <2>3. QED
      BY <2>1, <2>2, HalvingsBounded
  <1>5. table' \in [BOOLEAN -> [Context -> [Bit -> Cell]]]
    BY <1>1, <1>2, <1>3, CountedTables DEF Learn
  <1>6. /\ numBitsSampled' \in Nat /\ numBitsOfEntropy' \in Nat /\ WindowFits'
        /\ Counting => Counting'
    BY <1>4, WindowStep DEF Learn
  <1>7. /\ Credit(d) \in Nat /\ Credit(d) <= d
        /\ totalBits' < MinData => Credit(d) = 0
        /\ entropyLevel' = entropyLevel + Credit(d)
    <2>1. d \in Nat
      BY <1>4
    <2>2. entropyLevel' = entropyLevel + Credit(d)
      BY DEF Learn, Credit
    <2>3. QED
      BY <1>1, <2>1, <2>2, CreditBounds
  <1>8. seq' \in [Bit -> 0..MaxSequence]
    <2>1. CASE Counting
      BY <1>0, <2>1 DEF Learn, Stuck, TypeOK
    <2>2. CASE ~Counting
      BY <1>0, <2>2 DEF Learn, TypeOK
    <2>3. QED
      BY <2>1, <2>2
  <1>9. total' \in [Bit -> Nat] /\ TotalsScaled'
    <2> DEFINE t == Seen(bit)
    <2>1. t \in [Bit -> Nat] /\ total' = ScaledTotals(t) /\ skipped' = skipped
      BY <1>1 DEF Learn
    <2>2. skipped \/ (t[0] <= MinData /\ t[1] <= MinData)
      BY <1>0 DEF Inv, TotalsScaled, TypeOK, Seen
    <2> HIDE DEF t
    <2>3. CASE total' = [b \in Bit |-> t[b] \div 2]
      <3>1. \A b \in Bit : t[b] \div 2 \in Nat /\ (t[b] <= MinData => t[b] \div 2 < MinData)
        BY <2>1, Half
      <3>2. QED
        BY <2>1, <2>2, <2>3, <3>1 DEF TotalsScaled
    <2>4. CASE total' = t /\ t[0] # MinData /\ t[1] # MinData
      BY <2>1, <2>2, <2>4 DEF TotalsScaled
    <2>5. CASE total' = t /\ ~(t[0] <= MinData /\ t[1] <= MinData)
      BY <2>1, <2>2, <2>5 DEF TotalsScaled
    <2>6. QED
      BY <2>1, <2>3, <2>4, <2>5 DEF ScaledTotals
  <1>10. n' = n + 1 /\ verdict' = TRUE /\ pc' \in {"idle", "extract"}
         /\ (pc' = "extract" => n' < BlockBits) /\ n' \in 0..BlockBits
    BY <1>0 DEF Learn, TypeOK
  <1>11. TypeOK'
    <2>1. skipped' \in BOOLEAN /\ entropyLevel' \in Nat
      BY <1>0, <1>7 DEF Learn, TypeOK
    <2>2. QED
      BY <1>1, <1>5, <1>6, <1>8, <1>9, <1>10, <2>1 DEF TypeOK, Cell
  <1>12. RunCounted'
    <2>1. CASE Counting
      <3>1. run' > 0 /\ \E q \in 0..run' : run' = q * (MaxSequence + 1) + (seq[bit] + 1)
        BY <1>0, <2>1, RunStep
      <3>2. seq'[prevBit'] = seq[bit] + 1 /\ seq'[1 - prevBit'] = 0
        BY <1>0, <1>1, <2>1 DEF Learn, TypeOK
      <3>3. seq'[prevBit'] # 0
        BY <1>0, <3>2 DEF TypeOK
      <3>4. QED
        BY <1>6, <1>10, <2>1, <3>1, <3>2, <3>3 DEF RunCounted
    <2>2. CASE ~Counting
      <3>1. run' = 0 /\ seq' = seq /\ run = 0
        BY <1>0, <2>2 DEF Learn, Observe, Inv, RunCounted
      <3>2. QED
        BY <1>10, <3>1 DEF Inv, RunCounted
    <2>3. QED
      BY <2>1, <2>2
  <1>13. LevelEarned'
    <2> DEFINE a == Earning(totalBits, n)
               b == Earning(totalBits + 1, n + 1)
    <2>1. totalBits \in Nat /\ entropyLevel \in Nat
      BY <1>0 DEF TypeOK
    <2>2. /\ a \in Nat /\ b \in Nat /\ a <= b
          /\ totalBits + 1 >= MinData => b = a + 1
      BY <1>0, <2>1, EarningGrows
    <2>3. entropyLevel <= MaxHalvings * a
      BY DEF Learn, Inv, LevelEarned
    <2> HIDE DEF a, b
    <2>4. MaxHalvings * a \in Nat /\ MaxHalvings * b \in Nat /\ MaxHalvings * a <= MaxHalvings * b
      BY <2>2, Monotone
    <2>5. entropyLevel' <= MaxHalvings * b
      <3>1. CASE totalBits + 1 < MinData
        BY <1>1, <1>7, <2>1, <2>3, <2>4, <3>1
      <3>2. CASE totalBits + 1 >= MinData
        <4>1. MaxHalvings * b = MaxHalvings * a + MaxHalvings
          BY <2>2, <3>2
        <4>2. QED
          BY <1>4, <1>7, <2>1, <2>3, <2>4, <4>1
      <3>3. QED
        BY <2>1, <3>1, <3>2
    <2>6. QED
      BY <1>1, <1>10, <2>5 DEF LevelEarned, b
  <1>14. QED
    BY <1>6, <1>9, <1>10, <1>11, <1>12, <1>13 DEF Inv

\* Every step keeps the invariant.
LEMMA NextInv == Inv /\ [Next]_vars => Inv'
  <1> SUFFICES ASSUME Inv, [Next]_vars PROVE Inv'
    OBVIOUS
  <1>1. CASE Next
    <2>1. CASE Extract
      BY <2>1, ExtractInv
    <2>2. CASE \E bit \in Bit : Fault(bit)
      BY <2>2, FaultInv
    <2>3. CASE \E bit \in Bit, d \in 0..(2 * MaxHalvings) : Learn(bit, d)
      BY <2>3, LearnInv
    <2>4. CASE UNCHANGED vars
      BY <2>4 DEF vars, window, Inv, TypeOK, WindowFits, TotalsScaled, RunCounted,
                  Counting, LevelEarned
    <2>5. QED
      BY <1>1, <2>1, <2>2, <2>3, <2>4 DEF Next, Exhausted
  <1>2. CASE UNCHANGED vars
    BY <1>2 DEF vars, window, Inv, TypeOK, WindowFits, TotalsScaled, RunCounted, Counting,
                LevelEarned
  <1>3. QED
    BY <1>1, <1>2

LEMMA AlwaysInv == Spec => []Inv
  BY InitInv, NextInv, PTL DEF Spec

\* Every variable keeps its type: no counter of a table is left at INM_MAX_COUNT and no
\* run counter passes INM_MAX_SEQUENCE.
THEOREM CheckTypeOK == Spec => []TypeOK
  <1>1. Inv => TypeOK
    BY DEF Inv
  <1>2. QED
    BY <1>1, AlwaysInv, PTL

\* The window is halved in time, and its entropy with it: no sample can carry it past
\* the value the test of line 121 looks for.
THEOREM CheckWindowFits == Spec => []WindowFits
  <1>1. Inv => WindowFits
    BY DEF Inv
  <1>2. QED
    BY <1>1, AlwaysInv, PTL

\* A total passes INM_MIN_DATA only through a fault reported on the sample that
\* brought one there.
THEOREM CheckTotalsScaled == Spec => []TotalsScaled
  <1>1. Inv => TotalsScaled
    BY DEF Inv
  <1>2. QED
    BY <1>1, AlwaysInv, PTL

\* A fault is reported at every multiple of INM_MAX_SEQUENCE + 1 equal samples and
\* nowhere else.
THEOREM CheckFaultPeriod == Spec => []FaultPeriod
  <1>1. Inv => FaultPeriod
    <2> SUFFICES ASSUME Inv PROVE FaultPeriod
      OBVIOUS
    <2> USE CounterAssumption DEF Inv, TypeOK
    <2>1. ASSUME verdict = FALSE
          PROVE  \E q \in 1..run : run = q * (MaxSequence + 1)
      <3>1. run > 0 /\ seq[prevBit] = 0
        BY <2>1 DEF RunCounted
      <3>2. PICK q \in 0..run : run = q * (MaxSequence + 1) + 0
        BY <3>1 DEF RunCounted
      <3>3. q # 0 /\ q * (MaxSequence + 1) \in Nat
        BY <3>1, <3>2
      <3>4. q \in 1..run /\ run = q * (MaxSequence + 1)
        BY <3>2, <3>3
      <3>5. QED
        BY <3>4
    <2>2. ASSUME NEW p \in 1..run, run = p * (MaxSequence + 1)
          PROVE  verdict = FALSE
      <3>1. run > 0
        OBVIOUS
      <3>2. PICK q \in 0..run : run = q * (MaxSequence + 1) + seq[prevBit]
        BY <3>1 DEF RunCounted
      <3>3. seq[prevBit] \in 0..((MaxSequence + 1) - 1)
        OBVIOUS
      <3>4. p * (MaxSequence + 1) = q * (MaxSequence + 1) + seq[prevBit]
        BY <2>2, <3>2
      <3>5. p \in Nat /\ q \in Nat /\ MaxSequence + 1 \in Nat
        OBVIOUS
      <3>6. seq[prevBit] = 0
        BY <3>3, <3>4, <3>5, NoRemainder
      <3>7. QED
        BY <3>1, <3>6 DEF RunCounted
    <2>3. QED
      BY <2>1, <2>2 DEF FaultPeriod
  <1>2. QED
    BY <1>1, AlwaysInv, PTL

\* The level of a block is earned by its own samples, after INM_MIN_DATA samples.
THEOREM CheckCreditInBlock == Spec => []CreditInBlock
  <1>1. Inv => CreditInBlock
    BY DEF Inv, LevelEarned, Earning, CreditInBlock
  <1>2. QED
    BY <1>1, AlwaysInv, PTL
\* Every sample is taken: whatever the counters of its context, the loop over its
\* probability ends after at most MaxHalvings halvings, and what Learn does with them is
\* done unless the run is too long (healthcheck.c:195-211).
SampleTaken ==
    \A e \in BOOLEAN, c \in Context, bit \in Bit :
        /\ Halvings(table[e][c], bit) # {}
        /\ Halvings(table[e][c], bit) \subseteq 0..MaxHalvings

THEOREM CheckSampleTaken == Spec => []SampleTaken
  <1>1. Inv => SampleTaken
    <2> SUFFICES ASSUME Inv, NEW e \in BOOLEAN, NEW c \in Context, NEW bit \in Bit
                 PROVE  /\ Halvings(table[e][c], bit) # {}
                        /\ Halvings(table[e][c], bit) \subseteq 0..MaxHalvings
      BY DEF SampleTaken
    <2>1. table[e][c] \in [Bit -> Cell]
      BY DEF Inv, TypeOK, Cell
    <2>2. QED
      BY <2>1, HalvingsFound, HalvingsBounded
  <1>2. QED
    BY <1>1, AlwaysInv, PTL

=============================================================================
