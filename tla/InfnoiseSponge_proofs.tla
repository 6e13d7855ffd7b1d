------------------------ MODULE InfnoiseSponge_proofs ------------------------
(***************************************************************************)
(* Theorems about InfnoiseSponge, for every set of multipliers, lengths    *)
(* and entropy levels.                                                     *)
(***************************************************************************)
EXTENDS InfnoiseSponge, TLAPS

\* What the driver knows between two reads: the bytes left are part of what the last
\* block bought, and the sponge was permuted after the last extraction.
Inv ==
    /\ TypeOK
    /\ keccak_bytes_left <= bought
    /\ shown = FALSE
    /\ written <= room

\* The lesser of two lengths is one of them and exceeds neither.
LEMMA LeastNat ==
    ASSUME NEW a \in Nat, NEW b \in Nat
    PROVE  Least(a, b) \in Nat /\ Least(a, b) <= a /\ Least(a, b) <= b
  BY DEF Least

\* Rounding up to whole lanes stays within any whole number of lanes.
LEMMA StoredBound ==
    ASSUME NEW k \in Nat, NEW r \in Nat, k <= r, r % Lane = 0
    PROVE  Stored(k) \in Nat /\ Stored(k) <= r
  <1> DEFINE q == (k + Lane - 1) \div Lane
             p == r \div Lane
  <1>0. Lane \in Nat /\ Lane > 0
    BY SizeAssumption
  <1>1. q \in Nat /\ Lane * q <= k + Lane - 1
    BY <1>0, Z3
  <1>2. p \in Nat /\ r = Lane * p
    BY <1>0, Z3
  <1> HIDE DEF q, p
  <1>3. q <= p
    <2> SUFFICES ASSUME q >= p + 1 PROVE FALSE
      BY <1>1, <1>2
    <2>1. Lane * q >= Lane * (p + 1)
      BY <1>0, <1>1, <1>2, Z3
    <2>2. Lane * (p + 1) = r + Lane
      BY <1>0, <1>2, Z3
    <2> QED
      BY <1>0, <1>1, <2>1, <2>2
  <1>4. q * Lane \in Nat /\ q * Lane <= r
    BY <1>0, <1>1, <1>2, <1>3, Z3
  <1> QED
    BY <1>4 DEF Stored, q

\* The buffer of a reader holds what it asked for or a whole chunk, and whole lanes.
LEMMA RoomFits ==
    ASSUME NEW max_len \in Requests
    PROVE  /\ Room(max_len) \in Nat /\ Room(max_len) % Lane = 0
           /\ Room(max_len) = max_len \/ Room(max_len) = ChunkMax
  BY SizeAssumption DEF Room

\* A block that is on target buys a number of bytes.
LEMMA BudgetNat ==
    ASSUME TypeOK, NEW entropy \in Levels
    PROVE  /\ Budget(entropy) \in Nat
           /\ Budget(entropy) \in {e \div 8 : e \in Levels}
                                     \cup {m * Unit : m \in 0..MaxMultiplier}
  <1>1. entropy \in Nat /\ infnoise_multiplier \in Nat /\ MaxMultiplier \in Nat /\ Unit \in Nat
    BY SizeAssumption DEF TypeOK
  <1>2. CASE infnoise_multiplier = 0
    <2>1. entropy \div 8 \in Nat
      BY <1>1
    <2> QED
      BY <1>2, <2>1 DEF Budget
  <1>3. CASE infnoise_multiplier # 0
    <2> DEFINE m == Least(infnoise_multiplier, MaxMultiplier)
    <2>1. m \in 0..MaxMultiplier
      BY <1>1, LeastNat
    <2>2. m * Unit \in Nat
      BY <1>1, <2>1
    <2>3. Budget(entropy) = m * Unit
      BY <1>3 DEF Budget
    <2> QED
      BY <2>1, <2>2, <2>3
  <1> QED
    BY <1>2, <1>3

\* A squeeze of at most max_len bytes fits the buffer of the reader.
LEMMA SqueezeFits ==
    ASSUME NEW max_len \in Requests, NEW left \in Nat
    PROVE  LET k == Least(ChunkMax, Least(max_len, left))
           IN  /\ k \in Nat /\ k <= left /\ k <= ChunkMax
               /\ Stored(k) \in Nat /\ Stored(k) <= Room(max_len)
  <1> DEFINE k == Least(ChunkMax, Least(max_len, left))
  <1>1. max_len \in Nat /\ ChunkMax \in Nat
    BY SizeAssumption
  <1>2. Least(max_len, left) \in Nat /\ Least(max_len, left) <= left
            /\ Least(max_len, left) <= max_len
    BY <1>1, LeastNat
  <1>3. k \in Nat /\ k <= ChunkMax /\ k <= Least(max_len, left)
    BY <1>1, <1>2, LeastNat
  <1> HIDE DEF k
  <1>4. k <= left /\ k <= max_len
    BY <1>1, <1>2, <1>3
  <1>5. k <= Room(max_len)
    BY <1>1, <1>3, <1>4, RoomFits
  <1>6. Stored(k) \in Nat /\ Stored(k) <= Room(max_len)
    BY <1>3, <1>5, RoomFits, StoredBound
  <1> QED
    BY <1>3, <1>4, <1>6 DEF k

\* What a squeeze of no more than is left leaves behind.
LEMMA SqueezeType ==
    ASSUME NEW k \in Nat, NEW left \in Nat, k <= left, Stored(k) \in Nat, Squeeze(k, left)
    PROVE  /\ keccak_bytes_left' \in Nat /\ keccak_bytes_left' <= left
           /\ ret' \in Nat /\ whitened' \in Nat /\ written' \in Nat
           /\ shown' = FALSE /\ shown' \in BOOLEAN
  <1>1. keccak_bytes_left' \in Nat /\ keccak_bytes_left' <= left
    BY DEF Squeeze
  <1>2. ret' \in Nat /\ whitened' \in Nat /\ written' \in Nat
    BY DEF Squeeze
  <1>3. shown' = FALSE /\ shown' \in BOOLEAN
    BY DEF Squeeze
  <1> QED
    BY <1>1, <1>2, <1>3

\* A read that brings nothing keeps what the driver knows.
LEMMA FruitlessInv ==
    ASSUME Inv, NEW r \in Nat \cup {Error}, Fruitless(r),
           NEW max_len \in Requests, room' = Room(max_len),
           UNCHANGED <<infnoise_multiplier, present>>
    PROVE  Inv'
  <1>1. room' \in Nat
    BY RoomFits
  <1>2. TypeOK'
    BY <1>1 DEF Inv, TypeOK, Fruitless, Error
  <1> QED
    BY <1>1, <1>2 DEF Inv, TypeOK, Fruitless

\* Reading what is left of a budget.
LEMMA ReadLeftInv ==
    ASSUME Inv, NEW max_len \in Requests, ReadLeft(max_len)
    PROVE  Inv'
  <1> DEFINE k == Least(ChunkMax, Least(max_len, keccak_bytes_left))
  <1>1. /\ k \in Nat /\ k <= keccak_bytes_left
        /\ Stored(k) \in Nat /\ Stored(k) <= Room(max_len)
    BY SqueezeFits DEF Inv, TypeOK
  <1>2. Squeeze(k, keccak_bytes_left) /\ room' = Room(max_len)
    BY DEF ReadLeft
  <1> HIDE DEF k
  <1>3. room' \in Nat
    BY <1>2, RoomFits
  <1>4. UNCHANGED <<infnoise_multiplier, present, bought>>
    BY DEF ReadLeft
  <1>5. /\ keccak_bytes_left' \in Nat /\ ret' \in Nat /\ whitened' \in Nat
        /\ written' \in Nat /\ shown' \in BOOLEAN
    BY <1>1, <1>2, SqueezeType DEF Inv, TypeOK
  <1>6. TypeOK'
    BY <1>3, <1>4, <1>5 DEF Inv, TypeOK
  <1> QED
    BY <1>1, <1>2, <1>4, <1>6 DEF Inv, TypeOK, Squeeze

\* A raw read leaves the sponge and its budget alone.
LEMMA ReadRawInv ==
    ASSUME Inv, NEW max_len \in Requests, NEW entropy \in Levels, ReadRaw(max_len, entropy)
    PROVE  Inv'
  <1>1. max_len \in Nat /\ RawBytes \in Nat /\ RawBytes <= ChunkMax
    BY SizeAssumption
  <1>2. /\ ret' \in Nat /\ ret' <= max_len /\ ret' <= RawBytes
        /\ written' = ret' /\ whitened' = 0
    BY <1>1, LeastNat DEF ReadRaw
  <1>3. room' = Room(max_len) /\ room' \in Nat
    BY RoomFits DEF ReadRaw
  <1>4. written' <= room'
    BY <1>1, <1>2, <1>3, RoomFits, SizeAssumption
  <1>5. UNCHANGED <<keccak_bytes_left, infnoise_multiplier, present, shown, bought>>
    BY DEF ReadRaw
  <1>6. TypeOK'
    BY <1>2, <1>3, <1>5 DEF Inv, TypeOK
  <1> QED
    BY <1>4, <1>5, <1>6 DEF Inv

\* Absorbing a block and the first squeeze.
LEMMA ReadAbsorbInv ==
    ASSUME Inv, NEW max_len \in Requests, NEW entropy \in Levels,
           ReadAbsorb(max_len, entropy)
    PROVE  Inv'
  <1> DEFINE budget == Budget(entropy)
             k == Least(ChunkMax, Least(max_len, budget))
  <1>1. budget \in Nat
    BY BudgetNat DEF Inv
  <1>2. /\ k \in Nat /\ k <= budget
        /\ Stored(k) \in Nat /\ Stored(k) <= Room(max_len)
    BY <1>1, SqueezeFits
  <1>3. /\ Squeeze(k, budget) /\ bought' = budget
        /\ room' = Room(max_len)
    BY DEF ReadAbsorb
  <1> HIDE DEF k, budget
  <1>4. room' \in Nat
    BY <1>3, RoomFits
  <1>5. UNCHANGED <<infnoise_multiplier, present>>
    BY DEF ReadAbsorb
  <1>6. /\ keccak_bytes_left' \in Nat /\ ret' \in Nat /\ whitened' \in Nat
        /\ written' \in Nat /\ shown' \in BOOLEAN
    BY <1>1, <1>2, <1>3, SqueezeType
  <1>7. TypeOK'
    BY <1>1, <1>3, <1>4, <1>5, <1>6 DEF Inv, TypeOK
  <1> QED
    BY <1>1, <1>2, <1>3, <1>7 DEF Inv, Squeeze

\* Before the first read nothing was squeezed, returned or bought.
LEMMA InitInv == Init => Inv
  <1> SUFFICES ASSUME Init PROVE Inv
    OBVIOUS
  <1>1. /\ keccak_bytes_left = 0 /\ infnoise_multiplier \in Multipliers
        /\ ret = 0 /\ whitened = 0 /\ written = 0 /\ room = 0
        /\ bought = 0
    BY DEF Init
  <1>2. present \in BOOLEAN /\ shown = FALSE /\ shown \in BOOLEAN
    BY DEF Init
  <1>3. TypeOK
    BY <1>1, <1>2, SizeAssumption DEF TypeOK
  <1> QED
    BY <1>1, <1>2, <1>3 DEF Inv

\* Every step keeps what the driver knows.
LEMMA StepInv == Inv /\ [Next]_vars => Inv'
  <1> SUFFICES ASSUME Inv, [Next]_vars PROVE Inv'
    OBVIOUS
  <1>1. ASSUME NEW max_len \in Requests, ReadGone(max_len) PROVE Inv'
    BY <1>1, FruitlessInv DEF ReadGone
  <1>2. ASSUME NEW max_len \in Requests, NEW raw \in BOOLEAN, ReadError(max_len, raw)
        PROVE  Inv'
    BY <1>2, FruitlessInv DEF ReadError
  <1>3. ASSUME NEW max_len \in Requests, NEW raw \in BOOLEAN, NEW ok \in BOOLEAN,
               NEW entropy \in Levels, ReadDiscard(max_len, raw, ok, entropy)
        PROVE  Inv'
    <2>1. 0 \in Nat \cup {Error}
      OBVIOUS
    <2> QED
      BY <1>3, <2>1, FruitlessInv DEF ReadDiscard
  <1>4. ASSUME NEW m \in Multipliers, SetMultiplier(m) PROVE Inv'
    BY <1>4 DEF SetMultiplier, Inv, TypeOK
  <1>5. CASE Disconnect
    BY <1>5 DEF Disconnect, Inv, TypeOK
  <1>6. CASE UNCHANGED vars
    BY <1>6 DEF vars, Inv, TypeOK
  <1> QED
    BY <1>1, <1>2, <1>3, <1>4, <1>5, <1>6, ReadLeftInv, ReadRawInv, ReadAbsorbInv
       DEF Next, ReadData

\* The driver knows this at all times.
LEMMA SpecInv == Spec => []Inv
  BY InitInv, StepInv, PTL DEF Spec

\* Every variable keeps its type: the unsigned count of bytes left never wraps.
THEOREM SpongeTypeOK == Spec => []TypeOK
  <1>1. Inv => TypeOK
    BY DEF Inv
  <1> QED
    BY SpecInv, <1>1, PTL

\* The whole lanes a squeeze stores fit the buffer it was given.
THEOREM SpongeStoredFits == Spec => []StoredFits
  <1>1. Inv => StoredFits
    BY DEF Inv, StoredFits
  <1> QED
    BY SpecInv, <1>1, PTL

\* The initial states of the driver are initial states of a random source.
LEMMA InitSource == Init => Source!Init
  BY DEF Init, Source!Init

\* Every step of the driver is one of a random source, or one it does not see.
LEMMA StepSource == Inv /\ [Next]_vars => [Source!Next]_Source!source
  <1> SUFFICES ASSUME Inv, [Next]_vars PROVE [Source!Next]_Source!source
    OBVIOUS
  <1> USE DEF Source!source
  <1>1. ASSUME NEW r, Fruitless(r) PROVE Source!Nothing
    BY <1>1 DEF Fruitless, Source!Nothing
  <1>2. ASSUME NEW max_len \in Requests, ReadLeft(max_len) PROVE Source!Issue
    <2> DEFINE k == Least(ChunkMax, Least(max_len, keccak_bytes_left))
    <2>1. k \in Nat /\ k <= keccak_bytes_left /\ k <= ChunkMax
      BY SqueezeFits DEF Inv, TypeOK
    <2>2. Squeeze(k, keccak_bytes_left) /\ UNCHANGED bought
      BY <1>2 DEF ReadLeft
    <2> HIDE DEF k
    <2>3. whitened' \in 0..ChunkMax
      BY <2>1, <2>2, SizeAssumption DEF Squeeze
    <2>4. (bought - keccak_bytes_left)' = (bought - keccak_bytes_left) + whitened'
      BY <2>1, <2>2 DEF Squeeze, Inv, TypeOK
    <2>5. (bought - keccak_bytes_left)' <= bought
      BY <2>1, <2>2 DEF Squeeze, Inv, TypeOK
    <2> QED
      BY <2>2, <2>3, <2>4, <2>5 DEF Squeeze, Source!Issue, Inv, TypeOK
  <1>3. ASSUME NEW max_len \in Requests, NEW entropy \in Levels, ReadRaw(max_len, entropy)
        PROVE  Source!Nothing
    BY <1>3 DEF ReadRaw, Source!Nothing
  <1>4. ASSUME NEW max_len \in Requests, NEW entropy \in Levels, ReadAbsorb(max_len, entropy)
        PROVE  Source!Reseed
    <2> DEFINE budget == Budget(entropy)
               k == Least(ChunkMax, Least(max_len, budget))
    <2>1. budget \in Nat
      BY BudgetNat DEF Inv
    <2>2. k \in Nat /\ k <= budget /\ k <= ChunkMax
      BY <2>1, SqueezeFits
    <2>3. Squeeze(k, budget) /\ bought' = budget /\ keccak_bytes_left = 0
      BY <1>4 DEF ReadAbsorb, Transfers
    <2>4. budget \in {e \div 8 : e \in Levels} \cup {m * Unit : m \in 0..MaxMultiplier}
      BY BudgetNat DEF Inv
    <2> HIDE DEF k, budget
    <2>5. whitened' \in 0..ChunkMax
      BY <2>2, <2>3, SizeAssumption DEF Squeeze
    <2>6. (bought - keccak_bytes_left)' = whitened' /\ whitened' <= bought'
      BY <2>1, <2>2, <2>3 DEF Squeeze
    <2>7. bought - keccak_bytes_left = bought
      BY <2>3 DEF Inv, TypeOK
    <2>8. shown' \in BOOLEAN
      BY <2>3 DEF Squeeze
    <2> QED
      BY <2>3, <2>4, <2>5, <2>6, <2>7, <2>8 DEF Source!Reseed
  <1>5. ASSUME UNCHANGED <<keccak_bytes_left, shown, whitened, bought>>
        PROVE  UNCHANGED Source!source
    BY <1>5
  <1>6. ASSUME NEW max_len \in Requests, ReadData(max_len) PROVE Source!Next
    BY <1>1, <1>2, <1>3, <1>4, <1>6 DEF ReadData, ReadGone, ReadError, ReadDiscard, Source!Next
  <1> QED
    BY <1>5, <1>6 DEF Next, SetMultiplier, Disconnect, vars

\* The driver implements a random source: readers never get more than a block bought,
\* nor anything from a state of the sponge another reader has seen.
THEOREM SpongeImplementsSource == Spec => ImplementsSource
  <1>1. Spec => Source!Init /\ [][Source!Next]_Source!source
    BY InitSource, StepSource, SpecInv, PTL DEF Spec
  <1> QED
    BY <1>1 DEF ImplementsSource, Source!Spec
=============================================================================
