------------------------- MODULE InfnoiseTool_proofs -------------------------
(***************************************************************************)
(* Theorems about the programs over the library and the list of devices,   *)
(* for every set of multipliers and entropy levels and any number of       *)
(* devices.                                                                *)
(***************************************************************************)
EXTENDS InfnoiseTool, TLAPS

-----------------------------------------------------------------------------
\* Facts of arithmetic.

LEMMA TimesNat ==
    ASSUME NEW n \in Nat
    PROVE  n * 32 >= 0
  OBVIOUS

LEMMA RestOf ==
    ASSUME NEW a \in Nat, NEW b \in Nat
    PROVE  a - (a - b) = b
  OBVIOUS

-----------------------------------------------------------------------------
\* The list of devices.

\* Nodes a..b are chained in order and the last ends the list.
Chained(a, b) == \A n \in a..b : next[n] = IF n = b THEN NULL ELSE n + 1

\* On the way down the nodes of all calls are chained; on the way back those of the
\* calls still active are in memory, and all of them if the list is returned.
ListInv ==
    /\ ListTypeOK
    /\ at = "idle" => allocated = {} /\ depth = 0 /\ bgn = NULL /\ end = NULL
    /\ at = "descend" => /\ found > 0 /\ allocated = 1..depth /\ end = depth
                         /\ bgn = IF depth = 0 THEN NULL ELSE 1
                         /\ Chained(1, depth)
    /\ at = "return" => \/ ret = NULL /\ allocated = 1..depth
                        \/ ret = 1 /\ found > 0 /\ allocated = 1..found /\ Chained(1, found)
    /\ at = "walk" /\ curdev # NULL =>
           curdev <= found /\ allocated = curdev..found /\ Chained(curdev, found)
    /\ at = "walk" /\ curdev = NULL => allocated = {}
    /\ at \in {"listed", "failed"} => allocated = {}

\* Nothing was listed yet.
LEMMA ListInitInv == ListInit => ListInv
  BY DeviceAssumption DEF ListInit, ListInv, ListTypeOK, NULL, Nodes

\* A call appends the node of its device.
LEMMA GetStringsInv ==
    ASSUME ListInv, GetStrings
    PROVE  ListInv'
  <1> DEFINE cur == depth + 1
  <1>1. /\ at = "descend" /\ at' = "descend" /\ found' = found /\ found \in 0..MaxDevices
        /\ depth \in 0..found /\ cur \in 1..found /\ cur \in Nodes
    BY DeviceAssumption DEF GetStrings, ListInv, ListTypeOK, Nodes
  <1>2. allocated = 1..depth /\ end = depth /\ bgn = IF depth = 0 THEN NULL ELSE 1
    BY <1>1 DEF ListInv
  <1>3. /\ depth' = cur /\ allocated' = 1..cur /\ end' = cur
        /\ bgn' = IF cur = 0 THEN NULL ELSE 1
    BY <1>1, <1>2 DEF GetStrings, NULL
  <1>4. next' = [n \in Nodes |-> IF n = end THEN cur ELSE IF n = cur THEN NULL ELSE next[n]]
    BY DEF GetStrings
  <1>5. next' \in [Nodes -> 0..MaxDevices]
    BY <1>1, <1>4, DeviceAssumption DEF ListInv, ListTypeOK, Nodes, NULL
  <1>6. \A n \in 1..cur : next'[n] = IF n = cur THEN NULL ELSE n + 1
    <2> SUFFICES ASSUME NEW n \in 1..cur PROVE next'[n] = IF n = cur THEN NULL ELSE n + 1
      OBVIOUS
    <2>1. n \in Nodes
      BY <1>1, DeviceAssumption DEF Nodes
    <2>2. next'[n] = IF n = end THEN cur ELSE IF n = cur THEN NULL ELSE next[n]
      BY <1>4, <2>1
    <2>3. n # cur /\ n # end => next[n] = n + 1
      BY <1>1, <1>2 DEF ListInv, Chained
    <2> QED
      BY <1>1, <1>2, <2>2, <2>3
  <1>7. ListTypeOK'
    BY <1>1, <1>3, <1>5, DeviceAssumption DEF ListInv, ListTypeOK, GetStrings, Nodes, NULL
  <1> QED
    <2>1. Chained(1, depth)'
      BY <1>3, <1>6 DEF Chained
    <2>2. found' > 0 /\ bgn' = IF depth' = 0 THEN NULL ELSE 1
      BY <1>1, <1>3
    <2> QED
      BY <1>1, <1>3, <1>7, <2>1, <2>2 DEF ListInv

\* A call on the way back frees its node, unless the list is complete.
LEMMA ReturnInv ==
    ASSUME ListInv, Return
    PROVE  ListInv'
  <1>1. /\ at = "return" /\ at' = "return" /\ depth \in 1..found /\ depth' = depth - 1
        /\ found \in 0..MaxDevices
        /\ UNCHANGED <<found, next, bgn, end, ret, curdev>>
    BY DeviceAssumption DEF Return, ListInv, ListTypeOK
  <1>2. ListTypeOK'
    BY <1>1, DeviceAssumption DEF Return, ListInv, ListTypeOK
  <1>3. CASE ret = NULL
    <2>1. allocated = 1..depth /\ allocated' = allocated \ {depth}
      BY <1>1, <1>3 DEF Return, ListInv, NULL
    <2>2. allocated' = 1..depth'
      BY <1>1, <2>1, DeviceAssumption
    <2> QED
      BY <1>1, <1>2, <1>3, <2>2 DEF ListInv
  <1>4. CASE ret # NULL
    BY <1>1, <1>2, <1>4 DEF Return, ListInv, Chained
  <1> QED
    BY <1>3, <1>4

\* main frees the node it printed and goes on to the next.
LEMMA WalkInv ==
    ASSUME ListInv, Walk
    PROVE  ListInv'
  <1>1. /\ at = "walk" /\ at' = "walk" /\ found \in 0..MaxDevices /\ curdev # NULL
        /\ curdev \in 1..found /\ allocated = curdev..found /\ Chained(curdev, found)
        /\ UNCHANGED <<found, next, depth, bgn, end, ret>>
    BY DeviceAssumption DEF Walk, ListInv, ListTypeOK, NULL
  <1>2. /\ curdev' = IF curdev = found THEN NULL ELSE curdev + 1
        /\ allocated' = (curdev + 1)..found
    BY <1>1 DEF Walk, Chained
  <1>3. ListTypeOK'
    BY <1>1, <1>2, DeviceAssumption DEF Walk, ListInv, ListTypeOK, NULL
  <1>4. curdev' # NULL => curdev' <= found /\ allocated' = curdev'..found
    BY <1>1, <1>2
  <1>5. curdev' # NULL => Chained(curdev', found)
    BY <1>1, <1>2 DEF Chained
  <1>6. curdev' = NULL => allocated' = {}
    BY <1>1, <1>2 DEF NULL
  <1> QED
    BY <1>1, <1>3, <1>4, <1>5, <1>6 DEF ListInv, Chained

\* Every step of the listing keeps this.
LEMMA ListStepInv ==
    ASSUME ListInv, ListNext
    PROVE  ListInv'
  <1>1. CASE ListUSBDevices
    BY <1>1, DeviceAssumption DEF ListUSBDevices, ListInv, ListTypeOK, Chained, Nodes, NULL
  <1>2. CASE GetStringsFails
    BY <1>2, DeviceAssumption DEF GetStringsFails, ListInv, ListTypeOK, NULL
  <1>3. CASE LastCall
    <2>1. ListTypeOK'
      BY <1>3, DeviceAssumption DEF LastCall, ListInv, ListTypeOK
    <2>2. ret' = 1 /\ found > 0 /\ allocated = 1..found /\ Chained(1, found)
      BY <1>3, DeviceAssumption DEF LastCall, ListInv, ListTypeOK
    <2> QED
      BY <1>3, <2>1, <2>2 DEF LastCall, ListInv, Chained
  <1>4. CASE Listed
    <2>1. ListTypeOK'
      BY <1>4, DeviceAssumption DEF Listed, ListInv, ListTypeOK
    <2> QED
      BY <1>4, <2>1 DEF Listed, ListInv, ListTypeOK, Chained, NULL
  <1>5. CASE WalkEnds
    BY <1>5 DEF WalkEnds, ListInv, ListTypeOK
  <1> QED
    BY <1>1, <1>2, <1>3, <1>4, <1>5, GetStringsInv, ReturnInv, WalkInv DEF ListNext

\* A step that leaves the listing alone keeps it.
LEMMA ListStutter ==
    ASSUME ListInv, UNCHANGED listvars
    PROVE  ListInv'
  BY DEF ListInv, ListTypeOK, Chained, listvars

-----------------------------------------------------------------------------
\* The library.

\* What the library knows between two calls: initializeUSB is called twice at most;
\* bytes left are part of what the last block
\* bought, and only an empty budget leaves a state of the sponge that was shown.
LibInv ==
    /\ TypeOK
    /\ phase = "start" => attempts = 0
    /\ phase = "usb" => attempts <= 1
    /\ keccakBytesGiven <= bought
    /\ shown => keccakBytesGiven = 0

\* The rest of a division is below the divisor and not above the number divided.
LEMMA RestBound ==
    ASSUME NEW p \in Nat, NEW w \in Nat \ {0}
    PROVE  p % w \in 0..(w - 1) /\ p % w <= p /\ (p < w => p % w = p)
  <1>1. p % w \in 0..(w - 1)
    BY Z3
  <1>2. p < w => p % w = p
    BY Z3
  <1> QED
    BY <1>1, <1>2

\* A block gives what a word holds, and no more than 256 bits for each unit.
LEMMA WorthBound ==
    ASSUME NEW m \in Multipliers
    PROVE  Worth(m) \in Nat /\ Worth(m) < Word /\ Worth(m) <= m * 32
  <1> DEFINE p == m * 256
  <1> DEFINE q == p % Word
  <1>1. m \in Nat /\ p \in Nat /\ Word \in Nat \ {0}
    BY LibAssumption
  <1>2. q \in 0..(Word - 1) /\ q <= p
    <2> HIDE DEF p
    <2> QED
      BY <1>1, RestBound
  <1>3. Worth(m) = q \div 8
    BY DEF Worth
  <1> HIDE DEF q
  <1>4. q \in Nat /\ q < Word /\ q <= m * 256
    BY <1>1, <1>2
  <1>5. q \div 8 \in Nat /\ q \div 8 <= q /\ q \div 8 <= m * 32
    BY <1>1, <1>4
  <1> QED
    BY <1>1, <1>3, <1>4, <1>5

\* "Output 256*outputMultipler bits" (libinfnoise.c:330): a block gives just that for
\* the multipliers below 2^24, whose product with 256 a word holds, and less for every
\* larger one, which neither infnoise.c:150 nor the library refuses.
THEOREM WorthExact ==
    \A m \in Multipliers : Worth(m) = m * 32 <=> m * 256 < Word
  <1> SUFFICES ASSUME NEW m \in Multipliers
               PROVE  Worth(m) = m * 32 <=> m * 256 < Word
    OBVIOUS
  <1> DEFINE p == m * 256
  <1> DEFINE q == p % Word
  <1>1. m \in Nat /\ p \in Nat /\ Word \in Nat \ {0}
    BY LibAssumption
  <1>2. q \in 0..(Word - 1) /\ (p < Word => q = p)
    <2> HIDE DEF p
    <2> QED
      BY <1>1, RestBound
  <1>3. Worth(m) = q \div 8
    BY DEF Worth
  <1> HIDE DEF q
  <1>4. q \in Nat /\ q < Word /\ (m * 256 < Word => q = m * 256)
    BY <1>1, <1>2
  <1>5. q = m * 256 => q \div 8 = m * 32
    BY <1>1
  <1>6. q < m * 256 => q \div 8 < m * 32
    BY <1>1, <1>4
  <1>7. ~(m * 256 < Word) => q < m * 256
    BY <1>1, <1>4
  <1> QED
    BY <1>3, <1>4, <1>5, <1>6, <1>7

\* A chunk is part of what was given and of one state of the sponge.
LEMMA ChunkBound ==
    ASSUME NEW given \in Nat, Chunk(given)
    PROVE  /\ rc' \in Nat /\ rc' <= given /\ rc' <= ChunkMax
           /\ whitened' = rc' /\ whitened' \in Nat
           /\ keccakBytesGiven' = given - rc'
           /\ keccakBytesGiven' \in Nat /\ keccakBytesGiven' <= given
           /\ given <= ChunkMax => keccakBytesGiven' = 0
           /\ stored' \in Nat /\ stored' <= rc'
           /\ shown' = FALSE
  <1> DEFINE k == Least(ChunkMax, given)
  <1>1. ChunkMax \in Nat
    BY LibAssumption
  <1>2. k \in Nat /\ k <= given /\ k <= ChunkMax /\ (given <= ChunkMax => k = given)
    BY <1>1 DEF Least
  <1>3. /\ keccakBytesGiven' = given - k /\ rc' = k /\ whitened' = k
        /\ stored' = (k \div 8) * 8 /\ shown' = FALSE
    BY DEF Chunk
  <1> HIDE DEF k
  <1>4. (k \div 8) * 8 \in Nat /\ (k \div 8) * 8 <= k
    BY <1>2
  <1> QED
    BY <1>2, <1>3, <1>4

\* The entropy of a block that is used has at most the bits that are provable.
LEMMA UsableType ==
    ASSUME NEW e \in Levels, Usable(e)
    PROVE  /\ keccakBytesGiven = 0 /\ ok' \in BOOLEAN
           /\ entropyThisTime' \in 0..512 /\ worth' \in Nat
           /\ entropyThisTime' = Least(e, Provable)
  BY LibAssumption DEF Usable, Extracted, Collects, Clamped, Least

\* Whole lanes of the entropy of a block fit 64 bytes.
LEMMA EntropyLanes ==
    ASSUME NEW e \in 0..512
    PROVE  /\ e \div 8 \in Nat /\ e \div 8 <= 64
           /\ ((e + 63) \div 64) * 8 \in Nat /\ ((e + 63) \div 64) * 8 <= 64
  OBVIOUS

\* A call keeps what the library knows.
LEMMA ReadInv ==
    ASSUME LibInv, NEW r \in BOOLEAN, NEW m \in Nat, r \/ m \in Multipliers,
           readData(r, m),
           phase' \in {"warmup", "ready"},
           warmupRounds' \in 0..(MaxWarmup + 1), UNCHANGED <<device, attached>>
    PROVE  LibInv'
  <1> DEFINE Rest == /\ phase \in {"warmup", "ready"}
                     /\ warmupRounds \in 0..(MaxWarmup + 1)
                     /\ attempts \in 0..2 /\ usb \in {"closed", "open", "ready"}
                     /\ lost \in BOOLEAN /\ attached \in BOOLEAN
  <1>1. Rest'
    BY DEF LibInv, TypeOK, device
  <1>2. Word \in Nat /\ Word > 0
    BY LibAssumption
  <1> HIDE DEF Rest
  <1>3. ASSUME NEW code \in Nat \cup {USB_WRITE, USB_READ, HEALTH}, Returns(code),
               ok' \in BOOLEAN, entropyThisTime' \in Nat
        PROVE  LibInv'
    BY <1>1, <1>3 DEF Returns, LibInv, TypeOK, Rest
  <1>4. CASE UsbError
    BY <1>3, <1>4 DEF UsbError, LibInv, TypeOK
  <1>5. CASE TooLate \/ HealthFault
    BY <1>3, <1>5 DEF TooLate, HealthFault, LibInv, TypeOK
  <1>6. ASSUME NEW e \in Levels, NotUsable(e) PROVE LibInv'
    BY <1>3, <1>6, LibAssumption DEF NotUsable, Extracted
  <1>7. CASE RawBlock(r)
    <2>1. ok' \in BOOLEAN /\ entropyThisTime' \in Nat /\ worth' \in Nat
      BY <1>7, UsableType DEF RawBlock
    <2>2. rc' \in Nat /\ whitened' \in Nat /\ stored' \in Nat
      BY <1>7 DEF RawBlock, BlockBytes
    <2> QED
      BY <1>1, <1>7, <2>1, <2>2 DEF RawBlock, LibInv, TypeOK, Rest
  <1>8. CASE OutputEntropy(r, m)
    <2>1. /\ ok' \in BOOLEAN /\ entropyThisTime' \in 0..512 /\ worth' \in Nat
          /\ keccakBytesGiven = 0
      BY <1>8, UsableType DEF OutputEntropy
    <2>2. rc' \in Nat /\ whitened' \in Nat /\ stored' \in Nat /\ bought' \in Nat
      BY <1>8, <2>1, EntropyLanes DEF OutputEntropy
    <2>5. keccakBytesGiven' = 0
      BY <1>8, <2>1 DEF OutputEntropy
    <2>3. /\ keccakBytesGiven' \in 0..(Word - 1)
          /\ keccakBytesGiven' <= bought'
      BY <1>2, <2>2, <2>5
    <2>4. shown' \in BOOLEAN /\ entropyThisTime' \in Nat
      BY <1>8, <2>1 DEF OutputEntropy
    <2> QED
      BY <1>1, <2>1, <2>2, <2>3, <2>4, <2>5 DEF LibInv, TypeOK, Rest
  <1>9. CASE OutputFirst(r, m)
    <2>1. ok' \in BOOLEAN /\ entropyThisTime' \in Nat /\ worth' \in Nat
      BY <1>9, UsableType DEF OutputFirst
    <2> DEFINE given == Worth(m)
    <2>2. given \in Nat /\ given < Word /\ Chunk(given) /\ bought' = given
      BY <1>9, WorthBound DEF OutputFirst
    <2>3. /\ rc' \in Nat /\ whitened' \in Nat /\ stored' \in Nat /\ shown' = FALSE
          /\ keccakBytesGiven' \in Nat /\ keccakBytesGiven' <= given
      <3> HIDE DEF given
      <3>1. given \in Nat /\ Chunk(given)
        BY <2>2 DEF given
      <3> QED
        BY <3>1, ChunkBound
    <2> HIDE DEF given
    <2>4. keccakBytesGiven' \in 0..(Word - 1) /\ keccakBytesGiven' <= bought'
      BY <1>2, <2>2, <2>3
    <2> QED
      BY <1>1, <2>1, <2>2, <2>3, <2>4 DEF LibInv, TypeOK, Rest
  <1>10. CASE OutputMore
    <2>1. keccakBytesGiven \in Nat /\ keccakBytesGiven < Word /\ bought \in Nat
      BY <1>2 DEF LibInv, TypeOK
    <2>2. /\ rc' \in Nat /\ whitened' \in Nat /\ stored' \in Nat /\ shown' = FALSE
          /\ keccakBytesGiven' \in Nat /\ keccakBytesGiven' <= keccakBytesGiven
      BY <1>10, <2>1, ChunkBound DEF OutputMore
    <2>3. keccakBytesGiven' \in 0..(Word - 1) /\ keccakBytesGiven' <= bought
      BY <1>2, <2>1, <2>2 DEF LibInv
    <2> QED
      BY <1>1, <1>10, <2>2, <2>3 DEF OutputMore, LibInv, TypeOK, Rest
  <1> QED
    BY <1>4, <1>5, <1>6, <1>7, <1>8, <1>9, <1>10 DEF readData

\* So does all that initInfnoise does, and the end.
LEMMA InitializeInv ==
    ASSUME LibInv, initInfnoise \/ deinitInfnoise \/ Unplug
    PROVE  LibInv'
  <1>1. MaxWarmup \in Nat
    BY LibAssumption
  <1>2. ASSUME UNCHANGED context,
               phase' \in {"start", "usb", "warmup", "ready", "over"},
               UNCHANGED warmupRounds,
               attempts' \in 0..2, usb' \in {"closed", "open", "ready"},
               lost' \in BOOLEAN, attached' \in BOOLEAN,
               phase' = "start" => attempts' = 0,
               phase' = "usb" => attempts' <= 1
        PROVE  LibInv'
    BY <1>2 DEF context, LibInv, TypeOK
  <1>3. CASE HealthStart \/ WarmupDone \/ deinitInfnoise \/ Unplug
    <2>1. CASE HealthStart
      BY <1>2, <2>1 DEF HealthStart, device, LibInv, TypeOK
    <2>2. CASE WarmupDone
      BY <1>2, <2>2 DEF WarmupDone, device, LibInv, TypeOK
    <2>3. CASE deinitInfnoise
      BY <1>2, <2>3 DEF deinitInfnoise, LibInv, TypeOK
    <2>4. CASE Unplug
      BY <1>2, <2>4 DEF Unplug, device, LibInv, TypeOK
    <2> QED
      BY <1>3, <2>1, <2>2, <2>3, <2>4
  <1>5. CASE InitializeUSB \/ InitializeUSBFails
    <2>1. lost' \in BOOLEAN
      BY <1>5 DEF InitializeUSB, InitializeUSBFails, FtdiInit
    <2>2. attempts' \in 0..2 /\ (phase' = "usb" => attempts' <= 1) /\ phase' # "start"
      BY <1>5 DEF InitializeUSB, InitializeUSBFails, LibInv, TypeOK
    <2> QED
      BY <1>2, <1>5, <2>1, <2>2 DEF InitializeUSB, InitializeUSBFails, LibInv, TypeOK
  <1>4. CASE WarmupRound
    <2>1. warmupRounds' \in 0..(MaxWarmup + 1) /\ phase' = "warmup"
      BY <1>1, <1>4 DEF WarmupRound, Least, LibInv, TypeOK
    <2>2. readData(TRUE, 1) /\ UNCHANGED <<device, attached>>
      BY <1>4 DEF WarmupRound
    <2> QED
      BY <2>1, <2>2, ReadInv
  <1> QED
    BY <1>3, <1>4, <1>5 DEF initInfnoise

\* A program that reads with one mode and multiplier is left with no more bytes than
\* the multiplier gives, and what it gets fits the array it declared.
LEMMA ReadSizes ==
    ASSUME LibInv, NEW r \in BOOLEAN, NEW m \in Nat, r \/ m \in Multipliers,
           readData(r, m),
           keccakBytesGiven <= m * 32, r \/ m <= 2 => keccakBytesGiven = 0
    PROVE  /\ keccakBytesGiven' <= m * 32
           /\ r \/ m <= 2 => keccakBytesGiven' = 0
           /\ rc' >= 0 => /\ stored' <= ResultSize(r, m)
                          /\ r \/ m <= 2 => rc' <= BlockBytes
  <1> DEFINE Sized == /\ keccakBytesGiven' <= m * 32
                      /\ r \/ m <= 2 => keccakBytesGiven' = 0
                      /\ rc' >= 0 => /\ stored' <= ResultSize(r, m)
                                     /\ r \/ m <= 2 => rc' <= BlockBytes
  <1>1. ChunkMax \in 64..128 /\ keccakBytesGiven \in Nat
    BY LibAssumption DEF LibInv, TypeOK
  <1>2. ASSUME NEW code \in {0, USB_WRITE, USB_READ, HEALTH}, Returns(code) PROVE Sized
    BY <1>2 DEF Returns, ResultSize, BlockBytes, USB_WRITE, USB_READ, HEALTH
  <1>3. CASE UsbError \/ TooLate \/ HealthFault \/ \E e \in Levels : NotUsable(e)
    BY <1>2, <1>3 DEF UsbError, TooLate, HealthFault, NotUsable
  <1>4. CASE RawBlock(r)
    BY <1>4 DEF RawBlock, ResultSize, BlockBytes
  <1>5. CASE OutputEntropy(r, m)
    <2>1. entropyThisTime' \in 0..512 /\ keccakBytesGiven = 0
      BY <1>5, UsableType DEF OutputEntropy
    <2>2. rc' <= 64 /\ stored' <= 64
      BY <1>5, <2>1, EntropyLanes DEF OutputEntropy
    <2>3. keccakBytesGiven' = 0 /\ m = 0
      BY <1>5, <2>1 DEF OutputEntropy
    <2> QED
      BY <2>2, <2>3 DEF ResultSize, BlockBytes
  <1>6. CASE OutputFirst(r, m)
    <2> DEFINE given == Worth(m)
    <2>1. ~r /\ m > 0 /\ given \in Nat /\ given <= m * 32 /\ Chunk(given)
      BY <1>6, WorthBound DEF OutputFirst
    <2>2. m <= 2 => given <= 64
      <3> HIDE DEF given
      <3> QED
        BY <2>1
    <2> HIDE DEF given
    <2>3. /\ rc' \in Nat /\ rc' <= given /\ rc' <= ChunkMax
          /\ keccakBytesGiven' \in Nat /\ keccakBytesGiven' <= given
          /\ given <= ChunkMax => keccakBytesGiven' = 0
          /\ stored' \in Nat /\ stored' <= rc'
      BY <2>1, ChunkBound
    <2>4. stored' <= ResultSize(r, m)
      BY <1>1, <2>1, <2>2, <2>3 DEF ResultSize
    <2>5. m <= 2 => keccakBytesGiven' = 0 /\ rc' <= BlockBytes
      BY <1>1, <2>1, <2>2, <2>3 DEF BlockBytes
    <2>6. keccakBytesGiven' <= m * 32
      BY <2>1, <2>3
    <2> QED
      BY <2>1, <2>3, <2>4, <2>5, <2>6
  <1>7. CASE OutputMore
    <2>1. /\ rc' \in Nat /\ rc' <= ChunkMax
          /\ keccakBytesGiven' \in Nat /\ keccakBytesGiven' <= keccakBytesGiven
          /\ stored' \in Nat /\ stored' <= rc'
      BY <1>1, <1>7, ChunkBound DEF OutputMore
    <2>2. keccakBytesGiven > 0
      BY <1>7 DEF OutputMore
    <2>3. ~r /\ m > 2
      BY <1>1, <2>2
    <2> QED
      BY <1>1, <2>1, <2>3 DEF ResultSize
  <1> QED
    BY <1>3, <1>4, <1>5, <1>6, <1>7 DEF readData

-----------------------------------------------------------------------------
\* The programs.

\* A program has no bytes left before its first read; infnoise never has more than its
\* multiplier gives, and what it is about to write fits.
ToolInv ==
    /\ LibInv /\ ListInv /\ ToolTypeOK
    /\ pc \notin {"read", "output", "exited"} => keccakBytesGiven = 0
    /\ pc = "read" => phase = "ready"
    /\ pc = "output" => program = "infnoise" /\ phase = "ready"
    /\ program = "infnoise" =>
        /\ keccakBytesGiven <= multiplier * 32
        /\ raw \/ multiplier <= 2 => keccakBytesGiven = 0
    /\ StoredFits /\ PoolRecordFits

\* Every program starts so.
LEMMA ToolInitInv == ToolInit => ToolInv
  <1> SUFFICES ASSUME ToolInit PROVE ToolInv
    OBVIOUS
  <1>1. 0 \in Multipliers /\ CreditMax \in Nat /\ Word \in Nat /\ Word > 0 /\ MaxWarmup \in Nat
    BY ToolAssumption, LibAssumption
  <1>2. ListInv /\ ListTypeOK
    BY ListInitInv DEF ToolInit, ListInv
  <1>3. TypeOK /\ LibInv
    <2>1. /\ warmupRounds \in 0..(MaxWarmup + 1) /\ attempts \in 0..2
          /\ keccakBytesGiven \in 0..(Word - 1) /\ keccakBytesGiven <= bought
      BY <1>1 DEF ToolInit, Init
    <2>2. /\ ok \in BOOLEAN /\ shown \in BOOLEAN /\ attached \in BOOLEAN /\ lost \in BOOLEAN
          /\ shown = FALSE
      BY DEF ToolInit, Init
    <2>3. phase = "start" /\ usb = "closed" /\ attempts = 0
      BY DEF ToolInit, Init
    <2>4. /\ entropyThisTime \in Nat /\ rc \in Nat /\ whitened \in Nat /\ stored \in Nat
          /\ bought \in Nat /\ worth \in Nat
      BY DEF ToolInit, Init
    <2> QED
      BY <2>1, <2>2, <2>3, <2>4 DEF TypeOK, LibInv
  <1>4. ToolTypeOK
    <2>1. /\ raw \in BOOLEAN /\ devRandom \in BOOLEAN /\ noOutput \in BOOLEAN
          /\ running \in BOOLEAN /\ signalled \in BOOLEAN
      BY DEF ToolInit, initOpts
    <2>2. multiplier \in Multipliers /\ credited \in 0..CreditMax /\ status = 0
      BY <1>1 DEF ToolInit, initOpts
    <2>3. /\ program \in {"infnoise", "other"} /\ parent = "none"
          /\ pc \in {"main", "init"}
      BY DEF ToolInit
    <2> QED
      BY <1>2, <1>3, <2>1, <2>2, <2>3 DEF ToolTypeOK
  <1>5. keccakBytesGiven = 0 /\ multiplier = 0 /\ pc \in {"main", "init"}
    BY DEF ToolInit, Init, initOpts
  <1> QED
    BY <1>2, <1>3, <1>4, <1>5 DEF ToolInv, StoredFits, PoolRecordFits

\* A step that leaves the library, the list and the options alone and is not about to
\* write keeps it if the rest of the program keeps its type.
LEMMA ToolOnly ==
    ASSUME ToolInv, UNCHANGED <<libvars, listvars, options>>,
           pc' \in {"main", "list", "startDaemon", "init", "read", "output", "exited"},
           pc' \in {pc, "read", "exited"}
             \/ (pc \notin {"read", "output", "exited"} /\ pc' # "output"),
           pc' = "read" => phase = "ready",
           status' \in {0, 1, 143}, running' \in BOOLEAN, signalled' \in BOOLEAN,
           parent' \in {"none", "running", "succeeded", "failed"},
           credited' \in 0..CreditMax
    PROVE  ToolInv'
  <1>1. LibInv' /\ TypeOK'
    BY DEF ToolInv, LibInv, TypeOK, libvars, context, device
  <1>2. ListInv' /\ ListTypeOK'
    BY ListStutter DEF ToolInv, ListInv
  <1>3. ToolTypeOK'
    BY <1>1, <1>2 DEF ToolInv, ToolTypeOK, options
  <1>4. /\ UNCHANGED <<keccakBytesGiven, phase, rc, stored>>
        /\ UNCHANGED <<program, raw, multiplier, devRandom>>
    BY DEF libvars, context, options
  <1>5. (StoredFits /\ PoolRecordFits)'
    BY <1>4 DEF ToolInv, StoredFits, PoolRecordFits, ResultSize
  <1> QED
    BY <1>1, <1>2, <1>3, <1>4, <1>5 DEF ToolInv

\* A call of a program, with options that are its own if it is infnoise.
LEMMA CallInv ==
    ASSUME ToolInv, pc = "read", NEW r \in BOOLEAN, NEW m \in Multipliers, Call(r, m),
           program = "infnoise" => r = raw /\ m = multiplier,
           UNCHANGED <<listvars, options>>,
           pc' \in {"read", "exited"} \/ (pc' = "output" /\ program = "infnoise" /\ rc' >= 0),
           status' \in {0, 1, 143}, UNCHANGED <<parent, running, signalled>>,
           credited' \in 0..CreditMax
    PROVE  ToolInv'
  <1>1. /\ readData(r, m) /\ phase' = phase /\ phase = "ready"
        /\ UNCHANGED <<warmupRounds, device, attached>>
    BY DEF Call
  <1>2. m \in Nat
    BY LibAssumption
  <1>3. LibInv' /\ TypeOK'
    <2>1. LibInv'
      BY <1>1, <1>2, ReadInv DEF ToolInv, LibInv, TypeOK
    <2> QED
      BY <2>1 DEF LibInv
  <1>4. ListInv' /\ ListTypeOK'
    BY ListStutter DEF ToolInv, ListInv
  <1>5. UNCHANGED <<program, raw, multiplier, devRandom, noOutput>>
    BY DEF options
  <1>6. ToolTypeOK'
    BY <1>3, <1>4, <1>5 DEF ToolInv, ToolTypeOK
  <1>7. ASSUME program = "infnoise"
        PROVE  /\ keccakBytesGiven' <= multiplier * 32
               /\ raw \/ multiplier <= 2 => keccakBytesGiven' = 0
               /\ rc' >= 0 => /\ stored' <= ResultSize(raw, multiplier)
                              /\ raw \/ multiplier <= 2 => rc' <= BlockBytes
    <2>1. r = raw /\ m = multiplier
      BY <1>7
    <2>2. /\ keccakBytesGiven <= multiplier * 32
          /\ raw \/ multiplier <= 2 => keccakBytesGiven = 0
      BY <1>7 DEF ToolInv
    <2> QED
      BY <1>1, <1>2, <2>1, <2>2, ReadSizes DEF ToolInv
  <1>8. (StoredFits /\ PoolRecordFits)'
    BY <1>5, <1>7 DEF StoredFits, PoolRecordFits, ResultSize
  <1> QED
    BY <1>1, <1>3, <1>4, <1>5, <1>6, <1>7, <1>8 DEF ToolInv

\* initInfnoise in a program.
LEMMA InitializeToolInv ==
    ASSUME ToolInv, Initialize
    PROVE  ToolInv'
  <1>1. /\ pc = "init" /\ initInfnoise /\ status' \in {0, 1, 143}
        /\ pc' \in {"init", "read", "exited"} /\ (pc' = "read" => phase' = "ready")
        /\ UNCHANGED <<listvars, options, parent, running, signalled, credited>>
    BY DEF Initialize, Exit, ToolInv, ToolTypeOK
  <1>2. LibInv' /\ TypeOK'
    BY <1>1, InitializeInv DEF ToolInv, LibInv
  <1>3. ListInv' /\ ListTypeOK'
    BY <1>1, ListStutter DEF ToolInv, ListInv
  <1>4. UNCHANGED <<program, raw, multiplier, devRandom, noOutput>>
    BY <1>1 DEF options
  <1>5. ToolTypeOK'
    BY <1>1, <1>2, <1>3, <1>4 DEF ToolInv, ToolTypeOK
  <1>6. keccakBytesGiven = 0
    BY <1>1 DEF ToolInv
  <1>7. keccakBytesGiven' = 0
    <2>1. CASE WarmupRound
      <3>1. readData(TRUE, 1)
        BY <2>1 DEF WarmupRound
      <3>2. keccakBytesGiven <= 1 * 32
        BY <1>6
      <3> QED
        BY <1>6, <3>1, <3>2, ReadSizes DEF ToolInv
    <2>2. CASE HealthStart \/ InitializeUSB \/ InitializeUSBFails \/ WarmupDone
      BY <1>6, <2>2 DEF HealthStart, InitializeUSB, InitializeUSBFails, WarmupDone, context
    <2> QED
      BY <1>1, <2>1, <2>2 DEF initInfnoise
  <1>8. (StoredFits /\ PoolRecordFits)'
    BY <1>1 DEF StoredFits, PoolRecordFits
  <1>9. multiplier \in Nat /\ multiplier' \in Nat /\ multiplier' * 32 >= 0
    BY <1>4, LibAssumption DEF ToolInv, ToolTypeOK
  <1> QED
    BY <1>1, <1>2, <1>3, <1>4, <1>5, <1>7, <1>8, <1>9 DEF ToolInv

\* Every step of every program keeps what is known.
LEMMA ToolStepInv == ToolInv /\ [ToolNext]_allvars => ToolInv'
  <1> SUFFICES ASSUME ToolInv, [ToolNext]_allvars PROVE ToolInv'
    OBVIOUS
  <1>1. /\ pc \in {"main", "list", "startDaemon", "init", "read", "output", "exited"}
        /\ parent \in {"none", "running", "succeeded", "failed"}
        /\ status \in {0, 1, 143} /\ running \in BOOLEAN /\ signalled \in BOOLEAN
        /\ credited \in 0..CreditMax /\ CreditMax \in Nat /\ entropyThisTime \in Nat
    BY ToolAssumption DEF ToolInv, ToolTypeOK, TypeOK
  <1>0. pc = "read" => phase = "ready"
    BY DEF ToolInv
  <1>2. CASE Usage \/ ListOption \/ Foreground \/ Fork \/ ParentExits
    <2>1. CASE Usage
      BY <1>1, <2>1, ToolOnly DEF Usage, Exit, ToolInv
    <2>2. CASE ListOption
      BY <1>1, <2>2, ToolOnly DEF ListOption, ToolInv
    <2>3. CASE Foreground
      BY <1>1, <2>3, ToolOnly DEF Foreground, ToolInv
    <2>4. CASE Fork
      BY <1>1, <2>4, ToolOnly DEF Fork, Exit, ToolInv
    <2>5. CASE ParentExits
      <3>1. /\ parent' \in {"none", "running", "succeeded", "failed"}
            /\ UNCHANGED <<libvars, listvars, options>>
            /\ UNCHANGED <<pc, status, running, signalled, credited>>
        BY <2>5 DEF ParentExits
      <3>2. /\ running' \in BOOLEAN /\ signalled' \in BOOLEAN
            /\ status' \in {0, 1, 143} /\ credited' \in 0..CreditMax
            /\ parent' \in {"none", "running", "succeeded", "failed"}
        BY <1>1, <3>1
      <3>3. /\ pc' \in {"main", "list", "startDaemon", "init", "read", "output", "exited"}
            /\ pc' = pc /\ (pc' = "read" => phase = "ready")
        BY <1>0, <1>1, <3>1
      <3> QED
        BY <3>1, <3>2, <3>3, ToolOnly
    <2> QED
      BY <1>2, <2>1, <2>2, <2>3, <2>4, <2>5
  <1>3. CASE Options
    <2>1. /\ multiplier' \in Multipliers /\ raw' \in BOOLEAN /\ devRandom' \in BOOLEAN
          /\ noOutput' \in BOOLEAN
      BY <1>3, LibAssumption, ToolAssumption DEF Options, Multiplier
    <2>2. /\ pc = "main" /\ pc' \in {"startDaemon", "exited"} /\ status' \in {0, 1, 143}
          /\ UNCHANGED <<libvars, listvars, program, parent, running, signalled, credited>>
      BY <1>1, <1>3 DEF Options, Exit
    <2>3. LibInv' /\ TypeOK' /\ keccakBytesGiven' = 0
      BY <2>2 DEF ToolInv, LibInv, TypeOK, libvars, context, device
    <2>4. ListInv' /\ ListTypeOK'
      BY <2>2, ListStutter DEF ToolInv, ListInv
    <2>5. ToolTypeOK'
      BY <1>1, <2>1, <2>2, <2>3, <2>4 DEF ToolInv, ToolTypeOK
    <2>6. (StoredFits /\ PoolRecordFits)'
      BY <2>2 DEF StoredFits, PoolRecordFits
    <2>7. multiplier' * 32 >= 0
      <3>1. multiplier' \in Nat
        BY <2>1, LibAssumption
      <3> QED
        BY <3>1, TimesNat
    <2> QED
      BY <2>2, <2>3, <2>4, <2>5, <2>6, <2>7 DEF ToolInv
  <1>4. CASE ListDevices
    <2>1. /\ pc = "list" /\ pc' \in {"list", "exited"} /\ status' \in {0, 1, 143} /\ ListNext
          /\ UNCHANGED <<libvars, options, parent, running, signalled, credited>>
      BY <1>1, <1>4 DEF ListDevices, Exit
    <2>2. ListInv' /\ ListTypeOK'
      BY <2>1, ListStepInv DEF ToolInv, ListInv
    <2>3. LibInv' /\ TypeOK' /\ UNCHANGED keccakBytesGiven
      BY <2>1 DEF ToolInv, LibInv, TypeOK, libvars, context, device
    <2>4. UNCHANGED <<program, raw, multiplier, devRandom, noOutput>>
      BY <2>1 DEF options
    <2>5. ToolTypeOK'
      BY <1>1, <2>1, <2>2, <2>3, <2>4 DEF ToolInv, ToolTypeOK
    <2>6. (StoredFits /\ PoolRecordFits)'
      BY <2>1 DEF StoredFits, PoolRecordFits
    <2> QED
      BY <2>1, <2>2, <2>3, <2>4, <2>5, <2>6 DEF ToolInv
  <1>5. CASE LoopRead
    <2>1. /\ program = "infnoise" /\ pc = "read" /\ Call(raw, multiplier)
          /\ UNCHANGED <<listvars, options, parent, running, signalled>>
      BY <1>5 DEF LoopRead
    <2>2. raw \in BOOLEAN /\ multiplier \in Multipliers
      BY DEF ToolInv, ToolTypeOK
    <2>3. rc' \in Int
      <3>1. multiplier \in Nat /\ phase = "ready" /\ LibInv /\ TypeOK
        BY <2>1, <2>2, LibAssumption DEF ToolInv, LibInv
      <3>2. LibInv'
        BY <2>1, <2>2, <3>1, ReadInv DEF Call, TypeOK
      <3> QED
        BY <3>2 DEF LibInv, TypeOK, USB_WRITE, USB_READ, HEALTH
    <2>4. credited' \in 0..CreditMax
      BY <1>1, <1>5 DEF LoopRead
    <2>5. /\ pc' \in {"read", "exited"} \/ (pc' = "output" /\ rc' >= 0)
          /\ status' \in {0, 1, 143}
      BY <1>1, <1>5, <2>3 DEF LoopRead, Exit
    <2> QED
      BY <2>1, <2>2, <2>4, <2>5, CallInv
  <1>6. CASE OutputStdout
    BY <1>1, <1>6, ToolOnly DEF OutputStdout, Exit, ToolInv
  <1>7. CASE OutputPool
    <2>1. credited' \in 0..CreditMax
      BY <1>1, <1>7 DEF OutputPool, Least
    <2> QED
      BY <1>1, <1>7, <2>1, ToolOnly DEF OutputPool, ToolInv
  <1>8. CASE LoopEnd
    <2>1. /\ deinitInfnoise /\ pc' = "exited" /\ status' = 0
          /\ UNCHANGED <<listvars, options, parent, running, signalled, credited>>
      BY <1>8 DEF LoopEnd, Exit
    <2>2. LibInv' /\ TypeOK'
      BY <2>1, InitializeInv DEF ToolInv, LibInv
    <2>3. ListInv' /\ ListTypeOK'
      BY <2>1, ListStutter DEF ToolInv, ListInv
    <2>4. UNCHANGED <<keccakBytesGiven, program, raw, multiplier, devRandom, noOutput>>
      BY <2>1 DEF deinitInfnoise, context, options
    <2>5. ToolTypeOK'
      BY <1>1, <2>1, <2>2, <2>3, <2>4 DEF ToolInv, ToolTypeOK
    <2>6. (StoredFits /\ PoolRecordFits)'
      BY <2>1 DEF StoredFits, PoolRecordFits
    <2> QED
      BY <2>1, <2>2, <2>3, <2>4, <2>5, <2>6 DEF ToolInv
  <1>9. CASE OtherCall
    <2>1. PICK r \in BOOLEAN, m \in Multipliers : Call(r, m)
      BY <1>9 DEF OtherCall
    <2>2. /\ program = "other" /\ pc = "read" /\ pc' = "read"
          /\ UNCHANGED <<listvars, options, status, parent, running, signalled, credited>>
      BY <1>9 DEF OtherCall, toolvars
    <2> QED
      BY <1>1, <2>1, <2>2, CallInv
  <1>10. CASE Terminate
    <2>1. /\ UNCHANGED <<libvars, listvars, options>> /\ UNCHANGED <<parent, credited>>
          /\ signalled' \in BOOLEAN /\ running' \in BOOLEAN /\ status' \in {0, 1, 143}
          /\ pc' = pc \/ pc' = "exited"
      BY <1>1, <1>10 DEF Terminate, Exit
    <2>2. /\ credited' \in 0..CreditMax
          /\ parent' \in {"none", "running", "succeeded", "failed"}
      BY <1>1, <2>1
    <2>3. /\ pc' \in {"main", "list", "startDaemon", "init", "read", "output", "exited"}
          /\ pc' = "read" => phase = "ready"
      BY <1>0, <1>1, <2>1
    <2>4. pc' \in {pc, "read", "exited"}
      BY <2>1
    <2> QED
      BY <2>1, <2>2, <2>3, <2>4, ToolOnly
  <1>11. CASE ToolUnplug
    <2>1. Unplug /\ UNCHANGED <<listvars, toolvars>>
      BY <1>11 DEF ToolUnplug
    <2>2. LibInv' /\ TypeOK'
      BY <2>1, InitializeInv DEF ToolInv, LibInv
    <2>3. ListInv' /\ ListTypeOK'
      BY <2>1, ListStutter DEF ToolInv, ListInv
    <2>4. /\ UNCHANGED <<phase, keccakBytesGiven, rc, stored>>
          /\ UNCHANGED <<program, raw, multiplier, devRandom, noOutput>>
          /\ UNCHANGED <<pc, status, parent, running, signalled, credited>>
      BY <2>1 DEF Unplug, context, toolvars, options
    <2>5. ToolTypeOK'
      BY <2>2, <2>3, <2>4 DEF ToolInv, ToolTypeOK
    <2>6. (StoredFits /\ PoolRecordFits)'
      BY <2>4 DEF ToolInv, StoredFits, PoolRecordFits, ResultSize
    <2> QED
      BY <2>2, <2>3, <2>4, <2>5, <2>6 DEF ToolInv
  <1>12. CASE UNCHANGED allvars
    <2>1. /\ UNCHANGED <<libvars, listvars, options>>
          /\ UNCHANGED <<pc, status, parent, running, signalled, credited>>
      BY <1>12 DEF allvars, toolvars
    <2>2. /\ running' \in BOOLEAN /\ signalled' \in BOOLEAN
          /\ status' \in {0, 1, 143} /\ credited' \in 0..CreditMax
          /\ parent' \in {"none", "running", "succeeded", "failed"}
      BY <1>1, <2>1
    <2>3. /\ pc' \in {"main", "list", "startDaemon", "init", "read", "output", "exited"}
          /\ pc' = pc /\ (pc' = "read" => phase = "ready")
      BY <1>0, <1>1, <2>1
    <2> QED
      BY <2>1, <2>2, <2>3, ToolOnly
  <1> QED
    BY <1>2, <1>3, <1>4, <1>5, <1>6, <1>7, <1>8, <1>9, <1>10, <1>11, <1>12, InitializeToolInv
       DEF ToolNext, Loop, Exited

\* This is known at all times.
LEMMA ToolSpecInv == ToolSpec => []ToolInv
  BY ToolInitInv, ToolStepInv, PTL DEF ToolSpec

\* Every variable keeps its type; the unsigned count of bytes given never wraps.
THEOREM ToolTypes == ToolSpec => []ToolTypeOK
  <1>1. ToolInv => ToolTypeOK
    BY DEF ToolInv
  <1> QED
    BY ToolSpecInv, <1>1, PTL

\* The whole lanes an extraction stores fit the array of the loop.
THEOREM ToolStoredFits == ToolSpec => []StoredFits
  <1>1. ToolInv => StoredFits
    BY DEF ToolInv
  <1> QED
    BY ToolSpecInv, <1>1, PTL

\* What is written to the pool fits its record, with the multipliers up to 2.
THEOREM ToolPoolRecordFits == ToolSpec => []PoolRecordFits
  <1>1. ToolInv => PoolRecordFits
    BY DEF ToolInv
  <1> QED
    BY ToolSpecInv, <1>1, PTL

\* No node of the list of devices is used or freed after it was freed, and none is left.
THEOREM ToolListOwned == ToolSpec => []ListOwned
  <1>1. ToolInv => ListOwned
    BY DEF ToolInv, ListInv, ListOwned, Chained
  <1> QED
    BY ToolSpecInv, <1>1, PTL

-----------------------------------------------------------------------------
\* The library as a random source.

\* A program starts as a random source does.
LEMMA ToolInitSource == ToolInit => Source!Init
  BY DEF ToolInit, Init, Source!Init

\* A call is a step of a random source.
LEMMA ReadSource ==
    ASSUME LibInv, NEW r \in BOOLEAN, NEW m \in Nat, r \/ m \in Multipliers,
           readData(r, m)
    PROVE  Source!Next
  <1>1. /\ ChunkMax \in 64..128 /\ Provable \in 0..512 /\ Levels \subseteq Nat
        /\ keccakBytesGiven \in Nat /\ bought \in Nat /\ keccakBytesGiven <= bought
    BY LibAssumption DEF LibInv, TypeOK
  <1>2. ASSUME NEW code, Returns(code) PROVE Source!Nothing
    BY <1>2 DEF Returns, Source!Nothing
  <1>3. CASE UsbError \/ TooLate \/ HealthFault \/ \E e \in Levels : NotUsable(e)
    BY <1>2, <1>3 DEF UsbError, TooLate, HealthFault, NotUsable, Source!Next
  <1>4. CASE RawBlock(r)
    BY <1>4 DEF RawBlock, Source!Nothing, Source!Next
  <1>5. CASE OutputEntropy(r, m)
    <2>1. PICK e \in Levels : Usable(e)
      BY <1>5 DEF OutputEntropy
    <2>2. /\ entropyThisTime' = Least(e, Provable) /\ entropyThisTime' \in 0..512
          /\ keccakBytesGiven = 0
      BY <2>1, UsableType
    <2>3. /\ rc' = entropyThisTime' \div 8 /\ whitened' = rc' /\ bought' = rc'
          /\ shown' = TRUE /\ keccakBytesGiven' = 0
      BY <1>5, <2>2 DEF OutputEntropy
    <2>4. bought' \in {Least(x, Provable) \div 8 : x \in Levels}
      BY <2>1, <2>2, <2>3
    <2>5. rc' \in Nat /\ rc' <= 64
      BY <2>2, <2>3, EntropyLanes
    <2>6. whitened' \in 0..ChunkMax /\ (bought - keccakBytesGiven)' = whitened'
          /\ (bought - keccakBytesGiven)' <= bought'
      BY <1>1, <2>3, <2>5
    <2>7. bought - keccakBytesGiven = bought
      BY <1>1, <2>2
    <2> QED
      BY <2>3, <2>4, <2>6, <2>7 DEF Source!Reseed, Source!Next
  <1>6. CASE OutputFirst(r, m)
    <2> DEFINE given == Worth(m)
    <2>1. PICK e \in Levels : Usable(e)
      BY <1>6 DEF OutputFirst
    <2>2. keccakBytesGiven = 0 /\ m \in Multipliers /\ given \in Nat
      BY <1>6, <2>1, UsableType, WorthBound DEF OutputFirst
    <2>3. Chunk(given) /\ bought' = given
      BY <1>6 DEF OutputFirst
    <2>4. bought' \in {Worth(x) : x \in Multipliers}
      BY <2>2, <2>3
    <2> HIDE DEF given
    <2>5. /\ rc' \in Nat /\ rc' <= ChunkMax /\ whitened' = rc' /\ rc' <= given
          /\ keccakBytesGiven' = given - rc' /\ shown' = FALSE
      BY <2>2, <2>3, ChunkBound
    <2>8. given - (given - rc') = rc'
      BY <2>2, <2>5, RestOf
    <2>9. (bought - keccakBytesGiven)' = whitened'
      BY <2>3, <2>5, <2>8
    <2>6. whitened' \in 0..ChunkMax /\ (bought - keccakBytesGiven)' = whitened'
          /\ (bought - keccakBytesGiven)' <= bought'
      BY <1>1, <2>3, <2>5, <2>9
    <2>7. bought - keccakBytesGiven = bought
      BY <1>1, <2>2
    <2> QED
      BY <2>4, <2>5, <2>6, <2>7 DEF Source!Reseed, Source!Next
  <1>7. CASE OutputMore
    <2>1. keccakBytesGiven > 0 /\ Chunk(keccakBytesGiven) /\ bought' = bought
      BY <1>7 DEF OutputMore
    <2>2. /\ rc' \in Nat /\ rc' <= ChunkMax /\ whitened' = rc' /\ rc' <= keccakBytesGiven
          /\ keccakBytesGiven' = keccakBytesGiven - rc' /\ shown' = FALSE
      BY <1>1, <2>1, ChunkBound
    <2>3. ~shown
      BY <1>1, <2>1 DEF LibInv
    <2>4. whitened' \in 0..ChunkMax
      BY <1>1, <2>2
    <2>6. bought' - keccakBytesGiven' = (bought - keccakBytesGiven) + rc'
      BY <1>1, <2>1, <2>2
    <2>7. bought' - keccakBytesGiven' <= bought
      BY <1>1, <2>2, <2>6
    <2>5. /\ (bought - keccakBytesGiven)' = (bought - keccakBytesGiven) + whitened'
          /\ (bought - keccakBytesGiven)' <= bought
      BY <2>2, <2>6, <2>7
    <2> QED
      BY <2>1, <2>2, <2>3, <2>4, <2>5 DEF Source!Issue, Source!Next
  <1> QED
    BY <1>3, <1>4, <1>5, <1>6, <1>7 DEF readData

\* Every step of a program is one of a random source, or one it does not see.
LEMMA ToolStepSource == ToolInv /\ [ToolNext]_allvars => [Source!Next]_Source!source
  <1> SUFFICES ASSUME ToolInv, [ToolNext]_allvars PROVE [Source!Next]_Source!source
    OBVIOUS
  <1>1. LibInv
    BY DEF ToolInv
  <1>2. ASSUME NEW r \in BOOLEAN, NEW m \in Nat, r \/ m \in Multipliers, readData(r, m)
        PROVE  [Source!Next]_Source!source
    BY <1>1, <1>2, ReadSource
  <1>3. ASSUME UNCHANGED <<keccakBytesGiven, shown, whitened, bought>>
        PROVE  [Source!Next]_Source!source
    BY <1>3 DEF Source!source
  <1>4. UNCHANGED context => [Source!Next]_Source!source
    BY <1>3 DEF context
  <1>5. CASE Usage \/ ListOption \/ ListDevices \/ Options \/ Foreground \/ Fork
             \/ ParentExits \/ OutputStdout \/ OutputPool \/ Terminate \/ UNCHANGED allvars
    <2>1. UNCHANGED libvars
      BY <1>5 DEF Usage, ListOption, ListDevices, Options, Foreground, Fork, ParentExits,
                  OutputStdout, OutputPool, Terminate, allvars
    <2> QED
      BY <1>4, <2>1 DEF libvars
  <1>6. CASE LoopEnd \/ ToolUnplug
    BY <1>4, <1>6 DEF LoopEnd, ToolUnplug, deinitInfnoise, Unplug
  <1>7. CASE Initialize
    <2>1. CASE WarmupRound
      BY <1>2, <2>1 DEF WarmupRound
    <2>2. CASE HealthStart \/ InitializeUSB \/ InitializeUSBFails \/ WarmupDone
      BY <1>4, <2>2 DEF HealthStart, InitializeUSB, InitializeUSBFails, WarmupDone
    <2> QED
      BY <1>7, <2>1, <2>2 DEF Initialize, initInfnoise
  <1>8. CASE LoopRead
    <2>1. readData(raw, multiplier)
      BY <1>8 DEF LoopRead, Call
    <2>2. raw \in BOOLEAN /\ multiplier \in Multipliers /\ multiplier \in Nat
      BY LibAssumption DEF ToolInv, ToolTypeOK
    <2> QED
      BY <1>2, <2>1, <2>2
  <1>9. CASE OtherCall
    <2>1. PICK r \in BOOLEAN, m \in Multipliers : readData(r, m)
      BY <1>9 DEF OtherCall, Call
    <2>2. m \in Nat
      BY LibAssumption
    <2> QED
      BY <1>2, <2>1, <2>2
  <1> QED
    BY <1>5, <1>6, <1>7, <1>8, <1>9 DEF ToolNext, Loop, Exited

\* The library implements a random source for every program: no budget is exceeded and
\* no state of the sponge handed out twice, though the options change at each call.
THEOREM ToolImplementsSource == ToolSpec => ImplementsSource
  <1>1. ToolSpec => Source!Init /\ [][Source!Next]_Source!source
    BY ToolInitSource, ToolStepSource, ToolSpecInv, PTL DEF ToolSpec
  <1> QED
    BY <1>1 DEF ImplementsSource, Source!Spec
-----------------------------------------------------------------------------
\* The listing and the loop come to an end.

\* How many more steps --list-devices takes at most: a call for each device and one
\* behind the last, as many returns, and a turn of main's loop for each node.
ListLeftAt(where, devices, calls, node) ==
    CASE where = "idle"    -> 3 * MaxDevices + 6
      [] where = "descend" -> 3 * devices - calls + 5
      [] where = "return"  -> devices + calls + 3
      [] where = "walk"    -> IF node = NULL THEN 1 ELSE devices - node + 2
      [] OTHER             -> 0

ListLeft == ListLeftAt(at, found, depth, curdev)

\* It is a number of steps, and each place has less to do than the one before.
LEMMA ListDescends ==
    ASSUME NEW f \in 0..MaxDevices, NEW c \in 0..f, NEW n \in 0..MaxDevices
    PROVE  /\ ListLeftAt("idle", f, c, n) = 3 * MaxDevices + 6
           /\ ListLeftAt("descend", f, c, n) \in 5..(3 * MaxDevices + 5)
           /\ ListLeftAt("descend", f, c, n) = 3 * f - c + 5
           /\ ListLeftAt("return", f, c, n) = f + c + 3
           /\ ListLeftAt("walk", f, c, 0) = 1
           /\ n # 0 => ListLeftAt("walk", f, c, n) = f - n + 2
           /\ ListLeftAt("listed", f, c, n) = 0 /\ ListLeftAt("failed", f, c, n) = 0
  BY DeviceAssumption DEF ListLeftAt, NULL

\* A list in order has no cycle: main's loop goes on to a later node or to the end.
LEMMA ListStepProgress ==
    ASSUME ListInv, ListNext
    PROVE  ListLeft' < ListLeft
  <1> USE ListDescends, DeviceAssumption DEF ListLeft
  <1>1. /\ found \in 0..MaxDevices /\ depth \in 0..found /\ curdev \in 0..MaxDevices
        /\ MaxDevices \in Nat
    BY DEF ListInv, ListTypeOK
  <1>2. CASE ListUSBDevices
    <2>1. at = "idle" /\ depth = 0 /\ depth' = 0 /\ curdev' = curdev
      BY <1>2 DEF ListUSBDevices, ListInv
    <2>2. CASE found' \in Nodes /\ at' = "descend"
      BY <1>1, <2>1, <2>2 DEF Nodes
    <2>3. CASE at' = "failed" /\ found' = found
      BY <1>1, <2>1, <2>3
    <2> QED
      BY <1>2, <2>2, <2>3 DEF ListUSBDevices
  <1>3. CASE GetStrings
    <2>1. /\ at = "descend" /\ at' = "descend" /\ found' = found /\ depth' = depth + 1
          /\ depth < found /\ curdev' = curdev
      BY <1>3 DEF GetStrings
    <2>2. depth + 1 \in 0..found
      BY <1>1, <2>1
    <2> QED
      BY <1>1, <2>1, <2>2
  <1>4. CASE GetStringsFails \/ LastCall
    BY <1>1, <1>4 DEF GetStringsFails, LastCall
  <1>5. CASE Return
    <2>1. /\ at = "return" /\ at' = "return" /\ found' = found /\ depth' = depth - 1
          /\ depth > 0 /\ curdev' = curdev
      BY <1>5 DEF Return
    <2>2. depth - 1 \in 0..found
      BY <1>1, <2>1
    <2> QED
      BY <1>1, <2>1, <2>2
  <1>6. CASE Listed
    <2>1. /\ at = "return" /\ depth = 0 /\ found' = found /\ depth' = depth /\ curdev' = ret
      BY <1>6 DEF Listed
    <2>2. CASE ret = NULL
      BY <1>1, <1>6, <2>1, <2>2 DEF Listed, NULL
    <2>3. CASE ret # NULL
      <3>1. ret = 1 /\ found > 0 /\ at' = "walk"
        BY <1>6, <2>1, <2>3 DEF Listed, ListInv
      <3> QED
        BY <1>1, <2>1, <3>1
    <2> QED
      BY <2>2, <2>3
  <1>7. CASE Walk
    <2>1. /\ at = "walk" /\ at' = "walk" /\ found' = found /\ depth' = depth
          /\ curdev # 0 /\ curdev <= found
          /\ curdev' = IF curdev = found THEN 0 ELSE curdev + 1
      BY <1>1, <1>7 DEF Walk, ListInv, Chained, NULL
    <2>2. CASE curdev = found
      BY <1>1, <2>1, <2>2
    <2>3. CASE curdev # found
      <3>1. curdev' = curdev + 1 /\ curdev + 1 \in 0..MaxDevices /\ curdev + 1 # 0
        BY <1>1, <2>1, <2>3
      <3> QED
        BY <1>1, <2>1, <3>1
    <2> QED
      BY <2>2, <2>3
  <1>8. CASE WalkEnds
    BY <1>1, <1>8 DEF WalkEnds, NULL
  <1> QED
    BY <1>2, <1>3, <1>4, <1>5, <1>6, <1>7, <1>8 DEF ListNext

\* Listing the devices ends for any number of them and whichever string cannot be read:
\* no step gives it more to do, and each of its steps leaves it less.
BoundedList ==
    /\ [](ListLeft \in 0..(3 * MaxDevices + 6))
    /\ [][UNCHANGED listvars \/ ListLeft' < ListLeft]_allvars

THEOREM ToolListProgress == ToolSpec => BoundedList
  <1>1. ToolInv => ListLeft \in 0..(3 * MaxDevices + 6)
    <2> SUFFICES ASSUME ToolInv PROVE ListLeft \in 0..(3 * MaxDevices + 6)
      OBVIOUS
    <2>1. /\ found \in 0..MaxDevices /\ depth \in 0..found /\ curdev \in 0..MaxDevices
          /\ MaxDevices \in Nat
          /\ at \in {"idle", "descend", "return", "walk", "listed", "failed"}
          /\ at = "walk" /\ curdev # 0 => curdev <= found
      BY DeviceAssumption DEF ToolInv, ListInv, ListTypeOK, NULL
    <2>2. CASE at \in {"idle", "descend", "return"}
      BY <2>1, <2>2, ListDescends DEF ListLeft
    <2>3. CASE at \in {"walk", "listed", "failed"}
      BY <2>1, <2>3, ListDescends DEF ListLeft
    <2> QED
      BY <2>1, <2>2, <2>3
  <1>2. ToolInv /\ [ToolNext]_allvars => [UNCHANGED listvars \/ ListLeft' < ListLeft]_allvars
    <2> SUFFICES ASSUME ToolInv, ToolNext
                 PROVE  UNCHANGED listvars \/ ListLeft' < ListLeft
      OBVIOUS
    <2>1. CASE ListDevices
      BY <2>1, ListStepProgress DEF ListDevices, ToolInv
    <2>2. CASE Usage \/ ListOption \/ Options \/ Foreground \/ Fork \/ ParentExits
      BY <2>2 DEF Usage, ListOption, Options, Foreground, Fork, ParentExits
    <2>3. CASE Initialize \/ Loop \/ OtherCall
      BY <2>3 DEF Initialize, Loop, LoopRead, OutputStdout, OutputPool, LoopEnd, OtherCall
    <2>4. CASE Terminate \/ ToolUnplug \/ Exited
      BY <2>4 DEF Terminate, ToolUnplug, Exited, allvars
    <2> QED
      BY <2>1, <2>2, <2>3, <2>4 DEF ToolNext
  <1> QED
    BY <1>1, <1>2, ToolSpecInv, PTL DEF ToolSpec, BoundedList

\* Steps from a signal to the exit: the result at hand is written, then the loop ends.
StopLeft == IF pc = "output" THEN 2 ELSE IF pc = "read" THEN 1 ELSE 0

\* A signal ends the program: from then on no result is asked for, the program is at
\* most two steps from its exit and can end its context, and no step takes it back.  This
\* is what TerminateEnds rests on beside the fairness of the loop (infnoise.c:304-338).
BoundedStop ==
    /\ [](signalled => /\ pc \in {"read", "output", "exited"}
                       /\ pc # "exited" => ~running /\ phase = "ready")
    /\ [][signalled => UNCHANGED pc \/ StopLeft' < StopLeft]_allvars

\* What the handler leaves stays.
StopInv == signalled => pc \in {"read", "output", "exited"} /\ (pc # "exited" => ~running)

LEMMA StopStep == ToolInv /\ StopInv /\ [ToolNext]_allvars =>
                      StopInv' /\ (signalled => UNCHANGED pc \/ StopLeft' < StopLeft)
  <1> SUFFICES ASSUME ToolInv, StopInv, [ToolNext]_allvars
               PROVE  StopInv' /\ (signalled => UNCHANGED pc \/ StopLeft' < StopLeft)
    OBVIOUS
  <1> USE DEF StopInv, StopLeft, Exit
  <1>1. CASE Usage \/ ListOption \/ ListDevices \/ Options
    BY <1>1 DEF Usage, ListOption, ListDevices, Options
  <1>2. CASE Foreground \/ Fork \/ ParentExits \/ Initialize
    BY <1>2 DEF Foreground, Fork, ParentExits, Initialize
  <1>3. CASE LoopRead
    BY <1>3 DEF LoopRead
  <1>4. CASE OutputStdout \/ OutputPool
    BY <1>4 DEF OutputStdout, OutputPool
  <1>5. CASE LoopEnd
    BY <1>5 DEF LoopEnd
  <1>6. CASE OtherCall \/ ToolUnplug
    BY <1>6 DEF OtherCall, ToolUnplug, toolvars
  <1>7. CASE Terminate
    BY <1>7 DEF Terminate
  <1>8. CASE Exited \/ UNCHANGED allvars
    BY <1>8 DEF Exited, allvars, toolvars
  <1> QED
    BY <1>1, <1>2, <1>3, <1>4, <1>5, <1>6, <1>7, <1>8 DEF ToolNext, Loop

THEOREM ToolStopsOnSignal == ToolSpec => BoundedStop
  <1>1. ToolInit => StopInv
    BY DEF ToolInit, StopInv
  <1>2. ToolInv /\ StopInv =>
            (signalled => /\ pc \in {"read", "output", "exited"}
                          /\ pc # "exited" => ~running /\ phase = "ready")
    BY DEF ToolInv, StopInv
  <1>3. ToolInv /\ StopInv /\ [ToolNext]_allvars =>
            StopInv' /\ [signalled => UNCHANGED pc \/ StopLeft' < StopLeft]_allvars
    BY StopStep
  <1> QED
    BY <1>1, <1>2, <1>3, ToolSpecInv, PTL DEF ToolSpec, BoundedStop

=============================================================================
