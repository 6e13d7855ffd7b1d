----------------------- MODULE InfnoiseTransfer_proofs -----------------------
(***************************************************************************)
(* Theorems about InfnoiseTransfer, for every size of packets and writes,  *)
(* every number of attempts and every threshold, with or without gaps.     *)
(***************************************************************************)
EXTENDS InfnoiseTransfer, TLAPS

Byte  == Status..BufLen
Item  == Stale..BufLen

\* The lesser of two lengths is a length that exceeds neither.
LEMMA LeastNat ==
    ASSUME NEW a \in Nat, NEW b \in Nat
    PROVE  Least(a, b) \in Nat /\ Least(a, b) <= a /\ Least(a, b) <= b
  BY DEF Least

\* The sizes of a packet and of a read, whatever the division gives.
LEMMA Sizes ==
    /\ PacketSize \in Nat /\ PacketSize = StatusSize + DataPerPacket
    /\ Capacity \in Nat /\ Capacity = 2 * BufLen
  BY PacketAssumption DEF PacketSize, Capacity

\* A function on 1..n is a sequence of that length.
LEMMA FunctionSeq ==
    ASSUME NEW S, NEW n \in Nat, NEW f \in [1..n -> S]
    PROVE  f \in Seq(S) /\ Len(f) = n
  OBVIOUS

\* What the chip holds after k clocks: samples, at most k more than before.
LEMMA ClockedType ==
    ASSUME queue \in Seq(Item), NEW k \in 0..BufLen
    PROVE  /\ Clocked(k) \in Seq(Item)
           /\ Len(Clocked(k)) <= Len(queue) + k
           /\ mode = "uart" => Clocked(k) = queue
  <1> DEFINE old == [i \in 1..Len(queue) |-> Stale]
             new == SubSeq(Own, 1, k)
  <1> USE PacketAssumption
  <1>1. old \in Seq(Item) /\ Len(old) = Len(queue)
    BY FunctionSeq DEF Item, Stale
  <1>2. Own \in Seq(Item) /\ Len(Own) = BufLen
    BY FunctionSeq DEF Item, Stale, Own
  <1>3. new \in Seq(Item) /\ Len(new) = k
    BY <1>2
  <1>4. old \o new \in Seq(Item) /\ Len(old \o new) = Len(queue) + k
    BY <1>1, <1>3
  <1>5. QED
    BY <1>4 DEF Clocked

\* A packet, and what stays in the chip.
LEMMA PacketType ==
    ASSUME queue \in Seq(Item), NEW d \in 0..Len(queue)
    PROVE  /\ Packet(d) \in Seq(Byte) /\ Len(Packet(d)) = StatusSize + d
           /\ Dequeued(d) \in Seq(Item) /\ Len(Dequeued(d)) = Len(queue) - d
           /\ d = 0 => \A i \in 1..StatusSize : Packet(d)[i] = Status
  <1> DEFINE head == [k \in 1..StatusSize |-> Status]
             tail == SubSeq(queue, 1, d)
  <1> USE PacketAssumption
  <1>1. head \in Seq(Byte) /\ Len(head) = StatusSize
    BY FunctionSeq DEF Byte, Status
  <1>2. tail \in Seq(Item) /\ Len(tail) = d
    OBVIOUS
  <1>3. Item \subseteq Byte
    BY DEF Item, Byte, Stale, Status
  <1>4. tail \in Seq(Byte)
    BY <1>2, <1>3
  <1>5. head \o tail \in Seq(Byte) /\ Len(head \o tail) = StatusSize + d
    BY <1>1, <1>2, <1>4
  <1>6. \A i \in 1..StatusSize : (head \o tail)[i] = Status
    BY <1>1, <1>4
  <1>7. Dequeued(d) \in Seq(Item) /\ Len(Dequeued(d)) = Len(queue) - d
    BY DEF Dequeued
  <1>8. QED
    BY <1>5, <1>6, <1>7 DEF Packet

\* What integer division gives, for any positive divisor.
LEMMA DivProp ==
    ASSUME NEW a \in Nat, NEW d \in Nat, d > 0
    PROVE  /\ a \div d \in Nat /\ a % d \in 0..(d - 1)
           /\ a = d * (a \div d) + (a % d)
  OBVIOUS

\* The packets of one read, and how many bytes they are.
Packets == (BufLen + DataPerPacket - 1) \div DataPerPacket

LEMMA ReadSize ==
    /\ Packets \in Nat /\ BufLen - 1 < DataPerPacket * Packets
    /\ UsbReadSize \in Nat /\ UsbReadSize = Packets * PacketSize
  <1> USE PacketAssumption
  <1> DEFINE a == BufLen + DataPerPacket - 1
  <1>1. a \in Nat /\ a = BufLen + DataPerPacket - 1
    OBVIOUS
  <1> HIDE DEF a
  <1>2. /\ a \div DataPerPacket \in Nat /\ a % DataPerPacket \in 0..(DataPerPacket - 1)
        /\ a = DataPerPacket * (a \div DataPerPacket) + (a % DataPerPacket)
    BY <1>1, DivProp
  <1>3. Packets = a \div DataPerPacket
    BY DEF Packets, a
  <1>4. Packets \in Nat /\ BufLen - 1 < DataPerPacket * Packets
    BY <1>1, <1>2, <1>3
  <1>5. UsbReadSize = Packets * PacketSize
    BY DEF UsbReadSize, Packets
  <1>6. Packets * PacketSize \in Nat
    BY <1>4, Sizes
  <1>7. QED
    BY <1>4, <1>5, <1>6

\* An empty read buffer is one.
LEMMA EmptyBuf == <<>> \in Seq(Byte) /\ Len(<<>>) <= UsbReadSize
  BY ReadSize

\* A full read has a byte for every sample of a write: as many packets are read as
\* the samples need.
LEMMA DataIndexFits ==
    ASSUME NEW j \in 1..BufLen
    PROVE  DataIndex(j) \in 1..UsbReadSize
  <1> USE PacketAssumption
  <1> DEFINE q == (j - 1) \div DataPerPacket
             r == (j - 1) % DataPerPacket
  <1>1. q \in Nat /\ r \in 0..(DataPerPacket - 1) /\ j - 1 = DataPerPacket * q + r
    BY DivProp
  <1>2. DataIndex(j) = q * PacketSize + StatusSize + r + 1
    BY DEF DataIndex
  <1> HIDE DEF q, r
  <1>3. q <= Packets - 1
    <2> SUFFICES ASSUME Packets <= q PROVE FALSE
      BY <1>1, ReadSize
    <2>1. DataPerPacket * Packets <= DataPerPacket * q
      BY <1>1, ReadSize
    <2>2. QED
      BY <1>1, <2>1, ReadSize
  <1>4. q * PacketSize <= (Packets - 1) * PacketSize /\ q * PacketSize \in Nat
    BY <1>1, <1>3, ReadSize, Sizes
  <1>5. (Packets - 1) * PacketSize = UsbReadSize - PacketSize
    BY ReadSize, Sizes
  <1>6. QED
    BY <1>1, <1>2, <1>4, <1>5, Sizes, ReadSize

\* Stripping a full read leaves the samples of one write.
LEMMA StripFull ==
    ASSUME NEW buf \in Seq(Byte), Len(buf) = UsbReadSize
    PROVE  /\ Strip(buf) \in Seq(Byte) /\ Len(Strip(buf)) = BufLen
           /\ \A j \in 1..BufLen : Strip(buf)[j] = buf[DataIndex(j)]
  <1>1. {k \in 1..BufLen : DataIndex(k) <= Len(buf)} = 1..BufLen
    BY DataIndexFits
  <1>2. Strip(buf) = [j \in 1..BufLen |-> buf[DataIndex(j)]]
    BY <1>1 DEF Strip
  <1>3. \A j \in 1..BufLen : buf[DataIndex(j)] \in Byte
    BY DataIndexFits
  <1>4. Strip(buf) \in [1..BufLen -> Byte]
    BY <1>2, <1>3
  <1>5. QED
    BY <1>2, <1>4, FunctionSeq, PacketAssumption

-----------------------------------------------------------------------------
\* What is known of a chip out of bit-bang mode: it has no samples to hand out, the
\* counter stands at the threshold, and a configuration under way has not yet set the
\* mode again.
Deaf ==
    mode = "uart" =>
        /\ queue = <<>>
        /\ consecutive_errors >= Threshold
        /\ pc = "read" => \A i \in 1..Len(usb_buf) : usb_buf[i] = Status
        /\ pc = "control" => step <= 3

\* A recovery runs only with the counter at the threshold.
Recovering == pc \in {"control", "reset"} => consecutive_errors >= Threshold

Inv == TypeOK /\ RecoveryTried /\ Deaf /\ Recovering

\* One more error, up to the bound of the counter.
LEMMA CountedType ==
    ASSUME consecutive_errors \in 0..(Threshold + 1)
    PROVE  /\ Counted \in 0..(Threshold + 1)
           /\ Counted >= consecutive_errors
           /\ consecutive_errors + 1 < Threshold => Counted < Threshold
           /\ consecutive_errors + 1 >= Threshold => Counted >= Threshold
  BY RetryAssumption DEF Counted

\* The next attempt, or the return of the last error.
LEMMA NextAttemptType ==
    ASSUME retry \in 0..(MaxRetries - 1), ret \in {"ok", "error"}, NextAttempt
    PROVE  /\ retry' \in 0..(MaxRetries - 1)
           /\ pc' \in {"write", "idle"}
           /\ ret' \in {"ok", "error"}
  BY RetryAssumption DEF NextAttempt

\* After probe the chip is configured and holds less than one write.
LEMMA InitInv == Init => Inv
  <1> SUFFICES ASSUME Init PROVE Inv
    OBVIOUS
  <1> USE PacketAssumption, RetryAssumption
  <1> DEFINE m == Least(PacketSize, BufLen)
  <1>0. m \in Nat /\ m <= BufLen
    BY LeastNat, Sizes
  <1> HIDE DEF m
  <1>1. PICK k \in StatusSize..m : queue = [i \in 1..k |-> Stale]
    BY DEF Init, m
  <1>2. k \in Nat /\ k <= BufLen
    BY <1>0, <1>1
  <1>3. queue \in Seq(Item) /\ Len(queue) = k
    BY <1>1, <1>2, FunctionSeq DEF Item, Stale
  <1>4. Len(queue) <= Capacity /\ 0 \in 0..Capacity
    BY <1>2, <1>3, Sizes
  <1>5. <<>> \in Seq(Byte) /\ Len(<<>>) <= UsbReadSize
    BY ReadSize
  <1>6. TypeOK
    <2>1. usb_buf = <<>> /\ block = <<>> /\ backlog = 0
      BY DEF Init
    <2>2. /\ usb_buf \in Seq(Byte) /\ Len(usb_buf) <= UsbReadSize
          /\ block \in Seq(Byte) /\ backlog \in 0..Capacity
      BY <2>1, <1>4, <1>5
    <2>3. /\ retry \in 0..(MaxRetries - 1) /\ consecutive_errors \in 0..(Threshold + 1)
          /\ step \in 0..Configurations /\ again \in BOOLEAN
      <3>1. retry = 0 /\ consecutive_errors = 0 /\ step = 0 /\ again = FALSE
        BY DEF Init
      <3>2. 0 \in 0..(MaxRetries - 1) /\ 0 \in 0..(Threshold + 1) /\ 0 \in 0..Configurations
        BY DEF Configurations
      <3>3. QED
        BY <3>1, <3>2
    <2>4. /\ pc \in {"idle", "write", "read", "error", "control", "reset"}
          /\ err \in {"none", "recoverable", "fatal"} /\ ret \in {"ok", "error"}
          /\ mode \in {"sync", "uart"} /\ gaps \in BOOLEAN /\ bus \in {"flaky", "good", "gone"}
          /\ health_fail \in BOOLEAN
      BY DEF Init
    <2>5. QED
      BY <1>3, <1>4, <2>2, <2>3, <2>4 DEF TypeOK, Byte, Item
  <1>7. RecoveryTried /\ Deaf /\ Recovering
    BY DEF Init, RecoveryTried, Deaf, Recovering
  <1>8. QED
    BY <1>6, <1>7 DEF Inv

\* The steps of the bus and the caller, and the writes.
LEMMA WriteInv ==
    ASSUME Inv,
           \/ Call \/ BusSettles \/ WarmupFails \/ Unplug \/ WriteOk
           \/ \E class \in Classes, k \in 0..(BufLen - 1) : WriteFail(class, k)
    PROVE  Inv'
  <1> USE PacketAssumption, RetryAssumption
      DEF Inv, TypeOK, RecoveryTried, Deaf, Recovering, chip, driver, Byte, Item
  <1>1. CASE Call
    BY <1>1 DEF Call
  <1>2. CASE BusSettles
    BY <1>2 DEF BusSettles
  <1>3. CASE WarmupFails
    BY <1>3 DEF WarmupFails
  <1>4. CASE Unplug
    BY <1>4 DEF Unplug
  <1>5. CASE WriteOk
    <2>1. /\ Clocked(BufLen) \in Seq(Item)
          /\ Len(Clocked(BufLen)) <= Len(queue) + BufLen
          /\ mode = "uart" => Clocked(BufLen) = queue
      BY ClockedType
    <2>2. queue' \in Seq(Item) /\ Len(queue') <= Capacity /\ backlog' \in 0..Capacity
      BY <1>5, <2>1, Sizes DEF WriteOk
    <2>3. usb_buf' \in Seq(Byte) /\ Len(usb_buf') <= UsbReadSize
      BY <1>5, ReadSize DEF WriteOk
    <2>4. TypeOK'
      BY <1>5, <2>2, <2>3 DEF WriteOk
    <2>5. Deaf'
      BY <1>5, <2>1 DEF WriteOk
    <2>6. QED
      BY <1>5, <2>4, <2>5 DEF WriteOk
  <1>6. ASSUME NEW class \in Classes, NEW k \in 0..(BufLen - 1), WriteFail(class, k)
        PROVE  Inv'
    <2>1. /\ Clocked(k) \in Seq(Item)
          /\ Len(Clocked(k)) <= Len(queue) + k
          /\ mode = "uart" => Clocked(k) = queue
      BY ClockedType
    <2>2. queue' \in Seq(Item) /\ Len(queue') <= Capacity
      BY <1>6, <2>1, Sizes DEF WriteFail
    <2>3. mode = "uart" => queue' = queue
      BY <1>6, <2>1 DEF WriteFail
    <2>4. TypeOK'
      BY <1>6, <2>2, EmptyBuf DEF WriteFail, Fail, Classes
    <2>5. Deaf'
      BY <1>6, <2>3 DEF WriteFail, Fail
    <2>6. QED
      BY <1>6, <2>4, <2>5 DEF WriteFail, Fail
  <1>7. QED
    BY <1>1, <1>2, <1>3, <1>4, <1>5, <1>6

\* A sequence of length 0 is the empty one.
LEMMA EmptyWhenZero ==
    ASSUME NEW S, NEW s \in Seq(S), Len(s) = 0
    PROVE  s = <<>>
  OBVIOUS

\* Status bytes after status bytes are status bytes.
LEMMA AllStatus ==
    ASSUME NEW s \in Seq(Byte), NEW t \in Seq(Byte), Len(t) = StatusSize,
           \A i \in 1..Len(s) : s[i] = Status,
           \A i \in 1..StatusSize : t[i] = Status
    PROVE  \A i \in 1..Len(s \o t) : (s \o t)[i] = Status
  <1> TAKE i \in 1..Len(s \o t)
  <1>1. Len(s \o t) = Len(s) + StatusSize
    OBVIOUS
  <1>2. CASE i <= Len(s)
    BY <1>2
  <1>3. CASE i > Len(s)
    <2>1. (s \o t)[i] = t[i - Len(s)] /\ i - Len(s) \in 1..StatusSize
      BY <1>1, <1>3
    <2>2. QED
      BY <2>1
  <1>4. QED
    BY <1>2, <1>3

\* A chip that holds nothing has nothing to hand out.
LEMMA NothingTaken ==
    ASSUME queue \in Seq(Item), NEW d \in 0..Len(queue), queue = <<>>
    PROVE  d = 0 /\ Dequeued(d) = <<>>
  <1>1. d = 0
    OBVIOUS
  <1>2. Dequeued(d) \in Seq(Item) /\ Len(Dequeued(d)) = 0
    BY <1>1, PacketType
  <1>3. QED
    BY <1>1, <1>2, EmptyWhenZero

\* What may arrive is what the chip holds.
LEMMA FillType ==
    ASSUME Inv, NEW d \in Fill
    PROVE  d \in 0..Len(queue)
  <1>1. Len(queue) \in Nat
    BY DEF Inv, TypeOK
  <1>2. /\ Least(DataPerPacket, Len(queue)) \in Nat
        /\ Least(DataPerPacket, Len(queue)) <= Len(queue)
    BY <1>1, LeastNat, PacketAssumption
  <1>3. QED
    BY <1>1, <1>2 DEF Fill

\* The reads.
LEMMA ReadInv ==
    ASSUME Inv,
           \/ \E d \in 0..DataPerPacket : ReadPacket(d) \/ ReadOverflow(d)
           \/ \E class \in Classes, d \in 0..DataPerPacket : ReadFail(class, d)
    PROVE  Inv'
  <1> USE PacketAssumption, RetryAssumption
      DEF Inv, TypeOK, RecoveryTried, Deaf, Recovering, chip, driver, Byte, Item
  <1>1. ASSUME NEW d \in 0..DataPerPacket, ReadPacket(d)
        PROVE  Inv'
    <2>1. d \in 0..Len(queue)
      BY <1>1, FillType DEF ReadPacket
    <2>2. /\ Packet(d) \in Seq(Byte) /\ Len(Packet(d)) = StatusSize + d
          /\ Dequeued(d) \in Seq(Item) /\ Len(Dequeued(d)) = Len(queue) - d
          /\ d = 0 => \A i \in 1..StatusSize : Packet(d)[i] = Status
      BY <2>1, PacketType
    <2>3. queue' \in Seq(Item) /\ Len(queue') <= Capacity
      BY <1>1, <2>1, <2>2, Sizes DEF ReadPacket
    <2>4. usb_buf' \in Seq(Byte) /\ Len(usb_buf') <= UsbReadSize
      BY <1>1, <2>2, ReadSize DEF ReadPacket
    <2>5. TypeOK'
      BY <1>1, <2>3, <2>4 DEF ReadPacket
    <2>6. ASSUME mode = "uart"
          PROVE  /\ queue' = <<>>
                 /\ \A i \in 1..Len(usb_buf') : usb_buf'[i] = Status
      <3>1. d = 0 /\ Dequeued(d) = <<>>
        BY <2>1, <2>6, NothingTaken
      <3>5. pc = "read" /\ usb_buf' = usb_buf \o Packet(d)
        BY <1>1 DEF ReadPacket, Reading
      <3>6. \A i \in 1..Len(usb_buf) : usb_buf[i] = Status
        BY <2>6, <3>5
      <3>7. usb_buf \in Seq(Byte)
        OBVIOUS
      <3> HIDE DEF Inv, TypeOK, RecoveryTried, Deaf, Recovering, Byte, Item
      <3>8. \A i \in 1..Len(usb_buf') : usb_buf'[i] = Status
        <4>1. \A i \in 1..Len(usb_buf \o Packet(d)) : (usb_buf \o Packet(d))[i] = Status
          BY <2>2, <3>1, <3>6, <3>7, AllStatus
        <4>2. QED
          BY <3>5, <4>1
      <3>9. QED
        BY <1>1, <3>1, <3>8 DEF ReadPacket
    <2>7. Deaf'
      BY <1>1, <2>6 DEF ReadPacket, Reading
    <2>8. QED
      BY <1>1, <2>5, <2>7 DEF ReadPacket, Reading
  <1>2. ASSUME NEW d \in 0..DataPerPacket, ReadOverflow(d)
        PROVE  Inv'
    <2>1. d \in 0..Len(queue)
      BY <1>2, FillType DEF ReadOverflow
    <2>2. Dequeued(d) \in Seq(Item) /\ Len(Dequeued(d)) = Len(queue) - d
      BY <2>1, PacketType
    <2>3. queue' \in Seq(Item) /\ Len(queue') <= Capacity
      BY <1>2, <2>1, <2>2, Sizes DEF ReadOverflow
    <2>4. mode = "uart" => queue' = <<>>
      BY <1>2, <2>1, NothingTaken DEF ReadOverflow
    <2>5. TypeOK'
      BY <1>2, <2>3, EmptyBuf DEF ReadOverflow, Fail
    <2>6. QED
      BY <1>2, <2>4, <2>5 DEF ReadOverflow, Fail
  <1>3. ASSUME NEW class \in Classes, NEW d \in 0..DataPerPacket, ReadFail(class, d)
        PROVE  Inv'
    <2>1. Len(queue) \in Nat
      OBVIOUS
    <2>2. d \in 0..Len(queue)
      <3>1. /\ Least(DataPerPacket, Len(queue)) \in Nat
            /\ Least(DataPerPacket, Len(queue)) <= Len(queue)
        BY <2>1, LeastNat
      <3>2. d \in 0..Least(DataPerPacket, Len(queue))
        BY <1>3 DEF ReadFail
      <3>3. QED
        BY <2>1, <3>1, <3>2
    <2>3. Dequeued(d) \in Seq(Item) /\ Len(Dequeued(d)) = Len(queue) - d
      BY <2>2, PacketType
    <2>4. queue' \in Seq(Item) /\ Len(queue') <= Capacity
      BY <1>3, <2>2, <2>3, Sizes DEF ReadFail
    <2>5. mode = "uart" => queue' = <<>>
      BY <1>3, <2>2, NothingTaken DEF ReadFail
    <2>6. TypeOK'
      BY <1>3, <2>4, EmptyBuf DEF ReadFail, Fail, Classes
    <2>7. QED
      BY <1>3, <2>5, <2>6 DEF ReadFail, Fail
  <1>4. QED
    BY <1>1, <1>2, <1>3

\* The checks of a full read.  Out of bit-bang mode it holds status bytes alone, so
\* only a configured chip passes them and clears the counter.
LEMMA ExtractInv ==
    ASSUME Inv, ExtractOk \/ ExtractFault
    PROVE  Inv'
  <1> USE PacketAssumption, RetryAssumption
      DEF Inv, TypeOK, RecoveryTried, Deaf, Recovering, chip, driver, Byte
  <1>1. CASE ExtractOk
    <2>1. usb_buf \in Seq(Byte) /\ Len(usb_buf) = UsbReadSize
      BY <1>1, ReadSize DEF ExtractOk, Reading
    <2>2. /\ Strip(usb_buf) \in Seq(Byte) /\ Len(Strip(usb_buf)) = BufLen
          /\ \A j \in 1..BufLen : Strip(usb_buf)[j] = usb_buf[DataIndex(j)]
      BY <2>1, StripFull
    <2>3. mode # "uart"
      <3>1. PICK j \in 1..BufLen : Strip(usb_buf)[j] # Status
        BY <1>1 DEF ExtractOk
      <3>2. DataIndex(j) \in 1..Len(usb_buf)
        BY <2>1, DataIndexFits
      <3>3. usb_buf[DataIndex(j)] # Status
        BY <2>2, <3>1
      <3>4. QED
        BY <1>1, <3>2, <3>3 DEF ExtractOk
    <2>4. TypeOK'
      BY <1>1, <2>2, EmptyBuf DEF ExtractOk
    <2>5. QED
      BY <1>1, <2>3, <2>4 DEF ExtractOk
  <1>2. CASE ExtractFault
    <2>1. TypeOK'
      BY <1>2, EmptyBuf DEF ExtractFault, Fail
    <2>2. QED
      BY <1>2, <2>1 DEF ExtractFault, Fail
  <1>3. QED
    BY <1>1, <1>2

\* The errors: the counter grows, and an attempt follows only below the threshold.
LEMMA ErrorInv ==
    ASSUME Inv, ErrorFatal \/ ErrorRetry \/ ErrorRecover
    PROVE  Inv'
  <1> USE RetryAssumption
      DEF Inv, TypeOK, RecoveryTried, Deaf, Recovering, chip, driver
  <1>1. /\ Counted \in 0..(Threshold + 1)
        /\ Counted >= consecutive_errors
        /\ consecutive_errors + 1 < Threshold => Counted < Threshold
        /\ consecutive_errors + 1 >= Threshold => Counted >= Threshold
    BY CountedType
  <1>2. CASE ErrorFatal
    BY <1>1, <1>2 DEF ErrorFatal
  <1>3. CASE ErrorRetry
    <2>1. /\ retry' \in 0..(MaxRetries - 1) /\ pc' \in {"write", "idle"}
          /\ ret' \in {"ok", "error"}
      BY <1>3, NextAttemptType DEF ErrorRetry
    <2>2. mode # "uart" /\ consecutive_errors' < Threshold
      BY <1>1, <1>3 DEF ErrorRetry
    <2>3. QED
      BY <1>1, <1>3, <2>1, <2>2 DEF ErrorRetry
  <1>4. CASE ErrorRecover
    <2>1. /\ pc' \in {"idle", "control"} /\ step' \in 0..Configurations
          /\ again' \in BOOLEAN /\ ret' \in {"ok", "error"}
          /\ pc' = "control" => step' = 0
      <3>1. \/ pc' = "idle" /\ ret' = "error" /\ step' = step /\ again' = again
            \/ pc' = "control" /\ ret' = ret /\ step' = 0 /\ again' = FALSE
        BY <1>4 DEF ErrorRecover
      <3>2. 0 \in 0..Configurations
        BY DEF Configurations
      <3>3. QED
        BY <3>1, <3>2
    <2>2. consecutive_errors' \in 0..(Threshold + 1) /\ consecutive_errors' >= Threshold
      BY <1>1, <1>4 DEF ErrorRecover
    <2>3. UNCHANGED <<retry, err, usb_buf, block, queue, mode, gaps, bus, backlog,
                      health_fail>>
      BY <1>4 DEF ErrorRecover
    <2>4. QED
      BY <2>1, <2>2, <2>3
  <1>5. QED
    BY <1>2, <1>3, <1>4

\* The recovery: a reset leaves a deaf chip and the counter as it is; the counter is
\* cleared behind the last control transfer, when the mode has been set again.
LEMMA RecoveryInv ==
    ASSUME Inv,
           ControlOk \/ ControlFail \/ UsbReset \/ UsbResetFail \/ Recovered
    PROVE  Inv'
  <1> USE RetryAssumption
      DEF Inv, TypeOK, RecoveryTried, Deaf, Recovering, chip, driver, Item, Configurations
  <1>0. <<>> \in Seq(Item) /\ Len(<<>>) = 0 /\ 0 <= Capacity
    BY Sizes, PacketAssumption
  <1>1. CASE ControlOk
    <2>1. queue' \in Seq(Item) /\ Len(queue') <= Capacity /\ step' \in 0..Configurations
      <3>1. queue' = <<>> \/ queue' = queue
        BY <1>1 DEF ControlOk
      <3>2. queue' \in Seq(Item) /\ Len(queue') <= Capacity
        BY <1>0, <3>1
      <3>3. step \in 0..6 /\ step < 6 /\ step' = step + 1
        BY <1>1 DEF ControlOk
      <3>4. QED
        BY <3>2, <3>3
    <2>2. mode' \in {"sync", "uart"}
      BY <1>1 DEF ControlOk
    <2>3. TypeOK'
      BY <1>1, <2>1, <2>2 DEF ControlOk
    <2>4. Deaf'
      BY <1>1 DEF ControlOk
    <2>5. QED
      BY <1>1, <2>3, <2>4 DEF ControlOk
  <1>2. CASE ControlFail
    BY <1>2 DEF ControlFail
  <1>3. CASE UsbReset
    BY <1>0, <1>3 DEF UsbReset
  <1>4. CASE UsbResetFail
    <2>1. /\ queue' \in Seq(Item) /\ Len(queue') <= Capacity
          /\ mode' \in {"sync", "uart"}
          /\ mode' = "uart" => queue' = <<>>
      BY <1>0, <1>4 DEF UsbResetFail
    <2>2. TypeOK'
      BY <1>4, <2>1 DEF UsbResetFail
    <2>3. QED
      BY <1>4, <2>1, <2>2 DEF UsbResetFail
  <1>5. CASE Recovered
    <2>1. /\ retry' \in 0..(MaxRetries - 1) /\ pc' \in {"write", "idle"}
          /\ ret' \in {"ok", "error"}
      BY <1>5, NextAttemptType DEF Recovered
    <2>2. mode # "uart"
      BY <1>5 DEF Recovered
    <2>3. QED
      BY <1>5, <2>1, <2>2 DEF Recovered
  <1>6. QED
    BY <1>1, <1>2, <1>3, <1>4, <1>5

\* Every step keeps the invariant.
LEMMA NextInv == Inv /\ [Next]_vars => Inv'
  <1> SUFFICES ASSUME Inv, [Next]_vars PROVE Inv'
    OBVIOUS
  <1>1. CASE Next
    BY <1>1, WriteInv, ReadInv, ExtractInv, ErrorInv, RecoveryInv DEF Next, Step
  <1>2. CASE UNCHANGED vars
    BY <1>2 DEF vars, driver, chip, Inv, TypeOK, RecoveryTried, Deaf, Recovering
  <1>3. QED
    BY <1>1, <1>2

LEMMA AlwaysInv == Spec => []Inv
  BY InitInv, NextInv, PTL DEF Spec

\* Every variable of the transfer has its type: the read buffer never holds more than
\* INFNOISE_USB_READ_SIZE bytes, the counters stay in their ranges.
THEOREM TransferTypeOK == Spec => []TypeOK
  <1>1. Inv => TypeOK
    BY DEF Inv
  <1>2. QED
    BY <1>1, AlwaysInv, PTL

\* An attempt that follows another starts below the threshold: every error that
\* reached it was answered by a recovery that cleared the counter.
THEOREM TransferRecoveryTried == Spec => []RecoveryTried
  <1>1. Inv => RecoveryTried
    BY DEF Inv
  <1>2. QED
    BY <1>1, AlwaysInv, PTL

\* A chip that a USB reset took out of bit-bang mode is remembered in the counter
\* until a configuration set the mode again, whatever failed in between.
THEOREM TransferDeafChipRemembered == Spec => []DeafChipRemembered
  <1>1. Inv => DeafChipRemembered
    BY DEF Inv, Deaf, DeafChipRemembered
  <1>2. QED
    BY <1>1, AlwaysInv, PTL

-----------------------------------------------------------------------------
\* A chip that fills its packets, read as it should be.
Clean == ~gaps /\ mode = "sync"

\* The packets read so far were full while the chip still holds samples.
PacketInv ==
    pc = "read" /\ Clean /\ queue # <<>> =>
        \E q \in Nat : /\ Len(usb_buf) = q * PacketSize
                       /\ Len(queue) = backlog + BufLen - q * DataPerPacket

\* Behind a queue that was empty, the samples of this write are in the buffer at
\* their places or still in the chip, in order.
SampleInv ==
    pc = "read" /\ Clean /\ backlog = 0 =>
        /\ Len(queue) <= BufLen
        /\ \A i \in 1..Len(queue) : queue[i] = BufLen - Len(queue) + i
        /\ \A j \in 1..(BufLen - Len(queue)) :
              DataIndex(j) \in 1..Len(usb_buf) /\ usb_buf[DataIndex(j)] = j

BlockInv ==
    /\ pc # "idle" => block = <<>>
    /\ ExactFromEmpty

ReadingInv == PacketInv /\ SampleInv /\ BlockInv

\* What two sequences give, one behind the other.
LEMMA Concat ==
    ASSUME NEW S, NEW s \in Seq(S), NEW t \in Seq(S)
    PROVE  /\ s \o t \in Seq(S) /\ Len(s \o t) = Len(s) + Len(t)
           /\ \A i \in 1..Len(s) : (s \o t)[i] = s[i]
           /\ \A i \in 1..Len(t) : (s \o t)[Len(s) + i] = t[i]
  OBVIOUS

\* A quotient is told by its remainder.
LEMMA DivUnique ==
    ASSUME NEW d \in Nat, d > 0, NEW q \in Nat, NEW r \in 0..(d - 1)
    PROVE  (d * q + r) \div d = q /\ (d * q + r) % d = r
  <1> DEFINE a == d * q + r
  <1>0. d * q \in Nat
    OBVIOUS
  <1>1. a \in Nat
    BY <1>0
  <1> HIDE DEF a
  <1>2. /\ a \div d \in Nat /\ a % d \in 0..(d - 1)
        /\ a = d * (a \div d) + (a % d)
    BY <1>1, DivProp
  <1> DEFINE x == a \div d
  <1>3. x \in Nat /\ d * x \in Nat
    BY <1>2
  <1> HIDE DEF x
  <1>4. a = d * q + r /\ a = d * x + (a % d)
    BY <1>2 DEF a, x
  <1>5. ~(x >= q + 1)
    <2> SUFFICES ASSUME x >= q + 1 PROVE FALSE
      OBVIOUS
    <2>1. d * x >= d * (q + 1) /\ d * (q + 1) = d * q + d
      BY <1>3
    <2>2. QED
      BY <1>0, <1>2, <1>3, <1>4, <2>1
  <1>6. ~(q >= x + 1)
    <2> SUFFICES ASSUME q >= x + 1 PROVE FALSE
      OBVIOUS
    <2>1. d * q >= d * (x + 1) /\ d * (x + 1) = d * x + d
      BY <1>3
    <2>2. QED
      BY <1>0, <1>2, <1>3, <1>4, <2>1
  <1>7. x = q
    BY <1>3, <1>5, <1>6
  <1>8. QED
    BY <1>0, <1>2, <1>4, <1>7 DEF a, x

\* Sample i of packet q + 1 lies behind the packets before it and a status.
LEMMA PacketIndex ==
    ASSUME NEW q \in Nat, NEW i \in 1..DataPerPacket
    PROVE  DataIndex(q * DataPerPacket + i) = q * PacketSize + StatusSize + i
  <1> USE PacketAssumption
  <1>1. q * DataPerPacket \in Nat /\ q * DataPerPacket = DataPerPacket * q
    OBVIOUS
  <1>2. (q * DataPerPacket + i) - 1 = DataPerPacket * q + (i - 1) /\ i - 1 \in 0..(DataPerPacket - 1)
    BY <1>1
  <1>3. /\ (DataPerPacket * q + (i - 1)) \div DataPerPacket = q
        /\ (DataPerPacket * q + (i - 1)) % DataPerPacket = i - 1
    BY <1>2, DivUnique
  <1>4. q * PacketSize \in Nat
    BY Sizes
  <1>5. DataIndex(q * DataPerPacket + i) = q * PacketSize + StatusSize + (i - 1) + 1
    BY <1>2, <1>3 DEF DataIndex
  <1>6. QED
    BY <1>4, <1>5

\* A full read that left samples behind has taken more than one write puts in.
LEMMA FullRead ==
    ASSUME NEW q \in Nat, q * PacketSize = UsbReadSize
    PROVE  q * DataPerPacket \in Nat /\ q * DataPerPacket > BufLen
  <1> USE PacketAssumption
  <1>1. q * PacketSize = Packets * PacketSize /\ PacketSize \in Nat /\ PacketSize > 0
    BY ReadSize, Sizes
  <1>2. q = Packets
    <2>1. ~(q >= Packets + 1)
      <3> SUFFICES ASSUME q >= Packets + 1 PROVE FALSE
        OBVIOUS
      <3>1. q * PacketSize >= (Packets + 1) * PacketSize
        BY <1>1, ReadSize
      <3>2. (Packets + 1) * PacketSize = Packets * PacketSize + PacketSize
        BY <1>1, ReadSize
      <3>3. Packets * PacketSize \in Nat
        BY <1>1, ReadSize
      <3>4. QED
        BY <1>1, <3>1, <3>2, <3>3
    <2>2. ~(Packets >= q + 1)
      <3> SUFFICES ASSUME Packets >= q + 1 PROVE FALSE
        OBVIOUS
      <3>1. Packets * PacketSize >= (q + 1) * PacketSize
        BY <1>1, ReadSize
      <3>2. (q + 1) * PacketSize = q * PacketSize + PacketSize /\ q * PacketSize \in Nat
        BY <1>1
      <3>3. QED
        BY <1>1, <3>1, <3>2
    <2>3. QED
      BY <2>1, <2>2, ReadSize
  <1>3. q * DataPerPacket = DataPerPacket * q /\ DataPerPacket * q \in Nat
    OBVIOUS
  <1>4. DataPerPacket * q > BufLen - 1
    BY <1>2, ReadSize
  <1>5. DataPerPacket * q # BufLen
    <2> DEFINE p == DataPerPacket * q
    <2>1. p \in Nat /\ p + 0 = p
      BY <1>3
    <2>2. (p + 0) % DataPerPacket = 0
      BY DivUnique
    <2> HIDE DEF p
    <2>3. p % DataPerPacket = 0
      BY <2>1, <2>2
    <2>4. p # BufLen
      BY <2>3, SpareAssumption
    <2>5. QED
      BY <2>4 DEF p
  <1>6. QED
    BY <1>3, <1>4, <1>5

\* The write puts its samples behind what the chip held.
LEMMA WriteReading ==
    ASSUME Inv, ReadingInv, WriteOk
    PROVE  ReadingInv'
  <1> USE PacketAssumption
  <1>1. queue \in Seq(Item) /\ Len(queue) \in Nat
    BY DEF Inv, TypeOK, Item
  <1>2. /\ pc' = "read" /\ usb_buf' = <<>> /\ backlog' = Len(queue)
        /\ mode' = mode /\ gaps' = gaps /\ block' = block /\ pc = "write"
        /\ queue' = Clocked(BufLen)
    BY DEF WriteOk
  <1> DEFINE old == [i \in 1..Len(queue) |-> Stale]
             new == SubSeq(Own, 1, BufLen)
  <1>3. old \in Seq(Item) /\ Len(old) = Len(queue)
    BY <1>1, FunctionSeq DEF Item, Stale
  <1>4. Own \in Seq(Item) /\ Len(Own) = BufLen /\ \A i \in 1..BufLen : Own[i] = i
    BY FunctionSeq DEF Item, Stale, Own
  <1>5. new \in Seq(Item) /\ Len(new) = BufLen /\ \A i \in 1..BufLen : new[i] = i
    BY <1>4
  <1> HIDE DEF old, new
  <1>6. ASSUME mode = "sync"
        PROVE  queue' = old \o new /\ Len(queue') = Len(queue) + BufLen
    <2>1. queue' = old \o new
      BY <1>2, <1>6 DEF Clocked, old, new
    <2>2. Len(old \o new) = Len(old) + Len(new)
      BY <1>3, <1>5, Concat
    <2>3. QED
      BY <1>3, <1>5, <2>1, <2>2
  <1>7. PacketInv'
    <2> SUFFICES ASSUME Clean'
                 PROVE  \E q \in Nat : /\ Len(usb_buf') = q * PacketSize
                                       /\ Len(queue') = backlog' + BufLen - q * DataPerPacket
      BY DEF PacketInv
    <2>1. mode = "sync"
      BY <1>2 DEF Clean
    <2>2. 0 * PacketSize = 0 /\ 0 * DataPerPacket = 0 /\ Len(usb_buf') = 0
      BY <1>2, Sizes
    <2>3. Len(queue') = backlog' + BufLen - 0 * DataPerPacket
      <3>1. Len(queue') = Len(queue) + BufLen
        BY <1>6, <2>1
      <3>2. backlog' = Len(queue)
        BY <1>2
      <3>3. QED
        BY <1>1, <2>2, <3>1, <3>2
    <2>4. QED
      BY <2>2, <2>3
  <1>8. SampleInv'
    <2> SUFFICES ASSUME Clean', backlog' = 0
                 PROVE  /\ Len(queue') = BufLen
                        /\ \A i \in 1..BufLen : queue'[i] = i
      BY DEF SampleInv
    <2>1. mode = "sync" /\ Len(queue) = 0
      BY <1>2 DEF Clean
    <2>2. queue' = old \o new /\ Len(old) = 0
      BY <1>3, <1>6, <2>1
    <2>3. QED
      BY <1>3, <1>5, <2>2
  <1>9. BlockInv'
    BY <1>2 DEF ReadingInv, BlockInv, ExactFromEmpty
  <1>10. QED
    BY <1>7, <1>8, <1>9 DEF ReadingInv

\* A packet: while the chip holds enough it is full; the last samples come in one
\* that is not, or just is.
LEMMA PacketReading ==
    ASSUME Inv, ReadingInv, NEW d \in 0..DataPerPacket, ReadPacket(d)
    PROVE  ReadingInv'
  <1> USE PacketAssumption
  <1>1. /\ queue \in Seq(Item) /\ Len(queue) \in Nat
        /\ usb_buf \in Seq(Byte) /\ Len(usb_buf) \in Nat /\ backlog \in Nat
    BY Sizes DEF Inv, TypeOK, Item, Byte
  <1>2. /\ pc = "read" /\ pc' = "read" /\ mode' = mode /\ gaps' = gaps
        /\ backlog' = backlog /\ block' = block
        /\ usb_buf' = usb_buf \o Packet(d) /\ queue' = Dequeued(d)
    BY DEF ReadPacket, Reading
  <1>3. d \in 0..Len(queue)
    BY FillType DEF ReadPacket
  <1>4. /\ Packet(d) \in Seq(Byte) /\ Len(Packet(d)) = StatusSize + d
        /\ Dequeued(d) \in Seq(Item) /\ Len(Dequeued(d)) = Len(queue) - d
    BY <1>1, <1>3, PacketType
  <1>5. Len(usb_buf') = Len(usb_buf) + StatusSize + d /\ Len(queue') = Len(queue) - d
    <2>1. Len(usb_buf \o Packet(d)) = Len(usb_buf) + Len(Packet(d))
      BY <1>1, <1>4, Concat
    <2>2. Len(usb_buf) + (StatusSize + d) = Len(usb_buf) + StatusSize + d
      BY <1>1
    <2>3. QED
      BY <1>2, <1>4, <2>1, <2>2
  <1>6. ASSUME ~gaps
        PROVE  d = DataPerPacket \/ (d = Len(queue) /\ d <= DataPerPacket)
    <2>1. d = Least(DataPerPacket, Len(queue))
      BY <1>6 DEF ReadPacket, Fill
    <2>2. QED
      BY <1>1, <2>1 DEF Least
  <1>7. queue' # <<>> => Len(queue') > 0
    <2>1. queue' \in Seq(Item)
      BY <1>2, <1>4
    <2>2. QED
      BY <2>1, EmptyWhenZero
  <1>8. PacketInv'
    <2> SUFFICES ASSUME Clean', queue' # <<>>
                 PROVE  \E q \in Nat : /\ Len(usb_buf') = q * PacketSize
                                       /\ Len(queue') = backlog' + BufLen - q * DataPerPacket
      BY DEF PacketInv
    <2>1. d = DataPerPacket /\ Clean /\ queue # <<>>
      <3>1. Clean /\ ~gaps
        BY <1>2 DEF Clean
      <3>2. Len(queue) - d > 0
        BY <1>5, <1>7
      <3>3. d = DataPerPacket
        BY <1>1, <1>6, <3>1, <3>2
      <3>4. Len(queue) # 0
        BY <1>1, <3>2, <3>3
      <3>5. queue # <<>>
        BY <3>4
      <3>6. QED
        BY <3>1, <3>3, <3>5
    <2>2. PICK q \in Nat : /\ Len(usb_buf) = q * PacketSize
                           /\ Len(queue) = backlog + BufLen - q * DataPerPacket
      BY <1>2, <2>1 DEF ReadingInv, PacketInv
    <2>3. /\ q * PacketSize \in Nat /\ q * DataPerPacket \in Nat
          /\ (q + 1) * PacketSize = q * PacketSize + PacketSize
          /\ (q + 1) * DataPerPacket = q * DataPerPacket + DataPerPacket
      BY Sizes
    <2>4. Len(usb_buf') = (q + 1) * PacketSize
      BY <1>5, <2>1, <2>2, <2>3, Sizes
    <2>5. Len(queue') = backlog' + BufLen - (q + 1) * DataPerPacket
      BY <1>1, <1>2, <1>5, <2>1, <2>2, <2>3
    <2>6. QED
      BY <2>4, <2>5
  <1>9. SampleInv'
    <2> SUFFICES ASSUME Clean', backlog' = 0
                 PROVE  /\ Len(queue') <= BufLen
                        /\ \A i \in 1..Len(queue') : queue'[i] = BufLen - Len(queue') + i
                        /\ \A j \in 1..(BufLen - Len(queue')) :
                              DataIndex(j) \in 1..Len(usb_buf') /\ usb_buf'[DataIndex(j)] = j
      BY DEF SampleInv
    <2>1. Clean /\ ~gaps /\ backlog = 0
      BY <1>2 DEF Clean
    <2>2. /\ Len(queue) <= BufLen
          /\ \A i \in 1..Len(queue) : queue[i] = BufLen - Len(queue) + i
          /\ \A j \in 1..(BufLen - Len(queue)) :
                DataIndex(j) \in 1..Len(usb_buf) /\ usb_buf[DataIndex(j)] = j
      BY <1>2, <2>1 DEF ReadingInv, SampleInv
    <2>3. ASSUME NEW i \in 1..Len(queue') PROVE queue'[i] = BufLen - Len(queue') + i
      <3>1. i + d \in 1..Len(queue)
        BY <1>1, <1>3, <1>5
      <3>2. queue' = SubSeq(queue, d + 1, Len(queue))
        BY <1>2 DEF Dequeued
      <3>3. queue'[i] = queue[i + d]
        BY <1>1, <1>3, <1>5, <3>2
      <3>4. queue[i + d] = BufLen - Len(queue) + (i + d)
        BY <2>2, <3>1
      <3>5. QED
        BY <1>1, <1>5, <3>3, <3>4
    <2>4. ASSUME NEW j \in 1..(BufLen - Len(queue))
          PROVE  DataIndex(j) \in 1..Len(usb_buf') /\ usb_buf'[DataIndex(j)] = j
      <3>1. DataIndex(j) \in 1..Len(usb_buf) /\ usb_buf[DataIndex(j)] = j
        BY <2>2
      <3>2. usb_buf'[DataIndex(j)] = usb_buf[DataIndex(j)]
        BY <1>1, <1>2, <1>4, <3>1
      <3>3. QED
        BY <1>1, <1>5, <3>1, <3>2
    <2>5. ASSUME NEW j \in (BufLen - Len(queue) + 1)..(BufLen - Len(queue) + d)
          PROVE  DataIndex(j) \in 1..Len(usb_buf') /\ usb_buf'[DataIndex(j)] = j
      <3> DEFINE i == j - (BufLen - Len(queue))
      <3>1. i \in 1..d /\ i \in 1..Len(queue) /\ i \in 1..DataPerPacket /\ j = BufLen - Len(queue) + i
        BY <1>1, <1>3
      <3> HIDE DEF i
      <3>2. queue # <<>>
        BY <1>1, <3>1
      <3>3. PICK q \in Nat : /\ Len(usb_buf) = q * PacketSize
                             /\ Len(queue) = backlog + BufLen - q * DataPerPacket
        BY <1>2, <2>1, <3>2 DEF ReadingInv, PacketInv
      <3>4. q * DataPerPacket \in Nat /\ q * PacketSize \in Nat
        BY Sizes
      <3>5. j = q * DataPerPacket + i
        BY <1>1, <2>1, <3>1, <3>3, <3>4
      <3>6. DataIndex(j) = Len(usb_buf) + (StatusSize + i)
        <4>1. DataIndex(q * DataPerPacket + i) = q * PacketSize + StatusSize + i
          BY <3>1, PacketIndex
        <4>2. q * PacketSize + StatusSize + i = q * PacketSize + (StatusSize + i)
          BY <3>1, <3>4
        <4>3. QED
          BY <3>3, <3>5, <4>1, <4>2
      <3>7. StatusSize + i \in 1..Len(Packet(d))
        BY <1>3, <1>4, <3>1
      <3>8. Packet(d)[StatusSize + i] = queue[i]
        <4> DEFINE head == [k \in 1..StatusSize |-> Status]
                   tail == SubSeq(queue, 1, d)
        <4>1. head \in Seq(Byte) /\ Len(head) = StatusSize
          BY FunctionSeq DEF Byte, Status
        <4>2. tail \in Seq(Item) /\ Len(tail) = d /\ tail[i] = queue[i]
          <5>1. queue \in Seq(Item) /\ d \in 0..Len(queue)
            BY <1>1, <1>3
          <5>2. tail \in Seq(Item) /\ Len(tail) = d
            BY <5>1
          <5>3. i \in 1..d
            BY <3>1
          <5>4. tail[i] = queue[1 + i - 1]
            BY <5>1, <5>3
          <5>5. QED
            BY <5>2, <5>3, <5>4
        <4>3. Item \subseteq Byte
          BY DEF Item, Byte, Stale, Status
        <4>4. tail \in Seq(Byte)
          BY <4>2, <4>3
        <4>5. Packet(d) = head \o tail
          BY DEF Packet
        <4> HIDE DEF head, tail
        <4>6. (head \o tail)[Len(head) + i] = tail[i]
          <5>1. i \in 1..Len(tail)
            BY <3>1, <4>2
          <5>2. QED
            BY <4>1, <4>4, <5>1, Concat
        <4>7. QED
          BY <4>1, <4>2, <4>5, <4>6
      <3>9. usb_buf'[DataIndex(j)] = Packet(d)[StatusSize + i]
        <4>1. (usb_buf \o Packet(d))[Len(usb_buf) + (StatusSize + i)] = Packet(d)[StatusSize + i]
          <5>1. usb_buf \in Seq(Byte) /\ Packet(d) \in Seq(Byte)
            BY <1>1, <1>4
          <5>2. \A k \in 1..Len(Packet(d)) :
                    (usb_buf \o Packet(d))[Len(usb_buf) + k] = Packet(d)[k]
            BY <5>1, Concat
          <5>3. QED
            BY <3>7, <5>2
        <4>2. QED
          BY <1>2, <3>6, <4>1
      <3>10. queue[i] = j
        BY <2>2, <3>1
      <3>11. DataIndex(j) \in 1..Len(usb_buf')
        BY <1>1, <1>4, <1>5, <3>6, <3>7
      <3>12. QED
        BY <3>8, <3>9, <3>10, <3>11
    <2>6. BufLen - Len(queue') = BufLen - Len(queue) + d
      BY <1>1, <1>3, <1>5
    <2>7. Len(queue') <= BufLen
      BY <1>1, <1>3, <1>5, <2>2
    <2>8. \A j \in 1..(BufLen - Len(queue')) :
            j \in 1..(BufLen - Len(queue)) \/ j \in (BufLen - Len(queue) + 1)..(BufLen - Len(queue) + d)
      BY <1>1, <1>3, <2>2, <2>6
    <2>9. QED
      BY <2>3, <2>4, <2>5, <2>7, <2>8
  <1>10. BlockInv'
    BY <1>2 DEF ReadingInv, BlockInv, ExactFromEmpty
  <1>11. QED
    BY <1>8, <1>9, <1>10 DEF ReadingInv

\* Only a configured chip passes the checks of a full read.
LEMMA ExtractSync ==
    ASSUME Inv, ExtractOk
    PROVE  mode = "sync" /\ usb_buf \in Seq(Byte) /\ Len(usb_buf) = UsbReadSize /\ pc = "read"
  <1>1. usb_buf \in Seq(Byte) /\ Len(usb_buf) = UsbReadSize /\ pc = "read"
    BY ReadSize DEF ExtractOk, Reading, Inv, TypeOK, Byte
  <1>2. \A j \in 1..BufLen : Strip(usb_buf)[j] = usb_buf[DataIndex(j)]
    BY <1>1, StripFull
  <1>3. PICK j \in 1..BufLen : Strip(usb_buf)[j] # Status
    BY DEF ExtractOk
  <1>4. DataIndex(j) \in 1..Len(usb_buf) /\ usb_buf[DataIndex(j)] # Status
    BY <1>1, <1>2, <1>3, DataIndexFits
  <1>5. QED
    BY <1>1, <1>4 DEF Inv, TypeOK, Deaf

\* What is left in the chip after a full read is less than what was there before
\* the write, or nothing.
LEMMA FullDrains ==
    ASSUME Inv, ReadingInv, Clean, pc = "read", Len(usb_buf) = UsbReadSize
    PROVE  Len(queue) < backlog \/ queue = <<>>
  <1> SUFFICES ASSUME queue # <<>> PROVE Len(queue) < backlog
    OBVIOUS
  <1>1. PICK q \in Nat : /\ Len(usb_buf) = q * PacketSize
                         /\ Len(queue) = backlog + BufLen - q * DataPerPacket
    BY DEF ReadingInv, PacketInv
  <1>2. q * DataPerPacket \in Nat /\ q * DataPerPacket > BufLen
    BY <1>1, FullRead
  <1>3. backlog \in Nat
    BY Sizes DEF Inv, TypeOK
  <1>4. QED
    BY <1>1, <1>2, <1>3, PacketAssumption

LEMMA ExtractDrains ==
    ASSUME Inv, ReadingInv, ExtractOk, ~gaps
    PROVE  Len(queue) < backlog \/ queue = <<>>
  BY ExtractSync, FullDrains DEF Clean

\* From a chip that was empty a full read holds the samples of its own write.
LEMMA FullOwn ==
    ASSUME Inv, ReadingInv, Clean, pc = "read", Len(usb_buf) = UsbReadSize, backlog = 0
    PROVE  Strip(usb_buf) = Own
  <1> USE PacketAssumption
  <1>1. queue \in Seq(Item) /\ Len(queue) \in Nat /\ usb_buf \in Seq(Byte)
    BY DEF Inv, TypeOK, Item, Byte
  <1>2. Len(queue) = 0
    BY <1>1, FullDrains
  <1>3. \A j \in 1..BufLen : usb_buf[DataIndex(j)] = j
    BY <1>2 DEF ReadingInv, SampleInv
  <1>4. {k \in 1..BufLen : DataIndex(k) <= Len(usb_buf)} = 1..BufLen
    BY <1>1, DataIndexFits
  <1>5. Strip(usb_buf) = [j \in 1..BufLen |-> usb_buf[DataIndex(j)]]
    BY <1>4 DEF Strip
  <1>6. QED
    BY <1>3, <1>5 DEF Own

\* The samples a full read returns, from a queue that was empty.
LEMMA ExtractReading ==
    ASSUME Inv, ReadingInv, ExtractOk
    PROVE  ReadingInv'
  <1> USE PacketAssumption
  <1>1. /\ mode = "sync" /\ usb_buf \in Seq(Byte) /\ Len(usb_buf) = UsbReadSize
        /\ pc = "read"
    BY ExtractSync
  <1>2. pc' = "idle" /\ block' = Strip(usb_buf) /\ gaps' = gaps /\ backlog' = backlog
    BY DEF ExtractOk, chip
  <1>3. ASSUME ~gaps, backlog = 0
        PROVE  Strip(usb_buf) = Own
    BY <1>1, <1>3, FullOwn DEF Clean
  <1>4. BlockInv'
    BY <1>2, <1>3 DEF BlockInv, ExactFromEmpty
  <1>5. QED
    BY <1>2, <1>4 DEF ReadingInv, PacketInv, SampleInv

\* Every other step is outside the read, or fails it.
LEMMA OtherReading ==
    ASSUME Inv, ReadingInv,
           \/ Call \/ BusSettles \/ WarmupFails \/ Unplug
           \/ \E class \in Classes, k \in 0..(BufLen - 1) : WriteFail(class, k)
           \/ \E d \in 0..DataPerPacket : ReadOverflow(d)
           \/ \E class \in Classes, d \in 0..DataPerPacket : ReadFail(class, d)
           \/ ExtractFault \/ ErrorFatal \/ ErrorRetry \/ ErrorRecover
           \/ ControlOk \/ ControlFail \/ UsbReset \/ UsbResetFail \/ Recovered
           \/ UNCHANGED vars
    PROVE  ReadingInv'
  <1> USE DEF ReadingInv, PacketInv, SampleInv, BlockInv, ExactFromEmpty, Clean
  <1>1. CASE Call
    BY <1>1 DEF Call
  <1>2. CASE BusSettles \/ WarmupFails \/ Unplug \/ UNCHANGED vars
    <2>1. UNCHANGED <<pc, queue, usb_buf, mode, gaps, backlog, block, ret>>
      BY <1>2 DEF BusSettles, WarmupFails, Unplug, vars, driver, chip
    <2>2. QED
      BY <2>1
  <1>3. ASSUME NEW class \in Classes, NEW k \in 0..(BufLen - 1), WriteFail(class, k)
        PROVE  ReadingInv'
    BY <1>3 DEF WriteFail, Fail
  <1>4. ASSUME NEW d \in 0..DataPerPacket, ReadOverflow(d)
        PROVE  ReadingInv'
    BY <1>4 DEF ReadOverflow, Fail, Reading
  <1>5. ASSUME NEW class \in Classes, NEW d \in 0..DataPerPacket, ReadFail(class, d)
        PROVE  ReadingInv'
    BY <1>5 DEF ReadFail, Fail, Reading
  <1>6. CASE ExtractFault
    BY <1>6 DEF ExtractFault, Fail
  <1>7. CASE ErrorFatal \/ ErrorRetry \/ ErrorRecover
    <2>1. pc # "idle" /\ block' = block /\ pc' # "read"
      BY <1>7 DEF ErrorFatal, ErrorRetry, ErrorRecover, NextAttempt
    <2>2. QED
      BY <2>1
  <1>8. CASE ControlOk \/ ControlFail \/ UsbReset \/ UsbResetFail \/ Recovered
    <2>1. pc # "idle" /\ block' = block /\ pc' # "read"
      BY <1>8 DEF ControlOk, ControlFail, UsbReset, UsbResetFail, Recovered, NextAttempt
    <2>2. QED
      BY <2>1
  <1>9. QED
    BY <1>1, <1>2, <1>3, <1>4, <1>5, <1>6, <1>7, <1>8

LEMMA NextReading == Inv /\ ReadingInv /\ [Next]_vars => ReadingInv'
  BY WriteReading, PacketReading, ExtractReading, OtherReading DEF Next, Step

LEMMA AlwaysReading == Spec => [](Inv /\ ReadingInv)
  <1>1. Init => ReadingInv
    BY DEF Init, ReadingInv, PacketInv, SampleInv, BlockInv, ExactFromEmpty
  <1>2. QED
    BY <1>1, AlwaysInv, NextReading, PTL DEF Spec

\* A transfer that found the chip empty returns the samples of its own write, each
\* at its place: the packet arithmetic is right for every size of packet, status
\* and write (infnoise_main.c:306-336, infnoise.h:83).
THEOREM TransferExactFromEmpty == Spec => []ExactFromEmpty
  <1>1. ReadingInv => ExactFromEmpty
    BY DEF ReadingInv, BlockInv
  <1>2. QED
    BY <1>1, AlwaysReading, PTL

\* Every transfer that succeeds leaves less of earlier writes in the chip than it
\* found (infnoise_main.c:372), because a write is no whole number of packets.
THEOREM TransferBacklogDrains == Spec => BacklogDrains
  <1>1. ASSUME Inv, ReadingInv, [Next]_vars, ~gaps, pc = "read", pc' = "idle", ret' = "ok"
        PROVE  Len(queue) < backlog \/ queue = <<>>
    <2>1. CASE ExtractOk
      BY <1>1, <2>1, ExtractDrains
    <2>2. QED
      BY <1>1, <2>1
      DEF Next, Step, Call, WriteOk, WriteFail, ReadPacket, ReadOverflow, ReadFail,
          ExtractFault, Fail, ErrorFatal, ErrorRetry, ErrorRecover, ControlOk, ControlFail,
          UsbReset, UsbResetFail, Recovered, BusSettles, WarmupFails, Unplug, vars, driver
  <1>2. Inv /\ ReadingInv /\ [Next]_vars =>
            [~gaps /\ pc = "read" /\ pc' = "idle" /\ ret' = "ok" =>
                Len(queue) < backlog \/ queue = <<>>]_vars
    BY <1>1
  <1>3. QED
    BY <1>2, AlwaysReading, PTL DEF Spec, BacklogDrains

-----------------------------------------------------------------------------
\* How many more steps a transfer can take.  An attempt writes, reads a byte at least
\* with every packet, fails, configures the chip, resets it and configures it again.
Attempt == UsbReadSize + 2 * Configurations + 7

LeftInAttempt ==
    CASE pc = "write"   -> UsbReadSize + 2 * Configurations + 6
      [] pc = "read"    -> (UsbReadSize - Len(usb_buf)) + 2 * Configurations + 5
      [] pc = "error"   -> 2 * Configurations + 4
      [] pc = "control" -> (Configurations - step) + (IF again THEN 1 ELSE Configurations + 3)
      [] pc = "reset"   -> Configurations + 2

Left ==
    IF pc = "idle" THEN 0 ELSE (MaxRetries - 1 - retry) * Attempt + LeftInAttempt

\* What is left of an attempt, in each of its states.
LEMMA AttemptBounds ==
    ASSUME Inv, pc # "idle"
    PROVE  LeftInAttempt \in 1..(Attempt - 1)
  <1> USE DEF Configurations
  <1>1. Len(usb_buf) \in 0..UsbReadSize /\ step \in 0..6 /\ UsbReadSize \in Nat
    BY ReadSize DEF Inv, TypeOK
  <1>2. Attempt = UsbReadSize + 19
    BY <1>1 DEF Attempt
  <1>3. CASE pc = "write"
    BY <1>1, <1>2, <1>3 DEF LeftInAttempt
  <1>4. CASE pc = "read"
    BY <1>1, <1>2, <1>4 DEF LeftInAttempt
  <1>5. CASE pc = "error"
    BY <1>1, <1>2, <1>5 DEF LeftInAttempt
  <1>6. CASE pc = "control"
    BY <1>1, <1>2, <1>6 DEF LeftInAttempt
  <1>7. CASE pc = "reset"
    BY <1>1, <1>2, <1>7 DEF LeftInAttempt
  <1>8. QED
    BY <1>3, <1>4, <1>5, <1>6, <1>7 DEF Inv, TypeOK

\* What is left is a number of steps, none only between transfers.
LEMMA LeftBounds ==
    ASSUME Inv
    PROVE  /\ Attempt \in Nat
           /\ pc # "idle" => /\ LeftInAttempt \in 1..(Attempt - 1)
                             /\ (MaxRetries - 1 - retry) * Attempt \in Nat
                             /\ Left = (MaxRetries - 1 - retry) * Attempt + LeftInAttempt
           /\ Left \in 0..(MaxRetries * Attempt - 1)
  <1>1. Attempt \in Nat /\ Attempt = UsbReadSize + 19 /\ Attempt > 0
    BY ReadSize DEF Attempt, Configurations
  <1>2. CASE pc = "idle"
    <2>1. MaxRetries * Attempt \in Nat /\ MaxRetries * Attempt >= 1 * Attempt
      BY <1>1, RetryAssumption
    <2>2. QED
      BY <1>1, <1>2, <2>1 DEF Left
  <1>3. CASE pc # "idle"
    <2>1. LeftInAttempt \in 1..(Attempt - 1)
      BY <1>3, AttemptBounds
    <2> DEFINE more == MaxRetries - 1 - retry
    <2>2. more \in Nat /\ more <= MaxRetries - 1
      BY RetryAssumption DEF Inv, TypeOK
    <2>3. Left = more * Attempt + LeftInAttempt
      BY <1>3 DEF Left
    <2> HIDE DEF more
    <2>4. more * Attempt \in Nat /\ more * Attempt <= (MaxRetries - 1) * Attempt
      BY <1>1, <2>2, RetryAssumption
    <2>5. (MaxRetries - 1) * Attempt = MaxRetries * Attempt - Attempt
      BY <1>1, RetryAssumption
    <2>6. MaxRetries * Attempt \in Int
      BY <1>1, RetryAssumption
    <2>7. QED
      BY <1>1, <2>1, <2>3, <2>4, <2>5, <2>6 DEF more
  <1>4. QED
    BY <1>1, <1>2, <1>3

\* A step within an attempt.
LEMMA LeftSameAttempt ==
    ASSUME Inv, Inv', pc # "idle", pc' # "idle", retry' = retry,
           LeftInAttempt' \in Int, LeftInAttempt' < LeftInAttempt
    PROVE  Left' < Left
  <1>1. Attempt' = Attempt
    BY DEF Attempt
  <1>2. Left' = (MaxRetries - 1 - retry) * Attempt + LeftInAttempt'
    BY <1>1 DEF Left
  <1>3. QED
    BY <1>2, LeftBounds

\* The next attempt.
LEMMA LeftNextAttempt ==
    ASSUME Inv, Inv', pc # "idle", NextAttempt
    PROVE  Left' < Left
  <1>1. CASE pc' = "idle"
    BY <1>1, LeftBounds DEF Left
  <1>2. CASE pc' # "idle"
    <2>1. retry' = retry + 1 /\ pc' = "write"
      BY <1>2 DEF NextAttempt
    <2> DEFINE more == MaxRetries - 1 - retry
    <2>2. more \in Int
      BY RetryAssumption DEF Inv, TypeOK
    <2>3. Left' = (more - 1) * Attempt + (Attempt - 1)
      <3>1. LeftInAttempt' = Attempt - 1
        BY <2>1, ReadSize DEF LeftInAttempt, Attempt, Configurations
      <3>2. MaxRetries - 1 - retry' = more - 1
        BY <2>1, RetryAssumption DEF Inv, TypeOK
      <3>3. QED
        BY <1>2, <3>1, <3>2 DEF Left, Attempt
    <2>4. Left = more * Attempt + LeftInAttempt /\ LeftInAttempt >= 1
      BY LeftBounds
    <2> HIDE DEF more
    <2>5. (more - 1) * Attempt = more * Attempt - Attempt /\ more * Attempt \in Int
      BY <2>2, LeftBounds
    <2>6. QED
      BY <2>3, <2>4, <2>5, LeftBounds
  <1>3. QED
    BY <1>1, <1>2

\* The end of a transfer.
LEMMA LeftAtEnd ==
    ASSUME Inv, pc # "idle", pc' = "idle"
    PROVE  Left' < Left
  BY LeftBounds DEF Left

\* The length of two sequences, one behind the other.
LEMMA ConcatLen ==
    ASSUME NEW s \in Seq(Byte), NEW t \in Seq(Byte)
    PROVE  Len(s \o t) = Len(s) + Len(t)
  OBVIOUS

\* Every step of a transfer is one of those.
LEMMA StepProgress ==
    ASSUME Inv, Inv', Step
    PROVE  pc # "idle" /\ Left' < Left
  <1> USE DEF Configurations
  <1> DEFINE Within ==
          LeftInAttempt' \in Int /\ LeftInAttempt' < LeftInAttempt /\ retry' = retry
  <1>1. CASE WriteOk
    <2>1. Within /\ pc' # "idle" /\ pc # "idle"
      BY <1>1, ReadSize DEF WriteOk, LeftInAttempt
    <2>2. QED
      BY <2>1, LeftSameAttempt
  <1>2. ASSUME NEW class \in Classes, NEW k \in 0..(BufLen - 1), WriteFail(class, k)
        PROVE  pc # "idle" /\ Left' < Left
    <2>1. Within /\ pc' # "idle" /\ pc # "idle"
      BY <1>2, ReadSize DEF WriteFail, Fail, LeftInAttempt
    <2>2. QED
      BY <2>1, LeftSameAttempt
  <1>3. ASSUME NEW d \in 0..DataPerPacket, ReadPacket(d)
        PROVE  pc # "idle" /\ Left' < Left
    <2>1. Len(usb_buf') = Len(usb_buf) + StatusSize + d
      <3>1. d \in 0..Len(queue)
        BY <1>3, FillType DEF ReadPacket, Inv, TypeOK, Item
      <3>2. Packet(d) \in Seq(Byte) /\ Len(Packet(d)) = StatusSize + d
        BY <3>1, PacketType DEF Inv, TypeOK, Item
      <3>3. usb_buf \in Seq(Byte)
        BY DEF Inv, TypeOK, Byte
      <3>4. Len(usb_buf \o Packet(d)) = Len(usb_buf) + Len(Packet(d))
        BY <3>2, <3>3, ConcatLen
      <3>5. usb_buf' = usb_buf \o Packet(d)
        BY <1>3 DEF ReadPacket
      <3>6. Len(usb_buf) \in Nat /\ StatusSize \in Nat
        BY PacketAssumption DEF Inv, TypeOK
      <3>7. QED
        BY <3>2, <3>4, <3>5, <3>6
    <2>2. Len(usb_buf) \in Nat /\ Len(usb_buf') \in Nat /\ Len(usb_buf) < Len(usb_buf')
      BY <2>1, PacketAssumption DEF Inv, TypeOK
    <2>3. pc = "read" /\ pc' = "read" /\ retry' = retry
      BY <1>3 DEF ReadPacket, Reading
    <2>4. Within
      BY <2>2, <2>3, ReadSize DEF LeftInAttempt
    <2>5. QED
      BY <2>3, <2>4, LeftSameAttempt
  <1>4. ASSUME NEW d \in 0..DataPerPacket, ReadOverflow(d)
        PROVE  pc # "idle" /\ Left' < Left
    <2>1. Within /\ pc' # "idle" /\ pc # "idle"
      BY <1>4, ReadSize DEF ReadOverflow, Reading, Fail, LeftInAttempt, Inv, TypeOK
    <2>2. QED
      BY <2>1, LeftSameAttempt
  <1>5. ASSUME NEW class \in Classes, NEW d \in 0..DataPerPacket, ReadFail(class, d)
        PROVE  pc # "idle" /\ Left' < Left
    <2>1. Within /\ pc' # "idle" /\ pc # "idle"
      BY <1>5, ReadSize DEF ReadFail, Reading, Fail, LeftInAttempt, Inv, TypeOK
    <2>2. QED
      BY <2>1, LeftSameAttempt
  <1>6. CASE ExtractOk
    BY <1>6, LeftAtEnd DEF ExtractOk
  <1>7. CASE ExtractFault
    <2>1. Within /\ pc' # "idle" /\ pc # "idle"
      BY <1>7, ReadSize DEF ExtractFault, Fail, LeftInAttempt, Inv, TypeOK
    <2>2. QED
      BY <2>1, LeftSameAttempt
  <1>8. CASE ErrorFatal
    BY <1>8, LeftAtEnd DEF ErrorFatal
  <1>9. CASE ErrorRetry \/ Recovered
    BY <1>9, LeftNextAttempt DEF ErrorRetry, Recovered
  <1>10. CASE ErrorRecover
    <2>1. CASE pc' = "idle"
      BY <1>10, <2>1, LeftAtEnd DEF ErrorRecover
    <2>2. CASE pc' # "idle"
      <3>1. Within /\ pc # "idle"
        BY <1>10, <2>2 DEF ErrorRecover, LeftInAttempt
      <3>2. QED
        BY <2>2, <3>1, LeftSameAttempt
    <2>3. QED
      BY <2>1, <2>2
  <1>11. CASE ControlOk
    <2>1. /\ pc = "control" /\ pc' = "control" /\ retry' = retry /\ again' = again
          /\ step \in 0..Configurations /\ step' = step + 1
      BY <1>11 DEF ControlOk, Inv, TypeOK
    <2>2. /\ LeftInAttempt = (Configurations - step) + (IF again THEN 1 ELSE Configurations + 3)
          /\ LeftInAttempt' = (Configurations - (step + 1))
                                + (IF again THEN 1 ELSE Configurations + 3)
      BY <2>1 DEF LeftInAttempt
    <2>3. Within
      BY <2>1, <2>2
    <2>4. QED
      BY <2>1, <2>3, LeftSameAttempt
  <1>12. CASE ControlFail
    <2>1. CASE again
      BY <1>12, <2>1, LeftAtEnd DEF ControlFail
    <2>2. CASE ~again
      <3>1. Within /\ pc' # "idle" /\ pc # "idle"
        BY <1>12, <2>2 DEF ControlFail, LeftInAttempt, Inv, TypeOK
      <3>2. QED
        BY <3>1, LeftSameAttempt
    <2>3. QED
      BY <2>1, <2>2
  <1>13. CASE UsbReset
    <2>1. Within /\ pc' # "idle" /\ pc # "idle"
      BY <1>13 DEF UsbReset, LeftInAttempt
    <2>2. QED
      BY <2>1, LeftSameAttempt
  <1>14. CASE UsbResetFail
    BY <1>14, LeftAtEnd DEF UsbResetFail
  <1>15. QED
    BY <1>1, <1>2, <1>3, <1>4, <1>5, <1>6, <1>7, <1>8, <1>9, <1>10, <1>11, <1>12, <1>13, <1>14
    DEF Step

\* A transfer ends whatever the bus does: no packet, error, retry or recovery leaves as
\* many steps to do as before, at most MaxRetries attempts' worth in all, and nothing
\* but the transfer itself moves it.  This is what TransferEnds rests on beside the
\* fairness of Step: the retry loop, the read loop and the recovery cannot feed one
\* another (infnoise_main.c:350-493).
BoundedTransfer ==
    /\ [](Left \in 0..(MaxRetries * Attempt - 1))
    /\ [][pc # "idle" => Left' < Left \/ UNCHANGED driver]_vars

THEOREM TransferProgress == Spec => BoundedTransfer
  <1>1. Inv => Left \in 0..(MaxRetries * Attempt - 1)
    BY LeftBounds
  <1>2. ASSUME Inv, Inv', [Next]_vars, pc # "idle"
        PROVE  Left' < Left \/ UNCHANGED driver
    <2>1. CASE Step
      BY <1>2, <2>1, StepProgress
    <2>2. QED
      BY <1>2, <2>1 DEF Next, Call, BusSettles, WarmupFails, Unplug, vars
  <1>3. Inv /\ Inv' /\ [Next]_vars =>
            [pc # "idle" => Left' < Left \/ UNCHANGED driver]_vars
    BY <1>2
  <1>4. QED
    BY <1>1, <1>3, AlwaysInv, PTL DEF Spec, BoundedTransfer

-----------------------------------------------------------------------------
\* Every configuration under way has purged the queue with its first transfer.
ControlEmpty == pc = "control" /\ step > 0 => queue = <<>>

\* What a write finds in the chip leaves room for the write.
BacklogFits == pc = "read" => backlog <= BufLen

\* Behind the last sample of a write to an empty chip, status bytes fill the read.
TailInv ==
    pc = "read" /\ Clean /\ backlog = 0 /\ queue = <<>> =>
        \E m \in Nat : Len(usb_buf) + m * StatusSize = UsbReadSize

HealInv == ControlEmpty /\ BacklogFits /\ TailInv

\* The packet with the last samples of a write leaves room for whole statuses.
LEMMA LastPacket ==
    ASSUME NEW q \in Nat, NEW d \in 1..DataPerPacket, BufLen = q * DataPerPacket + d
    PROVE  \E m \in Nat : q * PacketSize + (StatusSize + d) + m * StatusSize = UsbReadSize
  <1> USE PacketAssumption
  <1>1. q * DataPerPacket \in Nat /\ q * DataPerPacket = DataPerPacket * q
        /\ DataPerPacket * (q + 1) = DataPerPacket * q + DataPerPacket
    OBVIOUS
  <1>2. d # DataPerPacket
    <2> SUFFICES ASSUME d = DataPerPacket PROVE FALSE
      OBVIOUS
    <2>1. (DataPerPacket * (q + 1) + 0) % DataPerPacket = 0
      BY DivUnique
    <2>2. BufLen = DataPerPacket * (q + 1) + 0
      BY <1>1
    <2>3. QED
      BY <2>1, <2>2, SpareAssumption
  <1>3. BufLen % DataPerPacket = d
    <2>1. d \in 0..(DataPerPacket - 1)
      BY <1>2
    <2>2. (DataPerPacket * q + d) % DataPerPacket = d
      BY <2>1, DivUnique
    <2>3. QED
      BY <1>1, <2>2
  <1>4. Packets = q + 1
    <2>1. d - 1 \in 0..(DataPerPacket - 1)
      OBVIOUS
    <2>2. (DataPerPacket * (q + 1) + (d - 1)) \div DataPerPacket = q + 1
      BY <2>1, DivUnique
    <2>3. BufLen + DataPerPacket - 1 = DataPerPacket * (q + 1) + (d - 1)
      BY <1>1
    <2>4. QED
      BY <2>2, <2>3 DEF Packets
  <1>5. UsbReadSize = q * PacketSize + PacketSize /\ q * PacketSize \in Nat
    BY <1>4, ReadSize, Sizes
  <1> DEFINE rest == DataPerPacket - d
             m == rest \div StatusSize
  <1>6. rest \in Nat /\ rest % StatusSize = 0
    BY <1>3, TailAssumption
  <1> HIDE DEF rest
  <1>7. m \in Nat /\ rest = StatusSize * m + 0
    BY <1>6, DivProp
  <1> HIDE DEF m
  <1>8. StatusSize * m = m * StatusSize /\ m * StatusSize \in Nat
    BY <1>7
  <1>9. q * PacketSize + (StatusSize + d) + m * StatusSize = UsbReadSize
    BY <1>5, <1>7, <1>8, Sizes DEF rest
  <1>10. QED
    BY <1>7, <1>9

\* A packet leaves the read where status bytes fill it.
LEMMA PacketTail ==
    ASSUME Inv, ReadingInv, HealInv, NEW d \in 0..DataPerPacket, ReadPacket(d)
    PROVE  TailInv'
  <1> USE PacketAssumption
  <1> SUFFICES ASSUME Clean', backlog' = 0, queue' = <<>>
               PROVE  \E m \in Nat : Len(usb_buf') + m * StatusSize = UsbReadSize
    BY DEF TailInv
  <1>1. /\ queue \in Seq(Item) /\ Len(queue) \in Nat
        /\ usb_buf \in Seq(Byte) /\ Len(usb_buf) \in Nat
    BY DEF Inv, TypeOK, Item, Byte
  <1>2. /\ pc = "read" /\ Clean /\ backlog = 0
        /\ usb_buf' = usb_buf \o Packet(d) /\ queue' = Dequeued(d)
        /\ Len(usb_buf) + StatusSize + d <= UsbReadSize
    BY DEF ReadPacket, Reading, Clean
  <1>3. d \in 0..Len(queue)
    BY FillType DEF ReadPacket
  <1>4. /\ Packet(d) \in Seq(Byte) /\ Len(Packet(d)) = StatusSize + d
        /\ Len(Dequeued(d)) = Len(queue) - d
    BY <1>1, <1>3, PacketType
  <1>5. Len(usb_buf') = Len(usb_buf) + (StatusSize + d)
    BY <1>1, <1>2, <1>4, ConcatLen
  <1>6. d = Len(queue)
    BY <1>1, <1>2, <1>3, <1>4
  <1>7. CASE queue = <<>>
    <2>1. d = 0
      BY <1>6, <1>7
    <2>2. PICK m \in Nat : Len(usb_buf) + m * StatusSize = UsbReadSize
      BY <1>2, <1>7 DEF HealInv, TailInv
    <2>3. m * StatusSize \in Nat /\ (m - 1) * StatusSize = m * StatusSize - StatusSize
      OBVIOUS
    <2>4. m # 0
      BY <1>1, <1>2, <2>1, <2>2
    <2>5. m - 1 \in Nat /\ Len(usb_buf') + (m - 1) * StatusSize = UsbReadSize
      BY <1>1, <1>5, <2>1, <2>2, <2>3, <2>4
    <2>6. QED
      BY <2>5
  <1>8. CASE queue # <<>>
    <2>1. PICK q \in Nat : /\ Len(usb_buf) = q * PacketSize
                           /\ Len(queue) = backlog + BufLen - q * DataPerPacket
      BY <1>2, <1>8 DEF ReadingInv, PacketInv
    <2>2. q * DataPerPacket \in Nat
      OBVIOUS
    <2>3. d # 0
      BY <1>1, <1>6, <1>8, EmptyWhenZero
    <2>4. d \in 1..DataPerPacket /\ BufLen = q * DataPerPacket + d
      BY <1>2, <1>6, <2>1, <2>2, <2>3
    <2>5. PICK m \in Nat : q * PacketSize + (StatusSize + d) + m * StatusSize = UsbReadSize
      BY <2>4, LastPacket
    <2>6. Len(usb_buf') + m * StatusSize = UsbReadSize
      BY <1>5, <2>1, <2>5
    <2>7. QED
      BY <2>6
  <1>9. QED
    BY <1>7, <1>8

\* Clocks a configured chip takes are as many samples more.
LEMMA ClockedLen ==
    ASSUME queue \in Seq(Item), mode = "sync", NEW k \in 0..BufLen
    PROVE  Len(Clocked(k)) = Len(queue) + k
  <1> USE PacketAssumption
  <1> DEFINE old == [i \in 1..Len(queue) |-> Stale]
             new == SubSeq(Own, 1, k)
  <1>1. old \in Seq(Byte) /\ Len(old) = Len(queue)
    BY FunctionSeq DEF Byte, Stale, Status
  <1>2. Own \in Seq(Byte) /\ Len(Own) = BufLen
    BY FunctionSeq DEF Byte, Status, Own
  <1>3. new \in Seq(Byte) /\ Len(new) = k
    BY <1>2
  <1>4. Clocked(k) = old \o new
    BY DEF Clocked
  <1> HIDE DEF old, new
  <1>5. Len(old \o new) = Len(old) + Len(new)
    BY <1>1, <1>3, ConcatLen
  <1>6. QED
    BY <1>1, <1>3, <1>4, <1>5

\* Every other step leaves the read, or starts one with samples in the chip.
LEMMA HealInvStep ==
    ASSUME Inv, Inv', ReadingInv, HealInv, [Next]_vars
    PROVE  HealInv'
  <1> USE PacketAssumption
  <1>1. ControlEmpty'
    <2> USE DEF HealInv, ControlEmpty
    <2>1. CASE ControlOk
      BY <2>1 DEF ControlOk, Inv, TypeOK, Configurations
    <2>2. CASE Call \/ BusSettles \/ WarmupFails \/ Unplug \/ WriteOk \/ UNCHANGED vars
      BY <2>2 DEF Call, BusSettles, WarmupFails, Unplug, WriteOk, vars, driver, chip
    <2>3. CASE \/ \E class \in Classes, k \in 0..(BufLen - 1) : WriteFail(class, k)
               \/ \E d \in 0..DataPerPacket : ReadPacket(d) \/ ReadOverflow(d)
               \/ \E class \in Classes, d \in 0..DataPerPacket : ReadFail(class, d)
               \/ ExtractOk \/ ExtractFault
      <3>1. pc' # "control"
        BY <2>3 DEF WriteFail, ReadPacket, ReadOverflow, ReadFail, ExtractOk, ExtractFault,
                    Fail, Reading
      <3>2. QED
        BY <3>1
    <2>4. CASE ErrorFatal \/ ErrorRetry \/ ErrorRecover \/ ControlFail \/ UsbReset
               \/ UsbResetFail \/ Recovered
      <3>1. pc' = "control" => step' = 0
        BY <2>4 DEF ErrorFatal, ErrorRetry, ErrorRecover, ControlFail, UsbReset,
                    UsbResetFail, Recovered, NextAttempt
      <3>2. QED
        BY <3>1
    <2>5. QED
      BY <2>1, <2>2, <2>3, <2>4 DEF Next, Step
  <1>2. CASE WriteOk
    <2>1. Len(queue) \in Nat /\ pc' = "read" /\ backlog' = Len(queue)
      BY <1>2 DEF WriteOk, Inv, TypeOK
    <2>2. backlog' <= BufLen
      BY <1>2, <2>1, Sizes DEF WriteOk
    <2>3. Clean' => queue' # <<>>
      <3> SUFFICES ASSUME Clean' PROVE queue' # <<>>
        OBVIOUS
      <3>1. mode = "sync" /\ queue' = Clocked(BufLen)
        BY <1>2 DEF Clean, WriteOk
      <3>2. Len(queue') = Len(queue) + BufLen
        BY <3>1, ClockedLen DEF Inv, TypeOK, Item
      <3>3. Len(queue') # 0
        BY <2>1, <3>2
      <3>4. QED
        BY <3>3
    <2>4. QED
      BY <1>1, <2>1, <2>2, <2>3 DEF HealInv, BacklogFits, TailInv
  <1>3. ASSUME NEW d \in 0..DataPerPacket, ReadPacket(d)
        PROVE  HealInv'
    <2>1. pc = "read" /\ backlog' = backlog
      BY <1>3 DEF ReadPacket, Reading
    <2>2. QED
      BY <1>1, <1>3, <2>1, PacketTail DEF HealInv, BacklogFits
  <1>4. CASE UNCHANGED vars \/ BusSettles \/ WarmupFails \/ Unplug
    <2>1. UNCHANGED <<pc, queue, usb_buf, mode, gaps, backlog>>
      BY <1>4 DEF BusSettles, WarmupFails, Unplug, vars, driver, chip
    <2>2. QED
      BY <1>1, <2>1 DEF HealInv, BacklogFits, TailInv, Clean
  <1>5. CASE \/ Call
             \/ \E class \in Classes, k \in 0..(BufLen - 1) : WriteFail(class, k)
             \/ \E d \in 0..DataPerPacket : ReadOverflow(d)
             \/ \E class \in Classes, d \in 0..DataPerPacket : ReadFail(class, d)
             \/ ExtractOk \/ ExtractFault \/ ErrorFatal \/ ErrorRetry \/ ErrorRecover
             \/ ControlOk \/ ControlFail \/ UsbReset \/ UsbResetFail \/ Recovered
    <2>1. pc' # "read"
      BY <1>5 DEF Call, WriteFail, ReadOverflow, ReadFail, ExtractOk, ExtractFault, Fail,
                  ErrorFatal, ErrorRetry, ErrorRecover, ControlOk, ControlFail, UsbReset,
                  UsbResetFail, Recovered, NextAttempt
    <2>2. QED
      BY <1>1, <2>1 DEF HealInv, BacklogFits, TailInv
  <1>6. QED
    BY <1>2, <1>3, <1>4, <1>5 DEF Next, Step

LEMMA AlwaysHeal == Spec => [](Inv /\ ReadingInv /\ HealInv)
  <1>1. Init => HealInv
    BY DEF Init, HealInv, ControlEmpty, BacklogFits, TailInv
  <1>2. Inv /\ Inv' /\ ReadingInv /\ HealInv /\ [Next]_vars => HealInv'
    BY HealInvStep
  <1>3. QED
    BY <1>1, <1>2, AlwaysReading, PTL DEF Spec

\* How far a chip with clean packets is from a transfer that returns its own samples.
\* Errors that do not yet start a recovery,
ErrorsLeft ==
    IF consecutive_errors + 1 < Threshold THEN Threshold - 1 - consecutive_errors ELSE 0

\* and so many with every sample an earlier write left in the chip.  Beyond one write
\* the count does not matter: a write fails until a recovery purged the chip.
Level(q, errors) == Least(q, BufLen + 1) * Threshold + errors

\* Samples of earlier writes.
Old == IF pc = "read" THEN backlog ELSE Len(queue)

\* Failures that can yet come before a transfer that succeeds.
HealRank ==
    CASE pc \in {"control", "reset"} -> 1
      [] pc = "error" ->
            (IF err = "fatal" THEN 1 ELSE 0) +
            (IF mode = "uart" \/ queue = <<>> THEN 1 ELSE Level(Len(queue), ErrorsLeft))
      [] pc \in {"idle", "write", "read"} ->
            IF mode = "uart" THEN 1 ELSE IF Old = 0 THEN 0 ELSE Level(Old, ErrorsLeft)

\* Steps, a whole transfer's worth for every failure.
Transfer == MaxRetries * Attempt
HealLeft == (HealRank + (IF pc = "idle" THEN 1 ELSE 0)) * Transfer + Left
HealMax  == ((BufLen + 2) * Threshold + 1) * Transfer

LEMMA ErrorsLeftType ==
    ASSUME Inv
    PROVE  /\ ErrorsLeft \in 0..(Threshold - 1)
           /\ consecutive_errors = 0 => ErrorsLeft = Threshold - 1
  BY RetryAssumption DEF ErrorsLeft, Inv, TypeOK

\* Levels are numbers, ordered by the samples first and the errors then.
LEMMA LevelNat ==
    ASSUME NEW q \in Nat, NEW e \in 0..(Threshold - 1)
    PROVE  /\ Level(q, e) \in 0..((BufLen + 2) * Threshold - 1)
           /\ q > 0 => Level(q, e) >= 1
  <1> DEFINE l == Least(q, BufLen + 1)
  <1>1. l \in 0..(BufLen + 1) /\ (q > 0 => l >= 1)
    BY PacketAssumption DEF Least
  <1>2. Level(q, e) = l * Threshold + e
    BY DEF Level
  <1> HIDE DEF l
  <1>3. l * Threshold \in Nat /\ l * Threshold <= (BufLen + 1) * Threshold
    BY <1>1, PacketAssumption, RetryAssumption
  <1>4. (BufLen + 2) * Threshold = (BufLen + 1) * Threshold + Threshold
        /\ (BufLen + 1) * Threshold \in Nat
    BY PacketAssumption, RetryAssumption
  <1>5. l >= 1 => l * Threshold >= 1
    BY <1>1, RetryAssumption
  <1>6. QED
    BY <1>1, <1>2, <1>3, <1>4, <1>5, RetryAssumption

LEMMA LevelLess ==
    ASSUME NEW p \in Nat, NEW q \in Nat, p < q, q <= BufLen,
           NEW e \in 0..(Threshold - 1), NEW f \in 0..(Threshold - 1)
    PROVE  Level(p, e) < Level(q, f)
  <1>1. Level(p, e) = p * Threshold + e /\ Level(q, f) = q * Threshold + f
    BY PacketAssumption DEF Level, Least
  <1>2. p * Threshold \in Nat /\ q * Threshold \in Nat /\ (p + 1) * Threshold <= q * Threshold
    BY RetryAssumption
  <1>3. (p + 1) * Threshold = p * Threshold + Threshold
    BY RetryAssumption
  <1>4. QED
    BY <1>1, <1>2, <1>3, RetryAssumption

LEMMA LevelErrors ==
    ASSUME NEW q \in Nat, NEW e \in 0..(Threshold - 1), NEW f \in 0..(Threshold - 1)
    PROVE  /\ e < f => Level(q, e) < Level(q, f)
           /\ e <= f => Level(q, e) <= Level(q, f)
  <1> DEFINE l == Least(q, BufLen + 1) * Threshold
  <1>1. l \in Nat
    BY PacketAssumption, RetryAssumption DEF Least
  <1>2. Level(q, e) = l + e /\ Level(q, f) = l + f
    BY DEF Level
  <1> HIDE DEF l
  <1>3. QED
    BY <1>1, <1>2

LEMMA LevelTop ==
    ASSUME NEW p \in Nat, NEW q \in Nat, p > BufLen, q > BufLen, NEW e
    PROVE  Level(p, e) = Level(q, e)
  BY PacketAssumption DEF Level, Least

\* What is counted is a number with a bound.
LEMMA RankNat ==
    ASSUME Inv
    PROVE  HealRank \in 0..((BufLen + 2) * Threshold)
  <1> DEFINE top == (BufLen + 2) * Threshold
  <1>1. top \in Nat /\ top >= 2
    <2>1. (BufLen + 2) * Threshold >= (BufLen + 2) * 1
      BY PacketAssumption, RetryAssumption
    <2>2. top \in Nat
      BY PacketAssumption, RetryAssumption
    <2>3. QED
      BY <2>1, <2>2, PacketAssumption
  <1>2. Len(queue) \in Nat /\ backlog \in Nat /\ Old \in Nat
    BY Sizes DEF Inv, TypeOK, Old
  <1>3. /\ Level(Len(queue), ErrorsLeft) \in 0..(top - 1)
        /\ Level(Old, ErrorsLeft) \in 0..(top - 1)
    BY <1>2, LevelNat, ErrorsLeftType
  <1> HIDE DEF top
  <1>4. CASE pc \in {"control", "reset"}
    BY <1>1, <1>4 DEF HealRank, top
  <1>5. CASE pc = "error"
    BY <1>1, <1>3, <1>5 DEF HealRank, top
  <1>6. CASE pc \in {"idle", "write", "read"}
    BY <1>1, <1>3, <1>6 DEF HealRank, top
  <1>7. QED
    BY <1>4, <1>5, <1>6 DEF Inv, TypeOK

\* What the driver wants of the chip.
Healed == ret = "ok" /\ block = Own

\* No step of a transfer over a good bus adds to what is to come, and the one that
\* returns takes something away.
Falls == HealRank' <= HealRank /\ (pc' = "idle" => HealRank' < HealRank)

\* The write: refused only by a chip with more than one write in it, which stays so.
LEMMA WriteFalls ==
    ASSUME Inv, Inv', ReadingInv, HealInv, bus = "good", ~gaps,
           \/ WriteOk
           \/ \E class \in Classes, k \in 0..(BufLen - 1) : WriteFail(class, k)
    PROVE  Falls
  <1>1. Len(queue) \in Nat /\ queue \in Seq(Item) /\ Len(queue') \in Nat
    BY DEF Inv, TypeOK, Item
  <1>2. HealRank \in Nat
    BY RankNat, PacketAssumption, RetryAssumption
  <1>3. CASE WriteOk
    <2>1. /\ pc = "write" /\ pc' = "read" /\ mode' = mode /\ backlog' = Len(queue)
          /\ ErrorsLeft' = ErrorsLeft
      BY <1>3 DEF WriteOk, ErrorsLeft
    <2>2. Old = Len(queue) /\ Old' = Len(queue)
      BY <2>1 DEF Old
    <2>3. HealRank' = HealRank
      BY <2>1, <2>2 DEF HealRank, Level
    <2>4. QED
      BY <1>2, <2>1, <2>3 DEF Falls
  <1>4. ASSUME NEW class \in Classes, NEW k \in 0..(BufLen - 1), WriteFail(class, k)
        PROVE  Falls
    <2>1. /\ pc = "write" /\ pc' = "error" /\ err' = "recoverable" /\ mode' = mode
          /\ Len(queue) > BufLen /\ queue' = Clocked(k) /\ ErrorsLeft' = ErrorsLeft
      <3>1. class = "recoverable" /\ Len(queue) + BufLen > Capacity /\ bus # "gone"
        BY <1>4 DEF WriteFail, Failing
      <3>2. Len(queue) > BufLen
        BY <1>1, <3>1, Sizes, PacketAssumption
      <3>3. QED
        BY <1>4, <3>1, <3>2 DEF WriteFail, Fail, ErrorsLeft
    <2>2. queue # <<>>
      BY <1>1, <2>1, PacketAssumption
    <2>3. mode = "sync"
      BY <2>2 DEF Inv, TypeOK, Deaf
    <2>4. Len(queue') = Len(queue) + k
      BY <1>1, <2>1, <2>3, ClockedLen, PacketAssumption
    <2>5. Len(queue') > BufLen /\ queue' # <<>>
      BY <1>1, <2>1, <2>4, PacketAssumption
    <2>6. HealRank = Level(Len(queue), ErrorsLeft)
      BY <1>1, <2>1, <2>2, <2>3, PacketAssumption DEF HealRank, Old
    <2>7. HealRank' = 0 + Level(Len(queue'), ErrorsLeft)
      BY <2>1, <2>3, <2>5 DEF HealRank, Level
    <2>8. Level(Len(queue'), ErrorsLeft) = Level(Len(queue), ErrorsLeft)
      BY <1>1, <2>1, <2>5, LevelTop
    <2>9. Level(Len(queue), ErrorsLeft) \in Nat
      BY <1>2, <2>6
    <2>10. QED
      BY <2>1, <2>6, <2>7, <2>8, <2>9 DEF Falls
  <1>5. QED
    BY <1>3, <1>4

\* With clean packets the status of an empty chip is all that may not fit, and only
\* behind samples of earlier writes.
LEMMA Overflow ==
    ASSUME Inv, ReadingInv, HealInv, Clean, NEW d \in 0..DataPerPacket, ReadOverflow(d)
    PROVE  queue = <<>> /\ backlog # 0
  <1>1. queue \in Seq(Item) /\ Len(queue) \in Nat /\ Len(usb_buf) \in Nat
    <2>1. usb_buf \in Seq(Byte)
      BY DEF Inv, TypeOK, Byte
    <2>2. QED
      BY <2>1 DEF Inv, TypeOK, Item
  <1>2. /\ pc = "read" /\ Len(usb_buf) < UsbReadSize
        /\ Len(usb_buf) + StatusSize + d > UsbReadSize
    BY DEF ReadOverflow, Reading
  <1>3. d \in 0..Len(queue)
    BY FillType DEF ReadOverflow
  <1>4. queue = <<>>
    <2> SUFFICES ASSUME queue # <<>> PROVE FALSE
      OBVIOUS
    <2>1. PICK q \in Nat : Len(usb_buf) = q * PacketSize
      BY <1>2 DEF ReadingInv, PacketInv
    <2>2. ~(q >= Packets)
      <3> SUFFICES ASSUME q >= Packets PROVE FALSE
        OBVIOUS
      <3>1. q * PacketSize >= Packets * PacketSize
        BY ReadSize, Sizes
      <3>2. QED
        BY <1>1, <1>2, <2>1, <3>1, ReadSize
    <2>3. (q + 1) * PacketSize <= Packets * PacketSize
      BY <2>2, ReadSize, Sizes
    <2>4. (q + 1) * PacketSize = q * PacketSize + PacketSize
      BY Sizes
    <2>5. Len(usb_buf) + PacketSize <= UsbReadSize
      BY <1>1, <2>1, <2>3, <2>4, ReadSize, Sizes
    <2>6. QED
      BY <1>1, <1>2, <2>5, Sizes, ReadSize, PacketAssumption
  <1>5. d = 0
    BY <1>1, <1>3, <1>4
  <1>6. backlog # 0
    <2> SUFFICES ASSUME backlog = 0 PROVE FALSE
      OBVIOUS
    <2>1. PICK m \in Nat : Len(usb_buf) + m * StatusSize = UsbReadSize
      BY <1>2, <1>4 DEF HealInv, TailInv
    <2>2. m # 0
      BY <1>1, <1>2, <2>1, PacketAssumption
    <2>3. m * StatusSize >= 1 * StatusSize /\ m * StatusSize \in Nat
      BY <2>2, PacketAssumption
    <2>4. QED
      BY <1>1, <1>2, <1>5, <2>1, <2>3, PacketAssumption, ReadSize
  <1>7. QED
    BY <1>4, <1>6

\* The read: a packet changes nothing, and a packet that does not fit comes only
\* behind samples of earlier writes.
LEMMA ReadFalls ==
    ASSUME Inv, Inv', ReadingInv, HealInv, bus = "good", ~gaps,
           \/ \E d \in 0..DataPerPacket : ReadPacket(d) \/ ReadOverflow(d)
           \/ \E class \in Classes, d \in 0..DataPerPacket : ReadFail(class, d)
    PROVE  Falls
  <1>1. /\ queue \in Seq(Item) /\ Len(queue) \in Nat /\ Len(usb_buf) \in Nat
        /\ backlog \in Nat /\ mode \in {"sync", "uart"}
    <2>1. usb_buf \in Seq(Byte) /\ backlog \in Nat
      BY Sizes DEF Inv, TypeOK, Byte
    <2>2. QED
      BY <2>1 DEF Inv, TypeOK, Item
  <1>2. HealRank \in Nat
    BY RankNat, PacketAssumption, RetryAssumption
  <1>3. ASSUME NEW d \in 0..DataPerPacket, ReadPacket(d)
        PROVE  Falls
    <2>1. /\ pc = "read" /\ pc' = "read" /\ mode' = mode /\ backlog' = backlog
          /\ ErrorsLeft' = ErrorsLeft
      BY <1>3 DEF ReadPacket, Reading, ErrorsLeft
    <2>2. Old' = Old
      BY <2>1 DEF Old
    <2>3. HealRank' = HealRank
      BY <2>1, <2>2 DEF HealRank, Level
    <2>4. QED
      BY <1>2, <2>1, <2>3 DEF Falls
  <1>4. ASSUME NEW d \in 0..DataPerPacket, ReadOverflow(d)
        PROVE  Falls
    <2>1. /\ pc = "read" /\ pc' = "error" /\ err' = "recoverable" /\ mode' = mode
          /\ queue' = Dequeued(d) /\ Len(usb_buf) < UsbReadSize
          /\ Len(usb_buf) + StatusSize + d > UsbReadSize
      BY <1>4 DEF ReadOverflow, Reading, Fail
    <2>2. d \in 0..Len(queue)
      BY <1>4, FillType DEF ReadOverflow
    <2>3. CASE mode = "uart"
      <3>1. HealRank = 1
        BY <2>1, <2>3 DEF HealRank
      <3>2. HealRank' = 1
        BY <2>1, <2>3 DEF HealRank
      <3>3. QED
        BY <2>1, <3>1, <3>2 DEF Falls
    <2>4. CASE mode = "sync"
      <3>1. Clean
        BY <2>4 DEF Clean
      <3>2. queue = <<>> /\ backlog # 0
        BY <1>4, <3>1, Overflow
      <3>3. d = 0 /\ queue' = <<>>
        BY <1>1, <2>1, <2>2, <3>2, NothingTaken
      <3>4. backlog # 0
        BY <3>2
      <3>5. HealRank = Level(backlog, ErrorsLeft)
        BY <2>1, <2>4, <3>4 DEF HealRank, Old
      <3>6. HealRank >= 1
        BY <1>1, <3>4, <3>5, LevelNat, ErrorsLeftType
      <3>7. HealRank' = 1
        BY <2>1, <3>3 DEF HealRank
      <3>8. QED
        BY <1>2, <2>1, <3>6, <3>7 DEF Falls
    <2>5. QED
      BY <1>1, <2>3, <2>4
  <1>5. ASSUME NEW class \in Classes, NEW d \in 0..DataPerPacket, ReadFail(class, d)
        PROVE  Falls
    BY <1>5 DEF ReadFail, Failing
  <1>6. QED
    BY <1>3, <1>4, <1>5

\* The end of a read: its own samples, or fewer of earlier writes than before.
LEMMA ExtractFalls ==
    ASSUME Inv, Inv', ReadingInv, HealInv, bus = "good", ~gaps,
           ExtractOk \/ ExtractFault
    PROVE  Healed' \/ Falls
  <1>1. /\ queue \in Seq(Item) /\ Len(queue) \in Nat /\ backlog \in Nat
        /\ mode \in {"sync", "uart"}
    BY Sizes DEF Inv, TypeOK, Item
  <1>2. HealRank \in Nat /\ ErrorsLeft \in 0..(Threshold - 1)
    BY RankNat, ErrorsLeftType, PacketAssumption, RetryAssumption
  <1>3. pc = "read" /\ Len(usb_buf) = UsbReadSize /\ queue' = queue /\ mode' = mode
    BY ReadSize DEF ExtractOk, ExtractFault, Reading, Inv, TypeOK, chip
  <1>4. CASE mode = "uart"
    <2>1. pc' = "error" /\ err' = "recoverable"
      BY <1>4, ExtractSync DEF ExtractFault, Fail
    <2>2. HealRank = 1
      BY <1>3, <1>4 DEF HealRank
    <2>3. HealRank' = 1
      BY <1>3, <1>4, <2>1 DEF HealRank
    <2>4. QED
      BY <2>1, <2>2, <2>3 DEF Falls
  <1>5. CASE mode = "sync" /\ backlog = 0
    <2>1. Strip(usb_buf) = Own
      BY <1>3, <1>5, FullOwn DEF Clean
    <2>2. ExtractOk
      BY <2>1 DEF ExtractFault
    <2>3. QED
      BY <2>1, <2>2 DEF ExtractOk, Healed
  <1>6. CASE mode = "sync" /\ backlog # 0
    <2>1. Len(queue) < backlog \/ queue = <<>>
      BY <1>3, <1>6, FullDrains DEF Clean
    <2>2. backlog <= BufLen
      BY <1>3 DEF HealInv, BacklogFits
    <2>3. HealRank = Level(backlog, ErrorsLeft) /\ HealRank >= 1
      <3>1. HealRank = Level(backlog, ErrorsLeft)
        BY <1>3, <1>6 DEF HealRank, Old
      <3>2. QED
        BY <1>1, <1>2, <1>6, <3>1, LevelNat
    <2>4. CASE ExtractFault
      <3>1. pc' = "error" /\ err' = "recoverable" /\ ErrorsLeft' = ErrorsLeft
        BY <2>4 DEF ExtractFault, Fail, ErrorsLeft
      <3>2. CASE queue = <<>>
        <4>1. HealRank' = 1
          BY <1>3, <3>1, <3>2 DEF HealRank
        <4>2. QED
          BY <1>2, <2>3, <3>1, <4>1 DEF Falls
      <3>3. CASE queue # <<>>
        <4>1. HealRank' = 0 + Level(Len(queue), ErrorsLeft)
          BY <1>3, <1>6, <3>1, <3>3 DEF HealRank, Level
        <4>2. Level(Len(queue), ErrorsLeft) < Level(backlog, ErrorsLeft)
          BY <1>1, <1>2, <2>1, <2>2, <3>3, LevelLess
        <4>3. Level(Len(queue), ErrorsLeft) \in Nat
          BY <1>1, <1>2, LevelNat
        <4>4. QED
          BY <1>2, <2>3, <3>1, <4>1, <4>2, <4>3 DEF Falls
      <3>4. QED
        BY <3>2, <3>3
    <2>5. CASE ExtractOk
      <3>1. pc' = "idle" /\ consecutive_errors' = 0
        BY <2>5 DEF ExtractOk
      <3>2. ErrorsLeft' \in 0..(Threshold - 1)
        BY <3>1, RetryAssumption DEF ErrorsLeft
      <3>3. Old' = Len(queue)
        BY <1>3, <3>1 DEF Old
      <3>4. CASE Len(queue) = 0
        <4>1. HealRank' = 0
          BY <1>3, <1>6, <3>1, <3>3, <3>4 DEF HealRank
        <4>2. QED
          BY <1>2, <2>3, <4>1 DEF Falls
      <3>5. CASE Len(queue) # 0
        <4>1. HealRank' = Level(Len(queue), ErrorsLeft')
          BY <1>3, <1>6, <3>1, <3>3, <3>5 DEF HealRank, Level
        <4>2. Level(Len(queue), ErrorsLeft') < Level(backlog, ErrorsLeft)
          BY <1>1, <1>2, <2>1, <2>2, <3>2, <3>5, LevelLess
        <4>3. Level(Len(queue), ErrorsLeft') \in Nat
          BY <1>1, <3>2, LevelNat
        <4>4. QED
          BY <1>2, <2>3, <4>1, <4>2, <4>3 DEF Falls
      <3>6. QED
        BY <3>4, <3>5
    <2>6. QED
      BY <2>4, <2>5
  <1>7. QED
    BY <1>1, <1>4, <1>5, <1>6

\* An error is counted until a recovery is tried; a recovery leaves an empty chip.
LEMMA ErrorFalls ==
    ASSUME Inv, Inv', HealInv, bus = "good",
           ErrorFatal \/ ErrorRetry \/ ErrorRecover
    PROVE  Falls
  <1>1. /\ queue \in Seq(Item) /\ Len(queue) \in Nat /\ mode \in {"sync", "uart"}
        /\ consecutive_errors \in 0..(Threshold + 1)
        /\ consecutive_errors' \in 0..(Threshold + 1)
    BY DEF Inv, TypeOK, Item
  <1>2. HealRank \in Nat /\ ErrorsLeft \in 0..(Threshold - 1)
    BY RankNat, ErrorsLeftType, PacketAssumption, RetryAssumption
  <1>3. pc = "error" /\ queue' = queue /\ mode' = mode /\ consecutive_errors' = Counted
    BY DEF ErrorFatal, ErrorRetry, ErrorRecover, chip
  <1>4. Counted >= consecutive_errors
    BY <1>1, CountedType
  <1>5. ErrorsLeft' \in 0..(Threshold - 1) /\ ErrorsLeft' <= ErrorsLeft
    BY <1>1, <1>3, <1>4, RetryAssumption DEF ErrorsLeft
  <1>6. pc' \in {"idle", "write"} => Old' = Len(queue)
    BY <1>3 DEF Old
  <1> DEFINE now == IF mode = "uart" \/ queue = <<>> THEN 1 ELSE Level(Len(queue), ErrorsLeft)
  <1>7. now \in Nat /\ now >= 1
    <2>1. CASE mode = "uart" \/ queue = <<>>
      BY <2>1
    <2>2. CASE ~(mode = "uart" \/ queue = <<>>)
      <3>1. Len(queue) > 0
        BY <1>1, <2>2, EmptyWhenZero
      <3>2. Level(Len(queue), ErrorsLeft) \in 0..((BufLen + 2) * Threshold - 1)
            /\ Level(Len(queue), ErrorsLeft) >= 1
        BY <1>1, <1>2, <3>1, LevelNat
      <3>3. QED
        BY <2>2, <3>2
    <2>3. QED
      BY <2>1, <2>2
  <1>8. HealRank = (IF err = "fatal" THEN 1 ELSE 0) + now
    BY <1>3 DEF HealRank
  <1>9. CASE ErrorFatal
    <2>1. pc' = "idle" /\ err = "fatal"
      BY <1>9 DEF ErrorFatal
    <2>2. HealRank = 1 + now
      BY <1>8, <2>1
    <2>3. CASE mode = "uart"
      <3>1. HealRank' = 1
        BY <1>3, <2>1, <2>3 DEF HealRank
      <3>2. QED
        BY <1>7, <2>2, <3>1 DEF Falls
    <2>4. CASE mode # "uart" /\ Len(queue) = 0
      <3>1. HealRank' = 0
        BY <1>3, <1>6, <2>1, <2>4 DEF HealRank
      <3>2. QED
        BY <1>7, <2>2, <3>1 DEF Falls
    <2>5. CASE mode # "uart" /\ Len(queue) # 0
      <3>1. HealRank' = Level(Len(queue), ErrorsLeft')
        BY <1>3, <1>6, <2>1, <2>5 DEF HealRank, Level
      <3>2. Level(Len(queue), ErrorsLeft') <= Level(Len(queue), ErrorsLeft)
        BY <1>1, <1>2, <1>5, LevelErrors
      <3>3. queue # <<>>
        BY <2>5
      <3>4. now = Level(Len(queue), ErrorsLeft)
        BY <2>5, <3>3
      <3>5. Level(Len(queue), ErrorsLeft') \in Nat
        BY <1>1, <1>5, LevelNat
      <3>6. QED
        BY <1>7, <2>2, <3>1, <3>2, <3>4, <3>5 DEF Falls
    <2>6. QED
      BY <2>3, <2>4, <2>5
  <1>10. CASE ErrorRetry
    <2>1. /\ pc' \in {"idle", "write"} /\ err = "recoverable"
          /\ consecutive_errors + 1 < Threshold
      BY <1>10 DEF ErrorRetry, NextAttempt
    <2>2. mode = "sync"
      BY <1>1, <2>1, RetryAssumption DEF Inv, Deaf
    <2>3. HealRank = now
      BY <1>7, <1>8, <2>1
    <2>4. CASE Len(queue) = 0
      <3>1. HealRank' = 0
        BY <1>3, <1>6, <2>1, <2>2, <2>4 DEF HealRank
      <3>2. QED
        BY <1>7, <2>3, <3>1 DEF Falls
    <2>5. CASE Len(queue) # 0
      <3>1. HealRank' = Level(Len(queue), ErrorsLeft')
        BY <1>3, <1>6, <2>1, <2>2, <2>5 DEF HealRank, Level
      <3>2. ErrorsLeft' < ErrorsLeft
        <4>1. Counted = consecutive_errors + 1
          BY <1>1, <2>1, RetryAssumption DEF Counted
        <4>2. consecutive_errors' = consecutive_errors + 1
          BY <1>3, <4>1
        <4>3. ErrorsLeft = Threshold - 1 - consecutive_errors
          BY <2>1 DEF ErrorsLeft
        <4>4. ErrorsLeft' = IF (consecutive_errors + 1) + 1 < Threshold
                            THEN Threshold - 1 - (consecutive_errors + 1) ELSE 0
          BY <4>2 DEF ErrorsLeft
        <4>5. QED
          BY <1>1, <2>1, <4>3, <4>4, RetryAssumption
      <3>3. Level(Len(queue), ErrorsLeft') < Level(Len(queue), ErrorsLeft)
        BY <1>1, <1>2, <1>5, <3>2, LevelErrors
      <3>4. queue # <<>>
        BY <2>5
      <3>5. now = Level(Len(queue), ErrorsLeft)
        BY <2>2, <3>4
      <3>6. Level(Len(queue), ErrorsLeft') \in Nat
        BY <1>1, <1>5, LevelNat
      <3>7. QED
        BY <1>7, <2>3, <3>1, <3>3, <3>5, <3>6 DEF Falls
    <2>6. QED
      BY <2>4, <2>5
  <1>11. CASE ErrorRecover
    <2>1. pc' = "control" /\ err = "recoverable"
      BY <1>11 DEF ErrorRecover
    <2>2. HealRank' = 1
      BY <2>1 DEF HealRank
    <2>3. HealRank = now
      BY <1>7, <1>8, <2>1
    <2>4. QED
      BY <1>7, <2>1, <2>2, <2>3 DEF Falls
  <1>12. QED
    BY <1>9, <1>10, <1>11

LEMMA RecoveryFalls ==
    ASSUME Inv, HealInv, bus = "good",
           ControlOk \/ ControlFail \/ UsbReset \/ UsbResetFail \/ Recovered
    PROVE  Falls
  <1>1. pc \in {"control", "reset"} /\ HealRank = 1
    BY DEF ControlOk, ControlFail, UsbReset, UsbResetFail, Recovered, HealRank
  <1>2. CASE ControlOk \/ UsbReset
    <2>1. pc' = "control"
      BY <1>2 DEF ControlOk, UsbReset
    <2>2. HealRank' = 1
      BY <2>1 DEF HealRank
    <2>3. QED
      BY <1>1, <2>1, <2>2 DEF Falls
  <1>3. CASE ControlFail \/ UsbResetFail
    BY <1>3 DEF ControlFail, UsbResetFail
  <1>4. CASE Recovered
    <2>1. /\ pc = "control" /\ step = 6 /\ pc' \in {"idle", "write"}
          /\ queue' = queue /\ mode' = mode
      BY <1>4 DEF Recovered, NextAttempt, chip, Configurations
    <2>2. queue = <<>> /\ mode = "sync"
      BY <2>1 DEF HealInv, ControlEmpty, Inv, Deaf, TypeOK
    <2>3. Old' = 0
      BY <2>1, <2>2 DEF Old
    <2>4. HealRank' = 0
      BY <2>1, <2>2, <2>3 DEF HealRank
    <2>5. QED
      BY <1>1, <2>4 DEF Falls
  <1>5. QED
    BY <1>2, <1>3, <1>4

\* Every step of a transfer over a good bus.
LEMMA StepFalls ==
    ASSUME Inv, Inv', ReadingInv, HealInv, bus = "good", ~gaps, Step
    PROVE  Healed' \/ Falls
  BY WriteFalls, ReadFalls, ExtractFalls, ErrorFalls, RecoveryFalls DEF Step

\* The measure of a state, from its two parts.
HealBounds ==
    /\ Transfer \in Nat /\ Left \in 0..(Transfer - 1)
    /\ HealRank \in Nat /\ HealRank * Transfer \in Nat
    /\ HealLeft = HealRank * Transfer + Left + (IF pc = "idle" THEN Transfer ELSE 0)
    /\ HealLeft \in 0..HealMax

LEMMA HealLeftNat ==
    ASSUME Inv
    PROVE  HealBounds
  <1> DEFINE top == (BufLen + 2) * Threshold
             r == HealRank
             t == Transfer
             l == Left
  <1>1. t \in Nat /\ l \in 0..(t - 1)
    BY LeftBounds, RetryAssumption DEF Transfer
  <1>2. top \in Nat /\ r \in 0..top
    BY RankNat, PacketAssumption, RetryAssumption
  <1>3. HealMax = (top + 1) * t
    BY DEF HealMax
  <1>4. /\ pc = "idle" => HealLeft = (r + 1) * t + l /\ l = 0
        /\ pc # "idle" => HealLeft = (r + 0) * t + l
    BY DEF HealLeft, Left
  <1> SUFFICES /\ r * t \in Nat
               /\ HealLeft = r * t + l + (IF pc = "idle" THEN t ELSE 0)
               /\ HealLeft \in 0..((top + 1) * t)
    BY <1>1, <1>2, <1>3 DEF HealBounds
  <1> HIDE DEF top, r, t, l
  <1>5. r * t \in Nat /\ top * t \in Nat /\ r * t <= top * t
    BY <1>1, <1>2
  <1>6. (r + 1) * t = r * t + t /\ (top + 1) * t = top * t + t /\ r + 0 = r
    BY <1>1, <1>2
  <1>7. CASE pc = "idle"
    BY <1>1, <1>4, <1>5, <1>6, <1>7
  <1>8. CASE pc # "idle"
    BY <1>1, <1>4, <1>5, <1>6, <1>8
  <1>9. QED
    BY <1>7, <1>8

\* A call leaves the failures to come as they are.
LEMMA CallRank ==
    ASSUME Inv, Call
    PROVE  pc = "idle" /\ pc' = "write" /\ HealRank' = HealRank
  <1>1. /\ pc = "idle" /\ pc' = "write" /\ queue' = queue /\ mode' = mode
        /\ ErrorsLeft' = ErrorsLeft
    BY DEF Call, chip, ErrorsLeft
  <1>2. Old = Len(queue) /\ Old' = Len(queue)
    BY <1>1 DEF Old
  <1>3. HealRank' = HealRank
    BY <1>1, <1>2 DEF HealRank, Level
  <1>4. QED
    BY <1>1, <1>3

\* Over a good bus every step, of the transfer or of its caller, leaves less to do, or
\* ends with a healed chip.
LEMMA HealStep ==
    ASSUME Inv, Inv', ReadingInv, HealInv, Call \/ Step, bus = "good", bus' = "good", ~gaps,
           HealBounds, HealBounds'
    PROVE  Healed' \/ HealLeft' < HealLeft
  <1> DEFINE r == HealRank
             s == HealRank'
             t == Transfer
             l == Left
             m == Left'
  <1>0. Transfer' = t
    BY DEF Transfer, Attempt
  <1>1. /\ t \in Nat /\ r \in Nat /\ s \in Nat /\ l \in 0..(t - 1) /\ m \in 0..(t - 1)
        /\ r * t \in Nat /\ s * t \in Nat
        /\ HealLeft = r * t + l + (IF pc = "idle" THEN t ELSE 0)
        /\ HealLeft' = s * t + m + (IF pc' = "idle" THEN t ELSE 0)
    BY <1>0 DEF HealBounds
  <1>2. CASE Call
    <2>1. pc = "idle" /\ pc' = "write" /\ s = r
      BY <1>2, CallRank
    <2> HIDE DEF r, s, t, l, m
    <2>2. QED
      BY <1>1, <2>1
  <1>3. CASE Step
    <2>1. pc # "idle" /\ m < l
      BY <1>3, StepProgress
    <2>2. Healed' \/ (s <= r /\ (pc' = "idle" => s < r))
      BY <1>3, StepFalls DEF Falls
    <2> HIDE DEF r, s, t, l, m
    <2>3. CASE Healed'
      BY <2>3
    <2>4. CASE s <= r /\ pc' # "idle"
      <3>1. s * t <= r * t
        BY <1>1, <2>4
      <3>2. QED
        BY <1>1, <2>1, <2>4, <3>1
    <2>5. CASE s < r /\ pc' = "idle"
      <3>1. (s + 1) * t <= r * t /\ (s + 1) * t = s * t + t
        BY <1>1, <2>5
      <3>2. m = 0
        BY <2>5 DEF m, Left
      <3>3. QED
        BY <1>1, <2>1, <2>5, <3>1, <3>2
    <2>6. QED
      BY <2>2, <2>3, <2>4, <2>5
  <1>4. QED
    BY <1>2, <1>3

\* Once the bus fails no more, the transfers come to return their own samples again,
\* from every state the failures can leave: with a chip that fills its packets no step
\* leaves as much to do as before, and what there is to do is bounded by the samples
\* two writes can leave, the errors a recovery waits for and the attempts of a transfer.
\* This is what Heals rests on beside the fairness of Step and of the callers: the
\* retries, the stale samples, the counter and the recovery cannot feed one another
\* without end, as long as there are calls (infnoise_main.c:350-493).
BoundedHealing ==
    /\ [](HealLeft \in 0..HealMax)
    /\ [][bus = "good" /\ bus' = "good" /\ ~gaps /\ (Call \/ Step) =>
             Healed' \/ HealLeft' < HealLeft]_vars

THEOREM TransferHealing == Spec => BoundedHealing
  <1>1. Inv => HealBounds
    BY HealLeftNat
  <1>2. HealBounds => HealLeft \in 0..HealMax
    BY DEF HealBounds
  <1>3. Inv /\ Inv' /\ ReadingInv /\ HealInv /\ HealBounds /\ HealBounds' /\ [Next]_vars =>
            [bus = "good" /\ bus' = "good" /\ ~gaps /\ (Call \/ Step) =>
                Healed' \/ HealLeft' < HealLeft]_vars
    BY HealStep
  <1>4. QED
    BY <1>1, <1>2, <1>3, AlwaysHeal, PTL DEF Spec, BoundedHealing

\* A read over a good bus, of clean packets from a chip that was empty before the write,
\* ends with the samples of that write and in no other way: the status bytes behind the
\* last sample fill the buffer without an overflow, and the checks find every sample
\* (infnoise.h:83, infnoise_main.c:270-336).
CleanReadSucceeds ==
    [][bus = "good" /\ Clean /\ pc = "read" /\ backlog = 0 /\ pc' # "read" => Healed']_vars

THEOREM TransferCleanRead == Spec => CleanReadSucceeds
  <1>1. ASSUME Inv, ReadingInv, HealInv, [Next]_vars,
               bus = "good", Clean, pc = "read", backlog = 0, pc' # "read"
        PROVE  Healed'
    <2>1. CASE ExtractOk \/ ExtractFault
      <3>1. Len(usb_buf) = UsbReadSize
        BY <1>1, <2>1, ReadSize DEF ExtractOk, ExtractFault, Reading, Inv, TypeOK
      <3>2. Strip(usb_buf) = Own
        BY <1>1, <3>1, FullOwn
      <3>3. ExtractOk
        BY <1>1, <2>1, <3>2 DEF ExtractFault
      <3>4. QED
        BY <3>2, <3>3 DEF ExtractOk, Healed
    <2>2. ASSUME NEW d \in 0..DataPerPacket, ReadPacket(d) \/ ReadOverflow(d)
          PROVE  Healed'
      <3>1. ~ReadOverflow(d)
        BY <1>1, Overflow
      <3>2. ReadPacket(d)
        BY <2>2, <3>1
      <3>3. QED
        BY <1>1, <3>2 DEF ReadPacket
    <2>3. ASSUME NEW class \in Classes, NEW d \in 0..DataPerPacket, ReadFail(class, d)
          PROVE  Healed'
      BY <1>1, <2>3 DEF ReadFail, Failing
    <2>4. QED
      BY <1>1, <2>1, <2>2, <2>3
      DEF Next, Step, Call, WriteOk, WriteFail, ErrorFatal, ErrorRetry, ErrorRecover,
          ControlOk, ControlFail, UsbReset, UsbResetFail, Recovered, BusSettles,
          WarmupFails, Unplug, vars, driver
  <1>2. Inv /\ ReadingInv /\ HealInv /\ [Next]_vars =>
            [bus = "good" /\ Clean /\ pc = "read" /\ backlog = 0 /\ pc' # "read" =>
                Healed']_vars
    BY <1>1
  <1>3. QED
    BY <1>2, AlwaysHeal, PTL DEF Spec, CleanReadSucceeds
=============================================================================
