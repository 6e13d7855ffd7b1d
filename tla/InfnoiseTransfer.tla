--------------------------- MODULE InfnoiseTransfer ---------------------------
(***************************************************************************)
(* infnoise_usb_transfer (kernel/infnoise_main.c): one transfer with its   *)
(* attempts, its error counter and the recovery, against the FT240X chip.  *)
(*                                                                         *)
(* The chip is external and modelled from how the driver uses it: a queue  *)
(* of samples, one for each clock byte it was sent in bit-bang mode, which *)
(* it hands out in packets of StatusSize status bytes and at most          *)
(* DataPerPacket samples; with nothing to hand out it sends the status     *)
(* bytes alone.  A sample is the position of its clock byte in the pattern *)
(* when this attempt wrote it, Stale when an earlier write did.            *)
(*                                                                         *)
(* The device mutex is held throughout.  The verdict of the health monitor *)
(* on a block is the business of InfnoiseHealth; here it is an outcome     *)
(* that fails the device.                                                  *)
(***************************************************************************)
EXTENDS Integers, Sequences

CONSTANTS
    BufLen,          \* INFNOISE_BUFLEN: clock bytes of one write
    StatusSize,      \* FTDI_STATUS_SIZE
    DataPerPacket,   \* FTDI_DATA_PER_PACKET
    MaxRetries,      \* INFNOISE_MAX_RETRIES
    Threshold        \* INFNOISE_RECOVERY_THRESHOLD

ASSUME PacketAssumption ==
    /\ BufLen \in Nat \ {0} /\ StatusSize \in Nat \ {0} /\ DataPerPacket \in Nat \ {0}
\* The last packet of a read has room to spare: what a read takes from the chip is
\* more than a write puts in.
ASSUME SpareAssumption == BufLen % DataPerPacket # 0
\* A chip with nothing left to hand out fills the rest of a read with status bytes
\* exactly, so the read ends without an overflow.
ASSUME TailAssumption ==
    (DataPerPacket - (BufLen % DataPerPacket)) % StatusSize = 0
ASSUME RetryAssumption ==
    MaxRetries \in Nat \ {0} /\ Threshold \in Nat \ {0}

Least(a, b) == IF a <= b THEN a ELSE b

PacketSize == StatusSize + DataPerPacket

\* INFNOISE_USB_READ_SIZE: as many packets as BufLen samples need.
UsbReadSize == ((BufLen + DataPerPacket - 1) \div DataPerPacket) * PacketSize

\* The queue of the chip holds one write beside what is being read.
Capacity == 2 * BufLen

Stale  == 0            \* a sample of an earlier write
Status == -1           \* a modem status byte
Own    == [j \in 1..BufLen |-> j]

VARIABLES
    \* the driver
    pc,                  \* "idle", "write", "read", "error", "control" or "reset"
    retry,
    err,                 \* class of the last error: "none", "recoverable", "fatal"
    consecutive_errors,  \* counted up to Threshold + 1
    usb_buf,             \* what was read so far in this attempt
    step,                \* control transfers of infnoise_configure_ftdi done
    again,               \* configuring after a USB reset
    ret,                 \* what the last transfer returned: "ok" or "error"
    block,               \* the samples it extracted
    \* the chip and the bus
    queue,
    mode,                \* "sync" bit-bang or "uart"
    gaps,                \* the chip may send a packet before it is full; fixed by Init
    bus,                 \* "flaky", "good" or "gone" (unplugged, PRESENT cleared)
    health_fail,         \* the flag INFNOISE_HEALTH_FAIL, never cleared
    \* history
    backlog              \* samples that were queued when this attempt wrote

driver == <<pc, retry, err, consecutive_errors, usb_buf, step, again, ret, block>>
chip   == <<queue, mode, gaps>>
vars   == <<driver, chip, bus, backlog, health_fail>>

-----------------------------------------------------------------------------
\* Definitions named ...Mutant are slips a change of the code could make.  No
\* specification uses them: putting one in the place of the definition it precedes
\* shows which property would notice.

\* infnoise_strip_ftdi_status: sample j of the result is byte DataIndex(j) of the
\* buffer, every PacketSize bytes taken for a packet; at most BufLen samples.
DataIndexMutant(j) == ((j - 1) \div DataPerPacket) * PacketSize + ((j - 1) % DataPerPacket) + 1
DataIndex(j) ==
    ((j - 1) \div DataPerPacket) * PacketSize + StatusSize + ((j - 1) % DataPerPacket) + 1

Strip(buf) == [j \in {k \in 1..BufLen : DataIndex(k) <= Len(buf)} |-> buf[DataIndex(j)]]

\* The bytes of one packet with the first d samples of the queue.
Packet(d) == [k \in 1..StatusSize |-> Status] \o SubSeq(queue, 1, d)
Dequeued(d) == SubSeq(queue, d + 1, Len(queue))

\* What the chip may put into a packet now.
Fill == IF gaps THEN 0..Least(DataPerPacket, Len(queue)) ELSE {Least(DataPerPacket, Len(queue))}

\* Clocks for the first k positions of the pattern were accepted.
Clocked(k) ==
    IF mode = "sync" THEN [i \in 1..Len(queue) |-> Stale] \o SubSeq(Own, 1, k) ELSE queue

Configurations == 6   \* control transfers of infnoise_configure_ftdi

Init ==
    \* the probe configured the chip, wrote PacketSize clocks and read one packet
    /\ queue \in {[i \in 1..k |-> Stale] : k \in StatusSize..Least(PacketSize, BufLen)}
    /\ mode = "sync" /\ gaps \in BOOLEAN
    /\ bus = "flaky"
    /\ pc = "idle" /\ retry = 0 /\ err = "none" /\ consecutive_errors = 0
    /\ usb_buf = <<>> /\ step = 0 /\ again = FALSE
    /\ ret = "ok" /\ block = <<>>
    /\ backlog = 0 /\ health_fail = FALSE

-----------------------------------------------------------------------------
\* infnoise_usb_transfer is called.
Call ==
    /\ pc = "idle"
    /\ pc' = "write" /\ retry' = 0 /\ err' = "none" /\ block' = <<>>
    /\ UNCHANGED <<consecutive_errors, usb_buf, step, again, ret, chip, bus,
                   backlog, health_fail>>

\* The attempt is over and what it read is not looked at again.
Fail(class) == err' = class /\ pc' = "error" /\ usb_buf' = <<>>

\* What a failing bus operation returns; -ENODEV once the device is gone.
Failing(class) == bus = "flaky" \/ (bus = "gone" /\ class = "fatal")

\* A short write answered by writing the whole pattern again.
WriteOkMutant ==
    /\ pc = "write" /\ bus # "gone" /\ Len(queue) + 2 * BufLen - 1 <= Capacity
    /\ queue' = Clocked(BufLen - 1) \o Own /\ backlog' = Len(queue)
    /\ usb_buf' = <<>>
    /\ pc' = "read"
    /\ UNCHANGED <<retry, err, consecutive_errors, step, again, ret, block, mode, gaps,
                   bus, health_fail>>

\* infnoise_usb_transfer_once: the clock pattern is written in full,
WriteOk ==
    /\ pc = "write" /\ bus # "gone"
    /\ Len(queue) + BufLen <= Capacity
    /\ queue' = Clocked(BufLen) /\ backlog' = Len(queue)
    /\ usb_buf' = <<>>
    /\ pc' = "read"
    /\ UNCHANGED <<retry, err, consecutive_errors, step, again, ret, block, mode, gaps,
                   bus, health_fail>>

\* or not: an error, a short write, or a chip whose queue is full.
WriteFail(class, k) ==
    /\ pc = "write"
    /\ \/ Failing(class)
       \/ /\ class = "recoverable" /\ bus = "good"
          /\ Len(queue) + BufLen > Capacity
    /\ k + Len(queue) <= Capacity /\ k < BufLen
    /\ queue' = IF bus = "gone" THEN queue ELSE Clocked(k)
    /\ Fail(class)
    /\ UNCHANGED <<retry, consecutive_errors, step, again, ret, block, mode,
                   gaps, bus, backlog, health_fail>>

Reading == pc = "read" /\ Len(usb_buf) < UsbReadSize

\* One packet arrives.  The read goes on until the buffer is full, whatever the
\* packets hold.
ReadPacket(d) ==
    /\ Reading /\ bus # "gone" /\ d \in Fill
    /\ Len(usb_buf) + StatusSize + d <= UsbReadSize
    /\ usb_buf' = usb_buf \o Packet(d)
    /\ queue' = Dequeued(d)
    /\ UNCHANGED <<pc, retry, err, consecutive_errors, step, again, ret, block, mode,
                   gaps, bus, backlog, health_fail>>

\* A packet larger than the room left in the buffer: -EOVERFLOW, and it is lost.
ReadOverflow(d) ==
    /\ Reading /\ bus # "gone" /\ d \in Fill
    /\ Len(usb_buf) + StatusSize + d > UsbReadSize
    /\ queue' = Dequeued(d)
    /\ Fail("recoverable")
    /\ UNCHANGED <<retry, consecutive_errors, step, again, ret, block, mode,
                   gaps, bus, backlog, health_fail>>

\* An error, a timeout or an empty read; a packet may be lost with it.
ReadFail(class, d) ==
    /\ Reading /\ Failing(class) /\ d \in 0..Least(DataPerPacket, Len(queue))
    /\ queue' = Dequeued(d)
    /\ Fail(class)
    /\ UNCHANGED <<retry, consecutive_errors, step, again, ret, block, mode,
                   gaps, bus, backlog, health_fail>>

\* infnoise_extract_bytes finds no fault.  A block of status bytes alone is the run
\* of equal bits the monitor looks for.
ExtractOk ==
    /\ pc = "read" /\ ~Reading
    /\ Len(Strip(usb_buf)) = BufLen
    /\ \E j \in 1..BufLen : Strip(usb_buf)[j] # Status
    /\ block' = Strip(usb_buf)
    /\ consecutive_errors' = 0
    /\ ret' = "ok" /\ pc' = "idle" /\ usb_buf' = <<>>
    /\ UNCHANGED <<retry, err, step, again, chip, bus, backlog, health_fail>>

\* Too few bytes, or the monitor reports a fault, which sets HEALTH_FAIL: -EIO either
\* way.  Samples that arrive as they were clocked over a good bus are taken to be
\* healthy.
ExtractFault ==
    /\ pc = "read" /\ ~Reading
    /\ bus = "good" => Strip(usb_buf) # Own
    /\ health_fail' = (health_fail \/ Len(Strip(usb_buf)) = BufLen)
    /\ Fail("recoverable")
    /\ UNCHANGED <<retry, consecutive_errors, step, again, ret, block, chip,
                   bus, backlog>>

-----------------------------------------------------------------------------
\* Errors are counted; the model stops counting where the code stops comparing.
Counted == IF consecutive_errors > Threshold THEN consecutive_errors ELSE consecutive_errors + 1

\* The attempt is over: another one, or the last error is returned.
NextAttemptMutant ==
    IF retry + 1 < MaxRetries
    THEN retry' = retry /\ pc' = "write" /\ ret' = ret
    ELSE retry' = retry /\ pc' = "idle" /\ ret' = "error"

NextAttemptExtraMutant ==
    IF retry < MaxRetries
    THEN retry' = retry + 1 /\ pc' = "write" /\ ret' = ret
    ELSE retry' = retry /\ pc' = "idle" /\ ret' = "error"

NextAttempt ==
    IF retry + 1 < MaxRetries
    THEN retry' = retry + 1 /\ pc' = "write" /\ ret' = ret
    ELSE retry' = retry /\ pc' = "idle" /\ ret' = "error"

ErrorFatal ==
    /\ pc = "error" /\ err = "fatal"
    /\ consecutive_errors' = Counted
    /\ ret' = "error" /\ pc' = "idle"
    /\ UNCHANGED <<retry, err, usb_buf, step, again, block, chip, bus, backlog,
                   health_fail>>

ErrorRetry ==
    /\ pc = "error" /\ err = "recoverable" /\ consecutive_errors + 1 < Threshold
    /\ consecutive_errors' = Counted
    /\ NextAttempt
    /\ UNCHANGED <<err, usb_buf, step, again, block, chip, bus, backlog, health_fail>>

ErrorRecoverMutant ==
    /\ pc = "error" /\ err = "recoverable" /\ consecutive_errors + 1 >= Threshold
    /\ consecutive_errors' = Counted
    /\ IF consecutive_errors + 1 = Threshold /\ bus # "gone"
       THEN pc' = "control" /\ step' = 0 /\ again' = FALSE /\ UNCHANGED <<ret, retry>>
       ELSE NextAttempt /\ UNCHANGED <<step, again>>
    /\ UNCHANGED <<err, usb_buf, block, chip, bus, backlog, health_fail>>

\* infnoise_try_recovery is called; without PRESENT it gives up at once.
ErrorRecover ==
    /\ pc = "error" /\ err = "recoverable" /\ consecutive_errors + 1 >= Threshold
    /\ consecutive_errors' = Counted
    /\ IF bus = "gone"
       THEN ret' = "error" /\ pc' = "idle" /\ UNCHANGED <<step, again>>
       ELSE pc' = "control" /\ step' = 0 /\ again' = FALSE /\ ret' = ret
    /\ UNCHANGED <<retry, err, usb_buf, block, chip, bus, backlog, health_fail>>

\* infnoise_configure_ftdi: reset, latency, baud rate, bit mode, purge of either
\* queue.  The reset purges both; what was done stays done when a later one fails.
ControlOk ==
    /\ pc = "control" /\ step < Configurations /\ bus # "gone"
    /\ step' = step + 1
    /\ queue' = IF step \in {0, 4} THEN <<>> ELSE queue
    /\ mode' = IF step = 3 THEN "sync" ELSE mode
    /\ UNCHANGED <<pc, retry, err, consecutive_errors, usb_buf, again, ret, block, gaps,
                   bus, backlog, health_fail>>

ControlFail ==
    /\ pc = "control" /\ step < Configurations /\ bus # "good"
    /\ IF again THEN pc' = "idle" /\ ret' = "error" ELSE pc' = "reset" /\ ret' = ret
    /\ UNCHANGED <<retry, err, consecutive_errors, usb_buf, step, again, block, chip,
                   bus, backlog, health_fail>>

\* The errors forgotten with the reset, before the configuration.
UsbResetMutant ==
    /\ pc = "reset" /\ bus # "gone"
    /\ queue' = <<>> /\ mode' = "uart" /\ consecutive_errors' = 0
    /\ step' = 0 /\ again' = TRUE /\ pc' = "control"
    /\ UNCHANGED <<retry, err, usb_buf, ret, block, gaps, bus, backlog, health_fail>>

\* usb_reset_device leaves an unconfigured chip; when it fails it may have done so
\* or nothing.
UsbReset ==
    /\ pc = "reset" /\ bus # "gone"
    /\ queue' = <<>> /\ mode' = "uart"
    /\ step' = 0 /\ again' = TRUE /\ pc' = "control"
    /\ UNCHANGED <<retry, err, consecutive_errors, usb_buf, ret, block, gaps, bus,
                   backlog, health_fail>>

UsbResetFail ==
    /\ pc = "reset" /\ bus # "good"
    /\ UNCHANGED chip \/ (queue' = <<>> /\ mode' = "uart" /\ UNCHANGED gaps)
    /\ ret' = "error" /\ pc' = "idle"
    /\ UNCHANGED <<retry, err, consecutive_errors, usb_buf, step, again, block, bus,
                   backlog, health_fail>>

\* The chip is configured: the errors are forgotten, the attempts go on.
RecoveredMutant ==
    /\ pc = "control" /\ step = Configurations
    /\ NextAttempt
    /\ UNCHANGED <<consecutive_errors, err, usb_buf, step, again, block, chip, bus,
                   backlog, health_fail>>

Recovered ==
    /\ pc = "control" /\ step = Configurations
    /\ consecutive_errors' = 0
    /\ NextAttempt
    /\ UNCHANGED <<err, usb_buf, step, again, block, chip, bus, backlog, health_fail>>

\* The bus stops failing, or the device is unplugged.
BusSettles ==
    /\ bus = "flaky" /\ bus' = "good"
    /\ UNCHANGED <<driver, chip, backlog, health_fail>>

\* The warmup gave up (InfnoiseDriver counts its rounds): HEALTH_FAIL as well.
WarmupFails ==
    /\ pc = "idle" /\ ~health_fail /\ health_fail' = TRUE
    /\ UNCHANGED <<driver, chip, bus, backlog>>

Unplug ==
    /\ bus # "gone" /\ bus' = "gone"
    /\ UNCHANGED <<driver, chip, backlog, health_fail>>

Classes == {"recoverable", "fatal"}

\* Steps of the transfer itself; what the bus makes of them is not its choice.
Step ==
    \/ WriteOk \/ \E class \in Classes, k \in 0..(BufLen - 1) : WriteFail(class, k)
    \/ \E d \in 0..DataPerPacket : ReadPacket(d) \/ ReadOverflow(d)
    \/ \E class \in Classes, d \in 0..DataPerPacket : ReadFail(class, d)
    \/ ExtractOk \/ ExtractFault
    \/ ErrorFatal \/ ErrorRetry \/ ErrorRecover
    \/ ControlOk \/ ControlFail \/ UsbReset \/ UsbResetFail \/ Recovered

Next == Call \/ Step \/ BusSettles \/ WarmupFails \/ Unplug

Spec == Init /\ [][Next]_vars

\* A transfer that was called goes on.  The hwrng core keeps calling as long as the
\* device has not failed; once it has, infnoise_hwrng_read and infnoise_char_read return
\* without a transfer, and only the warmup or a read that began before may call again.
FairSpec == Spec /\ WF_vars(Step) /\ WF_vars(~health_fail /\ Call)

-----------------------------------------------------------------------------
\* Every variable has its type.
TypeOK ==
    /\ pc \in {"idle", "write", "read", "error", "control", "reset"}
    /\ retry \in 0..(MaxRetries - 1)
    /\ err \in {"none", "recoverable", "fatal"}
    /\ consecutive_errors \in 0..(Threshold + 1)
    /\ usb_buf \in Seq(Status..BufLen) /\ Len(usb_buf) <= UsbReadSize
    /\ step \in 0..Configurations /\ again \in BOOLEAN
    /\ ret \in {"ok", "error"}
    /\ block \in Seq(Status..BufLen)
    /\ queue \in Seq(Stale..BufLen) /\ Len(queue) <= Capacity
    /\ mode \in {"sync", "uart"} /\ gaps \in BOOLEAN /\ bus \in {"flaky", "good", "gone"}
    /\ backlog \in 0..Capacity /\ health_fail \in BOOLEAN

\* A transfer that found the queue of the chip empty returns exactly the samples of
\* its own clock pattern, in order, when the chip fills its packets: the packet
\* arithmetic of lines 306-336 and the read size of infnoise.h:83 agree.
ExactFromEmpty ==
    ~gaps /\ pc = "idle" /\ ret = "ok" /\ block # <<>> /\ backlog = 0 => block = Own

\* What an earlier attempt left in the chip shrinks with every transfer: reading to
\* the end of the last packet (line 372) drains more than one write puts in.
BacklogDrains ==
    [][ ~gaps /\ pc = "read" /\ pc' = "idle" /\ ret' = "ok" =>
            Len(queue) < backlog \/ queue = <<>> ]_vars

\* An unconfigured chip is never worked with at ease: whenever the driver returned to
\* its caller with the chip out of bit-bang mode, the counter stands high enough for
\* the next error to start another recovery (lines 469-478).
DeafChipRemembered ==
    mode = "uart" /\ pc \in {"idle", "write", "read"} => consecutive_errors >= Threshold

\* The counter reaches the threshold only by errors no recovery could answer: a
\* fatal one or a recovery that failed; a transfer that goes on after a recovery
\* starts from zero (lines 240, 452, 469).
RecoveryTried ==
    pc = "write" /\ retry > 0 => consecutive_errors < Threshold

\* A transfer returns, whatever the bus does: device users wait for it on the mutex
\* (lines 372, 447).
TransferEnds == pc = "write" ~> pc = "idle"

\* Once the bus stops failing, transfers come to return their own samples again, in
\* whatever state the failures left the chip, the queue and the counter, when the
\* chip fills its packets, for as long as there are transfers: they may end for good
\* only because the device was failed (lines 290, 633, 672, 766), which no recovery
\* takes back.
Heals ==
    \/ <>[](pc = "idle" /\ health_fail)
    \/ bus = "good" /\ ~gaps ~> (bus = "gone" \/ (ret = "ok" /\ block = Own))

=============================================================================
