# A verification project for infnoise

TLA+ models of the Infinite Noise TRNG software: the Linux kernel driver
(`src/software/kernel/`), the userspace library and program
(`src/software/*.c`) and the Keccak permutation of both. TLC checks the models on
small instances, TLAPS proves theorems, in seven modules, about the driver, the library, the
program, both health monitors and Keccak, for every value of the constants. `PROJECT.json`
lists the runs, the lines each definition models, the hazards, and for every
property a slip of the code (a mutant) that the property notices.

## 1. Inventory: the parts of the system

The device is a comparator pair behind an FT240X USB chip. The host clocks it
by writing 512 bytes in synchronous bit-bang mode and reads one sample for each
byte; 512 samples become a block of 64 bytes. A monitor estimates the entropy of
the samples while they are extracted, and a Keccak sponge whitens the blocks.

### Kernel driver

| Part | Source | State | Operations | Correct when |
|---|---|---|---|---|
| Health monitor | `infnoise_health.c`, `infnoise_extract_bytes` | prediction tables, window of samples and entropy, run counters, running probability in fixed point, `ok_to_use`, `entropy_level` | `infnoise_health_add_bit` (with four scalings), `infnoise_health_ok`, start of an extraction | counters stay below their limits; the loop over the probability ends; a fault is a long run and nothing else; no credit before enough data |
| USB transfer | `infnoise_usb_transfer(_once)`, `infnoise_try_recovery`, `infnoise_configure_ftdi`, `infnoise_strip_ftdi_status` | `consecutive_errors`, the attempt, the buffers; the chip's queue and mode | write, read in packets, retry, recovery, USB reset | samples are those of this write; what is left in the chip drains; a chip that lost its mode is remembered; transfers end and heal |
| Sponge accounting | `infnoise_read_data`, `infnoise_keccak_squeeze` | `keccak_bytes_left`, the sponge, `infnoise_multiplier` | a read with a length and a mode | every absorbed block yields its budget, no more than 128 bytes of one state, never a state twice, whatever raw reads come between |
| Threads | `infnoise_main.c` | flag word, completion `warmup_done`, `dev->lock`, `raw_mode`, registrations, lifetime of the device | probe, warmup work, hwrng read, open / read / ioctl / release, disconnect | exclusion, data only after the warmup, orderly teardown, no thread waits for ever |
| Keccak-f[1600] | `infnoise_keccak.c` | 25 lanes | init, permutation, absorb, extract | equals the reference `Keccak/KeccakF-1600-reference.c` |

Threads call `infnoise_read_data` under `dev->lock`; it calls the transfer, which
feeds the monitor sample by sample, and then asks the monitor for its verdict. A
fault of the monitor sets `INFNOISE_HEALTH_FAIL`, which readers look at before
they take the lock. Disconnect runs beside all of them and shares the flags, the
completion and the structure it frees.

### Userspace

| Part | Source | State | Operations | Correct when |
|---|---|---|---|---|
| Library | `libinfnoise.c` | `entropyThisTime`, `keccakBytesGiven`, the monitor, the sponge, the USB handle; the list of devices | `initInfnoise` with set-up and warmup, `readData`, `processBytes`, `deinitInfnoise`, `listUSBDevices` | the same promise to its reader as the driver; the warmup ends; every node of the list is freed once |
| Program | `infnoise.c`, `writeentropy.c` | options, `running`, the record for the pool | options, list of devices, the loop, signals, output, credit to the entropy pool | results fit their buffers; credit is earned; a signal ends it |
| Daemon | `daemon.c` | parent and child, pid file | fork, write of the pid | the child goes on as the program |
| Health checker | `healthcheck.c` | the monitor in floating point, its totals and runs | `inmHealthCheckAddBit` with its scalings, `inmClearEntropyLevel` | thresholds compared with `==` are met; faults and credit come when they should |
| Keccak-f[1600] | `Keccak/KeccakF-1600-reference.c` | lanes, generated tables | `KeccakInitialize`, absorb, extract, permutation | is Keccak-f[1600], and the same as the kernel's |
| Windows port | `infnoise_win.c` | globals of an older loop | | as the program |
| Examples, tools | `examples/`, `tools/` | `random-server.py`: a pool shared by a refill thread and web handlers | | a value is served once |

Boards, build scripts, packaging, plots and the dieharder scripts under `src/tests`
hold no logic of the program.

### What is hard to test here

`PROJECT.json` lists the hazards at their lines. The main groups: threads that
interleave around a completion, a mutex and flags that are read outside it; a
teardown that must wait for the right threads; an unreliable bus with retries that
leave samples behind in the chip; an error counter that outlives its transfer;
fixed-point arithmetic inside a loop that must end; lengths rounded to lanes and
packets; bytes of an earlier block handed out under the options of a later call;
thresholds compared with `==` beside early returns; tables copied by hand.

## 2. Modules

    InfnoiseHealth      kernel monitor, one extraction at a time  InfnoiseHealth_proofs
    InfnoiseTransfer    transfer, recovery, FT240X                InfnoiseTransfer_proofs
    InfnoiseSponge      infnoise_read_data                        InfnoiseSponge_proofs
    InfnoiseDriver      threads of the driver                     InfnoiseDriver_proofs
    RandomSource        what a source of whitened bytes promises
    LibInfnoise         libinfnoise.c                             \
    DeviceList          listUSBDevices and main's use of it        | InfnoiseTool_proofs
    InfnoiseTool        infnoise.c, daemon.c, writeentropy.c;     /
                        EXTENDS LibInfnoise and DeviceList
    HealthCheck         healthcheck.c                             HealthCheck_proofs
    Lanes               64-bit words and their operators
    KeccakKernel        infnoise_keccak.c, EXTENDS Lanes
    KeccakReference     KeccakF-1600-reference.c, EXTENDS Lanes
    Keccak              both sponges side by side: EXTENDS    Keccak_proofs
                        one, INSTANCE of the other
    MCDriver, MCKeccak  definitions and symmetry for TLC

A module is about one question and sees its neighbours through their outcomes:
`InfnoiseDriver` takes any outcome of a transfer that `InfnoiseTransfer` allows,
`InfnoiseTransfer` any verdict of the monitor, `InfnoiseSponge` any level of
entropy. `InfnoiseSponge` and `LibInfnoise` are both shown to implement
`RandomSource` by `INSTANCE ... WITH`.

In every module definitions whose name ends in `Mutant` are slips of the code that
no specification uses; they stand before the definition they would replace.

### InfnoiseHealth

State and names follow `struct infnoise_health`. `infnoise_health_add_bit` is cut
only at its `while`: `AddBit` (or `AddBitStuck`, its early return), `DoubleProb` for
each iteration, `FinishBit` for the rest with all the scalings. The four counter
arrays `ones_even`, `zeros_even`, `ones_odd`, `zeros_odd` are one function
`table[even][context][bit]`. `recent` is history. The misfire counters and
`infnoise_health_estimate_k` are left out (they are only reported), as is
`infnoise_health_reset`, which nothing calls.

### InfnoiseTransfer

One action for each thing the bus can do: a write in full, short or failing; a
packet read; an overflow; a failing read, perhaps with a packet lost; then the
extraction, the classes of errors of `infnoise_is_recoverable_error`, the recovery
with its six control transfers and the USB reset. The chip is external: a queue of
samples, packets that are always full or of any fill
(`gaps`, chosen by `Init`), and a mode that a reset clears. A sample is the index of the clock byte that made it, so
that a property can say whose samples a block holds. The counter of errors is
counted up to `Threshold + 1`, where the code stops telling values apart. `health_fail`
is the flag `INFNOISE_HEALTH_FAIL`: a fault of the monitor sets it (`ExtractFault`), and so
does a warmup that gives up (`WarmupFails`); nothing clears it, and readers that come later return
without a transfer.

### InfnoiseSponge and RandomSource

`infnoise_read_data` by the way it returns. The contents of the sponge are
abstracted to `shown` (extracted and not permuted since). `RandomSource` has a budget,
what was issued of it and whether the current state was shown.

### InfnoiseDriver

A location for each thread (`pc`), a step ending where another thread may act on
what was read. The mutex, the completion (`complete` leaves one wakeup,
`complete_all` wakeups for ever), signals and the registries of hwrng and character
devices are the kernel's and are marked external. A transfer is cut in two (start
and outcome), so that a disconnect falls into it. The worker is at "queued" until the
workqueue runs it (`WarmupStart`) and at "lock" while it waits for the mutex: `DisconnectCancel` takes it off
the queue in the first place and has to wait for it in the second, while a reader or an ioctl
holds the mutex. A file that survives the
disconnect and touches the freed device becomes `lost` (`TouchFreed`); the model
does not follow it further, since what it reads is undefined.

### LibInfnoise, DeviceList and InfnoiseTool

`readData` by the way it returns, with options that may change at each call;
`processBytes` with its clamp, its three modes and its 32-bit product.
`initInfnoise` sets the device up, a second time if the first failed, and reads until
the monitor is content. `lost` records that `ftdi_init` began anew over a handle
that was open. `DeviceList` has a step for each call and each return of the recursion
`inf_get_devstrings`, and for each turn of the loop in which `main` prints and frees.

`InfnoiseTool` composes them. A run of `infnoise` parses its options and the
environment (`Multiplier` keeps the choice that `-R` makes by itself), lists devices
or forks, initializes, and loops with fixed options over the two outputs and the
signals. A signal before the handlers are installed kills the process (status 143).
`credited` counts what the entropy pool was credited with, up to `CreditMax`; where
no property asks for it, `CreditMax` is 0. `program = "other"` is any program that links the
library and changes its options at every call.

### HealthCheck

`inmHealthCheckAddBit` in two actions, `Fault` for its early returns and `Learn`. It
differs from the kernel's where the code does: thresholds are tested with `==`, a fault
sets the count of its run back to zero, the verdict is computed for each halving and
not kept from the call before. The probability is a double that each call leaves
in (1/2, 1]; the model keeps the number of halvings `d` of a call instead. For a
frequency q of the sample these are the d with `q * 2^d > 1/2` and `q * 2^(d-1) < 1`, at most
two neighbours, and which of them it is depends on the mantissa no decision sees.
`MaxHalvings` is 14 with the code's `INM_MAX_COUNT` of 2^14: `HalvingAssumption` states
the relation, and the proof of `WindowFits` that no call halves more often. `PowerAssumption` is
no assumption about the code: it tells the provers, which know nothing of powers, that each is
twice the one before. `run` and `skipped` are history.

### Keccak

Words are sets of bit positions (`Lanes`), so that rotations, exclusive or and the
conversions between bytes and words are sets and no arithmetic of 64 bits. The
kernel's module has its tables as the code writes them, and the conversions of a
big-endian machine; the reference's has the generators, the shift register of the
round constants and the walk of the offsets, and a little-endian machine's view of the
bytes. `Keccak` gives both the same calls and takes a permutation step by step.
`BlockAssumption` says that a block is 64 bytes.

## 3. What TLC checks

| Run | Instance | Shows |
|---|---|---|
| `health` | tables of 2 contexts, 20 samples in blocks of 4, runs of 2 | `TypeOK`, `TableCapped`, `ProbPositive`, `NoEarlyCredit`, `StuckIffRun`, `EstimateFits` |
| `driver` | 2 files, 2 chunks per read, 2 warmup rounds | `TypeOK`, `MutualExclusion`, `DataOnlyAfterWarmup`, `DrainedBeforeFree`, `QualityMatches`, `NoNewReadAfterFail` |
| `driver_live` | 1 file, fair | `DisconnectEnds`, `WarmupEnds`, `SignalReturns` |
| `driver_wait` | 1 file, fair | violated: `WaitsOnlyForWarmup` |
| `driver_fatal` | 2 files | violated: `NoDataAfterFatal` |
| `transfer` | 3 samples in packets of 2, full or not, 3 attempts, threshold 5, fair | `TypeOK`, `ExactFromEmpty`, `DeafChipRemembered`, `RecoveryTried`; `BacklogDrains`, `TransferEnds`, `Heals` |
| `sponge` | four multipliers, three lengths | `TypeOK`, `StoredFits`; `ImplementsSource` |
| `tool` | eight multipliers, two of which wrap, three levels, both outputs, 3 devices, fair | `ToolTypeOK`, `StoredFits`, `PoolRecordFits`, `ListOwned`; `ImplementsSource`, `TerminateEnds` |
| `lib_warmup` | the library alone, five multipliers, fair | violated: `WarmupEnds` |
| `tool_credit` | as `tool`, 1 device | violated: `CreditEarned` |
| `uhealth` | tables of 2 contexts, 20 samples in blocks of 4, runs of 2 | `TypeOK`, `WindowFits`, `TotalsScaled`, `FaultPeriod`, `CreditInBlock` |
| `keccak` | 4 blocks, 3 calls, all 24 rounds of 1600 bits | `SameSponge`, `IsKeccak` |

### Bounds, and why they are enough

- `health`, `uhealth`: `MaxBits` lets five extractions run, so that the window is halved, a
  counter reaches `MaxCount`, the verdict becomes true, entropy is credited and a
  fault falls into a block, before and after each of these. `FpOne` and `MaxCount`
  keep the relation of the header, `4 * (MaxCount - 1) <= FpOne`, with equality;
  `MaxHalvings` and `MaxCount` of `uhealth` that of `HalvingAssumption`.
- `driver`: `Count = 2` has a read that continues after data; `WarmupRounds = 2` a
  warmup that fails once and succeeds, or fails for good; `MaxLeft = 1` a read served
  without a transfer. Two files make the competition for the one wakeup, the lock
  and the sponge.
- `transfer`: two packets per read with the second not full, as 512 samples in
  packets of 62 have (`SpareAssumption`), and status bytes that fill the buffer behind the last
  sample exactly (`TailAssumption`: 62 - 16 is even); the attempts and the threshold are the code's.
  `Capacity` is two writes, the queue the chip has beside a write in flight. The
  properties that need full packets say `~gaps`; the others hold of both chips.
- `sponge`, `tool`: the sizes are the code's (128, 64 and 32 bytes, lanes of 8).
  Multipliers give no chunk, a part of one, one, several, and one above the driver's
  cap; lengths need one or several squeezes, and one is no multiple of a lane.
  `Word` is 2^16 instead of 2^32: the products of 256 and 261 wrap, to nothing and to several chunks,
  as those of 2^24 and more do in the code. `MaxWarmup` is 2 or 3 instead of 5000; rounds
  are counted to one above it. Three devices have a first, an inner and a last node.
- `keccak`: nothing is cut but the calls. Blocks without a bit, with one bit at either
  end, and with one in each byte touch the edges of the 64 bytes absorbed; extractions
  of 1 and 16 lanes are the least and the largest the driver and the library make. A
  wrong table entry shows in the first rounds, since each step is compared.

### Fairness

`InfnoiseDriver`: a thread that can run does (weak fairness for each thread's
steps); the mutex is handed to everyone who keeps asking (strong fairness of the
lock steps: a kernel mutex queues its waiters); a transfer comes to an outcome. Nobody has
to open, read, close, unplug or signal, and no outcome is promised: a transfer may
fail each time. `InfnoiseTransfer`: a transfer that runs goes on, and somebody calls it
again (the hwrng core polls while it is registered) for as long as the device has not
failed: after that `infnoise_hwrng_read` and `infnoise_char_read` return without a transfer, so no
further call is promised. `Heals` therefore says that a good bus brings a clean transfer
unless the calls have ended with a failed device; the bus need not settle.
`LibInfnoise`: `initInfnoise` runs on until it returns. `InfnoiseTool`: so does the body of
the loop of `infnoise`; its waits return because a signal interrupts them (`sigaction`
without `SA_RESTART`), its transfers because libusb times them out.

## 4. What is proved

TLAPS checks, for all constants that satisfy the named `ASSUME`s:

- `InfnoiseHealth_proofs`: `TypeOK`, `TableCapped`, `ProbPositive`, `DoublingProgress`,
  `NoEarlyCredit`, `StuckIffRun`, `EstimateFits`. The inductive invariant adds to
  the type what makes the product of `Predicted` positive: the probability is above one
  half outside the loop, and a counter that is looked up lies below `MaxCount`, so that
  a frequency is at least `1 / (2 * (MaxCount - 1))` in fixed point. `FpAssumption` is
  exactly what this needs and what `infnoise.h` gives. `StuckIffRun` has an invariant of its own
  that ties each run counter to the tail of `recent`. For `EstimateFits`, inside the loop the
  doublings of the call are `d` with `2^d <= current_prob`, so there are at most `FP_SHIFT` of
  them, and halving an entropy that fits a full window makes it fit half of one
  (`ShiftAssumption`: `FP_ONE` is `2^FP_SHIFT`, `INM_MIN_DATA` is even).
- `InfnoiseDriver_proofs`: `TypeOK`, `MutualExclusion` (the holder of the lock is the
  thread at a location under it), `DrainedBeforeFree` (each stage of the disconnect
  fixes where the worker and the hwrng core can be), `DataOnlyAfterWarmup`,
  `QualityMatches` and `NoNewReadAfterFail`. `DataOnlyAfterWarmup`
  rests on an invariant about wakeups: while a wakeup is there, or a thread has
  passed the wait, either `WARMUP_DONE` or `HEALTH_FAIL` is set or `PRESENT` is gone, because the
  worker sets its verdict before it completes and disconnect clears `PRESENT` before
  it completes for all. `QualityMatches` holds since a call of the hwrng core reads the
  switch once, and only calls announce while calls are possible; `NoNewReadAfterFail` since
  nothing clears `HEALTH_FAIL`, which takes a lemma over every action.
  `DriverNoWaitCycle` says that nobody waits in a circle: a thread that waits for the warmup
  has rank 2, one that waits for the mutex rank 1, all others rank 0, and whom a thread waits for is
  of lower rank. It rests on `OwnerInv` (the mutex is free or its owner is inside the section it
  guards; the exception, a file on the freed device, is said) and `CompletionInv` (the worker never
  waits for the completion, and a disconnect past `complete_all` leaves nobody waiting for it).
  `DriverWarmupProgress` and `DriverSignalProgress` count steps: `WarmupLeft` of the worker,
  `CallLeft` of a call with a signal pending. No step of any thread raises them and each of the
  thread's own lowers them, but for the attempt of a transfer that is tried again after a fault, which
  this module does not count; `InfnoiseTransfer` does. `DriverDisconnectProgress` counts the
  stages disconnect has ahead of it and, while it cancels the worker or drains the hwrng core, the steps
  that thread has left (`WarmupLeft`, `RngLeft`). No stage hands more than `Stage` steps to the thread it waits
  for, so every step of any thread lowers `DisconnectLeft`, or moves neither disconnect nor that thread.
  The thread it waits for may itself wait for the mutex. The theorem's last part is about the
  owner then: each of its steps but such a retry takes it nearer to the unlock (`HeldOn`).
- `InfnoiseTransfer_proofs`: `TypeOK`, `RecoveryTried` and `DeafChipRemembered`, `ExactFromEmpty` and
  `BacklogDrains`. The invariant says of a chip out of bit-bang mode that its queue is empty, that
  a read from it holds status bytes alone (so `infnoise_extract_bytes` cannot pass it and clear the
  counter), that the counter stands at the threshold, and that a configuration under
  way has not reached its fourth step. The lemmas on the packet arithmetic (`ReadSize`, `DataIndexFits`,
  `StripFull`, `PacketIndex`) show for every packet size that a full read holds one write of samples.
  For the samples themselves, `PacketInv` says that while samples are queued the read so far is whole packets, each with
  `DataPerPacket` of them, and `SampleInv` that each sample of this write is in the buffer
  at its `DataIndex` or in the chip in order. A read of whole packets takes more than a
  write puts in, since the last packet is not full (`SpareAssumption`). `TransferProgress` counts the
  steps of a transfer: `Left` is a multiple of the length of one attempt for each attempt that is left,
  and what is left of this one; every outcome of the bus lowers it. `TransferHealing`
  counts the failures still to come once the bus is good and the chip fills its packets: a transfer that finds stale samples fails or
  leaves fewer, and each error brings the counter nearer to the recovery that purges the
  chip and sets its mode again. So `HealRank` is `Threshold` times the stale samples (cut at one more
  than a write) plus the errors left until a recovery, or one while the chip is deaf, and 0 when
  neither is left. With a transfer's worth of steps for each failure, every call and every step lowers `HealLeft`
  or completes a transfer that returns its own samples. This needs `TailAssumption`: without it a
  status pair may not fit behind the last sample, and clean reads end as overflows.
  `TransferCleanRead` says the same of one read: of a chip found empty, over a good bus, a clean
  read ends with its own samples and in no other way.
- `InfnoiseSponge_proofs`: `TypeOK`, `StoredFits` and `ImplementsSource`, from
  an invariant that bounds `keccak_bytes_left` by what the last block bought and says
  that the sponge was permuted after each squeeze. The refinement has one case per
  action: a read that absorbs is `Reseed`, one that squeezes is `Issue`, others are
  `Nothing` or stutter.
- `InfnoiseTool_proofs`: `ToolTypeOK`, `StoredFits`, `PoolRecordFits`, `ListOwned` and `ImplementsSource`, of
  the program and of any other that uses the library. The library's invariant bounds
  `keccakBytesGiven` by what the last block bought and lets a shown state stand only when
  nothing is left, so that the next read absorbs; the program's adds that the loop never
  has more than its fixed multiplier gives. `ListInv` says of the recursion that on the way
  down the nodes of all calls are chained, and that on the way back those of the calls still
  active are in memory, or all of them if the list is returned. `ImplementsSource` holds for
  every multiplier: a product that wraps gives a smaller budget, which is kept to. `WorthExact` says
  which those are. `ToolListProgress` has a measure for the recursion and the walk: that the
  chained nodes come in the order of their calls is why main's loop meets no node twice.
  `ToolStopsOnSignal` says that a program that got a signal has left the loop's head for good,
  is at most two steps from its exit and holds a context it can end.
- `HealthCheck_proofs`: `TypeOK`, `WindowFits`, `TotalsScaled`, `FaultPeriod`, `CreditInBlock`. The invariant
  ties the count of a run to the remainder of its true length by `MaxSequence + 1`, bounds the
  entropy of a block by its samples, and says that a total reaches
  the threshold from one below and is halved there unless a fault returned. `CheckSampleTaken`
  says that the loop over the probability ends: the least number of halvings that suffices is the
  one the code makes, and `HalvingAssumption` bounds it.
- `Keccak_proofs`: `SameSponge`, that the two implementations agree after every round of every call,
  for any blocks. Three things make it. The tables: the shift register of the round
  constants is followed call by call and the walk of the offsets step by step, with an explicit
  function as the witness of each recursive definition, so that the 24 constants and 25 offsets of
  the kernel are shown to be those the reference generates. The conversions: bytes and lanes are inverse
  to each other (`ConversionsAreInverse`), so the kernel's detour over words changes nothing. The steps: theta,
  rho, pi, chi and iota of both are equal as functions of the lanes. The inductive invariant is the type of
  the state, the tables, and equality of the two states at the same round. `NothingMerged` says that the permutation
  is total and injective on states and that absorbing keeps apart blocks and states, and
  `EveryChangeKept` that the state of the kernel changes in no other way. Chi is injective on the 32
  values of a row, rho and pi rotate and move lanes, iota adds a constant. Theta is the hard one: two
  states it merges differ in column parities with `p[x](b) = p[x+1](b-1) + p[x-1](b)`; applied to itself,
  such a law holds at twice the distance (`ColumnLawDoubles`), and at distance 64, once round a lane, it
  leaves only `p = {}` (`OnlyEvenColumns`). The rounds are chained by a least counterexample
  (`LeastOf`) instead of an induction over an operator.

Only model-checked:

- Liveness (`DisconnectEnds`, `WarmupEnds`, `SignalReturns`, `TransferEnds`, `Heals`, `TerminateEnds`), since
  liveness and ENABLED are out of the prover's reach. What can be said of it without fairness
  is proved, as a measure that falls or as waits that form no circle:

  | Checked by TLC | Proved for every instance |
  |---|---|
  | `TransferEnds` | `TransferProgress` |
  | `WarmupEnds` | `DriverWarmupProgress` |
  | `SignalReturns` | `DriverSignalProgress` |
  | `Heals` | `TransferHealing`, `TransferCleanRead` |
  | `DisconnectEnds` | `DriverNoWaitCycle`, `DriverDisconnectProgress` |
  | `TerminateEnds` | `ToolStopsOnSignal` |
- `IsKeccak`, which compares the first lane of the permuted zeros with the published one: a
  computation of 24 rounds on one state, which TLC carries out and the provers cannot.

## 5. Where the code and what is said of it part

Four are kept as runs that TLC refutes (`findings` of `PROJECT.json`):

- `complete(&dev->warmup_done)` wakes one waiter. Others that entered `read` before the
  warmup was over sleep on until a signal or the disconnect (`driver_wait`).
- A stuck fault is returned as `-EIO`, which is recoverable: the transfer is tried
  again and its data returned although `INFNOISE_HEALTH_FAIL` is set (`driver_fatal`).
- The warmup loop of `initInfnoise` tests its bound after the loop and ignores errors
  (`lib_warmup`).
- `outputBytes` credits `entropyThisTime` for every result, so an empty one, or the next
  chunk of the same block, is credited as well (`tool_credit`).

Others were met while modelling. They are visible in the models, but no run is
spent on them:

- `HEALTH_FAIL` set by a fault during the warmup is never cleared, so a warmup that
  goes on to succeed leaves a device that fails every read, while kernel/README.md:316
  calls such failures normal (`TransferFault`, then `WarmupVerdict`).
- `infnoise_disconnect` frees the device under files that are open (`TouchFreed`).
- Status bytes are stripped by position; when the chip sends a packet before it is
  full the following status bytes land in the data (`DataIndex` with `gaps`).
- The library answers a raw call from the sponge while bytes are left (`OutputMore`).
- `outputMultiplier * 256u` wraps from 2^24 on (`Worth`), which neither the options nor the
  library refuse: a block then gives less than the 256 bits for each unit of `libinfnoise.c`:330, and
  nothing at all for multiples of 2^24 (`WorthExact`).
- The pool's record has 64 bytes and results have 128 with `-R -m 3` or more:
  `PoolRecordFits` is stated for the options that avoid this.
- A comment of the userspace checker says "Check for this, and scale the stats if needed"
  (`healthcheck.c`:130); a fault on the very sample that brings a total to the threshold
  returns before the test, and the `==` never finds that total again (`skipped`, `TotalsScaled`).
- When `initializeUSB` fails after the device was opened, the second attempt begins with
  `ftdi_init` over the open handle (`lost`).
- The parent of a daemon exits 0 though the child's `initInfnoise` may fail, and 1 when the
  pid file cannot be written, while the child runs on; in the foreground that failure
  goes unnoticed (`ParentExits`, `Foreground`).
- `libinfnoise.h` says of `initInfnoise` that it returns 0 on success; it returns `true`.
- A context from `initInfnoise` with `keccak` false must only be read raw: `KeccakInitialize`
  was not called. The models take this as a condition on the caller.

## 6. What is not modelled, and why

- The monitors: misfire counters, `estimate_k`, statistics and debug output, which no
  decision reads; `infnoise_health_reset`, which nothing calls.
- What `usb_reset_device` does to a driver without `pre_reset` and `post_reset`, called
  under `dev->lock`: the USB core decides it, and a model would assume the answer. A
  composition of `InfnoiseDriver` with `InfnoiseTransfer` would turn on it; each of them takes
  every outcome the other allows instead.
- A file used after the device was freed (`TouchFreed`), beyond the fact that it happens.
- The forced reseed, the waiting time of the pool and the outputs of BSD and macOS:
  they change no state of the program. A `--feed-frequency` large enough makes the
  timeout of `poll` negative, an endless wait that a signal still ends.
- The Windows port (`infnoise_win.c`): an older copy of the loop that calls functions with
  the arguments they had then (`inmHealthCheckAddBit` without its state), never calls
  `KeccakInitialize`, and is in no Makefile.
- `random-server.py`: an example beside the program. Its handlers set the slot they served to
  `None` and lower the fill mark; the refill thread appends behind those slots and reverses the
  list, so that they come to lie below the new mark and are served, though the
  page promises 8192 bytes; the first slot is never served and the list only grows. Handlers and
  the refill thread also read and lower the mark in separate steps.
- Single-pass tools, scripts, board files: no state worth checking. Whether the samples
  are random is not a question for these models: they take any sample the hardware
  could deliver.
