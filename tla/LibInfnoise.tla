----------------------------- MODULE LibInfnoise -----------------------------
(***************************************************************************)
(* The userspace library (libinfnoise.c): initInfnoise with the set-up of  *)
(* the USB device and the warmup, then readData and processBytes, called   *)
(* one at a time on a context with whatever options the program chooses    *)
(* for each call.                                                          *)
(*                                                                         *)
(* What a transfer brings is an outcome: an error, samples that took too   *)
(* long, a fault the monitor finds, or a block with an entropy level and   *)
(* the verdict of inmHealthCheckOkToUseData after it.                      *)
(***************************************************************************)
EXTENDS Integers

CONSTANTS
    Multipliers,    \* values of outputMultiplier
    Word,           \* numbers a uint32_t has
    Levels,         \* entropy levels, in bits, a block can have
    Target,         \* least level for which inmEntropyOnTarget holds
    Provable,       \* expectedEntropyPerBit * BUFLEN / INM_ACCURACY, as uint32_t
    ChunkMax,       \* bytes of one squeeze
    MaxWarmup       \* maxWarmupRounds

ASSUME LibAssumption ==
    /\ Multipliers \subseteq Nat /\ Word \in Nat \ {0}
    /\ Levels \subseteq Nat /\ Target \in Nat /\ MaxWarmup \in Nat
    /\ Provable \in 0..512
    /\ ChunkMax \in 64..128 /\ ChunkMax % 8 = 0

VARIABLES
    phase,               \* "start", "usb", "warmup", "ready" or "over"
    attempts,            \* calls of initializeUSB that failed
    usb,                 \* of ftdic: "closed", "open", or "ready" once it was tested
    lost,                \* a handle that was open when ftdi_init began anew
    warmupRounds,        \* counted up to MaxWarmup + 1
    ok,                  \* inmHealthCheckOkToUseData would return true
    entropyThisTime,
    keccakBytesGiven,
    shown,               \* the sponge was extracted and not permuted since
    rc,                  \* what the last readData returned
    attached,            \* the device is plugged in
    \* history
    whitened,            \* of rc, bytes that came from the sponge
    stored,              \* bytes the last extraction stored
    bought,              \* bytes the last absorbed block is worth
    worth                \* entropy of the last block that was processed

context == <<ok, entropyThisTime, keccakBytesGiven, shown, rc, whitened, stored,
             bought, worth>>
device  == <<attempts, usb, lost>>
libvars == <<phase, warmupRounds, context, device, attached>>

Least(a, b) == IF a <= b THEN a ELSE b

\* Room the caller provides: 64 bytes, 128 in multiplier mode (infnoise.c, libinfnoise.h).
ResultSize(raw, m) == IF m <= 2 \/ raw THEN 64 ELSE 128

BlockBytes == 64   \* BUFLEN / 8

USB_WRITE == -1
USB_READ  == -2
HEALTH    == -3

Init ==
    /\ phase = "start" /\ warmupRounds = 0 /\ ok = FALSE
    /\ attempts = 0 /\ usb = "closed" /\ lost = FALSE
    /\ entropyThisTime = 0 /\ keccakBytesGiven = 0
    /\ shown = FALSE /\ rc = 0 /\ attached = TRUE
    /\ whitened = 0 /\ stored = 0 /\ bought = 0 /\ worth = 0

-----------------------------------------------------------------------------
\* Definitions named ...Mutant are slips a change of the code could make.  No
\* specification uses them: putting one in the place of the definition it precedes
\* shows which property would notice.

\* readData, by the way it returns.

Collects == keccakBytesGiven = 0

\* Nothing is handed out and nothing absorbed.
Returns(code) ==
    /\ rc' = code /\ whitened' = 0 /\ stored' = 0
    /\ UNCHANGED <<keccakBytesGiven, shown, bought, worth>>

UsbError ==
    /\ Collects
    /\ \E code \in {USB_WRITE, USB_READ} : Returns(code)
    /\ UNCHANGED <<ok, entropyThisTime>>

\* The samples took more than MAX_MICROSEC_FOR_SAMPLES.
TooLate ==
    /\ Collects /\ attached
    /\ Returns(0)
    /\ UNCHANGED <<ok, entropyThisTime>>

\* extractBytes fails on a run of equal bits, having fed samples to the monitor.
HealthFault ==
    /\ Collects /\ attached
    /\ Returns(HEALTH)
    /\ ok' \in BOOLEAN
    /\ UNCHANGED entropyThisTime

\* The block is extracted; the monitor says whether it may be used.
Extracted(e) ==
    /\ Collects /\ attached
    /\ e \in Levels /\ ok' \in BOOLEAN

NotUsable(e) ==
    /\ Extracted(e) /\ ~(ok' /\ e >= Target)
    /\ entropyThisTime' = e
    /\ Returns(0)

\* processBytes: no more entropy than the lower bound that can be proved.
ClampedMutant(e) == e
Clamped(e) == Least(e, Provable)

Usable(e) ==
    /\ Extracted(e) /\ ok' /\ e >= Target
    /\ entropyThisTime' = Clamped(e)
    /\ worth' = Clamped(e)

RawBlock(raw) ==
    /\ raw
    /\ \E e \in Levels : Usable(e)
    /\ rc' = BlockBytes /\ whitened' = 0 /\ stored' = BlockBytes
    /\ UNCHANGED <<keccakBytesGiven, shown, bought>>

\* All the entropy of the block, in whole lanes; the permutation is left to the next
\* absorption.
OutputEntropy(raw, m) ==
    /\ ~raw /\ m = 0
    /\ \E e \in Levels : Usable(e)
    /\ rc' = entropyThisTime' \div 8 /\ whitened' = rc'
    /\ stored' = ((entropyThisTime' + 63) \div 64) * 8
    /\ bought' = rc'
    /\ shown' = TRUE
    /\ UNCHANGED keccakBytesGiven

\* 256 bits for each unit of the multiplier, computed in a uint32_t: the product wraps
\* from 2^24 on, and the program takes every multiplier an int holds.
Worth(m) == ((m * 256) % Word) \div 8

\* One chunk of the bytes given by the last block.
ChunkMutant(given) ==
    LET bytesToWrite == Least(ChunkMax, given)
    IN  /\ keccakBytesGiven' = given - bytesToWrite
        /\ rc' = bytesToWrite /\ whitened' = bytesToWrite
        /\ stored' = (bytesToWrite \div 8) * 8
        /\ shown' = TRUE

ChunkWholeMutant(given) ==
    /\ keccakBytesGiven' = given - ChunkMax
    /\ rc' = ChunkMax /\ whitened' = ChunkMax
    /\ stored' = ChunkMax
    /\ shown' = FALSE

ChunkPaddedMutant(given) ==
    /\ keccakBytesGiven' = given - Least(ChunkMax, given)
    /\ rc' = ChunkMax /\ whitened' = Least(ChunkMax, given)
    /\ stored' = ChunkMax
    /\ shown' = FALSE

Chunk(given) ==
    LET bytesToWrite == Least(ChunkMax, given)
    IN  /\ keccakBytesGiven' = given - bytesToWrite
        /\ rc' = bytesToWrite /\ whitened' = bytesToWrite
        /\ stored' = (bytesToWrite \div 8) * 8
        /\ shown' = FALSE

OutputFirst(raw, m) ==
    /\ ~raw /\ m > 0
    /\ \E e \in Levels : Usable(e)
    /\ Chunk(Worth(m))
    /\ bought' = Worth(m)

\* Bytes are left from an earlier call: its options are what counts, not those of
\* this one.
OutputMore ==
    /\ keccakBytesGiven > 0
    /\ Chunk(keccakBytesGiven)
    /\ UNCHANGED <<ok, entropyThisTime, bought, worth>>

readData(raw, m) ==
    \/ UsbError \/ TooLate \/ HealthFault
    \/ \E e \in Levels : NotUsable(e)
    \/ RawBlock(raw) \/ OutputEntropy(raw, m) \/ OutputFirst(raw, m)
    \/ OutputMore

-----------------------------------------------------------------------------
\* initInfnoise: the tables of the monitor may not fit the memory,
HealthStart ==
    /\ phase = "start"
    /\ phase' \in {"usb", "over"}
    /\ UNCHANGED <<warmupRounds, context, device, attached>>

\* and ftdi_init at the head of initializeUSB forgets a handle that is still open.
FtdiInit == lost' = (lost \/ usb # "closed")

\* The device is found and opened, its baud rate and mode are set, and 64 bytes are
\* written and read back;
InitializeUSB ==
    /\ phase = "usb" /\ attached
    /\ FtdiInit /\ usb' = "ready"
    /\ phase' = "warmup"
    /\ UNCHANGED <<attempts, warmupRounds, context, attached>>

\* or a step fails, before or after the open, and initInfnoise calls once more.
InitializeUSBFails ==
    /\ phase = "usb"
    /\ FtdiInit
    /\ usb' = "closed" \/ (attached /\ usb' = "open")
    /\ attempts' = attempts + 1
    /\ phase' = IF attempts = 0 THEN "usb" ELSE "over"
    /\ UNCHANGED <<warmupRounds, context, attached>>

\* Raw blocks are read until the monitor is satisfied, whatever readData returns; the
\* number of rounds is looked at afterwards.
WarmupRound ==
    /\ phase = "warmup" /\ ~ok
    /\ readData(TRUE, 1)
    /\ warmupRounds' = Least(warmupRounds + 1, MaxWarmup + 1)
    /\ UNCHANGED <<phase, device, attached>>

WarmupDone ==
    /\ phase = "warmup" /\ ok
    /\ phase' = IF warmupRounds > MaxWarmup THEN "over" ELSE "ready"
    /\ UNCHANGED <<warmupRounds, context, device, attached>>

initInfnoise ==
    HealthStart \/ InitializeUSB \/ InitializeUSBFails \/ WarmupRound \/ WarmupDone

\* The program reads, with options of its choice.
Call(raw, m) ==
    /\ phase = "ready"
    /\ readData(raw, m)
    /\ UNCHANGED <<phase, warmupRounds, device, attached>>

\* deinitInfnoise.
deinitInfnoise ==
    /\ phase = "ready"
    /\ phase' = "over" /\ usb' = "closed"
    /\ UNCHANGED <<attempts, lost, warmupRounds, context, attached>>

Unplug ==
    /\ attached /\ attached' = FALSE
    /\ UNCHANGED <<phase, warmupRounds, context, device>>

Over ==
    /\ phase = "over"
    /\ UNCHANGED libvars

Next ==
    \/ initInfnoise \/ deinitInfnoise
    \/ \E raw \in BOOLEAN, m \in Multipliers : Call(raw, m)
    \/ Unplug \/ Over

Spec == Init /\ [][Next]_libvars

\* initInfnoise runs on until it returns.
FairSpec == Spec /\ WF_libvars(initInfnoise)

-----------------------------------------------------------------------------
\* Every variable has its type.
TypeOK ==
    /\ phase \in {"start", "usb", "warmup", "ready", "over"}
    /\ attempts \in 0..2 /\ usb \in {"closed", "open", "ready"} /\ lost \in BOOLEAN
    /\ warmupRounds \in 0..(MaxWarmup + 1)
    /\ ok \in BOOLEAN /\ shown \in BOOLEAN /\ attached \in BOOLEAN
    /\ entropyThisTime \in Nat /\ keccakBytesGiven \in 0..(Word - 1)
    /\ rc \in Nat \cup {USB_WRITE, USB_READ, HEALTH}
    /\ whitened \in Nat /\ stored \in Nat /\ bought \in Nat /\ worth \in Nat

\* The library keeps the promise of a random source, though the options change from
\* one call to the next while bytes are left.
Source == INSTANCE RandomSource WITH
    Budgets  <- {Least(e, Provable) \div 8 : e \in Levels} \cup {Worth(m) : m \in Multipliers},
    budget   <- bought,
    issued   <- bought - keccakBytesGiven,
    returned <- whitened

ImplementsSource == Source!Spec

-----------------------------------------------------------------------------
\* "Unable to collect enough entropy to initialize health checker." (line 73):
\* initInfnoise comes to an end.
WarmupEnds == phase = "warmup" ~> phase # "warmup"
=============================================================================
