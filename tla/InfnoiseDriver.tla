--------------------------- MODULE InfnoiseDriver ---------------------------
(***************************************************************************)
(* The threads of the kernel driver (kernel/infnoise_main.c) around one    *)
(* device: the warmup worker, the hwrng core's reader, processes that hold *)
(* /dev/infnoiseX open, and the USB core that probes and disconnects.      *)
(*                                                                         *)
(* They share the flag word, the warmup completion, the device mutex, the  *)
(* raw switch and the device structure itself, which disconnect frees.  A  *)
(* transfer is reduced here to its outcomes (InfnoiseTransfer has its      *)
(* retries, InfnoiseHealth its verdicts); everything around it is kept     *)
(* step by step, a step ending where another thread may act on what it     *)
(* read.  A read of count bytes is Count calls of infnoise_read_data.      *)
(***************************************************************************)
EXTENDS Integers, FiniteSets

CONSTANTS
    Readers,        \* processes, each with its own open file
    Count,          \* chunks one read() asks for (bound of the model)
    WarmupRounds,   \* INFNOISE_WARMUP_ROUNDS
    MaxLeft,        \* chunks one absorption leaves in the sponge (multiplier)
    NoThread

Worker == "warmup work"
Rng    == "hwrng core"
Users  == Readers \cup {Worker, Rng}

ASSUME ThreadAssumption ==
    /\ Worker \notin Readers /\ Rng \notin Readers
    /\ NoThread \notin Users
ASSUME BoundAssumption ==
    Count \in Nat \ {0} /\ WarmupRounds \in Nat \ {0} /\ MaxLeft \in Nat

VARIABLES
    flags,        \* subset of the bits of enum infnoise_flags
    warmup_done,  \* the completion: 0, 1, ... wakeups left, or All
    lock,         \* owner of dev->lock
    healthy,      \* what infnoise_health_ok would return
    left,         \* keccak_bytes_left, in chunks
    raw_mode,     \* dev->raw_mode or the module parameter
    quality,      \* hwrng.quality is the raw one
    pc,           \* where each thread is
    ret,          \* what the thread's last infnoise_read_data returned
    raw,          \* the "raw" argument of that call
    got,          \* total: chunks this read() has copied out
    nonblock,     \* O_NONBLOCK of the open file
    signal,       \* a signal is pending
    rounds,       \* rounds of the warmup loop
    usb,          \* where probe or disconnect is
    char_reg,     \* the minor is registered: open finds the device
    rng_reg,      \* the hwrng core may start a read
    freed,        \* kfree(dev) has happened
    late          \* history: HEALTH_FAIL was set when this read() began

vars == <<flags, warmup_done, lock, healthy, left, raw_mode, quality, pc, ret, raw,
          got, nonblock, signal, rounds, usb, char_reg, rng_reg, freed, late>>

Flags == {"PRESENT", "WARMUP_DONE", "HWRNG_REG", "HEALTH_FAIL"}
All   == -1     \* complete_all: every wait passes from now on

-----------------------------------------------------------------------------
Init ==
    /\ flags = {} /\ warmup_done = 0 /\ lock = NoThread
    /\ healthy = FALSE /\ left = 0
    /\ raw_mode = FALSE /\ quality = FALSE
    /\ pc = [t \in Users |-> IF t = Worker THEN "none" ELSE IF t = Rng THEN "idle" ELSE "closed"]
    /\ ret = [t \in Users |-> "none"]
    /\ raw = [t \in Users |-> t = Worker]
    /\ got = [r \in Readers |-> 0]
    /\ nonblock = [r \in Readers |-> FALSE]
    /\ signal = [r \in Readers |-> FALSE]
    /\ rounds = 0
    /\ usb = "probe" /\ char_reg = FALSE /\ rng_reg = FALSE /\ freed = FALSE
    /\ late = [t \in Users |-> FALSE]

Goto(t, where) == pc' = [pc EXCEPT ![t] = where]

\* What infnoise_read_data returns; the warmup does not look at it.
Return(t, what) == ret' = IF t = Worker THEN ret ELSE [ret EXCEPT ![t] = what]

\* The locals of a call end with it.
Forget(t) ==
    /\ ret' = [ret EXCEPT ![t] = "none"]
    /\ raw' = [raw EXCEPT ![t] = FALSE]
    /\ late' = [late EXCEPT ![t] = FALSE]

usbVars  == <<usb, char_reg, rng_reg, freed>>
argVars  == <<raw, got, nonblock, late>>
callVars == <<ret, raw, got, nonblock, late>>
devVars  == <<healthy, left>>

-----------------------------------------------------------------------------
\* The mutex and the completion, as the kernel provides them.
Acquire(t) == lock = NoThread /\ lock' = t
Release(t) == lock' = NoThread

\* wait_for_completion: takes one wakeup, unless there are wakeups for all.
Wait(t) ==
    /\ warmup_done # 0
    /\ warmup_done' = IF warmup_done = All THEN All ELSE warmup_done - 1

-----------------------------------------------------------------------------
\* Definitions named ...Mutant are slips a change of the driver could make.  No
\* specification uses them: putting one in the place of the definition it precedes
\* shows which property would notice.

\* infnoise_read_data, called with dev->lock held by every thread but probe.
AfterRead(t) == IF t = Worker THEN "test" ELSE "unlock"

\* The device went away before this call.
DataGone(t) ==
    /\ pc[t] = "data" /\ "PRESENT" \notin flags
    /\ Return(t, "error") /\ Goto(t, AfterRead(t))
    /\ UNCHANGED <<flags, warmup_done, lock, devVars, raw_mode, quality, argVars,
                   signal, rounds, usbVars>>

\* Bytes of an earlier absorption are squeezed without a transfer.
DataSqueeze(t) ==
    /\ pc[t] = "data" /\ "PRESENT" \in flags
    /\ left > 0 /\ ~raw[t]
    /\ left' = left - 1
    /\ Return(t, "data") /\ Goto(t, AfterRead(t))
    /\ UNCHANGED <<flags, warmup_done, lock, healthy, raw_mode, quality, argVars,
                   signal, rounds, usbVars>>

DataTransfer(t) ==
    /\ pc[t] = "data" /\ "PRESENT" \in flags
    /\ left = 0 \/ raw[t]
    /\ Goto(t, "transfer")
    /\ UNCHANGED <<flags, warmup_done, lock, devVars, raw_mode, quality,
                   callVars, signal, rounds, usbVars>>

\* One attempt of the transfer met a stuck fault: the flag is set at once, and
\* the -EIO is one of the errors that are tried again.
TransferFault(t) ==
    /\ pc[t] = "transfer"
    /\ flags' = flags \cup {"HEALTH_FAIL"}
    /\ healthy' \in BOOLEAN
    /\ UNCHANGED <<warmup_done, lock, left, raw_mode, quality, pc, callVars,
                   signal, rounds, usbVars>>

\* The transfer failed for good.
TransferError(t) ==
    /\ pc[t] = "transfer"
    /\ healthy' \in BOOLEAN
    /\ Return(t, "error") /\ Goto(t, AfterRead(t))
    /\ UNCHANGED <<flags, warmup_done, lock, left, raw_mode, quality, argVars,
                   signal, rounds, usbVars>>

\* The transfer succeeded; its bytes are discarded when the monitor is not
\* content or the entropy is below target, returned or absorbed otherwise.
TransferDone(t) ==
    /\ pc[t] = "transfer"
    /\ healthy' \in BOOLEAN
    /\ \E onTarget \in BOOLEAN :
          IF healthy' /\ onTarget
          THEN /\ Return(t, "data")
               /\ IF raw[t] THEN left' = left ELSE left' \in 0..MaxLeft
          ELSE /\ Return(t, "nothing")
               /\ left' = left
    /\ Goto(t, AfterRead(t))
    /\ UNCHANGED <<flags, warmup_done, lock, raw_mode, quality, argVars, signal,
                   rounds, usbVars>>

ReadData(t) ==
    \/ DataGone(t) \/ DataSqueeze(t) \/ DataTransfer(t)
    \/ TransferFault(t) \/ TransferError(t) \/ TransferDone(t)

\* The steps of ReadData that bring the call nearer to its return.
ReadDataEnds(t) ==
    \/ DataGone(t) \/ DataSqueeze(t) \/ DataTransfer(t)
    \/ TransferError(t) \/ TransferDone(t)

-----------------------------------------------------------------------------
\* infnoise_warmup_work.  The workqueue runs the work: from here on it can only be
\* waited for, also while it waits for the mutex.
WarmupStart ==
    /\ pc[Worker] = "queued"
    /\ Goto(Worker, "lock")
    /\ UNCHANGED <<flags, warmup_done, lock, devVars, raw_mode, quality, callVars,
                   signal, rounds, usbVars>>

\* One lock for the whole loop.
WarmupLock ==
    /\ pc[Worker] = "lock"
    /\ Acquire(Worker) /\ Goto(Worker, "test")
    /\ UNCHANGED <<flags, warmup_done, devVars, raw_mode, quality, callVars,
                   signal, rounds, usbVars>>

WarmupRoundUnboundedMutant ==
    /\ pc[Worker] = "test"
    /\ ~healthy /\ "PRESENT" \in flags
    /\ rounds' = rounds + 1
    /\ Goto(Worker, "data")
    /\ UNCHANGED <<flags, warmup_done, lock, devVars, raw_mode, quality,
                   callVars, signal, usbVars>>

WarmupRoundUncountedMutant ==
    /\ pc[Worker] = "test"
    /\ ~healthy /\ rounds < WarmupRounds /\ "PRESENT" \in flags
    /\ rounds' = rounds
    /\ Goto(Worker, "data")
    /\ UNCHANGED <<flags, warmup_done, lock, devVars, raw_mode, quality,
                   callVars, signal, usbVars>>

WarmupRound ==
    /\ pc[Worker] = "test"
    /\ ~healthy /\ rounds < WarmupRounds /\ "PRESENT" \in flags
    /\ rounds' = rounds + 1
    /\ Goto(Worker, "data")
    /\ UNCHANGED <<flags, warmup_done, lock, devVars, raw_mode, quality,
                   callVars, signal, usbVars>>

WarmupUnlock ==
    /\ pc[Worker] = "test"
    /\ healthy \/ rounds >= WarmupRounds \/ "PRESENT" \notin flags
    /\ Release(Worker) /\ Goto(Worker, "verdict")
    /\ UNCHANGED <<flags, warmup_done, devVars, raw_mode, quality, callVars,
                   signal, rounds, usbVars>>

\* Disconnected meanwhile: nobody is told.
WarmupAbandon ==
    /\ pc[Worker] = "verdict" /\ "PRESENT" \notin flags
    /\ Goto(Worker, "done")
    /\ UNCHANGED <<flags, warmup_done, lock, devVars, raw_mode, quality,
                   callVars, signal, rounds, usbVars>>

\* The test of PRESENT and the set_bit are two steps of the code: a disconnect
\* may come between.
WarmupJudge ==
    /\ pc[Worker] = "verdict" /\ "PRESENT" \in flags
    /\ Goto(Worker, "set")
    /\ UNCHANGED <<flags, warmup_done, lock, devVars, raw_mode, quality,
                   callVars, signal, rounds, usbVars>>

WarmupVerdict ==
    /\ pc[Worker] = "set"
    /\ flags' = flags \cup {IF rounds >= WarmupRounds THEN "HEALTH_FAIL" ELSE "WARMUP_DONE"}
    /\ Goto(Worker, "complete")
    /\ UNCHANGED <<warmup_done, lock, devVars, raw_mode, quality, callVars,
                   signal, rounds, usbVars>>

\* complete(): one wakeup, nothing to add once there are wakeups for all.
WarmupComplete ==
    /\ pc[Worker] = "complete"
    /\ warmup_done' = IF warmup_done = All THEN All ELSE warmup_done + 1
    /\ Goto(Worker, "done")
    /\ UNCHANGED <<flags, lock, devVars, raw_mode, quality, callVars, signal,
                   rounds, usbVars>>

WorkerStep ==
    \/ WarmupStart \/ WarmupLock \/ WarmupRound \/ WarmupUnlock
    \/ WarmupAbandon \/ WarmupJudge \/ WarmupVerdict \/ WarmupComplete

-----------------------------------------------------------------------------
\* infnoise_hwrng_read.  The hwrng core runs one at a time and starts none once
\* hwrng_unregister was called.
RngCall(wait) ==
    /\ pc[Rng] = "idle" /\ rng_reg /\ "PRESENT" \in flags
    /\ raw' = [raw EXCEPT ![Rng] = raw_mode]
    /\ quality' = raw_mode
    /\ late' = [late EXCEPT ![Rng] = "HEALTH_FAIL" \in flags]
    /\ Goto(Rng, IF wait /\ "WARMUP_DONE" \notin flags THEN "wait" ELSE "check")
    /\ UNCHANGED <<flags, warmup_done, lock, devVars, raw_mode, ret, got, nonblock,
                   signal, rounds, usbVars>>

RngWake ==
    /\ pc[Rng] = "wait" /\ Wait(Rng)
    /\ Goto(Rng, "check")
    /\ UNCHANGED <<flags, lock, devVars, raw_mode, quality, callVars, signal,
                   rounds, usbVars>>

\* Whoever reads /dev/hwrng got a signal.
RngInterrupted ==
    /\ pc[Rng] = "wait"
    /\ Goto(Rng, "idle") /\ Forget(Rng)
    /\ UNCHANGED <<flags, warmup_done, lock, devVars, raw_mode, quality, got, nonblock,
                   signal, rounds, usbVars>>

\* Not warmed up, or failed: nothing is read.
RngRefuse ==
    /\ pc[Rng] = "check"
    /\ "WARMUP_DONE" \notin flags \/ "HEALTH_FAIL" \in flags
    /\ Goto(Rng, "idle") /\ Forget(Rng)
    /\ UNCHANGED <<flags, warmup_done, lock, devVars, raw_mode, quality, got, nonblock,
                   signal, rounds, usbVars>>

RngCheck ==
    /\ pc[Rng] = "check"
    /\ "WARMUP_DONE" \in flags /\ "HEALTH_FAIL" \notin flags
    /\ Goto(Rng, "lock")
    /\ UNCHANGED <<flags, warmup_done, lock, devVars, raw_mode, quality, callVars,
                   signal, rounds, usbVars>>

RngLockMutant ==
    /\ pc[Rng] = "lock" /\ Acquire(Rng)
    /\ Goto(Rng, "data")
    /\ raw' = [raw EXCEPT ![Rng] = raw_mode]
    /\ UNCHANGED <<flags, warmup_done, devVars, raw_mode, quality, ret, got, nonblock, late,
                   signal, rounds, usbVars>>

RngLock ==
    /\ pc[Rng] = "lock" /\ Acquire(Rng)
    /\ Goto(Rng, "data")
    /\ UNCHANGED <<flags, warmup_done, devVars, raw_mode, quality, callVars,
                   signal, rounds, usbVars>>

RngUnlock ==
    /\ pc[Rng] = "unlock" /\ Release(Rng)
    /\ Goto(Rng, "idle") /\ Forget(Rng)
    /\ UNCHANGED <<flags, warmup_done, devVars, raw_mode, quality, got, nonblock,
                   signal, rounds, usbVars>>

RngStep == RngWake \/ RngRefuse \/ RngCheck \/ RngUnlock

-----------------------------------------------------------------------------
\* Files of /dev/infnoiseX.  Every step of a call dereferences the device: on a
\* freed one it is TouchFreed instead.
ReaderAt(r, where) == pc[r] = where /\ ~freed

\* infnoise_open: usb_find_interface, the interface data and PRESENT.
Open(r) ==
    /\ pc[r] = "closed" /\ char_reg /\ "PRESENT" \in flags
    /\ nonblock' \in {[nonblock EXCEPT ![r] = b] : b \in BOOLEAN}
    /\ Goto(r, "open")
    /\ UNCHANGED <<flags, warmup_done, lock, devVars, raw_mode, quality, ret, raw,
                   got, late, signal, rounds, usbVars>>

Close(r) ==
    /\ pc[r] = "open"
    /\ Goto(r, "closed")
    /\ nonblock' = [nonblock EXCEPT ![r] = FALSE]
    /\ UNCHANGED <<flags, warmup_done, lock, devVars, raw_mode, quality, ret, raw,
                   got, late, signal, rounds, usbVars>>

\* The end of a read(), with or without data: a signal is delivered now at the
\* latest.
Leave(r) ==
    /\ Goto(r, "open") /\ Forget(r)
    /\ got' = [got EXCEPT ![r] = 0]
    /\ signal' = [signal EXCEPT ![r] = FALSE]

\* infnoise_char_read is entered; O_NONBLOCK before the end of warmup is -EAGAIN.
ReadCall(r) ==
    /\ ReaderAt(r, "open")
    /\ nonblock[r] => "WARMUP_DONE" \in flags
    /\ got' = [got EXCEPT ![r] = 0]
    /\ late' = [late EXCEPT ![r] = "HEALTH_FAIL" \in flags]
    /\ Goto(r, IF "WARMUP_DONE" \in flags THEN "check" ELSE "wait")
    /\ UNCHANGED <<flags, warmup_done, lock, devVars, raw_mode, quality, ret, raw,
                   nonblock, signal, rounds, usbVars>>

ReadWake(r) ==
    /\ ReaderAt(r, "wait") /\ Wait(r)
    /\ Goto(r, "check")
    /\ UNCHANGED <<flags, lock, devVars, raw_mode, quality, callVars, signal,
                   rounds, usbVars>>

ReadInterrupted(r) ==
    /\ ReaderAt(r, "wait") /\ signal[r]
    /\ Leave(r)
    /\ UNCHANGED <<flags, warmup_done, lock, devVars, raw_mode, quality,
                   nonblock, rounds, usbVars>>

\* HEALTH_FAIL is looked at once for the whole read.
ReadCheckFailed(r) ==
    /\ ReaderAt(r, "check") /\ "HEALTH_FAIL" \in flags
    /\ Leave(r)
    /\ UNCHANGED <<flags, warmup_done, lock, devVars, raw_mode, quality,
                   nonblock, rounds, usbVars>>

ReadCheckMutant(r) ==
    /\ ReaderAt(r, "check")
    /\ Goto(r, "lock")
    /\ UNCHANGED <<flags, warmup_done, lock, devVars, raw_mode, quality,
                   callVars, signal, rounds, usbVars>>

ReadCheck(r) ==
    /\ ReaderAt(r, "check") /\ "HEALTH_FAIL" \notin flags
    /\ Goto(r, "lock")
    /\ UNCHANGED <<flags, warmup_done, lock, devVars, raw_mode, quality,
                   callVars, signal, rounds, usbVars>>

ReadLock(r) ==
    /\ ReaderAt(r, "lock") /\ Acquire(r)
    /\ raw' = [raw EXCEPT ![r] = raw_mode]
    /\ Goto(r, "data")
    /\ UNCHANGED <<flags, warmup_done, devVars, raw_mode, quality, ret, got,
                   nonblock, late, signal, rounds, usbVars>>

ReadDataStep(r) == ~freed /\ ReadData(r)

\* After the unlock: an error, or data enough, or nothing while some data was
\* copied before or O_NONBLOCK, end the read.
ReadEnds(r) ==
    \/ ret[r] = "error"
    \/ ret[r] = "nothing" /\ (got[r] > 0 \/ nonblock[r])
    \/ ret[r] = "data" /\ got[r] + 1 = Count

\* copy_to_user may fail: -EFAULT, whatever was copied before.
ReadFaults(r) == ret[r] = "data"

ReadUnlockLast(r) ==
    /\ ReaderAt(r, "unlock") /\ Release(r)
    /\ ReadEnds(r) \/ ReadFaults(r)
    /\ Leave(r)
    /\ UNCHANGED <<flags, warmup_done, devVars, raw_mode, quality, nonblock, rounds,
                   usbVars>>

\* Otherwise the next call goes ahead, which sets its argument and result anew.
ReadUnlock(r) ==
    /\ ReaderAt(r, "unlock") /\ Release(r)
    /\ ~ReadEnds(r)
    /\ \/ /\ ret[r] = "data" /\ Goto(r, "lock")
          /\ got' = [got EXCEPT ![r] = @ + 1]
       \/ /\ ret[r] = "nothing" /\ Goto(r, "sleep")
          /\ UNCHANGED got
    /\ ret' = [ret EXCEPT ![r] = "none"] /\ raw' = [raw EXCEPT ![r] = FALSE]
    /\ UNCHANGED <<flags, warmup_done, devVars, raw_mode, quality, nonblock,
                   late, signal, rounds, usbVars>>

ReadBackoffMutant(r) ==
    /\ pc[r] = "sleep"
    /\ Goto(r, "lock")
    /\ UNCHANGED <<flags, warmup_done, lock, devVars, raw_mode, quality, callVars,
                   signal, rounds, usbVars>>

\* After the back-off: a pending signal ends the read.
ReadBackoff(r) ==
    /\ pc[r] = "sleep" /\ ~signal[r]
    /\ Goto(r, "lock")
    /\ UNCHANGED <<flags, warmup_done, lock, devVars, raw_mode, quality, callVars,
                   signal, rounds, usbVars>>

ReadGiveUp(r) ==
    /\ pc[r] = "sleep" /\ signal[r]
    /\ Leave(r)
    /\ UNCHANGED <<flags, warmup_done, lock, devVars, raw_mode, quality, nonblock,
                   rounds, usbVars>>

\* INFNOISE_SET_RAW takes no lock.
SetRaw(r) ==
    /\ ReaderAt(r, "open")
    /\ raw_mode' = ~raw_mode
    /\ UNCHANGED <<flags, warmup_done, lock, devVars, quality, pc, callVars,
                   signal, rounds, usbVars>>

\* INFNOISE_GET_STATS and INFNOISE_GET_ENTROPY read the monitor under the lock.
StatsCall(r) ==
    /\ ReaderAt(r, "open")
    /\ Goto(r, "stats lock")
    /\ UNCHANGED <<flags, warmup_done, lock, devVars, raw_mode, quality,
                   callVars, signal, rounds, usbVars>>

StatsLockMutant(r) ==
    /\ ReaderAt(r, "stats lock")
    /\ Goto(r, "stats")
    /\ UNCHANGED <<flags, warmup_done, lock, devVars, raw_mode, quality, callVars,
                   signal, rounds, usbVars>>

StatsLock(r) ==
    /\ ReaderAt(r, "stats lock") /\ Acquire(r)
    /\ Goto(r, "stats")
    /\ UNCHANGED <<flags, warmup_done, devVars, raw_mode, quality, callVars,
                   signal, rounds, usbVars>>

StatsUnlock(r) ==
    /\ ReaderAt(r, "stats") /\ Release(r)
    /\ Leave(r)
    /\ UNCHANGED <<flags, warmup_done, devVars, raw_mode, quality, nonblock,
                   rounds, usbVars>>

\* A file operation dereferences the freed device: what follows is undefined,
\* and the model does not follow that file any further.
TouchFreed(r) ==
    /\ freed /\ pc[r] \notin {"closed", "sleep", "lost"}
    /\ Goto(r, "lost") /\ Forget(r)
    /\ got' = [got EXCEPT ![r] = 0]
    /\ signal' = [signal EXCEPT ![r] = FALSE]
    /\ UNCHANGED <<flags, warmup_done, lock, devVars, raw_mode, quality, nonblock,
                   rounds, usbVars>>

InCall == {"wait", "check", "lock", "data", "transfer", "unlock", "sleep",
           "stats lock", "stats"}

\* A signal for a process inside a call.
Signal(r) ==
    /\ pc[r] \in InCall /\ ~signal[r]
    /\ signal' = [signal EXCEPT ![r] = TRUE]
    /\ UNCHANGED <<flags, warmup_done, lock, devVars, raw_mode, quality, pc,
                   callVars, rounds, usbVars>>

ReaderStep(r) ==
    \/ ReadWake(r) \/ ReadInterrupted(r) \/ ReadCheckFailed(r) \/ ReadCheck(r)
    \/ ReadUnlock(r) \/ ReadUnlockLast(r)
    \/ ReadBackoff(r) \/ ReadGiveUp(r) \/ StatsUnlock(r)

-----------------------------------------------------------------------------
\* infnoise_probe, from the point where the device can be seen by others.
ProbePresent ==
    /\ usb = "probe" /\ usb' = "chardev"
    /\ flags' = flags \cup {"PRESENT"}
    /\ UNCHANGED <<warmup_done, lock, devVars, raw_mode, quality, pc, callVars,
                   signal, rounds, char_reg, rng_reg, freed>>

ProbeChardev ==
    /\ usb = "chardev"
    /\ \/ usb' = "hwrng" /\ char_reg' = TRUE /\ UNCHANGED freed
       \/ usb' = "gone" /\ freed' = TRUE /\ UNCHANGED char_reg
    /\ UNCHANGED <<flags, warmup_done, lock, devVars, raw_mode, quality, pc,
                   callVars, signal, rounds, rng_reg>>

\* Without a hwrng the driver continues.
ProbeHwrng ==
    /\ usb = "hwrng" /\ usb' = "schedule"
    /\ \/ /\ rng_reg' = TRUE /\ quality' = raw_mode
          /\ flags' = flags \cup {"HWRNG_REG"}
       \/ UNCHANGED <<rng_reg, quality, flags>>
    /\ UNCHANGED <<warmup_done, lock, devVars, raw_mode, pc, callVars, signal,
                   rounds, char_reg, freed>>

ProbeSchedule ==
    /\ usb = "schedule" /\ usb' = "bound"
    /\ Goto(Worker, "queued")
    /\ UNCHANGED <<flags, warmup_done, lock, devVars, raw_mode, quality,
                   callVars, signal, rounds, char_reg, rng_reg, freed>>

DisconnectMutant ==
    /\ usb = "bound" /\ usb' = "complete"
    /\ UNCHANGED <<flags, warmup_done, lock, devVars, raw_mode, quality, pc, callVars,
                   signal, rounds, char_reg, rng_reg, freed>>

\* infnoise_disconnect, call by call.  The device was unplugged or unbound.
Disconnect ==
    /\ usb = "bound" /\ usb' = "complete"
    /\ flags' = flags \ {"PRESENT"}
    /\ UNCHANGED <<warmup_done, lock, devVars, raw_mode, quality, pc, callVars,
                   signal, rounds, char_reg, rng_reg, freed>>

DisconnectCompleteMutant ==
    /\ usb = "complete" /\ usb' = "cancel"
    /\ warmup_done' = warmup_done + 1
    /\ UNCHANGED <<flags, lock, devVars, raw_mode, quality, pc, callVars,
                   signal, rounds, char_reg, rng_reg, freed>>

DisconnectComplete ==
    /\ usb = "complete" /\ usb' = "cancel"
    /\ warmup_done' = All
    /\ UNCHANGED <<flags, lock, devVars, raw_mode, quality, pc, callVars,
                   signal, rounds, char_reg, rng_reg, freed>>

DisconnectCancelMutant ==
    /\ usb = "cancel" /\ usb' = "unregister"
    /\ Goto(Worker, IF pc[Worker] = "queued" THEN "done" ELSE pc[Worker])
    /\ UNCHANGED <<flags, warmup_done, lock, devVars, raw_mode, quality,
                   callVars, signal, rounds, char_reg, rng_reg, freed>>

\* cancel_work_sync: takes a work that has not started off the queue; one that runs,
\* or waits for the mutex, is waited for until it returns.
DisconnectCancel ==
    /\ usb = "cancel" /\ usb' = "unregister"
    /\ pc[Worker] \in {"queued", "done"}
    /\ Goto(Worker, "done")
    /\ UNCHANGED <<flags, warmup_done, lock, devVars, raw_mode, quality,
                   callVars, signal, rounds, char_reg, rng_reg, freed>>

\* infnoise_hwrng_unregister: no new read is started, the one in flight is
\* waited for in the next step.
DisconnectHwrng ==
    /\ usb = "unregister"
    /\ usb' = IF "HWRNG_REG" \in flags THEN "drain" ELSE "deregister"
    /\ flags' = flags \ {"HWRNG_REG"}
    /\ rng_reg' = IF "HWRNG_REG" \in flags THEN FALSE ELSE rng_reg
    /\ UNCHANGED <<warmup_done, lock, devVars, raw_mode, quality, pc, callVars,
                   signal, rounds, char_reg, freed>>

DisconnectDrain ==
    /\ usb = "drain" /\ usb' = "deregister"
    /\ pc[Rng] = "idle"
    /\ UNCHANGED <<flags, warmup_done, lock, devVars, raw_mode, quality, pc,
                   callVars, signal, rounds, char_reg, rng_reg, freed>>

\* usb_deregister_dev stops further opens; files that are open stay open.
DisconnectChardev ==
    /\ usb = "deregister" /\ usb' = "free"
    /\ char_reg' = FALSE
    /\ UNCHANGED <<flags, warmup_done, lock, devVars, raw_mode, quality, pc,
                   callVars, signal, rounds, rng_reg, freed>>

DisconnectFree ==
    /\ usb = "free" /\ usb' = "gone"
    /\ freed' = TRUE
    /\ UNCHANGED <<flags, warmup_done, lock, devVars, raw_mode, quality, pc,
                   callVars, signal, rounds, char_reg, rng_reg>>

UsbStep ==
    \/ ProbePresent \/ ProbeChardev \/ ProbeHwrng \/ ProbeSchedule
    \/ DisconnectComplete \/ DisconnectCancel \/ DisconnectHwrng
    \/ DisconnectDrain \/ DisconnectChardev \/ DisconnectFree

\* Every file is closed or given up on a device that is gone.
Over ==
    /\ usb = "gone" /\ \A r \in Readers : pc[r] \in {"closed", "lost"}
    /\ UNCHANGED vars

Next ==
    \/ UsbStep \/ Disconnect
    \/ WorkerStep \/ ReadData(Worker)
    \/ \E wait \in BOOLEAN : RngCall(wait)
    \/ RngInterrupted \/ RngLock \/ RngStep \/ ReadData(Rng)
    \/ \E r \in Readers :
          \/ Open(r) \/ Close(r) \/ ReadCall(r) \/ SetRaw(r) \/ StatsCall(r)
          \/ ReadLock(r) \/ StatsLock(r) \/ ReaderStep(r) \/ ReadDataStep(r)
          \/ TouchFreed(r) \/ Signal(r)
    \/ Over

Spec == Init /\ [][Next]_vars

\* A thread that can run runs; dev->lock is handed to everyone who keeps asking
\* (a kernel mutex does not starve); nobody has to call, close, unplug or send a
\* signal.
Fairness ==
    /\ WF_vars(UsbStep)
    /\ WF_vars(WorkerStep) /\ SF_vars(WarmupLock)
    /\ WF_vars(RngStep) /\ SF_vars(RngLock)
    /\ \A t \in {Worker, Rng} : WF_vars(ReadDataEnds(t))
    /\ \A r \in Readers :
          /\ WF_vars(ReaderStep(r)) /\ SF_vars(ReadLock(r)) /\ SF_vars(StatsLock(r))
          /\ WF_vars(~freed /\ ReadDataEnds(r))
          /\ WF_vars(pc[r] \in InCall /\ TouchFreed(r))

FairSpec == Spec /\ Fairness

-----------------------------------------------------------------------------
Locations == InCall \cup {"none", "queued", "test", "verdict", "set", "complete",
                          "done", "idle", "closed", "open", "lost"}
UsbStages == {"probe", "chardev", "hwrng", "schedule", "bound", "complete", "cancel",
              "unregister", "drain", "deregister", "free", "gone"}

\* Every variable has its type.
TypeOK ==
    /\ flags \subseteq Flags
    /\ warmup_done \in Nat \cup {All}
    /\ lock \in Users \cup {NoThread}
    /\ healthy \in BOOLEAN /\ left \in 0..MaxLeft
    /\ raw_mode \in BOOLEAN /\ quality \in BOOLEAN
    /\ pc \in [Users -> Locations]
    /\ ret \in [Users -> {"none", "error", "nothing", "data"}]
    /\ raw \in [Users -> BOOLEAN] /\ late \in [Users -> BOOLEAN]
    /\ got \in [Readers -> 0..(Count - 1)]
    /\ nonblock \in [Readers -> BOOLEAN] /\ signal \in [Readers -> BOOLEAN]
    /\ rounds \in 0..WarmupRounds
    /\ usb \in UsbStages
    /\ char_reg \in BOOLEAN /\ rng_reg \in BOOLEAN /\ freed \in BOOLEAN

\* A thread that works on the monitor, the sponge or the USB buffers.
Holding(t) == pc[t] \in {"data", "transfer", "unlock", "stats", "test"}

\* Two threads never work on the device at once: dev->lock covers every call of
\* infnoise_read_data and every look at the statistics (lines 614, 675, 772, 815).
MutualExclusion == \A t, u \in Users : Holding(t) /\ Holding(u) => t = u

\* Nobody but the warmup gets data before the warmup has succeeded.  A reader
\* that waited does not look at WARMUP_DONE again (line 766): what protects it is
\* the order of set_bit and complete in the worker, of clear_bit and complete_all
\* in disconnect.
DataOnlyAfterWarmup ==
    \A t \in Users \ {Worker} :
        pc[t] = "unlock" /\ ret[t] = "data" => "WARMUP_DONE" \in flags

\* disconnect frees the device only when neither the warmup worker nor the hwrng
\* core can touch it again (lines 985-1002).
DrainedBeforeFree ==
    freed => pc[Worker] \in {"none", "done"} /\ pc[Rng] = "idle" /\ ~rng_reg /\ ~char_reg

\* The quality hwrng_read announced is that of the bytes it returns, whatever
\* ioctls changed the raw switch while it waited (lines 649, 660, 676).
QualityMatches ==
    pc[Rng] = "unlock" /\ ret[Rng] = "data" => quality = raw[Rng]

\* A read that begins after a health failure returns no data (lines 672, 766).
NoNewReadAfterFail ==
    \A t \in Users \ {Worker} : late[t] => ~(pc[t] = "unlock" /\ ret[t] = "data")

\* Disconnecting ends, whoever is waiting, reading or warming up (line 969).
DisconnectEnds == usb = "complete" ~> freed

\* The warmup ends (line 605).
WarmupEnds == pc[Worker] = "queued" ~> pc[Worker] = "done"

\* A signal ends a blocking call (lines 761, 788; the test of test_infnoise.c:147).
SignalReturns == \A r \in Readers : signal[r] ~> pc[r] \notin InCall

-----------------------------------------------------------------------------
\* What the repository says and the code does not do.

\* "Wait for warmup" (line 756): a blocking reader does not go on waiting for the
\* warmup once the warmup is over, whatever its outcome.
WaitsOnlyForWarmup ==
    \A r \in Readers : pc[r] = "wait" /\ pc[Worker] = "done" ~> pc[r] # "wait"

\* add_bit returns "false if a fatal error occurred" (infnoise_health.c:166): a
\* call that met one, or comes after one, returns no data.
NoDataAfterFatal ==
    \A t \in Users \ {Worker} :
        pc[t] = "unlock" /\ ret[t] = "data" => "HEALTH_FAIL" \notin flags
=============================================================================
