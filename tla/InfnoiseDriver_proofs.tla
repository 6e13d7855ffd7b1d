------------------------ MODULE InfnoiseDriver_proofs ------------------------
(***************************************************************************)
(* Proofs about the threads of the driver, for any number of open files,   *)
(* any length of read, of warmup and of squeeze.                           *)
(***************************************************************************)
EXTENDS InfnoiseDriver, TLAPS

\* Threads are told apart.
LEMMA ThreadsDiffer ==
    /\ Worker # Rng
    /\ Worker \in Users /\ Rng \in Users
    /\ \A r \in Readers : r \in Users /\ r # Worker /\ r # Rng
    /\ NoThread \notin Users
  BY ThreadAssumption DEF Users, Worker, Rng

-----------------------------------------------------------------------------
\* Types.

\* The device starts (infnoise_probe) with every field of its type.
LEMMA InitType == Init => TypeOK
  <1> SUFFICES ASSUME Init PROVE TypeOK
    OBVIOUS
  <1>1. pc \in [Users -> Locations]
    BY DEF Init, Locations, InCall
  <1>2. /\ ret \in [Users -> {"none", "error", "nothing", "data"}]
        /\ raw \in [Users -> BOOLEAN] /\ late \in [Users -> BOOLEAN]
        /\ nonblock \in [Readers -> BOOLEAN] /\ signal \in [Readers -> BOOLEAN]
    BY DEF Init
  <1>3. got \in [Readers -> 0..(Count - 1)] /\ rounds \in 0..WarmupRounds /\ left \in 0..MaxLeft
    BY BoundAssumption DEF Init
  <1>4. flags \subseteq Flags /\ usb \in UsbStages /\ warmup_done \in Nat \cup {All}
    BY DEF Init, Flags, UsbStages
  <1>5. QED
    BY <1>1, <1>2, <1>3, <1>4 DEF Init, TypeOK

\* Whether a flag is set is a Boolean.
LEMMA MemberBoolean == ("HEALTH_FAIL" \in flags) \in BOOLEAN
  OBVIOUS

\* The counters stay in their ranges.
LEMMA ZeroCount == 0 \in 0..(Count - 1)
  BY BoundAssumption

\* Squeezing one chunk takes one from a sponge that is not empty.
LEMMA SqueezeLeft ==
    ASSUME TypeOK, NEW t \in Users, DataSqueeze(t)
    PROVE  left' \in 0..MaxLeft
  <1>1. left \in 0..MaxLeft
    BY DEF TypeOK
  <1>2. left > 0 /\ left' = left - 1
    BY DEF DataSqueeze
  <1>3. QED
    BY <1>1, <1>2, BoundAssumption

\* A round is counted only below INFNOISE_WARMUP_ROUNDS.
LEMMA WarmupRounded ==
    ASSUME TypeOK, WarmupRound
    PROVE  rounds' \in 0..WarmupRounds
  <1>1. rounds \in 0..WarmupRounds
    BY DEF TypeOK
  <1>2. rounds < WarmupRounds /\ rounds' = rounds + 1
    BY DEF WarmupRound
  <1>3. QED
    BY <1>1, <1>2, BoundAssumption

\* complete() leaves a count of wakeups or All.
LEMMA CompleteType ==
    ASSUME TypeOK, WarmupComplete
    PROVE  warmup_done' \in Nat \cup {All}
  <1>1. warmup_done \in Nat \cup {All}
    BY DEF TypeOK
  <1>2. warmup_done' = IF warmup_done = All THEN All ELSE warmup_done + 1
    BY DEF WarmupComplete
  <1>3. QED
    BY <1>1, <1>2

\* So does wait_for_completion.
LEMMA WaitType ==
    ASSUME TypeOK, NEW t \in Users, Wait(t)
    PROVE  warmup_done' \in Nat \cup {All}
  <1>1. warmup_done \in Nat \cup {All}
    BY DEF TypeOK
  <1>2. /\ warmup_done # 0
        /\ warmup_done' = IF warmup_done = All THEN All ELSE warmup_done - 1
    BY DEF Wait
  <1>3. QED
    BY <1>1, <1>2

\* Every step of infnoise_read_data keeps the types.
LEMMA ReadDataType ==
    ASSUME TypeOK, NEW t \in Users, ReadData(t)
    PROVE  TypeOK'
  <1> USE DEF TypeOK, Goto, Return, AfterRead, argVars, callVars, devVars, usbVars, Locations, InCall
  <1>1. CASE DataGone(t)
    BY <1>1 DEF DataGone
  <1>2. CASE DataSqueeze(t)
    <2>1. left' \in 0..MaxLeft
      BY <1>2, SqueezeLeft
    <2>2. ret' \in [Users -> {"none", "error", "nothing", "data"}] /\ pc' \in [Users -> Locations]
      BY <1>2 DEF DataSqueeze
    <2>3. UNCHANGED <<flags, warmup_done, lock, healthy, raw_mode, quality, argVars,
                      signal, rounds, usbVars>>
      BY <1>2 DEF DataSqueeze
    <2>4. QED
      BY <2>1, <2>2, <2>3
  <1>3. CASE DataTransfer(t)
    BY <1>3 DEF DataTransfer
  <1>4. CASE TransferFault(t)
    BY <1>4 DEF TransferFault, Flags
  <1>5. CASE TransferError(t)
    BY <1>5 DEF TransferError
  <1>6. CASE TransferDone(t)
    <2>1. left' \in 0..MaxLeft /\ ret' \in [Users -> {"none", "error", "nothing", "data"}]
      BY <1>6 DEF TransferDone
    <2>2. QED
      BY <1>6, <2>1 DEF TransferDone
  <1>7. QED
    BY <1>1, <1>2, <1>3, <1>4, <1>5, <1>6 DEF ReadData

\* Every step of the warmup worker keeps the types.
LEMMA WorkerType ==
    ASSUME TypeOK, WorkerStep
    PROVE  TypeOK'
  <1> USE ThreadsDiffer
      DEF TypeOK, Goto, Acquire, Release, argVars, callVars, devVars, usbVars, Locations, InCall
  <1>1. CASE WarmupStart \/ WarmupLock
    BY <1>1 DEF WarmupStart, WarmupLock
  <1>2. CASE WarmupRound
    <2>1. rounds' \in 0..WarmupRounds
      BY <1>2, WarmupRounded
    <2>2. pc' \in [Users -> Locations]
      BY <1>2 DEF WarmupRound
    <2>3. UNCHANGED <<flags, warmup_done, lock, devVars, raw_mode, quality, callVars,
                      signal, usbVars>>
      BY <1>2 DEF WarmupRound
    <2>4. QED
      BY <2>1, <2>2, <2>3
  <1>3. CASE WarmupUnlock
    BY <1>3 DEF WarmupUnlock
  <1>4. CASE WarmupAbandon
    BY <1>4 DEF WarmupAbandon
  <1>5. CASE WarmupJudge
    BY <1>5 DEF WarmupJudge
  <1>6. CASE WarmupVerdict
    BY <1>6 DEF WarmupVerdict, Flags
  <1>7. CASE WarmupComplete
    <2>1. warmup_done' \in Nat \cup {All}
      BY <1>7, CompleteType
    <2>2. pc' \in [Users -> Locations]
      BY <1>7 DEF WarmupComplete
    <2>3. UNCHANGED <<flags, lock, devVars, raw_mode, quality, callVars, signal,
                      rounds, usbVars>>
      BY <1>7 DEF WarmupComplete
    <2>4. QED
      BY <2>1, <2>2, <2>3
  <1>8. QED
    BY <1>1, <1>2, <1>3, <1>4, <1>5, <1>6, <1>7 DEF WorkerStep

\* Every step of infnoise_hwrng_read keeps the types.
LEMMA RngType ==
    ASSUME TypeOK,
           (\E wait \in BOOLEAN : RngCall(wait)) \/ RngInterrupted \/ RngLock \/ RngStep
    PROVE  TypeOK'
  <1> USE ThreadsDiffer
      DEF TypeOK, Goto, Acquire, Release, Forget, argVars, callVars, devVars, usbVars, Locations, InCall
  <1>1. ASSUME NEW wait \in BOOLEAN, RngCall(wait) PROVE TypeOK'
    <2>1. pc' \in [Users -> Locations]
      BY <1>1 DEF RngCall
    <2>2. raw' \in [Users -> BOOLEAN] /\ quality' \in BOOLEAN
      BY <1>1 DEF RngCall
    <2>3. late' \in [Users -> BOOLEAN]
      BY <1>1, MemberBoolean DEF RngCall
    <2>4. UNCHANGED <<flags, warmup_done, lock, devVars, raw_mode, ret, got, nonblock,
                      signal, rounds, usbVars>>
      BY <1>1 DEF RngCall
    <2>5. QED
      BY <2>1, <2>2, <2>3, <2>4
  <1>2. CASE RngInterrupted
    BY <1>2 DEF RngInterrupted
  <1>3. CASE RngLock
    BY <1>3 DEF RngLock
  <1>4. CASE RngWake
    <2>1. warmup_done' \in Nat \cup {All}
      BY <1>4, WaitType DEF RngWake
    <2>2. pc' \in [Users -> Locations]
      BY <1>4 DEF RngWake
    <2>3. UNCHANGED <<flags, lock, devVars, raw_mode, quality, callVars, signal,
                      rounds, usbVars>>
      BY <1>4 DEF RngWake
    <2>4. QED
      BY <2>1, <2>2, <2>3
  <1>5. CASE RngRefuse
    BY <1>5 DEF RngRefuse
  <1>6. CASE RngCheck
    BY <1>6 DEF RngCheck
  <1>7. CASE RngUnlock
    BY <1>7 DEF RngUnlock
  <1>8. QED
    BY <1>1, <1>2, <1>3, <1>4, <1>5, <1>6, <1>7 DEF RngStep

\* Every step of probe and disconnect keeps the types.
LEMMA UsbType ==
    ASSUME TypeOK, UsbStep \/ Disconnect
    PROVE  TypeOK'
  <1> USE ThreadsDiffer
      DEF TypeOK, Goto, argVars, callVars, devVars, usbVars, Locations, UsbStages, Flags
  <1>1. CASE ProbePresent
    BY <1>1 DEF ProbePresent
  <1>2. CASE ProbeChardev
    BY <1>2 DEF ProbeChardev
  <1>3. CASE ProbeHwrng
    BY <1>3 DEF ProbeHwrng
  <1>4. CASE ProbeSchedule
    BY <1>4 DEF ProbeSchedule
  <1>5. CASE Disconnect
    BY <1>5 DEF Disconnect
  <1>6. CASE DisconnectComplete
    BY <1>6 DEF DisconnectComplete
  <1>7. CASE DisconnectCancel
    BY <1>7 DEF DisconnectCancel
  <1>8. CASE DisconnectHwrng
    BY <1>8 DEF DisconnectHwrng
  <1>9. CASE DisconnectDrain
    BY <1>9 DEF DisconnectDrain
  <1>10. CASE DisconnectChardev
    BY <1>10 DEF DisconnectChardev
  <1>11. CASE DisconnectFree
    BY <1>11 DEF DisconnectFree
  <1>12. QED
    BY <1>1, <1>2, <1>3, <1>4, <1>5, <1>6, <1>7, <1>8, <1>9, <1>10, <1>11 DEF UsbStep

\* A read that goes on has copied fewer chunks than it was asked for.
LEMMA ReadUnlockGot ==
    ASSUME TypeOK, NEW r \in Readers, ReadUnlock(r)
    PROVE  got' \in [Readers -> 0..(Count - 1)]
  <1>1. got \in [Readers -> 0..(Count - 1)]
    BY DEF TypeOK
  <1>2. CASE ret[r] = "data"
    <2>1. got' = [got EXCEPT ![r] = got[r] + 1] /\ got[r] + 1 # Count
      BY <1>2 DEF ReadUnlock, ReadEnds
    <2>2. got[r] + 1 \in 0..(Count - 1)
      BY <1>1, <2>1, BoundAssumption
    <2>3. QED
      BY <1>1, <2>1, <2>2
  <1>3. CASE ret[r] # "data"
    BY <1>1, <1>3 DEF ReadUnlock
  <1>4. QED
    BY <1>2, <1>3

\* A read() that ends forgets its locals.
LEMMA LeaveType ==
    ASSUME TypeOK, NEW r \in Readers, Leave(r)
    PROVE  /\ pc' \in [Users -> Locations]
           /\ ret' \in [Users -> {"none", "error", "nothing", "data"}]
           /\ raw' \in [Users -> BOOLEAN] /\ late' \in [Users -> BOOLEAN]
           /\ got' \in [Readers -> 0..(Count - 1)]
           /\ signal' \in [Readers -> BOOLEAN]
  <1>1. got' \in [Readers -> 0..(Count - 1)]
    BY ZeroCount DEF Leave, TypeOK
  <1>2. QED
    BY <1>1 DEF Leave, Goto, Forget, TypeOK, Locations

\* Every step of a file operation keeps the types.
LEMMA ReaderType ==
    ASSUME TypeOK, NEW r \in Readers,
           \/ Open(r) \/ Close(r) \/ ReadCall(r) \/ SetRaw(r) \/ StatsCall(r)
           \/ ReadLock(r) \/ StatsLock(r) \/ ReaderStep(r)
           \/ TouchFreed(r) \/ Signal(r)
    PROVE  TypeOK'
  <1> USE ThreadsDiffer
      DEF TypeOK, Goto, Acquire, Release, ReaderAt, argVars, callVars, devVars, usbVars, Locations, InCall
  <1>1. CASE Open(r)
    BY <1>1 DEF Open
  <1>2. CASE Close(r)
    BY <1>2 DEF Close
  <1>3. CASE ReadCall(r)
    <2>1. pc' \in [Users -> Locations]
      BY <1>3 DEF ReadCall
    <2>2. late' \in [Users -> BOOLEAN]
      BY <1>3, MemberBoolean DEF ReadCall
    <2>3. got' \in [Readers -> 0..(Count - 1)]
      BY <1>3, ZeroCount DEF ReadCall
    <2>4. UNCHANGED <<flags, warmup_done, lock, devVars, raw_mode, quality, ret, raw,
                      nonblock, signal, rounds, usbVars>>
      BY <1>3 DEF ReadCall
    <2>5. QED
      BY <2>1, <2>2, <2>3, <2>4
  <1>4. CASE SetRaw(r)
    BY <1>4 DEF SetRaw
  <1>5. CASE StatsCall(r)
    BY <1>5 DEF StatsCall
  <1>6. CASE ReadLock(r)
    BY <1>6 DEF ReadLock
  <1>7. CASE StatsLock(r)
    BY <1>7 DEF StatsLock
  <1>8. CASE TouchFreed(r)
    <2>1. got' \in [Readers -> 0..(Count - 1)]
      BY <1>8, ZeroCount DEF TouchFreed
    <2>2. QED
      BY <1>8, <2>1 DEF TouchFreed, Forget
  <1>9. CASE Signal(r)
    BY <1>9 DEF Signal
  <1>10. CASE ReadWake(r)
    <2>1. warmup_done' \in Nat \cup {All}
      BY <1>10, WaitType DEF ReadWake
    <2>2. pc' \in [Users -> Locations]
      BY <1>10 DEF ReadWake
    <2>3. UNCHANGED <<flags, lock, devVars, raw_mode, quality, callVars, signal,
                      rounds, usbVars>>
      BY <1>10 DEF ReadWake
    <2>4. QED
      BY <2>1, <2>2, <2>3
  <1>11. CASE ReadInterrupted(r)
    BY <1>11, LeaveType DEF ReadInterrupted
  <1>12. CASE ReadCheckFailed(r)
    BY <1>12, LeaveType DEF ReadCheckFailed
  <1>13. CASE ReadCheck(r)
    BY <1>13 DEF ReadCheck
  <1>14. CASE ReadUnlockLast(r)
    BY <1>14, LeaveType DEF ReadUnlockLast
  <1>15. CASE ReadUnlock(r)
    <2>1. pc' \in [Users -> Locations]
      BY <1>15 DEF ReadUnlock
    <2>2. got' \in [Readers -> 0..(Count - 1)]
      BY <1>15, ReadUnlockGot
    <2>3. ret' \in [Users -> {"none", "error", "nothing", "data"}] /\ raw' \in [Users -> BOOLEAN]
      BY <1>15 DEF ReadUnlock
    <2>4. UNCHANGED <<flags, warmup_done, devVars, raw_mode, quality, nonblock, late, signal,
                      rounds, usbVars>> /\ lock' = NoThread
      BY <1>15 DEF ReadUnlock
    <2>5. QED
      BY <2>1, <2>2, <2>3, <2>4
  <1>16. CASE ReadBackoff(r)
    BY <1>16 DEF ReadBackoff
  <1>17. CASE ReadGiveUp(r)
    BY <1>17, LeaveType DEF ReadGiveUp
  <1>18. CASE StatsUnlock(r)
    BY <1>18, LeaveType DEF StatsUnlock
  <1>19. QED
    BY <1>1, <1>2, <1>3, <1>4, <1>5, <1>6, <1>7, <1>8, <1>9, <1>10, <1>11, <1>12, <1>13,
       <1>14, <1>15, <1>16, <1>17, <1>18 DEF ReaderStep

\* Every step of the driver keeps the types.
LEMMA NextType == TypeOK /\ [Next]_vars => TypeOK'
  <1> SUFFICES ASSUME TypeOK, [Next]_vars PROVE TypeOK'
    OBVIOUS
  <1>1. CASE UsbStep \/ Disconnect
    BY <1>1, UsbType
  <1>2. CASE WorkerStep \/ ReadData(Worker)
    BY <1>2, WorkerType, ReadDataType, ThreadsDiffer
  <1>3. CASE (\E wait \in BOOLEAN : RngCall(wait)) \/ RngInterrupted \/ RngLock \/ RngStep
    BY <1>3, RngType
  <1>4. CASE ReadData(Rng)
    BY <1>4, ReadDataType, ThreadsDiffer
  <1>5. ASSUME NEW r \in Readers, ReadDataStep(r) PROVE TypeOK'
    BY <1>5, ReadDataType, ThreadsDiffer DEF ReadDataStep
  <1>6. ASSUME NEW r \in Readers,
               \/ Open(r) \/ Close(r) \/ ReadCall(r) \/ SetRaw(r) \/ StatsCall(r)
               \/ ReadLock(r) \/ StatsLock(r) \/ ReaderStep(r)
               \/ TouchFreed(r) \/ Signal(r)
        PROVE  TypeOK'
    BY <1>6, ReaderType
  <1>7. CASE UNCHANGED vars
    BY <1>7 DEF vars, TypeOK
  <1>8. QED
    BY <1>1, <1>2, <1>3, <1>4, <1>5, <1>6, <1>7 DEF Next, Over

\* Every variable keeps its type (struct infnoise_device and the threads).
THEOREM DriverTypeOK == Spec => []TypeOK
  BY InitType, NextType, PTL DEF Spec

-----------------------------------------------------------------------------
\* A thread that works on the device owns the mutex.
LockInv == \A t \in Users : Holding(t) => lock = t

\* infnoise_read_data neither takes nor gives the mutex.
LEMMA ReadDataLock ==
    ASSUME TypeOK, LockInv, NEW t \in Users, ReadData(t)
    PROVE  LockInv'
  <1>1. Holding(t) /\ lock' = lock
    BY DEF ReadData, DataGone, DataSqueeze, DataTransfer, TransferFault, TransferError,
           TransferDone, Holding
  <1>2. \A u \in Users : u # t => pc'[u] = pc[u]
    BY DEF ReadData, DataGone, DataSqueeze, DataTransfer, TransferFault, TransferError,
           TransferDone, Goto, TypeOK
  <1>3. QED
    BY <1>1, <1>2 DEF LockInv, Holding

\* A step that leaves the mutex alone, and moves one thread to a place where it
\* does not need it.
LEMMA OutsideLock ==
    ASSUME TypeOK, LockInv, NEW t \in Users, lock' = lock,
           NEW where, where \notin {"data", "transfer", "unlock", "stats", "test"},
           Goto(t, where) \/ pc' = pc
    PROVE  LockInv'
  BY DEF Goto, TypeOK, LockInv, Holding

\* A step that takes the mutex.
LEMMA TakesLock ==
    ASSUME TypeOK, LockInv, NEW t \in Users, Acquire(t), NEW where, Goto(t, where)
    PROVE  LockInv'
  <1>1. \A u \in Users : ~Holding(u)
    BY ThreadsDiffer DEF LockInv, Acquire
  <1>2. QED
    BY <1>1 DEF LockInv, Acquire, Goto, Holding, TypeOK

\* A step in which its owner gives the mutex back.
LEMMA GivesLock ==
    ASSUME TypeOK, LockInv, NEW t \in Users, Holding(t), Release(t),
           NEW where, where \notin {"data", "transfer", "unlock", "stats", "test"},
           Goto(t, where)
    PROVE  LockInv'
  <1>1. \A u \in Users : u # t => ~Holding(u)
    BY DEF LockInv
  <1>2. QED
    BY <1>1 DEF LockInv, Release, Goto, Holding, TypeOK

\* Every step keeps the owner of the mutex and the threads inside apart.
LEMMA NextLock == TypeOK /\ LockInv /\ [Next]_vars => LockInv'
  <1> SUFFICES ASSUME TypeOK, LockInv, [Next]_vars PROVE LockInv'
    OBVIOUS
  <1> USE ThreadsDiffer
  <1>1. CASE UsbStep \/ Disconnect
    <2>1. /\ lock' = lock
          /\ pc' = pc \/ Goto(Worker, "queued") \/ Goto(Worker, "done")
      BY <1>1
      DEF UsbStep, Disconnect, ProbePresent, ProbeChardev, ProbeHwrng, ProbeSchedule,
          DisconnectComplete, DisconnectCancel, DisconnectHwrng, DisconnectDrain,
          DisconnectChardev, DisconnectFree
    <2>2. QED
      BY <2>1, OutsideLock
  <1>2. CASE WorkerStep
    <2>1. CASE WarmupLock
      BY <2>1, TakesLock DEF WarmupLock
    <2>2. CASE WarmupRound
      <3>1. Holding(Worker) /\ lock' = lock /\ \A u \in Users : u # Worker => pc'[u] = pc[u]
        BY <2>2 DEF WarmupRound, Holding, Goto, TypeOK
      <3>2. QED
        BY <3>1 DEF LockInv, Holding
    <2>3. CASE WarmupUnlock
      BY <2>3, GivesLock DEF WarmupUnlock, Holding
    <2>4. CASE WarmupStart \/ WarmupAbandon \/ WarmupJudge \/ WarmupVerdict \/ WarmupComplete
      BY <2>4, OutsideLock
      DEF WarmupStart, WarmupAbandon, WarmupJudge, WarmupVerdict, WarmupComplete
    <2>5. QED
      BY <1>2, <2>1, <2>2, <2>3, <2>4 DEF WorkerStep
  <1>3. ASSUME NEW t \in Users, ReadData(t) PROVE LockInv'
    BY <1>3, ReadDataLock
  <1>4. ASSUME NEW wait \in BOOLEAN, RngCall(wait) PROVE LockInv'
    BY <1>4, OutsideLock DEF RngCall
  <1>5. CASE RngInterrupted \/ RngWake \/ RngRefuse \/ RngCheck
    BY <1>5, OutsideLock DEF RngInterrupted, RngWake, RngRefuse, RngCheck
  <1>6. CASE RngLock
    BY <1>6, TakesLock DEF RngLock
  <1>7. CASE RngUnlock
    BY <1>7, GivesLock DEF RngUnlock, Holding
  <1>8. ASSUME NEW r \in Readers,
               \/ Open(r) \/ Close(r) \/ ReadCall(r) \/ SetRaw(r) \/ StatsCall(r)
               \/ TouchFreed(r) \/ Signal(r) \/ ReadWake(r) \/ ReadInterrupted(r)
               \/ ReadCheckFailed(r) \/ ReadCheck(r) \/ ReadBackoff(r) \/ ReadGiveUp(r)
        PROVE  LockInv'
    <2>1. /\ lock' = lock
          /\ \/ pc' = pc
             \/ \E where \in {"open", "closed", "wait", "check", "stats lock", "lost", "lock"} :
                   Goto(r, where)
      BY <1>8
      DEF Open, Close, ReadCall, SetRaw, StatsCall, TouchFreed, Signal, ReadWake,
          ReadInterrupted, ReadCheckFailed, ReadCheck, ReadBackoff, ReadGiveUp, Leave
    <2>2. CASE pc' = pc
      BY <2>1, <2>2 DEF LockInv, Holding
    <2>3. ASSUME NEW where \in {"open", "closed", "wait", "check", "stats lock", "lost", "lock"},
                 Goto(r, where)
          PROVE  LockInv'
      <3>1. where \notin {"data", "transfer", "unlock", "stats", "test"}
        OBVIOUS
      <3>2. QED
        BY <2>1, <2>3, <3>1, OutsideLock
    <2>4. QED
      BY <2>1, <2>2, <2>3
  <1>9. ASSUME NEW r \in Readers, ReadLock(r) \/ StatsLock(r) PROVE LockInv'
    BY <1>9, TakesLock DEF ReadLock, StatsLock
  <1>10. ASSUME NEW r \in Readers, ReadUnlock(r) \/ ReadUnlockLast(r) \/ StatsUnlock(r)
         PROVE  LockInv'
    <2>1. /\ Holding(r) /\ Release(r)
          /\ Goto(r, "open") \/ Goto(r, "lock") \/ Goto(r, "sleep")
      BY <1>10 DEF ReadUnlock, ReadUnlockLast, StatsUnlock, Leave, Holding, ReaderAt
    <2>2. QED
      BY <2>1, GivesLock
  <1>11. CASE UNCHANGED vars
    BY <1>11 DEF vars, LockInv, Holding
  <1>12. QED
    BY <1>1, <1>2, <1>3, <1>4, <1>5, <1>6, <1>7, <1>8, <1>9, <1>10, <1>11
    DEF Next, Over, RngStep, ReaderStep, ReadDataStep

LEMMA AlwaysLock == Spec => []LockInv
  <1>1. Init => LockInv
    BY ThreadsDiffer DEF Init, LockInv, Holding
  <1>2. QED
    BY <1>1, NextLock, DriverTypeOK, PTL DEF Spec

\* Two threads never work on the device at once (infnoise_main.c:614, 675, 772,
\* 815, 829).
THEOREM DriverMutualExclusion == Spec => []MutualExclusion
  <1>1. LockInv => MutualExclusion
    BY DEF LockInv, MutualExclusion
  <1>2. QED
    BY <1>1, AlwaysLock, PTL

-----------------------------------------------------------------------------
\* What probe and disconnect have done so far, stage by stage.
UsbInv ==
    /\ freed <=> usb = "gone"
    /\ usb \in {"probe", "chardev", "hwrng", "schedule"} => pc[Worker] = "none"
    /\ usb \in {"unregister", "drain", "deregister", "free"} => pc[Worker] = "done"
    /\ usb = "gone" => pc[Worker] \in {"none", "done"}
    /\ rng_reg <=> "HWRNG_REG" \in flags
    /\ usb \in {"probe", "chardev", "hwrng", "drain", "deregister", "free", "gone"} => ~rng_reg
    /\ ~rng_reg /\ usb # "drain" => pc[Rng] = "idle"
    /\ usb \in {"probe", "chardev", "free", "gone"} => ~char_reg

\* A step of a file touches none of it.
LEMMA ReaderUsb ==
    ASSUME TypeOK, NEW r \in Readers,
           \/ Open(r) \/ Close(r) \/ ReadCall(r) \/ SetRaw(r) \/ StatsCall(r)
           \/ ReadLock(r) \/ StatsLock(r) \/ ReaderStep(r)
           \/ TouchFreed(r) \/ Signal(r)
    PROVE  /\ UNCHANGED <<flags, usbVars>>
           /\ \A t \in Users : t # r => pc'[t] = pc[t]
  BY DEF Open, Close, ReadCall, SetRaw, StatsCall, ReadLock, StatsLock, ReaderStep,
         TouchFreed, Signal, ReadWake, ReadInterrupted, ReadCheckFailed, ReadCheck,
         ReadUnlock, ReadUnlockLast, ReadBackoff, ReadGiveUp, StatsUnlock, Leave, Goto,
         TypeOK

\* A call of infnoise_read_data moves its thread, and at most sets HEALTH_FAIL.
LEMMA ReadDataUsb ==
    ASSUME TypeOK, NEW t \in Users, ReadData(t)
    PROVE  /\ UNCHANGED usbVars
           /\ flags' = flags \/ flags' = flags \cup {"HEALTH_FAIL"}
           /\ pc[t] \in {"data", "transfer"}
           /\ \A u \in Users : u # t => pc'[u] = pc[u]
  BY DEF ReadData, DataGone, DataSqueeze, DataTransfer, TransferFault, TransferError,
         TransferDone, Goto, TypeOK

\* Every step keeps what disconnect has drained drained.
LEMMA NextUsb == TypeOK /\ UsbInv /\ [Next]_vars => UsbInv'
  <1> SUFFICES ASSUME TypeOK, UsbInv, [Next]_vars PROVE UsbInv'
    OBVIOUS
  <1> USE ThreadsDiffer DEF UsbInv, usbVars
  <1>1. CASE UsbStep \/ Disconnect
    <2> USE DEF Goto, TypeOK
    <2>1. CASE ProbePresent
      BY <2>1 DEF ProbePresent
    <2>2. CASE ProbeChardev
      BY <2>2 DEF ProbeChardev
    <2>3. CASE ProbeHwrng
      BY <2>3 DEF ProbeHwrng
    <2>4. CASE ProbeSchedule
      BY <2>4 DEF ProbeSchedule
    <2>5. CASE Disconnect
      BY <2>5 DEF Disconnect
    <2>6. CASE DisconnectComplete
      BY <2>6 DEF DisconnectComplete
    <2>7. CASE DisconnectCancel
      BY <2>7 DEF DisconnectCancel
    <2>8. CASE DisconnectHwrng
      BY <2>8 DEF DisconnectHwrng
    <2>9. CASE DisconnectDrain
      BY <2>9 DEF DisconnectDrain
    <2>10. CASE DisconnectChardev
      BY <2>10 DEF DisconnectChardev
    <2>11. CASE DisconnectFree
      BY <2>11 DEF DisconnectFree
    <2>12. QED
      BY <1>1, <2>1, <2>2, <2>3, <2>4, <2>5, <2>6, <2>7, <2>8, <2>9, <2>10, <2>11 DEF UsbStep
  <1>2. CASE WorkerStep
    <2>1. pc[Worker] \notin {"none", "done"}
      BY <1>2 DEF WorkerStep, WarmupStart, WarmupLock, WarmupRound, WarmupUnlock, WarmupAbandon,
                  WarmupJudge, WarmupVerdict, WarmupComplete
    <2>2. /\ UNCHANGED usbVars
          /\ "HWRNG_REG" \in flags' <=> "HWRNG_REG" \in flags
          /\ pc'[Rng] = pc[Rng]
      BY <1>2 DEF WorkerStep, WarmupStart, WarmupLock, WarmupRound, WarmupUnlock, WarmupAbandon,
                  WarmupJudge, WarmupVerdict, WarmupComplete, Goto, TypeOK
    <2>3. QED
      BY <2>1, <2>2
  <1>3. ASSUME NEW t \in Users, ReadData(t) PROVE UsbInv'
    <2>1. /\ UNCHANGED usbVars
          /\ "HWRNG_REG" \in flags' <=> "HWRNG_REG" \in flags
          /\ t = Worker => pc[Worker] \notin {"none", "done"}
          /\ t = Rng => pc[Rng] # "idle"
          /\ t # Worker => pc'[Worker] = pc[Worker]
          /\ t # Rng => pc'[Rng] = pc[Rng]
      BY <1>3, ReadDataUsb
    <2>2. QED
      BY <2>1
  <1>4. ASSUME \/ \E wait \in BOOLEAN : RngCall(wait)
               \/ RngInterrupted \/ RngLock \/ RngStep
        PROVE  UsbInv'
    <2>1. /\ UNCHANGED <<flags, usbVars>>
          /\ pc'[Worker] = pc[Worker]
          /\ rng_reg \/ pc[Rng] # "idle"
      BY <1>4 DEF RngCall, RngInterrupted, RngLock, RngStep, RngWake, RngRefuse, RngCheck,
                  RngUnlock, Goto, TypeOK
    <2>2. QED
      BY <2>1
  <1>5. ASSUME NEW r \in Readers,
               \/ Open(r) \/ Close(r) \/ ReadCall(r) \/ SetRaw(r) \/ StatsCall(r)
               \/ ReadLock(r) \/ StatsLock(r) \/ ReaderStep(r)
               \/ TouchFreed(r) \/ Signal(r)
        PROVE  UsbInv'
    <2>1. UNCHANGED <<flags, usbVars>> /\ pc'[Worker] = pc[Worker] /\ pc'[Rng] = pc[Rng]
      BY <1>5, ReaderUsb
    <2>2. QED
      BY <2>1
  <1>6. CASE UNCHANGED vars
    BY <1>6 DEF vars
  <1>7. QED
    BY <1>1, <1>2, <1>3, <1>4, <1>5, <1>6 DEF Next, Over, ReadDataStep

\* disconnect frees the device after the worker and the hwrng core are done with
\* it (infnoise_main.c:979-1002).
THEOREM DriverDrainedBeforeFree == Spec => []DrainedBeforeFree
  <1>1. Init => UsbInv
    BY ThreadsDiffer DEF Init, UsbInv
  <1>2. UsbInv => DrainedBeforeFree
    BY DEF UsbInv, DrainedBeforeFree
  <1>3. QED
    BY <1>1, <1>2, NextUsb, DriverTypeOK, PTL DEF Spec

-----------------------------------------------------------------------------
\* Why a reader that waited needs no second look at WARMUP_DONE: it was woken with
\* the warmup judged or the device absent, and each outcome but a good one stops it
\* later, at HEALTH_FAIL or at PRESENT.
Judged  == "WARMUP_DONE" \in flags \/ "HEALTH_FAIL" \in flags
Settled == Judged \/ "PRESENT" \notin flags

WarmInv ==
    /\ usb = "probe" => warmup_done = 0
    /\ usb = "probe" => \A t \in Users \ {Worker} : pc[t] \in {"closed", "idle"}
    /\ usb = "complete" => "PRESENT" \notin flags
    /\ warmup_done # 0 => Settled
    /\ pc[Worker] = "complete" => Judged
    /\ \A t \in Users \ {Worker} :
          /\ t # Rng /\ pc[t] = "check" => Settled
          /\ pc[t] \in {"lock", "data", "sleep"} =>
                "WARMUP_DONE" \in flags \/ "PRESENT" \notin flags
          /\ pc[t] = "transfer" => "WARMUP_DONE" \in flags
          /\ pc[t] = "unlock" /\ ret[t] # "error" => "WARMUP_DONE" \in flags

\* What the flags never do once the device was announced.
FlagsGrow ==
    /\ "WARMUP_DONE" \in flags => "WARMUP_DONE" \in flags'
    /\ "HEALTH_FAIL" \in flags => "HEALTH_FAIL" \in flags'
    /\ "PRESENT" \in flags' => "PRESENT" \in flags

\* probe and disconnect keep WarmInv: PRESENT is cleared before complete_all.
LEMMA UsbWarm ==
    ASSUME TypeOK, UsbInv, WarmInv, UsbStep \/ Disconnect
    PROVE  WarmInv'
  <1> USE ThreadsDiffer DEF WarmInv, Settled, Judged, Goto, TypeOK, UsbInv, callVars
  <1>1. CASE ProbePresent
    BY <1>1 DEF ProbePresent
  <1>2. CASE ProbeChardev \/ ProbeHwrng
    BY <1>2 DEF ProbeChardev, ProbeHwrng
  <1>3. CASE ProbeSchedule
    BY <1>3 DEF ProbeSchedule
  <1>4. CASE Disconnect
    BY <1>4 DEF Disconnect
  <1>5. CASE DisconnectComplete
    BY <1>5 DEF DisconnectComplete
  <1>6. CASE DisconnectCancel
    BY <1>6 DEF DisconnectCancel
  <1>7. CASE DisconnectHwrng
    BY <1>7 DEF DisconnectHwrng
  <1>8. CASE DisconnectDrain \/ DisconnectChardev \/ DisconnectFree
    BY <1>8 DEF DisconnectDrain, DisconnectChardev, DisconnectFree
  <1>9. QED
    BY <1>1, <1>2, <1>3, <1>4, <1>5, <1>6, <1>7, <1>8 DEF UsbStep

\* The worker keeps WarmInv: the verdict is set before complete().
LEMMA WorkerWarm ==
    ASSUME TypeOK, UsbInv, WarmInv, WorkerStep
    PROVE  WarmInv'
  <1> USE ThreadsDiffer DEF WarmInv, Settled, Judged, Goto, TypeOK, UsbInv, callVars, usbVars
  <1>1. CASE \/ WarmupStart \/ WarmupLock \/ WarmupRound \/ WarmupUnlock
             \/ WarmupAbandon \/ WarmupJudge
    <2>1. /\ UNCHANGED <<flags, warmup_done, usb, ret>>
          /\ pc'[Worker] # "complete"
          /\ \A t \in Users \ {Worker} : pc'[t] = pc[t]
      BY <1>1 DEF WarmupStart, WarmupLock, WarmupRound, WarmupUnlock, WarmupAbandon,
                  WarmupJudge
    <2>2. QED
      BY <2>1
  <1>2. CASE WarmupVerdict
    <2>1. /\ UNCHANGED <<warmup_done, usb, ret>>
          /\ FlagsGrow /\ Judged'
          /\ \A t \in Users \ {Worker} : pc'[t] = pc[t]
      BY <1>2 DEF WarmupVerdict, FlagsGrow
    <2>2. usb # "probe" /\ (usb = "complete" => "PRESENT" \notin flags')
      BY <1>2, <2>1 DEF WarmupVerdict, FlagsGrow
    <2>3. QED
      BY <2>1, <2>2 DEF FlagsGrow
  <1>3. CASE WarmupComplete
    <2>1. /\ UNCHANGED <<flags, usb, ret>> /\ Judged /\ usb # "probe"
          /\ pc'[Worker] = "done"
          /\ \A t \in Users \ {Worker} : pc'[t] = pc[t]
      BY <1>3 DEF WarmupComplete
    <2>2. QED
      BY <2>1
  <1>4. QED
    BY <1>1, <1>2, <1>3 DEF WorkerStep

\* infnoise_read_data keeps WarmInv: without PRESENT it only fails.
LEMMA ReadDataWarm ==
    ASSUME TypeOK, UsbInv, WarmInv, NEW t \in Users, ReadData(t)
    PROVE  WarmInv'
  <1>1. /\ UNCHANGED <<usb, warmup_done>>
        /\ FlagsGrow
        /\ \A u \in Users : u # t => pc'[u] = pc[u] /\ ret'[u] = ret[u]
    BY DEF ReadData, DataGone, DataSqueeze, DataTransfer, TransferFault, TransferError,
           TransferDone, Goto, Return, TypeOK, FlagsGrow, usbVars, callVars
  <1>2. usb # "probe"
    BY ThreadsDiffer
    DEF UsbInv, WarmInv, ReadData, DataGone, DataSqueeze, DataTransfer, TransferFault,
        TransferError, TransferDone
  <1>3. ASSUME t # Worker
        PROVE  /\ pc'[t] \in {"transfer", "unlock"}
               /\ pc'[t] = "transfer" => "WARMUP_DONE" \in flags
               /\ ret'[t] # "error" => "WARMUP_DONE" \in flags \/ pc'[t] = "transfer"
    <2> USE <1>3 DEF WarmInv, Goto, Return, AfterRead, TypeOK
    <2>1. CASE DataGone(t)
      BY <2>1 DEF DataGone
    <2>2. CASE DataSqueeze(t)
      BY <2>2 DEF DataSqueeze
    <2>3. CASE DataTransfer(t)
      BY <2>3 DEF DataTransfer
    <2>4. CASE TransferFault(t)
      BY <2>4 DEF TransferFault
    <2>5. CASE TransferError(t)
      BY <2>5 DEF TransferError
    <2>6. CASE TransferDone(t)
      BY <2>6 DEF TransferDone
    <2>7. QED
      BY <2>1, <2>2, <2>3, <2>4, <2>5, <2>6 DEF ReadData
  <1>4. t = Worker => pc'[Worker] # "complete"
    BY DEF ReadData, DataGone, DataSqueeze, DataTransfer, TransferFault, TransferError,
           TransferDone, Goto, AfterRead, TypeOK
  <1>5. Settled => Settled'
    BY <1>1 DEF Settled, Judged, FlagsGrow
  <1>6. QED
    BY <1>1, <1>2, <1>3, <1>4, <1>5, ThreadsDiffer DEF WarmInv, FlagsGrow, Judged, Users

\* infnoise_hwrng_read keeps WarmInv.
LEMMA RngWarm ==
    ASSUME TypeOK, UsbInv, WarmInv,
           (\E wait \in BOOLEAN : RngCall(wait)) \/ RngInterrupted \/ RngLock \/ RngStep
    PROVE  WarmInv'
  <1>1. /\ UNCHANGED <<flags, usb>>
        /\ warmup_done' # 0 => warmup_done # 0
        /\ \A u \in Users : u # Rng => pc'[u] = pc[u] /\ ret'[u] = ret[u]
    BY DEF RngCall, RngInterrupted, RngLock, RngStep, RngWake, RngRefuse, RngCheck,
           RngUnlock, Wait, Goto, Forget, TypeOK, usbVars, callVars
  <1>2. usb # "probe"
    BY ThreadsDiffer
    DEF UsbInv, WarmInv, RngCall, RngInterrupted, RngLock, RngStep, RngWake, RngRefuse,
        RngCheck, RngUnlock
  <1>3. /\ pc'[Rng] \in {"wait", "check", "idle", "lock", "data"}
        /\ pc'[Rng] \in {"lock", "data"} =>
                "WARMUP_DONE" \in flags \/ "PRESENT" \notin flags
    BY ThreadsDiffer
    DEF WarmInv, RngCall, RngInterrupted, RngLock, RngStep, RngWake, RngRefuse, RngCheck,
        RngUnlock, Goto, TypeOK
  <1>4. QED
    BY <1>1, <1>2, <1>3, ThreadsDiffer DEF WarmInv, Settled, Judged

\* The file operations keep WarmInv.
LEMMA ReaderWarm ==
    ASSUME TypeOK, UsbInv, WarmInv, NEW r \in Readers,
           \/ Open(r) \/ Close(r) \/ ReadCall(r) \/ SetRaw(r) \/ StatsCall(r)
           \/ ReadLock(r) \/ StatsLock(r) \/ ReaderStep(r)
           \/ TouchFreed(r) \/ Signal(r)
    PROVE  WarmInv'
  <1> USE ThreadsDiffer
  <1>1. /\ UNCHANGED <<flags, usb>>
        /\ warmup_done' # 0 => warmup_done # 0
        /\ \A u \in Users : u # r => pc'[u] = pc[u] /\ ret'[u] = ret[u]
    BY DEF Open, Close, ReadCall, SetRaw, StatsCall, ReadLock, StatsLock, ReaderStep,
           TouchFreed, Signal, ReadWake, ReadInterrupted, ReadCheckFailed, ReadCheck,
           ReadUnlock, ReadUnlockLast, ReadBackoff, ReadGiveUp, StatsUnlock, Leave, Goto,
           Forget, Wait, TypeOK, usbVars, callVars
  <1>2. usb # "probe"
    BY DEF UsbInv, WarmInv, Open, Close, ReadCall, SetRaw, StatsCall, ReadLock, StatsLock,
           ReaderStep, TouchFreed, Signal, ReadWake, ReadInterrupted, ReadCheckFailed,
           ReadCheck, ReadUnlock, ReadUnlockLast, ReadBackoff, ReadGiveUp, StatsUnlock,
           ReaderAt, InCall
  <1>3. \/ pc'[r] = pc[r] /\ ret'[r] = ret[r]
        \/ pc'[r] \in {"open", "closed", "wait", "stats lock", "stats", "lost"}
        \/ pc'[r] = "check" /\ Settled
        \/ /\ pc'[r] \in {"lock", "data", "sleep"}
           /\ "WARMUP_DONE" \in flags \/ "PRESENT" \notin flags
    <2>1. CASE Open(r) \/ Close(r) \/ SetRaw(r) \/ StatsCall(r) \/ StatsLock(r)
               \/ TouchFreed(r) \/ Signal(r)
      BY <2>1 DEF Open, Close, SetRaw, StatsCall, StatsLock, TouchFreed, Signal, Goto,
                  TypeOK, callVars
    <2>2. CASE ReadInterrupted(r) \/ ReadCheckFailed(r) \/ ReadUnlockLast(r)
               \/ ReadGiveUp(r) \/ StatsUnlock(r)
      BY <2>2 DEF ReadInterrupted, ReadCheckFailed, ReadUnlockLast, ReadGiveUp,
                  StatsUnlock, Leave, Goto, TypeOK
    <2>3. CASE ReadCall(r)
      BY <2>3 DEF ReadCall, Goto, TypeOK, Settled, Judged
    <2>4. CASE ReadWake(r)
      BY <2>4 DEF ReadWake, Wait, Goto, TypeOK, WarmInv
    <2>5. CASE ReadCheck(r)
      <3>1. Settled
        BY <2>5 DEF ReadCheck, ReaderAt, WarmInv
      <3>2. QED
        BY <2>5, <3>1 DEF ReadCheck, Goto, TypeOK, Settled, Judged
    <2>6. CASE ReadLock(r) \/ ReadBackoff(r)
      BY <2>6 DEF ReadLock, ReadBackoff, ReaderAt, Goto, TypeOK, WarmInv
    <2>7. CASE ReadUnlock(r)
      <3>1. "WARMUP_DONE" \in flags
        BY <2>7 DEF ReadUnlock, ReaderAt, WarmInv
      <3>2. QED
        BY <2>7, <3>1 DEF ReadUnlock, Goto, TypeOK
    <2>8. QED
      BY <2>1, <2>2, <2>3, <2>4, <2>5, <2>6, <2>7 DEF ReaderStep
  <1>4. QED
    BY <1>1, <1>2, <1>3 DEF WarmInv, Settled, Judged

\* No data leaves the driver before the warmup has succeeded, although a reader
\* that waited does not test WARMUP_DONE again (infnoise_main.c:757-767).
THEOREM DriverDataOnlyAfterWarmup == Spec => []DataOnlyAfterWarmup
  <1>1. Init => UsbInv /\ WarmInv
    BY ThreadsDiffer DEF Init, UsbInv, WarmInv, Settled, Judged
  <1>2. ASSUME TypeOK, UsbInv, WarmInv, [Next]_vars PROVE WarmInv'
    <2>1. CASE UNCHANGED vars
      BY <1>2, <2>1 DEF vars, WarmInv, Settled, Judged
    <2>2. ASSUME NEW r \in Readers, ReadDataStep(r) PROVE WarmInv'
      BY <1>2, <2>2, ReadDataWarm, ThreadsDiffer DEF ReadDataStep
    <2>3. QED
      BY <1>2, <2>1, <2>2, UsbWarm, WorkerWarm, ReadDataWarm, RngWarm, ReaderWarm,
         ThreadsDiffer
      DEF Next, Over
  <1>3. WarmInv => DataOnlyAfterWarmup
    BY DEF WarmInv, DataOnlyAfterWarmup
  <1>4. QED
    BY <1>1, <1>2, <1>3, NextUsb, DriverTypeOK, PTL DEF Spec

-----------------------------------------------------------------------------
\* What a step of a file does to the locals of the other threads.
LEMMA ReaderLocals ==
    ASSUME TypeOK, NEW r \in Readers,
           \/ Open(r) \/ Close(r) \/ ReadCall(r) \/ SetRaw(r) \/ StatsCall(r)
           \/ ReadLock(r) \/ StatsLock(r) \/ ReaderStep(r)
           \/ TouchFreed(r) \/ Signal(r)
    PROVE  /\ UNCHANGED quality
           /\ \A t \in Users : t # r => raw'[t] = raw[t] /\ late'[t] = late[t]
  BY DEF Open, Close, ReadCall, SetRaw, StatsCall, ReadLock, StatsLock, ReaderStep,
         TouchFreed, Signal, ReadWake, ReadInterrupted, ReadCheckFailed, ReadCheck,
         ReadUnlock, ReadUnlockLast, ReadBackoff, ReadGiveUp, StatsUnlock, Leave,
         Forget, TypeOK, callVars

\* What a call of infnoise_read_data leaves alone.
LEMMA ReadDataLocals ==
    ASSUME NEW t \in Users, ReadData(t)
    PROVE  UNCHANGED <<quality, raw, late>>
  BY DEF ReadData, DataGone, DataSqueeze, DataTransfer, TransferFault, TransferError,
         TransferDone, argVars, callVars

\* So does the warmup worker.
LEMMA WorkerLocals ==
    ASSUME TypeOK, WorkerStep
    PROVE  /\ UNCHANGED <<quality, raw, late>>
           /\ \A t \in Users \ {Worker} : pc'[t] = pc[t]
  BY ThreadsDiffer
  DEF WorkerStep, WarmupStart, WarmupLock, WarmupRound, WarmupUnlock, WarmupAbandon, WarmupJudge,
      WarmupVerdict, WarmupComplete, Goto, TypeOK, callVars

\* A call of the hwrng core carries the raw switch it announced: infnoise_hwrng_read
\* reads the switch once, and probe announces only before calls are possible.
QualityInv == pc[Rng] # "idle" => quality = raw[Rng]

\* Every step keeps the call and the announcement in agreement.
LEMMA NextQuality == TypeOK /\ UsbInv /\ QualityInv /\ [Next]_vars => QualityInv'
  <1> SUFFICES ASSUME TypeOK, UsbInv, QualityInv, [Next]_vars PROVE QualityInv'
    OBVIOUS
  <1> USE ThreadsDiffer DEF QualityInv
  <1>1. CASE UsbStep \/ Disconnect
    <2>1. UNCHANGED raw /\ pc'[Rng] = pc[Rng]
      BY <1>1 DEF UsbStep, Disconnect, ProbePresent, ProbeChardev, ProbeHwrng, ProbeSchedule,
                  DisconnectComplete, DisconnectCancel, DisconnectHwrng, DisconnectDrain,
                  DisconnectChardev, DisconnectFree, Goto, TypeOK, callVars
    <2>2. quality' = quality \/ pc[Rng] = "idle"
      BY <1>1 DEF UsbStep, Disconnect, ProbePresent, ProbeChardev, ProbeHwrng, ProbeSchedule,
                  DisconnectComplete, DisconnectCancel, DisconnectHwrng, DisconnectDrain,
                  DisconnectChardev, DisconnectFree, UsbInv
    <2>3. QED
      BY <2>1, <2>2
  <1>2. CASE WorkerStep
    BY <1>2, WorkerLocals
  <1>3. ASSUME NEW t \in Users, ReadData(t) PROVE QualityInv'
    <2>1. UNCHANGED <<quality, raw>>
      BY <1>3, ReadDataLocals
    <2>2. pc[Rng] # "idle" \/ pc'[Rng] = pc[Rng]
      BY <1>3, ReadDataUsb
    <2>3. QED
      BY <2>1, <2>2
  <1>4. ASSUME NEW wait \in BOOLEAN, RngCall(wait) PROVE QualityInv'
    BY <1>4 DEF RngCall, TypeOK
  <1>5. CASE RngInterrupted \/ RngLock \/ RngStep
    BY <1>5 DEF RngInterrupted, RngLock, RngStep, RngWake, RngRefuse, RngCheck, RngUnlock,
                Goto, TypeOK, callVars
  <1>6. ASSUME NEW r \in Readers,
               \/ Open(r) \/ Close(r) \/ ReadCall(r) \/ SetRaw(r) \/ StatsCall(r)
               \/ ReadLock(r) \/ StatsLock(r) \/ ReaderStep(r)
               \/ TouchFreed(r) \/ Signal(r)
        PROVE  QualityInv'
    <2>1. UNCHANGED quality /\ raw'[Rng] = raw[Rng]
      BY <1>6, ReaderLocals
    <2>2. pc'[Rng] = pc[Rng]
      BY <1>6, ReaderUsb
    <2>3. QED
      BY <2>1, <2>2
  <1>7. CASE UNCHANGED vars
    BY <1>7 DEF vars
  <1>8. QED
    BY <1>1, <1>2, <1>3, <1>4, <1>5, <1>6, <1>7 DEF Next, Over, ReadDataStep

\* The quality announced to the hwrng core is that of the bytes it is given,
\* whoever toggles the raw switch meanwhile (infnoise_main.c:649-676).
THEOREM DriverQualityMatches == Spec => []QualityMatches
  <1>1. Init => UsbInv /\ QualityInv
    BY ThreadsDiffer DEF Init, UsbInv, QualityInv
  <1>2. QualityInv => QualityMatches
    BY DEF QualityInv, QualityMatches
  <1>3. QED
    BY <1>1, <1>2, NextUsb, NextQuality, DriverTypeOK, PTL DEF Spec

-----------------------------------------------------------------------------
\* A read that began after a health failure never passes the test of HEALTH_FAIL,
\* since nothing clears the flag.
LateInv ==
    \A t \in Users \ {Worker} : late[t] =>
        /\ "HEALTH_FAIL" \in flags
        /\ pc[t] \notin {"lock", "data", "transfer", "unlock", "sleep"}

\* No step clears HEALTH_FAIL.
LEMMA NextFails ==
    ASSUME TypeOK, [Next]_vars
    PROVE  "HEALTH_FAIL" \in flags => "HEALTH_FAIL" \in flags'
  <1>1. CASE UsbStep \/ Disconnect
    BY <1>1 DEF UsbStep, Disconnect, ProbePresent, ProbeChardev, ProbeHwrng, ProbeSchedule,
                DisconnectComplete, DisconnectCancel, DisconnectHwrng, DisconnectDrain,
                DisconnectChardev, DisconnectFree
  <1>2. CASE WorkerStep
    BY <1>2 DEF WorkerStep, WarmupStart, WarmupLock, WarmupRound, WarmupUnlock, WarmupAbandon,
                WarmupJudge, WarmupVerdict, WarmupComplete
  <1>3. ASSUME NEW t \in Users, ReadData(t)
        PROVE  "HEALTH_FAIL" \in flags => "HEALTH_FAIL" \in flags'
    BY <1>3, ReadDataUsb
  <1>4. ASSUME (\E wait \in BOOLEAN : RngCall(wait)) \/ RngInterrupted \/ RngLock \/ RngStep
        PROVE  flags' = flags
    BY <1>4 DEF RngCall, RngInterrupted, RngLock, RngStep, RngWake, RngRefuse, RngCheck,
                RngUnlock
  <1>5. ASSUME NEW r \in Readers,
               \/ Open(r) \/ Close(r) \/ ReadCall(r) \/ SetRaw(r) \/ StatsCall(r)
               \/ ReadLock(r) \/ StatsLock(r) \/ ReaderStep(r)
               \/ TouchFreed(r) \/ Signal(r)
        PROVE  flags' = flags
    BY <1>5, ReaderUsb
  <1>6. CASE UNCHANGED vars
    BY <1>6 DEF vars
  <1>7. QED
    BY <1>1, <1>2, <1>3, <1>4, <1>5, <1>6, ThreadsDiffer DEF Next, Over, ReadDataStep

\* Where the hwrng core's call is after a step of it.
LEMMA RngLate ==
    ASSUME TypeOK, LateInv,
           (\E wait \in BOOLEAN : RngCall(wait)) \/ RngInterrupted \/ RngLock \/ RngStep
    PROVE  /\ flags' = flags
           /\ \A t \in Users : t # Rng => late'[t] = late[t] /\ pc'[t] = pc[t]
           /\ late'[Rng] => /\ "HEALTH_FAIL" \in flags
                            /\ pc'[Rng] \notin {"lock", "data", "transfer", "unlock", "sleep"}
  <1> USE ThreadsDiffer DEF TypeOK, Goto, Forget
  <1>1. ASSUME NEW wait \in BOOLEAN, RngCall(wait)
        PROVE  /\ flags' = flags
               /\ \A t \in Users : t # Rng => late'[t] = late[t] /\ pc'[t] = pc[t]
               /\ late'[Rng] => "HEALTH_FAIL" \in flags
               /\ pc'[Rng] \in {"wait", "check"}
    BY <1>1 DEF RngCall
  <1>2. CASE RngLock \/ RngWake \/ RngCheck
    <2>1. flags' = flags /\ late' = late /\ \A t \in Users : t # Rng => pc'[t] = pc[t]
      BY <1>2 DEF RngLock, RngWake, RngCheck, callVars
    <2>2. CASE RngLock
      BY <2>1, <2>2 DEF RngLock, LateInv
    <2>3. CASE RngWake
      BY <2>1, <2>3 DEF RngWake, LateInv
    <2>4. CASE RngCheck
      BY <2>1, <2>4 DEF RngCheck, LateInv
    <2>5. QED
      BY <1>2, <2>2, <2>3, <2>4
  <1>3. CASE RngInterrupted \/ RngRefuse \/ RngUnlock
    BY <1>3 DEF RngInterrupted, RngRefuse, RngUnlock
  <1>4. QED
    BY <1>1, <1>2, <1>3 DEF RngStep

\* Where a file's read is after a step of it.
LEMMA ReaderLate ==
    ASSUME TypeOK, LateInv, NEW r \in Readers,
           \/ Open(r) \/ Close(r) \/ ReadCall(r) \/ SetRaw(r) \/ StatsCall(r)
           \/ ReadLock(r) \/ StatsLock(r) \/ ReaderStep(r)
           \/ TouchFreed(r) \/ Signal(r)
    PROVE  late'[r] => /\ "HEALTH_FAIL" \in flags
                       /\ pc'[r] \notin {"lock", "data", "transfer", "unlock", "sleep"}
  <1> USE ThreadsDiffer DEF TypeOK, Goto, LateInv
  <1>1. CASE Open(r) \/ Close(r) \/ SetRaw(r) \/ StatsCall(r) \/ StatsLock(r) \/ Signal(r)
    BY <1>1 DEF Open, Close, SetRaw, StatsCall, StatsLock, Signal, callVars
  <1>2. CASE ReadInterrupted(r) \/ ReadCheckFailed(r) \/ ReadUnlockLast(r)
             \/ ReadGiveUp(r) \/ StatsUnlock(r) \/ TouchFreed(r)
    <2>1. late'[r] = FALSE
      BY <1>2 DEF ReadInterrupted, ReadCheckFailed, ReadUnlockLast, ReadGiveUp,
                  StatsUnlock, TouchFreed, Leave, Forget
    <2>2. QED
      BY <2>1
  <1>3. CASE ReadCall(r)
    BY <1>3 DEF ReadCall
  <1>4. CASE ReadWake(r) \/ ReadCheck(r)
    BY <1>4 DEF ReadWake, ReadCheck, callVars
  <1>5. CASE ReadLock(r) \/ ReadBackoff(r) \/ ReadUnlock(r)
    <2>1. late'[r] = late[r] /\ pc[r] \in {"lock", "sleep", "unlock"}
      BY <1>5 DEF ReadLock, ReadBackoff, ReadUnlock, ReaderAt, callVars
    <2>2. QED
      BY <2>1
  <1>6. QED
    BY <1>1, <1>2, <1>3, <1>4, <1>5 DEF ReaderStep

\* Every step keeps a late read out of the driver's data path.
LEMMA NextLate == TypeOK /\ LateInv /\ [Next]_vars => LateInv'
  <1> SUFFICES ASSUME TypeOK, LateInv, [Next]_vars PROVE LateInv'
    OBVIOUS
  <1> USE ThreadsDiffer
  <1>1. "HEALTH_FAIL" \in flags => "HEALTH_FAIL" \in flags'
    BY NextFails
  <1>2. CASE UsbStep \/ Disconnect
    <2>1. UNCHANGED late /\ \A t \in Users \ {Worker} : pc'[t] = pc[t]
      BY <1>2 DEF UsbStep, Disconnect, ProbePresent, ProbeChardev, ProbeHwrng, ProbeSchedule,
                  DisconnectComplete, DisconnectCancel, DisconnectHwrng, DisconnectDrain,
                  DisconnectChardev, DisconnectFree, Goto, TypeOK, callVars
    <2>2. QED
      BY <1>1, <2>1 DEF LateInv
  <1>3. CASE WorkerStep
    BY <1>1, <1>3, WorkerLocals DEF LateInv
  <1>4. ASSUME NEW t \in Users, ReadData(t) PROVE LateInv'
    <2>1. late' = late /\ pc[t] \in {"data", "transfer"}
      BY <1>4, ReadDataLocals, ReadDataUsb
    <2>2. \A u \in Users : u # t => pc'[u] = pc[u]
      BY <1>4, ReadDataUsb
    <2>3. QED
      BY <1>1, <2>1, <2>2 DEF LateInv
  <1>5. ASSUME (\E wait \in BOOLEAN : RngCall(wait)) \/ RngInterrupted \/ RngLock \/ RngStep
        PROVE  LateInv'
    BY <1>5, RngLate DEF LateInv
  <1>6. ASSUME NEW r \in Readers,
               \/ Open(r) \/ Close(r) \/ ReadCall(r) \/ SetRaw(r) \/ StatsCall(r)
               \/ ReadLock(r) \/ StatsLock(r) \/ ReaderStep(r)
               \/ TouchFreed(r) \/ Signal(r)
        PROVE  LateInv'
    <2>1. \A t \in Users : t # r => late'[t] = late[t] /\ pc'[t] = pc[t]
      BY <1>6, ReaderLocals, ReaderUsb
    <2>2. late'[r] => /\ "HEALTH_FAIL" \in flags
                      /\ pc'[r] \notin {"lock", "data", "transfer", "unlock", "sleep"}
      BY <1>6, ReaderLate
    <2>3. QED
      BY <1>1, <2>1, <2>2 DEF LateInv
  <1>7. CASE UNCHANGED vars
    BY <1>7 DEF vars, LateInv
  <1>8. QED
    BY <1>2, <1>3, <1>4, <1>5, <1>6, <1>7 DEF Next, Over, ReadDataStep

\* A read begun after a health failure returns no data: the flag is tested after
\* the read began and is never cleared (infnoise_main.c:672, 766).
THEOREM DriverNoNewReadAfterFail == Spec => []NoNewReadAfterFail
  <1>1. Init => LateInv
    BY DEF Init, LateInv
  <1>2. LateInv => NoNewReadAfterFail
    BY DEF LateInv, NoNewReadAfterFail
  <1>3. QED
    BY <1>1, <1>2, NextLate, DriverTypeOK, PTL DEF Spec

-----------------------------------------------------------------------------
\* Who waits for whom.  A thread waits for the owner of the mutex, or for the warmup
\* worker to complete the warmup; disconnect waits for the worker and for the hwrng
\* core.  On a freed device a file does not wait, it touches memory that is gone.
WaitsForLock(t)   == pc[t] \in {"lock", "stats lock"} /\ ~freed
WaitsForWarmup(t) == pc[t] = "wait" /\ warmup_done = 0

WaitsFor(t, u) ==
    \/ WaitsForLock(t) /\ lock = u
    \/ WaitsForWarmup(t) /\ u = Worker

DisconnectWaitsFor(u) ==
    \/ usb = "cancel" /\ u = Worker /\ pc[u] \notin {"queued", "done"}
    \/ usb = "drain" /\ u = Rng /\ pc[u] # "idle"

\* A rank that falls along every wait.
Rank(t) == IF WaitsForWarmup(t) THEN 2 ELSE IF WaitsForLock(t) THEN 1 ELSE 0

\* The owner of the mutex works, or lost the device under its feet.
OwnerInv == lock # NoThread => Holding(lock) \/ (freed /\ pc[lock] = "lost")

\* Once disconnect has completed the warmup for all, nobody waits for it again; and
\* the worker never waits for itself.
CompletionInv ==
    /\ usb \in {"cancel", "unregister", "drain", "deregister", "free"} => warmup_done = All
    /\ pc[Worker] \in {"none", "queued", "lock", "test", "data", "transfer", "verdict",
                       "set", "complete", "done"}

\* A step that leaves the mutex alone, and moves only a thread that does not hold it
\* or goes on holding it.
LEMMA OwnerStays ==
    ASSUME TypeOK, OwnerInv, lock' = lock, freed => freed',
           NEW t, \A u \in Users : u # t => pc'[u] = pc[u],
           \/ pc[t] \notin {"data", "transfer", "unlock", "stats", "test", "lost"}
           \/ pc'[t] \in {"data", "transfer", "unlock", "stats", "test"}
           \/ freed' /\ pc'[t] = "lost"
           \/ pc'[t] = pc[t]
    PROVE  OwnerInv'
  BY DEF OwnerInv, Holding, TypeOK

\* Every step leaves the mutex with a thread that works.
LEMMA NextOwner == TypeOK /\ UsbInv /\ OwnerInv /\ [Next]_vars => OwnerInv'
  <1> SUFFICES ASSUME TypeOK, UsbInv, OwnerInv, [Next]_vars PROVE OwnerInv'
    OBVIOUS
  <1> USE ThreadsDiffer
  <1>1. CASE UsbStep \/ Disconnect
    <2>1. /\ lock' = lock /\ (freed => freed')
          /\ \A u \in Users : u # Worker => pc'[u] = pc[u]
          /\ pc'[Worker] = pc[Worker] \/ pc[Worker] \in {"none", "queued", "done"}
      BY <1>1
      DEF UsbStep, Disconnect, ProbePresent, ProbeChardev, ProbeHwrng, ProbeSchedule,
          DisconnectComplete, DisconnectCancel, DisconnectHwrng, DisconnectDrain,
          DisconnectChardev, DisconnectFree, UsbInv, Goto, TypeOK
    <2>2. QED
      BY <2>1, OwnerStays
  <1>2. CASE WorkerStep
    <2>1. CASE WarmupLock
      BY <2>1 DEF WarmupLock, Acquire, Goto, TypeOK, OwnerInv, Holding
    <2>2. CASE WarmupUnlock
      BY <2>2 DEF WarmupUnlock, Release, OwnerInv
    <2>3. CASE \/ WarmupStart \/ WarmupRound \/ WarmupAbandon \/ WarmupJudge
               \/ WarmupVerdict \/ WarmupComplete
      <3>1. /\ lock' = lock /\ freed' = freed
            /\ \A u \in Users : u # Worker => pc'[u] = pc[u]
            /\ \/ pc[Worker] \in {"queued", "verdict", "set", "complete"}
               \/ pc'[Worker] = "data"
        BY <2>3 DEF WarmupStart, WarmupRound, WarmupAbandon, WarmupJudge, WarmupVerdict,
                    WarmupComplete, Goto, TypeOK, usbVars
      <3>2. QED
        BY <3>1, OwnerStays
    <2>4. QED
      BY <1>2, <2>1, <2>2, <2>3 DEF WorkerStep
  <1>3. ASSUME NEW t \in Users, ReadData(t) PROVE OwnerInv'
    <2>1. /\ lock' = lock /\ freed' = freed
          /\ pc'[t] \in {"data", "transfer", "unlock", "test"}
      BY <1>3 DEF ReadData, DataGone, DataSqueeze, DataTransfer, TransferFault,
                  TransferError, TransferDone, Goto, AfterRead, TypeOK, usbVars
    <2>2. \A u \in Users : u # t => pc'[u] = pc[u]
      BY <1>3, ReadDataUsb
    <2>3. QED
      BY <2>1, <2>2, OwnerStays
  <1>4. ASSUME \/ \E wait \in BOOLEAN : RngCall(wait)
               \/ RngInterrupted \/ RngWake \/ RngRefuse \/ RngCheck
        PROVE  OwnerInv'
    <2>1. /\ lock' = lock /\ freed' = freed
          /\ \A u \in Users : u # Rng => pc'[u] = pc[u]
          /\ pc[Rng] \in {"idle", "wait", "check"}
      BY <1>4 DEF RngCall, RngInterrupted, RngWake, RngRefuse, RngCheck, Goto, TypeOK,
                  usbVars
    <2>2. QED
      BY <2>1, OwnerStays
  <1>5. CASE RngLock
    BY <1>5 DEF RngLock, Acquire, Goto, TypeOK, OwnerInv, Holding
  <1>6. CASE RngUnlock
    BY <1>6 DEF RngUnlock, Release, OwnerInv
  <1>7. ASSUME NEW r \in Readers,
               \/ Open(r) \/ Close(r) \/ ReadCall(r) \/ SetRaw(r) \/ StatsCall(r)
               \/ TouchFreed(r) \/ Signal(r) \/ ReadWake(r) \/ ReadInterrupted(r)
               \/ ReadCheckFailed(r) \/ ReadCheck(r) \/ ReadBackoff(r) \/ ReadGiveUp(r)
        PROVE  OwnerInv'
    <2>1. /\ lock' = lock /\ freed' = freed
          /\ \/ pc[r] \in {"open", "closed", "wait", "check", "sleep"}
             \/ freed /\ pc'[r] = "lost"
             \/ pc'[r] = pc[r]
      BY <1>7
      DEF Open, Close, ReadCall, SetRaw, StatsCall, TouchFreed, Signal, ReadWake, ReaderAt,
          ReadInterrupted, ReadCheckFailed, ReadCheck, ReadBackoff, ReadGiveUp, Goto,
          TypeOK, usbVars
    <2>2. \A u \in Users : u # r => pc'[u] = pc[u]
      BY <1>7, ReaderUsb DEF ReaderStep
    <2>3. QED
      BY <2>1, <2>2, OwnerStays
  <1>8. ASSUME NEW r \in Readers, ReadLock(r) \/ StatsLock(r) PROVE OwnerInv'
    BY <1>8 DEF ReadLock, StatsLock, Acquire, Goto, TypeOK, OwnerInv, Holding
  <1>9. ASSUME NEW r \in Readers, ReadUnlock(r) \/ ReadUnlockLast(r) \/ StatsUnlock(r)
        PROVE  OwnerInv'
    BY <1>9 DEF ReadUnlock, ReadUnlockLast, StatsUnlock, Release, OwnerInv
  <1>10. CASE UNCHANGED vars
    BY <1>10 DEF vars, OwnerInv, Holding
  <1>11. QED
    BY <1>1, <1>2, <1>3, <1>4, <1>5, <1>6, <1>7, <1>8, <1>9, <1>10
    DEF Next, Over, RngStep, ReaderStep, ReadDataStep

\* Every step keeps the completion complete and the worker where a worker can be.
LEMMA NextCompletion == TypeOK /\ CompletionInv /\ [Next]_vars => CompletionInv'
  <1> SUFFICES ASSUME TypeOK, CompletionInv, [Next]_vars PROVE CompletionInv'
    OBVIOUS
  <1> USE ThreadsDiffer DEF CompletionInv, usbVars
  <1>1. CASE UsbStep \/ Disconnect
    BY <1>1
    DEF UsbStep, Disconnect, ProbePresent, ProbeChardev, ProbeHwrng, ProbeSchedule,
        DisconnectComplete, DisconnectCancel, DisconnectHwrng, DisconnectDrain,
        DisconnectChardev, DisconnectFree, Goto, TypeOK
  <1>2. CASE WorkerStep
    BY <1>2 DEF WorkerStep, WarmupStart, WarmupLock, WarmupRound, WarmupUnlock, WarmupAbandon,
                WarmupJudge, WarmupVerdict, WarmupComplete, Goto, TypeOK
  <1>3. ASSUME NEW t \in Users, ReadData(t) PROVE CompletionInv'
    <2>1. UNCHANGED <<usb, warmup_done>> /\ (t = Worker => pc'[t] \in {"data", "transfer", "test"})
      BY <1>3 DEF ReadData, DataGone, DataSqueeze, DataTransfer, TransferFault,
                  TransferError, TransferDone, Goto, AfterRead, TypeOK
    <2>2. \A u \in Users : u # t => pc'[u] = pc[u]
      BY <1>3, ReadDataUsb
    <2>3. QED
      BY <2>1, <2>2
  <1>4. ASSUME (\E wait \in BOOLEAN : RngCall(wait)) \/ RngInterrupted \/ RngLock \/ RngStep
        PROVE  CompletionInv'
    BY <1>4 DEF RngCall, RngInterrupted, RngLock, RngStep, RngWake, RngRefuse, RngCheck,
                RngUnlock, Wait, Goto, TypeOK
  <1>5. ASSUME NEW r \in Readers,
               \/ Open(r) \/ Close(r) \/ ReadCall(r) \/ SetRaw(r) \/ StatsCall(r)
               \/ ReadLock(r) \/ StatsLock(r) \/ ReaderStep(r)
               \/ TouchFreed(r) \/ Signal(r)
        PROVE  CompletionInv'
    <2>1. warmup_done = All => warmup_done' = All
      BY <1>5
      DEF Open, Close, ReadCall, SetRaw, StatsCall, ReadLock, StatsLock, ReaderStep,
          TouchFreed, Signal, ReadWake, ReadInterrupted, ReadCheckFailed, ReadCheck,
          ReadUnlock, ReadUnlockLast, ReadBackoff, ReadGiveUp, StatsUnlock, Wait
    <2>2. usb' = usb /\ pc'[Worker] = pc[Worker]
      BY <1>5, ReaderUsb
    <2>3. QED
      BY <2>1, <2>2
  <1>6. CASE UNCHANGED vars
    BY <1>6 DEF vars
  <1>7. QED
    BY <1>1, <1>2, <1>3, <1>4, <1>5, <1>6 DEF Next, Over, ReadDataStep

\* All of it holds in every state.
LEMMA AlwaysWaits == Spec => [](TypeOK /\ UsbInv /\ OwnerInv /\ CompletionInv)
  <1>1. Init => UsbInv /\ OwnerInv /\ CompletionInv
    BY ThreadsDiffer DEF Init, UsbInv, OwnerInv, CompletionInv
  <1>2. QED
    BY <1>1, NextUsb, NextOwner, NextCompletion, DriverTypeOK, PTL DEF Spec

\* Nobody waits in a circle: readers and the hwrng core for the mutex or the warmup,
\* the warmup worker for the mutex, disconnect for the worker and the hwrng core.  The
\* owner of the mutex is a thread inside, which waits for nobody; and disconnect, which
\* ends the wait for the warmup, waits for nobody who is in it.  This is what
\* DisconnectEnds rests on beside the fairness of the threads: without complete_all
\* before cancel_work_sync and hwrng_unregister, or with a path that keeps the mutex, it
\* would not hold (infnoise_main.c:662, 761, 969-1003).
NoWaitCycle ==
    /\ ~freed /\ lock # NoThread => Holding(lock)
    /\ \A t, u \in Users : WaitsFor(t, u) => Rank(u) < Rank(t)
    /\ \A u \in Users : DisconnectWaitsFor(u) => Rank(u) < 2

THEOREM DriverNoWaitCycle == Spec => []NoWaitCycle
  <1>1. ASSUME TypeOK, UsbInv, OwnerInv, CompletionInv
        PROVE  NoWaitCycle
    <2>1. ~freed /\ lock # NoThread => Holding(lock)
      BY <1>1 DEF OwnerInv
    <2>2. ASSUME NEW t \in Users, NEW u \in Users, WaitsFor(t, u)
          PROVE  Rank(u) < Rank(t)
      <3>1. CASE WaitsForLock(t) /\ lock = u
        <4>1. Holding(u)
          BY <2>1, <3>1, ThreadsDiffer DEF WaitsForLock
        <4>2. Rank(u) = 0
          BY <4>1 DEF Holding, Rank, WaitsForWarmup, WaitsForLock
        <4>3. Rank(t) > 0
          BY <3>1 DEF Rank
        <4>4. QED
          BY <4>2, <4>3
      <3>2. CASE WaitsForWarmup(t) /\ u = Worker
        <4>1. Rank(t) = 2
          BY <3>2 DEF Rank
        <4>2. ~WaitsForWarmup(u)
          BY <1>1, <3>2 DEF CompletionInv, WaitsForWarmup
        <4>3. QED
          BY <4>1, <4>2 DEF Rank
      <3>3. QED
        BY <2>2, <3>1, <3>2 DEF WaitsFor
    <2>3. ASSUME NEW u \in Users, DisconnectWaitsFor(u)
          PROVE  Rank(u) < 2
      <3>1. ~WaitsForWarmup(u)
        BY <1>1, <2>3 DEF CompletionInv, DisconnectWaitsFor, WaitsForWarmup, All
      <3>2. QED
        BY <3>1 DEF Rank
    <2>4. QED
      BY <2>1, <2>2, <2>3 DEF NoWaitCycle
  <1>2. QED
    BY <1>1, AlwaysWaits, PTL

-----------------------------------------------------------------------------
\* How many more steps the warmup worker can take, apart from attempts of a transfer
\* that met a fault: three for each round that is left, and those around the loop.
WarmupLeftAt(where, round) ==
    CASE where = "none"     -> 3 * (WarmupRounds - round) + 7
      [] where = "queued"   -> 3 * (WarmupRounds - round) + 6
      [] where = "lock"     -> 3 * (WarmupRounds - round) + 5
      [] where = "data"     -> 3 * (WarmupRounds - round) + 6
      [] where = "transfer" -> 3 * (WarmupRounds - round) + 5
      [] where = "test"     -> 3 * (WarmupRounds - round) + 4
      [] where = "verdict"  -> 3
      [] where = "set"      -> 2
      [] where = "complete" -> 1
      [] where = "done"     -> 0

WarmupLeft == WarmupLeftAt(pc[Worker], rounds)

\* Each step of the worker brings it to a place with less to do.
LEMMA PlacesDescend ==
    ASSUME NEW n \in 0..WarmupRounds
    PROVE  /\ WarmupLeftAt("queued", n) < WarmupLeftAt("none", n)
           /\ WarmupLeftAt("lock", n) < WarmupLeftAt("queued", n)
           /\ WarmupLeftAt("test", n) < WarmupLeftAt("lock", n)
           /\ WarmupLeftAt("data", n + 1) < WarmupLeftAt("test", n)
           /\ WarmupLeftAt("transfer", n) < WarmupLeftAt("data", n)
           /\ WarmupLeftAt("test", n) < WarmupLeftAt("data", n)
           /\ WarmupLeftAt("test", n) < WarmupLeftAt("transfer", n)
           /\ WarmupLeftAt("verdict", n) < WarmupLeftAt("test", n)
           /\ WarmupLeftAt("set", n) < WarmupLeftAt("verdict", n)
           /\ WarmupLeftAt("complete", n) < WarmupLeftAt("set", n)
           /\ WarmupLeftAt("done", n) < WarmupLeftAt("verdict", n)
           /\ WarmupLeftAt("done", n) < WarmupLeftAt("complete", n)
           /\ WarmupLeftAt("done", n) < WarmupLeftAt("queued", n)
  BY BoundAssumption DEF WarmupLeftAt

\* It is a number of steps.
LEMMA WarmupLeftType ==
    ASSUME TypeOK, CompletionInv
    PROVE  WarmupLeft \in 0..(3 * WarmupRounds + 7)
  <1>1. WarmupRounds \in Nat /\ rounds \in 0..WarmupRounds
    BY BoundAssumption DEF TypeOK
  <1> DEFINE Bounded(where) == WarmupLeftAt(where, rounds) \in 0..(3 * WarmupRounds + 7)
  <1>2. /\ Bounded("none") /\ Bounded("queued") /\ Bounded("lock")
        /\ Bounded("data") /\ Bounded("transfer")
        /\ Bounded("test") /\ Bounded("verdict") /\ Bounded("set") /\ Bounded("complete")
        /\ Bounded("done")
    BY <1>1 DEF WarmupLeftAt
  <1> HIDE DEF Bounded
  <1>3. Bounded(pc[Worker])
    BY <1>2 DEF CompletionInv
  <1>4. QED
    BY <1>3 DEF Bounded, WarmupLeft

\* Every step of the worker is one of them.
LEMMA WorkerProgress ==
    ASSUME TypeOK, WorkerStep
    PROVE  WarmupLeft' < WarmupLeft
  <1> USE ThreadsDiffer, PlacesDescend DEF WarmupLeft, Goto
  <1>0. rounds \in 0..WarmupRounds
    BY DEF TypeOK
  <1>1. \A where : Goto(Worker, where) => pc'[Worker] = where
    BY DEF TypeOK
  <1>2. CASE WarmupStart \/ WarmupLock
    BY <1>0, <1>1, <1>2 DEF WarmupStart, WarmupLock
  <1>3. CASE WarmupRound
    BY <1>0, <1>1, <1>3 DEF WarmupRound
  <1>4. CASE WarmupUnlock
    BY <1>0, <1>1, <1>4 DEF WarmupUnlock
  <1>5. CASE WarmupAbandon \/ WarmupJudge
    BY <1>0, <1>1, <1>5 DEF WarmupAbandon, WarmupJudge
  <1>6. CASE WarmupVerdict
    BY <1>0, <1>1, <1>6 DEF WarmupVerdict
  <1>7. CASE WarmupComplete
    BY <1>0, <1>1, <1>7 DEF WarmupComplete
  <1>8. QED
    BY <1>2, <1>3, <1>4, <1>5, <1>6, <1>7 DEF WorkerStep

\* So is every step of its calls of infnoise_read_data, but an attempt that is tried
\* again.
LEMMA WorkerReadProgress ==
    ASSUME TypeOK, ReadData(Worker)
    PROVE  WarmupLeft' < WarmupLeft \/ UNCHANGED <<pc[Worker], rounds>>
  <1> USE ThreadsDiffer, PlacesDescend DEF WarmupLeft, Goto
  <1>0. rounds \in 0..WarmupRounds
    BY DEF TypeOK
  <1>1. \A where : Goto(Worker, where) => pc'[Worker] = where
    BY DEF TypeOK
  <1>2. CASE DataGone(Worker)
    BY <1>0, <1>1, <1>2 DEF DataGone, AfterRead
  <1>3. CASE DataSqueeze(Worker)
    BY <1>0, <1>1, <1>3 DEF DataSqueeze, AfterRead
  <1>4. CASE DataTransfer(Worker)
    BY <1>0, <1>1, <1>4 DEF DataTransfer
  <1>5. CASE TransferFault(Worker)
    BY <1>5 DEF TransferFault
  <1>6. CASE TransferError(Worker)
    BY <1>0, <1>1, <1>6 DEF TransferError, AfterRead
  <1>7. CASE TransferDone(Worker)
    BY <1>0, <1>1, <1>7 DEF TransferDone, AfterRead
  <1>8. QED
    BY <1>2, <1>3, <1>4, <1>5, <1>6, <1>7 DEF ReadData

\* No step of any thread gives the worker more to do.
LEMMA WarmupNearer ==
    ASSUME TypeOK, UsbInv, [Next]_vars
    PROVE  WarmupLeft' < WarmupLeft \/ UNCHANGED <<pc[Worker], rounds>>
  <1> USE ThreadsDiffer
  <1>1. CASE ProbeSchedule
    <2>1. pc[Worker] = "none" /\ pc'[Worker] = "queued" /\ rounds' = rounds
      BY <1>1 DEF ProbeSchedule, UsbInv, Goto, TypeOK
    <2>2. QED
      BY <2>1, PlacesDescend DEF WarmupLeft, TypeOK
  <1>2. CASE DisconnectCancel
    <2>1. pc[Worker] \in {"queued", "done"} /\ pc'[Worker] = "done" /\ rounds' = rounds
      BY <1>2 DEF DisconnectCancel, Goto, TypeOK
    <2>2. QED
      BY <2>1, PlacesDescend DEF WarmupLeft, TypeOK
  <1>3. ASSUME UsbStep \/ Disconnect, ~ProbeSchedule, ~DisconnectCancel
        PROVE  UNCHANGED <<pc[Worker], rounds>>
    BY <1>3
    DEF UsbStep, Disconnect, ProbePresent, ProbeChardev, ProbeHwrng, DisconnectComplete,
        DisconnectHwrng, DisconnectDrain, DisconnectChardev, DisconnectFree
  <1>4. CASE WorkerStep
    BY <1>4, WorkerProgress
  <1>5. CASE ReadData(Worker)
    BY <1>5, WorkerReadProgress
  <1>6. ASSUME NEW t \in Users, t # Worker, ReadData(t)
        PROVE  UNCHANGED <<pc[Worker], rounds>>
    <2>1. pc'[Worker] = pc[Worker]
      BY <1>6, ReadDataUsb
    <2>2. rounds' = rounds
      BY <1>6 DEF ReadData, DataGone, DataSqueeze, DataTransfer, TransferFault,
                  TransferError, TransferDone
    <2>3. QED
      BY <2>1, <2>2
  <1>7. ASSUME (\E wait \in BOOLEAN : RngCall(wait)) \/ RngInterrupted \/ RngLock \/ RngStep
        PROVE  UNCHANGED <<pc[Worker], rounds>>
    BY <1>7 DEF RngCall, RngInterrupted, RngLock, RngStep, RngWake, RngRefuse,
                      RngCheck, RngUnlock, Goto, TypeOK
  <1>8. ASSUME NEW r \in Readers,
               \/ Open(r) \/ Close(r) \/ ReadCall(r) \/ SetRaw(r) \/ StatsCall(r)
               \/ ReadLock(r) \/ StatsLock(r) \/ ReaderStep(r)
               \/ TouchFreed(r) \/ Signal(r)
        PROVE  UNCHANGED <<pc[Worker], rounds>>
    <2>1. pc'[Worker] = pc[Worker]
      BY <1>8, ReaderUsb
    <2>2. rounds' = rounds
      BY <1>8
      DEF Open, Close, ReadCall, SetRaw, StatsCall, ReadLock, StatsLock, ReaderStep,
          TouchFreed, Signal, ReadWake, ReadInterrupted, ReadCheckFailed, ReadCheck,
          ReadUnlock, ReadUnlockLast, ReadBackoff, ReadGiveUp, StatsUnlock
    <2>3. QED
      BY <2>1, <2>2
  <1>9. CASE UNCHANGED vars
    BY <1>9 DEF vars
  <1>10. QED
    BY <1>1, <1>2, <1>3, <1>4, <1>5, <1>6, <1>7, <1>8, <1>9
    DEF Next, Over, ReadDataStep

\* The warmup is over after WARMUP_ROUNDS rounds, whatever the device sends, whoever
\* reads or disconnects meanwhile: no step of any thread gives the worker more to do,
\* and every step of its own leaves it less, but for a fault that the transfer tries
\* again (a bounded number of times, see InfnoiseTransfer).  This is what WarmupEnds
\* rests on beside the fairness of the worker (infnoise_main.c:605-642).
BoundedWarmup ==
    /\ [](WarmupLeft \in 0..(3 * WarmupRounds + 7))
    /\ [][WarmupLeft' < WarmupLeft \/ UNCHANGED <<pc[Worker], rounds>>]_vars

THEOREM DriverWarmupProgress == Spec => BoundedWarmup
  <1>1. TypeOK /\ UsbInv /\ [Next]_vars =>
            [WarmupLeft' < WarmupLeft \/ UNCHANGED <<pc[Worker], rounds>>]_vars
    BY WarmupNearer
  <1>2. TypeOK /\ CompletionInv => WarmupLeft \in 0..(3 * WarmupRounds + 7)
    BY WarmupLeftType
  <1>3. QED
    BY <1>1, <1>2, AlwaysWaits, PTL DEF Spec, BoundedWarmup

-----------------------------------------------------------------------------
\* How many more steps a call on /dev/infnoiseX takes once a signal is pending, when it
\* has copied out some chunks: four for each chunk that is left (one of them is the wait
\* for dev->lock), and those before the loop.
CallLeftAt(where, copied) ==
    CASE where = "wait"       -> 4 * (Count - copied) + 3
      [] where = "check"      -> 4 * (Count - copied) + 2
      [] where = "lock"       -> 4 * (Count - copied) + 1
      [] where = "data"       -> 4 * (Count - copied)
      [] where = "transfer"   -> 4 * (Count - copied) - 1
      [] where = "unlock"     -> 4 * (Count - copied) - 2
      [] where = "stats lock" -> 2
      [] where = "stats"      -> 1
      [] where = "sleep"      -> 1
      [] OTHER                -> 0

CallLeft(r) == CallLeftAt(pc[r], got[r])

\* Each step of a call leads to a place with less to do; out of the back-off only the
\* return does.
LEMMA CallDescends ==
    ASSUME NEW n \in 0..(Count - 1)
    PROVE  /\ CallLeftAt("check", n) < CallLeftAt("wait", n)
           /\ CallLeftAt("lock", n) < CallLeftAt("check", n)
           /\ CallLeftAt("data", n) < CallLeftAt("lock", n)
           /\ CallLeftAt("transfer", n) < CallLeftAt("data", n)
           /\ CallLeftAt("unlock", n) < CallLeftAt("data", n)
           /\ CallLeftAt("unlock", n) < CallLeftAt("transfer", n)
           /\ CallLeftAt("lock", n + 1) < CallLeftAt("unlock", n)
           /\ CallLeftAt("sleep", n) < CallLeftAt("unlock", n)
           /\ CallLeftAt("stats", n) < CallLeftAt("stats lock", n)
  BY BoundAssumption DEF CallLeftAt

\* A place in a call is followed by at least one step, a place outside by none.
LEMMA CallReturns ==
    ASSUME NEW n \in 0..(Count - 1), NEW where \in InCall
    PROVE  /\ CallLeftAt("open", 0) < CallLeftAt(where, n)
           /\ CallLeftAt("lost", 0) < CallLeftAt(where, n)
  <1>1. Count \in Nat \ {0}
    BY BoundAssumption
  <1> DEFINE Positive(place) == CallLeftAt(place, n) > 0
  <1>2. /\ Positive("wait") /\ Positive("check") /\ Positive("lock") /\ Positive("data")
        /\ Positive("transfer") /\ Positive("unlock") /\ Positive("sleep")
        /\ Positive("stats lock") /\ Positive("stats")
    BY <1>1 DEF CallLeftAt
  <1>3. CallLeftAt("open", 0) = 0 /\ CallLeftAt("lost", 0) = 0
    BY DEF CallLeftAt
  <1> HIDE DEF Positive
  <1>4. Positive(where)
    BY <1>2 DEF InCall
  <1>5. CallLeftAt(where, n) > 0
    BY <1>4 DEF Positive
  <1>6. QED
    BY <1>3, <1>5

\* It is a number of steps.
LEMMA CallLeftType ==
    ASSUME TypeOK, NEW r \in Readers
    PROVE  CallLeft(r) \in 0..(4 * Count + 3)
  <1>1. Count \in Nat \ {0} /\ got[r] \in 0..(Count - 1)
    BY BoundAssumption DEF TypeOK
  <1> DEFINE Bounded(where) == CallLeftAt(where, got[r]) \in 0..(4 * Count + 3)
  <1>2. /\ Bounded("wait") /\ Bounded("check") /\ Bounded("lock") /\ Bounded("data")
        /\ Bounded("transfer") /\ Bounded("unlock") /\ Bounded("sleep")
        /\ Bounded("stats lock") /\ Bounded("stats")
    BY <1>1 DEF CallLeftAt
  <1>3. ASSUME pc[r] \notin InCall
        PROVE  CallLeftAt(pc[r], got[r]) = 0
    BY <1>3 DEF CallLeftAt, InCall
  <1>4. CASE pc[r] \notin InCall
    BY <1>1, <1>3, <1>4 DEF CallLeft
  <1> HIDE DEF Bounded
  <1>5. ASSUME pc[r] \in InCall
        PROVE  Bounded(pc[r])
    BY <1>2, <1>5 DEF InCall
  <1>6. QED
    BY <1>4, <1>5 DEF Bounded, CallLeft

\* One call, seen from a reader with a signal: nearer to its return with the signal still
\* there, returned, or unmoved.
Nearer(r) ==
    /\ CallLeft(r)' < CallLeft(r)
    /\ pc'[r] \in InCall => signal'[r]

Unmoved(r) == UNCHANGED <<pc[r], got[r], signal[r]>>

\* A return of the call.
LEMMA LeaveNearer ==
    ASSUME TypeOK, NEW r \in Readers, pc[r] \in InCall, Leave(r)
    PROVE  Nearer(r)
  <1>1. pc'[r] = "open" /\ got'[r] = 0
    BY DEF Leave, Goto, TypeOK, Users
  <1>2. CallLeft(r)' = CallLeftAt("open", 0)
    BY <1>1 DEF CallLeft
  <1>3. CallLeftAt("open", 0) < CallLeft(r)
    BY CallReturns DEF CallLeft, TypeOK
  <1>4. pc'[r] \notin InCall
    BY <1>1 DEF InCall
  <1>5. QED
    BY <1>2, <1>3, <1>4 DEF Nearer

\* A step that goes on, with the chunks it had.
LEMMA GotoNearer ==
    ASSUME TypeOK, NEW r \in Readers, NEW where, Goto(r, where),
           CallLeftAt(where, got[r]) < CallLeftAt(pc[r], got[r]),
           got'[r] = got[r], signal' = signal, signal[r]
    PROVE  Nearer(r)
  <1>1. pc'[r] = where
    BY DEF Goto, TypeOK, Users
  <1>2. QED
    BY <1>1 DEF Nearer, CallLeft

\* Every step of a call, but the entries into one and the attempt of a transfer that is
\* tried again.
LEMMA ReaderProgress ==
    ASSUME TypeOK, NEW r \in Readers, pc[r] \in InCall, signal[r],
           ReadLock(r) \/ StatsLock(r) \/ ReaderStep(r) \/ TouchFreed(r)
    PROVE  Nearer(r)
  <1>0. got[r] \in 0..(Count - 1)
    BY DEF TypeOK
  <1>1. CASE ReadWake(r)
    BY <1>0, <1>1, GotoNearer, CallDescends DEF ReadWake, ReaderAt, callVars
  <1>2. CASE ReadCheck(r)
    BY <1>0, <1>2, GotoNearer, CallDescends DEF ReadCheck, ReaderAt, callVars
  <1>3. CASE ReadLock(r)
    BY <1>0, <1>3, GotoNearer, CallDescends DEF ReadLock, ReaderAt
  <1>4. CASE StatsLock(r)
    BY <1>0, <1>4, GotoNearer, CallDescends DEF StatsLock, ReaderAt, callVars
  <1>5. CASE \/ ReadInterrupted(r) \/ ReadCheckFailed(r) \/ ReadUnlockLast(r)
             \/ ReadGiveUp(r) \/ StatsUnlock(r)
    BY <1>5, LeaveNearer
    DEF ReadInterrupted, ReadCheckFailed, ReadUnlockLast, ReadGiveUp, StatsUnlock
  <1>6. CASE ReadUnlock(r)
    <2>1. CASE Goto(r, "lock") /\ got' = [got EXCEPT ![r] = @ + 1]
      <3>1. pc'[r] = "lock" /\ got'[r] = got[r] + 1 /\ pc[r] = "unlock" /\ signal' = signal
        BY <1>6, <2>1 DEF ReadUnlock, ReaderAt, Goto, TypeOK, Users
      <3>2. QED
        BY <1>0, <3>1, CallDescends DEF Nearer, CallLeft
    <2>2. CASE Goto(r, "sleep") /\ UNCHANGED got
      BY <1>0, <1>6, <2>2, GotoNearer, CallDescends DEF ReadUnlock, ReaderAt
    <2>3. QED
      BY <1>6, <2>1, <2>2 DEF ReadUnlock
  <1>7. ~ReadBackoff(r)
    BY DEF ReadBackoff
  <1>8. CASE TouchFreed(r)
    <2>1. pc'[r] = "lost" /\ got'[r] = 0
      BY <1>8 DEF TouchFreed, Goto, TypeOK, Users
    <2>2. CallLeft(r)' = CallLeftAt("lost", 0)
      BY <2>1 DEF CallLeft
    <2>3. CallLeftAt("lost", 0) < CallLeft(r)
      BY CallReturns DEF CallLeft, TypeOK
    <2>4. pc'[r] \notin InCall
      BY <2>1 DEF InCall
    <2>5. QED
      BY <2>2, <2>3, <2>4 DEF Nearer
  <1>9. QED
    BY <1>1, <1>2, <1>3, <1>4, <1>5, <1>6, <1>7, <1>8 DEF ReaderStep

\* The steps of its infnoise_read_data.
LEMMA ReaderReadProgress ==
    ASSUME TypeOK, NEW r \in Readers, signal[r], ReadData(r)
    PROVE  Nearer(r) \/ Unmoved(r)
  <1>0. got[r] \in 0..(Count - 1) /\ AfterRead(r) = "unlock"
    BY ThreadsDiffer DEF TypeOK, AfterRead
  <1> USE DEF argVars, callVars
  <1>1. CASE DataGone(r)
    BY <1>0, <1>1, GotoNearer, CallDescends DEF DataGone
  <1>2. CASE DataSqueeze(r)
    BY <1>0, <1>2, GotoNearer, CallDescends DEF DataSqueeze
  <1>3. CASE DataTransfer(r)
    BY <1>0, <1>3, GotoNearer, CallDescends DEF DataTransfer
  <1>4. CASE TransferFault(r)
    BY <1>4 DEF TransferFault, Unmoved
  <1>5. CASE TransferError(r)
    BY <1>0, <1>5, GotoNearer, CallDescends DEF TransferError
  <1>6. CASE TransferDone(r)
    BY <1>0, <1>6, GotoNearer, CallDescends DEF TransferDone
  <1>7. QED
    BY <1>1, <1>2, <1>3, <1>4, <1>5, <1>6 DEF ReadData

\* A signal ends a blocking call: once it is pending, no step of any thread gives the
\* call more to do or takes the signal away before the return, and every step of the
\* reader leaves it less, but for a fault that the transfer tries again; the back-off of a
\* device that sends nothing is left by the return only.  This is what SignalReturns
\* rests on beside the fairness of the reader and of dev->lock (infnoise_main.c:761, 788).
BoundedSignal ==
    /\ [](\A r \in Readers : CallLeft(r) \in 0..(4 * Count + 3))
    /\ [][\A r \in Readers : pc[r] \in InCall /\ signal[r] => Nearer(r) \/ Unmoved(r)]_vars

THEOREM DriverSignalProgress == Spec => BoundedSignal
  <1> USE ThreadsDiffer
  <1>1. ASSUME TypeOK, [Next]_vars, NEW r \in Readers, pc[r] \in InCall, signal[r]
        PROVE  Nearer(r) \/ Unmoved(r)
    <2> USE DEF Unmoved
    <2>1. ASSUME UsbStep \/ Disconnect
          PROVE  Unmoved(r)
      <3>1. pc'[r] = pc[r]
        BY <1>1, <2>1
        DEF UsbStep, Disconnect, ProbePresent, ProbeChardev, ProbeHwrng, ProbeSchedule,
            DisconnectComplete, DisconnectCancel, DisconnectHwrng, DisconnectDrain,
            DisconnectChardev, DisconnectFree, Goto, TypeOK, Users
      <3>2. UNCHANGED <<got, signal>>
        BY <2>1
        DEF UsbStep, Disconnect, ProbePresent, ProbeChardev, ProbeHwrng, ProbeSchedule,
            DisconnectComplete, DisconnectCancel, DisconnectHwrng, DisconnectDrain,
            DisconnectChardev, DisconnectFree, callVars
      <3>3. QED
        BY <3>1, <3>2
    <2>2. CASE WorkerStep
      BY <1>1, <2>2
      DEF WorkerStep, WarmupStart, WarmupLock, WarmupRound, WarmupUnlock, WarmupAbandon, WarmupJudge,
          WarmupVerdict, WarmupComplete, Goto, TypeOK, Users, callVars
    <2>3. ASSUME NEW t \in Users, t # r, ReadData(t)
          PROVE  Unmoved(r)
      <3>1. pc'[r] = pc[r]
        BY <1>1, <2>3, ReadDataUsb DEF Users
      <3>2. UNCHANGED <<got, signal>>
        BY <2>3 DEF ReadData, DataGone, DataSqueeze, DataTransfer, TransferFault,
                    TransferError, TransferDone, argVars, callVars
      <3>3. QED
        BY <3>1, <3>2
    <2>4. CASE ReadData(r)
      BY <1>1, <2>4, ReaderReadProgress
    <2>5. ASSUME (\E wait \in BOOLEAN : RngCall(wait)) \/ RngInterrupted \/ RngLock \/ RngStep
          PROVE  Unmoved(r)
      BY <1>1, <2>5 DEF RngCall, RngInterrupted, RngLock, RngStep, RngWake, RngRefuse,
                        RngCheck, RngUnlock, Goto, TypeOK, Users, callVars
    <2>6. ASSUME NEW q \in Readers, q # r,
                 \/ Open(q) \/ Close(q) \/ ReadCall(q) \/ SetRaw(q) \/ StatsCall(q)
                 \/ ReadLock(q) \/ StatsLock(q) \/ ReaderStep(q)
                 \/ TouchFreed(q) \/ Signal(q)
          PROVE  Unmoved(r)
      <3>1. pc'[r] = pc[r]
        BY <1>1, <2>6, ReaderUsb DEF Users
      <3>2. got'[r] = got[r] /\ signal'[r] = signal[r]
        BY <1>1, <2>6
        DEF Open, Close, ReadCall, SetRaw, StatsCall, ReadLock, StatsLock, ReaderStep,
            TouchFreed, Signal, ReadWake, ReadInterrupted, ReadCheckFailed, ReadCheck,
            ReadUnlock, ReadUnlockLast, ReadBackoff, ReadGiveUp, StatsUnlock, Leave,
            callVars, TypeOK
      <3>3. QED
        BY <3>1, <3>2
    <2>7. ~(Open(r) \/ Close(r) \/ ReadCall(r) \/ SetRaw(r) \/ StatsCall(r) \/ Signal(r))
      BY <1>1 DEF Open, Close, ReadCall, SetRaw, StatsCall, Signal, ReaderAt, InCall
    <2>8. CASE ReadLock(r) \/ StatsLock(r) \/ ReaderStep(r) \/ TouchFreed(r)
      BY <1>1, <2>8, ReaderProgress
    <2>9. CASE UNCHANGED vars
      BY <2>9 DEF vars
    <2>10. QED
      BY <1>1, <2>1, <2>2, <2>3, <2>4, <2>5, <2>6, <2>7, <2>8, <2>9
      DEF Next, Over, ReadDataStep, Users
  <1>2. TypeOK /\ [Next]_vars =>
            [\A r \in Readers :
                pc[r] \in InCall /\ signal[r] => Nearer(r) \/ Unmoved(r)]_vars
    BY <1>1
  <1>3. TypeOK => \A r \in Readers : CallLeft(r) \in 0..(4 * Count + 3)
    BY CallLeftType
  <1>4. QED
    BY <1>2, <1>3, AlwaysWaits, PTL DEF Spec, BoundedSignal

-----------------------------------------------------------------------------
\* How many more steps a read of the hwrng core takes, apart from attempts of a transfer
\* that met a fault.
RngLeftAt(where) ==
    CASE where = "wait"     -> 6
      [] where = "check"    -> 5
      [] where = "lock"     -> 4
      [] where = "data"     -> 3
      [] where = "transfer" -> 2
      [] where = "unlock"   -> 1
      [] OTHER              -> 0

RngLeft == RngLeftAt(pc[Rng])

LEMMA RngLeftType == RngLeft \in 0..6
  BY DEF RngLeft, RngLeftAt

\* Its own steps lead nearer to its return.
LEMMA RngProgress ==
    ASSUME TypeOK, RngInterrupted \/ RngLock \/ RngStep \/ ReadData(Rng)
    PROVE  RngLeft' < RngLeft \/ pc'[Rng] = pc[Rng]
  <1> USE ThreadsDiffer DEF RngLeft
  <1>0. \A where : Goto(Rng, where) => pc'[Rng] = where
    BY DEF TypeOK, Goto
  <1> HIDE DEF Goto
  <1>1. /\ RngLeftAt("idle") < RngLeftAt("wait") /\ RngLeftAt("check") < RngLeftAt("wait")
        /\ RngLeftAt("idle") < RngLeftAt("check") /\ RngLeftAt("lock") < RngLeftAt("check")
        /\ RngLeftAt("data") < RngLeftAt("lock") /\ RngLeftAt("idle") < RngLeftAt("unlock")
        /\ RngLeftAt("transfer") < RngLeftAt("data")
        /\ RngLeftAt("unlock") < RngLeftAt("data")
        /\ RngLeftAt("unlock") < RngLeftAt("transfer")
    BY DEF RngLeftAt
  <1>2. AfterRead(Rng) = "unlock"
    BY DEF AfterRead
  <1>3. CASE RngInterrupted \/ RngLock
    BY <1>0, <1>1, <1>3 DEF RngInterrupted, RngLock
  <1>4. CASE RngStep
    BY <1>0, <1>1, <1>4 DEF RngStep, RngWake, RngRefuse, RngCheck, RngUnlock
  <1>5. CASE ReadData(Rng)
    BY <1>0, <1>1, <1>2, <1>5
    DEF ReadData, DataGone, DataSqueeze, DataTransfer, TransferFault, TransferError,
        TransferDone
  <1>6. QED
    BY <1>3, <1>4, <1>5

\* Once the hwrng core starts no more reads, no step of any thread gives the one in
\* flight more to do.
LEMMA RngNearer ==
    ASSUME TypeOK, ~rng_reg, [Next]_vars
    PROVE  RngLeft' < RngLeft \/ pc'[Rng] = pc[Rng]
  <1> USE ThreadsDiffer
  <1>1. CASE UsbStep \/ Disconnect
    BY <1>1
    DEF UsbStep, Disconnect, ProbePresent, ProbeChardev, ProbeHwrng, ProbeSchedule,
        DisconnectComplete, DisconnectCancel, DisconnectHwrng, DisconnectDrain,
        DisconnectChardev, DisconnectFree, Goto, TypeOK
  <1>2. CASE WorkerStep
    BY <1>2 DEF WorkerStep, WarmupStart, WarmupLock, WarmupRound, WarmupUnlock, WarmupAbandon,
                WarmupJudge, WarmupVerdict, WarmupComplete, Goto, TypeOK
  <1>3. ~(\E wait \in BOOLEAN : RngCall(wait))
    BY DEF RngCall
  <1>4. CASE RngInterrupted \/ RngLock \/ RngStep \/ ReadData(Rng)
    BY <1>4, RngProgress
  <1>5. ASSUME NEW t \in Users, t # Rng, ReadData(t)
        PROVE  pc'[Rng] = pc[Rng]
    BY <1>5, ReadDataUsb
  <1>6. ASSUME NEW r \in Readers,
               \/ Open(r) \/ Close(r) \/ ReadCall(r) \/ SetRaw(r) \/ StatsCall(r)
               \/ ReadLock(r) \/ StatsLock(r) \/ ReaderStep(r)
               \/ TouchFreed(r) \/ Signal(r)
        PROVE  pc'[Rng] = pc[Rng]
    BY <1>6, ReaderUsb
  <1>7. CASE UNCHANGED vars
    BY <1>7 DEF vars
  <1>8. QED
    BY <1>1, <1>2, <1>3, <1>4, <1>5, <1>6, <1>7 DEF Next, Over, ReadDataStep

\* The calls disconnect has yet to make,
UsbLeftAt(stage) ==
    CASE stage = "complete"   -> 6
      [] stage = "cancel"     -> 5
      [] stage = "unregister" -> 4
      [] stage = "drain"      -> 3
      [] stage = "deregister" -> 2
      [] stage = "free"       -> 1
      [] OTHER                -> 0

Disconnecting == UsbLeftAt(usb) > 0

\* and the steps of the thread it waits for, or is about to wait for.
Awaited ==
    IF usb \in {"complete", "cancel"} THEN WarmupLeft
    ELSE IF usb = "drain" THEN RngLeft ELSE 0

Stage == 3 * WarmupRounds + 8
DisconnectLeft == UsbLeftAt(usb) * Stage + Awaited

\* The bounds of its parts.
DisconnectBounds ==
    WarmupLeft \in 0..(Stage - 1) /\ RngLeft \in 0..(Stage - 1) /\ Stage \in Nat

\* Nothing that disconnect waits for has moved, nor has disconnect.
Standing ==
    /\ DisconnectLeft' = DisconnectLeft /\ usb' = usb
    /\ usb = "cancel" => pc'[Worker] = pc[Worker]
    /\ usb = "drain" => pc'[Rng] = pc[Rng]

\* A call of disconnect brings it to its next stage.
LEMMA DisconnectStage ==
    ASSUME TypeOK, UsbInv, Disconnecting, DisconnectBounds, DisconnectBounds', UsbStep
    PROVE  DisconnectLeft' < DisconnectLeft
  <1> USE DEF DisconnectBounds, DisconnectLeft, Awaited, UsbLeftAt
  <1>0. Stage' = Stage
    BY DEF Stage
  <1>1. ~(ProbePresent \/ ProbeChardev \/ ProbeHwrng \/ ProbeSchedule)
    BY DEF Disconnecting, ProbePresent, ProbeChardev, ProbeHwrng, ProbeSchedule
  <1>2. CASE DisconnectComplete
    BY <1>0, <1>2 DEF DisconnectComplete
  <1>3. CASE DisconnectCancel
    BY <1>0, <1>3 DEF DisconnectCancel
  <1>4. CASE DisconnectHwrng
    BY <1>0, <1>4 DEF DisconnectHwrng
  <1>5. CASE DisconnectDrain
    BY <1>0, <1>5 DEF DisconnectDrain
  <1>6. CASE DisconnectChardev \/ DisconnectFree
    BY <1>0, <1>6 DEF DisconnectChardev, DisconnectFree
  <1>7. QED
    BY <1>1, <1>2, <1>3, <1>4, <1>5, <1>6 DEF UsbStep

\* No other thread moves disconnect.
LEMMA UsbStands ==
    ASSUME TypeOK, Disconnecting, [Next]_vars, ~UsbStep
    PROVE  usb' = usb
  <1>1. ~Disconnect
    BY DEF Disconnecting, Disconnect, UsbLeftAt
  <1>2. CASE WorkerStep
    BY <1>2 DEF WorkerStep, WarmupStart, WarmupLock, WarmupRound, WarmupUnlock, WarmupAbandon,
                WarmupJudge, WarmupVerdict, WarmupComplete, usbVars
  <1>3. ASSUME NEW t \in Users, ReadData(t)
        PROVE  usb' = usb
    BY <1>3, ReadDataUsb DEF usbVars
  <1>4. CASE (\E wait \in BOOLEAN : RngCall(wait)) \/ RngInterrupted \/ RngLock \/ RngStep
    BY <1>4 DEF RngCall, RngInterrupted, RngLock, RngStep, RngWake, RngRefuse, RngCheck,
                RngUnlock, usbVars
  <1>5. ASSUME NEW r \in Readers,
               \/ Open(r) \/ Close(r) \/ ReadCall(r) \/ SetRaw(r) \/ StatsCall(r)
               \/ ReadLock(r) \/ StatsLock(r) \/ ReaderStep(r)
               \/ TouchFreed(r) \/ Signal(r)
        PROVE  usb' = usb
    BY <1>5, ReaderUsb DEF usbVars
  <1>6. CASE UNCHANGED vars
    BY <1>6 DEF vars
  <1>7. QED
    BY <1>1, <1>2, <1>3, <1>4, <1>5, <1>6, ThreadsDiffer DEF Next, Over, ReadDataStep

\* Less beside the same is less.
LEMMA AddLess ==
    ASSUME NEW a \in Nat, NEW b \in Nat, NEW c \in Nat, b < c
    PROVE  a + b < a + c
  OBVIOUS

LEMMA DisconnectNearer ==
    ASSUME TypeOK, UsbInv, Disconnecting, DisconnectBounds, DisconnectBounds',
           [Next]_vars
    PROVE  DisconnectLeft' < DisconnectLeft \/ Standing
  <1>1. CASE UsbStep
    BY <1>1, DisconnectStage
  <1>2. CASE ~UsbStep
    <2>1. usb' = usb
      BY <1>2, UsbStands
    <2>2. WarmupLeft' < WarmupLeft \/ UNCHANGED <<pc[Worker], rounds>>
      BY WarmupNearer
    <2>3. usb = "drain" => RngLeft' < RngLeft \/ pc'[Rng] = pc[Rng]
      BY RngNearer DEF UsbInv
    <2> DEFINE before == UsbLeftAt(usb) * Stage
    <2>4. before \in Nat
      <3>1. UsbLeftAt(usb) \in Nat
        BY DEF UsbLeftAt
      <3>2. QED
        BY <3>1 DEF DisconnectBounds
    <2>5. DisconnectLeft = before + Awaited /\ DisconnectLeft' = before + Awaited'
      BY <2>1 DEF DisconnectLeft, Stage
    <2> HIDE DEF before
    <2>6. Stage' = Stage
      BY DEF Stage
    <2>7. CASE usb \in {"complete", "cancel"}
      <3>1. Awaited = WarmupLeft /\ Awaited' = WarmupLeft'
        BY <2>1, <2>7 DEF Awaited
      <3>2. WarmupLeft \in Nat /\ WarmupLeft' \in Nat
        BY <2>6 DEF DisconnectBounds
      <3>3. CASE WarmupLeft' < WarmupLeft
        <4>1. before + WarmupLeft' < before + WarmupLeft
          BY <2>4, <3>2, <3>3, AddLess
        <4>2. DisconnectLeft' < DisconnectLeft
          BY <2>5, <3>1, <4>1
        <4>3. QED
          BY <4>2
      <3>4. CASE UNCHANGED <<pc[Worker], rounds>>
        <4>1. WarmupLeft' = WarmupLeft
          BY <3>4 DEF WarmupLeft
        <4>2. QED
          BY <2>1, <2>5, <2>7, <3>1, <3>4, <4>1 DEF Standing
      <3>5. QED
        BY <2>2, <3>3, <3>4
    <2>8. CASE usb = "drain"
      <3>1. Awaited = RngLeft /\ Awaited' = RngLeft'
        BY <2>1, <2>8 DEF Awaited
      <3>2. RngLeft \in Nat /\ RngLeft' \in Nat
        BY <2>6 DEF DisconnectBounds
      <3>3. CASE RngLeft' < RngLeft
        <4>1. before + RngLeft' < before + RngLeft
          BY <2>4, <3>2, <3>3, AddLess
        <4>2. DisconnectLeft' < DisconnectLeft
          BY <2>5, <3>1, <4>1
        <4>3. QED
          BY <4>2
      <3>4. CASE pc'[Rng] = pc[Rng]
        <4>1. RngLeft' = RngLeft
          BY <3>4 DEF RngLeft
        <4>2. QED
          BY <2>1, <2>5, <2>8, <3>1, <3>4, <4>1 DEF Standing
      <3>5. QED
        BY <2>3, <2>8, <3>3, <3>4
    <2>9. CASE usb \notin {"complete", "cancel", "drain"}
      BY <2>1, <2>5, <2>9 DEF Awaited, Standing
    <2>10. QED
      BY <2>7, <2>8, <2>9
  <1>3. QED
    BY <1>1, <1>2

\* How many more steps a thread other than the worker holds the mutex for, apart from
\* attempts of a transfer that met a fault.
InsideLeft(where) ==
    CASE where = "data"                -> 3
      [] where = "transfer"            -> 2
      [] where \in {"unlock", "stats"} -> 1
      [] OTHER                         -> 0

\* The mutex stays with its owner t, who comes nearer to giving it back or stands.
HeldOn(t) ==
    lock' = lock /\ (InsideLeft(pc'[t]) < InsideLeft(pc[t]) \/ pc'[t] = pc[t])

\* So it is with every step, up to the one that gives it back.
LEMMA HolderNearer ==
    ASSUME TypeOK, LockInv, OwnerInv, ~freed, lock # NoThread, lock # Worker, [Next]_vars
    PROVE  lock' = NoThread \/ HeldOn(lock)
  <1> USE ThreadsDiffer
  <1>1. lock \in Users /\ lock # Worker /\ Holding(lock)
    BY DEF TypeOK, OwnerInv
  <1>2. ~(\E t \in Users : Acquire(t))
    BY DEF Acquire
  <1>3. ASSUME NEW t \in Users, lock' = lock, \A u \in Users : u # t => pc'[u] = pc[u],
               pc'[t] = pc[t] \/ ~Holding(t) \/ t = Worker
        PROVE  HeldOn(lock)
    BY <1>1, <1>3 DEF HeldOn
  <1>4. CASE UsbStep \/ Disconnect
    <2>1. lock' = lock /\ \A u \in Users : u # Worker => pc'[u] = pc[u]
      BY <1>4
      DEF UsbStep, Disconnect, ProbePresent, ProbeChardev, ProbeHwrng, ProbeSchedule,
          DisconnectComplete, DisconnectCancel, DisconnectHwrng, DisconnectDrain,
          DisconnectChardev, DisconnectFree, Goto, TypeOK
    <2>2. QED
      BY <1>3, <2>1
  <1>5. CASE WorkerStep
    <2>1. ~WarmupUnlock /\ ~WarmupLock
      BY <1>1, <1>2 DEF WarmupUnlock, WarmupLock, LockInv, Holding
    <2>2. lock' = lock /\ \A u \in Users : u # Worker => pc'[u] = pc[u]
      BY <1>5, <2>1
      DEF WorkerStep, WarmupStart, WarmupRound, WarmupAbandon, WarmupJudge,
          WarmupVerdict, WarmupComplete, Goto, TypeOK
    <2>3. QED
      BY <1>3, <2>2
  <1>6. ASSUME NEW t \in Users, ReadData(t)
        PROVE  HeldOn(lock)
    <2>1. t = lock /\ AfterRead(t) = "unlock"
      BY <1>1, <1>6, ReadDataUsb DEF LockInv, Holding, AfterRead
    <2>2. lock' = lock
      BY <1>6 DEF ReadData, DataGone, DataSqueeze, DataTransfer, TransferFault,
                  TransferError, TransferDone
    <2>3. \/ pc[t] = "data" /\ pc'[t] \in {"transfer", "unlock"}
          \/ pc[t] = "transfer" /\ pc'[t] = "unlock"
          \/ pc'[t] = pc[t]
      BY <1>6, <2>1
      DEF ReadData, DataGone, DataSqueeze, DataTransfer, TransferFault, TransferError,
          TransferDone, Goto, TypeOK
    <2>4. /\ InsideLeft("transfer") < InsideLeft("data")
          /\ InsideLeft("unlock") < InsideLeft("data")
          /\ InsideLeft("unlock") < InsideLeft("transfer")
      BY DEF InsideLeft
    <2>5. QED
      BY <2>1, <2>2, <2>3, <2>4 DEF HeldOn
  <1>7. ASSUME \/ \E wait \in BOOLEAN : RngCall(wait)
               \/ RngInterrupted \/ RngWake \/ RngRefuse \/ RngCheck
        PROVE  HeldOn(lock)
    <2>1. /\ lock' = lock /\ ~Holding(Rng)
          /\ \A u \in Users : u # Rng => pc'[u] = pc[u]
      BY <1>7 DEF RngCall, RngInterrupted, RngWake, RngRefuse, RngCheck, Goto, TypeOK,
                  Holding
    <2>2. QED
      BY <1>3, <2>1
  <1>8. ~RngLock /\ \A r \in Readers : ~ReadLock(r) /\ ~StatsLock(r)
    BY <1>2 DEF RngLock, ReadLock, StatsLock
  <1>9. ASSUME NEW r \in Readers,
               \/ Open(r) \/ Close(r) \/ ReadCall(r) \/ SetRaw(r) \/ StatsCall(r)
               \/ Signal(r) \/ ReadWake(r) \/ ReadInterrupted(r)
               \/ ReadCheckFailed(r) \/ ReadCheck(r) \/ ReadBackoff(r) \/ ReadGiveUp(r)
        PROVE  HeldOn(lock)
    <2>1. /\ lock' = lock
          /\ pc'[r] = pc[r] \/ ~Holding(r)
      BY <1>9
      DEF Open, Close, ReadCall, SetRaw, StatsCall, Signal, ReadWake, ReaderAt,
          ReadInterrupted, ReadCheckFailed, ReadCheck, ReadBackoff, ReadGiveUp, Holding
    <2>2. \A u \in Users : u # r => pc'[u] = pc[u]
      BY <1>9, ReaderUsb DEF ReaderStep
    <2>3. QED
      BY <1>3, <2>1, <2>2
  <1>10. \A r \in Readers : ~TouchFreed(r)
    BY DEF TouchFreed
  <1>11. ASSUME RngUnlock \/ (\E r \in Readers :
                    ReadUnlock(r) \/ ReadUnlockLast(r) \/ StatsUnlock(r))
         PROVE  lock' = NoThread
    BY <1>11 DEF RngUnlock, ReadUnlock, ReadUnlockLast, StatsUnlock, Release
  <1>12. CASE UNCHANGED vars
    BY <1>12 DEF vars, HeldOn
  <1>13. QED
    BY <1>4, <1>5, <1>6, <1>7, <1>8, <1>9, <1>10, <1>11, <1>12
    DEF Next, Over, RngStep, ReaderStep, ReadDataStep

\* Disconnecting ends: no step of any thread gives it more to do, and every call of its
\* own, every step of the warmup worker it cancels and of the read of the hwrng core it
\* waits for leaves it less, but for a fault that the transfer tries again; readers of
\* /dev/infnoiseX can neither add to it nor bring the hwrng core or the worker back.
\* While the thread it waits for itself waits for the mutex, nothing of that moves: then
\* the owner, whoever it is, comes nearer to giving the mutex back with each step it
\* takes but such a fault (it does not sleep, wait or start anew inside).  This is what DisconnectEnds
\* rests on beside NoWaitCycle, the fairness of the threads and a mutex that is handed
\* over (infnoise_main.c:614-623, 675-677, 772-774, 969-1003).
BoundedDisconnect ==
    /\ [](DisconnectLeft \in 0..(7 * Stage))
    /\ [][Disconnecting => DisconnectLeft' < DisconnectLeft \/ Standing]_vars
    /\ [][Disconnecting /\ lock \notin {NoThread, Worker} =>
             lock' = NoThread \/ HeldOn(lock)]_vars

THEOREM DriverDisconnectProgress == Spec => BoundedDisconnect
  <1>1. TypeOK /\ CompletionInv => DisconnectBounds
    <2> SUFFICES ASSUME TypeOK, CompletionInv PROVE DisconnectBounds
      OBVIOUS
    <2>1. WarmupLeft \in 0..(3 * WarmupRounds + 7) /\ RngLeft \in 0..6
      BY WarmupLeftType, RngLeftType
    <2>2. QED
      BY <2>1, BoundAssumption DEF DisconnectBounds, Stage
  <1>2. DisconnectBounds => DisconnectLeft \in 0..(7 * Stage)
    <2> SUFFICES ASSUME DisconnectBounds PROVE DisconnectLeft \in 0..(7 * Stage)
      OBVIOUS
    <2>1. Stage \in Nat /\ Awaited \in 0..Stage
      BY DEF DisconnectBounds, Awaited
    <2>2. UsbLeftAt(usb) * Stage \in 0..(6 * Stage)
      BY <2>1 DEF UsbLeftAt
    <2>3. QED
      BY <2>1, <2>2 DEF DisconnectLeft
  <1>3. TypeOK /\ UsbInv /\ DisconnectBounds /\ DisconnectBounds' /\ [Next]_vars =>
            [Disconnecting => DisconnectLeft' < DisconnectLeft \/ Standing]_vars
    BY DisconnectNearer
  <1>4. TypeOK /\ UsbInv /\ LockInv /\ OwnerInv /\ [Next]_vars =>
            [Disconnecting /\ lock \notin {NoThread, Worker} =>
                lock' = NoThread \/ HeldOn(lock)]_vars
    <2>1. UsbInv /\ Disconnecting => ~freed
      BY DEF UsbInv, Disconnecting, UsbLeftAt
    <2>2. QED
      BY <2>1, HolderNearer
  <1>5. QED
    BY <1>1, <1>2, <1>3, <1>4, AlwaysWaits, AlwaysLock, PTL DEF Spec, BoundedDisconnect
=============================================================================
