---------------------------- MODULE InfnoiseSponge ----------------------------
(***************************************************************************)
(* infnoise_read_data (kernel/infnoise_main.c): what the driver makes of   *)
(* a block of samples.  Readers call it one at a time, under the device    *)
(* mutex (InfnoiseDriver), with whatever length and mode they want, while  *)
(* the module parameter `multiplier' can be written at any time.  The       *)
(* transfer is that of InfnoiseTransfer; the verdict and the entropy of a  *)
(* block come from InfnoiseHealth.                                         *)
(*                                                                         *)
(* The sponge is what matters here: whether its state was extracted since  *)
(* the last permutation.  Absorbing permutes too (infnoise_keccak.c).      *)
(***************************************************************************)
EXTENDS Integers

CONSTANTS
    Multipliers,     \* values of the module parameter
    MaxMultiplier,   \* the cap of infnoise_read_data
    Unit,            \* bytes of one unit of the multiplier
    ChunkMax,        \* bytes of one squeeze
    Lane,            \* bytes of one lane of the sponge
    RawBytes,        \* INFNOISE_BYTES_OUT
    Levels,          \* entropy levels, in bits, a block can have
    Target,          \* least level that is on target
    Requests         \* lengths readers ask for

ASSUME SizeAssumption ==
    /\ Multipliers \subseteq Nat /\ MaxMultiplier \in Nat /\ Unit \in Nat
    /\ Lane \in Nat \ {0} /\ RawBytes \in Nat
    /\ ChunkMax \in Nat \ {0} /\ ChunkMax % Lane = 0
    /\ RawBytes <= ChunkMax
    /\ Levels \subseteq Nat /\ Target \in Nat
    /\ Requests \subseteq Nat \ {0}

VARIABLES
    keccak_bytes_left,
    infnoise_multiplier,
    present,            \* INFNOISE_PRESENT
    shown,              \* the sponge was extracted and not permuted since
    ret,                \* what the last read returned: bytes, or Error
    whitened,           \* of these, bytes that came from the sponge
    written,            \* bytes stored into the buffer of the last reader
    room,               \* bytes that buffer has
    \* history
    bought              \* bytes the last absorbed block bought

vars == <<keccak_bytes_left, infnoise_multiplier, present, shown, ret, whitened,
          written, room, bought>>

Error == -1   \* any negative errno

Least(a, b) == IF a <= b THEN a ELSE b

\* Lanes are stored whole.
Stored(k) == ((k + Lane - 1) \div Lane) * Lane

\* The buffer a reader passes: data[128] of infnoise_char_read, or the buffer of the
\* hwrng core, which asks for whole cache lines.
Room(max_len) == IF max_len % Lane = 0 THEN max_len ELSE ChunkMax

-----------------------------------------------------------------------------
\* Definitions named ...Mutant are slips a change of the code could make.  No
\* specification uses them: putting one in the place of the definition it precedes
\* shows which property would notice.

\* infnoise_keccak_squeeze of out_bytes with `left' bytes of the budget: extract, then
\* permute.
SqueezeMutant(out_bytes, left) ==
    /\ keccak_bytes_left' = left - out_bytes
    /\ ret' = out_bytes /\ whitened' = out_bytes
    /\ written' = Stored(out_bytes)
    /\ shown' = TRUE

SqueezeWideMutant(out_bytes, left) ==
    /\ keccak_bytes_left' = left - out_bytes
    /\ ret' = out_bytes /\ whitened' = out_bytes
    /\ written' = Stored(left)
    /\ shown' = FALSE

Squeeze(out_bytes, left) ==
    /\ keccak_bytes_left' = left - out_bytes
    /\ ret' = out_bytes /\ whitened' = out_bytes
    /\ written' = Stored(out_bytes)
    /\ shown' = FALSE

\* A read that brings nothing: the block, if any, is discarded.
Fruitless(r) ==
    /\ ret' = r /\ whitened' = 0 /\ written' = 0
    /\ UNCHANGED <<keccak_bytes_left, shown, bought>>

\* Bytes a block of this entropy buys.
Budget(entropy) ==
    IF infnoise_multiplier = 0 THEN entropy \div 8
    ELSE Least(infnoise_multiplier, MaxMultiplier) * Unit

Init ==
    /\ keccak_bytes_left = 0 /\ infnoise_multiplier \in Multipliers /\ present = TRUE
    /\ shown = FALSE
    /\ ret = 0 /\ whitened = 0 /\ written = 0 /\ room = 0
    /\ bought = 0

-----------------------------------------------------------------------------
\* infnoise_read_data, by the way it returns.

ReadGone(max_len) ==
    /\ ~present
    /\ Fruitless(Error) /\ room' = Room(max_len)
    /\ UNCHANGED <<infnoise_multiplier, present>>

ReadLeftMutant(max_len) ==
    /\ present /\ keccak_bytes_left > 0
    /\ Squeeze(Least(ChunkMax, max_len), keccak_bytes_left)
    /\ room' = Room(max_len)
    /\ UNCHANGED <<infnoise_multiplier, present, bought>>

\* Bytes are left from an earlier absorption.
ReadLeft(max_len) ==
    /\ present /\ keccak_bytes_left > 0
    /\ Squeeze(Least(ChunkMax, Least(max_len, keccak_bytes_left)), keccak_bytes_left)
    /\ room' = Room(max_len)
    /\ UNCHANGED <<infnoise_multiplier, present, bought>>

Transfers(raw) == present /\ (keccak_bytes_left = 0 \/ raw)

\* The transfer fails; a fault of the samples comes after some were extracted.
ReadError(max_len, raw) ==
    /\ Transfers(raw)
    /\ Fruitless(Error) /\ room' = Room(max_len)
    /\ UNCHANGED <<infnoise_multiplier, present>>

\* The monitor is not satisfied yet, or the entropy is below target.
ReadDiscard(max_len, raw, ok, entropy) ==
    /\ Transfers(raw) /\ ~(ok /\ entropy >= Target)
    /\ Fruitless(0) /\ room' = Room(max_len)
    /\ UNCHANGED <<infnoise_multiplier, present>>

\* Raw mode: the block itself, which the sponge never sees.
ReadRaw(max_len, entropy) ==
    /\ Transfers(TRUE) /\ entropy >= Target
    /\ ret' = Least(max_len, RawBytes) /\ whitened' = 0 /\ written' = ret'
    /\ room' = Room(max_len)
    /\ UNCHANGED <<keccak_bytes_left, infnoise_multiplier, present, shown, bought>>

\* The block is absorbed and the first bytes of its budget are squeezed.
ReadAbsorb(max_len, entropy) ==
    /\ Transfers(FALSE) /\ entropy >= Target
    /\ bought' = Budget(entropy)
    /\ Squeeze(Least(ChunkMax, Least(max_len, Budget(entropy))), Budget(entropy))
    /\ room' = Room(max_len)
    /\ UNCHANGED <<infnoise_multiplier, present>>

-----------------------------------------------------------------------------
\* The module parameter is written (mode 0644), the device unplugged.
SetMultiplier(m) ==
    /\ infnoise_multiplier' = m
    /\ UNCHANGED <<keccak_bytes_left, present, shown, ret, whitened, written,
                   room, bought>>

Disconnect ==
    /\ present /\ present' = FALSE
    /\ UNCHANGED <<keccak_bytes_left, infnoise_multiplier, shown, ret, whitened,
                   written, room, bought>>

ReadData(max_len) ==
    \/ ReadGone(max_len)
    \/ ReadLeft(max_len)
    \/ \E raw \in BOOLEAN : ReadError(max_len, raw)
    \/ \E raw, ok \in BOOLEAN, entropy \in Levels : ReadDiscard(max_len, raw, ok, entropy)
    \/ \E entropy \in Levels : ReadRaw(max_len, entropy)
    \/ \E entropy \in Levels : ReadAbsorb(max_len, entropy)

Next ==
    \/ \E max_len \in Requests : ReadData(max_len)
    \/ \E m \in Multipliers : SetMultiplier(m)
    \/ Disconnect

Spec == Init /\ [][Next]_vars

-----------------------------------------------------------------------------
\* Every variable has its type.
TypeOK ==
    /\ keccak_bytes_left \in Nat /\ infnoise_multiplier \in Multipliers
    /\ present \in BOOLEAN /\ shown \in BOOLEAN
    /\ ret \in Nat \cup {Error} /\ whitened \in Nat /\ written \in Nat /\ room \in Nat
    /\ bought \in Nat

\* Lanes are stored whole, up to seven bytes more than a read returns: they still fit
\* the buffer of the reader (line 509).
StoredFits == written <= room

\* The driver keeps the promise of a random source, however readers mix modes and
\* lengths and the multiplier changes between two reads of one budget.
Source == INSTANCE RandomSource WITH
    Budgets  <- {e \div 8 : e \in Levels} \cup {m * Unit : m \in 0..MaxMultiplier},
    budget   <- bought,
    issued   <- bought - keccak_bytes_left,
    returned <- whitened

ImplementsSource == Source!Spec
=============================================================================
