----------------------------- MODULE InfnoiseTool -----------------------------
(***************************************************************************)
(* Programs over the library.  infnoise (infnoise.c, daemon.c,             *)
(* writeentropy.c) lists the devices, or goes to the background if it is   *)
(* told to, calls initInfnoise, and then reads with fixed options and      *)
(* writes what it got, to standard output or to the entropy pool of Linux. *)
(* SIGTERM and SIGINT end its loop; before their handler is installed they *)
(* end the program.  Any other program reads with options of its choice at *)
(* each call.                                                              *)
(***************************************************************************)
EXTENDS LibInfnoise, DeviceList

CONSTANTS
    CreditMax    \* bound of the model: bits of credit counted for one block

ASSUME ToolAssumption == CreditMax \in Nat /\ {0, 2} \subseteq Multipliers

VARIABLES
    program,                      \* "infnoise" or "other"
    raw, multiplier,              \* the options its loop reads
    devRandom, noOutput,
    pc,          \* "main", "list", "startDaemon", "init", "read", "output" or "exited"
    status,      \* exit status, once exited
    parent,      \* left by a fork: "none", "running", "succeeded" or "failed"
    running,
    signalled,   \* history: a signal was sent
    credited     \* history: bits credited since the last block processed

options  == <<program, raw, multiplier, devRandom, noOutput>>
toolvars == <<options, pc, status, parent, running, signalled, credited>>
allvars  == <<libvars, listvars, toolvars>>

\* A program that asks for nothing.
initOpts ==
    /\ raw = FALSE /\ multiplier = 0 /\ devRandom = FALSE /\ noOutput = FALSE

ToolInit ==
    /\ Init /\ ListInit
    /\ program \in {"infnoise", "other"} /\ initOpts
    /\ pc = IF program = "infnoise" THEN "main" ELSE "init"
    /\ status = 0 /\ parent = "none"
    /\ running = TRUE /\ signalled = FALSE /\ credited = 0

Exit(code) == pc' = "exited" /\ status' = code

-----------------------------------------------------------------------------
\* The multiplier is given as an option or in the environment; else -R chooses one
\* that throws no entropy away.
Multiplier(given) ==
    multiplier' = IF given >= 0 THEN given ELSE IF devRandom' THEN 2 ELSE 0

\* Arguments that are wrong, or ask for help or the version.
Usage ==
    /\ pc = "main"
    /\ \E code \in {0, 1} : Exit(code)
    /\ UNCHANGED <<libvars, listvars, options, parent, running, signalled, credited>>

\* --list-devices comes before all else.
ListOption ==
    /\ pc = "main" /\ pc' = "list"
    /\ UNCHANGED <<libvars, listvars, options, status, parent, running, signalled, credited>>

\* With -R the record for the pool is allocated and /dev/random opened, or they fail.
Options ==
    /\ pc = "main"
    /\ raw' \in BOOLEAN /\ devRandom' \in BOOLEAN /\ noOutput' \in BOOLEAN
    /\ \E given \in Multipliers \cup {-1} : Multiplier(given)
    /\ \/ devRandom' /\ Exit(1)
       \/ pc' = "startDaemon" /\ UNCHANGED status
    /\ UNCHANGED <<libvars, listvars, program, parent, running, signalled, credited>>

ListDevices ==
    /\ pc = "list" /\ ListNext
    /\ IF at' = "listed" THEN Exit(0)
       ELSE IF at' = "failed" THEN Exit(1)
       ELSE UNCHANGED <<pc, status>>
    /\ UNCHANGED <<libvars, options, parent, running, signalled, credited>>

\* In the foreground the program may write its pid; whether that worked is not asked.
Foreground ==
    /\ pc = "startDaemon" /\ pc' = "init"
    /\ UNCHANGED <<libvars, listvars, options, status, parent, running, signalled, credited>>

\* As a daemon it forks; the child goes on.
Fork ==
    /\ pc = "startDaemon"
    /\ \/ Exit(1) /\ UNCHANGED parent
       \/ pc' = "init" /\ parent' = "running" /\ UNCHANGED status
    /\ UNCHANGED <<libvars, listvars, options, running, signalled, credited>>

\* The parent may write the pid of the child, and exits with the success of that,
\* whatever has become of the child.
ParentExits ==
    /\ parent = "running" /\ parent' \in {"succeeded", "failed"}
    /\ UNCHANGED <<libvars, listvars, options, pc, status, running, signalled, credited>>

\* initInfnoise, up to where it returns.
Initialize ==
    /\ pc = "init" /\ initInfnoise
    /\ IF phase' = "over" THEN Exit(1)
       ELSE /\ pc' = IF phase' = "ready" THEN "read" ELSE "init"
            /\ UNCHANGED status
    /\ UNCHANGED <<listvars, options, parent, running, signalled, credited>>

LoopReadMutant ==
    /\ program = "infnoise" /\ pc = "read"
    /\ Call(raw, multiplier)
    /\ IF rc' < 0 THEN Exit(1)
       ELSE pc' = (IF noOutput THEN "read" ELSE "output") /\ UNCHANGED status
    /\ credited' = IF rc' > 0 /\ keccakBytesGiven = 0 THEN 0 ELSE credited
    /\ UNCHANGED <<listvars, options, parent, running, signalled>>

\* The body of the loop: a negative result ends the program,
LoopRead ==
    /\ program = "infnoise" /\ pc = "read" /\ running
    /\ Call(raw, multiplier)
    /\ IF rc' < 0 THEN Exit(1)
       ELSE pc' = (IF noOutput THEN "read" ELSE "output") /\ UNCHANGED status
    /\ credited' = IF rc' > 0 /\ keccakBytesGiven = 0 THEN 0 ELSE credited
    /\ UNCHANGED <<listvars, options, parent, running, signalled>>

\* anything else is written: to standard output, which can fail,
OutputStdout ==
    /\ pc = "output" /\ ~devRandom
    /\ (pc' = "read" /\ UNCHANGED status) \/ Exit(1)
    /\ UNCHANGED <<libvars, listvars, options, parent, running, signalled, credited>>

\* or to the pool, whose errors go unnoticed, with the entropy of the last block.
OutputPool ==
    /\ pc = "output" /\ devRandom
    /\ pc' = "read"
    /\ credited' = Least(credited + entropyThisTime, CreditMax)
    /\ UNCHANGED <<libvars, listvars, options, parent, status, running, signalled>>

LoopEnd ==
    /\ pc = "read" /\ ~running
    /\ deinitInfnoise /\ Exit(0)
    /\ UNCHANGED <<listvars, options, parent, running, signalled, credited>>

\* Any other program makes a call.
OtherCall ==
    /\ program = "other" /\ pc = "read"
    /\ \E r \in BOOLEAN, m \in Multipliers : Call(r, m)
    /\ UNCHANGED <<listvars, toolvars>>

\* A signal.
Terminate ==
    /\ program = "infnoise"
    /\ ~signalled /\ pc # "exited" /\ signalled' = TRUE
    /\ IF pc \in {"read", "output"} THEN running' = FALSE /\ UNCHANGED <<pc, status>>
       ELSE Exit(143) /\ UNCHANGED running
    /\ UNCHANGED <<libvars, listvars, options, parent, credited>>

ToolUnplug == Unplug /\ UNCHANGED <<listvars, toolvars>>

Exited == pc = "exited" /\ UNCHANGED allvars

Loop == LoopRead \/ OutputStdout \/ OutputPool \/ LoopEnd

ToolNext ==
    \/ Usage \/ ListOption \/ ListDevices \/ Options
    \/ Foreground \/ Fork \/ ParentExits \/ Initialize
    \/ Loop \/ OtherCall \/ Terminate \/ ToolUnplug \/ Exited

ToolSpec == ToolInit /\ [][ToolNext]_allvars

\* The loop runs on: the transfers, the wait for the pool and the writes return.
FairToolSpec == ToolSpec /\ WF_allvars(Loop)

-----------------------------------------------------------------------------
\* Every variable has its type.
ToolTypeOK ==
    /\ TypeOK /\ ListTypeOK
    /\ program \in {"infnoise", "other"} /\ multiplier \in Multipliers
    /\ raw \in BOOLEAN /\ devRandom \in BOOLEAN /\ noOutput \in BOOLEAN
    /\ pc \in {"main", "list", "startDaemon", "init", "read", "output", "exited"}
    /\ parent \in {"none", "running", "succeeded", "failed"}
    /\ status \in {0, 1, 143} /\ running \in BOOLEAN /\ signalled \in BOOLEAN
    /\ credited \in 0..CreditMax

\* The whole lanes an extraction stores fit the array the loop declared for it, or
\* the 64 bytes of processBytes: the sizes are computed apart (infnoise.c:297-301,
\* libinfnoise.c:311-316) and the clamp of line 293 bounds the lanes of line 323.
StoredFits == pc = "output" => stored <= ResultSize(raw, multiplier)

\* What is written to the pool fits the record that infnoise.c:268 makes for BUFLEN / 8
\* bytes, in raw mode and with the multipliers up to 2 that -R takes by itself (line
\* 243).  A larger multiplier is not refused with -R, and its results do not fit.
PoolRecordFits ==
    pc = "output" /\ devRandom /\ (raw \/ multiplier <= 2) => rc <= BlockBytes

\* A signal ends the program, whichever call it finds it in.
TerminateEnds == signalled ~> pc = "exited"

-----------------------------------------------------------------------------
\* "entropy needs to be accurate or pessimistic" (writeentropy.c:86): the pool is not
\* credited with more bits than the last block had.
CreditEarned == credited <= worth
=============================================================================
