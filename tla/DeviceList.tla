----------------------------- MODULE DeviceList -----------------------------
(***************************************************************************)
(* infnoise --list-devices: listUSBDevices collects a node for each device *)
(* in the recursion of inf_get_devstrings, which frees the nodes on its    *)
(* way back when the strings of one device cannot be read; main prints the *)
(* list and frees it as it goes.                                           *)
(***************************************************************************)
EXTENDS Integers

CONSTANT MaxDevices    \* bound of the model: devices libftdi can find

ASSUME DeviceAssumption == MaxDevices \in Nat

VARIABLES
    at,        \* "idle", "descend", "return", "walk", "listed" or "failed"
    found,     \* devices ftdi_usb_find_all put in devlist
    depth,     \* calls of inf_get_devstrings that made a node: the node of call i is i
    allocated, \* nodes that malloc gave and free did not take
    next,      \* cur->next of each node; 0 is NULL
    bgn, end,  \* the arguments of the innermost call
    ret,       \* what the innermost call returned
    curdev     \* the node main prints

listvars == <<at, found, depth, allocated, next, bgn, end, ret, curdev>>

NULL  == 0
Nodes == 1..MaxDevices

ListInit ==
    /\ at = "idle" /\ found = 0 /\ depth = 0 /\ allocated = {}
    /\ next = [n \in Nodes |-> NULL]
    /\ bgn = NULL /\ end = NULL /\ ret = NULL /\ curdev = NULL

-----------------------------------------------------------------------------
\* Definitions named ...Mutant are slips a change of the code could make.  No
\* specification uses them.

\* ftdi_init, ftdi_usb_find_all.
ListUSBDevices ==
    /\ at = "idle"
    /\ \/ found' \in Nodes /\ at' = "descend"
       \/ at' = "failed" /\ UNCHANGED found
    /\ UNCHANGED <<depth, allocated, next, bgn, end, ret, curdev>>

\* A call whose device has its strings read: its node goes to the end of the list.
GetStrings ==
    /\ at = "descend" /\ depth < found
    /\ LET cur == depth + 1
       IN  /\ depth' = cur /\ allocated' = allocated \cup {cur}
           /\ next' = [n \in Nodes |-> IF n = end THEN cur
                                       ELSE IF n = cur THEN NULL ELSE next[n]]
           /\ bgn' = IF bgn = NULL THEN cur ELSE bgn
           /\ end' = cur
    /\ UNCHANGED <<at, found, ret, curdev>>

\* One whose device has not: the node is freed again.
GetStringsFails ==
    /\ at = "descend" /\ depth < found
    /\ ret' = NULL /\ at' = "return"
    /\ UNCHANGED <<found, depth, allocated, next, bgn, end, curdev>>

\* The call behind the last device.
LastCall ==
    /\ at = "descend" /\ depth = found
    /\ ret' = bgn /\ at' = "return"
    /\ UNCHANGED <<found, depth, allocated, next, bgn, end, curdev>>

\* A call returns what the call it made returned.
ReturnMutant ==
    /\ at = "return" /\ depth > 0
    /\ depth' = depth - 1
    /\ allocated' = IF ret = NULL \/ depth # ret THEN allocated \ {depth} ELSE allocated
    /\ UNCHANGED <<at, found, next, bgn, end, ret, curdev>>

Return ==
    /\ at = "return" /\ depth > 0
    /\ depth' = depth - 1
    /\ allocated' = IF ret = NULL THEN allocated \ {depth} ELSE allocated
    /\ UNCHANGED <<at, found, next, bgn, end, ret, curdev>>

\* listUSBDevices returns; main looks at the list.
Listed ==
    /\ at = "return" /\ depth = 0
    /\ at' = IF ret = NULL THEN "failed" ELSE "walk"
    /\ curdev' = ret
    /\ UNCHANGED <<found, depth, allocated, next, bgn, end, ret>>

\* main prints a node and frees it.
Walk ==
    /\ at = "walk" /\ curdev # NULL
    /\ curdev' = next[curdev]
    /\ allocated' = allocated \ {curdev}
    /\ UNCHANGED <<at, found, depth, next, bgn, end, ret>>

WalkEnds ==
    /\ at = "walk" /\ curdev = NULL
    /\ at' = "listed"
    /\ UNCHANGED <<found, depth, allocated, next, bgn, end, ret, curdev>>

ListNext ==
    \/ ListUSBDevices \/ GetStrings \/ GetStringsFails \/ LastCall \/ Return
    \/ Listed \/ Walk \/ WalkEnds

-----------------------------------------------------------------------------
\* Every variable has its type.
ListTypeOK ==
    /\ at \in {"idle", "descend", "return", "walk", "listed", "failed"}
    /\ found \in 0..MaxDevices /\ depth \in 0..found
    /\ allocated \subseteq Nodes /\ next \in [Nodes -> 0..MaxDevices]
    /\ {bgn, end, ret, curdev} \subseteq 0..MaxDevices

\* inf_get_devstrings "can easily wipe the malloc()" (libinfnoise.c:131): while main
\* walks the list, the nodes in memory are those from curdev on, in the order of the
\* devices, so that none is printed or freed after it was freed; and when the list was
\* printed, or none was returned, no node is left.
ListOwned ==
    /\ at = "walk" /\ curdev # NULL =>
        /\ allocated = curdev..found
        /\ \A n \in allocated : next[n] = IF n = found THEN NULL ELSE n + 1
    /\ at = "walk" /\ curdev = NULL => allocated = {}
    /\ at \in {"listed", "failed"} => allocated = {}
=============================================================================
