----------------------------- MODULE TxHwQueue -----------------------------
(***************************************************************************)
(* Accounting of the firmware's Tx resources (TWD/Data_Service/            *)
(* txHwQueue.c): memory blocks, of which every access category (AC) is     *)
(* guaranteed a threshold, and packet descriptors.  The driver counts what *)
(* it allocates, the firmware what it releases, both in counters that wrap *)
(* around; the difference is what is in use.                               *)
(*                                                                         *)
(* The firmware is the environment: it releases blocks and posts results   *)
(* of packets it was given.  TxResources is what the Tx path sees of this. *)
(***************************************************************************)
EXTENDS Integers

CONSTANTS
    uNumTotalBlks,      \* blocks for the driver's use
    uNumBlksThresh,     \* [AC -> blocks guaranteed]
    NUM_TX_DESCRIPTORS,
    Traffic,            \* ACs that have packets
    UINT32,             \* 2^32, modulus of the block counters
    UINT8               \* 2^8, modulus of the packet counters

VARIABLES
    uNumTotalBlksFree, uNumTotalBlksReserved,
    uNumUsedDescriptors, uDrvTxPacketsCntr, uFwTxResultsCntr,
    \* per queue:
    uNumBlksUsed, uNumBlksReserved, uAllocatedBlksCntr, uFwFreedBlksCntr,
    uNumBlksCausedBusy, bQueueBusy,
    \* the firmware's counters:
    txReleasedBlks, txResultsCntr

\* What the firmware has not released, as its counters tell.
HeldBlks(q) == (uAllocatedBlksCntr[q] - txReleasedBlks[q]) % UINT32

OpenPackets == (uDrvTxPacketsCntr - txResultsCntr) % UINT8

Res == INSTANCE TxResources WITH
    used <- uNumBlksUsed,
    held <- [q \in 0 .. 3 |-> HeldBlks(q)],
    descs <- uNumUsedDescriptors,
    open <- OpenPackets,
    causedBusy <- uNumBlksCausedBusy,
    busy <- bQueueBusy

AC == Res!AC

Total(f) == Res!Total(f)

\* "The sum of all low thresholds should be less than 100%".
ASSUME BlocksAssumption ==
    /\ uNumTotalBlks \in Nat
    /\ uNumBlksThresh \in [AC -> Nat]
    /\ Total(uNumBlksThresh) <= uNumTotalBlks
    /\ UINT32 \in Nat /\ uNumTotalBlks < UINT32
ASSUME TrafficAssumption == Traffic \subseteq AC
ASSUME DescriptorsAssumption ==
    /\ NUM_TX_DESCRIPTORS \in Nat \ {0}
    /\ UINT8 \in Nat /\ NUM_TX_DESCRIPTORS < UINT8

blkVars  == <<uNumTotalBlksFree, uNumTotalBlksReserved, uNumBlksUsed,
              uNumBlksReserved>>
descVars == <<uNumUsedDescriptors, uDrvTxPacketsCntr, uFwTxResultsCntr>>
cntrVars == <<uAllocatedBlksCntr, uFwFreedBlksCntr>>
busyVars == <<uNumBlksCausedBusy, bQueueBusy>>
fwVars   == <<txReleasedBlks, txResultsCntr>>
vars     == <<blkVars, descVars, cntrVars, busyVars, fwVars>>

Minimum(x, y) == IF x < y THEN x ELSE y

Init ==
    /\ uNumTotalBlksFree = uNumTotalBlks
    /\ uNumTotalBlksReserved = Total(uNumBlksThresh)
    /\ uNumUsedDescriptors = 0 /\ uDrvTxPacketsCntr = 0 /\ uFwTxResultsCntr = 0
    /\ uNumBlksUsed = [q \in AC |-> 0]
    /\ uNumBlksReserved = uNumBlksThresh
    /\ uAllocatedBlksCntr = [q \in AC |-> 0]
    /\ uFwFreedBlksCntr = [q \in AC |-> 0]
    /\ uNumBlksCausedBusy = [q \in AC |-> 0]
    /\ bQueueBusy = [q \in AC |-> FALSE]
    /\ txReleasedBlks = [q \in AC |-> 0] /\ txResultsCntr = 0

\* txHwQueue_SetHwInfo and txHwQueue_Restart, with a new firmware.
SetHwInfo ==
    /\ uNumTotalBlksFree' = uNumTotalBlks
    /\ uNumTotalBlksReserved' = Total(uNumBlksThresh)
    /\ uNumUsedDescriptors' = 0 /\ uDrvTxPacketsCntr' = 0 /\ uFwTxResultsCntr' = 0
    /\ uNumBlksUsed' = [q \in AC |-> 0]
    /\ uNumBlksReserved' = uNumBlksThresh
    /\ uAllocatedBlksCntr' = [q \in AC |-> 0]
    /\ uFwFreedBlksCntr' = [q \in AC |-> 0]
    /\ uNumBlksCausedBusy' = [q \in AC |-> 0]
    /\ bQueueBusy' = [q \in AC |-> FALSE]
    /\ txReleasedBlks' = [q \in AC |-> 0] /\ txResultsCntr' = 0

-----------------------------------------------------------------------------
(* Allocation.                                                             *)

\* Mutant: the blocks reserved for the others are not kept back.
MutCheckResources(q) ==
    IF uNumUsedDescriptors < NUM_TX_DESCRIPTORS THEN uNumTotalBlksFree ELSE 0

\* txHwQueue_CheckResources: "the total free buffers minus the buffers that are
\* reserved for other Queues".
CheckResources(q) ==
    IF uNumUsedDescriptors < NUM_TX_DESCRIPTORS
    THEN uNumTotalBlksFree - (uNumTotalBlksReserved - uNumBlksReserved[q])
    ELSE 0

QueueBusy(q, n) ==
    /\ uNumBlksCausedBusy' = [uNumBlksCausedBusy EXCEPT ![q] = n]
    /\ bQueueBusy' = [bQueueBusy EXCEPT ![q] = TRUE]

\* TX_HW_QUE_STATUS_STOP_CURRENT for a packet of n blocks.
StopCurrent(q, n) ==
    /\ n > CheckResources(q)
    /\ QueueBusy(q, n)
    /\ UNCHANGED <<blkVars, descVars, cntrVars, fwVars>>

\* "blocks allocation should reduce the reserved blocks", down to none.
ReduceReserved(q, n) ==
    LET given == Minimum(n, uNumBlksReserved[q]) IN
    /\ uNumBlksReserved' = [uNumBlksReserved EXCEPT ![q] = @ - given]
    /\ uNumTotalBlksReserved' = uNumTotalBlksReserved - given

\* Not enough for "another similar packet": STOP_NEXT.
StopsNext(q, n) == 2 * n > CheckResources(q)

\* txHwQueue_AllocResources with SUCCESS or STOP_NEXT.
AllocResources(q, n) ==
    /\ n <= CheckResources(q)
    /\ uNumUsedDescriptors' = uNumUsedDescriptors + 1
    /\ uDrvTxPacketsCntr' = (uDrvTxPacketsCntr + 1) % UINT8
    /\ uAllocatedBlksCntr' =
           [uAllocatedBlksCntr EXCEPT ![q] = (@ + n) % UINT32]
    /\ ReduceReserved(q, n)
    /\ uNumTotalBlksFree' = uNumTotalBlksFree - n
    /\ uNumBlksUsed' = [uNumBlksUsed EXCEPT ![q] = @ + n]
    /\ IF StopsNext(q, n) THEN QueueBusy(q, n) ELSE UNCHANGED busyVars
    /\ UNCHANGED <<uFwTxResultsCntr, uFwFreedBlksCntr, fwVars>>

-----------------------------------------------------------------------------
(* The firmware.                                                           *)

\* It releases blocks of a queue, posts results, or both.
FwStep(q, k, r) ==
    /\ k \in 0 .. HeldBlks(q) /\ r \in 0 .. OpenPackets /\ k + r > 0
    /\ txReleasedBlks' = [txReleasedBlks EXCEPT ![q] = (@ + k) % UINT32]
    /\ txResultsCntr' = (txResultsCntr + r) % UINT8
    /\ UNCHANGED <<blkVars, descVars, cntrVars, busyVars>>

-----------------------------------------------------------------------------
(* Release.                                                                *)

\* txHwQueue_UpdateFreeResources, the descriptors: "the else is for wrap around
\* case".
UpdateDescriptors ==
    /\ uFwTxResultsCntr' = txResultsCntr
    /\ uNumUsedDescriptors' =
           IF txResultsCntr = uFwTxResultsCntr
           THEN uNumUsedDescriptors
           ELSE IF txResultsCntr <= uDrvTxPacketsCntr
                THEN uDrvTxPacketsCntr - txResultsCntr
                ELSE UINT8 - (txResultsCntr - uDrvTxPacketsCntr)
    /\ UNCHANGED uDrvTxPacketsCntr

NewUsedBlks(q) == (uAllocatedBlksCntr[q] - txReleasedBlks[q]) % UINT32

BlksToFree(q) ==
    IF txReleasedBlks[q] = uFwFreedBlksCntr[q]
    THEN 0
    ELSE uNumBlksUsed[q] - NewUsedBlks(q)

\* Blocks that are reserved for q when NewUsedBlks(q) are used.
NewReserved(q) == uNumBlksThresh[q] - NewUsedBlks(q)

RegainsReserve(q) ==
    txReleasedBlks[q] # uFwFreedBlksCntr[q] /\ NewUsedBlks(q) < uNumBlksThresh[q]

\* Mutant: all that is freed is reserved.
MutReservedAgain(q) == IF RegainsReserve(q) THEN BlksToFree(q) ELSE 0

\* "only the part from the low-threshold to the new used number is added", or
\* all of it if the queue was below its threshold before.
ReservedAgain(q) ==
    IF RegainsReserve(q) THEN Minimum(BlksToFree(q), NewReserved(q)) ELSE 0

\* txHwQueue_UpdateFreeBlocks of every queue.
UpdateFreeBlocks ==
    /\ uFwFreedBlksCntr' = txReleasedBlks
    /\ uNumTotalBlksFree' = uNumTotalBlksFree + Total([q \in AC |-> BlksToFree(q)])
    /\ uNumBlksUsed' = [q \in AC |-> uNumBlksUsed[q] - BlksToFree(q)]
    /\ uNumBlksReserved' = [q \in AC |-> IF RegainsReserve(q) THEN NewReserved(q)
                                         ELSE uNumBlksReserved[q]]
    /\ uNumTotalBlksReserved' =
           uNumTotalBlksReserved + Total([q \in AC |-> ReservedAgain(q)])
    /\ UNCHANGED uAllocatedBlksCntr

\* Mutant: a queue is released by its own blocks only.
MutReleases(q) ==
    bQueueBusy[q] /\ uNumBlksUsed'[q] # uNumBlksUsed[q]
    /\ uNumBlksCausedBusy[q] <= CheckResources(q)'

\* "For each busy queue, if now available indicate it in the backpressure bitmap".
Releases(q) == bQueueBusy[q] /\ uNumBlksCausedBusy[q] <= CheckResources(q)'

\* txHwQueue_UpdateFreeResources; the released queues go to fUpdateBusyMapCb.
UpdateFreeResources ==
    /\ UpdateDescriptors
    /\ UpdateFreeBlocks
    /\ bQueueBusy' = [q \in AC |-> bQueueBusy[q] /\ ~Releases(q)]
    /\ UNCHANGED <<uNumBlksCausedBusy, fwVars>>

-----------------------------------------------------------------------------
Alloc == \E q \in Traffic : \E n \in 1 .. uNumTotalBlks + 1 :
             StopCurrent(q, n) \/ AllocResources(q, n)

Firmware ==
    \E q \in Traffic : \E k \in 0 .. uNumTotalBlks, r \in 0 .. NUM_TX_DESCRIPTORS :
        FwStep(q, k, r)

Next == Alloc \/ Firmware \/ UpdateFreeResources \/ SetHwInfo

Spec == Init /\ [][Next]_vars

-----------------------------------------------------------------------------
(* Properties.                                                             *)

TypeOK ==
    /\ uNumTotalBlksFree \in 0 .. uNumTotalBlks
    /\ uNumTotalBlksReserved \in 0 .. uNumTotalBlks
    /\ uNumUsedDescriptors \in 0 .. NUM_TX_DESCRIPTORS
    /\ uDrvTxPacketsCntr \in 0 .. UINT8 - 1
    /\ uFwTxResultsCntr \in 0 .. UINT8 - 1 /\ txResultsCntr \in 0 .. UINT8 - 1
    /\ uNumBlksUsed \in [AC -> 0 .. uNumTotalBlks]
    /\ uNumBlksReserved \in [AC -> 0 .. uNumTotalBlks]
    /\ uAllocatedBlksCntr \in [AC -> 0 .. UINT32 - 1]
    /\ uFwFreedBlksCntr \in [AC -> 0 .. UINT32 - 1]
    /\ txReleasedBlks \in [AC -> 0 .. UINT32 - 1]
    /\ uNumBlksCausedBusy \in [AC -> Nat]
    /\ bQueueBusy \in [AC -> BOOLEAN]

\* No block is lost or counted twice, over any wrap-around of the counters: what
\* is not free is used by one of the queues, a queue's reservation is what it
\* lacks of its threshold, and the total is the sum of the reservations.
Accounts ==
    /\ uNumTotalBlksFree + Total(uNumBlksUsed) = uNumTotalBlks
    /\ uNumTotalBlksReserved = Total(uNumBlksReserved)
    /\ \A q \in AC :
           uNumBlksReserved[q] = IF uNumBlksUsed[q] < uNumBlksThresh[q]
                                 THEN uNumBlksThresh[q] - uNumBlksUsed[q] ELSE 0

\* "The lower threshold is the minimal number of Tx blocks guaranteed for each
\* queue": as long as there is a descriptor, every queue gets what it lacks of
\* its threshold, whatever the others have taken.
Guaranteed ==
    uNumUsedDescriptors < NUM_TX_DESCRIPTORS =>
        \A q \in AC : CheckResources(q) >= uNumBlksReserved[q]

\* The driver never counts less in use than the firmware holds.
NothingOverlooked ==
    /\ \A q \in AC : HeldBlks(q) <= uNumBlksUsed[q]
    /\ OpenPackets <= uNumUsedDescriptors

\* To the Tx path the counters, wrapping around at any point, and the incremental
\* totals are what TxResources says: after an update the driver's figures are
\* the firmware's, and a queue is busy or released as the quantities demand.
ImplementsTxResources == Res!Spec
=============================================================================
