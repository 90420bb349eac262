-------------------------- MODULE TxHwQueue_proofs --------------------------
(***************************************************************************)
(* Proofs about TxHwQueue, for any number of blocks and descriptors, any   *)
(* thresholds and any counter widths: the accounts are exact over every    *)
(* wrap-around, the guarantees hold, and the counters implement            *)
(* TxResources.                                                            *)
(***************************************************************************)
EXTENDS TxHwQueue, TLAPS

USE BlocksAssumption, TrafficAssumption, DescriptorsAssumption
USE DEF AC, Res!AC, Total, Res!Total

(* Counters modulo M.                                                      *)

\* The difference of two counters, as the code computes it in its own cases.
LEMMA ModSub ==
    ASSUME NEW M \in Nat \ {0}, NEW a \in 0 .. M - 1, NEW b \in 0 .. M - 1
    PROVE  (a - b) % M = IF b <= a THEN a - b ELSE a - b + M
  OBVIOUS

LEMMA ModAdd ==
    ASSUME NEW M \in Nat \ {0}, NEW a \in 0 .. M - 1, NEW n \in 0 .. M - 1
    PROVE  (a + n) % M = IF a + n < M THEN a + n ELSE a + n - M
  OBVIOUS

\* Counting up the minuend adds to the difference, counting up the subtrahend
\* takes from it, wherever they wrap around, while it stays below M.
LEMMA CountUp ==
    ASSUME NEW M \in Nat \ {0}, NEW a \in 0 .. M - 1, NEW b \in 0 .. M - 1,
           NEW n \in 0 .. M - 1, ((a - b) % M) + n < M
    PROVE  /\ (a + n) % M \in 0 .. M - 1
           /\ (((a + n) % M) - b) % M = ((a - b) % M) + n
  <1> DEFINE Mod(x) == x % M
  <1>1. Mod(a + n) = IF a + n < M THEN a + n ELSE a + n - M
    BY ModAdd
  <1>2. Mod(a - b) = IF b <= a THEN a - b ELSE a - b + M
    BY ModSub
  <1>3. Mod(a + n) \in 0 .. M - 1
    BY ModAdd
  <1>4. Mod(Mod(a + n) - b) = IF b <= Mod(a + n) THEN Mod(a + n) - b
                                                 ELSE Mod(a + n) - b + M
    BY <1>3, ModSub
  <1>5. Mod(a - b) + n < M
    OBVIOUS
  <1> HIDE DEF Mod
  <1>6. Mod(Mod(a + n) - b) = Mod(a - b) + n
    BY <1>1, <1>2, <1>3, <1>4, <1>5
  <1> QED
    BY <1>3, <1>6 DEF Mod

LEMMA CountDown ==
    ASSUME NEW M \in Nat \ {0}, NEW a \in 0 .. M - 1, NEW b \in 0 .. M - 1,
           NEW k \in Nat, k <= (a - b) % M
    PROVE  /\ (b + k) % M \in 0 .. M - 1
           /\ (a - ((b + k) % M)) % M = ((a - b) % M) - k
  <1> DEFINE Mod(x) == x % M
  <1>1. Mod(a - b) = IF b <= a THEN a - b ELSE a - b + M
    BY ModSub
  <1>2. k \in Nat /\ k <= Mod(a - b)
    OBVIOUS
  <1>3. k \in 0 .. M - 1
    <2> HIDE DEF Mod
    <2> QED
      BY <1>1, <1>2
  <1>4. Mod(b + k) = IF b + k < M THEN b + k ELSE b + k - M
    BY <1>3, ModAdd
  <1>5. Mod(b + k) \in 0 .. M - 1
    BY <1>3, ModAdd
  <1>6. Mod(a - Mod(b + k)) = IF Mod(b + k) <= a THEN a - Mod(b + k)
                                                 ELSE a - Mod(b + k) + M
    BY <1>5, ModSub
  <1> HIDE DEF Mod
  <1>7. Mod(a - Mod(b + k)) = Mod(a - b) - k
    BY <1>1, <1>2, <1>3, <1>4, <1>6
  <1> QED
    BY <1>5, <1>7 DEF Mod

-----------------------------------------------------------------------------
(* The invariant.                                                          *)

\* The driver's figures are its counters' difference to the copies of the
\* firmware's counters that it has seen; the firmware is never behind them.
Synchronized ==
    /\ \A q \in AC :
           /\ uNumBlksUsed[q] = (uAllocatedBlksCntr[q] - uFwFreedBlksCntr[q]) % UINT32
           /\ HeldBlks(q) \in 0 .. uNumBlksUsed[q]
    /\ uNumUsedDescriptors = (uDrvTxPacketsCntr - uFwTxResultsCntr) % UINT8
    /\ OpenPackets \in 0 .. uNumUsedDescriptors

\* What is free covers what the queues lack of their thresholds.
Covered == uNumTotalBlksReserved <= uNumTotalBlksFree

IInv == TypeOK /\ Accounts /\ Synchronized /\ Covered

LEMMA InitIInv == Init => IInv
<1> SUFFICES ASSUME Init PROVE IInv
  OBVIOUS
<1> USE DEF Init
<1>1. (0 - 0) % UINT32 = 0 /\ (0 - 0) % UINT8 = 0
  BY ModSub
<1>2. TypeOK
  BY DEF TypeOK
<1>3. Accounts
  BY DEF Accounts
<1>4. Synchronized
  BY <1>1 DEF Synchronized, HeldBlks, OpenPackets
<1>5. Covered
  BY DEF Covered
<1> QED
  BY <1>2, <1>3, <1>4, <1>5 DEF IInv

LEMMA SetHwInfoIInv == IInv /\ SetHwInfo => IInv'
<1> SUFFICES ASSUME IInv, SetHwInfo PROVE IInv'
  OBVIOUS
<1> USE DEF SetHwInfo
<1>1. (0 - 0) % UINT32 = 0 /\ (0 - 0) % UINT8 = 0
  BY ModSub
<1>2. TypeOK'
  BY DEF TypeOK
<1>3. Accounts'
  BY DEF Accounts
<1>4. Synchronized'
  BY <1>1 DEF Synchronized, HeldBlks, OpenPackets
<1>5. Covered'
  BY DEF Covered
<1> QED
  BY <1>2, <1>3, <1>4, <1>5 DEF IInv

\* With a descriptor left, a queue gets at least what is reserved for it, and a
\* packet that fits leaves the reservations of the others alone.
LEMMA Checked ==
    ASSUME IInv, NEW q \in AC
    PROVE  /\ CheckResources(q) \in Int
           /\ uNumUsedDescriptors < NUM_TX_DESCRIPTORS =>
                  /\ CheckResources(q) = uNumTotalBlksFree - uNumTotalBlksReserved
                                             + uNumBlksReserved[q]
                  /\ CheckResources(q) >= uNumBlksReserved[q]
  BY DEF IInv, TypeOK, Covered, CheckResources

\* An allocation adds to what the firmware holds.
LEMMA AllocHolds ==
    ASSUME IInv, NEW q \in AC, NEW n \in 1 .. uNumTotalBlks + 1, AllocResources(q, n)
    PROVE  /\ uNumUsedDescriptors < NUM_TX_DESCRIPTORS
           /\ n <= uNumTotalBlksFree - uNumTotalBlksReserved + uNumBlksReserved[q]
           /\ n <= uNumTotalBlksFree /\ uNumBlksUsed[q] + n <= uNumTotalBlks
           /\ uAllocatedBlksCntr'[q] \in 0 .. UINT32 - 1
           /\ uNumBlksUsed'[q] = (uAllocatedBlksCntr'[q] - uFwFreedBlksCntr[q]) % UINT32
           /\ HeldBlks(q)' = HeldBlks(q) + n
           /\ \A p \in AC \ {q} :
                  /\ uAllocatedBlksCntr'[p] = uAllocatedBlksCntr[p]
                  /\ uNumBlksUsed'[p] = uNumBlksUsed[p]
                  /\ HeldBlks(p)' = HeldBlks(p)
           /\ uDrvTxPacketsCntr' \in 0 .. UINT8 - 1
           /\ uNumUsedDescriptors' = (uDrvTxPacketsCntr' - uFwTxResultsCntr) % UINT8
           /\ OpenPackets' = OpenPackets + 1
<1> USE DEF AllocResources
<1>1. /\ uNumUsedDescriptors < NUM_TX_DESCRIPTORS
      /\ n <= uNumTotalBlksFree - uNumTotalBlksReserved + uNumBlksReserved[q]
  BY Checked DEF CheckResources
<1>2. n <= uNumTotalBlksFree
  <2>1. uNumBlksReserved[q] <= uNumTotalBlksReserved
    BY DEF IInv, TypeOK, Accounts
  <2> QED
    BY <1>1, <2>1 DEF IInv, TypeOK
<1>4. uNumBlksUsed[q] + n <= uNumTotalBlks
  BY <1>2 DEF IInv, TypeOK, Accounts
<1>5. /\ uAllocatedBlksCntr'[q] \in 0 .. UINT32 - 1
      /\ uNumBlksUsed'[q] = (uAllocatedBlksCntr'[q] - uFwFreedBlksCntr[q]) % UINT32
      /\ HeldBlks(q)' = HeldBlks(q) + n
  <2> DEFINE a == uAllocatedBlksCntr[q]
             f == uFwFreedBlksCntr[q]
             r == txReleasedBlks[q]
  <2>1. /\ a \in 0 .. UINT32 - 1 /\ f \in 0 .. UINT32 - 1 /\ r \in 0 .. UINT32 - 1
        /\ n \in 0 .. UINT32 - 1 /\ UINT32 \in Nat \ {0}
    BY <1>4 DEF IInv, TypeOK
  <2>2. (a - f) % UINT32 = uNumBlksUsed[q] /\ (a - r) % UINT32 <= uNumBlksUsed[q]
    BY DEF IInv, Synchronized, HeldBlks
  <2>3. ((a - f) % UINT32) + n < UINT32 /\ ((a - r) % UINT32) + n < UINT32
    <3>1. (a - r) % UINT32 \in Int
      BY <2>1, ModSub
    <3> QED
      BY <2>1, <2>2, <1>4, <3>1 DEF IInv, TypeOK
  <2>4. uAllocatedBlksCntr'[q] = (a + n) % UINT32 /\ txReleasedBlks' = txReleasedBlks
    BY DEF IInv, TypeOK, fwVars
  <2>5. uNumBlksUsed'[q] = uNumBlksUsed[q] + n
    BY DEF IInv, TypeOK
  <2> HIDE DEF a, f, r
  <2>6. (a + n) % UINT32 \in 0 .. UINT32 - 1 /\ (((a + n) % UINT32) - f) % UINT32 = ((a - f) % UINT32) + n
    BY <2>1, <2>3, CountUp
  <2>7. (((a + n) % UINT32) - r) % UINT32 = ((a - r) % UINT32) + n
    BY <2>1, <2>3, CountUp
  <2> QED
    BY <2>2, <2>4, <2>5, <2>6, <2>7 DEF HeldBlks, a, f, r
<1>6. \A p \in AC \ {q} :
        /\ uAllocatedBlksCntr'[p] = uAllocatedBlksCntr[p]
        /\ uNumBlksUsed'[p] = uNumBlksUsed[p]
        /\ HeldBlks(p)' = HeldBlks(p)
  BY DEF IInv, TypeOK, HeldBlks, fwVars
<1>7. /\ uDrvTxPacketsCntr' \in 0 .. UINT8 - 1
      /\ uNumUsedDescriptors' = (uDrvTxPacketsCntr' - uFwTxResultsCntr) % UINT8
      /\ OpenPackets' = OpenPackets + 1
  <2> DEFINE d == uDrvTxPacketsCntr
             f == uFwTxResultsCntr
             r == txResultsCntr
  <2>1. /\ d \in 0 .. UINT8 - 1 /\ f \in 0 .. UINT8 - 1 /\ r \in 0 .. UINT8 - 1
        /\ 1 \in 0 .. UINT8 - 1 /\ UINT8 \in Nat \ {0}
    BY DEF IInv, TypeOK
  <2>2. (d - f) % UINT8 = uNumUsedDescriptors /\ (d - r) % UINT8 <= uNumUsedDescriptors
    BY DEF IInv, Synchronized, OpenPackets
  <2>3. ((d - f) % UINT8) + 1 < UINT8 /\ ((d - r) % UINT8) + 1 < UINT8
    <3>1. (d - r) % UINT8 \in Int
      BY <2>1, ModSub
    <3> QED
      BY <2>1, <2>2, <1>1, <3>1 DEF IInv, TypeOK
  <2>4. uDrvTxPacketsCntr' = (d + 1) % UINT8 /\ txResultsCntr' = txResultsCntr
    BY DEF fwVars
  <2> HIDE DEF d, f, r
  <2>5. (d + 1) % UINT8 \in 0 .. UINT8 - 1 /\ (((d + 1) % UINT8) - f) % UINT8 = ((d - f) % UINT8) + 1
    BY <2>1, <2>3, CountUp
  <2>6. (((d + 1) % UINT8) - r) % UINT8 = ((d - r) % UINT8) + 1
    BY <2>1, <2>3, CountUp
  <2> QED
    BY <2>2, <2>4, <2>5, <2>6 DEF OpenPackets, d, f, r
<1> QED
  BY <1>1, <1>2, <1>4, <1>5, <1>6, <1>7

LEMMA AllocIInv ==
    ASSUME IInv, NEW q \in AC, NEW n \in 1 .. uNumTotalBlks + 1, AllocResources(q, n)
    PROVE  IInv'
<1> USE DEF AllocResources
<1>1. /\ uNumUsedDescriptors < NUM_TX_DESCRIPTORS
      /\ n <= uNumTotalBlksFree - uNumTotalBlksReserved + uNumBlksReserved[q]
      /\ n <= uNumTotalBlksFree
  BY AllocHolds
<1> DEFINE given == IF n < uNumBlksReserved[q] THEN n ELSE uNumBlksReserved[q]
<1>2. /\ uNumBlksReserved' = [uNumBlksReserved EXCEPT ![q] = @ - given]
      /\ uNumTotalBlksReserved' = uNumTotalBlksReserved - given
  BY DEF ReduceReserved, Minimum
<1>3. uNumBlksUsed[q] + n <= uNumTotalBlks
  BY AllocHolds
<1>4. /\ uAllocatedBlksCntr'[q] \in 0 .. UINT32 - 1
      /\ uNumBlksUsed'[q] = (uAllocatedBlksCntr'[q] - uFwFreedBlksCntr[q]) % UINT32
      /\ HeldBlks(q)' = HeldBlks(q) + n
      /\ \A p \in AC \ {q} :
             /\ uAllocatedBlksCntr'[p] = uAllocatedBlksCntr[p]
             /\ uNumBlksUsed'[p] = uNumBlksUsed[p]
             /\ HeldBlks(p)' = HeldBlks(p)
  BY AllocHolds
<1>5. /\ uDrvTxPacketsCntr' \in 0 .. UINT8 - 1
      /\ uNumUsedDescriptors' = (uDrvTxPacketsCntr' - uFwTxResultsCntr) % UINT8
      /\ OpenPackets' = OpenPackets + 1
  BY AllocHolds
<1>6. TypeOK'
  <2>1. uAllocatedBlksCntr' \in [AC -> 0 .. UINT32 - 1]
    BY <1>4 DEF IInv, TypeOK
  <2>2. uNumBlksUsed' \in [AC -> 0 .. uNumTotalBlks]
    BY <1>3 DEF IInv, TypeOK
  <2>3. /\ uNumBlksReserved' \in [AC -> 0 .. uNumTotalBlks]
        /\ uNumTotalBlksReserved' \in 0 .. uNumTotalBlks
    <3>1. /\ given \in 0 .. uNumBlksReserved[q]
          /\ uNumBlksReserved[q] \in 0 .. uNumTotalBlksReserved
      BY DEF IInv, TypeOK, Accounts
    <3> HIDE DEF given
    <3>2. uNumTotalBlksReserved' \in 0 .. uNumTotalBlks
      BY <1>2, <3>1 DEF IInv, TypeOK
    <3>3. uNumBlksReserved' \in [AC -> 0 .. uNumTotalBlks]
      BY <1>2, <3>1 DEF IInv, TypeOK
    <3> QED
      BY <3>2, <3>3
  <2>4. uNumTotalBlksFree' \in 0 .. uNumTotalBlks
    BY <1>1 DEF IInv, TypeOK
  <2>5. uNumUsedDescriptors' \in 0 .. NUM_TX_DESCRIPTORS
    BY <1>1 DEF IInv, TypeOK
  <2>6. uNumBlksCausedBusy' \in [AC -> Nat]
    BY DEF IInv, TypeOK, QueueBusy, busyVars
  <2>7. bQueueBusy' \in [AC -> BOOLEAN]
    <3>1. bQueueBusy' = [bQueueBusy EXCEPT ![q] = TRUE] \/ bQueueBusy' = bQueueBusy
      BY DEF QueueBusy, busyVars
    <3> QED
      BY <3>1 DEF IInv, TypeOK
  <2> QED
    BY <1>5, <2>1, <2>2, <2>3, <2>4, <2>5, <2>6, <2>7 DEF IInv, TypeOK, fwVars
<1>7. Accounts'
  <2>1. (uNumTotalBlksFree + Total(uNumBlksUsed) = uNumTotalBlks)'
    BY DEF IInv, TypeOK, Accounts
  <2>2. (uNumTotalBlksReserved = Total(uNumBlksReserved))'
    BY <1>2 DEF IInv, TypeOK, Accounts
  <2>3. ASSUME NEW p \in AC
        PROVE  (uNumBlksReserved[p] = IF uNumBlksUsed[p] < uNumBlksThresh[p]
                                      THEN uNumBlksThresh[p] - uNumBlksUsed[p] ELSE 0)'
    BY <1>2 DEF IInv, TypeOK, Accounts
  <2> QED
    BY <2>1, <2>2, <2>3 DEF Accounts
<1>8. Synchronized'
  <2>1. ASSUME NEW p \in AC
        PROVE  /\ uNumBlksUsed'[p] = (uAllocatedBlksCntr'[p] - uFwFreedBlksCntr'[p]) % UINT32
               /\ HeldBlks(p)' \in 0 .. uNumBlksUsed'[p]
    BY <1>4 DEF IInv, TypeOK, Synchronized
  <2>2. /\ uNumUsedDescriptors' = (uDrvTxPacketsCntr' - uFwTxResultsCntr') % UINT8
        /\ OpenPackets' \in 0 .. uNumUsedDescriptors'
    BY <1>5 DEF IInv, TypeOK, Synchronized
  <2> QED
    BY <2>1, <2>2 DEF Synchronized
<1>9. Covered'
  BY <1>1, <1>2 DEF IInv, TypeOK, Covered
<1> QED
  BY <1>6, <1>7, <1>8, <1>9 DEF IInv

LEMMA StopCurrentIInv ==
    ASSUME IInv, NEW q \in AC, NEW n \in Nat, StopCurrent(q, n)
    PROVE  IInv'
<1> USE DEF StopCurrent, QueueBusy, blkVars, descVars, cntrVars, fwVars
<1>1. TypeOK'
  <2>1. uNumBlksCausedBusy' \in [AC -> Nat] /\ bQueueBusy' \in [AC -> BOOLEAN]
    BY DEF IInv, TypeOK
  <2> QED
    BY <2>1 DEF IInv, TypeOK
<1>2. Accounts' /\ Covered'
  BY DEF IInv, Accounts, Covered
<1>3. Synchronized'
  BY DEF IInv, Synchronized, HeldBlks, OpenPackets
<1> QED
  BY <1>1, <1>2, <1>3 DEF IInv

\* The firmware's step takes from what it holds.
LEMMA FwStepHolds ==
    ASSUME IInv, NEW q \in AC, NEW k \in Nat, NEW r \in Nat, FwStep(q, k, r)
    PROVE  /\ txReleasedBlks' \in [AC -> 0 .. UINT32 - 1]
           /\ txResultsCntr' \in 0 .. UINT8 - 1
           /\ HeldBlks(q)' = HeldBlks(q) - k
           /\ \A p \in AC \ {q} : HeldBlks(p)' = HeldBlks(p)
           /\ OpenPackets' = OpenPackets - r
<1> USE DEF FwStep
<1>1. /\ (txReleasedBlks[q] + k) % UINT32 \in 0 .. UINT32 - 1
      /\ (uAllocatedBlksCntr[q] - ((txReleasedBlks[q] + k) % UINT32)) % UINT32
             = ((uAllocatedBlksCntr[q] - txReleasedBlks[q]) % UINT32) - k
  <2>1. /\ UINT32 \in Nat \ {0} /\ uAllocatedBlksCntr[q] \in 0 .. UINT32 - 1
        /\ txReleasedBlks[q] \in 0 .. UINT32 - 1
    BY DEF IInv, TypeOK
  <2>2. k <= (uAllocatedBlksCntr[q] - txReleasedBlks[q]) % UINT32
    BY DEF HeldBlks
  <2> DEFINE a == uAllocatedBlksCntr[q]
             b == txReleasedBlks[q]
  <2> HIDE DEF FwStep
  <2>3. /\ UINT32 \in Nat \ {0} /\ a \in 0 .. UINT32 - 1 /\ b \in 0 .. UINT32 - 1
        /\ k \in Nat /\ k <= (a - b) % UINT32
    BY <2>1, <2>2
  <2> HIDE DEF a, b
  <2>4. (b + k) % UINT32 \in 0 .. UINT32 - 1
    BY <2>3, CountDown
  <2>5. (a - ((b + k) % UINT32)) % UINT32 = ((a - b) % UINT32) - k
    BY <2>3, CountDown
  <2> QED
    BY <2>4, <2>5 DEF a, b
<1>2. /\ txReleasedBlks' \in [AC -> 0 .. UINT32 - 1]
      /\ txReleasedBlks'[q] = (txReleasedBlks[q] + k) % UINT32
      /\ \A p \in AC \ {q} : txReleasedBlks'[p] = txReleasedBlks[p]
  BY <1>1 DEF IInv, TypeOK
<1>3. uAllocatedBlksCntr' = uAllocatedBlksCntr /\ uDrvTxPacketsCntr' = uDrvTxPacketsCntr
  BY DEF cntrVars, descVars
<1>4. /\ (txResultsCntr + r) % UINT8 \in 0 .. UINT8 - 1
      /\ (uDrvTxPacketsCntr - ((txResultsCntr + r) % UINT8)) % UINT8
             = ((uDrvTxPacketsCntr - txResultsCntr) % UINT8) - r
  <2>1. /\ UINT8 \in Nat \ {0} /\ uDrvTxPacketsCntr \in 0 .. UINT8 - 1
        /\ txResultsCntr \in 0 .. UINT8 - 1
    BY DEF IInv, TypeOK
  <2>2. r <= (uDrvTxPacketsCntr - txResultsCntr) % UINT8
    BY DEF OpenPackets
  <2> HIDE DEF FwStep
  <2>3. (txResultsCntr + r) % UINT8 \in 0 .. UINT8 - 1
    BY <2>1, <2>2, CountDown
  <2>4. (uDrvTxPacketsCntr - ((txResultsCntr + r) % UINT8)) % UINT8
            = ((uDrvTxPacketsCntr - txResultsCntr) % UINT8) - r
    BY <2>1, <2>2, CountDown
  <2> QED
    BY <2>3, <2>4
<1>5. HeldBlks(q)' = HeldBlks(q) - k
  <2>1. HeldBlks(q)' = (uAllocatedBlksCntr[q] - txReleasedBlks'[q]) % UINT32
    BY <1>3 DEF HeldBlks
  <2>2. HeldBlks(q)' = (uAllocatedBlksCntr[q] - ((txReleasedBlks[q] + k) % UINT32)) % UINT32
    BY <1>2, <2>1
  <2> QED
    BY <1>1, <2>2 DEF HeldBlks
<1>6. \A p \in AC \ {q} : HeldBlks(p)' = HeldBlks(p)
  BY <1>2, <1>3 DEF HeldBlks
<1>7. txResultsCntr' \in 0 .. UINT8 - 1 /\ OpenPackets' = OpenPackets - r
  <2>1. txResultsCntr' = (txResultsCntr + r) % UINT8
    OBVIOUS
  <2>2. OpenPackets' = (uDrvTxPacketsCntr - ((txResultsCntr + r) % UINT8)) % UINT8
    BY <1>3, <2>1 DEF OpenPackets
  <2>3. OpenPackets' = OpenPackets - r
    BY <1>4, <2>2 DEF OpenPackets
  <2> QED
    BY <1>4, <2>1, <2>3
<1> QED
  BY <1>2, <1>5, <1>6, <1>7

LEMMA FwStepIInv ==
    ASSUME IInv, NEW q \in AC, NEW k \in Nat, NEW r \in Nat, FwStep(q, k, r)
    PROVE  IInv'
<1>1. UNCHANGED <<blkVars, descVars, cntrVars, busyVars>> /\ k <= HeldBlks(q) /\ r <= OpenPackets
  BY DEF FwStep
<1> USE DEF blkVars, descVars, cntrVars, busyVars
<1>2. TypeOK'
  BY <1>1, FwStepHolds DEF IInv, TypeOK
<1>3. Accounts' /\ Covered'
  BY <1>1 DEF IInv, Accounts, Covered
<1>4. Synchronized'
  <2>1. ASSUME NEW p \in AC
        PROVE  /\ uNumBlksUsed'[p] = (uAllocatedBlksCntr'[p] - uFwFreedBlksCntr'[p]) % UINT32
               /\ HeldBlks(p)' \in 0 .. uNumBlksUsed'[p]
    <3>1. HeldBlks(p) \in 0 .. uNumBlksUsed[p] /\ uNumBlksUsed[p] \in Nat
      BY DEF IInv, TypeOK, Synchronized
    <3>2. HeldBlks(p)' \in 0 .. uNumBlksUsed[p]
      BY <1>1, <3>1, FwStepHolds
    <3> QED
      BY <1>1, <3>2 DEF IInv, Synchronized
  <2>2. OpenPackets \in 0 .. uNumUsedDescriptors /\ uNumUsedDescriptors \in Nat
    BY DEF IInv, TypeOK, Synchronized
  <2>3. OpenPackets' \in 0 .. uNumUsedDescriptors
    BY <1>1, <2>2, FwStepHolds
  <2> QED
    BY <1>1, <2>1, <2>3 DEF IInv, Synchronized
<1> QED
  BY <1>2, <1>3, <1>4 DEF IInv

\* What UpdateFreeBlocks and UpdateDescriptors leave: the firmware's figures.
LEMMA Updated ==
    ASSUME IInv, UpdateFreeResources
    PROVE  /\ \A q \in AC : uNumBlksUsed'[q] = HeldBlks(q)
           /\ \A q \in AC : BlksToFree(q) = uNumBlksUsed[q] - HeldBlks(q)
           /\ uNumUsedDescriptors' = OpenPackets
           /\ \A q \in AC : HeldBlks(q)' = HeldBlks(q)
           /\ OpenPackets' = OpenPackets
<1> USE DEF UpdateFreeResources
<1>1. ASSUME NEW q \in AC PROVE BlksToFree(q) = uNumBlksUsed[q] - HeldBlks(q)
  <2>1. CASE txReleasedBlks[q] = uFwFreedBlksCntr[q]
    <3>1. HeldBlks(q) = uNumBlksUsed[q] /\ uNumBlksUsed[q] \in Int
      BY <2>1 DEF IInv, TypeOK, Synchronized, HeldBlks
    <3> QED
      BY <2>1, <3>1 DEF BlksToFree
  <2>2. CASE txReleasedBlks[q] # uFwFreedBlksCntr[q]
    BY <2>2 DEF BlksToFree, NewUsedBlks, HeldBlks
  <2> QED
    BY <2>1, <2>2
<1>2. ASSUME NEW q \in AC PROVE uNumBlksUsed'[q] = HeldBlks(q)
  <2>1. uNumBlksUsed'[q] = uNumBlksUsed[q] - BlksToFree(q)
    BY DEF UpdateFreeBlocks
  <2>2. uNumBlksUsed[q] \in Int /\ HeldBlks(q) \in Int
    BY DEF IInv, TypeOK, Synchronized
  <2> QED
    BY <1>1, <2>1, <2>2
<1>3. uNumUsedDescriptors' = OpenPackets
  <2>1. (uDrvTxPacketsCntr - txResultsCntr) % UINT8
            = IF txResultsCntr <= uDrvTxPacketsCntr
              THEN uDrvTxPacketsCntr - txResultsCntr
              ELSE uDrvTxPacketsCntr - txResultsCntr + UINT8
    <3>1. /\ UINT8 \in Nat \ {0} /\ uDrvTxPacketsCntr \in 0 .. UINT8 - 1
          /\ txResultsCntr \in 0 .. UINT8 - 1
      BY DEF IInv, TypeOK
    <3> QED
      BY <3>1, ModSub
  <2>2. CASE txResultsCntr = uFwTxResultsCntr
    BY <2>2 DEF UpdateDescriptors, IInv, Synchronized, OpenPackets
  <2>3. CASE txResultsCntr # uFwTxResultsCntr
    <3>1. uNumUsedDescriptors' = IF txResultsCntr <= uDrvTxPacketsCntr
                                 THEN uDrvTxPacketsCntr - txResultsCntr
                                 ELSE UINT8 - (txResultsCntr - uDrvTxPacketsCntr)
      BY <2>3 DEF UpdateDescriptors
    <3>2. /\ UINT8 \in Int /\ txResultsCntr \in Int /\ uDrvTxPacketsCntr \in Int
      BY DEF IInv, TypeOK
    <3>3. UINT8 - (txResultsCntr - uDrvTxPacketsCntr)
              = uDrvTxPacketsCntr - txResultsCntr + UINT8
      BY <3>2
    <3> QED
      BY <2>1, <3>1, <3>3 DEF OpenPackets
  <2> QED
    BY <2>2, <2>3
<1>4. /\ \A q \in AC : HeldBlks(q)' = HeldBlks(q)
      /\ OpenPackets' = OpenPackets
  BY DEF HeldBlks, OpenPackets, UpdateFreeBlocks, UpdateDescriptors, fwVars
<1> QED
  BY <1>1, <1>2, <1>3, <1>4

LEMMA UpdateIInv == IInv /\ UpdateFreeResources => IInv'
<1> SUFFICES ASSUME IInv, UpdateFreeResources PROVE IInv'
  OBVIOUS
<1> DEFINE h == [q \in AC |-> HeldBlks(q)]
<1>1. \A q \in AC : /\ h[q] \in 0 .. uNumBlksUsed[q]
                     /\ uNumBlksUsed[q] \in 0 .. uNumTotalBlks
                     /\ uNumBlksThresh[q] \in Nat
                     /\ NewUsedBlks(q) = h[q]
  BY DEF IInv, TypeOK, Synchronized, NewUsedBlks, HeldBlks
<1>2. \A q \in AC : h[q] = HeldBlks(q)
  OBVIOUS
<1> HIDE DEF h
<1>3. \A q \in AC : uNumBlksUsed'[q] = h[q]
  BY <1>2, Updated
<1>4. uNumTotalBlksFree' = uNumTotalBlksFree + Total([q \in AC |-> uNumBlksUsed[q] - h[q]])
  BY <1>2, Updated DEF UpdateFreeResources, UpdateFreeBlocks
<1>5. ASSUME NEW q \in AC
      PROVE  uNumBlksReserved'[q] = IF h[q] < uNumBlksThresh[q]
                                    THEN uNumBlksThresh[q] - h[q] ELSE 0
  <2>1. uNumBlksReserved'[q] = IF RegainsReserve(q) THEN NewReserved(q)
                               ELSE uNumBlksReserved[q]
    BY DEF UpdateFreeResources, UpdateFreeBlocks
  <2>2. uNumBlksReserved[q] = IF uNumBlksUsed[q] < uNumBlksThresh[q]
                              THEN uNumBlksThresh[q] - uNumBlksUsed[q] ELSE 0
    BY DEF IInv, Accounts
  <2>3. CASE txReleasedBlks[q] = uFwFreedBlksCntr[q]
    <3>1. h[q] = uNumBlksUsed[q]
      BY <1>2, <2>3 DEF IInv, Synchronized, HeldBlks
    <3> QED
      BY <2>1, <2>2, <2>3, <3>1 DEF RegainsReserve
  <2>4. CASE txReleasedBlks[q] # uFwFreedBlksCntr[q]
    BY <1>1, <2>1, <2>2, <2>4 DEF RegainsReserve, NewReserved
  <2> QED
    BY <2>3, <2>4
<1>6. ASSUME NEW q \in AC
      PROVE  /\ uNumBlksReserved[q] \in 0 .. uNumTotalBlks
             /\ uNumBlksReserved'[q] \in Int /\ ReservedAgain(q) \in Int
             /\ uNumBlksReserved'[q] = uNumBlksReserved[q] + ReservedAgain(q)
             /\ ReservedAgain(q) <= uNumBlksUsed[q] - h[q]
  <2>1. uNumBlksReserved[q] = IF uNumBlksUsed[q] < uNumBlksThresh[q]
                              THEN uNumBlksThresh[q] - uNumBlksUsed[q] ELSE 0
    BY DEF IInv, Accounts
  <2>2. uNumBlksReserved[q] \in 0 .. uNumTotalBlks
    BY DEF IInv, TypeOK
  <2>3. BlksToFree(q) = uNumBlksUsed[q] - h[q]
    BY <1>2, Updated
  <2>4. CASE txReleasedBlks[q] = uFwFreedBlksCntr[q]
    <3>1. h[q] = uNumBlksUsed[q]
      BY <1>2, <2>4 DEF IInv, Synchronized, HeldBlks
    <3>2. ReservedAgain(q) = 0
      BY <2>4 DEF ReservedAgain, RegainsReserve
    <3> QED
      BY <1>1, <1>5, <2>1, <2>2, <3>1, <3>2
  <2>5. CASE txReleasedBlks[q] # uFwFreedBlksCntr[q]
    <3>1. ReservedAgain(q) = IF h[q] < uNumBlksThresh[q]
                             THEN Minimum(uNumBlksUsed[q] - h[q], uNumBlksThresh[q] - h[q])
                             ELSE 0
      BY <1>1, <2>3, <2>5 DEF ReservedAgain, RegainsReserve, NewReserved
    <3> QED
      BY <1>1, <1>5, <2>1, <2>2, <3>1 DEF Minimum
  <2> QED
    BY <2>4, <2>5
<1>7. uNumTotalBlksReserved' = uNumTotalBlksReserved + Total([q \in AC |-> ReservedAgain(q)])
  BY DEF UpdateFreeResources, UpdateFreeBlocks
<1>8. Accounts'
  <2>1. (uNumTotalBlksFree + Total(uNumBlksUsed) = uNumTotalBlks)'
    BY <1>1, <1>3, <1>4 DEF IInv, TypeOK, Accounts
  <2>2. (uNumTotalBlksReserved = Total(uNumBlksReserved))'
    BY <1>6, <1>7 DEF IInv, TypeOK, Accounts
  <2> QED
    BY <1>3, <1>5, <2>1, <2>2 DEF Accounts
<1>9. Covered'
  BY <1>1, <1>4, <1>6, <1>7 DEF IInv, TypeOK, Covered
<1>10. TypeOK'
  <2>1. /\ uNumTotalBlksFree' \in 0 .. uNumTotalBlks
        /\ uNumTotalBlksReserved' \in 0 .. uNumTotalBlks
    <3>1. uNumTotalBlksFree' \in Int /\ uNumTotalBlksFree' <= uNumTotalBlks
      BY <1>1, <1>3, <1>4, <1>8 DEF IInv, TypeOK, Accounts
    <3>2. uNumTotalBlksReserved' \in Nat
      <4>1. \A q \in AC : uNumBlksReserved'[q] \in Nat
        BY <1>1, <1>5
      <4>2. uNumTotalBlksReserved' = Total(uNumBlksReserved')
        BY <1>8 DEF Accounts
      <4> QED
        BY ONLY <4>1, <4>2
    <3> QED
      BY <1>9, <3>1, <3>2 DEF Covered
  <2>2. uNumBlksUsed' \in [AC -> 0 .. uNumTotalBlks]
    <3>1. uNumBlksUsed' = [q \in AC |-> uNumBlksUsed[q] - BlksToFree(q)]
      BY DEF UpdateFreeResources, UpdateFreeBlocks
    <3> QED
      BY <1>1, <1>3, <3>1
  <2>3. uNumBlksReserved' \in [AC -> 0 .. uNumTotalBlks]
    <3>1. uNumBlksReserved' = [q \in AC |-> IF RegainsReserve(q) THEN NewReserved(q)
                                            ELSE uNumBlksReserved[q]]
      BY DEF UpdateFreeResources, UpdateFreeBlocks
    <3>2. \A q \in AC : uNumBlksReserved'[q] \in 0 .. uNumTotalBlks
      <4>1. \A q \in AC : uNumBlksReserved'[q] \in Nat
        BY <1>1, <1>5
      <4> QED
        BY <1>8, <2>1, <4>1 DEF Accounts
    <3> QED
      BY <3>1, <3>2
  <2>4. uNumUsedDescriptors' \in 0 .. NUM_TX_DESCRIPTORS
    BY Updated DEF IInv, TypeOK, Synchronized
  <2>5. bQueueBusy' \in [AC -> BOOLEAN]
    BY DEF UpdateFreeResources
  <2>6. /\ uDrvTxPacketsCntr' = uDrvTxPacketsCntr /\ uFwTxResultsCntr' = txResultsCntr
        /\ txResultsCntr' = txResultsCntr /\ txReleasedBlks' = txReleasedBlks
        /\ uAllocatedBlksCntr' = uAllocatedBlksCntr /\ uFwFreedBlksCntr' = txReleasedBlks
        /\ uNumBlksCausedBusy' = uNumBlksCausedBusy
    BY DEF UpdateFreeResources, UpdateFreeBlocks, UpdateDescriptors, fwVars
  <2> QED
    BY <2>1, <2>2, <2>3, <2>4, <2>5, <2>6 DEF IInv, TypeOK
<1>11. Synchronized'
  <2>1. /\ uDrvTxPacketsCntr' = uDrvTxPacketsCntr /\ uFwTxResultsCntr' = txResultsCntr
        /\ uAllocatedBlksCntr' = uAllocatedBlksCntr /\ uFwFreedBlksCntr' = txReleasedBlks
    BY DEF UpdateFreeResources, UpdateFreeBlocks, UpdateDescriptors
  <2>2. ASSUME NEW q \in AC
        PROVE  /\ uNumBlksUsed'[q] = (uAllocatedBlksCntr'[q] - uFwFreedBlksCntr'[q]) % UINT32
               /\ HeldBlks(q)' \in 0 .. uNumBlksUsed'[q]
    <3>1. HeldBlks(q)' = HeldBlks(q) /\ uNumBlksUsed'[q] = HeldBlks(q)
      BY Updated
    <3>2. HeldBlks(q) \in Nat
      BY <1>1, <1>2
    <3> QED
      BY <2>1, <3>1, <3>2 DEF HeldBlks
  <2>3. /\ uNumUsedDescriptors' = (uDrvTxPacketsCntr' - uFwTxResultsCntr') % UINT8
        /\ OpenPackets' \in 0 .. uNumUsedDescriptors'
    <3>1. OpenPackets' = OpenPackets /\ uNumUsedDescriptors' = OpenPackets
      BY Updated
    <3>2. OpenPackets \in Nat
      BY DEF IInv, TypeOK, Synchronized
    <3> QED
      BY <2>1, <3>1, <3>2 DEF OpenPackets
  <2> QED
    BY <2>2, <2>3 DEF Synchronized
<1> QED
  BY <1>8, <1>9, <1>10, <1>11 DEF IInv

LEMMA StutterIInv == IInv /\ UNCHANGED vars => IInv'
  BY DEF vars, blkVars, descVars, cntrVars, busyVars, fwVars, IInv, TypeOK, Accounts,
         Covered, Synchronized, HeldBlks, OpenPackets

LEMMA NextIInv == IInv /\ [Next]_vars => IInv'
<1> SUFFICES ASSUME IInv, [Next]_vars PROVE IInv'
  OBVIOUS
<1>1. CASE Alloc
  <2>1. PICK q \in Traffic : \E n \in 1 .. uNumTotalBlks + 1 :
                 StopCurrent(q, n) \/ AllocResources(q, n)
    BY <1>1 DEF Alloc
  <2>2. PICK n \in 1 .. uNumTotalBlks + 1 : StopCurrent(q, n) \/ AllocResources(q, n)
    BY <2>1
  <2>3. q \in AC /\ n \in Nat
    OBVIOUS
  <2> QED
    BY <2>2, <2>3, StopCurrentIInv, AllocIInv
<1>2. CASE Firmware
  <2>1. PICK q \in Traffic, k \in 0 .. uNumTotalBlks, r \in 0 .. NUM_TX_DESCRIPTORS :
            FwStep(q, k, r)
    BY <1>2 DEF Firmware
  <2>2. q \in AC /\ k \in Nat /\ r \in Nat
    OBVIOUS
  <2> QED
    BY <2>1, <2>2, FwStepIInv
<1>3. CASE UpdateFreeResources
  BY <1>3, UpdateIInv
<1>4. CASE SetHwInfo
  BY <1>4, SetHwInfoIInv
<1>5. CASE UNCHANGED vars
  BY <1>5, StutterIInv
<1> QED
  BY <1>1, <1>2, <1>3, <1>4, <1>5 DEF Next

LEMMA Invariance == Spec => []IInv
  BY InitIInv, NextIInv, PTL DEF Spec

\* The counters and figures keep their ranges: nothing underflows, and no queue
\* or total exceeds what the firmware has.
THEOREM TypeCorrect == Spec => []TypeOK
<1>1. IInv => TypeOK
  BY DEF IInv
<1> QED
  BY Invariance, <1>1, PTL

\* No block is lost or counted twice, over any wrap-around.
THEOREM AccountsExact == Spec => []Accounts
<1>1. IInv => Accounts
  BY DEF IInv
<1> QED
  BY Invariance, <1>1, PTL

\* Every queue gets what it lacks of its threshold while there are descriptors.
THEOREM GuaranteesKept == Spec => []Guaranteed
<1>1. IInv => Guaranteed
  BY Checked DEF Guaranteed
<1> QED
  BY Invariance, <1>1, PTL

\* The driver never counts less in use than the firmware holds.
THEOREM FirmwareCovered == Spec => []NothingOverlooked
<1>1. IInv => NothingOverlooked
  BY DEF IInv, TypeOK, Synchronized, NothingOverlooked
<1> QED
  BY Invariance, <1>1, PTL

-----------------------------------------------------------------------------
(* The refinement: every step of the counters is one of the quantities.    *)

LEMMA InitRefines == Init => Res!Init
<1> SUFFICES ASSUME Init PROVE Res!Init
  OBVIOUS
<1>1. (0 - 0) % UINT32 = 0 /\ (0 - 0) % UINT8 = 0
  BY ModSub
<1>2. [q \in 0 .. 3 |-> HeldBlks(q)] = [q \in Res!AC |-> 0]
  BY <1>1 DEF Init, HeldBlks
<1>3. OpenPackets = 0
  BY <1>1 DEF Init, OpenPackets
<1> QED
  BY <1>2, <1>3 DEF Init, Res!Init

LEMMA SetHwInfoRefines == SetHwInfo => Res!Reset
<1> SUFFICES ASSUME SetHwInfo PROVE Res!Reset
  OBVIOUS
<1>1. (0 - 0) % UINT32 = 0 /\ (0 - 0) % UINT8 = 0
  BY ModSub
<1>2. [q \in 0 .. 3 |-> HeldBlks(q)]' = [q \in Res!AC |-> 0]
  BY <1>1 DEF SetHwInfo, HeldBlks
<1>3. OpenPackets' = 0
  BY <1>1 DEF SetHwInfo, OpenPackets
<1> QED
  BY <1>2, <1>3 DEF SetHwInfo, Res!Reset

LEMMA AvailableRefines ==
    ASSUME TypeOK, Accounts, NEW q \in AC
    PROVE  Res!Available(q) = CheckResources(q)
<1>1. \A p \in AC : Res!Reserved(p) = uNumBlksReserved[p]
  BY DEF Accounts, Res!Reserved
<1>2. Total([p \in AC |-> Res!Reserved(p)]) = uNumTotalBlksReserved
  BY <1>1 DEF Accounts
<1>3. uNumTotalBlks - Total(uNumBlksUsed) = uNumTotalBlksFree
  BY DEF TypeOK, Accounts
<1> QED
  BY <1>1, <1>2, <1>3 DEF Res!Available, CheckResources

LEMMA UpdateRefines == IInv /\ UpdateFreeResources => Res!Update
<1> SUFFICES ASSUME IInv, UpdateFreeResources PROVE Res!Update
  OBVIOUS
<1>1. uNumBlksUsed' = [q \in 0 .. 3 |-> HeldBlks(q)]
  <2>1. \A q \in 0 .. 3 : uNumBlksUsed'[q] = HeldBlks(q)
    BY Updated
  <2>2. uNumBlksUsed' = [q \in 0 .. 3 |-> uNumBlksUsed[q] - BlksToFree(q)]
    BY DEF UpdateFreeResources, UpdateFreeBlocks
  <2> QED
    BY <2>1, <2>2
<1>2. ASSUME NEW q \in AC PROVE Res!Releases(q) <=> Releases(q)
  <2>1. (TypeOK /\ Accounts)'
    BY UpdateIInv DEF IInv
  <2>2. Res!Available(q)' = CheckResources(q)'
    <3>1. \A p \in AC : (Res!Reserved(p))' = uNumBlksReserved'[p]
      BY <2>1 DEF Accounts, Res!Reserved
    <3>2. (Total([p \in AC |-> Res!Reserved(p)]))' = uNumTotalBlksReserved'
      BY <2>1, <3>1 DEF Accounts
    <3>3. (uNumTotalBlks - Total(uNumBlksUsed))' = uNumTotalBlksFree'
      BY <2>1 DEF TypeOK, Accounts
    <3> QED
      BY <3>1, <3>2, <3>3 DEF Res!Available, CheckResources
  <2> QED
    BY <2>2 DEF Releases, Res!Releases
<1>3. bQueueBusy' = [q \in Res!AC |-> bQueueBusy[q] /\ ~Res!Releases(q)]
  <2>1. bQueueBusy' = [q \in AC |-> bQueueBusy[q] /\ ~Releases(q)]
    BY DEF UpdateFreeResources
  <2> QED
    BY <1>2, <2>1, Zenon
<1>4. [q \in 0 .. 3 |-> HeldBlks(q)]' = [q \in 0 .. 3 |-> HeldBlks(q)]
  BY Updated
<1>5. uNumUsedDescriptors' = OpenPackets /\ OpenPackets' = OpenPackets
  BY Updated
<1>6. uNumBlksCausedBusy' = uNumBlksCausedBusy
  BY DEF UpdateFreeResources
<1> QED
  BY <1>1, <1>3, <1>4, <1>5, <1>6 DEF Res!Update, Res!fwVars

LEMMA FwStepRefines ==
    ASSUME IInv, NEW q \in AC, NEW k \in Nat, NEW r \in Nat, FwStep(q, k, r)
    PROVE  Res!FwStep(q, k, r)
<1> DEFINE h == [p \in 0 .. 3 |-> HeldBlks(p)]
<1>1. h' = [h EXCEPT ![q] = @ - k] /\ h[q] = HeldBlks(q)
  BY FwStepHolds
<1>2. OpenPackets' = OpenPackets - r
  BY FwStepHolds
<1>3. k \in 0 .. HeldBlks(q) /\ r \in 0 .. OpenPackets /\ k + r > 0
  BY DEF FwStep
<1>4. UNCHANGED <<uNumBlksUsed, uNumUsedDescriptors, uNumBlksCausedBusy, bQueueBusy>>
  BY DEF FwStep, blkVars, descVars, busyVars
<1> QED
  BY <1>1, <1>2, <1>3, <1>4 DEF Res!FwStep, Res!driverVars, Res!busyVars

LEMMA StopCurrentRefines ==
    ASSUME IInv, NEW q \in AC, NEW n \in Nat, StopCurrent(q, n)
    PROVE  Res!StopCurrent(q, n)
<1>1. n > Res!Available(q)
  BY AvailableRefines DEF IInv, StopCurrent
<1>2. [p \in 0 .. 3 |-> HeldBlks(p)]' = [p \in 0 .. 3 |-> HeldBlks(p)]
  BY DEF StopCurrent, cntrVars, fwVars, HeldBlks
<1>3. OpenPackets' = OpenPackets
  BY DEF StopCurrent, descVars, fwVars, OpenPackets
<1> QED
  BY <1>1, <1>2, <1>3 DEF StopCurrent, QueueBusy, blkVars, descVars,
                          Res!StopCurrent, Res!QueueBusy, Res!driverVars, Res!fwVars

LEMMA AllocRefines ==
    ASSUME IInv, NEW q \in AC, NEW n \in 1 .. uNumTotalBlks + 1, AllocResources(q, n)
    PROVE  Res!Alloc(q, n)
<1> DEFINE h == [p \in 0 .. 3 |-> HeldBlks(p)]
<1>1. h' = [h EXCEPT ![q] = @ + n] /\ OpenPackets' = OpenPackets + 1
  BY AllocHolds
<1>2. Res!Available(q) = CheckResources(q)
  BY AvailableRefines DEF IInv
<1>3. n <= Res!Available(q) /\ (Res!StopsNext(q, n) <=> StopsNext(q, n))
  BY <1>2 DEF AllocResources, StopsNext, Res!StopsNext
<1>4. IF Res!StopsNext(q, n) THEN Res!QueueBusy(q, n) ELSE UNCHANGED Res!busyVars
  BY <1>3 DEF AllocResources, QueueBusy, busyVars, Res!QueueBusy, Res!busyVars
<1> QED
  BY <1>1, <1>3, <1>4 DEF AllocResources, Res!Alloc

LEMMA NextRefines == IInv /\ [Next]_vars => [Res!Next]_Res!vars
<1> SUFFICES ASSUME IInv, [Next]_vars PROVE [Res!Next]_Res!vars
  OBVIOUS
<1>1. CASE Alloc
  <2>1. PICK q \in Traffic, n \in 1 .. uNumTotalBlks + 1 :
            StopCurrent(q, n) \/ AllocResources(q, n)
    BY <1>1 DEF Alloc
  <2>2. q \in AC /\ n \in Nat
    OBVIOUS
  <2>3. Res!StopCurrent(q, n) \/ Res!Alloc(q, n)
    BY <2>1, <2>2, StopCurrentRefines, AllocRefines
  <2> QED
    BY <2>2, <2>3 DEF Res!Next
<1>2. CASE Firmware
  <2>1. PICK q \in Traffic, k \in 0 .. uNumTotalBlks, r \in 0 .. NUM_TX_DESCRIPTORS :
            FwStep(q, k, r)
    BY <1>2 DEF Firmware
  <2>2. q \in AC /\ k \in Nat /\ r \in Nat
    OBVIOUS
  <2>3. Res!FwStep(q, k, r)
    BY <2>1, <2>2, FwStepRefines
  <2> QED
    BY <2>2, <2>3 DEF Res!Next
<1>3. CASE UpdateFreeResources
  BY <1>3, UpdateRefines DEF Res!Next
<1>4. CASE SetHwInfo
  BY <1>4, SetHwInfoRefines DEF Res!Next
<1>5. CASE UNCHANGED vars
  BY <1>5 DEF vars, blkVars, descVars, cntrVars, busyVars, fwVars, HeldBlks, OpenPackets,
              Res!vars, Res!driverVars, Res!fwVars, Res!busyVars
<1> QED
  BY <1>1, <1>2, <1>3, <1>4, <1>5 DEF Next

\* The wrapping counters and incremental totals of txHwQueue.c are, to the Tx
\* path, the quantities of TxResources.
THEOREM Refinement == Spec => ImplementsTxResources
  BY InitRefines, Invariance, NextRefines, PTL
     DEF Spec, ImplementsTxResources, Res!Spec
=============================================================================
