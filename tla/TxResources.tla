---------------------------- MODULE TxResources ----------------------------
(***************************************************************************)
(* What the hardware queues promise to the Tx path: memory blocks and      *)
(* descriptors of the firmware, lent to packets of four access categories  *)
(* (ACs) and given back by the firmware.  TxHwQueue implements this with   *)
(* counters that wrap around; here the quantities themselves are the state.*)
(***************************************************************************)
EXTENDS Integers

CONSTANTS
    uNumTotalBlks,      \* blocks for the driver's use
    uNumBlksThresh,     \* [AC -> blocks guaranteed]
    NUM_TX_DESCRIPTORS

AC == 0 .. 3            \* MAX_NUM_OF_AC = 4

\* Over all queues.
Total(f) == f[0] + f[1] + f[2] + f[3]

VARIABLES
    used,               \* [AC -> blocks in use, as the driver knows]
    held,               \* [AC -> blocks the firmware has not released]
    descs,              \* descriptors in use, as the driver knows
    open,               \* packets the firmware has not posted a result of
    causedBusy,         \* [AC -> blocks of the packet that made it busy]
    busy                \* [AC -> the queue waits for a release]

driverVars == <<used, descs>>
fwVars     == <<held, open>>
busyVars   == <<causedBusy, busy>>
vars       == <<driverVars, fwVars, busyVars>>

Reset ==
    /\ used' = [q \in AC |-> 0] /\ held' = [q \in AC |-> 0]
    /\ descs' = 0 /\ open' = 0
    /\ causedBusy' = [q \in AC |-> 0] /\ busy' = [q \in AC |-> FALSE]

Init ==
    /\ used = [q \in AC |-> 0] /\ held = [q \in AC |-> 0]
    /\ descs = 0 /\ open = 0
    /\ causedBusy = [q \in AC |-> 0] /\ busy = [q \in AC |-> FALSE]

\* What a queue lacks of its guarantee is kept for it.
Reserved(q) == IF used[q] < uNumBlksThresh[q] THEN uNumBlksThresh[q] - used[q] ELSE 0

\* What is neither used nor kept for another queue.
Available(q) ==
    IF descs < NUM_TX_DESCRIPTORS
    THEN uNumTotalBlks - Total(used) - (Total([p \in AC |-> Reserved(p)]) - Reserved(q))
    ELSE 0

QueueBusy(q, n) ==
    /\ causedBusy' = [causedBusy EXCEPT ![q] = n]
    /\ busy' = [busy EXCEPT ![q] = TRUE]

\* A packet of n blocks that does not fit makes the queue busy; so does one that
\* fits, but not twice.
StopCurrent(q, n) ==
    /\ n > Available(q)
    /\ QueueBusy(q, n)
    /\ UNCHANGED <<driverVars, fwVars>>

StopsNext(q, n) == 2 * n > Available(q)

Alloc(q, n) ==
    /\ n <= Available(q)
    /\ used' = [used EXCEPT ![q] = @ + n] /\ held' = [held EXCEPT ![q] = @ + n]
    /\ descs' = descs + 1 /\ open' = open + 1
    /\ IF StopsNext(q, n) THEN QueueBusy(q, n) ELSE UNCHANGED busyVars

\* The firmware releases blocks of a queue, posts results, or both.
FwStep(q, k, r) ==
    /\ k \in 0 .. held[q] /\ r \in 0 .. open /\ k + r > 0
    /\ held' = [held EXCEPT ![q] = @ - k] /\ open' = open - r
    /\ UNCHANGED <<driverVars, busyVars>>

\* Mutant: a queue is released by its own blocks only.
MutReleases(q) ==
    busy[q] /\ used'[q] # used[q] /\ causedBusy[q] <= Available(q)'

\* The packet that made the queue busy fits now.
Releases(q) == busy[q] /\ causedBusy[q] <= Available(q)'

\* The driver learns of all that was released.
Update ==
    /\ used' = held /\ descs' = open
    /\ busy' = [q \in AC |-> busy[q] /\ ~Releases(q)]
    /\ UNCHANGED <<fwVars, causedBusy>>

Next ==
    \/ \E q \in AC : \E n \in 1 .. uNumTotalBlks + 1 : StopCurrent(q, n) \/ Alloc(q, n)
    \/ \E q \in AC : \E k \in 0 .. uNumTotalBlks, r \in 0 .. NUM_TX_DESCRIPTORS :
           FwStep(q, k, r)
    \/ Update \/ Reset

Spec == Init /\ [][Next]_vars
=============================================================================
