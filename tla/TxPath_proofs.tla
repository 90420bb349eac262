--------------------------- MODULE TxPath_proofs ---------------------------
(***************************************************************************)
(* Proofs about TxPath, for any sizes, blocks and thresholds: a busy       *)
(* hardware queue is always released, and no packet is stranded.           *)
(* HwInv: a queue is busy for want of blocks or descriptors, and what is   *)
(* lent belongs to packets that the firmware has.                          *)
(* SchedInv: what is true of the queues the scheduler has visited in the   *)
(* round that may be its last.                                             *)
(***************************************************************************)
EXTENDS TxPath, FiniteSetTheorems, TLAPS

USE PathAssumption, PacketAssumption
USE DEF AC, Hw!AC

\* The blocks of the packets the firmware has.
Lent == [q \in AC |-> inFw[q] * Blks[q]]

HwTypes ==
    /\ used \in [AC -> Nat] /\ held \in [AC -> Nat] /\ descs \in Nat /\ open \in Nat
    /\ causedBusy \in [AC -> Nat] /\ busy \in [AC -> BOOLEAN]
    /\ inFw \in [AC -> Nat]

\* Every busy queue lacks what its packet needs.
BusyLacks ==
    \A q \in AC : busy[q] => causedBusy[q] = Blks[q] /\ Blks[q] > Hw!Available(q)

\* What is lent belongs to a packet; a stop takes the packets alone.
LentToPackets ==
    /\ eState \in {"CONFIG", "RUN"} => held = Lent /\ open = Hw!Total(inFw)
    /\ eState # "RUN" => inFw = [q \in AC |-> 0]

HwInv == HwTypes /\ BusyLacks /\ LentToPackets

PathTypes ==
    /\ aQueues \in [AC -> Nat] /\ \A q \in AC : aQueues[q] <= aQueueMaxSize[q]
    /\ aQueueBusy \subseteq AC /\ busyAcBitmap \subseteq AC
    /\ uLastQueId \in AC /\ uIdleIterations \in 0 .. 4
    /\ bDataPortEnable \in BOOLEAN /\ txPending \in BOOLEAN /\ paceTimer \in BOOLEAN
    /\ pc \in {"idle", "sched", "xmit", "notify", "hung"} /\ cont \in {"idle", "notify"}

\* Only while the driver runs is the port open; the rest of a recovery is done with
\* the port closed.
PortOK ==
    /\ bDataPortEnable => eState = "RUN"
    /\ pc = "xmit" => bDataPortEnable
    /\ pc = "notify" \/ (pc # "idle" /\ cont = "notify") =>
           ~bDataPortEnable /\ eState = "RUN"

\* A data queue is busy with its hardware queue, until a restart.
BusyTogether ==
    ~restarted =>
        /\ eState = "RUN" =>
               \A q \in aQueueBusy \cup busyAcBitmap : busy[q]
        /\ eState \in {"INIT", "CONFIG"} /\ ~bRecovery =>
               aQueueBusy = {} /\ busyAcBitmap = {}

\* Somebody will look at the queue.
Attended(q) == aQueues[q] > 0 => busy[q] \/ txPending \/ paceTimer

\* How many iterations ago the scheduler visited the queue.
Age(q) == (uLastQueId - q) % 4

\* The queues visited since the last packet that was sent.
Visited(q) ==
    \/ pc = "idle"
    \/ pc = "sched" /\ Age(q) < uIdleIterations
    \/ pc = "xmit" /\ 0 < Age(q) /\ Age(q) < uIdleIterations

SchedInv ==
    /\ PathTypes /\ PortOK /\ BusyTogether
    /\ pc = "xmit" => uIdleIterations > 0
    /\ bDataPortEnable /\ ~restarted => \A q \in AC : Visited(q) => Attended(q)

-----------------------------------------------------------------------------
(* The hardware queues.                                                    *)

LEMMA ReservedNat ==
    ASSUME HwTypes, NEW q \in AC
    PROVE  Hw!Reserved(q) \in Nat
BY DEF HwTypes, Hw!Reserved

LEMMA AvailableIs ==
    ASSUME HwTypes, NEW q \in AC, descs < NUM_TX_DESCRIPTORS
    PROVE  Hw!Available(q) =
               uNumTotalBlks - used[0] - used[1] - used[2] - used[3]
               - (Hw!Reserved(0) + Hw!Reserved(1) + Hw!Reserved(2) + Hw!Reserved(3)
                      - Hw!Reserved(q))
<1>1. /\ Hw!Reserved(0) \in Nat /\ Hw!Reserved(1) \in Nat
      /\ Hw!Reserved(2) \in Nat /\ Hw!Reserved(3) \in Nat /\ Hw!Reserved(q) \in Nat
      BY ReservedNat
<1>2. Hw!Total([p \in AC |-> Hw!Reserved(p)]) =
          Hw!Reserved(0) + Hw!Reserved(1) + Hw!Reserved(2) + Hw!Reserved(3)
      BY DEF Hw!Total
<1>3. Hw!Total(used) = used[0] + used[1] + used[2] + used[3]
      BY DEF Hw!Total
<1> QED BY <1>1, <1>2, <1>3 DEF Hw!Available, HwTypes

\* A packet takes no blocks from its own queue's guarantee that another queue
\* could have had, and gives none to another queue.
LEMMA AllocLacks ==
    ASSUME HwTypes, HwTypes', NEW q \in AC, Hw!Alloc(q, Blks[q])
    PROVE  /\ \A p \in AC : Blks[p] > Hw!Available(p) => Blks[p] > Hw!Available(p)'
           /\ Hw!StopsNext(q, Blks[q]) => Blks[q] > Hw!Available(q)'
<1>1. /\ used' = [used EXCEPT ![q] = @ + Blks[q]] /\ descs' = descs + 1
      /\ Blks[q] <= Hw!Available(q)
      BY DEF Hw!Alloc
<1>2. descs < NUM_TX_DESCRIPTORS
      BY <1>1 DEF Hw!Available
<1>3. CASE ~(descs' < NUM_TX_DESCRIPTORS)
  <2>1. \A p \in AC : Hw!Available(p)' = 0
        BY <1>3 DEF Hw!Available
  <2> QED BY <2>1
<1>4. CASE descs' < NUM_TX_DESCRIPTORS
  <2>1. \A p \in AC : Hw!Reserved(p) \in Nat /\ Hw!Reserved(p)' \in Nat
        BY DEF HwTypes, Hw!Reserved
  <2>2. \A p \in AC \ {q} : Hw!Reserved(p)' = Hw!Reserved(p) /\ used'[p] = used[p]
        BY <1>1 DEF Hw!Reserved, HwTypes
  <2>3. /\ used'[q] = used[q] + Blks[q]
        /\ Hw!Reserved(q)' <= Hw!Reserved(q)
        /\ Hw!Reserved(q) <= Hw!Reserved(q)' + Blks[q]
        BY <1>1 DEF Hw!Reserved, HwTypes
  <2>4. \A p \in AC : Hw!Available(p)' =
               uNumTotalBlks - used'[0] - used'[1] - used'[2] - used'[3]
               - (Hw!Reserved(0)' + Hw!Reserved(1)' + Hw!Reserved(2)' + Hw!Reserved(3)'
                      - Hw!Reserved(p)')
    <3> SUFFICES ASSUME NEW p \in AC
                 PROVE  Hw!Available(p)' =
               uNumTotalBlks - used'[0] - used'[1] - used'[2] - used'[3]
               - (Hw!Reserved(0)' + Hw!Reserved(1)' + Hw!Reserved(2)' + Hw!Reserved(3)'
                      - Hw!Reserved(p)')
        OBVIOUS
    <3>1. Hw!Total([r \in AC |-> Hw!Reserved(r)])' =
              Hw!Reserved(0)' + Hw!Reserved(1)' + Hw!Reserved(2)' + Hw!Reserved(3)'
          BY DEF Hw!Total
    <3>2. Hw!Total(used)' = used'[0] + used'[1] + used'[2] + used'[3]
          BY DEF Hw!Total
    <3> QED BY <1>4, <2>1, <3>1, <3>2 DEF Hw!Available, HwTypes
  <2>5. \A p \in AC : Hw!Available(p) =
               uNumTotalBlks - used[0] - used[1] - used[2] - used[3]
               - (Hw!Reserved(0) + Hw!Reserved(1) + Hw!Reserved(2) + Hw!Reserved(3)
                      - Hw!Reserved(p))
        BY <1>2, AvailableIs
  <2>6. Hw!Available(q)' = Hw!Available(q) - Blks[q]
        BY <2>1, <2>2, <2>3, <2>4, <2>5 DEF HwTypes
  <2>7. \A p \in AC : Hw!Available(p)' <= Hw!Available(p)
    <3> SUFFICES ASSUME NEW p \in AC, p # q PROVE Hw!Available(p)' <= Hw!Available(p)
        BY <2>1, <2>5, <2>6 DEF HwTypes
    <3>1. used'[0] + used'[1] + used'[2] + used'[3]
              = used[0] + used[1] + used[2] + used[3] + Blks[q]
          BY <2>2, <2>3 DEF HwTypes
    <3>2. Hw!Reserved(0)' + Hw!Reserved(1)' + Hw!Reserved(2)' + Hw!Reserved(3)' + Blks[q]
              >= Hw!Reserved(0) + Hw!Reserved(1) + Hw!Reserved(2) + Hw!Reserved(3)
          BY <2>1, <2>2, <2>3
    <3>3. Hw!Reserved(p)' = Hw!Reserved(p)
          BY <2>2
    <3> QED BY <2>1, <2>4, <2>5, <3>1, <3>2, <3>3 DEF HwTypes
  <2>8. \A p \in AC : Hw!Available(p) \in Int /\ Hw!Available(p)' \in Int
        BY <2>1, <2>4, <2>5 DEF HwTypes
  <2> QED BY <2>6, <2>7, <2>8 DEF Hw!StopsNext
<1> QED BY <1>3, <1>4

\* One packet more, one packet less.
LEMMA OneMore ==
    ASSUME NEW a \in Nat, NEW b \in Nat
    PROVE  /\ (a + 1) * b = a * b + b /\ 0 * b = 0 /\ a * b \in Nat
           /\ a > 0 => (a - 1) * b = a * b - b
OBVIOUS

LEMMA LentTo ==
    ASSUME inFw \in [AC -> Nat], NEW q \in AC
    PROVE  /\ Lent \in [AC -> Nat]
           /\ inFw' = [inFw EXCEPT ![q] = @ + 1] =>
                  /\ Lent' = [Lent EXCEPT ![q] = @ + Blks[q]]
                  /\ Hw!Total(inFw)' = Hw!Total(inFw) + 1
           /\ inFw[q] > 0 /\ inFw' = [inFw EXCEPT ![q] = @ - 1] =>
                  /\ Lent' = [Lent EXCEPT ![q] = @ - Blks[q]]
                  /\ Hw!Total(inFw)' = Hw!Total(inFw) - 1
<1>1. \A p \in AC : inFw[p] * Blks[p] \in Nat
      BY OneMore
<1>2. Lent \in [AC -> Nat]
      BY <1>1 DEF Lent
<1>3. ASSUME inFw' = [inFw EXCEPT ![q] = @ + 1]
      PROVE  /\ Lent' = [Lent EXCEPT ![q] = @ + Blks[q]]
             /\ Hw!Total(inFw)' = Hw!Total(inFw) + 1
  <2>1. (inFw[q] + 1) * Blks[q] = inFw[q] * Blks[q] + Blks[q]
        BY OneMore
  <2>2. \A p \in AC : inFw'[p] = IF p = q THEN inFw[q] + 1 ELSE inFw[p]
        BY <1>3
  <2>3. \A p \in AC : inFw'[p] * Blks[p] = IF p = q THEN inFw[q] * Blks[q] + Blks[q]
                                                    ELSE inFw[p] * Blks[p]
        BY <2>1, <2>2
  <2>4. Lent' = [Lent EXCEPT ![q] = @ + Blks[q]]
        BY <2>3 DEF Lent
  <2> QED BY <2>2, <2>4 DEF Hw!Total
<1>4. ASSUME inFw[q] > 0, inFw' = [inFw EXCEPT ![q] = @ - 1]
      PROVE  /\ Lent' = [Lent EXCEPT ![q] = @ - Blks[q]]
             /\ Hw!Total(inFw)' = Hw!Total(inFw) - 1
  <2>1. (inFw[q] - 1) * Blks[q] = inFw[q] * Blks[q] - Blks[q]
        BY <1>4, OneMore
  <2>2. \A p \in AC : inFw'[p] = IF p = q THEN inFw[q] - 1 ELSE inFw[p]
        BY <1>4
  <2>3. \A p \in AC : inFw'[p] * Blks[p] = IF p = q THEN inFw[q] * Blks[q] - Blks[q]
                                                    ELSE inFw[p] * Blks[p]
        BY <2>1, <2>2
  <2>4. Lent' = [Lent EXCEPT ![q] = @ - Blks[q]]
        BY <2>3 DEF Lent
  <2> QED BY <2>2, <2>4 DEF Hw!Total
<1> QED BY <1>2, <1>3, <1>4

\* The hardware queues are not touched.
LEMMA HwKept ==
    ASSUME HwInv, UNCHANGED <<hwVars, inFw>>,
           eState' \in {"CONFIG", "RUN"} <=> eState \in {"CONFIG", "RUN"},
           eState = "RUN" => eState' = "RUN"
    PROVE  HwInv'
<1>1. HwTypes'
      BY DEF HwInv, HwTypes, hwVars
<1>2. BusyLacks'
  <2>1. \A q \in AC : Hw!Available(q)' = Hw!Available(q)
        BY DEF hwVars, Hw!Available, Hw!Total, Hw!Reserved
  <2> QED BY <2>1 DEF HwInv, BusyLacks, hwVars
<1>3. LentToPackets'
      BY DEF HwInv, LentToPackets, Lent, Hw!Total, hwVars
<1> QED BY <1>1, <1>2, <1>3 DEF HwInv

\* A packet is sent.
LEMMA AllocHw ==
    ASSUME HwInv, NEW q \in AC, Hw!Alloc(q, Blks[q]), inFw' = [inFw EXCEPT ![q] = @ + 1],
           eState = "RUN", eState' = "RUN"
    PROVE  HwInv'
<1>1. /\ used' = [used EXCEPT ![q] = @ + Blks[q]] /\ held' = [held EXCEPT ![q] = @ + Blks[q]]
      /\ descs' = descs + 1 /\ open' = open + 1
      /\ IF Hw!StopsNext(q, Blks[q])
         THEN /\ causedBusy' = [causedBusy EXCEPT ![q] = Blks[q]]
              /\ busy' = [busy EXCEPT ![q] = TRUE]
         ELSE UNCHANGED <<causedBusy, busy>>
      BY DEF Hw!Alloc, Hw!QueueBusy, Hw!busyVars
<1>2. HwTypes'
  <2>1. /\ used' \in [AC -> Nat] /\ held' \in [AC -> Nat] /\ descs' \in Nat /\ open' \in Nat
        /\ inFw' \in [AC -> Nat]
        BY <1>1 DEF HwInv, HwTypes
  <2>2. causedBusy' \in [AC -> Nat] /\ busy' \in [AC -> BOOLEAN]
    <3>1. CASE Hw!StopsNext(q, Blks[q])
          BY <1>1, <3>1 DEF HwInv, HwTypes
    <3>2. CASE ~Hw!StopsNext(q, Blks[q])
          BY <1>1, <3>2 DEF HwInv, HwTypes
    <3> QED BY <3>1, <3>2
  <2> QED BY <2>1, <2>2 DEF HwTypes
<1>3. BusyLacks'
  <2> SUFFICES ASSUME NEW p \in AC, busy'[p]
               PROVE  causedBusy'[p] = Blks[p] /\ Blks[p] > Hw!Available(p)'
      BY DEF BusyLacks
  <2>1. /\ Blks[p] > Hw!Available(p) => Blks[p] > Hw!Available(p)'
        /\ Hw!StopsNext(q, Blks[q]) => Blks[q] > Hw!Available(q)'
        BY <1>2, AllocLacks DEF HwInv
  <2>2. CASE p = q /\ Hw!StopsNext(q, Blks[q])
        BY <1>1, <2>1, <2>2 DEF HwInv, HwTypes
  <2>3. CASE ~(p = q /\ Hw!StopsNext(q, Blks[q]))
    <3>1. busy'[p] = busy[p] /\ causedBusy'[p] = causedBusy[p]
          BY <1>1, <2>3 DEF HwInv, HwTypes
    <3> QED BY <2>1, <3>1 DEF HwInv, BusyLacks
  <2> QED BY <2>2, <2>3
<1>4. LentToPackets'
  <2>1. held = Lent /\ open = Hw!Total(inFw) /\ inFw \in [AC -> Nat]
        BY DEF HwInv, LentToPackets, HwTypes
  <2>2. Lent' = [Lent EXCEPT ![q] = @ + Blks[q]] /\ Hw!Total(inFw)' = Hw!Total(inFw) + 1
        BY <2>1, LentTo
  <2> QED BY <1>1, <2>1, <2>2 DEF LentToPackets
<1> QED BY <1>2, <1>3, <1>4 DEF HwInv

\* A packet does not fit.
LEMMA StopCurrentHw ==
    ASSUME HwInv, NEW q \in AC, Hw!StopCurrent(q, Blks[q]), UNCHANGED <<inFw, eState>>
    PROVE  HwInv'
<1>1. /\ UNCHANGED <<used, descs, held, open>> /\ Blks[q] > Hw!Available(q)
      /\ causedBusy' = [causedBusy EXCEPT ![q] = Blks[q]]
      /\ busy' = [busy EXCEPT ![q] = TRUE]
      BY DEF Hw!StopCurrent, Hw!QueueBusy, Hw!driverVars, Hw!fwVars
<1>2. HwTypes'
      BY <1>1 DEF HwInv, HwTypes
<1>3. BusyLacks'
  <2>1. \A p \in AC : Hw!Available(p)' = Hw!Available(p)
        BY <1>1 DEF Hw!Available, Hw!Total, Hw!Reserved
  <2>2. \A p \in AC : p # q => busy'[p] = busy[p] /\ causedBusy'[p] = causedBusy[p]
        BY <1>1 DEF HwInv, HwTypes
  <2>3. causedBusy'[q] = Blks[q]
        BY <1>1 DEF HwInv, HwTypes
  <2> QED BY <1>1, <2>1, <2>2, <2>3 DEF HwInv, BusyLacks
<1>4. LentToPackets'
      BY <1>1 DEF HwInv, LentToPackets, Lent, Hw!Total
<1> QED BY <1>2, <1>3, <1>4 DEF HwInv

\* The firmware transmits a packet.
LEMMA FwTransmitsHw ==
    ASSUME HwInv, NEW q \in AC, FwTransmits(q)
    PROVE  HwInv'
<1>1. /\ inFw[q] > 0 /\ inFw' = [inFw EXCEPT ![q] = @ - 1]
      /\ Blks[q] <= held[q] /\ 1 <= open
      /\ held' = [held EXCEPT ![q] = @ - Blks[q]] /\ open' = open - 1
      /\ UNCHANGED <<used, descs, causedBusy, busy, eState>>
      BY DEF FwTransmits, Hw!FwStep, Hw!driverVars, Hw!busyVars, life
<1>2. HwTypes'
      BY <1>1 DEF HwInv, HwTypes
<1>3. BusyLacks'
  <2>1. \A p \in AC : Hw!Available(p)' = Hw!Available(p)
        BY <1>1 DEF Hw!Available, Hw!Total, Hw!Reserved
  <2> QED BY <1>1, <2>1 DEF HwInv, BusyLacks
<1>4. LentToPackets'
  <2>1. eState = "RUN"
        BY <1>1 DEF HwInv, LentToPackets, HwTypes
  <2>2. held = Lent /\ open = Hw!Total(inFw) /\ inFw \in [AC -> Nat]
        BY <2>1 DEF HwInv, LentToPackets, HwTypes
  <2>3. Lent' = [Lent EXCEPT ![q] = @ - Blks[q]] /\ Hw!Total(inFw)' = Hw!Total(inFw) - 1
        BY <1>1, <2>2, LentTo
  <2> QED BY <1>1, <2>1, <2>2, <2>3 DEF LentToPackets
<1> QED BY <1>2, <1>3, <1>4 DEF HwInv

\* The driver learns of what was released: what stays busy lacks blocks still.
LEMMA UpdateHw ==
    ASSUME HwInv, Hw!Update, UNCHANGED <<inFw, eState>>
    PROVE  HwInv'
<1>1. /\ used' = held /\ descs' = open /\ UNCHANGED <<held, open, causedBusy>>
      /\ busy' = [p \in AC |-> busy[p] /\ ~Hw!Releases(p)]
      BY DEF Hw!Update, Hw!fwVars
<1>2. HwTypes'
  <2>1. busy' \in [AC -> BOOLEAN]
        BY <1>1
  <2> QED BY <1>1, <2>1 DEF HwInv, HwTypes
<1>3. BusyLacks'
  <2> SUFFICES ASSUME NEW p \in AC, busy'[p]
               PROVE  causedBusy'[p] = Blks[p] /\ Blks[p] > Hw!Available(p)'
      BY DEF BusyLacks
  <2>1. busy[p] /\ ~Hw!Releases(p)
        BY <1>1
  <2>2. causedBusy[p] = Blks[p] /\ ~(Blks[p] <= Hw!Available(p)')
        BY <2>1 DEF Hw!Releases, HwInv, BusyLacks
  <2>3. Hw!Available(p)' \in Int
    <3>1. \A r \in AC : Hw!Reserved(r)' \in Nat
          BY <1>2 DEF HwTypes, Hw!Reserved
    <3>2. Hw!Total([r \in AC |-> Hw!Reserved(r)])' \in Int
          BY <3>1 DEF Hw!Total
    <3>3. Hw!Total(used)' \in Int
          BY <1>2 DEF HwTypes, Hw!Total
    <3> QED BY <3>1, <3>2, <3>3 DEF Hw!Available
  <2> QED BY <1>1, <2>2, <2>3
<1>4. LentToPackets'
      BY <1>1 DEF HwInv, LentToPackets, Lent, Hw!Total
<1> QED BY <1>2, <1>3, <1>4 DEF HwInv

\* The hardware queues are as at the beginning, before the firmware is configured.
LEMMA NothingLent ==
    ASSUME \A q \in AC : inFw[q] = 0
    PROVE  Lent = [q \in AC |-> 0] /\ Hw!Total(inFw) = 0
BY DEF Lent, Hw!Total

LEMMA InitHw == Init => HwInv
<1> SUFFICES ASSUME Init PROVE HwInv
    OBVIOUS
<1>1. HwTypes
      BY DEF Init, Hw!Init, HwTypes
<1>2. BusyLacks
      BY DEF Init, Hw!Init, BusyLacks
<1>3. LentToPackets
      BY NothingLent DEF Init, Hw!Init, LentToPackets
<1> QED BY <1>1, <1>2, <1>3 DEF HwInv

LEMMA ConfigFwCbHw == HwInv /\ ConfigFwCb => HwInv'
<1> SUFFICES ASSUME HwInv, ConfigFwCb PROVE HwInv'
    OBVIOUS
<1>1. /\ eState = "INIT" /\ eState' = "CONFIG" /\ UNCHANGED inFw
      /\ used' = [q \in AC |-> 0] /\ held' = [q \in AC |-> 0]
      /\ descs' = 0 /\ open' = 0
      /\ causedBusy' = [q \in AC |-> 0] /\ busy' = [q \in AC |-> FALSE]
      BY DEF ConfigFwCb, Hw!Reset, blocks
<1>2. HwTypes'
      BY <1>1 DEF HwInv, HwTypes
<1>3. BusyLacks'
      BY <1>1 DEF BusyLacks
<1>4. LentToPackets'
  <2>1. inFw = [q \in AC |-> 0]
        BY <1>1 DEF HwInv, LentToPackets
  <2>2. Lent = [q \in AC |-> 0] /\ Hw!Total(inFw) = 0
        BY <2>1, NothingLent
  <2>3. Lent' = [q \in AC |-> 0] /\ Hw!Total(inFw)' = 0
        BY <1>1, <2>2 DEF Lent, Hw!Total
  <2> QED BY <1>1, <2>1, <2>3 DEF LentToPackets
<1> QED BY <1>2, <1>3, <1>4 DEF HwInv

\* A stop takes what is in the firmware.
LEMMA StopActivitiesHw == HwInv /\ StopActivities => HwInv'
<1> SUFFICES ASSUME HwInv, StopActivities PROVE HwInv'
    OBVIOUS
<1>1. /\ eState' = "STOPPING" /\ inFw' = [q \in AC |-> 0] /\ UNCHANGED hwVars
      BY DEF StopActivities
<1>2. HwTypes'
      BY <1>1 DEF HwInv, HwTypes, hwVars
<1>3. BusyLacks'
  <2>1. \A q \in AC : Hw!Available(q)' = Hw!Available(q)
        BY <1>1 DEF hwVars, Hw!Available, Hw!Total, Hw!Reserved
  <2> QED BY <1>1, <2>1 DEF HwInv, BusyLacks, hwVars
<1>4. LentToPackets'
      BY <1>1 DEF LentToPackets
<1> QED BY <1>2, <1>3, <1>4 DEF HwInv

\* Packets are sent only while the port is open.
LEMMA NextHw == HwInv /\ SchedInv /\ [Next]_vars => HwInv'
<1> SUFFICES ASSUME HwInv, SchedInv, [Next]_vars PROVE HwInv'
    OBVIOUS
<1>1. CASE UNCHANGED vars
      BY <1>1, HwKept DEF vars, blocks, life
<1>2. CASE Stack
  <2>1. UNCHANGED <<hwVars, inFw, eState>>
        BY <1>2 DEF Stack, InsertPacket, StopTx, blocks, life
  <2> QED BY <2>1, HwKept
<1>3. CASE SchedExit \/ SchedSkip \/ SchedEmpty \/ SchedDequeue \/ NotifyFwReset
  <2>1. UNCHANGED <<hwVars, inFw, eState>>
        BY <1>3 DEF SchedExit, SchedSkip, SchedEmpty, SchedDequeue, NotifyFwReset, blocks,
             life
  <2> QED BY <2>1, HwKept
<1>4. CASE XmitSent
  <2>1. /\ uLastQueId \in AC /\ eState = "RUN" /\ eState' = "RUN"
        /\ Hw!Alloc(uLastQueId, Blks[uLastQueId])
        /\ inFw' = [inFw EXCEPT ![uLastQueId] = @ + 1]
        BY <1>4 DEF XmitSent, life, SchedInv, PathTypes, PortOK
  <2> QED BY <2>1, AllocHw
<1>5. CASE XmitBusy
  <2>1. /\ uLastQueId \in AC /\ UNCHANGED <<inFw, eState>>
        /\ Hw!StopCurrent(uLastQueId, Blks[uLastQueId])
        BY <1>5 DEF XmitBusy, life, blocks, SchedInv, PathTypes
  <2> QED BY <2>1, StopCurrentHw
<1>6. CASE \E q \in Traffic : FwTransmits(q)
      BY <1>6, FwTransmitsHw
<1>7. CASE DataInterrupt
  <2>1. Hw!Update /\ UNCHANGED <<inFw, eState>>
        BY <1>7 DEF DataInterrupt, blocks, life
  <2> QED BY <2>1, UpdateHw
<1>8. CASE TxComplete \/ RunTxData \/ TxSendPaceTimeout \/ UpdateQueuesMapping
           \/ EnableData \/ EnableMgmt
  <2>1. UNCHANGED <<hwVars, inFw, eState>>
        BY <1>8 DEF TxComplete, RunTxData, TxSendPaceTimeout, UpdateQueuesMapping,
             EnableData,
                    EnableMgmt, blocks, life
  <2> QED BY <2>1, HwKept
<1>9. CASE StopActivities
      BY <1>9, StopActivitiesHw
<1>10. CASE StopComplete \/ Start \/ FwConfigComplete
  <2>1. /\ UNCHANGED <<hwVars, inFw>> /\ eState # "RUN"
        /\ eState' \in {"CONFIG", "RUN"} <=> eState \in {"CONFIG", "RUN"}
        BY <1>10 DEF StopComplete, Start, FwConfigComplete, blocks
  <2> QED BY <2>1, HwKept
<1>11. CASE ConfigFwCb
      BY <1>11, ConfigFwCbHw
<1> QED BY <1>1, <1>2, <1>3, <1>4, <1>5, <1>6, <1>7, <1>8, <1>9, <1>10, <1>11
           DEF Next, GoesOn, Firmware, Control

-----------------------------------------------------------------------------
(* The scheduler.                                                          *)

LEMMA FourQueues == Cardinality(AC) = 4
<1>1. PICK a \in Int, b \in Int : a = 0 /\ b = 3
      OBVIOUS
<1>2. Cardinality(a .. b) = IF a > b THEN 0 ELSE b - a + 1
      BY FS_Interval
<1> QED BY <1>1, <1>2

\* The queue of an iteration becomes the youngest, the others one older.
LEMMA AgeIs ==
    ASSUME NEW l \in AC, NEW q \in AC
    PROVE  /\ (l + 1) % 4 \in AC /\ (l - q) % 4 \in 0 .. 3
           /\ (l - q) % 4 = 0 <=> q = l
           /\ (((l + 1) % 4) - q) % 4 = IF q = (l + 1) % 4 THEN 0 ELSE ((l - q) % 4) + 1
<1>1. /\ l \in {0, 1, 2, 3} /\ q \in {0, 1, 2, 3}
      OBVIOUS
<1>2. CASE l = 0
      BY <1>1, <1>2
<1>3. CASE l = 1
      BY <1>1, <1>3
<1>4. CASE l = 2
      BY <1>1, <1>4
<1>5. CASE l = 3
      BY <1>1, <1>5
<1> QED BY <1>1, <1>2, <1>3, <1>4, <1>5

LEMMA InitSched == Init => SchedInv
<1> SUFFICES ASSUME Init PROVE SchedInv
    OBVIOUS
<1>1. PathTypes
  <2>1. aQueues = [q \in AC |-> 0] /\ \A q \in AC : aQueueMaxSize[q] \in Nat
        BY DEF Init
  <2>2. aQueues \in [AC -> Nat] /\ \A q \in AC : aQueues[q] <= aQueueMaxSize[q]
        BY <2>1
  <2>3. bDataPortEnable = FALSE /\ txPending = FALSE /\ paceTimer = FALSE
        BY DEF Init
  <2>4. bDataPortEnable \in BOOLEAN /\ txPending \in BOOLEAN /\ paceTimer \in BOOLEAN
        BY <2>3
  <2>5. /\ aQueueBusy \subseteq AC /\ busyAcBitmap \subseteq AC
        /\ uLastQueId \in AC /\ uIdleIterations \in 0 .. 4
        /\ pc \in {"idle", "sched", "xmit", "notify", "hung"} /\ cont \in {"idle", "notify"}
        BY DEF Init
  <2> QED BY <2>2, <2>4, <2>5 DEF PathTypes
<1>2. PortOK /\ BusyTogether
      BY DEF Init, PortOK, BusyTogether
<1> QED BY <1>1, <1>2 DEF Init, SchedInv

\* Nothing of it is touched.
LEMMA SchedKept ==
    ASSUME SchedInv, UNCHANGED <<aQueues, busyState, bDataPortEnable, wakeups, driver, busy,
                                 eState, bRecovery, restarted>>
    PROVE  SchedInv'
<1>1. PathTypes' /\ PortOK' /\ BusyTogether'
      BY DEF SchedInv, PathTypes, PortOK, BusyTogether, busyState, wakeups, driver
<1>2. \A q \in AC : (Visited(q)' <=> Visited(q)) /\ (Attended(q)' <=> Attended(q))
      BY DEF Visited, Age, Attended, wakeups, driver
<1> QED BY <1>1, <1>2 DEF SchedInv, driver

\* A packet that is inserted is attended to: the timer or the request is there, or
\* the queue was not empty already.
LEMMA InsertPacketSched ==
    ASSUME SchedInv, NEW q \in AC, InsertPacket(q)
    PROVE  SchedInv'
<1> DEFINE size == IF aQueues[q] < aQueueMaxSize[q] THEN aQueues[q] + 1 ELSE aQueueMaxSize[q]
<1>1. /\ UNCHANGED <<busyState, bDataPortEnable, driver, busy, eState, bRecovery, restarted>>
      /\ aQueues' = [aQueues EXCEPT ![q] = size]
      /\ \/ /\ StopsStack(q, size) /\ txPending' = TRUE
            /\ paceTimer' = (paceTimer /\ (q \in aQueueBusy \/ size # aTxSendPaceThresh[q]))
         \/ Pace(q, size)
      BY DEF InsertPacket, hwVars, port, life
<1>2. /\ aQueues \in [AC -> Nat] /\ aQueues[q] <= aQueueMaxSize[q]
      /\ aQueueMaxSize[q] \in Nat \ {0} /\ aTxSendPaceThresh[q] \in Nat \ {0}
      /\ txPending \in BOOLEAN /\ paceTimer \in BOOLEAN
      BY DEF SchedInv, PathTypes
<1>3. size \in Nat /\ size > 0 /\ size <= aQueueMaxSize[q] /\ size <= aQueues[q] + 1
      BY <1>2
<1> HIDE DEF size
<1>4. PathTypes'
  <2>1. aQueues' \in [AC -> Nat] /\ \A p \in AC : aQueues'[p] <= aQueueMaxSize[p]
        BY <1>1, <1>2, <1>3 DEF SchedInv, PathTypes
  <2>2. txPending' \in BOOLEAN
    <3>1. CASE Pace(q, size)
          BY <1>2, <3>1 DEF Pace, wakeups
    <3> QED BY <1>1, <3>1
  <2>3. paceTimer' \in BOOLEAN
    <3>1. CASE Pace(q, size)
      <4>1. paceTimer' = paceTimer \/ paceTimer' = (size < aTxSendPaceThresh[q])
            BY <3>1 DEF Pace, wakeups
      <4>2. CASE paceTimer' = paceTimer
            BY <1>2, <4>2
      <4>3. CASE paceTimer' = (size < aTxSendPaceThresh[q])
            BY <4>3
      <4> QED BY <4>1, <4>2, <4>3
    <3>2. CASE paceTimer' = (paceTimer /\ (q \in aQueueBusy \/ size # aTxSendPaceThresh[q]))
          BY <1>2, <3>2
    <3> QED BY <1>1, <3>1, <3>2
  <2> QED BY <1>1, <2>1, <2>2, <2>3 DEF SchedInv, PathTypes, busyState, driver
<1>5. PortOK' /\ BusyTogether'
      BY <1>1 DEF SchedInv, PortOK, BusyTogether, busyState, driver
<1>6. \A p \in AC : Visited(p)' <=> Visited(p)
      BY <1>1 DEF Visited, Age, driver
<1>7. ASSUME bDataPortEnable, ~restarted, NEW p \in AC, Attended(p), aQueues'[p] > 0
      PROVE  Attended(p)'
  <2>1. CASE txPending'
        BY <2>1 DEF Attended
  <2>2. CASE ~txPending' /\ size > aTxSendPaceThresh[q]
    <3>1. UNCHANGED <<txPending, paceTimer, busy>>
          BY <1>1, <2>2 DEF Pace, wakeups
    <3>2. aQueues[p] > 0
          BY <1>1, <1>2, <1>3, <1>7, <2>2
    <3> QED BY <1>7, <3>1, <3>2 DEF Attended
  <2>3. CASE ~txPending' /\ ~(size > aTxSendPaceThresh[q]) /\ q \notin aQueueBusy
    <3>1. txPending' = (txPending \/ size = aTxSendPaceThresh[q])
          /\ paceTimer' = (size < aTxSendPaceThresh[q])
          BY <1>1, <2>3 DEF Pace
    <3>2. size # aTxSendPaceThresh[q]
          BY <2>3, <3>1
    <3>3. size < aTxSendPaceThresh[q]
          BY <1>2, <1>3, <2>3, <3>2
    <3> QED BY <3>1, <3>3 DEF Attended
  <2>4. CASE ~txPending' /\ q \in aQueueBusy
    <3>1. UNCHANGED <<txPending, paceTimer, busy>>
          BY <1>1, <2>4 DEF Pace, wakeups
    <3>2. busy[q]
          BY <1>7, <2>4 DEF SchedInv, PortOK, BusyTogether
    <3>3. p # q => aQueues[p] > 0
          BY <1>1, <1>2, <1>7
    <3> QED BY <1>7, <3>1, <3>2, <3>3 DEF Attended
  <2> QED BY <2>1, <2>2, <2>3, <2>4
<1> QED BY <1>1, <1>4, <1>5, <1>6, <1>7 DEF SchedInv, Attended, driver

\* A round begins, or nobody is left to be attended to.
LEMMA NothingVisited ==
    ASSUME PathTypes', PortOK', BusyTogether',
           \/ pc' = "sched" /\ uIdleIterations' = 0
           \/ pc' \in {"notify", "hung"}
           \/ ~bDataPortEnable'
    PROVE  SchedInv'
<1>1. pc' # "xmit"
      BY DEF PortOK
<1>2. ASSUME bDataPortEnable', NEW q \in AC PROVE ~Visited(q)'
  <2>1. PICK l \in AC : l = uLastQueId'
        BY DEF PathTypes
  <2>2. Age(q)' \in 0 .. 3
        BY <2>1, AgeIs DEF Age
  <2> QED BY <1>1, <1>2, <2>2 DEF Visited
<1> QED BY <1>1, <1>2 DEF SchedInv

LEMMA RunSched ==
    ASSUME SchedInv, RunTxData \/ TxSendPaceTimeout
    PROVE  SchedInv'
<1>1. /\ pc' = "sched" /\ cont' = "idle" /\ uIdleIterations' = 0
      /\ UNCHANGED <<aQueues, busyState, bDataPortEnable, uLastQueId, busy, eState, bRecovery,
                     restarted>>
      /\ txPending' = txPending \/ txPending' = FALSE
      /\ paceTimer' = paceTimer \/ paceTimer' = FALSE
      BY DEF RunTxData, TxSendPaceTimeout, RunScheduler, hwVars, queueVars, port, life
<1>2. txPending' \in BOOLEAN /\ paceTimer' \in BOOLEAN
      BY <1>1 DEF SchedInv, PathTypes
<1>3. PathTypes'
      BY <1>1, <1>2 DEF SchedInv, PathTypes, busyState
<1>4. PortOK' /\ BusyTogether'
      BY <1>1 DEF SchedInv, PortOK, BusyTogether, busyState
<1> QED BY <1>1, <1>3, <1>4, NothingVisited

\* A round ends: all four queues were visited in it, or the port is closed.
LEMMA SchedExitSched ==
    ASSUME SchedInv, SchedExit
    PROVE  SchedInv'
<1>1. /\ pc = "sched" /\ pc' = cont /\ cont' = "idle" /\ uIdleIterations' = 0
      /\ UNCHANGED <<aQueues, busyState, bDataPortEnable, wakeups, uLastQueId, busy, eState,
                     bRecovery, restarted>>
      /\ ~bDataPortEnable \/ uIdleIterations >= 4
      BY FourQueues DEF SchedExit, hwVars, queueVars, port, life
<1>2. PathTypes'
      BY <1>1 DEF SchedInv, PathTypes, busyState, wakeups
<1>3. PortOK' /\ BusyTogether'
      BY <1>1 DEF SchedInv, PathTypes, PortOK, BusyTogether, busyState
<1>4. CASE ~bDataPortEnable
      BY <1>1, <1>2, <1>3, <1>4, NothingVisited
<1>5. CASE uIdleIterations >= 4
  <2>1. \A q \in AC : Visited(q)
        BY <1>1, <1>5, AgeIs DEF Visited, Age, SchedInv, PathTypes
  <2>2. \A q \in AC : Attended(q)' <=> Attended(q)
        BY <1>1 DEF Attended, wakeups
  <2>3. pc' # "xmit"
        BY <1>1 DEF SchedInv, PathTypes
  <2> QED BY <1>1, <1>2, <1>3, <2>1, <2>2, <2>3 DEF SchedInv
<1> QED BY <1>1, <1>4, <1>5

\* An iteration: the queue it is at becomes the youngest.
LEMMA Iterated ==
    ASSUME SchedInv, Iterate
    PROVE  /\ NextQueue \in AC /\ uLastQueId' = NextQueue
           /\ uIdleIterations' = uIdleIterations + 1 /\ uIdleIterations' \in 1 .. 4
           /\ pc = "sched" /\ bDataPortEnable
           /\ pc' \in {"sched", "xmit"} =>
                  \A q \in AC : Visited(q)' =>
                      Visited(q) \/ (q = NextQueue /\ pc' = "sched")
<1>1. /\ pc = "sched" /\ bDataPortEnable /\ uIdleIterations < 4
      /\ uLastQueId' = NextQueue /\ uIdleIterations' = uIdleIterations + 1
      /\ NextQueue = (uLastQueId + 1) % 4
      BY FourQueues DEF Iterate, NextQueue
<1>2. uLastQueId \in AC /\ uIdleIterations \in 0 .. 4
      BY DEF SchedInv, PathTypes
<1>3. PICK n : n = NextQueue
      OBVIOUS
<1>4. /\ n \in AC
      /\ \A q \in AC : /\ (uLastQueId - q) % 4 \in 0 .. 3
                       /\ (n - q) % 4 = IF q = n THEN 0 ELSE ((uLastQueId - q) % 4) + 1
      BY <1>1, <1>2, <1>3, AgeIs
<1>5. \A q \in AC : Age(q)' = IF q = n THEN 0 ELSE Age(q) + 1
      BY <1>1, <1>3, <1>4 DEF Age
<1>6. \A q \in AC : Age(q) \in 0 .. 3
      BY <1>4 DEF Age
<1>7. ASSUME pc' \in {"sched", "xmit"}, NEW q \in AC, Visited(q)'
      PROVE  Visited(q) \/ (q = n /\ pc' = "sched")
  <2>1. Age(q)' < uIdleIterations' /\ (pc' = "xmit" => Age(q)' > 0)
        BY <1>7 DEF Visited
  <2>2. CASE q = n
        BY <1>5, <1>7, <2>1, <2>2
  <2>3. CASE q # n
    <3>1. Age(q) < uIdleIterations
          BY <1>1, <1>2, <1>5, <1>6, <2>1, <2>3
    <3> QED BY <1>1, <3>1 DEF Visited
  <2> QED BY <2>2, <2>3
<1> QED BY <1>1, <1>2, <1>3, <1>4, <1>7

\* A busy queue is attended to, and so is an empty one.
LEMMA SchedSkipSched ==
    ASSUME SchedInv, SchedSkip \/ SchedEmpty
    PROVE  SchedInv'
<1>1. /\ Iterate
      /\ UNCHANGED <<aQueues, busyState, bDataPortEnable, wakeups, pc, cont, busy, eState,
                     bRecovery, restarted>>
      /\ NextQueue \in aQueueBusy \/ aQueues[NextQueue] = 0
      BY DEF SchedSkip, SchedEmpty, hwVars, queueVars, port, life
<1>2. /\ NextQueue \in AC /\ uLastQueId' \in AC /\ uIdleIterations' \in 0 .. 4
      /\ pc = "sched" /\ bDataPortEnable
      /\ \A q \in AC : Visited(q)' => Visited(q) \/ q = NextQueue
  <2>1. pc = "sched" /\ pc' \in {"sched", "xmit"}
        BY <1>1 DEF Iterate
  <2> QED BY <1>1, <2>1, Iterated
<1>3. PathTypes' /\ PortOK' /\ BusyTogether'
  <2>1. PathTypes'
        BY <1>1, <1>2 DEF SchedInv, PathTypes, busyState, wakeups
  <2> QED BY <1>1, <2>1 DEF SchedInv, PortOK, BusyTogether, busyState
<1>4. ASSUME ~restarted PROVE Attended(NextQueue)
      BY <1>1, <1>2, <1>4 DEF SchedInv, PortOK, BusyTogether, Attended
<1>5. \A q \in AC : Attended(q)' <=> Attended(q)
      BY <1>1 DEF Attended, wakeups
<1>6. PICK n : n = NextQueue
      OBVIOUS
<1> QED BY <1>1, <1>2, <1>3, <1>4, <1>5, <1>6 DEF SchedInv

LEMMA SchedDequeueSched ==
    ASSUME SchedInv, SchedDequeue
    PROVE  SchedInv'
<1>1. /\ Iterate /\ aQueues[NextQueue] > 0
      /\ aQueues' = [aQueues EXCEPT ![NextQueue] = @ - 1] /\ pc' = "xmit"
      /\ UNCHANGED <<busyState, bDataPortEnable, wakeups, cont, busy, eState, bRecovery,
                     restarted>>
      BY DEF SchedDequeue, hwVars, port, life
<1>2. /\ NextQueue \in AC /\ uLastQueId' \in AC /\ uIdleIterations' \in 1 .. 4
      /\ pc = "sched" /\ bDataPortEnable
      /\ \A q \in AC : Visited(q)' => Visited(q)
      BY <1>1, Iterated
<1>3. PICK n \in AC : n = NextQueue
      BY <1>2
<1>4. aQueues' = [aQueues EXCEPT ![n] = @ - 1] /\ aQueues[n] > 0
      BY <1>1, <1>3
<1>5. PathTypes'
  <2>1. aQueues' \in [AC -> Nat] /\ \A q \in AC : aQueues'[q] <= aQueueMaxSize[q]
        BY <1>4 DEF SchedInv, PathTypes
  <2> QED BY <1>1, <1>2, <2>1 DEF SchedInv, PathTypes, busyState, wakeups
<1>6. PortOK' /\ BusyTogether'
      BY <1>1, <1>2 DEF SchedInv, PortOK, BusyTogether, busyState
<1>7. \A q \in AC : Attended(q) => Attended(q)'
      BY <1>1, <1>4 DEF Attended, wakeups, SchedInv, PathTypes
<1> QED BY <1>1, <1>2, <1>5, <1>6, <1>7 DEF SchedInv

\* The round is a new one: a packet was sent.
LEMMA XmitSentSched ==
    ASSUME HwTypes, SchedInv, XmitSent
    PROVE  SchedInv'
<1>1. PICK q \in AC : q = uLastQueId
      BY DEF SchedInv, PathTypes
<1>2. /\ pc = "xmit" /\ pc' = "sched" /\ uIdleIterations' = 0
      /\ UNCHANGED <<aQueues, bDataPortEnable, wakeups, cont, uLastQueId, eState, bRecovery,
                     restarted>>
      /\ \/ /\ busyAcBitmap' = busyAcBitmap \cup {q} /\ aQueueBusy' = {q}
            /\ busy' = [busy EXCEPT ![q] = TRUE]
         \/ UNCHANGED <<busyState, busy>>
  <2>1. /\ pc = "xmit" /\ pc' = "sched" /\ uIdleIterations' = 0
        /\ UNCHANGED <<aQueues, bDataPortEnable, wakeups, cont, uLastQueId, eState, bRecovery,
                       restarted>>
        BY DEF XmitSent, queueVars, port, life
  <2>2. CASE Hw!StopsNext(q, Blks[q])
        BY <1>1, <2>1, <2>2 DEF XmitSent, Hw!Alloc, Hw!QueueBusy, StopQueue
  <2>3. CASE ~Hw!StopsNext(q, Blks[q])
        BY <1>1, <2>1, <2>3 DEF XmitSent, Hw!Alloc, Hw!busyVars
  <2> QED BY <2>2, <2>3
<1>3. PathTypes'
  <2>1. aQueueBusy' \subseteq AC /\ busyAcBitmap' \subseteq AC
        BY <1>2 DEF SchedInv, PathTypes, busyState
  <2>2. uLastQueId' \in AC /\ uIdleIterations' \in 0 .. 4
        BY <1>1, <1>2
  <2> QED BY <1>2, <2>1, <2>2 DEF SchedInv, PathTypes, wakeups
<1>4. PortOK'
      BY <1>2 DEF SchedInv, PortOK
<1>5. BusyTogether'
  <2>1. CASE UNCHANGED <<busyState, busy>>
        BY <1>2, <2>1 DEF SchedInv, BusyTogether, busyState
  <2>2. CASE /\ busyAcBitmap' = busyAcBitmap \cup {q} /\ aQueueBusy' = {q}
             /\ busy' = [busy EXCEPT ![q] = TRUE]
    <3>1. busy'[q] /\ \A p \in AC : busy[p] => busy'[p]
          BY <2>2 DEF HwTypes
    <3>2. eState = "RUN"
          BY <1>2 DEF SchedInv, PortOK
    <3> QED BY <1>2, <2>2, <3>1, <3>2 DEF SchedInv, PathTypes, BusyTogether
  <2> QED BY <1>2, <2>1, <2>2
<1> QED BY <1>2, <1>3, <1>4, <1>5, NothingVisited

\* The round goes on with the queue that lacks blocks; another data queue may look
\* free from now on, its hardware queue is not.
LEMMA XmitBusySched ==
    ASSUME HwTypes, SchedInv, XmitBusy
    PROVE  SchedInv'
<1>1. PICK q \in AC : q = uLastQueId
      BY DEF SchedInv, PathTypes
<1>2. /\ pc = "xmit" /\ aQueueBusy' = {q} /\ busy' = [busy EXCEPT ![q] = TRUE]
      /\ UNCHANGED <<busyAcBitmap, bDataPortEnable, wakeups, cont, uLastQueId, uIdleIterations,
                     eState, bRecovery, restarted>>
      /\ \/ /\ aQueues[q] < aQueueMaxSize[q]
            /\ aQueues' = [aQueues EXCEPT ![q] = @ + 1] /\ pc' = "sched"
         \/ UNCHANGED aQueues /\ pc' \in {"sched", "hung"}
      BY <1>1 DEF XmitBusy, Hw!StopCurrent, Hw!QueueBusy, StopQueue, port, life
<1>3. busy'[q] /\ \A p \in AC : busy[p] => busy'[p]
      BY <1>2 DEF HwTypes
<1>4. PathTypes'
  <2>1. aQueues' \in [AC -> Nat] /\ \A p \in AC : aQueues'[p] <= aQueueMaxSize[p]
        BY <1>2 DEF SchedInv, PathTypes
  <2> QED BY <1>1, <1>2, <2>1 DEF SchedInv, PathTypes, wakeups
<1>5. PortOK'
      BY <1>2 DEF SchedInv, PortOK
<1>6. BusyTogether'
  <2>1. eState = "RUN"
        BY <1>2 DEF SchedInv, PortOK
  <2> QED BY <1>2, <1>3, <2>1 DEF SchedInv, PathTypes, BusyTogether
<1>7. CASE pc' = "hung"
      BY <1>4, <1>5, <1>6, <1>7, NothingVisited
<1>8. CASE pc' = "sched"
  <2>1. \A p \in AC : (Age(p) \in 0 .. 3) /\ (Age(p) = 0 <=> p = q)
        BY <1>1, AgeIs DEF Age
  <2>2. \A p \in AC : p # q /\ Visited(p)' => Visited(p)
        BY <1>2, <1>8, <2>1 DEF Visited, Age
  <2>3. \A p \in AC : p # q /\ Attended(p) => Attended(p)'
        BY <1>2, <1>3 DEF Attended, wakeups, SchedInv, PathTypes
  <2>4. Attended(q)'
        BY <1>3 DEF Attended
  <2> QED BY <1>2, <1>4, <1>5, <1>6, <1>8, <2>2, <2>3, <2>4 DEF SchedInv
<1> QED BY <1>2, <1>7, <1>8

\* A release, or another mapping of the queues, starts a round.
LEMMA DataInterruptSched ==
    ASSUME HwTypes, SchedInv, DataInterrupt
    PROVE  SchedInv'
<1>1. /\ pc = "idle" /\ eState = "RUN"
      /\ busy' = [q \in AC |-> busy[q] /\ ~Hw!Releases(q)]
      /\ UNCHANGED <<aQueues, bDataPortEnable, wakeups, eState, bRecovery, restarted>>
      BY DEF DataInterrupt, Hw!Update, queueVars, port, life
<1> DEFINE freed == {q \in AC : Hw!Releases(q)}
<1>2. \A q \in AC \ freed : busy[q] => busy'[q]
      BY <1>1
<1>3. CASE freed # {}
  <2>1. /\ pc' = "sched" /\ cont' = "idle" /\ uIdleIterations' = 0 /\ UNCHANGED uLastQueId
        /\ busyAcBitmap' = busyAcBitmap \ freed /\ aQueueBusy' = busyAcBitmap \ freed
        BY <1>3 DEF DataInterrupt, UpdateBackpressure, RunScheduler
  <2> HIDE DEF freed
  <2>2. PathTypes'
    <3>1. uIdleIterations' \in 0 .. 4
          BY <2>1
    <3> QED BY <1>1, <2>1, <3>1 DEF SchedInv, PathTypes, wakeups
  <2>3. PortOK'
        BY <1>1, <2>1 DEF SchedInv, PortOK
  <2>4. BusyTogether'
        BY <1>1, <1>2, <2>1 DEF SchedInv, PathTypes, BusyTogether
  <2> QED BY <2>1, <2>2, <2>3, <2>4, NothingVisited
<1>4. CASE freed = {}
  <2>1. UNCHANGED <<busyState, driver>>
        BY <1>4 DEF DataInterrupt
  <2>2. \A q \in AC : busy[q] => busy'[q]
        BY <1>2, <1>4
  <2> HIDE DEF freed
  <2>3. PathTypes' /\ PortOK'
        BY <1>1, <2>1 DEF SchedInv, PathTypes, PortOK, busyState, driver, wakeups
  <2>4. BusyTogether'
        BY <1>1, <2>1, <2>2 DEF SchedInv, PathTypes, BusyTogether, busyState
  <2>5. \A q \in AC : Visited(q) /\ (Attended(q) => Attended(q)')
        BY <1>1, <2>2 DEF Visited, Attended, wakeups
  <2> QED BY <1>1, <2>1, <2>3, <2>4, <2>5 DEF SchedInv, driver
<1> QED BY <1>3, <1>4

LEMMA UpdateQueuesMappingSched ==
    ASSUME SchedInv, UpdateQueuesMapping
    PROVE  SchedInv'
<1>1. /\ pc' = "sched" /\ cont' = "idle" /\ uIdleIterations' = 0
      /\ busyAcBitmap' = busyAcBitmap \ {} /\ aQueueBusy' = busyAcBitmap \ {}
      /\ UNCHANGED <<aQueues, bDataPortEnable, wakeups, uLastQueId, busy, eState, bRecovery,
                     restarted>>
      BY DEF UpdateQueuesMapping, UpdateBackpressure, RunScheduler, hwVars, queueVars,
           port, life
<1>2. PathTypes'
  <2>1. uIdleIterations' \in 0 .. 4
        BY <1>1
  <2> QED BY <1>1, <2>1 DEF SchedInv, PathTypes, wakeups
<1>3. PortOK' /\ BusyTogether'
      BY <1>1 DEF SchedInv, PortOK, BusyTogether
<1> QED BY <1>1, <1>2, <1>3, NothingVisited

\* The port is opened or closed.
LEMMA PortSched ==
    ASSUME SchedInv, EnableData \/ EnableMgmt
    PROVE  SchedInv'
<1>1. /\ pc = "idle" /\ eState = "RUN"
      /\ UNCHANGED <<aQueues, busyState, wakeups, busy, eState, bRecovery, restarted>>
      /\ \/ UNCHANGED <<bDataPortEnable, driver>>
         \/ bDataPortEnable' = FALSE /\ UNCHANGED driver
         \/ /\ bDataPortEnable' = TRUE
            /\ pc' = "sched" /\ cont' = "idle" /\ uIdleIterations' = 0 /\ UNCHANGED uLastQueId
      BY DEF EnableData, EnableMgmt, RunScheduler, hwVars, queueVars, life
<1>2. CASE UNCHANGED <<bDataPortEnable, driver>>
      BY <1>1, <1>2, SchedKept
<1>3. CASE bDataPortEnable' = FALSE /\ UNCHANGED driver
  <2>1. bDataPortEnable' \in BOOLEAN /\ ~bDataPortEnable'
        BY <1>3
  <2>2. PathTypes'
        BY <1>1, <1>3, <2>1 DEF SchedInv, PathTypes, busyState, wakeups, driver
  <2>3. PortOK' /\ BusyTogether'
        BY <1>1, <1>3, <2>1 DEF SchedInv, PortOK, BusyTogether, busyState, driver
  <2> QED BY <2>1, <2>2, <2>3, NothingVisited
<1>4. CASE /\ bDataPortEnable' = TRUE
           /\ pc' = "sched" /\ cont' = "idle" /\ uIdleIterations' = 0 /\ UNCHANGED uLastQueId
  <2>1. bDataPortEnable' \in BOOLEAN /\ uIdleIterations' \in 0 .. 4
        BY <1>4
  <2>2. PathTypes'
        BY <1>1, <1>4, <2>1 DEF SchedInv, PathTypes, busyState, wakeups
  <2>3. PortOK' /\ BusyTogether'
        BY <1>1, <1>4 DEF SchedInv, PortOK, BusyTogether, busyState
  <2> QED BY <1>4, <2>2, <2>3, NothingVisited
<1> QED BY <1>1, <1>2, <1>3, <1>4

\* The port is closed throughout a stop and the start after it.
LEMMA StopSched ==
    ASSUME SchedInv, StopActivities \/ StopComplete \/ Start \/ ConfigFwCb
    PROVE  SchedInv'
<1>1. /\ pc = "idle" /\ UNCHANGED <<busyState, wakeups, driver>>
      /\ bDataPortEnable' = FALSE \/ (UNCHANGED bDataPortEnable /\ eState # "RUN")
      /\ eState' # "RUN"
      /\ restarted' = restarted \/ restarted' = TRUE
      /\ aQueues' = aQueues \/ aQueues' = [q \in AC |-> 0]
      BY DEF StopActivities, StopComplete, Start, ConfigFwCb, SuspendTx, port, queueVars,
           life
<1>2. bDataPortEnable' \in BOOLEAN /\ ~bDataPortEnable'
  <2>1. CASE bDataPortEnable' = FALSE
        BY <2>1
  <2>2. CASE UNCHANGED bDataPortEnable /\ eState # "RUN"
    <3>1. bDataPortEnable \in BOOLEAN /\ ~bDataPortEnable
          BY <2>2 DEF SchedInv, PathTypes, PortOK
    <3> QED BY <2>2, <3>1
  <2> QED BY <1>1, <2>1, <2>2
<1>3. PathTypes'
  <2>1. aQueues' \in [AC -> Nat] /\ \A q \in AC : aQueues'[q] <= aQueueMaxSize[q]
        BY <1>1 DEF SchedInv, PathTypes
  <2> QED BY <1>1, <1>2, <2>1 DEF SchedInv, PathTypes, busyState, wakeups, driver
<1>4. PortOK'
      BY <1>1, <1>2 DEF SchedInv, PortOK, driver
<1>5. BusyTogether'
  <2>1. CASE StopActivities
        BY <1>1, <2>1 DEF StopActivities, SchedInv, BusyTogether, busyState
  <2>2. CASE StopComplete
        BY <1>1, <2>2 DEF StopComplete, SchedInv, BusyTogether, busyState, life
  <2>3. CASE Start
        BY <1>1, <2>3 DEF Start, BusyTogether
  <2>4. CASE ConfigFwCb
        BY <1>1, <2>4 DEF ConfigFwCb, SchedInv, BusyTogether, busyState
  <2> QED BY <2>1, <2>2, <2>3, <2>4
<1> QED BY <1>2, <1>3, <1>4, <1>5, NothingVisited

LEMMA FwConfigCompleteSched ==
    ASSUME SchedInv, FwConfigComplete
    PROVE  SchedInv'
<1>1. /\ pc = "idle" /\ eState = "CONFIG" /\ eState' = "RUN"
      /\ UNCHANGED <<aQueues, txPending, busy, bRecovery, restarted>>
      /\ paceTimer' = FALSE \/ paceTimer' = paceTimer
      /\ ~bDataPortEnable
      BY DEF FwConfigComplete, hwVars, queueVars, SchedInv, PortOK
<1>2. txPending' \in BOOLEAN /\ paceTimer' \in BOOLEAN
  <2>1. txPending \in BOOLEAN /\ paceTimer \in BOOLEAN
        BY DEF SchedInv, PathTypes
  <2>2. CASE paceTimer' = FALSE
        BY <1>1, <2>1, <2>2
  <2>3. CASE paceTimer' = paceTimer
        BY <1>1, <2>1, <2>3
  <2> QED BY <1>1, <2>2, <2>3
<1>3. CASE bRecovery
  <2>1. /\ busyAcBitmap' = {} /\ aQueueBusy' = {} /\ UNCHANGED <<bDataPortEnable, uLastQueId>>
        /\ pc' = "sched" /\ cont' = "notify" /\ uIdleIterations' = 0
        BY <1>3 DEF FwConfigComplete, RunScheduler, port
  <2>2. PathTypes'
    <3>1. uIdleIterations' \in 0 .. 4
          BY <2>1
    <3> QED BY <1>1, <1>2, <2>1, <3>1 DEF SchedInv, PathTypes
  <2>3. PortOK' /\ BusyTogether'
        BY <1>1, <2>1 DEF PortOK, BusyTogether
  <2> QED BY <2>1, <2>2, <2>3, NothingVisited
<1>4. CASE ~bRecovery
  <2>1. EnableActivities /\ UNCHANGED busyState
        BY <1>4 DEF FwConfigComplete
  <2>2. BusyTogether'
        BY <1>1, <1>4, <2>1 DEF SchedInv, BusyTogether, busyState
  <2>3. CASE muxData
    <3>1. /\ bDataPortEnable' = TRUE /\ UNCHANGED uLastQueId
          /\ pc' = "sched" /\ cont' = "idle" /\ uIdleIterations' = 0
          BY <1>1, <2>1, <2>3 DEF EnableActivities, RunScheduler
    <3>2. bDataPortEnable' \in BOOLEAN /\ uIdleIterations' \in 0 .. 4
          BY <3>1
    <3>3. PathTypes'
          BY <1>1, <1>2, <2>1, <3>1, <3>2 DEF SchedInv, PathTypes, busyState
    <3>4. PortOK'
          BY <1>1, <3>1 DEF PortOK
    <3> QED BY <2>2, <3>1, <3>3, <3>4, NothingVisited
  <2>4. CASE ~muxData
    <3>1. pc' = "idle" /\ UNCHANGED <<bDataPortEnable, cont, uLastQueId, uIdleIterations>>
          BY <2>1, <2>4 DEF EnableActivities
    <3>2. PathTypes'
          BY <1>1, <1>2, <2>1, <3>1 DEF SchedInv, PathTypes, busyState
    <3>3. PortOK' /\ ~bDataPortEnable'
          BY <1>1, <3>1 DEF PortOK
    <3> QED BY <2>2, <3>2, <3>3, NothingVisited
  <2> QED BY <2>3, <2>4
<1> QED BY <1>3, <1>4

\* The end of a recovery opens the port again, and starts a round with it.
LEMMA NotifyFwResetSched ==
    ASSUME SchedInv, NotifyFwReset
    PROVE  SchedInv'
<1>1. /\ pc = "notify" /\ EnableActivities /\ ~bDataPortEnable /\ bRecovery' = FALSE
      /\ UNCHANGED <<aQueues, busyState, wakeups, busy, eState, restarted>>
      BY DEF NotifyFwReset, hwVars, queueVars, SchedInv, PortOK
<1>2. eState = "RUN"
      BY <1>1 DEF SchedInv, PortOK
<1>3. BusyTogether'
      BY <1>1, <1>2 DEF SchedInv, BusyTogether, busyState
<1>4. CASE muxData
  <2>1. /\ bDataPortEnable' = TRUE /\ UNCHANGED uLastQueId
        /\ pc' = "sched" /\ cont' = "idle" /\ uIdleIterations' = 0
        BY <1>1, <1>4 DEF EnableActivities, RunScheduler
  <2>2. bDataPortEnable' \in BOOLEAN /\ uIdleIterations' \in 0 .. 4
        BY <2>1
  <2>3. PathTypes'
        BY <1>1, <2>1, <2>2 DEF SchedInv, PathTypes, busyState, wakeups
  <2>4. PortOK'
        BY <1>1, <1>2, <2>1 DEF PortOK
  <2> QED BY <1>3, <2>1, <2>3, <2>4, NothingVisited
<1>5. CASE ~muxData
  <2>1. pc' = "idle" /\ UNCHANGED <<bDataPortEnable, cont, uLastQueId, uIdleIterations>>
        BY <1>1, <1>5 DEF EnableActivities
  <2>2. PathTypes'
        BY <1>1, <2>1 DEF SchedInv, PathTypes, busyState, wakeups
  <2>3. PortOK' /\ ~bDataPortEnable'
        BY <1>1, <2>1 DEF PortOK
  <2> QED BY <1>3, <2>2, <2>3, NothingVisited
<1> QED BY <1>4, <1>5

LEMMA NextSched == HwInv /\ SchedInv /\ [Next]_vars => SchedInv'
<1> SUFFICES ASSUME HwInv, SchedInv, [Next]_vars PROVE SchedInv'
    OBVIOUS
<1>1. HwTypes /\ Traffic \subseteq AC
      BY DEF HwInv
<1>2. CASE UNCHANGED vars
  <2>1. UNCHANGED <<aQueues, busyState, bDataPortEnable, wakeups, driver, busy,
                    eState, bRecovery, restarted>>
        BY <1>2 DEF vars, hwVars, queueVars, port, life
  <2> QED BY <2>1, SchedKept
<1>3. CASE StopTx \/ TxComplete \/ \E q \in Traffic : FwTransmits(q)
  <2>1. UNCHANGED <<aQueues, busyState, bDataPortEnable, wakeups, driver, busy,
                    eState, bRecovery, restarted>>
    <3>1. CASE StopTx \/ TxComplete
          BY <3>1 DEF StopTx, TxComplete, hwVars, queueVars, port, life
    <3>2. CASE \E q \in Traffic : FwTransmits(q)
          BY <3>2 DEF FwTransmits, Hw!FwStep, Hw!busyVars, queueVars, port, life
    <3> QED BY <1>3, <3>1, <3>2
  <2> QED BY <2>1, SchedKept
<1>4. CASE \E q \in Traffic : InsertPacket(q)
      BY <1>1, <1>4, InsertPacketSched
<1>5. CASE SchedExit \/ SchedSkip \/ SchedEmpty \/ SchedDequeue
      BY <1>5, SchedExitSched, SchedSkipSched, SchedDequeueSched
<1>6. CASE XmitSent \/ XmitBusy \/ NotifyFwReset
      BY <1>1, <1>6, XmitSentSched, XmitBusySched, NotifyFwResetSched
<1>7. CASE RunTxData \/ TxSendPaceTimeout \/ DataInterrupt \/ UpdateQueuesMapping
      BY <1>1, <1>7, RunSched, DataInterruptSched, UpdateQueuesMappingSched
<1>8. CASE \/ EnableData \/ EnableMgmt \/ StopActivities \/ StopComplete \/ Start
           \/ ConfigFwCb \/ FwConfigComplete
      BY <1>8, PortSched, StopSched, FwConfigCompleteSched
<1> QED BY <1>2, <1>3, <1>4, <1>5, <1>6, <1>7, <1>8
           DEF Next, Stack, GoesOn, Firmware, Control

LEMMA Invariance == Spec => [](HwInv /\ SchedInv)
<1>1. Init => HwInv /\ SchedInv
      BY InitHw, InitSched
<1>2. HwInv /\ SchedInv /\ [Next]_vars => HwInv' /\ SchedInv'
      BY NextHw, NextSched
<1> QED BY <1>1, <1>2, PTL DEF Spec

-----------------------------------------------------------------------------
(* The theorems.                                                           *)

\* A hardware queue that is busy waits for a packet the firmware has, or for a
\* release the driver has not looked at: for any blocks, thresholds, descriptors and
\* sizes of packets (txHwQueue.c:307-433, 532-616).
THEOREM BusyQueuesAreReleased == Spec => []BusyIsReleased
<1>1. HwInv => BusyIsReleased
  <2> SUFFICES ASSUME HwInv, NEW q \in AC, busy[q], eState = "RUN", ~StatusChanged,
                      \A p \in AC : ~(inFw[p] > 0)
               PROVE  FALSE
      BY DEF BusyIsReleased, Running
  <2>1. \A p \in AC : inFw[p] = 0
        BY DEF HwInv, HwTypes
  <2>2. held = [p \in AC |-> 0] /\ open = 0
        BY <2>1, NothingLent DEF HwInv, LentToPackets
  <2>3. used = [p \in AC |-> 0] /\ descs = 0
        BY <2>2 DEF StatusChanged
  <2>4. \A p \in AC : uNumBlksThresh[p] \in Nat /\ Hw!Reserved(p) = uNumBlksThresh[p]
        BY <2>3 DEF Hw!Reserved
  <2>5. Hw!Total([p \in AC |-> Hw!Reserved(p)]) = Hw!Total(uNumBlksThresh)
        BY <2>4 DEF Hw!Total
  <2>6. Hw!Total(used) = 0 /\ Hw!Total(uNumBlksThresh) \in Int
        BY <2>3, <2>4 DEF Hw!Total
  <2>7. Hw!Available(q) = uNumTotalBlks - Hw!Total(uNumBlksThresh) + uNumBlksThresh[q]
        BY <2>3, <2>4, <2>5, <2>6 DEF Hw!Available
  <2>8. Blks[q] <= uNumTotalBlks - Hw!Total(uNumBlksThresh) + uNumBlksThresh[q]
        OBVIOUS
  <2> QED BY <2>4, <2>6, <2>7, <2>8 DEF HwInv, BusyLacks
<1> QED BY <1>1, Invariance, PTL

\* While the port is open, and until a restart, a packet in a data queue is attended to
\* whenever the driver context is idle: for any interleaving of the network stack with
\* the scheduler's round, any sizes and any pacing (txDataQueue.c:312-413, 667-767).
THEOREM NoPacketIsStranded == Spec => []NothingStranded
<1>1. SchedInv => NothingStranded
      BY DEF SchedInv, Visited, Attended, NothingStranded
<1> QED BY <1>1, Invariance, PTL
=============================================================================
