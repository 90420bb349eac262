------------------------------- MODULE TxPath -------------------------------
(***************************************************************************)
(* The data path down to the firmware: the network stack's call            *)
(* (txDataQ_InsertPacket, any context), the data queues and their          *)
(* scheduler (stad/src/Data_link/txDataQueue.c), the backpressure          *)
(* (txCtrl.c), the port (txPort.c) and the hardware queues (TxResources), in *)
(* the driver context; the firmware beside them; and DrvMain's stop, start *)
(* and recovery as far as they concern packets.                            *)
(*                                                                         *)
(* The scheduler is interleaved with the network stack at its critical     *)
(* sections.  A queue is the number of its packets.                        *)
(***************************************************************************)
EXTENDS Integers, FiniteSets

CONSTANTS
    uNumTotalBlks, uNumBlksThresh, NUM_TX_DESCRIPTORS,   \* see TxResources
    CTRL_BLK_ENTRIES_NUM,   \* control blocks
    Traffic,                \* ACs the network stack sends in
    Blks,                   \* [AC -> blocks of a packet]
    aQueueMaxSize,          \* [AC -> packets]
    aTxSendPaceThresh,      \* [AC -> packets]
    bStopNetStackTx

VARIABLES used, held, descs, open, causedBusy, busy     \* see TxResources

Hw == INSTANCE TxResources
AC == Hw!AC

ASSUME PathAssumption ==
    /\ uNumTotalBlks \in Nat /\ uNumBlksThresh \in [AC -> Nat]
    /\ NUM_TX_DESCRIPTORS \in Nat \ {0} /\ CTRL_BLK_ENTRIES_NUM \in Nat
    /\ Traffic \subseteq AC /\ bStopNetStackTx \in BOOLEAN
    /\ aQueueMaxSize \in [AC -> Nat \ {0}] /\ aTxSendPaceThresh \in [AC -> Nat \ {0}]

\* A packet is never larger than what is left to its queue beside the guarantees
\* of the others.
ASSUME PacketAssumption ==
    /\ Blks \in [AC -> Nat \ {0}]
    /\ \A q \in AC : Blks[q] <= uNumTotalBlks - Hw!Total(uNumBlksThresh)
                                              + uNumBlksThresh[q]

VARIABLES
    aQueues,                \* [AC -> packets in the data queue]
    aQueueBusy,             \* busy data queues
    busyAcBitmap,           \* txCtrl's busy ACs
    bDataPortEnable,
    muxData,                \* queuesMuxState = MUX_DATA_QUEUES
    txSuspended,
    netStopped,             \* aNetStackQueueStopped
    stackStopped,           \* the network stack may not send
    ext,                    \* its thread: idle, or about to call StopTx
    txPending,              \* client TX_DATA of the context engine
    paceTimer,              \* hTxSendPaceTimer runs or has expired
    pc,                     \* driver context: idle, sched, xmit, notify, hung
    cont,                   \* where it goes on after the scheduler
    uLastQueId, uIdleIterations,
    sent,                   \* control blocks with TX_CTRL_FLAG_SENT_TO_FW
    inFw,                   \* [AC -> packets the firmware has]
    results,                \* results it has posted
    eState,                 \* INIT, CONFIG, RUN, STOPPING, STOPPED
    bRecovery,
    restarted               \* there was a start after a stop

hwVars    == <<used, held, descs, open, causedBusy, busy>>
queueVars == <<aQueues, netStopped, stackStopped, ext>>
busyState == <<aQueueBusy, busyAcBitmap>>
port      == <<bDataPortEnable, muxData, txSuspended>>
wakeups   == <<txPending, paceTimer>>
driver    == <<pc, cont, uLastQueId, uIdleIterations>>
blocks    == <<sent, inFw, results>>
life      == <<eState, bRecovery, restarted>>
vars      == <<hwVars, queueVars, busyState, port, wakeups, driver, blocks, life>>

\* After txDataQ_SetDefaults, with the firmware about to be configured.
Init ==
    /\ Hw!Init
    /\ aQueues = [q \in AC |-> 0]
    /\ netStopped = {} /\ stackStopped = FALSE /\ ext = "idle"
    /\ aQueueBusy = {} /\ busyAcBitmap = {}
    /\ bDataPortEnable = FALSE /\ muxData = FALSE /\ txSuspended = FALSE
    /\ txPending = FALSE /\ paceTimer = FALSE
    /\ pc = "idle" /\ cont = "idle" /\ uLastQueId = 0 /\ uIdleIterations = 0
    /\ sent = 0 /\ inFw = [q \in AC |-> 0] /\ results = 0
    /\ eState = "INIT" /\ bRecovery = FALSE /\ restarted = FALSE

-----------------------------------------------------------------------------
(* The network stack.                                                      *)

\* txCtrlBlk's free list: one is held by a packet that is dequeued.
FreeEntries == CTRL_BLK_ENTRIES_NUM - Hw!Total(aQueues) - sent
                   - (IF pc = "xmit" THEN 1 ELSE 0)

\* Mutant: a busy queue's size is looked at as well, the timer is not.
MutPace(q, size) ==
    /\ txPending' = (txPending \/ size = aTxSendPaceThresh[q])
    /\ UNCHANGED paceTimer

\* Unless the queue is busy: "request switch to driver context" at the pacing
\* threshold, "start timer" below it.
Pace(q, size) ==
    IF q \in aQueueBusy \/ size > aTxSendPaceThresh[q]
    THEN UNCHANGED wakeups
    ELSE /\ txPending' = (txPending \/ size = aTxSendPaceThresh[q])
         /\ paceTimer' = (size < aTxSendPaceThresh[q])

\* The queue is full: the stack is to stop once the critical section is left.
StopsStack(q, size) == bStopNetStackTx /\ size = aQueueMaxSize[q]

\* txDataQ_InsertPacket: the critical section and the request to schedule.
InsertPacket(q) ==
    /\ eState # "STOPPED" /\ ext = "idle" /\ ~stackStopped /\ FreeEntries > 0
    /\ LET size == IF aQueues[q] < aQueueMaxSize[q] THEN aQueues[q] + 1
                                                    ELSE aQueueMaxSize[q]
       IN  /\ aQueues' = [aQueues EXCEPT ![q] = size]
           /\ IF StopsStack(q, size)
              THEN /\ netStopped' = netStopped \cup {q} /\ ext' = "stopping"
                   /\ txPending' = TRUE
                   /\ paceTimer' = (paceTimer /\
                          (q \in aQueueBusy \/ size # aTxSendPaceThresh[q]))
              ELSE Pace(q, size) /\ UNCHANGED <<netStopped, ext>>
    /\ UNCHANGED <<hwVars, stackStopped, busyState, port, driver, blocks, life>>

\* Its end: wlanDrvIf_StopTx "outside the critical section".
StopTx ==
    /\ ext = "stopping" /\ ext' = "idle"
    /\ stackStopped' = TRUE
    /\ UNCHANGED <<hwVars, aQueues, netStopped, busyState, port, wakeups, driver,
                   blocks, life>>

-----------------------------------------------------------------------------
(* The scheduler.                                                          *)

\* txDataQ_RunScheduler; then the driver context goes on at next.
RunScheduler(next) ==
    pc' = "sched" /\ cont' = next /\ uIdleIterations' = 0 /\ UNCHANGED uLastQueId

\* The context engine calls the client, or the pacing timer expires.
RunTxData ==
    /\ pc = "idle" /\ txPending /\ txPending' = FALSE
    /\ RunScheduler("idle")
    /\ UNCHANGED <<hwVars, queueVars, busyState, port, paceTimer, blocks, life>>

TxSendPaceTimeout ==
    /\ pc = "idle" /\ paceTimer /\ paceTimer' = FALSE
    /\ RunScheduler("idle")
    /\ UNCHANGED <<hwVars, queueVars, busyState, port, txPending, blocks, life>>

\* "If the Data port is closed or the scheduler couldn't send packets from all
\* queues".
SchedExit ==
    /\ pc = "sched"
    /\ ~bDataPortEnable \/ uIdleIterations >= Cardinality(AC)
    /\ pc' = cont /\ cont' = "idle" /\ uIdleIterations' = 0
    /\ UNCHANGED <<hwVars, queueVars, busyState, port, wakeups, uLastQueId,
                   blocks, life>>

NextQueue == (uLastQueId + 1) % Cardinality(AC)

Iterate ==
    /\ pc = "sched"
    /\ bDataPortEnable /\ uIdleIterations < Cardinality(AC)
    /\ uLastQueId' = NextQueue /\ uIdleIterations' = uIdleIterations + 1

SchedSkip ==
    /\ Iterate /\ NextQueue \in aQueueBusy
    /\ UNCHANGED <<hwVars, queueVars, busyState, port, wakeups, pc, cont,
                   blocks, life>>

\* An empty queue: "Resume the TX process".
SchedEmpty ==
    /\ Iterate /\ NextQueue \notin aQueueBusy /\ aQueues[NextQueue] = 0
    /\ netStopped' = netStopped \ {NextQueue}
    /\ stackStopped' = (stackStopped /\ NextQueue \notin netStopped)
    /\ UNCHANGED <<hwVars, aQueues, ext, busyState, port, wakeups, pc, cont,
                   blocks, life>>

SchedDequeue ==
    /\ Iterate /\ NextQueue \notin aQueueBusy /\ aQueues[NextQueue] > 0
    /\ aQueues' = [aQueues EXCEPT ![NextQueue] = @ - 1]
    /\ pc' = "xmit"
    /\ UNCHANGED <<hwVars, netStopped, stackStopped, ext, busyState, port, wakeups,
                   cont, blocks, life>>

\* txDataQ_StopQueue with the map of one AC: txDataQ_UpdateQueuesBusyState clears
\* the others.
StopQueue(q) == aQueueBusy' = {q}

\* txCtrl_UpdateBackpressure, which then runs the scheduler.
UpdateBackpressure(freed) ==
    /\ busyAcBitmap' = busyAcBitmap \ freed
    /\ aQueueBusy' = busyAcBitmap \ freed

\* txCtrl_XmitData with SUCCESS or STOP_NEXT.
XmitSent ==
    LET q == uLastQueId IN
    /\ pc = "xmit" /\ pc' = "sched" /\ uIdleIterations' = 0
    /\ Hw!Alloc(q, Blks[q])
    /\ IF Hw!StopsNext(q, Blks[q])
       THEN busyAcBitmap' = busyAcBitmap \cup {q} /\ StopQueue(q)
       ELSE UNCHANGED busyState
    /\ sent' = sent + 1
    /\ inFw' = [inFw EXCEPT ![q] = @ + 1]
    /\ UNCHANGED <<queueVars, port, wakeups, cont, uLastQueId, results, life>>

\* STOP_CURRENT, which does not enter busyAcBitmap; the packet goes back to the
\* front of its queue.  If the stack has filled the queue in the meantime it is
\* dropped: txCtrlBlk_Free enters the critical section a second time, in which
\* the driver context may hang (spin_lock_irqsave on a lock it holds).
XmitBusy ==
    LET q == uLastQueId IN
    /\ pc = "xmit"
    /\ Hw!StopCurrent(q, Blks[q])
    /\ StopQueue(q)
    /\ IF aQueues[q] < aQueueMaxSize[q]
       THEN aQueues' = [aQueues EXCEPT ![q] = @ + 1] /\ pc' = "sched"
       ELSE UNCHANGED aQueues /\ pc' \in {"sched", "hung"}
    /\ UNCHANGED <<netStopped, stackStopped, ext, busyAcBitmap, port, wakeups,
                   cont, uLastQueId, uIdleIterations, blocks, life>>

-----------------------------------------------------------------------------
(* The firmware and its interrupts.                                        *)

FwTransmits(q) ==
    /\ inFw[q] > 0 /\ inFw' = [inFw EXCEPT ![q] = @ - 1]
    /\ Hw!FwStep(q, Blks[q], 1)
    /\ results' = results + 1
    /\ UNCHANGED <<queueVars, busyState, port, wakeups, driver, sent, life>>

\* The firmware has released something the driver has not seen.
StatusChanged == used # held \/ descs # open

\* A DATA interrupt: txHwQueue_UpdateFreeResources and its callback.
DataInterrupt ==
    /\ pc = "idle" /\ eState = "RUN" /\ StatusChanged
    /\ Hw!Update
    /\ LET freed == {q \in AC : Hw!Releases(q)} IN
       IF freed # {}
       THEN UpdateBackpressure(freed) /\ RunScheduler("idle")
       ELSE UNCHANGED <<busyState, driver>>
    /\ UNCHANGED <<queueVars, port, wakeups, blocks, life>>

\* txCtrl_TxCompleteCb, once txResult has read the result.
TxComplete ==
    /\ pc = "idle" /\ eState = "RUN" /\ results > 0
    /\ results' = results - 1 /\ sent' = sent - 1
    /\ UNCHANGED <<hwVars, queueVars, busyState, port, wakeups, driver, inFw, life>>

-----------------------------------------------------------------------------
(* Connection, stop and recovery.                                          *)

\* txCtrl_UpdateQueuesMapping, upon association.
UpdateQueuesMapping ==
    /\ pc = "idle" /\ eState = "RUN"
    /\ UpdateBackpressure({})
    /\ RunScheduler("idle")
    /\ UNCHANGED <<hwVars, queueVars, port, wakeups, blocks, life>>

\* txPort_enableData and, unless suspended, txDataQ_WakeAll: the connection is
\* open and the management queues are empty.
EnableData ==
    /\ pc = "idle" /\ eState = "RUN" /\ ~muxData /\ muxData' = TRUE
    /\ IF txSuspended
       THEN UNCHANGED <<bDataPortEnable, driver>>
       ELSE bDataPortEnable' = TRUE /\ RunScheduler("idle")
    /\ UNCHANGED <<hwVars, queueVars, busyState, txSuspended, wakeups, blocks, life>>

\* txPort_enableMgmt and txDataQ_StopAll: the connection is closed, or a
\* management packet goes first.
EnableMgmt ==
    /\ pc = "idle" /\ eState = "RUN" /\ muxData /\ muxData' = FALSE
    /\ bDataPortEnable' = FALSE
    /\ UNCHANGED <<hwVars, queueVars, busyState, txSuspended, wakeups, driver,
                   blocks, life>>

SuspendTx ==
    txSuspended' = TRUE /\ bDataPortEnable' = FALSE /\ UNCHANGED muxData

\* drvMain_StopActivities, for a recovery, or for a stop, which SME's
\* disconnection precedes.
StopActivities ==
    /\ pc = "idle" /\ eState = "RUN" /\ eState' = "STOPPING"
    /\ bRecovery' \in (IF muxData THEN {TRUE} ELSE BOOLEAN)
    /\ SuspendTx
    /\ inFw' = [q \in AC |-> 0] /\ results' = 0
    /\ UNCHANGED <<hwVars, queueVars, busyState, wakeups, driver, sent, restarted>>

\* STOP_COMPLETE; a stop ends with drvMain_ClearQueuedEvents.
StopComplete ==
    /\ pc = "idle" /\ eState = "STOPPING"
    /\ IF bRecovery
       THEN eState' = "INIT" /\ UNCHANGED aQueues
       ELSE eState' = "STOPPED" /\ aQueues' = [q \in AC |-> 0]
    /\ UNCHANGED <<hwVars, netStopped, stackStopped, ext, busyState, port, wakeups,
                   driver, blocks, bRecovery, restarted>>

Start ==
    /\ pc = "idle" /\ eState = "STOPPED" /\ eState' = "INIT"
    /\ restarted' = TRUE
    /\ UNCHANGED <<hwVars, queueVars, busyState, port, wakeups, driver, blocks,
                   bRecovery>>

\* TWD_ConfigFwCb: txHwQueue_SetHwInfo.
ConfigFwCb ==
    /\ pc = "idle" /\ eState = "INIT" /\ eState' = "CONFIG"
    /\ Hw!Reset
    /\ UNCHANGED <<queueVars, busyState, port, wakeups, driver, blocks, bRecovery,
                   restarted>>

\* drvMain_EnableActivities: txPort_resumeTx.
EnableActivities ==
    /\ txSuspended' = FALSE /\ UNCHANGED muxData
    /\ IF muxData /\ ~bDataPortEnable
       THEN bDataPortEnable' = TRUE /\ RunScheduler("idle")
       ELSE pc' = "idle" /\ UNCHANGED <<bDataPortEnable, cont, uLastQueId,
                                        uIdleIterations>>

\* FW_CONFIG_COMPLETE.  A recovery first calls txCtrl_NotifyFwReset, which lifts
\* the backpressure.  A pacing timer of before may be ignored from now on.
FwConfigComplete ==
    /\ pc = "idle" /\ eState = "CONFIG" /\ eState' = "RUN"
    /\ IF bRecovery
       THEN /\ busyAcBitmap' = {} /\ aQueueBusy' = {}
            /\ RunScheduler("notify")
            /\ UNCHANGED port
       ELSE EnableActivities /\ UNCHANGED busyState
    /\ paceTimer' \in {FALSE, paceTimer}
    /\ UNCHANGED <<hwVars, queueVars, txPending, blocks, bRecovery, restarted>>

\* The rest of txCtrl_NotifyFwReset frees what was sent to the firmware.
NotifyFwReset ==
    /\ pc = "notify"
    /\ sent' = 0
    /\ bRecovery' = FALSE
    /\ EnableActivities
    /\ UNCHANGED <<hwVars, queueVars, busyState, wakeups, inFw, results, eState,
                   restarted>>

-----------------------------------------------------------------------------
Stack == (\E q \in Traffic : InsertPacket(q)) \/ StopTx

\* The driver context in the midst of a scheduler's run or of a recovery.
GoesOn ==
    \/ SchedExit \/ SchedSkip \/ SchedEmpty \/ SchedDequeue
    \/ XmitSent \/ XmitBusy \/ NotifyFwReset

Firmware == (\E q \in Traffic : FwTransmits(q)) \/ TxComplete

Control ==
    \/ RunTxData \/ TxSendPaceTimeout \/ DataInterrupt
    \/ UpdateQueuesMapping \/ EnableData \/ EnableMgmt
    \/ StopActivities \/ StopComplete \/ Start \/ ConfigFwCb
    \/ FwConfigComplete

Next == Stack \/ GoesOn \/ Firmware \/ Control

Spec == Init /\ [][Next]_vars

\* The driver context goes on with what it has begun and gets to what waits for
\* it, the firmware transmits.  Nobody has to send, connect or stop.
Fairness ==
    /\ WF_vars(GoesOn)
    /\ SF_vars(RunTxData) /\ SF_vars(TxSendPaceTimeout) /\ SF_vars(DataInterrupt)
    /\ \A q \in Traffic : WF_vars(FwTransmits(q))

FairSpec == Spec /\ Fairness

-----------------------------------------------------------------------------
(* Properties.                                                             *)

Running == eState = "RUN" /\ cont = "idle" /\ pc # "notify"

\* A busy hardware queue waits for the firmware: there is a packet whose release
\* or result the driver has not seen yet.
BusyIsReleased ==
    \A q \in AC : busy[q] /\ Running =>
        \/ StatusChanged
        \/ \E p \in AC : inFw[p] > 0

\* No packet is stranded: while the port is open a queue that is not empty is
\* busy, or somebody will run the scheduler.
NothingStranded ==
    pc = "idle" /\ bDataPortEnable /\ ~restarted =>
        \A q \in AC : aQueues[q] > 0 =>
            q \in aQueueBusy \/ busy[q] \/ txPending \/ paceTimer

\* A queued packet is handed to the firmware as long as the port stays open,
\* whatever the other queues send: the round robin, the guaranteed blocks and the
\* backpressure together.
Transmits(q) == pc = "xmit" /\ uLastQueId = q /\ Blks[q] <= Hw!Available(q)

PacketServed ==
    \A q \in Traffic :
        aQueues[q] > 0 ~> Transmits(q) \/ ~bDataPortEnable \/ restarted \/ pc = "hung"

=============================================================================
