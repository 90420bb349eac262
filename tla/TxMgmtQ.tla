------------------------------ MODULE TxMgmtQ ------------------------------
(***************************************************************************)
(* The management queues (stad/src/Data_link/txMgmtQueue.c), one for       *)
(* management packets and one for EAPOL, and the port (txPort.c) that      *)
(* switches the Tx path between them and the data queues, as the           *)
(* connection state permits.                                               *)
(*                                                                         *)
(* The state machine calls the port, which calls the scheduler, which      *)
(* calls the state machine.  As each does so in its last statement, a call *)
(* is a step that leaves the driver context at another pc.  The network    *)
(* stack inserts EAPOL packets in its own context, at any point.           *)
(***************************************************************************)
EXTENDS Integers

CONSTANT MGMT_QUEUES_DEPTH

ASSUME DepthAssumption == MGMT_QUEUES_DEPTH \in Nat \ {0}

Queues == {"MGMT", "EAPOL"}     \* in this order of priority

VARIABLES
    eSmState,
    eTxConnState,       \* what the connection permits
    aQueues,            \* [Queues -> packets]
    aQueueBusy,         \* of both: they share an AC
    aQueueEnabledBySM,  \* the queues enabled
    muxData,            \* queuesMuxState = MUX_DATA_QUEUES
    txSuspended,
    bMgmtPortEnable,    \* also the port's mgmtQueueEnabled
    bDataPortEnable,    \* also the port's dataQueueEnabled
    txMgmtPending,      \* client TX_MGMT of the context engine
    busyAc,             \* their AC is in txCtrl's busyAcBitmap
    hwBusy,             \* and waits for a release in txHwQueue
    eState,             \* the driver: RUN, RECOVERY, STOPPING, STOPPED
    restarted,          \* there was a start after a stop
    pc,                 \* driver context: idle, event, sched, xmit, check
    uQueId,
    notFromSm           \* the scheduler was called by runSchedulerNotFromSm

sm     == <<eSmState, aQueueEnabledBySM>>
port   == <<muxData, txSuspended, bMgmtPortEnable, bDataPortEnable>>
hw     == <<busyAc, hwBusy>>
life   == <<eState, restarted>>
driver == <<pc, uQueId, notFromSm>>
vars   == <<sm, eTxConnState, aQueues, aQueueBusy, port, txMgmtPending, hw, life,
            driver>>

\* txMgmtQ_Init and txPort_init.
Init ==
    /\ eSmState = "CLOSE" /\ eTxConnState = "CLOSE"
    /\ aQueues = [q \in Queues |-> 0] /\ aQueueBusy = FALSE
    /\ aQueueEnabledBySM = {}
    /\ muxData = FALSE /\ txSuspended = FALSE
    /\ bMgmtPortEnable = TRUE /\ bDataPortEnable = FALSE
    /\ txMgmtPending = FALSE
    /\ busyAc = FALSE /\ hwBusy = FALSE
    /\ eState = "RUN" /\ restarted = FALSE
    /\ pc = "idle" /\ uQueId = "MGMT" /\ notFromSm = FALSE

AllEmpty == \A q \in Queues : aQueues[q] = 0

Return == pc' = "idle" /\ uQueId' = "MGMT" /\ notFromSm' = FALSE

-----------------------------------------------------------------------------
(* The port.                                                               *)

RunScheduler(notSm) == pc' = "sched" /\ uQueId' = "MGMT" /\ notFromSm' = notSm

\* "If the queues are not empty, run the scheduler."
RunSchedulerNotFromSm == IF AllEmpty THEN Return ELSE RunScheduler(TRUE)

\* Mutant: the data queues are woken first, in a state that is left meanwhile.
MutUpdateQueuesStates(mux, suspended) ==
    /\ muxData' = mux /\ txSuspended' = suspended
    /\ bMgmtPortEnable' = (~suspended /\ ~mux)
    /\ bDataPortEnable' = (bDataPortEnable \/ (~suspended /\ mux))
    /\ IF ~suspended /\ ~mux /\ ~bMgmtPortEnable
       THEN RunSchedulerNotFromSm
       ELSE Return

\* updateQueuesStates, with txMgmtQ_StopAll, txDataQ_StopAll and txMgmtQ_WakeAll,
\* which runs the scheduler.  (txDataQ_WakeAll does not come back to here.)
UpdateQueuesStates(mux, suspended) ==
    /\ muxData' = mux /\ txSuspended' = suspended
    /\ bMgmtPortEnable' = (~suspended /\ ~mux)
    /\ bDataPortEnable' = (~suspended /\ mux)
    /\ IF ~suspended /\ ~mux /\ ~bMgmtPortEnable
       THEN RunSchedulerNotFromSm
       ELSE Return

EnableData == UpdateQueuesStates(TRUE, txSuspended)
EnableMgmt == UpdateQueuesStates(FALSE, txSuspended)

-----------------------------------------------------------------------------
(* mgmtQueuesSM, one operator per event.                                   *)

SmClose ==
    /\ eSmState' = "CLOSE" /\ aQueueEnabledBySM' = {}
    /\ IF eSmState = "OPEN_DATA" THEN EnableMgmt ELSE Return /\ UNCHANGED port

\* Mutant: the EAPOL queue is left enabled.
MutSmMgmt ==
    /\ eSmState' = "MGMT" /\ aQueueEnabledBySM' = aQueueEnabledBySM \cup {"MGMT"}
    /\ IF eSmState = "OPEN_DATA" THEN EnableMgmt
                                 ELSE RunScheduler(FALSE) /\ UNCHANGED port

SmMgmt ==
    /\ eSmState' = "MGMT" /\ aQueueEnabledBySM' = {"MGMT"}
    /\ IF eSmState = "OPEN_DATA" THEN EnableMgmt
                                 ELSE RunScheduler(FALSE) /\ UNCHANGED port

\* Mutant: the scheduler is left to the next packet.
MutSmEapol ==
    /\ eSmState' = "EAPOL" /\ aQueueEnabledBySM' = Queues
    /\ Return /\ UNCHANGED port

SmEapol ==
    /\ eSmState' = "EAPOL" /\ aQueueEnabledBySM' = Queues
    /\ RunScheduler(FALSE) /\ UNCHANGED port

\* Mutant: open for data whatever is queued.
MutSmOpen ==
    /\ eSmState' = "OPEN_DATA" /\ aQueueEnabledBySM' = {}
    /\ EnableData

\* With packets in the queues nothing is started: they are taken to be busy.
SmOpen ==
    IF AllEmpty
    THEN /\ eSmState' = "OPEN_DATA" /\ aQueueEnabledBySM' = {}
         /\ EnableData
    ELSE /\ eSmState' = "OPEN_MGMT"
         /\ Return /\ UNCHANGED <<aQueueEnabledBySM, port>>

SmQueuesEmpty ==
    IF eSmState = "OPEN_MGMT"
    THEN /\ eSmState' = "OPEN_DATA" /\ aQueueEnabledBySM' = {}
         /\ EnableData
    ELSE Return /\ UNCHANGED <<sm, port>>

\* "The scheduler is not run here because the txPort will call
\* txMgmtQueue_wakeAll() which will run the scheduler."
SmQueuesNotEmpty ==
    CASE eSmState = "OPEN_DATA" ->
            /\ eSmState' = "OPEN_MGMT" /\ aQueueEnabledBySM' = Queues
            /\ EnableMgmt
      [] eSmState \in {"MGMT", "EAPOL"} ->
            RunScheduler(FALSE) /\ UNCHANGED <<sm, port>>
      [] OTHER ->
            Return /\ UNCHANGED <<sm, port>>

-----------------------------------------------------------------------------
(* Clients.                                                                *)

\* txMgmtQ_SetConnState, in the order the connection SMs (connInfra.c,
\* connIbss.c) go through.
NextConnStates ==
    CASE eTxConnState = "CLOSE" -> {"MGMT", "EAPOL"}
      [] eTxConnState = "MGMT"  -> {"MGMT", "EAPOL", "CLOSE"}
      [] eTxConnState = "EAPOL" -> {"OPEN", "MGMT", "CLOSE"}
      [] eTxConnState = "OPEN"  -> {"MGMT", "CLOSE"}

SetConnState(s) ==
    /\ pc = "idle" /\ s \in NextConnStates /\ eTxConnState' = s
    /\ CASE s = "CLOSE" -> SmClose
         [] s = "MGMT"  -> SmMgmt
         [] s = "EAPOL" -> SmEapol
         [] s = "OPEN"  -> SmOpen
    /\ UNCHANGED <<aQueues, aQueueBusy, txMgmtPending, hw, life>>

\* txMgmtQ_Xmit by MLME or the admission control, in the driver context.  (A
\* packet for which there is no room is dropped.)
Xmit ==
    /\ pc = "idle" /\ eTxConnState # "CLOSE"
    /\ aQueues["MGMT"] < MGMT_QUEUES_DEPTH
    /\ aQueues' = [aQueues EXCEPT !["MGMT"] = @ + 1]
    /\ pc' = IF aQueues["MGMT"] = 0 THEN "event" ELSE "idle"
    /\ UNCHANGED <<sm, eTxConnState, aQueueBusy, port, txMgmtPending, hw, life,
                   uQueId, notFromSm>>

QueueWasEmpty ==
    /\ pc = "event"
    /\ SmQueuesNotEmpty
    /\ UNCHANGED <<eTxConnState, aQueues, aQueueBusy, txMgmtPending, hw, life>>

\* txMgmtQ_Xmit by the network stack: "request switch to the driver's context" if
\* the queue was empty.
XmitExternal ==
    /\ aQueues["EAPOL"] < MGMT_QUEUES_DEPTH
    /\ aQueues' = [aQueues EXCEPT !["EAPOL"] = @ + 1]
    /\ txMgmtPending' = (txMgmtPending \/ aQueues["EAPOL"] = 0)
    /\ UNCHANGED <<sm, eTxConnState, aQueueBusy, port, hw, life, driver>>

\* txMgmtQ_QueuesNotEmpty.
QueuesNotEmpty ==
    /\ pc = "idle" /\ txMgmtPending /\ txMgmtPending' = FALSE
    /\ SmQueuesNotEmpty
    /\ UNCHANGED <<eTxConnState, aQueues, aQueueBusy, hw, life>>

-----------------------------------------------------------------------------
(* The scheduler.                                                          *)

Sendable == ~aQueueBusy /\ uQueId \in aQueueEnabledBySM /\ aQueues[uQueId] > 0

Dequeue ==
    /\ pc = "sched" /\ bMgmtPortEnable /\ Sendable
    /\ aQueues' = [aQueues EXCEPT ![uQueId] = @ - 1]
    /\ pc' = "xmit"
    /\ UNCHANGED <<sm, eTxConnState, aQueueBusy, port, txMgmtPending, hw, life,
                   uQueId, notFromSm>>

NextQueue ==
    /\ pc = "sched" /\ bMgmtPortEnable /\ ~Sendable /\ uQueId = "MGMT"
    /\ uQueId' = "EAPOL"
    /\ UNCHANGED <<sm, eTxConnState, aQueues, aQueueBusy, port, txMgmtPending, hw,
                   life, pc, notFromSm>>

SchedExit ==
    /\ pc = "sched"
    /\ ~bMgmtPortEnable \/ (~Sendable /\ uQueId = "EAPOL")
    /\ IF notFromSm
       THEN pc' = "check" /\ uQueId' = "MGMT" /\ notFromSm' = FALSE
       ELSE Return
    /\ UNCHANGED <<sm, eTxConnState, aQueues, aQueueBusy, port, txMgmtPending, hw, life>>

\* The rest of runSchedulerNotFromSm.
CheckEmpty ==
    /\ pc = "check"
    /\ IF AllEmpty THEN SmQueuesEmpty ELSE Return /\ UNCHANGED <<sm, port>>
    /\ UNCHANGED <<eTxConnState, aQueues, aQueueBusy, txMgmtPending, hw, life>>

\* txCtrl_XmitMgmt with SUCCESS, STOP_NEXT or an error of the bus: "start next tx
\* from the high priority queue".
XmitSent(stop) ==
    /\ pc = "xmit" /\ pc' = "sched" /\ uQueId' = "MGMT"
    /\ aQueueBusy' = (aQueueBusy \/ stop)
    /\ busyAc' = (busyAc \/ stop) /\ hwBusy' = (hwBusy \/ stop)
    /\ UNCHANGED <<sm, eTxConnState, aQueues, port, txMgmtPending, life, notFromSm>>

\* STOP_CURRENT.  The status of que_Requeue is ignored: if the network stack has
\* filled the queue meanwhile the packet is in no queue and not freed either.
XmitBusy ==
    /\ pc = "xmit" /\ pc' = "sched"
    /\ aQueueBusy' = TRUE /\ hwBusy' = TRUE
    /\ aQueues' = IF aQueues[uQueId] < MGMT_QUEUES_DEPTH
                  THEN [aQueues EXCEPT ![uQueId] = @ + 1] ELSE aQueues
    /\ UNCHANGED <<sm, eTxConnState, port, txMgmtPending, busyAc, life, uQueId,
                   notFromSm>>

\* Data packets of the same AC fill it.
DataFillsAc ==
    /\ pc = "idle" /\ bDataPortEnable
    /\ busyAc' = TRUE /\ hwBusy' = TRUE
    /\ UNCHANGED <<sm, eTxConnState, aQueues, aQueueBusy, port, txMgmtPending, life, driver>>

-----------------------------------------------------------------------------
(* Backpressure, recovery, stop.                                           *)

\* txCtrl_UpdateBackpressure, of it txMgmtQ_UpdateBusyMap: their AC was released.
\* (The suspended driver takes no interrupt of data.)
Release ==
    /\ pc = "idle" /\ ~txSuspended /\ hwBusy /\ hwBusy' = FALSE
    /\ busyAc' = FALSE /\ aQueueBusy' = FALSE
    /\ RunSchedulerNotFromSm
    /\ UNCHANGED <<sm, eTxConnState, aQueues, port, txMgmtPending, life>>

\* The same for another AC, or upon association.
UpdateBusyMap ==
    /\ pc = "idle" /\ aQueueBusy' = busyAc
    /\ RunSchedulerNotFromSm
    /\ UNCHANGED <<sm, eTxConnState, aQueues, port, txMgmtPending, hw, life>>

\* For a recovery, or for a stop once the connection is closed.
SuspendTx ==
    /\ pc = "idle" /\ eState = "RUN"
    /\ eState' \in (IF eTxConnState = "CLOSE" THEN {"RECOVERY", "STOPPING"}
                                               ELSE {"RECOVERY"})
    /\ UpdateQueuesStates(muxData, TRUE)
    /\ UNCHANGED <<sm, eTxConnState, aQueues, aQueueBusy, txMgmtPending, hw, restarted>>

\* txMgmtQ_ClearQueues, as the driver is stopped.  A recovery that fails ends so
\* too.
ClearQueues ==
    /\ pc = "idle" /\ eState \in {"STOPPING", "RECOVERY"} /\ eState' = "STOPPED"
    /\ aQueues' = [q \in Queues |-> 0]
    /\ UNCHANGED <<sm, eTxConnState, aQueueBusy, port, txMgmtPending, hw, restarted, driver>>

\* The firmware is configured anew, with all its ACs free.  A recovery ends with
\* txCtrl_NotifyFwReset, whose scheduler finds the port closed; a start leaves the
\* busy flags as the stop found them.  Then txPort_resumeTx.
ResumeTx ==
    /\ pc = "idle" /\ eState \in {"RECOVERY", "STOPPED"} /\ eState' = "RUN"
    /\ hwBusy' = FALSE
    /\ IF eState = "RECOVERY"
       THEN aQueueBusy' = FALSE /\ busyAc' = FALSE /\ UNCHANGED restarted
       ELSE restarted' = TRUE /\ UNCHANGED <<aQueueBusy, busyAc>>
    /\ UpdateQueuesStates(muxData, FALSE)
    /\ UNCHANGED <<sm, eTxConnState, aQueues, txMgmtPending>>

-----------------------------------------------------------------------------
Clients ==
    \/ \E s \in {"CLOSE", "MGMT", "EAPOL", "OPEN"} : SetConnState(s)
    \/ Xmit \/ XmitExternal

Scheduler ==
    \/ QueueWasEmpty \/ Dequeue \/ NextQueue \/ SchedExit \/ CheckEmpty
    \/ \E stop \in BOOLEAN : XmitSent(stop)
    \/ XmitBusy

Environment ==
    \/ QueuesNotEmpty \/ DataFillsAc \/ Release \/ UpdateBusyMap
    \/ SuspendTx \/ ResumeTx \/ ClearQueues

Next == Clients \/ Scheduler \/ Environment

Spec == Init /\ [][Next]_vars

Sent(q) == uQueId = q /\ \E stop \in BOOLEAN : XmitSent(stop)

\* The driver context goes on with what it has begun and gets to what is pending;
\* a busy AC is released (TxPath), and a packet that is tried again and again is
\* sent.  Nobody has to send, connect or resume.
Fairness ==
    /\ WF_vars(Scheduler) /\ SF_vars(\E q \in Queues : Sent(q))
    /\ SF_vars(QueuesNotEmpty) /\ SF_vars(Release)

FairSpec == Spec /\ Fairness

-----------------------------------------------------------------------------
(* Properties.                                                             *)

TypeOK ==
    /\ eSmState \in {"CLOSE", "MGMT", "EAPOL", "OPEN_MGMT", "OPEN_DATA"}
    /\ eTxConnState \in {"CLOSE", "MGMT", "EAPOL", "OPEN"}
    /\ aQueues \in [Queues -> 0 .. MGMT_QUEUES_DEPTH]
    /\ aQueueBusy \in BOOLEAN /\ aQueueEnabledBySM \subseteq Queues
    /\ muxData \in BOOLEAN /\ txSuspended \in BOOLEAN
    /\ bMgmtPortEnable \in BOOLEAN /\ bDataPortEnable \in BOOLEAN
    /\ txMgmtPending \in BOOLEAN /\ busyAc \in BOOLEAN /\ hwBusy \in BOOLEAN
    /\ pc \in {"idle", "event", "sched", "xmit", "check"}
    /\ uQueId \in Queues /\ notFromSm \in BOOLEAN
    /\ eState \in {"RUN", "RECOVERY", "STOPPING", "STOPPED"} /\ restarted \in BOOLEAN

\* Through all nested calls the port is open for what the connection permits, and
\* for one kind of queue at a time: data before the connection is open, or
\* with the port suspended, would go out unencrypted or be lost.
PortFollowsConn ==
    /\ bDataPortEnable => /\ eTxConnState = "OPEN" /\ eSmState = "OPEN_DATA"
                          /\ ~bMgmtPortEnable /\ ~txSuspended
    /\ ~txSuspended => bDataPortEnable \/ bMgmtPortEnable

\* A packet is dequeued only while the connection permits its type, though the
\* state machine's flags are changed by events of the queues as well.
SentIsPermitted ==
    pc = "xmit" =>
        /\ eTxConnState # "CLOSE"
        /\ uQueId = "EAPOL" => eTxConnState \in {"EAPOL", "OPEN"}

\* Management goes before data: while the data queues are served no management
\* packet waits, and of an EAPOL packet the driver context is to be told.
MgmtFirst ==
    bDataPortEnable =>
        /\ aQueues["MGMT"] > 0 => pc = "event"
        /\ aQueues["EAPOL"] > 0 => txMgmtPending

\* The AC is still marked as busy from before a stop: nothing in the firmware of the
\* new start will release it.
Stalled == restarted /\ aQueueBusy /\ ~hwBusy

\* During the handshake EAPOL packets get out, for all insertions that race with
\* the scheduler, busy queues, recoveries and stops, unless management packets,
\* which go first in the same AC, keep coming; and but for an AC that a stop has
\* found busy.
EapolServed ==
    <>[](/\ eTxConnState = "EAPOL" /\ ~txSuspended /\ ~Stalled
         /\ aQueues["EAPOL"] > 0 /\ aQueues["MGMT"] = 0)
        => []<><<Sent("EAPOL")>>_vars

=============================================================================
