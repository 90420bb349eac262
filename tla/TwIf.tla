-------------------------------- MODULE TwIf --------------------------------
(***************************************************************************)
(* The TWD bus interface (TWD/TwIf/TwIf.c): it counts the transactions on  *)
(* their way and the requests to stay awake, wakes the device for the      *)
(* first and lets it sleep after the last, carries completions from the    *)
(* bus driver's TxnDone context into the driver context, and restarts      *)
(* upon driver stop and recovery.                                          *)
(*                                                                         *)
(* The transaction queue below is what TxnService promises, with the run   *)
(* state of the WLAN function; its steps may come at any time, for the     *)
(* scheduler runs in whichever context entered it.                         *)
(***************************************************************************)
EXTENDS Integers, Sequences, FiniteSets

CONSTANTS
    Txns,           \* the transaction structures of the Xfer modules
    WithCb,         \* those with an fTxnDoneCb
    ElpSleep,       \* tElpTxnSleep
    ElpAwake,       \* tElpTxnAwake
    None,           \* NULL
    UINT,           \* 2^width of the counters
    MaxAwake,       \* bound: awake requests besides FwEvent's and TWD_InitHw's
    MaxRestarts     \* bound: restarts

ASSUME TxnsAssumption ==
    /\ IsFiniteSet(Txns) /\ WithCb \subseteq Txns
    /\ ElpSleep # ElpAwake
    /\ {ElpSleep, ElpAwake, None} \cap Txns = {}
    /\ None \notin {ElpSleep, ElpAwake}
ASSUME CountersAssumption ==
    /\ UINT \in Nat /\ MaxAwake \in Nat /\ MaxRestarts \in Nat
    /\ Cardinality(Txns) < UINT /\ MaxAwake + 2 < UINT

Elp == {ElpSleep, ElpAwake}

VARIABLES
    eState,                   \* AWAKE, SLEEP or WAIT_HW
    hTxnDoneQueue,            \* completed transactions not yet handled
    uAwakeReqCount,
    uPendingTxnCount,
    bTxnDoneInRecovery,
    bPendRestartTimerRunning,
    expiryQueued,             \* the guard timer expired, its CB is to come
    wakeLocks,                \* os_WakeLock minus os_WakeUnlock calls of TwIf
    qState,                   \* TxnQ: run state of the WLAN function
    waiting,                  \* TxnQ: its queue
    slot,                     \* TxnQ: its single-step transaction
    onBus,                    \* TxnQ: the transaction on the bus
    finished,                 \* TxnQ: off the bus, TxnDone CB not yet called
    failed,                   \* transactions with TXN_PARAM_STATUS_ERROR
    pc,                       \* where the driver context is
    cur,                      \* the transaction it is sending
    inCb,                     \* it does so from a completion CB
    extPc,                    \* where the TxnDone context is
    scheduled,                \* context: the TWIF client is pending
    started,                  \* TWD_InitHw was called since the last restart
    fwAwake,                  \* FwEvent holds an awake request
    recovering,               \* TWD_Stop waits for fRecoveryCb
    old,                      \* history: what waited in TxnQ as that began
    restarts,                 \* number of restarts so far
    errReported               \* fErrCb was called since the last restart

twif  == <<hTxnDoneQueue, uAwakeReqCount, uPendingTxnCount, fwAwake>>
sm    == <<eState, wakeLocks, qState, slot>>
timer == <<bTxnDoneInRecovery, bPendRestartTimerRunning, expiryQueued>>
txnq  == <<waiting, onBus, finished, failed>>
ctx   == <<pc, cur, inCb, extPc, scheduled>>
life  == <<started, recovering, old, restarts, errReported>>
vars  == <<twif, sm, timer, txnq, ctx, life>>

\* After twIf_Init: twIf_Restart has left the queues running and the SM asleep.
Init ==
    /\ eState = "SLEEP" /\ wakeLocks = 0 /\ qState = "RUNNING" /\ slot = None
    /\ hTxnDoneQueue = <<>>
    /\ uAwakeReqCount = 0 /\ uPendingTxnCount = 0 /\ fwAwake = FALSE
    /\ bTxnDoneInRecovery = FALSE
    /\ bPendRestartTimerRunning = FALSE /\ expiryQueued = FALSE
    /\ waiting = <<>> /\ onBus = None /\ finished = {} /\ failed = {}
    /\ pc = "idle" /\ cur = None /\ inCb = FALSE
    /\ extPc = "idle" /\ scheduled = FALSE
    /\ started = FALSE /\ recovering = FALSE /\ old = {} /\ restarts = 0 /\ errReported = FALSE

Elements(s) == {s[i] : i \in DOMAIN s}

\* The transactions on their way between twIf_Transact and the completion CB.
Live == (Elements(waiting) \cup Elements(hTxnDoneQueue) \cup {onBus} \cup finished)
            \cap Txns

\* The upper layers run in the driver context: at its top from TWD_InitHw up
\* to TWD_Stop, and in a completion CB, which may come late: after a restart,
\* or while the driver waits for it to end (nothing in twIf_HandleTxnDone holds
\* the CBs back).
ClientRuns == pc = "cb" \/ (pc = "idle" /\ started)

\* "in case of callback on recovery after restart": not below zero.
DecrementGuarded(n) == IF n > 0 THEN n - 1 ELSE 0
Decrement(n) == (n + UINT - 1) % UINT

-----------------------------------------------------------------------------
(* twIf_HandleSmEvent, with twIf_WriteElpReg.                              *)

\* SLEEP event: AWAKE ==> SLEEP, stop TxnQ and write sleep to the ELP register.
SmSleep ==
    IF eState = "AWAKE"
    THEN /\ eState' = "SLEEP" /\ qState' = "STOPPED" /\ slot' = ElpSleep
         /\ wakeLocks' = wakeLocks - 1
    ELSE UNCHANGED sm

\* Mutant: the device is only woken when TxnQ is stopped.
MutSmStart ==
    IF eState = "SLEEP" /\ qState = "STOPPED" /\ slot = None
    THEN /\ eState' = "WAIT_HW" /\ slot' = ElpAwake
         /\ wakeLocks' = wakeLocks + 1
         /\ UNCHANGED qState
    ELSE UNCHANGED sm

\* START event: SLEEP ==> WAIT_HW, write wake-up to the ELP register.
SmStart ==
    IF eState = "SLEEP"
    THEN /\ eState' = "WAIT_HW" /\ slot' = ElpAwake
         /\ wakeLocks' = wakeLocks + 1
         /\ UNCHANGED qState
    ELSE UNCHANGED sm

\* HW_AVAILABLE event: ==> AWAKE, run TxnQ; from SLEEP also write wake-up.
SmHwAvailable ==
    CASE eState = "SLEEP" ->
            /\ eState' = "AWAKE" /\ qState' = "RUNNING" /\ slot' = ElpAwake
            /\ wakeLocks' = wakeLocks + 1
      [] eState = "WAIT_HW" ->
            /\ eState' = "AWAKE" /\ qState' = "RUNNING"
            /\ UNCHANGED <<slot, wakeLocks>>
      [] OTHER -> UNCHANGED sm

\* "If Awake not required and no pending transactions in TxnQ, issue Sleep".
SleepIfIdle ==
    IF uAwakeReqCount' = 0 /\ uPendingTxnCount' = 0 THEN SmSleep ELSE UNCHANGED sm

-----------------------------------------------------------------------------
(* The calls of the upper layers.                                          *)

\* twIf_Awake, by the command queue, the command builder or the debug tools.
Awake ==
    /\ ClientRuns
    /\ uAwakeReqCount < MaxAwake + (IF fwAwake THEN 1 ELSE 0)
    /\ uAwakeReqCount' = uAwakeReqCount + 1
    /\ UNCHANGED <<hTxnDoneQueue, uPendingTxnCount, fwAwake, sm, timer, txnq,
                   ctx, life>>

\* twIf_Sleep.
SleepCall ==
    /\ uAwakeReqCount' = DecrementGuarded(uAwakeReqCount)
    /\ UNCHANGED <<uPendingTxnCount, hTxnDoneQueue>>
    /\ SleepIfIdle

Sleep ==
    /\ ClientRuns
    /\ uAwakeReqCount > (IF fwAwake THEN 1 ELSE 0)
    /\ SleepCall
    /\ UNCHANGED <<fwAwake, timer, txnq, ctx, life>>

\* TWD_InitHw: twIf_Awake (until TWD_EnableExternalEvents), twIf_HwAvailable.
InitHw ==
    /\ pc = "idle" /\ ~recovering /\ ~started
    /\ started' = TRUE
    /\ uAwakeReqCount' = uAwakeReqCount + 1
    /\ SmHwAvailable
    /\ UNCHANGED <<hTxnDoneQueue, uPendingTxnCount, fwAwake, timer, txnq, ctx,
                   recovering, old, restarts, errReported>>

\* fwEvent_StateMachine in IDLE: twIf_Awake, then twIf_HwAvailable before it
\* reads the status.
ReadIntrInfo ==
    /\ ~fwAwake /\ fwAwake' = TRUE
    /\ uAwakeReqCount' = uAwakeReqCount + 1
    /\ SmHwAvailable
    /\ UNCHANGED <<hTxnDoneQueue, uPendingTxnCount, timer, txnq, ctx, life>>

\* Upon an interrupt: FwEvent's client is enabled between TWD_InitHw and TWD_Stop.
FwInterrupt == pc = "idle" /\ started /\ ReadIntrInfo

\* Upon the completion of a status read of before a restart, be the restart over
\* or not: fwEvent_Stop has put the state machine to IDLE.
StaleStatus == pc = "cb" /\ restarts > 0 /\ ReadIntrInfo

WakeUpInterrupt == eState = "WAIT_HW" /\ FwInterrupt

\* FwEvent when it has handled all events: twIf_Sleep.
FwSleep ==
    /\ ClientRuns /\ fwAwake
    /\ fwAwake' = FALSE
    /\ SleepCall
    /\ UNCHANGED <<timer, txnq, ctx, life>>

\* twIf_Transact up to the enqueue in txnQ_Transact.
Transact(t) ==
    /\ ClientRuns /\ t \notin Live
    /\ uPendingTxnCount' = (uPendingTxnCount + 1) % UINT
    /\ waiting' = Append(waiting, t)
    /\ failed' = failed \ {t}
    /\ pc' = "sent" /\ cur' = t /\ inCb' = (pc = "cb")
    /\ old' = old \ {t}
    /\ UNCHANGED <<hTxnDoneQueue, uAwakeReqCount, fwAwake, sm, timer, onBus,
                   finished, extPc, scheduled, started, recovering, restarts,
                   errReported>>

BackToCaller ==
    /\ pc' = IF inCb THEN "cb" ELSE "idle"
    /\ cur' = None /\ inCb' = FALSE
    /\ UNCHANGED <<extPc, scheduled>>

\* txnQ_Transact returned PENDING: Start event.
TransactPending ==
    /\ pc = "sent"
    /\ SmStart
    /\ BackToCaller
    /\ UNCHANGED <<twif, timer, txnq, life>>

\* txnQ_Transact returned COMPLETE, or ERROR (which is reported upwards).
TransactDone(error) ==
    /\ pc = "sent" /\ onBus = cur /\ extPc # "clear"
    /\ onBus' = None
    /\ uPendingTxnCount' = Decrement(uPendingTxnCount)
    /\ UNCHANGED <<hTxnDoneQueue, uAwakeReqCount, fwAwake>>
    /\ SleepIfIdle
    /\ errReported' = (errReported \/ error)
    /\ BackToCaller
    /\ UNCHANGED <<timer, waiting, finished, failed, started, recovering, old,
                   restarts>>

-----------------------------------------------------------------------------
(* The transaction queue and the bus.                                      *)

\* The scheduler sends a single step even when the function is stopped.
StartSingleStep ==
    /\ onBus = None /\ slot # None
    /\ onBus' = slot /\ slot' = None
    /\ UNCHANGED <<twif, eState, wakeLocks, qState, timer, waiting, finished,
                   failed, ctx, life>>

StartQueued ==
    /\ onBus = None /\ slot = None /\ qState = "RUNNING" /\ waiting # <<>>
    /\ onBus' = Head(waiting) /\ waiting' = Tail(waiting)
    /\ UNCHANGED <<twif, sm, timer, finished, failed, ctx, life>>

\* The bus completes a transaction, or fails it.
Finish(error) ==
    /\ onBus # None /\ extPc # "clear"
    /\ onBus' = None
    /\ finished' = finished \cup {onBus}
    /\ failed' = IF error THEN failed \cup ({onBus} \cap Txns) ELSE failed
    /\ UNCHANGED <<twif, sm, timer, waiting, ctx, life>>

-----------------------------------------------------------------------------
(* twIf_TxnDoneCb, in whichever context runs the scheduler.                *)

\* Mutant: a transaction without CB is not counted down.
MutTxnDoneCb(t) ==
    /\ extPc = "idle" /\ t \in finished
    /\ finished' = finished \ {t}
    /\ IF t \in WithCb
       THEN hTxnDoneQueue' = Append(hTxnDoneQueue, t)
       ELSE UNCHANGED hTxnDoneQueue
    /\ extPc' = IF t \in Elp THEN "idle" ELSE "schedule"
    /\ UNCHANGED <<uPendingTxnCount, uAwakeReqCount, fwAwake, sm, timer, waiting,
                   onBus, failed, pc, cur, inCb, scheduled, life>>

\* ELP: nothing to do.  With a CB: enqueue for the driver context.  Without:
\* count down here, also when the transaction failed.
TxnDoneCb(t) ==
    /\ extPc = "idle" /\ t \in finished
    /\ finished' = finished \ {t}
    /\ IF t \in WithCb
       THEN /\ hTxnDoneQueue' = Append(hTxnDoneQueue, t)
            /\ UNCHANGED uPendingTxnCount
       ELSE /\ uPendingTxnCount' = IF t \in Elp THEN uPendingTxnCount
                                   ELSE DecrementGuarded(uPendingTxnCount)
            /\ UNCHANGED hTxnDoneQueue
    /\ extPc' = IF t \in Elp THEN "idle" ELSE "schedule"
    /\ UNCHANGED <<uAwakeReqCount, fwAwake, sm, timer, waiting, onBus, failed,
                   pc, cur, inCb, scheduled, life>>

ClearQueues == waiting' = <<>> /\ slot' = None /\ qState' = "RUNNING"

\* txnQ_TxnDoneCb finds the function in RESTART.
TxnDoneTest ==
    /\ extPc = "idle" /\ qState = "RESTART" /\ onBus # None
    /\ extPc' = "clear"
    /\ UNCHANGED <<twif, sm, timer, txnq, pc, cur, inCb, scheduled, life>>

\* Mutant: the queues are not cleared before the restart is reported.
MutTxnDoneRecovery ==
    /\ extPc = "clear"
    /\ onBus' = None
    /\ bTxnDoneInRecovery' = TRUE
    /\ extPc' = "schedule"
    /\ UNCHANGED <<twif, sm, bPendRestartTimerRunning, expiryQueued, waiting,
                   finished, failed, pc, cur, inCb, scheduled, life>>

\* It clears the queues, and calls back with TXN_PARAM_STATUS_RECOVERY: leave
\* word for the driver context.
TxnDoneRecovery ==
    /\ extPc = "clear"
    /\ onBus' = None
    /\ ClearQueues
    /\ bTxnDoneInRecovery' = TRUE
    /\ extPc' = "schedule"
    /\ UNCHANGED <<twif, eState, wakeLocks, bPendRestartTimerRunning,
                   expiryQueued, finished, failed, pc, cur, inCb, scheduled, life>>

RequestSchedule ==
    /\ extPc = "schedule"
    /\ extPc' = "idle" /\ scheduled' = TRUE
    /\ UNCHANGED <<twif, sm, timer, txnq, pc, cur, inCb, life>>

-----------------------------------------------------------------------------
(* twIf_HandleTxnDone, in the driver context.                              *)

\* In case of recovery: stop the guard timer, call the recovery callback.
\* An expiry that is queued already stays so.
HandleRecovery ==
    /\ pc = "idle" /\ scheduled /\ bTxnDoneInRecovery
    /\ scheduled' = FALSE
    /\ bTxnDoneInRecovery' = FALSE
    /\ bPendRestartTimerRunning' = FALSE
    /\ recovering' = FALSE
    /\ UNCHANGED <<twif, sm, expiryQueued, txnq, pc, cur, inCb, extPc, started,
                   old, restarts, errReported>>

HandleTxnDone ==
    /\ pc = "idle" /\ scheduled /\ ~bTxnDoneInRecovery
    /\ scheduled' = FALSE
    /\ pc' = "loop"
    /\ UNCHANGED <<twif, sm, timer, txnq, cur, inCb, extPc, life>>

\* Dequeue and count down; "in error do not continue", else call the CB.
HandleNext ==
    /\ pc = "loop" /\ hTxnDoneQueue # <<>>
    /\ hTxnDoneQueue' = Tail(hTxnDoneQueue)
    /\ uPendingTxnCount' = DecrementGuarded(uPendingTxnCount)
    /\ IF Head(hTxnDoneQueue) \in failed
       THEN pc' = "idle" /\ errReported' = TRUE
       ELSE pc' = "cb" /\ UNCHANGED errReported
    /\ UNCHANGED <<uAwakeReqCount, fwAwake, sm, timer, txnq, cur, inCb, extPc,
                   scheduled, started, recovering, old, restarts>>

CbReturn ==
    /\ pc = "cb"
    /\ pc' = "loop"
    /\ UNCHANGED twif
    /\ SleepIfIdle
    /\ UNCHANGED <<timer, txnq, cur, inCb, extPc, scheduled, life>>

HandleEnd ==
    /\ pc = "loop" /\ hTxnDoneQueue = <<>>
    /\ pc' = "idle"
    /\ UNCHANGED twif
    /\ SleepIfIdle
    /\ UNCHANGED <<timer, txnq, cur, inCb, extPc, scheduled, life>>

-----------------------------------------------------------------------------
(* twIf_Restart (TWD_Stop).                                                *)

\* Mutant: the wake lock is not compensated for.
MutResetTwIf ==
    /\ eState' = "SLEEP" /\ UNCHANGED wakeLocks
    /\ uAwakeReqCount' = 0 /\ uPendingTxnCount' = 0 /\ fwAwake' = FALSE
    /\ hTxnDoneQueue' = <<>>

\* The device is taken to be asleep, the counters and the done queue are
\* reset.  "Compensate for missing unlock due to recovery".
ResetTwIf ==
    /\ eState' = "SLEEP"
    /\ wakeLocks' = IF eState # "SLEEP" THEN wakeLocks - 1 ELSE wakeLocks
    /\ uAwakeReqCount' = 0 /\ uPendingTxnCount' = 0 /\ fwAwake' = FALSE
    /\ hTxnDoneQueue' = <<>>

\* At the top of the driver context, or in a completion CB (a handler of FwEvent).
\* Each restart is begun in its own pass of the driver task: the pass in between
\* has served the completion that the earlier restart was waiting for.
Restarting ==
    /\ pc \in {"idle", "cb"} /\ ~recovering /\ restarts < MaxRestarts
    /\ restarts > 0 => ~bTxnDoneInRecovery
    /\ restarts' = restarts + 1
    /\ started' = FALSE /\ errReported' = FALSE
    /\ ResetTwIf

\* No transaction in progress: the queues are cleared at once.
RestartComplete ==
    /\ Restarting /\ onBus = None
    /\ ClearQueues
    /\ UNCHANGED <<timer, onBus, finished, failed, ctx, recovering, old>>

\* Otherwise wait for it.  While TxnQ processes a completion it still takes
\* the transaction to be in progress.
RestartPending ==
    /\ Restarting /\ (onBus # None \/ finished # {})
    /\ qState' = "RESTART"
    /\ bPendRestartTimerRunning' = TRUE
    /\ recovering' = TRUE /\ old' = Elements(waiting)
    /\ UNCHANGED <<slot, bTxnDoneInRecovery, expiryQueued, txnq, ctx>>

\* The guard timer expires; twIf_PendRestratTimeout is to be called.
TimerExpiry ==
    /\ bPendRestartTimerRunning /\ ~expiryQueued
    /\ expiryQueued' = TRUE
    /\ UNCHANGED <<twif, sm, bTxnDoneInRecovery, bPendRestartTimerRunning, txnq,
                   ctx, life>>

PendRestartTimeout ==
    /\ pc = "idle" /\ expiryQueued
    /\ expiryQueued' = FALSE
    /\ bPendRestartTimerRunning' = FALSE
    /\ ClearQueues
    /\ recovering' = FALSE
    /\ UNCHANGED <<twif, eState, wakeLocks, bTxnDoneInRecovery, onBus, finished,
                   failed, ctx, started, old, restarts, errReported>>

-----------------------------------------------------------------------------
Client ==
    \/ Awake \/ Sleep \/ InitHw \/ FwInterrupt \/ StaleStatus \/ FwSleep
    \/ \E t \in Txns : Transact(t)

Driver ==
    \/ TransactPending \/ \E e \in BOOLEAN : TransactDone(e)
    \/ HandleRecovery \/ HandleTxnDone \/ HandleNext \/ CbReturn \/ HandleEnd
    \/ PendRestartTimeout

Restart == RestartComplete \/ RestartPending

TxnQ ==
    \/ StartSingleStep \/ StartQueued \/ \E e \in BOOLEAN : Finish(e)
    \/ TxnDoneTest \/ TxnDoneRecovery \/ RequestSchedule
    \/ \E t \in Txns \cup Elp : TxnDoneCb(t)

Next == Client \/ Driver \/ Restart \/ TxnQ \/ TimerExpiry

Spec == Init /\ [][Next]_vars

\* The driver context goes on with what it has begun and gets to what is
\* scheduled, the queue and the bus work, and a device that was woken raises an
\* interrupt.  A completion CB returns, and the driver context is at its top again
\* and again: hence the strong fairness of what waits for that.  TxnQ calls back
\* in the order of completion, so each transaction in its turn.  Nobody has to
\* call.
Fairness ==
    /\ WF_vars(TransactPending) /\ WF_vars(HandleNext) /\ WF_vars(HandleEnd)
    /\ SF_vars(CbReturn) /\ SF_vars(HandleTxnDone) /\ SF_vars(WakeUpInterrupt)
    /\ WF_vars(StartSingleStep) /\ WF_vars(StartQueued)
    /\ WF_vars(\E e \in BOOLEAN : Finish(e))
    /\ WF_vars(RequestSchedule)
    /\ \A t \in Txns \cup Elp : SF_vars(TxnDoneCb(t))

FairSpec == Spec /\ Fairness

-----------------------------------------------------------------------------
(* Properties.                                                             *)

AllTxns == Txns \cup Elp

\* Type invariant.
TypeOK ==
    /\ eState \in {"AWAKE", "SLEEP", "WAIT_HW"}
    /\ hTxnDoneQueue \in Seq(Txns)
    /\ uAwakeReqCount \in 0 .. UINT - 1 /\ uPendingTxnCount \in 0 .. UINT - 1
    /\ bTxnDoneInRecovery \in BOOLEAN
    /\ bPendRestartTimerRunning \in BOOLEAN /\ expiryQueued \in BOOLEAN
    /\ wakeLocks \in Int
    /\ qState \in {"RUNNING", "STOPPED", "RESTART"}
    /\ waiting \in Seq(Txns) /\ slot \in Elp \cup {None}
    /\ onBus \in AllTxns \cup {None}
    /\ finished \subseteq AllTxns /\ failed \subseteq Txns
    /\ pc \in {"idle", "sent", "loop", "cb"} /\ cur \in Txns \cup {None}
    /\ inCb \in BOOLEAN /\ extPc \in {"idle", "clear", "schedule"} /\ scheduled \in BOOLEAN
    /\ started \in BOOLEAN /\ fwAwake \in BOOLEAN /\ recovering \in BOOLEAN
    /\ old \subseteq Txns /\ restarts \in Nat /\ errReported \in BOOLEAN

\* uPendingTxnCount, which three contexts change at different points of a
\* transaction's life (return status, CB, TxnDone queue), is the number of
\* transactions on their way: none is counted twice or forgotten.
CountIsPending == uPendingTxnCount = Cardinality(Live)

\* "SM_EVENT_START: need to wake up the device to handle transactions", and
\* twIf_Sleep "if the TxnQ is empty (no WLAN transactions)": unless twIf_Transact
\* is still at work or a restart is to clear the queue, no transaction waits in
\* the queue of a sleeping device.
AwakeForPending ==
    pc # "sent" /\ ~recovering /\ waiting # <<>> => eState # "SLEEP"

\* Over all states, restarts included, TwIf holds one wake lock exactly while
\* the device is not asleep: neither leaked nor released twice.
WakeLockBalanced == wakeLocks = IF eState = "SLEEP" THEN 0 ELSE 1

\* When fRecoveryCb reports a restart, be it from TxnDone or from the guard
\* timer, no transaction that waited as the restart began is left in the queue,
\* and the WLAN function not in RESTART; although callbacks of old completions
\* transact, and run the queue over RESTART, all the while.
RestartedClean ==
    [][recovering /\ ~recovering' =>
         Elements(waiting') \cap old = {} /\ qState' # "RESTART"]_vars

\* A transaction is completed, unless a bus error or a restart comes first.
TxnCompletes ==
    \A t \in Txns : t \in Live /\ restarts = 0
                        ~> t \notin Live \/ errReported \/ restarts > 0
=============================================================================
