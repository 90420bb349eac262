------------------------------ MODULE DrvMain ------------------------------
(***************************************************************************)
(* The driver's life cycle (stad/src/Ctrl_Interface/DrvMain.c): the state  *)
(* machine that starts, stops and recovers the driver, its one-place event *)
(* store, the START and STOP actions that user threads insert and wait     *)
(* for, and the health monitor (stad/src/Sta_Management/healthMonitor.c)   *)
(* that raises recoveries through a timer (utils/timer.c).                 *)
(*                                                                         *)
(* One step is one invocation of drvMain_Sm with all it calls; what it     *)
(* starts in the TWD or the SME is completed in the call (and its event    *)
(* stored) or later, by a callback in the driver context.                  *)
(***************************************************************************)
EXTENDS Naturals, Sequences, FiniteSets

CONSTANTS
    Actions,            \* the action objects, each used once
    StartActions,       \* those of type ACTION_TYPE_START; the rest are STOP
    None,               \* NULL
    MAX_NUM_OF_RECOVERY_TRIGGERS,
    Chunks,             \* parts in which the firmware is downloaded
    MaxFailures         \* bound: failures raised by the health monitor

ASSUME ActionsAssumption == StartActions \subseteq Actions /\ None \notin Actions
ASSUME BoundsAssumption ==
    /\ MAX_NUM_OF_RECOVERY_TRIGGERS \in Nat /\ MaxFailures \in Nat
    /\ Chunks \in Nat \ {0}

TypeOf(a) == IF a \in StartActions THEN "START" ELSE "STOP"

VARIABLES
    eSmState,
    ePendingEvent,
    uPendingEventsCount,    \* between two invocations of drvMain_Sm
    bRecovery,
    uNumOfRecoveryAttempts,
    hActionQueue,
    pCurrAction,
    eLastAction,
    actionPending,          \* context: the ACTION client is pending
    actionEnabled,          \* context: it is enabled
    caller,                 \* the action a user thread waits for
    signalled,              \* actions whose signal object was set
    dangling,               \* those set after they were freed
    freed,                  \* actions (and signals) that were freed
    inserted,               \* actions that were ever inserted
    timedOut,               \* history: those whose caller waited for too long
    fault,                  \* history: something failed or was asked of a driver
                            \* that was not up
    powered,                \* the device is powered
    inputs,                 \* "irq", "cmd": enabled external inputs
    twd,                    \* the TWD operation to be completed later
    smeStopping,            \* the SME will report DISCONNECTED later
    chunk,                  \* parts of the firmware still to be read
    eDriverState,           \* OAL: what wlanDrvIf_UpdateDriverState was told
    bOperState,             \* timer: the driver is operational
    failureEvent,           \* health monitor: a failure is being handled
    hFailTimer,             \* its timer: off, running, or expired into a queue
    failOper,               \* bOperStateWhenStarted of that timer
    inRecovery,             \* drvMain_Recovery is on the stack
    failures                \* number of failures raised

sm     == <<eSmState, ePendingEvent, uPendingEventsCount>>
rec    == <<bRecovery, uNumOfRecoveryAttempts>>
queue  == <<hActionQueue, pCurrAction, eLastAction, actionPending>>
user   == <<caller, freed, inserted, timedOut>>
signal == <<signalled, dangling>>
below  == <<powered, inputs, twd, smeStopping, chunk>>
health == <<failureEvent, hFailTimer, failOper, inRecovery, failures>>
vars   == <<sm, rec, queue, actionEnabled, user, signal, below, eDriverState,
            bOperState, health, fault>>

Init ==
    /\ eSmState = "IDLE" /\ ePendingEvent = "NONE" /\ uPendingEventsCount = 0
    /\ bRecovery = FALSE /\ uNumOfRecoveryAttempts = 0
    /\ hActionQueue = <<>> /\ pCurrAction = None /\ eLastAction = "NONE"
    /\ actionPending = FALSE /\ actionEnabled = TRUE
    /\ caller = None /\ signalled = {} /\ dangling = {} /\ freed = {} /\ inserted = {}
    /\ timedOut = {} /\ fault = FALSE
    /\ powered = FALSE /\ inputs = {} /\ twd = "none" /\ smeStopping = FALSE
    /\ chunk = 0
    /\ eDriverState = "IDLE" /\ bOperState = FALSE
    /\ failureEvent = FALSE /\ hFailTimer = "off" /\ failOper = FALSE
    /\ inRecovery = FALSE /\ failures = 0

-----------------------------------------------------------------------------
(* drvMain_SmEvent.                                                        *)

\* The driver context is at its top.
Quiet == uPendingEventsCount = 0

\* An event that finds the SM free.
SmEvent(e) ==
    /\ Quiet
    /\ uPendingEventsCount' = 1 /\ ePendingEvent' = e

\* drvMain_Sm returns after n callbacks in its own context, which stored the
\* event e.  When nothing is left drvMain_Recovery, if it was the caller,
\* returns to the health monitor.
Stored(n, e) ==
    /\ uPendingEventsCount' = uPendingEventsCount - 1 + n
    /\ ePendingEvent' = IF n = 0 THEN ePendingEvent ELSE e
    /\ IF inRecovery /\ uPendingEventsCount' = 0
       THEN inRecovery' = FALSE /\ failureEvent' = FALSE
       ELSE UNCHANGED <<inRecovery, failureEvent>>
    /\ UNCHANGED <<failOper, failures>>

Handles(s, e) == ~Quiet /\ eSmState = s /\ ePendingEvent = e

\* Mutant: the command handler is not disabled.
MutStopActivities(twdAfter) ==
    /\ twdAfter = "stop" => twd # "none" \/ inputs # {}
    /\ inputs' = inputs \ {"irq"} /\ twd' = twdAfter

\* drvMain_StopActivities: TWD_Stop ends what the TWD was doing, at once or when
\* the transaction on the bus, if there is one, is completed.
StopActivities(twdAfter) ==
    /\ twdAfter = "stop" => twd # "none" \/ inputs # {}
    /\ inputs' = {} /\ twd' = twdAfter

\* The same for state s, where drvMain_TwdStopCb passes STOP_COMPLETE on.
StopThen(s) ==
    /\ eSmState' = s
    /\ \/ StopActivities("none") /\ Stored(1, "STOP_COMPLETE")
       \/ StopActivities("stop") /\ Stored(0, "NONE")

\* "Handle failures (status = NOK) if not handled yet".  STOP_COMPLETE is not
\* passed on in STOPPING_ON_FAIL.  n: FAILURE events stored before.
Fail(n) ==
    /\ eSmState' = "STOPPING_ON_FAIL"
    /\ eDriverState' = "FAILED"
    /\ \E t \in {"none", "stop"} : StopActivities(t)
    /\ Stored(n, "FAILURE")

\* os_SignalObjectSet.
SignalObjectSet(a) ==
    IF a \in freed THEN dangling' = dangling \cup {a} /\ UNCHANGED signalled
    ELSE signalled' = signalled \cup {a} /\ UNCHANGED dangling

\* Mutant: the application is unblocked also during a recovery.
MutUnblock == SignalObjectSet(pCurrAction)

\* The current action is answered, unless a recovery is what has ended.
Unblock == IF bRecovery THEN UNCHANGED signal ELSE SignalObjectSet(pCurrAction)

\* wlanDrvIf_GetFile completes in the same context.
GetFile(s, e) == eSmState' = s /\ Stored(1, e)

-----------------------------------------------------------------------------
(* drvMain_Sm: the init sequence.                                          *)

\* Mutant: further actions are not disabled.
MutSmIdle ==
    /\ Handles("IDLE", "START")
    /\ GetFile("WAIT_INI_FILE", "INI_FILE_READY")
    /\ UNCHANGED <<rec, queue, actionEnabled, user, signal, below, eDriverState,
                   bOperState, hFailTimer, fault>>

SmIdle ==
    /\ Handles("IDLE", "START")
    /\ actionEnabled' = FALSE
    /\ GetFile("WAIT_INI_FILE", "INI_FILE_READY")
    /\ UNCHANGED <<rec, queue, user, signal, below, eDriverState, bOperState,
                   hFailTimer, fault>>

SmWaitIniFile ==
    /\ Handles("WAIT_INI_FILE", "INI_FILE_READY")
    /\ powered' = TRUE
    /\ GetFile("WAIT_NVS_FILE", "NVS_FILE_READY")
    /\ UNCHANGED <<rec, queue, actionEnabled, user, signal, inputs, twd,
                   smeStopping, chunk, eDriverState, bOperState, hFailTimer,
                   fault>>

\* The bus is connected, then TWD_InitHw is called; it reports a failure by
\* InitFailCb, not by its status.  At another event only the bus is connected.
SmWaitNvsFile ==
    /\ Handles("WAIT_NVS_FILE", ePendingEvent)
    /\ IF ePendingEvent = "NVS_FILE_READY"
       THEN /\ eSmState' = "HW_INIT"
            /\ \/ twd' = "none" /\ Stored(1, "HW_INIT_COMPLETE") /\ UNCHANGED fault
               \/ twd' = "none" /\ Stored(1, "FAILURE") /\ fault' = TRUE
               \/ twd' = "hwInit" /\ Stored(0, "NONE") /\ UNCHANGED fault
       ELSE Stored(0, "NONE") /\ UNCHANGED <<eSmState, twd, fault>>
    /\ UNCHANGED <<rec, queue, actionEnabled, user, signal, powered, inputs,
                   smeStopping, chunk, eDriverState, bOperState, hFailTimer>>

\* txnQ_ConnectBus fails for the last time.
SmConnectFails ==
    /\ Handles("WAIT_NVS_FILE", ePendingEvent)
    /\ Fail(0) /\ fault' = TRUE
    /\ UNCHANGED <<rec, queue, actionEnabled, user, signal, powered,
                   smeStopping, chunk, bOperState, hFailTimer>>

\* The next part of the firmware; the image or its description may be bad.
GetFwFile(n) ==
    /\ chunk' = n
    /\ \/ /\ GetFile("DOWNLOAD_FW_FILE", "FW_FILE_READY")
          /\ UNCHANGED <<inputs, twd, eDriverState, fault>>
       \/ Fail(0) /\ fault' = TRUE

SmHwInit ==
    /\ Handles("HW_INIT", "HW_INIT_COMPLETE")
    /\ GetFwFile(Chunks)
    /\ UNCHANGED <<rec, queue, actionEnabled, user, signal, powered,
                   smeStopping, bOperState, hFailTimer>>

\* hwInit_LoadFw reports a failure by InitFailCb, twice if it comes from the
\* download, and by its status.
SmDownloadFwFile ==
    /\ Handles("DOWNLOAD_FW_FILE", "FW_FILE_READY")
    /\ \/ /\ eSmState' = IF chunk = 1 THEN "FW_INIT" ELSE "WAIT_FW_FILE"
          /\ \/ twd' = "none" /\ Stored(1, "FW_INIT_COMPLETE")
             \/ twd' = "fwInit" /\ Stored(0, "NONE")
          /\ UNCHANGED <<inputs, eDriverState, fault>>
       \/ (\E n \in {1, 2} : Fail(n)) /\ fault' = TRUE
    /\ UNCHANGED <<rec, queue, actionEnabled, user, signal, powered,
                   smeStopping, chunk, bOperState, hFailTimer>>

SmWaitFwFile ==
    /\ Handles("WAIT_FW_FILE", "FW_INIT_COMPLETE")
    /\ GetFwFile(chunk - 1)
    /\ UNCHANGED <<rec, queue, actionEnabled, user, signal, powered,
                   smeStopping, bOperState, hFailTimer>>

\* The START action is answered and the firmware is configured.
SmFwInit ==
    /\ Handles("FW_INIT", "FW_INIT_COMPLETE")
    /\ eSmState' = "FW_CONFIG"
    /\ eDriverState' = IF bRecovery THEN eDriverState ELSE "RUNNING"
    /\ Unblock
    /\ inputs' = {"irq"}
    /\ \/ twd' = "none" /\ Stored(1, "FW_CONFIG_COMPLETE")
       \/ twd' = "config" /\ Stored(0, "NONE")
    /\ UNCHANGED <<rec, queue, actionEnabled, user, powered, smeStopping, chunk,
                   bOperState, hFailTimer, fault>>

\* After a START sme_Start marks the SME as running: if it is still stopping for
\* a STOP of before it no longer reports the end.  tmr_UpdateDriverState(TRUE)
\* empties the init queue.
SmFwConfig ==
    /\ Handles("FW_CONFIG", "FW_CONFIG_COMPLETE")
    /\ eSmState' = "OPERATIONAL"
    /\ bRecovery' = FALSE
    /\ uNumOfRecoveryAttempts' = IF bRecovery THEN 0 ELSE uNumOfRecoveryAttempts
    /\ bOperState' = TRUE
    /\ hFailTimer' = IF hFailTimer = "initQueue" THEN "off" ELSE hFailTimer
    /\ inputs' = {"irq", "cmd"}
    /\ actionEnabled' = TRUE
    /\ smeStopping' = (smeStopping /\ bRecovery)
    /\ Stored(0, "NONE")
    /\ UNCHANGED <<queue, user, signal, powered, twd, chunk, eDriverState, fault>>

-----------------------------------------------------------------------------
(* drvMain_Sm: recovery, stop and failure.                                 *)

\* Mutant: the timer module is not told.
MutLeaveOperational == actionEnabled' = FALSE /\ UNCHANGED bOperState

\* Whatever the event, actions are disabled and the timer module is told.
LeaveOperational == actionEnabled' = FALSE /\ bOperState' = FALSE

SmStop ==
    /\ Handles("OPERATIONAL", "STOP")
    /\ LeaveOperational
    /\ eSmState' = "DISCONNECTING" /\ eDriverState' = "STOPPING"
    /\ \/ UNCHANGED smeStopping /\ Stored(1, "DISCONNECTED")
       \/ smeStopping' = TRUE /\ Stored(0, "NONE")
    /\ UNCHANGED <<rec, queue, user, signal, powered, inputs, twd, chunk,
                   hFailTimer, fault>>

SmRecovery ==
    /\ Handles("OPERATIONAL", ePendingEvent) /\ ePendingEvent # "STOP"
    /\ LeaveOperational
    /\ IF ePendingEvent = "RECOVERY"
       THEN StopThen("STOPPING") /\ UNCHANGED eDriverState
       ELSE Fail(0)
    /\ UNCHANGED <<rec, queue, user, signal, powered, smeStopping, chunk,
                   hFailTimer, fault>>

\* Mutant: STOP_COMPLETE is not awaited.
MutSmDisconnecting ==
    /\ Handles("DISCONNECTING", "DISCONNECTED")
    /\ eSmState' = "STOPPING"
    /\ \E t \in {"none", "stop"} : StopActivities(t)
    /\ Stored(1, "STOP_COMPLETE")
    /\ UNCHANGED <<rec, queue, actionEnabled, user, signal, powered,
                   smeStopping, chunk, eDriverState, bOperState, hFailTimer,
                   fault>>

SmDisconnecting ==
    /\ Handles("DISCONNECTING", "DISCONNECTED")
    /\ StopThen("STOPPING")
    /\ UNCHANGED <<rec, queue, actionEnabled, user, signal, powered,
                   smeStopping, chunk, eDriverState, bOperState, hFailTimer,
                   fault>>

\* For a recovery the device is switched off and on and the init starts over.
SmStoppingRecovery ==
    /\ Handles("STOPPING", "STOP_COMPLETE") /\ bRecovery
    /\ powered' = TRUE
    /\ GetFile("WAIT_NVS_FILE", "NVS_FILE_READY")
    /\ UNCHANGED <<rec, queue, actionEnabled, user, signal, inputs, twd,
                   smeStopping, chunk, eDriverState, bOperState, hFailTimer,
                   fault>>

\* For STOP the queued timer expiries are cleared, the action is answered.
SmStopping ==
    /\ Handles("STOPPING", "STOP_COMPLETE") /\ ~bRecovery
    /\ eSmState' = "STOPPED" /\ eDriverState' = "STOPPED"
    /\ powered' = FALSE
    /\ hFailTimer' = IF hFailTimer = "operQueue" THEN "off" ELSE hFailTimer
    /\ actionEnabled' = TRUE
    /\ Unblock
    /\ Stored(0, "NONE")
    /\ UNCHANGED <<rec, queue, user, inputs, twd, smeStopping, chunk, bOperState,
                   fault>>

SmStopped ==
    /\ Handles("STOPPED", "START")
    /\ actionEnabled' = FALSE
    /\ powered' = TRUE
    /\ GetFile("WAIT_NVS_FILE", "NVS_FILE_READY")
    /\ UNCHANGED <<rec, queue, user, signal, inputs, twd, smeStopping, chunk,
                   eDriverState, bOperState, hFailTimer, fault>>

SmStoppedOther ==
    /\ Handles("STOPPED", ePendingEvent) /\ ePendingEvent # "START"
    /\ actionEnabled' = FALSE
    /\ Fail(0)
    /\ UNCHANGED <<rec, queue, user, signal, powered, smeStopping, chunk,
                   bOperState, hFailTimer, fault>>

\* Any event: off and FAILED, or, for a recovery, stop and try again.
SmStoppingOnFail ==
    /\ Handles("STOPPING_ON_FAIL", ePendingEvent)
    /\ powered' = FALSE
    /\ Unblock
    /\ bRecovery' = FALSE
    /\ IF bRecovery /\ uNumOfRecoveryAttempts < MAX_NUM_OF_RECOVERY_TRIGGERS
       THEN StopThen("STOPPING")
       ELSE /\ eSmState' = "FAILED" /\ Stored(0, "NONE")
            /\ UNCHANGED <<inputs, twd>>
    /\ UNCHANGED <<uNumOfRecoveryAttempts, queue, actionEnabled, user,
                   smeStopping, chunk, eDriverState, bOperState, hFailTimer,
                   fault>>

SmFailed ==
    /\ Handles("FAILED", ePendingEvent)
    /\ Stored(0, "NONE")
    /\ UNCHANGED <<eSmState, rec, queue, actionEnabled, user, signal, below,
                   eDriverState, bOperState, hFailTimer, fault>>

\* The events the other states handle; any other one is a failure.
Expected ==
    [IDLE |-> "START", WAIT_INI_FILE |-> "INI_FILE_READY",
     HW_INIT |-> "HW_INIT_COMPLETE", DOWNLOAD_FW_FILE |-> "FW_FILE_READY",
     WAIT_FW_FILE |-> "FW_INIT_COMPLETE", FW_INIT |-> "FW_INIT_COMPLETE",
     FW_CONFIG |-> "FW_CONFIG_COMPLETE", DISCONNECTING |-> "DISCONNECTED",
     STOPPING |-> "STOP_COMPLETE"]

SmUnexpected ==
    /\ ~Quiet /\ eSmState \in DOMAIN Expected
    /\ ePendingEvent # Expected[eSmState]
    /\ Fail(0)
    /\ UNCHANGED <<rec, queue, actionEnabled, user, signal, powered,
                   smeStopping, chunk, bOperState, hFailTimer, fault>>

-----------------------------------------------------------------------------
(* The callbacks from other modules, in the driver context.                *)

Complete(op, e) ==
    /\ twd = op /\ twd' = "none"
    /\ SmEvent(e)
    /\ fault' = (fault \/ e = "FAILURE")
    /\ UNCHANGED <<eSmState, rec, queue, actionEnabled, user, signal, powered,
                   inputs, smeStopping, chunk, eDriverState, bOperState, health>>

InitHwCb   == Complete("hwInit", "HW_INIT_COMPLETE")
InitFwCb   == Complete("fwInit", "FW_INIT_COMPLETE")
ConfigFwCb == Complete("config", "FW_CONFIG_COMPLETE")
InitFailCb == \E op \in {"hwInit", "fwInit"} : Complete(op, "FAILURE")

\* Mutant: the state is set only after drvMain_StopActivities has returned.
MutTwdStopCb == eSmState = "DISCONNECTING" /\ Complete("stop", "STOP_COMPLETE")

\* drvMain_TwdStopCb.
TwdStopCb == eSmState = "STOPPING" /\ Complete("stop", "STOP_COMPLETE")

TwdStopCbIgnored ==
    /\ Quiet /\ eSmState # "STOPPING" /\ twd = "stop"
    /\ twd' = "none"
    /\ UNCHANGED <<sm, rec, queue, actionEnabled, user, signal, powered,
                   inputs, smeStopping, chunk, eDriverState, bOperState, health,
                   fault>>

SmeStop ==
    /\ smeStopping /\ smeStopping' = FALSE
    /\ SmEvent("DISCONNECTED")
    /\ UNCHANGED <<eSmState, rec, queue, actionEnabled, user, signal, powered,
                   inputs, twd, chunk, eDriverState, bOperState, health, fault>>

-----------------------------------------------------------------------------
(* Actions.                                                                *)

\* drvMain_InsertAction, called by one user thread at a time (they hold the
\* network configuration lock of the kernel); a STOP also before the first START.
InsertAction(a) ==
    /\ caller = None /\ a \notin inserted /\ eDriverState # "FAILED"
    /\ caller' = a /\ inserted' = inserted \cup {a}
    /\ hActionQueue' = Append(hActionQueue, a) /\ actionPending' = TRUE
    /\ UNCHANGED <<sm, rec, pCurrAction, eLastAction, actionEnabled, freed,
                   timedOut, signal, below, eDriverState, bOperState, health, fault>>

\* os_SignalObjectWait returns, also after 10 seconds; signal and action are
\* freed.
WaitReturns ==
    /\ caller # None
    /\ caller' = None /\ freed' = freed \cup {caller}
    /\ timedOut' = IF caller \in signalled THEN timedOut ELSE timedOut \cup {caller}
    /\ UNCHANGED <<sm, rec, queue, actionEnabled, inserted, signal, below,
                   eDriverState, bOperState, health, fault>>

Dequeue ==
    /\ Quiet /\ actionPending /\ actionEnabled
    /\ actionPending' = FALSE
    /\ hActionQueue # <<>>
    /\ hActionQueue' = Tail(hActionQueue)

\* Mutant: the signal object of the ignored action is not set.
MutIgnoreAction ==
    /\ Dequeue
    /\ TypeOf(Head(hActionQueue)) = eLastAction
    /\ UNCHANGED <<sm, rec, pCurrAction, eLastAction, actionEnabled, user, signal,
                   below, eDriverState, bOperState, health, fault>>

\* drvMain_InvokeAction: an action that equals the last one is only answered.
IgnoreAction ==
    /\ Dequeue
    /\ TypeOf(Head(hActionQueue)) = eLastAction
    /\ SignalObjectSet(Head(hActionQueue))
    /\ UNCHANGED <<sm, rec, pCurrAction, eLastAction, actionEnabled, user, below,
                   eDriverState, bOperState, health, fault>>

InvokeAction ==
    /\ Dequeue
    /\ TypeOf(Head(hActionQueue)) # eLastAction
    /\ eLastAction' = TypeOf(Head(hActionQueue))
    /\ pCurrAction' = Head(hActionQueue)
    /\ SmEvent(eLastAction')
    /\ fault' = (fault \/ (eSmState = "IDLE" /\ eLastAction' = "STOP"))
    /\ UNCHANGED <<eSmState, rec, actionEnabled, user, signal, below,
                   eDriverState, bOperState, health>>

-----------------------------------------------------------------------------
(* The health monitor and its timer.                                       *)

\* healthMonitor_sendFailureEvent, from any module while the device is on:
\* "start timer with minimum expiry for recovery will start from the top of
\* the stack".
SendFailureEvent ==
    /\ powered /\ failures < MaxFailures
    /\ ~failureEvent
    /\ fault' = (fault \/ eSmState # "OPERATIONAL")
    /\ failureEvent' = TRUE /\ failures' = failures + 1
    /\ hFailTimer' = "running" /\ failOper' = bOperState
    /\ UNCHANGED <<sm, rec, queue, actionEnabled, user, signal, below,
                   eDriverState, bOperState, inRecovery>>

\* Mutant: the expiry is filed by the driver state of now.
MutGetExpiry ==
    /\ hFailTimer = "running"
    /\ hFailTimer' = IF bOperState THEN "operQueue" ELSE "initQueue"
    /\ UNCHANGED <<sm, rec, queue, actionEnabled, user, signal, below,
                   eDriverState, bOperState, failureEvent, failOper, inRecovery,
                   failures, fault>>

\* tmr_GetExpiry.
GetExpiry ==
    /\ hFailTimer = "running"
    /\ hFailTimer' = IF failOper THEN "operQueue"
                     ELSE IF bOperState THEN "off" ELSE "initQueue"
    /\ UNCHANGED <<sm, rec, queue, actionEnabled, user, signal, below,
                   eDriverState, bOperState, failureEvent, failOper, inRecovery,
                   failures, fault>>

\* tmr_HandleExpiry, healthMonitor_proccessFailureEvent, drvMain_Recovery.
HandleExpiry ==
    /\ hFailTimer = IF bOperState THEN "operQueue" ELSE "initQueue"
    /\ hFailTimer' = "off"
    /\ uNumOfRecoveryAttempts' = uNumOfRecoveryAttempts + 1
    /\ bRecovery' = TRUE
    /\ inRecovery' = TRUE
    /\ SmEvent("RECOVERY")
    /\ UNCHANGED <<eSmState, queue, actionEnabled, user, signal, below,
                   eDriverState, bOperState, failureEvent, failOper, failures,
                   fault>>

-----------------------------------------------------------------------------
Sm ==
    \/ SmIdle \/ SmWaitIniFile \/ SmWaitNvsFile \/ SmConnectFails
    \/ SmHwInit \/ SmDownloadFwFile \/ SmWaitFwFile \/ SmFwInit \/ SmFwConfig
    \/ SmStop \/ SmRecovery \/ SmDisconnecting
    \/ SmStoppingRecovery \/ SmStopping \/ SmStopped \/ SmStoppedOther
    \/ SmStoppingOnFail \/ SmFailed \/ SmUnexpected

Callback ==
    \/ InitHwCb \/ InitFwCb \/ ConfigFwCb \/ InitFailCb
    \/ TwdStopCb \/ TwdStopCbIgnored \/ SmeStop

Next ==
    \/ Sm \/ Callback
    \/ (\E a \in Actions : InsertAction(a)) \/ WaitReturns
    \/ IgnoreAction \/ InvokeAction
    \/ SendFailureEvent \/ GetExpiry \/ HandleExpiry

\* The driver context goes on; what was begun is completed; timers expire.
Fairness ==
    /\ WF_vars(Sm) /\ WF_vars(Callback)
    /\ WF_vars(IgnoreAction \/ InvokeAction)
    /\ WF_vars(GetExpiry) /\ WF_vars(HandleExpiry)

Spec == Init /\ [][Next]_vars
FairSpec == Spec /\ Fairness

-----------------------------------------------------------------------------
(* Properties.                                                             *)

\* A START or STOP reaches the SM only in a state at rest, never on the way from
\* one to the next, and a START never in OPERATIONAL: anything else is an
\* unexpected event and ends in FAILED.  The enabling and disabling of the ACTION
\* client is spread over five states; a STOP of a driver that was not started
\* (IDLE) or gave up a recovery (STOPPED) is not kept away and fails it, after
\* which the client may stay enabled.
SteadyActions ==
    [][pCurrAction' # pCurrAction =>
           \/ eSmState \in {"IDLE", "STOPPED"}
           \/ eSmState = "OPERATIONAL" /\ eLastAction' = "STOP"
           \/ eDriverState = "FAILED"]_vars

\* The driver fails only for a cause outside of it: a step of the init, a failure
\* raised while it was not operational, or a STOP before any START.  Actions,
\* completions, stops and the recoveries of an operational driver never meet in
\* an order in which one of them is an unexpected event.
FailureHasCause == eSmState \in {"STOPPING_ON_FAIL", "FAILED"} => fault

\* When the SM rests in OPERATIONAL all the modules it leads agree: timers are
\* delivered, inputs enabled, the OAL running, nothing is left in the TWD from
\* an earlier life and no recovery is recorded.
OperationalConsistent ==
    /\ Quiet /\ eSmState = "OPERATIONAL" =>
           /\ powered /\ actionEnabled /\ inputs = {"irq", "cmd"}
           /\ eDriverState = "RUNNING" /\ twd = "none" /\ ~smeStopping
           /\ ~bRecovery
    /\ bOperState <=> eSmState = "OPERATIONAL"

\* Interrupts and commands reach the driver only between the download of the
\* firmware and the stop, whatever fails on the way.
InputsOffWhenDown ==
    inputs # {} =>
        powered /\ eSmState \in {"FW_CONFIG", "OPERATIONAL", "DISCONNECTING"}

\* The device is not switched off under the TWD, which still awaits the
\* completion of a transaction, but for one case: after a fault any further event
\* switches it off in STOPPING_ON_FAIL, though the stop is not completed.  "Driver
\* stopping process is done. Turn device power off."
PoweredWhileActive == twd # "none" => powered \/ (fault /\ twd = "stop")

\* No signal object is set after it was freed, but for callers that gave up after
\* ten seconds and for a driver that fails (which sets it again).  "After 'wait' -
\* the action has already been processed in the driver's context".
SignalsLiveAction == dangling \subseteq timedOut \/ fault

\* The schedule request of a queued action was used up by one before it, whose
\* caller gave up while it was still in the queue: drvMain_InvokeAction takes one
\* action and asks for no further schedule.
Forgotten == timedOut # {} /\ hActionQueue # <<>> /\ ~actionPending

\* Every START and STOP is answered, though recoveries come in between, unless
\* the driver fails, the caller gives up first or the action is forgotten.
ActionServed ==
    \A a \in Actions :
        caller = a ~> \/ a \in signalled \cup timedOut
                     \/ eSmState \in {"STOPPING_ON_FAIL", "FAILED"}
                     \/ Forgotten

\* "Continue with the init process (recover back all the way to OPERATIONAL
\* state)", unless the recovery itself fails.
RecoveryEnds ==
    bRecovery ~> \/ ~bRecovery /\ eSmState = "OPERATIONAL"
                 \/ eSmState \in {"STOPPING_ON_FAIL", "FAILED"}

\* "The drvMain_TwdStopCb is called from the TWD in any case to pass us to the
\* SM_STATE_FAILED state (where we wait for Destroy)".
FailureEnds == eSmState = "STOPPING_ON_FAIL" ~> eSmState # "STOPPING_ON_FAIL"
=============================================================================
