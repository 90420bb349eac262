------------------------------ MODULE CmdQueue ------------------------------
(***************************************************************************)
(* Firmware commands: the command queue (TWD/Ctrl/CmdQueue.c), the mailbox *)
(* below it (TWD/FW_Transfer/CmdMBox.c), the command sequence that         *)
(* configures the firmware (TWD/Ctrl/CmdBld.c), the command's timeout and  *)
(* the health monitor's way from a failure to a recovery.                  *)
(*                                                                         *)
(* All of it runs in the driver context, which is at its top (pc = "idle") *)
(* or inside a callback; the firmware and the OS timers run beside it.  Of *)
(* the driver's life cycle (DrvMain) only those steps are here that start, *)
(* configure and stop the queue.                                           *)
(***************************************************************************)
EXTENDS Integers, Sequences, TimerModule

CONSTANTS
    Clients,        \* commands of the upper layers
    WithCb,         \* those with a callback
    NumSteps,       \* commands in aCmdIniSeq; the last one is the memory map
    DEPTH,          \* CMDQUEUE_QUEUE_DEPTH
    CmdTimer,       \* hCmdMboxTimer
    FailTimer,      \* hFailTimer
    None

Steps  == 0 .. NumSteps - 1
MemMap == NumSteps - 1

ASSUME CommandsAssumption ==
    /\ WithCb \subseteq Clients
    /\ Clients \cap (Steps \cup {None}) = {} /\ None \notin Steps
ASSUME SizesAssumption == NumSteps \in Nat \ {0} /\ DEPTH \in Nat \ {0}
ASSUME TimersAssumption == Timers = {CmdTimer, FailTimer} /\ CmdTimer # FailTimer

Commands == Clients \cup Steps
HasCb    == WithCb \cup Steps

VARIABLES
    state,              \* IDLE or WAIT_FOR_COMPLETION
    aCmdQueue,          \* head .. tail of the cyclic array
    bErrorFlag,
    bMboxEnabled,
    bAwake,
    aRecoveryQueue,
    uCbIndex,           \* the next callback cmdQueue_EndReconfig calls
    awakes,             \* the queue's share of TwIf's uAwakeReqCount
    bCmdInProgress,
    fw,                 \* the mailbox: idle, busy, answered, reading, lost
    fwCmd,              \* the command in it
    cmdStatus,          \* the answer in it
    lateRead,           \* a read of before TWD_Stop is still to be reported
    uIniSeq,
    eSmState,           \* DrvMain's state; INIT stands for all up to FW_INIT
    bRecovery,
    failureEvent,       \* the health monitor is handling a failure
    pc,                 \* driver context: idle, cb, owed, return
    cbOf                \* the command whose callback runs

Service == INSTANCE CmdService WITH
    Commands <- Commands,
    WithCb <- HasCb,
    pending <- aCmdQueue,
    atFw <- fwCmd,
    owed <- SubSeq(aRecoveryQueue, uCbIndex, Len(aRecoveryQueue))

queue  == <<state, aCmdQueue, bErrorFlag, bAwake, awakes>>
owed   == <<aRecoveryQueue, uCbIndex>>
mbox   == <<bCmdInProgress, fw, fwCmd, cmdStatus>>
driver == <<eSmState, bRecovery>>
ctx    == <<pc, cbOf>>
vars   == <<timerVars, queue, owed, mbox, bMboxEnabled, lateRead, uIniSeq,
            driver, failureEvent, ctx>>

\* After TWD_Init.
Init ==
    /\ TimerInit
    /\ state = "IDLE" /\ aCmdQueue = <<>> /\ bErrorFlag = FALSE
    /\ bMboxEnabled = FALSE /\ bAwake = FALSE /\ awakes = 0
    /\ aRecoveryQueue = <<>> /\ uCbIndex = 1
    /\ bCmdInProgress = FALSE /\ fw = "idle" /\ fwCmd = None
    /\ cmdStatus = "SUCCESS" /\ lateRead = FALSE
    /\ uIniSeq = 0
    /\ eSmState = "STOPPED" /\ bRecovery = FALSE /\ failureEvent = FALSE
    /\ pc = "idle" /\ cbOf = None

-----------------------------------------------------------------------------
(* Sending.                                                                *)

\* Mutant: the timeout is not started.
MutMboxSend(c) ==
    /\ ~bCmdInProgress
    /\ bCmdInProgress' = TRUE
    /\ fw' = "busy" /\ fwCmd' = c
    /\ UNCHANGED <<cmdStatus, running, operStarted>>

\* cmdMbox_SendCommand: the command, the timeout and the trigger.
MboxSend(c) ==
    /\ bCmdInProgress' = TRUE
    /\ fw' = "busy" /\ fwCmd' = c
    /\ StartTimer(CmdTimer)
    /\ UNCHANGED cmdStatus

\* Mutant: twIf_Awake for every command.
MutRun(c) ==
    /\ state' = "WAIT"
    /\ bAwake' = TRUE /\ awakes' = awakes + 1
    /\ MboxSend(c)

\* cmdQueue_SM, RUN in IDLE: "Keep the device awake for the entire Cmd
\* transaction".
Run(c) ==
    /\ state' = "WAIT"
    /\ bAwake' = TRUE /\ awakes' = IF bAwake THEN awakes ELSE awakes + 1
    /\ MboxSend(c)

\* Mutant: the SM is run for every command that is queued.
MutPush(c) ==
    /\ aCmdQueue' = Append(aCmdQueue, c)
    /\ IF state = "IDLE" \/ Len(aCmdQueue) = 1
       THEN Run(c)
       ELSE UNCHANGED <<state, bAwake, awakes, mbox, running, operStarted>>

\* cmdQueue_Push.  The SM is run for the only command in the queue; RUN in WAIT
\* (a push from within a callback) leaves it to the loop of the SM.
Push(c) ==
    /\ aCmdQueue' = Append(aCmdQueue, c)
    /\ IF Len(aCmdQueue) = 0 /\ state = "IDLE"
       THEN Run(c)
       ELSE UNCHANGED <<state, bAwake, awakes, mbox, running, operStarted>>

\* The upper layers send commands while the driver is operational or while SME
\* disconnects, at the top of the driver context or in a callback, and in the
\* callbacks that end a recovery.
ClientRuns ==
    \/ eSmState \in {"OPERATIONAL", "DISCONNECTING"}
    \/ pc = "owed" /\ uCbIndex > 1

Outstanding == {aCmdQueue[i] : i \in DOMAIN aCmdQueue}
                   \cup {aRecoveryQueue[i] : i \in DOMAIN aRecoveryQueue}

\* cmdQueue_SendCommand that returns TI_OK.  A refused one (bErrorFlag set, or
\* the queue full) changes nothing.
SendCommand(c) ==
    /\ ClientRuns /\ c \notin Outstanding
    /\ ~bErrorFlag /\ bMboxEnabled /\ Len(aCmdQueue) < DEPTH
    /\ Push(c)
    /\ UNCHANGED <<bErrorFlag, owed, bMboxEnabled, lateRead, uIniSeq, driver,
                   failureEvent, ctx, bOperState, hInitQueue, hOperQueue>>

-----------------------------------------------------------------------------
(* The answer.                                                             *)

Sleep == bAwake' = FALSE /\ awakes' = awakes - 1

\* The firmware answers and interrupts; it may also never do so.
FwAnswer(s) ==
    /\ fw = "busy" /\ fw' = "answered" /\ cmdStatus' = s
    /\ UNCHANGED <<timerVars, queue, owed, bCmdInProgress, fwCmd, bMboxEnabled,
                   lateRead, uIniSeq, driver, failureEvent, ctx>>

\* cmdMbox_TransferComplete and cmdQueue_SM, COMPLETE in WAIT, up to the
\* callback: "Delete the command from the queue before calling a callback because
\* there may be nested calls inside a callback".
Complete ==
    /\ bCmdInProgress' = FALSE /\ fw' = "idle" /\ fwCmd' = None
    /\ aCmdQueue' = Tail(aCmdQueue)
    /\ bErrorFlag' = (cmdStatus = "ERROR")
    /\ pc' = "cb" /\ cbOf' = Head(aCmdQueue)
    /\ UNCHANGED <<state, bAwake, awakes, cmdStatus>>

\* cmdMbox_CommandComplete: the result is read at once or in the background.
CommandComplete ==
    /\ pc = "idle" /\ fw = "answered"
    /\ StopTimer(CmdTimer)
    /\ \/ Complete
       \/ /\ fw' = "reading"
          /\ UNCHANGED <<queue, bCmdInProgress, fwCmd, cmdStatus, ctx>>
    /\ UNCHANGED <<bOperState, hInitQueue, hOperQueue, owed, bMboxEnabled,
                   lateRead, uIniSeq, driver, failureEvent>>

TransferComplete ==
    /\ pc = "idle" /\ fw = "reading"
    /\ Complete
    /\ UNCHANGED <<timerVars, owed, bMboxEnabled, lateRead, uIniSeq, driver,
                   failureEvent>>

\* The read fails, at once (twIf_SendTransaction) or in the background (twIf_Handle-
\* TxnDone): cmdMbox_TransferComplete is not called, TwIf's error callback raises a
\* failure.
ReadFails ==
    /\ pc = "idle" /\ fw \in {"answered", "reading"}
    /\ fw' = "lost"
    /\ failureEvent' = TRUE
    /\ IF failureEvent THEN StopTimer(CmdTimer) ELSE StopAndStart(CmdTimer, FailTimer)
    /\ UNCHANGED <<bOperState, hInitQueue, hOperQueue, queue, owed, bCmdInProgress,
                   fwCmd, cmdStatus, bMboxEnabled, lateRead, uIniSeq, driver, ctx>>

\* Mutant: the next command waits for the next push.
MutCbReturn ==
    /\ \/ pc = "return"
       \/ pc = "cb" /\ cbOf \in Clients
    /\ pc' = "idle" /\ cbOf' = None
    /\ state' = "IDLE" /\ Sleep
    /\ UNCHANGED <<mbox, running, operStarted, aCmdQueue, bErrorFlag, owed,
                   bMboxEnabled, lateRead, uIniSeq, driver, failureEvent,
                   bOperState, hInitQueue, hOperQueue>>

\* The SM after the callback: "If queue isn't empty, send the next command",
\* else permit TwIf to sleep.
CbReturn ==
    /\ \/ pc = "return"
       \/ pc = "cb" /\ cbOf \in Clients
    /\ pc' = "idle" /\ cbOf' = None
    /\ IF aCmdQueue # <<>>
       THEN Run(Head(aCmdQueue))
       ELSE state' = "IDLE" /\ Sleep /\ UNCHANGED <<mbox, running, operStarted>>
    /\ UNCHANGED <<aCmdQueue, bErrorFlag, owed, bMboxEnabled, lateRead, uIniSeq,
                   driver, failureEvent, bOperState, hInitQueue, hOperQueue>>

-----------------------------------------------------------------------------
(* The configuration of the firmware.                                      *)

\* cmdBld_ConfigSeq: the next step that is sent; one that is not configured, or
\* that the queue refuses, is passed over, up to the NULL behind the last one.
ConfigSeq(from) ==
    IF bErrorFlag
    THEN /\ uIniSeq' = NumSteps + 1
         /\ UNCHANGED <<aCmdQueue, state, bAwake, awakes, mbox, running, operStarted>>
    ELSE \E i \in from .. MemMap : uIniSeq' = i + 1 /\ Push(i)

\* DrvMain in FW_INIT: TWD_ExitFromInitMode, then TWD_ConfigFw.
ConfigFw ==
    /\ pc = "idle" /\ eSmState = "INIT" /\ ~lateRead
    /\ eSmState' = "FW_CONFIG"
    /\ bMboxEnabled' = TRUE
    /\ ConfigSeq(0)
    /\ UNCHANGED <<bErrorFlag, owed, lateRead, bRecovery, failureEvent, ctx,
                   bOperState, hInitQueue, hOperQueue>>

\* The callback of every configuration command but the last one.  It does not
\* look at the status.
ConfigSeqCb ==
    /\ pc = "cb" /\ cbOf \in Steps \ {MemMap}
    /\ ConfigSeq(uIniSeq)
    /\ pc' = "return" /\ UNCHANGED cbOf
    /\ UNCHANGED <<bErrorFlag, owed, bMboxEnabled, lateRead, driver, failureEvent,
                   bOperState, hInitQueue, hOperQueue>>

\* cmdBld_ConfigFwCb and TWD_ConfigFwCb, up to cmdQueue_EndReconfig.
ConfigFwCb ==
    /\ pc = "cb" /\ cbOf = MemMap
    /\ pc' = "owed" /\ UNCHANGED cbOf
    /\ UNCHANGED <<timerVars, queue, owed, mbox, bMboxEnabled, lateRead, uIniSeq,
                   driver, failureEvent>>

Owes == uCbIndex <= Len(aRecoveryQueue)

\* cmdQueue_EndReconfig: one callback, with CMD_STATUS_FW_RESET.
OwedCb ==
    /\ pc = "owed" /\ Owes /\ aRecoveryQueue[uCbIndex] \in Clients
    /\ uCbIndex' = uCbIndex + 1
    /\ UNCHANGED <<timerVars, queue, aRecoveryQueue, mbox, bMboxEnabled, lateRead,
                   uIniSeq, driver, failureEvent, ctx>>

\* The end of cmdQueue_EndReconfig, then DrvMain goes to OPERATIONAL.
EndReconfig ==
    /\ pc = "owed" /\ ~Owes
    /\ aRecoveryQueue' = <<>> /\ uCbIndex' = 1
    /\ eSmState' = "OPERATIONAL" /\ bRecovery' = FALSE
    /\ BecomeOperational
    /\ pc' = "return"
    /\ UNCHANGED <<running, operStarted, hOperQueue, queue, mbox, bMboxEnabled,
                   lateRead, uIniSeq, failureEvent, cbOf>>

-----------------------------------------------------------------------------
(* Stop and recovery.                                                      *)

\* Mutant: the list of an earlier recovery is kept.
MutQueueRestart ==
    /\ state' = "IDLE" /\ bAwake' = FALSE
    /\ aRecoveryQueue' = aRecoveryQueue \o Service!CallbacksOf(aCmdQueue)
    /\ uCbIndex' = 1
    /\ aCmdQueue' = <<>>
    /\ UNCHANGED bErrorFlag

\* cmdQueue_Restart: the callbacks are saved "in order the return them after the
\* recovery".  bErrorFlag is left as it is.
QueueRestart ==
    /\ state' = "IDLE" /\ bAwake' = FALSE
    /\ aRecoveryQueue' = Service!CallbacksOf(aCmdQueue)
    /\ uCbIndex' = 1
    /\ aCmdQueue' = <<>>
    /\ UNCHANGED bErrorFlag

\* TWD_Stop: cmdMbox_Restart, cmdQueue_Restart, cmdQueue_DisableMbox, and
\* twIf_Restart, which forgets the awake requests.  A result that is being read
\* may still be reported afterwards.  The firmware is gone.
TwdStop ==
    /\ StopTimer(CmdTimer)
    /\ QueueRestart
    /\ awakes' = 0
    /\ bMboxEnabled' = FALSE
    /\ bCmdInProgress' = FALSE /\ fw' = "idle" /\ fwCmd' = None
    /\ UNCHANGED cmdStatus
    /\ lateRead' \in {lateRead, lateRead \/ fw = "reading"}

\* cmdMbox_TransferComplete with the queue in IDLE: the SM has no such event.
LateTransferComplete ==
    /\ pc = "idle" /\ lateRead
    /\ lateRead' = FALSE
    /\ bCmdInProgress' = FALSE
    /\ UNCHANGED <<timerVars, queue, owed, fw, fwCmd, cmdStatus, bMboxEnabled,
                   uIniSeq, driver, failureEvent, ctx>>

Start ==
    /\ pc = "idle" /\ eSmState = "STOPPED" /\ eSmState' = "INIT"
    /\ UNCHANGED <<timerVars, queue, owed, mbox, bMboxEnabled, lateRead, uIniSeq,
                   bRecovery, failureEvent, ctx>>

\* STOP: timers are no longer served, SME disconnects.
Stop ==
    /\ pc = "idle" /\ eSmState = "OPERATIONAL" /\ eSmState' = "DISCONNECTING"
    /\ bOperState' = FALSE
    /\ UNCHANGED <<running, operStarted, hInitQueue, hOperQueue, queue, owed,
                   mbox, bMboxEnabled, lateRead, uIniSeq, bRecovery,
                   failureEvent, ctx>>

Disconnected ==
    /\ pc = "idle" /\ eSmState = "DISCONNECTING" /\ eSmState' = "STOPPING"
    /\ TwdStop
    /\ UNCHANGED <<bOperState, hInitQueue, hOperQueue, uIniSeq, bRecovery,
                   failureEvent, ctx>>

\* STOP_COMPLETE in STOPPING.
StopComplete ==
    /\ pc = "idle" /\ eSmState = "STOPPING"
    /\ IF bRecovery
       THEN eSmState' = "INIT" /\ UNCHANGED hOperQueue
       ELSE eSmState' = "STOPPED" /\ ClearOperQueue
    /\ UNCHANGED <<bOperState, running, operStarted, hInitQueue, queue, owed,
                   mbox, bMboxEnabled, lateRead, uIniSeq, bRecovery,
                   failureEvent, ctx>>

\* The init fails, with one FAILURE event or with two.
InitFail ==
    /\ pc = "idle" /\ eSmState = "INIT"
    /\ TwdStop
    /\ \/ eSmState' = "STOPPING_ON_FAIL" /\ UNCHANGED bRecovery
       \/ /\ eSmState' = IF bRecovery THEN "STOPPING" ELSE "FAILED"
          /\ bRecovery' = FALSE
    /\ UNCHANGED <<bOperState, hInitQueue, hOperQueue, uIniSeq, failureEvent, ctx>>

\* healthMonitor_sendFailureEvent: "recovery process is already handling", or
\* "start timer with minimum expiry (1 msec) for recovery will start from the top
\* of the stack".
SendFailureEvent ==
    IF failureEvent
    THEN UNCHANGED <<failureEvent, running, operStarted>>
    ELSE failureEvent' = TRUE /\ StartTimer(FailTimer)

\* A bus error, a watchdog or a MAC service reports a failure.
OtherFailure ==
    /\ eSmState \notin {"STOPPED", "FAILED"} /\ ~failureEvent
    /\ SendFailureEvent
    /\ UNCHANGED <<bOperState, hInitQueue, hOperQueue, queue, owed, mbox,
                   bMboxEnabled, lateRead, uIniSeq, driver, ctx>>

\* tmr_HandleExpiry, cmdMbox_TimeOut, cmdQueue_Error, TWD_CheckMailboxCb: whether
\* a command is in progress is not asked.
TimeOut ==
    /\ pc = "idle" /\ Expired(CmdTimer)
    /\ DequeueExpiry
    /\ SendFailureEvent
    /\ UNCHANGED <<bOperState, queue, owed, mbox, bMboxEnabled, lateRead, uIniSeq,
                   driver, ctx>>

\* Mutant: the second stop is left out.
MutRecoverOnFail ==
    /\ eSmState = "STOPPING_ON_FAIL"
    /\ eSmState' = "STOPPING" /\ bRecovery' = FALSE
    /\ UNCHANGED <<queue, owed, mbox, bMboxEnabled, lateRead, running, operStarted,
                   bOperState>>

\* STOPPING_ON_FAIL: with attempts left stop and then rest in STOPPED.
RecoverOnFail ==
    /\ eSmState = "STOPPING_ON_FAIL"
    /\ eSmState' = "STOPPING" /\ bRecovery' = FALSE
    /\ TwdStop /\ UNCHANGED bOperState

\* The same without attempts left.
GiveUp ==
    /\ eSmState = "STOPPING_ON_FAIL"
    /\ eSmState' = "FAILED" /\ bRecovery' = FALSE
    /\ UNCHANGED <<queue, owed, mbox, bMboxEnabled, lateRead, running, operStarted,
                   bOperState>>

\* FAILED: "Nothing to do except waiting for Destroy".
IgnoreFailure ==
    /\ eSmState = "FAILED" /\ bRecovery' = TRUE
    /\ UNCHANGED <<eSmState, queue, owed, mbox, bMboxEnabled, lateRead, running,
                   operStarted, bOperState>>

\* A recovery starts in OPERATIONAL; it is an unexpected event elsewhere.
Recover ==
    /\ eSmState \notin {"STOPPING_ON_FAIL", "FAILED"}
    /\ eSmState' = (IF eSmState = "OPERATIONAL" THEN "STOPPING"
                                                ELSE "STOPPING_ON_FAIL")
    /\ bRecovery' = TRUE
    /\ bOperState' = FALSE
    /\ TwdStop

\* tmr_HandleExpiry, healthMonitor_proccessFailureEvent, drvMain_Recovery.
ProcessFailureEvent ==
    /\ pc = "idle" /\ Expired(FailTimer) /\ failureEvent
    /\ DequeueExpiry
    /\ Recover \/ RecoverOnFail \/ GiveUp \/ IgnoreFailure
    /\ failureEvent' = FALSE
    /\ UNCHANGED <<uIniSeq, ctx>>

TimerExpires(t) ==
    /\ GetExpiry(t)
    /\ UNCHANGED <<queue, owed, mbox, bMboxEnabled, lateRead, uIniSeq, driver,
                   failureEvent, ctx>>

-----------------------------------------------------------------------------
Command ==
    \/ \E c \in Clients : SendCommand(c)
    \/ \E s \in {"SUCCESS", "REJECT_MEAS_SG_ACTIVE", "ERROR"} : FwAnswer(s)
    \/ CommandComplete \/ TransferComplete \/ ReadFails \/ LateTransferComplete
    \/ CbReturn

Config == ConfigFw \/ ConfigSeqCb \/ ConfigFwCb \/ OwedCb \/ EndReconfig

LifeCycle == Start \/ Stop \/ Disconnected \/ StopComplete \/ InitFail

Failure ==
    \/ OtherFailure \/ TimeOut \/ ProcessFailureEvent
    \/ \E t \in Timers : TimerExpires(t)

Next == Command \/ Config \/ LifeCycle \/ Failure

Spec == Init /\ [][Next]_vars

\* The driver context goes on with what it has begun and gets to what waits for
\* its top again and again; reads complete, timers expire.  The firmware need
\* not answer, and nobody has to send, start or stop.
Fairness ==
    /\ WF_vars(CbReturn) /\ WF_vars(ConfigSeqCb) /\ WF_vars(ConfigFwCb)
    /\ WF_vars(OwedCb) /\ WF_vars(EndReconfig)
    /\ SF_vars(CommandComplete \/ ReadFails) /\ SF_vars(TransferComplete \/ ReadFails)
    /\ SF_vars(TimeOut) /\ SF_vars(ProcessFailureEvent)
    /\ \A t \in Timers : WF_vars(TimerExpires(t))

FairSpec == Spec /\ Fairness

-----------------------------------------------------------------------------
(* Properties.                                                             *)

\* The mailbox is one buffer that the queue, the firmware and the read of the
\* result share: it holds the queue's first command from its trigger up to the
\* end of the read, and is free whenever the SM is about to send ("Trying to send
\* Cmd while other Cmd is still in progres!" does not happen).
MailboxOfHead ==
    /\ bCmdInProgress <=> fw # "idle"
    /\ bCmdInProgress => /\ state = "WAIT" /\ pc = "idle"
                         /\ aCmdQueue # <<>> /\ fwCmd = Head(aCmdQueue)
    /\ pc = "idle" /\ aCmdQueue # <<>> => bCmdInProgress

\* "Keep the device awake for the entire Cmd transaction": over nested sends,
\* stops and recoveries the queue holds one awake request while a command or
\* its callback is in progress, and none when there is nothing to do.
AwakeWhileBusy ==
    /\ awakes = IF bAwake THEN 1 ELSE 0
    /\ bAwake <=> aCmdQueue # <<>> \/ pc # "idle"

\* When cmdQueue_EndReconfig runs, none of the saved callbacks is one of the
\* configuration itself: cmdBld_ConfigFwCb would call cmdQueue_EndReconfig from
\* within itself without end, cmdBld_ConfigSeq go on behind its table.  Only the
\* second TWD_Stop, from STOPPING_ON_FAIL, sees to that.
OwedToClients ==
    pc = "owed" => \A i \in DOMAIN aRecoveryQueue : aRecoveryQueue[i] \in WithCb

\* A firmware that does not answer is noticed: as long as it has a command the
\* timeout runs, is queued, or a failure is being handled.  The timeouts that are
\* ignored when the driver becomes operational are none of these.  An answer that
\* could not be read has no timeout any more, but its failure is being handled.
HangIsNoticed ==
    /\ fw = "busy" => CmdTimer \in running \/ Queued(CmdTimer) \/ failureEvent
    /\ fw = "lost" => failureEvent

\* The queue and the mailbox do what CmdService promises, late results, timeouts,
\* failing answers and recoveries at any point included.
ImplementsService == Service!Spec

\* The ways in which a recovery that is due does not come: the expiry of the 1
\* msec timer was ignored because the driver had become operational meanwhile;
\* an expiry sits in the operational queue, which is not served before the driver
\* is operational (again).
Unserved ==
    \/ failureEvent /\ FailTimer \notin running /\ ~Queued(FailTimer)
    \/ hOperQueue # <<>> /\ ~bOperState

\* Every command leaves the queue, answered or cut off by a stop, even if the
\* firmware answers none: the timeout leads to the recovery, but for Unserved.
CommandServed ==
    \A c \in Commands :
        (\E i \in DOMAIN aCmdQueue : aCmdQueue[i] = c)
            ~> \/ ~ \E i \in DOMAIN aCmdQueue : aCmdQueue[i] = c
               \/ Unserved

=============================================================================
