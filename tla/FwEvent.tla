------------------------------ MODULE FwEvent ------------------------------
(***************************************************************************)
(* The way of a firmware interrupt through the driver: the interrupt       *)
(* handler and the TxnDone context request the driver task from the        *)
(* context engine (utils/context.c), the task calls the pending clients,   *)
(* FwEvent (TWD/FW_Transfer/FwEvent.c) reads the interrupt status and      *)
(* calls its handlers, and txResult (TWD/FW_Transfer/txResult.c) reads the *)
(* table of Tx results and reports them.                                   *)
(*                                                                         *)
(* A transaction completes in the call when the bus is free and nobody     *)
(* schedules it; otherwise it waits in TxnQ, the status read before all    *)
(* others, is sent by the TxnDone context and comes back through TwIf's    *)
(* done queue, as modules TxnQueue and TwIf have it in detail.  The other  *)
(* transactions of the driver ("other": packets) are asynchronous.         *)
(* Awake requests, ELP writes and a guard timer that expires too late are  *)
(* left to module TwIf.  A run of the task for another client is a run of  *)
(* its own.  The build has TI_DBG, as the makefile says.                   *)
(***************************************************************************)
EXTENDS Integers, Sequences, FiniteSets

CONSTANTS
    TRQ_DEPTH,      \* results in the firmware's table
    CNTR_MOD,       \* the status counts the results modulo this (2^8)
    CbReturns,      \* what txCtrl_TxCompleteCb, a void function, may "return"
    MaxResults,     \* bound: results of the firmware, by the number of stops before
    MaxStops        \* bound: stops of the driver

ASSUME Assumptions ==
    /\ TRQ_DEPTH \in Nat \ {0} /\ CNTR_MOD \in Nat /\ CNTR_MOD > TRQ_DEPTH
    /\ CbReturns \subseteq BOOLEAN /\ CbReturns # {}
    /\ MaxStops \in Nat /\ MaxResults \in [0 .. MaxStops -> Nat]

Clients == {"FW_EVENT", "TWIF"}
Order == [FW_EVENT |-> 1, TWIF |-> 2]   \* of registration, hence of the scan

Events == {"EVENT", "DATA"}     \* EVENT for all interrupts but ACX_INTR_DATA
InitMask == {"EVENT"}           \* fwEvent_SetInitMask

VARIABLES
    \* context engine and work queue
    aClientPending, aClientEnabled,
    requesting,     \* clients flagged, os_RequestSchedule yet to be called
    workQueued, wakeLocks,
    \* the driver task
    pc, next,       \* next: the client at which the scan is
    \* FwEvent
    eSmState, bIntrPending, uEventMask,
    \* txResult
    eState, uHostResultsCounter,
    reported,       \* the results its callback was called with
    \* the buffers of the transactions, empty when there is nothing left to read
    tFwStatus, tTxResultInfo, uCounter,
    \* TxnQ, its TxnDone context, TwIf
    curr,           \* an asynchronous transaction is on the bus
    sched,          \* TxnDone context: none, clear, send, post
    qState,         \* run state of the WLAN function: RESTART, or not
    highQ, lowQ, txnDone, tTxnDoneQueue, bTxnDoneInRecovery,
    failed,         \* transactions with TXN_PARAM_STATUS_ERROR
    readLost,       \* history: FwEvent waited for a read that ended without its CB
    \* firmware
    intrStatus, unmasked, fwCounter, fwHostCounter, fwTable,
    \* the driver's life: up, stopping (TxnQ waits for TxnDone), down, boot, init
    phase, stops

context  == <<aClientPending, aClientEnabled, requesting, workQueued, wakeLocks>>
task     == <<pc, next>>
fwEvent  == <<eSmState, bIntrPending, uEventMask>>
txResult == <<eState, uHostResultsCounter, reported>>
buffers  == <<tFwStatus, tTxResultInfo, uCounter>>
queues   == <<highQ, lowQ>>
bus      == <<curr, sched, txnDone, tTxnDoneQueue, bTxnDoneInRecovery, failed, readLost>>
firmware == <<intrStatus, unmasked, fwCounter, fwHostCounter, fwTable>>
life     == <<phase, stops>>
vars     == <<context, task, fwEvent, txResult, buffers, qState, queues, bus, firmware,
              life>>

EmptyTable == [i \in 0 .. TRQ_DEPTH - 1 |-> 0]
NoStatus == [intr |-> {}, results |-> 0]
NoInfo == [fw |-> 0, queue |-> EmptyTable]

\* The driver is operational (after ConfigComplete below).
Init ==
    /\ aClientPending = [c \in Clients |-> FALSE]
    /\ aClientEnabled = [c \in Clients |-> TRUE]
    /\ requesting = {} /\ workQueued = FALSE /\ wakeLocks = 0
    /\ pc = "idle" /\ next = 1
    /\ eSmState = "IDLE" /\ bIntrPending = FALSE
    /\ uEventMask = Events
    /\ eState = "IDLE" /\ uHostResultsCounter = 0 /\ reported = <<>>
    /\ tFwStatus = NoStatus /\ tTxResultInfo = NoInfo /\ uCounter = 0
    /\ curr = FALSE /\ sched = "none" /\ highQ = <<>> /\ lowQ = <<>>
    /\ txnDone = <<>> /\ tTxnDoneQueue = <<>> /\ bTxnDoneInRecovery = FALSE
    /\ qState = "RUNNING" /\ failed = {} /\ readLost = FALSE
    /\ intrStatus = {} /\ unmasked = Events
    /\ fwCounter = 0 /\ fwHostCounter = 0 /\ fwTable = EmptyTable
    /\ phase = "up" /\ stops = 0

-----------------------------------------------------------------------------
(* The context engine.  RequestSchedule is called by the interrupt handler *)
(* and by the TxnDone context; the work queue runs the task.               *)

RequestSchedule(c) ==
    /\ c \notin requesting
    /\ aClientPending' = [aClientPending EXCEPT ![c] = TRUE]
    /\ wakeLocks' = wakeLocks + 1
    /\ requesting' = requesting \cup {c}
    /\ UNCHANGED <<aClientEnabled, workQueued>>

\* Mutant: work under way is not queued again.
MutOsRequestSchedule(c) ==
    /\ c \in requesting
    /\ requesting' = requesting \ {c}
    /\ workQueued' = (workQueued \/ pc = "idle")
    /\ wakeLocks' = IF workQueued \/ pc # "idle" THEN wakeLocks - 1 ELSE wakeLocks
    /\ UNCHANGED <<aClientPending, aClientEnabled, task, fwEvent, txResult,
                   buffers, qState, queues, bus, firmware, life>>

\* Work that is queued already is not queued again; work under way is.
OsRequestSchedule(c) ==
    /\ c \in requesting
    /\ requesting' = requesting \ {c}
    /\ workQueued' = TRUE
    /\ wakeLocks' = IF workQueued THEN wakeLocks - 1 ELSE wakeLocks
    /\ UNCHANGED <<aClientPending, aClientEnabled, task, fwEvent, txResult,
                   buffers, qState, queues, bus, firmware, life>>

\* The work item is dequeued before its function runs.
DriverTask ==
    /\ pc = "idle" /\ workQueued
    /\ workQueued' = FALSE
    /\ pc' = "scan" /\ next' = 1
    /\ UNCHANGED <<aClientPending, aClientEnabled, requesting, wakeLocks, fwEvent,
                   txResult, buffers, qState, queues, bus, firmware, life>>

Runs(c) == aClientPending[c] /\ aClientEnabled[c]

Skip ==
    /\ pc = "scan" /\ next = Order["FW_EVENT"] /\ ~Runs("FW_EVENT")
    /\ next' = next + 1
    /\ UNCHANGED <<context, pc, fwEvent, txResult, buffers, qState, queues, bus, firmware, life>>

ClearPending(c) ==
    /\ aClientPending' = [aClientPending EXCEPT ![c] = FALSE]
    /\ UNCHANGED <<aClientEnabled, requesting, workQueued, wakeLocks>>

\* TwIf is the last client, and not pending or done.
TaskEnd ==
    /\ \/ pc = "scan" /\ next = Order["TWIF"] /\ ~Runs("TWIF")
       \/ pc = "scan" /\ next > Order["TWIF"]
       \/ pc = "done" /\ tTxnDoneQueue = <<>>
    /\ pc' = "idle" /\ next' = 1
    /\ wakeLocks' = wakeLocks - 1
    /\ UNCHANGED <<aClientPending, aClientEnabled, requesting, workQueued, fwEvent,
                   txResult, buffers, qState, queues, bus, firmware, life>>

\* The callback of the client at which the scan is returns, or, for TwIf's,
\* the callback of one transaction.
Return ==
    IF next = Order["TWIF"] THEN pc' = "done" /\ UNCHANGED next
    ELSE pc' = "scan" /\ next' = next + 1

-----------------------------------------------------------------------------
(* Transactions.                                                           *)

\* On the bus, where the register of the interrupts is cleared on read.
Execute(t) ==
    \/ /\ t = "status"
       /\ tFwStatus' = [intr |-> intrStatus, results |-> fwCounter % CNTR_MOD]
       /\ intrStatus' = {}
       /\ UNCHANGED <<tTxResultInfo, uCounter, unmasked, fwCounter, fwHostCounter, fwTable>>
    \/ /\ t = "table"
       /\ tTxResultInfo' = [fw |-> fwCounter, queue |-> fwTable]
       /\ UNCHANGED <<tFwStatus, uCounter, firmware>>
    \/ /\ t = "counter"
       /\ fwHostCounter' = uCounter /\ uCounter' = 0
       /\ UNCHANGED <<tFwStatus, tTxResultInfo, intrStatus, unmasked, fwCounter, fwTable>>

BusFree == ~curr /\ sched = "none"
Off == phase = "down"

Queue(t) ==
    IF t = "status"
    THEN highQ' = Append(highQ, t) /\ UNCHANGED lowQ
    ELSE lowQ' = Append(lowQ, t) /\ UNCHANGED highQ

\* On a free bus, where the caller knows that the device is on.
Transact(t) ==
    IF BusFree
    THEN Execute(t) /\ UNCHANGED queues
    ELSE Queue(t) /\ UNCHANGED <<buffers, firmware>>

\* Another client of the driver task transfers a packet, or a block of the
\* firmware.
OtherTxn ==
    /\ pc = "idle" /\ ~Off
    /\ ~curr /\ \A i \in DOMAIN lowQ : lowQ[i] # "other"
    /\ IF BusFree THEN curr' = TRUE /\ UNCHANGED queues
       ELSE Queue("other") /\ UNCHANGED curr
    /\ UNCHANGED <<context, task, fwEvent, txResult, buffers, qState, sched, txnDone,
                   tTxnDoneQueue, bTxnDoneInRecovery, failed, readLost, firmware, life>>

\* txnQ_TxnDoneCb tests for a restart that waits for the transaction, once.
BusTxnDone ==
    /\ curr /\ sched = "none"
    /\ IF qState = "RESTART" THEN sched' = "clear" /\ UNCHANGED <<curr, txnDone>>
       ELSE /\ sched' = IF highQ \o lowQ = <<>> THEN "post" ELSE "send"
            /\ curr' = FALSE /\ txnDone' = Append(txnDone, "other")
    /\ UNCHANGED <<context, task, fwEvent, txResult, buffers, qState, queues,
                   tTxnDoneQueue, bTxnDoneInRecovery, failed, readLost, firmware, life>>

\* A read of the status ends without its CB.
Dropped(isStatus) ==
    readLost' = (readLost \/ (isStatus /\ eSmState = "WAIT_INTR_INFO"))

\* txnQ_ClearQueues drops what waits, without a callback.
ClearQueues ==
    /\ highQ' = <<>> /\ lowQ' = <<>> /\ qState' = "RUNNING"
    /\ Dropped(\E i \in DOMAIN highQ : highQ[i] = "status")

\* Then the transaction is reported as recovery.
BusRecovery ==
    /\ sched = "clear" /\ sched' = "none" /\ curr' = FALSE
    /\ ClearQueues
    /\ RequestSchedule("TWIF") /\ bTxnDoneInRecovery' = TRUE
    /\ UNCHANGED <<task, fwEvent, txResult, buffers, txnDone, tTxnDoneQueue, failed,
                   firmware, life>>

\* A transaction sent by the scheduler in the TxnDone context: a device that is
\* off fails it.
Sent(t) ==
    /\ txnDone' = Append(txnDone, t)
    /\ IF Off THEN failed' = failed \cup {t} /\ UNCHANGED <<buffers, firmware>>
       ELSE failed' = failed \ {t} /\ Execute(t)

\* It sends, high priority first, until the bus is taken or nothing is left;
\* then the completions are posted.
BusSend ==
    /\ sched = "send"
    /\ \/ /\ highQ # <<>>
          /\ highQ' = Tail(highQ) /\ Sent(Head(highQ)) /\ UNCHANGED <<lowQ, curr>>
       \/ /\ highQ = <<>> /\ lowQ # <<>>
          /\ lowQ' = Tail(lowQ) /\ UNCHANGED highQ
          /\ IF Head(lowQ) = "other"
             THEN /\ IF Off THEN txnDone' = Append(txnDone, "other") /\ UNCHANGED curr
                     ELSE curr' = TRUE /\ UNCHANGED txnDone
                  /\ UNCHANGED <<buffers, firmware, failed>>
             ELSE Sent(Head(lowQ)) /\ UNCHANGED curr
       \/ /\ highQ \o lowQ = <<>>         \* cleared by a restart
          /\ UNCHANGED <<queues, curr, txnDone, failed, buffers, firmware>>
    /\ sched' = IF curr' \/ highQ' \o lowQ' = <<>>
                THEN IF txnDone' = <<>> THEN "none" ELSE "post"
                ELSE "send"
    /\ UNCHANGED <<context, task, fwEvent, txResult, qState, tTxnDoneQueue,
                   bTxnDoneInRecovery, readLost, life>>

\* twIf_TxnDoneCb.
BusPost ==
    /\ sched = "post"
    /\ RequestSchedule("TWIF")
    /\ tTxnDoneQueue' = IF Head(txnDone) \in {"status", "table"}
                      THEN Append(tTxnDoneQueue, Head(txnDone)) ELSE tTxnDoneQueue
    /\ txnDone' = Tail(txnDone)
    /\ sched' = IF Tail(txnDone) # <<>> THEN "post"
                ELSE IF ~curr /\ highQ \o lowQ # <<>> THEN "send" ELSE "none"
    /\ UNCHANGED <<task, fwEvent, txResult, buffers, qState, queues, curr,
                   bTxnDoneInRecovery, failed, readLost, firmware, life>>

-----------------------------------------------------------------------------
(* FwEvent.  Its state WAIT_HANDLE_COMPLT is left in the call that enters  *)
(* it, as no handler returns PENDING.                                      *)

FwEventStop == eSmState' = "IDLE" /\ bIntrPending' = FALSE /\ uEventMask' = {}

\* twIf_HwAvailable runs TxnQ, also over a restart that is pending; then the
\* read of the FW status, and how the state machine goes on.  "If error occured,
\* stop the process": on a free bus to a device that is off.
ReadIntrInfo ==
    /\ qState' = "RUNNING"
    /\ IF Off /\ BusFree
       THEN FwEventStop /\ Return /\ UNCHANGED <<buffers, queues, firmware>>
       ELSE /\ eSmState' = "WAIT_INTR_INFO" /\ bIntrPending' = FALSE
            /\ UNCHANGED uEventMask
            /\ Transact("status")
            /\ IF BusFree THEN pc' = "handle" /\ UNCHANGED next ELSE Return

\* Mutant: an interrupt while the state machine works is taken as served by it.
MutNewEvent ==
    /\ pc = "scan" /\ next = Order["FW_EVENT"] /\ Runs("FW_EVENT")
    /\ ClearPending("FW_EVENT")
    /\ IF eSmState = "IDLE" THEN ReadIntrInfo
       ELSE Return /\ UNCHANGED <<fwEvent, buffers, qState, queues, firmware>>
    /\ UNCHANGED <<txResult, bus, life>>

NewEvent ==
    /\ pc = "scan" /\ next = Order["FW_EVENT"] /\ Runs("FW_EVENT")
    /\ ClearPending("FW_EVENT")
    /\ IF eSmState = "IDLE" THEN ReadIntrInfo
       ELSE /\ bIntrPending' = TRUE /\ Return
            /\ UNCHANGED <<eSmState, uEventMask, buffers, qState, queues, firmware>>
    /\ UNCHANGED <<txResult, bus, life>>

uEventVector == tFwStatus.intr \cap uEventMask

\* The handlers of DATA: rxXfer_RxEvent may read packets, txHwQueue has no
\* transactions, txResult comes next.
DataHandlers ==
    IF "DATA" \in uEventVector
    THEN pc' = "cmplt" /\ curr' \in {curr, curr \/ BusFree} /\ UNCHANGED tFwStatus
    ELSE pc' = "complete" /\ UNCHANGED curr /\ tFwStatus' = NoStatus

\* The handlers of the other interrupts come first.
HandleEvents ==
    /\ pc = "handle"
    /\ IF "EVENT" \in uEventVector
       THEN pc' = "event" /\ UNCHANGED <<curr, tFwStatus>>
       ELSE DataHandlers
    /\ UNCHANGED <<context, next, fwEvent, txResult, tTxResultInfo, uCounter, qState,
                   queues, sched, txnDone, tTxnDoneQueue, bTxnDoneInRecovery, failed,
                   readLost, firmware, life>>

EventHandled ==
    /\ pc = "event"
    /\ DataHandlers
    /\ UNCHANGED <<context, next, fwEvent, txResult, tTxResultInfo, uCounter, qState,
                   queues, sched, txnDone, tTxnDoneQueue, bTxnDoneInRecovery, failed,
                   readLost, firmware, life>>

Complete ==
    /\ pc = "complete"
    /\ IF bIntrPending THEN ReadIntrInfo
       ELSE /\ eSmState' = "IDLE" /\ Return
            /\ UNCHANGED <<bIntrPending, uEventMask, buffers, qState, queues, firmware>>
    /\ UNCHANGED <<context, txResult, bus, life>>

-----------------------------------------------------------------------------
(* txResult.                                                               *)

\* The read of the table of results, and where the task goes on.
ReadTable(read, pending) ==
    /\ eState' = "READING"
    /\ IF Off /\ BusFree THEN UNCHANGED <<tTxResultInfo, queues>>
       ELSE IF BusFree
       THEN tTxResultInfo' = [fw |-> fwCounter, queue |-> fwTable] /\ UNCHANGED queues
       ELSE Queue("table") /\ UNCHANGED tTxResultInfo
    /\ pc' = IF ~Off /\ BusFree THEN read ELSE pending

\* Mutant: the state is not looked at.
MutTxCmpltIntrCb ==
    /\ pc = "cmplt" /\ tFwStatus' = NoStatus
    /\ IF tFwStatus.results = uHostResultsCounter % CNTR_MOD
       THEN pc' = "complete" /\ UNCHANGED <<eState, tTxResultInfo, queues>>
       ELSE ReadTable("results", "complete")
    /\ UNCHANGED <<context, next, fwEvent, uHostResultsCounter, reported, uCounter, qState,
                   bus, firmware, life>>

TxCmpltIntrCb ==
    /\ pc = "cmplt" /\ tFwStatus' = NoStatus
    /\ IF eState # "IDLE" \/ tFwStatus.results = uHostResultsCounter % CNTR_MOD
       THEN pc' = "complete" /\ UNCHANGED <<eState, tTxResultInfo, queues>>
       ELSE ReadTable("results", "complete")
    /\ UNCHANGED <<context, next, fwEvent, uHostResultsCounter, reported, uCounter, qState,
                   bus, firmware, life>>

\* Mutant: the new results are taken from the start of the table.
MutCallBacks(n) ==
    \E rtn \in [1 .. n -> CbReturns] :
        /\ uHostResultsCounter' = uHostResultsCounter + Cardinality({j \in 1 .. n : rtn[j]})
        /\ reported' = reported \o [i \in 1 .. n |-> tTxResultInfo.queue[i - 1]]

\* The callback is called for each result; the host's counter follows what it
\* returns, and is the index of the next result.
CallBacks(n) ==
    \E rtn \in [1 .. n -> CbReturns] :
        LET Counted(i) == uHostResultsCounter + Cardinality({j \in 1 .. i : rtn[j]})
        IN /\ uHostResultsCounter' = Counted(n)
           /\ reported' = reported \o
                  [i \in 1 .. n |-> tTxResultInfo.queue[Counted(i - 1) % TRQ_DEPTH]]

WriteCounter(n) ==
    IF Off /\ BusFree THEN UNCHANGED <<uCounter, queues, firmware>>
    ELSE IF BusFree
    THEN fwHostCounter' = n
         /\ UNCHANGED <<uCounter, queues, intrStatus, unmasked, fwCounter, fwTable>>
    ELSE uCounter' = n /\ Queue("counter") /\ UNCHANGED firmware

\* "Update host results-counter in FW to be equal to the FW counter", then report
\* the results, as many as the unsigned difference says and the table holds.
HandleNewResults ==
    /\ LET new == tTxResultInfo.fw - uHostResultsCounter
       IN IF new = 0
          THEN UNCHANGED <<uHostResultsCounter, reported, uCounter, queues, firmware>>
          ELSE /\ WriteCounter(tTxResultInfo.fw)
               /\ CallBacks(IF new \in 0 .. TRQ_DEPTH THEN new ELSE TRQ_DEPTH)
    /\ tTxResultInfo' = NoInfo /\ eState' = "IDLE" /\ UNCHANGED tFwStatus

ResultsRead ==
    /\ pc \in {"results", "read"}
    /\ pc' = IF pc = "results" THEN "complete" ELSE "done"
    /\ HandleNewResults
    /\ UNCHANGED <<context, next, fwEvent, qState, bus, life>>

-----------------------------------------------------------------------------
(* TwIf's client of the context engine.                                    *)

\* In a recovery its callback, TWD_StopComplete, is called, and nothing else; the
\* driver heeds it while it stops (drvMain_TwdStopCb).
HandleTxnDone ==
    /\ pc = "scan" /\ next = Order["TWIF"] /\ Runs("TWIF")
    /\ ClearPending("TWIF")
    /\ IF bTxnDoneInRecovery
       THEN /\ phase' = IF phase = "stopping" THEN "down" ELSE phase
            /\ next' = next + 1 /\ UNCHANGED pc
       ELSE pc' = "done" /\ UNCHANGED <<next, phase>>
    /\ bTxnDoneInRecovery' = FALSE
    /\ UNCHANGED <<fwEvent, txResult, buffers, qState, queues, curr, sched, txnDone,
                   tTxnDoneQueue, failed, readLost, firmware, stops>>

Done(t) ==
    /\ pc = "done" /\ tTxnDoneQueue # <<>> /\ Head(tTxnDoneQueue) = t
    /\ t \notin failed
    /\ tTxnDoneQueue' = Tail(tTxnDoneQueue)
    /\ UNCHANGED <<context, curr, sched, txnDone, bTxnDoneInRecovery, failed, readLost,
                   life>>

\* "In error do not continue": no CB, and the rest of the queue waits for the
\* next call.
FailedDone ==
    /\ pc = "done" /\ tTxnDoneQueue # <<>> /\ Head(tTxnDoneQueue) \in failed
    /\ tTxnDoneQueue' = Tail(tTxnDoneQueue)
    /\ Dropped(Head(tTxnDoneQueue) = "status")
    /\ pc' = "scan" /\ next' = next + 1
    /\ UNCHANGED <<context, fwEvent, txResult, buffers, qState, queues, curr, sched,
                   txnDone, bTxnDoneInRecovery, failed, firmware, life>>

\* fwEvent_StateMachine, in the state it is in.
StatusDone ==
    /\ Done("status")
    /\ IF eSmState = "IDLE" THEN ReadIntrInfo
       ELSE pc' = "handle" /\ UNCHANGED <<next, fwEvent, buffers, qState, queues, firmware>>
    /\ UNCHANGED txResult

\* txResult_StateMachine.
TableDone ==
    /\ Done("table")
    /\ IF eState = "IDLE"
       THEN /\ ReadTable("read", "done")
            /\ UNCHANGED <<uHostResultsCounter, reported, tFwStatus, uCounter, firmware>>
       ELSE HandleNewResults /\ UNCHANGED pc
    /\ UNCHANGED <<next, fwEvent, qState>>

-----------------------------------------------------------------------------
(* The driver's stop and start, as far as this path sees them.             *)

\* drvMain_StopActivities: TWD_DisableInterrupts, then TWD_Stop with
\* fwEvent_Stop and twIf_Restart, which waits for a transaction on the bus.
StopActivities ==
    /\ phase = "up" /\ stops < MaxStops /\ stops' = stops + 1
    /\ aClientEnabled' = [aClientEnabled EXCEPT !["FW_EVENT"] = FALSE]
    /\ FwEventStop /\ readLost' = FALSE
    /\ tTxnDoneQueue' = <<>>
    /\ IF curr THEN phase' = "stopping" /\ qState' = "RESTART" /\ UNCHANGED queues
       ELSE phase' = "down" /\ highQ' = <<>> /\ lowQ' = <<>> /\ UNCHANGED qState
    /\ UNCHANGED <<aClientPending, requesting, workQueued, wakeLocks, txResult, buffers,
                   curr, sched, txnDone, bTxnDoneInRecovery, failed, firmware>>

\* By another client of the driver task or the callback of a transaction.
Stop == pc \in {"idle", "done"} /\ StopActivities /\ UNCHANGED task

\* By an event of the firmware: no further handler finds its event, and the
\* state machine, IDLE again, is left.
EventStops == pc = "event" /\ StopActivities /\ Return

\* twIf_PendRestratTimeout: the bus has not called back in time.
PendRestartTimeout ==
    /\ pc = "idle" /\ phase = "stopping" /\ phase' = "down"
    /\ ClearQueues
    /\ UNCHANGED <<context, task, fwEvent, txResult, buffers, curr, sched, txnDone,
                   tTxnDoneQueue, bTxnDoneInRecovery, failed, firmware, stops>>

FwReset ==
    intrStatus' = {} /\ fwCounter' = 0 /\ fwHostCounter' = 0 /\ fwTable' = EmptyTable

\* hPlatform_DevicePowerOn; then TWD_InitHw, whose twIf_HwAvailable lets TxnQ run.
PowerOn ==
    /\ pc = "idle" /\ Off
    /\ phase' = "boot"
    /\ FwReset /\ unmasked' = {}
    /\ UNCHANGED <<context, task, fwEvent, txResult, buffers, qState, queues, bus, stops>>

\* The firmware is loaded, and the interrupts of the initialization are
\* unmasked.  The blocks of the firmware are asynchronous transactions, so what
\* TwIf was called for before them has been handled.
FinalizeDownload ==
    /\ pc = "idle" /\ phase = "boot"
    /\ BusFree /\ txnDone = <<>> /\ tTxnDoneQueue = <<>> /\ ~bTxnDoneInRecovery
    /\ phase' = "init"
    /\ FwReset
    /\ uEventMask' = InitMask /\ unmasked' = InitMask
    /\ UNCHANGED <<context, task, eSmState, bIntrPending, txResult, buffers, qState,
                   queues, bus, stops>>

\* TWD_EnableInterrupts: an interrupt of before is still pending.
EnableClient ==
    /\ pc = "idle" /\ phase = "init"
    /\ ~aClientEnabled["FW_EVENT"]
    /\ aClientEnabled' = [aClientEnabled EXCEPT !["FW_EVENT"] = TRUE]
    /\ IF aClientPending["FW_EVENT"]
       THEN workQueued' = TRUE /\ wakeLocks' = IF workQueued THEN wakeLocks ELSE wakeLocks + 1
       ELSE UNCHANGED <<workQueued, wakeLocks>>
    /\ UNCHANGED <<aClientPending, requesting, task, fwEvent, txResult, buffers, qState,
                   queues, bus, firmware, life>>

\* TWD_ConfigFwCb and drvMain_EnableActivities, as the configuration's last
\* command completes; the write of the mask is taken as done at once.
ConfigComplete ==
    /\ pc \in {"idle", "done", "event"} /\ phase = "init"
    /\ aClientEnabled["FW_EVENT"]
    /\ eState' = "IDLE" /\ uHostResultsCounter' = 0 /\ reported' = <<>>
    /\ uEventMask' = Events /\ unmasked' = Events
    /\ phase' = "up"
    /\ UNCHANGED <<context, task, eSmState, bIntrPending, buffers, qState, queues, bus,
                   intrStatus, fwCounter, fwHostCounter, fwTable, stops>>

-----------------------------------------------------------------------------
(* The firmware.  Its interrupt line falls when the first unmasked bit is  *)
(* set, and wlanDrvIf_HandleInterrupt runs.                                *)

Raise(b) ==
    /\ intrStatus' = intrStatus \cup {b}
    /\ IF b \in unmasked /\ intrStatus \cap unmasked = {}
       THEN RequestSchedule("FW_EVENT") ELSE UNCHANGED context

\* It reuses an entry of the table when the host has told that it was read.
FwPostsResult ==
    /\ phase = "up"
    /\ fwCounter < MaxResults[stops] /\ fwCounter - fwHostCounter < TRQ_DEPTH
    /\ fwTable' = [fwTable EXCEPT ![fwCounter % TRQ_DEPTH] = fwCounter + 1]
    /\ fwCounter' = fwCounter + 1
    /\ Raise("DATA")
    /\ UNCHANGED <<task, fwEvent, txResult, buffers, qState, queues, bus, unmasked,
                   fwHostCounter, life>>

\* A command is complete, or an event is in the mailbox.
FwRaisesEvent ==
    /\ phase \notin {"down", "boot"} /\ "EVENT" \notin intrStatus
    /\ Raise("EVENT")
    /\ UNCHANGED <<task, fwEvent, txResult, buffers, qState, queues, bus, unmasked,
                   fwCounter, fwHostCounter, fwTable, life>>

-----------------------------------------------------------------------------

Task == DriverTask \/ Skip \/ TaskEnd \/ NewEvent \/ HandleEvents \/ EventHandled
        \/ TxCmpltIntrCb \/ ResultsRead \/ Complete
        \/ HandleTxnDone \/ StatusDone \/ TableDone \/ FailedDone

Bus == BusTxnDone \/ BusRecovery \/ BusSend \/ BusPost

Life == Stop \/ EventStops \/ PendRestartTimeout \/ PowerOn \/ FinalizeDownload
        \/ EnableClient \/ ConfigComplete

Next ==
    \/ Task \/ Bus \/ Life \/ OtherTxn
    \/ \E c \in Clients : OsRequestSchedule(c)
    \/ FwPostsResult \/ FwRaisesEvent

Spec == Init /\ [][Next]_vars

-----------------------------------------------------------------------------
(* Properties.                                                             *)

TypeOK ==
    /\ aClientPending \in [Clients -> BOOLEAN] /\ aClientEnabled \in [Clients -> BOOLEAN]
    /\ requesting \subseteq Clients /\ workQueued \in BOOLEAN /\ wakeLocks \in Nat
    /\ next \in 1 .. 3
    /\ pc \in {"idle", "scan", "handle", "event", "cmplt", "results", "read",
               "complete", "done"}
    /\ eSmState \in {"IDLE", "WAIT_INTR_INFO"} /\ bIntrPending \in BOOLEAN
    /\ uEventMask \subseteq Events
    /\ eState \in {"IDLE", "READING"}
    /\ phase \in {"up", "stopping", "down", "boot", "init"}
    /\ qState \in {"RUNNING", "RESTART"}

\* No wakeup is lost: whenever a client is pending and enabled, the task is
\* requested, or running and yet to come to the client; and exactly while it is
\* requested or running the system is kept from suspending (context.c:272-350,
\* osapi.c:729, WlanDrvIf.c:352-356).
YetToCome(c) == pc # "idle" /\ (next < Order[c] \/ (next = Order[c] /\ pc = "scan"))

NoLostWakeup ==
    /\ \A c \in Clients : Runs(c) => workQueued \/ c \in requesting \/ YetToCome(c)
    /\ wakeLocks = Cardinality(requesting) + (IF workQueued THEN 1 ELSE 0)
                   + (IF pc = "idle" THEN 0 ELSE 1)

\* A transaction's structure is linked into one queue at a time: none is handed
\* over again while it is on its way.
OnTheWay == highQ \o lowQ \o txnDone \o tTxnDoneQueue
Times(t) == Cardinality({i \in DOMAIN OnTheWay : OnTheWay[i] = t})

HandedOverOnce == \A t \in {"status", "table", "counter"} : Times(t) <= 1

\* "Call the upper layers callback per Tx result" (txResult.c:349-353): every Tx
\* result is reported once and in the order of the firmware.  Not so when the
\* void callback leaves a register of value 0 behind.
ReportedInOrder == \A i \in DOMAIN reported : reported[i] = i

\* As long as each callback has been counted it is so, although the table's
\* entries are reused, and new results are posted while it is read.
CountedInOrder == Len(reported) = uHostResultsCounter => ReportedInOrder

\* An unmasked interrupt that the firmware holds, and signals no further, is
\* known to the driver: FwEvent is pending, its state machine will look again,
\* or the read of the status is yet to be sent; also after a stop, when late
\* completions of before it go through the state machine (FwEvent.c:323-340,
\* 410-422, TwIf.c:870-925).  Not so once a read for which the state machine waits
\* has ended without its callback: then it is deaf until the next stop.
Deaf ==
    /\ eSmState = "WAIT_INTR_INFO"
    /\ pc \notin {"handle", "event", "cmplt", "results", "complete"}
    /\ Times("status") = 0

Known ==
    \/ aClientPending["FW_EVENT"]
    \/ bIntrPending /\ ~Deaf
    \/ \E i \in DOMAIN highQ : highQ[i] = "status"

InterruptKnown ==
    phase = "up" /\ intrStatus \cap unmasked # {} /\ ~readLost => Known
=============================================================================
