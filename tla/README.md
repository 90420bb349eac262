# A TLA+ verification project for the WLAN driver of hardware_amlogic

The repository holds Android hardware support for Amlogic boards: small HALs
(camera headers, GPS, lights, sensors, hwcomposer, USB power, 3G modem chat)
and, under `src/wifi`, the WLAN software. Its only large body of concurrent
code with a logic of its own is the Texas Instruments WL1271 driver,
`src/wifi/wgt7310/wl1271`. This project models that driver from the bus up:
the transaction queue and the bus interface above it, the path of an interrupt
and of a Tx result, firmware commands, the data and management paths down to
the firmware's resources, and the life cycle of the driver as a whole. File names without a directory below are of that driver.

## 1. Inventory

### How the driver is put together

User threads (ioctl, wext) hand commands and START / STOP actions to the
*driver task*, a work queue that runs all clients of the *context engine* one
after the other. Interrupts and bus completions arrive in contexts of their own
and only leave something in a queue or a flag before they ask for the driver
task. Timers expire in a context of their own, too, and are queued for the
driver task. Below, every functional driver (WLAN, and BT or FM on the
same chip) calls the transaction queue from its own context.

    user threads     interrupts     OS timers
         |               |              |
      DrvMain ------ context.c ------ timer.c          driver task
         |               |
      TWD, CmdQueue, MacServices, Tx/Rx transfer, FwEvent, HwInit
                         |
                        TwIf                            awake / asleep, restart
                         |
                      TxnQueue  <--- other functional drivers
                         |
                  SdioBusDrv / WspiBusDrv  ---> TxnDone (own context)

### Components

| Component | State | Operations | What is hard | What makes it correct |
|---|---|---|---|---|
| TxnQueue (`Txn/TxnQueue.c`) | run state, single-step slot and priority queues per function, done queue, current transaction, busy / pend flags, aggregation queue | Open, Close, Transact, Run, Stop, Restart, ClearQueues, scheduler, TxnDone | the scheduler runs in whichever context enters first; flags are tested in and used out of critical sections | one scheduler, one transaction on the bus, no transaction lost or reported twice, no wakeup lost, FIFO per queue |
| TwIf (`TWD/TwIf/TwIf.c`) | sleep SM, awake and pending counters, done queue, recovery flag, guard timer, wake lock | Awake, Sleep, HwAvailable, Transact, TxnDoneCb, HandleTxnDone, Restart, timeout | three contexts count; completions of before a restart arrive after it; timer against completion | exact count, device awake for pending work, asleep when idle, wake lock balanced, each restart reported |
| DrvMain (`stad/src/Ctrl_Interface/DrvMain.c`, with `healthMonitor.c`) | SM state, one stored event, recovery flag and attempts, action queue, current and last action | drvMain_Sm with 14 states, InsertAction, InvokeAction, Recovery, callbacks | events of five sources meet one place; failures during stop or recovery; user threads that give up waiting | actions are answered, recoveries get back to OPERATIONAL, the modules agree at rest |
| Context engine (`utils/context.c`) | pending and enabled flag per client | RequestSchedule, DriverTask, Enable, Disable | flags set by interrupts while the task runs | no request lost, one client at a time |
| Timer module (`utils/timer.c`) | operational and init expiry queue, driver state | StartTimer, StopTimer, GetExpiry, HandleExpiry, ClearOperQueue | a queued expiry outlives the stop of its timer | no expiry of an earlier life is delivered |
| FwEvent (`TWD/FW_Transfer/FwEvent.c`) | SM state, event vector, pending interrupt | interrupt, HandleSm, Stop | interrupt while events are handled | every interrupt is acknowledged once, no event lost |
| CmdQueue, CmdMBox (`TWD/Ctrl/CmdQueue.c`, `TWD/FW_Transfer/CmdMBox.c`) | ring of commands, SM, mailbox flags, recovery list, error flag | SendCommand, SM, TimeOut, CommandComplete, Restart, EndReconfig | answer against timeout; recovery with commands outstanding | every command answered once, in order |
| TxHwQueue, TxCtrlBlk (`TWD/Data_Service/`) | free, used and reserved blocks per queue, 8 and 32 bit counters | AllocResources, UpdateFreeBlocks, UpdateFreeResources | firmware counters wrap; reservations | free + used = total, guarantees kept, stopped queues are resumed |
| Data queues, backpressure, port (`stad/src/Data_link/txDataQueue.c`, `txCtrl.c`, `txPort.c`) | packets per queue, busy flags at three levels, pacing timer, stopped stack queues | InsertPacket, scheduler, UpdateBusyMap, StopQueue, suspend / resume | the stack inserts while the scheduler runs; a release that comes within the scheduler's own call | a busy queue waits for something, a waiting packet is sent |
| Management queues (`txMgmtQueue.c`) | SM of the connection states, two queues, enabled queues | Xmit, SetConnState, SM, scheduler | SM, port and scheduler call each other; EAPOL comes from the stack | nothing is sent before the connection permits it, management before data |
| Tx / Rx transfer, event mailbox (`txXfer.c`, `txResult.c`, `RxXfer.c`, `eventMbox.c`) | read state, host counters, transaction structures | handlers, TxnDone callbacks | structures reused, results counted while read | every result reported once, in order |
| SDIO / WSPI bus drivers (`Txn/`) | parts of the transaction, aggregation length, status | Transact, SendTxnParts, TxnDone | a status read after the part that may change it | COMPLETE or callback, never both |
| HwInit, TWD, command builder | init step, callbacks | long fixed sequences | little beyond DrvMain's view | success or failure is reported once |
| MacServices, connection, SME, RSN, MLME, roaming, data link | table-driven SMs | protocol events | timeouts, order of callbacks | protocol rules above the transport |
| Linux platform layer (`platforms/`) | locks, work queue, timers | system calls | the primitives the others assume | - |
| GPS HALs (`src/gps`) | thread state, callbacks | start, stop, cleanup | threads are not joined before their data goes | no use after cleanup |
| Sensors, lights, hwcomposer, usbctrl, libril, camera, mali | little | file and ioctl I/O | - | - |

`PROJECT.json` lists the same parts file by file, with the reason for each that
is not modelled, and the hazards of the code at their lines.

### What is not modelled, and why

* The second copy of the driver (`src/wifi/wgt7310/wl1271_m603`) is nearly
  identical to the one modelled.
* The SDIO and WSPI bus drivers: `TxnQueue` takes their contract (complete in the
  call, or later by TxnDone, never both) for granted. How a transaction is split
  into parts is a model of its own (section 6).
* The Rx path (`RxXfer.c`, `rxData.c`), the event mailbox's contents and packet
  aggregation of `txXfer.c`: they use the same queue and state machine as the Tx
  results, which were taken first for their two counters.
* The protocol state machines of the station (connection, RSN, MLME, roaming,
  scan) run on the layers modelled here; of them only the order of the
  connection states enters (`NextConnStates` of `TxMgmtQ`).
* HwInit and the command builder are long fixed sequences of which only success,
  failure and order matter to the rest; these are inputs of `DrvMain` and
  `CmdQueue`.
* The Linux platform layer provides what the models assume of work queues, locks
  and timers; the user space tools are front ends.
* `mpu3050` is a vendor's motion library, the other `src/wifi` directories are
  thin command libraries, configuration and binaries. lights, hwcomposer, libril
  chat and usbctrl are sequential tools around one file or device.

The modelled files are a small part of the repository, most of which is
the two copies of the driver's station code, tables, headers and tools.

## 2. The modules

| Module | Models | Role |
|---|---|---|
| `TxnService` | `Txn/TxnQueue.h` | abstract: what the queue promises to its users |
| `TxnQueue` | `Txn/TxnQueue.c` | the queue with its interleavings, implements `TxnService` |
| `TwIf` | `TWD/TwIf/TwIf.c` | awake / sleep, pending count, restart |
| `FwEvent` | `utils/context.c`, `FwEvent.c`, `txResult.c` | interrupts, driver task, Tx results |
| `TimerModule` | `utils/timer.c` | expiry queues; its operators are called by `CmdQueue` |
| `CmdService` | `CmdQueue.h`, `CmdQueue.c` | abstract: what clients of firmware commands may expect |
| `CmdQueue` | `CmdQueue.c`, `CmdMBox.c`, the sequence of `CmdBld.c` | commands, implements `CmdService` |
| `TxResources` | what `txHwQueue.c` computes | abstract: blocks and descriptors lent and given back |
| `TxHwQueue` | `TWD/Data_Service/txHwQueue.c` | the wrapping counters, implements `TxResources` |
| `TxPath` | `txDataQueue.c`, `txCtrl.c`, `txPort.c`, `WlanDrvIf.c` | data queues and backpressure, on top of `TxResources` |
| `TxMgmtQ` | `txMgmtQueue.c`, `txPort.c` | management and EAPOL queues, connection states, port |
| `DrvMain` | `DrvMain.c`, `healthMonitor.c`, `timer.c` | start, stop, recovery |
| `..._proofs` | | theorems about the module they extend |
| `MC...` | | instances for TLC |

Definitions named `Mut...` are plausible bugs: each is the definition after it
with one guard, assignment or reset changed. They are not part of any
specification; put in the place of the original they break the properties that
are meant to notice.

Most of the driver runs in one context, the driver task. A module of that part
has a variable `pc` that is `"idle"` at the top of the task; a call which ends a
function, or a callback in which others may act, is a step that leaves
another `pc`. What runs beside the task (interrupts, TxnDone, OS timers, the
network stack, user threads, the firmware) has actions that are enabled
at any `pc`.

### TxnQueue and TxnService

`TxnQueue` follows the code at the granularity of its critical sections, or of
one unprotected access to shared state. `pc[c]` says where context `c` (a
functional driver's, or `Ext`, the bus driver's TxnDone) is:

| `pc` | In the code |
|---|---|
| `enter`, `leave` | the two critical sections of `txnQ_RunScheduler` |
| `check` | `txnQ_Scheduler` tests `pCurrTxn` |
| `select` | `txnQ_SelectTxn` in its critical section |
| `send`, `bus` | `pCurrTxn` is set, `busDrv_Transact` is called |
| `post` | a completed transaction goes to the done queue |
| `drain`, `cb` | the done queue is emptied, callbacks are called |
| `clear` | `txnQ_ClearQueues` after the critical section of `txnQ_Restart` was left |
| `doneEnqueue`, `doneClear`, `doneRecover`, `doneNull` | the steps of `txnQ_TxnDoneCb` |

A call by a functional driver is one action up to its first critical section;
the shared variables have the source's names, `busTxn` is a transaction the bus
driver goes on with after it returned PENDING. Assumed of the callers, because
the code above does so: a functional driver calls from one context, hands a
structure over again only when it has it back (a single step may overwrite one
that still waits), and sends the packets of an aggregation one after the other
(`txXfer_SendAggregatedPkts`). A functional driver may call `txnQ_Run`,
`txnQ_Stop` and `txnQ_Transact` while its restart is pending, as callbacks of old
completions do; `txnQ_Run` then overwrites RESTART with RUNNING
(`TxnQueue.c:384`-397) and the queue goes on. Assumed of the bus driver: a transaction is
complete in the call or later by TxnDone, not both.

`TxnService` knows waiting queues, single-step slots, one transaction on the
bus and those finished but not reported. `ImplementsService` is the refinement:
`OnBus` and `Finished` in `TxnQueue` collect what the queue holds in locals of
the contexts.

### TwIf

`TwIf` uses the transaction queue as `TxnService` promises it (`waiting`,
`slot`, `onBus`, `finished`) with the run state of the WLAN function, and
describes:

* the SM `AWAKE`, `SLEEP`, `WAIT_HW` with the ELP register writes it sends as
  single steps, the run state it gives TxnQ, and the wake lock it takes;
* `uAwakeReqCount` and `uPendingTxnCount` with the code's wrap (`UINT`) where it
  decrements unguarded and its test where it is guarded;
* the completion path: on return status in the driver task, in `twIf_TxnDoneCb`
  for transactions without a callback, by the done queue for the others;
* `twIf_Restart` with its guard timer, whose expiry may be queued already when
  the timer is stopped (`expiryQueued`).

The upper layers (`ClientRuns`) call from the driver task: at its top from the
init (`InitHw`) up to a stop, or in a completion callback. Nothing in
`twIf_HandleTxnDone` holds back the callbacks of old completions while a restart is
pending or after it (`TwIf.c:960`-998), so they run, transact and sleep as any
other; that of a status read, in FwEvent's SM which the stop has put to IDLE,
calls `twIf_Awake` and `twIf_HwAvailable` (`StaleStatus`, `FwEvent.c:374`, 473): ELP
write, wake lock and `txnQ_Run` over RESTART. The completion path in TxnQ has the
steps that matter for this: `TxnDoneTest` sees RESTART, once, before
`TxnDoneRecovery` clears. A second restart does not begin
before the driver task has handled the completion of the first
(`restarts > 0 => ~bTxnDoneInRecovery`): `twIf_HandleTxnDone` is scheduled by
then, and the next `TWD_Stop` comes from a later pass of the task. `old`, a
history variable, remembers what waited in TxnQ as a restart began.

### FwEvent

One interrupt's way through the driver. The context engine: `RequestSchedule`
is two steps, the pending flag and then the work queue (`requesting` holds the
clients between the two), `wakeLocks` counts the OS wake lock of each request;
`DriverTask` scans the clients in their order (`pc = "scan"`, `next`), tests
and clears a flag in one step and calls the handler (`"handle"`). FwEvent's
SM (`IDLE`, `WAIT_INTR_INFO`), `bIntrPending` and its masks; its read completes
within the call or waits in TxnQ and comes back through TwIf's done queue. Its
handlers are called in the code's order (`"event"`, `"cmplt"`, `"results"`).
The handlers of firmware events and command completions may stop the driver
(`EventStops`). The callback of a Tx result may not, although the comment at
`txResult.c:390` allows for it: `txCtrl_TxCompleteCb`, the one registered, has no
way to a stop. `txResult.c`: table read, callbacks, host
counter, over a table of `TRQ_DEPTH` entries that the firmware overwrites and
a counter modulo `CNTR_MOD`. TxnQ and TwIf are reduced to what decides when a
read is executed and when it is reported: one transaction on the bus, two
priorities, the TxnDone context's steps, the done queue, and a restart: `qState`
is RESTART until the TxnDone context, whose test comes before its clearing
(`sched = "clear"`), or the guard timer clears the queues, or until a late
completion runs the queue over it (`ReadIntrInfo`). A transaction that is sent to a
device that is off fails, and is not called back (`FailedDone`). `readLost`, a
history variable, says that FwEvent's SM waited for a status read that ended
without its callback. The buffers of a read are those of its transaction structure, filled at
execution and used at the report. After the power-on (`PowerOn`) the start goes on
once the done queue is empty (`FinalizeDownload`): the firmware is downloaded in
blocks whose completions come through that queue, behind whatever is in it
(`HwInit.c:1500`-1600).

### CmdQueue, CmdService and TimerModule

`aCmdQueue` is the ring from head to tail, `fw` the mailbox (`idle`, `busy`,
`answered`, `reading`), `cmdStatus` the status in it. A client's command is
`SendCommand`; the interrupt is `CommandComplete`, which reads the result within
the call, leaves the read to the background (`TransferComplete`), or has it fail
(`ReadFails`: the bus error goes to the health monitor, the mailbox and the queue
stay as they are until the recovery); `TimeOut` is
`cmdMbox_TimeOut`, delivered from the expiry queues of `TimerModule`. A callback
(`pc = "cb"`) may send commands itself before it returns (`CbReturn`). The
configuration (`ConfigFw`) sends its commands from the completion of the one
before (`uIniSeq`); the last of them ends in `cmdQueue_EndReconfig`, which calls
the callbacks saved by the last stop one by one (`pc = "owed"`). A failure
goes the health monitor's way: `failureEvent`, a timer, `ProcessFailureEvent`,
stop and start anew. DrvMain's life cycle is reduced to the steps that start,
configure and stop the queue.

`CmdService` has the accepted commands, the one the firmware works on, and the
callbacks owed after a reset. `OwedToClients` relates `aRecoveryQueue` to it;
`CallbacksOf`, the commands of a queue that have a callback, in order, is used by
both.

### TxHwQueue and TxResources

`TxResources` has the quantities the Tx path thinks in: used blocks, those the
firmware has not released, descriptors, what is kept for guarantees. `TxHwQueue`
has what the code has: free and reserved totals updated incrementally, per queue
an allocation counter and the firmware's release counter, both modulo `UINT32`,
and the packet counters modulo `UINT8`. The firmware's steps (`FwStep`) change
its counters alone; `UpdateFreeResources` reads them, whenever a DATA interrupt
comes. Every action of the one is a step of the other or a stutter.

### TxPath

The data path over `TxResources`. The network stack inserts a packet at any
point (`InsertPacket`), requests the scheduler when the pacing threshold is
reached and starts the pacing timer below it; `StopTx` comes in a step
of its own, since the code calls it after the request. The driver context is at
its top, in the scheduler's loop (`sched`), between dequeue and requeue of
a packet (`xmit`), in the update of the busy map after a release (`notify`), or
hung (`hung`). `cont` is where it goes on after a scheduler run. Busy flags
are kept at three levels as in the code: `busy` of the hardware queues,
`busyAcBitmap` of txCtrl, `aQueueBusy` of the data queues. Control blocks sent
to the firmware (`sent`), what it has and what it has posted are
counted, since a control block is freed later than its descriptor.

### TxMgmtQ

`mgmtQueuesSM` has an operator per event (`SmClose` ... `SmQueuesNotEmpty`),
`UpdateQueuesStates` is the port's. SM, port and scheduler call each other
in their last statements, so a nested call is a step to another `pc`: `event`
(QUEUES_NOT_EMPTY of a management packet), `sched` and `xmit` (the scheduler),
`check` (the rest of `runSchedulerNotFromSm`). The network stack inserts EAPOL
packets at any `pc` and leaves the event to the driver task (`txMgmtPending`).
The driver's life is `eState`: a recovery resets the busy flags
(`txCtrl_NotifyFwReset`, called by `drvMain_RecoveryNotify` alone), a START after a
STOP only resumes (`DrvMain.c:1715`-1731), so that an AC which the stop has found
busy stays so (`Stalled`).

### DrvMain

One action is one invocation of `drvMain_Sm` in one state for one event, with
all it calls: what a call completes within itself stores its event
(`Stored`), what it starts is completed by a callback action later (`twd`,
`smeStopping`). The stored event and the count of pending events are the
code's, so an event that overwrites another is seen. `SmFwConfig` starts the SME,
and `sme_Start` forgets a stop that is still under way except in a recovery
(`smeSm.c:225`). Around the SM:

* `InsertAction`, `WaitReturns`: a user thread that waits for its signal object,
  and frees it, at any point, for its wait ends after ten seconds (`timedOut`
  remembers whose did);
* `IgnoreAction`, `InvokeAction`: `drvMain_InvokeAction` for an action like or
  unlike the last;
* `SendFailureEvent`, `GetExpiry`, `HandleExpiry`: the health monitor's failure
  event, its way through a timer and the two expiry queues of `timer.c`, and
  `drvMain_Recovery`.

A user may ask for a STOP before any START: `wlanDrvIf_Stop` tests for FAILED only
(`WlanDrvIf.c:709`-721) and an ioctl leads to it (`WlanDrvWext.c:203`). `fault`, a
history variable, is set by what fails from outside: an init step, a failure
raised while the driver is not operational, such a STOP.

## 3. The runs

| Run | Instance | States | Shows |
|---|---|---|---|
| `txnq_two_functions` | 2 functions, 1 single step, 2 queued, different priorities | 666 000 | exclusion of scheduler and bus, no lost wakeup, single steps served |
| `txnq_aggregation` | 1 function, 2 ELP writes, an aggregation of 2, 1 of higher priority | 152 000 | a completion is the current transaction's, refinement of `TxnService` |
| `twif_counting` | 2 transactions (with / without callback), no restart | 48 000 | exact count, awake for pending work, transactions complete |
| `twif_restart` | 1 transaction, 2 restarts | 563 000 | wake lock, what waited before a restart is gone after it |
| `fwevent_run` | 1 result, a stop, 2 results after it in a table of 2 | 3 600 000 | no lost wakeup, no structure handed over twice, results in order, interrupts remembered |
| `fwevent_reported_in_order` | 2 results, no stop | violated | section 4 |
| `cmdq_life` | 3 clients' commands (2 with callback), 3 configuration steps, depth 2 | 32 000 | mailbox, awake request, owed callbacks, hangs noticed, refinement of `CmdService`, commands served |
| `txhw_wrap` | 2 ACs, 2 blocks (1 guaranteed), 2 descriptors, counters modulo 3 | 30 000 | accounts, guarantees, refinement of `TxResources` |
| `txpath_run` | 2 ACs, 4 blocks, 2 descriptors, 3 control blocks | 305 000 | busy queues wait for something, no packet stranded, packets served |
| `txmgmt_run` | queues of depth 3 | 21 000 | port and packets follow the connection, management first, EAPOL served |
| `drvmain_failures` | 2 STARTs, 2 STOPs in any order, 2 failures in any state, failing init steps, callers that give up | 270 000 | the SM and what it controls agree, failures have causes, signal objects, actions served, recoveries end |
| `drvmain_failure_ends` | as above with one STOP | violated | section 4 |

### Bounds, and why they are enough

* `TxnQueue`: two functions plus `Ext` are three contexts, enough for one in the
  scheduler, one that leaves `bSchedulerPend` and one that changes queues or
  states in between. One transaction per priority with reuse gives every order
  of completion and resubmission; two ELP structures let one be replaced in
  the slot while the other is on the bus; an aggregation of two has a start, an
  inside and an end. Transactions are handed over any number of times.
* `TwIf`: `UINT = 8` stands for 2^32; counts stay below 3, so an unguarded
  decrement at zero is the only wrap. `MaxAwake = 1` besides FwEvent's request
  separates "someone" from "FwEvent". Two restarts let the completion and the
  expiry of the first meet the second.
* `FwEvent`: `MaxResults` bounds the results of each life, `MaxStops` the stops. One result
  before the stop and two after it, which fill the table, let what is left of one
  life disturb the next. With three results, which overwrite an entry and, modulo 3,
  wrap the counter, a run takes longer than a few minutes: reuse and wrap-around are
  covered by the theorem `ResultsAreInOrder`, for any number of results and stops.
  The void callback "returns" either value (`CbReturns`): the run asks for
  the order as long as every call was counted, `fwevent_reported_in_order`
  without that condition.
* `CmdQueue`: a depth of two has a queue that is empty, one that is not, and one that
  is full; a client with a callback before and behind one without; a first, a
  middle and a last configuration step. Stops, failures and timeouts are not
  bounded.
* `TxHwQueue`: moduli of 3 are the least the assumptions allow for two blocks
  and two descriptors, so that every counter wraps all the time.
* `TxPath`: packets of one and of two blocks, thresholds and one block shared,
  two descriptors: each of the three resources (blocks, descriptors, control
  blocks) runs out alone. Pacing thresholds of 1 and 2 have the timer and the
  direct request.
* `TxMgmtQ`: a depth of three: one packet taken by the scheduler, one that makes
  the requeue fail when the stack fills the queue, and one more.
* `DrvMain`: `Chunks = 2` has a first and a last part of the firmware;
  two failures besides those of the init steps, which are not bounded, exhaust
  `MAX_NUM_OF_RECOVERY_TRIGGERS = 2`;
  two STARTs and two STOPs give a second life after a stop. Each action object
  is used once, and the failures are counted.

Deadlock is checked except where the system really may stop: `DrvMain` with its
actions and failures used up, `CmdQueue` and `TxPath` when a driver is stopped or
hung, `FwEvent` after its last stop.

### Fairness

Nobody is obliged to call; only what has begun goes on.

* `TxnQueue`: weak fairness of every context inside a call, of the bus
  (`TxnDone`) and of twIf's guard timer. `SingleStepServed` in addition assumes
  `CallsEnd`, for callers that never stop could keep the TxnDone context busy
  with scheduling for them.
* `TwIf`: weak fairness of TxnQ, bus and of the steps in which the driver
  task is bound to go on; strong fairness of what waits for the top of the driver
  task (a work queue that does get there again and again) and of the interrupt of
  a device that was woken; the callbacks return, and `twIf_TxnDoneCb` is fair to
  each transaction, for TxnQ calls it in the order of completion.
* `CmdQueue`: weak fairness of callbacks, configuration steps and running timers;
  strong fairness of what waits for the top of the driver task
  (`CommandComplete`, `TransferComplete`, `TimeOut`, `ProcessFailureEvent`). The
  firmware need not answer: the timeout is what the liveness rests on.
* `TxPath`: weak fairness of the scheduler and of the firmware's transmission;
  strong fairness of the clients that wait for the task (`RunTxData`,
  `TxSendPaceTimeout`, `DataInterrupt`).
* `TxMgmtQ`: weak fairness of the nested calls; strong fairness of
  `QueuesNotEmpty` and of the release of a busy AC, which `TxPath` shows; and
  `Sent`: a packet tried again and again does get resources once.
* `FwEvent`: none; its properties are about safety.
* `DrvMain`: weak fairness of the SM, the callbacks it waits for, the actions
  and the expiry of a started timer. User threads and failures have none.

## 4. What disagrees with the comments, and other observations

`drvmain_failure_ends` is violated: *STOPPING_ON_FAIL is not left*
(`DrvMain.c:1008`). The comment at 1866 says that `drvMain_TwdStopCb` passes the
SM on; it does so in STOPPING only.

`fwevent_reported_in_order` is violated: *a Tx result is reported twice and another
never* (`txResult.c:399`). `txCtrl_TxCompleteCb` is a void function (`txCtrl.c:72`,
604) cast to a type that returns `TI_BOOL` (`txResult.c:69`), and
`uHostResultsCounter`, the index of the next result, follows only if the register
happens to hold a value other than zero. The header of `txResult_HandleNewResults`
(349-353) promises a callback per result and a host counter equal to the firmware's,
and the firmware was told that all results are processed (384). As long as every
call is counted the order is kept: `CountedInOrder`.

The following were met while modelling. The runs are chosen so that the property
concerned is checked where it holds; each of them can be seen by relaxing the
instance as described.

**Transaction queue and TwIf**

* `txnQ_TxnDoneCb` may have passed its test of the state when `txnQ_Restart` sets
  RESTART (`TxnQueue.c:364`, comment 89): the restart then outlives its
  transaction and is ended by twIf's guard timer only.
* `txnQ_Run` does not test for RESTART (384-397). The callback of an old completion
  that reaches it while the restart is pending (`fwEvent_StateMachine` by
  `twIf_HwAvailable`) overwrites it: the transactions of before go on the bus
  again, TxnDone no longer sees a restart, and only the guard timer clears the
  queue and reports it. `RestartedClean` holds through all this; that the queue
  is empty then does not, for callbacks may have sent anew.
* `txnQ_ClearQueues` (`TxnQueue.c:845`, comments 126, 764) leaves `pAggregQueue`
  set, so after a restart within an aggregation `txnQ_SelectTxn` looks at the
  emptied queue alone and a single step starves. `SingleStepServed` is therefore
  checked without aggregation.
* `txnQ_ClearQueues` drops what waits without calling back (838);
  `ImplementsService` counts it as given back, as the callers' own restarts do.
* `twIf_Restart` zeroes `uPendingTxnCount` while completions of before it are under
  way (`TwIf.c:973`): they are counted against later transactions, and the device
  may go to sleep with a transaction waiting (617); the decrement on the return
  status (770) is not guarded and may wrap then. `CountIsPending` and
  `AwakeForPending` are checked without restarts.
* After a failed transaction `twIf_HandleTxnDone` leaves the rest of the done queue
  (988), relying on the recovery; an ELP structure can be handed over while it
  is still in a preempted scheduler (447).
* `twIf_PendRestratTimeout` does not test `bPendRestartTimerRunning`: a queued
  expiry reports a restart a second time.
* `twIf_HandleTxnDone` serves the done queue until it is empty: a callback that
  sends anew, completed in TxnDone each time, keeps the driver task in it.

**Interrupts and Tx results**

* The status is read before the table (`txResult.c:245`): a table read that is
  executed by the TxnDone context may be reported after a newer status, whose
  results `txResult` skips while READING. The last result then stays unreported
  until another DATA interrupt.
* A completion posted after `twIf_Restart` cleared the done queue starts FwEvent's
  SM anew in IDLE. It runs TxnQ over RESTART, so its read is usually sent and
  reported like any other. But if the queue is cleared with the read in it (by the
  guard timer, or by a TxnDone context that had seen RESTART already), against
  `TwIf.c:355`, or the device is off when the read is sent, the read ends without its
  callback and the SM stays in WAIT_INTR_INFO, deaf until the next stop puts it to
  IDLE. `InterruptKnown` excepts exactly this (`readLost`).
* The test of `eState` in `txResult_TxCmpltIntrCb` is under `#ifdef TI_DBG`. All
  builds of the makefiles have it (`stad/build/linux/common.inc:107`); without
  it a table would be handed over twice.

**Commands**

* A mailbox status error with no further command queued leaves `bErrorFlag` set
  (`CmdQueue.c:330`), through `cmdQueue_Restart` too: every later command is
  refused, and as `drvMain_ConfigFw` ignores the result of `TWD_ConfigFw`, the
  driver stays in FW_CONFIG. `CommandServed` speaks of commands accepted only.
* Callbacks saved by a stop are lost at the next one (590). The same keeps the
  configuration's own callbacks from being called as owed ones. Callbacks pending
  at a STOP are called at the end of the next START's configuration.
* A late timeout (`CmdMBox.c:274`, 331) recovers a healthy device.
* A read of the result that the bus refuses (281-287) has stopped the command's
  timeout and completes nothing: the mailbox is kept until the recovery that the bus
  error starts (`ReadFails`).
* A failure event that falls between FW_CONFIG and OPERATIONAL, or that a STOP
  clears from the operational queue (`timer.c:197`), leaves `failureEvent` set, and
  later failures are not reported (`healthMonitor.c:327`). `CommandServed` names
  these cases, `Unserved`, as its exception; `HangIsNoticed` counts a failure event
  as noticed.
* `cmdBld_ConfigFwCb` ignores its status; the comment at `CmdQueue.c:472` names
  commands that may be dropped with TI_OK, the code drops all types.

**Data and management path**

* `busyAcBitmap` and `aQueueBusy` are reset by `txCtrl_NotifyFwReset`, in a recovery
  only. After a STOP with a busy AC and a START they stay, and the control blocks
  of packets sent stay allocated; only `txCtrl_CheckForTxStuck` rescues them.
  `BusyIsReleased` is about the hardware queues; `NothingStranded` and
  `PacketServed` except such a restart (`restarted`).
* A requeue that fails calls `txCtrl_FreePacket` inside the critical section it
  then waits for (`pc = "hung"`).
* `wlanDrvIf_StopTx` called after the scheduler was requested may stop the stack
  after the resume (`WlanDrvIf.c:1099`); `txDataQ_StopQueue` with the map
  of one AC clears the busy flags of the others; a descriptor counter read from
  the firmware frees descriptors before control blocks are freed, so that
  `txCtrlBlk_Alloc` may return NULL, which `wlanDrvIf_Xmit` dereferences.
* An AC without a guarantee may starve, by design.
* `txMgmtQ_QueuesNotEmpty` comes late: if the EAPOL packet it tells of was sent by a
  scheduler run for a management packet, and the SM is back in OPEN_DATA, the
  event takes it to OPEN_MGMT, where nothing issues QUEUES_EMPTY; data stays
  disabled and later NOT_EMPTY events are ignored (against `txMgmtQueue.c:49`). If the
  EAPOL packet is inserted just before the second test for emptiness or before
  `SetConnState(OPEN)`, it waits for some busy map update. So `EapolServed` is
  about the handshake, not about an open connection.
* After a STOP with their AC busy and a START, `aQueueBusy` stays set here, too, and
  nothing in the firmware will release it: management and EAPOL packets wait for a
  recovery or for data that fill the AC and are released. `EapolServed` excepts
  it (`Stalled`).
* Management and EAPOL packets share an AC in strict priority: a flood of the
  former starves the latter, which `EapolServed` excepts. The result of
  `que_Requeue` is ignored (833): the packet is leaked when the queue is full.

**Life cycle**

* A second event in STOPPING_ON_FAIL switches the
  device off while the TWD still waits for a transaction. It is the one case that
  `PoweredWhileActive` excepts.
* A caller whose wait ends after ten seconds frees its action (`DrvMain.c:1366`),
  which is still served, and its signal object set. Without time-outs a failed
  driver does it: `bRecovery` is cleared before a failed recovery is tried
  again, and the end of that try sets the signal object of an action freed long ago.
  `SignalsLiveAction` says that there is nothing else.
* A caller that gives up while its action is queued leaves two actions for one
  schedule request: `drvMain_InvokeAction` takes one and asks for no further one,
  so the second waits for a third (`Forgotten`, which `ActionServed` excepts).
* A second stored event overwrites the first when an init step fails twice (1492):
  `hwInit_LoadFw` reports a failed download twice.
* A recovery that failed ends in STOPPED while START is the last action; the
  next START is ignored and answered with success.
* A STOP before the first START is an unexpected event in IDLE (1573) and fails the
  driver, with the ACTION client enabled; so does one in STOPPED after a recovery
  that failed. `wlanDrvIf_Stop` (`WlanDrvIf.c:709`-721), which
  `WlanDrvWext.c:203` calls, tests for FAILED only. `SteadyActions` allows for both;
  `drvMain_InsertAction` reads `eSmState` in the user's context (1374).

## 5. What is proved

All theorems are for every value of the constants that meets the named assumptions
of their module: any sets of functions, transactions, commands, actions, any
depths, widths and thresholds. Every safety property of the passing runs is stated by
a theorem. Two have a condition, `CountsUntilRestart` and `AwakeUntilRestart`: that
TwIf has not been restarted, after which the properties are false (section 4).

The exceptions that properties make for what the code does not prevent (`fault`,
`timedOut`, `readLost`, results not counted) are part of their statements and of
section 4.

**`TxnQueue_proofs`**

* `TypeCorrect`: `Spec => []TypeOK`. The inductive invariant adds that a context
  carries a transaction wherever the code uses it (`Carried`).
* `SchedulerIsExclusive`, `BusIsExclusive`, `DoneIsCurr`. The inductive
  invariant `Exclusion` needs, besides the busy flag, that `pCurrTxn` is the
  transaction of whoever owns the bus: the context between `send` and `bus`,
  the bus driver, or `txnQ_TxnDoneCb` before its last step. A context can only
  get past `check` when none of them does.
* `WakeupsAreKept`: `NothingStranded`, no wakeup is lost. The invariant `Waking`
  says who will look at what can be sent: a context on the way into the scheduler
  or before its last look, the one that sees `bSchedulerPend`, or the TxnDone
  to come; and that `bSchedulerPend` is only set while a context is in the
  scheduler to see it.
* `QueueImplementsService`: the refinement of `TxnService`. `Places` says that a
  transaction is in one place (`OnePlaceOf`): its own queue or slot, the
  bus, the done queue, or one context, and that all of these were handed
  over and not given back. With it, what `OnBus` and `Finished` collect is exact
  (`OnBusIs`, `FinishedIs`), and each action maps to a step of the service or to
  none by a lemma of its own. `InPlace` has what the ring operations need: a
  queue holds a transaction once, and only those of its function and priority.

**`TwIf_proofs`**

* `WakeLockIsBalanced`: `WakeLockBalanced` is inductive itself: every ELP write
  goes with a lock or an unlock, and a restart compensates for the missing one.
* `RestartIsClean`: the action property `RestartedClean`. `RestartInv` says that
  once TxnDone has left word of the restart, what waited as it began is gone and
  RESTART is over, and that this stays so until `HandleRecovery`, whatever the
  callbacks of old completions send, run or put to sleep meanwhile: what they send
  is new, and neither `txnQ_Run` nor `txnQ_Stop` leads back to RESTART.
* `CountsUntilRestart`, `AwakeUntilRestart`: up to the first restart the counter
  is the number of transactions handed over and not reported, and a transaction
  that waits keeps the device awake or being woken. `Apart` says that a
  transaction is in one place on its way, so that the set that is counted
  grows and shrinks by one element with the counter (`CountAdds`,
  `CountRemoves`, modulo its width: this needs fewer transactions than the width
  counts). A sleeping device's queue has at most the transaction that
  `twIf_Transact` is about to wake it for.

**`FwEvent_proofs`**

* `TypeCorrect`, `WakeupsAreKept`. That no wakeup is lost (`Covered`) depends on
  where the task is in its scan when a handler runs, hence on which client called it
  (`AtClient`): a flag set behind the scan needs work queued anew, one set
  before it does not. `Balanced` counts the wake locks: one per context between
  flag and work queue, one of the queued work, one of the running task.
* `TransactionsAreOnce`: `HandedOverOnce`. `WayInv` counts, with lemmas on the
  number of an element's occurrences in a queue, in which queue each of the
  three transaction structures may be, given the states of the two state
  machines, and that a table read is behind the write of the host counter that
  the one before it led to (`InTurn`).
* `ResultsAreInOrder`: `CountedInOrder`. `ReportInv` relates three counters:
  what the host has written back, what it has counted, what the firmware has
  posted; as long as each result reported was counted (`AllCounted`), they are in
  this order and the last is at most a table's length ahead
  of the first. Hence the entries between them are not overwritten (`InTable`,
  `ModDiffer`), in the firmware's table and in a copy that is still to be
  handled, and the difference modulo `CNTR_MOD` is the true one. A call that is not
  counted ends `AllCounted` for the rest of the life.
* `InterruptsAreKnown`: `InterruptKnown`. `KnownInv`: an interrupt that is not
  masked has the pending flag of the client, `bIntrPending`, or a status read
  that is yet to be executed to tell of it; and the SM waits for a status that does
  not come (`Unheard`) only after a read that ended without its callback.

**`CmdQueue_proofs`**

* `MailboxIsHeads`, `AwakeWhenBusy`. The inductive invariant has four parts:
  `Typing`; `WaitsWhileWorking` (SM, awake flag and TwIf's share follow from
  whether there is a command or a callback); `WorksWhenEnabled` (commands only
  between the configuration and the stop, no late read by then), without
  which a read of before a stop could complete a command of after it; `Holding` (the
  mailbox has the head from the trigger to the end of the read).
* `OwedAreClients`: `OwedToClients`. A stop saves the callbacks of what is queued,
  and only a stop out of FW_CONFIG finds commands of the configuration there
  (`StepsInConfig`); that stop leads to FAILED, where the list is never called
  (`StepsNotOwed`). `CallbacksOf` folds over the queue; that it picks only
  commands with a callback is an induction over the queue's length, carried out
  on the set of the lengths for which it holds (`SetInduction`, from the least
  element of a set of numbers).
* `HangsAreNoticed`: `HangIsNoticed`. `TimedInv` adds that a running timeout is
  one that will not be ignored in the present state of the driver.
* `QueueImplementsService`: the refinement of `CmdService`, late results, failing
  answers and resets included. Beyond `IInv` it needs that the mailbox
  forgets the command when it is done with it (`FreeMailbox`).

**`TxHwQueue_proofs`**

* `TypeCorrect`, `AccountsExact`, `GuaranteesKept`, and `Refinement` of
  `TxResources`. They rest on `NothingOverlooked` (theorem `FirmwareCovered`):
  the driver's used blocks and descriptors are never fewer than what
  the firmware still has. The lemmas on counters (`ModSub`, `ModAdd`, `CountUp`,
  `CountDown`) say when a difference modulo M is the true one; the assumptions
  that there are fewer blocks and descriptors than their counters count are
  what they need. The refinement maps each action by a lemma of its own.

**`TxPath_proofs`**

* `BusyQueuesAreReleased`: `BusyIsReleased`, a busy hardware queue waits for
  something. `HwInv`: a queue is busy because what its packet needs is not there
  (`BusyLacks`), and what is lent belongs to packets of the firmware
  (`LentToPackets`). If the firmware had no packet, nothing would be lent,
  everything would be available, and no queue could lack anything.
* `NoPacketIsStranded`: `NothingStranded`. The scheduler stops after four
  fruitless iterations, while packets arrive at queues it has just passed.
  `SchedInv` says that every queue it has visited since the last packet it sent
  is `Attended`: empty, busy, or requested again; `Age` is how many iterations
  ago that was, and after four the queues visited are all. `BusyTogether`
  ties the three levels of busy flags, until a restart (`restarted`), and
  `PortOK` the port to the driver's state.

**`TxMgmtQ_proofs`**

* `TypeCorrect`, `PortIsPermitted`, `SentArePermitted`, `MgmtGoesFirst`. The
  invariant says what the SM's state implies: for the connection
  (`SmFollowsConn`), the port (`PortFollowsSm`), the queues enabled
  (`EnabledFollowsSm`), the packet under way (`SentIsEnabled`), and in OPEN_DATA for what
  waits (`SeenInData`), through every nested call.

**`DrvMain_proofs`**

* `InputsAreOff`: `Spec => []InputsOffWhenDown`. `InputInv` adds that the device
  is on in every state of the init sequence, where `SmFwInit` relies on it.
* `ActionsAreSteady`: `Spec => SteadyActions`, whatever a user asks first.
  `ActionInv` says that the ACTION client is enabled in IDLE, OPERATIONAL and STOPPED
  only, or after a failure that an action has caused (`EnabledInv`): every
  event that these states expect disables it. `StartedInv` relates the last action
  to the state, so that the START which led to OPERATIONAL is not given again.
* `OperationalIsConsistent`: whatever fails, and without any condition. The
  invariant `LifeInv` says which operation of the TWD may be under way in which
  state, that two events are stored after a failed download only (`EventInv`),
  and that a recovery which gets past its first event began in OPERATIONAL, with
  the OAL running and the SME not stopping (`RecoveryInv`); from a recovery that
  did not there is no way back to OPERATIONAL.
* `FailuresHaveCauses`, `PoweredIsKept`, `SignalsAreLive`: the invariants have the
  form "`fault`, or ...". As long as nothing outside of the driver has failed, each
  event finds the SM in a state that expects it (`ServedInv`), the health monitor's
  expiry is one of an operational driver (`FailTimerInv`), and the last action is the
  one that led to the state (`LastActionInv`); so STOPPING_ON_FAIL, which switches
  the device off, is not reached. `CallerInv`: actions are queued
  once and answered only after they have left the queue, and an action is freed when
  it was answered or its caller gave up.

The type invariants of TxnQueue, FwEvent, TxHwQueue and TxMgmtQ are proved
and not listed in a run; TwIf's is a lemma of the others; CmdQueue, TxPath and DrvMain have the types their
arguments need as parts of the inductive invariants (`Typing`, `TimerTyping`,
`HwTypes`, `PathTypes`, parts of `EventInv`).

Only model-checked are the liveness properties (`SingleStepServed`,
`TxnCompletes`, `CommandServed`, `PacketServed`, `EapolServed`, `ActionServed`,
`RecoveryEnds`): they rest on fairness, which is defined by ENABLED, and that is out
of the proof system's reach. The invariants they would need are there: `Waking`,
`TimedInv` and `SchedInv` say in each state who will make the next step.

## 6. Plan

Done, in this order: TxnQueue, TwIf and DrvMain; CmdQueue with the timer module;
TxHwQueue and TxPath; TxMgmtQ; FwEvent with the context engine and txResult; the
proofs of their safety properties and of the three refinements.

What is left, by weight:

1. Theorems on what is true after a restart of TwIf: that the counter is off by no
   more than the completions that were under way (section 4), and when it is exact
   again. Full type invariants of CmdQueue, DrvMain and TxPath.
2. The bus driver (`SdioBusDrv.c`): parts of a transaction, the status read after
   the part that may change it (340), the aggregation length kept over a restart
   (385); shown to keep or to miss the contract that TxnQueue assumes.
3. The Rx path and the event mailbox on top of FwEvent.
4. Service channel arbitration (`scr.c`) and the SMs of MacServices on
   top of CmdService.
5. The GPS threads (`athr_gps.c:1055`): start, stop and cleanup of two threads.

## 7. Running

    tlc -workers 2 -config MCTxnQueue_two.cfg MCTxnQueue
    tlapm TxnQueue_proofs.tla

`fwevent_run` and `txnq_two_functions` take two to three minutes, `drvmain_failures`,
`twif_counting` and `txpath_run` a minute or two, the others seconds to half a minute. The proofs take from a quarter of a minute to a few minutes per module.
