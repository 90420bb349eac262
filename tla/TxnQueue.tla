------------------------------ MODULE TxnQueue ------------------------------
(***************************************************************************)
(* The transaction queue (Txn/TxnQueue.c): bus transactions of several     *)
(* functional drivers go through per-function priority queues to one bus   *)
(* driver.  Every functional driver calls it from its own driver context;  *)
(* the bus driver calls it back from an external TxnDone context.  Whoever *)
(* gets past the entry of txnQ_RunScheduler runs the scheduler for         *)
(* everybody.                                                              *)
(*                                                                         *)
(* A step is a critical section of the code, or one unprotected access to  *)
(* shared state together with the accesses to locals around it.            *)
(***************************************************************************)
EXTENDS Naturals, Sequences, FiniteSets

CONSTANTS
    Funcs,          \* the functional drivers (function IDs, ordered)
    MAX_PRIORITY,   \* priorities of a function: 0 (high) .. MAX_PRIORITY - 1
    Ext,            \* the external TxnDone context
    Txns,           \* the transaction structures
    FuncOf,         \* the function that owns a transaction
    PrioOf,         \* its priority
    SingleStep,     \* the single-step transactions (the ELP register writes)
    AggregOn,       \* data writes with TXN_AGGREGATE_ON
    AggregLast,     \* data writes that may end an aggregation (AGGREGATE_OFF)
    None            \* NULL

ASSUME FuncsAssumption == Funcs \subseteq Nat
ASSUME PrioAssumption == MAX_PRIORITY \in Nat
ASSUME CtxAssumption == Ext \notin Funcs
ASSUME TxnAssumption ==
    /\ FuncOf \in [Txns -> Funcs]
    /\ PrioOf \in [Txns -> 0 .. MAX_PRIORITY - 1]
    /\ None \notin Txns
    /\ None \notin Funcs \X (0 .. MAX_PRIORITY - 1)
ASSUME KindAssumption ==
    /\ SingleStep \subseteq Txns
    /\ AggregOn \subseteq Txns \ SingleStep
    /\ AggregLast \subseteq Txns \ (SingleStep \cup AggregOn)
    /\ \A s, t \in AggregOn \cup AggregLast :
          FuncOf[s] = FuncOf[t] => PrioOf[s] = PrioOf[t]

Ctx    == Funcs \cup {Ext}
Queues == Funcs \X (0 .. MAX_PRIORITY - 1)
QueueOf(t) == <<FuncOf[t], PrioOf[t]>>
TxnsOf(f)  == {t \in Txns : FuncOf[t] = f}

VARIABLES
    eState,          \* aFuncInfo[f].eState
    pSingleStep,     \* aFuncInfo[f].pSingleStep
    aTxnQueues,      \* one FIFO per function and priority
    hTxnDoneQueue,   \* completed transactions whose CB is still to be called
    pCurrTxn,        \* the transaction in the bus driver
    bSchedulerBusy,
    bSchedulerPend,
    pAggregQueue,    \* the queue an aggregation is taken from
    busTxn,          \* a transaction the bus driver completes asynchronously
    pc,              \* where each context is in the code
    pTxn,            \* its local pSelectedTxn, pCompletedTxn or hTxn (None: dead)
    pInputTxn,       \* the scheduler's argument in this iteration (None: dead)
    returnTxn,       \* the input transaction, when its status is not PENDING
    burst,           \* a function between two packets of one aggregation
    restarting,      \* txnQ_Restart returned PENDING, twIf's guard timer runs
    out              \* ghost: transactions handed over and not given back

info  == <<eState, pSingleStep, aTxnQueues, pAggregQueue>>
bus   == <<pCurrTxn, busTxn>>
sched == <<bSchedulerBusy, bSchedulerPend>>
ctx   == <<pTxn, pInputTxn, returnTxn>>
user  == <<burst, restarting, out>>
vars  == <<info, bus, sched, hTxnDoneQueue, pc, ctx, user>>

\* The code between taking and releasing bSchedulerBusy.
SchedulerPCs == {"check", "select", "send", "bus", "post", "drain", "cb", "leave"}
\* txnQ_TxnDoneCb before it runs the scheduler.
TxnDonePCs == {"doneEnqueue", "doneClear", "doneRecover", "doneNull"}
PCs == SchedulerPCs \cup TxnDonePCs \cup {"idle", "enter", "clear"}

Init ==
    /\ eState = [f \in Funcs |-> "NONE"]
    /\ pSingleStep = [f \in Funcs |-> None]
    /\ aTxnQueues = [q \in Queues |-> <<>>]
    /\ hTxnDoneQueue = <<>>
    /\ pCurrTxn = None
    /\ bSchedulerBusy = FALSE
    /\ bSchedulerPend = FALSE
    /\ pAggregQueue = None
    /\ busTxn = None
    /\ pc = [c \in Ctx |-> "idle"]
    /\ pTxn = [c \in Ctx |-> None]
    /\ pInputTxn = [c \in Ctx |-> None]
    /\ returnTxn = [c \in Ctx |-> None]
    /\ burst = [f \in Funcs |-> FALSE]
    /\ restarting = [f \in Funcs |-> FALSE]
    /\ out = {}

Goto(c, l) == pc' = [pc EXCEPT ![c] = l]
Forget(c)  == pTxn' = [pTxn EXCEPT ![c] = None]

\* A driver context with no call in progress.  A pending restart keeps nothing
\* out: callbacks of old completions still transact, run and stop the queue.
Ready(f) == pc[f] = "idle"

-----------------------------------------------------------------------------
(* The functional driver's calls.                                          *)

\* txnQ_Open: register the function, queues stopped.
Open(f) ==
    /\ Ready(f) /\ eState[f] = "NONE"
    /\ eState' = [eState EXCEPT ![f] = "STOPPED"]
    /\ UNCHANGED <<pSingleStep, aTxnQueues, pAggregQueue, bus, sched,
                   hTxnDoneQueue, pc, ctx, user>>

\* txnQ_Close.  The caller has nothing left in the queues when it unloads
\* (a destroyed queue must not be the one an aggregation is taken from).
Close(f) ==
    /\ Ready(f) /\ ~burst[f] /\ ~restarting[f]
    /\ eState[f] \in {"STOPPED", "RUNNING"}
    /\ out \cap TxnsOf(f) = {}
    /\ \A q \in Queues : q[1] = f => pAggregQueue # q
    /\ eState' = [eState EXCEPT ![f] = "NONE"]
    /\ UNCHANGED <<pSingleStep, aTxnQueues, pAggregQueue, bus, sched,
                   hTxnDoneQueue, pc, ctx, user>>

\* txnQ_Transact of a single-step transaction: the slot is written unlocked,
\* over one that still waits in it.  A structure that has left the slot is not
\* handed over again before it is given back.
TransactSingleStep(f, t) ==
    /\ Ready(f) /\ ~burst[f] /\ eState[f] # "NONE"
    /\ t \in TxnsOf(f) \cap SingleStep
    /\ t \in out => pSingleStep[f] = t
    /\ pSingleStep' = [pSingleStep EXCEPT ![f] = t]
    /\ out' = (out \ {pSingleStep[f]}) \cup {t}
    /\ pInputTxn' = [pInputTxn EXCEPT ![f] = t]
    /\ Goto(f, "enter")
    /\ UNCHANGED <<eState, aTxnQueues, pAggregQueue, bus, sched, hTxnDoneQueue,
                   pTxn, returnTxn, burst, restarting>>

\* txnQ_Transact of a queued transaction.  The packets of an aggregation are
\* handed over one after the other, up to one without the aggregation flag
\* (txXfer_SendAggregatedPkts).
TransactQueued(f, t) ==
    /\ Ready(f) /\ eState[f] # "NONE"
    /\ t \in TxnsOf(f) \ (SingleStep \cup out)
    /\ burst[f] => t \in AggregOn \cup AggregLast
    /\ t \in AggregOn => (AggregLast \cap TxnsOf(f)) \ out # {}
    /\ aTxnQueues' = [aTxnQueues EXCEPT ![QueueOf(t)] = Append(@, t)]
    /\ burst' = [burst EXCEPT ![f] = t \in AggregOn]
    /\ out' = out \cup {t}
    /\ pInputTxn' = [pInputTxn EXCEPT ![f] = t]
    /\ Goto(f, "enter")
    /\ UNCHANGED <<eState, pSingleStep, pAggregQueue, bus, sched, hTxnDoneQueue,
                   pTxn, returnTxn, restarting>>

\* txnQ_Run: the state is written unlocked, be it RESTART, then the scheduler
\* is run.
Run(f) ==
    /\ Ready(f) /\ ~burst[f] /\ eState[f] # "NONE"
    /\ eState' = [eState EXCEPT ![f] = "RUNNING"]
    /\ Goto(f, "enter")
    /\ UNCHANGED <<pSingleStep, aTxnQueues, pAggregQueue, bus, sched,
                   hTxnDoneQueue, ctx, user>>

\* txnQ_Stop: unlocked and unguarded as well.
Stop(f) ==
    /\ Ready(f) /\ ~burst[f] /\ eState[f] # "NONE"
    /\ eState' = [eState EXCEPT ![f] = "STOPPED"]
    /\ UNCHANGED <<pSingleStep, aTxnQueues, pAggregQueue, bus, sched,
                   hTxnDoneQueue, pc, ctx, user>>

CurrTxnOf(f) == pCurrTxn # None /\ FuncOf[pCurrTxn] = f

\* txnQ_Restart while a transaction of the caller is in progress: PENDING.
\* The driver does not restart again before the restart is reported to it.
RestartPending(f) ==
    /\ Ready(f) /\ ~burst[f] /\ ~restarting[f] /\ eState[f] # "NONE"
    /\ CurrTxnOf(f)
    /\ eState' = [eState EXCEPT ![f] = "RESTART"]
    /\ restarting' = [restarting EXCEPT ![f] = TRUE]
    /\ UNCHANGED <<pSingleStep, aTxnQueues, pAggregQueue, bus, sched,
                   hTxnDoneQueue, pc, ctx, burst, out>>

\* txnQ_Restart otherwise: leave the critical section, then clear.
RestartNow(f) ==
    /\ Ready(f) /\ ~burst[f] /\ ~restarting[f] /\ eState[f] # "NONE"
    /\ ~CurrTxnOf(f)
    /\ Goto(f, "clear")
    /\ UNCHANGED <<info, bus, sched, hTxnDoneQueue, ctx, user>>

\* The guard timer of a pending restart expires: twIf_PendRestratTimeout
\* calls txnQ_ClearQueues.
RestartTimeout(f) ==
    /\ Ready(f) /\ ~burst[f] /\ restarting[f]
    /\ Goto(f, "clear")
    /\ UNCHANGED <<info, bus, sched, hTxnDoneQueue, ctx, user>>

\* What txnQ_ClearQueues drops.
Waiting(f) ==
    {t \in TxnsOf(f) : \/ pSingleStep[f] = t
                       \/ \E i \in DOMAIN aTxnQueues[QueueOf(t)] :
                             aTxnQueues[QueueOf(t)][i] = t}

\* txnQ_ClearQueues: the waiting transactions are dropped without a CB.
ClearQueues(f) ==
    /\ pSingleStep' = [pSingleStep EXCEPT ![f] = None]
    /\ aTxnQueues' = [q \in Queues |-> IF q[1] = f THEN <<>> ELSE aTxnQueues[q]]
    /\ eState' = [eState EXCEPT ![f] = "RUNNING"]
    /\ out' = out \ Waiting(f)
    /\ UNCHANGED pAggregQueue

Clear(f) ==
    /\ pc[f] = "clear"
    /\ ClearQueues(f)
    /\ restarting' = [restarting EXCEPT ![f] = FALSE]
    /\ Goto(f, "idle")
    /\ UNCHANGED <<bus, sched, hTxnDoneQueue, ctx, burst>>

-----------------------------------------------------------------------------
(* txnQ_RunScheduler: bSchedulerBusy keeps a second context out, which     *)
(* leaves bSchedulerPend behind for the first to run once more.            *)

\* Busy: the call returns PENDING.
EnterBusy(c) ==
    /\ pc[c] = "enter" /\ bSchedulerBusy
    /\ bSchedulerPend' = TRUE
    /\ pInputTxn' = [pInputTxn EXCEPT ![c] = None]
    /\ Goto(c, "idle")
    /\ UNCHANGED <<info, bus, bSchedulerBusy, hTxnDoneQueue, pTxn, returnTxn, user>>

\* Mutant: the busy flag is set but not tested.
MutEnterFree(c) ==
    /\ pc[c] = "enter"
    /\ bSchedulerBusy' = TRUE
    /\ Goto(c, "check")
    /\ UNCHANGED <<info, bus, bSchedulerPend, hTxnDoneQueue, ctx, user>>

EnterFree(c) ==
    /\ pc[c] = "enter" /\ ~bSchedulerBusy
    /\ bSchedulerBusy' = TRUE
    /\ Goto(c, "check")
    /\ UNCHANGED <<info, bus, bSchedulerPend, hTxnDoneQueue, ctx, user>>

\* A call came meanwhile: another iteration, with no input transaction.
LeavePend(c) ==
    /\ pc[c] = "leave" /\ bSchedulerPend
    /\ bSchedulerPend' = FALSE
    /\ pInputTxn' = [pInputTxn EXCEPT ![c] = None]
    /\ Goto(c, "check")
    /\ UNCHANGED <<info, bus, bSchedulerBusy, hTxnDoneQueue, pTxn, returnTxn, user>>

\* Mutant: the scheduler leaves without looking at bSchedulerPend.
MutLeaveReturn(c) ==
    /\ pc[c] = "leave"
    /\ bSchedulerBusy' = FALSE /\ bSchedulerPend' = FALSE
    /\ out' = out \ {returnTxn[c]}
    /\ pInputTxn' = [pInputTxn EXCEPT ![c] = None]
    /\ returnTxn' = [returnTxn EXCEPT ![c] = None]
    /\ Goto(c, "idle")
    /\ UNCHANGED <<info, bus, hTxnDoneQueue, pTxn, burst, restarting>>

\* No call came: return the status of the input transaction.
LeaveReturn(c) ==
    /\ pc[c] = "leave" /\ ~bSchedulerPend
    /\ bSchedulerBusy' = FALSE
    /\ out' = out \ {returnTxn[c]}
    /\ pInputTxn' = [pInputTxn EXCEPT ![c] = None]
    /\ returnTxn' = [returnTxn EXCEPT ![c] = None]
    /\ Goto(c, "idle")
    /\ UNCHANGED <<info, bus, bSchedulerPend, hTxnDoneQueue, pTxn, burst, restarting>>

-----------------------------------------------------------------------------
(* txnQ_Scheduler.                                                         *)

\* A previous transaction is in progress: return PENDING at once.
CheckOccupied(c) ==
    /\ pc[c] = "check" /\ pCurrTxn # None
    /\ Goto(c, "leave")
    /\ UNCHANGED <<info, bus, sched, hTxnDoneQueue, ctx, user>>

\* Mutant: the scheduler does not test pCurrTxn before its loop.
MutCheckFree(c) ==
    /\ pc[c] = "check"
    /\ Goto(c, "select")
    /\ UNCHANGED <<info, bus, sched, hTxnDoneQueue, ctx, user>>

CheckFree(c) ==
    /\ pc[c] = "check" /\ pCurrTxn = None
    /\ Goto(c, "select")
    /\ UNCHANGED <<info, bus, sched, hTxnDoneQueue, ctx, user>>

\* Dequeue the head of queue q for the context c to send.
Dequeue(c, q) ==
    /\ pTxn' = [pTxn EXCEPT ![c] = Head(aTxnQueues[q])]
    /\ aTxnQueues' = [aTxnQueues EXCEPT ![q] = Tail(@)]
    /\ Goto(c, "send")

SelectingFree(c) == pc[c] = "select" /\ pAggregQueue = None

\* Within an aggregation only its queue is looked at, and left once a
\* transaction without the aggregation flag has been taken.
SelectAggregated(c) ==
    /\ pc[c] = "select" /\ pAggregQueue # None
    /\ aTxnQueues[pAggregQueue] # <<>>
    /\ Dequeue(c, pAggregQueue)
    /\ pAggregQueue' = IF Head(aTxnQueues[pAggregQueue]) \in AggregOn
                       THEN pAggregQueue ELSE None
    /\ UNCHANGED <<eState, pSingleStep, bus, sched, hTxnDoneQueue,
                   pInputTxn, returnTxn, user>>

SingleStepFuncs == {f \in Funcs : pSingleStep[f] # None}

\* A single step goes first, even when its function is stopped.
SelectSingleStep(c) ==
    /\ SelectingFree(c)
    /\ \E f \in SingleStepFuncs :
          /\ \A g \in SingleStepFuncs : f <= g
          /\ pTxn' = [pTxn EXCEPT ![c] = pSingleStep[f]]
          /\ pSingleStep' = [pSingleStep EXCEPT ![f] = None]
    /\ Goto(c, "send")
    /\ UNCHANGED <<eState, aTxnQueues, pAggregQueue, bus, sched, hTxnDoneQueue,
                   pInputTxn, returnTxn, user>>

ReadyQueues == {q \in Queues : eState[q[1]] = "RUNNING" /\ aTxnQueues[q] # <<>>}

\* All priorities from high to low, in each all functions.
Precedes(q, r) == q[2] < r[2] \/ (q[2] = r[2] /\ q[1] <= r[1])

SelectQueued(c) ==
    /\ SelectingFree(c) /\ SingleStepFuncs = {}
    /\ \E q \in ReadyQueues :
          /\ \A r \in ReadyQueues : Precedes(q, r)
          /\ Dequeue(c, q)
          /\ pAggregQueue' = IF Head(aTxnQueues[q]) \in AggregOn THEN q ELSE None
    /\ UNCHANGED <<eState, pSingleStep, bus, sched, hTxnDoneQueue,
                   pInputTxn, returnTxn, user>>

\* txnQ_SelectTxn finds something to send.
Sendable ==
    IF pAggregQueue # None THEN aTxnQueues[pAggregQueue] # <<>>
    ELSE SingleStepFuncs # {} \/ ReadyQueues # {}

SelectNothing(c) ==
    /\ pc[c] = "select" /\ ~Sendable
    /\ Goto(c, "drain")
    /\ UNCHANGED <<info, bus, sched, hTxnDoneQueue, ctx, user>>

\* pCurrTxn is set, then busDrv_Transact is called.
Send(c) ==
    /\ pc[c] = "send"
    /\ pCurrTxn' = pTxn[c]
    /\ Goto(c, "bus")
    /\ UNCHANGED <<info, busTxn, sched, hTxnDoneQueue, ctx, user>>

\* busDrv_Transact returns COMPLETE or ERROR (which the scheduler does not
\* tell apart).  The status of the input transaction is returned to its
\* caller, any other transaction goes to the TxnDone queue.
TransactComplete(c) ==
    /\ pc[c] = "bus"
    /\ pCurrTxn' = None
    /\ IF pTxn[c] = pInputTxn[c]
       THEN /\ returnTxn' = [returnTxn EXCEPT ![c] = pTxn[c]]
            /\ pInputTxn' = [pInputTxn EXCEPT ![c] = None]
            /\ Forget(c)
            /\ Goto(c, "select")
       ELSE /\ Goto(c, "post")
            /\ UNCHANGED ctx
    /\ UNCHANGED <<info, busTxn, sched, hTxnDoneQueue, user>>

\* Mutant: pCurrTxn is cleared whatever busDrv_Transact returns.
MutTransactAsync(c) ==
    /\ pc[c] = "bus"
    /\ pTxn[c] \notin AggregOn
    /\ busTxn' = pTxn[c]
    /\ pCurrTxn' = None
    /\ Forget(c)
    /\ Goto(c, "drain")
    /\ UNCHANGED <<info, sched, hTxnDoneQueue, pInputTxn, returnTxn, user>>

\* The bus driver goes on asynchronously and will return PENDING; an
\* aggregated packet is only copied to its buffer, so never here.
TransactAsync(c) ==
    /\ pc[c] = "bus"
    /\ pTxn[c] \notin AggregOn
    /\ busTxn' = pTxn[c]
    /\ Forget(c)
    /\ Goto(c, "drain")
    /\ UNCHANGED <<info, pCurrTxn, sched, hTxnDoneQueue, pInputTxn, returnTxn, user>>

Post(c) ==
    /\ pc[c] = "post"
    /\ hTxnDoneQueue' = Append(hTxnDoneQueue, pTxn[c])
    /\ Forget(c)
    /\ Goto(c, "select")
    /\ UNCHANGED <<info, bus, sched, pInputTxn, returnTxn, user>>

DrainNext(c) ==
    /\ pc[c] = "drain" /\ hTxnDoneQueue # <<>>
    /\ pTxn' = [pTxn EXCEPT ![c] = Head(hTxnDoneQueue)]
    /\ hTxnDoneQueue' = Tail(hTxnDoneQueue)
    /\ Goto(c, "cb")
    /\ UNCHANGED <<info, bus, sched, pInputTxn, returnTxn, user>>

DrainEnd(c) ==
    /\ pc[c] = "drain" /\ hTxnDoneQueue = <<>>
    /\ Goto(c, "leave")
    /\ UNCHANGED <<info, bus, sched, hTxnDoneQueue, ctx, user>>

\* The function's CB gives the transaction back.
CallDoneCb(c) ==
    /\ pc[c] = "cb"
    /\ out' = out \ {pTxn[c]}
    /\ Forget(c)
    /\ Goto(c, "drain")
    /\ UNCHANGED <<info, bus, sched, hTxnDoneQueue, pInputTxn, returnTxn,
                   burst, restarting>>

-----------------------------------------------------------------------------
(* txnQ_TxnDoneCb, in the external context.                                *)

\* The bus driver calls back, and the function's state is tested.
TxnDone ==
    /\ pc[Ext] = "idle" /\ busTxn # None
    /\ pTxn' = [pTxn EXCEPT ![Ext] = busTxn]
    /\ busTxn' = None
    /\ Goto(Ext, IF eState[FuncOf[busTxn]] = "RESTART"
                 THEN "doneClear" ELSE "doneEnqueue")
    /\ UNCHANGED <<info, pCurrTxn, sched, hTxnDoneQueue, pInputTxn, returnTxn, user>>

DoneEnqueue ==
    /\ pc[Ext] = "doneEnqueue"
    /\ hTxnDoneQueue' = Append(hTxnDoneQueue, pTxn[Ext])
    /\ Goto(Ext, "doneNull")
    /\ UNCHANGED <<info, bus, sched, ctx, user>>

DoneClear ==
    /\ pc[Ext] = "doneClear"
    /\ ClearQueues(FuncOf[pTxn[Ext]])
    /\ Goto(Ext, "doneRecover")
    /\ UNCHANGED <<bus, sched, hTxnDoneQueue, ctx, burst, restarting>>

\* The CB with TXN_PARAM_STATUS_RECOVERY ends the pending restart.
DoneRecover ==
    /\ pc[Ext] = "doneRecover"
    /\ out' = out \ {pTxn[Ext]}
    /\ restarting' = [restarting EXCEPT ![FuncOf[pTxn[Ext]]] = FALSE]
    /\ Goto(Ext, "doneNull")
    /\ UNCHANGED <<info, bus, sched, hTxnDoneQueue, ctx, burst>>

DoneNull ==
    /\ pc[Ext] = "doneNull"
    /\ pCurrTxn' = None
    /\ Forget(Ext)
    /\ Goto(Ext, "enter")
    /\ UNCHANGED <<info, busTxn, sched, hTxnDoneQueue, pInputTxn, returnTxn, user>>

-----------------------------------------------------------------------------
Transact(f) == \E t \in TxnsOf(f) : TransactSingleStep(f, t) \/ TransactQueued(f, t)

Call(f) ==
    Open(f) \/ Close(f) \/ Transact(f) \/ Run(f) \/ Stop(f)
        \/ RestartPending(f) \/ RestartNow(f)

RunScheduler(c) == EnterBusy(c) \/ EnterFree(c) \/ LeavePend(c) \/ LeaveReturn(c)

SelectTxn(c) ==
    SelectAggregated(c) \/ SelectSingleStep(c) \/ SelectQueued(c) \/ SelectNothing(c)

Scheduler(c) ==
    \/ CheckOccupied(c) \/ CheckFree(c) \/ SelectTxn(c)
    \/ Send(c) \/ TransactComplete(c) \/ TransactAsync(c) \/ Post(c)
    \/ DrainNext(c) \/ DrainEnd(c) \/ CallDoneCb(c)

TxnDoneCb == DoneEnqueue \/ DoneClear \/ DoneRecover \/ DoneNull

Next ==
    \/ \E f \in Funcs : Call(f) \/ RestartTimeout(f) \/ Clear(f)
    \/ \E c \in Ctx : RunScheduler(c) \/ Scheduler(c)
    \/ TxnDone \/ TxnDoneCb

\* A context that is inside a call goes on, the bus driver completes what it
\* has started, and the guard timer expires.  Nobody has to call again.
Fairness ==
    /\ \A f \in Funcs : WF_vars(Clear(f)) /\ WF_vars(RestartTimeout(f))
    /\ \A c \in Ctx : WF_vars(RunScheduler(c) \/ Scheduler(c))
    /\ WF_vars(TxnDone) /\ WF_vars(TxnDoneCb)

Spec == Init /\ [][Next]_vars
FairSpec == Spec /\ Fairness

-----------------------------------------------------------------------------
(* Invariants.                                                             *)

TxnOrNone == Txns \cup {None}

\* Type invariant of the queue, the contexts and the callers' view.
TypeOK ==
    /\ eState \in [Funcs -> {"NONE", "STOPPED", "RUNNING", "RESTART"}]
    /\ pSingleStep \in [Funcs -> TxnOrNone]
    /\ aTxnQueues \in [Queues -> Seq(Txns)]
    /\ hTxnDoneQueue \in Seq(Txns)
    /\ pCurrTxn \in TxnOrNone
    /\ bSchedulerBusy \in BOOLEAN /\ bSchedulerPend \in BOOLEAN
    /\ pAggregQueue \in Queues \cup {None}
    /\ busTxn \in TxnOrNone
    /\ pc \in [Ctx -> PCs]
    /\ pTxn \in [Ctx -> TxnOrNone]
    /\ pInputTxn \in [Ctx -> TxnOrNone]
    /\ returnTxn \in [Ctx -> TxnOrNone]
    /\ burst \in [Funcs -> BOOLEAN]
    /\ restarting \in [Funcs -> BOOLEAN]
    /\ out \subseteq Txns

InScheduler(c) == pc[c] \in SchedulerPCs

\* txnQ_RunScheduler "prevents scheduler reentry" of txnQ_Scheduler from the
\* driver contexts and the TxnDone context: one context at a time is in it,
\* and the busy flag is set exactly while one is.
SchedulerExclusive ==
    /\ \A c, d \in Ctx : InScheduler(c) /\ InScheduler(d) => c = d
    /\ bSchedulerBusy <=> \E c \in Ctx : InScheduler(c)

\* The bus driver is never handed a transaction while it still has one, or
\* while the completion of the last is not processed up to pCurrTxn = NULL.
BusExclusive ==
    \A c \in Ctx : pc[c] \in {"send", "bus"} =>
        busTxn = None /\ pc[Ext] \notin TxnDonePCs

\* txnQ_TxnDoneCb is only called back for pCurrTxn (the check that reports
\* "CB returned pTxn while pCurrTxn is" never fires).
DoneMatchesCurr ==
    /\ busTxn # None => pCurrTxn = busTxn
    /\ pc[Ext] \in TxnDonePCs => pCurrTxn = pTxn[Ext]

\* Where the queue keeps transaction t.
Holding(c, t) ==
    /\ pTxn[c] = t
    /\ pc[c] \in {"send", "bus", "post", "cb", "doneEnqueue", "doneClear", "doneRecover"}

\* No wakeup is lost: when every context has left and the bus is free, no
\* transaction is waiting that the scheduler would send, and every
\* completion has been delivered (a bSchedulerPend left behind, or a TxnDone
\* between the last check and the exit, would strand one).
NothingStranded ==
    (\A c \in Ctx : pc[c] = "idle") /\ busTxn = None =>
        /\ ~Sendable
        /\ hTxnDoneQueue = <<>>
        /\ ~bSchedulerBusy /\ ~bSchedulerPend

-----------------------------------------------------------------------------
(* Liveness.                                                               *)

\* From some time on the drivers do not call in.  (Callers that never stop
\* would keep the TxnDone context, which runs the scheduler for them, from
\* processing the next completion.)
CallsEnd == <>[][\A f \in Funcs : ~(pc[f] = "idle" /\ pc'[f] = "enter")]_vars

\* A single-step transaction (the ELP write that wakes the device) is given
\* back although its function is stopped, without another call.  True without
\* aggregations; after a restart inside one, pAggregQueue is left pointing to
\* an emptied queue and the single step waits for a transaction to come there.
SingleStepServed ==
    CallsEnd => \A t \in SingleStep : t \in out ~> t \notin out

-----------------------------------------------------------------------------
(* The queue implements TxnService.                                        *)

OnBus ==
    IF \E c \in Ctx : pc[c] \in {"send", "bus"}
    THEN pTxn[CHOOSE c \in Ctx : pc[c] \in {"send", "bus"}]
    ELSE busTxn

Finished ==
    {hTxnDoneQueue[i] : i \in DOMAIN hTxnDoneQueue}
    \cup {pTxn[c] : c \in {d \in Ctx : pc[d] \in
              {"post", "cb", "doneEnqueue", "doneClear", "doneRecover"}}}
    \cup ({returnTxn[c] : c \in Ctx} \ {None})

Service == INSTANCE TxnService WITH
    waiting <- aTxnQueues, slot <- pSingleStep, onBus <- OnBus, finished <- Finished

\* Across all interleavings the queue behaves as the sequential service:
\* FIFO per queue, one transaction on the bus, one report for each.
ImplementsService == Service!Spec
=============================================================================
