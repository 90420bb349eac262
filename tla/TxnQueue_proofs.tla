-------------------------- MODULE TxnQueue_proofs --------------------------
(***************************************************************************)
(* Proofs about TxnQueue, for any set of functions, priorities and         *)
(* transactions: type correctness, mutual exclusion of the scheduler and   *)
(* of the bus, no wakeup is lost, every transaction is in one place, and   *)
(* the queue implements TxnService.                                        *)
(***************************************************************************)
EXTENDS TxnQueue, SequenceTheorems, TLAPS

\* The contexts that carry a transaction in their local pTxn.
CarryPCs == {"send", "bus", "post", "cb"} \cup TxnDonePCs

\* A context carries a transaction where the code uses it, and only the
\* external context is in txnQ_TxnDoneCb.
Carried ==
    \A c \in Ctx : /\ pc[c] \in CarryPCs => pTxn[c] \in Txns
                   /\ pc[c] \in TxnDonePCs => c = Ext

\* The type invariant with what it takes to be inductive.
Typing == TypeOK /\ Carried

USE FuncsAssumption, PrioAssumption, CtxAssumption, TxnAssumption, KindAssumption
USE DEF Ctx, Queues, QueueOf, TxnsOf, TxnOrNone, Goto, Forget, Ready,
        PCs, SchedulerPCs, TxnDonePCs, CarryPCs

LEMMA TypingInit == Init => Typing
<1> SUFFICES ASSUME Init PROVE Typing
  OBVIOUS
<1>1. aTxnQueues \in [Queues -> Seq(Txns)] /\ hTxnDoneQueue \in Seq(Txns)
  BY DEF Init
<1>2. eState \in [Funcs -> {"NONE", "STOPPED", "RUNNING", "RESTART"}]
  BY DEF Init
<1>3. pc \in [Ctx -> PCs] /\ Carried
  BY DEF Init, Carried
<1> QED
  BY <1>1, <1>2, <1>3 DEF Init, Typing, TypeOK

\* What the scheduler takes from a queue is a transaction.
LEMMA DequeueType ==
    ASSUME Typing, NEW c \in Ctx, NEW q \in Queues, aTxnQueues[q] # <<>>, Dequeue(c, q)
    PROVE  /\ Head(aTxnQueues[q]) \in Txns
           /\ aTxnQueues' \in [Queues -> Seq(Txns)]
           /\ pTxn' \in [Ctx -> TxnOrNone]
           /\ pc' \in [Ctx -> PCs]
           /\ Carried'
<1>1. aTxnQueues[q] \in Seq(Txns) /\ aTxnQueues \in [Queues -> Seq(Txns)]
  BY DEF Typing, TypeOK
<1>2. Head(aTxnQueues[q]) \in Txns /\ Tail(aTxnQueues[q]) \in Seq(Txns)
  BY <1>1
<1>3. aTxnQueues' \in [Queues -> Seq(Txns)]
  BY <1>1, <1>2 DEF Dequeue
<1>4. /\ pTxn' \in [Ctx -> TxnOrNone]
      /\ pc' \in [Ctx -> PCs]
      /\ Carried'
  BY <1>2 DEF Dequeue, Typing, TypeOK, Carried
<1> QED
  BY <1>2, <1>3, <1>4

LEMMA TypingStep == Typing /\ [Next]_vars => Typing'
<1> SUFFICES ASSUME Typing, [Next]_vars PROVE Typing'
  OBVIOUS
<1> USE DEF Typing, TypeOK, Carried, info, bus, sched, ctx, user
<1>1. ASSUME NEW f \in Funcs, Open(f) PROVE Typing'
  BY <1>1 DEF Open
<1>2. ASSUME NEW f \in Funcs, Close(f) PROVE Typing'
  BY <1>2 DEF Close
<1>3. ASSUME NEW f \in Funcs, Run(f) PROVE Typing'
  BY <1>3 DEF Run
<1>4. ASSUME NEW f \in Funcs, Stop(f) PROVE Typing'
  BY <1>4 DEF Stop
<1>5. ASSUME NEW f \in Funcs, RestartPending(f) PROVE Typing'
  BY <1>5 DEF RestartPending
<1>6. ASSUME NEW f \in Funcs, RestartNow(f) PROVE Typing'
  BY <1>6 DEF RestartNow
<1>7. ASSUME NEW f \in Funcs, RestartTimeout(f) PROVE Typing'
  BY <1>7 DEF RestartTimeout
<1>8. ASSUME NEW f \in Funcs, Clear(f) PROVE Typing'
  BY <1>8 DEF Clear, ClearQueues
<1>9. ASSUME NEW f \in Funcs, NEW t \in TxnsOf(f), TransactSingleStep(f, t) PROVE Typing'
  BY <1>9 DEF TransactSingleStep
<1>10. ASSUME NEW f \in Funcs, NEW t \in TxnsOf(f), TransactQueued(f, t) PROVE Typing'
  <2>1. t \in Txns
    OBVIOUS
  <2>2. aTxnQueues' \in [Queues -> Seq(Txns)]
    <3>1. QueueOf(t) \in Queues
      BY <2>1
    <3>2. Append(aTxnQueues[QueueOf(t)], t) \in Seq(Txns)
      BY <2>1, <3>1
    <3> QED BY <1>10, <3>1, <3>2 DEF TransactQueued
  <2>3. /\ burst' \in [Funcs -> BOOLEAN]
        /\ out' \subseteq Txns
        /\ pInputTxn' \in [Ctx -> TxnOrNone]
        /\ pc' \in [Ctx -> PCs]
    BY <1>10, <2>1 DEF TransactQueued
  <2>4. Carried'
    BY <1>10 DEF TransactQueued
  <2> QED BY <1>10, <2>2, <2>3, <2>4 DEF TransactQueued
<1>11. ASSUME NEW c \in Ctx, EnterBusy(c) PROVE Typing'
  BY <1>11 DEF EnterBusy
<1>12. ASSUME NEW c \in Ctx, EnterFree(c) PROVE Typing'
  BY <1>12 DEF EnterFree
<1>13. ASSUME NEW c \in Ctx, LeavePend(c) PROVE Typing'
  BY <1>13 DEF LeavePend
<1>14. ASSUME NEW c \in Ctx, LeaveReturn(c) PROVE Typing'
  BY <1>14 DEF LeaveReturn
<1>15. ASSUME NEW c \in Ctx, CheckOccupied(c) PROVE Typing'
  BY <1>15 DEF CheckOccupied
<1>16. ASSUME NEW c \in Ctx, CheckFree(c) PROVE Typing'
  BY <1>16 DEF CheckFree
<1>17. ASSUME NEW c \in Ctx, SelectAggregated(c) PROVE Typing'
  <2>1. /\ pAggregQueue \in Queues /\ aTxnQueues[pAggregQueue] # <<>>
        /\ Dequeue(c, pAggregQueue)
    BY <1>17 DEF SelectAggregated
  <2>2. /\ aTxnQueues' \in [Queues -> Seq(Txns)]
        /\ pTxn' \in [Ctx -> TxnOrNone] /\ pc' \in [Ctx -> PCs] /\ Carried'
    BY <2>1, DequeueType
  <2>3. pAggregQueue' \in Queues \cup {None}
    BY <1>17, <2>1 DEF SelectAggregated
  <2> QED
    BY <1>17, <2>2, <2>3 DEF SelectAggregated
<1>18. ASSUME NEW c \in Ctx, SelectSingleStep(c) PROVE Typing'
  <2>1. PICK f \in Funcs :
            /\ pSingleStep[f] # None
            /\ pTxn' = [pTxn EXCEPT ![c] = pSingleStep[f]]
            /\ pSingleStep' = [pSingleStep EXCEPT ![f] = None]
    BY <1>18 DEF SelectSingleStep, SingleStepFuncs
  <2>2. pSingleStep[f] \in Txns /\ pSingleStep' \in [Funcs -> TxnOrNone]
    BY <2>1
  <2>3. pTxn' \in [Ctx -> TxnOrNone] /\ pc' \in [Ctx -> PCs] /\ Carried'
    BY <1>18, <2>1, <2>2 DEF SelectSingleStep, SelectingFree
  <2> QED
    BY <1>18, <2>2, <2>3 DEF SelectSingleStep
<1>19. ASSUME NEW c \in Ctx, SelectQueued(c) PROVE Typing'
  <2>1. PICK q \in Queues : /\ aTxnQueues[q] # <<>> /\ Dequeue(c, q)
                            /\ pAggregQueue' \in {q, None}
    BY <1>19 DEF SelectQueued, ReadyQueues
  <2>2. /\ aTxnQueues' \in [Queues -> Seq(Txns)]
        /\ pTxn' \in [Ctx -> TxnOrNone] /\ pc' \in [Ctx -> PCs] /\ Carried'
    BY <2>1, DequeueType
  <2>3. pAggregQueue' \in Queues \cup {None}
    BY <2>1
  <2> QED
    BY <1>19, <2>2, <2>3 DEF SelectQueued
<1>20. ASSUME NEW c \in Ctx, SelectNothing(c) PROVE Typing'
  BY <1>20 DEF SelectNothing
<1>21. ASSUME NEW c \in Ctx, Send(c) PROVE Typing'
  BY <1>21 DEF Send
<1>22. ASSUME NEW c \in Ctx, TransactComplete(c) PROVE Typing'
  <2>1. CASE pTxn[c] = pInputTxn[c]
    <3>1. /\ pc' = [pc EXCEPT ![c] = "select"]
          /\ pTxn' = [pTxn EXCEPT ![c] = None]
          /\ pInputTxn' = [pInputTxn EXCEPT ![c] = None]
          /\ returnTxn' = [returnTxn EXCEPT ![c] = pTxn[c]]
      BY <1>22, <2>1 DEF TransactComplete
    <3>2. TypeOK'
      BY <1>22, <3>1 DEF TransactComplete
    <3>3. Carried'
      BY <3>1
    <3> QED
      BY <3>2, <3>3
  <2>2. CASE pTxn[c] # pInputTxn[c]
    BY <1>22, <2>2 DEF TransactComplete
  <2> QED
    BY <2>1, <2>2
<1>23. ASSUME NEW c \in Ctx, TransactAsync(c) PROVE Typing'
  BY <1>23 DEF TransactAsync
<1>24. ASSUME NEW c \in Ctx, Post(c) PROVE Typing'
  BY <1>24 DEF Post
<1>25. ASSUME NEW c \in Ctx, DrainNext(c) PROVE Typing'
  BY <1>25 DEF DrainNext
<1>26. ASSUME NEW c \in Ctx, DrainEnd(c) PROVE Typing'
  BY <1>26 DEF DrainEnd
<1>27. ASSUME NEW c \in Ctx, CallDoneCb(c) PROVE Typing'
  BY <1>27 DEF CallDoneCb
<1>28. ASSUME TxnDone PROVE Typing'
  BY <1>28 DEF TxnDone
<1>29. ASSUME DoneEnqueue PROVE Typing'
  <2>1. pTxn[Ext] \in Txns
    BY <1>29 DEF DoneEnqueue
  <2> QED
    BY <1>29, <2>1 DEF DoneEnqueue
<1>30. ASSUME DoneClear PROVE Typing'
  <2>1. pTxn[Ext] \in Txns /\ FuncOf[pTxn[Ext]] \in Funcs
    BY <1>30 DEF DoneClear
  <2> QED
    BY <1>30, <2>1 DEF DoneClear, ClearQueues
<1>31. ASSUME DoneRecover PROVE Typing'
  BY <1>31 DEF DoneRecover
<1>32. ASSUME DoneNull PROVE Typing'
  BY <1>32 DEF DoneNull
<1>33. CASE UNCHANGED vars
  BY <1>33 DEF vars, info, bus, sched, ctx, user
<1> QED
  BY <1>1, <1>2, <1>3, <1>4, <1>5, <1>6, <1>7, <1>8, <1>9, <1>10, <1>11, <1>12, <1>13,
     <1>14, <1>15, <1>16, <1>17, <1>18, <1>19, <1>20, <1>21, <1>22, <1>23, <1>24, <1>25,
     <1>26, <1>27, <1>28, <1>29, <1>30, <1>31, <1>32, <1>33
     DEF Next, Call, Transact, RunScheduler, SelectTxn, Scheduler, TxnDoneCb

\* TypeOK holds for every value of the constants.
THEOREM TypeCorrect == Spec => []TypeOK
<1>1. Typing => TypeOK
  BY DEF Typing
<1> QED
  BY <1>1, TypingInit, TypingStep, PTL DEF Spec

-----------------------------------------------------------------------------
\* Who may touch the bus: pCurrTxn is NULL where the scheduler is about to
\* send, it is the transaction in the bus driver while there is one, and it
\* stays so until txnQ_TxnDoneCb is through.
BusOwned ==
    /\ \A c \in Ctx : pc[c] \in {"select", "send", "post"} => pCurrTxn = None
    /\ \A c \in Ctx : pc[c] = "bus" =>
          pCurrTxn = pTxn[c] /\ busTxn = None /\ pc[Ext] \notin TxnDonePCs
    /\ pc[Ext] \in TxnDonePCs => busTxn = None
    /\ DoneMatchesCurr

Exclusion == SchedulerExclusive /\ BusOwned

LEMMA ExclusionInit == Init => Exclusion
BY DEF Init, Exclusion, SchedulerExclusive, InScheduler, BusOwned, DoneMatchesCurr

LEMMA ExclusionStep == Typing /\ Exclusion /\ [Next]_vars => Exclusion'
<1> SUFFICES ASSUME Typing, Exclusion, [Next]_vars PROVE Exclusion'
  OBVIOUS
<1> USE DEF Typing, TypeOK, Carried, Exclusion, SchedulerExclusive, InScheduler,
            BusOwned, DoneMatchesCurr, info, bus, sched, ctx, user
<1>1. ASSUME NEW f \in Funcs, Open(f) PROVE Exclusion'
  BY <1>1 DEF Open
<1>2. ASSUME NEW f \in Funcs, Close(f) PROVE Exclusion'
  BY <1>2 DEF Close
<1>3. ASSUME NEW f \in Funcs, Run(f) PROVE Exclusion'
  BY <1>3 DEF Run
<1>4. ASSUME NEW f \in Funcs, Stop(f) PROVE Exclusion'
  BY <1>4 DEF Stop
<1>5. ASSUME NEW f \in Funcs, RestartPending(f) PROVE Exclusion'
  BY <1>5 DEF RestartPending
<1>6. ASSUME NEW f \in Funcs, RestartNow(f) PROVE Exclusion'
  BY <1>6 DEF RestartNow
<1>7. ASSUME NEW f \in Funcs, RestartTimeout(f) PROVE Exclusion'
  BY <1>7 DEF RestartTimeout
<1>8. ASSUME NEW f \in Funcs, Clear(f) PROVE Exclusion'
  BY <1>8 DEF Clear, ClearQueues
<1>9. ASSUME NEW f \in Funcs, NEW t \in TxnsOf(f), TransactSingleStep(f, t) PROVE Exclusion'
  BY <1>9 DEF TransactSingleStep
<1>10. ASSUME NEW f \in Funcs, NEW t \in TxnsOf(f), TransactQueued(f, t) PROVE Exclusion'
  BY <1>10 DEF TransactQueued
<1>11. ASSUME NEW c \in Ctx, EnterBusy(c) PROVE Exclusion'
  BY <1>11 DEF EnterBusy
<1>12. ASSUME NEW c \in Ctx, EnterFree(c) PROVE Exclusion'
  BY <1>12 DEF EnterFree
<1>13. ASSUME NEW c \in Ctx, LeavePend(c) PROVE Exclusion'
  BY <1>13 DEF LeavePend
<1>14. ASSUME NEW c \in Ctx, LeaveReturn(c) PROVE Exclusion'
  BY <1>14 DEF LeaveReturn
<1>15. ASSUME NEW c \in Ctx, CheckOccupied(c) PROVE Exclusion'
  BY <1>15 DEF CheckOccupied
<1>16. ASSUME NEW c \in Ctx, CheckFree(c) PROVE Exclusion'
  BY <1>16 DEF CheckFree
<1>17. ASSUME NEW c \in Ctx, SelectAggregated(c) PROVE Exclusion'
  BY <1>17 DEF SelectAggregated, Dequeue, SelectingFree
<1>18. ASSUME NEW c \in Ctx, SelectSingleStep(c) PROVE Exclusion'
  BY <1>18 DEF SelectSingleStep, SelectingFree
<1>19. ASSUME NEW c \in Ctx, SelectQueued(c) PROVE Exclusion'
  BY <1>19 DEF SelectQueued, Dequeue, SelectingFree
<1>20. ASSUME NEW c \in Ctx, SelectNothing(c) PROVE Exclusion'
  BY <1>20 DEF SelectNothing
<1>21. ASSUME NEW c \in Ctx, Send(c) PROVE Exclusion'
  <2>1. pTxn[c] \in Txns /\ busTxn = None /\ pc[Ext] \notin TxnDonePCs
    <3>1. pCurrTxn = None /\ pTxn[c] \in Txns
      BY <1>21 DEF Send
    <3>2. pc[Ext] \notin TxnDonePCs
      <4>1. pc[Ext] \in TxnDonePCs => pTxn[Ext] \in Txns /\ pCurrTxn = pTxn[Ext]
        OBVIOUS
      <4> QED
        BY <3>1, <4>1
    <3> QED
      BY <3>1, <3>2
  <2>2. /\ pc' = [pc EXCEPT ![c] = "bus"] /\ pCurrTxn' = pTxn[c]
        /\ UNCHANGED <<pTxn, busTxn, bSchedulerBusy>>
    BY <1>21 DEF Send
  <2>3. \A d \in Ctx : InScheduler(d)' <=> InScheduler(d)
    BY <1>21, <2>2 DEF Send
  <2>4. \A d \in Ctx \ {c} : pc'[d] \notin SchedulerPCs
    BY <1>21, <2>2, <2>3 DEF Send
  <2> QED
    BY <2>1, <2>2, <2>3, <2>4
<1>22. ASSUME NEW c \in Ctx, TransactComplete(c) PROVE Exclusion'
  <2>1. /\ pCurrTxn' = None /\ UNCHANGED <<busTxn, bSchedulerBusy>>
        /\ \/ pc' = [pc EXCEPT ![c] = "select"]
           \/ pc' = [pc EXCEPT ![c] = "post"]
    BY <1>22 DEF TransactComplete
  <2>2. pc[c] = "bus" /\ busTxn = None /\ pc[Ext] \notin TxnDonePCs
    BY <1>22 DEF TransactComplete
  <2>3. \A d \in Ctx : InScheduler(d)' <=> InScheduler(d)
    BY <2>1, <2>2
  <2>4. \A d \in Ctx \ {c} : pc'[d] \notin SchedulerPCs
    BY <2>1, <2>2, <2>3
  <2> QED
    BY <2>1, <2>2, <2>3, <2>4
<1>23. ASSUME NEW c \in Ctx, TransactAsync(c) PROVE Exclusion'
  BY <1>23 DEF TransactAsync
<1>24. ASSUME NEW c \in Ctx, Post(c) PROVE Exclusion'
  BY <1>24 DEF Post
<1>25. ASSUME NEW c \in Ctx, DrainNext(c) PROVE Exclusion'
  BY <1>25 DEF DrainNext
<1>26. ASSUME NEW c \in Ctx, DrainEnd(c) PROVE Exclusion'
  BY <1>26 DEF DrainEnd
<1>27. ASSUME NEW c \in Ctx, CallDoneCb(c) PROVE Exclusion'
  BY <1>27 DEF CallDoneCb
<1>28. ASSUME TxnDone PROVE Exclusion'
  BY <1>28 DEF TxnDone
<1>29. ASSUME DoneEnqueue PROVE Exclusion'
  BY <1>29 DEF DoneEnqueue
<1>30. ASSUME DoneClear PROVE Exclusion'
  BY <1>30 DEF DoneClear, ClearQueues
<1>31. ASSUME DoneRecover PROVE Exclusion'
  BY <1>31 DEF DoneRecover
<1>32. ASSUME DoneNull PROVE Exclusion'
  BY <1>32 DEF DoneNull
<1>33. CASE UNCHANGED vars
  BY <1>33 DEF vars
<1> QED
  BY <1>1, <1>2, <1>3, <1>4, <1>5, <1>6, <1>7, <1>8, <1>9, <1>10, <1>11, <1>12, <1>13,
     <1>14, <1>15, <1>16, <1>17, <1>18, <1>19, <1>20, <1>21, <1>22, <1>23, <1>24, <1>25,
     <1>26, <1>27, <1>28, <1>29, <1>30, <1>31, <1>32, <1>33
     DEF Next, Call, Transact, RunScheduler, SelectTxn, Scheduler, TxnDoneCb

\* One context at a time is in the scheduler, and bSchedulerBusy says so.
THEOREM SchedulerIsExclusive == Spec => []SchedulerExclusive
<1>1. Exclusion => SchedulerExclusive
  BY DEF Exclusion
<1> QED
  BY <1>1, TypingInit, TypingStep, ExclusionInit, ExclusionStep, PTL DEF Spec

\* The bus driver is handed a transaction only when it has none.
THEOREM BusIsExclusive == Spec => []BusExclusive
<1>1. Typing /\ Exclusion => BusExclusive
  BY DEF Typing, TypeOK, Carried, Exclusion, BusOwned, DoneMatchesCurr, BusExclusive
<1> QED
  BY <1>1, TypingInit, TypingStep, ExclusionInit, ExclusionStep, PTL DEF Spec

\* The completion the bus driver reports is the one the queue waits for.
THEOREM DoneIsCurr == Spec => []DoneMatchesCurr
<1>1. Exclusion => DoneMatchesCurr
  BY DEF Exclusion, BusOwned
<1> QED
  BY <1>1, TypingInit, TypingStep, ExclusionInit, ExclusionStep, PTL DEF Spec

-----------------------------------------------------------------------------
(* No wakeup is lost.                                                      *)

\* Somebody will look at the queues, again if need be: on the way into the scheduler
\* or in it before its last look, behind bSchedulerPend, or in the TxnDone that is
\* to come.
Attended ==
    \/ \E c \in Ctx : pc[c] \in {"enter", "check", "select", "send", "bus", "post"}
    \/ bSchedulerPend
    \/ busTxn # None \/ pc[Ext] \in TxnDonePCs

Waking ==
    /\ Sendable => Attended
    /\ hTxnDoneQueue # <<>> => Attended \/ \E c \in Ctx : pc[c] \in {"drain", "cb"}
    /\ bSchedulerPend => \E c \in Ctx : InScheduler(c)
    /\ pCurrTxn # None => \/ busTxn # None \/ pc[Ext] \in TxnDonePCs
                          \/ \E c \in Ctx : pc[c] = "bus"

\* A function that is not RUNNING, or whose queues are cleared, gives the scheduler
\* nothing to send.
LEMMA StoppedSendsNothing ==
    ASSUME Typing, NEW f \in Funcs, NEW s,
           eState' = [eState EXCEPT ![f] = s], s # "RUNNING",
           UNCHANGED <<pSingleStep, aTxnQueues, pAggregQueue>>
    PROVE  Sendable' => Sendable
<1>1. ReadyQueues' \subseteq ReadyQueues
      BY DEF Typing, TypeOK, ReadyQueues
<1> QED BY <1>1 DEF Sendable, SingleStepFuncs

LEMMA ClearedSendsNothing ==
    ASSUME Typing, NEW f \in Funcs, ClearQueues(f)
    PROVE  Sendable' => Sendable
<1>1. /\ \A q \in Queues : aTxnQueues'[q] # <<>> => aTxnQueues'[q] = aTxnQueues[q] /\ q[1] # f
      /\ pAggregQueue' = pAggregQueue
      BY DEF ClearQueues
<1>2. ReadyQueues' \subseteq ReadyQueues
      BY <1>1 DEF Typing, TypeOK, ReadyQueues, ClearQueues
<1>3. SingleStepFuncs' \subseteq SingleStepFuncs
      BY DEF Typing, TypeOK, SingleStepFuncs, ClearQueues
<1>4. pAggregQueue # None => pAggregQueue \in Queues
      BY DEF Typing, TypeOK
<1> QED BY <1>1, <1>2, <1>3, <1>4 DEF Sendable

LEMMA SameSendable ==
    ASSUME UNCHANGED info PROVE Sendable' = Sendable
  BY DEF info, Sendable, SingleStepFuncs, ReadyQueues

LEMMA WakingInit == Init => Waking
<1> SUFFICES ASSUME Init PROVE Waking
    OBVIOUS
<1>1. ~Sendable
      BY DEF Init, Sendable, SingleStepFuncs, ReadyQueues
<1> QED BY <1>1 DEF Init, Waking

LEMMA WakingStep == Typing /\ Exclusion /\ Waking /\ [Next]_vars => Waking'
<1> SUFFICES ASSUME Typing, Exclusion, Waking, [Next]_vars PROVE Waking'
    OBVIOUS
<1> USE DEF Attended, Waking, InScheduler, bus, sched
<1>t. pc \in [Ctx -> PCs] /\ Ext \in Ctx
      BY DEF Typing, TypeOK
\* What a driver does that runs no scheduler.
<1>1. ASSUME UNCHANGED <<pc, bus, sched, hTxnDoneQueue>>, Sendable' => Sendable
      PROVE  Waking'
      BY <1>1
<1>2. ASSUME NEW f \in Funcs, Open(f) \/ Close(f) \/ Stop(f) \/ RestartPending(f)
      PROVE  Waking'
      BY <1>1, <1>2, StoppedSendsNothing DEF Open, Close, Stop, RestartPending
<1>3. ASSUME NEW f \in Funcs, NEW t \in TxnsOf(f),
             TransactSingleStep(f, t) \/ TransactQueued(f, t)
      PROVE  Waking'
  <2>1. /\ pc[f] = "idle" /\ pc' = [pc EXCEPT ![f] = "enter"]
        /\ UNCHANGED <<bus, sched, hTxnDoneQueue>>
        BY <1>3 DEF TransactSingleStep, TransactQueued
  <2>2. Attended'
        BY <1>t, <2>1
  <2> QED BY <1>t, <2>1, <2>2
<1>4. ASSUME NEW f \in Funcs, Run(f) PROVE Waking'
  <2>1. /\ pc[f] = "idle" /\ pc' = [pc EXCEPT ![f] = "enter"]
        /\ UNCHANGED <<bus, sched, hTxnDoneQueue>>
        BY <1>4 DEF Run
  <2>2. Attended'
        BY <1>t, <2>1
  <2> QED BY <1>t, <2>1, <2>2
<1>5. ASSUME NEW f \in Funcs, RestartNow(f) \/ RestartTimeout(f) PROVE Waking'
  <2>1. /\ pc[f] = "idle" /\ pc' = [pc EXCEPT ![f] = "clear"]
        /\ UNCHANGED <<info, bus, sched, hTxnDoneQueue>>
        BY <1>5 DEF RestartNow, RestartTimeout
  <2> QED BY <1>t, <2>1, SameSendable
<1>6. ASSUME NEW f \in Funcs, Clear(f) PROVE Waking'
  <2>1. /\ pc[f] = "clear" /\ pc' = [pc EXCEPT ![f] = "idle"]
        /\ UNCHANGED <<bus, sched, hTxnDoneQueue>> /\ ClearQueues(f)
        BY <1>6 DEF Clear
  <2> QED BY <1>t, <2>1, ClearedSendsNothing
<1>7. ASSUME NEW c \in Ctx, EnterBusy(c) PROVE Waking'
  <2>1. \E d \in Ctx : InScheduler(d)
        BY <1>7 DEF EnterBusy, Exclusion, SchedulerExclusive
  <2> QED BY <1>7, <1>t, <2>1, SameSendable DEF EnterBusy
<1>8. ASSUME NEW c \in Ctx, EnterFree(c) PROVE Waking'
      BY <1>8, <1>t, SameSendable DEF EnterFree
<1>9. ASSUME NEW c \in Ctx, LeavePend(c) PROVE Waking'
      BY <1>9, <1>t, SameSendable DEF LeavePend
<1>10. ASSUME NEW c \in Ctx, LeaveReturn(c) PROVE Waking'
      BY <1>10, <1>t, SameSendable DEF LeaveReturn
<1>11. ASSUME NEW c \in Ctx, CheckOccupied(c) PROVE Waking'
  <2>1. \A d \in Ctx : pc[d] # "bus"
        BY <1>11 DEF CheckOccupied, Exclusion, SchedulerExclusive
  <2> QED BY <1>11, <1>t, <2>1, SameSendable DEF CheckOccupied
<1>12. ASSUME NEW c \in Ctx, CheckFree(c) PROVE Waking'
      BY <1>12, <1>t, SameSendable DEF CheckFree
<1>13. ASSUME NEW c \in Ctx,
              SelectAggregated(c) \/ SelectSingleStep(c) \/ SelectQueued(c)
       PROVE  Waking'
  <2>1. /\ pc[c] = "select" /\ pc' = [pc EXCEPT ![c] = "send"]
        /\ UNCHANGED <<bus, sched, hTxnDoneQueue>>
        BY <1>13 DEF SelectAggregated, SelectSingleStep, SelectQueued, Dequeue,
             SelectingFree
  <2>2. Attended'
        BY <1>t, <2>1
  <2> QED BY <1>t, <2>1, <2>2
<1>14. ASSUME NEW c \in Ctx, SelectNothing(c) PROVE Waking'
      BY <1>14, <1>t, SameSendable DEF SelectNothing
<1>15. ASSUME NEW c \in Ctx, Send(c) PROVE Waking'
      BY <1>15, <1>t, SameSendable DEF Send
<1>16. ASSUME NEW c \in Ctx, TransactComplete(c) PROVE Waking'
  <2>1. /\ pc[c] = "bus" /\ pCurrTxn' = None /\ UNCHANGED <<busTxn, sched, hTxnDoneQueue>>
        /\ pc' = [pc EXCEPT ![c] = "select"] \/ pc' = [pc EXCEPT ![c] = "post"]
        BY <1>16 DEF TransactComplete
  <2>2. Attended'
        BY <1>t, <2>1
  <2> QED BY <1>t, <2>1, <2>2
<1>17. ASSUME NEW c \in Ctx, TransactAsync(c) PROVE Waking'
  <2>1. busTxn' # None
        BY <1>17 DEF TransactAsync, Typing, Carried
  <2> QED BY <1>17, <1>t, <2>1 DEF TransactAsync
<1>18. ASSUME NEW c \in Ctx, Post(c) PROVE Waking'
      BY <1>18, <1>t, SameSendable DEF Post
<1>19. ASSUME NEW c \in Ctx, DrainNext(c) \/ DrainEnd(c) \/ CallDoneCb(c) PROVE Waking'
  <2>1. /\ UNCHANGED <<info, bus, sched>>
        /\ \/ pc[c] = "drain" /\ pc' = [pc EXCEPT ![c] = "cb"]
           \/ /\ pc[c] = "drain" /\ pc' = [pc EXCEPT ![c] = "leave"]
              /\ hTxnDoneQueue' = <<>>
           \/ pc[c] = "cb" /\ pc' = [pc EXCEPT ![c] = "drain"]
        BY <1>19 DEF DrainNext, DrainEnd, CallDoneCb
  <2>2. Attended' <=> Attended
        BY <1>t, <2>1
  <2>3. pc'[c] \in {"drain", "cb"} \/ hTxnDoneQueue' = <<>>
        BY <1>t, <2>1
  <2>4. (\E d \in Ctx : InScheduler(d))' /\ \A d \in Ctx : pc[d] = "bus" => pc'[d] = "bus"
        BY <1>t, <2>1
  <2>5. Sendable' => Sendable
        BY <2>1, SameSendable
  <2> HIDE DEF Attended, InScheduler
  <2> QED BY <1>t, <2>1, <2>2, <2>3, <2>4, <2>5
<1>20. CASE TxnDone
  <2>1. /\ pc' = [pc EXCEPT ![Ext] = IF eState[FuncOf[busTxn]] = "RESTART"
                                     THEN "doneClear" ELSE "doneEnqueue"]
        /\ pc[Ext] = "idle" /\ UNCHANGED <<pCurrTxn, sched, hTxnDoneQueue>>
        BY <1>20 DEF TxnDone
  <2>2. pc'[Ext] \in TxnDonePCs
        BY <1>t, <2>1
  <2> QED BY <1>t, <2>1, <2>2
<1>21. CASE DoneEnqueue \/ DoneClear \/ DoneRecover
  <2>1. /\ pc[Ext] \in TxnDonePCs /\ UNCHANGED <<bus, sched>>
        /\ \E l \in TxnDonePCs : pc' = [pc EXCEPT ![Ext] = l]
        BY <1>21 DEF DoneEnqueue, DoneClear, DoneRecover
  <2>2. pc'[Ext] \in TxnDonePCs
        BY <1>t, <2>1
  <2> QED BY <1>t, <2>1, <2>2
<1>22. CASE DoneNull
  <2>1. /\ pc[Ext] = "doneNull" /\ pc' = [pc EXCEPT ![Ext] = "enter"]
        /\ pCurrTxn' = None /\ UNCHANGED <<sched, busTxn, hTxnDoneQueue>>
        BY <1>22 DEF DoneNull
  <2> QED BY <1>t, <2>1
<1>23. CASE UNCHANGED vars
      BY <1>1, <1>23, SameSendable DEF vars
<1> QED BY <1>2, <1>3, <1>4, <1>5, <1>6, <1>7, <1>8, <1>9, <1>10, <1>11, <1>12, <1>13,
           <1>14, <1>15, <1>16, <1>17, <1>18, <1>19, <1>20, <1>21, <1>22, <1>23
        DEF Next, Call, Transact, RunScheduler, SelectTxn, Scheduler, TxnDoneCb

\* For any functions, priorities and transactions: whatever the contexts interleave,
\* the last to leave leaves nothing behind that could be sent or reported.
THEOREM WakeupsAreKept == Spec => []NothingStranded
<1>1. Typing /\ Exclusion /\ Waking => NothingStranded
      BY DEF Typing, TypeOK, Exclusion, SchedulerExclusive, Waking, Attended, InScheduler,
             NothingStranded
<1> QED BY <1>1, TypingInit, TypingStep, ExclusionInit, ExclusionStep, WakingInit,
           WakingStep, PTL DEF Spec

-----------------------------------------------------------------------------
(* Every transaction is in one place.                                      *)

Has(s, t) == \E i \in DOMAIN s : s[i] = t
NoDup(s)  == \A i, j \in DOMAIN s : s[i] = s[j] => i = j

LEMMA AppendHas ==
    ASSUME NEW s \in Seq(Txns), NoDup(s), NEW t \in Txns, ~Has(s, t)
    PROVE  /\ NoDup(Append(s, t))
           /\ \A u : Has(Append(s, t), u) <=> Has(s, u) \/ u = t
<1> DEFINE p == Append(s, t)
<1>1. /\ Len(p) = Len(s) + 1 /\ p[Len(s) + 1] = t
      /\ \A i \in 1 .. Len(s) : p[i] = s[i]
      BY AppendProperties
<1>2. /\ Len(s) \in Nat /\ DOMAIN s = 1 .. Len(s) /\ DOMAIN p = 1 .. Len(p)
      BY AppendProperties, LenProperties
<1> HIDE DEF p
<1>3. DOMAIN p = DOMAIN s \cup {Len(s) + 1} /\ Len(s) + 1 \notin DOMAIN s
      BY <1>1, <1>2
<1>4. NoDup(p)
      BY <1>1, <1>2, <1>3 DEF NoDup, Has
<1>5. \A u : Has(p, u) <=> Has(s, u) \/ u = t
      BY <1>1, <1>2, <1>3 DEF Has
<1> QED BY <1>4, <1>5 DEF p

LEMMA TailHas ==
    ASSUME NEW s \in Seq(Txns), NoDup(s), s # <<>>
    PROVE  /\ NoDup(Tail(s)) /\ Has(s, Head(s))
           /\ \A u : Has(Tail(s), u) <=> Has(s, u) /\ u # Head(s)
<1> DEFINE p == Tail(s)
<1>1. /\ Len(p) = Len(s) - 1 /\ \A i \in 1 .. Len(p) : p[i] = s[i + 1]
      /\ Head(s) = s[1]
      BY HeadTailProperties
<1>2. /\ Len(s) \in Nat \ {0} /\ DOMAIN s = 1 .. Len(s) /\ DOMAIN p = 1 .. Len(p)
      BY HeadTailProperties, LenProperties, EmptySeq
<1> HIDE DEF p
<1>3. \A i \in DOMAIN p : i + 1 \in DOMAIN s /\ i + 1 # 1 /\ p[i] = s[i + 1]
      BY <1>1, <1>2
<1>4. \A i \in DOMAIN s : i = 1 \/ (i - 1 \in DOMAIN p /\ p[i - 1] = s[i])
      BY <1>1, <1>2
<1>5. 1 \in DOMAIN s
      BY <1>2
<1>6. NoDup(p)
  <2> SUFFICES ASSUME NEW i \in DOMAIN p, NEW j \in DOMAIN p, p[i] = p[j] PROVE i = j
      BY DEF NoDup
  <2>1. i + 1 = j + 1
        BY <1>3 DEF NoDup
  <2> QED BY <1>1, <1>2, <2>1
<1>7. \A u : Has(p, u) => Has(s, u) /\ u # Head(s)
      BY <1>1, <1>3, <1>5 DEF Has, NoDup
<1>8. \A u : Has(s, u) /\ u # Head(s) => Has(p, u)
      BY <1>1, <1>4 DEF Has
<1>9. Has(s, Head(s))
      BY <1>1, <1>5 DEF Has
<1> QED BY <1>6, <1>7, <1>8, <1>9 DEF p

\* The transaction waits to be sent.
Waits(t) == pSingleStep[FuncOf[t]] = t \/ Has(aTxnQueues[QueueOf(t)], t)

\* Transactions wait in the place that is theirs, once.
InPlace ==
    /\ \A q \in Queues :
          /\ NoDup(aTxnQueues[q])
          /\ \A t \in Txns : Has(aTxnQueues[q], t) => QueueOf(t) = q /\ t \notin SingleStep
    /\ \A f \in Funcs : pSingleStep[f] # None =>
          FuncOf[pSingleStep[f]] = f /\ pSingleStep[f] \in SingleStep
    /\ NoDup(hTxnDoneQueue)

\* What is in one of the places below was handed over and not given back.
Placed(t) ==
    \/ Waits(t) \/ busTxn = t \/ Has(hTxnDoneQueue, t)
    \/ \E c \in Ctx : Holding(c, t) \/ returnTxn[c] = t

OnePlaceOf(t) ==
    /\ Placed(t) => t \in out
    /\ Waits(t) => busTxn # t /\ ~Has(hTxnDoneQueue, t)
    /\ busTxn = t => ~Has(hTxnDoneQueue, t)
    /\ \A c \in Ctx : Holding(c, t) \/ returnTxn[c] = t =>
                          ~Waits(t) /\ busTxn # t /\ ~Has(hTxnDoneQueue, t)
    /\ \A c, d \in Ctx : /\ Holding(c, t) => returnTxn[d] # t
                         /\ Holding(c, t) /\ Holding(d, t) => c = d
                         /\ returnTxn[c] = t /\ returnTxn[d] = t => c = d

\* The slot for the status of the input transaction is free when it is needed.
Returns == \A c \in Ctx : returnTxn[c] # None => InScheduler(c) /\ pInputTxn[c] = None

Places == InPlace /\ Returns /\ \A t \in Txns : OnePlaceOf(t)

\* A transaction that comes to no new place, and has left all of them if it was given
\* back.
LEMMA NoNewPlace ==
    ASSUME NEW u, OnePlaceOf(u),
           Waits(u)' => Waits(u),
           busTxn' = u => busTxn = u,
           Has(hTxnDoneQueue, u)' => Has(hTxnDoneQueue, u),
           \A c \in Ctx : Holding(c, u)' => Holding(c, u),
           \A c \in Ctx : returnTxn'[c] = u => returnTxn[c] = u,
           Placed(u)' => u \in out'
    PROVE  OnePlaceOf(u)'
  BY DEF OnePlaceOf

\* What is neither moved nor given back.
LEMMA SamePlace ==
    ASSUME NEW u, OnePlaceOf(u), u \in out => u \in out',
           Waits(u)' => Waits(u),
           busTxn' = u => busTxn = u,
           Has(hTxnDoneQueue, u)' => Has(hTxnDoneQueue, u),
           \A c \in Ctx : Holding(c, u)' => Holding(c, u),
           \A c \in Ctx : returnTxn'[c] = u => returnTxn[c] = u
    PROVE  OnePlaceOf(u)'
  BY NoNewPlace DEF OnePlaceOf, Placed

WaitsVars == <<pSingleStep, aTxnQueues>>

LEMMA WaitsSame ==
    ASSUME UNCHANGED WaitsVars PROVE \A u : Waits(u)' = Waits(u)
  BY DEF Waits, Has, WaitsVars

\* A context goes on, to where it holds nothing or goes on holding what it held.
LEMMA HoldingSame ==
    ASSUME Typing, NEW c \in Ctx, NEW l, pc' = [pc EXCEPT ![c] = l],
           \/ l \notin {"send", "bus", "post", "cb", "doneEnqueue", "doneClear", "doneRecover"}
           \/ /\ pTxn'[c] = pTxn[c]
              /\ pc[c] \in {"send", "bus", "post", "cb", "doneEnqueue", "doneClear", "doneRecover"},
           \A d \in Ctx : d # c => pTxn'[d] = pTxn[d]
    PROVE  \A d \in Ctx, u \in Txns : Holding(d, u)' => Holding(d, u)
  BY DEF Typing, TypeOK, Holding

LEMMA PlacesInit == Init => Places
<1> SUFFICES ASSUME Init PROVE Places
    OBVIOUS
<1>1. InPlace
      BY DEF Init, InPlace, NoDup, Has
<1>2. Returns
      BY DEF Init, Returns
<1>3. ASSUME NEW t \in Txns PROVE OnePlaceOf(t)
  <2>1. /\ ~Waits(t) /\ busTxn # t /\ ~Has(hTxnDoneQueue, t)
        /\ \A c \in Ctx : ~Holding(c, t) /\ returnTxn[c] # t
        BY DEF Init, Waits, Has, Holding
  <2> QED BY <2>1 DEF OnePlaceOf, Placed
<1> QED BY <1>1, <1>2, <1>3 DEF Places

\* The places of the code that hold a transaction in pTxn.
HoldPCs == {"send", "bus", "post", "cb", "doneEnqueue", "doneClear", "doneRecover"}

\* A step that moves no transaction.
LEMMA StayPut ==
    ASSUME Typing, Places, UNCHANGED <<WaitsVars, busTxn, hTxnDoneQueue, returnTxn, out>>,
           \A d \in Ctx, u \in Txns : Holding(d, u)' => Holding(d, u)
    PROVE  InPlace' /\ \A u \in Txns : OnePlaceOf(u)'
<1>1. InPlace'
      BY DEF Places, InPlace, WaitsVars
<1>2. ASSUME NEW u \in Txns PROVE OnePlaceOf(u)'
      BY SamePlace, WaitsSame DEF Places
<1> QED BY <1>1, <1>2

LEMMA ReturnsSame ==
    ASSUME Returns, Typing, UNCHANGED <<returnTxn, pInputTxn>>,
           \A c \in Ctx : InScheduler(c) => InScheduler(c)'
    PROVE  Returns'
  BY DEF Returns

\* txnQ_Transact.
LEMMA TransactPlaces ==
    ASSUME Typing, Places, NEW f \in Funcs, NEW t \in TxnsOf(f),
           TransactSingleStep(f, t) \/ TransactQueued(f, t)
    PROVE  Places'
<1> USE DEF Places, bus, sched, info
<1>1. /\ pc[f] = "idle" /\ pc' = [pc EXCEPT ![f] = "enter"] /\ f \in Ctx /\ t \in Txns
      /\ pInputTxn' = [pInputTxn EXCEPT ![f] = t] /\ FuncOf[t] = f
      /\ UNCHANGED <<busTxn, hTxnDoneQueue, pTxn, returnTxn>>
      BY DEF TransactSingleStep, TransactQueued
<1>2. Returns'
  <2>1. returnTxn[f] = None
        BY <1>1 DEF Returns, InScheduler
  <2> QED BY <1>1, <2>1 DEF Typing, TypeOK, Returns, InScheduler
<1>3. \A d \in Ctx, u \in Txns : Holding(d, u)' => Holding(d, u)
      BY <1>1, HoldingSame
<1>4. CASE TransactSingleStep(f, t)
  <2>1. /\ pSingleStep' = [pSingleStep EXCEPT ![f] = t] /\ t \in SingleStep
        /\ out' = (out \ {pSingleStep[f]}) \cup {t} /\ UNCHANGED aTxnQueues
        /\ t \in out => pSingleStep[f] = t
        BY <1>4 DEF TransactSingleStep
  <2>2. InPlace'
        BY <1>1, <2>1 DEF Typing, TypeOK, InPlace
  <2>3. \A u \in Txns : Waits(u)' => Waits(u) \/ u = t
        BY <1>1, <2>1 DEF Typing, TypeOK, Waits, Has
  <2>4. OnePlaceOf(t)'
    <3>1. /\ busTxn # t /\ ~Has(hTxnDoneQueue, t)
          /\ \A c \in Ctx : ~Holding(c, t) /\ returnTxn[c] # t
      <4>1. Placed(t) => Waits(t)
            BY <1>1, <2>1 DEF OnePlaceOf, Waits
      <4> QED BY <4>1 DEF OnePlaceOf, Placed
    <3>2. /\ (busTxn # t /\ ~Has(hTxnDoneQueue, t))'
          /\ \A c \in Ctx : ~Holding(c, t)' /\ returnTxn'[c] # t
          BY <1>1, <1>3, <3>1
    <3> QED BY <2>1, <3>2 DEF OnePlaceOf
  <2>5. ASSUME NEW u \in Txns, u # t PROVE OnePlaceOf(u)'
    <3>1. Waits(u)' => Waits(u)
          BY <2>3, <2>5
    <3>2. CASE u # pSingleStep[f]
          BY <1>1, <1>3, <2>1, <3>1, <3>2, SamePlace
    <3>3. CASE u = pSingleStep[f]
      <4>1. u \in SingleStep /\ FuncOf[u] = f /\ Waits(u) /\ QueueOf(u) \in Queues
            BY <3>3 DEF InPlace, Waits
      <4>2. ~Waits(u)'
            BY <1>1, <2>1, <2>2, <2>5, <4>1 DEF Typing, TypeOK, InPlace, Waits
      <4>3. ~Placed(u)'
        <5>1. /\ busTxn # u /\ ~Has(hTxnDoneQueue, u)
              /\ \A c \in Ctx : ~Holding(c, u) /\ returnTxn[c] # u
              BY <4>1 DEF OnePlaceOf
        <5> QED BY <1>1, <1>3, <4>2, <5>1 DEF Placed
      <4> QED BY <1>1, <1>3, <3>1, <4>3, NoNewPlace
    <3> QED BY <3>2, <3>3
  <2> QED BY <1>2, <2>2, <2>4, <2>5
<1>5. CASE TransactQueued(f, t)
  <2>1. /\ aTxnQueues' = [aTxnQueues EXCEPT ![QueueOf(t)] = Append(aTxnQueues[QueueOf(t)], t)]
        /\ t \notin SingleStep /\ t \notin out /\ out' = out \cup {t}
        /\ UNCHANGED pSingleStep /\ QueueOf(t) \in Queues
        BY <1>1, <1>5 DEF TransactQueued
  <2>2. ~Placed(t)
        BY <1>1, <2>1 DEF OnePlaceOf
  <2>3. /\ NoDup(aTxnQueues'[QueueOf(t)])
        /\ \A u : Has(aTxnQueues'[QueueOf(t)], u) <=> Has(aTxnQueues[QueueOf(t)], u) \/ u = t
    <3>1. /\ aTxnQueues[QueueOf(t)] \in Seq(Txns) /\ NoDup(aTxnQueues[QueueOf(t)])
          /\ ~Has(aTxnQueues[QueueOf(t)], t)
          BY <2>1, <2>2 DEF Typing, TypeOK, InPlace, Placed, Waits
    <3>2. aTxnQueues'[QueueOf(t)] = Append(aTxnQueues[QueueOf(t)], t)
          BY <2>1 DEF Typing, TypeOK
    <3> HIDE DEF QueueOf
    <3> QED BY <1>1, <3>1, <3>2, AppendHas
  <2>4. \A q \in Queues : q # QueueOf(t) => aTxnQueues'[q] = aTxnQueues[q]
        BY <2>1 DEF Typing, TypeOK
  <2>5. InPlace'
    <3> HIDE DEF QueueOf, Queues
    <3>1. \A q \in Queues :
             /\ NoDup(aTxnQueues'[q])
             /\ \A u \in Txns : Has(aTxnQueues'[q], u) => QueueOf(u) = q /\ u \notin SingleStep
          BY <2>1, <2>3, <2>4 DEF InPlace
    <3> QED BY <1>1, <2>1, <3>1 DEF InPlace
  <2>6. ASSUME NEW u \in Txns PROVE Waits(u)' => Waits(u) \/ u = t
    <3>1. QueueOf(u) \in Queues
          BY <2>6
    <3> HIDE DEF QueueOf, Queues
    <3>2. Has(aTxnQueues'[QueueOf(u)], u) => Has(aTxnQueues[QueueOf(u)], u) \/ u = t
          BY <2>3, <2>4, <3>1
    <3> QED BY <2>1, <3>2 DEF Waits
  <2>7. OnePlaceOf(t)'
    <3>1. /\ (busTxn # t /\ ~Has(hTxnDoneQueue, t))'
          /\ \A c \in Ctx : ~Holding(c, t)' /\ returnTxn'[c] # t
          BY <1>1, <1>3, <2>2 DEF Placed
    <3> QED BY <2>1, <3>1 DEF OnePlaceOf
  <2>8. ASSUME NEW u \in Txns, u # t PROVE OnePlaceOf(u)'
    <3>1. Waits(u)' => Waits(u)
          BY <2>6, <2>8
    <3>2. u \in out => u \in out'
          BY <2>1
    <3> QED BY <1>1, <1>3, <3>1, <3>2, SamePlace
  <2> QED BY <1>2, <2>5, <2>7, <2>8
<1> QED BY <1>4, <1>5

\* txnQ_ClearQueues.
LEMMA ClearPlaces ==
    ASSUME Typing, Places, NEW f \in Funcs, ClearQueues(f),
           UNCHANGED <<busTxn, hTxnDoneQueue, returnTxn>>,
           \A d \in Ctx, u \in Txns : Holding(d, u)' => Holding(d, u)
    PROVE  InPlace' /\ \A u \in Txns : OnePlaceOf(u)'
<1> USE DEF Places
<1>1. InPlace'
      BY DEF Typing, TypeOK, ClearQueues, InPlace, Has, NoDup
<1>2. ASSUME NEW u \in Txns PROVE OnePlaceOf(u)'
  <2>1. QueueOf(u) \in Queues /\ QueueOf(u)[1] = FuncOf[u] /\ FuncOf[u] \in Funcs
        BY <1>2
  <2>2. FuncOf[u] = f => ~Waits(u)'
    <3> SUFFICES ASSUME FuncOf[u] = f PROVE ~Waits(u)'
        OBVIOUS
    <3>1. pSingleStep'[FuncOf[u]] = None /\ aTxnQueues'[QueueOf(u)] = <<>>
          BY <2>1 DEF ClearQueues, Typing, TypeOK
    <3> QED BY <1>2, <3>1 DEF Waits, Has
  <2>3. FuncOf[u] # f => (Waits(u)' <=> Waits(u))
    <3> SUFFICES ASSUME FuncOf[u] # f PROVE Waits(u)' <=> Waits(u)
        OBVIOUS
    <3>1. /\ pSingleStep'[FuncOf[u]] = pSingleStep[FuncOf[u]]
          /\ aTxnQueues'[QueueOf(u)] = aTxnQueues[QueueOf(u)]
          BY <2>1 DEF ClearQueues, Typing, TypeOK
    <3> QED BY <3>1 DEF Waits
  <2>4. u \in Waiting(f) <=> FuncOf[u] = f /\ Waits(u)
        BY <1>2 DEF Waiting, Waits, Has
  <2>5. CASE u \notin Waiting(f)
        BY <2>2, <2>3, <2>5, SamePlace DEF ClearQueues
  <2>6. CASE u \in Waiting(f)
    <3>1. /\ busTxn # u /\ ~Has(hTxnDoneQueue, u)
          /\ \A c \in Ctx : ~Holding(c, u) /\ returnTxn[c] # u
          BY <2>4, <2>6 DEF OnePlaceOf
    <3>2. ~Placed(u)'
          BY <2>2, <2>4, <2>6, <3>1 DEF Placed
    <3> QED BY <2>2, <2>4, <2>6, <3>2, NoNewPlace
  <2> QED BY <2>5, <2>6
<1> QED BY <1>1, <1>2

\* What a context takes for itself is in no other place.
LEMMA TakePlace ==
    ASSUME Typing, NEW t \in Txns, OnePlaceOf(t), NEW c \in Ctx,
           Waits(t) \/ busTxn = t \/ Has(hTxnDoneQueue, t),
           ~Waits(t)', ~(busTxn = t)', ~Has(hTxnDoneQueue, t)',
           UNCHANGED <<returnTxn, out>>,
           \A d \in Ctx : d # c => (Holding(d, t)' => Holding(d, t))
    PROVE  OnePlaceOf(t)'
<1>1. \A d \in Ctx : ~Holding(d, t) /\ returnTxn[d] # t
      BY DEF OnePlaceOf
<1>2. t \in out
      BY DEF OnePlaceOf, Placed
<1> QED BY <1>1, <1>2 DEF OnePlaceOf

\* txnQ_SelectTxn, from a queue.
LEMMA DequeuePlaces ==
    ASSUME Typing, Places, NEW c \in Ctx, NEW q \in Queues, aTxnQueues[q] # <<>>,
           pc[c] = "select", Dequeue(c, q),
           UNCHANGED <<pSingleStep, busTxn, hTxnDoneQueue, returnTxn, out>>
    PROVE  InPlace' /\ \A u \in Txns : OnePlaceOf(u)'
<1> USE DEF Places
<1>0. PICK t : t = Head(aTxnQueues[q])
      OBVIOUS
<1>1. /\ pTxn' = [pTxn EXCEPT ![c] = t] /\ pc' = [pc EXCEPT ![c] = "send"]
      /\ aTxnQueues' = [aTxnQueues EXCEPT ![q] = Tail(aTxnQueues[q])]
      BY <1>0 DEF Dequeue
<1>2. aTxnQueues[q] \in Seq(Txns) /\ NoDup(aTxnQueues[q])
      BY DEF Typing, TypeOK, InPlace
<1>3. t \in Txns
      BY <1>0, <1>2
<1>4. /\ NoDup(Tail(aTxnQueues[q])) /\ Has(aTxnQueues[q], t)
      /\ \A u : Has(Tail(aTxnQueues[q]), u) <=> Has(aTxnQueues[q], u) /\ u # t
      BY <1>0, <1>2, TailHas
<1>5. /\ aTxnQueues'[q] = Tail(aTxnQueues[q])
      /\ \A r \in Queues : r # q => aTxnQueues'[r] = aTxnQueues[r]
      BY <1>1 DEF Typing, TypeOK
<1> HIDE DEF QueueOf, Queues
<1>6. QueueOf(t) = q /\ t \notin SingleStep
      BY <1>3, <1>4 DEF InPlace
<1>7. InPlace'
  <2>1. \A r \in Queues :
           /\ NoDup(aTxnQueues'[r])
           /\ \A u \in Txns : Has(aTxnQueues'[r], u) => QueueOf(u) = r /\ u \notin SingleStep
        BY <1>4, <1>5 DEF InPlace
  <2> QED BY <2>1 DEF InPlace
<1>8. ASSUME NEW u \in Txns PROVE Waits(u)' => Waits(u) /\ u # t
  <2>1. QueueOf(u) \in Queues
        BY <1>8 DEF QueueOf, Queues
  <2>2. Has(aTxnQueues'[QueueOf(u)], u) => Has(aTxnQueues[QueueOf(u)], u) /\ u # t
        BY <1>4, <1>5, <1>6, <2>1
  <2>3. FuncOf[u] \in Funcs /\ u # None
        BY <1>8
  <2>4. \A f \in Funcs : pSingleStep[f] # None => pSingleStep[f] \in SingleStep
        BY DEF InPlace
  <2>5. pSingleStep[FuncOf[u]] = u => u # t
    <3>1. ASSUME pSingleStep[FuncOf[u]] = u PROVE u \in SingleStep
      <4>1. PICK f \in Funcs : f = FuncOf[u]
            BY <2>3
      <4> QED BY <2>3, <2>4, <3>1, <4>1
    <3> QED BY <1>6, <3>1
  <2>6. pSingleStep' = pSingleStep
        OBVIOUS
  <2> QED BY <2>2, <2>5, <2>6 DEF Waits
<1>9. \A d \in Ctx : d # c => \A u : Holding(d, u)' <=> Holding(d, u)
      BY <1>1 DEF Typing, TypeOK, Holding
<1>10. OnePlaceOf(t)'
  <2>1. Waits(t)
        BY <1>4, <1>6 DEF Waits
  <2>2. busTxn # t /\ ~Has(hTxnDoneQueue, t)
        BY <1>3, <2>1 DEF OnePlaceOf
  <2> QED BY <1>3, <1>8, <1>9, <2>1, <2>2, TakePlace
<1>11. ASSUME NEW u \in Txns, u # t PROVE OnePlaceOf(u)'
  <2>1. ~Holding(c, u)'
        BY <1>1, <1>11 DEF Holding, Typing, TypeOK
  <2> QED BY <1>8, <1>9, <1>11, <2>1, SamePlace
<1> QED BY <1>7, <1>10, <1>11

LEMMA SingleStepPlaces ==
    ASSUME Typing, Places, NEW c \in Ctx, SelectSingleStep(c)
    PROVE  InPlace' /\ \A u \in Txns : OnePlaceOf(u)'
<1> USE DEF Places
<1>1. PICK f \in Funcs : /\ pSingleStep[f] # None
                         /\ pTxn' = [pTxn EXCEPT ![c] = pSingleStep[f]]
                         /\ pSingleStep' = [pSingleStep EXCEPT ![f] = None]
      BY DEF SelectSingleStep, SingleStepFuncs
<1>2. /\ pc[c] = "select" /\ pc' = [pc EXCEPT ![c] = "send"]
      /\ UNCHANGED <<aTxnQueues, busTxn, hTxnDoneQueue, returnTxn, out>>
      BY DEF SelectSingleStep, SelectingFree, bus, user
<1>0. PICK t : t = pSingleStep[f]
      OBVIOUS
<1>3. t \in Txns /\ t \in SingleStep /\ FuncOf[t] = f /\ Waits(t)
      BY <1>0, <1>1 DEF InPlace, Typing, TypeOK, Waits
<1>4. InPlace'
      BY <1>1, <1>2 DEF InPlace, Typing, TypeOK
<1>5. /\ \A d \in Ctx : d # c => \A u : Holding(d, u)' <=> Holding(d, u)
      /\ pTxn'[c] = t
      BY <1>0, <1>1, <1>2 DEF Typing, TypeOK, Holding
<1> HIDE DEF QueueOf, Queues
<1>6. ASSUME NEW u \in Txns PROVE Waits(u)' => Waits(u) /\ u # t
  <2>1. QueueOf(u) \in Queues
        BY <1>6 DEF QueueOf, Queues
  <2>2. ~Has(aTxnQueues[QueueOf(t)], t)
        BY <1>3 DEF InPlace, QueueOf, Queues
  <2>3. \A g \in Funcs : pSingleStep'[g] = IF g = f THEN None ELSE pSingleStep[g]
        BY <1>1 DEF Typing, TypeOK
  <2>4. FuncOf[u] \in Funcs
        BY <1>6
  <2>5. u # None /\ t # None
        BY <1>3, <1>6
  <2>6. pSingleStep'[FuncOf[u]] = u => pSingleStep[FuncOf[u]] = u /\ u # t
        BY <1>0, <1>3, <2>3, <2>4, <2>5
  <2> QED BY <1>2, <2>2, <2>6 DEF Waits
<1>7. OnePlaceOf(t)'
  <2>1. busTxn # t /\ ~Has(hTxnDoneQueue, t)
        BY <1>3 DEF OnePlaceOf
  <2>2. OnePlaceOf(t) /\ ~Waits(t)'
        BY <1>3, <1>6
  <2> QED BY <1>2, <1>3, <1>5, <2>1, <2>2, TakePlace
<1>8. ASSUME NEW u \in Txns, u # t PROVE OnePlaceOf(u)'
  <2>1. ~Holding(c, u)'
        BY <1>5, <1>8 DEF Holding
  <2> QED BY <1>2, <1>5, <1>6, <1>8, <2>1, SamePlace
<1> QED BY <1>4, <1>7, <1>8

\* A context puts what it holds on hTxnDoneQueue.
LEMMA PostPlaces ==
    ASSUME Typing, Places, NEW c \in Ctx, Holding(c, pTxn[c]), pTxn[c] \in Txns,
           hTxnDoneQueue' = Append(hTxnDoneQueue, pTxn[c]),
           UNCHANGED <<WaitsVars, busTxn, returnTxn, out>>,
           \A d \in Ctx, u \in Txns : Holding(d, u)' => Holding(d, u) /\ d # c
    PROVE  InPlace' /\ \A u \in Txns : OnePlaceOf(u)'
<1> USE DEF Places
<1>0. PICK t : t = pTxn[c]
      OBVIOUS
<1>1. /\ ~Waits(t) /\ busTxn # t /\ ~Has(hTxnDoneQueue, t) /\ t \in out
      /\ \A d \in Ctx : (Holding(d, t) => d = c) /\ returnTxn[d] # t
      BY <1>0 DEF OnePlaceOf, Placed
<1>2. /\ NoDup(hTxnDoneQueue')
      /\ \A u : Has(hTxnDoneQueue', u) <=> Has(hTxnDoneQueue, u) \/ u = t
      BY <1>0, <1>1, AppendHas DEF Typing, TypeOK, InPlace
<1>3. InPlace'
      BY <1>2 DEF InPlace, WaitsVars
<1>4. OnePlaceOf(t)'
  <2>1. /\ ~Waits(t)' /\ busTxn' # t /\ t \in out'
        /\ \A d \in Ctx : ~Holding(d, t)' /\ returnTxn'[d] # t
    <3>1. t \in Txns
          BY <1>0
    <3> QED BY <1>1, <3>1, WaitsSame
  <2> QED BY <2>1 DEF OnePlaceOf
<1>5. ASSUME NEW u \in Txns, u # t PROVE OnePlaceOf(u)'
      BY <1>2, <1>5, SamePlace, WaitsSame
<1> QED BY <1>3, <1>4, <1>5

\* A transaction is given back by the one context that holds it.
LEMMA GivenBack ==
    ASSUME Typing, Places, NEW t, out' = out \ {t},
           UNCHANGED <<WaitsVars, busTxn, hTxnDoneQueue>>,
           t \in Txns => ~Waits(t) /\ busTxn # t /\ ~Has(hTxnDoneQueue, t),
           \A d \in Ctx, u \in Txns : Holding(d, u)' => Holding(d, u) /\ u # t,
           \A d \in Ctx, u \in Txns : returnTxn'[d] = u => returnTxn[d] = u /\ u # t
    PROVE  InPlace' /\ \A u \in Txns : OnePlaceOf(u)'
<1> USE DEF Places
<1>1. InPlace'
      BY DEF InPlace, WaitsVars
<1>2. ASSUME NEW u \in Txns, u # t PROVE OnePlaceOf(u)'
      BY <1>2, SamePlace, WaitsSame
<1>3. ASSUME t \in Txns PROVE OnePlaceOf(t)'
  <2>1. /\ ~Waits(t)' /\ busTxn' # t /\ ~Has(hTxnDoneQueue, t)'
        /\ \A d \in Ctx : ~Holding(d, t)' /\ returnTxn'[d] # t
        BY <1>3, WaitsSame
  <2> QED BY <2>1 DEF OnePlaceOf, Placed
<1> QED BY <1>1, <1>2, <1>3

LEMMA ReturnsStep == Typing /\ Exclusion /\ Places /\ [Next]_vars => Returns'
<1> SUFFICES ASSUME Typing, Exclusion, Places, [Next]_vars PROVE Returns'
    OBVIOUS
<1> USE DEF Typing, TypeOK, Places, Returns, InScheduler, info, bus, sched, ctx, user
<1> HIDE DEF QueueOf, Queues
<1>1. ASSUME NEW f \in Funcs, Open(f) PROVE Returns'
      BY <1>1 DEF Open
<1>2. ASSUME NEW f \in Funcs, Close(f) PROVE Returns'
      BY <1>2 DEF Close
<1>3. ASSUME NEW f \in Funcs, Run(f) PROVE Returns'
      BY <1>3 DEF Run
<1>4. ASSUME NEW f \in Funcs, Stop(f) PROVE Returns'
      BY <1>4 DEF Stop
<1>5. ASSUME NEW f \in Funcs, RestartPending(f) PROVE Returns'
      BY <1>5 DEF RestartPending
<1>6. ASSUME NEW f \in Funcs, RestartNow(f) PROVE Returns'
      BY <1>6 DEF RestartNow
<1>7. ASSUME NEW f \in Funcs, RestartTimeout(f) PROVE Returns'
      BY <1>7 DEF RestartTimeout
<1>8. ASSUME NEW f \in Funcs, Clear(f) PROVE Returns'
      BY <1>8 DEF Clear, ClearQueues
<1>9. ASSUME NEW c \in Ctx, EnterBusy(c) PROVE Returns'
      BY <1>9 DEF EnterBusy
<1>10. ASSUME NEW c \in Ctx, EnterFree(c) PROVE Returns'
      BY <1>10 DEF EnterFree
<1>11. ASSUME NEW c \in Ctx, LeavePend(c) PROVE Returns'
      BY <1>11 DEF LeavePend
<1>12. ASSUME NEW c \in Ctx, LeaveReturn(c) PROVE Returns'
      BY <1>12 DEF LeaveReturn
<1>13. ASSUME NEW c \in Ctx, CheckOccupied(c) PROVE Returns'
      BY <1>13 DEF CheckOccupied
<1>14. ASSUME NEW c \in Ctx, CheckFree(c) PROVE Returns'
      BY <1>14 DEF CheckFree
<1>15. ASSUME NEW c \in Ctx, SelectAggregated(c) PROVE Returns'
      BY <1>15 DEF SelectAggregated, Dequeue, SelectingFree
<1>16. ASSUME NEW c \in Ctx, SelectSingleStep(c) PROVE Returns'
      BY <1>16 DEF SelectSingleStep, SelectingFree
<1>17. ASSUME NEW c \in Ctx, SelectQueued(c) PROVE Returns'
      BY <1>17 DEF SelectQueued, Dequeue, SelectingFree
<1>18. ASSUME NEW c \in Ctx, SelectNothing(c) PROVE Returns'
      BY <1>18 DEF SelectNothing
<1>19. ASSUME NEW c \in Ctx, Send(c) PROVE Returns'
      BY <1>19 DEF Send
<1>20. ASSUME NEW c \in Ctx, TransactComplete(c) PROVE Returns'
  <2>1. CASE pTxn[c] = pInputTxn[c]
    <3>1. /\ returnTxn' = [returnTxn EXCEPT ![c] = pTxn[c]] /\ pc[c] = "bus"
          /\ pInputTxn' = [pInputTxn EXCEPT ![c] = None]
          /\ pc' = [pc EXCEPT ![c] = "select"]
          BY <1>20, <2>1 DEF TransactComplete
    <3> QED BY <3>1
  <2>2. CASE pTxn[c] # pInputTxn[c]
        BY <1>20, <2>2 DEF TransactComplete
  <2> QED BY <2>1, <2>2
<1>21. ASSUME NEW c \in Ctx, TransactAsync(c) PROVE Returns'
      BY <1>21 DEF TransactAsync
<1>22. ASSUME NEW c \in Ctx, Post(c) PROVE Returns'
      BY <1>22 DEF Post
<1>23. ASSUME NEW c \in Ctx, DrainNext(c) PROVE Returns'
      BY <1>23 DEF DrainNext
<1>24. ASSUME NEW c \in Ctx, DrainEnd(c) PROVE Returns'
      BY <1>24 DEF DrainEnd
<1>25. ASSUME NEW c \in Ctx, CallDoneCb(c) PROVE Returns'
      BY <1>25 DEF CallDoneCb
<1>26. ASSUME NEW f \in Funcs, NEW t \in TxnsOf(f),
            TransactSingleStep(f, t) \/ TransactQueued(f, t) PROVE Returns'
      BY <1>26, TransactPlaces
<1>27. ASSUME TxnDone PROVE Returns'
      BY <1>27 DEF TxnDone
<1>28. ASSUME DoneEnqueue PROVE Returns'
      BY <1>28 DEF DoneEnqueue
<1>29. ASSUME DoneClear PROVE Returns'
      BY <1>29 DEF DoneClear, ClearQueues
<1>30. ASSUME DoneRecover PROVE Returns'
      BY <1>30 DEF DoneRecover
<1>31. ASSUME DoneNull PROVE Returns'
      BY <1>31 DEF DoneNull
<1>32. CASE UNCHANGED vars
      BY <1>32 DEF vars
<1> QED
  BY <1>1, <1>2, <1>3, <1>4, <1>5, <1>6, <1>7, <1>8, <1>9, <1>10, <1>11, <1>12, <1>13,
     <1>14, <1>15, <1>16, <1>17, <1>18, <1>19, <1>20, <1>21, <1>22, <1>23, <1>24, <1>25,
     <1>26, <1>27, <1>28, <1>29, <1>30, <1>31, <1>32
     DEF Next, Call, Transact, RunScheduler, SelectTxn, Scheduler, TxnDoneCb

LEMMA PlacesStep == Typing /\ Exclusion /\ Places /\ [Next]_vars => Places'
<1> SUFFICES ASSUME Typing, Exclusion, Places, [Next]_vars PROVE Places'
    OBVIOUS
<1>0. Returns'
      BY ReturnsStep
<1> USE DEF info, bus, sched, ctx, user
<1> HIDE DEF QueueOf, Queues
<1>1. ASSUME NEW f \in Funcs, Open(f) PROVE Places'
  <2>1. UNCHANGED <<WaitsVars, busTxn, hTxnDoneQueue, returnTxn, out>>
        BY <1>1 DEF Open, WaitsVars
  <2>2. \A d \in Ctx, u \in Txns : Holding(d, u)' => Holding(d, u)
        BY <1>1 DEF Open, Typing, TypeOK, Holding
  <2> QED BY <1>0, <2>1, <2>2, StayPut DEF Places
<1>2. ASSUME NEW f \in Funcs, Close(f) PROVE Places'
  <2>1. UNCHANGED <<WaitsVars, busTxn, hTxnDoneQueue, returnTxn, out>>
        BY <1>2 DEF Close, WaitsVars
  <2>2. \A d \in Ctx, u \in Txns : Holding(d, u)' => Holding(d, u)
        BY <1>2 DEF Close, Typing, TypeOK, Holding
  <2> QED BY <1>0, <2>1, <2>2, StayPut DEF Places
<1>3. ASSUME NEW f \in Funcs, Run(f) PROVE Places'
  <2>1. UNCHANGED <<WaitsVars, busTxn, hTxnDoneQueue, returnTxn, out>>
        BY <1>3 DEF Run, WaitsVars
  <2>2. \A d \in Ctx, u \in Txns : Holding(d, u)' => Holding(d, u)
        BY <1>3 DEF Run, Typing, TypeOK, Holding
  <2> QED BY <1>0, <2>1, <2>2, StayPut DEF Places
<1>4. ASSUME NEW f \in Funcs, Stop(f) PROVE Places'
  <2>1. UNCHANGED <<WaitsVars, busTxn, hTxnDoneQueue, returnTxn, out>>
        BY <1>4 DEF Stop, WaitsVars
  <2>2. \A d \in Ctx, u \in Txns : Holding(d, u)' => Holding(d, u)
        BY <1>4 DEF Stop, Typing, TypeOK, Holding
  <2> QED BY <1>0, <2>1, <2>2, StayPut DEF Places
<1>5. ASSUME NEW f \in Funcs, RestartPending(f) PROVE Places'
  <2>1. UNCHANGED <<WaitsVars, busTxn, hTxnDoneQueue, returnTxn, out>>
        BY <1>5 DEF RestartPending, WaitsVars
  <2>2. \A d \in Ctx, u \in Txns : Holding(d, u)' => Holding(d, u)
        BY <1>5 DEF RestartPending, Typing, TypeOK, Holding
  <2> QED BY <1>0, <2>1, <2>2, StayPut DEF Places
<1>6. ASSUME NEW f \in Funcs, RestartNow(f) PROVE Places'
  <2>1. UNCHANGED <<WaitsVars, busTxn, hTxnDoneQueue, returnTxn, out>>
        BY <1>6 DEF RestartNow, WaitsVars
  <2>2. \A d \in Ctx, u \in Txns : Holding(d, u)' => Holding(d, u)
        BY <1>6 DEF RestartNow, Typing, TypeOK, Holding
  <2> QED BY <1>0, <2>1, <2>2, StayPut DEF Places
<1>7. ASSUME NEW f \in Funcs, RestartTimeout(f) PROVE Places'
  <2>1. UNCHANGED <<WaitsVars, busTxn, hTxnDoneQueue, returnTxn, out>>
        BY <1>7 DEF RestartTimeout, WaitsVars
  <2>2. \A d \in Ctx, u \in Txns : Holding(d, u)' => Holding(d, u)
        BY <1>7 DEF RestartTimeout, Typing, TypeOK, Holding
  <2> QED BY <1>0, <2>1, <2>2, StayPut DEF Places
<1>8. ASSUME NEW f \in Funcs, Clear(f) PROVE Places'
  <2>1. \A d \in Ctx, u \in Txns : Holding(d, u)' => Holding(d, u)
        BY <1>8 DEF Clear, Typing, TypeOK, Holding
  <2>2. ClearQueues(f) /\ UNCHANGED <<busTxn, hTxnDoneQueue, returnTxn>>
        BY <1>8 DEF Clear
  <2> QED BY <1>0, <2>1, <2>2, ClearPlaces DEF Places
<1>9. ASSUME NEW f \in Funcs, NEW t \in TxnsOf(f),
            TransactSingleStep(f, t) \/ TransactQueued(f, t) PROVE Places'
      BY <1>9, TransactPlaces
<1>10. ASSUME NEW c \in Ctx, EnterBusy(c) PROVE Places'
  <2>1. UNCHANGED <<WaitsVars, busTxn, hTxnDoneQueue, returnTxn, out>>
        BY <1>10 DEF EnterBusy, WaitsVars
  <2>2. \A d \in Ctx, u \in Txns : Holding(d, u)' => Holding(d, u)
        BY <1>10 DEF EnterBusy, Typing, TypeOK, Holding
  <2> QED BY <1>0, <2>1, <2>2, StayPut DEF Places
<1>11. ASSUME NEW c \in Ctx, EnterFree(c) PROVE Places'
  <2>1. UNCHANGED <<WaitsVars, busTxn, hTxnDoneQueue, returnTxn, out>>
        BY <1>11 DEF EnterFree, WaitsVars
  <2>2. \A d \in Ctx, u \in Txns : Holding(d, u)' => Holding(d, u)
        BY <1>11 DEF EnterFree, Typing, TypeOK, Holding
  <2> QED BY <1>0, <2>1, <2>2, StayPut DEF Places
<1>12. ASSUME NEW c \in Ctx, LeavePend(c) PROVE Places'
  <2>1. UNCHANGED <<WaitsVars, busTxn, hTxnDoneQueue, returnTxn, out>>
        BY <1>12 DEF LeavePend, WaitsVars
  <2>2. \A d \in Ctx, u \in Txns : Holding(d, u)' => Holding(d, u)
        BY <1>12 DEF LeavePend, Typing, TypeOK, Holding
  <2> QED BY <1>0, <2>1, <2>2, StayPut DEF Places
<1>13. ASSUME NEW c \in Ctx, CheckOccupied(c) PROVE Places'
  <2>1. UNCHANGED <<WaitsVars, busTxn, hTxnDoneQueue, returnTxn, out>>
        BY <1>13 DEF CheckOccupied, WaitsVars
  <2>2. \A d \in Ctx, u \in Txns : Holding(d, u)' => Holding(d, u)
        BY <1>13 DEF CheckOccupied, Typing, TypeOK, Holding
  <2> QED BY <1>0, <2>1, <2>2, StayPut DEF Places
<1>14. ASSUME NEW c \in Ctx, CheckFree(c) PROVE Places'
  <2>1. UNCHANGED <<WaitsVars, busTxn, hTxnDoneQueue, returnTxn, out>>
        BY <1>14 DEF CheckFree, WaitsVars
  <2>2. \A d \in Ctx, u \in Txns : Holding(d, u)' => Holding(d, u)
        BY <1>14 DEF CheckFree, Typing, TypeOK, Holding
  <2> QED BY <1>0, <2>1, <2>2, StayPut DEF Places
<1>15. ASSUME NEW c \in Ctx, SelectNothing(c) PROVE Places'
  <2>1. UNCHANGED <<WaitsVars, busTxn, hTxnDoneQueue, returnTxn, out>>
        BY <1>15 DEF SelectNothing, WaitsVars
  <2>2. \A d \in Ctx, u \in Txns : Holding(d, u)' => Holding(d, u)
        BY <1>15 DEF SelectNothing, Typing, TypeOK, Holding
  <2> QED BY <1>0, <2>1, <2>2, StayPut DEF Places
<1>16. ASSUME NEW c \in Ctx, Send(c) PROVE Places'
  <2>1. UNCHANGED <<WaitsVars, busTxn, hTxnDoneQueue, returnTxn, out>>
        BY <1>16 DEF Send, WaitsVars
  <2>2. \A d \in Ctx, u \in Txns : Holding(d, u)' => Holding(d, u)
        BY <1>16 DEF Send, Typing, TypeOK, Holding
  <2> QED BY <1>0, <2>1, <2>2, StayPut DEF Places
<1>17. ASSUME NEW c \in Ctx, DrainEnd(c) PROVE Places'
  <2>1. UNCHANGED <<WaitsVars, busTxn, hTxnDoneQueue, returnTxn, out>>
        BY <1>17 DEF DrainEnd, WaitsVars
  <2>2. \A d \in Ctx, u \in Txns : Holding(d, u)' => Holding(d, u)
        BY <1>17 DEF DrainEnd, Typing, TypeOK, Holding
  <2> QED BY <1>0, <2>1, <2>2, StayPut DEF Places
<1>18. ASSUME NEW c \in Ctx, LeaveReturn(c) PROVE Places'
  <2>1. PICK t : t = returnTxn[c]
        OBVIOUS
  <2>2. out' = out \ {t} /\ UNCHANGED <<WaitsVars, busTxn, hTxnDoneQueue, pTxn>>
        BY <1>18, <2>1 DEF LeaveReturn, WaitsVars
  <2>3. t \in Txns => ~Waits(t) /\ busTxn # t /\ ~Has(hTxnDoneQueue, t)
        BY <2>1 DEF Places, OnePlaceOf
  <2>4. \A d \in Ctx, u \in Txns : Holding(d, u)' => Holding(d, u)
        BY <1>18 DEF LeaveReturn, Typing, TypeOK, Holding
  <2>5. \A d \in Ctx, u \in Txns : Holding(d, u) => u # t
        BY <2>1 DEF Places, OnePlaceOf
  <2>6. \A d \in Ctx, u \in Txns : returnTxn'[d] = u => returnTxn[d] = u /\ d # c
        BY <1>18 DEF LeaveReturn, Typing, TypeOK
  <2>7. \A d \in Ctx, u \in Txns : returnTxn[d] = u /\ d # c => u # t
        BY <2>1 DEF Places, OnePlaceOf
  <2>8. InPlace' /\ \A u \in Txns : OnePlaceOf(u)'
    <3>1. \A d \in Ctx, u \in Txns : Holding(d, u)' => Holding(d, u) /\ u # t
          BY <2>4, <2>5
    <3>2. \A d \in Ctx, u \in Txns : returnTxn'[d] = u => returnTxn[d] = u /\ u # t
          BY <2>6, <2>7
    <3> QED BY <2>2, <2>3, <3>1, <3>2, GivenBack
  <2> QED BY <1>0, <2>8 DEF Places
<1>19. ASSUME NEW c \in Ctx, SelectAggregated(c) PROVE Places'
  <2>1. PICK q \in Queues : q = pAggregQueue
        BY <1>19 DEF SelectAggregated, Typing, TypeOK
  <2>2. /\ aTxnQueues[q] # <<>> /\ pc[c] = "select" /\ Dequeue(c, q)
        /\ UNCHANGED <<pSingleStep, busTxn, hTxnDoneQueue, returnTxn, out>>
        BY <1>19, <2>1 DEF SelectAggregated
  <2>3. InPlace' /\ \A u \in Txns : OnePlaceOf(u)'
        BY <2>2, DequeuePlaces
  <2> QED BY <1>0, <2>3 DEF Places
<1>20. ASSUME NEW c \in Ctx, SelectSingleStep(c) PROVE Places'
      BY <1>0, <1>20, SingleStepPlaces DEF Places
<1>21. ASSUME NEW c \in Ctx, SelectQueued(c) PROVE Places'
  <2>1. PICK q \in Queues : Dequeue(c, q) /\ aTxnQueues[q] # <<>>
        BY <1>21 DEF SelectQueued, ReadyQueues
  <2>2. /\ pc[c] = "select"
        /\ UNCHANGED <<pSingleStep, busTxn, hTxnDoneQueue, returnTxn, out>>
        BY <1>21 DEF SelectQueued, SelectingFree
  <2>3. InPlace' /\ \A u \in Txns : OnePlaceOf(u)'
        BY <2>1, <2>2, DequeuePlaces
  <2> QED BY <1>0, <2>3 DEF Places
<1>22. ASSUME NEW c \in Ctx, TransactComplete(c) PROVE Places'
  <2>1. UNCHANGED <<WaitsVars, busTxn, hTxnDoneQueue, out>>
        BY <1>22 DEF TransactComplete, WaitsVars
  <2>2. \A d \in Ctx, u \in Txns : Holding(d, u)' => Holding(d, u)
        BY <1>22 DEF TransactComplete, Typing, TypeOK, Holding
  <2>3. CASE pTxn[c] # pInputTxn[c]
    <3>1. UNCHANGED returnTxn
          BY <1>22, <2>3 DEF TransactComplete
    <3> QED BY <1>0, <2>1, <2>2, <3>1, StayPut DEF Places
  <2>4. CASE pTxn[c] = pInputTxn[c]
    <3>1. PICK t : t = pTxn[c]
          OBVIOUS
    <3>2. returnTxn' = [returnTxn EXCEPT ![c] = t] /\ pc' = [pc EXCEPT ![c] = "select"]
          BY <1>22, <2>4, <3>1 DEF TransactComplete
    <3>3. t \in Txns /\ Holding(c, t)
          BY <1>22, <3>1 DEF TransactComplete, Typing, Carried, Holding
    <3>4. /\ ~Waits(t) /\ busTxn # t /\ ~Has(hTxnDoneQueue, t) /\ t \in out
          /\ \A d \in Ctx : (Holding(d, t) => d = c) /\ returnTxn[d] # t
          BY <3>3 DEF Places, OnePlaceOf, Placed
    <3>5. /\ ~Holding(c, t)'
          /\ \A d \in Ctx : returnTxn'[d] = IF d = c THEN t ELSE returnTxn[d]
          BY <3>2 DEF Holding, Typing, TypeOK
    <3>6. OnePlaceOf(t)'
      <4>1. ~Waits(t)' /\ busTxn' # t /\ ~Has(hTxnDoneQueue, t)' /\ t \in out'
            BY <2>1, <3>3, <3>4, WaitsSame
      <4>2. /\ \A d \in Ctx : ~Holding(d, t)'
            /\ \A d \in Ctx : returnTxn'[d] = t => d = c
            BY <2>2, <3>3, <3>4, <3>5
      <4> QED BY <4>1, <4>2 DEF OnePlaceOf, Placed
    <3>7. ASSUME NEW u \in Txns, u # t PROVE OnePlaceOf(u)'
      <4>1. \A d \in Ctx : returnTxn'[d] = u => returnTxn[d] = u
            BY <3>5, <3>7
      <4> QED BY <2>1, <2>2, <3>7, <4>1, SamePlace, WaitsSame DEF Places
    <3>8. InPlace'
          BY <2>1 DEF Places, InPlace, WaitsVars
    <3> QED BY <1>0, <3>6, <3>7, <3>8 DEF Places
  <2> QED BY <2>3, <2>4
<1>23. ASSUME NEW c \in Ctx, TransactAsync(c) PROVE Places'
  <2>1. PICK t : t = pTxn[c]
        OBVIOUS
  <2>2. /\ busTxn' = t /\ UNCHANGED <<WaitsVars, hTxnDoneQueue, returnTxn, out>>
        /\ pc' = [pc EXCEPT ![c] = "drain"] /\ pTxn' = [pTxn EXCEPT ![c] = None]
        BY <1>23, <2>1 DEF TransactAsync, WaitsVars
  <2>3. t \in Txns /\ Holding(c, t)
        BY <1>23, <2>1 DEF TransactAsync, Typing, Carried, Holding
  <2>4. /\ ~Waits(t) /\ ~Has(hTxnDoneQueue, t) /\ t \in out
        /\ \A d \in Ctx : (Holding(d, t) => d = c) /\ returnTxn[d] # t
        BY <2>3 DEF Places, OnePlaceOf, Placed
  <2>5. \A d \in Ctx, u \in Txns : Holding(d, u)' => Holding(d, u) /\ d # c
        BY <2>2 DEF Typing, TypeOK, Holding
  <2>6. OnePlaceOf(t)'
    <3>1. ~Waits(t)' /\ ~Has(hTxnDoneQueue, t)' /\ t \in out'
          BY <2>2, <2>3, <2>4, WaitsSame
    <3>2. \A d \in Ctx : ~Holding(d, t)' /\ returnTxn'[d] # t
          BY <2>2, <2>3, <2>4, <2>5
    <3> QED BY <3>1, <3>2 DEF OnePlaceOf, Placed
  <2>7. ASSUME NEW u \in Txns, u # t PROVE OnePlaceOf(u)'
    <3>1. busTxn' = u => busTxn = u
          BY <2>2, <2>7
    <3> QED BY <2>2, <2>5, <2>7, <3>1, SamePlace, WaitsSame DEF Places
  <2>8. InPlace'
        BY <2>2 DEF Places, InPlace, WaitsVars
  <2> QED BY <1>0, <2>6, <2>7, <2>8 DEF Places
<1>24. ASSUME NEW c \in Ctx, Post(c) PROVE Places'
  <2>1. Holding(c, pTxn[c]) /\ pTxn[c] \in Txns
        BY <1>24 DEF Post, Typing, Carried, Holding
  <2>2. /\ hTxnDoneQueue' = Append(hTxnDoneQueue, pTxn[c])
        /\ UNCHANGED <<WaitsVars, busTxn, returnTxn, out>>
        BY <1>24 DEF Post, WaitsVars
  <2>3. \A d \in Ctx, u \in Txns : Holding(d, u)' => Holding(d, u) /\ d # c
        BY <1>24 DEF Post, Typing, TypeOK, Holding
  <2> QED BY <1>0, <2>1, <2>2, <2>3, PostPlaces DEF Places
<1>25. ASSUME NEW c \in Ctx, DrainNext(c) PROVE Places'
  <2>1. PICK t : t = Head(hTxnDoneQueue)
        OBVIOUS
  <2>2. /\ hTxnDoneQueue' = Tail(hTxnDoneQueue) /\ hTxnDoneQueue # <<>>
        /\ UNCHANGED <<WaitsVars, busTxn, returnTxn, out>>
        /\ pTxn' = [pTxn EXCEPT ![c] = t] /\ pc' = [pc EXCEPT ![c] = "cb"]
        BY <1>25, <2>1 DEF DrainNext, WaitsVars
  <2>3. /\ NoDup(Tail(hTxnDoneQueue)) /\ Has(hTxnDoneQueue, t)
        /\ \A u : Has(Tail(hTxnDoneQueue), u) <=> Has(hTxnDoneQueue, u) /\ u # t
        BY <2>1, <2>2, TailHas DEF Places, InPlace, Typing, TypeOK
  <2>4. t \in Txns
        BY <2>1, <2>2 DEF Typing, TypeOK
  <2>5. InPlace'
        BY <2>2, <2>3 DEF Places, InPlace, WaitsVars
  <2>6. \A u : Has(hTxnDoneQueue, u)' => Has(hTxnDoneQueue, u) /\ u # t
        BY <2>2, <2>3
  <2>7. /\ \A d \in Ctx : d # c => \A u : Holding(d, u)' <=> Holding(d, u)
        /\ pTxn'[c] = t
        BY <2>2 DEF Typing, TypeOK, Holding
  <2>8. OnePlaceOf(t)'
    <3>1. OnePlaceOf(t) /\ ~Waits(t) /\ busTxn # t
          BY <2>3, <2>4 DEF Places, OnePlaceOf
    <3>2. ~Waits(t)' /\ ~(busTxn = t)' /\ ~Has(hTxnDoneQueue, t)'
          BY <2>2, <2>4, <2>6, <3>1, WaitsSame
    <3> QED BY <2>2, <2>3, <2>4, <2>7, <3>1, <3>2, TakePlace
  <2>9. ASSUME NEW u \in Txns, u # t PROVE OnePlaceOf(u)'
    <3>1. ~Holding(c, u)'
          BY <2>7, <2>9 DEF Holding
    <3>2. \A d \in Ctx : Holding(d, u)' => Holding(d, u)
          BY <2>7, <3>1
    <3> QED BY <2>2, <2>6, <2>9, <3>2, SamePlace, WaitsSame DEF Places
  <2> QED BY <1>0, <2>5, <2>8, <2>9 DEF Places
<1>26. ASSUME NEW c \in Ctx, CallDoneCb(c) PROVE Places'
  <2>1. PICK t : t = pTxn[c]
        OBVIOUS
  <2>2. /\ out' = out \ {t} /\ t \in Txns /\ Holding(c, t)
        /\ UNCHANGED <<WaitsVars, busTxn, hTxnDoneQueue, returnTxn>>
        BY <1>26, <2>1 DEF CallDoneCb, WaitsVars, Typing, Carried, Holding
  <2>3. /\ ~Waits(t) /\ busTxn # t /\ ~Has(hTxnDoneQueue, t)
        /\ \A d \in Ctx : (Holding(d, t) => d = c) /\ returnTxn[d] # t
        BY <2>2 DEF Places, OnePlaceOf
  <2>4. \A d \in Ctx, u \in Txns : Holding(d, u)' => Holding(d, u) /\ d # c
        BY <1>26 DEF CallDoneCb, Typing, TypeOK, Holding
  <2>5. \A d \in Ctx, u \in Txns : Holding(d, u)' => Holding(d, u) /\ u # t
        BY <2>3, <2>4
  <2>6. \A d \in Ctx, u \in Txns : returnTxn'[d] = u => returnTxn[d] = u /\ u # t
        BY <2>2, <2>3
  <2>7. InPlace' /\ \A u \in Txns : OnePlaceOf(u)'
        BY <2>2, <2>3, <2>5, <2>6, GivenBack
  <2> QED BY <1>0, <2>7 DEF Places
<1>27. ASSUME DoneRecover PROVE Places'
  <2>1. PICK t : t = pTxn[Ext]
        OBVIOUS
  <2>2. /\ out' = out \ {t} /\ t \in Txns /\ Holding(Ext, t)
        /\ UNCHANGED <<WaitsVars, busTxn, hTxnDoneQueue, returnTxn>>
        BY <1>27, <2>1 DEF DoneRecover, WaitsVars, Typing, Carried, Holding
  <2>3. /\ ~Waits(t) /\ busTxn # t /\ ~Has(hTxnDoneQueue, t)
        /\ \A d \in Ctx : (Holding(d, t) => d = Ext) /\ returnTxn[d] # t
        BY <2>2 DEF Places, OnePlaceOf
  <2>4. \A d \in Ctx, u \in Txns : Holding(d, u)' => Holding(d, u) /\ d # Ext
        BY <1>27 DEF DoneRecover, Typing, TypeOK, Holding
  <2>5. \A d \in Ctx, u \in Txns : Holding(d, u)' => Holding(d, u) /\ u # t
        BY <2>3, <2>4
  <2>6. \A d \in Ctx, u \in Txns : returnTxn'[d] = u => returnTxn[d] = u /\ u # t
        BY <2>2, <2>3
  <2>7. InPlace' /\ \A u \in Txns : OnePlaceOf(u)'
        BY <2>2, <2>3, <2>5, <2>6, GivenBack
  <2> QED BY <1>0, <2>7 DEF Places
<1>28. ASSUME TxnDone PROVE Places'
  <2>1. PICK t : t = busTxn
        OBVIOUS
  <2>2. /\ t \in Txns /\ busTxn' = None /\ pTxn' = [pTxn EXCEPT ![Ext] = t]
        /\ UNCHANGED <<WaitsVars, hTxnDoneQueue, returnTxn, out>>
        /\ \/ pc' = [pc EXCEPT ![Ext] = "doneClear"]
           \/ pc' = [pc EXCEPT ![Ext] = "doneEnqueue"]
        BY <1>28, <2>1 DEF TxnDone, WaitsVars, Typing, TypeOK
  <2>3. InPlace'
        BY <2>2 DEF Places, InPlace, WaitsVars
  <2>4. /\ \A d \in Ctx : d # Ext => \A u : Holding(d, u)' <=> Holding(d, u)
        /\ pTxn'[Ext] = t
        BY <2>2 DEF Typing, TypeOK, Holding
  <2>5. OnePlaceOf(t)'
    <3>1. OnePlaceOf(t) /\ ~Waits(t) /\ ~Has(hTxnDoneQueue, t)
          BY <2>1, <2>2 DEF Places, OnePlaceOf
    <3>2. ~Waits(t)' /\ ~(busTxn = t)' /\ ~Has(hTxnDoneQueue, t)'
          BY <2>2, <3>1, WaitsSame
    <3> QED BY <2>1, <2>2, <2>4, <3>1, <3>2, TakePlace
  <2>6. ASSUME NEW u \in Txns, u # t PROVE OnePlaceOf(u)'
    <3>1. ~Holding(Ext, u)' /\ busTxn' # u
          BY <2>2, <2>4, <2>6 DEF Holding
    <3>2. \A d \in Ctx : Holding(d, u)' => Holding(d, u)
          BY <2>4, <3>1
    <3> QED BY <2>2, <2>6, <3>1, <3>2, SamePlace, WaitsSame DEF Places
  <2> QED BY <1>0, <2>3, <2>5, <2>6 DEF Places
<1>29. ASSUME DoneEnqueue PROVE Places'
  <2>1. Holding(Ext, pTxn[Ext]) /\ pTxn[Ext] \in Txns
        BY <1>29 DEF DoneEnqueue, Typing, Carried, Holding
  <2>2. /\ hTxnDoneQueue' = Append(hTxnDoneQueue, pTxn[Ext])
        /\ UNCHANGED <<WaitsVars, busTxn, returnTxn, out>>
        BY <1>29 DEF DoneEnqueue, WaitsVars
  <2>3. \A d \in Ctx, u \in Txns : Holding(d, u)' => Holding(d, u) /\ d # Ext
        BY <1>29 DEF DoneEnqueue, Typing, TypeOK, Holding
  <2> QED BY <1>0, <2>1, <2>2, <2>3, PostPlaces DEF Places
<1>30. ASSUME DoneClear PROVE Places'
  <2>1. PICK f \in Funcs : f = FuncOf[pTxn[Ext]]
        BY <1>30 DEF DoneClear, Typing, Carried
  <2>2. \A d \in Ctx, u \in Txns : Holding(d, u)' => Holding(d, u)
        BY <1>30 DEF DoneClear, Typing, TypeOK, Holding
  <2>3. ClearQueues(f) /\ UNCHANGED <<busTxn, hTxnDoneQueue, returnTxn>>
        BY <1>30, <2>1 DEF DoneClear
  <2> QED BY <1>0, <2>2, <2>3, ClearPlaces DEF Places
<1>31. ASSUME DoneNull PROVE Places'
  <2>1. UNCHANGED <<WaitsVars, busTxn, hTxnDoneQueue, returnTxn, out>>
        BY <1>31 DEF DoneNull, WaitsVars
  <2>2. \A d \in Ctx, u \in Txns : Holding(d, u)' => Holding(d, u)
        BY <1>31 DEF DoneNull, Typing, TypeOK, Holding
  <2> QED BY <1>0, <2>1, <2>2, StayPut DEF Places
<1>32. CASE UNCHANGED vars
  <2>1. UNCHANGED <<WaitsVars, busTxn, hTxnDoneQueue, returnTxn, out>>
        BY <1>32 DEF vars, WaitsVars
  <2>2. \A d \in Ctx, u \in Txns : Holding(d, u)' => Holding(d, u)
        BY <1>32 DEF vars, Holding
  <2> QED BY <1>0, <2>1, <2>2, StayPut DEF Places
<1> QED
  BY <1>1, <1>2, <1>3, <1>4, <1>5, <1>6, <1>7, <1>8, <1>9, <1>10, <1>11, <1>12, <1>13,
     <1>14, <1>15, <1>16, <1>17, <1>18, <1>19, <1>20, <1>21, <1>22, <1>23, <1>24, <1>25,
     <1>26, <1>27, <1>28, <1>29, <1>30, <1>31, <1>32
     DEF Next, Call, Transact, RunScheduler, SelectTxn, Scheduler, TxnDoneCb

-----------------------------------------------------------------------------
(* The queue implements TxnService.                                        *)

InBus(c) == pc[c] \in {"send", "bus"}
FinAt(c, x) == pc[c] \in {"post", "cb", "doneEnqueue", "doneClear", "doneRecover"} /\ pTxn[c] = x

Fin(x) ==
    \/ Has(hTxnDoneQueue, x)
    \/ \E c \in Ctx : FinAt(c, x)
    \/ \E c \in Ctx : returnTxn[c] = x /\ x # None

LEMMA OnBusIs ==
    SchedulerExclusive =>
        /\ \A c \in Ctx : InBus(c) => OnBus = pTxn[c]
        /\ (\A c \in Ctx : ~InBus(c)) => OnBus = busTxn
<1> SUFFICES ASSUME SchedulerExclusive
             PROVE  /\ \A c \in Ctx : InBus(c) => OnBus = pTxn[c]
                    /\ (\A c \in Ctx : ~InBus(c)) => OnBus = busTxn
    OBVIOUS
<1>1. ASSUME NEW c \in Ctx, InBus(c) PROVE OnBus = pTxn[c]
  <2> DEFINE b == CHOOSE d \in Ctx : pc[d] \in {"send", "bus"}
  <2>1. b \in Ctx /\ pc[b] \in {"send", "bus"}
        BY <1>1 DEF InBus
  <2>2. OnBus = pTxn[b]
        BY <1>1 DEF OnBus, InBus
  <2> HIDE DEF b
  <2>3. b = c
        BY <1>1, <2>1 DEF SchedulerExclusive, InScheduler, InBus
  <2> QED BY <2>2, <2>3
<1>2. (\A c \in Ctx : ~InBus(c)) => OnBus = busTxn
      BY DEF OnBus, InBus
<1> QED BY <1>1, <1>2

LEMMA FinishedIs == \A x : x \in Finished <=> Fin(x)
  BY DEF Finished, Fin, FinAt, Has

LEMMA OnBusThen ==
    ASSUME SchedulerExclusive'
    PROVE  /\ \A c \in Ctx : InBus(c)' => OnBus' = pTxn'[c]
           /\ (\A c \in Ctx : ~InBus(c)') => OnBus' = busTxn'
<1>1. (\A c \in Ctx : InBus(c) => OnBus = pTxn[c])' <=> \A c \in Ctx : InBus(c)' => OnBus' = pTxn'[c]
      OBVIOUS
<1>2. ((\A c \in Ctx : ~InBus(c)) => OnBus = busTxn)' <=> ((\A c \in Ctx : ~InBus(c)') => OnBus' = busTxn')
      OBVIOUS
<1>3. (SchedulerExclusive =>
        /\ \A c \in Ctx : InBus(c) => OnBus = pTxn[c]
        /\ (\A c \in Ctx : ~InBus(c)) => OnBus = busTxn)'
      BY OnBusIs, PTL
<1> QED BY <1>1, <1>2, <1>3

LEMMA FinishedThen == \A x : x \in Finished' <=> Fin(x)'
<1>1. (\A x : x \in Finished <=> Fin(x))'
      BY FinishedIs, PTL
<1> QED BY <1>1

LEMMA OnBusSame ==
    ASSUME SchedulerExclusive, SchedulerExclusive', UNCHANGED busTxn,
           \A c \in Ctx : (InBus(c)' <=> InBus(c)) /\ (InBus(c) => pTxn'[c] = pTxn[c])
    PROVE  OnBus' = OnBus
<1>1. CASE \E c \in Ctx : InBus(c)
      BY <1>1, OnBusIs, OnBusThen
<1>2. CASE ~\E c \in Ctx : InBus(c)
      BY <1>2, OnBusIs, OnBusThen
<1> QED BY <1>1, <1>2

LEMMA FinishedSame ==
    ASSUME UNCHANGED <<hTxnDoneQueue, returnTxn>>,
           \A c \in Ctx : \A x : FinAt(c, x)' <=> FinAt(c, x)
    PROVE  Finished' = Finished
<1>1. \A x : Fin(x)' <=> Fin(x)
      BY DEF Fin
<1> QED BY <1>1, FinishedIs, FinishedThen

LEMMA SelectingBusFree ==
    ASSUME Exclusion, NEW c \in Ctx, pc[c] = "select"
    PROVE  OnBus = None
<1>1. \A d \in Ctx : ~InBus(d)
      BY DEF Exclusion, SchedulerExclusive, InScheduler, InBus
<1>2. busTxn = None
      BY DEF Exclusion, BusOwned, DoneMatchesCurr
<1> QED BY <1>1, <1>2, OnBusIs DEF Exclusion

LEMMA HeldPlaced == ASSUME Typing, Places, NEW t \in Txns, Service!Held(t) PROVE Placed(t)
<1> USE DEF Places
<1>1. ASSUME NEW q \in Queues, Has(aTxnQueues[q], t) PROVE Placed(t)
  <2>1. QueueOf(t) = q
        BY <1>1 DEF InPlace
  <2> QED BY <1>1, <2>1 DEF Placed, Waits
<1>2. ASSUME NEW f \in Funcs, pSingleStep[f] = t PROVE Placed(t)
      BY <1>2 DEF Placed, Waits, InPlace
<1>3. ASSUME OnBus = t PROVE Placed(t)
  <2>1. CASE \E c \in Ctx : InBus(c)
    <3> DEFINE b == CHOOSE d \in Ctx : pc[d] \in {"send", "bus"}
    <3>1. b \in Ctx /\ pc[b] \in {"send", "bus"}
          BY <2>1 DEF InBus
    <3>2. pTxn[b] = t
          BY <1>3, <2>1 DEF OnBus, InBus
    <3> HIDE DEF b
    <3> QED BY <3>1, <3>2 DEF Placed, Holding
  <2>2. CASE ~\E c \in Ctx : InBus(c)
        BY <1>3, <2>2 DEF OnBus, InBus, Placed
  <2> QED BY <2>1, <2>2
<1>4. ASSUME t \in Finished PROVE Placed(t)
      BY <1>4, FinishedIs DEF Fin, FinAt, Placed, Holding
<1> QED BY <1>1, <1>2, <1>3, <1>4 DEF Service!Held, Has

LEMMA TransactImplemented ==
    ASSUME Typing, Exclusion, Exclusion', Places, NEW f \in Funcs, NEW t \in TxnsOf(f),
           TransactSingleStep(f, t) \/ TransactQueued(f, t)
    PROVE  Service!Next
<1>1. /\ pc[f] = "idle" /\ pc' = [pc EXCEPT ![f] = "enter"] /\ t \in Txns /\ FuncOf[t] = f
      /\ UNCHANGED <<busTxn, hTxnDoneQueue, pTxn, returnTxn>>
      BY DEF TransactSingleStep, TransactQueued, bus, sched
<1>2. \A c \in Ctx : (InBus(c)' <=> InBus(c)) /\ \A x : FinAt(c, x)' <=> FinAt(c, x)
      BY <1>1 DEF Typing, TypeOK, InBus, FinAt
<1>3. OnBus' = OnBus
      BY <1>1, <1>2, OnBusSame DEF Exclusion
<1>4. Finished' = Finished
      BY <1>1, <1>2, FinishedSame
<1>5. Service!Held(t) => t \in out
      BY <1>1, HeldPlaced DEF Places, OnePlaceOf
<1>6. Service!Accept(t)
  <2>1. CASE TransactSingleStep(f, t)
        BY <1>1, <1>3, <1>4, <1>5, <2>1 DEF TransactSingleStep, Service!Accept
  <2>2. CASE TransactQueued(f, t)
        BY <1>1, <1>3, <1>4, <1>5, <2>2 DEF TransactQueued, Service!Accept
  <2> QED BY <2>1, <2>2
<1> QED BY <1>1, <1>6 DEF Service!Next

LEMMA DiscardImplemented ==
    ASSUME NEW f \in Funcs, ClearQueues(f), OnBus' = OnBus, Finished' = Finished
    PROVE  Service!Next
<1>1. Service!Discard(f)
      BY DEF ClearQueues, Service!Discard
<1> QED BY <1>1 DEF Service!Next

\* The transaction selected is the one on the bus.
LEMMA SelectedOnBus ==
    ASSUME Typing, Exclusion, Exclusion', NEW c \in Ctx, pc[c] = "select", NEW t,
           pc' = [pc EXCEPT ![c] = "send"], pTxn' = [pTxn EXCEPT ![c] = t],
           UNCHANGED <<hTxnDoneQueue, returnTxn>>
    PROVE  OnBus = None /\ OnBus' = t /\ Finished' = Finished
<1>1. OnBus = None
      BY SelectingBusFree
<1>2. InBus(c)' /\ pTxn'[c] = t
      BY DEF Typing, TypeOK, InBus
<1>3. OnBus' = t
      BY <1>2, OnBusThen DEF Exclusion
<1>4. \A d \in Ctx : \A x : FinAt(d, x)' <=> FinAt(d, x)
      BY DEF Typing, TypeOK, FinAt
<1> QED BY <1>1, <1>3, <1>4, FinishedSame

LEMMA DequeueImplemented ==
    ASSUME Typing, Exclusion, Exclusion', NEW c \in Ctx, NEW q \in Queues,
           pc[c] = "select", Dequeue(c, q), aTxnQueues[q] # <<>>,
           UNCHANGED <<pSingleStep, hTxnDoneQueue, returnTxn>>
    PROVE  Service!Next
<1>1. /\ pTxn' = [pTxn EXCEPT ![c] = Head(aTxnQueues[q])] /\ pc' = [pc EXCEPT ![c] = "send"]
      /\ aTxnQueues' = [aTxnQueues EXCEPT ![q] = Tail(aTxnQueues[q])]
      BY DEF Dequeue
<1>2. PICK t : t = Head(aTxnQueues[q])
      OBVIOUS
<1>3. OnBus = None /\ OnBus' = t /\ Finished' = Finished
      BY <1>1, <1>2, SelectedOnBus
<1>4. Service!StartQueued(q)
      BY <1>1, <1>2, <1>3 DEF Service!StartQueued
<1> QED BY <1>4 DEF Service!Next

LEMMA SingleStepImplemented ==
    ASSUME Typing, Exclusion, Exclusion', NEW c \in Ctx, SelectSingleStep(c)
    PROVE  Service!Next
<1>1. PICK f \in Funcs : /\ pSingleStep[f] # None
                         /\ pTxn' = [pTxn EXCEPT ![c] = pSingleStep[f]]
                         /\ pSingleStep' = [pSingleStep EXCEPT ![f] = None]
      BY DEF SelectSingleStep, SingleStepFuncs
<1>2. /\ pc[c] = "select" /\ pc' = [pc EXCEPT ![c] = "send"]
      /\ UNCHANGED <<aTxnQueues, hTxnDoneQueue, returnTxn>>
      BY DEF SelectSingleStep, SelectingFree
<1>3. PICK t : t = pSingleStep[f]
      OBVIOUS
<1>4. OnBus = None /\ OnBus' = t /\ Finished' = Finished
      BY <1>1, <1>2, <1>3, SelectedOnBus
<1>5. Service!StartSingleStep(f)
      BY <1>1, <1>2, <1>3, <1>4 DEF Service!StartSingleStep
<1> QED BY <1>5 DEF Service!Next

\* The transaction has left the bus and is to be reported.
LEMMA FinishImplemented ==
    ASSUME NEW t \in Txns, OnBus = t, OnBus' = None, UNCHANGED WaitsVars,
           \A x : Fin(x)' <=> Fin(x) \/ x = t
    PROVE  Service!Next
<1>1. Finished' = Finished \cup {OnBus}
      BY FinishedIs, FinishedThen
<1>2. Service!Finish
      BY <1>1 DEF Service!Finish, WaitsVars
<1> QED BY <1>2 DEF Service!Next

LEMMA ReportImplemented ==
    ASSUME NEW t \in Txns, Fin(t), OnBus' = OnBus, UNCHANGED WaitsVars,
           \A x : Fin(x)' <=> Fin(x) /\ x # t
    PROVE  Service!Next
<1>1. Finished' = Finished \ {t} /\ t \in Finished
      BY FinishedIs, FinishedThen
<1>2. Service!Report(t)
      BY <1>1 DEF Service!Report, WaitsVars
<1> QED BY <1>2 DEF Service!Next

LEMMA NothingImplemented ==
    ASSUME OnBus' = OnBus, Finished' = Finished, UNCHANGED WaitsVars
    PROVE  UNCHANGED Service!vars
  BY DEF Service!vars, WaitsVars

\* A transaction is put on hTxnDoneQueue.
LEMMA PostImplemented ==
    ASSUME Typing, SchedulerExclusive, SchedulerExclusive', Places, NEW c \in Ctx,
           NEW t \in Txns, FinAt(c, t), hTxnDoneQueue' = Append(hTxnDoneQueue, t),
           UNCHANGED <<WaitsVars, busTxn, returnTxn>>,
           \A d \in Ctx : (InBus(d)' <=> InBus(d)) /\ (InBus(d) => pTxn'[d] = pTxn[d]),
           \A d \in Ctx : \A x : FinAt(d, x)' <=> FinAt(d, x) /\ d # c
    PROVE  UNCHANGED Service!vars
<1>1. ~Has(hTxnDoneQueue, t)
      BY DEF Places, OnePlaceOf, FinAt, Holding
<1>2. \A x : Has(hTxnDoneQueue', x) <=> Has(hTxnDoneQueue, x) \/ x = t
      BY <1>1, AppendHas DEF Places, InPlace, Typing, TypeOK
<1>3. \A x : FinAt(c, x) <=> x = t
      BY DEF FinAt
<1> HIDE DEF Ctx
<1>4. ASSUME NEW x PROVE Fin(x)' <=> Fin(x)
  <2>1. (\E d \in Ctx : FinAt(d, x)) <=> x = t \/ \E d \in Ctx : FinAt(d, x)'
        BY <1>3
  <2> QED BY <1>2, <2>1 DEF Fin
<1>5. Finished' = Finished
      BY <1>4, FinishedIs, FinishedThen
<1> QED BY <1>5, OnBusSame, NothingImplemented

\* Every step is one of the service, or none.
LEMMA StepImplemented ==
    Typing /\ Exclusion /\ Places /\ [Next]_vars => [Service!Next]_(Service!vars)
<1> SUFFICES ASSUME Typing, Exclusion, Places, [Next]_vars
             PROVE  [Service!Next]_(Service!vars)
    OBVIOUS
<1>0. Exclusion' /\ Typing'
      BY ExclusionStep, TypingStep
<1>00. SchedulerExclusive /\ SchedulerExclusive'
      BY <1>0 DEF Exclusion
<1> USE DEF info, bus, sched, ctx, user
<1> HIDE DEF QueueOf, Queues
<1>1. ASSUME NEW f \in Funcs, Open(f) PROVE UNCHANGED Service!vars
  <2>1. UNCHANGED <<WaitsVars, busTxn, hTxnDoneQueue, returnTxn>>
        BY <1>1 DEF Open, WaitsVars
  <2>2. /\ \A d \in Ctx : (InBus(d)' <=> InBus(d)) /\ (InBus(d) => pTxn'[d] = pTxn[d])
        /\ \A d \in Ctx : \A x : FinAt(d, x)' <=> FinAt(d, x)
        BY <1>1 DEF Open, Typing, TypeOK, InBus, FinAt
  <2> QED BY <1>00, <2>1, <2>2, OnBusSame, FinishedSame, NothingImplemented
<1>2. ASSUME NEW f \in Funcs, Close(f) PROVE UNCHANGED Service!vars
  <2>1. UNCHANGED <<WaitsVars, busTxn, hTxnDoneQueue, returnTxn>>
        BY <1>2 DEF Close, WaitsVars
  <2>2. /\ \A d \in Ctx : (InBus(d)' <=> InBus(d)) /\ (InBus(d) => pTxn'[d] = pTxn[d])
        /\ \A d \in Ctx : \A x : FinAt(d, x)' <=> FinAt(d, x)
        BY <1>2 DEF Close, Typing, TypeOK, InBus, FinAt
  <2> QED BY <1>00, <2>1, <2>2, OnBusSame, FinishedSame, NothingImplemented
<1>3. ASSUME NEW f \in Funcs, Run(f) PROVE UNCHANGED Service!vars
  <2>1. UNCHANGED <<WaitsVars, busTxn, hTxnDoneQueue, returnTxn>>
        BY <1>3 DEF Run, WaitsVars
  <2>2. /\ \A d \in Ctx : (InBus(d)' <=> InBus(d)) /\ (InBus(d) => pTxn'[d] = pTxn[d])
        /\ \A d \in Ctx : \A x : FinAt(d, x)' <=> FinAt(d, x)
        BY <1>3 DEF Run, Typing, TypeOK, InBus, FinAt
  <2> QED BY <1>00, <2>1, <2>2, OnBusSame, FinishedSame, NothingImplemented
<1>4. ASSUME NEW f \in Funcs, Stop(f) PROVE UNCHANGED Service!vars
  <2>1. UNCHANGED <<WaitsVars, busTxn, hTxnDoneQueue, returnTxn>>
        BY <1>4 DEF Stop, WaitsVars
  <2>2. /\ \A d \in Ctx : (InBus(d)' <=> InBus(d)) /\ (InBus(d) => pTxn'[d] = pTxn[d])
        /\ \A d \in Ctx : \A x : FinAt(d, x)' <=> FinAt(d, x)
        BY <1>4 DEF Stop, Typing, TypeOK, InBus, FinAt
  <2> QED BY <1>00, <2>1, <2>2, OnBusSame, FinishedSame, NothingImplemented
<1>5. ASSUME NEW f \in Funcs, RestartPending(f) PROVE UNCHANGED Service!vars
  <2>1. UNCHANGED <<WaitsVars, busTxn, hTxnDoneQueue, returnTxn>>
        BY <1>5 DEF RestartPending, WaitsVars
  <2>2. /\ \A d \in Ctx : (InBus(d)' <=> InBus(d)) /\ (InBus(d) => pTxn'[d] = pTxn[d])
        /\ \A d \in Ctx : \A x : FinAt(d, x)' <=> FinAt(d, x)
        BY <1>5 DEF RestartPending, Typing, TypeOK, InBus, FinAt
  <2> QED BY <1>00, <2>1, <2>2, OnBusSame, FinishedSame, NothingImplemented
<1>6. ASSUME NEW f \in Funcs, RestartNow(f) PROVE UNCHANGED Service!vars
  <2>1. UNCHANGED <<WaitsVars, busTxn, hTxnDoneQueue, returnTxn>>
        BY <1>6 DEF RestartNow, WaitsVars
  <2>2. /\ \A d \in Ctx : (InBus(d)' <=> InBus(d)) /\ (InBus(d) => pTxn'[d] = pTxn[d])
        /\ \A d \in Ctx : \A x : FinAt(d, x)' <=> FinAt(d, x)
        BY <1>6 DEF RestartNow, Typing, TypeOK, InBus, FinAt
  <2> QED BY <1>00, <2>1, <2>2, OnBusSame, FinishedSame, NothingImplemented
<1>7. ASSUME NEW f \in Funcs, RestartTimeout(f) PROVE UNCHANGED Service!vars
  <2>1. UNCHANGED <<WaitsVars, busTxn, hTxnDoneQueue, returnTxn>>
        BY <1>7 DEF RestartTimeout, WaitsVars
  <2>2. /\ \A d \in Ctx : (InBus(d)' <=> InBus(d)) /\ (InBus(d) => pTxn'[d] = pTxn[d])
        /\ \A d \in Ctx : \A x : FinAt(d, x)' <=> FinAt(d, x)
        BY <1>7 DEF RestartTimeout, Typing, TypeOK, InBus, FinAt
  <2> QED BY <1>00, <2>1, <2>2, OnBusSame, FinishedSame, NothingImplemented
<1>8. ASSUME NEW f \in Funcs, Clear(f) PROVE Service!Next
  <2>1. /\ \A d \in Ctx : (InBus(d)' <=> InBus(d)) /\ (InBus(d) => pTxn'[d] = pTxn[d])
        /\ \A d \in Ctx : \A x : FinAt(d, x)' <=> FinAt(d, x)
        BY <1>8 DEF Clear, Typing, TypeOK, InBus, FinAt
  <2>2. ClearQueues(f)
        BY <1>8 DEF Clear, Typing, Carried
  <2>3. UNCHANGED <<busTxn, hTxnDoneQueue, returnTxn>>
        BY <1>8 DEF Clear
  <2> QED BY <1>00, <2>1, <2>2, <2>3, OnBusSame, FinishedSame, DiscardImplemented
<1>9. ASSUME NEW f \in Funcs, NEW t \in TxnsOf(f),
            TransactSingleStep(f, t) \/ TransactQueued(f, t) PROVE Service!Next
      BY <1>0, <1>9, TransactImplemented
<1>10. ASSUME NEW c \in Ctx, EnterBusy(c) PROVE UNCHANGED Service!vars
  <2>1. UNCHANGED <<WaitsVars, busTxn, hTxnDoneQueue, returnTxn>>
        BY <1>10 DEF EnterBusy, WaitsVars
  <2>2. /\ \A d \in Ctx : (InBus(d)' <=> InBus(d)) /\ (InBus(d) => pTxn'[d] = pTxn[d])
        /\ \A d \in Ctx : \A x : FinAt(d, x)' <=> FinAt(d, x)
        BY <1>10 DEF EnterBusy, Typing, TypeOK, InBus, FinAt
  <2> QED BY <1>00, <2>1, <2>2, OnBusSame, FinishedSame, NothingImplemented
<1>11. ASSUME NEW c \in Ctx, EnterFree(c) PROVE UNCHANGED Service!vars
  <2>1. UNCHANGED <<WaitsVars, busTxn, hTxnDoneQueue, returnTxn>>
        BY <1>11 DEF EnterFree, WaitsVars
  <2>2. /\ \A d \in Ctx : (InBus(d)' <=> InBus(d)) /\ (InBus(d) => pTxn'[d] = pTxn[d])
        /\ \A d \in Ctx : \A x : FinAt(d, x)' <=> FinAt(d, x)
        BY <1>11 DEF EnterFree, Typing, TypeOK, InBus, FinAt
  <2> QED BY <1>00, <2>1, <2>2, OnBusSame, FinishedSame, NothingImplemented
<1>12. ASSUME NEW c \in Ctx, LeavePend(c) PROVE UNCHANGED Service!vars
  <2>1. UNCHANGED <<WaitsVars, busTxn, hTxnDoneQueue, returnTxn>>
        BY <1>12 DEF LeavePend, WaitsVars
  <2>2. /\ \A d \in Ctx : (InBus(d)' <=> InBus(d)) /\ (InBus(d) => pTxn'[d] = pTxn[d])
        /\ \A d \in Ctx : \A x : FinAt(d, x)' <=> FinAt(d, x)
        BY <1>12 DEF LeavePend, Typing, TypeOK, InBus, FinAt
  <2> QED BY <1>00, <2>1, <2>2, OnBusSame, FinishedSame, NothingImplemented
<1>13. ASSUME NEW c \in Ctx, CheckOccupied(c) PROVE UNCHANGED Service!vars
  <2>1. UNCHANGED <<WaitsVars, busTxn, hTxnDoneQueue, returnTxn>>
        BY <1>13 DEF CheckOccupied, WaitsVars
  <2>2. /\ \A d \in Ctx : (InBus(d)' <=> InBus(d)) /\ (InBus(d) => pTxn'[d] = pTxn[d])
        /\ \A d \in Ctx : \A x : FinAt(d, x)' <=> FinAt(d, x)
        BY <1>13 DEF CheckOccupied, Typing, TypeOK, InBus, FinAt
  <2> QED BY <1>00, <2>1, <2>2, OnBusSame, FinishedSame, NothingImplemented
<1>14. ASSUME NEW c \in Ctx, CheckFree(c) PROVE UNCHANGED Service!vars
  <2>1. UNCHANGED <<WaitsVars, busTxn, hTxnDoneQueue, returnTxn>>
        BY <1>14 DEF CheckFree, WaitsVars
  <2>2. /\ \A d \in Ctx : (InBus(d)' <=> InBus(d)) /\ (InBus(d) => pTxn'[d] = pTxn[d])
        /\ \A d \in Ctx : \A x : FinAt(d, x)' <=> FinAt(d, x)
        BY <1>14 DEF CheckFree, Typing, TypeOK, InBus, FinAt
  <2> QED BY <1>00, <2>1, <2>2, OnBusSame, FinishedSame, NothingImplemented
<1>15. ASSUME NEW c \in Ctx, SelectNothing(c) PROVE UNCHANGED Service!vars
  <2>1. UNCHANGED <<WaitsVars, busTxn, hTxnDoneQueue, returnTxn>>
        BY <1>15 DEF SelectNothing, WaitsVars
  <2>2. /\ \A d \in Ctx : (InBus(d)' <=> InBus(d)) /\ (InBus(d) => pTxn'[d] = pTxn[d])
        /\ \A d \in Ctx : \A x : FinAt(d, x)' <=> FinAt(d, x)
        BY <1>15 DEF SelectNothing, Typing, TypeOK, InBus, FinAt
  <2> QED BY <1>00, <2>1, <2>2, OnBusSame, FinishedSame, NothingImplemented
<1>16. ASSUME NEW c \in Ctx, Send(c) PROVE UNCHANGED Service!vars
  <2>1. UNCHANGED <<WaitsVars, busTxn, hTxnDoneQueue, returnTxn>>
        BY <1>16 DEF Send, WaitsVars
  <2>2. /\ \A d \in Ctx : (InBus(d)' <=> InBus(d)) /\ (InBus(d) => pTxn'[d] = pTxn[d])
        /\ \A d \in Ctx : \A x : FinAt(d, x)' <=> FinAt(d, x)
        BY <1>16 DEF Send, Typing, TypeOK, InBus, FinAt
  <2> QED BY <1>00, <2>1, <2>2, OnBusSame, FinishedSame, NothingImplemented
<1>17. ASSUME NEW c \in Ctx, DrainEnd(c) PROVE UNCHANGED Service!vars
  <2>1. UNCHANGED <<WaitsVars, busTxn, hTxnDoneQueue, returnTxn>>
        BY <1>17 DEF DrainEnd, WaitsVars
  <2>2. /\ \A d \in Ctx : (InBus(d)' <=> InBus(d)) /\ (InBus(d) => pTxn'[d] = pTxn[d])
        /\ \A d \in Ctx : \A x : FinAt(d, x)' <=> FinAt(d, x)
        BY <1>17 DEF DrainEnd, Typing, TypeOK, InBus, FinAt
  <2> QED BY <1>00, <2>1, <2>2, OnBusSame, FinishedSame, NothingImplemented
<1>18. ASSUME NEW c \in Ctx, LeaveReturn(c) PROVE [Service!Next]_(Service!vars)
  <2>1. PICK t : t = returnTxn[c]
        OBVIOUS
  <2>2. /\ UNCHANGED <<WaitsVars, busTxn, hTxnDoneQueue, pTxn>>
        /\ returnTxn' = [returnTxn EXCEPT ![c] = None]
        BY <1>18 DEF LeaveReturn, WaitsVars
  <2>3. /\ \A d \in Ctx : (InBus(d)' <=> InBus(d)) /\ (InBus(d) => pTxn'[d] = pTxn[d])
        /\ \A d \in Ctx : \A x : FinAt(d, x)' <=> FinAt(d, x)
        BY <1>18 DEF LeaveReturn, Typing, TypeOK, InBus, FinAt
  <2>4. OnBus' = OnBus
        BY <1>00, <2>2, <2>3, OnBusSame
  <2>5. CASE t = None
    <3>1. returnTxn' = returnTxn
          BY <2>1, <2>2, <2>5 DEF Typing, TypeOK
    <3>2. UNCHANGED Service!vars
          BY <2>2, <2>3, <2>4, <3>1, FinishedSame, NothingImplemented
    <3> QED BY <3>2
  <2>6. CASE t # None
    <3>1. t \in Txns
          BY <2>1, <2>6 DEF Typing, TypeOK
    <3>2. /\ ~Has(hTxnDoneQueue, t)
          /\ \A d \in Ctx : ~Holding(d, t) /\ (returnTxn[d] = t => d = c)
          BY <2>1, <3>1 DEF Places, OnePlaceOf
    <3>3. \A d \in Ctx : ~FinAt(d, t)
          BY <3>2 DEF FinAt, Holding
    <3>4. \A d \in Ctx : \A x : returnTxn'[d] = x /\ x # None
                               <=> returnTxn[d] = x /\ x # None /\ d # c
          BY <2>2 DEF Typing, TypeOK
    <3>5. Fin(t)
          BY <2>1, <2>6 DEF Fin
    <3>6. ASSUME NEW x PROVE Fin(x)' <=> Fin(x) /\ x # t
          BY <2>1, <2>2, <2>3, <3>2, <3>3, <3>4 DEF Fin
    <3> QED BY <2>2, <2>4, <3>1, <3>5, <3>6, ReportImplemented
  <2> QED BY <2>5, <2>6
<1>19. ASSUME NEW c \in Ctx, SelectAggregated(c) PROVE Service!Next
  <2>1. PICK q \in Queues : q = pAggregQueue
        BY <1>19 DEF SelectAggregated, Typing, TypeOK
  <2>2. /\ aTxnQueues[q] # <<>> /\ pc[c] = "select" /\ Dequeue(c, q)
        /\ UNCHANGED <<pSingleStep, hTxnDoneQueue, returnTxn>>
        BY <1>19, <2>1 DEF SelectAggregated
  <2> QED BY <1>0, <2>2, DequeueImplemented
<1>20. ASSUME NEW c \in Ctx, SelectSingleStep(c) PROVE Service!Next
      BY <1>0, <1>20, SingleStepImplemented
<1>21. ASSUME NEW c \in Ctx, SelectQueued(c) PROVE Service!Next
  <2>1. PICK q \in Queues : Dequeue(c, q) /\ aTxnQueues[q] # <<>>
        BY <1>21 DEF SelectQueued, ReadyQueues
  <2>2. pc[c] = "select" /\ UNCHANGED <<pSingleStep, hTxnDoneQueue, returnTxn>>
        BY <1>21 DEF SelectQueued, SelectingFree
  <2> QED BY <1>0, <2>1, <2>2, DequeueImplemented
<1>22. ASSUME NEW c \in Ctx, TransactComplete(c) PROVE Service!Next
  <2>1. PICK t : t = pTxn[c]
        OBVIOUS
  <2>2. /\ UNCHANGED <<WaitsVars, busTxn, hTxnDoneQueue>> /\ pc[c] = "bus"
        BY <1>22 DEF TransactComplete, WaitsVars
  <2>3. /\ t \in Txns /\ busTxn = None
        /\ \A d \in Ctx : InBus(d) => d = c
        BY <2>1, <2>2 DEF Typing, Carried, Exclusion, BusOwned, SchedulerExclusive,
             InScheduler, InBus
  <2>4. OnBus = t
        BY <1>00, <2>1, <2>2, OnBusIs DEF InBus
  <2>5. \A d \in Ctx : ~InBus(d)'
        BY <1>22, <2>3 DEF TransactComplete, Typing, TypeOK, InBus
  <2>6. OnBus' = None
        BY <1>00, <2>2, <2>3, <2>5, OnBusThen
  <2>7. ASSUME NEW x PROVE Fin(x)' <=> Fin(x) \/ x = t
    <3>1. CASE pTxn[c] = pInputTxn[c]
      <4>1. /\ returnTxn' = [returnTxn EXCEPT ![c] = t] /\ pTxn' = [pTxn EXCEPT ![c] = None]
            /\ pc' = [pc EXCEPT ![c] = "select"]
            BY <1>22, <2>1, <3>1 DEF TransactComplete
      <4>2. returnTxn[c] = None
            BY <2>1, <2>3, <3>1 DEF Places, Returns
      <4>3. \A d \in Ctx : FinAt(d, x)' <=> FinAt(d, x)
            BY <2>2, <4>1 DEF Typing, TypeOK, FinAt
      <4>4. \A d \in Ctx : returnTxn'[d] = IF d = c THEN t ELSE returnTxn[d]
            BY <4>1 DEF Typing, TypeOK
      <4>5. t # None
            BY <2>3
      <4>6. (\E d \in Ctx : returnTxn'[d] = x /\ x # None)
               <=> x = t \/ \E d \in Ctx : returnTxn[d] = x /\ x # None
            BY <4>2, <4>4, <4>5
      <4> QED BY <2>2, <4>3, <4>6 DEF Fin
    <3>2. CASE pTxn[c] # pInputTxn[c]
      <4>1. /\ UNCHANGED <<returnTxn, pTxn>> /\ pc' = [pc EXCEPT ![c] = "post"]
            BY <1>22, <3>2 DEF TransactComplete
      <4>2. \A d \in Ctx : FinAt(d, x)' <=> FinAt(d, x) \/ (d = c /\ x = t)
            BY <2>1, <2>2, <4>1 DEF Typing, TypeOK, FinAt
      <4> QED BY <2>2, <4>1, <4>2 DEF Fin
    <3> QED BY <3>1, <3>2
  <2> QED BY <2>2, <2>3, <2>4, <2>6, <2>7, FinishImplemented
<1>23. ASSUME NEW c \in Ctx, TransactAsync(c) PROVE UNCHANGED Service!vars
  <2>1. /\ busTxn' = pTxn[c] /\ UNCHANGED <<WaitsVars, hTxnDoneQueue, returnTxn>>
        /\ pc' = [pc EXCEPT ![c] = "drain"] /\ pTxn' = [pTxn EXCEPT ![c] = None]
        /\ pc[c] = "bus"
        BY <1>23 DEF TransactAsync, WaitsVars
  <2>2. OnBus = pTxn[c]
        BY <1>00, <2>1, OnBusIs DEF InBus
  <2>3. \A d \in Ctx : InBus(d) => d = c
        BY <1>00, <2>1 DEF SchedulerExclusive, InScheduler, InBus
  <2>4. \A d \in Ctx : ~InBus(d)'
        BY <2>1, <2>3 DEF Typing, TypeOK, InBus
  <2>5. OnBus' = pTxn[c]
        BY <1>00, <2>1, <2>4, OnBusThen
  <2>6. \A d \in Ctx : \A x : FinAt(d, x)' <=> FinAt(d, x)
        BY <2>1 DEF Typing, TypeOK, FinAt
  <2> QED BY <2>1, <2>2, <2>5, <2>6, FinishedSame, NothingImplemented
<1>24. ASSUME NEW c \in Ctx, Post(c) PROVE UNCHANGED Service!vars
  <2>1. PICK t : t = pTxn[c]
        OBVIOUS
  <2>2. /\ hTxnDoneQueue' = Append(hTxnDoneQueue, t) /\ UNCHANGED <<WaitsVars, busTxn, returnTxn>>
        /\ t \in Txns /\ FinAt(c, t)
        BY <1>24, <2>1 DEF Post, WaitsVars, Typing, Carried, FinAt
  <2>3. \A d \in Ctx : (InBus(d)' <=> InBus(d)) /\ (InBus(d) => pTxn'[d] = pTxn[d])
        BY <1>24 DEF Post, Typing, TypeOK, InBus
  <2>4. \A d \in Ctx : \A x : FinAt(d, x)' <=> FinAt(d, x) /\ d # c
        BY <1>24 DEF Post, Typing, TypeOK, FinAt
  <2> QED BY <1>00, <2>2, <2>3, <2>4, PostImplemented
<1>25. ASSUME NEW c \in Ctx, DrainNext(c) PROVE UNCHANGED Service!vars
  <2>1. PICK t : t = Head(hTxnDoneQueue)
        OBVIOUS
  <2>2. /\ hTxnDoneQueue' = Tail(hTxnDoneQueue) /\ hTxnDoneQueue # <<>> /\ pc[c] = "drain"
        /\ UNCHANGED <<WaitsVars, busTxn, returnTxn>>
        /\ pTxn' = [pTxn EXCEPT ![c] = t] /\ pc' = [pc EXCEPT ![c] = "cb"]
        BY <1>25, <2>1 DEF DrainNext, WaitsVars
  <2>3. /\ Has(hTxnDoneQueue, t)
        /\ \A u : Has(Tail(hTxnDoneQueue), u) <=> Has(hTxnDoneQueue, u) /\ u # t
        BY <2>1, <2>2, TailHas DEF Places, InPlace, Typing, TypeOK
  <2>4. \A d \in Ctx : (InBus(d)' <=> InBus(d)) /\ (InBus(d) => pTxn'[d] = pTxn[d])
        BY <2>2 DEF Typing, TypeOK, InBus
  <2>5. \A d \in Ctx : \A x : FinAt(d, x)' <=> FinAt(d, x) \/ (d = c /\ x = t)
        BY <2>2 DEF Typing, TypeOK, FinAt
  <2>6. \A x : Fin(x)' <=> Fin(x)
        BY <2>2, <2>3, <2>5 DEF Fin
  <2>7. Finished' = Finished
        BY <2>6, FinishedIs, FinishedThen
  <2> QED BY <1>00, <2>2, <2>4, <2>7, OnBusSame, NothingImplemented
<1>26. ASSUME NEW c \in Ctx, CallDoneCb(c) PROVE Service!Next
  <2>1. PICK t : t = pTxn[c]
        OBVIOUS
  <2>2. /\ t \in Txns /\ FinAt(c, t)
        /\ UNCHANGED <<WaitsVars, busTxn, hTxnDoneQueue, returnTxn>>
        BY <1>26, <2>1 DEF CallDoneCb, WaitsVars, Typing, Carried, FinAt
  <2>3. /\ ~Has(hTxnDoneQueue, t)
        /\ \A d \in Ctx : (Holding(d, t) => d = c) /\ returnTxn[d] # t
        BY <2>2 DEF Places, OnePlaceOf, FinAt, Holding
  <2>4. \A d \in Ctx : FinAt(d, t) => d = c
        BY <2>3 DEF FinAt, Holding
  <2>5. \A d \in Ctx : \A x : FinAt(d, x)' <=> FinAt(d, x) /\ d # c
        BY <1>26 DEF CallDoneCb, Typing, TypeOK, FinAt
  <2>6. \A x : FinAt(c, x) => x = t
        BY <2>1 DEF FinAt
  <2>7. \A d \in Ctx : (InBus(d)' <=> InBus(d)) /\ (InBus(d) => pTxn'[d] = pTxn[d])
        BY <1>26 DEF CallDoneCb, Typing, TypeOK, InBus
  <2>8. Fin(t)
        BY <2>2 DEF Fin
  <2>9. ASSUME NEW x PROVE Fin(x)' <=> Fin(x) /\ x # t
    <3>1. \A d \in Ctx : FinAt(d, x)' <=> FinAt(d, x) /\ x # t
          BY <2>4, <2>5, <2>6
    <3>2. \A d \in Ctx : returnTxn'[d] = x /\ x # None <=> returnTxn[d] = x /\ x # None /\ x # t
          BY <2>2, <2>3
    <3> QED BY <2>2, <2>3, <3>1, <3>2 DEF Fin
  <2> QED BY <1>00, <2>2, <2>7, <2>8, <2>9, OnBusSame, ReportImplemented
<1>27. ASSUME DoneRecover PROVE Service!Next
  <2>1. PICK t : t = pTxn[Ext]
        OBVIOUS
  <2>2. /\ t \in Txns /\ FinAt(Ext, t)
        /\ UNCHANGED <<WaitsVars, busTxn, hTxnDoneQueue, returnTxn>>
        BY <1>27, <2>1 DEF DoneRecover, WaitsVars, Typing, Carried, FinAt
  <2>3. /\ ~Has(hTxnDoneQueue, t)
        /\ \A d \in Ctx : (Holding(d, t) => d = Ext) /\ returnTxn[d] # t
        BY <2>2 DEF Places, OnePlaceOf, FinAt, Holding
  <2>4. \A d \in Ctx : FinAt(d, t) => d = Ext
        BY <2>3 DEF FinAt, Holding
  <2>5. \A d \in Ctx : \A x : FinAt(d, x)' <=> FinAt(d, x) /\ d # Ext
        BY <1>27 DEF DoneRecover, Typing, TypeOK, FinAt
  <2>6. \A x : FinAt(Ext, x) => x = t
        BY <2>1 DEF FinAt
  <2>7. \A d \in Ctx : (InBus(d)' <=> InBus(d)) /\ (InBus(d) => pTxn'[d] = pTxn[d])
        BY <1>27 DEF DoneRecover, Typing, TypeOK, InBus
  <2>8. Fin(t)
        BY <2>2 DEF Fin
  <2>9. ASSUME NEW x PROVE Fin(x)' <=> Fin(x) /\ x # t
    <3>1. \A d \in Ctx : FinAt(d, x)' <=> FinAt(d, x) /\ x # t
          BY <2>4, <2>5, <2>6
    <3>2. \A d \in Ctx : returnTxn'[d] = x /\ x # None <=> returnTxn[d] = x /\ x # None /\ x # t
          BY <2>2, <2>3
    <3> QED BY <2>2, <2>3, <3>1, <3>2 DEF Fin
  <2> QED BY <1>00, <2>2, <2>7, <2>8, <2>9, OnBusSame, ReportImplemented
<1>28. ASSUME TxnDone PROVE Service!Next
  <2>1. PICK t : t = busTxn
        OBVIOUS
  <2>2. /\ t \in Txns /\ busTxn' = None /\ pTxn' = [pTxn EXCEPT ![Ext] = t]
        /\ UNCHANGED <<WaitsVars, hTxnDoneQueue, returnTxn>> /\ pc[Ext] = "idle"
        /\ \/ pc' = [pc EXCEPT ![Ext] = "doneClear"]
           \/ pc' = [pc EXCEPT ![Ext] = "doneEnqueue"]
        BY <1>28, <2>1 DEF TxnDone, WaitsVars, Typing, TypeOK
  <2>3. \A d \in Ctx : ~InBus(d)
    <3>1. ASSUME NEW d \in Ctx, pc[d] = "send" PROVE FALSE
          BY <2>1, <2>2, <3>1 DEF Exclusion, BusOwned, DoneMatchesCurr
    <3>2. ASSUME NEW d \in Ctx, pc[d] = "bus" PROVE FALSE
          BY <2>1, <2>2, <3>2 DEF Exclusion, BusOwned
    <3> QED BY <3>1, <3>2 DEF InBus
  <2>4. \A d \in Ctx : ~InBus(d)'
        BY <2>2, <2>3 DEF Typing, TypeOK, InBus
  <2>5. OnBus = t /\ OnBus' = None
        BY <1>00, <2>1, <2>2, <2>3, <2>4, OnBusIs, OnBusThen
  <2>6. \A d \in Ctx : \A x : FinAt(d, x)' <=> FinAt(d, x) \/ (d = Ext /\ x = t)
        BY <2>2 DEF Typing, TypeOK, FinAt
  <2>7. ASSUME NEW x PROVE Fin(x)' <=> Fin(x) \/ x = t
        BY <2>2, <2>6 DEF Fin
  <2> QED BY <2>2, <2>5, <2>7, FinishImplemented
<1>29. ASSUME DoneEnqueue PROVE UNCHANGED Service!vars
  <2>1. PICK t : t = pTxn[Ext]
        OBVIOUS
  <2>2. /\ hTxnDoneQueue' = Append(hTxnDoneQueue, t) /\ UNCHANGED <<WaitsVars, busTxn, returnTxn>>
        /\ t \in Txns /\ FinAt(Ext, t)
        BY <1>29, <2>1 DEF DoneEnqueue, WaitsVars, Typing, Carried, FinAt
  <2>3. \A d \in Ctx : (InBus(d)' <=> InBus(d)) /\ (InBus(d) => pTxn'[d] = pTxn[d])
        BY <1>29 DEF DoneEnqueue, Typing, TypeOK, InBus
  <2>4. \A d \in Ctx : \A x : FinAt(d, x)' <=> FinAt(d, x) /\ d # Ext
        BY <1>29 DEF DoneEnqueue, Typing, TypeOK, FinAt
  <2> QED BY <1>00, <2>2, <2>3, <2>4, PostImplemented
<1>30. ASSUME DoneClear PROVE Service!Next
  <2>1. /\ \A d \in Ctx : (InBus(d)' <=> InBus(d)) /\ (InBus(d) => pTxn'[d] = pTxn[d])
        /\ \A d \in Ctx : \A x : FinAt(d, x)' <=> FinAt(d, x)
        BY <1>30 DEF DoneClear, Typing, TypeOK, InBus, FinAt
  <2>2. PICK f \in Funcs : ClearQueues(f)
        BY <1>30 DEF DoneClear, Typing, Carried
  <2>3. UNCHANGED <<busTxn, hTxnDoneQueue, returnTxn>>
        BY <1>30 DEF DoneClear
  <2> QED BY <1>00, <2>1, <2>2, <2>3, OnBusSame, FinishedSame, DiscardImplemented
<1>31. ASSUME DoneNull PROVE UNCHANGED Service!vars
  <2>1. UNCHANGED <<WaitsVars, busTxn, hTxnDoneQueue, returnTxn>>
        BY <1>31 DEF DoneNull, WaitsVars
  <2>2. /\ \A d \in Ctx : (InBus(d)' <=> InBus(d)) /\ (InBus(d) => pTxn'[d] = pTxn[d])
        /\ \A d \in Ctx : \A x : FinAt(d, x)' <=> FinAt(d, x)
        BY <1>31 DEF DoneNull, Typing, TypeOK, InBus, FinAt
  <2> QED BY <1>00, <2>1, <2>2, OnBusSame, FinishedSame, NothingImplemented
<1>32. CASE UNCHANGED vars
      BY <1>32 DEF vars, Service!vars, OnBus, Finished
<1> QED
  BY <1>1, <1>2, <1>3, <1>4, <1>5, <1>6, <1>7, <1>8, <1>9, <1>10, <1>11, <1>12, <1>13,
     <1>14, <1>15, <1>16, <1>17, <1>18, <1>19, <1>20, <1>21, <1>22, <1>23, <1>24, <1>25,
     <1>26, <1>27, <1>28, <1>29, <1>30, <1>31, <1>32
     DEF Next, Call, Transact, RunScheduler, SelectTxn, Scheduler, TxnDoneCb

LEMMA InitImplemented == Init => Service!Init
<1> SUFFICES ASSUME Init PROVE Service!Init
    OBVIOUS
<1>1. OnBus = None
      BY DEF Init, OnBus
<1>2. \A x : ~Fin(x)
      BY DEF Init, Fin, FinAt, Has
<1>3. Finished = {}
      BY <1>2, FinishedIs
<1> QED BY <1>1, <1>3 DEF Init, Service!Init

\* Across all interleavings of the driver contexts, the TxnDone context and the
\* guard timers, txnQ_Transact, txnQ_RunScheduler and txnQ_TxnDoneCb behave as
\* TxnService: every transaction is sent in the order of its queue, one at a
\* time, and is reported once.
THEOREM QueueImplementsService == Spec => ImplementsService
  BY TypingInit, TypingStep, ExclusionInit, ExclusionStep, PlacesInit, PlacesStep,
     InitImplemented, StepImplemented, PTL DEF Spec, ImplementsService, Service!Spec

=============================================================================
