----------------------------- MODULE TxnService -----------------------------
(***************************************************************************)
(* What the transaction queue promises to its functional drivers           *)
(* (Txn/TxnQueue.h): transactions of a queue reach the bus in the order    *)
(* they were handed over, a single-step transaction passes them, the bus   *)
(* carries one transaction at a time, and every transaction that was on    *)
(* the bus is reported to its owner exactly once.                          *)
(***************************************************************************)
EXTENDS Naturals, Sequences

CONSTANTS Funcs, Queues, Txns, FuncOf, QueueOf(_), SingleStep, None

VARIABLES
    waiting,    \* the transactions handed over, one FIFO per queue
    slot,       \* the single-step transaction of a function
    onBus,      \* the transaction on the bus
    finished    \* off the bus, not yet reported

vars == <<waiting, slot, onBus, finished>>

Init ==
    /\ waiting = [q \in Queues |-> <<>>]
    /\ slot = [f \in Funcs |-> None]
    /\ onBus = None
    /\ finished = {}

Held(t) ==
    \/ \E q \in Queues : \E i \in DOMAIN waiting[q] : waiting[q][i] = t
    \/ \E f \in Funcs : slot[f] = t
    \/ onBus = t
    \/ t \in finished

\* A single-step transaction replaces one that has not been sent yet.
Accept(t) ==
    /\ Held(t) => slot[FuncOf[t]] = t
    /\ IF t \in SingleStep
       THEN /\ slot' = [slot EXCEPT ![FuncOf[t]] = t]
            /\ UNCHANGED waiting
       ELSE /\ waiting' = [waiting EXCEPT ![QueueOf(t)] = Append(@, t)]
            /\ UNCHANGED slot
    /\ UNCHANGED <<onBus, finished>>

StartQueued(q) ==
    /\ onBus = None /\ waiting[q] # <<>>
    /\ onBus' = Head(waiting[q])
    /\ waiting' = [waiting EXCEPT ![q] = Tail(@)]
    /\ UNCHANGED <<slot, finished>>

StartSingleStep(f) ==
    /\ onBus = None /\ slot[f] # None
    /\ onBus' = slot[f]
    /\ slot' = [slot EXCEPT ![f] = None]
    /\ UNCHANGED <<waiting, finished>>

Finish ==
    /\ onBus # None
    /\ onBus' = None
    /\ finished' = finished \cup {onBus}
    /\ UNCHANGED <<waiting, slot>>

Report(t) ==
    /\ t \in finished
    /\ finished' = finished \ {t}
    /\ UNCHANGED <<waiting, slot, onBus>>

\* A restart of function f: only what has not reached the bus is given up.
Discard(f) ==
    /\ waiting' = [q \in Queues |-> IF q[1] = f THEN <<>> ELSE waiting[q]]
    /\ slot' = [slot EXCEPT ![f] = None]
    /\ UNCHANGED <<onBus, finished>>

Next ==
    \/ \E t \in Txns : Accept(t) \/ Report(t)
    \/ \E q \in Queues : StartQueued(q)
    \/ \E f \in Funcs : StartSingleStep(f) \/ Discard(f)
    \/ Finish

Spec == Init /\ [][Next]_vars
=============================================================================
