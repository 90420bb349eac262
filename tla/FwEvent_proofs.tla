--------------------------- MODULE FwEvent_proofs ---------------------------
(***************************************************************************)
(* Proofs for any number of results and stops.                             *)
(* IInv: the context engine loses no wakeup and leaks no wake lock; needed *)
(* is where the task is in its scan when a handler runs, for FwEvent's     *)
(* client or for TwIf's.                                                   *)
(* WayInv: the reads and writes on their way, counted queue by queue; so   *)
(* no transaction is handed over while it is in a queue.                   *)
(* ReportInv: the entries of the firmware's table between the counters of  *)
(* host and firmware, as long as each result reported was counted; so the  *)
(* results are reported once and in order.                                 *)
(* KnownInv: an enabled interrupt is noted by someone.                     *)
(***************************************************************************)
EXTENDS FwEvent, FiniteSetTheorems, TLAPS

InHandler == {"handle", "event", "cmplt", "results", "read", "complete", "done"}

\* A handler runs for the client at which the scan is, and TwIf's alone is left
\* transaction by transaction.
AtClient ==
    /\ pc \in InHandler => next \in {1, 2}
    /\ pc \in {"read", "done"} => next = 2

Covered == \A c \in Clients : Runs(c) => workQueued \/ c \in requesting \/ YetToCome(c)

Balanced == wakeLocks = Cardinality(requesting) + (IF workQueued THEN 1 ELSE 0)
                        + (IF pc = "idle" THEN 0 ELSE 1)

ContextOK ==
    /\ aClientPending \in [Clients -> BOOLEAN] /\ aClientEnabled \in [Clients -> BOOLEAN]
    /\ requesting \subseteq Clients /\ workQueued \in BOOLEAN /\ wakeLocks \in Nat

TaskOK ==
    /\ next \in 1 .. 3
    /\ pc \in {"idle", "scan"} \cup InHandler

OthersOK ==
    /\ eSmState \in {"IDLE", "WAIT_INTR_INFO"} /\ bIntrPending \in BOOLEAN
    /\ uEventMask \subseteq Events
    /\ eState \in {"IDLE", "READING"}
    /\ phase \in {"up", "stopping", "down", "boot", "init"}
    /\ qState \in {"RUNNING", "RESTART"}

IInv == ContextOK /\ TaskOK /\ OthersOK /\ AtClient /\ Covered /\ Balanced

LEMMA IInvImplies == IInv => TypeOK /\ NoLostWakeup
BY DEF IInv, ContextOK, TaskOK, OthersOK, InHandler, Covered, Balanced, TypeOK, NoLostWakeup

\* Of the flagged clients, one more or one less.
LEMMA RequestingCount ==
    ASSUME requesting \subseteq Clients, NEW c \in Clients
    PROVE  /\ Cardinality(requesting) \in Nat
           /\ c \notin requesting =>
                  Cardinality(requesting \cup {c}) = Cardinality(requesting) + 1
           /\ c \in requesting =>
                  Cardinality(requesting \ {c}) = Cardinality(requesting) - 1
<1>1. IsFiniteSet(Clients)
  <2>1. IsFiniteSet({"FW_EVENT"}) /\ IsFiniteSet({"TWIF"})
        BY FS_Singleton
  <2>2. Clients = {"FW_EVENT"} \cup {"TWIF"}
        BY DEF Clients
  <2> QED BY <2>1, <2>2, FS_Union
<1>2. IsFiniteSet(requesting)
      BY <1>1, FS_Subset
<1> QED BY <1>2, FS_CardinalityType, FS_AddElement, FS_RemoveElement

LEMMA InitIInv == Init => IInv
<1> SUFFICES ASSUME Init PROVE IInv
    OBVIOUS
<1>1. ContextOK
  <2>1. /\ aClientPending \in [Clients -> BOOLEAN]
        /\ aClientEnabled \in [Clients -> BOOLEAN]
        BY DEF Init
  <2> QED BY <2>1 DEF Init, ContextOK
<1>2. TaskOK /\ AtClient
      BY DEF Init, TaskOK, AtClient, InHandler
<1>3. OthersOK
      BY DEF Init, OthersOK
<1>4. Covered
      BY DEF Init, Covered, Runs
<1>5. Balanced
      BY FS_EmptySet DEF Init, Balanced
<1> QED BY <1>1, <1>2, <1>3, <1>4, <1>5 DEF IInv

-----------------------------------------------------------------------------
(* The ways in which the actions change the context engine and the task.   *)

LEMMA Untouched ==
    ASSUME IInv, UNCHANGED context, UNCHANGED task
    PROVE  ContextOK' /\ TaskOK' /\ AtClient' /\ Covered' /\ Balanced'
BY DEF IInv, context, task, ContextOK, TaskOK, AtClient, Covered, Balanced, Runs, YetToCome

\* An interrupt or the TxnDone context requests the task.
LEMMA Requested ==
    ASSUME IInv, NEW c \in Clients, RequestSchedule(c), UNCHANGED task
    PROVE  ContextOK' /\ TaskOK' /\ AtClient' /\ Covered' /\ Balanced'
<1> USE DEF RequestSchedule, task
<1>1. ContextOK'
      BY DEF IInv, ContextOK
<1>2. TaskOK' /\ AtClient'
      BY DEF IInv, TaskOK, AtClient
<1>3. Covered'
      BY DEF IInv, ContextOK, Covered, Runs, YetToCome
<1>4. Balanced'
      BY RequestingCount DEF IInv, ContextOK, Balanced
<1> QED BY <1>1, <1>2, <1>3, <1>4

\* A handler goes on, or its callback returns.
LEMMA Handled ==
    ASSUME IInv, UNCHANGED context, pc \in InHandler,
           \/ next' = next /\ pc' \in InHandler \ {"read", "done"}
           \/ next = 2 /\ next' = next /\ pc' \in {"read", "done"}
           \/ Return
           \/ next' = next + 1 /\ pc' = "scan"
    PROVE  ContextOK' /\ TaskOK' /\ AtClient' /\ Covered' /\ Balanced'
<1>1. ContextOK'
      BY DEF IInv, ContextOK, context
<1>2. TaskOK' /\ AtClient'
      BY DEF IInv, TaskOK, AtClient, InHandler, Return, Order
<1>3. Covered'
  <2> SUFFICES ASSUME NEW c \in Clients, Runs(c)'
               PROVE  (workQueued \/ c \in requesting \/ YetToCome(c))'
      BY DEF Covered
  <2>1. workQueued \/ c \in requesting \/ YetToCome(c)
        BY DEF IInv, Covered, Runs, context
  <2>2. YetToCome(c) => YetToCome(c)'
        BY DEF IInv, TaskOK, AtClient, YetToCome, InHandler, Return, Order, Clients
  <2> QED BY <2>1, <2>2 DEF context
<1>4. pc' # "idle" /\ pc # "idle"
      BY DEF InHandler, Return
<1>5. Balanced'
      BY <1>4 DEF IInv, Balanced, context
<1> QED BY <1>1, <1>2, <1>3, <1>5

\* The callback of a client is called, and goes on or has returned.
LEMMA Called ==
    ASSUME IInv, NEW c \in Clients, pc = "scan", next = Order[c], ClearPending(c),
           \/ next' = next /\ pc' \in InHandler \ {"read", "done"}
           \/ next = 2 /\ next' = next /\ pc' = "done"
           \/ next' = next + 1 /\ pc' = "scan"
    PROVE  ContextOK' /\ TaskOK' /\ AtClient' /\ Covered' /\ Balanced'
<1> next \in {1, 2}
    BY DEF Order, Clients
<1>1. ContextOK'
      BY DEF IInv, ContextOK, ClearPending
<1>2. TaskOK' /\ AtClient'
      BY DEF IInv, TaskOK, AtClient, InHandler
<1>3. Covered'
  <2> SUFFICES ASSUME NEW d \in Clients, Runs(d)'
               PROVE  (workQueued \/ d \in requesting \/ YetToCome(d))'
      BY DEF Covered
  <2>1. d # c /\ Runs(d)
        BY DEF IInv, ContextOK, Runs, ClearPending
  <2>2. workQueued \/ d \in requesting \/ YetToCome(d)
        BY <2>1 DEF IInv, Covered
  <2>3. YetToCome(d) => YetToCome(d)'
        BY <2>1 DEF IInv, YetToCome, InHandler, Order, Clients
  <2> QED BY <2>2, <2>3 DEF ClearPending
<1>4. pc' # "idle" /\ pc # "idle"
      BY DEF InHandler
<1>5. Balanced'
      BY <1>4 DEF IInv, Balanced, ClearPending
<1> QED BY <1>1, <1>2, <1>3, <1>5

-----------------------------------------------------------------------------
\* The other types.
LEMMA OthersKept == IInv /\ [Next]_vars => OthersOK'
<1> SUFFICES ASSUME IInv, [Next]_vars PROVE OthersOK'
    OBVIOUS
<1> USE DEF IInv, OthersOK
<1>1. CASE UNCHANGED vars
      BY <1>1 DEF vars, fwEvent, txResult, life
<1>2. CASE Task
  <2>1. CASE DriverTask \/ Skip \/ TaskEnd \/ HandleEvents \/ EventHandled
        BY <2>1 DEF DriverTask, Skip, TaskEnd, HandleEvents, EventHandled, fwEvent,
                    txResult, life
  <2>2. ASSUME ReadIntrInfo
        PROVE  /\ eSmState' \in {"IDLE", "WAIT_INTR_INFO"} /\ bIntrPending' \in BOOLEAN
               /\ uEventMask' \subseteq Events /\ qState' \in {"RUNNING", "RESTART"}
        BY <2>2 DEF ReadIntrInfo, FwEventStop
  <2>3. CASE NewEvent
        BY <2>2, <2>3 DEF NewEvent, txResult, life
  <2>4. CASE Complete
        BY <2>2, <2>4 DEF Complete, txResult, life
  <2>5. CASE StatusDone
        BY <2>2, <2>5 DEF StatusDone, Done, fwEvent, txResult, life
  <2>6. CASE TxCmpltIntrCb
        BY <2>6 DEF TxCmpltIntrCb, ReadTable, fwEvent, life
  <2>7. CASE ResultsRead
        BY <2>7 DEF ResultsRead, HandleNewResults, fwEvent, life
  <2>8. CASE HandleTxnDone \/ FailedDone
        BY <2>8 DEF HandleTxnDone, FailedDone, fwEvent, txResult, life
  <2>9. CASE TableDone
        BY <2>9 DEF TableDone, Done, ReadTable, HandleNewResults, fwEvent, life
  <2> QED BY <1>2, <2>1, <2>3, <2>4, <2>5, <2>6, <2>7, <2>8, <2>9 DEF Task
<1>3. CASE Bus
      BY <1>3 DEF Bus, BusTxnDone, BusRecovery, ClearQueues, BusSend, BusPost, fwEvent,
           txResult, life
<1>4. CASE Life
  <2>1. CASE Stop \/ EventStops
        BY <2>1 DEF Stop, EventStops, StopActivities, FwEventStop, txResult
  <2>2. CASE PendRestartTimeout \/ PowerOn \/ FinalizeDownload
        BY <2>2 DEF PendRestartTimeout, ClearQueues, PowerOn, FinalizeDownload, fwEvent,
             txResult, InitMask, Events
  <2>3. CASE EnableClient
        BY <2>3 DEF EnableClient, fwEvent, txResult, life
  <2>4. CASE ConfigComplete
        BY <2>4 DEF ConfigComplete
  <2> QED BY <1>4, <2>1, <2>2, <2>3, <2>4 DEF Life
<1>5. CASE OtherTxn \/ FwPostsResult \/ FwRaisesEvent
      BY <1>5 DEF OtherTxn, FwPostsResult, FwRaisesEvent, fwEvent, txResult, life
<1>6. CASE \E c \in Clients : OsRequestSchedule(c)
      BY <1>6 DEF OsRequestSchedule, fwEvent, txResult, life
<1> QED BY <1>1, <1>2, <1>3, <1>4, <1>5, <1>6 DEF Next

-----------------------------------------------------------------------------
LEMMA NextIInv == IInv /\ [Next]_vars => IInv'
<1> SUFFICES ASSUME IInv, [Next]_vars PROVE IInv'
    OBVIOUS
<1> DEFINE Kept == ContextOK /\ TaskOK /\ AtClient /\ Covered /\ Balanced
<1>1. SUFFICES Kept'
      BY OthersKept DEF IInv
<1> "FW_EVENT" \in Clients /\ "TWIF" \in Clients
    /\ Order["FW_EVENT"] = 1 /\ Order["TWIF"] = 2
    BY DEF Clients, Order
<1>2. CASE UNCHANGED vars
      BY <1>2, Untouched DEF vars
<1>3. CASE Task
  \* The read of the status, in a handler or in the call of FwEvent's client.
  <2>1. ASSUME ReadIntrInfo, pc \in InHandler, UNCHANGED context
        PROVE  Kept'
    <3>1. Return \/ (next' = next /\ pc' \in InHandler \ {"read", "done"})
          BY <2>1 DEF ReadIntrInfo, InHandler
    <3> QED BY <2>1, <3>1, Handled
  <2>2. CASE DriverTask
    <3> USE DEF DriverTask
    <3>1. workQueued' = FALSE /\ workQueued' \in BOOLEAN
          BY <2>2
    <3>2. ContextOK'
          BY <2>2, <3>1 DEF IInv, ContextOK
    <3>3. TaskOK' /\ AtClient'
          BY <2>2 DEF TaskOK, AtClient, InHandler
    <3>4. Covered'
          BY <2>2 DEF Covered, Runs, YetToCome, Order, Clients
    <3>5. Balanced'
      <4>1. wakeLocks = Cardinality(requesting) + 1 + 0
            BY <2>2 DEF IInv, Balanced
      <4>2. Cardinality(requesting) \in Nat
            BY RequestingCount DEF IInv, ContextOK
      <4>3. /\ wakeLocks' = wakeLocks /\ requesting' = requesting
            /\ ~workQueued' /\ pc' # "idle"
            BY <2>2
      <4> QED BY <4>1, <4>2, <4>3 DEF Balanced
    <3> QED BY <3>2, <3>3, <3>4, <3>5
  <2>3. CASE Skip
    <3> USE DEF Skip
    <3>1. ContextOK' /\ TaskOK' /\ AtClient'
          BY <2>3 DEF IInv, ContextOK, TaskOK, AtClient, InHandler, context
    <3>2. Covered'
          BY <2>3 DEF IInv, Covered, Runs, YetToCome, Order, Clients, context
    <3>3. Balanced'
          BY <2>3 DEF IInv, Balanced, context
    <3> QED BY <3>1, <3>2, <3>3
  <2>4. CASE TaskEnd
    <3> USE DEF TaskEnd
    <3>1. wakeLocks' \in Nat
      <4>1. Cardinality(requesting) \in Nat
            BY RequestingCount DEF IInv, ContextOK
      <4>2. pc # "idle"
            BY <2>4
      <4> QED BY <2>4, <4>1, <4>2 DEF IInv, ContextOK, Balanced
    <3>2. ContextOK' /\ TaskOK' /\ AtClient'
          BY <2>4, <3>1 DEF IInv, ContextOK, TaskOK, AtClient, InHandler
    <3>3. Covered'
      <4> SUFFICES ASSUME NEW c \in Clients, Runs(c)'
                   PROVE  (workQueued \/ c \in requesting)'
          BY DEF Covered
      <4>1. Runs(c)
            BY <2>4 DEF Runs
      <4>2. ~YetToCome(c)
            BY <2>4, <4>1 DEF IInv, TaskOK, AtClient, YetToCome, Order, Clients, InHandler
      <4> QED BY <2>4, <4>1, <4>2 DEF IInv, Covered
    <3>4. Balanced'
      <4>1. wakeLocks = Cardinality(requesting) + (IF workQueued THEN 1 ELSE 0) + 1
            BY <2>4 DEF IInv, Balanced
      <4>2. Cardinality(requesting) \in Nat
            BY RequestingCount DEF IInv, ContextOK
      <4>3. /\ wakeLocks' = wakeLocks - 1 /\ requesting' = requesting
            /\ workQueued' = workQueued /\ pc' = "idle"
            BY <2>4
      <4> QED BY <4>1, <4>2, <4>3 DEF Balanced
    <3> QED BY <3>2, <3>3, <3>4
  <2>5. CASE NewEvent
    <3>1. \/ next' = next /\ pc' \in InHandler \ {"read", "done"}
          \/ next' = next + 1 /\ pc' = "scan"
          BY <2>5 DEF NewEvent, ReadIntrInfo, Return, InHandler
    <3> QED BY <2>5, <3>1, Called DEF NewEvent
  <2>6. CASE HandleEvents \/ EventHandled \/ TxCmpltIntrCb
    <3>1. /\ UNCHANGED context /\ pc \in InHandler
          /\ next' = next /\ pc' \in InHandler \ {"read", "done"}
          BY <2>6 DEF HandleEvents, EventHandled, DataHandlers, TxCmpltIntrCb, ReadTable,
                      InHandler
    <3> QED BY <3>1, Handled
  <2>7. CASE ResultsRead
    <3>1. /\ UNCHANGED context /\ pc \in InHandler /\ next' = next
          /\ \/ pc' = "complete"
             \/ pc = "read" /\ pc' = "done"
          BY <2>7 DEF ResultsRead, InHandler
    <3>2. next = 2 \/ pc' = "complete"
          BY <3>1 DEF IInv, AtClient
    <3> QED BY <3>1, <3>2, Handled DEF InHandler
  <2>8. CASE Complete
    <3>1. pc \in InHandler /\ UNCHANGED context
          BY <2>8 DEF Complete, InHandler
    <3>2. ReadIntrInfo \/ Return
          BY <2>8 DEF Complete
    <3> QED BY <2>1, <3>1, <3>2, Handled
  <2>9. CASE HandleTxnDone
    <3>1. \/ next' = next /\ pc' = "done"
          \/ next' = next + 1 /\ pc' = "scan"
          BY <2>9 DEF HandleTxnDone
    <3> QED BY <2>9, <3>1, Called DEF HandleTxnDone
  <2>10. CASE StatusDone
    <3>1. pc \in InHandler /\ UNCHANGED context
          BY <2>10 DEF StatusDone, Done, InHandler
    <3>2. ReadIntrInfo \/ (next' = next /\ pc' \in InHandler \ {"read", "done"})
          BY <2>10 DEF StatusDone, InHandler
    <3> QED BY <2>1, <3>1, <3>2, Handled
  <2>11. CASE TableDone
    <3>1. /\ UNCHANGED context /\ pc \in InHandler
          /\ next' = next /\ pc = "done" /\ pc' \in {"read", "done"}
          BY <2>11 DEF TableDone, Done, ReadTable, InHandler
    <3>2. next = 2
          BY <3>1 DEF IInv, AtClient
    <3> QED BY <3>1, <3>2, Handled
  <2>12. CASE FailedDone
    <3>1. /\ UNCHANGED context /\ pc \in InHandler
          /\ next' = next + 1 /\ pc' = "scan"
          BY <2>12 DEF FailedDone, InHandler
    <3> QED BY <3>1, Handled
  <2> QED BY <1>3, <2>2, <2>3, <2>4, <2>5, <2>6, <2>7, <2>8, <2>9, <2>10, <2>11, <2>12
          DEF Task
<1>4. CASE Bus
  <2>1. ASSUME UNCHANGED task, NEW c \in Clients, UNCHANGED context \/ RequestSchedule(c)
        PROVE  Kept'
        BY <2>1, Untouched, Requested
  <2> QED BY <1>4, <2>1 DEF Bus, BusTxnDone, BusRecovery, BusSend, BusPost
<1>5. CASE Life
  \* A stop disables FwEvent's client, nothing else.
  <2>1. ASSUME StopActivities
        PROVE  /\ ContextOK' /\ UNCHANGED <<requesting, workQueued, wakeLocks>>
               /\ \A c \in Clients : Runs(c)' => Runs(c) /\ c # "FW_EVENT"
    <3>1. ContextOK'
          BY <2>1 DEF StopActivities, IInv, ContextOK
    <3>2. UNCHANGED <<requesting, workQueued, wakeLocks>>
          BY <2>1 DEF StopActivities
    <3>3. \A c \in Clients : Runs(c)' => Runs(c) /\ c # "FW_EVENT"
          BY <2>1 DEF StopActivities, IInv, ContextOK, Runs
    <3> QED BY <3>1, <3>2, <3>3
  <2>2. CASE Stop
    <3>1. TaskOK' /\ AtClient'
          BY <2>2 DEF Stop, task, IInv, TaskOK, AtClient
    <3>2. Covered' /\ Balanced'
          BY <2>1, <2>2 DEF Stop, task, IInv, Covered, Balanced, YetToCome
    <3> QED BY <2>1, <2>2, <3>1, <3>2 DEF Stop
  <2>3. CASE EventStops
    <3>1. pc = "event" /\ StopActivities /\ Return
          BY <2>3 DEF EventStops
    <3>2. TaskOK' /\ AtClient'
          BY <3>1 DEF IInv, TaskOK, AtClient, InHandler, Return, Order
    <3>3. Covered'
      <4> SUFFICES ASSUME NEW c \in Clients, Runs(c)'
                   PROVE  (workQueued \/ c \in requesting \/ YetToCome(c))'
          BY DEF Covered
      <4>1. workQueued \/ c \in requesting \/ YetToCome(c)
            BY <2>1, <3>1 DEF IInv, Covered
      <4>2. YetToCome(c) => YetToCome(c)'
            BY <3>1 DEF IInv, TaskOK, AtClient, YetToCome, InHandler, Return, Order, Clients
      <4> QED BY <2>1, <3>1, <4>1, <4>2
    <3>4. Balanced'
          BY <2>1, <3>1 DEF IInv, Balanced, Return
    <3> QED BY <2>1, <3>1, <3>2, <3>3, <3>4
  <2>4. CASE PendRestartTimeout \/ PowerOn \/ FinalizeDownload \/ ConfigComplete
        BY <2>4, Untouched DEF PendRestartTimeout, PowerOn, FinalizeDownload, ConfigComplete
  <2>5. CASE EnableClient
    <3> USE DEF EnableClient
    <3>1. /\ workQueued' \in BOOLEAN /\ wakeLocks' \in Nat
          /\ wakeLocks' = Cardinality(requesting) + (IF workQueued' THEN 1 ELSE 0)
      <4>1. wakeLocks = Cardinality(requesting) + (IF workQueued THEN 1 ELSE 0) + 0
            BY <2>5 DEF IInv, Balanced
      <4>2. Cardinality(requesting) \in Nat
            BY RequestingCount DEF IInv, ContextOK
      <4>3. CASE aClientPending["FW_EVENT"]
        <5>1. /\ workQueued' = TRUE
              /\ wakeLocks' = IF workQueued THEN wakeLocks ELSE wakeLocks + 1
              BY <2>5, <4>3
        <5> QED BY <4>1, <4>2, <5>1
      <4>4. CASE ~aClientPending["FW_EVENT"]
        <5>1. workQueued' = workQueued /\ wakeLocks' = wakeLocks
              BY <2>5, <4>4
        <5> QED BY <4>1, <4>2, <5>1 DEF IInv, ContextOK
      <4> QED BY <4>3, <4>4
    <3>2. ContextOK'
      <4>1. aClientEnabled' \in [Clients -> BOOLEAN]
            BY <2>5 DEF IInv, ContextOK
      <4>2. aClientPending' = aClientPending /\ requesting' = requesting
            BY <2>5
      <4> QED BY <3>1, <4>1, <4>2 DEF IInv, ContextOK
    <3>3. TaskOK' /\ AtClient'
          BY <2>5 DEF IInv, TaskOK, AtClient, task
    <3>4. Covered'
          BY <2>5 DEF IInv, ContextOK, Covered, Runs, YetToCome, task
    <3>5. Balanced'
      <4>1. pc' = "idle" /\ requesting' = requesting
            BY <2>5 DEF task
      <4>2. Cardinality(requesting) \in Nat
            BY RequestingCount DEF IInv, ContextOK
      <4> QED BY <3>1, <4>1, <4>2 DEF Balanced
    <3> QED BY <3>2, <3>3, <3>4, <3>5
  <2> QED BY <1>5, <2>2, <2>3, <2>4, <2>5 DEF Life
<1>6. CASE OtherTxn
      BY <1>6, Untouched DEF OtherTxn
<1>7. CASE FwPostsResult \/ FwRaisesEvent
  <2>1. UNCHANGED task /\ (UNCHANGED context \/ RequestSchedule("FW_EVENT"))
        BY <1>7 DEF FwPostsResult, FwRaisesEvent, Raise
  <2> QED BY <2>1, Untouched, Requested
<1>8. ASSUME NEW c \in Clients, OsRequestSchedule(c)
      PROVE  Kept'
  <2> USE DEF OsRequestSchedule
  <2>1. /\ Cardinality(requesting) \in Nat /\ Cardinality(requesting') \in Nat
        /\ Cardinality(requesting') = Cardinality(requesting) - 1
    <3>1. requesting \subseteq Clients /\ requesting' = requesting \ {c} /\ c \in requesting
          BY <1>8 DEF IInv, ContextOK
    <3>2. Cardinality(requesting \ {c}) = Cardinality(requesting) - 1
          BY <3>1, RequestingCount
    <3>3. Cardinality(requesting) \in Nat
          BY <3>1, RequestingCount
    <3>4. Cardinality(requesting) # 0
      <4>1. IsFiniteSet(requesting)
        <5>1. IsFiniteSet({"FW_EVENT"}) /\ IsFiniteSet({"TWIF"})
              BY FS_Singleton
        <5>2. Clients = {"FW_EVENT"} \cup {"TWIF"}
              BY DEF Clients
        <5> QED BY <3>1, <5>1, <5>2, FS_Union, FS_Subset
      <4> QED BY <3>1, <4>1, FS_EmptySet
    <3> QED BY <3>1, <3>2, <3>3, <3>4
  <2>2. Balanced' /\ wakeLocks' \in Nat
    <3>1. UNCHANGED task /\ wakeLocks \in Nat
          BY <1>8 DEF IInv, ContextOK
    <3>2. wakeLocks' = IF workQueued THEN wakeLocks - 1 ELSE wakeLocks
          BY <1>8
    <3>3. workQueued' = TRUE
          BY <1>8
    <3> QED BY <2>1, <3>1, <3>2, <3>3 DEF IInv, Balanced, ContextOK, task
  <2>3. ContextOK'
        BY <1>8, <2>2 DEF IInv, ContextOK
  <2>4. TaskOK' /\ AtClient'
        BY <1>8 DEF IInv, TaskOK, AtClient, task
  <2>5. Covered'
        BY <1>8 DEF Covered
  <2> QED BY <2>2, <2>3, <2>4, <2>5
<1> QED BY <1>2, <1>3, <1>4, <1>5, <1>6, <1>7, <1>8 DEF Next

LEMMA Invariance == Spec => []IInv
<1> QED BY InitIInv, NextIInv, PTL DEF Spec

\* Every reachable state of the context engine, the task and the state machines
\* is well typed (context.c:319-350, FwEvent.c:356-446, txResult.c:305-342).
THEOREM TypeCorrect == Spec => []TypeOK
<1>1. IInv => TypeOK
      BY IInvImplies
<1> QED BY <1>1, Invariance, PTL

\* For any number of results and stops, no wakeup is lost, and the wake lock is
\* held exactly while the task is requested or runs (context.c:272-350,
\* osapi.c:729, WlanDrvIf.c:352-356).
THEOREM WakeupsAreKept == Spec => []NoLostWakeup
<1>1. IInv => NoLostWakeup
      BY IInvImplies
<1> QED BY <1>1, Invariance, PTL

-----------------------------------------------------------------------------
(* How often a transaction is in a queue.                                  *)

Places(s, t) == {i \in 1 .. Len(s) : s[i] = t}
Count(s, t) == Cardinality(Places(s, t))

LEMMA PlacesFinite ==
    ASSUME NEW S, NEW s \in Seq(S), NEW t
    PROVE  /\ IsFiniteSet(Places(s, t)) /\ Count(s, t) \in Nat
           /\ Count(s, t) = 0 <=> \A i \in 1 .. Len(s) : s[i] # t
<1>1. Places(s, t) \in SUBSET (1 .. Len(s)) /\ Len(s) \in Int
      BY DEF Places
<1>2. IsFiniteSet(Places(s, t))
      BY <1>1, FS_Interval, FS_Subset
<1>3. Count(s, t) \in Nat /\ (Count(s, t) = 0 <=> Places(s, t) = {})
      BY <1>2, FS_CardinalityType, FS_EmptySet DEF Count
<1> QED BY <1>2, <1>3 DEF Places

LEMMA CountEmpty == ASSUME NEW t PROVE Count(<<>>, t) = 0
<1>1. Places(<<>>, t) = {}
      BY DEF Places
<1> QED BY <1>1, FS_EmptySet DEF Count

LEMMA CountAppend ==
    ASSUME NEW S, NEW s \in Seq(S), NEW x \in S, NEW t
    PROVE  Count(Append(s, x), t) = Count(s, t) + (IF x = t THEN 1 ELSE 0)
<1>1. CASE x = t
  <2>1. Places(Append(s, x), t) = Places(s, t) \cup {Len(s) + 1}
        BY <1>1 DEF Places
  <2>2. Len(s) + 1 \notin Places(s, t)
        BY DEF Places
  <2> QED BY <1>1, <2>1, <2>2, PlacesFinite, FS_AddElement DEF Count
<1>2. CASE x # t
  <2>1. Places(Append(s, x), t) = Places(s, t)
        BY <1>2 DEF Places
  <2> QED BY <1>2, <2>1, PlacesFinite DEF Count
<1> QED BY <1>1, <1>2

\* The places of a queue behind another one.
LEMMA ShiftedPlaces ==
    ASSUME NEW P, P \subseteq Nat, IsFiniteSet(P), NEW k \in Nat
    PROVE  /\ IsFiniteSet({i + k : i \in P})
           /\ Cardinality({i + k : i \in P}) = Cardinality(P)
<1> DEFINE Q == {i + k : i \in P}
           f == [i \in P |-> i + k]
<1>1. f \in Injection(P, Q)
  <2>1. f \in [P -> Q]
        OBVIOUS
  <2>2. \A a, b \in P : f[a] = f[b] => a = b
    <3> SUFFICES ASSUME NEW a \in P, NEW b \in P, f[a] = f[b] PROVE a = b
        OBVIOUS
    <3>1. a \in Nat /\ b \in Nat /\ a + k = b + k
          OBVIOUS
    <3> QED BY <3>1
  <2> QED BY <2>1, <2>2 DEF Injection, IsInjective
<1>2. f \in Surjection(P, Q)
  <2>1. f \in [P -> Q] /\ \A q \in Q : \E i \in P : f[i] = q
        OBVIOUS
  <2> QED BY <2>1 DEF Surjection
<1> QED BY <1>1, <1>2, FS_Surjection

LEMMA CountTail ==
    ASSUME NEW S, NEW s \in Seq(S), s # <<>>, NEW t
    PROVE  Count(s, t) = Count(Tail(s), t) + (IF Head(s) = t THEN 1 ELSE 0)
<1> DEFINE Q == {i + 1 : i \in Places(Tail(s), t)}
<1>1. Tail(s) \in Seq(S) /\ Len(Tail(s)) = Len(s) - 1 /\ Len(s) \in Nat /\ Len(s) > 0
      OBVIOUS
<1>2. IsFiniteSet(Q) /\ Cardinality(Q) = Count(Tail(s), t)
  <2>1. Places(Tail(s), t) \subseteq Nat
        BY <1>1 DEF Places
  <2>2. IsFiniteSet(Places(Tail(s), t))
        BY <1>1, PlacesFinite
  <2> QED BY <2>1, <2>2, ShiftedPlaces DEF Count
<1>3. 1 \notin Q
      BY DEF Places
<1>4. \A i \in 1 .. Len(s) : i # 1 => s[i] = Tail(s)[i - 1] /\ i - 1 \in 1 .. Len(Tail(s))
      BY <1>1
<1>5. \A i \in 2 .. Len(s) : i \in Q <=> s[i] = t
  <2> SUFFICES ASSUME NEW i \in 2 .. Len(s) PROVE i \in Q <=> s[i] = t
      OBVIOUS
  <2>1. s[i] = Tail(s)[i - 1] /\ i - 1 \in 1 .. Len(Tail(s))
        BY <1>1, <1>4
  <2>2. i \in Q <=> i - 1 \in Places(Tail(s), t)
        BY <1>1 DEF Places
  <2> QED BY <2>1, <2>2 DEF Places
<1>6. \A i \in Q : i \in 2 .. Len(s)
      BY <1>1 DEF Places
<1>7. Places(s, t) = Q \cup (IF Head(s) = t THEN {1} ELSE {})
  <2> HIDE DEF Q
  <2>1. \A i : i \in Places(s, t) <=> i \in Q \/ (i = 1 /\ Head(s) = t)
    <3> SUFFICES ASSUME NEW i
                 PROVE  i \in Places(s, t) <=> i \in Q \/ (i = 1 /\ Head(s) = t)
        OBVIOUS
    <3>1. CASE i \in 2 .. Len(s)
          BY <1>5, <3>1 DEF Places
    <3>2. CASE i \notin 2 .. Len(s)
      <4>1. i \notin Q
            BY <1>6, <3>2
      <4>2. i \in Places(s, t) => i = 1
            BY <1>1, <3>2 DEF Places
      <4>3. 1 \in Places(s, t) <=> Head(s) = t
            BY <1>1 DEF Places
      <4> QED BY <4>1, <4>2, <4>3
    <3> QED BY <3>1, <3>2
  <2> QED BY <2>1
<1>8. CASE Head(s) = t
      BY <1>2, <1>3, <1>7, <1>8, FS_AddElement DEF Count
<1>9. CASE Head(s) # t
  <2>1. Places(s, t) = Q
        BY <1>7, <1>9
  <2>2. Count(Tail(s), t) \in Nat
        BY <1>1, PlacesFinite
  <2> QED BY <1>2, <1>9, <2>1, <2>2 DEF Count
<1> QED BY <1>8, <1>9

LEMMA CountConcat ==
    ASSUME NEW S, NEW s \in Seq(S), NEW r \in Seq(S), NEW t
    PROVE  Count(s \o r, t) = Count(s, t) + Count(r, t)
<1> DEFINE Q == {i + Len(s) : i \in Places(r, t)}
<1>1. s \o r \in Seq(S) /\ Len(s \o r) = Len(s) + Len(r) /\ Len(s) \in Nat /\ Len(r) \in Nat
      OBVIOUS
<1>2. IsFiniteSet(Q) /\ Cardinality(Q) = Count(r, t)
  <2>1. Places(r, t) \subseteq Nat
        BY <1>1 DEF Places
  <2>2. IsFiniteSet(Places(r, t))
        BY PlacesFinite
  <2> QED BY <1>1, <2>1, <2>2, ShiftedPlaces DEF Count
<1>3. Places(s \o r, t) = Places(s, t) \cup Q
  <2>1. \A i \in 1 .. Len(s) : i \in Places(s \o r, t) <=> i \in Places(s, t)
        BY <1>1 DEF Places
  <2>2. \A i \in 1 .. Len(r) : /\ (s \o r)[i + Len(s)] = r[i]
                               /\ i + Len(s) \in 1 .. Len(s \o r)
        BY <1>1
  <2>3. \A i \in Q : i \in Places(s \o r, t)
        BY <2>2 DEF Places
  <2>4. \A i \in Places(s \o r, t) : i \notin 1 .. Len(s) => i \in Q
    <3> SUFFICES ASSUME NEW i \in Places(s \o r, t), i \notin 1 .. Len(s) PROVE i \in Q
        OBVIOUS
    <3>1. i \in Nat /\ i - Len(s) \in 1 .. Len(r) /\ i = (i - Len(s)) + Len(s)
          BY <1>1 DEF Places
    <3>2. r[i - Len(s)] = t
          BY <1>1, <2>2, <3>1 DEF Places
    <3> QED BY <3>1, <3>2 DEF Places
  <2>5. Places(s, t) \subseteq 1 .. Len(s)
        BY DEF Places
  <2> HIDE DEF Q
  <2> QED BY <2>1, <2>3, <2>4, <2>5
<1>4. Places(s, t) \cap Q = {}
      BY <1>1 DEF Places
<1>5. IsFiniteSet(Places(s, t)) /\ Count(s, t) \in Nat /\ Count(r, t) \in Nat
      BY PlacesFinite
<1>6. Cardinality(Places(s, t) \cap Q) = 0
      BY <1>4, FS_EmptySet
<1> HIDE DEF Q
<1>7. Cardinality(Places(s, t) \cup Q) = Cardinality(Places(s, t)) + Cardinality(Q) - 0
      BY <1>2, <1>5, <1>6, FS_Union
<1> QED BY <1>2, <1>3, <1>5, <1>7 DEF Count

-----------------------------------------------------------------------------
(* The transactions of a queue, in their order.                            *)

Transactions == {"status", "table", "counter", "other"}

\* No write of the counter is behind a read of the table.
InTurn(s) == \A i, j \in 1 .. Len(s) : s[i] = "table" /\ s[j] = "counter" => j < i

LEMMA Appended ==
    ASSUME NEW S, NEW s \in Seq(S), NEW x \in S
    PROVE  /\ Append(s, x) \in Seq(S)
           /\ \A t \in Transactions :
                  Count(Append(s, x), t) = Count(s, t) + (IF x = t THEN 1 ELSE 0)
           /\ InTurn(s) /\ (x = "counter" => Count(s, "table") = 0) => InTurn(Append(s, x))
<1>1. Append(s, x) \in Seq(S)
      OBVIOUS
<1>2. \A t \in Transactions :
          Count(Append(s, x), t) = Count(s, t) + (IF x = t THEN 1 ELSE 0)
      BY CountAppend
<1>3. ASSUME InTurn(s), x = "counter" => Count(s, "table") = 0
      PROVE  InTurn(Append(s, x))
  <2>1. x = "counter" => \A i \in 1 .. Len(s) : s[i] # "table"
        BY <1>3, PlacesFinite
  <2> QED BY <1>3, <2>1 DEF InTurn
<1> QED BY <1>1, <1>2, <1>3

LEMMA Taken ==
    ASSUME NEW S, NEW s \in Seq(S), s # <<>>
    PROVE  /\ Tail(s) \in Seq(S) /\ Head(s) \in S
           /\ \A t \in Transactions :
                  Count(s, t) = Count(Tail(s), t) + (IF Head(s) = t THEN 1 ELSE 0)
           /\ InTurn(s) => /\ InTurn(Tail(s))
                           /\ Head(s) = "table" => Count(Tail(s), "counter") = 0
<1>1. Tail(s) \in Seq(S) /\ Head(s) \in S
      OBVIOUS
<1>2. \A t \in Transactions :
          Count(s, t) = Count(Tail(s), t) + (IF Head(s) = t THEN 1 ELSE 0)
      BY CountTail
<1>3. ASSUME InTurn(s)
      PROVE  /\ InTurn(Tail(s))
             /\ Head(s) = "table" => Count(Tail(s), "counter") = 0
  <2>1. \A i \in 1 .. Len(Tail(s)) : Tail(s)[i] = s[i + 1] /\ i + 1 \in 1 .. Len(s)
        OBVIOUS
  <2>2. InTurn(Tail(s))
    <3> SUFFICES ASSUME NEW i \in 1 .. Len(Tail(s)), NEW j \in 1 .. Len(Tail(s)),
                        Tail(s)[i] = "table", Tail(s)[j] = "counter"
                 PROVE  j < i
        BY DEF InTurn
    <3>1. j + 1 < i + 1
          BY <1>3, <2>1 DEF InTurn
    <3> QED BY <1>1, <3>1
  <2>3. ASSUME Head(s) = "table", NEW j \in 1 .. Len(Tail(s)), Tail(s)[j] = "counter"
        PROVE  FALSE
    <3>1. s[1] = "table" /\ 1 \in 1 .. Len(s) /\ s[j + 1] = "counter"
          BY <2>1, <2>3
    <3>2. j + 1 < 1
          BY <1>3, <2>1, <3>1 DEF InTurn
    <3> QED BY <3>2
  <2>4. Head(s) = "table" => Count(Tail(s), "counter") = 0
        BY <1>1, <2>3, PlacesFinite
  <2> QED BY <2>2, <2>4
<1> QED BY <1>1, <1>2, <1>3

\* Of what a queue cannot hold there is none.
LEMMA NotCounted ==
    ASSUME NEW S, NEW s \in Seq(S), NEW t, t \notin S
    PROVE  Count(s, t) = 0
<1>1. \A i \in 1 .. Len(s) : s[i] # t
      OBVIOUS
<1> QED BY <1>1, PlacesFinite

-----------------------------------------------------------------------------
(* The way of the transactions, from queue to queue to their handlers.     *)

\* What each queue may hold.
QueuesOK ==
    /\ highQ \in Seq({"status"}) /\ lowQ \in Seq({"table", "counter", "other"})
    /\ txnDone \in Seq(Transactions) /\ tTxnDoneQueue \in Seq({"status", "table"})

\* The TxnDone context is scheduled while there is something to send or to post.
BusOK ==
    /\ curr \in BOOLEAN /\ sched \in {"none", "clear", "send", "post"}
    /\ BusFree => highQ = <<>> /\ lowQ = <<>>
    /\ sched \in {"none", "clear"} => txnDone = <<>>
    /\ sched = "post" => txnDone # <<>>

\* Which phases of the driver's life and states of the task go together.
LifeOK ==
    /\ aClientEnabled["FW_EVENT"] => phase \in {"init", "up"}
    /\ sched = "clear" \/ bTxnDoneInRecovery => phase \notin {"init", "up"}
    /\ qState = "RESTART" => phase = "stopping" /\ ~bTxnDoneInRecovery
    /\ "DATA" \in uEventMask => phase = "up"
    /\ pc \in {"cmplt", "results"} => phase = "up"
    /\ pc = "results" => BusFree /\ eState = "READING"
    /\ pc # "read"

\* How many reads and writes are between their hand-over and their handler.
Statuses == Count(highQ, "status") + Count(txnDone, "status") + Count(tTxnDoneQueue, "status")
Tables == Count(lowQ, "table") + Count(txnDone, "table") + Count(tTxnDoneQueue, "table")
Counters == Count(lowQ, "counter") + Count(txnDone, "counter")

\* The state machines hand over nothing that they wait for.
StatusOK ==
    /\ Statuses <= 1
    /\ pc \in {"handle", "event", "cmplt", "results", "complete"} => Statuses = 0
    /\ phase \in {"init", "up"} /\ eSmState = "IDLE" => Statuses = 0

TableOK ==
    /\ Tables <= 1
    /\ phase \in {"down", "boot"} \/ bTxnDoneInRecovery => Count(lowQ, "table") = 0
    /\ "table" \notin failed
    /\ eState = "IDLE" \/ pc = "results" \/ phase = "init" => Tables = 0

\* The table is read behind the write of the counter, so no counter is left
\* when the read comes back.
CounterOK ==
    /\ Counters <= 1
    /\ phase = "init" => Counters = 0
    /\ InTurn(lowQ) /\ InTurn(txnDone)
    /\ Count(txnDone, "table") # 0 => Count(lowQ, "counter") = 0
    /\ Count(tTxnDoneQueue, "table") # 0 => Counters = 0

WayInv == QueuesOK /\ BusOK /\ LifeOK /\ StatusOK /\ TableOK /\ CounterOK

LEMMA CountsNat ==
    ASSUME QueuesOK
    PROVE  /\ Count(highQ, "status") \in Nat /\ Count(txnDone, "status") \in Nat
           /\ Count(tTxnDoneQueue, "status") \in Nat
           /\ Count(lowQ, "table") \in Nat /\ Count(txnDone, "table") \in Nat
           /\ Count(tTxnDoneQueue, "table") \in Nat
           /\ Count(lowQ, "counter") \in Nat /\ Count(txnDone, "counter") \in Nat
<1>1. \A t \in Transactions : Count(highQ, t) \in Nat
      BY PlacesFinite DEF QueuesOK
<1>2. \A t \in Transactions : Count(lowQ, t) \in Nat
      BY PlacesFinite DEF QueuesOK
<1>3. \A t \in Transactions : Count(txnDone, t) \in Nat
      BY PlacesFinite DEF QueuesOK
<1>4. \A t \in Transactions : Count(tTxnDoneQueue, t) \in Nat
      BY PlacesFinite DEF QueuesOK
<1> QED BY <1>1, <1>2, <1>3, <1>4 DEF Transactions

\* A transaction is handed over while the bus is taken.
LEMMA Queued ==
    ASSUME QueuesOK, NEW t \in Transactions, Queue(t)
    PROVE  /\ highQ' \in Seq({"status"}) /\ lowQ' \in Seq({"table", "counter", "other"})
           /\ Count(highQ', "status") = Count(highQ, "status") + (IF t = "status" THEN 1 ELSE 0)
           /\ Count(lowQ', "table") = Count(lowQ, "table") + (IF t = "table" THEN 1 ELSE 0)
           /\ Count(lowQ', "counter") = Count(lowQ, "counter") + (IF t = "counter" THEN 1 ELSE 0)
           /\ InTurn(lowQ) /\ (t = "counter" => Count(lowQ, "table") = 0) => InTurn(lowQ')
<1>1. CASE t = "status"
  <2>1. highQ \in Seq({"status"}) /\ t \in {"status"} /\ highQ' = Append(highQ, t)
        /\ lowQ' = lowQ
        BY <1>1 DEF QueuesOK, Queue
  <2>2. highQ' \in Seq({"status"}) /\
        \A u \in Transactions : Count(highQ', u) = Count(highQ, u) + (IF t = u THEN 1 ELSE 0)
        BY <2>1, Appended
  <2> QED BY <1>1, <2>1, <2>2, CountsNat DEF Transactions, QueuesOK
<1>2. CASE t # "status"
  <2>1. lowQ \in Seq({"table", "counter", "other"}) /\ t \in {"table", "counter", "other"}
        /\ lowQ' = Append(lowQ, t) /\ highQ' = highQ
        BY <1>2 DEF QueuesOK, Queue, Transactions
  <2>2. /\ lowQ' \in Seq({"table", "counter", "other"})
        /\ \A u \in Transactions : Count(lowQ', u) = Count(lowQ, u) + (IF t = u THEN 1 ELSE 0)
        /\ InTurn(lowQ) /\ (t = "counter" => Count(lowQ, "table") = 0) => InTurn(lowQ')
        BY <2>1, Appended
  <2> QED BY <1>2, <2>1, <2>2, CountsNat DEF Transactions, QueuesOK
<1> QED BY <1>1, <1>2

LEMMA NoneLeft ==
    /\ \A t : Count(<<>>, t) = 0
    /\ InTurn(<<>>)
BY CountEmpty DEF InTurn

LEMMA InitWay == Init => WayInv
<1> SUFFICES ASSUME Init PROVE WayInv
    OBVIOUS
<1>1. highQ = <<>> /\ lowQ = <<>> /\ txnDone = <<>> /\ tTxnDoneQueue = <<>>
      BY DEF Init
<1>2. QueuesOK
      BY <1>1 DEF QueuesOK
<1>3. BusOK
      BY <1>1 DEF Init, BusOK
<1>4. LifeOK
      BY DEF Init, LifeOK
<1>5. Statuses = 0 /\ Tables = 0 /\ Counters = 0 /\ InTurn(lowQ) /\ InTurn(txnDone)
      BY <1>1, NoneLeft DEF Statuses, Tables, Counters
<1>6. Count(txnDone, "table") = 0 /\ Count(tTxnDoneQueue, "table") = 0
      BY <1>1, NoneLeft
<1>7. failed = {} /\ phase = "up" /\ ~bTxnDoneInRecovery
      BY DEF Init
<1> QED BY <1>2, <1>3, <1>4, <1>5, <1>6, <1>7 DEF WayInv, StatusOK, TableOK, CounterOK

\* The read of the status, when none is on its way.
LEMMA StatusRead ==
    ASSUME QueuesOK, BusOK, Statuses = 0, ReadIntrInfo, UNCHANGED <<txnDone, tTxnDoneQueue>>
    PROVE  /\ UNCHANGED lowQ /\ qState' = "RUNNING" /\ highQ' \in Seq({"status"}) /\ Statuses' \in {0, 1}
           /\ BusFree => UNCHANGED highQ
           /\ pc' \in {"handle", "scan", "done"} /\ (pc' = "handle" => Statuses' = 0)
           /\ eSmState' = "IDLE" => Statuses' = 0
           /\ uEventMask' \in {uEventMask, {}}
<1> USE DEF ReadIntrInfo, FwEventStop, Return
<1>1. CASE Off /\ BusFree
      BY <1>1, CountsNat DEF QueuesOK, queues, Statuses
<1>2. CASE ~Off /\ BusFree
      BY <1>2, CountsNat DEF QueuesOK, queues, Statuses, Transact
<1>3. CASE ~BusFree
  <2>1. Queue("status") /\ "status" \in Transactions
        BY <1>3 DEF Transact, Transactions
  <2>2. highQ' \in Seq({"status"}) /\ Count(highQ', "status") = Count(highQ, "status") + 1
        BY <2>1, Queued
  <2> QED BY <1>3, <2>1, <2>2, CountsNat DEF Statuses, Queue
<1> QED BY <1>1, <1>2, <1>3

\* Nothing is handed over, sent or completed.
Still == UNCHANGED <<highQ, lowQ, txnDone, tTxnDoneQueue>>

LEMMA StillWay ==
    ASSUME WayInv, Still
    PROVE  /\ QueuesOK'
           /\ Statuses' = Statuses /\ Tables' = Tables /\ Counters' = Counters
           /\ InTurn(lowQ') /\ InTurn(txnDone')
           /\ (phase' = "init" => Counters = 0) => CounterOK'
BY DEF WayInv, Still, QueuesOK, Statuses, Tables, Counters, CounterOK

\* The read of the table is handed over.
LEMMA TxCmpltIntrCbWay ==
    ASSUME WayInv, TxCmpltIntrCb
    PROVE  WayInv' /\ Statuses' = Statuses
<1>0. QueuesOK /\ BusOK /\ LifeOK /\ StatusOK /\ TableOK /\ CounterOK
      BY DEF WayInv
<1>1. /\ UNCHANGED <<curr, sched, txnDone, tTxnDoneQueue, bTxnDoneInRecovery, phase, eSmState,
                      uEventMask, aClientEnabled, failed, qState>>
      /\ pc = "cmplt" /\ phase = "up" /\ Statuses = 0 /\ ~bTxnDoneInRecovery
      BY <1>0 DEF TxCmpltIntrCb, bus, life, fwEvent, context, LifeOK, StatusOK
<1>2. CASE pc' = "complete" /\ UNCHANGED <<eState, queues>>
  <2>1. Still
        BY <1>1, <1>2 DEF Still, queues
  <2>2. BusOK' /\ LifeOK' /\ StatusOK' /\ TableOK'
        BY <1>0, <1>1, <1>2, <2>1, StillWay DEF Still, BusOK, LifeOK, StatusOK, TableOK,
             BusFree
  <2> QED BY <1>0, <1>1, <2>1, <2>2, StillWay DEF WayInv, CounterOK
<1>3. CASE eState = "IDLE" /\ ReadTable("results", "complete")
  <2>1. Tables = 0 /\ eState' = "READING" /\ ~Off
        BY <1>0, <1>1, <1>3 DEF TableOK, ReadTable, Off
  <2>2. CASE BusFree
    <3>1. pc' = "results" /\ Still
          BY <1>1, <1>3, <2>1, <2>2 DEF ReadTable, Still, queues
    <3>2. BusOK' /\ LifeOK' /\ StatusOK' /\ TableOK'
          BY <1>0, <1>1, <2>1, <2>2, <3>1, StillWay
             DEF Still, BusOK, LifeOK, StatusOK, TableOK, BusFree
    <3> QED BY <1>0, <1>1, <3>1, <3>2, StillWay DEF WayInv, CounterOK
  <2>3. CASE ~BusFree
    <3>1. pc' = "complete" /\ Queue("table") /\ "table" \in Transactions
          BY <1>3, <2>1, <2>3 DEF ReadTable, Transactions
    <3>2. /\ highQ' \in Seq({"status"}) /\ lowQ' \in Seq({"table", "counter", "other"})
          /\ Count(highQ', "status") = Count(highQ, "status")
          /\ Count(lowQ', "table") = Count(lowQ, "table") + 1
          /\ Count(lowQ', "counter") = Count(lowQ, "counter")
          /\ InTurn(lowQ')
          BY <1>0, <3>1, Queued, CountsNat DEF CounterOK
    <3>3. QueuesOK' /\ BusOK' /\ LifeOK'
          BY <1>0, <1>1, <2>3, <3>1, <3>2 DEF QueuesOK, BusOK, LifeOK, BusFree
    <3>4. StatusOK' /\ TableOK' /\ CounterOK'
          BY <1>0, <1>1, <2>1, <3>1, <3>2, CountsNat
             DEF StatusOK, TableOK, CounterOK, Statuses, Tables, Counters
    <3>5. Statuses' = Statuses
          BY <1>1, <3>2 DEF Statuses
    <3> QED BY <3>3, <3>4, <3>5 DEF WayInv
  <2> QED BY <2>2, <2>3
<1> QED BY <1>2, <1>3 DEF TxCmpltIntrCb

\* Results that were read at once are reported.
LEMMA ResultsReadWay ==
    ASSUME WayInv, ResultsRead
    PROVE  WayInv' /\ Statuses' = Statuses
<1>0. QueuesOK /\ BusOK /\ LifeOK /\ StatusOK /\ TableOK /\ CounterOK
      BY DEF WayInv
<1>1. UNCHANGED <<curr, sched, txnDone, tTxnDoneQueue, bTxnDoneInRecovery, phase, eSmState,
                  uEventMask, aClientEnabled, failed, qState>>
      /\ pc = "results" /\ pc' = "complete" /\ phase = "up" /\ Statuses = 0 /\ Tables = 0 /\ BusFree
      BY <1>0 DEF ResultsRead, bus, life, fwEvent, context, LifeOK, StatusOK, TableOK
<1>2. Still
      BY <1>1 DEF ResultsRead, HandleNewResults, WriteCounter, queues, Still
<1>3. BusOK' /\ LifeOK' /\ StatusOK' /\ TableOK'
      BY <1>0, <1>1, <1>2, StillWay DEF Still, BusOK, LifeOK, StatusOK, TableOK, BusFree
<1> QED BY <1>0, <1>1, <1>2, <1>3, StillWay DEF WayInv, CounterOK

\* A packet is handed over.
LEMMA OtherTxnWay ==
    ASSUME WayInv, OtherTxn
    PROVE  WayInv' /\ Statuses' = Statuses
<1>0. QueuesOK /\ BusOK /\ LifeOK /\ StatusOK /\ TableOK /\ CounterOK
      BY DEF WayInv
<1>1. UNCHANGED <<sched, txnDone, tTxnDoneQueue, bTxnDoneInRecovery, phase, eSmState, eState, pc,
                  uEventMask, aClientEnabled, failed, qState>> /\ pc = "idle"
      BY DEF OtherTxn, life, fwEvent, context, txResult, task
<1>2. CASE BusFree
  <2>1. Still /\ curr' = TRUE
        BY <1>1, <1>2 DEF OtherTxn, Still, queues
  <2>2. BusOK' /\ LifeOK' /\ StatusOK' /\ TableOK'
        BY <1>0, <1>1, <2>1, StillWay DEF Still, BusOK, LifeOK, StatusOK, TableOK, BusFree
  <2> QED BY <1>0, <1>1, <2>1, <2>2, StillWay DEF WayInv, CounterOK
<1>3. CASE ~BusFree
  <2>1. Queue("other") /\ "other" \in Transactions /\ UNCHANGED curr
        BY <1>3 DEF OtherTxn, Transactions
  <2>2. /\ highQ' \in Seq({"status"}) /\ lowQ' \in Seq({"table", "counter", "other"})
        /\ Count(highQ', "status") = Count(highQ, "status")
        /\ Count(lowQ', "table") = Count(lowQ, "table")
        /\ Count(lowQ', "counter") = Count(lowQ, "counter")
        /\ InTurn(lowQ')
        BY <1>0, <2>1, Queued, CountsNat DEF CounterOK
  <2>3. QueuesOK' /\ BusOK' /\ LifeOK'
        BY <1>0, <1>1, <1>3, <2>1, <2>2 DEF QueuesOK, BusOK, LifeOK, BusFree
  <2>4. StatusOK' /\ TableOK' /\ CounterOK'
        BY <1>0, <1>1, <2>1, <2>2, CountsNat
           DEF StatusOK, TableOK, CounterOK, Statuses, Tables, Counters
  <2>5. Statuses' = Statuses
        BY <1>1, <2>2 DEF Statuses
  <2> QED BY <2>3, <2>4, <2>5 DEF WayInv
<1> QED BY <1>2, <1>3

\* The bus is released, or a restart waits for it.
LEMMA BusTxnDoneWay ==
    ASSUME WayInv, BusTxnDone
    PROVE  WayInv' /\ Statuses' = Statuses
<1>0. QueuesOK /\ BusOK /\ LifeOK /\ StatusOK /\ TableOK /\ CounterOK
      BY DEF WayInv
<1>1. UNCHANGED <<tTxnDoneQueue, phase, eSmState, eState, pc, uEventMask, aClientEnabled,
                  bTxnDoneInRecovery, failed, qState, highQ, lowQ>>
      /\ curr /\ sched = "none" /\ txnDone = <<>>
      BY <1>0 DEF BusTxnDone, life, fwEvent, context, txResult, task, queues, BusOK
<1>2. CASE qState = "RESTART"
  <2>1. UNCHANGED <<curr, txnDone>> /\ sched' = "clear" /\ Still /\ phase = "stopping"
        BY <1>0, <1>1, <1>2 DEF BusTxnDone, Still, LifeOK
  <2>2. BusOK' /\ LifeOK' /\ StatusOK' /\ TableOK'
        BY <1>0, <1>1, <2>1, StillWay DEF Still, BusOK, LifeOK, StatusOK, TableOK, BusFree
  <2> QED BY <1>0, <1>1, <2>1, <2>2, StillWay DEF WayInv, CounterOK
<1>3. CASE qState # "RESTART"
  <2>1. txnDone' = Append(txnDone, "other") /\ sched' \in {"post", "send"} /\ curr' = FALSE
        BY <1>3 DEF BusTxnDone
  <2>2. txnDone \in Seq(Transactions) /\ "other" \in Transactions
        BY <1>0 DEF QueuesOK, Transactions
  <2>3. /\ txnDone' \in Seq(Transactions) /\ InTurn(txnDone')
        /\ \A t \in Transactions :
               Count(txnDone', t) = Count(txnDone, t) + (IF "other" = t THEN 1 ELSE 0)
        BY <1>0, <2>1, <2>2, Appended DEF CounterOK
  <2>4. /\ Count(txnDone', "status") = Count(txnDone, "status")
        /\ Count(txnDone', "table") = Count(txnDone, "table")
        /\ Count(txnDone', "counter") = Count(txnDone, "counter")
        BY <1>0, <2>3, CountsNat DEF Transactions
  <2>5. txnDone' # <<>>
        BY <2>1, <2>2
  <2>6. QueuesOK' /\ BusOK' /\ LifeOK'
        BY <1>0, <1>1, <2>1, <2>3, <2>5 DEF QueuesOK, BusOK, LifeOK, BusFree
  <2>7. StatusOK' /\ TableOK' /\ CounterOK'
        BY <1>0, <1>1, <2>1, <2>3, <2>4, CountsNat
           DEF StatusOK, TableOK, CounterOK, Statuses, Tables, Counters
  <2>8. Statuses' = Statuses
        BY <1>1, <2>1, <2>4 DEF Statuses
  <2> QED BY <2>6, <2>7, <2>8 DEF WayInv
<1> QED BY <1>2, <1>3

\* The queues are cleared: by the TxnDone context or by the guard timer.
LEMMA ClearedWay ==
    ASSUME WayInv, BusRecovery \/ PendRestartTimeout
    PROVE  WayInv'
<1>0. QueuesOK /\ BusOK /\ LifeOK /\ StatusOK /\ TableOK /\ CounterOK
      BY DEF WayInv
<1>1. /\ UNCHANGED <<tTxnDoneQueue, txnDone, eSmState, eState, pc, uEventMask, aClientEnabled,
                      failed>>
      /\ highQ' = <<>> /\ lowQ' = <<>> /\ qState' = "RUNNING"
      BY DEF BusRecovery, PendRestartTimeout, ClearQueues, RequestSchedule, life, fwEvent,
             context, txResult, task
<1>2. \/ /\ sched = "clear" /\ sched' = "none" /\ curr' = FALSE /\ UNCHANGED phase
      \/ /\ UNCHANGED <<sched, curr, bTxnDoneInRecovery>>
         /\ phase = "stopping" /\ phase' = "down"
      BY DEF BusRecovery, PendRestartTimeout, life
<1>3. /\ Count(highQ', "status") = 0 /\ Count(lowQ', "table") = 0
      /\ Count(lowQ', "counter") = 0 /\ InTurn(lowQ')
      BY <1>1, NoneLeft
<1>4. QueuesOK'
      BY <1>0, <1>1 DEF QueuesOK
<1>5. BusOK'
      BY <1>0, <1>1, <1>2 DEF BusOK, BusFree
<1>6. LifeOK'
      BY <1>0, <1>1, <1>2 DEF LifeOK, BusFree
<1>7. Statuses' <= Statuses /\ Tables' <= Tables /\ Counters' <= Counters
      /\ Statuses' \in Nat /\ Tables' \in Nat /\ Counters' \in Nat
      BY <1>0, <1>1, <1>3, CountsNat DEF Statuses, Tables, Counters
<1>8. Statuses \in Nat /\ Tables \in Nat /\ Counters \in Nat
      BY <1>0, CountsNat DEF Statuses, Tables, Counters
<1>9. phase' \in {"init", "up"} => phase' = phase
      BY <1>2
<1>10. StatusOK' /\ TableOK'
      BY <1>0, <1>1, <1>3, <1>7, <1>8, <1>9 DEF StatusOK, TableOK
<1>11. CounterOK'
      BY <1>0, <1>1, <1>3, <1>7, <1>8, <1>9 DEF CounterOK
<1> QED BY <1>4, <1>5, <1>6, <1>10, <1>11 DEF WayInv

\* The TxnDone context sends.
LEMMA BusSendWay ==
    ASSUME WayInv, BusSend
    PROVE  WayInv' /\ Statuses' = Statuses
<1>0. QueuesOK /\ BusOK /\ LifeOK /\ StatusOK /\ TableOK /\ CounterOK
      BY DEF WayInv
<1>1. UNCHANGED <<tTxnDoneQueue, bTxnDoneInRecovery, phase, eSmState, eState, pc, uEventMask,
                  aClientEnabled, qState>>
      /\ sched = "send"
      /\ sched' = IF curr' \/ highQ' \o lowQ' = <<>>
                  THEN IF txnDone' = <<>> THEN "none" ELSE "post"
                  ELSE "send"
      BY DEF BusSend, life, fwEvent, context, txResult, task
<1>2. LifeOK'
      BY <1>0, <1>1 DEF LifeOK, BusFree
<1>3. txnDone \in Seq(Transactions) /\ highQ \in Seq({"status"})
      /\ lowQ \in Seq({"table", "counter", "other"})
      BY <1>0 DEF QueuesOK
<1>4. ASSUME QueuesOK', curr' \in BOOLEAN PROVE BusOK'
  <2>1. highQ' \o lowQ' = <<>> => highQ' = <<>> /\ lowQ' = <<>>
        BY <1>4 DEF QueuesOK
  <2> QED BY <1>1, <1>4, <2>1 DEF BusOK, BusFree
<1>5. CASE highQ # <<>> /\ highQ' = Tail(highQ) /\ Sent(Head(highQ))
           /\ UNCHANGED <<lowQ, curr>>
  <2>0. txnDone' = Append(txnDone, Head(highQ))
        BY <1>5 DEF Sent
  <2>1. /\ Tail(highQ) \in Seq({"status"}) /\ Head(highQ) = "status"
        /\ \A t \in Transactions :
               Count(highQ, t) = Count(Tail(highQ), t) + (IF Head(highQ) = t THEN 1 ELSE 0)
        BY <1>3, <1>5, Taken
  <2>2. "status" \in Transactions /\ txnDone' = Append(txnDone, "status")
        BY <2>0, <2>1 DEF Transactions
  <2>3. /\ txnDone' \in Seq(Transactions) /\ InTurn(txnDone')
        /\ \A t \in Transactions :
               Count(txnDone', t) = Count(txnDone, t) + (IF "status" = t THEN 1 ELSE 0)
        BY <1>0, <1>3, <2>2, Appended DEF CounterOK
  <2>4. QueuesOK'
        BY <1>0, <1>1, <1>5, <2>1, <2>3 DEF QueuesOK
  <2>5. /\ Count(highQ, "status") = Count(highQ', "status") + 1
        /\ Count(txnDone', "status") = Count(txnDone, "status") + 1
        /\ Count(txnDone', "table") = Count(txnDone, "table")
        /\ Count(txnDone', "counter") = Count(txnDone, "counter")
        /\ Count(highQ', "status") \in Nat
    <3>1. Count(highQ', "status") \in Nat
          BY <2>4, PlacesFinite DEF QueuesOK
    <3> QED BY <1>0, <1>5, <2>1, <2>3, <3>1, CountsNat DEF Transactions
  <2>6. Statuses' = Statuses /\ Tables' = Tables /\ Counters' = Counters
        BY <1>0, <1>1, <1>5, <2>5, CountsNat DEF Statuses, Tables, Counters
  <2>10. "table" \notin failed'
    <3>1. failed' \in {failed \cup {"status"}, failed \ {"status"}}
          BY <1>5, <2>1 DEF Sent
    <3> QED BY <1>0, <3>1 DEF TableOK
  <2>8. StatusOK' /\ TableOK'
        BY <1>0, <1>1, <1>5, <2>6, <2>10 DEF StatusOK, TableOK
  <2>9. CounterOK'
        BY <1>0, <1>1, <1>5, <2>3, <2>5, <2>6 DEF CounterOK
  <2>7. BusOK'
        BY <1>0, <1>4, <1>5, <2>4 DEF BusOK
  <2> QED BY <1>2, <2>4, <2>6, <2>7, <2>8, <2>9 DEF WayInv
<1>6. CASE lowQ # <<>> /\ lowQ' = Tail(lowQ) /\ UNCHANGED highQ
           /\ IF Head(lowQ) = "other"
              THEN /\ \/ curr' = TRUE /\ UNCHANGED txnDone
                      \/ txnDone' = Append(txnDone, "other") /\ UNCHANGED curr
                   /\ UNCHANGED failed
              ELSE Sent(Head(lowQ)) /\ UNCHANGED curr
  <2>1. /\ Tail(lowQ) \in Seq({"table", "counter", "other"})
        /\ Head(lowQ) \in {"table", "counter", "other"}
        /\ \A t \in Transactions :
               Count(lowQ, t) = Count(Tail(lowQ), t) + (IF Head(lowQ) = t THEN 1 ELSE 0)
        /\ InTurn(Tail(lowQ)) /\ (Head(lowQ) = "table" => Count(Tail(lowQ), "counter") = 0)
        BY <1>0, <1>3, <1>6, Taken DEF CounterOK
  <2>2. PICK h \in {"table", "counter", "other"} : h = Head(lowQ)
        BY <2>1
  <2>3. /\ Count(lowQ, "table") = Count(lowQ', "table") + (IF h = "table" THEN 1 ELSE 0)
        /\ Count(lowQ, "counter") = Count(lowQ', "counter") + (IF h = "counter" THEN 1 ELSE 0)
        /\ Count(lowQ', "table") \in Nat /\ Count(lowQ', "counter") \in Nat
        /\ InTurn(lowQ') /\ (h = "table" => Count(lowQ', "counter") = 0)
    <3>1. Count(lowQ', "table") \in Nat /\ Count(lowQ', "counter") \in Nat
          BY <1>6, <2>1, PlacesFinite
    <3> QED BY <1>6, <2>1, <2>2, <3>1 DEF Transactions
  <2>4. CASE curr' = TRUE /\ UNCHANGED <<txnDone, failed>> /\ h = "other"
    <3>1. curr' = TRUE /\ UNCHANGED <<txnDone, failed>>
          BY <2>4
    <3>2. QueuesOK' /\ BusOK'
          BY <1>0, <1>1, <1>4, <1>6, <2>1, <3>1 DEF QueuesOK
    <3>3. StatusOK' /\ TableOK' /\ CounterOK'
          BY <1>0, <1>1, <1>6, <2>3, <2>4, <3>1, CountsNat
             DEF StatusOK, TableOK, CounterOK, Statuses, Tables, Counters
    <3>4. Statuses' = Statuses
          BY <1>1, <1>6, <3>1 DEF Statuses
    <3> QED BY <1>2, <3>2, <3>3, <3>4 DEF WayInv
  <2>5. CASE /\ txnDone' = Append(txnDone, h) /\ UNCHANGED curr
             /\ IF h = "other" THEN UNCHANGED failed ELSE Sent(h)
    <3>1. txnDone' = Append(txnDone, h) /\ UNCHANGED curr /\ h \in Transactions
          BY <2>5 DEF Transactions
    <3>2. h = "counter" => Count(txnDone, "table") = 0
          BY <1>0, <2>3, CountsNat DEF CounterOK
    <3>3. /\ txnDone' \in Seq(Transactions) /\ InTurn(txnDone')
          /\ \A t \in Transactions :
                 Count(txnDone', t) = Count(txnDone, t) + (IF h = t THEN 1 ELSE 0)
          BY <1>0, <1>3, <3>1, <3>2, Appended DEF CounterOK
    <3>4. /\ Count(txnDone', "status") = Count(txnDone, "status")
          /\ Count(txnDone', "table") = Count(txnDone, "table") + (IF h = "table" THEN 1 ELSE 0)
          /\ Count(txnDone', "counter") = Count(txnDone, "counter") + (IF h = "counter" THEN 1 ELSE 0)
          BY <1>0, <3>3, CountsNat DEF Transactions
    <3>5. QueuesOK' /\ BusOK'
          BY <1>0, <1>1, <1>4, <1>6, <2>1, <3>1, <3>3 DEF QueuesOK, BusOK
    <3>8. Statuses' = Statuses /\ Tables' = Tables /\ Counters' = Counters
          BY <1>0, <1>1, <1>6, <2>3, <3>4, CountsNat DEF Statuses, Tables, Counters
    <3>9. "table" \notin failed'
      <4>1. CASE h = "other"
            BY <1>0, <2>5, <4>1 DEF TableOK
      <4>2. CASE h = "counter"
            BY <1>0, <2>5, <4>2 DEF Sent, TableOK
      <4>3. CASE h = "table"
        <5>1. Count(lowQ, "table") # 0
              BY <2>3, <4>3
        <5>2. ~Off
              BY <1>0, <5>1 DEF TableOK, Off
        <5> QED BY <1>0, <2>5, <4>3, <5>2 DEF Sent, TableOK
      <4> QED BY <4>1, <4>2, <4>3
    <3>10. Count(lowQ, "table") = 0 => Count(lowQ', "table") = 0
          BY <2>3
    <3>6. StatusOK' /\ TableOK'
          BY <1>0, <1>1, <3>8, <3>9, <3>10 DEF StatusOK, TableOK
    <3>7. CounterOK'
      <4>1. Count(txnDone', "table") # 0 => Count(lowQ', "counter") = 0
            BY <1>0, <2>3, <3>4, CountsNat DEF CounterOK, Counters
      <4> QED BY <1>0, <1>1, <2>3, <3>3, <3>8, <4>1 DEF CounterOK
    <3> QED BY <1>2, <3>5, <3>6, <3>7, <3>8 DEF WayInv
  <2>6. \/ curr' = TRUE /\ UNCHANGED <<txnDone, failed>> /\ h = "other"
        \/ /\ txnDone' = Append(txnDone, h) /\ UNCHANGED curr
           /\ IF h = "other" THEN UNCHANGED failed ELSE Sent(h)
        BY <1>6, <2>2 DEF Sent
  <2> QED BY <2>4, <2>5, <2>6
<1>7. CASE UNCHANGED <<queues, curr, txnDone, failed>>
  <2>1. Still
        BY <1>1, <1>7 DEF Still, queues
  <2>2. UNCHANGED <<lowQ, txnDone, curr, failed>>
        BY <1>7 DEF queues
  <2>3. QueuesOK' /\ CounterOK'
        BY <1>0, <1>1, <2>1, StillWay DEF CounterOK
  <2>4. BusOK'
        BY <1>0, <1>4, <2>2, <2>3 DEF BusOK
  <2>5. StatusOK' /\ TableOK'
        BY <1>0, <1>1, <2>1, <2>2, StillWay DEF StatusOK, TableOK
  <2>6. Statuses' = Statuses
        BY <2>1, StillWay
  <2> QED BY <1>2, <2>3, <2>4, <2>5, <2>6 DEF WayInv
<1>8. \/ highQ # <<>> /\ highQ' = Tail(highQ) /\ Sent(Head(highQ))
          /\ UNCHANGED <<lowQ, curr>>
      \/ lowQ # <<>> /\ lowQ' = Tail(lowQ) /\ UNCHANGED highQ
          /\ IF Head(lowQ) = "other"
             THEN /\ \/ curr' = TRUE /\ UNCHANGED txnDone
                     \/ txnDone' = Append(txnDone, "other") /\ UNCHANGED curr
                  /\ UNCHANGED failed
             ELSE Sent(Head(lowQ)) /\ UNCHANGED curr
      \/ UNCHANGED <<queues, curr, txnDone, failed>>
      BY DEF BusSend
<1> QED BY <1>5, <1>6, <1>7, <1>8

\* The TxnDone context posts a completion.
LEMMA BusPostWay ==
    ASSUME WayInv, BusPost
    PROVE  WayInv' /\ Statuses' = Statuses
<1>0. QueuesOK /\ BusOK /\ LifeOK /\ StatusOK /\ TableOK /\ CounterOK
      BY DEF WayInv
<1>1. UNCHANGED <<curr, highQ, lowQ, bTxnDoneInRecovery, phase, eSmState, eState, pc, uEventMask,
                  aClientEnabled, failed, qState>>
      /\ sched = "post" /\ txnDone' = Tail(txnDone) /\ txnDone # <<>>
      /\ sched' = IF Tail(txnDone) # <<>> THEN "post"
                  ELSE IF ~curr /\ highQ \o lowQ # <<>> THEN "send" ELSE "none"
      BY <1>0 DEF BusPost, life, fwEvent, context, txResult, task, queues, RequestSchedule,
           BusOK
<1>2. txnDone \in Seq(Transactions) /\ tTxnDoneQueue \in Seq({"status", "table"})
      BY <1>0 DEF QueuesOK
<1>3. /\ Tail(txnDone) \in Seq(Transactions) /\ Head(txnDone) \in Transactions
      /\ \A t \in Transactions :
             Count(txnDone, t) = Count(Tail(txnDone), t) + (IF Head(txnDone) = t THEN 1 ELSE 0)
      /\ InTurn(Tail(txnDone)) /\ (Head(txnDone) = "table" => Count(Tail(txnDone), "counter") = 0)
      BY <1>0, <1>1, <1>2, Taken DEF CounterOK
<1>4. PICK h \in Transactions : h = Head(txnDone)
      BY <1>3
<1>5. /\ Count(txnDone, "status") = Count(txnDone', "status") + (IF h = "status" THEN 1 ELSE 0)
      /\ Count(txnDone, "table") = Count(txnDone', "table") + (IF h = "table" THEN 1 ELSE 0)
      /\ Count(txnDone, "counter") = Count(txnDone', "counter") + (IF h = "counter" THEN 1 ELSE 0)
      /\ Count(txnDone', "status") \in Nat /\ Count(txnDone', "table") \in Nat
      /\ Count(txnDone', "counter") \in Nat
      /\ InTurn(txnDone') /\ (h = "table" => Count(txnDone', "counter") = 0)
  <2>1. Count(txnDone', "status") \in Nat /\ Count(txnDone', "table") \in Nat
        /\ Count(txnDone', "counter") \in Nat
        BY <1>1, <1>3, PlacesFinite
  <2> QED BY <1>1, <1>3, <1>4, <2>1 DEF Transactions
<1>6. /\ tTxnDoneQueue' \in Seq({"status", "table"})
      /\ Count(tTxnDoneQueue', "status") = Count(tTxnDoneQueue, "status") + (IF h = "status" THEN 1 ELSE 0)
      /\ Count(tTxnDoneQueue', "table") = Count(tTxnDoneQueue, "table") + (IF h = "table" THEN 1 ELSE 0)
  <2>1. CASE h \in {"status", "table"}
    <3>1. tTxnDoneQueue' = Append(tTxnDoneQueue, h)
          BY <1>4, <2>1 DEF BusPost
    <3>2. /\ tTxnDoneQueue' \in Seq({"status", "table"})
          /\ \A t \in Transactions :
                 Count(tTxnDoneQueue', t) = Count(tTxnDoneQueue, t) + (IF h = t THEN 1 ELSE 0)
          BY <1>2, <2>1, <3>1, Appended
    <3> QED BY <3>2 DEF Transactions
  <2>2. CASE h \notin {"status", "table"}
    <3>1. tTxnDoneQueue' = tTxnDoneQueue
          BY <1>4, <2>2 DEF BusPost
    <3> QED BY <1>0, <1>2, <2>2, <3>1, CountsNat
  <2> QED BY <2>1, <2>2
<1>7. QueuesOK'
      BY <1>0, <1>1, <1>3, <1>6 DEF QueuesOK
<1>8. BusOK'
  <2>1. highQ \o lowQ = <<>> => highQ = <<>> /\ lowQ = <<>>
        BY <1>0 DEF QueuesOK
  <2> QED BY <1>0, <1>1, <2>1 DEF BusOK, BusFree
<1>9. LifeOK'
      BY <1>0, <1>1 DEF LifeOK, BusFree
<1>12. /\ Statuses' = Statuses /\ Tables' = Tables
       /\ Counters' <= Counters /\ Counters \in Nat /\ Counters' \in Nat
  <2>1. CASE h = "status"
    <3>1. /\ Count(txnDone, "status") = Count(txnDone', "status") + 1
          /\ Count(txnDone, "table") = Count(txnDone', "table")
          /\ Count(txnDone, "counter") = Count(txnDone', "counter")
          /\ Count(tTxnDoneQueue', "status") = Count(tTxnDoneQueue, "status") + 1
          /\ Count(tTxnDoneQueue', "table") = Count(tTxnDoneQueue, "table")
          BY <1>0, <1>5, <1>6, <2>1, CountsNat
    <3>2. Statuses' = Statuses /\ Tables' = Tables
          BY <1>0, <1>1, <1>5, <3>1, CountsNat DEF Statuses, Tables
    <3>3. Counters' = Counters
          BY <1>1, <3>1 DEF Counters
    <3>4. Counters \in Nat
          BY <1>0, CountsNat DEF Counters
    <3> QED BY <2>1, <3>2, <3>3, <3>4
  <2>2. CASE h = "table"
    <3>1. /\ Count(txnDone, "table") = Count(txnDone', "table") + 1
          /\ Count(txnDone, "status") = Count(txnDone', "status")
          /\ Count(txnDone, "counter") = Count(txnDone', "counter")
          /\ Count(tTxnDoneQueue', "table") = Count(tTxnDoneQueue, "table") + 1
          /\ Count(tTxnDoneQueue', "status") = Count(tTxnDoneQueue, "status")
          BY <1>0, <1>5, <1>6, <2>2, CountsNat
    <3>2. Statuses' = Statuses /\ Tables' = Tables
          BY <1>0, <1>1, <1>5, <3>1, CountsNat DEF Statuses, Tables
    <3>3. Counters' = Counters
          BY <1>1, <3>1 DEF Counters
    <3>4. Counters \in Nat
          BY <1>0, CountsNat DEF Counters
    <3> QED BY <2>2, <3>2, <3>3, <3>4
  <2>3. CASE h = "counter"
        BY <1>0, <1>1, <1>5, <1>6, <2>3, CountsNat DEF Statuses, Tables, Counters
  <2>4. CASE h = "other"
        BY <1>0, <1>1, <1>5, <1>6, <2>4, CountsNat DEF Statuses, Tables, Counters
  <2> QED BY <2>1, <2>2, <2>3, <2>4 DEF Transactions
<1>10. StatusOK' /\ TableOK'
      BY <1>0, <1>1, <1>12 DEF StatusOK, TableOK
<1>11. CounterOK'
  <2>1. Counters' <= 1 /\ (phase = "init" => Counters' = 0)
        BY <1>0, <1>12 DEF CounterOK
  <2>2. Count(txnDone', "table") # 0 => Count(lowQ, "counter") = 0
        BY <1>0, <1>5, CountsNat DEF CounterOK
  <2>3. Count(tTxnDoneQueue', "table") # 0 => Counters' = 0
    <3>1. CASE h = "table"
      <4>1. Count(txnDone, "table") # 0 /\ Count(txnDone', "counter") = 0
            BY <1>5, <3>1
      <4> QED BY <1>0, <1>1, <4>1 DEF CounterOK, Counters
    <3>2. CASE h # "table"
      <4>4. Count(tTxnDoneQueue', "table") = Count(tTxnDoneQueue, "table")
            BY <1>0, <1>6, <3>2, CountsNat
      <4>1. Count(tTxnDoneQueue', "table") # 0 => Counters = 0
        <5>1. Count(tTxnDoneQueue, "table") # 0 => Counters = 0
              BY <1>0 DEF CounterOK
        <5> QED BY <4>4, <5>1
      <4> QED BY <1>12, <4>1
    <3> QED BY <3>1, <3>2
  <2> QED BY <1>0, <1>1, <1>5, <2>1, <2>2, <2>3 DEF CounterOK
<1> QED BY <1>7, <1>8, <1>9, <1>10, <1>11, <1>12 DEF WayInv

\* Results that were queued for are reported.
LEMMA TableDoneWay ==
    ASSUME WayInv, TableDone
    PROVE  WayInv' /\ Statuses' = Statuses
<1>0. QueuesOK /\ BusOK /\ LifeOK /\ StatusOK /\ TableOK /\ CounterOK
      BY DEF WayInv
<1>1. UNCHANGED <<curr, sched, txnDone, bTxnDoneInRecovery, phase, eSmState, uEventMask,
                  aClientEnabled, failed, qState>>
      /\ pc = "done" /\ tTxnDoneQueue # <<>> /\ Head(tTxnDoneQueue) = "table"
      /\ tTxnDoneQueue' = Tail(tTxnDoneQueue)
      BY DEF TableDone, Done, context, life, fwEvent
<1>2. /\ Tail(tTxnDoneQueue) \in Seq({"status", "table"})
      /\ \A t \in Transactions :
             Count(tTxnDoneQueue, t) = Count(Tail(tTxnDoneQueue), t) + (IF "table" = t THEN 1 ELSE 0)
      BY <1>0, <1>1, Taken DEF QueuesOK
<1>3. /\ Count(tTxnDoneQueue, "table") = Count(tTxnDoneQueue', "table") + 1
      /\ Count(tTxnDoneQueue, "status") = Count(tTxnDoneQueue', "status")
      /\ Count(tTxnDoneQueue', "table") \in Nat
  <2>1. Count(tTxnDoneQueue', "status") \in Nat /\ Count(tTxnDoneQueue', "table") \in Nat
        BY <1>1, <1>2, PlacesFinite
  <2> QED BY <1>1, <1>2, <2>1 DEF Transactions
<1>4. /\ Tables = 1 /\ Count(tTxnDoneQueue', "table") = 0 /\ Count(lowQ, "table") = 0
      /\ Count(txnDone, "table") = 0 /\ Counters = 0 /\ eState # "IDLE" /\ phase # "init"
      BY <1>0, <1>3, CountsNat DEF TableOK, CounterOK, Tables
<1>5. HandleNewResults /\ pc' = "done" /\ eState' = "IDLE"
      BY <1>1, <1>4 DEF TableDone, HandleNewResults
<1>6. /\ highQ' \in Seq({"status"}) /\ lowQ' \in Seq({"table", "counter", "other"})
      /\ Count(highQ', "status") = Count(highQ, "status")
      /\ Count(lowQ', "table") = 0 /\ Count(lowQ', "counter") \in {0, 1}
      /\ InTurn(lowQ') /\ (BusFree => UNCHANGED <<highQ, lowQ>>)
  <2>1. CASE UNCHANGED queues
    <3>1. UNCHANGED <<highQ, lowQ>>
          BY <2>1 DEF queues
    <3> QED BY <1>0, <1>4, <3>1, CountsNat DEF QueuesOK, CounterOK, Counters
  <2>2. CASE ~BusFree /\ Queue("counter")
    <3>1. "counter" \in Transactions
          BY DEF Transactions
    <3>2. Count(lowQ, "counter") = 0
          BY <1>0, <1>4, CountsNat DEF Counters
    <3> QED BY <1>0, <1>4, <2>2, <3>1, <3>2, Queued, CountsNat DEF CounterOK
  <2> QED BY <1>5, <2>1, <2>2 DEF HandleNewResults, WriteCounter
<1>7. QueuesOK' /\ BusOK'
      BY <1>0, <1>1, <1>2, <1>6 DEF QueuesOK, BusOK, BusFree
<1>8. LifeOK' /\ StatusOK'
      BY <1>0, <1>1, <1>3, <1>5, <1>6 DEF LifeOK, StatusOK, Statuses
<1>10. Tables' = 0 /\ Counters' <= 1
  <2>1. txnDone' = txnDone
        BY <1>1
  <2>2. Tables' = 0
        BY <1>4, <1>6, <2>1 DEF Tables
  <2>3. Count(txnDone, "counter") = 0
        BY <1>0, <1>4, CountsNat DEF Counters
  <2> QED BY <1>6, <2>1, <2>2, <2>3 DEF Counters
<1>9. TableOK' /\ CounterOK'
      BY <1>0, <1>1, <1>4, <1>6, <1>10 DEF TableOK, CounterOK
<1>11. Statuses' = Statuses
      BY <1>1, <1>3, <1>6 DEF Statuses
<1> QED BY <1>7, <1>8, <1>9, <1>11 DEF WayInv

LEMMA NextWay == IInv /\ WayInv /\ [Next]_vars => WayInv'
<1> SUFFICES ASSUME IInv, WayInv, [Next]_vars PROVE WayInv'
    OBVIOUS
<1>1. QueuesOK /\ BusOK /\ LifeOK /\ StatusOK /\ TableOK /\ CounterOK
      BY DEF WayInv

<1>2. CASE UNCHANGED vars
  <2>1. Still
        BY <1>2 DEF vars, Still, queues, bus
  <2>2. BusOK' /\ LifeOK' /\ StatusOK' /\ TableOK'
        BY <1>2, <2>1, <1>1, StillWay DEF vars, BusOK, LifeOK, StatusOK, TableOK, BusFree,
             context, task, fwEvent, txResult, queues, bus, life
  <2> QED BY <1>2, <2>1, <2>2, <1>1, StillWay DEF vars, life, WayInv, CounterOK
<1>3. CASE DriverTask \/ Skip \/ TaskEnd
  <2>1. Still
        BY <1>3 DEF DriverTask, Skip, TaskEnd, Still, vars, queues, bus
  <2>2. BusOK'
        BY <1>3, <2>1, <1>1 DEF DriverTask, Skip, TaskEnd, Still, BusOK, BusFree, vars, bus
  <2>3. LifeOK'
        BY <1>3, <1>1 DEF DriverTask, Skip, TaskEnd, LifeOK, BusFree, vars, context, task,
             fwEvent, txResult, bus, life
  <2>4. StatusOK'
        BY <1>3, <2>1, <1>1, StillWay DEF DriverTask, Skip, TaskEnd, StatusOK, vars, task,
             fwEvent, life
  <2>5. TableOK' /\ (phase' = "init" => Counters = 0)
        BY <1>3, <2>1, <1>1, StillWay DEF Still, bus, queues, DriverTask, Skip, TaskEnd, TableOK, CounterOK,
             vars, task, txResult, life
  <2> QED BY <2>1, <2>2, <2>3, <2>4, <2>5, StillWay DEF WayInv
<1>4. CASE \E c \in Clients : OsRequestSchedule(c)
  <2>1. Still
        BY <1>4 DEF OsRequestSchedule, Still, vars, queues, bus
  <2>2. BusOK'
        BY <1>4, <2>1, <1>1 DEF OsRequestSchedule, Still, BusOK, BusFree, vars, bus
  <2>3. LifeOK'
        BY <1>4, <1>1 DEF OsRequestSchedule, LifeOK, BusFree, vars, context, task, fwEvent,
             txResult, bus, life
  <2>4. StatusOK'
        BY <1>4, <2>1, <1>1, StillWay DEF OsRequestSchedule, StatusOK, vars, task, fwEvent,
             life
  <2>5. TableOK' /\ (phase' = "init" => Counters = 0)
        BY <1>4, <2>1, <1>1, StillWay DEF Still, bus, queues, OsRequestSchedule, TableOK, CounterOK, vars,
             task, txResult, life
  <2> QED BY <2>1, <2>2, <2>3, <2>4, <2>5, StillWay DEF WayInv
<1>5. CASE EnableClient
  <2>1. Still
        BY <1>5 DEF EnableClient, Still, vars, queues, bus
  <2>2. BusOK'
        BY <1>5, <2>1, <1>1 DEF EnableClient, Still, BusOK, BusFree, vars, bus
  <2>3. LifeOK'
        BY <1>5, <1>1 DEF EnableClient, LifeOK, BusFree, vars, context, task, fwEvent,
             txResult, bus, life
  <2>4. StatusOK'
        BY <1>5, <2>1, <1>1, StillWay DEF EnableClient, StatusOK, vars, task, fwEvent, life
  <2>5. TableOK' /\ (phase' = "init" => Counters = 0)
        BY <1>5, <2>1, <1>1, StillWay DEF Still, bus, queues, EnableClient, TableOK, CounterOK, vars, task,
             txResult, life
  <2> QED BY <2>1, <2>2, <2>3, <2>4, <2>5, StillWay DEF WayInv
<1>6. CASE ConfigComplete
  <2>1. Still
        BY <1>6 DEF ConfigComplete, Still, vars, queues, bus
  <2>2. BusOK'
        BY <1>6, <2>1, <1>1 DEF ConfigComplete, Still, BusOK, BusFree, vars, bus
  <2>3. LifeOK'
        BY <1>6, <1>1 DEF ConfigComplete, LifeOK, BusFree, vars, context, task, fwEvent,
             txResult, bus, life
  <2>4. StatusOK'
        BY <1>6, <2>1, <1>1, StillWay DEF ConfigComplete, StatusOK, vars, task, fwEvent,
             life
  <2>5. TableOK' /\ (phase' = "init" => Counters = 0)
        BY <1>6, <2>1, <1>1, StillWay DEF Still, bus, queues, ConfigComplete, TableOK, CounterOK, vars, task,
             txResult, life
  <2> QED BY <2>1, <2>2, <2>3, <2>4, <2>5, StillWay DEF WayInv
<1>7. CASE HandleTxnDone
  <2>1. /\ Still /\ UNCHANGED <<curr, sched, qState, eSmState, eState, uEventMask, failed>>
        /\ bTxnDoneInRecovery' = FALSE /\ pc = "scan" /\ pc' \in {"scan", "done"}
        BY <1>7 DEF HandleTxnDone, fwEvent, txResult, queues, Still
  <2>2. aClientEnabled' = aClientEnabled
        BY <1>7 DEF HandleTxnDone, ClearPending
  <2>3. \/ phase' = phase
        \/ phase = "stopping" /\ phase' = "down" /\ bTxnDoneInRecovery
        BY <1>7 DEF HandleTxnDone
  <2>4. BusOK'
        BY <1>1, <2>1 DEF Still, BusOK, BusFree
  <2>5. LifeOK'
        BY <1>1, <2>1, <2>2, <2>3 DEF LifeOK, BusFree
  <2>6. StatusOK'
        BY <1>1, <2>1, <2>3, StillWay DEF StatusOK
  <2>7. TableOK' /\ (phase' = "init" => Counters = 0)
        BY <1>1, <2>1, <2>3, StillWay DEF Still, TableOK, CounterOK
  <2> QED BY <2>1, <2>4, <2>5, <2>6, <2>7, StillWay DEF WayInv
<1>8. CASE FwPostsResult \/ FwRaisesEvent
  <2>1. Still
        BY <1>8 DEF FwPostsResult, FwRaisesEvent, Still, vars, queues, bus, Raise,
             RequestSchedule
  <2>2. BusOK'
        BY <1>8, <2>1, <1>1 DEF FwPostsResult, FwRaisesEvent, Still, BusOK, BusFree, vars,
             bus, Raise, RequestSchedule
  <2>3. LifeOK'
        BY <1>8, <1>1 DEF FwPostsResult, FwRaisesEvent, LifeOK, BusFree, vars, context,
             task, fwEvent, txResult, bus, life, Raise, RequestSchedule
  <2>4. StatusOK'
        BY <1>8, <2>1, <1>1, StillWay DEF FwPostsResult, FwRaisesEvent, StatusOK, vars,
             task, fwEvent, life, Raise, RequestSchedule
  <2>5. TableOK' /\ (phase' = "init" => Counters = 0)
        BY <1>8, <2>1, <1>1, StillWay DEF Still, bus, queues, FwPostsResult, FwRaisesEvent, TableOK, CounterOK,
             vars, task, txResult, life, Raise, RequestSchedule
  <2> QED BY <2>1, <2>2, <2>3, <2>4, <2>5, StillWay DEF WayInv
<1>9. CASE HandleEvents \/ EventHandled
  <2>1. Still
        BY <1>9 DEF HandleEvents, EventHandled, DataHandlers, uEventVector, Still, vars,
             queues, bus
  <2>2. BusOK'
        BY <1>9, <2>1, <1>1 DEF HandleEvents, EventHandled, DataHandlers, uEventVector,
             Still, BusOK, BusFree, vars, bus
  <2>3. LifeOK'
        BY <1>9, <1>1 DEF HandleEvents, EventHandled, DataHandlers, uEventVector, LifeOK,
             BusFree, vars, context, task, fwEvent, txResult, bus, life
  <2>4. StatusOK'
        BY <1>9, <2>1, <1>1, StillWay DEF HandleEvents, EventHandled, DataHandlers,
             uEventVector, StatusOK, vars, task, fwEvent, life
  <2>5. TableOK' /\ (phase' = "init" => Counters = 0)
        BY <1>9, <2>1, <1>1, StillWay DEF Still, bus, queues, HandleEvents, EventHandled, DataHandlers,
             uEventVector, TableOK, CounterOK, vars, task, txResult, life
  <2> QED BY <2>1, <2>2, <2>3, <2>4, <2>5, StillWay DEF WayInv
<1>10. CASE PowerOn \/ FinalizeDownload
  <2>1. /\ Still /\ UNCHANGED <<curr, sched, qState, eSmState, eState, pc, aClientEnabled,
                                failed, bTxnDoneInRecovery>>
        /\ pc = "idle"
        BY <1>10 DEF PowerOn, FinalizeDownload, context, task, fwEvent, txResult, queues, bus,
             Still
  <2>2. CASE PowerOn
    <3>1. phase = "down" /\ phase' = "boot" /\ UNCHANGED uEventMask
          BY <2>2 DEF PowerOn, Off, fwEvent
    <3>2. BusOK' /\ LifeOK' /\ StatusOK' /\ TableOK'
          BY <1>1, <2>1, <3>1, StillWay DEF Still, BusOK, LifeOK, StatusOK, TableOK, BusFree
    <3> QED BY <2>1, <3>1, <3>2, StillWay DEF WayInv
  <2>3. CASE FinalizeDownload
    <3>1. /\ phase = "boot" /\ phase' = "init" /\ uEventMask' = InitMask
          /\ sched = "none" /\ ~bTxnDoneInRecovery
          /\ highQ = <<>> /\ lowQ = <<>> /\ txnDone = <<>> /\ tTxnDoneQueue = <<>>
          BY <1>1, <2>3 DEF FinalizeDownload, BusOK, BusFree
    <3>2. Statuses = 0 /\ Tables = 0 /\ Counters = 0
          BY <3>1, NoneLeft DEF Statuses, Tables, Counters
    <3>3. BusOK' /\ LifeOK'
          BY <1>1, <2>1, <3>1 DEF Still, BusOK, LifeOK, BusFree, InitMask
    <3>4. StatusOK' /\ TableOK'
          BY <1>1, <2>1, <3>1, <3>2, StillWay DEF Still, StatusOK, TableOK
    <3> QED BY <2>1, <3>2, <3>3, <3>4, StillWay DEF WayInv
  <2> QED BY <1>10, <2>2, <2>3
<1>11. CASE NewEvent
  <2>1. UNCHANGED <<curr, sched, txnDone, tTxnDoneQueue, bTxnDoneInRecovery, phase, eState,
                    aClientEnabled, failed>> /\ pc = "scan"
        /\ aClientEnabled["FW_EVENT"]
        BY <1>11 DEF NewEvent, bus, life, txResult, ClearPending, Runs
  <2>2. CASE eSmState = "IDLE"
    <3>1. ReadIntrInfo /\ Statuses = 0
          BY <1>11, <1>1, <2>1, <2>2 DEF NewEvent, LifeOK, StatusOK
    <3>2. /\ UNCHANGED lowQ /\ qState' = "RUNNING"
          /\ highQ' \in Seq({"status"}) /\ Statuses' \in {0, 1}
          /\ BusFree => UNCHANGED highQ
          /\ pc' \in {"handle", "scan", "done"} /\ (pc' = "handle" => Statuses' = 0)
          /\ eSmState' = "IDLE" => Statuses' = 0
          /\ uEventMask' \in {uEventMask, {}}
          BY <1>1, <2>1, <3>1, StatusRead
    <3>3. QueuesOK' /\ BusOK'
          BY <1>1, <2>1, <3>2 DEF QueuesOK, BusOK, BusFree
    <3>4. LifeOK' /\ StatusOK'
          BY <1>1, <2>1, <3>2 DEF LifeOK, StatusOK
    <3>5. TableOK' /\ CounterOK'
          BY <1>1, <2>1, <3>2 DEF TableOK, CounterOK, Tables, Counters
    <3> QED BY <3>3, <3>4, <3>5 DEF WayInv
  <2>3. CASE eSmState # "IDLE"
    <3>1. Still /\ UNCHANGED <<eSmState, uEventMask, qState>> /\ pc' \in {"scan", "done"}
          BY <1>11, <2>1, <2>3 DEF NewEvent, Still, queues, Return
    <3>2. BusOK' /\ LifeOK' /\ StatusOK' /\ TableOK'
          BY <1>1, <2>1, <3>1, StillWay DEF Still, BusOK, LifeOK, StatusOK, TableOK, BusFree
    <3> QED BY <1>1, <2>1, <3>1, <3>2, StillWay DEF WayInv, CounterOK
  <2> QED BY <2>2, <2>3
<1>12. CASE Complete
  <2>1. UNCHANGED <<curr, sched, txnDone, tTxnDoneQueue, bTxnDoneInRecovery, phase, eState,
                    aClientEnabled, failed>> /\ pc = "complete" /\ Statuses = 0
        BY <1>12, <1>1 DEF Complete, bus, life, txResult, context, StatusOK
  <2>2. CASE bIntrPending
    <3>1. ReadIntrInfo
          BY <1>12, <2>2 DEF Complete
    <3>2. /\ UNCHANGED lowQ /\ qState' = "RUNNING"
          /\ highQ' \in Seq({"status"}) /\ Statuses' \in {0, 1}
          /\ BusFree => UNCHANGED highQ
          /\ pc' \in {"handle", "scan", "done"} /\ (pc' = "handle" => Statuses' = 0)
          /\ eSmState' = "IDLE" => Statuses' = 0
          /\ uEventMask' \in {uEventMask, {}}
          BY <1>1, <2>1, <3>1, StatusRead
    <3>3. QueuesOK' /\ BusOK'
          BY <1>1, <2>1, <3>2 DEF QueuesOK, BusOK, BusFree
    <3>4. LifeOK' /\ StatusOK'
          BY <1>1, <2>1, <3>2 DEF LifeOK, StatusOK
    <3>5. TableOK' /\ CounterOK'
          BY <1>1, <2>1, <3>2 DEF TableOK, CounterOK, Tables, Counters
    <3> QED BY <3>3, <3>4, <3>5 DEF WayInv
  <2>3. CASE ~bIntrPending
    <3>1. Still /\ UNCHANGED <<uEventMask, qState>> /\ pc' \in {"scan", "done"}
          BY <1>12, <2>1, <2>3 DEF Complete, Still, queues, Return
    <3>2. BusOK' /\ LifeOK' /\ StatusOK' /\ TableOK'
          BY <1>1, <2>1, <3>1, StillWay DEF Still, BusOK, LifeOK, StatusOK, TableOK, BusFree
    <3> QED BY <1>1, <2>1, <3>1, <3>2, StillWay DEF WayInv, CounterOK
  <2> QED BY <2>2, <2>3
<1>13. CASE TxCmpltIntrCb
      BY <1>13, TxCmpltIntrCbWay
<1>14. CASE ResultsRead
      BY <1>14, ResultsReadWay
<1>15. CASE OtherTxn
      BY <1>15, OtherTxnWay
<1>16. CASE BusTxnDone
      BY <1>16, BusTxnDoneWay
<1>17. CASE BusSend
      BY <1>17, BusSendWay
<1>18. CASE BusPost
      BY <1>18, BusPostWay
<1>19. CASE Stop \/ EventStops
  <2>1. /\ UNCHANGED <<curr, sched, txnDone, bTxnDoneInRecovery, eState, failed>>
        /\ tTxnDoneQueue' = <<>>
        /\ eSmState' = "IDLE" /\ uEventMask' = {} /\ phase = "up" /\ phase' \in {"stopping", "down"}
        /\ pc' \in {"idle", "done", "scan"}
        /\ \/ curr /\ UNCHANGED queues /\ phase' = "stopping"
           \/ highQ' = <<>> /\ lowQ' = <<>> /\ UNCHANGED qState /\ phase' = "down"
        BY <1>19 DEF Stop, EventStops, StopActivities, FwEventStop, Return, txResult, task
  <2>2. ~aClientEnabled'["FW_EVENT"]
    <3>1. aClientEnabled \in [Clients -> BOOLEAN] /\ "FW_EVENT" \in Clients
          BY DEF IInv, ContextOK, Clients
    <3>2. aClientEnabled' = [aClientEnabled EXCEPT !["FW_EVENT"] = FALSE]
          BY <1>19 DEF Stop, EventStops, StopActivities
    <3> QED BY <3>1, <3>2
  <2>3. /\ Count(tTxnDoneQueue', "status") = 0 /\ Count(tTxnDoneQueue', "table") = 0
        BY <2>1, NoneLeft
  <2>4. \/ curr /\ UNCHANGED <<highQ, lowQ>>
        \/ /\ highQ' = <<>> /\ lowQ' = <<>> /\ Count(highQ', "status") = 0
           /\ Count(lowQ', "table") = 0 /\ Count(lowQ', "counter") = 0 /\ InTurn(lowQ')
        BY <2>1, NoneLeft DEF queues
  <2>8. QueuesOK'
    <3>1. highQ' \in Seq({"status"}) /\ lowQ' \in Seq({"table", "counter", "other"})
      <4>1. CASE UNCHANGED <<highQ, lowQ>>
            BY <1>1, <4>1 DEF QueuesOK
      <4>2. CASE highQ' = <<>> /\ lowQ' = <<>>
            BY <4>2
      <4> QED BY <2>4, <4>1, <4>2
    <3>2. txnDone' = txnDone /\ tTxnDoneQueue' = <<>>
          BY <2>1
    <3> QED BY <1>1, <3>1, <3>2 DEF QueuesOK
  <2>5. QueuesOK' /\ BusOK'
        BY <1>1, <2>1, <2>4, <2>8 DEF BusOK, BusFree
  <2>6. LifeOK'
        BY <1>1, <2>1, <2>2 DEF LifeOK, BusFree
  <2>13. (phase' \in {"down", "boot"} \/ bTxnDoneInRecovery') => Count(lowQ', "table") = 0
        BY <1>1, <2>1, <2>4, NoneLeft DEF LifeOK
  <2>9. Count(lowQ', "table") <= Count(lowQ, "table")
        /\ Count(lowQ', "counter") <= Count(lowQ, "counter")
        /\ Count(highQ', "status") <= Count(highQ, "status") /\ InTurn(lowQ')
        /\ Count(lowQ', "table") \in Nat /\ Count(lowQ', "counter") \in Nat
        /\ Count(highQ', "status") \in Nat
        BY <1>1, <2>4, CountsNat DEF CounterOK
  <2>12. Statuses' <= Statuses /\ Tables' <= Tables /\ Statuses' \in Nat /\ Tables' \in Nat
         /\ Statuses \in Nat /\ Tables \in Nat
    <3>1. UNCHANGED txnDone
          BY <2>1
    <3>2. Statuses' = Count(highQ', "status") + Count(txnDone, "status")
          BY <1>1, <2>3, <2>9, <3>1, CountsNat DEF Statuses
    <3>3. Tables' = Count(lowQ', "table") + Count(txnDone, "table")
          BY <1>1, <2>3, <2>9, <3>1, CountsNat DEF Tables
    <3> QED BY <1>1, <2>9, <3>2, <3>3, CountsNat DEF Statuses, Tables
  <2>10. StatusOK' /\ TableOK'
        BY <1>1, <2>1, <2>12, <2>13 DEF StatusOK, TableOK
  <2>11. CounterOK'
        BY <1>1, <2>1, <2>3, <2>9, CountsNat DEF CounterOK, Counters
  <2>7. StatusOK' /\ TableOK' /\ CounterOK'
        BY <2>10, <2>11
  <2> QED BY <2>5, <2>6, <2>7 DEF WayInv
<1>20. CASE StatusDone
  <2>1. UNCHANGED <<curr, sched, txnDone, bTxnDoneInRecovery, phase, eState, aClientEnabled,
                    failed>>
        /\ pc = "done" /\ tTxnDoneQueue # <<>> /\ Head(tTxnDoneQueue) = "status"
        /\ tTxnDoneQueue' = Tail(tTxnDoneQueue)
        BY <1>20 DEF StatusDone, Done, context, life, txResult
  <2>2. /\ Tail(tTxnDoneQueue) \in Seq({"status", "table"})
        /\ \A t \in Transactions :
               Count(tTxnDoneQueue, t) = Count(Tail(tTxnDoneQueue), t) + (IF "status" = t THEN 1 ELSE 0)
        BY <1>1, <2>1, Taken DEF QueuesOK
  <2>3. /\ Count(tTxnDoneQueue, "status") = Count(tTxnDoneQueue', "status") + 1
        /\ Count(tTxnDoneQueue, "table") = Count(tTxnDoneQueue', "table")
        /\ Count(tTxnDoneQueue', "status") \in Nat
    <3>1. Count(tTxnDoneQueue', "status") \in Nat /\ Count(tTxnDoneQueue', "table") \in Nat
          BY <2>1, <2>2, PlacesFinite
    <3> QED BY <2>1, <2>2, <3>1 DEF Transactions
  <2>4. Count(highQ, "status") = 0 /\ Count(txnDone, "status") = 0 /\ Count(tTxnDoneQueue', "status") = 0
        BY <1>1, <2>3, CountsNat DEF StatusOK, Statuses
  <2>5. /\ UNCHANGED lowQ /\ highQ' \in Seq({"status"}) /\ Statuses' \in {0, 1}
        /\ BusFree => UNCHANGED highQ
        /\ pc' \in {"handle", "scan", "done"} /\ (pc' = "handle" => Statuses' = 0)
        /\ phase \in {"init", "up"} /\ eSmState' = "IDLE" => Statuses' = 0
        /\ uEventMask' \in {uEventMask, {}} /\ qState' \in {qState, "RUNNING"}
    <3>1. CASE eSmState = "IDLE"
      <4> USE DEF ReadIntrInfo, FwEventStop, Return
      <4>1. ReadIntrInfo
            BY <1>20, <3>1 DEF StatusDone
      <4>2. CASE Off /\ BusFree
        <5>1. UNCHANGED queues
              BY <4>1, <4>2
        <5>2. Statuses' = 0
              BY <2>1, <2>4, <5>1 DEF queues, Statuses
        <5> QED BY <1>1, <4>1, <4>2, <5>1, <5>2 DEF queues, QueuesOK
      <4>3. CASE ~Off /\ BusFree
        <5>1. UNCHANGED queues
              BY <4>1, <4>3 DEF Transact
        <5>2. Statuses' = 0
              BY <2>1, <2>4, <5>1 DEF queues, Statuses
        <5> QED BY <1>1, <4>1, <4>3, <5>1, <5>2 DEF queues, QueuesOK
      <4>4. CASE ~BusFree
        <5>1. Queue("status") /\ "status" \in Transactions
              BY <4>1, <4>4 DEF Transact, Transactions
        <5>2. highQ' \in Seq({"status"}) /\ Count(highQ', "status") = Count(highQ, "status") + 1
              BY <1>1, <5>1, Queued
        <5>3. Statuses' = 1
              BY <2>1, <2>4, <5>2 DEF Statuses
        <5> QED BY <4>1, <4>4, <5>1, <5>2, <5>3 DEF Queue
      <4> QED BY <4>2, <4>3, <4>4
    <3>2. CASE eSmState # "IDLE"
      <4>1. pc' = "handle" /\ UNCHANGED <<eSmState, uEventMask, queues, qState>>
            BY <1>20, <3>2 DEF StatusDone, fwEvent
      <4>2. Statuses' = 0
            BY <2>1, <2>4, <4>1 DEF queues, Statuses
      <4> QED BY <1>1, <4>1, <4>2 DEF queues, QueuesOK
    <3> QED BY <3>1, <3>2
  <2>6. QueuesOK' /\ BusOK'
        BY <1>1, <2>1, <2>2, <2>5 DEF QueuesOK, BusOK, BusFree
  <2>7. LifeOK' /\ StatusOK'
        BY <1>1, <2>1, <2>5 DEF LifeOK, StatusOK
  <2>8. TableOK' /\ CounterOK'
        BY <1>1, <2>1, <2>3, <2>5 DEF TableOK, CounterOK, Tables, Counters
  <2> QED BY <2>6, <2>7, <2>8 DEF WayInv
<1>21. CASE TableDone
      BY <1>21, TableDoneWay
\* A failed transaction is dropped.
<1>22. CASE FailedDone
  <2>1. /\ UNCHANGED <<highQ, lowQ, curr, sched, txnDone, bTxnDoneInRecovery, phase, eState,
                       eSmState, uEventMask, aClientEnabled, failed, qState>>
        /\ tTxnDoneQueue # <<>> /\ tTxnDoneQueue' = Tail(tTxnDoneQueue)
        /\ pc = "done" /\ pc' = "scan"
        BY <1>22 DEF FailedDone, context, life, txResult, fwEvent, queues
  <2>2. PICK h \in {"status", "table"} : h = Head(tTxnDoneQueue)
        BY <1>1, <2>1, Taken DEF QueuesOK
  <2>3. /\ Tail(tTxnDoneQueue) \in Seq({"status", "table"})
        /\ \A t \in Transactions :
               Count(tTxnDoneQueue, t)
                   = Count(Tail(tTxnDoneQueue), t) + (IF Head(tTxnDoneQueue) = t THEN 1 ELSE 0)
        BY <1>1, <2>1, Taken DEF QueuesOK
  <2>4. /\ Count(tTxnDoneQueue', "status") \in Nat /\ Count(tTxnDoneQueue', "table") \in Nat
        /\ Count(tTxnDoneQueue', "status") <= Count(tTxnDoneQueue, "status")
        /\ Count(tTxnDoneQueue', "table") <= Count(tTxnDoneQueue, "table")
    <3>1. Count(tTxnDoneQueue', "status") \in Nat /\ Count(tTxnDoneQueue', "table") \in Nat
          BY <2>1, <2>3, PlacesFinite
    <3> QED BY <2>1, <2>2, <2>3, <3>1 DEF Transactions
  <2>5. /\ Statuses' <= Statuses /\ Tables' <= Tables /\ Counters' = Counters
        /\ Statuses \in Nat /\ Tables \in Nat /\ Statuses' \in Nat /\ Tables' \in Nat
    <3>1. Statuses' <= Statuses /\ Statuses \in Nat /\ Statuses' \in Nat
          BY <1>1, <2>1, <2>4, CountsNat DEF Statuses
    <3>2. Tables' <= Tables /\ Tables \in Nat /\ Tables' \in Nat
          BY <1>1, <2>1, <2>4, CountsNat DEF Tables
    <3>3. Counters' = Counters
          BY <2>1 DEF Counters
    <3> QED BY <3>1, <3>2, <3>3
  <2>6. QueuesOK' /\ BusOK' /\ LifeOK'
        BY <1>1, <2>1, <2>3 DEF QueuesOK, BusOK, LifeOK, BusFree
  <2>7. StatusOK' /\ TableOK'
        BY <1>1, <2>1, <2>5 DEF StatusOK, TableOK
  <2>8. Count(tTxnDoneQueue', "table") # 0 => Count(tTxnDoneQueue, "table") # 0
        BY <1>1, <2>4, CountsNat
  <2>9. CounterOK'
        BY <1>1, <2>1, <2>5, <2>8 DEF CounterOK
  <2> QED BY <2>6, <2>7, <2>9 DEF WayInv
<1>23. CASE BusRecovery \/ PendRestartTimeout
      BY <1>23, ClearedWay
<1> QED BY <1>2, <1>3, <1>4, <1>5, <1>6, <1>7, <1>8, <1>9, <1>10, <1>11, <1>12, <1>13,
           <1>14, <1>15, <1>16, <1>17, <1>18, <1>19, <1>20, <1>21, <1>22, <1>23
        DEF Next, Task, Bus, Life

\* The order and the number of transactions is kept in every reachable state.
LEMMA WayInvariance == Spec => [](IInv /\ WayInv)
<1>1. Init => IInv /\ WayInv
      BY InitIInv, InitWay
<1>2. IInv /\ WayInv /\ [Next]_vars => IInv' /\ WayInv'
      BY NextIInv, NextWay
<1> QED BY <1>1, <1>2, PTL DEF Spec

LEMMA TimesCounted ==
    ASSUME QueuesOK
    PROVE  /\ Times("status") = Statuses /\ Times("table") = Tables
           /\ Times("counter") = Counters
<1>1. /\ highQ \in Seq(Transactions) /\ lowQ \in Seq(Transactions)
      /\ txnDone \in Seq(Transactions) /\ tTxnDoneQueue \in Seq(Transactions)
      BY DEF QueuesOK, Transactions
<1>2. ASSUME NEW t
      PROVE  Times(t) = Count(highQ, t) + Count(lowQ, t) + Count(txnDone, t)
                        + Count(tTxnDoneQueue, t)
  <2>1. highQ \o lowQ \in Seq(Transactions) /\ (highQ \o lowQ) \o txnDone \in Seq(Transactions)
        /\ OnTheWay \in Seq(Transactions)
        BY <1>1 DEF OnTheWay
  <2>2. Count(highQ \o lowQ, t) = Count(highQ, t) + Count(lowQ, t)
        BY <1>1, CountConcat
  <2>3. Count((highQ \o lowQ) \o txnDone, t) = Count(highQ \o lowQ, t) + Count(txnDone, t)
        BY <1>1, <2>1, CountConcat
  <2>4. Count(((highQ \o lowQ) \o txnDone) \o tTxnDoneQueue, t)
            = Count((highQ \o lowQ) \o txnDone, t) + Count(tTxnDoneQueue, t)
        BY <1>1, <2>1, CountConcat
  <2>5. Times(t) = Count(OnTheWay, t)
    <3>1. DOMAIN OnTheWay = 1 .. Len(OnTheWay)
          BY <2>1
    <3> QED BY <3>1 DEF Times, Count, Places
  <2> QED BY <2>2, <2>3, <2>4, <2>5 DEF OnTheWay
<1>3. Count(lowQ, "status") = 0 /\ Count(highQ, "table") = 0 /\ Count(highQ, "counter") = 0
      /\ Count(tTxnDoneQueue, "counter") = 0
  <2>1. Count(lowQ, "status") = 0
        BY NotCounted DEF QueuesOK
  <2>2. Count(highQ, "table") = 0
        BY NotCounted DEF QueuesOK
  <2>3. Count(highQ, "counter") = 0
        BY NotCounted DEF QueuesOK
  <2>4. Count(tTxnDoneQueue, "counter") = 0
        BY NotCounted DEF QueuesOK
  <2> QED BY <2>1, <2>2, <2>3, <2>4
<1>4. Times("status") = Count(highQ, "status") + 0 + Count(txnDone, "status")
                        + Count(tTxnDoneQueue, "status")
      BY <1>2, <1>3
<1>5. Times("table") = 0 + Count(lowQ, "table") + Count(txnDone, "table")
                        + Count(tTxnDoneQueue, "table")
      BY <1>2, <1>3
<1>6. Times("counter") = 0 + Count(lowQ, "counter") + Count(txnDone, "counter") + 0
      BY <1>2, <1>3
<1> QED BY <1>4, <1>5, <1>6, CountsNat DEF Statuses, Tables, Counters

\* No transaction's structure is linked into a queue while it is in one: neither
\* state machine hands over a read or a write again that is on its way, for any
\* number of results and stops (FwEvent.c:323-340, txResult.c:305-342, TxnQueue.c).
THEOREM TransactionsAreOnce == Spec => []HandedOverOnce
<1>1. WayInv => HandedOverOnce
      BY TimesCounted DEF WayInv, StatusOK, TableOK, CounterOK, HandedOverOnce
<1> QED BY <1>1, WayInvariance, PTL

-----------------------------------------------------------------------------
(* The results, from the firmware's table to their report.                 *)

\* The table holds the results from one counter to another.
InTable(table, from, to) == \A k \in from .. to - 1 : table[k % TRQ_DEPTH] = k + 1

\* The table read is yet to be handled.
TableRead ==
    \/ Count(txnDone, "table") # 0 \/ Count(tTxnDoneQueue, "table") # 0
    \/ pc = "results"

ReportTypes ==
    /\ fwCounter \in Nat /\ fwHostCounter \in Nat /\ uHostResultsCounter \in Nat
    /\ uCounter \in Nat /\ reported \in Seq(Nat)
    /\ fwTable \in [0 .. TRQ_DEPTH - 1 -> Nat]
    /\ tTxResultInfo \in [fw : Nat, queue : [0 .. TRQ_DEPTH - 1 -> Nat]]

\* Each callback of this life has been counted.
AllCounted == Len(reported) = uHostResultsCounter

\* The results of a table read and yet to be reported are those after the last
\* that was.
ReadOK ==
    TableRead => /\ uHostResultsCounter <= tTxResultInfo.fw
                 /\ tTxResultInfo.fw <= uHostResultsCounter + TRQ_DEPTH
                 /\ InTable(tTxResultInfo.queue, uHostResultsCounter, tTxResultInfo.fw)

\* What the host has told the firmware, what it has reported, what the firmware
\* has posted; and the entries between them are there.
Counted ==
    /\ fwHostCounter <= uHostResultsCounter /\ uHostResultsCounter <= fwCounter
    /\ fwCounter <= fwHostCounter + TRQ_DEPTH
    /\ InTable(fwTable, fwHostCounter, fwCounter)
    /\ Count(lowQ, "counter") # 0 =>
           fwHostCounter <= uCounter /\ uCounter <= uHostResultsCounter
    /\ TableRead => tTxResultInfo.fw <= fwCounter

\* What is reported is what was posted, each result once and in order, as long as
\* each is counted.  The firmware of a new life starts anew, the host after it.
ReportInv ==
    /\ ReportTypes
    /\ uHostResultsCounter <= Len(reported)
    /\ AllCounted => \A i \in 1 .. Len(reported) : reported[i] = i
    /\ AllCounted => ReadOK
    /\ phase = "init" => fwCounter = 0 /\ fwHostCounter = 0
    /\ phase \notin {"boot", "init"} /\ AllCounted => Counted

\* Counters less than a table's length apart use different entries.
LEMMA ModDiffer ==
    ASSUME NEW d \in Nat \ {0}, NEW k \in Nat, NEW n \in Nat, k < n, n < k + d
    PROVE  k % d # n % d
<1> SUFFICES ASSUME k % d = n % d PROVE FALSE
    OBVIOUS
<1>1. k \div d \in Int /\ n \div d \in Int /\ k % d \in Int
      OBVIOUS
<1>2. k = d * (k \div d) + (k % d)
      OBVIOUS
<1>3. n = d * (n \div d) + (n % d)
      OBVIOUS
<1>4. PICK a \in Int, b \in Int, r \in Int : a = k \div d /\ b = n \div d /\ r = k % d
      BY <1>1
<1>5. k = d * a + r /\ n = d * b + r
      BY <1>2, <1>3, <1>4
<1>6. d * a < d * b /\ d * b < d * a + d
      BY <1>5
<1>7. a < b /\ b < a + 1
  <2>1. \A x, y \in Int : x >= y => d * x >= d * y
        OBVIOUS
  <2>2. d * (a + 1) = d * a + d
        OBVIOUS
  <2>3. d * a \in Int /\ d * b \in Int
        OBVIOUS
  <2>4. a >= b => d * a >= d * b
        BY <2>1
  <2>5. b >= a + 1 => d * b >= d * (a + 1)
        BY <2>1
  <2> HIDE <1>5
  <2> QED BY <1>6, <2>2, <2>3, <2>4, <2>5
<1> QED BY <1>7

LEMMA ModRange ==
    ASSUME NEW d \in Nat \ {0}, NEW k \in Nat
    PROVE  k % d \in 0 .. d - 1
OBVIOUS

LEMMA InitReport == Init => ReportInv
<1> SUFFICES ASSUME Init PROVE ReportInv
    OBVIOUS
<1>1. EmptyTable \in [0 .. TRQ_DEPTH - 1 -> Nat]
      BY DEF EmptyTable
<1>2. ReportTypes
      BY <1>1 DEF Init, NoInfo, ReportTypes
<1>3. ~TableRead /\ Count(lowQ, "counter") = 0
      BY NoneLeft DEF Init, TableRead
<1>4. Counted /\ ReadOK
      BY <1>3, Assumptions DEF Init, Counted, ReadOK, InTable
<1> QED BY <1>2, <1>4 DEF Init, ReportInv, AllCounted

\* Nothing of it is touched, and no read of the table is completed.
LEMMA ReportKept ==
    ASSUME ReportInv,
           UNCHANGED <<fwCounter, fwHostCounter, fwTable, uHostResultsCounter, reported,
                       tTxResultInfo, uCounter>>,
           UNCHANGED phase \/ {phase, phase'} \cap {"boot", "init"} = {},
           Count(lowQ', "counter") # 0 => Count(lowQ, "counter") # 0,
           TableRead' => TableRead
    PROVE  ReportInv'
<1>1. ReportTypes' /\ AllCounted' = AllCounted
      BY DEF ReportInv, ReportTypes, AllCounted
<1>2. phase' \notin {"boot", "init"} /\ AllCounted => Counted'
      BY DEF ReportInv, Counted, InTable
<1>3. AllCounted => ReadOK'
      BY DEF ReportInv, ReadOK, InTable
<1> QED BY <1>1, <1>2, <1>3 DEF ReportInv

\* At most each of n callbacks is counted.
LEMMA HowMany ==
    ASSUME NEW n \in Nat, NEW rtn \in [1 .. n -> BOOLEAN], NEW i \in 0 .. n
    PROVE  /\ Cardinality({j \in 1 .. i : rtn[j]}) \in Nat
           /\ Cardinality({j \in 1 .. i : rtn[j]}) <= i
           /\ Cardinality({j \in 1 .. n : rtn[j]}) = n
                  => Cardinality({j \in 1 .. i : rtn[j]}) = i
<1>1. ASSUME NEW k \in 0 .. n
      PROVE  /\ IsFiniteSet(1 .. k) /\ Cardinality(1 .. k) = k
             /\ {j \in 1 .. k : rtn[j]} \in SUBSET (1 .. k)
  <2>1. k \in Nat
        OBVIOUS
  <2> QED BY <2>1, FS_Interval
<1>2. ASSUME NEW k \in 0 .. n
      PROVE  /\ Cardinality({j \in 1 .. k : rtn[j]}) \in Nat
             /\ Cardinality({j \in 1 .. k : rtn[j]}) <= k
             /\ Cardinality({j \in 1 .. k : rtn[j]}) = k => {j \in 1 .. k : rtn[j]} = 1 .. k
  <2> DEFINE T == {j \in 1 .. k : rtn[j]}
             S == 1 .. k
  <2>1. IsFiniteSet(S) /\ Cardinality(S) = k /\ T \in SUBSET S
        BY <1>1
  <2> HIDE DEF T, S
  <2>2. /\ IsFiniteSet(T) /\ Cardinality(T) <= Cardinality(S)
        /\ Cardinality(S) = Cardinality(T) => S = T
        BY <2>1, FS_Subset
  <2>3. Cardinality(T) \in Nat
        BY <2>2, FS_CardinalityType
  <2> QED BY <2>1, <2>2, <2>3 DEF T, S
<1>3. ASSUME Cardinality({j \in 1 .. n : rtn[j]}) = n
      PROVE  Cardinality({j \in 1 .. i : rtn[j]}) = i
  <2>1. n \in 0 .. n
        OBVIOUS
  <2>2. {j \in 1 .. n : rtn[j]} = 1 .. n
        BY <1>2, <1>3, <2>1
  <2>3. \A j \in 1 .. i : j \in 1 .. n
        OBVIOUS
  <2>4. {j \in 1 .. i : rtn[j]} = 1 .. i
        BY <2>2, <2>3
  <2> QED BY <1>1, <2>4
<1> QED BY <1>2, <1>3

\* The callbacks: what they were not counted for stays so, and if each was counted
\* the new results are those after the last that was reported.
LEMMA ReportedOn ==
    ASSUME ReportTypes, uHostResultsCounter <= Len(reported),
           NEW n \in Nat, CallBacks(n)
    PROVE  /\ uHostResultsCounter' \in Nat /\ reported' \in Seq(Nat)
           /\ uHostResultsCounter' <= Len(reported')
           /\ AllCounted' => AllCounted /\ uHostResultsCounter' = uHostResultsCounter + n
           /\ /\ AllCounted'
              /\ \A i \in 1 .. Len(reported) : reported[i] = i
              /\ InTable(tTxResultInfo.queue, uHostResultsCounter, uHostResultsCounter + n)
              => \A i \in 1 .. Len(reported') : reported'[i] = i
<1> DEFINE q == tTxResultInfo.queue
           host == uHostResultsCounter
<1>1. PICK rtn \in [1 .. n -> CbReturns] :
          /\ host' = host + Cardinality({j \in 1 .. n : rtn[j]})
          /\ reported' = reported \o
                 [i \in 1 .. n |->
                     q[(host + Cardinality({j \in 1 .. i - 1 : rtn[j]})) % TRQ_DEPTH]]
      BY DEF CallBacks
<1> DEFINE True(i) == Cardinality({j \in 1 .. i : rtn[j]})
<1>2. \A i \in 0 .. n : True(i) \in Nat /\ True(i) <= i /\ (True(n) = n => True(i) = i)
  <2>1. rtn \in [1 .. n -> BOOLEAN]
        BY Assumptions
  <2> QED BY <2>1, HowMany
<1>a. /\ host' = host + True(n)
      /\ reported' = reported \o [i \in 1 .. n |-> q[(host + True(i - 1)) % TRQ_DEPTH]]
      BY <1>1
<1> HIDE DEF True
<1>3. /\ host \in Nat /\ reported \in Seq(Nat) /\ TRQ_DEPTH \in Nat \ {0}
      /\ q \in [0 .. TRQ_DEPTH - 1 -> Nat] /\ n \in 0 .. n
      BY Assumptions DEF ReportTypes
<1>b. True(n) \in Nat /\ True(n) <= n
      BY <1>2, <1>3
<1>4. host' \in Nat /\ host' <= host + n
      BY <1>a, <1>b, <1>3
<1> DEFINE new == [i \in 1 .. n |-> q[(host + True(i - 1)) % TRQ_DEPTH]]
<1>5. new \in Seq(Nat) /\ Len(new) = n /\ reported' = reported \o new
  <2>1. ASSUME NEW i \in 1 .. n PROVE q[(host + True(i - 1)) % TRQ_DEPTH] \in Nat
    <3>1. i - 1 \in 0 .. n
          OBVIOUS
    <3>2. host + True(i - 1) \in Nat
          BY <1>2, <1>3, <3>1
    <3>3. (host + True(i - 1)) % TRQ_DEPTH \in 0 .. TRQ_DEPTH - 1
          BY <1>3, <3>2, ModRange
    <3> QED BY <1>3, <3>3
  <2>2. new \in [1 .. n -> Nat]
        BY <2>1
  <2>3. new \in Seq(Nat) /\ Len(new) = n
    <3> HIDE DEF new
    <3> QED BY <2>2
  <2> QED BY <1>a, <2>3
<1>6. ASSUME True(n) = n,
             InTable(tTxResultInfo.queue, uHostResultsCounter, uHostResultsCounter + n)
      PROVE  \A i \in 1 .. n : new[i] = host + i
  <2> SUFFICES ASSUME NEW i \in 1 .. n
               PROVE  q[(host + True(i - 1)) % TRQ_DEPTH] = host + i
      OBVIOUS
  <2>1. True(i - 1) = i - 1
        BY <1>2, <1>6
  <2>2. host + (i - 1) \in host .. (host + n) - 1
        BY <1>3
  <2>3. q[(host + (i - 1)) % TRQ_DEPTH] = (host + (i - 1)) + 1
        BY <1>6, <2>2 DEF InTable
  <2>4. (host + (i - 1)) + 1 = host + i
        BY <1>3
  <2> QED BY <2>1, <2>3, <2>4
<1> HIDE DEF new
<1>7. reported' \in Seq(Nat) /\ Len(reported') = Len(reported) + n
  <2>1. ASSUME NEW s \in Seq(Nat), NEW r \in Seq(Nat)
        PROVE  s \o r \in Seq(Nat) /\ Len(s \o r) = Len(s) + Len(r)
        OBVIOUS
  <2> QED BY <1>3, <1>5, <2>1
<1>c. Len(reported) \in Nat
      BY <1>3
<1>8. host' <= Len(reported')
      BY <1>3, <1>4, <1>7, <1>c
<1>9. AllCounted' => AllCounted /\ True(n) = n
      BY <1>3, <1>a, <1>b, <1>7, <1>c DEF AllCounted
<1>10. ASSUME AllCounted', \A i \in 1 .. Len(reported) : reported[i] = i,
              InTable(tTxResultInfo.queue, uHostResultsCounter, uHostResultsCounter + n)
       PROVE  \A i \in 1 .. Len(reported') : reported'[i] = i
  <2>a. Len(reported) = host /\ \A i \in 1 .. n : new[i] = host + i
        BY <1>6, <1>9, <1>10 DEF AllCounted
  <2> SUFFICES ASSUME NEW i \in 1 .. host + n PROVE (reported \o new)[i] = i
      BY <1>5, <1>7, <2>a
  <2>1. CASE i <= host
    <3>1. i \in 1 .. Len(reported)
          BY <1>3, <2>1, <2>a
    <3>2. (reported \o new)[i] = reported[i]
          BY <1>3, <1>5, <3>1
    <3> QED BY <1>10, <3>1, <3>2
  <2>2. CASE i > host
    <3>1. i - host \in 1 .. n /\ new[i - host] = host + (i - host)
          BY <1>3, <2>2, <2>a
    <3>2. (reported \o new)[i] = new[i - host]
          BY <1>3, <1>5, <2>2, <2>a
    <3> QED BY <1>3, <3>1, <3>2
  <2>3. i <= host \/ i > host
        BY <1>3
  <2> QED BY <2>1, <2>2, <2>3
<1>11. AllCounted' => AllCounted /\ host' = host + n
       BY <1>9, <1>a
<1> QED BY <1>4, <1>7, <1>8, <1>10, <1>11

\* The results read are reported, and the firmware is told so.
LEMMA ResultsReported ==
    ASSUME WayInv, ReportInv, phase # "init", TableRead, HandleNewResults,
           UNCHANGED phase, BusFree => Count(lowQ', "counter") = 0,
           Count(lowQ, "counter") = 0, ~TableRead'
    PROVE  ReportInv'
<1> DEFINE fw == tTxResultInfo.fw
           host == uHostResultsCounter
           n == fw - host
<1>1. ReportTypes /\ host <= Len(reported)
      BY DEF ReportInv
<1>2. /\ fw \in Nat /\ host \in Nat /\ fwHostCounter \in Nat /\ fwCounter \in Nat
      /\ TRQ_DEPTH \in Nat /\ n \in Int /\ Len(reported) \in Nat /\ uCounter \in Nat
      BY <1>1, Assumptions DEF ReportTypes
<1>3. AllCounted => /\ n \in 0 .. TRQ_DEPTH /\ host <= fw /\ host + n = fw
                    /\ InTable(tTxResultInfo.queue, host, fw)
                    /\ \A i \in 1 .. Len(reported) : reported[i] = i
      BY <1>2 DEF ReportInv, ReadOK
<1>4. ReadOK'
      BY DEF ReadOK
<1>5. tTxResultInfo' \in [fw : Nat, queue : [0 .. TRQ_DEPTH - 1 -> Nat]]
      BY DEF HandleNewResults, NoInfo, EmptyTable
<1>6. CASE n = 0
  <2>1. UNCHANGED <<host, reported, uCounter, lowQ, fwCounter, fwHostCounter, fwTable>>
        BY <1>6 DEF HandleNewResults, queues, firmware
  <2>2. ReportTypes' /\ AllCounted' = AllCounted
        BY <1>1, <1>5, <2>1 DEF ReportTypes, AllCounted
  <2>3. Counted => Counted'
        BY <1>1, <2>1 DEF Counted, InTable
  <2> QED BY <1>1, <1>4, <2>1, <2>2, <2>3 DEF ReportInv
<1>7. CASE n # 0
  <2> DEFINE m == IF n \in 0 .. TRQ_DEPTH THEN n ELSE TRQ_DEPTH
  <2>1. WriteCounter(fw) /\ CallBacks(m) /\ m \in Nat
        BY <1>2, <1>7 DEF HandleNewResults
  <2> HIDE DEF m
  <2>2. /\ host' \in Nat /\ reported' \in Seq(Nat) /\ host' <= Len(reported')
        /\ AllCounted' => AllCounted /\ host' = host + m
        /\ /\ AllCounted' /\ \A i \in 1 .. Len(reported) : reported[i] = i
           /\ InTable(tTxResultInfo.queue, host, host + m)
           => \A i \in 1 .. Len(reported') : reported'[i] = i
        BY <1>1, <2>1, ReportedOn
  <2>3. AllCounted' => AllCounted /\ m = n /\ host' = fw
        BY <1>2, <1>3, <2>2 DEF m
  <2>a. AllCounted' => \A i \in 1 .. Len(reported') : reported'[i] = i
        BY <1>3, <2>2, <2>3
  <2>4. /\ UNCHANGED <<fwCounter, fwTable>>
        /\ \/ UNCHANGED <<fwHostCounter, uCounter, lowQ>>
           \/ fwHostCounter' = fw /\ UNCHANGED uCounter /\ BusFree
           \/ UNCHANGED fwHostCounter /\ uCounter' = fw
        BY <2>1 DEF WriteCounter, queues, firmware
  <2>b. fwHostCounter' \in Nat /\ uCounter' \in Nat
        BY <1>2, <2>4
  <2>6. ReportTypes'
        BY <1>1, <1>5, <2>2, <2>4, <2>b DEF ReportTypes
  <2>10. ASSUME AllCounted', Counted PROVE Counted'
    <3>1. /\ fwHostCounter <= host /\ host <= fw /\ fw <= fwCounter /\ host' = fw
          /\ fwCounter <= fwHostCounter + TRQ_DEPTH
          BY <1>3, <2>3, <2>10 DEF Counted
    <3>2. fwHostCounter <= fwHostCounter' /\ fwHostCounter' <= fw
          /\ (Count(lowQ', "counter") # 0 => fwHostCounter' <= uCounter' /\ uCounter' <= fw)
          BY <1>2, <2>4, <3>1
    <3>3. InTable(fwTable', fwHostCounter', fwCounter')
      <4>1. fwTable' = fwTable /\ fwCounter' = fwCounter
            BY <2>4
      <4>2. \A k \in fwHostCounter' .. fwCounter - 1 : k \in fwHostCounter .. fwCounter - 1
            BY <1>2, <2>b, <3>2
      <4> QED BY <2>10, <4>1, <4>2 DEF Counted, InTable
    <3>4. fwCounter' <= fwHostCounter' + TRQ_DEPTH
      <4>1. ASSUME NEW a \in Nat, NEW b \in Nat, NEW c \in Nat, a <= b + TRQ_DEPTH, b <= c
            PROVE  a <= c + TRQ_DEPTH
            BY <1>2, <4>1
      <4>2. fwCounter <= fwHostCounter' + TRQ_DEPTH
            BY <1>2, <2>b, <3>1, <3>2, <4>1
      <4> QED BY <2>4, <4>2
    <3>5. host' <= fwCounter' /\ fwHostCounter' <= host'
          BY <2>4, <3>1, <3>2
    <3>6. Count(lowQ', "counter") # 0 => fwHostCounter' <= uCounter' /\ uCounter' <= host'
          BY <3>1, <3>2
    <3> QED BY <3>3, <3>4, <3>5, <3>6 DEF Counted
  <2>11. phase' \notin {"boot", "init"} /\ AllCounted' => Counted'
         BY <2>3, <2>10 DEF ReportInv
  <2> QED BY <1>4, <2>2, <2>a, <2>6, <2>11 DEF ReportInv
<1> QED BY <1>6, <1>7

\* The results stay in order over every step.
LEMMA NextReport == WayInv /\ WayInv' /\ ReportInv /\ [Next]_vars => ReportInv'
<1> SUFFICES ASSUME WayInv, WayInv', ReportInv, [Next]_vars PROVE ReportInv'
    OBVIOUS
<1> DEFINE Data == <<fwCounter, fwHostCounter, fwTable, uHostResultsCounter, reported,
                     tTxResultInfo, uCounter>>
<1>1. QueuesOK /\ BusOK /\ LifeOK /\ TableOK /\ CounterOK
      BY DEF WayInv
<1>2. QueuesOK' /\ TableOK' /\ CounterOK'
      BY DEF WayInv
\* The actions in which no result, no counter and no read of the table moves.
<1>3. ASSUME UNCHANGED Data, UNCHANGED phase \/ {phase, phase'} \cap {"boot", "init"} = {},
             UNCHANGED lowQ, UNCHANGED txnDone, UNCHANGED tTxnDoneQueue,
             pc' = "results" => pc = "results"
      PROVE  ReportInv'
      BY <1>3, ReportKept DEF TableRead
<1>4. CASE UNCHANGED vars
      BY <1>3, <1>4 DEF vars, task, txResult, buffers, queues, bus, firmware, life
<1>5. CASE DriverTask \/ Skip \/ TaskEnd
      BY <1>3, <1>5 DEF DriverTask, Skip, TaskEnd, txResult, buffers, queues, bus,
           firmware, life
<1>6. CASE HandleEvents \/ EventHandled
      BY <1>3, <1>6 DEF HandleEvents, EventHandled, DataHandlers, txResult, queues,
           firmware, life
<1>7. CASE EnableClient
      BY <1>3, <1>7 DEF EnableClient, task, txResult, buffers, queues, bus, firmware, life
<1>8. CASE \E c \in Clients : OsRequestSchedule(c)
      BY <1>3, <1>8 DEF OsRequestSchedule, task, txResult, buffers, queues, bus, firmware,
           life
<1>9. CASE FwRaisesEvent
      BY <1>3, <1>9 DEF FwRaisesEvent, task, txResult, buffers, queues, bus, life
<1>10. CASE HandleTxnDone
  <2>1. UNCHANGED phase \/ {phase, phase'} \cap {"boot", "init"} = {}
        BY <1>10 DEF HandleTxnDone
  <2> QED BY <1>3, <1>10, <2>1 DEF HandleTxnDone, txResult, buffers, queues, firmware
\* The read of the status is handed over or done.
<1>11. ASSUME ReadIntrInfo, UNCHANGED <<txResult, txnDone, tTxnDoneQueue, phase>>
       PROVE  ReportInv'
  <2>1. UNCHANGED Data /\ UNCHANGED lowQ /\ pc' # "results"
        BY <1>11 DEF ReadIntrInfo, Transact, Queue, Execute, Return, txResult, buffers,
             queues,
                     firmware
  <2> QED BY <1>3, <1>11, <2>1
<1>12. CASE NewEvent
  <2>1. UNCHANGED <<txResult, txnDone, tTxnDoneQueue, phase>>
        BY <1>12 DEF NewEvent, bus, life
  <2>2. CASE ReadIntrInfo
        BY <1>11, <2>1, <2>2
  <2>3. CASE Return /\ UNCHANGED <<buffers, queues, firmware>>
        BY <1>3, <2>1, <2>3 DEF Return, txResult, buffers, queues, firmware
  <2> QED BY <1>12, <2>2, <2>3 DEF NewEvent
<1>13. CASE Complete
  <2>1. UNCHANGED <<txResult, txnDone, tTxnDoneQueue, phase>>
        BY <1>13 DEF Complete, bus, life
  <2>2. CASE ReadIntrInfo
        BY <1>11, <2>1, <2>2
  <2>3. CASE Return /\ UNCHANGED <<buffers, queues, firmware>>
        BY <1>3, <2>1, <2>3 DEF Return, txResult, buffers, queues, firmware
  <2> QED BY <1>13, <2>2, <2>3 DEF Complete
<1>14. CASE StatusDone
  <2>1. UNCHANGED <<txResult, txnDone, phase, lowQ>> /\ pc' # "results"
        /\ UNCHANGED Data
    <3>1. UNCHANGED <<txResult, txnDone, phase>>
          BY <1>14 DEF StatusDone, Done, life
    <3>2. CASE ReadIntrInfo
          BY <3>1, <3>2 DEF ReadIntrInfo, Transact, Queue, Execute, Return, txResult,
               buffers,
                            queues, firmware
    <3>3. CASE pc' = "handle" /\ UNCHANGED <<buffers, queues, firmware>>
          BY <3>1, <3>3 DEF txResult, buffers, queues, firmware
    <3> QED BY <1>14, <3>1, <3>2, <3>3 DEF StatusDone
  <2>2. Count(tTxnDoneQueue', "table") # 0 => Count(tTxnDoneQueue, "table") # 0
    <3>1. tTxnDoneQueue # <<>> /\ Head(tTxnDoneQueue) = "status"
          /\ tTxnDoneQueue' = Tail(tTxnDoneQueue)
          BY <1>14 DEF StatusDone, Done
    <3>2. \A t \in Transactions :
              Count(tTxnDoneQueue, t) = Count(Tail(tTxnDoneQueue), t) + (IF "status" = t THEN 1 ELSE 0)
          BY <1>1, <3>1, Taken DEF QueuesOK
    <3>3. Count(tTxnDoneQueue', "table") \in Nat
          BY <1>2, PlacesFinite DEF QueuesOK
    <3>4. Count(tTxnDoneQueue, "table") = Count(tTxnDoneQueue', "table")
          BY <3>1, <3>2, <3>3 DEF Transactions
    <3> QED BY <3>4
  <2> QED BY <2>1, <2>2, ReportKept DEF TableRead
<1>15. CASE OtherTxn
  <2>1. UNCHANGED Data /\ UNCHANGED <<pc, txnDone, tTxnDoneQueue, phase>>
        BY <1>15 DEF OtherTxn, task, txResult, buffers, firmware, life
  <2>2. Count(lowQ', "counter") = Count(lowQ, "counter")
    <3>1. CASE UNCHANGED queues
          BY <3>1 DEF queues
    <3>2. CASE Queue("other")
          BY <1>1, <3>2, Queued, CountsNat DEF Transactions
    <3> QED BY <1>15, <3>1, <3>2 DEF OtherTxn
  <2> QED BY <2>1, <2>2, ReportKept DEF TableRead
<1>16. CASE BusTxnDone
  <2>1. UNCHANGED Data /\ UNCHANGED <<pc, tTxnDoneQueue, phase>>
        BY <1>16 DEF BusTxnDone, task, txResult, buffers, firmware, life
  <2>2. UNCHANGED lowQ
        BY <1>16 DEF BusTxnDone, queues
  <2>3. Count(txnDone', "table") # 0 => Count(txnDone, "table") # 0
    <3>1. CASE UNCHANGED txnDone
          BY <3>1
    <3>2. CASE txnDone' = Append(txnDone, "other")
      <4>1. \A t \in Transactions :
                Count(txnDone', t) = Count(txnDone, t) + (IF "other" = t THEN 1 ELSE 0)
            BY <1>1, <3>2, Appended DEF QueuesOK, Transactions
      <4>2. Count(txnDone', "table") = Count(txnDone, "table")
            BY <1>1, <4>1, CountsNat DEF Transactions
      <4> QED BY <4>2
    <3> QED BY <1>16, <3>1, <3>2 DEF BusTxnDone
  <2> QED BY <2>1, <2>2, <2>3, ReportKept DEF TableRead
<1>17. CASE BusPost
  <2>1. UNCHANGED Data /\ UNCHANGED <<pc, phase, lowQ>> /\ txnDone' = Tail(txnDone) /\ txnDone # <<>>
        BY <1>1, <1>17 DEF BusPost, task, txResult, buffers, queues, firmware, life, BusOK
  <2>2. /\ \A t \in Transactions :
               Count(txnDone, t) = Count(Tail(txnDone), t) + (IF Head(txnDone) = t THEN 1 ELSE 0)
        /\ Head(txnDone) \in Transactions
        BY <1>1, <2>1, Taken DEF QueuesOK
  <2>3. Count(txnDone', "table") \in Nat
        BY <1>2, PlacesFinite DEF QueuesOK
  <2>4. CASE Head(txnDone) = "table"
    <3>1. Count(txnDone, "table") = Count(txnDone', "table") + 1
          BY <2>1, <2>2, <2>4 DEF Transactions
    <3>2. Count(txnDone, "table") # 0
          BY <2>3, <3>1
    <3> QED BY <2>1, <3>2, ReportKept DEF TableRead
  <2>5. CASE Head(txnDone) # "table"
    <3>1. Count(txnDone, "table") = Count(txnDone', "table")
          BY <2>1, <2>2, <2>3, <2>5 DEF Transactions
    <3>2. Count(tTxnDoneQueue', "table") = Count(tTxnDoneQueue, "table")
      <4>1. CASE tTxnDoneQueue' = tTxnDoneQueue
            BY <4>1
      <4>2. CASE Head(txnDone) = "status" /\ tTxnDoneQueue' = Append(tTxnDoneQueue, "status")
        <5>1. \A t \in Transactions :
                  Count(tTxnDoneQueue', t)
                      = Count(tTxnDoneQueue, t) + (IF "status" = t THEN 1 ELSE 0)
              BY <1>1, <4>2, Appended DEF QueuesOK
        <5> QED BY <1>1, <5>1, CountsNat DEF Transactions
      <4> QED BY <1>17, <2>5, <4>1, <4>2 DEF BusPost
    <3> QED BY <2>1, <3>1, <3>2, ReportKept DEF TableRead
  <2> QED BY <2>4, <2>5
<1>18. CASE Stop \/ EventStops
  <2>1. /\ UNCHANGED Data /\ UNCHANGED txnDone /\ tTxnDoneQueue' = <<>>
        /\ {phase, phase'} \cap {"boot", "init"} = {} /\ pc' # "results"
        /\ lowQ' = lowQ \/ lowQ' = <<>>
        BY <1>18 DEF Stop, EventStops, StopActivities, Return, task, txResult, buffers,
             queues, firmware
  <2>2. Count(tTxnDoneQueue', "table") = 0
        BY <2>1, NoneLeft
  <2>3. Count(lowQ', "counter") # 0 => Count(lowQ, "counter") # 0
        BY <2>1, NoneLeft
  <2> QED BY <2>1, <2>2, <2>3, ReportKept DEF TableRead
\* The firmware is loaded anew, and the host counts anew after it.
<1>19. CASE PowerOn \/ FinalizeDownload
  <2>1. /\ UNCHANGED <<uHostResultsCounter, reported, tTxResultInfo, uCounter, txnDone,
                       tTxnDoneQueue, pc>>
        /\ phase' \in {"boot", "init"}
        /\ fwCounter' = 0 /\ fwHostCounter' = 0 /\ fwTable' = EmptyTable
        BY <1>19 DEF PowerOn, FinalizeDownload, FwReset, txResult, buffers, bus, task
  <2>2. EmptyTable \in [0 .. TRQ_DEPTH - 1 -> Nat]
        BY DEF EmptyTable
  <2>3. ReportTypes' /\ AllCounted' = AllCounted
        BY <2>1, <2>2 DEF ReportInv, ReportTypes, AllCounted
  <2>4. ReadOK' = ReadOK
        BY <2>1 DEF ReadOK, TableRead, InTable
  <2> QED BY <2>1, <2>3, <2>4 DEF ReportInv
<1>20. CASE ConfigComplete
  <2>1. /\ UNCHANGED <<fwCounter, fwHostCounter, fwTable, tTxResultInfo, uCounter>>
        /\ uHostResultsCounter' = 0 /\ reported' = <<>> /\ phase = "init" /\ phase' = "up"
        /\ UNCHANGED <<lowQ, txnDone, tTxnDoneQueue, pc>> /\ pc # "results"
        BY <1>20 DEF ConfigComplete, buffers, queues, bus, task
  <2>2. Tables = 0 /\ Counters = 0 /\ fwCounter = 0 /\ fwHostCounter = 0
        BY <1>1, <2>1 DEF TableOK, CounterOK, ReportInv
  <2>3. Count(txnDone, "table") = 0 /\ Count(tTxnDoneQueue, "table") = 0
        /\ Count(lowQ, "counter") = 0
        BY <1>1, <2>2, CountsNat DEF Tables, Counters
  <2>4. ReportTypes'
        BY <2>1 DEF ReportInv, ReportTypes
  <2>5. ~TableRead'
        BY <2>1, <2>3 DEF TableRead
  <2>6. Len(reported') = 0 /\ fwCounter' = 0 /\ fwHostCounter' = 0 /\ Count(lowQ', "counter") = 0
        BY <2>1, <2>2, <2>3
  <2>7. InTable(fwTable', 0, 0)
        BY DEF InTable
  <2>8. Counted' /\ ReadOK'
        BY <2>1, <2>5, <2>6, <2>7, Assumptions DEF Counted, ReadOK
  <2> QED BY <2>1, <2>4, <2>6, <2>8 DEF ReportInv
\* The firmware posts a result into an entry of which the host has told.
<1>21. CASE FwPostsResult
  <2>1. /\ UNCHANGED <<fwHostCounter, uHostResultsCounter, reported, tTxResultInfo, uCounter, pc,
                       lowQ, txnDone, tTxnDoneQueue, phase>>
        /\ phase = "up" /\ fwCounter - fwHostCounter < TRQ_DEPTH /\ fwCounter' = fwCounter + 1
        /\ fwTable' = [fwTable EXCEPT ![fwCounter % TRQ_DEPTH] = fwCounter + 1]
        BY <1>21 DEF FwPostsResult, task, txResult, buffers, queues, bus, life
  <2>2. ReportTypes
        BY DEF ReportInv
  <2>3. /\ fwCounter \in Nat /\ fwHostCounter \in Nat /\ uHostResultsCounter \in Nat
        /\ TRQ_DEPTH \in Nat \ {0} /\ fwTable \in [0 .. TRQ_DEPTH - 1 -> Nat]
        BY <2>2, Assumptions DEF ReportTypes
  <2>4. PICK n \in Nat : n = fwCounter
        BY <2>3
  <2>5. n % TRQ_DEPTH \in 0 .. TRQ_DEPTH - 1
        BY <2>3, ModRange
  <2>6. fwTable' \in [0 .. TRQ_DEPTH - 1 -> Nat] /\ fwTable'[n % TRQ_DEPTH] = n + 1
        BY <2>1, <2>3, <2>4, <2>5
  <2>7. ReportTypes'
        BY <2>1, <2>2, <2>4, <2>6 DEF ReportTypes
  <2>8. ASSUME Counted PROVE InTable(fwTable', fwHostCounter, n + 1)
    <3> SUFFICES ASSUME NEW k \in fwHostCounter .. n PROVE fwTable'[k % TRQ_DEPTH] = k + 1
        BY <2>4 DEF InTable
    <3>1. CASE k = n
          BY <2>6, <3>1
    <3>2. CASE k # n
      <4>1. k \in Nat /\ k < n /\ n < k + TRQ_DEPTH
            BY <2>1, <2>3, <2>4, <3>2
      <4>2. k % TRQ_DEPTH # n % TRQ_DEPTH /\ k % TRQ_DEPTH \in 0 .. TRQ_DEPTH - 1
            BY <2>3, <4>1, ModDiffer, ModRange
      <4>3. fwTable[k % TRQ_DEPTH] = k + 1
            BY <2>4, <2>8, <3>2, <4>1 DEF Counted, InTable
      <4> QED BY <2>1, <2>3, <2>4, <4>2, <4>3
    <3> QED BY <3>1, <3>2
  <2>9. TableRead' = TableRead
        BY <2>1 DEF TableRead
  <2>10. ASSUME Counted PROVE Counted'
    <3>1. fwCounter' <= fwHostCounter' + TRQ_DEPTH /\ uHostResultsCounter' <= fwCounter'
          BY <2>1, <2>3, <2>10 DEF Counted
    <3>2. TableRead' => tTxResultInfo'.fw <= fwCounter'
      <4>1. TableRead => tTxResultInfo.fw <= fwCounter
            BY <2>10 DEF Counted
      <4>2. tTxResultInfo.fw \in Nat
            BY <2>2 DEF ReportTypes
      <4> QED BY <2>1, <2>3, <2>9, <4>1, <4>2
    <3> QED BY <2>1, <2>4, <2>8, <2>9, <2>10, <3>1, <3>2 DEF Counted
  <2>11. ReadOK' = ReadOK /\ AllCounted' = AllCounted
         BY <2>1, <2>9 DEF ReadOK, AllCounted, InTable
  <2> QED BY <2>1, <2>7, <2>10, <2>11 DEF ReportInv
\* The table is read at once, or the read is queued.
<1>22. CASE TxCmpltIntrCb
  <2>1. /\ UNCHANGED <<fwCounter, fwHostCounter, fwTable, uHostResultsCounter, reported, uCounter,
                       txnDone, tTxnDoneQueue, phase>>
        /\ pc = "cmplt" /\ phase = "up"
        BY <1>1, <1>22 DEF TxCmpltIntrCb, bus, firmware, life, LifeOK
  <2>2. CASE pc' = "complete" /\ UNCHANGED <<tTxResultInfo, queues>>
        BY <1>3, <2>1, <2>2 DEF queues
  <2>3. CASE pc' = "complete" /\ UNCHANGED tTxResultInfo /\ Queue("table")
    <3>1. Count(lowQ', "counter") = Count(lowQ, "counter")
          BY <1>1, <2>3, Queued, CountsNat DEF Transactions
    <3> QED BY <2>1, <2>3, <3>1, ReportKept DEF TableRead
  <2>4. CASE tTxResultInfo' = [fw |-> fwCounter, queue |-> fwTable] /\ UNCHANGED queues
    <3>1. ReportTypes /\ (AllCounted => Counted) /\ AllCounted' = AllCounted
          BY <2>1 DEF ReportInv, AllCounted
    <3>2. ReportTypes'
          BY <2>1, <2>4, <3>1 DEF ReportTypes
    <3>3. Counted => InTable(fwTable, uHostResultsCounter, fwCounter)
          BY <3>1 DEF Counted, ReportTypes, InTable
    <3>4. Counted => Counted'
          BY <2>1, <2>4, <3>1 DEF Counted, ReportTypes, InTable, queues
    <3>5. Counted => ReadOK'
      <4>1. Counted => /\ uHostResultsCounter <= fwCounter
                       /\ fwCounter <= uHostResultsCounter + TRQ_DEPTH
            BY <3>1, Assumptions DEF Counted, ReportTypes
      <4> QED BY <2>1, <2>4, <3>3, <4>1 DEF ReadOK, InTable
    <3> QED BY <2>1, <3>1, <3>2, <3>4, <3>5 DEF ReportInv
  <2> QED BY <1>22, <2>1, <2>2, <2>3, <2>4 DEF TxCmpltIntrCb, ReadTable, Off
\* The results are reported.
<1>23. CASE ResultsRead
  <2>1. pc = "results" /\ pc' = "complete" /\ HandleNewResults /\ BusFree
        /\ UNCHANGED <<phase, txnDone, tTxnDoneQueue>> /\ phase # "init"
        BY <1>1, <1>23 DEF ResultsRead, bus, life, LifeOK
  <2>2. UNCHANGED queues /\ Count(lowQ, "counter") = 0
        BY <1>1, <2>1, NoneLeft DEF HandleNewResults, WriteCounter, BusOK
  <2>3. Tables = 0
        BY <1>1, <2>1 DEF TableOK
  <2>4. ~TableRead'
        BY <1>1, <2>1, <2>3, CountsNat DEF Tables, TableRead
  <2>5. TableRead
        BY <2>1 DEF TableRead
  <2>6. Count(lowQ', "counter") = 0
        BY <2>2 DEF queues
  <2> QED BY <2>1, <2>2, <2>4, <2>5, <2>6, ResultsReported
<1>24. CASE TableDone
  <2>1. /\ pc = "done" /\ tTxnDoneQueue # <<>> /\ Head(tTxnDoneQueue) = "table"
        /\ tTxnDoneQueue' = Tail(tTxnDoneQueue) /\ UNCHANGED <<txnDone, phase>>
        BY <1>24 DEF TableDone, Done, life
  <2>2. \A t \in Transactions :
            Count(tTxnDoneQueue, t) = Count(Tail(tTxnDoneQueue), t) + (IF "table" = t THEN 1 ELSE 0)
        BY <1>1, <2>1, Taken DEF QueuesOK
  <2>3. Count(tTxnDoneQueue, "table") = Count(tTxnDoneQueue', "table") + 1
        /\ Count(tTxnDoneQueue', "table") \in Nat
    <3>1. Count(tTxnDoneQueue', "table") \in Nat
          BY <1>2, PlacesFinite DEF QueuesOK
    <3> QED BY <2>1, <2>2, <3>1 DEF Transactions
  <2>4. /\ Count(tTxnDoneQueue', "table") = 0 /\ Count(txnDone, "table") = 0
        /\ Count(tTxnDoneQueue, "table") # 0 /\ Counters = 0 /\ eState # "IDLE" /\ phase # "init"
        BY <1>1, <2>3, CountsNat DEF TableOK, CounterOK, Tables
  <2>5. HandleNewResults /\ pc' = "done"
        BY <1>24, <2>1, <2>4 DEF TableDone
  <2>6. TableRead /\ ~TableRead'
        BY <2>1, <2>4, <2>5 DEF TableRead
  <2>7. Count(lowQ, "counter") = 0
        BY <1>1, <2>4, CountsNat DEF Counters
  <2>8. BusFree => UNCHANGED queues
        BY <2>5 DEF HandleNewResults, WriteCounter
  <2>9. BusFree => Count(lowQ', "counter") = 0
        BY <2>7, <2>8 DEF queues
  <2> QED BY <2>1, <2>4, <2>5, <2>6, <2>7, <2>9, ResultsReported
\* A transaction is sent: the read of the status or of the table, the write of
\* the counter, or another.
<1>25. CASE BusSend
  <2>1. UNCHANGED <<uHostResultsCounter, reported, tTxnDoneQueue, phase, pc>>
        BY <1>25 DEF BusSend, task, txResult, life
  <2>2. CASE UNCHANGED <<queues, txnDone, buffers, firmware>>
        BY <1>3, <2>1, <2>2 DEF queues, buffers, firmware
  <2>3. CASE highQ # <<>> /\ Sent(Head(highQ)) /\ UNCHANGED lowQ
    <3>1. Head(highQ) = "status"
          BY <1>1, <2>3 DEF QueuesOK
    <3>2. UNCHANGED <<fwCounter, fwHostCounter, fwTable, tTxResultInfo, uCounter>>
          BY <2>3, <3>1 DEF Sent, Execute, buffers, firmware
    <3>3. \A t \in Transactions :
              Count(txnDone', t) = Count(txnDone, t) + (IF "status" = t THEN 1 ELSE 0)
          BY <1>1, <2>3, <3>1, Appended DEF Sent, QueuesOK, Transactions
    <3>4. Count(txnDone', "table") = Count(txnDone, "table")
          BY <1>1, <3>3, CountsNat DEF Transactions
    <3> QED BY <2>1, <2>3, <3>2, <3>4, ReportKept DEF TableRead
  <2>4. CASE lowQ # <<>> /\ lowQ' = Tail(lowQ)
             /\ IF Head(lowQ) = "other"
                THEN /\ txnDone' \in {txnDone, Append(txnDone, "other")}
                     /\ UNCHANGED <<buffers, firmware>>
                ELSE Sent(Head(lowQ))
    <3>1. /\ Head(lowQ) \in {"table", "counter", "other"}
          /\ \A t \in Transactions :
                 Count(lowQ, t) = Count(Tail(lowQ), t) + (IF Head(lowQ) = t THEN 1 ELSE 0)
          BY <1>1, <2>4, Taken DEF QueuesOK
    <3>2. Count(lowQ', "counter") \in Nat /\ Count(lowQ', "table") \in Nat
          BY <1>2, PlacesFinite DEF QueuesOK
    <3>3. CASE Head(lowQ) = "other"
      <4>1. Count(lowQ, "counter") = Count(lowQ', "counter")
            BY <2>4, <3>1, <3>2, <3>3 DEF Transactions
      <4>2. UNCHANGED Data
            BY <2>1, <2>4, <3>3 DEF buffers, firmware
      <4>3. Count(txnDone', "table") = Count(txnDone, "table")
        <5>1. CASE UNCHANGED txnDone
              BY <5>1
        <5>2. CASE txnDone' = Append(txnDone, "other")
          <6>1. \A t \in Transactions :
                    Count(txnDone', t) = Count(txnDone, t) + (IF "other" = t THEN 1 ELSE 0)
                BY <1>1, <5>2, Appended DEF QueuesOK, Transactions
          <6> QED BY <1>1, <6>1, CountsNat DEF Transactions
        <5> QED BY <2>4, <3>3, <5>1, <5>2
      <4> QED BY <2>1, <4>1, <4>2, <4>3, ReportKept DEF TableRead
    <3>4. CASE Head(lowQ) = "counter"
      <4>1. Count(lowQ, "counter") = Count(lowQ', "counter") + 1
            BY <2>4, <3>1, <3>4 DEF Transactions
      <4>2. Count(lowQ, "counter") # 0 /\ Count(lowQ', "counter") = 0 /\ phase # "init"
            BY <1>1, <3>2, <4>1, CountsNat DEF CounterOK, Counters
      <4>3. /\ UNCHANGED <<fwCounter, fwTable, tTxResultInfo>>
            /\ \/ fwHostCounter' = uCounter /\ uCounter' = 0
               \/ UNCHANGED <<fwHostCounter, uCounter>>
            BY <2>4, <3>4 DEF Sent, Execute, buffers, firmware
      <4>4. \A t \in Transactions :
                Count(txnDone', t) = Count(txnDone, t) + (IF "counter" = t THEN 1 ELSE 0)
        <5>1. txnDone' = Append(txnDone, "counter") /\ "counter" \in Transactions
              BY <2>4, <3>4 DEF Sent, Transactions
        <5>2. txnDone \in Seq(Transactions)
              BY <1>1 DEF QueuesOK
        <5> QED BY <5>1, <5>2, Appended
      <4>5. Count(txnDone', "table") = Count(txnDone, "table")
            BY <1>1, <4>4, CountsNat DEF Transactions
      <4>6. TableRead' = TableRead
            BY <2>1, <4>5 DEF TableRead
      <4>7. ReportTypes
            BY DEF ReportInv
      <4>9. ReportTypes'
            BY <2>1, <4>3, <4>7 DEF ReportTypes
      <4>10. ASSUME Counted PROVE Counted'
        <5>1. CASE UNCHANGED <<fwHostCounter, uCounter>>
              BY <2>1, <4>2, <4>3, <4>6, <4>10, <5>1 DEF Counted, InTable
        <5>2. CASE fwHostCounter' = uCounter
          <6>1. fwHostCounter <= uCounter /\ uCounter <= uHostResultsCounter
                BY <4>2, <4>10 DEF Counted
          <6>2. InTable(fwTable, uCounter, fwCounter)
            <7>1. \A k \in uCounter .. fwCounter - 1 : k \in fwHostCounter .. fwCounter - 1
                  BY <4>7, <6>1 DEF ReportTypes
            <7> QED BY <4>10, <7>1 DEF Counted, InTable
          <6>3. fwCounter <= uCounter + TRQ_DEPTH
            <7>1. fwCounter <= fwHostCounter + TRQ_DEPTH /\ TRQ_DEPTH \in Nat
                  BY <4>10, Assumptions DEF Counted
            <7> QED BY <4>7, <6>1, <7>1 DEF ReportTypes
          <6> QED BY <2>1, <4>2, <4>3, <4>6, <4>10, <5>2, <6>1, <6>2, <6>3 DEF Counted
        <5> QED BY <4>3, <5>1, <5>2
      <4>11. ReadOK' = ReadOK /\ AllCounted' = AllCounted
             BY <2>1, <4>3, <4>6 DEF ReadOK, AllCounted, InTable
      <4> QED BY <2>1, <4>2, <4>9, <4>10, <4>11 DEF ReportInv
    <3>5. CASE Head(lowQ) = "table"
      <4>1. Count(lowQ, "table") = Count(lowQ', "table") + 1
            BY <2>4, <3>1, <3>5 DEF Transactions
      <4>2. Count(lowQ, "counter") = Count(lowQ', "counter")
            BY <2>4, <3>1, <3>2, <3>5 DEF Transactions
      <4>3. Tables # 0
            BY <1>1, <3>2, <4>1, CountsNat DEF Tables
      <4>4. phase \notin {"boot", "init", "down"}
            BY <1>1, <3>2, <4>1, <4>3 DEF TableOK
      <4>5. /\ UNCHANGED <<fwCounter, fwHostCounter, fwTable, uCounter>>
            /\ tTxResultInfo' = [fw |-> fwCounter, queue |-> fwTable]
            BY <2>4, <3>5, <4>4 DEF Sent, Off, Execute, firmware
      <4>6. ReportTypes /\ (AllCounted => Counted) /\ AllCounted' = AllCounted
            BY <2>1, <4>4 DEF ReportInv, AllCounted
      <4>7. ReportTypes'
            BY <2>1, <4>5, <4>6 DEF ReportTypes
      <4>8. Counted => InTable(fwTable, uHostResultsCounter, fwCounter)
            BY <4>6 DEF Counted, ReportTypes, InTable
      <4>9. Counted => Counted'
            BY <2>1, <4>2, <4>5, <4>6 DEF Counted, ReportTypes, InTable
      <4>10. Counted => ReadOK'
        <5>1. Counted => /\ uHostResultsCounter <= fwCounter
                         /\ fwCounter <= uHostResultsCounter + TRQ_DEPTH
              BY <4>6, Assumptions DEF Counted, ReportTypes
        <5> QED BY <2>1, <4>5, <4>8, <5>1 DEF ReadOK, InTable
      <4> QED BY <2>1, <4>4, <4>6, <4>7, <4>9, <4>10 DEF ReportInv
    <3> QED BY <3>1, <3>3, <3>4, <3>5
  <2> QED BY <1>25, <2>2, <2>3, <2>4 DEF BusSend
\* The queues are cleared.
<1>26. CASE BusRecovery \/ PendRestartTimeout
  <2>1. /\ UNCHANGED Data /\ UNCHANGED <<pc, txnDone, tTxnDoneQueue>> /\ lowQ' = <<>>
        /\ UNCHANGED phase \/ {phase, phase'} \cap {"boot", "init"} = {}
        BY <1>26 DEF BusRecovery, PendRestartTimeout, ClearQueues, task, txResult, buffers,
             firmware, life
  <2>2. Count(lowQ', "counter") = 0
        BY <2>1, NoneLeft
  <2> QED BY <2>1, <2>2, ReportKept DEF TableRead
\* A failed transaction is dropped.
<1>27. CASE FailedDone
  <2>1. /\ UNCHANGED Data /\ UNCHANGED <<lowQ, txnDone, phase>> /\ pc' = "scan"
        /\ tTxnDoneQueue # <<>> /\ tTxnDoneQueue' = Tail(tTxnDoneQueue)
        BY <1>27 DEF FailedDone, txResult, buffers, queues, firmware, life
  <2>2. Count(tTxnDoneQueue', "table") # 0 => Count(tTxnDoneQueue, "table") # 0
    <3>1. /\ Tail(tTxnDoneQueue) \in Seq({"status", "table"})
          /\ \A t \in Transactions :
                 Count(tTxnDoneQueue, t)
                     = Count(Tail(tTxnDoneQueue), t) + (IF Head(tTxnDoneQueue) = t THEN 1 ELSE 0)
          BY <1>1, <2>1, Taken DEF QueuesOK
    <3>2. Count(tTxnDoneQueue', "table") \in Nat
          BY <2>1, <3>1, PlacesFinite
    <3> QED BY <2>1, <3>1, <3>2 DEF Transactions
  <2> QED BY <2>1, <2>2, ReportKept DEF TableRead
<1> QED BY <1>4, <1>5, <1>6, <1>7, <1>8, <1>9, <1>10, <1>12, <1>13, <1>14, <1>15, <1>16,
           <1>17,
           <1>18, <1>19, <1>20, <1>21, <1>22, <1>23, <1>24, <1>25, <1>26, <1>27
        DEF Next, Task, Bus, Life

\* As long as each callback has been counted, every Tx result is reported once and
\* in the order in which the firmware posted it, for any size of the table and any
\* number of results and stops, whatever the callbacks "return" (txResult.c:305-436).
THEOREM ResultsAreInOrder == Spec => []CountedInOrder
<1>1. Init => IInv /\ WayInv /\ ReportInv
      BY InitIInv, InitWay, InitReport
<1>2. IInv /\ WayInv /\ ReportInv /\ [Next]_vars => IInv' /\ WayInv' /\ ReportInv'
      BY NextIInv, NextWay, NextReport
<1>3. ReportInv => CountedInOrder
  <2>1. ReportInv => DOMAIN reported = 1 .. Len(reported)
        BY DEF ReportInv, ReportTypes
  <2> QED BY <2>1 DEF ReportInv, AllCounted, CountedInOrder, ReportedInOrder
<1> QED BY <1>1, <1>2, <1>3, PTL DEF Spec

-----------------------------------------------------------------------------
(* The interrupts, from the firmware to the task.                          *)

\* The handler of FwEvent's client runs.
AtWork == {"handle", "event", "cmplt", "results", "complete"}

\* The state machine waits for a status that does not come.
Unheard == eSmState = "WAIT_INTR_INFO" /\ pc \notin AtWork /\ Statuses = 0

\* What tells the driver of an interrupt.
Noted == aClientPending["FW_EVENT"] \/ bIntrPending \/ Count(highQ, "status") # 0

\* An interrupt that is enabled is noted; and the state machine waits in vain only
\* for a read that was lost.
KnownInv ==
    /\ intrStatus \subseteq Events
    /\ phase = "init" => unmasked = InitMask /\ "DATA" \notin intrStatus
    /\ Unheard => readLost
    /\ phase \in {"init", "up"} /\ intrStatus \cap unmasked # {} /\ ~readLost => Noted

LEMMA InitKnown == Init => KnownInv
BY DEF Init, KnownInv, Unheard

\* The interrupts and FwEvent are not touched, nor the way of the status.
LEMMA KnownKept ==
    ASSUME KnownInv,
           UNCHANGED <<intrStatus, unmasked, readLost, eSmState, bIntrPending>>,
           aClientPending["FW_EVENT"] => aClientPending'["FW_EVENT"],
           phase' = phase \/ phase' \notin {"init", "up"},
           Count(highQ', "status") = Count(highQ, "status"), Statuses' = Statuses,
           pc \in AtWork <=> pc' \in AtWork
    PROVE  KnownInv'
<1>1. Unheard' = Unheard
      BY DEF Unheard
<1>2. Noted => Noted'
      BY <1>1 DEF Noted
<1> QED BY <1>1, <1>2 DEF KnownInv

\* What ends without its callback, while the state machine waits, is a lost read.
LEMMA ReadLost ==
    ASSUME KnownInv, QueuesOK, NEW b, Dropped(b), UNCHANGED eSmState,
           pc \in AtWork <=> pc' \in AtWork, Statuses' # 0 \/ b \/ Statuses = 0
    PROVE  (Unheard' => readLost') /\ (readLost => readLost')
BY DEF KnownInv, Unheard, Dropped

LEMMA NextKnown == IInv /\ WayInv /\ WayInv' /\ KnownInv /\ [Next]_vars => KnownInv'
<1> SUFFICES ASSUME IInv, WayInv, WayInv', KnownInv, [Next]_vars PROVE KnownInv'
    OBVIOUS
<1>1. QueuesOK /\ BusOK /\ LifeOK /\ StatusOK /\ QueuesOK' /\ StatusOK'
      BY DEF WayInv
<1>2. /\ aClientPending \in [Clients -> BOOLEAN] /\ "FW_EVENT" \in Clients
      /\ "TWIF" \in Clients /\ bIntrPending \in BOOLEAN
      /\ intrStatus \subseteq Events
      BY DEF IInv, ContextOK, OthersOK, Clients, KnownInv
<1>3. ASSUME UNCHANGED <<intrStatus, unmasked, readLost, eSmState, bIntrPending>>,
             aClientPending["FW_EVENT"] => aClientPending'["FW_EVENT"],
             phase' = phase \/ phase' \notin {"init", "up"},
             Still, pc \in AtWork <=> pc' \in AtWork
      PROVE  KnownInv'
  <2>1. Count(highQ', "status") = Count(highQ, "status") /\ Statuses' = Statuses
        BY <1>3, StillWay DEF Still
  <2> QED BY <1>3, <2>1, KnownKept
<1>4. CASE UNCHANGED vars
      BY <1>3, <1>4 DEF vars, context, task, fwEvent, queues, bus, firmware, life, Still
<1>5. CASE DriverTask \/ Skip \/ TaskEnd
      BY <1>3, <1>5 DEF DriverTask, Skip, TaskEnd, context, fwEvent, queues, bus, firmware,
           life, Still, AtWork
<1>6. CASE HandleEvents \/ EventHandled
      BY <1>3, <1>6 DEF HandleEvents, EventHandled, DataHandlers, context, fwEvent, queues,
                        firmware, life, Still, AtWork
<1>7. CASE EnableClient
      BY <1>3, <1>7 DEF EnableClient, task, fwEvent, queues, bus, firmware, life, Still
<1>8. CASE \E c \in Clients : OsRequestSchedule(c)
      BY <1>3, <1>8 DEF OsRequestSchedule, task, fwEvent, queues, bus, firmware, life, Still
<1>9. CASE HandleTxnDone
  <2>1. aClientPending'["FW_EVENT"] = aClientPending["FW_EVENT"]
        BY <1>2, <1>9 DEF HandleTxnDone, ClearPending
  <2>2. phase' = phase \/ phase' \notin {"init", "up"}
        BY <1>9 DEF HandleTxnDone
  <2> QED BY <1>3, <1>9, <2>1, <2>2 DEF HandleTxnDone, fwEvent, queues, firmware, Still,
               AtWork
\* The interrupts of the configuration are unmasked: none of them is raised before.
<1>10. CASE ConfigComplete
  <2>1. /\ UNCHANGED <<intrStatus, readLost, eSmState, bIntrPending, aClientPending, pc>> /\ Still
        /\ phase = "init" /\ phase' = "up" /\ unmasked' = Events
        BY <1>10 DEF ConfigComplete, context, task, queues, bus, Still
  <2>2. Unheard' = Unheard
        BY <2>1, StillWay DEF Unheard
  <2>3. Noted => Noted'
        BY <2>1, <2>2 DEF Noted, Still
  <2>4. intrStatus' \cap unmasked' # {} => intrStatus \cap unmasked # {}
        BY <1>2, <2>1 DEF KnownInv, InitMask, Events
  <2> QED BY <2>1, <2>2, <2>3, <2>4 DEF KnownInv
<1>11. CASE PowerOn \/ FinalizeDownload
  <2>1. /\ UNCHANGED <<readLost, eSmState, pc>> /\ Still
        /\ intrStatus' = {} /\ (phase' = "init" => unmasked' = InitMask)
        BY <1>11 DEF PowerOn, FinalizeDownload, FwReset, task, fwEvent, queues, bus, Still
  <2>2. Unheard' = Unheard
        BY <2>1, StillWay DEF Unheard
  <2> QED BY <2>1, <2>2 DEF KnownInv
<1>12. CASE Stop \/ EventStops
  <2>1. /\ UNCHANGED <<intrStatus, unmasked>>
        /\ phase' \notin {"init", "up"} /\ eSmState' = "IDLE"
        BY <1>12 DEF Stop, EventStops, StopActivities, FwEventStop, firmware
  <2> QED BY <1>2, <2>1 DEF KnownInv, Unheard
\* An interrupt: FwEvent's client is flagged, or one was signalled before.
<1>13. CASE FwPostsResult \/ FwRaisesEvent
  <2>1. /\ UNCHANGED <<readLost, eSmState, bIntrPending, unmasked, pc, phase>> /\ Still
        BY <1>13 DEF FwPostsResult, FwRaisesEvent, task, fwEvent, queues, bus, life, Still
  <2>2. Unheard' = Unheard
        BY <2>1, StillWay DEF Unheard
  <2>3. PICK b \in Events : Raise(b) /\ (b = "DATA" => phase = "up")
        BY <1>13 DEF FwPostsResult, FwRaisesEvent, Events
  <2>4. intrStatus' = intrStatus \cup {b}
        BY <2>3 DEF Raise
  <2>5. CASE aClientPending'["FW_EVENT"]
        BY <1>2, <2>1, <2>2, <2>3, <2>4, <2>5 DEF KnownInv, Noted
  <2>6. CASE ~aClientPending'["FW_EVENT"]
    <3>1. ~RequestSchedule("FW_EVENT")
          BY <1>2, <2>6 DEF RequestSchedule
    <3>2. /\ UNCHANGED aClientPending
          /\ intrStatus' \cap unmasked # {} => intrStatus \cap unmasked # {}
          BY <2>3, <2>4, <3>1 DEF Raise, context
    <3>3. Noted => Noted'
          BY <2>1, <2>2, <3>2 DEF Noted, Still
    <3> QED BY <1>2, <2>1, <2>2, <2>3, <2>4, <3>2, <3>3 DEF KnownInv
  <2> QED BY <2>5, <2>6
\* The status is read at once, and the interrupts are cleared, or the read waits.
<1>14. ASSUME ReadIntrInfo, UNCHANGED <<phase, readLost>>
       PROVE  KnownInv'
  <2>1. UNCHANGED unmasked
        BY <1>14 DEF ReadIntrInfo, Transact, Execute, firmware
  <2>4. CASE Off /\ BusFree
    <3>1. eSmState' = "IDLE" /\ UNCHANGED <<intrStatus, phase>> /\ phase \notin {"init", "up"}
          BY <1>14, <2>4 DEF ReadIntrInfo, FwEventStop, Off, firmware
    <3> QED BY <1>2, <2>1, <3>1 DEF KnownInv, Unheard
  <2>2. CASE ~Off /\ BusFree
    <3>1. pc' = "handle" /\ intrStatus' = {}
          BY <1>14, <2>2 DEF ReadIntrInfo, Transact, Execute
    <3> QED BY <1>2, <1>14, <2>1, <3>1 DEF KnownInv, Unheard, AtWork
  <2>3. CASE ~BusFree
    <3>1. UNCHANGED intrStatus /\ Queue("status") /\ "status" \in Transactions
          BY <1>14, <2>3 DEF ReadIntrInfo, Transact, Transactions, firmware
    <3>2. Count(highQ', "status") = Count(highQ, "status") + 1
          BY <1>1, <3>1, Queued
    <3>3. Count(highQ', "status") # 0
          BY <1>1, <3>2, CountsNat
    <3>4. /\ Count(txnDone', "status") \in Nat /\ Count(tTxnDoneQueue', "status") \in Nat
          /\ Count(highQ', "status") \in Nat
      <4>1. Count(txnDone', "status") \in Nat
            BY <1>1, PlacesFinite DEF QueuesOK
      <4>2. Count(tTxnDoneQueue', "status") \in Nat
            BY <1>1, PlacesFinite DEF QueuesOK
      <4>3. Count(highQ', "status") \in Nat
            BY <1>1, PlacesFinite DEF QueuesOK
      <4> QED BY <4>1, <4>2, <4>3
    <3>5. Statuses' # 0
          BY <3>3, <3>4 DEF Statuses
    <3> QED BY <1>2, <1>14, <2>1, <3>1, <3>3, <3>5 DEF KnownInv, Unheard, Noted
  <2> QED BY <2>2, <2>3, <2>4
<1>15. CASE NewEvent
  <2>1. UNCHANGED <<phase, readLost, txnDone, tTxnDoneQueue>> /\ pc = "scan"
        BY <1>15 DEF NewEvent, life, bus
  <2>2. CASE eSmState = "IDLE"
        BY <1>14, <1>15, <2>1, <2>2 DEF NewEvent
  <2>3. CASE eSmState # "IDLE"
    <3>1. /\ UNCHANGED <<eSmState, intrStatus, unmasked>> /\ Still /\ bIntrPending'
          /\ pc' \in {"done", "scan"}
          BY <1>15, <2>1, <2>3 DEF NewEvent, queues, firmware, Still, Return
    <3>2. Unheard' = Unheard
          BY <2>1, <3>1, StillWay DEF Unheard, AtWork
    <3> QED BY <1>2, <2>1, <3>1, <3>2 DEF KnownInv, Noted
  <2> QED BY <2>2, <2>3
<1>16. CASE Complete
  <2>1. UNCHANGED <<phase, readLost, txnDone, tTxnDoneQueue, aClientPending>> /\ pc = "complete"
        BY <1>16 DEF Complete, life, bus, context
  <2>2. CASE bIntrPending
        BY <1>14, <1>16, <2>1, <2>2 DEF Complete
  <2>4. CASE ~bIntrPending
    <3>1. /\ UNCHANGED <<intrStatus, unmasked, highQ>> /\ eSmState' = "IDLE"
          BY <1>16, <2>4 DEF Complete, queues, firmware
    <3>2. ~Unheard /\ ~Unheard'
          BY <2>1, <3>1 DEF Unheard, AtWork
    <3>3. Noted => Noted'
          BY <2>1, <2>4, <3>1, <3>2 DEF Noted
    <3> QED BY <1>2, <2>1, <3>1, <3>2, <3>3 DEF KnownInv
  <2> QED BY <2>2, <2>4
<1>17. CASE StatusDone
  <2>1. /\ UNCHANGED <<phase, readLost, txnDone, aClientPending>> /\ pc = "done"
        /\ tTxnDoneQueue # <<>> /\ Head(tTxnDoneQueue) = "status"
        /\ tTxnDoneQueue' = Tail(tTxnDoneQueue)
        BY <1>17 DEF StatusDone, Done, life, context
  <2>2. Statuses # 0
    <3>1. \A t \in Transactions :
              Count(tTxnDoneQueue, t) = Count(Tail(tTxnDoneQueue), t) + (IF "status" = t THEN 1 ELSE 0)
          BY <1>1, <2>1, Taken DEF QueuesOK
    <3>2. Count(Tail(tTxnDoneQueue), "status") \in Nat
          BY <1>1, <2>1, PlacesFinite DEF QueuesOK
    <3>3. Count(tTxnDoneQueue, "status") # 0
          BY <3>1, <3>2 DEF Transactions
    <3> QED BY <1>1, <3>3, CountsNat DEF Statuses
  <2>3. CASE eSmState # "IDLE"
    <3>1. /\ UNCHANGED <<intrStatus, unmasked, highQ, bIntrPending>> /\ pc' = "handle"
          BY <1>17, <2>3 DEF StatusDone, fwEvent, queues, firmware
    <3>2. ~Unheard /\ ~Unheard'
          BY <2>1, <2>2, <3>1 DEF Unheard, AtWork
    <3>3. Noted => Noted'
          BY <2>1, <3>1, <3>2 DEF Noted
    <3> QED BY <1>2, <2>1, <3>1, <3>2, <3>3 DEF KnownInv
  <2>4. CASE eSmState = "IDLE"
    <3>1. ReadIntrInfo
          BY <1>17, <2>4 DEF StatusDone
    <3> QED BY <1>14, <2>1, <3>1
  <2> QED BY <2>3, <2>4
\* The other transactions pass.
<1>18. CASE TxCmpltIntrCb
  <2>1. UNCHANGED <<aClientPending, phase, readLost, eSmState, bIntrPending, intrStatus,
                    unmasked, highQ>>
        /\ pc \in AtWork /\ pc' \in AtWork
        BY <1>18 DEF bus, TxCmpltIntrCb, ReadTable, Queue, context, fwEvent, queues, firmware,
             life, AtWork
  <2> QED BY <1>18, <2>1, TxCmpltIntrCbWay, KnownKept
<1>19. ASSUME HandleNewResults
       PROVE  UNCHANGED <<intrStatus, unmasked, highQ>>
       BY <1>19 DEF HandleNewResults, WriteCounter, Queue, queues, firmware
<1>20. CASE ResultsRead
  <2>1. UNCHANGED <<aClientPending, phase, readLost, eSmState, bIntrPending, intrStatus,
                    unmasked, highQ>>
        /\ pc \in AtWork /\ pc' \in AtWork
        BY <1>1, <1>19, <1>20 DEF bus, ResultsRead, context, fwEvent, life, AtWork, LifeOK
  <2> QED BY <1>20, <2>1, ResultsReadWay, KnownKept
<1>21. CASE TableDone
  <2>1. UNCHANGED <<aClientPending, phase, readLost, eSmState, bIntrPending, intrStatus,
                    unmasked, highQ>>
        /\ pc \notin AtWork /\ pc' \notin AtWork
    <3>1. UNCHANGED <<intrStatus, unmasked, highQ>>
          BY <1>19, <1>21 DEF TableDone, ReadTable, Queue, queues, firmware
    <3> QED BY <1>21, <3>1 DEF TableDone, Done, ReadTable, context, fwEvent, life, AtWork
  <2> QED BY <1>21, <2>1, TableDoneWay, KnownKept
<1>22. CASE OtherTxn
  <2>1. UNCHANGED <<aClientPending, phase, readLost, eSmState, bIntrPending, intrStatus,
                    unmasked, highQ, pc>>
        BY <1>22 DEF bus, OtherTxn, Queue, context, fwEvent, queues, firmware, life, task
  <2> QED BY <1>22, <2>1, OtherTxnWay, KnownKept
<1>23. CASE BusTxnDone
  <2>1. UNCHANGED <<aClientPending, phase, readLost, eSmState, bIntrPending, intrStatus,
                    unmasked, highQ, pc>>
        BY <1>23 DEF BusTxnDone, context, queues, fwEvent, firmware, life, task
  <2> QED BY <1>23, <2>1, BusTxnDoneWay, KnownKept
<1>24. CASE BusPost
  <2>1. UNCHANGED <<phase, readLost, eSmState, bIntrPending, intrStatus,
                    unmasked, highQ, pc>>
        BY <1>24 DEF BusPost, fwEvent, queues, firmware, life, task
  <2>2. aClientPending["FW_EVENT"] => aClientPending'["FW_EVENT"]
        BY <1>2, <1>24 DEF BusPost, RequestSchedule
  <2> QED BY <1>24, <2>1, <2>2, BusPostWay, KnownKept
<1>25. CASE BusSend
  <2>1. UNCHANGED <<phase, readLost, eSmState, bIntrPending, aClientPending, pc>>
        BY <1>25 DEF BusSend, fwEvent, life, task, context
  <2>2. Unheard' = Unheard
        BY <1>25, <2>1, BusSendWay DEF Unheard
  <2>3. CASE highQ # <<>> /\ Sent(Head(highQ))
    <3>1. Head(highQ) = "status"
          BY <1>1, <2>3 DEF QueuesOK
    <3>2. CASE Off
      <4>1. UNCHANGED <<intrStatus, unmasked>> /\ phase' \notin {"init", "up"}
            BY <2>1, <2>3, <3>2 DEF Sent, Off, firmware
      <4> QED BY <1>2, <2>1, <2>2, <4>1 DEF KnownInv
    <3>3. CASE ~Off
      <4>1. intrStatus' = {} /\ UNCHANGED unmasked
            BY <2>3, <3>1, <3>3 DEF Sent, Execute
      <4> QED BY <2>1, <2>2, <4>1 DEF KnownInv
    <3> QED BY <3>2, <3>3
  <2>4. CASE lowQ # <<>> /\ UNCHANGED highQ /\ (UNCHANGED firmware \/ Sent(Head(lowQ)))
    <3>0. lowQ \in Seq({"table", "counter", "other"}) /\ lowQ # <<>>
          BY <1>1, <2>4 DEF QueuesOK
    <3>1. Head(lowQ) \in {"table", "counter", "other"}
          BY <3>0, Taken
    <3>2. UNCHANGED <<intrStatus, unmasked>>
          BY <2>4, <3>1 DEF Sent, Execute, firmware
    <3> QED BY <1>25, <2>1, <2>4, <3>2, BusSendWay, KnownKept
  <2>5. CASE UNCHANGED <<queues, firmware>>
    <3>1. UNCHANGED <<intrStatus, unmasked, highQ>>
          BY <2>5 DEF queues, firmware
    <3> QED BY <1>25, <2>1, <3>1, BusSendWay, KnownKept
  <2> QED BY <1>25, <2>3, <2>4, <2>5 DEF BusSend
\* The queues are cleared, perhaps of the read for which the state machine waits.
<1>26. CASE BusRecovery \/ PendRestartTimeout
  <2>1. /\ UNCHANGED <<eSmState, bIntrPending, intrStatus, unmasked, pc, txnDone, tTxnDoneQueue>>
        /\ aClientPending["FW_EVENT"] => aClientPending'["FW_EVENT"]
        /\ highQ' = <<>> /\ Dropped(\E i \in DOMAIN highQ : highQ[i] = "status")
        /\ phase' \notin {"init", "up"}
    <3>1. UNCHANGED <<eSmState, bIntrPending, intrStatus, unmasked, pc, txnDone, tTxnDoneQueue>>
          /\ highQ' = <<>> /\ Dropped(\E i \in DOMAIN highQ : highQ[i] = "status")
          BY <1>26 DEF BusRecovery, PendRestartTimeout, ClearQueues, fwEvent, firmware, task
    <3>2. aClientPending["FW_EVENT"] => aClientPending'["FW_EVENT"]
          BY <1>2, <1>26 DEF BusRecovery, PendRestartTimeout, RequestSchedule, context
    <3>3. phase' \notin {"init", "up"}
          BY <1>1, <1>26 DEF BusRecovery, PendRestartTimeout, LifeOK, life
    <3> QED BY <3>1, <3>2, <3>3
  <2>2. Statuses' # 0 \/ (\E i \in DOMAIN highQ : highQ[i] = "status") \/ Statuses = 0
    <3>1. Count(highQ, "status") # 0 => \E i \in DOMAIN highQ : highQ[i] = "status"
          BY <1>1, PlacesFinite DEF QueuesOK
    <3>2. Count(highQ, "status") = 0 => Statuses' = Statuses
          BY <1>1, <2>1, CountsNat, NoneLeft DEF Statuses
    <3> QED BY <3>1, <3>2
  <2>3. Unheard' => readLost'
        BY <1>1, <2>1, <2>2, ReadLost
  <2> QED BY <1>2, <2>1, <2>3 DEF KnownInv
<1>27. CASE FailedDone
  <2>1. /\ UNCHANGED <<eSmState, bIntrPending, intrStatus, unmasked, phase, aClientPending,
                       highQ, txnDone>>
        /\ tTxnDoneQueue # <<>> /\ tTxnDoneQueue' = Tail(tTxnDoneQueue)
        /\ Dropped(Head(tTxnDoneQueue) = "status") /\ pc = "done" /\ pc' = "scan"
        BY <1>27 DEF FailedDone, fwEvent, firmware, context, queues, life
  <2>2. Head(tTxnDoneQueue) # "status" => Statuses' = Statuses
    <3>1. /\ Tail(tTxnDoneQueue) \in Seq({"status", "table"})
          /\ \A t \in Transactions :
                 Count(tTxnDoneQueue, t)
                     = Count(Tail(tTxnDoneQueue), t) + (IF Head(tTxnDoneQueue) = t THEN 1 ELSE 0)
          BY <1>1, <2>1, Taken DEF QueuesOK
    <3>2. Count(tTxnDoneQueue', "status") \in Nat
          BY <2>1, <3>1, PlacesFinite
    <3>3. Head(tTxnDoneQueue) # "status" =>
              Count(tTxnDoneQueue', "status") = Count(tTxnDoneQueue, "status")
          BY <2>1, <3>1, <3>2 DEF Transactions
    <3> QED BY <2>1, <3>3 DEF Statuses
  <2>3. (Unheard' => readLost') /\ (readLost => readLost')
    <3>1. pc \in AtWork <=> pc' \in AtWork
          BY <2>1 DEF AtWork
    <3> QED BY <1>1, <2>1, <2>2, <3>1, ReadLost
  <2> QED BY <1>2, <2>1, <2>3 DEF KnownInv, Noted
<1> QED BY <1>4, <1>5, <1>6, <1>7, <1>8, <1>9, <1>10, <1>11, <1>12, <1>13, <1>15, <1>16,
           <1>17, <1>18, <1>20, <1>21, <1>22, <1>23, <1>24, <1>25, <1>26, <1>27
        DEF Next, Task, Bus, Life

\* While the driver is up, an unmasked interrupt that the firmware holds is known to
\* the driver, for any number of results and stops, unless a read of the status for
\* which the state machine waited has ended without its callback (FwEvent.c:323-340,
\* 356-446, context.c:272-350).
THEOREM InterruptsAreKnown == Spec => []InterruptKnown
<1>1. Init => IInv /\ WayInv /\ KnownInv
      BY InitIInv, InitWay, InitKnown
<1>2. IInv /\ WayInv /\ KnownInv /\ [Next]_vars => IInv' /\ WayInv' /\ KnownInv'
      BY NextIInv, NextWay, NextKnown
<1>3. IInv /\ WayInv /\ KnownInv => InterruptKnown
  <2> SUFFICES ASSUME IInv, WayInv, KnownInv, phase = "up", intrStatus \cap unmasked # {},
                      ~readLost
               PROVE  Known
      BY DEF InterruptKnown
  <2>1. Noted /\ ~Unheard
        BY DEF KnownInv
  <2>2. QueuesOK
        BY DEF WayInv
  <2>3. Unheard <=> Deaf
        BY <2>2, TimesCounted DEF Unheard, Deaf, AtWork
  <2>4. Count(highQ, "status") # 0 => \E i \in DOMAIN highQ : highQ[i] = "status"
        BY <2>2, PlacesFinite DEF QueuesOK
  <2> QED BY <2>1, <2>3, <2>4 DEF Noted, Known
<1> QED BY <1>1, <1>2, <1>3, PTL DEF Spec

=============================================================================
