--------------------------- MODULE TxMgmtQ_proofs ---------------------------
(***************************************************************************)
(* Proofs of the safety properties of TxMgmtQ, for any depth of the        *)
(* queues.  The properties follow from what the state machine's state says *)
(* of the connection, of the port and of the queues: none of the nested    *)
(* calls sees them disagree.                                               *)
(***************************************************************************)
EXTENDS TxMgmtQ, TLAPS

USE DepthAssumption

\* The state machine's state and the connection's.
SmFollowsConn ==
    IF eSmState \in {"OPEN_MGMT", "OPEN_DATA"}
    THEN eTxConnState = "OPEN"
    ELSE eTxConnState = eSmState

\* The port and the state machine's state.
PortFollowsSm ==
    /\ muxData <=> eSmState = "OPEN_DATA"
    /\ bMgmtPortEnable <=> ~txSuspended /\ ~muxData
    /\ bDataPortEnable <=> ~txSuspended /\ muxData

\* The queues the state machine has enabled.
EnabledFollowsSm ==
    aQueueEnabledBySM = CASE eSmState \in {"CLOSE", "OPEN_DATA"} -> {}
                          [] eSmState = "MGMT" -> {"MGMT"}
                          [] OTHER -> Queues

\* A packet is sent from an enabled queue.
SentIsEnabled == pc = "xmit" => uQueId \in aQueueEnabledBySM

\* In OPEN_DATA the state machine has yet to see what is in the queues.
SeenInData ==
    eSmState = "OPEN_DATA" =>
        /\ aQueues["MGMT"] > 0 => pc = "event"
        /\ aQueues["EAPOL"] > 0 => txMgmtPending

IInv == /\ TypeOK /\ SmFollowsConn /\ PortFollowsSm /\ EnabledFollowsSm
        /\ SentIsEnabled /\ SeenInData

LEMMA InitIInv == Init => IInv
<1> SUFFICES ASSUME Init PROVE IInv
    OBVIOUS
<1>1. TypeOK
  <2>1. aQueues \in [Queues -> 0 .. MGMT_QUEUES_DEPTH]
        BY DEF Init
  <2>2. aQueueEnabledBySM \subseteq Queues /\ uQueId \in Queues
        BY DEF Init, Queues
  <2>3. /\ aQueueBusy \in BOOLEAN /\ muxData \in BOOLEAN /\ txSuspended \in BOOLEAN
        /\ bMgmtPortEnable \in BOOLEAN /\ bDataPortEnable \in BOOLEAN
        /\ txMgmtPending \in BOOLEAN /\ busyAc \in BOOLEAN /\ hwBusy \in BOOLEAN
        /\ notFromSm \in BOOLEAN /\ restarted \in BOOLEAN
        BY DEF Init
  <2> QED BY <2>1, <2>2, <2>3 DEF Init, TypeOK
<1>2. SmFollowsConn /\ PortFollowsSm /\ SentIsEnabled /\ SeenInData
      BY DEF Init, SmFollowsConn, PortFollowsSm, SentIsEnabled, SeenInData
<1>3. EnabledFollowsSm
      BY DEF Init, EnabledFollowsSm
<1> QED BY <1>1, <1>2, <1>3 DEF IInv

\* The one way into OPEN_DATA, from SM_EVENT_OPEN and SM_EVENT_QUEUES_EMPTY.
LEMMA ToOpenData ==
    ASSUME IInv, AllEmpty, EnableData, eTxConnState' = "OPEN",
           eSmState' = "OPEN_DATA", aQueueEnabledBySM' = {},
           UNCHANGED <<aQueues, aQueueBusy, txMgmtPending, hw, life>>
    PROVE  IInv'
<1> USE DEF EnableData, UpdateQueuesStates, RunSchedulerNotFromSm, Return
<1>1. /\ muxData' = TRUE /\ txSuspended' = txSuspended /\ bMgmtPortEnable' = FALSE
      /\ bDataPortEnable' = ~txSuspended
      BY DEF IInv, TypeOK
<1>2. pc' = "idle" /\ uQueId' = "MGMT" /\ notFromSm' = FALSE
      OBVIOUS
<1>3. TypeOK'
      BY <1>1, <1>2 DEF IInv, TypeOK, Queues, hw, life
<1>4. SmFollowsConn' /\ SentIsEnabled'
      BY <1>2 DEF SmFollowsConn, SentIsEnabled
<1>5. PortFollowsSm'
  <2>1. muxData' <=> eSmState' = "OPEN_DATA"
        BY <1>1
  <2>2. (bMgmtPortEnable' <=> ~txSuspended' /\ ~muxData')
        BY <1>1
  <2>3. (bDataPortEnable' <=> ~txSuspended' /\ muxData')
    <3>1. CASE txSuspended = TRUE
          BY <1>1, <3>1
    <3>2. CASE txSuspended = FALSE
          BY <1>1, <3>2
    <3> QED BY <3>1, <3>2 DEF IInv, TypeOK
  <2> QED BY <2>1, <2>2, <2>3, Zenon DEF PortFollowsSm
<1>6. SeenInData'
      BY DEF SeenInData, AllEmpty, Queues
<1>7. EnabledFollowsSm'
      BY DEF EnabledFollowsSm
<1> QED BY <1>3, <1>4, <1>5, <1>6, <1>7 DEF IInv

\* The connection is taken back or goes on to the handshake: the port is left to the
\* management queues, and the scheduler begins with the first.
LEMMA ToMgmt ==
    ASSUME IInv, eSmState' \in {"CLOSE", "MGMT", "EAPOL"}, eTxConnState' = eSmState',
           aQueueEnabledBySM' = (CASE eSmState' = "CLOSE" -> {}
                                   [] eSmState' = "MGMT"  -> {"MGMT"}
                                   [] eSmState' = "EAPOL" -> Queues),
           \/ EnableMgmt
           \/ eSmState # "OPEN_DATA" /\ Return /\ UNCHANGED port
           \/ eSmState # "OPEN_DATA" /\ RunScheduler(FALSE) /\ UNCHANGED port,
           UNCHANGED <<aQueues, aQueueBusy, txMgmtPending, hw, life>>
    PROVE  IInv'
<1>1. /\ muxData' = FALSE /\ txSuspended' = txSuspended
      /\ bMgmtPortEnable' \in BOOLEAN /\ bDataPortEnable' \in BOOLEAN
      /\ bMgmtPortEnable' <=> ~txSuspended
      /\ ~bDataPortEnable'
  <2>1. CASE EnableMgmt
        BY <2>1 DEF EnableMgmt, UpdateQueuesStates, IInv, TypeOK
  <2>2. CASE eSmState # "OPEN_DATA" /\ UNCHANGED port
        BY <2>2 DEF port, IInv, TypeOK, PortFollowsSm
  <2> QED BY <2>1, <2>2
<1>2. pc' \in {"idle", "sched"} /\ uQueId' = "MGMT" /\ notFromSm' \in BOOLEAN
      BY DEF EnableMgmt, UpdateQueuesStates, RunSchedulerNotFromSm, RunScheduler, Return
<1>3. aQueueEnabledBySM' \subseteq Queues
      BY DEF Queues
<1>4. TypeOK'
      BY <1>1, <1>2, <1>3 DEF IInv, TypeOK, Queues, hw, life
<1>5. SmFollowsConn' /\ SentIsEnabled' /\ SeenInData'
      BY <1>2 DEF SmFollowsConn, SentIsEnabled, SeenInData
<1>6. PortFollowsSm'
      BY <1>1 DEF PortFollowsSm
<1>7. EnabledFollowsSm'
      BY DEF EnabledFollowsSm
<1> QED BY <1>4, <1>5, <1>6, <1>7 DEF IInv

\* The driver context goes on, and neither the state machine nor the port changes.
LEMMA Kept ==
    ASSUME IInv, UNCHANGED <<sm, port, eTxConnState, aQueues, life>>,
           aQueueBusy' \in BOOLEAN, busyAc' \in BOOLEAN, hwBusy' \in BOOLEAN,
           txMgmtPending' \in BOOLEAN,
           pc' \in {"idle", "sched", "check"}, uQueId' \in Queues,
           notFromSm' \in BOOLEAN,
           eSmState = "OPEN_DATA" =>
               pc # "event" /\ txMgmtPending' = txMgmtPending
    PROVE  IInv'
<1>1. TypeOK'
      BY DEF IInv, TypeOK, sm, port, life
<1>2. SmFollowsConn' /\ SentIsEnabled' /\ EnabledFollowsSm'
      BY DEF IInv, SmFollowsConn, SentIsEnabled, EnabledFollowsSm, sm
<1>3. PortFollowsSm'
      BY DEF IInv, PortFollowsSm, sm, port
<1>4. SeenInData'
      BY DEF IInv, SeenInData, sm
<1> QED BY <1>1, <1>2, <1>3, <1>4 DEF IInv

LEMMA NextIInv == IInv /\ [Next]_vars => IInv'
<1> SUFFICES ASSUME IInv, [Next]_vars PROVE IInv'
    OBVIOUS
<1> USE DEF IInv, TypeOK, SmFollowsConn, PortFollowsSm, EnabledFollowsSm,
            SentIsEnabled, SeenInData, Queues, sm, port, hw, life, driver
<1> USE DEF Return, RunScheduler, RunSchedulerNotFromSm, UpdateQueuesStates,
            EnableData, EnableMgmt, AllEmpty
<1>1. ASSUME NEW s \in {"CLOSE", "MGMT", "EAPOL", "OPEN"}, SetConnState(s)
      PROVE  IInv'
  <2>1. CASE s = "CLOSE"
        BY <1>1, <2>1, ToMgmt DEF SetConnState, SmClose
  <2>2. CASE s = "MGMT"
        BY <1>1, <2>2, ToMgmt DEF SetConnState, SmMgmt
  <2>3. CASE s = "EAPOL"
    <3>1. eSmState # "OPEN_DATA"
          BY <1>1, <2>3 DEF SetConnState, NextConnStates
    <3> QED BY <1>1, <2>3, <3>1, ToMgmt DEF SetConnState, SmEapol
  <2>4. CASE s = "OPEN"
    <3>1. eTxConnState = "EAPOL" /\ eSmState = "EAPOL" /\ pc = "idle"
          BY <1>1, <2>4 DEF SetConnState, NextConnStates
    <3>2. CASE AllEmpty
          BY <1>1, <2>4, <3>1, <3>2, ToOpenData DEF SetConnState, SmOpen
    <3>3. CASE ~AllEmpty
          BY <1>1, <2>4, <3>1, <3>3 DEF SetConnState, SmOpen
    <3> QED BY <3>2, <3>3
  <2> QED BY <1>1, <2>1, <2>2, <2>3, <2>4
<1>2. CASE Xmit
      BY <1>2 DEF Xmit
<1>3. CASE XmitExternal
      BY <1>3 DEF XmitExternal
<1>4. CASE QueueWasEmpty
  <2>1. CASE eSmState = "OPEN_DATA" /\ txSuspended
        BY <1>4, <2>1 DEF QueueWasEmpty, SmQueuesNotEmpty
  <2>2. CASE eSmState = "OPEN_DATA" /\ ~txSuspended
        BY <1>4, <2>2 DEF QueueWasEmpty, SmQueuesNotEmpty
  <2>3. CASE eSmState # "OPEN_DATA"
        BY <1>4, <2>3, Kept DEF QueueWasEmpty, SmQueuesNotEmpty
  <2> QED BY <2>1, <2>2, <2>3
<1>5. CASE Dequeue
      BY <1>5 DEF Dequeue, Sendable
<1>6. CASE NextQueue
      BY <1>6 DEF NextQueue
<1>7. CASE SchedExit
  <2>1. CASE notFromSm
        BY <1>7, <2>1, Kept DEF SchedExit
  <2>2. CASE ~notFromSm
        BY <1>7, <2>2, Kept DEF SchedExit
  <2> QED BY <2>1, <2>2
<1>8. CASE CheckEmpty
  <2>1. CASE AllEmpty /\ eSmState = "OPEN_MGMT"
        BY <1>8, <2>1, ToOpenData DEF CheckEmpty, SmQueuesEmpty
  <2>2. CASE ~(AllEmpty /\ eSmState = "OPEN_MGMT")
    <3>1. Return /\ UNCHANGED <<sm, port, eTxConnState, aQueues, aQueueBusy,
                                txMgmtPending, hw, life>>
          BY <1>8, <2>2 DEF CheckEmpty, SmQueuesEmpty
    <3> QED BY <1>8, <3>1, Kept DEF CheckEmpty
  <2> QED BY <2>1, <2>2
<1>9. ASSUME NEW stop \in BOOLEAN, XmitSent(stop) PROVE IInv'
      BY <1>9 DEF XmitSent
<1>10. CASE XmitBusy
      BY <1>10 DEF XmitBusy
<1>11. CASE QueuesNotEmpty
  <2>1. CASE eSmState = "OPEN_DATA" /\ txSuspended
        BY <1>11, <2>1 DEF QueuesNotEmpty, SmQueuesNotEmpty
  <2>2. CASE eSmState = "OPEN_DATA" /\ ~txSuspended
        BY <1>11, <2>2 DEF QueuesNotEmpty, SmQueuesNotEmpty
  <2>3. CASE eSmState # "OPEN_DATA"
        BY <1>11, <2>3, Kept DEF QueuesNotEmpty, SmQueuesNotEmpty
  <2> QED BY <2>1, <2>2, <2>3
<1>12. CASE DataFillsAc
      BY <1>12 DEF DataFillsAc
<1>13. CASE Release
      BY <1>13 DEF Release
<1>14. CASE UpdateBusyMap
  <2>1. CASE AllEmpty
        BY <1>14, <2>1, Kept DEF UpdateBusyMap
  <2>2. CASE ~AllEmpty
        BY <1>14, <2>2, Kept DEF UpdateBusyMap
  <2> QED BY <2>1, <2>2
<1>15. CASE SuspendTx
      BY <1>15 DEF SuspendTx
<1>16. CASE ResumeTx
      BY <1>16 DEF ResumeTx
<1>17. CASE ClearQueues
      BY <1>17 DEF ClearQueues
<1>18. CASE UNCHANGED vars
      BY <1>18 DEF vars
<1> QED BY <1>1, <1>2, <1>3, <1>4, <1>5, <1>6, <1>7, <1>8, <1>9, <1>10, <1>11,
           <1>12, <1>13, <1>14, <1>15, <1>16, <1>17, <1>18
        DEF Next, Clients, Scheduler, Environment

LEMMA Invariance == Spec => []IInv
BY InitIInv, NextIInv, PTL DEF Spec

\* Every reachable state of the queues, the port and the driver context that goes
\* through them is well typed: no queue exceeds its depth.
THEOREM TypeCorrect == Spec => []TypeOK
BY Invariance, PTL DEF IInv

\* The port follows the connection through all nested calls, for any depth of the
\* queues and any suspension.
THEOREM PortIsPermitted == Spec => []PortFollowsConn
<1>1. IInv => PortFollowsConn
      BY DEF IInv, TypeOK, SmFollowsConn, PortFollowsSm, PortFollowsConn
<1> QED BY <1>1, Invariance, PTL

\* No packet leaves before the connection permits packets of its kind.
THEOREM SentArePermitted == Spec => []SentIsPermitted
<1>1. IInv => SentIsPermitted
      BY DEF IInv, TypeOK, SmFollowsConn, EnabledFollowsSm, SentIsEnabled,
             SentIsPermitted, Queues
<1> QED BY <1>1, Invariance, PTL

\* While data flows no management packet waits unseen.
THEOREM MgmtGoesFirst == Spec => []MgmtFirst
<1>1. IInv => MgmtFirst
      BY DEF IInv, TypeOK, PortFollowsSm, SeenInData, MgmtFirst
<1> QED BY <1>1, Invariance, PTL
=============================================================================
