--------------------------- MODULE DrvMain_proofs ---------------------------
(***************************************************************************)
(* Proofs about DrvMain, for any number of actions, failures and recovery  *)
(* attempts, and whatever fails: when interrupts and commands reach the    *)
(* driver, that the modules agree when it is operational, when actions     *)
(* reach the SM, that the driver fails only for a cause outside of it,     *)
(* that the device is powered as long as the TWD is at work, and that      *)
(* signal objects are set for actions that still wait.                     *)
(***************************************************************************)
EXTENDS DrvMain, TLAPS

USE ActionsAssumption, BoundsAssumption
USE DEF sm, rec, queue, user, signal, below, health, Quiet, Handles

-----------------------------------------------------------------------------
(* External inputs.                                                        *)

\* The states in which the device must be on.
OnStates ==
    {"WAIT_NVS_FILE", "HW_INIT", "DOWNLOAD_FW_FILE", "WAIT_FW_FILE", "FW_INIT",
     "FW_CONFIG", "OPERATIONAL", "DISCONNECTING"}

\* InputsOffWhenDown is inductive with the power of the init states, in which
\* the inputs are still off.
InputInv ==
    /\ inputs # {} => eSmState \in {"FW_CONFIG", "OPERATIONAL", "DISCONNECTING"}
    /\ eSmState \in OnStates => powered

LEMMA InputInvSm == InputInv /\ Sm => InputInv'
<1> SUFFICES ASSUME InputInv, Sm PROVE InputInv'
  OBVIOUS
<1> USE DEF InputInv, OnStates
<1>1. CASE SmIdle
  BY <1>1 DEF SmIdle, GetFile
<1>2. CASE SmWaitIniFile
  BY <1>2 DEF SmWaitIniFile, GetFile
<1>3. CASE SmWaitNvsFile
  BY <1>3 DEF SmWaitNvsFile
<1>4. CASE SmConnectFails
  BY <1>4 DEF SmConnectFails, Fail, StopActivities
<1>5. CASE SmHwInit
  BY <1>5 DEF SmHwInit, GetFwFile, GetFile, Fail, StopActivities
<1>6. CASE SmDownloadFwFile
  BY <1>6 DEF SmDownloadFwFile, Fail, StopActivities
<1>7. CASE SmWaitFwFile
  BY <1>7 DEF SmWaitFwFile, GetFwFile, GetFile, Fail, StopActivities
<1>8. CASE SmFwInit
  BY <1>8 DEF SmFwInit
<1>9. CASE SmFwConfig
  BY <1>9 DEF SmFwConfig
<1>10. CASE SmStop
  BY <1>10 DEF SmStop
<1>11. CASE SmRecovery
  BY <1>11 DEF SmRecovery, StopThen, Fail, StopActivities
<1>12. CASE SmDisconnecting
  BY <1>12 DEF SmDisconnecting, StopThen, StopActivities
<1>13. CASE SmStoppingRecovery
  BY <1>13 DEF SmStoppingRecovery, GetFile
<1>14. CASE SmStopping
  BY <1>14 DEF SmStopping
<1>15. CASE SmStopped
  BY <1>15 DEF SmStopped, GetFile
<1>16. CASE SmStoppedOther
  BY <1>16 DEF SmStoppedOther, Fail, StopActivities
<1>17. CASE SmStoppingOnFail
  BY <1>17 DEF SmStoppingOnFail, StopThen, StopActivities
<1>18. CASE SmFailed
  BY <1>18 DEF SmFailed
<1>19. CASE SmUnexpected
  BY <1>19 DEF SmUnexpected, Fail, StopActivities
<1> QED
  BY <1>1, <1>2, <1>3, <1>4, <1>5, <1>6, <1>7, <1>8, <1>9, <1>10, <1>11, <1>12,
     <1>13, <1>14, <1>15, <1>16, <1>17, <1>18, <1>19 DEF Sm

\* Outside the SM neither its state nor inputs and power change.
LEMMA OutsideSm ==
    [Next]_vars => Sm \/ UNCHANGED <<eSmState, inputs, powered, actionEnabled>>
<1> SUFFICES ASSUME [Next]_vars, ~Sm
             PROVE  UNCHANGED <<eSmState, inputs, powered, actionEnabled>>
  OBVIOUS
<1>1. CASE Callback
  BY <1>1 DEF Callback, InitHwCb, InitFwCb, ConfigFwCb, InitFailCb, TwdStopCb,
              TwdStopCbIgnored, SmeStop, Complete, SmEvent
<1>2. CASE (\E a \in Actions : InsertAction(a)) \/ WaitReturns
  BY <1>2 DEF InsertAction, WaitReturns
<1>3. CASE IgnoreAction \/ InvokeAction
  BY <1>3 DEF IgnoreAction, InvokeAction, SmEvent
<1>4. CASE SendFailureEvent \/ GetExpiry \/ HandleExpiry
  BY <1>4 DEF SendFailureEvent, GetExpiry, HandleExpiry, SmEvent
<1>5. CASE UNCHANGED vars
  BY <1>5 DEF vars
<1> QED
  BY <1>1, <1>2, <1>3, <1>4, <1>5 DEF Next

\* Interrupts and commands reach the driver only with the device on, and only
\* from FW_INIT to the stop, whatever step fails or whoever raises failures.
THEOREM InputsAreOff == Spec => []InputsOffWhenDown
<1>1. Init => InputInv
  BY DEF Init, InputInv, OnStates
<1>2. InputInv /\ [Next]_vars => InputInv'
  BY InputInvSm, OutsideSm DEF InputInv, OnStates
<1>3. InputInv => InputsOffWhenDown
  BY DEF InputInv, OnStates, InputsOffWhenDown
<1> QED
  BY <1>1, <1>2, <1>3, PTL DEF Spec

-----------------------------------------------------------------------------
(* The operational state.                                                  *)

\* The states of a START or of the init of a recovery.
InitStates ==
    {"WAIT_INI_FILE", "WAIT_NVS_FILE", "HW_INIT", "DOWNLOAD_FW_FILE",
     "WAIT_FW_FILE", "FW_INIT", "FW_CONFIG"}

\* The event that ends an operation of the TWD is stored.
TwdCompleted ==
    /\ ~Quiet
    /\ \/ eSmState = "HW_INIT" /\ ePendingEvent = "HW_INIT_COMPLETE"
       \/ eSmState \in {"WAIT_FW_FILE", "FW_INIT"} /\ ePendingEvent = "FW_INIT_COMPLETE"
       \/ eSmState = "FW_CONFIG" /\ ePendingEvent = "FW_CONFIG_COMPLETE"
       \/ eSmState = "STOPPING" /\ ePendingEvent = "STOP_COMPLETE"

\* The TWD is at work only in the states that await its completion, and until it
\* is stored; two events are stored only after a failed download.
EventInv ==
    /\ uPendingEventsCount \in {0, 1, 2}
    /\ uPendingEventsCount = 2 =>
           /\ eSmState \in {"STOPPING_ON_FAIL", "STOPPING"} /\ twd = "none"
           /\ eSmState = "STOPPING" => ~bRecovery
    /\ twd \in {"none", "hwInit", "fwInit", "config", "stop"}
    /\ twd = "hwInit" => eSmState = "HW_INIT"
    /\ twd = "fwInit" => eSmState \in {"WAIT_FW_FILE", "FW_INIT"}
    /\ twd = "config" => eSmState = "FW_CONFIG"
    /\ twd = "stop" => eSmState \in {"STOPPING", "STOPPING_ON_FAIL", "FAILED"}
    /\ TwdCompleted => twd = "none"
    /\ eSmState = "WAIT_NVS_FILE" => ~Quiet /\ ePendingEvent = "NVS_FILE_READY"

\* A recovery that gets past its first event began in OPERATIONAL, with the OAL
\* running and the SME not stopping, or it has become a failure.
RecoveryInv ==
    /\ bRecovery \in BOOLEAN
    /\ bRecovery =>
           \/ ~Quiet /\ ePendingEvent = "RECOVERY"
           \/ /\ eSmState \in InitStates \cup {"STOPPING"}
              /\ eDriverState = "RUNNING" /\ ~smeStopping
           \/ eSmState \in {"STOPPING_ON_FAIL", "FAILED"}

OperationalInv ==
    /\ eSmState \in {"FW_CONFIG", "OPERATIONAL"} => eDriverState = "RUNNING"
    /\ eSmState = "OPERATIONAL" =>
           actionEnabled /\ inputs = {"irq", "cmd"} /\ ~smeStopping
    /\ bOperState <=> eSmState = "OPERATIONAL"

LifeInv == InputInv /\ EventInv /\ RecoveryInv /\ OperationalInv

\* What a failure leaves.
LEMMA FailStep ==
    ASSUME NEW n \in {0, 1, 2}, LifeInv, ~Quiet, Fail(n), eSmState # "OPERATIONAL",
           n # 0 => uPendingEventsCount = 1 /\ twd = "none" /\ inputs = {},
           bRecovery' = bRecovery, bOperState' = bOperState
    PROVE  LifeInv'
<1>1. /\ eSmState' = "STOPPING_ON_FAIL" /\ inputs' = {}
      /\ \/ twd' = "none"
         \/ twd' = "stop" /\ (twd # "none" \/ inputs # {})
      /\ uPendingEventsCount' = uPendingEventsCount - 1 + n
  BY DEF Fail, StopActivities, Stored
<1>2. uPendingEventsCount \in {1, 2}
  BY DEF LifeInv, EventInv
<1>3. uPendingEventsCount = 2 => twd = "none" /\ inputs = {}
  BY DEF LifeInv, EventInv, InputInv
<1>4. uPendingEventsCount' \in {0, 1, 2} /\ (uPendingEventsCount' = 2 => twd' = "none")
  BY <1>1, <1>2, <1>3
<1>5. EventInv'
  BY <1>1, <1>4 DEF EventInv, TwdCompleted
<1>6. InputInv'
  BY <1>1 DEF InputInv, OnStates
<1>7. RecoveryInv' /\ OperationalInv'
  BY <1>1 DEF RecoveryInv, OperationalInv, LifeInv
<1> QED BY <1>5, <1>6, <1>7 DEF LifeInv

\* What the begin of a stop leaves.
LEMMA StopStep ==
    ASSUME LifeInv, ~Quiet, StopThen("STOPPING"),
           uPendingEventsCount = 2 => eSmState = "STOPPING_ON_FAIL" /\ ~bRecovery'
    PROVE  EventInv' /\ inputs' = {} /\ eSmState' = "STOPPING"
<1>1. /\ eSmState' = "STOPPING" /\ inputs' = {}
      /\ \/ twd' = "none" /\ uPendingEventsCount' = uPendingEventsCount
         \/ /\ twd' = "stop" /\ (twd # "none" \/ inputs # {})
            /\ uPendingEventsCount' = uPendingEventsCount - 1
  BY DEF StopThen, StopActivities, Stored, LifeInv, EventInv
<1>2. uPendingEventsCount \in {1, 2}
  BY DEF LifeInv, EventInv
<1>3. uPendingEventsCount = 2 => twd = "none" /\ inputs = {}
  BY DEF LifeInv, EventInv, InputInv
<1>4. /\ uPendingEventsCount' \in {0, 1, 2}
      /\ uPendingEventsCount' = 2 => twd' = "none" /\ ~bRecovery'
      /\ \/ twd' = "none"
         \/ twd' = "stop" /\ uPendingEventsCount' = 0
  BY <1>1, <1>2, <1>3
<1> QED BY <1>1, <1>4 DEF EventInv, TwdCompleted

LEMMA ExpectedStates ==
    DOMAIN Expected = {"IDLE", "WAIT_INI_FILE", "HW_INIT", "DOWNLOAD_FW_FILE",
                       "WAIT_FW_FILE", "FW_INIT", "FW_CONFIG", "DISCONNECTING",
                       "STOPPING"}
  BY DEF Expected

LEMMA LifeInvSm == LifeInv /\ Sm => LifeInv'
<1> SUFFICES ASSUME LifeInv, Sm PROVE LifeInv'
  OBVIOUS
<1>0. InputInv'
  BY InputInvSm DEF LifeInv
<1>a. ~Quiet /\ uPendingEventsCount \in {1, 2}
  BY DEF LifeInv, EventInv, Sm, SmIdle, SmWaitIniFile, SmWaitNvsFile,
         SmConnectFails, SmHwInit, SmDownloadFwFile, SmWaitFwFile, SmFwInit,
         SmFwConfig, SmStop, SmRecovery, SmDisconnecting, SmStoppingRecovery,
         SmStopping, SmStopped, SmStoppedOther, SmStoppingOnFail, SmFailed,
         SmUnexpected
<1>b. uPendingEventsCount = 2 =>
          /\ eSmState \in {"STOPPING_ON_FAIL", "STOPPING"} /\ twd = "none"
          /\ eSmState = "STOPPING" => ~bRecovery
  BY DEF LifeInv, EventInv
<1> DEFINE Defs == EventInv /\ RecoveryInv /\ OperationalInv
<1> SUFFICES Defs'
  BY <1>0 DEF LifeInv
<1>1. CASE SmIdle
  BY <1>1, <1>a, <1>b DEF SmIdle, GetFile, Stored, LifeInv, EventInv, RecoveryInv,
     OperationalInv, TwdCompleted, InitStates
<1>2. CASE SmWaitIniFile
  BY <1>2, <1>a, <1>b DEF SmWaitIniFile, GetFile, Stored, LifeInv, EventInv, RecoveryInv,
     OperationalInv, TwdCompleted, InitStates
<1>3. CASE SmWaitNvsFile
  <2>1. /\ eSmState = "WAIT_NVS_FILE" /\ ePendingEvent = "NVS_FILE_READY"
        /\ uPendingEventsCount = 1 /\ eSmState' = "HW_INIT"
        /\ \/ /\ twd' = "none" /\ uPendingEventsCount' = 1
              /\ ePendingEvent' \in {"HW_INIT_COMPLETE", "FAILURE"}
           \/ twd' = "hwInit" /\ uPendingEventsCount' = 0
        /\ UNCHANGED <<bRecovery, eDriverState, smeStopping, actionEnabled, inputs,
                       bOperState>>
    BY <1>3, <1>a, <1>b DEF SmWaitNvsFile, Stored, LifeInv, EventInv
  <2> QED BY <2>1 DEF LifeInv, EventInv, RecoveryInv,
     OperationalInv, TwdCompleted, InitStates
<1>4. CASE SmConnectFails
  BY <1>4, FailStep, <1>a DEF SmConnectFails, LifeInv
<1>5. CASE SmHwInit
  <2>1. CASE Fail(0)
    BY <1>5, <2>1, FailStep, <1>a DEF SmHwInit, LifeInv
  <2>2. CASE ~Fail(0)
    <3>1. /\ eSmState = "HW_INIT" /\ ePendingEvent = "HW_INIT_COMPLETE"
          /\ eSmState' = "DOWNLOAD_FW_FILE" /\ ePendingEvent' = "FW_FILE_READY"
          /\ uPendingEventsCount' = 1 /\ uPendingEventsCount = 1
          /\ UNCHANGED <<bRecovery, eDriverState, smeStopping, actionEnabled, inputs,
                         bOperState, twd>>
      BY <1>5, <2>2, <1>a, <1>b DEF SmHwInit, GetFwFile, GetFile, Stored
    <3> QED BY <3>1 DEF LifeInv, EventInv, RecoveryInv,
          OperationalInv, TwdCompleted, InitStates
  <2> QED BY <2>1, <2>2
<1>6. CASE SmDownloadFwFile
  <2>1. twd = "none" /\ inputs = {} /\ eSmState = "DOWNLOAD_FW_FILE" /\ uPendingEventsCount = 1
    BY <1>6, <1>a, <1>b DEF SmDownloadFwFile, LifeInv, EventInv, InputInv
  <2>2. ASSUME NEW n \in {1, 2}, Fail(n) PROVE Defs'
    BY <1>6, <2>1, <2>2, FailStep, <1>a DEF SmDownloadFwFile, LifeInv
  <2>3. CASE ~\E n \in {1, 2} : Fail(n)
    <3>1. /\ eSmState' \in {"FW_INIT", "WAIT_FW_FILE"}
          /\ \/ /\ twd' = "none" /\ uPendingEventsCount' = 1
                /\ ePendingEvent' = "FW_INIT_COMPLETE"
             \/ twd' = "fwInit" /\ uPendingEventsCount' = 0
          /\ ePendingEvent = "FW_FILE_READY"
          /\ UNCHANGED <<bRecovery, eDriverState, smeStopping, actionEnabled, inputs,
                         bOperState>>
      BY <1>6, <2>1, <2>3 DEF SmDownloadFwFile, Stored
    <3> QED BY <2>1, <3>1 DEF LifeInv, EventInv, RecoveryInv,
          OperationalInv, TwdCompleted, InitStates
  <2> QED BY <2>2, <2>3
<1>7. CASE SmWaitFwFile
  <2>1. CASE Fail(0)
    BY <1>7, <2>1, FailStep, <1>a DEF SmWaitFwFile, LifeInv
  <2>2. CASE ~Fail(0)
    <3>1. /\ eSmState = "WAIT_FW_FILE" /\ ePendingEvent = "FW_INIT_COMPLETE"
          /\ eSmState' = "DOWNLOAD_FW_FILE" /\ ePendingEvent' = "FW_FILE_READY"
          /\ uPendingEventsCount' = 1 /\ uPendingEventsCount = 1
          /\ UNCHANGED <<bRecovery, eDriverState, smeStopping, actionEnabled, inputs,
                         bOperState, twd>>
      BY <1>7, <2>2, <1>a, <1>b DEF SmWaitFwFile, GetFwFile, GetFile, Stored
    <3> QED BY <3>1 DEF LifeInv, EventInv, RecoveryInv,
          OperationalInv, TwdCompleted, InitStates
  <2> QED BY <2>1, <2>2
<1>8. CASE SmFwInit
  <2>1. /\ eSmState = "FW_INIT" /\ ePendingEvent = "FW_INIT_COMPLETE"
        /\ eSmState' = "FW_CONFIG" /\ uPendingEventsCount = 1
        /\ \/ /\ twd' = "none" /\ uPendingEventsCount' = 1
              /\ ePendingEvent' = "FW_CONFIG_COMPLETE"
           \/ twd' = "config" /\ uPendingEventsCount' = 0
        /\ eDriverState' = IF bRecovery THEN eDriverState ELSE "RUNNING"
        /\ UNCHANGED <<bRecovery, smeStopping, actionEnabled, bOperState>>
    BY <1>8, <1>a, <1>b DEF SmFwInit, Stored
  <2> QED BY <2>1 DEF LifeInv, EventInv, RecoveryInv,
          OperationalInv, TwdCompleted, InitStates
<1>9. CASE SmFwConfig
  <2>1. /\ eSmState = "FW_CONFIG" /\ ePendingEvent = "FW_CONFIG_COMPLETE"
        /\ eSmState' = "OPERATIONAL" /\ uPendingEventsCount = 1
        /\ uPendingEventsCount' = 0 /\ bRecovery' = FALSE /\ actionEnabled' /\ bOperState'
        /\ inputs' = {"irq", "cmd"} /\ smeStopping' = (smeStopping /\ bRecovery)
        /\ UNCHANGED <<twd, eDriverState>>
    BY <1>9, <1>a, <1>b DEF SmFwConfig, Stored
  <2>2. ~smeStopping'
    BY <2>1, <1>a DEF LifeInv, RecoveryInv
  <2>3. RecoveryInv'
    BY <2>1 DEF RecoveryInv
  <2>4. EventInv'
    BY <2>1, <1>a DEF LifeInv, EventInv, TwdCompleted
  <2>5. OperationalInv'
    BY <2>1, <2>2 DEF LifeInv, OperationalInv
  <2> QED BY <2>3, <2>4, <2>5
<1>10. CASE SmStop
  <2>1. /\ eSmState = "OPERATIONAL" /\ ePendingEvent = "STOP"
        /\ eSmState' = "DISCONNECTING" /\ uPendingEventsCount = 1
        /\ uPendingEventsCount' \in {0, 1} /\ ~bOperState'
        /\ UNCHANGED <<twd, bRecovery>>
    BY <1>10, <1>a, <1>b DEF SmStop, Stored, LeaveOperational
  <2> QED BY <2>1, <1>a DEF LifeInv, EventInv, RecoveryInv,
          OperationalInv, TwdCompleted, InitStates
<1>11. CASE SmRecovery
  <2>1. /\ eSmState = "OPERATIONAL" /\ uPendingEventsCount = 1 /\ ~bOperState'
        /\ eDriverState = "RUNNING" /\ ~smeStopping /\ twd = "none"
        /\ UNCHANGED <<bRecovery, smeStopping>>
    BY <1>11, <1>a, <1>b DEF SmRecovery, LeaveOperational, LifeInv, OperationalInv, EventInv
  <2>2. CASE ePendingEvent = "RECOVERY"
    <3>1. StopThen("STOPPING") /\ eDriverState' = eDriverState
      BY <1>11, <2>2 DEF SmRecovery
    <3>2. EventInv' /\ eSmState' = "STOPPING"
      BY <3>1, <2>1, <1>a, StopStep
    <3> QED BY <3>1, <3>2, <2>1 DEF LifeInv, RecoveryInv, OperationalInv
  <2>3. CASE ePendingEvent # "RECOVERY"
    <3>1. /\ eSmState' = "STOPPING_ON_FAIL" /\ uPendingEventsCount' = 0
          /\ twd' \in {"none", "stop"}
      BY <1>11, <2>1, <2>3 DEF SmRecovery, Fail, StopActivities, Stored
    <3> QED BY <3>1, <2>1 DEF LifeInv, EventInv, RecoveryInv,
          OperationalInv, TwdCompleted
  <2> QED BY <2>2, <2>3
<1>12. CASE SmDisconnecting
  <2>1. EventInv' /\ eSmState' = "STOPPING"
    BY <1>12, <1>a, <1>b, StopStep DEF SmDisconnecting
  <2>2. ~bRecovery
    BY <1>12 DEF SmDisconnecting, LifeInv, RecoveryInv, InitStates
  <2> QED BY <1>12, <2>1, <2>2 DEF SmDisconnecting, LifeInv, RecoveryInv, OperationalInv
<1>13. CASE SmStoppingRecovery
  BY <1>13, <1>a, <1>b DEF SmStoppingRecovery, GetFile, Stored, LifeInv, EventInv,
       RecoveryInv,
     OperationalInv, TwdCompleted, InitStates
<1>14. CASE SmStopping
  <2>1. /\ eSmState = "STOPPING" /\ ePendingEvent = "STOP_COMPLETE"
        /\ eSmState' = "STOPPED" /\ ~bRecovery /\ UNCHANGED <<bRecovery, twd, bOperState>>
        /\ uPendingEventsCount' \in {0, 1}
    BY <1>14, <1>a DEF SmStopping, Stored
  <2> QED BY <2>1, <1>a DEF LifeInv, EventInv, RecoveryInv,
          OperationalInv, TwdCompleted
<1>15. CASE SmStopped
  BY <1>15, <1>a, <1>b DEF SmStopped, GetFile, Stored, LifeInv, EventInv, RecoveryInv,
     OperationalInv, TwdCompleted, InitStates
<1>16. CASE SmStoppedOther
  BY <1>16, FailStep, <1>a DEF SmStoppedOther, LifeInv
<1>17. CASE SmStoppingOnFail
  <2>1. eSmState = "STOPPING_ON_FAIL" /\ bRecovery' = FALSE /\ bOperState' = bOperState
    BY <1>17 DEF SmStoppingOnFail
  <2>2. CASE StopThen("STOPPING")
    <3>1. EventInv' /\ eSmState' = "STOPPING"
      BY <2>1, <2>2, <1>a, <1>b, StopStep
    <3> QED BY <2>1, <3>1 DEF LifeInv, RecoveryInv, OperationalInv
  <2>3. CASE ~StopThen("STOPPING")
    <3>1. eSmState' = "FAILED" /\ uPendingEventsCount' \in {0, 1} /\ UNCHANGED twd
      BY <1>17, <2>3, <1>a DEF SmStoppingOnFail, Stored
    <3>2. RecoveryInv'
      BY <2>1 DEF RecoveryInv
    <3>3. EventInv'
      BY <2>1, <3>1 DEF LifeInv, EventInv, TwdCompleted
    <3>4. OperationalInv'
      BY <2>1, <3>1 DEF LifeInv, OperationalInv
    <3> QED BY <3>2, <3>3, <3>4
  <2> QED BY <2>2, <2>3
<1>18. CASE SmFailed
  BY <1>18, <1>a, <1>b DEF SmFailed, Stored, LifeInv, EventInv, RecoveryInv,
     OperationalInv, TwdCompleted
<1>19. CASE SmUnexpected
  BY <1>19, FailStep, <1>a, ExpectedStates DEF SmUnexpected, LifeInv
<1> QED
  BY <1>1, <1>2, <1>3, <1>4, <1>5, <1>6, <1>7, <1>8, <1>9, <1>10, <1>11, <1>12,
     <1>13, <1>14, <1>15, <1>16, <1>17, <1>18, <1>19 DEF Sm

LEMMA LifeInvStep == LifeInv /\ [Next]_vars => LifeInv'
<1> SUFFICES ASSUME LifeInv, [Next]_vars PROVE LifeInv'
  OBVIOUS
<1> USE DEF LifeInv, EventInv, RecoveryInv, OperationalInv, TwdCompleted, InitStates
<1>1. CASE Sm
  BY <1>1, LifeInvSm
<1>2. CASE ~Sm
  <2>0. InputInv'
    BY <1>2, OutsideSm DEF InputInv, OnStates
  <2>1. CASE Callback
    BY <2>0, <2>1 DEF Callback, InitHwCb, InitFwCb, ConfigFwCb, InitFailCb, TwdStopCb,
              TwdStopCbIgnored, SmeStop, Complete, SmEvent
  <2>2. CASE (\E a \in Actions : InsertAction(a)) \/ WaitReturns
    BY <2>0, <2>2 DEF InsertAction, WaitReturns
  <2>3. CASE IgnoreAction
    BY <2>0, <2>3 DEF IgnoreAction
  <2>4. CASE InvokeAction
    <3>1. eLastAction' \in {"START", "STOP"}
      BY <2>4 DEF InvokeAction, TypeOf
    <3> QED BY <2>0, <2>4, <3>1 DEF InvokeAction, SmEvent, Dequeue
  <2>5. CASE SendFailureEvent \/ GetExpiry
    BY <2>0, <2>5 DEF SendFailureEvent, GetExpiry
  <2>7. CASE HandleExpiry
    <3>1. RecoveryInv'
      BY <2>7 DEF HandleExpiry, SmEvent
    <3>2. EventInv' /\ OperationalInv'
      BY <2>7 DEF HandleExpiry, SmEvent
    <3> QED BY <2>0, <3>1, <3>2
  <2>6. CASE UNCHANGED vars
    BY <2>0, <2>6 DEF vars
  <2> QED BY <1>2, <2>1, <2>2, <2>3, <2>4, <2>5, <2>6, <2>7 DEF Next
<1> QED BY <1>1, <1>2

LEMMA LifeInvInit == Init => LifeInv
<1> SUFFICES ASSUME Init PROVE LifeInv
  OBVIOUS
<1>1. InputInv /\ EventInv
  BY DEF Init, InputInv, OnStates, EventInv, TwdCompleted
<1>2. RecoveryInv
  BY DEF Init, RecoveryInv
<1>3. OperationalInv
  BY DEF Init, OperationalInv
<1> QED BY <1>1, <1>2, <1>3 DEF LifeInv

\* Whatever fails on the way, and for any number of failures, recoveries and
\* attempts, a driver that rests in OPERATIONAL is wholly operational.
THEOREM OperationalIsConsistent == Spec => []OperationalConsistent
<1>1. LifeInv => OperationalConsistent
  <2> SUFFICES ASSUME LifeInv PROVE OperationalConsistent
    OBVIOUS
  <2>1. ASSUME Quiet, eSmState = "OPERATIONAL" PROVE twd = "none" /\ powered /\ ~bRecovery
    BY <2>1 DEF LifeInv, EventInv, InputInv, RecoveryInv, OnStates, InitStates
  <2> QED BY <2>1 DEF OperationalConsistent, LifeInv, OperationalInv
<1> QED BY <1>1, LifeInvInit, LifeInvStep, PTL DEF Spec

-----------------------------------------------------------------------------
(* Actions.                                                                *)

\* The ACTION client is enabled only where the SM can be given an action: each
\* state that has it enabled disables it for every event it expects.  It stays
\* enabled when the driver fails for an action.
EnabledInv ==
    actionEnabled =>
        \/ eSmState \in {"IDLE", "OPERATIONAL", "STOPPED"}
        \/ /\ eDriverState = "FAILED"
           /\ eSmState \in {"STOPPING_ON_FAIL", "FAILED", "STOPPING"}

\* What was begun by a START, or began from there as a recovery, has START as its
\* last action.
StartedInv ==
    /\ eSmState \in InitStates => eLastAction = "START"
    /\ eSmState = "OPERATIONAL" =>
           eLastAction = "START" \/ (~Quiet /\ ePendingEvent = "STOP")
    /\ ~Quiet /\ ePendingEvent = "START" => eLastAction = "START"
    /\ eSmState = "STOPPING" /\ bRecovery =>
           eLastAction = "START" \/ (~Quiet /\ ePendingEvent = "RECOVERY")

ActionInv == LifeInv /\ EnabledInv /\ StartedInv

LEMMA ActionInvSm == ActionInv /\ Sm => EnabledInv' /\ StartedInv'
<1> SUFFICES ASSUME ActionInv, Sm PROVE EnabledInv' /\ StartedInv'
  OBVIOUS
<1> USE DEF EnabledInv, StartedInv, InitStates
<1>a. /\ EnabledInv /\ StartedInv /\ RecoveryInv
      /\ uPendingEventsCount \in {0, 1, 2}
      /\ eSmState = "WAIT_NVS_FILE" => ePendingEvent = "NVS_FILE_READY"
  BY DEF ActionInv, LifeInv, EventInv
<1> USE DEF RecoveryInv
<1>1. CASE SmIdle
  BY <1>1, <1>a DEF SmIdle, GetFile, Stored
<1>2. CASE SmWaitIniFile
  BY <1>2, <1>a DEF SmWaitIniFile, GetFile, Stored
<1>3. CASE SmWaitNvsFile
  BY <1>3, <1>a DEF SmWaitNvsFile, Stored
<1>4. CASE SmConnectFails
  BY <1>4, <1>a DEF SmConnectFails, Fail, Stored
<1>5. CASE SmHwInit
  BY <1>5, <1>a DEF SmHwInit, GetFwFile, GetFile, Fail, Stored
<1>6. CASE SmDownloadFwFile
  BY <1>6, <1>a DEF SmDownloadFwFile, Fail, Stored
<1>7. CASE SmWaitFwFile
  BY <1>7, <1>a DEF SmWaitFwFile, GetFwFile, GetFile, Fail, Stored
<1>8. CASE SmFwInit
  BY <1>8, <1>a DEF SmFwInit, Stored
<1>9. CASE SmFwConfig
  BY <1>9, <1>a DEF SmFwConfig, Stored
<1>10. CASE SmStop
  BY <1>10, <1>a DEF SmStop, LeaveOperational, Stored
<1>11. CASE SmRecovery
  BY <1>11, <1>a DEF SmRecovery, LeaveOperational, StopThen, Fail, Stored
<1>12. CASE SmDisconnecting
  BY <1>12, <1>a DEF SmDisconnecting, StopThen, Stored
<1>13. CASE SmStoppingRecovery
  BY <1>13, <1>a DEF SmStoppingRecovery, GetFile, Stored
<1>14. CASE SmStopping
  BY <1>14, <1>a DEF SmStopping, Stored
<1>15. CASE SmStopped
  BY <1>15, <1>a DEF SmStopped, GetFile, Stored
<1>16. CASE SmStoppedOther
  BY <1>16, <1>a DEF SmStoppedOther, Fail, Stored
<1>17. CASE SmStoppingOnFail
  BY <1>17, <1>a DEF SmStoppingOnFail, StopThen, Stored
<1>18. CASE SmFailed
  BY <1>18, <1>a DEF SmFailed, Stored
<1>19. CASE SmUnexpected
  <2>1. eSmState \notin {"OPERATIONAL", "STOPPED"}
    BY <1>19, ExpectedStates DEF SmUnexpected
  <2> QED BY <1>19, <2>1, <1>a DEF SmUnexpected, Fail, Stored
<1> QED
  BY <1>1, <1>2, <1>3, <1>4, <1>5, <1>6, <1>7, <1>8, <1>9, <1>10, <1>11, <1>12,
     <1>13, <1>14, <1>15, <1>16, <1>17, <1>18, <1>19 DEF Sm

LEMMA ActionInvStep == ActionInv /\ [Next]_vars => ActionInv'
<1> SUFFICES ASSUME ActionInv, [Next]_vars PROVE EnabledInv' /\ StartedInv'
  BY LifeInvStep DEF ActionInv
<1> USE DEF EnabledInv, StartedInv, InitStates
<1>a. EnabledInv /\ StartedInv /\ RecoveryInv
  BY DEF ActionInv, LifeInv
<1>1. CASE Sm
  BY <1>1, ActionInvSm
<1>2. CASE Callback
  BY <1>2, <1>a DEF Callback, InitHwCb, InitFwCb, ConfigFwCb, InitFailCb, TwdStopCb,
              TwdStopCbIgnored, SmeStop, Complete, SmEvent
<1>3. CASE (\E a \in Actions : InsertAction(a)) \/ WaitReturns \/ IgnoreAction
  BY <1>3, <1>a DEF InsertAction, WaitReturns, IgnoreAction
<1>4. CASE InvokeAction
  <2>1. /\ Quiet /\ actionEnabled /\ eLastAction' # eLastAction
        /\ eLastAction' \in {"START", "STOP"}
        /\ ePendingEvent' = eLastAction' /\ ~Quiet'
        /\ UNCHANGED <<eSmState, bRecovery, eDriverState, actionEnabled>>
    BY <1>4 DEF InvokeAction, Dequeue, SmEvent, TypeOf
  <2>2. ~(eSmState = "STOPPING" /\ bRecovery)
    BY <2>1, <1>a DEF RecoveryInv
  <2> QED BY <2>1, <2>2, <1>a
<1>5. CASE SendFailureEvent \/ GetExpiry
  BY <1>5, <1>a DEF SendFailureEvent, GetExpiry
<1>6. CASE HandleExpiry
  BY <1>6, <1>a DEF HandleExpiry, SmEvent
<1>7. CASE UNCHANGED vars
  BY <1>7, <1>a DEF vars
<1> QED
  BY <1>1, <1>2, <1>3, <1>4, <1>5, <1>6, <1>7 DEF Next

LEMMA ActionInvInit == Init => ActionInv
  BY LifeInvInit DEF Init, ActionInv, EnabledInv, StartedInv, InitStates

\* Only drvMain_InvokeAction takes up an action, when its client is enabled.
LEMMA CurrActionStep ==
    [Next]_vars => (pCurrAction' # pCurrAction =>
                        /\ actionEnabled /\ Quiet
                        /\ eLastAction' # eLastAction
                        /\ eLastAction' \in {"START", "STOP"})
<1> SUFFICES ASSUME [Next]_vars, pCurrAction' # pCurrAction
             PROVE  /\ actionEnabled /\ Quiet
                    /\ eLastAction' # eLastAction
                    /\ eLastAction' \in {"START", "STOP"}
  OBVIOUS
<1>1. CASE Sm
  BY <1>1 DEF Sm, SmIdle, SmWaitIniFile, SmWaitNvsFile, SmConnectFails, SmHwInit,
       SmDownloadFwFile, SmWaitFwFile, SmFwInit, SmFwConfig, SmStop, SmRecovery,
       SmDisconnecting, SmStoppingRecovery, SmStopping, SmStopped,
       SmStoppedOther, SmStoppingOnFail, SmFailed, SmUnexpected
<1>2. CASE Callback
  BY <1>2 DEF Callback, InitHwCb, InitFwCb, ConfigFwCb, InitFailCb, TwdStopCb,
              TwdStopCbIgnored, SmeStop, Complete
<1>3. CASE (\E a \in Actions : InsertAction(a)) \/ WaitReturns
  BY <1>3 DEF InsertAction, WaitReturns
<1>4. CASE IgnoreAction \/ InvokeAction
  BY <1>4 DEF IgnoreAction, InvokeAction, Dequeue, TypeOf
<1>5. CASE SendFailureEvent \/ GetExpiry \/ HandleExpiry \/ UNCHANGED vars
  BY <1>5 DEF SendFailureEvent, GetExpiry, HandleExpiry, vars
<1> QED
  BY <1>1, <1>2, <1>3, <1>4, <1>5 DEF Next

\* Whatever a user asks first, and whatever fails, a START or STOP reaches the SM
\* only at rest or after the driver has failed, and no START in OPERATIONAL.
THEOREM ActionsAreSteady == Spec => SteadyActions
<1>1. ActionInv /\ [Next]_vars =>
        [pCurrAction' # pCurrAction =>
           \/ eSmState \in {"IDLE", "STOPPED"}
           \/ eSmState = "OPERATIONAL" /\ eLastAction' = "STOP"
           \/ eDriverState = "FAILED"]_vars
  BY CurrActionStep DEF ActionInv, EnabledInv, StartedInv
<1> QED
  BY <1>1, ActionInvInit, ActionInvStep, PTL DEF Spec, SteadyActions

-----------------------------------------------------------------------------
(* As long as nothing outside of the driver has failed.                    *)

\* Every event finds the SM in a state that expects it.
ServedInv ==
    /\ eSmState \notin {"STOPPING_ON_FAIL", "FAILED"}
    /\ uPendingEventsCount \in {0, 1}
    /\ ~Quiet =>
           /\ eSmState \in DOMAIN Expected => ePendingEvent = Expected[eSmState]
           /\ eSmState = "OPERATIONAL" =>
                  /\ ePendingEvent \in {"STOP", "RECOVERY"}
                  /\ bRecovery <=> ePendingEvent = "RECOVERY"
           /\ eSmState = "STOPPED" => ePendingEvent = "START" /\ ~bRecovery
    /\ eSmState \in {"IDLE", "DISCONNECTING"} => ~bRecovery
    /\ smeStopping <=> Quiet /\ eSmState = "DISCONNECTING"
    /\ eSmState = "STOPPING" => powered

\* An expiry of the health monitor is always filed for the operational driver.
FailTimerInv ==
    /\ hFailTimer \in {"off", "running", "operQueue"}
    /\ hFailTimer # "off" => failOper

\* The last action is the one that led to the state.
LastActionInv ==
    \/ eLastAction = "NONE" /\ eSmState = "IDLE" /\ Quiet
    \/ /\ eLastAction = "START"
       /\ \/ eSmState \in InitStates \cup {"OPERATIONAL"}
          \/ eSmState = "STOPPING" /\ bRecovery
          \/ eSmState \in {"IDLE", "STOPPED"} /\ ~Quiet
       /\ eSmState = "OPERATIONAL" /\ ~Quiet => ePendingEvent = "RECOVERY"
    \/ /\ eLastAction = "STOP"
       /\ \/ eSmState = "DISCONNECTING"
          \/ eSmState = "STOPPING" /\ ~bRecovery
          \/ eSmState = "STOPPED" /\ Quiet
          \/ eSmState = "OPERATIONAL" /\ ~Quiet /\ ePendingEvent = "STOP"

NormalInv ==
    LifeInv /\ ServedInv /\ FailTimerInv /\ LastActionInv /\ eDriverState # "FAILED"

LEMMA ExpectedEvents ==
    /\ Expected["IDLE"] = "START" /\ Expected["WAIT_INI_FILE"] = "INI_FILE_READY"
    /\ Expected["HW_INIT"] = "HW_INIT_COMPLETE"
    /\ Expected["DOWNLOAD_FW_FILE"] = "FW_FILE_READY"
    /\ Expected["WAIT_FW_FILE"] = "FW_INIT_COMPLETE"
    /\ Expected["FW_INIT"] = "FW_INIT_COMPLETE"
    /\ Expected["FW_CONFIG"] = "FW_CONFIG_COMPLETE"
    /\ Expected["DISCONNECTING"] = "DISCONNECTED"
    /\ Expected["STOPPING"] = "STOP_COMPLETE"
  BY DEF Expected

\* What the begin of a stop leaves if nothing has failed.
LEMMA NormalStop ==
    ASSUME uPendingEventsCount = 1, StopThen("STOPPING")
    PROVE  /\ eSmState' = "STOPPING"
           /\ \/ uPendingEventsCount' = 1 /\ ePendingEvent' = "STOP_COMPLETE"
              \/ uPendingEventsCount' = 0
  BY DEF StopThen, StopActivities, Stored

LEMMA NormalInvSm ==
    NormalInv /\ Sm /\ ~fault' => ServedInv' /\ FailTimerInv' /\ LastActionInv'
<1> SUFFICES ASSUME NormalInv, Sm, ~fault' PROVE ServedInv' /\ FailTimerInv' /\ LastActionInv'
  OBVIOUS
<1> USE ExpectedStates, ExpectedEvents
<1>a. uPendingEventsCount = 1 /\ ~Quiet
  BY LifeInvSm DEF NormalInv, ServedInv, Sm, SmIdle, SmWaitIniFile, SmWaitNvsFile,
         SmConnectFails, SmHwInit, SmDownloadFwFile, SmWaitFwFile, SmFwInit,
         SmFwConfig, SmStop, SmRecovery, SmDisconnecting, SmStoppingRecovery,
         SmStopping, SmStopped, SmStoppedOther, SmStoppingOnFail, SmFailed,
         SmUnexpected
<1>b. ~smeStopping /\ bRecovery \in BOOLEAN
  BY <1>a DEF NormalInv, ServedInv, LifeInv, RecoveryInv
<1>t. FailTimerInv'
  <2>1. UNCHANGED failOper /\ hFailTimer' \in {hFailTimer, "off"}
    BY DEF Sm, SmIdle, SmWaitIniFile, SmWaitNvsFile,
         SmConnectFails, SmHwInit, SmDownloadFwFile, SmWaitFwFile, SmFwInit,
         SmFwConfig, SmStop, SmRecovery, SmDisconnecting, SmStoppingRecovery,
         SmStopping, SmStopped, SmStoppedOther, SmStoppingOnFail, SmFailed,
         SmUnexpected, GetFile, GetFwFile, Fail, StopThen, Stored
  <2> QED BY <2>1 DEF NormalInv, FailTimerInv
<1> SUFFICES ServedInv' /\ LastActionInv'
  BY <1>t
<1>1. CASE SmIdle
  <2>1. /\ eSmState = "IDLE" /\ eSmState' = "WAIT_INI_FILE" 
        /\ ePendingEvent' = "INI_FILE_READY" /\ uPendingEventsCount' = 1
        /\ UNCHANGED <<eLastAction, bRecovery, smeStopping>>
    BY <1>1, <1>a DEF SmIdle, GetFile, Stored
  <2> QED BY <1>a, <1>b, <2>1 DEF NormalInv, ServedInv, LastActionInv, InitStates
<1>2. CASE SmWaitIniFile
  <2>1. /\ eSmState = "WAIT_INI_FILE" /\ eSmState' = "WAIT_NVS_FILE" 
        /\ ePendingEvent' = "NVS_FILE_READY" /\ uPendingEventsCount' = 1
        /\ UNCHANGED <<eLastAction, bRecovery, smeStopping>>
    BY <1>2, <1>a DEF SmWaitIniFile, GetFile, Stored
  <2> QED BY <1>a, <1>b, <2>1 DEF NormalInv, ServedInv, LastActionInv, InitStates
<1>3. CASE SmWaitNvsFile
  <2>1. /\ eSmState = "WAIT_NVS_FILE" /\ ePendingEvent = "NVS_FILE_READY"
    BY <1>3 DEF SmWaitNvsFile, NormalInv, LifeInv, EventInv
  <2>2. /\ eSmState' = "HW_INIT" 
        /\ \/ uPendingEventsCount' = 1 /\ ePendingEvent' = "HW_INIT_COMPLETE"
           \/ uPendingEventsCount' = 0
        /\ UNCHANGED <<eLastAction, bRecovery, smeStopping>>
    BY <1>3, <1>a, <2>1 DEF SmWaitNvsFile, Stored
  <2> QED BY <1>a, <1>b, <2>1, <2>2 DEF NormalInv, ServedInv, LastActionInv, InitStates
<1>4. CASE SmConnectFails
  BY <1>4 DEF SmConnectFails
<1>5. CASE SmHwInit
  <2>1. /\ eSmState = "HW_INIT" /\ eSmState' = "DOWNLOAD_FW_FILE" 
        /\ ePendingEvent' = "FW_FILE_READY" /\ uPendingEventsCount' = 1
        /\ UNCHANGED <<eLastAction, bRecovery, smeStopping>>
    BY <1>5, <1>a DEF SmHwInit, GetFwFile, GetFile, Stored
  <2> QED BY <1>a, <1>b, <2>1 DEF NormalInv, ServedInv, LastActionInv, InitStates
<1>6. CASE SmDownloadFwFile
  <2>1. /\ eSmState = "DOWNLOAD_FW_FILE" /\ eSmState' \in {"FW_INIT", "WAIT_FW_FILE"}
        /\ \/ uPendingEventsCount' = 1 /\ ePendingEvent' = "FW_INIT_COMPLETE"
           \/ uPendingEventsCount' = 0
        /\ UNCHANGED <<eLastAction, bRecovery, smeStopping>>
    BY <1>6, <1>a DEF SmDownloadFwFile, Stored
  <2> QED BY <1>a, <1>b, <2>1 DEF NormalInv, ServedInv, LastActionInv, InitStates
<1>7. CASE SmWaitFwFile
  <2>1. /\ eSmState = "WAIT_FW_FILE" /\ eSmState' = "DOWNLOAD_FW_FILE" 
        /\ ePendingEvent' = "FW_FILE_READY" /\ uPendingEventsCount' = 1
        /\ UNCHANGED <<eLastAction, bRecovery, smeStopping>>
    BY <1>7, <1>a DEF SmWaitFwFile, GetFwFile, GetFile, Stored
  <2> QED BY <1>a, <1>b, <2>1 DEF NormalInv, ServedInv, LastActionInv, InitStates
<1>8. CASE SmFwInit
  <2>1. /\ eSmState = "FW_INIT" /\ eSmState' = "FW_CONFIG" 
        /\ \/ uPendingEventsCount' = 1 /\ ePendingEvent' = "FW_CONFIG_COMPLETE"
           \/ uPendingEventsCount' = 0
        /\ UNCHANGED <<eLastAction, bRecovery, smeStopping>>
    BY <1>8, <1>a DEF SmFwInit, Stored
  <2> QED BY <1>a, <1>b, <2>1 DEF NormalInv, ServedInv, LastActionInv, InitStates
<1>9. CASE SmFwConfig
  <2>1. /\ eSmState = "FW_CONFIG" /\ eSmState' = "OPERATIONAL" 
        /\ uPendingEventsCount' = 0 /\ bRecovery' = FALSE
        /\ UNCHANGED eLastAction
    BY <1>9, <1>a DEF SmFwConfig, Stored
  <2>2. ~smeStopping'
    BY <1>9, <1>b DEF SmFwConfig
  <2> QED BY <1>a, <1>b, <2>1, <2>2 DEF NormalInv, ServedInv, LastActionInv, InitStates
<1>10. CASE SmStop
  <2>1. /\ eSmState = "OPERATIONAL" /\ ePendingEvent = "STOP" /\ eSmState' = "DISCONNECTING"
        /\ UNCHANGED <<eLastAction, bRecovery>>
    BY <1>10 DEF SmStop
  <2>2. \/ uPendingEventsCount' = 1 /\ ePendingEvent' = "DISCONNECTED" /\ ~smeStopping'
        \/ uPendingEventsCount' = 0 /\ smeStopping'
    BY <1>10, <1>a, <1>b DEF SmStop, Stored
  <2> QED BY <1>a, <1>b, <2>1, <2>2 DEF NormalInv, ServedInv, LastActionInv, InitStates
<1>11. CASE SmRecovery
  <2>1. eSmState = "OPERATIONAL" /\ ePendingEvent = "RECOVERY" /\ powered
    BY <1>11, <1>a DEF SmRecovery, NormalInv, ServedInv, LifeInv, InputInv, OnStates
  <2>2. /\ StopThen("STOPPING")
        /\ UNCHANGED <<eLastAction, bRecovery, smeStopping, powered>>
    BY <1>11, <2>1 DEF SmRecovery
  <2> QED BY <1>a, <1>b, <2>1, <2>2, NormalStop
          DEF NormalInv, ServedInv, LastActionInv, InitStates
<1>12. CASE SmDisconnecting
  <2>1. eSmState = "DISCONNECTING" /\ powered
    BY <1>12 DEF SmDisconnecting, NormalInv, LifeInv, InputInv, OnStates
  <2>2. /\ StopThen("STOPPING")
        /\ UNCHANGED <<eLastAction, bRecovery, smeStopping, powered>>
    BY <1>12 DEF SmDisconnecting
  <2> QED BY <1>a, <1>b, <2>1, <2>2, NormalStop
          DEF NormalInv, ServedInv, LastActionInv, InitStates
<1>13. CASE SmStoppingRecovery
  <2>1. /\ eSmState = "STOPPING" /\ bRecovery /\ eSmState' = "WAIT_NVS_FILE" 
        /\ ePendingEvent' = "NVS_FILE_READY" /\ uPendingEventsCount' = 1
        /\ UNCHANGED <<eLastAction, bRecovery, smeStopping>>
    BY <1>13, <1>a DEF SmStoppingRecovery, GetFile, Stored
  <2> QED BY <1>a, <1>b, <2>1 DEF NormalInv, ServedInv, LastActionInv, InitStates
<1>14. CASE SmStopping
  <2>1. /\ eSmState = "STOPPING" /\ ~bRecovery /\ eSmState' = "STOPPED" 
        /\ uPendingEventsCount' = 0
        /\ UNCHANGED <<eLastAction, bRecovery, smeStopping>>
    BY <1>14, <1>a DEF SmStopping, Stored
  <2> QED BY <1>a, <1>b, <2>1 DEF NormalInv, ServedInv, LastActionInv, InitStates
<1>15. CASE SmStopped
  <2>1. /\ eSmState = "STOPPED" /\ eSmState' = "WAIT_NVS_FILE" 
        /\ ePendingEvent' = "NVS_FILE_READY" /\ uPendingEventsCount' = 1
        /\ UNCHANGED <<eLastAction, bRecovery, smeStopping>>
    BY <1>15, <1>a DEF SmStopped, GetFile, Stored
  <2> QED BY <1>a, <1>b, <2>1 DEF NormalInv, ServedInv, LastActionInv, InitStates
<1>16. CASE SmStoppedOther
  BY <1>16, <1>a DEF SmStoppedOther, NormalInv, ServedInv
<1>17. CASE SmStoppingOnFail
  BY <1>17 DEF SmStoppingOnFail, NormalInv, ServedInv
<1>18. CASE SmFailed
  BY <1>18 DEF SmFailed, NormalInv, ServedInv
<1>19. CASE SmUnexpected
  BY <1>19, <1>a DEF SmUnexpected, NormalInv, ServedInv
<1> QED
  BY <1>1, <1>2, <1>3, <1>4, <1>5, <1>6, <1>7, <1>8, <1>9, <1>10, <1>11, <1>12,
     <1>13, <1>14, <1>15, <1>16, <1>17, <1>18, <1>19 DEF Sm

\* The OAL is told of a failure only on the way to STOPPING_ON_FAIL.
LEMMA FailedStep ==
    [Next]_vars /\ eDriverState' = "FAILED" =>
        eDriverState = "FAILED" \/ eSmState' = "STOPPING_ON_FAIL"
<1> SUFFICES ASSUME [Next]_vars, eDriverState' = "FAILED", eDriverState # "FAILED"
             PROVE  eSmState' = "STOPPING_ON_FAIL"
  OBVIOUS
<1>1. CASE Sm
  <2>1. CASE SmIdle
    BY <2>1 DEF SmIdle, Fail
  <2>2. CASE SmWaitIniFile
    BY <2>2 DEF SmWaitIniFile, Fail
  <2>3. CASE SmWaitNvsFile
    BY <2>3 DEF SmWaitNvsFile, Fail
  <2>4. CASE SmConnectFails
    BY <2>4 DEF SmConnectFails, Fail
  <2>5. CASE SmHwInit
    BY <2>5 DEF SmHwInit, GetFwFile, Fail
  <2>6. CASE SmDownloadFwFile
    BY <2>6 DEF SmDownloadFwFile, Fail
  <2>7. CASE SmWaitFwFile
    BY <2>7 DEF SmWaitFwFile, GetFwFile, Fail
  <2>8. CASE SmFwInit
    BY <2>8 DEF SmFwInit, Fail
  <2>9. CASE SmFwConfig
    BY <2>9 DEF SmFwConfig, Fail
  <2>10. CASE SmStop
    BY <2>10 DEF SmStop, Fail
  <2>11. CASE SmRecovery
    BY <2>11 DEF SmRecovery, Fail
  <2>12. CASE SmDisconnecting
    BY <2>12 DEF SmDisconnecting, Fail
  <2>13. CASE SmStoppingRecovery
    BY <2>13 DEF SmStoppingRecovery, Fail
  <2>14. CASE SmStopping
    BY <2>14 DEF SmStopping, Fail
  <2>15. CASE SmStopped
    BY <2>15 DEF SmStopped, Fail
  <2>16. CASE SmStoppedOther
    BY <2>16 DEF SmStoppedOther, Fail
  <2>17. CASE SmStoppingOnFail
    BY <2>17 DEF SmStoppingOnFail, Fail
  <2>18. CASE SmFailed
    BY <2>18 DEF SmFailed, Fail
  <2>19. CASE SmUnexpected
    BY <2>19 DEF SmUnexpected, Fail
  <2> QED
    BY <1>1, <2>1, <2>2, <2>3, <2>4, <2>5, <2>6, <2>7, <2>8, <2>9, <2>10, <2>11,
       <2>12, <2>13, <2>14, <2>15, <2>16, <2>17, <2>18, <2>19 DEF Sm
<1>2. CASE ~Sm
  BY <1>2 DEF Next, Callback, InitHwCb, InitFwCb, ConfigFwCb, InitFailCb, TwdStopCb,
              TwdStopCbIgnored, SmeStop, Complete, InsertAction, WaitReturns,
              IgnoreAction, InvokeAction, SendFailureEvent, GetExpiry, HandleExpiry,
              vars
<1> QED BY <1>1, <1>2

LEMMA NormalInvStep ==
    ActionInv /\ NormalInv /\ [Next]_vars /\ ~fault' => NormalInv'
<1> SUFFICES ASSUME ActionInv, NormalInv, [Next]_vars, ~fault'
             PROVE  ServedInv' /\ FailTimerInv' /\ LastActionInv'
  BY LifeInvStep, FailedStep DEF NormalInv, ServedInv
<1> USE ExpectedStates, ExpectedEvents
<1>b. bRecovery \in BOOLEAN
  BY DEF NormalInv, LifeInv, RecoveryInv
<1>1. CASE Sm
  BY <1>1, NormalInvSm
<1>2. CASE InitHwCb \/ InitFwCb \/ ConfigFwCb
  <2>1. /\ UNCHANGED <<eSmState, eLastAction, bRecovery, smeStopping, powered, hFailTimer, failOper>>
        /\ uPendingEventsCount' = 1 /\ uPendingEventsCount = 0
        /\ \/ twd = "hwInit" /\ ePendingEvent' = "HW_INIT_COMPLETE"
           \/ twd = "fwInit" /\ ePendingEvent' = "FW_INIT_COMPLETE"
           \/ twd = "config" /\ ePendingEvent' = "FW_CONFIG_COMPLETE"
    BY <1>2 DEF InitHwCb, InitFwCb, ConfigFwCb, Complete, SmEvent
  <2>2. \/ eSmState = "HW_INIT" /\ ePendingEvent' = "HW_INIT_COMPLETE"
        \/ eSmState \in {"WAIT_FW_FILE", "FW_INIT"} /\ ePendingEvent' = "FW_INIT_COMPLETE"
        \/ eSmState = "FW_CONFIG" /\ ePendingEvent' = "FW_CONFIG_COMPLETE"
    BY <2>1 DEF NormalInv, LifeInv, EventInv
  <2> QED BY <2>1, <2>2, <1>b DEF NormalInv, ServedInv, LastActionInv, FailTimerInv,
               InitStates
<1>3. CASE InitFailCb
  BY <1>3 DEF InitFailCb, Complete
<1>4. CASE TwdStopCb
  <2>1. /\ UNCHANGED <<eSmState, eLastAction, bRecovery, smeStopping, powered, hFailTimer, failOper>>
        /\ uPendingEventsCount' = 1 /\ ePendingEvent' = "STOP_COMPLETE" /\ eSmState = "STOPPING"
    BY <1>4 DEF TwdStopCb, Complete, SmEvent
  <2> QED BY <2>1, <1>b DEF NormalInv, ServedInv, LastActionInv, FailTimerInv, InitStates
<1>5. CASE TwdStopCbIgnored
  BY <1>5 DEF TwdStopCbIgnored, NormalInv, ServedInv, LifeInv, EventInv
<1>6. CASE SmeStop
  <2>1. /\ UNCHANGED <<eSmState, eLastAction, bRecovery, powered, hFailTimer, failOper>>
        /\ smeStopping /\ ~smeStopping' /\ uPendingEventsCount' = 1
        /\ ePendingEvent' = "DISCONNECTED" /\ Quiet
    BY <1>6 DEF SmeStop, SmEvent
  <2>2. eSmState = "DISCONNECTING"
    BY <2>1 DEF NormalInv, ServedInv
  <2> QED BY <2>1, <2>2, <1>b DEF NormalInv, ServedInv, LastActionInv, FailTimerInv,
               InitStates
<1>7. CASE (\E a \in Actions : InsertAction(a)) \/ WaitReturns \/ IgnoreAction \/ UNCHANGED vars
  <2>1. UNCHANGED <<eSmState, ePendingEvent, uPendingEventsCount, eLastAction, bRecovery,
                    smeStopping, powered, hFailTimer, failOper>>
    BY <1>7 DEF InsertAction, WaitReturns, IgnoreAction, vars
  <2> QED BY <2>1, <1>b DEF NormalInv, ServedInv, LastActionInv, FailTimerInv, InitStates
<1>8. CASE InvokeAction
  <2>1. /\ UNCHANGED <<eSmState, bRecovery, smeStopping, powered, hFailTimer, failOper>>
        /\ uPendingEventsCount' = 1 /\ uPendingEventsCount = 0 /\ actionEnabled
        /\ ePendingEvent' = eLastAction' /\ eLastAction' \in {"START", "STOP"}
        /\ eLastAction' # eLastAction
    BY <1>8 DEF InvokeAction, Dequeue, SmEvent, TypeOf
  <2>2. eSmState \in {"IDLE", "OPERATIONAL", "STOPPED"} /\ ~bRecovery
    BY <2>1 DEF ActionInv, EnabledInv, NormalInv, ServedInv, LastActionInv, LifeInv,
                RecoveryInv, InitStates
  <2>3. eSmState = "IDLE" => eLastAction' = "START"
    BY <1>8, <2>1 DEF InvokeAction
  <2>4. eSmState = "OPERATIONAL" => eLastAction' = "STOP"
    BY <2>1 DEF NormalInv, LastActionInv
  <2>5. eSmState = "STOPPED" => eLastAction' = "START"
    BY <2>1 DEF NormalInv, LastActionInv, InitStates
  <2> QED BY <2>1, <2>2, <2>3, <2>4, <2>5, <1>b
          DEF NormalInv, ServedInv, LastActionInv, FailTimerInv
<1>9. CASE SendFailureEvent
  <2>1. /\ UNCHANGED <<eSmState, ePendingEvent, uPendingEventsCount, eLastAction, bRecovery,
                    smeStopping, powered>>
        /\ hFailTimer' = "running" /\ failOper' = bOperState /\ eSmState = "OPERATIONAL"
    BY <1>9 DEF SendFailureEvent
  <2>2. failOper'
    BY <2>1 DEF NormalInv, LifeInv, OperationalInv
  <2> QED BY <2>1, <2>2, <1>b DEF NormalInv, ServedInv, LastActionInv, FailTimerInv,
               InitStates
<1>10. CASE GetExpiry
  <2>1. /\ UNCHANGED <<eSmState, ePendingEvent, uPendingEventsCount, eLastAction, bRecovery,
                    smeStopping, powered, failOper>>
        /\ failOper => hFailTimer' = "operQueue"
        /\ hFailTimer = "running"
    BY <1>10 DEF GetExpiry
  <2> QED BY <2>1, <1>b DEF NormalInv, ServedInv, LastActionInv, FailTimerInv, InitStates
<1>11. CASE HandleExpiry
  <2>1. /\ UNCHANGED <<eSmState, eLastAction, smeStopping, powered, failOper>>
        /\ ePendingEvent' = "RECOVERY" /\ uPendingEventsCount' = 1 /\ Quiet
        /\ hFailTimer' = "off"
    BY <1>11 DEF HandleExpiry, SmEvent
  <2>2. bRecovery' = TRUE
    BY <1>11 DEF HandleExpiry
  <2>3. eSmState = "OPERATIONAL"
    BY <1>11 DEF HandleExpiry, NormalInv, FailTimerInv, LifeInv, OperationalInv
  <2>4. eLastAction = "START"
    BY <2>1, <2>3 DEF NormalInv, LastActionInv
  <2>5. ServedInv'
    BY <2>1, <2>2, <2>3 DEF NormalInv, ServedInv
  <2>6. LastActionInv' /\ FailTimerInv'
    BY <2>1, <2>3, <2>4 DEF LastActionInv, FailTimerInv
  <2> QED BY <2>5, <2>6
<1> QED
  BY <1>1, <1>2, <1>3, <1>4, <1>5, <1>6, <1>7, <1>8, <1>9, <1>10, <1>11
     DEF Next, Callback

LEMMA NormalInvInit == Init => NormalInv
<1> SUFFICES ASSUME Init PROVE NormalInv
  OBVIOUS
<1>1. ServedInv
  BY DEF Init, ServedInv
<1>2. FailTimerInv /\ LastActionInv
  BY DEF Init, FailTimerInv, LastActionInv
<1> QED BY <1>1, <1>2, LifeInvInit DEF Init, NormalInv

\* A fault is never forgotten.
LEMMA FaultStays == fault /\ [Next]_vars => fault'
<1> SUFFICES ASSUME fault, [Next]_vars PROVE fault'
  OBVIOUS
<1>1. CASE Sm
  <2>1. CASE SmIdle
    BY <2>1 DEF SmIdle
  <2>2. CASE SmWaitIniFile
    BY <2>2 DEF SmWaitIniFile
  <2>3. CASE SmWaitNvsFile
    BY <2>3 DEF SmWaitNvsFile
  <2>4. CASE SmConnectFails
    BY <2>4 DEF SmConnectFails
  <2>5. CASE SmHwInit
    BY <2>5 DEF SmHwInit, GetFwFile
  <2>6. CASE SmDownloadFwFile
    BY <2>6 DEF SmDownloadFwFile
  <2>7. CASE SmWaitFwFile
    BY <2>7 DEF SmWaitFwFile, GetFwFile
  <2>8. CASE SmFwInit
    BY <2>8 DEF SmFwInit
  <2>9. CASE SmFwConfig
    BY <2>9 DEF SmFwConfig
  <2>10. CASE SmStop
    BY <2>10 DEF SmStop
  <2>11. CASE SmRecovery
    BY <2>11 DEF SmRecovery
  <2>12. CASE SmDisconnecting
    BY <2>12 DEF SmDisconnecting
  <2>13. CASE SmStoppingRecovery
    BY <2>13 DEF SmStoppingRecovery
  <2>14. CASE SmStopping
    BY <2>14 DEF SmStopping
  <2>15. CASE SmStopped
    BY <2>15 DEF SmStopped
  <2>16. CASE SmStoppedOther
    BY <2>16 DEF SmStoppedOther
  <2>17. CASE SmStoppingOnFail
    BY <2>17 DEF SmStoppingOnFail
  <2>18. CASE SmFailed
    BY <2>18 DEF SmFailed
  <2>19. CASE SmUnexpected
    BY <2>19 DEF SmUnexpected
  <2> QED
    BY <1>1, <2>1, <2>2, <2>3, <2>4, <2>5, <2>6, <2>7, <2>8, <2>9, <2>10, <2>11,
       <2>12, <2>13, <2>14, <2>15, <2>16, <2>17, <2>18, <2>19 DEF Sm
<1>2. CASE Callback
  BY <1>2 DEF Callback, InitHwCb, InitFwCb, ConfigFwCb, InitFailCb, TwdStopCb,
              TwdStopCbIgnored, SmeStop, Complete
<1>3. CASE (\E a \in Actions : InsertAction(a)) \/ WaitReturns
  BY <1>3 DEF InsertAction, WaitReturns
<1>4. CASE IgnoreAction \/ InvokeAction
  BY <1>4 DEF IgnoreAction, InvokeAction
<1>5. CASE SendFailureEvent \/ GetExpiry \/ HandleExpiry
  BY <1>5 DEF SendFailureEvent, GetExpiry, HandleExpiry
<1>6. CASE UNCHANGED vars
  BY <1>6 DEF vars
<1> QED
  BY <1>1, <1>2, <1>3, <1>4, <1>5, <1>6 DEF Next

\* The driver is normal until something outside of it fails.
FaultInv == fault \/ NormalInv

LEMMA FaultInvInit == Init => ActionInv /\ FaultInv
  BY ActionInvInit, NormalInvInit DEF FaultInv

LEMMA FaultInvStep ==
    ActionInv /\ FaultInv /\ [Next]_vars => ActionInv' /\ FaultInv'
  BY ActionInvStep, NormalInvStep, FaultStays DEF FaultInv

\* The driver fails only after an init step has failed, a failure was raised while
\* it was not operational or a STOP came before any START, for any number of
\* actions, failures and recoveries, and whether callers give up or not.
THEOREM FailuresHaveCauses == Spec => []FailureHasCause
<1>1. FaultInv => FailureHasCause
  BY DEF FaultInv, NormalInv, ServedInv, FailureHasCause
<1> QED BY <1>1, FaultInvInit, FaultInvStep, PTL DEF Spec

\* The device is on as long as the TWD is at work, for any number of actions,
\* failures and recoveries; only a stop after a fault may lose it.
THEOREM PoweredIsKept == Spec => []PoweredWhileActive
<1>1. ActionInv /\ FaultInv => PoweredWhileActive
  <2> SUFFICES ASSUME ActionInv, FaultInv, twd # "none"
               PROVE  powered \/ (fault /\ twd = "stop")
    BY DEF PoweredWhileActive
  <2>1. CASE twd = "stop"
    BY <2>1 DEF FaultInv, NormalInv, ServedInv, ActionInv, LifeInv, EventInv
  <2>2. CASE twd # "stop"
    BY <2>2 DEF ActionInv, LifeInv, EventInv, InputInv, OnStates
  <2> QED BY <2>1, <2>2
<1> QED BY <1>1, FaultInvInit, FaultInvStep, PTL DEF Spec

-----------------------------------------------------------------------------
(* The signal objects.                                                     *)

\* The current action is being served: its signal object is still to be set.
Unanswered ==
    /\ ~bRecovery
    /\ \/ eSmState \in InitStates \ {"FW_CONFIG"}
       \/ eSmState \in {"DISCONNECTING", "STOPPING"}
       \/ ~Quiet /\ eSmState \in {"IDLE", "OPERATIONAL", "STOPPED"}

\* Actions are queued once, and answered only after they have left the queue; an
\* action is freed when it was answered or its caller gave up.
CallerInv ==
    /\ dangling \subseteq timedOut /\ freed \subseteq signalled \cup timedOut
    /\ signalled \subseteq inserted
    /\ hActionQueue \in Seq(Actions)
    /\ \A i \in 1 .. Len(hActionQueue) :
           /\ hActionQueue[i] \in inserted \ signalled
           /\ Unanswered => hActionQueue[i] # pCurrAction
    /\ \A i, j \in 1 .. Len(hActionQueue) :
           i # j => hActionQueue[i] # hActionQueue[j]
    /\ Unanswered => pCurrAction \in inserted \ signalled

\* Steps that answer nothing and begin to serve nothing.
LEMMA CallerInvStutter ==
    CallerInv /\ UNCHANGED <<signal, user, hActionQueue, pCurrAction>>
              /\ (Unanswered' => Unanswered)
        => CallerInv'
  BY DEF CallerInv

\* The current action is answered.
LEMMA CallerInvUnblock ==
    ASSUME CallerInv, Unblock, UNCHANGED <<user, hActionQueue, pCurrAction>>,
           ~Unanswered', bRecovery \/ Unanswered
    PROVE  CallerInv'
<1>1. CASE bRecovery
  BY <1>1, CallerInvStutter DEF Unblock
<1>2. CASE ~bRecovery
  <2>1. pCurrAction \in inserted \ signalled
    BY <1>2 DEF CallerInv
  <2>2. /\ signalled' \subseteq signalled \cup {pCurrAction}
        /\ signalled \subseteq signalled' /\ dangling' \subseteq timedOut
    BY <1>2, <2>1 DEF Unblock, SignalObjectSet, CallerInv
  <2>3. \A i \in 1 .. Len(hActionQueue) : hActionQueue[i] # pCurrAction
    BY <1>2 DEF CallerInv
  <2> QED BY <2>1, <2>2, <2>3 DEF CallerInv
<1> QED BY <1>1, <1>2

LEMMA CallerInvSm ==
    NormalInv /\ CallerInv /\ Sm /\ ~fault' => CallerInv'
<1> SUFFICES ASSUME NormalInv, CallerInv, Sm, ~fault' PROVE CallerInv'
  OBVIOUS
<1>a. uPendingEventsCount = 1 /\ ~Quiet
  BY DEF NormalInv, ServedInv, Sm, SmIdle, SmWaitIniFile, SmWaitNvsFile,
         SmConnectFails, SmHwInit, SmDownloadFwFile, SmWaitFwFile, SmFwInit,
         SmFwConfig, SmStop, SmRecovery, SmDisconnecting, SmStoppingRecovery,
         SmStopping, SmStopped, SmStoppedOther, SmStoppingOnFail, SmFailed,
         SmUnexpected
<1>1. CASE SmIdle \/ SmWaitIniFile \/ SmStopped
  BY <1>1, <1>a, CallerInvStutter
     DEF SmIdle, SmWaitIniFile, SmStopped, GetFile, Unanswered, InitStates
<1>2. CASE SmWaitNvsFile \/ SmHwInit \/ SmDownloadFwFile \/ SmWaitFwFile
  <2>1. eSmState \in InitStates \ {"FW_CONFIG"} /\ UNCHANGED bRecovery
    BY <1>2 DEF SmWaitNvsFile, SmHwInit, SmDownloadFwFile, SmWaitFwFile, InitStates
  <2> QED BY <1>2, <2>1, CallerInvStutter
          DEF SmWaitNvsFile, SmHwInit, SmDownloadFwFile, SmWaitFwFile, Unanswered
<1>3. CASE SmConnectFails
  BY <1>3 DEF SmConnectFails
<1>4. CASE SmFwInit
  <2>1. Unblock /\ UNCHANGED <<user, hActionQueue, pCurrAction, bRecovery>>
        /\ eSmState = "FW_INIT" /\ eSmState' = "FW_CONFIG"
    BY <1>4 DEF SmFwInit
  <2>2. ~Unanswered' /\ (bRecovery \/ Unanswered)
    BY <2>1 DEF Unanswered, InitStates
  <2> QED BY <2>1, <2>2, CallerInvUnblock
<1>5. CASE SmFwConfig
  BY <1>5, <1>a, CallerInvStutter DEF SmFwConfig, Stored, Unanswered, InitStates
<1>6. CASE SmStop
  BY <1>6, <1>a, CallerInvStutter DEF SmStop, Unanswered
<1>7. CASE SmRecovery
  <2>1. eSmState = "OPERATIONAL" /\ UNCHANGED bRecovery
    BY <1>7 DEF SmRecovery
  <2> QED BY <1>7, <2>1, <1>a, CallerInvStutter DEF SmRecovery, Unanswered
<1>8. CASE SmDisconnecting
  BY <1>8, CallerInvStutter DEF SmDisconnecting, Unanswered
<1>9. CASE SmStoppingRecovery
  BY <1>9, CallerInvStutter DEF SmStoppingRecovery, Unanswered
<1>10. CASE SmStopping
  <2>1. Unblock /\ UNCHANGED <<user, hActionQueue, pCurrAction, bRecovery>> /\ ~bRecovery
        /\ eSmState = "STOPPING" /\ eSmState' = "STOPPED" /\ uPendingEventsCount' = 0
    BY <1>10, <1>a DEF SmStopping, Stored
  <2>2. ~Unanswered' /\ Unanswered
    BY <2>1 DEF Unanswered, InitStates
  <2> QED BY <2>1, <2>2, CallerInvUnblock
<1>11. CASE SmStoppedOther
  BY <1>11, <1>a DEF SmStoppedOther, NormalInv, ServedInv
<1>12. CASE SmStoppingOnFail \/ SmFailed
  BY <1>12 DEF SmStoppingOnFail, SmFailed, NormalInv, ServedInv
<1>13. CASE SmUnexpected
  BY <1>13, <1>a DEF SmUnexpected, NormalInv, ServedInv
<1> QED
  BY <1>1, <1>2, <1>3, <1>4, <1>5, <1>6, <1>7, <1>8, <1>9, <1>10, <1>11, <1>12,
     <1>13 DEF Sm

\* The action that leaves the queue is not answered, and no other entry is it.
LEMMA DequeueCaller ==
    ASSUME ActionInv, NormalInv, CallerInv, Dequeue
    PROVE  /\ Head(hActionQueue) \in inserted \ signalled /\ ~Unanswered
           /\ hActionQueue' \in Seq(Actions)
           /\ \A i \in 1 .. Len(hActionQueue') :
                  /\ hActionQueue'[i] \in inserted \ signalled
                  /\ hActionQueue'[i] # Head(hActionQueue)
           /\ \A i, j \in 1 .. Len(hActionQueue') :
                  i # j => hActionQueue'[i] # hActionQueue'[j]
<1> DEFINE q == hActionQueue
<1>1. /\ q \in Seq(Actions) /\ q # <<>> /\ q' = Tail(q) /\ Len(q) \in Nat
      /\ Quiet /\ actionEnabled
  BY DEF Dequeue, CallerInv
<1>2. /\ Head(q) = q[1] /\ 1 \in 1 .. Len(q) /\ Len(q') = Len(q) - 1
      /\ q' \in Seq(Actions)
      /\ \A i \in 1 .. Len(q') : q'[i] = q[i + 1] /\ i + 1 \in 1 .. Len(q)
  BY <1>1
<1>3. ~Unanswered
  BY <1>1 DEF Unanswered, ActionInv, EnabledInv, NormalInv, InitStates
<1>4. \A i, j \in 1 .. Len(q) : q[i] \in inserted \ signalled /\ (i # j => q[i] # q[j])
  BY DEF CallerInv
<1>5. \A i \in 1 .. Len(q') : q'[i] \in inserted \ signalled /\ q'[i] # Head(q)
  <2> TAKE i \in 1 .. Len(q')
  <2>1. q'[i] = q[i + 1] /\ i + 1 \in 1 .. Len(q) /\ i + 1 # 1
    BY <1>1, <1>2
  <2> QED BY <2>1, <1>2, <1>4
<1>6. \A i, j \in 1 .. Len(q') : i # j => q'[i] # q'[j]
  <2> TAKE i, j \in 1 .. Len(q')
  <2>1. /\ q'[i] = q[i + 1] /\ i + 1 \in 1 .. Len(q)
        /\ q'[j] = q[j + 1] /\ j + 1 \in 1 .. Len(q)
        /\ i # j => i + 1 # j + 1
    BY <1>1, <1>2
  <2> QED BY <2>1, <1>4
<1> QED BY <1>2, <1>3, <1>4, <1>5, <1>6

LEMMA CallerInvStep ==
    ActionInv /\ NormalInv /\ CallerInv /\ [Next]_vars /\ ~fault' => CallerInv'
<1> SUFFICES ASSUME ActionInv, NormalInv, CallerInv, [Next]_vars, ~fault'
             PROVE  CallerInv'
  OBVIOUS
<1>1. CASE Sm
  BY <1>1, CallerInvSm
<1>2. CASE Callback
  <2>1. UNCHANGED <<signal, user, hActionQueue, pCurrAction, eSmState, bRecovery>>
    BY <1>2 DEF Callback, InitHwCb, InitFwCb, ConfigFwCb, InitFailCb, TwdStopCb,
                TwdStopCbIgnored, SmeStop, Complete
  <2>2. twd # "none" \/ smeStopping
    BY <1>2 DEF Callback, InitHwCb, InitFwCb, ConfigFwCb, InitFailCb, TwdStopCb,
                TwdStopCbIgnored, SmeStop, Complete
  <2>3. eSmState \notin {"IDLE", "OPERATIONAL", "STOPPED"}
    BY <2>2 DEF NormalInv, LifeInv, EventInv, ServedInv
  <2> QED BY <2>1, <2>3, CallerInvStutter DEF Unanswered
<1>3. ASSUME NEW a \in Actions, InsertAction(a) PROVE CallerInv'
  <2> DEFINE q == hActionQueue
  <2>1. /\ a \notin inserted /\ inserted' = inserted \cup {a} /\ q' = Append(q, a)
        /\ UNCHANGED <<signal, freed, timedOut, sm, bRecovery, pCurrAction>>
    BY <1>3 DEF InsertAction
  <2>2. Unanswered' <=> Unanswered
    BY <2>1 DEF Unanswered
  <2>3. /\ q \in Seq(Actions) /\ Len(q) \in Nat /\ q' \in Seq(Actions)
        /\ Len(q') = Len(q) + 1 /\ q'[Len(q) + 1] = a
        /\ \A i \in 1 .. Len(q) : q'[i] = q[i]
    BY <2>1 DEF CallerInv
  <2>4. \A i \in 1 .. Len(q') : i \in 1 .. Len(q) \/ i = Len(q) + 1
    BY <2>3
  <2>5. \A i \in 1 .. Len(q) : q[i] \in inserted \ signalled
    BY DEF CallerInv
  <2>6. a \notin signalled /\ (Unanswered => pCurrAction \in inserted)
    BY <2>1 DEF CallerInv
  <2>7. \A i \in 1 .. Len(q') :
            q'[i] \in inserted' \ signalled' /\ (Unanswered' => q'[i] # pCurrAction')
    <3> TAKE i \in 1 .. Len(q')
    <3>1. CASE i \in 1 .. Len(q)
      BY <3>1, <2>1, <2>2, <2>3 DEF CallerInv
    <3>2. CASE i = Len(q) + 1
      BY <3>2, <2>1, <2>2, <2>3, <2>6
    <3> QED BY <3>1, <3>2, <2>4
  <2>8. \A i, j \in 1 .. Len(q') : i # j => q'[i] # q'[j]
    <3> TAKE i, j \in 1 .. Len(q')
    <3>1. CASE i \in 1 .. Len(q) /\ j \in 1 .. Len(q)
      BY <3>1, <2>3 DEF CallerInv
    <3>2. CASE i \in 1 .. Len(q) /\ j = Len(q) + 1
      BY <3>2, <2>1, <2>3, <2>5
    <3>3. CASE i = Len(q) + 1 /\ j \in 1 .. Len(q)
      BY <3>3, <2>1, <2>3, <2>5
    <3> QED BY <3>1, <3>2, <3>3, <2>4
  <2> QED BY <2>1, <2>2, <2>3, <2>7, <2>8 DEF CallerInv
<1>4. CASE WaitReturns
  <2>1. /\ freed' = freed \cup {caller} /\ timedOut \subseteq timedOut'
        /\ caller \in signalled \cup timedOut'
        /\ UNCHANGED <<signal, inserted, sm, bRecovery, hActionQueue, pCurrAction>>
    BY <1>4 DEF WaitReturns
  <2>2. Unanswered' <=> Unanswered
    BY <2>1 DEF Unanswered
  <2> QED BY <2>1, <2>2 DEF CallerInv
<1>5. CASE IgnoreAction
  <2>1. Dequeue /\ SignalObjectSet(Head(hActionQueue))
        /\ UNCHANGED <<user, sm, bRecovery, pCurrAction>>
    BY <1>5 DEF IgnoreAction
  <2>2. ~Unanswered'
    BY <2>1, DequeueCaller DEF Unanswered
  <2>3. Head(hActionQueue) \in inserted \ signalled
    BY <2>1, DequeueCaller
  <2>4. /\ signalled' \subseteq signalled \cup {Head(hActionQueue)}
        /\ signalled \subseteq signalled' /\ dangling' \subseteq timedOut
    BY <2>1, <2>3 DEF SignalObjectSet, CallerInv
  <2> QED BY <2>1, <2>2, <2>3, <2>4, DequeueCaller DEF CallerInv
<1>6. CASE InvokeAction
  <2>1. Dequeue /\ pCurrAction' = Head(hActionQueue) /\ UNCHANGED <<user, signal>>
    BY <1>6 DEF InvokeAction
  <2> QED BY <2>1, DequeueCaller DEF CallerInv
<1>7. CASE SendFailureEvent \/ GetExpiry \/ UNCHANGED vars
  BY <1>7, CallerInvStutter DEF SendFailureEvent, GetExpiry, vars, Unanswered
<1>8. CASE HandleExpiry
  BY <1>8, CallerInvStutter DEF HandleExpiry, Unanswered
<1> QED
  BY <1>1, <1>2, <1>3, <1>4, <1>5, <1>6, <1>7, <1>8 DEF Next

\* Until something outside of the driver fails, no signal object is set after its
\* caller has freed it unless that caller gave up, for any number of actions, and
\* of recoveries that answer nothing.
THEOREM SignalsAreLive == Spec => []SignalsLiveAction
<1> DEFINE Inv == ActionInv /\ FaultInv /\ (fault \/ CallerInv)
<1>1. Init => Inv
  <2>1. Init => ~Unanswered
    BY DEF Init, Unanswered, InitStates
  <2>2. Init => CallerInv
    BY <2>1 DEF Init, CallerInv
  <2> QED BY <2>2, FaultInvInit
<1>2. Inv /\ [Next]_vars => Inv'
  BY FaultInvStep, CallerInvStep, FaultStays DEF FaultInv
<1>3. Inv => SignalsLiveAction
  BY DEF CallerInv, SignalsLiveAction
<1> QED BY <1>1, <1>2, <1>3, PTL DEF Spec

=============================================================================
