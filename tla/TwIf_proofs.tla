---------------------------- MODULE TwIf_proofs ----------------------------
(***************************************************************************)
(* Proofs about TwIf, for any transactions, counter width and number of    *)
(* restarts: type correctness, the balance of the wake lock, the state in  *)
(* which a restart leaves the transaction queue, and, up to the first      *)
(* restart, the count of pending transactions and what wakes the device.   *)
(***************************************************************************)
EXTENDS TwIf, SequenceTheorems, FiniteSetTheorems, TLAPS

USE TxnsAssumption, CountersAssumption
USE DEF Elp, AllTxns

\* The values twif counters, state machine and the slot of TxnQ take.
SmTyped ==
    /\ eState \in {"AWAKE", "SLEEP", "WAIT_HW"}
    /\ qState \in {"RUNNING", "STOPPED", "RESTART"}
    /\ slot \in Elp \cup {None}
    /\ wakeLocks \in Int

\* The clients' awake requests stay within their bound, with FwEvent's and that
\* of TWD_InitHw.
AwakeBounded ==
    uAwakeReqCount <= MaxAwake + (IF fwAwake THEN 1 ELSE 0) + (IF started THEN 1 ELSE 0)

\* The type invariant with what it takes to be inductive.
Typing == TypeOK /\ AwakeBounded

NoDup(s) == \A i, j \in DOMAIN s : s[i] = s[j] => i = j

LEMMA ElementsAppend ==
    ASSUME NEW s \in Seq(Txns), NoDup(s), NEW t \in Txns, t \notin Elements(s)
    PROVE  NoDup(Append(s, t)) /\ Elements(Append(s, t)) = Elements(s) \cup {t}
<1> DEFINE p == Append(s, t)
<1>1. /\ Len(p) = Len(s) + 1 /\ p[Len(s) + 1] = t
      /\ \A i \in 1 .. Len(s) : p[i] = s[i]
      BY AppendProperties
<1>2. /\ Len(s) \in Nat /\ DOMAIN s = 1 .. Len(s) /\ DOMAIN p = 1 .. Len(p)
      BY AppendProperties, LenProperties
<1> HIDE DEF p
<1>3. DOMAIN p = DOMAIN s \cup {Len(s) + 1} /\ Len(s) + 1 \notin DOMAIN s
      BY <1>1, <1>2
<1>4. NoDup(p)
      BY <1>1, <1>2, <1>3 DEF NoDup, Elements
<1>5. Elements(p) = Elements(s) \cup {t}
      BY <1>1, <1>2, <1>3 DEF Elements
<1> QED BY <1>4, <1>5 DEF p

LEMMA ElementsTail ==
    ASSUME NEW s \in Seq(Txns), NoDup(s), s # <<>>
    PROVE  /\ NoDup(Tail(s)) /\ Head(s) \in Elements(s)
           /\ Elements(Tail(s)) = Elements(s) \ {Head(s)}
<1> DEFINE p == Tail(s)
<1>1. /\ Len(p) = Len(s) - 1 /\ \A i \in 1 .. Len(p) : p[i] = s[i + 1]
      /\ Head(s) = s[1]
      BY HeadTailProperties
<1>2. /\ Len(s) \in Nat \ {0} /\ DOMAIN s = 1 .. Len(s) /\ DOMAIN p = 1 .. Len(p)
      BY HeadTailProperties, LenProperties, EmptySeq
<1> HIDE DEF p
<1>3. \A i \in DOMAIN p : i + 1 \in DOMAIN s /\ i + 1 # 1 /\ p[i] = s[i + 1]
      BY <1>1, <1>2
<1>4. \A i \in DOMAIN s : i = 1 \/ (i - 1 \in DOMAIN p /\ p[i - 1] = s[i])
      BY <1>1, <1>2
<1>5. 1 \in DOMAIN s
      BY <1>2
<1>6. NoDup(p)
  <2> SUFFICES ASSUME NEW i \in DOMAIN p, NEW j \in DOMAIN p, p[i] = p[j] PROVE i = j
      BY DEF NoDup
  <2>1. i + 1 = j + 1
        BY <1>3 DEF NoDup
  <2> QED BY <1>1, <1>2, <2>1
<1>7. \A u \in Elements(p) : u \in Elements(s) /\ u # Head(s)
      BY <1>1, <1>3, <1>5 DEF Elements, NoDup
<1>8. \A u \in Elements(s) : u # Head(s) => u \in Elements(p)
      BY <1>1, <1>4 DEF Elements
<1>9. Head(s) \in Elements(s)
      BY <1>1, <1>5 DEF Elements
<1> QED BY <1>6, <1>7, <1>8, <1>9 DEF p

LEMMA ElementsIn == ASSUME NEW s \in Seq(Txns) PROVE Elements(s) \subseteq Txns
  BY LenProperties, ElementOfSeq DEF Elements

LEMMA ElementsEmpty ==
    ASSUME NEW s \in Seq(Txns) PROVE Elements(s) = {} <=> s = <<>>
<1>1. /\ Len(s) \in Nat /\ DOMAIN s = 1 .. Len(s) /\ (s = <<>> <=> Len(s) = 0)
      BY LenProperties, EmptySeq
<1>2. Len(s) # 0 => s[1] \in Elements(s)
      BY <1>1 DEF Elements
<1>3. Len(s) = 0 => Elements(s) = {}
      BY <1>1 DEF Elements
<1> QED BY <1>1, <1>2, <1>3

LEMMA DecrementGuardedType ==
    ASSUME NEW n \in 0 .. UINT - 1 PROVE DecrementGuarded(n) \in 0 .. UINT - 1
  BY DEF DecrementGuarded

LEMMA ModType ==
    ASSUME NEW n \in Nat PROVE n % UINT \in 0 .. UINT - 1
  OBVIOUS

LEMMA DecrementType ==
    ASSUME NEW n \in 0 .. UINT - 1 PROVE Decrement(n) \in 0 .. UINT - 1
  BY n + UINT - 1 \in Nat, ModType DEF Decrement

\* What each event of the SM, with the check before it, does to the SM's type.
LEMMA SmTypes ==
    ASSUME SmTyped, SmSleep \/ SmStart \/ SmHwAvailable \/ SleepIfIdle \/ UNCHANGED sm
    PROVE  SmTyped'
  BY DEF SmTyped, SmSleep, SmStart, SmHwAvailable, SleepIfIdle, sm

LEMMA TypingInit == Init => Typing
<1> SUFFICES ASSUME Init PROVE Typing
  OBVIOUS
<1>1. hTxnDoneQueue \in Seq(Txns) /\ waiting \in Seq(Txns)
  BY DEF Init
<1>2. uAwakeReqCount \in 0 .. UINT - 1 /\ uPendingTxnCount \in 0 .. UINT - 1
  BY DEF Init
<1>3. /\ bTxnDoneInRecovery \in BOOLEAN /\ bPendRestartTimerRunning \in BOOLEAN
      /\ expiryQueued \in BOOLEAN /\ inCb \in BOOLEAN /\ scheduled \in BOOLEAN
      /\ started \in BOOLEAN /\ fwAwake \in BOOLEAN /\ recovering \in BOOLEAN
      /\ errReported \in BOOLEAN /\ old \subseteq Txns
  BY DEF Init
<1> QED
  BY <1>1, <1>2, <1>3 DEF Init, Typing, TypeOK, AwakeBounded

LEMMA TypingStep == Typing /\ [Next]_vars => Typing'
<1> SUFFICES ASSUME Typing, [Next]_vars PROVE Typing'
  OBVIOUS
<1> USE DEF Typing, AwakeBounded, twif, sm, timer, txnq, ctx, life
<1>sm. SmTyped
  BY DEF TypeOK, SmTyped
<1>1. CASE Awake
  BY <1>1 DEF Awake, TypeOK
<1>2. ASSUME SleepCall,
             uAwakeReqCount > (IF fwAwake THEN 1 ELSE 0) \/ fwAwake' = FALSE,
             fwAwake' \in BOOLEAN, fwAwake' => fwAwake,
             UNCHANGED <<timer, txnq, ctx, life>>
      PROVE  TypeOK'
  <2>1. SmTyped'
    BY <1>2, <1>sm, SmTypes DEF SleepCall
  <2>2. uAwakeReqCount' \in 0 .. UINT - 1
    BY <1>2, DecrementGuardedType DEF SleepCall, TypeOK
  <2> QED BY <1>2, <2>1, <2>2 DEF SleepCall, TypeOK, SmTyped
<1>3. CASE Sleep
  <2>1. TypeOK'
    BY <1>2, <1>3 DEF Sleep, TypeOK
  <2> QED BY <1>3, <2>1 DEF Sleep, SleepCall, DecrementGuarded, TypeOK
<1>4. CASE FwInterrupt \/ StaleStatus
  <2>1. ReadIntrInfo
    BY <1>4 DEF FwInterrupt, StaleStatus
  <2>2. SmTyped'
    BY <2>1, <1>sm, SmTypes DEF ReadIntrInfo
  <2> QED BY <2>1, <2>2 DEF ReadIntrInfo, TypeOK, SmTyped
<1>4a. CASE InitHw
  <2>1. SmTyped'
    BY <1>4a, <1>sm, SmTypes DEF InitHw
  <2> QED BY <1>4a, <2>1 DEF InitHw, TypeOK, SmTyped
<1>5. CASE FwSleep
  <2>1. TypeOK'
    BY <1>2, <1>5 DEF FwSleep
  <2> QED BY <1>5, <2>1 DEF FwSleep, SleepCall, DecrementGuarded, TypeOK
<1>6. ASSUME NEW t \in Txns, Transact(t) PROVE Typing'
  <2>1. uPendingTxnCount' \in 0 .. UINT - 1
    BY <1>6, uPendingTxnCount + 1 \in Nat, ModType DEF Transact, TypeOK
  <2>2. waiting' \in Seq(Txns)
    BY <1>6 DEF Transact, TypeOK
  <2>3. old' \subseteq Txns
    BY <1>6 DEF Transact, TypeOK
  <2> QED BY <1>6, <2>1, <2>2, <2>3 DEF Transact, TypeOK
<1>7. CASE TransactPending
  <2>1. SmTyped'
    BY <1>7, <1>sm, SmTypes DEF TransactPending
  <2>2. inCb' \in BOOLEAN /\ pc' \in {"idle", "cb"} /\ cur' = None
    BY <1>7 DEF TransactPending, BackToCaller
  <2> QED BY <1>7, <2>1, <2>2 DEF TransactPending, BackToCaller, TypeOK, SmTyped
<1>8. ASSUME NEW e \in BOOLEAN, TransactDone(e) PROVE Typing'
  <2>1. SmTyped'
    BY <1>8, <1>sm, SmTypes DEF TransactDone
  <2>2. uPendingTxnCount' \in 0 .. UINT - 1
    BY <1>8, DecrementType DEF TransactDone, TypeOK
  <2>3. errReported' \in BOOLEAN
    BY <1>8 DEF TransactDone, TypeOK
  <2> QED BY <1>8, <2>1, <2>2, <2>3 DEF TransactDone, BackToCaller, TypeOK, SmTyped
<1>9. CASE HandleRecovery
  <2>1. /\ scheduled' \in BOOLEAN /\ bTxnDoneInRecovery' \in BOOLEAN
        /\ bPendRestartTimerRunning' \in BOOLEAN /\ recovering' \in BOOLEAN
    BY <1>9 DEF HandleRecovery
  <2> QED BY <1>9, <2>1 DEF HandleRecovery, TypeOK
<1>10. CASE HandleTxnDone
  <2>1. scheduled' \in BOOLEAN
    BY <1>10 DEF HandleTxnDone
  <2> QED BY <1>10, <2>1 DEF HandleTxnDone, TypeOK
<1>11. CASE HandleNext
  <2>1. uPendingTxnCount' \in 0 .. UINT - 1
    BY <1>11, DecrementGuardedType DEF HandleNext, TypeOK
  <2>2. hTxnDoneQueue' \in Seq(Txns)
    BY <1>11 DEF HandleNext, TypeOK
  <2>3. pc' \in {"idle", "cb"} /\ errReported' \in BOOLEAN
    BY <1>11 DEF HandleNext, TypeOK
  <2> QED BY <1>11, <2>1, <2>2, <2>3 DEF HandleNext, TypeOK
<1>12. CASE CbReturn
  <2>1. SmTyped'
    BY <1>12, <1>sm, SmTypes DEF CbReturn
  <2> QED BY <1>12, <2>1 DEF CbReturn, TypeOK, SmTyped
<1>13. CASE HandleEnd
  <2>1. SmTyped'
    BY <1>13, <1>sm, SmTypes DEF HandleEnd
  <2> QED BY <1>13, <2>1 DEF HandleEnd, TypeOK, SmTyped
<1>14. CASE PendRestartTimeout
  <2>1. /\ expiryQueued' \in BOOLEAN /\ bPendRestartTimerRunning' \in BOOLEAN
        /\ recovering' \in BOOLEAN
    BY <1>14 DEF PendRestartTimeout
  <2>2. waiting' \in Seq(Txns)
    BY <1>14 DEF PendRestartTimeout, ClearQueues
  <2> QED BY <1>14, <2>1, <2>2 DEF PendRestartTimeout, ClearQueues, TypeOK
<1>r. ASSUME Restarting
      PROVE  /\ started' \in BOOLEAN /\ errReported' \in BOOLEAN /\ fwAwake' \in BOOLEAN
             /\ hTxnDoneQueue' \in Seq(Txns) /\ restarts' \in Nat
             /\ eState' = "SLEEP" /\ wakeLocks' \in Int
             /\ uAwakeReqCount' = 0 /\ uPendingTxnCount' = 0
             /\ AwakeBounded'
  <2>1. /\ started' \in BOOLEAN /\ errReported' \in BOOLEAN /\ fwAwake' \in BOOLEAN
        /\ eState' = "SLEEP"
    BY <1>r DEF Restarting, ResetTwIf
  <2>2. hTxnDoneQueue' \in Seq(Txns)
    BY <1>r DEF Restarting, ResetTwIf
  <2>3. restarts' \in Nat /\ wakeLocks' \in Int
    BY <1>r DEF Restarting, ResetTwIf, TypeOK
  <2>4. uAwakeReqCount' = 0 /\ uPendingTxnCount' = 0 /\ AwakeBounded'
    BY <1>r DEF Restarting, ResetTwIf
  <2> QED BY <2>1, <2>2, <2>3, <2>4
<1>15. CASE RestartComplete
  <2>1. waiting' \in Seq(Txns)
    BY <1>15 DEF RestartComplete, ClearQueues
  <2> QED BY <1>15, <1>r, <2>1 DEF RestartComplete, ClearQueues, TypeOK
<1>16. CASE RestartPending
  <2>1. recovering' \in BOOLEAN /\ bPendRestartTimerRunning' \in BOOLEAN
    BY <1>16 DEF RestartPending
  <2>2. old' \subseteq Txns
    BY <1>16, ElementsIn DEF RestartPending, TypeOK
  <2> QED BY <1>16, <1>r, <2>1, <2>2 DEF RestartPending, TypeOK
<1>17. CASE StartSingleStep
  BY <1>17 DEF StartSingleStep, TypeOK
<1>18. CASE StartQueued
  <2>1. waiting' \in Seq(Txns) /\ onBus' \in Txns
    BY <1>18 DEF StartQueued, TypeOK
  <2> QED BY <1>18, <2>1 DEF StartQueued, TypeOK
<1>19. ASSUME NEW e \in BOOLEAN, Finish(e) PROVE Typing'
  <2>1. failed' \subseteq Txns /\ finished' \subseteq AllTxns
    BY <1>19 DEF Finish, TypeOK
  <2> QED BY <1>19, <2>1 DEF Finish, TypeOK
<1>20. ASSUME NEW t \in Txns \cup Elp, TxnDoneCb(t) PROVE Typing'
  <2>1. uPendingTxnCount' \in 0 .. UINT - 1
    BY <1>20, DecrementGuardedType DEF TxnDoneCb, TypeOK
  <2>2. hTxnDoneQueue' \in Seq(Txns)
    <3>1. hTxnDoneQueue \in Seq(Txns)
      BY DEF TypeOK
    <3>2. CASE t \in WithCb
      <4>1. hTxnDoneQueue' = Append(hTxnDoneQueue, t) /\ t \in Txns
        BY <1>20, <3>2 DEF TxnDoneCb
      <4> QED BY ONLY <3>1, <4>1
    <3>3. CASE t \notin WithCb
      <4>1. hTxnDoneQueue' = hTxnDoneQueue
        BY <1>20, <3>3 DEF TxnDoneCb
      <4> QED BY ONLY <3>1, <4>1
    <3> QED BY <3>2, <3>3
  <2>3. extPc' \in {"idle", "schedule"} /\ finished' \subseteq AllTxns
    BY <1>20 DEF TxnDoneCb, TypeOK
  <2>4. UNCHANGED <<uAwakeReqCount, fwAwake, sm, timer, waiting, onBus, failed,
                    pc, cur, inCb, scheduled, life>>
    BY <1>20 DEF TxnDoneCb
  <2> QED BY <2>1, <2>2, <2>3, <2>4 DEF TypeOK
<1>21. CASE TxnDoneRecovery
  BY <1>21 DEF TxnDoneRecovery, ClearQueues, TypeOK
<1>22. CASE RequestSchedule
  BY <1>22 DEF RequestSchedule, TypeOK
<1>22a. CASE TxnDoneTest
  BY <1>22a DEF TxnDoneTest, TypeOK
<1>23. CASE TimerExpiry
  BY <1>23 DEF TimerExpiry, TypeOK
<1>24. CASE UNCHANGED vars
  BY <1>24 DEF vars, TypeOK
<1> QED
  BY <1>1, <1>3, <1>4, <1>4a, <1>5, <1>6, <1>7, <1>8, <1>9, <1>10, <1>11, <1>12, <1>13,
     <1>14, <1>15, <1>16, <1>17, <1>18, <1>19, <1>20, <1>21, <1>22, <1>22a, <1>23, <1>24
     DEF Next, Client, Driver, Restart, TxnQ

\* Every reachable state is well typed.
LEMMA TypeCorrect == Spec => []TypeOK
<1>1. Typing => TypeOK
  BY DEF Typing
<1> QED
  BY <1>1, TypingInit, TypingStep, PTL DEF Spec

-----------------------------------------------------------------------------
(* The wake lock.                                                          *)

LEMMA WakeLockStep == Typing /\ WakeLockBalanced /\ [Next]_vars => WakeLockBalanced'
<1> SUFFICES ASSUME Typing, WakeLockBalanced, [Next]_vars PROVE WakeLockBalanced'
  OBVIOUS
<1> USE DEF WakeLockBalanced, sm
<1>1. CASE UNCHANGED <<eState, wakeLocks>>
  BY <1>1
\* Each event of the SM that leaves or enters SLEEP writes the ELP register once.
<1>2. CASE SmSleep \/ SmStart \/ SmHwAvailable \/ SleepIfIdle
  BY <1>2 DEF SmSleep, SmStart, SmHwAvailable, SleepIfIdle
\* twIf_Restart enters SLEEP without a write, and compensates for the unlock.
<1>3. CASE ResetTwIf
  BY <1>3 DEF ResetTwIf
<1> QED
  BY <1>1, <1>2, <1>3
     DEF Next, Client, Driver, Restart, TxnQ, Awake, Sleep, SleepCall, InitHw,
         FwInterrupt, StaleStatus, ReadIntrInfo, FwSleep, Transact, TransactPending, TransactDone, HandleRecovery,
         HandleTxnDone, HandleNext, CbReturn, HandleEnd, PendRestartTimeout,
         RestartComplete, RestartPending, Restarting, StartSingleStep,
         StartQueued, Finish, TxnDoneTest, TxnDoneRecovery, RequestSchedule,
         TxnDoneCb, TimerExpiry, ClearQueues, vars

\* TwIf holds one wake lock exactly while the device is not asleep, whatever
\* the number of transactions, awake requests and restarts.
THEOREM WakeLockIsBalanced == Spec => []WakeLockBalanced
<1>1. Init => WakeLockBalanced
  BY DEF Init, WakeLockBalanced
<1> QED
  BY <1>1, TypingInit, TypingStep, WakeLockStep, PTL DEF Spec

-----------------------------------------------------------------------------
(* The end of a restart.                                                   *)

\* What waited as the restart began has left the queue, and RESTART is over.
Clean == Elements(waiting) \cap old = {} /\ qState # "RESTART"

\* Once TxnDone has left word that the restart is through it stays clean until
\* fRecoveryCb is called, whatever callbacks still transact.  Before the first
\* restart there is nothing to leave word of.
RestartInv ==
    /\ recovering /\ bTxnDoneInRecovery => Clean
    /\ restarts = 0 => ~bTxnDoneInRecovery /\ qState # "RESTART" /\ extPc # "clear"

LEMMA ElementsGrow ==
    ASSUME NEW s \in Seq(Txns), NEW t \in Txns
    PROVE  Elements(Append(s, t)) \subseteq Elements(s) \cup {t}
<1> DEFINE p == Append(s, t)
<1>1. /\ Len(p) = Len(s) + 1 /\ p[Len(s) + 1] = t
      /\ \A i \in 1 .. Len(s) : p[i] = s[i]
      BY AppendProperties
<1>2. /\ Len(s) \in Nat /\ DOMAIN s = 1 .. Len(s) /\ DOMAIN p = 1 .. Len(p)
      BY AppendProperties, LenProperties
<1> HIDE DEF p
<1>3. DOMAIN p = DOMAIN s \cup {Len(s) + 1}
      BY <1>1, <1>2
<1> QED BY <1>1, <1>2, <1>3 DEF Elements, p

LEMMA ElementsShrink ==
    ASSUME NEW s \in Seq(Txns), s # <<>> PROVE Elements(Tail(s)) \subseteq Elements(s)
<1> DEFINE p == Tail(s)
<1>1. Len(p) = Len(s) - 1 /\ \A i \in 1 .. Len(p) : p[i] = s[i + 1]
      BY HeadTailProperties
<1>2. /\ Len(s) \in Nat \ {0} /\ DOMAIN s = 1 .. Len(s) /\ DOMAIN p = 1 .. Len(p)
      BY HeadTailProperties, LenProperties, EmptySeq
<1> HIDE DEF p
<1>3. \A i \in DOMAIN p : i + 1 \in DOMAIN s /\ p[i] = s[i + 1]
      BY <1>1, <1>2
<1> QED BY <1>3 DEF Elements, p

\* The steps of the SM never set the function to RESTART.
LEMMA SmRuns ==
    ASSUME SmSleep \/ SmStart \/ SmHwAvailable \/ SleepIfIdle
    PROVE  qState' = "RESTART" => qState = "RESTART"
  BY DEF SmSleep, SmStart, SmHwAvailable, SleepIfIdle, sm

LEMMA RestartInvStep == Typing /\ RestartInv /\ [Next]_vars => RestartInv'
<1> SUFFICES ASSUME Typing, RestartInv, [Next]_vars PROVE RestartInv'
  OBVIOUS
<1> USE DEF RestartInv, Clean, twif, sm, timer, txnq, ctx, life
<1>s. ASSUME UNCHANGED <<waiting, old, recovering, bTxnDoneInRecovery, restarts>>,
             extPc' = "clear" => extPc = "clear",
             qState' = "RESTART" => qState = "RESTART"
      PROVE  RestartInv'
  BY <1>s
<1>1. CASE Awake
  BY <1>1 DEF Awake
<1>2. CASE Sleep \/ FwSleep
  BY <1>2, <1>s, SmRuns DEF Sleep, FwSleep, SleepCall
<1>3. CASE InitHw \/ FwInterrupt \/ StaleStatus
  BY <1>3, <1>s, SmRuns DEF InitHw, FwInterrupt, StaleStatus, ReadIntrInfo
<1>4. ASSUME NEW t \in Txns, Transact(t) PROVE RestartInv'
  <2>1. Elements(waiting') \subseteq Elements(waiting) \cup {t} /\ old' = old \ {t}
    BY <1>4, ElementsGrow DEF Transact, Typing, TypeOK
  <2> QED BY <1>4, <2>1 DEF Transact
<1>5. CASE TransactPending
  BY <1>5, <1>s, SmRuns DEF TransactPending, BackToCaller
<1>6. ASSUME NEW e \in BOOLEAN, TransactDone(e) PROVE RestartInv'
  BY <1>6, <1>s, SmRuns DEF TransactDone, BackToCaller
<1>7. CASE HandleRecovery
  BY <1>7 DEF HandleRecovery
<1>8. CASE HandleTxnDone \/ HandleNext
  BY <1>8 DEF HandleTxnDone, HandleNext
<1>9. CASE CbReturn \/ HandleEnd
  BY <1>9, <1>s, SmRuns DEF CbReturn, HandleEnd
<1>10. CASE PendRestartTimeout
  BY <1>10 DEF PendRestartTimeout, ClearQueues
<1>11. CASE RestartComplete
  BY <1>11 DEF RestartComplete, Restarting, ResetTwIf, ClearQueues, Elements, Typing, TypeOK
<1>12. CASE RestartPending
  BY <1>12 DEF RestartPending, Restarting, ResetTwIf, Typing, TypeOK
<1>13. CASE StartSingleStep
  BY <1>13 DEF StartSingleStep
<1>14. CASE StartQueued
  <2>1. Elements(waiting') \subseteq Elements(waiting)
    BY <1>14, ElementsShrink DEF StartQueued, Typing, TypeOK
  <2> QED BY <1>14, <2>1 DEF StartQueued
<1>15. ASSUME NEW e \in BOOLEAN, Finish(e) PROVE RestartInv'
  BY <1>15 DEF Finish
<1>16. ASSUME NEW t \in Txns \cup Elp, TxnDoneCb(t) PROVE RestartInv'
  BY <1>16 DEF TxnDoneCb
<1>17. CASE TxnDoneTest
  BY <1>17 DEF TxnDoneTest
<1>18. CASE TxnDoneRecovery
  <2>1. Elements(waiting') = {} /\ qState' = "RUNNING"
    BY <1>18 DEF TxnDoneRecovery, ClearQueues, Elements
  <2> QED BY <1>18, <2>1 DEF TxnDoneRecovery
<1>19. CASE RequestSchedule \/ TimerExpiry \/ UNCHANGED vars
  BY <1>19 DEF RequestSchedule, TimerExpiry, vars
<1> QED
  BY <1>1, <1>2, <1>3, <1>4, <1>5, <1>6, <1>7, <1>8, <1>9, <1>10, <1>11, <1>12,
     <1>13, <1>14, <1>15, <1>16, <1>17, <1>18, <1>19
     DEF Next, Client, Driver, Restart, TxnQ

\* fRecoveryCb is called by two steps only: HandleRecovery, which relies on the
\* queue having been cleared before, and the guard timer's, which clears it.
LEMMA RecoveryCbStep ==
    RestartInv /\ [Next]_vars =>
        (recovering /\ ~recovering' =>
            Elements(waiting') \cap old = {} /\ qState' # "RESTART")
<1> SUFFICES ASSUME RestartInv, [Next]_vars, recovering, ~recovering'
             PROVE  Elements(waiting') \cap old = {} /\ qState' # "RESTART"
  OBVIOUS
<1> USE DEF twif, sm, timer, txnq, ctx, life
<1>1. CASE HandleRecovery
  BY <1>1 DEF HandleRecovery, RestartInv, Clean
<1>2. CASE PendRestartTimeout
  <2>1. Elements(waiting') = {} /\ qState' = "RUNNING"
    BY <1>2 DEF PendRestartTimeout, ClearQueues, Elements
  <2> QED BY <2>1
<1> QED
  BY <1>1, <1>2
     DEF Next, Client, Driver, Restart, TxnQ, Awake, Sleep, InitHw, FwInterrupt,
         StaleStatus, ReadIntrInfo, FwSleep,
         Transact, TransactPending, TransactDone, HandleTxnDone, HandleNext,
         CbReturn, HandleEnd, RestartComplete, RestartPending, Restarting,
         StartSingleStep, StartQueued, Finish, TxnDoneTest, TxnDoneRecovery,
         RequestSchedule, TxnDoneCb, TimerExpiry, vars

\* Whenever a restart is reported, nothing that waited as it began is left in the
\* transaction queue, and the function is out of RESTART: though expiry and
\* completion may race and come after the next restart, and callbacks of old
\* completions transact and run the queue meanwhile.
THEOREM RestartIsClean == Spec => RestartedClean
<1>1. Init => RestartInv
  BY DEF Init, RestartInv
<1>2. RestartInv /\ [Next]_vars =>
        [recovering /\ ~recovering' =>
           Elements(waiting') \cap old = {} /\ qState' # "RESTART"]_vars
  BY RecoveryCbStep
<1> QED
  BY <1>1, <1>2, TypingInit, TypingStep, RestartInvStep, PTL DEF Spec, RestartedClean

-----------------------------------------------------------------------------
(* The count of pending transactions.                                      *)

LEMMA Wrapped ==
    ASSUME NEW n \in Nat, NEW m \in Nat, n < m PROVE (n + m) % m = n /\ n % m = n
<1>1. n % m = n
      OBVIOUS
<1>2. (n + m) % m = n
      OBVIOUS
<1> QED BY <1>1, <1>2

\* A transaction is in one of the places between twIf_Transact and its CB.
Apart ==
    /\ NoDup(waiting) /\ NoDup(hTxnDoneQueue)
    /\ Elements(waiting) \cap Elements(hTxnDoneQueue) = {}
    /\ onBus \in Txns =>
          onBus \notin Elements(waiting) \cup Elements(hTxnDoneQueue) \cup finished
    /\ finished \cap (Elements(waiting) \cup Elements(hTxnDoneQueue)) = {}

\* Up to the first restart: the count is right, and in the queue of a sleeping
\* device there is only the transaction that twIf_Transact is about to wake it for.
Counting ==
    /\ ~recovering /\ ~bPendRestartTimerRunning /\ ~expiryQueued
    /\ Apart /\ CountIsPending
    /\ pc = "sent" <=> cur # None
    /\ eState = "SLEEP" => Elements(waiting) \subseteq {cur}
CountInv == restarts = 0 => Counting

LEMMA LiveFinite ==
    /\ Live \subseteq Txns /\ IsFiniteSet(Live)
    /\ Cardinality(Live) \in Nat /\ Cardinality(Live) <= Cardinality(Txns)
    /\ Cardinality(Txns) \in Nat
<1>1. Live \subseteq Txns
      BY DEF Live
<1> HIDE DEF Live
<1> QED BY <1>1, FS_Subset, FS_CardinalityType

LEMMA CountAdds ==
    ASSUME CountIsPending, NEW t \in Txns, t \notin Live, Live' = Live \cup {t},
           uPendingTxnCount' = (uPendingTxnCount + 1) % UINT
    PROVE  CountIsPending'
<1>1. Cardinality(Live') = Cardinality(Live) + 1
      BY LiveFinite, FS_AddElement
<1>2. Cardinality(Live') <= Cardinality(Txns)
  <2>1. Live' \subseteq Txns
        BY LiveFinite
  <2> QED BY <2>1, FS_Subset
<1>3. uPendingTxnCount + 1 \in Nat /\ uPendingTxnCount + 1 < UINT
      BY <1>1, <1>2, LiveFinite DEF CountIsPending
<1>4. uPendingTxnCount' = uPendingTxnCount + 1
      BY <1>3, Wrapped
<1> QED BY <1>1, <1>4 DEF CountIsPending

LEMMA CountRemoves ==
    ASSUME CountIsPending, NEW t \in Live, Live' = Live \ {t},
           \/ uPendingTxnCount' = DecrementGuarded(uPendingTxnCount)
           \/ uPendingTxnCount' = Decrement(uPendingTxnCount)
    PROVE  CountIsPending'
<1>1. Cardinality(Live') = Cardinality(Live) - 1 /\ Cardinality(Live') \in Nat
      BY LiveFinite, FS_RemoveElement, FS_CardinalityType
<1>2. PICK n \in Nat : n = uPendingTxnCount - 1 /\ n < UINT
      BY <1>1, LiveFinite DEF CountIsPending
<1>3. /\ DecrementGuarded(uPendingTxnCount) = n
      BY <1>1, <1>2, LiveFinite DEF DecrementGuarded, CountIsPending
<1>4. Decrement(uPendingTxnCount) = n
  <2>1. uPendingTxnCount + UINT - 1 = n + UINT
        BY <1>2, LiveFinite DEF CountIsPending
  <2> QED BY <1>2, <2>1, Wrapped DEF Decrement
<1> QED BY <1>1, <1>2, <1>3, <1>4 DEF CountIsPending

LEMMA CountZero ==
    Typing /\ CountIsPending => (uPendingTxnCount = 0 => Elements(waiting) = {})
<1> SUFFICES ASSUME Typing, CountIsPending, uPendingTxnCount = 0 PROVE Elements(waiting) = {}
    OBVIOUS
<1>1. Live = {}
      BY LiveFinite, FS_EmptySet DEF CountIsPending
<1>2. Elements(waiting) \subseteq Txns
      BY ElementsIn DEF Typing, TypeOK
<1> QED BY <1>1, <1>2 DEF Live

LEMMA CountZeroThen ==
    ASSUME Typing', CountIsPending', uPendingTxnCount' = 0 PROVE Elements(waiting') = {}
<1>1. (Typing /\ CountIsPending => (uPendingTxnCount = 0 => Elements(waiting) = {}))'
      BY CountZero, PTL
<1> QED BY <1>1

Carry == <<waiting, hTxnDoneQueue, finished>>

LEMMA StaySame ==
    ASSUME Apart, CountIsPending, UNCHANGED <<Carry, uPendingTxnCount>>,
           onBus' \in Txns \/ onBus \in Txns => onBus' = onBus
    PROVE  Apart' /\ CountIsPending'
<1>1. Live' = Live
      BY DEF Live, Carry
<1> QED BY <1>1 DEF Apart, Carry, CountIsPending

\* Whatever the event, the device is only put to sleep when nothing is pending.
LEMMA SleepsIdle ==
    ASSUME Typing', Counting, CountIsPending', SleepIfIdle,
           eState = "SLEEP" => Elements(waiting') \subseteq {cur'}
    PROVE  eState' = "SLEEP" => Elements(waiting') \subseteq {cur'}
<1>1. CASE uPendingTxnCount' = 0
      BY <1>1, CountZeroThen
<1>2. CASE uPendingTxnCount' # 0
      BY <1>2 DEF SleepIfIdle, sm
<1> QED BY <1>1, <1>2

LEMMA CountStep == Typing /\ RestartInv /\ CountInv /\ [Next]_vars => CountInv'
<1> SUFFICES ASSUME Typing, RestartInv, CountInv, [Next]_vars, restarts' = 0
             PROVE  Counting'
    BY DEF CountInv
<1>0. Typing'
      BY TypingStep
<1> USE DEF twif, sm, timer, txnq, ctx, life
<1>r. ~Restart
  <2>1. restarts \in Nat
        BY DEF Typing, TypeOK
  <2> QED BY <2>1 DEF Restart, RestartComplete, RestartPending, Restarting
<1>s. restarts = 0
      BY <1>r DEF Next, Client, Driver, TxnQ, Awake, Sleep, InitHw, FwInterrupt,
         StaleStatus, ReadIntrInfo, FwSleep,
         Transact, TransactPending, TransactDone, HandleRecovery, HandleTxnDone, HandleNext,
         CbReturn, HandleEnd, PendRestartTimeout,
         StartSingleStep, StartQueued, Finish, TxnDoneTest, TxnDoneRecovery,
         RequestSchedule, TxnDoneCb, TimerExpiry, vars
<1>c. Counting /\ ~bTxnDoneInRecovery /\ qState # "RESTART" /\ extPc # "clear"
      BY <1>s DEF CountInv, RestartInv
<1>1. CASE Awake
  <2>1. Apart' /\ CountIsPending'
        BY <1>1, <1>c, StaySame DEF Awake, Carry, Counting
  <2> QED BY <1>1, <1>c, <2>1 DEF Awake, Counting
<1>2. CASE Sleep \/ FwSleep
  <2>1. /\ UNCHANGED <<Carry, uPendingTxnCount, onBus, pc, cur, timer, life>>
        /\ SleepIfIdle
        BY <1>2 DEF Sleep, FwSleep, SleepCall, Carry
  <2>2. Apart' /\ CountIsPending'
        BY <1>c, <2>1, StaySame DEF Counting
  <2>3. eState' = "SLEEP" => Elements(waiting') \subseteq {cur'}
        BY <1>0, <1>c, <2>1, <2>2, SleepsIdle DEF Counting, Carry
  <2> QED BY <1>c, <2>1, <2>2, <2>3 DEF Counting
<1>3. CASE InitHw \/ FwInterrupt \/ StaleStatus
  <2>1. /\ UNCHANGED <<Carry, uPendingTxnCount, onBus, pc, cur, timer, recovering>>
        /\ SmHwAvailable
        BY <1>3 DEF InitHw, FwInterrupt, StaleStatus, ReadIntrInfo, Carry
  <2>2. Apart' /\ CountIsPending'
        BY <1>c, <2>1, StaySame DEF Counting
  <2>3. eState' # "SLEEP"
        BY <2>1 DEF SmHwAvailable, Typing, TypeOK
  <2> QED BY <1>c, <2>1, <2>2, <2>3 DEF Counting
<1>4. ASSUME NEW t \in Txns, Transact(t) PROVE Counting'
  <2>1. /\ t \notin Live /\ waiting' = Append(waiting, t)
        /\ uPendingTxnCount' = (uPendingTxnCount + 1) % UINT
        /\ UNCHANGED <<hTxnDoneQueue, onBus, finished, eState, timer, recovering>>
        /\ pc' = "sent" /\ cur' = t /\ pc # "sent"
        BY <1>4 DEF Transact, ClientRuns
  <2>2. t \notin Elements(waiting) \cup Elements(hTxnDoneQueue) \cup finished /\ t # onBus
        BY <2>1 DEF Live
  <2>3. NoDup(waiting') /\ Elements(waiting') = Elements(waiting) \cup {t}
        BY <1>c, <2>1, <2>2, ElementsAppend DEF Typing, TypeOK, Counting, Apart
  <2>4. Live' = Live \cup {t}
        BY <2>1, <2>3 DEF Live
  <2>5. CountIsPending'
        BY <1>c, <2>1, <2>4, CountAdds DEF Counting
  <2>6. Apart'
        BY <1>c, <2>1, <2>2, <2>3 DEF Counting, Apart
  <2>7. eState' = "SLEEP" => Elements(waiting') \subseteq {cur'}
        BY <1>c, <2>1, <2>3, ElementsIn DEF Counting, Typing, TypeOK
  <2>8. cur' # None
        BY <2>1
  <2> QED BY <1>c, <2>1, <2>5, <2>6, <2>7, <2>8 DEF Counting
<1>5. CASE TransactPending
  <2>1. UNCHANGED <<Carry, uPendingTxnCount, onBus, timer, recovering>>
        BY <1>5 DEF TransactPending, Carry
  <2>2. Apart' /\ CountIsPending'
        BY <1>c, <2>1, StaySame DEF Counting
  <2>3. eState' # "SLEEP" /\ pc' # "sent" /\ cur' = None
        BY <1>5 DEF TransactPending, SmStart, BackToCaller
  <2> QED BY <1>c, <2>1, <2>2, <2>3 DEF Counting
<1>6. ASSUME NEW e \in BOOLEAN, TransactDone(e) PROVE Counting'
  <2>1. /\ onBus = cur /\ onBus' = None /\ pc = "sent" /\ pc' # "sent" /\ cur' = None
        /\ uPendingTxnCount' = Decrement(uPendingTxnCount)
        /\ SleepIfIdle /\ UNCHANGED <<Carry, timer, recovering>>
        BY <1>6 DEF TransactDone, BackToCaller, Carry
  <2>2. PICK t \in Txns : t = cur
        BY <1>c, <2>1 DEF Counting, Typing, TypeOK
  <2>3. t \in Live /\ Live' = Live \ {t}
        BY <1>c, <2>1, <2>2 DEF Live, Carry, Counting, Apart
  <2>4. CountIsPending'
        BY <1>c, <2>1, <2>3, CountRemoves DEF Counting
  <2>5. Apart'
        BY <1>c, <2>1 DEF Counting, Apart, Carry
  <2>6. eState = "SLEEP" => Elements(waiting') \subseteq {cur'}
        BY <1>c, <2>1, <2>2 DEF Counting, Apart, Carry
  <2>7. eState' = "SLEEP" => Elements(waiting') \subseteq {cur'}
        BY <1>0, <1>c, <2>1, <2>4, <2>6, SleepsIdle
  <2> QED BY <1>c, <2>1, <2>4, <2>5, <2>7 DEF Counting
<1>7. CASE HandleTxnDone
  <2>1. /\ UNCHANGED <<Carry, uPendingTxnCount, onBus, timer, recovering, eState, cur>>
        /\ pc = "idle" /\ pc' = "loop"
        BY <1>7 DEF HandleTxnDone, Carry
  <2>2. Apart' /\ CountIsPending'
        BY <1>c, <2>1, StaySame DEF Counting
  <2> QED BY <1>c, <2>1, <2>2 DEF Counting, Carry
<1>8. CASE HandleNext
  <2>1. /\ hTxnDoneQueue # <<>> /\ hTxnDoneQueue' = Tail(hTxnDoneQueue)
        /\ uPendingTxnCount' = DecrementGuarded(uPendingTxnCount)
        /\ UNCHANGED <<waiting, onBus, finished, timer, recovering, eState, cur>>
        /\ pc = "loop" /\ pc' \in {"idle", "cb"}
        BY <1>8 DEF HandleNext
  <2>2. PICK t : t = Head(hTxnDoneQueue)
        OBVIOUS
  <2>3. /\ NoDup(Tail(hTxnDoneQueue)) /\ t \in Elements(hTxnDoneQueue)
        /\ Elements(hTxnDoneQueue') = Elements(hTxnDoneQueue) \ {t}
        BY <1>c, <2>1, <2>2, ElementsTail DEF Typing, TypeOK, Counting, Apart
  <2>4. t \in Txns
        BY <2>3, ElementsIn DEF Typing, TypeOK
  <2>5. t \in Live /\ Live' = Live \ {t}
        BY <1>c, <2>1, <2>3, <2>4 DEF Live, Counting, Apart
  <2>6. CountIsPending'
        BY <1>c, <2>1, <2>5, CountRemoves DEF Counting
  <2>7. Apart'
        BY <1>c, <2>1, <2>3 DEF Counting, Apart
  <2> QED BY <1>c, <2>1, <2>6, <2>7 DEF Counting
<1>9. CASE CbReturn \/ HandleEnd
  <2>1. /\ UNCHANGED <<Carry, uPendingTxnCount, onBus, timer, recovering, cur>>
        /\ pc \in {"cb", "loop"} /\ pc' \in {"loop", "idle"} /\ SleepIfIdle
        BY <1>9 DEF CbReturn, HandleEnd, Carry
  <2>2. Apart' /\ CountIsPending'
        BY <1>c, <2>1, StaySame DEF Counting
  <2>3. eState' = "SLEEP" => Elements(waiting') \subseteq {cur'}
        BY <1>0, <1>c, <2>1, <2>2, SleepsIdle DEF Counting, Carry
  <2> QED BY <1>c, <2>1, <2>2, <2>3 DEF Counting
<1>10. CASE StartSingleStep
  <2>1. /\ UNCHANGED <<Carry, uPendingTxnCount, timer, recovering, pc, cur, eState>>
        /\ onBus = None /\ onBus' = slot
        BY <1>10 DEF StartSingleStep, Carry
  <2>2. onBus \notin Txns /\ onBus' \notin Txns
        BY <2>1 DEF Typing, TypeOK
  <2>3. Apart' /\ CountIsPending'
        BY <1>c, <2>1, <2>2, StaySame DEF Counting
  <2> QED BY <1>c, <2>1, <2>3 DEF Counting, Carry
<1>11. CASE StartQueued
  <2>1. /\ onBus = None /\ waiting # <<>> /\ waiting' = Tail(waiting)
        /\ onBus' = Head(waiting)
        /\ UNCHANGED <<hTxnDoneQueue, finished, uPendingTxnCount, timer, recovering, pc, cur, eState>>
        BY <1>11 DEF StartQueued
  <2>2. PICK t : t = Head(waiting)
        OBVIOUS
  <2>3. /\ NoDup(Tail(waiting)) /\ t \in Elements(waiting)
        /\ Elements(waiting') = Elements(waiting) \ {t}
        BY <1>c, <2>1, <2>2, ElementsTail DEF Typing, TypeOK, Counting, Apart
  <2>4. t \in Txns
        BY <2>3, ElementsIn DEF Typing, TypeOK
  <2>5. Live' = Live
        BY <2>1, <2>2, <2>3, <2>4 DEF Live
  <2>6. Apart'
        BY <1>c, <2>1, <2>2, <2>3 DEF Counting, Apart
  <2>7. CountIsPending'
        BY <1>c, <2>1, <2>5 DEF Counting, CountIsPending
  <2> QED BY <1>c, <2>1, <2>3, <2>6, <2>7 DEF Counting
<1>12. ASSUME NEW e \in BOOLEAN, Finish(e) PROVE Counting'
  <2>1. /\ onBus # None /\ onBus' = None /\ finished' = finished \cup {onBus}
        /\ UNCHANGED <<waiting, hTxnDoneQueue, uPendingTxnCount, timer, recovering, pc, cur, eState>>
        BY <1>12 DEF Finish
  <2>2. Live' = Live
        BY <2>1 DEF Live
  <2>3. Elements(waiting) \subseteq Txns /\ Elements(hTxnDoneQueue) \subseteq Txns
        BY ElementsIn DEF Typing, TypeOK
  <2>4. Apart'
        BY <1>c, <2>1, <2>3 DEF Counting, Apart
  <2>5. CountIsPending'
        BY <1>c, <2>1, <2>2 DEF Counting, CountIsPending
  <2> QED BY <1>c, <2>1, <2>4, <2>5 DEF Counting
<1>13. ASSUME NEW t \in Txns \cup Elp, TxnDoneCb(t) PROVE Counting'
  <2>1. /\ t \in finished /\ finished' = finished \ {t}
        /\ UNCHANGED <<waiting, onBus, timer, recovering, pc, cur, eState>>
        BY <1>13 DEF TxnDoneCb
  <2>2. CASE t \in WithCb
    <3>1. hTxnDoneQueue' = Append(hTxnDoneQueue, t) /\ UNCHANGED uPendingTxnCount
          BY <1>13, <2>2 DEF TxnDoneCb
    <3>2. t \in Txns /\ t \notin Elements(hTxnDoneQueue) /\ t \notin Elements(waiting) /\ onBus # t
          BY <1>c, <2>1, <2>2 DEF Counting, Apart
    <3>3. NoDup(hTxnDoneQueue') /\ Elements(hTxnDoneQueue') = Elements(hTxnDoneQueue) \cup {t}
          BY <1>c, <3>1, <3>2, ElementsAppend DEF Typing, TypeOK, Counting, Apart
    <3>4. Live' = Live
          BY <2>1, <3>2, <3>3 DEF Live
    <3>5. Apart'
          BY <1>c, <2>1, <3>2, <3>3 DEF Counting, Apart
    <3>6. CountIsPending'
          BY <1>c, <3>1, <3>4 DEF Counting, CountIsPending
    <3> QED BY <1>c, <2>1, <3>5, <3>6 DEF Counting
  <2>3. CASE t \in Txns \ WithCb
    <3>1. /\ UNCHANGED hTxnDoneQueue
          /\ uPendingTxnCount' = DecrementGuarded(uPendingTxnCount)
          BY <1>13, <2>3 DEF TxnDoneCb
    <3>2. t \notin Elements(hTxnDoneQueue) /\ t \notin Elements(waiting) /\ onBus # t
          BY <1>c, <2>1, <2>3 DEF Counting, Apart
    <3>3. t \in Live /\ Live' = Live \ {t}
          BY <2>1, <2>3, <3>1, <3>2 DEF Live
    <3>4. CountIsPending'
          BY <1>c, <3>1, <3>3, CountRemoves DEF Counting
    <3>5. Apart'
          BY <1>c, <2>1, <3>1 DEF Counting, Apart
    <3> QED BY <1>c, <2>1, <3>4, <3>5 DEF Counting
  <2>4. CASE t \in Elp
    <3>1. UNCHANGED <<hTxnDoneQueue, uPendingTxnCount>> /\ t \notin Txns
          BY <1>13, <2>4 DEF TxnDoneCb
    <3>2. Live' = Live
          BY <2>1, <3>1 DEF Live
    <3>3. Apart' /\ CountIsPending'
          BY <1>c, <2>1, <3>1, <3>2 DEF Counting, Apart, CountIsPending
    <3> QED BY <1>c, <2>1, <3>3 DEF Counting
  <2> QED BY <2>2, <2>3, <2>4
<1>14. CASE RequestSchedule \/ UNCHANGED vars
  <2>1. UNCHANGED <<Carry, uPendingTxnCount, onBus, timer, recovering, pc, cur, eState>>
        BY <1>14 DEF RequestSchedule, vars, Carry
  <2>2. Apart' /\ CountIsPending'
        BY <1>c, <2>1, StaySame DEF Counting
  <2> QED BY <1>c, <2>1, <2>2 DEF Counting, Carry
\* What belongs to a restart cannot happen yet.
<1>15. ~(HandleRecovery \/ PendRestartTimeout \/ TxnDoneTest \/ TxnDoneRecovery
          \/ TimerExpiry)
      BY <1>c DEF HandleRecovery, PendRestartTimeout, TxnDoneTest, TxnDoneRecovery,
         TimerExpiry, Counting
<1> QED
  BY <1>r, <1>1, <1>2, <1>3, <1>4, <1>5, <1>6, <1>7, <1>8, <1>9, <1>10, <1>11, <1>12,
     <1>13, <1>14, <1>15 DEF Next, Client, Driver, TxnQ

LEMMA CountInit == Init => CountInv
<1> SUFFICES ASSUME Init PROVE Counting
    BY DEF CountInv
<1>1. Elements(waiting) = {} /\ Elements(hTxnDoneQueue) = {}
      BY DEF Init, Elements
<1>2. Live = {}
      BY <1>1 DEF Init, Live
<1>3. CountIsPending
      BY <1>2, FS_EmptySet DEF Init, CountIsPending
<1>4. Apart
      BY <1>1 DEF Init, Apart, NoDup
<1> QED BY <1>1, <1>3, <1>4 DEF Init, Counting

\* Up to the first restart uPendingTxnCount is the number of transactions on their
\* way, for any number of transactions and whatever the order in which the caller,
\* the TxnDone context and the driver context count.
THEOREM CountsUntilRestart == Spec => [](restarts = 0 => CountIsPending)
<1>1. CountInv => (restarts = 0 => CountIsPending)
      BY DEF CountInv, Counting
<1>2. Init => RestartInv
      BY DEF Init, RestartInv
<1> QED BY <1>1, <1>2, TypingInit, TypingStep, RestartInvStep, CountInit, CountStep,
           PTL DEF Spec

\* Up to the first restart no transaction waits in the queue of a sleeping device,
\* but the one that twIf_Transact is about to wake it for.
THEOREM AwakeUntilRestart == Spec => [](restarts = 0 => AwakeForPending)
<1>1. Typing /\ CountInv => (restarts = 0 => AwakeForPending)
  <2> SUFFICES ASSUME Typing, Counting, pc # "sent", eState = "SLEEP" PROVE waiting = <<>>
      BY DEF CountInv, AwakeForPending
  <2>1. waiting \in Seq(Txns) /\ Elements(waiting) \subseteq Txns
        BY ElementsIn DEF Typing, TypeOK
  <2>2. Elements(waiting) = {}
        BY <2>1 DEF Counting
  <2> QED BY <2>1, <2>2, ElementsEmpty
<1>2. Init => RestartInv
      BY DEF Init, RestartInv
<1> QED BY <1>1, <1>2, TypingInit, TypingStep, RestartInvStep, CountInit, CountStep,
           PTL DEF Spec

=============================================================================
