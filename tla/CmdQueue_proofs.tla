--------------------------- MODULE CmdQueue_proofs --------------------------
(***************************************************************************)
(* Proofs about CmdQueue, for any commands, configuration sequence and     *)
(* depth of the queue: what the mailbox holds, when the queue keeps the    *)
(* device awake, whose callbacks a stop saves, that a firmware that does   *)
(* not answer is noticed, and that all of it implements CmdService.        *)
(***************************************************************************)
EXTENDS CmdQueue, FiniteSetTheorems, SequenceTheorems, WellFoundedInduction, TLAPS

USE CommandsAssumption, SizesAssumption

\* The types that the argument needs.
Typing ==
    /\ aCmdQueue \in Seq(Commands)
    /\ uIniSeq \in Nat
    /\ bAwake \in BOOLEAN /\ bCmdInProgress \in BOOLEAN
    /\ bMboxEnabled \in BOOLEAN /\ lateRead \in BOOLEAN

\* There is a command, or a callback is running.
Working == aCmdQueue # <<>> \/ pc # "idle"

\* The state machine waits, and holds its one awake request, while it works.
WaitsWhileWorking ==
    /\ state = IF Working THEN "WAIT" ELSE "IDLE"
    /\ bAwake <=> Working
    /\ awakes = IF Working THEN 1 ELSE 0

\* Commands are there only between ConfigFw and the next stop, and results of
\* before a stop have been reported by then.
WorksWhenEnabled ==
    /\ Working => bMboxEnabled
    /\ bMboxEnabled => /\ ~lateRead
                       /\ eSmState \in {"FW_CONFIG", "OPERATIONAL", "DISCONNECTING"}

Holding ==
    /\ bCmdInProgress <=> fw # "idle"
    /\ bCmdInProgress => pc = "idle" /\ aCmdQueue # <<>> /\ fwCmd = Head(aCmdQueue)
    /\ pc = "idle" /\ aCmdQueue # <<>> => bCmdInProgress

IInv == Typing /\ WaitsWhileWorking /\ WorksWhenEnabled /\ Holding

LEMMA StepsAreCommands == Steps \subseteq Commands /\ Clients \subseteq Commands
  BY DEF Commands

\* cmdQueue_Push, at the top of the driver context and from within a callback.
LEMMA PushKeeps ==
    ASSUME IInv, NEW c \in Commands, Push(c), pc' # "idle" <=> pc # "idle"
    PROVE  /\ aCmdQueue' \in Seq(Commands) /\ bAwake' \in BOOLEAN
           /\ bCmdInProgress' \in BOOLEAN
           /\ WaitsWhileWorking' /\ Holding'
<1> USE DEF IInv, Typing
<1>1. aCmdQueue' \in Seq(Commands) /\ aCmdQueue' # <<>>
      BY DEF Push
<1>2. CASE Working
  <2>1. UNCHANGED <<state, bAwake, awakes, mbox>>
        BY <1>2 DEF WaitsWhileWorking, Push
  <2>2. Working'
        BY <1>1 DEF Working
  <2>3. aCmdQueue # <<>> => Head(aCmdQueue') = Head(aCmdQueue)
        BY DEF Push
  <2> QED BY <1>1, <1>2, <2>1, <2>2, <2>3
          DEF WaitsWhileWorking, Holding, Working, mbox
<1>3. CASE ~Working
  <2>1. aCmdQueue = <<>> /\ pc = "idle" /\ ~bAwake /\ awakes = 0 /\ state = "IDLE"
        BY <1>3 DEF WaitsWhileWorking, Working
  <2>2. Run(c) /\ aCmdQueue' = <<c>>
        BY <2>1 DEF Push
  <2>3. Working' /\ Head(aCmdQueue') = c
        BY <1>1, <2>2 DEF Working
  <2> QED BY <1>1, <2>1, <2>2, <2>3 DEF Run, MboxSend, WaitsWhileWorking, Holding
<1> QED BY <1>2, <1>3

\* TWD_Stop leaves nothing to do and nothing held.
LEMMA StopClears ==
    ASSUME IInv, pc = "idle", TwdStop, UNCHANGED <<pc, uIniSeq>>
    PROVE  IInv'
<1>1. ~Working'
      BY DEF TwdStop, QueueRestart, Working
<1>2. Typing' /\ ~bMboxEnabled'
  <2>1. aCmdQueue' \in Seq(Commands) /\ uIniSeq' \in Nat
        BY DEF TwdStop, QueueRestart, IInv, Typing
  <2>2. /\ bAwake' \in BOOLEAN /\ bCmdInProgress' \in BOOLEAN
        /\ bMboxEnabled' \in BOOLEAN /\ ~bMboxEnabled'
        BY DEF TwdStop, QueueRestart
  <2>3. lateRead' \in BOOLEAN
        BY DEF TwdStop, IInv, Typing
  <2> QED BY <2>1, <2>2, <2>3 DEF Typing
<1> QED BY <1>1, <1>2 DEF TwdStop, QueueRestart, IInv, WaitsWhileWorking,
                          WorksWhenEnabled, Holding, Working

\* The end of a command up to its callback.
LEMMA CompleteKeeps ==
    ASSUME IInv, pc = "idle", fw # "idle", Complete,
           UNCHANGED <<bMboxEnabled, lateRead, uIniSeq, driver>>
    PROVE  IInv'
<1>1. aCmdQueue # <<>> /\ Working /\ Working'
      BY DEF IInv, Typing, Holding, Working, Complete
<1>2. Typing'
  <2>1. aCmdQueue' \in Seq(Commands)
        BY <1>1 DEF IInv, Typing, Complete
  <2>2. bCmdInProgress' \in BOOLEAN
        BY DEF Complete
  <2> QED BY <2>1, <2>2 DEF IInv, Typing, Complete
<1> QED BY <1>1, <1>2 DEF IInv, WaitsWhileWorking, WorksWhenEnabled, Holding,
                          Complete, driver

\* cmdBld_ConfigSeq, from the start and from its own callback.
LEMMA ConfigSeqKeeps ==
    ASSUME IInv, NEW from \in Nat, ConfigSeq(from),
           pc' # "idle" <=> pc # "idle",
           bMboxEnabled' \in BOOLEAN, lateRead' \in BOOLEAN
    PROVE  Typing' /\ WaitsWhileWorking' /\ Holding'
<1>1. CASE bErrorFlag
  <2>1. UNCHANGED <<aCmdQueue, state, bAwake, awakes, mbox>> /\ uIniSeq' \in Nat
        BY <1>1 DEF ConfigSeq
  <2> QED BY <2>1 DEF IInv, Typing, WaitsWhileWorking, Holding, Working, mbox
<1>2. CASE ~bErrorFlag
  <2>1. PICK i \in from .. MemMap : uIniSeq' = i + 1 /\ Push(i)
        BY <1>2 DEF ConfigSeq
  <2>2. i \in Commands /\ uIniSeq' \in Nat
        BY <2>1, StepsAreCommands DEF Steps, MemMap
  <2> QED BY <2>1, <2>2, PushKeeps DEF Typing
<1> QED BY <1>1, <1>2

LEMMA InitIInv == Init => IInv
<1> SUFFICES ASSUME Init PROVE IInv
    OBVIOUS
<1>1. aCmdQueue \in Seq(Commands)
      BY DEF Init
<1>2. /\ bAwake \in BOOLEAN /\ bCmdInProgress \in BOOLEAN
      /\ bMboxEnabled \in BOOLEAN /\ lateRead \in BOOLEAN
      BY DEF Init
<1> QED BY <1>1, <1>2 DEF Init, IInv, Typing, WaitsWhileWorking, WorksWhenEnabled,
                          Holding, Working

\* What every action but those above leaves alone.
untouched == <<aCmdQueue, state, bAwake, awakes, bCmdInProgress, fwCmd,
               bMboxEnabled, lateRead>>

LEMMA UntouchedKeeps ==
    ASSUME IInv, UNCHANGED untouched, pc' # "idle" <=> pc # "idle",
           (fw' # "idle") <=> (fw # "idle"), uIniSeq' \in Nat,
           bMboxEnabled => eSmState' \in {"FW_CONFIG", "OPERATIONAL", "DISCONNECTING"}
    PROVE  IInv'
  BY DEF IInv, Typing, WaitsWhileWorking, WorksWhenEnabled, Holding, Working, untouched

LEMMA NextIInv == IInv /\ [Next]_vars => IInv'
<1> SUFFICES ASSUME IInv, [Next]_vars PROVE IInv'
    OBVIOUS
<1> USE DEF untouched, queue, mbox, driver, ctx, timerVars
<1>1. ASSUME NEW c \in Clients, SendCommand(c) PROVE IInv'
  <2>1. c \in Commands /\ Push(c) /\ bMboxEnabled' /\ UNCHANGED <<pc, lateRead>>
        BY <1>1, StepsAreCommands DEF SendCommand
  <2> QED BY <1>1, <2>1, PushKeeps DEF SendCommand, IInv, Typing, WorksWhenEnabled
<1>2. ASSUME NEW s, FwAnswer(s) PROVE IInv'
      BY <1>2, UntouchedKeeps DEF FwAnswer, IInv, Typing, WorksWhenEnabled
<1>3. CASE CommandComplete
  <2>1. CASE Complete
        BY <1>3, <2>1, CompleteKeeps DEF CommandComplete
  <2>2. CASE ~Complete
        BY <1>3, <2>2, UntouchedKeeps DEF CommandComplete, IInv, Typing, WorksWhenEnabled
  <2> QED BY <2>1, <2>2
<1>4. CASE TransferComplete
      BY <1>4, CompleteKeeps DEF TransferComplete
<1>4a. CASE ReadFails
      BY <1>4a, UntouchedKeeps DEF ReadFails, IInv, Typing, WorksWhenEnabled
<1>5. CASE LateTransferComplete
  <2>1. ~Working /\ ~bCmdInProgress /\ bMboxEnabled = FALSE
        BY <1>5 DEF LateTransferComplete, IInv, Typing, WorksWhenEnabled, Holding, Working
  <2> QED BY <1>5, <2>1 DEF LateTransferComplete, IInv, Typing, WaitsWhileWorking,
                            WorksWhenEnabled, Holding, Working
<1>6. CASE CbReturn
  <2>1. /\ pc # "idle" /\ pc' = "idle" /\ Working /\ bMboxEnabled /\ bAwake
        /\ awakes = 1 /\ ~bCmdInProgress
        BY <1>6 DEF CbReturn, IInv, WaitsWhileWorking, WorksWhenEnabled, Holding, Working
  <2>2. CASE aCmdQueue # <<>>
        BY <1>6, <2>1, <2>2 DEF CbReturn, Run, MboxSend, IInv, Typing,
           WaitsWhileWorking, WorksWhenEnabled, Holding, Working
  <2>3. CASE aCmdQueue = <<>>
    <3>1. /\ bAwake' = FALSE /\ awakes' = 0 /\ state' = "IDLE" /\ UNCHANGED mbox
          /\ UNCHANGED <<aCmdQueue, bMboxEnabled, lateRead, uIniSeq, eSmState>>
          BY <1>6, <2>1, <2>3 DEF CbReturn, Sleep
    <3>2. bAwake' \in BOOLEAN
          BY <3>1
    <3> QED BY <2>1, <2>3, <3>1, <3>2 DEF IInv, Typing,
               WaitsWhileWorking, WorksWhenEnabled, Holding, Working
  <2> QED BY <2>2, <2>3
<1>7. CASE ConfigFw
  <2>1. /\ ConfigSeq(0) /\ bMboxEnabled' = TRUE /\ UNCHANGED <<pc, lateRead>>
        /\ lateRead' = FALSE /\ eSmState' = "FW_CONFIG"
        BY <1>7 DEF ConfigFw, IInv, Typing
  <2>2. bMboxEnabled' \in BOOLEAN /\ lateRead' \in BOOLEAN
        BY <2>1
  <2> QED BY <2>1, <2>2, ConfigSeqKeeps DEF IInv, WorksWhenEnabled
<1>8. CASE ConfigSeqCb
  <2>1. /\ ConfigSeq(uIniSeq) /\ uIniSeq \in Nat /\ pc = "cb" /\ pc' = "return"
        /\ UNCHANGED <<bMboxEnabled, lateRead, eSmState>>
        /\ Working /\ Working' /\ bMboxEnabled'
        BY <1>8 DEF ConfigSeqCb, IInv, Typing, WorksWhenEnabled, Working
  <2>2. bMboxEnabled' \in BOOLEAN /\ lateRead' \in BOOLEAN
        BY <2>1 DEF IInv, Typing
  <2>3. pc' # "idle" <=> pc # "idle"
        BY <2>1
  <2>4. Typing' /\ WaitsWhileWorking' /\ Holding'
        BY <2>1, <2>2, <2>3, ConfigSeqKeeps
  <2> QED BY <2>1, <2>4 DEF IInv, WorksWhenEnabled
<1>9. CASE ConfigFwCb
      BY <1>9, UntouchedKeeps DEF ConfigFwCb, IInv, Typing, WorksWhenEnabled
<1>10. CASE OwedCb
      BY <1>10, UntouchedKeeps DEF OwedCb, IInv, Typing, WorksWhenEnabled
<1>11. CASE EndReconfig
      BY <1>11, UntouchedKeeps DEF EndReconfig, IInv, Typing
<1>12. CASE Start \/ Stop \/ StopComplete
      BY <1>12, UntouchedKeeps DEF Start, Stop, StopComplete, IInv, Typing, WorksWhenEnabled
<1>13. CASE Disconnected \/ InitFail
      BY <1>13, StopClears DEF Disconnected, InitFail
<1>14. CASE OtherFailure \/ TimeOut
      BY <1>14, UntouchedKeeps DEF OtherFailure, TimeOut, IInv, Typing, WorksWhenEnabled
<1>15. CASE ProcessFailureEvent
  <2>1. pc = "idle" /\ UNCHANGED <<pc, uIniSeq>>
        BY <1>15 DEF ProcessFailureEvent
  <2>2. CASE Recover
        BY <2>1, <2>2, StopClears DEF Recover
  <2>3. CASE RecoverOnFail
        BY <2>1, <2>3, StopClears DEF RecoverOnFail
  <2>4. CASE GiveUp \/ IgnoreFailure
        BY <2>1, <2>4, UntouchedKeeps DEF GiveUp, IgnoreFailure, IInv, Typing,
             WorksWhenEnabled
  <2> QED BY <1>15, <2>2, <2>3, <2>4 DEF ProcessFailureEvent
<1>16. ASSUME NEW t \in Timers, TimerExpires(t) PROVE IInv'
      BY <1>16, UntouchedKeeps DEF TimerExpires, IInv, Typing, WorksWhenEnabled
<1>17. CASE UNCHANGED vars
      BY <1>17, UntouchedKeeps DEF vars, IInv, Typing, WorksWhenEnabled
<1> QED BY <1>1, <1>2, <1>3, <1>4, <1>4a, <1>5, <1>6, <1>7, <1>8, <1>9, <1>10, <1>11,
           <1>12, <1>13, <1>14, <1>15, <1>16, <1>17
        DEF Next, Command, Config, LifeCycle, Failure

LEMMA Invariance == Spec => []IInv
  BY InitIInv, NextIInv, PTL DEF Spec

\* The mailbox is in nobody's hands but those of the queue's first command, for
\* any commands, lengths of the queue, stops and late results.
THEOREM MailboxIsHeads == Spec => []MailboxOfHead
<1>1. IInv => MailboxOfHead
      BY DEF IInv, WaitsWhileWorking, Holding, Working, MailboxOfHead
<1> QED BY <1>1, Invariance, PTL

\* The queue neither leaks nor gives back twice its request to keep the device
\* awake.
THEOREM AwakeWhenBusy == Spec => []AwakeWhileBusy
<1>1. IInv => AwakeWhileBusy
      BY DEF IInv, Typing, WaitsWhileWorking, Working, AwakeWhileBusy
<1> QED BY <1>1, Invariance, PTL

-----------------------------------------------------------------------------
(* The saved callbacks.                                                    *)

\* The library's induction theorems take an operator; for a set of numbers its
\* theorems on well-founded orders of finite sets do.
LEMMA LeastNat ==
    ASSUME NEW T \in SUBSET Nat, T # {}
    PROVE  \E x \in T : \A y \in T : x <= y
<1>1. PICK n \in T : TRUE
      OBVIOUS
<1> DEFINE I == {1 .. k : k \in {j \in T : j <= n}}
           R == StrictSubsetOrdering(1 .. n)
<1>2. IsWellFoundedOn(R, SUBSET (1 .. n))
  <2>1. IsFiniteSet(1 .. n)
        BY <1>1, FS_Interval
  <2>2. FiniteSubsetsOf(1 .. n) = SUBSET (1 .. n)
        BY <2>1, FS_FiniteSubsetsOfFinite
  <2> QED BY <2>2, FS_StrictSubsetOrderingWellFounded
<1>3. I \subseteq SUBSET (1 .. n) /\ I # {}
  <2>1. 1 .. n \in I
        BY <1>1
  <2> QED BY <1>1, <2>1
<1>4. \E X \in I : \A Y \in I : <<Y, X>> \notin R
  <2> HIDE DEF I, R
  <2> QED BY <1>2, <1>3, WFMin
<1>5. PICK x \in T : x <= n /\ \A Y \in I : <<Y, 1 .. x>> \notin R
      BY <1>4
<1>6. ASSUME NEW y \in T, y < x PROVE FALSE
  <2>1. 1 .. y \in I
        BY <1>1, <1>5, <1>6
  <2>2. 1 .. y \subseteq 1 .. x /\ 1 .. y # 1 .. x
    <3>1. x \in 1 .. x /\ x \notin 1 .. y
          BY <1>6
    <3> QED BY <1>6, <3>1
  <2>3. 1 .. y \in SUBSET (1 .. n) /\ 1 .. x \in SUBSET (1 .. n)
        BY <1>1, <1>5, <1>6
  <2>4. <<1 .. y, 1 .. x>> \in R
        BY <2>2, <2>3 DEF StrictSubsetOrdering
  <2> QED BY <1>5, <2>1, <2>4
<1>7. \A y \in T : x <= y
      BY <1>5, <1>6
<1> QED BY <1>7

\* Induction, with the set of the numbers for which a formula holds in its place.
LEMMA SetInduction ==
    ASSUME NEW n \in Nat, NEW T \in SUBSET (0 .. n), 0 \in T,
           \A i \in 1 .. n : i - 1 \in T => i \in T
    PROVE  T = 0 .. n
<1> SUFFICES ASSUME (0 .. n) \ T # {} PROVE FALSE
    OBVIOUS
<1>1. PICK x \in (0 .. n) \ T : \A y \in (0 .. n) \ T : x <= y
  <2> DEFINE U == (0 .. n) \ T
  <2>1. U \in SUBSET Nat /\ U # {}
        OBVIOUS
  <2> HIDE DEF U
  <2>2. \E x \in U : \A y \in U : x <= y
        BY <2>1, LeastNat
  <2> QED BY <2>2 DEF U
<1>2. x \in 1 .. n /\ x - 1 \in 0 .. n /\ ~(x <= x - 1)
      BY <1>1
<1> QED BY <1>1, <1>2

\* The list cmdQueue_Restart saves is of commands of the queue, and of those with a
\* callback only.
LEMMA CallbacksType ==
    ASSUME NEW S, NEW q \in Seq(S)
    PROVE  Service!CallbacksOf(q) \in Seq(S \cap HasCb)
<1> DEFINE R == Seq(S \cap HasCb)
           Next1(v, i) == IF q[i] \in HasCb THEN Append(v, q[i]) ELSE v
           Value(f, i) == IF i = 0 THEN <<>> ELSE Next1(f[i - 1], i)
           n == Len(q)
           Defines(f) == f = [i \in 0 .. n |-> Value(f, i)]
           saved == CHOOSE f : Defines(f)
           Upto(f, k) == /\ f[0] = <<>>
                         /\ \A i \in 1 .. k : f[i] = Next1(f[i - 1], i)
<1>1. n \in Nat
      OBVIOUS
<1>2. \A i \in 1 .. n : \A v \in R : Next1(v, i) \in R
  <2> TAKE i \in 1 .. n
  <2>1. q[i] \in S
        BY ElementOfSeq
  <2> QED BY <2>1
<1> HIDE DEF n
<1>3. \E f \in [0 .. n -> R] : Upto(f, n)
  <2> DEFINE T == {k \in 0 .. n : \E f \in [0 .. n -> R] : Upto(f, k)}
  <2>1. 0 \in T
    <3>1. <<>> \in R
          OBVIOUS
    <3> DEFINE f == [i \in 0 .. n |-> <<>>]
    <3>2. f \in [0 .. n -> R]
          BY <3>1
    <3>3. Upto(f, 0)
          BY <1>1
    <3> HIDE DEF f, Upto, R
    <3> QED BY <1>1, <3>2, <3>3
  <2>2. ASSUME NEW k \in 1 .. n, k - 1 \in T PROVE k \in T
    <3>1. PICK f \in [0 .. n -> R] : Upto(f, k - 1)
          BY <2>2
    <3> DEFINE g == [f EXCEPT ![k] = Next1(f[k - 1], k)]
    <3>2. g \in [0 .. n -> R]
      <4>1. f[k - 1] \in R
            BY <1>1, <3>1
      <4>2. Next1(f[k - 1], k) \in R
            BY <4>1, <1>2
      <4> HIDE DEF Next1, R
      <4> QED BY <3>1, <4>2
    <3>3. Upto(g, k)
      <4>1. g[0] = <<>> /\ \A i \in 0 .. k - 1 : g[i] = f[i]
            BY <1>1, <3>1
      <4>2. g[k] = Next1(g[k - 1], k)
            BY <1>1, <3>1, <4>1
      <4>3. \A i \in 1 .. k - 1 : g[i] = Next1(g[i - 1], i)
        <5> HIDE DEF g, Next1
        <5> QED BY <1>1, <3>1, <4>1
      <4> HIDE DEF g, Next1
      <4> QED BY <4>1, <4>2, <4>3
    <3> HIDE DEF g, Upto
    <3> QED BY <3>2, <3>3
  <2>3. T = 0 .. n
    <3> HIDE DEF Upto, R
    <3>1. T \in SUBSET (0 .. n)
          OBVIOUS
    <3> HIDE DEF T
    <3> QED BY <1>1, <2>1, <2>2, <3>1, SetInduction
  <2>4. n \in T
    <3> HIDE DEF T
    <3> QED BY <1>1, <2>3
  <2> QED BY <2>4
<1>4. \E f : Defines(f)
  <2>1. PICK f \in [0 .. n -> R] : Upto(f, n)
        BY <1>3
  <2>2. \A i \in 0 .. n : f[i] = Value(f, i)
    <3> HIDE DEF Next1, R
    <3> QED BY <1>1, <2>1
  <2>3. Defines(f)
    <3> HIDE DEF Value, R
    <3> QED BY <2>1, <2>2
  <2> QED BY <2>3
<1>5. Defines(saved)
  <2> HIDE DEF Defines
  <2> QED BY <1>4
<1>6. Upto(saved, n)
  <2> HIDE DEF saved
  <2>1. \A i \in 0 .. n : saved[i] = Value(saved, i)
    <3> HIDE DEF Value
    <3> QED BY <1>5
  <2> QED BY <1>1, <2>1
<1>7. saved[n] \in R
  <2> DEFINE T == {k \in 0 .. n : saved[k] \in R}
  <2> HIDE DEF saved
  <2>1. 0 \in T
    <3>1. <<>> \in R
          OBVIOUS
    <3> HIDE DEF Next1, R
    <3> QED BY <1>1, <1>6, <3>1
  <2>2. ASSUME NEW k \in 1 .. n, k - 1 \in T PROVE k \in T
    <3> HIDE DEF R, Next1
    <3> QED BY <1>1, <1>2, <1>6, <2>2
  <2>3. T = 0 .. n
    <3>1. T \in SUBSET (0 .. n)
          OBVIOUS
    <3> HIDE DEF T
    <3> QED BY <1>1, <2>1, <2>2, <3>1, SetInduction
  <2> QED BY <1>1, <2>3
<1>8. Service!CallbacksOf(q) = saved[n]
      BY DEF Service!CallbacksOf, n
<1> QED BY <1>7, <1>8

\* Commands of the configuration are in the queue only in FW_CONFIG, one at a
\* time, and none when its last callback calls cmdQueue_EndReconfig.
StepsInConfig ==
    /\ pc \in {"idle", "cb", "owed", "return"}
    /\ IF eSmState = "FW_CONFIG"
       THEN /\ pc \in {"idle", "return"} =>
                    aCmdQueue \in Seq(Steps) /\ Len(aCmdQueue) <= 1
            /\ pc = "cb" => aCmdQueue = <<>> /\ cbOf \in Steps
            /\ pc = "owed" => aCmdQueue \in Seq(Clients)
       ELSE /\ aCmdQueue \in Seq(Clients)
            /\ pc # "owed"
            /\ pc = "cb" => cbOf \in Clients

\* Callbacks of the configuration are saved by a stop out of FW_CONFIG alone; the
\* stop of STOPPING_ON_FAIL, which nothing else leaves but FAILED, drops them.
StepsNotOwed ==
    /\ aRecoveryQueue \in Seq(HasCb)
    /\ uCbIndex \in 1 .. Len(aRecoveryQueue) + 1
    /\ eSmState \notin {"STOPPING_ON_FAIL", "FAILED"} => aRecoveryQueue \in Seq(WithCb)

OwedInv == StepsInConfig /\ StepsNotOwed

\* A stop puts what is in the queue on the list.
LEMMA StopSaves ==
    ASSUME IInv, OwedInv, TwdStop, UNCHANGED ctx, pc = "idle",
           eSmState' # "FW_CONFIG",
           eSmState = "FW_CONFIG" => eSmState' = "STOPPING_ON_FAIL"
    PROVE  OwedInv'
<1> USE DEF IInv, Typing
<1>1. /\ aCmdQueue' = <<>> /\ aRecoveryQueue' = Service!CallbacksOf(aCmdQueue)
      /\ uCbIndex' = 1 /\ pc' = pc /\ cbOf' = cbOf
      BY DEF TwdStop, QueueRestart, ctx
<1>2. aRecoveryQueue' \in Seq(HasCb)
  <2>1. aRecoveryQueue' \in Seq(Commands \cap HasCb)
        BY <1>1, CallbacksType
  <2>2. Commands \cap HasCb \subseteq HasCb
        OBVIOUS
  <2> QED BY <2>1, <2>2, SeqMonotonic
<1>3. eSmState # "FW_CONFIG" => aRecoveryQueue' \in Seq(WithCb)
  <2> SUFFICES ASSUME eSmState # "FW_CONFIG" PROVE aRecoveryQueue' \in Seq(WithCb)
      OBVIOUS
  <2>1. aCmdQueue \in Seq(Clients)
        BY DEF OwedInv, StepsInConfig
  <2>2. aRecoveryQueue' \in Seq(Clients \cap HasCb)
        BY <1>1, <2>1, CallbacksType
  <2>3. Clients \cap HasCb \subseteq WithCb
        BY DEF HasCb
  <2> QED BY <2>2, <2>3, SeqMonotonic
<1>4. StepsInConfig'
  <2>1. aCmdQueue' \in Seq(Clients)
        BY <1>1
  <2> QED BY <1>1, <2>1 DEF StepsInConfig
<1>5. Len(aRecoveryQueue') \in Nat
      BY <1>2
<1> QED BY <1>1, <1>2, <1>3, <1>4, <1>5 DEF OwedInv, StepsNotOwed

\* What leaves the driver's state, the driver context and the list alone.
LEMMA ListKeeps ==
    ASSUME OwedInv, UNCHANGED <<owed, eSmState>>, StepsInConfig'
    PROVE  OwedInv'
  BY DEF OwedInv, StepsNotOwed, owed

LEMMA QuietOwed ==
    ASSUME OwedInv, UNCHANGED <<aCmdQueue, owed, eSmState, ctx>>
    PROVE  OwedInv'
  BY DEF OwedInv, StepsInConfig, StepsNotOwed, owed, ctx

LEMMA CompleteOwed ==
    ASSUME IInv, OwedInv, pc = "idle", fw # "idle", Complete, UNCHANGED <<owed, eSmState>>
    PROVE  OwedInv'
<1>1. aCmdQueue # <<>> /\ aCmdQueue \in Seq(Commands)
      BY DEF IInv, Typing, Holding
<1>2. /\ aCmdQueue' = Tail(aCmdQueue) /\ pc' = "cb" /\ cbOf' = Head(aCmdQueue)
      BY DEF Complete
<1>3. CASE eSmState = "FW_CONFIG"
  <2>1. aCmdQueue \in Seq(Steps) /\ Len(aCmdQueue) <= 1
        BY <1>3 DEF OwedInv, StepsInConfig
  <2>2. Len(aCmdQueue) = 1
    <3> DEFINE n == Len(aCmdQueue)
    <3>1. n \in Nat /\ n # 0
          BY <1>1, EmptySeq
    <3>2. n <= 1
          BY <2>1
    <3> HIDE DEF n
    <3>3. n = 1
          BY <3>1, <3>2
    <3> QED BY <3>3 DEF n
  <2>3. aCmdQueue' = <<>> /\ cbOf' \in Steps
        BY <1>1, <1>2, <2>1, <2>2
  <2> QED BY <1>2, <1>3, <2>3, ListKeeps DEF StepsInConfig
<1>4. CASE eSmState # "FW_CONFIG"
  <2>1. aCmdQueue \in Seq(Clients)
        BY <1>4 DEF OwedInv, StepsInConfig
  <2>2. aCmdQueue' \in Seq(Clients) /\ cbOf' \in Clients
        BY <1>1, <1>2, <2>1
  <2> QED BY <1>2, <1>4, <2>2, ListKeeps DEF StepsInConfig
<1> QED BY <1>3, <1>4

LEMMA InitOwedInv == Init => OwedInv
<1> SUFFICES ASSUME Init PROVE OwedInv
    OBVIOUS
<1>1. aCmdQueue = <<>> /\ aRecoveryQueue = <<>> /\ uCbIndex = 1 /\ pc = "idle"
      BY DEF Init
<1>2. /\ aCmdQueue \in Seq(Clients) /\ aRecoveryQueue \in Seq(HasCb)
      /\ aRecoveryQueue \in Seq(WithCb) /\ Len(aRecoveryQueue) = 0
      BY <1>1
<1> QED BY <1>1, <1>2 DEF Init, OwedInv, StepsInConfig, StepsNotOwed

\* cmdBld_ConfigSeq, with an empty queue.
LEMMA ConfigSeqOwed ==
    ASSUME NEW from \in Nat, ConfigSeq(from), aCmdQueue = <<>>
    PROVE  aCmdQueue' \in Seq(Steps) /\ Len(aCmdQueue') <= 1
<1>1. CASE bErrorFlag
  <2>1. aCmdQueue' = <<>>
        BY <1>1 DEF ConfigSeq
  <2> QED BY <2>1
<1>2. CASE ~bErrorFlag
  <2>1. PICK i \in from .. MemMap : Push(i)
        BY <1>2 DEF ConfigSeq
  <2>2. i \in Steps /\ aCmdQueue' = <<i>>
        BY <2>1 DEF Push, Steps, MemMap
  <2> QED BY <2>2
<1> QED BY <1>1, <1>2

LEMMA NextOwedInv == IInv /\ OwedInv /\ [Next]_vars => OwedInv'
<1> SUFFICES ASSUME IInv, OwedInv, [Next]_vars PROVE OwedInv'
    OBVIOUS
<1> USE DEF queue, mbox, driver
<1>1. ASSUME NEW c \in Clients, SendCommand(c) PROVE OwedInv'
  <2>1. /\ aCmdQueue' = Append(aCmdQueue, c) /\ UNCHANGED <<owed, eSmState, ctx>>
        /\ ClientRuns
        BY <1>1 DEF SendCommand, Push
  <2>2. aCmdQueue \in Seq(Clients) => aCmdQueue' \in Seq(Clients)
        BY <2>1
  <2>3. eSmState # "FW_CONFIG" \/ pc = "owed"
        BY <2>1 DEF ClientRuns
  <2>4. aCmdQueue \in Seq(Clients)
        BY <2>3 DEF OwedInv, StepsInConfig
  <2>5. StepsInConfig'
        BY <2>1, <2>2, <2>3, <2>4 DEF OwedInv, StepsInConfig, ctx
  <2> QED BY <2>1, <2>5, ListKeeps
<1>2. ASSUME NEW s, FwAnswer(s) PROVE OwedInv'
      BY <1>2, QuietOwed DEF FwAnswer
<1>3. CASE CommandComplete
  <2>1. CASE Complete
        BY <1>3, <2>1, CompleteOwed DEF CommandComplete
  <2>2. CASE ~Complete
        BY <1>3, <2>2, QuietOwed DEF CommandComplete
  <2> QED BY <2>1, <2>2
<1>4. CASE TransferComplete
      BY <1>4, CompleteOwed DEF TransferComplete
<1>4a. CASE ReadFails
      BY <1>4a, QuietOwed DEF ReadFails
<1>5. CASE LateTransferComplete
      BY <1>5, QuietOwed DEF LateTransferComplete
<1>6. CASE CbReturn
  <2>1. /\ UNCHANGED <<aCmdQueue, owed, eSmState>> /\ pc' = "idle"
        /\ \/ pc = "return"
           \/ pc = "cb" /\ cbOf \in Clients
        BY <1>6 DEF CbReturn
  <2>2. eSmState = "FW_CONFIG" => pc = "return"
        BY <2>1, CommandsAssumption DEF OwedInv, StepsInConfig
  <2>3. StepsInConfig'
        BY <2>1, <2>2 DEF OwedInv, StepsInConfig
  <2> QED BY <2>1, <2>3, ListKeeps
<1>7. CASE ConfigFw
  <2>1. /\ ConfigSeq(0) /\ eSmState = "INIT" /\ eSmState' = "FW_CONFIG" /\ pc = "idle"
        /\ UNCHANGED <<pc, owed>>
        BY <1>7 DEF ConfigFw, ctx
  <2>2. aCmdQueue = <<>>
        BY <2>1 DEF IInv, WorksWhenEnabled, Working
  <2>3. aCmdQueue' \in Seq(Steps) /\ Len(aCmdQueue') <= 1
        BY <2>1, <2>2, ConfigSeqOwed
  <2> QED BY <2>1, <2>3 DEF OwedInv, StepsInConfig, StepsNotOwed, owed
<1>8. CASE ConfigSeqCb
  <2>1. /\ ConfigSeq(uIniSeq) /\ uIniSeq \in Nat /\ pc = "cb" /\ pc' = "return"
        /\ cbOf \in Steps /\ UNCHANGED <<owed, eSmState>>
        BY <1>8 DEF ConfigSeqCb, IInv, Typing
  <2>2. eSmState = "FW_CONFIG" /\ aCmdQueue = <<>>
        BY <2>1 DEF OwedInv, StepsInConfig
  <2>3. aCmdQueue' \in Seq(Steps) /\ Len(aCmdQueue') <= 1
        BY <2>1, <2>2, ConfigSeqOwed
  <2>4. StepsInConfig'
        BY <2>1, <2>2, <2>3 DEF StepsInConfig
  <2> QED BY <2>1, <2>4, ListKeeps
<1>9. CASE ConfigFwCb
  <2>1. /\ pc = "cb" /\ cbOf \in Steps /\ pc' = "owed"
        /\ UNCHANGED <<aCmdQueue, owed, eSmState>>
        BY <1>9 DEF ConfigFwCb, MemMap, Steps
  <2>2. eSmState = "FW_CONFIG" /\ aCmdQueue = <<>>
        BY <2>1 DEF OwedInv, StepsInConfig
  <2>3. aCmdQueue' \in Seq(Clients)
        BY <2>1, <2>2
  <2>4. StepsInConfig'
        BY <2>1, <2>2, <2>3 DEF StepsInConfig
  <2> QED BY <2>1, <2>4, ListKeeps
<1>10. CASE OwedCb
      BY <1>10 DEF OwedCb, Owes, OwedInv, StepsInConfig, StepsNotOwed, ctx
<1>11. CASE EndReconfig
  <2>1. /\ pc = "owed" /\ pc' = "return" /\ eSmState' = "OPERATIONAL"
        /\ aRecoveryQueue' = <<>> /\ uCbIndex' = 1 /\ UNCHANGED aCmdQueue
        BY <1>11 DEF EndReconfig
  <2>2. aCmdQueue \in Seq(Clients)
        BY <2>1 DEF OwedInv, StepsInConfig
  <2>3. aRecoveryQueue' \in Seq(HasCb) /\ aRecoveryQueue' \in Seq(WithCb) /\ Len(aRecoveryQueue') = 0
        BY <2>1
  <2> QED BY <2>1, <2>2, <2>3 DEF OwedInv, StepsInConfig, StepsNotOwed
<1>12. CASE Start \/ Stop \/ StopComplete
      BY <1>12 DEF Start, Stop, StopComplete, OwedInv, StepsInConfig, StepsNotOwed,
                   owed, ctx
<1>13. CASE Disconnected \/ InitFail
      BY <1>13, StopSaves DEF Disconnected, InitFail
<1>14. CASE OtherFailure \/ TimeOut
      BY <1>14, QuietOwed DEF OtherFailure, TimeOut
<1>15. CASE ProcessFailureEvent
  <2>1. pc = "idle" /\ UNCHANGED ctx
        BY <1>15 DEF ProcessFailureEvent
  <2>2. CASE Recover
        BY <2>1, <2>2, StopSaves DEF Recover
  <2>3. CASE RecoverOnFail
        BY <2>1, <2>3, StopSaves DEF RecoverOnFail
  <2>4. CASE GiveUp \/ IgnoreFailure
        BY <2>1, <2>4 DEF GiveUp, IgnoreFailure, OwedInv, StepsInConfig, StepsNotOwed,
                          owed, ctx
  <2> QED BY <1>15, <2>2, <2>3, <2>4 DEF ProcessFailureEvent
<1>16. ASSUME NEW t \in Timers, TimerExpires(t) PROVE OwedInv'
      BY <1>16, QuietOwed DEF TimerExpires
<1>17. CASE UNCHANGED vars
      BY <1>17, QuietOwed DEF vars
<1> QED BY <1>1, <1>2, <1>3, <1>4, <1>4a, <1>5, <1>6, <1>7, <1>8, <1>9, <1>10, <1>11,
           <1>12, <1>13, <1>14, <1>15, <1>16, <1>17
        DEF Next, Command, Config, LifeCycle, Failure

LEMMA OwedInvariance == Spec => []OwedInv
  BY InitOwedInv, NextOwedInv, Invariance, PTL DEF Spec

\* Whoever is told of a reset of the firmware by cmdQueue_EndReconfig is an upper
\* layer, for any configuration sequence, any answers and any order of failures: the
\* configuration of the firmware never starts itself anew from within.
THEOREM OwedAreClients == Spec => []OwedToClients
<1>1. OwedInv => OwedToClients
      BY DEF OwedInv, StepsInConfig, StepsNotOwed, OwedToClients
<1> QED BY <1>1, OwedInvariance, PTL

-----------------------------------------------------------------------------
(* The timeout of the command at the firmware.                             *)

\* The expiry queues are of timers.
TimerTyping ==
    hInitQueue \in Seq(Timers) /\ hOperQueue \in Seq(Timers)

\* The timeout of the command at the firmware is on its way; an OS timer's
\* expiry is not ignored.
Timed ==
    /\ fw = "busy" =>
           \/ CmdTimer \in running /\ (bOperState => CmdTimer \in operStarted)
           \/ Queued(CmdTimer)
           \/ failureEvent
    /\ fw = "lost" => failureEvent

TimedInv == TimerTyping /\ Timed

Has(q, t) == \E i \in DOMAIN q : q[i] = t

LEMMA QueuedInOne ==
    /\ \A t : Queued(t) <=> Has(hInitQueue, t) \/ Has(hOperQueue, t)
    /\ \A t : Queued(t)' <=> Has(hInitQueue', t) \/ Has(hOperQueue', t)
  BY DEF Queued, Has

\* What is in an expiry queue stays there when another expiry is queued, and what is
\* appended is in it.
LEMMA AppendKeeps ==
    ASSUME NEW q \in Seq(Timers), NEW t \in Timers
    PROVE  /\ Append(q, t) \in Seq(Timers)
           /\ \A u : Has(q, u) => Has(Append(q, t), u)
           /\ Has(Append(q, t), t)
<1> DEFINE p == Append(q, t)
<1>1. /\ p \in Seq(Timers) /\ Len(p) = Len(q) + 1 /\ p[Len(q) + 1] = t
      /\ \A i \in 1 .. Len(q) : p[i] = q[i]
      BY AppendProperties
<1>2. /\ Len(q) \in Nat /\ DOMAIN q = 1 .. Len(q) /\ DOMAIN p = 1 .. Len(p)
      BY <1>1, LenProperties
<1> HIDE DEF p
<1>3. \A i \in DOMAIN q : i \in DOMAIN p
      BY <1>1, <1>2
<1>4. Len(q) + 1 \in DOMAIN p
      BY <1>1, <1>2
<1>5. (\A u : Has(q, u) => Has(p, u)) /\ Has(p, t)
      BY <1>1, <1>2, <1>3, <1>4 DEF Has
<1> QED BY <1>1, <1>5 DEF p

\* The expiry of the OS timer of a running timer gets into a queue, unless it is one
\* of those that are ignored; what is queued stays so.
LEMMA ExpiryQueued ==
    ASSUME TimerTyping, NEW t \in Timers, GetExpiry(t)
    PROVE  /\ TimerTyping'
           /\ \A u \in Timers : Queued(u) => Queued(u)'
           /\ (bOperState => t \in operStarted) => Queued(t)'
<1> USE DEF TimerTyping
<1>1. CASE t \in operStarted /\ ~Queued(t)
  <2>1. hOperQueue' = Append(hOperQueue, t) /\ hInitQueue' = hInitQueue
        BY <1>1 DEF GetExpiry
  <2> QED BY <2>1, AppendKeeps, QueuedInOne
<1>2. CASE t \notin operStarted /\ ~bOperState /\ ~Queued(t)
  <2>1. hInitQueue' = Append(hInitQueue, t) /\ hOperQueue' = hOperQueue
        BY <1>2 DEF GetExpiry
  <2> QED BY <2>1, AppendKeeps, QueuedInOne
<1>3. CASE Queued(t) \/ (t \notin operStarted /\ bOperState)
  <2>1. hInitQueue' = hInitQueue /\ hOperQueue' = hOperQueue
        BY <1>3 DEF GetExpiry
  <2> QED BY <1>3, <2>1, QueuedInOne
<1> QED BY <1>1, <1>2, <1>3

LEMMA DequeueTyping ==
    ASSUME TimerTyping, NEW t, Expired(t), DequeueExpiry PROVE TimerTyping'
<1>1. CASE bOperState
  <2>1. hOperQueue # <<>> /\ hOperQueue' = Tail(hOperQueue) /\ hInitQueue' = hInitQueue
        BY <1>1 DEF Expired, DequeueExpiry
  <2> QED BY <2>1 DEF TimerTyping
<1>2. CASE ~bOperState
  <2>1. hInitQueue # <<>> /\ hInitQueue' = Tail(hInitQueue) /\ hOperQueue' = hOperQueue
        BY <1>2 DEF Expired, DequeueExpiry
  <2> QED BY <2>1 DEF TimerTyping
<1> QED BY <1>1, <1>2

LEMMA RunTimed ==
    ASSUME NEW c, Run(c), UNCHANGED bOperState PROVE Timed'
  BY DEF Run, MboxSend, StartTimer, Timed

LEMMA SameTimed ==
    ASSUME Timed, UNCHANGED <<fw, running, operStarted, bOperState, hInitQueue,
                              hOperQueue, failureEvent>>
    PROVE  Timed'
  BY DEF Timed, Queued

LEMMA PushTimed ==
    ASSUME Timed, NEW c, Push(c), UNCHANGED <<bOperState, hInitQueue, hOperQueue, failureEvent>>
    PROVE  Timed'
  BY RunTimed, SameTimed DEF Push, mbox

LEMMA ConfigSeqTimed ==
    ASSUME Timed, NEW from, ConfigSeq(from),
           UNCHANGED <<bOperState, hInitQueue, hOperQueue, failureEvent>>
    PROVE  Timed'
<1>1. CASE bErrorFlag
      BY <1>1, SameTimed DEF ConfigSeq, mbox
<1>2. CASE ~bErrorFlag
      BY <1>2, PushTimed DEF ConfigSeq
<1> QED BY <1>1, <1>2

LEMMA NextTimedInv == IInv /\ TimedInv /\ [Next]_vars => TimedInv'
<1> SUFFICES ASSUME IInv, TimedInv, [Next]_vars PROVE TimedInv'
    OBVIOUS
<1> USE DEF queue, mbox, driver, timerVars, TimedInv
<1>0. /\ pc # "idle" \/ ~bMboxEnabled => fw = "idle"
      /\ bMboxEnabled => eSmState \in {"FW_CONFIG", "OPERATIONAL", "DISCONNECTING"}
      BY DEF IInv, WorksWhenEnabled, Working, Holding
<1>1. ASSUME NEW c \in Clients, SendCommand(c) PROVE TimedInv'
      BY <1>1, PushTimed DEF SendCommand, TimerTyping
<1>2. ASSUME NEW s, FwAnswer(s) PROVE TimedInv'
      BY <1>2 DEF FwAnswer, TimerTyping, Timed
<1>3. CASE CommandComplete
      BY <1>3 DEF CommandComplete, Complete, TimerTyping, Timed
<1>4. CASE TransferComplete
      BY <1>4 DEF TransferComplete, Complete, TimerTyping, Timed
<1>4a. CASE ReadFails
      BY <1>4a DEF ReadFails, TimerTyping, Timed
<1>5. CASE LateTransferComplete
      BY <1>5, SameTimed DEF LateTransferComplete, TimerTyping
<1>6. CASE CbReturn
  <2>1. UNCHANGED <<bOperState, hInitQueue, hOperQueue, failureEvent>>
        BY <1>6 DEF CbReturn
  <2>2. CASE aCmdQueue # <<>>
        BY <1>6, <2>1, <2>2, RunTimed DEF CbReturn, TimerTyping
  <2>3. CASE aCmdQueue = <<>>
        BY <1>6, <2>1, <2>3, SameTimed DEF CbReturn, TimerTyping
  <2> QED BY <2>2, <2>3
<1>7. CASE ConfigFw
      BY <1>7, ConfigSeqTimed DEF ConfigFw, TimerTyping
<1>8. CASE ConfigSeqCb
      BY <1>8, ConfigSeqTimed DEF ConfigSeqCb, TimerTyping
<1>9. CASE ConfigFwCb
      BY <1>9, SameTimed DEF ConfigFwCb, TimerTyping
<1>10. CASE OwedCb
      BY <1>10, SameTimed DEF OwedCb, TimerTyping
<1>11. CASE EndReconfig
  <2>1. fw' = "idle" /\ hInitQueue' = <<>> /\ UNCHANGED hOperQueue
        BY <1>0, <1>11 DEF EndReconfig, BecomeOperational
  <2> QED BY <2>1 DEF TimerTyping, Timed
<1>12. CASE Start \/ Stop
      BY <1>12 DEF Start, Stop, TimerTyping, Timed, Queued
<1>13. CASE StopComplete
  <2>1. /\ fw' = "idle" /\ UNCHANGED hInitQueue
        /\ hOperQueue' = hOperQueue \/ hOperQueue' = <<>>
        BY <1>0, <1>13 DEF StopComplete, ClearOperQueue
  <2>2. TimerTyping'
    <3>1. hOperQueue' \in Seq(Timers)
          BY <2>1, EmptySeq DEF TimerTyping
    <3> QED BY <2>1, <3>1 DEF TimerTyping
  <2> QED BY <2>1, <2>2 DEF Timed
<1>14. CASE Disconnected \/ InitFail
      BY <1>14 DEF Disconnected, InitFail, TwdStop, TimerTyping, Timed
<1>15. CASE OtherFailure
      BY <1>15 DEF OtherFailure, SendFailureEvent, TimerTyping, Timed
<1>16. CASE TimeOut
  <2>1. TimerTyping'
        BY <1>16, DequeueTyping DEF TimeOut
  <2>2. failureEvent'
        BY <1>16 DEF TimeOut, SendFailureEvent
  <2> QED BY <2>1, <2>2 DEF Timed
<1>17. CASE ProcessFailureEvent
  <2>1. TimerTyping'
        BY <1>17, DequeueTyping DEF ProcessFailureEvent
  <2>2. Recover \/ RecoverOnFail => fw' = "idle"
        BY DEF Recover, RecoverOnFail, TwdStop
  <2>3. GiveUp \/ IgnoreFailure => fw' = "idle"
        BY <1>0 DEF GiveUp, IgnoreFailure
  <2> QED BY <1>17, <2>1, <2>2, <2>3 DEF ProcessFailureEvent, Timed
<1>18. ASSUME NEW t \in Timers, TimerExpires(t) PROVE TimedInv'
  <2>1. /\ GetExpiry(t) /\ UNCHANGED <<fw, failureEvent>>
        /\ running' = running \ {t} /\ UNCHANGED <<bOperState, operStarted>>
        BY <1>18 DEF TimerExpires, GetExpiry
  <2>2. /\ TimerTyping'
        /\ Queued(CmdTimer) => Queued(CmdTimer)'
        /\ t = CmdTimer /\ (bOperState => CmdTimer \in operStarted) => Queued(CmdTimer)'
        BY <2>1, ExpiryQueued, TimersAssumption
  <2>3. Timed'
        BY <2>1, <2>2 DEF Timed
  <2> QED BY <2>2, <2>3
<1>19. CASE UNCHANGED vars
      BY <1>19, SameTimed DEF vars, TimerTyping
<1> QED BY <1>1, <1>2, <1>3, <1>4, <1>4a, <1>5, <1>6, <1>7, <1>8, <1>9, <1>10, <1>11,
           <1>12, <1>13, <1>14, <1>15, <1>16, <1>17, <1>18, <1>19
        DEF Next, Command, Config, LifeCycle, Failure

\* As long as the firmware has a command the driver has a way to notice that it does
\* not answer, for any commands, over every stop, recovery and change of the
\* operational state in between.
THEOREM HangsAreNoticed == Spec => []HangIsNoticed
<1>1. Init => TimedInv
      BY DEF Init, TimerInit, TimedInv, TimerTyping, Timed
<1>2. TimedInv => HangIsNoticed
      BY DEF TimedInv, Timed, HangIsNoticed
<1> QED BY <1>1, <1>2, NextTimedInv, Invariance, PTL DEF Spec

-----------------------------------------------------------------------------
(* The service of CmdService.                                              *)

\* The mailbox of no command.
FreeMailbox == ~bCmdInProgress => fwCmd = None

LEMMA NextFreeMailbox == IInv /\ FreeMailbox /\ [Next]_vars => FreeMailbox'
<1> SUFFICES ASSUME IInv, FreeMailbox, [Next]_vars PROVE FreeMailbox'
    OBVIOUS
<1>1. \A c : MboxSend(c) => FreeMailbox'
      BY DEF MboxSend, FreeMailbox
<1>2. \A c : Run(c) => FreeMailbox'
      BY <1>1 DEF Run
<1>3. UNCHANGED <<bCmdInProgress, fwCmd>> => FreeMailbox'
      BY DEF FreeMailbox
<1>4. \A c : Push(c) => FreeMailbox'
      BY <1>2, <1>3 DEF Push, mbox
<1>5. Complete \/ TwdStop => FreeMailbox'
      BY DEF Complete, TwdStop, FreeMailbox
<1>6. \A from : ConfigSeq(from) => FreeMailbox'
      BY <1>3, <1>4 DEF ConfigSeq, mbox
<1> USE DEF mbox
<1>7. CASE Command
  <2>1. LateTransferComplete => ~bCmdInProgress
        BY DEF LateTransferComplete, IInv, Typing, WorksWhenEnabled, Holding, Working
  <2>2. LateTransferComplete => FreeMailbox'
        BY <2>1 DEF LateTransferComplete, FreeMailbox
  <2>3. CbReturn => FreeMailbox'
        BY <1>2, <1>3 DEF CbReturn
  <2>4. CommandComplete \/ TransferComplete \/ ReadFails => FreeMailbox'
        BY <1>3, <1>5 DEF CommandComplete, TransferComplete, ReadFails
  <2>5. ASSUME NEW s, FwAnswer(s) PROVE FreeMailbox'
        BY <1>3, <2>5 DEF FwAnswer
  <2>6. ASSUME NEW c, SendCommand(c) PROVE FreeMailbox'
        BY <1>4, <2>6 DEF SendCommand
  <2> QED BY <1>7, <2>2, <2>3, <2>4, <2>5, <2>6 DEF Command
<1>8. CASE Config
      BY <1>3, <1>6, <1>8 DEF Config, ConfigFw, ConfigSeqCb, ConfigFwCb, OwedCb, EndReconfig
<1>9. CASE LifeCycle
      BY <1>3, <1>5, <1>9 DEF LifeCycle, Start, Stop, Disconnected, StopComplete, InitFail
<1>10. CASE Failure
  <2>1. ProcessFailureEvent => FreeMailbox'
        BY <1>3, <1>5 DEF ProcessFailureEvent, Recover, RecoverOnFail, GiveUp, IgnoreFailure
  <2>2. OtherFailure \/ TimeOut => FreeMailbox'
        BY <1>3 DEF OtherFailure, TimeOut
  <2>3. ASSUME NEW t, TimerExpires(t) PROVE FreeMailbox'
        BY <1>3, <2>3 DEF TimerExpires
  <2> QED BY <1>10, <2>1, <2>2, <2>3 DEF Failure
<1>11. CASE UNCHANGED vars
      BY <1>3, <1>11 DEF vars
<1> QED BY <1>7, <1>8, <1>9, <1>10, <1>11 DEF Next

\* The list of Service: the callbacks that are not called yet.
ToTell == SubSeq(aRecoveryQueue, uCbIndex, Len(aRecoveryQueue))

LEMMA AcceptImplemented ==
    ASSUME IInv, NEW c \in Commands, Push(c), UNCHANGED owed
    PROVE  Service!Next
<1>1. /\ aCmdQueue' = Append(aCmdQueue, c)
      /\ (Len(aCmdQueue) = 0 /\ Run(c)) \/ UNCHANGED mbox
      BY DEF Push
<1>2. Len(aCmdQueue) = 0 => aCmdQueue = <<>>
      BY DEF IInv, Typing
<1>3. \/ fwCmd' = fwCmd
      \/ aCmdQueue = <<>> /\ fwCmd' = c
      BY <1>1, <1>2 DEF Run, MboxSend, mbox
<1>4. ToTell' = ToTell
      BY DEF ToTell, owed
<1> QED BY <1>1, <1>3, <1>4 DEF Service!Next, Service!Accept, ToTell

LEMMA AnswerImplemented ==
    ASSUME IInv, fw # "idle", Complete, UNCHANGED owed
    PROVE  Service!Next
<1>1. /\ aCmdQueue # <<>> /\ fwCmd = Head(aCmdQueue)
      /\ aCmdQueue' = Tail(aCmdQueue) /\ fwCmd' = None /\ ToTell' = ToTell
      BY DEF IInv, Holding, Complete, owed, ToTell
<1> QED BY <1>1 DEF Service!Next, Service!Answer, ToTell

\* TWD_Stop resets the firmware, whatever the queue holds.
LEMMA ResetImplemented ==
    ASSUME IInv, TwdStop
    PROVE  Service!Next
<1>1. /\ aRecoveryQueue' = Service!CallbacksOf(aCmdQueue) /\ uCbIndex' = 1
      /\ aCmdQueue' = <<>> /\ fwCmd' = None
      BY DEF TwdStop, QueueRestart
<1>2. aRecoveryQueue' \in Seq(Commands \cap HasCb)
      BY <1>1, CallbacksType DEF IInv, Typing
<1>3. ToTell' = SubSeq(aRecoveryQueue', 1, Len(aRecoveryQueue'))
      BY <1>1 DEF ToTell
<1>4. ToTell' = aRecoveryQueue'
      BY <1>2, <1>3, SubSeqFull
<1>5. Service!Reset
      BY <1>1, <1>4 DEF Service!Reset, ToTell
<1> QED BY <1>5 DEF Service!Next

LEMMA NothingDone ==
    ASSUME UNCHANGED <<aCmdQueue, fwCmd, owed>> PROVE UNCHANGED Service!vars
  BY DEF Service!vars, owed

LEMMA ConfigSeqImplemented ==
    ASSUME IInv, NEW from \in Nat, ConfigSeq(from), UNCHANGED owed
    PROVE  [Service!Next]_(Service!vars)
<1>1. CASE bErrorFlag
      BY <1>1, NothingDone DEF ConfigSeq, mbox
<1>2. CASE ~bErrorFlag
  <2>1. PICK i \in from .. MemMap : Push(i)
        BY <1>2 DEF ConfigSeq
  <2>2. i \in Commands
        BY <2>1, StepsAreCommands DEF Steps, MemMap
  <2> QED BY <2>1, <2>2, AcceptImplemented
<1> QED BY <1>1, <1>2

LEMMA TellImplemented ==
    ASSUME OwedInv, OwedCb PROVE Service!Next
<1>1. /\ uCbIndex \in 1 .. Len(aRecoveryQueue) /\ aRecoveryQueue \in Seq(HasCb)
      /\ Len(aRecoveryQueue) \in Nat
      /\ uCbIndex' = uCbIndex + 1 /\ UNCHANGED <<aRecoveryQueue, aCmdQueue, fwCmd>>
      BY LenProperties DEF OwedCb, Owes, OwedInv, StepsNotOwed, queue, mbox
<1>2. ToTell' = Tail(ToTell)
  <2>1. Len(aRecoveryQueue) \in uCbIndex .. Len(aRecoveryQueue)
        BY <1>1
  <2>2. Tail(ToTell) = SubSeq(aRecoveryQueue, uCbIndex + 1, Len(aRecoveryQueue))
        BY <1>1, <2>1, HeadTailOfSubSeq DEF ToTell
  <2> QED BY <1>1, <2>2 DEF ToTell
<1>3. ToTell # <<>>
  <2>1. \A i \in uCbIndex .. Len(aRecoveryQueue) : aRecoveryQueue[i] \in HasCb
        BY <1>1, ElementOfSeq
  <2>2. Len(ToTell) = Len(aRecoveryQueue) - uCbIndex + 1
        BY <1>1, <2>1, SubSeqProperties DEF ToTell
  <2> QED BY <1>1, <2>2, EmptySeq
<1> QED BY <1>1, <1>2, <1>3 DEF Service!Next, Service!Tell, ToTell

LEMMA EndImplemented ==
    ASSUME OwedInv, EndReconfig PROVE UNCHANGED Service!vars
<1>1. /\ uCbIndex \in Nat /\ Len(aRecoveryQueue) \in Nat /\ Len(aRecoveryQueue) < uCbIndex
      /\ aRecoveryQueue' = <<>> /\ uCbIndex' = 1 /\ UNCHANGED <<aCmdQueue, fwCmd>>
      BY LenProperties DEF EndReconfig, Owes, OwedInv, StepsNotOwed, queue, mbox
<1>2. ToTell = <<>>
      BY <1>1, SubSeqEmpty DEF ToTell
<1>3. ToTell' = <<>>
  <2>1. ToTell' = SubSeq(aRecoveryQueue', 1, 0)
        BY <1>1 DEF ToTell
  <2> QED BY <2>1, SubSeqEmpty
<1> QED BY <1>1, <1>2, <1>3 DEF Service!vars, ToTell

LEMMA StepImplemented ==
    IInv /\ OwedInv /\ FreeMailbox /\ [Next]_vars => [Service!Next]_(Service!vars)
<1> SUFFICES ASSUME IInv, OwedInv, FreeMailbox, [Next]_vars
             PROVE  [Service!Next]_(Service!vars)
    OBVIOUS
<1> USE DEF queue, mbox
<1>1. ASSUME NEW c \in Clients, SendCommand(c) PROVE Service!Next
      BY <1>1, AcceptImplemented, StepsAreCommands DEF SendCommand
<1>2. ASSUME NEW s, FwAnswer(s) PROVE UNCHANGED Service!vars
      BY <1>2, NothingDone DEF FwAnswer
<1>3. CASE CommandComplete
  <2>1. CASE Complete
        BY <1>3, <2>1, AnswerImplemented DEF CommandComplete
  <2>2. CASE ~Complete
        BY <1>3, <2>2, NothingDone DEF CommandComplete
  <2> QED BY <2>1, <2>2
<1>4. CASE TransferComplete
      BY <1>4, AnswerImplemented DEF TransferComplete
<1>4a. CASE ReadFails
      BY <1>4a, NothingDone DEF ReadFails
<1>5. CASE LateTransferComplete
      BY <1>5, NothingDone DEF LateTransferComplete
<1>6. CASE CbReturn
  <2>1. CASE aCmdQueue = <<>>
        BY <1>6, <2>1, NothingDone DEF CbReturn
  <2>2. CASE aCmdQueue # <<>>
    <3>1. fwCmd' = Head(aCmdQueue) /\ UNCHANGED <<aCmdQueue, owed>>
          BY <1>6, <2>2 DEF CbReturn, Run, MboxSend
    <3>2. fwCmd = None
          BY <1>6 DEF CbReturn, IInv, Holding, FreeMailbox
    <3>3. ToTell' = ToTell
          BY <3>1 DEF owed, ToTell
    <3> QED BY <2>2, <3>1, <3>2, <3>3 DEF Service!Next, Service!Give, ToTell
  <2> QED BY <2>1, <2>2
<1>7. CASE ConfigFw
      BY <1>7, ConfigSeqImplemented DEF ConfigFw
<1>8. CASE ConfigSeqCb
      BY <1>8, ConfigSeqImplemented DEF ConfigSeqCb, IInv, Typing
<1>9. CASE ConfigFwCb
      BY <1>9, NothingDone DEF ConfigFwCb
<1>10. CASE OwedCb
      BY <1>10, TellImplemented
<1>11. CASE EndReconfig
      BY <1>11, EndImplemented
<1>12. CASE Start \/ Stop \/ StopComplete
      BY <1>12, NothingDone DEF Start, Stop, StopComplete
<1>13. CASE Disconnected \/ InitFail
      BY <1>13, ResetImplemented DEF Disconnected, InitFail
<1>14. CASE OtherFailure \/ TimeOut
      BY <1>14, NothingDone DEF OtherFailure, TimeOut
<1>15. CASE ProcessFailureEvent
      BY <1>15, ResetImplemented, NothingDone
         DEF ProcessFailureEvent, Recover, RecoverOnFail, GiveUp, IgnoreFailure
<1>16. ASSUME NEW t, TimerExpires(t) PROVE UNCHANGED Service!vars
      BY <1>16, NothingDone DEF TimerExpires
<1>17. CASE UNCHANGED vars
      BY <1>17, NothingDone DEF vars
<1> QED BY <1>1, <1>2, <1>3, <1>4, <1>4a, <1>5, <1>6, <1>7, <1>8, <1>9, <1>10, <1>11,
           <1>12, <1>13, <1>14, <1>15, <1>16, <1>17
        DEF Next, Command, Config, LifeCycle, Failure

LEMMA InitImplemented == Init => FreeMailbox /\ Service!Init
<1> SUFFICES ASSUME Init PROVE FreeMailbox /\ Service!Init
    OBVIOUS
<1>1. aCmdQueue = <<>> /\ fwCmd = None /\ aRecoveryQueue = <<>> /\ uCbIndex = 1
      BY DEF Init
<1>2. ToTell = SubSeq(<<>>, 1, 0)
      BY <1>1 DEF ToTell
<1>3. ToTell = <<>>
      BY <1>2, SubSeqEmpty
<1> QED BY <1>1, <1>3 DEF Service!Init, FreeMailbox, ToTell

\* The queue, the mailbox and what a stop saves do what CmdService promises, for any
\* commands, configuration sequence and depth: one command at a time, in order, only
\* the one at the firmware is answered, and each unanswered callback is saved once.
THEOREM QueueImplementsService == Spec => ImplementsService
  BY InitImplemented, StepImplemented, NextFreeMailbox, Invariance, OwedInvariance, PTL
     DEF Spec, ImplementsService, Service!Spec

=============================================================================
