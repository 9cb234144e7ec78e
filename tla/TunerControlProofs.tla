--------------------------- MODULE TunerControlProofs ---------------------------
(***************************************************************************)
(* Theorems of AudioPlayer and of TunerControl, the loop over it, for      *)
(* every value of their constants and for any set of physical controls and *)
(* REMOTE commands.                                                        *)
(***************************************************************************)
EXTENDS TunerControl, TLAPS

(***************************************************************************)
(* AudioPlayer.                                                            *)
(***************************************************************************)
USE DEF Statuses, Live, Tickets, slotVars, taskVars, loopVars, chainVars,
        btVars, historyVars

-----------------------------------------------------------------------------
(* Types.  The flags are kept apart from the rest, which needs arithmetic. *)

LEMMA FlagsStep == TypeOK /\ [Next]_vars => FlagsOK'
  <1> SUFFICES ASSUME TypeOK, [Next]_vars PROVE FlagsOK'
    OBVIOUS
  <1> USE DEF TypeOK, FlagsOK
  <1>1. CASE AudioTask
    <2>1. CASE Claim BY <2>1, Zenon DEF Claim
    <2>2. CASE TaskOpen BY <2>2, Zenon DEF TaskOpen
    <2>3. CASE TaskCheck BY <2>3, Zenon DEF TaskCheck
    <2>4. CASE TaskRecheck
      BY <2>4, Zenon DEF TaskRecheck, Construct, StartFails
    <2>5. CASE TaskBegin
      BY <2>5, Zenon DEF TaskBegin, StartSucceeds, StartFails, SetBtxSource
    <2>6. CASE Report BY <2>6, Zenon DEF Report
    <2>7. CASE DecodeBegin BY <2>7, Zenon DEF DecodeBegin
    <2>8. CASE DecodeEnd BY <2>8, Zenon DEF DecodeEnd
    <2> QED
      BY <1>1, <2>1, <2>2, <2>3, <2>4, <2>5, <2>6, <2>7, <2>8 DEF AudioTask
  <1>2. CASE LoopCall
    <2>1. ASSUME NEW r \in Requests, NEW u \in Urls, DeferPlay(r, u)
          PROVE  FlagsOK'
      BY <2>1, Zenon DEF DeferPlay
    <2>2. ASSUME NEW r \in Requests, ClearDeferredPlay(r) PROVE FlagsOK'
      BY <2>2, Zenon DEF ClearDeferredPlay
    <2>3. CASE CancelDeferredPlay BY <2>3, Zenon DEF CancelDeferredPlay
    <2>4. ASSUME NEW u \in Urls, PlayCall(u) PROVE FlagsOK'
      BY <2>4, Zenon DEF PlayCall
    <2>5. CASE StopCall BY <2>5, Zenon DEF StopCall
    <2>6. CASE EnableBluetooth BY <2>6, Zenon DEF EnableBluetooth, Return
    <2>7. CASE DisableBluetooth BY <2>7, Zenon DEF DisableBluetooth, Return
    <2>8. CASE PauseCheck BY <2>8, Zenon DEF PauseCheck
    <2>9. CASE ResumeCheck BY <2>9, Zenon DEF ResumeCheck
    <2>10. CASE SetVolume BY <2>10, Zenon DEF SetVolume
    <2> QED
      BY <1>2, <2>1, <2>2, <2>3, <2>4, <2>5, <2>6, <2>7, <2>8, <2>9, <2>10
      DEF LoopCall
  <1>3. CASE LoopStep
    <2>1. CASE PlayOpen BY <2>1, Zenon DEF PlayOpen, Return
    <2>2. CASE PlayCommit
      BY <2>2, Zenon DEF PlayCommit, Return, Construct, StartFails
    <2>11. CASE PlayBegin
      BY <2>11, Zenon DEF PlayBegin, Return, StartSucceeds, StartFails,
         SetBtxSource
    <2>3. CASE StopBegin BY <2>3, Zenon DEF StopBegin
    <2>4. CASE StopFinish
      BY <2>4, Zenon DEF StopFinish, Return, SetBtxSource
    <2>5. CASE EnableBegin BY <2>5, Zenon DEF EnableBegin, SetBtxSource
    <2>6. CASE EnableEnd
      BY <2>6, Zenon DEF EnableEnd, BluetoothOn, BluetoothOff, Return,
         SetBtxSource
    <2>7. CASE DisableBegin BY <2>7, Zenon DEF DisableBegin
    <2>8. CASE DisableEnd
      BY <2>8, Zenon DEF DisableEnd, BluetoothOff, Return, SetBtxSource
    <2>9. CASE PauseWrite BY <2>9, Zenon DEF PauseWrite
    <2>10. CASE ResumeWrite BY <2>10, Zenon DEF ResumeWrite
    <2> QED
      BY <1>3, <2>1, <2>2, <2>3, <2>4, <2>5, <2>6, <2>7, <2>8, <2>9, <2>10, <2>11
      DEF LoopStep
  <1>4. CASE BluetoothConnection
    BY <1>4, Zenon DEF BluetoothConnection
  <1>5. CASE BluetoothPlayback
    BY <1>5, Zenon DEF BluetoothPlayback
  <1>6. CASE UNCHANGED vars
    BY <1>6, Zenon DEF vars
  <1> QED
    BY <1>1, <1>2, <1>3, <1>4, <1>5, <1>6 DEF Next, BluetoothStack

LEMMA SlotStatus ==
  ASSUME deferred \in Slots, NEW s \in Statuses
  PROVE  [deferred EXCEPT !.status = s] \in Slots
  BY DEF Slots

LEMMA CancelType == TypeOK /\ CancelSlot =>
  /\ deferred' \in Slots /\ withdrawn' \subseteq Tickets
  /\ admissions' = admissions
  <1> SUFFICES ASSUME TypeOK, CancelSlot
               PROVE  deferred' \in Slots /\ withdrawn' \subseteq Tickets
    BY DEF CancelSlot
  <1>1. deferred' \in Slots
    BY SlotStatus DEF CancelSlot, TypeOK
  <1>2. deferred.ticket \in Tickets
    BY DEF TypeOK, Slots
  <1> QED BY <1>1, <1>2 DEF CancelSlot, TypeOK

LEMMA TypeInvariance == TypeOK /\ [Next]_vars => TypeOK'
  <1> SUFFICES ASSUME TypeOK, [Next]_vars PROVE TypeOK'
    OBVIOUS
  <1>f. FlagsOK'
    BY FlagsStep
  <1> USE DEF TypeOK, TaskPcs, LoopPcs
  <1>1. CASE AudioTask
    <2>1. CASE Claim
      <3>1. deferred' \in Slots
        BY <2>1, SlotStatus DEF Claim
      <3> QED BY <1>f, <2>1, <3>1 DEF Claim
    <2>2. CASE TaskOpen BY <1>f, <2>2 DEF TaskOpen
    <2>3. CASE TaskCheck BY <1>f, <2>3 DEF TaskCheck
    <2>4. CASE TaskRecheck
      <3>1. work.url \in Urls \union {NoUrl}
        BY DEF Slots
      <3> QED
        BY <1>f, <2>4, <3>1 DEF TaskRecheck, TakeMutex, Construct, StartFails,
           Teardown
    <2>5. CASE TaskBegin
      <3>1. work.ticket \in Tickets
        BY DEF Slots
      <3> QED
        BY <1>f, <2>5, <3>1 DEF TaskBegin, StartSucceeds, StartFails, Teardown,
           SetBtxSource
    <2>6. CASE Report
      <3>1. deferred' \in Slots
        BY <2>6, SlotStatus DEF Report
      <3>2. work' \in Slots
        BY <2>6, ConstantsAssumption DEF Report, EmptySlot, Slots, Statuses, Tickets
      <3> QED BY <1>f, <2>6, <3>1, <3>2 DEF Report
    <2>7. CASE DecodeBegin BY <1>f, <2>7 DEF DecodeBegin, TakeMutex
    <2>8. CASE DecodeEnd BY <1>f, <2>8 DEF DecodeEnd
    <2> QED
      BY <1>1, <2>1, <2>2, <2>3, <2>4, <2>5, <2>6, <2>7, <2>8 DEF AudioTask
  <1>2. CASE LoopCall
    <2>1. ASSUME NEW r \in Requests, NEW u \in Urls, DeferPlay(r, u)
          PROVE  TypeOK'
      <3>1. admissions' \in Tickets
        BY <2>1, ConstantsAssumption DEF DeferPlay
      <3>2. deferred' \in Slots
        BY <2>1, <3>1 DEF DeferPlay, Slots
      <3> QED BY <1>f, <2>1, <3>1, <3>2 DEF DeferPlay
    <2>2. ASSUME NEW r \in Requests, ClearDeferredPlay(r) PROVE TypeOK'
      <3>1. deferred' \in Slots
        BY <2>2, ConstantsAssumption DEF ClearDeferredPlay, EmptySlot, Slots
      <3> QED BY <1>f, <2>2, <3>1 DEF ClearDeferredPlay
    <2>3. CASE CancelDeferredPlay
      BY <1>f, <2>3, CancelType DEF CancelDeferredPlay
    <2>4. ASSUME NEW u \in Urls, PlayCall(u) PROVE TypeOK'
      BY <1>f, <2>4, CancelType DEF PlayCall
    <2>5. CASE StopCall BY <1>f, <2>5, CancelType DEF StopCall
    <2>6. CASE EnableBluetooth
      BY <1>f, <2>6, CancelType DEF EnableBluetooth, Return
    <2>7. CASE DisableBluetooth
      BY <1>f, <2>7, CancelType DEF DisableBluetooth, Return
    <2>8. CASE PauseCheck BY <1>f, <2>8 DEF PauseCheck
    <2>9. CASE ResumeCheck BY <1>f, <2>9 DEF ResumeCheck
    <2>10. CASE SetVolume BY <1>f, <2>10 DEF SetVolume
    <2> QED
      BY <1>2, <2>1, <2>2, <2>3, <2>4, <2>5, <2>6, <2>7, <2>8, <2>9, <2>10
      DEF LoopCall
  <1>3. CASE LoopStep
    <2>1. CASE PlayOpen BY <1>f, <2>1 DEF PlayOpen, Return
    <2>2. CASE PlayCommit
      BY <1>f, <2>2 DEF PlayCommit, TakeMutex, Construct, Return, StartFails,
         Teardown
    <2>11. CASE PlayBegin
      BY <1>f, <2>11 DEF PlayBegin, Return, StartSucceeds, StartFails, Teardown,
         SetBtxSource
    <2>3. CASE StopBegin BY <1>f, <2>3 DEF StopBegin, TakeMutex, Teardown
    <2>4. CASE StopFinish BY <1>f, <2>4 DEF StopFinish, Return, SetBtxSource
    <2>5. CASE EnableBegin
      BY <1>f, <2>5 DEF EnableBegin, TakeMutex, Teardown, SetBtxSource
    <2>6. CASE EnableEnd
      BY <1>f, <2>6 DEF EnableEnd, BluetoothOn, BluetoothOff, Return,
         SetBtxSource
    <2>7. CASE DisableBegin BY <1>f, <2>7 DEF DisableBegin, TakeMutex
    <2>8. CASE DisableEnd
      BY <1>f, <2>8 DEF DisableEnd, BluetoothOff, Return, SetBtxSource
    <2>9. CASE PauseWrite BY <1>f, <2>9 DEF PauseWrite
    <2>10. CASE ResumeWrite BY <1>f, <2>10 DEF ResumeWrite
    <2> QED
      BY <1>3, <2>1, <2>2, <2>3, <2>4, <2>5, <2>6, <2>7, <2>8, <2>9, <2>10, <2>11
      DEF LoopStep
  <1>4. CASE BluetoothConnection
    BY <1>f, <1>4 DEF BluetoothConnection
  <1>5. CASE BluetoothPlayback
    BY <1>f, <1>5 DEF BluetoothPlayback
  <1>6. CASE UNCHANGED vars
    BY <1>f, <1>6 DEF vars
  <1> QED
    BY <1>1, <1>2, <1>3, <1>4, <1>5, <1>6 DEF Next, BluetoothStack

(* In every reachable state every variable has its type.                   *)
THEOREM TypeCorrect == Spec => []TypeOK
  <1>1. Init => TypeOK
    <2> SUFFICES ASSUME Init PROVE TypeOK
      OBVIOUS
    <2>1. FlagsOK
      BY Zenon DEF Init, FlagsOK
    <2>2. 0 \in Tickets /\ EmptySlot \in Slots
      BY ConstantsAssumption DEF EmptySlot, Slots
    <2> QED BY <2>1, <2>2 DEF Init, TypeOK, TaskPcs, LoopPcs
  <1> QED BY <1>1, TypeInvariance, PTL DEF Spec

-----------------------------------------------------------------------------
(* The inductive invariant.                                                *)

(* The audio task has a claimed start in its hands.                        *)
Holding == taskPc \in {"open", "opened", "locking", "begin", "report"}

(* The slot and the task's copy of it name admissions that were made; a    *)
(* running slot is the one the task holds.                                 *)
SlotInv ==
  /\ deferred.status = "none" => deferred = EmptySlot
  /\ deferred.status # "none" =>
       deferred.request \in Requests /\ deferred.ticket \in 1..admissions
  /\ Holding => work.request \in Requests /\ work.ticket \in 1..admissions
  /\ deferred.status = "running" => Holding /\ work = deferred
  /\ deferred.status \in {"queued", "succeeded", "failed"} /\ Holding =>
       work.ticket # deferred.ticket

(* A held start was not started yet, except between its start and its      *)
(* report, and the task knows which; a waiting one was not started.        *)
StartedInv ==
  /\ \A t \in started : t \in 1..admissions
  /\ Holding => (work.ticket \in started <=> taskPc = "report" /\ played)
  /\ deferred.status = "queued" => deferred.ticket \notin started
  /\ OutcomeIsTrue

(* What may still be started was neither withdrawn nor admitted before the *)
(* loop took the chain.                                                    *)
AllowedInv ==
  /\ takeover <= admissions
  /\ \A t \in withdrawn : t \in 1..admissions
  /\ loopPc \notin {"idle", "pauseWrite", "resumeWrite"} =>
       deferred.status \notin Live
  /\ deferred.status \in Live =>
       deferred.ticket \notin withdrawn /\ deferred.ticket > takeover
  /\ taskPc = "begin" =>
       work.ticket \notin withdrawn /\ work.ticket > takeover
  /\ WithdrawnNeverStarts

(* The lifecycle follows the loop task through enable and disable.         *)
BluetoothInv ==
  /\ lifecycle = "starting" => loopPc = "enableStart"
  /\ lifecycle = "stopping" => loopPc = "disableStop"
  /\ loopPc = "enableLock" => ~(btEnabled /\ lifecycle = "active")
  /\ loopPc = "enableStart" => decoder = "none"
  /\ NoStreamSurvivesBluetooth

IInv == DecoderLifetime /\ SlotInv /\ StartedInv /\ AllowedInv /\ BluetoothInv

-----------------------------------------------------------------------------
(* audioMutex excludes the loop task from a chain the audio task is using. *)

LEMMA LifetimeStep ==
  TypeOK /\ DecoderLifetime /\ [Next]_vars => DecoderLifetime'
  <1> SUFFICES ASSUME TypeOK /\ DecoderLifetime, [Next]_vars PROVE DecoderLifetime'
    OBVIOUS
  <1> USE DEF TypeOK, DecoderLifetime, TaskPcs, LoopPcs
  <1>1. CASE AudioTask
    <2>1. CASE Claim BY <2>1 DEF Claim
    <2>2. CASE TaskOpen BY <2>2 DEF TaskOpen
    <2>3. CASE TaskCheck BY <2>3 DEF TaskCheck
    <2>4. CASE TaskRecheck
      BY <2>4 DEF TaskRecheck, TakeMutex, Construct, StartFails, Teardown
    <2>5. CASE TaskBegin
      BY <2>5 DEF TaskBegin, StartSucceeds, StartFails, Teardown
    <2>6. CASE Report BY <2>6 DEF Report
    <2>7. CASE DecodeBegin BY <2>7 DEF DecodeBegin, IsDecoding, TakeMutex
    <2>8. CASE DecodeEnd BY <2>8 DEF DecodeEnd
    <2> QED BY <1>1, <2>1, <2>2, <2>3, <2>4, <2>5, <2>6, <2>7, <2>8 DEF
               AudioTask
  <1>2. CASE LoopCall
    <2>1. ASSUME NEW r \in Requests, NEW u \in Urls, DeferPlay(r, u)
          PROVE  DecoderLifetime'
      BY <2>1 DEF DeferPlay
    <2>2. ASSUME NEW r \in Requests, ClearDeferredPlay(r)
          PROVE  DecoderLifetime'
      BY <2>2 DEF ClearDeferredPlay
    <2>3. CASE CancelDeferredPlay BY <2>3 DEF CancelDeferredPlay
    <2>4. ASSUME NEW u \in Urls, PlayCall(u) PROVE DecoderLifetime'
      BY <2>4 DEF PlayCall
    <2>5. CASE StopCall BY <2>5 DEF StopCall
    <2>6. CASE EnableBluetooth BY <2>6 DEF EnableBluetooth, Return
    <2>7. CASE DisableBluetooth BY <2>7 DEF DisableBluetooth, Return
    <2>8. CASE PauseCheck BY <2>8 DEF PauseCheck
    <2>9. CASE ResumeCheck BY <2>9 DEF ResumeCheck
    <2>10. CASE SetVolume BY <2>10 DEF SetVolume
    <2> QED BY <1>2, <2>1, <2>2, <2>3, <2>4, <2>5, <2>6, <2>7, <2>8, <2>9,
               <2>10 DEF LoopCall
  <1>3. CASE LoopStep
    <2>1. CASE PlayOpen BY <2>1 DEF PlayOpen, Return
    <2>2. CASE PlayCommit
      BY <2>2 DEF PlayCommit, TakeMutex, Construct, Return, StartFails,
         Teardown
    <2>11. CASE PlayBegin
      BY <2>11 DEF PlayBegin, Return, StartSucceeds, StartFails, Teardown
    <2>3. CASE StopBegin BY <2>3 DEF StopBegin, TakeMutex, Teardown
    <2>4. CASE StopFinish BY <2>4 DEF StopFinish, Return
    <2>5. CASE EnableBegin BY <2>5 DEF EnableBegin, TakeMutex, Teardown
    <2>6. CASE EnableEnd
      BY <2>6 DEF EnableEnd, BluetoothOn, BluetoothOff, Return
    <2>7. CASE DisableBegin BY <2>7 DEF DisableBegin, TakeMutex
    <2>8. CASE DisableEnd BY <2>8 DEF DisableEnd, BluetoothOff, Return
    <2>9. CASE PauseWrite BY <2>9 DEF PauseWrite
    <2>10. CASE ResumeWrite BY <2>10 DEF ResumeWrite
    <2> QED BY <1>3, <2>1, <2>2, <2>3, <2>4, <2>5, <2>6, <2>7, <2>8, <2>9,
               <2>10, <2>11 DEF LoopStep
  <1>4. CASE BluetoothConnection BY <1>4 DEF BluetoothConnection
  <1>5. CASE BluetoothPlayback BY <1>5 DEF BluetoothPlayback
  <1>6. CASE UNCHANGED vars BY <1>6 DEF vars
  <1> QED
    BY <1>1, <1>2, <1>3, <1>4, <1>5, <1>6 DEF Next, BluetoothStack

(* The slot's bookkeeping.                                                 *)

LEMMA SlotStep == TypeOK /\ SlotInv /\ [Next]_vars => SlotInv'
  <1> SUFFICES ASSUME TypeOK /\ SlotInv, [Next]_vars PROVE SlotInv'
    OBVIOUS
  <1> USE DEF TypeOK, SlotInv, Holding, Slots, EmptySlot
  <1>1. CASE AudioTask
    <2>1. CASE Claim BY <2>1, ConstantsAssumption DEF Claim
    <2>2. CASE TaskOpen BY <2>2, ConstantsAssumption DEF TaskOpen
    <2>3. CASE TaskCheck BY <2>3, ConstantsAssumption DEF TaskCheck, StatusOf
    <2>4. CASE TaskRecheck
      BY <2>4, ConstantsAssumption DEF TaskRecheck, StatusOf
    <2>5. CASE TaskBegin BY <2>5, ConstantsAssumption DEF TaskBegin
    <2>6. CASE Report
      BY <2>6, ConstantsAssumption DEF Report, ReportApplies, StatusOf
    <2>7. CASE DecodeBegin BY <2>7, ConstantsAssumption DEF DecodeBegin
    <2>8. CASE DecodeEnd BY <2>8, ConstantsAssumption DEF DecodeEnd
    <2> QED BY <1>1, <2>1, <2>2, <2>3, <2>4, <2>5, <2>6, <2>7, <2>8 DEF
               AudioTask
  <1>2. CASE LoopCall
    <2>1. ASSUME NEW r \in Requests, NEW u \in Urls, DeferPlay(r, u)
          PROVE  SlotInv'
      BY <2>1, ConstantsAssumption DEF DeferPlay, DeferAccepts
    <2>2. ASSUME NEW r \in Requests, ClearDeferredPlay(r)
          PROVE  SlotInv'
      BY <2>2, ConstantsAssumption DEF ClearDeferredPlay
    <2>3. CASE CancelDeferredPlay
      BY <2>3, ConstantsAssumption DEF CancelDeferredPlay, CancelSlot, Cancels
    <2>4. ASSUME NEW u \in Urls, PlayCall(u) PROVE SlotInv'
      BY <2>4, ConstantsAssumption DEF PlayCall, CancelSlot, Cancels
    <2>5. CASE StopCall
      BY <2>5, ConstantsAssumption DEF StopCall, CancelSlot, Cancels
    <2>6. CASE EnableBluetooth
      BY <2>6, ConstantsAssumption DEF EnableBluetooth, CancelSlot, Cancels
    <2>7. CASE DisableBluetooth
      BY <2>7, ConstantsAssumption DEF DisableBluetooth, CancelSlot, Cancels
    <2>8. CASE PauseCheck BY <2>8, ConstantsAssumption DEF PauseCheck
    <2>9. CASE ResumeCheck BY <2>9, ConstantsAssumption DEF ResumeCheck
    <2>10. CASE SetVolume BY <2>10, ConstantsAssumption DEF SetVolume
    <2> QED BY <1>2, <2>1, <2>2, <2>3, <2>4, <2>5, <2>6, <2>7, <2>8, <2>9,
               <2>10 DEF LoopCall
  <1>3. CASE LoopStep
    <2>1. CASE PlayOpen BY <2>1, ConstantsAssumption DEF PlayOpen
    <2>2. CASE PlayCommit BY <2>2, ConstantsAssumption DEF PlayCommit
    <2>11. CASE PlayBegin BY <2>11, ConstantsAssumption DEF PlayBegin
    <2>3. CASE StopBegin BY <2>3, ConstantsAssumption DEF StopBegin
    <2>4. CASE StopFinish BY <2>4, ConstantsAssumption DEF StopFinish
    <2>5. CASE EnableBegin BY <2>5, ConstantsAssumption DEF EnableBegin
    <2>6. CASE EnableEnd BY <2>6, ConstantsAssumption DEF EnableEnd
    <2>7. CASE DisableBegin BY <2>7, ConstantsAssumption DEF DisableBegin
    <2>8. CASE DisableEnd BY <2>8, ConstantsAssumption DEF DisableEnd
    <2>9. CASE PauseWrite BY <2>9, ConstantsAssumption DEF PauseWrite
    <2>10. CASE ResumeWrite BY <2>10, ConstantsAssumption DEF ResumeWrite
    <2> QED BY <1>3, <2>1, <2>2, <2>3, <2>4, <2>5, <2>6, <2>7, <2>8, <2>9,
               <2>10, <2>11 DEF LoopStep
  <1>4. CASE BluetoothConnection
    BY <1>4, ConstantsAssumption DEF BluetoothConnection
  <1>5. CASE BluetoothPlayback
    BY <1>5, ConstantsAssumption DEF BluetoothPlayback
  <1>6. CASE UNCHANGED vars BY <1>6, ConstantsAssumption DEF vars
  <1> QED
    BY <1>1, <1>2, <1>3, <1>4, <1>5, <1>6 DEF Next, BluetoothStack

(* What was started, and what the task and the slot say of it.             *)

LEMMA StartedStep ==
  TypeOK /\ SlotInv /\ StartedInv /\ [Next]_vars => StartedInv'
  <1> SUFFICES ASSUME TypeOK /\ SlotInv /\ StartedInv, [Next]_vars PROVE StartedInv'
    OBVIOUS
  <1> USE DEF TypeOK, SlotInv, StartedInv, OutcomeIsTrue, Holding, Slots,
         EmptySlot
  <1>1. CASE AudioTask
    <2>1. CASE Claim BY <2>1, ConstantsAssumption DEF Claim
    <2>2. CASE TaskOpen BY <2>2, ConstantsAssumption DEF TaskOpen
    <2>3. CASE TaskCheck BY <2>3, ConstantsAssumption DEF TaskCheck, StatusOf
    <2>4. CASE TaskRecheck
      BY <2>4, ConstantsAssumption DEF TaskRecheck, StatusOf
    <2>5. CASE TaskBegin BY <2>5, ConstantsAssumption DEF TaskBegin
    <2>6. CASE Report
      BY <2>6, ConstantsAssumption DEF Report, ReportApplies, StatusOf
    <2>7. CASE DecodeBegin BY <2>7, ConstantsAssumption DEF DecodeBegin
    <2>8. CASE DecodeEnd BY <2>8, ConstantsAssumption DEF DecodeEnd
    <2> QED BY <1>1, <2>1, <2>2, <2>3, <2>4, <2>5, <2>6, <2>7, <2>8 DEF
               AudioTask
  <1>2. CASE LoopCall
    <2>1. ASSUME NEW r \in Requests, NEW u \in Urls, DeferPlay(r, u)
          PROVE  StartedInv'
      BY <2>1, ConstantsAssumption DEF DeferPlay, DeferAccepts
    <2>2. ASSUME NEW r \in Requests, ClearDeferredPlay(r)
          PROVE  StartedInv'
      BY <2>2, ConstantsAssumption DEF ClearDeferredPlay
    <2>3. CASE CancelDeferredPlay
      BY <2>3, ConstantsAssumption DEF CancelDeferredPlay, CancelSlot, Cancels
    <2>4. ASSUME NEW u \in Urls, PlayCall(u) PROVE StartedInv'
      BY <2>4, ConstantsAssumption DEF PlayCall, CancelSlot, Cancels
    <2>5. CASE StopCall
      BY <2>5, ConstantsAssumption DEF StopCall, CancelSlot, Cancels
    <2>6. CASE EnableBluetooth
      BY <2>6, ConstantsAssumption DEF EnableBluetooth, CancelSlot, Cancels
    <2>7. CASE DisableBluetooth
      BY <2>7, ConstantsAssumption DEF DisableBluetooth, CancelSlot, Cancels
    <2>8. CASE PauseCheck BY <2>8, ConstantsAssumption DEF PauseCheck
    <2>9. CASE ResumeCheck BY <2>9, ConstantsAssumption DEF ResumeCheck
    <2>10. CASE SetVolume BY <2>10, ConstantsAssumption DEF SetVolume
    <2> QED BY <1>2, <2>1, <2>2, <2>3, <2>4, <2>5, <2>6, <2>7, <2>8, <2>9,
               <2>10 DEF LoopCall
  <1>3. CASE LoopStep
    <2>1. CASE PlayOpen BY <2>1, ConstantsAssumption DEF PlayOpen
    <2>2. CASE PlayCommit BY <2>2, ConstantsAssumption DEF PlayCommit
    <2>11. CASE PlayBegin BY <2>11, ConstantsAssumption DEF PlayBegin
    <2>3. CASE StopBegin BY <2>3, ConstantsAssumption DEF StopBegin
    <2>4. CASE StopFinish BY <2>4, ConstantsAssumption DEF StopFinish
    <2>5. CASE EnableBegin BY <2>5, ConstantsAssumption DEF EnableBegin
    <2>6. CASE EnableEnd BY <2>6, ConstantsAssumption DEF EnableEnd
    <2>7. CASE DisableBegin BY <2>7, ConstantsAssumption DEF DisableBegin
    <2>8. CASE DisableEnd BY <2>8, ConstantsAssumption DEF DisableEnd
    <2>9. CASE PauseWrite BY <2>9, ConstantsAssumption DEF PauseWrite
    <2>10. CASE ResumeWrite BY <2>10, ConstantsAssumption DEF ResumeWrite
    <2> QED BY <1>3, <2>1, <2>2, <2>3, <2>4, <2>5, <2>6, <2>7, <2>8, <2>9,
               <2>10, <2>11 DEF LoopStep
  <1>4. CASE BluetoothConnection
    BY <1>4, ConstantsAssumption DEF BluetoothConnection
  <1>5. CASE BluetoothPlayback
    BY <1>5, ConstantsAssumption DEF BluetoothPlayback
  <1>6. CASE UNCHANGED vars BY <1>6, ConstantsAssumption DEF vars
  <1> QED
    BY <1>1, <1>2, <1>3, <1>4, <1>5, <1>6 DEF Next, BluetoothStack

(* What may still be started.                                              *)

LEMMA AllowedStep ==
  TypeOK /\ DecoderLifetime /\ SlotInv /\ StartedInv /\ AllowedInv /\ [Next]_vars => AllowedInv'
  <1> SUFFICES ASSUME TypeOK /\ DecoderLifetime /\ SlotInv /\ StartedInv /\ AllowedInv, [Next]_vars PROVE AllowedInv'
    OBVIOUS
  <1> USE DEF TypeOK, DecoderLifetime, SlotInv, StartedInv, AllowedInv,
         WithdrawnNeverStarts, Holding, Slots, EmptySlot
  <1>1. CASE AudioTask
    <2>1. CASE Claim BY <2>1, ConstantsAssumption DEF Claim
    <2>2. CASE TaskOpen BY <2>2, ConstantsAssumption DEF TaskOpen
    <2>3. CASE TaskCheck
      BY <2>3, ConstantsAssumption DEF TaskCheck, StillRunning, StatusOf
    <2>4. CASE TaskRecheck
      BY <2>4, ConstantsAssumption DEF TaskRecheck, StillRunning, StatusOf,
         TakeMutex
    <2>5. CASE TaskBegin
      <3>1. /\ taskPc = "begin" /\ taskPc' = "report"
            /\ started' \subseteq started \union {work.ticket}
            /\ UNCHANGED <<deferred, admissions, withdrawn, loopPc, takeover>>
        BY <2>5 DEF TaskBegin, slotVars, loopVars
      <3>2. work.ticket \notin withdrawn BY <3>1
      <3>3. WithdrawnNeverStarts' BY <3>1, <3>2
      <3> QED BY <3>1, <3>3
    <2>6. CASE Report
      BY <2>6, ConstantsAssumption DEF Report, ReportApplies, StatusOf
    <2>7. CASE DecodeBegin
      BY <2>7, ConstantsAssumption DEF DecodeBegin, TakeMutex
    <2>8. CASE DecodeEnd BY <2>8, ConstantsAssumption DEF DecodeEnd
    <2> QED BY <1>1, <2>1, <2>2, <2>3, <2>4, <2>5, <2>6, <2>7, <2>8 DEF
               AudioTask
  <1>2. CASE LoopCall
    <2>1. ASSUME NEW r \in Requests, NEW u \in Urls, DeferPlay(r, u)
          PROVE  AllowedInv'
      BY <2>1, ConstantsAssumption DEF DeferPlay, DeferAccepts
    <2>2. ASSUME NEW r \in Requests, ClearDeferredPlay(r)
          PROVE  AllowedInv'
      BY <2>2, ConstantsAssumption DEF ClearDeferredPlay
    <2>3. CASE CancelDeferredPlay
      BY <2>3, ConstantsAssumption DEF CancelDeferredPlay, CancelSlot, Cancels,
         Committed
    <2>4. ASSUME NEW u \in Urls, PlayCall(u) PROVE AllowedInv'
      BY <2>4, ConstantsAssumption DEF PlayCall, CancelSlot, Cancels, Committed
    <2>5. CASE StopCall
      BY <2>5, ConstantsAssumption DEF StopCall, CancelSlot, Cancels, Committed
    <2>6. CASE EnableBluetooth
      BY <2>6, ConstantsAssumption DEF EnableBluetooth, CancelSlot, Cancels,
         Committed, Return
    <2>7. CASE DisableBluetooth
      BY <2>7, ConstantsAssumption DEF DisableBluetooth, CancelSlot, Cancels,
         Committed, Return
    <2>8. CASE PauseCheck BY <2>8, ConstantsAssumption DEF PauseCheck
    <2>9. CASE ResumeCheck BY <2>9, ConstantsAssumption DEF ResumeCheck
    <2>10. CASE SetVolume BY <2>10, ConstantsAssumption DEF SetVolume
    <2> QED BY <1>2, <2>1, <2>2, <2>3, <2>4, <2>5, <2>6, <2>7, <2>8, <2>9,
               <2>10 DEF LoopCall
  <1>3. CASE LoopStep
    <2>1. CASE PlayOpen BY <2>1, ConstantsAssumption DEF PlayOpen, Return
    <2>2. CASE PlayCommit
      BY <2>2, ConstantsAssumption DEF PlayCommit, TakeMutex, Return
    <2>11. CASE PlayBegin BY <2>11, ConstantsAssumption DEF PlayBegin, Return
    <2>3. CASE StopBegin BY <2>3, ConstantsAssumption DEF StopBegin, TakeMutex
    <2>4. CASE StopFinish BY <2>4, ConstantsAssumption DEF StopFinish, Return
    <2>5. CASE EnableBegin
      BY <2>5, ConstantsAssumption DEF EnableBegin, TakeMutex
    <2>6. CASE EnableEnd BY <2>6, ConstantsAssumption DEF EnableEnd, Return
    <2>7. CASE DisableBegin
      BY <2>7, ConstantsAssumption DEF DisableBegin, TakeMutex
    <2>8. CASE DisableEnd BY <2>8, ConstantsAssumption DEF DisableEnd, Return
    <2>9. CASE PauseWrite BY <2>9, ConstantsAssumption DEF PauseWrite
    <2>10. CASE ResumeWrite BY <2>10, ConstantsAssumption DEF ResumeWrite
    <2> QED BY <1>3, <2>1, <2>2, <2>3, <2>4, <2>5, <2>6, <2>7, <2>8, <2>9,
               <2>10, <2>11 DEF LoopStep
  <1>4. CASE BluetoothConnection
    BY <1>4, ConstantsAssumption DEF BluetoothConnection
  <1>5. CASE BluetoothPlayback
    BY <1>5, ConstantsAssumption DEF BluetoothPlayback
  <1>6. CASE UNCHANGED vars BY <1>6, ConstantsAssumption DEF vars
  <1> QED
    BY <1>1, <1>2, <1>3, <1>4, <1>5, <1>6 DEF Next, BluetoothStack

(* Bluetooth's lifecycle and who owns the output.                         *)

LEMMA BluetoothStep ==
  /\ TypeOK /\ DecoderLifetime /\ SlotInv /\ AllowedInv /\ BluetoothInv
  /\ [Next]_vars
  => BluetoothInv'
  <1> SUFFICES ASSUME TypeOK, DecoderLifetime, SlotInv, AllowedInv,
                      BluetoothInv, [Next]_vars
               PROVE  BluetoothInv'
    OBVIOUS
  <1> USE DEF TypeOK, DecoderLifetime, BluetoothInv, NewerStart,
              NoStreamSurvivesBluetooth
  <1>1. CASE AudioTask
    <2>1. CASE Claim BY <2>1 DEF Claim
    <2>2. CASE TaskOpen BY <2>2 DEF TaskOpen
    <2>3. CASE TaskCheck BY <2>3 DEF TaskCheck
    <2>4. CASE TaskRecheck
      <3>1. StillRunning => work.ticket > takeover
        BY <2>4 DEF TaskRecheck, StillRunning, StatusOf, SlotInv, AllowedInv,
           Holding
      <3> QED
        BY <2>4, <3>1 DEF TaskRecheck, TakeMutex, Construct, StartFails,
           Teardown
    <2>5. CASE TaskBegin
      BY <2>5 DEF TaskBegin, StartSucceeds, StartFails, Teardown
    <2>6. CASE Report BY <2>6 DEF Report
    <2>7. CASE DecodeBegin BY <2>7 DEF DecodeBegin, TakeMutex
    <2>8. CASE DecodeEnd BY <2>8 DEF DecodeEnd
    <2> QED BY <1>1, <2>1, <2>2, <2>3, <2>4, <2>5, <2>6, <2>7, <2>8 DEF
               AudioTask
  <1>2. CASE LoopCall
    <2>1. ASSUME NEW r \in Requests, NEW u \in Urls, DeferPlay(r, u)
          PROVE  BluetoothInv'
      BY <2>1 DEF DeferPlay
    <2>2. ASSUME NEW r \in Requests, ClearDeferredPlay(r)
          PROVE  BluetoothInv'
      BY <2>2 DEF ClearDeferredPlay
    <2>3. CASE CancelDeferredPlay BY <2>3 DEF CancelDeferredPlay
    <2>4. ASSUME NEW u \in Urls, PlayCall(u) PROVE BluetoothInv'
      BY <2>4 DEF PlayCall
    <2>5. CASE StopCall BY <2>5 DEF StopCall
    <2>6. CASE EnableBluetooth BY <2>6 DEF EnableBluetooth, Return
    <2>7. CASE DisableBluetooth BY <2>7 DEF DisableBluetooth, Return
    <2>8. CASE PauseCheck BY <2>8 DEF PauseCheck
    <2>9. CASE ResumeCheck BY <2>9 DEF ResumeCheck
    <2>10. CASE SetVolume BY <2>10 DEF SetVolume
    <2> QED BY <1>2, <2>1, <2>2, <2>3, <2>4, <2>5, <2>6, <2>7, <2>8, <2>9,
               <2>10 DEF LoopCall
  <1>3. CASE LoopStep
    <2>1. CASE PlayOpen BY <2>1 DEF PlayOpen, Return
    <2>2. CASE PlayCommit
      BY <2>2 DEF PlayCommit, TakeMutex, Construct, Return, StartFails,
         Teardown
    <2>11. CASE PlayBegin
      BY <2>11 DEF PlayBegin, Return, StartSucceeds, StartFails, Teardown
    <2>3. CASE StopBegin BY <2>3 DEF StopBegin, TakeMutex, Teardown
    <2>4. CASE StopFinish BY <2>4 DEF StopFinish, Return
    <2>5. CASE EnableBegin BY <2>5 DEF EnableBegin, TakeMutex, Teardown
    <2>6. CASE EnableEnd
      BY <2>6 DEF EnableEnd, BluetoothOn, BluetoothOff, Return
    <2>7. CASE DisableBegin BY <2>7 DEF DisableBegin, TakeMutex
    <2>8. CASE DisableEnd BY <2>8 DEF DisableEnd, BluetoothOff, Return
    <2>9. CASE PauseWrite BY <2>9 DEF PauseWrite
    <2>10. CASE ResumeWrite BY <2>10 DEF ResumeWrite
    <2> QED BY <1>3, <2>1, <2>2, <2>3, <2>4, <2>5, <2>6, <2>7, <2>8, <2>9,
               <2>10, <2>11 DEF LoopStep
  <1>4. CASE BluetoothConnection BY <1>4 DEF BluetoothConnection
  <1>5. CASE BluetoothPlayback BY <1>5 DEF BluetoothPlayback
  <1>6. CASE UNCHANGED vars BY <1>6 DEF vars
  <1> QED
    BY <1>1, <1>2, <1>3, <1>4, <1>5, <1>6 DEF Next, BluetoothStack

LEMMA InductiveInvariance == Spec => [](TypeOK /\ IInv)
  <1>1. Init => IInv
    BY DEF Init, IInv, EmptySlot, Holding, DecoderLifetime, SlotInv,
       StartedInv, OutcomeIsTrue, AllowedInv, WithdrawnNeverStarts,
       BluetoothInv, NoStreamSurvivesBluetooth
  <1>2. TypeOK /\ IInv /\ [Next]_vars => IInv'
    BY LifetimeStep, SlotStep, StartedStep, AllowedStep, BluetoothStep
    DEF IInv
  <1> QED BY <1>1, <1>2, TypeCorrect, TypeInvariance, PTL DEF Spec

-----------------------------------------------------------------------------
(* The safety properties of AudioPlayer.                                   *)

(* No task drives or replaces a decoder another task is replacing: no use  *)
(* after free between play(), stop(), the source changes and the decoding. *)
THEOREM DecoderIsNeverShared == Spec => []DecoderLifetime
  <1>1. IInv => DecoderLifetime
    BY DEF IInv
  <1> QED BY <1>1, InductiveInvariance, PTL

(* A deferred start reports what really happened to the stream it names,   *)
(* also when its request identifier was used again meanwhile.              *)
THEOREM OutcomesAreTrue == Spec => []OutcomeIsTrue
  <1>1. IInv => OutcomeIsTrue
    BY DEF IInv, StartedInv
  <1> QED BY <1>1, InductiveInvariance, PTL

(* A start withdrawn before its last revalidation is never played.         *)
THEOREM WithdrawnIsFinal == Spec => []WithdrawnNeverStarts
  <1>1. IInv => WithdrawnNeverStarts
    BY DEF IInv, AllowedInv
  <1> QED BY <1>1, InductiveInvariance, PTL

(* While Bluetooth is the source its sink is up, and the only decoder that *)
(* can exist is that of a start newer than the take-over, inside begin().  *)
THEOREM BluetoothOutlastsStreams == Spec => []NoStreamSurvivesBluetooth
  <1>1. IInv => NoStreamSurvivesBluetooth
    BY DEF IInv, BluetoothInv
  <1> QED BY <1>1, InductiveInvariance, PTL

(* The gain.  A resumed stream is unmuted before it plays, and Bluetooth   *)
(* reports a playback state only while no radio decoder runs.              *)
AudibleInv ==
  /\ PlayingIsAudible
  /\ loopPc = "resumeWrite" => ~muted
  /\ btxSource = "bluetooth" =>
       loopPc = "enableStart" \/ currentSource = "bluetooth"

LEMMA AudibleStep ==
  /\ DecoderLifetime /\ BluetoothInv /\ AudibleInv /\ [Next]_vars
  => AudibleInv'
  <1> SUFFICES ASSUME DecoderLifetime, BluetoothInv, AudibleInv, [Next]_vars
               PROVE  AudibleInv'
    OBVIOUS
  <1> USE DEF DecoderLifetime, BluetoothInv, NoStreamSurvivesBluetooth, AudibleInv,
          PlayingIsAudible
  <1>1. CASE AudioTask
    <2>1. CASE Claim BY <2>1 DEF Claim
    <2>2. CASE TaskOpen BY <2>2 DEF TaskOpen
    <2>3. CASE TaskCheck BY <2>3 DEF TaskCheck
    <2>4. CASE TaskRecheck
      BY <2>4 DEF TaskRecheck, TakeMutex, Construct, StartFails, Teardown
    <2>5. CASE TaskBegin
      BY <2>5 DEF TaskBegin, StartSucceeds, StartFails, Teardown,
         SetBtxSource
    <2>6. CASE Report BY <2>6 DEF Report
    <2>7. CASE DecodeBegin BY <2>7 DEF DecodeBegin, IsDecoding, TakeMutex
    <2>8. CASE DecodeEnd BY <2>8 DEF DecodeEnd
    <2> QED BY <1>1, <2>1, <2>2, <2>3, <2>4, <2>5, <2>6, <2>7, <2>8 DEF
               AudioTask
  <1>2. CASE LoopCall
    <2>1. ASSUME NEW r \in Requests, NEW u \in Urls, DeferPlay(r, u)
          PROVE  AudibleInv'
      BY <2>1 DEF DeferPlay
    <2>2. ASSUME NEW r \in Requests, ClearDeferredPlay(r)
          PROVE  AudibleInv'
      BY <2>2 DEF ClearDeferredPlay
    <2>3. CASE CancelDeferredPlay BY <2>3 DEF CancelDeferredPlay
    <2>4. ASSUME NEW u \in Urls, PlayCall(u) PROVE AudibleInv'
      BY <2>4 DEF PlayCall
    <2>5. CASE StopCall BY <2>5 DEF StopCall
    <2>6. CASE EnableBluetooth BY <2>6 DEF EnableBluetooth, Return
    <2>7. CASE DisableBluetooth BY <2>7 DEF DisableBluetooth, Return
    <2>8. CASE PauseCheck BY <2>8 DEF PauseCheck
    <2>9. CASE ResumeCheck BY <2>9 DEF ResumeCheck
    <2>10. CASE SetVolume BY <2>10 DEF SetVolume
    <2> QED BY <1>2, <2>1, <2>2, <2>3, <2>4, <2>5, <2>6, <2>7, <2>8, <2>9,
               <2>10 DEF LoopCall
  <1>3. CASE LoopStep
    <2>1. CASE PlayOpen BY <2>1 DEF PlayOpen, Return
    <2>2. CASE PlayCommit
      BY <2>2 DEF PlayCommit, TakeMutex, Construct, Return, StartFails,
         Teardown
    <2>11. CASE PlayBegin
      BY <2>11 DEF PlayBegin, Return, StartSucceeds, StartFails, Teardown,
         SetBtxSource
    <2>3. CASE StopBegin BY <2>3 DEF StopBegin, Teardown, SetBtxSource
    <2>4. CASE StopFinish BY <2>4 DEF StopFinish, Return, SetBtxSource
    <2>5. CASE EnableBegin BY <2>5 DEF EnableBegin, TakeMutex, Teardown, SetBtxSource
    <2>6. CASE EnableEnd BY <2>6 DEF EnableEnd, BluetoothOn, BluetoothOff,
         Return, SetBtxSource
    <2>7. CASE DisableBegin BY <2>7 DEF DisableBegin, TakeMutex
    <2>8. CASE DisableEnd BY <2>8 DEF DisableEnd, BluetoothOff, Return,
         SetBtxSource
    <2>9. CASE PauseWrite BY <2>9 DEF PauseWrite
    <2>10. CASE ResumeWrite BY <2>10 DEF ResumeWrite
    <2> QED BY <1>3, <2>1, <2>2, <2>3, <2>4, <2>5, <2>6, <2>7, <2>8, <2>9,
               <2>10, <2>11 DEF LoopStep
  <1>4. CASE BluetoothConnection BY <1>4 DEF BluetoothConnection
  <1>5. CASE BluetoothPlayback BY <1>5 DEF BluetoothPlayback
  <1>6. CASE UNCHANGED vars BY <1>6 DEF vars
  <1> QED
    BY <1>1, <1>2, <1>3, <1>4, <1>5, <1>6 DEF Next, BluetoothStack

(* A playing station is heard, whatever paused or replaced it before.      *)
THEOREM PlayingIsHeard == Spec => []PlayingIsAudible
  <1>1. Init => AudibleInv
    BY DEF Init, AudibleInv, PlayingIsAudible
  <1>2. IInv /\ AudibleInv /\ [Next]_vars => AudibleInv'
    BY AudibleStep DEF IInv
  <1>3. AudibleInv => PlayingIsAudible
    BY DEF AudibleInv
  <1> QED BY <1>1, <1>2, <1>3, InductiveInvariance, PTL DEF Spec

(* The audio task is the only one to add a start, the one it holds.        *)
LEMMA StartedByBegin ==
  ASSUME [Next]_vars
  PROVE  \/ UNCHANGED started
         \/ TaskBegin /\ started' = started \union {work.ticket}
                      /\ UNCHANGED takeover
  BY DEF Next, vars, AudioTask, Claim, TaskOpen, TaskCheck, TaskRecheck,
     TaskBegin, Report, DecodeBegin, DecodeEnd, LoopCall, DeferPlay,
     ClearDeferredPlay, CancelDeferredPlay, PlayCall, StopCall,
     EnableBluetooth, DisableBluetooth, PauseCheck, ResumeCheck, SetVolume,
     LoopStep, PlayOpen, PlayCommit, PlayBegin, StopBegin, StopFinish,
     EnableBegin, EnableEnd, DisableBegin, DisableEnd, PauseWrite, ResumeWrite,
     BluetoothStack, BluetoothConnection, BluetoothPlayback

(* Once the loop task has taken the chain no older start is played.        *)
THEOREM TakeoversAreFinal == Spec => TakeoverIsFinal
  <1>1. IInv /\ [Next]_vars => [\A t \in started' \ started : t > takeover']_vars
    <2> SUFFICES ASSUME IInv, [Next]_vars, NEW t \in started' \ started
                 PROVE  t > takeover'
      OBVIOUS
    <2>1. TaskBegin /\ t = work.ticket /\ UNCHANGED takeover
      BY StartedByBegin
    <2> QED BY <2>1 DEF TaskBegin, IInv, AllowedInv
  <1> QED BY <1>1, InductiveInvariance, PTL DEF Spec, TakeoverIsFinal

-----------------------------------------------------------------------------
(* The refinement of the mailbox.                                          *)

LEMMA MailboxInit == Init => Mailbox!InitSlot
  BY DEF Init, EmptySlot, Mailbox!InitSlot

(* Steps that leave the slot, the task's copy and the starts alone.        *)
LEMMA MailboxStutter ==
  ASSUME UNCHANGED <<deferred, work, started>>,
         taskPc' = taskPc \/ {taskPc, taskPc'} = {"scan", "decoding"}
  PROVE  UNCHANGED Mailbox!slotState
  BY DEF Mailbox!slotState

(* A cancellation withdraws a waiting or a running start, or does nothing. *)
LEMMA MailboxCancel ==
  ASSUME TypeOK, CancelSlot, UNCHANGED <<taskPc, work, started>>
  PROVE  [Mailbox!NextSlot]_Mailbox!slotState
  <1>1. CASE Cancels
    <2>1. Mailbox!Withdraw
      BY <1>1 DEF CancelSlot, Cancels, TypeOK, Slots, Mailbox!Withdraw
    <2> QED BY <2>1 DEF Mailbox!NextSlot
  <1>2. CASE ~Cancels
    BY <1>2 DEF CancelSlot, Mailbox!slotState
  <1> QED BY <1>1, <1>2

LEMMA MailboxTask ==
  ASSUME TypeOK, IInv, AudioTask
  PROVE  [Mailbox!NextSlot]_Mailbox!slotState
  <1> USE DEF TypeOK, IInv, SlotInv, StartedInv, Holding, Slots
  <1>1. CASE Claim
    <2>1. Mailbox!Take
      BY <1>1 DEF Claim, Mailbox!Take
    <2> QED BY <2>1 DEF Mailbox!NextSlot
  <1>2. CASE TaskOpen
    BY <1>2 DEF TaskOpen, Mailbox!slotState
  <1>3. CASE TaskCheck
    BY <1>3 DEF TaskCheck, Mailbox!slotState
  <1>4. CASE TaskRecheck
    <2>1. CASE taskPc' = "begin"
      <3>1. Mailbox!Grant
        BY <1>4, <2>1 DEF TaskRecheck, StillRunning, StatusOf, Mailbox!Grant
      <3> QED BY <3>1 DEF Mailbox!NextSlot
    <2>2. CASE taskPc' # "begin"
      BY <1>4, <2>2 DEF TaskRecheck, Mailbox!slotState
    <2> QED BY <2>1, <2>2
  <1>5. CASE TaskBegin
    <2>1. Mailbox!Begin
      BY <1>5 DEF TaskBegin, Mailbox!Begin
    <2> QED BY <2>1 DEF Mailbox!NextSlot
  <1>6. CASE Report
    <2>1. work.ticket # 0 /\ (played <=> work.ticket \in started)
      BY <1>6 DEF Report
    <2>2. ReportApplies <=> deferred.status = "running"
      BY <1>6 DEF ReportApplies, StatusOf
    <2>3. deferred.status = "running" => work.ticket = deferred.ticket
      OBVIOUS
    <2>4. Mailbox!Settle
      BY <1>6, <2>1, <2>2, <2>3 DEF Report, Mailbox!Settle
    <2> QED BY <2>4 DEF Mailbox!NextSlot
  <1>7. CASE DecodeBegin
    BY <1>7, MailboxStutter DEF DecodeBegin
  <1>8. CASE DecodeEnd
    BY <1>8, MailboxStutter DEF DecodeEnd
  <1> QED BY <1>1, <1>2, <1>3, <1>4, <1>5, <1>6, <1>7, <1>8 DEF AudioTask

LEMMA MailboxStep ==
  TypeOK /\ IInv /\ [Next]_vars => [Mailbox!NextSlot]_Mailbox!slotState
  <1> SUFFICES ASSUME TypeOK, IInv, [Next]_vars
               PROVE  [Mailbox!NextSlot]_Mailbox!slotState
    OBVIOUS
  <1>1. CASE AudioTask
    BY <1>1, MailboxTask
  <1>2. ASSUME NEW r \in Requests, NEW u \in Urls, DeferPlay(r, u)
        PROVE  Mailbox!Admit
    <2>1. /\ deferred.status = "none" /\ deferred'.status = "queued"
          /\ deferred'.ticket = admissions + 1
          /\ admissions \in 0..MaxAdmissions /\ admissions < MaxAdmissions
          /\ UNCHANGED <<taskPc, work, started>>
      BY <1>2 DEF DeferPlay, DeferAccepts, TypeOK
    <2>2. admissions + 1 \in 1..MaxAdmissions /\ admissions + 1 \notin started
      BY <2>1, ConstantsAssumption DEF IInv, StartedInv
    <2>3. taskPc \notin {"scan", "decoding"} => work.ticket # admissions + 1
      BY <2>1 DEF IInv, SlotInv, Holding, TypeOK, TaskPcs
    <2> QED BY <2>1, <2>2, <2>3 DEF Mailbox!Admit
  <1>3. ASSUME NEW r \in Requests, ClearDeferredPlay(r)
        PROVE  Mailbox!Release
    BY <1>3, ConstantsAssumption
    DEF ClearDeferredPlay, EmptySlot, IInv, SlotInv, TypeOK, Slots,
        Mailbox!Release
  <1>4. CASE CancelDeferredPlay
    BY <1>4, MailboxCancel DEF CancelDeferredPlay
  <1>5. ASSUME NEW u \in Urls, PlayCall(u)
        PROVE  [Mailbox!NextSlot]_Mailbox!slotState
    BY <1>5, MailboxCancel DEF PlayCall
  <1>6. CASE StopCall \/ EnableBluetooth \/ DisableBluetooth
    BY <1>6, MailboxCancel DEF StopCall, EnableBluetooth, DisableBluetooth
  <1>7. CASE PauseCheck \/ ResumeCheck \/ SetVolume
    BY <1>7, MailboxStutter DEF PauseCheck, ResumeCheck, SetVolume
  <1>8. CASE LoopStep
    BY <1>8, MailboxStutter
    DEF LoopStep, PlayOpen, PlayCommit, PlayBegin, StopBegin,
        StopFinish, EnableBegin, EnableEnd, DisableBegin, DisableEnd, PauseWrite, ResumeWrite
  <1>9. CASE BluetoothStack
    BY <1>9, MailboxStutter
    DEF BluetoothStack, BluetoothConnection, BluetoothPlayback
  <1>10. CASE UNCHANGED vars
    BY <1>10, MailboxStutter DEF vars
  <1> QED
    BY <1>1, <1>2, <1>3, <1>4, <1>5, <1>6, <1>7, <1>8, <1>9, <1>10
    DEF Next, LoopCall, Mailbox!NextSlot

(* The audio task and its callers implement the mailbox of DeferredSlot.   *)
THEOREM PlayerImplementsMailbox == Spec => MailboxSpec
  BY MailboxInit, MailboxStep, InductiveInvariance, PTL
  DEF Spec, MailboxSpec, Mailbox!SlotSpec

(***************************************************************************)
(* TunerControl.                                                           *)
(***************************************************************************)
USE DEF uiVars, controlVars, recordVars, mainVars, playerVars, vars,
        slotVars, taskVars, loopVars, chainVars, btVars, historyVars, Statuses,
        Live

-----------------------------------------------------------------------------
(* What the loop's own variables guarantee, whatever the player does: the  *)
(* station of a discovered play is known, an active record names a request *)
(* and the later steps of the service only run for an active record.       *)
RecordInv ==
  /\ start \in Starts
  /\ mainPc = "discover" => pick.station \in Urls
  /\ start.active => start.request \in Requests
  /\ mainPc \in {"fence", "recent", "persist", "failed", "clear"} =>
       start.active

LEMMA RecordStep == RecordInv /\ [TunerNext]_tunerVars => RecordInv'
  <1> SUFFICES ASSUME RecordInv, [TunerNext]_tunerVars PROVE RecordInv'
    OBVIOUS
  <1> USE DEF RecordInv, At, Goto, EditCatalog, Starts
  <1>1. CASE Input
    <2>1. ASSUME NEW u \in Urls, InputStation(u) PROVE RecordInv'
      BY <2>1 DEF InputStation
    <2>2. ASSUME NEW u \in Urls, InputDiscovered(u) PROVE RecordInv'
      BY <2>2 DEF InputDiscovered
    <2>3. CASE InputBrowse BY <2>3 DEF InputBrowse
    <2>4. CASE InputBluetooth BY <2>4 DEF InputBluetooth
    <2>5. CASE InputRadio BY <2>5 DEF InputRadio
    <2>6. CASE InputPause BY <2>6 DEF InputPause
    <2>7. CASE InputVolume BY <2>7 DEF InputVolume
    <2>8. CASE InputFavorite BY <2>8 DEF InputFavorite
    <2>9. CASE InputMenu BY <2>9 DEF InputMenu
    <2>10. CASE InputNone BY <2>10 DEF InputNone
    <2>11. CASE PlayDiscovered BY <2>11 DEF PlayDiscovered
    <2>12. CASE InputPlayed BY <2>12 DEF InputPlayed
    <2>13. CASE InputBrowsed BY <2>13 DEF InputBrowsed
    <2>14. CASE InputEnabled BY <2>14 DEF InputEnabled
    <2>15. CASE InputDisabled BY <2>15 DEF InputDisabled
    <2>16. CASE Displayed BY <2>16 DEF Displayed
    <2> QED
      BY <1>1, <2>1, <2>2, <2>3, <2>4, <2>5, <2>6, <2>7, <2>8, <2>9, <2>10,
         <2>11, <2>12, <2>13, <2>14, <2>15, <2>16 DEF Input
  <1>2. CASE Service
    <2>1. CASE ServicePending BY <2>1 DEF ServicePending, Onwards, Publish
    <2>2. CASE ServiceStale BY <2>2 DEF ServiceStale
    <2>3. CASE ServiceFence BY <2>3 DEF ServiceFence
    <2>4. CASE ServiceSucceeded
      BY <2>4 DEF ServiceSucceeded, StartStatus, Publish
    <2>5. CASE ServiceRecent BY <2>5 DEF ServiceRecent
    <2>6. CASE ServicePersisted BY <2>6 DEF ServicePersisted
    <2>7. CASE ServiceFailed BY <2>7 DEF ServiceFailed
    <2>8. CASE ServiceFailureShown BY <2>8 DEF ServiceFailureShown
    <2>9. CASE ServiceCancelled BY <2>9 DEF ServiceCancelled
    <2>10. CASE ServiceClear BY <2>10 DEF ServiceClear, NoStart, Publish
    <2>11. CASE Polled BY <2>11 DEF Polled
    <2> QED
      BY <1>2, <2>1, <2>2, <2>3, <2>4, <2>5, <2>6, <2>7, <2>8, <2>9, <2>10,
         <2>11 DEF Service
  <1>3. CASE Remote
    <2>1. ASSUME NEW r \in Requests, NEW u \in Urls, NEW b \in BOOLEAN,
            RemotePlay(r, u, b)
     PROVE  RecordInv'
      BY <2>1 DEF RemotePlay, Polling, Hooks
    <2>2. ASSUME NEW u \in Urls, RemoteSkip(u) PROVE RecordInv'
      BY <2>2 DEF RemoteSkip
    <2>3. CASE RemoteEdit BY <2>3 DEF RemoteEdit
    <2>4. CASE RemoteBluetooth BY <2>4 DEF RemoteBluetooth
    <2>5. CASE RemoteRadio BY <2>5 DEF RemoteRadio
    <2>6. CASE RemoteSourceDone BY <2>6 DEF RemoteSourceDone
    <2>7. CASE RemoteSourceShown BY <2>7 DEF RemoteSourceShown
    <2>8. CASE RemotePause BY <2>8 DEF RemotePause
    <2>9. CASE RemoteIgnored BY <2>9 DEF RemoteIgnored
    <2>10. CASE RemotePaused BY <2>10 DEF RemotePaused
    <2>11. CASE RemoteSkipped BY <2>11 DEF RemoteSkipped
    <2>12. CASE RemoteVolume BY <2>12 DEF RemoteVolume
    <2>13. CASE RemoteClose BY <2>13 DEF RemoteClose, Closing
    <2> QED
      BY <1>3, <2>1, <2>2, <2>3, <2>4, <2>5, <2>6, <2>7, <2>8, <2>9, <2>10,
         <2>11, <2>12, <2>13 DEF Remote
  <1>4. CASE Concurrent BY <1>4 DEF Concurrent
  <1>5. CASE UNCHANGED tunerVars BY <1>5 DEF tunerVars
  <1> QED BY <1>1, <1>2, <1>3, <1>4, <1>5 DEF TunerNext

(* The loop drives the audio player only through its operations.           *)
LEMMA Projection == RecordInv /\ [TunerNext]_tunerVars => [Next]_vars
  <1> SUFFICES ASSUME RecordInv, [TunerNext]_tunerVars PROVE [Next]_vars
    OBVIOUS
  <1> USE DEF Next, LoopCall
  <1>1. CASE Input
    <2>1. ASSUME NEW u \in Urls, InputStation(u) PROVE [Next]_vars
      BY <2>1 DEF InputStation
    <2>2. ASSUME NEW u \in Urls, InputDiscovered(u) PROVE [Next]_vars
      BY <2>2 DEF InputDiscovered
    <2>3. CASE InputBrowse BY <2>3 DEF InputBrowse
    <2>4. CASE InputBluetooth BY <2>4 DEF InputBluetooth
    <2>5. CASE InputRadio BY <2>5 DEF InputRadio
    <2>6. CASE InputPause BY <2>6 DEF InputPause
    <2>7. CASE InputVolume BY <2>7 DEF InputVolume
    <2>8. CASE InputFavorite BY <2>8 DEF InputFavorite
    <2>9. CASE InputMenu BY <2>9 DEF InputMenu
    <2>10. CASE InputNone BY <2>10 DEF InputNone
    <2>11. CASE PlayDiscovered BY <2>11 DEF PlayDiscovered, RecordInv, At
    <2>12. CASE InputPlayed BY <2>12 DEF InputPlayed
    <2>13. CASE InputBrowsed BY <2>13 DEF InputBrowsed
    <2>14. CASE InputEnabled BY <2>14 DEF InputEnabled
    <2>15. CASE InputDisabled BY <2>15 DEF InputDisabled
    <2>16. CASE Displayed BY <2>16 DEF Displayed
    <2> QED
      BY <1>1, <2>1, <2>2, <2>3, <2>4, <2>5, <2>6, <2>7, <2>8, <2>9, <2>10,
         <2>11, <2>12, <2>13, <2>14, <2>15, <2>16 DEF Input
  <1>2. CASE Service
    <2>1. CASE ServicePending BY <2>1 DEF ServicePending
    <2>2. CASE ServiceStale BY <2>2 DEF ServiceStale
    <2>3. CASE ServiceFence BY <2>3 DEF ServiceFence
    <2>4. CASE ServiceSucceeded BY <2>4 DEF ServiceSucceeded
    <2>5. CASE ServiceRecent BY <2>5 DEF ServiceRecent
    <2>6. CASE ServicePersisted BY <2>6 DEF ServicePersisted
    <2>7. CASE ServiceFailed BY <2>7 DEF ServiceFailed
    <2>8. CASE ServiceFailureShown BY <2>8 DEF ServiceFailureShown
    <2>9. CASE ServiceCancelled BY <2>9 DEF ServiceCancelled
    <2>10. CASE ServiceClear
    <3>1. start.request \in Requests
      BY <2>10 DEF ServiceClear, At, RecordInv
    <3> QED BY <2>10, <3>1 DEF ServiceClear
    <2>11. CASE Polled BY <2>11 DEF Polled
    <2> QED
      BY <1>2, <2>1, <2>2, <2>3, <2>4, <2>5, <2>6, <2>7, <2>8, <2>9, <2>10,
         <2>11 DEF Service
  <1>3. CASE Remote
    <2>1. ASSUME NEW r \in Requests, NEW u \in Urls, NEW b \in BOOLEAN,
            RemotePlay(r, u, b)
     PROVE  [Next]_vars
      BY <2>1 DEF RemotePlay
    <2>2. ASSUME NEW u \in Urls, RemoteSkip(u) PROVE [Next]_vars
      BY <2>2 DEF RemoteSkip
    <2>3. CASE RemoteEdit BY <2>3 DEF RemoteEdit
    <2>4. CASE RemoteBluetooth BY <2>4 DEF RemoteBluetooth
    <2>5. CASE RemoteRadio BY <2>5 DEF RemoteRadio
    <2>6. CASE RemoteSourceDone BY <2>6 DEF RemoteSourceDone
    <2>7. CASE RemoteSourceShown BY <2>7 DEF RemoteSourceShown
    <2>8. CASE RemotePause BY <2>8 DEF RemotePause
    <2>9. CASE RemoteIgnored BY <2>9 DEF RemoteIgnored
    <2>10. CASE RemotePaused BY <2>10 DEF RemotePaused
    <2>11. CASE RemoteSkipped BY <2>11 DEF RemoteSkipped
    <2>12. CASE RemoteVolume BY <2>12 DEF RemoteVolume
    <2>13. CASE RemoteClose BY <2>13 DEF RemoteClose
    <2> QED
      BY <1>3, <2>1, <2>2, <2>3, <2>4, <2>5, <2>6, <2>7, <2>8, <2>9, <2>10,
         <2>11, <2>12, <2>13 DEF Remote
  <1>4. CASE Concurrent BY <1>4 DEF Concurrent
  <1>5. CASE UNCHANGED tunerVars BY <1>5 DEF tunerVars
  <1> QED BY <1>1, <1>2, <1>3, <1>4, <1>5 DEF TunerNext

LEMMA RecordInvariance == TunerSpec => []RecordInv
  <1>1. TunerInit => RecordInv
    BY DEF TunerInit, RecordInv, NoStart, Starts
  <1> QED BY <1>1, RecordStep, PTL DEF TunerSpec

(* The application loop implements the audio player's specification: no    *)
(* nesting of REMOTE commands in the loop's waits calls the player in a    *)
(* way its own theorems do not cover.                                      *)
THEOREM TunerImplementsPlayer == TunerSpec => Spec
  <1>1. TunerInit => Init
    BY DEF TunerInit
  <1> QED BY <1>1, RecordInvariance, Projection, PTL DEF TunerSpec, Spec

-----------------------------------------------------------------------------
(* The record of the loop against the slot of the player.                  *)

(* What the player's own steps do to the slot: a live start moves on.      *)
LEMMA ConcurrentSlot ==
  ASSUME deferred \in Slots, AudioTask \/ LoopStep \/ BluetoothStack
  PROVE  /\ admissions' = admissions
         /\ deferred.status \notin Live => deferred' = deferred
         /\ /\ deferred'.request = deferred.request
            /\ deferred'.url = deferred.url
            /\ deferred'.ticket = deferred.ticket
         /\ deferred'.status \in {deferred.status, "running", "succeeded",
                                  "failed"}
  <1> USE DEF Slots
  <1>1. CASE Claim BY <1>1 DEF Claim
  <1>2. CASE Report BY <1>2 DEF Report, ReportApplies, StatusOf
  <1>3. CASE UNCHANGED slotVars BY <1>3
  <1>4. AudioTask => Claim \/ Report \/ UNCHANGED slotVars
    BY DEF AudioTask, TaskOpen, TaskCheck, TaskRecheck, TaskBegin,
       DecodeBegin, DecodeEnd
  <1>5. LoopStep => UNCHANGED slotVars
    BY DEF LoopStep, PlayOpen, PlayCommit, PlayBegin, StopBegin, StopFinish,
       EnableBegin, EnableEnd, DisableBegin, DisableEnd, PauseWrite,
       ResumeWrite
  <1>6. BluetoothStack => UNCHANGED slotVars
    BY DEF BluetoothStack, BluetoothConnection, BluetoothPlayback
  <1> QED BY <1>1, <1>2, <1>3, <1>4, <1>5, <1>6

(* What a cancellation does to the slot.                                   *)
LEMMA CancelledSlot ==
  ASSUME deferred \in Slots, CancelSlot
  PROVE  /\ admissions' = admissions
         /\ IF deferred.status \in Live
              THEN /\ deferred'.request = deferred.request
                   /\ deferred'.url = deferred.url
                   /\ deferred'.ticket = deferred.ticket
                   /\ deferred'.status = "cancelled"
              ELSE deferred' = deferred
  BY DEF CancelSlot, Cancels, Slots

(* A settled start is what the later steps of the service work on.         *)
TrackInv ==
  /\ SlotIsTracked
  /\ mainPc \in {"recent", "persist", "failed", "clear"} =>
       deferred.status \notin Live

LEMMA TrackStep ==
  /\ deferred \in Slots /\ SlotInv /\ RecordInv /\ TrackInv
  /\ [TunerNext]_tunerVars
  => TrackInv'
  <1> SUFFICES ASSUME deferred \in Slots, SlotInv, RecordInv, TrackInv,
                      [TunerNext]_tunerVars
               PROVE  TrackInv'
    OBVIOUS
  <1> USE DEF TrackInv, SlotIsTracked, RecordInv, Starts, At, Goto,
          EditCatalog
  <1>1. CASE Input
    <2>1. ASSUME NEW u \in Urls, InputStation(u) PROVE TrackInv'
      BY <2>1, CancelledSlot DEF InputStation, PlayCall
    <2>2. ASSUME NEW u \in Urls, InputDiscovered(u) PROVE TrackInv'
      BY <2>2 DEF InputDiscovered
    <2>3. CASE InputBrowse BY <2>3, CancelledSlot DEF InputBrowse, StopCall
    <2>4. CASE InputBluetooth
      BY <2>4, CancelledSlot DEF InputBluetooth, EnableBluetooth
    <2>5. CASE InputRadio
      BY <2>5, CancelledSlot DEF InputRadio, DisableBluetooth
    <2>6. CASE InputPause BY <2>6 DEF InputPause, PauseCheck, ResumeCheck
    <2>7. CASE InputVolume BY <2>7 DEF InputVolume, SetVolume
    <2>8. CASE InputFavorite BY <2>8 DEF InputFavorite
    <2>9. CASE InputMenu BY <2>9 DEF InputMenu
    <2>10. CASE InputNone BY <2>10 DEF InputNone
    <2>11. CASE PlayDiscovered
      BY <2>11, CancelledSlot DEF PlayDiscovered, PlayCall
    <2>12. CASE InputPlayed BY <2>12 DEF InputPlayed
    <2>13. CASE InputBrowsed BY <2>13 DEF InputBrowsed
    <2>14. CASE InputEnabled BY <2>14 DEF InputEnabled
    <2>15. CASE InputDisabled BY <2>15 DEF InputDisabled
    <2>16. CASE Displayed BY <2>16 DEF Displayed
    <2> QED
      BY <1>1, <2>1, <2>2, <2>3, <2>4, <2>5, <2>6, <2>7, <2>8, <2>9, <2>10,
         <2>11, <2>12, <2>13, <2>14, <2>15, <2>16 DEF Input
  <1>2. CASE Service
    <2>1. CASE ServicePending BY <2>1 DEF ServicePending, Onwards
    <2>2. CASE ServiceStale BY <2>2 DEF ServiceStale, StartStatus, StatusOf
    <2>3. CASE ServiceFence
      BY <2>3, CancelledSlot DEF ServiceFence, CancelDeferredPlay
    <2>4. CASE ServiceSucceeded
      BY <2>4 DEF ServiceSucceeded, StartStatus, StatusOf
    <2>5. CASE ServiceRecent BY <2>5 DEF ServiceRecent
    <2>6. CASE ServicePersisted BY <2>6 DEF ServicePersisted
    <2>7. CASE ServiceFailed
      BY <2>7 DEF ServiceFailed, StartStatus, StatusOf
    <2>8. CASE ServiceFailureShown BY <2>8 DEF ServiceFailureShown
    <2>9. CASE ServiceCancelled
      BY <2>9 DEF ServiceCancelled, StartStatus, StatusOf
    <2>10. CASE ServiceClear
      BY <2>10 DEF ServiceClear, NoStart, ClearDeferredPlay, EmptySlot
    <2>11. CASE Polled BY <2>11 DEF Polled
    <2> QED
      BY <1>2, <2>1, <2>2, <2>3, <2>4, <2>5, <2>6, <2>7, <2>8, <2>9, <2>10,
         <2>11 DEF Service
  <1>3. CASE Remote
    <2>1. ASSUME NEW r \in Requests, NEW u \in Urls, NEW b \in BOOLEAN,
            RemotePlay(r, u, b)
     PROVE  TrackInv'
      BY <2>1 DEF RemotePlay, DeferPlay, Polling, Hooks
    <2>2. ASSUME NEW u \in Urls, RemoteSkip(u) PROVE TrackInv'
      BY <2>2, CancelledSlot DEF RemoteSkip, PlayCall
    <2>3. CASE RemoteEdit BY <2>3 DEF RemoteEdit
    <2>4. CASE RemoteBluetooth
      BY <2>4, CancelledSlot DEF RemoteBluetooth, EnableBluetooth
    <2>5. CASE RemoteRadio
      BY <2>5, CancelledSlot DEF RemoteRadio, DisableBluetooth
    <2>6. CASE RemoteSourceDone BY <2>6 DEF RemoteSourceDone
    <2>7. CASE RemoteSourceShown BY <2>7 DEF RemoteSourceShown
    <2>8. CASE RemotePause BY <2>8 DEF RemotePause, PauseCheck, ResumeCheck
    <2>9. CASE RemoteIgnored BY <2>9 DEF RemoteIgnored
    <2>10. CASE RemotePaused BY <2>10 DEF RemotePaused
    <2>11. CASE RemoteSkipped BY <2>11 DEF RemoteSkipped
    <2>12. CASE RemoteVolume BY <2>12 DEF RemoteVolume, SetVolume
    <2>13. CASE RemoteClose
      BY <2>13, CancelledSlot DEF RemoteClose, Closing, CancelDeferredPlay
    <2> QED
      BY <1>3, <2>1, <2>2, <2>3, <2>4, <2>5, <2>6, <2>7, <2>8, <2>9, <2>10,
         <2>11, <2>12, <2>13 DEF Remote
  <1>4. CASE Concurrent BY <1>4, ConcurrentSlot DEF Concurrent
  <1>5. CASE UNCHANGED tunerVars BY <1>5 DEF tunerVars, vars
  <1> QED BY <1>1, <1>2, <1>3, <1>4, <1>5 DEF TunerNext

(* No order of physical input, REMOTE commands and closes leaks the slot   *)
(* or loses track of the start in it.                                      *)
LEMMA TrackInvariance == TunerSpec => []TrackInv
  <1>1. TunerInit => TrackInv
    BY DEF TunerInit, Init, EmptySlot, NoStart, TrackInv, SlotIsTracked
  <1>2. TypeOK /\ IInv => deferred \in Slots /\ SlotInv
    BY DEF TypeOK, IInv
  <1> QED
    BY <1>1, <1>2, TrackStep, RecordInvariance, TunerImplementsPlayer,
       InductiveInvariance, PTL DEF TunerSpec

THEOREM StartsAreTracked == TunerSpec => []SlotIsTracked
  <1>1. TrackInv => SlotIsTracked
    BY DEF TrackInv
  <1> QED BY <1>1, TrackInvariance, PTL

-----------------------------------------------------------------------------
(* What the service shows.                                                 *)

(* A dropped start stays cancelled, a shown one was started, was never     *)
(* dropped and is no longer live.                                          *)
PresentedInv ==
  /\ \A t \in dropped : t \in 1..admissions
  /\ \A t \in presented : t \in 1..admissions /\ t \in started \ dropped
  /\ deferred.status # "cancelled" => deferred.ticket \notin dropped
  /\ deferred.status \in Live => deferred.ticket \notin presented

LEMMA StartedGrows == [Next]_vars => started \subseteq started'
  BY StartedByBegin DEF vars, historyVars

LEMMA PresentedStep ==
  /\ deferred \in Slots /\ admissions \in Nat /\ SlotInv /\ OutcomeIsTrue
  /\ RecordInv /\ PresentedInv /\ [TunerNext]_tunerVars
  => PresentedInv'
  <1> SUFFICES ASSUME deferred \in Slots, admissions \in Nat, SlotInv,
                      OutcomeIsTrue, RecordInv, PresentedInv,
                      [TunerNext]_tunerVars
               PROVE  PresentedInv'
    OBVIOUS
  <1>s. started \subseteq started'
    BY Projection, StartedGrows
  <1>e. deferred.status = "none" => deferred.ticket = 0
    BY DEF SlotInv, EmptySlot
  <1>t. deferred.status # "none" => deferred.ticket \in 1..admissions
    BY DEF SlotInv
  <1>o. deferred.status = "succeeded" => deferred.ticket \in started
    BY DEF OutcomeIsTrue
  <1> USE <1>s, <1>e, <1>t DEF PresentedInv, Drop
  <1>1. CASE Input
    <2>1. ASSUME NEW u \in Urls, InputStation(u) PROVE PresentedInv'
      BY <2>1, CancelledSlot DEF InputStation, PlayCall
    <2>2. ASSUME NEW u \in Urls, InputDiscovered(u) PROVE PresentedInv'
      BY <2>2 DEF InputDiscovered
    <2>3. CASE InputBrowse BY <2>3, CancelledSlot DEF InputBrowse, StopCall
    <2>4. CASE InputBluetooth
      BY <2>4, CancelledSlot DEF InputBluetooth, EnableBluetooth
    <2>5. CASE InputRadio
      BY <2>5, CancelledSlot DEF InputRadio, DisableBluetooth
    <2>6. CASE InputPause BY <2>6 DEF InputPause, PauseCheck, ResumeCheck
    <2>7. CASE InputVolume BY <2>7 DEF InputVolume, SetVolume
    <2>8. CASE InputFavorite BY <2>8 DEF InputFavorite
    <2>9. CASE InputMenu BY <2>9 DEF InputMenu
    <2>10. CASE InputNone BY <2>10 DEF InputNone
    <2>11. CASE PlayDiscovered
      BY <2>11, CancelledSlot DEF PlayDiscovered, PlayCall
    <2>12. CASE InputPlayed BY <2>12 DEF InputPlayed
    <2>13. CASE InputBrowsed BY <2>13 DEF InputBrowsed
    <2>14. CASE InputEnabled BY <2>14 DEF InputEnabled
    <2>15. CASE InputDisabled BY <2>15 DEF InputDisabled
    <2>16. CASE Displayed BY <2>16 DEF Displayed
    <2> QED
      BY <1>1, <2>1, <2>2, <2>3, <2>4, <2>5, <2>6, <2>7, <2>8, <2>9, <2>10,
         <2>11, <2>12, <2>13, <2>14, <2>15, <2>16 DEF Input
  <1>2. CASE Service
    <2>1. CASE ServicePending BY <2>1 DEF ServicePending
    <2>2. CASE ServiceStale BY <2>2 DEF ServiceStale
    <2>3. CASE ServiceFence
      BY <2>3, CancelledSlot DEF ServiceFence, CancelDeferredPlay
    <2>4. CASE ServiceSucceeded
      <3>1. deferred.status = "succeeded" /\ UNCHANGED <<deferred, admissions>>
        BY <2>4 DEF ServiceSucceeded, StartStatus, StatusOf
      <3> QED BY <2>4, <3>1, <1>o DEF ServiceSucceeded
    <2>5. CASE ServiceRecent BY <2>5 DEF ServiceRecent
    <2>6. CASE ServicePersisted BY <2>6 DEF ServicePersisted
    <2>7. CASE ServiceFailed BY <2>7 DEF ServiceFailed
    <2>8. CASE ServiceFailureShown BY <2>8 DEF ServiceFailureShown
    <2>9. CASE ServiceCancelled BY <2>9 DEF ServiceCancelled
    <2>10. CASE ServiceClear
      BY <2>10 DEF ServiceClear, ClearDeferredPlay, EmptySlot
    <2>11. CASE Polled BY <2>11 DEF Polled
    <2> QED
      BY <1>2, <2>1, <2>2, <2>3, <2>4, <2>5, <2>6, <2>7, <2>8, <2>9, <2>10,
         <2>11 DEF Service
  <1>3. CASE Remote
    <2>1. ASSUME NEW r \in Requests, NEW u \in Urls, NEW b \in BOOLEAN,
            RemotePlay(r, u, b)
     PROVE  PresentedInv'
      BY <2>1 DEF RemotePlay, DeferPlay
    <2>2. ASSUME NEW u \in Urls, RemoteSkip(u) PROVE PresentedInv'
      BY <2>2, CancelledSlot DEF RemoteSkip, PlayCall
    <2>3. CASE RemoteEdit BY <2>3 DEF RemoteEdit
    <2>4. CASE RemoteBluetooth
      BY <2>4, CancelledSlot DEF RemoteBluetooth, EnableBluetooth
    <2>5. CASE RemoteRadio
      BY <2>5, CancelledSlot DEF RemoteRadio, DisableBluetooth
    <2>6. CASE RemoteSourceDone BY <2>6 DEF RemoteSourceDone
    <2>7. CASE RemoteSourceShown BY <2>7 DEF RemoteSourceShown
    <2>8. CASE RemotePause BY <2>8 DEF RemotePause, PauseCheck, ResumeCheck
    <2>9. CASE RemoteIgnored BY <2>9 DEF RemoteIgnored
    <2>10. CASE RemotePaused BY <2>10 DEF RemotePaused
    <2>11. CASE RemoteSkipped BY <2>11 DEF RemoteSkipped
    <2>12. CASE RemoteVolume BY <2>12 DEF RemoteVolume, SetVolume
    <2>13. CASE RemoteClose
      BY <2>13, CancelledSlot DEF RemoteClose, Closing, Closing, CancelDeferredPlay
    <2> QED
      BY <1>3, <2>1, <2>2, <2>3, <2>4, <2>5, <2>6, <2>7, <2>8, <2>9, <2>10,
         <2>11, <2>12, <2>13 DEF Remote
  <1>4. CASE Concurrent BY <1>4, ConcurrentSlot DEF Concurrent
  <1>5. CASE UNCHANGED tunerVars BY <1>5 DEF tunerVars
  <1> QED BY <1>1, <1>2, <1>3, <1>4, <1>5 DEF TunerNext

(* The display only ever claims a start that happened and that nobody had  *)
(* cancelled.                                                              *)
THEOREM PresentedStartsAreReal == TunerSpec => []PresentedIsReal
  <1>1. TunerInit => PresentedInv
    BY DEF TunerInit, Init, EmptySlot, PresentedInv
  <1>2. TypeOK /\ IInv =>
          deferred \in Slots /\ admissions \in Nat /\ SlotInv /\ OutcomeIsTrue
    BY ConstantsAssumption DEF TypeOK, Tickets, IInv, StartedInv
  <1>3. PresentedInv => PresentedIsReal
    BY DEF PresentedInv, PresentedIsReal
  <1> QED
    BY <1>1, <1>2, <1>3, PresentedStep, RecordInvariance,
       TunerImplementsPlayer, InductiveInvariance, PTL DEF TunerSpec
=============================================================================
