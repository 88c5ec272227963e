---------------------- MODULE StoringIndicator_proofs ----------------------
(***************************************************************************)
(* Proofs about StoringIndicator, for any number of tasks, bursts and      *)
(* state machines.                                                         *)
(***************************************************************************)
EXTENDS StoringIndicator, NativeSavingTaskStack_proofs

(* Next to the indicator the back end takes its own steps and no others.   *)
LEMMA StackStep ==
    ASSUME [INext]_ivars
    PROVE  [Next]_vars
<1>1. CASE StoreFrame
  BY <1>1 DEF StoreFrame, Next, UiStep
<1>2. CASE Detach
  BY <1>2 DEF Detach, Next, UiStep
<1>3. ASSUME NEW l \in Listener, Attach(l) PROVE Next
  BY <1>3 DEF Attach, Next, UiStep
<1>4. CASE AddFrame \/ OtherUiStep
  BY <1>4 DEF AddFrame, OtherUiStep, Next, UiStep
<1>5. CASE WorkerRuns
  BY <1>5 DEF WorkerRuns, NotifyListener, OtherWorkerStep, Next, WorkerStep
<1>6. CASE OnStoringStarted \/ CheckStack \/ Halted \/ UNCHANGED ivars
  BY <1>6 DEF OnStoringStarted, CheckStack, Halted, ivars
<1> QED BY <1>1, <1>2, <1>3, <1>4, <1>5, <1>6 DEF INext

(* A worker step other than Notify only shrinks the list.                  *)
LEMMA WorkerShrinksList ==
    ASSUME OtherWorkerStep
    PROVE  /\ mSavingTaskList' \subseteq mSavingTaskList
           /\ UNCHANGED <<mPhotoStoreListener, ui, mIsNowStoring, owes, inFront>>
BY DEF OtherWorkerStep, Take, Store, Finalize, CheckCallback, CallCallback,
       OnStoreCompleted, notifyVars, listVars

(* The invariant holds initially.                                          *)
LEMMA IInitInv == IInit => IInv
<1> SUFFICES ASSUME IInit PROVE IInv
  OBVIOUS
<1>1. Inv /\ TypeOK
  BY InitInv DEF IInit, Inv
<1>2. IndicatorTypeOK
  BY <1>1 DEF IInit, Init, IndicatorTypeOK
<1>3. OwesInv /\ ShownInv
  BY DEF IInit, Init, OwesInv, ShownInv
<1> QED BY <1>1, <1>2, <1>3 DEF IInv

(* The indicators keep their type.                                         *)
LEMMA StepIndicatorTypeOK ==
    ASSUME IInv, [INext]_ivars
    PROVE  IndicatorTypeOK'
<1>1. TypeOK'
  BY StackStep, StepTypeOK DEF IInv
<1>2. IndicatorTypeOK
  BY DEF IInv
<1>3. ASSUME NEW l, NEW on \in BOOLEAN, Show(l, on)
      PROVE  mIsNowStoring' \in [Listener -> BOOLEAN]
  BY <1>2, <1>3 DEF Show, IndicatorTypeOK
<1>4. mIsNowStoring' \in [Listener -> BOOLEAN]
  BY <1>2, <1>3 DEF IndicatorTypeOK, INext, ivars, StoreFrame, AddFrame, OnStoringStarted, Detach,
        WorkerRuns, Attach, CheckStack, ShowIfBusy, OtherUiStep, NotifyListener, OtherWorkerStep
<1>5. owes' \in {"nothing", "started", "check"}
  BY <1>2 DEF IndicatorTypeOK, INext, ivars, StoreFrame, AddFrame, OnStoringStarted, Detach,
        WorkerRuns, Attach, CheckStack, OtherUiStep, NotifyListener, OtherWorkerStep
<1>6. inFront' \in Listener
  BY <1>2 DEF IndicatorTypeOK, INext, ivars, StoreFrame, AddFrame, OnStoringStarted, Detach,
        WorkerRuns, Attach, CheckStack, OtherUiStep, NotifyListener, OtherWorkerStep
<1> QED BY <1>1, <1>4, <1>5, <1>6 DEF IndicatorTypeOK

(* The state machine in front changes in Attach alone, and no handler is   *)
(* interrupted by another one.                                             *)
LEMMA StepOwesInv ==
    ASSUME IInv, [INext]_ivars
    PROVE  OwesInv'
<1>0. OwesInv
  BY DEF IInv
<1> USE <1>0 DEF OwesInv
<1>1. CASE StoreFrame
  BY <1>1 DEF StoreFrame, RequestStoreSubmit, notifyVars
<1>2. CASE OnStoringStarted
  BY <1>2 DEF OnStoringStarted, vars, notifyVars
<1>3. CASE Detach
  BY <1>3 DEF Detach, SetListener
<1>4. ASSUME NEW l \in Listener, Attach(l) PROVE OwesInv'
  BY <1>4, ListenerAssumption DEF Attach, SetListener
<1>5. CASE CheckStack
  BY <1>5 DEF CheckStack, UiEnters, vars, notifyVars
<1>6. CASE AddFrame \/ OtherUiStep
  BY <1>6 DEF AddFrame, OtherUiStep, StartCapturing, FinishCapturing, RequestStoreFails,
              Release, RequestStoreAdd, UiEnters, notifyVars
<1>7. CASE NotifyListener
  BY <1>7 DEF NotifyListener, Notify
<1>8. CASE OtherWorkerStep
  BY <1>8, WorkerShrinksList
<1>9. CASE UNCHANGED ivars \/ (Halted /\ UNCHANGED <<mIsNowStoring, owes, inFront>>)
  BY <1>9 DEF ivars, vars, Halted, notifyVars
<1> QED BY <1>1, <1>2, <1>3, <1>4, <1>5, <1>6, <1>7, <1>8, <1>9 DEF INext, WorkerRuns

(* Whatever empties or fills the list, the indicator follows.              *)
LEMMA StepShownInv ==
    ASSUME IInv, [INext]_ivars
    PROVE  ShownInv'
<1>0. ShownInv /\ OwesInv /\ IndicatorTypeOK /\ TypeOK
  BY DEF IInv, IndicatorTypeOK
<1> USE <1>0
<1>a. ASSUME Show(inFront, TRUE), UNCHANGED inFront PROVE ShownInv'
  BY <1>a DEF Show, ShownInv, IndicatorTypeOK, TypeOK
<1>b. ASSUME UNCHANGED <<mIsNowStoring, owes, inFront>>,
             mSavingTaskList' \subseteq mSavingTaskList
      PROVE  ShownInv'
  BY <1>b DEF ShownInv
<1>1. CASE StoreFrame
  BY <1>1 DEF StoreFrame, ShownInv
<1>2. CASE OnStoringStarted
  BY <1>2, <1>a DEF OnStoringStarted, vars, notifyVars
<1>3. CASE Detach
  BY <1>3 DEF Detach, SetListener, listVars, ShownInv
<1>4. ASSUME NEW l \in Listener, Attach(l) PROVE ShownInv'
  BY <1>4 DEF Attach, ShownInv
<1>5. CASE CheckStack
  <2>1. UNCHANGED mSavingTaskList
    BY <1>5 DEF CheckStack, vars, notifyVars, listVars
  <2> QED BY <1>5, <1>a, <2>1 DEF CheckStack, ShowIfBusy, ShownInv
<1>6. CASE AddFrame \/ OtherUiStep
  <2>1. CASE AddFrame
    BY <2>1 DEF AddFrame, RequestStoreAdd, OwesInv, ShownInv
  <2>2. CASE Release
    BY <2>2 DEF Release, ShownInv
  <2>3. CASE OtherUiStep /\ (StartCapturing \/ FinishCapturing \/ RequestStoreFails)
    BY <1>b, <2>3 DEF OtherUiStep, StartCapturing, FinishCapturing,
                            RequestStoreFails, notifyVars, listVars
  <2> QED BY <1>6, <2>1, <2>2, <2>3 DEF OtherUiStep
<1>7. CASE NotifyListener
  <2>1. UNCHANGED <<mSavingTaskList, owes, inFront>>
    BY <1>7 DEF NotifyListener, Notify, listVars
  <2> QED BY <1>7, <2>1 DEF NotifyListener, ShownInv
<1>8. CASE OtherWorkerStep
  BY <1>8, <1>b, WorkerShrinksList
<1>9. CASE UNCHANGED ivars \/ (Halted /\ UNCHANGED <<mIsNowStoring, owes, inFront>>)
  BY <1>9, <1>b DEF ivars, vars, Halted, notifyVars, listVars
<1> QED BY <1>1, <1>2, <1>3, <1>4, <1>5, <1>6, <1>7, <1>8, <1>9 DEF INext, WorkerRuns

-----------------------------------------------------------------------------
(* The inductive invariant holds in every reachable state.                 *)
THEOREM IInvHolds == ISpec => []IInv
<1>1. IInv /\ [INext]_ivars => IInv'
  <2> SUFFICES ASSUME IInv, [INext]_ivars PROVE IInv'
    OBVIOUS
  <2>1. Inv /\ [Next]_vars
    BY StackStep DEF IInv
  <2>2. Inv'
    BY <2>1, StepTypeOK, StepMonitorInv, StepQueueInv, StepBuffersFollowTask,
       StepListInv, StepPathInv DEF Inv
  <2> QED BY <2>2, StepIndicatorTypeOK, StepOwesInv, StepShownInv DEF IInv
<1> QED BY IInitInv, <1>1, PTL DEF ISpec

(* With the indicator next to it, the back end still only does what module *)
(* NativeSavingTaskStack lets it do.                                       *)
THEOREM IndicatorKeepsStack == ISpec => Init /\ [][Next]_vars
<1>1. IInit => Init
  BY DEF IInit
<1>2. [INext]_ivars => [Next]_vars
  BY StackStep
<1> QED BY <1>1, <1>2, PTL DEF ISpec

(* Every variable of the back end and of the indicators keeps its type.    *)
THEOREM IndicatorTypesCorrect == ISpec => []IndicatorTypeOK
<1>1. IInv => IndicatorTypeOK
  BY DEF IInv
<1> QED BY IInvHolds, <1>1, PTL

(* Nobody sees an idle indicator while a photo is still to be saved.       *)
THEOREM IndicatorNeverIdle == ISpec => []NeverIdleWhileSaving
<1>1. IInv => NeverIdleWhileSaving
  BY DEF IInv, ShownInv, NeverIdleWhileSaving, Watching
<1> QED BY IInvHolds, <1>1, PTL
=============================================================================
