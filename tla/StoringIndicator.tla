-------------------------- MODULE StoringIndicator --------------------------
(***************************************************************************)
(* The storing indicator of the view finder, next to the saving back end.  *)
(* StateMachineController turns it on after requestStore() and when it     *)
(* attaches to a back end that is still busy; the worker turns it off from *)
(* onPhotoStoreCompleted() when no task remains.  The two threads share    *)
(* the back end's monitor and ViewFinderVisuals.mIsNowStoring.             *)
(***************************************************************************)
EXTENDS NativeSavingTaskStack

VARIABLES
    mIsNowStoring,      \* per state machine: its ViewFinderVisuals.mIsNowStoring
    owes,               \* what the UI thread still does in the running handler
    inFront             \* the state machine that attached last

ivars == <<vars, mIsNowStoring, owes, inFront>>

IndicatorTypeOK ==
    /\ TypeOK
    /\ mIsNowStoring \in [Listener -> BOOLEAN]
    /\ owes \in {"nothing", "started", "check"}
    /\ inFront \in Listener

IInit ==
    /\ Init
    /\ mIsNowStoring = [l \in Listener |-> FALSE]
    /\ owes = "nothing"
    /\ inFront = mPhotoStoreListener

Show(l, on) == mIsNowStoring' = [mIsNowStoring EXCEPT ![l] = on]

-----------------------------------------------------------------------------
(* The UI thread.                                                          *)

(* EVENT_ON_FRAME_DONE with a frame: requestStore(), then the indicator.   *)
(* The state machine that captures has attached, but an earlier one may    *)
(* have detached it since.                                                 *)
StoreFrame ==
    /\ owes = "nothing"
    /\ RequestStoreSubmit
    /\ owes' = "started"
    /\ UNCHANGED <<mIsNowStoring, inFront>>

OnStoringStarted ==
    /\ owes = "started" /\ ui = "idle"
    /\ Show(inFront, TRUE)
    /\ owes' = "nothing"
    /\ UNCHANGED <<vars, inFront>>

(* STATE_PAUSE: the back end forgets its state machine, whether it is the  *)
(* one that has paused or, in the late onDestroy() of an earlier Activity, *)
(* another one (BurstStateMachine).                                        *)
Detach ==
    /\ owes = "nothing"
    /\ SetListener(NoListener)
    /\ UNCHANGED <<mIsNowStoring, owes, inFront>>

(* EVENT_ON_SURFACE_PREPARED: state machine l attaches, then asks whether  *)
(* the back end is busy.                                                   *)
Attach(l) ==
    /\ owes = "nothing"
    /\ SetListener(l)
    /\ owes' = "check"
    /\ inFront' = l
    /\ UNCHANGED mIsNowStoring

BugNeverBusy == UNCHANGED mIsNowStoring

ShowIfBusy ==
    IF mSavingTaskList # {} THEN Show(inFront, TRUE) ELSE UNCHANGED mIsNowStoring

CheckStack ==
    /\ owes = "check"
    /\ UiEnters
    /\ ShowIfBusy
    /\ owes' = "nothing"
    /\ UNCHANGED <<vars, inFront>>

AddFrame ==
    /\ RequestStoreAdd
    /\ UNCHANGED <<mIsNowStoring, owes, inFront>>

OtherUiStep ==
    /\ owes = "nothing"
    /\ StartCapturing \/ FinishCapturing \/ RequestStoreFails \/ Release
    /\ UNCHANGED <<mIsNowStoring, owes, inFront>>

-----------------------------------------------------------------------------
(* The worker thread: the listener call of onStoreCompleted() is           *)
(* onPhotoStoreCompleted(), inside the monitor.                            *)
NotifyListener ==
    /\ Notify
    /\ IF mPhotoStoreListener # NoListener /\ mSavingTaskList = {}
         THEN Show(mPhotoStoreListener, FALSE) ELSE UNCHANGED mIsNowStoring
    /\ UNCHANGED <<owes, inFront>>

OtherWorkerStep ==
    /\ \/ Take \/ Store \/ Finalize \/ CheckCallback \/ CallCallback
       \/ OnStoreCompleted
    /\ UNCHANGED <<mIsNowStoring, owes, inFront>>

WorkerRuns == ui # "crashed" /\ (NotifyListener \/ OtherWorkerStep)

INext ==
    \/ StoreFrame
    \/ AddFrame
    \/ OnStoringStarted
    \/ Detach
    \/ \E l \in Listener : Attach(l)
    \/ CheckStack
    \/ OtherUiStep
    \/ WorkerRuns
    \/ Halted /\ UNCHANGED <<mIsNowStoring, owes, inFront>>

(* Fairness is that of NativeSavingTaskStack. *)
ISpec == /\ IInit /\ [][INext]_ivars
         /\ WF_ivars(WorkerRuns) /\ WF_ivars(AddFrame)

-----------------------------------------------------------------------------
(* The UI thread is between two handlers, and nobody is in the monitor.    *)
Watching == ui = "idle" /\ owes = "nothing" /\ monitor = "free"

(* Nobody sees an idle indicator while a photo is still to be saved: the   *)
(* worker's "finished" never overtakes a later requestStore(), because it  *)
(* is sent inside the monitor, and a new Activity finds out on its own.    *)
(* It also holds for a state machine that another one has detached.        *)
NeverIdleWhileSaving ==
    Watching /\ mSavingTaskList # {} => mIsNowStoring[inFront]

(* "Stop storing animation.": once the last photo is stored the indicator  *)
(* of the attached state machine is off.                                   *)
StopsWhenStored ==
    Watching /\ mPhotoStoreListener # NoListener /\ mSavingTaskList = {}
        => ~mIsNowStoring[mPhotoStoreListener]
-----------------------------------------------------------------------------
(* The inductive invariant: why NeverIdleWhileSaving holds.                *)

(* The worker talks to the state machine in front or to none, and a submit *)
(* without its add is in the middle of a handler that stores a frame.      *)
OwesInv ==
    /\ mPhotoStoreListener \in {inFront, NoListener}
    /\ ui = "add" => owes = "started"

(* Once the handler has done its part, the indicator of the state machine  *)
(* in front is on as long as the list is not empty, whoever holds the      *)
(* monitor.                                                                *)
ShownInv ==
    owes = "nothing" /\ mSavingTaskList # {} => mIsNowStoring[inFront]

IInv ==
    /\ Inv
    /\ IndicatorTypeOK
    /\ OwesInv
    /\ ShownInv
=============================================================================
