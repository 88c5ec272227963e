----------------------- MODULE NativeSavingTaskStack -----------------------
(***************************************************************************)
(* The saving back end: NativeSavingTaskStackController (a Java monitor    *)
(* used by the UI thread and by the worker), the NativeSavingTask objects  *)
(* it creates with their native memory, and the single worker thread of    *)
(* UnlimitedBurstShotApplication that runs them.                           *)
(*                                                                         *)
(* A step of a thread is cut where the other thread can see a difference:  *)
(* requestStore() between submit() and add(), NativeSavingTask.run()       *)
(* between its native calls and its two reads of mCallback, and            *)
(* onStoreCompleted() between its two reads of mPhotoStoreListener.        *)
(***************************************************************************)
EXTENDS Integers, Sequences, FiniteSets

CONSTANTS MaxTasks,     \* bound: frames handed to requestStore()
          MaxBursts,    \* bound: calls of startCapturing()
          Listener,     \* StateMachineController instances
          NoListener    \* the null reference

ASSUME BoundsAssumption == MaxTasks \in Nat /\ MaxBursts \in Nat
ASSUME ListenerAssumption == NoListener \notin Listener

VARIABLES
    mPhotoStoreListener, mFilePathPreFix, mCaptureCount,
    mIs1stPhotoAlreadyCallbacked, mSavingTaskList, mNativeMemorySize,
    monitor,            \* owner of the controller's monitor
    mCallback,          \* NativeSavingTask.mCallback # null, per task
    targetFilePath,     \* NativeSavingTask.TARGET_FILE_PATH, per task
    heap,               \* native blocks allocated and not freed
    execQueue,          \* the executor's queue of submitted tasks
    worker, running,    \* where the worker is in run(), and on which task
    ui,                 \* where the UI thread is
    files,              \* paths written on the SD card
    created, bursts,    \* tasks and prefixes used up so far
    announced           \* what the listener was told of each task

sessionVars == <<mFilePathPreFix, mCaptureCount, bursts>>
taskVars    == <<mCallback, targetFilePath, created>>
listVars    == <<mSavingTaskList, mNativeMemorySize>>
notifyVars  == <<mPhotoStoreListener, mIs1stPhotoAlreadyCallbacked, announced>>
execVars    == <<execQueue, worker, running>>
vars == <<sessionVars, taskVars, listVars, notifyVars, execVars,
          monitor, heap, ui, files>>

Task    == 1..MaxTasks
NoTask  == 0
NoPreFix == 0                   \* mFilePathPreFix = null
Buffers == {"struct", "yuv", "rgb"}
Blocks  == Buffers \cup {"path"}
Path    == (0..MaxBursts) \X (0..MaxTasks)

TypeOK ==
    /\ mPhotoStoreListener \in Listener \cup {NoListener}
    /\ mFilePathPreFix \in 0..MaxBursts
    /\ mCaptureCount \in 0..MaxTasks
    /\ mIs1stPhotoAlreadyCallbacked \in BOOLEAN
    /\ mSavingTaskList \in SUBSET Task
    /\ mNativeMemorySize \in Int
    /\ monitor \in {"free", "ui", "worker"}
    /\ mCallback \in [Task -> BOOLEAN]
    /\ targetFilePath \in [Task -> Path]
    /\ heap \in SUBSET (Task \X Blocks)
    /\ execQueue \in Seq(Task)
    /\ worker \in {"idle", "store", "finalize", "check", "call",
                   "completed", "notify"}
    /\ running \in 0..MaxTasks
    /\ ui \in {"idle", "add", "terminated", "crashed"}
    /\ files \in SUBSET Path
    /\ created \in 0..MaxTasks
    /\ bursts \in 0..MaxBursts
    /\ announced \in [Task -> {"no", "first", "later"}]

(* The controller is built by the first prepared preview, with a listener. *)
Init ==
    /\ mPhotoStoreListener \in Listener
    /\ mFilePathPreFix = NoPreFix
    /\ mCaptureCount = 0
    /\ mIs1stPhotoAlreadyCallbacked = FALSE
    /\ mSavingTaskList = {}
    /\ mNativeMemorySize = 0
    /\ monitor = "free"
    /\ mCallback = [t \in Task |-> FALSE]
    /\ targetFilePath = [t \in Task |-> <<NoPreFix, 0>>]
    /\ heap = {}
    /\ execQueue = << >>
    /\ worker = "idle"
    /\ running = NoTask
    /\ ui = "idle"
    /\ files = {}
    /\ created = 0
    /\ bursts = 0
    /\ announced = [t \in Task |-> "no"]

-----------------------------------------------------------------------------
(* Operations both threads use.                                            *)

BugNotSynchronized == TRUE

(* A synchronized method of the controller starts. *)
CanLock == monitor = "free"

BugCallbackNotSet(t, on) == UNCHANGED mCallback

(* NativeSavingTask.setOnStoreCompletedListener(), not synchronized. *)
SetOnStoreCompletedListener(t, on) ==
    mCallback' = [mCallback EXCEPT ![t] = on]

BugYoungestFirst(t) == execQueue' = <<t>> \o execQueue

(* ExecutorService.submit() *)
Submit(t) == execQueue' = Append(execQueue, t)

-----------------------------------------------------------------------------
(* The UI thread.                                                          *)

UiEnters == ui = "idle" /\ CanLock

(* setPhotoStoreCompletedListener() is not synchronized. *)
SetListener(l) ==
    /\ ui = "idle"
    /\ l # mPhotoStoreListener
    /\ mPhotoStoreListener' = l
    /\ UNCHANGED <<sessionVars, taskVars, listVars, execVars, monitor, heap,
                   ui, files, mIs1stPhotoAlreadyCallbacked, announced>>

(* StateMachineController opens a burst only when none is open             *)
(* (BurstStateMachine checks it).  The prefix holds                        *)
(* System.currentTimeMillis(): a new one for each call.                    *)
StartCapturing ==
    /\ UiEnters
    /\ mFilePathPreFix = NoPreFix
    /\ bursts < MaxBursts
    /\ bursts' = bursts + 1
    /\ mFilePathPreFix' = bursts + 1
    /\ mCaptureCount' = 0
    /\ mIs1stPhotoAlreadyCallbacked' = FALSE
    /\ UNCHANGED <<taskVars, listVars, execVars, monitor, heap, ui, files,
                   mPhotoStoreListener, announced>>

FinishCapturing ==
    /\ UiEnters
    /\ mFilePathPreFix' = NoPreFix
    /\ mCaptureCount' = 0
    /\ UNCHANGED <<bursts, taskVars, listVars, notifyVars, execVars, monitor,
                   heap, ui, files>>

BugCountedTwice ==
    /\ mFilePathPreFix # NoPreFix
    /\ created < MaxTasks
    /\ mCaptureCount' = mCaptureCount + 2

BugNotCounted ==
    /\ mFilePathPreFix # NoPreFix
    /\ created < MaxTasks
    /\ mCaptureCount' = mCaptureCount

(* StateMachineController stores a frame only while a burst is open        *)
(* (BurstStateMachine checks it); getNextFilePath() counts the frame.      *)
GetNextFilePath ==
    /\ mFilePathPreFix # NoPreFix
    /\ created < MaxTasks
    /\ mCaptureCount' = mCaptureCount + 1

(* requestStore() as far as submit(): the constructor allocates the native *)
(* blocks, the callback is set, and the worker may start at once.          *)
RequestStoreSubmit ==
    /\ UiEnters
    /\ GetNextFilePath
    /\ LET t == created + 1
       IN  /\ created' = t
           /\ targetFilePath' =
                  [targetFilePath EXCEPT ![t] = <<mFilePathPreFix, mCaptureCount'>>]
           /\ heap' = heap \cup ({t} \X Blocks)
           /\ SetOnStoreCompletedListener(t, TRUE)
           /\ Submit(t)
    /\ monitor' = "ui"
    /\ ui' = "add"
    /\ UNCHANGED <<mFilePathPreFix, bursts, listVars, notifyVars, worker,
                   running, files>>

(* The rest of requestStore(): the task enters the list and is counted.    *)
RequestStoreAdd ==
    /\ ui = "add"
    /\ mSavingTaskList' = mSavingTaskList \cup {created}
    /\ mNativeMemorySize' = mNativeMemorySize + 1
    /\ monitor' = "free"
    /\ ui' = "idle"
    /\ UNCHANGED <<sessionVars, taskVars, notifyVars, execVars, heap, files>>

(* A malloc() fails: the constructor throws a RuntimeException nobody      *)
(* catches on the UI thread, and the process dies with its queue.          *)
RequestStoreFails ==
    /\ UiEnters
    /\ GetNextFilePath
    /\ ui' = "crashed"
    /\ UNCHANGED <<mFilePathPreFix, bursts, taskVars, listVars, notifyVars,
                   execVars, monitor, heap, files>>

(* onTerminate(): release() and executor.shutdown(); queued tasks still run. *)
Release ==
    /\ UiEnters
    /\ mPhotoStoreListener' = NoListener
    /\ mCallback' = [t \in Task |-> mCallback[t] /\ t \notin mSavingTaskList]
    /\ mSavingTaskList' = {}
    /\ ui' = "terminated"
    /\ UNCHANGED <<sessionVars, targetFilePath, created, mNativeMemorySize,
                   execVars, monitor, heap, files,
                   mIs1stPhotoAlreadyCallbacked, announced>>

-----------------------------------------------------------------------------
(* The worker thread.                                                      *)

Take ==
    /\ worker = "idle"
    /\ execQueue # << >>
    /\ running' = Head(execQueue)
    /\ execQueue' = Tail(execQueue)
    /\ worker' = "store"
    /\ UNCHANGED <<sessionVars, taskVars, listVars, notifyVars, monitor, heap,
                   ui, files>>

(* doStoreYuvByteArrayAsJpegFile(): without its buffers, or when fopen()   *)
(* fails, it returns -1, which run() ignores.                              *)
Store ==
    /\ worker = "store"
    /\ \/ /\ {running} \X Buffers \subseteq heap
          /\ files' = files \cup {targetFilePath[running]}
       \/ files' = files
    /\ worker' = "finalize"
    /\ UNCHANGED <<sessionVars, taskVars, listVars, notifyVars, execQueue,
                   running, monitor, heap, ui>>

BugRgbNotFreed == {"struct", "yuv"}

(* What doFinalize() frees. *)
FreedBlocks == Buffers

(* doFinalize() forgets the path string without releasing it. *)
Finalize ==
    /\ worker = "finalize"
    /\ heap' = heap \ ({running} \X FreedBlocks)
    /\ worker' = "check"
    /\ UNCHANGED <<sessionVars, taskVars, listVars, notifyVars, execQueue,
                   running, monitor, ui, files>>

(* The worker leaves run() in state w, or goes idle. *)
GoTo(w) ==
    /\ worker' = w
    /\ running' = IF w = "idle" THEN NoTask ELSE running

(* if (mCallback != null) *)
CheckCallback ==
    /\ worker = "check"
    /\ GoTo(IF mCallback[running] THEN "call" ELSE "idle")
    /\ UNCHANGED <<sessionVars, taskVars, listVars, notifyVars, execQueue,
                   monitor, heap, ui, files>>

(* mCallback.onStoreCompleted(this) reads the field again: release() may   *)
(* have cleared it, and the NullPointerException ends in the FutureTask.   *)
CallCallback ==
    /\ worker = "call"
    /\ GoTo(IF mCallback[running] THEN "completed" ELSE "idle")
    /\ UNCHANGED <<sessionVars, taskVars, listVars, notifyVars, execQueue,
                   monitor, heap, ui, files>>

(* onStoreCompleted() as far as "if (mPhotoStoreListener != null)". *)
OnStoreCompleted ==
    /\ worker = "completed"
    /\ CanLock
    /\ SetOnStoreCompletedListener(running, FALSE)
    /\ mSavingTaskList' = mSavingTaskList \ {running}
    /\ mNativeMemorySize' = mNativeMemorySize - 1
    /\ IF mPhotoStoreListener # NoListener
         THEN GoTo("notify") /\ monitor' = "worker"
         ELSE GoTo("idle") /\ UNCHANGED monitor
    /\ UNCHANGED <<sessionVars, targetFilePath, created, notifyVars,
                   execQueue, heap, ui, files>>

BugFirstNotMarked == UNCHANGED mIs1stPhotoAlreadyCallbacked

MarkFirst == mIs1stPhotoAlreadyCallbacked' = TRUE

(* The call itself reads the listener again; when the UI thread cleared it *)
(* in between, the exception ends in the FutureTask and nobody is told.    *)
Notify ==
    /\ worker = "notify"
    /\ MarkFirst
    /\ announced' =
           IF mPhotoStoreListener = NoListener THEN announced
           ELSE [announced EXCEPT ![running] =
                     IF mIs1stPhotoAlreadyCallbacked THEN "later" ELSE "first"]
    /\ GoTo("idle")
    /\ monitor' = "free"
    /\ UNCHANGED <<sessionVars, taskVars, listVars, mPhotoStoreListener,
                   execQueue, heap, ui, files>>

-----------------------------------------------------------------------------
UiStep ==
    \/ \E l \in Listener \cup {NoListener} : SetListener(l)
    \/ StartCapturing
    \/ FinishCapturing
    \/ RequestStoreSubmit
    \/ RequestStoreAdd
    \/ RequestStoreFails
    \/ Release

WorkerStep ==
    /\ ui # "crashed"
    /\ \/ Take
       \/ Store
       \/ Finalize
       \/ CheckCallback
       \/ CallCallback
       \/ OnStoreCompleted
       \/ Notify

(* The process is gone, or told to end with its queue drained. *)
Halted ==
    /\ \/ ui = "crashed"
       \/ ui = "terminated" /\ worker = "idle" /\ execQueue = << >>
    /\ UNCHANGED vars

Next == UiStep \/ WorkerStep \/ Halted

(* The worker is a started thread and requestStore() does not block inside *)
(* the monitor; nothing else is promised.                                  *)
Spec == Init /\ [][Next]_vars /\ WF_vars(WorkerStep) /\ WF_vars(RequestStoreAdd)
-----------------------------------------------------------------------------
(* Where each created task is.  Tasks are numbered in creation order and   *)
(* the executor is a FIFO queue, so the queued ones are the youngest.      *)

Queued == {execQueue[i] : i \in 1..Len(execQueue)}

\* Not yet past doStoreYuvByteArrayAsJpegFile() / past doFinalize() /
\* through onStoreCompleted().
Unstored   == Queued \cup (IF worker = "store" THEN {running} ELSE {})
Unfreed    == Queued \cup
                  (IF worker \in {"store", "finalize"} THEN {running} ELSE {})
Unfinished == Queued \cup
                  (IF worker \in {"idle", "notify"} THEN {} ELSE {running})

(* isTaskStackEmpty() tells the truth: whenever the monitor can be taken,  *)
(* the list holds exactly the tasks that still have to complete, although  *)
(* requestStore() submits a task before it lists it and the worker may     *)
(* finish it at once.                                                      *)
StackMirrorsWork ==
    monitor = "free" /\ ui # "terminated" => mSavingTaskList = Unfinished

(* mNativeMemorySize counts the listed tasks, until release() clears the   *)
(* list and leaves the count behind.                                       *)
MemoryAccounting ==
    ui # "terminated" => mNativeMemorySize = Cardinality(mSavingTaskList)

(* The native buffers of a task are there exactly until its doFinalize():  *)
(* the encoder never runs on freed memory, and none of the three buffers   *)
(* outlives its task, also after release().                                *)
BuffersFollowTask ==
    \A t \in Task, b \in Buffers : <<t, b>> \in heap <=> t \in Unfreed

(* No photo replaces another: fopen(path, "wb") never finds the path of an *)
(* earlier photo, across bursts and whatever is still queued.              *)
NoPhotoOverwritten ==
    \A t \in Unstored : targetFilePath[t] \notin files

(* At most one photo per call of startCapturing() is announced as the 1st. *)
OneFirstPerBurst ==
    Cardinality({t \in Task : announced[t] = "first"}) <= bursts

(* Every listed task leaves the list, unless the process dies.             *)
ListedTaskCompletes ==
    \A t \in Task : t \in mSavingTaskList ~>
                        (t \notin mSavingTaskList \/ ui = "crashed")

(* "1st photo.": startCapturing() asks for the first photo of its burst to *)
(* be announced with is1stCapture = TRUE; the photo so announced belongs   *)
(* to the burst startCapturing() last opened.                              *)
FirstPhotoIsOfCurrentBurst ==
    [][\A t \in Task : announced[t] = "no" /\ announced'[t] = "first"
                           => targetFilePath[t][1] = bursts]_vars

-----------------------------------------------------------------------------
(* The inductive invariant: why the properties above hold.                 *)

MonitorInv ==
    /\ monitor = "ui" <=> ui = "add"
    /\ monitor = "worker" <=> worker = "notify"

QueueInv ==
    /\ Len(execQueue) <= created
    /\ \A i \in 1..Len(execQueue) :
           execQueue[i] = created - Len(execQueue) + i
    /\ IF worker = "idle" THEN running = NoTask
       ELSE running \in Task /\ running = created - Len(execQueue)

(* While requestStore() is between submit() and add(), the worker cannot   *)
(* complete the new task.                                                  *)
ListInv ==
    /\ ui = "add" => created \in Unfinished
    /\ mSavingTaskList = CASE ui = "terminated" -> {}
                           [] ui = "add" -> Unfinished \ {created}
                           [] OTHER -> Unfinished

(* Only release() takes the callback away from an unfinished task. *)
CallbackInv ==
    ui # "terminated" => \A t \in Unfinished : mCallback[t]

(* Paths are distinct, and only stored tasks have a file. *)
PathInv ==
    /\ mFilePathPreFix \in {NoPreFix, bursts}
    /\ ui # "crashed" => mCaptureCount <= created
    /\ \A t \in 1..created :
           /\ targetFilePath[t][1] \in 1..bursts
           /\ mFilePathPreFix # NoPreFix /\ targetFilePath[t][1] = bursts
                 => targetFilePath[t][2] <= mCaptureCount
    /\ \A s, t \in 1..created :
           s # t => targetFilePath[s] # targetFilePath[t]
    /\ files \subseteq {targetFilePath[t] : t \in (1..created) \ Unstored}

Inv ==
    /\ TypeOK
    /\ MonitorInv
    /\ QueueInv
    /\ BuffersFollowTask
    /\ ListInv
    /\ CallbackInv
    /\ PathInv

-----------------------------------------------------------------------------
(* The photos as PhotoStore sees them: a task not yet through its store    *)
(* step is pending, and a photo is saved when its path is on the SD card.  *)
PS == INSTANCE PhotoStore WITH
          Photo   <- Task,
          pending <- (IF worker = "store" THEN <<running>> ELSE << >>) \o execQueue,
          saved   <- {t \in (1..created) \ Unstored : targetFilePath[t] \in files},
          handled <- (1..created) \ Unstored,
          alive   <- ui # "crashed"

(* The saving back end implements PhotoStore, fairness included.           *)
ImplementsPhotoStore == PS!Spec
=============================================================================
