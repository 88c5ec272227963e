-------------------- MODULE NativeSavingTaskStack_proofs --------------------
(***************************************************************************)
(* Proofs about NativeSavingTaskStack, for any number of tasks, bursts and *)
(* listeners: the invariant, what it says of the counts, and the           *)
(* refinement of PhotoStore.                                               *)
(***************************************************************************)
EXTENDS NativeSavingTaskStack, SequenceTheorems, FiniteSetTheorems, TLAPS

(* A sequence of consecutive numbers that ends with c holds an interval.   *)
LEMMA ConsecutiveElements ==
    ASSUME NEW q \in Seq(Int), NEW c \in Nat,
           \A i \in 1..Len(q) : q[i] = c - Len(q) + i
    PROVE  {q[i] : i \in 1..Len(q)} = (c - Len(q) + 1)..c
<1> DEFINE S == {q[i] : i \in 1..Len(q)}
<1>0. Len(q) \in Nat
  OBVIOUS
<1>1. ASSUME NEW x \in S PROVE x \in (c - Len(q) + 1)..c
  <2>1. PICK i \in 1..Len(q) : x = q[i]
    OBVIOUS
  <2> QED BY <1>0, <2>1
<1>2. ASSUME NEW x \in (c - Len(q) + 1)..c PROVE x \in S
  <2>1. x - (c - Len(q)) \in 1..Len(q)
    BY <1>0
  <2>2. q[x - (c - Len(q))] = x
    BY <1>0, <2>1
  <2> QED BY <2>1, <2>2
<1> QED BY <1>1, <1>2

(* Where the queued tasks are, under the invariant.                        *)
LEMMA QueuedInterval ==
    ASSUME TypeOK, QueueInv
    PROVE  /\ Len(execQueue) \in Nat
           /\ Queued = (created - Len(execQueue) + 1)..created
<1>1. execQueue \in Seq(Int) /\ created \in Nat
  BY BoundsAssumption DEF TypeOK, Task
<1>2. Len(execQueue) \in Nat
  BY <1>1
<1>3. \A i \in 1..Len(execQueue) : execQueue[i] = created - Len(execQueue) + i
  BY DEF QueueInv
<1>4. {execQueue[i] : i \in 1..Len(execQueue)}
         = (created - Len(execQueue) + 1)..created
  BY <1>1, <1>3, ConsecutiveElements
<1> QED BY <1>2, <1>4 DEF Queued

(* The invariant holds initially.                                          *)
LEMMA InitInv == Init => Inv
<1> SUFFICES ASSUME Init PROVE Inv
  OBVIOUS
<1> USE BoundsAssumption DEF Init, Task, NoTask, NoPreFix
<1>1. TypeOK
  <2>1. execQueue \in Seq(Task)
    OBVIOUS
  <2>2. <<0, 0>> \in Path
    BY DEF Path
  <2>3. targetFilePath \in [Task -> Path]
    BY <2>2
  <2>4. /\ mCallback \in [Task -> BOOLEAN]
        /\ announced \in [Task -> {"no", "first", "later"}]
    OBVIOUS
  <2>5. mIs1stPhotoAlreadyCallbacked \in BOOLEAN
    BY Zenon
  <2> HIDE DEF Task
  <2> QED BY <2>1, <2>3, <2>4, <2>5 DEF TypeOK
<1>2. Queued = {} /\ Unstored = {} /\ Unfreed = {} /\ Unfinished = {}
  BY DEF Queued, Unstored, Unfreed, Unfinished
<1>3. MonitorInv /\ QueueInv /\ CallbackInv /\ ListInv /\ BuffersFollowTask
  BY <1>2 DEF MonitorInv, QueueInv, CallbackInv, ListInv, BuffersFollowTask
<1>4. PathInv
  BY <1>2 DEF PathInv
<1> QED BY <1>1, <1>3, <1>4 DEF Inv

(* Every step keeps the types.                                             *)
LEMMA StepTypeOK ==
    ASSUME Inv, [Next]_vars
    PROVE  TypeOK'
<1> USE BoundsAssumption DEF Task, NoTask, NoPreFix
<1>0. TypeOK /\ PathInv /\ QueueInv
  BY DEF Inv
<1>1. ASSUME NEW l \in Listener \cup {NoListener}, SetListener(l) PROVE TypeOK'
  BY <1>0, <1>1 DEF TypeOK, SetListener, sessionVars, taskVars, listVars, execVars
<1>2. CASE StartCapturing
  <2>1. mIs1stPhotoAlreadyCallbacked' \in BOOLEAN
    BY <1>2, Zenon DEF StartCapturing
  <2> QED BY <1>0, <1>2, <2>1 DEF TypeOK, StartCapturing, taskVars, listVars, execVars
<1>3. CASE FinishCapturing
  BY <1>0, <1>3 DEF TypeOK, FinishCapturing, taskVars, listVars, notifyVars, execVars
<1>4. CASE RequestStoreSubmit
  <2> USE <1>0, <1>4 DEF RequestStoreSubmit, UiEnters, GetNextFilePath
  <2>1. created + 1 \in Task /\ mCaptureCount' \in 0..MaxTasks
    BY DEF TypeOK, PathInv
  <2>2. targetFilePath' \in [Task -> Path]
    BY <2>1 DEF TypeOK, Path
  <2>3. heap' \in SUBSET (Task \X Blocks)
    BY <2>1 DEF TypeOK, Blocks
  <2>4. execQueue' \in Seq(Task)
    BY <2>1, AppendProperties DEF TypeOK, Submit
  <2>5. mCallback' \in [Task -> BOOLEAN]
    BY <2>1 DEF TypeOK, SetOnStoreCompletedListener
  <2> QED BY <2>1, <2>2, <2>3, <2>4, <2>5 DEF TypeOK, listVars, notifyVars
<1>5. CASE RequestStoreAdd
  <2>1. created \in Task
    <3>1. created \in Unfinished
      BY <1>5 DEF Inv, ListInv, RequestStoreAdd
    <3>2. created \in Queued => created # 0
      BY <1>0, QueuedInterval DEF QueueInv, TypeOK
    <3> QED BY <1>0, <3>1, <3>2 DEF Unfinished, QueueInv, TypeOK
  <2> QED BY <1>0, <1>5, <2>1 DEF TypeOK, RequestStoreAdd, sessionVars, taskVars, notifyVars, execVars
<1>6. CASE RequestStoreFails
  BY <1>0, <1>6 DEF TypeOK, PathInv, RequestStoreFails, UiEnters, GetNextFilePath,
                    taskVars, listVars, notifyVars, execVars
<1>7. CASE Release
  BY <1>0, <1>7 DEF TypeOK, Release, sessionVars, execVars
<1>8. CASE Take
  <2>1. execQueue' \in Seq(Task) /\ running' \in Task
    BY <1>0, <1>8, HeadTailProperties DEF TypeOK, Take
  <2> QED BY <1>0, <1>8, <2>1 DEF TypeOK, Take, sessionVars, taskVars, listVars, notifyVars
<1>9. CASE Store
  <2>1. running \in Task
    BY <1>0, <1>9 DEF Store, QueueInv
  <2>2. files' \in SUBSET Path
    BY <1>0, <1>9, <2>1 DEF TypeOK, Store
  <2> QED BY <1>0, <1>9, <2>2 DEF TypeOK, Store, sessionVars, taskVars, listVars, notifyVars
<1>10. CASE Finalize
  BY <1>0, <1>10 DEF TypeOK, Finalize, sessionVars, taskVars, listVars, notifyVars
<1>11. CASE CheckCallback
  BY <1>0, <1>11 DEF TypeOK, CheckCallback, GoTo, sessionVars, taskVars, listVars, notifyVars
<1>12. CASE CallCallback
  BY <1>0, <1>12 DEF TypeOK, CallCallback, GoTo, sessionVars, taskVars, listVars, notifyVars
<1>13. CASE OnStoreCompleted
  <2>1. mNativeMemorySize' \in Int
    BY <1>0, <1>13 DEF TypeOK, OnStoreCompleted
  <2>2. mCallback' \in [Task -> BOOLEAN]
    BY <1>0, <1>13 DEF TypeOK, OnStoreCompleted, SetOnStoreCompletedListener
  <2>3. mSavingTaskList' \in SUBSET Task
    BY <1>0, <1>13 DEF TypeOK, OnStoreCompleted
  <2>4. /\ worker' \in {"idle", "notify"}
        /\ running' \in 0..MaxTasks
        /\ monitor' \in {"free", "ui", "worker"}
    BY <1>0, <1>13 DEF TypeOK, OnStoreCompleted, GoTo
  <2>5. UNCHANGED <<sessionVars, targetFilePath, created, notifyVars, execQueue,
                    heap, ui, files>>
    BY <1>13 DEF OnStoreCompleted
  <2> QED BY <1>0, <2>1, <2>2, <2>3, <2>4, <2>5 DEF TypeOK, sessionVars, notifyVars
<1>14. CASE Notify
  <2>1. mIs1stPhotoAlreadyCallbacked' \in BOOLEAN
    BY <1>14, Zenon DEF Notify, MarkFirst
  <2>2. announced' \in [Task -> {"no", "first", "later"}]
    BY <1>0, <1>14 DEF TypeOK, Notify
  <2>3. worker' = "idle" /\ running' = NoTask /\ monitor' = "free"
    BY <1>14 DEF Notify, GoTo
  <2>4. UNCHANGED <<sessionVars, taskVars, listVars, mPhotoStoreListener,
                    execQueue, heap, ui, files>>
    BY <1>14 DEF Notify
  <2> QED BY <1>0, <2>1, <2>2, <2>3, <2>4 DEF TypeOK, sessionVars, taskVars, listVars
<1>15. CASE UNCHANGED vars
  BY <1>0, <1>15 DEF TypeOK, vars, sessionVars, taskVars, listVars, notifyVars, execVars
<1> QED BY <1>1, <1>2, <1>3, <1>4, <1>5, <1>6, <1>7, <1>8, <1>9, <1>10, <1>11, <1>12, <1>13,
           <1>14, <1>15 DEF Next, UiStep, WorkerStep, Halted

(* How the set of queued tasks moves.                                      *)
LEMMA QueuedSubmit ==
    ASSUME TypeOK, QueueInv, RequestStoreSubmit
    PROVE  /\ QueueInv'
           /\ created' = created + 1
           /\ Queued' = Queued \cup {created + 1}
<1> USE BoundsAssumption DEF Task, NoTask
<1>1. created \in Nat /\ execQueue \in Seq(Int) /\ created + 1 \in Task
  BY DEF TypeOK, RequestStoreSubmit, GetNextFilePath
<1>2. /\ created' = created + 1
      /\ execQueue' = Append(execQueue, created + 1)
      /\ worker' = worker /\ running' = running
  BY DEF RequestStoreSubmit, Submit
<1>3. /\ Len(execQueue) \in Nat
      /\ Len(execQueue') = Len(execQueue) + 1
      /\ \A i \in 1..Len(execQueue) : execQueue'[i] = execQueue[i]
      /\ execQueue'[Len(execQueue) + 1] = created + 1
      /\ execQueue' \in Seq(Int)
  BY <1>1, <1>2, AppendProperties
<1>4. \A i \in 1..Len(execQueue') :
          execQueue'[i] = created' - Len(execQueue') + i
  BY <1>1, <1>2, <1>3 DEF QueueInv
<1>5. QueueInv'
  BY <1>1, <1>2, <1>3, <1>4 DEF QueueInv
<1>6. Queued' = (created' - Len(execQueue') + 1)..created'
  <2>1. created' \in Nat /\ execQueue' \in Seq(Int)
    BY <1>1, <1>2, <1>3
  <2>2. {execQueue'[i] : i \in 1..Len(execQueue')}
           = (created' - Len(execQueue') + 1)..created'
    BY <2>1, <1>4, ConsecutiveElements
  <2> QED BY <2>2 DEF Queued
<1>7. Queued = (created - Len(execQueue) + 1)..created
  BY QueuedInterval
<1>8. Len(execQueue) <= created
  BY DEF QueueInv
<1> QED BY <1>1, <1>2, <1>3, <1>5, <1>6, <1>7, <1>8

LEMMA QueuedTake ==
    ASSUME TypeOK, QueueInv, Take
    PROVE  /\ QueueInv'
           /\ running' \in Queued
           /\ Queued' = Queued \ {running'}
<1> USE BoundsAssumption DEF Task, NoTask
<1>1. created \in Nat /\ execQueue \in Seq(Int)
  BY DEF TypeOK
<1>2. /\ created' = created
      /\ execQueue # << >>
      /\ execQueue' = Tail(execQueue)
      /\ running' = Head(execQueue)
      /\ worker' = "store"
  BY DEF Take, taskVars
<1>3. /\ Len(execQueue) \in Nat \ {0}
      /\ Len(execQueue') = Len(execQueue) - 1
      /\ \A i \in 1..Len(execQueue') : execQueue'[i] = execQueue[i + 1]
      /\ running' = execQueue[1]
      /\ execQueue' \in Seq(Int)
  BY <1>1, <1>2, HeadTailProperties
<1>4. \A i \in 1..Len(execQueue') :
          execQueue'[i] = created' - Len(execQueue') + i
  BY <1>1, <1>2, <1>3 DEF QueueInv
<1>5. running' = created - Len(execQueue) + 1 /\ Len(execQueue) <= created
  BY <1>1, <1>3 DEF QueueInv
<1>6. running' \in Task /\ running' = created' - Len(execQueue')
  BY <1>1, <1>2, <1>3, <1>5 DEF TypeOK
<1>7. QueueInv'
  BY <1>1, <1>2, <1>3, <1>4, <1>6 DEF QueueInv
<1>8. Queued' = (created' - Len(execQueue') + 1)..created'
  <2>1. created' \in Nat /\ execQueue' \in Seq(Int)
    BY <1>1, <1>2, <1>3
  <2>2. {execQueue'[i] : i \in 1..Len(execQueue')}
           = (created' - Len(execQueue') + 1)..created'
    BY <2>1, <1>4, ConsecutiveElements
  <2> QED BY <2>2 DEF Queued
<1>9. Queued = (created - Len(execQueue) + 1)..created
  BY QueuedInterval
<1> QED BY <1>1, <1>2, <1>3, <1>5, <1>7, <1>8, <1>9

(* A worker step after Take stays on its task or leaves it.                *)
LEMMA QueuedSame ==
    ASSUME TypeOK, QueueInv, execQueue' = execQueue, created' = created,
           \/ worker' = worker /\ running' = running
           \/ worker' = "idle" /\ running' = NoTask
           \/ worker # "idle" /\ worker' # "idle" /\ running' = running
    PROVE  QueueInv' /\ Queued' = Queued
BY DEF QueueInv, Queued

(* The running task is none of the queued ones.                            *)
LEMMA RunningNotQueued ==
    ASSUME TypeOK, QueueInv
    PROVE  /\ running \notin Queued
           /\ created + 1 \notin Queued \cup {running}
           /\ Queued \subseteq 1..created
           /\ worker # "idle" => running \in 1..created
BY QueuedInterval, BoundsAssumption DEF TypeOK, QueueInv, NoTask, Task

(* Mutual exclusion: who is inside the monitor is where the threads are.   *)
LEMMA StepMonitorInv ==
    ASSUME Inv, [Next]_vars
    PROVE  MonitorInv'
<1> USE DEF MonitorInv
<1>0. MonitorInv /\ TypeOK
  BY DEF Inv
<1>1. ASSUME NEW l \in Listener \cup {NoListener}, SetListener(l) PROVE MonitorInv'
  BY <1>0, <1>1 DEF SetListener, execVars
<1>2. CASE StartCapturing \/ FinishCapturing \/ RequestStoreFails
  BY <1>0, <1>2 DEF StartCapturing, FinishCapturing, RequestStoreFails, UiEnters,
                    CanLock, execVars
<1>3. CASE RequestStoreSubmit
  BY <1>0, <1>3 DEF RequestStoreSubmit, UiEnters, CanLock
<1>4. CASE RequestStoreAdd
  BY <1>0, <1>4 DEF RequestStoreAdd, execVars
<1>5. CASE Release
  BY <1>0, <1>5 DEF Release, UiEnters, CanLock, execVars
<1>6. CASE Take \/ Store \/ Finalize \/ CheckCallback \/ CallCallback
  BY <1>0, <1>6 DEF Take, Store, Finalize, CheckCallback, CallCallback, GoTo
<1>7. CASE OnStoreCompleted
  BY <1>0, <1>7 DEF OnStoreCompleted, GoTo, CanLock
<1>8. CASE Notify
  BY <1>0, <1>8 DEF Notify, GoTo
<1>9. CASE UNCHANGED vars
  BY <1>0, <1>9 DEF vars, execVars
<1> QED BY <1>1, <1>2, <1>3, <1>4, <1>5, <1>6, <1>7, <1>8, <1>9
        DEF Next, UiStep, WorkerStep, Halted

(* The executor's queue stays in order and ahead of the running task.      *)
LEMMA StepQueueInv ==
    ASSUME Inv, [Next]_vars
    PROVE  /\ QueueInv'
           /\ RequestStoreSubmit \/ Take \/ Queued' = Queued
<1>0. TypeOK /\ QueueInv
  BY DEF Inv
<1>1. ASSUME NEW l \in Listener \cup {NoListener}, SetListener(l)
      PROVE  QueueInv' /\ Queued' = Queued
  BY <1>0, <1>1, QueuedSame DEF SetListener, execVars, taskVars
<1>2. CASE StartCapturing \/ FinishCapturing \/ RequestStoreFails \/ RequestStoreAdd \/ Release
  BY <1>0, <1>2, QueuedSame DEF StartCapturing, FinishCapturing, RequestStoreFails,
           RequestStoreAdd, Release, execVars, taskVars
<1>3. CASE RequestStoreSubmit
  BY <1>0, <1>3, QueuedSubmit
<1>4. CASE Take
  BY <1>0, <1>4, QueuedTake
<1>5. CASE Store \/ Finalize
  BY <1>0, <1>5, QueuedSame DEF Store, Finalize, taskVars
<1>6. CASE CheckCallback \/ CallCallback
  BY <1>0, <1>6, QueuedSame DEF CheckCallback, CallCallback, GoTo, taskVars
<1>7. CASE OnStoreCompleted \/ Notify
  BY <1>0, <1>7, QueuedSame DEF OnStoreCompleted, Notify, GoTo, taskVars
<1>8. CASE UNCHANGED vars
  BY <1>0, <1>8, QueuedSame DEF vars, execVars, taskVars
<1> QED BY <1>1, <1>2, <1>3, <1>4, <1>5, <1>6, <1>7, <1>8
        DEF Next, UiStep, WorkerStep, Halted

(* Buffers appear with their task and go with its doFinalize().            *)
LEMMA StepBuffersFollowTask ==
    ASSUME Inv, [Next]_vars
    PROVE  BuffersFollowTask'
<1>0. /\ TypeOK /\ QueueInv /\ BuffersFollowTask
      /\ running \notin Queued /\ created + 1 \notin Queued \cup {running}
      /\ RequestStoreSubmit \/ Take \/ Queued' = Queued
  BY RunningNotQueued, StepQueueInv DEF Inv
<1>1. CASE UNCHANGED <<execVars, heap>>
  <2>1. Unfreed' = Unfreed
    BY <1>1 DEF execVars, Unfreed, Queued
  <2> QED BY <1>0, <1>1, <2>1 DEF BuffersFollowTask
<1>2. CASE RequestStoreSubmit
  <2>1. Unfreed' = Unfreed \cup {created + 1}
    BY <1>0, <1>2, QueuedSubmit DEF Unfreed, RequestStoreSubmit
  <2>2. heap' = heap \cup ({created + 1} \X Blocks)
    BY <1>2 DEF RequestStoreSubmit
  <2> QED BY <1>0, <2>1, <2>2 DEF BuffersFollowTask, Blocks
<1>3. CASE Take
  <2>1. worker = "idle" /\ worker' = "store" /\ heap' = heap
    BY <1>3 DEF Take
  <2>2. Unfreed' = Unfreed
    BY <1>0, <1>3, <2>1, QueuedTake DEF Unfreed
  <2> QED BY <1>0, <2>1, <2>2 DEF BuffersFollowTask
<1>4. CASE Store
  <2>1. Unfreed' = Unfreed /\ heap' = heap
    BY <1>0, <1>4 DEF Unfreed, Store, Queued
  <2> QED BY <1>0, <2>1 DEF BuffersFollowTask
<1>5. CASE Finalize
  <2>1. Unfreed' = Unfreed \ {running}
    BY <1>0, <1>5 DEF Unfreed, Finalize, Queued
  <2>2. heap' = heap \ ({running} \X Buffers)
    BY <1>5 DEF Finalize, FreedBlocks
  <2> QED BY <1>0, <2>1, <2>2 DEF BuffersFollowTask
<1>6. CASE CheckCallback \/ CallCallback \/ OnStoreCompleted \/ Notify
  <2>1. Queued' = Queued /\ heap' = heap
    BY <1>6 DEF CheckCallback, CallCallback, OnStoreCompleted, Notify, Queued
  <2>2. Unfreed' = Unfreed
    BY <1>6, <2>1 DEF Unfreed, CheckCallback, CallCallback, OnStoreCompleted,
                      Notify, GoTo
  <2> QED BY <1>0, <2>1, <2>2 DEF BuffersFollowTask
<1> QED BY <1>1, <1>2, <1>3, <1>4, <1>5, <1>6
        DEF Next, UiStep, WorkerStep, Halted, SetListener, StartCapturing, FinishCapturing,
            RequestStoreAdd, RequestStoreFails, Release, vars

(* The list follows the unfinished tasks, and a task keeps its callback    *)
(* until it is finished or release() takes it.                             *)
LEMMA StepListInv ==
    ASSUME Inv, [Next]_vars
    PROVE  ListInv' /\ CallbackInv'
<1>0. /\ TypeOK /\ QueueInv /\ MonitorInv /\ ListInv /\ CallbackInv
      /\ running \notin Queued /\ created + 1 \notin Queued \cup {running}
      /\ worker # "idle" => running \in Task
      /\ RequestStoreSubmit \/ Take \/ Queued' = Queued
  BY RunningNotQueued, StepQueueInv DEF Inv, QueueInv
<1> USE <1>0
<1>1. CASE UNCHANGED <<execVars, mSavingTaskList, taskVars>> /\ UNCHANGED ui
  <2>1. Unfinished' = Unfinished
    BY <1>1 DEF execVars, Unfinished, Queued
  <2> QED BY <1>1, <2>1 DEF ListInv, CallbackInv, taskVars
<1>2. CASE RequestStoreSubmit
  <2>1. /\ ui = "idle" /\ ui' = "add"
        /\ mSavingTaskList' = mSavingTaskList
        /\ worker' = worker /\ running' = running
        /\ created + 1 \in Task
        /\ mCallback' = [mCallback EXCEPT ![created + 1] = TRUE]
    BY <1>2, BoundsAssumption DEF RequestStoreSubmit, UiEnters, listVars, Task, TypeOK,
             GetNextFilePath, SetOnStoreCompletedListener
  <2>2. /\ created' = created + 1
        /\ Queued' = Queued \cup {created + 1}
    BY <1>2, QueuedSubmit
  <2>3. Unfinished' = Unfinished \cup {created + 1}
    BY <2>1, <2>2 DEF Unfinished
  <2>4. created + 1 \notin Unfinished
    BY DEF Unfinished
  <2>5. ListInv'
    BY <2>1, <2>2, <2>3, <2>4 DEF ListInv
  <2>6. CallbackInv'
    BY <2>1, <2>3 DEF CallbackInv, TypeOK
  <2> QED BY <2>5, <2>6
<1>3. CASE RequestStoreAdd
  <2>1. Unfinished' = Unfinished
    BY <1>3 DEF RequestStoreAdd, execVars, Unfinished, Queued
  <2> QED BY <1>3, <2>1 DEF RequestStoreAdd, taskVars, ListInv, CallbackInv
<1>4. CASE RequestStoreFails
  <2>1. Unfinished' = Unfinished
    BY <1>4 DEF RequestStoreFails, execVars, Unfinished, Queued
  <2> QED BY <1>4, <2>1 DEF RequestStoreFails, UiEnters, taskVars, listVars, ListInv, CallbackInv
<1>5. CASE Release
  BY <1>5 DEF Release, ListInv, CallbackInv
<1>6. CASE Take
  <2>1. Queued' = Queued \ {running'} /\ running' \in Queued
    BY <1>6, QueuedTake
  <2>2. Unfinished' = Unfinished
    BY <1>6, <2>1 DEF Take, Unfinished
  <2> QED BY <1>6, <2>2 DEF Take, taskVars, listVars, ListInv, CallbackInv
<1>7. CASE Store \/ Finalize
  <2>1. Queued' = Queued
    BY <1>7 DEF Store, Finalize, Queued
  <2>2. Unfinished' = Unfinished
    BY <1>7, <2>1 DEF Store, Finalize, Unfinished
  <2> QED BY <1>7, <2>2 DEF Store, Finalize, taskVars, listVars, ListInv, CallbackInv
<1>8. CASE CheckCallback \/ CallCallback
  <2>1. /\ UNCHANGED <<Queued, mSavingTaskList, mCallback, created, ui>>
        /\ worker \in {"check", "call"}
        /\ IF mCallback[running]
             THEN worker' \in {"call", "completed"} /\ running' = running
             ELSE worker' = "idle"
    BY <1>8 DEF CheckCallback, CallCallback, GoTo, taskVars, listVars, Queued
  <2>2. CASE mCallback[running]
    <3>1. Unfinished' = Unfinished
      BY <2>1, <2>2 DEF Unfinished
    <3> QED BY <2>1, <3>1 DEF ListInv, CallbackInv
  <2>3. CASE ~mCallback[running]
    <3>1. ui = "terminated"
      BY <2>1, <2>3 DEF CallbackInv, Unfinished
    <3> QED BY <2>1, <3>1 DEF ListInv, CallbackInv
  <2> QED BY <2>2, <2>3
<1>9. CASE OnStoreCompleted
  <2>1. /\ UNCHANGED <<Queued, created, ui>>
        /\ worker = "completed" /\ ui # "add"
        /\ worker' \in {"idle", "notify"}
        /\ mSavingTaskList' = mSavingTaskList \ {running}
        /\ mCallback' = [mCallback EXCEPT ![running] = FALSE]
    BY <1>9 DEF OnStoreCompleted, GoTo, Queued, CanLock, MonitorInv,
                SetOnStoreCompletedListener
  <2>2. Unfinished = Queued \cup {running} /\ Unfinished' = Queued
    BY <2>1 DEF Unfinished
  <2>3. ListInv'
    BY <2>1, <2>2 DEF ListInv
  <2>4. CallbackInv'
    BY <2>1, <2>2 DEF CallbackInv, TypeOK
  <2> QED BY <2>3, <2>4
<1>10. CASE Notify
  <2>1. /\ UNCHANGED <<Queued, created, ui, mSavingTaskList, mCallback>>
        /\ worker = "notify" /\ worker' = "idle"
    BY <1>10 DEF Notify, GoTo, taskVars, listVars, Queued
  <2>2. Unfinished' = Unfinished
    BY <2>1 DEF Unfinished
  <2> QED BY <2>1, <2>2 DEF ListInv, CallbackInv
<1> QED BY <1>1, <1>2, <1>3, <1>4, <1>5, <1>6, <1>7, <1>8, <1>9, <1>10
        DEF Next, UiStep, WorkerStep, Halted, SetListener, StartCapturing, FinishCapturing,
            vars, listVars

(* Paths stay distinct, and a file is only ever that of a stored task.     *)
LEMMA StepPathInv ==
    ASSUME Inv, [Next]_vars
    PROVE  PathInv'
<1>0. /\ TypeOK /\ QueueInv /\ PathInv
      /\ running \notin Queued /\ created + 1 \notin Queued \cup {running}
      /\ Queued \subseteq 1..created
      /\ worker # "idle" => running \in 1..created
      /\ RequestStoreSubmit \/ Take \/ Queued' = Queued
  BY RunningNotQueued, StepQueueInv DEF Inv
<1>a. \A t \in 1..created : targetFilePath[t][2] \in Nat
  <2>1. 1..created \subseteq Task
    BY <1>0, BoundsAssumption DEF TypeOK, Task
  <2>2. \A t \in Task : targetFilePath[t] \in (0..MaxBursts) \X (0..MaxTasks)
    BY <1>0 DEF TypeOK, Path
  <2> QED BY <2>1, <2>2, BoundsAssumption
<1> USE <1>0, <1>a, BoundsAssumption DEF NoPreFix
<1>1. CASE UNCHANGED <<execVars, targetFilePath, created, sessionVars, files>> /\ (ui = "crashed" => ui' = "crashed")
  <2>1. Unstored' = Unstored
    BY <1>1 DEF execVars, Unstored, Queued
  <2> QED BY <1>1, <2>1 DEF PathInv, sessionVars
<1>2. CASE StartCapturing \/ FinishCapturing
  <2>1. Unstored' = Unstored
    BY <1>2 DEF StartCapturing, FinishCapturing, execVars, Unstored, Queued
  <2> QED BY <1>2, <2>1 DEF StartCapturing, FinishCapturing, PathInv, taskVars, TypeOK
<1>3. CASE RequestStoreSubmit
  <2>1. /\ created' = created + 1 /\ created + 1 \in Task
        /\ mFilePathPreFix # 0 /\ mFilePathPreFix = bursts
        /\ UNCHANGED <<mFilePathPreFix, bursts, files, worker, running>>
        /\ mCaptureCount <= created
        /\ mCaptureCount' = mCaptureCount + 1
        /\ targetFilePath' =
              [targetFilePath EXCEPT ![created + 1] = <<bursts, mCaptureCount + 1>>]
    <3>1. ui = "idle" /\ mFilePathPreFix # 0 /\ created < MaxTasks
      BY <1>3 DEF RequestStoreSubmit, UiEnters, GetNextFilePath
    <3>2. mFilePathPreFix = bursts /\ mCaptureCount <= created
      BY <3>1 DEF PathInv
    <3>3. created' = created + 1 /\ created + 1 \in Task
      BY <1>3, <3>1 DEF RequestStoreSubmit, TypeOK, Task
    <3> QED BY <1>3, <3>1, <3>2, <3>3 DEF RequestStoreSubmit, GetNextFilePath
  <2>2. Unstored' = Unstored \cup {created + 1}
    BY <1>3, <2>1, QueuedSubmit DEF Unstored
  <2>3. targetFilePath'[created + 1] = <<bursts, mCaptureCount + 1>>
    BY <2>1 DEF TypeOK
  <2>4. \A t \in 1..created : targetFilePath'[t] = targetFilePath[t]
    BY <2>1 DEF TypeOK, Task
  <2>5. \A t \in 1..created : targetFilePath[t] # <<bursts, mCaptureCount + 1>>
    BY <2>1 DEF PathInv, TypeOK
  <2>6. (1..created') \ Unstored' = (1..created) \ Unstored
    BY <2>1, <2>2 DEF TypeOK
  <2>7. files' \subseteq {targetFilePath'[t] : t \in (1..created') \ Unstored'}
    BY <2>1, <2>4, <2>6 DEF PathInv
  <2>8. \A s, t \in 1..created' : s # t => targetFilePath'[s] # targetFilePath'[t]
    BY <2>1, <2>3, <2>4, <2>5 DEF PathInv, TypeOK
  <2>9. \A t \in 1..created' :
           /\ targetFilePath'[t][1] \in 1..bursts'
           /\ targetFilePath'[t][1] = bursts' => targetFilePath'[t][2] <= mCaptureCount'
    <3>1. bursts \in Nat /\ mCaptureCount \in Nat /\ created \in Nat /\ bursts # 0
      BY <2>1 DEF TypeOK
    <3>2. \A t \in 1..created :
             /\ targetFilePath[t][1] \in 1..bursts
             /\ targetFilePath[t][2] \in Nat
             /\ targetFilePath[t][1] = bursts => targetFilePath[t][2] <= mCaptureCount
      BY <2>1 DEF PathInv
    <3>3. ASSUME NEW t \in 1..created'
          PROVE  /\ targetFilePath'[t][1] \in 1..bursts'
                 /\ targetFilePath'[t][1] = bursts'
                       => targetFilePath'[t][2] <= mCaptureCount'
      <4>1. CASE t = created + 1
        BY <2>1, <2>3, <3>1, <4>1
      <4>2. CASE t \in 1..created
        BY <2>1, <2>4, <3>1, <3>2, <4>2
      <4> QED BY <2>1, <3>1, <4>1, <4>2
    <3> QED BY <3>3
  <2>10. mFilePathPreFix' \in {0, bursts'} /\ mCaptureCount' <= created'
    BY <2>1 DEF TypeOK
  <2> QED BY <2>7, <2>8, <2>9, <2>10 DEF PathInv
<1>4. CASE RequestStoreFails
  <2>1. Unstored' = Unstored
    BY <1>4 DEF RequestStoreFails, execVars, Unstored, Queued
  <2> QED BY <1>4, <2>1 DEF RequestStoreFails, GetNextFilePath, PathInv, taskVars, TypeOK
<1>5. CASE Take
  <2>1. Queued' = Queued \ {running'} /\ running' \in Queued
    BY <1>5, QueuedTake
  <2>2. Unstored' = Unstored
    BY <1>5, <2>1 DEF Take, Unstored
  <2> QED BY <1>5, <2>2 DEF Take, PathInv, taskVars, sessionVars
<1>6. CASE Store
  <2>1. /\ UNCHANGED <<taskVars, sessionVars, ui>>
        /\ files' \subseteq files \cup {targetFilePath[running]}
        /\ running \in 1..created
    BY <1>6 DEF Store
  <2>2. (1..created) \ Unstored' = ((1..created) \ Unstored) \cup {running}
    BY <1>6 DEF Store, Unstored, Queued
  <2> QED BY <2>1, <2>2 DEF PathInv, taskVars, sessionVars
<1>7. CASE Finalize \/ CheckCallback \/ CallCallback \/ OnStoreCompleted \/ Notify
  <2>1. UNCHANGED <<Queued, created, targetFilePath, sessionVars, files, ui>>
    BY <1>7 DEF Finalize, CheckCallback, CallCallback, OnStoreCompleted, Notify,
                Queued, taskVars
  <2>2. Unstored' = Unstored
    BY <1>7, <2>1 DEF Finalize, CheckCallback, CallCallback, OnStoreCompleted, Notify,
                      GoTo, Unstored
  <2> QED BY <2>1, <2>2 DEF PathInv, sessionVars
<1>8. ASSUME NEW l \in Listener \cup {NoListener}, SetListener(l) PROVE PathInv'
  BY <1>1, <1>8 DEF SetListener, taskVars
<1>9. CASE RequestStoreAdd \/ Release
  BY <1>1, <1>9 DEF RequestStoreAdd, Release, UiEnters, taskVars
<1>10. CASE UNCHANGED vars
  BY <1>1, <1>10 DEF vars, taskVars
<1> QED BY <1>2, <1>3, <1>4, <1>5, <1>6, <1>7, <1>8, <1>9, <1>10
        DEF Next, UiStep, WorkerStep, Halted

-----------------------------------------------------------------------------
(* The inductive invariant holds in every reachable state.                 *)
THEOREM InvHolds == Spec => []Inv
<1>1. Inv /\ [Next]_vars => Inv'
  BY StepTypeOK, StepMonitorInv, StepQueueInv, StepBuffersFollowTask,
     StepListInv, StepPathInv DEF Inv
<1> QED BY InitInv, <1>1, PTL DEF Spec

(* Every variable of the saving back end keeps its type, in particular no  *)
(* capture count exceeds the frames handed over.                           *)
THEOREM TypesCorrect == Spec => []TypeOK
<1>1. Inv => TypeOK
  BY DEF Inv
<1> QED BY InvHolds, <1>1, PTL

(* isTaskStackEmpty() never misses a task that still has to complete and   *)
(* never counts one that has, whatever the worker does between submit()    *)
(* and add() of requestStore().                                            *)
THEOREM StackIsExact == Spec => []StackMirrorsWork
<1>1. Inv => StackMirrorsWork
  BY DEF Inv, MonitorInv, ListInv, StackMirrorsWork
<1> QED BY InvHolds, <1>1, PTL

(* The encoder never runs on freed buffers, and no buffer outlives the     *)
(* doFinalize() of its task.                                               *)
THEOREM BuffersAreSafe == Spec => []BuffersFollowTask
<1>1. Inv => BuffersFollowTask
  BY DEF Inv
<1> QED BY InvHolds, <1>1, PTL

(* A photo about to be written never has the path of a photo on the card.  *)
THEOREM PhotosAreKept == Spec => []NoPhotoOverwritten
<1>1. ASSUME Inv PROVE NoPhotoOverwritten
  <2>1. /\ Unstored \subseteq 1..created
        /\ \A s, t \in 1..created :
              s # t => targetFilePath[s] # targetFilePath[t]
        /\ files \subseteq {targetFilePath[t] : t \in (1..created) \ Unstored}
    BY <1>1, RunningNotQueued DEF Inv, PathInv, Unstored
  <2> QED BY <2>1 DEF NoPhotoOverwritten
<1> QED BY InvHolds, <1>1, PTL

-----------------------------------------------------------------------------
(* What the invariant says of the counts: the memory of the listed tasks   *)
(* and the first photos.                                                   *)

(* Every set of tasks is finite.                                           *)
LEMMA TaskSetsFinite ==
    ASSUME NEW S \in SUBSET Task
    PROVE  IsFiniteSet(S) /\ Cardinality(S) \in Nat
<1>1. IsFiniteSet(Task)
  BY FS_Interval, BoundsAssumption DEF Task
<1>2. IsFiniteSet(S)
  BY <1>1, FS_Subset
<1> QED BY <1>2, FS_CardinalityType

(* The task that requestStore() adds is not listed yet, and the task that  *)
(* onStoreCompleted() removes is, so each changes the count by one.        *)
LEMMA StepMemoryAccounting ==
    ASSUME Inv, MemoryAccounting, [Next]_vars
    PROVE  MemoryAccounting'
<1>0. TypeOK /\ MonitorInv /\ QueueInv /\ ListInv
  BY DEF Inv
<1>1. /\ mSavingTaskList \in SUBSET Task /\ mNativeMemorySize \in Int
      /\ IsFiniteSet(mSavingTaskList) /\ Cardinality(mSavingTaskList) \in Nat
  BY <1>0, TaskSetsFinite DEF TypeOK
<1>2. CASE UNCHANGED listVars /\ (ui = "terminated" => ui' = "terminated")
  BY <1>2 DEF MemoryAccounting, listVars
<1>3. CASE RequestStoreAdd
  <2>1. ui = "add" /\ created \notin mSavingTaskList
    BY <1>0, <1>3 DEF RequestStoreAdd, ListInv
  <2>2. /\ mSavingTaskList' = mSavingTaskList \cup {created}
        /\ mNativeMemorySize' = mNativeMemorySize + 1
    BY <1>3 DEF RequestStoreAdd
  <2>3. Cardinality(mSavingTaskList') = Cardinality(mSavingTaskList) + 1
    BY <1>1, <2>1, <2>2, FS_AddElement
  <2> QED BY <2>1, <2>2, <2>3 DEF MemoryAccounting
<1>4. CASE Release
  BY <1>4 DEF Release, MemoryAccounting
<1>5. CASE OnStoreCompleted
  <2>1. /\ mSavingTaskList' = mSavingTaskList \ {running}
        /\ mNativeMemorySize' = mNativeMemorySize - 1
        /\ ui' = ui /\ ui # "add" /\ running \in Unfinished
    BY <1>0, <1>5 DEF OnStoreCompleted, CanLock, MonitorInv, Unfinished
  <2>2. CASE ui = "terminated"
    BY <2>1, <2>2 DEF MemoryAccounting
  <2>3. CASE ui # "terminated"
    <3>1. running \in mSavingTaskList
      BY <1>0, <2>1, <2>3 DEF ListInv
    <3>2. Cardinality(mSavingTaskList') = Cardinality(mSavingTaskList) - 1
      BY <1>1, <2>1, <3>1, FS_RemoveElement
    <3> QED BY <2>1, <2>3, <3>2 DEF MemoryAccounting
  <2> QED BY <2>2, <2>3
<1> QED BY <1>2, <1>3, <1>4, <1>5
        DEF Next, UiStep, WorkerStep, Halted, SetListener, StartCapturing, FinishCapturing,
            RequestStoreSubmit, UiEnters, RequestStoreFails, Take, Store, Finalize, CheckCallback,
            CallCallback, Notify, vars

(* The photos announced as the first of a burst.                           *)
FirstPhotos == {t \in Task : announced[t] = "first"}

(* There are at most as many as bursts, and one less while the flag of the *)
(* burst under way is not set.                                             *)
FirstInv ==
    /\ Cardinality(FirstPhotos) <= bursts
    /\ bursts # 0 /\ ~mIs1stPhotoAlreadyCallbacked => Cardinality(FirstPhotos) < bursts

LEMMA InitFirstInv == Init => FirstInv
<1> SUFFICES ASSUME Init PROVE FirstInv
  OBVIOUS
<1>1. FirstPhotos = {} /\ bursts = 0
  BY DEF Init, FirstPhotos
<1>2. Cardinality(FirstPhotos) = 0
  BY <1>1, FS_EmptySet
<1> QED BY <1>1, <1>2 DEF FirstInv

(* startCapturing() opens a burst with the flag cleared; only the first    *)
(* photo announced while it is cleared counts, and that photo sets it.     *)
LEMMA StepFirstInv ==
    ASSUME Inv, FirstInv, [Next]_vars
    PROVE  FirstInv'
<1>0. /\ TypeOK /\ bursts \in Nat
      /\ FirstPhotos \in SUBSET Task
      /\ IsFiniteSet(FirstPhotos) /\ Cardinality(FirstPhotos) \in Nat
  BY TaskSetsFinite, BoundsAssumption DEF Inv, TypeOK, FirstPhotos
<1>1. CASE UNCHANGED <<bursts, mIs1stPhotoAlreadyCallbacked, announced>>
  BY <1>1 DEF FirstInv, FirstPhotos
<1>2. CASE StartCapturing
  <2>1. bursts' = bursts + 1 /\ announced' = announced
    BY <1>2 DEF StartCapturing
  <2>2. FirstPhotos' = FirstPhotos
    BY <2>1 DEF FirstPhotos
  <2>3. Cardinality(FirstPhotos') < bursts'
    BY <1>0, <2>1, <2>2 DEF FirstInv
  <2> QED BY <1>0, <2>1, <2>2, <2>3 DEF FirstInv
<1>3. CASE Notify
  <2>1. mIs1stPhotoAlreadyCallbacked' /\ bursts' = bursts
    BY <1>3 DEF Notify, MarkFirst, sessionVars
  <2>2. /\ announced \in [Task -> {"no", "first", "later"}]
        /\ running \in 1..created
    BY <1>0, <1>3, RunningNotQueued DEF Notify, Inv, TypeOK
  <2>3. bursts # 0
    BY <1>0, <2>2 DEF Inv, PathInv
  <2>4. CASE mIs1stPhotoAlreadyCallbacked \/ mPhotoStoreListener = NoListener
    <3>1. FirstPhotos' \in SUBSET FirstPhotos
      BY <1>3, <2>2, <2>4 DEF Notify, FirstPhotos
    <3>2. Cardinality(FirstPhotos') <= Cardinality(FirstPhotos) /\ Cardinality(FirstPhotos') \in Nat
      BY <1>0, <3>1, FS_Subset, FS_CardinalityType
    <3> QED BY <1>0, <2>1, <3>2 DEF FirstInv
  <2>5. CASE ~mIs1stPhotoAlreadyCallbacked /\ mPhotoStoreListener # NoListener
    <3>1. FirstPhotos' \in SUBSET (FirstPhotos \cup {running})
      BY <1>3, <2>2, <2>5 DEF Notify, FirstPhotos
    <3>2. /\ IsFiniteSet(FirstPhotos \cup {running})
          /\ Cardinality(FirstPhotos \cup {running}) <= Cardinality(FirstPhotos) + 1
          /\ Cardinality(FirstPhotos \cup {running}) \in Nat
      <4>1. /\ IsFiniteSet(FirstPhotos \cup {running})
            /\ Cardinality(FirstPhotos \cup {running})
                 = IF running \in FirstPhotos THEN Cardinality(FirstPhotos)
                   ELSE Cardinality(FirstPhotos) + 1
        BY <1>0, FS_AddElement, Zenon
      <4> QED BY <1>0, <4>1
    <3>3. /\ Cardinality(FirstPhotos') <= Cardinality(FirstPhotos \cup {running})
          /\ Cardinality(FirstPhotos') \in Nat
      BY <3>1, <3>2, FS_Subset, FS_CardinalityType
    <3>4. Cardinality(FirstPhotos) < bursts
      BY <2>3, <2>5 DEF FirstInv
    <3> QED BY <1>0, <2>1, <3>2, <3>3, <3>4 DEF FirstInv
  <2> QED BY <2>4, <2>5
<1> QED BY <1>1, <1>2, <1>3
        DEF Next, UiStep, WorkerStep, Halted, SetListener, FinishCapturing, RequestStoreSubmit,
            RequestStoreAdd, RequestStoreFails, Release, Take, Store, Finalize, CheckCallback,
            CallCallback, OnStoreCompleted, sessionVars, notifyVars, vars

-----------------------------------------------------------------------------
(* mNativeMemorySize is the memory of the listed tasks: isTaskStackFull()  *)
(* and the next burst never see memory of a task that is gone.             *)
THEOREM MemoryIsAccounted == Spec => []MemoryAccounting
<1>1. Init => MemoryAccounting
  BY FS_EmptySet DEF Init, MemoryAccounting
<1>2. Inv /\ MemoryAccounting /\ [Next]_vars => MemoryAccounting'
  BY StepMemoryAccounting
<1> QED BY <1>1, <1>2, InvHolds, PTL DEF Spec

(* No burst has two first photos: as many are announced as there were      *)
(* calls of startCapturing(), at most.                                     *)
THEOREM FirstPhotosBounded == Spec => []OneFirstPerBurst
<1>1. Inv /\ FirstInv /\ [Next]_vars => FirstInv'
  BY StepFirstInv
<1>2. FirstInv => OneFirstPerBurst
  BY DEF FirstInv, FirstPhotos, OneFirstPerBurst
<1> QED BY <1>1, <1>2, InitFirstInv, InvHolds, PTL DEF Spec

-----------------------------------------------------------------------------
(* NativeSavingTaskStack implements PhotoStore, apart from the fairness:   *)
(* its initial states are initial states of PhotoStore, and each step is a *)
(* step of PhotoStore or leaves it as it is.                               *)

(* The photos as PhotoStore sees them (PS of NativeSavingTaskStack).       *)
Front == IF worker = "store" THEN <<running>> ELSE << >>
Pending == Front \o execQueue
Done == (1..created) \ Unstored
Saved == {t \in Done : targetFilePath[t] \in files}

(* Where the waiting photos are, under the invariant.                      *)
LEMMA Positions ==
    ASSUME Inv
    PROVE  /\ Pending \in Seq(Task)
           /\ PS!Elements(Pending) = Unstored
           /\ Unstored \subseteq 1..created
           /\ created \in Nat
<1>0. TypeOK /\ QueueInv /\ created \in Nat
  BY BoundsAssumption DEF Inv, TypeOK
<1>1. execQueue \in Seq(Task) /\ (worker = "store" => running \in Task)
  BY <1>0 DEF TypeOK, QueueInv
<1>2. Unstored \subseteq 1..created
  BY <1>0, RunningNotQueued DEF Unstored
<1>3. CASE worker = "store"
  <2>1. /\ Pending \in Seq(Task)
        /\ Len(Pending) = 1 + Len(execQueue)
        /\ Pending[1] = running
        /\ \A i \in 1..Len(execQueue) : Pending[i + 1] = execQueue[i]
        /\ Len(execQueue) \in Nat
    BY <1>1, <1>3 DEF Pending, Front
  <2>2. \A i \in 2..Len(Pending) : i - 1 \in 1..Len(execQueue) /\ Pending[i] = execQueue[i - 1]
    BY <2>1
  <2>3. PS!Elements(Pending) = Queued \cup {running}
    <3>1. ASSUME NEW x \in Queued PROVE x \in PS!Elements(Pending)
      <4>1. PICK i \in 1..Len(execQueue) : x = execQueue[i]
        BY DEF Queued
      <4>2. i + 1 \in 1..Len(Pending) /\ x = Pending[i + 1]
        BY <2>1, <4>1
      <4> QED BY <4>2 DEF PS!Elements
    <3>2. running \in PS!Elements(Pending)
      BY <2>1 DEF PS!Elements
    <3>3. ASSUME NEW x \in PS!Elements(Pending) PROVE x \in Queued \cup {running}
      <4>1. PICK i \in 1..Len(Pending) : x = Pending[i]
        BY DEF PS!Elements
      <4>2. i = 1 \/ i \in 2..Len(Pending)
        BY <2>1
      <4> QED BY <2>1, <2>2, <4>1, <4>2 DEF Queued
    <3> QED BY <3>1, <3>2, <3>3
  <2> QED BY <1>0, <1>2, <1>3, <2>1, <2>3 DEF Unstored
<1>4. CASE worker # "store"
  <2>1. Pending = execQueue
    BY <1>1, <1>4 DEF Pending, Front
  <2> QED BY <1>0, <1>1, <1>2, <1>4, <2>1 DEF Unstored, PS!Elements, Queued
<1> QED BY <1>3, <1>4

(* A step that leaves the queue, the store step and the paths as they are  *)
(* and neither kills nor revives the process is not seen.                  *)
LEMMA Unseen ==
    ASSUME UNCHANGED <<execQueue, targetFilePath, created, files>>,
           \/ worker' = worker /\ running' = running
           \/ worker # "store" /\ worker' # "store",
           ui' = "crashed" <=> ui = "crashed"
    PROVE  UNCHANGED PS!vars
<1>1. Unstored' = Unstored /\ Pending' = Pending
  BY DEF Unstored, Queued, Pending, Front
<1>2. Done' = Done /\ Saved' = Saved
  BY <1>1 DEF Done, Saved
<1>3. (ui # "crashed")' = (ui # "crashed")
  OBVIOUS
<1> QED BY <1>1, <1>2, <1>3 DEF PS!vars, Pending, Front, Saved, Done

(* requestStore() accepts a photo when it submits the task.                *)
LEMMA SubmitAccepts ==
    ASSUME Inv, RequestStoreSubmit
    PROVE  PS!Accept(created + 1) /\ created + 1 \in Task
<1>0. TypeOK /\ QueueInv /\ created \in Nat
  BY BoundsAssumption DEF Inv, TypeOK
<1>1. /\ created' = created + 1 /\ created + 1 \in Task
      /\ UNCHANGED <<files, worker, running>>
      /\ ui = "idle" /\ ui' = "add"
      /\ execQueue' = Append(execQueue, created + 1)
      /\ \A t \in 1..created : targetFilePath'[t] = targetFilePath[t]
  <2>1. /\ created' = created + 1 /\ created < MaxTasks
        /\ UNCHANGED <<files, worker, running>>
        /\ ui = "idle" /\ ui' = "add"
        /\ execQueue' = Append(execQueue, created + 1)
    BY DEF RequestStoreSubmit, UiEnters, GetNextFilePath, Submit
  <2>2. created + 1 \in Task
    BY <1>0, <2>1, BoundsAssumption DEF Task
  <2>3. targetFilePath' = [targetFilePath EXCEPT ![created + 1] = <<mFilePathPreFix, mCaptureCount'>>]
    BY DEF RequestStoreSubmit
  <2>4. \A t \in 1..created : t \in Task /\ t # created + 1
    BY <1>0, <2>2, BoundsAssumption DEF Task
  <2>5. \A t \in 1..created : targetFilePath'[t] = targetFilePath[t]
    BY <1>0, <2>3, <2>4 DEF TypeOK
  <2> QED BY <2>1, <2>2, <2>5
<1>2. Unstored' = Unstored \cup {created + 1}
  BY <1>0, <1>1, QueuedSubmit DEF Unstored
<1>3. Done' = Done
  BY <1>0, <1>1, <1>2 DEF Done
<1>4. Done \subseteq 1..created
  BY DEF Done
<1>5. Saved' = Saved
  BY <1>1, <1>3, <1>4 DEF Saved
<1>6. created + 1 \notin Done \cup PS!Elements(Pending)
  BY <1>0, <1>4, Positions
<1>7. Pending' = Append(Pending, created + 1)
  <2>1. /\ execQueue \in Seq(Task) /\ Front' = Front
        /\ worker = "store" => running \in Task
        /\ Pending' = Front \o Append(execQueue, created + 1)
    BY <1>0, <1>1 DEF TypeOK, QueueInv, Pending, Front
  <2>2. Front \in Seq(Task)
    BY <2>1 DEF Front
  <2> HIDE DEF Front
  <2>3. Front \o Append(execQueue, created + 1) = Append(Front \o execQueue, created + 1)
    BY <1>1, <2>1, <2>2
  <2> QED BY <2>1, <2>3 DEF Pending
<1> QED BY <1>1, <1>3, <1>5, <1>6, <1>7 DEF PS!Accept, Pending, Front, Saved, Done

(* The worker's store step handles the oldest photo; as no two photos have *)
(* one path, it saves that photo or none.                                  *)
LEMMA StoreHandles ==
    ASSUME Inv, ui # "crashed", Store
    PROVE  PS!Handle
<1>0. TypeOK /\ QueueInv /\ PathInv /\ created \in Nat
  BY BoundsAssumption DEF Inv, TypeOK
<1>1. /\ worker = "store" /\ worker' = "finalize"
      /\ UNCHANGED <<execQueue, running, created, targetFilePath, ui>>
      /\ files' = files \/ files' = files \cup {targetFilePath[running]}
  BY DEF Store, taskVars
<1>2. /\ running \in 1..created /\ running \in Task /\ running \notin Queued
      /\ execQueue \in Seq(Task)
  BY <1>0, <1>1, RunningNotQueued DEF TypeOK, QueueInv
<1>3. Unstored = Queued \cup {running} /\ Unstored' = Queued
  BY <1>1 DEF Unstored, Queued
<1>4. Done' = Done \cup {running} /\ running \notin Done
  BY <1>1, <1>2, <1>3 DEF Done
<1>5. /\ targetFilePath[running] \notin files
      /\ \A t \in Done : targetFilePath[t] # targetFilePath[running]
  BY <1>0, <1>2, <1>3 DEF PathInv, Done
<1>6. Saved' = Saved \/ Saved' = Saved \cup {running}
  BY <1>1, <1>4, <1>5 DEF Saved
<1>7. /\ Pending # << >> /\ Head(Pending) = running
      /\ Pending' = Tail(Pending)
  <2>1. Pending = <<running>> \o execQueue /\ Pending' = << >> \o execQueue
    BY <1>1 DEF Pending, Front
  <2>2. /\ <<running>> \o execQueue # << >>
        /\ Head(<<running>> \o execQueue) = running
        /\ Tail(<<running>> \o execQueue) = execQueue
        /\ << >> \o execQueue = execQueue
    BY <1>2
  <2> QED BY <2>1, <2>2
<1> QED BY <1>1, <1>4, <1>6, <1>7 DEF PS!Handle, Pending, Front, Saved, Done

(* Every step of the back end is one of PhotoStore, or is not seen.        *)
LEMMA StepRefines ==
    ASSUME Inv, [Next]_vars
    PROVE  [PS!Next]_(PS!vars)
<1>0. TypeOK /\ QueueInv
  BY DEF Inv
<1>1. ASSUME NEW l \in Listener \cup {NoListener}, SetListener(l) PROVE UNCHANGED PS!vars
  <2>1. /\ UNCHANGED <<execQueue, targetFilePath, created, files>>
        /\ worker' = worker /\ running' = running /\ ui' = ui
    BY <1>1 DEF SetListener, execVars, taskVars
  <2> QED BY <2>1, Unseen
<1>2. CASE StartCapturing \/ FinishCapturing \/ RequestStoreAdd \/ Release
  <2>1. /\ UNCHANGED <<execQueue, targetFilePath, created, files>>
        /\ worker' = worker /\ running' = running
        /\ ui \in {"idle", "add"} /\ ui' \in {"idle", "terminated"}
    BY <1>2 DEF StartCapturing, FinishCapturing, RequestStoreAdd, Release, UiEnters,
                execVars, taskVars
  <2>2. ui' = "crashed" <=> ui = "crashed"
    BY <2>1
  <2> QED BY <2>1, <2>2, Unseen
<1>3. CASE RequestStoreSubmit
  BY <1>3, SubmitAccepts DEF PS!Next
<1>4. CASE RequestStoreFails
  <2>1. /\ ui = "idle" /\ ui' = "crashed"
        /\ UNCHANGED <<execQueue, worker, running, targetFilePath, created, files>>
    BY <1>4 DEF RequestStoreFails, UiEnters, execVars, taskVars
  <2>2. Unstored' = Unstored
    BY <2>1 DEF Unstored, Queued
  <2>3. Pending' = Pending /\ Done' = Done /\ Saved' = Saved
    BY <2>1, <2>2 DEF Pending, Front, Done, Saved
  <2> QED BY <2>1, <2>3 DEF PS!Next, PS!Die, Pending, Front, Done, Saved
<1>5. CASE Take
  <2>1. /\ worker = "idle" /\ worker' = "store"
        /\ execQueue # << >> /\ execQueue' = Tail(execQueue) /\ running' = Head(execQueue)
        /\ UNCHANGED <<targetFilePath, created, files, ui>>
    BY <1>5 DEF Take, taskVars
  <2>2. Unstored' = Unstored
    BY <1>0, <1>5, <2>1, QueuedTake DEF Unstored
  <2>3. Pending' = Pending
    <3>1. execQueue \in Seq(Task)
      BY <1>0 DEF TypeOK
    <3>2. <<Head(execQueue)>> \o Tail(execQueue) = << >> \o execQueue
      BY <2>1, <3>1
    <3> QED BY <2>1, <3>2 DEF Pending, Front
  <2>4. Done' = Done /\ Saved' = Saved
    BY <2>1, <2>2 DEF Done, Saved
  <2> QED BY <2>1, <2>3, <2>4 DEF PS!vars, Pending, Front, Done, Saved
<1>6. CASE ui # "crashed" /\ Store
  BY <1>6, StoreHandles DEF PS!Next
<1>7. CASE Finalize \/ CheckCallback \/ CallCallback \/ OnStoreCompleted \/ Notify
  <2>1. /\ UNCHANGED <<execQueue, targetFilePath, created, files, ui>>
        /\ worker # "store" /\ worker' # "store"
    BY <1>7 DEF Finalize, CheckCallback, CallCallback, OnStoreCompleted, Notify, GoTo, taskVars
  <2> QED BY <2>1, Unseen
<1>8. CASE UNCHANGED vars
  <2>1. /\ UNCHANGED <<execQueue, targetFilePath, created, files>>
        /\ worker' = worker /\ running' = running /\ ui' = ui
    BY <1>8 DEF vars, execVars, taskVars
  <2> QED BY <2>1, Unseen
<1> QED BY <1>1, <1>2, <1>3, <1>4, <1>5, <1>6, <1>7, <1>8
        DEF Next, UiStep, WorkerStep, Halted

-----------------------------------------------------------------------------
(* The saving back end handles the photos it accepted in their order, each *)
(* once, and saves or loses it: no interleaving of requestStore(), the     *)
(* worker, release() and a crash shows anything PhotoStore does not allow. *)
(* This is ImplementsPhotoStore without its fairness.                      *)
THEOREM RefinesPhotoStore == Spec => PS!Init /\ [][PS!Next]_(PS!vars)
<1>1. ASSUME Init PROVE PS!Init
  <2>1. Unstored = {} /\ Pending = << >>
    BY <1>1 DEF Init, Unstored, Queued, Pending, Front
  <2>2. Done = {} /\ Saved = {} /\ ui # "crashed"
    BY <1>1 DEF Init, Done, Saved
  <2> QED BY <2>1, <2>2 DEF PS!Init, Pending, Front, Done, Saved
<1>2. Inv /\ [Next]_vars => [PS!Next]_(PS!vars)
  BY StepRefines
<1> QED BY <1>1, <1>2, InvHolds, PTL DEF Spec

=============================================================================
