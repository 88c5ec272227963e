---------------------------- MODULE CameraDevice ----------------------------
(***************************************************************************)
(* CameraDeviceHandler: opening and releasing the camera.  The UI thread   *)
(* calls the handler; every startCameraOpen() starts a thread of its own   *)
(* that runs the one OpenDeviceTask object.  The threads share the fields  *)
(* of the handler without a lock (the opener takes none); the UI thread    *)
(* waits for the opener's Future, for at most EXECUTOR_TASK_TIMEOUT.       *)
(***************************************************************************)
EXTENDS Naturals, FiniteSets

CONSTANT MaxOpens       \* bound: threads started

ASSUME OpensAssumption == MaxOpens \in Nat

VARIABLES
    mCurrentDeviceState, mCamera, mContext, mOpenDeviceFuture,
    mIsExpired,         \* of the one OpenDeviceTask
    opener,             \* where each opener thread is in run()
    starts,             \* opener threads started
    hardware,           \* the Camera object that holds the hardware
    ui,                 \* where the UI thread is
    resumed,            \* the Activity is between onResume() and onPause()
    timedOut            \* a wait has ended before its opener thread

vars == <<mCurrentDeviceState, mCamera, mContext, mOpenDeviceFuture,
          mIsExpired, opener, starts, hardware, ui, resumed, timedOut>>

Opener == 1..MaxOpens
Null   == 0             \* no Camera, no Future
OpenerState == {"none", "start", "open", "configure",
                "failed",       \* ended without a camera
                "opened",       \* ended with the camera set up
                "died"}         \* ended by an exception while setting it up

TypeOK ==
    /\ mCurrentDeviceState \in {"RELEASED", "OPENING", "OPENED"}
    /\ mCamera \in Opener \cup {Null}          \* named after its opener
    /\ mContext \in BOOLEAN                    \* not null
    /\ mOpenDeviceFuture \in Opener \cup {Null}
    /\ mIsExpired \in BOOLEAN
    /\ opener \in [Opener -> OpenerState]
    /\ starts \in 0..MaxOpens
    /\ hardware \in Opener \cup {Null}
    /\ ui \in {"idle", "submitted", "releasing", "resubmitted", "waiting"}
    /\ resumed \in BOOLEAN
    /\ timedOut \in BOOLEAN

Init ==
    /\ mCurrentDeviceState = "RELEASED"
    /\ mCamera = Null
    /\ mContext = FALSE
    /\ mOpenDeviceFuture = Null
    /\ mIsExpired = TRUE
    /\ opener = [i \in Opener |-> "none"]
    /\ starts = 0
    /\ hardware = Null
    /\ ui = "idle"
    /\ resumed = FALSE
    /\ timedOut = FALSE

Active(i) == opener[i] \in {"start", "open", "configure"}

-----------------------------------------------------------------------------
(* The UI thread.                                                          *)

BugNoWait == UNCHANGED timedOut

(* mOpenDeviceFuture.get(): there is none, its thread has ended, or the    *)
(* wait lasts EXECUTOR_TASK_TIMEOUT and gives up.                          *)
Wait == timedOut' = (timedOut \/ \E i \in Opener :
                                    i = mOpenDeviceFuture /\ Active(i))

BugFutureOfNextTask(context) ==
    /\ starts < MaxOpens
    /\ starts' = starts + 1
    /\ opener' = [opener EXCEPT ![starts'] = "start"]
    /\ mOpenDeviceFuture' = starts' + 1
    /\ mContext' = context

(* startCameraOpen() as far as submit(). *)
SubmitOpen(context) ==
    /\ starts < MaxOpens
    /\ starts' = starts + 1
    /\ opener' = [opener EXCEPT ![starts'] = "start"]
    /\ mOpenDeviceFuture' = starts'
    /\ mContext' = context

(* requestOpenCameraDevice(), from onResume() or a surface callback. *)
RequestOpen ==
    /\ mCurrentDeviceState = "RELEASED"
    /\ SubmitOpen(TRUE)
    /\ ui' = "submitted"
    /\ UNCHANGED <<mCurrentDeviceState, mCamera, mIsExpired, hardware, timedOut>>

OnResume ==
    /\ ui = "idle" /\ ~resumed
    /\ resumed' = TRUE
    /\ \/ RequestOpen
       \/ /\ mCurrentDeviceState # "RELEASED"
          /\ UNCHANGED <<mCurrentDeviceState, mCamera, mContext, mIsExpired,
                         mOpenDeviceFuture, opener, starts, hardware, ui,
                         timedOut>>

OnSurface ==
    /\ ui = "idle" /\ resumed
    /\ RequestOpen
    /\ UNCHANGED resumed

(* The last statement of startCameraOpen(), while the thread already runs; *)
(* reOpenCamera() then waits for that thread.                              *)
SetOpening ==
    /\ ui \in {"submitted", "resubmitted"}
    /\ mCurrentDeviceState' = "OPENING"
    /\ ui' = IF ui = "submitted" THEN "idle" ELSE "waiting"
    /\ UNCHANGED <<mCamera, mContext, mOpenDeviceFuture, mIsExpired, opener,
                   starts, hardware, resumed, timedOut>>

(* getCameraInstance(): waits, then forgets the Future. *)
GetCameraInstance ==
    /\ \/ ui = "waiting"
       \/ ui = "idle" /\ resumed /\ mOpenDeviceFuture # Null
    /\ Wait
    /\ mOpenDeviceFuture' = Null
    /\ ui' = "idle"
    /\ UNCHANGED <<mCurrentDeviceState, mCamera, mContext, mIsExpired, opener,
                   starts, hardware, resumed>>

(* What getCameraInstance() returns; mIsExpired still tells of an earlier  *)
(* run of the task until this one ends.                                    *)
CameraInstance ==
    IF mOpenDeviceFuture # Null /\ mIsExpired THEN Null ELSE mCamera

(* onPause() calls releaseCameraInstance(): nothing to do when released.   *)
OnPause ==
    /\ ui = "idle" /\ resumed
    /\ resumed' = FALSE
    /\ ui' = IF mCurrentDeviceState = "RELEASED" THEN "idle" ELSE "releasing"
    /\ UNCHANGED <<mCurrentDeviceState, mCamera, mContext, mOpenDeviceFuture,
                   mIsExpired, opener, starts, hardware, timedOut>>

BugNotReleased ==
    /\ mCamera' = Null
    /\ UNCHANGED hardware

BugKeptAfterRelease ==
    /\ UNCHANGED mCamera
    /\ hardware' = IF hardware = mCamera THEN Null ELSE hardware

(* mCamera.release(); mCamera = null *)
ReleaseCamera ==
    /\ mCamera' = Null
    /\ hardware' = IF hardware = mCamera THEN Null ELSE hardware

(* releaseCameraInstance(), of a device that is not STATUS_RELEASED. *)
Release ==
    /\ ui = "releasing"
    /\ Wait
    /\ mOpenDeviceFuture' = Null
    /\ mContext' = FALSE
    /\ ReleaseCamera
    /\ mCurrentDeviceState' = "RELEASED"
    /\ ui' = "idle"
    /\ UNCHANGED <<mIsExpired, opener, starts, resumed>>

(* changeCameraDevice(), in standby, where the camera is open and nobody   *)
(* waits: reOpenCamera() releases it, startCameraOpen() goes through       *)
(* releaseCameraInstance() once more and starts the next thread with the   *)
(* context the handler had, if it had one.                                 *)
ChangeCameraDevice ==
    /\ ui = "idle" /\ resumed
    /\ mCamera # Null /\ mOpenDeviceFuture = Null
    /\ ReleaseCamera
    /\ SubmitOpen(mContext)
    /\ mCurrentDeviceState' = "RELEASED"
    /\ ui' = "resubmitted"
    /\ UNCHANGED <<mIsExpired, resumed, timedOut>>

(* The user never comes back to a paused Activity. *)
StaysPaused == ui = "idle" /\ ~resumed /\ UNCHANGED vars

-----------------------------------------------------------------------------
(* An opener thread: OpenDeviceTask.run().                                 *)

StartTask(i) ==
    /\ opener[i] = "start"
    /\ mCurrentDeviceState' = "OPENING"
    /\ opener' = [opener EXCEPT ![i] = "open"]
    /\ UNCHANGED <<mCamera, mContext, mOpenDeviceFuture, mIsExpired, starts,
                   hardware, ui, resumed, timedOut>>

OpenSucceeds(i) ==
    /\ opener[i] = "open"
    /\ hardware = Null
    /\ hardware' = i
    /\ mCamera' = i
    /\ opener' = [opener EXCEPT ![i] = "configure"]
    /\ UNCHANGED <<mCurrentDeviceState, mContext, mOpenDeviceFuture, mIsExpired,
                   starts, ui, resumed, timedOut>>

(* Camera.open() throws, for instance while anyone holds the camera.       *)
OpenFails(i) ==
    /\ opener[i] = "open"
    /\ mCamera' = Null
    /\ mCurrentDeviceState' = "RELEASED"
    /\ opener' = [opener EXCEPT ![i] = "failed"]
    /\ UNCHANGED <<mContext, mOpenDeviceFuture, mIsExpired, starts, hardware,
                   ui, resumed, timedOut>>

(* Parameters, preview, status. *)
Configure(i) ==
    /\ opener[i] = "configure"
    /\ mContext /\ mCamera # Null
    /\ mIsExpired' = FALSE
    /\ mCurrentDeviceState' = "OPENED"
    /\ opener' = [opener EXCEPT ![i] = "opened"]
    /\ UNCHANGED <<mCamera, mContext, mOpenDeviceFuture, starts, hardware, ui,
                   resumed, timedOut>>

(* getParameters(), setParameters() or startPreview() throws, or context   *)
(* or camera is missing: the thread dies, the exception stays in the       *)
(* Future, which nobody asks for it.                                       *)
ConfigureFails(i) ==
    /\ opener[i] = "configure"
    /\ opener' = [opener EXCEPT ![i] = "died"]
    /\ UNCHANGED <<mCurrentDeviceState, mCamera, mContext, mOpenDeviceFuture,
                   mIsExpired, starts, hardware, ui, resumed, timedOut>>

OpenerStep(i) ==
    \/ StartTask(i) \/ OpenSucceeds(i) \/ OpenFails(i)
    \/ Configure(i) \/ ConfigureFails(i)

Next ==
    \/ OnResume
    \/ OnSurface
    \/ SetOpening
    \/ GetCameraInstance
    \/ OnPause
    \/ Release
    \/ ChangeCameraDevice
    \/ StaysPaused
    \/ \E i \in Opener : OpenerStep(i)

Spec == Init /\ [][Next]_vars

-----------------------------------------------------------------------------
(* A paused Activity has given the camera back: onPause() waits for an     *)
(* opener that is still under way and releases what it opened, if that     *)
(* comes in time.                                                          *)
ReleasedWhenPaused ==
    ui = "idle" /\ ~resumed /\ ~timedOut => hardware = Null /\ mCamera = Null

(* No Camera object is used after its release(), by whatever opener it     *)
(* came, also when openers of different requests overlap.                  *)
NoReleasedCamera == mCamera # Null => hardware = mCamera

(* The handler does not lose the Camera object that holds the hardware.    *)
NoLostCamera == hardware # Null /\ ~timedOut => mCamera = hardware

(* The application does not compete with itself for the camera: a thread   *)
(* that opens finds no camera of an earlier one, and is alone.             *)
NoSelfConflict ==
    \A i \in Opener : opener[i] \in {"start", "open"} /\ ~timedOut =>
        /\ hardware = Null
        /\ \A j \in Opener : Active(j) => j = i

(* getCameraInstance() would return at once: its opener has ended.         *)
NoNeedToWait ==
    /\ ui = "waiting" \/ (ui = "idle" /\ resumed)
    /\ \A i \in Opener : i = mOpenDeviceFuture => ~Active(i)

(* A camera that getCameraInstance() hands out holds the hardware, its     *)
(* opener has come to an end, and no other one is at work; as long as no   *)
(* wait timed out.  That it was set up cannot be said: its opener may have *)
(* died.                                                                   *)
HandsOutHeldCamera ==
    NoNeedToWait /\ CameraInstance # Null /\ ~timedOut =>
        /\ hardware = CameraInstance
        /\ opener[CameraInstance] \in {"opened", "died"}
        /\ \A i \in Opener : ~Active(i)

(* "NOP, device is already opened or opening.": a device that is not       *)
(* STATUS_RELEASED is open, or a thread is opening it.                     *)
OpenedOrOpening ==
    ui = "idle" /\ mCurrentDeviceState # "RELEASED"
        => mCamera # Null \/ \E i \in Opener : Active(i)
-----------------------------------------------------------------------------
(* The inductive invariant: why the properties above hold.  OpeningInv and *)
(* RestingInv do not survive a wait that timed out.                        *)

(* The threads are numbered as they are started. *)
StartedInv ==
    /\ \A i \in Opener : opener[i] = "none" <=> i > starts
    /\ mOpenDeviceFuture \in {Null, starts}

(* Which handler of the Activity the UI thread is in.                      *)
HandlerInv ==
    /\ ui \in {"submitted", "resubmitted", "waiting"} => resumed
    /\ ui = "releasing" => ~resumed

(* The hardware is held by the camera of a thread whose open() succeeded.  *)
HardwareInv ==
    hardware # Null => opener[hardware] \in {"configure", "opened", "died"}

(* An opener at work is the one whose Future is kept, and it finds and     *)
(* leaves the device as if it were alone.                                  *)
OpeningInv ==
    \A i \in Opener : Active(i) =>
        /\ i = mOpenDeviceFuture
        /\ IF opener[i] = "configure" THEN hardware = i ELSE hardware = Null
        /\ opener[i] # "start" => mCurrentDeviceState = "OPENING"

(* Once a request is over, a released device and a paused Activity have no *)
(* camera, and no opener at work.                                          *)
RestingInv ==
    ui \in {"idle", "waiting"} /\ (mCurrentDeviceState = "RELEASED" \/ ~resumed) =>
        /\ hardware = Null
        /\ \A i \in Opener : ~Active(i)

Inv ==
    /\ TypeOK
    /\ StartedInv
    /\ HandlerInv
    /\ NoReleasedCamera
    /\ HardwareInv
    /\ ~timedOut => OpeningInv /\ RestingInv /\ mCamera = hardware
=============================================================================
