-------------------------- MODULE BurstStateMachine --------------------------
(***************************************************************************)
(* StateMachineController: the state machine every key, touch, surface,    *)
(* life cycle and camera event goes through (sendEvent), with the messages *)
(* it posts to its own looper.  A burst is a chain of messages: the first  *)
(* frame request posts FRAME_NULL, each FRAME_NULL or FRAME starts a TICK  *)
(* timer, a TICK requests the next frame and posts FRAME, or starts a      *)
(* RETRY timer when memory is low.                                         *)
(*                                                                         *)
(* The looper handles one message at a time, in posting order; a timer     *)
(* joins its end when it is due.  Keys, touches, surface and life cycle    *)
(* callbacks run on the same thread, between any two messages.             *)
(*                                                                         *)
(* Of CameraDeviceHandler (module CameraDevice) only what sendEvent sees   *)
(* is kept: whether a usable camera is there.  Of the saving back end      *)
(* (NativeSavingTaskStack): whether it exists, has this controller as its  *)
(* listener, and has a burst open.                                         *)
(*                                                                         *)
(* A new Activity has a state machine of its own.  It may start before the *)
(* onDestroy() of one that has called finish(): the state machine of the   *)
(* earlier one, in STATE_PAUSE, can still reach the back end both share.   *)
(***************************************************************************)
EXTENDS Naturals, Sequences, FiniteSets, Bags

CONSTANTS MaxBursts,     \* bound: bursts started
          MaxLooper,     \* bound: looper length at which no focus call arrives
          MaxEarlier     \* bound: events of earlier state machines to come

ASSUME BoundsAssumption ==
    MaxBursts \in Nat /\ MaxLooper \in Nat /\ MaxEarlier \in Nat

VARIABLES
    currentState,
    activity,            \* life cycle of UnlimitedBurstShotActivity
    finishing,           \* it has called finish()
    earlier,             \* events that state machines of Activities before it
                         \* are still to handle, in STATE_PAUSE
    surface,             \* none, created, or changed since the last onResume()
    resizing,            \* its mTargetSurfaceWidth and -Height are set
    crash,               \* the null reference whose use ended the process
    camera,              \* the camera as waitForCameraInitialization() sees it
    previewCallback,     \* setPreviewCallbackWithBuffer() was called on it
    afRunning, afArmed,  \* a focus run is under way / its callback is set
    controller,          \* the application has a NativeSavingTaskStackController
    listener,            \* its mPhotoStoreListener: this state machine, or not,
                         \* or no more since an earlier one cleared it
    mFilePathPreFix,     \* its open burst, 0 for null
    mCurrentBufferIndex, \* RingBuffer, of two buffers
    requested, fresh,    \* buffers lent to the camera / filled, not yet stored
    looper, timers,      \* messages due, in order / delayed
    burst,               \* bursts started so far
    cancelRemoves        \* of the device: cancelAutoFocus() removes a focus
                         \* message under way (Android 4.1 and later)

cameraVars == <<camera, previewCallback, afRunning, afArmed>>
stackVars  == <<controller, listener, mFilePathPreFix>>
frameVars  == <<mCurrentBufferIndex, requested, fresh>>
earlierVars == <<finishing, earlier>>
windowVars == <<activity, earlierVars, surface, resizing>>
vars == <<currentState, windowVars, crash, cameraVars, stackVars, frameVars,
          looper, timers, burst, cancelRemoves>>

\* STATE_PHOTO_ is left out of the names; STATE_NONE ends in the constructor
\* of the Activity and STATE_PHOTO_STORE is never entered.
CaptureState == {"INITIALIZE", "RESUME", "STANDBY", "ZOOMING", "AF_SEARCH",
                 "WAIT_FOR_AF_DONE", "AF_DONE", "CAPTURE", "PAUSE", "FINALIZE"}
Buffer  == 0..1
ChainKind == {"FRAME_NULL", "FRAME", "TICK", "RETRY"}
\* "burst" is auxiliary: the burst whose first frame started the chain.
Message == [kind : ChainKind \cup {"AF", "REMOVED"}, burst : 0..MaxBursts]

Msg(k, b) == [kind |-> k, burst |-> b]

(* Positions in the looper of the messages of some kinds. *)
At(q, kinds) == {i \in 1..Len(q) : q[i].kind \in kinds}

TypeOK ==
    /\ currentState \in CaptureState
    /\ activity \in {"created", "resumed", "paused", "destroyed"}
    /\ surface \in {"none", "created", "changed"}
    /\ crash \in {"none", "controller", "prepare", "camera"}
    /\ camera \in {"released", "opening", "open"}
    /\ {resizing, previewCallback, afRunning, afArmed, controller} \subseteq BOOLEAN
    /\ listener \in {"this", "other", "cleared"}
    /\ finishing \in BOOLEAN
    /\ earlier \in 0..MaxEarlier
    /\ mFilePathPreFix \in 0..MaxBursts
    /\ mCurrentBufferIndex \in Buffer
    /\ requested \subseteq Buffer /\ fresh \subseteq Buffer
    /\ looper \in Seq(Message)
    /\ IsABag(timers) /\ BagToSet(timers) \subseteq Message
    /\ burst \in 0..MaxBursts
    /\ cancelRemoves \in BOOLEAN

Init ==                                     \* onCreate()
    /\ currentState = "INITIALIZE"
    /\ activity = "created" /\ finishing = FALSE
    /\ earlier = 0
    /\ surface = "none" /\ resizing = FALSE
    /\ crash = "none"
    /\ camera = "released"
    /\ previewCallback = FALSE
    /\ afRunning = FALSE /\ afArmed = FALSE
    /\ controller = FALSE /\ listener = "other"
    /\ mFilePathPreFix = 0
    /\ mCurrentBufferIndex = 0
    /\ requested = {} /\ fresh = {}
    /\ looper = << >> /\ timers = EmptyBag
    /\ burst = 0
    /\ cancelRemoves \in BOOLEAN

-----------------------------------------------------------------------------
(* Helpers of sendEvent().  q is the looper after the message being        *)
(* handled, b the burst of that message.                                   *)

(* mHandler.postDelayed(m, 0) *)
Post(q, m) == looper' = Append(q, m)

(* mHandler.postDelayed(m, mBurstShotInterval) *)
PostDelayed(q, m) ==
    /\ looper' = q
    /\ timers' = timers (+) SetToBag({m})

Crash(why) ==
    /\ crash' = why
    /\ UNCHANGED <<currentState, cameraVars, stackVars, frameVars,
                   looper, timers, burst>>

(* A row that only changes the state. *)
ChangeTo(s, q) ==
    /\ currentState' = s
    /\ looper' = q
    /\ UNCHANGED <<crash, stackVars, frameVars, timers, burst>>

AutoFocus ==
    /\ IF camera = "open" THEN afRunning' = TRUE /\ afArmed' = TRUE
                          ELSE UNCHANGED <<afRunning, afArmed>>
    /\ UNCHANGED <<camera, previewCallback>>

(* removeMessages(): a removed message keeps its place and does nothing.   *)
WithoutFocus(q) ==
    [i \in 1..Len(q) |-> IF q[i].kind = "AF" THEN Msg("REMOVED", 0) ELSE q[i]]

(* Back to standby without the focus: cancelAutoFocus(). *)
CancelAutoFocus(q) ==
    /\ IF camera = "open" THEN afRunning' = FALSE /\ afArmed' = FALSE
                          ELSE UNCHANGED <<afRunning, afArmed>>
    /\ UNCHANGED <<camera, previewCallback>>
    /\ ChangeTo("STANDBY", IF cancelRemoves THEN WithoutFocus(q) ELSE q)

BugNextBuffer(i) == i + 1

(* RingBuffer.getNextIndex() *)
NextBuffer(i) == (i + 1) % 2

(* requestNextPreviewCallbackWithBuffer(); what buffer i held is given up. *)
RequestFrame(i) ==
    /\ requested' = IF camera = "open" THEN requested \cup {i} ELSE requested
    /\ fresh' = IF camera = "open" THEN fresh \ {i} ELSE fresh

(* takeBurstFrame(true) *)
TakeFirstFrame(q) ==
    /\ burst' = burst + 1
    /\ RequestFrame(mCurrentBufferIndex)
    /\ Post(q, Msg("FRAME_NULL", burst'))
    /\ currentState' = "CAPTURE"
    /\ UNCHANGED <<crash, stackVars, mCurrentBufferIndex, timers>>

(* takeBurstFrame(false) *)
TakeNextFrame(b, q) ==
    /\ RequestFrame(NextBuffer(mCurrentBufferIndex))
    /\ Post(q, Msg("FRAME", b))
    /\ UNCHANGED <<currentState, crash, stackVars, mCurrentBufferIndex,
                   timers, burst>>

BugBurstLeftOpen == UNCHANGED mFilePathPreFix

FinishCapturing == mFilePathPreFix' = 0

BugBufferNotSwitched == UNCHANGED mCurrentBufferIndex

(* mFrameBufferRing.increment() *)
SwitchBuffer == mCurrentBufferIndex' = NextBuffer(mCurrentBufferIndex)

-----------------------------------------------------------------------------
(* sendEvent(e), one operator per state.  ZOOM_DOWN and ZOOM_UP stand for  *)
(* both zoom keys; CAPTURE_END for EVENT_KEY_CAPTURE_UP and                *)
(* EVENT_CAPTURE_BUTTON_RELEASE and _CANCEL, which every state treats      *)
(* alike.  EVENT_PAUSE is PauseEvent below.                                *)

(* waitForCameraInitialization() ends with the camera open, failed, or,    *)
(* after its timeout, still opening.  A camera that is not there is        *)
(* requested again.                                                        *)
OnSurfaceCreated(q) ==
    /\ camera' \in CASE camera = "released" -> {"opening"}
                     [] camera = "opening"  -> {"open", "opening"}
                     [] camera = "open"     -> {"open"}
    /\ UNCHANGED <<previewCallback, afRunning, afArmed>>
    /\ ChangeTo(currentState, q)

OnSurfaceChanged(q) ==
    /\ camera' \in IF camera = "open" THEN {"open"} ELSE {"open", "opening"}
    /\ UNCHANGED <<previewCallback, afRunning, afArmed>>
    /\ ChangeTo(currentState, q)

BugNotReattached ==
    /\ controller' = TRUE
    /\ listener' = IF controller THEN listener ELSE "this"

(* A new saving back end, or the one the application kept. *)
AttachToController ==
    /\ controller' = TRUE
    /\ listener' = "this"

(* With a camera: preview callback, a new ring of buffers and the back end *)
(* are set up.                                                             *)
BecomeReady(q) ==
    /\ camera \in {"opening", "open"}
    /\ camera' = "open"
    /\ previewCallback' = TRUE
    /\ mCurrentBufferIndex' = 0
    /\ requested' = {} /\ fresh' = {}
    /\ AttachToController
    /\ currentState' = "STANDBY"
    /\ looper' = q
    /\ UNCHANGED <<crash, afRunning, afArmed, mFilePathPreFix, timers, burst>>

(* "Finish as abnormal end." does not return: the parameters of the camera *)
(* that is not open are used next.  They are missing, too, of a camera     *)
(* that is there but whose opener has died: it stays "opening".            *)
OnSurfacePrepared(q) ==
    \/ BecomeReady(q)
    \/ camera \in {"released", "opening"} /\ Crash("prepare")

InInitialize(e, q) ==
    /\ e = "RESUME"
    /\ ChangeTo("RESUME", q)
    /\ UNCHANGED cameraVars

InResume(e, q) ==
    \/ e = "SURFACE_CREATED" /\ OnSurfaceCreated(q)
    \/ e = "SURFACE_CHANGED" /\ OnSurfaceChanged(q)
    \/ e = "SURFACE_PREPARED" /\ OnSurfacePrepared(q)

(* The new Camera object has no preview callback and no buffers; without   *)
(* one, updateSurfaceSize() uses the missing parameters.  With a single    *)
(* camera nothing is reopened.                                             *)
ChangeCameraDevice(q) ==
    \/ ChangeTo(currentState, q) /\ UNCHANGED cameraVars
    \/ /\ previewCallback' = FALSE /\ afRunning' = FALSE /\ afArmed' = FALSE
       /\ requested' = {}
       /\ looper' = WithoutFocus(q)
       /\ UNCHANGED <<currentState, crash, camera, stackVars,
                      mCurrentBufferIndex, fresh, timers, burst>>
    \/ Crash("camera")

InStandby(e, q) ==
    \/ e = "ZOOM_DOWN" /\ IF camera = "open"
                            THEN ChangeTo("ZOOMING", q) /\ UNCHANGED cameraVars
                            ELSE Crash("camera")
    \/ e = "FOCUS_DOWN" /\ AutoFocus /\ ChangeTo("AF_SEARCH", q)
    \/ e = "BUTTON_TOUCH" /\ AutoFocus /\ ChangeTo("WAIT_FOR_AF_DONE", q)
    \/ e = "CHANGE_CAMERA" /\ ChangeCameraDevice(q)

InZooming(e, q) ==
    e = "ZOOM_UP" /\ ChangeTo("STANDBY", q) /\ UNCHANGED cameraVars

InAfSearch(e, q) ==
    \/ e = "AUTO_FOCUS_DONE" /\ ChangeTo("AF_DONE", q) /\ UNCHANGED cameraVars
    \/ e = "FOCUS_UP" /\ CancelAutoFocus(q)
    \/ e = "CAPTURE_DOWN" /\ ChangeTo("WAIT_FOR_AF_DONE", q)
                          /\ UNCHANGED cameraVars

InAfDone(e, q) ==
    \/ e = "CAPTURE_DOWN" /\ TakeFirstFrame(q) /\ UNCHANGED cameraVars
    \/ e = "FOCUS_UP" /\ CancelAutoFocus(q)

InWaitForAfDone(e, q) ==
    \/ e = "CAPTURE_END" /\ CancelAutoFocus(q)
    \/ e = "AUTO_FOCUS_DONE" /\ TakeFirstFrame(q) /\ UNCHANGED cameraVars

BugNoTimer(k, b, q) ==
    /\ looper' = q
    /\ UNCHANGED timers

StartTimer(k, b, q) == PostDelayed(q, Msg(k, b))

BugChainEndsWhenFull(b, q) ==
    \/ TakeNextFrame(b, q)
    \/ ChangeTo(currentState, q)

(* isTaskStackFull() asks the system for free memory: either answer.       *)
RequestNextCapture(b, q) ==
    \/ TakeNextFrame(b, q)
    \/ /\ StartTimer("RETRY", b, q)
       /\ UNCHANGED <<currentState, crash, stackVars, frameVars, burst>>

InCapture(e, b, q) ==
    \/ /\ e = "CAPTURE_END"
       /\ FinishCapturing
       /\ currentState' = "STANDBY"
       /\ looper' = q
       /\ UNCHANGED <<crash, cameraVars, controller, listener, frameVars,
                      timers, burst>>
    \/ /\ e = "FRAME_NULL"                        \* startCapturing()
       /\ mFilePathPreFix' = burst
       /\ StartTimer("TICK", b, q)
       /\ UNCHANGED <<currentState, crash, cameraVars, controller, listener,
                      frameVars, burst>>
    \/ /\ e = "FRAME"                             \* requestStore()
       /\ fresh' = fresh \ {mCurrentBufferIndex}
       /\ SwitchBuffer
       /\ StartTimer("TICK", b, q)
       /\ UNCHANGED <<currentState, crash, cameraVars, stackVars, requested,
                      burst>>
    \/ /\ e = "REQUEST_NEXT"
       /\ RequestNextCapture(b, q)
       /\ UNCHANGED cameraVars

BugListenerKept == UNCHANGED listener

(* getSavingTaskController().setPhotoStoreCompletedListener(null) *)
DetachListener == listener' = "other"

(* Every event that arrives in STATE_PAUSE first detaches the listener of  *)
(* a saving back end that may not exist yet.                               *)
InPause(e, q) ==
    \/ /\ ~controller
       /\ Crash("controller")
    \/ /\ controller
       /\ e # "SURFACE_PREPARED"
       /\ DetachListener
       /\ currentState' = CASE e = "RESUME"   -> "RESUME"
                            [] e = "FINALIZE" -> "FINALIZE"
                            [] OTHER          -> "PAUSE"
       /\ looper' = q
       /\ UNCHANGED <<crash, cameraVars, controller, mFilePathPreFix,
                      frameVars, timers, burst>>
    \/ /\ controller
       /\ e = "SURFACE_PREPARED"        \* by way of RESUME: attached again
       /\ OnSurfacePrepared(q)

(* The rows of the switch; whatever has none is ignored.                   *)
Rows ==
    {<<"INITIALIZE", "RESUME">>,
     <<"RESUME", "SURFACE_CREATED">>, <<"RESUME", "SURFACE_CHANGED">>,
     <<"RESUME", "SURFACE_PREPARED">>,
     <<"STANDBY", "ZOOM_DOWN">>, <<"STANDBY", "FOCUS_DOWN">>,
     <<"STANDBY", "BUTTON_TOUCH">>, <<"STANDBY", "CHANGE_CAMERA">>,
     <<"ZOOMING", "ZOOM_UP">>,
     <<"AF_SEARCH", "AUTO_FOCUS_DONE">>, <<"AF_SEARCH", "FOCUS_UP">>,
     <<"AF_SEARCH", "CAPTURE_DOWN">>,
     <<"AF_DONE", "CAPTURE_DOWN">>, <<"AF_DONE", "FOCUS_UP">>,
     <<"WAIT_FOR_AF_DONE", "CAPTURE_END">>,
     <<"WAIT_FOR_AF_DONE", "AUTO_FOCUS_DONE">>,
     <<"CAPTURE", "CAPTURE_END">>, <<"CAPTURE", "FRAME_NULL">>,
     <<"CAPTURE", "FRAME">>, <<"CAPTURE", "REQUEST_NEXT">>}

Ignore(q) == ChangeTo(currentState, q) /\ UNCHANGED cameraVars

SendEvent(e, b, q) ==
    \/ currentState = "INITIALIZE" /\ InInitialize(e, q)
    \/ currentState = "RESUME" /\ InResume(e, q)
    \/ currentState = "STANDBY" /\ InStandby(e, q)
    \/ currentState = "ZOOMING" /\ InZooming(e, q)
    \/ currentState = "AF_SEARCH" /\ InAfSearch(e, q)
    \/ currentState = "AF_DONE" /\ InAfDone(e, q)
    \/ currentState = "WAIT_FOR_AF_DONE" /\ InWaitForAfDone(e, q)
    \/ currentState = "CAPTURE" /\ InCapture(e, b, q)
    \/ currentState = "PAUSE" /\ InPause(e, q)
    \/ currentState # "PAUSE" /\ <<currentState, e>> \notin Rows /\ Ignore(q)

(* sendEvent(EVENT_PAUSE), apart from what it does to the camera.  Only    *)
(* the back key pauses twice, from STANDBY: a saving back end exists then. *)
PauseEvent(q) ==
    \/ /\ currentState \notin {"CAPTURE", "PAUSE"}
       /\ ChangeTo("PAUSE", q)
    \/ /\ currentState = "CAPTURE"
       /\ FinishCapturing
       /\ currentState' = "PAUSE"
       /\ looper' = q
       /\ UNCHANGED <<crash, controller, listener, frameVars, timers, burst>>
    \/ /\ currentState = "PAUSE" /\ controller
       /\ DetachListener
       /\ looper' = q
       /\ UNCHANGED <<currentState, crash, controller, mFilePathPreFix, frameVars,
                      timers, burst>>

-----------------------------------------------------------------------------
(* Who calls sendEvent().                                                  *)

UserEvent == {"FOCUS_DOWN", "FOCUS_UP", "CAPTURE_DOWN", "CAPTURE_END",
              "ZOOM_DOWN", "ZOOM_UP", "BUTTON_TOUCH", "CHANGE_CAMERA"}

Running == crash = "none"

(* A key or a touch; a new burst only within the bound.  A change of       *)
(* camera also runs updateSurfaceSize().                                   *)
UserInput(e) ==
    /\ Running
    /\ activity = "resumed"
    /\ e \in {"FOCUS_DOWN", "BUTTON_TOUCH"} => burst < MaxBursts
    /\ SendEvent(e, 0, looper)
    /\ resizing' = (resizing \/ <<currentState, e>> = <<"STANDBY", "CHANGE_CAMERA">>)
    /\ UNCHANGED <<activity, earlierVars, surface, cancelRemoves>>

(* The window is resumed, or was paused a moment ago. *)
HasWindow == activity \in {"resumed", "paused"}

(* surfaceCreated(): without camera parameters the resize is left to       *)
(* surfaceChanged(); else it is requested, or, when the surface has the    *)
(* shape of the preview, EVENT_ON_SURFACE_PREPARED_WITHOUT_RESIZE follows. *)
SurfaceCreated ==
    /\ Running /\ HasWindow
    /\ surface = "none"
    /\ surface' = "created"
    /\ \/ /\ SendEvent("SURFACE_CREATED", 0, looper)
          /\ resizing' = (resizing \/ camera' = "open")
       \/ /\ currentState = "RESUME"
          /\ BecomeReady(looper)
          /\ UNCHANGED resizing
       \/ /\ currentState # "RESUME" /\ camera = "open"
          /\ SendEvent("SURFACE_CREATED", 0, looper)
          /\ UNCHANGED resizing
    /\ UNCHANGED <<activity, earlierVars, cancelRemoves>>

(* surfaceChanged(): the end of the resize under way, or a resume; nothing *)
(* while the size of the resize is not fixed yet.                          *)
SurfaceChanged ==
    /\ Running /\ HasWindow
    /\ surface # "none"
    /\ surface' = "changed"
    /\ \/ /\ SendEvent(IF resizing THEN "SURFACE_PREPARED" ELSE "SURFACE_CHANGED",
                       0, looper)
          /\ resizing' = FALSE
       \/ /\ resizing
          /\ Ignore(looper)
          /\ UNCHANGED resizing
    /\ UNCHANGED <<activity, earlierVars, cancelRemoves>>

(* STATE_PAUSE hides the surface: it is destroyed, unless STATE_RESUME     *)
(* shows it before the next layout.                                        *)
SurfaceDestroyed ==
    /\ Running
    /\ currentState = "PAUSE" /\ surface # "none"
    /\ surface' = "none"
    /\ UNCHANGED <<currentState, activity, earlierVars, resizing, crash, cameraVars,
                   stackVars, frameVars, looper, timers, burst, cancelRemoves>>

(* The back key pauses the state machine at once and finishes the          *)
(* Activity; onPause() comes later.                                        *)
BackKey ==
    /\ Running
    /\ activity = "resumed" /\ currentState = "STANDBY"
    /\ PauseEvent(looper)
    /\ finishing' = TRUE
    /\ UNCHANGED <<activity, earlier, surface, resizing, cameraVars, cancelRemoves>>

(* onResume(): requestOpenCameraDevice(), then EVENT_RESUME.  An Activity  *)
(* that is finishing is not resumed again.                                 *)
OnResume ==
    /\ Running
    /\ activity \in {"created", "paused"} /\ ~finishing
    /\ activity' = "resumed"
    /\ camera = "released"
    /\ IF currentState = "PAUSE" /\ ~controller THEN Crash("controller")
       ELSE /\ currentState' = "RESUME"
            /\ camera' = "opening"
            /\ IF currentState = "PAUSE" THEN DetachListener ELSE UNCHANGED listener
            /\ UNCHANGED <<crash, previewCallback, afRunning, afArmed, controller,
                           mFilePathPreFix, frameVars, looper, timers, burst>>
    /\ surface' = IF surface = "changed" THEN "created" ELSE surface
    /\ UNCHANGED <<earlierVars, resizing, cancelRemoves>>

(* onPause(): EVENT_PAUSE, then releaseCameraInstance().  Focus messages of *)
(* a released camera find its callback cleared: they are dropped.          *)
OnPause ==
    /\ Running
    /\ activity = "resumed"
    /\ activity' = "paused"
    /\ PauseEvent(WithoutFocus(looper))
    /\ camera' = "released" /\ previewCallback' = FALSE
    /\ afRunning' = FALSE /\ afArmed' = FALSE
    /\ UNCHANGED <<earlierVars, surface, resizing, cancelRemoves>>

OnDestroy ==
    /\ Running
    /\ activity = "paused"
    /\ activity' = "destroyed"
    /\ SendEvent("FINALIZE", 0, looper)
    /\ UNCHANGED <<earlierVars, surface, resizing, cancelRemoves>>

(* onCreate() of a new Activity in the same process: a new state machine;  *)
(* the saving back end is the application's.                               *)
NewStateMachine ==
    /\ activity' = "created" /\ finishing' = FALSE
    /\ surface' = "none" /\ resizing' = FALSE
    /\ currentState' = "INITIALIZE"
    /\ mCurrentBufferIndex' = 0 /\ requested' = {} /\ fresh' = {}
    /\ looper' = << >> /\ timers' = EmptyBag
    /\ UNCHANGED <<crash, cameraVars, controller, mFilePathPreFix, burst,
                   cancelRemoves>>

(* What is left in the looper of a destroyed Activity is for its own state *)
(* machine, which ignores it in STATE_FINALIZE.                            *)
Recreate ==
    /\ Running
    /\ activity = "destroyed"
    /\ NewStateMachine
    /\ UNCHANGED <<earlier, listener>>

(* The application is started again before the onDestroy() of an Activity  *)
(* that has finished; its surface, hidden in STATE_PAUSE, is gone by then. *)
(* Its state machine is still to handle EVENT_FINALIZE, and maybe messages *)
(* left in the looper, however many (a TICK finds it out of STATE_PHOTO_-  *)
(* CAPTURE and is dropped).                                                *)
Relaunch ==
    /\ Running
    /\ activity = "paused" /\ finishing /\ surface = "none"
    /\ earlier' \in (earlier + 1)..MaxEarlier
    /\ \/ earlier' = earlier + 1
       \/ At(looper, ChainKind \ {"TICK"}) # {}
       \/ \E m \in BagToSet(timers) : m.kind = "RETRY"
    /\ NewStateMachine
    /\ DetachListener

(* sendEvent() of an earlier state machine, in STATE_PAUSE: it detaches    *)
(* whatever state machine is attached by now.                              *)
EarlierEvent ==
    /\ Running
    /\ earlier > 0
    /\ earlier' = earlier - 1
    /\ listener' = IF listener = "this" THEN "cleared" ELSE listener
    /\ UNCHANGED <<currentState, activity, finishing, surface, resizing, crash,
                   cameraVars, controller, mFilePathPreFix, frameVars, looper,
                   timers, burst, cancelRemoves>>

(* A message that is handled without calling sendEvent(). *)
IsDropped(m) ==
    \/ m.kind = "REMOVED"
    \/ m.kind = "AF" /\ ~(afArmed /\ activity = "resumed")
    \/ m.kind = "TICK" /\ currentState # "CAPTURE"

(* The looper handles its next message. *)
ProcessMessage ==
    /\ Running
    /\ looper # << >>
    /\ LET m == Head(looper)
           q == Tail(looper)
       IN  \/ IsDropped(m) /\ Ignore(q)
           \/ /\ ~IsDropped(m)
              /\ \/ m.kind = "AF" /\ SendEvent("AUTO_FOCUS_DONE", m.burst, q)
                 \/ m.kind \in {"FRAME_NULL", "FRAME"} /\ SendEvent(m.kind, m.burst, q)
                 \/ m.kind \in {"TICK", "RETRY"} /\ SendEvent("REQUEST_NEXT", m.burst, q)
    /\ UNCHANGED <<windowVars, cancelRemoves>>

(* A delayed message becomes due. *)
TimerDue ==
    /\ Running
    /\ \E m \in BagToSet(timers) :
           /\ timers' = timers (-) SetToBag({m})
           /\ looper' = Append(looper, m)
    /\ UNCHANGED <<currentState, windowVars, crash, cameraVars, stackVars,
                   frameVars, burst, cancelRemoves>>

(* The opener thread ends. *)
CameraOpens ==
    /\ Running
    /\ camera = "opening"
    /\ camera' \in {"open", "released"}
    /\ UNCHANGED <<currentState, windowVars, crash, previewCallback, afRunning,
                   afArmed, stackVars, frameVars, looper, timers, burst, cancelRemoves>>

FocusCompletes ==
    /\ Running
    /\ afRunning
    /\ Len(looper) < MaxLooper
    /\ afRunning' = FALSE
    /\ looper' = Append(looper, Msg("AF", 0))
    /\ UNCHANGED <<currentState, windowVars, crash, camera, previewCallback, afArmed,
                   stackVars, frameVars, timers, burst, cancelRemoves>>

(* The camera fills a lent buffer; onPreviewFrameUpdated() does nothing.   *)
PreviewFrame ==
    /\ Running
    /\ previewCallback
    /\ \E i \in requested :
           /\ requested' = requested \ {i}
           /\ fresh' = fresh \cup {i}
    /\ UNCHANGED <<currentState, windowVars, crash, cameraVars, stackVars,
                   mCurrentBufferIndex, looper, timers, burst, cancelRemoves>>

Dead == ~Running /\ UNCHANGED vars

Next ==
    \/ \E e \in UserEvent : UserInput(e)
    \/ SurfaceCreated
    \/ SurfaceChanged
    \/ SurfaceDestroyed
    \/ BackKey
    \/ OnResume
    \/ OnPause
    \/ OnDestroy
    \/ Recreate
    \/ Relaunch
    \/ EarlierEvent
    \/ ProcessMessage
    \/ TimerDue
    \/ CameraOpens
    \/ FocusCompletes
    \/ PreviewFrame
    \/ Dead

(* The looper runs, timers become due and a camera with buffers delivers   *)
(* frames.  Users, windows and the opener thread promise nothing.          *)
Spec == /\ Init /\ [][Next]_vars
        /\ WF_vars(ProcessMessage) /\ WF_vars(TimerDue) /\ WF_vars(PreviewFrame)

-----------------------------------------------------------------------------
(* The message the looper handles next, when a burst is being captured.    *)
NextInCapture(kind) ==
    currentState = "CAPTURE" /\ looper # << >> /\ Head(looper).kind = kind

Due(q, m)     == Cardinality({i \in 1..Len(q) : q[i] = m})
Delayed(t, m) == IF m \in BagToSet(t) THEN t[m] ELSE 0
Pending(m)    == Due(looper, m) + Delayed(timers, m)

ChainLength(b) ==
    Pending(Msg("FRAME_NULL", b)) + Pending(Msg("FRAME", b)) +
    Pending(Msg("TICK", b)) + Pending(Msg("RETRY", b))

(* A frame is stored only while its burst is open, and a burst is opened   *)
(* only when none is: what NativeSavingTaskStack assumes of its caller,    *)
(* although startCapturing() is posted, not called, and messages of an     *)
(* earlier burst may still be under way.                                   *)
StoredOnlyInOpenBurst == cancelRemoves =>
    /\ NextInCapture("FRAME") => mFilePathPreFix # 0
    /\ NextInCapture("FRAME_NULL") => mFilePathPreFix = 0

(* No burst stays open outside STATE_PHOTO_CAPTURE: whatever ends the      *)
(* capture also calls finishCapturing().                                   *)
OpenOnlyWhileCapturing ==
    mFilePathPreFix # 0 => currentState = "CAPTURE"

(* While capturing, the current burst has exactly one message under way:   *)
(* its chain neither dies when memory is low nor forks.                    *)
ChainAlive ==
    currentState = "CAPTURE" => ChainLength(burst) = 1

(* Capture always goes on to ask for a frame (or for memory) again, as     *)
(* long as it is not ended.                                                *)
CaptureNeverStalls ==
    currentState = "CAPTURE" ~>
        currentState # "CAPTURE" \/ NextInCapture("TICK") \/ NextInCapture("RETRY")

(* From standby on, a camera is open and the back end has been told to     *)
(* report to this state machine, however often the Activity was paused or  *)
(* made anew; the only one that can have undone that is the state machine  *)
(* of an earlier Activity whose onDestroy() came late.                     *)
ReadyWhenActive ==
    currentState \in {"STANDBY", "ZOOMING", "AF_SEARCH", "AF_DONE",
                      "WAIT_FOR_AF_DONE", "CAPTURE"}
        => camera = "open" /\ controller /\ listener # "other"

(* The application-wide back end lets go of a destroyed Activity.          *)
DetachedWhenDestroyed ==
    currentState = "FINALIZE" => listener # "this"

(* In the first burst the buffer to be stored was lent to the camera since *)
(* it was last stored, and the camera has filled it or, being late, still  *)
(* has it.                                                                 *)
FreshFrameStored ==
    NextInCapture("FRAME") /\ previewCallback /\ burst = 1
        => mCurrentBufferIndex \in fresh \cup requested

(* "Burst shot minimum interval.": a timer lies between two frames of a    *)
(* burst, so two frames are never under way at the same time.              *)
MinimumIntervalKept ==
    currentState = "CAPTURE" =>
        Cardinality({i \in 1..Len(looper) : looper[i].kind = "FRAME"}) <= 1

(* "Delegate surface resize process to onSurfaceChanged.": once            *)
(* surfaceChanged() came and the camera is open, the resize that prepares  *)
(* the view finder is under way or done.                                   *)
ResizeNotForgotten ==
    currentState = "RESUME" /\ surface = "changed" /\ camera = "open" => resizing

(* "Finish as abnormal end.": a camera that is not open when the surface   *)
(* is prepared ends the Activity, not the process.                         *)
AbnormalEndFinishes == crash # "prepare"

(* "Already initialized.": a state machine that has taken over the back    *)
(* end is told of every photo it has stored.                               *)
ListenerKept == currentState = "CAPTURE" => listener = "this"
-----------------------------------------------------------------------------
(* The inductive invariant: why the properties above hold.                 *)

(* The state machine follows the life cycle of the Activity; a paused one  *)
(* has given the camera back.                                              *)
LifeInv == Running =>
    /\ activity = "created" => currentState = "INITIALIZE"
    /\ activity = "resumed" => currentState \notin {"INITIALIZE", "FINALIZE"}
    /\ activity = "paused" => currentState = "PAUSE" /\ camera = "released"
    /\ activity = "destroyed" => currentState = "FINALIZE"

(* Messages of a chain are of a burst that was started, and timers carry   *)
(* nothing else; a focus run may end in a burst the bound allows.          *)
MessageInv ==
    /\ \A i \in At(looper, ChainKind) : looper[i].burst \in 1..burst
    /\ \A m \in BagToSet(timers) :
           m.kind \in {"TICK", "RETRY"} /\ m.burst \in 1..burst
    /\ currentState \in {"AF_SEARCH", "AF_DONE", "WAIT_FOR_AF_DONE"}
           => burst < MaxBursts

(* With a cancelAutoFocus() that removes messages, a focus run or its one  *)
(* message is under way only while somebody waits for it.                  *)
FocusInv == cancelRemoves =>
    /\ afRunning \/ At(looper, {"AF"}) # {}
           => currentState \in {"AF_SEARCH", "WAIT_FOR_AF_DONE"}
    /\ afRunning => At(looper, {"AF"}) = {}
    /\ \A i, j \in At(looper, {"AF"}) : i = j

(* So the focus message that starts a burst finds the frame messages of    *)
(* earlier bursts handled, and startCapturing() comes before the first     *)
(* frame, the older ones a late timer may still ask for included.          *)
OrderInv == cancelRemoves =>
    /\ \A i \in At(looper, {"AF"}), j \in At(looper, {"FRAME_NULL", "FRAME"}) : j < i
    /\ currentState = "AF_DONE" => At(looper, {"FRAME_NULL", "FRAME"}) = {}
    /\ currentState = "CAPTURE" =>
           /\ \A i, j \in At(looper, {"FRAME_NULL"}) : i = j
           /\ \A i \in At(looper, {"FRAME_NULL"}), j \in At(looper, {"FRAME"}) : i < j
           /\ mFilePathPreFix = 0 <=> At(looper, {"FRAME_NULL"}) # {}

(* The buffer to be stored next was lent since it was last stored, and     *)
(* with a FRAME under way so was the one after it.                         *)
FrameInv == currentState = "CAPTURE" /\ burst = 1 =>
    /\ mCurrentBufferIndex \in fresh \cup requested
    /\ At(looper, {"FRAME"}) # {}
           => NextBuffer(mCurrentBufferIndex) \in fresh \cup requested

Inv ==
    /\ TypeOK
    /\ LifeInv
    /\ ReadyWhenActive
    /\ OpenOnlyWhileCapturing
    /\ DetachedWhenDestroyed
    /\ MessageInv
    /\ FocusInv
    /\ OrderInv
    /\ ChainAlive
    /\ FrameInv
=============================================================================
