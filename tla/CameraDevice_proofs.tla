------------------------ MODULE CameraDevice_proofs ------------------------
(***************************************************************************)
(* Proofs about CameraDevice, for any number of opener threads.            *)
(***************************************************************************)
EXTENDS CameraDevice, TLAPS

(* The invariant holds initially.                                          *)
LEMMA InitInv == Init => Inv
<1> SUFFICES ASSUME Init PROVE Inv
  OBVIOUS
<1>1. \A i \in Opener : opener[i] = "none" /\ i > starts
  BY OpensAssumption DEF Init, Opener
<1>2. TypeOK
  <2>1. mContext \in BOOLEAN /\ mIsExpired \in BOOLEAN /\ resumed \in BOOLEAN /\ timedOut \in BOOLEAN
    BY Zenon DEF Init
  <2>2. starts \in 0..MaxOpens
    BY OpensAssumption DEF Init
  <2>3. opener \in [Opener -> OpenerState]
    BY DEF Init, OpenerState
  <2> QED BY <2>1, <2>2, <2>3 DEF Init, TypeOK
<1>3. StartedInv /\ HandlerInv /\ NoReleasedCamera /\ HardwareInv
  BY <1>1 DEF Init, StartedInv, HandlerInv, NoReleasedCamera, HardwareInv
<1>4. OpeningInv /\ RestingInv /\ mCamera = hardware
  BY <1>1 DEF Init, OpeningInv, RestingInv, Active
<1> QED BY <1>2, <1>3, <1>4 DEF Inv

(* submit() starts the next thread, and only that one.                     *)
LEMMA SubmitStarts ==
    ASSUME TypeOK, NEW context, SubmitOpen(context)
    PROVE  /\ starts' = starts + 1 /\ starts' \in Opener
           /\ mOpenDeviceFuture' = starts'
           /\ opener' \in [Opener -> OpenerState]
           /\ opener'[starts'] = "start"
           /\ \A i \in Opener : i # starts' => opener'[i] = opener[i]
<1>1. starts \in Nat /\ starts + 1 \in Opener
  BY OpensAssumption DEF TypeOK, SubmitOpen, Opener
<1>2. opener' = [opener EXCEPT ![starts + 1] = "start"]
  BY DEF SubmitOpen
<1> QED BY <1>1, <1>2 DEF TypeOK, SubmitOpen, OpenerState

(* What a request changes, from whichever handler it comes.                *)
LEMMA RequestStarts ==
    ASSUME TypeOK, RequestOpen
    PROVE  /\ starts' \in Opener /\ mOpenDeviceFuture' = starts'
           /\ opener' \in [Opener -> OpenerState]
           /\ mContext' \in BOOLEAN
           /\ ui' = "submitted"
           /\ UNCHANGED <<mCurrentDeviceState, mCamera, mIsExpired, hardware, timedOut>>
<1>1. SubmitOpen(TRUE)
  BY DEF RequestOpen
<1>2. mContext' \in BOOLEAN
  BY <1>1, Zenon DEF SubmitOpen
<1>3. /\ starts' \in Opener /\ mOpenDeviceFuture' = starts'
      /\ opener' \in [Opener -> OpenerState]
  BY <1>1, SubmitStarts, Zenon
<1> QED BY <1>2, <1>3 DEF RequestOpen

(* A wait that does not time out leaves no opener at work.                 *)
LEMMA WaitEnds ==
    ASSUME Inv, Wait, ~timedOut'
    PROVE  ~timedOut /\ \A i \in Opener : ~Active(i)
BY DEF Inv, OpeningInv, Wait

(* Every step keeps the types.                                             *)
LEMMA StepTypeOK ==
    ASSUME Inv, [Next]_vars
    PROVE  TypeOK'
<1>0. TypeOK
  BY DEF Inv
<1> USE <1>0, OpensAssumption DEF TypeOK
<1>1. CASE OnResume
  <2>1. CASE RequestOpen
    BY <1>1, <2>1, RequestStarts DEF OnResume, Opener
  <2>2. CASE mCurrentDeviceState # "RELEASED"
    BY <1>1, <2>2 DEF OnResume, RequestOpen
  <2> QED BY <1>1, <2>1, <2>2 DEF OnResume
<1>2. CASE OnSurface
  BY <1>2, RequestStarts DEF OnSurface, Opener
<1>3. CASE SetOpening
  BY <1>3 DEF SetOpening
<1>4. CASE GetCameraInstance
  <2>1. timedOut' \in BOOLEAN
    BY <1>4, Zenon DEF GetCameraInstance, Wait
  <2> QED BY <1>4, <2>1 DEF GetCameraInstance
<1>5. CASE OnPause
  BY <1>5 DEF OnPause
<1>6. CASE Release
  <2>1. timedOut' \in BOOLEAN
    BY <1>6, Zenon DEF Release, Wait
  <2> QED BY <1>6, <2>1 DEF Release, ReleaseCamera
<1>7. CASE ChangeCameraDevice
  BY <1>7, SubmitStarts DEF ChangeCameraDevice, SubmitOpen, ReleaseCamera, Opener
<1>8. CASE UNCHANGED vars
  BY <1>8 DEF vars
<1>9. ASSUME NEW i \in Opener, OpenerStep(i) PROVE TypeOK'
  BY <1>9 DEF OpenerStep, StartTask, OpenSucceeds, OpenFails, Configure, ConfigureFails,
              OpenerState
<1> QED BY <1>1, <1>2, <1>3, <1>4, <1>5, <1>6, <1>7, <1>8, <1>9
        DEF Next, StaysPaused

(* Threads are numbered as they start; the Future kept is of the youngest. *)
LEMMA StepStartedInv ==
    ASSUME Inv, [Next]_vars
    PROVE  StartedInv'
<1>0. TypeOK /\ StartedInv
  BY DEF Inv
<1> USE <1>0
<1>1. ASSUME NEW context, SubmitOpen(context) PROVE StartedInv'
  <2>1. \A i \in Opener : opener'[i] = "none" <=> i > starts'
    BY <1>1, SubmitStarts, OpensAssumption DEF StartedInv, TypeOK, Opener
  <2> QED BY <1>1, <2>1, SubmitStarts DEF StartedInv
<1>2. CASE UNCHANGED <<opener, starts>> /\ mOpenDeviceFuture' \in {mOpenDeviceFuture, Null}
  BY <1>2 DEF StartedInv
<1>3. ASSUME NEW i \in Opener, OpenerStep(i) PROVE StartedInv'
  <2>1. /\ opener[i] # "none" /\ opener'[i] # "none"
        /\ \A j \in Opener : j # i => opener'[j] = opener[j]
    BY <1>3 DEF OpenerStep, StartTask, OpenSucceeds, OpenFails, Configure, ConfigureFails, TypeOK
  <2>2. UNCHANGED <<starts, mOpenDeviceFuture>>
    BY <1>3 DEF OpenerStep, StartTask, OpenSucceeds, OpenFails, Configure, ConfigureFails
  <2> QED BY <2>1, <2>2 DEF StartedInv
<1> QED BY <1>1, <1>2, <1>3
        DEF Next, OnResume, OnSurface, RequestOpen, SetOpening, GetCameraInstance, OnPause,
            Release, ChangeCameraDevice, StaysPaused, vars

(* The UI thread is never between two requests.                            *)
LEMMA StepHandlerInv ==
    ASSUME Inv, [Next]_vars
    PROVE  HandlerInv'
<1>1. HandlerInv /\ TypeOK
  BY DEF Inv
<1>2. CASE UNCHANGED <<ui, resumed>>
  BY <1>1, <1>2 DEF HandlerInv
<1>3. ASSUME NEW i \in Opener, OpenerStep(i) PROVE UNCHANGED <<ui, resumed>>
  BY <1>3 DEF OpenerStep, StartTask, OpenSucceeds, OpenFails, Configure, ConfigureFails
<1>4. CASE OnResume \/ OnSurface \/ ChangeCameraDevice
  BY <1>1, <1>4 DEF HandlerInv, OnResume, OnSurface, ChangeCameraDevice, RequestOpen
<1>5. CASE SetOpening \/ GetCameraInstance
  BY <1>1, <1>5 DEF HandlerInv, SetOpening, GetCameraInstance
<1>6. CASE OnPause \/ Release
  BY <1>1, <1>6 DEF HandlerInv, OnPause, Release
<1> QED BY <1>2, <1>3, <1>4, <1>5, <1>6 DEF Next, StaysPaused, vars

(* A Camera object is the handler's from open() until its release().       *)
LEMMA StepNoReleasedCamera ==
    ASSUME Inv, [Next]_vars
    PROVE  NoReleasedCamera'
<1>1. NoReleasedCamera
  BY DEF Inv
<1>2. CASE UNCHANGED <<mCamera, hardware>>
  BY <1>1, <1>2 DEF NoReleasedCamera
<1>3. CASE ReleaseCamera
  BY <1>3 DEF NoReleasedCamera, ReleaseCamera
<1>4. ASSUME NEW i \in Opener, OpenerStep(i) PROVE NoReleasedCamera'
  BY <1>1, <1>4 DEF NoReleasedCamera, OpenerStep, StartTask, OpenSucceeds, OpenFails,
                    Configure, ConfigureFails
<1> QED BY <1>2, <1>3, <1>4
        DEF Next, OnResume, OnSurface, RequestOpen, SetOpening, GetCameraInstance, OnPause,
            Release, ChangeCameraDevice, StaysPaused, vars

(* The hardware is held by a camera whose opener got through open().       *)
LEMMA StepHardwareInv ==
    ASSUME Inv, [Next]_vars
    PROVE  HardwareInv'
<1>0. TypeOK /\ StartedInv /\ HardwareInv
  BY DEF Inv
<1> USE <1>0
<1>1. CASE UNCHANGED <<hardware, opener>>
  BY <1>1 DEF HardwareInv
<1>2. ASSUME NEW context, SubmitOpen(context), hardware' \in {hardware, Null}
      PROVE  HardwareInv'
  <2>1. hardware # Null => hardware # starts'
    BY <1>2, SubmitStarts DEF HardwareInv, StartedInv, TypeOK
  <2> QED BY <1>2, <2>1, SubmitStarts DEF HardwareInv, TypeOK
<1>3. CASE ReleaseCamera /\ UNCHANGED opener
  BY <1>3 DEF HardwareInv, ReleaseCamera
<1>4. ASSUME NEW i \in Opener, OpenerStep(i) PROVE HardwareInv'
  <2>1. CASE OpenSucceeds(i)
    BY <2>1 DEF HardwareInv, OpenSucceeds, TypeOK
  <2>2. CASE StartTask(i) \/ OpenFails(i)
    BY <2>2 DEF HardwareInv, StartTask, OpenFails, TypeOK
  <2>3. CASE Configure(i) \/ ConfigureFails(i)
    BY <2>3 DEF HardwareInv, Configure, ConfigureFails, TypeOK
  <2> QED BY <1>4, <2>1, <2>2, <2>3 DEF OpenerStep
<1>5. CASE OnResume \/ OnSurface
  BY <1>1, <1>2, <1>5 DEF OnResume, OnSurface, RequestOpen
<1>6. CASE ChangeCameraDevice
  BY <1>2, <1>6 DEF ChangeCameraDevice, ReleaseCamera
<1> QED BY <1>1, <1>3, <1>4, <1>5, <1>6
        DEF Next, SetOpening, GetCameraInstance, OnPause, Release, StaysPaused, vars

(* As long as no wait timed out, an opener works alone, and what it opened *)
(* is the camera of the handler.                                           *)
Alone == OpeningInv /\ RestingInv /\ mCamera = hardware

(* A thread started while the device rests is alone.                       *)
LEMMA SubmitAlone ==
    ASSUME TypeOK, NEW context, SubmitOpen(context),
           \A i \in Opener : ~Active(i),
           mCamera' = Null, hardware' = Null, ui' \in {"submitted", "resubmitted"}
    PROVE  Alone'
<1>1. \A i \in Opener : Active(i)' => i = starts' /\ opener'[i] = "start"
  BY SubmitStarts DEF Active
<1>2. OpeningInv'
  BY <1>1, SubmitStarts DEF OpeningInv
<1> QED BY <1>2 DEF Alone, RestingInv

LEMMA StepAlone ==
    ASSUME Inv, [Next]_vars, ~timedOut'
    PROVE  Alone'
<1>0. /\ TypeOK /\ StartedInv /\ HandlerInv /\ NoReleasedCamera
      /\ ~timedOut => OpeningInv /\ RestingInv /\ mCamera = hardware
  BY DEF Inv
<1>1. CASE OnResume
  <2>1. ~timedOut
    BY <1>1 DEF OnResume, RequestOpen
  <2>2. CASE RequestOpen
    <3>1. ui = "idle" /\ mCurrentDeviceState = "RELEASED"
      BY <1>1, <2>2 DEF OnResume, RequestOpen
    <3>2. hardware = Null /\ mCamera = Null /\ \A i \in Opener : ~Active(i)
      BY <1>0, <2>1, <3>1 DEF RestingInv
    <3> QED BY <1>0, <2>2, <3>2, SubmitAlone DEF RequestOpen
  <2>3. CASE ~RequestOpen
    BY <1>0, <1>1, <2>1, <2>3 DEF OnResume, Alone, OpeningInv, RestingInv, Active
  <2> QED BY <2>2, <2>3
<1>2. CASE OnSurface
  <2>1. ~timedOut /\ ui = "idle" /\ mCurrentDeviceState = "RELEASED" /\ RequestOpen
    BY <1>2 DEF OnSurface, RequestOpen
  <2>2. hardware = Null /\ mCamera = Null /\ \A i \in Opener : ~Active(i)
    BY <1>0, <2>1 DEF RestingInv
  <2> QED BY <1>0, <2>1, <2>2, SubmitAlone DEF RequestOpen
<1>3. CASE SetOpening
  BY <1>0, <1>3 DEF SetOpening, HandlerInv, Alone, OpeningInv, RestingInv, Active
<1>4. CASE GetCameraInstance
  <2>1. ~timedOut /\ \A i \in Opener : ~Active(i)
    BY <1>4, WaitEnds DEF GetCameraInstance
  <2> QED BY <1>0, <1>4, <2>1
          DEF GetCameraInstance, Alone, OpeningInv, RestingInv, HandlerInv, Active
<1>5. CASE OnPause
  BY <1>0, <1>5 DEF OnPause, Alone, OpeningInv, RestingInv, Active
<1>6. CASE Release
  <2>1. ~timedOut /\ \A i \in Opener : ~Active(i)
    BY <1>6, WaitEnds DEF Release
  <2> QED BY <1>0, <1>6, <2>1
          DEF Release, ReleaseCamera, Alone, OpeningInv, RestingInv, Active
<1>7. CASE ChangeCameraDevice
  <2>1. ~timedOut /\ mOpenDeviceFuture = Null /\ mCamera = hardware
    BY <1>0, <1>7 DEF ChangeCameraDevice
  <2>2. \A i \in Opener : ~Active(i)
    BY <1>0, <2>1, OpensAssumption DEF OpeningInv, Null, Opener
  <2> QED BY <1>0, <1>7, <2>1, <2>2, SubmitAlone DEF ChangeCameraDevice, ReleaseCamera
<1>8. CASE UNCHANGED vars
  BY <1>0, <1>8 DEF vars, Alone, OpeningInv, RestingInv, Active
<1>9. ASSUME NEW i \in Opener, OpenerStep(i) PROVE Alone'
  <2>1. /\ ~timedOut /\ Active(i)
        /\ UNCHANGED <<mOpenDeviceFuture, ui, resumed, starts>>
        /\ \A j \in Opener : j # i => opener'[j] = opener[j]
        /\ Null \notin Opener
    BY <1>0, <1>9, OpensAssumption
       DEF OpenerStep, StartTask, OpenSucceeds, OpenFails, Configure, ConfigureFails, Active, TypeOK,
           Null, Opener
  <2>2. i = mOpenDeviceFuture /\ \A j \in Opener : Active(j) => j = i
    BY <1>0, <2>1 DEF OpeningInv
  <2>3. ~(ui \in {"idle", "waiting"} /\ (mCurrentDeviceState = "RELEASED" \/ ~resumed))
    BY <1>0, <2>1 DEF RestingInv
  <2>4. \A j \in Opener : Active(j)' => j = i
    BY <2>1, <2>2 DEF Active
  <2>5. CASE StartTask(i)
    <3>1. /\ opener'[i] = "open" /\ hardware' = Null /\ mCamera' = Null
          /\ mCurrentDeviceState' = "OPENING"
      BY <1>0, <2>1, <2>5 DEF StartTask, TypeOK, OpeningInv
    <3> QED BY <2>1, <2>2, <2>3, <2>4, <3>1 DEF Alone, OpeningInv, RestingInv
  <2>6. CASE OpenSucceeds(i)
    <3>1. /\ opener'[i] = "configure" /\ hardware' = i /\ mCamera' = i
          /\ mCurrentDeviceState' = "OPENING"
      BY <1>0, <2>1, <2>6 DEF OpenSucceeds, TypeOK, OpeningInv
    <3> QED BY <2>1, <2>2, <2>3, <2>4, <3>1 DEF Alone, OpeningInv, RestingInv
  <2>7. CASE OpenFails(i)
    <3>1. opener'[i] = "failed" /\ hardware' = Null /\ mCamera' = Null
      BY <1>0, <2>1, <2>7 DEF OpenFails, TypeOK, OpeningInv
    <3>2. \A j \in Opener : ~Active(j)'
      BY <2>4, <3>1 DEF Active
    <3> QED BY <3>1, <3>2 DEF Alone, OpeningInv, RestingInv
  <2>8. CASE Configure(i) \/ ConfigureFails(i)
    <3>1. opener'[i] \in {"opened", "died"} /\ UNCHANGED <<mCamera, hardware>>
      BY <1>0, <2>8 DEF Configure, ConfigureFails, TypeOK
    <3>2. mCurrentDeviceState' \in {mCurrentDeviceState, "OPENED"}
      BY <2>8 DEF Configure, ConfigureFails
    <3>3. \A j \in Opener : ~Active(j)'
      BY <2>4, <3>1 DEF Active
    <3> QED BY <1>0, <2>1, <2>3, <3>1, <3>2, <3>3 DEF Alone, OpeningInv, RestingInv
  <2> QED BY <1>9, <2>5, <2>6, <2>7, <2>8 DEF OpenerStep
<1> QED BY <1>1, <1>2, <1>3, <1>4, <1>5, <1>6, <1>7, <1>8, <1>9
        DEF Next, StaysPaused

-----------------------------------------------------------------------------
(* The inductive invariant holds in every reachable state.                 *)
THEOREM InvHolds == Spec => []Inv
<1>1. Inv /\ [Next]_vars => Inv'
  BY StepTypeOK, StepStartedInv, StepHandlerInv, StepNoReleasedCamera,
     StepHardwareInv, StepAlone
     DEF Inv, Alone
<1> QED BY InitInv, <1>1, PTL DEF Spec

(* Every variable of the handler and of its opener threads keeps its type. *)
THEOREM TypesCorrect == Spec => []TypeOK
<1>1. Inv => TypeOK
  BY DEF Inv
<1> QED BY InvHolds, <1>1, PTL

(* onPause() gives the camera back, also when it comes while an opener is  *)
(* still at work, unless its wait for that opener times out.               *)
THEOREM PauseReleases == Spec => []ReleasedWhenPaused
<1>1. Inv => ReleasedWhenPaused
  BY DEF Inv, RestingInv, ReleasedWhenPaused
<1> QED BY InvHolds, <1>1, PTL

(* The handler never keeps a Camera object it has released, however many   *)
(* openers overlap and whatever waits have timed out.                      *)
THEOREM ReleasedIsForgotten == Spec => []NoReleasedCamera
<1>1. Inv => NoReleasedCamera
  BY DEF Inv
<1> QED BY InvHolds, <1>1, PTL

(* Unless a wait timed out, no Camera object holds the hardware behind the *)
(* handler's back.                                                         *)
THEOREM CameraNotLost == Spec => []NoLostCamera
<1>1. Inv => NoLostCamera
  BY DEF Inv, NoLostCamera
<1> QED BY InvHolds, <1>1, PTL

(* Unless a wait timed out, a thread that opens the camera is the only one *)
(* at work and finds the hardware free.                                    *)
THEOREM OpensAlone == Spec => []NoSelfConflict
<1>1. Inv => NoSelfConflict
  BY DEF Inv, OpeningInv, Active, NoSelfConflict
<1> QED BY InvHolds, <1>1, PTL

(* A camera that getCameraInstance() hands out without waiting holds the   *)
(* hardware and nobody works on it any more, as long as no wait timed out. *)
(* Its opener may have died of an exception: nothing is said of its        *)
(* parameters and its preview.                                             *)
THEOREM HandsOutHeld == Spec => []HandsOutHeldCamera
<1>1. ASSUME Inv, NoNeedToWait, CameraInstance # Null, ~timedOut
      PROVE  /\ hardware = CameraInstance
             /\ opener[CameraInstance] \in {"opened", "died"}
             /\ \A i \in Opener : ~Active(i)
  <2>1. \A i \in Opener : ~Active(i)
    BY <1>1 DEF Inv, OpeningInv, NoNeedToWait
  <2>2. hardware = CameraInstance
    BY <1>1 DEF CameraInstance, Inv, NoReleasedCamera
  <2>3. CameraInstance \in Opener
    BY <1>1, <2>2 DEF Inv, TypeOK
  <2>4. opener[CameraInstance] # "configure"
    BY <2>1, <2>3 DEF Active
  <2> QED BY <1>1, <2>1, <2>2, <2>4 DEF Inv, HardwareInv
<1>2. Inv => HandsOutHeldCamera
  BY <1>1 DEF HandsOutHeldCamera
<1> QED BY InvHolds, <1>2, PTL
=============================================================================
