---------------------- MODULE BurstStateMachine_proofs ----------------------
(***************************************************************************)
(* Proofs about the states of BurstStateMachine: what its life cycle, its  *)
(* camera, its saving back end and its open burst have to do with each     *)
(* other, for any number of bursts and messages; and lemmas about the      *)
(* looper and the timers, which BurstStateMachine_chain builds on.         *)
(***************************************************************************)
EXTENDS BurstStateMachine, SequenceTheorems, FiniteSetTheorems, TLAPS

(* These four hold because of each other, and of nothing else: no type, no *)
(* message order, no assumption about the device.                          *)
StateInv ==
    /\ LifeInv
    /\ ReadyWhenActive
    /\ OpenOnlyWhileCapturing
    /\ DetachedWhenDestroyed

(* What SendEvent() may do to the parts StateInv is about.  BecomeReady is *)
(* one way; every other row keeps the camera or runs outside the active    *)
(* states, keeps the listener or detaches it in STATE_PAUSE, and opens a   *)
(* burst only in STATE_PHOTO_CAPTURE.                                      *)
Active == {"STANDBY", "ZOOMING", "AF_SEARCH", "AF_DONE", "WAIT_FOR_AF_DONE", "CAPTURE"}

Readies ==
    /\ currentState \in {"RESUME", "PAUSE"} /\ camera # "released"
    /\ currentState' = "STANDBY" /\ camera' = "open"
    /\ controller' /\ listener' = "this"
    /\ mFilePathPreFix' = mFilePathPreFix

StaysActive ==
    /\ currentState \in Active /\ currentState' \in Active
    /\ UNCHANGED <<camera, controller, listener>>
    /\ currentState' # "CAPTURE" => mFilePathPreFix' = 0 \/ UNCHANGED mFilePathPreFix
    /\ currentState = "CAPTURE" /\ currentState' # "CAPTURE" => mFilePathPreFix' = 0

Resumes(e) ==
    /\ currentState = "INITIALIZE" /\ e = "RESUME" /\ currentState' = "RESUME"
    /\ UNCHANGED <<camera, stackVars>>

OpensCamera ==
    /\ currentState = "RESUME" /\ currentState' = "RESUME"
    /\ UNCHANGED stackVars

Paused(e) ==
    /\ currentState = "PAUSE" /\ listener' = "other"
    /\ UNCHANGED <<camera, controller, mFilePathPreFix>>
    /\ currentState' = CASE e = "RESUME"   -> "RESUME"
                         [] e = "FINALIZE" -> "FINALIZE"
                         [] OTHER          -> "PAUSE"

KeepsState == UNCHANGED <<currentState, camera, stackVars>>

LEMMA SendEventEffect ==
    ASSUME NEW e, NEW b, NEW q, SendEvent(e, b, q)
    PROVE  \/ Readies
           \/ StaysActive
           \/ Resumes(e)
           \/ OpensCamera
           \/ Paused(e) /\ UNCHANGED crash
           \/ KeepsState /\ currentState # "PAUSE" /\ UNCHANGED crash
           \/ KeepsState /\ crash' # "none"
<1> USE DEF ChangeTo, cameraVars, stackVars, Active
<1>a. ASSUME NEW why \in {"controller", "prepare", "camera"}, Crash(why)
      PROVE  KeepsState /\ crash' # "none"
  BY <1>a DEF Crash, KeepsState
<1>b. ASSUME OnSurfacePrepared(q), currentState \in {"RESUME", "PAUSE"}
      PROVE  Readies \/ (KeepsState /\ crash' # "none")
  BY <1>a, <1>b DEF OnSurfacePrepared, BecomeReady, AttachToController, Readies
<1>c. ASSUME CancelAutoFocus(q), currentState \in Active \ {"CAPTURE"}
      PROVE  StaysActive
  BY <1>c DEF CancelAutoFocus, StaysActive
<1>d. ASSUME TakeFirstFrame(q), UNCHANGED cameraVars, currentState \in Active \ {"CAPTURE"}
      PROVE  StaysActive
  BY <1>d DEF TakeFirstFrame, StaysActive
<1>1. CASE currentState = "INITIALIZE" /\ InInitialize(e, q)
  BY <1>1 DEF InInitialize, Resumes
<1>2. CASE currentState = "RESUME" /\ InResume(e, q)
  BY <1>2, <1>b DEF InResume, OnSurfaceCreated, OnSurfaceChanged, OpensCamera
<1>3. CASE currentState = "STANDBY" /\ InStandby(e, q)
  BY <1>3, <1>a DEF InStandby, ChangeCameraDevice, AutoFocus, StaysActive
<1>4. CASE currentState = "ZOOMING" /\ InZooming(e, q)
  BY <1>4 DEF InZooming, StaysActive
<1>5. CASE currentState = "AF_SEARCH" /\ InAfSearch(e, q)
  BY <1>5, <1>c DEF InAfSearch, StaysActive
<1>6. CASE currentState = "AF_DONE" /\ InAfDone(e, q)
  BY <1>6, <1>c, <1>d DEF InAfDone
<1>7. CASE currentState = "WAIT_FOR_AF_DONE" /\ InWaitForAfDone(e, q)
  BY <1>7, <1>c, <1>d DEF InWaitForAfDone
<1>8. CASE currentState = "CAPTURE" /\ InCapture(e, b, q)
  BY <1>8 DEF InCapture, FinishCapturing, RequestNextCapture, TakeNextFrame, StartTimer,
              StaysActive
<1>9. CASE currentState = "PAUSE" /\ InPause(e, q)
  BY <1>9, <1>a, <1>b DEF InPause, DetachListener, Paused
<1>10. CASE currentState # "PAUSE" /\ <<currentState, e>> \notin Rows /\ Ignore(q)
  BY <1>10 DEF Ignore, KeepsState
<1> QED BY <1>1, <1>2, <1>3, <1>4, <1>5, <1>6, <1>7, <1>8, <1>9, <1>10 DEF SendEvent

(* sendEvent() keeps all but the life cycle part by itself.                *)
LEMMA SendEventKeeps ==
    ASSUME ReadyWhenActive, OpenOnlyWhileCapturing, DetachedWhenDestroyed,
           NEW e, NEW b, NEW q, SendEvent(e, b, q)
    PROVE  ReadyWhenActive' /\ OpenOnlyWhileCapturing' /\ DetachedWhenDestroyed'
<1> USE DEF ReadyWhenActive, OpenOnlyWhileCapturing, DetachedWhenDestroyed
<1>1. CASE Readies
  BY <1>1 DEF Readies
<1>2. CASE StaysActive
  BY <1>2 DEF StaysActive, Active
<1>3. CASE Resumes(e) \/ OpensCamera
  BY <1>3 DEF Resumes, OpensCamera, stackVars
<1>4. CASE Paused(e)
  BY <1>4 DEF Paused
<1>5. CASE KeepsState
  BY <1>5 DEF KeepsState, stackVars
<1> QED BY <1>1, <1>2, <1>3, <1>4, <1>5, SendEventEffect

(* And the life cycle part, for the events that are not of the life cycle. *)
LEMMA SendEventLife ==
    ASSUME LifeInv, Running, UNCHANGED activity,
           NEW e, NEW b, NEW q, SendEvent(e, b, q), e \notin {"RESUME", "FINALIZE"}
    PROVE  LifeInv'
<1> USE DEF LifeInv, Running
<1>1. CASE Readies
  BY <1>1 DEF Readies
<1>2. CASE StaysActive
  BY <1>2 DEF StaysActive, Active
<1>3. CASE Resumes(e) \/ OpensCamera
  BY <1>3 DEF Resumes, OpensCamera
<1>4. CASE Paused(e) /\ UNCHANGED crash
  BY <1>4 DEF Paused
<1>5. CASE KeepsState /\ (UNCHANGED crash \/ crash' # "none")
  BY <1>5 DEF KeepsState
<1> QED BY <1>1, <1>2, <1>3, <1>4, <1>5, SendEventEffect

LEMMA InitStateInv == Init => StateInv
BY DEF Init, StateInv, LifeInv, ReadyWhenActive, OpenOnlyWhileCapturing,
       DetachedWhenDestroyed

(* Every action keeps them.                                                *)
LEMMA StepStateInv ==
    ASSUME StateInv, [Next]_vars
    PROVE  StateInv'
<1>0. LifeInv /\ ReadyWhenActive /\ OpenOnlyWhileCapturing /\ DetachedWhenDestroyed
  BY DEF StateInv
<1> USE <1>0
<1>a. ASSUME NEW e, NEW b, NEW q, SendEvent(e, b, q), e \notin {"RESUME", "FINALIZE"},
             Running, UNCHANGED activity
      PROVE  StateInv'
  BY <1>a, SendEventKeeps, SendEventLife DEF StateInv
<1>b. ASSUME UNCHANGED <<activity, crash>>, KeepsState
      PROVE  StateInv'
  BY <1>b DEF KeepsState, stackVars, StateInv, LifeInv, Running, ReadyWhenActive,
              OpenOnlyWhileCapturing, DetachedWhenDestroyed
<1>1. ASSUME NEW e \in UserEvent, UserInput(e) PROVE StateInv'
  <2>1. e \notin {"RESUME", "FINALIZE"}
    BY DEF UserEvent
  <2> QED BY <1>1, <1>a, <2>1 DEF UserInput
<1>2. CASE SurfaceCreated
  <2>1. CASE SendEvent("SURFACE_CREATED", 0, looper)
    BY <1>2, <1>a, <2>1 DEF SurfaceCreated
  <2>2. CASE currentState = "RESUME" /\ BecomeReady(looper)
    BY <1>2, <2>2 DEF SurfaceCreated, BecomeReady, AttachToController, StateInv, LifeInv,
                      Running, ReadyWhenActive, OpenOnlyWhileCapturing,
                      DetachedWhenDestroyed
  <2> QED BY <1>2, <2>1, <2>2 DEF SurfaceCreated
<1>3. CASE SurfaceChanged
  <2>1. CASE Ignore(looper)
    BY <1>3, <1>b, <2>1 DEF SurfaceChanged, Ignore, ChangeTo, cameraVars, KeepsState
  <2>2. CASE ~Ignore(looper)
    BY <1>3, <1>a, <2>2 DEF SurfaceChanged
  <2> QED BY <2>1, <2>2
<1>4. CASE SurfaceDestroyed
  BY <1>4, <1>b DEF SurfaceDestroyed, KeepsState, cameraVars
<1>5. CASE BackKey
  BY <1>5 DEF BackKey, PauseEvent, ChangeTo, windowVars, cameraVars, stackVars, StateInv,
              LifeInv, Running, ReadyWhenActive, OpenOnlyWhileCapturing,
              DetachedWhenDestroyed
<1>6. CASE OnResume
  <2>1. currentState \in {"INITIALIZE", "PAUSE"}
    BY <1>6 DEF OnResume, LifeInv
  <2>2. CASE crash' # "none"
    BY <1>6, <2>1, <2>2 DEF OnResume, Crash, Running, cameraVars, stackVars, StateInv,
              LifeInv, ReadyWhenActive, OpenOnlyWhileCapturing, DetachedWhenDestroyed
  <2>3. CASE crash' = "none"
    <3>1. /\ currentState' = "RESUME" /\ activity' = "resumed"
          /\ UNCHANGED mFilePathPreFix
      BY <1>6, <2>3 DEF OnResume, Crash
    <3> QED BY <2>1, <3>1 DEF StateInv, LifeInv, ReadyWhenActive,
                              OpenOnlyWhileCapturing, DetachedWhenDestroyed
  <2> QED BY <2>2, <2>3
<1>7. CASE OnPause
  <2>1. /\ currentState' = "PAUSE" /\ activity' = "paused" /\ camera' = "released"
        /\ mFilePathPreFix' = 0 \/ UNCHANGED mFilePathPreFix
        /\ currentState = "CAPTURE" => mFilePathPreFix' = 0
    BY <1>7 DEF OnPause, PauseEvent, ChangeTo, FinishCapturing, stackVars
  <2> QED BY <2>1 DEF StateInv, LifeInv, ReadyWhenActive, OpenOnlyWhileCapturing,
                      DetachedWhenDestroyed
<1>8. CASE OnDestroy
  <2>1. /\ Running /\ currentState = "PAUSE" /\ camera = "released"
        /\ activity' = "destroyed" /\ SendEvent("FINALIZE", 0, looper)
    BY <1>8 DEF OnDestroy, LifeInv
  <2>2. currentState' = "FINALIZE" \/ crash' # "none"
    BY <2>1, SendEventEffect
       DEF Readies, StaysActive, Active, Resumes, OpensCamera, Paused
  <2>3. LifeInv'
    BY <2>1, <2>2 DEF LifeInv, Running
  <2> QED BY <2>1, <2>3, SendEventKeeps DEF StateInv
<1>9. CASE Recreate
  BY <1>9 DEF Recreate, NewStateMachine, StateInv, LifeInv, ReadyWhenActive,
              OpenOnlyWhileCapturing, DetachedWhenDestroyed
<1>10. CASE ProcessMessage
  <2>1. Running /\ UNCHANGED activity
    BY <1>10 DEF ProcessMessage, windowVars
  <2>2. CASE Ignore(Tail(looper))
    BY <1>b, <2>1, <2>2 DEF Ignore, ChangeTo, cameraVars, KeepsState
  <2>3. CASE ~Ignore(Tail(looper))
    <3>1. \E e \in {"AUTO_FOCUS_DONE", "FRAME_NULL", "FRAME", "REQUEST_NEXT"} :
             SendEvent(e, Head(looper).burst, Tail(looper))
      BY <1>10, <2>3 DEF ProcessMessage
    <3> QED BY <1>a, <2>1, <3>1
  <2> QED BY <2>2, <2>3
<1>11. CASE CameraOpens
  BY <1>11 DEF CameraOpens, windowVars, stackVars, StateInv, LifeInv, ReadyWhenActive,
               OpenOnlyWhileCapturing, DetachedWhenDestroyed, Running
<1>12. CASE TimerDue \/ FocusCompletes \/ PreviewFrame
  BY <1>12, <1>b DEF TimerDue, FocusCompletes, PreviewFrame, windowVars, cameraVars,
                     KeepsState
<1>13. CASE Relaunch
  BY <1>13 DEF Relaunch, NewStateMachine, StateInv, LifeInv, ReadyWhenActive,
               OpenOnlyWhileCapturing, DetachedWhenDestroyed
<1>14. CASE EarlierEvent
  BY <1>14 DEF EarlierEvent, cameraVars, StateInv, LifeInv, Running,
               ReadyWhenActive, OpenOnlyWhileCapturing, DetachedWhenDestroyed
<1>15. CASE UNCHANGED vars
  BY <1>15, <1>b DEF vars, windowVars, cameraVars, KeepsState
<1> QED BY <1>1, <1>2, <1>3, <1>4, <1>5, <1>6, <1>7, <1>8, <1>9, <1>10, <1>11, <1>12,
           <1>13, <1>14, <1>15 DEF Next, Dead

-----------------------------------------------------------------------------
(* The four hold in every reachable state.                                 *)
THEOREM StateInvHolds == Spec => []StateInv
<1>1. StateInv /\ [Next]_vars => StateInv'
  BY StepStateInv
<1> QED BY InitStateInv, <1>1, PTL DEF Spec

(* From standby on there is an open camera, and a saving back end that has *)
(* been told to report to this state machine: after every pause, every     *)
(* change of camera and every new Activity, the one that starts before the *)
(* onDestroy() of a finished one included.  Nobody but the state machine   *)
(* of such an earlier Activity takes that back.                            *)
THEOREM Ready == Spec => []ReadyWhenActive
<1>1. StateInv => ReadyWhenActive
  BY DEF StateInv
<1> QED BY StateInvHolds, <1>1, PTL

(* Whatever ends the capture, key, pause or back key, closes its burst.    *)
THEOREM BurstIsClosed == Spec => []OpenOnlyWhileCapturing
<1>1. StateInv => OpenOnlyWhileCapturing
  BY DEF StateInv
<1> QED BY StateInvHolds, <1>1, PTL

(* The back end, which outlives the Activity, keeps no reference to a      *)
(* destroyed one.                                                          *)
THEOREM DestroyedIsDetached == Spec => []DetachedWhenDestroyed
<1>1. StateInv => DetachedWhenDestroyed
  BY DEF StateInv
<1> QED BY StateInvHolds, <1>1, PTL

-----------------------------------------------------------------------------
(* Where the messages of the looper are after one is posted, handled or    *)
(* removed.                                                                *)

(* Posting a message puts it at the end and moves no other.                *)
LEMMA AtAppend ==
    ASSUME NEW q \in Seq(Message), NEW x \in Message, NEW kinds
    PROVE  /\ Append(q, x) \in Seq(Message)
           /\ Len(Append(q, x)) = Len(q) + 1
           /\ \A i \in 1..Len(q) : Append(q, x)[i] = q[i]
           /\ Append(q, x)[Len(q) + 1] = x
           /\ At(Append(q, x), kinds) =
                 At(q, kinds) \cup {i \in {Len(q) + 1} : x.kind \in kinds}
<1>1. /\ Append(q, x) \in Seq(Message) /\ Len(q) \in Nat
      /\ Len(Append(q, x)) = Len(q) + 1
      /\ \A i \in 1..Len(q) : Append(q, x)[i] = q[i]
      /\ Append(q, x)[Len(q) + 1] = x
  BY AppendProperties
<1> QED BY <1>1 DEF At

(* Handling the first message moves all others up by one.                  *)
LEMMA AtTail ==
    ASSUME NEW q \in Seq(Message), q # << >>, NEW kinds
    PROVE  /\ Head(q) \in Message /\ Head(q) = q[1] /\ 1 \in 1..Len(q)
           /\ Tail(q) \in Seq(Message) /\ Len(Tail(q)) = Len(q) - 1
           /\ \A i \in 1..Len(Tail(q)) : i + 1 \in 1..Len(q) /\ Tail(q)[i] = q[i + 1]
           /\ \A i \in At(Tail(q), kinds) : i + 1 \in At(q, kinds)
           /\ Head(q).kind \in kinds => 1 \in At(q, kinds)
<1>1. /\ Head(q) \in Message /\ Head(q) = q[1] /\ Len(q) \in Nat \ {0}
      /\ Tail(q) \in Seq(Message) /\ Len(Tail(q)) = Len(q) - 1
      /\ \A i \in 1..Len(Tail(q)) : Tail(q)[i] = q[i + 1]
  BY HeadTailProperties, EmptySeq
<1>2. \A i \in 1..Len(Tail(q)) : i + 1 \in 1..Len(q)
  BY <1>1
<1> QED BY <1>1, <1>2 DEF At

(* Removing the focus messages leaves every other where it is.             *)
LEMMA AtWithoutFocus ==
    ASSUME NEW q \in Seq(Message), NEW kinds, "REMOVED" \notin kinds
    PROVE  /\ WithoutFocus(q) \in Seq(Message) /\ Len(WithoutFocus(q)) = Len(q)
           /\ \A i \in 1..Len(q) : IF q[i].kind = "AF"
                 THEN WithoutFocus(q)[i] = Msg("REMOVED", 0)
                 ELSE WithoutFocus(q)[i] = q[i]
           /\ At(WithoutFocus(q), {"AF"}) = {}
           /\ "AF" \notin kinds => At(WithoutFocus(q), kinds) = At(q, kinds)
<1>1. /\ Len(q) \in Nat
      /\ \A i \in 1..Len(q) : q[i] \in Message
      /\ Msg("REMOVED", 0) \in Message
  <2>1. Msg("REMOVED", 0) \in Message
    BY BoundsAssumption DEF Message, Msg
  <2>2. Len(q) \in Nat /\ \A i \in 1..Len(q) : q[i] \in Message
    OBVIOUS
  <2> QED BY <2>1, <2>2
<1>2. WithoutFocus(q) \in [1..Len(q) -> Message]
  BY <1>1 DEF WithoutFocus
<1>3. WithoutFocus(q) \in Seq(Message) /\ Len(WithoutFocus(q)) = Len(q)
  BY <1>1, <1>2
<1>4. \A i \in 1..Len(q) : WithoutFocus(q)[i] =
          IF q[i].kind = "AF" THEN Msg("REMOVED", 0) ELSE q[i]
  BY DEF WithoutFocus
<1>5. Msg("REMOVED", 0).kind = "REMOVED"
  BY DEF Msg
<1> QED BY <1>3, <1>4, <1>5 DEF At

-----------------------------------------------------------------------------
(* How often.                                                              *)

Once(c) == IF c THEN 1 ELSE 0

LEMMA DueType ==
    ASSUME NEW q \in Seq(Message), NEW m
    PROVE  /\ IsFiniteSet({i \in 1..Len(q) : q[i] = m})
           /\ Due(q, m) \in Nat
           /\ Due(q, m) = 0 => \A i \in 1..Len(q) : q[i] # m
<1> DEFINE S == {i \in 1..Len(q) : q[i] = m}
<1>1. IsFiniteSet(1..Len(q))
  BY FS_Interval
<1>2. IsFiniteSet(S)
  BY <1>1, FS_Subset
<1>3. Cardinality(S) \in Nat /\ (Cardinality(S) = 0 => S = {})
  BY <1>2, FS_CardinalityType, FS_EmptySet
<1> QED BY <1>2, <1>3 DEF Due

LEMMA DueAppend ==
    ASSUME NEW q \in Seq(Message), NEW x \in Message, NEW m
    PROVE  Due(Append(q, x), m) = Due(q, m) + Once(x = m)
<1> DEFINE S == {i \in 1..Len(q) : q[i] = m}
           T == {i \in 1..Len(Append(q, x)) : Append(q, x)[i] = m}
<1>1. /\ Len(q) \in Nat /\ Len(Append(q, x)) = Len(q) + 1
      /\ \A i \in 1..Len(q) : Append(q, x)[i] = q[i]
      /\ Append(q, x)[Len(q) + 1] = x
  BY AppendProperties
<1>2. T = IF x = m THEN S \cup {Len(q) + 1} ELSE S
  BY <1>1
<1>3. Len(q) + 1 \notin S
  BY <1>1
<1>4. IsFiniteSet(S) /\ Cardinality(S) \in Nat
  BY DueType DEF Due
<1>5. Cardinality(S \cup {Len(q) + 1}) = Cardinality(S) + 1
  BY <1>3, <1>4, FS_AddElement
<1> HIDE DEF S, T
<1>6. Cardinality(T) = Cardinality(S) + Once(x = m)
  <2>1. CASE x = m
    BY <1>2, <1>5, <2>1 DEF Once
  <2>2. CASE x # m
    BY <1>2, <1>4, <2>2 DEF Once
  <2> QED BY <2>1, <2>2
<1> USE DEF S, T
<1> QED BY <1>6 DEF Due

LEMMA DueTail ==
    ASSUME NEW q \in Seq(Message), q # << >>, NEW m
    PROVE  Due(q, m) = Due(Tail(q), m) + Once(Head(q) = m)
<1> DEFINE S == {i \in 1..Len(q) : q[i] = m}
           T == {i \in 1..Len(Tail(q)) : Tail(q)[i] = m}
           f == [i \in T |-> i + 1]
<1>1. /\ Head(q) = q[1] /\ Len(q) \in Nat \ {0}
      /\ Tail(q) \in Seq(Message) /\ Len(Tail(q)) = Len(q) - 1
      /\ \A i \in 1..Len(Tail(q)) : Tail(q)[i] = q[i + 1]
  BY HeadTailProperties, EmptySeq
<1>2. IsFiniteSet(S) /\ IsFiniteSet(T) /\ Cardinality(T) \in Nat
  <2>1. Tail(q) \in Seq(Message)
    BY <1>1
  <2>2. \A s \in Seq(Message) : IsFiniteSet({i \in 1..Len(s) : s[i] = m})
    BY DueType
  <2>3. IsFiniteSet(S)
    BY <2>2
  <2>4. IsFiniteSet(T)
    BY <2>1, <2>2
  <2> QED BY <2>3, <2>4, FS_CardinalityType
<1>3. Cardinality(S \ {1}) = Cardinality(T)
  <2>1. f \in [T -> S \ {1}]
    BY <1>1
  <2>2. \A i, j \in T : f[i] = f[j] => i = j
    BY <1>1
  <2>3. \A j \in S \ {1} : \E i \in T : f[i] = j
    <3> SUFFICES ASSUME NEW j \in S \ {1} PROVE \E i \in T : f[i] = j
      OBVIOUS
    <3>1. j - 1 \in 1..Len(Tail(q)) /\ q[(j - 1) + 1] = m
      BY <1>1
    <3>2. j - 1 \in T
      BY <1>1, <3>1
    <3>3. f[j - 1] = j
      BY <3>2
    <3> QED BY <3>2, <3>3
  <2>4. f \in Bijection(T, S \ {1})
    BY <2>1, <2>2, <2>3 DEF Bijection, Injection, Surjection, IsInjective
  <2>5. ExistsBijection(T, S \ {1})
    BY <2>4 DEF ExistsBijection
  <2> QED BY <1>2, <2>5, FS_Bijection
<1>4. 1 \in S <=> Head(q) = m
  BY <1>1
<1>5. Cardinality(S \ {1}) = IF 1 \in S THEN Cardinality(S) - 1 ELSE Cardinality(S)
  BY <1>2, FS_RemoveElement
<1>6. Cardinality(S) \in Nat
  BY <1>2, FS_CardinalityType
<1> HIDE DEF S, T
<1>7. Cardinality(S) = Cardinality(T) + Once(Head(q) = m)
  <2>1. CASE Head(q) = m
    BY <1>2, <1>3, <1>4, <1>5, <1>6, <2>1 DEF Once
  <2>2. CASE Head(q) # m
    BY <1>2, <1>3, <1>4, <1>5, <1>6, <2>2 DEF Once
  <2> QED BY <2>1, <2>2
<1> USE DEF S, T
<1> QED BY <1>7 DEF Due

LEMMA DueWithoutFocus ==
    ASSUME NEW q \in Seq(Message), NEW m, m.kind \notin {"AF", "REMOVED"}
    PROVE  Due(WithoutFocus(q), m) = Due(q, m)
<1>1. /\ Len(WithoutFocus(q)) = Len(q)
      /\ \A i \in 1..Len(q) : WithoutFocus(q)[i] =
             IF q[i].kind = "AF" THEN Msg("REMOVED", 0) ELSE q[i]
  BY AtWithoutFocus
<1>2. Msg("REMOVED", 0).kind = "REMOVED"
  BY DEF Msg
<1>3. \A i \in 1..Len(q) : WithoutFocus(q)[i] = m <=> q[i] = m
  BY <1>1, <1>2
<1>4. {i \in 1..Len(WithoutFocus(q)) : WithoutFocus(q)[i] = m}
         = {i \in 1..Len(q) : q[i] = m}
  BY <1>1, <1>3
<1> QED BY <1>4 DEF Due

LEMMA DueOnce ==
    ASSUME NEW q \in Seq(Message), NEW m, Due(q, m) <= 1,
           NEW i \in 1..Len(q), q[i] = m, NEW j \in 1..Len(q), q[j] = m
    PROVE  i = j
<1> DEFINE S == {k \in 1..Len(q) : q[k] = m}
<1>1. IsFiniteSet(S) /\ Cardinality(S) = Due(q, m) /\ Due(q, m) \in Nat
  BY DueType DEF Due
<1>2. IsFiniteSet(S \ {i}) /\ Cardinality(S \ {i}) = Cardinality(S) - 1
  BY <1>1, FS_RemoveElement
<1>3. Cardinality(S \ {i}) = 0
  <2>1. Cardinality(S \ {i}) \in Nat
    BY <1>2, FS_CardinalityType
  <2> HIDE DEF S
  <2> QED BY <1>1, <1>2, <2>1
<1>4. S \ {i} = {}
  BY <1>2, <1>3, FS_EmptySet
<1> QED BY <1>4

LEMMA DueNone ==
    ASSUME NEW q \in Seq(Message), NEW m, \A i \in 1..Len(q) : q[i] # m
    PROVE  Due(q, m) = 0
<1>1. {i \in 1..Len(q) : q[i] = m} = {}
  OBVIOUS
<1> QED BY <1>1, FS_EmptySet DEF Due

-----------------------------------------------------------------------------
(* The timers.                                                             *)

LEMMA DelayedType ==
    ASSUME IsABag(timers), NEW m
    PROVE  Delayed(timers, m) \in Nat
BY DEF IsABag, BagToSet, Delayed

LEMMA TimerStarts ==
    ASSUME IsABag(timers), NEW x, timers' = timers (+) SetToBag({x})
    PROVE  /\ IsABag(timers')
           /\ BagToSet(timers') = BagToSet(timers) \cup {x}
           /\ \A m : /\ Delayed(timers, m) \in Nat
                     /\ Delayed(timers', m) = Delayed(timers, m) + Once(x = m)
<1>1. /\ timers \in [DOMAIN timers -> {n \in Nat : n > 0}]
      /\ timers' = [e \in DOMAIN timers \cup {x} |->
             (IF e \in DOMAIN timers THEN timers[e] ELSE 0) + (IF e = x THEN 1 ELSE 0)]
  BY DEF IsABag, (+), SetToBag
<1>2. timers' \in [DOMAIN timers \cup {x} -> {n \in Nat : n > 0}]
  BY <1>1
<1> QED BY <1>1, <1>2 DEF IsABag, BagToSet, Delayed, Once

LEMMA TimerEnds ==
    ASSUME IsABag(timers), NEW x \in BagToSet(timers), timers' = timers (-) SetToBag({x})
    PROVE  /\ IsABag(timers')
           /\ BagToSet(timers') \subseteq BagToSet(timers)
           /\ \A m : /\ Delayed(timers', m) \in Nat
                     /\ Delayed(timers, m) = Delayed(timers', m) + Once(x = m)
<1> DEFINE B == [e \in DOMAIN timers |-> IF e = x THEN timers[e] - 1 ELSE timers[e]]
<1>1. /\ timers \in [DOMAIN timers -> {n \in Nat : n > 0}]
      /\ x \in DOMAIN timers
      /\ timers' = [e \in {d \in DOMAIN B : B[d] > 0} |-> B[e]]
  BY DEF IsABag, (-), SetToBag, BagToSet
<1>2. \A e \in DOMAIN timers : B[e] \in Nat
  BY <1>1
<1>3. timers' \in [{d \in DOMAIN B : B[d] > 0} -> {n \in Nat : n > 0}]
  BY <1>1, <1>2
<1>4. /\ DOMAIN timers' = {d \in DOMAIN timers : B[d] > 0}
      /\ \A e \in DOMAIN timers' : timers'[e] = B[e]
  BY <1>1
<1>5. IsABag(timers') /\ BagToSet(timers') \subseteq BagToSet(timers)
  BY <1>3, <1>4 DEF IsABag, BagToSet
<1>6. ASSUME NEW m
      PROVE  /\ Delayed(timers', m) \in Nat
             /\ Delayed(timers, m) = Delayed(timers', m) + Once(x = m)
  <2>1. /\ Delayed(timers, m) = IF m \in DOMAIN timers THEN timers[m] ELSE 0
        /\ Delayed(timers', m) = IF m \in DOMAIN timers' THEN timers'[m] ELSE 0
    BY DEF BagToSet, Delayed
  <2>2. m \in DOMAIN timers => timers[m] \in Nat /\ timers[m] > 0
    BY <1>1
  <2>3. m \in DOMAIN timers => B[m] = IF m = x THEN timers[m] - 1 ELSE timers[m]
    OBVIOUS
  <2> HIDE DEF B
  <2>4. CASE m = x
    <3>1. /\ Once(x = m) = 1 /\ Delayed(timers, m) = timers[m]
          /\ m \in DOMAIN timers /\ timers[m] \in Nat /\ timers[m] > 0
          /\ B[m] = timers[m] - 1
      BY <1>1, <2>1, <2>2, <2>3, <2>4 DEF Once
    <3>2. Delayed(timers', m) = IF B[m] > 0 THEN B[m] ELSE 0
      BY <1>4, <2>1, <3>1
    <3> QED BY <3>1, <3>2
  <2>5. CASE m # x
    <3>1. Once(x = m) = 0
      BY <2>5 DEF Once
    <3>2. m \in DOMAIN timers <=> m \in DOMAIN timers'
      BY <1>4, <2>2, <2>3, <2>5
    <3>3. m \in DOMAIN timers => timers'[m] = timers[m]
      BY <1>4, <2>3, <2>5, <3>2
    <3>4. Delayed(timers', m) = Delayed(timers, m) /\ Delayed(timers, m) \in Nat
      BY <2>1, <2>2, <3>2, <3>3
    <3> QED BY <3>1, <3>4
  <2> QED BY <2>4, <2>5
<1> QED BY <1>5, <1>6
=============================================================================
