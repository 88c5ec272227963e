----------------------- MODULE BurstStateMachine_chain -----------------------
(***************************************************************************)
(* Proofs about the messages of BurstStateMachine: the chain of a burst    *)
(* neither ends nor forks, its messages come in an order that suits the    *)
(* saving back end, and what is stored is fresh.                           *)
(***************************************************************************)
EXTENDS BurstStateMachine_proofs

-----------------------------------------------------------------------------
(* What a step does to the looper, the timers and the open burst.          *)

AfState    == {"AF_SEARCH", "AF_DONE", "WAIT_FOR_AF_DONE"}
ChainEvent == {"FRAME_NULL", "FRAME", "REQUEST_NEXT"}

(* Nothing is posted, and the capture, if it goes on, is not touched.      *)
Quiet(q) ==
    /\ looper' \in {q, WithoutFocus(q)}
    /\ UNCHANGED <<timers, burst>>
    /\ currentState' = "CAPTURE"
          => currentState = "CAPTURE" /\ UNCHANGED <<frameVars, mFilePathPreFix>>

LEMMA SendEventMessages ==
    ASSUME NEW e, NEW b, NEW q, SendEvent(e, b, q)
    PROVE  \/ Quiet(looper) /\ UNCHANGED currentState /\ currentState # "CAPTURE"
           \/ /\ Quiet(q)
              /\ currentState = "CAPTURE" => e \notin ChainEvent
              /\ currentState' = "AF_DONE" =>
                    \/ currentState = "AF_DONE"
                    \/ currentState = "AF_SEARCH" /\ e = "AUTO_FOCUS_DONE" /\ looper' = q
              /\ currentState' \in AfState =>
                    \/ currentState \in AfState
                    \/ e \in {"FOCUS_DOWN", "BUTTON_TOUCH"}
           \/ currentState = "AF_DONE" /\ e = "CAPTURE_DOWN" /\ TakeFirstFrame(q)
           \/ currentState = "WAIT_FOR_AF_DONE" /\ e = "AUTO_FOCUS_DONE"
                 /\ TakeFirstFrame(q)
           \/ currentState = "CAPTURE" /\ e \in ChainEvent /\ InCapture(e, b, q)
<1> USE DEF Quiet, ChangeTo, stackVars, frameVars, AfState, ChainEvent
<1>a. ASSUME NEW why, Crash(why), currentState # "CAPTURE"
      PROVE  Quiet(looper) /\ UNCHANGED currentState /\ currentState # "CAPTURE"
  BY <1>a DEF Crash
<1>1. CASE currentState = "INITIALIZE" /\ InInitialize(e, q)
  BY <1>1 DEF InInitialize
<1>2. CASE currentState = "RESUME" /\ InResume(e, q)
  BY <1>2, <1>a DEF InResume, OnSurfaceCreated, OnSurfaceChanged, OnSurfacePrepared,
                    BecomeReady
<1>3. CASE currentState = "STANDBY" /\ InStandby(e, q)
  BY <1>3, <1>a DEF InStandby, ChangeCameraDevice
<1>4. CASE currentState = "ZOOMING" /\ InZooming(e, q)
  BY <1>4 DEF InZooming
<1>5. CASE currentState = "AF_SEARCH" /\ InAfSearch(e, q)
  BY <1>5 DEF InAfSearch, CancelAutoFocus
<1>6. CASE currentState = "AF_DONE" /\ InAfDone(e, q)
  BY <1>6 DEF InAfDone, CancelAutoFocus
<1>7. CASE currentState = "WAIT_FOR_AF_DONE" /\ InWaitForAfDone(e, q)
  BY <1>7 DEF InWaitForAfDone, CancelAutoFocus
<1>8. CASE currentState = "CAPTURE" /\ InCapture(e, b, q)
  BY <1>8 DEF InCapture
<1>9. CASE currentState = "PAUSE" /\ InPause(e, q)
  BY <1>9, <1>a DEF InPause, OnSurfacePrepared, BecomeReady
<1>10. CASE currentState # "PAUSE" /\ <<currentState, e>> \notin Rows /\ Ignore(q)
  BY <1>10 DEF Ignore, Rows
<1> QED BY <1>1, <1>2, <1>3, <1>4, <1>5, <1>6, <1>7, <1>8, <1>9, <1>10 DEF SendEvent

(* The ways a step can go.                                                 *)

QuietEvent ==
    /\ Quiet(looper)
    /\ currentState' = "AF_DONE" => currentState = "AF_DONE"
    /\ currentState' \in AfState => currentState \in AfState \/ burst < MaxBursts

QuietMessage ==
    /\ looper # << >>
    /\ Quiet(Tail(looper))
    /\ currentState' = "CAPTURE" => Head(looper).kind \notin ChainKind
    /\ currentState' = "AF_DONE" =>
          \/ currentState = "AF_DONE"
          \/ currentState = "AF_SEARCH" /\ Head(looper).kind = "AF"
                /\ looper' = Tail(looper)
    /\ currentState' \in AfState => currentState \in AfState

StartsBurst ==
    \/ currentState = "AF_DONE" /\ TakeFirstFrame(looper)
    \/ /\ currentState = "WAIT_FOR_AF_DONE"
       /\ looper # << >> /\ Head(looper).kind = "AF"
       /\ TakeFirstFrame(Tail(looper))

ChainStep ==
    /\ looper # << >>
    /\ currentState = "CAPTURE" /\ currentState' = "CAPTURE"
    /\ UNCHANGED burst

StartsCapturing ==
    /\ ChainStep
    /\ Head(looper).kind = "FRAME_NULL"
    /\ mFilePathPreFix' = burst
    /\ StartTimer("TICK", Head(looper).burst, Tail(looper))
    /\ UNCHANGED frameVars

StoresFrame ==
    /\ ChainStep
    /\ Head(looper).kind = "FRAME"
    /\ StartTimer("TICK", Head(looper).burst, Tail(looper))
    /\ fresh' = fresh \ {mCurrentBufferIndex}
    /\ SwitchBuffer
    /\ UNCHANGED <<requested, mFilePathPreFix>>

AsksForFrame ==
    /\ ChainStep
    /\ Head(looper).kind \in {"TICK", "RETRY"}
    /\ TakeNextFrame(Head(looper).burst, Tail(looper))

WaitsForMemory ==
    /\ ChainStep
    /\ Head(looper).kind \in {"TICK", "RETRY"}
    /\ StartTimer("RETRY", Head(looper).burst, Tail(looper))
    /\ UNCHANGED <<frameVars, mFilePathPreFix>>

Anew ==
    /\ looper' = << >> /\ timers' = EmptyBag
    /\ currentState' = "INITIALIZE"
    /\ UNCHANGED burst

LEMMA MessageKinds ==
    ASSUME ProcessMessage
    PROVE  \/ QuietEvent \/ QuietMessage \/ StartsBurst
           \/ StartsCapturing \/ StoresFrame \/ AsksForFrame \/ WaitsForMemory
<1> DEFINE m == Head(looper)
           q == Tail(looper)
<1>0. looper # << >>
  BY DEF ProcessMessage
<1>a. ASSUME NEW e, e \notin {"FOCUS_DOWN", "BUTTON_TOUCH", "CAPTURE_DOWN"},
             SendEvent(e, m.burst, q),
             e = "AUTO_FOCUS_DONE" <=> m.kind = "AF",
             e \in ChainEvent <=> m.kind \in ChainKind
      PROVE  \/ QuietEvent \/ QuietMessage \/ StartsBurst
             \/ currentState = "CAPTURE" /\ e \in ChainEvent /\ InCapture(e, m.burst, q)
  <2>1. CASE Quiet(looper) /\ UNCHANGED currentState
    BY <2>1 DEF QuietEvent
  <2>2. CASE /\ Quiet(q)
             /\ currentState = "CAPTURE" => e \notin ChainEvent
             /\ currentState' = "AF_DONE" =>
                   \/ currentState = "AF_DONE"
                   \/ currentState = "AF_SEARCH" /\ e = "AUTO_FOCUS_DONE" /\ looper' = q
             /\ currentState' \in AfState => currentState \in AfState
    BY <1>0, <1>a, <2>2 DEF QuietMessage, Quiet
  <2>3. CASE currentState = "WAIT_FOR_AF_DONE" /\ e = "AUTO_FOCUS_DONE"
                /\ TakeFirstFrame(q)
    BY <1>0, <1>a, <2>3 DEF StartsBurst
  <2> HIDE DEF m, q
  <2> QED BY <1>a, <2>1, <2>2, <2>3, SendEventMessages
<1>1. CASE IsDropped(m) /\ Ignore(q)
  <2>1. UNCHANGED <<currentState, timers, burst, frameVars, mFilePathPreFix>> /\ looper' = q
    BY <1>1 DEF Ignore, ChangeTo, stackVars
  <2>2. currentState = "CAPTURE" => m.kind \notin ChainKind
    BY <1>1 DEF IsDropped, ChainKind
  <2> QED BY <1>0, <2>1, <2>2 DEF QuietMessage, Quiet
<1>2. CASE m.kind = "AF" /\ SendEvent("AUTO_FOCUS_DONE", m.burst, q)
  BY <1>2, <1>a DEF ChainEvent, ChainKind
<1>3. CASE m.kind = "FRAME_NULL" /\ SendEvent("FRAME_NULL", m.burst, q)
  <2>1. InCapture("FRAME_NULL", m.burst, q) /\ currentState = "CAPTURE" => StartsCapturing
    BY <1>0, <1>3 DEF InCapture, StartsCapturing, ChainStep
  <2> QED BY <1>3, <1>a, <2>1 DEF ChainEvent, ChainKind
<1>4. CASE m.kind = "FRAME" /\ SendEvent("FRAME", m.burst, q)
  <2>1. InCapture("FRAME", m.burst, q) /\ currentState = "CAPTURE" => StoresFrame
    BY <1>0, <1>4 DEF InCapture, StoresFrame, ChainStep, stackVars
  <2> QED BY <1>4, <1>a, <2>1 DEF ChainEvent, ChainKind
<1>5. CASE m.kind \in {"TICK", "RETRY"} /\ SendEvent("REQUEST_NEXT", m.burst, q)
  <2>1. InCapture("REQUEST_NEXT", m.burst, q) /\ currentState = "CAPTURE"
           => AsksForFrame \/ WaitsForMemory
    BY <1>0, <1>5 DEF InCapture, RequestNextCapture, TakeNextFrame, AsksForFrame,
                      WaitsForMemory, ChainStep, stackVars
  <2> QED BY <1>5, <1>a, <2>1 DEF ChainEvent, ChainKind
<1> QED BY <1>1, <1>2, <1>3, <1>4, <1>5 DEF ProcessMessage

LEMMA StepKinds ==
    ASSUME StateInv, [Next]_vars
    PROVE  \/ QuietEvent \/ QuietMessage \/ StartsBurst
           \/ StartsCapturing \/ StoresFrame \/ AsksForFrame \/ WaitsForMemory
           \/ Anew \/ TimerDue \/ FocusCompletes \/ PreviewFrame
<1>a. ASSUME NEW e, SendEvent(e, 0, looper), e \notin ChainEvent \cup {"AUTO_FOCUS_DONE"},
             e \in {"FOCUS_DOWN", "BUTTON_TOUCH"} => burst < MaxBursts
      PROVE  QuietEvent \/ StartsBurst
  BY <1>a, SendEventMessages DEF QuietEvent, StartsBurst, Quiet
<1>b. ASSUME UNCHANGED <<looper, timers, burst>>, currentState' \notin AfState,
             \/ currentState' # "CAPTURE"
             \/ UNCHANGED <<currentState, frameVars, mFilePathPreFix>>
      PROVE  QuietEvent
  BY <1>b DEF QuietEvent, Quiet, AfState
<1>c. ASSUME UNCHANGED <<looper, timers, burst, currentState, frameVars, mFilePathPreFix>>
      PROVE  QuietEvent
  BY <1>c DEF QuietEvent, Quiet
<1>1. ASSUME NEW e \in UserEvent, UserInput(e) PROVE QuietEvent \/ StartsBurst
  BY <1>1, <1>a DEF UserInput, UserEvent, ChainEvent
<1>2. CASE SurfaceCreated
  <2>1. CASE SendEvent("SURFACE_CREATED", 0, looper)
    BY <1>a, <2>1 DEF ChainEvent
  <2>2. CASE BecomeReady(looper)
    BY <1>b, <2>2 DEF BecomeReady, AfState
  <2> QED BY <1>2, <2>1, <2>2 DEF SurfaceCreated
<1>3. CASE SurfaceChanged
  <2>1. CASE SendEvent(IF resizing THEN "SURFACE_PREPARED" ELSE "SURFACE_CHANGED", 0, looper)
    BY <1>a, <2>1 DEF ChainEvent
  <2>2. CASE Ignore(looper)
    BY <1>c, <2>2 DEF Ignore, ChangeTo, stackVars
  <2> QED BY <1>3, <2>1, <2>2 DEF SurfaceChanged
<1>4. CASE BackKey \/ OnPause
  BY <1>4 DEF BackKey, OnPause, PauseEvent, ChangeTo, QuietEvent, Quiet, AfState
<1>5. CASE OnResume
  <2>1. currentState \in {"INITIALIZE", "PAUSE"}
    BY <1>5 DEF OnResume, StateInv, LifeInv
  <2>2. UNCHANGED <<looper, timers, burst>> /\ currentState' \in {currentState, "RESUME"}
    BY <1>5 DEF OnResume, Crash
  <2> QED BY <1>b, <2>1, <2>2 DEF AfState
<1>6. CASE OnDestroy
  BY <1>6, <1>a DEF OnDestroy, ChainEvent
<1>7. CASE Recreate \/ Relaunch
  BY <1>7 DEF Recreate, Relaunch, NewStateMachine, Anew
<1>8. CASE SurfaceDestroyed \/ CameraOpens \/ EarlierEvent
  BY <1>8, <1>c DEF SurfaceDestroyed, CameraOpens, EarlierEvent, stackVars
<1>9. CASE UNCHANGED vars
  BY <1>9, <1>c DEF vars, stackVars
<1> QED BY <1>1, <1>2, <1>3, <1>4, <1>5, <1>6, <1>7, <1>8, <1>9, MessageKinds
        DEF Next, Dead

-----------------------------------------------------------------------------
(* How a step moves the messages of the looper: d of them are handled, the *)
(* rest keep their order (a focus message may be removed), at most one,    *)
(* of X, is posted.                                                        *)
Moves(d, X) ==
    /\ looper' \in Seq(Message)
    /\ Len(looper') + d >= Len(looper)
    /\ \A i \in 1..Len(looper') :
          \/ /\ i + d \in 1..Len(looper)
             /\ \/ looper'[i] = looper[i + d]
                \/ looper[i + d].kind = "AF" /\ looper'[i] = Msg("REMOVED", 0)
          \/ i + d = Len(looper) + 1 /\ looper'[i] \in X
    /\ \A j \in 1..Len(looper) :
          j > d /\ looper[j].kind # "AF" => looper'[j - d] = looper[j]

LEMMA QuietMoves ==
    ASSUME looper \in Seq(Message)
    PROVE  /\ looper' \in {looper, WithoutFocus(looper)} => Moves(0, {})
           /\ looper # << >> /\ looper' \in {Tail(looper), WithoutFocus(Tail(looper))}
                 => Moves(1, {})
<1>1. ASSUME looper' \in {looper, WithoutFocus(looper)} PROVE Moves(0, {})
  <2>1. /\ WithoutFocus(looper) \in Seq(Message)
        /\ Len(WithoutFocus(looper)) = Len(looper)
        /\ \A i \in 1..Len(looper) : IF looper[i].kind = "AF"
              THEN WithoutFocus(looper)[i] = Msg("REMOVED", 0)
              ELSE WithoutFocus(looper)[i] = looper[i]
    BY AtWithoutFocus
  <2>2. Len(looper) \in Nat
    OBVIOUS
  <2> QED BY <1>1, <2>1, <2>2 DEF Moves
<1>2. ASSUME looper # << >>, looper' \in {Tail(looper), WithoutFocus(Tail(looper))}
      PROVE  Moves(1, {})
  <2> DEFINE q == Tail(looper)
  <2>1. /\ q \in Seq(Message) /\ Len(q) = Len(looper) - 1 /\ Len(looper) \in Nat
        /\ \A i \in 1..Len(q) : i + 1 \in 1..Len(looper) /\ q[i] = looper[i + 1]
    BY <1>2, AtTail
  <2> HIDE DEF q
  <2>a. q \in Seq(Message) /\ "REMOVED" \notin {}
    BY <2>1
  <2>2. /\ WithoutFocus(q) \in Seq(Message) /\ Len(WithoutFocus(q)) = Len(q)
        /\ \A i \in 1..Len(q) : IF q[i].kind = "AF"
              THEN WithoutFocus(q)[i] = Msg("REMOVED", 0)
              ELSE WithoutFocus(q)[i] = q[i]
    BY <2>a, AtWithoutFocus
  <2>3. looper' \in {q, WithoutFocus(q)}
    BY <1>2 DEF q
  <2>4. \A j \in 1..Len(looper) : j > 1 => j - 1 \in 1..Len(q) /\ q[j - 1] = looper[j]
    <3> SUFFICES ASSUME NEW j \in 1..Len(looper), j > 1
                 PROVE  j - 1 \in 1..Len(q) /\ q[j - 1] = looper[j]
      OBVIOUS
    <3>1. j - 1 \in 1..Len(q) /\ (j - 1) + 1 = j
      BY <2>1
    <3>2. q[j - 1] = looper[(j - 1) + 1]
      BY <2>1, <3>1
    <3> QED BY <3>1, <3>2
  <2>5. looper' \in Seq(Message) /\ Len(looper') = Len(looper) - 1
    BY <2>1, <2>2, <2>3
  <2>6. ASSUME NEW i \in 1..Len(looper')
        PROVE  /\ i + 1 \in 1..Len(looper)
               /\ \/ looper'[i] = looper[i + 1]
                  \/ looper[i + 1].kind = "AF" /\ looper'[i] = Msg("REMOVED", 0)
    BY <2>1, <2>2, <2>3, <2>5
  <2>7. \A j \in 1..Len(looper) :
           j > 1 /\ looper[j].kind # "AF" => looper'[j - 1] = looper[j]
    BY <2>2, <2>3, <2>4
  <2> QED BY <2>1, <2>5, <2>6, <2>7 DEF Moves
<1> QED BY <1>1, <1>2

LEMMA PostMoves ==
    ASSUME looper \in Seq(Message), NEW x \in Message
    PROVE  /\ looper' = Append(looper, x) => Moves(0, {x})
           /\ looper # << >> /\ looper' = Append(Tail(looper), x) => Moves(1, {x})
<1>1. ASSUME looper' = Append(looper, x) PROVE Moves(0, {x})
  <2>1. /\ looper' \in Seq(Message) /\ Len(looper') = Len(looper) + 1
        /\ \A i \in 1..Len(looper) : looper'[i] = looper[i]
        /\ looper'[Len(looper) + 1] = x /\ Len(looper) \in Nat
    BY <1>1, AtAppend
  <2> QED BY <2>1 DEF Moves
<1>2. ASSUME looper # << >>, looper' = Append(Tail(looper), x) PROVE Moves(1, {x})
  <2> DEFINE q == Tail(looper)
  <2>1. /\ q \in Seq(Message) /\ Len(q) = Len(looper) - 1 /\ Len(looper) \in Nat
        /\ \A i \in 1..Len(q) : i + 1 \in 1..Len(looper) /\ q[i] = looper[i + 1]
    BY <1>2, AtTail
  <2> HIDE DEF q
  <2>2. /\ looper' \in Seq(Message) /\ Len(looper') = Len(q) + 1
        /\ \A i \in 1..Len(q) : looper'[i] = q[i]
        /\ looper'[Len(q) + 1] = x
    BY <1>2, <2>1, AtAppend DEF q
  <2>3. ASSUME NEW j \in 1..Len(looper), j > 1
        PROVE  looper'[j - 1] = looper[j]
    <3>1. j - 1 \in 1..Len(q) /\ (j - 1) + 1 = j
      BY <2>1, <2>3
    <3>2. looper'[j - 1] = looper[(j - 1) + 1]
      BY <2>1, <2>2, <3>1
    <3> QED BY <3>1, <3>2
  <2>4. ASSUME NEW i \in 1..Len(looper')
        PROVE  \/ i + 1 \in 1..Len(looper) /\ looper'[i] = looper[i + 1]
               \/ i + 1 = Len(looper) + 1 /\ looper'[i] = x
    <3>1. CASE i \in 1..Len(q)
      BY <2>1, <2>2, <3>1
    <3>2. CASE i = Len(q) + 1
      BY <2>1, <2>2, <3>2
    <3> QED BY <2>1, <2>2, <3>1, <3>2
  <2> QED BY <2>1, <2>2, <2>3, <2>4 DEF Moves
<1> QED BY <1>1, <1>2

(* Where the messages of some kinds are after the step.                    *)
LEMMA MovesAt ==
    ASSUME looper \in Seq(Message), NEW d \in {0, 1}, NEW X, Moves(d, X),
           NEW kinds, "REMOVED" \notin kinds
    PROVE  /\ \A i \in At(looper', kinds) :
                 \/ i + d \in At(looper, kinds) /\ looper'[i] = looper[i + d]
                 \/ /\ i + d = Len(looper) + 1
                    /\ looper'[i] \in X /\ looper'[i].kind \in kinds
           /\ "AF" \notin kinds =>
                 \A j \in At(looper, kinds) : j > d => j - d \in At(looper', kinds)
<1>1. Msg("REMOVED", 0).kind = "REMOVED"
  BY DEF Msg
<1>2. Len(looper) \in Nat /\ Len(looper') \in Nat
  BY DEF Moves
<1>3. ASSUME NEW i \in At(looper', kinds)
      PROVE  \/ i + d \in At(looper, kinds) /\ looper'[i] = looper[i + d]
             \/ /\ i + d = Len(looper) + 1
                /\ looper'[i] \in X /\ looper'[i].kind \in kinds
  BY <1>1, <1>3 DEF Moves, At
<1>4. ASSUME "AF" \notin kinds, NEW j \in At(looper, kinds), j > d
      PROVE  j - d \in At(looper', kinds)
  <2>1. j \in 1..Len(looper) /\ looper[j].kind \in kinds
    BY DEF At
  <2>2. looper'[j - d] = looper[j]
    BY <1>4, <2>1 DEF Moves
  <2>3. j - d \in 1..Len(looper')
    BY <1>2, <1>4, <2>1 DEF Moves
  <2> QED BY <2>1, <2>2, <2>3 DEF At
<1> QED BY <1>3, <1>4

(* Which messages the kinds of steps move.                                 *)
LEMMA KindMoves ==
    ASSUME TypeOK, MessageInv
    PROVE  /\ QuietEvent \/ PreviewFrame => Moves(0, {})
           /\ QuietMessage \/ StartsCapturing \/ StoresFrame \/ WaitsForMemory
                 => looper # << >> /\ Moves(1, {})
           /\ AsksForFrame
                 => looper # << >> /\ Moves(1, {Msg("FRAME", Head(looper).burst)})
           /\ StartsBurst =>
                 /\ burst' = burst + 1 /\ burst' \in 1..MaxBursts
                 /\ \/ currentState = "AF_DONE" /\ Moves(0, {Msg("FRAME_NULL", burst')})
                    \/ /\ currentState = "WAIT_FOR_AF_DONE"
                       /\ looper # << >> /\ Head(looper).kind = "AF"
                       /\ Moves(1, {Msg("FRAME_NULL", burst')})
           /\ \A m \in BagToSet(timers) : looper' = Append(looper, m) => Moves(0, {m})
           /\ FocusCompletes => Moves(0, {Msg("AF", 0)})
<1>1. /\ looper \in Seq(Message) /\ BagToSet(timers) \subseteq Message
      /\ burst \in 0..MaxBursts
  BY DEF TypeOK
<1>2. \A k \in ChainKind \cup {"AF"}, b \in 0..MaxBursts : Msg(k, b) \in Message
  BY DEF Msg, Message
<1>3. QuietEvent \/ PreviewFrame => Moves(0, {})
  BY <1>1, QuietMoves DEF QuietEvent, PreviewFrame, Quiet
<1>4. QuietMessage \/ StartsCapturing \/ StoresFrame \/ WaitsForMemory
         => looper # << >> /\ Moves(1, {})
  BY <1>1, QuietMoves DEF QuietMessage, Quiet, StartsCapturing, StoresFrame,
                          WaitsForMemory, ChainStep, StartTimer, PostDelayed
<1>5. AsksForFrame => looper # << >> /\ Moves(1, {Msg("FRAME", Head(looper).burst)})
  <2> SUFFICES ASSUME AsksForFrame
               PROVE  looper # << >> /\ Moves(1, {Msg("FRAME", Head(looper).burst)})
    OBVIOUS
  <2>1. looper # << >> /\ looper' = Append(Tail(looper), Msg("FRAME", Head(looper).burst))
    BY DEF AsksForFrame, ChainStep, TakeNextFrame, Post
  <2>2. Head(looper) \in Message
    BY <1>1, <2>1, HeadTailProperties, EmptySeq
  <2>3. Head(looper).burst \in 0..MaxBursts
    BY <2>2 DEF Message
  <2>4. Msg("FRAME", Head(looper).burst) \in Message
    BY <1>2, <2>3 DEF ChainKind
  <2> QED BY <1>1, <2>1, <2>4, PostMoves
<1>6. ASSUME StartsBurst
      PROVE  /\ burst' = burst + 1 /\ burst' \in 1..MaxBursts
             /\ \/ currentState = "AF_DONE" /\ Moves(0, {Msg("FRAME_NULL", burst')})
                \/ /\ currentState = "WAIT_FOR_AF_DONE"
                   /\ looper # << >> /\ Head(looper).kind = "AF"
                   /\ Moves(1, {Msg("FRAME_NULL", burst')})
  <2>1. burst < MaxBursts /\ burst' = burst + 1
    BY <1>6 DEF StartsBurst, MessageInv, TakeFirstFrame
  <2>2. burst' \in 1..MaxBursts
    BY <1>1, <2>1, BoundsAssumption
  <2>3. Msg("FRAME_NULL", burst') \in Message
    BY <1>2, <2>2 DEF ChainKind
  <2>4. \/ /\ currentState = "AF_DONE"
           /\ looper' = Append(looper, Msg("FRAME_NULL", burst'))
        \/ /\ currentState = "WAIT_FOR_AF_DONE"
           /\ looper # << >> /\ Head(looper).kind = "AF"
           /\ looper' = Append(Tail(looper), Msg("FRAME_NULL", burst'))
    BY <1>6 DEF StartsBurst, TakeFirstFrame, Post
  <2> QED BY <1>1, <2>1, <2>2, <2>3, <2>4, PostMoves
<1>7. \A m \in BagToSet(timers) : looper' = Append(looper, m) => Moves(0, {m})
  BY <1>1, PostMoves
<1>8. FocusCompletes => Moves(0, {Msg("AF", 0)})
  <2>1. Msg("AF", 0) \in Message
    BY <1>2, BoundsAssumption
  <2> QED BY <1>1, <2>1, PostMoves DEF FocusCompletes
<1> QED BY <1>3, <1>4, <1>5, <1>6, <1>7, <1>8

-----------------------------------------------------------------------------
(* Messages and timers are of bursts that were started.                    *)
LEMMA StepMessageInv ==
    ASSUME TypeOK, StateInv, MessageInv, [Next]_vars
    PROVE  MessageInv'
<1>0. /\ looper \in Seq(Message) /\ IsABag(timers) /\ burst \in Nat
      /\ \A i \in At(looper, ChainKind) : looper[i].burst \in 1..burst
      /\ \A m \in BagToSet(timers) : m.kind \in {"TICK", "RETRY"} /\ m.burst \in 1..burst
      /\ currentState \in AfState => burst < MaxBursts
      /\ "REMOVED" \notin ChainKind
  BY DEF TypeOK, MessageInv, AfState, ChainKind
<1>1. \A k, b : Msg(k, b).kind = k /\ Msg(k, b).burst = b
  BY DEF Msg
<1>2. looper # << >> => /\ Head(looper) = looper[1]
                        /\ Head(looper).kind \in ChainKind => Head(looper).burst \in 1..burst
  BY <1>0, AtTail
<1>a. ASSUME NEW d \in {0, 1}, NEW X, Moves(d, X), burst' \in {burst, burst + 1},
             \A x \in X : x.kind \in ChainKind => x.burst \in 1..burst',
             \A m \in BagToSet(timers') :
                \/ m \in BagToSet(timers)
                \/ m.kind \in {"TICK", "RETRY"} /\ m.burst \in 1..burst',
             currentState' \in AfState => burst' < MaxBursts
      PROVE  MessageInv'
  <2>1. \A i \in At(looper', ChainKind) :
           \/ i + d \in At(looper, ChainKind) /\ looper'[i] = looper[i + d]
           \/ looper'[i] \in X /\ looper'[i].kind \in ChainKind
    BY <1>0, <1>a, MovesAt
  <2>2. \A i \in At(looper', ChainKind) : looper'[i].burst \in 1..burst'
    BY <1>0, <1>a, <2>1
  <2>3. \A m \in BagToSet(timers') : m.kind \in {"TICK", "RETRY"} /\ m.burst \in 1..burst'
    BY <1>0, <1>a
  <2>4. (\A i \in At(looper, ChainKind) : looper[i].burst \in 1..burst)'
    BY <2>2 DEF At
  <2> QED BY <1>a, <2>3, <2>4 DEF MessageInv, AfState
<1>b. ASSUME NEW d \in {0, 1}, Moves(d, {}), UNCHANGED <<timers, burst>>,
             currentState' \in AfState => burst < MaxBursts
      PROVE  MessageInv'
  BY <1>0, <1>a, <1>b
<1>c. ASSUME NEW k \in {"TICK", "RETRY"}, ChainStep, Head(looper).kind \in ChainKind,
             StartTimer(k, Head(looper).burst, Tail(looper)), Moves(1, {})
      PROVE  MessageInv'
  <2>1. /\ timers' = timers (+) SetToBag({Msg(k, Head(looper).burst)})
        /\ looper # << >> /\ burst' = burst /\ currentState' = "CAPTURE"
    BY <1>c DEF StartTimer, PostDelayed, ChainStep
  <2>2. BagToSet(timers') = BagToSet(timers) \cup {Msg(k, Head(looper).burst)}
    BY <1>0, <2>1, TimerStarts
  <2>3. Head(looper).burst \in 1..burst'
    BY <1>2, <1>c, <2>1
  <2>4. \A m \in BagToSet(timers') : \/ m \in BagToSet(timers)
                                     \/ m.kind \in {"TICK", "RETRY"} /\ m.burst \in 1..burst'
    BY <1>1, <2>2, <2>3
  <2> QED BY <1>a, <1>c, <2>1, <2>4 DEF AfState
<1>3. CASE QuietEvent
  BY <1>0, <1>b, <1>3, KindMoves DEF QuietEvent, Quiet
<1>4. CASE QuietMessage
  BY <1>0, <1>b, <1>4, KindMoves DEF QuietMessage, Quiet
<1>5. CASE StartsBurst
  <2>1. /\ burst' = burst + 1 /\ currentState' = "CAPTURE" /\ UNCHANGED timers
        /\ \E d \in {0, 1} : Moves(d, {Msg("FRAME_NULL", burst')})
        /\ burst' \in 1..burst'
    BY <1>0, <1>5, KindMoves DEF StartsBurst, TakeFirstFrame
  <2> QED BY <1>1, <1>a, <2>1 DEF AfState
<1>6. CASE StartsCapturing
  BY <1>6, <1>c, KindMoves DEF StartsCapturing, ChainKind
<1>7. CASE StoresFrame
  BY <1>7, <1>c, KindMoves DEF StoresFrame, ChainKind
<1>8. CASE AsksForFrame
  <2>1. /\ Moves(1, {Msg("FRAME", Head(looper).burst)}) /\ Head(looper).burst \in 1..burst
        /\ UNCHANGED <<timers, burst>> /\ currentState' = "CAPTURE"
    BY <1>2, <1>8, KindMoves DEF AsksForFrame, ChainStep, TakeNextFrame, ChainKind
  <2> QED BY <1>1, <1>a, <2>1 DEF AfState
<1>9. CASE WaitsForMemory
  BY <1>9, <1>c, KindMoves DEF WaitsForMemory, ChainKind
<1>10. CASE Anew
  <2>1. At(looper', ChainKind) = {} /\ BagToSet(timers') = {}
    BY <1>10 DEF Anew, At, BagToSet, EmptyBag, SetToBag
  <2>2. (At(looper, ChainKind) = {})'
    BY <2>1 DEF At
  <2> QED BY <1>10, <2>1, <2>2 DEF Anew, MessageInv
<1>11. CASE TimerDue
  <2>1. PICK m \in BagToSet(timers) : /\ timers' = timers (-) SetToBag({m})
                                      /\ looper' = Append(looper, m)
    BY <1>11 DEF TimerDue
  <2>2. BagToSet(timers') \subseteq BagToSet(timers) /\ Moves(0, {m})
    BY <1>0, <2>1, TimerEnds, KindMoves
  <2>3. UNCHANGED <<burst, currentState>> /\ m.burst \in 1..burst
    BY <1>0, <1>11 DEF TimerDue
  <2> QED BY <1>0, <1>a, <2>2, <2>3
<1>12. CASE FocusCompletes
  <2>1. Moves(0, {Msg("AF", 0)}) /\ UNCHANGED <<timers, burst, currentState>>
    BY <1>12, KindMoves DEF FocusCompletes
  <2> QED BY <1>0, <1>1, <1>a, <2>1 DEF ChainKind
<1>13. CASE PreviewFrame
  BY <1>0, <1>b, <1>13, KindMoves DEF PreviewFrame
<1> QED BY <1>3, <1>4, <1>5, <1>6, <1>7, <1>8, <1>9, <1>10, <1>11, <1>12, <1>13, StepKinds

-----------------------------------------------------------------------------
(* The focus: its run, or its message, is waited for.                      *)
Awaiting == {"AF_SEARCH", "WAIT_FOR_AF_DONE"}

LEMMA SendEventFocus ==
    ASSUME ReadyWhenActive, NEW e, NEW b, NEW q, SendEvent(e, b, q)
    PROVE  \/ UNCHANGED afRunning /\ (currentState \in Awaiting => currentState' \in Awaiting)
           \/ currentState = "STANDBY" /\ currentState' \in Awaiting
           \/ ~afRunning' /\ (cancelRemoves => looper' = WithoutFocus(q))
           \/ /\ e = "AUTO_FOCUS_DONE" /\ currentState \in Awaiting
              /\ looper' = q \/ (currentState = "WAIT_FOR_AF_DONE" /\ TakeFirstFrame(q))
              /\ UNCHANGED afRunning
<1> USE DEF ChangeTo, cameraVars, Awaiting
<1>a. ASSUME CancelAutoFocus(q), currentState \in {"AF_SEARCH", "AF_DONE", "WAIT_FOR_AF_DONE"}
      PROVE  ~afRunning' /\ (cancelRemoves => looper' = WithoutFocus(q))
  BY <1>a DEF CancelAutoFocus, ReadyWhenActive
<1>1. CASE currentState = "INITIALIZE" /\ InInitialize(e, q)
  BY <1>1 DEF InInitialize
<1>2. CASE currentState = "RESUME" /\ InResume(e, q)
  BY <1>2 DEF InResume, OnSurfaceCreated, OnSurfaceChanged, OnSurfacePrepared,
              BecomeReady, Crash
<1>3. CASE currentState = "STANDBY" /\ InStandby(e, q)
  BY <1>3 DEF InStandby, ChangeCameraDevice, Crash
<1>4. CASE currentState = "ZOOMING" /\ InZooming(e, q)
  BY <1>4 DEF InZooming
<1>5. CASE currentState = "AF_SEARCH" /\ InAfSearch(e, q)
  BY <1>5, <1>a DEF InAfSearch
<1>6. CASE currentState = "AF_DONE" /\ InAfDone(e, q)
  BY <1>6, <1>a DEF InAfDone
<1>7. CASE currentState = "WAIT_FOR_AF_DONE" /\ InWaitForAfDone(e, q)
  BY <1>7, <1>a DEF InWaitForAfDone
<1>8. CASE currentState = "CAPTURE" /\ InCapture(e, b, q)
  BY <1>8 DEF InCapture
<1>9. CASE currentState = "PAUSE" /\ InPause(e, q)
  BY <1>9 DEF InPause, OnSurfacePrepared, BecomeReady, Crash
<1>10. CASE currentState # "PAUSE" /\ <<currentState, e>> \notin Rows /\ Ignore(q)
  BY <1>10 DEF Ignore
<1> QED BY <1>1, <1>2, <1>3, <1>4, <1>5, <1>6, <1>7, <1>8, <1>9, <1>10 DEF SendEvent

(* Only the end of a focus run posts a focus message.                      *)
LEMMA FocusMoves ==
    ASSUME TypeOK, StateInv, MessageInv, [Next]_vars, ~FocusCompletes
    PROVE  /\ At(looper, {"AF"}) = {} => At(looper', {"AF"}) = {}
           /\ (\A i, j \in At(looper, {"AF"}) : i = j)
                 => \A i, j \in At(looper', {"AF"}) : i = j
<1>0. looper \in Seq(Message)
  BY DEF TypeOK
<1>1. \A k, b : Msg(k, b).kind = k
  BY DEF Msg
<1>a. ASSUME NEW d \in {0, 1}, NEW X, Moves(d, X), \A x \in X : x.kind # "AF"
      PROVE  /\ At(looper, {"AF"}) = {} => At(looper', {"AF"}) = {}
             /\ (\A i, j \in At(looper, {"AF"}) : i = j)
                   => \A i, j \in At(looper', {"AF"}) : i = j
  <2>1. \A i \in At(looper', {"AF"}) : i + d \in At(looper, {"AF"})
    BY <1>0, <1>a, MovesAt
  <2>2. \A i \in At(looper', {"AF"}) : i \in Nat
    BY <1>a DEF At, Moves
  <2> QED BY <2>1, <2>2
<1>2. CASE Anew
  BY <1>2 DEF Anew, At
<1>3. CASE TimerDue
  <2>1. PICK m \in BagToSet(timers) : looper' = Append(looper, m)
    BY <1>3 DEF TimerDue
  <2>2. Moves(0, {m}) /\ m.kind # "AF"
    BY <2>1, KindMoves DEF MessageInv
  <2> QED BY <1>a, <2>2
<1>4. CASE QuietEvent \/ PreviewFrame
  BY <1>4, <1>a, KindMoves
<1>5. CASE QuietMessage \/ StartsCapturing \/ StoresFrame \/ WaitsForMemory
  BY <1>5, <1>a, KindMoves
<1>6. CASE AsksForFrame \/ StartsBurst
  BY <1>1, <1>6, <1>a, KindMoves
<1> QED BY <1>2, <1>3, <1>4, <1>5, <1>6, StepKinds

LEMMA StepFocusInv ==
    ASSUME TypeOK, StateInv, MessageInv, FocusInv, [Next]_vars
    PROVE  FocusInv'
<1>0. looper \in Seq(Message) /\ ReadyWhenActive /\ LifeInv
  BY DEF TypeOK, StateInv
<1>1. cancelRemoves' = cancelRemoves
  BY DEF Next, vars, Dead, UserInput, SurfaceCreated, SurfaceChanged, SurfaceDestroyed,
         BackKey, OnResume, OnPause, OnDestroy, Recreate, Relaunch, NewStateMachine,
         EarlierEvent, ProcessMessage, TimerDue,
         CameraOpens, FocusCompletes, PreviewFrame
<1> SUFFICES ASSUME cancelRemoves
             PROVE  FocusInv'
  BY <1>1 DEF FocusInv
<1>2. /\ afRunning \/ At(looper, {"AF"}) # {} => currentState \in Awaiting
      /\ afRunning => At(looper, {"AF"}) = {}
      /\ \A i, j \in At(looper, {"AF"}) : i = j
  BY DEF FocusInv, Awaiting
<1>3. FocusInv' <=> /\ afRunning' \/ At(looper', {"AF"}) # {} => currentState' \in Awaiting
                    /\ afRunning' => At(looper', {"AF"}) = {}
                    /\ \A i, j \in At(looper', {"AF"}) : i = j
  BY <1>1 DEF FocusInv, Awaiting, At
<1>a. ASSUME UNCHANGED afRunning, currentState \in Awaiting => currentState' \in Awaiting,
             ~FocusCompletes
      PROVE  FocusInv'
  BY <1>2, <1>3, <1>a, FocusMoves
<1>b. ASSUME ~afRunning', At(looper', {"AF"}) = {}
      PROVE  FocusInv'
  BY <1>3, <1>b
<1>c. ASSUME currentState = "STANDBY", currentState' \in Awaiting, ~FocusCompletes
      PROVE  FocusInv'
  BY <1>2, <1>3, <1>c, FocusMoves DEF Awaiting
<1>d. ASSUME NEW e, SendEvent(e, 0, looper), e # "AUTO_FOCUS_DONE", ~FocusCompletes
      PROVE  FocusInv'
  <2>1. looper' = WithoutFocus(looper) => At(looper', {"AF"}) = {}
    BY <1>0, AtWithoutFocus
  <2> QED BY <1>0, <1>a, <1>b, <1>c, <1>d, <2>1, SendEventFocus
<1>4. CASE FocusCompletes
  <2>1. /\ afRunning /\ ~afRunning' /\ UNCHANGED currentState
        /\ Moves(0, {Msg("AF", 0)})
    BY <1>4, KindMoves DEF FocusCompletes
  <2>2. \A i \in At(looper', {"AF"}) : i = Len(looper) + 1
    <3>1. "REMOVED" \notin {"AF"}
      OBVIOUS
    <3>2. \A i \in At(looper', {"AF"}) : i \in Nat /\ i + 0 = Len(looper) + 1
      BY <1>0, <1>2, <2>1, <3>1, MovesAt DEF At, Moves
    <3> QED BY <3>2
  <2>3. currentState' \in Awaiting
    BY <1>2, <2>1
  <2> QED BY <1>3, <2>1, <2>2, <2>3
<1>5. ASSUME ~FocusCompletes PROVE FocusInv'
  <2> USE <1>5
  <2>1. ASSUME NEW e \in UserEvent, UserInput(e) PROVE FocusInv'
    BY <1>d, <2>1 DEF UserInput, UserEvent
  <2>2. CASE SurfaceCreated
    <3>1. CASE SendEvent("SURFACE_CREATED", 0, looper)
      BY <1>d, <3>1
    <3>2. CASE currentState = "RESUME" /\ BecomeReady(looper)
      BY <1>a, <3>2 DEF BecomeReady, Awaiting
    <3> QED BY <2>2, <3>1, <3>2 DEF SurfaceCreated
  <2>3. CASE SurfaceChanged
    <3>1. CASE SendEvent(IF resizing THEN "SURFACE_PREPARED" ELSE "SURFACE_CHANGED", 0, looper)
      BY <1>d, <3>1
    <3>2. CASE Ignore(looper)
      BY <1>a, <3>2 DEF Ignore, ChangeTo, cameraVars
    <3> QED BY <2>3, <3>1, <3>2 DEF SurfaceChanged
  <2>4. CASE BackKey
    BY <1>a, <2>4 DEF BackKey, cameraVars, Awaiting
  <2>5. CASE OnResume
    BY <1>0, <1>a, <2>5 DEF OnResume, LifeInv, Crash, cameraVars, Awaiting
  <2>6. CASE OnPause
    <3>1. ~afRunning' /\ looper' = WithoutFocus(looper)
      BY <2>6 DEF OnPause, PauseEvent, ChangeTo
    <3> QED BY <1>0, <1>b, <3>1, AtWithoutFocus
  <2>7. CASE OnDestroy
    BY <1>d, <2>7 DEF OnDestroy
  <2>8. CASE Recreate \/ Relaunch
    BY <1>0, <1>a, <2>8 DEF Recreate, Relaunch, NewStateMachine, LifeInv, cameraVars, Awaiting
  <2>9. CASE ProcessMessage
    <3> DEFINE m == Head(looper)
               q == Tail(looper)
    <3>1. looper # << >>
      BY <2>9 DEF ProcessMessage
    <3>2. q \in Seq(Message) /\ (m.kind = "AF" => 1 \in At(looper, {"AF"}))
      BY <1>0, <3>1, AtTail
    <3>3. CASE Ignore(q)
      BY <1>a, <3>3 DEF Ignore, ChangeTo, cameraVars
    <3>4. ASSUME NEW e, SendEvent(e, m.burst, q), e = "AUTO_FOCUS_DONE" => m.kind = "AF"
          PROVE  FocusInv'
      <4>1. looper' = WithoutFocus(q) => At(looper', {"AF"}) = {}
        <5>1. q \in Seq(Message) /\ "REMOVED" \notin {}
          BY <3>2
        <5> HIDE DEF q
        <5>2. At(WithoutFocus(q), {"AF"}) = {}
          BY <5>1, AtWithoutFocus
        <5> QED BY <5>2
      <4>2. ASSUME e = "AUTO_FOCUS_DONE",
                   \/ looper' = q
                   \/ currentState = "WAIT_FOR_AF_DONE" /\ TakeFirstFrame(q),
                   UNCHANGED afRunning
            PROVE  FocusInv'
        <5>1. 1 \in At(looper, {"AF"}) /\ m.kind = "AF"
          BY <3>2, <3>4, <4>2
        <5>2. Moves(1, {}) \/ Moves(1, {Msg("FRAME_NULL", burst')})
          <6>1. CASE looper' = q
            <7>1. looper' \in {Tail(looper), WithoutFocus(Tail(looper))}
              BY <6>1
            <7> QED BY <1>0, <3>1, <7>1, QuietMoves
          <6>2. CASE currentState = "WAIT_FOR_AF_DONE" /\ TakeFirstFrame(q)
            <7>1. StartsBurst
              BY <3>1, <5>1, <6>2 DEF StartsBurst
            <7> QED BY <6>2, <7>1, KindMoves
          <6> QED BY <4>2, <6>1, <6>2
        <5>3. \A x \in {Msg("FRAME_NULL", burst')} : x.kind # "AF"
          BY DEF Msg
        <5>4. "REMOVED" \notin {"AF"}
          OBVIOUS
        <5>5. \A i \in At(looper', {"AF"}) : i + 1 \in At(looper, {"AF"}) /\ i \in 1..Len(looper')
          <6>1. PICK X : Moves(1, X) /\ \A x \in X : x.kind # "AF"
            BY <5>2, <5>3
          <6>2. \A i \in At(looper', {"AF"}) : i + 1 \in At(looper, {"AF"})
            BY <1>0, <5>4, <6>1, MovesAt
          <6>3. At(looper', {"AF"}) \subseteq 1..Len(looper')
            BY DEF At
          <6> QED BY <6>2, <6>3
        <5>6. At(looper', {"AF"}) = {}
          <6>1. Len(looper') \in Nat
            BY <5>2 DEF Moves
          <6>2. \A i \in At(looper', {"AF"}) : i + 1 = 1 /\ i \in 1..Len(looper')
            BY <1>2, <5>1, <5>5
          <6>3. \A i \in 1..Len(looper') : i + 1 # 1
            BY <6>1
          <6> QED BY <6>2, <6>3
        <5>7. ~afRunning'
          BY <1>2, <4>2, <5>1
        <5> QED BY <1>b, <5>6, <5>7
      <4> HIDE DEF m, q
      <4> QED BY <1>0, <1>a, <1>b, <1>c, <3>4, <4>1, <4>2, SendEventFocus
    <3>5. m.kind \in {"FRAME_NULL", "FRAME"} /\ SendEvent(m.kind, m.burst, q) => FocusInv'
      BY <3>4
    <3> QED BY <2>9, <3>3, <3>4, <3>5 DEF ProcessMessage
  <2>10. CASE SurfaceDestroyed \/ TimerDue \/ CameraOpens \/ PreviewFrame \/ EarlierEvent
    BY <1>a, <2>10 DEF SurfaceDestroyed, TimerDue, CameraOpens, PreviewFrame,
                       EarlierEvent, cameraVars
  <2>11. CASE UNCHANGED vars
    BY <1>a, <2>11 DEF vars, cameraVars
  <2> QED BY <2>1, <2>2, <2>3, <2>4, <2>5, <2>6, <2>7, <2>8, <2>9, <2>10, <2>11
          DEF Next, Dead
<1> QED BY <1>4, <1>5

-----------------------------------------------------------------------------
(* The order of the frame messages.                                        *)
LEMMA StepOrderInv ==
    ASSUME TypeOK, StateInv, MessageInv, FocusInv, OrderInv, [Next]_vars
    PROVE  OrderInv'
<1> DEFINE N(q) == At(q, {"FRAME_NULL"})
           F(q) == At(q, {"FRAME"})
           B(q) == At(q, {"FRAME_NULL", "FRAME"})
           A(q) == At(q, {"AF"})
<1>0. looper \in Seq(Message) /\ Len(looper) \in Nat /\ burst \in Nat
  BY DEF TypeOK
<1>1. cancelRemoves' = cancelRemoves
  BY DEF Next, vars, Dead, UserInput, SurfaceCreated, SurfaceChanged, SurfaceDestroyed,
         BackKey, OnResume, OnPause, OnDestroy, Recreate, Relaunch, NewStateMachine,
         EarlierEvent, ProcessMessage, TimerDue,
         CameraOpens, FocusCompletes, PreviewFrame
<1> SUFFICES ASSUME cancelRemoves
             PROVE  OrderInv'
  BY <1>1 DEF OrderInv
<1>2. /\ \A i \in A(looper), j \in B(looper) : j < i
      /\ currentState = "AF_DONE" => B(looper) = {}
      /\ currentState = "CAPTURE" =>
            /\ \A i, j \in N(looper) : i = j
            /\ \A i \in N(looper), j \in F(looper) : i < j
            /\ mFilePathPreFix = 0 <=> N(looper) # {}
  BY DEF OrderInv
<1>3. OrderInv' <=>
        /\ \A i \in A(looper'), j \in B(looper') : j < i
        /\ currentState' = "AF_DONE" => B(looper') = {}
        /\ currentState' = "CAPTURE" =>
              /\ \A i, j \in N(looper') : i = j
              /\ \A i \in N(looper'), j \in F(looper') : i < j
              /\ mFilePathPreFix' = 0 <=> N(looper') # {}
  BY <1>1 DEF OrderInv, At
<1>4. currentState' = "CAPTURE" => A(looper') = {}
  <2>1. FocusInv'
    BY StepFocusInv
  <2> QED BY <1>1, <2>1 DEF FocusInv, At
<1>5. \A q : B(q) = N(q) \cup F(q) /\ B(q) \subseteq 1..Len(q) /\ A(q) \subseteq 1..Len(q)
  BY DEF At
<1>6. \A k, b : Msg(k, b).kind = k
  BY DEF Msg
<1>7. looper # << >> /\ Head(looper).kind = "AF" => B(looper) = {}
  <2> SUFFICES ASSUME looper # << >>, Head(looper).kind = "AF" PROVE B(looper) = {}
    OBVIOUS
  <2>1. 1 \in A(looper)
    BY <1>0, AtTail
  <2>2. \A j \in B(looper) : j < 1 /\ j \in 1..Len(looper)
    BY <1>2, <1>5, <2>1
  <2> QED BY <1>0, <2>2
<1>8. ASSUME NEW d \in {0, 1}, NEW X, Moves(d, X)
      PROVE  /\ Len(looper') \in Nat
             /\ \A i \in N(looper') : i + d \in N(looper) \/
                   (i + d = Len(looper) + 1 /\ looper'[i] \in X /\ looper'[i].kind = "FRAME_NULL")
             /\ \A i \in F(looper') : i + d \in F(looper) \/
                   (i + d = Len(looper) + 1 /\ looper'[i] \in X /\ looper'[i].kind = "FRAME")
             /\ \A i \in A(looper') : i + d \in A(looper) \/ i + d = Len(looper) + 1
             /\ \A j \in N(looper) : j > d => j - d \in N(looper')
  <2>1. /\ "REMOVED" \notin {"FRAME_NULL"} /\ "REMOVED" \notin {"FRAME"}
        /\ "REMOVED" \notin {"AF"} /\ "AF" \notin {"FRAME_NULL"}
    OBVIOUS
  <2>2. Len(looper') \in Nat
    BY <1>8 DEF Moves
  <2>3. /\ \A i \in N(looper') : i + d \in N(looper) \/
              (i + d = Len(looper) + 1 /\ looper'[i] \in X /\ looper'[i].kind = "FRAME_NULL")
        /\ \A j \in N(looper) : j > d => j - d \in N(looper')
    BY <1>0, <1>8, <2>1, MovesAt
  <2>4. \A i \in F(looper') : i + d \in F(looper) \/
           (i + d = Len(looper) + 1 /\ looper'[i] \in X /\ looper'[i].kind = "FRAME")
    BY <1>0, <1>8, <2>1, MovesAt
  <2>5. \A i \in A(looper') : i + d \in A(looper) \/ i + d = Len(looper) + 1
    BY <1>0, <1>8, <2>1, MovesAt
  <2> QED BY <2>2, <2>3, <2>4, <2>5
<1>9. looper # << >> => Head(looper) = looper[1] /\ 1 \in 1..Len(looper)
  BY <1>0, AtTail
<1>10. looper # << >> /\ Head(looper).kind = "FRAME_NULL" => 1 \in N(looper)
  BY <1>9 DEF At
<1>11. looper # << >> /\ 1 \in N(looper) => Head(looper).kind = "FRAME_NULL"
  BY <1>9 DEF At
<1> HIDE DEF N, F, B, A
<1>a. ASSUME NEW d \in {0, 1}, NEW X, Moves(d, X),
             \A x \in X : x.kind \notin {"FRAME_NULL", "FRAME"},
             currentState' = "AF_DONE" => B(looper) = {},
             currentState' = "CAPTURE" =>
                /\ currentState = "CAPTURE" /\ UNCHANGED mFilePathPreFix
                /\ d = 1 => looper # << >> /\ Head(looper).kind # "FRAME_NULL"
      PROVE  OrderInv'
  <2>1. /\ \A i \in N(looper') : i + d \in N(looper) /\ i \in Nat
        /\ \A i \in F(looper') : i + d \in F(looper) /\ i \in Nat
        /\ \A i \in B(looper') : i + d \in B(looper) /\ i \in Nat
        /\ \A i \in A(looper') : i \in Nat /\ (i + d \in A(looper) \/ i + d = Len(looper) + 1)
        /\ Len(looper') \in Nat
    <3>1. Len(looper') \in Nat
      BY <1>8, <1>a
    <3>2. \A i \in B(looper') \cup A(looper') : i \in Nat
      BY <1>5, <3>1
    <3>3. /\ \A i \in N(looper') : i + d \in N(looper)
          /\ \A i \in F(looper') : i + d \in F(looper)
          /\ \A i \in A(looper') : i + d \in A(looper) \/ i + d = Len(looper) + 1
      BY <1>8, <1>a
    <3> QED BY <1>5, <3>1, <3>2, <3>3
  <2>2. \A i \in A(looper'), j \in B(looper') : j < i
    <3> SUFFICES ASSUME NEW i \in A(looper'), NEW j \in B(looper') PROVE j < i
      OBVIOUS
    <3>1. /\ i \in Nat /\ j \in Nat /\ j + d \in B(looper) /\ j + d \in 1..Len(looper)
          /\ i + d \in A(looper) \/ i + d = Len(looper) + 1
      BY <1>5, <2>1
    <3>2. j + d < i + d
      BY <1>0, <1>2, <3>1
    <3> QED BY <3>1, <3>2
  <2>3. currentState' = "AF_DONE" => B(looper') = {}
    BY <1>a, <2>1
  <2>4. ASSUME currentState' = "CAPTURE"
        PROVE  /\ \A i, j \in N(looper') : i = j
               /\ \A i \in N(looper'), j \in F(looper') : i < j
               /\ mFilePathPreFix' = 0 <=> N(looper') # {}
    <3>1. currentState = "CAPTURE" /\ mFilePathPreFix' = mFilePathPreFix
      BY <1>a, <2>4
    <3>2. \A i, j \in N(looper') : i = j
      <4>1. \A i, j \in N(looper') : i + d = j + d /\ i \in Nat /\ j \in Nat
        BY <1>2, <2>1, <3>1
      <4> QED BY <4>1
    <3>3. \A i \in N(looper'), j \in F(looper') : i < j
      <4>1. \A i \in N(looper'), j \in F(looper') : i + d < j + d /\ i \in Nat /\ j \in Nat
        BY <1>2, <2>1, <3>1
      <4> QED BY <4>1
    <3>4. \A j \in N(looper) : j > d
      BY <1>0, <1>5, <1>11, <1>a, <2>4
    <3>5. N(looper) # {} <=> N(looper') # {}
      BY <1>8, <1>a, <2>1, <3>4
    <3> QED BY <1>2, <3>1, <3>2, <3>3, <3>5
  <2> QED BY <1>3, <2>2, <2>3, <2>4
<1>12. CASE QuietEvent
  <2>1. Moves(0, {})
    BY <1>12, KindMoves
  <2> QED BY <1>2, <1>12, <1>a, <2>1 DEF QuietEvent, Quiet
<1>13. CASE QuietMessage
  <2>1. Moves(1, {}) /\ looper # << >>
    BY <1>13, KindMoves
  <2>2. currentState' = "AF_DONE" => B(looper) = {}
    BY <1>2, <1>7, <1>13 DEF QuietMessage
  <2>3. currentState' = "CAPTURE" =>
           /\ currentState = "CAPTURE" /\ UNCHANGED mFilePathPreFix
           /\ Head(looper).kind # "FRAME_NULL"
    BY <1>13 DEF QuietMessage, Quiet, ChainKind
  <2> QED BY <1>a, <2>1, <2>2, <2>3
<1>14. CASE StartsBurst
  <2>1. /\ B(looper) = {} /\ currentState' = "CAPTURE"
        /\ mFilePathPreFix' = 0 /\ mFilePathPreFix = 0
    BY <1>2, <1>7, <1>14 DEF StartsBurst, TakeFirstFrame, stackVars, StateInv,
                              OpenOnlyWhileCapturing
  <2>2. PICK d \in {0, 1} : Moves(d, {Msg("FRAME_NULL", burst')})
    BY <1>14, KindMoves
  <2>3. Len(looper') \in Nat /\ N(looper) = {} /\ F(looper) = {}
    BY <1>5, <1>8, <2>1, <2>2
  <2>4. \A i \in N(looper') : i + d = Len(looper) + 1
    BY <1>8, <2>2, <2>3
  <2>5. F(looper') = {}
    BY <1>6, <1>8, <2>2, <2>3
  <2>6. \A i, j \in N(looper') : i = j
    <3>1. \A i \in N(looper') : i \in Nat
      BY <1>5, <2>3
    <3> QED BY <1>0, <2>4, <3>1
  <2>7. N(looper') # {}
    <3>1. PICK q \in {looper, Tail(looper)} :
             looper' = Append(q, Msg("FRAME_NULL", burst')) /\ (q = looper \/ looper # << >>)
      BY <1>14 DEF StartsBurst, TakeFirstFrame, Post
    <3>2. q \in Seq(Message)
      BY <1>0, <3>1, AtTail
    <3>3. /\ Len(q) + 1 \in 1..Len(looper')
          /\ looper'[Len(q) + 1] = Msg("FRAME_NULL", burst')
      BY <3>1, <3>2
    <3> QED BY <1>6, <3>3 DEF N, At
  <2> QED BY <1>3, <1>4, <2>1, <2>5, <2>6, <2>7
<1>15. CASE StartsCapturing
  <2>1. /\ Moves(1, {}) /\ currentState = "CAPTURE" /\ currentState' = "CAPTURE"
        /\ looper # << >> /\ Head(looper).kind = "FRAME_NULL" /\ mFilePathPreFix' = burst
    BY <1>15, KindMoves DEF StartsCapturing, ChainStep
  <2>2. burst # 0
    <3>1. Head(looper).burst \in 1..burst
      BY <1>9, <2>1 DEF MessageInv, At, ChainKind
    <3> QED BY <1>0, <3>1
  <2>3. N(looper') = {}
    <3>1. \A i \in N(looper') : i + 1 = 1 /\ i \in 1..Len(looper') /\ Len(looper') \in Nat
      BY <1>2, <1>5, <1>8, <1>10, <2>1
    <3> QED BY <3>1
  <2> QED BY <1>3, <1>4, <2>1, <2>2, <2>3
<1>16. CASE StoresFrame
  <2>1. Moves(1, {})
    BY <1>16, KindMoves
  <2> QED BY <1>16, <1>a, <2>1 DEF StoresFrame, ChainStep
<1>17. CASE AsksForFrame
  <2>1. /\ currentState = "CAPTURE" /\ currentState' = "CAPTURE" /\ looper # << >>
        /\ Head(looper).kind # "FRAME_NULL" /\ mFilePathPreFix' = mFilePathPreFix
    BY <1>17 DEF AsksForFrame, ChainStep, TakeNextFrame, stackVars
  <2> DEFINE X == {Msg("FRAME", Head(looper).burst)}
  <2>2. Moves(1, X) /\ \A x \in X : x.kind = "FRAME"
    BY <1>6, <1>17, KindMoves
  <2> HIDE DEF X
  <2>3. /\ Len(looper') \in Nat
        /\ \A i \in N(looper') : i + 1 \in N(looper)
        /\ \A i \in F(looper') : i + 1 \in F(looper) \/ i + 1 = Len(looper) + 1
        /\ \A j \in N(looper) : j > 1 => j - 1 \in N(looper')
    BY <1>8, <2>2
  <2>4. \A i \in N(looper') \cup F(looper') : i \in Nat
    BY <1>5, <2>3
  <2>5. \A i \in N(looper) : i \in 1..Len(looper)
    BY <1>5
  <2>6. \A i, j \in N(looper') : i = j
    <3>1. \A i, j \in N(looper') : i + 1 = j + 1
      BY <1>2, <2>1, <2>3
    <3> QED BY <2>4, <3>1
  <2>7. \A i \in N(looper'), j \in F(looper') : i < j
    <3>1. \A i \in N(looper'), j \in F(looper') : i + 1 < j + 1
      BY <1>0, <1>2, <2>1, <2>3, <2>5
    <3> QED BY <2>4, <3>1
  <2>8. N(looper) # {} <=> N(looper') # {}
    <3>1. \A j \in N(looper) : j > 1
      BY <1>0, <1>11, <2>1, <2>5
    <3> QED BY <2>3, <3>1
  <2> QED BY <1>2, <1>3, <1>4, <2>1, <2>6, <2>7, <2>8
<1>18. CASE WaitsForMemory
  <2>1. Moves(1, {})
    BY <1>18, KindMoves
  <2> QED BY <1>18, <1>a, <2>1 DEF WaitsForMemory, ChainStep
<1>19. CASE Anew
  <2>1. B(looper') = {}
    BY <1>19 DEF Anew, B, At
  <2> QED BY <1>3, <1>19, <2>1 DEF Anew
<1>20. CASE TimerDue
  <2>1. PICK m \in BagToSet(timers) : looper' = Append(looper, m)
    BY <1>20 DEF TimerDue
  <2>2. Moves(0, {m}) /\ m.kind \notin {"FRAME_NULL", "FRAME"}
    BY <2>1, KindMoves DEF MessageInv
  <2> QED BY <1>2, <1>20, <1>a, <2>2 DEF TimerDue, stackVars
<1>21. CASE FocusCompletes
  <2>1. Moves(0, {Msg("AF", 0)}) /\ Msg("AF", 0).kind \notin {"FRAME_NULL", "FRAME"}
    BY <1>6, <1>21, KindMoves
  <2> QED BY <1>2, <1>21, <1>a, <2>1 DEF FocusCompletes, stackVars
<1>22. CASE PreviewFrame
  <2>1. Moves(0, {})
    BY <1>22, KindMoves
  <2> QED BY <1>2, <1>22, <1>a, <2>1 DEF PreviewFrame, stackVars
<1> QED BY <1>12, <1>13, <1>14, <1>15, <1>16, <1>17, <1>18, <1>19, <1>20, <1>21, <1>22,
           StepKinds

-----------------------------------------------------------------------------
(* The length of the chain.                                                *)
LEMMA StepChainAlive ==
    ASSUME TypeOK, StateInv, MessageInv, ChainAlive, [Next]_vars
    PROVE  ChainAlive'
<1> DEFINE P(q, t, k, b) == Due(q, Msg(k, b)) + Delayed(t, Msg(k, b))
           Chain(q, t, b) == P(q, t, "FRAME_NULL", b) + P(q, t, "FRAME", b)
                             + P(q, t, "TICK", b) + P(q, t, "RETRY", b)
<1>0. /\ looper \in Seq(Message) /\ IsABag(timers)
      /\ BagToSet(timers) \subseteq Message /\ burst \in 0..MaxBursts
  BY DEF TypeOK
<1>1. /\ currentState = "CAPTURE" => Chain(looper, timers, burst) = 1
      /\ ChainAlive' <=> (currentState' = "CAPTURE" => Chain(looper', timers', burst') = 1)
  BY DEF ChainAlive, ChainLength, Pending, Due, Delayed
<1>2. \A k, b : Msg(k, b).kind = k /\ Msg(k, b).burst = b
  BY DEF Msg
<1>3. ASSUME NEW q \in Seq(Message), NEW m PROVE Due(q, m) \in Nat
  BY <1>3, DueType
<1>4. \A m : Delayed(timers, m) \in Nat
  BY <1>0, DelayedType
<1>5. ASSUME looper # << >>
      PROVE  /\ Tail(looper) \in Seq(Message) /\ Head(looper) \in Message
             /\ \A m : Due(looper, m) = Due(Tail(looper), m) + Once(Head(looper) = m)
             /\ \A m : Due(Tail(looper), m) \in Nat
  <2>1. Tail(looper) \in Seq(Message) /\ Head(looper) \in Message
    BY <1>0, <1>5, HeadTailProperties, EmptySeq
  <2> QED BY <1>0, <1>3, <1>5, <2>1, DueTail
<1>6. ASSUME NEW q \in Seq(Message), looper' \in {q, WithoutFocus(q)},
             NEW k \in ChainKind, NEW b
      PROVE  Due(looper', Msg(k, b)) = Due(q, Msg(k, b))
  <2>1. Msg(k, b).kind \notin {"AF", "REMOVED"}
    BY <1>2 DEF ChainKind
  <2> QED BY <1>6, <2>1, DueWithoutFocus
<1>7. \A k \in ChainKind, b \in 0..MaxBursts : Msg(k, b) \in Message
  BY DEF Msg, Message
<1>8. \A h \in Message : h = Msg(h.kind, h.burst)
  BY DEF Msg, Message
<1> USE DEF Once
<1>10. \A k, l, b, c : Msg(k, b) = Msg(l, c) <=> k = l /\ b = c
  BY DEF Msg
<1>a. ASSUME UNCHANGED burst, currentState' = "CAPTURE" => currentState = "CAPTURE",
             \A k \in ChainKind : P(looper', timers', k, burst) = P(looper, timers, k, burst)
      PROVE  ChainAlive'
  BY <1>1, <1>a DEF ChainKind
<1>b. ASSUME ChainStep, Head(looper).kind \in ChainKind, NEW k \in ChainKind,
             \A m : Due(looper', m) + Delayed(timers', m) =
                    Due(Tail(looper), m) + Delayed(timers, m)
                       + Once(Msg(k, Head(looper).burst) = m)
      PROVE  ChainAlive'
  <2> DEFINE h == Head(looper)
             q == Tail(looper)
  <2>1. looper # << >> /\ currentState = "CAPTURE" /\ burst' = burst
    BY <1>b DEF ChainStep
  <2>2. h = Msg(h.kind, h.burst)
    BY <1>5, <1>8, <2>1
  <2>3. h.kind \in ChainKind
    BY <1>b
  <2>4. ASSUME NEW l \in ChainKind
        PROVE  /\ P(looper, timers, l, burst) =
                     P(q, timers, l, burst) + Once(h.kind = l /\ h.burst = burst)
               /\ P(looper', timers', l, burst) =
                     P(q, timers, l, burst) + Once(k = l /\ h.burst = burst)
               /\ P(q, timers, l, burst) \in Nat
    <3>1. /\ (h = Msg(l, burst)) <=> (h.kind = l /\ h.burst = burst)
          /\ (Msg(k, h.burst) = Msg(l, burst)) <=> (k = l /\ h.burst = burst)
      BY <1>2, <1>10, <2>2
    <3>2. /\ Once(h = Msg(l, burst)) = Once(h.kind = l /\ h.burst = burst)
          /\ Once(Msg(k, h.burst) = Msg(l, burst)) = Once(k = l /\ h.burst = burst)
      BY <3>1
    <3>3. /\ Due(looper, Msg(l, burst)) = Due(q, Msg(l, burst)) + Once(h = Msg(l, burst))
          /\ Due(looper', Msg(l, burst)) + Delayed(timers', Msg(l, burst)) =
                Due(q, Msg(l, burst)) + Delayed(timers, Msg(l, burst))
                   + Once(Msg(k, h.burst) = Msg(l, burst))
          /\ Due(q, Msg(l, burst)) \in Nat /\ Delayed(timers, Msg(l, burst)) \in Nat
      BY <1>4, <1>5, <1>b, <2>1
    <3>4. /\ Once(h = Msg(l, burst)) \in {0, 1}
          /\ Once(Msg(k, h.burst) = Msg(l, burst)) \in {0, 1}
      OBVIOUS
    <3> HIDE DEF h, q
    <3> QED BY <3>2, <3>3, <3>4
  <2> HIDE DEF h, q, P
  <2>5. CASE h.burst = burst
    <3>1. \A l \in ChainKind :
             /\ Once(h.kind = l /\ h.burst = burst) = IF h.kind = l THEN 1 ELSE 0
             /\ Once(k = l /\ h.burst = burst) = IF k = l THEN 1 ELSE 0
      BY <2>5
    <3>2. Chain(looper, timers, burst) = Chain(q, timers, burst) + 1
      BY <2>3, <2>4, <3>1 DEF ChainKind
    <3>3. Chain(looper', timers', burst) = Chain(q, timers, burst) + 1
      BY <2>4, <3>1 DEF ChainKind
    <3> QED BY <1>1, <2>1, <3>2, <3>3
  <2>6. CASE h.burst # burst
    <3>1. \A l \in ChainKind :
             /\ Once(h.kind = l /\ h.burst = burst) = 0
             /\ Once(k = l /\ h.burst = burst) = 0
      BY <2>6
    <3>2. Chain(looper, timers, burst) = Chain(q, timers, burst)
      BY <2>4, <3>1 DEF ChainKind
    <3>3. Chain(looper', timers', burst) = Chain(q, timers, burst)
      BY <2>4, <3>1 DEF ChainKind
    <3> QED BY <1>1, <2>1, <3>2, <3>3
  <2> QED BY <2>5, <2>6
<1>c. ASSUME ChainStep, Head(looper).kind \in ChainKind, NEW k \in ChainKind,
             StartTimer(k, Head(looper).burst, Tail(looper))
      PROVE  ChainAlive'
  <2>1. /\ looper' = Tail(looper)
        /\ timers' = timers (+) SetToBag({Msg(k, Head(looper).burst)})
    BY <1>c DEF StartTimer, PostDelayed
  <2>2. \A m : Delayed(timers', m) =
                  Delayed(timers, m) + Once(Msg(k, Head(looper).burst) = m)
    BY <1>0, <2>1, TimerStarts
  <2>3. \A m : Due(Tail(looper), m) \in Nat
    BY <1>5, <1>c DEF ChainStep
  <2>4. \A m : Due(looper', m) + Delayed(timers', m) =
                  Due(Tail(looper), m) + Delayed(timers, m)
                     + Once(Msg(k, Head(looper).burst) = m)
    <3> SUFFICES ASSUME NEW m
                 PROVE  Due(looper', m) + Delayed(timers', m) =
                           Due(Tail(looper), m) + Delayed(timers, m)
                              + Once(Msg(k, Head(looper).burst) = m)
      OBVIOUS
    <3>1. /\ Due(looper', m) = Due(Tail(looper), m) /\ Due(Tail(looper), m) \in Nat
          /\ Delayed(timers, m) \in Nat
          /\ Delayed(timers', m) =
                Delayed(timers, m) + Once(Msg(k, Head(looper).burst) = m)
      BY <1>4, <2>1, <2>2, <2>3
    <3> QED BY <3>1
  <2> QED BY <1>b, <1>c, <2>4
<1>11. CASE QuietEvent
  BY <1>0, <1>6, <1>11, <1>a DEF QuietEvent, Quiet
<1>12. CASE QuietMessage
  <2>1. /\ looper # << >> /\ looper' \in {Tail(looper), WithoutFocus(Tail(looper))}
        /\ timers' = timers /\ burst' = burst
        /\ currentState' = "CAPTURE" => currentState = "CAPTURE"
                                        /\ Head(looper).kind \notin ChainKind
    BY <1>12 DEF QuietMessage, Quiet
  <2>2. CASE currentState' # "CAPTURE"
    BY <1>1, <2>2
  <2>3. CASE currentState' = "CAPTURE"
    <3>1. \A k \in ChainKind : Due(looper', Msg(k, burst)) = Due(Tail(looper), Msg(k, burst))
      BY <1>5, <1>6, <2>1
    <3>2. \A k \in ChainKind : Head(looper) # Msg(k, burst)
      BY <1>2, <2>1, <2>3
    <3>3. \A k \in ChainKind : Due(looper, Msg(k, burst)) = Due(looper', Msg(k, burst))
      BY <1>5, <2>1, <3>1, <3>2
    <3> QED BY <1>a, <2>1, <3>3
  <2> QED BY <2>2, <2>3
<1>13. CASE StartsBurst
  <2>1. /\ burst' = burst + 1 /\ burst' \in 0..MaxBursts /\ burst \in Nat
    BY <1>0, <1>13, KindMoves
  <2>2. PICK q \in {looper, Tail(looper)} :
           looper' = Append(q, Msg("FRAME_NULL", burst')) /\ (q = looper \/ looper # << >>)
    BY <1>13 DEF StartsBurst, TakeFirstFrame, Post
  <2>3. q \in Seq(Message) /\ timers' = timers
    BY <1>0, <1>5, <1>13, <2>2 DEF StartsBurst, TakeFirstFrame
  <2>4. ASSUME NEW k \in ChainKind
        PROVE  Due(q, Msg(k, burst')) = 0 /\ Delayed(timers, Msg(k, burst')) = 0
    <3>1. \A i \in 1..Len(looper) : looper[i].kind \in ChainKind => looper[i].burst # burst'
      BY <2>1 DEF MessageInv, At
    <3>2. \A i \in 1..Len(looper) : looper[i] # Msg(k, burst')
      BY <1>2, <3>1
    <3>3. Due(looper, Msg(k, burst')) = 0
      BY <1>0, <3>2, DueNone
    <3>4. Due(q, Msg(k, burst')) = 0
      <4>1. CASE q = looper
        BY <3>3, <4>1
      <4>2. CASE q = Tail(looper) /\ looper # << >>
        <5>1. Due(looper, Msg(k, burst')) =
                 Due(q, Msg(k, burst')) + Once(Head(looper) = Msg(k, burst'))
          BY <1>5, <4>2
        <5>2. Due(q, Msg(k, burst')) \in Nat /\ Once(Head(looper) = Msg(k, burst')) \in Nat
          BY <1>5, <4>2
        <5> QED BY <3>3, <5>1, <5>2
      <4> QED BY <2>2, <4>1, <4>2
    <3>5. Msg(k, burst') \notin BagToSet(timers)
      BY <1>2, <2>1 DEF MessageInv
    <3> QED BY <3>4, <3>5 DEF Delayed
  <2>5. Msg("FRAME_NULL", burst') \in Message
    BY <1>7, <2>1 DEF ChainKind
  <2>6. \A k \in ChainKind : P(looper', timers', k, burst') =
                                IF k = "FRAME_NULL" THEN 1 ELSE 0
    <3> SUFFICES ASSUME NEW k \in ChainKind
                 PROVE  P(looper', timers', k, burst') = IF k = "FRAME_NULL" THEN 1 ELSE 0
      OBVIOUS
    <3>1. Due(looper', Msg(k, burst')) = Due(q, Msg(k, burst'))
                + Once(Msg("FRAME_NULL", burst') = Msg(k, burst'))
      BY <2>2, <2>3, <2>5, DueAppend
    <3>2. Once(Msg("FRAME_NULL", burst') = Msg(k, burst')) =
             IF k = "FRAME_NULL" THEN 1 ELSE 0
      BY <1>10
    <3> QED BY <2>3, <2>4, <3>1, <3>2
  <2> HIDE DEF P
  <2> QED BY <1>1, <2>6 DEF ChainKind
<1>14. CASE StartsCapturing
  BY <1>14, <1>c DEF StartsCapturing, ChainKind
<1>15. CASE StoresFrame
  BY <1>15, <1>c DEF StoresFrame, ChainKind
<1>16. CASE AsksForFrame
  <2>1. /\ ChainStep /\ looper # << >> /\ Head(looper).kind \in ChainKind
        /\ looper' = Append(Tail(looper), Msg("FRAME", Head(looper).burst))
        /\ timers' = timers
    BY <1>16 DEF AsksForFrame, ChainStep, TakeNextFrame, Post, ChainKind
  <2>2. Msg("FRAME", Head(looper).burst) \in Message
    <3>1. Head(looper).burst \in 0..MaxBursts
      BY <1>5, <2>1 DEF Message
    <3> QED BY <1>7, <3>1 DEF ChainKind
  <2>3. \A m : Due(looper', m) =
                  Due(Tail(looper), m) + Once(Msg("FRAME", Head(looper).burst) = m)
    BY <1>5, <2>1, <2>2, DueAppend
  <2>4. \A m : Due(looper', m) + Delayed(timers', m) =
                  Due(Tail(looper), m) + Delayed(timers, m)
                     + Once(Msg("FRAME", Head(looper).burst) = m)
    BY <1>4, <1>5, <2>1, <2>3
  <2> QED BY <1>b, <2>1, <2>4 DEF ChainKind
<1>17. CASE WaitsForMemory
  BY <1>17, <1>c DEF WaitsForMemory, ChainKind
<1>18. CASE Anew
  BY <1>1, <1>18 DEF Anew
<1>19. CASE TimerDue
  <2>1. PICK m \in BagToSet(timers) : /\ timers' = timers (-) SetToBag({m})
                                      /\ looper' = Append(looper, m)
    BY <1>19 DEF TimerDue
  <2>2. ASSUME NEW x PROVE Due(looper', x) + Delayed(timers', x) =
                           Due(looper, x) + Delayed(timers, x)
    <3>1. Due(looper', x) = Due(looper, x) + Once(m = x) /\ Due(looper, x) \in Nat
      BY <1>0, <2>1, DueAppend, DueType
    <3>2. Delayed(timers', x) \in Nat /\ Delayed(timers, x) = Delayed(timers', x) + Once(m = x)
      BY <1>0, <2>1, TimerEnds
    <3> QED BY <3>1, <3>2
  <2> QED BY <1>19, <1>a, <2>2 DEF TimerDue
<1>20. CASE FocusCompletes
  <2>1. looper' = Append(looper, Msg("AF", 0)) /\ UNCHANGED <<timers, burst, currentState>>
    BY <1>20 DEF FocusCompletes
  <2>2. Msg("AF", 0) \in Message
    BY BoundsAssumption DEF Msg, Message
  <2>3. \A k \in ChainKind : Due(looper', Msg(k, burst)) = Due(looper, Msg(k, burst))
    <3> SUFFICES ASSUME NEW k \in ChainKind
                 PROVE  Due(looper', Msg(k, burst)) = Due(looper, Msg(k, burst))
      OBVIOUS
    <3>1. Due(looper', Msg(k, burst)) =
             Due(looper, Msg(k, burst)) + Once(Msg("AF", 0) = Msg(k, burst))
      BY <1>0, <2>1, <2>2, DueAppend
    <3>2. Once(Msg("AF", 0) = Msg(k, burst)) = 0
      BY <1>10 DEF ChainKind
    <3> QED BY <1>0, <1>3, <3>1, <3>2
  <2> QED BY <1>a, <2>1, <2>3
<1>21. CASE PreviewFrame
  BY <1>21, <1>a DEF PreviewFrame
<1> QED BY <1>11, <1>12, <1>13, <1>14, <1>15, <1>16, <1>17, <1>18, <1>19, <1>20, <1>21,
           StepKinds

-----------------------------------------------------------------------------
(* The buffers of the first burst.                                         *)
LEMMA NextBufferType ==
    ASSUME NEW i \in Buffer
    PROVE  NextBuffer(i) \in Buffer /\ NextBuffer(i) # i
BY DEF Buffer, NextBuffer

(* While the only burst is being captured there is one message of a chain. *)
LEMMA OneMessage ==
    ASSUME TypeOK, MessageInv, ChainAlive, currentState = "CAPTURE", burst = 1,
           NEW i \in At(looper, {"FRAME"}), NEW j \in At(looper, {"FRAME"})
    PROVE  i = j
<1>0. looper \in Seq(Message) /\ IsABag(timers)
  BY DEF TypeOK
<1>1. \A k \in At(looper, {"FRAME"}) : k \in 1..Len(looper) /\ looper[k] = Msg("FRAME", 1)
  <2> SUFFICES ASSUME NEW k \in At(looper, {"FRAME"})
               PROVE  k \in 1..Len(looper) /\ looper[k] = Msg("FRAME", 1)
    OBVIOUS
  <2>1. k \in 1..Len(looper) /\ looper[k].kind = "FRAME" /\ looper[k].burst \in 1..burst
    BY DEF At, MessageInv, ChainKind
  <2>2. looper[k] \in Message
    BY <1>0, <2>1
  <2>3. looper[k] = Msg(looper[k].kind, looper[k].burst)
    BY <2>2 DEF Message, Msg
  <2> QED BY <2>1, <2>3
<1>2. Due(looper, Msg("FRAME", 1)) <= 1
  <2>1. \A k : /\ Due(looper, Msg(k, 1)) \in Nat /\ Delayed(timers, Msg(k, 1)) \in Nat
               /\ Pending(Msg(k, 1)) = Due(looper, Msg(k, 1)) + Delayed(timers, Msg(k, 1))
    BY <1>0, DueType, DelayedType DEF Pending
  <2>2. ChainLength(1) = 1
    BY DEF ChainAlive
  <2> QED BY <2>1, <2>2 DEF ChainLength
<1> QED BY <1>0, <1>1, <1>2, DueOnce

LEMMA StepFrameInv ==
    ASSUME TypeOK, StateInv, MessageInv, ChainAlive, FrameInv, [Next]_vars
    PROVE  FrameInv'
<1>0. /\ looper \in Seq(Message) /\ Len(looper) \in Nat
      /\ mCurrentBufferIndex \in Buffer /\ "REMOVED" \notin {"FRAME"}
  BY DEF TypeOK
<1>1. /\ NextBuffer(mCurrentBufferIndex) \in Buffer
      /\ NextBuffer(mCurrentBufferIndex) # mCurrentBufferIndex
  BY <1>0, NextBufferType
<1>2. FrameInv' <=> (currentState' = "CAPTURE" /\ burst' = 1 =>
         /\ mCurrentBufferIndex' \in fresh' \cup requested'
         /\ At(looper', {"FRAME"}) # {}
               => NextBuffer(mCurrentBufferIndex') \in fresh' \cup requested')
  BY DEF FrameInv, At, NextBuffer
<1>3. \A k, b : Msg(k, b).kind = k
  BY DEF Msg
<1>a. ASSUME NEW d \in {0, 1}, NEW X, Moves(d, X), \A x \in X : x.kind # "FRAME",
             UNCHANGED burst,
             currentState' = "CAPTURE" =>
                /\ currentState = "CAPTURE" /\ UNCHANGED mCurrentBufferIndex
                /\ fresh \cup requested \subseteq fresh' \cup requested'
      PROVE  FrameInv'
  <2>1. \A i \in At(looper', {"FRAME"}) : i + d \in At(looper, {"FRAME"})
    BY <1>0, <1>a, MovesAt
  <2> QED BY <1>2, <1>a, <2>1 DEF FrameInv
<1>4. CASE QuietEvent
  <2>1. Moves(0, {})
    BY <1>4, KindMoves
  <2> QED BY <1>4, <1>a, <2>1 DEF QuietEvent, Quiet, frameVars
<1>5. CASE QuietMessage
  <2>1. Moves(1, {})
    BY <1>5, KindMoves
  <2> QED BY <1>5, <1>a, <2>1 DEF QuietMessage, Quiet, frameVars
<1>6. CASE StartsBurst
  <2>1. /\ camera = "open" /\ mCurrentBufferIndex' = mCurrentBufferIndex
        /\ requested' = requested \cup {mCurrentBufferIndex}
    BY <1>6 DEF StartsBurst, TakeFirstFrame, RequestFrame, StateInv, ReadyWhenActive
  <2>2. PICK d \in {0, 1} : Moves(d, {Msg("FRAME_NULL", burst')}) /\ burst' = burst + 1
    BY <1>6, KindMoves
  <2>3. \A i \in At(looper', {"FRAME"}) : i + d \in At(looper, {"FRAME"})
    BY <1>0, <1>3, <2>2, MovesAt
  <2>4. burst' = 1 => At(looper, {"FRAME"}) = {}
    <3>1. burst \in Nat
      BY DEF TypeOK
    <3> QED BY <2>2, <3>1 DEF MessageInv, At, ChainKind
  <2> QED BY <1>2, <2>1, <2>3, <2>4
<1>7. CASE StartsCapturing
  <2>1. Moves(1, {})
    BY <1>7, KindMoves
  <2> QED BY <1>7, <1>a, <2>1 DEF StartsCapturing, ChainStep, frameVars
<1>8. CASE StoresFrame
  <2>1. /\ Moves(1, {}) /\ looper # << >> /\ Head(looper).kind = "FRAME"
        /\ currentState = "CAPTURE" /\ burst' = burst
        /\ mCurrentBufferIndex' = NextBuffer(mCurrentBufferIndex)
        /\ fresh' = fresh \ {mCurrentBufferIndex} /\ requested' = requested
    BY <1>8, KindMoves DEF StoresFrame, ChainStep, SwitchBuffer
  <2>2. 1 \in At(looper, {"FRAME"})
    BY <1>0, <2>1, AtTail
  <2>3. ASSUME burst = 1 PROVE At(looper', {"FRAME"}) = {}
    <3>1. \A i \in At(looper', {"FRAME"}) : i + 1 \in At(looper, {"FRAME"})
      BY <1>0, <2>1, MovesAt
    <3>2. \A i \in At(looper', {"FRAME"}) : i + 1 = 1
      BY <2>1, <2>2, <2>3, <3>1, OneMessage
    <3>3. \A i \in At(looper', {"FRAME"}) : i \in 1..Len(looper') /\ Len(looper') \in Nat
      BY <2>1 DEF At, Moves
    <3> QED BY <3>2, <3>3
  <2> QED BY <1>1, <1>2, <2>1, <2>2, <2>3 DEF FrameInv
<1>9. CASE AsksForFrame
  <2>1. /\ currentState = "CAPTURE" /\ camera = "open" /\ burst' = burst
        /\ mCurrentBufferIndex' = mCurrentBufferIndex
        /\ requested' = requested \cup {NextBuffer(mCurrentBufferIndex)}
        /\ fresh' = fresh \ {NextBuffer(mCurrentBufferIndex)}
    BY <1>9 DEF AsksForFrame, ChainStep, TakeNextFrame, RequestFrame, StateInv,
                ReadyWhenActive
  <2> QED BY <1>2, <2>1 DEF FrameInv
<1>10. CASE WaitsForMemory
  <2>1. Moves(1, {})
    BY <1>10, KindMoves
  <2> QED BY <1>10, <1>a, <2>1 DEF WaitsForMemory, ChainStep, frameVars
<1>11. CASE Anew
  BY <1>2, <1>11 DEF Anew
<1>12. CASE TimerDue
  <2>1. PICK m \in BagToSet(timers) : looper' = Append(looper, m)
    BY <1>12 DEF TimerDue
  <2>2. Moves(0, {m}) /\ m.kind # "FRAME"
    BY <2>1, KindMoves DEF MessageInv
  <2> QED BY <1>12, <1>a, <2>2 DEF TimerDue, frameVars
<1>13. CASE FocusCompletes
  <2>1. Moves(0, {Msg("AF", 0)})
    BY <1>13, KindMoves
  <2> QED BY <1>3, <1>13, <1>a, <2>1 DEF FocusCompletes, frameVars
<1>14. CASE PreviewFrame
  <2>1. Moves(0, {})
    BY <1>14, KindMoves
  <2> QED BY <1>14, <1>a, <2>1 DEF PreviewFrame
<1> QED BY <1>4, <1>5, <1>6, <1>7, <1>8, <1>9, <1>10, <1>11, <1>12, <1>13, <1>14, StepKinds

-----------------------------------------------------------------------------
(* Types.                                                                  *)
MessagesTyped ==
    /\ looper \in Seq(Message)
    /\ IsABag(timers) /\ BagToSet(timers) \subseteq Message
    /\ burst \in 0..MaxBursts

ListenerValue == {"this", "other", "cleared"}

FlagsTyped ==
    /\ {resizing, previewCallback, afRunning, afArmed, controller} \subseteq BOOLEAN
    /\ listener \in ListenerValue

LEMMA StepMessagesTyped ==
    ASSUME TypeOK, StateInv, MessageInv, [Next]_vars
    PROVE  MessagesTyped'
<1>0. /\ looper \in Seq(Message) /\ IsABag(timers)
      /\ BagToSet(timers) \subseteq Message /\ burst \in 0..MaxBursts
  BY DEF TypeOK
<1>a. ASSUME NEW d, NEW X, Moves(d, X), burst' \in 0..MaxBursts, IsABag(timers'),
             BagToSet(timers') \subseteq Message
      PROVE  MessagesTyped'
  BY <1>a DEF MessagesTyped, Moves
<1>b. ASSUME NEW d, NEW X, Moves(d, X), UNCHANGED <<timers, burst>>
      PROVE  MessagesTyped'
  BY <1>0, <1>b DEF MessagesTyped, Moves
<1>c. ASSUME NEW k \in ChainKind, ChainStep, Moves(1, {}),
             StartTimer(k, Head(looper).burst, Tail(looper))
      PROVE  MessagesTyped'
  <2>1. /\ timers' = timers (+) SetToBag({Msg(k, Head(looper).burst)})
        /\ looper # << >> /\ burst' = burst
    BY <1>c DEF StartTimer, PostDelayed, ChainStep
  <2>2. Head(looper).burst \in 0..MaxBursts
    <3>1. Head(looper) \in Message
      BY <1>0, <2>1, HeadTailProperties, EmptySeq
    <3> QED BY <3>1 DEF Message
  <2>3. Msg(k, Head(looper).burst) \in Message
    BY <2>2 DEF Msg, Message
  <2>4. /\ IsABag(timers')
        /\ BagToSet(timers') = BagToSet(timers) \cup {Msg(k, Head(looper).burst)}
    BY <1>0, <2>1, TimerStarts
  <2>5. BagToSet(timers') \subseteq Message
    BY <1>0, <2>3, <2>4
  <2> QED BY <1>0, <1>a, <1>c, <2>1, <2>4, <2>5
<1>1. CASE QuietEvent \/ PreviewFrame
  BY <1>1, <1>b, KindMoves DEF QuietEvent, PreviewFrame, Quiet
<1>2. CASE QuietMessage
  BY <1>2, <1>b, KindMoves DEF QuietMessage, Quiet
<1>3. CASE StartsBurst
  <2>1. /\ \E d \in {0, 1}, X \in {{Msg("FRAME_NULL", burst')}} : Moves(d, X)
        /\ burst' \in 1..MaxBursts /\ timers' = timers
    BY <1>3, KindMoves DEF StartsBurst, TakeFirstFrame
  <2> QED BY <1>0, <1>a, <2>1
<1>4. CASE StartsCapturing \/ StoresFrame \/ WaitsForMemory
  BY <1>4, <1>c, KindMoves DEF StartsCapturing, StoresFrame, WaitsForMemory, ChainKind
<1>5. CASE AsksForFrame
  BY <1>5, <1>b, KindMoves DEF AsksForFrame, TakeNextFrame
<1>6. CASE Anew
  BY <1>0, <1>6 DEF Anew, MessagesTyped, IsABag, BagToSet, EmptyBag, SetToBag
<1>7. CASE TimerDue
  <2>1. PICK m \in BagToSet(timers) : /\ timers' = timers (-) SetToBag({m})
                                      /\ looper' = Append(looper, m)
    BY <1>7 DEF TimerDue
  <2>2. /\ Moves(0, {m}) /\ IsABag(timers') /\ BagToSet(timers') \subseteq BagToSet(timers)
        /\ burst' = burst
    BY <1>0, <1>7, <2>1, TimerEnds, KindMoves DEF TimerDue
  <2> QED BY <1>0, <1>a, <2>2
<1>8. CASE FocusCompletes
  BY <1>8, <1>b, KindMoves DEF FocusCompletes
<1> QED BY <1>1, <1>2, <1>3, <1>4, <1>5, <1>6, <1>7, <1>8, StepKinds

(* What sendEvent() leaves in the variables that are not of the looper.    *)
StateTyped ==
    /\ currentState \in CaptureState
    /\ crash \in {"none", "controller", "prepare", "camera"}
    /\ camera \in {"released", "opening", "open"}
    /\ mFilePathPreFix \in 0..MaxBursts
    /\ mCurrentBufferIndex \in Buffer
    /\ requested \subseteq Buffer /\ fresh \subseteq Buffer

LEMMA SendEventTypes ==
    ASSUME StateTyped, burst \in 0..MaxBursts, NEW e, NEW b, NEW q, SendEvent(e, b, q)
    PROVE  StateTyped'
<1> USE BoundsAssumption DEF ChangeTo, cameraVars, stackVars, frameVars, StateTyped, CaptureState
<1>a. NextBuffer(mCurrentBufferIndex) \in Buffer /\ 0 \in Buffer /\ 0 \in 0..MaxBursts
  BY NextBufferType DEF Buffer
<1>b. ASSUME CancelAutoFocus(q) PROVE StateTyped'
  BY <1>b DEF CancelAutoFocus
<1>c. ASSUME TakeFirstFrame(q), UNCHANGED cameraVars PROVE StateTyped'
  BY <1>c DEF TakeFirstFrame, RequestFrame
<1>d. ASSUME NEW why \in {"controller", "prepare", "camera"}, Crash(why) PROVE StateTyped'
  BY <1>d DEF Crash
<1>e. ASSUME OnSurfacePrepared(q) PROVE StateTyped'
  BY <1>a, <1>d, <1>e DEF OnSurfacePrepared, BecomeReady
<1>1. CASE currentState = "INITIALIZE" /\ InInitialize(e, q)
  BY <1>1 DEF InInitialize
<1>2. CASE currentState = "RESUME" /\ InResume(e, q)
  BY <1>2, <1>e DEF InResume, OnSurfaceCreated, OnSurfaceChanged
<1>3. CASE currentState = "STANDBY" /\ InStandby(e, q)
  BY <1>3, <1>d DEF InStandby, ChangeCameraDevice, AutoFocus
<1>4. CASE currentState = "ZOOMING" /\ InZooming(e, q)
  BY <1>4 DEF InZooming
<1>5. CASE currentState = "AF_SEARCH" /\ InAfSearch(e, q)
  BY <1>5, <1>b DEF InAfSearch
<1>6. CASE currentState = "AF_DONE" /\ InAfDone(e, q)
  BY <1>6, <1>b, <1>c DEF InAfDone
<1>7. CASE currentState = "WAIT_FOR_AF_DONE" /\ InWaitForAfDone(e, q)
  BY <1>7, <1>b, <1>c DEF InWaitForAfDone
<1>8. CASE currentState = "CAPTURE" /\ InCapture(e, b, q)
  BY <1>a, <1>8 DEF InCapture, FinishCapturing, RequestNextCapture, TakeNextFrame,
                    RequestFrame, SwitchBuffer
<1>9. CASE currentState = "PAUSE" /\ InPause(e, q)
  BY <1>9, <1>d, <1>e DEF InPause
<1>10. CASE currentState # "PAUSE" /\ <<currentState, e>> \notin Rows /\ Ignore(q)
  BY <1>10 DEF Ignore
<1> QED BY <1>1, <1>2, <1>3, <1>4, <1>5, <1>6, <1>7, <1>8, <1>9, <1>10 DEF SendEvent

LEMMA SendEventFlags ==
    ASSUME FlagsTyped, NEW e, NEW b, NEW q, SendEvent(e, b, q)
    PROVE  /\ previewCallback' \in BOOLEAN /\ afRunning' \in BOOLEAN
           /\ afArmed' \in BOOLEAN /\ controller' \in BOOLEAN /\ listener' \in ListenerValue
<1>0. /\ previewCallback \in BOOLEAN /\ afRunning \in BOOLEAN /\ afArmed \in BOOLEAN
      /\ controller \in BOOLEAN /\ listener \in ListenerValue
  BY DEF FlagsTyped
<1> USE <1>0 DEF ChangeTo, cameraVars, stackVars, ListenerValue
<1>b. CASE CancelAutoFocus(q)
  BY <1>b DEF CancelAutoFocus
<1>c. CASE TakeFirstFrame(q) /\ UNCHANGED cameraVars
  BY <1>c DEF TakeFirstFrame
<1>d. ASSUME NEW why, Crash(why)
      PROVE  UNCHANGED <<previewCallback, afRunning, afArmed, controller, listener>>
  BY <1>d DEF Crash
<1>e. CASE OnSurfacePrepared(q)
  BY <1>d, <1>e DEF OnSurfacePrepared, BecomeReady, AttachToController
<1>1. CASE currentState = "INITIALIZE" /\ InInitialize(e, q)
  BY <1>1 DEF InInitialize
<1>2. CASE currentState = "RESUME" /\ InResume(e, q)
  BY <1>2, <1>e DEF InResume, OnSurfaceCreated, OnSurfaceChanged
<1>3. CASE currentState = "STANDBY" /\ InStandby(e, q)
  BY <1>3, <1>d DEF InStandby, ChangeCameraDevice, AutoFocus
<1>4. CASE currentState = "ZOOMING" /\ InZooming(e, q)
  BY <1>4 DEF InZooming
<1>5. CASE currentState = "AF_SEARCH" /\ InAfSearch(e, q)
  BY <1>5, <1>b DEF InAfSearch
<1>6. CASE currentState = "AF_DONE" /\ InAfDone(e, q)
  BY <1>6, <1>b, <1>c DEF InAfDone
<1>7. CASE currentState = "WAIT_FOR_AF_DONE" /\ InWaitForAfDone(e, q)
  BY <1>7, <1>b, <1>c DEF InWaitForAfDone
<1>8. CASE currentState = "CAPTURE" /\ InCapture(e, b, q)
  BY <1>8 DEF InCapture, RequestNextCapture, TakeNextFrame
<1>9. CASE currentState = "PAUSE" /\ InPause(e, q)
  BY <1>9, <1>d, <1>e DEF InPause, DetachListener
<1>10. CASE currentState # "PAUSE" /\ <<currentState, e>> \notin Rows /\ Ignore(q)
  BY <1>10 DEF Ignore
<1> QED BY <1>1, <1>2, <1>3, <1>4, <1>5, <1>6, <1>7, <1>8, <1>9, <1>10 DEF SendEvent

(* The life cycle and the window.                                          *)
WindowTyped ==
    /\ activity \in {"created", "resumed", "paused", "destroyed"}
    /\ finishing \in BOOLEAN
    /\ earlier \in 0..MaxEarlier
    /\ surface \in {"none", "created", "changed"}
    /\ cancelRemoves \in BOOLEAN

LEMMA TypeParts ==
    TypeOK <=> MessagesTyped /\ FlagsTyped /\ StateTyped /\ WindowTyped
BY DEF TypeOK, MessagesTyped, FlagsTyped, ListenerValue, StateTyped, WindowTyped

LEMMA StepFlagsTyped ==
    ASSUME FlagsTyped, [Next]_vars
    PROVE  FlagsTyped'
<1>0. /\ resizing \in BOOLEAN /\ previewCallback \in BOOLEAN /\ afRunning \in BOOLEAN
      /\ afArmed \in BOOLEAN /\ controller \in BOOLEAN /\ listener \in ListenerValue
  BY DEF FlagsTyped
<1>1. FlagsTyped' <=>
         /\ resizing' \in BOOLEAN /\ previewCallback' \in BOOLEAN /\ afRunning' \in BOOLEAN
         /\ afArmed' \in BOOLEAN /\ controller' \in BOOLEAN /\ listener' \in ListenerValue
  BY DEF FlagsTyped
<1> USE <1>0 DEF windowVars, cameraVars, stackVars, ListenerValue
<1>a. ASSUME NEW e, NEW b, NEW q, SendEvent(e, b, q), resizing' \in BOOLEAN
      PROVE  FlagsTyped'
  <2>1. /\ previewCallback' \in BOOLEAN /\ afRunning' \in BOOLEAN
        /\ afArmed' \in BOOLEAN /\ controller' \in BOOLEAN /\ listener' \in ListenerValue
    BY <1>a, SendEventFlags
  <2> QED BY <1>1, <1>a, <2>1
<1>b. ASSUME NEW q, PauseEvent(q) PROVE controller' \in BOOLEAN /\ listener' \in ListenerValue
  BY <1>b DEF PauseEvent, ChangeTo, DetachListener
<1>2. ASSUME NEW e \in UserEvent, UserInput(e) PROVE FlagsTyped'
  <2>1. SendEvent(e, 0, looper) /\ resizing' \in BOOLEAN
    BY <1>2 DEF UserInput
  <2> QED BY <1>a, <2>1
<1>3. CASE SurfaceCreated
  <2>1. CASE SendEvent("SURFACE_CREATED", 0, looper)
    <3>1. resizing' \in BOOLEAN
      BY <1>3 DEF SurfaceCreated
    <3> QED BY <1>a, <2>1, <3>1
  <2>2. CASE BecomeReady(looper) /\ UNCHANGED resizing
    BY <1>1, <2>2 DEF BecomeReady, AttachToController
  <2> QED BY <1>3, <2>1, <2>2 DEF SurfaceCreated
<1>4. CASE SurfaceChanged
  <2>1. resizing' \in BOOLEAN
    BY <1>4 DEF SurfaceChanged
  <2>2. CASE Ignore(looper)
    BY <1>1, <2>1, <2>2 DEF Ignore, ChangeTo
  <2>3. CASE SendEvent(IF resizing THEN "SURFACE_PREPARED" ELSE "SURFACE_CHANGED", 0, looper)
    BY <1>a, <2>1, <2>3
  <2> QED BY <1>4, <2>2, <2>3 DEF SurfaceChanged
<1>5. CASE BackKey
  BY <1>1, <1>5, <1>b DEF BackKey
<1>6. CASE OnResume
  BY <1>1, <1>6 DEF OnResume, Crash, DetachListener
<1>7. CASE OnPause
  BY <1>1, <1>7, <1>b DEF OnPause
<1>8. CASE OnDestroy
  <2>1. SendEvent("FINALIZE", 0, looper) /\ resizing' \in BOOLEAN
    BY <1>8 DEF OnDestroy
  <2> QED BY <1>a, <2>1
<1>9. CASE Recreate \/ Relaunch
  BY <1>1, <1>9 DEF Recreate, Relaunch, NewStateMachine, DetachListener
<1>10. CASE ProcessMessage
  <2>1. resizing' \in BOOLEAN
    BY <1>10 DEF ProcessMessage
  <2>2. CASE Ignore(Tail(looper))
    BY <1>1, <2>1, <2>2 DEF Ignore, ChangeTo
  <2>3. CASE ~Ignore(Tail(looper))
    <3>1. \E e \in {"AUTO_FOCUS_DONE", "FRAME_NULL", "FRAME", "REQUEST_NEXT"} :
             SendEvent(e, Head(looper).burst, Tail(looper))
      BY <1>10, <2>3 DEF ProcessMessage
    <3> QED BY <1>a, <2>1, <3>1
  <2> QED BY <2>2, <2>3
<1>11. CASE SurfaceDestroyed \/ TimerDue \/ CameraOpens \/ PreviewFrame
  BY <1>1, <1>11 DEF SurfaceDestroyed, TimerDue, CameraOpens, PreviewFrame
<1>12. CASE FocusCompletes
  BY <1>1, <1>12 DEF FocusCompletes
<1>13. CASE EarlierEvent
  BY <1>1, <1>13 DEF EarlierEvent
<1>14. CASE UNCHANGED vars
  BY <1>1, <1>14 DEF vars
<1> QED BY <1>2, <1>3, <1>4, <1>5, <1>6, <1>7, <1>8, <1>9, <1>10, <1>11, <1>12, <1>13,
           <1>14 DEF Next, Dead

LEMMA StepStateTyped ==
    ASSUME StateTyped, burst \in 0..MaxBursts, [Next]_vars
    PROVE  StateTyped'
<1>a. ASSUME NEW e, NEW b, NEW q, SendEvent(e, b, q) PROVE StateTyped'
  BY <1>a, SendEventTypes
<1> USE BoundsAssumption DEF windowVars, cameraVars, stackVars, frameVars, StateTyped,
                             CaptureState
<1>b. 0 \in Buffer /\ 0 \in 0..MaxBursts
  BY DEF Buffer
<1>1. ASSUME NEW e \in UserEvent, UserInput(e) PROVE StateTyped'
  <2>1. SendEvent(e, 0, looper)
    BY <1>1 DEF UserInput
  <2> QED BY <1>a, <2>1
<1>2. CASE SurfaceCreated
  <2>1. CASE SendEvent("SURFACE_CREATED", 0, looper)
    BY <1>a, <2>1
  <2>2. CASE BecomeReady(looper)
    BY <1>b, <2>2 DEF BecomeReady
  <2> QED BY <1>2, <2>1, <2>2 DEF SurfaceCreated
<1>3. CASE SurfaceChanged
  <2>1. CASE SendEvent(IF resizing THEN "SURFACE_PREPARED" ELSE "SURFACE_CHANGED", 0, looper)
    BY <1>a, <2>1
  <2>2. CASE Ignore(looper)
    BY <2>2 DEF Ignore, ChangeTo
  <2> QED BY <1>3, <2>1, <2>2 DEF SurfaceChanged
<1>4. CASE BackKey \/ OnPause
  BY <1>b, <1>4 DEF BackKey, OnPause, PauseEvent, ChangeTo, FinishCapturing
<1>5. CASE OnResume
  BY <1>5 DEF OnResume, Crash
<1>6. CASE OnDestroy
  BY <1>6, <1>a DEF OnDestroy
<1>7. CASE Recreate \/ Relaunch
  BY <1>b, <1>7 DEF Recreate, Relaunch, NewStateMachine
<1>8. CASE ProcessMessage
  <2>1. CASE Ignore(Tail(looper))
    BY <2>1 DEF Ignore, ChangeTo
  <2>2. CASE ~Ignore(Tail(looper))
    <3>1. \E e \in {"AUTO_FOCUS_DONE", "FRAME_NULL", "FRAME", "REQUEST_NEXT"} :
             SendEvent(e, Head(looper).burst, Tail(looper))
      BY <1>8, <2>2 DEF ProcessMessage
    <3> QED BY <1>a, <3>1
  <2> QED BY <2>1, <2>2
<1>9. CASE SurfaceDestroyed \/ TimerDue \/ CameraOpens \/ FocusCompletes \/ EarlierEvent
  BY <1>9 DEF SurfaceDestroyed, TimerDue, CameraOpens, FocusCompletes, EarlierEvent
<1>10. CASE PreviewFrame
  BY <1>10 DEF PreviewFrame
<1>11. CASE UNCHANGED vars
  BY <1>11 DEF vars
<1> QED BY <1>1, <1>2, <1>3, <1>4, <1>5, <1>6, <1>7, <1>8, <1>9, <1>10, <1>11
        DEF Next, Dead

LEMMA StepWindowTyped ==
    ASSUME WindowTyped, [Next]_vars
    PROVE  WindowTyped'
<1> USE DEF WindowTyped, windowVars, earlierVars
<1>1. CASE Relaunch
  <2>1. finishing' \in BOOLEAN /\ cancelRemoves' \in BOOLEAN
    BY <1>1, Zenon DEF Relaunch, NewStateMachine
  <2>2. earlier' \in 0..MaxEarlier
    BY <1>1, BoundsAssumption DEF Relaunch
  <2> QED BY <1>1, <2>1, <2>2 DEF Relaunch, NewStateMachine
<1>2. CASE EarlierEvent
  <2>1. finishing' \in BOOLEAN /\ cancelRemoves' \in BOOLEAN
    BY <1>2, Zenon DEF EarlierEvent
  <2>2. earlier' \in 0..MaxEarlier
    BY <1>2, BoundsAssumption DEF EarlierEvent
  <2> QED BY <1>2, <2>1, <2>2 DEF EarlierEvent
<1>3. CASE Recreate
  BY <1>3 DEF Recreate, NewStateMachine
<1>4. CASE ~(Relaunch \/ EarlierEvent \/ Recreate)
  BY <1>4 DEF Next, vars, Dead, UserInput, SurfaceCreated, SurfaceChanged,
       SurfaceDestroyed, BackKey, OnResume, OnPause, OnDestroy, ProcessMessage,
       TimerDue, CameraOpens, FocusCompletes, PreviewFrame
<1> QED BY <1>1, <1>2, <1>3, <1>4

-----------------------------------------------------------------------------
(* The inductive invariant.                                                *)
LEMMA InitInv == Init => Inv
<1> SUFFICES ASSUME Init PROVE Inv
  OBVIOUS
<1>1. StateInv
  BY InitStateInv
<1>2. looper = << >> /\ looper \in Seq(Message) /\ burst = 0
  BY DEF Init
<1>3. \A kinds : At(looper, kinds) = {}
  BY <1>2 DEF At
<1>4. IsABag(timers) /\ BagToSet(timers) = {}
  BY DEF Init, IsABag, BagToSet, EmptyBag, SetToBag
<1>5. MessagesTyped
  BY <1>2, <1>4, BoundsAssumption DEF MessagesTyped
<1>6. FlagsTyped /\ WindowTyped
  <2>1. /\ finishing \in BOOLEAN /\ cancelRemoves \in BOOLEAN
        /\ {resizing, previewCallback, afRunning, afArmed, controller} \subseteq BOOLEAN
    BY Zenon DEF Init
  <2>2. earlier \in 0..MaxEarlier
    BY BoundsAssumption DEF Init
  <2> QED BY <2>1, <2>2 DEF Init, FlagsTyped, ListenerValue, WindowTyped
<1>7. StateTyped
  BY BoundsAssumption DEF Init, StateTyped, CaptureState, Buffer
<1>8. TypeOK
  BY <1>5, <1>6, <1>7, TypeParts
<1>9. MessageInv /\ FocusInv /\ OrderInv /\ ChainAlive /\ FrameInv
  BY <1>3, <1>4 DEF Init, MessageInv, FocusInv, OrderInv, ChainAlive, FrameInv
<1> QED BY <1>1, <1>8, <1>9 DEF Inv, StateInv

LEMMA StepInv ==
    ASSUME Inv, [Next]_vars
    PROVE  Inv'
<1>1. /\ TypeOK /\ StateInv /\ MessageInv /\ FocusInv /\ OrderInv
      /\ ChainAlive /\ FrameInv
  BY DEF Inv, StateInv
<1>2. StateInv' /\ MessageInv' /\ FocusInv' /\ OrderInv' /\ ChainAlive' /\ FrameInv'
  BY <1>1, StepStateInv, StepMessageInv, StepFocusInv, StepOrderInv, StepChainAlive,
     StepFrameInv
<1>3. MessagesTyped' /\ FlagsTyped' /\ StateTyped' /\ WindowTyped'
  <2>1. MessagesTyped /\ FlagsTyped /\ StateTyped /\ WindowTyped
    BY <1>1, TypeParts
  <2> QED BY <1>1, <2>1, StepMessagesTyped, StepFlagsTyped, StepStateTyped,
             StepWindowTyped DEF MessagesTyped
<1>4. TypeOK'
  BY <1>3 DEF TypeOK, MessagesTyped, FlagsTyped, ListenerValue, StateTyped, WindowTyped
<1> QED BY <1>2, <1>4 DEF Inv, StateInv

THEOREM InvHolds == Spec => []Inv
<1>1. Inv /\ [Next]_vars => Inv'
  BY StepInv
<1> QED BY InitInv, <1>1, PTL DEF Spec

-----------------------------------------------------------------------------
(* Every variable keeps its type, and no more bursts are started than the  *)
(* bound allows.                                                           *)
THEOREM TypesCorrect == Spec => []TypeOK
<1>1. Inv => TypeOK
  BY DEF Inv
<1> QED BY InvHolds, <1>1, PTL

(* A burst being captured always has exactly one message on its way: its   *)
(* chain does not die when memory is low, nor fork when a message of an    *)
(* earlier burst arrives late.                                             *)
THEOREM ChainNeverDies == Spec => []ChainAlive
<1>1. Inv => ChainAlive
  BY DEF Inv
<1> QED BY InvHolds, <1>1, PTL

(* Where cancelAutoFocus() removes the message of the focus run it ends,   *)
(* startCapturing() comes once per burst and before the first frame is     *)
(* stored, late messages of earlier bursts included.                       *)
THEOREM FramesAreOrdered == Spec => []StoredOnlyInOpenBurst
<1>1. Inv => StoredOnlyInOpenBurst
  <2> SUFFICES ASSUME Inv, cancelRemoves, currentState = "CAPTURE", looper # << >>
               PROVE  /\ Head(looper).kind = "FRAME" => mFilePathPreFix # 0
                      /\ Head(looper).kind = "FRAME_NULL" => mFilePathPreFix = 0
    BY DEF StoredOnlyInOpenBurst, NextInCapture
  <2>1. looper \in Seq(Message) /\ Len(looper) \in Nat
    BY DEF Inv, TypeOK
  <2>2. /\ Head(looper).kind = "FRAME" => 1 \in At(looper, {"FRAME"})
        /\ Head(looper).kind = "FRAME_NULL" => 1 \in At(looper, {"FRAME_NULL"})
    BY <2>1, AtTail
  <2>3. /\ \A i \in At(looper, {"FRAME_NULL"}), j \in At(looper, {"FRAME"}) : i < j
        /\ mFilePathPreFix = 0 <=> At(looper, {"FRAME_NULL"}) # {}
    BY DEF Inv, OrderInv
  <2>4. \A i \in At(looper, {"FRAME_NULL"}) : i \in 1..Len(looper)
    BY DEF At
  <2> QED BY <2>1, <2>2, <2>3, <2>4
<1> QED BY InvHolds, <1>1, PTL

(* In the first burst the two buffers of RingBuffer are enough: the one to *)
(* be stored was filled, or is still lent, since it was stored last.       *)
THEOREM FramesAreFresh == Spec => []FreshFrameStored
<1>1. Inv => FreshFrameStored
  BY DEF Inv, FreshFrameStored, FrameInv, NextInCapture
<1> QED BY InvHolds, <1>1, PTL
=============================================================================
