----------------------------- MODULE PhotoStore -----------------------------
(***************************************************************************)
(* What the saving service promises the camera: photos are accepted one    *)
(* after the other, handled in the order they were accepted, each exactly  *)
(* once, and handling a photo either puts it on the SD card or loses it    *)
(* (the file cannot be opened).  A process that dies handles nothing more. *)
(* NativeSavingTaskStack implements this specification.                    *)
(***************************************************************************)
EXTENDS Naturals, Sequences

CONSTANT Photo          \* the photos that may be taken

VARIABLES pending,      \* accepted photos not yet handled, in order
          saved,        \* photos on the SD card
          handled,      \* photos written or lost
          alive         \* FALSE once the process died

vars == <<pending, saved, handled, alive>>

Elements(s) == {s[i] : i \in 1..Len(s)}

TypeOK ==
    /\ pending \in Seq(Photo)
    /\ saved \subseteq handled
    /\ handled \subseteq Photo
    /\ alive \in BOOLEAN

Init ==
    /\ pending = << >>
    /\ saved = {}
    /\ handled = {}
    /\ alive = TRUE

Accept(p) ==
    /\ alive
    /\ p \notin handled \cup Elements(pending)
    /\ pending' = Append(pending, p)
    /\ UNCHANGED <<saved, handled, alive>>

Handle ==
    /\ alive
    /\ pending # << >>
    /\ pending' = Tail(pending)
    /\ handled' = handled \cup {Head(pending)}
    /\ \/ saved' = saved \cup {Head(pending)}
       \/ saved' = saved
    /\ UNCHANGED alive

Die ==
    /\ alive
    /\ alive' = FALSE
    /\ UNCHANGED <<pending, saved, handled>>

Next == (\E p \in Photo : Accept(p)) \/ Handle \/ Die

Spec == Init /\ [][Next]_vars /\ WF_vars(Handle)
=============================================================================
