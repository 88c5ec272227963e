---------------------------- MODULE VirtualArray ----------------------------
(***************************************************************************)
(* What the memory manager of libjpeg promises of its virtual arrays       *)
(* (libjpeg.txt, jpeglib.h struct jpeg_memory_mgr): an array of rows that  *)
(* keep what was stored in them, read and written a strip at a time, rows  *)
(* being defined from the top down.                                        *)
(***************************************************************************)
EXTENDS Integers, Sequences

CONSTANTS
    Shapes,         \* what arrays there may be: functions from array to [rows, fresh]
    Values          \* what can be stored

VARIABLES
    shape,          \* shape[a]: its rows, and what a row holds that was never written
    content,        \* content[a][r]: the value of row r of array a
    strip           \* the rows the last access has shown to its caller

Arrays == DOMAIN shape

EmptyArray(a) == [r \in 0..(shape[a].rows - 1) |-> shape[a].fresh]

Init ==
    /\ shape \in Shapes
    /\ content = [a \in Arrays |-> EmptyArray(a)]
    /\ strip = <<>>

Read(a, start, n) ==
    /\ start + n <= shape[a].rows
    /\ strip' = [i \in 1..n |-> content[a][start + i - 1]]
    /\ UNCHANGED <<shape, content>>

(* The caller stores v in some of the rows of the strip.                    *)
Write(a, start, n, S, v) ==
    /\ start + n <= shape[a].rows
    /\ S \subseteq 0..(n - 1)
    /\ strip' = [i \in 1..n |-> content[a][start + i - 1]]
    /\ content' = [content EXCEPT ![a] =
                    [r \in DOMAIN @ |-> IF r - start \in S THEN v ELSE @[r]]]
    /\ UNCHANGED shape

(* The image is done with.                                                  *)
Release ==
    /\ content' = [a \in Arrays |-> EmptyArray(a)]
    /\ strip' = <<>>
    /\ UNCHANGED shape

Next ==
    \/ Release
    \/ \E a \in Arrays : \E start \in 0..(shape[a].rows - 1), n \in 1..shape[a].rows :
        \/ Read(a, start, n)
        \/ \E S \in SUBSET (0..(n - 1)), v \in Values : Write(a, start, n, S, v)

Spec == Init /\ [][Next]_<<shape, content, strip>>
=============================================================================
