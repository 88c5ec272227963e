----------------------------- MODULE DctCommon -----------------------------
(***************************************************************************)
(* What the forward and the inverse transforms of libjpeg share (jdct.h    *)
(* and the heads of jfdctint.c and jidctint.c).                            *)
(*                                                                         *)
(* A routine transforms a block in two passes, and a pass applies one      *)
(* integer kernel to every row or to every column.  The code evaluates a   *)
(* kernel by a factorisation into rotations; every product is exact, so a  *)
(* pass computes a linear form of its inputs, followed by one rounding     *)
(* shift.  A kernel below is the table of those forms, in the code's fixed *)
(* point (CONST_BITS = 13), with the code's rounded FIX() constants        *)
(* multiplied out.  Coefficient k of point x and of point n-1-x differ only*)
(* in the sign (-1)^k, so a kernel holds one half of its points.           *)
(*                                                                         *)
(* TLC's integers have the width of INT32 and TLC stops at an overflow, so *)
(* a run also shows that no sum leaves the code's 32 bits.                 *)
(***************************************************************************)
EXTENDS Integers, Sequences

DCTSIZE == 8
MAXJSAMPLE == 255
CENTERJSAMPLE == 128

(* RIGHT_SHIFT rounds towards minus infinity; a shift of 0 leaves x alone.  *)
Descale(x, n) == IF n = 0 THEN x ELSE (x + 2^(n - 1)) \div 2^n

SumOver(n, term(_)) ==
    LET sum[i \in 0..n] == IF i = 0 THEN 0 ELSE sum[i - 1] + term(i - 1)
    IN  sum[n]

Half(n) == (n + 1) \div 2

(* A pass: its kernel, the number of points and the final shift.            *)
Pass(kernel, points, shift) ==
    [kernel |-> kernel, points |-> points, shift |-> shift, form |-> "plain"]
=============================================================================
