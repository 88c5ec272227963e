----------------------------- MODULE LongLoops -----------------------------
(***************************************************************************)
(* Loops over a whole image or stream: too long for TLC to recurse from    *)
(* one step to the one before, as Loops does.                              *)
(***************************************************************************)
EXTENDS Loops

(* What Iterate(n, step, base) is, by halves.  The value at the middle is   *)
(* bound by a set, so that TLC has it before it goes on.                    *)
LongLoop(n, step(_, _), base) ==
    LET RECURSIVE loop(_, _, _)
        loop(i, j, x) ==
            IF i = j THEN step(x, i)
            ELSE CHOOSE y \in {loop((i + j) \div 2 + 1, j, z) : z \in {loop(i, (i + j) \div 2, x)}} : TRUE
    IN  IF n = 0 THEN base ELSE loop(1, n, base)
=============================================================================
