------------------------------- MODULE Loops -------------------------------
(***************************************************************************)
(* Sequential computations as operators: a local value and a counted loop. *)
(***************************************************************************)
EXTENDS Integers

(* LET for a value that is used more than once: TLC evaluates an argument   *)
(* once, but a definition in a LET at every use.                            *)
With(v, body(_)) == body(v)

(* A loop: step applied for i = 1, 2, ..., n to the value it left.          *)
Iterate(n, step(_, _), base) ==
    LET loop[i \in 0..n] == IF i = 0 THEN base ELSE step(loop[i - 1], i)
    IN  loop[n]
=============================================================================
