------------------------------- MODULE MCFdct -------------------------------
(* The forward transforms of libjpeg, every pair of sizes once.            *)
EXTENDS BlockCodec

Sizes == {<<n, n>> : n \in 1..16} \cup {<<2 * n, n>> : n \in 1..8} \cup {<<n, 2 * n>> : n \in 1..8}

MCJobs == {[enc |-> s, dec |-> s, quality |-> 100, tbl_no |-> 0,
            image |-> [y \in 0..(s[2] - 1) |-> [x \in 0..(s[1] - 1) |-> (16 * x + 5 * y) % 256]]] : s \in Sizes}
=============================================================================
