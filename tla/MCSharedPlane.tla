---------------------------- MODULE MCSharedPlane ---------------------------
(* Two callers over three facades: two share a runtime, the third has a     *)
(* runtime of its own; all share saver, memory and thread labels.          *)
EXTENDS SharedPlane, TLC

CONSTANTS c1, c2, p1, p2, p3, r1, r2, t1, t2

MCRuntimeOf == p1 :> r1 @@ p2 :> r1 @@ p3 :> r2

\* p1 and p2 share a runtime; callers and thread labels are alike.
MCSymmetry == Permutations({c1, c2}) \cup Permutations({p1, p2}) \cup Permutations({t1, t2})

=============================================================================
