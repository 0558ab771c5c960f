--------------------------- MODULE MCTrailProgress ---------------------------
(* Instances of TrailProgress for TLC.                                     *)
EXTENDS TrailProgress, TLC

At(s, c, m) == [seq |-> s, cutoff |-> c, mandatory |-> m]

\* Party 2 starts when party 1 is due at the first checkpoint.
OneAfterAnother == [p \in Parties |-> 2 * (p - 1)]

\* A plan of one checkpoint, and one that is refused for its cutoffs.
ShortPlans == {{At(1, 2, TRUE)}, {At(1, 4, TRUE), At(2, 2, TRUE)}}

\* Two rangers append checkpoints.
TwoAdditions == {At(2, 4, TRUE), At(2, 6, FALSE)}
=============================================================================
