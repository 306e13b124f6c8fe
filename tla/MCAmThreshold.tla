--------------------------- MODULE MCAmThreshold ---------------------------
(* Instance of AmThreshold for TLC. *)
EXTENDS AmThreshold, TLC

Entry(p, r) == [d \in Directions |-> IF d = "positive" THEN p ELSE r]

\* A list of one entry, of two and of three, oldest and newest different.
MCInitDocs ==
  {[by |-> Null, thresholds |-> t] :
     t \in {<<Entry(1, 2)>>, <<Entry(1, 2), Entry(2, 1)>>,
            <<Entry(1, 2), Entry(2, 1), Entry(1, 1)>>}}

RunSymmetry == Permutations(Runs)
=============================================================================
