----------------------------- MODULE Migration -----------------------------
(***************************************************************************)
(* What a transfer of documents between two databases promises, whatever   *)
(* the steps it is made of: a document may be in both databases for a      *)
(* while, and it leaves the South only once GD has it, or once its failed  *)
(* insert has been reported to the operator.                               *)
(***************************************************************************)
CONSTANT Docs

VARIABLES south, merged, reported

Init ==
  /\ south = Docs
  /\ merged = {}
  /\ reported = {}

Copy(d) ==
  /\ d \in south \cup reported
  /\ merged' = merged \cup {d}
  /\ UNCHANGED <<south, reported>>

Report(d) ==
  /\ reported' = reported \cup {d}
  /\ UNCHANGED <<south, merged>>

Drop(S) ==
  /\ S \subseteq merged \cup reported
  /\ south' = south \ S
  /\ UNCHANGED <<merged, reported>>

Next ==
  \/ \E d \in Docs : Copy(d) \/ Report(d)
  \/ \E S \in SUBSET Docs : Drop(S)

Spec == Init /\ [][Next]_<<south, merged, reported>>
=============================================================================
