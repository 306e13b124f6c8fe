--------------------------- MODULE MCVideoImport ---------------------------
(* Instance of VideoImport for TLC. *)
EXTENDS VideoImport
=============================================================================
