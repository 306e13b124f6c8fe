--------------------------- MODULE MCNeCollector ---------------------------
(* Instance of NeCollector for TLC. *)
EXTENDS NeCollector

\* An element with none of the properties, one with half of each kind, one
\* with all.
MCPropertySets == {{}, {"ne_yang_version", "telemetry"}, Properties}
=============================================================================
