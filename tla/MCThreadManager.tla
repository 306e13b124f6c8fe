-------------------------- MODULE MCThreadManager --------------------------
(* Instance of ThreadManager for TLC. *)
EXTENDS ThreadManager

CONSTANTS t1, t2, t3, w1, w2, a1, a2, m

\* One task is not to wait for room, one waits for ever and may expire on the
\* queue, and one waits for a time.
MCTimeout == [t \in Tasks |-> IF t = t1 THEN "none" ELSE IF t = t2 THEN "forever" ELSE "some"]
MCExpiring == {t2}
=============================================================================
