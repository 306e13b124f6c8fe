----------------------------- MODULE MCSiteTopo -----------------------------
(* Instances of SiteTopo for TLC. *)
EXTENDS SiteTopo

MCIlaSites == {"i1", "i2"}
\* i1 lies on both sections of South 1 in the second list.
MCIlaLists == {<<"i1", "i2">>, <<"i1", "i1", "i2">>}
=============================================================================
