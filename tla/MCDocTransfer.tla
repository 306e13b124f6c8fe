--------------------------- MODULE MCDocTransfer ---------------------------
(* Instances of DocTransfer for TLC. *)
EXTENDS DocTransfer

\* k1 lies on the Binhai leg, k2 is the Ebu node both South 1 legs share, k3
\* belongs to South 2, k0 is listed but has no document.
MCKeys == {"k0", "k1", "k2", "k3"}
MCDocs == {"d1", "d2", "d3"}
MCKeyOf == [d \in Docs |-> CASE d = "d1" -> "k1" [] d = "d2" -> "k2" [] d = "d3" -> "k3"]
MCDbOf == [d \in Docs |-> IF d = "d3" THEN "35" ELSE "30"]
MCMentions == [d \in Docs |->
                 CASE d = "d1" -> {"A30", "B30"}
                   [] d = "d2" -> {"A30", "ILA"}
                   [] d = "d3" -> {"A35", "C35"}]

Item(leg, key) == [leg |-> leg, key |-> key]

\* All lists of two to four items that name k1 and the shared k2 on the South
\* 1 legs, then k3, with up to one key without document anywhere.
MCLists ==
  {<<Item("BH_S1", a), Item("BH_S1", b), Item("TD_S1", c), Item("TD_S2", d)>> :
     a \in {"k0", "k1"}, b \in {"k1", "k2"}, c \in {"k0", "k2"}, d \in {"k0", "k3"}}
  \cup {<<Item("TD_S1", "k2"), Item("TD_S2", "k3"), Item("TD_S2", "k3")>>}

\* phyNodeTrans lists the nodes of every tunnel of a leg, and two tunnels
\* share the node k1.
MCSharedNode == {<<Item("BH_S1", "k1"), Item("BH_S1", "k1")>>}
=============================================================================
