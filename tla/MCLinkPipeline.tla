-------------------------- MODULE MCLinkPipeline --------------------------
(* Instance of LinkPipeline for TLC. *)
EXTENDS LinkPipeline

\* Two os-links on one leg of South 1, the first with two documents; a link
\* of South 2; and a fibre link that carries no channel of its own.
MCDocs == {"d1", "d1b", "d2", "d3"}
MCKeys == {"k1", "k2", "k3"}
MCKeyOf == [d \in Docs |-> CASE d \in {"d1", "d1b"} -> "k1" [] d = "d2" -> "k2" [] d = "d3" -> "k3"]
MCDbOf == [d \in Docs |-> IF d = "d3" THEN "35" ELSE "30"]
MCMentions == [d \in Docs |-> {}]
MCLists == {<<[leg |-> "BH_S1", key |-> "k1"], [leg |-> "BH_S1", key |-> "k2"],
              [leg |-> "TD_S2", key |-> "k3"]>>}

MCOchOf == [k \in Keys |-> CASE k = "k1" -> "o1" [] k = "k2" -> "o2" [] k = "k3" -> NoOch]
MCOchDocs == {"e1", "e2"}
MCOchKeys == {"o1", "o2"}
MCOchKeyOf == [e \in OchDocs |-> IF e = "e1" THEN "o1" ELSE "o2"]
MCOchDbOf == [e \in OchDocs |-> "30"]
MCOchMentions == [e \in OchDocs |-> {}]
=============================================================================
