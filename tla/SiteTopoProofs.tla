--------------------------- MODULE SiteTopoProofs ---------------------------
(***************************************************************************)
(* Proofs about SiteTopo, for any amplifiers, any lists of them and any    *)
(* number of runs.  The three kinds of documents are independent of each   *)
(* other, so each has an inductive invariant of its own; they share where  *)
(* the script is.                                                          *)
(***************************************************************************)
EXTENDS SiteTopo, SequenceTheorems, TLAPS

\* The stages that come before one.
Before(s) ==
  CASE s = "viewB" -> {"viewNode"}
    [] s = "viewC" -> {"viewNode", "viewB"}
    [] s = "A" -> {"viewNode", "viewB", "viewC"}
    [] s = "B" -> {"viewNode", "viewB", "viewC", "A"}
    [] s = "C" -> {"viewNode", "viewB", "viewC", "A", "B"}

\* The first run has not written or deleted anything of stage s yet.
Untouched(s) ==
  \/ attempts = 0
  \/ attempts = 1 /\ (stage \in Before(s) \/ (stage = s /\ step \in {"read", "write"}))

\* What is written next is a document of the stage's kind, or an amplifier of
\* the list.
DocInv ==
  /\ attempts = 0 => stage = "idle"
  /\ stage \in ViewLegs /\ step = "write" => doc \in ViewDocs
  /\ stage \in Sites /\ step = "write" => doc \in SiteDocs
  /\ stage = "ila" /\ step \in {"write", "delete"} => ilaList # <<>>

-----------------------------------------------------------------------------
(* View links *)

InGd(db, leg) == \E v \in ViewDocs : viewGd[v] > 0 /\ v.leg = leg /\ db \in v.refs

\* South 2 is cleaned first, so what is merged has its South 1 part; and a
\* link is deleted only when GD has it or its insert was reported.
LinkInv ==
  /\ \A leg \in ViewLegs : <<"35", leg>> \in viewSouth => <<"30", leg>> \in viewSouth
  /\ stage \in ViewLegs /\ step = "write" =>
       /\ doc.leg = stage /\ doc.hasId
       /\ doc.refs = {db \in Dbs : <<db, stage>> \in viewSouth}
  /\ stage \in ViewLegs /\ step \in {"del35", "del30"} =>
       \A db \in Dbs :
         <<db, stage>> \in viewSouth => <<db, stage>> \in reported \/ InGd(db, stage)
  /\ stage \in ViewLegs /\ step = "del30" => <<"35", stage>> \notin viewSouth
  /\ ViewRefsKept
  /\ NoViewFragment

\* Until the first run gets to a leg both its links are in South, none in GD.
FreshLeg(leg) ==
  /\ \A db \in Dbs : <<db, leg>> \in viewSouth
  /\ \A v \in ViewDocs : v.leg = leg => viewGd[v] = 0

FirstLinkInv ==
  /\ \A leg \in ViewLegs : Untouched(leg) => FreshLeg(leg)
  /\ ViewMergedOnFirstRun

-----------------------------------------------------------------------------
(* Site nodes *)

\* What the first run makes of GD's list of parts.
FullParts(s) ==
  IF s = "A" THEN << <<"30", s>>, <<"35", s>> >>
             ELSE << <<"30", s>>, <<"35", s>>, <<"gd", s>> >>

\* In the first run GD's node of a site is the old one, or the merged one, and
\* it is the merged one before anything of the site is deleted.
NodeInv ==
  attempts <= 1 =>
    /\ \A s \in Sites :
         /\ siteGd[s].sid = s
         /\ siteGd[s].parts \in {<< <<"gd", s>> >>, FullParts(s)}
         /\ Untouched(s) => siteGd[s].parts = << <<"gd", s>> >>
         /\ \A db \in Dbs :
              <<db, s>> \in siteSouth \/ (~ Untouched(s) /\ siteGd[s].parts = FullParts(s))
         /\ stage = s /\ step = "write" => doc = SiteDoc(s, FullParts(s))
         /\ stage = s /\ step \in {"del35", "del30"} => siteGd[s].parts = FullParts(s)

\* A list of parts, or a document, that has nothing of another site.
OwnParts(p, s) == p = Null \/ (p \in Seq(Parts) /\ \A n \in DOMAIN p : p[n][2] = s)
OwnDoc(d, s) == d.sid \in {s, Null} /\ OwnParts(d.parts, s)

\* The sites whose South documents the run has yet to read.
Ahead ==
  CASE stage \in {"viewNode", "viewB", "viewC"} -> Sites
    [] stage = "A" -> IF step = "read" THEN Sites ELSE {"B", "C"}
    [] stage = "B" -> IF step = "read" THEN {"B", "C"} ELSE {"C"}
    [] stage = "C" -> IF step = "read" THEN {"C"} ELSE {}
    [] OTHER -> {}

Gone(s) == \A db \in Dbs : <<db, s>> \notin siteSouth

\* The South documents are deleted in the order of the sites.
OrderInv ==
  /\ \A db \in Dbs : <<db, "B">> \notin siteSouth => Gone("A")
  /\ \A db \in Dbs : <<db, "C">> \notin siteSouth => Gone("A") /\ Gone("B")
  /\ stage \in {"B", "C"} => Gone("A")
  /\ stage = "C" => Gone("B")
  /\ stage \in Sites /\ step = "del30" => <<"35", stage>> \notin siteSouth

\* So the variables are either unset, or everything is still there that the
\* run has yet to read; and what it writes is the site's own.
ShareInv ==
  /\ \/ infoS1 = Unset /\ infoS2 = Unset
     \/ \A s \in Ahead : \A db \in Dbs : <<db, s>> \in siteSouth
  /\ stage \in Sites /\ step = "write" => OwnDoc(doc, stage)
  /\ \A s \in Sites : OwnDoc(siteGd[s], s)

-----------------------------------------------------------------------------
(* Amplifiers *)

\* An amplifier is deleted only when GD has it.
AmplifierInv ==
  /\ stage = "ila" /\ step = "write" => Head(ilaList) \in ilaSouth
  /\ stage = "ila" /\ step = "delete" =>
       Head(ilaList) \notin ilaSouth \/ Head(ilaList) \in ilaGd
  /\ IlaKept

\* While the first run lives, at most the amplifier it is about to delete is
\* in both databases.
FirstAmplifierInv ==
  attempts <= 1 =>
    /\ ~ collided
    /\ stage \notin {"failed", "crashed"} =>
         ilaGd \cap ilaSouth \subseteq
           IF stage = "ila" /\ step = "delete" THEN {Head(ilaList)} ELSE {}

TopoInv ==
  /\ TypeOK /\ DocInv /\ LinkInv /\ FirstLinkInv
  /\ NodeInv /\ OrderInv /\ ShareInv
  /\ AmplifierInv /\ FirstAmplifierInv

-----------------------------------------------------------------------------
(* Types and control *)

Steps == {"idle", "read", "write", "del35", "del30", "delete"}

\* Where the next stage leads.
LEMMA AdvanceType ==
  ASSUME stage \in Stages, Advance
  PROVE  /\ stage' \in (Stages \ {"viewNode"}) \cup {"done"}
         /\ step' \in {"idle", "read"}
         /\ stage' \in Stages => step' = "read"
BY DEF Advance, Stages, NextStage, ViewLegs, Sites

\* What SiteRead puts together are site node documents.
LEMMA MergeTypes ==
  ASSUME TypeOK, stage \in Sites
  PROVE  /\ \A db \in Dbs : \A old \in SiteDocs : Fetched(db, old) \in SiteDocs
         /\ \A p, q \in Seq(Parts) \cup {Null} : array_merge(p, q) \in Seq(Parts) \cup {Null}
         /\ \A info, g \in SiteDocs : Merged(info, g) \in SiteDocs
         /\ \A s \in Found(stage) : siteGd[s] \in SiteDocs
         /\ Unset \in SiteDocs
<1>1. ASSUME NEW db \in Dbs, NEW old \in SiteDocs
      PROVE  Fetched(db, old) \in SiteDocs
  <2>1. <<db, stage>> \in Parts
    BY DEF Parts
  <2>2. << <<db, stage>> >> \in Seq(Parts)
    BY <2>1
  <2> QED BY <2>2 DEF Fetched, SiteDoc, SiteDocs
<1>2. ASSUME NEW p \in Seq(Parts) \cup {Null}, NEW q \in Seq(Parts) \cup {Null}
      PROVE  array_merge(p, q) \in Seq(Parts) \cup {Null}
  BY DEF array_merge
<1>3. ASSUME NEW info \in SiteDocs, NEW g \in SiteDocs
      PROVE  Merged(info, g) \in SiteDocs
  <2>1. /\ info.sid \in Sites \cup {Null} /\ g.sid \in Sites \cup {Null}
        /\ info.parts \in Seq(Parts) \cup {Null} /\ g.parts \in Seq(Parts) \cup {Null}
    BY DEF SiteDocs
  <2>2. array_merge(info.parts, g.parts) \in Seq(Parts) \cup {Null}
    BY <1>2, <2>1
  <2> QED BY <2>1, <2>2 DEF Merged, SiteDoc, SiteDocs
<1>4. \A s \in Found(stage) : siteGd[s] \in SiteDocs
  BY DEF Found, TypeOK
<1>5. Unset \in SiteDocs
  BY DEF Unset, SiteDoc, SiteDocs
<1> QED BY <1>1, <1>2, <1>3, <1>4, <1>5

\* Every step keeps the types.
LEMMA TypeStep ==
  ASSUME TypeOK, DocInv, [Next]_vars
  PROVE  (TypeOK /\ DocInv)'
<1> USE DEF siteVars, viewVars, ilaVars
<1>0. /\ stage \in Stages \cup Ended /\ step \in Steps /\ attempts \in Nat
      /\ "viewNode" \in Stages /\ "ila" \in Stages /\ ViewLegs \subseteq Stages
      /\ Sites \subseteq Stages
  BY DEF TypeOK, Steps, Stages
<1>1. ASSUME NEW l \in IlaLists, initSiteParams(l)
      PROVE  (TypeOK /\ DocInv)'
  <2>1. l \in Seq(IlaSites) /\ Unset \in SiteDocs
    BY IlaAssumption DEF Unset, SiteDoc, SiteDocs
  <2>2. attempts' \in Nat /\ attempts' # 0
    BY <1>0, <1>1 DEF initSiteParams
  <2> QED BY <1>1, <2>1, <2>2 DEF initSiteParams, TypeOK, DocInv, Stages, ViewLegs, Sites
<1>2. CASE siteViewNodeProcess
  <2>1. /\ viewNodes' \subseteq viewNodes
        /\ Advance \/ UNCHANGED <<stage, step>>
        /\ stage = "viewNode"
    BY <1>2 DEF siteViewNodeProcess
  <2>2. /\ stage' \in Stages \cup Ended /\ step' \in Steps
        /\ stage' \in Stages \ {"viewNode"} => step' = "read"
    BY <2>1, <1>0, AdvanceType DEF Ended, Steps
  <2> QED BY <1>2, <2>1, <2>2 DEF siteViewNodeProcess, TypeOK, DocInv, Stages, ViewLegs, Sites, Steps
<1>3. CASE ViewRead
  <2> DEFINE refs == {db \in Dbs : <<db, stage>> \in viewSouth}
             new == [leg |-> stage, hasId |-> "30" \in refs, refs |-> refs]
  <2>1. new \in ViewDocs
    <3>1. ("30" \in refs) \in BOOLEAN /\ refs \in SUBSET Dbs /\ stage \in ViewLegs
      BY <1>3 DEF ViewRead
    <3> HIDE DEF refs
    <3> QED BY <3>1, Zenon DEF ViewDocs
  <2>2. \/ doc' = Null /\ step' = "del35"
        \/ doc' = new /\ step' = "write"
    BY <1>3 DEF ViewRead
  <2> HIDE DEF new
  <2> QED BY <1>3, <2>1, <2>2 DEF ViewRead, TypeOK, DocInv, Sites, ViewLegs
<1>4. CASE ViewInsertOk
  <2>1. viewGd' \in [ViewDocs -> Nat]
    BY <1>4 DEF ViewInsertOk, TypeOK, DocInv
  <2> QED BY <1>4, <2>1 DEF ViewInsertOk, TypeOK, DocInv
<1>5. CASE ViewInsertZero
  <2>1. doc.refs \subseteq Dbs
    BY <1>5 DEF ViewInsertZero, DocInv, ViewDocs
  <2>2. reported' \subseteq Dbs \X (ViewLegs \cup Sites)
    BY <1>5, <2>1 DEF ViewInsertZero, TypeOK
  <2> QED BY <1>5, <2>2 DEF ViewInsertZero, TypeOK, DocInv
<1>6. CASE ViewInsertThrow
  <2>1. viewGd' \in [ViewDocs -> Nat]
    BY <1>6 DEF ViewInsertThrow, TypeOK, DocInv
  <2>2. stage' \in Ended /\ step' = "idle"
    BY <1>6 DEF ViewInsertThrow, Stop, Ended
  <2>3. UNCHANGED <<viewNodes, viewSouth, siteVars, ilaVars, ilaList, doc, reported, attempts>>
    BY <1>6 DEF ViewInsertThrow
  <2>4. attempts # 0
    BY <1>6 DEF ViewInsertThrow, DocInv, ViewLegs
  <2> QED BY <2>1, <2>2, <2>3, <2>4 DEF TypeOK, DocInv
<1>7. CASE ViewDelete
  <2>1. /\ viewSouth' \subseteq viewSouth /\ attempts # 0
        /\ UNCHANGED <<viewNodes, viewGd, siteVars, ilaVars, ilaList, doc, reported, attempts>>
    BY <1>7 DEF ViewDelete, DocInv, ViewLegs
  <2>2. stage' \in Stages \cup Ended /\ step' \in {"idle", "read", "del30"}
    BY <1>7, <1>0, AdvanceType DEF ViewDelete, Ended
  <2> QED BY <2>1, <2>2 DEF TypeOK, DocInv
<1>8. CASE SiteRead
  <2>1. infoS1 \in SiteDocs /\ infoS2 \in SiteDocs /\ stage \in Sites
    BY <1>8 DEF SiteRead, TypeOK
  <2>2. infoS2' \in SiteDocs
    BY <1>8, <2>1, MergeTypes DEF SiteRead, Dbs
  <2>3. infoS1' \in SiteDocs
    <3> DEFINE s1 == Fetched("30", infoS1)
    <3>1. s1 \in SiteDocs
      BY <2>1, MergeTypes DEF Dbs
    <3>2. infoS1' = SiteDoc(s1.sid, array_merge(s1.parts, infoS2'.parts))
      BY <1>8 DEF SiteRead
    <3> HIDE DEF s1
    <3>3. /\ s1.sid \in Sites \cup {Null} /\ s1.parts \in Seq(Parts) \cup {Null}
          /\ infoS2'.parts \in Seq(Parts) \cup {Null}
      BY <3>1, <2>2 DEF SiteDocs
    <3>4. array_merge(s1.parts, infoS2'.parts) \in Seq(Parts) \cup {Null}
      BY <3>3, <2>1, MergeTypes
    <3> QED BY <3>2, <3>3, <3>4 DEF SiteDoc, SiteDocs
  <2>4. doc' \in SiteDocs
    <3> DEFINE g == IF Found(stage) = {} THEN Unset ELSE siteGd[CHOOSE s \in Found(stage) : TRUE]
    <3>1. g \in SiteDocs
      BY <2>1, MergeTypes
    <3>2. doc' = Merged(infoS1', g)
      BY <1>8 DEF SiteRead
    <3> QED BY <3>1, <3>2, <2>1, <2>3, MergeTypes
  <2>5. /\ UNCHANGED <<viewNodes, viewVars, siteSouth, siteGd, ilaVars, ilaList, stage, reported, attempts>>
        /\ step' = "write" /\ stage \notin ViewLegs /\ stage # "ila"
    BY <1>8 DEF SiteRead, Sites, ViewLegs
  <2> QED BY <2>2, <2>3, <2>4, <2>5 DEF TypeOK, DocInv
<1>9. CASE SiteUpdateOk \/ SiteUpdateThrow
  <2>1. doc \in SiteDocs /\ attempts # 0
    BY <1>9 DEF SiteUpdateOk, SiteUpdateThrow, DocInv, Sites
  <2>2. siteGd' \in [Sites -> SiteDocs]
    BY <1>9, <2>1 DEF SiteUpdateOk, SiteUpdateThrow, Replaced, TypeOK
  <2>3. /\ UNCHANGED <<viewNodes, viewVars, siteSouth, infoS1, infoS2, ilaVars, ilaList, doc,
                       reported, attempts>>
        /\ stage' \in Stages \cup Ended /\ step' \in {"idle", "del35"}
    BY <1>9, <1>0 DEF SiteUpdateOk, SiteUpdateThrow, Stop, Ended
  <2> QED BY <2>1, <2>2, <2>3 DEF TypeOK, DocInv
<1>10. CASE SiteUpdateZero
  <2>1. reported' \subseteq Dbs \X (ViewLegs \cup Sites)
    BY <1>10 DEF SiteUpdateZero, TypeOK
  <2> QED BY <1>10, <2>1 DEF SiteUpdateZero, TypeOK, DocInv
<1>11. CASE SiteDelete
  <2>1. /\ siteSouth' \subseteq siteSouth /\ attempts # 0
        /\ UNCHANGED <<viewNodes, viewVars, siteGd, infoS1, infoS2, ilaVars, ilaList, doc, reported,
                       attempts>>
    BY <1>11 DEF SiteDelete, DocInv, Sites
  <2>2. stage' \in Stages \cup Ended /\ step' \in {"idle", "read", "del30"}
    BY <1>11, <1>0, AdvanceType DEF SiteDelete, Ended
  <2> QED BY <2>1, <2>2 DEF TypeOK, DocInv
<1>12. CASE IlaRead
  <2>1. /\ UNCHANGED <<viewNodes, viewVars, siteVars, ilaVars, ilaList, doc, reported, attempts>>
        /\ attempts # 0
    BY <1>12 DEF IlaRead, DocInv
  <2>2. /\ stage' \in {"ila", "done"} /\ step' \in {"idle", "write", "delete"}
        /\ step' # "idle" => ilaList # <<>>
    BY <1>12 DEF IlaRead, Advance, NextStage
  <2> QED BY <2>1, <2>2, <1>0 DEF TypeOK, DocInv, ViewLegs, Sites, Ended
<1>13. CASE IlaInsertOk \/ IlaInsertZero \/ IlaInsertThrow \/ IlaDelete
  <2>1. Head(ilaList) \in IlaSites /\ Tail(ilaList) \in Seq(IlaSites)
    BY <1>13 DEF IlaInsertOk, IlaInsertZero, IlaInsertThrow, IlaDelete, DocInv, TypeOK
  <2>3. /\ ilaSouth' \subseteq ilaSouth /\ ilaGd' \subseteq ilaGd \cup {Head(ilaList)}
        /\ ilaList' \in {ilaList, Tail(ilaList)} /\ collided' \in BOOLEAN
        /\ UNCHANGED <<viewNodes, viewVars, siteVars, doc, reported, attempts>>
    BY <1>13 DEF IlaInsertOk, IlaInsertZero, IlaInsertThrow, IlaDelete, TypeOK
  <2>4. /\ stage = "ila" /\ attempts # 0
        /\ stage' \in {"ila", "failed", "crashed"} /\ step' \in {"idle", "delete", "read"}
        /\ step' = "delete" => UNCHANGED ilaList /\ step = "write"
    BY <1>13 DEF IlaInsertOk, IlaInsertZero, IlaInsertThrow, IlaDelete, DocInv, Stop
  <2>5. TypeOK'
    BY <1>0, <2>1, <2>3, <2>4 DEF TypeOK, Ended
  <2>6. DocInv'
    BY <2>3, <2>4 DEF DocInv, ViewLegs, Sites
  <2> QED BY <2>5, <2>6
<1>14. CASE Crash
  BY <1>14 DEF Crash, Stop, TypeOK, DocInv, Ended, Stages, ViewLegs, Sites
<1>15. CASE UNCHANGED vars
  BY <1>15 DEF vars, TypeOK, DocInv
<1> QED
  BY <1>1, <1>2, <1>3, <1>4, <1>5, <1>6, <1>7, <1>8, <1>9, <1>10, <1>11, <1>12, <1>13, <1>14, <1>15
  DEF Next, siteViewLinkProcess, siteNodeProcess

\* A run, once started, only gets further: nothing becomes untouched again.
LEMMA UntouchedStep ==
  ASSUME TypeOK, DocInv, [Next]_vars, NEW s \in ViewLegs \cup Sites, Untouched(s)'
  PROVE  Untouched(s)
<1> USE DEF Untouched, Before, ViewLegs, Sites
<1>0. attempts \in Nat
  BY DEF TypeOK
<1>1. ASSUME NEW l \in IlaLists, initSiteParams(l)
      PROVE  Untouched(s)
  BY <1>0, <1>1 DEF initSiteParams
<1>2. CASE siteViewNodeProcess
  BY <1>2 DEF siteViewNodeProcess, Advance, NextStage
<1>3. CASE ViewRead \/ ViewInsertOk \/ ViewInsertZero \/ ViewInsertThrow
  BY <1>3 DEF ViewRead, ViewInsertOk, ViewInsertZero, ViewInsertThrow, Stop
<1>4. CASE ViewDelete
  BY <1>4 DEF ViewDelete, Advance, NextStage
<1>5. CASE SiteRead \/ SiteUpdateOk \/ SiteUpdateZero \/ SiteUpdateThrow
  BY <1>5 DEF SiteRead, SiteUpdateOk, SiteUpdateZero, SiteUpdateThrow, Stop
<1>6. CASE SiteDelete
  BY <1>6 DEF SiteDelete, Advance, NextStage
<1>7. CASE IlaRead \/ IlaInsertOk \/ IlaInsertZero \/ IlaInsertThrow \/ IlaDelete
  BY <1>7 DEF IlaRead, IlaInsertOk, IlaInsertZero, IlaInsertThrow, IlaDelete, Stop, Advance, NextStage
<1>8. CASE Crash
  BY <1>8 DEF Crash, Stop
<1>9. CASE UNCHANGED vars
  BY <1>9 DEF vars
<1> QED BY <1>1, <1>2, <1>3, <1>4, <1>5, <1>6, <1>7, <1>8, <1>9
        DEF Next, siteViewLinkProcess, siteNodeProcess

\* Only the operator's starting the script counts.
LEMMA AttemptsStep ==
  ASSUME TypeOK, [Next]_vars
  PROVE  attempts \in Nat /\ attempts' \in {attempts, attempts + 1}
BY DEF TypeOK, Next, vars, initSiteParams, siteViewNodeProcess, siteViewLinkProcess, siteNodeProcess,
       ViewRead, ViewInsertOk, ViewInsertZero, ViewInsertThrow, ViewDelete,
       SiteRead, SiteUpdateOk, SiteUpdateZero, SiteUpdateThrow, SiteDelete,
       IlaRead, IlaInsertOk, IlaInsertZero, IlaInsertThrow, IlaDelete, Crash

\* What the other stages do to the view links: nothing.
LEMMA LinkFrame ==
  ASSUME TypeOK, DocInv, [Next]_vars, ~ siteViewLinkProcess
  PROVE  /\ UNCHANGED <<viewSouth, viewGd>>
         /\ reported \subseteq reported'
         /\ \/ stage' \notin ViewLegs
            \/ step' = "read"
            \/ UNCHANGED <<stage, step, doc>>
<1> USE DEF viewVars, siteVars, ilaVars, ViewLegs, Sites
<1>1. ASSUME NEW l \in IlaLists, initSiteParams(l)
      PROVE  /\ UNCHANGED <<viewSouth, viewGd, reported>>
             /\ stage' \notin ViewLegs
  BY <1>1 DEF initSiteParams
<1>2. CASE siteViewNodeProcess
  BY <1>2 DEF siteViewNodeProcess, Advance, NextStage
<1>3. CASE SiteRead \/ SiteUpdateOk \/ SiteUpdateZero \/ SiteUpdateThrow
  BY <1>3 DEF SiteRead, SiteUpdateOk, SiteUpdateZero, SiteUpdateThrow, Stop
<1>4. CASE SiteDelete
  BY <1>4 DEF SiteDelete, Advance, NextStage
<1>5. CASE IlaRead \/ IlaInsertOk \/ IlaInsertZero \/ IlaInsertThrow \/ IlaDelete
  BY <1>5 DEF IlaRead, IlaInsertOk, IlaInsertZero, IlaInsertThrow, IlaDelete, Stop, Advance, NextStage
<1>6. CASE Crash
  BY <1>6 DEF Crash, Stop
<1>7. CASE UNCHANGED vars
  BY <1>7 DEF vars
<1> QED BY <1>1, <1>2, <1>3, <1>4, <1>5, <1>6, <1>7 DEF Next, siteNodeProcess

\* Adding to a document's copies keeps what GD refers to.
LEMMA InGdGrows ==
  ASSUME viewGd \in [ViewDocs -> Nat], NEW d \in ViewDocs, NEW n \in {0, 1},
         viewGd' = [viewGd EXCEPT ![d] = @ + n],
         NEW db \in Dbs, NEW leg \in ViewLegs
  PROVE  /\ InGd(db, leg) => InGd(db, leg)'
         /\ n = 1 /\ d.leg = leg /\ db \in d.refs => InGd(db, leg)'
<1>1. \A v \in ViewDocs : viewGd'[v] = IF v = d THEN viewGd[v] + n ELSE viewGd[v]
  OBVIOUS
<1>2. viewGd[d] \in Nat
  OBVIOUS
<1> QED BY <1>1, <1>2 DEF InGd

\* The steps on the view links keep every link accounted for.
LEMMA LinkStep ==
  ASSUME TypeOK, DocInv, LinkInv, [Next]_vars
  PROVE  LinkInv'
<1> DEFINE Kept(db, leg) == <<db, leg>> \in viewSouth \cup reported \/ InGd(db, leg)
<1>0. /\ \A db \in Dbs, leg \in ViewLegs : Kept(db, leg)
      /\ viewGd \in [ViewDocs -> Nat]
  BY DEF LinkInv, ViewRefsKept, InGd, TypeOK
<1>1. CASE ~ siteViewLinkProcess
  <2>1. /\ UNCHANGED <<viewSouth, viewGd>>
        /\ reported \subseteq reported'
        /\ \/ stage' \notin ViewLegs
           \/ step' = "read"
           \/ UNCHANGED <<stage, step, doc>>
    BY <1>1, LinkFrame
  <2> QED BY <2>1 DEF LinkInv, ViewRefsKept, NoViewFragment, InGd
<1>2. CASE ViewRead
  <2> DEFINE refs == {db \in Dbs : <<db, stage>> \in viewSouth}
  <2>1. /\ UNCHANGED <<viewSouth, viewGd, reported, stage>> /\ stage \in ViewLegs
        /\ \/ refs = {} /\ step' = "del35"
           \/ /\ refs # {} /\ step' = "write"
              /\ doc' = [leg |-> stage, hasId |-> "30" \in refs, refs |-> refs]
    BY <1>2 DEF ViewRead, viewVars
  <2>2. refs # {} => "30" \in refs
    BY <2>1 DEF LinkInv, Dbs
  <2>3. step' = "write" => doc'.leg = stage /\ doc'.hasId /\ doc'.refs = refs
    <3> SUFFICES ASSUME step' = "write"
                 PROVE  doc'.leg = stage /\ doc'.hasId /\ doc'.refs = refs
      OBVIOUS
    <3>1. /\ "30" \in refs
          /\ doc' = [leg |-> stage, hasId |-> "30" \in refs, refs |-> refs]
      BY <2>1, <2>2
    <3> HIDE DEF refs
    <3> QED BY <3>1, Zenon
  <2>4. step' = "del35" => \A db \in Dbs : <<db, stage>> \notin viewSouth
    BY <2>1
  <2> HIDE DEF refs
  <2>5. step' \in {"write", "del35"}
    BY <2>1
  <2>6. refs' = refs /\ refs' = {db \in Dbs : <<db, stage'>> \in viewSouth'}
    BY <2>1 DEF refs
  <2> QED BY <2>1, <2>3, <2>4, <2>5, <2>6 DEF LinkInv, ViewRefsKept, NoViewFragment, InGd
<1>3. CASE ViewInsertOk
  <2>1. /\ UNCHANGED <<viewSouth, reported, stage>> /\ stage \in ViewLegs /\ step' = "del35"
        /\ viewGd' = [viewGd EXCEPT ![doc] = @ + 1] /\ doc \in ViewDocs
        /\ doc.leg = stage /\ doc.hasId
        /\ doc.refs = {db \in Dbs : <<db, stage>> \in viewSouth}
    BY <1>3 DEF ViewInsertOk, DocInv, LinkInv
  <2>2. \A db \in Dbs, leg \in ViewLegs :
          (InGd(db, leg) => InGd(db, leg)') /\ (doc.leg = leg /\ db \in doc.refs => InGd(db, leg)')
    BY <1>0, <2>1, InGdGrows
  <2>3. NoViewFragment'
    BY <1>0, <2>1 DEF LinkInv, NoViewFragment
  <2>4. ViewRefsKept'
    BY <1>0, <2>1, <2>2 DEF ViewRefsKept, InGd
  <2>5. \A db \in Dbs : <<db, stage>> \in viewSouth => InGd(db, stage)'
    BY <2>1, <2>2
  <2> QED BY <2>1, <2>3, <2>4, <2>5 DEF LinkInv
<1>4. CASE ViewInsertZero
  <2>1. /\ UNCHANGED <<viewSouth, viewGd, stage>> /\ stage \in ViewLegs /\ step' = "del35"
        /\ reported' = reported \cup {<<db, stage>> : db \in doc.refs}
        /\ doc.refs = {db \in Dbs : <<db, stage>> \in viewSouth}
    BY <1>4 DEF ViewInsertZero, viewVars, LinkInv
  <2>2. /\ \A db \in Dbs : <<db, stage>> \in viewSouth => <<db, stage>> \in reported'
        /\ reported \subseteq reported'
    BY <2>1
  <2>3. UNCHANGED <<viewSouth, viewGd, stage>> /\ step' = "del35"
    BY <2>1
  <2> QED BY <2>2, <2>3 DEF LinkInv, ViewRefsKept, NoViewFragment, InGd
<1>5. CASE ViewInsertThrow
  <2>1. PICK n \in {0, 1} : viewGd' = [viewGd EXCEPT ![doc] = @ + n]
    BY <1>5 DEF ViewInsertThrow
  <2>2. /\ UNCHANGED <<viewSouth, reported>> /\ stage' \notin ViewLegs
        /\ doc \in ViewDocs /\ doc.hasId
    BY <1>5 DEF ViewInsertThrow, Stop, ViewLegs, DocInv, LinkInv
  <2>3. \A db \in Dbs, leg \in ViewLegs : InGd(db, leg) => InGd(db, leg)'
    BY <1>0, <2>1, <2>2, InGdGrows
  <2>4. NoViewFragment'
    BY <1>0, <2>1, <2>2 DEF LinkInv, NoViewFragment
  <2>5. ViewRefsKept'
    BY <1>0, <2>2, <2>3 DEF ViewRefsKept, InGd
  <2> QED BY <2>2, <2>4, <2>5 DEF LinkInv
<1>6. CASE ViewDelete
  <2> DEFINE db0 == IF step = "del35" THEN "35" ELSE "30"
  <2>1. /\ UNCHANGED <<viewGd, reported>> /\ stage \in ViewLegs /\ step \in {"del35", "del30"}
        /\ viewSouth' = viewSouth \ {<<db0, stage>>} /\ db0 \in Dbs
        /\ step = "del35" => step' = "del30" /\ stage' = stage
        /\ step = "del30" => step' = "read"
    BY <1>6 DEF ViewDelete, Advance, NextStage, ViewLegs, Dbs
  <2>2. <<db0, stage>> \in viewSouth => <<db0, stage>> \in reported \/ InGd(db0, stage)
    BY <2>1 DEF LinkInv
  <2>3. \A leg \in ViewLegs : <<"35", leg>> \in viewSouth' => <<"30", leg>> \in viewSouth'
    BY <2>1 DEF LinkInv
  <2>4. ViewRefsKept'
    <3>1. \A db \in Dbs, leg \in ViewLegs : InGd(db, leg)' <=> InGd(db, leg)
      BY <2>1 DEF InGd
    <3>2. ASSUME NEW db \in Dbs, NEW leg \in ViewLegs
          PROVE  Kept(db, leg)'
      <4>1. CASE db = db0 /\ leg = stage
        BY <4>1, <1>0, <2>1, <2>2, <3>1
      <4>2. CASE ~ (db = db0 /\ leg = stage)
        BY <4>2, <1>0, <2>1, <3>1
      <4> QED BY <4>1, <4>2
    <3> QED BY <3>2 DEF ViewRefsKept, InGd
  <2> QED BY <2>1, <2>3, <2>4 DEF LinkInv, NoViewFragment, InGd
<1> QED BY <1>1, <1>2, <1>3, <1>4, <1>5, <1>6 DEF siteViewLinkProcess

\* In the first run a leg is written once, while both its links are in South.
LEMMA FirstLinkStep ==
  ASSUME TypeOK, DocInv, LinkInv, FirstLinkInv, [Next]_vars
  PROVE  FirstLinkInv'
<1>0. /\ viewGd \in [ViewDocs -> Nat] /\ attempts \in Nat
      /\ \A leg \in ViewLegs : Untouched(leg)' => Untouched(leg)
      /\ attempts' <= 1 => attempts <= 1
  BY UntouchedStep, AttemptsStep DEF TypeOK
<1>1. CASE ~ siteViewLinkProcess
  <2>1. UNCHANGED <<viewSouth, viewGd>>
    BY <1>1, LinkFrame
  <2> QED BY <1>0, <2>1 DEF FirstLinkInv, FreshLeg, ViewMergedOnFirstRun
<1>2. CASE ViewRead \/ ViewInsertZero
  <2>1. UNCHANGED <<viewSouth, viewGd>>
    BY <1>2 DEF ViewRead, ViewInsertZero, viewVars
  <2> QED BY <1>0, <2>1 DEF FirstLinkInv, FreshLeg, ViewMergedOnFirstRun
<1>3. CASE ViewInsertOk \/ ViewInsertThrow
  <2>1. PICK n \in {0, 1} : viewGd' = [viewGd EXCEPT ![doc] = @ + n]
    BY <1>3 DEF ViewInsertOk, ViewInsertThrow
  <2>2. /\ stage \in ViewLegs /\ step = "write" /\ UNCHANGED <<viewSouth, attempts>>
        /\ doc \in ViewDocs /\ doc.leg = stage
        /\ doc.refs = {db \in Dbs : <<db, stage>> \in viewSouth}
        /\ \/ stage' = stage /\ step' = "del35"
           \/ stage' \in {"failed", "crashed"}
    BY <1>3 DEF ViewInsertOk, ViewInsertThrow, Stop, DocInv, LinkInv
  <2>3. \A leg \in ViewLegs : leg = stage => ~ Untouched(leg)'
    BY <2>2 DEF Untouched, Before, ViewLegs, DocInv
  <2>4. \A v \in ViewDocs : viewGd'[v] = IF v = doc THEN viewGd[v] + n ELSE viewGd[v]
    BY <1>0, <2>1, <2>2
  <2>5. \A leg \in ViewLegs : Untouched(leg)' => FreshLeg(leg)'
    BY <1>0, <2>2, <2>3, <2>4 DEF FirstLinkInv, FreshLeg
  <2>6. attempts <= 1 => FreshLeg(stage)
    BY <1>0, <2>2 DEF FirstLinkInv, Untouched, DocInv
  <2>7. attempts <= 1 => viewGd[doc] = 0 /\ doc.refs = Dbs
    BY <2>2, <2>6 DEF FreshLeg
  <2>8. ViewMergedOnFirstRun'
    <3> SUFFICES ASSUME attempts <= 1, NEW v \in ViewDocs, viewGd'[v] > 0
                 PROVE  viewGd'[v] = 1 /\ v.refs = Dbs
      BY <2>2 DEF ViewMergedOnFirstRun
    <3>1. CASE v = doc
      BY <2>4, <2>7, <3>1
    <3>2. CASE v # doc
      BY <2>4, <3>2 DEF FirstLinkInv, ViewMergedOnFirstRun
    <3> QED BY <3>1, <3>2
  <2> QED BY <2>5, <2>8 DEF FirstLinkInv
<1>4. CASE ViewDelete
  <2>1. /\ stage \in ViewLegs /\ step \in {"del35", "del30"} /\ UNCHANGED <<viewGd, attempts>>
        /\ \A db \in Dbs, leg \in ViewLegs :
             leg # stage /\ <<db, leg>> \in viewSouth => <<db, leg>> \in viewSouth'
    BY <1>4 DEF ViewDelete
  <2>2. ~ Untouched(stage)
    BY <2>1 DEF Untouched, Before, DocInv, ViewLegs
  <2> QED BY <1>0, <2>1, <2>2 DEF FirstLinkInv, FreshLeg, ViewMergedOnFirstRun
<1> QED BY <1>1, <1>2, <1>3, <1>4 DEF siteViewLinkProcess

-----------------------------------------------------------------------------
(* The steps on the site nodes *)

\* What the other stages do to the site nodes: nothing.
LEMMA NodeFrame ==
  ASSUME TypeOK, DocInv, [Next]_vars,
         ~ (SiteRead \/ SiteUpdateOk \/ SiteUpdateZero \/ SiteUpdateThrow \/ SiteDelete)
  PROVE  /\ UNCHANGED <<siteSouth, siteGd>>
         /\ \/ stage' \notin Sites
            \/ step' = "read"
            \/ UNCHANGED <<stage, step, doc>>
<1> USE DEF viewVars, siteVars, ilaVars, ViewLegs, Sites
<1>1. ASSUME NEW l \in IlaLists, initSiteParams(l)
      PROVE  UNCHANGED <<siteSouth, siteGd>> /\ stage' \notin Sites
  BY <1>1 DEF initSiteParams
<1>2. CASE siteViewNodeProcess
  BY <1>2 DEF siteViewNodeProcess, Advance, NextStage
<1>3. CASE ViewRead \/ ViewInsertOk \/ ViewInsertZero \/ ViewInsertThrow
  BY <1>3 DEF ViewRead, ViewInsertOk, ViewInsertZero, ViewInsertThrow, Stop
<1>4. CASE ViewDelete
  BY <1>4 DEF ViewDelete, Advance, NextStage
<1>5. CASE IlaRead \/ IlaInsertOk \/ IlaInsertZero \/ IlaInsertThrow \/ IlaDelete
  BY <1>5 DEF IlaRead, IlaInsertOk, IlaInsertZero, IlaInsertThrow, IlaDelete, Stop, Advance, NextStage
<1>6. CASE Crash
  BY <1>6 DEF Crash, Stop
<1>7. CASE UNCHANGED vars
  BY <1>7 DEF vars
<1> QED BY <1>1, <1>2, <1>3, <1>4, <1>5, <1>6, <1>7 DEF Next, siteViewLinkProcess, siteNodeProcess

\* array_merge of lists that are there puts one behind the other.
LEMMA MergeLists ==
  ASSUME NEW p \in Seq(Parts), NEW q \in Seq(Parts)
  PROVE  array_merge(p, q) = p \o q /\ p \o q \in Seq(Parts)
BY NullAssumption DEF array_merge

\* What array_merge makes of the lists of one part each.
LEMMA Concatenations ==
  ASSUME NEW S, NEW x \in S, NEW y \in S, NEW z \in S
  PROVE  <<x>> \o <<y>> = <<x, y>> /\ <<x, y>> \o <<z>> = <<x, y, z>>
<1>1. /\ <<x>> \in Seq(S) /\ Len(<<x>>) = 1 /\ <<x>>[1] = x
      /\ <<y>> \in Seq(S) /\ Len(<<y>>) = 1 /\ <<y>>[1] = y
      /\ <<z>> \in Seq(S) /\ Len(<<z>>) = 1 /\ <<z>>[1] = z
  OBVIOUS
<1>2. <<x, y>> \in Seq(S) /\ Len(<<x, y>>) = 2 /\ <<x, y>>[1] = x /\ <<x, y>>[2] = y
  OBVIOUS
<1>3. /\ <<x, y, z>> \in Seq(S) /\ Len(<<x, y, z>>) = 3
      /\ <<x, y, z>>[1] = x /\ <<x, y, z>>[2] = y /\ <<x, y, z>>[3] = z
  OBVIOUS
<1>4. <<x>> \o <<y>> = <<x, y>>
  <2> DEFINE c == <<x>> \o <<y>>
  <2>1. c \in Seq(S) /\ Len(c) = 2 /\ c[1] = x /\ c[2] = y
    BY <1>1, ConcatProperties
  <2>2. \A n \in 1 .. Len(c) : c[n] = <<x, y>>[n]
    BY <1>2, <2>1
  <2> HIDE DEF c
  <2>3. c = <<x, y>>
    BY <1>2, <2>1, <2>2, SeqEqual
  <2> QED BY <2>3 DEF c
<1>5. <<x, y>> \o <<z>> = <<x, y, z>>
  <2> DEFINE c == <<x, y>> \o <<z>>
  <2>1. c \in Seq(S) /\ Len(c) = 3 /\ c[1] = x /\ c[2] = y /\ c[3] = z
    BY <1>1, <1>2, ConcatProperties
  <2>2. \A n \in 1 .. Len(c) : c[n] = <<x, y, z>>[n]
    BY <1>3, <2>1
  <2> HIDE DEF c
  <2>3. c = <<x, y, z>>
    BY <1>3, <2>1, <2>2, SeqEqual
  <2> QED BY <2>3 DEF c
<1> QED BY <1>4, <1>5

\* What SiteRead makes of a site whose three documents are there.
LEMMA FirstMerge ==
  ASSUME TypeOK, DocInv, NodeInv, SiteRead, attempts <= 1
  PROVE  doc' = SiteDoc(stage, FullParts(stage))
<1> DEFINE p30 == << <<"30", stage>> >>
           p35 == << <<"35", stage>> >>
           gd == << <<"gd", stage>> >>
<1>1. stage \in Sites /\ step = "read" /\ attempts = 1
  BY AttemptsStep DEF SiteRead, DocInv, TypeOK, Sites
<1>2. Untouched(stage)
  BY <1>1 DEF Untouched
<1>3. /\ \A s \in Sites : siteGd[s].sid = s
      /\ siteGd[stage].parts = gd
      /\ \A db \in Dbs : <<db, stage>> \in siteSouth
  BY <1>1, <1>2 DEF NodeInv
<1>4. p30 \in Seq(Parts) /\ p35 \in Seq(Parts) /\ gd \in Seq(Parts)
  BY <1>1 DEF Parts, Dbs
<1>5. /\ Fetched("30", infoS1) = SiteDoc(stage, p30)
      /\ Fetched("35", infoS2) = SiteDoc(stage, p35)
  BY <1>3 DEF Fetched, Dbs
<1>6. infoS1' = SiteDoc(stage, p30 \o p35)
  <2>1. infoS2' = SiteDoc(stage, p35)
    BY <1>5 DEF SiteRead
  <2>2. infoS1' = SiteDoc(stage, array_merge(p30, infoS2'.parts))
    BY <1>5 DEF SiteRead, SiteDoc
  <2>3. infoS2'.parts = p35
    BY <2>1 DEF SiteDoc
  <2> HIDE DEF p30, p35
  <2> QED BY <2>2, <2>3, <1>4, MergeLists
<1>7. Found(stage) = {stage}
  BY <1>1, <1>3 DEF Found
<1>8. doc' = Merged(infoS1', siteGd[stage])
  <2>1. (CHOOSE s \in Found(stage) : TRUE) = stage
    BY <1>7
  <2> QED BY <1>7, <2>1 DEF SiteRead
<1>9. /\ infoS1'.sid = stage /\ infoS1'.parts = p30 \o p35
      /\ p30 \o p35 \in Seq(Parts) /\ stage # Null
  BY <1>1, <1>4, <1>6, NullAssumption DEF SiteDoc
<1>10. array_merge(p30 \o p35, gd) = (p30 \o p35) \o gd
  <2> HIDE DEF p30, p35, gd
  <2> QED BY <1>4, <1>9, MergeLists
<1>11. /\ p30 \o p35 = << <<"30", stage>>, <<"35", stage>> >>
       /\ (p30 \o p35) \o gd = << <<"30", stage>>, <<"35", stage>>, <<"gd", stage>> >>
  <2>1. <<"30", stage>> \in Parts /\ <<"35", stage>> \in Parts /\ <<"gd", stage>> \in Parts
    BY <1>1 DEF Parts, Dbs
  <2>2. \A x, y, z \in Parts : <<x>> \o <<y>> = <<x, y>> /\ <<x, y>> \o <<z>> = <<x, y, z>>
    BY Concatenations
  <2>3. /\ p30 \o p35 = << <<"30", stage>>, <<"35", stage>> >>
        /\ << <<"30", stage>>, <<"35", stage>> >> \o gd
             = << <<"30", stage>>, <<"35", stage>>, <<"gd", stage>> >>
    BY <2>1, <2>2, Zenon
  <2> QED BY <2>3, Zenon
<1> HIDE DEF p30, p35, gd
<1>12. CASE stage = "A"
  BY <1>8, <1>9, <1>11, <1>12 DEF Merged, FullParts, SiteDoc
<1>13. CASE stage # "A"
  BY <1>3, <1>8, <1>9, <1>10, <1>11, <1>13 DEF Merged, FullParts, SiteDoc
<1> QED BY <1>12, <1>13

\* Every step keeps GD's nodes what they were or what they are to be.
LEMMA NodeStep ==
  ASSUME TypeOK, DocInv, NodeInv, [Next]_vars
  PROVE  NodeInv'
<1> DEFINE Old(s) == << <<"gd", s>> >>
<1>0. SUFFICES ASSUME attempts' <= 1
               PROVE  NodeInv'
  BY DEF NodeInv
<1>1. /\ attempts <= 1 /\ attempts \in Nat
      /\ \A s \in Sites : Untouched(s)' => Untouched(s)
  BY <1>0, AttemptsStep, UntouchedStep
<1>2. \A s \in Sites :
        /\ siteGd[s].sid = s
        /\ siteGd[s].parts \in {Old(s), FullParts(s)}
        /\ Untouched(s) => siteGd[s].parts = Old(s)
        /\ \A db \in Dbs :
             <<db, s>> \in siteSouth \/ (~ Untouched(s) /\ siteGd[s].parts = FullParts(s))
        /\ stage = s /\ step = "write" => doc = SiteDoc(s, FullParts(s))
        /\ stage = s /\ step \in {"del35", "del30"} => siteGd[s].parts = FullParts(s)
  BY <1>1 DEF NodeInv
<1> HIDE DEF Old
<1>3. SUFFICES ASSUME NEW s \in Sites
               PROVE  /\ siteGd'[s].sid = s
                      /\ siteGd'[s].parts \in {Old(s), FullParts(s)}
                      /\ Untouched(s)' => siteGd'[s].parts = Old(s)
                      /\ \A db \in Dbs :
                           <<db, s>> \in siteSouth' \/ (~ Untouched(s)' /\ siteGd'[s].parts = FullParts(s))
                      /\ stage' = s /\ step' = "write" => doc' = SiteDoc(s, FullParts(s))
                      /\ stage' = s /\ step' \in {"del35", "del30"} => siteGd'[s].parts = FullParts(s)
  BY DEF NodeInv, Old
<1>4. CASE ~ (SiteRead \/ SiteUpdateOk \/ SiteUpdateZero \/ SiteUpdateThrow \/ SiteDelete)
  <2>1. /\ UNCHANGED <<siteSouth, siteGd>>
        /\ \/ stage' \notin Sites
           \/ step' = "read"
           \/ UNCHANGED <<stage, step, doc>>
    BY <1>4, NodeFrame
  <2> QED BY <1>1, <1>2, <2>1
<1>5. CASE SiteRead
  <2>1. /\ UNCHANGED <<siteSouth, siteGd, stage>> /\ step' = "write"
    BY <1>5 DEF SiteRead
  <2>2. doc' = SiteDoc(stage, FullParts(stage))
    BY <1>1, <1>5, FirstMerge
  <2> QED BY <1>1, <1>2, <2>1, <2>2
<1>6. CASE SiteUpdateOk \/ SiteUpdateThrow
  <2>1. /\ stage \in Sites /\ step = "write" /\ UNCHANGED <<siteSouth, attempts>>
        /\ \/ stage' = stage /\ step' = "del35" /\ siteGd' \in Replaced
           \/ stage' = "failed" /\ siteGd' \in Replaced \cup {siteGd}
    BY <1>6 DEF SiteUpdateOk, SiteUpdateThrow, Stop
  <2>2. Found(stage) = {stage}
    BY <1>2, <2>1 DEF Found
  <2>3. Replaced = {[siteGd EXCEPT ![stage] = doc]}
    BY <2>2 DEF Replaced
  <2>4. ~ Untouched(s)' \/ s # stage
    BY <2>1 DEF Untouched, Before, Sites, DocInv
  <2>5. /\ s # stage => siteGd'[s] = siteGd[s]
        /\ stage' = stage => siteGd'[stage] = doc
        /\ siteGd'[stage] \in {doc, siteGd[stage]}
    BY <2>1, <2>3 DEF TypeOK, Sites
  <2>6. doc.sid = stage /\ doc.parts = FullParts(stage)
    BY <1>2, <2>1 DEF SiteDoc
  <2>7. Untouched(stage)
    BY <1>1, <2>1 DEF Untouched, DocInv, Sites
  <2>8. CASE s = stage
    <3>1. \A db \in Dbs : <<db, s>> \in siteSouth'
      BY <1>2, <2>1, <2>7, <2>8
    <3>2. stage' = s => step' = "del35" /\ siteGd'[s] = doc
      BY <2>1, <2>5, <2>8 DEF Sites
    <3> QED BY <1>2, <2>1, <2>4, <2>5, <2>6, <2>8, <3>1, <3>2
  <2>9. CASE s # stage
    <3>1. stage' # s
      BY <2>1, <2>9 DEF Sites
    <3> QED BY <1>1, <1>2, <2>1, <2>5, <2>9, <3>1
  <2> QED BY <2>8, <2>9
<1>7. CASE SiteUpdateZero
  <2>1. stage \in Sites /\ Found(stage) = {}
    BY <1>7 DEF SiteUpdateZero
  <2> QED BY <1>2, <2>1 DEF Found
<1>8. CASE SiteDelete
  <2>1. /\ stage \in Sites /\ step \in {"del35", "del30"} /\ UNCHANGED siteGd
        /\ \A db \in Dbs : s # stage /\ <<db, s>> \in siteSouth => <<db, s>> \in siteSouth'
        /\ (stage' = stage /\ step' = "del30") \/ step' = "read"
    BY <1>8 DEF SiteDelete, Advance, NextStage, Sites
  <2>2. ~ Untouched(stage)
    BY <2>1 DEF Untouched, Before, DocInv, Sites
  <2> QED BY <1>1, <1>2, <2>1, <2>2
<1> QED BY <1>4, <1>5, <1>6, <1>7, <1>8

\* Every step keeps the order of the deletes.
LEMMA OrderStep ==
  ASSUME TypeOK, DocInv, OrderInv, [Next]_vars
  PROVE  OrderInv'
<1> USE DEF OrderInv, Gone
<1>1. ASSUME NEW l \in IlaLists, initSiteParams(l)
      PROVE  OrderInv'
  BY <1>1 DEF initSiteParams, Sites
<1>2. CASE siteViewNodeProcess \/ ViewDelete
  <2>1. /\ UNCHANGED siteSouth
        /\ stage' \in {"viewNode", "viewB", "viewC"} \/ (stage' = "A" /\ step' = "read")
    BY <1>2 DEF siteViewNodeProcess, ViewDelete, Advance, NextStage, ViewLegs, siteVars
  <2> QED BY <2>1 DEF Sites
<1>3. CASE ViewRead \/ ViewInsertOk \/ ViewInsertZero \/ ViewInsertThrow
  <2>1. UNCHANGED siteSouth /\ stage' \in {"viewB", "viewC", "failed", "crashed"}
    BY <1>3 DEF ViewRead, ViewInsertOk, ViewInsertZero, ViewInsertThrow, Stop, ViewLegs, siteVars
  <2> QED BY <2>1 DEF Sites
<1>4. CASE SiteRead \/ SiteUpdateOk \/ SiteUpdateZero \/ SiteUpdateThrow
  <2>1. /\ UNCHANGED siteSouth
        /\ (UNCHANGED stage /\ step' \in {"write", "del35"}) \/ stage' = "failed"
    BY <1>4 DEF SiteRead, SiteUpdateOk, SiteUpdateZero, SiteUpdateThrow, Stop, siteVars
  <2> QED BY <2>1 DEF Sites
<1>5. CASE SiteDelete
  <2>1. /\ stage \in Sites /\ step \in {"del35", "del30"}
        /\ siteSouth' = siteSouth \ {<<IF step = "del35" THEN "35" ELSE "30", stage>>}
    BY <1>5 DEF SiteDelete
  <2>2. CASE step = "del35"
    <3>1. /\ stage' = stage /\ step' = "del30"
          /\ siteSouth' = siteSouth \ {<<"35", stage>>}
      BY <1>5, <2>1, <2>2 DEF SiteDelete
    <3> QED BY <2>1, <3>1 DEF Sites, Dbs
  <2>3. CASE step = "del30"
    <3>1. /\ step' = "read" /\ siteSouth' = siteSouth \ {<<"30", stage>>}
          /\ stage = "A" => stage' = "B"
          /\ stage = "B" => stage' = "C"
          /\ stage = "C" => stage' = "ila"
      BY <1>5, <2>1, <2>3 DEF SiteDelete, Advance, NextStage, Sites
    <3>2. \A db \in Dbs : <<db, stage>> \notin siteSouth'
      BY <2>1, <2>3, <3>1 DEF Sites, Dbs
    <3> QED BY <2>1, <3>1, <3>2 DEF Sites, Dbs
  <2> QED BY <2>1, <2>2, <2>3
<1>6. CASE IlaRead \/ IlaInsertOk \/ IlaInsertZero \/ IlaInsertThrow \/ IlaDelete \/ Crash
  <2>1. UNCHANGED siteSouth /\ stage' \in {"ila", "done", "failed", "crashed"}
    BY <1>6 DEF IlaRead, IlaInsertOk, IlaInsertZero, IlaInsertThrow, IlaDelete, Crash, Stop, Advance,
                NextStage, siteVars
  <2> QED BY <2>1 DEF Sites
<1>7. CASE UNCHANGED vars
  BY <1>7 DEF vars, siteVars
<1> QED BY <1>1, <1>2, <1>3, <1>4, <1>5, <1>6, <1>7 DEF Next, siteViewLinkProcess, siteNodeProcess

\* Lists of one site's parts are merged into such a list.
LEMMA MergeOwn ==
  ASSUME NEW s, NEW p, NEW q, OwnParts(p, s), OwnParts(q, s)
  PROVE  OwnParts(array_merge(p, q), s)
<1>1. CASE p = Null \/ q = Null
  BY <1>1 DEF array_merge, OwnParts
<1>2. CASE p # Null /\ q # Null
  <2>1. /\ p \in Seq(Parts) /\ \A n \in DOMAIN p : p[n][2] = s
        /\ q \in Seq(Parts) /\ \A n \in DOMAIN q : q[n][2] = s
    BY <1>2 DEF OwnParts
  <2>2. /\ p \o q \in Seq(Parts) /\ Len(p \o q) = Len(p) + Len(q)
        /\ \A n \in 1 .. Len(p) + Len(q) :
             (p \o q)[n] = IF n <= Len(p) THEN p[n] ELSE q[n - Len(p)]
    BY <2>1, ConcatProperties
  <2>3. \A n \in DOMAIN (p \o q) : (p \o q)[n][2] = s
    <3> SUFFICES ASSUME NEW n \in 1 .. Len(p) + Len(q)
                 PROVE  (p \o q)[n][2] = s
      BY <2>2
    <3>1. CASE n <= Len(p)
      <4>1. n \in DOMAIN p
        BY <2>1, <3>1
      <4> QED BY <2>1, <2>2, <3>1, <4>1
    <3>2. CASE ~ (n <= Len(p))
      <4>1. n - Len(p) \in DOMAIN q
        BY <2>1, <3>2
      <4> QED BY <2>1, <2>2, <3>2, <4>1
    <3> QED BY <3>1, <3>2
  <2>4. array_merge(p, q) = p \o q
    BY <1>2 DEF array_merge
  <2> QED BY <2>2, <2>3, <2>4 DEF OwnParts
<1> QED BY <1>1, <1>2

\* A step that is not about a site node starts a run with unset variables, or
\* leaves them and the site nodes alone and comes no nearer to a site passed.
LEMMA ShareFrame ==
  ASSUME TypeOK, [Next]_vars,
         ~ (SiteRead \/ SiteUpdateOk \/ SiteUpdateZero \/ SiteUpdateThrow \/ SiteDelete)
  PROVE  \/ infoS1' = Unset /\ infoS2' = Unset
         \/ UNCHANGED <<infoS1, infoS2>> /\ Ahead' \subseteq Ahead
<1> USE DEF viewVars, siteVars, ilaVars, ViewLegs, Sites
<1>1. ASSUME NEW l \in IlaLists, initSiteParams(l)
      PROVE  infoS1' = Unset /\ infoS2' = Unset
  BY <1>1 DEF initSiteParams
<1>2. CASE siteViewNodeProcess
  BY <1>2 DEF siteViewNodeProcess, Advance, NextStage, Ahead
<1>3. CASE ViewRead \/ ViewInsertOk \/ ViewInsertZero \/ ViewInsertThrow
  BY <1>3 DEF ViewRead, ViewInsertOk, ViewInsertZero, ViewInsertThrow, Stop, Ahead
<1>4. CASE ViewDelete
  BY <1>4 DEF ViewDelete, Advance, NextStage, Ahead
<1>5. CASE IlaRead \/ IlaInsertOk \/ IlaInsertZero \/ IlaInsertThrow \/ IlaDelete
  BY <1>5 DEF IlaRead, IlaInsertOk, IlaInsertZero, IlaInsertThrow, IlaDelete, Stop, Advance, NextStage,
              Ahead
<1>6. CASE Crash
  BY <1>6 DEF Crash, Stop, Ahead
<1>7. CASE UNCHANGED vars
  BY <1>7 DEF vars, Ahead
<1> QED BY <1>1, <1>2, <1>3, <1>4, <1>5, <1>6, <1>7 DEF Next, siteViewLinkProcess, siteNodeProcess

\* What siteNodeProcess reads for a site and merges is the site's own.
LEMMA ReadOwn ==
  ASSUME TypeOK, OrderInv, ShareInv, SiteRead
  PROVE  /\ \/ infoS1' = Unset /\ infoS2' = Unset
            \/ \A s \in Ahead' : \A db \in Dbs : <<db, s>> \in siteSouth
         /\ OwnDoc(infoS1', stage)
<1>1. /\ stage \in Sites /\ step = "read" /\ step' = "write" /\ stage' = stage
      /\ infoS2' = Fetched("35", infoS2)
      /\ infoS1' = SiteDoc(Fetched("30", infoS1).sid,
                           array_merge(Fetched("30", infoS1).parts, infoS2'.parts))
  BY DEF SiteRead
<1>2. stage \in Ahead /\ Ahead' \subseteq Ahead
  BY <1>1 DEF Ahead, Sites
<1>3. ASSUME NEW db \in Dbs
      PROVE  OwnDoc(SiteDoc(stage, << <<db, stage>> >>), stage)
  <2>1. <<db, stage>> \in Parts
    BY <1>1 DEF Parts
  <2>2. << <<db, stage>> >> \in Seq(Parts)
    BY <2>1
  <2> QED BY <2>2 DEF OwnDoc, OwnParts, SiteDoc
<1>4. OwnDoc(Unset, stage) /\ Unset.parts = Null
  BY DEF OwnDoc, OwnParts, Unset, SiteDoc
<1>5. /\ OwnDoc(Fetched("30", infoS1), stage) /\ OwnDoc(Fetched("35", infoS2), stage)
  BY <1>2, <1>3, <1>4 DEF Fetched, ShareInv, Dbs
<1>6. OwnDoc(infoS1', stage)
  <2>1. OwnParts(infoS1'.parts, stage) /\ infoS1'.sid = Fetched("30", infoS1).sid
    BY <1>1, <1>5, MergeOwn DEF OwnDoc, SiteDoc
  <2> QED BY <1>5, <2>1 DEF OwnDoc
<1>7. CASE \A db \in Dbs : <<db, stage>> \notin siteSouth
  <2>1. infoS1 = Unset /\ infoS2 = Unset
    BY <1>2, <1>7 DEF ShareInv, Dbs
  <2>2. Fetched("30", infoS1) = Unset /\ infoS2' = Unset
    BY <1>1, <1>7, <2>1 DEF Fetched, Dbs
  <2>3. infoS1' = SiteDoc(Unset.sid, array_merge(Unset.parts, Unset.parts))
    BY <1>1, <2>2
  <2>4. Unset.sid = Null /\ array_merge(Null, Null) = Null
    BY DEF array_merge, Unset, SiteDoc
  <2>5. infoS1' = Unset
    BY <1>4, <2>3, <2>4 DEF Unset
  <2> QED BY <1>6, <2>2, <2>5
<1>8. CASE \E db \in Dbs : <<db, stage>> \in siteSouth
  <2>1. \A s \in Ahead' : \A db \in Dbs : <<db, s>> \in siteSouth
    BY <1>1, <1>8 DEF Ahead, OrderInv, Gone, Sites
  <2> QED BY <1>6, <2>1
<1> QED BY <1>7, <1>8

\* Every step keeps the sites apart.
LEMMA ShareStep ==
  ASSUME TypeOK, DocInv, OrderInv, ShareInv, [Next]_vars
  PROVE  ShareInv'
<1>0. \A s \in Sites : Found(s) \subseteq {s}
  BY NullAssumption DEF Found, ShareInv, OwnDoc
<1>1. CASE ~ (SiteRead \/ SiteUpdateOk \/ SiteUpdateZero \/ SiteUpdateThrow \/ SiteDelete)
  <2>1. /\ UNCHANGED <<siteSouth, siteGd>>
        /\ \/ stage' \notin Sites
           \/ step' = "read"
           \/ UNCHANGED <<stage, step, doc>>
    BY <1>1, NodeFrame
  <2>2. \/ infoS1' = Unset /\ infoS2' = Unset
        \/ UNCHANGED <<infoS1, infoS2>> /\ Ahead' \subseteq Ahead
    BY <1>1, ShareFrame
  <2> QED BY <2>1, <2>2 DEF ShareInv
<1>2. CASE SiteRead
  <2>1. /\ stage \in Sites /\ stage' = stage /\ UNCHANGED <<siteSouth, siteGd>>
        /\ doc' = Merged(infoS1', IF Found(stage) = {} THEN Unset
                                  ELSE siteGd[CHOOSE s \in Found(stage) : TRUE])
    BY <1>2 DEF SiteRead
  <2>2. PICK g : doc' = Merged(infoS1', g) /\ OwnDoc(g, stage)
    <3>1. CASE Found(stage) = {}
      <4>1. OwnDoc(Unset, stage)
        BY DEF OwnDoc, OwnParts, Unset, SiteDoc
      <4> QED BY <2>1, <3>1, <4>1
    <3>2. CASE Found(stage) # {}
      <4>1. (CHOOSE s \in Found(stage) : TRUE) = stage
        BY <1>0, <2>1, <3>2
      <4>2. OwnDoc(siteGd[stage], stage)
        BY <2>1 DEF ShareInv
      <4> QED BY <2>1, <3>2, <4>1, <4>2
    <3> QED BY <3>1, <3>2
  <2>3. OwnDoc(infoS1', stage)
    BY <1>2, ReadOwn
  <2>4. OwnParts(array_merge(infoS1'.parts, g.parts), stage)
    BY <2>2, <2>3, MergeOwn DEF OwnDoc
  <2>5. OwnDoc(doc', stage)
    BY <2>2, <2>3, <2>4 DEF Merged, OwnDoc, SiteDoc
  <2>6. \/ infoS1' = Unset /\ infoS2' = Unset
        \/ \A s \in Ahead' : \A db \in Dbs : <<db, s>> \in siteSouth'
    BY <1>2, <2>1, ReadOwn
  <2>7. OwnDoc(doc', stage')
    BY <2>1, <2>5
  <2>8. \A s \in Sites : OwnDoc(siteGd'[s], s)
    BY <2>1 DEF ShareInv
  <2> QED BY <2>6, <2>7, <2>8 DEF ShareInv
<1>3. CASE SiteUpdateOk \/ SiteUpdateThrow \/ SiteUpdateZero
  <2>1. /\ stage \in Sites /\ step = "write" /\ UNCHANGED <<siteSouth, infoS1, infoS2>>
        /\ siteGd' \in Replaced \cup {siteGd}
        /\ (stage' = stage /\ step' = "del35") \/ stage' = "failed"
    BY <1>3 DEF SiteUpdateOk, SiteUpdateThrow, SiteUpdateZero, Stop, siteVars
  <2>2. Ahead' \subseteq Ahead
    BY <2>1 DEF Ahead, Sites
  <2>3. OwnDoc(doc, stage)
    BY <2>1 DEF ShareInv
  <2>4. ASSUME NEW s \in Sites
        PROVE  OwnDoc(siteGd'[s], s)
    <3>1. siteGd' = [siteGd EXCEPT ![stage] = doc] \/ siteGd' = siteGd
      BY <1>0, <2>1 DEF Replaced
    <3>2. siteGd'[s] = siteGd[s] \/ (s = stage /\ siteGd'[s] = doc)
      BY <3>1 DEF TypeOK
    <3> QED BY <2>3, <3>2 DEF ShareInv
  <2>5. ~ (stage' \in Sites /\ step' = "write")
    BY <2>1 DEF Sites
  <2>6. \/ infoS1' = Unset /\ infoS2' = Unset
        \/ \A s \in Ahead' : \A db \in Dbs : <<db, s>> \in siteSouth'
    BY <2>1, <2>2 DEF ShareInv
  <2> QED BY <2>4, <2>5, <2>6 DEF ShareInv
<1>4. CASE SiteDelete
  <2>1. /\ stage \in Sites /\ step \in {"del35", "del30"}
        /\ UNCHANGED <<siteGd, infoS1, infoS2>>
        /\ \A s \in Sites, db \in Dbs : s # stage /\ <<db, s>> \in siteSouth => <<db, s>> \in siteSouth'
        /\ step' \in {"del30", "read"}
    BY <1>4 DEF SiteDelete, Advance, NextStage, Sites
  <2>2. Ahead' \subseteq Ahead /\ Ahead \subseteq Sites \ {stage}
    BY <1>4, <2>1 DEF SiteDelete, Advance, NextStage, Ahead, Sites
  <2>3. \/ infoS1' = Unset /\ infoS2' = Unset
        \/ \A s \in Ahead' : \A db \in Dbs : <<db, s>> \in siteSouth'
    BY <2>1, <2>2 DEF ShareInv
  <2>4. \A s \in Sites : OwnDoc(siteGd'[s], s)
    BY <2>1 DEF ShareInv
  <2> QED BY <2>1, <2>3, <2>4 DEF ShareInv
<1> QED BY <1>1, <1>2, <1>3, <1>4

-----------------------------------------------------------------------------
(* The steps on the amplifiers *)

\* What the other stages do to the amplifiers: nothing.
LEMMA AmplifierFrame ==
  ASSUME TypeOK, DocInv, [Next]_vars,
         ~ (IlaRead \/ IlaInsertOk \/ IlaInsertZero \/ IlaInsertThrow \/ IlaDelete)
  PROVE  /\ UNCHANGED <<ilaSouth, ilaGd, collided>>
         /\ \/ stage' # "ila"
            \/ step' = "read"
            \/ UNCHANGED <<stage, step, ilaList>>
         /\ \/ attempts' # attempts
            \/ stage' \in {"failed", "crashed"}
            \/ stage # "ila" /\ stage \notin {"failed", "crashed"}
            \/ UNCHANGED <<stage, step, ilaList>>
         /\ attempts' = attempts \/ attempts' = attempts + 1
<1> USE DEF viewVars, siteVars, ilaVars, ViewLegs, Sites
<1>0. attempts \in Nat
  BY DEF TypeOK
<1>1. ASSUME NEW l \in IlaLists, initSiteParams(l)
      PROVE  /\ UNCHANGED <<ilaSouth, ilaGd, collided>>
             /\ stage' # "ila" /\ attempts' = attempts + 1
  BY <1>1 DEF initSiteParams
<1>2. CASE siteViewNodeProcess
  BY <1>2 DEF siteViewNodeProcess, Advance, NextStage
<1>3. CASE ViewRead \/ ViewInsertOk \/ ViewInsertZero \/ ViewInsertThrow
  BY <1>3 DEF ViewRead, ViewInsertOk, ViewInsertZero, ViewInsertThrow, Stop
<1>4. CASE ViewDelete
  BY <1>4 DEF ViewDelete, Advance, NextStage
<1>5. CASE SiteRead \/ SiteUpdateOk \/ SiteUpdateZero \/ SiteUpdateThrow
  BY <1>5 DEF SiteRead, SiteUpdateOk, SiteUpdateZero, SiteUpdateThrow, Stop
<1>6. CASE SiteDelete
  BY <1>6 DEF SiteDelete, Advance, NextStage
<1>7. CASE Crash
  BY <1>7 DEF Crash, Stop
<1>8. CASE UNCHANGED vars
  BY <1>8 DEF vars
<1> QED BY <1>0, <1>1, <1>2, <1>3, <1>4, <1>5, <1>6, <1>7, <1>8
        DEF Next, siteViewLinkProcess, siteNodeProcess

\* Every step keeps the amplifiers accounted for.
LEMMA AmplifierStep ==
  ASSUME TypeOK, DocInv, AmplifierInv, [Next]_vars
  PROVE  AmplifierInv'
<1> USE DEF viewVars, siteVars, ilaVars
<1>1. CASE ~ (IlaRead \/ IlaInsertOk \/ IlaInsertZero \/ IlaInsertThrow \/ IlaDelete)
  BY <1>1, AmplifierFrame DEF AmplifierInv, IlaKept
<1>2. CASE IlaRead
  <2>1. UNCHANGED <<ilaSouth, ilaGd, ilaList>>
    BY <1>2 DEF IlaRead
  <2>2. \/ stage' = "done"
        \/ step' = "write" /\ Head(ilaList) \in ilaSouth
        \/ step' = "delete" /\ Head(ilaList) \notin ilaSouth
    BY <1>2 DEF IlaRead, Advance, NextStage
  <2> QED BY <2>1, <2>2 DEF AmplifierInv, IlaKept
<1>3. CASE IlaInsertOk
  BY <1>3 DEF IlaInsertOk, AmplifierInv, IlaKept
<1>4. CASE IlaInsertZero
  BY <1>4 DEF IlaInsertZero, Stop, AmplifierInv, IlaKept
<1>5. CASE IlaInsertThrow
  <2>1. ilaGd \subseteq ilaGd' /\ UNCHANGED ilaSouth /\ stage' = "failed"
    BY <1>5 DEF IlaInsertThrow, Stop
  <2> QED BY <2>1 DEF AmplifierInv, IlaKept
<1>6. CASE IlaDelete
  <2>1. /\ ilaSouth' = ilaSouth \ {Head(ilaList)} /\ UNCHANGED ilaGd /\ step' = "read"
        /\ stage = "ila" /\ step = "delete"
    BY <1>6 DEF IlaDelete
  <2> QED BY <2>1 DEF AmplifierInv, IlaKept
<1> QED BY <1>1, <1>2, <1>3, <1>4, <1>5, <1>6

\* In the first run an amplifier is deleted right after it was inserted, so
\* that none that is inserted is in GD already.
LEMMA FirstAmplifierStep ==
  ASSUME TypeOK, DocInv, AmplifierInv, FirstAmplifierInv, [Next]_vars
  PROVE  FirstAmplifierInv'
<1> USE DEF viewVars, siteVars, ilaVars
<1>0. SUFFICES ASSUME attempts' <= 1
               PROVE  FirstAmplifierInv'
  BY DEF FirstAmplifierInv
<1>1. attempts <= 1 /\ attempts \in Nat
  BY <1>0, AttemptsStep
<1>2. /\ ~ collided
      /\ stage \notin {"failed", "crashed"} /\ ~ (stage = "ila" /\ step = "delete")
           => ilaGd \cap ilaSouth = {}
      /\ stage \notin {"failed", "crashed"} => ilaGd \cap ilaSouth \subseteq {Head(ilaList)}
  BY <1>1 DEF FirstAmplifierInv
<1>3. CASE ~ (IlaRead \/ IlaInsertOk \/ IlaInsertZero \/ IlaInsertThrow \/ IlaDelete)
  <2>1. CASE attempts' = attempts
    BY <1>1, <1>3, <2>1, AmplifierFrame DEF FirstAmplifierInv
  <2>2. CASE attempts' # attempts
    <3>1. attempts = 0 /\ stage = "idle"
      BY <1>0, <1>1, <2>2, AttemptsStep DEF DocInv
    <3> QED BY <1>2, <1>3, <3>1, AmplifierFrame DEF FirstAmplifierInv
  <2> QED BY <2>1, <2>2
<1>4. CASE IlaRead
  <2>1. UNCHANGED <<ilaSouth, ilaGd, collided>> /\ stage = "ila" /\ step = "read"
    BY <1>4 DEF IlaRead
  <2> QED BY <1>2, <2>1 DEF FirstAmplifierInv
<1>5. CASE IlaInsertOk
  BY <1>2, <1>5 DEF IlaInsertOk, FirstAmplifierInv
<1>6. CASE IlaInsertZero
  BY <1>2, <1>6 DEF IlaInsertZero, Stop, FirstAmplifierInv
<1>7. CASE IlaInsertThrow
  <2>1. /\ stage = "ila" /\ step = "write" /\ stage' = "failed"
        /\ collided' = (collided \/ Head(ilaList) \in ilaGd)
    BY <1>7 DEF IlaInsertThrow, Stop
  <2>2. Head(ilaList) \in ilaSouth
    BY <2>1 DEF AmplifierInv
  <2>3. Head(ilaList) \notin ilaGd
    BY <1>2, <2>1, <2>2
  <2>4. ~ collided'
    BY <1>2, <2>1, <2>3, Zenon
  <2> QED BY <2>1, <2>4 DEF FirstAmplifierInv
<1>8. CASE IlaDelete
  <2>1. /\ stage = "ila" /\ step = "delete" /\ UNCHANGED <<ilaGd, collided>>
        /\ ilaSouth' = ilaSouth \ {Head(ilaList)}
    BY <1>8 DEF IlaDelete
  <2>2. ilaGd' \cap ilaSouth' = {}
    BY <1>2, <2>1
  <2> QED BY <1>2, <2>1, <2>2 DEF FirstAmplifierInv
<1> QED BY <1>3, <1>4, <1>5, <1>6, <1>7, <1>8

-----------------------------------------------------------------------------
(* Theorems *)

\* The invariant holds before the first run.
LEMMA TopoInit == Init => TopoInv
<1> SUFFICES ASSUME Init PROVE TopoInv
  OBVIOUS
<1>0. \A s \in Sites : SiteDoc(s, << <<"gd", s>> >>) \in SiteDocs
  <2> SUFFICES ASSUME NEW s \in Sites
               PROVE  SiteDoc(s, << <<"gd", s>> >>) \in SiteDocs
    OBVIOUS
  <2>1. <<"gd", s>> \in Parts
    BY DEF Parts
  <2>2. << <<"gd", s>> >> \in Seq(Parts)
    BY <2>1
  <2> QED BY <2>2 DEF SiteDoc, SiteDocs
<1>1. TypeOK
  <2>1. siteGd \in [Sites -> SiteDocs] /\ Unset \in SiteDocs /\ ilaList \in Seq(IlaSites)
    BY <1>0 DEF Init, Unset, SiteDoc, SiteDocs
  <2> QED BY <2>1 DEF Init, TypeOK, Ended
<1>2. DocInv
  BY DEF Init, DocInv, ViewLegs, Sites
<1>3. LinkInv
  BY DEF Init, LinkInv, ViewRefsKept, NoViewFragment, ViewLegs, Dbs
<1>4. FirstLinkInv
  BY DEF Init, FirstLinkInv, FreshLeg, ViewMergedOnFirstRun
<1>5. NodeInv
  BY DEF Init, NodeInv, Sites, SiteDoc
<1>6. AmplifierInv
  BY DEF Init, AmplifierInv, IlaKept
<1>7. FirstAmplifierInv
  BY DEF Init, FirstAmplifierInv
<1>8. OrderInv
  BY DEF Init, OrderInv, Sites
<1>9. ShareInv
  <2>1. ASSUME NEW s \in Sites
        PROVE  OwnDoc(siteGd[s], s)
    <3>1. << <<"gd", s>> >> \in Seq(Parts)
      BY DEF Parts
    <3>2. siteGd[s].sid = s /\ siteGd[s].parts = << <<"gd", s>> >>
      BY DEF Init, SiteDoc
    <3>3. OwnParts(<< <<"gd", s>> >>, s)
      BY <3>1 DEF OwnParts
    <3> QED BY <3>2, <3>3 DEF OwnDoc
  <2> QED BY <2>1 DEF Init, ShareInv, Sites
<1> QED BY <1>1, <1>2, <1>3, <1>4, <1>5, <1>6, <1>7, <1>8, <1>9 DEF TopoInv

\* Every state siteTopoTrans.php can get into satisfies TopoInv.
THEOREM TopoInvariant == Spec => []TopoInv
<1>1. TopoInv /\ [Next]_vars => TopoInv'
  BY TypeStep, LinkStep, FirstLinkStep, NodeStep, OrderStep, ShareStep, AmplifierStep,
     FirstAmplifierStep DEF TopoInv
<1> QED BY <1>1, TopoInit, PTL DEF Spec

\* The variables of siteTopoTrans.php keep their types; in particular every
\* document written by siteViewLinkProcess or siteNodeProcess is of its kind.
THEOREM TypeCorrect == Spec => []TypeOK
<1>1. TopoInv => TypeOK
  BY DEF TopoInv
<1> QED BY <1>1, TopoInvariant, PTL

\* siteViewLinkProcess loses no South view link, whatever crashes, failing
\* inserts and re-runs it meets.
THEOREM ViewLinksKept == Spec => []ViewRefsKept
<1>1. TopoInv => ViewRefsKept
  BY DEF TopoInv, LinkInv
<1> QED BY <1>1, TopoInvariant, PTL

\* siteViewLinkProcess never leaves a view link without its id and end nodes
\* in GD, because it deletes the South 2 link before the South 1 link.
THEOREM ViewLinksWhole == Spec => []NoViewFragment
<1>1. TopoInv => NoViewFragment
  BY DEF TopoInv, LinkInv
<1> QED BY <1>1, TopoInvariant, PTL

\* The first run of siteViewLinkProcess makes one view link per leg, of both
\* South links.
THEOREM ViewLinksMerged == Spec => []ViewMergedOnFirstRun
<1>1. TopoInv => ViewMergedOnFirstRun
  BY DEF TopoInv, FirstLinkInv
<1> QED BY <1>1, TopoInvariant, PTL

\* The first run of siteNodeProcess deletes no South site node whose parts
\* GD's node does not hold.
THEOREM SiteDataKept == Spec => []SiteDataKeptOnFirstRun
<1>1. TopoInv => SiteDataKeptOnFirstRun
  <2> SUFFICES ASSUME TopoInv, attempts <= 1, NEW db \in Dbs, NEW s \in Sites,
                      <<db, s>> \notin siteSouth
               PROVE  Holds(s, db) /\ siteGd[s].sid = s
    BY DEF SiteDataKeptOnFirstRun
  <2>1. siteGd[s].sid = s /\ siteGd[s].parts = FullParts(s)
    BY DEF TopoInv, NodeInv
  <2>2. /\ 1 \in DOMAIN FullParts(s) /\ FullParts(s)[1] = <<"30", s>>
        /\ 2 \in DOMAIN FullParts(s) /\ FullParts(s)[2] = <<"35", s>>
    BY DEF FullParts
  <2>3. FullParts(s) \in Seq(Parts)
    <3>1. <<"30", s>> \in Parts /\ <<"35", s>> \in Parts /\ <<"gd", s>> \in Parts
      BY DEF Parts, Dbs
    <3> QED BY <3>1 DEF FullParts
  <2> QED BY <2>1, <2>2, <2>3, NullAssumption DEF Holds, Dbs
<1> QED BY <1>1, TopoInvariant, PTL

\* No run of siteNodeProcess gives GD's node of a site a part, or the id, of
\* another, although the sites share two variables that are never reset:
\* documents are deleted in the order of the sites, so that what a run that
\* misses one has left in them is null.
THEOREM NodesNotMixed == Spec => []NoForeignParts
<1>1. TopoInv => NoForeignParts
  BY DEF TopoInv, ShareInv, OwnDoc, OwnParts, NoForeignParts
<1> QED BY <1>1, TopoInvariant, PTL

\* The first run of siteNodeProcess gives the nodes B and C the parts of all
\* three databases, once each, or leaves them as they were.
THEOREM TowersMerged == Spec => []TowersMergedOnce
<1>1. TopoInv => TowersMergedOnce
  BY DEF TopoInv, NodeInv, TowersMergedOnce, FullParts, Sites
<1> QED BY <1>1, TopoInvariant, PTL

\* No run of siteNodeProcess loses an amplifier site, whatever the lists of
\* the controllers are: one without a document in GD is still in South, since
\* an insert that fails ends the script before the delete.
THEOREM AmplifiersKept == Spec => []IlaKept
<1>1. TopoInv => IlaKept
  BY DEF TopoInv, AmplifierInv
<1> QED BY <1>1, TopoInvariant, PTL

\* In the first run of siteNodeProcess no amplifier meets its own _id in GD,
\* however often the lists name it.
THEOREM AmplifiersNeverCollide == Spec => []NoIlaCollisionOnFirstRun
<1>1. TopoInv => NoIlaCollisionOnFirstRun
  BY DEF TopoInv, FirstAmplifierInv, NoIlaCollisionOnFirstRun
<1> QED BY <1>1, TopoInvariant, PTL
=============================================================================
