------------------------------ MODULE SiteTopo ------------------------------
(***************************************************************************)
(* siteTopoTrans.php: the topology documents of the three sites A (Ebu), B *)
(* (Binhai) and C (Tencent tower) of South 1 ("30") and South 2 ("35") are *)
(* merged, pair by pair, into the documents the merged controller (GD)     *)
(* already has for them:                                                   *)
(*   viewNode   the South view nodes are deleted                           *)
(*   viewB, viewC   the view links B---A and C---A are merged two into one *)
(*   A, B, C    the site nodes are merged into GD's node, three into one   *)
(*   ila        the amplifier sites are moved one by one                   *)
(* (siteLinkProcess, the last call of run(), is the loop of DocTransfer.)  *)
(*                                                                         *)
(* Data: a site node's supporting-rack, supporting-node and termination-   *)
(* point lists are always merged by the same three statements, so they are *)
(* one list here, of "parts" <<database, site>>.  Null is PHP's null.      *)
(* Consecutive queries are one step: nothing else writes the databases, so *)
(* a crash between two queries changes nothing.                            *)
(***************************************************************************)
EXTENDS Naturals, Sequences, FiniteSets

CONSTANTS
  Null,
  IlaSites,     \* amplifier sites; an amplifier is in one South database
  IlaLists,     \* the possible sequences of amplifiers initSiteParams collects
  MaxAttempts   \* bound: how often the operator starts the script

VARIABLES
  viewNodes,  \* view nodes <<db, site>> still in South
  viewSouth,  \* view links <<db, leg>> still in South
  viewGd,     \* viewGd[v]: copies of view link document v in GD
  siteSouth,  \* site nodes <<db, site>> still in South
  siteGd,     \* siteGd[s]: the document that was GD's node of site s
  ilaSouth, ilaGd,
  stage, step,      \* where the script is
  doc,              \* the merged document about to be written
  infoS1, infoS2,   \* $siteNodeInfoS1New and $siteNodeInfoS2New
  ilaList,          \* $siteNodeIlaListS1 followed by $siteNodeIlaListS2
  reported,         \* South documents whose failed write was only reported
  attempts,         \* history: number of runs started
  collided          \* history: an amplifier met its own _id in GD

siteVars == <<siteSouth, siteGd, infoS1, infoS2>>
viewVars == <<viewSouth, viewGd>>
ilaVars == <<ilaSouth, ilaGd, collided>>
vars == <<viewNodes, viewVars, siteVars, ilaVars, ilaList, stage, step, doc, reported, attempts>>

Dbs == {"30", "35"}
Sites == {"A", "B", "C"}
ViewLegs == {"viewB", "viewC"}
Stages == {"viewNode", "ila"} \cup ViewLegs \cup Sites
Ended == {"idle", "done", "failed", "crashed"}

NextStage(s) ==
  CASE s = "viewNode" -> "viewB" [] s = "viewB" -> "viewC" [] s = "viewC" -> "A"
    [] s = "A" -> "B" [] s = "B" -> "C" [] s = "C" -> "ila" [] s = "ila" -> "done"

ASSUME IlaAssumption ==
  /\ IlaLists \subseteq Seq(IlaSites)
  /\ MaxAttempts \in Nat

\* A view link document: which South links it refers to, and whether it has
\* the id and end nodes, which only the South 1 document brings along.
ViewDocs == [leg : ViewLegs, hasId : BOOLEAN, refs : SUBSET Dbs]

Parts == (Dbs \cup {"gd"}) \X Sites

ASSUME NullAssumption == Null \notin Sites /\ Null \notin Seq(Parts)

\* A site node document: its siteId (Null when the document has none), and its
\* list of parts (Null when array_merge was given a null).
SiteDocs == [sid : Sites \cup {Null}, parts : Seq(Parts) \cup {Null}]
SiteDoc(sid, parts) == [sid |-> sid, parts |-> parts]
Unset == SiteDoc(Null, Null)

\* PHP 7: array_merge with an argument that is not an array is null.
array_merge(p, q) == IF p = Null \/ q = Null THEN Null ELSE p \o q

Init ==
  /\ viewNodes = Dbs \X Sites
  /\ viewSouth = Dbs \X ViewLegs
  /\ viewGd = [v \in ViewDocs |-> 0]
  /\ siteSouth = Dbs \X Sites
  /\ siteGd = [s \in Sites |-> SiteDoc(s, << <<"gd", s>> >>)]
  /\ ilaSouth = IlaSites
  /\ ilaGd = {}
  /\ stage = "idle" /\ step = "idle"
  /\ doc = Null
  /\ infoS1 = Unset /\ infoS2 = Unset
  /\ ilaList = <<>>
  /\ reported = {}
  /\ attempts = 0
  /\ collided = FALSE

\* The operator runs the script; initSiteParams asks the controllers for the
\* amplifiers of the four sections (one on two sections is listed twice).
initSiteParams(l) ==
  /\ stage \in Ended
  /\ attempts < MaxAttempts
  /\ attempts' = attempts + 1
  /\ ilaList' = l
  /\ stage' = "viewNode" /\ step' = "delete"
  /\ doc' = Null
  /\ infoS1' = Unset /\ infoS2' = Unset
  /\ UNCHANGED <<viewNodes, viewVars, siteSouth, siteGd, ilaVars, reported>>

\* Control passes to the next stage, which starts by reading.
Advance ==
  /\ stage' = NextStage(stage)
  /\ step' = IF stage' = "done" THEN "idle" ELSE "read"

Stop(how) == stage' = how /\ step' = "idle"

\* siteViewNodeProcess: the view nodes of South 1, then those of South 2.
siteViewNodeProcess ==
  /\ stage = "viewNode"
  /\ LET db == IF \E n \in viewNodes : n[1] = "30" THEN "30" ELSE "35"
         todo == {n \in viewNodes : n[1] = db}
     IN IF todo = {}
          THEN Advance /\ UNCHANGED viewNodes
          ELSE (\E n \in todo : viewNodes' = viewNodes \ {n}) /\ UNCHANGED <<stage, step>>
  /\ UNCHANGED <<viewVars, siteVars, ilaVars, ilaList, doc, reported, attempts>>

-----------------------------------------------------------------------------
(* siteViewLinkProcess, for the legs viewB and viewC *)

\* Both South links are read; with neither left there is nothing to insert.
ViewRead ==
  /\ stage \in ViewLegs /\ step = "read"
  /\ LET refs == {db \in Dbs : <<db, stage>> \in viewSouth}
     IN IF refs = {}
          THEN doc' = Null /\ step' = "del35"
          ELSE doc' = [leg |-> stage, hasId |-> "30" \in refs, refs |-> refs] /\ step' = "write"
  /\ UNCHANGED <<viewNodes, viewVars, siteVars, ilaVars, ilaList, stage, reported, attempts>>

ViewInsertOk ==
  /\ stage \in ViewLegs /\ step = "write"
  /\ viewGd' = [viewGd EXCEPT ![doc] = @ + 1]
  /\ step' = "del35"
  /\ UNCHANGED <<viewNodes, viewSouth, siteVars, ilaVars, ilaList, stage, doc, reported, attempts>>

\* Mutant: the failed insert is not reported.
ViewInsertUnchecked ==
  /\ stage \in ViewLegs /\ step = "write"
  /\ step' = "del35"
  /\ UNCHANGED <<viewNodes, viewVars, siteVars, ilaVars, ilaList, stage, doc, reported, attempts>>

\* A count other than 1 is echoed and logged, and the deletes go ahead.
ViewInsertZero ==
  /\ stage \in ViewLegs /\ step = "write"
  /\ reported' = reported \cup {<<db, stage>> : db \in doc.refs}
  /\ step' = "del35"
  /\ UNCHANGED <<viewNodes, viewVars, siteVars, ilaVars, ilaList, stage, doc, attempts>>

\* BulkWriteException, the document written or not: caught on the first leg
\* (return false), not caught on the second.
ViewInsertThrow ==
  /\ stage \in ViewLegs /\ step = "write"
  /\ \E written \in {0, 1} : viewGd' = [viewGd EXCEPT ![doc] = @ + written]
  /\ Stop(IF stage = "viewB" THEN "failed" ELSE "crashed")
  /\ UNCHANGED <<viewNodes, viewSouth, siteVars, ilaVars, ilaList, doc, reported, attempts>>

\* Mutant: South 1 is cleaned before South 2.
ViewDeleteSouth1First ==
  /\ stage \in ViewLegs /\ step \in {"del35", "del30"}
  /\ viewSouth' = viewSouth \ {<<IF step = "del35" THEN "30" ELSE "35", stage>>}
  /\ IF step = "del35" THEN step' = "del30" /\ stage' = stage ELSE Advance
  /\ UNCHANGED <<viewNodes, viewGd, siteVars, ilaVars, ilaList, doc, reported, attempts>>

\* South 2 is cleaned before South 1.
ViewDelete ==
  /\ stage \in ViewLegs /\ step \in {"del35", "del30"}
  /\ viewSouth' = viewSouth \ {<<IF step = "del35" THEN "35" ELSE "30", stage>>}
  /\ IF step = "del35" THEN step' = "del30" /\ stage' = stage ELSE Advance
  /\ UNCHANGED <<viewNodes, viewGd, siteVars, ilaVars, ilaList, doc, reported, attempts>>

-----------------------------------------------------------------------------
(* siteNodeProcess, for the sites A, B and C *)

\* The South document of the site as rewritten, or what the variable holds.
Fetched(db, old) ==
  IF <<db, stage>> \in siteSouth THEN SiteDoc(stage, << <<db, stage>> >>) ELSE old

\* The slots whose document GD finds under the siteId.
Found(site) == {s \in Sites : siteGd[s].sid = site}

\* GD's document g is merged in: for A by a shallow array_merge of whole
\* documents, in which the South data replaces GD's; for B and C list by list.
Merged(info, g) ==
  IF stage = "A"
    THEN SiteDoc(IF info.sid = Null THEN g.sid ELSE info.sid, info.parts)
    ELSE SiteDoc(info.sid, array_merge(info.parts, g.parts))

\* The South documents are merged into $siteNodeInfoS1New, then with GD's.
SiteRead ==
  /\ stage \in Sites /\ step = "read"
  /\ infoS2' = Fetched("35", infoS2)
  /\ LET s1 == Fetched("30", infoS1)
     IN infoS1' = SiteDoc(s1.sid, array_merge(s1.parts, infoS2'.parts))
  /\ LET g == IF Found(stage) = {} THEN Unset ELSE siteGd[CHOOSE s \in Found(stage) : TRUE]
     IN doc' = Merged(infoS1', g)
  /\ step' = "write"
  /\ UNCHANGED <<viewNodes, viewVars, siteSouth, siteGd, ilaVars, ilaList, stage, reported, attempts>>

\* mongoUpdate replaces one document found under the siteId.
Replaced == {[siteGd EXCEPT ![s] = doc] : s \in Found(stage)}

SiteUpdateOk ==
  /\ stage \in Sites /\ step = "write"
  /\ siteGd' \in Replaced
  /\ step' = "del35"
  /\ UNCHANGED <<viewNodes, viewVars, siteSouth, infoS1, infoS2, ilaVars, ilaList, stage, doc,
                 reported, attempts>>

\* The update found no document: a modified count other than 1 is echoed and
\* the deletes go ahead.
SiteUpdateZero ==
  /\ stage \in Sites /\ step = "write"
  /\ Found(stage) = {}
  /\ reported' = reported \cup {<<db, stage>> : db \in Dbs}
  /\ step' = "del35"
  /\ UNCHANGED <<viewNodes, viewVars, siteVars, ilaVars, ilaList, stage, doc, attempts>>

\* Mutant: after the exception the script goes on.
SiteUpdateThrowIgnored ==
  /\ stage \in Sites /\ step = "write"
  /\ siteGd' \in Replaced \cup {siteGd}
  /\ step' = "del35"
  /\ UNCHANGED <<viewNodes, viewVars, siteSouth, infoS1, infoS2, ilaVars, ilaList, stage, doc,
                 reported, attempts>>

SiteUpdateThrow ==
  /\ stage \in Sites /\ step = "write"
  /\ siteGd' \in Replaced \cup {siteGd}
  /\ Stop("failed")
  /\ UNCHANGED <<viewNodes, viewVars, siteSouth, infoS1, infoS2, ilaVars, ilaList, doc, reported,
                 attempts>>

\* Mutant: the delete of site A's nodes matches nothing.
SiteDeleteTowersOnly ==
  /\ stage \in Sites /\ step \in {"del35", "del30"}
  /\ siteSouth' = siteSouth \ (({IF step = "del35" THEN "35" ELSE "30"} \X {stage}) \ (Dbs \X {"A"}))
  /\ IF step = "del35" THEN step' = "del30" /\ stage' = stage ELSE Advance
  /\ UNCHANGED <<viewNodes, viewVars, siteGd, infoS1, infoS2, ilaVars, ilaList, doc, reported,
                 attempts>>

\* South 2 is cleaned before South 1 here, too.
SiteDelete ==
  /\ stage \in Sites /\ step \in {"del35", "del30"}
  /\ siteSouth' = siteSouth \ {<<IF step = "del35" THEN "35" ELSE "30", stage>>}
  /\ IF step = "del35" THEN step' = "del30" /\ stage' = stage ELSE Advance
  /\ UNCHANGED <<viewNodes, viewVars, siteGd, infoS1, infoS2, ilaVars, ilaList, doc, reported,
                 attempts>>

-----------------------------------------------------------------------------
(* siteNodeProcess, the amplifiers *)

\* The next amplifier is looked up; without a document only the delete is left.
IlaRead ==
  /\ stage = "ila" /\ step = "read"
  /\ IF ilaList = <<>>
       THEN Advance
       ELSE step' = (IF Head(ilaList) \in ilaSouth THEN "write" ELSE "delete") /\ stage' = stage
  /\ UNCHANGED <<viewNodes, viewVars, siteVars, ilaVars, ilaList, doc, reported, attempts>>

\* The document is inserted with its _id.
IlaInsertOk ==
  /\ stage = "ila" /\ step = "write"
  /\ Head(ilaList) \notin ilaGd
  /\ ilaGd' = ilaGd \cup {Head(ilaList)}
  /\ step' = "delete"
  /\ UNCHANGED <<viewNodes, viewVars, siteVars, ilaSouth, collided, ilaList, stage, doc, reported,
                 attempts>>

\* Mutant: the failed insert is passed over.
IlaInsertUnchecked ==
  /\ stage = "ila" /\ step = "write"
  /\ Head(ilaList) \notin ilaGd
  /\ step' = "delete"
  /\ UNCHANGED <<viewNodes, viewVars, siteVars, ilaVars, ilaList, stage, doc, reported, attempts>>

\* A count other than 1: the message is put together from the Cursor object,
\* which is no string, and that error ends the script before the delete.
IlaInsertZero ==
  /\ stage = "ila" /\ step = "write"
  /\ Head(ilaList) \notin ilaGd
  /\ Stop("crashed")
  /\ UNCHANGED <<viewNodes, viewVars, siteVars, ilaVars, ilaList, doc, reported, attempts>>

\* BulkWriteException: the _id is taken, or the write concern is not met in
\* time and the document was written or not.
IlaInsertThrow ==
  /\ stage = "ila" /\ step = "write"
  /\ ilaGd' \in {ilaGd, ilaGd \cup {Head(ilaList)}}
  /\ collided' = (collided \/ Head(ilaList) \in ilaGd)
  /\ Stop("failed")
  /\ UNCHANGED <<viewNodes, viewVars, siteVars, ilaSouth, ilaList, doc, reported, attempts>>

\* Mutant: the amplifier stays in South.
IlaDeleteNothing ==
  /\ stage = "ila" /\ step = "delete"
  /\ ilaList' = Tail(ilaList)
  /\ step' = "read"
  /\ UNCHANGED <<viewNodes, viewVars, siteVars, ilaSouth, ilaGd, collided, stage, doc, reported,
                 attempts>>

IlaDelete ==
  /\ stage = "ila" /\ step = "delete"
  /\ ilaSouth' = ilaSouth \ {Head(ilaList)}
  /\ ilaList' = Tail(ilaList)
  /\ step' = "read"
  /\ UNCHANGED <<viewNodes, viewVars, siteVars, ilaGd, collided, stage, doc, reported, attempts>>

-----------------------------------------------------------------------------
\* The process dies between two steps, or on a driver exception outside the
\* try blocks; the deletes of view links and site nodes are outside them.
Crash ==
  /\ stage \in Stages
  /\ Stop("crashed")
  /\ UNCHANGED <<viewNodes, viewVars, siteVars, ilaVars, ilaList, doc, reported, attempts>>

siteViewLinkProcess ==
  ViewRead \/ ViewInsertOk \/ ViewInsertZero \/ ViewInsertThrow \/ ViewDelete

siteNodeProcess ==
  \/ SiteRead \/ SiteUpdateOk \/ SiteUpdateZero \/ SiteUpdateThrow \/ SiteDelete
  \/ IlaRead \/ IlaInsertOk \/ IlaInsertZero \/ IlaInsertThrow \/ IlaDelete

Next ==
  \/ \E l \in IlaLists : initSiteParams(l)
  \/ siteViewNodeProcess \/ siteViewLinkProcess \/ siteNodeProcess
  \/ Crash

Spec == Init /\ [][Next]_vars
-----------------------------------------------------------------------------
(* Properties *)

TypeOK ==
  /\ viewNodes \subseteq Dbs \X Sites
  /\ viewSouth \subseteq Dbs \X ViewLegs
  /\ viewGd \in [ViewDocs -> Nat]
  /\ siteSouth \subseteq Dbs \X Sites
  /\ siteGd \in [Sites -> SiteDocs]
  /\ ilaSouth \subseteq IlaSites /\ ilaGd \subseteq IlaSites
  /\ stage \in Stages \cup Ended
  /\ step \in {"idle", "read", "write", "del35", "del30", "delete"}
  /\ doc \in ViewDocs \cup SiteDocs \cup {Null}
  /\ infoS1 \in SiteDocs /\ infoS2 \in SiteDocs
  /\ ilaList \in Seq(IlaSites)
  /\ reported \subseteq Dbs \X (ViewLegs \cup Sites)
  /\ attempts \in Nat
  /\ collided \in BOOLEAN

\* siteViewLinkProcess loses no South view link, however often it crashes and
\* is run again: the link is in South, referred to by a link in GD, or its
\* failed insert was reported.
ViewRefsKept ==
  \A db \in Dbs, leg \in ViewLegs :
    \/ <<db, leg>> \in viewSouth \cup reported
    \/ \E v \in ViewDocs : viewGd[v] > 0 /\ v.leg = leg /\ db \in v.refs

\* A view link in GD always has its id and end nodes.  They come from the
\* South 1 document, so this rests on South 2 being cleaned first: after a
\* crash between the deletes the South 1 document is the one left.
NoViewFragment == \A v \in ViewDocs : viewGd[v] > 0 => v.hasId

\* In its first run the script makes at most one view link per leg, with the
\* references of both South links (bundle-number 2).
ViewMergedOnFirstRun ==
  attempts <= 1 =>
    \A v \in ViewDocs : viewGd[v] > 0 => viewGd[v] = 1 /\ v.refs = Dbs

Holds(site, who) ==
  /\ siteGd[site].parts # Null
  /\ \E n \in DOMAIN siteGd[site].parts : siteGd[site].parts[n] = <<who, site>>

\* In its first run the script loses no part of a South site node: the node
\* is in South, or its parts are in GD's node, which kept its siteId.
SiteDataKeptOnFirstRun ==
  attempts <= 1 =>
    \A db \in Dbs, s \in Sites :
      \/ <<db, s>> \in siteSouth
      \/ Holds(s, db) /\ siteGd[s].sid = s

\* GD's node of a site never gets a part, or the id, of another site, in any
\* run, although the sites share $siteNodeInfoS1New and $siteNodeInfoS2New: a
\* run that misses a South document missed those of the sites before as well,
\* since every run deletes in the order A, B, C.
NoForeignParts ==
  \A s \in Sites :
    /\ siteGd[s].sid \in {s, Null}
    /\ siteGd[s].parts # Null =>
         \A n \in DOMAIN siteGd[s].parts : siteGd[s].parts[n][2] = s

\* In its first run the script gives each of the nodes B and C the parts of
\* all three databases, once each, or leaves it as it was.
TowersMergedOnce ==
  attempts <= 1 =>
    \A s \in {"B", "C"} :
      siteGd[s].parts \in {<< <<"gd", s>> >>, << <<"30", s>>, <<"35", s>>, <<"gd", s>> >>}

\* No amplifier site is ever lost, whatever inserts fail and however often the
\* script dies and is run again: it is in South or in GD.
IlaKept == \A a \in IlaSites : a \in ilaSouth \cup ilaGd

\* In the first run no insert of an amplifier meets its own _id in GD, also
\* when it is listed by two sections: each is deleted before the next insert.
NoIlaCollisionOnFirstRun == attempts <= 1 => ~collided

\* siteTopoTrans.php:455: the data of the three parties is put together and
\* merged back into GD's node of site A.
NodeAHoldsThreeParties ==
  attempts = 1 /\ stage \in {"B", "C", "ila", "done"} =>
    \A who \in Dbs \cup {"gd"} : Holds("A", who)

\* siteTopoTrans.php:540: the same for site B, whichever run got past it.
NodeBHoldsThreeParties ==
  stage \in {"C", "ila", "done"} => \A who \in Dbs \cup {"gd"} : Holds("B", who)
=============================================================================
