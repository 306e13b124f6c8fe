---------------------------- MODULE DocTransfer ----------------------------
(***************************************************************************)
(* The loop that moves the documents of one collection from the two South  *)
(* databases ("30" = South 1, "35" = South 2) into the merged controller's *)
(* database (GD).  Five scripts of toopTransfer/ are this loop, one per    *)
(* collection: tunnelTrans, phyLinkTrans, phyNodeTrans, ochNodeTrans and   *)
(* ochLinkTrans; so is the last call of siteTopoTrans.  Each walks a work  *)
(* list and does, for every listed key,                                    *)
(*                                                                         *)
(*     query South  ->  rewrite site ids  ->  insert GD  ->  delete South  *)
(*                                                                         *)
(* with no transaction around the four steps.  The scripts differ in what  *)
(* they do between the steps; CONSTANT Script is the record of these       *)
(* differences (one record per script below).                              *)
(*                                                                         *)
(* Nothing else writes the three databases while a script runs: the        *)
(* migration is done in a maintenance window.                              *)
(***************************************************************************)
EXTENDS Naturals, Sequences, FiniteSets

CONSTANTS
  Docs,        \* the documents the South databases hold at the start
  Keys,        \* the values of the collection's id field
  KeyOf,       \* KeyOf[d]: the id of document d
  DbOf,        \* DbOf[d]: the South database that holds d
  Mentions,    \* Mentions[d]: the sites whose ids occur in d's text
  Lists,       \* the work lists a run of the script may read
  Script,      \* which of the scripts is running
  MaxAttempts  \* bound: how often the operator starts the script

VARIABLES
  src,       \* documents still in the South databases
  gd,        \* gd[<<d, leg>>]: copies in GD of d, as rewritten on leg
  pc,        \* where the script is
  list,      \* the work list this run walks
  i,         \* index of the current item
  new,       \* the PHP variable with the rewritten document
  pending,   \* documents of the open cursor that are not inserted yet
  reported,  \* documents whose failed insert was only reported
  attempts,  \* history: number of runs started
  reinserts  \* history: inserts of a document left in `new' by an earlier item

vars == <<src, gd, pc, list, i, new, pending, reported, attempts, reinserts>>

-----------------------------------------------------------------------------
(* Legs, databases and sites *)

\* The four multiplex sections, in the order every script handles them:
\* Binhai (B) -- Ebu (A) and Tencent tower (C) -- Ebu (A), in South 1 and 2.
Legs == {"BH_S1", "TD_S1", "BH_S2", "TD_S2"}

Db(leg) == IF leg \in {"BH_S1", "TD_S1"} THEN "30" ELSE "35"

SouthSites == {"A30", "B30", "C30", "A35", "B35", "C35"}

OtherSites == {"GdEb", "GdTd", "GdDso", "ILA"}

\* The two str_replace calls of a leg: South site id -> site id in GD.
SiteMap(leg) ==
  CASE leg = "BH_S1" -> [s \in {"A30", "B30"} |-> IF s = "A30" THEN "GdEb" ELSE "GdTd"]
    [] leg = "TD_S1" -> [s \in {"A30", "C30"} |-> IF s = "A30" THEN "GdEb" ELSE "GdDso"]
    [] leg = "BH_S2" -> [s \in {"A35", "B35"} |-> IF s = "A35" THEN "GdEb" ELSE "GdTd"]
    [] leg = "TD_S2" -> [s \in {"A35", "C35"} |-> IF s = "A35" THEN "GdEb" ELSE "GdDso"]

\* Mutant: the second str_replace starts again from the text that was read.
RewriteLastOnly(sites, leg) ==
  {IF s \in DOMAIN SiteMap(leg) \ {"A30", "A35"} THEN SiteMap(leg)[s] ELSE s : s \in sites}

Rewrite(sites, leg) ==
  {IF s \in DOMAIN SiteMap(leg) THEN SiteMap(leg)[s] ELSE s : s \in sites}

Items == [leg : Legs, key : Keys]

Images == Docs \X Legs

NoDoc == <<>>

-----------------------------------------------------------------------------
(* The scripts.                                                            *)
(*   insert   "each": every document of the cursor, inside the foreach;    *)
(*            "last": the last one read, kept in `new' after the foreach   *)
(*   scope    "run": all legs share one function scope, so `new' survives  *)
(*            a leg; "leg": the function is called once per leg            *)
(*   onNull   with `new' unset the script goes on to "delete", or to the   *)
(*            "next" item                                                  *)
(*   tolerant legs on which an insert count other than 1 is only echoed    *)

tunnelTransProcess ==
  [name |-> "tunnelTrans", insert |-> "last", scope |-> "run", onNull |-> "delete",
   tolerant |-> {"BH_S2", "TD_S2"}]

phyLinkProcess ==
  [name |-> "phyLinkTrans", insert |-> "each", scope |-> "leg", onNull |-> "delete",
   tolerant |-> {}]

phyNodeProcess ==
  [name |-> "phyNodeTrans", insert |-> "last", scope |-> "leg", onNull |-> "next",
   tolerant |-> {}]

ochNodeProcess ==
  [name |-> "ochNodeTrans", insert |-> "last", scope |-> "leg", onNull |-> "next",
   tolerant |-> {}]

ochLinkProcess ==
  [name |-> "ochLinkTrans", insert |-> "last", scope |-> "leg", onNull |-> "next",
   tolerant |-> {}]

\* siteTopoTrans.php moves the site links of the four sections by this loop
\* too; its list is the four section ids.  Nothing is caught there: where the
\* other scripts return false after an exception, this one dies.
siteLinkProcess ==
  [name |-> "siteTopoTrans", insert |-> "last", scope |-> "run", onNull |-> "delete",
   tolerant |-> Legs]

Scripts == {siteLinkProcess, tunnelTransProcess, phyLinkProcess, phyNodeProcess, ochNodeProcess,
            ochLinkProcess}

ASSUME ScriptAssumption == Script \in Scripts

ASSUME DataAssumption ==
  /\ KeyOf \in [Docs -> Keys]
  /\ DbOf \in [Docs -> {"30", "35"}]
  /\ Mentions \in [Docs -> SUBSET (SouthSites \cup OtherSites)]
  /\ Lists \subseteq Seq(Items)
  /\ MaxAttempts \in Nat

\* The id fields are unique in a database, as the scripts that keep only the
\* last document of a cursor take for granted.  phyLinkTrans does not need it.
ASSUME UniqueKeys ==
  Script.insert = "last" =>
    \A d, e \in Docs : KeyOf[d] = KeyOf[e] /\ DbOf[d] = DbOf[e] => d = e

-----------------------------------------------------------------------------
(* Actions *)

Running == {"query", "insert", "delete"}

Ended == {"idle", "done", "failed", "crashed"}

\* The documents of the item's South database that the filter matches.
Match(item) == {d \in src : KeyOf[d] = item.key /\ DbOf[d] = Db(item.leg)}

\* The document `new' still holds when item i is read: PHP keeps the variable
\* from item to item, and drops it when the function of the leg returns.
Carried ==
  IF i > 1 /\ (Script.scope = "run" \/ list[i].leg = list[i - 1].leg) THEN new ELSE NoDoc

Init ==
  /\ src = Docs
  /\ gd = [m \in Images |-> 0]
  /\ pc = "idle"
  /\ list = <<>>
  /\ i = 1
  /\ new = NoDoc
  /\ pending = {}
  /\ reported = {}
  /\ attempts = 0
  /\ reinserts = 0

\* The operator runs the script, for the first time or again, and the script
\* has its work list, which it asked the controllers for or read from a file.
Start(l) ==
  /\ pc \in Ended
  /\ attempts < MaxAttempts
  /\ attempts' = attempts + 1
  /\ list' = l
  /\ i' = 1
  /\ new' = NoDoc
  /\ pending' = {}
  /\ pc' = "query"
  /\ UNCHANGED <<src, gd, reported, reinserts>>

\* phyLinkTrans: the cursor is opened and its documents inserted one by one.
QueryEach ==
  /\ Script.insert = "each"
  /\ pc = "query" /\ i <= Len(list)
  /\ pending' = Match(list[i])
  /\ pc' = IF Match(list[i]) = {} THEN "delete" ELSE "insert"
  /\ UNCHANGED <<src, gd, list, i, new, reported, attempts, reinserts>>

\* The other scripts: the last document of the cursor is kept.
QueryLast ==
  /\ Script.insert = "last"
  /\ pc = "query" /\ i <= Len(list)
  /\ \E d \in Match(list[i]) : new' = <<d, list[i].leg>>
  /\ pc' = "insert"
  /\ UNCHANGED <<src, gd, list, i, pending, reported, attempts, reinserts>>

\* The other scripts, with an empty cursor and a document of an earlier item
\* still in the variable: the script goes on to insert that document.
QueryNothingCarried ==
  /\ Script.insert = "last"
  /\ pc = "query" /\ i <= Len(list)
  /\ Match(list[i]) = {}
  /\ Carried # NoDoc
  /\ new' = Carried
  /\ reinserts' = reinserts + 1
  /\ pc' = "insert"
  /\ UNCHANGED <<src, gd, list, i, pending, reported, attempts>>

\* Mutant: `continue' without reading the next line of the list.
QueryNothingAgain ==
  /\ Script.insert = "last"
  /\ pc = "query" /\ i <= Len(list)
  /\ Match(list[i]) = {}
  /\ Carried = NoDoc
  /\ new' = NoDoc
  /\ UNCHANGED <<src, gd, pc, list, i, pending, reported, attempts, reinserts>>

\* The other scripts, with an empty cursor and the variable unset.
QueryNothing ==
  /\ Script.insert = "last"
  /\ pc = "query" /\ i <= Len(list)
  /\ Match(list[i]) = {}
  /\ Carried = NoDoc
  /\ new' = NoDoc
  /\ IF Script.onNull = "delete"
       THEN pc' = "delete" /\ i' = i
       ELSE pc' = "query" /\ i' = i + 1
  /\ UNCHANGED <<src, gd, list, pending, reported, attempts, reinserts>>

\* The item is looked up.
Query == IF Script.insert = "each" THEN QueryEach
         ELSE QueryLast \/ QueryNothingCarried \/ QueryNothing

\* The image the script inserts next.
Inserting == IF Script.insert = "each" THEN {<<d, list[i].leg>> : d \in pending} ELSE {new}

\* Mutant: the insert is sent twice.
InsertTwice(m) ==
  /\ pc = "insert" /\ m \in Inserting
  /\ gd' = [gd EXCEPT ![m] = @ + 2]
  /\ pending' = pending \ {m[1]}
  /\ pc' = IF pending' = {} THEN "delete" ELSE "insert"
  /\ UNCHANGED <<src, list, i, new, reported, attempts, reinserts>>

\* mongoInsert returned 1.
InsertOk(m) ==
  /\ pc = "insert" /\ m \in Inserting
  /\ gd' = [gd EXCEPT ![m] = @ + 1]
  /\ pending' = pending \ {m[1]}
  /\ pc' = IF pending' = {} THEN "delete" ELSE "insert"
  /\ UNCHANGED <<src, list, i, new, reported, attempts, reinserts>>

\* Mutant: the count mongoInsert returned is not looked at.
InsertUnchecked(m) ==
  /\ pc = "insert" /\ m \in Inserting
  /\ pc' = "delete"
  /\ UNCHANGED <<src, gd, list, i, new, pending, reported, attempts, reinserts>>

\* Mutant: an item whose insert returned 0 is tried again.
InsertRetried(m) ==
  /\ pc = "insert" /\ m \in Inserting
  /\ pc' = "query"
  /\ UNCHANGED <<src, gd, list, i, new, pending, reported, attempts, reinserts>>

\* mongoInsert returned a count other than 1: nothing was written.
InsertZero(m) ==
  /\ pc = "insert" /\ m \in Inserting
  /\ IF list[i].leg \in Script.tolerant
       THEN pc' = "delete" /\ reported' = reported \cup {m[1]}
       ELSE pc' = "failed" /\ reported' = reported
  /\ UNCHANGED <<src, gd, list, i, new, pending, attempts, reinserts>>

\* mongoInsert threw BulkWriteException.  With the write concern MAJORITY and
\* its timeout of a second the document may have been written all the same.
InsertThrow(m) ==
  /\ pc = "insert" /\ m \in Inserting
  /\ \E written \in {0, 1} : gd' = [gd EXCEPT ![m] = @ + written]
  /\ pc' = "failed"
  /\ UNCHANGED <<src, list, i, new, pending, reported, attempts, reinserts>>

\* mongoDel returned; a count of 0 is only echoed.
DeleteOk ==
  /\ pc = "delete"
  /\ src' = src \ Match(list[i])
  /\ i' = i + 1
  /\ pc' = "query"
  /\ UNCHANGED <<gd, list, new, pending, reported, attempts, reinserts>>

\* mongoDel threw BulkWriteException, with any part of the matches deleted.
DeleteThrow ==
  /\ pc = "delete"
  /\ \E gone \in SUBSET Match(list[i]) : src' = src \ gone
  /\ pc' = "failed"
  /\ UNCHANGED <<gd, list, i, new, pending, reported, attempts, reinserts>>

\* Mutant: the last item is left out.
FinishOneEarly ==
  /\ pc = "query" /\ i >= Len(list)
  /\ pc' = "done"
  /\ UNCHANGED <<src, gd, list, i, new, pending, reported, attempts, reinserts>>

\* All items of all legs are handled: run() returns.
Finish ==
  /\ pc = "query" /\ i > Len(list)
  /\ pc' = "done"
  /\ UNCHANGED <<src, gd, list, i, new, pending, reported, attempts, reinserts>>

\* The process dies between two steps: it is killed, or a driver exception
\* that is not a BulkWriteException (connection lost) is not caught.
Crash ==
  /\ pc \in Running
  /\ pc' = "crashed"
  /\ UNCHANGED <<src, gd, list, i, new, pending, reported, attempts, reinserts>>

Step ==
  \/ Query
  \/ \E m \in Images : InsertOk(m) \/ InsertZero(m) \/ InsertThrow(m)
  \/ DeleteOk \/ DeleteThrow
  \/ Finish

Next == (\E l \in Lists : Start(l)) \/ Step \/ Crash

Spec == Init /\ [][Next]_vars

\* A started PHP process keeps running until it ends; nothing obliges the
\* operator to start it again.  (tunnelTrans has asked the controllers for its
\* list, which may take for ever, before it starts the loop: see Start.)
FairSpec == Spec /\ WF_vars(Step)
-----------------------------------------------------------------------------
(* Properties *)

TypeOK ==
  /\ src \subseteq Docs
  /\ gd \in [Images -> Nat]
  /\ pc \in Running \cup Ended
  /\ list \in Seq(Items)
  /\ i \in 1 .. Len(list) + 1
  /\ new \in Images \cup {NoDoc}
  /\ pending \subseteq Docs
  /\ reported \subseteq Docs
  /\ attempts \in Nat
  /\ reinserts \in Nat

Moved(d) == \E leg \in Legs : gd[<<d, leg>>] > 0

\* No interleaving of failing inserts, failing deletes, crashes and re-runs
\* loses a document: what has left South is in GD, or its failed insert was
\* reported (only the two South 2 legs of tunnelTrans delete after that).
NoSilentLoss == \A d \in Docs : d \in src \/ Moved(d) \/ d \in reported

Copies(d) == gd[<<d, "BH_S1">>] + gd[<<d, "TD_S1">>] + gd[<<d, "BH_S2">>] + gd[<<d, "TD_S2">>]

\* A document is inserted at most once per run of the script, apart from the
\* inserts of what an earlier item left in `new'.  phyLinkTrans has none of
\* these, so it makes at most one copy per run.
CopiesAccounted == \A d \in Docs : Copies(d) <= attempts + reinserts

\* A run that reaches its end has emptied South of every key it was given,
\* the keys met twice and the keys whose delete count was 0 included.
DoneMeansEmptied ==
  pc = "done" => \A n \in 1 .. Len(list) : Match(list[n]) = {}

\* If every listed document mentions only the sites of the legs that list it,
\* no document in GD mentions a site id of the South, also when it got there
\* as the leftover of an earlier item.
ListsKeepToTheirSites ==
  \A l \in Lists : \A n \in 1 .. Len(l) : \A d \in Docs :
    KeyOf[d] = l[n].key /\ DbOf[d] = Db(l[n].leg)
      => Mentions[d] \cap SouthSites \subseteq DOMAIN SiteMap(l[n].leg)

NoSouthRefInGd ==
  ListsKeepToTheirSites =>
    \A d \in Docs, leg \in Legs :
      gd[<<d, leg>>] > 0 => Rewrite(Mentions[d], leg) \cap SouthSites = {}

\* Once the controllers have answered with the list, every started run comes
\* to an end: the loops over list, cursor and legs make progress on every path,
\* the failing ones included.
AttemptEnds == pc \in Running ~> pc \in Ended

\* The first run over a list in which a node occurs twice leaves one document
\* per node in GD.  phyNodeTrans.php:134 says of the second occurrence that
\* the node may already have been deleted, and that only the delete fails.
OneDocPerNode == attempts <= 1 => \A d \in Docs : Copies(d) <= 1

\* The transfer is a Migration: GD has a document once a copy was inserted.
M == INSTANCE Migration WITH south <- src, merged <- {d \in Docs : Moved(d)}

\* The scripts implement the abstract migration: every step is a copy, a
\* report or a removal of documents GD has, or changes none of the three.
ImplementsMigration == M!Spec
=============================================================================
