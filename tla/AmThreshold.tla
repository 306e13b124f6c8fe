---------------------------- MODULE AmThreshold ----------------------------
(***************************************************************************)
(* am/amDeadLock.php: operators give one direction of an optical link a    *)
(* new attenuation threshold.  The link's threshold document is read, it   *)
(* is deleted, and a new one is inserted, without a transaction; the other *)
(* direction keeps the value that was read.  Several operators may run the *)
(* script at once.  One link is modelled: runs for other links touch other *)
(* documents.                                                              *)
(***************************************************************************)
EXTENDS Naturals, Sequences

CONSTANTS
  Runs,      \* the runs of the script, each by some operator
  Numbers,   \* the numbers an operator may enter
  InitDocs,  \* the documents the link may have at the start
  Null

VARIABLES
  db,      \* the link's documents in toop_am.threshold
  pc,      \* pc[r]: where run r is
  dir,     \* dir[r]: the direction run r sets
  value,   \* value[r]: the threshold it sets there
  other,   \* other[r]: what it read for the opposite direction
  excuse   \* history: why a null threshold may have been read

vars == <<db, pc, dir, value, other, excuse>>

Directions == {"positive", "reverse"}

Opposite(d) == IF d = "positive" THEN "reverse" ELSE "positive"

\* What can be typed at a prompt: nothing, a word, or a number.
Texts == {<<>>, <<"word">>} \cup {<<"number", n>> : n \in Numbers}

\* PHP's intval: the number, and 0 for a word.
intval(t) == IF Len(t) = 2 THEN t[2] ELSE 0

Entries == [Directions -> Nat \cup {Null}]

\* A document: the run that inserted it (Null: none of them) and its list.
ThresholdDocs == [by : Runs \cup {Null}, thresholds : Seq(Entries)]

ASSUME RunAssumption ==
  /\ Null \notin Runs \cup Nat
  /\ Numbers \subseteq Nat
  /\ InitDocs \subseteq [by : {Null}, thresholds : Seq(Entries)]

\* Mutant: the loop stops one index earlier.
KeptThird(doc, d) == IF Len(doc.thresholds) >= 3 THEN doc.thresholds[3][d] ELSE Null

\* The loop runs from the last index down to 1, so the entry left is number 1
\* (the second one), and none if the list has fewer than two.
Kept(doc, d) == IF Len(doc.thresholds) >= 2 THEN doc.thresholds[2][d] ELSE Null

Init ==
  /\ \E doc \in InitDocs : db = {doc}
  /\ pc = [r \in Runs |-> "input"]
  /\ dir = [r \in Runs |-> "positive"]
  /\ value = [r \in Runs |-> 0]
  /\ other = [r \in Runs |-> Null]
  /\ excuse = {}

\* The prompts.  An empty link id ends the run.  A threshold A-Z wins: one
\* for Z-A typed as well is overwritten by what the database has.
Input(r) ==
  /\ pc[r] = "input"
  /\ \E linkId \in {"", "link"}, pos, rev \in Texts :
       /\ dir' = [dir EXCEPT ![r] = IF pos # <<>> THEN "positive" ELSE "reverse"]
       /\ value' = [value EXCEPT ![r] = intval(IF pos # <<>> THEN pos ELSE rev)]
       /\ pc' = [pc EXCEPT ![r] = IF linkId = "" THEN "exit"
                                  ELSE IF pos = <<>> /\ rev = <<>> THEN "done" ELSE "query"]
  /\ UNCHANGED <<db, other, excuse>>

Overlapping(r) == \E s \in Runs \ {r} : pc[s] \in {"delete", "insert"}

\* Mutant: the value of the direction to be set is read.
QueryWrongDirection(r) ==
  /\ pc[r] = "query"
  /\ \E kept \in IF db = {} THEN {Null} ELSE {Kept(doc, dir[r]) : doc \in db} :
       other' = [other EXCEPT ![r] = kept]
  /\ excuse' = excuse \cup (IF Overlapping(r) THEN {"overlap"} ELSE {})
                      \cup (IF \E doc \in db : Len(doc.thresholds) < 2 THEN {"short"} ELSE {})
  /\ pc' = [pc EXCEPT ![r] = "delete"]
  /\ UNCHANGED <<db, dir, value>>

\* The document is read; without one, $thresholdInfoNew is null.
Query(r) ==
  /\ pc[r] = "query"
  /\ \E kept \in IF db = {} THEN {Null} ELSE {Kept(doc, Opposite(dir[r])) : doc \in db} :
       other' = [other EXCEPT ![r] = kept]
  /\ excuse' = excuse \cup (IF Overlapping(r) THEN {"overlap"} ELSE {})
                      \cup (IF \E doc \in db : Len(doc.thresholds) < 2 THEN {"short"} ELSE {})
  /\ pc' = [pc EXCEPT ![r] = "delete"]
  /\ UNCHANGED <<db, dir, value>>

\* Mutant: the run goes on when nothing was deleted.
DeleteUnchecked(r) ==
  /\ pc[r] = "delete"
  /\ db' = {}
  /\ pc' = [pc EXCEPT ![r] = "insert"]
  /\ UNCHANGED <<dir, value, other, excuse>>

\* Every document of the link is deleted; a count of 0 ends the run.
Delete(r) ==
  /\ pc[r] = "delete"
  /\ db' = {}
  /\ pc' = [pc EXCEPT ![r] = IF db = {} THEN "exit" ELSE "insert"]
  /\ UNCHANGED <<dir, value, other, excuse>>

\* The new document: ten times the same entry.
NewThreshold(r) ==
  [by |-> r,
   thresholds |-> [n \in 1 .. 10 |-> [d \in Directions |-> IF d = dir[r] THEN value[r] ELSE other[r]]]]

InsertOk(r) ==
  /\ pc[r] = "insert"
  /\ db' = db \cup {NewThreshold(r)}
  /\ pc' = [pc EXCEPT ![r] = "done"]
  /\ UNCHANGED <<dir, value, other, excuse>>

\* Mutant: a failed insert ends the run as a successful one does.
InsertZeroUnnoticed(r) ==
  /\ pc[r] = "insert"
  /\ pc' = [pc EXCEPT ![r] = "done"]
  /\ UNCHANGED <<db, dir, value, other, excuse>>

\* A count other than 1 is written to the log.
InsertZero(r) ==
  /\ pc[r] = "insert"
  /\ pc' = [pc EXCEPT ![r] = "failed"]
  /\ UNCHANGED <<db, dir, value, other, excuse>>

\* The run dies: it is killed, or a driver exception, none of which is
\* caught, is thrown before the database did its work or after.
Die(r) ==
  /\ pc[r] \in {"input", "query", "delete", "insert"}
  /\ db' \in {db} \cup (IF pc[r] = "delete" THEN {{}} ELSE {})
                  \cup (IF pc[r] = "insert" THEN {db \cup {NewThreshold(r)}} ELSE {})
  /\ pc' = [pc EXCEPT ![r] = "dead"]
  /\ UNCHANGED <<dir, value, other, excuse>>

Next ==
  \E r \in Runs : Input(r) \/ Query(r) \/ Delete(r) \/ InsertOk(r) \/ InsertZero(r) \/ Die(r)

Spec == Init /\ [][Next]_vars
-----------------------------------------------------------------------------
(* Properties *)

TypeOK ==
  /\ db \subseteq ThresholdDocs
  /\ pc \in [Runs -> {"input", "query", "delete", "insert", "done", "exit", "failed", "dead"}]
  /\ dir \in [Runs -> Directions]
  /\ value \in [Runs -> Nat]
  /\ other \in [Runs -> Nat \cup {Null}]
  /\ excuse \subseteq {"overlap", "short"}

\* Runs that overlap, fail and die never leave the link with two documents:
\* only a run whose delete removed the document inserts one, so the delete
\* count serves as a lock.
OneThresholdDoc == \A d, e \in db : d = e

\* Overlapping runs do not lose the document between them: if it is missing,
\* a run is about to insert it, or one failed or died.
LossNeedsFailure == db = {} => \E r \in Runs : pc[r] \in {"insert", "failed", "dead"}

\* If no run ever read while another was between its read and its insert,
\* the document a run deletes is the one its value for the opposite direction
\* was read from.
DeletesWhatItRead ==
  [][\A r \in Runs : pc[r] = "delete" /\ pc'[r] = "insert" /\ "overlap" \notin excuse
       => \E doc \in db : other[r] = Kept(doc, Opposite(dir[r]))]_vars

\* A threshold is null only if the document had fewer than two entries at the
\* start, or if runs overlapped (one read between another's delete and insert).
NullNeedsExcuse ==
  excuse = {} => \A doc \in db : doc.by # Null =>
    \A n \in DOMAIN doc.thresholds, d \in Directions : doc.thresholds[n][d] # Null
=============================================================================
