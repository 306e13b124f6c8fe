------------------------- MODULE AmThresholdProofs -------------------------
(***************************************************************************)
(* Proofs about AmThreshold for any number of runs.  OneThresholdDoc is    *)
(* not inductive: that a run inserts only when the link has no document,   *)
(* and that no two runs are about to insert, must be carried along.        *)
(***************************************************************************)
EXTENDS AmThreshold, TLAPS

\* Where the lock is: a document in the database excludes a run about to
\* insert, and there is at most one such run.
LockInv ==
  /\ OneThresholdDoc
  /\ \A r \in Runs : pc[r] = "insert" => db = {}
  /\ \A r, s \in Runs : pc[r] = "insert" /\ pc[s] = "insert" => r = s

\* What intval returns is a number.
LEMMA IntvalType == \A t \in Texts : intval(t) \in Nat
<1>1. SUFFICES ASSUME NEW t \in Texts PROVE intval(t) \in Nat
  OBVIOUS
<1>2. CASE t = <<>>
  BY <1>2 DEF intval
<1>3. CASE t = <<"word">>
  BY <1>3 DEF intval
<1>4. CASE \E n \in Numbers : t = <<"number", n>>
  BY <1>4, RunAssumption DEF intval
<1>5. QED
  BY <1>2, <1>3, <1>4 DEF Texts

\* What a document keeps for a direction is a threshold or null.
LEMMA KeptType ==
  \A doc \in ThresholdDocs, d \in Directions : Kept(doc, d) \in Nat \cup {Null}
<1>1. SUFFICES ASSUME NEW doc \in ThresholdDocs, NEW d \in Directions
               PROVE  Kept(doc, d) \in Nat \cup {Null}
  OBVIOUS
<1>2. doc.thresholds \in Seq(Entries)
  BY DEF ThresholdDocs
<1>3. CASE Len(doc.thresholds) >= 2
  <2>1. doc.thresholds[2] \in Entries
    BY <1>2, <1>3
  <2>2. QED
    BY <2>1, <1>3 DEF Kept, Entries
<1>4. QED
  BY <1>2, <1>3 DEF Kept

\* The document a run inserts is a threshold document.
LEMMA NewThresholdType ==
  ASSUME TypeOK, NEW r \in Runs
  PROVE  NewThreshold(r) \in ThresholdDocs
<1>1. /\ dir[r] \in Directions
      /\ value[r] \in Nat
      /\ other[r] \in Nat \cup {Null}
  BY DEF TypeOK
<1> DEFINE e == [d \in Directions |-> IF d = dir[r] THEN value[r] ELSE other[r]]
<1>2. e \in Entries
  BY <1>1 DEF Entries
<1> HIDE DEF e
<1>3. [n \in 1 .. 10 |-> e] \in Seq(Entries)
  BY <1>2
<1>4. QED
  BY <1>3 DEF NewThreshold, ThresholdDocs, e

\* Every step keeps the types.
LEMMA TypeStep == TypeOK /\ [Next]_vars => TypeOK'
<1> SUFFICES ASSUME TypeOK, [Next]_vars PROVE TypeOK'
  OBVIOUS
<1>1. ASSUME NEW r \in Runs, Input(r) PROVE TypeOK'
  <2>1. PICK linkId \in {"", "link"}, pos \in Texts, rev \in Texts :
          /\ dir' = [dir EXCEPT ![r] = IF pos # <<>> THEN "positive" ELSE "reverse"]
          /\ value' = [value EXCEPT ![r] = intval(IF pos # <<>> THEN pos ELSE rev)]
          /\ pc' = [pc EXCEPT ![r] = IF linkId = "" THEN "exit"
                                     ELSE IF pos = <<>> /\ rev = <<>> THEN "done" ELSE "query"]
    BY <1>1 DEF Input
  <2>2. intval(IF pos # <<>> THEN pos ELSE rev) \in Nat
    BY IntvalType
  <2>3. value' \in [Runs -> Nat]
    BY <2>1, <2>2 DEF TypeOK
  <2>4. dir' \in [Runs -> Directions]
    BY <2>1 DEF TypeOK, Directions
  <2>5. QED
    BY <1>1, <2>1, <2>3, <2>4 DEF TypeOK, Input
<1>2. ASSUME NEW r \in Runs, Query(r) PROVE TypeOK'
  <2>1. PICK kept \in IF db = {} THEN {Null} ELSE {Kept(doc, Opposite(dir[r])) : doc \in db} :
          other' = [other EXCEPT ![r] = kept]
    BY <1>2 DEF Query
  <2>2. Opposite(dir[r]) \in Directions
    BY DEF Opposite, Directions
  <2>3. kept \in Nat \cup {Null}
    BY <2>1, <2>2, KeptType DEF TypeOK
  <2>4. other' \in [Runs -> Nat \cup {Null}]
    BY <2>1, <2>3 DEF TypeOK
  <2>5. excuse' \subseteq {"overlap", "short"}
    BY <1>2 DEF Query, TypeOK
  <2>6. QED
    BY <1>2, <2>4, <2>5 DEF Query, TypeOK
<1>3. ASSUME NEW r \in Runs, Delete(r) PROVE TypeOK'
  BY <1>3 DEF Delete, TypeOK
<1>4. ASSUME NEW r \in Runs, InsertOk(r) PROVE TypeOK'
  BY <1>4, NewThresholdType DEF InsertOk, TypeOK
<1>5. ASSUME NEW r \in Runs, InsertZero(r) PROVE TypeOK'
  BY <1>5 DEF InsertZero, TypeOK
<1>6. ASSUME NEW r \in Runs, Die(r) PROVE TypeOK'
  <2>1. db' \subseteq ThresholdDocs
    BY <1>6, NewThresholdType DEF Die, TypeOK
  <2>2. QED
    BY <1>6, <2>1 DEF Die, TypeOK
<1>7. CASE UNCHANGED vars
  BY <1>7 DEF TypeOK, vars
<1>8. QED
  BY <1>1, <1>2, <1>3, <1>4, <1>5, <1>6, <1>7 DEF Next

\* The initial states have the types, and one document.
LEMMA InitOK == Init => TypeOK /\ LockInv
<1> SUFFICES ASSUME Init PROVE TypeOK /\ LockInv
  OBVIOUS
<1>1. PICK doc \in InitDocs : db = {doc}
  BY DEF Init
<1>2. doc \in ThresholdDocs
  BY RunAssumption DEF ThresholdDocs
<1>3. TypeOK
  BY <1>1, <1>2 DEF Init, TypeOK, Directions
<1>4. LockInv
  BY <1>1 DEF Init, LockInv, OneThresholdDoc
<1>5. QED
  BY <1>3, <1>4

\* Every step keeps the lock: only Delete makes a run an inserter, and only
\* if there is a document, hence no inserter yet.
LEMMA LockStep == TypeOK /\ LockInv /\ [Next]_vars => LockInv'
<1> SUFFICES ASSUME TypeOK, LockInv, [Next]_vars PROVE LockInv'
  OBVIOUS
<1> USE DEF TypeOK, LockInv, OneThresholdDoc
<1>1. ASSUME NEW r \in Runs, Input(r) PROVE LockInv'
  BY <1>1 DEF Input
<1>2. ASSUME NEW r \in Runs, Query(r) PROVE LockInv'
  BY <1>2 DEF Query
<1>3. ASSUME NEW r \in Runs, Delete(r) PROVE LockInv'
  BY <1>3 DEF Delete
<1>4. ASSUME NEW r \in Runs, InsertOk(r) PROVE LockInv'
  BY <1>4 DEF InsertOk
<1>5. ASSUME NEW r \in Runs, InsertZero(r) PROVE LockInv'
  BY <1>5 DEF InsertZero
<1>6. ASSUME NEW r \in Runs, Die(r) PROVE LockInv'
  BY <1>6 DEF Die
<1>7. CASE UNCHANGED vars
  BY <1>7 DEF vars
<1>8. QED
  BY <1>1, <1>2, <1>3, <1>4, <1>5, <1>6, <1>7 DEF Next

\* However many runs of amDeadLock overlap, the variables keep their types.
THEOREM TypeCorrect == Spec => []TypeOK
<1>1. Init => TypeOK
  BY InitOK
<1>2. QED
  BY <1>1, TypeStep, PTL DEF Spec

\* However many runs of amDeadLock overlap, fail or die, the link never has
\* two threshold documents.
THEOREM ThresholdDocUnique == Spec => []OneThresholdDoc
<1>1. Init => TypeOK /\ LockInv
  BY InitOK
<1>2. TypeOK /\ LockInv /\ [Next]_vars => TypeOK' /\ LockInv'
  BY TypeStep, LockStep
<1>3. LockInv => OneThresholdDoc
  BY DEF LockInv
<1>4. QED
  BY <1>1, <1>2, <1>3, PTL DEF Spec

\* Overlapping runs of amDeadLock lose the document only through a failed
\* insert or a run that died.
THEOREM LossAccounted == Spec => []LossNeedsFailure
<1>1. Init => LossNeedsFailure
  BY DEF Init, LossNeedsFailure
<1>2. TypeOK /\ LossNeedsFailure /\ [Next]_vars => LossNeedsFailure'
  <2> SUFFICES ASSUME TypeOK, LossNeedsFailure, [Next]_vars PROVE LossNeedsFailure'
    OBVIOUS
  <2> USE DEF TypeOK, LossNeedsFailure
  <2>1. ASSUME NEW r \in Runs, Input(r) PROVE LossNeedsFailure'
    BY <2>1 DEF Input
  <2>2. ASSUME NEW r \in Runs, Query(r) PROVE LossNeedsFailure'
    BY <2>2 DEF Query
  <2>3. ASSUME NEW r \in Runs, Delete(r) PROVE LossNeedsFailure'
    BY <2>3 DEF Delete
  <2>4. ASSUME NEW r \in Runs, InsertOk(r) PROVE LossNeedsFailure'
    BY <2>4 DEF InsertOk
  <2>5. ASSUME NEW r \in Runs, InsertZero(r) PROVE LossNeedsFailure'
    BY <2>5 DEF InsertZero
  <2>6. ASSUME NEW r \in Runs, Die(r) PROVE LossNeedsFailure'
    BY <2>6 DEF Die
  <2>7. CASE UNCHANGED vars
    BY <2>7 DEF vars
  <2>8. QED
    BY <2>1, <2>2, <2>3, <2>4, <2>5, <2>6, <2>7 DEF Next
<1>3. QED
  BY <1>1, <1>2, TypeCorrect, PTL DEF Spec

-----------------------------------------------------------------------------
\* Where runs did not overlap, one at most is between its read and its insert,
\* and what it read is what the link still has.
ReadInv ==
  "overlap" \notin excuse =>
    /\ \A r, s \in Runs : pc[r] \in {"delete", "insert"} /\ pc[s] \in {"delete", "insert"} => r = s
    /\ \A r \in Runs : pc[r] = "delete" =>
         db = {} \/ \E doc \in db : other[r] = Kept(doc, Opposite(dir[r]))

\* A step changes the database only if the run is at its delete or insert.
LEMMA ReadStep == TypeOK /\ ReadInv /\ [Next]_vars => ReadInv'
<1> SUFFICES ASSUME TypeOK, ReadInv, [Next]_vars, "overlap" \notin excuse' PROVE ReadInv'
  BY DEF ReadInv
<1> USE DEF TypeOK, ReadInv
<1>1. ASSUME NEW r \in Runs, Input(r) PROVE ReadInv'
  <2>1. /\ \A s \in Runs : s # r => pc'[s] = pc[s] /\ dir'[s] = dir[s]
        /\ pc'[r] \notin {"delete", "insert"}
        /\ UNCHANGED <<db, other, excuse>>
    BY <1>1 DEF Input
  <2>2. \A s \in Runs : pc'[s] \in {"delete", "insert"} => s # r /\ pc'[s] = pc[s] /\ dir'[s] = dir[s]
    BY <2>1
  <2> QED BY <2>1, <2>2
<1>2. ASSUME NEW r \in Runs, Query(r) PROVE ReadInv'
  <2>1. /\ pc[r] = "query" /\ pc' = [pc EXCEPT ![r] = "delete"]
        /\ ~ Overlapping(r) /\ "overlap" \notin excuse
        /\ UNCHANGED <<db, dir, value>>
    BY <1>2 DEF Query
  <2>2. \A s \in Runs : s # r => pc[s] \notin {"delete", "insert"} /\ pc'[s] = pc[s]
    BY <2>1 DEF Overlapping
  <2>3. PICK kept \in IF db = {} THEN {Null} ELSE {Kept(doc, Opposite(dir[r])) : doc \in db} :
          other' = [other EXCEPT ![r] = kept]
    BY <1>2 DEF Query
  <2>4. db = {} \/ \E doc \in db : other'[r] = Kept(doc, Opposite(dir[r]))
    BY <2>3
  <2> QED BY <2>1, <2>2, <2>4
<1>3. ASSUME NEW r \in Runs, Delete(r) PROVE ReadInv'
  BY <1>3 DEF Delete
<1>4. ASSUME NEW r \in Runs, InsertOk(r) PROVE ReadInv'
  BY <1>4 DEF InsertOk
<1>5. ASSUME NEW r \in Runs, InsertZero(r) PROVE ReadInv'
  BY <1>5 DEF InsertZero
<1>6. ASSUME NEW r \in Runs, Die(r) PROVE ReadInv'
  BY <1>6 DEF Die
<1>7. CASE UNCHANGED vars
  BY <1>7 DEF vars
<1>8. QED
  BY <1>1, <1>2, <1>3, <1>4, <1>5, <1>6, <1>7 DEF Next

\* Runs that never read while another was at work delete the document they
\* read the opposite direction from: no update is lost without an overlap.
THEOREM DeletesRead == Spec => DeletesWhatItRead
<1>1. Init => ReadInv
  BY DEF Init, ReadInv
<1>2. TypeOK /\ ReadInv /\ [Next]_vars =>
        [\A r \in Runs : pc[r] = "delete" /\ pc'[r] = "insert" /\ "overlap" \notin excuse
           => \E doc \in db : other[r] = Kept(doc, Opposite(dir[r]))]_vars
  <2> SUFFICES ASSUME TypeOK, ReadInv, [Next]_vars, NEW r \in Runs,
                      pc[r] = "delete", pc'[r] = "insert", "overlap" \notin excuse
               PROVE  \E doc \in db : other[r] = Kept(doc, Opposite(dir[r]))
    OBVIOUS
  <2>1. db # {}
    BY DEF TypeOK, Next, vars, Input, Query, Delete, InsertOk, InsertZero, Die
  <2>2. QED
    BY <2>1 DEF ReadInv
<1>3. QED
  BY <1>1, <1>2, ReadStep, TypeCorrect, PTL DEF Spec, DeletesWhatItRead

-----------------------------------------------------------------------------
\* The document the link has at the start holds numbers.
NumbersAtStart ==
  \A doc \in InitDocs : \A n \in DOMAIN doc.thresholds, d \in Directions :
    doc.thresholds[n][d] # Null

\* Without an excuse, documents hold numbers, and so does what was read of one.
NumberInv ==
  excuse = {} =>
    /\ \A doc \in db : \A n \in DOMAIN doc.thresholds, d \in Directions :
         doc.thresholds[n][d] # Null
    /\ \A r \in Runs : pc[r] = "insert" \/ (pc[r] = "delete" /\ db # {}) => other[r] # Null

\* The document a run inserts holds numbers, if what it read was one.
LEMMA NewThresholdNumbers ==
  ASSUME TypeOK, NEW r \in Runs, other[r] # Null
  PROVE  \A n \in DOMAIN NewThreshold(r).thresholds, d \in Directions :
           NewThreshold(r).thresholds[n][d] # Null
<1>1. value[r] # Null
  BY RunAssumption DEF TypeOK
<1>2. QED
  BY <1>1 DEF NewThreshold

\* Every step keeps the numbers.
LEMMA NumberStep == TypeOK /\ LockInv /\ ReadInv /\ NumberInv /\ [Next]_vars => NumberInv'
<1> SUFFICES ASSUME TypeOK, LockInv, ReadInv, NumberInv, [Next]_vars, excuse' = {} PROVE NumberInv'
  BY DEF NumberInv
<1> USE DEF TypeOK, NumberInv
<1>1. ASSUME NEW r \in Runs, Input(r) PROVE NumberInv'
  <2>1. /\ \A s \in Runs : s # r => pc'[s] = pc[s]
        /\ pc'[r] \notin {"delete", "insert"}
        /\ UNCHANGED <<db, other, excuse>>
    BY <1>1 DEF Input
  <2> QED BY <2>1
<1>2. ASSUME NEW r \in Runs, Query(r) PROVE NumberInv'
  <2>1. /\ excuse = {} /\ db' = db
        /\ pc' = [pc EXCEPT ![r] = "delete"]
        /\ \A doc \in db : ~ (Len(doc.thresholds) < 2)
    BY <1>2 DEF Query
  <2>2. PICK kept \in IF db = {} THEN {Null} ELSE {Kept(doc, Opposite(dir[r])) : doc \in db} :
          other' = [other EXCEPT ![r] = kept]
    BY <1>2 DEF Query
  <2>3. ASSUME db # {} PROVE other'[r] # Null
    <3>1. PICK doc \in db : other'[r] = Kept(doc, Opposite(dir[r]))
      BY <2>2, <2>3
    <3>2. doc.thresholds \in Seq(Entries)
      BY DEF ThresholdDocs
    <3>3. Len(doc.thresholds) >= 2 /\ 2 \in DOMAIN doc.thresholds
      BY <2>1, <3>2
    <3>4. Opposite(dir[r]) \in Directions
      BY DEF Opposite, Directions
    <3> QED BY <2>1, <3>1, <3>3, <3>4 DEF Kept
  <2>4. \A s \in Runs : s # r => pc'[s] = pc[s] /\ other'[s] = other[s]
    BY <2>1, <2>2
  <2> QED BY <2>1, <2>3, <2>4
<1>3. ASSUME NEW r \in Runs, Delete(r) PROVE NumberInv'
  BY <1>3 DEF Delete
<1>4. ASSUME NEW r \in Runs, InsertOk(r) PROVE NumberInv'
  <2>1. /\ excuse = {} /\ pc[r] = "insert" /\ other[r] # Null
        /\ db' = db \cup {NewThreshold(r)} /\ other' = other
        /\ pc' = [pc EXCEPT ![r] = "done"]
    BY <1>4 DEF InsertOk
  <2>2. \A s \in Runs : pc'[s] \notin {"delete", "insert"}
    BY <2>1 DEF ReadInv
  <2> QED BY <2>1, <2>2, NewThresholdNumbers
<1>5. ASSUME NEW r \in Runs, InsertZero(r) PROVE NumberInv'
  BY <1>5 DEF InsertZero
<1>6. ASSUME NEW r \in Runs, Die(r) PROVE NumberInv'
  <2>1. CASE pc[r] = "insert"
    <3>1. /\ excuse = {} /\ other[r] # Null /\ other' = other
          /\ pc' = [pc EXCEPT ![r] = "dead"]
          /\ db' \in {db, db \cup {NewThreshold(r)}}
      BY <1>6, <2>1 DEF Die
    <3>2. \A s \in Runs : pc'[s] \notin {"delete", "insert"}
      BY <2>1, <3>1 DEF ReadInv
    <3> QED BY <3>1, <3>2, NewThresholdNumbers
  <2>2. CASE pc[r] # "insert"
    BY <1>6, <2>2 DEF Die
  <2> QED BY <2>1, <2>2
<1>7. CASE UNCHANGED vars
  BY <1>7 DEF vars
<1>8. QED
  BY <1>1, <1>2, <1>3, <1>4, <1>5, <1>6, <1>7 DEF Next

\* If the document at the start held numbers, a run of amDeadLock writes a null
\* threshold only if that document was too short or runs overlapped.
THEOREM NullAccounted ==
  ASSUME NumbersAtStart
  PROVE  Spec => []NullNeedsExcuse
<1>1. Init => TypeOK /\ LockInv /\ ReadInv /\ NumberInv
  <2>1. Init => ReadInv /\ NumberInv
    BY DEF Init, ReadInv, NumberInv, NumbersAtStart
  <2>2. QED BY <2>1, InitOK
<1>2. TypeOK /\ LockInv /\ ReadInv /\ NumberInv /\ [Next]_vars
        => TypeOK' /\ LockInv' /\ ReadInv' /\ NumberInv'
  BY TypeStep, LockStep, ReadStep, NumberStep
<1>3. NumberInv => NullNeedsExcuse
  BY DEF NumberInv, NullNeedsExcuse
<1>4. QED
  BY <1>1, <1>2, <1>3, PTL DEF Spec
=============================================================================
