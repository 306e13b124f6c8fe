------------------------- MODULE DocTransferProofs -------------------------
(***************************************************************************)
(* Proofs about DocTransfer, for every script, every set of documents and  *)
(* every set of work lists.                                                *)
(***************************************************************************)
EXTENDS DocTransfer, TLAPS

\* What the documents of the current item have gone through, by program
\* counter.  While a script inserts, the documents of the item that are not
\* waiting to be inserted are in GD (phyLinkTrans), or there is none but the
\* one in `new' (the other scripts).  When it deletes, all of them are in GD
\* or reported.
ItemInv ==
  /\ pc \in {"insert", "delete"} => i <= Len(list)
  /\ Script.insert = "last" => pending = {}
  /\ pc = "insert" /\ Script.insert = "each" =>
       /\ pending \subseteq Match(list[i])
       /\ \A d \in Match(list[i]) : d \in pending \/ Moved(d)
  /\ pc = "insert" /\ Script.insert = "last" =>
       /\ new # NoDoc
       /\ \A d \in Match(list[i]) : d = new[1]
  /\ pc = "delete" =>
       \A d \in Match(list[i]) : Moved(d) \/ d \in reported

Inv == TypeOK /\ ItemInv /\ NoSilentLoss

\* Every script inserts each document or the last one, and there is no
\* tolerant leg where documents are inserted one by one.
LEMMA ScriptFacts ==
  /\ Script.insert \in {"each", "last"}
  /\ Script.insert = "each" => Script.tolerant = {}
BY ScriptAssumption DEF Scripts, siteLinkProcess, tunnelTransProcess, phyLinkProcess, phyNodeProcess,
   ochNodeProcess, ochLinkProcess, Legs

\* The images a script can insert are well formed.
LEMMA InsertingImages ==
  ASSUME TypeOK, pc = "insert", ItemInv
  PROVE  /\ Inserting \subseteq Images
         /\ list[i] \in Items
         /\ i \in 1 .. Len(list)
<1>1. i \in 1 .. Len(list)
  BY DEF TypeOK, ItemInv
<1>2. list[i] \in Items
  BY <1>1 DEF TypeOK
<1>3. CASE Script.insert = "each"
  <2>1. list[i].leg \in Legs
    BY <1>2 DEF Items
  <2>2. \A d \in pending : <<d, list[i].leg>> \in Docs \X Legs
    BY <2>1 DEF TypeOK
  <2> QED BY <1>1, <1>2, <1>3, <2>2 DEF Inserting, Images
<1>4. CASE Script.insert = "last"
  BY <1>1, <1>2, <1>4 DEF Inserting, TypeOK, ItemInv
<1> QED BY <1>1, <1>2, <1>3, <1>4, ScriptFacts

\* Type correctness of the transfer loop, with the facts on the current item
\* that it needs.
LEMMA TypeStep ==
  ASSUME TypeOK, ItemInv, [Next]_vars
  PROVE  TypeOK'
<1> USE DataAssumption DEF TypeOK
<1>1. ASSUME NEW l \in Lists, Start(l)
      PROVE  TypeOK'
  BY <1>1 DEF Start, Running, Ended
<1>2. CASE QueryEach
  BY <1>2 DEF QueryEach, Running, Match
<1>3. CASE QueryLast
  <2>1. list[i] \in Items
    BY <1>3 DEF QueryLast
  <2> QED BY <1>3, <2>1 DEF QueryLast, Running, Match, Images, Items
<1>4. CASE QueryNothingCarried
  BY <1>4 DEF QueryNothingCarried, Running, Carried
<1>5. CASE QueryNothing
  BY <1>5 DEF QueryNothing, Running
<1>6. ASSUME NEW m \in Images, InsertOk(m)
      PROVE  TypeOK'
  BY <1>6 DEF InsertOk, Running
<1>7. ASSUME NEW m \in Images, InsertZero(m)
      PROVE  TypeOK'
  BY <1>7 DEF InsertZero, Running, Ended, Images
<1>8. ASSUME NEW m \in Images, InsertThrow(m)
      PROVE  TypeOK'
  BY <1>8 DEF InsertThrow, Ended
<1>9. CASE DeleteOk
  BY <1>9 DEF DeleteOk, Running, ItemInv
<1>10. CASE DeleteThrow
  BY <1>10 DEF DeleteThrow, Ended
<1>11. CASE Finish
  BY <1>11 DEF Finish, Ended
<1>12. CASE Crash
  BY <1>12 DEF Crash, Ended
<1>13. CASE UNCHANGED vars
  BY <1>13 DEF vars
<1> QED
  BY <1>1, <1>2, <1>3, <1>4, <1>5, <1>6, <1>7, <1>8, <1>9, <1>10, <1>11, <1>12, <1>13
     DEF Next, Step, Query

\* GD only grows, so a document that was moved stays moved.
LEMMA MovedStays ==
  ASSUME TypeOK, ItemInv, [Next]_vars, NEW d \in Docs, Moved(d)
  PROVE  Moved(d)'
<1>1. PICK leg \in Legs : gd[<<d, leg>>] > 0
  BY DEF Moved
<1>2. <<d, leg>> \in Images
  BY DEF Images
<1>3. CASE gd' = gd
  BY <1>1, <1>3 DEF Moved
<1>4. ASSUME NEW m \in Images, NEW k \in {0, 1}, gd' = [gd EXCEPT ![m] = @ + k]
      PROVE  Moved(d)'
  <2>1. gd'[<<d, leg>>] > 0
    BY <1>1, <1>2, <1>4 DEF TypeOK
  <2> QED BY <2>1 DEF Moved
<1>5. \/ gd' = gd
      \/ \E m \in Images, k \in {0, 1} : gd' = [gd EXCEPT ![m] = @ + k]
  BY DEF Next, Step, Query, vars, Start, QueryEach, QueryLast, QueryNothingCarried, QueryNothing,
     InsertOk, InsertZero, InsertThrow, DeleteOk, DeleteThrow, Finish, Crash
<1> QED BY <1>3, <1>4, <1>5

\* A successful insert of an image moves its document.
LEMMA InsertMoves ==
  ASSUME TypeOK, NEW m \in Images, InsertOk(m)
  PROVE  Moved(m[1])'
<1>1. PICK d \in Docs, leg \in Legs : m = <<d, leg>>
  BY DEF Images
<1>2. gd'[<<d, leg>>] = gd[<<d, leg>>] + 1
  BY <1>1 DEF InsertOk, TypeOK, Images
<1>3. gd[<<d, leg>>] \in Nat
  BY DEF TypeOK, Images
<1> QED BY <1>1, <1>2, <1>3 DEF Moved

\* Every step keeps what is known of the current item: past the insert, its
\* documents are in GD or reported.
LEMMA ItemStep ==
  ASSUME TypeOK, ItemInv, [Next]_vars
  PROVE  ItemInv'
<1> USE DEF ItemInv
<1> TypeOK'
  BY TypeStep
<1>1. ASSUME NEW l \in Lists, Start(l)
      PROVE  ItemInv'
  BY <1>1 DEF Start
<1>2. CASE QueryEach
  <2>1. Match(list[i])' = Match(list[i])
    BY <1>2 DEF QueryEach, Match
  <2> QED BY <1>2, <2>1 DEF QueryEach
<1>3. CASE QueryLast
  <2>1. Match(list[i])' = Match(list[i]) /\ Match(list[i]) \subseteq Docs
    BY <1>3 DEF QueryLast, Match, TypeOK
  <2>2. PICK d \in Match(list[i]) : new' = <<d, list[i].leg>>
    BY <1>3 DEF QueryLast
  <2>3. \A e \in Match(list[i]) : e = d
    BY <1>3, <2>1, UniqueKeys DEF QueryLast, Match
  <2>4. new' # NoDoc /\ new'[1] = d
    BY <2>2 DEF NoDoc
  <2> QED BY <1>3, <2>1, <2>3, <2>4 DEF QueryLast
<1>4. CASE QueryNothingCarried
  BY <1>4 DEF QueryNothingCarried, Match
<1>5. CASE QueryNothing
  BY <1>5 DEF QueryNothing, Match
<1>6. ASSUME NEW m \in Images, InsertOk(m)
      PROVE  ItemInv'
  <2>1. Match(list[i])' = Match(list[i]) /\ Match(list[i]) \subseteq Docs
    BY <1>6 DEF InsertOk, Match, TypeOK
  <2>2. \A d \in Match(list[i]) : Moved(d) => Moved(d)'
    BY <2>1, <1>6, MovedStays
  <2>3. Moved(m[1])'
    BY <1>6, InsertMoves
  <2>4. CASE Script.insert = "each"
    BY <1>6, <2>1, <2>2, <2>3, <2>4 DEF InsertOk
  <2>5. CASE Script.insert = "last"
    <3>1. m = new
      BY <1>6, <2>5 DEF InsertOk, Inserting
    <3>2. \A d \in Match(list[i]) : Moved(d)'
      BY <1>6, <2>3, <2>5, <3>1 DEF InsertOk
    <3> QED BY <1>6, <2>1, <2>5, <3>1, <3>2 DEF InsertOk
  <2> QED BY <2>4, <2>5, ScriptFacts
<1>7. ASSUME NEW m \in Images, InsertZero(m)
      PROVE  ItemInv'
  <2>1. Match(list[i])' = Match(list[i])
    BY <1>7 DEF InsertZero, Match
  <2>2. CASE list[i].leg \in Script.tolerant
    <3>1. Script.insert = "last" /\ m = new
      BY <1>7, <2>2, ScriptFacts DEF InsertZero, Inserting
    <3> QED BY <1>7, <2>1, <2>2, <3>1 DEF InsertZero
  <2>3. CASE list[i].leg \notin Script.tolerant
    BY <1>7, <2>3 DEF InsertZero
  <2> QED BY <2>2, <2>3
<1>8. ASSUME NEW m \in Images, InsertThrow(m)
      PROVE  ItemInv'
  BY <1>8 DEF InsertThrow
<1>9. CASE DeleteOk
  BY <1>9 DEF DeleteOk
<1>10. CASE DeleteThrow
  BY <1>10 DEF DeleteThrow
<1>11. CASE Finish
  BY <1>11 DEF Finish
<1>12. CASE Crash
  BY <1>12 DEF Crash
<1>13. CASE UNCHANGED vars
  BY <1>13 DEF vars, Match, Moved
<1> QED
  BY <1>1, <1>2, <1>3, <1>4, <1>5, <1>6, <1>7, <1>8, <1>9, <1>10, <1>11, <1>12, <1>13
     DEF Next, Step, Query

\* Only the two deletes take documents from South, and what they take is in
\* GD or reported.
LEMMA LossStep ==
  ASSUME TypeOK, ItemInv, NoSilentLoss, [Next]_vars
  PROVE  NoSilentLoss'
<1> SUFFICES ASSUME NEW d \in Docs
             PROVE  (d \in src \/ Moved(d) \/ d \in reported)'
  BY DEF NoSilentLoss
<1>1. Moved(d) => Moved(d)'
  BY MovedStays
<1>2. reported \subseteq reported'
  BY DEF Next, Step, Query, vars, Start, QueryEach, QueryLast, QueryNothingCarried, QueryNothing,
     InsertOk, InsertZero, InsertThrow, DeleteOk, DeleteThrow, Finish, Crash
<1>3. CASE DeleteOk \/ DeleteThrow
  <2>1. d \in src => d \in src' \/ d \in Match(list[i])
    BY <1>3 DEF DeleteOk, DeleteThrow
  <2>2. d \in Match(list[i]) => Moved(d) \/ d \in reported
    BY <1>3 DEF DeleteOk, DeleteThrow, ItemInv
  <2> QED BY <1>1, <1>2, <2>1, <2>2 DEF NoSilentLoss
<1>4. CASE src' = src
  BY <1>1, <1>2, <1>4 DEF NoSilentLoss
<1> QED
  BY <1>3, <1>4
     DEF Next, Step, Query, vars, Start, QueryEach, QueryLast, QueryNothingCarried, QueryNothing,
         InsertOk, InsertZero, InsertThrow, Finish, Crash

\* The initial states satisfy the inductive invariant.
LEMMA InitInv == Init => Inv
<1> SUFFICES ASSUME Init PROVE Inv
  OBVIOUS
<1>1. TypeOK
  BY DEF Init, TypeOK, Ended, Images
<1>2. ItemInv /\ NoSilentLoss
  BY DEF Init, ItemInv, NoSilentLoss
<1> QED BY <1>1, <1>2 DEF Inv

\* Every step keeps the inductive invariant.
LEMMA NextInv == Inv /\ [Next]_vars => Inv'
  BY TypeStep, ItemStep, LossStep DEF Inv

\* The inductive invariant of the transfer loop holds throughout.
THEOREM Invariance == Spec => []Inv
<1> QED BY InitInv, NextInv, PTL DEF Spec

\* TypeOK holds in every state of every script.
THEOREM TypeCorrect == Spec => []TypeOK
<1>1. Inv => TypeOK
  BY DEF Inv
<1> QED BY Invariance, <1>1, PTL

\* NoSilentLoss for every script, every data set and any number of crashes,
\* failed inserts, failed deletes and re-runs.
THEOREM TransferLosesNothing == Spec => []NoSilentLoss
<1>1. Inv => NoSilentLoss
  BY DEF Inv
<1> QED BY Invariance, <1>1, PTL
-----------------------------------------------------------------------------
(* A finished run has emptied South of its list *)

EmptiedInv ==
  pc \in Running \cup {"done"} => \A n \in 1 .. (i - 1) : Match(list[n]) = {}

\* Every step keeps South empty of the keys of the items already handled.
LEMMA EmptiedStep ==
  ASSUME TypeOK, ItemInv, EmptiedInv, [Next]_vars
  PROVE  EmptiedInv'
<1> TypeOK'
  BY TypeStep
<1> SUFFICES ASSUME (pc \in Running \cup {"done"})', NEW n \in 1 .. (i' - 1)
             PROVE  Match(list[n])' = {}
  BY DEF EmptiedInv
<1>1. ASSUME NEW l \in Lists, Start(l)
      PROVE  FALSE
  BY <1>1 DEF Start
<1>2. CASE QueryNothing
  <2>1. Match(list[n])' = Match(list[n])
    BY <1>2 DEF QueryNothing, Match
  <2>2. n = i \/ n \in 1 .. (i - 1)
    <3>1. i' = i \/ i' = i + 1
      BY <1>2 DEF QueryNothing
    <3>2. i \in Nat /\ i' \in Nat
      BY DEF TypeOK
    <3>3. CASE i' = i
      BY <3>3
    <3>4. CASE i' = i + 1
      BY <3>2, <3>4
    <3> QED BY <3>1, <3>3, <3>4
  <2> QED BY <1>2, <2>1, <2>2 DEF QueryNothing, EmptiedInv, Running
<1>3. CASE DeleteOk
  <2>1. Match(list[n])' = Match(list[n]) \ Match(list[i])
    BY <1>3 DEF DeleteOk, Match
  <2>2. n = i \/ n \in 1 .. (i - 1)
    BY <1>3 DEF DeleteOk, TypeOK
  <2> QED BY <1>3, <2>1, <2>2 DEF DeleteOk, EmptiedInv, Running
<1>4. CASE /\ UNCHANGED <<src, list, i>>
           /\ pc \in Running \cup {"done"}
  <2>1. Match(list[n])' = Match(list[n])
    BY <1>4 DEF Match
  <2> QED BY <1>4, <2>1 DEF EmptiedInv
<1>5. CASE DeleteThrow \/ Crash
  BY <1>5 DEF DeleteThrow, Crash, Running
<1> QED
  BY <1>1, <1>2, <1>3, <1>4, <1>5
     DEF Next, Step, Query, vars, QueryEach, QueryLast, QueryNothingCarried,
         InsertOk, InsertZero, InsertThrow, Finish, Running

\* i runs past the list before Finish, so EmptiedInv covers the whole list.
FinishedInv == pc = "done" => i = Len(list) + 1

\* A run ends as done only with its index past the list.
LEMMA FinishedStep ==
  ASSUME TypeOK, FinishedInv, [Next]_vars
  PROVE  FinishedInv'
BY DEF TypeOK, FinishedInv, Next, Step, Query, vars, Start, QueryEach, QueryLast,
   QueryNothingCarried, QueryNothing, InsertOk, InsertZero, InsertThrow, DeleteOk,
   DeleteThrow, Finish, Crash

\* DoneMeansEmptied: a run that reaches its end has left no listed document
\* in South.
THEOREM FinishedRunsEmptySouth == Spec => []DoneMeansEmptied
<1>1. Init => EmptiedInv /\ FinishedInv
  BY DEF Init, EmptiedInv, FinishedInv, Running
<1>2. Inv /\ EmptiedInv /\ FinishedInv /\ [Next]_vars => EmptiedInv' /\ FinishedInv'
  BY EmptiedStep, FinishedStep DEF Inv
<1>3. Inv /\ EmptiedInv /\ FinishedInv => DoneMeansEmptied
  BY DEF Inv, TypeOK, EmptiedInv, FinishedInv, DoneMeansEmptied
<1> QED BY <1>1, <1>2, <1>3, Invariance, PTL DEF Spec
-----------------------------------------------------------------------------
(* Copies in GD *)

\* While a run goes on, a document whose turn has not come has at most one
\* copy per earlier run; so has the document that is about to be inserted.
\* A leftover about to be inserted was counted when it was found.
CopiesInv ==
  /\ CopiesAccounted
  /\ pc \in Running =>
       \A d \in src : (pc # "query" => d \notin Match(list[i]))
                        => Copies(d) + 1 <= attempts + reinserts
  /\ pc = "insert" =>
       \A m \in Inserting : Copies(m[1]) + 1 <= attempts + reinserts
  /\ pc = "insert" /\ Script.insert = "last" =>
       \/ new[1] \in Match(list[i])
       \/ \A d \in src : Copies(d) + 2 <= attempts + reinserts

\* The number of copies of a document is a natural number.
LEMMA CopiesType ==
  ASSUME TypeOK, NEW d \in Docs
  PROVE  Copies(d) \in Nat
<1>1. \A leg \in Legs : gd[<<d, leg>>] \in Nat
  BY DEF TypeOK, Images
<1> QED BY <1>1 DEF Copies, Legs

\* An insert adds one copy of its document and none of another.
LEMMA CopiesInsert ==
  ASSUME TypeOK, NEW m \in Images, NEW k \in {0, 1}, gd' = [gd EXCEPT ![m] = @ + k],
         NEW d \in Docs
  PROVE  Copies(d)' = IF d = m[1] THEN Copies(d) + k ELSE Copies(d)
<1>1. PICK e \in Docs, l \in Legs : m = <<e, l>>
  BY DEF Images
<1>2. \A leg \in Legs : gd[<<d, leg>>] \in Nat
  BY DEF TypeOK, Images
<1>3. \A leg \in Legs :
        gd'[<<d, leg>>] = IF <<d, leg>> = m THEN gd[<<d, leg>>] + k ELSE gd[<<d, leg>>]
  BY DEF TypeOK, Images
<1>4. CASE d = e
  BY <1>1, <1>2, <1>3, <1>4 DEF Copies, Legs
<1>5. CASE d # e
  BY <1>1, <1>3, <1>5 DEF Copies, Legs
<1> QED BY <1>1, <1>4, <1>5

\* Every step keeps the copies within the runs and leftover inserts, with the
\* room that an item not yet inserted needs.
LEMMA CopiesStep ==
  ASSUME TypeOK, ItemInv, CopiesInv, [Next]_vars
  PROVE  CopiesInv'
<1> TypeOK' /\ ItemInv'
  BY TypeStep, ItemStep
<1> DEFINE N == attempts + reinserts
<1>0. N \in Nat /\ \A d \in Docs : Copies(d) \in Nat
  <2>1. N \in Nat
    BY DEF TypeOK
  <2>2. \A d \in Docs : Copies(d) \in Nat
    BY CopiesType
  <2> QED BY <2>1, <2>2
<1>1. ASSUME NEW l \in Lists, Start(l)
      PROVE  CopiesInv'
  <2>1. \A d \in Docs : Copies(d)' = Copies(d)
    BY <1>1 DEF Start, Copies
  <2>2. N' = N + 1
    BY <1>1 DEF Start, TypeOK
  <2>3. src' = src /\ pc' = "query" /\ src \subseteq Docs
    BY <1>1 DEF Start, TypeOK
  <2>4. \A d \in Docs : Copies(d)' + 1 <= N'
    BY <1>0, <2>1, <2>2 DEF CopiesInv, CopiesAccounted
  <2>5. CopiesAccounted'
    BY <1>0, <2>1, <2>2 DEF CopiesInv, CopiesAccounted
  <2> QED BY <2>3, <2>4, <2>5 DEF CopiesInv
<1>2. CASE QueryEach
  <2>1. \A d \in Docs : Copies(d)' = Copies(d)
    BY <1>2 DEF QueryEach, Copies
  <2>2. N' = N /\ src' = src /\ Match(list[i])' = Match(list[i])
    BY <1>2 DEF QueryEach, Match
  <2>3. \A m \in Inserting' : m[1] \in Match(list[i])
    BY <1>2 DEF QueryEach, Inserting
  <2> QED BY <1>2, <2>1, <2>2, <2>3
          DEF QueryEach, CopiesInv, CopiesAccounted, TypeOK, Running, Match
<1>3. CASE QueryLast
  <2>1. \A d \in Docs : Copies(d)' = Copies(d)
    BY <1>3 DEF QueryLast, Copies
  <2>2. N' = N /\ src' = src /\ Match(list[i])' = Match(list[i])
    BY <1>3 DEF QueryLast, Match
  <2>3. \A m \in Inserting' : m[1] \in Match(list[i])
    BY <1>3 DEF QueryLast, Inserting
  <2> QED BY <1>3, <2>1, <2>2, <2>3
          DEF QueryLast, CopiesInv, CopiesAccounted, TypeOK, Running, Match
<1>4. CASE QueryNothingCarried
  <2>1. \A d \in Docs : Copies(d)' = Copies(d)
    BY <1>4 DEF QueryNothingCarried, Copies
  <2>2. N' = N + 1 /\ src' = src
    BY <1>4 DEF QueryNothingCarried, TypeOK
  <2>3. \A m \in Inserting' : m[1] \in Docs
    <3>1. Inserting' \subseteq Images
      BY <1>4, InsertingImages DEF QueryNothingCarried, Inserting, ItemInv, TypeOK
    <3> QED BY <3>1 DEF Images
  <2> QED BY <1>0, <1>4, <2>1, <2>2, <2>3
          DEF QueryNothingCarried, CopiesInv, CopiesAccounted, TypeOK, Running
<1>5. CASE QueryNothing
  <2>1. \A d \in Docs : Copies(d)' = Copies(d)
    BY <1>5 DEF QueryNothing, Copies
  <2>2. N' = N /\ src' = src /\ pc' \in {"query", "delete"}
    BY <1>5 DEF QueryNothing
  <2> QED BY <1>5, <2>1, <2>2 DEF QueryNothing, CopiesInv, CopiesAccounted, TypeOK, Running
<1>6. ASSUME NEW m \in Images, InsertOk(m)
      PROVE  CopiesInv'
  <2>1. \A d \in Docs : Copies(d)' = IF d = m[1] THEN Copies(d) + 1 ELSE Copies(d)
    BY <1>6, CopiesInsert DEF InsertOk
  <2>2. N' = N /\ src' = src /\ Match(list[i])' = Match(list[i])
    BY <1>6 DEF InsertOk, Match
  <2>3. m[1] \in Docs /\ Copies(m[1]) + 1 <= N
    BY <1>6 DEF InsertOk, CopiesInv, Images
  <2>4. CopiesAccounted'
    BY <2>1, <2>2, <2>3 DEF CopiesInv, CopiesAccounted
  <2>5. pc' = "insert" => Script.insert = "each"
    BY <1>6, ScriptFacts DEF InsertOk, ItemInv
  <2>6. pc' \in {"insert", "delete"}
    BY <1>6 DEF InsertOk
  <2>7. ASSUME NEW d \in src, d \notin Match(list[i])
        PROVE  Copies(d)' + 1 <= N
    <3>1. d \in Docs /\ Copies(d) + 1 <= N
      BY <1>6, <2>7 DEF InsertOk, CopiesInv, Running, TypeOK
    <3>2. CASE d # m[1]
      BY <2>1, <3>1, <3>2
    <3>3. CASE d = m[1]
      <4>1. Script.insert = "last" /\ m = new
        BY <1>6, <2>7, <3>3, ScriptFacts DEF InsertOk, Inserting, ItemInv
      <4>2. Copies(d) + 2 <= N
        BY <1>6, <2>7, <3>3, <4>1 DEF InsertOk, CopiesInv
      <4> QED BY <1>0, <2>1, <3>1, <3>3, <4>2
    <3> QED BY <3>2, <3>3
  <2>8. ASSUME pc' = "insert", NEW x \in Inserting'
        PROVE  Copies(x[1])' + 1 <= N
    <3>1. PICK d \in pending : x = <<d, list[i].leg>> /\ d # m[1]
      BY <1>6, <2>5, <2>8 DEF InsertOk, Inserting
    <3>2. <<d, list[i].leg>> \in Inserting
      BY <2>5, <2>8 DEF Inserting
    <3>3. Copies(d) + 1 <= N
      BY <1>6, <3>2 DEF InsertOk, CopiesInv
    <3> QED BY <2>1, <3>1, <3>3 DEF TypeOK
  <2> QED BY <2>2, <2>4, <2>5, <2>6, <2>7, <2>8 DEF CopiesInv, Running
<1>7. ASSUME NEW m \in Images, InsertZero(m)
      PROVE  CopiesInv'
  <2>1. \A d \in Docs : Copies(d)' = Copies(d)
    BY <1>7 DEF InsertZero, Copies
  <2>2. N' = N /\ src' = src /\ Match(list[i])' = Match(list[i]) /\ pc' \in {"delete", "failed"}
    BY <1>7 DEF InsertZero, Match
  <2> QED BY <1>7, <2>1, <2>2 DEF InsertZero, CopiesInv, CopiesAccounted, TypeOK, Running
<1>8. ASSUME NEW m \in Images, InsertThrow(m)
      PROVE  CopiesInv'
  <2>1. PICK k \in {0, 1} : gd' = [gd EXCEPT ![m] = @ + k]
    BY <1>8 DEF InsertThrow
  <2>2. \A d \in Docs : Copies(d)' = IF d = m[1] THEN Copies(d) + k ELSE Copies(d)
    BY <2>1, CopiesInsert
  <2>3. N' = N /\ m[1] \in Docs /\ Copies(m[1]) + 1 <= N
    BY <1>8 DEF InsertThrow, CopiesInv, Images
  <2>4. CopiesAccounted'
    BY <1>0, <2>1, <2>2, <2>3 DEF CopiesInv, CopiesAccounted
  <2> QED BY <1>8, <2>4 DEF InsertThrow, CopiesInv, Running
<1>9. CASE DeleteOk
  <2>1. \A d \in Docs : Copies(d)' = Copies(d)
    BY <1>9 DEF DeleteOk, Copies
  <2>2. N' = N /\ \A d \in src' : d \in src /\ d \notin Match(list[i])
    BY <1>9 DEF DeleteOk
  <2> QED BY <1>9, <2>1, <2>2 DEF DeleteOk, CopiesInv, CopiesAccounted, TypeOK, Running
<1>10. CASE DeleteThrow \/ Finish \/ Crash
  <2>1. \A d \in Docs : Copies(d)' = Copies(d)
    BY <1>10 DEF DeleteThrow, Finish, Crash, Copies
  <2>2. N' = N /\ pc' \in Ended
    BY <1>10 DEF DeleteThrow, Finish, Crash, Ended
  <2> QED BY <2>1, <2>2 DEF CopiesInv, CopiesAccounted, Running, Ended
<1>11. CASE UNCHANGED vars
  BY <1>11 DEF vars, CopiesInv, CopiesAccounted, Copies, Match, Inserting
<1> QED
  BY <1>1, <1>2, <1>3, <1>4, <1>5, <1>6, <1>7, <1>8, <1>9, <1>10, <1>11 DEF Next, Step, Query

\* CopiesAccounted: at most one copy per run, plus one per leftover insert.
THEOREM CopiesBounded == Spec => []CopiesAccounted
<1>1. Init => CopiesInv
  BY DEF Init, CopiesInv, CopiesAccounted, Copies, Images, Legs, Running
<1>2. Inv /\ CopiesInv /\ [Next]_vars => CopiesInv'
  BY CopiesStep DEF Inv
<1>3. CopiesInv => CopiesAccounted
  BY DEF CopiesInv
<1> QED BY <1>1, <1>2, <1>3, Invariance, PTL DEF Spec
-----------------------------------------------------------------------------
(* No site id of the South in GD *)

\* A list names the document on the leg.
Listed(d, leg) ==
  \E l \in Lists : \E n \in 1 .. Len(l) :
    l[n].key = KeyOf[d] /\ Db(l[n].leg) = DbOf[d] /\ l[n].leg = leg

\* A document is in GD, or about to be, only as rewritten on a leg that lists
\* it: what an earlier item left in `new' keeps the leg of that item.
LegInv ==
  /\ list \in Lists \cup {<<>>}
  /\ \A d \in Docs, leg \in Legs : gd[<<d, leg>>] > 0 => Listed(d, leg)
  /\ \A d \in Docs, leg \in Legs : new = <<d, leg>> => Listed(d, leg)

\* The documents the filter of an item matches are listed on its leg.
LEMMA MatchListed ==
  ASSUME TypeOK, LegInv, i \in 1 .. Len(list), NEW d \in Match(list[i])
  PROVE  Listed(d, list[i].leg)
<1>1. list \in Lists
  BY DEF LegInv
<1>2. KeyOf[d] = list[i].key /\ DbOf[d] = Db(list[i].leg)
  BY DEF Match
<1> QED BY <1>1, <1>2 DEF Listed

\* The images a script inserts are listed.
LEMMA InsertingListed ==
  ASSUME TypeOK, ItemInv, LegInv, pc = "insert", NEW d \in Docs, NEW leg \in Legs,
         <<d, leg>> \in Inserting
  PROVE  Listed(d, leg)
<1>1. CASE Script.insert = "each"
  <2>1. leg = list[i].leg /\ d \in pending
    BY <1>1 DEF Inserting
  <2>2. d \in Match(list[i])
    BY <1>1, <2>1 DEF ItemInv
  <2> QED BY <2>1, <2>2, InsertingImages, MatchListed
<1>2. CASE Script.insert = "last"
  BY <1>2 DEF Inserting, LegInv
<1> QED BY <1>1, <1>2, ScriptFacts

\* An insert, whether it counts or not, keeps the legs.
LEMMA InsertKeepsLegs ==
  ASSUME TypeOK, ItemInv, LegInv, pc = "insert", NEW m \in Images, m \in Inserting,
         NEW k \in {0, 1}, gd' = [gd EXCEPT ![m] = @ + k], UNCHANGED <<list, new>>
  PROVE  LegInv'
<1>1. PICK e \in Docs, l \in Legs : m = <<e, l>>
  BY DEF Images
<1>2. Listed(e, l)
  BY <1>1, InsertingListed
<1>3. \A d \in Docs, leg \in Legs : gd'[<<d, leg>>] > 0 => gd[<<d, leg>>] > 0 \/ (d = e /\ leg = l)
  BY <1>1 DEF TypeOK, Images
<1> QED BY <1>2, <1>3 DEF LegInv, Listed

\* Every step keeps the legs.
LEMMA LegStep ==
  ASSUME TypeOK, ItemInv, LegInv, [Next]_vars
  PROVE  LegInv'
<1>1. ASSUME NEW l \in Lists, Start(l)
      PROVE  LegInv'
  <2>1. list' \in Lists /\ new' = NoDoc /\ gd' = gd
    BY <1>1 DEF Start
  <2>2. \A d \in Docs, leg \in Legs : new' # <<d, leg>>
    BY <2>1 DEF NoDoc
  <2> QED BY <2>1, <2>2 DEF LegInv, Listed
<1>2. CASE QueryLast
  <2>1. i \in 1 .. Len(list) /\ gd' = gd /\ list' = list
    BY <1>2 DEF QueryLast, TypeOK
  <2>2. PICK e \in Match(list[i]) : new' = <<e, list[i].leg>>
    BY <1>2 DEF QueryLast
  <2>3. Listed(e, list[i].leg)
    BY <2>1, MatchListed
  <2> QED BY <2>1, <2>2, <2>3 DEF LegInv, Listed
<1>3. CASE UNCHANGED <<gd, list>> /\ new' \in {new, NoDoc}
  <2>1. \A d \in Docs, leg \in Legs : <<d, leg>> # NoDoc
    BY DEF NoDoc
  <2> QED BY <1>3, <2>1 DEF LegInv, Listed
<1>4. CASE QueryNothingCarried
  BY <1>3, <1>4 DEF QueryNothingCarried, Carried
<1>5. ASSUME NEW m \in Images, InsertOk(m)
      PROVE  LegInv'
  BY <1>5, InsertKeepsLegs DEF InsertOk
<1>6. ASSUME NEW m \in Images, InsertThrow(m)
      PROVE  LegInv'
  <2>1. PICK k \in {0, 1} : gd' = [gd EXCEPT ![m] = @ + k]
    BY <1>6 DEF InsertThrow
  <2> QED BY <1>6, <2>1, InsertKeepsLegs DEF InsertThrow
<1>7. ASSUME NEW m \in Images, InsertZero(m)
      PROVE  LegInv'
  BY <1>3, <1>7 DEF InsertZero
<1>8. CASE QueryEach \/ QueryNothing \/ DeleteOk \/ DeleteThrow \/ Finish \/ Crash
  BY <1>3, <1>8 DEF QueryEach, QueryNothing, DeleteOk, DeleteThrow, Finish, Crash
<1>9. CASE UNCHANGED vars
  BY <1>3, <1>9 DEF vars
<1> QED
  BY <1>1, <1>2, <1>4, <1>5, <1>6, <1>7, <1>8, <1>9 DEF Next, Step, Query

\* The two str_replace calls of a leg leave none of its site ids, and put in none.
LEMMA RewriteClears ==
  ASSUME NEW sites, NEW leg \in Legs, sites \cap SouthSites \subseteq DOMAIN SiteMap(leg)
  PROVE  Rewrite(sites, leg) \cap SouthSites = {}
<1> SUFFICES ASSUME NEW s \in sites,
                    (IF s \in DOMAIN SiteMap(leg) THEN SiteMap(leg)[s] ELSE s) \in SouthSites
             PROVE  FALSE
  BY DEF Rewrite
<1>1. s \in DOMAIN SiteMap(leg)
  OBVIOUS
<1>2. \A t \in DOMAIN SiteMap(leg) : SiteMap(leg)[t] \in {"GdEb", "GdTd", "GdDso"}
  BY DEF SiteMap, Legs
<1> QED BY <1>1, <1>2 DEF SouthSites

\* NoSouthRefInGd: where the lists keep to the sites of their legs, no document
\* in GD mentions a South site id, the leftovers inserted again included.
THEOREM RefsRewritten == Spec => []NoSouthRefInGd
<1>1. Init => LegInv
  BY DEF Init, LegInv, Images, NoDoc
<1>2. Inv /\ LegInv /\ [Next]_vars => LegInv'
  BY LegStep DEF Inv
<1>3. LegInv => NoSouthRefInGd
  <2> SUFFICES ASSUME LegInv, ListsKeepToTheirSites, NEW d \in Docs, NEW leg \in Legs,
                      gd[<<d, leg>>] > 0
               PROVE  Rewrite(Mentions[d], leg) \cap SouthSites = {}
    BY DEF NoSouthRefInGd
  <2>1. Listed(d, leg)
    BY DEF LegInv
  <2>2. Mentions[d] \cap SouthSites \subseteq DOMAIN SiteMap(leg)
    BY <2>1 DEF Listed, ListsKeepToTheirSites
  <2> QED BY <2>2, RewriteClears
<1> QED BY <1>1, <1>2, <1>3, Invariance, PTL DEF Spec
-----------------------------------------------------------------------------
(* Refinement of Migration *)

Merged == {d \in Docs : Moved(d)}

\* The initial states are initial states of the migration.
LEMMA RefinementInit == Init => M!Init
<1> SUFFICES ASSUME Init PROVE M!Init
  OBVIOUS
<1>1. \A d \in Docs, leg \in Legs : gd[<<d, leg>>] = 0
  BY DEF Init, Images
<1>2. ASSUME NEW d \in Docs, Moved(d)
      PROVE  FALSE
  <2>1. PICK leg \in Legs : gd[<<d, leg>>] > 0
    BY <1>2 DEF Moved
  <2>2. gd[<<d, leg>>] = 0
    BY <1>1
  <2> QED BY <2>1, <2>2
<1> QED BY <1>2 DEF Init, M!Init

\* One more copy of m's document: an abstract Copy, or nothing new.
LEMMA RefinementCopy ==
  ASSUME TypeOK, NoSilentLoss, NEW m \in Images, NEW k \in {0, 1},
         gd' = [gd EXCEPT ![m] = @ + k], UNCHANGED <<src, reported>>
  PROVE  [M!Next]_<<src, Merged, reported>>
<1>1. PICK e \in Docs, l \in Legs : m = <<e, l>>
  BY DEF Images
<1>2. \A d \in Docs, leg \in Legs :
        /\ gd[<<d, leg>>] \in Nat
        /\ gd'[<<d, leg>>] = IF <<d, leg>> = m THEN gd[<<d, leg>>] + k ELSE gd[<<d, leg>>]
  BY DEF TypeOK, Images
<1>3. \A d \in Docs : d # e => (Moved(d)' <=> Moved(d))
  BY <1>1, <1>2 DEF Moved
<1>4. Moved(e) => Moved(e)'
  BY <1>1, <1>2 DEF Moved
<1>5. CASE Moved(e)' <=> Moved(e)
  <2>1. Merged' = Merged
    BY <1>3, <1>5 DEF Merged
  <2> QED BY <2>1
<1>6. CASE Moved(e)' /\ ~Moved(e)
  <2>1. Merged' = Merged \cup {e}
    BY <1>3, <1>6 DEF Merged
  <2>2. e \in src \cup reported
    BY <1>6 DEF NoSilentLoss
  <2>3. M!Copy(e)
    BY <2>1, <2>2 DEF M!Copy, Merged
  <2> QED BY <2>3 DEF M!Next
<1> QED BY <1>4, <1>5, <1>6

\* Every step is a step of the migration, or changes nothing it sees.
LEMMA RefinementStep ==
  Inv /\ [Next]_vars => [M!Next]_<<src, Merged, reported>>
<1> SUFFICES ASSUME TypeOK, ItemInv, NoSilentLoss, [Next]_vars
             PROVE  [M!Next]_<<src, Merged, reported>>
  BY DEF Inv
<1>1. CASE UNCHANGED <<src, gd, reported>>
  BY <1>1 DEF Merged, Moved
<1>2. ASSUME NEW m \in Images, InsertOk(m) \/ InsertThrow(m)
      PROVE  [M!Next]_<<src, Merged, reported>>
  <2>1. PICK k \in {0, 1} : gd' = [gd EXCEPT ![m] = @ + k]
    BY <1>2 DEF InsertOk, InsertThrow
  <2> QED BY <1>2, <2>1, RefinementCopy DEF InsertOk, InsertThrow
<1>3. ASSUME NEW m \in Images, InsertZero(m)
      PROVE  [M!Next]_<<src, Merged, reported>>
  <2>1. Merged' = Merged /\ src' = src
    BY <1>3 DEF InsertZero, Merged, Moved
  <2>2. CASE reported' = reported
    BY <2>1, <2>2
  <2>3. CASE reported' = reported \cup {m[1]}
    <3>1. m[1] \in Docs
      BY DEF Images
    <3>2. M!Report(m[1])
      BY <2>1, <2>3 DEF M!Report, Merged
    <3> QED BY <3>1, <3>2 DEF M!Next
  <2> QED BY <1>3, <2>2, <2>3 DEF InsertZero
<1>4. CASE DeleteOk \/ DeleteThrow
  <2>1. Merged' = Merged /\ reported' = reported
    BY <1>4 DEF DeleteOk, DeleteThrow, Merged, Moved
  <2>2. PICK gone \in SUBSET Match(list[i]) : src' = src \ gone
    BY <1>4 DEF DeleteOk, DeleteThrow
  <2>3. gone \subseteq Docs /\ gone \subseteq Merged \cup reported
    BY <1>4, <2>2 DEF DeleteOk, DeleteThrow, ItemInv, Match, TypeOK, Merged
  <2>4. M!Drop(gone)
    BY <2>1, <2>2, <2>3 DEF M!Drop, Merged
  <2> QED BY <2>3, <2>4 DEF M!Next
<1> QED
  BY <1>1, <1>2, <1>3, <1>4
     DEF Next, Step, Query, vars, Start, QueryEach, QueryLast, QueryNothingCarried, QueryNothing,
         Finish, Crash

\* ImplementsMigration: every script implements the abstract migration.
THEOREM TransferImplementsMigration == Spec => ImplementsMigration
<1> QED BY RefinementInit, RefinementStep, Invariance, PTL
        DEF Spec, ImplementsMigration, M!Spec, Merged
=============================================================================
