------------------------- MODULE NeCollectorProofs -------------------------
(***************************************************************************)
(* Proofs about NeCollector, for answers of any length and any number of   *)
(* runs and deaths.  The argument is about the loop of the script that is  *)
(* running: it is through with the elements before its index, and has not  *)
(* touched the ones behind it.                                             *)
(***************************************************************************)
EXTENDS NeCollector, TLAPS

InLoop == pc \in {"node", "connect", "insert"}

\* Where the script is in its answer.
LoopInv ==
  /\ answers = [s \in Positions |-> answers[s]]
  /\ \A s \in Positions : \A k \in DOMAIN answers[s] : answers[s][k].ne.no = k
  /\ pc # "idle" => script \in Positions /\ runs >= 1
  /\ InLoop => i \in 1 .. Len(answers[script]) + 1
  /\ pc \in {"connect", "insert"} => i <= Len(answers[script])

\* The rows of this run are of scripts that were started, and those of the
\* script that is running are of elements before its index.
RowInv ==
  \A k \in DOMAIN table :
    /\ table[k].run <= runs
    /\ \A s \in Positions : table[k].run = runs /\ table[k].ne.region = RunAll[s].region =>
         s <= script /\ (s = script => pc # "query" /\ (InLoop => table[k].ne.no < i))

\* The variables hold values of elements the script has come to.
ValuesInv ==
  InLoop => \A p \in Properties :
    \/ values[p] = Nothing
    \/ /\ values[p].region = RunAll[script].region
       /\ values[p].no < i \/ (pc # "node" /\ values[p].no = i)

\* The element has a row of this run, or is in the log.
Handled(e) == Stored(e, runs) \/ [ne |-> e, run |-> runs] \in failedLog

HandledInv ==
  /\ CollectedOrLogged
  /\ InLoop => \A k \in DOMAIN answers[script] :
       k < i /\ answers[script][k].implemented => Handled(answers[script][k].ne)

CollectorInv ==
  /\ TypeOK /\ LoopInv /\ RowInv /\ ValuesInv /\ HandledInv
  /\ OneRowPerRun /\ CarriedWithinRegion

-----------------------------------------------------------------------------
(* The scripts and their elements *)

\* Each script has a region of its own.
LEMMA Regions ==
  /\ Positions = 1 .. 6
  /\ Len(RunAll) = 6
  /\ \A s, t \in Positions : RunAll[s].region = RunAll[t].region => s = t
<1> USE DEF RunAll, getNe4South1, getNe4South2, computeOpTreeNeInfoNoth1,
            computeOpTreeNeInfoNoth2, getNeForEast1, getNeForEast2
<1>1. Positions = 1 .. 6 /\ Len(RunAll) = 6
  BY DEF Positions
<1>2. /\ RunAll[1].region = "South1" /\ RunAll[2].region = "South2"
      /\ RunAll[3].region = "North1" /\ RunAll[4].region = "North2"
      /\ RunAll[5].region = "East1" /\ RunAll[6].region = "East2"
  OBVIOUS
<1>3. \A s \in Positions : s = 1 \/ s = 2 \/ s = 3 \/ s = 4 \/ s = 5 \/ s = 6
  BY <1>1
<1> HIDE DEF RunAll
<1> QED BY <1>1, <1>2, <1>3

\* An answer is a sequence of elements of the region, numbered in order.
LEMMA AnswerTypes ==
  ASSUME TypeOK, NEW s \in Positions, NEW a \in Answers(s)
  PROVE  /\ a \in Seq(Nodes(s)) /\ Len(a) \in 0 .. MaxListed - listed
         /\ \A k \in DOMAIN a : a[k].ne.no = k
<1>1. MaxListed - listed \in Nat
  BY ConstantsAssumption DEF TypeOK
<1>2. PICK n \in 0 .. MaxListed - listed : a \in [1 .. n -> Nodes(s)]
  BY DEF Answers
<1>3. a \in Seq(Nodes(s)) /\ Len(a) = n
  BY <1>1, <1>2
<1> QED BY <1>2, <1>3 DEF Answers

\* The element a script is at is one of its region, with the loop's number.
LEMMA NodeFacts ==
  ASSUME TypeOK, LoopInv, InLoop, i <= Len(answers[script])
  PROVE  /\ script \in Positions /\ runs \in 1 .. MaxRuns /\ i \in Nat
         /\ i \in DOMAIN answers[script]
         /\ Node.ne \in Elements /\ Node.ne.no = i
         /\ Node.ne.region = RunAll[script].region
         /\ Node.has \subseteq Properties
<1>1. /\ script \in Positions /\ runs \in 1 .. MaxRuns
      /\ i \in 1 .. Len(answers[script]) + 1
  BY ConstantsAssumption DEF TypeOK, LoopInv, InLoop
<1>2. answers[script] \in Seq(Nodes(script))
  BY <1>1 DEF TypeOK
<1>3. i \in DOMAIN answers[script] /\ Node \in Nodes(script)
  BY <1>1, <1>2 DEF Node
<1>4. /\ Node.ne \in Elements /\ Node.ne.region = RunAll[script].region
      /\ Node.has \in PropertySets
  BY <1>3 DEF Nodes
<1>5. Node.ne.no = i
  BY <1>1, <1>3 DEF LoopInv, Node
<1> QED BY <1>1, <1>3, <1>4, <1>5, ConstantsAssumption

RowType == [ne : Elements, values : [Properties -> Elements \cup {Nothing}], run : 1 .. MaxRuns]

\* The table only grows, by the row of the element being inserted.
LEMMA TableStep ==
  ASSUME TypeOK, LoopInv, [Next]_vars
  PROVE  \/ table' = table
         \/ /\ pc = "insert" /\ script \in Positions
            /\ Row \in RowType /\ Row.ne.region = RunAll[script].region /\ Row.ne.no = i
            /\ Row.run = runs /\ Row.values = values /\ Row.ne = Node.ne /\ runs' = runs
            /\ table' = Append(table, Row)
            /\ DOMAIN table' = DOMAIN table \cup {Len(table) + 1}
            /\ \A k \in DOMAIN table : table'[k] = table[k] /\ k < Len(table) + 1
            /\ table'[Len(table) + 1] = Row
<1>1. \/ table' = table
      \/ pc = "insert" /\ table' = Append(table, Row) /\ runs' = runs
  BY DEF Next, Step, vars, counters, process, Start, Query, Skip, Collect, End, Connect, InsertOk,
         InsertFails, NextScript, Die, DbChanges
<1>2. CASE pc = "insert" /\ table' = Append(table, Row) /\ runs' = runs
  <2>1. InLoop /\ i <= Len(answers[script])
    BY <1>2 DEF InLoop, LoopInv
  <2>2. Row \in RowType
    BY <2>1, NodeFacts DEF Row, RowType, TypeOK
  <2>3. /\ Row.ne.region = RunAll[script].region /\ Row.ne.no = i
        /\ Row.run = runs /\ Row.values = values /\ script \in Positions /\ Row.ne = Node.ne
    BY <2>1, NodeFacts DEF Row
  <2>4. table \in Seq(RowType)
    BY DEF TypeOK, RowType
  <2>5. /\ DOMAIN table' = DOMAIN table \cup {Len(table) + 1}
        /\ \A k \in DOMAIN table : table'[k] = table[k] /\ k < Len(table) + 1
        /\ table'[Len(table) + 1] = Row
    BY <1>2, <2>2, <2>4
  <2> QED BY <1>2, <2>2, <2>3, <2>5
<1> QED BY <1>1, <1>2

\* Every step keeps the types and the loop.
LEMMA LoopStep ==
  ASSUME TypeOK, LoopInv, [Next]_vars
  PROVE  (TypeOK /\ LoopInv)'
<1>1. table' \in Seq(RowType)
  <2>1. table \in Seq(RowType)
    BY DEF TypeOK, RowType
  <2> QED BY <2>1, TableStep
<1>2. /\ Positions = 1 .. 6 /\ Len(RunAll) = 6
      /\ MaxListed \in Nat /\ MaxRuns \in Nat /\ MaxDeaths \in Nat
  BY Regions, ConstantsAssumption
<1>3. \A s \in Positions : <<>> \in Seq(Nodes(s)) /\ Len(<<>>) = 0 /\ DOMAIN <<>> = {}
  OBVIOUS
<1>4. CASE Start
  <2>1. /\ runs' \in 1 .. MaxRuns /\ pc' = "query" /\ script' = 1 /\ died' = {}
        /\ UNCHANGED <<i, values, table, failedLog, dbUp, deaths, listed>>
    BY <1>2, <1>4 DEF Start, TypeOK
  <2>2. answers' = [s \in Positions |-> <<>>]
    BY <1>4 DEF Start
  <2>3. TypeOK'
    BY <1>2, <1>3, <2>1, <2>2 DEF TypeOK
  <2>4. LoopInv'
    BY <1>2, <1>3, <2>1, <2>2 DEF LoopInv, InLoop
  <2> QED BY <2>3, <2>4
<1>5. CASE NextScript
  <2>1. /\ script' \in Positions /\ pc' \in {"query", "idle"} /\ runs >= 1
        /\ UNCHANGED <<answers, i, values, table, failedLog, dbUp, died, runs, deaths, listed>>
    BY <1>2, <1>5 DEF NextScript, LoopInv, counters
  <2> QED BY <2>1 DEF TypeOK, LoopInv, InLoop
<1>6. CASE Query
  <2>1. PICK a \in Answers(script) : answers' = [answers EXCEPT ![script] = a] /\ listed' = listed + Len(a)
    BY <1>6 DEF Query
  <2>2. /\ script \in Positions /\ runs >= 1 /\ pc = "query"
        /\ values' = Unset /\ i' = 1 /\ pc' = "node"
        /\ UNCHANGED <<script, table, failedLog, dbUp, died, runs, deaths>>
    BY <1>6 DEF Query, LoopInv
  <2>3. /\ a \in Seq(Nodes(script)) /\ Len(a) \in 0 .. MaxListed - listed
        /\ \A k \in DOMAIN a : a[k].ne.no = k
    BY <2>2, AnswerTypes
  <2>4. listed' \in 0 .. MaxListed /\ Len(a) <= MaxListed /\ Len(a) \in Nat
    BY <1>2, <2>1, <2>3 DEF TypeOK
  <2>5. /\ answers' = [s \in Positions |-> answers'[s]]
        /\ answers'[script] = a
        /\ \A s \in Positions : s # script => answers'[s] = answers[s]
    BY <2>1, <2>2 DEF LoopInv
  <2>6. values' \in [Properties -> Elements \cup {Nothing}]
    BY <2>2 DEF Unset
  <2>7. \A s \in Positions : answers'[s] \in Seq(Nodes(s)) /\ Len(answers'[s]) <= MaxListed
    BY <2>3, <2>4, <2>5 DEF TypeOK
  <2>8. TypeOK'
    <3>1. i' \in 0 .. MaxListed + 1
      BY <1>2, <2>2
    <3> QED BY <2>2, <2>4, <2>6, <2>7, <3>1 DEF TypeOK
  <2>9. LoopInv'
    BY <2>2, <2>3, <2>4, <2>5 DEF LoopInv, InLoop
  <2> QED BY <2>8, <2>9
<1>7. CASE Collect
  <2>1. /\ pc = "node" /\ InLoop /\ i <= Len(answers[script]) /\ pc' = "connect"
        /\ UNCHANGED <<script, answers, i, table, failedLog, dbUp, died, runs, deaths, listed>>
    BY <1>7 DEF Collect, Listing, InLoop, counters
  <2>2. values' \in [Properties -> Elements \cup {Nothing}]
    BY <1>7, <2>1, NodeFacts DEF Collect, TypeOK
  <2>3. TypeOK'
    BY <2>1, <2>2 DEF TypeOK
  <2>4. LoopInv'
    BY <2>1 DEF LoopInv, InLoop
  <2> QED BY <2>3, <2>4
<1>8. CASE Skip \/ InsertOk \/ InsertFails
  <2>1. /\ InLoop /\ i <= Len(answers[script])
        /\ i' = i + 1 /\ pc' = "node"
        /\ UNCHANGED <<script, answers, values, dbUp, died, runs, deaths, listed>>
    BY <1>8 DEF Skip, InsertOk, InsertFails, Listing, InLoop, LoopInv, counters
  <2>2. failedLog' \subseteq failedLog \cup {[ne |-> Node.ne, run |-> runs]}
    BY <1>8 DEF Skip, InsertOk, InsertFails
  <2>3. [ne |-> Node.ne, run |-> runs] \in [ne : Elements, run : 1 .. MaxRuns]
    BY <2>1, NodeFacts
  <2>4. /\ script \in Positions /\ i \in Nat /\ Len(answers[script]) \in Nat
        /\ Len(answers[script]) <= MaxListed
    BY <2>1, NodeFacts DEF TypeOK
  <2>5. TypeOK'
    <3>1. i' \in 0 .. MaxListed + 1
      BY <1>2, <2>1, <2>4
    <3>2. failedLog' \subseteq [ne : Elements, run : 1 .. MaxRuns]
      BY <2>2, <2>3 DEF TypeOK
    <3>3. UNCHANGED <<script, answers, values, dbUp, died, runs, deaths, listed>> /\ pc' = "node"
      BY <2>1
    <3> QED BY <1>1, <3>1, <3>2, <3>3 DEF TypeOK, RowType
  <2>6. LoopInv'
    BY <2>1, <2>4 DEF LoopInv, InLoop
  <2> QED BY <2>5, <2>6
<1>9. CASE End \/ Connect
  <2>1. /\ InLoop /\ pc' \in {"sleep", "insert"}
        /\ pc' = "insert" => pc = "connect"
        /\ UNCHANGED <<script, answers, i, values, table, failedLog, dbUp, died, runs, deaths, listed>>
    BY <1>9 DEF End, Connect, InLoop, counters
  <2> QED BY <1>9, <2>1 DEF TypeOK, LoopInv, InLoop, End, Connect
<1>10. CASE Die
  <2>1. /\ died' = died \cup {script} /\ pc' = "sleep"
        /\ script \in Positions /\ runs >= 1
        /\ UNCHANGED <<script, answers, i, values, failedLog, dbUp, runs, listed>>
    BY <1>10 DEF Die, LoopInv
  <2>2. deaths \in 0 .. MaxDeaths /\ deaths < MaxDeaths /\ deaths' = deaths + 1
    BY <1>10 DEF Die, TypeOK
  <2>3. deaths' \in 0 .. MaxDeaths
    BY <1>2, <2>2
  <2> QED BY <1>1, <2>1, <2>3 DEF TypeOK, LoopInv, InLoop, RowType
<1>11. CASE DbChanges
  BY <1>11 DEF DbChanges, process, counters, TypeOK, LoopInv, InLoop
<1>12. CASE UNCHANGED vars
  BY <1>12 DEF vars, TypeOK, LoopInv, InLoop
<1> QED BY <1>4, <1>5, <1>6, <1>7, <1>8, <1>9, <1>10, <1>11, <1>12 DEF Next, Step

-----------------------------------------------------------------------------
(* The rows *)

\* How control passes on.
LEMMA ControlStep ==
  ASSUME TypeOK, LoopInv, [Next]_vars
  PROVE  /\ script \in Nat /\ i \in Nat /\ runs \in Nat
         /\ \/ runs' = runs + 1
            \/ /\ runs' = runs
               /\ \/ UNCHANGED <<pc, script, i>>
                  \/ InLoop /\ InLoop' /\ script' = script /\ i' \in {i, i + 1}
                  \/ pc = "query" /\ script' = script
                  \/ script' = script /\ pc' \in {"sleep", "idle"}
                  \/ script' = script + 1
<1>1. script \in Nat /\ i \in Nat /\ runs \in Nat
  BY Regions DEF TypeOK
<1>2. CASE Skip \/ Collect \/ Connect \/ InsertOk \/ InsertFails
  BY <1>1, <1>2 DEF Skip, Collect, Connect, InsertOk, InsertFails, InLoop, Listing, counters
<1>3. CASE Start \/ Query \/ End \/ NextScript \/ Die \/ DbChanges
  BY <1>1, <1>3 DEF Start, Query, End, NextScript, Die, DbChanges, process, counters
<1>4. CASE UNCHANGED vars
  BY <1>1, <1>4 DEF vars
<1> QED BY <1>2, <1>3, <1>4 DEF Next, Step

\* Inserting takes the script past the element.
LEMMA InsertControl ==
  ASSUME TypeOK, LoopInv, [Next]_vars, table' # table
  PROVE  script' = script /\ (InLoop' => i' = i + 1) /\ pc' # "query" /\ runs' = runs
<1>1. CASE InsertOk \/ InsertFails \/ Die
  BY <1>1 DEF InsertOk, InsertFails, Die, InLoop, counters
<1>2. CASE Start \/ Query \/ Skip \/ Collect \/ Connect \/ End \/ NextScript \/ DbChanges \/ UNCHANGED vars
  BY <1>2 DEF Start, Query, Skip, Collect, Connect, End, NextScript, DbChanges, vars
<1> QED BY <1>1, <1>2 DEF Next, Step

\* Every step keeps the rows distinct.
LEMMA RowStep ==
  ASSUME TypeOK, LoopInv, RowInv, OneRowPerRun, [Next]_vars
  PROVE  (RowInv /\ OneRowPerRun)'
<1> DEFINE Placed(r) ==
      /\ r.run <= runs
      /\ \A s \in Positions : r.run = runs /\ r.ne.region = RunAll[s].region =>
           s <= script /\ (s = script => pc # "query" /\ (InLoop => r.ne.no < i))
<1>1. \A k \in DOMAIN table : Placed(table[k]) /\ table[k].run \in Nat /\ table[k].ne.no \in Nat
  <2>1. \A r \in RowType : r.run \in Nat /\ r.ne.no \in Nat
    BY DEF RowType, Elements
  <2>2. \A k \in DOMAIN table : table[k] \in RowType
    <3>1. table \in Seq(RowType)
      BY DEF TypeOK, RowType
    <3> QED BY <3>1
  <2>3. \A k \in DOMAIN table : Placed(table[k])
    BY DEF RowInv
  <2> QED BY <2>1, <2>2, <2>3
<1>2. \A s \in Positions : s \in Nat
  BY Regions
<1>3. ASSUME NEW k \in DOMAIN table
      PROVE  /\ table[k].run <= runs'
             /\ \A s \in Positions : table[k].run = runs' /\ table[k].ne.region = RunAll[s].region =>
                  s <= script' /\ (s = script' => pc' # "query" /\ (InLoop' => table[k].ne.no < i'))
  <2> DEFINE r == table[k]
  <2>1. Placed(r) /\ r.run \in Nat /\ r.ne.no \in Nat
    BY <1>1
  <2> HIDE DEF r
  <2>2. /\ r.run <= runs'
        /\ \A s \in Positions : r.run = runs' /\ r.ne.region = RunAll[s].region =>
             s <= script' /\ (s = script' => pc' # "query" /\ (InLoop' => r.ne.no < i'))
    <3>1. CASE runs' = runs + 1
      BY <2>1, <3>1, ControlStep
    <3>2. CASE runs' = runs
      <4> SUFFICES ASSUME NEW s \in Positions, r.run = runs, r.ne.region = RunAll[s].region
                   PROVE  s <= script' /\ (s = script' => pc' # "query" /\ (InLoop' => r.ne.no < i'))
        BY <2>1, <3>2
      <4>1. /\ s <= script /\ (s = script => pc # "query" /\ (InLoop => r.ne.no < i))
            /\ s \in Nat /\ r.ne.no \in Nat
        BY <2>1, <1>2
      <4> QED BY <4>1, <3>2, ControlStep DEF InLoop
    <3> QED BY <3>1, <3>2, ControlStep
  <2> QED BY <2>2 DEF r
<1>4. CASE table' = table
  BY <1>3, <1>4 DEF RowInv, OneRowPerRun
<1>5. CASE table' # table
  <2>1. /\ pc = "insert" /\ script \in Positions
        /\ Row.ne.region = RunAll[script].region /\ Row.ne.no = i /\ Row.run = runs
        /\ DOMAIN table' = DOMAIN table \cup {Len(table) + 1}
        /\ \A k \in DOMAIN table : table'[k] = table[k] /\ k < Len(table) + 1
        /\ table'[Len(table) + 1] = Row
    BY <1>5, TableStep
  <2>2. script' = script /\ (InLoop' => i' = i + 1) /\ pc' # "query" /\ runs' = runs
    BY <1>5, InsertControl
  <2>3. script \in Nat /\ i \in Nat /\ runs \in Nat
    BY ControlStep
  <2> DEFINE new == Row
             last == Len(table) + 1
  <2>4. /\ new.ne.region = RunAll[script].region /\ new.ne.no = i /\ new.run = runs
        /\ DOMAIN table' = DOMAIN table \cup {last}
        /\ \A k \in DOMAIN table : table'[k] = table[k] /\ k # last
        /\ table'[last] = new
    BY <2>1
  <2>5. \A k \in DOMAIN table : ~ (table[k].ne = new.ne /\ table[k].run = new.run)
    BY <1>1, <2>1 DEF InLoop
  <2> HIDE DEF new, last
  <2>6. \A s \in Positions : RunAll[script].region = RunAll[s].region => s = script
    BY <2>1, Regions
  <2>7. RowInv'
    BY <1>2, <1>3, <2>2, <2>3, <2>4, <2>6 DEF RowInv
  <2>8. OneRowPerRun'
    BY <2>4, <2>5 DEF OneRowPerRun
  <2> QED BY <2>7, <2>8
<1> QED BY <1>4, <1>5

-----------------------------------------------------------------------------
(* The values *)

\* Every step keeps the variables to what the script has come to.
LEMMA ValuesStep ==
  ASSUME TypeOK, LoopInv, ValuesInv, CarriedWithinRegion, [Next]_vars
  PROVE  (ValuesInv /\ CarriedWithinRegion)'
<1>0. /\ i \in Nat /\ script \in Nat
      /\ \A p \in Properties : values[p] = Nothing \/ values[p].no \in Nat
  BY ControlStep DEF TypeOK, Elements
<1>1. CarriedWithinRegion'
  <2>1. CASE table' = table
    BY <2>1 DEF CarriedWithinRegion
  <2>2. CASE table' # table
    <3> DEFINE new == Row
               last == Len(table) + 1
    <3>1. /\ pc = "insert"
          /\ new.ne.region = RunAll[script].region /\ new.ne.no = i /\ new.values = values
          /\ DOMAIN table' = DOMAIN table \cup {last}
          /\ \A k \in DOMAIN table : table'[k] = table[k]
          /\ table'[last] = new
      BY <2>2, TableStep
    <3> HIDE DEF new, last
    <3>2. \A p \in Properties :
            LET v == new.values[p]
            IN  v = Nothing \/ (v.region = new.ne.region /\ v.no <= new.ne.no)
      BY <1>0, <3>1 DEF ValuesInv, InLoop
    <3> QED BY <3>1, <3>2 DEF CarriedWithinRegion
  <2> QED BY <2>1, <2>2
<1>2. CASE Query
  <2>1. values' = Unset
    BY <1>2 DEF Query
  <2> QED BY <1>1, <2>1 DEF ValuesInv, Unset
<1>3. CASE Collect
  <2>1. /\ pc = "node" /\ InLoop /\ i <= Len(answers[script]) /\ pc' = "connect"
        /\ UNCHANGED <<script, i>>
    BY <1>3 DEF Collect, Listing, InLoop
  <2>2. Node.ne.no = i /\ Node.ne.region = RunAll[script].region
    BY <2>1, NodeFacts
  <2>3. \A p \in Properties : values'[p] \in {Node.ne, Nothing, values[p]}
    BY <1>3 DEF Collect
  <2> QED BY <1>0, <1>1, <2>1, <2>2, <2>3 DEF ValuesInv
<1>4. CASE Skip \/ InsertOk \/ InsertFails
  <2>1. InLoop /\ i' = i + 1 /\ pc' = "node" /\ UNCHANGED <<script, values>>
    BY <1>4 DEF Skip, InsertOk, InsertFails, Listing, InLoop
  <2> QED BY <1>0, <1>1, <2>1 DEF ValuesInv
<1>5. CASE Connect
  BY <1>0, <1>1, <1>5 DEF Connect, ValuesInv, InLoop
<1>6. CASE Start \/ End \/ NextScript \/ Die
  <2>1. ~ InLoop'
    BY <1>6 DEF Start, End, NextScript, Die, InLoop
  <2> QED BY <1>1, <2>1 DEF ValuesInv
<1>7. CASE DbChanges \/ UNCHANGED vars
  BY <1>1, <1>7 DEF DbChanges, process, vars, ValuesInv, InLoop
<1> QED BY <1>2, <1>3, <1>4, <1>5, <1>6, <1>7 DEF Next, Step

-----------------------------------------------------------------------------
(* The elements *)

\* What was stored or logged stays so for the rest of the run.
LEMMA HandledStays ==
  ASSUME TypeOK, LoopInv, [Next]_vars, runs' = runs, NEW e, Handled(e)
  PROVE  Handled(e)'
<1>1. failedLog \subseteq failedLog'
  BY DEF Next, Step, vars, counters, process, Start, Query, Skip, Collect, End, Connect, InsertOk,
         InsertFails, NextScript, Die, DbChanges
<1>2. Stored(e, runs) => Stored(e, runs)'
  <2>1. CASE table' = table
    BY <2>1 DEF Stored
  <2>2. CASE table' # table
    <3>1. /\ DOMAIN table \subseteq DOMAIN table'
          /\ \A k \in DOMAIN table : table'[k] = table[k]
      BY <2>2, TableStep
    <3> QED BY <3>1 DEF Stored
  <2> QED BY <2>1, <2>2
<1> QED BY <1>1, <1>2 DEF Handled

\* Every step keeps the elements of the loop's past handled.
LEMMA HandledStep ==
  ASSUME TypeOK, LoopInv, HandledInv, [Next]_vars
  PROVE  HandledInv'
<1> DEFINE Done(s) == \A k \in DOMAIN answers[s] :
                        answers[s][k].implemented => Handled(answers[s][k].ne)
           Past == \A k \in DOMAIN answers[script] :
                     k < i /\ answers[script][k].implemented => Handled(answers[script][k].ne)
<1>0. /\ script \in Nat /\ i \in Nat /\ \A s \in Positions : s \in Nat
      /\ \A s \in Through : Done(s)
      /\ InLoop => Past
  BY ControlStep, Regions DEF HandledInv, CollectedOrLogged, Handled
<1>1. ASSUME \A s \in Through' : Done(s)', InLoop' => Past'
      PROVE  HandledInv'
  BY <1>1 DEF HandledInv, CollectedOrLogged, Handled
<1>2. ASSUME UNCHANGED <<answers, runs>>
      PROVE  \A s \in Positions : Done(s) => Done(s)'
  BY <1>2, HandledStays
<1>3. CASE Start
  <2>1. Through' = {} /\ ~ InLoop'
    BY <1>0, <1>3, Regions DEF Start, Through, InLoop
  <2> QED BY <1>1, <2>1
<1>4. CASE NextScript
  <2>1. UNCHANGED <<answers, runs, died>> /\ ~ InLoop' /\ Through' \subseteq Through
    BY <1>0, <1>4 DEF NextScript, Through, counters, InLoop
  <2> QED BY <1>0, <1>1, <1>2, <2>1 DEF Through
<1>5. CASE Query
  <2>1. /\ script \in Positions /\ i' = 1 /\ UNCHANGED <<runs, script>>
        /\ \A s \in Through' : s # script /\ s \in Through
    BY <1>0, <1>5 DEF Query, LoopInv, Through
  <2>2. \A s \in Positions : s # script => answers'[s] = answers[s]
    BY <1>5, <2>1 DEF Query, LoopInv
  <2>3. \A s \in Through' : Done(s)'
    BY <1>0, <2>1, <2>2, HandledStays DEF Through
  <2>4. Past'
    <3>1. answers'[script] \in Seq(Nodes(script))
      BY <2>1, LoopStep DEF TypeOK
    <3> QED BY <2>1, <3>1
  <2> QED BY <1>1, <2>3, <2>4
<1>6. CASE Skip \/ InsertOk \/ InsertFails
  <2>1. /\ InLoop /\ i <= Len(answers[script]) /\ i' = i + 1 /\ pc' = "node"
        /\ UNCHANGED <<script, answers, died, runs>>
    BY <1>6 DEF Skip, InsertOk, InsertFails, Listing, InLoop, LoopInv, counters
  <2>2. Through' = Through
    BY <2>1 DEF Through, InLoop
  <2>3. ASSUME NEW e, Node.implemented, e = Node.ne
        PROVE  Handled(e)'
    <3>1. CASE Skip
      BY <2>3, <3>1 DEF Skip
    <3>2. CASE InsertFails
      BY <2>1, <2>3, <3>2 DEF InsertFails, Handled
    <3>3. CASE InsertOk
      <4>1. table' # table
        BY <3>3 DEF InsertOk, TypeOK
      <4>2. /\ Len(table) + 1 \in DOMAIN table' /\ table'[Len(table) + 1] = Row
            /\ Row.ne = Node.ne /\ Row.run = runs
        BY <4>1, TableStep
      <4> HIDE DEF Row
      <4> QED BY <2>1, <2>3, <4>2 DEF Handled, Stored
    <3> QED BY <1>6, <3>1, <3>2, <3>3
  <2>4. \A k \in DOMAIN answers[script] : k < i + 1 => k < i \/ k = i
    BY <1>0, <2>1, NodeFacts DEF TypeOK
  <2>5. Past'
    <3> SUFFICES ASSUME NEW k \in DOMAIN answers[script], k < i + 1, answers[script][k].implemented,
                        NEW e, e = answers[script][k].ne
                 PROVE  Handled(e)'
      BY <2>1
    <3>1. CASE k = i
      BY <2>3, <3>1 DEF Node
    <3>2. CASE k < i
      <4>1. Handled(e)
        BY <1>0, <2>1, <3>2
      <4> QED BY <2>1, <4>1, HandledStays
    <3> QED BY <2>4, <3>1, <3>2
  <2> QED BY <1>0, <1>1, <1>2, <2>1, <2>2, <2>5 DEF Through
<1>7. CASE Collect \/ Connect
  <2>1. InLoop /\ InLoop' /\ UNCHANGED <<script, answers, i, died, runs>>
    BY <1>7 DEF Collect, Connect, Listing, InLoop, counters
  <2>2. Through' = Through
    BY <2>1 DEF Through, InLoop
  <2>3. Past'
    BY <1>0, <2>1, HandledStays
  <2> QED BY <1>0, <1>1, <1>2, <2>1, <2>2, <2>3 DEF Through
<1>8. CASE End
  <2>1. /\ InLoop /\ i > Len(answers[script]) /\ pc' = "sleep"
        /\ UNCHANGED <<script, answers, died, runs>>
    BY <1>8 DEF End, InLoop, counters
  <2>2. Through' \subseteq Through \cup {script} /\ script \in Positions
    BY <1>0, <2>1 DEF Through, LoopInv, InLoop
  <2>3. Done(script)
    <3>1. answers[script] \in Seq(Nodes(script))
      BY <2>2 DEF TypeOK
    <3>2. \A k \in DOMAIN answers[script] : k < i
      BY <1>0, <2>1, <3>1
    <3> QED BY <1>0, <2>1, <3>2
  <2> QED BY <1>0, <1>1, <1>2, <2>1, <2>2, <2>3 DEF Through, InLoop
<1>9. CASE Die
  <2>1. /\ died' = died \cup {script} /\ pc' = "sleep" /\ pc \notin {"sleep", "idle"}
        /\ UNCHANGED <<script, answers, runs>>
    BY <1>9 DEF Die
  <2>2. Through' \subseteq Through
    BY <2>1 DEF Through
  <2> QED BY <1>0, <1>1, <1>2, <2>1, <2>2 DEF Through, InLoop
<1>10. CASE DbChanges \/ UNCHANGED vars
  BY <1>10 DEF DbChanges, process, counters, vars, HandledInv, CollectedOrLogged, Through, Stored, Handled, InLoop
<1> QED BY <1>3, <1>4, <1>5, <1>6, <1>7, <1>8, <1>9, <1>10 DEF Next, Step

-----------------------------------------------------------------------------
(* Theorems *)

\* The invariant holds before the first run.
LEMMA CollectorInit == Init => CollectorInv
<1> SUFFICES ASSUME Init PROVE CollectorInv
  OBVIOUS
<1>1. /\ answers = [s \in Positions |-> <<>>] /\ values = Unset /\ table = <<>> /\ failedLog = {}
      /\ pc = "idle" /\ script = 0 /\ i = 0 /\ died = {} /\ dbUp \in BOOLEAN
      /\ runs = 0 /\ deaths = 0 /\ listed = 0
  BY DEF Init
<1>2. Positions = 1 .. 6 /\ MaxListed \in Nat /\ MaxRuns \in Nat /\ MaxDeaths \in Nat
  BY Regions, ConstantsAssumption
<1>3. TypeOK
  <2>1. values \in [Properties -> Elements \cup {Nothing}]
    BY <1>1 DEF Unset
  <2>2. \A s \in Positions : answers[s] \in Seq(Nodes(s)) /\ Len(answers[s]) <= MaxListed
    BY <1>1, <1>2
  <2>3. table \in Seq(RowType)
    BY <1>1
  <2> QED BY <1>1, <1>2, <2>1, <2>2, <2>3 DEF TypeOK, RowType
<1>4. LoopInv
  BY <1>1 DEF LoopInv, InLoop
<1>5. RowInv /\ OneRowPerRun /\ CarriedWithinRegion
  BY <1>1 DEF RowInv, OneRowPerRun, CarriedWithinRegion
<1>6. ValuesInv
  BY <1>1 DEF ValuesInv, InLoop
<1>7. HandledInv
  BY <1>1, <1>2 DEF HandledInv, CollectedOrLogged, Through, InLoop
<1> QED BY <1>3, <1>4, <1>5, <1>6, <1>7 DEF CollectorInv

\* Every state runAll.sh and its scripts can get into satisfies CollectorInv.
THEOREM CollectorInvariant == Spec => []CollectorInv
<1>1. CollectorInv /\ [Next]_vars => CollectorInv'
  BY LoopStep, RowStep, ValuesStep, HandledStep DEF CollectorInv
<1> QED BY <1>1, CollectorInit, PTL DEF Spec

\* The variables of the collectors keep their types; in particular the loop
\* index of compatibleGetNeData2Db stays within the answer.
THEOREM TypeCorrect == Spec => []TypeOK
<1>1. CollectorInv => TypeOK
  BY DEF CollectorInv
<1> QED BY <1>1, CollectorInvariant, PTL

\* insertData2Db gives no element two rows in one run of runAll.sh, whatever
\* fails, dies or reconnects.
THEOREM RowsDistinct == Spec => []OneRowPerRun
<1>1. CollectorInv => OneRowPerRun
  BY DEF CollectorInv
<1> QED BY <1>1, CollectorInvariant, PTL

\* A variable that compatibleGetNeData2Db does not clear carries values over
\* from earlier elements of the same region only.
THEOREM ValuesStayInRegion == Spec => []CarriedWithinRegion
<1>1. CollectorInv => CarriedWithinRegion
  BY DEF CollectorInv
<1> QED BY <1>1, CollectorInvariant, PTL

\* A script that gets through has stored or logged every element in use that
\* its controller listed.
THEOREM NothingUncollected == Spec => []CollectedOrLogged
<1>1. CollectorInv => CollectedOrLogged
  BY DEF CollectorInv, HandledInv
<1> QED BY <1>1, CollectorInvariant, PTL
=============================================================================
