---------------------------- MODULE NeCollector ----------------------------
(***************************************************************************)
(* toopAuto/runAll.sh and the six PHP scripts it runs one after the other. *)
(* Each asks the controller of its region for the network elements and     *)
(* adds a row to the MySQL table ne_detail for each one in use.  A value   *)
(* is represented by the element it was read from, so that a row tells     *)
(* whose values it holds.  PHP is 7.3 (docker/Dockerfile): mysqli reports  *)
(* failures by false, and count(null) is 0.                                *)
(***************************************************************************)
EXTENDS Naturals, Sequences

CONSTANTS
  PropertySets,   \* the sets of properties an element may have
  MaxListed,      \* bound: elements listed by the controllers, over all runs
  MaxRuns,        \* bound: how often runAll.sh is started
  MaxDeaths       \* bound: scripts that die

VARIABLES
  pc,         \* where runAll.sh, or the script it runs, is
  script,     \* the script running, as its position in RunAll
  answers,    \* answers[s]: what the controller answered script s in this run
  i,          \* the loop index
  values,     \* the PHP variables, and for each the element its value is of
  table,      \* ne_detail
  failedLog,  \* ne_info_failed.log: the elements, with the run
  dbUp,       \* MySQL can be reached
  died,       \* history: scripts of this run that died
  runs, deaths, listed    \* history: the counters of the bounds

process == <<pc, script, i, values>>
counters == <<runs, deaths, listed>>
vars == <<pc, script, answers, i, values, table, failedLog, dbUp, died, runs, deaths, listed>>

-----------------------------------------------------------------------------
(* The scripts *)

Properties == {"ne_yang_version", "software_version", "telemetry", "adapter"}

\* A script has a region, and variables it clears for each element.
Versions == {"ne_yang_version", "software_version"}
getNe4South1 == [region |-> "South1", clears |-> Versions]
getNe4South2 == [region |-> "South2", clears |-> Versions]
computeOpTreeNeInfoNoth1 == [region |-> "North1", clears |-> Versions]
computeOpTreeNeInfoNoth2 == [region |-> "North2", clears |-> Versions]
getNeForEast1 == [region |-> "East1", clears |-> Versions]
getNeForEast2 == [region |-> "East2", clears |-> Versions]

RunAll ==
  <<getNe4South1, getNe4South2, computeOpTreeNeInfoNoth1,
    computeOpTreeNeInfoNoth2, getNeForEast1, getNeForEast2>>

Positions == DOMAIN RunAll
Elements == [region : {RunAll[s].region : s \in Positions}, no : 1 .. MaxListed]
Nothing == [region |-> "", no |-> 0]    \* an empty string or an unset variable
Unset == [p \in Properties |-> Nothing]

\* An element as a controller lists it.
Nodes(s) ==
  [ne : {e \in Elements : e.region = RunAll[s].region}, has : PropertySets, implemented : BOOLEAN]

\* Answers list elements in order; the properties of one that is not in use
\* are not looked at, so one set of them stands for all.
Answers(s) ==
  {a \in UNION {[1 .. n -> Nodes(s)] : n \in 0 .. MaxListed - listed} :
    \A k \in DOMAIN a :
      /\ a[k].ne.no = k
      /\ ~ a[k].implemented => a[k].has = CHOOSE P \in PropertySets : TRUE}

Node == answers[script][i]
Listing == pc = "node" /\ i <= Len(answers[script])
Row == [ne |-> Node.ne, values |-> values, run |-> runs]

ASSUME ConstantsAssumption ==
  /\ PropertySets \subseteq SUBSET Properties /\ PropertySets # {}
  /\ MaxListed \in Nat /\ MaxRuns \in Nat /\ MaxDeaths \in Nat

Init ==
  /\ pc = "idle" /\ script = 0 /\ i = 0
  /\ answers = [s \in Positions |-> <<>>]
  /\ values = Unset
  /\ table = <<>> /\ failedLog = {}
  /\ dbUp \in BOOLEAN
  /\ died = {}
  /\ runs = 0 /\ deaths = 0 /\ listed = 0

-----------------------------------------------------------------------------
(* runAll.sh *)

Start ==
  /\ pc = "idle" /\ runs < MaxRuns
  /\ runs' = runs + 1
  /\ pc' = "query" /\ script' = 1
  /\ answers' = [s \in Positions |-> <<>>]
  /\ died' = {}
  /\ UNCHANGED <<i, values, table, failedLog, dbUp, deaths, listed>>

\* The sleep is over: the next script is run, however the last one ended.
NextScript ==
  /\ pc = "sleep"
  /\ IF script < Len(RunAll)
       THEN pc' = "query" /\ script' = script + 1
       ELSE pc' = "idle" /\ script' = script
  /\ UNCHANGED <<answers, i, values, table, failedLog, dbUp, died, counters>>

-----------------------------------------------------------------------------
(* compatibleGetNeData2Db *)

\* Mutant: one process for all the regions, whose variables live on.
QueryKeepingValues ==
  /\ pc = "query"
  /\ \E a \in Answers(script) :
       /\ answers' = [answers EXCEPT ![script] = a]
       /\ listed' = listed + Len(a)
  /\ i' = 1 /\ pc' = "node"
  /\ UNCHANGED <<script, values, table, failedLog, dbUp, died, runs, deaths>>

\* One page of the controller's elements; one that cannot be reached is like
\* one without elements.  http_request_xml sets no timeout, so nothing says
\* that a controller that was reached ever answers: no fairness for this step.
Query ==
  /\ pc = "query"
  /\ \E a \in Answers(script) :
       /\ answers' = [answers EXCEPT ![script] = a]
       /\ listed' = listed + Len(a)
  /\ values' = Unset
  /\ i' = 1 /\ pc' = "node"
  /\ UNCHANGED <<script, table, failedLog, dbUp, died, runs, deaths>>

\* Elements that are not in use are passed over.
Skip ==
  /\ Listing /\ ~ Node.implemented
  /\ i' = i + 1
  /\ UNCHANGED <<pc, script, answers, values, table, failedLog, dbUp, died, counters>>

\* The variables are cleared, those the script clears, and set from the
\* properties of the element.
Collect ==
  /\ Listing /\ Node.implemented
  /\ values' = [p \in Properties |->
       CASE p \in Node.has -> Node.ne
         [] p \notin Node.has /\ p \in RunAll[script].clears -> Nothing
         [] OTHER -> values[p]]
  /\ pc' = "connect"
  /\ UNCHANGED <<script, answers, i, table, failedLog, dbUp, died, counters>>

\* The script ends, and runAll.sh sleeps.
End ==
  /\ pc = "node" /\ i > Len(answers[script])
  /\ pc' = "sleep"
  /\ UNCHANGED <<script, answers, i, values, table, failedLog, dbUp, died, counters>>

-----------------------------------------------------------------------------
(* insertData2Db *)

\* Attempts to connect while MySQL is down leave everything as it is.
Connect ==
  /\ pc = "connect" /\ dbUp
  /\ pc' = "insert"
  /\ UNCHANGED <<script, answers, i, values, table, failedLog, dbUp, died, counters>>

InsertOk ==
  /\ pc = "insert" /\ dbUp
  /\ table' = Append(table, Row)
  /\ i' = i + 1 /\ pc' = "node"
  /\ UNCHANGED <<script, answers, values, failedLog, dbUp, died, counters>>

\* Mutant: an insert that fails is tried again.
InsertAgain ==
  /\ pc = "insert"
  /\ table' \in {table} \cup (IF dbUp THEN {Append(table, Row)} ELSE {})
  /\ Len(table') <= MaxListed
  /\ pc' = "connect"
  /\ UNCHANGED <<script, answers, i, values, failedLog, dbUp, died, counters>>

\* Mutant: a failed insert is not logged.
InsertFailsUnlogged ==
  /\ pc = "insert"
  /\ i' = i + 1 /\ pc' = "node"
  /\ UNCHANGED <<script, answers, values, table, failedLog, dbUp, died, counters>>

\* The statement fails, or its row is stored and the answer lost.
InsertFails ==
  /\ pc = "insert"
  /\ table' \in {table} \cup (IF dbUp THEN {Append(table, Row)} ELSE {})
  /\ failedLog' = failedLog \cup {[ne |-> Node.ne, run |-> runs]}
  /\ i' = i + 1 /\ pc' = "node"
  /\ UNCHANGED <<script, answers, values, dbUp, died, counters>>

-----------------------------------------------------------------------------
(* What happens to the scripts *)

\* The PHP process dies, before or inside its statement; runAll.sh goes on.
Die ==
  /\ pc \in {"query", "node", "connect", "insert"} /\ deaths < MaxDeaths
  /\ table' \in {table} \cup (IF pc = "insert" /\ dbUp THEN {Append(table, Row)} ELSE {})
  /\ deaths' = deaths + 1
  /\ died' = died \cup {script}
  /\ pc' = "sleep"
  /\ UNCHANGED <<script, answers, i, values, failedLog, dbUp, runs, listed>>

DbChanges ==
  /\ dbUp' = ~ dbUp
  /\ UNCHANGED <<process, answers, table, failedLog, died, counters>>

\* The steps that wait for no controller.
Step ==
  \/ Skip \/ Collect \/ End
  \/ Connect \/ InsertOk \/ InsertFails \/ NextScript

Next == Start \/ Query \/ Step \/ Die \/ DbChanges

Spec == Init /\ [][Next]_vars

\* A started process runs until it has to wait.  MySQL need never come back,
\* and a controller need never answer.
FairSpec == Spec /\ WF_vars(Step)

-----------------------------------------------------------------------------
(* Properties *)

TypeOK ==
  /\ pc \in {"idle", "query", "node", "connect", "insert", "sleep"}
  /\ script \in {0} \cup Positions
  /\ \A s \in Positions : answers[s] \in Seq(Nodes(s)) /\ Len(answers[s]) <= MaxListed
  /\ i \in 0 .. MaxListed + 1
  /\ values \in [Properties -> Elements \cup {Nothing}]
  /\ table \in Seq([ne : Elements, values : [Properties -> Elements \cup {Nothing}], run : 1 .. MaxRuns])
  /\ failedLog \subseteq [ne : Elements, run : 1 .. MaxRuns]
  /\ dbUp \in BOOLEAN
  /\ died \subseteq Positions
  /\ runs \in 0 .. MaxRuns /\ deaths \in 0 .. MaxDeaths /\ listed \in 0 .. MaxListed

Stored(e, r) == \E k \in DOMAIN table : table[k].ne = e /\ table[k].run = r

\* The scripts of this run that are through without dying.
Through ==
  {s \in Positions \ died : s < script \/ (s = script /\ pc \in {"sleep", "idle"})}

\* Every element in use that a controller listed, and whose script is through,
\* has a row of this run or is in the log of failed inserts, whatever became
\* of the scripts before it and however often MySQL was away.
CollectedOrLogged ==
  \A s \in Through : \A k \in DOMAIN answers[s] :
    answers[s][k].implemented =>
      Stored(answers[s][k].ne, runs) \/ [ne |-> answers[s][k].ne, run |-> runs] \in failedLog

\* Reconnecting, failed inserts and dying scripts never give an element two
\* rows in one run; only running runAll.sh again repeats it.
OneRowPerRun ==
  \A j, k \in DOMAIN table :
    table[j].ne = table[k].ne /\ table[j].run = table[k].run => j = k

\* The telemetry and adapter of a row, which are not cleared, may be those of
\* an element listed earlier, but never of another region or a later element.
CarriedWithinRegion ==
  \A k \in DOMAIN table : \A p \in Properties :
    LET v == table[k].values[p]
    IN  v = Nothing \/ (v.region = table[k].ne.region /\ v.no <= table[k].ne.no)

\* If MySQL stays reachable from some time on, and no controller keeps a script
\* waiting for its answer for ever, a started runAll.sh gets through all its
\* regions: there is no other wait, whatever scripts die and inserts fail.
RunAllEnds ==
  <>[]dbUp /\ []<>(pc # "query") => (pc # "idle" ~> pc = "idle")
=============================================================================
