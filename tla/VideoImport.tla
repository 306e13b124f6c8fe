---------------------------- MODULE VideoImport ----------------------------
(***************************************************************************)
(* video/import_video_new.php and video/Monitor.php.  The import walks the *)
(* video table by row number, hands a command for each row to the message  *)
(* queue, and keeps the number of the next row in the file new_video_id.   *)
(* The rows handed over as deletions go into DelVideoInfo.log, which       *)
(* Monitor.php, started when the import is through, mails and removes.     *)
(* The site fills the table meanwhile.  The query has no ORDER BY: the     *)
(* table is taken to return its rows in the order they were added.         *)
(***************************************************************************)
EXTENDS Naturals, Sequences, FiniteSets

CONSTANTS
  MaxRows,    \* bound: rows of the table
  MaxRuns     \* bound: how often the import is started

VARIABLES
  table,      \* the rows: "add" (status not 0), "del" (status 0) or "hidden" (not_pull)
  idFile,     \* the number in new_video_id, 0 if the file is missing or empty
  delLog,     \* DelVideoInfo.log, as the set of its rows
  pc,         \* where the script is
  id, total,  \* the PHP variables
  row,        \* what was read of the current row
  text,       \* what Monitor read of the log
  dels,       \* dels[n]: deletions of row n the queue got
  adds,       \* adds[n]: additions of row n the queue got
  mailed,     \* rows of deletion mails that were sent
  failed,     \* history: rows whose query, command or mail failed
  runs,       \* history: number of imports started
  crashes     \* history: number of imports that died

vars == <<table, idFile, delLog, pc, id, total, row, text, dels, adds, mailed, failed, runs, crashes>>

Kinds == {"add", "del", "hidden"}
Rows == 1 .. MaxRows
Importing == {"count", "fetch", "call", "save", "log"}
Mailing == {"read", "mail", "remove"}
Ended == {"idle", "done", "crashed"}

ASSUME BoundAssumption == MaxRows \in Nat /\ MaxRuns \in Nat

Init ==
  /\ table = <<>>
  /\ idFile \in {0, 1}
  /\ delLog = {}
  /\ pc = "idle"
  /\ id = 0 /\ total = 0
  /\ row = "none"
  /\ text = {}
  /\ dels = [n \in Rows |-> 0] /\ adds = [n \in Rows |-> 0]
  /\ mailed = {}
  /\ failed = {}
  /\ runs = 0 /\ crashes = 0

-----------------------------------------------------------------------------
(* The site, which shares the table *)

AddVideo(kind) ==
  /\ Len(table) < MaxRows
  /\ table' = Append(table, kind)
  /\ UNCHANGED <<idFile, delLog, pc, id, total, row, text, dels, adds, mailed, failed, runs, crashes>>

Withdraw(n) ==
  /\ n \in DOMAIN table /\ table[n] = "add"
  /\ table' = [table EXCEPT ![n] = "del"]
  /\ UNCHANGED <<idFile, delLog, pc, id, total, row, text, dels, adds, mailed, failed, runs, crashes>>

-----------------------------------------------------------------------------
(* The import *)

\* Mutant: the file is taken to name the last row handled.
StartAfter ==
  /\ pc \in Ended
  /\ runs < MaxRuns
  /\ runs' = runs + 1
  /\ id' = idFile + 1
  /\ pc' = "count"
  /\ row' = "none" /\ text' = {}
  /\ UNCHANGED <<table, idFile, delLog, total, dels, adds, mailed, failed, crashes>>

Start ==
  /\ pc \in Ended
  /\ runs < MaxRuns
  /\ runs' = runs + 1
  /\ id' = idFile
  /\ pc' = "count"
  /\ row' = "none" /\ text' = {}
  /\ UNCHANGED <<table, idFile, delLog, total, dels, adds, mailed, failed, crashes>>

\* select count: once, before the loop.
Count ==
  /\ pc = "count"
  /\ total' = Len(table)
  /\ pc' = "fetch"
  /\ UNCHANGED <<table, idFile, delLog, id, row, text, dels, adds, mailed, failed, runs, crashes>>

\* The count is missing: the script returns, without a mail.
CountFails ==
  /\ pc = "count"
  /\ pc' = "done"
  /\ UNCHANGED <<table, idFile, delLog, id, total, row, text, dels, adds, mailed, failed, runs, crashes>>

Fetch ==
  /\ pc = "fetch" /\ id <= total /\ id > 0
  /\ row' = table[id]
  /\ pc' = IF table[id] = "hidden" THEN "save" ELSE "call"
  /\ UNCHANGED <<table, idFile, delLog, id, total, text, dels, adds, mailed, failed, runs, crashes>>

\* Mutant: the loop continues without advancing id.
FetchFailsInPlace ==
  /\ pc = "fetch" /\ id <= total
  /\ UNCHANGED vars

\* The query fails, as it always does for row 0 (limit -1,1): a row of null is
\* passed over like a hidden one.
FetchFails ==
  /\ pc = "fetch" /\ id <= total
  /\ row' = "none"
  /\ failed' = failed \cup ({id} \cap Rows)
  /\ pc' = "save"
  /\ UNCHANGED <<table, idFile, delLog, id, total, text, dels, adds, mailed, runs, crashes>>

\* The command of the row is handed to the queue.
Call ==
  /\ pc = "call"
  /\ IF row = "del"
       THEN dels' = [dels EXCEPT ![id] = @ + 1] /\ adds' = adds
       ELSE adds' = [adds EXCEPT ![id] = @ + 1] /\ dels' = dels
  /\ pc' = "save"
  /\ UNCHANGED <<table, idFile, delLog, id, total, row, text, mailed, failed, runs, crashes>>

\* The queue does not get it; $ret is not looked at.
CallFails ==
  /\ pc = "call"
  /\ failed' = failed \cup {id}
  /\ pc' = "save"
  /\ UNCHANGED <<table, idFile, delLog, id, total, row, text, dels, adds, mailed, runs, crashes>>

\* Mutant: the file is not written.
SaveNothing ==
  /\ pc = "save"
  /\ id' = id + 1
  /\ pc' = IF row = "del" THEN "log" ELSE "fetch"
  /\ UNCHANGED <<table, idFile, delLog, total, row, text, dels, adds, mailed, failed, runs, crashes>>

\* Mutant: every row is logged as a deletion.
SaveAndLogAll ==
  /\ pc = "save"
  /\ id' = id + 1
  /\ idFile' = id + 1
  /\ pc' = IF row \in {"add", "del"} THEN "log" ELSE "fetch"
  /\ UNCHANGED <<table, delLog, total, row, text, dels, adds, mailed, failed, runs, crashes>>

\* The number of the next row is saved, and for a deletion the log is next.
Save ==
  /\ pc = "save"
  /\ id' = id + 1
  /\ idFile' = id + 1
  /\ pc' = IF row = "del" THEN "log" ELSE "fetch"
  /\ UNCHANGED <<table, delLog, total, row, text, dels, adds, mailed, failed, runs, crashes>>

\* Mutant: the log is opened without FILE_APPEND.
OverwriteLog ==
  /\ pc = "log"
  /\ delLog' = {id - 1}
  /\ pc' = "fetch"
  /\ UNCHANGED <<table, idFile, id, total, row, text, dels, adds, mailed, failed, runs, crashes>>

AppendLog ==
  /\ pc = "log"
  /\ delLog' = delLog \cup {id - 1}
  /\ pc' = "fetch"
  /\ UNCHANGED <<table, idFile, id, total, row, text, dels, adds, mailed, failed, runs, crashes>>

\* The loop is through: Monitor.php is started.
StartMonitor ==
  /\ pc = "fetch" /\ id > total
  /\ pc' = "read"
  /\ UNCHANGED <<table, idFile, delLog, id, total, row, text, dels, adds, mailed, failed, runs, crashes>>

-----------------------------------------------------------------------------
(* Monitor.php *)

ReadLog ==
  /\ pc = "read"
  /\ text' = delLog
  /\ pc' = IF delLog = {} THEN "done" ELSE "mail"
  /\ UNCHANGED <<table, idFile, delLog, id, total, row, dels, adds, mailed, failed, runs, crashes>>

\* The mail goes out or not: the answer of sendEmail is not looked at.
sendEmail ==
  /\ pc = "mail"
  /\ \/ mailed' = mailed \cup text /\ failed' = failed
     \/ failed' = failed \cup text /\ mailed' = mailed
  /\ pc' = "remove"
  /\ UNCHANGED <<table, idFile, delLog, id, total, row, text, dels, adds, runs, crashes>>

RemoveLog ==
  /\ pc = "remove"
  /\ delLog' = {}
  /\ pc' = "done"
  /\ UNCHANGED <<table, idFile, id, total, row, text, dels, adds, mailed, failed, runs, crashes>>

-----------------------------------------------------------------------------
\* The process dies between two steps, or inside file_put_contents, which
\* empties the file before it writes it.
Crash ==
  /\ pc \in Importing \cup Mailing
  /\ idFile' \in {idFile} \cup (IF pc = "save" THEN {0} ELSE {})
  /\ pc' = "crashed"
  /\ crashes' = crashes + 1
  /\ UNCHANGED <<table, delLog, id, total, row, text, dels, adds, mailed, failed, runs>>

Step ==
  \/ Count \/ CountFails \/ Fetch \/ FetchFails \/ Call \/ CallFails \/ Save \/ AppendLog
  \/ StartMonitor \/ ReadLog \/ sendEmail \/ RemoveLog

Next ==
  \/ \E kind \in Kinds : AddVideo(kind)
  \/ \E n \in Rows : Withdraw(n)
  \/ Start \/ Step \/ Crash

Spec == Init /\ [][Next]_vars

\* A started process runs until it ends.
FairSpec == Spec /\ WF_vars(Step)
-----------------------------------------------------------------------------
(* Properties *)

TypeOK ==
  /\ table \in Seq(Kinds) /\ Len(table) <= MaxRows
  /\ idFile \in 0 .. MaxRows + 1
  /\ delLog \subseteq Rows
  /\ pc \in Importing \cup Mailing \cup Ended
  /\ id \in 0 .. MaxRows + 1
  /\ total \in 0 .. MaxRows
  /\ row \in Kinds \cup {"none"}
  /\ text \subseteq Rows
  /\ dels \in [Rows -> Nat] /\ adds \in [Rows -> Nat]
  /\ mailed \subseteq Rows /\ failed \subseteq Rows
  /\ runs \in Nat /\ crashes \in Nat

\* The saved number never passes a video by: every row before it was handed
\* to the queue, is hidden, or had its query or its command fail.  So a crash,
\* also one that empties the file, makes the import repeat rows, not skip them.
PassedRowsHandedOver ==
  \A n \in 1 .. idFile - 1 :
    n \in failed \/ table[n] = "hidden" \/ adds[n] + dels[n] > 0

\* A video is handed to the queue once, and once more at most for each import
\* that died.
RepeatsNeedCrashes == \A n \in Rows : adds[n] + dels[n] <= 1 + crashes

\* The deletions the queue got that are neither in the log, nor were mailed,
\* nor failed, nor are of the row being handled.
Unreported ==
  {n \in Rows : /\ dels[n] > 0
               /\ n \notin delLog \cup mailed \cup failed
               /\ ~ (pc = "save" /\ n = id)
               /\ ~ (pc = "log" /\ n = id - 1)}

\* Each import that dies keeps at most one deletion out of every mail, the one
\* it was handling; the log it leaves behind is mailed by a later import.
DeletionsReported == Cardinality(Unreported) <= crashes

\* No mail and no log names a video the queue was not told to delete, also
\* when the site withdraws videos during the import.
OnlyDeletionsReported == \A n \in delLog \cup mailed : dels[n] > 0 \/ n \in failed

\* An import ends although the site keeps adding rows: the count is taken
\* once, and every path through the loop advances id.
ImportEnds == pc \in Importing \cup Mailing ~> pc \in Ended
=============================================================================
