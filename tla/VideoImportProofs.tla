------------------------- MODULE VideoImportProofs -------------------------
(***************************************************************************)
(* Proofs about VideoImport, for a table of any size and any number of     *)
(* imports.  The four invariants rest on where the import is: the saved    *)
(* number is the row it handles, and what it knows of that row depends on  *)
(* the step it is at.                                                      *)
(***************************************************************************)
EXTENDS VideoImport, FiniteSetTheorems, TLAPS

\* The cursor: it stays within the table, which only grows, and the file and
\* the variable agree while the import runs.
CursorInv ==
  /\ total <= Len(table)
  /\ idFile <= Len(table) + 1
  /\ pc \in Importing => id = idFile
  /\ pc \in {"call", "save"} => id <= total
  /\ pc = "call" => id > 0 /\ row \in {"add", "del"}
  /\ pc = "save" /\ row = "del" => id > 0
  /\ pc = "log" => id - 1 \in 1 .. total

\* The row about to be passed was handed over, is hidden, or failed.
PassInv ==
  /\ PassedRowsHandedOver
  /\ pc = "save" =>
       id = 0 \/ id \in failed \/ table[id] = "hidden" \/ adds[id] + dels[id] > 0

\* A row that is not passed yet was handed over only by imports that died.
RepeatInv ==
  /\ RepeatsNeedCrashes
  /\ \A n \in Rows :
       n >= idFile /\ ~ (pc = "save" /\ n = id) => adds[n] + dels[n] <= crashes
  /\ pc = "save" /\ row # "del" /\ id > 0 => dels[id] <= crashes

\* A row that was deleted once stays a deletion, so that an import which comes
\* to it again logs it, unless its query or its command fails.
DeletedInv ==
  /\ \A n \in Rows : dels[n] > 0 => n \in 1 .. Len(table) /\ table[n] = "del"
  /\ pc = "call" => (row = "del" => table[id] = "del") /\ (dels[id] > 0 => row = "del")
  /\ pc = "save" /\ row # "del" /\ id > 0 => dels[id] = 0 \/ id \in failed

\* The log stays until it is mailed.
MailInv ==
  /\ pc = "mail" => text = delLog
  /\ pc = "remove" => delLog \subseteq mailed \cup failed

\* What is logged was deleted.
OnlyInv ==
  /\ OnlyDeletionsReported
  /\ pc = "save" /\ row = "del" => dels[id] > 0 \/ id \in failed
  /\ pc = "log" => dels[id - 1] > 0 \/ id - 1 \in failed

ImportInv ==
  /\ TypeOK /\ CursorInv /\ PassInv /\ RepeatInv
  /\ DeletedInv /\ MailInv /\ DeletionsReported /\ OnlyInv

\* What is counted of the rows are natural numbers.
LEMMA Numbers ==
  ASSUME TypeOK, CursorInv
  PROVE  /\ MaxRows \in Nat /\ Len(table) \in Nat /\ crashes \in Nat
         /\ id \in Nat /\ idFile \in Nat /\ total \in Nat /\ total <= MaxRows
         /\ \A n \in Rows : adds[n] \in Nat /\ dels[n] \in Nat /\ n \in Nat
BY BoundAssumption DEF TypeOK, CursorInv, Rows

\* A command handed over counts once, for its row alone.
LEMMA CallEffect ==
  ASSUME TypeOK, CursorInv, Call
  PROVE  /\ id \in Rows /\ id > 0 /\ id <= total /\ id = idFile
         /\ adds' \in [Rows -> Nat] /\ dels' \in [Rows -> Nat]
         /\ \A n \in Rows : n # id => adds'[n] = adds[n] /\ dels'[n] = dels[n]
         /\ adds'[id] + dels'[id] = adds[id] + dels[id] + 1
         /\ row = "del" => dels'[id] > 0
         /\ row # "del" => dels'[id] = dels[id]
<1>1. id \in Rows /\ id > 0 /\ id <= total /\ id = idFile
  BY BoundAssumption DEF TypeOK, CursorInv, Call, Rows, Importing
<1>2. adds \in [Rows -> Nat] /\ dels \in [Rows -> Nat]
  BY DEF TypeOK
<1>3. CASE row = "del"
  <2>1. dels' = [dels EXCEPT ![id] = @ + 1] /\ adds' = adds
    BY <1>3 DEF Call
  <2> QED BY <1>1, <1>2, <1>3, <2>1
<1>4. CASE row # "del"
  <2>1. adds' = [adds EXCEPT ![id] = @ + 1] /\ dels' = dels
    BY <1>4 DEF Call
  <2> QED BY <1>1, <1>2, <1>4, <2>1
<1> QED BY <1>3, <1>4

\* Every step keeps the types and the cursor.
LEMMA CursorStep ==
  ASSUME ImportInv, [Next]_vars
  PROVE  (TypeOK /\ CursorInv)'
<1> USE BoundAssumption DEF ImportInv, TypeOK, CursorInv, Kinds, Rows, Importing, Mailing, Ended
<1>1. ASSUME NEW kind \in Kinds, AddVideo(kind)
      PROVE  (TypeOK /\ CursorInv)'
  <2>1. /\ table' \in Seq(Kinds) /\ Len(table') = Len(table) + 1 /\ Len(table') <= MaxRows
        /\ Len(table) \in Nat
    BY <1>1 DEF AddVideo
  <2>2. UNCHANGED <<idFile, delLog, pc, id, total, row, text, dels, adds, mailed, failed, runs, crashes>>
    BY <1>1 DEF AddVideo
  <2> HIDE DEF Kinds
  <2> QED BY <2>1, <2>2
<1>2. ASSUME NEW n \in Rows, Withdraw(n)
      PROVE  (TypeOK /\ CursorInv)'
  <2>1. table' \in Seq(Kinds) /\ Len(table') = Len(table)
    BY <1>2 DEF Withdraw
  <2>2. UNCHANGED <<idFile, delLog, pc, id, total, row, text, dels, adds, mailed, failed, runs, crashes>>
    BY <1>2 DEF Withdraw
  <2> HIDE DEF Kinds
  <2> QED BY <2>1, <2>2
<1>3. CASE Start
  BY <1>3 DEF Start
<1>4. CASE Count
  <2>1. total' \in 0 .. MaxRows /\ total' = Len(table) /\ pc' = "fetch"
    BY <1>4 DEF Count
  <2>2. UNCHANGED <<table, idFile, delLog, id, row, text, dels, adds, mailed, failed, runs, crashes>>
    BY <1>4 DEF Count
  <2>3. pc = "count"
    BY <1>4 DEF Count
  <2>4. TypeOK'
    BY <2>1, <2>2
  <2>5. CursorInv'
    BY <2>1, <2>2, <2>3
  <2> QED BY <2>4, <2>5
<1>5. CASE CountFails
  BY <1>5 DEF CountFails
<1>6. CASE Fetch
  <2>1. id \in 1 .. Len(table)
    BY <1>6 DEF Fetch
  <2>2. row' = table[id] /\ row' \in Kinds
    BY <1>6, <2>1 DEF Fetch
  <2>3. pc' = IF row' = "hidden" THEN "save" ELSE "call"
    BY <1>6, <2>2 DEF Fetch
  <2>4. UNCHANGED <<table, idFile, delLog, id, total, text, dels, adds, mailed, failed, runs, crashes>>
    BY <1>6 DEF Fetch
  <2>5. pc = "fetch" /\ id <= total /\ id > 0
    BY <1>6 DEF Fetch
  <2>6. TypeOK'
    BY <2>2, <2>3, <2>4
  <2>7. CursorInv'
    BY <2>2, <2>3, <2>4, <2>5
  <2> QED BY <2>6, <2>7
<1>7. CASE FetchFails
  BY <1>7 DEF FetchFails
<1>8. CASE Call
  <2>1. id \in Rows /\ pc = "call" /\ pc' = "save" /\ id <= total
    BY <1>8 DEF Call
  <2>2. adds' \in [Rows -> Nat] /\ dels' \in [Rows -> Nat]
    BY <1>8, CallEffect
  <2>3. UNCHANGED <<table, idFile, delLog, id, total, row, text, mailed, failed, runs, crashes>>
    BY <1>8 DEF Call
  <2>4. id > 0
    BY <1>8 DEF Call
  <2> HIDE DEF Rows
  <2> QED BY <2>1, <2>2, <2>3, <2>4
<1>9. CASE CallFails
  <2>1. id \in Rows /\ pc = "call" /\ pc' = "save" /\ id <= total /\ id > 0
    BY <1>9 DEF CallFails
  <2>2. failed' \subseteq Rows
    BY <1>9, <2>1 DEF CallFails
  <2>3. UNCHANGED <<table, idFile, delLog, id, total, row, text, dels, adds, mailed, runs, crashes>>
    BY <1>9 DEF CallFails
  <2> HIDE DEF Rows
  <2> QED BY <2>1, <2>2, <2>3
<1>10. CASE Save
  <2>1. /\ pc = "save" /\ id <= total /\ id = idFile /\ id' = id + 1 /\ idFile' = id + 1
        /\ pc' = IF row = "del" THEN "log" ELSE "fetch"
    BY <1>10 DEF Save
  <2>2. id \in Nat /\ total \in Nat /\ total <= MaxRows /\ MaxRows \in Nat /\ Len(table) \in Nat
    OBVIOUS
  <2>3. id' \in 0 .. MaxRows + 1 /\ idFile' <= Len(table) + 1
    BY <2>1, <2>2
  <2>4. row = "del" => id' - 1 \in 1 .. total
    BY <2>1, <2>2
  <2>5. UNCHANGED <<table, delLog, total, row, text, dels, adds, mailed, failed, runs, crashes>>
    BY <1>10 DEF Save
  <2>6. TypeOK'
    BY <2>1, <2>3, <2>5
  <2>7. CursorInv'
    BY <2>1, <2>3, <2>4, <2>5
  <2> QED BY <2>6, <2>7
<1>11. CASE AppendLog
  <2>1. pc = "log" /\ id - 1 \in Rows /\ pc' = "fetch"
    BY <1>11 DEF AppendLog
  <2>2. delLog' \subseteq Rows
    BY <1>11, <2>1 DEF AppendLog
  <2>3. UNCHANGED <<table, idFile, id, total, row, text, dels, adds, mailed, failed, runs, crashes>>
    BY <1>11 DEF AppendLog
  <2> HIDE DEF Rows
  <2> QED BY <2>1, <2>2, <2>3
<1>12. CASE StartMonitor
  BY <1>12 DEF StartMonitor
<1>13. CASE ReadLog
  BY <1>13 DEF ReadLog
<1>14. CASE sendEmail
  BY <1>14 DEF sendEmail
<1>15. CASE RemoveLog
  BY <1>15 DEF RemoveLog
<1>16. CASE Crash
  <2>1. /\ pc' = "crashed" /\ idFile' \in {idFile, 0} /\ crashes' = crashes + 1
        /\ UNCHANGED <<table, delLog, id, total, row, text, dels, adds, mailed, failed, runs>>
    BY <1>16 DEF Crash
  <2>2. idFile' \in 0 .. MaxRows + 1 /\ idFile' <= Len(table) + 1 /\ crashes' \in Nat
    BY <2>1
  <2>3. TypeOK'
    BY <2>1, <2>2
  <2>4. CursorInv'
    BY <2>1, <2>2
  <2> QED BY <2>3, <2>4
<1>17. CASE UNCHANGED vars
  BY <1>17 DEF vars
<1> QED BY <1>1, <1>2, <1>3, <1>4, <1>5, <1>6, <1>7, <1>8, <1>9, <1>10, <1>11, <1>12, <1>13, <1>14, <1>15, <1>16, <1>17 DEF Next, Step

\* Every step passes only rows that are dealt with.
LEMMA PassStep ==
  ASSUME ImportInv, [Next]_vars
  PROVE  PassInv'
<1> USE BoundAssumption DEF ImportInv, TypeOK, CursorInv, PassInv, PassedRowsHandedOver, Kinds, Rows, Importing, Mailing, Ended
<1>1. ASSUME NEW kind \in Kinds, AddVideo(kind)
      PROVE  PassInv'
  BY <1>1 DEF AddVideo
<1>2. ASSUME NEW n \in Rows, Withdraw(n)
      PROVE  PassInv'
  <2>1. \A m \in DOMAIN table : table[m] = "hidden" => table'[m] = "hidden"
    BY <1>2 DEF Withdraw
  <2>2. idFile - 1 <= Len(table) /\ (pc = "save" => id <= Len(table))
    BY Numbers
  <2>3. UNCHANGED <<idFile, pc, id, dels, adds, failed>>
    BY <1>2 DEF Withdraw
  <2>4. DOMAIN table = 1 .. Len(table)
    OBVIOUS
  <2>5. \A m \in 1 .. idFile - 1 : m \in DOMAIN table
    BY Numbers, <2>2, <2>4
  <2>6. pc = "save" /\ id # 0 => id \in DOMAIN table
    BY Numbers, <2>2, <2>4
  <2>7. PassedRowsHandedOver'
    BY <2>1, <2>3, <2>5
  <2> QED BY <2>1, <2>3, <2>6, <2>7
<1>3. CASE Start
  BY <1>3 DEF Start
<1>4. CASE Count
  BY <1>4 DEF Count
<1>5. CASE CountFails
  BY <1>5 DEF CountFails
<1>6. CASE Fetch
  BY <1>6 DEF Fetch
<1>7. CASE FetchFails
  BY <1>7 DEF FetchFails
<1>8. CASE Call
  <2>1. PassedRowsHandedOver'
    <3>1. UNCHANGED <<idFile, table, failed>>
      BY <1>8 DEF Call
    <3>2. \A n \in 1 .. idFile - 1 : n \in Rows /\ n # id
      <4>1. id = idFile /\ id <= total
        BY <1>8, CallEffect
      <4>2. id \in Nat /\ total \in Nat /\ MaxRows \in Nat /\ total <= MaxRows
        BY Numbers
      <4> HIDE DEF ImportInv
      <4> QED BY <4>1, <4>2
    <3> HIDE DEF Rows
    <3> QED BY <1>8, <3>1, <3>2, CallEffect
  <2>2. id \in Rows /\ adds'[id] + dels'[id] > 0 /\ id' = id
    <3>1. id \in Rows /\ adds'[id] + dels'[id] = adds[id] + dels[id] + 1
      BY <1>8, CallEffect
    <3>2. adds[id] \in Nat /\ dels[id] \in Nat
      BY <3>1, Numbers
    <3>3. id' = id
      BY <1>8 DEF Call
    <3> QED BY <3>1, <3>2, <3>3
  <2> QED BY <2>1, <2>2
<1>9. CASE CallFails
  BY <1>9 DEF CallFails
<1>10. CASE Save
  <2>1. /\ pc = "save" /\ id = idFile /\ idFile' = id + 1 /\ pc' # "save"
        /\ UNCHANGED <<table, adds, dels, failed>>
    BY <1>10 DEF Save
  <2>2. \A n \in 1 .. idFile' - 1 : n \in 1 .. idFile - 1 \/ n = id
    BY <2>1, Numbers
  <2>3. \A n \in 1 .. idFile' - 1 : n # 0
    OBVIOUS
  <2> QED BY <2>1, <2>2, <2>3
<1>11. CASE AppendLog
  BY <1>11 DEF AppendLog
<1>12. CASE StartMonitor
  BY <1>12 DEF StartMonitor
<1>13. CASE ReadLog
  BY <1>13 DEF ReadLog
<1>14. CASE sendEmail
  BY <1>14 DEF sendEmail
<1>15. CASE RemoveLog
  BY <1>15 DEF RemoveLog
<1>16. CASE Crash
  <2>1. idFile' \in {idFile, 0} /\ pc' = "crashed" /\ UNCHANGED <<table, adds, dels, failed>>
    BY <1>16 DEF Crash
  <2>2. CASE idFile' = idFile
    BY <2>1, <2>2
  <2>3. CASE idFile' = 0
    <3>1. 1 .. idFile' - 1 = {}
      BY <2>3
    <3> QED BY <2>1, <3>1
  <2> QED BY <2>1, <2>2, <2>3
<1>17. CASE UNCHANGED vars
  BY <1>17 DEF vars
<1> QED BY <1>1, <1>2, <1>3, <1>4, <1>5, <1>6, <1>7, <1>8, <1>9, <1>10, <1>11, <1>12, <1>13, <1>14, <1>15, <1>16, <1>17 DEF Next, Step

\* Every step keeps the count of repetitions.
LEMMA RepeatStep ==
  ASSUME ImportInv, [Next]_vars
  PROVE  RepeatInv'
<1> USE BoundAssumption DEF ImportInv, TypeOK, CursorInv, RepeatInv, RepeatsNeedCrashes, Rows, Importing, Mailing, Ended
<1>1. ASSUME NEW kind \in Kinds, AddVideo(kind)
      PROVE  RepeatInv'
  BY <1>1 DEF AddVideo
<1>2. ASSUME NEW n \in Rows, Withdraw(n)
      PROVE  RepeatInv'
  BY <1>2 DEF Withdraw
<1>3. CASE Start
  BY <1>3 DEF Start
<1>4. CASE Count
  BY <1>4 DEF Count
<1>5. CASE CountFails
  BY <1>5 DEF CountFails
<1>6. CASE Fetch
  <2>1. /\ pc = "fetch" /\ id = idFile /\ id \in Rows /\ pc' \in {"save", "call"}
        /\ UNCHANGED <<idFile, id, adds, dels, crashes>>
    BY <1>6, Numbers DEF Fetch
  <2>2. adds[id] + dels[id] <= crashes
    BY <2>1, Numbers
  <2>3. dels[id] <= crashes
    BY <2>1, <2>2, Numbers
  <2> QED BY <2>1, <2>3, Numbers
<1>7. CASE FetchFails
  BY <1>7 DEF FetchFails
<1>8. CASE Call
  <2>1. pc = "call" /\ pc' = "save" /\ UNCHANGED <<idFile, id, row, crashes>>
    BY <1>8 DEF Call
  <2>2. id \in Rows /\ id = idFile
    BY <1>8, CallEffect
  <2>3. adds[id] + dels[id] <= crashes /\ dels[id] <= crashes
    BY <2>1, <2>2, Numbers
  <2>4. RepeatsNeedCrashes'
    <3> SUFFICES ASSUME NEW n \in Rows
                 PROVE  adds'[n] + dels'[n] <= 1 + crashes
      BY <2>1
    <3>1. CASE n = id
      <4>1. adds'[id] + dels'[id] = adds[id] + dels[id] + 1
        BY <1>8, CallEffect
      <4>2. adds[id] \in Nat /\ dels[id] \in Nat /\ crashes \in Nat
        BY <2>2, Numbers
      <4> QED BY <2>3, <3>1, <4>1, <4>2
    <3>2. CASE n # id
      BY <1>8, <3>2, CallEffect
    <3> QED BY <3>1, <3>2
  <2>5. \A n \in Rows : n >= idFile /\ n # id => adds'[n] + dels'[n] <= crashes
    BY <1>8, <2>1, CallEffect
  <2>6. row # "del" => dels'[id] <= crashes
    BY <1>8, <2>3, CallEffect
  <2> QED BY <2>1, <2>4, <2>5, <2>6
<1>9. CASE CallFails
  <2>1. /\ pc = "call" /\ pc' = "save" /\ id = idFile /\ id \in Rows
        /\ UNCHANGED <<idFile, id, row, adds, dels, crashes>>
    BY <1>9, Numbers DEF CallFails
  <2>2. adds[id] + dels[id] <= crashes /\ dels[id] <= crashes
    BY <2>1, Numbers
  <2> QED BY <2>1, <2>2, Numbers
<1>10. CASE Save
  BY <1>10 DEF Save
<1>11. CASE AppendLog
  BY <1>11 DEF AppendLog
<1>12. CASE StartMonitor
  BY <1>12 DEF StartMonitor
<1>13. CASE ReadLog
  BY <1>13 DEF ReadLog
<1>14. CASE sendEmail
  BY <1>14 DEF sendEmail
<1>15. CASE RemoveLog
  BY <1>15 DEF RemoveLog
<1>16. CASE Crash
  <2>1. pc' = "crashed" /\ crashes' = crashes + 1 /\ UNCHANGED <<adds, dels>>
    BY <1>16 DEF Crash
  <2>2. \A n \in Rows : adds[n] \in Nat /\ dels[n] \in Nat /\ crashes \in Nat
    BY Numbers
  <2>3. \A n \in Rows : adds[n] + dels[n] <= 1 + crashes
    OBVIOUS
  <2>4. \A n \in Rows : adds'[n] + dels'[n] <= crashes' /\ adds'[n] + dels'[n] <= 1 + crashes'
    BY <2>1, <2>2, <2>3
  <2> QED BY <2>1, <2>4
<1>17. CASE UNCHANGED vars
  BY <1>17 DEF vars
<1> QED BY <1>1, <1>2, <1>3, <1>4, <1>5, <1>6, <1>7, <1>8, <1>9, <1>10, <1>11, <1>12, <1>13, <1>14, <1>15, <1>16, <1>17 DEF Next, Step

\* Every step keeps what is known of the deleted rows.
LEMMA DeletedStep ==
  ASSUME ImportInv, [Next]_vars
  PROVE  DeletedInv'
<1> USE BoundAssumption DEF ImportInv, TypeOK, CursorInv, DeletedInv, Rows, Importing
<1>1. ASSUME NEW kind \in Kinds, AddVideo(kind)
      PROVE  DeletedInv'
  BY <1>1 DEF AddVideo
<1>2. ASSUME NEW n \in Rows, Withdraw(n)
      PROVE  DeletedInv'
  BY <1>2 DEF Withdraw
<1>3. CASE Start \/ Count \/ CountFails \/ AppendLog \/ StartMonitor \/ ReadLog \/ RemoveLog
  BY <1>3 DEF Start, Count, CountFails, AppendLog, StartMonitor, ReadLog, RemoveLog
<1>4. CASE Fetch
  BY <1>4 DEF Fetch
<1>5. CASE FetchFails
  BY <1>5 DEF FetchFails
<1>6. CASE Call
  <2>1. pc' = "save" /\ UNCHANGED <<table, failed, row, id>> /\ pc = "call"
    BY <1>6 DEF Call
  <2>2. id \in Rows /\ id <= Len(table)
    BY <1>6, CallEffect
  <2>3. \A n \in Rows : dels'[n] > 0 => dels[n] > 0 \/ (n = id /\ row = "del")
    <3> SUFFICES ASSUME NEW n \in Rows, dels'[n] > 0
                 PROVE  dels[n] > 0 \/ (n = id /\ row = "del")
      OBVIOUS
    <3>1. CASE n = id
      BY <1>6, <3>1, CallEffect
    <3>2. CASE n # id
      BY <1>6, <3>2, CallEffect
    <3> QED BY <3>1, <3>2
  <2>4. dels'[id] \in Nat
    BY <1>6, <2>2, CallEffect
  <2>5. \A n \in Rows : dels'[n] > 0 => n \in 1 .. Len(table) /\ table[n] = "del"
    <3> SUFFICES ASSUME NEW n \in Rows, dels'[n] > 0
                 PROVE  n \in 1 .. Len(table) /\ table[n] = "del"
      OBVIOUS
    <3>1. CASE dels[n] > 0
      BY <3>1
    <3>2. CASE n = id /\ row = "del"
      <4>1. id \in 1 .. Len(table)
        BY <2>2
      <4> QED BY <2>1, <3>2, <4>1
    <3> QED BY <2>3, <3>1, <3>2
  <2>6. row # "del" => dels'[id] = 0
    BY <2>1, <2>2, <2>3, <2>4
  <2> HIDE DEF Rows
  <2> QED BY <2>1, <2>5, <2>6
<1>7. CASE CallFails
  BY <1>7 DEF CallFails
<1>8. CASE Save
  BY <1>8 DEF Save
<1>9. CASE sendEmail
  BY <1>9 DEF sendEmail
<1>10. CASE Crash
  BY <1>10 DEF Crash
<1>11. CASE UNCHANGED vars
  BY <1>11 DEF vars
<1> QED BY <1>1, <1>2, <1>3, <1>4, <1>5, <1>6, <1>7, <1>8, <1>9, <1>10, <1>11 DEF Next, Step

\* The log that was read is the log that is mailed and removed.
LEMMA MailStep ==
  ASSUME ImportInv, [Next]_vars
  PROVE  MailInv'
BY DEF ImportInv, MailInv, Next, Step, vars, AddVideo, Withdraw, Start, Count, CountFails, Fetch,
       FetchFails, Call, CallFails, Save, AppendLog, StartMonitor, ReadLog, sendEmail, RemoveLog, Crash

\* The row an import handles when it dies.
Handled == IF pc = "save" THEN id ELSE id - 1

\* No step adds to the unreported deletions but a crash, which adds the row
\* that was handled.
LEMMA UnreportedStep ==
  ASSUME ImportInv, [Next]_vars
  PROVE  \/ Unreported' \subseteq Unreported /\ crashes' = crashes
         \/ Unreported' \subseteq Unreported \cup {Handled} /\ crashes' = crashes + 1
<1> USE BoundAssumption DEF ImportInv, TypeOK, CursorInv, DeletedInv, MailInv, Unreported, Rows, Importing
<1>1. ASSUME NEW kind \in Kinds, AddVideo(kind)
      PROVE  Unreported' \subseteq Unreported /\ crashes' = crashes
  BY <1>1 DEF AddVideo
<1>2. ASSUME NEW n \in Rows, Withdraw(n)
      PROVE  Unreported' \subseteq Unreported /\ crashes' = crashes
  BY <1>2 DEF Withdraw
<1>3. CASE Start
  BY <1>3 DEF Start, Ended
<1>4. CASE Count \/ CountFails \/ StartMonitor \/ ReadLog
  BY <1>4 DEF Count, CountFails, StartMonitor, ReadLog
<1>5. CASE Fetch \/ FetchFails \/ CallFails
  BY <1>5 DEF Fetch, FetchFails, CallFails
<1>6. CASE Call
  <2>1. pc = "call" /\ pc' = "save" /\ UNCHANGED <<delLog, mailed, failed, id, crashes>>
    BY <1>6 DEF Call
  <2>2. \A n \in Rows : n # id => dels'[n] = dels[n]
    BY <1>6, CallEffect
  <2> HIDE DEF Rows
  <2> QED BY <2>1, <2>2
<1>7. CASE Save
  BY <1>7 DEF Save
<1>8. CASE AppendLog
  BY <1>8 DEF AppendLog
<1>9. CASE sendEmail
  BY <1>9 DEF sendEmail
<1>10. CASE RemoveLog
  BY <1>10 DEF RemoveLog
<1>11. CASE Crash
  BY <1>11 DEF Crash, Handled
<1>12. CASE UNCHANGED vars
  BY <1>12 DEF vars
<1> QED BY <1>1, <1>2, <1>3, <1>4, <1>5, <1>6, <1>7, <1>8, <1>9, <1>10, <1>11, <1>12 DEF Next, Step

\* So there are never more of them than imports that died.
LEMMA ReportStep ==
  ASSUME ImportInv, [Next]_vars
  PROVE  DeletionsReported'
<1>1. IsFiniteSet(Unreported) /\ IsFiniteSet(Unreported')
  <2>1. IsFiniteSet(Rows)
    BY BoundAssumption, FS_Interval DEF Rows
  <2>2. Unreported \in SUBSET Rows /\ Unreported' \in SUBSET Rows
    BY DEF Unreported
  <2> QED BY <2>1, <2>2, FS_Subset
<1>2. /\ Cardinality(Unreported) \in Nat /\ Cardinality(Unreported') \in Nat /\ crashes \in Nat
      /\ Cardinality(Unreported) <= crashes
  BY <1>1, FS_CardinalityType DEF ImportInv, TypeOK, DeletionsReported
<1>3. CASE Unreported' \subseteq Unreported /\ crashes' = crashes
  <2>1. Cardinality(Unreported') <= Cardinality(Unreported)
    BY <1>1, <1>3, FS_Subset
  <2> QED BY <1>2, <1>3, <2>1 DEF DeletionsReported
<1>4. CASE Unreported' \subseteq Unreported \cup {Handled} /\ crashes' = crashes + 1
  <2>1. /\ IsFiniteSet(Unreported \cup {Handled})
        /\ Cardinality(Unreported \cup {Handled}) <= Cardinality(Unreported) + 1
    BY <1>1, <1>2, FS_AddElement
  <2>2. Cardinality(Unreported') <= Cardinality(Unreported \cup {Handled})
    BY <1>4, <2>1, FS_Subset
  <2>3. Cardinality(Unreported \cup {Handled}) \in Nat
    BY <2>1, FS_CardinalityType
  <2> QED BY <1>2, <1>4, <2>1, <2>2, <2>3 DEF DeletionsReported
<1> QED BY <1>3, <1>4, UnreportedStep

\* Every step logs and mails deletions only.
LEMMA OnlyStep ==
  ASSUME ImportInv, [Next]_vars
  PROVE  OnlyInv'
<1> USE BoundAssumption DEF ImportInv, TypeOK, CursorInv, MailInv, OnlyInv, OnlyDeletionsReported, Rows, Importing
<1>1. ASSUME NEW kind \in Kinds, AddVideo(kind)
      PROVE  OnlyInv'
  BY <1>1 DEF AddVideo
<1>2. ASSUME NEW n \in Rows, Withdraw(n)
      PROVE  OnlyInv'
  BY <1>2 DEF Withdraw
<1>3. CASE Start
  BY <1>3 DEF Start
<1>4. CASE Count
  BY <1>4 DEF Count
<1>5. CASE CountFails
  BY <1>5 DEF CountFails
<1>6. CASE Fetch
  BY <1>6 DEF Fetch
<1>7. CASE FetchFails
  BY <1>7 DEF FetchFails
<1>8. CASE Call
  <2>1. pc' = "save" /\ UNCHANGED <<delLog, mailed, failed, row, id>>
    BY <1>8 DEF Call
  <2>2. \A n \in Rows : dels[n] > 0 => dels'[n] > 0
    <3> SUFFICES ASSUME NEW n \in Rows, dels[n] > 0
                 PROVE  dels'[n] > 0
      OBVIOUS
    <3>1. CASE n = id
      BY <1>8, <3>1, CallEffect
    <3>2. CASE n # id
      BY <1>8, <3>2, CallEffect
    <3> QED BY <3>1, <3>2
  <2>3. row = "del" => dels'[id] > 0
    BY <1>8, CallEffect
  <2> HIDE DEF Rows
  <2> QED BY <2>1, <2>2, <2>3
<1>9. CASE CallFails
  BY <1>9 DEF CallFails
<1>10. CASE Save
  BY <1>10 DEF Save
<1>11. CASE AppendLog
  BY <1>11 DEF AppendLog
<1>12. CASE StartMonitor
  BY <1>12 DEF StartMonitor
<1>13. CASE ReadLog
  BY <1>13 DEF ReadLog
<1>14. CASE sendEmail
  BY <1>14 DEF sendEmail
<1>15. CASE RemoveLog
  BY <1>15 DEF RemoveLog
<1>16. CASE Crash
  BY <1>16 DEF Crash
<1>17. CASE UNCHANGED vars
  BY <1>17 DEF vars
<1> QED BY <1>1, <1>2, <1>3, <1>4, <1>5, <1>6, <1>7, <1>8, <1>9, <1>10, <1>11, <1>12, <1>13, <1>14, <1>15, <1>16, <1>17 DEF Next, Step

\* An import that has not started knows nothing, and that is enough.
LEMMA ImportInit == Init => ImportInv
<1> SUFFICES ASSUME Init PROVE ImportInv
  OBVIOUS
<1>1. TypeOK /\ CursorInv /\ PassInv /\ RepeatInv /\ DeletedInv /\ MailInv /\ OnlyInv
  BY BoundAssumption
     DEF Init, TypeOK, CursorInv, PassInv, PassedRowsHandedOver, RepeatInv, RepeatsNeedCrashes,
         DeletedInv, MailInv, OnlyInv, OnlyDeletionsReported, Kinds, Rows, Importing, Mailing, Ended
<1>2. DeletionsReported
  <2>1. Unreported = {} /\ crashes = 0
    BY DEF Init, Unreported
  <2> QED BY <2>1, FS_EmptySet DEF DeletionsReported
<1> QED BY <1>1, <1>2 DEF ImportInv

\* The invariant is inductive.
THEOREM ImportInvariant == Spec => []ImportInv
<1>1. ImportInv /\ [Next]_vars => ImportInv'
  BY CursorStep, PassStep, RepeatStep, DeletedStep, MailStep, ReportStep, OnlyStep DEF ImportInv
<1> QED BY <1>1, ImportInit, PTL DEF Spec

\* The variables of the import and of Monitor keep their types: the cursor
\* never runs more than one row past the table.
THEOREM TypeCorrect == Spec => []TypeOK
<1>1. ImportInv => TypeOK
  BY DEF ImportInv
<1> QED BY <1>1, ImportInvariant, PTL

\* The number saved in new_video_id never passes a video by.
THEOREM NoRowSkipped == Spec => []PassedRowsHandedOver
<1>1. ImportInv => PassedRowsHandedOver
  BY DEF ImportInv, PassInv
<1> QED BY <1>1, ImportInvariant, PTL

\* The queue gets a video once, and once more at most for each import that died.
THEOREM RepeatsBounded == Spec => []RepeatsNeedCrashes
<1>1. ImportInv => RepeatsNeedCrashes
  BY DEF ImportInv, RepeatInv
<1> QED BY <1>1, ImportInvariant, PTL

\* Every deletion gets into the log or a mail, or failed, but for one at most
\* for each import that died.
THEOREM DeletionsAreReported == Spec => []DeletionsReported
<1>1. ImportInv => DeletionsReported
  BY DEF ImportInv
<1> QED BY <1>1, ImportInvariant, PTL

\* The log and the mails name only videos that were to be deleted.
THEOREM NothingElseReported == Spec => []OnlyDeletionsReported
<1>1. ImportInv => OnlyDeletionsReported
  BY DEF ImportInv, OnlyInv
<1> QED BY <1>1, ImportInvariant, PTL
=============================================================================
