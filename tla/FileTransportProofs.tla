------------------------ MODULE FileTransportProofs ------------------------
(* What TLAPS proves of FileTransport, for any events, sizes and errors. *)
EXTENDS FileTransport, TLAPS

-----------------------------------------------------------------------------
(* Types *)

\* A client that waits for room has an event to add.
TypeInv == TypeOK /\ (cpc \in {"fullWaiting", "fullWoken"} => next <= Events)

Records == [ev : 0 .. Events, at : Nat, size : Nat]

\* The end of the file and where its last chunk begins.
LEMMA FileNumbers ==
  ASSUME TypeOK
  PROVE  FileSize \in Nat /\ LastChunk \in Nat /\ LastChunk <= FileSize
<1>1. FileSize \in Nat
  <2>1. CASE file = <<>>
    BY <2>1 DEF TypeOK, FileSize
  <2>2. CASE file # <<>>
    <3>1. file \in Seq(Records)
      BY DEF TypeOK, Records
    <3>2. file[Len(file)] \in Records
      <4> HIDE DEF Records
      <4> QED BY <2>2, <3>1
    <3> QED BY <2>2, <3>2 DEF FileSize, Records
  <2> QED BY <2>1, <2>2
<1>2. ChunkSize \in Nat \ {0}
  BY FileAssumption
<1> HIDE DEF FileSize
<1> QED BY <1>1, <1>2 DEF LastChunk

\* seekToEnd ends at a place in the file.
LEMMA SeekNumbers ==
  ASSUME TypeOK, NEW s \in seekToEnd
  PROVE  s.offset \in Nat /\ s.dispatch \in Nat
<1> DEFINE length == FileSize - LastChunk
           blocks == IF length = 0 THEN 0 ELSE ((length - 1) \div ReadBuffSize) * ReadBuffSize
<1>1. FileSize \in Nat /\ LastChunk \in Nat /\ LastChunk <= FileSize
  BY FileNumbers
<1>2. length \in Nat /\ ReadBuffSize \in Nat \ {0}
  BY <1>1, FileAssumption
<1>3. CASE Garbled
  <2>1. s \in [offset : LastChunk .. FileSize, dispatch : {0}]
    BY <1>3 DEF seekToEnd
  <2> QED BY <1>1, <2>1
<1>4. CASE ~ Garbled /\ base.torn /\ file = <<>>
  <2>1. s = [offset |-> FileSize, dispatch |-> 0]
    BY <1>4 DEF seekToEnd
  <2> QED BY <1>1, <2>1
<1>5. CASE ~ Garbled /\ ~ (base.torn /\ file = <<>>)
  <2>1. s = [offset |-> LastChunk + blocks, dispatch |-> length - blocks]
    BY <1>5 DEF seekToEnd
  <2>2. blocks \in Nat /\ length - blocks \in Nat
    <3> HIDE DEF length
    <3>1. CASE length = 0
      BY <3>1
    <3>2. CASE length # 0
      <4> DEFINE l == length - 1
      <4>1. l \in Nat /\ l < length
        BY <1>2, <3>2
      <4> HIDE DEF l
      <4>2. (l \div ReadBuffSize) * ReadBuffSize \in Nat /\ (l \div ReadBuffSize) * ReadBuffSize <= l
        BY <1>2, <4>1
      <4>3. blocks = (l \div ReadBuffSize) * ReadBuffSize
        BY <3>2 DEF l
      <4> HIDE DEF blocks
      <4> QED BY <1>2, <4>1, <4>2, <4>3
    <3> QED BY <3>1, <3>2
  <2> HIDE DEF blocks, length
  <2> QED BY <1>1, <2>1, <2>2
<1> QED BY <1>3, <1>4, <1>5

\* What is appended is a record.
LEMMA AppendedRecords ==
  ASSUME TypeOK, NEW e \in 0 .. Events, NEW n \in Nat
  PROVE  /\ Appended(e, n) \in Seq(Records) /\ Len(Appended(e, n)) = Len(file) + 1
         /\ Appended(e, n)[Len(file) + 1] = [ev |-> e, at |-> FileSize, size |-> n]
         /\ \A k \in DOMAIN file : Appended(e, n)[k] = file[k]
<1>1. FileSize \in Nat /\ file \in Seq(Records)
  BY FileNumbers DEF TypeOK, Records
<1>2. [ev |-> e, at |-> FileSize, size |-> n] \in Records
  BY <1>1 DEF Records
<1> HIDE DEF Records, FileSize
<1> QED BY <1>1, <1>2 DEF Appended

\* An event takes some bytes, and so does the padding of a chunk.
LEMMA Sizes ==
  ASSUME TypeOK, NEW e \in 1 .. Events
  PROVE  EventSize(e) \in Nat /\ ChunkSize - (FileSize % ChunkSize) \in Nat
<1>1. EventSize(e) \in Nat
  BY FileAssumption DEF EventSize
<1>2. FileSize \in Nat /\ ChunkSize \in Nat \ {0}
  BY FileNumbers, FileAssumption
<1> HIDE DEF FileSize
<1> QED BY <1>1, <1>2

\* The types, in parts.
BufferTypes == enqueueBuffer \in Seq(1 .. Events) /\ dequeueBuffer \in Seq(1 .. Events)

FlagTypes ==
  /\ closing \in BOOLEAN /\ forceFlush \in BOOLEAN /\ reopened \in BOOLEAN
  /\ hasIOError \in BOOLEAN /\ forced \in BOOLEAN /\ due \in BOOLEAN

CountTypes == offset \in Nat /\ synced \in Nat /\ unflushed \in Nat

FileTypes == base \in [size : Nat, torn : BOOLEAN] /\ file \in Seq(Records)

ThreadTypes ==
  /\ wpc \in {"none", "init", "top", "swap", "toWait", "waiting", "woken", "write", "check",
              "sync", "flushed", "exited"}
  /\ cpc \in {"ready", "fullWaiting", "fullWoken", "flushWaiting", "flushWoken", "closing",
              "joining", "gone"}
  /\ next \in 1 .. Events + 1
  /\ cpc \in {"fullWaiting", "fullWoken"} => next <= Events

HistoryTypes ==
  accepted \subseteq 1 .. Events /\ dropped \subseteq 1 .. Events /\ errors \in 0 .. MaxErrors

\* The parts are together the type invariant.
LEMMA TypeParts ==
  TypeInv <=> /\ BufferTypes /\ FlagTypes /\ CountTypes
              /\ FileTypes /\ ThreadTypes /\ HistoryTypes
BY DEF TypeInv, TypeOK, Records, BufferTypes, FlagTypes, CountTypes, FileTypes, ThreadTypes, HistoryTypes

\* Every step keeps the types.
LEMMA TypeStep ==
  ASSUME TypeInv, [Next]_vars
  PROVE  TypeInv'
<1> USE DEF buffers, disk, writer, history
<1>1. BufferTypes /\ FlagTypes /\ CountTypes /\ FileTypes /\ ThreadTypes /\ HistoryTypes /\ TypeOK
  BY TypeParts DEF TypeInv
<1>2. ASSUME BufferTypes', FlagTypes', CountTypes', FileTypes', ThreadTypes', HistoryTypes'
      PROVE  TypeInv'
  <2>1. TypeInv' <=> /\ BufferTypes' /\ FlagTypes' /\ CountTypes'
                     /\ FileTypes' /\ ThreadTypes' /\ HistoryTypes'
    BY TypeParts, PTL
  <2> QED BY <1>2, <2>1
<1>3. /\ UNCHANGED <<enqueueBuffer, dequeueBuffer>> => BufferTypes'
      /\ UNCHANGED <<closing, forceFlush, reopened, hasIOError, forced, due>> => FlagTypes'
      /\ UNCHANGED <<offset, synced, unflushed>> => CountTypes'
      /\ UNCHANGED <<base, file>> => FileTypes'
      /\ UNCHANGED <<wpc, cpc, next>> => ThreadTypes'
      /\ UNCHANGED <<accepted, dropped, errors>> => HistoryTypes'
  <2>1. UNCHANGED <<enqueueBuffer, dequeueBuffer>> => BufferTypes'
    BY <1>1 DEF BufferTypes
  <2>2. UNCHANGED <<closing, forceFlush, reopened, hasIOError, forced, due>> => FlagTypes'
    BY <1>1 DEF FlagTypes
  <2>3. UNCHANGED <<offset, synced, unflushed>> => CountTypes'
    BY <1>1 DEF CountTypes
  <2>4. UNCHANGED <<base, file>> => FileTypes'
    BY <1>1 DEF FileTypes
  <2>5. UNCHANGED <<wpc, cpc, next>> => ThreadTypes'
    BY <1>1 DEF ThreadTypes
  <2>6. UNCHANGED <<accepted, dropped, errors>> => HistoryTypes'
    BY <1>1 DEF HistoryTypes
  <2> QED BY <2>1, <2>2, <2>3, <2>4, <2>5, <2>6
<1>4. CASE RefuseEvent
  <2>1. ThreadTypes'
    BY <1>1, <1>4, FileAssumption DEF ThreadTypes, RefuseEvent
  <2> QED BY <1>2, <1>3, <1>4, <2>1 DEF RefuseEvent
<1>5. CASE FlushWoken
  <2>1. ThreadTypes'
    BY <1>1, <1>5, FileAssumption DEF ThreadTypes, FlushWoken
  <2> QED BY <1>2, <1>3, <1>5, <2>1 DEF FlushWoken
<1>6. CASE CloseNotifies
  <2>1. ThreadTypes'
    BY <1>1, <1>6, FileAssumption DEF ThreadTypes, CloseNotifies, NotifyWriter
  <2> QED BY <1>2, <1>3, <1>6, <2>1 DEF CloseNotifies
<1>7. CASE Joined
  <2>1. ThreadTypes'
    BY <1>1, <1>7, FileAssumption DEF ThreadTypes, Joined
  <2> QED BY <1>2, <1>3, <1>7, <2>1 DEF Joined
<1>8. CASE enqueueEvent \/ EnqueueWoken
  <2>1. next <= Events /\ next \in 1 .. Events + 1
    BY <1>1, <1>8 DEF ThreadTypes, enqueueEvent, EnqueueWoken
  <2>2. UNCHANGED <<dequeueBuffer, closing, forceFlush, offset, disk, writer, dropped, reopened, errors>>
    BY <1>8 DEF enqueueEvent, EnqueueWoken
  <2>3. CASE AddEvent
    <3>1. next \in 1 .. Events /\ next' \in 1 .. Events + 1
      BY <2>1, <2>3, FileAssumption DEF AddEvent
    <3>2. BufferTypes'
      BY <1>1, <2>2, <2>3, <3>1 DEF BufferTypes, AddEvent
    <3>3. HistoryTypes'
      BY <1>1, <2>2, <2>3, <3>1 DEF HistoryTypes, AddEvent
    <3>4. wpc' \in {wpc, "init", "woken"} /\ cpc' = "ready"
      BY <1>8, <2>3 DEF enqueueEvent, EnqueueWoken, AddEvent, NotifyWriter
    <3>5. ThreadTypes'
      BY <1>1, <3>1, <3>4 DEF ThreadTypes
    <3> QED BY <1>2, <1>3, <2>2, <3>2, <3>3, <3>5
  <2>4. CASE cpc' = "fullWaiting" /\ UNCHANGED <<enqueueBuffer, accepted, next, wpc>>
    <3>1. ThreadTypes'
      BY <1>1, <2>1, <2>4 DEF ThreadTypes
    <3> QED BY <1>2, <1>3, <2>2, <2>4, <3>1
  <2> QED BY <1>8, <2>3, <2>4 DEF enqueueEvent, EnqueueWoken
<1>9. CASE flush
  <2>1. ThreadTypes'
    BY <1>1, <1>9, FileAssumption DEF ThreadTypes, flush, NotifyWriter
  <2>2. FlagTypes'
    BY <1>1, <1>9 DEF FlagTypes, flush
  <2> QED BY <1>2, <1>3, <1>9, <2>1, <2>2 DEF flush
<1>10. CASE Close
  <2>1. ThreadTypes'
    BY <1>1, <1>10, FileAssumption DEF ThreadTypes, Close
  <2>2. FlagTypes'
    BY <1>1, <1>10 DEF FlagTypes, Close
  <2> QED BY <1>2, <1>3, <1>10, <2>1, <2>2 DEF Close
<1>11. CASE StartWriter
  <2>1. PICK s \in seekToEnd :
          /\ offset' = s.offset + s.dispatch
          /\ base' = IF offset' < base.size THEN [size |-> offset', torn |-> FALSE] ELSE base
    BY <1>11 DEF StartWriter
  <2>2. offset' \in Nat
    BY <1>1, <2>1, SeekNumbers
  <2>3. base' \in [size : Nat, torn : BOOLEAN]
    BY <1>1, <2>1, <2>2 DEF FileTypes
  <2>4. CountTypes'
    BY <1>1, <1>11, <2>2 DEF CountTypes, StartWriter
  <2>5. FileTypes'
    BY <1>1, <1>11, <2>3 DEF FileTypes, StartWriter
  <2>6. ThreadTypes'
    BY <1>1, <1>11, FileAssumption DEF ThreadTypes, StartWriter
  <2>7. FlagTypes'
    BY <1>1, <1>11 DEF FlagTypes, StartWriter
  <2> QED BY <1>2, <1>3, <1>11, <2>4, <2>5, <2>6, <2>7 DEF StartWriter
<1>12. CASE StartFails
  <2>1. HistoryTypes'
    BY <1>1, <1>12, FileAssumption DEF HistoryTypes, StartFails
  <2>2. ThreadTypes'
    BY <1>1, <1>12, FileAssumption DEF ThreadTypes, StartFails
  <2>3. FlagTypes'
    BY <1>1, <1>12 DEF FlagTypes, StartFails
  <2> QED BY <1>2, <1>3, <1>12, <2>1, <2>2, <2>3 DEF StartFails
<1>13. CASE Top
  <2>1. CountTypes'
    BY <1>1, <1>13 DEF CountTypes, FileTypes, Top
  <2>2. ThreadTypes'
    BY <1>1, <1>13, FileAssumption DEF ThreadTypes, Top
  <2> QED BY <1>2, <1>3, <1>13, <2>1, <2>2 DEF Top
<1>14. CASE Sync
  <2>1. CountTypes'
    BY <1>1, <1>14 DEF CountTypes, FileTypes, Sync
  <2>2. ThreadTypes'
    BY <1>1, <1>14, FileAssumption DEF ThreadTypes, Sync
  <2>3. FlagTypes'
    BY <1>1, <1>14 DEF FlagTypes, Sync
  <2> QED BY <1>2, <1>3, <1>14, <2>1, <2>2, <2>3 DEF Sync
<1>15. CASE SwapNothing
  <2>1. ThreadTypes'
    BY <1>1, <1>15, FileAssumption DEF ThreadTypes, SwapNothing
  <2> QED BY <1>2, <1>3, <1>15, <2>1 DEF SwapNothing
<1>16. CASE Wait
  <2>1. ThreadTypes'
    BY <1>1, <1>16, FileAssumption DEF ThreadTypes, Wait
  <2> QED BY <1>2, <1>3, <1>16, <2>1 DEF Wait
<1>17. CASE TimesOut
  <2>1. ThreadTypes'
    BY <1>1, <1>17, FileAssumption DEF ThreadTypes, TimesOut
  <2> QED BY <1>2, <1>3, <1>17, <2>1 DEF TimesOut
<1>18. CASE BatchDone
  <2>1. ThreadTypes'
    BY <1>1, <1>18, FileAssumption DEF ThreadTypes, BatchDone
  <2> QED BY <1>2, <1>3, <1>18, <2>1 DEF BatchDone
<1>19. CASE SwapFull
  <2>1. ThreadTypes'
    BY <1>1, <1>19, FileAssumption DEF ThreadTypes, SwapFull, Swap, NotifyNotFull
  <2>2. BufferTypes'
    BY <1>1, <1>19 DEF BufferTypes, SwapFull, Swap
  <2> QED BY <1>2, <1>3, <1>19, <2>1, <2>2 DEF SwapFull
<1>20. CASE Woken
  <2>1. ThreadTypes'
    BY <1>1, <1>20, FileAssumption DEF ThreadTypes, Woken, Swap, NotifyNotFull
  <2>2. BufferTypes'
    BY <1>1, <1>20 DEF BufferTypes, Woken, Swap
  <2> QED BY <1>2, <1>3, <1>20, <2>1, <2>2 DEF Woken
<1>21. ASSUME NEW e \in 1 .. Events, Reopen(e)
       PROVE  TypeInv'
  <2>1. offset' \in Nat
    BY <1>1, <1>21, SeekNumbers DEF Reopen
  <2>2. CountTypes'
    BY <1>1, <1>21, <2>1 DEF CountTypes, Reopen
  <2>3. FlagTypes'
    BY <1>1, <1>21 DEF FlagTypes, Reopen
  <2> QED BY <1>2, <1>3, <1>21, <2>2, <2>3 DEF Reopen
<1>22. ASSUME NEW e \in 1 .. Events, ExitInError(e)
       PROVE  TypeInv'
  <2>1. ThreadTypes'
    BY <1>1, <1>22, FileAssumption DEF ThreadTypes, ExitInError
  <2> QED BY <1>2, <1>3, <1>22, <2>1 DEF ExitInError
<1>23. dequeueBuffer # <<>> => Tail(dequeueBuffer) \in Seq(1 .. Events)
  BY <1>1 DEF BufferTypes
<1>24. ASSUME NEW e \in 1 .. Events, Skip(e)
       PROVE  TypeInv'
  <2>1. BufferTypes'
    BY <1>1, <1>23, <1>24 DEF BufferTypes, Skip, InHand
  <2>2. HistoryTypes'
    BY <1>1, <1>24 DEF HistoryTypes, Skip
  <2> QED BY <1>2, <1>3, <1>24, <2>1, <2>2 DEF Skip
<1>25. ASSUME NEW e \in 1 .. Events, WriteFails(e)
       PROVE  TypeInv'
  <2>1. BufferTypes'
    BY <1>1, <1>23, <1>25 DEF BufferTypes, WriteFails, InHand
  <2>2. HistoryTypes'
    <3>1. errors' \in 0 .. MaxErrors
      BY <1>1, <1>25, FileAssumption DEF HistoryTypes, WriteFails
    <3>2. dropped' = dropped \cup {e} /\ accepted' = accepted
      BY <1>25 DEF WriteFails
    <3> QED BY <1>1, <3>1, <3>2 DEF HistoryTypes
  <2>3. FlagTypes'
    BY <1>1, <1>25 DEF FlagTypes, WriteFails
  <2> QED BY <1>2, <1>3, <1>25, <2>1, <2>2, <2>3 DEF WriteFails
<1>26. ASSUME NEW e \in 1 .. Events, Pad(e)
       PROVE  TypeInv'
  <2> DEFINE padding == ChunkSize - (FileSize % ChunkSize)
  <2>1. padding \in Nat /\ FileSize \in Nat
    BY <1>1, Sizes, FileNumbers
  <2>2. file' = Appended(0, padding) /\ unflushed' = unflushed + padding /\ offset' = FileSize + padding
    BY <1>26 DEF Pad
  <2> HIDE DEF padding
  <2>3. file' \in Seq(Records)
    <3>1. 0 \in 0 .. Events
      BY FileAssumption
    <3>2. Appended(0, padding) \in Seq(Records)
      BY <1>1, <2>1, <3>1, AppendedRecords
    <3> QED BY <2>2, <3>2
  <2>4. synced' = synced
    BY <1>26 DEF Pad
  <2>5. FileTypes'
    BY <1>1, <1>26, <2>3 DEF FileTypes, Pad
  <2>6. CountTypes'
    BY <1>1, <2>1, <2>2, <2>4 DEF CountTypes
  <2> QED BY <1>2, <1>3, <1>26, <2>5, <2>6 DEF Pad
<1>27. ASSUME NEW e \in 1 .. Events, Write(e)
       PROVE  TypeInv'
  <2>1. EventSize(e) \in Nat
    BY <1>1, Sizes
  <2>2. /\ file' = Appended(e, EventSize(e)) /\ unflushed' = unflushed + EventSize(e)
        /\ offset' = offset + EventSize(e)
    BY <1>27 DEF Write
  <2>3. file' \in Seq(Records)
    <3>1. e \in 0 .. Events
      OBVIOUS
    <3>2. Appended(e, EventSize(e)) \in Seq(Records)
      BY <1>1, <2>1, <3>1, AppendedRecords
    <3> QED BY <2>2, <3>2
  <2>4. synced' = synced
    BY <1>27 DEF Write
  <2>5. FileTypes'
    BY <1>1, <1>27, <2>3 DEF FileTypes, Write
  <2>6. CountTypes'
    BY <1>1, <2>1, <2>2, <2>4 DEF CountTypes
  <2>7. BufferTypes'
    BY <1>1, <1>23, <1>27 DEF BufferTypes, Write, InHand
  <2> QED BY <1>2, <1>3, <1>27, <2>5, <2>6, <2>7 DEF Write
<1>28. CASE Check
  <2>1. wpc' \in {"sync", "top"}
    BY <1>28 DEF Check
  <2>2. forced' \in BOOLEAN /\ due' \in {FALSE, due}
    BY <1>28 DEF Check
  <2>3. ThreadTypes'
    BY <1>1, <1>28, <2>1 DEF ThreadTypes, Check
  <2>4. FlagTypes'
    BY <1>1, <1>28, <2>2 DEF FlagTypes, Check
  <2> QED BY <1>2, <1>3, <1>28, <2>3, <2>4 DEF Check
<1>29. CASE NotifyFlushed
  <2>1. ThreadTypes'
    BY <1>1, <1>29, FileAssumption DEF ThreadTypes, NotifyFlushed
  <2>2. FlagTypes'
    BY <1>1, <1>29 DEF FlagTypes, NotifyFlushed
  <2> QED BY <1>2, <1>3, <1>29, <2>1, <2>2 DEF NotifyFlushed
<1>30. CASE Elapse
  <2>1. FlagTypes'
    BY <1>1, <1>30 DEF FlagTypes, Elapse
  <2> QED BY <1>2, <1>3, <1>30, <2>1 DEF Elapse
<1>31. CASE UNCHANGED vars
  <2> QED BY <1>2, <1>3, <1>31 DEF vars
<1> QED BY <1>4, <1>5, <1>6, <1>7, <1>8, <1>9, <1>10, <1>11, <1>12, <1>13, <1>14, <1>15, <1>16,
           <1>17, <1>18, <1>19, <1>20, <1>21, <1>22, <1>24, <1>25, <1>26, <1>27, <1>28, <1>29,
           <1>30, <1>31
        DEF Next, ClientCalls, ClientStep, WriterStep, Reopens, Fails

-----------------------------------------------------------------------------
(* The disk *)

\* synced counts records of the file.
SyncInv == synced <= Len(file)

\* The file only grows, and what is on disk stays there.
LEMMA DiskGrows ==
  ASSUME TypeInv, SyncInv, [Next]_vars
  PROVE  SyncInv' /\ \A e \in 1 .. Events : OnDisk(e) => OnDisk(e)'
<1> USE DEF buffers, disk, writer, history
<1>0. TypeOK /\ synced \in Nat /\ Len(file) \in Nat /\ DOMAIN file = 1 .. Len(file)
  BY DEF TypeInv, TypeOK
<1>1. ASSUME UNCHANGED <<file, synced>>
      PROVE  SyncInv' /\ \A e \in 1 .. Events : OnDisk(e) => OnDisk(e)'
  BY <1>1 DEF SyncInv, OnDisk
<1>2. ASSUME file' = file, synced' = Len(file)
      PROVE  SyncInv' /\ \A e \in 1 .. Events : OnDisk(e) => OnDisk(e)'
  BY <1>0, <1>2 DEF SyncInv, OnDisk
<1>3. ASSUME NEW e \in 1 .. Events, Pad(e) \/ Write(e)
      PROVE  SyncInv' /\ \A d \in 1 .. Events : OnDisk(d) => OnDisk(d)'
  <2>1. PICK v \in 0 .. Events, n \in Nat : file' = Appended(v, n)
    <3>1. EventSize(e) \in Nat /\ ChunkSize - (FileSize % ChunkSize) \in Nat
      BY <1>0, Sizes
    <3>2. 0 \in 0 .. Events /\ e \in 0 .. Events
      BY FileAssumption
    <3> QED BY <1>3, <3>1, <3>2 DEF Pad, Write
  <2>2. Len(file') = Len(file) + 1 /\ \A k \in DOMAIN file : file'[k] = file[k]
    BY <1>0, <2>1, AppendedRecords
  <2>3. synced' = synced
    BY <1>3 DEF Pad, Write
  <2>4. SyncInv'
    BY <1>0, <2>2, <2>3 DEF SyncInv
  <2>5. ASSUME NEW d \in 1 .. Events, OnDisk(d)
        PROVE  OnDisk(d)'
    <3>1. PICK k \in 1 .. synced : file[k].ev = d
      BY <2>5 DEF OnDisk
    <3>2. k \in DOMAIN file
      BY <1>0, <3>1 DEF SyncInv
    <3>3. file'[k].ev = d
      BY <2>2, <3>1, <3>2
    <3> QED BY <2>3, <3>1, <3>3 DEF OnDisk
  <2> QED BY <2>4, <2>5
<1>4. CASE Top \/ Sync
  BY <1>1, <1>2, <1>4 DEF Top, Sync
<1>5. CASE ClientCalls \/ ClientStep
  BY <1>1, <1>5 DEF ClientCalls, ClientStep, RefuseEvent, enqueueEvent, flush, Close,
                    EnqueueWoken, FlushWoken, CloseNotifies, Joined
<1>6. CASE StartWriter \/ SwapFull \/ SwapNothing \/ Wait \/ TimesOut \/ Woken \/ BatchDone
           \/ Check \/ NotifyFlushed \/ StartFails \/ Elapse
  BY <1>1, <1>6 DEF StartWriter, SwapFull, SwapNothing, Wait, TimesOut, Woken, BatchDone, Check,
                    NotifyFlushed, StartFails, Elapse
<1>7. ASSUME NEW e \in 1 .. Events, ExitInError(e) \/ Skip(e) \/ Reopen(e) \/ WriteFails(e)
      PROVE  UNCHANGED <<file, synced>>
  BY <1>7 DEF ExitInError, Skip, Reopen, WriteFails
<1>8. CASE UNCHANGED vars
  BY <1>1, <1>8 DEF vars
<1> QED BY <1>1, <1>3, <1>4, <1>5, <1>6, <1>7, <1>8 DEF Next, WriterStep, Reopens, Fails

-----------------------------------------------------------------------------
(* Where the threads are *)

\* dequeueBuffer_ holds events only while they are written, and a writer that
\* has gone is not waited for by anyone who has events to add.
PhaseInv ==
  /\ wpc \notin {"write", "exited"} => dequeueBuffer = <<>>
  /\ wpc = "none" => accepted = {} /\ enqueueBuffer = <<>> /\ cpc \in {"ready", "gone"}
  /\ wpc \in {"none", "init"} => file = <<>>
  /\ closing => cpc \in {"closing", "joining", "gone"}
  /\ cpc \in {"closing", "joining"} => closing
  /\ cpc = "gone" => wpc \in {"none", "exited"}
  /\ wpc = "exited" => closing

\* Every step of client and writer keeps PhaseInv.
LEMMA PhaseStep ==
  ASSUME TypeInv, PhaseInv, [Next]_vars
  PROVE  PhaseInv'
<1> USE DEF buffers, disk, writer, history
<1>1. CASE RefuseEvent \/ flush \/ FlushWoken \/ CloseNotifies \/ Joined
  BY <1>1 DEF PhaseInv, RefuseEvent, flush, FlushWoken, CloseNotifies, Joined, NotifyWriter
<1>2. CASE enqueueEvent \/ EnqueueWoken
  <2>1. /\ cpc \in {"ready", "fullWoken"} /\ cpc' \in {"ready", "fullWaiting"}
        /\ UNCHANGED <<dequeueBuffer, file, closing>>
    BY <1>2 DEF enqueueEvent, EnqueueWoken, AddEvent
  <2>2. wpc = "none" => enqueueEvent /\ Len(enqueueBuffer) # EventBufferSize
    BY <1>2, FileAssumption DEF PhaseInv, EnqueueWoken
  <2>3. wpc' # "none"
    BY <1>2, <2>2 DEF enqueueEvent, EnqueueWoken, NotifyWriter
  <2>4. wpc' = wpc \/ (wpc = "none" /\ wpc' = "init") \/ (wpc = "waiting" /\ wpc' = "woken")
    BY <1>2 DEF enqueueEvent, EnqueueWoken, NotifyWriter
  <2>5. wpc' \in {"init", "none"} => file' = <<>>
    BY <2>1, <2>4 DEF PhaseInv
  <2> QED BY <2>1, <2>3, <2>4, <2>5 DEF PhaseInv
<1>3. CASE Close
  BY <1>3 DEF PhaseInv, Close
<1>4. CASE StartWriter \/ StartFails
  BY <1>4 DEF PhaseInv, StartWriter, StartFails
<1>5. CASE Top
  BY <1>5 DEF PhaseInv, Top
<1>6. CASE SwapFull \/ SwapNothing \/ Woken
  BY <1>6 DEF PhaseInv, SwapFull, SwapNothing, Woken, Swap, NotifyNotFull
<1>7. CASE Wait \/ TimesOut \/ BatchDone
  BY <1>7 DEF PhaseInv, Wait, TimesOut, BatchDone
<1>8. CASE Check \/ Sync
  <2>1. /\ wpc \in {"check", "sync"} /\ wpc' \in {"sync", "flushed", "top"}
        /\ UNCHANGED <<enqueueBuffer, dequeueBuffer, file, accepted, closing, cpc>>
    BY <1>8 DEF Check, Sync
  <2> QED BY <2>1 DEF PhaseInv
<1>9. CASE NotifyFlushed \/ Elapse
  BY <1>9 DEF PhaseInv, NotifyFlushed, Elapse
<1>10. ASSUME NEW e \in 1 .. Events, ExitInError(e) \/ Reopen(e)
       PROVE  PhaseInv'
  BY <1>10 DEF PhaseInv, ExitInError, Reopen, InHand
<1>11. ASSUME NEW e \in 1 .. Events, Skip(e) \/ WriteFails(e)
       PROVE  PhaseInv'
  BY <1>11 DEF PhaseInv, Skip, WriteFails, InHand
<1>12. ASSUME NEW e \in 1 .. Events, Pad(e) \/ Write(e)
       PROVE  PhaseInv'
  BY <1>12 DEF PhaseInv, Pad, Write, InHand
<1>13. CASE UNCHANGED vars
  BY <1>13 DEF PhaseInv, vars
<1> QED BY <1>1, <1>2, <1>3, <1>4, <1>5, <1>6, <1>7, <1>8, <1>9, <1>10, <1>11, <1>12, <1>13
        DEF Next, ClientCalls, ClientStep, WriterStep, Reopens, Fails

-----------------------------------------------------------------------------
(* The order of the events *)

Elems(q) == {q[k] : k \in DOMAIN q}
Ascends(q) == \A j, k \in DOMAIN q : j < k => q[j] < q[k]
Written == {file[k].ev : k \in DOMAIN file} \ {0}
FileAscends == \A j, k \in DOMAIN file : j < k /\ file[k].ev # 0 => file[j].ev < file[k].ev

\* The first event leaves a buffer, and a later one is put on it.
LEMMA TailAscends ==
  ASSUME NEW q \in Seq(Nat), Ascends(q), q # <<>>
  PROVE  /\ Ascends(Tail(q)) /\ Elems(q) = Elems(Tail(q)) \cup {Head(q)}
         /\ \A e \in Elems(Tail(q)) : Head(q) < e
<1> DEFINE r == Tail(q)
<1>1. /\ Len(q) \in Nat \ {0} /\ DOMAIN q = 1 .. Len(q) /\ DOMAIN r = 1 .. (Len(q) - 1)
      /\ Head(q) = q[1] /\ \A k \in 1 .. (Len(q) - 1) : r[k] = q[k + 1]
  OBVIOUS
<1> HIDE DEF r
<1>2. \A k \in DOMAIN r : k + 1 \in DOMAIN q /\ 1 < k + 1 /\ r[k] = q[k + 1] /\ k \in Nat
  BY <1>1
<1>3. \A k \in DOMAIN q : k = 1 \/ (k - 1 \in DOMAIN r /\ r[k - 1] = q[k])
  BY <1>1
<1>4. 1 \in DOMAIN q
  BY <1>1
<1>5. Ascends(r)
  <2> SUFFICES ASSUME NEW j \in DOMAIN r, NEW k \in DOMAIN r, j < k
               PROVE  r[j] < r[k]
    BY DEF Ascends
  <2>1. j + 1 \in DOMAIN q /\ k + 1 \in DOMAIN q /\ j + 1 < k + 1
    BY <1>2
  <2>2. q[j + 1] < q[k + 1]
    BY <2>1 DEF Ascends
  <2> QED BY <1>2, <2>2
<1>6. Elems(q) = Elems(r) \cup {Head(q)}
  <2>1. Elems(r) \subseteq Elems(q) /\ Head(q) \in Elems(q)
    BY <1>1, <1>2, <1>4 DEF Elems
  <2>2. Elems(q) \subseteq Elems(r) \cup {Head(q)}
    BY <1>1, <1>3 DEF Elems
  <2> QED BY <2>1, <2>2
<1>7. \A e \in Elems(r) : Head(q) < e
  <2> SUFFICES ASSUME NEW k \in DOMAIN r
               PROVE  Head(q) < r[k]
    BY DEF Elems
  <2> QED BY <1>1, <1>2, <1>4 DEF Ascends
<1> QED BY <1>5, <1>6, <1>7 DEF r

\* A queue stays in order when something greater is appended.
LEMMA AppendAscends ==
  ASSUME NEW q \in Seq(Nat), Ascends(q), NEW n \in Nat, \A e \in Elems(q) : e < n
  PROVE  Ascends(Append(q, n)) /\ Elems(Append(q, n)) = Elems(q) \cup {n}
<1> DEFINE r == Append(q, n)
<1>1. /\ Len(q) \in Nat /\ DOMAIN q = 1 .. Len(q) /\ DOMAIN r = 1 .. (Len(q) + 1)
      /\ r[Len(q) + 1] = n /\ \A k \in DOMAIN q : r[k] = q[k]
  OBVIOUS
<1> HIDE DEF r
<1>2. \A k \in DOMAIN r : k \in DOMAIN q \/ k = Len(q) + 1
  BY <1>1
<1>3. DOMAIN q \subseteq DOMAIN r /\ Len(q) + 1 \in DOMAIN r
  BY <1>1
<1>4. Elems(r) = Elems(q) \cup {n}
  BY <1>1, <1>2, <1>3 DEF Elems
<1>5. \A k \in DOMAIN q : q[k] < n
  BY DEF Elems
<1>6. Ascends(r)
  <2> SUFFICES ASSUME NEW j \in DOMAIN r, NEW k \in DOMAIN r, j < k
               PROVE  r[j] < r[k]
    BY DEF Ascends
  <2>1. j \in DOMAIN q
    BY <1>1
  <2>2. CASE k \in DOMAIN q
    BY <1>1, <2>1, <2>2 DEF Ascends
  <2>3. CASE k = Len(q) + 1
    BY <1>1, <1>5, <2>1, <2>3
  <2> QED BY <1>2, <2>2, <2>3
<1> QED BY <1>4, <1>6 DEF r

\* A record is put at the end of the file.
LEMMA AppendedWritten ==
  ASSUME TypeOK, NEW v \in 0 .. Events, NEW n \in Nat, file' = Appended(v, n)
  PROVE  /\ Written' = Written \cup ({v} \ {0})
         /\ FileAscends /\ (v = 0 \/ \A e \in Written : e < v) => FileAscends'
<1>1. /\ Len(file) \in Nat /\ DOMAIN file = 1 .. Len(file) /\ file \in Seq(Records)
      /\ \A k \in DOMAIN file : file[k] \in Records
  <2>1. file \in Seq(Records)
    BY DEF TypeOK, Records
  <2> QED BY <2>1
<1>2. /\ DOMAIN file' = 1 .. (Len(file) + 1) /\ file'[Len(file) + 1].ev = v
      /\ \A k \in DOMAIN file : file'[k] = file[k]
  <2>1. /\ file' \in Seq(Records) /\ Len(file') = Len(file) + 1
        /\ file'[Len(file) + 1] = [ev |-> v, at |-> FileSize, size |-> n]
        /\ \A k \in DOMAIN file : file'[k] = file[k]
    BY AppendedRecords
  <2> QED BY <2>1
<1>3. \A k \in DOMAIN file' : k \in DOMAIN file \/ k = Len(file) + 1
  BY <1>1, <1>2
<1>4. DOMAIN file \subseteq DOMAIN file' /\ Len(file) + 1 \in DOMAIN file'
  BY <1>1, <1>2
<1>5. Written' = Written \cup ({v} \ {0})
  BY <1>2, <1>3, <1>4 DEF Written
<1>6. ASSUME FileAscends, v = 0 \/ \A e \in Written : e < v
      PROVE  FileAscends'
  <2> SUFFICES ASSUME NEW j \in DOMAIN file', NEW k \in DOMAIN file', j < k, file'[k].ev # 0
               PROVE  file'[j].ev < file'[k].ev
    BY DEF FileAscends
  <2>1. j \in DOMAIN file
    BY <1>1, <1>2
  <2>2. CASE k \in DOMAIN file
    BY <1>2, <1>6, <2>1, <2>2 DEF FileAscends
  <2>3. CASE k = Len(file) + 1
    <3>1. file[j].ev \in 0 .. Events /\ v > 0
      <4>1. file[j] \in Records
        BY <1>1, <2>1
      <4>2. v # 0
        BY <1>2, <2>3
      <4> QED BY <4>1, <4>2, FileAssumption DEF Records
    <3>2. file[j].ev # 0 => file[j].ev \in Written
      BY <2>1 DEF Written
    <3> QED BY <1>2, <1>6, <2>1, <2>3, <3>1, <3>2
  <2> QED BY <1>3, <2>2, <2>3
<1> QED BY <1>5, <1>6

\* Each queue is in the order in which the events were written, the file comes
\* before dequeueBuffer_, that before enqueueBuffer_, and all before the next event.
OrderInv ==
  /\ FileAscends /\ Ascends(dequeueBuffer) /\ Ascends(enqueueBuffer)
  /\ \A e \in Written : \A d \in Elems(dequeueBuffer) \cup Elems(enqueueBuffer) : e < d
  /\ \A d \in Elems(dequeueBuffer) : \A e \in Elems(enqueueBuffer) : d < e
  /\ \A e \in accepted : e < next
  /\ dropped \subseteq accepted
  /\ Written \cup Elems(dequeueBuffer) \cup Elems(enqueueBuffer) = accepted \ dropped

\* Every step keeps the events in order.
LEMMA OrderStep ==
  ASSUME TypeInv, PhaseInv, OrderInv, [Next]_vars
  PROVE  OrderInv'
<1> USE DEF buffers, disk, writer, history
<1>0. /\ TypeOK /\ enqueueBuffer \in Seq(Nat) /\ dequeueBuffer \in Seq(Nat)
      /\ enqueueBuffer \in Seq(1 .. Events) /\ dequeueBuffer \in Seq(1 .. Events)
      /\ next \in Nat /\ accepted \subseteq Nat /\ Events \in Nat
  <2>1. /\ TypeOK /\ enqueueBuffer \in Seq(1 .. Events) /\ dequeueBuffer \in Seq(1 .. Events)
        /\ next \in 1 .. Events + 1 /\ accepted \subseteq 1 .. Events /\ Events \in Nat
    BY FileAssumption DEF TypeInv, TypeOK
  <2>2. 1 .. Events \subseteq Nat
    OBVIOUS
  <2> QED BY <2>1, <2>2
<1>1. ASSUME UNCHANGED <<file, enqueueBuffer, dequeueBuffer, accepted, dropped, next>>
      PROVE  OrderInv'
  BY <1>1 DEF OrderInv, Written, FileAscends, Ascends, Elems
<1>2. CASE RefuseEvent
  <2>1. next' = next + 1 /\ UNCHANGED <<file, enqueueBuffer, dequeueBuffer, accepted, dropped>>
    BY <1>2 DEF RefuseEvent
  <2>2. \A e \in accepted : e < next'
    BY <1>0, <2>1 DEF OrderInv
  <2> QED BY <2>1, <2>2 DEF OrderInv, Written, FileAscends, Ascends, Elems
\* An event is put on enqueueBuffer_.
<1>3. ASSUME AddEvent, UNCHANGED <<file, dequeueBuffer, dropped>>
      PROVE  OrderInv'
  <2>1. /\ enqueueBuffer' = Append(enqueueBuffer, next) /\ accepted' = accepted \cup {next}
        /\ next' = next + 1
    BY <1>3 DEF AddEvent
  <2>2. /\ \A e \in accepted : e < next
        /\ \A e \in Written \cup Elems(dequeueBuffer) \cup Elems(enqueueBuffer) : e < next
        /\ next \notin accepted
    <3>1. \A e \in accepted : e < next
      BY DEF OrderInv
    <3>2. ~ (next < next)
      BY <1>0
    <3>3. Written \cup Elems(dequeueBuffer) \cup Elems(enqueueBuffer) \subseteq accepted
      BY DEF OrderInv
    <3> QED BY <3>1, <3>2, <3>3
  <2>3. Ascends(enqueueBuffer') /\ Elems(enqueueBuffer') = Elems(enqueueBuffer) \cup {next}
    BY <1>0, <2>1, <2>2, AppendAscends DEF OrderInv
  <2>4. \A e \in accepted' : e < next'
    BY <1>0, <2>1, <2>2
  <2>5. dropped' \subseteq accepted' /\ accepted' \ dropped' = (accepted \ dropped) \cup {next}
    BY <1>3, <2>1, <2>2 DEF OrderInv
  <2>6. Written' = Written /\ (FileAscends' <=> FileAscends)
    BY <1>3 DEF Written, FileAscends
  <2> QED BY <1>3, <2>2, <2>3, <2>4, <2>5, <2>6 DEF OrderInv
<1>4. CASE enqueueEvent \/ EnqueueWoken
  BY <1>1, <1>3, <1>4 DEF enqueueEvent, EnqueueWoken
\* The buffers are swapped.
<1>5. ASSUME Swap, dequeueBuffer = <<>>, UNCHANGED <<file, accepted, dropped, next>>
      PROVE  OrderInv'
  <2>1. enqueueBuffer' = <<>> /\ dequeueBuffer' = enqueueBuffer
    BY <1>5 DEF Swap
  <2>2. Elems(<<>>) = {} /\ Ascends(<<>>)
    BY DEF Elems, Ascends
  <2>3. Written' = Written /\ (FileAscends' <=> FileAscends)
    BY <1>5 DEF Written, FileAscends
  <2> QED BY <1>5, <2>1, <2>2, <2>3 DEF OrderInv
<1>6. CASE SwapFull \/ Woken
  BY <1>1, <1>5, <1>6 DEF SwapFull, Woken, PhaseInv
\* An event leaves dequeueBuffer_.
<1>7. ASSUME NEW e \in 1 .. Events, InHand(e)
      PROVE  /\ Ascends(Tail(dequeueBuffer)) /\ Elems(dequeueBuffer) = Elems(Tail(dequeueBuffer)) \cup {e}
             /\ \A d \in Elems(Tail(dequeueBuffer)) : e < d
  BY <1>0, <1>7, TailAscends DEF InHand, OrderInv
<1>8. ASSUME NEW e \in 1 .. Events, Skip(e) \/ WriteFails(e)
      PROVE  OrderInv'
  <2>1. /\ InHand(e) /\ dequeueBuffer' = Tail(dequeueBuffer) /\ dropped' = dropped \cup {e}
        /\ UNCHANGED <<file, enqueueBuffer, accepted, next>>
    BY <1>8 DEF Skip, WriteFails
  <2>2. /\ Ascends(dequeueBuffer') /\ Elems(dequeueBuffer) = Elems(dequeueBuffer') \cup {e}
        /\ \A d \in Elems(dequeueBuffer') : e < d
    BY <1>7, <2>1
  <2>3. Written' = Written /\ (FileAscends' <=> FileAscends)
    BY <2>1 DEF Written, FileAscends
  <2>4. /\ \A d \in Written : d < e
        /\ \A d \in Elems(enqueueBuffer) : e < d
        /\ e \in accepted
    BY <2>2 DEF OrderInv
  <2>5. e \notin Written /\ e \notin Elems(dequeueBuffer') /\ e \notin Elems(enqueueBuffer)
    BY <1>0, <2>2, <2>4
  <2>6. Written \cup Elems(dequeueBuffer') \cup Elems(enqueueBuffer) = accepted \ dropped'
    BY <2>1, <2>2, <2>5 DEF OrderInv
  <2> QED BY <2>1, <2>2, <2>3, <2>4, <2>6 DEF OrderInv
<1>9. ASSUME NEW e \in 1 .. Events, Pad(e)
      PROVE  OrderInv'
  <2>1. PICK n \in Nat : file' = Appended(0, n)
    BY <1>0, <1>9, Sizes DEF Pad
  <2>2. 0 \in 0 .. Events
    BY <1>0
  <2>3. Written' = Written /\ (FileAscends => FileAscends')
    BY <1>0, <2>1, <2>2, AppendedWritten
  <2>4. UNCHANGED <<enqueueBuffer, dequeueBuffer, accepted, dropped, next>>
    BY <1>9 DEF Pad
  <2> QED BY <2>3, <2>4 DEF OrderInv
<1>10. ASSUME NEW e \in 1 .. Events, Write(e)
       PROVE  OrderInv'
  <2>1. /\ InHand(e) /\ dequeueBuffer' = Tail(dequeueBuffer)
        /\ UNCHANGED <<enqueueBuffer, accepted, dropped, next>>
        /\ file' = Appended(e, EventSize(e))
    BY <1>10 DEF Write
  <2>2. /\ Ascends(dequeueBuffer') /\ Elems(dequeueBuffer) = Elems(dequeueBuffer') \cup {e}
        /\ \A d \in Elems(dequeueBuffer') : e < d
    BY <1>7, <2>1
  <2>3. /\ \A d \in Written : d < e
        /\ \A d \in Elems(enqueueBuffer) : e < d
    BY <2>2 DEF OrderInv
  <2>4. e \in 0 .. Events /\ e # 0 /\ EventSize(e) \in Nat
    BY <1>0, Sizes
  <2>5. Written' = Written \cup {e} /\ FileAscends'
    <3>1. /\ Written' = Written \cup ({e} \ {0})
          /\ FileAscends /\ (e = 0 \/ \A d \in Written : d < e) => FileAscends'
      BY <1>0, <2>1, <2>4, AppendedWritten
    <3> QED BY <2>3, <2>4, <3>1 DEF OrderInv
  <2> QED BY <2>1, <2>2, <2>3, <2>5 DEF OrderInv
<1>11. CASE flush \/ Close \/ FlushWoken \/ CloseNotifies \/ Joined
  BY <1>1, <1>11 DEF flush, Close, FlushWoken, CloseNotifies, Joined
<1>12. CASE StartWriter \/ Top \/ SwapNothing \/ Wait \/ TimesOut \/ BatchDone
            \/ Check \/ Sync \/ NotifyFlushed \/ StartFails \/ Elapse
  BY <1>1, <1>12 DEF StartWriter, Top, SwapNothing, Wait, TimesOut, BatchDone, Check, Sync,
                     NotifyFlushed, StartFails, Elapse
<1>13. ASSUME NEW e \in 1 .. Events, ExitInError(e) \/ Reopen(e)
       PROVE  OrderInv'
  BY <1>1, <1>13 DEF ExitInError, Reopen
<1>14. CASE UNCHANGED vars
  BY <1>1, <1>14 DEF vars
<1> QED BY <1>2, <1>4, <1>6, <1>8, <1>9, <1>10, <1>11, <1>12, <1>13, <1>14
        DEF Next, ClientCalls, ClientStep, WriterStep, Reopens, Fails

\* The file and the buffers, one after the other, are in order.
LEMMA OrderMeans == ASSUME TypeInv, OrderInv PROVE EventsInOrder
<1> DEFINE f == [k \in DOMAIN file |-> file[k].ev]
           d == dequeueBuffer
           q == enqueueBuffer
           F == Len(file)
           D == Len(dequeueBuffer)
           Q == Len(enqueueBuffer)
<1>1. /\ file \in Seq(Records) /\ d \in Seq(1 .. Events) /\ q \in Seq(1 .. Events)
      /\ F \in Nat /\ D \in Nat /\ Q \in Nat /\ Events \in Nat
      /\ DOMAIN file = 1 .. F /\ DOMAIN d = 1 .. D /\ DOMAIN q = 1 .. Q
  BY FileAssumption DEF TypeInv, TypeOK, Records
<1>2. \A k \in 1 .. F : file[k] \in Records
  <2> HIDE DEF Records
  <2> QED BY <1>1
<1>3. f \in Seq(0 .. Events) /\ Len(f) = F
  <2>1. \A k \in 1 .. F : file[k].ev \in 0 .. Events
    BY <1>2 DEF Records
  <2>2. f \in [1 .. F -> 0 .. Events]
    BY <1>1, <2>1
  <2> QED BY <1>1, <2>2
<1>4. d \in Seq(0 .. Events) /\ q \in Seq(0 .. Events)
  BY <1>1
<1>5. /\ DOMAIN Line = 1 .. (F + D + Q)
      /\ \A k \in 1 .. F : Line[k] = file[k].ev
      /\ \A k \in 1 .. D : Line[F + k] = d[k]
      /\ \A k \in 1 .. Q : Line[F + D + k] = q[k]
  BY <1>1, <1>3, <1>4 DEF Line
<1>6. /\ \A k \in 1 .. D : d[k] \in 1 .. Events
      /\ \A k \in 1 .. Q : q[k] \in 1 .. Events
  BY <1>1
<1>7. Elems(d) = {d[k] : k \in 1 .. D} /\ Elems(q) = {q[k] : k \in 1 .. Q}
  BY <1>1 DEF Elems
<1> HIDE DEF f, d, q, F, D, Q
<1>8. ASSUME NEW k \in DOMAIN Line
      PROVE  \/ k \in 1 .. F /\ Line[k] = file[k].ev
             \/ k \in F + 1 .. F + D /\ k - F \in 1 .. D /\ Line[k] = d[k - F]
             \/ k \in F + D + 1 .. F + D + Q /\ k - F - D \in 1 .. Q /\ Line[k] = q[k - F - D]
  <2>0. F \in Nat /\ D \in Nat /\ Q \in Nat
    BY <1>1
  <2>1. CASE k \in 1 .. F
    BY <1>5, <2>1
  <2>2. CASE k \in F + 1 .. F + D
    <3>1. k - F \in 1 .. D /\ F + (k - F) = k
      BY <2>0, <2>2
    <3> QED BY <1>5, <2>2, <3>1
  <2>3. CASE k \in F + D + 1 .. F + D + Q
    <3>1. k - F - D \in 1 .. Q /\ F + D + (k - F - D) = k
      BY <2>0, <2>3
    <3> QED BY <1>5, <2>3, <3>1
  <2> QED BY <1>5, <2>0, <2>1, <2>2, <2>3
\* What an index stands for.
<1>9. ASSUME NEW k \in DOMAIN Line
      PROVE  /\ k \in 1 .. F => Line[k] = 0 \/ Line[k] \in Written
             /\ k \in F + 1 .. F + D => Line[k] \in Elems(d)
             /\ k \in F + D + 1 .. F + D + Q => Line[k] \in Elems(q)
             /\ k \in 1 .. F \/ k \in F + 1 .. F + D \/ k \in F + D + 1 .. F + D + Q
             /\ Line[k] \in 0 .. Events
  <2>1. /\ \A i \in 1 .. F : file[i].ev = 0 \/ file[i].ev \in Written
        /\ \A i \in 1 .. F : file[i].ev \in 0 .. Events
    BY <1>1, <1>2 DEF Written, Records
  <2>2. /\ \A i \in 1 .. D : d[i] \in Elems(d) /\ d[i] \in 0 .. Events
        /\ \A i \in 1 .. Q : q[i] \in Elems(q) /\ q[i] \in 0 .. Events
    <3>1. 1 .. Events \subseteq 0 .. Events
      BY <1>1
    <3>2. \A i \in 1 .. D : d[i] \in Elems(d)
      BY <1>7
    <3>3. \A i \in 1 .. Q : q[i] \in Elems(q)
      BY <1>7
    <3> QED BY <1>6, <3>1, <3>2, <3>3
  <2>3. /\ k \in 1 .. F => ~ (k \in F + 1 .. F + D) /\ ~ (k \in F + D + 1 .. F + D + Q)
        /\ k \in F + 1 .. F + D => ~ (k \in F + D + 1 .. F + D + Q)
    BY <1>1
  <2> QED BY <1>8, <2>1, <2>2, <2>3
<1>10. Elems(d) \subseteq 1 .. Events /\ Elems(q) \subseteq 1 .. Events
  <2>1. Elems(d) \subseteq 1 .. Events
    BY <1>6, <1>7
  <2>2. Elems(q) \subseteq 1 .. Events
    BY <1>6, <1>7
  <2> QED BY <2>1, <2>2
<1>11. {Line[k] : k \in DOMAIN Line} \ {0} = accepted \ dropped
  <2>1. {Line[k] : k \in DOMAIN Line} \ {0} \subseteq Written \cup Elems(d) \cup Elems(q)
    BY <1>9
  <2>2. Written \subseteq {Line[k] : k \in DOMAIN Line}
    <3>1. \A k \in 1 .. F : k \in DOMAIN Line
      BY <1>1, <1>5
    <3> QED BY <1>1, <1>5, <3>1 DEF Written
  <2>3. Elems(d) \subseteq {Line[k] : k \in DOMAIN Line}
    <3>1. \A k \in 1 .. D : F + k \in DOMAIN Line
      BY <1>1, <1>5
    <3> QED BY <1>5, <1>7, <3>1
  <2>4. Elems(q) \subseteq {Line[k] : k \in DOMAIN Line}
    <3>1. \A k \in 1 .. Q : F + D + k \in DOMAIN Line
      BY <1>1, <1>5
    <3> QED BY <1>5, <1>7, <3>1
  <2>5. 0 \notin Written /\ 0 \notin Elems(d) /\ 0 \notin Elems(q)
    BY <1>1, <1>10 DEF Written
  <2>6. Written \cup Elems(d) \cup Elems(q) = accepted \ dropped
    BY DEF OrderInv, d, q
  <2> QED BY <2>1, <2>2, <2>3, <2>4, <2>5, <2>6
<1>12. ASSUME NEW j \in DOMAIN Line, NEW k \in DOMAIN Line, j < k, Line[k] # 0
       PROVE  Line[j] < Line[k]
  <2>1. /\ Ascends(d) /\ Ascends(q) /\ FileAscends
        /\ \A e \in Written : \A x \in Elems(d) \cup Elems(q) : e < x
        /\ \A x \in Elems(d) : \A e \in Elems(q) : x < e
    BY DEF OrderInv, d, q
  <2>2. j \in Nat /\ k \in Nat
    BY <1>1, <1>5
  <2>3. \A x \in Elems(d) \cup Elems(q) : 0 < x
    BY <1>1, <1>10
  <2>4. CASE k \in 1 .. F
    <3>1. j \in 1 .. F
      BY <1>1, <1>5, <1>12, <2>4
    <3> QED BY <1>1, <1>5, <1>12, <2>1, <2>4, <3>1 DEF FileAscends
  <2>5. CASE k \in F + 1 .. F + D
    <3>1. CASE j \in 1 .. F
      BY <1>9, <2>1, <2>3, <2>5, <3>1
    <3>2. CASE j \in F + 1 .. F + D
      <4>1. /\ j - F \in 1 .. D /\ k - F \in 1 .. D /\ j - F < k - F
            /\ F + (j - F) = j /\ F + (k - F) = k
        BY <1>1, <1>12, <2>5, <3>2
      <4>2. Line[j] = d[j - F] /\ Line[k] = d[k - F]
        BY <1>5, <4>1
      <4> QED BY <1>1, <2>1, <4>1, <4>2 DEF Ascends
    <3> QED BY <1>1, <1>9, <1>12, <2>2, <2>5, <3>1, <3>2
  <2>6. CASE k \in F + D + 1 .. F + D + Q
    <3>1. CASE j \in 1 .. F
      BY <1>9, <2>1, <2>3, <2>6, <3>1
    <3>2. CASE j \in F + 1 .. F + D
      BY <1>9, <2>1, <2>6, <3>2
    <3>3. CASE j \in F + D + 1 .. F + D + Q
      <4>1. /\ j - F - D \in 1 .. Q /\ k - F - D \in 1 .. Q /\ j - F - D < k - F - D
            /\ F + D + (j - F - D) = j /\ F + D + (k - F - D) = k
        <5> DEFINE m == F + D
        <5>1. m \in Nat /\ \A i \in Nat : i - F - D = i - m
          BY <1>1
        <5> HIDE DEF m
        <5>2. j \in m + 1 .. m + Q /\ k \in m + 1 .. m + Q
          BY <2>6, <3>3 DEF m
        <5>3. j - m \in 1 .. Q /\ k - m \in 1 .. Q /\ j - m < k - m /\ m + (j - m) = j /\ m + (k - m) = k
          BY <1>1, <1>12, <2>2, <5>1, <5>2
        <5> QED BY <2>2, <5>1, <5>3 DEF m
      <4>2. Line[j] = q[j - F - D] /\ Line[k] = q[k - F - D]
        BY <1>5, <4>1
      <4> QED BY <1>1, <2>1, <4>1, <4>2 DEF Ascends
    <3> QED BY <1>9, <3>1, <3>2, <3>3
  <2> QED BY <1>9, <2>4, <2>5, <2>6
<1> QED BY <1>11, <1>12 DEF EventsInOrder

-----------------------------------------------------------------------------
(* flush *)

\* A flush that was asked for is answered when all events are on disk.
FlushInv ==
  /\ forceFlush <=> cpc = "flushWaiting"
  /\ wpc \in {"sync", "flushed"} /\ forced => forceFlush /\ enqueueBuffer = <<>>
  /\ wpc = "flushed" => forced /\ synced = Len(file)
  /\ cpc = "flushWoken" => \A e \in accepted \ dropped : OnDisk(e)

\* Every step keeps FlushInv: a flush is answered with all events on disk.
LEMMA FlushStep ==
  ASSUME TypeInv, SyncInv, PhaseInv, OrderInv, FlushInv, [Next]_vars
  PROVE  FlushInv'
<1> USE DEF buffers, disk, writer, history
<1>0. /\ \A e \in 1 .. Events : OnDisk(e) => OnDisk(e)'
      /\ accepted \subseteq 1 .. Events
  BY DiskGrows DEF TypeInv, TypeOK
\* Events on disk stay there, and no event is added while the client waits.
<1>1. ASSUME cpc = "flushWoken", UNCHANGED accepted, dropped \subseteq dropped'
      PROVE  \A e \in accepted' \ dropped' : OnDisk(e)'
  BY <1>0, <1>1 DEF FlushInv
<1>2. CASE RefuseEvent \/ flush \/ FlushWoken \/ CloseNotifies \/ Joined \/ Close
  <2>1. /\ forceFlush' <=> cpc' = "flushWaiting"
        /\ cpc' = "flushWoken" => FALSE
    BY <1>2 DEF FlushInv, RefuseEvent, flush, FlushWoken, CloseNotifies, Joined, Close
  <2>2. /\ UNCHANGED <<enqueueBuffer, file, synced, forced>>
        /\ wpc' = wpc \/ wpc' = "woken"
        /\ forceFlush => forceFlush'
    BY <1>2 DEF RefuseEvent, flush, FlushWoken, CloseNotifies, Joined, Close, NotifyWriter
  <2> QED BY <2>1, <2>2 DEF FlushInv
<1>3. CASE enqueueEvent \/ EnqueueWoken
  <2>1. /\ cpc \in {"ready", "fullWoken"} /\ cpc' \in {"ready", "fullWaiting"}
        /\ UNCHANGED <<forceFlush, file, synced, forced>>
        /\ wpc' = wpc \/ wpc' \in {"init", "woken"}
    BY <1>3 DEF enqueueEvent, EnqueueWoken, AddEvent, NotifyWriter
  <2> QED BY <2>1 DEF FlushInv
\* The writer moves, before or after it syncs.
<1>4. ASSUME UNCHANGED <<forceFlush, accepted>>, dropped \subseteq dropped',
             cpc' = cpc \/ (cpc = "fullWaiting" /\ cpc' = "fullWoken"), wpc' \notin {"sync", "flushed"}
      PROVE  FlushInv'
  BY <1>1, <1>4 DEF FlushInv
<1>5. CASE StartWriter \/ StartFails \/ Top \/ SwapNothing \/ Wait \/ TimesOut \/ BatchDone
  BY <1>4, <1>5 DEF StartWriter, StartFails, Top, SwapNothing, Wait, TimesOut, BatchDone
<1>6. CASE SwapFull \/ Woken
  BY <1>4, <1>6 DEF SwapFull, Woken, Swap, NotifyNotFull
<1>7. ASSUME NEW e \in 1 .. Events,
             \/ ExitInError(e) \/ Reopen(e) \/ Skip(e) \/ WriteFails(e) \/ Pad(e) \/ Write(e)
      PROVE  FlushInv'
  <2>1. /\ UNCHANGED <<forceFlush, accepted, cpc>> /\ dropped \subseteq dropped'
        /\ wpc' \notin {"sync", "flushed"}
    BY <1>7 DEF ExitInError, Reopen, Skip, WriteFails, Pad, Write, InHand
  <2> QED BY <1>4, <2>1
<1>8. CASE Check
  <2>1. /\ UNCHANGED <<enqueueBuffer, forceFlush, accepted, dropped, cpc, file, synced>>
        /\ wpc' \in {"sync", "top"}
    BY <1>8 DEF Check
  <2>2. forced' => forceFlush /\ enqueueBuffer = <<>>
    BY <1>8 DEF Check
  <2> QED BY <1>1, <2>1, <2>2 DEF FlushInv
<1>9. CASE Sync
  <2>1. /\ UNCHANGED <<enqueueBuffer, forceFlush, accepted, dropped, cpc, file, forced>>
        /\ wpc = "sync" /\ wpc' \in {"flushed", "top"} /\ (wpc' = "flushed" => forced)
        /\ synced' = Len(file)
    BY <1>9 DEF Sync
  <2> QED BY <1>1, <2>1 DEF FlushInv
<1>10. CASE NotifyFlushed
  <2>1. /\ wpc = "flushed" /\ wpc' = "top" /\ forceFlush' = FALSE
        /\ cpc' = IF cpc = "flushWaiting" THEN "flushWoken" ELSE cpc
        /\ UNCHANGED <<buffers, disk, history>>
    BY <1>10 DEF NotifyFlushed
  <2>2. enqueueBuffer = <<>> /\ dequeueBuffer = <<>> /\ synced = Len(file)
    BY <2>1 DEF FlushInv, PhaseInv
  <2>3. accepted \ dropped = Written
    BY <2>2 DEF OrderInv, Elems
  <2>4. DOMAIN file = 1 .. Len(file)
    BY DEF TypeInv, TypeOK
  <2>5. \A e \in accepted \ dropped : OnDisk(e)
    BY <2>2, <2>3, <2>4 DEF Written, OnDisk
  <2>6. \A e \in accepted' \ dropped' : OnDisk(e)'
    BY <1>0, <2>1, <2>5
  <2> QED BY <2>1, <2>6 DEF FlushInv
<1>11. CASE Elapse
  BY <1>1, <1>11 DEF FlushInv, Elapse
<1>12. CASE UNCHANGED vars
  BY <1>1, <1>12 DEF FlushInv, vars
<1> QED BY <1>2, <1>3, <1>5, <1>6, <1>7, <1>8, <1>9, <1>10, <1>11, <1>12
        DEF Next, ClientCalls, ClientStep, WriterStep, Reopens, Fails

-----------------------------------------------------------------------------
(* Errors and the destructor *)

\* Without errors only events too large are dropped, and the writer goes with
\* everything written.
ErrorInv ==
  /\ errors = 0 => ~ hasIOError
  /\ errors = 0 => \A e \in dropped : TooLarge(e)
  /\ wpc = "exited" /\ errors = 0 =>
       enqueueBuffer = <<>> /\ dequeueBuffer = <<>> /\ synced = Len(file)

\* Every step keeps ErrorInv: without errors the writer leaves nothing behind.
LEMMA ErrorStep ==
  ASSUME TypeInv, PhaseInv, ErrorInv, [Next]_vars
  PROVE  ErrorInv'
<1> USE DEF buffers, disk, writer, history
<1>1. ASSUME UNCHANGED <<errors, hasIOError, dropped>>, wpc' # "exited"
      PROVE  ErrorInv'
  BY <1>1 DEF ErrorInv, TooLarge, EventSize
<1>2. ASSUME UNCHANGED <<errors, hasIOError, dropped, enqueueBuffer, dequeueBuffer, synced, file, wpc>>
      PROVE  ErrorInv'
  BY <1>2 DEF ErrorInv, TooLarge, EventSize
<1>3. ASSUME NEW e \in 1 .. Events, WriteFails(e)
      PROVE  ErrorInv'
  <2>1. errors' # 0
    BY <1>3 DEF WriteFails, TypeInv, TypeOK
  <2> QED BY <2>1 DEF ErrorInv
<1>4. CASE StartFails
  <2>1. errors' # 0
    BY <1>4 DEF StartFails, TypeInv, TypeOK
  <2> QED BY <2>1 DEF ErrorInv
<1>5. CASE enqueueEvent \/ EnqueueWoken
  <2>1. wpc # "exited"
    BY <1>5 DEF enqueueEvent, EnqueueWoken, PhaseInv
  <2>2. wpc' # "exited" /\ UNCHANGED <<errors, hasIOError, dropped>>
    BY <1>5, <2>1 DEF enqueueEvent, EnqueueWoken, NotifyWriter
  <2> QED BY <1>1, <2>2
<1>6. CASE RefuseEvent \/ flush \/ FlushWoken \/ CloseNotifies \/ Joined \/ Close
  <2>1. wpc' = wpc \/ wpc' = "woken"
    BY <1>6 DEF RefuseEvent, flush, FlushWoken, CloseNotifies, Joined, Close, NotifyWriter
  <2>2. UNCHANGED <<errors, hasIOError, dropped, enqueueBuffer, dequeueBuffer, synced, file>>
    BY <1>6 DEF RefuseEvent, flush, FlushWoken, CloseNotifies, Joined, Close
  <2> QED BY <1>1, <1>2, <2>1, <2>2
<1>7. CASE Top
  <2>1. UNCHANGED <<errors, hasIOError, dropped>>
    BY <1>7 DEF Top
  <2>2. wpc' = "exited" /\ ~ hasIOError =>
          enqueueBuffer' = <<>> /\ dequeueBuffer' = <<>> /\ synced' = Len(file')
    BY <1>7 DEF Top
  <2>3. errors' = 0 => ~ hasIOError /\ \A e \in dropped' : TooLarge(e)
    BY <2>1 DEF ErrorInv
  <2> QED BY <2>1, <2>2, <2>3 DEF ErrorInv, TooLarge, EventSize
<1>8. CASE StartWriter \/ SwapFull \/ SwapNothing \/ Wait \/ TimesOut \/ Woken \/ BatchDone
           \/ Check \/ Sync \/ NotifyFlushed
  BY <1>1, <1>8 DEF StartWriter, SwapFull, SwapNothing, Wait, TimesOut, Woken, BatchDone, Check,
                    Sync, NotifyFlushed, Swap
<1>9. ASSUME NEW e \in 1 .. Events, ExitInError(e)
      PROVE  ErrorInv'
  <2>1. errors # 0 /\ errors' = errors
    BY <1>9 DEF ExitInError, ErrorInv
  <2> QED BY <2>1 DEF ErrorInv
<1>10. ASSUME NEW e \in 1 .. Events, Reopen(e)
       PROVE  ErrorInv'
  <2>1. UNCHANGED <<errors, dropped>> /\ ~ hasIOError' /\ wpc' # "exited"
    BY <1>10 DEF Reopen, InHand
  <2> QED BY <2>1 DEF ErrorInv, TooLarge, EventSize
<1>11. ASSUME NEW e \in 1 .. Events, Skip(e)
       PROVE  ErrorInv'
  <2>1. /\ TooLarge(e) /\ dropped' = dropped \cup {e} /\ UNCHANGED <<errors, hasIOError>>
        /\ wpc' # "exited"
    BY <1>11 DEF Skip, InHand
  <2>2. errors' = 0 => \A d \in dropped' : TooLarge(d)
    BY <2>1 DEF ErrorInv
  <2> QED BY <2>1, <2>2 DEF ErrorInv, TooLarge, EventSize
<1>12. ASSUME NEW e \in 1 .. Events, Pad(e) \/ Write(e)
       PROVE  ErrorInv'
  BY <1>1, <1>12 DEF Pad, Write, InHand
<1>13. CASE Elapse
  BY <1>2, <1>13 DEF Elapse
<1>14. CASE UNCHANGED vars
  BY <1>2, <1>14 DEF vars
<1> QED BY <1>3, <1>4, <1>5, <1>6, <1>7, <1>8, <1>9, <1>10, <1>11, <1>12, <1>13, <1>14
        DEF Next, ClientCalls, ClientStep, WriterStep, Reopens, Fails

\* When the client is gone, so is the writer, or there never was one.
LEMMA CloseMeans ==
  ASSUME TypeInv, PhaseInv, OrderInv, ErrorInv
  PROVE  CloseWritesAll
<1> SUFFICES ASSUME cpc = "gone", errors = 0, NEW e \in accepted, ~ TooLarge(e)
             PROVE  OnDisk(e)
  BY DEF CloseWritesAll
<1>1. wpc = "exited"
  BY DEF PhaseInv
<1>2. enqueueBuffer = <<>> /\ dequeueBuffer = <<>> /\ synced = Len(file) /\ e \notin dropped
  BY <1>1 DEF ErrorInv
<1>3. e \in Written
  BY <1>2 DEF OrderInv, Elems
<1>4. DOMAIN file = 1 .. Len(file)
  BY DEF TypeInv, TypeOK
<1> QED BY <1>2, <1>3, <1>4 DEF Written, OnDisk

-----------------------------------------------------------------------------
(* Chunks *)

\* offset_ is the end of the file until the file is opened again.
OffsetInv ==
  /\ ~ reopened /\ ~ hasIOError /\ wpc \notin {"none", "init"} => offset = FileSize
  /\ ~ reopened => NoEventCrossesChunk

\* seekToEnd finds the end of a file that the writer has not written to.
LEMMA SeekFindsEnd ==
  ASSUME TypeOK, file = <<>>, NEW s \in seekToEnd
  PROVE  s.offset + s.dispatch = FileSize
<1> DEFINE length == FileSize - LastChunk
           blocks == IF length = 0 THEN 0 ELSE ((length - 1) \div ReadBuffSize) * ReadBuffSize
<1>1. ~ Garbled
  BY DEF Garbled
<1>2. FileSize \in Nat /\ LastChunk \in Nat /\ LastChunk <= FileSize
  BY FileNumbers
<1>3. CASE base.torn
  <2>1. s = [offset |-> FileSize, dispatch |-> 0]
    BY <1>1, <1>3 DEF seekToEnd
  <2> QED BY <1>2, <2>1
<1>4. CASE ~ base.torn
  <2>1. s = [offset |-> LastChunk + blocks, dispatch |-> length - blocks]
    BY <1>1, <1>4 DEF seekToEnd
  <2>2. s.offset = LastChunk + blocks /\ s.dispatch = length - blocks
    BY <2>1
  <2>3. blocks \in Nat
    <3>1. CASE length = 0
      BY <3>1
    <3>2. CASE length # 0
      <4> DEFINE l == length - 1
      <4>1. l \in Nat /\ ReadBuffSize \in Nat \ {0}
        BY <1>2, <3>2, FileAssumption
      <4> HIDE DEF l
      <4>2. (l \div ReadBuffSize) * ReadBuffSize \in Nat
        BY <4>1
      <4>3. blocks = (l \div ReadBuffSize) * ReadBuffSize
        BY <3>2 DEF l
      <4> QED BY <4>2, <4>3
    <3> QED BY <3>1, <3>2
  <2> HIDE DEF blocks
  <2> QED BY <1>2, <2>2, <2>3
<1> QED BY <1>3, <1>4

\* A record is put where the file ends, and is the new end.
LEMMA AppendedEnd ==
  ASSUME TypeOK, NEW v \in 0 .. Events, NEW n \in Nat, file' = Appended(v, n)
  PROVE  /\ FileSize' = FileSize + n
         /\ NoEventCrossesChunk /\ (v # 0 => ~ Spans([ev |-> v, at |-> FileSize, size |-> n]))
              => NoEventCrossesChunk'
<1> DEFINE r == [ev |-> v, at |-> FileSize, size |-> n]
<1>1. /\ file' \in Seq(Records) /\ Len(file') = Len(file) + 1
      /\ file'[Len(file) + 1] = r /\ \A k \in DOMAIN file : file'[k] = file[k]
  BY AppendedRecords
<1>2. Len(file) \in Nat /\ DOMAIN file = 1 .. Len(file) /\ DOMAIN file' = 1 .. (Len(file) + 1)
  BY <1>1 DEF TypeOK
<1>3. file' # <<>> /\ file'[Len(file')] = r
  BY <1>1, <1>2
<1>4. FileSize' = FileSize + n
  BY <1>3 DEF FileSize
<1>5. \A k \in DOMAIN file' : k \in DOMAIN file \/ k = Len(file) + 1
  BY <1>2
<1>6. ASSUME NoEventCrossesChunk, v # 0 => ~ Spans(r), NEW k \in DOMAIN file', file'[k].ev # 0
      PROVE  ~ Spans(file'[k])
  <2>1. CASE k \in DOMAIN file
    BY <1>1, <1>6, <2>1 DEF NoEventCrossesChunk
  <2>2. CASE k = Len(file) + 1
    BY <1>1, <1>6, <2>2
  <2> QED BY <1>5, <2>1, <2>2
<1>7. ASSUME \A k \in DOMAIN file' : file'[k].ev # 0 => ~ Spans(file'[k])
      PROVE  NoEventCrossesChunk'
  BY <1>7 DEF NoEventCrossesChunk, Spans
<1> QED BY <1>4, <1>6, <1>7

\* Every step keeps OffsetInv: offset_ follows the end of the file.
LEMMA OffsetStep ==
  ASSUME TypeInv, PhaseInv, OffsetInv, [Next]_vars
  PROVE  OffsetInv'
<1> USE DEF buffers, disk, writer, history
<1>0. TypeOK /\ FileSize \in Nat
  BY FileNumbers DEF TypeInv
<1>1. ASSUME UNCHANGED <<file, base, offset, reopened, hasIOError>>,
             wpc \in {"none", "init"} => wpc' \in {"none", "init"}
      PROVE  OffsetInv'
  BY <1>1 DEF OffsetInv, NoEventCrossesChunk, Spans, FileSize
\* After an error offset_ is not looked at before the file is opened again.
<1>2. ASSUME UNCHANGED <<file, reopened>>, hasIOError' = TRUE
      PROVE  OffsetInv'
  BY <1>2 DEF OffsetInv, NoEventCrossesChunk, Spans
<1>3. CASE RefuseEvent \/ flush \/ FlushWoken \/ CloseNotifies \/ Joined \/ Close
  BY <1>1, <1>3 DEF RefuseEvent, flush, FlushWoken, CloseNotifies, Joined, Close, NotifyWriter
<1>4. CASE enqueueEvent \/ EnqueueWoken
  BY <1>1, <1>4 DEF enqueueEvent, EnqueueWoken, NotifyWriter
<1>5. CASE StartWriter
  <2>1. file = <<>> /\ UNCHANGED <<file, reopened>>
    BY <1>5 DEF StartWriter, PhaseInv
  <2>2. PICK s \in seekToEnd :
          /\ offset' = s.offset + s.dispatch
          /\ base' = IF offset' < base.size THEN [size |-> offset', torn |-> FALSE] ELSE base
    BY <1>5 DEF StartWriter
  <2>3. offset' = FileSize /\ FileSize = base.size
    BY <1>0, <2>1, <2>2, SeekFindsEnd DEF FileSize
  <2>4. base' = base
    BY <1>0, <2>2, <2>3
  <2>5. offset' = FileSize'
    BY <2>1, <2>3, <2>4 DEF FileSize
  <2> QED BY <2>1, <2>5 DEF OffsetInv, NoEventCrossesChunk, Spans
<1>6. CASE StartFails
  BY <1>2, <1>6 DEF StartFails
<1>7. ASSUME NEW e \in 1 .. Events, WriteFails(e)
      PROVE  OffsetInv'
  BY <1>2, <1>7 DEF WriteFails
<1>8. CASE Top \/ SwapFull \/ SwapNothing \/ Wait \/ TimesOut \/ Woken \/ BatchDone
           \/ Check \/ Sync \/ NotifyFlushed
  <2>1. wpc \notin {"none", "init"} /\ UNCHANGED <<file, base, offset, reopened, hasIOError>>
    BY <1>8 DEF Top, SwapFull, SwapNothing, Wait, TimesOut, Woken, BatchDone, Check, Sync,
                NotifyFlushed
  <2> QED BY <1>1, <2>1
<1>9. CASE Elapse
  BY <1>1, <1>9 DEF Elapse
<1>10. ASSUME NEW e \in 1 .. Events, ExitInError(e) \/ Skip(e)
       PROVE  OffsetInv'
  <2>1. wpc = "write" /\ UNCHANGED <<file, base, offset, reopened, hasIOError>>
    BY <1>10 DEF ExitInError, Skip, InHand
  <2> QED BY <1>1, <2>1
<1>11. ASSUME NEW e \in 1 .. Events, Reopen(e)
       PROVE  OffsetInv'
  <2>1. reopened' = TRUE
    BY <1>11 DEF Reopen
  <2> QED BY <2>1 DEF OffsetInv
<1>12. ASSUME NEW e \in 1 .. Events, Pad(e)
       PROVE  OffsetInv'
  <2>1. PICK n \in Nat : file' = Appended(0, n) /\ offset' = FileSize + n
    BY <1>0, <1>12, Sizes DEF Pad
  <2>2. 0 \in 0 .. Events
    BY FileAssumption
  <2>3. FileSize' = FileSize + n /\ (NoEventCrossesChunk => NoEventCrossesChunk')
    BY <1>0, <2>1, <2>2, AppendedEnd
  <2>4. reopened' = reopened
    BY <1>12 DEF Pad
  <2> QED BY <2>1, <2>3, <2>4 DEF OffsetInv
<1>13. ASSUME NEW e \in 1 .. Events, Write(e)
       PROVE  OffsetInv'
  <2> DEFINE n == EventSize(e)
  <2>1. /\ file' = Appended(e, n) /\ offset' = offset + n /\ ~ CrossesChunk(e)
        /\ wpc = "write" /\ ~ hasIOError /\ reopened' = reopened
    BY <1>13 DEF Write, InHand
  <2>2. e \in 0 .. Events /\ n \in Nat
    BY <1>0, Sizes, FileAssumption
  <2>3. ~ reopened => offset = FileSize /\ NoEventCrossesChunk
    BY <2>1 DEF OffsetInv
  <2>4. offset = FileSize => ~ Spans([ev |-> e, at |-> FileSize, size |-> n])
    BY <2>1 DEF CrossesChunk, Spans
  <2> HIDE DEF n
  <2>5. /\ FileSize' = FileSize + n
        /\ NoEventCrossesChunk /\ (e # 0 => ~ Spans([ev |-> e, at |-> FileSize, size |-> n]))
             => NoEventCrossesChunk'
    BY <1>0, <2>1, <2>2, AppendedEnd
  <2> QED BY <2>1, <2>3, <2>4, <2>5 DEF OffsetInv
<1>14. CASE UNCHANGED vars
  BY <1>1, <1>14 DEF vars
<1> QED BY <1>3, <1>4, <1>5, <1>6, <1>7, <1>8, <1>9, <1>10, <1>11, <1>12, <1>13, <1>14
        DEF Next, ClientCalls, ClientStep, WriterStep, Reopens, Fails

-----------------------------------------------------------------------------
(* Theorems *)

FileInv == TypeInv /\ SyncInv /\ PhaseInv /\ OrderInv /\ FlushInv /\ ErrorInv /\ OffsetInv

\* The inductive invariant of the log file: in every step of the client, the
\* writer and the clock, each part is kept with the help of those before it.
THEOREM FileInvariant == Spec => []FileInv
<1>1. Init => FileInv
  <2> SUFFICES ASSUME Init
               PROVE  FileInv
    OBVIOUS
  <2>1. /\ file = <<>> /\ enqueueBuffer = <<>> /\ dequeueBuffer = <<>> /\ Len(file) = 0 /\ synced = 0
        /\ DOMAIN <<>> = {}
    BY DEF Init
  <2>2. TypeInv
    <3>1. base \in [size : Nat, torn : BOOLEAN] /\ next \in 1 .. Events + 1 /\ errors \in 0 .. MaxErrors
      BY FileAssumption DEF Init
    <3>2. /\ file \in Seq([ev : 0 .. Events, at : Nat, size : Nat])
          /\ enqueueBuffer \in Seq(1 .. Events) /\ dequeueBuffer \in Seq(1 .. Events)
      BY <2>1
    <3> QED BY <3>1, <3>2 DEF Init, TypeInv, TypeOK
  <2>3. SyncInv
    BY <2>1 DEF SyncInv
  <2>4. PhaseInv
    BY DEF Init, PhaseInv
  <2>5. OrderInv
    BY <2>1 DEF Init, OrderInv, FileAscends, Ascends, Written, Elems
  <2>6. FlushInv
    BY DEF Init, FlushInv
  <2>7. ErrorInv
    BY DEF Init, ErrorInv
  <2>8. OffsetInv
    BY <2>1 DEF Init, OffsetInv, NoEventCrossesChunk
  <2> QED BY <2>2, <2>3, <2>4, <2>5, <2>6, <2>7, <2>8 DEF FileInv
<1>2. FileInv /\ [Next]_vars => FileInv'
  BY TypeStep, DiskGrows, PhaseStep, OrderStep, FlushStep, ErrorStep, OffsetStep DEF FileInv
<1> QED BY <1>1, <1>2, PTL DEF Spec

\* Every variable of the transport keeps its type.
THEOREM TypeCorrect == Spec => []TypeOK
<1>1. FileInv => TypeOK
  BY DEF FileInv, TypeInv
<1> QED BY <1>1, FileInvariant, PTL

\* The events in the file and on the buffers are the accepted and not dropped
\* ones, each once and in their order, however swaps and errors interleave.
THEOREM EventsKeptInOrder == Spec => []EventsInOrder
<1>1. FileInv => EventsInOrder
  BY OrderMeans DEF FileInv
<1> QED BY <1>1, FileInvariant, PTL

\* The destructor returns only when the writer has emptied the buffers and
\* synced the file, if no call failed.
THEOREM CloseIsComplete == Spec => []CloseWritesAll
<1>1. FileInv => CloseWritesAll
  BY CloseMeans DEF FileInv
<1> QED BY <1>1, FileInvariant, PTL

\* offset_ follows the end of the file until a failed call makes the writer
\* open the file again, so that the padding keeps events within chunks.
THEOREM ChunksKept == Spec => []CrossingNeedsReopen
<1>1. FileInv => CrossingNeedsReopen
  BY DEF FileInv, OffsetInv, NoEventCrossesChunk, CrossingNeedsReopen
<1> QED BY <1>1, FileInvariant, PTL

\* flush() returns only after the fsync that covers every event accepted before.
THEOREM FlushIsComplete == Spec => FlushedMeansOnDisk
<1>1. FileInv /\ [Next]_vars =>
        [cpc = "flushWoken" /\ cpc' = "ready" => \A e \in accepted \ dropped : OnDisk(e)]_vars
  BY DEF FileInv, FlushInv
<1> QED BY <1>1, FileInvariant, PTL DEF Spec, FlushedMeansOnDisk
=============================================================================
