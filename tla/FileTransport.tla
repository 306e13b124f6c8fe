--------------------------- MODULE FileTransport ---------------------------
(***************************************************************************)
(* transport/TFileTransport.cpp of the Thrift C++ library: a log file that *)
(* one client thread writes events to.  write() puts an event on           *)
(* enqueueBuffer_; the writer thread swaps it with dequeueBuffer_, writes  *)
(* the events to the file, so that none crosses the boundary of a chunk,   *)
(* and syncs the file now and then, or when flush() asks for it.           *)
(*                                                                         *)
(* mutex_ is held within an action, and by the writer at "toWait", between *)
(* its last look at the buffer and its wait() on notEmpty_.  A thread in   *)
(* wait() is "...Waiting"; notify() makes it "...Woken".                   *)
(*                                                                         *)
(* One file is written from the constructor to the destructor: that the    *)
(* client gives another one with resetOutputFile() is not modelled.        *)
(***************************************************************************)
EXTENDS Naturals, Sequences, FiniteSets

CONSTANTS
  Events,           \* bound: the events are 1 .. Events, written in this order
  Length,           \* Length[e]: eventLen, the length of the contents of e
  Header,           \* the length of the size that precedes the contents
  ChunkSize,        \* chunkSize_
  ReadBuffSize,     \* readBuffSize_
  MaxEventSize,     \* maxEventSize_, 0 for no limit
  EventBufferSize,  \* eventBufferSize_
  FlushMaxBytes,    \* flushMaxBytes_
  Leftovers,        \* what earlier runs may have left in the file
  MaxErrors         \* bound: how often a system call of the writer fails

VARIABLES
  enqueueBuffer, dequeueBuffer,   \* the events on the buffers; of the latter, those not yet written
  closing, forceFlush, offset,    \* closing_, forceFlush_ and offset_
  base,        \* the size of what an earlier run left, and whether its last event is torn
  file,        \* what the writer has appended: events, or 0 for padding, with place and size
  synced,      \* how many records of file are on disk for good
  wpc,         \* where the writer thread is
  hasIOError, unflushed, forced,  \* its local variables
  due,         \* the time ts_next_flush is over
  cpc,         \* where the client thread is
  next,        \* the event the client writes next
  accepted,    \* history: the events put on enqueueBuffer
  dropped,     \* history: the events taken off a buffer and not written
  reopened,    \* history: the file was opened again
  errors       \* history: number of failed calls

buffers == <<enqueueBuffer, dequeueBuffer>>
disk == <<base, file, synced>>
writer == <<hasIOError, unflushed, forced, due>>
history == <<accepted, dropped, reopened, errors>>
vars == <<enqueueBuffer, dequeueBuffer, closing, forceFlush, offset, base, file, synced, wpc,
          hasIOError, unflushed, forced, due, cpc, next, accepted, dropped, reopened, errors>>

ASSUME FileAssumption ==
  /\ Events \in Nat
  /\ Length \in [1 .. Events -> Nat \ {0}]
  /\ {Header, ChunkSize, ReadBuffSize, EventBufferSize} \subseteq Nat \ {0}
  /\ {MaxEventSize, FlushMaxBytes, MaxErrors} \subseteq Nat
  /\ Leftovers \subseteq [size : Nat, torn : BOOLEAN]

Init ==
  /\ enqueueBuffer = <<>> /\ dequeueBuffer = <<>>
  /\ closing = FALSE /\ forceFlush = FALSE /\ offset = 0
  /\ base \in Leftovers
  /\ file = <<>> /\ synced = 0
  /\ wpc = "none"
  /\ hasIOError = FALSE /\ unflushed = 0 /\ forced = FALSE /\ due = FALSE
  /\ cpc = "ready" /\ next = 1
  /\ accepted = {} /\ dropped = {} /\ reopened = FALSE /\ errors = 0

-----------------------------------------------------------------------------
(* The file *)

\* eventSize_, with the length that is written before the contents.
EventSize(e) == Length[e] + Header

FileSize ==
  IF file = <<>> THEN base.size ELSE file[Len(file)].at + file[Len(file)].size

\* O_APPEND: whatever offset_ says, a write goes to the end.
Appended(e, size) == Append(file, [ev |-> e, at |-> FileSize, size |-> size])

Spans(r) == r.at \div ChunkSize # (r.at + r.size - 1) \div ChunkSize

LastChunk == (FileSize \div ChunkSize) * ChunkSize

\* Read from its beginning, the last chunk does not fall into events: an event
\* crosses into it, or a torn event is followed by others.
Garbled ==
  \/ base.torn /\ base.size > LastChunk /\ file # <<>>
  \/ \E k \in DOMAIN file : file[k].at < LastChunk /\ file[k].at + file[k].size > LastChunk

\* seekToEnd: the last chunk is read by blocks of ReadBuffSize.  offset_ is
\* left where the last block begins, and lastDispatchPtr_ is how far into it
\* the last event ends.  Only a torn event makes readEvent meet the end of the
\* file, where it moves offset_ on and resets lastDispatchPtr_.
seekToEnd ==
  LET length == FileSize - LastChunk
      blocks == IF length = 0 THEN 0 ELSE ((length - 1) \div ReadBuffSize) * ReadBuffSize
  IN  IF Garbled THEN [offset : LastChunk .. FileSize, dispatch : {0}]
      ELSE IF base.torn /\ file = <<>> THEN {[offset |-> FileSize, dispatch |-> 0]}
      ELSE {[offset |-> LastChunk + blocks, dispatch |-> length - blocks]}

\* Mutant: off by one.
CrossesChunkLate(e) == offset \div ChunkSize # (offset + EventSize(e) - 2) \div ChunkSize

\* The test of the writer, by offset_.
CrossesChunk(e) == offset \div ChunkSize # (offset + EventSize(e) - 1) \div ChunkSize

-----------------------------------------------------------------------------
(* The client thread *)

MutexFree == wpc # "toWait"

\* notEmpty_.notify()
NotifyWriter == wpc' = IF wpc = "waiting" THEN "woken" ELSE wpc

\* notFull_.notify()
NotifyNotFull == cpc' = IF cpc = "fullWaiting" THEN "fullWoken" ELSE cpc

AddEvent ==
  /\ enqueueBuffer' = Append(enqueueBuffer, next)
  /\ accepted' = accepted \cup {next}
  /\ next' = next + 1
  /\ cpc' = "ready"

\* write(): an event that is too large is not taken.
RefuseEvent ==
  /\ cpc = "ready" /\ next <= Events
  /\ MaxEventSize > 0 /\ Length[next] > MaxEventSize
  /\ next' = next + 1
  /\ UNCHANGED <<buffers, closing, forceFlush, offset, disk, wpc, writer, cpc, history>>

\* write(): the first call starts the writer thread.
enqueueEvent ==
  /\ cpc = "ready" /\ next <= Events
  /\ MaxEventSize = 0 \/ Length[next] <= MaxEventSize
  /\ MutexFree
  /\ IF Len(enqueueBuffer) = EventBufferSize
       THEN cpc' = "fullWaiting" /\ UNCHANGED <<enqueueBuffer, accepted, next, wpc>>
       ELSE /\ AddEvent
            /\ IF wpc = "none" THEN wpc' = "init" ELSE NotifyWriter
  /\ UNCHANGED <<dequeueBuffer, closing, forceFlush, offset, disk, writer, dropped, reopened, errors>>

EnqueueWoken ==
  /\ cpc = "fullWoken" /\ MutexFree
  /\ IF Len(enqueueBuffer) = EventBufferSize
       THEN cpc' = "fullWaiting" /\ UNCHANGED <<enqueueBuffer, accepted, next, wpc>>
       ELSE AddEvent /\ NotifyWriter
  /\ UNCHANGED <<dequeueBuffer, closing, forceFlush, offset, disk, writer, dropped, reopened, errors>>

\* flush(), which returns at once if there is no writer thread.
flush ==
  /\ cpc = "ready" /\ wpc # "none" /\ MutexFree
  /\ forceFlush' = TRUE
  /\ NotifyWriter
  /\ cpc' = "flushWaiting"
  /\ UNCHANGED <<buffers, closing, offset, disk, writer, next, history>>

FlushWoken ==
  /\ cpc = "flushWoken" /\ MutexFree
  /\ cpc' = IF forceFlush THEN "flushWaiting" ELSE "ready"
  /\ UNCHANGED <<buffers, closing, forceFlush, offset, disk, wpc, writer, next, history>>

\* The destructor sets closing_ and notifies without taking mutex_.
Close ==
  /\ cpc = "ready"
  /\ closing' = (wpc # "none")
  /\ cpc' = IF wpc = "none" THEN "gone" ELSE "closing"
  /\ UNCHANGED <<buffers, forceFlush, offset, disk, wpc, writer, next, history>>

CloseNotifies ==
  /\ cpc = "closing"
  /\ NotifyWriter
  /\ cpc' = "joining"
  /\ UNCHANGED <<buffers, closing, forceFlush, offset, disk, writer, next, history>>

Joined ==
  /\ cpc = "joining" /\ wpc = "exited"
  /\ cpc' = "gone"
  /\ UNCHANGED <<buffers, closing, forceFlush, offset, disk, wpc, writer, next, history>>

-----------------------------------------------------------------------------
(* swapEventBuffers *)

Swap ==
  /\ enqueueBuffer' = dequeueBuffer /\ dequeueBuffer' = enqueueBuffer
  /\ NotifyNotFull
  /\ wpc' = "write"

SwapFull ==
  /\ wpc = "swap" /\ enqueueBuffer # <<>>
  /\ Swap
  /\ UNCHANGED <<closing, forceFlush, offset, disk, writer, next, history>>

SwapNothing ==
  /\ wpc = "swap" /\ enqueueBuffer = <<>>
  /\ wpc' = IF closing THEN "check" ELSE "toWait"
  /\ UNCHANGED <<buffers, closing, forceFlush, offset, disk, writer, cpc, next, history>>

Wait ==
  /\ wpc = "toWait"
  /\ wpc' = "waiting"
  /\ UNCHANGED <<buffers, closing, forceFlush, offset, disk, writer, cpc, next, history>>

\* Mutant: the wait has no deadline.
NeverTimesOut ==
  /\ FALSE
  /\ UNCHANGED vars

\* The wait ends at the time of the next flush.
TimesOut ==
  /\ wpc = "waiting" /\ due
  /\ wpc' = "woken"
  /\ UNCHANGED <<buffers, closing, forceFlush, offset, disk, writer, cpc, next, history>>

\* After a wait the buffers are swapped if there is nothing to write; events
\* that have come are left to the next turn of the loop.
Woken ==
  /\ wpc = "woken"
  /\ IF enqueueBuffer = <<>> THEN Swap ELSE wpc' = "check" /\ UNCHANGED <<buffers, cpc>>
  /\ UNCHANGED <<closing, forceFlush, offset, disk, writer, next, history>>

-----------------------------------------------------------------------------
(* writerThread *)

\* The beginning: offset_ is set to the end of the file, "partial events" cut off.
StartWriter ==
  /\ wpc = "init"
  /\ \E s \in seekToEnd :
       /\ offset' = s.offset + s.dispatch
       /\ base' = IF offset' < base.size THEN [size |-> offset', torn |-> FALSE] ELSE base
  /\ wpc' = "top" /\ due' = FALSE
  /\ UNCHANGED <<buffers, closing, forceFlush, file, synced, hasIOError, unflushed, forced, cpc, next, history>>

StartFails ==
  /\ wpc = "init" /\ errors < MaxErrors
  /\ hasIOError' = TRUE /\ errors' = errors + 1
  /\ wpc' = "top" /\ due' = FALSE
  /\ UNCHANGED <<buffers, closing, forceFlush, offset, disk, unflushed, forced, cpc, next,
                 accepted, dropped, reopened>>

\* Mutant: the writer does not empty the buffers before it goes.
TopImpatient ==
  /\ wpc = "top"
  /\ IF closing THEN wpc' = "exited" /\ synced' = IF hasIOError THEN synced ELSE Len(file)
     ELSE wpc' = "swap" /\ synced' = synced
  /\ UNCHANGED <<buffers, closing, forceFlush, offset, base, file, writer, cpc, next, history>>

\* The top of the loop: the writer goes when the transport closes, at once
\* after an error, and else with its buffers empty and the file synced.
Top ==
  /\ wpc = "top"
  /\ IF closing /\ (hasIOError \/ (enqueueBuffer = <<>> /\ dequeueBuffer = <<>>))
       THEN wpc' = "exited" /\ synced' = IF hasIOError THEN synced ELSE Len(file)
       ELSE wpc' = "swap" /\ synced' = synced
  /\ UNCHANGED <<buffers, closing, forceFlush, offset, base, file, writer, cpc, next, history>>

\* An event is in hand: the oldest on dequeueBuffer_.
InHand(e) == wpc = "write" /\ dequeueBuffer # <<>> /\ e = Head(dequeueBuffer)

TooLarge(e) ==
  \/ MaxEventSize > 0 /\ EventSize(e) > MaxEventSize
  \/ EventSize(e) > ChunkSize

\* After an error the file is opened again.  As long as that fails, the
\* writer sleeps and tries again, and nothing changes.
Reopen(e) ==
  /\ InHand(e) /\ hasIOError /\ ~ closing
  /\ \E s \in seekToEnd : offset' = s.offset
  /\ unflushed' = 0 /\ hasIOError' = FALSE
  /\ reopened' = TRUE
  /\ UNCHANGED <<buffers, closing, forceFlush, disk, wpc, forced, due, cpc, next, accepted, dropped, errors>>

ExitInError(e) ==
  /\ InHand(e) /\ hasIOError /\ closing
  /\ wpc' = "exited"
  /\ UNCHANGED <<buffers, closing, forceFlush, offset, disk, writer, cpc, next, history>>

Skip(e) ==
  /\ InHand(e) /\ ~ hasIOError /\ TooLarge(e)
  /\ dequeueBuffer' = Tail(dequeueBuffer) /\ dropped' = dropped \cup {e}
  /\ UNCHANGED <<enqueueBuffer, closing, forceFlush, offset, disk, wpc, writer, cpc, next,
                 accepted, reopened, errors>>

\* Zeros are written up to the end of the chunk, from where the file really
\* ends; the event fits then.
Pad(e) ==
  /\ InHand(e) /\ ~ hasIOError /\ ~ TooLarge(e) /\ CrossesChunk(e)
  /\ LET padding == ChunkSize - (FileSize % ChunkSize)
     IN  /\ file' = Appended(0, padding)
         /\ unflushed' = unflushed + padding
         /\ offset' = FileSize + padding
  /\ UNCHANGED <<buffers, closing, forceFlush, base, synced, wpc, hasIOError, forced, due,
                 cpc, next, history>>

\* Mutant: what is written is not counted.
WriteUncounted(e) ==
  /\ InHand(e) /\ ~ hasIOError /\ ~ TooLarge(e) /\ ~ CrossesChunk(e)
  /\ file' = Appended(e, EventSize(e))
  /\ offset' = offset + EventSize(e)
  /\ dequeueBuffer' = Tail(dequeueBuffer)
  /\ UNCHANGED <<enqueueBuffer, closing, forceFlush, base, synced, wpc, hasIOError, unflushed,
                 forced, due, cpc, next, history>>

Write(e) ==
  /\ InHand(e) /\ ~ hasIOError /\ ~ TooLarge(e) /\ ~ CrossesChunk(e)
  /\ file' = Appended(e, EventSize(e))
  /\ unflushed' = unflushed + EventSize(e)
  /\ offset' = offset + EventSize(e)
  /\ dequeueBuffer' = Tail(dequeueBuffer)
  /\ UNCHANGED <<enqueueBuffer, closing, forceFlush, base, synced, wpc, hasIOError, forced, due,
                 cpc, next, history>>

\* Mutant: the event goes back to the end of the buffer.
WriteRetried(e) ==
  /\ InHand(e) /\ ~ hasIOError /\ ~ TooLarge(e) /\ errors < MaxErrors
  /\ hasIOError' = TRUE /\ errors' = errors + 1
  /\ dequeueBuffer' = Append(Tail(dequeueBuffer), e)
  /\ UNCHANGED <<enqueueBuffer, closing, forceFlush, offset, disk, wpc, unflushed, forced, due,
                 cpc, next, accepted, dropped, reopened>>

\* Writing the event, or the zeros before it, fails, and the event is dropped.
WriteFails(e) ==
  /\ InHand(e) /\ ~ hasIOError /\ ~ TooLarge(e) /\ errors < MaxErrors
  /\ hasIOError' = TRUE /\ errors' = errors + 1
  /\ dequeueBuffer' = Tail(dequeueBuffer) /\ dropped' = dropped \cup {e}
  /\ UNCHANGED <<enqueueBuffer, closing, forceFlush, offset, disk, wpc, unflushed, forced, due,
                 cpc, next, accepted, reopened>>

BatchDone ==
  /\ wpc = "write" /\ dequeueBuffer = <<>>
  /\ wpc' = "check"
  /\ UNCHANGED <<buffers, closing, forceFlush, offset, disk, writer, cpc, next, history>>

\* Mutant: a forced flush does not wait for the events on enqueueBuffer_.
CheckImpatient ==
  /\ wpc = "check"
  /\ wpc' = IF hasIOError THEN "top"
            ELSE IF forceFlush \/ unflushed > FlushMaxBytes \/ (due /\ unflushed > 0) THEN "sync"
            ELSE "top"
  /\ forced' = (~ hasIOError /\ forceFlush)
  /\ due' = IF wpc' = "top" /\ ~ hasIOError THEN FALSE ELSE due
  /\ UNCHANGED <<buffers, closing, forceFlush, offset, disk, hasIOError, unflushed, cpc, next, history>>

\* Is the file to be synced?  Not after an error; a forced flush only with
\* enqueueBuffer_ empty; else by the bytes or by the time.
Check ==
  /\ wpc = "check"
  /\ LET again == hasIOError \/ (forceFlush /\ enqueueBuffer # <<>>)
     IN  /\ forced' = (~ again /\ forceFlush)
         /\ wpc' = IF ~ again /\ (forceFlush \/ unflushed > FlushMaxBytes \/ (due /\ unflushed > 0))
                     THEN "sync" ELSE "top"
         /\ due' = IF wpc' = "top" /\ ~ again THEN FALSE ELSE due
  /\ UNCHANGED <<buffers, closing, forceFlush, offset, disk, hasIOError, unflushed, cpc, next, history>>

Sync ==
  /\ wpc = "sync"
  /\ synced' = Len(file) /\ unflushed' = 0 /\ due' = FALSE
  /\ wpc' = IF forced THEN "flushed" ELSE "top"
  /\ UNCHANGED <<buffers, closing, forceFlush, offset, base, file, hasIOError, forced, cpc, next, history>>

\* Mutant: nobody is notified.
NotifyFlushedQuietly ==
  /\ wpc = "flushed"
  /\ forceFlush' = FALSE
  /\ wpc' = "top"
  /\ UNCHANGED <<buffers, closing, offset, disk, writer, cpc, next, history>>

\* flushed_.notifyAll()
NotifyFlushed ==
  /\ wpc = "flushed"
  /\ forceFlush' = FALSE
  /\ cpc' = IF cpc = "flushWaiting" THEN "flushWoken" ELSE cpc
  /\ wpc' = "top"
  /\ UNCHANGED <<buffers, closing, offset, disk, writer, next, history>>

\* Time passes.
Elapse ==
  /\ ~ due /\ wpc \notin {"none", "init", "exited"}
  /\ due' = TRUE
  /\ UNCHANGED <<buffers, closing, forceFlush, offset, disk, wpc, hasIOError, unflushed, forced,
                 cpc, next, history>>

-----------------------------------------------------------------------------
ClientCalls == RefuseEvent \/ enqueueEvent \/ flush \/ Close
ClientStep == EnqueueWoken \/ FlushWoken \/ CloseNotifies \/ Joined

WriterStep ==
  \/ StartWriter \/ Top \/ SwapFull \/ SwapNothing \/ Wait \/ TimesOut \/ Woken
  \/ \E e \in 1 .. Events : ExitInError(e) \/ Skip(e) \/ Pad(e) \/ Write(e)
  \/ BatchDone \/ Check \/ Sync \/ NotifyFlushed

Reopens == \E e \in 1 .. Events : Reopen(e)
Fails == StartFails \/ \E e \in 1 .. Events : WriteFails(e)

Next == ClientCalls \/ ClientStep \/ WriterStep \/ Reopens \/ Fails \/ Elapse

Spec == Init /\ [][Next]_vars

\* Both threads are scheduled and time passes; the client gets mutex_, which is
\* free during each wait of the writer.  Nothing makes the client call a
\* function, and the file may never come back after an error.
FairSpec == Spec /\ SF_vars(ClientStep) /\ WF_vars(WriterStep) /\ WF_vars(Elapse)

-----------------------------------------------------------------------------
(* Properties *)

TypeOK ==
  /\ enqueueBuffer \in Seq(1 .. Events) /\ dequeueBuffer \in Seq(1 .. Events)
  /\ closing \in BOOLEAN /\ forceFlush \in BOOLEAN /\ offset \in Nat
  /\ base \in [size : Nat, torn : BOOLEAN]
  /\ file \in Seq([ev : 0 .. Events, at : Nat, size : Nat]) /\ synced \in Nat
  /\ wpc \in {"none", "init", "top", "swap", "toWait", "waiting", "woken", "write", "check",
              "sync", "flushed", "exited"}
  /\ hasIOError \in BOOLEAN /\ unflushed \in Nat /\ forced \in BOOLEAN /\ due \in BOOLEAN
  /\ cpc \in {"ready", "fullWaiting", "fullWoken", "flushWaiting", "flushWoken", "closing",
              "joining", "gone"}
  /\ next \in 1 .. Events + 1
  /\ accepted \subseteq 1 .. Events /\ dropped \subseteq 1 .. Events
  /\ reopened \in BOOLEAN /\ errors \in 0 .. MaxErrors

OnDisk(e) == \E k \in 1 .. synced : file[k].ev = e

\* The events in the file, then those on the two buffers, with 0 for padding.
Line == [k \in DOMAIN file |-> file[k].ev] \o dequeueBuffer \o enqueueBuffer

\* The events in the file and on the buffers are the events that were accepted
\* and not dropped, each once and in the order they were written: swapping
\* buffers and recovering from errors neither repeats nor reorders them.
EventsInOrder ==
  /\ {Line[k] : k \in DOMAIN Line} \ {0} = accepted \ dropped
  /\ \A j, k \in DOMAIN Line : j < k /\ Line[k] # 0 => Line[j] < Line[k]

\* When flush() returns, every event that was accepted is on disk for good, if
\* it was not dropped.
FlushedMeansOnDisk ==
  [][cpc = "flushWoken" /\ cpc' = "ready" => \A e \in accepted \ dropped : OnDisk(e)]_vars

\* When the destructor is through and no call had failed, nothing is left on
\* the buffers, the file is synced, and only events too large are missing.
CloseWritesAll ==
  cpc = "gone" /\ errors = 0 => \A e \in accepted : OnDisk(e) \/ TooLarge(e)

\* An event crosses the boundary of a chunk only after the file was opened
\* again in error recovery, which leaves offset_ behind the end of the file.
CrossingNeedsReopen ==
  (\E k \in DOMAIN file : file[k].ev # 0 /\ Spans(file[k])) => reopened

\* The destructor returns, although its notify may come between the writer's
\* last look and its wait, and although the file may never be writable again.
DestructorReturns == closing ~> cpc = "gone"

\* Without any flush(), what is written is synced in time, unless a call fails.
SyncedInTime ==
  \A e \in 1 .. Events :
    (\E k \in DOMAIN file : file[k].ev = e) ~> (OnDisk(e) \/ errors > 0)

\* flush() returns, unless a call of the writer fails: the writer looks at
\* forceFlush_ only while hasIOError is not set, and it stays set until there
\* is another event to write.
FlushReturnsUnlessError == forceFlush ~> (cpc = "ready" \/ errors > 0)

\* TFileTransport.cpp:444: "make sure that msg does not cross chunk boundary".
NoEventCrossesChunk == \A k \in DOMAIN file : file[k].ev # 0 => ~ Spans(file[k])
=============================================================================
